SPECIFICATION NodeSpec
CONSTANTS
  k1 = k1  k2 = k2  k3 = k3
  c1 = c1  c2 = c2
  good = good  bad = bad
  PublicKey <- MCPublicKey
  Commitment <- MCCommitment
  Signature <- MCSignature
  VerifiedSig <- MCVerifiedSig
  Block <- MCBlock
  DigestLen = 32
  MaxBlocks = 4
INVARIANT
  RepublishedAccumulated
