SPECIFICATION Spec
CONSTANTS
  k1 = k1  k2 = k2
  p1 = p1  p2 = p2
  c1 = c1  c2 = c2
  agg_sig = agg_sig
  PublicKey <- MCPublicKey
  Commitment <- MCCommitment
  Signature <- MCSignature
  VerifiedSig <- MCSignature
  Block <- MCBlock
  DigestLen = 32
  MaxBlocks = 2
  Operator <- MCOperator
  FeeAddress <- MCFeeAddress
  PublisherFee <- MCPublisherFee
  Nullifier <- MCNullifier
  AggregateSig = agg_sig
  MaxPending = 2
  MaxSubmissions = 3
  MaxAggregates = 2
INVARIANTS
  PublisherTypeOK
  FeeFloorKept
  LostOnlyIfOvertaken
