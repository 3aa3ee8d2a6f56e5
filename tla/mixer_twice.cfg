SPECIFICATION Spec
CONSTANTS
  k1 = k1  k2 = k2  c1 = c1  mixer = mixer  good = good
  alice = alice  bob = bob
  PublicKey <- MCPublicKey
  Commitment <- MCCommitment
  Signature <- MCSignature
  VerifiedSig <- MCSignature
  Block <- MCOneBlock
  DigestLen = 32
  MaxBlocks = 1
  User <- MCUser
  Coin <- MCCoins
  NodeCoins <- MCNodeCoins
  InitialLiabilities <- MCLiabilities
  AccountId = {a1}
  MixerAddress = mixer
  WithdrawAmount <- MCWithdrawAmount
  Destination <- MCDestination
  WithdrawalServiceFee = 1
  AllowBatchedWithdrawals = FALSE
  MaxBatchSize = 1
  MaxAmount = 4
  MaxDeposits = 2
  MaxRequests = 0
  MaxDeliveries = 0
INVARIANT
  CoinCreditedOnce
