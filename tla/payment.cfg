SPECIFICATION Spec
CONSTANTS
  ka = ka  kb = kb  mint = mint
  Key <- MCKey
  OldCoin <- MCOldCoin
  Index = {0, 1, 2}
  FEE_IDX = 2
  MaxAmount = 2
  OverflowChecks = FALSE
  NewCoins <- MCNewCoins
  Fee = {1}
  FeeAcct = {ka}
  Openings = {1}
  MaxSpent = 1
  MaxPayments = 2
  MaxNavs = 4
  VerifyNonMembershipAndInsert <- SetNonMembershipAndInsert
  VerifyUnionMembership <- SeqUnionMembership
  VerifyIsPrefix <- SeqIsPrefix
  VerifyDistinctElement <- SeqDistinctElement
INVARIANTS
  PaymentTypeOK
  CoinSpentOnce
  CoinIdUnique
  OneOutcome
  FeeFollowsOutcome
