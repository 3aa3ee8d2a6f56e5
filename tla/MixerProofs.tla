----------------------------- MODULE MixerProofs -----------------------------
(***************************************************************************)
(* Proofs about Mixer, for every set of users, coins and accounts and      *)
(* every fee, bound and policy.                                            *)
(***************************************************************************)
EXTENDS Mixer, MixerNodeProofs

-----------------------------------------------------------------------------
(* The mixer does to the node only what the node's specification allows,   *)
(* so that what is proved of the node holds of it inside the mixer.        *)

\* A step of the whole is one of the node, or leaves the node alone.
LEMMA StepsOutsideNode ==
  ASSUME [Next]_vars
  PROVE  NodeNext \/ UNCHANGED nodeVars
BY DEF Next, vars, NodeStep, CreatePoolAccount, ReceiveDeposit,
       ConsolidateIntoPool, QueueWithdrawal, Deliver,
       ProcessSingleWithdrawal, ProcessBatchedWithdrawals

\* The composition implements the node's specification.
THEOREM MixerImplementsNode == Spec => NodeSpec
<1>1. Init => NodeInit
  BY DEF Init
<1>2. [Next]_vars => [NodeNext]_nodeVars
  BY StepsOutsideNode
<1> QED
  BY <1>1, <1>2, PTL DEF Spec, NodeSpec

\* As built, with a digest of 26 bytes, no interleaving of handler calls and
\* blocks gets a single block into the node.
THEOREM MixerGenesisOnly == Spec => []GenesisOnly
BY MixerImplementsNode, GenesisOnlyHolds, PTL

-----------------------------------------------------------------------------
(* The ledger.                                                             *)

LedgerInv ==
  /\ DOMAIN liabilities \subseteq User
  /\ liabilities \in [DOMAIN liabilities -> LiabilityEntry]
  /\ NoOverdraft

\* The sum saturates: it neither wraps nor loses the first addend.
LEMMA SaturatingAddBounds ==
  ASSUME NEW a \in 0 .. MaxAmount, NEW x \in 0 .. MaxAmount
  PROVE  /\ SaturatingAdd(a, x) \in 0 .. MaxAmount
         /\ SaturatingAdd(a, x) >= a
         /\ SaturatingAdd(a, x) <= a + x
BY AmountAssumption DEF SaturatingAdd

\* A deposit keeps the ledger in bounds,
LEMMA ReceiveDepositLedger ==
  ASSUME LedgerInv, NEW user \in User, NEW coin \in Coin,
         ReceiveDeposit(user, coin)
  PROVE  LedgerInv'
<1> DEFINE old == IF user \in DOMAIN liabilities THEN liabilities[user]
                  ELSE [credited |-> 0, withdrawn |-> 0]
           D == DOMAIN liabilities \cup {user}
           new == [old EXCEPT !.credited = SaturatingAdd(@, coin.amount)]
<1>1. coin.amount \in 0 .. MaxAmount
  BY CoinAssumption DEF CoinRecord
<1>2. old \in LiabilityEntry /\ old.withdrawn <= old.credited
  BY AmountAssumption DEF LedgerInv, NoOverdraft, LiabilityEntry
<1>3. old.credited \in 0 .. MaxAmount /\ old.withdrawn \in 0 .. MaxAmount
  BY <1>2 DEF LiabilityEntry
<1>4. SaturatingAdd(old.credited, coin.amount) \in 0 .. MaxAmount
      /\ SaturatingAdd(old.credited, coin.amount) >= old.credited
  BY <1>1, <1>3, SaturatingAddBounds
<1>5. liabilities' = [u \in D |-> IF u = user THEN new ELSE liabilities[u]]
  BY DEF ReceiveDeposit, CreditUser
<1> HIDE DEF old
<1>6. new \in LiabilityEntry /\ new.withdrawn <= new.credited
  BY <1>2, <1>3, <1>4 DEF LiabilityEntry
<1> HIDE DEF new
<1>7. \A u \in DOMAIN liabilities :
        liabilities[u] \in LiabilityEntry
        /\ liabilities[u].withdrawn <= liabilities[u].credited
  BY DEF LedgerInv, NoOverdraft
<1>8. DOMAIN liabilities' = D /\ D \subseteq User
  BY <1>5 DEF LedgerInv
<1>9. \A u \in D : /\ liabilities'[u] \in LiabilityEntry
                   /\ liabilities'[u].withdrawn <= liabilities'[u].credited
  BY <1>5, <1>6, <1>7
<1>10. liabilities' \in [D -> LiabilityEntry]
  BY <1>5, <1>9
<1> QED
  BY <1>8, <1>9, <1>10 DEF LedgerInv, NoOverdraft

\* and so does a withdrawal request.
LEMMA QueueWithdrawalLedger ==
  ASSUME LedgerInv, NEW user \in User, NEW amount \in WithdrawAmount,
         NEW address \in Destination, QueueWithdrawal(user, amount, address)
  PROVE  LedgerInv'
<1> DEFINE total == ReservedTotal(amount, WithdrawalServiceFee)
           old == liabilities[user]
           new == [old EXCEPT !.withdrawn = SaturatingAdd(@, total)]
<1>1. total \in 0 .. MaxAmount
  BY AmountAssumption, SaturatingAddBounds DEF ReservedTotal
<1>2. /\ user \in DOMAIN liabilities
      /\ Available(old) >= total
      /\ liabilities' = [liabilities EXCEPT ![user] = new]
  BY DEF QueueWithdrawal, CanDebit, DebitUser
<1> HIDE DEF total
<1>3. old \in LiabilityEntry /\ old.withdrawn <= old.credited
  BY <1>2 DEF LedgerInv, NoOverdraft
<1>4. old.credited \in 0 .. MaxAmount /\ old.withdrawn \in 0 .. MaxAmount
  BY <1>3 DEF LiabilityEntry
<1>5. old.withdrawn + total <= old.credited
  BY <1>1, <1>2, <1>3, <1>4, AmountAssumption DEF Available
<1>6. /\ SaturatingAdd(old.withdrawn, total) \in 0 .. MaxAmount
      /\ SaturatingAdd(old.withdrawn, total) <= old.withdrawn + total
  BY <1>1, <1>4, SaturatingAddBounds
<1>7. SaturatingAdd(old.withdrawn, total) <= old.credited
  BY <1>1, <1>4, <1>5, <1>6, AmountAssumption
<1> HIDE DEF old
<1>8. new \in LiabilityEntry /\ new.withdrawn <= new.credited
  BY <1>3, <1>4, <1>6, <1>7 DEF LiabilityEntry
<1> HIDE DEF new
<1>9. \A u \in DOMAIN liabilities :
        liabilities[u] \in LiabilityEntry
        /\ liabilities[u].withdrawn <= liabilities[u].credited
  BY DEF LedgerInv, NoOverdraft
<1>10. /\ DOMAIN liabilities' = DOMAIN liabilities
       /\ liabilities' \in [DOMAIN liabilities -> LiabilityEntry]
       /\ \A u \in DOMAIN liabilities :
            liabilities'[u].withdrawn <= liabilities'[u].credited
  BY <1>2, <1>8, <1>9 DEF LedgerInv
<1> QED
  BY <1>10 DEF LedgerInv, NoOverdraft

\* So the ledger is in bounds in every reachable state.
LEMMA LedgerInvHolds == Spec => []LedgerInv
<1>1. Init => LedgerInv
  <2> SUFFICES ASSUME Init PROVE LedgerInv
    OBVIOUS
  <2>1. liabilities = InitialLiabilities
    BY DEF Init, MixerInit
  <2> QED
    BY <2>1, LiabilityAssumption DEF LedgerInv, NoOverdraft
<1>2. LedgerInv /\ [Next]_vars => LedgerInv'
  <2> SUFFICES ASSUME LedgerInv, [Next]_vars
               PROVE  LedgerInv'
    OBVIOUS
  <2>1. ASSUME NEW u \in User, NEW c \in Coin, ReceiveDeposit(u, c)
        PROVE  LedgerInv'
    BY <2>1, ReceiveDepositLedger
  <2>2. ASSUME NEW u \in User, NEW x \in WithdrawAmount, NEW c \in Destination,
               QueueWithdrawal(u, x, c)
        PROVE  LedgerInv'
    BY <2>2, QueueWithdrawalLedger
  <2>3. ASSUME liabilities' = liabilities
        PROVE  LedgerInv'
    BY <2>3 DEF LedgerInv, NoOverdraft
  <2>4. CASE NodeStep
    BY <2>3, <2>4 DEF NodeStep, mixerVars
  <2>5. CASE \E a \in AccountId, p \in BOOLEAN : CreatePoolAccount(a, p)
    BY <2>3, <2>5 DEF CreatePoolAccount
  <2>6. CASE \E id \in OnChainIds(unspent_coins) : ConsolidateIntoPool(id)
    BY <2>3, <2>6 DEF ConsolidateIntoPool
  <2>7. CASE \/ \E r \in DOMAIN requests : ProcessSingleWithdrawal(r)
             \/ \E rs \in Batches : ProcessBatchedWithdrawals(rs)
    BY <2>3, <2>7 DEF ProcessSingleWithdrawal, ProcessBatchedWithdrawals, Deliver
  <2>8. CASE UNCHANGED vars
    BY <2>3, <2>8 DEF vars, mixerVars
  <2> QED
    BY <2>1, <2>2, <2>4, <2>5, <2>6, <2>7, <2>8 DEF Next
<1> QED
  BY <1>1, <1>2, PTL DEF Spec

\* No overdraft: whatever deposits and withdrawals are made, in any order and
\* with any saturation, no user withdraws more than was credited.
THEOREM NoOverdraftHolds == Spec => []NoOverdraft
<1>1. LedgerInv => NoOverdraft
  BY DEF LedgerInv
<1> QED
  BY <1>1, LedgerInvHolds, PTL

-----------------------------------------------------------------------------
(* Coins the node's wallet holds, and pool accounts.                       *)

\* A coin of the wallet the node was built with is never accepted, not even
\* after consolidation took it from the handlers' wallet.
SnapshotCoinsRefused ==
  \A i \in DOMAIN deposits :
    OnChainId(deposits[i].coin) \notin OnChainIds(NodeCoins)

\* The duplicate check covers the coins of the node's own wallet for good.
LEMMA SnapshotCoinsRefusedHolds == Spec => []SnapshotCoinsRefused
<1> DEFINE Deposit == [coin : Coin, user : User]
           Inv == deposits \in Seq(Deposit) /\ SnapshotCoinsRefused
<1>1. Init => Inv
  BY DEF Init, MixerInit, SnapshotCoinsRefused
<1>2. Inv /\ [Next]_vars => Inv'
  <2> SUFFICES ASSUME Inv, [Next]_vars
               PROVE  Inv'
    OBVIOUS
  <2>1. ASSUME NEW u \in User, NEW c \in Coin, ReceiveDeposit(u, c)
        PROVE  Inv'
    <3> DEFINE d == [coin |-> c, user |-> u]
    <3>1. d \in Deposit /\ d.coin = c
      OBVIOUS
    <3>2. deposits' = Append(deposits, d) /\ OnChainId(c) \notin OnChainIds(NodeCoins)
      BY <2>1 DEF ReceiveDeposit, PaymentAccepted
    <3> HIDE DEF d, Deposit
    <3>3. /\ deposits' \in Seq(Deposit)
          /\ DOMAIN deposits' = 1 .. Len(deposits) + 1
          /\ DOMAIN deposits = 1 .. Len(deposits)
          /\ \A i \in DOMAIN deposits : deposits'[i] = deposits[i]
          /\ deposits'[Len(deposits) + 1] = d
          /\ Len(deposits) \in Nat
      BY <3>1, <3>2
    <3>4. \A i \in DOMAIN deposits' :
            OnChainId(deposits'[i].coin) \notin OnChainIds(NodeCoins)
      BY <3>1, <3>2, <3>3 DEF SnapshotCoinsRefused
    <3> QED
      BY <3>3, <3>4 DEF SnapshotCoinsRefused
  <2>2. ASSUME deposits' = deposits
        PROVE  Inv'
    BY <2>2 DEF SnapshotCoinsRefused
  <2> HIDE DEF Inv
  <2>3. CASE NodeStep
    BY <2>2, <2>3 DEF NodeStep, mixerVars
  <2>4. CASE \E a \in AccountId, p \in BOOLEAN : CreatePoolAccount(a, p)
    BY <2>2, <2>4 DEF CreatePoolAccount
  <2>5. CASE \E id \in OnChainIds(unspent_coins) : ConsolidateIntoPool(id)
    BY <2>2, <2>5 DEF ConsolidateIntoPool
  <2>6. CASE \E u \in User, x \in WithdrawAmount, c \in Destination :
               QueueWithdrawal(u, x, c)
    BY <2>2, <2>6 DEF QueueWithdrawal
  <2>7. CASE \/ \E r \in DOMAIN requests : ProcessSingleWithdrawal(r)
             \/ \E rs \in Batches : ProcessBatchedWithdrawals(rs)
    BY <2>2, <2>7 DEF ProcessSingleWithdrawal, ProcessBatchedWithdrawals, Deliver
  <2>8. CASE UNCHANGED vars
    BY <2>2, <2>8 DEF vars, mixerVars
  <2> QED
    BY <2>1, <2>3, <2>4, <2>5, <2>6, <2>7, <2>8 DEF Next
<1>3. Inv => SnapshotCoinsRefused
  OBVIOUS
<1> QED
  BY <1>1, <1>2, <1>3, PTL DEF Spec

\* Creating an account leaves one primary account at most, and does not take
\* away the last one.
LEMMA CreatePoolAccountPrimary ==
  ASSUME AtMostOnePrimary, NEW a \in AccountId, NEW p \in BOOLEAN,
         CreatePoolAccount(a, p),
         \A x \in DOMAIN pool_accounts : pool_accounts[x] \in PoolAccountEntry
  PROVE  AtMostOnePrimary' /\ (HasPrimary => HasPrimary')
<1>1. /\ a \notin DOMAIN pool_accounts
      /\ pool_accounts' = InsertPoolAccount(pool_accounts, a, p)
  BY DEF CreatePoolAccount
<1>2. /\ DOMAIN pool_accounts' = DOMAIN pool_accounts \cup {a}
      /\ pool_accounts'[a].is_primary = p
      /\ p => \A x \in DOMAIN pool_accounts :
                pool_accounts'[x] = [pool_accounts[x] EXCEPT !.is_primary = FALSE]
      /\ ~p => \A x \in DOMAIN pool_accounts : pool_accounts'[x] = pool_accounts[x]
  BY <1>1 DEF InsertPoolAccount, NewPoolAccount
<1>3. CASE p
  <2>1. \A x \in DOMAIN pool_accounts : ~pool_accounts'[x].is_primary
    BY <1>2, <1>3 DEF PoolAccountEntry
  <2> QED
    BY <1>2, <1>3, <2>1 DEF AtMostOnePrimary, HasPrimary
<1>4. CASE ~p
  BY <1>1, <1>2, <1>4 DEF AtMostOnePrimary, HasPrimary
<1> QED
  BY <1>3, <1>4

\* Accounts with one primary at most.
PoolInv ==
  /\ \A x \in DOMAIN pool_accounts : pool_accounts[x] \in PoolAccountEntry
  /\ AtMostOnePrimary

\* Every step keeps the pool's accounts, and a primary one once there is one.
LEMMA PrimaryStep ==
  ASSUME PoolInv, [Next]_vars
  PROVE  PoolInv' /\ (HasPrimary => HasPrimary')
<1>1. ASSUME NEW a \in AccountId, NEW p \in BOOLEAN, CreatePoolAccount(a, p)
      PROVE  PoolInv' /\ (HasPrimary => HasPrimary')
  <2>1. AtMostOnePrimary' /\ (HasPrimary => HasPrimary')
    BY <1>1, CreatePoolAccountPrimary DEF PoolInv
  <2>2. NewPoolAccount(p) \in PoolAccountEntry
    BY DEF NewPoolAccount, PoolAccountEntry, WalletHistory, ToSAccValue
  <2>3. \A x \in DOMAIN pool_accounts :
          [pool_accounts[x] EXCEPT !.is_primary = FALSE] \in PoolAccountEntry
    BY DEF PoolInv, PoolAccountEntry
  <2>4. pool_accounts' = InsertPoolAccount(pool_accounts, a, p)
    BY <1>1 DEF CreatePoolAccount
  <2>5. \A x \in DOMAIN pool_accounts' : pool_accounts'[x] \in PoolAccountEntry
    BY <2>2, <2>3, <2>4 DEF InsertPoolAccount, PoolInv
  <2> QED
    BY <2>1, <2>5 DEF PoolInv
<1>2. ASSUME pool_accounts' = pool_accounts
      PROVE  PoolInv' /\ (HasPrimary => HasPrimary')
  BY <1>2 DEF PoolInv, AtMostOnePrimary, HasPrimary
<1>3. CASE NodeStep
  BY <1>2, <1>3 DEF NodeStep, mixerVars
<1>4. CASE \E u \in User, c \in Coin : ReceiveDeposit(u, c)
  BY <1>2, <1>4 DEF ReceiveDeposit
<1>5. CASE \E id \in OnChainIds(unspent_coins) : ConsolidateIntoPool(id)
  BY <1>2, <1>5 DEF ConsolidateIntoPool
<1>6. CASE \E u \in User, x \in WithdrawAmount, c \in Destination :
             QueueWithdrawal(u, x, c)
  BY <1>2, <1>6 DEF QueueWithdrawal
<1>7. CASE \/ \E r \in DOMAIN requests : ProcessSingleWithdrawal(r)
           \/ \E rs \in Batches : ProcessBatchedWithdrawals(rs)
  BY <1>2, <1>7 DEF ProcessSingleWithdrawal, ProcessBatchedWithdrawals, Deliver
<1>8. CASE UNCHANGED vars
  BY <1>2, <1>8 DEF vars, mixerVars
<1> QED
  BY <1>1, <1>3, <1>4, <1>5, <1>6, <1>7, <1>8 DEF Next

\* So the pool's invariant holds in every reachable state.
LEMMA PoolInvHolds == Spec => []PoolInv
<1>1. Init => PoolInv
  BY DEF Init, MixerInit, PoolInv, AtMostOnePrimary
<1>2. PoolInv /\ [Next]_vars => PoolInv'
  BY PrimaryStep
<1> QED
  BY <1>1, <1>2, PTL DEF Spec

\* primary_pool_account has at most one account to find.
THEOREM AtMostOnePrimaryHolds == Spec => []AtMostOnePrimary
<1>1. PoolInv => AtMostOnePrimary
  BY DEF PoolInv
<1> QED
  BY <1>1, PoolInvHolds, PTL

\* Once found, it is always found.
THEOREM PrimaryPersistsHolds == Spec => PrimaryPersists
<1>1. PoolInv /\ [Next]_vars => [HasPrimary => HasPrimary']_vars
  BY PrimaryStep
<1> QED
  BY <1>1, PoolInvHolds, PTL DEF Spec, PrimaryPersists

-----------------------------------------------------------------------------
(* Types of the whole mixer, and deliveries.                               *)

HandlerTypeOK ==
  /\ unspent_coins \in Seq(CoinRecord)
  /\ DOMAIN pool_accounts \subseteq AccountId
  /\ pool_accounts \in [DOMAIN pool_accounts -> PoolAccountEntry]
  /\ requests \in Seq(Request)
  /\ deposits \in Seq([coin : Coin, user : User])
  /\ consumed \in Seq([coin : CoinRecord, ok : BOOLEAN])
  /\ deliveries \in Seq([request : DOMAIN requests, coin : CoinRecord])

\* remove_unspent_coin finds a coin that is there.
LEMMA PositionFound ==
  ASSUME NEW coins \in Seq(CoinRecord), NEW id \in OnChainIds(coins)
  PROVE  /\ PositionOf(coins, id) \in DOMAIN coins
         /\ OnChainId(coins[PositionOf(coins, id)]) = id
<1> DEFINE S == { i \in DOMAIN coins : OnChainId(coins[i]) = id }
<1>1. S \in SUBSET Nat /\ S # {}
  BY DEF OnChainIds
<1>2. PICK m \in S : \A n \in S : m <= n
  <2> HIDE DEF S
  <2> QED BY <1>1, NatMinimum
<1>3. /\ m \in DOMAIN coins /\ OnChainId(coins[m]) = id
      /\ \A j \in 1 .. m - 1 : OnChainId(coins[j]) # id
  <2>1. m \in 1 .. Len(coins) /\ Len(coins) \in Nat
    BY <1>2
  <2>2. \A j \in 1 .. m - 1 : j \in DOMAIN coins /\ ~(m <= j)
    BY <2>1
  <2> QED
    BY <1>2, <2>1, <2>2
<1> QED
  BY <1>3 DEF PositionOf

\* Removing an element leaves a sequence.
LEMMA RemoveAtType ==
  ASSUME NEW S, NEW s \in Seq(S), NEW i \in DOMAIN s
  PROVE  RemoveAt(s, i) \in Seq(S)
<1>1. i \in 1 .. Len(s) /\ Len(s) \in Nat
  OBVIOUS
<1>2. SubSeq(s, 1, i - 1) \in Seq(S) /\ SubSeq(s, i + 1, Len(s)) \in Seq(S)
  BY <1>1
<1> QED
  BY <1>2 DEF RemoveAt

\* A batch keeps the types.
LEMMA DeliverType ==
  ASSUME HandlerTypeOK, NodeTypeOK, NEW n \in Nat,
         NEW rs \in [1 .. n -> DOMAIN requests], Deliver(rs)
  PROVE  /\ HandlerTypeOK'
         /\ DOMAIN deliveries' = 1 .. Len(deliveries) + n
         /\ \A d \in DOMAIN deliveries : deliveries'[d] = deliveries[d]
         /\ \A d \in DOMAIN deliveries' \ DOMAIN deliveries :
              /\ deliveries'[d].request \in DOMAIN requests
              /\ deliveries'[d].coin = DeliveredCoin(deliveries'[d].request)
<1> DEFINE D == [request : DOMAIN requests, coin : CoinRecord]
           new == [ k \in DOMAIN rs |-> [request |-> rs[k], coin |-> DeliveredCoin(rs[k])] ]
<1>1. ASSUME NEW r \in DOMAIN requests
      PROVE  DeliveredCoin(r) \in CoinRecord
  <2>1. requests[r] \in Request
    BY DEF HandlerTypeOK
  <2>2. CurrentNav \in ToSAccValue
    BY DEF CurrentNav, NodeTypeOK
  <2> QED
    BY <2>1, <2>2 DEF DeliveredCoin, CoinRecord, Request
<1>2. new \in [1 .. n -> D]
  BY <1>1
<1>3. new \in Seq(D) /\ Len(new) = n /\ DOMAIN new = 1 .. n
  BY <1>2
<1>4. deliveries \in Seq(D) /\ deliveries' = deliveries \o new
  BY DEF HandlerTypeOK, Deliver
<1>5. \A k \in 1 .. n : /\ new[k].request \in DOMAIN requests
                        /\ new[k].coin = DeliveredCoin(new[k].request)
  OBVIOUS
<1> HIDE DEF new, D
<1>6. /\ deliveries' \in Seq(D)
      /\ DOMAIN deliveries' = 1 .. Len(deliveries) + n
      /\ \A d \in DOMAIN deliveries : deliveries'[d] = deliveries[d]
      /\ \A d \in DOMAIN deliveries' \ DOMAIN deliveries :
           \E k \in 1 .. n : deliveries'[d] = new[k]
  <2>1. /\ DOMAIN deliveries = 1 .. Len(deliveries) /\ Len(deliveries) \in Nat
        /\ DOMAIN deliveries' = 1 .. Len(deliveries) + n
    BY <1>3, <1>4
  <2>2. ASSUME NEW d \in DOMAIN deliveries' \ DOMAIN deliveries
        PROVE  \E k \in 1 .. n : deliveries'[d] = new[k]
    <3>1. d - Len(deliveries) \in 1 .. n
      BY <2>1, <2>2
    <3>2. deliveries'[d] = new[d - Len(deliveries)]
      BY <1>3, <1>4, <2>1, <2>2, <3>1
    <3> QED
      BY <3>1, <3>2
  <2> QED
    BY <1>3, <1>4, <2>1, <2>2
<1>7. HandlerTypeOK'
  BY <1>6 DEF HandlerTypeOK, Deliver, D
<1> QED
  BY <1>5, <1>6, <1>7

\* Appending an element leaves a sequence.
LEMMA AppendType ==
  ASSUME NEW S, NEW s \in Seq(S), NEW e \in S
  PROVE  /\ Append(s, e) \in Seq(S)
         /\ DOMAIN s \subseteq DOMAIN Append(s, e)
OBVIOUS

\* Every step keeps the handlers' types.
LEMMA HandlerStep ==
  ASSUME HandlerTypeOK, NodeTypeOK, LedgerInv, [Next]_vars
  PROVE  HandlerTypeOK'
<1>1. CASE NodeStep \/ UNCHANGED vars
  BY <1>1 DEF NodeStep, vars, mixerVars, HandlerTypeOK
<1>2. ASSUME NEW a \in AccountId, NEW p \in BOOLEAN, CreatePoolAccount(a, p)
      PROVE  HandlerTypeOK'
  <2>1. NewPoolAccount(p) \in PoolAccountEntry
    BY DEF NewPoolAccount, PoolAccountEntry, WalletHistory, ToSAccValue
  <2>2. \A x \in DOMAIN pool_accounts :
          /\ pool_accounts[x] \in PoolAccountEntry
          /\ [pool_accounts[x] EXCEPT !.is_primary = FALSE] \in PoolAccountEntry
    BY DEF HandlerTypeOK, PoolAccountEntry
  <2>3. pool_accounts' = InsertPoolAccount(pool_accounts, a, p)
    BY <1>2 DEF CreatePoolAccount
  <2>4. /\ DOMAIN pool_accounts' \subseteq AccountId
        /\ pool_accounts' \in [DOMAIN pool_accounts' -> PoolAccountEntry]
    BY <2>1, <2>2, <2>3 DEF InsertPoolAccount, HandlerTypeOK
  <2> QED
    BY <1>2, <2>4 DEF CreatePoolAccount, HandlerTypeOK
<1>3. ASSUME NEW u \in User, NEW c \in Coin, ReceiveDeposit(u, c)
      PROVE  HandlerTypeOK'
  <2>1. c \in CoinRecord
    BY CoinAssumption
  <2>2. unspent_coins' \in Seq(CoinRecord)
    BY <1>3, <2>1, AppendType DEF ReceiveDeposit, HandlerTypeOK
  <2>3. [coin |-> c, user |-> u] \in [coin : Coin, user : User]
    OBVIOUS
  <2>4. deposits' \in Seq([coin : Coin, user : User])
    BY <1>3, <2>3, AppendType DEF ReceiveDeposit, HandlerTypeOK
  <2> QED
    BY <1>3, <2>2, <2>4 DEF ReceiveDeposit, HandlerTypeOK
<1>4. ASSUME NEW id \in OnChainIds(unspent_coins), ConsolidateIntoPool(id)
      PROVE  HandlerTypeOK'
  <2> DEFINE i == PositionOf(unspent_coins, id)
             C == [coin : CoinRecord, ok : BOOLEAN]
             e == [coin |-> unspent_coins[i], ok |-> HasPrimary]
  <2>1. unspent_coins \in Seq(CoinRecord) /\ i \in DOMAIN unspent_coins
    BY PositionFound DEF HandlerTypeOK
  <2>2. /\ unspent_coins' = RemoveAt(unspent_coins, i)
        /\ consumed' = Append(consumed, e)
    BY <1>4 DEF ConsolidateIntoPool, RemoveUnspentCoin
  <2>3. HasPrimary \in BOOLEAN
    BY DEF HasPrimary
  <2> HIDE DEF i
  <2>4. e \in C
    BY <2>1, <2>3
  <2>5. unspent_coins' \in Seq(CoinRecord)
    BY <2>1, <2>2, RemoveAtType
  <2>6. consumed \in Seq(C)
    BY DEF HandlerTypeOK
  <2> HIDE DEF e, C
  <2>7. consumed' \in Seq(C)
    BY <2>2, <2>4, <2>6, AppendType
  <2> QED
    BY <1>4, <2>5, <2>7 DEF ConsolidateIntoPool, HandlerTypeOK, C
<1>5. ASSUME NEW u \in User, NEW x \in WithdrawAmount, NEW c \in Destination,
             QueueWithdrawal(u, x, c)
      PROVE  HandlerTypeOK'
  <2> DEFINE r == [ user                |-> u,
                    amount              |-> x,
                    service_fee         |-> WithdrawalServiceFee,
                    destination_address |-> c ]
             D(S) == [request : S, coin : CoinRecord]
  <2>1. r \in Request
    BY AmountAssumption, CoinAssumption DEF Request
  <2>2. requests' = Append(requests, r) /\ requests \in Seq(Request)
    BY <1>5 DEF QueueWithdrawal, HandlerTypeOK
  <2> HIDE DEF r
  <2>3. requests' \in Seq(Request) /\ DOMAIN requests \subseteq DOMAIN requests'
    BY <2>1, <2>2, AppendType
  <2>4. deliveries \in Seq(D(DOMAIN requests)) /\ deliveries' = deliveries
    BY <1>5 DEF QueueWithdrawal, HandlerTypeOK
  <2>5. D(DOMAIN requests) \subseteq D(DOMAIN requests')
    BY <2>3
  <2> HIDE DEF D
  <2>6. deliveries' \in Seq(D(DOMAIN requests'))
    BY <2>4, <2>5
  <2> QED
    BY <1>5, <2>3, <2>6 DEF QueueWithdrawal, HandlerTypeOK, D
<1>6. ASSUME NEW r \in DOMAIN requests, ProcessSingleWithdrawal(r)
      PROVE  HandlerTypeOK'
  <2>1. <<r>> \in [1 .. 1 -> DOMAIN requests] /\ 1 \in Nat
    OBVIOUS
  <2> QED
    BY <1>6, <2>1, DeliverType DEF ProcessSingleWithdrawal
<1>7. ASSUME NEW rs \in Batches, ProcessBatchedWithdrawals(rs)
      PROVE  HandlerTypeOK'
  <2>1. PICK n \in 1 .. MaxBatchSize : rs \in [1 .. n -> DOMAIN requests]
    BY DEF Batches
  <2>2. n \in Nat
    BY PolicyAssumption
  <2> QED
    BY <1>7, <2>1, <2>2, DeliverType DEF ProcessBatchedWithdrawals
<1> QED
  BY <1>1, <1>2, <1>3, <1>4, <1>5, <1>6, <1>7 DEF Next

MixerInv == HandlerTypeOK /\ LedgerInv /\ NodeTypeOK

\* So the three invariants hold together.
LEMMA MixerInvHolds == Spec => []MixerInv
<1>1. Init => HandlerTypeOK
  BY CoinAssumption DEF Init, MixerInit, HandlerTypeOK
<1>2. HandlerTypeOK /\ NodeTypeOK /\ LedgerInv /\ [Next]_vars => HandlerTypeOK'
  BY HandlerStep
<1>3. Spec => []NodeTypeOK
  BY MixerImplementsNode, NodeTypeCorrect, PTL
<1> QED
  BY <1>1, <1>2, <1>3, LedgerInvHolds, PTL DEF Spec, MixerInv

\* Types of both wallets: every amount stays in its width, every coin the
\* wallet loses is one it held, every delivery is of a queued request.
THEOREM MixerTypeCorrect == Spec => []MixerTypeOK
<1>1. MixerInv => MixerTypeOK
  BY DEF MixerInv, HandlerTypeOK, LedgerInv, MixerTypeOK
<1> QED
  BY <1>1, MixerInvHolds, PTL

\* What the mixer builds is bound to the current NAV, the last of the history,
\* and has the id all such coins have: it is accepted unless one is held.
LEMMA DeliveredCoinAccepted ==
  ASSUME HistoryWindow, NodeTypeOK, NEW r \in DOMAIN requests,
         NEW ids \in SUBSET {<<0, 1>>}
  PROVE  PaymentAccepted(DeliveredCoin(r), requests[r].destination_address, ids)
           <=> ids = {}
<1> DEFINE n == Len(nullifier_accum_history)
<1>1. n \in DOMAIN nullifier_accum_history /\ n \in Nat
  BY DEF HistoryWindow, NodeTypeOK
<1>2. nullifier_accum.value \in Nat
  BY DEF NodeTypeOK, ToSAccValue
<1>3. nullifier_accum_history[n] = CurrentNav
  BY <1>1, <1>2 DEF HistoryWindow, CurrentNav
<1>4. OnChainId(DeliveredCoin(r)) = <<0, 1>>
  BY DEF OnChainId, DeliveredCoin
<1>5. OnChainId(DeliveredCoin(r)) \notin ids <=> ids = {}
  BY <1>4
<1> QED
  BY <1>1, <1>3, <1>5 DEF PaymentAccepted, DeliveredCoin

\* All delivered coins have one on-chain id.
OneDeliveredId ==
  \A d \in DOMAIN deliveries : OnChainId(deliveries[d].coin) = <<0, 1>>

\* What a call delivers is accepted by whom it finds without such a coin.
LEMMA DeliverAccepted ==
  ASSUME MixerInv, HistoryWindow, OneDeliveredId, NEW n \in Nat,
         NEW rs \in [1 .. n -> DOMAIN requests], Deliver(rs)
  PROVE  OneDeliveredId' /\ DeliveriesAccepted
<1>1. /\ DOMAIN deliveries' = 1 .. Len(deliveries) + n
      /\ \A d \in DOMAIN deliveries : deliveries'[d] = deliveries[d]
      /\ \A d \in DOMAIN deliveries' \ DOMAIN deliveries :
           /\ deliveries'[d].request \in DOMAIN requests
           /\ deliveries'[d].coin = DeliveredCoin(deliveries'[d].request)
  BY DeliverType DEF MixerInv
<1>2. ASSUME NEW d \in DOMAIN deliveries'
      PROVE  OnChainId(deliveries'[d].coin) = <<0, 1>>
  <2>1. CASE d \in DOMAIN deliveries
    BY <1>1, <2>1 DEF OneDeliveredId
  <2>2. CASE d \notin DOMAIN deliveries
    <3> DEFINE q == deliveries'[d].request
    <3>1. deliveries'[d].coin = DeliveredCoin(q)
      BY <1>1, <2>2
    <3>2. OnChainId(DeliveredCoin(q)) = <<0, 1>>
      BY DEF OnChainId, DeliveredCoin
    <3> QED
      BY <3>1, <3>2
  <2> QED
    BY <2>1, <2>2
<1>3. ASSUME NEW d \in DOMAIN deliveries' \ DOMAIN deliveries
      PROVE  PaymentAccepted(deliveries'[d].coin,
                             requests[deliveries'[d].request].destination_address,
                             ReceivedIds(d))
               <=> ReceivedIds(d) = {}
  <2>1. Len(deliveries) \in Nat
    BY DEF MixerInv, HandlerTypeOK
  <2>2. 1 .. d - 1 \subseteq DOMAIN deliveries'
    BY <1>1, <2>1
  <2>3. ReceivedIds(d) \in SUBSET {<<0, 1>>}
    BY <1>2, <2>2 DEF ReceivedIds
  <2> DEFINE q == deliveries'[d].request
             ids == ReceivedIds(d)
  <2>4. q \in DOMAIN requests /\ deliveries'[d].coin = DeliveredCoin(q)
    BY <1>1
  <2> HIDE DEF q, ids
  <2>5. ids \in SUBSET {<<0, 1>>}
    BY <2>3 DEF ids
  <2>6. PaymentAccepted(DeliveredCoin(q), requests[q].destination_address, ids)
          <=> ids = {}
    BY <2>4, <2>5, DeliveredCoinAccepted DEF MixerInv
  <2> QED
    BY <2>4, <2>6 DEF q, ids
<1> QED
  BY <1>2, <1>3 DEF OneDeliveredId, DeliveriesAccepted

\* A step delivers nothing or is a call that processes requests.
LEMMA DeliveryCases ==
  ASSUME [Next]_vars
  PROVE  \/ deliveries' = deliveries
         \/ \E n \in Nat : \E rs \in [1 .. n -> DOMAIN requests] : Deliver(rs)
<1>1. CASE NodeStep \/ UNCHANGED vars
  BY <1>1 DEF NodeStep, vars, mixerVars
<1>2. CASE \/ \E a \in AccountId, p \in BOOLEAN : CreatePoolAccount(a, p)
           \/ \E u \in User, c \in Coin : ReceiveDeposit(u, c)
  BY <1>2 DEF CreatePoolAccount, ReceiveDeposit
<1>3. CASE \/ \E id \in OnChainIds(unspent_coins) : ConsolidateIntoPool(id)
           \/ \E u \in User, x \in WithdrawAmount, c \in Destination :
                QueueWithdrawal(u, x, c)
  BY <1>3 DEF ConsolidateIntoPool, QueueWithdrawal
<1>4. ASSUME NEW q \in DOMAIN requests, ProcessSingleWithdrawal(q)
      PROVE  \E n \in Nat : \E rs \in [1 .. n -> DOMAIN requests] : Deliver(rs)
  <2>1. <<q>> \in [1 .. 1 -> DOMAIN requests] /\ 1 \in Nat
    OBVIOUS
  <2> QED
    BY <1>4, <2>1 DEF ProcessSingleWithdrawal
<1>5. ASSUME NEW rs \in Batches, ProcessBatchedWithdrawals(rs)
      PROVE  \E n \in Nat : \E qs \in [1 .. n -> DOMAIN requests] : Deliver(qs)
  <2>1. PICK n \in 1 .. MaxBatchSize : rs \in [1 .. n -> DOMAIN requests]
    BY DEF Batches
  <2>2. n \in Nat
    BY PolicyAssumption
  <2> QED
    BY <1>5, <2>1, <2>2 DEF ProcessBatchedWithdrawals
<1> QED
  BY <1>1, <1>2, <1>3, <1>4, <1>5 DEF Next

\* Every step delivers nothing or does so acceptably.
LEMMA DeliveryStep ==
  ASSUME MixerInv, HistoryWindow, OneDeliveredId, [Next]_vars
  PROVE  OneDeliveredId' /\ DeliveriesAccepted
<1>1. CASE deliveries' = deliveries
  BY <1>1 DEF DeliveriesAccepted, OneDeliveredId
<1>2. CASE \E n \in Nat : \E rs \in [1 .. n -> DOMAIN requests] : Deliver(rs)
  BY <1>2, DeliverAccepted
<1> QED
  BY <1>1, <1>2, DeliveryCases

\* Of the coins delivered to an address the recipient's accept_payment takes
\* the first, whatever blocks and reorgs the node went through before, and
\* refuses the others as duplicates.
THEOREM FirstDeliveryAcceptedHolds == Spec => FirstDeliveryAccepted
<1>1. Spec => []HistoryWindow
  BY MixerImplementsNode, HistoryWindowHolds, PTL
<1>2. Init => OneDeliveredId
  BY DEF Init, MixerInit, OneDeliveredId
<1>3. MixerInv /\ HistoryWindow /\ OneDeliveredId /\ [Next]_vars
        => OneDeliveredId' /\ [DeliveriesAccepted]_vars
  BY DeliveryStep
<1> QED
  BY <1>1, <1>2, <1>3, MixerInvHolds, PTL DEF Spec, FirstDeliveryAccepted

-----------------------------------------------------------------------------
(* The mixer implements Custody.                                           *)

\* The initial states map to initial states of Custody.
LEMMA CustodyInit == Init => Ledger!Init
<1> SUFFICES ASSUME Init PROVE Ledger!Init
  OBVIOUS
<1>1. /\ liabilities = InitialLiabilities
      /\ requests = << >> /\ deposits = << >> /\ deliveries = << >>
  BY DEF Init, MixerInit
<1>2. \A u \in User : /\ Credited[u] \in 0 .. MaxAmount
                      /\ Reserved[u] \in 0 .. MaxAmount
                      /\ Reserved[u] <= Credited[u]
  BY <1>1, LiabilityAssumption, AmountAssumption
     DEF Credited, Reserved, LiabilityEntry
<1>3. /\ Credited \in [User -> 0 .. MaxAmount]
      /\ Reserved \in [User -> 0 .. MaxAmount]
  BY <1>2 DEF Credited, Reserved
<1>4. Received = << >> /\ Withdrawals = << >> /\ Delivered = {}
  BY <1>1 DEF Received, Withdrawals, Delivered
<1> QED
  BY <1>2, <1>3, <1>4 DEF Ledger!Init, Ledger!Amount

\* What Custody sees of the mixer is the ledger, the deposits, the requests
\* and the deliveries.
LEMMA CustodyStutter ==
  ASSUME UNCHANGED <<liabilities, deposits, requests, deliveries>>
  PROVE  UNCHANGED Ledger!custodyVars
BY DEF Ledger!custodyVars, Credited, Reserved, Received, Withdrawals, Delivered

\* A function on the first n numbers is a sequence.
LEMMA FunctionIsSeq ==
  ASSUME NEW S, NEW n \in Nat, NEW f \in [1 .. n -> S]
  PROVE  f \in Seq(S) /\ Len(f) = n
OBVIOUS

\* The amount of a coin is a u64.
LEMMA CoinAmount ==
  ASSUME NEW c \in CoinRecord
  PROVE  c.amount \in 0 .. MaxAmount
BY DEF CoinRecord

\* The elements of a sequence have its type.
LEMMA ElementOfSeq ==
  ASSUME NEW S, NEW s \in Seq(S), NEW i \in 1 .. Len(s)
  PROVE  s[i] \in S
OBVIOUS

\* A deposit maps to a receipt,
LEMMA CustodyReceive ==
  ASSUME MixerInv, NEW user \in User, NEW coin \in Coin,
         ReceiveDeposit(user, coin)
  PROVE  Ledger!Receive(user, coin.amount) /\ coin.amount \in Ledger!Amount
<1> DEFINE old == IF user \in DOMAIN liabilities THEN liabilities[user]
                  ELSE [credited |-> 0, withdrawn |-> 0]
           e == [coin |-> coin, user |-> user]
<1>1. coin.amount \in 0 .. MaxAmount
  BY CoinAssumption DEF CoinRecord
<1>2. old \in LiabilityEntry
  BY AmountAssumption DEF MixerInv, LedgerInv, LiabilityEntry
<1>3. /\ old.credited = Credited[user]
      /\ old.withdrawn = Reserved[user]
  BY DEF Credited, Reserved
<1>4. liabilities' = [ u \in DOMAIN liabilities \cup {user} |->
        IF u = user
        THEN [old EXCEPT !.credited = SaturatingAdd(@, coin.amount)]
        ELSE liabilities[u] ]
  BY DEF ReceiveDeposit, CreditUser
<1> HIDE DEF old
<1>5. /\ liabilities'[user].credited = SaturatingAdd(Credited[user], coin.amount)
      /\ liabilities'[user].withdrawn = Reserved[user]
  BY <1>2, <1>3, <1>4 DEF LiabilityEntry
<1>6. \A u \in User \ {user} :
        /\ u \in DOMAIN liabilities' <=> u \in DOMAIN liabilities
        /\ u \in DOMAIN liabilities => liabilities'[u] = liabilities[u]
  BY <1>4
<1>7. Credited' = [Credited EXCEPT ![user] = SaturatingAdd(@, coin.amount)]
  <2>1. user \in DOMAIN liabilities'
    BY <1>4
  <2>2. \A u \in User : Credited'[u] =
          IF u = user THEN SaturatingAdd(Credited[user], coin.amount)
          ELSE Credited[u]
    BY <2>1, <1>5, <1>6 DEF Credited
  <2> QED
    BY <2>2 DEF Credited
<1>8. Reserved' = Reserved
  <2>1. user \in DOMAIN liabilities'
    BY <1>4
  <2>2. \A u \in User : Reserved'[u] = Reserved[u]
    BY <2>1, <1>5, <1>6 DEF Reserved
  <2> QED
    BY <2>2 DEF Reserved
<1>9. Received' = Append(Received, [user |-> user, amount |-> coin.amount])
  <2>1. deposits' = Append(deposits, e) /\ e.coin = coin /\ e.user = user
    BY DEF ReceiveDeposit
  <2>2. deposits \in Seq([coin : Coin, user : User])
    BY DEF MixerInv, HandlerTypeOK
  <2>3. Received \in Seq([user : User, amount : 0 .. MaxAmount])
        /\ Len(Received) = Len(deposits)
    <3>1. ASSUME NEW i \in 1 .. Len(deposits)
          PROVE  [user |-> deposits[i].user, amount |-> deposits[i].coin.amount]
                   \in [user : User, amount : 0 .. MaxAmount]
      <4>1. deposits[i] \in [coin : Coin, user : User]
        BY <2>2, ElementOfSeq
      <4>2. deposits[i].user \in User /\ deposits[i].coin \in Coin
        BY <4>1
      <4>3. deposits[i].coin \in CoinRecord
        BY <4>2, CoinAssumption
      <4>4. deposits[i].coin.amount \in 0 .. MaxAmount
        BY <4>3, CoinAmount
      <4> QED
        BY <4>2, <4>4
    <3>2. Received \in
            [1 .. Len(deposits) -> [user : User, amount : 0 .. MaxAmount]]
      BY <2>2, <3>1 DEF Received
    <3>3. Len(deposits) \in Nat
      BY <2>2
    <3> QED
      BY <3>2, <3>3, FunctionIsSeq
  <2> HIDE DEF e
  <2>4. /\ DOMAIN deposits' = 1 .. Len(deposits) + 1
        /\ deposits'[Len(deposits) + 1] = e
        /\ \A i \in 1 .. Len(deposits) : deposits'[i] = deposits[i]
        /\ DOMAIN deposits = 1 .. Len(deposits)
    BY <2>1, <2>2
  <2> QED
    BY <2>1, <2>3, <2>4 DEF Received
<1>10. UNCHANGED <<Withdrawals, Delivered>>
  BY DEF ReceiveDeposit, Withdrawals, Delivered
<1> QED
  BY <1>1, <1>7, <1>8, <1>9, <1>10
     DEF Ledger!Receive, Ledger!Amount, SaturatingAdd

\* a request to a withdrawal,
LEMMA CustodyWithdraw ==
  ASSUME MixerInv, NEW user \in User, NEW amount \in WithdrawAmount,
         NEW address \in Destination, QueueWithdrawal(user, amount, address)
  PROVE  \E total \in Ledger!Amount :
           Ledger!Withdraw(user, amount, total) /\ amount \in Ledger!Amount
<1> DEFINE total == ReservedTotal(amount, WithdrawalServiceFee)
           old == liabilities[user]
           r == [ user                |-> user,
                  amount              |-> amount,
                  service_fee         |-> WithdrawalServiceFee,
                  destination_address |-> address ]
           w == [user |-> user, amount |-> amount, reserved |-> total]
<1>1. amount \in 0 .. MaxAmount /\ total \in 0 .. MaxAmount /\ amount <= total
  BY AmountAssumption, SaturatingAddBounds DEF ReservedTotal
<1>2. /\ user \in DOMAIN liabilities
      /\ Available(old) >= total
      /\ liabilities' = [liabilities EXCEPT ![user].withdrawn =
                           SaturatingAdd(@, total)]
  BY DEF QueueWithdrawal, CanDebit, DebitUser
<1>3. w = [ user     |-> r.user,
            amount   |-> r.amount,
            reserved |-> ReservedTotal(r.amount, r.service_fee) ]
  OBVIOUS
<1> HIDE DEF total
<1>4. /\ old \in LiabilityEntry /\ old.withdrawn <= old.credited
      /\ old.credited = Credited[user] /\ old.withdrawn = Reserved[user]
  BY <1>2 DEF MixerInv, LedgerInv, NoOverdraft, Credited, Reserved
<1>5. old.credited \in 0 .. MaxAmount /\ old.withdrawn \in 0 .. MaxAmount
  BY <1>4 DEF LiabilityEntry
<1>6. old.withdrawn + total <= old.credited
  BY <1>1, <1>2, <1>4, <1>5, AmountAssumption DEF Available
<1>7. SaturatingAdd(old.withdrawn, total) = old.withdrawn + total
  BY <1>1, <1>5, <1>6, AmountAssumption DEF SaturatingAdd
<1>8. /\ DOMAIN liabilities' = DOMAIN liabilities
      /\ liabilities'[user].credited = Credited[user]
      /\ liabilities'[user].withdrawn = Reserved[user] + total
      /\ \A u \in DOMAIN liabilities \ {user} : liabilities'[u] = liabilities[u]
  <2>1. [old EXCEPT !.withdrawn = SaturatingAdd(@, total)].credited = old.credited
        /\ [old EXCEPT !.withdrawn = SaturatingAdd(@, total)].withdrawn
             = SaturatingAdd(old.withdrawn, total)
    BY <1>4 DEF LiabilityEntry
  <2> QED
    BY <1>2, <1>4, <1>7, <2>1 DEF MixerInv, LedgerInv
<1>9. Credited' = Credited
  BY <1>8, <1>4, <1>2 DEF Credited
<1>10. Reserved' = [Reserved EXCEPT ![user] = @ + total]
  BY <1>8, <1>4, <1>2 DEF Reserved
<1>11. Withdrawals' = Append(Withdrawals, w)
  <2>1. requests' = Append(requests, r)
    BY DEF QueueWithdrawal
  <2>2. requests \in Seq(Request) /\ DOMAIN requests = 1 .. Len(requests)
    BY DEF MixerInv, HandlerTypeOK
  <2> HIDE DEF r, w
  <2>3. /\ DOMAIN requests' = 1 .. Len(requests) + 1
        /\ requests'[Len(requests) + 1] = r
        /\ \A i \in 1 .. Len(requests) : requests'[i] = requests[i]
    BY <2>1, <2>2
  <2>4. \A i \in 1 .. Len(requests) :
          [ user     |-> requests[i].user,
            amount   |-> requests[i].amount,
            reserved |-> ReservedTotal(requests[i].amount,
                                       requests[i].service_fee) ]
          \in [user : User, amount : 0 .. MaxAmount, reserved : 0 .. MaxAmount]
    <3>1. ASSUME NEW i \in 1 .. Len(requests)
          PROVE  /\ requests[i].user \in User
                 /\ requests[i].amount \in 0 .. MaxAmount
                 /\ requests[i].service_fee \in 0 .. MaxAmount
      <4>1. requests[i] \in Request
        BY <2>2
      <4> QED
        BY <4>1 DEF Request
    <3>2. ASSUME NEW i \in 1 .. Len(requests)
          PROVE  ReservedTotal(requests[i].amount, requests[i].service_fee)
                   \in 0 .. MaxAmount
      BY <3>1, SaturatingAddBounds DEF ReservedTotal
    <3> QED
      BY <3>1, <3>2
  <2>5. Withdrawals \in
          Seq([user : User, amount : 0 .. MaxAmount, reserved : 0 .. MaxAmount])
        /\ Len(Withdrawals) = Len(requests)
    BY <2>2, <2>4 DEF Withdrawals
  <2> QED
    BY <1>3, <2>2, <2>3, <2>5 DEF Withdrawals
<1>12. UNCHANGED <<Received, Delivered>>
  BY DEF QueueWithdrawal, Received, Delivered
<1>13. Ledger!Withdraw(user, amount, total)
  BY <1>1, <1>4, <1>6, <1>9, <1>10, <1>11, <1>12 DEF Ledger!Withdraw
<1> QED
  BY <1>1, <1>13 DEF Ledger!Amount

\* a batch to a delivery of the requests in it,
LEMMA CustodyDeliver ==
  ASSUME MixerInv, NEW n \in Nat, NEW rs \in [1 .. n -> DOMAIN requests],
         Deliver(rs)
  PROVE  \E ws \in SUBSET DOMAIN Withdrawals : Ledger!Deliver(ws)
<1> DEFINE ws == { deliveries'[d].request :
                     d \in DOMAIN deliveries' \ DOMAIN deliveries }
           new == [ k \in DOMAIN rs |->
                      [request |-> rs[k], coin |-> DeliveredCoin(rs[k])] ]
<1>1. ws \in SUBSET DOMAIN Withdrawals
  BY DeliverType DEF MixerInv, Withdrawals
<1>2. /\ DOMAIN deliveries \subseteq DOMAIN deliveries'
      /\ \A d \in DOMAIN deliveries : deliveries'[d] = deliveries[d]
  <2>1. deliveries \in Seq([request : DOMAIN requests, coin : CoinRecord])
        /\ deliveries' = deliveries \o new
    BY DEF MixerInv, HandlerTypeOK, Deliver
  <2>2. Len(new) = n /\ DOMAIN new = 1 .. n
    OBVIOUS
  <2> HIDE DEF new
  <2> QED
    BY <2>1, <2>2
<1>3. Delivered' = Delivered \cup ws
  BY <1>2 DEF Delivered
<1>4. UNCHANGED <<Credited, Reserved, Received, Withdrawals>>
  BY DEF Deliver, Credited, Reserved, Received, Withdrawals
<1> HIDE DEF ws
<1> QED
  BY <1>1, <1>3, <1>4 DEF Ledger!Deliver

\* and so every step to a step of Custody or a stutter.
LEMMA CustodyStep ==
  ASSUME MixerInv, [Next]_vars
  PROVE  [Ledger!Next]_(Ledger!custodyVars)
<1>1. CASE NodeStep \/ UNCHANGED vars
  BY <1>1, CustodyStutter DEF NodeStep, vars, mixerVars
<1>2. CASE \E a \in AccountId, p \in BOOLEAN : CreatePoolAccount(a, p)
  BY <1>2, CustodyStutter DEF CreatePoolAccount
<1>3. CASE \E id \in OnChainIds(unspent_coins) : ConsolidateIntoPool(id)
  BY <1>3, CustodyStutter DEF ConsolidateIntoPool
<1>4. ASSUME NEW u \in User, NEW c \in Coin, ReceiveDeposit(u, c)
      PROVE  Ledger!Next
  BY <1>4, CustodyReceive DEF Ledger!Next
<1>5. ASSUME NEW u \in User, NEW x \in WithdrawAmount, NEW c \in Destination,
             QueueWithdrawal(u, x, c)
      PROVE  Ledger!Next
  BY <1>5, CustodyWithdraw DEF Ledger!Next
<1>6. ASSUME NEW r \in DOMAIN requests, ProcessSingleWithdrawal(r)
      PROVE  Ledger!Next
  <2>1. <<r>> \in [1 .. 1 -> DOMAIN requests] /\ 1 \in Nat
    OBVIOUS
  <2> QED
    BY <1>6, <2>1, CustodyDeliver DEF ProcessSingleWithdrawal, Ledger!Next
<1>7. ASSUME NEW rs \in Batches, ProcessBatchedWithdrawals(rs)
      PROVE  Ledger!Next
  <2>1. PICK n \in 1 .. MaxBatchSize : rs \in [1 .. n -> DOMAIN requests]
    BY DEF Batches
  <2>2. n \in Nat
    BY PolicyAssumption
  <2> QED
    BY <1>7, <2>1, <2>2, CustodyDeliver DEF ProcessBatchedWithdrawals, Ledger!Next
<1> QED
  BY <1>1, <1>2, <1>3, <1>4, <1>5, <1>6, <1>7 DEF Next

\* Seen through its ledger, its deposits, its requests and its deliveries, the
\* mixer does only what a custodian may, for every policy and every interleaving
\* with blocks and reorgs.
THEOREM MixerImplementsCustody == Spec => ImplementsCustody
<1>1. Init => Ledger!Init
  BY CustodyInit
<1>2. MixerInv /\ [Next]_vars => [Ledger!Next]_(Ledger!custodyVars)
  BY CustodyStep
<1> QED
  BY <1>1, <1>2, MixerInvHolds, PTL DEF Spec, ImplementsCustody, Ledger!Spec
=============================================================================
