------------------------------- MODULE Mixer -------------------------------
(***************************************************************************)
(* The mixer: the node of MixerNode composed with the wallet, the pool     *)
(* manager, and the deposit and withdrawal handlers (wallet_state.rs,      *)
(* pool.rs, deposit_handler.rs, withdrawal_handler.rs).                    *)
(*                                                                         *)
(* There are two wallets.  The node owns one, moved into it by             *)
(* MixerNode::new; a handler borrows the node (&MixerNode) and another     *)
(* wallet (&mut WalletState) in the same call, so the two cannot be one    *)
(* object.  The variables below are the handlers' wallet; of the node's    *)
(* own, the handlers read only unspent_coins, which nothing changes: the   *)
(* constant NodeCoins.  Both start as copies of one WalletState.           *)
(*                                                                         *)
(* A handler method that returns an error before it has changed anything   *)
(* is a stutter and is left out.  The proving backend (MockPcd) never      *)
(* fails.                                                                  *)
(***************************************************************************)
EXTENDS MixerNode, SequencesExt

CONSTANTS
  User,
  Coin,                \* the coins users may send to the mixer
  NodeCoins,           \* unspent_coins of the WalletState both sides copy
  InitialLiabilities,  \* its liabilities
  AccountId,           \* fresh ids (Uuid) for pool accounts
  MixerAddress,        \* Commitment::commit(mixer_acct_id, address_rand)
  WithdrawAmount,      \* amounts users ask to withdraw
  Destination,         \* and the addresses to which
  WithdrawalServiceFee,
  AllowBatchedWithdrawals,
  MaxBatchSize,
  MaxAmount,           \* u64::MAX, scaled down
  MaxDeposits,         \* bound: deposits accepted in a behaviour
  MaxRequests,         \* bound: withdrawals queued
  MaxDeliveries        \* bound: withdrawals processed

VARIABLES
  liabilities,      \* user -> [credited, withdrawn]
  unspent_coins,    \* coins held by the mixer
  pool_accounts,    \* account id -> [balance, nullifier_accum, is_primary]
  requests,         \* the MixerWithdrawalRequests handed out
  \* history variables
  deposits,         \* accepted deposits: [coin, user]
  consumed,         \* coins consolidation took out: [coin, ok]
  deliveries        \* WithdrawalDeliveries: [request, coin]

mixerVars == <<liabilities, unspent_coins, pool_accounts, requests,
               deposits, consumed, deliveries>>
vars == <<nodeVars, mixerVars>>

CoinRecord == [blockchain_loc  : Nat,
               idx             : Nat,
               amount          : 0 .. MaxAmount,
               nullifier_accum : ToSAccValue,
               address         : Commitment,
               proof_verifies  : BOOLEAN]
LiabilityEntry == [credited : 0 .. MaxAmount, withdrawn : 0 .. MaxAmount]

ASSUME AmountAssumption ==
  /\ MaxAmount \in Nat
  /\ WithdrawalServiceFee \in 0 .. MaxAmount
  /\ WithdrawAmount \subseteq 0 .. MaxAmount
ASSUME CoinAssumption == /\ Coin \subseteq CoinRecord
                         /\ NodeCoins \in Seq(CoinRecord)
                         /\ MixerAddress \in Commitment
                         /\ Destination \subseteq Commitment
ASSUME LiabilityAssumption ==
  /\ DOMAIN InitialLiabilities \subseteq User
  /\ IsFiniteSet(DOMAIN InitialLiabilities)
  /\ InitialLiabilities \in [DOMAIN InitialLiabilities -> LiabilityEntry]
  /\ \A u \in DOMAIN InitialLiabilities :
       InitialLiabilities[u].withdrawn <= InitialLiabilities[u].credited
ASSUME PolicyAssumption == /\ AllowBatchedWithdrawals \in BOOLEAN
                           /\ MaxBatchSize \in Nat
ASSUME MixerBoundAssumption == /\ MaxDeposits \in Nat
                               /\ MaxRequests \in Nat
                               /\ MaxDeliveries \in Nat

-----------------------------------------------------------------------------
(* The ledger of liabilities (wallet_state.rs, pool.rs).                   *)

\* Mutant: the sum is not capped.
PlainAdd(a, b) == a + b

SaturatingAdd(a, b) == IF a + b > MaxAmount THEN MaxAmount ELSE a + b

\* LiabilityEntry::available
Available(entry) ==
  IF entry.credited >= entry.withdrawn THEN entry.credited - entry.withdrawn
  ELSE 0

\* Mutant: a new entry starts with the amount, which is then added.
CreditNewUserTwice(ledger, user, amount) ==
  LET old == IF user \in DOMAIN ledger THEN ledger[user]
             ELSE [credited |-> amount, withdrawn |-> 0]
  IN [ u \in DOMAIN ledger \cup {user} |->
         IF u = user
         THEN [old EXCEPT !.credited = SaturatingAdd(@, amount)]
         ELSE ledger[u] ]

CreditUser(ledger, user, amount) ==
  LET old == IF user \in DOMAIN ledger THEN ledger[user]
             ELSE [credited |-> 0, withdrawn |-> 0]
  IN [ u \in DOMAIN ledger \cup {user} |->
         IF u = user
         THEN [old EXCEPT !.credited = SaturatingAdd(@, amount)]
         ELSE ledger[u] ]

\* Mutant: earlier withdrawals are forgotten.
CanDebitCredited(ledger, user, amount) ==
  /\ user \in DOMAIN ledger
  /\ ledger[user].credited >= amount

CanDebit(ledger, user, amount) ==
  /\ user \in DOMAIN ledger
  /\ Available(ledger[user]) >= amount

\* Mutant: the amount is assigned, not added.
DebitUserAssigns(ledger, user, amount) ==
  [ledger EXCEPT ![user].withdrawn = amount]

DebitUser(ledger, user, amount) ==
  [ledger EXCEPT ![user].withdrawn = SaturatingAdd(@, amount)]

\* Mutant: the fee is reserved, the amount is not.
ReservedFee(amount, service_fee) == service_fee

ReservedTotal(amount, service_fee) == SaturatingAdd(amount, service_fee)

Liabilities ==
  SumFunction([u \in DOMAIN liabilities |-> Available(liabilities[u])])

SumAmounts(coins) == SumFunction([i \in DOMAIN coins |-> coins[i].amount])

Balances ==
  SumFunction([a \in DOMAIN pool_accounts |-> pool_accounts[a].balance])

PoolValue == SumAmounts(unspent_coins) + Balances

\* Both sums are unchecked: in a release build they wrap.
TotalLiabilities == Liabilities % (MaxAmount + 1)

TotalUnspentPoolValue == PoolValue % (MaxAmount + 1)

\* PoolManager::check_solvency
CheckSolvency == TotalLiabilities <= TotalUnspentPoolValue

-----------------------------------------------------------------------------
(* Coins and pool accounts (wallet_state.rs, pool.rs).                     *)

OnChainIds(coins) == { OnChainId(coins[i]) : i \in DOMAIN coins }

\* The first coin with that id, as remove_unspent_coin finds it.
PositionOf(coins, id) ==
  CHOOSE i \in DOMAIN coins :
    /\ OnChainId(coins[i]) = id
    /\ \A j \in 1 .. i - 1 : OnChainId(coins[j]) # id

\* Mutant: every coin of that id leaves (retain).
RemoveUnspentCoins(id) ==
  unspent_coins' = SelectSeq(unspent_coins, LAMBDA c : OnChainId(c) # id)

\* A coin of id `id' leaves the wallet.
RemoveUnspentCoin(id) ==
  unspent_coins' = RemoveAt(unspent_coins, PositionOf(unspent_coins, id))

HasPrimary == \E a \in DOMAIN pool_accounts : pool_accounts[a].is_primary

\* nullifier_accum_history of the handlers' wallet: process_block records
\* NAVs in the node's, never in this one.
WalletHistory == <<0>>

NewPoolAccount(is_primary) ==
  [ balance         |-> 0,
    nullifier_accum |-> WalletHistory[Len(WalletHistory)],
    is_primary      |-> is_primary ]

\* Mutant: the old primary account stays primary.
InsertWithoutDemoting(accounts, a, is_primary) ==
  [ x \in DOMAIN accounts \cup {a} |->
      IF x = a THEN NewPoolAccount(is_primary) ELSE accounts[x] ]

\* Mutant: the old primary account is demoted whatever the new one is.
InsertAlwaysDemoting(accounts, a, is_primary) ==
  [ x \in DOMAIN accounts \cup {a} |->
      IF x = a THEN NewPoolAccount(is_primary)
      ELSE [accounts[x] EXCEPT !.is_primary = FALSE] ]

InsertPoolAccount(accounts, a, is_primary) ==
  [ x \in DOMAIN accounts \cup {a} |->
      IF x = a THEN NewPoolAccount(is_primary)
      ELSE IF is_primary THEN [accounts[x] EXCEPT !.is_primary = FALSE]
      ELSE accounts[x] ]

\* Mutant: bound to the NAV of the handlers' wallet, not to the node's.
DeliveredCoinOfWallet(r) ==
  [ blockchain_loc  |-> 0,
    idx             |-> 1,
    amount          |-> requests[r].amount,
    nullifier_accum |-> WalletHistory[Len(WalletHistory)],
    address         |-> requests[r].destination_address,
    proof_verifies  |-> TRUE ]

\* The coin a withdrawal delivers: not yet on chain, so its location is all
\* zero, at the fixed index [0, 1].
DeliveredCoin(r) ==
  [ blockchain_loc  |-> 0,
    idx             |-> 1,
    amount          |-> requests[r].amount,
    nullifier_accum |-> CurrentNav,
    address         |-> requests[r].destination_address,
    proof_verifies  |-> TRUE ]

-----------------------------------------------------------------------------
MixerInit ==
  /\ liabilities = InitialLiabilities
  /\ unspent_coins = NodeCoins
  /\ pool_accounts = [a \in {} |-> 0]
  /\ requests = << >>
  /\ deposits = << >>
  /\ consumed = << >>
  /\ deliveries = << >>

Init == NodeInit /\ MixerInit

\* PoolManager::create_pool_account, with a fresh account id.
CreatePoolAccount(a, is_primary) ==
  /\ a \notin DOMAIN pool_accounts
  /\ pool_accounts' = InsertPoolAccount(pool_accounts, a, is_primary)
  /\ UNCHANGED <<nodeVars, liabilities, unspent_coins, requests, deposits,
                 consumed, deliveries>>

\* DepositHandler::receive_deposit; the node checks against its own wallet.
ReceiveDeposit(user, coin) ==
  /\ Len(deposits) < MaxDeposits
  /\ PaymentAccepted(coin, MixerAddress, OnChainIds(NodeCoins))
  /\ liabilities' = CreditUser(liabilities, user, coin.amount)
  /\ unspent_coins' = Append(unspent_coins, coin)
  /\ deposits' = Append(deposits, [coin |-> coin, user |-> user])
  /\ UNCHANGED <<nodeVars, pool_accounts, requests, consumed, deliveries>>

\* DepositHandler::consolidate_into_pool for the coin with that id.  The coin
\* leaves the wallet before the primary account is looked up, and the pool
\* account it goes to is not updated.
ConsolidateIntoPool(id) ==
  /\ id \in OnChainIds(unspent_coins)
  /\ RemoveUnspentCoin(id)
  /\ consumed' = Append(consumed,
       [coin |-> unspent_coins[PositionOf(unspent_coins, id)],
        ok   |-> HasPrimary])
  /\ UNCHANGED <<nodeVars, liabilities, pool_accounts, requests, deposits,
                 deliveries>>

\* WithdrawalHandler::queue_withdrawal.
QueueWithdrawal(user, amount, address) ==
  LET total == ReservedTotal(amount, WithdrawalServiceFee)
  IN /\ Len(requests) < MaxRequests
     /\ CanDebit(liabilities, user, total)
     /\ liabilities' = DebitUser(liabilities, user, total)
     /\ requests' = Append(requests,
          [ user                |-> user,
            amount              |-> amount,
            service_fee         |-> WithdrawalServiceFee,
            destination_address |-> address ])
     /\ UNCHANGED <<nodeVars, unspent_coins, pool_accounts, deposits,
                    consumed, deliveries>>

\* What processing the requests rs, in order, delivers.
Deliver(rs) ==
  /\ Len(deliveries) + Len(rs) <= MaxDeliveries
  /\ HasPrimary
  /\ deliveries' = deliveries \o
       [ k \in DOMAIN rs |-> [request |-> rs[k], coin |-> DeliveredCoin(rs[k])] ]
  /\ UNCHANGED <<nodeVars, liabilities, unspent_coins, pool_accounts,
                 requests, deposits, consumed>>

\* WithdrawalHandler::process_single_withdrawal.  The request is borrowed,
\* not changed: it may be processed again.
ProcessSingleWithdrawal(r) == Deliver(<<r>>)

\* WithdrawalHandler::process_batched_withdrawals, on any slice of requests.
ProcessBatchedWithdrawals(rs) ==
  /\ AllowBatchedWithdrawals
  /\ Len(rs) <= MaxBatchSize
  /\ Deliver(rs)

NodeStep == NodeNext /\ UNCHANGED mixerVars

Batches == UNION { [1 .. n -> DOMAIN requests] : n \in 1 .. MaxBatchSize }

Next ==
  \/ NodeStep
  \/ \E a \in AccountId, p \in BOOLEAN : CreatePoolAccount(a, p)
  \/ \E u \in User, c \in Coin : ReceiveDeposit(u, c)
  \/ \E id \in OnChainIds(unspent_coins) : ConsolidateIntoPool(id)
  \/ \E u \in User, x \in WithdrawAmount, c \in Destination :
       QueueWithdrawal(u, x, c)
  \/ \E r \in DOMAIN requests : ProcessSingleWithdrawal(r)
  \/ \E rs \in Batches : ProcessBatchedWithdrawals(rs)

Spec == Init /\ [][Next]_vars

-----------------------------------------------------------------------------
(* Properties.                                                             *)

PoolAccountEntry == [balance : Nat, nullifier_accum : ToSAccValue,
                     is_primary : BOOLEAN]
Request == [user : User, amount : 0 .. MaxAmount,
            service_fee : 0 .. MaxAmount, destination_address : Commitment]

\* Types of the handlers' wallet; a delivery is of a request that was queued.
MixerTypeOK ==
  /\ NodeTypeOK
  /\ DOMAIN liabilities \subseteq User
  /\ liabilities \in [DOMAIN liabilities -> LiabilityEntry]
  /\ unspent_coins \in Seq(CoinRecord)
  /\ DOMAIN pool_accounts \subseteq AccountId
  /\ pool_accounts \in [DOMAIN pool_accounts -> PoolAccountEntry]
  /\ requests \in Seq(Request)
  /\ deposits \in Seq([coin : Coin, user : User])
  /\ consumed \in Seq([coin : CoinRecord, ok : BOOLEAN])
  /\ deliveries \in Seq([request : DOMAIN requests, coin : CoinRecord])

\* Every coin is accounted for: the wallet and the coins consolidation took
\* from it hold a coin as often, together, as it was deposited or was there at
\* the start, so a consolidation neither loses nor duplicates another coin,
\* also when several have one on-chain id (receive_deposit,
\* remove_unspent_coin, consolidate_into_pool).
Occurrences(c, coins) == Cardinality({ i \in DOMAIN coins : coins[i] = c })

ConsumedCoins == [i \in DOMAIN consumed |-> consumed[i].coin]

DepositedCoins == [i \in DOMAIN deposits |-> deposits[i].coin]

CoinsAccounted ==
  \A c \in Coin \cup ToSet(NodeCoins) :
    Occurrences(c, unspent_coins) + Occurrences(c, ConsumedCoins)
      = Occurrences(c, NodeCoins) + Occurrences(c, DepositedCoins)

\* types.rs:27, "Deposit rejected (invalid proof, double-spend, etc.)": a coin
\* is credited once.  The code does not do what it says (mixer_twice.cfg); the
\* next property and DeliveriesBacked say what holds as long as it is so.
CoinCreditedOnce ==
  \A i, j \in DOMAIN deposits :
    OnChainId(deposits[i].coin) = OnChainId(deposits[j].coin) => i = j

Credits(ledger) == SumFunction([u \in DOMAIN ledger |-> ledger[u].credited])

Worth(coins) == SumFunction([c \in coins |-> c.amount])

CoinsReceived == ToSet(NodeCoins) \cup ToSet(DepositedCoins)

InitiallyBacked == Credits(InitialLiabilities) <= Worth(ToSet(NodeCoins))

\* As long as no deposit is accepted twice, what the ledger credits is covered
\* by the worth of the coins received, each counted once, the coins of the
\* wallet both sides copied among them, over deposits and withdrawals in any
\* order and however credits saturate (accept_payment, receive_deposit,
\* credit_user).
CreditBacked ==
  CoinCreditedOnce => Credits(liabilities) <= Worth(CoinsReceived)

\* No user withdraws more than was credited, whatever saturates (debit_user).
NoOverdraft ==
  \A u \in DOMAIN liabilities :
    liabilities[u].withdrawn <= liabilities[u].credited

\* What the ledger has withdrawn for a user is the sum of the reservations of
\* the requests queued for that user, amount and service fee, so a refused
\* request leaves no trace (reserve_withdrawal, queue_withdrawal).
RequestsOf(u) == { r \in DOMAIN requests : requests[r].user = u }

ReservedBy(r) == ReservedTotal(requests[r].amount, requests[r].service_fee)

InitiallyWithdrawn(u) ==
  IF u \in DOMAIN InitialLiabilities THEN InitialLiabilities[u].withdrawn ELSE 0

ReservationsExact ==
  \A u \in User :
    IF u \in DOMAIN liabilities
    THEN liabilities[u].withdrawn
           = InitiallyWithdrawn(u)
             + SumFunction([r \in RequestsOf(u) |-> ReservedBy(r)])
    ELSE RequestsOf(u) = {}

\* As long as no request is processed twice, which nothing in the code rules
\* out, a user is delivered at most what was set aside for that user, over
\* single and batched withdrawals (queue_withdrawal, process_single_withdrawal,
\* process_batched_withdrawals).
ProcessedOnce ==
  \A d, e \in DOMAIN deliveries :
    deliveries[d].request = deliveries[e].request => d = e

DeliveriesTo(u) ==
  { d \in DOMAIN deliveries : requests[deliveries[d].request].user = u }

DeliveredWithinReserved ==
  ProcessedOnce =>
    \A u \in DOMAIN liabilities :
      SumFunction([d \in DeliveriesTo(u) |-> deliveries[d].coin.amount])
        <= liabilities[u].withdrawn

\* As long as no request is processed twice and no deposit accepted twice,
\* what all users together are delivered is covered by the worth of the coins
\* received, each counted once, however credits saturate, requests are refused
\* and deliveries are batched (receive_deposit, queue_withdrawal,
\* process_single_withdrawal, process_batched_withdrawals).  It says nothing of
\* where the coins are: a delivery takes none from the pool.
DeliveriesBacked ==
  ProcessedOnce /\ CoinCreditedOnce =>
    SumFunction([d \in DOMAIN deliveries |-> deliveries[d].coin.amount])
      <= Worth(CoinsReceived)

\* Only consolidation, which takes a coin and credits no account, can make a
\* solvent pool insolvent, as long as the sums do not overflow: deposits,
\* withdrawal requests, deliveries and new accounts cannot, whichever user
\* they concern (receive_deposit, reserve_withdrawal, check_solvency).
SumsFit == Liabilities <= MaxAmount /\ PoolValue <= MaxAmount

SolvencyKept ==
  [][ SumsFit /\ CheckSolvency /\ consumed' = consumed /\ SumsFit'
        => CheckSolvency' ]_vars

\* The mixer implements Custody: no operation of the node, the pool or the
\* handlers credits a user but for a coin received, withdraws what is not
\* covered, or delivers what nobody asked for.
Credited ==
  [ u \in User |-> IF u \in DOMAIN liabilities THEN liabilities[u].credited
                   ELSE 0 ]
Reserved ==
  [ u \in User |-> IF u \in DOMAIN liabilities THEN liabilities[u].withdrawn
                   ELSE 0 ]
Received ==
  [ i \in DOMAIN deposits |-> [user   |-> deposits[i].user,
                               amount |-> deposits[i].coin.amount] ]
Withdrawals ==
  [ r \in DOMAIN requests |->
      [ user     |-> requests[r].user,
        amount   |-> requests[r].amount,
        reserved |-> ReservedTotal(requests[r].amount, requests[r].service_fee) ] ]
Delivered == { deliveries[d].request : d \in DOMAIN deliveries }

Ledger == INSTANCE Custody WITH
  credited <- Credited, reserved <- Reserved, received <- Received,
  withdrawals <- Withdrawals, delivered <- Delivered

ImplementsCustody == Ledger!Spec

\* primary_pool_account takes the first primary account a hash map yields:
\* there is never more than one (create_pool_account).
AtMostOnePrimary ==
  \A a, b \in DOMAIN pool_accounts :
    pool_accounts[a].is_primary /\ pool_accounts[b].is_primary => a = b

\* Once there is a primary account there always is one, so neither
\* consolidation nor withdrawal starts to fail with NoPrimaryAccount.
PrimaryPersists == [][HasPrimary => HasPrimary']_vars

\* On-chain ids of the coins delivered to an address before delivery d.
ReceivedIds(d) ==
  { OnChainId(deliveries'[e].coin) :
      e \in { x \in 1 .. d - 1 :
               deliveries'[x].coin.address = deliveries'[d].coin.address } }

DeliveriesAccepted ==
  \A d \in DOMAIN deliveries' \ DOMAIN deliveries :
    PaymentAccepted(deliveries'[d].coin,
                    requests[deliveries'[d].request].destination_address,
                    ReceivedIds(d))
      <=> ReceivedIds(d) = {}

\* accept_payment, run by a recipient who follows the same chain and holds the
\* coins delivered to the address so far, takes the first of them, whatever
\* blocks and reorgs came before, and no other: every delivered coin has one
\* on-chain id (withdrawal_handler.rs:133), so all but the first look like
\* duplicates, though ARCHITECTURE.md:168 has the user accept and spend them
\* (process_single_withdrawal, process_batched_withdrawals, current_nav).
FirstDeliveryAccepted == [][DeliveriesAccepted]_vars

\* What the code or its documents say and the code does not do.

\* types.rs:23, "balance credited, coin held separately": a consolidation that
\* fails leaves the coin in the wallet.
FailedConsolidationKeepsCoin == \A i \in DOMAIN consumed : consumed[i].ok
=============================================================================
