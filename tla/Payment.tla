------------------------------ MODULE Payment ------------------------------
(***************************************************************************)
(* Payments: the predicates of protocol.rs as the steps by which proofs    *)
(* (PCDs) about account states and coins are derived from one another.     *)
(* The state is what has a proof: the account states, the coins and the    *)
(* two outputs of payment_init.  An edge label gets a proof exactly when   *)
(* compliance_predicate holds of it and of labels that have one.           *)
(*                                                                         *)
(* The accumulators are constants, the verdicts their verifiers give; the  *)
(* code has stubs that always say yes.  A NAV is the sequence of the sets  *)
(* of elements appended to it, one per block, so that `navs' is a tree:    *)
(* its branches are the chains before and after a reorg.                   *)
(*                                                                         *)
(* Abstractions.  An address is the account it commits to, the openings    *)
(* given being right, of which there may be fewer than coins.  A hash is   *)
(* what is hashed, its randomness left out.                                *)
(* A nullifier's sig_comm is the hash it commits to (commit_verify).       *)
(* A call that returns None, or panics, derives nothing and is left out.   *)
(***************************************************************************)
EXTENDS Integers, FiniteSetsExt, SequencesExt

CONSTANTS
  Key,             \* account ids and nullifier keys are both public keys
  OldCoin,         \* coins that have a proof from the start
  Index,           \* coin indices: two bytes, scaled down
  FEE_IDX,         \* the largest of them
  MaxAmount,       \* u64::MAX, scaled down
  OverflowChecks,  \* TRUE for a debug build, FALSE for a release build
  NewCoins,        \* the lists of coins payers choose from
  Fee,             \* the fees they offer
  FeeAcct,         \* the accounts publishers name for them
  Openings,        \* how many addresses they open: lengths of acct_comm_rands
  MaxSpent,        \* bound: coins spent by one payment
  MaxPayments,     \* bound: payments begun
  MaxNavs,         \* bound: accumulator values, over all branches
  VerifyNonMembershipAndInsert(_, _, _),  \* old value, new value, ids
  VerifyUnionMembership(_, _),            \* value, element
  VerifyIsPrefix(_, _),                   \* values, value
  VerifyDistinctElement(_, _)             \* value, value

VARIABLES
  acct_states,   \* labels with a proof: AcctState,
  coins,         \* Coin,
  init_outputs,  \* PaymentInitOutput
  fee_outputs,   \* and PaymentInitOutputFee
  navs,          \* the values of the nullifier accumulator, a tree
  \* history variables
  payments,      \* payments begun: [prev, spends, w, out, fee_out]
  finalized      \* those finalized: [payment, nav, state]

vars == <<acct_states, coins, init_outputs, fee_outputs, navs, payments,
          finalized>>

Amount == 0 .. MaxAmount
CoinEssence == [address : Key, amount : Amount, idx : Index]

ASSUME AmountAssumption == MaxAmount \in Nat /\ Fee \subseteq Amount
ASSUME FeeAcctAssumption == FeeAcct \subseteq Key
ASSUME IndexAssumption == /\ Index \subseteq Nat
                          /\ FEE_IDX \in Index
                          /\ \A i \in Index : i <= FEE_IDX
ASSUME NewCoinsAssumption == NewCoins \subseteq Seq(CoinEssence)
ASSUME OldCoinAssumption ==
  \A c \in OldCoin :
    /\ c.address \in Key /\ c.amount \in Amount /\ c.idx \in Index
    /\ c = [ address         |-> c.address,
             amount          |-> c.amount,
             idx             |-> c.idx,
             tx_hash         |-> c.tx_hash,
             blockchain_loc  |-> c.blockchain_loc,
             nullifier_accum |-> << >> ]
ASSUME OpeningsAssumption == Openings \subseteq Nat
ASSUME BuildAssumption == OverflowChecks \in BOOLEAN
ASSUME PaymentBoundAssumption == /\ MaxSpent \in Nat
                                 /\ MaxPayments \in Nat
                                 /\ MaxNavs \in Nat

-----------------------------------------------------------------------------
(* payment_init.                                                           *)

OnChainId(coin) == <<coin.blockchain_loc, coin.idx>>
CoinId(coin) == <<coin.tx_hash, coin.idx>>

OnChainIds(spends) == [i \in DOMAIN spends |-> OnChainId(spends[i])]

SumOf(list) == SumFunction([i \in DOMAIN list |-> list[i].amount])

\* The part of an AcctState a transaction commits to.
Essence(state) == [id           |-> state.id,
                   balance      |-> state.balance,
                   nullifier_pk |-> state.nullifier_pk]

\* The account a payer without one starts from.
NewAcct(id, nav) == [id              |-> id,
                     balance         |-> 0,
                     nullifier_pk    |-> id,
                     spent_accum     |-> {},
                     nullifier_accum |-> nav]

\* What the new coins take out of the balance: the fee is taken off it.
CoinsSum(w) == SumOf(w.new_coins) - w.fee

Funds(prev, spends) == prev.balance + SumOf(spends)

\* Mutant: the sum of the funds does not wrap.
NewBalanceUnbounded(prev, spends, w) == Funds(prev, spends) - CoinsSum(w)

\* The sum of the funds is unchecked: it wraps, unless the build checks.
NewBalance(prev, spends, w) ==
  (Funds(prev, spends) % (MaxAmount + 1)) - CoinsSum(w)

AmountsOk(prev, spends, w) ==
  /\ SumOf(w.new_coins) <= MaxAmount
  /\ CoinsSum(w) >= 0
  /\ OverflowChecks => Funds(prev, spends) <= MaxAmount
  /\ NewBalance(prev, spends, w) >= 0

\* Mutant: FEE_IDX is not reserved.
IndicesAscend(new_coins) ==
  \A i \in 2 .. Len(new_coins) : new_coins[i].idx > new_coins[i - 1].idx

\* Ascending, and FEE_IDX left to the fee coin; the first is not compared.
IndicesOk(new_coins) ==
  \A i \in 2 .. Len(new_coins) : /\ new_coins[i].idx > new_coins[i - 1].idx
                                 /\ new_coins[i].idx # FEE_IDX

Tx(prev, spends, w) ==
  [ conditional_nav |-> w.conditional_nav,
    prev_state      |-> Essence(prev),
    prev_coins      |-> [i \in DOMAIN spends |-> CoinId(spends[i])],
    new_state       |-> [id           |-> prev.id,
                         balance      |-> NewBalance(prev, spends, w),
                         nullifier_pk |-> w.new_nullifier_pk],
    new_coins       |-> w.new_coins ]

\* Mutant: a payment not made at its conditional NAV is a no-op.
NoOpUnlessEqual(w) == w.conditional_nav # w.nullifier_accum

\* The conditional NAV is not of the chain the payment is made on.
NoOp(w) == VerifyDistinctElement(w.conditional_nav, w.nullifier_accum)

\* NAVs a payment that takes effect must find in its chain.
BoundNavs(prev, spends, w) ==
  {spends[i].nullifier_accum : i \in DOMAIN spends}
    \cup {prev.nullifier_accum, w.conditional_nav}

\* The zip ends with the shorter list: coins after it are not looked at.
Owns(prev, spends, w) ==
  \A i \in DOMAIN spends : i <= w.openings => spends[i].address = prev.id

InitAccepts(prev, spends, w) ==
  /\ Owns(prev, spends, w)
  /\ AmountsOk(prev, spends, w)
  /\ VerifyNonMembershipAndInsert(prev.spent_accum, w.new_spent_accum,
                                  OnChainIds(spends))
  /\ IndicesOk(w.new_coins)
  /\ NoOp(w) \/ ( /\ VerifyIsPrefix(BoundNavs(prev, spends, w),
                                    w.nullifier_accum)
                  /\ w.new_coins # <<>> )    \* new_coins[1..] panics

PartialOutput(prev, spends, w) ==
  [ tx_hash         |-> Tx(prev, spends, w),
    nullifier_pk    |-> prev.nullifier_pk,
    nullifier_accum |-> w.nullifier_accum ]

OutputBalance(prev, spends, w) ==
  IF NoOp(w) THEN prev.balance ELSE NewBalance(prev, spends, w)

\* Mutant: what was spent is not remembered.
OldSpentAccum(prev, w) == prev.spent_accum

OutputSpentAccum(prev, w) ==
  IF NoOp(w) THEN prev.spent_accum ELSE w.new_spent_accum

InitOutput(prev, spends, w) ==
  [ partial_output |-> PartialOutput(prev, spends, w),
    state          |-> [id           |-> prev.id,
                        balance      |-> OutputBalance(prev, spends, w),
                        nullifier_pk |-> w.new_nullifier_pk],
    spent_accum    |-> OutputSpentAccum(prev, w),
    coin_essences  |-> IF NoOp(w) THEN << >> ELSE Tail(w.new_coins) ]

\* Mutant: the fee is paid for a no-op too.
InitOutputFeeAlways(prev, spends, w) ==
  [ partial_output |-> PartialOutput(prev, spends, w), fee |-> w.fee ]

InitOutputFee(prev, spends, w) ==
  [ partial_output |-> PartialOutput(prev, spends, w),
    fee            |-> IF NoOp(w) THEN 0 ELSE w.fee ]

-----------------------------------------------------------------------------
(* payment_finalize and payment_finalize_fee.                              *)

\* The element of the nullifier accumulator that completes a payment.
Element(partial, w) == [nullifier_pk   |-> partial.nullifier_pk,
                        tx_comm        |-> partial.tx_hash,
                        blockchain_loc |-> w.blockchain_loc,
                        fee_acct_comm  |-> w.fee_acct_comm]

FinalizeAccepts(partial, w) ==
  /\ VerifyIsPrefix({partial.nullifier_accum}, w.nullifier_accum)
  /\ VerifyUnionMembership(w.nullifier_accum, Element(partial, w))

FinalCoin(essence, partial, w) ==
  [ address         |-> essence.address,
    amount          |-> essence.amount,
    idx             |-> essence.idx,
    tx_hash         |-> partial.tx_hash,
    blockchain_loc  |-> w.blockchain_loc,
    nullifier_accum |-> w.nullifier_accum ]

FeeEssence(out, w) == [address |-> w.fee_acct_comm,
                       amount  |-> out.fee,
                       idx     |-> FEE_IDX]

FinalState(out, w) == [id              |-> out.state.id,
                       balance         |-> out.state.balance,
                       nullifier_pk    |-> out.state.nullifier_pk,
                       spent_accum     |-> out.spent_accum,
                       nullifier_accum |-> w.nullifier_accum]

-----------------------------------------------------------------------------
Init ==
  /\ acct_states = {}
  /\ coins = OldCoin
  /\ init_outputs = {}
  /\ fee_outputs = {}
  /\ navs = { << >> }
  /\ payments = {}
  /\ finalized = {}

\* compliance_predicate_pay_init holds of both outputs.  The payer inserts
\* what it spends into its spent accumulator.
CertifyPayInit(prev, spends, w) ==
  /\ Cardinality(payments) < MaxPayments
  /\ InitAccepts(prev, spends, w)
  /\ init_outputs' = init_outputs \cup {InitOutput(prev, spends, w)}
  /\ fee_outputs' = fee_outputs \cup {InitOutputFee(prev, spends, w)}
  /\ payments' = payments \cup
       { [ prev    |-> prev,
           spends  |-> spends,
           w       |-> w,
           out     |-> InitOutput(prev, spends, w),
           fee_out |-> InitOutputFee(prev, spends, w) ] }
  /\ UNCHANGED <<acct_states, coins, navs, finalized>>

\* Payment inputs a payer may choose for the coins it spends.
InitLocalInput(prev, spends) ==
  [ new_coins        : NewCoins,
    fee              : Fee,
    openings         : Openings,
    new_spent_accum  : {prev.spent_accum \cup Range(OnChainIds(spends))},
    new_nullifier_pk : Key,
    conditional_nav  : navs,
    nullifier_accum  : navs ]

\* An existing account, and any coins.
PayInit(spends) ==
  \E prev \in acct_states : \E w \in InitLocalInput(prev, spends) :
    CertifyPayInit(prev, spends, w)

\* payment_init_newacct: there is at least one coin.
PayInitNewAcct(spends) ==
  /\ spends # << >>
  /\ \E id \in Key, nav \in navs :
       \E w \in InitLocalInput(NewAcct(id, nav), spends) :
         /\ w.nullifier_accum = nav
         /\ CertifyPayInit(NewAcct(id, nav), spends, w)

FinalizeLocalInput == [ fee_acct_comm   : Key,
                        blockchain_loc  : 1 .. MaxNavs,
                        nullifier_accum : navs ]

\* compliance_predicate_pay_finalize of a PaymentInitOutput: the new account
\* state and each of the coins.
PayFinalize(out, w) ==
  /\ FinalizeAccepts(out.partial_output, w)
  /\ acct_states' = acct_states \cup {FinalState(out, w)}
  /\ coins' = coins \cup
       { FinalCoin(out.coin_essences[i], out.partial_output, w) :
           i \in DOMAIN out.coin_essences }
  /\ finalized' = finalized \cup
       { [payment |-> p, nav |-> w.nullifier_accum, state |-> FinalState(out, w)] :
           p \in {q \in payments : q.out = out} }
  /\ UNCHANGED <<init_outputs, fee_outputs, navs, payments>>

\* The same of a PaymentInitOutputFee: the publisher's coin.
PayFinalizeFee(out, w) ==
  /\ FinalizeAccepts(out.partial_output, w)
  /\ coins' = coins \cup
       {FinalCoin(FeeEssence(out, w), out.partial_output, w)}
  /\ UNCHANGED <<acct_states, init_outputs, fee_outputs, navs, payments,
                 finalized>>

\* A nullifier as a publisher puts it in a block.
Publications == [ partial       : {out.partial_output : out \in init_outputs},
                  fee_acct_comm : FeeAcct ]

\* A block on top of some chain: process_block takes the first publication of
\* a key, as many keys as there are, and gives them all one location.
AppendSet(nav, block) ==
  /\ \A p, q \in block :
       p.partial.nullifier_pk = q.partial.nullifier_pk => p = q
  /\ \A p \in block, i \in DOMAIN nav :
       \A e \in nav[i] : e.nullifier_pk # p.partial.nullifier_pk
  /\ navs' = navs \cup
       { Append(nav,
           { Element(p.partial, [fee_acct_comm  |-> p.fee_acct_comm,
                                 blockchain_loc |-> Len(nav) + 1]) :
               p \in block }) }
  /\ Cardinality(navs') <= MaxNavs
  /\ UNCHANGED <<acct_states, coins, init_outputs, fee_outputs, payments,
                 finalized>>

Spends == UNION { [1 .. n -> coins] : n \in 0 .. MaxSpent }

Next ==
  \/ \E spends \in Spends : PayInit(spends)
  \/ \E spends \in Spends : PayInitNewAcct(spends)
  \/ \E out \in init_outputs, w \in FinalizeLocalInput : PayFinalize(out, w)
  \/ \E out \in fee_outputs, w \in FinalizeLocalInput : PayFinalizeFee(out, w)
  \/ \E nav \in navs, block \in SUBSET Publications : AppendSet(nav, block)

Spec == Init /\ [][Next]_vars

-----------------------------------------------------------------------------
(* Properties.                                                             *)

StateOk(s) == s.id \in Key /\ s.balance \in Amount /\ s.nullifier_pk \in Key

\* Amounts keep their width, and what has a proof is bound to a NAV of some
\* chain.
PaymentTypeOK ==
  /\ \A s \in acct_states : StateOk(s) /\ s.nullifier_accum \in navs
  /\ \A c \in coins : /\ c.address \in Key /\ c.amount \in Amount
                      /\ c.idx \in Index /\ c.nullifier_accum \in navs
  /\ \A out \in init_outputs : StateOk(out.state)
  /\ \A out \in fee_outputs : out.fee \in Amount
  /\ \A out \in init_outputs \cup fee_outputs :
       out.partial_output.nullifier_accum \in navs

\* Neither chain reorganised the other.
SameChain(v, w) == IsPrefix(v, w) \/ IsPrefix(w, v)

\* An account state is spent once: whatever a payer proves, with whatever
\* fees, NAVs and new coins, and however the chain forks, one chain completes
\* at most one transaction for a nullifier key, and takes it as a payment or
\* as a no-op but not as both.  Of the state that follows, the spent
\* accumulator may differ: a transaction does not commit to it
\* (payment_init, payment_finalize).
OneOutcome ==
  \A f, g \in finalized :
    /\ SameChain(f.nav, g.nav)
    /\ f.payment.prev.nullifier_pk = g.payment.prev.nullifier_pk
    => /\ f.payment.out.partial_output.tx_hash
            = g.payment.out.partial_output.tx_hash
       /\ NoOp(f.payment.w) <=> NoOp(g.payment.w)
       /\ Essence(f.state) = Essence(g.state)

\* No payment was completed on a chain its account state is not of.
HistoryOnChain ==
  \A f \in finalized : IsPrefix(f.payment.prev.nullifier_accum, f.nav)

\* No payment spent a coin whose address it left unopened.
AddressesOpened ==
  \A f \in finalized : Len(f.payment.spends) <= f.payment.w.openings

\* A coin is spent once on a chain, also when its owner opens the account
\* again with payment_init_newacct, as long as no account state is carried
\* over from another chain and every address is opened (payment_init's use of
\* the spent accumulator and of the account id as first nullifier key, and its
\* check of the openings).
CoinSpentOnce ==
  HistoryOnChain /\ AddressesOpened =>
    \A f, g \in finalized :
      /\ SameChain(f.nav, g.nav)
      /\ ~NoOp(f.payment.w) /\ ~NoOp(g.payment.w)
      /\ Range(f.payment.spends) \cap Range(g.payment.spends) # {}
      => f.payment.out.partial_output.tx_hash
           = g.payment.out.partial_output.tx_hash

\* A coin's id names one coin on a chain: the coins of a payment and its fee
\* coin never share one.  A transaction names the coins it spends by these ids,
\* so its hash says which they are.  It is not so of the on-chain ids that a
\* spent accumulator holds: the coins of two payments of one block share those
\* (payment_init's check of the indices and prev_coins, payment_finalize_fee's
\* FEE_IDX).
CoinIdUnique ==
  \A c, d \in coins :
    CoinId(c) = CoinId(d) /\ SameChain(c.nullifier_accum, d.nullifier_accum)
      => [c EXCEPT !.nullifier_accum = d.nullifier_accum] = d

\* The publisher is paid the fee the payer offered if the payment took effect
\* on the chain and nothing if it is a no-op there, although the hash of the
\* transaction does not cover the fee (payment_init, payment_finalize_fee).
FeeFollowsOutcome ==
  \A f \in finalized : \A c \in coins \ OldCoin :
    /\ c.idx = FEE_IDX
    /\ c.tx_hash = f.payment.out.partial_output.tx_hash
    /\ SameChain(c.nullifier_accum, f.nav)
    => c.amount = IF NoOp(f.payment.w) THEN 0 ELSE f.payment.w.fee

\* With the accumulators of primitives.rs, whose verifiers accept anything,
\* every payment is taken as a no-op: no account ever has a balance and no
\* coin is made that is worth anything (payment_init, verify_distinct_element).
NothingMoves ==
  /\ \A s \in acct_states : s.balance = 0
  /\ \A c \in coins \ OldCoin : c.amount = 0

\* What the code or its documents say and the code does not do.

\* types.rs:95, "Publisher fee offered per nullifier": the payer pays the fee,
\* a payment's outputs being worth no more than its inputs.
ValueConserved ==
  \A p \in payments :
    p.out.state.balance + SumOf(p.out.coin_essences) + p.fee_out.fee
      <= p.prev.balance + SumOf(p.spends)
=============================================================================
