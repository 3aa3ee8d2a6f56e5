----------------------------- MODULE CoinProofs -----------------------------
(***************************************************************************)
(* What is proved of the coins of Payment: that an id names one coin on a  *)
(* chain, that the publisher's coin is worth what the payment's outcome on *)
(* the chain says, and that a coin is spent once.  None of them is         *)
(* inductive; what they need is the history of everything that has a       *)
(* proof: an output is of a payment begun, a coin of an output and an      *)
(* element of the chain, an account state of a payment finalized before.   *)
(***************************************************************************)
EXTENDS PaymentProofs

\* The account of a payer without one.
Fresh(s) == /\ s.nullifier_pk = s.id
            /\ s.spent_accum = {}

\* What was accepted of a payment, of what it came from.
Started(p) ==
  /\ p.out = InitOutput(p.prev, p.spends, p.w)
  /\ p.fee_out = InitOutputFee(p.prev, p.spends, p.w)
  /\ InitAccepts(p.prev, p.spends, p.w)
  /\ p.w \in InitLocalInput(p.prev, p.spends)
  /\ \E n \in Nat : p.spends \in [1 .. n -> coins]
  /\ AcctOk(p.prev)
  /\ Fresh(p.prev) \/ p.prev \in acct_states

\* The payment p was completed with the local input w, and c is one of its
\* coins or the publisher's.
CoinOf(c, p, w) ==
  \E i \in DOMAIN p.out.coin_essences :
    c = FinalCoin(p.out.coin_essences[i], p.out.partial_output, w)

FeeCoinOf(c, p, w) ==
  c = FinalCoin(FeeEssence(p.fee_out, w), p.out.partial_output, w)

Made(c) ==
  \E p \in payments : \E w \in FinalizeLocalInput :
    /\ FinalizeAccepts(p.out.partial_output, w)
    /\ CoinOf(c, p, w) \/ FeeCoinOf(c, p, w)

Known(c) == c \in OldCoin \/ Made(c)

TraceInv ==
  /\ init_outputs = {p.out : p \in payments}
  /\ fee_outputs = {p.fee_out : p \in payments}
  /\ \A p \in payments : Started(p)
  /\ \A c \in coins : Known(c)
  /\ \A s \in acct_states : \E f \in finalized : f.state = s

\* What is known of a coin or a payment stays known.
LEMMA StartedStays ==
  ASSUME NEW p, Started(p), coins \subseteq coins', navs \subseteq navs',
         acct_states \subseteq acct_states'
  PROVE  Started(p)'
<1>1. (p.w \in InitLocalInput(p.prev, p.spends))'
  BY DEF Started, InitLocalInput
<1>2. PICK n \in Nat : p.spends \in [1 .. n -> coins]
  BY DEF Started
<1>3. p.spends \in [1 .. n -> coins']
  BY <1>2
<1> QED
  BY <1>1, <1>3 DEF Started, AcctOk

\* What a payment of this run made stays made.
LEMMA MadeStays ==
  ASSUME NEW c, Made(c), payments \subseteq payments', navs \subseteq navs'
  PROVE  Made(c)'
<1>1. PICK p \in payments, w \in FinalizeLocalInput :
        /\ FinalizeAccepts(p.out.partial_output, w)
        /\ CoinOf(c, p, w) \/ FeeCoinOf(c, p, w)
  BY DEF Made
<1>2. p \in payments' /\ w \in FinalizeLocalInput'
  BY DEF FinalizeLocalInput
<1> QED
  BY <1>1, <1>2 DEF Made, CoinOf, FeeCoinOf

\* Certifying a payment keeps the trace,
LEMMA CertifyKeepsTrace ==
  ASSUME TraceInv, NEW prev, AcctOk(prev), Fresh(prev) \/ prev \in acct_states,
         NEW spends \in Spends, NEW w \in InitLocalInput(prev, spends),
         CertifyPayInit(prev, spends, w)
  PROVE  TraceInv'
<1> DEFINE p == [ prev    |-> prev,
                  spends  |-> spends,
                  w       |-> w,
                  out     |-> InitOutput(prev, spends, w),
                  fee_out |-> InitOutputFee(prev, spends, w) ]
<1>1. /\ payments' = payments \cup {p}
      /\ init_outputs' = init_outputs \cup {p.out}
      /\ fee_outputs' = fee_outputs \cup {p.fee_out}
      /\ UNCHANGED <<acct_states, coins, navs, finalized>>
  BY DEF CertifyPayInit
<1>2. Started(p)
  <2>1. InitAccepts(prev, spends, w)
    BY DEF CertifyPayInit
  <2>2. \E n \in Nat : spends \in [1 .. n -> coins]
    BY PaymentBoundAssumption DEF Spends
  <2> QED
    BY <2>1, <2>2 DEF Started
<1> HIDE DEF p
<1>3. /\ init_outputs' = {q.out : q \in payments'}
      /\ fee_outputs' = {q.fee_out : q \in payments'}
  BY <1>1 DEF TraceInv
<1>4. \A q \in payments' : Started(q)'
  BY <1>1, <1>2, StartedStays DEF TraceInv
<1>5. \A c \in coins' : Known(c)'
  BY <1>1, MadeStays DEF TraceInv, Known
<1>6. \A s \in acct_states' : \E f \in finalized' : f.state = s
  BY <1>1 DEF TraceInv
<1> QED
  BY <1>3, <1>4, <1>5, <1>6 DEF TraceInv

\* The coins payment_finalize makes are of a payment begun.
LEMMA FinalizeMakes ==
  ASSUME TraceInv, NEW out \in init_outputs, NEW w \in FinalizeLocalInput,
         PayFinalize(out, w)
  PROVE  \A c \in coins' : Known(c)
<1>1. coins' = coins \cup
        { FinalCoin(out.coin_essences[i], out.partial_output, w) :
            i \in DOMAIN out.coin_essences }
  BY DEF PayFinalize
<1>2. PICK p \in payments : p.out = out
  BY DEF TraceInv
<1>3. FinalizeAccepts(p.out.partial_output, w)
  BY <1>2 DEF PayFinalize
<1>4. ASSUME NEW i \in DOMAIN out.coin_essences
      PROVE  Known(FinalCoin(out.coin_essences[i], out.partial_output, w))
  BY <1>2, <1>3 DEF Known, Made, CoinOf
<1> QED
  BY <1>1, <1>4 DEF TraceInv

\* So is the publisher's coin.
LEMMA FinalizeFeeMakes ==
  ASSUME TraceInv, NEW out \in fee_outputs, NEW w \in FinalizeLocalInput,
         PayFinalizeFee(out, w)
  PROVE  \A c \in coins' : Known(c)
<1>1. coins' = coins \cup
        {FinalCoin(FeeEssence(out, w), out.partial_output, w)}
  BY DEF PayFinalizeFee
<1>2. PICK p \in payments : p.fee_out = out
  BY DEF TraceInv
<1>3. p.out.partial_output = p.fee_out.partial_output
  <2>1. /\ p.out = InitOutput(p.prev, p.spends, p.w)
        /\ p.fee_out = InitOutputFee(p.prev, p.spends, p.w)
    BY DEF TraceInv, Started
  <2>2. p.out.partial_output = PartialOutput(p.prev, p.spends, p.w)
    BY <2>1 DEF InitOutput
  <2>3. p.fee_out.partial_output = PartialOutput(p.prev, p.spends, p.w)
    BY <2>1 DEF InitOutputFee
  <2> QED
    BY <2>2, <2>3
<1>4. FinalizeAccepts(p.out.partial_output, w)
  BY <1>2, <1>3 DEF PayFinalizeFee
<1>5. Known(FinalCoin(FeeEssence(out, w), out.partial_output, w))
  BY <1>2, <1>3, <1>4 DEF Known, Made, FeeCoinOf
<1> QED
  BY <1>1, <1>5 DEF TraceInv

\* finalizing one does,
LEMMA FinalizeKeepsTrace ==
  ASSUME TraceInv, NEW out \in init_outputs, NEW w \in FinalizeLocalInput,
         PayFinalize(out, w)
  PROVE  TraceInv'
<1> DEFINE new(p) == [payment |-> p, nav |-> w.nullifier_accum,
                      state |-> FinalState(out, w)]
<1>1. /\ UNCHANGED <<init_outputs, fee_outputs, navs, payments>>
      /\ acct_states' = acct_states \cup {FinalState(out, w)}
      /\ coins \subseteq coins'
      /\ finalized' = finalized \cup
           { new(p) : p \in {q \in payments : q.out = out} }
  BY DEF PayFinalize
<1>2. \A c \in coins' : Known(c)'
  BY <1>1, FinalizeMakes, MadeStays DEF Known
<1>3. \A p \in payments' : Started(p)'
  BY <1>1, StartedStays DEF TraceInv
<1>4. PICK p \in payments : p.out = out
  BY DEF TraceInv
<1>5. new(p) \in finalized' /\ new(p).state = FinalState(out, w)
  BY <1>1, <1>4
<1>6. finalized \subseteq finalized'
  BY <1>1
<1> HIDE DEF new
<1>7. \A s \in acct_states' : \E f \in finalized' : f.state = s
  BY <1>1, <1>5, <1>6 DEF TraceInv
<1> QED
  BY <1>1, <1>2, <1>3, <1>7 DEF TraceInv

\* and so does finalizing its fee.
LEMMA FinalizeFeeKeepsTrace ==
  ASSUME TraceInv, NEW out \in fee_outputs, NEW w \in FinalizeLocalInput,
         PayFinalizeFee(out, w)
  PROVE  TraceInv'
<1>1. /\ UNCHANGED <<acct_states, init_outputs, fee_outputs, navs, payments,
                     finalized>>
      /\ coins \subseteq coins'
  BY DEF PayFinalizeFee
<1>2. \A c \in coins' : Known(c)'
  BY <1>1, FinalizeFeeMakes, MadeStays DEF Known
<1>3. \A p \in payments' : Started(p)'
  BY <1>1, StartedStays DEF TraceInv
<1> QED
  BY <1>1, <1>2, <1>3 DEF TraceInv

\* So every reachable state has the trace.
LEMMA TraceInvHolds == Spec => []TraceInv
<1>1. Init => TraceInv
  BY DEF Init, TraceInv, Known
<1>2. TraceInv /\ PaymentTypeInv /\ [Next]_vars => TraceInv'
  <2> SUFFICES ASSUME TraceInv, PaymentTypeInv, [Next]_vars
               PROVE  TraceInv'
    OBVIOUS
  <2>1. CASE \E spends \in Spends : PayInit(spends)
    <3>1. \A prev \in acct_states : AcctOk(prev)
      BY DEF PaymentTypeInv, PaymentTypeOK, AcctOk
    <3> QED
      BY <2>1, <3>1, CertifyKeepsTrace DEF PayInit
  <2>2. CASE \E spends \in Spends : PayInitNewAcct(spends)
    <3>1. \A id \in Key, nav \in navs : /\ AcctOk(NewAcct(id, nav))
                                        /\ Fresh(NewAcct(id, nav))
      BY AmountAssumption DEF NewAcct, AcctOk, StateOk, Amount, Fresh
    <3> QED
      BY <2>2, <3>1, CertifyKeepsTrace DEF PayInitNewAcct
  <2>3. CASE \E out \in init_outputs, w \in FinalizeLocalInput :
               PayFinalize(out, w)
    BY <2>3, FinalizeKeepsTrace
  <2>4. CASE \E out \in fee_outputs, w \in FinalizeLocalInput :
               PayFinalizeFee(out, w)
    BY <2>4, FinalizeFeeKeepsTrace
  <2>5. ASSUME navs \subseteq navs',
               UNCHANGED <<acct_states, coins, init_outputs, fee_outputs,
                           payments, finalized>>
        PROVE  TraceInv'
    BY <2>5, StartedStays, MadeStays DEF TraceInv, Known
  <2>6. CASE \E nav \in navs, block \in SUBSET Publications : AppendSet(nav, block)
    BY <2>5, <2>6 DEF AppendSet
  <2>7. CASE UNCHANGED vars
    BY <2>5, <2>7 DEF vars
  <2> QED
    BY <2>1, <2>2, <2>3, <2>4, <2>6, <2>7 DEF Next
<1> QED
  BY <1>1, <1>2, PaymentTypeInvHolds, PTL DEF Spec

-----------------------------------------------------------------------------
(* An id names one coin on a chain.                                        *)

\* A hash is what is hashed: the coins there were before are told apart by it,
\* and none of them is of a transaction of the model.
OldCoinsApart ==
  /\ \A c, d \in OldCoin : CoinId(c) = CoinId(d) => c = d
  /\ \A c \in OldCoin : \A prev, spends, w : c.tx_hash # Tx(prev, spends, w)

\* The payments p and q are of one transaction, which is made at accumulator
\* values of the chain nav.
SameTx(p, q) == p.out.partial_output.tx_hash = q.out.partial_output.tx_hash

MadeOn(p, nav) == IsPrefix(p.w.nullifier_accum, nav)

\* payment_init compares each index with the one before: all of them differ,
\* but for the first, which is not compared.
LEMMA IndicesDiffer ==
  ASSUME NEW list \in Seq(CoinEssence), IndicesOk(list),
         NEW i \in 2 .. Len(list), NEW j \in 2 .. Len(list),
         list[i].idx = list[j].idx
  PROVE  i = j
<1> DEFINE above(k) == \A x \in 2 .. Len(list) :
                         x + k + 1 <= Len(list)
                           => list[x + k + 1].idx > list[x].idx
           N == {k \in Nat : above(k)}
<1>1. Len(list) \in Nat /\ \A x \in 1 .. Len(list) : list[x].idx \in Nat
  <2>1. Len(list) \in Nat
    OBVIOUS
  <2>2. \A x \in 1 .. Len(list) : list[x] \in CoinEssence
    OBVIOUS
  <2> QED
    BY <2>1, <2>2, IndexAssumption DEF CoinEssence
<1>2. \A x \in 2 .. Len(list) : x + 1 <= Len(list)
                                  => list[x + 1].idx > list[x].idx
  BY <1>1 DEF IndicesOk
<1>3. 0 \in N
  BY <1>1, <1>2
<1>4. ASSUME NEW k \in N
      PROVE  k + 1 \in N
  <2>0. k \in Nat /\ above(k)
    OBVIOUS
  <2>1. ASSUME NEW x \in 2 .. Len(list), x + (k + 1) + 1 <= Len(list)
        PROVE  list[x + (k + 1) + 1].idx > list[x].idx
    <3> HIDE DEF N
    <3>1. /\ x + k + 1 \in 2 .. Len(list)
          /\ x + (k + 1) + 1 = (x + k + 1) + 1
          /\ x + (k + 1) + 1 \in 2 .. Len(list)
      <4> HIDE DEF above
      <4> QED
        BY <1>1, <2>0, <2>1
    <3>2. list[x + k + 1].idx > list[x].idx
      <4>1. x + k + 1 <= Len(list)
        BY <3>1
      <4> QED
        BY <2>0, <4>1
    <3>3. list[x + (k + 1) + 1].idx > list[x + k + 1].idx
      <4>1. (x + k + 1) + 1 <= Len(list)
        BY <2>1, <3>1
      <4>2. list[(x + k + 1) + 1].idx > list[x + k + 1].idx
        BY <1>2, <3>1, <4>1, Zenon
      <4> QED
        BY <3>1, <4>2
    <3>4. /\ list[x].idx \in Nat /\ list[x + k + 1].idx \in Nat
          /\ list[x + (k + 1) + 1].idx \in Nat
      BY <1>1, <3>1
    <3>5. \A l, m, n \in Nat : m > l /\ n > m => n > l
      OBVIOUS
    <3> HIDE DEF above
    <3> QED
      BY <3>2, <3>3, <3>4, <3>5, SMTT(20)
  <2>2. above(k + 1)
    BY <2>1, Zenon
  <2> HIDE DEF above
  <2> QED
    BY <2>2
<1>5. N = Nat
  <2> HIDE DEF above
  <2>1. N \in SUBSET Nat
    OBVIOUS
  <2> HIDE DEF N
  <2> QED
    BY <1>3, <1>4, <2>1, NatInductionOnSet
<1>6. \A x, y \in 2 .. Len(list) : x < y => list[y].idx > list[x].idx
  <2> SUFFICES ASSUME NEW x \in 2 .. Len(list), NEW y \in 2 .. Len(list), x < y
               PROVE  list[y].idx > list[x].idx
    OBVIOUS
  <2>1. y - x - 1 \in Nat /\ x + (y - x - 1) + 1 = y
    BY <1>1
  <2>2. above(y - x - 1)
    BY <1>5, <2>1
  <2> QED
    BY <1>1, <2>1, <2>2
<1> QED
  BY <1>1, <1>6

\* Two chains of which one extends the other have the same element for a key.
LEMMA SameElement ==
  ASSUME SoundMembership, NavsInv, NEW v \in navs, NEW u \in navs,
         SameChain(v, u), NEW d, NEW e,
         VerifyUnionMembership(v, d), VerifyUnionMembership(u, e),
         d.nullifier_pk = e.nullifier_pk
  PROVE  d = e
<1>1. PICK S : navs \subseteq Seq(S)
  BY DEF NavsInv
<1>2. v \in Seq(S) /\ u \in Seq(S) /\ Len(v) \in Nat /\ Len(u) \in Nat
  BY <1>1
<1>3. PICK i \in 1 .. Len(v) : d \in v[i]
  BY <1>2 DEF SoundMembership
<1>4. PICK j \in 1 .. Len(u) : e \in u[j]
  BY <1>2 DEF SoundMembership
<1>5. CASE IsPrefix(v, u)
  <2>1. i \in 1 .. Len(u) /\ d \in u[i]
    BY <1>2, <1>3, <1>5, PrefixPointwise
  <2> QED
    BY <1>4, <2>1 DEF NavsInv
<1>6. CASE IsPrefix(u, v)
  <2>1. j \in 1 .. Len(v) /\ e \in v[j]
    BY <1>2, <1>4, <1>6, PrefixPointwise
  <2> QED
    BY <1>3, <2>1 DEF NavsInv
<1> QED
  BY <1>5, <1>6 DEF SameChain

\* The larger of two values of one chain.
LEMMA ChainTop ==
  ASSUME NEW v \in navs, NEW u \in navs, SameChain(v, u)
  PROVE  \E nav \in navs : /\ nav = v \/ nav = u
                           /\ IsPrefix(v, nav) \/ v = nav
                           /\ IsPrefix(u, nav) \/ u = nav
BY DEF SameChain

\* What a transaction commits to.
LEMMA SameTxParts ==
  ASSUME NEW p, NEW q, Started(p), Started(q), SameTx(p, q)
  PROVE  /\ p.w.conditional_nav = q.w.conditional_nav
         /\ p.w.new_coins = q.w.new_coins
         /\ p.prev.nullifier_pk = q.prev.nullifier_pk
         /\ p.prev.balance = q.prev.balance
         /\ [i \in DOMAIN p.spends |-> CoinId(p.spends[i])]
              = [i \in DOMAIN q.spends |-> CoinId(q.spends[i])]
         /\ NewBalance(p.prev, p.spends, p.w) = NewBalance(q.prev, q.spends, q.w)
<1> DEFINE a == Tx(p.prev, p.spends, p.w)
           b == Tx(q.prev, q.spends, q.w)
<1>1. a = b
  BY DEF Started, SameTx, InitOutput, PartialOutput
<1>2. /\ a.conditional_nav = b.conditional_nav
      /\ a.new_coins = b.new_coins
      /\ a.prev_state.nullifier_pk = b.prev_state.nullifier_pk
      /\ a.prev_state.balance = b.prev_state.balance
      /\ a.prev_coins = b.prev_coins
      /\ a.new_state.balance = b.new_state.balance
  BY <1>1
<1> QED
  BY <1>2 DEF Tx, Essence

\* What payment_init asks of a payment that it does not take as a no-op.
LEMMA StartedBegun ==
  ASSUME NEW p, Started(p)
  PROVE  Begun(p)
BY DEF Started, Begun, InitAccepts, InitLocalInput

\* The payments of a transaction agree, on one chain, whether it is a no-op.
LEMMA SameTxNoOp ==
  ASSUME SoundPrefix, SoundDistinct, NavsInv,
         NEW p, NEW q, Started(p), Started(q), SameTx(p, q),
         NEW nav \in navs, MadeOn(p, nav), MadeOn(q, nav)
  PROVE  NoOp(p.w) <=> NoOp(q.w)
<1>1. PICK S : navs \subseteq Seq(S)
  BY DEF NavsInv
<1>2. Begun(p) /\ Begun(q)
  BY StartedBegun
<1>3. p.w.conditional_nav = q.w.conditional_nav
  BY SameTxParts
<1> QED
  BY <1>1, <1>2, <1>3, NoOpAgrees DEF MadeOn

\* The coins a payment spends are of its chain, unless it is a no-op.
LEMMA SpendsOnChain ==
  ASSUME SoundPrefix, PaymentTypeInv, NEW S, navs \subseteq Seq(S),
         NEW p, Started(p), ~NoOp(p.w), NEW nav \in navs, MadeOn(p, nav),
         NEW i \in DOMAIN p.spends
  PROVE  /\ p.spends[i] \in coins
         /\ p.spends[i].nullifier_accum \in navs
         /\ IsPrefix(p.spends[i].nullifier_accum, nav)
<1> DEFINE v == p.spends[i].nullifier_accum
<1>1. p.spends[i] \in coins
  BY DEF Started
<1>2. v \in navs
  BY <1>1 DEF PaymentTypeInv, PaymentTypeOK
<1>3. VerifyIsPrefix(BoundNavs(p.prev, p.spends, p.w), p.w.nullifier_accum)
  BY DEF Started, InitAccepts
<1>4. v \in BoundNavs(p.prev, p.spends, p.w)
  BY DEF BoundNavs
<1>5. p.w.nullifier_accum \in navs
  BY DEF Started, InitLocalInput
<1>6. v \in Seq(S) /\ p.w.nullifier_accum \in Seq(S) /\ nav \in Seq(S)
  BY <1>2, <1>5
<1>7. IsPrefix(v, p.w.nullifier_accum)
  BY <1>3, <1>4, <1>6 DEF SoundPrefix
<1>8. IsPrefix(v, nav)
  BY <1>6, <1>7, PrefixTransitive DEF MadeOn
<1> QED
  BY <1>1, <1>2, <1>8

\* The payments of a transaction that takes effect on a chain spend the same
\* coins of that chain.
LEMMA SameTxSpends ==
  ASSUME SoundPrefix, NavsInv, PaymentTypeInv, CoinIdUnique,
         NEW p, NEW q, Started(p), Started(q), SameTx(p, q),
         ~NoOp(p.w), ~NoOp(q.w),
         NEW nav \in navs, MadeOn(p, nav), MadeOn(q, nav)
  PROVE  /\ DOMAIN p.spends = DOMAIN q.spends
         /\ \A i \in DOMAIN p.spends :
              /\ p.spends[i].amount = q.spends[i].amount
              /\ OnChainId(p.spends[i]) = OnChainId(q.spends[i])
<1> DEFINE ids(r) == [i \in DOMAIN r.spends |-> CoinId(r.spends[i])]
<1>1. ids(p) = ids(q)
  BY SameTxParts
<1>2. DOMAIN p.spends = DOMAIN q.spends
  <2>1. DOMAIN ids(p) = DOMAIN p.spends /\ DOMAIN ids(q) = DOMAIN q.spends
    OBVIOUS
  <2> QED
    BY <1>1, <2>1
<1>3. PICK S : navs \subseteq Seq(S)
  BY DEF NavsInv
<1>4. ASSUME NEW i \in DOMAIN p.spends
      PROVE  /\ p.spends[i].amount = q.spends[i].amount
             /\ OnChainId(p.spends[i]) = OnChainId(q.spends[i])
  <2> DEFINE c == p.spends[i]
             d == q.spends[i]
  <2>1. CoinId(c) = CoinId(d)
    <3>1. ids(p)[i] = CoinId(c) /\ ids(q)[i] = CoinId(d)
      BY <1>2
    <3> QED
      BY <1>1, <3>1
  <2>2. /\ c \in coins /\ c.nullifier_accum \in navs
        /\ IsPrefix(c.nullifier_accum, nav)
    BY <1>3, SpendsOnChain
  <2>3. /\ d \in coins /\ d.nullifier_accum \in navs
        /\ IsPrefix(d.nullifier_accum, nav)
    BY <1>2, <1>3, SpendsOnChain
  <2>4. SameChain(c.nullifier_accum, d.nullifier_accum)
    <3>1. /\ nav \in Seq(S) /\ c.nullifier_accum \in Seq(S)
          /\ d.nullifier_accum \in Seq(S)
      BY <1>3, <2>2, <2>3
    <3> QED
      BY <2>2, <2>3, <3>1, PrefixesComparable
  <2>5. [c EXCEPT !.nullifier_accum = d.nullifier_accum] = d
    BY <2>1, <2>2, <2>3, <2>4 DEF CoinIdUnique
  <2> HIDE DEF c, d
  <2> DEFINE e == [c EXCEPT !.nullifier_accum = d.nullifier_accum]
  <2>6. /\ e.amount = c.amount /\ e.idx = c.idx
        /\ e.blockchain_loc = c.blockchain_loc
    OBVIOUS
  <2>7. /\ c.amount = d.amount /\ c.idx = d.idx
        /\ c.blockchain_loc = d.blockchain_loc
    BY <2>5, <2>6
  <2>8. OnChainId(c) = OnChainId(d)
    BY <2>7 DEF OnChainId
  <2> QED
    BY <2>7, <2>8 DEF c, d
<1> QED
  BY <1>2, <1>4

\* The payments of a transaction offer the same fee, on one chain, although
\* the transaction does not commit to it: it commits to the balance the fee is
\* added to, and to the coins spent.
LEMMA SameTxFee ==
  ASSUME SoundPrefix, SoundDistinct, NavsInv, PaymentTypeInv, CoinIdUnique,
         NEW p, NEW q, Started(p), Started(q), SameTx(p, q),
         NEW nav \in navs, MadeOn(p, nav), MadeOn(q, nav)
  PROVE  p.fee_out.fee = q.fee_out.fee
<1>1. NoOp(p.w) <=> NoOp(q.w)
  BY SameTxNoOp
<1>2. /\ p.fee_out.fee = IF NoOp(p.w) THEN 0 ELSE p.w.fee
      /\ q.fee_out.fee = IF NoOp(q.w) THEN 0 ELSE q.w.fee
  BY DEF Started, InitOutputFee
<1>3. SUFFICES ASSUME ~NoOp(p.w), ~NoOp(q.w)
               PROVE  p.w.fee = q.w.fee
  BY <1>1, <1>2
<1>4. /\ DOMAIN p.spends = DOMAIN q.spends
      /\ \A i \in DOMAIN p.spends : p.spends[i].amount = q.spends[i].amount
  BY <1>3, SameTxSpends
<1>5. SumOf(p.spends) = SumOf(q.spends)
  <2>1. [i \in DOMAIN p.spends |-> p.spends[i].amount]
          = [i \in DOMAIN q.spends |-> q.spends[i].amount]
    BY <1>4
  <2> QED
    BY <2>1 DEF SumOf
<1>6. /\ p.w.new_coins = q.w.new_coins
      /\ p.prev.balance = q.prev.balance
      /\ NewBalance(p.prev, p.spends, p.w) = NewBalance(q.prev, q.spends, q.w)
  BY SameTxParts
<1>7. Funds(p.prev, p.spends) = Funds(q.prev, q.spends)
  BY <1>5, <1>6 DEF Funds
<1>8. /\ SumOf(p.w.new_coins) \in Nat
      /\ p.w.fee \in Nat /\ q.w.fee \in Nat
      /\ Funds(p.prev, p.spends) \in Nat
  <2>1. ASSUME NEW r, Started(r)
        PROVE  /\ SumOf(r.w.new_coins) \in Nat
               /\ r.w.fee \in Amount
               /\ Funds(r.prev, r.spends) \in Nat
    <3>1. PICK n \in Nat : r.spends \in [1 .. n -> coins]
      BY <2>1 DEF Started
    <3>2. /\ StateOk(r.prev) /\ AmountsOk(r.prev, r.spends, r.w)
          /\ r.w \in InitLocalInput(r.prev, r.spends)
          /\ PaymentTypeOK
      BY <2>1 DEF Started, AcctOk, InitAccepts, PaymentTypeInv
    <3> QED
      BY <3>1, <3>2, NewBalanceType
  <2> QED
    BY <2>1, AmountAssumption DEF Amount
<1>9. Funds(p.prev, p.spends) % (MaxAmount + 1) \in Int
  BY <1>8, RemainderBelow, AmountAssumption DEF Amount
<1> QED
  BY <1>6, <1>7, <1>8, <1>9 DEF NewBalance, CoinsSum

\* What a made coin is, and what it has in its chain.
LEMMA MadeParts ==
  ASSUME SoundPrefix, NavsInv, TraceInv, NEW p \in payments,
         NEW w \in FinalizeLocalInput,
         FinalizeAccepts(p.out.partial_output, w),
         NEW c, CoinOf(c, p, w) \/ FeeCoinOf(c, p, w)
  PROVE  /\ c = [ address         |-> c.address,
                  amount          |-> c.amount,
                  idx             |-> c.idx,
                  tx_hash         |-> p.out.partial_output.tx_hash,
                  blockchain_loc  |-> w.blockchain_loc,
                  nullifier_accum |-> w.nullifier_accum ]
         /\ w.nullifier_accum \in navs
         /\ MadeOn(p, w.nullifier_accum)
         /\ VerifyUnionMembership(w.nullifier_accum,
                                  Element(p.out.partial_output, w))
         /\ \/ /\ c.idx # FEE_IDX
               /\ \E i \in 2 .. Len(p.w.new_coins) :
                    /\ c.idx = p.w.new_coins[i].idx
                    /\ c.address = p.w.new_coins[i].address
                    /\ c.amount = p.w.new_coins[i].amount
            \/ /\ c.idx = FEE_IDX
               /\ c.address = w.fee_acct_comm
               /\ c.amount = p.fee_out.fee
<1> DEFINE partial == p.out.partial_output
<1>1. Started(p)
  BY DEF TraceInv
<1>2. w.nullifier_accum \in navs
  BY DEF FinalizeLocalInput
<1>3. MadeOn(p, w.nullifier_accum)
  <2>1. PICK S : navs \subseteq Seq(S)
    BY DEF NavsInv
  <2>2. p.w.nullifier_accum \in navs
    BY <1>1 DEF Started, InitLocalInput
  <2>3. partial.nullifier_accum = p.w.nullifier_accum
    BY <1>1 DEF Started, InitOutput, PartialOutput
  <2>4. VerifyIsPrefix({p.w.nullifier_accum}, w.nullifier_accum)
    BY <2>3 DEF FinalizeAccepts
  <2> QED
    BY <1>2, <2>1, <2>2, <2>4 DEF SoundPrefix, MadeOn
<1>4. VerifyUnionMembership(w.nullifier_accum, Element(partial, w))
  BY DEF FinalizeAccepts
<1>5. CASE FeeCoinOf(c, p, w)
  <2>1. c = FinalCoin(FeeEssence(p.fee_out, w), partial, w)
    BY <1>5 DEF FeeCoinOf
  <2> QED
    BY <1>2, <1>3, <1>4, <2>1 DEF FinalCoin, FeeEssence
<1>6. CASE CoinOf(c, p, w)
  <2>1. PICK i \in DOMAIN p.out.coin_essences :
               c = FinalCoin(p.out.coin_essences[i], partial, w)
    BY <1>6 DEF CoinOf
  <2>2. p.out.coin_essences = IF NoOp(p.w) THEN << >> ELSE Tail(p.w.new_coins)
    BY <1>1 DEF Started, InitOutput
  <2>3. DOMAIN << >> = {}
    OBVIOUS
  <2>4. ~NoOp(p.w) /\ p.out.coin_essences = Tail(p.w.new_coins)
    BY <2>2, <2>3
  <2>5. /\ p.w.new_coins \in Seq(CoinEssence)
        /\ p.w.new_coins # << >>
        /\ IndicesOk(p.w.new_coins)
    BY <1>1, <2>4, NewCoinsAssumption DEF Started, InitLocalInput, InitAccepts
  <2>6. /\ i + 1 \in 2 .. Len(p.w.new_coins)
        /\ p.out.coin_essences[i] = p.w.new_coins[i + 1]
    BY <2>4, <2>5
  <2>7. p.w.new_coins[i + 1].idx # FEE_IDX
    BY <2>5, <2>6 DEF IndicesOk
  <2>8. c = FinalCoin(p.w.new_coins[i + 1], partial, w)
    BY <2>1, <2>6
  <2> QED
    BY <1>2, <1>3, <1>4, <2>6, <2>7, <2>8 DEF FinalCoin
<1> QED
  BY <1>5, <1>6

\* Two made coins of one id and one chain are the same coin, up to the value of
\* the chain they are bound to.
LEMMA MadeUnique ==
  ASSUME SoundMembership, SoundPrefix, SoundDistinct,
         NavsInv, PaymentTypeInv, TraceInv, CoinIdUnique,
         NEW c, NEW d, Made(c), Made(d), CoinId(c) = CoinId(d),
         SameChain(c.nullifier_accum, d.nullifier_accum)
  PROVE  [c EXCEPT !.nullifier_accum = d.nullifier_accum] = d
<1>1. PICK p \in payments, v \in FinalizeLocalInput :
        /\ FinalizeAccepts(p.out.partial_output, v)
        /\ CoinOf(c, p, v) \/ FeeCoinOf(c, p, v)
  BY DEF Made
<1>2. PICK q \in payments, u \in FinalizeLocalInput :
        /\ FinalizeAccepts(q.out.partial_output, u)
        /\ CoinOf(d, q, u) \/ FeeCoinOf(d, q, u)
  BY DEF Made
<1>3. /\ c = [ address         |-> c.address,
               amount          |-> c.amount,
               idx             |-> c.idx,
               tx_hash         |-> p.out.partial_output.tx_hash,
               blockchain_loc  |-> v.blockchain_loc,
               nullifier_accum |-> v.nullifier_accum ]
      /\ v.nullifier_accum \in navs
      /\ MadeOn(p, v.nullifier_accum)
      /\ VerifyUnionMembership(v.nullifier_accum,
                               Element(p.out.partial_output, v))
      /\ \/ /\ c.idx # FEE_IDX
            /\ \E i \in 2 .. Len(p.w.new_coins) :
                 /\ c.idx = p.w.new_coins[i].idx
                 /\ c.address = p.w.new_coins[i].address
                 /\ c.amount = p.w.new_coins[i].amount
         \/ /\ c.idx = FEE_IDX
            /\ c.address = v.fee_acct_comm
            /\ c.amount = p.fee_out.fee
  BY <1>1, MadeParts
<1>4. /\ d = [ address         |-> d.address,
               amount          |-> d.amount,
               idx             |-> d.idx,
               tx_hash         |-> q.out.partial_output.tx_hash,
               blockchain_loc  |-> u.blockchain_loc,
               nullifier_accum |-> u.nullifier_accum ]
      /\ u.nullifier_accum \in navs
      /\ MadeOn(q, u.nullifier_accum)
      /\ VerifyUnionMembership(u.nullifier_accum,
                               Element(q.out.partial_output, u))
      /\ \/ /\ d.idx # FEE_IDX
            /\ \E i \in 2 .. Len(q.w.new_coins) :
                 /\ d.idx = q.w.new_coins[i].idx
                 /\ d.address = q.w.new_coins[i].address
                 /\ d.amount = q.w.new_coins[i].amount
         \/ /\ d.idx = FEE_IDX
            /\ d.address = u.fee_acct_comm
            /\ d.amount = q.fee_out.fee
  BY <1>2, MadeParts
<1>5. Started(p) /\ Started(q)
  BY DEF TraceInv
<1>6. /\ c.tx_hash = p.out.partial_output.tx_hash
      /\ c.blockchain_loc = v.blockchain_loc
      /\ c.nullifier_accum = v.nullifier_accum
      /\ d.tx_hash = q.out.partial_output.tx_hash
      /\ d.blockchain_loc = u.blockchain_loc
      /\ d.nullifier_accum = u.nullifier_accum
  BY <1>3, <1>4
<1>7. SameTx(p, q) /\ c.idx = d.idx
  BY <1>6 DEF CoinId, SameTx
<1>8. /\ p.w.new_coins = q.w.new_coins
      /\ p.prev.nullifier_pk = q.prev.nullifier_pk
  BY <1>5, <1>7, SameTxParts
<1>9. SameChain(v.nullifier_accum, u.nullifier_accum)
  BY <1>6
<1>10. v.fee_acct_comm = u.fee_acct_comm /\ v.blockchain_loc = u.blockchain_loc
  <2> DEFINE d1 == Element(p.out.partial_output, v)
             e1 == Element(q.out.partial_output, u)
  <2>1. d1.nullifier_pk = p.prev.nullifier_pk
    BY <1>5 DEF Element, Started, InitOutput, PartialOutput
  <2>2. e1.nullifier_pk = q.prev.nullifier_pk
    BY <1>5 DEF Element, Started, InitOutput, PartialOutput
  <2>3. d1.nullifier_pk = e1.nullifier_pk
    BY <1>8, <2>1, <2>2
  <2> HIDE DEF d1, e1
  <2>4. d1 = e1
    BY <1>3, <1>4, <1>9, <2>3, SameElement DEF d1, e1
  <2> QED
    BY <2>4 DEF d1, e1, Element
<1>11. p.fee_out.fee = q.fee_out.fee
  <2>1. PICK nav \in navs : /\ nav = v.nullifier_accum \/ nav = u.nullifier_accum
                            /\ \/ IsPrefix(v.nullifier_accum, nav)
                               \/ v.nullifier_accum = nav
                            /\ \/ IsPrefix(u.nullifier_accum, nav)
                               \/ u.nullifier_accum = nav
    BY <1>3, <1>4, <1>9, ChainTop
  <2>2. PICK S : navs \subseteq Seq(S)
    BY DEF NavsInv
  <2>3. p.w.nullifier_accum \in navs /\ q.w.nullifier_accum \in navs
    BY <1>5 DEF Started, InitLocalInput
  <2>4. MadeOn(p, nav)
    BY <1>3, <2>1, <2>2, <2>3, PrefixTransitive DEF MadeOn
  <2>5. MadeOn(q, nav)
    BY <1>4, <2>1, <2>2, <2>3, PrefixTransitive DEF MadeOn
  <2> QED
    BY <1>5, <1>7, <2>4, <2>5, SameTxFee
<1>12. c.address = d.address /\ c.amount = d.amount
  <2>1. CASE c.idx = FEE_IDX
    BY <1>3, <1>4, <1>7, <1>10, <1>11, <2>1
  <2>2. CASE c.idx # FEE_IDX
    <3>1. p.w.new_coins \in Seq(CoinEssence) /\ IndicesOk(p.w.new_coins)
      BY <1>5, NewCoinsAssumption DEF Started, InitLocalInput, InitAccepts
    <3>2. PICK i \in 2 .. Len(p.w.new_coins) :
                 /\ c.idx = p.w.new_coins[i].idx
                 /\ c.address = p.w.new_coins[i].address
                 /\ c.amount = p.w.new_coins[i].amount
      BY <1>3, <2>2
    <3>3. PICK j \in 2 .. Len(p.w.new_coins) :
                 /\ d.idx = p.w.new_coins[j].idx
                 /\ d.address = p.w.new_coins[j].address
                 /\ d.amount = p.w.new_coins[j].amount
      BY <1>4, <1>7, <1>8, <2>2
    <3>4. i = j
      BY <1>7, <3>1, <3>2, <3>3, IndicesDiffer
    <3> QED
      BY <3>2, <3>3, <3>4
  <2> QED
    BY <2>1, <2>2
<1> QED
  BY <1>3, <1>4, <1>6, <1>7, <1>10, <1>12 DEF SameTx

\* So are any two coins.
LEMMA KnownUnique ==
  ASSUME SoundMembership, SoundPrefix, SoundDistinct, OldCoinsApart,
         NavsInv, PaymentTypeInv, TraceInv, CoinIdUnique,
         NEW c, NEW d, Known(c), Known(d), CoinId(c) = CoinId(d),
         SameChain(c.nullifier_accum, d.nullifier_accum)
  PROVE  [c EXCEPT !.nullifier_accum = d.nullifier_accum] = d
<1>1. c.tx_hash = d.tx_hash
  BY DEF CoinId
<1>2. ASSUME NEW a, Made(a), NEW b \in OldCoin, a.tx_hash = b.tx_hash
      PROVE  FALSE
  <2>1. PICK p \in payments, w \in FinalizeLocalInput :
          /\ FinalizeAccepts(p.out.partial_output, w)
          /\ CoinOf(a, p, w) \/ FeeCoinOf(a, p, w)
    BY <1>2 DEF Made
  <2>2. a.tx_hash = p.out.partial_output.tx_hash
    BY <2>1 DEF CoinOf, FeeCoinOf, FinalCoin
  <2>3. p.out.partial_output.tx_hash = Tx(p.prev, p.spends, p.w)
    <3>1. p.out = InitOutput(p.prev, p.spends, p.w)
      BY DEF TraceInv, Started
    <3> QED
      BY <3>1 DEF InitOutput, PartialOutput
  <2> QED
    BY <1>2, <2>2, <2>3 DEF OldCoinsApart
<1>3. CASE Made(c) /\ Made(d)
  BY <1>3, MadeUnique
<1>4. CASE c \in OldCoin /\ d \in OldCoin
  <2>1. c = d
    BY <1>4 DEF OldCoinsApart
  <2>2. c = [ address         |-> c.address,
              amount          |-> c.amount,
              idx             |-> c.idx,
              tx_hash         |-> c.tx_hash,
              blockchain_loc  |-> c.blockchain_loc,
              nullifier_accum |-> << >> ]
    BY <1>4, OldCoinAssumption
  <2> QED
    BY <2>1, <2>2
<1> QED
  BY <1>1, <1>2, <1>3, <1>4 DEF Known

CoinInv == NavsInv /\ PaymentTypeInv /\ TraceInv

\* What payment_finalize adds keeps the ids apart.
LEMMA MakingKeepsIds ==
  ASSUME SoundMembership, SoundPrefix, SoundDistinct, OldCoinsApart,
         CoinInv, CoinIdUnique, \A c \in coins' : Known(c)
  PROVE  CoinIdUnique'
BY KnownUnique DEF CoinInv, CoinIdUnique

\* The three invariants the identifiers rest on, together.
LEMMA CoinInvHolds == Spec => []CoinInv
BY OutcomeInvHolds, PaymentTypeInvHolds, TraceInvHolds, PTL
   DEF OutcomeInv, CoinInv

\* For every set of keys, coins, fees and lists of coins, every build and every
\* tree of chains: with accumulators whose verifiers are right when they say
\* yes, and a hash without collisions, an id names one coin on a chain, be it a
\* payee's or the publisher's.
THEOREM CoinIdUniqueHolds ==
  ASSUME SoundMembership, SoundPrefix, SoundDistinct, OldCoinsApart
  PROVE  Spec => []CoinIdUnique
<1>1. Init => CoinIdUnique
  <2> SUFFICES ASSUME Init, NEW c \in coins, NEW d \in coins,
                      CoinId(c) = CoinId(d)
               PROVE  [c EXCEPT !.nullifier_accum = d.nullifier_accum] = d
    BY DEF Init, CoinIdUnique
  <2>1. c = d
    BY DEF Init, OldCoinsApart
  <2>2. c = [ address         |-> c.address,
              amount          |-> c.amount,
              idx             |-> c.idx,
              tx_hash         |-> c.tx_hash,
              blockchain_loc  |-> c.blockchain_loc,
              nullifier_accum |-> << >> ]
    BY OldCoinAssumption DEF Init
  <2> QED
    BY <2>1, <2>2
<1>2. CoinInv /\ CoinIdUnique /\ [Next]_vars => CoinIdUnique'
  <2> SUFFICES ASSUME CoinInv, CoinIdUnique, [Next]_vars
               PROVE  CoinIdUnique'
    OBVIOUS
  <2>1. ASSUME UNCHANGED coins
        PROVE  CoinIdUnique'
    BY <2>1 DEF CoinIdUnique
  <2>2. CASE \E spends \in Spends : PayInit(spends)
    BY <2>1, <2>2 DEF PayInit, CertifyPayInit
  <2>3. CASE \E spends \in Spends : PayInitNewAcct(spends)
    BY <2>1, <2>3 DEF PayInitNewAcct, CertifyPayInit
  <2>4. CASE \E out \in init_outputs, w \in FinalizeLocalInput :
               PayFinalize(out, w)
    BY <2>4, FinalizeMakes, MakingKeepsIds DEF CoinInv
  <2>5. CASE \E out \in fee_outputs, w \in FinalizeLocalInput :
               PayFinalizeFee(out, w)
    BY <2>5, FinalizeFeeMakes, MakingKeepsIds DEF CoinInv
  <2>6. CASE \E nav \in navs, block \in SUBSET Publications : AppendSet(nav, block)
    BY <2>1, <2>6 DEF AppendSet
  <2>7. CASE UNCHANGED vars
    BY <2>1, <2>7 DEF vars
  <2> QED
    BY <2>2, <2>3, <2>4, <2>5, <2>6, <2>7 DEF Next
<1> QED
  BY <1>1, <1>2, CoinInvHolds, PTL DEF Spec

-----------------------------------------------------------------------------
(* The publisher's coin.                                                   *)

\* For every instance, on the same assumptions: the publisher is paid what the
\* payment's outcome on the chain says, whichever of the payments that share a
\* transaction its coin was made from.
THEOREM FeeFollowsOutcomeHolds ==
  ASSUME SoundMembership, SoundPrefix, SoundDistinct, OldCoinsApart
  PROVE  Spec => []FeeFollowsOutcome
<1>1. OutcomeInv /\ CoinInv /\ CoinIdUnique => FeeFollowsOutcome
  <2> SUFFICES ASSUME OutcomeInv, CoinInv, CoinIdUnique,
                      NEW f \in finalized, NEW c \in coins \ OldCoin,
                      c.idx = FEE_IDX,
                      c.tx_hash = f.payment.out.partial_output.tx_hash,
                      SameChain(c.nullifier_accum, f.nav)
               PROVE  c.amount = IF NoOp(f.payment.w) THEN 0 ELSE f.payment.w.fee
    BY DEF FeeFollowsOutcome
  <2>1. NavsInv /\ PaymentTypeInv /\ TraceInv
    BY DEF CoinInv
  <2>2. PICK S : navs \subseteq Seq(S)
    BY <2>1 DEF NavsInv
  <2>3. /\ f.payment \in payments /\ f.nav \in navs
        /\ MadeOn(f.payment, f.nav)
    BY <2>2, CompletedOnChain DEF MadeOn
  <2>4. Made(c)
    BY <2>1 DEF TraceInv, Known
  <2>5. PICK p \in payments, w \in FinalizeLocalInput :
          /\ FinalizeAccepts(p.out.partial_output, w)
          /\ CoinOf(c, p, w) \/ FeeCoinOf(c, p, w)
    BY <2>4 DEF Made
  <2>6. /\ c.tx_hash = p.out.partial_output.tx_hash
        /\ c.nullifier_accum = w.nullifier_accum
    BY <2>5 DEF CoinOf, FeeCoinOf, FinalCoin
  <2>7. /\ w.nullifier_accum \in navs
        /\ MadeOn(p, w.nullifier_accum)
        /\ c.idx # FEE_IDX \/ c.amount = p.fee_out.fee
    BY <2>1, <2>5, MadeParts
  <2>8. Started(p) /\ Started(f.payment)
    BY <2>1, <2>3 DEF TraceInv
  <2>9. SameTx(p, f.payment)
    BY <2>6 DEF SameTx
  <2>10. PICK nav \in navs : /\ nav = w.nullifier_accum \/ nav = f.nav
                             /\ \/ IsPrefix(w.nullifier_accum, nav)
                                \/ w.nullifier_accum = nav
                             /\ \/ IsPrefix(f.nav, nav)
                                \/ f.nav = nav
    BY <2>3, <2>6, <2>7, ChainTop
  <2>11. p.w.nullifier_accum \in navs /\ f.payment.w.nullifier_accum \in navs
    BY <2>8 DEF Started, InitLocalInput
  <2>12. MadeOn(p, nav)
    BY <2>2, <2>7, <2>10, <2>11, PrefixTransitive DEF MadeOn
  <2>13. MadeOn(f.payment, nav)
    BY <2>2, <2>3, <2>10, <2>11, PrefixTransitive DEF MadeOn
  <2>14. p.fee_out.fee = f.payment.fee_out.fee
    BY <2>1, <2>8, <2>9, <2>12, <2>13, SameTxFee
  <2>15. f.payment.fee_out.fee = IF NoOp(f.payment.w) THEN 0
                                                      ELSE f.payment.w.fee
    BY <2>8 DEF Started, InitOutputFee
  <2> QED
    BY <2>7, <2>14, <2>15
<1> QED
  BY <1>1, OutcomeInvHolds, CoinInvHolds, CoinIdUniqueHolds, PTL

-----------------------------------------------------------------------------
(* A coin is spent once.                                                   *)

\* verify_non_membership_and_insert, when it says yes, is right that none of
\* the ids was in the old value.
SoundNonMembership ==
  \A old, new, ids :
    VerifyNonMembershipAndInsert(old, new, ids) => Range(ids) \cap old = {}

\* The payments of F finalized one after another from an account newly opened,
\* each of the state the one before led to: L[1], ..., L[n] = f.  What takes effect
\* is in the spent accumulator of those that follow.
Lineage(F, L, n, f) ==
  /\ n \in Nat \ {0}
  /\ L \in [1 .. n -> F]
  /\ L[n] = f
  /\ Fresh(L[1].payment.prev)
  /\ \A i \in 1 .. n - 1 : L[i + 1].payment.prev = L[i].state
  /\ \A i \in 1 .. n : /\ L[i].payment.prev.id = f.payment.prev.id
                       /\ IsPrefix(L[i].nav, f.nav)
  /\ \A i \in 1 .. n - 1 :
       ~NoOp(L[i].payment.w)
         => Range(OnChainIds(L[i].payment.spends))
              \subseteq f.payment.prev.spent_accum

\* Every payment finalized has one, as long as no account state is carried
\* over from another chain.
LineageInv ==
  HistoryOnChain => \A f \in finalized : \E n, L : Lineage(finalized, L, n, f)

\* A history extends itself.
LEMMA PrefixReflexive ==
  ASSUME NEW S, NEW s \in Seq(S)
  PROVE  IsPrefix(s, s)
<1>1. Len(s) \in Nat
  OBVIOUS
<1> QED
  BY <1>1, PrefixPointwise

\* What a completed payment leaves of the account it is of.
LEMMA CompletedState ==
  ASSUME OutcomeInv, TraceInv, NEW f \in finalized
  PROVE  /\ f.nav \in navs /\ Started(f.payment)
         /\ f.state.id = f.payment.prev.id
         /\ f.state.nullifier_accum = f.nav
         /\ f.payment.prev.spent_accum \subseteq f.state.spent_accum
         /\ ~NoOp(f.payment.w)
              => Range(OnChainIds(f.payment.spends)) \subseteq f.state.spent_accum
<1> DEFINE p == f.payment
<1>1. p \in payments /\ f.nav \in navs /\ Started(p)
  BY DEF OutcomeInv, Completed, TraceInv
<1>2. PICK w : w.nullifier_accum = f.nav /\ f.state = FinalState(p.out, w)
  BY DEF OutcomeInv, Completed
<1>3. /\ p.out.state.id = p.prev.id
      /\ p.out.spent_accum = OutputSpentAccum(p.prev, p.w)
  <2>1. p.out = InitOutput(p.prev, p.spends, p.w)
    BY <1>1 DEF Started
  <2> QED
    BY <2>1 DEF InitOutput
<1>4. /\ f.state.id = p.prev.id
      /\ f.state.nullifier_accum = f.nav
      /\ f.state.spent_accum = OutputSpentAccum(p.prev, p.w)
  BY <1>2, <1>3 DEF FinalState
<1>5. p.w.new_spent_accum = p.prev.spent_accum \cup Range(OnChainIds(p.spends))
  BY <1>1 DEF Started, InitLocalInput
<1> QED
  BY <1>1, <1>4, <1>5 DEF OutputSpentAccum

\* A payment of a new account begins a lineage.
LEMMA FirstOfLineage ==
  ASSUME NEW S, NEW F, NEW f \in F, f.nav \in Seq(S), Fresh(f.payment.prev)
  PROVE  Lineage(F, [i \in 1 .. 1 |-> f], 1, f)
<1>1. IsPrefix(f.nav, f.nav)
  BY PrefixReflexive
<1> QED
  BY <1>1 DEF Lineage

\* A payment of an account state continues the lineage that led to it.
LEMMA NextOfLineage ==
  ASSUME NEW S, NEW F, \A e \in F : e.nav \in Seq(S), NEW h \in F, NEW f \in F,
         f.payment.prev = h.state, IsPrefix(h.nav, f.nav),
         h.state.id = h.payment.prev.id,
         h.payment.prev.spent_accum \subseteq h.state.spent_accum,
         ~NoOp(h.payment.w)
           => Range(OnChainIds(h.payment.spends)) \subseteq h.state.spent_accum,
         NEW n, NEW L, Lineage(F, L, n, h)
  PROVE  Lineage(F, [i \in 1 .. n + 1 |-> IF i = n + 1 THEN f ELSE L[i]],
                 n + 1, f)
<1> DEFINE M == [i \in 1 .. n + 1 |-> IF i = n + 1 THEN f ELSE L[i]]
<1>1. /\ n \in Nat \ {0} /\ L \in [1 .. n -> F] /\ L[n] = h
      /\ Fresh(L[1].payment.prev)
      /\ \A i \in 1 .. n - 1 : L[i + 1].payment.prev = L[i].state
      /\ \A i \in 1 .. n : /\ L[i].payment.prev.id = h.payment.prev.id
                           /\ IsPrefix(L[i].nav, h.nav)
      /\ \A i \in 1 .. n - 1 :
           ~NoOp(L[i].payment.w)
             => Range(OnChainIds(L[i].payment.spends))
                  \subseteq h.payment.prev.spent_accum
  BY DEF Lineage
<1>2. /\ n + 1 \in Nat \ {0}
      /\ M \in [1 .. n + 1 -> F]
      /\ M[n + 1] = f
      /\ \A i \in 1 .. n : M[i] = L[i]
  BY <1>1
<1> HIDE DEF M
<1>3. Fresh(M[1].payment.prev)
  BY <1>1, <1>2
<1>4. \A i \in 1 .. (n + 1) - 1 : M[i + 1].payment.prev = M[i].state
  <2> SUFFICES ASSUME NEW i \in 1 .. n
               PROVE  M[i + 1].payment.prev = M[i].state
    BY <1>1
  <2>1. CASE i = n
    BY <1>1, <1>2, <2>1
  <2>2. CASE i # n
    <3>1. i \in 1 .. n - 1 /\ i + 1 \in 1 .. n
      BY <1>1, <2>2
    <3> QED
      BY <1>1, <1>2, <3>1
  <2> QED
    BY <2>1, <2>2
<1>5. ASSUME NEW i \in 1 .. n + 1
      PROVE  M[i].payment.prev.id = f.payment.prev.id /\ IsPrefix(M[i].nav, f.nav)
  <2>1. CASE i = n + 1
    <3>1. IsPrefix(f.nav, f.nav)
      BY PrefixReflexive
    <3> QED
      BY <1>2, <2>1, <3>1
  <2>2. CASE i # n + 1
    <3>1. i \in 1 .. n /\ M[i] = L[i] /\ L[i] \in F
      BY <1>1, <1>2, <2>2
    <3>2. IsPrefix(L[i].nav, f.nav)
      BY <1>1, <3>1, PrefixTransitive
    <3> QED
      BY <1>1, <3>1, <3>2
  <2> QED
    BY <2>1, <2>2
<1>6. ASSUME NEW i \in 1 .. (n + 1) - 1, ~NoOp(M[i].payment.w)
      PROVE  Range(OnChainIds(M[i].payment.spends))
               \subseteq f.payment.prev.spent_accum
  <2>1. i \in 1 .. n /\ M[i] = L[i]
    BY <1>1, <1>2
  <2>2. CASE i = n
    BY <1>1, <1>6, <2>1, <2>2
  <2>3. CASE i # n
    <3>1. i \in 1 .. n - 1
      BY <1>1, <2>1, <2>3
    <3> QED
      BY <1>1, <1>6, <2>1, <3>1
  <2> QED
    BY <2>2, <2>3
<1> QED
  BY <1>2, <1>3, <1>4, <1>5, <1>6 DEF Lineage, M

\* Every payment finalized has a lineage if every one finalized before has.
LEMMA LineageKept ==
  ASSUME OutcomeInv, TraceInv, LineageInv, NEW out \in init_outputs,
         NEW w \in FinalizeLocalInput, PayFinalize(out, w), OutcomeInv'
  PROVE  LineageInv'
<1>1. /\ UNCHANGED <<navs, payments>>
      /\ finalized \subseteq finalized'
      /\ \A f \in finalized' \ finalized : f.payment \in payments
  BY DEF PayFinalize
<1> SUFFICES ASSUME HistoryOnChain', NEW f \in finalized'
             PROVE  \E n, L : Lineage(finalized', L, n, f)
  BY DEF LineageInv
<1>2. HistoryOnChain
  BY <1>1 DEF HistoryOnChain
<1>3. ASSUME NEW h \in finalized
      PROVE  \E n, L : Lineage(finalized', L, n, h)
  <2>1. PICK n, L : Lineage(finalized, L, n, h)
    BY <1>2, <1>3 DEF LineageInv
  <2>2. Lineage(finalized', L, n, h)
    BY <1>1, <2>1 DEF Lineage
  <2> QED
    BY <2>2
<1>4. CASE f \in finalized
  BY <1>3, <1>4
<1>5. CASE f \notin finalized
  <2>1. f.payment \in payments /\ Started(f.payment)
    BY <1>1, <1>5 DEF TraceInv
  <2>2. PICK S : navs' \subseteq Seq(S)
    BY DEF OutcomeInv, NavsInv
  <2>3. \A e \in finalized' : e.nav \in Seq(S)
    BY <2>2 DEF OutcomeInv, Completed
  <2>4. CASE Fresh(f.payment.prev)
    <3>1. Lineage(finalized', [i \in 1 .. 1 |-> f], 1, f)
      BY <2>3, <2>4, FirstOfLineage
    <3> QED
      BY <3>1
  <2>5. CASE f.payment.prev \in acct_states
    <3>1. PICK h \in finalized : h.state = f.payment.prev
      BY <2>5 DEF TraceInv
    <3>2. h \in finalized'
      BY <1>1
    <3>3. PICK n, L : Lineage(finalized', L, n, h)
      BY <1>3
    <3>4. /\ h.state.nullifier_accum = h.nav
          /\ h.state.id = h.payment.prev.id
          /\ h.payment.prev.spent_accum \subseteq h.state.spent_accum
          /\ ~NoOp(h.payment.w)
               => Range(OnChainIds(h.payment.spends))
                    \subseteq h.state.spent_accum
      BY CompletedState
    <3>5. IsPrefix(h.nav, f.nav)
      BY <3>1, <3>4 DEF HistoryOnChain
    <3>6. Lineage(finalized',
                  [i \in 1 .. n + 1 |-> IF i = n + 1 THEN f ELSE L[i]],
                  n + 1, f)
      BY <2>3, <3>1, <3>2, <3>3, <3>4, <3>5, NextOfLineage
    <3> QED
      BY <3>6
  <2> QED
    BY <2>1, <2>4, <2>5 DEF Started
<1> QED
  BY <1>4, <1>5

\* Every account state found at any time has a lineage.
LEMMA LineageInvHolds == Spec => []LineageInv
<1>1. Init => LineageInv
  BY DEF Init, LineageInv
<1>2. ASSUME OutcomeInv, TraceInv, LineageInv, [Next]_vars, OutcomeInv'
      PROVE  LineageInv'
  <2>1. ASSUME navs \subseteq navs', UNCHANGED finalized
        PROVE  LineageInv'
    BY <1>2, <2>1 DEF LineageInv, HistoryOnChain
  <2>2. CASE \E spends \in Spends : PayInit(spends)
    BY <2>1, <2>2 DEF PayInit, CertifyPayInit
  <2>3. CASE \E spends \in Spends : PayInitNewAcct(spends)
    BY <2>1, <2>3 DEF PayInitNewAcct, CertifyPayInit
  <2>4. CASE \E out \in init_outputs, w \in FinalizeLocalInput :
               PayFinalize(out, w)
    BY <1>2, <2>4, LineageKept
  <2>5. CASE \E out \in fee_outputs, w \in FinalizeLocalInput :
               PayFinalizeFee(out, w)
    BY <2>1, <2>5 DEF PayFinalizeFee
  <2>6. CASE \E nav \in navs, block \in SUBSET Publications : AppendSet(nav, block)
    BY <2>1, <2>6 DEF AppendSet
  <2>7. CASE UNCHANGED vars
    BY <2>1, <2>7 DEF vars
  <2> QED
    BY <1>2, <2>2, <2>3, <2>4, <2>5, <2>6, <2>7 DEF Next
<1> QED
  BY <1>1, <1>2, OutcomeInvHolds, TraceInvHolds, PTL DEF Spec

\* Two lineages of one account id and one chain are of the same transactions,
\* as far as both go: both begin with the key that is the account's id.
LEMMA LineagesAgree ==
  ASSUME OutcomeInv, OneOutcome, NEW nav \in navs,
         NEW f, NEW n, NEW L, Lineage(finalized, L, n, f),
         NEW g, NEW m, NEW M, Lineage(finalized, M, m, g),
         f.nav \in navs, IsPrefix(f.nav, nav),
         g.nav \in navs, IsPrefix(g.nav, nav),
         f.payment.prev.id = g.payment.prev.id
  PROVE  \A i \in 1 .. n : i <= m =>
           /\ SameTx(L[i].payment, M[i].payment)
           /\ NoOp(L[i].payment.w) <=> NoOp(M[i].payment.w)
<1> SUFFICES ASSUME NEW i \in 1 .. n, i <= m
             PROVE  /\ SameTx(L[i].payment, M[i].payment)
                    /\ NoOp(L[i].payment.w) <=> NoOp(M[i].payment.w)
  OBVIOUS
<1>0. PICK S : navs \subseteq Seq(S)
  BY DEF OutcomeInv, NavsInv
<1> DEFINE id == f.payment.prev.id
           Both(k) == k \in 1 .. n /\ k \in 1 .. m
           Agree(k) == /\ SameTx(L[k].payment, M[k].payment)
                       /\ NoOp(L[k].payment.w) <=> NoOp(M[k].payment.w)
                       /\ Essence(L[k].state) = Essence(M[k].state)
           N == {k \in Nat : Both(k + 1) => Agree(k + 1)}
<1>1. /\ n \in Nat \ {0} /\ L \in [1 .. n -> finalized]
      /\ Fresh(L[1].payment.prev)
      /\ \A k \in 1 .. n - 1 : L[k + 1].payment.prev = L[k].state
      /\ \A k \in 1 .. n : /\ L[k].payment.prev.id = id
                           /\ IsPrefix(L[k].nav, f.nav)
  BY DEF Lineage
<1>2. /\ m \in Nat \ {0} /\ M \in [1 .. m -> finalized]
      /\ Fresh(M[1].payment.prev)
      /\ \A k \in 1 .. m - 1 : M[k + 1].payment.prev = M[k].state
      /\ \A k \in 1 .. m : /\ M[k].payment.prev.id = id
                           /\ IsPrefix(M[k].nav, g.nav)
  BY DEF Lineage
<1>3. ASSUME NEW k, Both(k),
             L[k].payment.prev.nullifier_pk = M[k].payment.prev.nullifier_pk
      PROVE  Agree(k)
  <2>1. L[k] \in finalized /\ M[k] \in finalized
    BY <1>1, <1>2, <1>3
  <2>2. L[k].nav \in navs /\ M[k].nav \in navs
    BY <2>1 DEF OutcomeInv, Completed
  <2>3. IsPrefix(L[k].nav, nav)
    <3>1. L[k].nav \in Seq(S) /\ f.nav \in Seq(S) /\ nav \in Seq(S)
      BY <1>0, <2>2
    <3> QED
      BY <1>1, <1>3, <3>1, PrefixTransitive
  <2>4. IsPrefix(M[k].nav, nav)
    <3>1. M[k].nav \in Seq(S) /\ g.nav \in Seq(S) /\ nav \in Seq(S)
      BY <1>0, <2>2
    <3> QED
      BY <1>2, <1>3, <3>1, PrefixTransitive
  <2>5. SameChain(L[k].nav, M[k].nav)
    BY <1>0, <2>2, <2>3, <2>4, PrefixesComparable
  <2> QED
    BY <1>3, <2>1, <2>5 DEF OneOutcome, SameTx
<1>4. Agree(1)
  <2>1. Both(1) /\ 1 \in 1 .. n /\ 1 \in 1 .. m
    BY <1>1, <1>2
  <2>2. L[1].payment.prev.nullifier_pk = M[1].payment.prev.nullifier_pk
    BY <1>1, <1>2, <2>1 DEF Fresh
  <2> HIDE DEF Both, Agree
  <2> QED
    BY <1>3, <2>1, <2>2
<1>5. ASSUME NEW k \in Nat, Both(k + 1), Agree(k + 1), Both((k + 1) + 1)
      PROVE  Agree((k + 1) + 1)
  <2> DEFINE j == k + 1
  <2>1. /\ j \in 1 .. n - 1 /\ j \in 1 .. m - 1
    BY <1>1, <1>2, <1>5
  <2>2. /\ L[j + 1].payment.prev = L[j].state
        /\ M[j + 1].payment.prev = M[j].state
    BY <1>1, <1>2, <2>1
  <2>3. L[j].state.nullifier_pk = M[j].state.nullifier_pk
    BY <1>5 DEF Essence
  <2>4. L[j + 1].payment.prev.nullifier_pk = M[j + 1].payment.prev.nullifier_pk
    BY <2>2, <2>3
  <2>5. Both(j + 1)
    BY <1>5
  <2> HIDE DEF Both, Agree
  <2> QED
    BY <1>3, <2>4, <2>5
<1>6. N = Nat
  <2>1. 0 \in N
    BY <1>4
  <2>2. ASSUME NEW k \in N
        PROVE  k + 1 \in N
    <3>1. Both((k + 1) + 1) => Both(k + 1)
      BY <1>1, <1>2
    <3> HIDE DEF Both, Agree
    <3> QED
      BY <1>5, <2>2, <3>1
  <2>3. N \in SUBSET Nat
    OBVIOUS
  <2> HIDE DEF N
  <2> QED
    BY <2>1, <2>2, <2>3, NatInductionOnSet
<1>7. i - 1 \in Nat /\ (i - 1) + 1 = i /\ Both(i)
  BY <1>1, <1>2
<1>8. Agree(i)
  <2> HIDE DEF Both, Agree
  <2> QED
    BY <1>6, <1>7
<1> QED
  BY <1>8

\* If two payments of one chain spend the same coin, neither is later in a
\* lineage than the transaction of the other.
LEMMA SpentBefore ==
  ASSUME SoundPrefix, SoundDistinct, SoundNonMembership,
         OutcomeInv, CoinInv, CoinIdUnique, OneOutcome,
         NEW nav \in navs,
         NEW f \in finalized, NEW n, NEW L, Lineage(finalized, L, n, f),
         NEW g \in finalized, NEW m, NEW M, Lineage(finalized, M, m, g),
         IsPrefix(f.nav, nav), IsPrefix(g.nav, nav),
         f.payment.prev.id = g.payment.prev.id,
         \A e \in finalized : IsPrefix(e.nav, nav) => MadeOn(e.payment, nav),
         ~NoOp(f.payment.w),
         NEW x \in Range(f.payment.spends), x \in Range(g.payment.spends),
         n <= m
  PROVE  SameTx(f.payment, g.payment)
<1>1. /\ n \in Nat \ {0} /\ m \in Nat \ {0}
      /\ L[n] = f /\ M[m] = g
      /\ M \in [1 .. m -> finalized]
      /\ \A k \in 1 .. m : IsPrefix(M[k].nav, g.nav)
      /\ \A k \in 1 .. m - 1 :
           ~NoOp(M[k].payment.w)
             => Range(OnChainIds(M[k].payment.spends))
                  \subseteq g.payment.prev.spent_accum
  BY DEF Lineage
<1>2. NavsInv /\ PaymentTypeInv /\ TraceInv
  BY DEF CoinInv
<1>3. PICK S : navs \subseteq Seq(S)
  BY <1>2 DEF NavsInv
<1>4. /\ f.nav \in navs /\ Started(f.payment)
      /\ g.nav \in navs /\ Started(g.payment)
  BY <1>2, CompletedState
<1>5. /\ SameTx(f.payment, M[n].payment)
      /\ NoOp(f.payment.w) <=> NoOp(M[n].payment.w)
  <2>1. \A i \in 1 .. n : i <= m =>
          /\ SameTx(L[i].payment, M[i].payment)
          /\ NoOp(L[i].payment.w) <=> NoOp(M[i].payment.w)
    BY <1>4, LineagesAgree
  <2>2. n \in 1 .. n
    BY <1>1
  <2> QED
    BY <1>1, <2>1, <2>2
<1>6. CASE n = m
  BY <1>1, <1>5, <1>6
<1>7. CASE n # m
  <2> DEFINE e == M[n]
  <2>1. n \in 1 .. m - 1 /\ n \in 1 .. m
    BY <1>1, <1>7
  <2>2. e \in finalized /\ IsPrefix(e.nav, g.nav)
    BY <1>1, <2>1
  <2>3. e.nav \in navs /\ Started(e.payment)
    BY <1>2, <2>2, CompletedState
  <2>4. IsPrefix(e.nav, nav)
    <3>1. e.nav \in Seq(S) /\ g.nav \in Seq(S) /\ nav \in Seq(S)
      BY <1>3, <1>4, <2>3
    <3> QED
      BY <2>2, <3>1, PrefixTransitive
  <2>5. MadeOn(e.payment, nav)
    BY <2>2, <2>4
  <2>6. ~NoOp(e.payment.w)
    BY <1>5
  <2> HIDE DEF e
  <2>7. /\ DOMAIN f.payment.spends = DOMAIN e.payment.spends
        /\ \A i \in DOMAIN f.payment.spends :
             OnChainId(f.payment.spends[i]) = OnChainId(e.payment.spends[i])
    BY <1>2, <1>4, <1>5, <2>3, <2>5, <2>6, SameTxSpends DEF e
  <2>8. PICK i \in DOMAIN f.payment.spends : x = f.payment.spends[i]
    BY DEF Range
  <2>9. OnChainId(x) \in Range(OnChainIds(e.payment.spends))
    BY <2>7, <2>8 DEF Range, OnChainIds
  <2>10. OnChainId(x) \in g.payment.prev.spent_accum
    BY <1>1, <2>1, <2>6, <2>9 DEF e
  <2>11. PICK j \in DOMAIN g.payment.spends : x = g.payment.spends[j]
    BY DEF Range
  <2>12. OnChainId(x) \in Range(OnChainIds(g.payment.spends))
    BY <2>11 DEF Range, OnChainIds
  <2>13. VerifyNonMembershipAndInsert(g.payment.prev.spent_accum,
                                      g.payment.w.new_spent_accum,
                                      OnChainIds(g.payment.spends))
    BY <1>4 DEF Started, InitAccepts
  <2>14. Range(OnChainIds(g.payment.spends))
           \cap g.payment.prev.spent_accum = {}
    BY <2>13 DEF SoundNonMembership
  <2> QED
    BY <2>10, <2>12, <2>14
<1> QED
  BY <1>6, <1>7

\* For every set of keys, coins, fees, lists of coins and openings, every build
\* and every tree of chains: with accumulators whose verifiers are right when
\* they say yes, and a hash without collisions, a chain completes one
\* transaction that spends a coin, however often its owner opens the account
\* again.
THEOREM CoinSpentOnceHolds ==
  ASSUME SoundMembership, SoundPrefix, SoundDistinct, SoundNonMembership,
         OldCoinsApart
  PROVE  Spec => []CoinSpentOnce
<1>1. OutcomeInv /\ CoinInv /\ CoinIdUnique /\ OneOutcome /\ LineageInv
        => CoinSpentOnce
  <2> SUFFICES ASSUME OutcomeInv, CoinInv, CoinIdUnique, OneOutcome, LineageInv,
                      HistoryOnChain, AddressesOpened,
                      NEW f \in finalized, NEW g \in finalized,
                      SameChain(f.nav, g.nav),
                      ~NoOp(f.payment.w), ~NoOp(g.payment.w),
                      NEW x \in Range(f.payment.spends),
                      x \in Range(g.payment.spends)
               PROVE  SameTx(f.payment, g.payment)
    BY DEF CoinSpentOnce, SameTx
  <2>1. NavsInv /\ PaymentTypeInv /\ TraceInv
    BY DEF CoinInv
  <2>2. PICK S : navs \subseteq Seq(S)
    BY <2>1 DEF NavsInv
  <2>3. f.nav \in navs /\ Started(f.payment) /\ g.nav \in navs /\ Started(g.payment)
    BY <2>1, CompletedState
  <2>4. ASSUME NEW e \in finalized
        PROVE  \A y \in Range(e.payment.spends) : y.address = e.payment.prev.id
    <3>1. Started(e.payment)
      BY <2>1, CompletedState
    <3>2. PICK n \in Nat : e.payment.spends \in [1 .. n -> coins]
      BY <3>1 DEF Started
    <3>3. Len(e.payment.spends) = n /\ DOMAIN e.payment.spends = 1 .. n
      BY <3>2
    <3>4. e.payment.w.openings \in Nat /\ n <= e.payment.w.openings
      BY <3>1, <3>3, OpeningsAssumption
         DEF AddressesOpened, Started, InitLocalInput
    <3>5. \A i \in 1 .. n : e.payment.spends[i].address = e.payment.prev.id
      BY <3>1, <3>3, <3>4 DEF Started, InitAccepts, Owns
    <3> QED
      BY <3>3, <3>5 DEF Range
  <2>5. f.payment.prev.id = x.address /\ g.payment.prev.id = x.address
    BY <2>4
  <2>6. PICK nav \in navs : /\ nav = f.nav \/ nav = g.nav
                            /\ IsPrefix(f.nav, nav) \/ f.nav = nav
                            /\ IsPrefix(g.nav, nav) \/ g.nav = nav
    BY <2>3, ChainTop
  <2>7. IsPrefix(f.nav, nav) /\ IsPrefix(g.nav, nav)
    BY <2>2, <2>6, PrefixReflexive
  <2>8. ASSUME NEW e \in finalized, IsPrefix(e.nav, nav)
        PROVE  MadeOn(e.payment, nav)
    <3>1. e.nav \in navs /\ Started(e.payment)
      BY <2>1, CompletedState
    <3>2. e.payment.w.nullifier_accum \in navs
      BY <3>1 DEF Started, InitLocalInput
    <3>3. IsPrefix(e.payment.w.nullifier_accum, e.nav)
      BY <2>2, CompletedOnChain
    <3> QED
      BY <2>2, <2>8, <3>1, <3>2, <3>3, PrefixTransitive DEF MadeOn
  <2>9. PICK n, L : Lineage(finalized, L, n, f)
    BY DEF LineageInv
  <2>10. PICK m, M : Lineage(finalized, M, m, g)
    BY DEF LineageInv
  <2>11. n \in Nat /\ m \in Nat
    BY <2>9, <2>10 DEF Lineage
  <2>12. CASE n <= m
    BY <2>5, <2>7, <2>8, <2>9, <2>10, <2>12, SpentBefore
  <2>13. CASE m <= n
    <3>1. SameTx(g.payment, f.payment)
      BY <2>5, <2>7, <2>8, <2>9, <2>10, <2>13, SpentBefore
    <3> QED
      BY <3>1 DEF SameTx
  <2> QED
    BY <2>11, <2>12, <2>13
<1> QED
  BY <1>1, OutcomeInvHolds, CoinInvHolds, CoinIdUniqueHolds, OneOutcomeHolds,
     LineageInvHolds, PTL
=============================================================================
