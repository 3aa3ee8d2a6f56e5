--------------------------- MODULE PaymentProofs ---------------------------
(***************************************************************************)
(* What is proved of Payment.  NothingMoves is not inductive: a coin or an *)
(* account state gets its amount from an output of payment_init, so the    *)
(* invariant has to say that the outputs carry nothing either.             *)
(***************************************************************************)
EXTENDS Payment, SumTheorems

OutputsEmpty ==
  /\ \A out \in init_outputs : /\ out.state.balance = 0
                               /\ out.coin_essences = << >>
  /\ \A out \in fee_outputs : out.fee = 0

PaymentInv == NothingMoves /\ OutputsEmpty

\* What payment_init makes of a payment it takes as a no-op: no coins and no
\* fee, and the balance the account had.
LEMMA NoOpOutputs ==
  ASSUME NEW prev, NEW spends, NEW w, NoOp(w)
  PROVE  /\ InitOutput(prev, spends, w).state.balance = prev.balance
         /\ InitOutput(prev, spends, w).coin_essences = << >>
         /\ InitOutputFee(prev, spends, w).fee = 0
  BY DEF InitOutput, InitOutputFee, OutputBalance

\* A payment from an account without a balance adds empty outputs.
LEMMA CertifyKeepsEmpty ==
  ASSUME PaymentInv, NEW prev, NEW spends, NEW w,
         NoOp(w), prev.balance = 0, CertifyPayInit(prev, spends, w)
  PROVE  PaymentInv'
<1>1. UNCHANGED <<acct_states, coins>>
  BY DEF CertifyPayInit
<1>2. NothingMoves'
  BY <1>1 DEF PaymentInv, NothingMoves
<1>3. /\ init_outputs' = init_outputs \cup {InitOutput(prev, spends, w)}
      /\ fee_outputs' = fee_outputs \cup {InitOutputFee(prev, spends, w)}
  BY DEF CertifyPayInit
<1>4. OutputsEmpty'
  BY <1>3, NoOpOutputs DEF PaymentInv, OutputsEmpty
<1> QED
  BY <1>2, <1>4 DEF PaymentInv

\* Finalizing an empty output makes an account state without a balance and
\* no coin.
LEMMA FinalizeMovesNothing ==
  ASSUME PaymentInv, NEW out \in init_outputs, NEW w, PayFinalize(out, w)
  PROVE  PaymentInv'
<1>1. UNCHANGED <<init_outputs, fee_outputs>>
  BY DEF PayFinalize
<1>2. OutputsEmpty'
  BY <1>1 DEF PaymentInv, OutputsEmpty
<1>3. out.state.balance = 0 /\ out.coin_essences = << >>
  BY DEF PaymentInv, OutputsEmpty
<1>4. FinalState(out, w).balance = 0
  BY <1>3 DEF FinalState
<1>5. acct_states' = acct_states \cup {FinalState(out, w)}
  BY DEF PayFinalize
<1>6. DOMAIN out.coin_essences = {}
  <2>1. DOMAIN out.coin_essences = 1 .. 0
    BY <1>3
  <2> QED
    BY <2>1
<1>7. coins' = coins
  <2>1. coins' = coins \cup
          { FinalCoin(out.coin_essences[i], out.partial_output, w) :
              i \in DOMAIN out.coin_essences }
    BY DEF PayFinalize
  <2> QED
    BY <2>1, <1>6
<1>8. NothingMoves'
  BY <1>4, <1>5, <1>7 DEF PaymentInv, NothingMoves
<1> QED
  BY <1>2, <1>8 DEF PaymentInv

\* Finalizing an empty fee output makes a coin worth nothing.
LEMMA FinalizeFeeMovesNothing ==
  ASSUME PaymentInv, NEW out \in fee_outputs, NEW w, PayFinalizeFee(out, w)
  PROVE  PaymentInv'
<1> DEFINE coin == FinalCoin(FeeEssence(out, w), out.partial_output, w)
<1>1. UNCHANGED <<init_outputs, fee_outputs, acct_states>>
  BY DEF PayFinalizeFee
<1>2. OutputsEmpty'
  BY <1>1 DEF PaymentInv, OutputsEmpty
<1>3. coin.amount = 0
  BY DEF FinalCoin, FeeEssence, PaymentInv, OutputsEmpty
<1>4. coins' = coins \cup {coin}
  BY DEF PayFinalizeFee
<1>5. NothingMoves'
  BY <1>1, <1>3, <1>4 DEF PaymentInv, NothingMoves
<1> QED
  BY <1>2, <1>5 DEF PaymentInv

\* With verifiers that take any two accumulator values for distinct ones, as
\* the stubs of primitives.rs do, no proof of an account or of a coin made by
\* a payment ever carries an amount.
THEOREM NothingMovesHolds ==
  ASSUME \A v, w : VerifyDistinctElement(v, w)
  PROVE  Spec => []NothingMoves
<1>1. Init => PaymentInv
  BY DEF Init, PaymentInv, NothingMoves, OutputsEmpty
<1>2. PaymentInv /\ [Next]_vars => PaymentInv'
  <2> SUFFICES ASSUME PaymentInv, [Next]_vars
               PROVE  PaymentInv'
    OBVIOUS
  <2>1. CASE \E spends \in Spends : PayInit(spends)
    <3>1. PICK spends \in Spends : PayInit(spends)
      BY <2>1
    <3>2. PICK prev \in acct_states :
            \E w \in InitLocalInput(prev, spends) :
              CertifyPayInit(prev, spends, w)
      BY <3>1 DEF PayInit
    <3>3. PICK w \in InitLocalInput(prev, spends) :
            CertifyPayInit(prev, spends, w)
      BY <3>2
    <3>4. prev.balance = 0
      BY DEF PaymentInv, NothingMoves
    <3>5. NoOp(w)
      BY DEF NoOp
    <3> QED
      BY <3>3, <3>4, <3>5, CertifyKeepsEmpty
  <2>2. CASE \E spends \in Spends : PayInitNewAcct(spends)
    <3>1. PICK spends \in Spends : PayInitNewAcct(spends)
      BY <2>2
    <3>2. PICK id \in Key, nav \in navs :
            \E w \in InitLocalInput(NewAcct(id, nav), spends) :
              /\ w.nullifier_accum = nav
              /\ CertifyPayInit(NewAcct(id, nav), spends, w)
      BY <3>1 DEF PayInitNewAcct
    <3>3. PICK w \in InitLocalInput(NewAcct(id, nav), spends) :
            CertifyPayInit(NewAcct(id, nav), spends, w)
      BY <3>2
    <3>4. NewAcct(id, nav).balance = 0
      BY DEF NewAcct
    <3>5. NoOp(w)
      BY DEF NoOp
    <3> QED
      BY <3>3, <3>4, <3>5, CertifyKeepsEmpty
  <2>3. CASE \E out \in init_outputs, w \in FinalizeLocalInput :
               PayFinalize(out, w)
    BY <2>3, FinalizeMovesNothing
  <2>4. CASE \E out \in fee_outputs, w \in FinalizeLocalInput :
               PayFinalizeFee(out, w)
    BY <2>4, FinalizeFeeMovesNothing
  <2>5. CASE \E nav \in navs, block \in SUBSET Publications : AppendSet(nav, block)
    <3>1. UNCHANGED <<acct_states, coins, init_outputs, fee_outputs>>
      BY <2>5 DEF AppendSet
    <3> QED
      BY <3>1 DEF PaymentInv, NothingMoves, OutputsEmpty
  <2>6. CASE UNCHANGED vars
    BY <2>6 DEF vars, PaymentInv, NothingMoves, OutputsEmpty
  <2> QED
    BY <2>1, <2>2, <2>3, <2>4, <2>5, <2>6 DEF Next
<1>3. PaymentInv => NothingMoves
  BY DEF PaymentInv
<1> QED
  BY <1>1, <1>2, <1>3, PTL DEF Spec

-----------------------------------------------------------------------------
(* One outcome of a payment, on every chain.                               *)

\* What is asked of the accumulators: a verifier that says yes to membership,
\* to prefixes or to a distinct element is right.
SoundMembership ==
  \A S : \A nav \in Seq(S) : \A e :
    VerifyUnionMembership(nav, e) => \E i \in 1 .. Len(nav) : e \in nav[i]
SoundPrefix ==
  \A S : \A v, nav \in Seq(S) : \A V :
    v \in V /\ VerifyIsPrefix(V, nav) => IsPrefix(v, nav)
SoundDistinct ==
  \A S : \A v, nav \in Seq(S) : VerifyDistinctElement(v, nav) => ~SameChain(v, nav)

\* A prefix agrees with what it is a prefix of.
LEMMA PrefixPointwise ==
  ASSUME NEW S, NEW s \in Seq(S), NEW t \in Seq(S)
  PROVE  IsPrefix(s, t) <=> /\ Len(s) <= Len(t)
                            /\ \A i \in 1 .. Len(s) : s[i] = t[i]
<1>1. Len(s) \in Nat /\ Len(t) \in Nat
  OBVIOUS
<1>2. ASSUME Len(s) <= Len(t)
      PROVE  SubSeq(s, 1, Len(s)) = SubSeq(t, 1, Len(s))
               <=> \A i \in 1 .. Len(s) : s[i] = t[i]
  <2>1. SubSeq(s, 1, Len(s)) = [i \in 1 .. Len(s) |-> s[i]]
    BY <1>1
  <2>2. SubSeq(t, 1, Len(s)) = [i \in 1 .. Len(s) |-> t[i]]
    BY <1>1, <1>2
  <2> QED
    BY <2>1, <2>2
<1> QED
  BY <1>2 DEF IsPrefix

\* An extension of an extension is one.
LEMMA PrefixTransitive ==
  ASSUME NEW S, NEW s \in Seq(S), NEW t \in Seq(S), NEW u \in Seq(S),
         IsPrefix(s, t), IsPrefix(t, u)
  PROVE  IsPrefix(s, u)
<1>1. Len(s) \in Nat /\ Len(t) \in Nat /\ Len(u) \in Nat
  OBVIOUS
<1>2. /\ Len(s) <= Len(t) /\ \A i \in 1 .. Len(s) : s[i] = t[i]
      /\ Len(t) <= Len(u) /\ \A i \in 1 .. Len(t) : t[i] = u[i]
  BY PrefixPointwise
<1>3. Len(s) <= Len(u) /\ \A i \in 1 .. Len(s) : s[i] = u[i]
  BY <1>1, <1>2
<1> QED
  BY <1>3, PrefixPointwise

\* Two prefixes of one chain are of one chain.
LEMMA PrefixesComparable ==
  ASSUME NEW S, NEW s \in Seq(S), NEW t \in Seq(S), NEW u \in Seq(S),
         IsPrefix(s, u), IsPrefix(t, u)
  PROVE  SameChain(s, t)
<1>1. Len(s) \in Nat /\ Len(t) \in Nat
  OBVIOUS
<1>2. /\ \A i \in 1 .. Len(s) : s[i] = u[i]
      /\ \A i \in 1 .. Len(t) : t[i] = u[i]
  BY PrefixPointwise
<1>3. CASE Len(s) <= Len(t)
  <2>1. \A i \in 1 .. Len(s) : s[i] = t[i]
    BY <1>1, <1>2, <1>3
  <2> QED
    BY <1>3, <2>1, PrefixPointwise DEF SameChain
<1>4. CASE Len(t) <= Len(s)
  <2>1. \A i \in 1 .. Len(t) : t[i] = s[i]
    BY <1>1, <1>2, <1>4
  <2> QED
    BY <1>4, <2>1, PrefixPointwise DEF SameChain
<1> QED
  BY <1>1, <1>3, <1>4

\* The chains, each of which has a nullifier key once.
NavsInv ==
  /\ \E S : navs \subseteq Seq(S)
  /\ \A v \in navs : \A i, j \in 1 .. Len(v) : \A d \in v[i], e \in v[j] :
       d.nullifier_pk = e.nullifier_pk => d = e

Begun(p) ==
  /\ p.out = InitOutput(p.prev, p.spends, p.w)
  /\ p.w.conditional_nav \in navs
  /\ p.w.nullifier_accum \in navs
  /\ NoOp(p.w) \/ VerifyIsPrefix(BoundNavs(p.prev, p.spends, p.w),
                                 p.w.nullifier_accum)

Completed(f) ==
  /\ f.payment \in payments
  /\ f.nav \in navs
  /\ \E w : /\ w.nullifier_accum = f.nav
            /\ FinalizeAccepts(f.payment.out.partial_output, w)
            /\ f.state = FinalState(f.payment.out, w)

OutcomeInv ==
  /\ NavsInv
  /\ \A p \in payments : Begun(p)
  /\ \A f \in finalized : Completed(f)

\* Publishing a payment keeps the outcomes,
LEMMA AppendKeepsNavs ==
  ASSUME OutcomeInv, NEW nav \in navs, NEW block, AppendSet(nav, block)
  PROVE  OutcomeInv'
<1> DEFINE Elem(p) == Element(p.partial, [fee_acct_comm  |-> p.fee_acct_comm,
                                          blockchain_loc |-> Len(nav) + 1])
           b == { Elem(p) : p \in block }
<1>1. /\ navs' = navs \cup {Append(nav, b)}
      /\ \A p, q \in block :
           p.partial.nullifier_pk = q.partial.nullifier_pk => p = q
      /\ \A p \in block, i \in DOMAIN nav :
           \A e \in nav[i] : e.nullifier_pk # p.partial.nullifier_pk
      /\ UNCHANGED <<payments, finalized>>
  BY DEF AppendSet
<1>2. \A p : Elem(p).nullifier_pk = p.partial.nullifier_pk
  BY DEF Element
<1> HIDE DEF Elem
<1>3. /\ \A d, e \in b : d.nullifier_pk = e.nullifier_pk => d = e
      /\ \A d \in b, i \in DOMAIN nav :
           \A e \in nav[i] : e.nullifier_pk # d.nullifier_pk
  BY <1>1, <1>2
<1> HIDE DEF b
<1>4. PICK S : navs \subseteq Seq(S)
  BY DEF OutcomeInv, NavsInv
<1>5. Seq(S) \subseteq Seq(S \cup {b}) /\ nav \in Seq(S) /\ nav \in Seq(S \cup {b})
  BY <1>4
<1>6. /\ Append(nav, b) \in Seq(S \cup {b})
      /\ Len(nav) \in Nat /\ DOMAIN nav = 1 .. Len(nav)
      /\ Len(Append(nav, b)) = Len(nav) + 1
      /\ Append(nav, b)[Len(nav) + 1] = b
      /\ \A i \in 1 .. Len(nav) : Append(nav, b)[i] = nav[i]
  BY <1>5
<1>7. \E T : navs' \subseteq Seq(T)
  BY <1>1, <1>4, <1>5, <1>6
<1>8. ASSUME NEW v \in navs', NEW i \in 1 .. Len(v), NEW j \in 1 .. Len(v),
             NEW d \in v[i], NEW e \in v[j], d.nullifier_pk = e.nullifier_pk
      PROVE  d = e
  <2>1. CASE v \in navs
    BY <1>8, <2>1 DEF OutcomeInv, NavsInv
  <2>2. CASE v = Append(nav, b)
    <3>1. /\ (i \in 1 .. Len(nav) /\ v[i] = nav[i]) \/ v[i] = b
          /\ (j \in 1 .. Len(nav) /\ v[j] = nav[j]) \/ v[j] = b
      BY <1>6, <2>2
    <3>2. \A x, y \in 1 .. Len(nav) : \A g \in nav[x], h \in nav[y] :
            g.nullifier_pk = h.nullifier_pk => g = h
      BY DEF OutcomeInv, NavsInv
    <3> QED
      BY <1>3, <1>6, <1>8, <3>1, <3>2
  <2> QED
    BY <1>1, <2>1, <2>2
<1>9. NavsInv'
  BY <1>7, <1>8 DEF NavsInv
<1>10. \A p \in payments' : Begun(p)'
  BY <1>1 DEF OutcomeInv, Begun
<1>11. \A f \in finalized' : Completed(f)'
  BY <1>1 DEF OutcomeInv, Completed
<1> QED
  BY <1>9, <1>10, <1>11 DEF OutcomeInv

\* certifying one does,
LEMMA CertifyKeepsOutcome ==
  ASSUME OutcomeInv, NEW prev, NEW spends,
         NEW w \in InitLocalInput(prev, spends),
         CertifyPayInit(prev, spends, w)
  PROVE  OutcomeInv'
<1> DEFINE p == [ prev    |-> prev,
                  spends  |-> spends,
                  w       |-> w,
                  out     |-> InitOutput(prev, spends, w),
                  fee_out |-> InitOutputFee(prev, spends, w) ]
<1>1. /\ payments' = payments \cup {p}
      /\ UNCHANGED <<navs, finalized>>
  BY DEF CertifyPayInit
<1>2. w.conditional_nav \in navs /\ w.nullifier_accum \in navs
  BY DEF InitLocalInput
<1>3. NoOp(w) \/ VerifyIsPrefix(BoundNavs(prev, spends, w), w.nullifier_accum)
  BY DEF CertifyPayInit, InitAccepts
<1>4. Begun(p)
  BY <1>2, <1>3 DEF Begun
<1> HIDE DEF p
<1>5. \A q \in payments' : Begun(q)'
  BY <1>1, <1>4 DEF OutcomeInv, Begun
<1>6. \A f \in finalized' : Completed(f)'
  BY <1>1 DEF OutcomeInv, Completed
<1>7. NavsInv'
  BY <1>1 DEF OutcomeInv, NavsInv
<1> QED
  BY <1>5, <1>6, <1>7 DEF OutcomeInv

\* and so does finalizing one.
LEMMA FinalizeKeepsOutcome ==
  ASSUME OutcomeInv, NEW out \in init_outputs, NEW w \in FinalizeLocalInput,
         PayFinalize(out, w)
  PROVE  OutcomeInv'
<1> DEFINE new(p) == [payment |-> p, nav |-> w.nullifier_accum,
                      state |-> FinalState(out, w)]
<1>1. /\ UNCHANGED <<payments, navs>>
      /\ finalized' = finalized \cup
           { new(p) : p \in {q \in payments : q.out = out} }
      /\ FinalizeAccepts(out.partial_output, w)
  BY DEF PayFinalize
<1>2. w.nullifier_accum \in navs
  BY DEF FinalizeLocalInput
<1>3. ASSUME NEW p \in payments, p.out = out
      PROVE  Completed(new(p))
  BY <1>1, <1>2, <1>3 DEF Completed
<1>4. \A f \in finalized' : Completed(f)
  <2> HIDE DEF new
  <2> QED
    BY <1>1, <1>3 DEF OutcomeInv
<1>5. \A f \in finalized' : Completed(f)'
  BY <1>1, <1>4 DEF Completed
<1>6. NavsInv' /\ \A p \in payments' : Begun(p)'
  BY <1>1 DEF OutcomeInv, NavsInv, Begun
<1> QED
  BY <1>5, <1>6 DEF OutcomeInv

\* So the outcomes are as described in every reachable state.
LEMMA OutcomeInvHolds == Spec => []OutcomeInv
<1>1. Init => OutcomeInv
  <2> SUFFICES ASSUME Init PROVE OutcomeInv
    OBVIOUS
  <2>1. navs = { << >> } /\ payments = {} /\ finalized = {}
    BY DEF Init
  <2>2. navs \subseteq Seq({}) /\ \A v \in navs : Len(v) = 0
    BY <2>1
  <2> QED
    BY <2>1, <2>2 DEF OutcomeInv, NavsInv
<1>2. OutcomeInv /\ [Next]_vars => OutcomeInv'
  <2> SUFFICES ASSUME OutcomeInv, [Next]_vars
               PROVE  OutcomeInv'
    OBVIOUS
  <2>1. CASE \E spends \in Spends : PayInit(spends)
    BY <2>1, CertifyKeepsOutcome DEF PayInit
  <2>2. CASE \E spends \in Spends : PayInitNewAcct(spends)
    BY <2>2, CertifyKeepsOutcome DEF PayInitNewAcct
  <2>3. CASE \E out \in init_outputs, w \in FinalizeLocalInput :
               PayFinalize(out, w)
    BY <2>3, FinalizeKeepsOutcome
  <2>4. CASE \E nav \in navs, block \in SUBSET Publications : AppendSet(nav, block)
    BY <2>4, AppendKeepsNavs
  <2>5. ASSUME UNCHANGED <<navs, payments, finalized>>
        PROVE  OutcomeInv'
    BY <2>5 DEF OutcomeInv, NavsInv, Begun, Completed
  <2>6. CASE \E out \in fee_outputs, w \in FinalizeLocalInput :
               PayFinalizeFee(out, w)
    BY <2>5, <2>6 DEF PayFinalizeFee
  <2>7. CASE UNCHANGED vars
    BY <2>5, <2>7 DEF vars
  <2> QED
    BY <2>1, <2>2, <2>3, <2>4, <2>6, <2>7 DEF Next
<1> QED
  BY <1>1, <1>2, PTL DEF Spec

\* What a completed payment has in its chain.
LEMMA CompletedOnChain ==
  ASSUME SoundMembership, SoundPrefix, OutcomeInv, NEW f \in finalized,
         NEW S, navs \subseteq Seq(S)
  PROVE  /\ f.payment \in payments /\ Begun(f.payment)
         /\ f.nav \in navs
         /\ IsPrefix(f.payment.w.nullifier_accum, f.nav)
         /\ \E i \in 1 .. Len(f.nav) : \E e \in f.nav[i] :
              /\ e.nullifier_pk = f.payment.prev.nullifier_pk
              /\ e.tx_comm = f.payment.out.partial_output.tx_hash
         /\ \E w : f.state = FinalState(f.payment.out, w)
<1> DEFINE p == f.payment
           partial == p.out.partial_output
<1>1. p \in payments /\ f.nav \in navs /\ Begun(p)
  BY DEF OutcomeInv, Completed
<1>2. PICK w : /\ w.nullifier_accum = f.nav
               /\ FinalizeAccepts(partial, w)
               /\ f.state = FinalState(p.out, w)
  BY DEF OutcomeInv, Completed
<1>3. partial.nullifier_accum = p.w.nullifier_accum
      /\ partial.nullifier_pk = p.prev.nullifier_pk
  BY <1>1 DEF Begun, InitOutput, PartialOutput
<1>4. p.w.nullifier_accum \in Seq(S) /\ f.nav \in Seq(S)
  BY <1>1 DEF Begun
<1>5. IsPrefix(p.w.nullifier_accum, f.nav)
  <2>1. VerifyIsPrefix({partial.nullifier_accum}, f.nav)
    BY <1>2 DEF FinalizeAccepts
  <2> QED
    BY <2>1, <1>3, <1>4 DEF SoundPrefix
<1>6. PICK i \in 1 .. Len(f.nav) : Element(partial, w) \in f.nav[i]
  BY <1>2, <1>4 DEF FinalizeAccepts, SoundMembership
<1>7. /\ Element(partial, w).nullifier_pk = p.prev.nullifier_pk
      /\ Element(partial, w).tx_comm = partial.tx_hash
  BY <1>3 DEF Element
<1> QED
  BY <1>1, <1>2, <1>5, <1>6, <1>7

\* A payment that took effect and one of the same transaction that was taken
\* as a no-op are of different chains.
LEMMA NoOpAgrees ==
  ASSUME SoundPrefix, SoundDistinct, NEW S, navs \subseteq Seq(S),
         NEW p, NEW q, Begun(p), Begun(q),
         p.w.conditional_nav = q.w.conditional_nav,
         NEW nav \in navs, IsPrefix(p.w.nullifier_accum, nav),
         IsPrefix(q.w.nullifier_accum, nav), NoOp(p.w)
  PROVE  NoOp(q.w)
<1> DEFINE c == p.w.conditional_nav
<1>1. /\ c \in Seq(S) /\ nav \in Seq(S)
      /\ p.w.nullifier_accum \in Seq(S) /\ q.w.nullifier_accum \in Seq(S)
  BY DEF Begun
<1>2. ~SameChain(c, p.w.nullifier_accum)
  BY <1>1 DEF NoOp, SoundDistinct
<1>3. SUFFICES ASSUME ~NoOp(q.w) PROVE FALSE
  OBVIOUS
<1>4. VerifyIsPrefix(BoundNavs(q.prev, q.spends, q.w), q.w.nullifier_accum)
  BY <1>3 DEF Begun
<1>5. c \in BoundNavs(q.prev, q.spends, q.w)
  BY DEF BoundNavs
<1>6. IsPrefix(c, q.w.nullifier_accum)
  BY <1>1, <1>4, <1>5 DEF SoundPrefix
<1>7. IsPrefix(c, nav)
  BY <1>1, <1>6, PrefixTransitive
<1>8. SameChain(c, p.w.nullifier_accum)
  BY <1>1, <1>7, PrefixesComparable
<1> QED
  BY <1>2, <1>8

\* The account state a transaction leads to, up to what it does not commit to.
LEMMA SameTransaction ==
  ASSUME NEW p, NEW q, Begun(p), Begun(q),
         p.out.partial_output.tx_hash = q.out.partial_output.tx_hash
  PROVE  /\ p.w.conditional_nav = q.w.conditional_nav
         /\ (NoOp(p.w) <=> NoOp(q.w)) => p.out.state = q.out.state
<1>1. Tx(p.prev, p.spends, p.w) = Tx(q.prev, q.spends, q.w)
  BY DEF Begun, InitOutput, PartialOutput
<1>2. /\ p.w.conditional_nav = q.w.conditional_nav
      /\ Essence(p.prev) = Essence(q.prev)
      /\ p.prev.id = q.prev.id
      /\ NewBalance(p.prev, p.spends, p.w) = NewBalance(q.prev, q.spends, q.w)
      /\ p.w.new_nullifier_pk = q.w.new_nullifier_pk
  <2> DEFINE a == Tx(p.prev, p.spends, p.w)
             b == Tx(q.prev, q.spends, q.w)
  <2>1. /\ a.conditional_nav = b.conditional_nav
        /\ a.prev_state = b.prev_state
        /\ a.new_state.id = b.new_state.id
        /\ a.new_state.balance = b.new_state.balance
        /\ a.new_state.nullifier_pk = b.new_state.nullifier_pk
    BY <1>1
  <2> QED
    BY <2>1 DEF Tx
<1>3. p.prev.balance = q.prev.balance
  BY <1>2 DEF Essence
<1>4. /\ p.out.state = [id           |-> p.prev.id,
                        balance      |-> OutputBalance(p.prev, p.spends, p.w),
                        nullifier_pk |-> p.w.new_nullifier_pk]
      /\ q.out.state = [id           |-> q.prev.id,
                        balance      |-> OutputBalance(q.prev, q.spends, q.w),
                        nullifier_pk |-> q.w.new_nullifier_pk]
  BY DEF Begun, InitOutput
<1>5. ASSUME NoOp(p.w) <=> NoOp(q.w)
      PROVE  OutputBalance(p.prev, p.spends, p.w)
               = OutputBalance(q.prev, q.spends, q.w)
  BY <1>2, <1>3, <1>5 DEF OutputBalance
<1> QED
  BY <1>2, <1>4, <1>5

\* OneOutcome for two payments of which the second was completed no earlier.
LEMMA OneOutcomeOrdered ==
  ASSUME SoundMembership, SoundPrefix, SoundDistinct, OutcomeInv,
         NEW f \in finalized, NEW g \in finalized,
         IsPrefix(f.nav, g.nav),
         f.payment.prev.nullifier_pk = g.payment.prev.nullifier_pk
  PROVE  /\ f.payment.out.partial_output.tx_hash
              = g.payment.out.partial_output.tx_hash
         /\ NoOp(f.payment.w) <=> NoOp(g.payment.w)
         /\ f.payment.out.state = g.payment.out.state
<1>1. PICK S : navs \subseteq Seq(S)
  BY DEF OutcomeInv, NavsInv
<1>2. /\ Begun(f.payment) /\ Begun(g.payment)
      /\ f.nav \in navs /\ g.nav \in navs
      /\ IsPrefix(f.payment.w.nullifier_accum, f.nav)
      /\ IsPrefix(g.payment.w.nullifier_accum, g.nav)
  BY <1>1, CompletedOnChain
<1>3. PICK i \in 1 .. Len(f.nav) : \E e \in f.nav[i] :
        /\ e.nullifier_pk = f.payment.prev.nullifier_pk
        /\ e.tx_comm = f.payment.out.partial_output.tx_hash
  BY <1>1, CompletedOnChain
<1>4. PICK j \in 1 .. Len(g.nav) : \E e \in g.nav[j] :
        /\ e.nullifier_pk = g.payment.prev.nullifier_pk
        /\ e.tx_comm = g.payment.out.partial_output.tx_hash
  BY <1>1, CompletedOnChain
<1>5. f.nav \in Seq(S) /\ g.nav \in Seq(S)
  BY <1>1, <1>2
<1>6. i \in 1 .. Len(g.nav) /\ f.nav[i] = g.nav[i]
  BY <1>5, PrefixPointwise
<1>7. PICK d \in g.nav[i], e \in g.nav[j] :
        /\ d.nullifier_pk = e.nullifier_pk
        /\ d.tx_comm = f.payment.out.partial_output.tx_hash
        /\ e.tx_comm = g.payment.out.partial_output.tx_hash
  BY <1>3, <1>4, <1>6
<1>8. f.payment.out.partial_output.tx_hash = g.payment.out.partial_output.tx_hash
  BY <1>2, <1>4, <1>6, <1>7 DEF OutcomeInv, NavsInv
<1>9. f.payment.w.conditional_nav = g.payment.w.conditional_nav
  BY <1>2, <1>8, SameTransaction
<1>10. IsPrefix(f.payment.w.nullifier_accum, g.nav)
  <2>1. f.payment.w.nullifier_accum \in Seq(S)
    BY <1>1, <1>2 DEF Begun
  <2> QED
    BY <1>2, <1>5, <2>1, PrefixTransitive
<1>11. NoOp(f.payment.w) <=> NoOp(g.payment.w)
  BY <1>1, <1>2, <1>9, <1>10, NoOpAgrees
<1> QED
  BY <1>2, <1>8, <1>11, SameTransaction

\* For every set of keys, coins, fees and lists of coins, every build, and
\* every tree of chains: with accumulators whose verifiers are right when they
\* say yes, one chain sees one outcome of an account state.
THEOREM OneOutcomeHolds ==
  ASSUME SoundMembership, SoundPrefix, SoundDistinct
  PROVE  Spec => []OneOutcome
<1>1. OutcomeInv => OneOutcome
  <2> SUFFICES ASSUME OutcomeInv, NEW f \in finalized, NEW g \in finalized,
                      SameChain(f.nav, g.nav),
                      f.payment.prev.nullifier_pk = g.payment.prev.nullifier_pk
               PROVE  /\ f.payment.out.partial_output.tx_hash
                           = g.payment.out.partial_output.tx_hash
                      /\ NoOp(f.payment.w) <=> NoOp(g.payment.w)
                      /\ Essence(f.state) = Essence(g.state)
    BY DEF OneOutcome
  <2>1. /\ f.payment.out.partial_output.tx_hash
             = g.payment.out.partial_output.tx_hash
        /\ NoOp(f.payment.w) <=> NoOp(g.payment.w)
        /\ f.payment.out.state = g.payment.out.state
    <3>1. CASE IsPrefix(f.nav, g.nav)
      BY <3>1, OneOutcomeOrdered
    <3>2. CASE IsPrefix(g.nav, f.nav)
      BY <3>2, OneOutcomeOrdered
    <3> QED
      BY <3>1, <3>2 DEF SameChain
  <2>2. PICK S : navs \subseteq Seq(S)
    BY DEF OutcomeInv, NavsInv
  <2>3. PICK v : f.state = FinalState(f.payment.out, v)
    BY <2>2, CompletedOnChain
  <2>4. PICK w : g.state = FinalState(g.payment.out, w)
    BY <2>2, CompletedOnChain
  <2>5. Essence(f.state) = Essence(g.state)
    BY <2>1, <2>3, <2>4 DEF FinalState, Essence
  <2> QED
    BY <2>1, <2>5
<1> QED
  BY <1>1, OutcomeInvHolds, PTL

-----------------------------------------------------------------------------
(* Types.                                                                  *)

\* Numbers listed add up to a number.
LEMMA SumOfNat ==
  ASSUME NEW n \in Nat, NEW list, DOMAIN list = 1 .. n,
         \A i \in 1 .. n : list[i].amount \in Nat
  PROVE  SumOf(list) \in Nat
<1> DEFINE f == [i \in DOMAIN list |-> list[i].amount]
<1>1. DOMAIN f = 1 .. n /\ \A i \in DOMAIN f : f[i] \in Nat
  OBVIOUS
<1>2. SumOf(list) = SumFunction(f)
  BY DEF SumOf
<1> HIDE DEF f
<1>3. IsFiniteSet(DOMAIN f)
  BY <1>1, FS_Interval
<1> QED
  BY <1>1, <1>2, <1>3, SumFunctionNat

\* What is left of a division.
LEMMA RemainderBelow ==
  ASSUME NEW a \in Nat
  PROVE  a % (MaxAmount + 1) \in Amount
BY AmountAssumption DEF Amount

\* PaymentTypeOK, and the coins an output promises.
PaymentTypeInv ==
  /\ PaymentTypeOK
  /\ \A out \in init_outputs : out.coin_essences \in Seq(CoinEssence)

\* The accounts payments start from.
AcctOk(s) == StateOk(s) /\ s.nullifier_accum \in navs

\* Whatever wraps, a payment that is accepted leaves an account with a balance
\* in its width.
LEMMA NewBalanceType ==
  ASSUME NEW prev, NEW n \in Nat, NEW spends \in [1 .. n -> coins],
         NEW w \in InitLocalInput(prev, spends),
         PaymentTypeOK, StateOk(prev), AmountsOk(prev, spends, w)
  PROVE  /\ SumOf(spends) \in Nat
         /\ SumOf(w.new_coins) \in Nat
         /\ w.fee \in Amount
         /\ Funds(prev, spends) \in Nat
         /\ NewBalance(prev, spends, w) \in Amount
<1>1. SumOf(spends) \in Nat
  <2>1. \A i \in 1 .. n : spends[i].amount \in Nat
    BY DEF PaymentTypeOK, Amount
  <2> QED
    BY <2>1, SumOfNat
<1>2. SumOf(w.new_coins) \in Nat
  <2>1. w.new_coins \in Seq(CoinEssence)
    BY NewCoinsAssumption DEF InitLocalInput
  <2>2. Len(w.new_coins) \in Nat /\ DOMAIN w.new_coins = 1 .. Len(w.new_coins)
    BY <2>1
  <2>3. \A i \in 1 .. Len(w.new_coins) : w.new_coins[i] \in CoinEssence
    BY <2>1
  <2>4. \A i \in 1 .. Len(w.new_coins) : w.new_coins[i].amount \in Nat
    BY <2>3, AmountAssumption DEF CoinEssence, Amount
  <2> QED
    BY <2>2, <2>4, SumOfNat
<1>3. w.fee \in Amount
  BY AmountAssumption DEF InitLocalInput
<1>4. Funds(prev, spends) \in Nat
  BY <1>1 DEF Funds, StateOk, Amount
<1>5. Funds(prev, spends) % (MaxAmount + 1) \in Amount
  BY <1>4, RemainderBelow
<1>6. CoinsSum(w) >= 0 /\ CoinsSum(w) \in Int /\ NewBalance(prev, spends, w) >= 0
  BY <1>2, <1>3 DEF AmountsOk, CoinsSum, Amount
<1>7. NewBalance(prev, spends, w) \in Amount
  BY <1>5, <1>6, AmountAssumption DEF NewBalance, Amount
<1> QED
  BY <1>1, <1>2, <1>3, <1>4, <1>7

\* What payment_init makes of an account has the types it should.
LEMMA CertifyKeepsTypes ==
  ASSUME PaymentTypeInv, NEW prev, AcctOk(prev), NEW spends \in Spends,
         NEW w \in InitLocalInput(prev, spends),
         CertifyPayInit(prev, spends, w)
  PROVE  PaymentTypeInv'
<1> DEFINE out == InitOutput(prev, spends, w)
           fee_out == InitOutputFee(prev, spends, w)
<1>1. PICK n \in Nat : spends \in [1 .. n -> coins]
  BY PaymentBoundAssumption DEF Spends
<1>2. /\ w.fee \in Amount
      /\ NewBalance(prev, spends, w) \in Amount
  BY <1>1, NewBalanceType
     DEF CertifyPayInit, InitAccepts, PaymentTypeInv, AcctOk
<1>3. /\ init_outputs' = init_outputs \cup {out}
      /\ fee_outputs' = fee_outputs \cup {fee_out}
      /\ UNCHANGED <<acct_states, coins, navs>>
  BY DEF CertifyPayInit
<1>4. /\ w.new_nullifier_pk \in Key /\ w.nullifier_accum \in navs
      /\ w.new_coins \in Seq(CoinEssence)
  BY NewCoinsAssumption DEF InitLocalInput
<1>5. StateOk(out.state)
  BY <1>2, <1>4 DEF InitOutput, OutputBalance, StateOk, AcctOk
<1>6. fee_out.fee \in Amount
  BY <1>2, AmountAssumption DEF InitOutputFee, Amount
<1>7. /\ out.partial_output.nullifier_accum \in navs
      /\ fee_out.partial_output.nullifier_accum \in navs
  BY <1>4 DEF InitOutput, InitOutputFee, PartialOutput
<1>8. out.coin_essences \in Seq(CoinEssence)
  <2>1. CASE NoOp(w)
    BY <2>1 DEF InitOutput
  <2>2. CASE ~NoOp(w)
    <3>1. w.new_coins # << >> /\ out.coin_essences = Tail(w.new_coins)
      BY <2>2 DEF InitOutput, CertifyPayInit, InitAccepts
    <3> QED
      BY <1>4, <3>1
  <2> QED
    BY <2>1, <2>2
<1> HIDE DEF out, fee_out
<1>9. /\ \A o \in init_outputs' : /\ StateOk(o.state)
                                  /\ o.coin_essences \in Seq(CoinEssence)
      /\ \A o \in fee_outputs' : o.fee \in Amount
      /\ \A o \in init_outputs' \cup fee_outputs' :
           o.partial_output.nullifier_accum \in navs
  BY <1>3, <1>5, <1>6, <1>7, <1>8 DEF PaymentTypeInv, PaymentTypeOK
<1> QED
  BY <1>3, <1>9 DEF PaymentTypeInv, PaymentTypeOK

\* What payment_finalize makes of an output has the types it should.
LEMMA FinalizeKeepsTypes ==
  ASSUME PaymentTypeInv, NEW out \in init_outputs, NEW w \in FinalizeLocalInput,
         PayFinalize(out, w)
  PROVE  PaymentTypeInv'
<1> DEFINE new == { FinalCoin(out.coin_essences[i], out.partial_output, w) :
                      i \in DOMAIN out.coin_essences }
<1>1. /\ acct_states' = acct_states \cup {FinalState(out, w)}
      /\ coins' = coins \cup new
      /\ UNCHANGED <<init_outputs, fee_outputs, navs>>
  BY DEF PayFinalize
<1>2. StateOk(out.state) /\ out.coin_essences \in Seq(CoinEssence)
  BY DEF PaymentTypeInv, PaymentTypeOK
<1>3. w.nullifier_accum \in navs
  BY DEF FinalizeLocalInput
<1>4. /\ StateOk(FinalState(out, w))
      /\ FinalState(out, w).nullifier_accum \in navs
  BY <1>2, <1>3 DEF FinalState, StateOk
<1>5. \A c \in new : /\ c.address \in Key /\ c.amount \in Amount
                     /\ c.idx \in Index /\ c.nullifier_accum \in navs
  <2> SUFFICES ASSUME NEW i \in DOMAIN out.coin_essences,
                      NEW c, c = FinalCoin(out.coin_essences[i],
                                           out.partial_output, w)
               PROVE  /\ c.address \in Key /\ c.amount \in Amount
                      /\ c.idx \in Index /\ c.nullifier_accum \in navs
    OBVIOUS
  <2>1. out.coin_essences[i] \in CoinEssence
    BY <1>2
  <2> QED
    BY <1>3, <2>1 DEF FinalCoin, CoinEssence
<1> HIDE DEF new
<1> QED
  BY <1>1, <1>4, <1>5 DEF PaymentTypeInv, PaymentTypeOK

\* So has the publisher's coin.
LEMMA FinalizeFeeKeepsTypes ==
  ASSUME PaymentTypeInv, NEW out \in fee_outputs, NEW w \in FinalizeLocalInput,
         PayFinalizeFee(out, w)
  PROVE  PaymentTypeInv'
<1> DEFINE c == FinalCoin(FeeEssence(out, w), out.partial_output, w)
<1>1. /\ coins' = coins \cup {c}
      /\ UNCHANGED <<acct_states, init_outputs, fee_outputs, navs>>
  BY DEF PayFinalizeFee
<1>2. out.fee \in Amount
  BY DEF PaymentTypeInv, PaymentTypeOK
<1>3. /\ c.address \in Key /\ c.amount \in Amount
      /\ c.idx \in Index /\ c.nullifier_accum \in navs
  BY <1>2, IndexAssumption DEF FinalizeLocalInput, FinalCoin, FeeEssence
<1> HIDE DEF c
<1> QED
  BY <1>1, <1>3 DEF PaymentTypeInv, PaymentTypeOK

\* Every reachable state is well typed, payments and fees included.
LEMMA PaymentTypeInvHolds == Spec => []PaymentTypeInv
<1>1. Init => PaymentTypeInv
  BY OldCoinAssumption DEF Init, PaymentTypeInv, PaymentTypeOK
<1>2. PaymentTypeInv /\ [Next]_vars => PaymentTypeInv'
  <2> SUFFICES ASSUME PaymentTypeInv, [Next]_vars
               PROVE  PaymentTypeInv'
    OBVIOUS
  <2>1. CASE \E spends \in Spends : PayInit(spends)
    <3>1. \A prev \in acct_states : AcctOk(prev)
      BY DEF PaymentTypeInv, PaymentTypeOK, AcctOk
    <3> QED
      BY <2>1, <3>1, CertifyKeepsTypes DEF PayInit
  <2>2. CASE \E spends \in Spends : PayInitNewAcct(spends)
    <3>1. \A id \in Key, nav \in navs : AcctOk(NewAcct(id, nav))
      BY AmountAssumption DEF NewAcct, AcctOk, StateOk, Amount
    <3> QED
      BY <2>2, <3>1, CertifyKeepsTypes DEF PayInitNewAcct
  <2>3. CASE \E out \in init_outputs, w \in FinalizeLocalInput :
               PayFinalize(out, w)
    BY <2>3, FinalizeKeepsTypes
  <2>4. CASE \E out \in fee_outputs, w \in FinalizeLocalInput :
               PayFinalizeFee(out, w)
    BY <2>4, FinalizeFeeKeepsTypes
  <2>5. CASE \E nav \in navs, block \in SUBSET Publications : AppendSet(nav, block)
    <3>1. /\ navs \subseteq navs'
          /\ UNCHANGED <<acct_states, coins, init_outputs, fee_outputs>>
      BY <2>5 DEF AppendSet
    <3> QED
      BY <3>1 DEF PaymentTypeInv, PaymentTypeOK
  <2>6. CASE UNCHANGED vars
    BY <2>6 DEF vars, PaymentTypeInv, PaymentTypeOK
  <2> QED
    BY <2>1, <2>2, <2>3, <2>4, <2>5, <2>6 DEF Next
<1> QED
  BY <1>1, <1>2, PTL DEF Spec

\* Whether or not the build checks for overflow, whatever the accumulators
\* answer, the amounts of everything that has a proof keep their width and its
\* NAV is one of the tree.
THEOREM PaymentTypeHolds == Spec => []PaymentTypeOK
BY PaymentTypeInvHolds, PTL DEF PaymentTypeInv
=============================================================================
