--------------------------- MODULE PublisherProofs ---------------------------
(***************************************************************************)
(* Proofs about Publisher, for every set of publishers, keys and blocks,   *)
(* every floor and every verdict on the aggregates.                        *)
(***************************************************************************)
EXTENDS Publisher, MixerNodeProofs

-----------------------------------------------------------------------------
(* Publishers reach the node through blocks only.                          *)

\* A step of publishers or chain is one of the node, or leaves it alone.
LEMMA PublisherStepOfNode ==
  ASSUME [Next]_vars
  PROVE  NodeNext \/ UNCHANGED nodeVars
<1>1. ASSUME NEW p \in Operator, NEW n \in Nullifier, SubmitNullifier(p, n)
      PROVE  UNCHANGED nodeVars
  BY <1>1 DEF SubmitNullifier
<1>2. ASSUME NEW p \in Operator, BuildAggregateNullifier(p) \/ ClearPending(p)
      PROVE  UNCHANGED nodeVars
  BY <1>2 DEF BuildAggregateNullifier, ClearPending
<1>3. ASSUME NEW b \in MinableBlocks, Mine(b)
      PROVE  NodeNext
  BY <1>3 DEF Mine, MinableBlocks, NodeNext
<1>4. ASSUME NEW n \in 0 .. Len(board), Reorg(n)
      PROVE  NodeNext
  BY <1>4 DEF Reorg, NodeNext
<1>5. CASE UNCHANGED vars
  BY <1>5 DEF vars
<1> QED
  BY <1>1, <1>2, <1>3, <1>4, <1>5 DEF Next

\* What is proved of the node holds of it among publishers: a behaviour of
\* the composition is one of the node.
THEOREM PublisherImplementsNode == Spec => NodeSpec
<1>1. Init => NodeInit
  BY DEF Init
<1>2. [Next]_vars => [NodeNext]_nodeVars
  BY PublisherStepOfNode
<1> QED
  BY <1>1, <1>2, PTL DEF Spec, NodeSpec

-----------------------------------------------------------------------------
(* Where things come from: what is pending was submitted, what was built   *)
(* was pending, what is in the store was built.                            *)

PendingSubmitted ==
  \A p \in Operator : \A i \in DOMAIN pending[p] :
    [publisher |-> p, nullifier |-> pending[p][i]] \in submitted

SubmittedAtFloor ==
  \A s \in submitted : s.nullifier.fee >= PublisherFee[s.publisher]

\* A submission to p that can have put pk into an aggregate.
Source(s, p, pk) == s.publisher = p /\ s.nullifier.nullifier_pk = pk

AggregateSourced(agg) ==
  \E p \in Operator :
    /\ agg.fee_acct_comm = FeeAddress[p]
    /\ \A j \in DOMAIN agg.pks : \E s \in submitted : Source(s, p, agg.pks[j])

HoldsFrom(agg, pk) == \E j \in DOMAIN agg.pks : agg.pks[j] = pk

StoreBuilt ==
  \A pk \in DOMAIN nullifier_kv :
    \E agg \in aggregates : /\ nullifier_kv[pk].fee_acct_comm = agg.fee_acct_comm
                            /\ HoldsFrom(agg, pk)

\* What counts as built is in an aggregate that pays the publisher.
InAggregateOf(p, pk) ==
  \E agg \in aggregates : agg.fee_acct_comm = FeeAddress[p] /\ HoldsFrom(agg, pk)

BuiltAggregated ==
  \A p \in Operator : \A i \in 1 .. built[p] :
    InAggregateOf(p, pending[p][i].nullifier_pk)

Kept ==
  \A s \in submitted :
    \/ s.publisher \in overtaken
    \/ \E j \in DOMAIN pending[s.publisher] :
         pending[s.publisher][j].nullifier_pk = s.nullifier.nullifier_pk
    \/ InAggregateOf(s.publisher, s.nullifier.nullifier_pk)

PublisherInv ==
  /\ PublisherTypeOK
  /\ PendingSubmitted
  /\ SubmittedAtFloor
  /\ \A agg \in aggregates : AggregateSourced(agg)
  /\ StoreBuilt
  /\ BuiltAggregated
  /\ Kept

\* The publishers start inside the invariant.
LEMMA PublisherInvInit == Init => PublisherInv
<1> SUFFICES ASSUME Init PROVE PublisherInv
  OBVIOUS
<1>1. NodeTypeOK /\ DOMAIN nullifier_kv = {}
  BY NodeTypeInit DEF Init, NodeInit
<1>2. /\ pending = [p \in Operator |-> << >>] /\ aggregates = {}
      /\ submitted = {} /\ built = [p \in Operator |-> 0] /\ overtaken = {}
  BY DEF Init, PublisherInit
<1>3. \A p \in Operator : pending[p] = << >> /\ built[p] = 0
  BY <1>2
<1>4. PublisherTypeOK
  BY <1>1, <1>2, <1>3 DEF PublisherTypeOK
<1>5. PendingSubmitted /\ BuiltAggregated
  BY <1>3 DEF PendingSubmitted, BuiltAggregated
<1> QED
  BY <1>1, <1>2, <1>4, <1>5
     DEF PublisherInv, SubmittedAtFloor, StoreBuilt, Kept

\* Facts about the pending list of one publisher.
LEMMA PendingTypes ==
  ASSUME PublisherTypeOK, NEW p \in Operator
  PROVE  /\ pending[p] \in Seq(Nullifier)
         /\ Len(pending[p]) \in Nat
         /\ DOMAIN pending[p] = 1 .. Len(pending[p])
         /\ \A i \in DOMAIN pending[p] :
              /\ pending[p][i] \in Nullifier
              /\ pending[p][i].nullifier_pk \in PublicKey
<1>1. pending[p] \in Seq(Nullifier)
  BY DEF PublisherTypeOK
<1>2. \A i \in DOMAIN pending[p] : pending[p][i] \in Nullifier
  BY <1>1
<1> QED
  BY <1>1, <1>2, FeeAssumption DEF PendingNullifier

\* A nullifier submitted keeps it,
LEMMA SubmitPreserves ==
  ASSUME PublisherInv, NEW p \in Operator, NEW n \in Nullifier,
         SubmitNullifier(p, n)
  PROVE  PublisherInv'
<1> DEFINE s0 == [publisher |-> p, nullifier |-> n]
<1>1. /\ pending' = [pending EXCEPT ![p] = Append(pending[p], n)]
      /\ submitted' = submitted \cup {s0}
      /\ n.fee >= PublisherFee[p]
      /\ UNCHANGED <<nodeVars, aggregates, built, overtaken>>
  BY DEF SubmitNullifier, AcceptsFee
<1>2. PublisherTypeOK /\ pending \in [Operator -> Seq(Nullifier)]
  BY DEF PublisherInv, PublisherTypeOK
<1>3. /\ DOMAIN pending'[p] = 1 .. Len(pending[p]) + 1
      /\ Len(pending'[p]) = Len(pending[p]) + 1
      /\ pending'[p] \in Seq(Nullifier)
      /\ pending'[p][Len(pending[p]) + 1] = n
      /\ \A i \in DOMAIN pending[p] : pending'[p][i] = pending[p][i]
  BY <1>1, <1>2, PendingTypes
<1>4. /\ pending' \in [Operator -> Seq(Nullifier)]
      /\ \A q \in Operator : q # p => pending'[q] = pending[q]
  BY <1>1, <1>2, <1>3
<1>5. PublisherTypeOK'
  <2>1. s0 \in Submission
    BY DEF Submission
  <2>2. NodeTypeOK'
    BY <1>1, <1>2 DEF PublisherTypeOK, NodeTypeOK, nodeVars
  <2>3. \A q \in Operator : built'[q] <= Len(pending'[q])
    <3>1. ASSUME NEW q \in Operator
          PROVE  built'[q] <= Len(pending'[q])
      <4>1. built'[q] \in Nat /\ Len(pending[q]) \in Nat
            /\ built'[q] <= Len(pending[q])
        BY <1>1, <1>2, PendingTypes DEF PublisherTypeOK
      <4> QED
        BY <1>3, <1>4, <4>1
    <3> QED
      BY <3>1
  <2> QED
    BY <1>1, <1>2, <1>4, <2>1, <2>2, <2>3 DEF PublisherTypeOK
<1>6. PendingSubmitted'
  <2> SUFFICES ASSUME NEW q \in Operator, NEW i \in DOMAIN pending'[q]
               PROVE  [publisher |-> q, nullifier |-> pending'[q][i]] \in submitted'
    BY DEF PendingSubmitted
  <2>1. CASE q = p /\ i = Len(pending[p]) + 1
    BY <1>1, <1>3, <2>1
  <2>2. CASE q = p /\ i \in DOMAIN pending[p]
    BY <1>1, <1>3, <2>2 DEF PublisherInv, PendingSubmitted
  <2>3. CASE q # p
    BY <1>1, <1>4, <2>3 DEF PublisherInv, PendingSubmitted
  <2> QED
    BY <1>2, <1>3, <2>1, <2>2, <2>3, PendingTypes
<1>7. SubmittedAtFloor'
  BY <1>1 DEF PublisherInv, SubmittedAtFloor
<1>8. \A agg \in aggregates' : AggregateSourced(agg)'
  BY <1>1 DEF PublisherInv, AggregateSourced, Source
<1>9. StoreBuilt'
  BY <1>1 DEF PublisherInv, StoreBuilt, nodeVars
<1>10. BuiltAggregated'
  <2> SUFFICES ASSUME NEW q \in Operator, NEW i \in 1 .. built[q]
               PROVE  InAggregateOf(q, pending'[q][i].nullifier_pk)
    BY <1>1 DEF BuiltAggregated, InAggregateOf
  <2>1. i \in DOMAIN pending[q]
    BY <1>2, PendingTypes DEF PublisherTypeOK
  <2>2. pending'[q][i] = pending[q][i]
    BY <1>3, <1>4, <2>1
  <2> QED
    BY <2>2 DEF PublisherInv, BuiltAggregated
<1>11. Kept'
  <2> SUFFICES ASSUME NEW s \in submitted'
               PROVE  \/ s.publisher \in overtaken
                      \/ \E j \in DOMAIN pending'[s.publisher] :
                           pending'[s.publisher][j].nullifier_pk
                             = s.nullifier.nullifier_pk
                      \/ InAggregateOf(s.publisher, s.nullifier.nullifier_pk)
    BY <1>1 DEF Kept, InAggregateOf
  <2>1. CASE s = s0
    <3>1. Len(pending[p]) + 1 \in DOMAIN pending'[p]
      BY <1>2, <1>3, PendingTypes
    <3> QED
      BY <1>3, <2>1, <3>1
  <2>2. CASE s \in submitted
    <3>1. s.publisher \in Operator
      BY <1>2, <2>2 DEF PublisherTypeOK, Submission
    <3>2. \A j \in DOMAIN pending[s.publisher] :
            /\ j \in DOMAIN pending'[s.publisher]
            /\ pending'[s.publisher][j] = pending[s.publisher][j]
      <4>1. CASE s.publisher = p
        BY <1>2, <1>3, <4>1, PendingTypes
      <4>2. CASE s.publisher # p
        BY <1>4, <3>1, <4>2
      <4> QED
        BY <4>1, <4>2
    <3> QED
      BY <2>2, <3>2 DEF PublisherInv, Kept
  <2> QED
    BY <1>1, <2>1, <2>2
<1> QED
  BY <1>5, <1>6, <1>7, <1>8, <1>9, <1>10, <1>11 DEF PublisherInv

\* an aggregate built does,
LEMMA BuildPreserves ==
  ASSUME PublisherInv, NEW p \in Operator, BuildAggregateNullifier(p)
  PROVE  PublisherInv'
<1> DEFINE a == AggregateNullifierOf(p)
<1>1. /\ aggregates' = aggregates \cup {a}
      /\ built' = [built EXCEPT ![p] = Len(pending[p])]
      /\ UNCHANGED <<nodeVars, pending, submitted, overtaken>>
  BY DEF BuildAggregateNullifier
<1>2. PublisherTypeOK
  BY DEF PublisherInv
<1>3. /\ a.fee_acct_comm = FeeAddress[p]
      /\ a.sig = Aggregate(pending[p])
      /\ DOMAIN a.pks = DOMAIN pending[p]
      /\ \A i \in DOMAIN pending[p] : a.pks[i] = pending[p][i].nullifier_pk
  BY DEF AggregateNullifierOf
<1>4. a \in AggregateNullifier
  <2>1. a.pks \in Seq(PublicKey)
    BY <1>2, PendingTypes DEF AggregateNullifierOf
  <2>2. a.sig \in Signature /\ a.fee_acct_comm \in Commitment
    BY <1>3, AggregateAssumption, FeeAssumption DEF Aggregate
  <2>3. a = [pks |-> a.pks, sig |-> a.sig, fee_acct_comm |-> a.fee_acct_comm]
    BY DEF AggregateNullifierOf
  <2> QED
    BY <2>1, <2>2, <2>3 DEF AggregateNullifier
<1>5. AggregateSourced(a)
  <2>1. ASSUME NEW j \in DOMAIN a.pks
        PROVE  \E s \in submitted : Source(s, p, a.pks[j])
    <3> DEFINE s == [publisher |-> p, nullifier |-> pending[p][j]]
    <3>1. s \in submitted
      BY <1>3 DEF PublisherInv, PendingSubmitted
    <3>2. s.publisher = p /\ s.nullifier.nullifier_pk = a.pks[j]
      BY <1>3
    <3> HIDE DEF s, a
    <3> QED
      BY <3>1, <3>2 DEF Source
  <2> QED
    BY <1>3, <2>1 DEF AggregateSourced
<1> HIDE DEF a
<1>6. PublisherTypeOK'
  <2>1. NodeTypeOK'
    BY <1>1, <1>2 DEF PublisherTypeOK, NodeTypeOK, nodeVars
  <2>2. built' \in [Operator -> Nat]
        /\ \A q \in Operator : built'[q] <= Len(pending[q])
    BY <1>1, <1>2, PendingTypes DEF PublisherTypeOK
  <2> QED
    BY <1>1, <1>2, <1>4, <2>1, <2>2 DEF PublisherTypeOK
<1>7. PendingSubmitted' /\ SubmittedAtFloor'
  BY <1>1 DEF PublisherInv, PendingSubmitted, SubmittedAtFloor
<1>8. \A agg \in aggregates' : AggregateSourced(agg)'
  BY <1>1, <1>5 DEF PublisherInv, AggregateSourced, Source
<1>9. StoreBuilt'
  BY <1>1 DEF PublisherInv, StoreBuilt, nodeVars
<1>10. \A q \in Operator, pk \in PublicKey :
         InAggregateOf(q, pk) => InAggregateOf(q, pk)'
  BY <1>1 DEF InAggregateOf, HoldsFrom
<1>11. BuiltAggregated'
  <2> SUFFICES ASSUME NEW q \in Operator, NEW i \in 1 .. built'[q]
               PROVE  InAggregateOf(q, pending[q][i].nullifier_pk)'
    BY <1>1 DEF BuiltAggregated
  <2>1. CASE q = p
    <3>1. i \in DOMAIN pending[p]
      BY <1>1, <1>2, <2>1, PendingTypes DEF PublisherTypeOK
    <3>2. a \in aggregates' /\ HoldsFrom(a, pending[p][i].nullifier_pk)
      BY <1>1, <1>3, <3>1 DEF HoldsFrom
    <3> QED
      BY <1>1, <1>3, <2>1, <3>2 DEF InAggregateOf
  <2>2. CASE q # p
    <3>1. i \in 1 .. built[q] /\ i \in DOMAIN pending[q]
      BY <1>1, <1>2, <2>2, PendingTypes DEF PublisherTypeOK
    <3>2. InAggregateOf(q, pending[q][i].nullifier_pk)
      BY <3>1 DEF PublisherInv, BuiltAggregated
    <3> QED
      BY <1>1, <3>2 DEF InAggregateOf
  <2> QED
    BY <2>1, <2>2
<1>12. Kept'
  BY <1>1, <1>10, <1>2, FeeAssumption
     DEF PublisherInv, Kept, PublisherTypeOK, Submission, PendingNullifier
<1> QED
  BY <1>6, <1>7, <1>8, <1>9, <1>11, <1>12 DEF PublisherInv

\* and so does clearing the pending list.
LEMMA ClearPreserves ==
  ASSUME PublisherInv, NEW p \in Operator, ClearPending(p)
  PROVE  PublisherInv'
<1>1. /\ pending' = [pending EXCEPT ![p] = << >>]
      /\ built' = [built EXCEPT ![p] = 0]
      /\ overtaken \subseteq overtaken'
      /\ overtaken' \subseteq overtaken \cup {p}
      /\ built[p] < Len(pending[p]) => p \in overtaken'
      /\ UNCHANGED <<nodeVars, aggregates, submitted>>
  BY DEF ClearPending
<1>2. PublisherTypeOK /\ pending \in [Operator -> Seq(Nullifier)]
  BY DEF PublisherInv, PublisherTypeOK
<1>3. /\ pending'[p] = << >> /\ built'[p] = 0
      /\ \A q \in Operator : q # p => /\ pending'[q] = pending[q]
                                       /\ built'[q] = built[q]
  BY <1>1, <1>2 DEF PublisherTypeOK
<1>4. PublisherTypeOK'
  <2>1. NodeTypeOK'
    BY <1>1, <1>2 DEF PublisherTypeOK, NodeTypeOK, nodeVars
  <2>2. /\ pending' \in [Operator -> Seq(Nullifier)]
        /\ built' \in [Operator -> Nat]
        /\ \A q \in Operator : built'[q] <= Len(pending'[q])
    BY <1>1, <1>2, <1>3 DEF PublisherTypeOK
  <2> QED
    BY <1>1, <1>2, <2>1, <2>2 DEF PublisherTypeOK
<1>5. PendingSubmitted'
  BY <1>1, <1>3 DEF PublisherInv, PendingSubmitted
<1>6. /\ SubmittedAtFloor'
      /\ \A agg \in aggregates' : AggregateSourced(agg)'
  BY <1>1 DEF PublisherInv, SubmittedAtFloor, AggregateSourced, Source
<1>7. StoreBuilt'
  BY <1>1 DEF PublisherInv, StoreBuilt, nodeVars
<1>8. BuiltAggregated'
  BY <1>1, <1>3 DEF PublisherInv, BuiltAggregated, InAggregateOf
<1>9. Kept'
  <2> SUFFICES ASSUME NEW s \in submitted
               PROVE  \/ s.publisher \in overtaken'
                      \/ \E j \in DOMAIN pending'[s.publisher] :
                           pending'[s.publisher][j].nullifier_pk
                             = s.nullifier.nullifier_pk
                      \/ InAggregateOf(s.publisher, s.nullifier.nullifier_pk)
    BY <1>1 DEF Kept, InAggregateOf
  <2>1. s.publisher \in Operator
    BY <1>2 DEF PublisherTypeOK, Submission
  <2>2. \/ s.publisher \in overtaken
        \/ \E j \in DOMAIN pending[s.publisher] :
             pending[s.publisher][j].nullifier_pk = s.nullifier.nullifier_pk
        \/ InAggregateOf(s.publisher, s.nullifier.nullifier_pk)
    BY DEF PublisherInv, Kept
  <2>3. CASE s.publisher # p
    BY <1>1, <1>3, <2>1, <2>2, <2>3
  <2>4. CASE s.publisher = p /\ built[p] < Len(pending[p])
    BY <1>1, <2>4
  <2>5. CASE s.publisher = p /\ ~(built[p] < Len(pending[p]))
    <3>1. 1 .. built[p] = DOMAIN pending[p]
      BY <1>2, <2>5, PendingTypes DEF PublisherTypeOK
    <3>2. \A j \in DOMAIN pending[p] : InAggregateOf(p, pending[p][j].nullifier_pk)
      BY <3>1 DEF PublisherInv, BuiltAggregated
    <3> QED
      BY <1>1, <2>2, <2>5, <3>2
  <2> QED
    BY <2>3, <2>4, <2>5
<1> QED
  BY <1>4, <1>5, <1>6, <1>7, <1>8, <1>9 DEF PublisherInv

\* The node's steps touch the store only, and a block brings into it only
\* what verified aggregates of the block contain.
LEMMA NodeStepPreserves ==
  ASSUME PublisherInv, UNCHANGED publisherVars,
         \/ \E b \in MinableBlocks : ProcessBlock(b)
         \/ \E n \in 0 .. Len(board) : HandleReorg(n) \/ HandleReorgTooDeep(n)
  PROVE  PublisherInv'
<1>1. UNCHANGED <<pending, aggregates, submitted, built, overtaken>>
  BY DEF publisherVars
<1>2. NodeTypeOK /\ PublisherTypeOK
  BY DEF PublisherInv, PublisherTypeOK
<1>3. NodeTypeOK'
  BY <1>2, NodeTypeStep DEF NodeNext, MinableBlocks
<1>4. PublisherTypeOK'
  BY <1>1, <1>2, <1>3 DEF PublisherTypeOK
<1>5. PendingSubmitted' /\ SubmittedAtFloor' /\ BuiltAggregated' /\ Kept'
  BY <1>1 DEF PublisherInv, PendingSubmitted, SubmittedAtFloor,
              BuiltAggregated, InAggregateOf, Kept
<1>6. \A agg \in aggregates' : AggregateSourced(agg)'
  BY <1>1 DEF PublisherInv, AggregateSourced, Source
<1>7. StoreBuilt'
  <2>1. ASSUME NEW b \in MinableBlocks, RecordBlock(b)
        PROVE  StoreBuilt'
    <3>1. b \in Block /\ \A i \in DOMAIN b : b[i] \in aggregates
      BY DEF MinableBlocks
    <3>2. /\ DOMAIN nullifier_kv' = DOMAIN nullifier_kv \cup NewKeys(nullifier_kv, b)
          /\ \A pk \in DOMAIN nullifier_kv : nullifier_kv'[pk] = nullifier_kv[pk]
          /\ \A pk \in NewKeys(nullifier_kv, b) :
               nullifier_kv'[pk].fee_acct_comm
                 = b[FirstPosition(b, pk)[1]].fee_acct_comm
      BY <1>2, <2>1, <3>1, RecordBlockEffect
    <3>3. ASSUME NEW pk \in NewKeys(nullifier_kv, b)
          PROVE  \E agg \in aggregates :
                   /\ nullifier_kv'[pk].fee_acct_comm = agg.fee_acct_comm
                   /\ HoldsFrom(agg, pk)
      <4>1. PICK p0 \in Publications(b) : pk = PkAt(b, p0)
        BY DEF NewKeys
      <4> DEFINE p == FirstPosition(b, pk)
      <4>2. p \in Publications(b) /\ PkAt(b, p) = pk
        BY <3>1, <4>1, FirstPositionExists
      <4>3. PICK i \in DOMAIN b : \E j \in DOMAIN b[i].pks : p = <<i, j>>
        BY <3>1, <4>2, PublicationPositions
      <4>4. p[1] = i /\ HoldsFrom(b[i], pk)
        BY <4>2, <4>3 DEF PkAt, HoldsFrom
      <4>5. nullifier_kv'[pk].fee_acct_comm = b[i].fee_acct_comm
        BY <3>2, <4>4
      <4> QED
        BY <3>1, <4>3, <4>4, <4>5
    <3> QED
      BY <1>1, <3>2, <3>3 DEF PublisherInv, StoreBuilt, HoldsFrom
  <2>2. CASE nullifier_kv' = nullifier_kv
    BY <1>1, <2>2 DEF PublisherInv, StoreBuilt
  <2> QED
    BY <2>1, <2>2 DEF ProcessBlock, DigestPanics, HandleReorg, HandleReorgTooDeep
<1> QED
  BY <1>4, <1>5, <1>6, <1>7 DEF PublisherInv

\* So every reachable state is inside it.
LEMMA PublisherInvHolds == Spec => []PublisherInv
<1>1. PublisherInv /\ [Next]_vars => PublisherInv'
  <2> SUFFICES ASSUME PublisherInv, [Next]_vars
               PROVE  PublisherInv'
    OBVIOUS
  <2>1. ASSUME NEW p \in Operator, NEW n \in Nullifier, SubmitNullifier(p, n)
        PROVE  PublisherInv'
    BY <2>1, SubmitPreserves
  <2>2. ASSUME NEW p \in Operator, BuildAggregateNullifier(p)
        PROVE  PublisherInv'
    BY <2>2, BuildPreserves
  <2>3. ASSUME NEW p \in Operator, ClearPending(p)
        PROVE  PublisherInv'
    BY <2>3, ClearPreserves
  <2>4. ASSUME NEW b \in MinableBlocks, Mine(b)
        PROVE  PublisherInv'
    BY <2>4, NodeStepPreserves DEF Mine
  <2>5. ASSUME NEW n \in 0 .. Len(board), Reorg(n)
        PROVE  PublisherInv'
    <3>1. HandleReorg(n) \/ HandleReorgTooDeep(n)
      BY <2>5 DEF Reorg
    <3> QED
      BY <2>5, <3>1, NodeStepPreserves DEF Reorg
  <2>6. CASE UNCHANGED vars
    <3>1. UNCHANGED <<nodeVars, pending, aggregates, submitted, built, overtaken>>
      BY <2>6 DEF vars, publisherVars
    <3>2. PublisherTypeOK'
      BY <3>1 DEF PublisherInv, PublisherTypeOK, NodeTypeOK, nodeVars
    <3>3. PendingSubmitted' /\ SubmittedAtFloor' /\ BuiltAggregated' /\ Kept'
      BY <3>1 DEF PublisherInv, PendingSubmitted, SubmittedAtFloor,
                  BuiltAggregated, InAggregateOf, Kept
    <3>4. (\A agg \in aggregates : AggregateSourced(agg))'
      BY <3>1 DEF PublisherInv, AggregateSourced, Source
    <3>5. StoreBuilt'
      BY <3>1 DEF PublisherInv, StoreBuilt, nodeVars
    <3> QED
      BY <3>2, <3>3, <3>4, <3>5 DEF PublisherInv
  <2> QED
    BY <2>1, <2>2, <2>3, <2>4, <2>5, <2>6 DEF Next
<1> QED
  BY <1>1, PublisherInvInit, PTL DEF Spec

-----------------------------------------------------------------------------
\* Every reachable state of publishers and node is well typed.
THEOREM PublisherTypeCorrect == Spec => []PublisherTypeOK
<1>1. PublisherInv => PublisherTypeOK
  BY DEF PublisherInv
<1> QED
  BY <1>1, PublisherInvHolds, PTL

\* A publisher is credited only with keys submitted to it, or to one with
\* the same address, at or above the floor (submit_nullifier).
THEOREM FeeFloorKeptHolds == Spec => []FeeFloorKept
<1>1. PublisherInv => FeeFloorKept
  <2> SUFFICES ASSUME PublisherInv, NEW pk \in DOMAIN nullifier_kv
               PROVE  \E s \in submitted :
                        /\ s.nullifier.nullifier_pk = pk
                        /\ s.nullifier.fee >= PublisherFee[s.publisher]
                        /\ nullifier_kv[pk].fee_acct_comm = FeeAddress[s.publisher]
    BY DEF FeeFloorKept
  <2>1. PICK agg \in aggregates :
          /\ nullifier_kv[pk].fee_acct_comm = agg.fee_acct_comm
          /\ HoldsFrom(agg, pk)
    BY DEF PublisherInv, StoreBuilt
  <2>2. PICK p \in Operator :
          /\ agg.fee_acct_comm = FeeAddress[p]
          /\ \A j \in DOMAIN agg.pks :
               \E s \in submitted : Source(s, p, agg.pks[j])
    BY DEF PublisherInv, AggregateSourced
  <2>3. PICK s \in submitted : Source(s, p, pk)
    BY <2>1, <2>2 DEF HoldsFrom
  <2> QED
    BY <2>1, <2>2, <2>3 DEF PublisherInv, SubmittedAtFloor, Source
<1> QED
  BY <1>1, PublisherInvHolds, PTL

\* A nullifier a publisher accepted is pending or in an aggregate, unless it was
\* cleared before it was built (build_aggregate_nullifier, clear_pending).
THEOREM LostOnlyIfOvertakenHolds == Spec => []LostOnlyIfOvertaken
<1>1. PublisherInv => LostOnlyIfOvertaken
  BY DEF PublisherInv, Kept, LostOnlyIfOvertaken, InAggregateOf, HoldsFrom
<1> QED
  BY <1>1, PublisherInvHolds, PTL

NothingAggregated == DigestLen # 32 => aggregates = {}

\* As built, with a digest of 26 bytes, no publisher ever builds an aggregate
\* (state_update_message panics).
THEOREM NothingAggregatedHolds == Spec => []NothingAggregated
<1>1. Init => NothingAggregated
  BY DEF Init, PublisherInit, NothingAggregated
<1>2. NothingAggregated /\ [Next]_vars => NothingAggregated'
  BY DEF NothingAggregated, Next, vars, publisherVars, SubmitNullifier,
         BuildAggregateNullifier, ClearPending, Mine, Reorg,
         StateUpdateMessage, FromDigestSlice
<1> QED
  BY <1>1, <1>2, PTL DEF Spec
=============================================================================
