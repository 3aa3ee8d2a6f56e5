----------------------------- MODULE Publisher -----------------------------
(***************************************************************************)
(* Publishers (publisher.rs) next to a node of MixerNode.  A publisher     *)
(* collects nullifiers, aggregates all it has pending, and clears them;    *)
(* the three are separate calls of its operator.  An aggregate that was    *)
(* built is broadcast: from then on any block may carry it, any number of  *)
(* times, next to those of the other publishers.                           *)
(*                                                                         *)
(* A submitted nullifier is its key and the fee it offers: its signature   *)
(* is looked at by nobody, neither here nor by the backend that aggregates *)
(* it, and its fee proof is not verified (a TODO in the code).  Calls that *)
(* return an error change nothing and are left out.                        *)
(***************************************************************************)
EXTENDS MixerNode

CONSTANTS
  Operator,        \* the publishers
  FeeAddress,      \* Publisher::fee_address of each
  PublisherFee,    \* config.publisher_fee of each
  Nullifier,       \* the PendingNullifiers users may submit
  AggregateSig,    \* what aggregating yields, whatever goes in
  MaxPending,      \* bound: nullifiers pending at a publisher
  MaxSubmissions,  \* bound: different submissions
  MaxAggregates    \* bound: different aggregates built

VARIABLES
  pending,     \* operator -> its PendingNullifiers, in order
  aggregates,  \* the aggregates built so far
  \* history variables
  submitted,   \* nullifiers accepted, and by whom
  built,       \* operator -> number pending when it last built, 0 once cleared
  overtaken    \* operators that cleared a nullifier they had not built

publisherVars == <<pending, aggregates, submitted, built, overtaken>>
vars == <<nodeVars, publisherVars>>

PendingNullifier == [nullifier_pk : PublicKey, fee : Nat]

ASSUME FeeAssumption == /\ FeeAddress \in [Operator -> Commitment]
                        /\ PublisherFee \in [Operator -> Nat]
                        /\ Nullifier \subseteq PendingNullifier
ASSUME AggregateAssumption == AggregateSig \in Signature
ASSUME PublisherBoundAssumption ==
  {MaxPending, MaxSubmissions, MaxAggregates} \subseteq Nat

-----------------------------------------------------------------------------
\* NisshacBackend::aggregate, whose one implementation answers with a fixed
\* signature.
Aggregate(ns) == AggregateSig

\* Mutant: a nullifier is always accepted.
AcceptsAnyFee(p, n) == TRUE

AcceptsFee(p, n) == n.fee >= PublisherFee[p]

\* The panic of state_update_message is of a call that changes nothing.
StateUpdateMessage == FromDigestSlice(DigestLen)

\* Mutant: the nullifier submitted first is left out.
AggregateNullifierWithoutFirst(p) ==
  [ pks           |-> [ i \in 1 .. Len(pending[p]) - 1 |->
                          pending[p][i + 1].nullifier_pk ],
    sig           |-> Aggregate(pending[p]),
    fee_acct_comm |-> FeeAddress[p] ]

AggregateNullifierOf(p) ==
  [ pks           |-> [ i \in DOMAIN pending[p] |-> pending[p][i].nullifier_pk ],
    sig           |-> Aggregate(pending[p]),
    fee_acct_comm |-> FeeAddress[p] ]

-----------------------------------------------------------------------------
PublisherInit ==
  /\ pending = [p \in Operator |-> << >>]
  /\ aggregates = {}
  /\ submitted = {}
  /\ built = [p \in Operator |-> 0]
  /\ overtaken = {}

Init == NodeInit /\ PublisherInit

SubmitNullifier(p, n) ==
  /\ Len(pending[p]) < MaxPending
  /\ AcceptsFee(p, n)
  /\ pending' = [pending EXCEPT ![p] = Append(@, n)]
  /\ submitted' = submitted \cup {[publisher |-> p, nullifier |-> n]}
  /\ Cardinality(submitted') <= MaxSubmissions
  /\ UNCHANGED <<nodeVars, aggregates, built, overtaken>>

\* build_aggregate_nullifier: what is pending stays pending.
BuildAggregateNullifier(p) ==
  /\ pending[p] # << >>
  /\ StateUpdateMessage
  /\ aggregates' = aggregates \cup {AggregateNullifierOf(p)}
  /\ Cardinality(aggregates') <= MaxAggregates
  /\ built' = [built EXCEPT ![p] = Len(pending[p])]
  /\ UNCHANGED <<nodeVars, pending, submitted, overtaken>>

ClearPending(p) ==
  /\ pending' = [pending EXCEPT ![p] = << >>]
  /\ built' = [built EXCEPT ![p] = 0]
  /\ overtaken' = overtaken \cup
       (IF built[p] < Len(pending[p]) THEN {p} ELSE {})
  /\ UNCHANGED <<nodeVars, aggregates, submitted>>

\* The blocks that can be mined of what has been broadcast.
MinableBlocks == { b \in Block : \A i \in DOMAIN b : b[i] \in aggregates }

Mine(b) == ProcessBlock(b) /\ UNCHANGED publisherVars

Reorg(n) ==
  /\ HandleReorg(n) \/ HandleReorgTooDeep(n)
  /\ UNCHANGED publisherVars

Next ==
  \/ \E p \in Operator, n \in Nullifier : SubmitNullifier(p, n)
  \/ \E p \in Operator : BuildAggregateNullifier(p)
  \/ \E p \in Operator : ClearPending(p)
  \/ \E b \in MinableBlocks : Mine(b)
  \/ \E n \in 0 .. Len(board) : Reorg(n)

Spec == Init /\ [][Next]_vars

-----------------------------------------------------------------------------
(* Properties.                                                             *)

Submission == [publisher : Operator, nullifier : Nullifier]

\* Types; what is pending or was built comes out of the submissions, and no
\* operator is counted as having built more than it has pending.
PublisherTypeOK ==
  /\ NodeTypeOK
  /\ pending \in [Operator -> Seq(Nullifier)]
  /\ aggregates \subseteq AggregateNullifier
  /\ submitted \subseteq Submission
  /\ built \in [Operator -> Nat]
  /\ \A p \in Operator : built[p] <= Len(pending[p])
  /\ overtaken \subseteq Operator

\* Nobody is credited with a publisher fee below its own floor: a key in the
\* store is credited to a publisher it was submitted to, with a fee that
\* publisher takes, over competing publishers, rebuilt and repeated
\* aggregates and reorgs (submit_nullifier, build_aggregate_nullifier).
FeeFloorKept ==
  \A pk \in DOMAIN nullifier_kv :
    \E s \in submitted :
      /\ s.nullifier.nullifier_pk = pk
      /\ s.nullifier.fee >= PublisherFee[s.publisher]
      /\ nullifier_kv[pk].fee_acct_comm = FeeAddress[s.publisher]

\* A nullifier a publisher has accepted is pending there or in an aggregate
\* that pays this publisher, unless clear_pending overtook a submission: it
\* clears everything, also what came after build_aggregate_nullifier.  What is
\* in an aggregate may still never be published, or not verify.
LostOnlyIfOvertaken ==
  \A s \in submitted :
    LET p == s.publisher
        pk == s.nullifier.nullifier_pk
    IN \/ p \in overtaken
       \/ \E j \in DOMAIN pending[p] : pending[p][j].nullifier_pk = pk
       \/ \E agg \in aggregates : /\ agg.fee_acct_comm = FeeAddress[p]
                                  /\ \E j \in DOMAIN agg.pks : agg.pks[j] = pk
=============================================================================
