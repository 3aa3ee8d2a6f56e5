---------------------------- MODULE MCPublisher ----------------------------
(* A small instance of Publisher.  Two publishers with different floors    *)
(* compete for two keys, one of which is submitted with a fee that both    *)
(* take and with one that only the first takes; the blocks carry no        *)
(* aggregate or any one of those they can build.                           *)
EXTENDS Publisher

CONSTANTS k1, k2, p1, p2, c1, c2, agg_sig

MCPublicKey == {k1, k2}
MCCommitment == {c1, c2}
MCSignature == {agg_sig}
MCOperator == {p1, p2}
MCFeeAddress == [p \in MCOperator |-> IF p = p1 THEN c1 ELSE c2]
MCPublisherFee == [p \in MCOperator |-> IF p = p1 THEN 1 ELSE 2]

Submit(pk, fee) == [nullifier_pk |-> pk, fee |-> fee]

MCNullifier == { Submit(k1, 2), Submit(k1, 1), Submit(k2, 1) }

SeqsUpTo(S, n) == UNION { [1 .. m -> S] : m \in 0 .. n }

MCBlock ==
  SeqsUpTo([ pks : SeqsUpTo(MCPublicKey, 2), sig : MCSignature,
             fee_acct_comm : MCCommitment ], 1)
=============================================================================
