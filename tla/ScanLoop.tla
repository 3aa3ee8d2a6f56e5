------------------------------ MODULE ScanLoop ------------------------------
(***************************************************************************)
(* The loop of process_block (mixer_node.rs:64-111) as the code runs it,   *)
(* one key after the other with its counter `loc', as the reference for    *)
(* the set-based definitions of MixerNode.                                 *)
(***************************************************************************)
EXTENDS MixerNode, SequencesExt

\* One turn of the inner loop: pk, published by agg.
ScanKey(st, pk, agg) ==
  IF pk \in DOMAIN st.kv
  THEN st
  ELSE LET entry == [ blockchain_loc |-> BlockchainLoc(st.loc),
                      fee_acct_comm  |-> agg.fee_acct_comm ]
       IN [ kv     |-> [ k \in DOMAIN st.kv \cup {pk} |->
                           IF k = pk THEN entry ELSE st.kv[k] ],
            loc    |-> st.loc + 1,
            pushed |-> Append(st.pushed, pk) ]

ScanAggregate(st, agg) ==
  IF ~AggVerify(agg) THEN st
  ELSE FoldLeft(LAMBDA s, pk : ScanKey(s, pk, agg), st, agg.pks)

ScanBlock(kv, b, h) ==
  FoldLeft(ScanAggregate, [kv |-> kv, loc |-> h * 2^24, pushed |-> << >>], b)

-----------------------------------------------------------------------------
\* The store and the set MixerNode's process_block produces are those of the
\* loop, for every block from every reachable store: each new key is pushed
\* once, and is given the location the running counter has at its turn.
ScanAgreesWithLoop ==
  \A b \in Block :
    LET h == Len(board) + 1
        end == ScanBlock(nullifier_kv, b, h)
        new == NewKeys(nullifier_kv, b)
    IN /\ end.kv = RecordNullifiers(nullifier_kv, b, h)
       /\ ToSet(end.pushed) = new
       /\ Len(end.pushed) = Cardinality(new)
       /\ \A i \in DOMAIN end.pushed :
            Loc(nullifier_kv, b, h, end.pushed[i]) = h * 2^24 + i - 1
=============================================================================
