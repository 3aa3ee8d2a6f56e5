----------------------------- MODULE MCPayment -----------------------------
(* A small instance of Payment.  The verifiers it is given do what the     *)
(* traits of crypto/accumulators.rs are named for.  They are no code: the  *)
(* verifiers of primitives.rs and of mock.rs look at no value.             *)
EXTENDS Payment

CONSTANTS ka, kb, mint

\* None of the ids is in the old value, and all of them are in the new.
SetNonMembershipAndInsert(old, new, ids) ==
  /\ IsInjective(ids)
  /\ Range(ids) \cap old = {}
  /\ new = old \cup Range(ids)

SeqUnionMembership(nav, e) == \E i \in DOMAIN nav : e \in nav[i]

SeqIsPrefix(S, nav) == \A v \in S : IsPrefix(v, nav)

SeqDistinctElement(v, w) ==
  \E i \in DOMAIN v \cap DOMAIN w : v[i] # w[i]

OldCoinOf(key, amount, idx) ==
  [ address |-> key, amount |-> amount, idx |-> idx, tx_hash |-> mint,
    blockchain_loc |-> 0, nullifier_accum |-> << >> ]

MCKey == {ka, kb}
MCOldCoin == { OldCoinOf(ka, 2, 0) }

Out(key, amount, idx) == [address |-> key, amount |-> amount, idx |-> idx]
MCNewCoins == { << Out(ka, 0, 0), Out(kb, 1, 1) >>,
                << Out(ka, 0, 0), Out(kb, 1, 2) >> }
MCOneList == { << Out(ka, 0, 0), Out(kb, 1, 1) >> }
=============================================================================
