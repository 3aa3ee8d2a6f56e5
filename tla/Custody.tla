------------------------------ MODULE Custody ------------------------------
(***************************************************************************)
(* What a custodial mixer promises its users, without wallets, pools,      *)
(* chains or handlers: value is credited when it is received, a user       *)
(* withdraws no more than was credited, and only what was withdrawn is     *)
(* delivered.  Mixer is shown to implement it.                             *)
(***************************************************************************)
EXTENDS Integers, Sequences

CONSTANTS
  User,
  MaxAmount        \* the largest amount a ledger entry holds

VARIABLES
  credited,      \* user -> value credited so far
  reserved,      \* user -> value set aside for withdrawals so far
  received,      \* what was received, in order: [user, amount]
  withdrawals,   \* what was asked for, in order: [user, amount, reserved]
  delivered      \* the withdrawals delivered at least once

custodyVars == <<credited, reserved, received, withdrawals, delivered>>

Amount == 0 .. MaxAmount

Init ==
  /\ credited \in [User -> Amount]
  /\ reserved \in [User -> Amount]
  /\ \A u \in User : reserved[u] <= credited[u]
  /\ received = << >>
  /\ withdrawals = << >>
  /\ delivered = {}

\* The ledger never credits more than it can hold.
Receive(u, amount) ==
  /\ received' = Append(received, [user |-> u, amount |-> amount])
  /\ credited' = [credited EXCEPT
       ![u] = IF @ + amount > MaxAmount THEN MaxAmount ELSE @ + amount]
  /\ UNCHANGED <<reserved, withdrawals, delivered>>

\* The amount and the fee set aside with it are covered by what is left.
Withdraw(u, amount, total) ==
  /\ amount <= total
  /\ reserved[u] + total <= credited[u]
  /\ reserved' = [reserved EXCEPT ![u] = @ + total]
  /\ withdrawals' =
       Append(withdrawals, [user |-> u, amount |-> amount, reserved |-> total])
  /\ UNCHANGED <<credited, received, delivered>>

Deliver(ws) ==
  /\ delivered' = delivered \cup ws
  /\ UNCHANGED <<credited, reserved, received, withdrawals>>

Next ==
  \/ \E u \in User, amount \in Amount : Receive(u, amount)
  \/ \E u \in User, amount, total \in Amount : Withdraw(u, amount, total)
  \/ \E ws \in SUBSET DOMAIN withdrawals : Deliver(ws)

Spec == Init /\ [][Next]_custodyVars
=============================================================================
