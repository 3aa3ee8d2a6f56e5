------------------------------- MODULE MCApi -------------------------------
(* A small instance of Api: two readers suffice to hold the lock without a *)
(* gap, and the third client to be starved by them.                        *)
EXTENDS Api

CONSTANTS t1, t2, t3, s1, s2, h1, h2

MCClient == {t1, t2, t3}
MCSessionId == {s1, s2}
MCHash == {h1, h2}
=============================================================================
