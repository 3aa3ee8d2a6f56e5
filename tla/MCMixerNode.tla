---------------------------- MODULE MCMixerNode ----------------------------
(* Small instances of MixerNode.  The blocks are chosen so that a key is   *)
(* repeated within an aggregate, within a block, across blocks and after   *)
(* an aggregate with an invalid signature.                                 *)
EXTENDS ScanLoop

CONSTANTS k1, k2, k3, c1, c2, good, bad

Agg(pks, sig, c) == [pks |-> pks, sig |-> sig, fee_acct_comm |-> c]

MCBlock ==
  { << >>,
    << Agg(<<k1>>, good, c1) >>,
    << Agg(<<k1, k2>>, good, c2), Agg(<<k2, k3>>, good, c1) >>,
    << Agg(<<k1, k2>>, bad, c1), Agg(<<k3, k3, k1>>, good, c2) >>,
    << Agg(<<k2>>, good, c1), Agg(<<k2>>, good, c2) >> }

MCPublicKey == {k1, k2, k3}
MCCommitment == {c1, c2}
MCSignature == {good, bad}
MCVerifiedSig == {good}
=============================================================================
