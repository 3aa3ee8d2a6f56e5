------------------------------ MODULE MCMixer ------------------------------
(* Small instances of Mixer.  The coins include one bound to a NAV that is *)
(* tracked only after a block, one sent to another address, one with a bad *)
(* proof and the one both wallets start with; the amounts saturate.        *)
EXTENDS Mixer

CONSTANTS k1, k2, c1, mixer, good, alice, bob

Agg(pks) == [pks |-> pks, sig |-> good, fee_acct_comm |-> c1]
MCOneBlock == { << Agg(<<k1, k2>>) >> }
MCPublicKey == {k1, k2}
MCCommitment == {c1, mixer}
MCSignature == {good}

MCCoin(loc, amount, nav, address, ok) ==
  [ blockchain_loc |-> loc, idx |-> 1, amount |-> amount,
    nullifier_accum |-> nav, address |-> address, proof_verifies |-> ok ]

OldCoin == MCCoin(256, 2, 0, mixer, TRUE)
MCCoins == { OldCoin,
             MCCoin(257, 2, 0, mixer, TRUE),
             MCCoin(258, 3, 1, mixer, TRUE),
             MCCoin(259, 3, 0, c1, TRUE),
             MCCoin(260, 3, 0, mixer, FALSE) }
MCNodeCoins == << OldCoin >>
MCLiabilities == [u \in {alice} |-> [credited |-> 2, withdrawn |-> 0]]
MCUser == {alice, bob}
MCDestination == {c1}
MCWithdrawAmount == {1, 3}
=============================================================================
