---------------------------- MODULE MCAutoStart ----------------------------
(***************************************************************************)
(* Two streams that share a voice channel.                                 *)
(***************************************************************************)
EXTENDS AutoStart, TLC

CONSTANTS s1, s2, r1, r2, c1

MCStreams      == {s1, s2}
MCReservations == {r1, r2}

MCSymmetry == Permutations(MCStreams) \cup Permutations(MCReservations)
=============================================================================
