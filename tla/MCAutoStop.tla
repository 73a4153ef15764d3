----------------------------- MODULE MCAutoStop -----------------------------
(***************************************************************************)
(* Two streams that share the voice channel.                               *)
(***************************************************************************)
EXTENDS AutoStop, TLC

CONSTANTS s1, s2

MCStreams == {s1, s2}

\* Streams are interchangeable.
MCSymmetry == Permutations(MCStreams)
=============================================================================
