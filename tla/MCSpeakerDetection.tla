------------------------ MODULE MCSpeakerDetection --------------------------
(***************************************************************************)
(* Two members, one SSRC and two connections, so that a lookup and an edge *)
(* of the first one are still under way on the second.                     *)
(***************************************************************************)
EXTENDS SpeakerDetection, TLC

MCSymmetry == Permutations(Users)
=============================================================================
