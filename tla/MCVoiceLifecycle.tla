-------------------------- MODULE MCVoiceLifecycle --------------------------
(***************************************************************************)
(* Two jobs of different streams, one that forwards audio and one with     *)
(* neither an Encoder nor a caption URL, and two stop handlers.            *)
(***************************************************************************)
EXTENDS VoiceLifecycle

CONSTANTS j1, k1, s1, s2, t1, t2

MCJobs     == {j1, k1}
MCStreams  == {s1, s2}
MCStreamOf == [j \in MCJobs |-> IF j = k1 THEN s2 ELSE s1]
MCStoppers == {t1, t2}

MCForwarding == {j1}
=============================================================================
