--------------------------- MODULE MCOpusForward ----------------------------
(***************************************************************************)
(* Two speakers and three packets, fewer for jobs with both targets;       *)
(* queues of one batch, room for one packet without a speaker.             *)
(***************************************************************************)
EXTENDS OpusForward

CONSTANTS s1, s2

MCSSRCs       == {s1, s2}
MCFeed        == <<s1, s2, s1>>
MCBatchMax    == [t \in Targets |-> IF t = "encoder" THEN 2 ELSE 1]
MCMaxPackets  ==
  [j \in JobKinds |-> IF j.targets # Targets THEN 3
                     ELSE IF j.captions = "now" THEN 2 ELSE 1]
MCMaxAttempts == [t \in Targets |-> IF t = "encoder" THEN 2 ELSE 1]
=============================================================================
