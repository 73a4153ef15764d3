--------------------------- MODULE MCWorkerReports ---------------------------
(***************************************************************************)
(* Two callbacks, two chat messages and up to two queues, each with room   *)
(* for two of the four reports there can be.                               *)
(***************************************************************************)
EXTENDS WorkerReports

CONSTANTS c1, c2, m1, m2

MCCallbacks == {c1, c2}
MCChats     == {m1, m2}
=============================================================================
