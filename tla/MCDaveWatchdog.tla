-------------------------- MODULE MCDaveWatchdog ----------------------------
(***************************************************************************)
(* Windows of two and three units of time, so that attempts exactly a      *)
(* window old occur, and two generations: joined, lost or left, joined.    *)
(***************************************************************************)
EXTENDS DaveWatchdog
=============================================================================
