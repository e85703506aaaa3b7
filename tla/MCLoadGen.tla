------------------------------ MODULE MCLoadGen ------------------------------
(***************************************************************************)
(* Two requests, of two tokens and of one, over two workers.                   *)
(***************************************************************************)
EXTENDS LoadGen

TwoRequests == 1 .. 2
SoloLens == <<2, 1>>
=============================================================================
