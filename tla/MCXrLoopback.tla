---------------------------- MODULE MCXrLoopback ----------------------------
(* XrLoopback on a small instance. *)
EXTENDS XrLoopback

MCPlainAndStuffed == {<<17>>, <<126>>}
MCNone == {}
MCRead1 == {1}
=============================================================================
