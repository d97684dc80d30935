---------------------------- MODULE MCByteRing ----------------------------
(***************************************************************************)
(* A ring of three bytes, written in bursts longer than the ring.          *)
(***************************************************************************)
EXTENDS ByteRing

MCByte == {0, 17, 126}
=============================================================================
