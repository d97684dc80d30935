------------------------------ MODULE BytePipe ------------------------------
(***************************************************************************)
(* What two ends of an undisturbed byte stream see: the bytes that come    *)
(* out are the bytes that went in, in order, up to some point.  Once the   *)
(* stream is broken nothing is promised.  A port in loopback implements it.*)
(***************************************************************************)
EXTENDS Sequences, SequencesExt

VARIABLES
  input,   \* bytes that went in
  output,  \* bytes that came out
  broken

Init == input = <<>> /\ output = <<>> /\ broken = FALSE

Put == IsPrefix(input, input') /\ UNCHANGED <<output, broken>>

Get ==
  /\ IsPrefix(output, output') /\ IsPrefix(output', input)
  /\ UNCHANGED <<input, broken>>

Break == broken' = TRUE

Next == Put \/ Get \/ Break

Spec == Init /\ [][Next]_<<input, output, broken>>
=============================================================================
