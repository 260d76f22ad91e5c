----------------------------- MODULE MCMidiPath -----------------------------
(***************************************************************************)
(* Instances of MidiPath: a few messages around each of the limits.        *)
(***************************************************************************)
EXTENDS MidiPath
=============================================================================
