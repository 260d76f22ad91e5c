------------------------------ MODULE MCRouter ------------------------------
EXTENDS MidiRouter, TLC

Symmetry == Permutations(Obj)
=============================================================================
