------------------------ MODULE MCIndicationProvider ------------------------
(***************************************************************************)
(* Model checking of IndicationProvider: the threads are interchangeable.  *)
(***************************************************************************)
EXTENDS IndicationProvider, TLC

Symmetry == Permutations(Threads)
=============================================================================
