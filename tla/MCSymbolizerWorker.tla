------------------------- MODULE MCSymbolizerWorker -------------------------
(* Model values for TLC; the calls are interchangeable. *)
EXTENDS SymbolizerWorker, TLC

CallSymmetry == Permutations(Calls)
=============================================================================
