------------------------------- MODULE MCVolume -------------------------------
(***************************************************************************)
(* Instances of Volume: the processes, files and contents are interchangeable *)
(* and are model values.                                                    *)
(***************************************************************************)
EXTENDS Volume, TLC

Symmetry == Permutations(Procs) \cup Permutations(Files) \cup Permutations(Contents)
=============================================================================
