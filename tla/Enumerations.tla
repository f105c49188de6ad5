---------------------------- MODULE Enumerations ----------------------------
(***************************************************************************)
(* Sorting and filtering, as choosing the order in which to list indices.  *)
(***************************************************************************)
EXTENDS Integers, FiniteSets

(* The elements of the finite set S in the strict order Before: what       *)
(* list.sort leaves of the indices of a list, and what a loop that skips   *)
(* some of them passes.                                                    *)
Enumeration(S, Before(_, _)) ==
  CHOOSE f \in [1 .. Cardinality(S) -> S] :
    \A i, j \in 1 .. Cardinality(S) : i < j => Before(f[i], f[j])
=============================================================================
