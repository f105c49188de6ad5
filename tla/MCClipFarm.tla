----------------------------- MODULE MCClipFarm -----------------------------
(***************************************************************************)
(* Small instances of ClipFarm for TLC.                                    *)
(***************************************************************************)
EXTENDS ClipFarm, TLC

CONSTANTS w1, w2
WorkerSymmetry == Permutations({w1, w2})

=============================================================================
