------------------------ MODULE MCSqliteConnection -------------------------
(***************************************************************************)
(* Two or three processes over one file.  Interchangeable processes are    *)
(* identified where only safety is checked.                                *)
(***************************************************************************)
EXTENDS SqliteConnection, TLC

Symmetry == Permutations(Process)
=============================================================================
