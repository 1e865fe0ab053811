----------------------------- MODULE MCSurfaces -----------------------------
(***************************************************************************)
(* Every request to every surface: each operation it offers, with every    *)
(* combination of missing, zero and given arguments.  Nothing to choose.   *)
(***************************************************************************)
EXTENDS Surfaces
=============================================================================
