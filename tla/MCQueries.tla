----------------------------- MODULE MCQueries -----------------------------
(***************************************************************************)
(* Instances of Queries for TLC: every graph of up to four relations over  *)
(* four entities, in every order, parallel relations included.             *)
(***************************************************************************)
EXTENDS Queries

CONSTANTS s, t, u, v

(* Any status for the source, row or no row for the others.                *)
MCRows ==
    {r \in [{s, t, u, v} -> {"active", "deprecated", "none"}] :
        \A n \in {t, u, v} : r[n] # "deprecated"}

MCCandidate == {<<s, u>>, <<u, v>>, <<v, t>>, <<u, t>>, <<s, t>>, <<v, s>>}
=============================================================================
