-------------------------- MODULE MCJobsOverStore ---------------------------
(***************************************************************************)
(* A small instance of JobsOverStore for TLC: a worker in a process of its *)
(* own and a server thread, which may also run jobs by hand; two jobs.     *)
(***************************************************************************)
EXTENDS JobsOverStore, TLC

CONSTANTS j1, j2, w1, r1, s1, p1, p2, x, y, d1, d2

MCRelation == {<<x, y>>}
MCProcOf == w1 :> p1 @@ r1 :> p2 @@ s1 :> p2

R(o, d, its) == [op |-> o, doc |-> d, items |-> its]

MCTask == j1 :> R("merge", d1, {x, <<x, y>>}) @@ j2 :> R("build", NoDoc, {x})

Direct == {R("create", NoDoc, {}), R("delete", NoDoc, {}), R("deprecate", d1, {}),
           R("build", d2, {x})}
MCRequest == Direct \cup {MCTask[j] : j \in {j1, j2}}
=============================================================================
