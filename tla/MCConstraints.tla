--------------------------- MODULE MCConstraints ---------------------------
(***************************************************************************)
(* A small instance of Constraints for TLC: one name to ban, one that is   *)
(* renamed in two ways, and builds of every kind that bring them.          *)
(***************************************************************************)
EXTENDS Constraints, TLC

CONSTANTS t1, t2, a, b, c

Ban == [renames |-> NoProfile.renames, banned |-> {a}]
RenameB == [renames |-> b :> c, banned |-> {}]
RenameBack == [renames |-> b :> b, banned |-> {c}]

MCProfile == {NoProfile, Ban, RenameB, RenameBack}

Batch(ids) == [names |-> {a, b}, identified |-> ids,
               edges |-> IF ids = {} THEN {} ELSE {<<a, b>>}]

R(o, p, ids) == [op |-> o, profile |-> p,
                 batch |-> IF o = "put" THEN NoBatch ELSE Batch(ids)]

MCRequest ==
    {R("put", p, {}) : p \in {Ban, RenameB, RenameBack}}
    \cup {R("text", p, {}) : p \in {NoProfile, Ban}}
    \cup {R("records", NoProfile, {}), R("records", NoProfile, {b}),
          R("records", RenameB, {a, b})}

Symmetry == Permutations({t1, t2})
=============================================================================
