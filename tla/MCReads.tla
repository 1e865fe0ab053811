------------------------------ MODULE MCReads ------------------------------
(* Three entities and two relations.  Builds bring a row again with        *)
(* another name, another type or other ends, two rows of one type and name,*)
(* and a relation twice; the schema has a type with a required property    *)
(* and a relation type that allows one relation.                           *)
EXTENDS Reads

MCEntity == 1..3
MCRelation == 1..2

MCGraphSchema ==
    [entity |-> [t \in 1..2 |-> [required |-> t = 1, typed |-> TRUE]],
     relation |-> [t \in {1} |-> [sources |-> {1, 2}, targets |-> {1}, single |-> TRUE]]]

E(id, type, name, value) == [id |-> id, type |-> type, name |-> name, value |-> value]
R(id, source, target) == [id |-> id, type |-> 1, source |-> source, target |-> target]

MCBatches ==
    {[entities |-> <<E(1, 1, 1, "absent"), E(2, 1, 2, "wrong")>>, relations |-> <<R(2, 1, 3)>>],
     [entities |-> <<E(2, 1, 1, "wrong"), E(3, 2, 1, "wrong")>>,
      relations |-> <<R(2, 1, 3), R(2, 1, 3)>>],
     [entities |-> <<E(1, 2, 3, "right"), E(3, 1, 2, "absent")>>,
      relations |-> <<R(2, 1, 2), R(1, 1, 3)>>]}
MCVersion == 1..2
MCProducts == {<<1>>, <<2>>, <<1, 1>>}

MCName == {None, "i1", "i2", "i3", "a", "b", "c", "unknown"}

MCDefinitions ==
    {<<[id |-> "i1", key |-> "a", parent |-> p1],
       [id |-> "i2", key |-> k2, parent |-> p2],
       [id |-> "i3", key |-> k3, parent |-> p3]>> :
        k2 \in {"a", "b"}, k3 \in {"b", "c", None},
        p1, p2, p3 \in {None, "i1", "i2", "i3", "b", "unknown"}}

MCRequests ==
    [op : {"pages"}, size : {0, 2}]
    \cup [op : {"check"}, schema : {MCGraphSchema}, maxIssues : {1}]
    \cup [op : {"candidates"}, maxClasses : {0, 1}]
    \cup [op : {"diff"}, from : {1}, to : MCVersion]
    \cup [op : {"definition"}, concepts : MCDefinitions]
=============================================================================
