------------------------------ MODULE Ontology ------------------------------
(***************************************************************************)
(* The ontology domain (domain/ontology.py): operators without state.  A   *)
(* type declares one property, which may be required and typed; an entity  *)
(* has no value for it, one of the type or one of another.  What a type is *)
(* called and what an issue says is left out.                              *)
(***************************************************************************)
EXTENDS Integers, FiniteSets, Sequences, SequencesExt

None == "none"

Value == {"absent", "right", "wrong"}

(* A definition view: concepts with an identifier, a name and a parent,    *)
(* which is named by either; None stands for the empty string.             *)

(* Some of the concepts, by identifier or by name: the last of each stands.*)
LastOf(concepts, places, field) ==
    [name \in {concepts[i][field] : i \in places} \ {None} |->
        concepts[Max({i \in places : concepts[i][field] = name})]]

ById(concepts) == LastOf(concepts, DOMAIN concepts, "id")
ByKey(concepts) == LastOf(concepts, DOMAIN concepts, "key")

Known(concepts, ref) == ref \in DOMAIN ById(concepts) \cup DOMAIN ByKey(concepts)

(* The concept that a reference means: identifiers go first.               *)
Resolve(concepts, ref) ==
    IF ref \in DOMAIN ById(concepts) THEN ById(concepts)[ref] ELSE ByKey(concepts)[ref]

(* The concepts that validate_definition reports: the nameless ones and,   *)
(* among the others, those with an unknown parent.                         *)
Nameless(concepts) == {i \in DOMAIN concepts : concepts[i].key = None}

Dangling(concepts) ==
    {i \in DOMAIN concepts \ Nameless(concepts) :
        concepts[i].parent # None /\ ~Known(concepts, concepts[i].parent)}

(* "edges" of validate_definition: names and the names of their parents,   *)
(* the last concept of a name that has a parent deciding.                  *)
HasParent(concepts, concept) ==
    /\ concept.key # None
    /\ Known(concepts, concept.parent)
    /\ Resolve(concepts, concept.parent).key # None

\* Mutant: a parent is known by its identifier only.
ParentEdgesById(concepts) ==
    LET Child(i) == HasParent(concepts, concepts[i]) /\ concepts[i].parent \in DOMAIN ById(concepts)
        children == LastOf(concepts, {i \in DOMAIN concepts : Child(i)}, "key")
    IN  [key \in DOMAIN children |-> Resolve(concepts, children[key].parent).key]

ParentEdges(concepts) ==
    LET Child(i) == HasParent(concepts, concepts[i])
        children == LastOf(concepts, {i \in DOMAIN concepts : Child(i)}, "key")
    IN  [key \in DOMAIN children |-> Resolve(concepts, children[key].parent).key]

-----------------------------------------------------------------------------
(* A schema: the declared entity types with their property, the declared   *)
(* relation types with the types of their ends and whether there may be    *)
(* one at most.  No ends, or nothing declared at all, means anything goes. *)

NoProperty == [required |-> FALSE, typed |-> FALSE]

EntityIssue(schema, e) ==
    CASE DOMAIN schema.entity # {} /\ e.type \notin DOMAIN schema.entity -> {"type_undeclared"}
      [] e.type \in DOMAIN schema.entity /\ e.value = "absent" ->
            {code \in {"missing_required"} : schema.entity[e.type].required}
      [] e.type \in DOMAIN schema.entity /\ e.value = "wrong" ->
            {code \in {"data_type_violation"} : schema.entity[e.type].typed}
      [] OTHER -> {}

Undeclared(schema, r) == DOMAIN schema.relation # {} /\ r.type \notin DOMAIN schema.relation

Declared(schema, r) == r.type \in DOMAIN schema.relation

(* An end is looked up among the entities that were handed over, the last  *)
(* of an identifier deciding.                                              *)
EndIssue(allowed, entities, id) ==
    /\ allowed # {}
    /\ \E i \in DOMAIN entities :
          /\ entities[i].id = id /\ entities[i].type \notin allowed
          /\ \A j \in DOMAIN entities : j > i => entities[j].id # id

SameSource(r1, r2) == r1.type = r2.type /\ r1.source = r2.source

(* What validate_graph reports, one element per issue: its code, and the   *)
(* place of the entity or relation in the list it is found in.             *)
Issues(schema, entities, relations) ==
    (UNION {{<<code, i>> : code \in EntityIssue(schema, entities[i])} : i \in DOMAIN entities})
    \cup {<<"relation_undeclared", i>> :
              i \in {j \in DOMAIN relations : Undeclared(schema, relations[j])}}
    \cup {<<"source_violation", i>> : i \in {j \in DOMAIN relations :
              /\ Declared(schema, relations[j])
              /\ EndIssue(schema.relation[relations[j].type].sources, entities,
                          relations[j].source)}}
    \cup {<<"target_violation", i>> : i \in {j \in DOMAIN relations :
              /\ Declared(schema, relations[j])
              /\ EndIssue(schema.relation[relations[j].type].targets, entities,
                          relations[j].target)}}
    \cup {<<"cardinality_violation", i>> : i \in {j \in DOMAIN relations :
              /\ Declared(schema, relations[j])
              /\ schema.relation[relations[j].type].single
              /\ \E k \in 1..(j - 1) : SameSource(relations[k], relations[j])}}

(* "min(max(n or default, 1), top)".                                       *)
Clamp(n, default, top) ==
    LET asked == IF n = 0 THEN default ELSE n
    IN  IF asked < 1 THEN 1 ELSE IF asked > top THEN top ELSE asked

\* Mutant: the issues are cut before they are counted.
ReportOfShown(schema, entities, relations, maxIssues) ==
    LET issues == Issues(schema, entities, relations)
        order == SetToSeq(issues)
        shown == {order[i] : i \in 1..Min({Len(order), Clamp(maxIssues, 200, 1000)})}
    IN  [issues |-> shown,
         valid |-> \A issue \in shown : issue[1] = "data_type_violation",
         truncated |-> shown # issues]

(* The report: all issues count, the first ones are shown, and a wrong     *)
(* data type does not make a graph invalid.                                *)
Report(schema, entities, relations, maxIssues) ==
    LET issues == Issues(schema, entities, relations)
    IN  [issues |-> issues,
         valid |-> \A issue \in issues : issue[1] = "data_type_violation",
         truncated |-> Cardinality(issues) > Clamp(maxIssues, 200, 1000)]

(* schema_check, the part of the report that a build answers with.         *)
SchemaCheck(schema, entities, relations) ==
    {issue \in Issues(schema, entities, relations) : issue[1] # "data_type_violation"}

(* How many records are of a declared type, and of how many.               *)
Coverage(declared, records) ==
    [hit |-> Cardinality({i \in DOMAIN records : records[i].type \in declared}),
     total |-> Len(records)]

-----------------------------------------------------------------------------
(* generate_candidates: a class for every entity type, the most frequent   *)
(* first, cut at maxClasses; a relation for every relation type, between   *)
(* the types of its ends that were handed over.  Types are numbers, in the *)
(* order of their names.                                                   *)

TypesOf(records) == {records[i].type : i \in DOMAIN records}

Before(records, t, u) ==
    LET Count(type) == Cardinality({i \in DOMAIN records : records[i].type = type})
    IN  Count(t) > Count(u) \/ (Count(t) = Count(u) /\ t < u)

Classes(entities, maxClasses) ==
    {t \in TypesOf(entities) :
        Cardinality({u \in TypesOf(entities) : Before(entities, u, t)})
            < Clamp(maxClasses, 40, 200)}

\* Mutant: the first relation of a type decides.
EndTypesOfFirst(entities, relations, type, end) ==
    LET first == relations[SelectInSeq(relations, LAMBDA r : r.type = type)]
    IN  {entities[i].type : i \in {j \in DOMAIN entities : entities[j].id = first[end]}}

EndTypes(entities, relations, type, end) ==
    {entities[i].type : i \in {j \in DOMAIN entities : \E k \in DOMAIN relations :
        relations[k].type = type /\ relations[k][end] = entities[j].id}}

Candidates(entities, relations, maxClasses) ==
    [classes |-> Classes(entities, maxClasses),
     relations |-> [t \in TypesOf(relations) |->
                       [sources |-> EndTypes(entities, relations, t, "source"),
                        targets |-> EndTypes(entities, relations, t, "target")]],
     truncated |-> Classes(entities, maxClasses) # TypesOf(entities)]

(* derive_graph_schema of a definition made of the candidates.             *)
SchemaOf(candidates) ==
    [entity |-> [t \in candidates.classes |-> NoProperty],
     relation |-> [t \in DOMAIN candidates.relations |->
                      [sources |-> candidates.relations[t].sources,
                       targets |-> candidates.relations[t].targets, single |-> FALSE]]]

(* diff_products, of two functions from types to what they declare.        *)
Diff(from, to) ==
    LET common == DOMAIN from \cap DOMAIN to
    IN  [added |-> DOMAIN to \ DOMAIN from, removed |-> DOMAIN from \ DOMAIN to,
         unchanged |-> common, changed |-> {t \in common : from[t] # to[t]}]
=============================================================================
