------------------------------- MODULE Sparql -------------------------------
(***************************************************************************)
(* A SPARQL query of the service (application/service.py, sparql) through  *)
(* the guards of adapters/rdf.py: the scanner that finds the form of the   *)
(* query, the whitelist of forms, the row budget and the timeout.          *)
(*                                                                         *)
(* A text is a sequence of pieces.  A piece is one character where the     *)
(* scanner tells characters apart, and a run of other characters where it  *)
(* does not: a keyword, or "x" for anything else.  Case is folded.         *)
(***************************************************************************)
EXTENDS Integers, SequencesExt

CONSTANTS Text,             \* the queries considered
          Row,              \* how many rows (or triples) the store may find
          Limit,            \* the limits callers give
          MaxRows,          \* values of GRAPH_ENGINE_SPARQL_MAX_ROWS
          DefaultMaxRows    \* DEFAULT_MAX_ROWS

Blank == {"ws", "nl"}
Quote == {"quote", "apos"}
Stop == Blank \cup Quote \cup {"hash", "lt", "gt", "comma"}
Reads == {"SELECT", "ASK", "CONSTRUCT", "DESCRIBE"}
Plain == Reads \cup {"INSERT", "BASE", "PREFIX", "bs", "x"}

ASSUME SparqlAssumption ==
    /\ Text \subseteq Seq(Stop \cup Plain)
    /\ Row \subseteq Nat /\ Limit \subseteq Int /\ MaxRows \subseteq Int
    /\ DefaultMaxRows \in Nat \ {0}

VARIABLES
    text,       \* the query
    pc,
    at,         \* the scanner's position
    tokens,     \* what it has read, each token the sequence of its pieces
    turn,       \* the parity of the scanner's turns: a turn is always a step
    limit, maxRows, timed,   \* the caller's limit and the two settings, from
                             \* where they are first looked at
    rows,       \* the rows the store has for the query
    got,        \* the rows taken from it
    truncated,
    late        \* the deadline has passed

request == <<text, limit, maxRows, timed>>
scanner == <<at, tokens, turn>>
answer == <<rows, got, truncated, late>>
vars == <<request, pc, scanner, answer>>

Init ==
    /\ text \in Text
    /\ limit = 0 /\ maxRows = 0 /\ timed = FALSE
    /\ pc = "request"
    /\ at = 1 /\ tokens = <<>> /\ turn = 0
    /\ rows = 0 /\ got = 0 /\ truncated = FALSE /\ late = FALSE

-----------------------------------------------------------------------------
(* service.sparql, up to the scanner: the graph may be missing, the text   *)
(* blank, the library not installed.  The view of the graph is built from  *)
(* its active records before the query is looked at.                       *)
Begin ==
    /\ pc = "request"
    /\ \/ pc' = "refused"                          \* no such graph, no library
       \/ pc' = IF ToSet(text) \subseteq Blank THEN "refused" ELSE "scan"
    /\ UNCHANGED <<request, scanner, answer>>

Until(k, pieces) ==
    LET hits == {p \in k .. Len(text) : text[p] \in pieces}
    IN  IF hits = {} THEN Len(text) + 1 ELSE Min(hits)

Scanning == pc = "scan" /\ at <= Len(text)

Advance(k) ==
    /\ at' = k /\ turn' = 1 - turn
    /\ UNCHANGED <<request, pc, answer>>

SkipBlank == Scanning /\ text[at] \in Blank /\ Advance(at + 1) /\ UNCHANGED tokens

SkipComment ==
    /\ Scanning /\ text[at] = "hash"
    /\ Advance(Until(at, {"nl"}))
    /\ UNCHANGED tokens

ThreeQuotes(k) ==
    /\ k + 2 <= Len(text)
    /\ \A p \in k .. k + 2 : text[p] = text[at]

(* Behind a long string: three quotes that close it, or the end.           *)
LongEnd ==
    LET hits == {k \in at + 3 .. Len(text) : ThreeQuotes(k)}
    IN  3 + IF hits = {} THEN Len(text) + 1 ELSE Min(hits)

(* Behind a short string: a backslash takes the next character with it.    *)
ShortEnd ==
    LET end[k \in at + 1 .. Len(text) + 2] ==
            IF k > Len(text) THEN k
            ELSE IF text[k] = "bs" THEN end[k + 2]
            ELSE IF text[k] = text[at] THEN k + 1
            ELSE end[k + 1]
    IN  end[at + 1]

TakeString ==
    /\ Scanning /\ text[at] \in Quote
    /\ Advance(IF ThreeQuotes(at) THEN LongEnd ELSE ShortEnd)
    /\ tokens' = Append(tokens, <<"_STR">>)

IriEnd == Until(at + 1, {"gt"})
IsIri == IriEnd <= Len(text) /\ \A p \in at .. IriEnd : text[p] \notin Blank

TakeIri ==
    /\ Scanning /\ text[at] = "lt" /\ IsIri
    /\ Advance(IriEnd + 1)
    /\ tokens' = Append(tokens, SubSeq(text, at, IriEnd))

\* Mutant: the comparison sign is read, but not passed.
RereadLess ==
    /\ Scanning /\ text[at] = "lt" /\ ~IsIri
    /\ Advance(at)
    /\ UNCHANGED tokens

TakeLess ==
    /\ Scanning /\ text[at] = "lt" /\ ~IsIri
    /\ Advance(at + 1)
    /\ tokens' = Append(tokens, <<"lt">>)

\* Mutant: a comment directly behind a word is taken for a part of it.
TakeWordAndComment ==
    /\ Scanning /\ text[at] \notin {"hash", "lt"} \cup Blank \cup Quote
    /\ LET end == Until(at, Stop \ {"hash"})
       IN  /\ Advance(end)
           /\ tokens' = IF end = at THEN tokens
                        ELSE Append(tokens, SubSeq(text, at, end - 1))

(* A word up to the next stop.  A bare ">" or "," is a stop, and nothing   *)
(* else takes it: the word is empty and the scanner does not move.  (The   *)
(* empty words, one more with each turn, are not kept.)                    *)
TakeWord ==
    /\ Scanning /\ text[at] \notin {"hash", "lt"} \cup Blank \cup Quote
    /\ LET end == Until(at, Stop)
       IN  /\ Advance(end)
           /\ tokens' = IF end = at THEN tokens
                        ELSE Append(tokens, SubSeq(text, at, end - 1))

EndScan ==
    /\ pc = "scan" /\ at > Len(text)
    /\ pc' = "admit"
    /\ UNCHANGED <<request, scanner, answer>>

-----------------------------------------------------------------------------
\* Mutant: any reading form that occurs will do.
FormAnywhere ==
    \E k \in DOMAIN tokens : Len(tokens[k]) = 1 /\ tokens[k][1] \in Reads

(* _query_operation: the first token behind the declarations.              *)
FormAllowed ==
    LET form[k \in 1 .. Len(tokens) + 3] ==
            IF k > Len(tokens) THEN FALSE
            ELSE IF tokens[k] = <<"BASE">> THEN form[k + 2]
            ELSE IF tokens[k] = <<"PREFIX">> THEN form[k + 3]
            ELSE Len(tokens[k]) = 1 /\ tokens[k][1] \in Reads
    IN  form[1]

Refuse ==
    /\ pc = "admit" /\ ~FormAllowed
    /\ pc' = "refused"
    /\ UNCHANGED <<request, scanner, answer>>

(* The deadline is set and the store runs the query: it finds an error,    *)
(* answers yes or no, or has some rows.                                    *)
Execute ==
    /\ pc = "admit" /\ FormAllowed
    /\ \/ pc' \in {"refused", "boolean"} /\ UNCHANGED rows
       \/ pc' = "rows" /\ rows' \in Row
    /\ limit' \in Limit /\ maxRows' \in MaxRows /\ timed' \in BOOLEAN
    /\ UNCHANGED <<text, scanner, got, truncated, late>>

\* Mutant: a limit of 0 or less counts as one.
BudgetOfAnyLimit ==
    LET cap == IF maxRows <= 0 THEN DefaultMaxRows ELSE maxRows
    IN  IF limit < cap THEN limit ELSE cap

(* _effective_budget *)
Budget ==
    LET cap == IF maxRows <= 0 THEN DefaultMaxRows ELSE maxRows
    IN  IF limit > 0 /\ limit < cap THEN limit ELSE cap

(* One turn of the loop over the result.                                   *)
TakeRow ==
    /\ pc = "rows" /\ got < rows
    /\ IF late
       THEN pc' = "refused" /\ UNCHANGED <<got, truncated>>
       ELSE IF got >= Budget
       THEN pc' = "last" /\ truncated' = TRUE /\ UNCHANGED got
       ELSE got' = got + 1 /\ UNCHANGED <<pc, truncated>>
    /\ UNCHANGED <<request, scanner, rows, late>>

(* The checks behind the loop, and those of a boolean answer.              *)
Return ==
    /\ \/ pc = "rows" /\ got = rows
       \/ pc \in {"last", "boolean"}
    /\ pc' = IF late THEN "refused" ELSE "answered"
    /\ UNCHANGED <<request, scanner, answer>>

Expire ==
    /\ timed /\ ~late /\ pc \in {"rows", "last", "boolean"}
    /\ late' = TRUE
    /\ UNCHANGED <<request, pc, scanner, rows, got, truncated>>

Rest == pc \in {"answered", "refused"} /\ UNCHANGED vars

Scan == \/ SkipBlank \/ SkipComment \/ TakeString \/ TakeIri \/ TakeLess
        \/ TakeWord \/ EndScan

Serve == Begin \/ Scan \/ Refuse \/ Execute \/ TakeRow \/ Return

Next == Serve \/ Expire \/ Rest

(* The service goes on with a query it has begun, and the store with the   *)
(* rows of a result, which are finitely many.                              *)
Spec == Init /\ [][Next]_vars /\ WF_vars(Serve)

-----------------------------------------------------------------------------
(* Every variable has its type.                                            *)
TypeOK ==
    /\ text \in Text /\ limit \in Limit \cup {0} /\ maxRows \in MaxRows \cup {0}
    /\ timed \in BOOLEAN /\ truncated \in BOOLEAN /\ late \in BOOLEAN
    /\ pc \in {"request", "scan", "admit", "rows", "last", "boolean",
               "answered", "refused"}
    /\ at \in 1 .. Len(text) + 4 /\ turn \in {0, 1}
    /\ tokens \in Seq(Seq(Stop \cup Plain \cup {"_STR"}))
    /\ rows \in Row \cup {0} /\ got \in 0 .. rows

(* The reference for the scanner: how a text is cut into lexemes.          *)
AllIn(a, b, pieces) == \A p \in a .. b : text[p] \in pieces

Three(a, k) == k + 2 <= Len(text) /\ AllIn(k, k + 2, {text[a]})

Escapes(a, k) == Max({n \in 0 .. k - a - 1 : AllIn(k - n, k - 1, {"bs"})})

Closes(a, b) ==
    IF Three(a, a) THEN b >= a + 5 /\ Three(a, b - 2)
    ELSE b > a /\ text[b] = text[a] /\ Escapes(a, b) % 2 = 0

IsLexeme(a, b) ==
    CASE text[a] \in Blank -> a = b
      [] text[a] = "hash" -> /\ AllIn(a, b, (Stop \cup Plain) \ {"nl"})
                             /\ b = Len(text) \/ text[b + 1] = "nl"
      [] text[a] \in Quote -> /\ Closes(a, b) \/ b = Len(text)
                              /\ \A k \in a .. b - 1 : ~Closes(a, k)
      [] text[a] = "lt" -> LET Ends(k) == /\ text[k] = "gt"
                                          /\ AllIn(a, k - 1, (Stop \cup Plain)
                                                             \ (Blank \cup {"gt"}))
                           IN  \/ Ends(b)
                               \/ a = b /\ \A k \in a + 1 .. Len(text) : ~Ends(k)
      [] OTHER -> AllIn(a, b, Plain) /\ (b = Len(text) \/ text[b + 1] \in Stop)

EndIn(cuts, a) == IF \E c \in cuts : c > a
                  THEN Min({c \in cuts : c > a}) - 1 ELSE Len(text)

Cuts == {cuts \in SUBSET (1 .. Len(text)) :
            1 \in cuts /\ \A a \in cuts : IsLexeme(a, EndIn(cuts, a))}

(* The tokens are the words of the cuts, one after the other.              *)
AreWords(cuts) ==
    LET words == {a \in cuts : text[a] \notin Blank \cup {"hash"}}
    IN  /\ Len(tokens) = Cardinality(words)
        /\ \A a \in words :
              tokens[Cardinality({w \in words : w <= a})] =
                  IF text[a] \in Quote THEN <<"_STR">> ELSE SubSeq(text, a, EndIn(cuts, a))

Stuck == Scanning /\ Until(at, Stop) = at /\ text[at] \in {"gt", "comma"}

(* The scanner cuts a text as the reference does, so that no keyword is    *)
(* read inside a comment, a string or an IRI, and it is stuck on exactly   *)
(* the texts the reference cannot cut.                                     *)
CutsIntoLexemes ==
    /\ pc = "admit" => \E cuts \in Cuts : AreWords(cuts)
    /\ Stuck => Cuts = {}

(* What is executed begins with a reading form: all that stands before it  *)
(* are declarations, three tokens to a PREFIX and two to a BASE.           *)
OnlyReads ==
    pc \in {"rows", "last", "boolean", "answered"} =>
        \E k \in DOMAIN tokens :
            /\ \E form \in Reads : tokens[k] = <<form>>
            /\ \A j \in 1 .. k - 1 : \E d \in 1 .. j :
                  \/ tokens[d] = <<"BASE">> /\ j <= d + 1
                  \/ tokens[d] = <<"PREFIX">> /\ j <= d + 2

(* An answer has all the rows or says that it has not, it never has more   *)
(* than the caller and the setting allow, and it is cut only where one of  *)
(* them says so: a limit of 0 or less is no limit, a setting of 0 or less  *)
(* stands for the default, and neither is an allowance of no rows.         *)
AnswersWithinBudget ==
    pc = "answered" =>
        /\ truncated <=> got < rows
        /\ limit > 0 => got <= limit
        /\ maxRows > 0 => got <= maxRows
        /\ maxRows <= 0 => got <= DefaultMaxRows
        /\ truncated => \/ limit > 0 /\ got = limit
                        \/ maxRows > 0 /\ got = maxRows
                        \/ maxRows <= 0 /\ got = DefaultMaxRows

(* A query comes to an end, unless the scanner reaches a bare ">" or ",":  *)
(* then it stays there, before any deadline is set.                        *)
EndsUnlessStuck == <>(pc \in {"answered", "refused"}) \/ <>[]Stuck
=============================================================================
