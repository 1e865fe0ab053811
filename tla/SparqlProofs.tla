---------------------------- MODULE SparqlProofs ----------------------------
(***************************************************************************)
(* Proofs about Sparql, for every set of queries, every result and every   *)
(* value of the limits.                                                    *)
(*                                                                         *)
(* The scanner and the whitelist skip through a text with functions that   *)
(* are defined by recursion.  What such a function computes follows from   *)
(* the least number of a set: of the places where it would not, take the   *)
(* one nearest to the end.                                                 *)
(*                                                                         *)
(* That the scanner cuts as the reference does: each turn takes a lexeme   *)
(* (TurnTakes), no other lexeme begins at that place (OneLexeme), and what *)
(* has been read stays a cutting as it grows (CutsGrow, WordsGrow).        *)
(***************************************************************************)
EXTENDS Sparql, FiniteSetTheorems, WellFoundedInduction, TLAPS

-----------------------------------------------------------------------------
(* A set of natural numbers has a least one.                               *)
LEMMA LeastNumber ==
    ASSUME NEW T \in SUBSET Nat, T # {}
    PROVE  \E n \in T : \A m \in T : n <= m
<1> DEFINE R == OpToRel(<, Nat)
<1>1. R = {pair \in Nat \X Nat : pair[1] < pair[2]}
    BY Zenon DEF OpToRel
<1>2. IsWellFoundedOn(R, Nat)
    BY Zenon, NatLessThanWellFounded
<1> HIDE DEF R
<1>3. PICK n \in T : \A m \in T : ~(<<m, n>> \in R)
    BY <1>2, WFMin
<1>4. ASSUME NEW m \in T PROVE n <= m
  <2>1. m < n => <<m, n>> \in R
      BY <1>1
  <2>2. ~(m < n)
      BY <1>3, <2>1
  <2>3. QED  BY <2>2
<1>5. QED  BY <1>4

(* A set of numbers below a bound has a greatest one.                      *)
LEMMA GreatestNumber ==
    ASSUME NEW hi \in Int, NEW T \in SUBSET Int, T # {}, \A k \in T : k <= hi
    PROVE  \E n \in T : \A m \in T : m <= n
<1> DEFINE gaps == {hi - k : k \in T}
<1>1. gaps \in SUBSET Nat /\ gaps # {}
  <2>1. \A k \in T : hi - k \in Nat
      OBVIOUS
  <2>2. QED  BY <2>1
<1>2. PICK g \in gaps : \A h \in gaps : g <= h
    BY <1>1, LeastNumber
<1>3. PICK n \in T : g = hi - n
    BY <1>2
<1>4. ASSUME NEW m \in T PROVE m <= n
  <2>1. hi - m \in gaps
      OBVIOUS
  <2>2. g <= hi - m
      BY <1>2, <2>1
  <2> HIDE DEF gaps
  <2>3. QED  BY <1>3, <2>2
<1>5. QED  BY <1>4

(* A set of numbers above a bound has a least one.                         *)
LEMMA LeastInteger ==
    ASSUME NEW lo \in Int, NEW T \in SUBSET Int, T # {}, \A k \in T : lo <= k
    PROVE  \E n \in T : \A m \in T : n <= m
<1> DEFINE gaps == {k - lo : k \in T}
<1>1. gaps \in SUBSET Nat /\ gaps # {}
  <2>1. \A k \in T : k - lo \in Nat
      OBVIOUS
  <2>2. QED  BY <2>1
<1>2. PICK g \in gaps : \A h \in gaps : g <= h
    BY <1>1, LeastNumber
<1>3. PICK n \in T : g = n - lo
    BY <1>2
<1>4. ASSUME NEW m \in T PROVE n <= m
  <2>1. m - lo \in gaps
      OBVIOUS
  <2>2. g <= m - lo
      BY <1>2, <2>1
  <2> HIDE DEF gaps
  <2>3. QED  BY <1>3, <2>2
<1>5. QED  BY <1>4

(* A function that, at every place, either is given or is what it is at a  *)
(* place further on, exists: the recursion ends at the last place.         *)
Jumps(f, lo, hi, given, value, next) ==
    f = [k \in lo .. hi |-> IF given[k] THEN value[k] ELSE f[next[k]]]

LEMMA JumpsEnd ==
    ASSUME NEW lo \in Int, NEW hi \in Int,
           NEW given, NEW value, NEW next,
           \A k \in lo .. hi : ~given[k] => next[k] \in k + 1 .. hi
    PROVE  \E f : Jumps(f, lo, hi, given, value, next)
<1> SUFFICES \E f : f = [k \in lo .. hi |-> IF given[k] THEN value[k] ELSE f[next[k]]]
    BY DEF Jumps
<1> DEFINE From(n) == \E f : f = [k \in n .. hi |-> IF given[k] THEN value[k] ELSE f[next[k]]]
           bad == {n \in lo .. hi + 1 : ~From(n)}
<1>1. From(hi + 1)
  <2>1. hi + 1 .. hi = {}
      OBVIOUS
  <2> DEFINE e == [k \in {} |-> 0]
  <2>2. e = [k \in hi + 1 .. hi |-> IF given[k] THEN value[k] ELSE e[next[k]]]
      BY <2>1
  <2>3. QED  BY <2>2
<1>2. ASSUME NEW n \in lo .. hi, From(n + 1) PROVE From(n)
  <2>1. PICK f : f = [k \in n + 1 .. hi |-> IF given[k] THEN value[k] ELSE f[next[k]]]
      BY <1>2
  <2> DEFINE g == [k \in n .. hi |->
                      IF k = n THEN (IF given[n] THEN value[n] ELSE f[next[n]]) ELSE f[k]]
             h == [k \in n .. hi |-> IF given[k] THEN value[k] ELSE g[next[k]]]
  <2>2. ASSUME NEW k \in n .. hi PROVE g[k] = h[k]
    <3>1. ~given[k] => next[k] \in n + 1 .. hi /\ g[next[k]] = f[next[k]]
        OBVIOUS
    <3>2. k # n => k \in n + 1 .. hi
        OBVIOUS
    <3>3. k # n => f[k] = IF given[k] THEN value[k] ELSE f[next[k]]
        BY <2>1, <3>2
    <3>4. QED  BY <3>1, <3>3
  <2>3. g = h
      BY <2>2
  <2> HIDE DEF g
  <2>4. QED  BY <2>3
<1> HIDE DEF From
<1>3. bad = {}
  <2>1. SUFFICES ASSUME bad # {} PROVE FALSE
      OBVIOUS
  <2> DEFINE top == hi + 1
  <2>2. top \in Int /\ bad \in SUBSET Int /\ \A k \in bad : k <= top
      OBVIOUS
  <2>3. PICK n \in bad : \A m \in bad : m <= n
    <3> HIDE DEF bad, top
    <3>1. QED  BY <2>1, <2>2, GreatestNumber
  <2>4. n # hi + 1
      BY <1>1
  <2>5. n \in lo .. hi /\ n + 1 \in lo .. hi + 1 /\ ~From(n)
      BY <2>3, <2>4
  <2>6. n + 1 \notin bad
      BY <2>3
  <2>7. From(n + 1)
      BY <2>5, <2>6
  <2>8. QED  BY <1>2, <2>5, <2>7
<1>4. CASE lo <= hi + 1
    BY <1>3, <1>4 DEF From
<1>5. CASE lo > hi + 1
  <2>1. lo .. hi = {}
      BY <1>5
  <2> DEFINE e == [k \in {} |-> 0]
  <2>2. e = [k \in lo .. hi |-> IF given[k] THEN value[k] ELSE e[next[k]]]
      BY <2>1
  <2>3. QED  BY <2>2
<1>6. QED  BY <1>4, <1>5

-----------------------------------------------------------------------------
(* The whitelist.  Where it says yes at a token, a reading form stands     *)
(* there or further on, and only declarations between.                     *)
Declared(ts, from, j) ==
    \E d \in from .. j : \/ ts[d] = <<"BASE">> /\ j <= d + 1
                         \/ ts[d] = <<"PREFIX">> /\ j <= d + 2

FormFrom(ts, from) ==
    \E k \in from .. Len(ts) :
        /\ Len(ts[k]) = 1 /\ ts[k][1] \in Reads
        /\ \A j \in from .. k - 1 : Declared(ts, from, j)

LEMMA FormIsFirst ==
    ASSUME tokens \in Seq(Seq(Stop \cup Plain \cup {"_STR"})), FormAllowed
    PROVE  FormFrom(tokens, 1)
<1> DEFINE n == Len(tokens)
           form[k \in 1 .. Len(tokens) + 3] ==
               IF k > Len(tokens) THEN FALSE
               ELSE IF tokens[k] = <<"BASE">> THEN form[k + 2]
               ELSE IF tokens[k] = <<"PREFIX">> THEN form[k + 3]
               ELSE Len(tokens[k]) = 1 /\ tokens[k][1] \in Reads
<1>1. form[1]
    BY DEF FormAllowed
<1>2. n \in Nat
    OBVIOUS
<1> DEFINE given == [k \in 1 .. n + 3 |->
                        k > n \/ (tokens[k] # <<"BASE">> /\ tokens[k] # <<"PREFIX">>)]
           value == [k \in 1 .. n + 3 |->
                        ~(k > n) /\ Len(tokens[k]) = 1 /\ tokens[k][1] \in Reads]
           next == [k \in 1 .. n + 3 |-> IF tokens[k] = <<"BASE">> THEN k + 2 ELSE k + 3]
<1>3. \E f : f = [k \in 1 .. n + 3 |-> IF given[k] THEN value[k] ELSE f[next[k]]]
  <2>1. ASSUME NEW k \in 1 .. n + 3, ~given[k] PROVE next[k] \in k + 1 .. n + 3
    <3>1. ~(k > n)
        BY <2>1
    <3>2. next[k] \in {k + 2, k + 3}
        OBVIOUS
    <3>3. QED  BY <1>2, <3>1, <3>2
  <2> DEFINE lo == 1
             hi == n + 3
  <2>2. lo \in Int /\ hi \in Int
      BY <1>2
  <2> HIDE DEF given, value, next, n
  <2>3. \A k \in lo .. hi : ~given[k] => next[k] \in k + 1 .. hi
      BY <2>1
  <2> HIDE DEF lo, hi
  <2>4. \E f : Jumps(f, lo, hi, given, value, next)
      BY <2>2, <2>3, JumpsEnd
  <2>5. QED  BY <2>4 DEF lo, hi, Jumps
<1>4. PICK f : f = [k \in 1 .. n + 3 |-> IF given[k] THEN value[k] ELSE f[next[k]]]
    BY <1>3
<1>5. f = [k \in 1 .. Len(tokens) + 3 |->
              IF k > Len(tokens) THEN FALSE
              ELSE IF tokens[k] = <<"BASE">> THEN f[k + 2]
              ELSE IF tokens[k] = <<"PREFIX">> THEN f[k + 3]
              ELSE Len(tokens[k]) = 1 /\ tokens[k][1] \in Reads]
  <2> DEFINE g == [k \in 1 .. Len(tokens) + 3 |->
                      IF k > Len(tokens) THEN FALSE
                      ELSE IF tokens[k] = <<"BASE">> THEN f[k + 2]
                      ELSE IF tokens[k] = <<"PREFIX">> THEN f[k + 3]
                      ELSE Len(tokens[k]) = 1 /\ tokens[k][1] \in Reads]
             h == [k \in 1 .. n + 3 |-> IF given[k] THEN value[k] ELSE f[next[k]]]
  <2>1. ASSUME NEW k \in 1 .. n + 3 PROVE g[k] = h[k]
      OBVIOUS
  <2>2. g = h
      BY <2>1
  <2> HIDE DEF g, h
  <2>3. f = h
      BY <1>4 DEF h
  <2>4. f = g
      BY <2>2, <2>3
  <2>5. QED  BY <2>4 DEF g
<1>6. form = [k \in 1 .. Len(tokens) + 3 |->
                 IF k > Len(tokens) THEN FALSE
                 ELSE IF tokens[k] = <<"BASE">> THEN form[k + 2]
                 ELSE IF tokens[k] = <<"PREFIX">> THEN form[k + 3]
                 ELSE Len(tokens[k]) = 1 /\ tokens[k][1] \in Reads]
    BY <1>5, Zenon
<1>7. ASSUME NEW k \in 1 .. n + 3, form[k]
      PROVE  /\ k <= n
             /\ tokens[k] = <<"BASE">> => k + 2 \in 1 .. n + 3 /\ form[k + 2]
             /\ tokens[k] = <<"PREFIX">> => k + 3 \in 1 .. n + 3 /\ form[k + 3]
             /\ (tokens[k] # <<"BASE">> /\ tokens[k] # <<"PREFIX">>) =>
                   Len(tokens[k]) = 1 /\ tokens[k][1] \in Reads
  <2>1. k <= n
    <3> HIDE DEF form
    <3>1. QED  BY <1>2, <1>6, <1>7
  <2>2. form[k] = IF k > Len(tokens) THEN FALSE
                 ELSE IF tokens[k] = <<"BASE">> THEN form[k + 2]
                 ELSE IF tokens[k] = <<"PREFIX">> THEN form[k + 3]
                 ELSE Len(tokens[k]) = 1 /\ tokens[k][1] \in Reads
    <3> HIDE DEF form
    <3>1. k \in 1 .. Len(tokens) + 3
        OBVIOUS
    <3>2. QED  BY <1>6, <3>1, Zenon
  <2>3. ~(k > Len(tokens))
      BY <1>2, <2>1
  <2>4. ASSUME tokens[k] = <<"BASE">> PROVE k + 2 \in 1 .. n + 3 /\ form[k + 2]
    <3> HIDE DEF form
    <3>1. form[k] <=> form[k + 2]
        BY <2>2, <2>3, <2>4, Zenon
    <3>2. QED  BY <1>2, <1>7, <2>1, <3>1
  <2>5. ASSUME tokens[k] = <<"PREFIX">> PROVE k + 3 \in 1 .. n + 3 /\ form[k + 3]
    <3> HIDE DEF form
    <3>1. tokens[k] # <<"BASE">>
        BY <2>5
    <3>2. form[k] <=> form[k + 3]
        BY <2>2, <2>3, <2>5, <3>1, Zenon
    <3>3. QED  BY <1>2, <1>7, <2>1, <3>2
  <2>6. ASSUME tokens[k] # <<"BASE">>, tokens[k] # <<"PREFIX">>
        PROVE  Len(tokens[k]) = 1 /\ tokens[k][1] \in Reads
    <3> HIDE DEF form
    <3>1. QED  BY <1>2, <1>6, <1>7, <2>1, <2>6
  <2>7. QED  BY <2>1, <2>4, <2>5, <2>6
<1> HIDE DEF form, n
<1>8. ASSUME NEW k \in 1 .. n + 3, NEW step \in {2, 3}, k + step \in 1 .. n + 3,
             FormFrom(tokens, k + step),
             \A j \in k .. k + step - 1 : Declared(tokens, k, j)
      PROVE  FormFrom(tokens, k)
  <2>1. PICK m \in k + step .. Len(tokens) :
            /\ Len(tokens[m]) = 1 /\ tokens[m][1] \in Reads
            /\ \A j \in k + step .. m - 1 : Declared(tokens, k + step, j)
      BY <1>8 DEF FormFrom
  <2>2. m \in k .. Len(tokens)
      BY <1>2, <2>1 DEF n
  <2>3. ASSUME NEW j \in k .. m - 1 PROVE Declared(tokens, k, j)
    <3>1. CASE j \in k .. k + step - 1
        BY <1>8, <3>1
    <3>2. CASE j \in k + step .. m - 1
      <4>1. Declared(tokens, k + step, j)
          BY <2>1, <3>2
      <4>2. \A d \in k + step .. j : d \in k .. j
          OBVIOUS
      <4>3. QED  BY <4>1, <4>2 DEF Declared
    <3>3. QED  BY <1>2, <2>1, <3>1, <3>2 DEF n
  <2>4. QED  BY <2>1, <2>2, <2>3 DEF FormFrom
<1> DEFINE top == n + 3
           bad == {k \in 1 .. n + 3 : form[k] /\ ~FormFrom(tokens, k)}
<1>9. bad = {}
  <2>1. SUFFICES ASSUME bad # {} PROVE FALSE
      OBVIOUS
  <2>2. top \in Int /\ bad \in SUBSET Int /\ \A k \in bad : k <= top
      BY <1>2
  <2>3. PICK k \in bad : \A m \in bad : m <= k
    <3> HIDE DEF bad, top
    <3>1. QED  BY <2>1, <2>2, GreatestNumber
  <2>4. k \in 1 .. n + 3 /\ form[k] /\ ~FormFrom(tokens, k)
      OBVIOUS
  <2>5. k \in 1 .. n /\ k \in k .. Len(tokens)
      BY <1>2, <1>7, <2>4 DEF n
  <2>6. ASSUME NEW step \in {2, 3}, k + step \in 1 .. n + 3, form[k + step]
        PROVE  FormFrom(tokens, k + step)
    <3>1. k + step \notin bad
        BY <1>2, <2>3, <2>4
    <3>2. QED  BY <2>6, <3>1
  <2>7. CASE tokens[k] = <<"BASE">>
    <3>1. k + 2 \in 1 .. n + 3 /\ FormFrom(tokens, k + 2)
        BY <1>7, <2>4, <2>6, <2>7
    <3>2. \A j \in k .. k + 1 : Declared(tokens, k, j)
        BY <2>4, <2>7 DEF Declared
    <3>3. QED  BY <1>2, <1>8, <2>4, <3>1, <3>2
  <2>8. CASE tokens[k] = <<"PREFIX">>
    <3>1. k + 3 \in 1 .. n + 3 /\ FormFrom(tokens, k + 3)
        BY <1>7, <2>4, <2>6, <2>8
    <3>2. \A j \in k .. k + 2 : Declared(tokens, k, j)
        BY <2>4, <2>8 DEF Declared
    <3>3. QED  BY <1>2, <1>8, <2>4, <3>1, <3>2
  <2>9. CASE tokens[k] # <<"BASE">> /\ tokens[k] # <<"PREFIX">>
    <3>1. Len(tokens[k]) = 1 /\ tokens[k][1] \in Reads
        BY <1>7, <2>4, <2>9
    <3>2. k .. k - 1 = {}
        BY <2>4
    <3>3. QED  BY <2>4, <2>5, <3>1, <3>2 DEF FormFrom
  <2>10. QED  BY <2>7, <2>8, <2>9
<1>10. form[1] /\ 1 \in 1 .. n + 3
    BY <1>1, <1>2
<1>11. QED  BY <1>9, <1>10

-----------------------------------------------------------------------------
(* The scanner.  A short string goes on from place to place.               *)
LEMMA ShortEndGoesOn ==
    ASSUME text \in Seq(Stop \cup Plain), at \in 1 .. Len(text)
    PROVE  \E end : /\ ShortEnd = end[at + 1]
                    /\ \A k \in at + 1 .. Len(text) + 2 :
                          end[k] = IF k > Len(text) THEN k
                                   ELSE IF text[k] = "bs" THEN end[k + 2]
                                   ELSE IF text[k] = text[at] THEN k + 1
                                   ELSE end[k + 1]
<1> DEFINE n == Len(text)
           end[k \in at + 1 .. Len(text) + 2] ==
               IF k > Len(text) THEN k
               ELSE IF text[k] = "bs" THEN end[k + 2]
               ELSE IF text[k] = text[at] THEN k + 1
               ELSE end[k + 1]
<1>1. ShortEnd = end[at + 1]
    BY DEF ShortEnd
<1>2. n \in Nat /\ at \in 1 .. n
    OBVIOUS
<1> DEFINE lo == at + 1
           hi == n + 2
           given == [k \in lo .. hi |-> k > n \/ (text[k] # "bs" /\ text[k] = text[at])]
           value == [k \in lo .. hi |-> IF k > n THEN k ELSE k + 1]
           next == [k \in lo .. hi |-> IF text[k] = "bs" THEN k + 2 ELSE k + 1]
<1>3. PICK f : Jumps(f, lo, hi, given, value, next)
  <2>1. lo \in Int /\ hi \in Int
      BY <1>2
  <2>2. ASSUME NEW k \in lo .. hi, ~given[k] PROVE next[k] \in k + 1 .. hi
    <3>1. ~(k > n)
        BY <2>2
    <3>2. next[k] \in {k + 1, k + 2}
        OBVIOUS
    <3>3. QED  BY <1>2, <3>1, <3>2
  <2> HIDE DEF lo, hi, given, value, next
  <2>3. QED  BY <2>1, <2>2, JumpsEnd
<1>4. f = [k \in at + 1 .. Len(text) + 2 |->
              IF k > Len(text) THEN k
              ELSE IF text[k] = "bs" THEN f[k + 2]
              ELSE IF text[k] = text[at] THEN k + 1
              ELSE f[k + 1]]
  <2> DEFINE g == [k \in at + 1 .. Len(text) + 2 |->
                      IF k > Len(text) THEN k
                      ELSE IF text[k] = "bs" THEN f[k + 2]
                      ELSE IF text[k] = text[at] THEN k + 1
                      ELSE f[k + 1]]
             h == [k \in lo .. hi |-> IF given[k] THEN value[k] ELSE f[next[k]]]
  <2>1. ASSUME NEW k \in lo .. hi PROVE g[k] = h[k]
      OBVIOUS
  <2>2. g = h
      BY <2>1
  <2>3. f = h
      BY <1>3 DEF Jumps
  <2> HIDE DEF g, h
  <2>4. f = g
      BY <2>2, <2>3
  <2>5. QED  BY <2>4 DEF g
<1>5. end = [k \in at + 1 .. Len(text) + 2 |->
                IF k > Len(text) THEN k
                ELSE IF text[k] = "bs" THEN end[k + 2]
                ELSE IF text[k] = text[at] THEN k + 1
                ELSE end[k + 1]]
    BY <1>4, Zenon
<1> HIDE DEF end
<1>6. ASSUME NEW k \in at + 1 .. Len(text) + 2
      PROVE  end[k] = IF k > Len(text) THEN k
                      ELSE IF text[k] = "bs" THEN end[k + 2]
                      ELSE IF text[k] = text[at] THEN k + 1
                      ELSE end[k + 1]
    BY <1>5, Zenon
<1>7. QED  BY <1>1, <1>6

(* The end of a short string lies behind its first quote and at most two   *)
(* pieces behind the end of the text.                                      *)
LEMMA ShortEndBound ==
    ASSUME text \in Seq(Stop \cup Plain), at \in 1 .. Len(text)
    PROVE  ShortEnd \in at + 1 .. Len(text) + 2
<1> DEFINE n == Len(text)
           lo == at + 1
           hi == n + 2
<1>1. PICK end : /\ ShortEnd = end[at + 1]
                 /\ \A k \in at + 1 .. Len(text) + 2 :
                       end[k] = IF k > Len(text) THEN k
                                ELSE IF text[k] = "bs" THEN end[k + 2]
                                ELSE IF text[k] = text[at] THEN k + 1
                                ELSE end[k + 1]
    BY ShortEndGoesOn
<1>2. n \in Nat /\ at \in 1 .. n
    OBVIOUS
<1> DEFINE bad == {k \in lo .. hi : end[k] \notin k .. hi}
<1>6. bad = {}
  <2>1. SUFFICES ASSUME bad # {} PROVE FALSE
      OBVIOUS
  <2>2. hi \in Int /\ bad \in SUBSET Int /\ \A k \in bad : k <= hi
      BY <1>2
  <2>3. PICK k \in bad : \A m \in bad : m <= k
    <3> HIDE DEF bad, hi
    <3>1. QED  BY <2>1, <2>2, GreatestNumber
  <2>4. k \in lo .. hi /\ end[k] \notin k .. hi
      OBVIOUS
  <2>5. \A m \in k + 1 .. hi : end[m] \in m .. hi
      BY <1>2, <2>3
  <2>6. end[k] = IF k > n THEN k
                ELSE IF text[k] = "bs" THEN end[k + 2]
                ELSE IF text[k] = text[at] THEN k + 1
                ELSE end[k + 1]
      BY <1>1, <2>4
  <2> HIDE DEF bad
  <2>7. CASE k > n
      BY <1>2, <2>4, <2>6, <2>7
  <2>8. CASE ~(k > n)
    <3>1. end[k + 1] \in k + 1 .. hi /\ end[k + 2] \in k + 2 .. hi
        BY <1>2, <2>4, <2>5, <2>8
    <3>2. QED  BY <1>2, <2>4, <2>6, <2>8, <3>1
  <2>9. QED  BY <2>7, <2>8
<1>7. lo \in lo .. hi
    BY <1>2
<1>8. QED  BY <1>1, <1>2, <1>6, <1>7

(* The place of the next of some pieces, or the end of the text.           *)
LEMMA UntilBound ==
    ASSUME text \in Seq(Stop \cup Plain), NEW k \in 1 .. Len(text) + 1, NEW pieces
    PROVE  Until(k, pieces) \in k .. Len(text) + 1
<1> DEFINE hits == {p \in k .. Len(text) : text[p] \in pieces}
<1>1. CASE hits = {}
    BY <1>1 DEF Until
<1>2. CASE hits # {}
  <2>1. k \in Int /\ hits \in SUBSET Int /\ \A p \in hits : k <= p
      OBVIOUS
  <2>2. \E p \in hits : \A q \in hits : p <= q
    <3> HIDE DEF hits
    <3>1. QED  BY <1>2, <2>1, LeastInteger
  <2>3. Min(hits) \in hits
      BY <2>2 DEF Min
  <2>4. QED  BY <1>2, <2>3 DEF Until
<1>3. QED  BY <1>1, <1>2

LEMMA LongEndBound ==
    ASSUME text \in Seq(Stop \cup Plain), at \in 1 .. Len(text)
    PROVE  LongEnd \in at + 1 .. Len(text) + 4
<1> DEFINE hits == {k \in at + 3 .. Len(text) : ThreeQuotes(k)}
<1>1. CASE hits = {}
    BY <1>1 DEF LongEnd
<1>2. CASE hits # {}
  <2>1. at + 3 \in Int /\ hits \in SUBSET Int /\ \A p \in hits : at + 3 <= p
      OBVIOUS
  <2>2. \E p \in hits : \A q \in hits : p <= q
    <3> DEFINE lo == at + 3
    <3>1. lo \in Int /\ \A p \in hits : lo <= p
        BY <2>1
    <3> HIDE DEF hits, lo
    <3>2. QED  BY <1>2, <2>1, <3>1, LeastInteger
  <2>3. Min(hits) \in hits
      BY <2>2 DEF Min
  <2>4. QED  BY <1>2, <2>3 DEF LongEnd
<1>3. QED  BY <1>1, <1>2

-----------------------------------------------------------------------------
(* Every variable has its type, and nothing is counted before the store    *)
(* has run the query.                                                      *)
Counting ==
    /\ pc \in {"request", "scan", "admit", "boolean"} => rows = 0 /\ got = 0
    /\ pc \in {"request", "scan", "admit", "boolean", "rows"} => ~truncated

TypeInv == TypeOK /\ Counting

LEMMA TextType ==
    ASSUME TypeInv
    PROVE  /\ text \in Seq(Stop \cup Plain) /\ Len(text) \in Nat
           /\ \A p \in 1 .. Len(text) : text[p] \in Stop \cup Plain
    BY SparqlAssumption DEF TypeInv, TypeOK

LEMMA ScanType ==
    ASSUME TypeInv, Scan
    PROVE  TypeInv'
<1> DEFINE Token == Seq(Stop \cup Plain \cup {"_STR"})
           n == Len(text)
<1>1. text \in Seq(Stop \cup Plain) /\ n \in Nat
    BY TextType
<1>2. at \in 1 .. n + 4 /\ turn \in {0, 1} /\ tokens \in Seq(Token)
    BY DEF TypeInv, TypeOK
<1>3. ASSUME NEW a \in 1 .. n, NEW b \in 1 .. n PROVE SubSeq(text, a, b) \in Token
  <2>1. SubSeq(text, a, b) \in Seq(Stop \cup Plain)
      BY <1>1
  <2>2. QED  BY <2>1
<1>4. ASSUME Scanning, NEW k \in 1 .. n + 4, Advance(k), tokens' \in Seq(Token)
      PROVE  TypeInv'
    BY <1>2, <1>4 DEF TypeInv, TypeOK, Counting, Scanning, Advance, request, answer
<1>5. ASSUME Scanning PROVE at \in 1 .. n
    BY <1>2, <1>5 DEF Scanning
<1>6. CASE SkipBlank
  <2>1. at + 1 \in 1 .. n + 4 /\ tokens' \in Seq(Token)
      BY <1>1, <1>2, <1>5, <1>6 DEF SkipBlank
  <2>2. QED  BY <1>4, <1>6, <2>1 DEF SkipBlank
<1>7. CASE SkipComment
  <2>1. Until(at, {"nl"}) \in 1 .. n + 4 /\ tokens' \in Seq(Token)
      BY <1>1, <1>2, <1>5, <1>7, UntilBound DEF SkipComment
  <2>2. QED  BY <1>4, <1>7, <2>1 DEF SkipComment
<1>8. CASE TakeString
  <2> DEFINE k == IF ThreeQuotes(at) THEN LongEnd ELSE ShortEnd
  <2>1. at \in 1 .. n
      BY <1>5, <1>8 DEF TakeString
  <2>2. LongEnd \in 1 .. n + 4 /\ ShortEnd \in 1 .. n + 4
      BY <1>1, <2>1, LongEndBound, ShortEndBound
  <2>3. k \in 1 .. n + 4
      BY <2>2
  <2>4. tokens' \in Seq(Token)
    <3>1. <<"_STR">> \in Token
        OBVIOUS
    <3>2. QED  BY <1>2, <1>8, <3>1 DEF TakeString
  <2>5. Scanning /\ Advance(k)
      BY <1>8 DEF TakeString
  <2> HIDE DEF k
  <2>6. QED  BY <1>4, <2>3, <2>4, <2>5
<1>9. CASE TakeIri
  <2>1. at \in 1 .. n /\ IriEnd <= n
      BY <1>5, <1>9 DEF TakeIri, IsIri
  <2>2. IriEnd \in at + 1 .. n
      BY <1>1, <2>1, UntilBound DEF IriEnd
  <2>3. IriEnd + 1 \in 1 .. n + 4
      BY <1>1, <2>1, <2>2
  <2>4. SubSeq(text, at, IriEnd) \in Token
      BY <1>1, <1>3, <2>1, <2>2
  <2>5. tokens' \in Seq(Token)
      BY <1>2, <1>9, <2>4 DEF TakeIri
  <2>6. QED  BY <1>4, <1>9, <2>3, <2>5 DEF TakeIri
<1>10. CASE TakeLess
  <2>1. <<"lt">> \in Token
      BY DEF Stop
  <2>2. at + 1 \in 1 .. n + 4 /\ tokens' \in Seq(Token)
      BY <1>1, <1>2, <1>5, <1>10, <2>1 DEF TakeLess
  <2>3. QED  BY <1>4, <1>10, <2>2 DEF TakeLess
<1>11. CASE TakeWord
  <2> DEFINE end == Until(at, Stop)
  <2>1. at \in 1 .. n
      BY <1>5, <1>11 DEF TakeWord
  <2>2. end \in at .. n + 1
      BY <1>1, <2>1, UntilBound
  <2>3. tokens' = IF end = at THEN tokens ELSE Append(tokens, SubSeq(text, at, end - 1))
      BY <1>11 DEF TakeWord
  <2>4. Scanning /\ Advance(end)
      BY <1>11 DEF TakeWord
  <2> HIDE DEF end
  <2>5. end # at => end - 1 \in 1 .. n
      BY <1>1, <2>1, <2>2
  <2>6. tokens' \in Seq(Token)
      BY <1>2, <1>3, <2>1, <2>3, <2>5
  <2>7. end \in 1 .. n + 4
      BY <1>1, <2>1, <2>2
  <2>8. QED  BY <1>4, <2>4, <2>6, <2>7
<1>12. CASE EndScan
    BY <1>12 DEF EndScan, TypeInv, TypeOK, Counting, request, scanner, answer
<1>13. QED  BY <1>6, <1>7, <1>8, <1>9, <1>10, <1>11, <1>12 DEF Scan

LEMMA TypeInvariant == Spec => []TypeInv
<1>1. Init => TypeInv
  <2>1. ASSUME Init PROVE TypeOK
    <3>1. text \in Text /\ Len(text) \in Nat
        BY <2>1, SparqlAssumption DEF Init
    <3>2. at \in 1 .. Len(text) + 4
        BY <2>1, <3>1 DEF Init
    <3>3. tokens \in Seq(Seq(Stop \cup Plain \cup {"_STR"}))
        BY <2>1 DEF Init
    <3>4. /\ limit = 0 /\ maxRows = 0 /\ timed = FALSE /\ pc = "request" /\ turn = 0
          /\ rows = 0 /\ got \in 0 .. 0 /\ truncated = FALSE /\ late = FALSE
        BY <2>1 DEF Init
    <3>5. QED  BY <3>1, <3>2, <3>3, <3>4 DEF TypeOK
  <2>2. QED  BY <2>1 DEF Init, TypeInv, Counting
<1>2. TypeInv /\ [Next]_vars => TypeInv'
  <2> SUFFICES ASSUME TypeInv, [Next]_vars PROVE TypeInv'
      OBVIOUS
  <2>1. CASE Begin
      BY <2>1 DEF Begin, TypeInv, TypeOK, Counting, request, scanner, answer
  <2>2. CASE Scan
      BY <2>2, ScanType
  <2>3. CASE Refuse
      BY <2>3 DEF Refuse, TypeInv, TypeOK, Counting, request, scanner, answer
  <2>4. CASE Execute
    <3>1. /\ UNCHANGED <<text, at, tokens, turn, got, truncated, late>>
          /\ limit' \in Limit /\ maxRows' \in MaxRows /\ timed' \in BOOLEAN
          /\ rows = 0 /\ got = 0 /\ ~truncated
        BY <2>4 DEF Execute, scanner, TypeInv, Counting
    <3>2. \/ pc' \in {"refused", "boolean"} /\ rows' = 0
          \/ pc' = "rows" /\ rows' \in Row
        BY <2>4, <3>1 DEF Execute
    <3>3. got' \in 0 .. rows'
      <4>1. Row \subseteq Nat
          BY SparqlAssumption
      <4>2. CASE pc' \in {"refused", "boolean"} /\ rows' = 0
          BY <3>1, <4>2
      <4>3. CASE rows' \in Row
          BY <3>1, <4>1, <4>3
      <4>4. QED  BY <3>2, <4>2, <4>3
    <3>4. TypeOK'
      <4>1. pc' \in {"refused", "boolean", "rows"} /\ rows' \in Row \cup {0}
          BY <3>2
      <4>2. QED  BY <3>1, <3>3, <4>1 DEF TypeInv, TypeOK
    <3>5. Counting'
        BY <3>1, <3>2 DEF Counting
    <3>6. QED  BY <3>4, <3>5 DEF TypeInv
  <2>5. CASE TakeRow
    <3>1. UNCHANGED <<text, limit, maxRows, timed, at, tokens, turn, rows, late>>
        BY <2>5 DEF TakeRow, request, scanner
    <3>2. rows \in Nat /\ got \in 0 .. rows /\ got < rows /\ truncated = FALSE
        BY <2>5, SparqlAssumption DEF TakeRow, TypeInv, TypeOK, Counting
    <3>3. /\ pc' \in {"refused", "last", "rows"} /\ got' \in {got, got + 1}
          /\ pc' # "last" => truncated' = truncated
          /\ truncated' \in BOOLEAN
        BY <2>5, <3>2 DEF TakeRow
    <3>4. got' \in 0 .. rows'
        BY <3>1, <3>2, <3>3
    <3>5. TypeOK'
        BY <3>1, <3>3, <3>4 DEF TypeInv, TypeOK
    <3>6. Counting'
        BY <3>2, <3>3 DEF Counting
    <3>7. QED  BY <3>5, <3>6 DEF TypeInv
  <2>6. CASE Return
      BY <2>6 DEF Return, TypeInv, TypeOK, Counting, request, scanner, answer
  <2>7. CASE Expire
      BY <2>7 DEF Expire, TypeInv, TypeOK, Counting, request, scanner
  <2>8. CASE UNCHANGED vars
      BY <2>8 DEF vars, TypeInv, TypeOK, Counting, request, scanner, answer
  <2>9. QED
      BY <2>1, <2>2, <2>3, <2>4, <2>5, <2>6, <2>7, <2>8 DEF Next, Serve, Rest
<1>3. QED  BY <1>1, <1>2, PTL DEF Spec

(* Every variable keeps its type: in particular the scanner never gets     *)
(* further than four places behind the text, whatever strings it leaves    *)
(* open, and no more rows are taken than there are.                        *)
THEOREM TypeCorrect == Spec => []TypeOK
<1>1. TypeInv => TypeOK
    BY DEF TypeInv
<1>2. QED  BY <1>1, TypeInvariant, PTL

-----------------------------------------------------------------------------
(* What is executed begins with a reading form, whatever the scanner made  *)
(* of the text: the whitelist is asked once, and the tokens it was asked   *)
(* about are the ones that stay.                                           *)
THEOREM ExecutesOnlyReads == Spec => []OnlyReads
<1>1. Init => OnlyReads
    BY DEF Init, OnlyReads
<1>2. TypeInv /\ OnlyReads /\ [Next]_vars => OnlyReads'
  <2> SUFFICES ASSUME TypeInv, OnlyReads, [Next]_vars PROVE OnlyReads'
      OBVIOUS
  <2>1. CASE Begin
      BY <2>1 DEF Begin, OnlyReads
  <2>2. CASE Scan
    <3>1. pc' \in {"scan", "admit"}
        BY <2>2 DEF Scan, SkipBlank, SkipComment, TakeString, TakeIri, TakeLess,
                    TakeWord, EndScan, Scanning, Advance
    <3>2. QED  BY <3>1 DEF OnlyReads
  <2>3. CASE Refuse
      BY <2>3 DEF Refuse, OnlyReads
  <2>4. CASE Execute
    <3>1. tokens \in Seq(Seq(Stop \cup Plain \cup {"_STR"})) /\ FormAllowed
        BY <2>4 DEF Execute, TypeInv, TypeOK
    <3>2. PICK k \in 1 .. Len(tokens) :
              /\ Len(tokens[k]) = 1 /\ tokens[k][1] \in Reads
              /\ \A j \in 1 .. k - 1 : Declared(tokens, 1, j)
        BY <3>1, FormIsFirst DEF FormFrom
    <3>3. k \in DOMAIN tokens /\ tokens[k] = <<tokens[k][1]>>
      <4>1. tokens[k] \in Seq(Stop \cup Plain \cup {"_STR"})
          BY <3>1
      <4>2. QED  BY <3>1, <3>2, <4>1
    <3>4. \E m \in DOMAIN tokens :
              /\ \E form \in Reads : tokens[m] = <<form>>
              /\ \A j \in 1 .. m - 1 : \E d \in 1 .. j :
                    \/ tokens[d] = <<"BASE">> /\ j <= d + 1
                    \/ tokens[d] = <<"PREFIX">> /\ j <= d + 2
        BY <3>2, <3>3 DEF Declared
    <3>5. tokens' = tokens
        BY <2>4 DEF Execute, scanner
    <3>6. QED  BY <3>4, <3>5 DEF OnlyReads
  <2>5. CASE TakeRow
      BY <2>5 DEF TakeRow, OnlyReads, scanner
  <2>6. CASE Return
      BY <2>6 DEF Return, OnlyReads, scanner
  <2>7. CASE Expire
      BY <2>7 DEF Expire, OnlyReads, scanner
  <2>8. CASE UNCHANGED vars
      BY <2>8 DEF vars, OnlyReads, scanner
  <2>9. QED
      BY <2>1, <2>2, <2>3, <2>4, <2>5, <2>6, <2>7, <2>8 DEF Next, Serve, Rest
<1>3. QED  BY <1>1, <1>2, TypeInvariant, PTL DEF Spec

-----------------------------------------------------------------------------
(* What the loop over the result knows: it has not taken more than the     *)
(* budget, and it was cut exactly if it left rows.                         *)
Budgeted ==
    /\ pc = "rows" => got <= Budget
    /\ pc \in {"last", "answered"} =>
          /\ got <= Budget
          /\ truncated <=> got < rows
          /\ truncated => got = Budget

(* The budget is one of the three numbers, and within each that counts.    *)
LEMMA BudgetBound ==
    ASSUME limit \in Int, maxRows \in Int
    PROVE  /\ Budget \in Nat \ {0}
           /\ limit > 0 => Budget <= limit
           /\ maxRows > 0 => Budget <= maxRows
           /\ maxRows <= 0 => Budget <= DefaultMaxRows
           /\ \/ limit > 0 /\ Budget = limit
              \/ maxRows > 0 /\ Budget = maxRows
              \/ maxRows <= 0 /\ Budget = DefaultMaxRows
    BY SparqlAssumption DEF Budget

(* An answer is complete or says that it is not, and is within the limit   *)
(* of the caller and the one of the setting, for any number of rows and    *)
(* any two limits: the loop stops before it takes a row too many, not      *)
(* behind it.                                                              *)
THEOREM BudgetIsKept == Spec => []AnswersWithinBudget
<1>1. Init => Budgeted
    BY DEF Init, Budgeted
<1>2. TypeInv => limit \in Int /\ maxRows \in Int /\ rows \in Nat /\ got \in 0 .. rows
    BY SparqlAssumption DEF TypeInv, TypeOK
<1>3. TypeInv /\ Budgeted /\ [Next]_vars => Budgeted'
  <2> SUFFICES ASSUME TypeInv, Budgeted, [Next]_vars PROVE Budgeted'
      OBVIOUS
  <2>1. rows \in Nat /\ got \in 0 .. rows /\ Budget \in Nat \ {0}
      BY <1>2, BudgetBound
  <2>2. CASE Begin \/ Scan \/ Refuse
    <3>1. pc' \in {"scan", "admit", "refused"}
        BY <2>2 DEF Begin, Refuse, Scan, SkipBlank, SkipComment, TakeString, TakeIri,
                    TakeLess, TakeWord, EndScan, Scanning, Advance
    <3>2. QED  BY <3>1 DEF Budgeted
  <2>3. CASE Execute
    <3>1. got' = 0 /\ pc' \in {"refused", "boolean", "rows"}
        BY <2>3 DEF Execute, TypeInv, Counting
    <3>2. limit' \in Int /\ maxRows' \in Int
        BY <2>3, SparqlAssumption DEF Execute
    <3>3. Budget' \in Nat
        BY <3>2, SparqlAssumption DEF Budget
    <3>4. QED  BY <3>1, <3>3 DEF Budgeted
  <2>4. CASE TakeRow
    <3>1. pc = "rows" /\ got < rows /\ got <= Budget /\ ~truncated
        BY <2>4 DEF TakeRow, TypeInv, Counting, Budgeted
    <3>2. rows' = rows /\ Budget' = Budget
        BY <2>4 DEF TakeRow, request, Budget
    <3>3. \/ pc' = "refused"
          \/ pc' = "last" /\ truncated' = TRUE /\ got' = got /\ got >= Budget
          \/ pc' = "rows" /\ got' = got + 1 /\ ~(got >= Budget)
        BY <2>4 DEF TakeRow
    <3>4. QED  BY <2>1, <3>1, <3>2, <3>3 DEF Budgeted
  <2>5. CASE Return
    <3>1. UNCHANGED <<got, rows, truncated>> /\ Budget' = Budget
        BY <2>5 DEF Return, answer, request, Budget
    <3>2. pc' \in {"refused", "answered"}
        BY <2>5 DEF Return
    <3>3. \/ pc = "rows" /\ got = rows /\ ~truncated
          \/ pc = "last"
          \/ pc = "boolean" /\ rows = 0 /\ got = 0 /\ ~truncated
        BY <2>5 DEF Return, TypeInv, Counting
    <3>4. /\ got <= Budget
          /\ truncated <=> got < rows
          /\ truncated => got = Budget
        BY <2>1, <3>3 DEF Budgeted
    <3>5. QED  BY <3>1, <3>2, <3>4 DEF Budgeted
  <2>6. CASE Expire \/ UNCHANGED vars
    <3>1. UNCHANGED <<pc, got, rows, truncated>> /\ Budget' = Budget
        BY <2>6 DEF Expire, vars, answer, request, Budget
    <3>2. QED  BY <3>1 DEF Budgeted
  <2>7. QED  BY <2>2, <2>3, <2>4, <2>5, <2>6 DEF Next, Serve, Rest
<1>4. TypeInv /\ Budgeted => AnswersWithinBudget
  <2> SUFFICES ASSUME TypeInv, Budgeted, pc = "answered" PROVE AnswersWithinBudget
      BY DEF AnswersWithinBudget
  <2>1. /\ got <= Budget
        /\ truncated <=> got < rows
        /\ truncated => got = Budget
      BY DEF Budgeted
  <2>2. limit \in Int /\ maxRows \in Int /\ got \in Nat
      BY <1>2
  <2>3. QED  BY <2>1, <2>2, BudgetBound, SparqlAssumption DEF AnswersWithinBudget
<1>5. QED  BY <1>1, <1>3, <1>4, TypeInvariant, PTL DEF Spec

-----------------------------------------------------------------------------
(* The scanner and the reference.  A number is the least of a set, or the  *)
(* greatest.                                                               *)
LEMMA MinIs ==
    ASSUME NEW S \in SUBSET Int, NEW c \in S, \A d \in S : c <= d
    PROVE  Min(S) = c
<1>1. \A x \in S : (\A y \in S : x <= y) => x = c
  <2> SUFFICES ASSUME NEW x \in S, \A y \in S : x <= y PROVE x = c
      OBVIOUS
  <2>1. x <= c /\ c <= x /\ x \in Int /\ c \in Int
      OBVIOUS
  <2>2. QED  BY <2>1
<1>2. Min(S) \in S /\ \A y \in S : Min(S) <= y
    BY DEF Min
<1>3. QED  BY <1>1, <1>2

LEMMA MaxIs ==
    ASSUME NEW S \in SUBSET Int, NEW c \in S, \A d \in S : d <= c
    PROVE  Max(S) = c
<1>1. \A x \in S : (\A y \in S : x >= y) => x = c
  <2> SUFFICES ASSUME NEW x \in S, \A y \in S : x >= y PROVE x = c
      OBVIOUS
  <2>1. x <= c /\ c <= x /\ x \in Int /\ c \in Int
      OBVIOUS
  <2>2. QED  BY <2>1
<1>2. \A y \in S : c >= y
  <2> SUFFICES ASSUME NEW y \in S PROVE c >= y
      OBVIOUS
  <2>1. y <= c /\ y \in Int /\ c \in Int
      OBVIOUS
  <2>2. QED  BY <2>1
<1>3. Max(S) \in S /\ \A y \in S : Max(S) >= y
    BY <1>2 DEF Max
<1>4. QED  BY <1>1, <1>3

(* No piece is both a stop and a plain one.                                *)
LEMMA PiecesDiffer ==
    /\ Stop \cap Plain = {} /\ Blank \cap Quote = {}
    /\ "bs" \notin Quote /\ "lt" \notin Blank \cup Quote /\ "hash" \notin Blank \cup Quote
    /\ Blank \cup Quote \cup {"hash", "lt", "gt", "comma"} = Stop
BY DEF Stop, Plain, Blank, Quote, Reads

(* Where the text goes on with one of some pieces.                         *)
LEMMA UntilIs ==
    ASSUME text \in Seq(Stop \cup Plain), NEW k \in 1 .. Len(text) + 1, NEW pieces
    PROVE  /\ Until(k, pieces) \in k .. Len(text) + 1
           /\ \A p \in k .. Until(k, pieces) - 1 : text[p] \notin pieces
           /\ Until(k, pieces) <= Len(text) => text[Until(k, pieces)] \in pieces
<1> DEFINE hits == {p \in k .. Len(text) : text[p] \in pieces}
<1>0. Len(text) \in Nat
    OBVIOUS
<1>1. CASE hits = {}
  <2>1. Until(k, pieces) = Len(text) + 1
      BY <1>1 DEF Until
  <2>2. \A p \in k .. Len(text) + 1 - 1 : text[p] \notin pieces
      BY <1>0, <1>1
  <2>3. QED  BY <1>0, <2>1, <2>2
<1>2. CASE hits # {}
  <2>1. k \in Int /\ hits \in SUBSET Int /\ \A p \in hits : k <= p
      OBVIOUS
  <2>2. PICK c \in hits : \A q \in hits : c <= q
    <3> HIDE DEF hits
    <3>1. QED  BY <1>2, <2>1, LeastInteger
  <2>3. Until(k, pieces) = c
    <3>1. Min(hits) = c
      <4> HIDE DEF hits
      <4>1. QED  BY <2>1, <2>2, MinIs
    <3>2. QED  BY <1>2, <3>1 DEF Until
  <2>4. c \in k .. Len(text) /\ text[c] \in pieces
      BY <2>2
  <2>5. ASSUME NEW p \in k .. c - 1 PROVE text[p] \notin pieces
    <3>1. p \in k .. Len(text) /\ ~(c <= p)
        BY <1>0, <2>4
    <3>2. QED  BY <2>2, <3>1
  <2>6. QED  BY <1>0, <2>3, <2>4, <2>5
<1>3. QED  BY <1>1, <1>2

-----------------------------------------------------------------------------
(* Behind a quote: the number of backslashes right before a place.         *)
LEMMA EscapesIs ==
    ASSUME text \in Seq(Stop \cup Plain), NEW a \in 1 .. Len(text), NEW k \in a + 1 .. Len(text) + 2
    PROVE  /\ Escapes(a, k) \in 0 .. k - a - 1
           /\ AllIn(k - Escapes(a, k), k - 1, {"bs"})
           /\ \A n \in 0 .. k - a - 1 : AllIn(k - n, k - 1, {"bs"}) => n <= Escapes(a, k)
<1> DEFINE hi == k - a - 1
           runs == {n \in 0 .. k - a - 1 : AllIn(k - n, k - 1, {"bs"})}
<1>1. k \in Int /\ a \in Int /\ hi \in Nat
    OBVIOUS
<1>2. 0 \in runs
  <2>1. k - 0 .. k - 1 = {}
      BY <1>1
  <2>2. QED  BY <1>1, <2>1 DEF AllIn
<1>3. runs \in SUBSET Int /\ \A n \in runs : n <= hi
    BY <1>1
<1>4. PICK n \in runs : \A m \in runs : m <= n
  <2> HIDE DEF runs, hi
  <2>1. hi \in Int /\ runs # {}
      BY <1>1, <1>2
  <2>2. QED  BY <1>3, <2>1, GreatestNumber
<1>5. Escapes(a, k) = n
  <2>1. Max(runs) = n
    <3> HIDE DEF runs
    <3>1. QED  BY <1>3, <1>4, MaxIs
  <2>2. QED  BY <2>1 DEF Escapes
<1>6. QED  BY <1>4, <1>5

(* Behind a backslash there is one more, behind any other piece none.      *)
LEMMA EscapesGoOn ==
    ASSUME text \in Seq(Stop \cup Plain), NEW a \in 1 .. Len(text), NEW k \in a + 1 .. Len(text) + 1
    PROVE  /\ text[k] = "bs" => Escapes(a, k + 1) = Escapes(a, k) + 1
           /\ text[k] # "bs" => Escapes(a, k + 1) = 0
<1>1. k \in Int /\ a \in Int /\ k + 1 \in a + 1 .. Len(text) + 2 /\ k \in a + 1 .. Len(text) + 2
      /\ k - a - 1 \in Nat
    OBVIOUS
<1> DEFINE e == Escapes(a, k)
           f == Escapes(a, k + 1)
<1>2. /\ e \in 0 .. k - a - 1
      /\ \A p \in k - e .. k - 1 : text[p] = "bs"
      /\ \A n \in 0 .. k - a - 1 : (\A p \in k - n .. k - 1 : text[p] = "bs") => n <= e
    BY <1>1, EscapesIs DEF AllIn
<1>3. /\ f \in 0 .. k + 1 - a - 1
      /\ \A p \in k + 1 - f .. k + 1 - 1 : text[p] = "bs"
      /\ \A n \in 0 .. k + 1 - a - 1 :
            (\A p \in k + 1 - n .. k + 1 - 1 : text[p] = "bs") => n <= f
    BY <1>1, EscapesIs DEF AllIn
<1> HIDE DEF e, f
<1>4. ASSUME text[k] = "bs" PROVE f = e + 1
  <2>1. e + 1 \in 0 .. k + 1 - a - 1
      BY <1>1, <1>2
  <2>2. \A p \in k + 1 - (e + 1) .. k + 1 - 1 : text[p] = "bs"
    <3> SUFFICES ASSUME NEW p \in k + 1 - (e + 1) .. k + 1 - 1 PROVE text[p] = "bs"
        OBVIOUS
    <3>1. p = k \/ p \in k - e .. k - 1
        BY <1>1, <1>2
    <3>2. QED  BY <1>2, <1>4, <3>1
  <2>3. e + 1 <= f
      BY <1>3, <2>1, <2>2
  <2>4. f - 1 \in 0 .. k - a - 1
      BY <1>1, <1>2, <1>3, <2>3
  <2>5. \A p \in k - (f - 1) .. k - 1 : text[p] = "bs"
    <3> SUFFICES ASSUME NEW p \in k - (f - 1) .. k - 1 PROVE text[p] = "bs"
        OBVIOUS
    <3>1. p \in k + 1 - f .. k + 1 - 1
        BY <1>1, <1>3
    <3>2. QED  BY <1>3, <3>1
  <2>6. f - 1 <= e
      BY <1>2, <2>4, <2>5
  <2>7. QED  BY <1>2, <1>3, <2>3, <2>6
<1>5. ASSUME text[k] # "bs" PROVE f = 0
  <2>1. f > 0 => k \in k + 1 - f .. k + 1 - 1
      BY <1>1, <1>3
  <2>2. QED  BY <1>3, <1>5, <2>1
<1>6. QED  BY <1>4, <1>5 DEF e, f

(* A short string ends at the first quote that no backslash takes along.   *)
LEMMA ShortEndCloses ==
    ASSUME text \in Seq(Stop \cup Plain), at \in 1 .. Len(text), text[at] \in Quote,
           ~ThreeQuotes(at)
    PROVE  /\ ShortEnd \in at + 1 .. Len(text) + 2
           /\ ShortEnd <= Len(text) => Closes(at, ShortEnd - 1)
           /\ ShortEnd = Len(text) + 1 => Closes(at, Len(text)) \/ ShortEnd - 1 = Len(text)
           /\ \A j \in at .. Len(text) : j < ShortEnd - 1 => ~Closes(at, j)
<1> DEFINE n == Len(text)
           lo == at + 1
           hi == n + 2
           Even(k) == Escapes(at, k) % 2 = 0
           OpenTo(k) == \A j \in at .. n : j < k => ~Closes(at, j)
           Right(x) == /\ x \in lo .. hi
                       /\ x <= n => Closes(at, x - 1)
                       /\ OpenTo(x - 1)
<1>1. PICK end : /\ ShortEnd = end[at + 1]
                 /\ \A k \in at + 1 .. Len(text) + 2 :
                       end[k] = IF k > Len(text) THEN k
                                ELSE IF text[k] = "bs" THEN end[k + 2]
                                ELSE IF text[k] = text[at] THEN k + 1
                                ELSE end[k + 1]
    BY ShortEndGoesOn
<1>2. n \in Nat /\ at \in 1 .. n
    OBVIOUS
<1>3. \A b \in at .. n : Closes(at, b) <=> b > at /\ text[b] = text[at] /\ Even(b)
    BY DEF Closes, Three, ThreeQuotes, AllIn
<1>4. text[at] # "bs"
    BY PiecesDiffer
<1>5. ASSUME NEW k \in lo .. n + 1
      PROVE  /\ Escapes(at, k) \in Nat
             /\ text[k] = "bs" => Escapes(at, k + 1) = Escapes(at, k) + 1
             /\ text[k] # "bs" => Escapes(at, k + 1) = 0
  <2>1. k \in at + 1 .. Len(text) + 1 /\ k \in at + 1 .. Len(text) + 2
      BY <1>2
  <2>2. Escapes(at, k) \in 0 .. k - at - 1
      BY <2>1, EscapesIs
  <2>3. QED  BY <1>2, <2>1, <2>2, EscapesGoOn
<1> DEFINE bad == {k \in lo .. hi : Even(k) /\ OpenTo(k) /\ ~Right(end[k])}
<1>6. bad = {}
  <2>1. SUFFICES ASSUME bad # {} PROVE FALSE
      OBVIOUS
  <2>2. hi \in Int /\ bad \in SUBSET Int /\ \A k \in bad : k <= hi
      BY <1>2
  <2>3. PICK k \in bad : \A m \in bad : m <= k
    <3> HIDE DEF bad, hi
    <3>1. QED  BY <2>1, <2>2, GreatestNumber
  <2>4. k \in lo .. hi /\ Even(k) /\ OpenTo(k) /\ ~Right(end[k])
      OBVIOUS
  <2>5. ASSUME NEW m \in lo .. hi, m > k, Even(m), OpenTo(m) PROVE Right(end[m])
    <3>1. m \notin bad
        BY <1>2, <2>3, <2>4, <2>5
    <3>2. QED  BY <2>5, <3>1
  <2>6. end[k] = IF k > n THEN k
                ELSE IF text[k] = "bs" THEN end[k + 2]
                ELSE IF text[k] = text[at] THEN k + 1
                ELSE end[k + 1]
      BY <1>1, <2>4
  <2> HIDE DEF bad, Even
  <2>7. CASE k > n
    <3>1. end[k] = k
        BY <2>6, <2>7
    <3>2. OpenTo(k - 1)
        BY <1>2, <2>4
    <3> HIDE DEF OpenTo
    <3>3. QED  BY <1>2, <2>4, <2>7, <3>1, <3>2
  <2>8. CASE ~(k > n) /\ text[k] = "bs"
    <3>1. k \in lo .. n /\ k \in lo .. n + 1 /\ k + 1 \in lo .. n + 1 /\ k + 2 \in lo .. hi
        BY <1>2, <2>4, <2>8
    <3>2. Escapes(at, k) \in Nat /\ Escapes(at, k + 1) = Escapes(at, k) + 1
        BY <1>5, <2>8, <3>1
    <3>3. Escapes(at, k) % 2 = 0
        BY <2>4 DEF Even
    <3>4. ~Even(k + 1)
        BY <3>2, <3>3 DEF Even
    <3>5. Even(k + 2)
      <4>1. k + 1 + 1 = k + 2
          BY <3>1
      <4>2. Escapes(at, k + 2) = Escapes(at, k) + 2 \/ Escapes(at, k + 2) = 0
          BY <1>5, <3>1, <3>2, <4>1
      <4>3. QED  BY <3>2, <3>3, <4>2 DEF Even
    <3>6. OpenTo(k + 2)
      <4> SUFFICES ASSUME NEW j \in at .. n, j < k + 2 PROVE ~Closes(at, j)
          OBVIOUS
      <4>1. j < k \/ j = k \/ j = k + 1
          BY <1>2, <3>1
      <4>2. j = k => ~Closes(at, j)
          BY <1>3, <1>4, <2>8
      <4>3. j = k + 1 => ~Closes(at, j)
          BY <1>3, <3>4
      <4>4. QED  BY <2>4, <4>1, <4>2, <4>3
    <3>7. end[k] = end[k + 2]
        BY <2>6, <2>8
    <3> HIDE DEF OpenTo, Right
    <3>8. k + 2 > k
        BY <3>1
    <3>9. Right(end[k + 2])
        BY <2>5, <3>1, <3>5, <3>6, <3>8
    <3>10. QED  BY <2>4, <3>7, <3>9
  <2>9. CASE ~(k > n) /\ text[k] = text[at]
    <3>1. end[k] = k + 1 /\ k \in at .. n /\ k > at
        BY <1>2, <1>4, <2>4, <2>6, <2>9
    <3>2. Closes(at, k)
        BY <1>3, <2>4, <2>9, <3>1
    <3>3. k + 1 - 1 = k /\ k + 1 \in lo .. hi
        BY <1>2, <2>4, <3>1
    <3> HIDE DEF OpenTo
    <3>4. QED  BY <2>4, <3>1, <3>2, <3>3
  <2>10. CASE ~(k > n) /\ text[k] # text[at] /\ text[k] # "bs"
    <3>1. k \in lo .. n /\ k \in lo .. n + 1 /\ k + 1 \in lo .. hi /\ k + 1 > k
        BY <1>2, <2>4, <2>10
    <3>2. Even(k + 1)
        BY <1>5, <2>10, <3>1 DEF Even
    <3>3. OpenTo(k + 1)
      <4> SUFFICES ASSUME NEW j \in at .. n, j < k + 1 PROVE ~Closes(at, j)
          OBVIOUS
      <4>1. j < k \/ j = k
          BY <1>2, <3>1
      <4>2. j = k => ~Closes(at, j)
          BY <1>3, <2>10
      <4>3. QED  BY <2>4, <4>1, <4>2
    <3>4. end[k] = end[k + 1]
        BY <2>6, <2>10
    <3> HIDE DEF OpenTo, Right
    <3>5. Right(end[k + 1])
        BY <2>5, <3>1, <3>2, <3>3
    <3>6. QED  BY <2>4, <3>4, <3>5
  <2>11. QED  BY <2>7, <2>8, <2>9, <2>10
<1>7. at + 1 \in lo .. hi
    BY <1>2
<1>8. Even(at + 1)
  <2>1. at + 1 \in at + 1 .. Len(text) + 2
      BY <1>2
  <2>2. Escapes(at, at + 1) \in 0 .. at + 1 - at - 1
      BY <2>1, EscapesIs
  <2>3. Escapes(at, at + 1) = 0
      BY <1>2, <2>2
  <2>4. QED  BY <2>3
<1>9. OpenTo(at + 1)
    BY <1>2, <1>3
<1>10. Right(ShortEnd)
  <2> HIDE DEF Even, OpenTo, Right
  <2>1. QED  BY <1>1, <1>6, <1>7, <1>8, <1>9
<1>11. QED  BY <1>2, <1>10

(* A long string ends at the first three quotes behind those it began with.*)
LEMMA LongEndCloses ==
    ASSUME text \in Seq(Stop \cup Plain), at \in 1 .. Len(text), ThreeQuotes(at)
    PROVE  /\ LongEnd \in at + 1 .. Len(text) + 4
           /\ LongEnd <= Len(text) + 1 => Closes(at, LongEnd - 1)
           /\ \A j \in at .. Len(text) : j < LongEnd - 1 => ~Closes(at, j)
<1> DEFINE n == Len(text)
           hits == {k \in at + 3 .. Len(text) : ThreeQuotes(k)}
<1>1. n \in Nat /\ at \in 1 .. n
    OBVIOUS
<1>2. \A k \in Int : Three(at, k) <=> ThreeQuotes(k)
    BY DEF Three, ThreeQuotes, AllIn
<1>3. \A b \in Int : Closes(at, b) <=> b >= at + 5 /\ ThreeQuotes(b - 2)
  <2>1. Three(at, at)
      BY <1>1, <1>2
  <2>2. ASSUME NEW b \in Int PROVE Closes(at, b) <=> b >= at + 5 /\ ThreeQuotes(b - 2)
    <3>1. b - 2 \in Int
        OBVIOUS
    <3>2. QED  BY <1>2, <2>1, <3>1 DEF Closes
  <2>3. QED  BY <2>2
<1>4. ASSUME NEW j \in at .. n, Closes(at, j) PROVE j - 2 \in hits
  <2>1. j \in Int /\ j >= at + 5 /\ ThreeQuotes(j - 2)
      BY <1>1, <1>3, <1>4
  <2>2. QED  BY <1>1, <2>1
<1>5. CASE hits = {}
  <2>1. LongEnd = n + 4
      BY <1>1, <1>5 DEF LongEnd
  <2>2. QED  BY <1>1, <1>4, <1>5, <2>1
<1>6. CASE hits # {}
  <2> DEFINE lo == at + 3
  <2>1. lo \in Int /\ hits \in SUBSET Int /\ \A k \in hits : lo <= k
      BY <1>1
  <2>2. PICK c \in hits : \A k \in hits : c <= k
    <3> HIDE DEF hits, lo
    <3>1. QED  BY <1>6, <2>1, LeastInteger
  <2>3. LongEnd = c + 3
    <3>1. Min(hits) = c
      <4> HIDE DEF hits, lo
      <4>1. QED  BY <2>1, <2>2, MinIs
    <3>2. LongEnd = 3 + c
        BY <1>6, <3>1 DEF LongEnd
    <3>3. c \in Int
        BY <2>1
    <3>4. QED  BY <3>2, <3>3
  <2>4. c \in at + 3 .. n /\ ThreeQuotes(c) /\ c + 2 <= n
      BY <2>2 DEF ThreeQuotes
  <2>5. Closes(at, c + 2)
    <3>1. c + 2 \in Int /\ c + 2 - 2 = c /\ c + 2 >= at + 5
        BY <1>1, <2>4
    <3>2. QED  BY <1>3, <2>4, <3>1
  <2>6. ASSUME NEW j \in at .. n, j < c + 2 PROVE ~Closes(at, j)
    <3>1. ~(c <= j - 2)
        BY <1>1, <2>4, <2>6
    <3>2. QED  BY <1>4, <2>2, <3>1
  <2>7. c + 3 - 1 = c + 2 /\ c + 3 \in at + 1 .. n + 4
      BY <1>1, <2>4
  <2>8. QED  BY <2>3, <2>5, <2>6, <2>7
<1>7. QED  BY <1>5, <1>6

(* What a lexeme is, by its first piece.                                   *)
EndsIri(a, k) == /\ text[k] = "gt"
                 /\ AllIn(a, k - 1, (Stop \cup Plain) \ (Blank \cup {"gt"}))

LEMMA LexemeIs ==
    ASSUME NEW a, NEW b
    PROVE  /\ text[a] \in Blank => (IsLexeme(a, b) <=> a = b)
           /\ text[a] = "hash" =>
                 (IsLexeme(a, b) <=> /\ AllIn(a, b, (Stop \cup Plain) \ {"nl"})
                                     /\ b = Len(text) \/ text[b + 1] = "nl")
           /\ text[a] \in Quote =>
                 (IsLexeme(a, b) <=> /\ Closes(a, b) \/ b = Len(text)
                                     /\ \A k \in a .. b - 1 : ~Closes(a, k))
           /\ text[a] = "lt" =>
                 (IsLexeme(a, b) <=>
                     \/ EndsIri(a, b)
                     \/ a = b /\ \A k \in a + 1 .. Len(text) : ~EndsIri(a, k))
           /\ text[a] \notin Blank \cup Quote \cup {"hash", "lt"} =>
                 (IsLexeme(a, b) <=> AllIn(a, b, Plain) /\ (b = Len(text) \/ text[b + 1] \in Stop))
<1>1. /\ "hash" \notin Blank /\ "lt" \notin Blank /\ "lt" \notin Quote /\ "hash" \notin Quote
      /\ \A piece \in Quote : piece \notin Blank
      /\ "hash" # "lt"
    BY PiecesDiffer
<1>2. ASSUME text[a] \in Blank PROVE IsLexeme(a, b) <=> a = b
    BY <1>1, <1>2, Zenon DEF IsLexeme
<1>3. ASSUME text[a] = "hash"
      PROVE  IsLexeme(a, b) <=> /\ AllIn(a, b, (Stop \cup Plain) \ {"nl"})
                                /\ b = Len(text) \/ text[b + 1] = "nl"
    BY <1>1, <1>3, Zenon DEF IsLexeme
<1>4. ASSUME text[a] \in Quote
      PROVE  IsLexeme(a, b) <=> /\ Closes(a, b) \/ b = Len(text)
                                /\ \A k \in a .. b - 1 : ~Closes(a, k)
    BY <1>1, <1>4, Zenon DEF IsLexeme
<1>5. ASSUME text[a] = "lt"
      PROVE  IsLexeme(a, b) <=> \/ EndsIri(a, b)
                                \/ a = b /\ \A k \in a + 1 .. Len(text) : ~EndsIri(a, k)
    BY <1>1, <1>5, Zenon DEF IsLexeme, EndsIri
<1>6. ASSUME text[a] \notin Blank \cup Quote \cup {"hash", "lt"}
      PROVE  IsLexeme(a, b) <=> AllIn(a, b, Plain) /\ (b = Len(text) \/ text[b + 1] \in Stop)
  <2>1. /\ text[a] \notin Blank /\ text[a] \notin Quote
        /\ text[a] # "hash" /\ text[a] # "lt"
      BY <1>6
  <2>2. QED  BY <2>1, Zenon DEF IsLexeme
<1>7. QED  BY <1>2, <1>3, <1>4, <1>5, <1>6, Zenon

(* Where a string ends, a lexeme does.                                     *)
Ends(a, x) == \E e \in a .. Len(text) : /\ IsLexeme(a, e)
                                        /\ x = e + 1 \/ (e = Len(text) /\ x > Len(text))

LEMMA StringIsLexeme ==
    ASSUME text \in Seq(Stop \cup Plain), at \in 1 .. Len(text), text[at] \in Quote
    PROVE  Ends(at, IF ThreeQuotes(at) THEN LongEnd ELSE ShortEnd)
<1> DEFINE n == Len(text)
           x == IF ThreeQuotes(at) THEN LongEnd ELSE ShortEnd
           e == IF x <= n THEN x - 1 ELSE n
<1>1. n \in Nat /\ at \in 1 .. n
    OBVIOUS
<1>2. /\ x \in at + 1 .. n + 4
      /\ x <= n => Closes(at, x - 1)
      /\ \A j \in at .. n : j < x - 1 => ~Closes(at, j)
  <2>1. CASE ThreeQuotes(at)
      BY <1>1, <2>1, LongEndCloses
  <2>2. CASE ~ThreeQuotes(at)
      BY <1>1, <2>2, ShortEndCloses
  <2>3. QED  BY <2>1, <2>2
<1> HIDE DEF x
<1>3. e \in at .. n /\ (x = e + 1 \/ (e = n /\ x > n))
    BY <1>1, <1>2
<1>4. Closes(at, e) \/ e = n
    BY <1>1, <1>2
<1>5. \A k \in at .. e - 1 : ~Closes(at, k)
    BY <1>1, <1>2, <1>3
<1> HIDE DEF e
<1>6. IsLexeme(at, e)
    BY <1>4, <1>5, LexemeIs
<1>7. QED  BY <1>3, <1>6 DEF Ends, x

LEMMA CommentIsLexeme ==
    ASSUME text \in Seq(Stop \cup Plain), at \in 1 .. Len(text), text[at] = "hash"
    PROVE  Ends(at, Until(at, {"nl"}))
<1> DEFINE n == Len(text)
           x == Until(at, {"nl"})
           e == x - 1
<1>1. n \in Nat /\ at \in 1 .. n /\ \A p \in 1 .. n : text[p] \in Stop \cup Plain
    OBVIOUS
<1>2. /\ x \in at .. n + 1 /\ \A p \in at .. x - 1 : text[p] # "nl"
      /\ x <= n => text[x] = "nl"
  <2>1. at \in 1 .. Len(text) + 1
      BY <1>1
  <2>2. QED  BY <2>1, UntilIs
<1> HIDE DEF x
<1>3. x # at
    BY <1>1, <1>2
<1>4. e \in at .. n /\ x = e + 1 /\ (e = n \/ text[e + 1] = "nl")
    BY <1>1, <1>2, <1>3
<1>5. \A p \in at .. e : text[p] \in (Stop \cup Plain) \ {"nl"}
    BY <1>1, <1>2, <1>4
<1> HIDE DEF e
<1>6. AllIn(at, e, (Stop \cup Plain) \ {"nl"})
    BY <1>5 DEF AllIn
<1>7. IsLexeme(at, e)
    BY <1>4, <1>6, LexemeIs
<1>8. QED  BY <1>4, <1>7 DEF Ends, x

LEMMA IriIsLexeme ==
    ASSUME text \in Seq(Stop \cup Plain), at \in 1 .. Len(text), text[at] = "lt"
    PROVE  /\ IsIri => IriEnd \in at .. Len(text) /\ IsLexeme(at, IriEnd)
           /\ ~IsIri => IsLexeme(at, at)
<1> DEFINE n == Len(text)
<1>1. n \in Nat /\ at \in 1 .. n /\ \A p \in 1 .. n : text[p] \in Stop \cup Plain
    OBVIOUS
<1>2. /\ IriEnd \in at + 1 .. n + 1 /\ \A p \in at + 1 .. IriEnd - 1 : text[p] # "gt"
      /\ IriEnd <= n => text[IriEnd] = "gt"
  <2>1. at + 1 \in 1 .. Len(text) + 1
      BY <1>1
  <2>2. QED  BY <2>1, UntilIs DEF IriEnd
<1>3. /\ text[at] \notin Blank /\ text[at] # "hash" /\ text[at] \notin Quote
      /\ "gt" # "lt" /\ "gt" \notin Blank
    BY PiecesDiffer DEF Blank
<1>4. \A b : IsLexeme(at, b) <=> \/ EndsIri(at, b)
                                 \/ at = b /\ \A k \in at + 1 .. n : ~EndsIri(at, k)
    BY LexemeIs
<1>5. ASSUME IsIri PROVE IriEnd \in at .. n /\ EndsIri(at, IriEnd)
  <2>1. IriEnd <= n /\ \A p \in at .. IriEnd : text[p] \notin Blank
      BY <1>5 DEF IsIri
  <2>2. IriEnd \in at .. n /\ text[IriEnd] = "gt"
      BY <1>1, <1>2, <2>1
  <2>3. \A p \in at .. IriEnd - 1 : text[p] \in (Stop \cup Plain) \ (Blank \cup {"gt"})
    <3> SUFFICES ASSUME NEW p \in at .. IriEnd - 1
                 PROVE  text[p] \in (Stop \cup Plain) \ (Blank \cup {"gt"})
        OBVIOUS
    <3>1. p \in 1 .. n /\ p \in at .. IriEnd /\ (p = at \/ p \in at + 1 .. IriEnd - 1)
        BY <1>1, <2>2
    <3>2. QED  BY <1>1, <1>2, <1>3, <2>1, <3>1
  <2>4. QED  BY <2>2, <2>3 DEF AllIn, EndsIri
<1>6. ASSUME NEW k \in at + 1 .. n, EndsIri(at, k) PROVE IsIri
  <2>1. text[k] = "gt" /\ \A p \in at .. k - 1 : text[p] \notin Blank /\ text[p] # "gt"
      BY <1>6 DEF AllIn, EndsIri
  <2>2. IriEnd <= k
      BY <1>1, <1>2, <2>1
  <2>3. IriEnd \in at + 1 .. n /\ text[IriEnd] = "gt"
      BY <1>1, <1>2, <2>2
  <2>4. \A p \in at .. IriEnd : text[p] \notin Blank
    <3> SUFFICES ASSUME NEW p \in at .. IriEnd PROVE text[p] \notin Blank
        OBVIOUS
    <3>1. p = IriEnd \/ p \in at .. k - 1
        BY <1>1, <2>2, <2>3
    <3>2. QED  BY <1>3, <2>1, <2>3, <3>1
  <2>5. QED  BY <2>3, <2>4 DEF IsIri
<1>7. QED  BY <1>4, <1>5, <1>6

LEMMA WordIsLexeme ==
    ASSUME text \in Seq(Stop \cup Plain), at \in 1 .. Len(text), text[at] \in Plain
    PROVE  Until(at, Stop) # at /\ Ends(at, Until(at, Stop))
<1> DEFINE n == Len(text)
           x == Until(at, Stop)
           e == x - 1
<1>1. n \in Nat /\ at \in 1 .. n /\ \A p \in 1 .. n : text[p] \in Stop \cup Plain
    OBVIOUS
<1>2. /\ x \in at .. n + 1 /\ \A p \in at .. x - 1 : text[p] \notin Stop
      /\ x <= n => text[x] \in Stop
  <2>1. at \in 1 .. Len(text) + 1
      BY <1>1
  <2>2. QED  BY <2>1, UntilIs
<1> HIDE DEF x
<1>3. x # at
    BY <1>1, <1>2, PiecesDiffer
<1>4. e \in at .. n /\ x = e + 1 /\ (e = n \/ text[e + 1] \in Stop)
    BY <1>1, <1>2, <1>3
<1>5. \A p \in at .. e : text[p] \in Plain
    BY <1>1, <1>2, <1>4
<1>6. text[at] \notin Blank \cup Quote \cup {"hash", "lt"}
    BY PiecesDiffer
<1> HIDE DEF e
<1>7. IsLexeme(at, e)
  <2>1. AllIn(at, e, Plain)
      BY <1>5 DEF AllIn
  <2>2. QED  BY <1>4, <1>6, <2>1, LexemeIs
<1>8. QED  BY <1>3, <1>4, <1>7 DEF Ends, x

(* From one place on there is one lexeme at most, and none from a bare     *)
(* ">" or ",".                                                             *)
LEMMA OneLexeme ==
    ASSUME text \in Seq(Stop \cup Plain), NEW a \in 1 .. Len(text),
           NEW b \in a .. Len(text), NEW c \in a .. Len(text),
           IsLexeme(a, b), IsLexeme(a, c)
    PROVE  b = c
<1>1. ASSUME NEW i \in a .. Len(text), NEW j \in a .. Len(text), i < j,
             IsLexeme(a, i), IsLexeme(a, j)
      PROVE  FALSE
  <2>1. Len(text) \in Nat /\ a \in Int /\ i \in Int /\ j \in Int
      OBVIOUS
  <2>2. i # Len(text) /\ i + 1 \in a .. j /\ i \in a .. j - 1 /\ j # a /\ j \in a + 1 .. Len(text)
      BY <1>1, <2>1
  <2>3. CASE text[a] \in Blank
    <3>1. a = i /\ a = j
        BY <1>1, <2>3, LexemeIs
    <3>2. QED  BY <2>2, <3>1
  <2>4. CASE text[a] = "hash"
    <3>1. AllIn(a, j, (Stop \cup Plain) \ {"nl"}) /\ text[i + 1] = "nl"
        BY <1>1, <2>2, <2>4, LexemeIs
    <3>2. QED  BY <2>2, <3>1 DEF AllIn
  <2>5. CASE text[a] \in Quote
    <3>1. Closes(a, i) /\ \A k \in a .. j - 1 : ~Closes(a, k)
        BY <1>1, <2>2, <2>5, LexemeIs
    <3>2. QED  BY <2>2, <3>1
  <2>6. CASE text[a] = "lt"
    <3>1. /\ EndsIri(a, i) \/ (a = i /\ \A k \in a + 1 .. Len(text) : ~EndsIri(a, k))
          /\ EndsIri(a, j) \/ (a = j /\ \A k \in a + 1 .. Len(text) : ~EndsIri(a, k))
        BY <1>1, <2>6, LexemeIs
    <3>2. EndsIri(a, j)
        BY <2>2, <3>1
    <3>3. EndsIri(a, i)
        BY <2>2, <3>1, <3>2
    <3>4. text[i] = "gt" /\ text[i] \notin {"gt"}
        BY <2>2, <3>2, <3>3 DEF EndsIri, AllIn
    <3>5. QED  BY <3>4
  <2>7. CASE text[a] \notin Blank \cup Quote \cup {"hash", "lt"}
    <3>1. AllIn(a, j, Plain) /\ text[i + 1] \in Stop
        BY <1>1, <2>2, <2>7, LexemeIs
    <3>2. text[i + 1] \in Plain
        BY <2>2, <3>1 DEF AllIn
    <3>3. QED  BY <3>1, <3>2, PiecesDiffer
  <2>8. QED  BY <2>3, <2>4, <2>5, <2>6, <2>7
<1>2. ~(b < c) /\ ~(c < b)
    BY <1>1
<1>3. b \in Int /\ c \in Int
    OBVIOUS
<1>4. QED  BY <1>2, <1>3

LEMMA NoLexeme ==
    ASSUME text \in Seq(Stop \cup Plain), NEW a \in 1 .. Len(text), NEW b \in a .. Len(text),
           text[a] \in {"gt", "comma"}
    PROVE  ~IsLexeme(a, b)
<1>1. text[a] \notin Blank \cup Quote \cup {"hash", "lt"} /\ text[a] \notin Plain
    BY PiecesDiffer DEF Blank, Quote, Plain, Reads
<1>2. a \in a .. b
    OBVIOUS
<1>3. ~AllIn(a, b, Plain)
    BY <1>1, <1>2 DEF AllIn
<1>4. QED  BY <1>1, <1>3, LexemeIs

-----------------------------------------------------------------------------
(* A turn of the scanner takes one lexeme, unless the scanner is stuck.    *)
Silent == Blank \cup {"hash"}

Lexed(a, e) == IF text[a] \in Quote THEN <<"_STR">> ELSE SubSeq(text, a, e)

Taken(e) ==
    /\ IsLexeme(at, e)
    /\ at' = e + 1 \/ (e = Len(text) /\ at' > Len(text))
    /\ tokens' = IF text[at] \in Silent THEN tokens ELSE Append(tokens, Lexed(at, e))

Turn == SkipBlank \/ SkipComment \/ TakeString \/ TakeIri \/ TakeLess \/ TakeWord

LEMMA TurnTakes ==
    ASSUME TypeInv, Turn
    PROVE  /\ at \in 1 .. Len(text)
           /\ pc = "scan" /\ UNCHANGED <<text, pc>>
           /\ \/ \E e \in at .. Len(text) : Taken(e)
              \/ UNCHANGED <<at, tokens>>
<1> DEFINE n == Len(text)
<1>1. text \in Seq(Stop \cup Plain) /\ n \in Nat /\ \A p \in 1 .. n : text[p] \in Stop \cup Plain
    BY TextType
<1>2. pc = "scan" /\ UNCHANGED <<text, pc>> /\ at \in 1 .. n
    BY <1>1 DEF Turn, SkipBlank, SkipComment, TakeString, TakeIri, TakeLess, TakeWord,
                Scanning, Advance, request, TypeInv, TypeOK
<1>3. CASE SkipBlank
  <2>1. text[at] \in Blank /\ at' = at + 1 /\ tokens' = tokens
      BY <1>3 DEF SkipBlank, Advance
  <2>2. IsLexeme(at, at)
      BY <2>1, LexemeIs
  <2>3. Taken(at)
      BY <2>1, <2>2 DEF Taken, Silent
  <2>4. at \in at .. n
      BY <1>1, <1>2
  <2>5. QED  BY <1>2, <2>3, <2>4
<1>4. CASE SkipComment
  <2>1. text[at] = "hash" /\ at' = Until(at, {"nl"}) /\ tokens' = tokens
      BY <1>4 DEF SkipComment, Advance
  <2>2. PICK e \in at .. n : IsLexeme(at, e) /\ (at' = e + 1 \/ (e = n /\ at' > n))
      BY <1>1, <1>2, <2>1, CommentIsLexeme DEF Ends
  <2>3. Taken(e)
      BY <2>1, <2>2 DEF Taken, Silent
  <2>4. QED  BY <1>2, <2>3
<1>5. CASE TakeString
  <2>1. /\ text[at] \in Quote /\ tokens' = Append(tokens, <<"_STR">>)
        /\ at' = IF ThreeQuotes(at) THEN LongEnd ELSE ShortEnd
      BY <1>5 DEF TakeString, Advance
  <2>2. PICK e \in at .. n : IsLexeme(at, e) /\ (at' = e + 1 \/ (e = n /\ at' > n))
      BY <1>1, <1>2, <2>1, StringIsLexeme DEF Ends
  <2>3. text[at] \notin Silent
      BY <2>1, PiecesDiffer DEF Silent
  <2>4. Taken(e)
      BY <2>1, <2>2, <2>3 DEF Taken, Lexed
  <2>5. QED  BY <1>2, <2>4
<1>6. CASE TakeIri
  <2>1. /\ text[at] = "lt" /\ IsIri /\ at' = IriEnd + 1
        /\ tokens' = Append(tokens, SubSeq(text, at, IriEnd))
      BY <1>6 DEF TakeIri, Advance
  <2>2. IriEnd \in at .. n /\ IsLexeme(at, IriEnd)
      BY <1>1, <1>2, <2>1, IriIsLexeme
  <2>3. text[at] \notin Silent /\ text[at] \notin Quote
      BY <2>1, PiecesDiffer DEF Silent
  <2>4. Taken(IriEnd)
      BY <2>1, <2>2, <2>3 DEF Taken, Lexed
  <2>5. QED  BY <1>2, <2>2, <2>4
<1>7. CASE TakeLess
  <2>1. text[at] = "lt" /\ ~IsIri /\ at' = at + 1 /\ tokens' = Append(tokens, <<"lt">>)
      BY <1>7 DEF TakeLess, Advance
  <2>2. IsLexeme(at, at)
      BY <1>1, <1>2, <2>1, IriIsLexeme
  <2>3. text[at] \notin Silent /\ text[at] \notin Quote
      BY <2>1, PiecesDiffer DEF Silent
  <2>4. SubSeq(text, at, at) = <<"lt">>
    <3> DEFINE s == SubSeq(text, at, at)
    <3>1. s \in Seq({"lt"}) /\ Len(s) = 1 /\ s[1] = "lt"
      <4>1. at \in Int /\ at - at + 1 = 1 /\ \A i \in 1 .. 1 : at + i - 1 = at
          BY <1>1, <1>2
      <4>2. s = [i \in 1 .. 1 |-> "lt"]
          BY <1>1, <1>2, <2>1, <4>1
      <4> HIDE DEF s
      <4>3. QED  BY <4>2
    <3> HIDE DEF s
    <3>2. s = <<"lt">>
        BY <3>1
    <3>3. QED  BY <3>2 DEF s
  <2>5. Taken(at)
      BY <2>1, <2>2, <2>3, <2>4 DEF Taken, Lexed
  <2>6. at \in at .. n
      BY <1>1, <1>2
  <2>7. QED  BY <1>2, <2>5, <2>6
<1>8. CASE TakeWord
  <2> DEFINE x == Until(at, Stop)
  <2>1. /\ text[at] \notin {"hash", "lt"} \cup Blank \cup Quote /\ at' = x
        /\ tokens' = IF x = at THEN tokens ELSE Append(tokens, SubSeq(text, at, x - 1))
      BY <1>8 DEF TakeWord, Advance
  <2>2. CASE x = at
      BY <1>2, <2>1, <2>2
  <2>3. CASE x # at
    <3>1. text[at] \in Plain
      <4>1. at \in 1 .. Len(text) + 1
          BY <1>1, <1>2
      <4>2. x \in at .. n + 1 /\ \A p \in at .. x - 1 : text[p] \notin Stop
          BY <1>1, <4>1, UntilIs
      <4>3. at \in at .. x - 1
          BY <1>1, <1>2, <2>3, <4>2
      <4>4. QED  BY <1>1, <1>2, <4>2, <4>3
    <3>2. PICK e \in at .. n : IsLexeme(at, e) /\ (at' = e + 1 \/ (e = n /\ at' > n))
        BY <1>1, <1>2, <2>1, <3>1, WordIsLexeme DEF Ends
    <3>3. e = x - 1
      <4>1. at \in 1 .. Len(text) + 1
          BY <1>1, <1>2
      <4>2. x \in at .. n + 1
          BY <1>1, <4>1, UntilIs
      <4>3. QED  BY <1>1, <1>2, <2>1, <3>2, <4>2
    <3>4. text[at] \notin Silent /\ text[at] \notin Quote
        BY <2>1 DEF Silent
    <3>5. Taken(e)
        BY <2>1, <2>3, <3>2, <3>3, <3>4 DEF Taken, Lexed
    <3>6. QED  BY <1>2, <3>5
  <2>4. QED  BY <2>2, <2>3
<1>9. QED  BY <1>3, <1>4, <1>5, <1>6, <1>7, <1>8 DEF Turn

(* The lexeme that begins at a cut ends before the next cut.               *)
LEMMA EndInIs ==
    ASSUME text \in Seq(Stop \cup Plain), NEW cuts \in SUBSET (1 .. Len(text)),
           NEW a \in 1 .. Len(text)
    PROVE  /\ (\A d \in cuts : ~(d > a)) => EndIn(cuts, a) = Len(text)
           /\ \A c \in cuts : c > a /\ (\A d \in cuts : d > a => c <= d) => EndIn(cuts, a) = c - 1
           /\ (\E d \in cuts : d > a) =>
                  \E c \in cuts : /\ c > a /\ \A d \in cuts : d > a => c <= d
                                  /\ EndIn(cuts, a) = c - 1
<1> DEFINE later == {c \in cuts : c > a}
<1>1. /\ Len(text) \in Nat /\ a \in Int /\ later \in SUBSET Int
      /\ \A c \in later : a <= c
  <2>1. \A c \in 1 .. Len(text) : c \in Int
      OBVIOUS
  <2>2. Len(text) \in Nat /\ a \in Int
      OBVIOUS
  <2>3. \A c \in later : c \in cuts /\ c \in Int /\ c > a
      BY <2>1
  <2> HIDE DEF later
  <2>4. \A c \in later : a <= c
      BY <2>2, <2>3
  <2>5. QED  BY <2>2, <2>3, <2>4
<1>2. (\A d \in cuts : ~(d > a)) => EndIn(cuts, a) = Len(text)
    BY DEF EndIn
<1>3. ASSUME NEW c \in cuts, c > a, \A d \in cuts : d > a => c <= d
      PROVE  EndIn(cuts, a) = c - 1
  <2>1. c \in later /\ \A d \in later : c <= d
      BY <1>3
  <2>2. Min(later) = c
    <3> HIDE DEF later
    <3>1. QED  BY <1>1, <2>1, MinIs
  <2>3. EndIn(cuts, a) = Min(later) - 1
      BY <1>3 DEF EndIn
  <2>4. QED  BY <2>2, <2>3
<1>4. ASSUME NEW d \in cuts, d > a
      PROVE  \E c \in cuts : c > a /\ \A x \in cuts : x > a => c <= x
  <2>1. later # {}
      BY <1>4
  <2>2. PICK c \in later : \A x \in later : c <= x
    <3> HIDE DEF later
    <3>1. QED  BY <1>1, <2>1, LeastInteger
  <2>3. QED  BY <2>2
<1>5. QED  BY <1>2, <1>3, <1>4

LEMMA EndInType ==
    ASSUME text \in Seq(Stop \cup Plain), NEW cuts \in SUBSET (1 .. Len(text)),
           NEW a \in 1 .. Len(text)
    PROVE  /\ EndIn(cuts, a) \in a .. Len(text)
           /\ EndIn(cuts, a) # Len(text) => EndIn(cuts, a) + 1 \in cuts
<1>1. Len(text) \in Nat /\ a \in 1 .. Len(text)
    OBVIOUS
<1>2. CASE \E d \in cuts : d > a
  <2>1. PICK c \in cuts : c > a /\ EndIn(cuts, a) = c - 1
      BY <1>2, EndInIs
  <2>2. c \in 1 .. Len(text)
      OBVIOUS
  <2>3. QED  BY <1>1, <2>1, <2>2
<1>3. CASE \A d \in cuts : ~(d > a)
  <2>1. EndIn(cuts, a) = Len(text)
      BY <1>3, EndInIs
  <2>2. QED  BY <1>1, <2>1
<1>4. QED  BY <1>2, <1>3

-----------------------------------------------------------------------------
(* What has been read, up to place x: a cutting whose last piece is still  *)
(* open at x, and the tokens are the words of the others.                  *)
WordsIn(done) == {a \in done : text[a] \notin Silent}

ReadAs(read, cuts, done) ==
    /\ Len(read) = Cardinality(WordsIn(done))
    /\ \A a \in WordsIn(done) :
          read[Cardinality({w \in WordsIn(done) : w <= a})] = Lexed(a, EndIn(cuts, a))

CutUpTo(x, cuts) ==
    /\ cuts \in SUBSET (1 .. Len(text)) /\ 1 \in cuts
    /\ x <= Len(text) => x \in cuts /\ \A d \in cuts : d <= x
    /\ \A a \in cuts \ {x} : IsLexeme(a, EndIn(cuts, a))

(* One more cut changes where the lexeme before it ends, and no other.     *)
OneMore(longer, y, cuts, x, e) ==
    /\ CutUpTo(y, longer) /\ longer \ {y} = cuts
    /\ EndIn(longer, x) = e
    /\ \A a \in cuts \ {x} : EndIn(longer, a) = EndIn(cuts, a)

LEMMA CutsGrow ==
    ASSUME text \in Seq(Stop \cup Plain), NEW x \in 1 .. Len(text), NEW cuts, CutUpTo(x, cuts),
           NEW e \in x .. Len(text), IsLexeme(x, e),
           NEW y \in Int, y = e + 1 \/ (e = Len(text) /\ y > Len(text))
    PROVE  \E longer : OneMore(longer, y, cuts, x, e)
<1> DEFINE n == Len(text)
           longer == IF y <= n THEN cuts \cup {y} ELSE cuts
<1>1. n \in Nat /\ x \in 1 .. n /\ e \in x .. n
    OBVIOUS
<1>2. /\ cuts \in SUBSET (1 .. n) /\ 1 \in cuts /\ x \in cuts /\ \A d \in cuts : d <= x
      /\ \A a \in cuts \ {x} : IsLexeme(a, EndIn(cuts, a))
    BY <1>1 DEF CutUpTo
<1>3. y <= n => y = e + 1
    BY <1>1
<1>4. /\ longer \in SUBSET (1 .. n) /\ 1 \in longer /\ longer \ {y} = cuts
      /\ y <= n => y \in longer /\ \A d \in longer : d <= y
      /\ \A d \in longer : d \in cuts \/ (d = y /\ y > x /\ y <= n)
    BY <1>1, <1>2, <1>3
<1>5. cuts \subseteq longer
    BY <1>4
<1> HIDE DEF longer
<1>6. EndIn(longer, x) = e
  <2>1. CASE y <= n
    <3>1. y \in longer /\ y > x /\ y - 1 = e /\ \A d \in longer : d > x => y <= d
        BY <1>1, <1>2, <1>3, <1>4, <2>1
    <3>2. QED  BY <1>4, <3>1, EndInIs
  <2>2. CASE ~(y <= n)
    <3>1. \A d \in longer : ~(d > x)
        BY <1>1, <1>2, <1>4, <2>2
    <3>2. e = n
        BY <1>1, <2>2
    <3>3. QED  BY <1>4, <3>1, <3>2, EndInIs
  <2>3. QED  BY <2>1, <2>2
<1>7. ASSUME NEW a \in cuts \ {x} PROVE EndIn(longer, a) = EndIn(cuts, a)
  <2>1. a \in 1 .. n /\ x > a
      BY <1>1, <1>2
  <2>2. PICK c \in cuts : /\ c > a /\ \A d \in cuts : d > a => c <= d
                          /\ EndIn(cuts, a) = c - 1
      BY <1>2, <2>1, EndInIs
  <2>3. \A d \in longer : d > a => c <= d
      BY <1>1, <1>2, <1>4, <2>1, <2>2
  <2>4. QED  BY <1>4, <1>5, <2>1, <2>2, <2>3, EndInIs
<1>8. CutUpTo(y, longer)
  <2>1. \A a \in cuts : IsLexeme(a, EndIn(longer, a))
      BY <1>2, <1>6, <1>7
  <2>2. QED  BY <1>4, <2>1 DEF CutUpTo
<1>9. QED  BY <1>4, <1>6, <1>7, <1>8 DEF OneMore

(* The tokens of the longer cutting are those read before, and one more    *)
(* unless the new lexeme is blank or a comment.                            *)
LEMMA WordsGrow ==
    ASSUME text \in Seq(Stop \cup Plain), NEW x \in 1 .. Len(text),
           NEW cuts \in SUBSET (1 .. Len(text)), x \in cuts, \A d \in cuts : d <= x,
           NEW longer, NEW e, EndIn(longer, x) = e,
           \A a \in cuts \ {x} : EndIn(longer, a) = EndIn(cuts, a),
           NEW Token, NEW read \in Seq(Token), ReadAs(read, cuts, cuts \ {x})
    PROVE  ReadAs(IF text[x] \in Silent THEN read ELSE Append(read, Lexed(x, e)), longer, cuts)
<1> DEFINE old == WordsIn(cuts \ {x})
           new == WordsIn(cuts)
           Upto(words, a) == Cardinality({w \in words : w <= a})
<1>1. /\ Len(read) = Cardinality(old)
      /\ \A a \in old : read[Upto(old, a)] = Lexed(a, EndIn(longer, a))
    BY DEF ReadAs, WordsIn
<1>2. CASE text[x] \in Silent
  <2>1. new = old
      BY <1>2 DEF WordsIn
  <2> HIDE DEF old, new
  <2>2. /\ Len(read) = Cardinality(new)
        /\ \A a \in new : read[Upto(new, a)] = Lexed(a, EndIn(longer, a))
      BY <1>1, <2>1
  <2>3. QED  BY <1>2, <2>2 DEF ReadAs, new
<1>3. CASE text[x] \notin Silent
  <2>1. new = old \cup {x} /\ x \notin old /\ old \subseteq 1 .. Len(text)
      BY <1>3 DEF WordsIn
  <2>2. x \in Int /\ \A a \in old : a \in Int /\ a < x
      BY DEF WordsIn
  <2>3. IsFiniteSet(old)
    <3>1. IsFiniteSet(1 .. Len(text))
        BY FS_Interval
    <3> HIDE DEF old, new
    <3>2. QED  BY <2>1, <3>1, FS_Subset
  <2> HIDE DEF old, new
  <2>4. Cardinality(new) = Len(read) + 1
      BY <1>1, <2>1, <2>3, FS_AddElement
  <2>5. ASSUME NEW a \in old
        PROVE  Upto(new, a) = Upto(old, a) /\ Upto(old, a) \in 1 .. Len(read)
    <3>1. {w \in new : w <= a} = {w \in old : w <= a}
        BY <2>1, <2>2
    <3> DEFINE upto == {w \in old : w <= a}
    <3>2. upto \in SUBSET old /\ a \in upto
        BY <2>2
    <3> HIDE DEF upto
    <3>3. IsFiniteSet(upto) /\ Cardinality(upto) <= Cardinality(old)
        BY <2>3, <3>2, FS_Subset
    <3>4. Cardinality(upto) \in Nat /\ Cardinality(upto) # 0
        BY <3>2, <3>3, FS_CardinalityType, FS_EmptySet
    <3>5. Cardinality(upto) \in 1 .. Len(read)
        BY <1>1, <3>3, <3>4
    <3>6. QED  BY <3>1, <3>5 DEF upto
  <2>6. Upto(new, x) = Len(read) + 1
    <3>1. \A w \in new : w <= x
        BY <2>1, <2>2
    <3>2. {w \in new : w <= x} = new
        BY <3>1
    <3>3. QED  BY <2>4, <3>2
  <2> DEFINE more == Append(read, Lexed(x, e))
  <2>7. /\ Len(more) = Len(read) + 1 /\ more[Len(read) + 1] = Lexed(x, e)
        /\ \A i \in 1 .. Len(read) : more[i] = read[i]
      OBVIOUS
  <2> HIDE DEF more, Upto
  <2>8. ASSUME NEW a \in new PROVE more[Upto(new, a)] = Lexed(a, EndIn(longer, a))
    <3>1. CASE a = x
        BY <2>6, <2>7, <3>1
    <3>2. CASE a \in old
        BY <1>1, <2>5, <2>7, <3>2
    <3>3. QED  BY <2>1, <3>1, <3>2
  <2>9. Len(more) = Cardinality(new)
      BY <2>4, <2>7
  <2>10. QED  BY <1>3, <2>8, <2>9 DEF ReadAs, more, new, Upto
<1>4. QED  BY <1>2, <1>3

-----------------------------------------------------------------------------
(* While the scanner reads, its tokens are the words of a cutting up to    *)
(* where it stands, and every cutting of the whole text has a cut there:   *)
(* at each place there is one lexeme at most.                              *)
ReadUpTo(x, read) ==
    /\ x <= Len(text) => \A cuts \in Cuts : x \in cuts
    /\ \E cuts : CutUpTo(x, cuts) /\ ReadAs(read, cuts, cuts \ {x})

Scanned ==
    /\ pc = "request" => at = 1 /\ tokens = <<>>
    /\ pc \in {"scan", "admit"} => ReadUpTo(at, tokens)
    /\ pc = "admit" => at > Len(text)

(* All this is about the text alone.                                       *)
LEMMA SameText ==
    ASSUME text' = text
    PROVE  \A x, read : ReadUpTo(x, read)' <=> ReadUpTo(x, read)
<1>1. ASSUME NEW cuts, NEW a PROVE EndIn(cuts, a)' = EndIn(cuts, a)
    BY Zenon DEF EndIn
<1>2. ASSUME NEW a, NEW b PROVE IsLexeme(a, b)' <=> IsLexeme(a, b)
    BY Zenon DEF IsLexeme, Closes, Escapes, Three, AllIn
<1>3. Cuts' = Cuts
    BY <1>1, <1>2, Zenon DEF Cuts
<1>4. ASSUME NEW x, NEW cuts PROVE CutUpTo(x, cuts)' <=> CutUpTo(x, cuts)
    BY <1>1, <1>2, Zenon DEF CutUpTo
<1>5. ASSUME NEW read, NEW cuts, NEW done
      PROVE  ReadAs(read, cuts, done)' <=> ReadAs(read, cuts, done)
    BY <1>1, Zenon DEF ReadAs, WordsIn, Lexed
<1>6. QED  BY <1>3, <1>4, <1>5, Zenon DEF ReadUpTo

LEMMA ScannedBegin ==
    ASSUME TypeInv, Scanned, Begin
    PROVE  Scanned'
<1>1. /\ pc = "request" /\ at = 1 /\ tokens = <<>> /\ UNCHANGED <<text, at, tokens>>
      /\ pc' \in {"refused", "scan"}
      /\ pc' = "scan" => ~(ToSet(text) \subseteq Blank)
    BY DEF Begin, Scanned, request, scanner
<1>2. text \in Seq(Stop \cup Plain) /\ Len(text) \in Nat
    BY TextType
<1>3. CASE pc' = "refused"
    BY <1>3 DEF Scanned
<1>4. CASE pc' = "scan"
  <2>1. Len(text) >= 1
    <3>1. Len(text) = 0 => ToSet(text) = {}
        BY <1>2 DEF ToSet
    <3>2. QED  BY <1>1, <1>2, <1>4, <3>1
  <2>2. \A cuts \in Cuts : at \in cuts
      BY <1>1 DEF Cuts
  <2>3. CutUpTo(at, {1})
      BY <1>1, <1>2, <2>1 DEF CutUpTo
  <2>4. ReadAs(tokens, {1}, {1} \ {at})
    <3>1. WordsIn({1} \ {at}) = {}
        BY <1>1 DEF WordsIn
    <3>2. Len(tokens) = 0 /\ Cardinality({}) = 0
        BY <1>1, FS_EmptySet
    <3>3. QED  BY <3>1, <3>2 DEF ReadAs
  <2>5. ReadUpTo(at, tokens)
      BY <2>2, <2>3, <2>4 DEF ReadUpTo
  <2>6. ReadUpTo(at, tokens)'
      BY <1>1, <2>5, SameText
  <2>7. QED  BY <1>4, <2>6 DEF Scanned
<1>5. QED  BY <1>1, <1>3, <1>4

LEMMA ScannedTurn ==
    ASSUME TypeInv, TypeInv', Scanned, Turn
    PROVE  Scanned'
<1> DEFINE Token == Seq(Stop \cup Plain \cup {"_STR"})
<1>1. /\ text \in Seq(Stop \cup Plain) /\ Len(text) \in Nat /\ at' \in Int
      /\ tokens \in Seq(Token)
    BY TextType DEF TypeInv, TypeOK
<1>2. at \in 1 .. Len(text) /\ pc = "scan" /\ UNCHANGED <<text, pc>>
    BY TurnTakes
<1>3. /\ \A cuts \in Cuts : at \in cuts
      /\ \E cuts : CutUpTo(at, cuts) /\ ReadAs(tokens, cuts, cuts \ {at})
  <2>1. ReadUpTo(at, tokens) /\ at <= Len(text)
      BY <1>1, <1>2 DEF Scanned
  <2>2. QED  BY <2>1 DEF ReadUpTo
<1> DEFINE y == at'
           read == tokens'
<1>4. ReadUpTo(y, read)
  <2>1. CASE UNCHANGED <<at, tokens>>
      BY <1>2, <2>1 DEF Scanned
  <2>2. CASE \E e \in at .. Len(text) : Taken(e)
    <3>1. PICK e \in at .. Len(text) : Taken(e)
        BY <2>2
    <3>2. IsLexeme(at, e) /\ (at' = e + 1 \/ (e = Len(text) /\ at' > Len(text)))
        BY <3>1 DEF Taken
    <3>3. ASSUME NEW cuts \in Cuts, at' <= Len(text) PROVE at' \in cuts
      <4>1. cuts \in SUBSET (1 .. Len(text)) /\ at \in cuts /\ IsLexeme(at, EndIn(cuts, at))
          BY <1>3 DEF Cuts
      <4>2. /\ EndIn(cuts, at) \in at .. Len(text)
            /\ EndIn(cuts, at) # Len(text) => EndIn(cuts, at) + 1 \in cuts
          BY <1>1, <1>2, <4>1, EndInType
      <4>3. EndIn(cuts, at) = e
          BY <1>1, <1>2, <3>2, <4>1, <4>2, OneLexeme
      <4>4. at' = e + 1 /\ e # Len(text)
          BY <1>1, <1>2, <3>2, <3>3
      <4>5. QED  BY <4>2, <4>3, <4>4
    <3>4. PICK cuts : CutUpTo(at, cuts) /\ ReadAs(tokens, cuts, cuts \ {at})
        BY <1>3
    <3>5. PICK longer : OneMore(longer, at', cuts, at, e)
      <4>1. y \in Int /\ (y = e + 1 \/ (e = Len(text) /\ y > Len(text)))
          BY <1>1, <3>2
      <4> HIDE DEF y, read
      <4>2. \E longer : OneMore(longer, y, cuts, at, e)
          BY <1>1, <1>2, <3>2, <3>4, <4>1, CutsGrow
      <4>3. QED  BY <4>2 DEF y
    <3>6. tokens' = IF text[at] \in Silent THEN tokens ELSE Append(tokens, Lexed(at, e))
        BY <3>1 DEF Taken
    <3>7. ReadAs(tokens', longer, longer \ {at'})
      <4>1. cuts \in SUBSET (1 .. Len(text)) /\ at \in cuts /\ \A d \in cuts : d <= at
          BY <1>1, <1>2, <3>4 DEF CutUpTo
      <4>2. ReadAs(IF text[at] \in Silent THEN tokens ELSE Append(tokens, Lexed(at, e)), longer, cuts)
        <5> HIDE DEF Token
        <5>1. /\ EndIn(longer, at) = e
              /\ \A a \in cuts \ {at} : EndIn(longer, a) = EndIn(cuts, a)
            BY <3>5 DEF OneMore
        <5>2. QED  BY <1>1, <1>2, <3>4, <4>1, <5>1, WordsGrow
      <4>3. longer \ {at'} = cuts
          BY <3>5 DEF OneMore
      <4>4. QED  BY <3>6, <4>2, <4>3
    <3>8. QED  BY <3>3, <3>5, <3>7 DEF ReadUpTo, OneMore
  <2>3. QED  BY <2>1, <2>2, TurnTakes
<1>5. ReadUpTo(at, tokens)'
  <2> HIDE DEF y, read
  <2>1. \A x, r : ReadUpTo(x, r) => ReadUpTo(x, r)'
      BY <1>2, SameText
  <2>2. QED  BY <1>4, <2>1 DEF y, read
<1>6. QED  BY <1>2, <1>5 DEF Scanned

LEMMA ScannedInvariant == Spec => []Scanned
<1>1. Init => Scanned
    BY DEF Init, Scanned
<1>2. TypeInv /\ TypeInv' /\ Scanned /\ [Next]_vars => Scanned'
  <2> SUFFICES ASSUME TypeInv, TypeInv', Scanned, [Next]_vars PROVE Scanned'
      OBVIOUS
  <2>1. CASE Begin
      BY <2>1, ScannedBegin
  <2>2. CASE Turn
      BY <2>2, ScannedTurn
  <2>3. ASSUME UNCHANGED <<text, at, tokens>>,
               pc' \in {"scan", "admit"} => pc \in {"scan", "admit"},
               pc' = "request" => pc = "request",
               pc' = "admit" => at > Len(text)
        PROVE  Scanned'
    <3>1. ReadUpTo(at, tokens) => ReadUpTo(at, tokens)'
        BY <2>3, SameText
    <3>2. QED  BY <2>3, <3>1 DEF Scanned
  <2>4. CASE EndScan
      BY <2>3, <2>4 DEF EndScan, request, scanner
  <2>5. CASE Refuse \/ Execute \/ TakeRow \/ Return
      BY <2>3, <2>5 DEF Refuse, Execute, TakeRow, Return, request, scanner
  <2>6. CASE Expire \/ UNCHANGED vars
    <3>1. UNCHANGED <<text, at, tokens, pc>>
        BY <2>6 DEF Expire, vars, request, scanner
    <3>2. pc = "admit" => at > Len(text)
        BY DEF Scanned
    <3>3. QED  BY <2>3, <3>1, <3>2
  <2>7. QED
      BY <2>1, <2>2, <2>4, <2>5, <2>6 DEF Next, Serve, Scan, Rest, Turn
<1>3. QED  BY <1>1, <1>2, TypeInvariant, PTL DEF Spec

(* The scanner cuts every text as the reference does: behind the text, its *)
(* tokens are the words of a cutting into lexemes, so that no keyword is   *)
(* read inside a comment, a string or an IRI; and a text on which it is    *)
(* stuck has no cutting.                                                   *)
THEOREM LexemesAreCut == Spec => []CutsIntoLexemes
<1>1. TypeInv /\ Scanned => CutsIntoLexemes
  <2> SUFFICES ASSUME TypeInv, Scanned PROVE CutsIntoLexemes
      OBVIOUS
  <2>1. text \in Seq(Stop \cup Plain) /\ Len(text) \in Nat
      BY TextType
  <2>2. ASSUME pc = "admit" PROVE \E cuts \in Cuts : AreWords(cuts)
    <3>1. PICK cuts : CutUpTo(at, cuts) /\ ReadAs(tokens, cuts, cuts \ {at})
        BY <2>2 DEF Scanned, ReadUpTo
    <3>2. at > Len(text) /\ at \in Int
        BY <2>2 DEF Scanned, TypeInv, TypeOK
    <3>3. cuts \ {at} = cuts
        BY <2>1, <3>1, <3>2 DEF CutUpTo
    <3>4. cuts \in Cuts
        BY <3>1, <3>3 DEF CutUpTo, Cuts
    <3>5. WordsIn(cuts) = {a \in cuts : text[a] \notin Blank \cup {"hash"}}
        BY DEF WordsIn, Silent
    <3>6. AreWords(cuts)
        BY <3>1, <3>3, <3>5 DEF ReadAs, Lexed, AreWords
    <3>7. QED  BY <3>4, <3>6
  <2>3. ASSUME Stuck, NEW cuts \in Cuts PROVE FALSE
    <3>1. pc = "scan" /\ at \in 1 .. Len(text) /\ text[at] \in {"gt", "comma"}
        BY <2>1, <2>3 DEF Stuck, Scanning, TypeInv, TypeOK
    <3>2. at \in cuts
        BY <2>1, <3>1 DEF Scanned, ReadUpTo
    <3>3. cuts \in SUBSET (1 .. Len(text)) /\ IsLexeme(at, EndIn(cuts, at))
        BY <3>2 DEF Cuts
    <3>4. EndIn(cuts, at) \in at .. Len(text)
        BY <2>1, <3>1, <3>3, EndInType
    <3>5. QED  BY <2>1, <3>1, <3>3, <3>4, NoLexeme
  <2>4. QED  BY <2>2, <2>3 DEF CutsIntoLexemes
<1>2. QED  BY <1>1, TypeInvariant, ScannedInvariant, PTL
=============================================================================
