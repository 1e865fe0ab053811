--------------------------- MODULE EndToEndProofs ---------------------------
(***************************************************************************)
(* What holds of EndToEnd for every set of clients, processes, documents   *)
(* and calls, every script, and every bound on retries and restarts.       *)
(***************************************************************************)
EXTENDS EndToEnd, FiniteSetTheorems, TLAPS

-----------------------------------------------------------------------------
(* Types, but for the bound on how often a call is done.                   *)

ReplyType == {"ok", "serverError", "refused"}
StageType == {"none", "sent", "stored", "replied", "over"}

ServerTypes ==
    /\ backend \in [Process -> Backend] /\ graph \in [Backend -> BOOLEAN]
    /\ last \in [Backend -> [Doc -> Call \cup {NoCall}]]
    /\ core \in [Doc -> Call \cup {NoCall}]
    /\ proc \in [Attempt -> Process \cup {NoProcess}]
    /\ adrift \subseteq Attempt
    /\ restarts \in 0 .. MaxRestarts
    /\ done \in [Call -> Nat]
    /\ wrote \in [Call -> SUBSET Backend] /\ tangled \subseteq Doc

ClientTypes ==
    /\ req \in Script
    /\ phase \in [Call -> {"idle", "open"} \cup Outcome]
    /\ try \in [Call -> 0 .. MaxRetries]
    /\ value \in [Call -> (Call \cup {NoCall}) \X (Backend \cup {"none"})]
    /\ stage \in [Attempt -> StageType]
    /\ reply \in [Attempt -> ReplyType]

Types == ServerTypes /\ ClientTypes

LEMMA AttemptParts ==
    ASSUME NEW a \in Attempt
    PROVE  a[1] \in Call /\ a[2] \in 0 .. MaxRetries /\ a = <<a[1], a[2]>>
BY DEF Attempt

LEMMA NowIsAttempt ==
    ASSUME ClientTypes, NEW k \in Call
    PROVE  Now(k) \in Attempt
BY DEF ClientTypes, Now, Attempt

LEMMA RequestParts ==
    ASSUME ClientTypes, NEW a \in Attempt
    PROVE  RequestOf(a).doc \in Doc /\ RequestOf(a) = req[a[1]]
BY CallAssumption, AttemptParts DEF ClientTypes, RequestOf

LEMMA InitTypes == Init => Types
<1> SUFFICES ASSUME Init PROVE Types
  OBVIOUS
<1>1. ServerTypes
  <2>1. backend \in [Process -> Backend]
    BY CallAssumption DEF Init
  <2>2. restarts \in 0 .. MaxRestarts
    BY CallAssumption DEF Init
  <2> QED
    BY <2>1, <2>2 DEF Init, ServerTypes
<1>2. ClientTypes
  BY CallAssumption DEF Init, ClientTypes, StageType, ReplyType
<1> QED
  BY <1>1, <1>2 DEF Types

-----------------------------------------------------------------------------
(* What the steps do to the attempts.                                      *)

(* A step of a client that waits: it sends another attempt or returns.  It *)
(* leaves the attempt it waited for as it was, or done with; and it never  *)
(* leaves an answer behind that nobody waits for, nor a read to be served. *)
Leaves(k, s) ==
    /\ s \in {stage[Now(k)], "over"} /\ s # "replied"
    /\ req[k].op = "read" => s # "sent"
    /\ stage[Now(k)] = "stored" => s = "stored" \/ req[k].op = "read"

SendsAgain(k) ==
    /\ try[k] < MaxRetries /\ CanRetry(k)
    /\ try' = [try EXCEPT ![k] = @ + 1]
    /\ \E s \in StageType :
          /\ Leaves(k, s)
          /\ stage' = [stage EXCEPT ![Now(k)] = s, ![<<k, try[k] + 1>>] = "sent"]
    /\ UNCHANGED phase

Returns(k) ==
    /\ \E o \in Outcome, s \in StageType :
          /\ Leaves(k, s)
          /\ o # "unknown" => stage[Now(k)] = "replied" /\ o = reply[Now(k)] /\ s = "over"
          /\ phase' = [phase EXCEPT ![k] = o]
          /\ stage' = [stage EXCEPT ![Now(k)] = s]
    /\ UNCHANGED try

ServerKept == UNCHANGED <<backend, storeVars, core, req, value, proc, adrift, restarts,
                          history>>

WaitEffect(k) ==
    /\ phase[k] = "open"
    /\ ServerKept
    /\ reply' \in {reply, [reply EXCEPT ![Now(k)] = "ok"]}
    /\ SendsAgain(k) \/ Returns(k)

LEMMA RetryOrFailEffect ==
    ASSUME ClientTypes, NEW k \in Call, NEW s \in StageType, Leaves(k, s),
           RetryOrFail(k, [stage EXCEPT ![Now(k)] = s])
    PROVE  SendsAgain(k) \/ Returns(k)
<1>1. CASE CanRetry(k) /\ try[k] < MaxRetries
  BY <1>1 DEF RetryOrFail, SendsAgain
<1>2. CASE ~(CanRetry(k) /\ try[k] < MaxRetries)
  <2>1. phase' = [phase EXCEPT ![k] = "unknown"] /\ UNCHANGED try
        /\ stage' = [stage EXCEPT ![Now(k)] = s]
    BY <1>2 DEF RetryOrFail, Return
  <2> QED
    BY <2>1 DEF Returns, Outcome, Doubt
<1> QED
  BY <1>1, <1>2

LEMMA WaitHasEffect ==
    ASSUME ClientTypes, NEW k \in Call, Wait(k)
    PROVE  WaitEffect(k)
<1>0. Now(k) \in Attempt /\ stage[Now(k)] \in StageType /\ reply[Now(k)] \in ReplyType
  BY NowIsAttempt DEF ClientTypes
<1>1. CASE Receive(k)
  <2>1. reply[Now(k)] \in Outcome /\ Leaves(k, "over") /\ "over" \in StageType
    BY <1>0, <1>1 DEF Receive, ReplyType, Outcome, Doubt, Leaves, StageType
  <2>2. Returns(k)
    BY <1>1, <2>1 DEF Receive, Return, Returns
  <2> QED
    BY <1>1, <2>2 DEF Receive, WaitEffect, ServerKept
<1>2. CASE GiveUp(k)
  <2> DEFINE s == IF stage[Now(k)] = "replied" \/ req[k].op = "read" THEN "over"
                  ELSE stage[Now(k)]
  <2>1. Leaves(k, s) /\ s \in StageType
    BY <1>0 DEF Leaves, StageType
  <2>2. RetryOrFail(k, [stage EXCEPT ![Now(k)] = s])
    BY <1>0, <1>2 DEF GiveUp, ClientTypes
  <2>3. SendsAgain(k) \/ Returns(k)
    BY <2>1, <2>2, RetryOrFailEffect
  <2> QED
    BY <1>2, <2>3 DEF GiveUp, WaitEffect, ServerKept
<1>3. CASE Unreachable(k)
  <2>1. /\ Leaves(k, "over") /\ "over" \in StageType
        /\ RetryOrFail(k, [stage EXCEPT ![Now(k)] = "over"])
    BY <1>3 DEF Unreachable, Leaves, StageType
  <2>2. SendsAgain(k) \/ Returns(k)
    BY <2>1, RetryOrFailEffect
  <2> QED
    BY <1>3, <2>2 DEF Unreachable, WaitEffect, ServerKept
<1>4. CASE Break(k)
  <2>1. Leaves(k, stage[Now(k)])
    BY <1>4 DEF Break, Leaves
  <2>2. stage' = [stage EXCEPT ![Now(k)] = stage[Now(k)]]
    BY <1>0, <1>4 DEF Break, attemptVars, ClientTypes
  <2>3. Returns(k)
    BY <1>0, <1>4, <2>1, <2>2 DEF Break, Return, Returns, Outcome, Doubt
  <2> QED
    BY <1>4, <2>3 DEF Break, WaitEffect, ServerKept, attemptVars
<1> QED
  BY <1>1, <1>2, <1>3, <1>4 DEF Wait

(* A step that serves an attempt: it is refused, done and answered, or     *)
(* done and waiting for core; or its wait for core ends.                   *)
Settles(a, s, r) ==
    /\ stage' = [stage EXCEPT ![a] = s]
    /\ reply' = [reply EXCEPT ![a] = r]
    /\ proc' = [proc EXCEPT ![a] = NoProcess]
    /\ s \in {"replied", "over"} /\ (s = "replied" => Awaited(a)) /\ r \in ReplyType

Refuses(a) ==
    /\ stage[a] = "sent"
    /\ \E s, r : Settles(a, s, r) /\ r # "serverError" /\ (s = "replied" => r = "refused")
    /\ UNCHANGED done

Does(a) ==
    /\ stage[a] = "sent"
    /\ done' = [done EXCEPT ![a[1]] = @ + 1]
    /\ \/ \E s, r : Settles(a, s, r) /\ r # "refused"
       \/ /\ stage' = [stage EXCEPT ![a] = "stored"]
          /\ \E p \in Process : proc' = [proc EXCEPT ![a] = p]
          /\ RequestOf(a).op \in {"build", "withdraw"}
          /\ UNCHANGED reply

Finishes(a) ==
    /\ stage[a] = "stored"
    /\ \E s, r : Settles(a, s, r) /\ r # "refused"
    /\ UNCHANGED done

ServeEffect(a) ==
    /\ UNCHANGED <<req, phase, try, backend, restarts>>
    /\ Refuses(a) \/ Does(a) \/ Finishes(a)

LEMMA AnswerSettles ==
    ASSUME NEW a \in Attempt, NEW r \in ReplyType, Answer(a, r)
    PROVE  \E s, q : /\ Settles(a, s, q) /\ q \in {r, "ok"}
                     /\ s = "replied" => q = r
<1>1. CASE Awaited(a)
  <2>1. Settles(a, "replied", r)
    BY <1>1 DEF Answer, Settles
  <2> QED
    BY <2>1
<1>2. CASE ~Awaited(a)
  <2>1. Settles(a, "over", "ok")
    BY <1>2 DEF Answer, Settles, ReplyType
  <2> QED
    BY <2>1
<1> QED
  BY <1>1, <1>2

(* All that serves an attempt, but for core that applies a late request.   *)
Handles(a) ==
    \/ \E p \in Process : \/ Refuse(p, a) \/ Create(p, a) \/ Remove(p, a)
                         \/ Read(p, a) \/ Write(p, a) \/ WriteSome(p, a)
    \/ Posted(a) \/ PostFails(a)

LEMMA HandleHasEffect ==
    ASSUME NEW a \in Attempt, Handles(a)
    PROVE  ServeEffect(a)
<1> USE DEF ServeEffect, clientVars
<1>1. CASE \E p \in Process : Refuse(p, a)
  <2>1. Answer(a, "refused") /\ "refused" \in ReplyType
    BY <1>1 DEF Refuse, ReplyType
  <2>2. Refuses(a)
    BY <1>1, <2>1, AnswerSettles DEF Refuse, Takes, Refuses, history
  <2> QED
    BY <1>1, <2>2 DEF Refuse
<1>2. CASE \E p \in Process : Create(p, a) \/ Remove(p, a) \/ Read(p, a)
  <2>1. Answer(a, "ok") /\ "ok" \in ReplyType
    BY <1>2 DEF Create, Remove, Read, ReplyType
  <2>2. Does(a)
    BY <1>2, <2>1, AnswerSettles DEF Create, Remove, Read, Takes, Does, Did
  <2> QED
    BY <1>2, <2>2 DEF Create, Remove, Read
<1>3. CASE \E p \in Process : Write(p, a)
  <2>1. Does(a)
    BY <1>3 DEF Write, Store, Takes, Did, AwaitCore, Does
  <2> QED
    BY <1>3, <2>1 DEF Write, Store
<1>4. CASE \E p \in Process : WriteSome(p, a)
  <2>1. Answer(a, "serverError") /\ "serverError" \in ReplyType
    BY <1>4 DEF WriteSome, ReplyType
  <2>2. Does(a)
    BY <1>4, <2>1, AnswerSettles DEF WriteSome, Store, Takes, Did, Does
  <2> QED
    BY <1>4, <2>2 DEF WriteSome, Store
<1>5. CASE Posted(a) \/ PostFails(a)
  <2>1. \E r \in {"ok", "serverError"} : Answer(a, r)
    BY <1>5 DEF Posted, PostFails
  <2>2. Finishes(a)
    BY <1>5, <2>1, AnswerSettles DEF Posted, PostFails, Finishes, history, ReplyType
  <2> QED
    BY <1>5, <2>2 DEF Posted, PostFails
<1> QED
  BY <1>1, <1>2, <1>3, <1>4, <1>5 DEF Handles

LEMMA ServeHasEffect ==
    ASSUME NEW a \in Attempt, Serve(a)
    PROVE  Apply(a) \/ ServeEffect(a)
BY HandleHasEffect DEF Serve, Handles

LEMMA WaitTypes ==
    ASSUME ClientTypes, NEW k \in Call, WaitEffect(k)
    PROVE  ClientTypes'
<1>0. Now(k) \in Attempt /\ stage[Now(k)] \in StageType
  BY NowIsAttempt DEF ClientTypes
<1>1. req' \in Script /\ value' = value
  BY DEF ClientTypes, WaitEffect, ServerKept
<1>2. reply' \in [Attempt -> ReplyType]
  BY <1>0 DEF ClientTypes, WaitEffect, ReplyType
<1>3. ASSUME NEW s, Leaves(k, s) PROVE s \in StageType
  BY <1>0, <1>3 DEF Leaves, StageType
<1>4. CASE SendsAgain(k)
  <2>1. stage' \in [Attempt -> StageType]
    BY <1>3, <1>4 DEF ClientTypes, SendsAgain, StageType
  <2>2. try' \in [Call -> 0 .. MaxRetries]
    BY <1>4, CallAssumption DEF ClientTypes, SendsAgain
  <2> QED
    BY <1>1, <1>2, <1>4, <2>1, <2>2 DEF ClientTypes, SendsAgain
<1>5. CASE Returns(k)
  <2>1. stage' \in [Attempt -> StageType]
    BY <1>3, <1>5 DEF ClientTypes, Returns, StageType
  <2>2. phase' \in [Call -> {"idle", "open"} \cup Outcome]
    BY <1>5 DEF ClientTypes, Returns
  <2> QED
    BY <1>1, <1>2, <1>5, <2>1, <2>2 DEF ClientTypes, Returns
<1> QED
  BY <1>4, <1>5 DEF WaitEffect

LEMMA ServedClientTypes ==
    ASSUME ClientTypes, NEW a \in Attempt, ServeEffect(a),
           value' \in [Call -> (Call \cup {NoCall}) \X (Backend \cup {"none"})]
    PROVE  ClientTypes'
<1>1. stage' \in [Attempt -> StageType]
  BY DEF ClientTypes, ServeEffect, Refuses, Does, Finishes, Settles, StageType
<1>2. reply' \in [Attempt -> ReplyType]
  BY DEF ClientTypes, ServeEffect, Refuses, Does, Finishes, Settles
<1> QED
  BY <1>1, <1>2 DEF ClientTypes, ServeEffect

(* The steps of the server keep the types of what it holds.                *)
LEMMA ServeTypes ==
    ASSUME Types, NEW a \in Attempt, Serve(a)
    PROVE  Types'
<1> USE DEF Types
<1>0. /\ a[1] \in Call /\ RequestOf(a).doc \in Doc
      /\ \A p \in Process : backend[p] \in Backend
  BY AttemptParts, RequestParts DEF ServerTypes
<1>1. CASE Apply(a)
  <2>1. ServerTypes'
    BY <1>0, <1>1 DEF Apply, ApplyToCore, ServerTypes, storeVars, history
  <2>2. ClientTypes'
    BY <1>1 DEF Apply, ClientTypes, clientVars
  <2> QED
    BY <2>1, <2>2
<1>2. CASE ~Apply(a)
  <2>1. ServeEffect(a)
    BY <1>2, ServeHasEffect
  <2>2. backend' = backend /\ restarts' = restarts
    BY <2>1 DEF ServeEffect
  <2>3. done' \in [Call -> Nat]
    BY <2>1 DEF ServeEffect, Refuses, Does, Finishes, ServerTypes
  <2>4. value' \in [Call -> (Call \cup {NoCall}) \X (Backend \cup {"none"})]
    <3>1. CASE \E p \in Process : Read(p, a)
      <4>1. PICK p \in Process : Read(p, a)
        BY <3>1
      <4>2. <<last[backend[p]][RequestOf(a).doc], backend[p]>>
                \in (Call \cup {NoCall}) \X (Backend \cup {"none"})
        BY <1>0 DEF ServerTypes
      <4> QED
        BY <4>1, <4>2 DEF Read, ClientTypes
    <3>2. CASE ~\E p \in Process : Read(p, a)
      <4>1. UNCHANGED value
        BY <1>2, <3>2 DEF Serve, Refuse, Create, Remove, Write, WriteSome, Store,
                          Posted, PostFails, clientVars
      <4> QED
        BY <4>1 DEF ClientTypes
    <3> QED
      BY <3>1, <3>2
  <2>5. graph' \in [Backend -> BOOLEAN]
    BY <1>0, <1>2 DEF Serve, Refuse, Create, Remove, Read, Write, WriteSome, Store,
                      Posted, PostFails, storeVars, ServerTypes
  <2>6. last' \in [Backend -> [Doc -> Call \cup {NoCall}]]
    <3>1. CASE \E p \in Process : Store(p, a)
      BY <1>0, <3>1 DEF Store, ServerTypes
    <3>2. CASE \E p \in Process : Remove(p, a)
      BY <1>0, <3>2 DEF Remove, ServerTypes
    <3> QED
      BY <1>2, <3>1, <3>2 DEF Serve, Refuse, Create, Read, Write, WriteSome,
                              Posted, PostFails, storeVars, ServerTypes
  <2>7. core' \in [Doc -> Call \cup {NoCall}]
    BY <1>0, <1>2 DEF Serve, Refuse, Create, Remove, Read, Write, WriteSome, Store,
                      Posted, PostFails, ApplyToCore, ServerTypes
  <2>8. proc' \in [Attempt -> Process \cup {NoProcess}]
    BY <1>0, <1>2 DEF Serve, Refuse, Create, Remove, Read, Write, WriteSome, Answer,
                      AwaitCore, Posted, PostFails, ServerTypes
  <2>9. adrift' \subseteq Attempt
    BY <1>2 DEF Serve, Refuse, Create, Remove, Read, Write, WriteSome, Store,
                Posted, PostFails, ServerTypes
  <2>10. wrote' \in [Call -> SUBSET Backend]
    <3>1. UNCHANGED wrote \/ \E p \in Process : Did(p, a)
      BY <1>2 DEF Serve, Refuse, Create, Remove, Read, Write, WriteSome, Store,
                  Posted, PostFails, history
    <3>2. ASSUME NEW p \in Process, Did(p, a) PROVE wrote' \in [Call -> SUBSET Backend]
      <4>1. wrote[a[1]] \cup {backend[p]} \in SUBSET Backend
        BY <1>0 DEF ServerTypes
      <4> QED
        BY <3>2, <4>1 DEF Did, ServerTypes
    <3> QED
      BY <3>1, <3>2 DEF ServerTypes
  <2>11. tangled' \subseteq Doc
    BY <1>0, <1>2 DEF Serve, Refuse, Create, Remove, Read, Write, WriteSome, TangleIf,
                      Posted, PostFails, history, ServerTypes
  <2>12. ClientTypes'
    BY <2>1, <2>4, ServedClientTypes
  <2> QED
    BY <2>2, <2>3, <2>5, <2>6, <2>7, <2>8, <2>9, <2>10, <2>11, <2>12 DEF ServerTypes
<1> QED
  BY <1>1, <1>2

LEMMA RestartTypes ==
    ASSUME Types, NEW p \in Process, Restart(p)
    PROVE  Types'
<1> USE DEF Types
<1>1. stage' \in [Attempt -> StageType]
  BY DEF Restart, ClientTypes, StageType
<1>2. ClientTypes'
  BY <1>1 DEF Restart, ClientTypes, clientVars
<1>3. tangled' \subseteq Doc
  BY RequestParts DEF Restart, ServerTypes
<1>4. restarts' \in 0 .. MaxRestarts
  BY CallAssumption DEF Restart, ServerTypes
<1>5. adrift' \subseteq Attempt
  BY DEF Restart, ServerTypes
<1>6. proc' \in [Attempt -> Process \cup {NoProcess}]
  BY DEF Restart, ServerTypes
<1> QED
  BY <1>2, <1>3, <1>4, <1>5, <1>6 DEF Restart, ServerTypes, storeVars

LEMMA NextTypes == Types /\ [Next]_vars => Types'
<1> SUFFICES ASSUME Types, [Next]_vars PROVE Types'
  OBVIOUS
<1>1. CASE \E k \in Call : Issue(k)
  <2>1. PICK k \in Call : Issue(k)
    BY <1>1
  <2>2. ServerTypes'
    BY <2>1 DEF Issue, Types, ServerTypes, storeVars, history
  <2>3. ClientTypes'
    BY <2>1 DEF Issue, Types, ClientTypes, StageType
  <2> QED
    BY <2>2, <2>3 DEF Types
<1>2. CASE \E k \in Call : Wait(k)
  <2>1. PICK k \in Call : WaitEffect(k)
    BY <1>2, WaitHasEffect DEF Types
  <2>2. ServerTypes'
    BY <2>1 DEF WaitEffect, ServerKept, Types, ServerTypes, storeVars, history
  <2> QED
    BY <2>1, <2>2, WaitTypes DEF Types
<1>3. CASE \E a \in Attempt : Serve(a)
  BY <1>3, ServeTypes
<1>4. CASE \E p \in Process : Restart(p)
  BY <1>4, RestartTypes
<1>5. CASE UNCHANGED vars
  BY <1>5 DEF vars, storeVars, clientVars, attemptVars, history, Types, ServerTypes,
              ClientTypes
<1> QED
  BY <1>1, <1>2, <1>3, <1>4, <1>5 DEF Next, Rest

-----------------------------------------------------------------------------
(* The course of a call.  Its attempts are sent one after the other, each  *)
(* is served once, and only while it is on its way may it still do what    *)
(* the call asks for.                                                      *)

Sent(k) == {n \in 0 .. MaxRetries : stage[<<k, n>>] = "sent"}

DoneBound == \A k \in Call : done[k] + Cardinality(Sent(k)) <= try[k] + 1

CallCourse(k) ==
    /\ phase[k] = "idle" => try[k] = 0 /\ done[k] = 0 /\ stage[<<k, 0>>] = "none"
    /\ \A n \in 0 .. MaxRetries : n > try[k] => stage[<<k, n>>] = "none"
    /\ try[k] > 0 => CanRetry(k)
    /\ phase[k] \in {"ok", "refused"} => stage[Now(k)] = "over"
    /\ phase[k] = "refused" /\ try[k] = 0 => done[k] = 0
    /\ phase[k] # "idle" => \A j \in Mine(k) : j < k => phase[j] \in Outcome

AttemptCourse(a) ==
    /\ stage[a] = "sent" /\ RequestOf(a).op = "read" => Awaited(a)
    /\ stage[a] = "stored" => done[a[1]] > 0 /\ RequestOf(a).op \in {"build", "withdraw"}
    /\ stage[a] = "replied" => /\ Awaited(a)
                               /\ reply[a] = "ok" => done[a[1]] > 0
                               /\ reply[a] = "refused" /\ try[a[1]] = 0 => done[a[1]] = 0
    /\ proc[a] \in Process => stage[a] = "stored"

Course ==
    /\ Types
    /\ DoneBound
    /\ \A k \in Call : CallCourse(k)
    /\ \A a \in Attempt : AttemptCourse(a)

LEMMA SentFinite ==
    ASSUME NEW k \in Call
    PROVE  IsFiniteSet(Sent(k)) /\ Cardinality(Sent(k)) \in Nat
<1>1. IsFiniteSet(0 .. MaxRetries)
  BY CallAssumption, FS_Interval
<1> QED
  BY <1>1, FS_Subset, FS_CardinalityType DEF Sent

LEMMA CountTypes ==
    ASSUME Types, NEW k \in Call
    PROVE  done[k] \in Nat /\ try[k] \in Nat /\ try[k] <= MaxRetries
BY CallAssumption DEF Types, ServerTypes, ClientTypes

(* Fewer attempts on the way, or one more.                                 *)
LEMMA SentShrinks ==
    ASSUME NEW k \in Call, Sent(k)' \subseteq Sent(k)
    PROVE  Cardinality(Sent(k)') \in Nat /\ Cardinality(Sent(k)') <= Cardinality(Sent(k))
BY SentFinite, FS_Subset, FS_CardinalityType

LEMMA SentGrows ==
    ASSUME NEW k \in Call, NEW n, Sent(k)' \subseteq Sent(k) \cup {n}
    PROVE  /\ Cardinality(Sent(k)') \in Nat
           /\ Cardinality(Sent(k)') <= Cardinality(Sent(k)) + 1
<1>1. /\ IsFiniteSet(Sent(k) \cup {n})
      /\ Cardinality(Sent(k) \cup {n}) \in Nat
      /\ Cardinality(Sent(k) \cup {n}) <= Cardinality(Sent(k)) + 1
  <2>1. IsFiniteSet(Sent(k)) /\ Cardinality(Sent(k)) \in Nat
    BY SentFinite
  <2>2. /\ IsFiniteSet(Sent(k) \cup {n})
        /\ Cardinality(Sent(k) \cup {n}) = IF n \in Sent(k) THEN Cardinality(Sent(k))
                                           ELSE Cardinality(Sent(k)) + 1
    BY <2>1, FS_AddElement
  <2> QED
    BY <2>1, <2>2
<1>2. /\ IsFiniteSet(Sent(k)')
      /\ Cardinality(Sent(k)') <= Cardinality(Sent(k) \cup {n})
  BY <1>1, FS_Subset
<1>3. Cardinality(Sent(k)') \in Nat
  BY <1>2, FS_CardinalityType
<1> QED
  BY <1>1, <1>2, <1>3, SentFinite

LEMMA SentServed ==
    ASSUME NEW a \in Attempt, ClientTypes, stage[a] = "sent",
           NEW s, s # "sent", stage' = [stage EXCEPT ![a] = s]
    PROVE  /\ Cardinality(Sent(a[1])') \in Nat
           /\ Cardinality(Sent(a[1])') = Cardinality(Sent(a[1])) - 1
<1>1. Sent(a[1])' = Sent(a[1]) \ {a[2]} /\ a[2] \in Sent(a[1]) /\ a[1] \in Call
  BY AttemptParts DEF Sent, ClientTypes, Attempt
<1> QED
  BY <1>1, SentFinite, FS_RemoveElement, FS_CardinalityType

(* An attempt that is on the way has not done anything.                    *)
LEMMA SentNotDone ==
    ASSUME Types, DoneBound, NEW a \in Attempt, stage[a] = "sent"
    PROVE  done[a[1]] <= try[a[1]]
<1>1. a[1] \in Call /\ a[2] \in Sent(a[1])
  BY AttemptParts DEF Sent
<1>2. Cardinality(Sent(a[1])) # 0 /\ Cardinality(Sent(a[1])) \in Nat
  BY <1>1, SentFinite, FS_EmptySet
<1>3. done[a[1]] \in Nat /\ try[a[1]] \in Nat
  BY <1>1, CountTypes
<1>4. done[a[1]] + Cardinality(Sent(a[1])) <= try[a[1]] + 1
  BY <1>1 DEF DoneBound
<1> QED
  BY <1>2, <1>3, <1>4

LEMMA InitCourse == Init => Course
<1> SUFFICES ASSUME Init PROVE Course
  OBVIOUS
<1>1. Types
  BY InitTypes
<1>2. ASSUME NEW k \in Call PROVE CallCourse(k) /\ Cardinality(Sent(k)) = 0
  <2>1. Sent(k) = {}
    BY CallAssumption DEF Init, Sent, Attempt
  <2>2. Cardinality(Sent(k)) = 0
    BY <2>1, FS_EmptySet
  <2>3. CallCourse(k)
    BY CallAssumption DEF Init, CallCourse, Attempt
  <2> QED
    BY <2>2, <2>3
<1>3. DoneBound
  BY <1>2 DEF Init, DoneBound
<1>4. \A a \in Attempt : AttemptCourse(a)
  BY CallAssumption DEF Init, AttemptCourse
<1> QED
  BY <1>1, <1>2, <1>3, <1>4 DEF Course

-----------------------------------------------------------------------------
(* The bound on what is done.                                              *)

LEMMA NextDoneBound ==
    ASSUME Course, [Next]_vars
    PROVE  DoneBound'
<1> USE DEF Course, DoneBound, Types
<1>0. \A k \in Call : done[k] \in Nat /\ try[k] \in Nat /\ Cardinality(Sent(k)) \in Nat
  BY SentFinite, CallAssumption DEF ServerTypes, ClientTypes
<1>1. ASSUME NEW k \in Call, Issue(k) PROVE DoneBound'
  <2>1. \A j \in Call : j # k => Sent(j)' = Sent(j)
    BY <1>1 DEF Issue, Sent, ClientTypes, Attempt
  <2>2. Sent(k) = {} /\ Sent(k)' \subseteq Sent(k) \cup {0}
    BY <1>1, CallAssumption DEF Issue, Sent, ClientTypes, Attempt, CallCourse
  <2>3. Cardinality(Sent(k)') <= 1 /\ Cardinality(Sent(k)') \in Nat
    <3>1. Cardinality(Sent(k)) = 0
      BY <2>2, FS_EmptySet
    <3> QED
      BY <2>2, <3>1, SentGrows
  <2>4. done[k] = 0
    BY <1>1 DEF Issue, CallCourse
  <2> QED
    BY <1>0, <1>1, <2>1, <2>3, <2>4 DEF Issue, history
<1>2. ASSUME NEW k \in Call, WaitEffect(k) PROVE DoneBound'
  <2>0. Now(k) \in Attempt
    BY NowIsAttempt
  <2>1. CASE SendsAgain(k)
    <3>1. \A j \in Call : j # k => Sent(j)' = Sent(j)
      BY <2>1 DEF SendsAgain, Sent, ClientTypes, Attempt, Now
    <3>2. Sent(k)' \subseteq Sent(k) \cup {try[k] + 1}
      BY <2>0, <2>1 DEF SendsAgain, Leaves, Sent, ClientTypes, Attempt, Now
    <3>3. Cardinality(Sent(k)') \in Nat /\ Cardinality(Sent(k)') <= Cardinality(Sent(k)) + 1
      BY <3>2, SentGrows
    <3>4. try' = [try EXCEPT ![k] = @ + 1] /\ done' = done
      BY <1>2, <2>1 DEF SendsAgain, WaitEffect, ServerKept, history
    <3> QED
      BY <1>0, <3>1, <3>3, <3>4 DEF ClientTypes
  <2>2. CASE Returns(k)
    <3>1. \A j \in Call : Sent(j)' \subseteq Sent(j)
      BY <2>0, <2>2 DEF Returns, Leaves, Sent, ClientTypes, Attempt, Now
    <3>2. try' = try /\ done' = done
      BY <1>2, <2>2 DEF Returns, WaitEffect, ServerKept, history
    <3> QED
      BY <1>0, <3>1, <3>2, SentShrinks
  <2> QED
    BY <1>2, <2>1, <2>2 DEF WaitEffect
<1>3. ASSUME NEW a \in Attempt, ServeEffect(a) PROVE DoneBound'
  <2>0. a[1] \in Call /\ try' = try
    BY <1>3, AttemptParts DEF ServeEffect
  <2>1. PICK s : s # "sent" /\ stage' = [stage EXCEPT ![a] = s]
    BY <1>3 DEF ServeEffect, Refuses, Does, Finishes, Settles
  <2>2. \A j \in Call : Sent(j)' \subseteq Sent(j)
    BY <2>1 DEF Sent, ClientTypes, Attempt
  <2>3. \A j \in Call : /\ Cardinality(Sent(j)') \in Nat
                        /\ Cardinality(Sent(j)') <= Cardinality(Sent(j))
    BY <2>2, SentShrinks
  <2>4. CASE UNCHANGED done
    BY <1>0, <2>0, <2>3, <2>4
  <2>5. CASE Does(a)
    <3>1. Cardinality(Sent(a[1])') = Cardinality(Sent(a[1])) - 1
      BY <2>1, <2>5, SentServed DEF Does
    <3> QED
      BY <1>0, <2>0, <2>3, <2>5, <3>1 DEF Does, ServerTypes
  <2> QED
    BY <1>3, <2>4, <2>5 DEF ServeEffect, Refuses, Finishes
<1>4. ASSUME NEW p \in Process, Restart(p) PROVE DoneBound'
  <2>1. \A j \in Call : Sent(j)' \subseteq Sent(j)
    BY <1>4 DEF Restart, Sent, Attempt
  <2> QED
    BY <1>0, <1>4, <2>1, SentShrinks DEF Restart, clientVars
<1>5. ASSUME UNCHANGED <<stage, done, try>> PROVE DoneBound'
  BY <1>5 DEF Sent
<1> QED
  <2>1. CASE \E k \in Call : Wait(k)
    BY <1>2, <2>1, WaitHasEffect
  <2>2. CASE \E a \in Attempt : Serve(a)
    BY <1>3, <1>5, <2>2, ServeHasEffect DEF Apply, history, clientVars
  <2>3. CASE UNCHANGED vars
    BY <1>5, <2>3 DEF vars, clientVars, attemptVars, history
  <2> QED
    BY <1>1, <1>4, <2>1, <2>2, <2>3 DEF Next, Rest

-----------------------------------------------------------------------------
(* The course of the calls and of their attempts.                          *)

LEMMA PhaseType ==
    ASSUME Types, NEW k \in Call
    PROVE  phase[k] \in {"idle", "open"} \cup Outcome /\ Now(k) \in Attempt
BY NowIsAttempt DEF Types, ClientTypes

(* Of a call that is not made yet, no attempt is on its way.               *)
LEMMA IdleHasNone ==
    ASSUME Course, NEW a \in Attempt, stage[a] # "none"
    PROVE  phase[a[1]] # "idle" /\ a[2] <= try[a[1]]
<1>1. a[1] \in Call /\ a[2] \in 0 .. MaxRetries /\ a = <<a[1], a[2]>>
  BY AttemptParts
<1>2. try[a[1]] \in Nat /\ a[2] \in Nat
  BY <1>1, CountTypes DEF Course
<1>3. CallCourse(a[1])
  BY <1>1 DEF Course
<1>4. a[2] <= try[a[1]]
  BY <1>1, <1>2, <1>3 DEF CallCourse
<1>5. phase[a[1]] # "idle"
  <2> SUFFICES ASSUME phase[a[1]] = "idle" PROVE FALSE
    OBVIOUS
  <2>1. try[a[1]] = 0 /\ stage[<<a[1], 0>>] = "none"
    BY <1>3 DEF CallCourse
  <2>2. a[2] = 0
    BY <1>2, <1>4, <2>1
  <2> QED
    BY <1>1, <2>1, <2>2
<1> QED
  BY <1>4, <1>5

(* Who has an answer has had it from the last attempt.                     *)
LEMMA AnsweredByLast ==
    ASSUME Course, NEW a \in Attempt, stage[a] # "none", stage[a] # "over",
           phase[a[1]] \in {"ok", "refused"}
    PROVE  try[a[1]] > 0
<1>1. a[1] \in Call /\ a[2] \in 0 .. MaxRetries /\ a = <<a[1], a[2]>>
  BY AttemptParts
<1>2. CallCourse(a[1]) /\ try[a[1]] \in Nat
  BY <1>1, CountTypes DEF Course
<1>3. a # Now(a[1])
  BY <1>2 DEF CallCourse
<1>4. a[2] <= try[a[1]] /\ a[2] # try[a[1]]
  BY <1>1, <1>3, IdleHasNone DEF Now
<1> QED
  BY <1>1, <1>2, <1>4

LEMMA IssueCourse ==
    ASSUME Course, NEW i \in Call, Issue(i)
    PROVE  (\A k \in Call : CallCourse(k)') /\ (\A a \in Attempt : AttemptCourse(a)')
<1> USE DEF Course
<1>0. /\ phase' = [phase EXCEPT ![i] = "open"] /\ phase[i] = "idle"
      /\ stage' = [stage EXCEPT ![<<i, 0>>] = "sent"]
      /\ UNCHANGED <<req, try, proc, reply, done>>
  BY DEF Issue, history
<1>1. \A k \in Call : Mine(k)' = Mine(k) /\ Mine(k) \subseteq Call /\ Now(k)' = Now(k)
  BY <1>0 DEF Mine, Now
<1>2. \A k \in Call : phase'[k] = IF k = i THEN "open" ELSE phase[k]
  BY <1>0 DEF Types, ClientTypes
<1>3. <<i, 0>> \in Attempt
  BY CallAssumption DEF Attempt
<1>4. \A a \in Attempt : stage'[a] = IF a = <<i, 0>> THEN "sent" ELSE stage[a]
  BY <1>0, <1>3 DEF Types, ClientTypes
<1>5. try[i] = 0 /\ stage[<<i, 0>>] = "none"
  BY <1>0 DEF CallCourse
<1>6. ASSUME NEW k \in Call PROVE CallCourse(k)'
  <2>1. CallCourse(k)
    OBVIOUS
  <2>2. \A n \in 0 .. MaxRetries : n > try'[k] => stage'[<<k, n>>] = "none"
    BY <1>0, <1>4, <1>5, <2>1 DEF CallCourse, Attempt
  <2>3. phase'[k] # "idle" => \A j \in Mine(k)' : j < k => phase'[j] \in Outcome
    <3>1. CASE k = i
      BY <1>0, <1>1, <1>2, <3>1, CallAssumption DEF Issue
    <3>2. CASE k # i
      BY <1>0, <1>1, <1>2, <2>1, <3>2 DEF CallCourse, Outcome, Doubt
    <3> QED
      BY <3>1, <3>2
  <2>4. phase'[k] \in {"ok", "refused"} => stage'[Now(k)'] = "over"
    BY <1>1, <1>2, <1>4, <1>5, <2>1, NowIsAttempt DEF CallCourse, Types
  <2>5. phase'[k] = "idle" => k # i /\ phase[k] = "idle"
    BY <1>2
  <2>6. phase'[k] = "idle" => stage'[<<k, 0>>] = "none"
    BY <1>4, <2>1, <2>5, CallAssumption DEF CallCourse, Attempt
  <2>7. CanRetry(k)' <=> CanRetry(k)
    BY <1>0 DEF CanRetry
  <2> QED
    BY <1>0, <1>2, <2>1, <2>2, <2>3, <2>4, <2>5, <2>6, <2>7 DEF CallCourse
<1>7. ASSUME NEW a \in Attempt PROVE AttemptCourse(a)'
  <2>1. AttemptCourse(a) /\ a[1] \in Call
    BY AttemptParts
  <2>2. Awaited(a) => Awaited(a)'
    BY <1>0, <1>1, <1>2, <2>1 DEF Awaited
  <2>3. CASE a = <<i, 0>>
    <3>1. Awaited(a)'
      BY <1>0, <1>2, <1>5, <2>3 DEF Awaited, Now
    <3> QED
      BY <1>0, <1>4, <1>5, <2>1, <2>3, <3>1 DEF AttemptCourse
  <2>4. CASE a # <<i, 0>>
    BY <1>0, <1>4, <2>1, <2>2, <2>4 DEF AttemptCourse, RequestOf
  <2> QED
    BY <2>3, <2>4
<1> QED
  BY <1>6, <1>7

LEMMA WaitCourse ==
    ASSUME Course, NEW i \in Call, WaitEffect(i)
    PROVE  (\A k \in Call : CallCourse(k)') /\ (\A a \in Attempt : AttemptCourse(a)')
<1> USE DEF Course
<1>0. /\ UNCHANGED <<req, proc, done>> /\ phase[i] = "open"
      /\ reply' \in {reply, [reply EXCEPT ![Now(i)] = "ok"]}
  BY DEF WaitEffect, ServerKept, history
<1>1. \A k \in Call : Mine(k)' = Mine(k) /\ Mine(k) \subseteq Call
                      /\ (CanRetry(k)' <=> CanRetry(k))
  BY <1>0 DEF Mine, CanRetry
<1>2. /\ Now(i) \in Attempt /\ Now(i)[1] = i /\ Now(i) = <<i, try[i]>>
      /\ try[i] \in Nat /\ try[i] <= MaxRetries
  BY NowIsAttempt, CountTypes DEF Types, Now
<1>3. CallCourse(i) /\ AttemptCourse(Now(i))
  BY <1>2
<1>4. \A a \in Attempt : a # Now(i) => reply'[a] = reply[a]
  BY <1>0 DEF Types, ClientTypes
<1>5. CASE SendsAgain(i)
  <2>1. PICK s : /\ Leaves(i, s)
                 /\ stage' = [stage EXCEPT ![Now(i)] = s, ![<<i, try[i] + 1>>] = "sent"]
    BY <1>5 DEF SendsAgain
  <2>2. /\ UNCHANGED phase /\ CanRetry(i) /\ try[i] + 1 \in 0 .. MaxRetries
        /\ try' = [try EXCEPT ![i] = @ + 1]
    BY <1>2, <1>5, CallAssumption DEF SendsAgain
  <2>3. <<i, try[i] + 1>> \in Attempt /\ <<i, try[i] + 1>> # Now(i)
        /\ stage[<<i, try[i] + 1>>] = "none"
    BY <1>2, <1>3, <2>2 DEF Attempt, CallCourse
  <2>4. \A a \in Attempt : stage'[a] = IF a = <<i, try[i] + 1>> THEN "sent"
                                       ELSE IF a = Now(i) THEN s ELSE stage[a]
    BY <1>2, <2>1, <2>3 DEF Types, ClientTypes
  <2>5. \A k \in Call : try'[k] = IF k = i THEN try[i] + 1 ELSE try[k]
    BY <2>2 DEF Types, ClientTypes
  <2>6. \A k \in Call : k # i => Now(k)' = Now(k)
    BY <2>5 DEF Now
  <2>7. Now(i)' = <<i, try[i] + 1>>
    BY <2>5 DEF Now
  <2>8. ASSUME NEW k \in Call PROVE CallCourse(k)'
    <3>1. CASE k = i
      <4>1. \A n \in 0 .. MaxRetries : n > try'[i] => stage'[<<i, n>>] = "none"
        BY <1>2, <1>3, <2>4, <2>5 DEF CallCourse, Attempt
      <4> QED
        BY <1>0, <1>1, <1>3, <2>2, <3>1, <4>1 DEF CallCourse, Outcome, Doubt
    <3>2. CASE k # i
      <4>1. \A n \in 0 .. MaxRetries : stage'[<<k, n>>] = stage[<<k, n>>]
        BY <1>2, <2>4, <3>2 DEF Attempt
      <4>2. Now(k)' = Now(k) /\ stage'[Now(k)] = stage[Now(k)]
        BY <1>2, <2>4, <2>6, <3>2, PhaseType DEF Now
      <4>3. stage'[<<k, 0>>] = stage[<<k, 0>>]
        BY <4>1, CallAssumption
      <4> QED
        BY <1>0, <1>1, <2>2, <2>5, <3>2, <4>1, <4>2, <4>3 DEF CallCourse
    <3> QED
      BY <3>1, <3>2
  <2>9. ASSUME NEW a \in Attempt PROVE AttemptCourse(a)'
    <3>1. AttemptCourse(a) /\ a[1] \in Call
      BY AttemptParts
    <3>2. CASE a = <<i, try[i] + 1>>
      <4>1. Awaited(a)' /\ stage'[a] = "sent" /\ a[1] = i
        BY <1>0, <2>2, <2>4, <2>7, <3>2 DEF Awaited
      <4>2. proc[a] \notin Process
        BY <2>3, <3>1, <3>2 DEF AttemptCourse
      <4> QED
        BY <1>0, <4>1, <4>2 DEF AttemptCourse
    <3>3. CASE a = Now(i)
      <4>1. stage'[a] = s /\ s # "replied" /\ a[1] = i
        BY <1>2, <2>1, <2>3, <2>4, <3>3 DEF Leaves
      <4>2. s = "sent" => req[i].op # "read"
        BY <2>1 DEF Leaves
      <4>3. s = "stored" => stage[a] = "stored"
        BY <2>1, <3>3 DEF Leaves
      <4>4. stage[a] = "stored" => s = "stored"
        BY <2>1, <3>1, <3>3, <4>1 DEF Leaves, AttemptCourse, RequestOf
      <4> QED
        BY <1>0, <3>1, <4>1, <4>2, <4>3, <4>4 DEF AttemptCourse, RequestOf
    <3>4. CASE a # Now(i) /\ a # <<i, try[i] + 1>>
      <4>1. stage'[a] = stage[a] /\ reply'[a] = reply[a]
        BY <1>4, <2>4, <3>4
      <4>2. Awaited(a) => Awaited(a)' /\ a[1] # i
        BY <2>2, <2>6, <3>1, <3>4 DEF Awaited
      <4> QED
        BY <1>0, <2>5, <3>1, <4>1, <4>2 DEF AttemptCourse, RequestOf
    <3> QED
      BY <3>2, <3>3, <3>4
  <2> QED
    BY <2>8, <2>9
<1>6. CASE Returns(i)
  <2>1. PICK o \in Outcome, s \in StageType :
            /\ Leaves(i, s)
            /\ o # "unknown" => /\ stage[Now(i)] = "replied"
                                /\ o = reply[Now(i)] /\ s = "over"
            /\ phase' = [phase EXCEPT ![i] = o]
            /\ stage' = [stage EXCEPT ![Now(i)] = s]
    BY <1>6 DEF Returns
  <2>2. try' = try /\ \A k \in Call : Now(k)' = Now(k)
    BY <1>6 DEF Returns, Now
  <2>3. \A k \in Call : phase'[k] = IF k = i THEN o ELSE phase[k]
    BY <2>1 DEF Types, ClientTypes
  <2>4. \A a \in Attempt : stage'[a] = IF a = Now(i) THEN s ELSE stage[a]
    BY <1>2, <2>1 DEF Types, ClientTypes
  <2>5. o # "idle" /\ o # "open" /\ phase[i] \notin Outcome
    BY <1>0 DEF Outcome, Doubt
  <2>6. ASSUME NEW k \in Call PROVE CallCourse(k)'
    <3>1. phase'[k] # "idle" => \A j \in Mine(k)' : j < k => phase'[j] \in Outcome
      BY <1>0, <1>1, <2>3, <2>5 DEF CallCourse
    <3>2. CASE k = i
      <4>1. \A n \in 0 .. MaxRetries : n > try[i] => stage'[<<i, n>>] = "none"
        BY <1>2, <1>3, <2>4 DEF CallCourse, Attempt
      <4>2. o \in {"ok", "refused"} => stage'[Now(i)] = "over"
        BY <1>2, <2>1, <2>4
      <4>3. o = "refused" /\ try[i] = 0 => done[i] = 0
        BY <1>2, <1>3, <2>1 DEF AttemptCourse
      <4> QED
        BY <1>0, <1>1, <1>3, <2>2, <2>3, <2>5, <3>1, <3>2, <4>1, <4>2, <4>3 DEF CallCourse
    <3>3. CASE k # i
      <4>1. \A n \in 0 .. MaxRetries : stage'[<<k, n>>] = stage[<<k, n>>]
        BY <1>2, <2>4, <3>3 DEF Attempt
      <4>2. stage'[Now(k)] = stage[Now(k)]
        BY <1>2, <2>4, <3>3, PhaseType DEF Now
      <4>3. stage'[<<k, 0>>] = stage[<<k, 0>>]
        BY <4>1, CallAssumption
      <4> QED
        BY <1>0, <1>1, <2>2, <2>3, <3>1, <3>3, <4>1, <4>2, <4>3 DEF CallCourse
    <3> QED
      BY <3>2, <3>3
  <2>7. ASSUME NEW a \in Attempt PROVE AttemptCourse(a)'
    <3>1. AttemptCourse(a) /\ a[1] \in Call
      BY AttemptParts
    <3>2. CASE a = Now(i)
      <4>1. stage'[a] = s /\ s # "replied" /\ a[1] = i
        BY <1>2, <2>1, <2>4, <3>2 DEF Leaves
      <4>2. s = "sent" => req[i].op # "read"
        BY <2>1 DEF Leaves
      <4>3. s = "stored" => stage[a] = "stored"
        BY <2>1, <3>2 DEF Leaves
      <4>4. stage[a] = "stored" => s = "stored"
        BY <2>1, <3>1, <3>2, <4>1 DEF Leaves, AttemptCourse, RequestOf
      <4> QED
        BY <1>0, <3>1, <4>1, <4>2, <4>3, <4>4 DEF AttemptCourse, RequestOf
    <3>3. CASE a # Now(i)
      <4>1. stage'[a] = stage[a] /\ reply'[a] = reply[a]
        BY <1>4, <2>4, <3>3
      <4>2. Awaited(a) => Awaited(a)'
        BY <2>2, <2>3, <3>1, <3>3 DEF Awaited
      <4> QED
        BY <1>0, <2>2, <3>1, <4>1, <4>2 DEF AttemptCourse, RequestOf
    <3> QED
      BY <3>2, <3>3
  <2> QED
    BY <2>6, <2>7
<1> QED
  BY <1>5, <1>6 DEF WaitEffect

LEMMA ServedCourse ==
    ASSUME Course, NEW a \in Attempt, ServeEffect(a)
    PROVE  (\A k \in Call : CallCourse(k)') /\ (\A o \in Attempt : AttemptCourse(o)')
<1> USE DEF Course
<1>0. UNCHANGED <<req, phase, try>> /\ stage[a] \in {"sent", "stored"}
  BY DEF ServeEffect, Refuses, Does, Finishes
<1>1. \A k \in Call : /\ Mine(k)' = Mine(k) /\ Now(k)' = Now(k)
                      /\ (CanRetry(k)' <=> CanRetry(k))
  BY <1>0 DEF Mine, CanRetry, Now
<1>2. a[1] \in Call /\ a[2] \in 0 .. MaxRetries /\ a = <<a[1], a[2]>>
  BY AttemptParts
<1>3. phase[a[1]] # "idle" /\ a[2] <= try[a[1]]
  BY <1>0, IdleHasNone
<1>4. phase[a[1]] \in {"ok", "refused"} => try[a[1]] > 0
  BY <1>0, AnsweredByLast
<1>5. \A o \in Attempt : o # a => /\ stage'[o] = stage[o] /\ reply'[o] = reply[o]
                                  /\ proc'[o] = proc[o]
  BY DEF ServeEffect, Refuses, Does, Finishes, Settles, Types, ClientTypes, ServerTypes
<1>6. \A k \in Call : done'[k] \in {done[k], done[k] + 1} /\ (k # a[1] => done'[k] = done[k])
  BY <1>2 DEF ServeEffect, Refuses, Does, Finishes, Types, ServerTypes
<1>7. \A k \in Call : done[k] \in Nat /\ try[k] \in Nat
  BY CountTypes
<1>8. ASSUME NEW k \in Call PROVE CallCourse(k)'
  <2>1. CallCourse(k)
    OBVIOUS
  <2>2. phase'[k] = "idle" => k # a[1]
    BY <1>0, <1>3
  <2>3. \A n \in 0 .. MaxRetries : stage[<<k, n>>] = "none" => stage'[<<k, n>>] = "none"
    BY <1>0, <1>5 DEF Attempt
  <2>4. stage[<<k, 0>>] = "none" => stage'[<<k, 0>>] = "none"
    BY <2>3, CallAssumption
  <2>5. stage[Now(k)] = "over" => stage'[Now(k)] = "over"
    BY <1>0, <1>5, PhaseType
  <2>6. phase[k] = "refused" /\ try[k] = 0 => k # a[1]
    BY <1>4
  <2> QED
    BY <1>0, <1>1, <1>6, <2>1, <2>2, <2>3, <2>4, <2>5, <2>6 DEF CallCourse
<1>9. ASSUME NEW o \in Attempt PROVE AttemptCourse(o)'
  <2>0. /\ AttemptCourse(o) /\ o[1] \in Call /\ (Awaited(o)' <=> Awaited(o))
        /\ RequestOf(o)' = RequestOf(o)
    BY <1>0, <1>1, AttemptParts DEF Awaited, RequestOf
  <2>1. CASE o # a
    <3>1. done[o[1]] > 0 => done'[o[1]] > 0
      BY <1>6, <1>7, <2>0
    <3>2. stage[o] = "replied" /\ try[o[1]] = 0 => o[1] # a[1]
      <4> SUFFICES ASSUME stage[o] = "replied", try[o[1]] = 0, o[1] = a[1] PROVE FALSE
        OBVIOUS
      <4>1. o = <<o[1], o[2]>> /\ o[2] \in 0 .. MaxRetries /\ o[2] <= try[o[1]]
        BY IdleHasNone, AttemptParts
      <4>2. o[2] = 0 /\ a[2] = 0
        BY <1>2, <1>3, <4>1, CallAssumption
      <4> QED
        BY <1>2, <2>1, <4>1, <4>2
    <3> QED
      BY <1>0, <1>5, <1>6, <2>0, <2>1, <3>1, <3>2 DEF AttemptCourse
  <2>2. CASE o = a /\ Refuses(a)
    <3>1. PICK s, r : /\ Settles(a, s, r) /\ r # "serverError"
                      /\ s = "replied" => r = "refused"
      BY <2>2 DEF Refuses
    <3>2. stage'[a] = s /\ reply'[a] = r /\ proc'[a] \notin Process
      BY <3>1, CallAssumption DEF Settles, Types, ClientTypes, ServerTypes
    <3>3. try[a[1]] = 0 => done[a[1]] = 0
      BY <1>2, <1>7, <2>2, SentNotDone DEF Refuses
    <3> QED
      BY <1>0, <2>0, <2>2, <3>1, <3>2, <3>3 DEF AttemptCourse, Refuses, Settles
  <2>3. CASE o = a /\ (Does(a) \/ Finishes(a))
    <3>1. done'[a[1]] > 0
      BY <1>2, <1>7, <2>0, <2>3 DEF Does, Finishes, AttemptCourse, Types, ServerTypes
    <3>2. CASE \E s, r : Settles(a, s, r) /\ r # "refused"
      <4>1. PICK s, r : Settles(a, s, r) /\ r # "refused"
        BY <3>2
      <4>2. stage'[a] = s /\ reply'[a] = r /\ proc'[a] \notin Process
        BY <4>1, CallAssumption DEF Settles, Types, ClientTypes, ServerTypes
      <4> QED
        BY <2>0, <2>3, <3>1, <4>1, <4>2 DEF AttemptCourse, Settles
    <3>3. CASE stage' = [stage EXCEPT ![a] = "stored"]
               /\ RequestOf(a).op \in {"build", "withdraw"}
      <4>1. stage'[a] = "stored"
        BY <3>3 DEF Types, ClientTypes
      <4> QED
        BY <2>0, <2>3, <3>1, <3>3, <4>1 DEF AttemptCourse
    <3> QED
      BY <2>3, <3>2, <3>3 DEF Does, Finishes
  <2> QED
    BY <2>1, <2>2, <2>3 DEF ServeEffect
<1> QED
  BY <1>8, <1>9

LEMMA RestartCourse ==
    ASSUME Course, NEW p \in Process, Restart(p)
    PROVE  (\A k \in Call : CallCourse(k)') /\ (\A a \in Attempt : AttemptCourse(a)')
<1> USE DEF Course
<1>0. UNCHANGED <<req, phase, try, reply, done>>
  BY DEF Restart, clientVars
<1>1. \A k \in Call : /\ Mine(k)' = Mine(k) /\ Now(k)' = Now(k) /\ Now(k) \in Attempt
                      /\ (CanRetry(k)' <=> CanRetry(k)) /\ <<k, 0>> \in Attempt
  BY <1>0, PhaseType, CallAssumption DEF Mine, CanRetry, Now, Attempt
<1>2. \A a \in Attempt : \/ stage'[a] = stage[a] /\ proc'[a] = proc[a]
                         \/ /\ stage[a] = "stored" /\ stage'[a] = "over"
                            /\ proc'[a] = NoProcess
  BY DEF Restart, AttemptCourse
<1>3. ASSUME NEW k \in Call PROVE CallCourse(k)'
  <2>1. \A n \in 0 .. MaxRetries : stage[<<k, n>>] = "none" => stage'[<<k, n>>] = "none"
    BY <1>2 DEF Attempt
  <2> QED
    BY <1>0, <1>1, <1>2, <2>1 DEF CallCourse
<1>4. ASSUME NEW a \in Attempt PROVE AttemptCourse(a)'
  <2>1. (Awaited(a)' <=> Awaited(a)) /\ RequestOf(a)' = RequestOf(a)
    BY <1>0, <1>1, AttemptParts DEF Awaited, RequestOf
  <2> QED
    BY <1>0, <1>2, <2>1, CallAssumption DEF AttemptCourse
<1> QED
  BY <1>3, <1>4

LEMMA KeptCourse ==
    ASSUME Course, UNCHANGED <<req, phase, try, stage, proc, reply, done>>
    PROVE  (\A k \in Call : CallCourse(k)') /\ (\A a \in Attempt : AttemptCourse(a)')
<1>1. \A k \in Call : Mine(k)' = Mine(k) /\ Now(k)' = Now(k) /\ (CanRetry(k)' <=> CanRetry(k))
  BY DEF Mine, CanRetry, Now
<1>2. \A k \in Call : CallCourse(k)'
  BY <1>1 DEF Course, CallCourse
<1>3. \A a \in Attempt : (Awaited(a)' <=> Awaited(a)) /\ RequestOf(a)' = RequestOf(a)
  BY <1>1, AttemptParts DEF Awaited, RequestOf
<1>4. \A a \in Attempt : AttemptCourse(a)'
  BY <1>3 DEF Course, AttemptCourse
<1> QED
  BY <1>2, <1>4

(* The steps by what they do to the calls.                                 *)
LEMMA StepKinds ==
    ASSUME Types, [Next]_vars
    PROVE  \/ \E k \in Call : Issue(k)
           \/ \E k \in Call : WaitEffect(k)
           \/ \E a \in Attempt : Serve(a) /\ ServeEffect(a)
           \/ \E a \in Attempt : Apply(a)
           \/ \E p \in Process : Restart(p)
           \/ UNCHANGED vars
BY WaitHasEffect, ServeHasEffect DEF Next, Rest, Types

LEMMA NextCourse == Course /\ [Next]_vars => Course'
<1> SUFFICES ASSUME Course, [Next]_vars PROVE Course'
  OBVIOUS
<1>1. Types' /\ DoneBound'
  BY NextTypes, NextDoneBound DEF Course
<1>2. (\A k \in Call : CallCourse(k)') /\ (\A a \in Attempt : AttemptCourse(a)')
  <2>1. CASE \E a \in Attempt : Apply(a)
    BY <2>1, KeptCourse DEF Apply, clientVars, history
  <2>2. CASE UNCHANGED vars
    BY <2>2, KeptCourse DEF vars, clientVars, attemptVars, history
  <2> QED
    BY <2>1, <2>2, StepKinds, IssueCourse, WaitCourse, ServedCourse, RestartCourse DEF Course
<1> QED
  BY <1>1, <1>2 DEF Course

LEMMA CourseAlways == Spec => []Course
BY InitCourse, NextCourse, PTL DEF Spec

(* Every value stays in its type; above all, no call is done more often    *)
(* than the client may send it.                                            *)
THEOREM TypeCorrect == Spec => []TypeOK
<1>1. Course => TypeOK
  <2> SUFFICES ASSUME Course PROVE TypeOK
    OBVIOUS
  <2>1. ASSUME NEW k \in Call PROVE done[k] \in 0 .. MaxRetries + 1
    <3>1. /\ done[k] \in Nat /\ try[k] \in Nat /\ try[k] <= MaxRetries
          /\ Cardinality(Sent(k)) \in Nat
      BY CountTypes, SentFinite DEF Course
    <3>2. done[k] + Cardinality(Sent(k)) <= try[k] + 1
      BY DEF Course, DoneBound
    <3> QED
      BY <3>1, <3>2, CallAssumption
  <2>2. done \in [Call -> 0 .. MaxRetries + 1]
    BY <2>1 DEF Course, Types, ServerTypes
  <2> QED
    BY <2>2 DEF Course, Types, ServerTypes, ClientTypes, StageType, ReplyType, TypeOK
<1> QED
  BY <1>1, CourseAlways, PTL

-----------------------------------------------------------------------------
(* Every step is a step of CallPromise, or none.                           *)

Allowed == [k \in Call |-> IF phase[k] = "idle" THEN 0
                           ELSE IF Method[req[k].op] # "GET" /\ ~req[k].reqId
                           THEN 1 ELSE MaxRetries + 1]

LEMMA AllowedBounds ==
    ASSUME Course, NEW k \in Call, phase[k] # "idle"
    PROVE  /\ Allowed[k] \in 1 .. MaxRetries + 1
           /\ try[k] < Allowed[k]
           /\ try[k] > 0 => Allowed[k] > 1
<1>1. try[k] \in Nat /\ try[k] <= MaxRetries
  BY CountTypes DEF Course
<1>2. try[k] > 0 => ~(Method[req[k].op] # "GET" /\ ~req[k].reqId)
  BY DEF Course, CallCourse, CanRetry
<1>3. Allowed[k] \in {1, MaxRetries + 1} /\ (try[k] > 0 => Allowed[k] = MaxRetries + 1)
  BY <1>2 DEF Allowed
<1> QED
  BY <1>1, <1>3, CallAssumption

LEMMA AllowedKept ==
    ASSUME UNCHANGED req, \A k \in Call : phase'[k] = "idle" <=> phase[k] = "idle"
    PROVE  Allowed' = Allowed
BY DEF Allowed

LEMMA StepKeepsPromise ==
    ASSUME Course, [Next]_vars
    PROVE  [Promise!Next]_(Promise!vars)
<1> USE DEF Course, Types
<1> SUFFICES Promise!Next \/ UNCHANGED <<phase, done, Allowed>>
  BY DEF Promise!vars, Allowed
<1>1. ASSUME NEW k \in Call, Issue(k) PROVE Promise!Issue(k)
  <2>1. /\ phase' = [phase EXCEPT ![k] = "open"] /\ phase[k] = "idle"
        /\ UNCHANGED <<req, done>>
    BY <1>1 DEF Issue, history
  <2> DEFINE n == IF Method[req[k].op] # "GET" /\ ~req[k].reqId THEN 1 ELSE MaxRetries + 1
  <2>2. n \in 1 .. MaxRetries + 1
    BY CallAssumption
  <2>3. Allowed' = [Allowed EXCEPT ![k] = n]
    BY <2>1 DEF Allowed, ClientTypes
  <2> QED
    BY <2>1, <2>2, <2>3 DEF Promise!Issue, Allowed
<1>2. ASSUME NEW k \in Call, WaitEffect(k)
      PROVE  Promise!Return(k) \/ UNCHANGED <<phase, done, Allowed>>
  <2>1. UNCHANGED <<req, done>> /\ phase[k] = "open"
    BY <1>2 DEF WaitEffect, ServerKept, history
  <2>2. CASE SendsAgain(k)
    <3>1. UNCHANGED phase
      BY <2>2 DEF SendsAgain
    <3> QED
      BY <2>1, <3>1, AllowedKept
  <2>3. CASE Returns(k)
    <3>1. PICK o \in Outcome :
              /\ o # "unknown" => stage[Now(k)] = "replied" /\ o = reply[Now(k)]
              /\ phase' = [phase EXCEPT ![k] = o]
      BY <2>3 DEF Returns
    <3>2. Allowed' = Allowed
      BY <2>1, <3>1, AllowedKept DEF ClientTypes, Outcome, Doubt
    <3>3. Now(k) \in Attempt /\ Now(k)[1] = k /\ AttemptCourse(Now(k))
      BY NowIsAttempt DEF Now
    <3>4. o = "ok" => done[k] > 0
      BY <3>1, <3>3 DEF AttemptCourse
    <3>5. o = "refused" => done[k] = 0 \/ Allowed[k] > 1
      <4>1. o = "refused" /\ try[k] = 0 => done[k] = 0
        BY <3>1, <3>3 DEF AttemptCourse
      <4>2. try[k] = 0 \/ try[k] > 0
        BY CountTypes
      <4> QED
        BY <2>1, <4>1, <4>2, AllowedBounds
    <3> QED
      BY <2>1, <3>1, <3>2, <3>4, <3>5 DEF Promise!Return, Allowed
  <2> QED
    BY <1>2, <2>2, <2>3 DEF WaitEffect
<1>3. ASSUME NEW a \in Attempt, ServeEffect(a)
      PROVE  Promise!Do(a[1]) \/ UNCHANGED <<phase, done, Allowed>>
  <2>1. UNCHANGED <<req, phase>> /\ Allowed' = Allowed
    BY <1>3, AllowedKept DEF ServeEffect
  <2>2. CASE Does(a)
    <3>1. a[1] \in Call /\ stage[a] = "sent" /\ phase[a[1]] # "idle"
      BY <2>2, IdleHasNone, AttemptParts DEF Does
    <3>2. done[a[1]] < Allowed[a[1]]
      <4>1. done[a[1]] <= try[a[1]] /\ try[a[1]] < Allowed[a[1]]
        BY <3>1, SentNotDone, AllowedBounds
      <4>2. /\ done[a[1]] \in Nat /\ try[a[1]] \in Nat
            /\ Allowed[a[1]] \in 1 .. MaxRetries + 1
        BY <3>1, CountTypes, AllowedBounds
      <4> QED
        BY <4>1, <4>2, CallAssumption
    <3>3. phase[a[1]] \in {"ok", "refused"} => Allowed[a[1]] > 1
      BY <3>1, AnsweredByLast, AllowedBounds
    <3> QED
      BY <2>1, <2>2, <3>1, <3>2, <3>3 DEF Does, Promise!Do, Allowed
  <2> QED
    BY <1>3, <2>1, <2>2 DEF ServeEffect, Refuses, Finishes
<1>4. CASE \E k \in Call : Issue(k)
  BY <1>1, <1>4 DEF Promise!Next
<1>5. CASE \E k \in Call : WaitEffect(k)
  BY <1>2, <1>5 DEF Promise!Next
<1>6. CASE \E a \in Attempt : Serve(a) /\ ServeEffect(a)
  <2>1. PICK a \in Attempt : ServeEffect(a)
    BY <1>6
  <2>2. a[1] \in Call
    BY AttemptParts
  <2> QED
    BY <1>3, <2>1, <2>2 DEF Promise!Next
<1>7. CASE UNCHANGED <<req, phase, done>>
  BY <1>7, AllowedKept
<1> QED
  BY <1>4, <1>5, <1>6, <1>7, StepKinds DEF Apply, Restart, clientVars, history, vars

(* The safety part of KeepsPromise: "ok" says that the call was done, a    *)
(* refusal that it was not, and nothing is done twice, or after an answer, *)
(* but by a retry.  (That every call returns needs the fairness of the     *)
(* client's timeouts.)                                                     *)
THEOREM CallsKeepPromise == Spec => Promise!Init /\ [][Promise!Next]_(Promise!vars)
<1>1. Init => Promise!Init
  BY DEF Init, Promise!Init
<1>2. Course /\ [Next]_vars => [Promise!Next]_(Promise!vars)
  BY StepKeepsPromise
<1> QED
  BY <1>1, <1>2, CourseAlways, PTL DEF Spec

-----------------------------------------------------------------------------
(* The writes a store keeps.                                               *)

IsWrite(j) == req[j].op \in {"build", "withdraw"}

(* What a store has of a document was written there by that call.          *)
LastWasWritten ==
    \A b \in Backend, d \in Doc :
        last[b][d] # NoCall => /\ b \in wrote[last[b][d]] /\ IsWrite(last[b][d])
                               /\ req[last[b][d]].doc = d

WroteIsDone == \A j \in Call : wrote[j] # {} => done[j] > 0

(* A document that was written is there, if no graph was removed.          *)
WrittenStays ==
    \A j \in Call : \A b \in wrote[j] :
        IsWrite(j) => \/ last[b][req[j].doc] # NoCall
                      \/ \E i \in Call : req[i].op = "remove" /\ done[i] > 0

(* A call that was answered, and sent once, does not come back: what its   *)
(* client wrote to the document since is not overwritten.                  *)
LaterStays ==
    \A v, j \in Call : \A b \in wrote[j] :
        (/\ j \in Mine(v) /\ v < j /\ IsWrite(v) /\ IsWrite(j)
         /\ req[j].doc = req[v].doc /\ try[v] = 0 /\ phase[v] = "ok")
            => last[b][req[v].doc] # v

Writes == LastWasWritten /\ WroteIsDone /\ WrittenStays /\ LaterStays

LEMMA InitWrites == Init => Writes
BY DEF Init, Writes, LastWasWritten, WroteIsDone, WrittenStays, LaterStays

(* What writes nothing: the answer to a call, above all, comes before the  *)
(* client makes another.                                                   *)
LEMMA KeepWrites ==
    ASSUME Course, Writes, UNCHANGED <<last, wrote, done, req>>,
           \A k \in Call : try'[k] = 0 => try[k] = 0,
           \A k \in Call : phase'[k] = "ok" => phase[k] = "ok" \/ phase[k] = "open"
    PROVE  Writes'
<1>1. \A k \in Call : Mine(k)' = Mine(k)
  BY DEF Mine
<1>2. LastWasWritten' /\ WroteIsDone' /\ WrittenStays'
  BY DEF Writes, LastWasWritten, WroteIsDone, WrittenStays, IsWrite
<1>3. ASSUME NEW v \in Call, NEW j \in Call, NEW b \in wrote[j], j \in Mine(v), v < j
      PROVE  phase[v] # "open"
  <2>1. done[j] > 0 /\ done[j] \in Nat
    BY <1>3, CountTypes DEF Writes, WroteIsDone, Course
  <2>2. CallCourse(j) /\ phase[j] # "idle"
    <3>1. CallCourse(j) /\ done[j] # 0
      BY <2>1 DEF Course
    <3> QED
      BY <3>1 DEF CallCourse
  <2>3. v \in Mine(j)
    BY <1>3 DEF Mine
  <2>4. phase[v] \in Outcome
    BY <1>3, <2>2, <2>3 DEF CallCourse
  <2> QED
    BY <2>4 DEF Outcome, Doubt
<1>4. LaterStays'
  BY <1>1, <1>3 DEF Writes, LaterStays, IsWrite
<1> QED
  BY <1>2, <1>4 DEF Writes

(* A store call keeps what is there, or the graph is removed.              *)
LEMMA StoreWrites ==
    ASSUME Course, Writes, NEW a \in Attempt, NEW p \in Process, Store(p, a)
    PROVE  Writes'
<1> USE DEF Course, Types
<1> DEFINE k == a[1]
           d == req[k].doc
           b == backend[p]
<1>0. /\ k \in Call /\ d \in Doc /\ b \in Backend /\ k # NoCall
      /\ RequestOf(a) = req[k] /\ stage[a] = "sent" /\ IsWrite(k)
  BY AttemptParts, RequestParts, CallAssumption DEF Store, Takes, ServerTypes, IsWrite
<1>1. /\ last' = [last EXCEPT ![b][d] = k]
      /\ done' = [done EXCEPT ![k] = @ + 1]
      /\ wrote' = [wrote EXCEPT ![k] = @ \cup {b}]
      /\ UNCHANGED <<req, phase, try>>
  BY <1>0 DEF Store, Did, clientVars
<1>2. /\ \A c \in Backend, e \in Doc :
            last'[c][e] = IF c = b /\ e = d THEN k ELSE last[c][e]
      /\ \A j \in Call : wrote'[j] = IF j = k THEN wrote[k] \cup {b} ELSE wrote[j]
      /\ \A j \in Call : done[j] \in Nat /\ done'[j] = IF j = k THEN done[k] + 1 ELSE done[j]
  BY <1>0, <1>1 DEF ServerTypes
<1>3. /\ \A j \in Call : /\ req[j].doc \in Doc /\ Mine(j)' = Mine(j)
                         /\ wrote[j] \subseteq Backend /\ (IsWrite(j)' <=> IsWrite(j))
      /\ \A c \in Backend, e \in Doc : last[c][e] \in Call \cup {NoCall}
  BY <1>1, CallAssumption DEF ServerTypes, ClientTypes, Mine, IsWrite
<1>4. WroteIsDone'
  BY <1>2 DEF Writes, WroteIsDone
<1>5. LastWasWritten'
  <2> SUFFICES ASSUME NEW c \in Backend, NEW e \in Doc, last'[c][e] # NoCall
               PROVE  /\ c \in wrote'[last'[c][e]]
                      /\ req[last'[c][e]].op \in {"build", "withdraw"}
                      /\ req[last'[c][e]].doc = e
    BY <1>1 DEF LastWasWritten, IsWrite
  <2>1. CASE c = b /\ e = d
    BY <1>0, <1>2, <2>1 DEF IsWrite
  <2>2. CASE ~(c = b /\ e = d)
    <3>1. last'[c][e] = last[c][e] /\ last[c][e] \in Call
      BY <1>2, <1>3, <2>2
    <3> QED
      BY <1>2, <3>1 DEF Writes, LastWasWritten, IsWrite
  <2> QED
    BY <2>1, <2>2
<1>6. WrittenStays'
  <2> SUFFICES ASSUME NEW j \in Call, NEW c \in wrote'[j], IsWrite(j)'
               PROVE  \/ last'[c][req[j].doc] # NoCall
                      \/ \E i \in Call : req[i].op = "remove" /\ done'[i] > 0
    BY <1>1 DEF WrittenStays
  <2>1. c \in wrote[j] \/ (j = k /\ c = b)
    BY <1>2
  <2>2. CASE j = k /\ c = b
    BY <1>0, <1>2, <2>2
  <2>3. CASE c \in wrote[j]
    <3>1. \/ last[c][req[j].doc] # NoCall
          \/ \E i \in Call : req[i].op = "remove" /\ done[i] > 0
      BY <1>3, <2>3 DEF Writes, WrittenStays
    <3>2. last[c][req[j].doc] # NoCall => last'[c][req[j].doc] # NoCall
      BY <1>0, <1>2, <1>3, <2>3
    <3>3. \A i \in Call : done[i] > 0 => done'[i] > 0
      BY <1>2
    <3> QED
      BY <3>1, <3>2, <3>3
  <2> QED
    BY <2>1, <2>2, <2>3
<1>7. LaterStays'
  <2> SUFFICES ASSUME NEW v \in Call, NEW j \in Call, NEW c \in wrote'[j],
                      j \in Mine(v), v < j, IsWrite(v), IsWrite(j),
                      req[j].doc = req[v].doc, try[v] = 0, phase[v] = "ok"
               PROVE  last'[c][req[v].doc] # v
    BY <1>1, <1>3 DEF LaterStays
  <2>1. k # v
    BY <1>0, AnsweredByLast
  <2>2. c \in wrote[j] \/ (j = k /\ c = b)
    BY <1>2
  <2>3. CASE j = k /\ c = b
    BY <1>0, <1>2, <2>1, <2>3
  <2>4. CASE c \in wrote[j]
    <3>1. last[c][req[v].doc] # v
      BY <2>4 DEF Writes, LaterStays
    <3> QED
      BY <1>2, <1>3, <2>1, <2>4, <3>1
  <2> QED
    BY <2>2, <2>3, <2>4
<1> QED
  BY <1>4, <1>5, <1>6, <1>7 DEF Writes

(* A creation or a removal writes no document.                             *)
LEMMA GraphWrites ==
    ASSUME Course, Writes, NEW a \in Attempt, NEW p \in Process,
           Create(p, a) \/ Remove(p, a)
    PROVE  Writes'
<1> USE DEF Course, Types
<1> DEFINE k == a[1]
           b == backend[p]
<1>0. /\ k \in Call /\ b \in Backend /\ RequestOf(a) = req[k]
      /\ req[k].op \in {"create", "remove"}
  BY AttemptParts, RequestParts DEF Create, Remove, Takes, ServerTypes
<1>1. /\ done' = [done EXCEPT ![k] = @ + 1]
      /\ wrote' = [wrote EXCEPT ![k] = @ \cup {b}]
      /\ UNCHANGED <<req, phase, try>>
  BY DEF Create, Remove, Did, clientVars
<1>2. /\ \A j \in Call : wrote'[j] = IF j = k THEN wrote[k] \cup {b} ELSE wrote[j]
      /\ \A j \in Call : done[j] \in Nat /\ done'[j] = IF j = k THEN done[k] + 1 ELSE done[j]
  BY <1>0, <1>1 DEF ServerTypes
<1>3. /\ \A j \in Call : /\ req[j].doc \in Doc /\ Mine(j)' = Mine(j)
                         /\ wrote[j] \subseteq Backend /\ (IsWrite(j)' <=> IsWrite(j))
      /\ \A c \in Backend, e \in Doc : last[c][e] \in Call \cup {NoCall}
      /\ ~IsWrite(k)
  BY <1>0, <1>1, CallAssumption DEF ServerTypes, ClientTypes, Mine, IsWrite
<1>4. \A c \in Backend, e \in Doc : \/ last'[c][e] = last[c][e]
                                    \/ /\ last'[c][e] = NoCall /\ req[k].op = "remove"
  <2>1. CASE Create(p, a)
    BY <2>1 DEF Create
  <2>2. CASE Remove(p, a)
    BY <1>0, <2>2 DEF Remove, Takes, ServerTypes
  <2> QED
    BY <2>1, <2>2
<1>5. LastWasWritten' /\ WroteIsDone'
  <2>1. WroteIsDone'
    BY <1>2 DEF Writes, WroteIsDone
  <2>2. LastWasWritten'
    BY <1>1, <1>2, <1>3, <1>4 DEF Writes, LastWasWritten
  <2> QED
    BY <2>1, <2>2
<1>6. WrittenStays'
  <2> SUFFICES ASSUME NEW j \in Call, NEW c \in wrote'[j], IsWrite(j)
               PROVE  \/ last'[c][req[j].doc] # NoCall
                      \/ \E i \in Call : req[i].op = "remove" /\ done'[i] > 0
    BY <1>1, <1>3 DEF WrittenStays
  <2>1. j # k /\ c \in wrote[j] /\ c \in Backend /\ req[j].doc \in Doc
    BY <1>2, <1>3
  <2>2. \/ last[c][req[j].doc] # NoCall
        \/ \E i \in Call : req[i].op = "remove" /\ done[i] > 0
    BY <2>1 DEF Writes, WrittenStays
  <2>3. done'[k] > 0 /\ \A i \in Call : done[i] > 0 => done'[i] > 0
    BY <1>0, <1>2
  <2> QED
    BY <1>0, <1>4, <2>1, <2>2, <2>3
<1>7. LaterStays'
  <2> SUFFICES ASSUME NEW v \in Call, NEW j \in Call, NEW c \in wrote'[j],
                      j \in Mine(v), v < j, IsWrite(v), IsWrite(j),
                      req[j].doc = req[v].doc, try[v] = 0, phase[v] = "ok"
               PROVE  last'[c][req[v].doc] # v
    BY <1>1, <1>3 DEF LaterStays
  <2>1. c \in wrote[j] /\ c \in Backend
    BY <1>2, <1>3
  <2>2. last[c][req[v].doc] # v
    BY <2>1 DEF Writes, LaterStays
  <2> QED
    BY <1>3, <1>4, <2>1, <2>2, CallAssumption
<1> QED
  BY <1>5, <1>6, <1>7 DEF Writes

LEMMA NextWrites == Course /\ Writes /\ [Next]_vars => Writes'
<1> SUFFICES ASSUME Course, Writes, [Next]_vars PROVE Writes'
  OBVIOUS
<1>0. \A k \in Call : try[k] \in Nat
  BY CountTypes DEF Course
<1>1. ASSUME UNCHANGED <<last, wrote, done, req, phase, try>> PROVE Writes'
  BY <1>1, KeepWrites
<1>2. CASE \E k \in Call : Issue(k)
  <2>1. PICK k \in Call : Issue(k)
    BY <1>2
  <2>2. UNCHANGED <<last, wrote, done, req, try>>
    BY <2>1 DEF Issue, storeVars, history
  <2>3. \A i \in Call : phase'[i] = "ok" => phase[i] = "ok"
    BY <2>1 DEF Issue, Course, Types, ClientTypes
  <2> QED
    BY <2>2, <2>3, KeepWrites
<1>3. CASE \E k \in Call : WaitEffect(k)
  <2>1. PICK k \in Call : WaitEffect(k)
    BY <1>3
  <2>2. UNCHANGED <<last, wrote, done, req>> /\ phase[k] = "open"
    BY <2>1 DEF WaitEffect, ServerKept, storeVars, history
  <2>3. \A i \in Call : phase'[i] = "ok" => phase[i] = "ok" \/ phase[i] = "open"
    BY <2>1, <2>2 DEF WaitEffect, SendsAgain, Returns, Course, Types, ClientTypes
  <2>4. \A i \in Call : try'[i] = 0 => try[i] = 0
    BY <1>0, <2>1 DEF WaitEffect, SendsAgain, Returns, Course, Types, ClientTypes
  <2> QED
    BY <2>2, <2>3, <2>4, KeepWrites
<1>4. CASE \E a \in Attempt : Serve(a)
  <2>1. PICK a \in Attempt : Serve(a)
    BY <1>4
  <2>2. CASE \E p \in Process : Write(p, a) \/ WriteSome(p, a)
    BY <2>2, StoreWrites DEF Write, WriteSome
  <2>3. CASE \E p \in Process : Create(p, a) \/ Remove(p, a)
    BY <2>3, GraphWrites
  <2>4. CASE \E p \in Process : Read(p, a)
    <3>1. PICK p \in Process : Read(p, a)
      BY <2>4
    <3>2. UNCHANGED <<last, wrote, req, phase, try>> /\ done' = [done EXCEPT ![a[1]] = @ + 1]
      BY <3>1 DEF Read, storeVars
    <3>3. \A j \in Call : done[j] \in Nat /\ (done[j] > 0 => done'[j] > 0)
      BY <3>2, AttemptParts DEF Course, Types, ServerTypes
    <3>4. LastWasWritten' /\ WroteIsDone' /\ WrittenStays'
      BY <3>2, <3>3 DEF Writes, LastWasWritten, WroteIsDone, WrittenStays, IsWrite
    <3>5. LaterStays'
      BY <3>2 DEF Writes, LaterStays, IsWrite, Mine
    <3> QED
      BY <3>4, <3>5 DEF Writes
  <2>5. CASE (\E p \in Process : Refuse(p, a)) \/ Apply(a) \/ Posted(a) \/ PostFails(a)
    BY <1>1, <2>5 DEF Refuse, Apply, Posted, PostFails, storeVars, clientVars, history
  <2> QED
    BY <2>1, <2>2, <2>3, <2>4, <2>5 DEF Serve
<1>5. CASE \E p \in Process : Restart(p)
  BY <1>1, <1>5 DEF Restart, storeVars, clientVars
<1>6. CASE UNCHANGED vars
  BY <1>1, <1>6 DEF vars, storeVars, clientVars, history
<1> QED
  BY <1>2, <1>3, <1>4, <1>5, <1>6, WaitHasEffect DEF Next, Rest, Course, Types

(* What a read that somebody waits for finds.                              *)
LEMMA ReadIsExplained ==
    ASSUME Course, Writes, NEW a \in Attempt, NEW p \in Process, Read(p, a)
    PROVE  Explains(a[1], last[backend[p]][RequestOf(a).doc],
                    OwnWrites(a[1], backend[p]))
<1> USE DEF Course, Types
<1> DEFINE k == a[1]
           d == req[k].doc
           b == backend[p]
           v == last[b][d]
           own == OwnWrites(k, b)
<1>0. /\ k \in Call /\ d \in Doc /\ b \in Backend /\ RequestOf(a) = req[k]
      /\ v \in Call \cup {NoCall} /\ req[k].op = "read" /\ stage[a] = "sent"
  BY AttemptParts, RequestParts DEF Read, Takes, ServerTypes
<1>1. phase[k] = "open"
  BY <1>0 DEF AttemptCourse, Awaited
<1>2. \A j \in own : /\ j \in Mine(k) /\ j < k /\ b \in wrote[j] /\ IsWrite(j)
                     /\ req[j].doc = d /\ j \in Call
  BY DEF OwnWrites, Mine, IsWrite
<1>3. CASE v = NoCall
  <2>1. ASSUME NEW j \in own PROVE \E i \in Call : req[i].op = "remove" /\ done[i] > 0
    BY <1>2, <1>3 DEF Writes, WrittenStays
  <2> QED
    BY <1>0, <1>3, <2>1 DEF Explains
<1>4. CASE v # NoCall
  <2>1. v \in Call /\ b \in wrote[v] /\ IsWrite(v) /\ req[v].doc = d
    BY <1>0, <1>4 DEF Writes, LastWasWritten
  <2>2. done[v] > 0 /\ done[v] \in Nat /\ try[v] \in Nat
    BY <2>1, CountTypes DEF Writes, WroteIsDone
  <2>3. CallCourse(v) /\ CallCourse(k) /\ phase[v] # "idle"
    <3>1. CallCourse(v) /\ done[v] # 0
      BY <2>1, <2>2
    <3> QED
      BY <1>0, <3>1 DEF CallCourse
  <2>4. SUFFICES ASSUME v \in Mine(k), phase[v] \notin Doubt, ~(try[v] > 0)
                 PROVE  v \in own /\ \A j \in own : j <= v
    BY <1>0, <1>4 DEF Explains
  <2>5. k \in Mine(v) /\ v # k /\ try[v] = 0 /\ v \in Nat /\ k \in Nat
    <3>1. k \in Mine(v)
      BY <1>0, <2>4 DEF Mine
    <3>2. v # k
      BY <1>0, <2>1 DEF IsWrite
    <3>3. try[v] = 0
      BY <2>2, <2>4
    <3>4. v \in Nat /\ k \in Nat
      BY <1>0, <2>1, CallAssumption
    <3> QED
      BY <3>1, <3>2, <3>3, <3>4
  <2>6. ~(k < v)
    BY <1>1, <2>3, <2>5 DEF CallCourse, Outcome, Doubt
  <2>7. v < k
    BY <2>5, <2>6
  <2>8. phase[v] \in Outcome
    BY <1>1, <2>3, <2>4, <2>7 DEF CallCourse
  <2>9. phase[v] = "ok"
    <3>1. phase[v] # "refused"
      BY <2>2, <2>3, <2>5 DEF CallCourse
    <3> QED
      BY <2>4, <2>8, <3>1 DEF Outcome
  <2>10. v \in own
    BY <2>1, <2>4, <2>7, <2>9 DEF OwnWrites, IsWrite
  <2>11. ASSUME NEW j \in own PROVE j <= v
    <3>1. j \in Nat /\ j \in Mine(v)
      BY <1>2, <2>4, CallAssumption DEF Mine
    <3>2. ~(v < j)
      BY <1>2, <2>1, <2>5, <2>9, <3>1 DEF Writes, LaterStays
    <3> QED
      BY <2>5, <3>1, <3>2
  <2> QED
    BY <2>10, <2>11
<1> QED
  BY <1>0, <1>3, <1>4

LEMMA StepReadsOwnWrites ==
    ASSUME Course, Writes, [Next]_vars
    PROVE  \A k \in Call : value'[k] # value[k] =>
               Explains(k, value'[k][1], OwnWrites(k, value'[k][2]))
<1>1. CASE \E a \in Attempt, p \in Process : Read(p, a)
  <2>1. PICK a \in Attempt, p \in Process : Read(p, a)
    BY <1>1
  <2>2. \A k \in Call : value'[k] # value[k] =>
            k = a[1] /\ value'[k] = <<last[backend[p]][RequestOf(a).doc], backend[p]>>
    BY <2>1 DEF Read, Course, Types, ClientTypes
  <2> QED
    BY <2>1, <2>2, ReadIsExplained
<1>2. CASE ~\E a \in Attempt, p \in Process : Read(p, a)
  <2>1. UNCHANGED value
    <3>1. CASE \E a \in Attempt : Serve(a)
      BY <1>2, <3>1 DEF Serve, Refuse, Create, Remove, Write, WriteSome, Store, Posted,
                        PostFails, Apply, clientVars
    <3>2. CASE \E k \in Call : WaitEffect(k)
      BY <3>2 DEF WaitEffect, ServerKept
    <3> QED
      BY <3>1, <3>2, StepKinds DEF Issue, Apply, Restart, clientVars, vars, Course
  <2> QED
    BY <2>1
<1> QED
  BY <1>1, <1>2

(* A client reads its own last write, one of another client, or one of its *)
(* own that was in doubt or sent again and came late; less only after a    *)
(* removal, or from another store.                                         *)
THEOREM OwnWritesAreRead == Spec => ReadsOwnWrites
<1>1. Spec => []Writes
  BY InitWrites, NextWrites, CourseAlways, PTL DEF Spec
<1>2. Course /\ Writes /\ [Next]_vars =>
          [\A k \in Call : value'[k] # value[k] =>
              Explains(k, value'[k][1], OwnWrites(k, value'[k][2]))]_vars
  BY StepReadsOwnWrites
<1> QED
  BY <1>1, <1>2, CourseAlways, PTL DEF Spec, ReadsOwnWrites

-----------------------------------------------------------------------------
(* Core and the store it follows.                                          *)

StoredOf(d) == {a \in Attempt : stage[a] = "stored" /\ RequestOf(a).doc = d}

(* Of a document that is not tangled, one store has the last write, and    *)
(* either core has it too or it is the one attempt that waits for core.    *)
Follows(d) ==
    /\ \A a \in adrift : RequestOf(a).doc # d
    /\ \A a, o \in StoredOf(d) : a = o
    /\ \E b \in Backend : /\ \A c \in Backend \ {b} : last[c][d] = NoCall
                          /\ \A a \in StoredOf(d) : last[b][d] = a[1]
                          /\ StoredOf(d) = {} => last[b][d] = core[d]

CoreInv == \A d \in Doc \ tangled : Follows(d)

LEMMA InitCoreInv == Init => CoreInv
<1> SUFFICES ASSUME Init, NEW d \in Doc PROVE Follows(d)
  BY DEF CoreInv
<1>1. StoredOf(d) = {}
  BY DEF Init, StoredOf
<1> QED
  BY <1>1 DEF Init, Follows, Backend

(* What leaves the document alone.                                         *)
LEMMA KeepFollows ==
    ASSUME NEW d \in Doc, Follows(d), UNCHANGED req, StoredOf(d)' = StoredOf(d),
           \A b \in Backend : last'[b][d] = last[b][d], core'[d] = core[d],
           \A a \in adrift' : RequestOf(a).doc # d
    PROVE  Follows(d)'
BY DEF Follows, RequestOf

(* A step that serves one attempt changes who waits for core only there.   *)
LEMMA ServedStored ==
    ASSUME ClientTypes, NEW a \in Attempt, ServeEffect(a), NEW d \in Doc
    PROVE  /\ RequestOf(a).doc # d => StoredOf(d)' = StoredOf(d)
           /\ stage[a] # "stored" /\ stage'[a] # "stored" => StoredOf(d)' = StoredOf(d)
           /\ stage'[a] = "stored" /\ RequestOf(a).doc = d => StoredOf(d)' = StoredOf(d) \cup {a}
           /\ stage'[a] # "stored" => StoredOf(d)' = StoredOf(d) \ {a}
<1>1. \A o \in Attempt : o # a => stage'[o] = stage[o]
  BY DEF ServeEffect, Refuses, Does, Finishes, Settles, ClientTypes
<1>2. \A o \in Attempt : RequestOf(o)' = RequestOf(o)
  BY DEF ServeEffect, RequestOf
<1> QED
  BY <1>1, <1>2 DEF StoredOf

LEMMA ServeCoreInv ==
    ASSUME Course, CoreInv, NEW a \in Attempt, Serve(a)
    PROVE  CoreInv'
<1> USE DEF Course, Types
<1> SUFFICES ASSUME NEW d \in Doc, d \notin tangled' PROVE Follows(d)'
  BY DEF CoreInv
<1>0. a[1] \in Call /\ RequestOf(a).doc \in Doc /\ \A p \in Process : backend[p] \in Backend
  BY AttemptParts, RequestParts DEF ServerTypes
<1>1. CASE \E p \in Process : Refuse(p, a) \/ Create(p, a) \/ Read(p, a)
  <2>1. ServeEffect(a) /\ stage[a] # "stored" /\ stage'[a] # "stored"
    <3>1. stage[a] = "sent" /\ stage'[a] # "stored"
      BY <1>1 DEF Refuse, Create, Read, Takes, Answer, ClientTypes
    <3>2. ServeEffect(a)
      BY <1>1, HandleHasEffect DEF Handles
    <3> QED
      BY <3>1, <3>2
  <2>2. UNCHANGED <<last, core, adrift, tangled, req>>
    BY <1>1 DEF Refuse, Create, Read, storeVars, history, clientVars
  <2>3. Follows(d)
    BY <2>2 DEF CoreInv
  <2>4. StoredOf(d)' = StoredOf(d)
    BY <2>1, ServedStored
  <2>5. \A o \in adrift' : RequestOf(o).doc # d
    BY <2>2, <2>3 DEF Follows
  <2> QED
    BY <2>2, <2>3, <2>4, <2>5, KeepFollows
<1>2. CASE \E p \in Process : Remove(p, a)
  BY <1>2 DEF Remove
<1>3. CASE \E p \in Process : Write(p, a) \/ WriteSome(p, a)
  <2>1. PICK p \in Process : Write(p, a) \/ WriteSome(p, a)
    BY <1>3
  <2>2. /\ last' = [last EXCEPT ![backend[p]][RequestOf(a).doc] = a[1]]
        /\ UNCHANGED <<core, adrift, req>> /\ tangled \subseteq tangled'
    BY <2>1 DEF Write, WriteSome, Store, TangleIf, clientVars
  <2>3. Follows(d)
    BY <2>2 DEF CoreInv
  <2>4. ServeEffect(a)
    BY <2>1, HandleHasEffect DEF Handles
  <2>5. CASE RequestOf(a).doc # d
    <3>1. \A b \in Backend : last'[b][d] = last[b][d]
      BY <1>0, <2>2, <2>5 DEF ServerTypes
    <3> QED
      BY <2>2, <2>3, <2>4, <2>5, <3>1, ServedStored, KeepFollows DEF Follows
  <2>6. CASE RequestOf(a).doc = d
    <3>1. Write(p, a) /\ ~Overlap(a) /\ OneStore(p, a)
      BY <2>1, <2>6 DEF Write, WriteSome, TangleIf
    <3>2. stage'[a] = "stored"
      BY <3>1 DEF Write, AwaitCore, ClientTypes
    <3>3. StoredOf(d)' = {a}
      <4>1. StoredOf(d) \subseteq {a}
        BY <2>6, <3>1 DEF Overlap, StoredOf
      <4> QED
        BY <2>4, <2>6, <3>2, <4>1, ServedStored
    <3>4. \A c \in Backend \ {backend[p]} : last'[c][d] = NoCall
      BY <1>0, <2>2, <2>6, <3>1 DEF OneStore, ServerTypes
    <3>5. last'[backend[p]][d] = a[1]
      BY <1>0, <2>2, <2>6 DEF ServerTypes
    <3>6. \A o \in adrift' : RequestOf(o)'.doc # d
      BY <2>2, <2>3 DEF Follows, RequestOf
    <3> QED
      BY <1>0, <3>3, <3>4, <3>5, <3>6 DEF Follows
  <2> QED
    BY <2>5, <2>6
<1>4. CASE Posted(a) \/ PostFails(a)
  <2>1. /\ stage[a] = "stored" /\ stage'[a] # "stored" /\ UNCHANGED <<last, req>>
        /\ tangled \subseteq tangled'
    BY <1>4 DEF Posted, PostFails, Answer, ClientTypes, storeVars, clientVars, history,
                TangleIf
  <2>2. ServeEffect(a) /\ Follows(d)
    BY <1>4, <2>1, HandleHasEffect DEF Handles, CoreInv
  <2>3. CASE RequestOf(a).doc # d
    <3>1. core'[d] = core[d] /\ \A o \in adrift' : RequestOf(o).doc # d
      BY <1>0, <1>4, <2>2, <2>3 DEF Posted, PostFails, ApplyToCore, ServerTypes, Follows
    <3> QED
      BY <2>1, <2>2, <2>3, <3>1, ServedStored, KeepFollows
  <2>4. CASE RequestOf(a).doc = d
    <3>1. Posted(a)
      BY <1>4, <2>4 DEF PostFails, TangleIf
    <3>2. a \in StoredOf(d) /\ StoredOf(d)' = {}
      <4>1. a \in StoredOf(d)
        BY <2>1, <2>4 DEF StoredOf
      <4> QED
        BY <2>1, <2>2, <4>1, ServedStored DEF Follows
    <3>3. core'[d] = a[1] /\ UNCHANGED adrift
      BY <1>0, <2>4, <3>1 DEF Posted, ApplyToCore, ServerTypes
    <3> QED
      BY <2>1, <2>2, <3>2, <3>3 DEF Follows, RequestOf
  <2> QED
    BY <2>3, <2>4
<1>5. CASE Apply(a)
  <2>1. Follows(d) /\ a \in adrift
    BY <1>5 DEF Apply, history, CoreInv
  <2>2. RequestOf(a).doc # d
    BY <2>1 DEF Follows
  <2>3. core'[d] = core[d]
    BY <1>0, <1>5, <2>2 DEF Apply, ApplyToCore, ServerTypes
  <2>4. UNCHANGED <<last, stage, req>> /\ adrift' \subseteq adrift
    BY <1>5 DEF Apply, storeVars, clientVars
  <2>5. StoredOf(d)' = StoredOf(d)
    BY <2>4 DEF StoredOf, RequestOf
  <2> QED
    BY <2>1, <2>3, <2>4, <2>5, KeepFollows DEF Follows
<1> QED
  BY <1>1, <1>2, <1>3, <1>4, <1>5 DEF Serve

LEMMA NextCoreInv == Course /\ CoreInv /\ [Next]_vars => CoreInv'
<1> SUFFICES ASSUME Course, CoreInv, [Next]_vars PROVE CoreInv'
  OBVIOUS
<1> USE DEF Course, Types
<1>1. ASSUME UNCHANGED <<req, last, core, adrift, tangled>>,
             \A d \in Doc : StoredOf(d)' = StoredOf(d)
      PROVE  CoreInv'
  BY <1>1, KeepFollows DEF CoreInv, Follows
<1>2. CASE \E k \in Call : Issue(k)
  <2>1. PICK k \in Call : Issue(k)
    BY <1>2
  <2>2. stage[<<k, 0>>] = "none" /\ <<k, 0>> \in Attempt
    BY <2>1, CallAssumption DEF Issue, CallCourse, Attempt
  <2>3. UNCHANGED <<req, last, core, adrift, tangled>>
    BY <2>1 DEF Issue, storeVars, history
  <2>4. \A a \in Attempt : stage'[a] = "stored" <=> stage[a] = "stored"
    BY <2>1, <2>2 DEF Issue, ClientTypes
  <2>5. \A d \in Doc : StoredOf(d)' = StoredOf(d)
    BY <2>3, <2>4 DEF StoredOf, RequestOf
  <2> QED
    BY <1>1, <2>3, <2>5
<1>3. CASE \E k \in Call : WaitEffect(k)
  <2>1. PICK k \in Call : WaitEffect(k)
    BY <1>3
  <2>2. /\ Now(k) \in Attempt /\ AttemptCourse(Now(k)) /\ RequestOf(Now(k)) = req[k]
        /\ try[k] \in Nat
    BY NowIsAttempt, CountTypes DEF Now, RequestOf
  <2>3. UNCHANGED <<req, last, core, adrift, tangled>>
    BY <2>1 DEF WaitEffect, ServerKept, storeVars, history
  <2>4. \A a \in Attempt : stage'[a] = "stored" <=> stage[a] = "stored"
    <3>1. CASE SendsAgain(k)
      <4>1. PICK s : /\ Leaves(k, s)
                     /\ stage' = [stage EXCEPT ![Now(k)] = s, ![<<k, try[k] + 1>>] = "sent"]
        BY <3>1 DEF SendsAgain
      <4>2. stage[<<k, try[k] + 1>>] = "none" /\ <<k, try[k] + 1>> \in Attempt
        <5>1. try[k] + 1 \in 0 .. MaxRetries
          BY <2>2, <3>1, CallAssumption DEF SendsAgain
        <5>2. CallCourse(k) /\ try[k] + 1 > try[k]
          BY <2>2
        <5> QED
          BY <5>1, <5>2 DEF CallCourse, Attempt
      <4>3. s = "stored" <=> stage[Now(k)] = "stored"
        BY <2>2, <4>1 DEF Leaves, AttemptCourse
      <4> QED
        BY <2>2, <4>1, <4>2, <4>3 DEF ClientTypes
    <3>2. CASE Returns(k)
      <4>1. PICK s : Leaves(k, s) /\ stage' = [stage EXCEPT ![Now(k)] = s]
        BY <3>2 DEF Returns
      <4>2. s = "stored" <=> stage[Now(k)] = "stored"
        BY <2>2, <4>1 DEF Leaves, AttemptCourse
      <4> QED
        BY <2>2, <4>1, <4>2 DEF ClientTypes
    <3> QED
      BY <2>1, <3>1, <3>2 DEF WaitEffect
  <2>5. \A d \in Doc : StoredOf(d)' = StoredOf(d)
    BY <2>3, <2>4 DEF StoredOf, RequestOf
  <2> QED
    BY <1>1, <2>3, <2>5
<1>4. CASE \E p \in Process : Restart(p)
  <2>1. PICK p \in Process : Restart(p)
    BY <1>4
  <2> SUFFICES ASSUME NEW d \in Doc, d \notin tangled' PROVE Follows(d)'
    BY DEF CoreInv
  <2>2. UNCHANGED <<req, last, core>>
    BY <2>1 DEF Restart, storeVars, clientVars
  <2>3. /\ Follows(d)
        /\ \A a \in Attempt : proc[a] = p => RequestOf(a).doc # d
    BY <2>1 DEF Restart, CoreInv
  <2>4. \A a \in Attempt : RequestOf(a).doc = d => stage'[a] = stage[a]
    BY <2>1, <2>3 DEF Restart
  <2>5. StoredOf(d)' = StoredOf(d)
    BY <2>2, <2>4 DEF StoredOf, RequestOf
  <2>6. \A a \in adrift' : RequestOf(a).doc # d
    BY <2>1, <2>3 DEF Restart, Follows
  <2> QED
    BY <2>2, <2>3, <2>5, <2>6, KeepFollows
<1>5. CASE UNCHANGED vars
  BY <1>1, <1>5 DEF vars, storeVars, clientVars, attemptVars, history, StoredOf, RequestOf
<1>6. CASE \E a \in Attempt : Serve(a)
  BY <1>6, ServeCoreInv
<1> QED
  BY <1>2, <1>3, <1>4, <1>5, <1>6, WaitHasEffect DEF Next, Rest

(* Core has the last write of a document as soon as no attempt waits for   *)
(* core, unless a request to core failed, writes overlapped or went to two *)
(* stores, or the graph was removed: for any number of processes, each     *)
(* with a store of its own, and through any restarts.                      *)
THEOREM CoreHasLast == Spec => []CoreFollows
<1>1. CoreInv => CoreFollows
  <2> SUFFICES ASSUME CoreInv, NEW d \in Doc \ tangled,
                      \A a \in Attempt : stage[a] = "stored" => RequestOf(a).doc # d
               PROVE  \E b \in Backend : last[b][d] = core[d]
    BY DEF CoreFollows
  <2>1. StoredOf(d) = {}
    BY DEF StoredOf
  <2> QED
    BY <2>1 DEF CoreInv, Follows
<1> QED
  BY <1>1, InitCoreInv, NextCoreInv, CourseAlways, PTL DEF Spec
=============================================================================
