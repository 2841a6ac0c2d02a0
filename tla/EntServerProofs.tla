--------------------------- MODULE EntServerProofs ---------------------------
(***************************************************************************)
(* Proofs about EntServer, for every set of calls, keys, names and aliases, *)
(* every mix of references and every bound on the clock.                    *)
(***************************************************************************)
EXTENDS EntServer, TLAPS

\* A handler in one of its first three states is one that runs.
LEMMA RunningCalls ==
    ASSUME TypeOK, NEW c \in Call, call[c].pc \in {"resolve", "stamp", "save"}
    PROVE  call[c] \in Running
BY DEF TypeOK, Ended, Running, Replying

State == Ended \cup Running \cup Replying

\* Handlers are replaced one at a time.
LEMMA SetCall ==
    ASSUME TypeOK, NEW c \in Call, NEW x \in State, call' = [call EXCEPT ![c] = x]
    PROVE  call' \in [Call -> State]
BY DEF TypeOK, State

LEMMA AnswerCall ==
    ASSUME TypeOK, NEW c \in Call, NEW code \in Code, Answer(c, code)
    PROVE  call' \in [Call -> State]
BY DEF TypeOK, State, Answer, Ended

\* An UPDATE either changes nothing and the call ends, or replaces one row.
Replaces(c, u) ==
    /\ UniqueIn(Patched(c, u), users \ {u}) /\ HasTenant(Patched(c, u))
    /\ users' = (users \ {u}) \cup {Patched(c, u)}
    /\ call' = [call EXCEPT ![c] =
         [pc |-> "reply", ref |-> call[c].ref, wrote |-> Patched(c, u)]]

LEMMA SavePatchEffect ==
    ASSUME TypeOK, NEW c \in Call, SavePatch(c)
    PROVE  /\ call[c] \in Running /\ call[c].pc = "save" /\ call[c].op = "patch"
           /\ UNCHANGED <<tenants, clock, seen>>
           /\ \/ users' = users /\ \E code \in Code : Answer(c, code)
              \/ \E u \in Hit(c) : Replaces(c, u)
<1>1. call[c] \in Running
  BY RunningCalls DEF SavePatch
<1>2. {"NotFound", "FailedPrecondition", "Unknown"} \subseteq Code
  BY DEF Code
<1>3. CASE Hit(c) = {} /\ users' = users
             /\ Answer(c, IF call[c].force THEN "NotFound" ELSE "FailedPrecondition")
  BY <1>1, <1>2, <1>3 DEF SavePatch
<1>4. ASSUME NEW u \in Hit(c), users' = users, Answer(c, "Unknown")
      PROVE  users' = users /\ \E code \in Code : Answer(c, code)
  BY <1>2, <1>4
<1> QED BY <1>1, <1>3, <1>4 DEF SavePatch, Replaces

\* Every statement keeps the types, given what the handlers carry.
LEMMA TypeStep ==
    ASSUME TypeOK, CallsWellFormed, [Next]_vars
    PROVE  TypeOK'
<1> USE SetsAssumption, AbsentAssumption DEF TypeOK
<1>1. CASE UNCHANGED vars
  BY <1>1 DEF vars
<1>2. ASSUME NEW c \in Call, BeginAdd(c) PROVE TypeOK'
  <2>1. ASSUME NEW k \in Id, NEW a \in Alias, NEW n \in Name, NEW tref \in TenantRef
        PROVE  [pc |-> "resolve", op |-> "add", ref |-> [by |-> "id", id |-> k],
                base |-> Absent, force |-> FALSE, alias |-> a, name |-> n,
                tref |-> tref, tenant |-> Absent, stamp |-> 0] \in State
    <3>1. [by |-> "id", id |-> k] \in UserRef
      BY DEF UserRef
    <3> QED BY <3>1 DEF Running, State
  <2>2. "InvalidArgument" \in Code
    BY DEF Code
  <2>3. call' \in [Call -> State]
    BY <1>2, <2>1, <2>2, SetCall, AnswerCall DEF BeginAdd
  <2> QED BY <1>2, <2>3 DEF BeginAdd, State
<1>3. ASSUME NEW c \in Call, BeginPatch(c) PROVE TypeOK'
  <2>1. ASSUME NEW ref \in UserRef, NEW base \in seen \cup {Absent}, NEW force \in BOOLEAN,
               NEW a \in Alias \cup {Absent}, NEW n \in Name \cup {Absent},
               NEW tref \in TenantRef \cup {Absent}
        PROVE  [pc |-> IF tref = Absent THEN "stamp" ELSE "resolve",
                op |-> "patch", ref |-> ref, base |-> base, force |-> force,
                alias |-> a, name |-> n, tref |-> tref,
                tenant |-> Absent, stamp |-> 0] \in State
    BY DEF Running, State
  <2>2. "InvalidArgument" \in Code
    BY DEF Code
  <2>3. call' \in [Call -> State]
    BY <1>3, <2>1, <2>2, SetCall, AnswerCall DEF BeginPatch
  <2> QED BY <1>3, <2>3 DEF BeginPatch, State
<1>4. ASSUME NEW c \in Call, GetKey(c) PROVE TypeOK'
  BY <1>4, RunningCalls DEF GetKey, Answer, Ended, Running, Code, TenantPick, TenantRef, TenantRow, CallsWellFormed
<1>5. ASSUME NEW c \in Call, Stamp(c) PROVE TypeOK'
  BY <1>5, RunningCalls DEF Stamp, Running, Row
<1>6. ASSUME NEW c \in Call, SaveAdd(c) PROVE TypeOK'
  <2>1. call[c] \in Running
    BY <1>6, RunningCalls DEF SaveAdd
  <2>2. NewRow(c) \in Row
    BY <1>6, <2>1 DEF SaveAdd, NewRow, Running, Row, UserRef, CallsWellFormed
  <2> QED BY <1>6, <2>2 DEF SaveAdd, Answer, Ended, Code
<1>7. ASSUME NEW c \in Call, SavePatch(c) PROVE TypeOK'
  <2>1. call[c] \in Running
    BY <1>7, SavePatchEffect
  <2>2. ASSUME NEW u \in Hit(c) PROVE Patched(c, u) \in Row
    <3>1. u \in Row
      BY DEF Hit, UserPick
    <3>2. /\ OrOld(call[c].alias, u.alias) \in Alias
          /\ OrOld(call[c].name, u.name) \in Name
          /\ OrOld(call[c].tenant, u.tenant) \in TenantId
          /\ call[c].stamp \in Nat
      BY <2>1, <3>1 DEF OrOld, Running, Row
    <3> QED BY <3>1, <3>2 DEF Patched, Row
  <2>3. \A u \in Row : [pc |-> "reply", ref |-> call[c].ref, wrote |-> u] \in State
    BY <2>1 DEF Running, Replying, State
  <2>4. CASE users' = users /\ \E code \in Code : Answer(c, code)
    BY <1>7, <2>4, AnswerCall, SavePatchEffect DEF State
  <2>5. ASSUME NEW u \in Hit(c), Replaces(c, u) PROVE TypeOK'
    <3>1. call' \in [Call -> State]
      BY <2>2, <2>3, <2>5, SetCall DEF Replaces
    <3> QED BY <1>7, <2>2, <2>5, <3>1, SavePatchEffect DEF Replaces, State
  <2> QED BY <1>7, <2>4, <2>5, SavePatchEffect
<1>8. ASSUME NEW c \in Call, Reply(c) PROVE TypeOK'
  BY <1>8 DEF Reply, Answer, Ended, Code, UserPick
<1>9. CASE Get \/ Erase
  BY <1>9 DEF Get, Erase, UserPick
<1>10. CASE TenantAdd \/ TenantPatch \/ TenantErase
  BY <1>10 DEF TenantAdd, TenantPatch, TenantErase, TenantRow
<1>11. CASE Tick
  BY <1>11 DEF Tick
<1> QED
  BY <1>1, <1>2, <1>3, <1>4, <1>5, <1>6, <1>7, <1>8, <1>9, <1>10, <1>11 DEF Next, Step

-----------------------------------------------------------------------------
(* What a step leaves alone.                                                *)

\* A handler touches no other handler, and what was answered stays answered.
LEMMA Frame ==
    ASSUME TypeOK, NEW c \in Call, Step(c)
    PROVE  /\ \A d \in Call \ {c} : call'[d] = call[d]
           /\ seen \subseteq seen'
           /\ clock <= clock'
<1> USE DEF TypeOK
<1>1. CASE BeginAdd(c) \/ GetKey(c) \/ SaveAdd(c)
  BY <1>1 DEF BeginAdd, GetKey, SaveAdd, Answer
<1>2. CASE BeginPatch(c)
  BY <1>2 DEF BeginPatch, Answer
<1>3. CASE Stamp(c)
  BY <1>3 DEF Stamp
<1>4. CASE SavePatch(c)
  <2>1. UNCHANGED <<seen, clock>> /\ clock \in Nat
    BY <1>4, SavePatchEffect
  <2>2. \E x : call' = [call EXCEPT ![c] = x]
    BY <1>4, SavePatchEffect DEF Replaces, Answer
  <2> QED BY <2>1, <2>2
<1>5. CASE Reply(c)
  BY <1>5 DEF Reply, Answer
<1> QED BY <1>1, <1>2, <1>3, <1>4, <1>5 DEF Step

\* The statements of no handler: reads, erases, tenants and time.
Environment == Get \/ Erase \/ TenantAdd \/ TenantPatch \/ TenantErase \/ Tick

LEMMA EnvironmentFrame ==
    ASSUME TypeOK, Environment
    PROVE  /\ call' = call
           /\ users' \subseteq users
           /\ seen \subseteq seen' /\ seen' \subseteq seen \cup users
           /\ clock' \in Nat /\ (SteadyClock => clock <= clock')
<1> USE DEF TypeOK
<1>1. CASE Get
  BY <1>1 DEF Get, UserPick
<1>2. CASE Erase
  BY <1>2 DEF Erase
<1>3. CASE TenantAdd \/ TenantPatch \/ TenantErase
  BY <1>3 DEF TenantAdd, TenantPatch, TenantErase
<1>4. CASE Tick
  BY <1>4, SetsAssumption DEF Tick
<1> QED BY <1>1, <1>2, <1>3, <1>4 DEF Environment

-----------------------------------------------------------------------------
(* What a handler carries stays well formed.                                *)

LEMMA WellFormedStep ==
    ASSUME TypeOK, CallsWellFormed, [Next]_vars
    PROVE  CallsWellFormed'
<1>1. CASE UNCHANGED vars
  BY <1>1 DEF vars, CallsWellFormed
<1>2. CASE Environment
  BY <1>2, EnvironmentFrame DEF CallsWellFormed
<1>3. ASSUME NEW c \in Call, Step(c) PROVE CallsWellFormed'
  <2>1. call'[c].pc \in {"resolve", "stamp", "save"} =>
          /\ call'[c].pc = "resolve" => call'[c].tref # Absent
          /\ call'[c].op = "add" =>
               /\ call'[c].ref.by = "id" /\ ~call'[c].force
               /\ call'[c].alias # Absent /\ call'[c].name # Absent
               /\ call'[c].pc # "resolve" => call'[c].tenant # Absent
          /\ call'[c].op = "patch" =>
               /\ call'[c].base \in seen' \cup {Absent}
               /\ ~call'[c].force => call'[c].base # Absent
    <3>1. CASE BeginAdd(c)
      BY <3>1, AbsentAssumption DEF TypeOK, BeginAdd, TenantRef, Answer
    <3>2. CASE BeginPatch(c)
      BY <3>2 DEF TypeOK, BeginPatch, Answer
    <3>3. CASE GetKey(c)
      BY <3>3, RunningCalls, AbsentAssumption
         DEF TypeOK, CallsWellFormed, GetKey, Answer, Running, TenantPick, TenantRow, TenantRef
    <3>4. CASE Stamp(c)
      BY <3>4, RunningCalls DEF TypeOK, CallsWellFormed, Stamp, Running
    <3>5. CASE SaveAdd(c) \/ Reply(c)
      BY <3>5 DEF TypeOK, SaveAdd, Reply, Answer
    <3>6. CASE SavePatch(c)
      <4>1. ASSUME NEW u \in Hit(c), Replaces(c, u) PROVE call'[c].pc = "reply"
        BY <4>1 DEF TypeOK, Replaces
      <4>2. ASSUME NEW code \in Code, Answer(c, code) PROVE call'[c].pc = "ended"
        BY <4>2 DEF TypeOK, Answer
      <4> QED BY <3>6, <4>1, <4>2, SavePatchEffect
    <3> QED BY <1>3, <3>1, <3>2, <3>3, <3>4, <3>5, <3>6 DEF Step
  <2> QED BY <1>3, <2>1, Frame DEF CallsWellFormed
<1> QED BY <1>1, <1>2, <1>3 DEF Next, Environment

(* Every value a handler, a row or an answer holds has its declared type    *)
(* in every reachable state (write.go, emitAdd and emitPatch).              *)
THEOREM TypeCorrect == Spec => []TypeOK
<1>1. Init => TypeOK /\ CallsWellFormed
  BY DEF Init, TypeOK, CallsWellFormed, Ended, Code
<1>2. TypeOK /\ CallsWellFormed /\ [Next]_vars => (TypeOK /\ CallsWellFormed)'
  BY TypeStep, WellFormedStep
<1> QED BY <1>1, <1>2, PTL DEF Spec

-----------------------------------------------------------------------------
(* Stamps and images.                                                       *)

\* The images anybody may hold: the rows stored and the rows answered.
Images == users \cup seen

\* A step of a handler makes at most one image nobody had, and that image
\* carries the stamp the handler was holding, which it then lets go of.
LEMMA OneNewImage ==
    ASSUME TypeOK, NEW c \in Call, Step(c)
    PROVE  \/ Images' \subseteq Images
           \/ /\ call[c].pc = "save" /\ call'[c].pc # "save" /\ clock' = clock
              /\ \E r : /\ r.version = call[c].stamp
                      /\ Images' \subseteq Images \cup {r}
<1>1. CASE BeginAdd(c) \/ BeginPatch(c) \/ GetKey(c) \/ Stamp(c)
  <2>1. UNCHANGED <<users, seen>>
    BY <1>1 DEF BeginAdd, BeginPatch, GetKey, Stamp
  <2> QED BY <2>1 DEF Images
<1>2. CASE SaveAdd(c)
  <2>1. \/ users' = users \cup {NewRow(c)} /\ seen' = seen \cup {NewRow(c)}
        \/ UNCHANGED <<users, seen>>
    BY <1>2 DEF SaveAdd
  <2>2. call'[c].pc = "ended" /\ call[c].pc = "save" /\ clock' = clock
    BY <1>2 DEF SaveAdd, Answer, TypeOK
  <2> QED BY <2>1, <2>2 DEF Images, NewRow
<1>3. CASE SavePatch(c)
  <2>1. ASSUME NEW u \in Hit(c), Replaces(c, u)
        PROVE  call'[c].pc = "reply" /\ users' \subseteq users \cup {Patched(c, u)}
               /\ Patched(c, u).version = call[c].stamp
    <3>1. u \in Row
      BY DEF Hit, UserPick, TypeOK
    <3> QED BY <2>1, <3>1 DEF Replaces, TypeOK, Patched, Row
  <2> QED BY <1>3, <2>1, SavePatchEffect DEF Images
<1>4. CASE Reply(c)
  BY <1>4 DEF Reply, UserPick, Images
<1> QED BY <1>1, <1>2, <1>3, <1>4 DEF Step

\* A handler about to save has just read the clock.
LEMMA OnlyStampLeadsToSave ==
    ASSUME TypeOK, NEW c \in Call, Step(c), call'[c].pc = "save"
    PROVE  Stamp(c)
<1>1. CASE BeginAdd(c)
  BY <1>1 DEF TypeOK, BeginAdd, Answer
<1>2. CASE GetKey(c)
  <2>1. call[c] \in Running
    BY <1>2, RunningCalls DEF GetKey
  <2>2. call'[c].pc \in {"ended", "stamp"}
    BY <1>2, <2>1 DEF TypeOK, GetKey, Answer, Running
  <2> QED BY <2>2
<1>3. CASE BeginPatch(c)
  BY <1>3 DEF TypeOK, BeginPatch, Answer
<1>4. CASE SaveAdd(c) \/ Reply(c)
  BY <1>4 DEF TypeOK, SaveAdd, Reply, Answer
<1>5. CASE SavePatch(c)
  <2>1. ASSUME NEW u \in Hit(c), Replaces(c, u) PROVE call'[c].pc = "reply"
    BY <2>1 DEF TypeOK, Replaces
  <2>2. ASSUME NEW code \in Code, Answer(c, code) PROVE call'[c].pc = "ended"
    BY <2>2 DEF TypeOK, Answer
  <2> QED BY <1>5, <2>1, <2>2, SavePatchEffect
<1> QED BY <1>1, <1>2, <1>3, <1>4, <1>5 DEF Step

\* What reading the clock does to a handler.
LEMMA StampEffect ==
    ASSUME TypeOK, CallsWellFormed, NotAheadOfClock, NEW c \in Call, Stamp(c)
    PROVE  /\ call[c] \in Running /\ call[c].pc = "stamp"
           /\ UNCHANGED <<users, seen>> /\ clock' \in Nat /\ clock <= clock'
           /\ call'[c].pc = "save" /\ call'[c].op = call[c].op
           /\ call'[c].force = call[c].force /\ call'[c].base = call[c].base
           /\ call'[c].stamp <= clock'
           /\ ~call[c].force => call'[c].stamp = clock'
           /\ FineClock /\ (call[c].force => call[c].base = Absent)
                => call'[c].stamp = clock + 1 /\ clock' = clock + 1
<1>1. call[c] \in Running /\ call[c].pc = "stamp" /\ call \in [Call -> State]
  BY RunningCalls DEF Stamp, TypeOK, State
<1>2. CASE call[c].force /\ call[c].base # Absent
  <2>1. call[c].base \in seen
    BY <1>1, <1>2 DEF CallsWellFormed, Running
  <2>2. call[c].base.version <= clock
    BY <2>1 DEF NotAheadOfClock
  <2>3. clock' = clock /\ UNCHANGED <<users, tenants, seen>>
        /\ call' = [call EXCEPT ![c].pc = "save", ![c].stamp = call[c].base.version]
    BY <1>2 DEF Stamp
  <2>4. /\ call'[c].pc = "save" /\ call'[c].op = call[c].op
        /\ call'[c].force = call[c].force /\ call'[c].base = call[c].base
        /\ call'[c].stamp = call[c].base.version
    BY <1>1, <2>3 DEF Running
  <2>5. clock \in Nat /\ clock' \in Nat /\ clock <= clock' /\ call'[c].stamp <= clock'
    BY <2>2, <2>3, <2>4 DEF TypeOK
  <2> QED BY <1>1, <1>2, <2>3, <2>4, <2>5
<1>3. CASE ~(call[c].force /\ call[c].base # Absent)
  <2>1. clock' = (IF FineClock THEN clock + 1 ELSE clock) /\ UNCHANGED <<users, tenants, seen>>
        /\ call' = [call EXCEPT ![c].pc = "save", ![c].stamp = clock']
    BY <1>3 DEF Stamp
  <2> QED BY <1>1, <1>3, <2>1, SetsAssumption DEF Running, TypeOK
<1> QED BY <1>2, <1>3

\* On a clock that is never set back.
LEMMA NotAheadStep ==
    ASSUME SteadyClock, TypeOK, CallsWellFormed, NotAheadOfClock, [Next]_vars
    PROVE  NotAheadOfClock'
<1>0. \A r \in users \cup seen : r.version \in Nat
  BY DEF TypeOK, Row
<1>1. CASE UNCHANGED vars
  BY <1>1 DEF vars, NotAheadOfClock
<1>2. CASE Environment
  <2>1. \A c \in Call : call[c].pc = "save" => call[c].stamp \in Nat
    BY RunningCalls DEF Running
  <2> QED BY <1>0, <1>2, <2>1, EnvironmentFrame DEF NotAheadOfClock, TypeOK
<1>3. ASSUME NEW c \in Call, Step(c) PROVE NotAheadOfClock'
  <2>1. \A r \in users' \cup seen' : r.version <= clock'
    BY <1>0, <1>3, OneNewImage, Frame, TypeStep DEF NotAheadOfClock, Images, TypeOK
  <2>2. ASSUME NEW d \in Call, call'[d].pc = "save"
        PROVE  /\ call'[d].stamp <= clock'
               /\ call'[d].op = "patch" /\ ~call'[d].force
                    => call'[d].base.version <= call'[d].stamp
    <3>1. CASE d = c
      <4>1. Stamp(c)
        BY <1>3, <2>2, <3>1, OnlyStampLeadsToSave
      <4>2. call[c].op = "patch" /\ ~call[c].force => call[c].base \in seen
        BY <4>1, StampEffect DEF CallsWellFormed
      <4>3. call[c].op = "patch" /\ ~call[c].force => call[c].base.version <= clock
        BY <4>2 DEF NotAheadOfClock
      <4> QED BY <1>0, <3>1, <4>1, <4>2, <4>3, StampEffect DEF TypeOK
    <3>2. CASE d # c
      <4>1. call'[d] = call[d] /\ clock <= clock'
        BY <1>3, <3>2, Frame
      <4>2. call[d].stamp \in Nat /\ clock \in Nat /\ clock' \in Nat
        BY <2>2, <4>1, RunningCalls, TypeStep DEF Running, TypeOK
      <4> QED BY <2>2, <4>1, <4>2 DEF NotAheadOfClock
    <3> QED BY <3>1, <3>2
  <2> QED BY <2>1, <2>2 DEF NotAheadOfClock
<1> QED BY <1>1, <1>2, <1>3 DEF Next, Environment

-----------------------------------------------------------------------------
(* Under a clock no two readings of which are equal, and as long as no      *)
(* forced Patch supplies a version of its own.                              *)

StampsAreReadings == FineClock /\ "supply" \notin Forcing

\* A handler that forces names no image.
LEMMA ForcedNamesNothing ==
    ASSUME StampsAreReadings, TypeOK, CallsWellFormed, NotAheadOfClock, StampsFresh,
           NEW c \in Call, Step(c),
           call'[c].pc \in {"resolve", "stamp", "save"}, call'[c].force
    PROVE  call'[c].base = Absent
<1>1. CASE BeginAdd(c)
  BY <1>1 DEF BeginAdd, Answer, TypeOK
<1>2. CASE BeginPatch(c)
  BY <1>2 DEF BeginPatch, Answer, TypeOK, StampsAreReadings
<1>3. CASE GetKey(c)
  <2>1. call[c] \in Running /\ call[c].pc = "resolve"
    BY <1>3, RunningCalls DEF GetKey
  <2>2. ~\E code : Answer(c, code)
    BY DEF Answer, TypeOK
  <2>3. PICK t : call' = [call EXCEPT ![c].pc = "stamp", ![c].tenant = t]
    BY <1>3, <2>2 DEF GetKey
  <2>4. call'[c].force = call[c].force /\ call'[c].base = call[c].base
    BY <2>1, <2>3 DEF TypeOK, Running
  <2> QED BY <2>1, <2>4 DEF StampsFresh
<1>4. CASE Stamp(c)
  <2>1. call[c] \in Running /\ call[c].pc = "stamp"
    BY <1>4, RunningCalls DEF Stamp
  <2>2. call'[c].force = call[c].force /\ call'[c].base = call[c].base
    BY <1>4, StampEffect
  <2> QED BY <2>1, <2>2 DEF StampsFresh
<1>5. CASE SaveAdd(c) \/ Reply(c)
  BY <1>5 DEF TypeOK, SaveAdd, Reply, Answer
<1>6. CASE SavePatch(c)
  <2>1. ASSUME NEW u \in Hit(c), Replaces(c, u) PROVE call'[c].pc = "reply"
    BY <2>1 DEF TypeOK, Replaces
  <2>2. ASSUME NEW code \in Code, Answer(c, code) PROVE call'[c].pc = "ended"
    BY <2>2 DEF TypeOK, Answer
  <2> QED BY <1>6, <2>1, <2>2, SavePatchEffect
<1> QED BY <1>1, <1>2, <1>3, <1>4, <1>5, <1>6 DEF Step

LEMMA FreshStep ==
    ASSUME StampsAreReadings, TypeOK, CallsWellFormed, NotAheadOfClock, StampsFresh,
           [Next]_vars
    PROVE  StampsFresh'
<1>0. \A r \in Images : r.version \in Nat
  BY DEF TypeOK, Row, Images
<1>1. CASE UNCHANGED vars
  BY <1>1 DEF vars, StampsFresh
<1>2. CASE Environment
  BY <1>2, EnvironmentFrame DEF StampsFresh
<1>3. ASSUME NEW c \in Call, Step(c) PROVE StampsFresh'
  <2>1. \A d \in Call \ {c} : call'[d] = call[d]
    BY <1>3, Frame
  \* The stamp a handler has just read is later than every other.
  <2>2. ASSUME call'[c].pc = "save"
        PROVE  /\ \A r \in Images' : r.version # call'[c].stamp
               /\ \A d \in Call \ {c} : call[d].pc = "save" => call[d].stamp # call'[c].stamp
    <3>1. Stamp(c)
      BY <1>3, <2>2, OnlyStampLeadsToSave
    <3>2. call'[c].stamp = clock + 1 /\ Images' = Images /\ clock \in Nat
      BY <3>1, StampEffect DEF StampsAreReadings, StampsFresh, Images, TypeOK
    <3>3. \A r \in Images : r.version # clock + 1
      BY <1>0, <3>2 DEF NotAheadOfClock, Images
    <3>4. \A d \in Call : call[d].pc = "save" => call[d].stamp # clock + 1
      BY <3>2, RunningCalls DEF NotAheadOfClock, Running
    <3> QED BY <3>2, <3>3, <3>4
  \* What a handler saves carries a stamp no other handler holds.
  <2>3. ASSUME NEW d \in Call \ {c}, call[d].pc = "save"
        PROVE  \A r \in Images' : r.version # call[d].stamp
    BY <1>3, <2>3, OneNewImage DEF StampsFresh, Images
  <2>4. \A d \in Call : call'[d].pc = "save" =>
          /\ \A r \in Images' : r.version # call'[d].stamp
          /\ \A e \in Call \ {d} : call'[e].pc = "save" => call'[e].stamp # call'[d].stamp
    BY <2>1, <2>2, <2>3 DEF StampsFresh
  <2>5. \A d \in Call : call'[d].pc \in {"resolve", "stamp", "save"} /\ call'[d].force
          => call'[d].base = Absent
    BY <1>3, <2>1, ForcedNamesNothing DEF StampsFresh
  <2> QED BY <2>4, <2>5 DEF StampsFresh, Images
<1> QED BY <1>1, <1>2, <1>3 DEF Next, Environment

LEMMA VersionStep ==
    ASSUME TypeOK, StampsFresh, VersionNamesImage, [Next]_vars
    PROVE  VersionNamesImage'
<1>1. CASE UNCHANGED vars
  BY <1>1 DEF vars, VersionNamesImage
<1>2. CASE Environment
  BY <1>2, EnvironmentFrame DEF VersionNamesImage
<1>3. ASSUME NEW c \in Call, Step(c) PROVE VersionNamesImage'
  <2>1. CASE Images' \subseteq Images
    BY <2>1 DEF VersionNamesImage, Images
  <2>2. ASSUME call[c].pc = "save", NEW r, r.version = call[c].stamp,
               Images' \subseteq Images \cup {r}
        PROVE  VersionNamesImage'
    BY <2>2 DEF VersionNamesImage, StampsFresh, Images
  <2> QED BY <1>3, <2>1, <2>2, OneNewImage
<1> QED BY <1>1, <1>2, <1>3 DEF Next, Environment

IInv == /\ TypeOK /\ CallsWellFormed
        /\ NotAheadOfClock /\ StampsFresh /\ VersionNamesImage

LEMMA InitIInv == Init => IInv
BY DEF Init, IInv, TypeOK, Ended, Code, CallsWellFormed, NotAheadOfClock,
       StampsFresh, VersionNamesImage

LEMMA Inductive == ASSUME StampsAreReadings PROVE Spec => []IInv
<1>1. IInv /\ [Next]_vars => IInv'
  BY SetsAssumption, TypeStep, WellFormedStep, NotAheadStep, FreshStep, VersionStep
     DEF IInv, StampsAreReadings
<1> QED BY <1>1, InitIInv, PTL DEF Spec

(* A version that waits to be stored is nobody else's, whatever the other   *)
(* handlers do between the reading of the clock and the statement that       *)
(* stores it (write.go, emitAdd and emitPatch).                              *)
THEOREM StampsStayFresh ==
    ASSUME StampsAreReadings PROVE Spec => []StampsFresh
<1>1. IInv => StampsFresh
  BY DEF IInv
<1> QED BY <1>1, Inductive, PTL

(* On such a clock a version names one image in every reachable state, for  *)
(* any number of concurrent handlers (write.go, emitAdd and emitPatch).     *)
THEOREM VersionsNameImages ==
    ASSUME StampsAreReadings PROVE Spec => []VersionNamesImage
<1>1. IInv => VersionNamesImage
  BY DEF IInv
<1> QED BY <1>1, Inductive, PTL

(* On such a clock no update is lost: a Patch that is not forced replaces   *)
(* the image its caller named (write.go, emitPatch).                        *)
LEMMA SwapsNamedImage ==
    ASSUME IInv, [Next]_vars, NEW c \in Call, Writes(c), ~call[c].force
    PROVE  users \ users' = {call[c].base}
<1>1. SavePatch(c)
  <2>1. ~UNCHANGED vars
    BY DEF Writes, vars
  <2>2. ~Environment
    BY EnvironmentFrame DEF Writes, IInv
  <2>3. PICK d \in Call : Step(d)
    BY <2>1, <2>2 DEF Next, Environment
  <2>4. d = c
    BY <2>3, Frame DEF Writes, IInv
  <2> QED BY <2>3, <2>4 DEF Writes, Step, BeginAdd, BeginPatch, Idle, GetKey, Stamp, SaveAdd, Reply
<1>2. ASSUME NEW code \in Code, Answer(c, code) PROVE call'[c].pc = "ended"
  BY <1>2 DEF IInv, TypeOK, Answer
<1>3. PICK u \in Hit(c) : Replaces(c, u)
  BY <1>1, <1>2, SavePatchEffect DEF IInv, Writes
<1>4. u \in users /\ u.version = call[c].base.version
  BY DEF Hit, UserPick
<1>5. call[c].base \in seen
  BY DEF IInv, CallsWellFormed, Writes
<1>6. u = call[c].base
  BY <1>4, <1>5 DEF IInv, VersionNamesImage
<1>7. Patched(c, u).version = call[c].stamp /\ u.version # call[c].stamp
  BY <1>4 DEF IInv, TypeOK, Row, Patched, StampsFresh, Writes
<1> QED BY <1>3, <1>4, <1>6, <1>7 DEF Replaces

\* The row a Patch replaces is the image its caller named, however the handlers
\* interleave (write.go:272, the WHERE on the version).
THEOREM NoUpdateLost == ASSUME StampsAreReadings PROVE Spec => NoLostUpdate
<1>1. IInv /\ [Next]_vars
        => [\A c \in Call : Writes(c) /\ ~call[c].force
                             => users \ users' = {call[c].base}]_vars
  BY SwapsNamedImage
<1> QED BY <1>1, Inductive, PTL DEF Spec, NoLostUpdate

-----------------------------------------------------------------------------
(* What the unique indexes keep, and the direction versions move in.        *)

\* A step of a handler that changes the table inserts a row that collides
\* with none, or replaces a row by one that collides with none of the others.
LEMMA TableStep ==
    ASSUME TypeOK, NEW c \in Call, Step(c)
    PROVE  /\ tenants' = tenants
           /\ \/ users' = users
              \/ UniqueIn(NewRow(c), users) /\ users' = users \cup {NewRow(c)}
              \/ /\ call[c].pc = "save" /\ call[c].op = "patch"
                 /\ \E u \in Hit(c) : Replaces(c, u)
<1>1. CASE SavePatch(c)
  BY <1>1, SavePatchEffect
<1>2. CASE SaveAdd(c)
  BY <1>2 DEF SaveAdd
<1>3. CASE BeginAdd(c) \/ BeginPatch(c) \/ GetKey(c) \/ Stamp(c) \/ Reply(c)
  BY <1>3 DEF BeginAdd, BeginPatch, GetKey, Stamp, Reply
<1> QED BY <1>1, <1>2, <1>3 DEF Step

LEMMA UniqueStep ==
    ASSUME TypeOK, KeysUnique, [Next]_vars
    PROVE  KeysUnique'
<1>1. CASE UNCHANGED vars
  BY <1>1 DEF vars, KeysUnique
<1>2. CASE Environment
  <2>1. \A s, t \in tenants' : s # t => s.id # t.id /\ s.alias # t.alias
    <3>1. CASE TenantAdd
      BY <3>1 DEF TenantAdd, KeysUnique
    <3>2. CASE TenantPatch
      BY <3>2 DEF TenantPatch, KeysUnique, TypeOK, TenantRow
    <3>3. CASE TenantErase \/ Get \/ Erase \/ Tick
      BY <3>3 DEF TenantErase, Get, Erase, Tick, KeysUnique
    <3> QED BY <1>2, <3>1, <3>2, <3>3 DEF Environment
  <2> QED BY <1>2, <2>1, EnvironmentFrame DEF KeysUnique
<1>3. ASSUME NEW c \in Call, Step(c) PROVE KeysUnique'
  <2>1. CASE UniqueIn(NewRow(c), users) /\ users' = users \cup {NewRow(c)}
    BY <1>3, <2>1, TableStep DEF KeysUnique, UniqueIn, Collide
  <2>2. ASSUME NEW u \in Hit(c), Replaces(c, u) PROVE KeysUnique'
    BY <1>3, <2>2, TableStep DEF KeysUnique, Replaces, UniqueIn, Collide
  <2>3. CASE users' = users
    BY <1>3, <2>3, TableStep DEF KeysUnique
  <2> QED BY <1>3, <2>1, <2>2, <2>3, TableStep
<1> QED BY <1>1, <1>2, <1>3 DEF Next, Environment

\* What holds whatever the clock does, and what a steady clock adds.
TableInv == TypeOK /\ CallsWellFormed /\ KeysUnique

LEMMA TableInductive == Spec => []TableInv
<1>1. Init => TableInv
  BY DEF Init, TableInv, TypeOK, Ended, Code, CallsWellFormed, KeysUnique
<1>2. TableInv /\ [Next]_vars => TableInv'
  BY TypeStep, WellFormedStep, UniqueStep DEF TableInv
<1> QED BY <1>1, <1>2, PTL DEF Spec

ClockInv == TableInv /\ NotAheadOfClock

LEMMA ClockInductive == ASSUME SteadyClock PROVE Spec => []ClockInv
<1>1. Init => NotAheadOfClock
  BY DEF Init, NotAheadOfClock
<1>2. TableInv /\ NotAheadOfClock /\ [Next]_vars => NotAheadOfClock'
  BY NotAheadStep DEF TableInv
<1> QED BY <1>1, <1>2, TableInductive, PTL DEF Spec, ClockInv

\* Where no caller forces, no handler that runs does.
NothingForced == \A c \in Call : call[c].pc \in {"resolve", "stamp", "save"} => ~call[c].force

LEMMA NothingForcedStep ==
    ASSUME Forcing = {}, TypeOK, CallsWellFormed, NothingForced, [Next]_vars
    PROVE  NothingForced'
<1>1. CASE UNCHANGED vars
  BY <1>1 DEF vars, NothingForced
<1>2. CASE Environment
  BY <1>2, EnvironmentFrame DEF NothingForced
<1>3. ASSUME NEW c \in Call, Step(c), call'[c].pc \in {"resolve", "stamp", "save"}
      PROVE  ~call'[c].force
  <2>1. CASE BeginAdd(c)
    BY <1>3, <2>1 DEF BeginAdd, Answer, TypeOK
  <2>2. CASE BeginPatch(c)
    BY <1>3, <2>2 DEF BeginPatch, Answer, TypeOK
  <2>3. CASE GetKey(c)
    <3>1. call[c] \in Running /\ call[c].pc = "resolve"
      BY <2>3, RunningCalls DEF GetKey
    <3>2. ~\E code : Answer(c, code)
      BY <1>3 DEF Answer, TypeOK
    <3>3. PICK t : call' = [call EXCEPT ![c].pc = "stamp", ![c].tenant = t]
      BY <2>3, <3>2 DEF GetKey
    <3>4. call'[c].force = call[c].force
      BY <3>1, <3>3 DEF TypeOK, Running
    <3> QED BY <3>1, <3>4 DEF NothingForced
  <2>4. CASE Stamp(c)
    BY <2>4, RunningCalls DEF NothingForced, Stamp, Running, TypeOK
  <2>5. CASE SaveAdd(c) \/ Reply(c)
    BY <1>3, <2>5 DEF TypeOK, SaveAdd, Reply, Answer
  <2>6. CASE SavePatch(c)
    <3>1. ASSUME NEW u \in Hit(c), Replaces(c, u) PROVE call'[c].pc = "reply"
      BY <3>1 DEF TypeOK, Replaces
    <3>2. ASSUME NEW code \in Code, Answer(c, code) PROVE call'[c].pc = "ended"
      BY <3>2 DEF TypeOK, Answer
    <3> QED BY <1>3, <2>6, <3>1, <3>2, SavePatchEffect
  <2> QED BY <1>3, <2>1, <2>2, <2>3, <2>4, <2>5, <2>6 DEF Step
<1>4. ASSUME NEW c \in Call, Step(c) PROVE NothingForced'
  BY <1>3, <1>4, Frame DEF NothingForced
<1> QED BY <1>1, <1>2, <1>4 DEF Next, Environment

\* The only row with the key of the row replaced is that row, and the version
\* it had is the one the handler named before it read the clock.
LEMMA VersionsOnlyGrow ==
    ASSUME ClockInv, NothingForced, [Next]_vars,
           NEW r \in users, NEW s \in users', r.id = s.id
    PROVE  r.version <= s.version
<1>1. \A q \in users : q.version \in Nat /\ (q.id = r.id => q = r)
  BY DEF ClockInv, TableInv, TypeOK, Row, KeysUnique, Collide
<1>2. CASE s \in users
  BY <1>1, <1>2
<1>3. CASE s \notin users
  <2>1. PICK c \in Call : Step(c)
    BY <1>3, EnvironmentFrame DEF ClockInv, TableInv, Next, Environment, vars
  <2>2. CASE UniqueIn(NewRow(c), users) /\ users' = users \cup {NewRow(c)}
    BY <1>3, <2>2 DEF UniqueIn, Collide
  <2>3. ASSUME NEW u \in Hit(c), Replaces(c, u), call[c].pc = "save", call[c].op = "patch"
        PROVE  r.version <= s.version
    <3>1. u \in users /\ u.version = call[c].base.version
      BY <2>3 DEF Hit, UserPick, NothingForced
    <3>2. s = Patched(c, u)
      BY <1>3, <2>3 DEF Replaces
    <3>3. s.id = u.id /\ s.version = call[c].stamp
      BY <3>1, <3>2 DEF Patched, ClockInv, TableInv, TypeOK, Row
    <3>4. call[c].base.version <= call[c].stamp
      BY <2>3 DEF ClockInv, NotAheadOfClock, NothingForced
    <3> QED BY <1>1, <3>1, <3>3, <3>4
  <2> QED BY <1>3, <2>1, <2>2, <2>3, TableStep DEF ClockInv, TableInv
<1> QED BY <1>2, <1>3

LEMMA NothingForcedHolds == ASSUME Forcing = {} PROVE Spec => []NothingForced
<1>1. Init => NothingForced
  BY DEF Init, NothingForced
<1>2. TableInv /\ NothingForced /\ [Next]_vars => NothingForced'
  BY NothingForcedStep DEF TableInv
<1> QED BY <1>1, <1>2, TableInductive, PTL DEF Spec

(* Where nobody forces and the clock is never set back, the version of a    *)
(* row that stays never goes back, equal readings or not and however the    *)
(* handlers interleave (write.go, emitPatch).                               *)
THEOREM VersionsGoForward ==
    ASSUME SteadyClock, Forcing = {} PROVE Spec => VersionForward
<1>1. ClockInv /\ NothingForced /\ [Next]_vars
        => [\A r \in users, s \in users' : r.id = s.id => r.version <= s.version]_vars
  BY VersionsOnlyGrow
<1> QED BY <1>1, ClockInductive, NothingForcedHolds, PTL DEF Spec, VersionForward

-----------------------------------------------------------------------------
(* What a Patch by key answers.                                             *)

\* The row a Patch by key is to answer with is the one its reference names.
RepliesNameRows ==
    \A c \in Call : call[c].pc = "reply" /\ call[c].ref.by = "id" =>
                      call[c].wrote.id = call[c].ref.id

LEMMA RepliesNameRowsStep ==
    ASSUME TypeOK, RepliesNameRows, [Next]_vars PROVE RepliesNameRows'
<1>1. CASE UNCHANGED call
  BY <1>1 DEF RepliesNameRows
<1>2. ASSUME NEW c \in Call, Step(c), call'[c].pc = "reply", call'[c].ref.by = "id"
      PROVE  call'[c].wrote.id = call'[c].ref.id
  <2>1. CASE BeginAdd(c) \/ BeginPatch(c)
    BY <1>2, <2>1 DEF TypeOK, BeginAdd, BeginPatch, Answer
  <2>2. CASE GetKey(c)
    BY <1>2, <2>2, RunningCalls DEF TypeOK, GetKey, Answer, Running
  <2>3. CASE Stamp(c)
    BY <1>2, <2>3, RunningCalls DEF TypeOK, Stamp, Running
  <2>4. CASE SaveAdd(c) \/ Reply(c)
    BY <1>2, <2>4 DEF TypeOK, SaveAdd, Reply, Answer
  <2>5. CASE SavePatch(c)
    <3>1. ASSUME NEW code \in Code, Answer(c, code) PROVE FALSE
      BY <1>2, <3>1 DEF TypeOK, Answer
    <3>2. PICK u \in Hit(c) : Replaces(c, u)
      BY <2>5, <3>1, SavePatchEffect
    <3>3. call'[c] = [pc |-> "reply", ref |-> call[c].ref, wrote |-> Patched(c, u)]
      BY <3>2 DEF TypeOK, Replaces
    <3>4. u.id = call[c].ref.id
      BY <1>2, <3>2, <3>3 DEF Hit, UserPick
    <3>5. u \in Row /\ Patched(c, u).id = u.id
      BY <3>2 DEF Hit, UserPick, TypeOK, Row, Patched
    <3> QED BY <3>3, <3>4, <3>5
  <2> QED BY <1>2, <2>1, <2>2, <2>3, <2>4, <2>5 DEF Step
<1>3. ASSUME NEW c \in Call, Step(c) PROVE RepliesNameRows'
  BY <1>2, <1>3, Frame DEF RepliesNameRows
<1> QED BY <1>1, <1>3, EnvironmentFrame DEF Next, Environment, vars

\* AnswersPatchedRow, of references by key.
AnswersPatchedKey ==
    [][\A c \in Call :
         call[c].pc = "reply" /\ call'[c].pc = "ended" /\ call[c].ref.by = "id"
         /\ (\E u \in users : u.id = call[c].wrote.id)
         => \E u \in UserPick(call[c].ref) : u.id = call[c].wrote.id]_vars

(* A Patch by key answers the row it changed, whatever it changed of it, on any *)
(* clock and under force, as long as the row is there: what documentation says  *)
(* of every Patch is so of these (write.go:286, the Get by the request's ref).  *)
THEOREM KeysAreAnswered == Spec => AnswersPatchedKey
<1>1. Init => RepliesNameRows
  BY DEF Init, RepliesNameRows
<1>2. TypeOK /\ RepliesNameRows /\ [Next]_vars => RepliesNameRows'
  BY RepliesNameRowsStep
<1>3. TypeOK /\ RepliesNameRows /\ [Next]_vars
        => [\A c \in Call :
              call[c].pc = "reply" /\ call'[c].pc = "ended" /\ call[c].ref.by = "id"
              /\ (\E u \in users : u.id = call[c].wrote.id)
              => \E u \in UserPick(call[c].ref) : u.id = call[c].wrote.id]_vars
  BY DEF RepliesNameRows, UserPick
<1> QED BY <1>1, <1>2, <1>3, TypeCorrect, PTL DEF Spec, AnswersPatchedKey

=============================================================================
