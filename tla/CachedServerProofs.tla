-------------------------- MODULE CachedServerProofs --------------------------
(***************************************************************************)
(* Proofs about the server and the cache together, for every number of     *)
(* calls and of pending promises, however late and however often an answer  *)
(* is handed over.                                                          *)
(***************************************************************************)
EXTENDS CachedServer, EntServerProofs

allVars == <<vars, cacheVars>>

-----------------------------------------------------------------------------
(* The two halves keep to their own specifications.                         *)

\* A step of the whole is one of the server or none, and one of the cache or none.
LEMMA StepOfEach ==
    ASSUME [CachedNext]_allVars
    PROVE  /\ [Next]_vars
           /\ \/ UNCHANGED cacheVars
              \/ /\ UNCHANGED vars
                 /\ \E w \in Worker :
                      CacheWork(w) \/ \E u \in seen : \E m \in Handed(u) : Deliver(w, u, m)
<1>1. CASE UNCHANGED allVars
  BY <1>1 DEF allVars
<1>2. CASE ServerNext
  BY <1>2 DEF ServerNext, Next
<1>3. CASE \E w \in Worker :
             CacheWork(w) \/ \E u \in seen : \E m \in Handed(u) : Deliver(w, u, m)
  BY <1>3 DEF CacheWork, Deliver
<1> QED BY <1>1, <1>2, <1>3 DEF CachedNext

\* With a cache beside it the server is still the server (nothing in db.ts writes
\* to it), so that all that is proved of EntServer holds of the two together.
THEOREM ServerUndisturbed == CachedSpec => Spec
<1>1. CachedInit => Init
  BY DEF CachedInit
<1>2. [CachedNext]_allVars => [Next]_vars
  BY StepOfEach
<1> QED BY <1>1, <1>2, PTL DEF CachedSpec, Spec, allVars

-----------------------------------------------------------------------------
(* What is in the cache, or on its way there, was answered by the server.   *)

Copies == UNION {Handed(u) : u \in seen}

HoldsAnswers ==
    /\ table \subseteq Copies
    /\ \A w \in Worker : job[w].pc # "idle" => job[w].v \in Copies

CacheInv == Cache!TypeOK /\ HoldsAnswers

\* What the cache is handed of an image: its key, and of the rest what was told.
LEMMA HandedTells ==
    ASSUME NEW u, NEW m \in Handed(u)
    PROVE  m.key = u.id /\ m.version \in {u.version, ZeroTime}
BY DEF Handed, Column

LEMMA CopyTyped ==
    ASSUME TypeOK, NEW u \in seen, NEW m \in Handed(u)
    PROVE  m \in Cache!Image /\ m \in Copies
<1>1. u \in Row
  BY DEF TypeOK
<1>2. /\ {u.id} \subseteq Id /\ Column("alias", u.alias, Empty) \X {u.tenant} \subseteq (Alias \cup {Empty}) \X TenantId
      /\ Column("name", u.name, Empty) \subseteq Name \cup {Empty} /\ Column("version", u.version, ZeroTime) \subseteq Nat
  BY <1>1 DEF Row, Column, ZeroTime
<1>3. m \in Cache!Image
  BY <1>2 DEF Handed, Cache!Image
<1> QED BY <1>3 DEF Copies

\* What a transaction does: put its message, or nothing.
LEMMA TransactionEffect ==
    ASSUME CacheInv, NEW w \in Worker, Cache!Reconcile(w) \/ Cache!Insert(w)
    PROVE  /\ job[w].v \in Copies /\ job[w].v \in Cache!Image
           /\ job[w].op \in {"reconcile", "insert"}
           /\ \E ok \in {"true", "false", "error"} :
                job' = [job EXCEPT ![w] =
                     [pc |-> "committed", op |-> job[w].op, v |-> job[w].v, ok |-> ok]]
           /\ \/ table' = table
              \/ table' = (table \ Cache!Stored(job[w].v.key)) \cup {job[w].v}
<1>1. job[w] \in Cache!Dehydrated
  BY DEF CacheInv, Cache!TypeOK, Cache!Idle, Cache!Dehydrated, Cache!Committed,
         Cache!Reconcile, Cache!Insert
<1>2. job[w].v \in Copies
  BY <1>1 DEF CacheInv, HoldsAnswers, Cache!Dehydrated
<1> QED BY <1>1, <1>2 DEF Cache!Reconcile, Cache!Insert, Cache!Put, Cache!Commit, Cache!Dehydrated

LEMMA CacheInvStep ==
    ASSUME TypeOK, CacheInv, [CachedNext]_allVars
    PROVE  CacheInv'
<1>1. CASE UNCHANGED cacheVars
  <2>1. [Next]_vars
    BY StepOfEach
  <2>2. seen \subseteq seen'
    <3>1. CASE UNCHANGED vars
      BY <3>1 DEF vars
    <3>2. CASE Environment
      BY <3>2, EnvironmentFrame
    <3>3. ASSUME NEW c \in Call, Step(c) PROVE seen \subseteq seen'
      BY <3>3, Frame
    <3> QED BY <2>1, <3>1, <3>2, <3>3 DEF Next, Environment
  <2>3. Copies \subseteq Copies'
    BY <2>2 DEF Copies, Handed, Column
  <2> QED BY <1>1, <2>3 DEF cacheVars, CacheInv, HoldsAnswers, Cache!TypeOK
<1>2. ASSUME UNCHANGED vars, NEW w \in Worker, NEW u \in seen, NEW m \in Handed(u),
             Deliver(w, u, m)
      PROVE  CacheInv'
  <2>1. m \in Copies /\ m \in Cache!Image
    BY CopyTyped
  <2>2. job' = [job EXCEPT ![w] = [pc |-> "dehydrated", op |-> "reconcile", v |-> m]]
        /\ table' = table
    BY <1>2 DEF Deliver, Cache!Begin
  <2>3. Copies' = Copies
    BY <1>2 DEF Copies, Handed, Column, vars
  <2>4. [pc |-> "dehydrated", op |-> "reconcile", v |-> m] \in Cache!Dehydrated
    BY <2>1 DEF Cache!Dehydrated
  <2>5. Cache!TypeOK'
    BY <2>2, <2>4 DEF CacheInv, Cache!TypeOK
  <2> QED BY <2>1, <2>2, <2>3, <2>5 DEF CacheInv, HoldsAnswers, Cache!TypeOK
<1>3. ASSUME UNCHANGED vars, NEW w \in Worker, CacheWork(w)
      PROVE  CacheInv'
  <2>1. Copies' = Copies
    BY <1>3 DEF Copies, Handed, Column, vars
  <2>2. CASE Cache!Resolve(w)
    <3>1. [pc |-> "idle"] \in Cache!Idle
      BY DEF Cache!Idle
    <3>2. Cache!TypeOK'
      BY <2>2, <3>1 DEF Cache!Resolve, CacheInv, Cache!TypeOK
    <3> QED BY <2>1, <2>2, <3>2 DEF Cache!Resolve, CacheInv, HoldsAnswers, Cache!TypeOK
  <2>3. CASE Cache!Reconcile(w) \/ Cache!Insert(w)
    <3>1. PICK ok \in {"true", "false", "error"} :
            job' = [job EXCEPT ![w] =
                     [pc |-> "committed", op |-> job[w].op, v |-> job[w].v, ok |-> ok]]
      BY <2>3, TransactionEffect
    <3>2. [pc |-> "committed", op |-> job[w].op, v |-> job[w].v, ok |-> ok] \in Cache!Committed
      BY <2>3, TransactionEffect DEF Cache!Committed
    <3>3. job' \in [Worker -> Cache!Idle \cup Cache!Dehydrated \cup Cache!Committed]
      BY <3>1, <3>2 DEF CacheInv, Cache!TypeOK
    <3>4. table' \subseteq Cache!Image /\ table' \subseteq Copies
          /\ \A r, s \in table' : r.key = s.key => r = s
      BY <2>3, TransactionEffect DEF CacheInv, Cache!TypeOK, HoldsAnswers, Cache!Stored
    <3>5. \A v \in Worker : job'[v].pc # "idle" => job'[v].v \in Copies
      BY <2>3, <3>1, TransactionEffect DEF CacheInv, Cache!TypeOK, HoldsAnswers
    <3> QED BY <2>1, <3>3, <3>4, <3>5 DEF CacheInv, Cache!TypeOK, HoldsAnswers
  <2> QED BY <1>3, <2>2, <2>3 DEF CacheWork, Cache!Work
<1> QED BY <1>1, <1>2, <1>3, StepOfEach

LEMMA CacheInvHolds == CachedSpec => []CacheInv
<1>1. CachedInit => CacheInv
  BY DEF CachedInit, Cache!Init, CacheInv, Cache!TypeOK, HoldsAnswers, Cache!Idle
<1>2. TypeOK /\ CacheInv /\ [CachedNext]_allVars => CacheInv'
  BY CacheInvStep
<1> QED BY <1>1, <1>2, ServerUndisturbed, TypeCorrect, PTL DEF CachedSpec, allVars

(* Behind a server the cache is a TableBase: what TableBaseProofs shows of   *)
(* any sequence of messages holds of the server's answers (db.ts).          *)
THEOREM CacheIsTableBase == CachedSpec => Cache!Spec
<1>1. CachedInit => Cache!Init
  BY DEF CachedInit
<1>2. TypeOK /\ [CachedNext]_allVars => [Cache!Next]_cacheVars
  <2> SUFFICES ASSUME TypeOK, [CachedNext]_allVars, ~UNCHANGED cacheVars
               PROVE  Cache!Next
    OBVIOUS
  <2>1. PICK w \in Worker :
          CacheWork(w) \/ \E u \in seen : \E m \in Handed(u) : Deliver(w, u, m)
    BY StepOfEach
  <2> QED BY <2>1, CopyTyped DEF CacheWork, Deliver, Cache!Next
<1> QED BY <1>1, <1>2, ServerUndisturbed, TypeCorrect, PTL
        DEF CachedSpec, allVars, Cache!Spec, Cache!vars, cacheVars

-----------------------------------------------------------------------------
(* Equal versions.                                                          *)

\* A reading of the clock is later than the time that stands for none.
StampsAreTimes ==
    /\ \A r \in Images : r.version > ZeroTime
    /\ \A c \in Call : call[c].pc = "save" => call[c].stamp > ZeroTime

LEMMA StampsAreTimesStep ==
    ASSUME StampsAreReadings, IInv, StampsAreTimes, [Next]_vars
    PROVE  StampsAreTimes'
<1>1. CASE UNCHANGED vars
  BY <1>1 DEF vars, StampsAreTimes, Images
<1>2. CASE Environment
  BY <1>2, EnvironmentFrame DEF StampsAreTimes, Images, IInv
<1>3. ASSUME NEW c \in Call, Step(c) PROVE StampsAreTimes'
  <2>1. \A r \in Images' : r.version > ZeroTime
    BY <1>3, OneNewImage DEF StampsAreTimes, IInv
  <2>2. ASSUME call'[c].pc = "save" PROVE call'[c].stamp > ZeroTime
    <3>1. Stamp(c)
      BY <1>3, <2>2, OnlyStampLeadsToSave DEF IInv
    <3>2. call[c].pc = "stamp" /\ (call[c].force => call[c].base = Absent)
      BY <3>1 DEF Stamp, IInv, StampsFresh
    <3>3. call'[c].stamp = clock + 1 /\ clock \in Nat
      BY <3>1, <3>2, StampEffect DEF StampsAreReadings, IInv, TypeOK
    <3> QED BY <3>3 DEF ZeroTime
  <2> QED BY <1>3, <2>1, <2>2, Frame DEF StampsAreTimes, IInv
<1> QED BY <1>1, <1>2, <1>3 DEF Next, Environment

LEMMA StampsAreTimesHolds == ASSUME StampsAreReadings PROVE Spec => [](IInv /\ StampsAreTimes)
<1>1. Init => StampsAreTimes
  BY DEF Init, StampsAreTimes, Images
<1>2. IInv /\ StampsAreTimes /\ [Next]_vars => StampsAreTimes'
  BY StampsAreTimesStep
<1> QED BY <1>1, <1>2, Inductive, PTL DEF Spec

(* A cached row with the version of the stored one is the stored one, as    *)
(* much of it as was selected, in every state, erased and added again or    *)
(* not, as long as stamps are readings of a clock that never repeats one    *)
(* (target/ts/entity.go, emitVersioned, against write.go).                  *)
THEOREM EqualVersionsEqualRows ==
    ASSUME StampsAreReadings PROVE CachedSpec => []SameVersionSameRow
<1>1. ASSUME IInv, StampsAreTimes, CacheInv PROVE SameVersionSameRow
  <2> SUFFICES ASSUME NEW u \in users, NEW r \in table, r.version = u.version
               PROVE  r \in Handed(u)
    BY DEF SameVersionSameRow
  <2>1. PICK s \in seen : r \in Handed(s)
    BY <1>1 DEF CacheInv, HoldsAnswers, Copies
  <2>2. u.version > ZeroTime /\ ~(ZeroTime > ZeroTime)
    BY <1>1 DEF StampsAreTimes, Images, ZeroTime
  <2>3. r.version = s.version
    BY <2>1, <2>2, HandedTells
  <2>4. s = u
    BY <1>1, <2>3 DEF IInv, VersionNamesImage
  <2> QED BY <2>1, <2>4
<1> QED BY <1>1, ServerUndisturbed, StampsAreTimesHolds, CacheInvHolds, PTL

-----------------------------------------------------------------------------
(* Later versions, where nobody forces one, rows are not erased and the     *)
(* clock is never set back.                                                 *)

RowsStay == Forcing = {} /\ ~Erasing /\ SteadyClock

\* What was answered has a row, which is at least as new.
AnswersHaveRows ==
    \A s \in seen : \E u \in users : u.id = s.id /\ s.version <= u.version

\* Without Erase a step keeps the rows, each or its successor, and answers what
\* is in the table it leaves.
LEMMA ServerKeepsRows ==
    ASSUME RowsStay, TypeOK, [CachedNext]_allVars
    PROVE  /\ \A r \in users : \E s \in users' : s.id = r.id
           /\ seen' \subseteq seen \cup users'
<1>1. CASE UNCHANGED vars
  BY <1>1 DEF vars
<1>2. CASE Get \/ Tick \/ TenantAdd \/ TenantPatch \/ TenantErase
  BY <1>2 DEF Get, Tick, TenantAdd, TenantPatch, TenantErase, UserPick
<1>3. ASSUME NEW c \in Call, Step(c)
      PROVE  /\ \A r \in users : \E s \in users' : s.id = r.id
             /\ seen' \subseteq seen \cup users'
  <2>1. CASE SaveAdd(c)
    BY <2>1 DEF SaveAdd
  <2>2. CASE SavePatch(c)
    <3>1. ASSUME NEW u \in Hit(c), Replaces(c, u)
          PROVE  \A r \in users : \E s \in users' : s.id = r.id
      <4>1. u \in users /\ Patched(c, u).id = u.id
        BY DEF Hit, UserPick, Patched, TypeOK, Row
      <4> QED BY <3>1, <4>1 DEF Replaces
    <3> QED BY <2>2, <3>1, SavePatchEffect
  <2>3. CASE BeginAdd(c) \/ BeginPatch(c) \/ GetKey(c) \/ Stamp(c) \/ Reply(c)
    BY <2>3 DEF BeginAdd, BeginPatch, GetKey, Stamp, Reply, UserPick
  <2> QED BY <1>3, <2>1, <2>2, <2>3 DEF Step
<1>4. ~Erasing
  BY DEF RowsStay
<1> QED BY <1>1, <1>2, <1>3, <1>4 DEF CachedNext, ServerNext, CacheWork, Deliver, allVars, vars

LEMMA AnswersHaveRowsStep ==
    ASSUME RowsStay, ClockInv, NothingForced, AnswersHaveRows, [CachedNext]_allVars
    PROVE  AnswersHaveRows'
<1>1. TypeOK /\ TypeOK' /\ [Next]_vars
  BY StepOfEach, TypeStep DEF ClockInv, TableInv
<1>2. \A r \in users, s \in users' : r.id = s.id => r.version <= s.version
  BY <1>1, VersionsOnlyGrow
<1>3. \A s \in seen : \E u \in users' : u.id = s.id /\ s.version <= u.version
  <2> SUFFICES ASSUME NEW s \in seen
               PROVE  \E u \in users' : u.id = s.id /\ s.version <= u.version
    OBVIOUS
  <2>1. PICK r \in users : r.id = s.id /\ s.version <= r.version
    BY DEF AnswersHaveRows
  <2>2. PICK u \in users' : u.id = r.id
    BY <1>1, ServerKeepsRows
  <2>3. s.version \in Nat /\ r.version \in Nat /\ u.version \in Nat
    BY <1>1 DEF TypeOK, Row
  <2> QED BY <1>2, <2>1, <2>2, <2>3
<1>4. \A u \in users' : u.version <= u.version
  BY <1>1 DEF TypeOK, Row
<1> QED BY <1>1, <1>3, <1>4, ServerKeepsRows DEF AnswersHaveRows

LEMMA AnswersHaveRowsHolds ==
    ASSUME RowsStay PROVE CachedSpec => [](ClockInv /\ NothingForced /\ AnswersHaveRows)
<1>1. CachedInit => AnswersHaveRows
  BY DEF CachedInit, Init, AnswersHaveRows
<1>2. ClockInv /\ NothingForced /\ AnswersHaveRows /\ [CachedNext]_allVars => AnswersHaveRows'
  BY AnswersHaveRowsStep
<1>3. Forcing = {} /\ SteadyClock
  BY DEF RowsStay
<1>4. Spec => [](ClockInv /\ NothingForced)
  BY <1>3, ClockInductive, NothingForcedHolds, PTL
<1> QED BY <1>1, <1>2, <1>4, ServerUndisturbed, PTL DEF CachedSpec, allVars

\* By the unique index on the key, the row that bounds an answer is the row.
LEMMA CopiesNotAhead ==
    ASSUME ClockInv, AnswersHaveRows, NEW u \in users, NEW r \in Copies, r.key = u.id
    PROVE  r.version <= u.version /\ r.version \in Nat /\ u.version \in Nat
<1>1. PICK s \in seen : r \in Handed(s)
  BY DEF Copies
<1>2. s.id = u.id /\ r.version \in {s.version, ZeroTime}
  BY <1>1, HandedTells
<1>3. s.version \in Nat /\ u.version \in Nat /\ s.version <= u.version
  BY <1>2 DEF ClockInv, TableInv, TypeOK, Row, KeysUnique, Collide, AnswersHaveRows
<1> QED BY <1>2, <1>3 DEF ZeroTime

(* Whatever order answers arrive in and however often, the cache never has   *)
(* a later version than the server, equal readings of the clock or not: no   *)
(* answer makes _reconcile decline the current row for a newer one (db.ts,   *)
(* against write.go, emitPatch).                                             *)
THEOREM CacheStaysBehind == ASSUME RowsStay PROVE CachedSpec => []CacheNotAhead
<1>1. CacheInv /\ ClockInv /\ AnswersHaveRows => CacheNotAhead
  BY CopiesNotAhead DEF CacheInv, HoldsAnswers, CacheNotAhead
<1> QED BY <1>1, CacheInvHolds, AnswersHaveRowsHolds, PTL

-----------------------------------------------------------------------------
(* The two halves of CacheConverges that need no fairness.                  *)

(* Once the current row, or the part of it a Get had selected, is in the     *)
(* cache it stays there until the server writes another: no late answer and  *)
(* no other caller puts it out.                                              *)
CurrentRowStays ==
    [][\A u \in users \cap users' : \A r \in table \cap Handed(u) :
         r.version = u.version => r \in table']_allVars

LEMMA CurrentRowStep ==
    ASSUME TypeOK, CacheInv, ClockInv, AnswersHaveRows, [CachedNext]_allVars,
           NEW u \in users, NEW r \in table \cap Handed(u), r.version = u.version
    PROVE  r \in table'
<1>1. CASE table' = table
  BY <1>1
<1>2. CASE table' # table
  <2>1. PICK w \in Worker : Cache!Reconcile(w) \/ Cache!Insert(w)
    BY <1>2, StepOfEach DEF CacheWork, Deliver, cacheVars, Cache!Work, Cache!Begin, Cache!Resolve
  <2> DEFINE v == job[w].v
  <2>2. v \in Copies /\ table' = (table \ Cache!Stored(v.key)) \cup {v}
    BY <1>2, <2>1, TransactionEffect
  <2>3. CASE v.key # u.id
    BY <2>2, <2>3, HandedTells DEF Cache!Stored
  <2>4. CASE v.key = u.id
    <3>1. r \in Cache!Stored(v.key)
      BY <2>4, HandedTells DEF Cache!Stored
    <3>2. v.version <= u.version /\ v.version \in Nat /\ u.version \in Nat
      BY <2>2, <2>4, CopiesNotAhead
    <3>3. Cache!Compare(r, v) >= 0
      BY <3>2, CacheAssumption DEF Cache!Compare
    <3>4. table' = table
      BY <2>1, <3>1, <3>3 DEF Cache!Reconcile, Cache!Insert, Cache!Commit
    <3> QED BY <1>2, <3>4
  <2> QED BY <2>3, <2>4
<1> QED BY <1>1, <1>2

(* Once the cache has the row the server has, no late answer takes it away as  *)
(* long as the server keeps it (db.ts:144, _reconcile).                        *)
THEOREM CurrentRowsStay == ASSUME RowsStay PROVE CachedSpec => CurrentRowStays
<1>1. TypeOK /\ CacheInv /\ ClockInv /\ AnswersHaveRows /\ [CachedNext]_allVars
        => [\A u \in users \cap users' : \A r \in table \cap Handed(u) :
              r.version = u.version => r \in table']_allVars
  BY CurrentRowStep
<1> QED BY <1>1, ServerUndisturbed, TypeCorrect, CacheInvHolds, AnswersHaveRowsHolds, PTL
        DEF CachedSpec, allVars, CurrentRowStays

-----------------------------------------------------------------------------
(* What a caller of _reconcile is told.                                     *)

TableProofs == INSTANCE TableBaseProofs
    WITH Key <- Id, Slug <- (Alias \cup {Empty}) \X TenantId, Body <- Name \cup {Empty},
         Version <- Nat, Unset <- Absent, Versioned <- TRUE

\* An application that was told `true' or `false' of the current row has it in
\* the cache, as much of it as some answer held, whatever was answered and
\* delivered in between.
ToldIsCurrent ==
    \A u \in users, w \in Worker :
      /\ job[w].pc = "committed" /\ job[w].ok # "error"
      /\ job[w].v \in Handed(u) /\ job[w].v.version = u.version
      => \E r \in table \cap Handed(u) : r.version = u.version

\* TableBase and the module that proves about it are instantiated alike.
LEMMA SameTable == Cache!Spec => TableProofs!Spec
<1>1. Cache!Init => TableProofs!Init
  BY DEF Cache!Init, TableProofs!Init
<1>2. ASSUME NEW w \in Worker
      PROVE  /\ Cache!Work(w) => TableProofs!Work(w)
             /\ \A op \in {"reconcile", "insert"}, v \in Cache!Image :
                  /\ v \in TableProofs!Image
                  /\ Cache!Begin(w, op, v) => TableProofs!Begin(w, op, v)
  <2>1. Cache!Image = TableProofs!Image
    BY DEF Cache!Image, TableProofs!Image
  <2>2. \A a, b : Cache!Compare(a, b) = TableProofs!Compare(a, b)
    BY DEF Cache!Compare, TableProofs!Compare
  <2>3. \A v : Cache!Blocked(v) <=> TableProofs!Blocked(v)
    BY DEF Cache!Blocked, TableProofs!Blocked
  <2>4. \A k : Cache!Stored(k) = TableProofs!Stored(k)
    BY DEF Cache!Stored, TableProofs!Stored
  <2>5. Cache!Put(w) => TableProofs!Put(w)
    BY <2>3, <2>4 DEF Cache!Put, TableProofs!Put, Cache!Commit, TableProofs!Commit
  <2>6. Cache!Work(w) => TableProofs!Work(w)
    BY <2>2, <2>4, <2>5 DEF Cache!Work, TableProofs!Work, Cache!Reconcile, TableProofs!Reconcile,
       Cache!Insert, TableProofs!Insert, Cache!Resolve, TableProofs!Resolve,
       Cache!Commit, TableProofs!Commit
  <2> QED BY <2>1, <2>6 DEF Cache!Begin, TableProofs!Begin
<1>3. [Cache!Next]_Cache!vars => [TableProofs!Next]_TableProofs!vars
  BY <1>2 DEF Cache!Next, TableProofs!Next, Cache!vars, TableProofs!vars
<1> QED BY <1>1, <1>3, PTL DEF Cache!Spec, TableProofs!Spec

LEMMA CacheAnswersBound == CachedSpec => []TableProofs!AnswerBounds
<1>1. TableProofs!EveryMessageVersioned
  BY CacheAssumption DEF TableProofs!EveryMessageVersioned
<1>2. TableProofs!Spec => []TableProofs!AnswerBounds
  BY <1>1, CacheAssumption, TableProofs!AnswersBound
<1> QED BY <1>2, CacheIsTableBase, SameTable, PTL

(* What a caller of _reconcile is told may be relied on: `true' and `false'  *)
(* of the current row both mean that the cache has that version of it when   *)
(* the promise resolves (db.ts:117, what _reconcile returns).                *)
THEOREM ToldOfCurrentRow ==
    ASSUME RowsStay, FineClock PROVE CachedSpec => []ToldIsCurrent
<1>1. StampsAreReadings
  BY DEF RowsStay, StampsAreReadings
<1>2. /\ CacheInv /\ ClockInv /\ AnswersHaveRows /\ SameVersionSameRow /\ TableProofs!AnswerBounds
      => ToldIsCurrent
  <2> SUFFICES ASSUME CacheInv, ClockInv, AnswersHaveRows, SameVersionSameRow,
                      TableProofs!AnswerBounds, NEW u \in users, NEW w \in Worker,
                      job[w].pc = "committed", job[w].ok # "error",
                      job[w].v \in Handed(u), job[w].v.version = u.version
               PROVE  \E r \in table \cap Handed(u) : r.version = u.version
    BY DEF ToldIsCurrent
  <2>1. PICK r \in table : /\ r.key = job[w].v.key
                           /\ r = job[w].v \/ ~TableProofs!Newer(job[w].v, r)
    BY DEF TableProofs!AnswerBounds
  <2>2. r.key = u.id
    BY <2>1, HandedTells
  <2>3. r.version <= u.version /\ r.version \in Nat /\ u.version \in Nat
    BY <2>2, CopiesNotAhead DEF CacheInv, HoldsAnswers
  <2>4. r.version = u.version
    BY <2>1, <2>3, CacheAssumption DEF TableProofs!Newer
  <2> QED BY <2>2, <2>4 DEF SameVersionSameRow
<1> QED BY <1>1, <1>2, EqualVersionsEqualRows, CacheInvHolds, AnswersHaveRowsHolds,
           CacheAnswersBound, PTL

=============================================================================
