------------------------- MODULE EntServerRefinement -------------------------
(***************************************************************************)
(* EntServer implements OptimisticStore: each statement of a handler is a   *)
(* step of the abstract store or changes nothing it shows.                  *)
(***************************************************************************)
EXTENDS EntServerProofs

\* The refinement mapping.
store == {BodyOf(u) : u \in users}

plan == [c \in Call |-> PlanOf(c)]

\* Where only handler c moves, only its plan may change.
LEMMA PlanFrame ==
    ASSUME TypeOK, NEW c \in Call, Step(c)
    PROVE  plan' = [plan EXCEPT ![c] = PlanOf(c)']
<1>1. \A d \in Call \ {c} : PlanOf(d)' = PlanOf(d)
  BY Frame DEF PlanOf
<1> QED BY <1>1 DEF plan

\* Bodies are typed, and one key has one of them.
LEMMA StoreTyped ==
    ASSUME TypeOK, KeysUnique
    PROVE  /\ \A u \in Row : BodyOf(u) \in Body /\ BodyOf(u).id = u.id
           /\ \A u \in users : BodyOf(u) \in store
           /\ \A b \in store : \E u \in users : b = BodyOf(u)
           /\ \A u, v \in users : u.id = v.id => u = v
BY DEF TypeOK, KeysUnique, Collide, BodyOf, Body, Row, store

\* What the abstract store does when a handler replaces row u by row r.
LEMMA StoreReplaced ==
    ASSUME TypeOK, KeysUnique, NEW u \in users, NEW r \in Row, r.id = u.id,
           users' = (users \ {u}) \cup {r}
    PROVE  /\ store' = (store \ {BodyOf(u)}) \cup {BodyOf(r)}
           /\ store' = {b \in store : b.id # BodyOf(r).id} \cup {BodyOf(r)}
<1>1. store' = {BodyOf(v) : v \in (users \ {u}) \cup {r}}
  BY DEF store, BodyOf
<1>2. u \in Row /\ \A v \in users \ {u} : v \in Row /\ v.id # u.id
  BY DEF TypeOK, KeysUnique, Collide
<1>3. \A v \in users \ {u} : BodyOf(v).id # BodyOf(u).id /\ BodyOf(v) # BodyOf(u)
  BY <1>2, StoreTyped
<1>4. BodyOf(u).id = BodyOf(r).id
  BY <1>2, StoreTyped
<1> QED BY <1>1, <1>3, <1>4 DEF store

\* A reference picks at most one row.
LEMMA PicksOne ==
    ASSUME TypeOK, KeysUnique, NEW ref \in UserRef,
           NEW u \in UserPick(ref), NEW v \in UserPick(ref)
    PROVE  u = v
<1>0. u \in users /\ v \in users /\ u \in Row /\ v \in Row
  BY DEF TypeOK, UserPick
<1>1. CASE ref.by = "id"
  BY <1>0, <1>1 DEF UserPick, KeysUnique, Collide
<1>2. CASE ref.by # "id"
  <2>1. \A s, t \in TenantPick(ref.tenant) : s = t
    BY DEF TenantPick, KeysUnique
  <2>2. u.alias = v.alias /\ u.tenant = v.tenant
    BY <1>2, <2>1 DEF UserPick
  <2> QED BY <1>0, <2>2 DEF KeysUnique, Collide
<1> QED BY <1>1, <1>2

\* A handler's statement, seen through the mapping.
LEMMA HandlerMaps ==
    ASSUME IInv, KeysUnique, NEW c \in Call, Step(c)
    PROVE  \/ Promise!Plan(c) \/ Promise!Swap(c) \/ Promise!Put(c) \/ Promise!GiveUp(c)
           \/ store' = store /\ plan' = plan
<1> USE DEF IInv
<1>1. plan' = [plan EXCEPT ![c] = PlanOf(c)'] /\ plan[c] = PlanOf(c) /\ plan = [plan EXCEPT ![c] = PlanOf(c)]
  BY PlanFrame DEF plan
\* A handler that ends without a write gives its plan up, or had none.
<1>2. ASSUME users' = users, PlanOf(c)' = Absent
      PROVE  Promise!GiveUp(c) \/ (store' = store /\ plan' = plan)
  <2>1. store' = store
    BY <1>2 DEF store
  <2> QED BY <1>1, <1>2, <2>1 DEF Promise!GiveUp, store, plan
<1>3. ASSUME NEW code, Answer(c, code) PROVE PlanOf(c)' = Absent
  BY <1>3 DEF Answer, PlanOf, TypeOK
\* One that goes on keeps it.
<1>4. ASSUME users' = users, PlanOf(c)' = PlanOf(c)
      PROVE  store' = store /\ plan' = plan
  BY <1>1, <1>4 DEF store
<1>5. CASE BeginAdd(c)
  <2>1. PlanOf(c) = Absent /\ users' = users /\ store' = store
    BY <1>5 DEF BeginAdd, Idle, PlanOf, store
  <2>2. CASE Answer(c, "InvalidArgument")
    BY <1>2, <1>3, <2>1, <2>2
  <2>3. CASE ~Answer(c, "InvalidArgument")
    <3>1. PlanOf(c)' = [kind |-> "free"]
      BY <1>5, <2>3 DEF BeginAdd, PlanOf, TypeOK
    <3> QED BY <1>1, <2>1, <3>1 DEF Promise!Plan, Promise!FreePlan, store, plan
  <2> QED BY <2>2, <2>3
<1>6. CASE BeginPatch(c)
  <2>1. PlanOf(c) = Absent /\ users' = users /\ store' = store
    BY <1>6 DEF BeginPatch, Idle, PlanOf, store
  <2>2. CASE Answer(c, "InvalidArgument")
    BY <1>2, <1>3, <2>1, <2>2
  <2>3. CASE ~Answer(c, "InvalidArgument")
    <3>1. PICK ref \in {r \in UserRef : r.by \in RefKinds},
               base \in seen \cup {Absent}, force \in BOOLEAN,
               a \in Alias \cup {Absent}, n \in Name \cup {Absent},
               tref \in TenantRef \cup {Absent} :
            /\ base # Absent \/ force
            /\ force => IF base = Absent THEN "stamp" \in Forcing ELSE "supply" \in Forcing
            /\ call' = [call EXCEPT ![c] =
                 [pc |-> IF tref = Absent THEN "stamp" ELSE "resolve",
                  op |-> "patch", ref |-> ref, base |-> base, force |-> force,
                  alias |-> a, name |-> n, tref |-> tref,
                  tenant |-> Absent, stamp |-> 0]]
      BY <1>6, <2>3 DEF BeginPatch
    <3>2. PlanOf(c)' = IF ~force THEN [kind |-> "swap", old |-> BodyOf(base)]
                       ELSE [kind |-> "free"]
      BY <3>1 DEF PlanOf, TypeOK, BodyOf
    <3>3. ~force => BodyOf(base) \in Body
      BY <3>1, StoreTyped DEF TypeOK
    <3>4. PlanOf(c)' \in Promise!SwapPlan \cup Promise!FreePlan
      BY <3>2, <3>3 DEF Promise!SwapPlan, Promise!FreePlan
    <3> QED BY <1>1, <2>1, <3>4 DEF Promise!Plan, store, plan
  <2> QED BY <2>2, <2>3
<1>7. CASE GetKey(c)
  <2>1. call[c] \in Running /\ call[c].pc = "resolve" /\ users' = users
    BY <1>7, RunningCalls DEF GetKey
  <2>2. CASE \E code : Answer(c, code)
    BY <1>2, <1>3, <2>1, <2>2
  <2>3. ASSUME NEW t, call' = [call EXCEPT ![c].pc = "stamp", ![c].tenant = t]
        PROVE  PlanOf(c)' = PlanOf(c)
    <3>1. call'[c].pc = "stamp" /\ call'[c].op = call[c].op /\ call'[c].base = call[c].base
      BY <2>1, <2>3 DEF TypeOK, Running
    <3>2. call'[c].force = call[c].force
      BY <2>1, <2>3 DEF TypeOK, Running
    <3> QED BY <2>1, <3>1, <3>2 DEF PlanOf, BodyOf
  <2> QED BY <1>4, <1>7, <2>1, <2>2, <2>3 DEF GetKey
<1>8. CASE Stamp(c)
  <2>1. call[c].pc = "stamp" /\ call'[c].pc = "save" /\ call'[c].op = call[c].op
        /\ call'[c].base = call[c].base /\ users' = users
    BY <1>8, StampEffect
  <2>2. call'[c].force = call[c].force
    BY <1>8, StampEffect
  <2>3. PlanOf(c)' = PlanOf(c)
    BY <2>1, <2>2 DEF PlanOf, BodyOf
  <2> QED BY <1>4, <2>1, <2>3
<1>9. CASE SaveAdd(c)
  <2>1. CASE users' = users
    <3>1. \E code : Answer(c, code)
      BY <1>9 DEF SaveAdd
    <3> QED BY <1>2, <1>3, <2>1, <3>1
  <2>2. CASE users' # users
    <3>1. /\ Answer(c, "OK") /\ UniqueIn(NewRow(c), users)
          /\ users' = users \cup {NewRow(c)} /\ PlanOf(c) = [kind |-> "free"]
      BY <1>9, <2>2 DEF SaveAdd, PlanOf
    <3>2. NewRow(c) \in Row
      BY <1>9, <3>1, TypeStep DEF TypeOK, Next
    <3>3. \A u \in users : BodyOf(u).id # BodyOf(NewRow(c)).id
      BY <3>1, <3>2, StoreTyped DEF UniqueIn, Collide, TypeOK
    <3>4. store' = store \cup {BodyOf(NewRow(c))}
      <4>1. store' = {BodyOf(v) : v \in users \cup {NewRow(c)}}
        BY <3>1 DEF store, BodyOf
      <4> QED BY <4>1 DEF store
    <3>5. store' = {b \in store : b.id # BodyOf(NewRow(c)).id} \cup {BodyOf(NewRow(c))}
      BY <3>3, <3>4 DEF store
    <3>6. PlanOf(c)' = Absent /\ BodyOf(NewRow(c)) \in Body
      BY <1>3, <3>1, <3>2, StoreTyped
    <3> QED BY <1>1, <3>1, <3>5, <3>6 DEF Promise!Put, Promise!FreePlan, store, plan
  <2> QED BY <2>1, <2>2
<1>10. CASE SavePatch(c)
  <2>1. CASE users' = users /\ \E code \in Code : Answer(c, code)
    BY <1>2, <1>3, <2>1
  <2>2. ASSUME NEW u \in Hit(c), Replaces(c, u)
        PROVE  Promise!Swap(c) \/ Promise!Put(c)
    <3>1. u \in users /\ u \in Row /\ call[c].pc = "save" /\ call[c].op = "patch"
      BY <1>10, SavePatchEffect DEF Hit, UserPick, TypeOK
    <3>2. Patched(c, u) \in Row /\ Patched(c, u).id = u.id
      <4>1. Patched(c, u) \in Row
        BY <1>10, <2>2, TypeStep DEF Replaces, TypeOK, Next, Step
      <4> QED BY <3>1, <4>1 DEF Patched, Row
    <3>3. PlanOf(c)' = Absent
      BY <2>2 DEF Replaces, PlanOf, TypeOK
    <3>4. BodyOf(Patched(c, u)) \in Body /\ BodyOf(Patched(c, u)).id = BodyOf(u).id
      BY <3>1, <3>2, StoreTyped
    <3>5. /\ store' = (store \ {BodyOf(u)}) \cup {BodyOf(Patched(c, u))}
          /\ store' = {b \in store : b.id # BodyOf(Patched(c, u)).id} \cup {BodyOf(Patched(c, u))}
      BY <2>2, <3>1, <3>2, StoreReplaced DEF Replaces
    <3>6. CASE ~call[c].force
      <4>1. u.version = call[c].base.version /\ call[c].base \in seen
        BY <3>1, <3>6 DEF Hit, CallsWellFormed
      <4>2. u = call[c].base
        BY <3>1, <4>1 DEF VersionNamesImage
      <4>3. PlanOf(c) = [kind |-> "swap", old |-> BodyOf(u)]
        BY <3>1, <3>6, <4>2 DEF PlanOf
      <4>4. BodyOf(u) \in Body /\ BodyOf(u) \in store
        BY <3>1, StoreTyped
      <4> QED
        BY <1>1, <3>3, <3>4, <3>5, <4>3, <4>4 DEF Promise!Swap, Promise!SwapPlan, store, plan
    <3>7. CASE call[c].force
      <4>1. PlanOf(c) = [kind |-> "free"]
        BY <3>1, <3>7 DEF PlanOf
      <4> QED
        BY <1>1, <3>3, <3>4, <3>5, <4>1 DEF Promise!Put, Promise!FreePlan, store, plan
    <3> QED BY <3>6, <3>7
  <2> QED BY <1>10, <2>1, <2>2, SavePatchEffect
<1>11. CASE Reply(c)
  <2>1. PlanOf(c) = Absent /\ users' = users /\ \E code : Answer(c, code)
    BY <1>11 DEF Reply, PlanOf
  <2> QED BY <1>2, <1>3, <2>1
<1> QED BY <1>5, <1>6, <1>7, <1>8, <1>9, <1>10, <1>11 DEF Step

\* The rest of the program removes at most one row at a time.
LEMMA EnvironmentMaps ==
    ASSUME TypeOK, KeysUnique, Environment
    PROVE  Promise!Remove \/ (store' = store /\ plan' = plan)
<1>1. plan' = plan
  BY EnvironmentFrame DEF plan, PlanOf, BodyOf
<1>2. CASE Erase
  <2>1. PICK ref \in UserRef : users' = users \ UserPick(ref)
    BY <1>2 DEF Erase
  <2>2. CASE UserPick(ref) = {}
    BY <1>1, <2>1, <2>2 DEF store
  <2>3. ASSUME NEW u \in UserPick(ref) PROVE Promise!Remove
    <3>1. u \in users /\ users' = users \ {u}
      BY <2>1, PicksOne DEF UserPick
    <3>2. store' = {BodyOf(v) : v \in users \ {u}}
      BY <3>1 DEF store, BodyOf
    <3>3. \A v \in users \ {u} : BodyOf(v) # BodyOf(u)
      BY <3>1, StoreTyped DEF TypeOK
    <3>4. store' = store \ {BodyOf(u)} /\ BodyOf(u) \in store
      BY <3>1, <3>2, <3>3 DEF store
    <3> QED BY <1>1, <3>4 DEF Promise!Remove, store, plan
  <2> QED BY <2>2, <2>3
<1>3. CASE Get \/ TenantAdd \/ TenantPatch \/ TenantErase \/ Tick
  <2>1. users' = users
    BY <1>3 DEF Get, TenantAdd, TenantPatch, TenantErase, Tick
  <2> QED BY <1>1, <2>1 DEF store
<1> QED BY <1>2, <1>3 DEF Environment

(* With versions, clocks and statements hidden, the server is the abstract  *)
(* store: a Patch that is not forced replaces in one step the very body its *)
(* caller had read, or does nothing (write.go, emitPatch; schema/field.go,  *)
(* IsVersion).                                                              *)
THEOREM ServerImplementsPromise ==
    ASSUME StampsAreReadings PROVE Spec => ImplementsPromise
<1>1. Init => Promise!Init
  BY DEF Init, Promise!Init, PlanOf, BodyOf
<1>2. ASSUME IInv, KeysUnique, [Next]_vars PROVE [Promise!Next]_Promise!vars
  <2>1. CASE UNCHANGED vars
    BY <2>1 DEF vars, Promise!vars, PlanOf, BodyOf
  <2>2. CASE Environment
    BY <1>2, <2>2, EnvironmentMaps DEF IInv, Promise!Next, Promise!vars, store, plan
  <2>3. ASSUME NEW c \in Call, Step(c) PROVE [Promise!Next]_Promise!vars
    BY <1>2, <2>3, HandlerMaps DEF Promise!Next, Promise!vars, store, plan
  <2> QED BY <1>2, <2>1, <2>2, <2>3 DEF Next, Environment
<1>3. Spec => []KeysUnique
  <2>1. TableInv => KeysUnique
    BY DEF TableInv
  <2> QED BY <2>1, TableInductive, PTL
<1> QED BY <1>1, <1>2, <1>3, Inductive, PTL DEF Spec, ImplementsPromise, Promise!Spec

=============================================================================
