--------------------------- MODULE ReferencesProofs ---------------------------
(***************************************************************************)
(* Proofs about References, for every set of keys and aliases: they rest on *)
(* what the database keeps, that keys are unique (KeysUnique, from          *)
(* EntServerProofs) and that a required edge has its target (EdgesHold).    *)
(***************************************************************************)
EXTENDS References, EntServerProofs

\* The foreign key of a required edge: no statement leaves it dangling.
EdgesHold == \A u \in users : HasTenant(u)

LEMMA EdgesStep ==
    ASSUME TypeOK, KeysUnique, EdgesHold, [Next]_vars
    PROVE  EdgesHold'
<1>1. CASE UNCHANGED vars
  BY <1>1 DEF vars, EdgesHold, HasTenant
<1>2. CASE Environment
  <2>1. CASE TenantAdd
    BY <2>1 DEF TenantAdd, EdgesHold, HasTenant
  <2>2. CASE TenantPatch
    <3>1. PICK t \in tenants, x \in TAlias :
            tenants' = (tenants \ {t}) \cup {[t EXCEPT !.alias = x]} /\ users' = users
      BY <2>2 DEF TenantPatch
    <3>2. [t EXCEPT !.alias = x].id = t.id
      BY DEF TypeOK, TenantRow
    <3> QED BY <3>1, <3>2 DEF EdgesHold, HasTenant
  <2>3. CASE TenantErase
    BY <2>3 DEF TenantErase, EdgesHold, HasTenant
  <2>4. CASE Get \/ Erase \/ Tick
    BY <2>4 DEF Get, Erase, Tick, EdgesHold, HasTenant
  <2> QED BY <1>2, <2>1, <2>2, <2>3, <2>4 DEF Environment
<1>3. ASSUME NEW c \in Call, Step(c) PROVE EdgesHold'
  <2>1. CASE SaveAdd(c)
    BY <2>1 DEF SaveAdd, EdgesHold, HasTenant
  <2>2. CASE SavePatch(c)
    BY <2>2, SavePatchEffect DEF Replaces, EdgesHold, HasTenant
  <2>3. CASE BeginAdd(c) \/ BeginPatch(c) \/ GetKey(c) \/ Stamp(c) \/ Reply(c)
    BY <2>3 DEF BeginAdd, BeginPatch, GetKey, Stamp, Reply, EdgesHold, HasTenant
  <2> QED BY <1>3, <2>1, <2>2, <2>3 DEF Step
<1> QED BY <1>1, <1>2, <1>3 DEF Next, Environment

RefInv == TypeOK /\ KeysUnique /\ EdgesHold

LEMMA RefInductive == Spec => []RefInv
<1>1. Init => EdgesHold
  BY DEF Init, EdgesHold
<1>2. TableInv /\ EdgesHold /\ [Next]_vars => EdgesHold'
  BY EdgesStep DEF TableInv
<1>3. TableInv /\ EdgesHold => RefInv
  BY DEF TableInv, RefInv
<1> QED BY <1>1, <1>2, <1>3, TableInductive, PTL DEF Spec

\* The tenant of a user is one row, and its own keys find it.
LEMMA TenantOfUser ==
    ASSUME RefInv, NEW u \in users
    PROVE  /\ TenantOf(u) \in tenants /\ TenantOf(u).id = u.tenant
           /\ \A t \in tenants : t.id = u.tenant => t = TenantOf(u)
BY DEF RefInv, KeysUnique, EdgesHold, HasTenant, TenantOf

\* An answer tells the row's own key and alias, and no tenant but the row's.
TellsOf(m, u) ==
    /\ m.id \in {u.id, Zero} /\ m.alias \in {u.alias, Zero}
    /\ m.tenant # Absent =>
         /\ m.tenant.id \in {TenantOf(u).id, Zero}
         /\ m.tenant.alias \in {TenantOf(u).alias, Zero}

LEMMA AnswersTell ==
    ASSUME NEW u \in users, NEW a \in Answers(u)
    PROVE  /\ TellsOf(a, u) /\ a.id = u.id
           /\ a.tenant # Absent => a.tenant.id = TenantOf(u).id
<1>1. PICK s \in UserSelect \cup {Absent} : a = UserProto(u, s)
  BY DEF Answers
<1>2. a.id = u.id /\ a.alias \in {u.alias, Zero}
  BY <1>1 DEF UserProto, Told
<1>3. a.tenant # Absent => a.tenant = TenantProto(TenantOf(u), EdgeSelect(s))
  BY <1>1 DEF UserProto
<1> QED BY <1>2, <1>3 DEF TellsOf, TenantProto, Told

LEMMA PartsTell ==
    ASSUME NEW u \in users, NEW a \in Answers(u), NEW m \in Parts(a)
    PROVE  TellsOf(m, u)
<1>1. TellsOf(a, u)
  BY AnswersTell
<1>2. m.id \in {a.id, Zero} /\ m.alias \in {a.alias, Zero}
  BY DEF Parts
<1>3. ASSUME m.tenant # Absent
      PROVE  /\ a.tenant # Absent
             /\ m.tenant.id \in {a.tenant.id, Zero}
             /\ m.tenant.alias \in {a.tenant.alias, Zero}
  BY <1>3 DEF Parts
<1> QED BY <1>1, <1>2, <1>3 DEF TellsOf

\* A message that tells of a user and nothing else has a name that finds it.
LEMMA NameFinds ==
    ASSUME RefInv, NEW u \in users, NEW m, TellsOf(m, u)
    PROVE  /\ Found(UserRefOf(m)) \subseteq {u}
           /\ HoldsKey(m) => Found(UserRefOf(m)) = {u}
<1>1. u \in Row /\ \A t \in tenants : t \in TenantRow
  BY DEF RefInv, TypeOK
<1>2. \A r, s \in users : (r.id = s.id \/ (r.alias = s.alias /\ r.tenant = s.tenant)) => r = s
  BY DEF RefInv, KeysUnique, Collide
<1>3. CASE m.id # Zero
  <2>1. UserRefOf(m) = UserById(u.id)
    BY <1>3 DEF UserRefOf, TellsOf
  <2>2. UserById(u.id) # Absent
    BY <1>1, MessagesAssumption DEF UserById, UserRef, Row
  <2>3. Found(UserRefOf(m)) = {r \in users : r.id = u.id}
    BY <2>1, <2>2 DEF Found, UserPick, UserById
  <2> QED BY <1>2, <2>3
<1>4. CASE m.id = Zero /\ m.alias # Zero /\ m.tenant # Absent
  <2> DEFINE tref == TenantRefOf(m.tenant)
             ref == UserBySlug(u.alias, tref)
  <2>1. UserRefOf(m) = ref
    BY <1>4 DEF UserRefOf, TellsOf
  <2>2. CASE m.tenant.id = Zero /\ m.tenant.alias = Zero
    <3>1. tref = Absent
      BY <2>2 DEF TenantRefOf
    <3>2. Found(ref) = {}
      BY <3>1 DEF Found, UserBySlug
    <3> QED BY <1>4, <2>1, <2>2, <3>2 DEF HoldsKey
  <2>3. CASE m.tenant.id # Zero \/ m.tenant.alias # Zero
    <3>1. TenantOf(u) \in TenantRow /\ TenantOf(u) \in tenants
      BY <1>1, TenantOfUser
    <3>2. \/ tref = TenantById(TenantOf(u).id)
          \/ tref = TenantByAlias(TenantOf(u).alias)
      BY <1>4, <2>3 DEF TenantRefOf, TellsOf
    <3>3. tref \in TenantRef
      BY <3>1, <3>2 DEF TenantRef, TenantById, TenantByAlias, TenantRow
    <3>4. TenantPick(tref) = {TenantOf(u)}
      BY <3>1, <3>2 DEF TenantPick, TenantById, TenantByAlias, RefInv, KeysUnique
    <3>5. tref # Absent /\ ref \in UserRef
      BY <1>1, <3>3, AbsentAssumption DEF UserRef, UserBySlug, Row, TenantRef
    <3>6. Found(ref) = UserPick(ref)
      BY <3>5, MessagesAssumption DEF Found, UserBySlug
    <3>7. UserPick(ref) = {r \in users : r.alias = u.alias /\ r.tenant = TenantOf(u).id}
      BY <3>4 DEF UserPick, UserBySlug
    <3> QED BY <1>2, <2>1, <3>6, <3>7, TenantOfUser
  <2> QED BY <2>2, <2>3
<1>5. CASE m.id = Zero /\ ~(m.alias # Zero /\ m.tenant # Absent)
  BY <1>5 DEF UserRefOf, Found, HoldsKey
<1> QED BY <1>3, <1>4, <1>5

(* Every answer has the name of its row, and so has every part of one that  *)
(* still holds a key (query.go, emitRef).                                   *)
THEOREM RefsNameRows == Spec => []RefNamesRow
<1>1. RefInv => RefNamesRow
  <2> SUFFICES ASSUME RefInv, NEW u \in users, NEW a \in Answers(u)
               PROVE  /\ Found(UserRefOf(a)) = {u}
                      /\ \A m \in Parts(a) :
                           /\ Found(UserRefOf(m)) \subseteq {u}
                           /\ HoldsKey(m) => Found(UserRefOf(m)) = {u}
    BY DEF RefNamesRow
  <2>1. HoldsKey(a)
    BY AnswersTell, KeysAssumption DEF HoldsKey, RefInv, TypeOK, Row
  <2>2. Found(UserRefOf(a)) = {u}
    BY <2>1, AnswersTell, NameFinds
  <2>3. ASSUME NEW m \in Parts(a)
        PROVE  /\ Found(UserRefOf(m)) \subseteq {u}
               /\ HoldsKey(m) => Found(UserRefOf(m)) = {u}
    BY PartsTell, NameFinds
  <2> QED BY <2>2, <2>3
<1> QED BY <1>1, RefInductive, PTL

-----------------------------------------------------------------------------
(* Picks and the server.                                                    *)

LEMMA PicksTells ==
    ASSUME RefInv, NEW u \in users, NEW ref \in UserRef, NEW m, TellsOf(m, u),
           m.id = u.id, m.tenant # Absent => m.tenant.id = TenantOf(u).id
    PROVE  /\ UserPicks(ref, m) /\ ~Vague(ref) => u \in UserPick(ref)
           /\ u \in UserPick(ref) /\ Speaks(ref, m) => UserPicks(ref, m)
<1>1. CASE ref.by = "id"
  BY <1>1 DEF UserPicks, UserPick
<1>2. CASE ref.by = "slug"
  <2>1. ref.alias \in Alias /\ ref.tenant \in TenantRef
    BY <1>2 DEF UserRef
  <2>2. /\ ref.tenant.by = "id" => ref.tenant.id # Zero
        /\ ref.tenant.by \in {"id", "alias"}
    BY <2>1, KeysAssumption DEF TenantRef
  <2>3. /\ UserPicks(ref, m) <=> ref.alias = m.alias /\ TenantPicks(ref.tenant, m.tenant)
        /\ u \in UserPick(ref) <=>
             u.alias = ref.alias /\ \E t \in TenantPick(ref.tenant) : u.tenant = t.id
        /\ Speaks(ref, m) <=>
             /\ m.alias = Zero => ref.alias = Zero
             /\ m.tenant # Absent
             /\ ref.tenant.by = "alias" /\ m.tenant.alias = Zero => ref.tenant.alias = Zero
    BY <1>2 DEF UserPicks, UserPick, Speaks
  <2>4. ASSUME UserPicks(ref, m), ~Vague(ref) PROVE u \in UserPick(ref)
    <3>1. ref.alias # Zero /\ (ref.tenant.by = "alias" => ref.tenant.alias # Zero)
      <4>1. ASSUME ref.tenant.by = "alias", ref.tenant.alias = Zero
            PROVE  ref.tenant = TenantByAlias(Zero)
        BY <2>1, <4>1 DEF TenantRef, TenantByAlias
      <4> QED BY <1>2, <2>4, <4>1 DEF Vague
    <3>2. TenantOf(u) \in TenantPick(ref.tenant)
      <4>1. m.tenant # Absent
        BY <2>2, <2>3, <2>4, <3>1 DEF TenantPicks, Untold
      <4> QED BY <2>2, <2>3, <2>4, <3>1, <4>1, TenantOfUser DEF TellsOf, TenantPicks, TenantPick
    <3>3. u.alias = ref.alias
      BY <2>3, <2>4, <3>1 DEF TellsOf
    <3> QED BY <2>3, <3>2, <3>3, TenantOfUser
  <2>5. ASSUME u \in UserPick(ref), Speaks(ref, m) PROVE UserPicks(ref, m)
    <3>1. PICK t \in TenantPick(ref.tenant) : u.tenant = t.id
      BY <2>3, <2>5
    <3>2. t = TenantOf(u)
      BY <3>1, TenantOfUser DEF TenantPick
    <3>3. TenantPicks(ref.tenant, m.tenant)
      BY <2>2, <2>3, <2>5, <3>1, <3>2 DEF TellsOf, TenantPicks, TenantPick
    <3> QED BY <2>2, <2>3, <2>5, <3>3 DEF TellsOf
  <2> QED BY <2>4, <2>5
<1> QED BY <1>1, <1>2 DEF UserRef

(* A name that tells no empty alias and picks an answer is one the server   *)
(* finds the row by, and the other way round when the answer holds what the *)
(* name speaks of (query.go, emitPicks).                                    *)
THEOREM PicksAgree == Spec => []PicksAsTheServer
<1>1. RefInv => PicksAsTheServer
  BY AnswersTell, PicksTells DEF PicksAsTheServer
<1> QED BY <1>1, RefInductive, PTL

=============================================================================
