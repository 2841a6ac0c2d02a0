------------------------------ MODULE References ------------------------------
(***************************************************************************)
(* The other half of what the go target emits for the entities of           *)
(* EntServer: the answer a query builds from what its select asked for      *)
(* (bare.go emitSelect, entproto.go) and the helpers of query.go by which a *)
(* message says what it is called (Ref) and a name says whether it is a     *)
(* message's name (Picks).  They run in the client, on whatever part of a   *)
(* row the message holds; the server resolves the same names by UserPick    *)
(* and TenantPick of EntServer.                                             *)
(*                                                                         *)
(* The helpers ask whether a field is empty and not whether it is there     *)
(* (query.go, present), and a field that was not selected reads as empty:   *)
(* both are Zero.  A key is never Zero, an alias may be.  An edge that the   *)
(* message does not have is Absent.                                         *)
(***************************************************************************)
EXTENDS EntServer

CONSTANT Zero  \* the empty string, the empty bytes

ASSUME KeysAssumption == Zero \notin Id \cup TenantId

TenantSelect == [all: BOOLEAN, alias: BOOLEAN]

UserSelect == [all: BOOLEAN, alias: BOOLEAN, tenant: TenantSelect \cup {Absent}]

TenantMessage == [id: TenantId \cup {Zero}, alias: TAlias \cup {Zero}]

UserMessage == [id: Id \cup {Zero}, alias: Alias \cup {Zero},
                tenant: TenantMessage \cup {Absent}]

ASSUME MessagesAssumption ==
    Absent \notin TenantSelect \cup UserSelect \cup TenantMessage \cup UserMessage \cup UserRef

-----------------------------------------------------------------------------
(* Select and Proto: the part of a row an answer holds.  The key is         *)
(* selected whatever the caller asks, and all of the columns without a      *)
(* select or with `all'; an edge is loaded when it is asked for by itself,  *)
(* or key-only when there is no select.                                     *)

Told(value, asked) == IF asked THEN value ELSE Zero

TenantProto(t, s) == [id |-> t.id, alias |-> Told(t.alias, s.all \/ s.alias)]

TenantOf(u) == CHOOSE t \in tenants : t.id = u.tenant

KeyOnly == [all |-> FALSE, alias |-> FALSE]

EdgeSelect(s) == IF s = Absent THEN KeyOnly ELSE s.tenant

UserProto(u, s) ==
    [id |-> u.id,
     alias |-> IF s = Absent THEN u.alias ELSE Told(u.alias, s.all \/ s.alias),
     tenant |-> IF EdgeSelect(s) = Absent THEN Absent
                ELSE TenantProto(TenantOf(u), EdgeSelect(s))]

Answers(u) == {UserProto(u, s) : s \in UserSelect \cup {Absent}}

-----------------------------------------------------------------------------
(* The constructors, and Ref: the first key the message holds whole, in the *)
(* schema's order (props, then indexes).  A tenant that has no name leaves  *)
(* the slug without one, which the server refuses.                          *)

TenantById(id) == [by |-> "id", id |-> id]

TenantByAlias(alias) == [by |-> "alias", alias |-> alias]

UserById(id) == [by |-> "id", id |-> id]

UserBySlug(alias, tenant) == [by |-> "slug", alias |-> alias, tenant |-> tenant]

\* (mutant) a unique field that is not the key forgotten
TenantRefOfKey(m) == IF m.id # Zero THEN TenantById(m.id) ELSE Absent

TenantRefOf(m) ==
    IF m.id # Zero THEN TenantById(m.id)
    ELSE IF m.alias # Zero THEN TenantByAlias(m.alias)
    ELSE Absent

UserRefOf(m) ==
    IF m.id # Zero THEN UserById(m.id)
    ELSE IF m.alias # Zero /\ m.tenant # Absent
         THEN UserBySlug(m.alias, TenantRefOf(m.tenant))
    ELSE Absent

\* Pick: what the server finds for a name, which is nothing when there is none.
Found(ref) ==
    IF ref = Absent THEN {}
    ELSE IF ref.by = "slug" /\ ref.tenant = Absent THEN {}
    ELSE UserPick(ref)

(* Picks: the members of the name against the same members of the message, *)
(* the edge's by the edge's own Picks.  The getters of a message that is    *)
(* not there answer as those of one in which nothing is told.               *)
Untold == [id |-> Zero, alias |-> Zero]

TenantPicks(ref, tenant) ==
    LET m == IF tenant = Absent THEN Untold ELSE tenant
    IN IF ref.by = "id" THEN ref.id = m.id ELSE ref.alias = m.alias

\* (mutant) only the first member of a composite key compared
UserPicksFirst(ref, m) ==
    IF ref.by = "id" THEN ref.id = m.id ELSE ref.alias = m.alias

UserPicks(ref, m) ==
    IF ref.by = "id" THEN ref.id = m.id
    ELSE ref.alias = m.alias /\ TenantPicks(ref.tenant, m.tenant)

-----------------------------------------------------------------------------
(* What the helpers promise about an answer at the moment it is given.      *)

\* What is left of an answer when its reader keeps some of the fields.
Parts(m) ==
    [id: {m.id, Zero}, alias: {m.alias, Zero},
     tenant: {Absent} \cup (IF m.tenant = Absent THEN {}
                            ELSE [id: {m.tenant.id, Zero},
                                  alias: {m.tenant.alias, Zero}])]

\* The message has every member of a key of the user.
HoldsKey(m) ==
    \/ m.id # Zero
    \/ /\ m.alias # Zero /\ m.tenant # Absent
       /\ m.tenant.id # Zero \/ m.tenant.alias # Zero

\* An empty alias is what a message that was read without it has too.
Vague(ref) ==
    ref.by = "slug" /\ (ref.alias = Zero \/ ref.tenant = TenantByAlias(Zero))

\* The message has every field the name speaks of.
Speaks(ref, m) ==
    ref.by = "slug" =>
      /\ m.alias = Zero => ref.alias = Zero
      /\ m.tenant # Absent
      /\ ref.tenant.by = "alias" /\ m.tenant.alias = Zero => ref.tenant.alias = Zero

(* What an answer, or any part of it, calls itself is the row it was read  *)
(* from: the server finds no other row by that name, and finds the row when *)
(* the part holds a whole key that is not empty, as every answer does       *)
(* whatever was selected (query.go, emitRef; bare.go, emitSelect).          *)
RefNamesRow ==
    \A u \in users : \A a \in Answers(u) :
      /\ Found(UserRefOf(a)) = {u}
      /\ \A m \in Parts(a) :
           Found(UserRefOf(m)) \subseteq {u} /\ (HoldsKey(m) => Found(UserRefOf(m)) = {u})

(* Picks and the server agree: a name that tells no empty alias and picks   *)
(* an answer is a name the server finds the row by, and a name the server   *)
(* finds the row by picks every answer that holds the fields it speaks of.  *)
(* An answer that was read with less of its tenant is denied by a name that *)
(* tells the tenant by its alias (query.go, emitPicks; bare.go, emitPick).  *)
PicksAsTheServer ==
    \A u \in users : \A a \in Answers(u), ref \in UserRef :
      /\ UserPicks(ref, a) /\ ~Vague(ref) => u \in UserPick(ref)
      /\ u \in UserPick(ref) /\ Speaks(ref, a) => UserPicks(ref, a)

=============================================================================
