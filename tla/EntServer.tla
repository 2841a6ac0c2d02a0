------------------------------ MODULE EntServer ------------------------------
(***************************************************************************)
(* The server the go target emits for one versioned entity (User) with a   *)
(* required edge to another (Tenant), as in testdata/proto/valid/apptest.  *)
(* target/gotarget/write.go and bare.go write each handler as a sequence   *)
(* of SQL statements with no transaction around them; every statement is   *)
(* one action here, so that the handlers of concurrent calls interleave    *)
(* between statements exactly where the emitted code lets them.            *)
(*                                                                         *)
(* A table is a set of row images.  `seen' is every image a handler ever   *)
(* answered: a client may name the version of any of them, at any later    *)
(* time and in any order, which also covers a response that is lost,       *)
(* delayed or handed to somebody else.                                     *)
(***************************************************************************)
EXTENDS Naturals, FiniteSets

CONSTANTS
    Call,      \* handler invocations that may be in progress at once
    Id,        \* primary keys of users
    Alias,     \* values of User.alias, a member of the unique index "slug"
    Name,      \* values of User.name, a plain field
    TenantId,  \* primary keys of tenants
    TAlias,    \* values of Tenant.alias, a unique field
    Absent,    \* "the request does not have this field"
    RefKinds,  \* which members of UserRef's oneof clients use
    Forcing,   \* how clients use date_updated_force: {"stamp"}, {"supply"}, ...
    SteadyClock, \* no reading of time.Now() is earlier than the one before it
    FineClock, \* every reading of time.Now() is later than the one before it
    MaxTime    \* bound on the clock

ASSUME SetsAssumption ==
    /\ RefKinds \subseteq {"id", "slug"}
    /\ Forcing \subseteq {"stamp", "supply"}
    /\ SteadyClock \in BOOLEAN /\ FineClock \in BOOLEAN
    /\ FineClock => SteadyClock
    /\ MaxTime \in Nat

ASSUME AbsentAssumption ==
    /\ Absent \notin Alias \cup Name \cup TenantId
    /\ Absent \notin [id: Id, alias: Alias, name: Name, tenant: TenantId, version: Nat]
    /\ Absent \notin [by: {"id"}, id: TenantId] \cup [by: {"alias"}, alias: TAlias]

VARIABLES
    users,    \* the user table
    tenants,  \* the tenant table
    clock,    \* the wall clock of whichever replica reads it next
    call,     \* call[c]: the handler running for c, or how the last one ended
    seen      \* the user images clients have been answered

vars == <<users, tenants, clock, call, seen>>

-----------------------------------------------------------------------------
(* Rows, references and calls.                                              *)

Row == [id: Id, alias: Alias, name: Name, tenant: TenantId, version: Nat]

TenantRow == [id: TenantId, alias: TAlias]

TenantRef == [by: {"id"}, id: TenantId] \cup [by: {"alias"}, alias: TAlias]

UserRef == [by: {"id"}, id: Id] \cup [by: {"slug"}, alias: Alias, tenant: TenantRef]

Code == {"OK", "NotFound", "AlreadyExists", "InvalidArgument",
         "FailedPrecondition", "Unknown"}

\* No handler is running; `code' is what the last one answered.
Ended == [pc: {"ended"}, code: Code]

\* A handler before its write.  `base' is the image whose version the request
\* names: the request itself only carries base.version.
Running ==
    [pc: {"resolve", "stamp", "save"}, op: {"add", "patch"}, ref: UserRef,
     base: Row \cup {Absent}, force: BOOLEAN,
     alias: Alias \cup {Absent}, name: Name \cup {Absent},
     tref: TenantRef \cup {Absent}, tenant: TenantId \cup {Absent}, stamp: Nat]

\* A Patch between its write and the Get that answers it.
Replying == [pc: {"reply"}, ref: UserRef, wrote: Row]

TypeOK ==
    /\ users \subseteq Row
    /\ tenants \subseteq TenantRow
    /\ clock \in Nat
    /\ call \in [Call -> Ended \cup Running \cup Replying]
    /\ seen \subseteq Row

\* TenantPick and UserPick: the predicate a reference becomes.
TenantPick(ref) ==
    {t \in tenants : IF ref.by = "id" THEN t.id = ref.id ELSE t.alias = ref.alias}

UserPick(ref) ==
    {u \in users : IF ref.by = "id" THEN u.id = ref.id
                   ELSE /\ u.alias = ref.alias
                        /\ \E t \in TenantPick(ref.tenant) : u.tenant = t.id}

\* The constraints the emitted ent schema declares, which the database keeps.
Collide(r, s) == r.id = s.id \/ (r.alias = s.alias /\ r.tenant = s.tenant)

UniqueIn(r, table) == \A s \in table : ~Collide(r, s)

HasTenant(r) == \E t \in tenants : t.id = r.tenant

\* (mutant) the setter called without asking whether the request has the field
OverwriteUnasked(new, old) == new

\* A field of a patch keeps its old value when the request does not have it.
OrOld(new, old) == IF new = Absent THEN old ELSE new

Answer(c, code) == call' = [call EXCEPT ![c] = [pc |-> "ended", code |-> code]]

Idle(c) == call[c].pc = "ended"

-----------------------------------------------------------------------------
Init ==
    /\ users = {}
    /\ tenants = {}
    /\ clock = 0
    /\ call = [c \in Call |-> [pc |-> "ended", code |-> "OK"]]
    /\ seen = {}

(* Add: resolve the tenant, read the clock, insert.  A key the request      *)
(* leaves out is drawn by uuid.New(), which is some id all the same.  It is *)
(* refused for a key that is no uuid and for a tenant reference that holds  *)
(* one, or no key at all: <E>GetKey reads those before it asks the database. *)
BeginAdd(c) ==
    /\ Idle(c)
    /\ \/ Answer(c, "InvalidArgument")
       \/ \E k \in Id, a \in Alias, n \in Name, tref \in TenantRef :
            call' = [call EXCEPT ![c] =
              [pc |-> "resolve", op |-> "add", ref |-> [by |-> "id", id |-> k],
               base |-> Absent, force |-> FALSE, alias |-> a, name |-> n,
               tref |-> tref, tenant |-> Absent, stamp |-> 0]]
    /\ UNCHANGED <<users, tenants, clock, seen>>

(* Patch: refused without a version and without force, and for a reference, *)
(* its own or the tenant's, that cannot be read, all before any statement.  *)
BeginPatch(c) ==
    /\ Idle(c)
    /\ \/ Answer(c, "InvalidArgument")
       \/ \E ref \in {r \in UserRef : r.by \in RefKinds},
             base \in seen \cup {Absent}, force \in BOOLEAN,
             a \in Alias \cup {Absent}, n \in Name \cup {Absent},
             tref \in TenantRef \cup {Absent} :
            /\ base # Absent \/ force
            /\ force => IF base = Absent THEN "stamp" \in Forcing ELSE "supply" \in Forcing
            /\ call' = [call EXCEPT ![c] =
                 [pc |-> IF tref = Absent THEN "stamp" ELSE "resolve",
                  op |-> "patch", ref |-> ref, base |-> base, force |-> force,
                  alias |-> a, name |-> n, tref |-> tref,
                  tenant |-> Absent, stamp |-> 0]]
    /\ UNCHANGED <<users, tenants, clock, seen>>

(* TenantGetKey: a reference that is already the key is not looked up.      *)
GetKey(c) ==
    /\ call[c].pc = "resolve"
    /\ LET ref == call[c].tref
           found == IF ref.by = "id" THEN {ref.id}
                    ELSE {t.id : t \in TenantPick(ref)}
       IN IF found = {}
          THEN Answer(c, "NotFound")
          ELSE \E t \in found :
                 call' = [call EXCEPT ![c].pc = "stamp", ![c].tenant = t]
    /\ UNCHANGED <<users, tenants, clock, seen>>

\* (mutant) a time.Now() taken once and used for every write that follows
StampFromMemory(c) ==
    /\ call[c].pc = "stamp"
    /\ call' = [call EXCEPT ![c].pc = "save", ![c].stamp =
                   IF call[c].force /\ call[c].base # Absent
                   THEN call[c].base.version ELSE clock]
    /\ UNCHANGED <<users, tenants, clock, seen>>

(* The version the write will carry: time.Now(), or under force the one the *)
(* request supplies.  It is chosen before the statement that stores it.     *)
(* What time.Now() returns is a wall clock: `clock' is moved by Tick unless *)
(* the clock is fine, and is then one further with each reading.            *)
Stamp(c) ==
    /\ call[c].pc = "stamp"
    /\ IF call[c].force /\ call[c].base # Absent
       THEN /\ call' = [call EXCEPT ![c].pc = "save", ![c].stamp = call[c].base.version]
            /\ clock' = clock
       ELSE /\ clock' = IF FineClock THEN clock + 1 ELSE clock
            /\ clock' <= MaxTime
            /\ call' = [call EXCEPT ![c].pc = "save", ![c].stamp = clock']
    /\ UNCHANGED <<users, tenants, seen>>

NewRow(c) ==
    [id |-> call[c].ref.id, alias |-> call[c].alias, name |-> call[c].name,
     tenant |-> call[c].tenant, version |-> call[c].stamp]

SaveAdd(c) ==
    /\ call[c].pc = "save" /\ call[c].op = "add"
    /\ LET r == NewRow(c)
       IN \/ /\ UniqueIn(r, users) /\ HasTenant(r)
             /\ users' = users \cup {r}
             /\ seen' = seen \cup {r}
             /\ Answer(c, "OK")
          \/ /\ ~UniqueIn(r, users)
             /\ Answer(c, "AlreadyExists")
             /\ UNCHANGED <<users, seen>>
          \/ /\ ~HasTenant(r)
             /\ Answer(c, "Unknown")
             /\ UNCHANGED <<users, seen>>
    /\ UNCHANGED <<tenants, clock>>

\* (mutant) the version column forgotten by the UPDATE
PatchedUnstamped(c, u) ==
    [u EXCEPT !.alias = OrOld(call[c].alias, @), !.name = OrOld(call[c].name, @),
              !.tenant = OrOld(call[c].tenant, @)]

\* The row the UPDATE leaves in place of u.
Patched(c, u) ==
    [u EXCEPT !.alias = OrOld(call[c].alias, @), !.name = OrOld(call[c].name, @),
              !.tenant = OrOld(call[c].tenant, @), !.version = call[c].stamp]

\* (mutant) the version left out of the WHERE
HitUnversioned(c) == UserPick(call[c].ref)

\* (mutant) GTE in place of EQ
HitNotOlder(c) ==
    {u \in UserPick(call[c].ref) : call[c].force \/ u.version >= call[c].base.version}

\* The rows of the UPDATE: the reference's predicate and, unless forced,
\* "version = the one the caller named".
Hit(c) ==
    {u \in UserPick(call[c].ref) : call[c].force \/ u.version = call[c].base.version}

SavePatch(c) ==
    /\ call[c].pc = "save" /\ call[c].op = "patch"
    /\ \/ /\ Hit(c) = {}
          /\ Answer(c, IF call[c].force THEN "NotFound" ELSE "FailedPrecondition")
          /\ users' = users
       \/ \E u \in Hit(c) :
            LET r == Patched(c, u)
            IN IF UniqueIn(r, users \ {u}) /\ HasTenant(r)
               THEN /\ users' = (users \ {u}) \cup {r}
                    /\ call' = [call EXCEPT ![c] =
                         [pc |-> "reply", ref |-> call[c].ref, wrote |-> r]]
               ELSE /\ Answer(c, "Unknown")
                    /\ users' = users
    /\ UNCHANGED <<tenants, clock, seen>>

(* Patch answers with a second statement: Get, by the request's reference.  *)
Reply(c) ==
    /\ call[c].pc = "reply"
    /\ LET got == UserPick(call[c].ref)
       IN /\ seen' = seen \cup got
          /\ Answer(c, IF got = {} THEN "NotFound" ELSE "OK")
    /\ UNCHANGED <<users, tenants, clock>>

-----------------------------------------------------------------------------
(* Handlers of a single statement, whole in one action.                     *)

Get ==
    /\ \E ref \in UserRef : seen' = seen \cup UserPick(ref)
    /\ UNCHANGED <<users, tenants, clock, call>>

\* Erase removes whatever the reference picks and answers OK either way.
Erase ==
    /\ \E ref \in {r \in UserRef : r.by \in RefKinds} : users' = users \ UserPick(ref)
    /\ UNCHANGED <<tenants, clock, call, seen>>

\* The write statements of the tenant's own server: a patch may move an alias
\* from one tenant to another, and a tenant some user points at stays.
TenantAdd ==
    /\ \E t \in TenantRow :
         /\ \A s \in tenants : s.id # t.id /\ s.alias # t.alias
         /\ tenants' = tenants \cup {t}
    /\ UNCHANGED <<users, clock, call, seen>>

TenantPatch ==
    /\ \E t \in tenants, x \in TAlias :
         /\ \A s \in tenants : s.alias # x
         /\ tenants' = (tenants \ {t}) \cup {[t EXCEPT !.alias = x]}
    /\ UNCHANGED <<users, clock, call, seen>>

TenantErase ==
    /\ \E t \in tenants :
         /\ \A u \in users : u.tenant # t.id
         /\ tenants' = tenants \ {t}
    /\ UNCHANGED <<users, clock, call, seen>>

\* Time passes by itself where readings may be equal.  A clock that is not steady
\* may also be set back, or the next reading is by a replica that is behind.
Tick ==
    /\ ~FineClock
    /\ \E t \in 0..MaxTime :
         /\ SteadyClock => t > clock
         /\ clock' = t
    /\ UNCHANGED <<users, tenants, call, seen>>

Step(c) ==
    \/ BeginAdd(c) \/ BeginPatch(c) \/ GetKey(c) \/ Stamp(c)
    \/ SaveAdd(c) \/ SavePatch(c) \/ Reply(c)

Next ==
    \/ \E c \in Call : Step(c)
    \/ Get \/ Erase \/ TenantAdd \/ TenantPatch \/ TenantErase \/ Tick

Spec == Init /\ [][Next]_vars

-----------------------------------------------------------------------------
(* What the server promises.                                                *)

\* The step of call c in which its UPDATE changes a row.
Writes(c) ==
    /\ call[c].pc = "save" /\ call[c].op = "patch"
    /\ call'[c].pc = "reply"

(* A Patch that is not forced replaces exactly the image the caller had     *)
(* read when it named its version: no write that landed in between is       *)
(* overwritten unseen (write.go, emitPatch: the version in the WHERE).      *)
NoLostUpdate ==
    [][\A c \in Call :
         Writes(c) /\ ~call[c].force => users \ users' = {call[c].base}]_vars

(* A version names one image: no two different images, of one row or of     *)
(* several, stored or answered at any time, carry the same version.  What a *)
(* client compares versions for rests on this (write.go, emitAdd/emitPatch: *)
(* every statement that writes a row stamps it).                            *)
VersionNamesImage ==
    \A r, s \in users \cup seen : r.version = s.version => r = s

(* While a row is there its version never goes back, although each call    *)
(* reads the clock in a step before the one that stores what it read        *)
(* (write.go, emitPatch); what a cache compares relies on it.  It is the    *)
(* version in the WHERE that keeps an old stamp from landing, so it does    *)
(* not hold of forced writes, nor on a clock that is set back.              *)
VersionForward ==
    [][\A r \in users, s \in users' : r.id = s.id => r.version <= s.version]_vars

-----------------------------------------------------------------------------
(* Why it keeps them: the invariants the proofs rest on.                    *)

\* What the database keeps: the ent schema's unique indexes.
KeysUnique ==
    /\ \A r, s \in users : r # s => ~Collide(r, s)
    /\ \A s, t \in tenants : s # t => s.id # t.id /\ s.alias # t.alias

\* What a handler carries from one statement to the next.
CallsWellFormed ==
    \A c \in Call : call[c].pc \in {"resolve", "stamp", "save"} =>
      /\ call[c].pc = "resolve" => call[c].tref # Absent
      /\ call[c].op = "add" =>
           /\ call[c].ref.by = "id" /\ ~call[c].force
           /\ call[c].alias # Absent /\ call[c].name # Absent
           /\ call[c].pc # "resolve" => call[c].tenant # Absent
      /\ call[c].op = "patch" =>
           /\ call[c].base \in seen \cup {Absent}
           /\ ~call[c].force => call[c].base # Absent

\* No version, stored, answered or about to be stored, is ahead of the clock.
NotAheadOfClock ==
    /\ \A r \in users \cup seen : r.version <= clock
    /\ \A c \in Call : call[c].pc = "save" =>
         /\ call[c].stamp <= clock
         /\ call[c].op = "patch" /\ ~call[c].force
              => call[c].base.version <= call[c].stamp

(* A stamp that waits to be stored is nobody else's: no image has it and no *)
(* other handler does.  On a clock two readings of which may be equal, or   *)
(* where a forced Patch supplies the version, this is what fails first      *)
(* (write.go, emitAdd and emitPatch: time.Now() before q.Save).             *)
StampsFresh ==
    /\ \A c \in Call : call[c].pc = "save" =>
         /\ \A r \in users \cup seen : r.version # call[c].stamp
         /\ \A d \in Call \ {c} : call[d].pc = "save" => call[d].stamp # call[c].stamp
    /\ \A c \in Call : call[c].pc \in {"resolve", "stamp", "save"} =>
         (call[c].force => call[c].base = Absent)

-----------------------------------------------------------------------------
(* The server implements OptimisticStore: hide the version of each row and  *)
(* the statements of each handler, and a Patch that is not forced replaces  *)
(* the body its caller read or does nothing (schema/field.go, Version).     *)
BodyOf(r) == [id |-> r.id, alias |-> r.alias, name |-> r.name, tenant |-> r.tenant]

Body == [id: Id, alias: Alias, name: Name, tenant: TenantId]

PlanOf(c) ==
    IF call[c].pc \in {"resolve", "stamp", "save"}
    THEN IF call[c].op = "patch" /\ ~call[c].force
         THEN [kind |-> "swap", old |-> BodyOf(call[c].base)]
         ELSE [kind |-> "free"]
    ELSE Absent

Promise == INSTANCE OptimisticStore
    WITH None <- Absent,
         store <- {BodyOf(u) : u \in users},
         plan <- [c \in Call |-> PlanOf(c)]

ImplementsPromise == Promise!Spec

-----------------------------------------------------------------------------
(* What the documentation says of Patch, and the code does not do.          *)

(* A Patch that changed a row answers that row, as long as the row is there *)
(* ("Patch updates an existing <E>" and returns it).                        *)
AnswersPatchedRow ==
    [][\A c \in Call :
         call[c].pc = "reply" /\ call'[c].pc = "ended"
         /\ (\E u \in users : u.id = call[c].wrote.id)
         => \E u \in UserPick(call[c].ref) : u.id = call[c].wrote.id]_vars

=============================================================================
