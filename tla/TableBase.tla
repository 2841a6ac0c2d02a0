------------------------------ MODULE TableBase ------------------------------
(***************************************************************************)
(* TableBase, the Dexie table of the TypeScript runtime                    *)
(* (ts/packages/dexie/src/db.ts), with the comparison the ts target emits  *)
(* for an entity with a version (target/ts/entity.go, emitVersioned).      *)
(*                                                                         *)
(* Several callers, in one tab or in several that share the database, call *)
(* _reconcile and _insert at once.  A call has three steps: the message is *)
(* dehydrated, an IndexedDB transaction runs, and the promise resolves.    *)
(* IndexedDB runs rw transactions over one store one after another, so a   *)
(* transaction is one step.                                                *)
(***************************************************************************)
EXTENDS Integers, FiniteSets

CONSTANTS
    Worker,    \* calls that may be pending at once
    Key,       \* primary keys, dehydrated
    Slug,      \* values of the entity's other candidate key
    Body,      \* the rest of a row
    Unset,     \* the version of a message whose version field is not set
    Version,   \* the versions messages carry, Unset perhaps among them
    Versioned, \* _versioned(): the entity has a version field
    UniqueSlug \* the other candidate key is declared as a unique index (&)

ASSUME FlagsAssumption ==
    /\ Versioned \in BOOLEAN /\ UniqueSlug \in BOOLEAN
    /\ Version \subseteq Nat \cup {Unset}
    /\ Unset \notin Nat

VARIABLES
    table, \* the rows stored, one for each key
    job    \* job[w]: the call of worker w

vars == <<table, job>>

Image == [key: Key, slug: Slug, body: Body, version: Version]

Idle == [pc: {"idle"}]

\* The call holds its dehydrated copy and has not run its transaction.
Dehydrated == [pc: {"dehydrated"}, op: {"reconcile", "insert"}, v: Image]

\* The transaction is over and the promise is yet to resolve: `ok' is what it
\* resolves to, "error" when the transaction was aborted and it rejects.
Committed == [pc: {"committed"}, op: {"reconcile", "insert"}, v: Image,
              ok: {"true", "false", "error"}]

TypeOK ==
    /\ table \subseteq Image
    /\ \A r, s \in table : r.key = s.key => r = s
    /\ job \in [Worker -> Idle \cup Dehydrated \cup Committed]

\* (mutant) the operands of the emitted comparison exchanged
CompareSwapped(a, b) ==
    IF a.version = Unset THEN 1
    ELSE IF b.version = Unset THEN -1
    ELSE IF a.version < b.version THEN 1
    ELSE IF a.version > b.version THEN -1 ELSE 0

\* _compare: the sign of a - b, in which a stored row without a version is
\* above everything and a message without one below every row that has one.
Compare(a, b) ==
    IF a.version = Unset THEN 1
    ELSE IF b.version = Unset THEN -1
    ELSE IF a.version > b.version THEN 1
    ELSE IF a.version < b.version THEN -1 ELSE 0

Stored(k) == {r \in table : r.key = k}

\* What put and add are refused for: a unique index with the value already.
Blocked(v) == UniqueSlug /\ \E r \in table : r.key # v.key /\ r.slug = v.slug

Commit(w, ok) ==
    job' = [job EXCEPT ![w] =
              [pc |-> "committed", op |-> job[w].op, v |-> job[w].v, ok |-> ok]]

\* (mutant) a put that does not replace the row of its key
PutBeside(w) ==
    LET v == job[w].v
    IN IF Blocked(v)
       THEN Commit(w, "error") /\ UNCHANGED table
       ELSE table' = table \cup {v} /\ Commit(w, "true")

\* (mutant) a refused put reported as a put
PutSwallowed(w) ==
    LET v == job[w].v
    IN /\ table' = IF Blocked(v) THEN table ELSE (table \ Stored(v.key)) \cup {v}
       /\ Commit(w, "true")

\* table.put, or table.add where the key is known to be free.
Put(w) ==
    LET v == job[w].v
    IN IF Blocked(v)
       THEN Commit(w, "error") /\ UNCHANGED table
       ELSE /\ table' = (table \ Stored(v.key)) \cup {v}
            /\ Commit(w, "true")

-----------------------------------------------------------------------------
Init ==
    /\ table = {}
    /\ job = [w \in Worker |-> [pc |-> "idle"]]

\* A message that cannot be dehydrated throws here, before anything is begun: it
\* leaves nothing behind, and is no step.
Begin(w, op, v) ==
    /\ job[w].pc = "idle"
    /\ job' = [job EXCEPT ![w] = [pc |-> "dehydrated", op |-> op, v |-> v]]
    /\ UNCHANGED table

Reconcile(w) ==
    /\ job[w].pc = "dehydrated" /\ job[w].op = "reconcile"
    /\ LET v == job[w].v
       IN IF Versioned /\ \E u \in Stored(v.key) : Compare(u, v) >= 0
          THEN Commit(w, "false") /\ UNCHANGED table
          ELSE Put(w)

Insert(w) ==
    /\ job[w].pc = "dehydrated" /\ job[w].op = "insert"
    /\ IF Stored(job[w].v.key) # {}
       THEN Commit(w, "error") /\ UNCHANGED table
       ELSE Put(w)

Resolve(w) ==
    /\ job[w].pc = "committed"
    /\ job' = [job EXCEPT ![w] = [pc |-> "idle"]]
    /\ UNCHANGED table

Work(w) == Reconcile(w) \/ Insert(w) \/ Resolve(w)

Next ==
    \E w \in Worker :
      \/ \E op \in {"reconcile", "insert"}, v \in Image : Begin(w, op, v)
      \/ Work(w)

Spec == Init /\ [][Next]_vars

-----------------------------------------------------------------------------
Newer(s, r) ==
    /\ s.version # Unset
    /\ r.version = Unset \/ s.version > r.version

(* Of two messages for one row the newer is kept, in whatever order and     *)
(* from however many callers they come (db.ts, _reconcile).                 *)
KeepsNewer ==
    [][\A r \in table, s \in table' : r.key = s.key => s = r \/ Newer(s, r)]_vars

(* By the time a caller is told `true' or `false' the table holds a row at  *)
(* least as new as the message it passed, whatever other callers did since  *)
(* its transaction (db.ts, _reconcile: what a caller that skips work on     *)
(* `false' relies on).                                                      *)
AnswerBounds ==
    \A w \in Worker :
      job[w].pc = "committed" /\ job[w].ok # "error"
        => \E r \in table :
             /\ r.key = job[w].v.key
             /\ r = job[w].v \/ ~Newer(job[w].v, r)

=============================================================================
