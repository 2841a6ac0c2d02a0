---------------------------- MODULE CachedServer ----------------------------
(***************************************************************************)
(* The two generated ends together: EntServer, and a browser that keeps    *)
(* every image the server answers in a TableBase.  An answer may reach the  *)
(* cache late, more than once, after answers given later, or never, and may *)
(* be the answer to a Get that selected some of the columns.                *)
(***************************************************************************)
EXTENDS EntServer

CONSTANTS
    Worker,     \* _reconcile calls that may be pending at once
    UniqueSlug, \* the cache declares the index "slug" as unique
    Erasing,    \* users are erased
    Selectable, \* the columns that an answer which is cached may do without
    Empty       \* the empty string, what a column that was not selected reads as

ASSUME CacheAssumption ==
    /\ UniqueSlug \in BOOLEAN /\ Erasing \in BOOLEAN
    /\ Selectable \subseteq {"alias", "name", "version"}
    /\ Absent \notin Nat

VARIABLES table, job

cacheVars == <<table, job>>

\* TableBase's row for a user: the key path "id", the index "slug", the rest.
\* _dehydrate turns both keys into text, one for one.
Dehydrate(u) ==
    [key |-> u.id, slug |-> <<u.alias, u.tenant>>, body |-> u.name, version |-> u.version]

\* time.Time{}, which a version that was not selected is answered as: a moment
\* before every reading of the clock.
ZeroTime == 0

\* A column of an answer: Proto() sets it whether the query loaded it or not.
Column(c, value, zero) == IF c \in Selectable THEN {value, zero} ELSE {value}

\* The rows an answer of image u may dehydrate to.  The key is always selected,
\* and so is the tenant: without it _dehydrate throws and nothing is stored.
Handed(u) ==
    [key: {u.id}, slug: Column("alias", u.alias, Empty) \X {u.tenant},
     body: Column("name", u.name, Empty), version: Column("version", u.version, ZeroTime)]

Cache == INSTANCE TableBase
    WITH Key <- Id, Slug <- (Alias \cup {Empty}) \X TenantId, Body <- Name \cup {Empty},
         Version <- Nat, Unset <- Absent, Versioned <- TRUE

ServerNext ==
    /\ \/ \E c \in Call : Step(c)
       \/ Get \/ Tick
       \/ Erasing /\ Erase
       \/ TenantAdd \/ TenantPatch \/ TenantErase
    /\ UNCHANGED cacheVars

\* The application hands an answer it has to the cache.
Deliver(w, u, m) ==
    /\ u \in seen /\ m \in Handed(u)
    /\ Cache!Begin(w, "reconcile", m)
    /\ UNCHANGED vars

CacheWork(w) == Cache!Work(w) /\ UNCHANGED vars

CachedInit == Init /\ Cache!Init

CachedNext ==
    \/ ServerNext
    \/ \E w \in Worker :
         \/ CacheWork(w)
         \/ \E u \in seen : \E m \in Handed(u) : Deliver(w, u, m)

CachedSpec == CachedInit /\ [][CachedNext]_<<vars, cacheVars>>

\* The images a bounded instance can hold.
BoundedRow == [id: Id, alias: Alias, name: Name, tenant: TenantId, version: 0..MaxTime]

\* Promises settle, and an application that goes on reading whole rows goes on
\* handing what it read to the cache.
Fairness ==
    /\ \A w \in Worker : WF_<<vars, cacheVars>>(CacheWork(w))
    /\ \A u \in BoundedRow :
         SF_<<vars, cacheVars>>(\E w \in Worker : Deliver(w, u, Dehydrate(u)))

FairSpec == CachedSpec /\ Fairness

-----------------------------------------------------------------------------
(* The cache is never ahead of the server: a cached version above the       *)
(* stored one would make _reconcile decline the current row for good        *)
(* (db.ts, _reconcile, against write.go, emitPatch).                        *)
CacheNotAhead ==
    \A u \in users, r \in table : r.key = u.id => r.version <= u.version

(* Where the cache and the server name the same version of a row they hold  *)
(* the same row, as much of it as the cached answer had selected: "equal"   *)
(* in _compare means equal (target/ts/entity.go, emitVersioned).            *)
SameVersionSameRow ==
    \A u \in users, r \in table :
      r.key = u.id /\ r.version = u.version => r \in Handed(u)

\* Nothing newer of this row was ever answered.  It may have been where rows
\* are erased: an Add that had read the clock before stores the older version.
Newest(u) == \A s \in seen : s.id = u.id => s.version <= u.version

(* Once the writes are over, whatever of the current table the application  *)
(* has been answered ends up in the cache, and stays, unless it was         *)
(* answered a newer image of a row erased since (db.ts, _reconcile).        *)
CacheConverges ==
    <>[](\A u \in users \cap seen : Newest(u) =>
           \E r \in table \cap Handed(u) : r.version = u.version)

=============================================================================
