--------------------------- MODULE TableBaseProofs ---------------------------
(***************************************************************************)
(* Proofs about TableBase, for every number of callers, every set of keys   *)
(* and either kind of index.                                                *)
(***************************************************************************)
EXTENDS TableBase, TLAPS

\* An entity with a version field whose messages all have it set.
EveryMessageVersioned == Versioned /\ Unset \notin Version

\* What a transaction may do to the table: nothing, or put its value.
LEMMA WorkEffect ==
    ASSUME TypeOK, NEW w \in Worker, Reconcile(w) \/ Insert(w)
    PROVE  /\ job[w] \in Dehydrated
           /\ \E ok \in {"true", "false", "error"} :
                /\ job' = [job EXCEPT ![w] =
                     [pc |-> "committed", op |-> job[w].op, v |-> job[w].v, ok |-> ok]]
                /\ ok = "true" => table' = (table \ Stored(job[w].v.key)) \cup {job[w].v}
                /\ ok # "true" => table' = table
                /\ ok = "true" /\ Versioned => \A u \in Stored(job[w].v.key) : ~(Compare(u, job[w].v) >= 0)
                /\ ok = "false" => \E u \in Stored(job[w].v.key) : Compare(u, job[w].v) >= 0
<1>1. job[w] \in Dehydrated
  BY DEF TypeOK, Idle, Dehydrated, Committed, Reconcile, Insert
<1>2. CASE Reconcile(w)
  BY <1>1, <1>2 DEF Reconcile, Put, Commit
<1>3. CASE Insert(w)
  BY <1>1, <1>3 DEF Insert, Put, Commit
<1> QED BY <1>1, <1>2, <1>3

LEMMA TypeStep ==
    ASSUME TypeOK, [Next]_vars
    PROVE  TypeOK'
<1>1. CASE UNCHANGED vars
  BY <1>1 DEF vars, TypeOK
<1>2. ASSUME NEW w \in Worker, NEW op \in {"reconcile", "insert"}, NEW v \in Image,
             Begin(w, op, v)
      PROVE  TypeOK'
  <2>1. [pc |-> "dehydrated", op |-> op, v |-> v] \in Dehydrated
    BY DEF Dehydrated
  <2> QED BY <1>2, <2>1 DEF Begin, TypeOK
<1>3. ASSUME NEW w \in Worker, Reconcile(w) \/ Insert(w) PROVE TypeOK'
  <2>1. job[w].v \in Image /\ job[w].op \in {"reconcile", "insert"}
    BY <1>3, WorkEffect DEF Dehydrated
  <2>2. \A ok \in {"true", "false", "error"} :
          [pc |-> "committed", op |-> job[w].op, v |-> job[w].v, ok |-> ok] \in Committed
    BY <2>1 DEF Committed
  <2>3. job' \in [Worker -> Idle \cup Dehydrated \cup Committed]
    BY <1>3, <2>2, WorkEffect DEF TypeOK
  <2>4. table' \subseteq table \cup {job[w].v}
        /\ (table' = table \/ table' = (table \ Stored(job[w].v.key)) \cup {job[w].v})
    BY <1>3, WorkEffect
  <2> QED BY <2>1, <2>3, <2>4 DEF TypeOK, Stored
<1>4. ASSUME NEW w \in Worker, Resolve(w) PROVE TypeOK'
  <2>1. [pc |-> "idle"] \in Idle
    BY DEF Idle
  <2> QED BY <1>4, <2>1 DEF Resolve, TypeOK
<1> QED BY <1>1, <1>2, <1>3, <1>4 DEF Next, Work

(* Every row and every pending call has its type, and no key has two rows   *)
(* (db.ts, TableBase).                                                      *)
THEOREM TypeCorrect == Spec => []TypeOK
<1>1. Init => TypeOK
  BY DEF Init, TypeOK, Idle
<1>2. TypeOK /\ [Next]_vars => TypeOK'
  BY TypeStep
<1> QED BY <1>1, <1>2, PTL DEF Spec

\* With numbers for versions, the comparison is the order of the versions.
LEMMA CompareIsOrder ==
    ASSUME EveryMessageVersioned, NEW a \in Image, NEW b \in Image
    PROVE  /\ a.version \in Nat /\ b.version \in Nat
           /\ Compare(a, b) >= 0 <=> a.version >= b.version
           /\ Newer(b, a) <=> b.version > a.version
<1>1. a.version \in Nat /\ b.version \in Nat /\ a.version # Unset /\ b.version # Unset
  BY FlagsAssumption DEF EveryMessageVersioned, Image
<1> QED BY <1>1 DEF Compare, Newer

LEMMA NewerStep ==
    ASSUME EveryMessageVersioned, TypeOK, [Next]_vars,
           NEW r \in table, NEW s \in table', r.key = s.key
    PROVE  s = r \/ Newer(s, r)
<1>1. CASE table' = table
  BY <1>1 DEF TypeOK
<1>2. ASSUME NEW w \in Worker, Reconcile(w) \/ Insert(w) PROVE s = r \/ Newer(s, r)
  <2>1. job[w].v \in Image
    BY <1>2, WorkEffect DEF Dehydrated
  <2>2. CASE table' # table
    <3>1. /\ table' = (table \ Stored(job[w].v.key)) \cup {job[w].v}
          /\ \A u \in Stored(job[w].v.key) : ~(Compare(u, job[w].v) >= 0)
      BY <1>2, <2>2, WorkEffect DEF EveryMessageVersioned
    <3>2. CASE s = job[w].v
      BY <2>1, <3>1, <3>2, CompareIsOrder DEF Stored, TypeOK
    <3>3. CASE s # job[w].v
      BY <3>1, <3>3 DEF TypeOK
    <3> QED BY <3>2, <3>3
  <2> QED BY <1>1, <2>2
<1> QED BY <1>1, <1>2 DEF Next, Work, Begin, Resolve, vars

(* Whatever the order messages arrive in, the newer of two stays (db.ts,    *)
(* _reconcile), provided every message has its version set.                 *)
THEOREM NewerKept == ASSUME EveryMessageVersioned PROVE Spec => KeepsNewer
<1>1. TypeOK /\ [Next]_vars
        => [\A r \in table, s \in table' : r.key = s.key => s = r \/ Newer(s, r)]_vars
  BY NewerStep
<1> QED BY <1>1, TypeCorrect, PTL DEF Spec, KeepsNewer

\* A row that bounds a message is replaced by another that does.
LEMMA BoundStep ==
    ASSUME EveryMessageVersioned, TypeOK, [Next]_vars, NEW v \in Image,
           \E r \in table : r.key = v.key /\ (r = v \/ ~Newer(v, r))
    PROVE  \E r \in table' : r.key = v.key /\ (r = v \/ ~Newer(v, r))
<1>1. PICK r \in table : r.key = v.key /\ (r = v \/ ~Newer(v, r))
  OBVIOUS
<1>2. PICK s \in table' : s.key = r.key
  <2>1. CASE table' = table
    BY <2>1
  <2>2. ASSUME NEW w \in Worker, Reconcile(w) \/ Insert(w) PROVE \E s \in table' : s.key = r.key
    BY <2>2, WorkEffect DEF Stored, TypeOK
  <2> QED BY <2>1, <2>2 DEF Next, Work, Begin, Resolve, vars
<1>3. s = r \/ Newer(s, r)
  BY <1>2, NewerStep
<1>4. r \in Image /\ s \in Image
  BY TypeStep DEF TypeOK
<1>5. s = v \/ ~Newer(v, s)
  BY <1>1, <1>3, <1>4, CompareIsOrder
<1> QED BY <1>1, <1>2, <1>5

LEMMA AnswerStep ==
    ASSUME EveryMessageVersioned, TypeOK, AnswerBounds, [Next]_vars
    PROVE  AnswerBounds'
<1>1. ASSUME NEW w \in Worker, job'[w].pc = "committed", job'[w].ok # "error"
      PROVE  \E r \in table' :
               /\ r.key = job'[w].v.key
               /\ r = job'[w].v \/ ~Newer(job'[w].v, r)
  <2>1. CASE job'[w] = job[w]
    <3>1. job[w].v \in Image
      BY <1>1, <2>1 DEF TypeOK, Idle, Dehydrated, Committed
    <3> QED BY <1>1, <2>1, <3>1, BoundStep DEF AnswerBounds
  <2>2. CASE job'[w] # job[w]
    <3>1. Reconcile(w) \/ Insert(w)
      BY <1>1, <2>2 DEF Next, Work, Begin, Resolve, Reconcile, Insert, Put, Commit, vars, TypeOK
    <3>2. job[w].v \in Image
      BY <3>1, WorkEffect DEF Dehydrated
    <3>3. job'[w].v = job[w].v
          /\ (job'[w].ok = "true" => table' = (table \ Stored(job[w].v.key)) \cup {job[w].v})
          /\ (job'[w].ok # "true" => table' = table)
          /\ (job'[w].ok = "false" => \E u \in Stored(job[w].v.key) : Compare(u, job[w].v) >= 0)
          /\ job'[w].ok \in {"true", "false", "error"}
      BY <3>1, WorkEffect DEF TypeOK
    <3>4. CASE job'[w].ok = "true"
      BY <3>3, <3>4 DEF Stored
    <3>5. CASE job'[w].ok = "false"
      <4>1. PICK u \in Stored(job[w].v.key) : Compare(u, job[w].v) >= 0
        BY <3>3, <3>5
      <4>2. u \in Image /\ ~Newer(job[w].v, u)
        BY <3>2, <4>1, CompareIsOrder DEF Stored, TypeOK
      <4> QED BY <3>3, <3>5, <4>1, <4>2 DEF Stored
    <3> QED BY <1>1, <3>3, <3>4, <3>5
  <2> QED BY <2>1, <2>2
<1> QED BY <1>1 DEF AnswerBounds

(* A caller that is told `true' or `false' may rely on the table holding    *)
(* something at least as new as what it passed (db.ts, _reconcile).         *)
THEOREM AnswersBound == ASSUME EveryMessageVersioned PROVE Spec => []AnswerBounds
<1>1. Init => AnswerBounds
  BY DEF Init, AnswerBounds
<1>2. TypeOK /\ AnswerBounds /\ [Next]_vars => AnswerBounds'
  BY AnswerStep
<1> QED BY <1>1, <1>2, TypeCorrect, PTL DEF Spec

=============================================================================
