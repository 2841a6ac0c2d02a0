------------------------------- MODULE MCSchema -------------------------------
(***************************************************************************)
(* Requests for SchemaBuild and what is read of its schema.  Each is an     *)
(* EXCEPT of a template, and only what a set is about varies in it.         *)
(***************************************************************************)
EXTENDS Readers

Plain(name, n) ==
    [name |-> name, number |-> n, words |-> 1, as |-> "field", newer |-> FALSE,
     kind |-> "string", repeated |-> FALSE, presence |-> "implicit",
     type |-> "unset", unique |-> "unset", nullable |-> "unset", immutable |-> "unset",
     default |-> FALSE, key |-> FALSE, version |-> FALSE, erased |-> FALSE, target |-> 0, from |-> NoRef]

Uuid(m) == [m EXCEPT !.kind = "bytes", !.type = "uuid"]
Id == [Uuid(Plain("id", 1)) EXCEPT !.key = TRUE, !.default = TRUE]
Edge(name, n, t) == [Plain(name, n) EXCEPT !.as = "edge", !.kind = "message", !.target = t]

RefTo(m) == [name |-> m.name, number |-> m.number]

IndexOn(name, ms) ==
    [name |-> name, disabled |-> FALSE, refs |-> [k \in DOMAIN ms |-> RefTo(ms[k])],
     unique |-> TRUE, hidden |-> FALSE, includesErased |-> FALSE]

Entity(ms, xs) ==
    [entity |-> TRUE, newer |-> FALSE, members |-> ms, indexes |-> xs,
     crud |-> TRUE, named |-> {}, off |-> {}]

\* An entity others name in their contracts has all its operations.
Target(m) == Entity(<<m>>, <<>>)

-----------------------------------------------------------------------------
(* What one annotation may say, right or wrong. *)

KeyRequests ==
    {<<Entity(<<[Id EXCEPT !.as = a, !.key = k, !.unique = u, !.nullable = v, !.immutable = w],
                [Plain("other", 7) EXCEPT !.key = also]>>, <<>>)>> :
       a \in {"field", "disabled"}, k \in BOOLEAN, also \in BOOLEAN, u \in Said, v \in Said, w \in Said}

TimeRequests ==
    {<<Entity(<<Id, [Plain("date", 2) EXCEPT
                       !.kind = kind, !.type = t, !.presence = p, !.nullable = v,
                       !.unique = u, !.key = k,
                       !.version = "version" \in roles, !.erased = "erased" \in roles],
                [Plain("made", 3) EXCEPT !.kind = "time", !.version = two, !.erased = three]>>,
              <<>>)>> :
       kind \in {"time", "string"}, t \in {"unset", "time"}, p \in {"implicit", "keyword"},
       v \in Said, u \in {"unset", "yes"}, k \in BOOLEAN,
       roles \in {{"version"}, {"erased"}, {"version", "erased"}},
       two \in BOOLEAN, three \in BOOLEAN}

MemberRequests ==
    {<<Entity(<<Id, [Plain("member", 2) EXCEPT
                       !.as = said[1], !.newer = said[2], !.type = said[3],
                       !.unique = said[4], !.kind = kind, !.repeated = rep,
                       !.target = t]>>, <<>>),
       [Entity(<<Plain("id", 1)>>, <<>>) EXCEPT !.entity = FALSE, !.newer = other]>> :
       said \in {<<"bare", FALSE, "unset", "unset">>}
                 \cup {"field", "edge", "both", "disabled"} \X BOOLEAN
                        \X {"unset", "json", "message", "unknown"} \X {"unset", "yes"},
       kind \in {"string", "message", "map"}, rep \in BOOLEAN,
       t \in {1, 2}, other \in BOOLEAN}

IndexRequests ==
    LET name == Plain("name", 2)
        refs == {<<>>, <<RefTo(name)>>, <<[RefTo(name) EXCEPT !.number = 3]>>,
                 <<[RefTo(name) EXCEPT !.name = "none"]>>,
                 <<RefTo(name), [RefTo(name) EXCEPT !.number = 1]>>}
    IN {<<Entity(<<Id, [name EXCEPT !.as = a]>>,
                 <<[IndexOn(n, <<>>) EXCEPT !.refs = r, !.disabled = d, !.unique = u,
                                            !.includesErased = e]>>)>> :
          a \in {"field", "disabled"}, n \in {"by", ""}, r \in refs, d \in BOOLEAN,
          u \in BOOLEAN, e \in BOOLEAN}

-----------------------------------------------------------------------------
(* Relations: two edges of A to B, of B one to A, to B itself or to a message *)
(* that is no entity; each may name another, with the number it has or one it *)
(* has not.                                                                   *)

Names(m) == {NoRef, RefTo(m), [RefTo(m) EXCEPT !.number = 9]}
Forms == {f \in [repeated : BOOLEAN, unique : {"unset", "yes"}] :
            f.repeated => f.unique = "unset"}

RelationRequests ==
    LET p == Edge("p", 2, 2)
        q == Edge("q", 3, 2)
        r == Edge("r", 2, 1)
        With(e, f, from) ==
            [e EXCEPT !.repeated = f.repeated, !.unique = f.unique, !.from = from]
    IN {<<Entity(<<Id, With(p, fp, np), With(q, fq, nq)>>, <<>>),
          Entity(<<Id, [With(r, fr, nr) EXCEPT !.target = t]>>, <<>>),
          [Entity(<<>>, <<>>) EXCEPT !.entity = FALSE]>> :
          fp \in Forms, fq \in Forms, fr \in Forms,
          np \in Names(r), nq \in {NoRef, RefTo(r)},
          nr \in {NoRef, RefTo(p), RefTo(q), RefTo(Id)}, t \in {1, 2, 3}}

-----------------------------------------------------------------------------
(* Lookups: an entity with a key, a name, a code and an edge to a tenant, any *)
(* of them unique, and an index or two.                                       *)

NameOf(w, u) == [Plain("name", 2) EXCEPT !.words = w, !.unique = u]
CodeOf(f, u) == LET m == [Plain("code", 3) EXCEPT !.unique = u]
                IN IF f = "uuid" THEN Uuid(m) ELSE m
TenantOf(w, u) == [Edge("tenant", 4, 2) EXCEPT !.words = w, !.unique = u]
KeyAs(f) == IF f = "uuid" THEN Id ELSE [Id EXCEPT !.kind = "string", !.type = "unset"]

\* Left out: a uuid in two keys, a uuid field in an index, and two keys that begin
\* with the same prop.  A key has a name of one word: CompatLossSaid fails of
\* others, for Mismatches asks about neither a key nor the key of an edge's target.
LookupRequests ==
    {<<Entity(<<KeyAs(k), NameOf(nw, nu), CodeOf(c, cu), TenantOf(tw, tu)>>, <<>>),
       Target(KeyAs(tk))>> :
       k \in {"string", "uuid"}, tk \in {"string", "uuid"}, c \in {"string", "uuid"},
       nw \in {1, 2}, tw \in {1, 2}, cu \in {"unset", "yes"},
       nu \in {"unset", "yes"}, tu \in {"unset", "yes"}}
    \cup
    {<<Entity(<<KeyAs(k), NameOf(nw, "unset"), CodeOf(c, cu), TenantOf(tw, "unset")>>,
              <<[IndexOn("by", ms) EXCEPT !.unique = u, !.hidden = h]>>),
       Target(KeyAs(tk))>> :
       k \in {"string", "uuid"}, tk \in {"string", "uuid"}, c \in {"string", "uuid"},
       nw \in {1, 2}, tw \in {1, 2}, cu \in {"unset", "yes"},
       u \in BOOLEAN, h \in BOOLEAN,
       ms \in {<<NameOf(1, "unset")>>, <<TenantOf(1, "unset")>>,
               <<NameOf(1, "unset"), TenantOf(1, "unset")>>,
               <<TenantOf(1, "unset"), NameOf(1, "unset")>>}}

\* The numbers at which a value and its companion meet what protobuf reserves,
\* with every set of operations.
NumberRequests ==
    {<<[Entity(<<Id, [NameOf(1, nu) EXCEPT !.number = n, !.immutable = im,
                                          !.nullable = nl],
                [Plain("date", n + 1) EXCEPT !.kind = "time", !.version = v]>>, <<>>)
          EXCEPT !.crud = crud, !.named = {"add", "patch"}, !.off = off]>> :
       n \in {2, 9498, 9499, 9500, 9998, 10001, 268435455, 268435456},
       nu \in {"unset", "yes"}, im \in {"unset", "yes"}, nl \in {"unset", "yes"},
       v \in BOOLEAN, crud \in BOOLEAN, off \in SUBSET Operation}

\* An entity with an edge, alone or in an index, and any operations, to one that
\* can be read and perhaps more.
OperationRequests ==
    LET name(n) == [NameOf(1, "unset") EXCEPT !.number = n]
        Of(tenant, n, by, ops) ==
            [Entity(<<Id, tenant, name(n)>>,
                    IF by THEN <<IndexOn("by", <<name(n), tenant>>)>> ELSE <<>>)
               EXCEPT !.crud = FALSE, !.named = ops]
    IN {<<Of(TenantOf(1, IF how = "unique" THEN "yes" ELSE "unset"), n, how = "index", ops),
          [Target(KeyAs(k)) EXCEPT !.off = off]>> :
          how \in {"none", "unique", "index"}, n \in {2, 9}, ops \in SUBSET Operation,
          k \in {"string", "uuid"}, off \in SUBSET {"add", "patch", "erase"}}
         \cup
       {<<Of([TenantOf(1, u) EXCEPT !.immutable = w], 2, FALSE, ops),
          [Target(k) EXCEPT !.off = {"patch"}]>> :
          u \in {"unset", "yes"}, w \in {"unset", "yes"}, ops \in SUBSET Operation,
          k \in {Id, [Id EXCEPT !.name = "tenant"], [Id EXCEPT !.type = "bytes"]}}

\* A field, a time and an edge that may be left out, cleared or fixed, or not.
WriteRequests ==
    {<<Entity(<<[Id EXCEPT !.default = kd],
                [Plain("name", 2) EXCEPT !.default = d, !.nullable = nl, !.immutable = im,
                                         !.presence = p, !.kind = kind, !.repeated = rep],
                [Plain("date", 3) EXCEPT !.kind = "time", !.default = d, !.immutable = im,
                                         !.version = role = "version", !.erased = role = "erased"],
                [TenantOf(1, "unset") EXCEPT !.nullable = nl, !.immutable = im]>>, <<>>),
       Target(Id)>> :
       kd \in BOOLEAN, d \in BOOLEAN, nl \in {"unset", "yes"}, im \in {"unset", "yes"},
       p \in {"implicit", "explicit", "keyword"}, kind \in {"string", "bytes", "map"},
       rep \in BOOLEAN, role \in {"none", "version", "erased"}}

-----------------------------------------------------------------------------
(* What is left out above. *)

\* A uuid field in a unique index.  (RoundTrip fails of an edge to a tenant with
\* a uuid key in two unique indexes, which is left out for that.)
UuidIndexRequests ==
    {{<<Entity(<<Id, NameOf(1, "unset"), CodeOf(c, "unset")>>,
              <<IndexOn("by", <<NameOf(1, "unset"), CodeOf(c, "unset")>>)>>)>> :
       c \in {"string", "uuid"}},
     LookupRequests}

\* A key that is not field 1.
LateKeyRequests ==
    {{<<Entity(<<[Plain("name", 1) EXCEPT !.nullable = nl], [Id EXCEPT !.number = n]>>, <<>>)>> :
       nl \in {"unset", "yes"}, n \in {2, 3}},
     NumberRequests}

OnlyLookupRequests == {LookupRequests}

SchemaRequests ==
    {KeyRequests, TimeRequests, MemberRequests, IndexRequests, RelationRequests,
     LookupRequests, NumberRequests, OperationRequests, WriteRequests}

=============================================================================
