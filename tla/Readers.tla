-------------------------------- MODULE Readers --------------------------------
(***************************************************************************)
(* The two programs that read a contract, and what one makes of what the    *)
(* other wrote: the ts client tells a row by the Ref it builds, and the go  *)
(* server turns a Ref into a query.  The two find a lookup in the contract  *)
(* by different rules, the client by its number and the server by its name, *)
(* and neither reads what the other was generated to.                       *)
(***************************************************************************)
EXTENDS Writes, Stores

(* The Ref of an entity, as a reader finds it.                               *)

KeyName(k) ==
    IF k.n = 0 THEN The(k.props[1]).name ELSE request[k.props[1][1]].indexes[k.n].name

Oneof(i) == {[name |-> KeyName(k), number |-> KeyNumber(k), key |-> k] : k \in Keys(i)}

\* An index has a message of its own, a lone edge the Ref of its target, and any
\* other prop is what it is on the entity.
HoldsMessage(k) == k.n # 0 \/ The(k.props[1]).kind \in {"message", "time"}

MessageFields(k) ==
    LET m == The(k.props[1])
    IN IF k.n # 0 THEN {The(k.props[p]).name : p \in DOMAIN k.props}
       ELSE IF m.as = "edge" THEN {f.name : f \in Oneof(m.target)}
       ELSE IF m.kind = "message" THEN {request[m.target].members[j].name : j \in MembersOf(m.target)}
       ELSE {"seconds", "nanos"}

\* The two orders there are of the ways to find a row: Entity.Keys has the props
\* before the indexes, and the oneof has them by number.
PlaceInKeys(i, k) ==
    Cardinality({l \in Keys(i) : \/ l.n < k.n
                                 \/ l.n = k.n /\ l.props[1][2] <= k.props[1][2]})
PlaceInOneof(i, f) == Cardinality({g \in Oneof(i) : g.number <= f.number})

-----------------------------------------------------------------------------
(* The go target (query.go, bare.go, write.go).                              *)

\* (mutant) the lookups of the Ref paired with the keys in the order of each
OneofFieldAt(i, k) == {f \in Oneof(i) : PlaceInOneof(i, f) = PlaceInKeys(i, k)}

OneofFieldNamed(i, k) == {f \in Oneof(i) : f.name = KeyName(k)}

\* A lookup that holds a message is taken for one with a member for each prop.
MembersMissing(i, k) ==
    \E f \in OneofFieldNamed(i, k) :
        /\ HoldsMessage(f.key)
        /\ {The(k.props[p]).name : p \in DOMAIN k.props} \ MessageFields(f.key) # {}

\* shapeOf.  Of an entity with no operation the contract has a service that is empty:
\* it is served like any other, and has no request that asks for a row.
ShapeRefused(i) ==
    \/ "get" \notin Rpc(i)
    \/ \E k \in Keys(i) : OneofFieldNamed(i, k) = {} \/ MembersMissing(i, k)

\* (mutant) the predecessor's rule: with the entity's own patch
NeedsKeyOfOwn(i) == "patch" \in Rpc(i)

\* needs: who writes an edge resolves a reference to the key of its target.
NeedsKey(i) ==
    \/ "patch" \in Rpc(i)
    \/ \E x \in AllProps : /\ IsEdge(x) /\ The(x).target = i
                           /\ Rpc(x[1]) \cap {"add", "patch"} # {}

\* A server is generated for every service of the request or for none, and the
\* contract has a service for every entity.
GoRefused ==
    \E i \in Entities :
        \/ Unwritable(i) \/ ShapeRefused(i)
        \/ NeedsKey(i) /\ TypeOf(The(KeyProp(i))) \notin {"uuid", "string"}

\* The functions of a generated package, and those that its other ones call.
Defined ==
    ({"Pick", "Select", "selectKey", "Ref"} \X Entities)
      \cup {<<"GetKey", i>> : i \in {i \in Entities : NeedsKey(i)}}

Called(i) ==
    LET To(xs) == {The(x).target : x \in {x \in xs : IsEdge(x)}}
        inKeys == UNION {{k.props[p] : p \in DOMAIN k.props} : k \in Keys(i)}
    IN ({"Select", "selectKey"} \X To(PropsOf(i)))
         \cup ({"Pick", "Ref"} \X To(inKeys))
         \cup {<<"GetKey", t>> : t \in IF "add" \in Rpc(i) THEN To(PropsOf(i)) ELSE {}}
         \cup {<<"GetKey", t>> : t \in IF "patch" \in Rpc(i) THEN To(Patched(i)) ELSE {}}

-----------------------------------------------------------------------------
(* The ts client (ts/client.go, ts/target.go).                               *)

\* (mutant) by its place among the keys
CaseLabelAt(i, k) == (CHOOSE f \in Oneof(i) : PlaceInOneof(i, f) = PlaceInKeys(i, k)).name

\* caseLabel: the lookup that has the number of the key.
CaseLabel(i, k) == (CHOOSE f \in Oneof(i) : f.number = KeyNumber(k)).name

\* What is read of a row to tell one prop: of an edge, its target's key.
Value(x) == IF IsEdge(x) THEN <<x, KeyProp(The(x).target)>> ELSE <<x>>

\* emitRef, and emitQueryDesc for the key: the case of the oneof and what is in
\* it, an edge as a Ref whose case is the key of its target.
ClientRef(i, k) ==
    [case |-> CaseLabel(i, k),
     fields |-> {[name |-> The(x).name, value |-> Value(x),
                  case |-> IF IsEdge(x) THEN KeyName(Primary(The(x).target)) ELSE ""] :
                    x \in {k.props[p] : p \in DOMAIN k.props}}]

\* emitPickMember: the columns a part of a Ref is looked for in.
Queried(x, told) ==
    IF IsEdge(x)
    THEN {<<x, t.props[1]>> : t \in {t \in Keys(The(x).target) : KeyName(t) = told.case}}
    ELSE {<<x>>}

\* emitPick: what is asked of each column, of a Ref that came over the wire.  A
\* lookup without a message is its value, one with a message has it by name.
Picked(i, ref) ==
    LET Asks(k) ==
          {a \in (DOMAIN k.props) \X ref.fields : k.n = 0 \/ a[2].name = The(k.props[a[1]]).name}
    IN UNION {UNION {{[of |-> c, is |-> a[2].value] : c \in Queried(k.props[a[1]], a[2])} :
                     a \in Asks(k)} :
              k \in {k \in Keys(i) : KeyName(k) = ref.case}}

-----------------------------------------------------------------------------
(* Properties. *)

\* Which schemas the go target accepts can be told from the schema: it reads the
\* contract of every entity that has a get and no lookup by a lone message (an
\* edge, a time), in whatever order the fields and the indexes are numbered
\* (query.go:137-146: "following the wrong one produces a file that compiles and
\* is not the same file").
GoReadsContract ==
    pc = "done" =>
      \A i \in {i \in Entities : "get" \in Rpc(i)} :
        (\E k \in Keys(i) : k.n = 0 /\ HoldsMessage(k) /\ KeyName(k) \notin MessageFields(k))
          <=> ShapeRefused(i)

\* The server reads what the client wrote: of every lookup but a lone message the
\* query that comes of the client's Ref asks, of the columns of that lookup and of
\* no others, for what the row has in each (client.go:73-75: "every ref it can be
\* found by"; target.go:248-250: "two rules for one message").
ServerReadsClient ==
    pc = "done" /\ ~GoRefused =>
      \A i \in Entities : \A k \in Keys(i) :
        ~(k.n = 0 /\ HoldsMessage(k)) =>
          Picked(i, ClientRef(i, k)) =
            {[of |-> Value(k.props[p]), is |-> Value(k.props[p])] : p \in DOMAIN k.props}

\* A generated server calls nothing that is not there: what the functions of one
\* entity call of another's was generated for it, whichever of its own operations it
\* has besides get (bare.go:83-92: "an entity that is an edge target and declares only
\* `get` gets called and not generated").  What a call hands over is not looked at.
GoLinks ==
    pc = "done" /\ ~GoRefused =>
      \A i \in Entities : Called(i) \subseteq Defined

\* Add and Patch fit the contract and the columns they were generated with: they
\* ask of a request only for what has presence in it, Add sets every column the
\* database wants, and Patch sets nothing immutable and clears nothing that is
\* required, as long as the key has a default and is no list (otherwise its
\* AddRequest has no Has for it, write.go:104) and no edge is a list (write.go:164 has
\* no case for one; msg.go:64-66: "without it the field would gain presence it does
\* not have").
ServerFits ==
    pc = "done" /\ ~GoRefused =>
      \A i \in Entities :
        /\ The(KeyProp(i)).default /\ ~Repeated(The(KeyProp(i)))
        /\ \A x \in EdgesOf(i) : ~Repeated(The(x))
        => Fits(i)

=============================================================================
