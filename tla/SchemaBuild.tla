---------------------------- MODULE SchemaBuild ----------------------------
(***************************************************************************)
(* From annotated messages to a schema: ormcompat.parseDescriptors, then   *)
(* schema.Build.                                                           *)
(*                                                                         *)
(* A request is a sequence of messages, a message a sequence of members    *)
(* and of indexes, all in the order they are declared in.  A message is    *)
(* named by its place, a prop by the pair <<message, member>>.  Parsing    *)
(* goes through the messages once and Build four times, and what a pass    *)
(* says (`diags') does not stop it: there is a look at what was said after *)
(* the parse and one at the end.  The last pass changes what it reads: a   *)
(* back reference makes edges unique, and refuses others for being so.     *)
(***************************************************************************)
EXTENDS Naturals, Sequences, FiniteSets

CONSTANT Requests  \* families: sets of requests

VARIABLES request,      \* the messages of the files of the plugin request
          pc, at, on,   \* the pass, and the message and member it is at
          diags,        \* the places a problem was reported for
          key,          \* of each message, the member that is its key, or 0
          unique,       \* the props that are unique
          version, erased,    \* of each message, a member or 0
          indexProps,   \* of each index, the props its refs were resolved to
          target,       \* the edges whose target was resolved
          inverse, reverse    \* the two halves of a relation

parsing == <<key, unique>>
building == <<version, erased, indexProps, target, inverse, reverse>>
vars == <<request, pc, at, on, diags, parsing, building>>

-----------------------------------------------------------------------------
(* What a request says. *)

\* How an optional flag of an annotation was set, if it was.
Said == {"unset", "yes", "no"}

Ref == [name: STRING, number: Nat]
NoRef == [name |-> "", number |-> 0]

\* `as' is which of (orm.field) and (orm.edge) the member carries; `newer', that
\* one of them holds an option this copy of the vocabulary does not know;
\* `words', of how many words the name is: from two on, the name protobuf gives
\* it in JSON is another.
Member ==
    [name: STRING, number: Nat, words: {1, 2},
     as: {"bare", "field", "edge", "both", "disabled"}, newer: BOOLEAN,
     kind: {"string", "bytes", "time", "message", "map"},
     repeated: BOOLEAN, presence: {"implicit", "explicit", "keyword"},
     type: {"unset", "string", "bytes", "uuid", "time", "json", "message", "unknown"},
     unique: Said, nullable: Said, immutable: Said,
     default: BOOLEAN, key: BOOLEAN, version: BOOLEAN, erased: BOOLEAN,
     target: Nat, from: Ref]

Index == [name: STRING, disabled: BOOLEAN, refs: Seq(Ref), unique: BOOLEAN,
          hidden: BOOLEAN, includesErased: BOOLEAN]

Operation == {"add", "get", "patch", "erase"}

\* `entity' is that the message carries (orm.message) and did not disable it.
Message == [entity: BOOLEAN, newer: BOOLEAN,
            members: Seq(Member), indexes: Seq(Index),
            crud: BOOLEAN, named: SUBSET Operation, off: SUBSET Operation]

\* What has no annotation says nothing, and an edge's has no word for these.
Sayable(m) ==
    /\ m.as \in {"bare", "edge"} => ~m.key /\ ~m.version /\ ~m.erased
    /\ m.as = "bare" => ~m.newer /\ {m.unique, m.nullable, m.immutable} = {"unset"}

\* Names and numbers of a message are distinct: protoc sees to it.
ASSUME RequestsAssumption ==
    \A F \in Requests : \A r \in F :
        /\ r \in Seq(Message) /\ r # <<>>
        /\ \A i \in DOMAIN r : \A j, k \in DOMAIN r[i].members :
               /\ Sayable(r[i].members[j])
               /\ j # k => /\ r[i].members[j].name # r[i].members[k].name
                           /\ r[i].members[j].number # r[i].members[k].number

Messages == DOMAIN request
MembersOf(i) == DOMAIN request[i].members
Entities == {i \in Messages : request[i].entity}
The(x) == request[x[1]].members[x[2]]
Ids == UNION {{<<i, j>> : j \in MembersOf(i)} : i \in Messages}
NoEdge == <<0, 0>>

-----------------------------------------------------------------------------
(* ormcompat: one member, one index, one message. *)

Repeated(m) == m.repeated \/ m.kind = "map"

\* typeOf of what was declared, and deduceType when nothing was.
TypeOf(m) ==
    IF m.as = "field" /\ m.type # "unset" THEN m.type
    ELSE IF m.kind \in {"message", "map"} THEN "json" ELSE m.kind

HasPresence(m) == m.presence # "implicit" \/ m.kind \in {"time", "message"}

SaidNullable(m) == m.nullable = "yes" \/ m.presence = "keyword"

\* fieldIsNullable and edgeIsNullable; checkErased makes its field nullable.
SpecNullable(m) ==
    /\ ~Repeated(m)
    /\ \/ SaidNullable(m)
       \/ m.as # "edge" /\ m.erased
       \/ m.as # "edge" /\ HasPresence(m) /\ TypeOf(m) # "time"

VersionRefused(m) ==
    m.version /\ \/ m.key
                 \/ "yes" \in {m.unique, m.nullable, m.immutable}
                 \/ TypeOf(m) # "time"

ErasedRefused(m) ==
    m.erased /\ \/ m.key
                \/ "yes" \in {m.unique, m.immutable}
                \/ m.version
                \/ TypeOf(m) # "time"
                \/ m.nullable = "no"

FieldRefused(m) ==
    TypeOf(m) \in {"unknown", "message"} \/ VersionRefused(m) \/ ErasedRefused(m)

EdgeRefused(m) ==
    \/ m.kind \in {"string", "bytes", "map"}
    \/ m.unique = "yes" /\ m.repeated

MemberRefused(m) ==
    \/ m.as = "both"
    \/ m.as = "edge" /\ EdgeRefused(m)
    \/ m.as \in {"field", "bare"} /\ FieldRefused(m)

IsProp(m) == m.as # "disabled" /\ ~MemberRefused(m)
IsEdge(x) == The(x).as = "edge"
Props(i) == {j \in MembersOf(i) : IsProp(request[i].members[j])}
Edges(i) == {j \in Props(i) : IsEdge(<<i, j>>)}
AllProps == UNION {{<<i, j>> : j \in Props(i)} : i \in Entities}

First(s) == IF s = {} THEN 0 ELSE CHOOSE j \in s : \A k \in s : j <= k

\* (mutant) the key looked for among the members, before what was refused is
\* left out
KeyOfMembers(i) ==
    First({j \in MembersOf(i) : The(<<i, j>>).key})

\* The props marked key, and those of them the annotation does not contradict.
Marked(i) == {j \in Props(i) : The(<<i, j>>).key}
Contradicts(m) == m.unique = "no" \/ m.nullable = "yes" \/ m.immutable = "no"
KeyOf(i) == First({j \in Marked(i) : ~Contradicts(The(<<i, j>>))})

\* Every other marked prop is a mistake: before the key is found for what it
\* says, after it for being a second one.
KeyMistakes(i) ==
    {<<i, "key", j>> : j \in Marked(i) \ {KeyOf(i)}}
      \cup IF KeyOf(i) = 0 THEN {<<i, "keyless", 0>>} ELSE {}

IndexRefused(x) == x.name = "" \/ (x.includesErased /\ ~x.unique)
Indexes(i) ==
    {n \in DOMAIN request[i].indexes :
       LET x == request[i].indexes[n] IN ~x.disabled /\ ~IndexRefused(x)}

Mistakes(i) ==
    {<<i, "member", j>> : j \in {j \in MembersOf(i) : MemberRefused(The(<<i, j>>))}}
      \cup KeyMistakes(i)
      \cup {<<i, "index", n>> :
              n \in {n \in DOMAIN request[i].indexes :
                       LET x == request[i].indexes[n] IN ~x.disabled /\ IndexRefused(x)}}

\* checkVocabulary, which reads every message, entity or not.
Unknown(i) ==
    (IF request[i].newer THEN {<<i, "newer", 0>>} ELSE {})
      \cup {<<i, "newer", j>> : j \in {j \in MembersOf(i) : The(<<i, j>>).newer}}

Rpc(i) ==
    (IF request[i].crud THEN Operation ELSE request[i].named) \ request[i].off

-----------------------------------------------------------------------------
(* The passes. *)

Init ==
    /\ \E F \in Requests : request \in F
    /\ pc = "parse" /\ at = 1 /\ on = 1
    /\ diags = {}
    /\ key = [i \in Messages |-> 0]
    /\ unique = {}
    /\ version = [i \in Messages |-> 0]
    /\ erased = [i \in Messages |-> 0]
    /\ indexProps = [i \in Messages |-> [n \in DOMAIN request[i].indexes |-> <<>>]]
    /\ target = {}
    /\ inverse = [x \in Ids |-> NoEdge]
    /\ reverse = [x \in Ids |-> NoEdge]

\* On to the next message, or to the next pass.
Pass(next) ==
    /\ IF at < Len(request) THEN pc' = pc /\ at' = at + 1
                            ELSE pc' = next /\ at' = 1
    /\ on' = 1
    /\ UNCHANGED request

\* The key is made unique whatever its annotation left out.
ParseMessage ==
    /\ pc = "parse"
    /\ IF at \in Entities
       THEN /\ key' = [key EXCEPT ![at] = KeyOf(at)]
            /\ unique' = unique \cup
                  {<<at, j>> : j \in {j \in Props(at) : \/ The(<<at, j>>).unique = "yes"
                                                        \/ j = KeyOf(at)}}
            /\ diags' = diags \cup Unknown(at) \cup Mistakes(at)
       ELSE /\ diags' = diags \cup Unknown(at)
            /\ UNCHANGED parsing
    /\ Pass("parsed")
    /\ UNCHANGED building

\* (mutant) the parse's problems kept for the end
CheckLater ==
    /\ pc = "parsed"
    /\ pc' = "attach"
    /\ UNCHANGED <<request, at, on, diags, parsing, building>>

CheckAnnotations ==
    /\ pc = "parsed"
    /\ pc' = IF diags = {} THEN "attach" ELSE "refused"
    /\ UNCHANGED <<request, at, on, diags, parsing, building>>

VersionFields(i) == {j \in Props(i) \ Edges(i) : The(<<i, j>>).version}
ErasedFields(i) == {j \in Props(i) \ Edges(i) : The(<<i, j>>).erased}

Attach ==
    /\ pc = "attach"
    /\ IF at \in Entities
       THEN /\ version' = [version EXCEPT ![at] = First(VersionFields(at))]
            /\ erased' = [erased EXCEPT ![at] = First(ErasedFields(at))]
            /\ diags' = diags \cup
                  {<<at, "second", j>> : j \in (VersionFields(at) \cup ErasedFields(at))
                                                 \ {version'[at], erased'[at]}}
       ELSE UNCHANGED <<version, erased, diags>>
    /\ Pass("indexes")
    /\ UNCHANGED <<parsing, indexProps, target, inverse, reverse>>

\* Entity.Prop, and both halves of a ref have to agree.
Named(i, name) == {j \in Props(i) : The(<<i, j>>).name = name}
ResolvesByName(i, ref) == Named(i, ref.name)  \* (mutant)
Resolves(i, ref) == {j \in Named(i, ref.name) : The(<<i, j>>).number = ref.number}

\* A ref that resolves adds its prop to those of the index.
WithRef(props, i, ref) ==
    IF Resolves(i, ref) = {} THEN props ELSE Append(props, <<i, First(Resolves(i, ref))>>)

ResolvedRefs(i, n) ==
    LET refs == request[i].indexes[n].refs
        props[k \in 0..Len(refs)] ==
            IF k = 0 THEN <<>> ELSE WithRef(props[k - 1], i, refs[k])
    IN props[Len(refs)]

ResolveIndexes ==
    /\ pc = "indexes"
    /\ IF at \in Entities
       THEN /\ indexProps' = [indexProps EXCEPT ![at] =
                  [n \in DOMAIN @ |-> IF n \in Indexes(at) THEN ResolvedRefs(at, n) ELSE <<>>]]
            /\ diags' = diags \cup
                  {<<at, "refs", n>> : n \in {n \in Indexes(at) :
                      LET refs == request[at].indexes[n].refs
                      IN refs = <<>> \/ \E k \in DOMAIN refs : Resolves(at, refs[k]) = {}}}
       ELSE UNCHANGED <<indexProps, diags>>
    /\ Pass("edges")
    /\ UNCHANGED <<parsing, version, erased, target, inverse, reverse>>

ResolveEdges ==
    /\ pc = "edges"
    /\ LET found == {j \in Edges(at) : The(<<at, j>>).target \in Entities}
       IN IF at \in Entities
          THEN /\ target' = target \cup {<<at, j>> : j \in found}
               /\ diags' = diags \cup {<<at, "target", j>> : j \in Edges(at) \ found}
          ELSE UNCHANGED <<target, diags>>
    /\ Pass("back")
    /\ UNCHANGED <<parsing, version, erased, indexProps, inverse, reverse>>

-----------------------------------------------------------------------------
(* resolveBackReferences, one edge at a time. *)

NextMember ==
    IF on < Len(request[at].members)
    THEN on' = on + 1 /\ UNCHANGED <<request, pc, at>>
    ELSE Pass("resolved")

HasFrom(x) == x \in target /\ The(x).from.name # ""

\* The edge x names, if it may: it exists, it is an edge, and it is not unique
\* beside a list.
Other(x) ==
    LET t == The(x).target
    IN {<<t, k>> : k \in Resolves(t, The(x).from) \cap Edges(t)}
MayNameAny(x) == Other(x)      \* (mutant)
MayName(x) == {y \in Other(x) : ~(y \in unique /\ The(x).repeated)}

OneToOne(x, y) == ~The(x).repeated /\ ~The(y).repeated

PassEdge ==
    /\ pc = "back" /\ ~HasFrom(<<at, on>>)
    /\ NextMember
    /\ UNCHANGED <<diags, parsing, building>>

RefuseBackReference ==
    /\ pc = "back" /\ HasFrom(<<at, on>>) /\ MayName(<<at, on>>) = {}
    /\ diags' = diags \cup {<<at, "from", on>>}
    /\ NextMember
    /\ UNCHANGED <<parsing, building>>

\* (mutant) of a one-to-one only the half that declares it made unique
LinkOneHalf ==
    /\ pc = "back" /\ HasFrom(<<at, on>>)
    /\ LET x == <<at, on>>
       IN \E y \in MayName(x) :
            /\ inverse' = [inverse EXCEPT ![x] = y]
            /\ reverse' = [reverse EXCEPT ![y] = x]
            /\ unique' = IF OneToOne(x, y) THEN unique \cup {x} ELSE unique
    /\ NextMember
    /\ UNCHANGED <<diags, key, version, erased, indexProps, target>>

LinkBackReference ==
    /\ pc = "back" /\ HasFrom(<<at, on>>)
    /\ LET x == <<at, on>>
       IN \E y \in MayName(x) :
            /\ inverse' = [inverse EXCEPT ![x] = y]
            /\ reverse' = [reverse EXCEPT ![y] = x]
            /\ unique' = IF OneToOne(x, y) THEN unique \cup {x, y} ELSE unique
    /\ NextMember
    /\ UNCHANGED <<diags, key, version, erased, indexProps, target>>

Finish ==
    /\ pc = "resolved"
    /\ pc' = IF diags = {} THEN "done" ELSE "refused"
    /\ UNCHANGED <<request, at, on, diags, parsing, building>>

Next ==
    \/ ParseMessage
    \/ CheckAnnotations
    \/ Attach
    \/ ResolveIndexes
    \/ ResolveEdges
    \/ PassEdge
    \/ RefuseBackReference
    \/ LinkBackReference
    \/ Finish

Spec == Init /\ [][Next]_vars

-----------------------------------------------------------------------------
(* Properties. *)

\* What is said of an annotation, and what is said of the structure.
Annotational == {"newer", "member", "key", "keyless", "index"}
Structural == {"second", "refs", "target", "from"}

\* The state is well formed; only what became a prop can be unique, a key or
\* the end of a relation (a member that opted out or was refused is nothing).
TypeOK ==
    /\ request \in Seq(Message)
    /\ pc \in {"parse", "parsed", "attach", "indexes", "edges", "back", "resolved",
               "done", "refused"}
    /\ at \in Messages /\ on \in Nat \ {0}
    /\ \A d \in diags : d[1] \in Messages /\ d[2] \in Annotational \cup Structural /\ d[3] \in Nat
    /\ \A f \in {key, version, erased} :
           DOMAIN f = Messages /\ \A i \in Messages : f[i] \in Props(i) \cup {0}
    /\ unique \cup target \subseteq AllProps
    /\ DOMAIN indexProps = Messages
    /\ \A i \in Messages : DOMAIN indexProps[i] = DOMAIN request[i].indexes
    /\ inverse \in [Ids -> AllProps \cup {NoEdge}]
    /\ reverse \in [Ids -> AllProps \cup {NoEdge}]

\* A schema Build accepts is closed, whatever order its messages came in: every
\* entity has a key that is a unique field, every edge an entity with a key,
\* every index all its props, each with the name and the number its ref gave,
\* and there is one version and one erased field at most (schema/entity.go:52,
\* edge.go:73, index.go:67: "never nil", "never empty after Build").
ClosedSchema ==
    pc = "done" =>
      \A i \in Entities :
        /\ key[i] \in Props(i) \ Edges(i) /\ <<i, key[i]>> \in unique
        /\ \A j \in Edges(i) : /\ <<i, j>> \in target
                              /\ key[The(<<i, j>>).target] # 0
        /\ \A n \in Indexes(i) :
             LET refs == request[i].indexes[n].refs
             IN /\ refs # <<>> /\ DOMAIN indexProps[i][n] = DOMAIN refs
                /\ \A k \in DOMAIN refs : LET m == The(indexProps[i][n][k])
                                         IN <<m.name, m.number>> = <<refs[k].name, refs[k].number>>
        /\ VersionFields(i) \subseteq {version[i]}
        /\ ErasedFields(i) \subseteq {erased[i]}

\* What is said of the structure is never noise from an annotation that was
\* going to be refused anyway (docs/annotations.md:254-256).
StructureIsNoNoise ==
    (\E d \in diags : d[2] \in Structural)
      => \A i \in Messages : Unknown(i) = {} /\ (i \in Entities => Mistakes(i) = {})

\* What declares a relation, and what it names.  An edge in one relation is not
\* tangled, though both of its ends may say so.
Relations == {r \in AllProps \X AllProps : HasFrom(r[1]) /\ r[2] \in Other(r[1])}
Untangled ==
    \A r, s \in Relations :
        {r[1], r[2]} = {s[1], s[2]} \/ {r[1], r[2]} \cap {s[1], s[2]} = {}

\* What is unique in the schema follows from what was declared and from no
\* order: the props that said so, the keys, and both ends of every relation of
\* which neither end is a list (schema.go:236-239).
UniqueAsDeclared ==
    pc = "done" =>
      unique = {x \in AllProps : The(x).unique = "yes"}
                 \cup {<<i, key[i]>> : i \in Entities}
                 \cup UNION {{r[1], r[2]} : r \in {r \in Relations : OneToOne(r[1], r[2])}}

\* Of an accepted schema every back reference has its edge, and where no edge is
\* in two relations the edge has its back reference, and no list stands beside a
\* unique half, whichever of the two was read first: "the two statements
\* contradict each other and only one of them can be what was meant"
\* (schema.go:224-226).
BackReferencesPair ==
    pc = "done" =>
      /\ \A x \in AllProps : HasFrom(x) => inverse[x] \in Other(x)
      /\ Untangled =>
           \A r \in Relations : /\ reverse[r[2]] = r[1]
                                /\ ~(r[2] \in unique /\ The(r[1]).repeated)

=============================================================================
