----------------------------- MODULE ReadersProofs -----------------------------
(***************************************************************************)
(* Proofs about what is emitted of a schema that was accepted: the stores,  *)
(* the lookups, the contract and the programs that read it.                 *)
(***************************************************************************)
EXTENDS SchemaBuildProofs, FiniteSetTheorems, Readers

-----------------------------------------------------------------------------
(* Of an accepted schema. *)

LEMMA PropsAre ==
    ASSUME BuildInv, pc = "done"
    PROVE  \A x \in AllProps :
             /\ x = <<x[1], x[2]>> /\ x[1] \in Entities /\ x[2] \in Props(x[1])
             /\ The(x) \in Member /\ IsProp(The(x)) /\ Sayable(The(x))
             /\ IsEdge(x) => The(x).target \in Entities
<1>0. FromRequests /\ TargetInv /\ diags = {}
  BY DEF BuildInv
<1> SUFFICES ASSUME NEW x \in AllProps
             PROVE  /\ x = <<x[1], x[2]>> /\ x[1] \in Entities /\ x[2] \in Props(x[1])
                    /\ The(x) \in Member /\ IsProp(The(x)) /\ Sayable(The(x))
                    /\ IsEdge(x) => The(x).target \in Entities
  OBVIOUS
<1>a. PICK i \in Entities : \E j \in Props(i) : x = <<i, j>>
  BY DEF AllProps
<1>1. PICK j \in Props(i) : x = <<i, j>>
  BY <1>a
<1>2. i \in Messages /\ j \in MembersOf(i) /\ IsProp(The(x))
  BY <1>1 DEF Entities, Props, The
<1>3. The(x) \in Member
  BY <1>0, <1>1, <1>2, RequestTyped DEF The
<1>4. Sayable(The(x))
  BY <1>0, <1>1, <1>2, Distinct
<1>5. IsEdge(x) => The(x).target \in Entities
  <2> SUFFICES ASSUME IsEdge(x) PROVE The(x).target \in Entities
    OBVIOUS
  <2>1. <<i, j>> \in target
    BY <1>0, <1>1, AcceptedIs DEF AimInv, Edges
  <2> QED BY <1>0, <1>1, <2>1 DEF TargetInv
<1> QED BY <1>1, <1>2, <1>3, <1>4, <1>5

LEMMA NamesTell ==
    ASSUME BuildInv, pc = "done", NEW i \in Entities
    PROVE  \A x, y \in PropsOf(i) :
             x # y => The(x).name # The(y).name /\ The(x).number # The(y).number
<1>1. FromRequests /\ i \in Messages
  BY DEF BuildInv, Entities
<1>2. ASSUME NEW x \in PropsOf(i) PROVE x = <<i, x[2]>> /\ x[2] \in MembersOf(i)
  BY <1>1, PropsAre, RequestTyped DEF PropsOf
<1>3. ASSUME NEW x \in PropsOf(i), NEW y \in PropsOf(i), x # y
      PROVE  The(x).name # The(y).name /\ The(x).number # The(y).number
  <2>1. x[2] # y[2]
    BY <1>2, <1>3
  <2> QED BY <1>1, <1>2, <2>1, Distinct
<1> QED BY <1>3

LEMMA KeyPropIs ==
    ASSUME BuildInv, pc = "done", NEW i \in Entities
    PROVE  /\ KeyProp(i) \in AllProps /\ KeyProp(i) \in unique /\ KeyProp(i)[1] = i
           /\ ~IsEdge(KeyProp(i)) /\ The(KeyProp(i)).key
           /\ Primary(i) \in Keys(i)
<1>1. key[i] \in Props(i) \ Edges(i) /\ <<i, key[i]>> \in unique
  BY AcceptedIsClosed DEF ClosedSchema
<1>2. diags = {} /\ i \in Messages /\ FromRequests
  BY DEF BuildInv, Entities
<1>3. The(KeyProp(i)).key
  <2> DEFINE T == {j \in Marked(i) : ~Contradicts(The(<<i, j>>))}
  <2>1. key[i] = First(T) /\ First(T) # 0
    BY <1>1, <1>2, AcceptedIs, RequestTyped DEF KeyOf
  <2>2. T \in SUBSET Nat
    BY <1>2, RequestTyped DEF Marked
  <2>3. First(T) \in T
    BY <2>1, <2>2, FirstIs
  <2> QED BY <2>1, <2>3 DEF Marked, KeyProp
<1>4. ~IsEdge(KeyProp(i)) /\ KeyProp(i) \in AllProps
  BY <1>1 DEF Edges, KeyProp, AllProps
<1> QED BY <1>1, <1>3, <1>4 DEF KeyProp, Primary, Keys

LEMMA KeysAre ==
    ASSUME BuildInv, pc = "done", NEW i \in Entities, NEW k \in Keys(i)
    PROVE  /\ k = [n |-> k.n, props |-> k.props]
           /\ k.props \in Seq(AllProps) /\ Len(k.props) \in Nat \ {0}
           /\ \A p \in DOMAIN k.props : k.props[p] \in PropsOf(i)
           /\ k.n = 0 => k.props[1] \in unique /\ k.props = <<k.props[1]>>
           /\ k.n # 0 => /\ k.n \in Indexes(i) /\ IsUnique(i, k.n) /\ ~IsHidden(i, k.n)
                         /\ k.props = indexProps[i][k.n]
<1>1. diags = {} /\ i \in Messages /\ FromRequests /\ unique \subseteq AllProps
  BY DEF BuildInv, Entities, TypeOK
<1>2. CASE \E x \in unique : x[1] = i /\ k = [n |-> 0, props |-> <<x>>]
  BY <1>1, <1>2 DEF PropsOf
<1>3. CASE \E n \in Indexes(i) : /\ IsUnique(i, n) /\ ~IsHidden(i, n)
                                 /\ k = [n |-> n, props |-> indexProps[i][n]]
  <2>1. PICK n \in Indexes(i) : /\ IsUnique(i, n) /\ ~IsHidden(i, n)
                                /\ k = [n |-> n, props |-> indexProps[i][n]]
    BY <1>3
  <2> DEFINE refs == request[i].indexes[n].refs
  <2>2. n \in DOMAIN request[i].indexes /\ n # 0 /\ refs \in Seq(Ref)
    <3>1. n \in DOMAIN request[i].indexes /\ request[i].indexes \in Seq(Index)
      BY <1>1, RequestTyped DEF Indexes
    <3>2. request[i].indexes[n] \in Index /\ n # 0
      BY <3>1
    <3> QED BY <3>1, <3>2 DEF Index
  <2>3. /\ refs # <<>> /\ \A p \in DOMAIN refs : Resolves(i, refs[p]) # {}
        /\ indexProps[i][n] = [p \in DOMAIN refs |-> <<i, First(Resolves(i, refs[p]))>>]
    BY <1>1, AcceptedIs DEF IndexInv
  <2>4. \A p \in DOMAIN refs : First(Resolves(i, refs[p])) \in Props(i)
    BY <1>1, <2>3, ResolvesToOne, FirstIs
  <2>5. \A p \in DOMAIN refs : indexProps[i][n][p] \in PropsOf(i)
    BY <2>3, <2>4 DEF PropsOf, AllProps
  <2>6. Len(refs) \in Nat \ {0} /\ DOMAIN refs = 1..Len(refs)
    BY <2>2, <2>3
  <2>7. indexProps[i][n] = [p \in 1..Len(refs) |-> indexProps[i][n][p]]
    BY <2>3, <2>6
  <2>8. \A p \in 1..Len(refs) : indexProps[i][n][p] \in AllProps
    BY <2>5, <2>6 DEF PropsOf
  <2>9. indexProps[i][n] \in Seq(AllProps) /\ Len(indexProps[i][n]) = Len(refs)
    BY <2>6, <2>7, <2>8
  <2> QED BY <2>1, <2>2, <2>3, <2>5, <2>6, <2>9
<1> QED BY <1>2, <1>3 DEF Keys

\* A field of a schema has a type that a store can hold.
LEMMA FieldTypes ==
    ASSUME BuildInv, pc = "done", NEW x \in AllProps, ~IsEdge(x)
    PROVE  TypeOf(The(x)) \in {"string", "bytes", "uuid", "time", "json"}
<1> DEFINE m == The(x)
<1>1. m \in Member /\ IsProp(m) /\ m.as # "edge"
  BY PropsAre DEF IsEdge
<1> HIDE DEF m
<1>2. m.as \in {"field", "bare"} /\ TypeOf(m) \notin {"unknown", "message"}
  <2>1. m.as \in {"bare", "field", "edge", "both", "disabled"}
    BY <1>1 DEF Member
  <2> QED BY <1>1, <2>1 DEF IsProp, MemberRefused, FieldRefused
<1>3. /\ m.type \in {"unset", "string", "bytes", "uuid", "time", "json", "message", "unknown"}
      /\ m.kind \in {"string", "bytes", "time", "message", "map"}
  BY <1>1 DEF Member
<1> QED BY <1>2, <1>3 DEF TypeOf, m

LEMMA StoredIs ==
    ASSUME BuildInv, pc = "done", NEW x \in AllProps
    PROVE  /\ StoredField(x) \in AllProps /\ ~IsEdge(StoredField(x))
           /\ TypeOf(The(StoredField(x))) \in {"string", "bytes", "uuid", "time", "json"}
<1>1. StoredField(x) \in AllProps /\ ~IsEdge(StoredField(x))
  BY PropsAre, KeyPropIs DEF StoredField
<1> QED BY <1>1, FieldTypes

-----------------------------------------------------------------------------
(* The stores. *)

(* Whatever the schema, a row's name for another is one text in the store of   *)
(* the server, of the browser and of the device, each through a codec its own   *)
(* adapter knows, and the Swift row converts what it could not decode          *)
(* (gen/lower.go, backend/*, target/swifttarget/target.go).                  *)
THEOREM StoresConverge == Spec => []StoresAgree
<1>1. BuildInv => StoresAgree
  <2> SUFFICES ASSUME BuildInv, pc = "done", NEW i \in Entities
               PROVE  /\ \A b \in Store : \A x \in DOMAIN Table(b, i) :
                           /\ Table(b, i)[x] \in Codecs(b)
                           /\ IsUUID(x) <=> Table(b, i)[x] = "uuid-string"
                      /\ \A x \in DOMAIN Table("grdb", i) :
                           SwiftType(x) # "Data" =>
                             {c \in SwiftCodecs(i) : c[1] = x} =
                               {<<x, c[2]>> : c \in SwiftNeeds(SwiftType(x))}
    BY DEF StoresAgree
  <2>1. ASSUME NEW b \in Store, NEW x \in DOMAIN Table(b, i)
        PROVE  /\ Table(b, i)[x] \in Codecs(b)
               /\ IsUUID(x) <=> Table(b, i)[x] = "uuid-string"
    <3>1. x \in AllProps /\ Table(b, i)[x] = TypeCodec(b, TypeOf(The(StoredField(x))))
      BY DEF Table, Codec
    <3>2. TypeOf(The(StoredField(x))) \in {"string", "bytes", "uuid", "time", "json"}
      BY <3>1, StoredIs
    <3> QED BY <3>1, <3>2 DEF Store, Codecs, TypeCodec, IsUUID
  <2>2. ASSUME NEW x \in DOMAIN Table("grdb", i), SwiftType(x) # "Data"
        PROVE  {c \in SwiftCodecs(i) : c[1] = x} =
                 {<<x, c[2]>> : c \in SwiftNeeds(SwiftType(x))}
    <3> DEFINE T == Table("grdb", i)
    <3>1. x \in AllProps /\ T[x] = TypeCodec("grdb", TypeOf(The(StoredField(x))))
      BY DEF Table, Codec
    <3>2. TypeOf(The(StoredField(x))) \in {"string", "uuid", "time"}
      BY <2>2, <3>1, StoredIs DEF SwiftType
    <3>3. {c \in SwiftCodecs(i) : c[1] = x} = {c \in {<<x, T[x]>>} : T[x] # "identity"}
      <4>1. \A c : c \in SwiftCodecs(i) <=> \E y \in DOMAIN T : T[y] # "identity" /\ c = <<y, T[y]>>
        BY DEF SwiftCodecs
      <4>2. \A c \in SwiftCodecs(i) : c[1] = x => c = <<x, T[x]>> /\ T[x] # "identity"
        BY <4>1
      <4>3. T[x] # "identity" => <<x, T[x]>> \in SwiftCodecs(i)
        BY <4>1
      <4> QED BY <4>2, <4>3
    <3>4. CASE TypeOf(The(StoredField(x))) = "string"
      BY <3>1, <3>3, <3>4 DEF TypeCodec, SwiftType, SwiftNeeds
    <3>5. CASE TypeOf(The(StoredField(x))) = "uuid"
      <4>1. T[x] = "uuid-string" /\ SwiftType(x) = "UUID"
        BY <3>1, <3>5 DEF TypeCodec, SwiftType
      <4>2. SwiftNeeds("UUID") = {<<"UUID", "uuid-string">>}
        BY DEF SwiftNeeds
      <4> HIDE DEF T
      <4>3. \A c \in SwiftNeeds("UUID") : <<x, c[2]>> = <<x, "uuid-string">>
        BY <4>2
      <4>4. \E c \in SwiftNeeds("UUID") : <<x, c[2]>> = <<x, "uuid-string">>
        <5>1. <<"UUID", "uuid-string">> \in SwiftNeeds("UUID") /\ <<"UUID", "uuid-string">>[2] = "uuid-string"
          BY <4>2
        <5> QED BY <5>1
      <4>5. {<<x, c[2]>> : c \in SwiftNeeds("UUID")} = {<<x, "uuid-string">>}
        BY <4>3, <4>4
      <4> QED BY <3>3, <4>1, <4>5
    <3>6. CASE TypeOf(The(StoredField(x))) = "time"
      <4>1. T[x] = "time-epoch-millis" /\ SwiftType(x) = "Date"
        BY <3>1, <3>6 DEF TypeCodec, SwiftType
      <4>2. SwiftNeeds("Date") = {<<"Date", "time-epoch-millis">>}
        BY DEF SwiftNeeds
      <4> HIDE DEF T
      <4>3. \A c \in SwiftNeeds("Date") : <<x, c[2]>> = <<x, "time-epoch-millis">>
        BY <4>2
      <4>4. \E c \in SwiftNeeds("Date") : <<x, c[2]>> = <<x, "time-epoch-millis">>
        <5>1. <<"Date", "time-epoch-millis">> \in SwiftNeeds("Date") /\ <<"Date", "time-epoch-millis">>[2] = "time-epoch-millis"
          BY <4>2
        <5> QED BY <5>1
      <4>5. {<<x, c[2]>> : c \in SwiftNeeds("Date")} = {<<x, "time-epoch-millis">>}
        BY <4>3, <4>4
      <4> QED BY <3>3, <4>1, <4>5
    <3> QED BY <3>2, <3>4, <3>5, <3>6
  <2> QED BY <2>1, <2>2
<1> QED BY <1>1, BuildInductive, PTL

-----------------------------------------------------------------------------
(* The go server. *)

(* A generated server calls nothing that is not there: what the functions of    *)
(* one entity call of another's was generated for it, whichever operations it   *)
(* has besides get (gotarget/bare.go:83-118).                                *)
THEOREM ServerLinks == Spec => []GoLinks
<1>1. BuildInv => GoLinks
  <2> SUFFICES ASSUME BuildInv, pc = "done", NEW i \in Entities
               PROVE  Called(i) \subseteq Defined
    BY DEF GoLinks
  <2>2. \A x \in PropsOf(i) : IsEdge(x) => The(x).target \in Entities
    BY PropsAre DEF PropsOf
  <2> DEFINE To(xs) == {The(x).target : x \in {x \in xs : IsEdge(x)}}
             inKeys == UNION {{k.props[p] : p \in DOMAIN k.props} : k \in Keys(i)}
  <2>3. inKeys \subseteq PropsOf(i)
    BY KeysAre
  <2>4. Patched(i) \subseteq PropsOf(i)
    BY DEF Patched
  <2>5. To(PropsOf(i)) \subseteq Entities
    BY <2>2
  <2>6. /\ To(inKeys) \subseteq To(PropsOf(i)) /\ To(Patched(i)) \subseteq To(PropsOf(i))
    BY <2>3, <2>4
  <2>7. \A t \in Entities, f \in {"Pick", "Select", "selectKey", "Ref"} : <<f, t>> \in Defined
    BY DEF Defined
  <2>8. ASSUME NEW t \in To(PropsOf(i)), Rpc(i) \cap {"add", "patch"} # {}
        PROVE  <<"GetKey", t>> \in Defined
    <3>1. PICK x \in PropsOf(i) : IsEdge(x) /\ t = The(x).target
      OBVIOUS
    <3>2. NeedsKey(t)
      BY <2>8, <3>1 DEF NeedsKey, PropsOf
    <3> QED BY <2>5, <3>2 DEF Defined
  <2>9. Called(i) =
          (({"Select", "selectKey"} \X To(PropsOf(i)))
             \cup ({"Pick", "Ref"} \X To(inKeys))
             \cup {<<"GetKey", t>> : t \in IF "add" \in Rpc(i) THEN To(PropsOf(i)) ELSE {}}
             \cup {<<"GetKey", t>> : t \in IF "patch" \in Rpc(i) THEN To(Patched(i)) ELSE {}})
    BY DEF Called
  <2> HIDE DEF To, inKeys
  <2>10. {"Select", "selectKey"} \X To(PropsOf(i)) \subseteq Defined
    <3> SUFFICES ASSUME NEW f \in {"Select", "selectKey"}, NEW t \in To(PropsOf(i))
                 PROVE  <<f, t>> \in Defined
      OBVIOUS
    <3> QED BY <2>5, <2>7
  <2>11. {"Pick", "Ref"} \X To(inKeys) \subseteq Defined
    <3> SUFFICES ASSUME NEW f \in {"Pick", "Ref"}, NEW t \in To(inKeys) PROVE <<f, t>> \in Defined
      OBVIOUS
    <3> QED BY <2>5, <2>6, <2>7
  <2>12. {<<"GetKey", t>> : t \in IF "add" \in Rpc(i) THEN To(PropsOf(i)) ELSE {}} \subseteq Defined
    BY <2>8
  <2>13. {<<"GetKey", t>> : t \in IF "patch" \in Rpc(i) THEN To(Patched(i)) ELSE {}} \subseteq Defined
    BY <2>6, <2>8
  <2> QED BY <2>9, <2>10, <2>11, <2>12, <2>13
<1> QED BY <1>1, BuildInductive, PTL

(* Add and Patch fit the contract and the columns they were generated with,     *)
(* where the key has a default and is no list and no edge is one               *)
(* (gotarget/write.go, entschema.go, service/msg.go).                        *)
THEOREM WritesFit == Spec => []ServerFits
<1>1. BuildInv => ServerFits
  <2> SUFFICES ASSUME BuildInv, pc = "done", NEW i \in Entities,
                      The(KeyProp(i)).default, ~Repeated(The(KeyProp(i)))
               PROVE  Fits(i)
    BY DEF ServerFits
  <2>1. KeyProp(i) \in PropsOf(i) /\ IsOptional(KeyProp(i))
    BY KeyPropIs DEF PropsOf, IsOptional
  <2>2. ~IsVersion(KeyProp(i))
    <3> SUFFICES ASSUME IsVersion(KeyProp(i)) PROVE FALSE
      OBVIOUS
    <3> DEFINE m == The(KeyProp(i))
    <3>1. /\ m.key /\ ~IsEdge(KeyProp(i)) /\ IsProp(m) /\ m \in Member
          /\ key[i] \in Props(i) \ Edges(i)
      BY KeyPropIs, PropsAre, AcceptedIsClosed DEF ClosedSchema
    <3>2. key[i] = version[i]
      BY <3>1, KeyPropIs DEF IsVersion, KeyProp
    <3>3. FromRequests /\ i \in Messages /\ key[i] # 0
      BY <3>1, RequestTyped DEF BuildInv, Entities
    <3>4. version[i] = First(VersionFields(i)) /\ VersionFields(i) \in SUBSET Nat
      BY <3>3, AcceptedIs, StampsAre DEF AttachInv, BuildInv
    <3>5. key[i] \in VersionFields(i)
      BY <3>2, <3>3, <3>4, FirstIs
    <3>6. m.version
      BY <3>5 DEF VersionFields, KeyProp
    <3>7. m.as \in {"bare", "field", "edge", "both", "disabled"}
      BY <3>1 DEF Member
    <3> QED BY <3>1, <3>6, <3>7 DEF IsEdge, IsProp, MemberRefused, FieldRefused, VersionRefused
  <2>3. AddAsks(i) \subseteq AddHas(i)
    BY <2>1, <2>2 DEF AddAsks, AddHas, IsOptional
  <2>4. EntRequired(i) \subseteq AddSets(i)
    BY DEF EntRequired, AddSets, IsOptional, FieldsOf
  <2>5. PatchSets(i) \subseteq Patched(i)
    BY DEF PatchSets, PatchRequest
  <2>6. PatchSets(i) \cap EntImmutable(i) = {}
    BY <2>5 DEF Patched, EntImmutable
  <2>7. PatchClears(i) \subseteq {x \in Patched(i) : IsNullable(x)}
    BY DEF PatchClears, PatchRequest
  <2>8. PatchClears(i) \subseteq EntClearable(i)
    <3>1. \A x \in Patched(i) : x \in PropsOf(i) /\ x # KeyProp(i)
      BY KeyPropIs DEF Patched, IsImmutable
    <3> QED BY <2>7, <3>1 DEF EntClearable, IsOptional, FieldsOf, EdgesOf
  <2> QED BY <2>3, <2>4, <2>6, <2>8 DEF Fits
<1> QED BY <1>1, BuildInductive, PTL

-----------------------------------------------------------------------------
(* The Ref. *)

\* No two lookups of an entity have one name or one number: what protoc asks of
\* the oneof they are fields of.
TellsApart ==
    \A i \in Entities : \A k, l \in Keys(i) :
        k # l => KeyName(k) # KeyName(l) /\ KeyNumber(k) # KeyNumber(l)

(* Of a contract protoc reads, the go target accepts all but those with a lookup *)
(* by a lone message that has no field of the lookup's name: it finds every      *)
(* other lookup, in whatever order fields and indexes are numbered              *)
(* (gotarget/query.go:94-218).                                               *)
THEOREM ContractsRead == Spec => [](TellsApart => GoReadsContract)
<1>1. BuildInv => (TellsApart => GoReadsContract)
  <2> SUFFICES ASSUME BuildInv, pc = "done", TellsApart, NEW i \in Entities, "get" \in Rpc(i)
               PROVE  (\E k \in Keys(i) :
                         k.n = 0 /\ HoldsMessage(k) /\ KeyName(k) \notin MessageFields(k))
                        <=> ShapeRefused(i)
    BY DEF GoReadsContract
  <2>1. ASSUME NEW k \in Keys(i)
        PROVE  OneofFieldNamed(i, k) = {[name |-> KeyName(k), number |-> KeyNumber(k), key |-> k]}
    BY DEF OneofFieldNamed, Oneof, TellsApart
  <2>2. ASSUME NEW k \in Keys(i)
        PROVE  MembersMissing(i, k) <=>
                 HoldsMessage(k) /\ {The(k.props[p]).name : p \in DOMAIN k.props} \ MessageFields(k) # {}
    <3>1. \A f \in OneofFieldNamed(i, k) : f.key = k
      BY <2>1
    <3>2. OneofFieldNamed(i, k) # {}
      BY <2>1
    <3> QED BY <3>1, <3>2 DEF MembersMissing
  <2>3. ASSUME NEW k \in Keys(i)
        PROVE  {The(k.props[p]).name : p \in DOMAIN k.props} \ MessageFields(k) # {}
                 <=> k.n = 0 /\ KeyName(k) \notin MessageFields(k)
    <3>1. CASE k.n = 0
      <4>1. DOMAIN k.props = {1} /\ KeyName(k) = The(k.props[1]).name
        BY <3>1, KeysAre DEF KeyName
      <4> QED BY <3>1, <4>1
    <3>2. CASE k.n # 0
      BY <3>2 DEF MessageFields
    <3> QED BY <3>1, <3>2
  <2>4. ShapeRefused(i) <=> \E k \in Keys(i) : OneofFieldNamed(i, k) = {} \/ MembersMissing(i, k)
    BY DEF ShapeRefused
  <2> QED BY <2>1, <2>2, <2>3, <2>4
<1> QED BY <1>1, BuildInductive, PTL

(* The server reads what the client wrote, of a contract protoc reads: the query *)
(* that comes of the client's Ref asks of the columns of that lookup, and of no   *)
(* others, for what the row has in each (ts/client.go:76-176, gotarget/          *)
(* bare.go:425-517).                                                         *)
THEOREM RefsArrive == Spec => [](TellsApart => ServerReadsClient)
<1>1. BuildInv => (TellsApart => ServerReadsClient)
  <2> SUFFICES ASSUME BuildInv, pc = "done", TellsApart, NEW i \in Entities, NEW k \in Keys(i)
               PROVE  Picked(i, ClientRef(i, k)) =
                        {[of |-> Value(k.props[p]), is |-> Value(k.props[p])] : p \in DOMAIN k.props}
    BY DEF ServerReadsClient
  <2> DEFINE ref == ClientRef(i, k)
             part(x) == [name |-> The(x).name, value |-> Value(x),
                         case |-> IF IsEdge(x) THEN KeyName(Primary(The(x).target)) ELSE ""]
             asks(x) == [of |-> Value(x), is |-> Value(x)]
             props == {k.props[p] : p \in DOMAIN k.props}
             Asks == {a \in (DOMAIN k.props) \X ref.fields :
                        k.n = 0 \/ a[2].name = The(k.props[a[1]]).name}
             Of(a) == {[of |-> c, is |-> a[2].value] : c \in Queried(k.props[a[1]], a[2])}
  <2>1. ref.case = KeyName(k) /\ ref.fields = {part(x) : x \in props}
    <3>1. CaseLabel(i, k) = KeyName(k)
      <4>1. [name |-> KeyName(k), number |-> KeyNumber(k), key |-> k] \in Oneof(i)
        BY DEF Oneof
      <4>2. \A f \in Oneof(i) : f.number = KeyNumber(k) => f.name = KeyName(k)
        BY DEF Oneof, TellsApart
      <4> QED BY <4>1, <4>2 DEF CaseLabel
    <3> QED BY <3>1 DEF ClientRef
  <2>2. {l \in Keys(i) : KeyName(l) = ref.case} = {k}
    BY <2>1 DEF TellsApart
  <2>3. Picked(i, ref) = UNION {Of(a) : a \in Asks}
    <3>1. Picked(i, ref) =
            UNION {UNION {{[of |-> c, is |-> a[2].value] : c \in Queried(l.props[a[1]], a[2])} :
                            a \in {a \in (DOMAIN l.props) \X ref.fields :
                                     l.n = 0 \/ a[2].name = The(l.props[a[1]]).name}} :
                     l \in {l \in Keys(i) : KeyName(l) = ref.case}}
      BY DEF Picked
    <3> QED BY <2>2, <3>1
  <2> HIDE DEF ref
  <2>4. \A p \in DOMAIN k.props : k.props[p] \in PropsOf(i)
    BY KeysAre
  <2>5. ASSUME NEW x \in PropsOf(i) PROVE Queried(x, part(x)) = {Value(x)}
    <3>1. CASE IsEdge(x)
      <4>1. The(x).target \in Entities
        BY <3>1, PropsAre DEF PropsOf
      <4>2. {t \in Keys(The(x).target) : KeyName(t) = KeyName(Primary(The(x).target))}
              = {Primary(The(x).target)}
        BY <4>1, KeyPropIs DEF TellsApart
      <4>3. Primary(The(x).target).props[1] = KeyProp(The(x).target)
        BY DEF Primary
      <4> QED BY <3>1, <4>2, <4>3 DEF Queried, Value
    <3>2. CASE ~IsEdge(x)
      BY <3>2 DEF Queried, Value
    <3> QED BY <3>1, <3>2
  <2>6. \A a \in Asks : Of(a) = {asks(k.props[a[1]])}
    <3> SUFFICES ASSUME NEW p \in DOMAIN k.props, NEW f \in ref.fields,
                        k.n = 0 \/ f.name = The(k.props[p]).name
                 PROVE  Of(<<p, f>>) = {asks(k.props[p])}
      OBVIOUS
    <3>1. PICK q \in DOMAIN k.props : f = part(k.props[q])
      BY <2>1
    <3>2. k.props[q] = k.props[p]
      <4>1. CASE k.n = 0
        BY <4>1, KeysAre
      <4>2. CASE f.name = The(k.props[p]).name
        <5>1. The(k.props[q]).name = The(k.props[p]).name
          BY <3>1, <4>2
        <5> QED BY <2>4, <5>1, NamesTell
      <4> QED BY <4>1, <4>2
    <3>3. Queried(k.props[p], f) = {Value(k.props[p])} /\ f.value = Value(k.props[p])
      BY <2>4, <2>5, <3>1, <3>2
    <3> QED BY <3>3
  <2>7. \A p \in DOMAIN k.props : <<p, part(k.props[p])>> \in Asks
    BY <2>1
  <2>8. \A z : (\E a \in Asks : z \in Of(a)) <=> \E p \in DOMAIN k.props : z = asks(k.props[p])
    <3>1. \A a \in Asks : a[1] \in DOMAIN k.props
      OBVIOUS
    <3> HIDE DEF Asks, Of, asks, part
    <3>2. ASSUME NEW p \in DOMAIN k.props
          PROVE  Of(<<p, part(k.props[p])>>) = {asks(k.props[p])}
      <4> DEFINE a == <<p, part(k.props[p])>>
      <4>1. a \in Asks /\ a[1] = p
        BY <2>7
      <4> HIDE DEF a
      <4>2. Of(a) = {asks(k.props[p])}
        BY <2>6, <4>1
      <4> QED BY <4>2 DEF a
    <3> QED BY <2>6, <2>7, <3>1, <3>2
  <2> HIDE DEF Asks, Of
  <2>9. UNION {Of(a) : a \in Asks} = {asks(k.props[p]) : p \in DOMAIN k.props}
    BY <2>8
  <2> QED BY <2>3, <2>9 DEF ref
<1> QED BY <1>1, BuildInductive, PTL

-----------------------------------------------------------------------------
(* The contract. *)

\* What the contracts have that are read, beyond what Build asks: numbers protoc
\* takes, and not 10000, of which a patch makes 19999; a key that is field 1, as
\* `ref' is in a patch; no index that has a prop twice; and no edge to an entity
\* that cannot be read (its messages would be mentioned and not there).
PlainContract ==
    /\ TellsApart
    /\ \A x \in AllProps : /\ Number(x) \in 1..MaxNumber
                           /\ Number(x) \notin ReservedNumbers /\ Number(x) # 10000
    /\ \A i \in Entities :
         /\ Number(KeyProp(i)) = 1
         /\ \A x \in PropsOf(i) : IsEdge(x) => "get" \in Rpc(The(x).target)
         /\ \A k \in Keys(i) : \A p, q \in DOMAIN k.props : p # q => k.props[p] # k.props[q]

LEMMA Most == MaxNumber \in Nat /\ MaxNumber > 20000
  BY SMT DEF MaxNumber

(* No two fields of an emitted message have one number, and none has a number    *)
(* proto reserves: a patch request, whose numbers are doubled, too, or the run    *)
(* is refused (service/msg.go:185-237).                                      *)
THEOREM ContractsNumbered == Spec => [](PlainContract => ContractReads)
<1>1. BuildInv => (PlainContract => ContractReads)
  <2> SUFFICES ASSUME BuildInv, pc = "done", PlainContract, NEW i \in Entities,
                      ~("patch" \in Rpc(i) /\ PatchRefused(i))
               PROVE  MentionsGiven(i) /\ \A fields \in Numbered(i) : WellNumbered(fields)
    BY DEF ContractReads
  <2>0. MentionsGiven(i)
    BY DEF PlainContract, MentionsGiven, MentionsRef, MentionsSelect, NeedsRef
  <2> SUFFICES ASSUME NEW fields \in Numbered(i) PROVE WellNumbered(fields)
    BY <2>0
  <2>1. \A x \in PropsOf(i) : /\ Number(x) \in 1..MaxNumber
                              /\ Number(x) \notin ReservedNumbers /\ Number(x) # 10000
    BY DEF PlainContract, PropsOf
  <2>2. \A x, y \in PropsOf(i) : x # y => Number(x) # Number(y)
    BY NamesTell DEF Number
  <2>3. CASE fields = AddRequest(i)
    <3>1. \A f \in fields : \E x \in PropsOf(i) : f = <<<<"value", x>>, Number(x)>>
      BY <2>3 DEF AddRequest
    <3>2. ASSUME NEW f \in fields, NEW g \in fields, f # g PROVE f[2] # g[2]
      <4>1. PICK x \in PropsOf(i) : f = <<<<"value", x>>, Number(x)>>
        BY <3>1
      <4>2. PICK y \in PropsOf(i) : g = <<<<"value", y>>, Number(y)>>
        BY <3>1
      <4> QED BY <2>2, <3>2, <4>1, <4>2
    <3>3. ASSUME NEW f \in fields PROVE f[2] \in 1..MaxNumber /\ f[2] \notin ReservedNumbers
      BY <2>1, <3>1
    <3> QED BY <3>2, <3>3 DEF WellNumbered
  <2>4. CASE fields = RefOneof(i)
    <3>1. \A f \in fields : \E k \in Keys(i) : f = <<<<"key", k>>, KeyNumber(k)>>
      BY <2>4 DEF RefOneof
    <3>2. ASSUME NEW f \in fields, NEW g \in fields, f # g PROVE f[2] # g[2]
      <4>1. PICK k \in Keys(i) : f = <<<<"key", k>>, KeyNumber(k)>>
        BY <3>1
      <4>2. PICK l \in Keys(i) : g = <<<<"key", l>>, KeyNumber(l)>>
        BY <3>1
      <4> QED BY <3>2, <4>1, <4>2 DEF PlainContract, TellsApart
    <3>3. ASSUME NEW f \in fields PROVE f[2] \in 1..MaxNumber /\ f[2] \notin ReservedNumbers
      <4>1. PICK k \in Keys(i) : f = <<<<"key", k>>, KeyNumber(k)>>
        BY <3>1
      <4>2. k.props[1] \in PropsOf(i)
        BY KeysAre
      <4> QED BY <2>1, <4>1, <4>2 DEF KeyNumber
    <3> QED BY <3>2, <3>3 DEF WellNumbered
  <2>5. ASSUME NEW k \in Keys(i), fields = RefBy(k) PROVE WellNumbered(fields)
    <3>1. \A f \in fields : \E p \in DOMAIN k.props : f = <<<<"member", p>>, Number(k.props[p])>>
      BY <2>5 DEF RefBy
    <3>2. \A p \in DOMAIN k.props : k.props[p] \in PropsOf(i)
      BY KeysAre
    <3>3. ASSUME NEW f \in fields, NEW g \in fields, f # g PROVE f[2] # g[2]
      <4>1. PICK p \in DOMAIN k.props : f = <<<<"member", p>>, Number(k.props[p])>>
        BY <3>1
      <4>2. PICK q \in DOMAIN k.props : g = <<<<"member", q>>, Number(k.props[q])>>
        BY <3>1
      <4>3. k.props[p] # k.props[q]
        BY <3>3, <4>1, <4>2 DEF PlainContract
      <4> QED BY <2>2, <3>2, <4>1, <4>2, <4>3
    <3>4. ASSUME NEW f \in fields PROVE f[2] \in 1..MaxNumber /\ f[2] \notin ReservedNumbers
      BY <2>1, <3>1, <3>2
    <3> QED BY <3>3, <3>4 DEF WellNumbered
  <2>6. CASE fields = PatchRequest(i) /\ "patch" \in Rpc(i)
    <3>1. \A x \in Patched(i) : /\ x \in PropsOf(i) /\ Number(x) \in 2..MaxNumber
                                /\ Number(x) \notin ReservedNumbers /\ Number(x) # 10000
                                /\ 2 * Number(x) \notin ReservedNumbers
                                /\ 2 * Number(x) <= MaxNumber
      <4> SUFFICES ASSUME NEW x \in Patched(i)
                   PROVE  /\ x \in PropsOf(i) /\ Number(x) \in 2..MaxNumber
                          /\ Number(x) \notin ReservedNumbers /\ Number(x) # 10000
                          /\ 2 * Number(x) \notin ReservedNumbers
                          /\ 2 * Number(x) <= MaxNumber
        OBVIOUS
      <4>1. x \in PropsOf(i) /\ x # KeyProp(i) /\ KeyProp(i) \in PropsOf(i)
        BY KeyPropIs DEF Patched, IsImmutable, PropsOf
      <4>2. Number(x) # 1
        BY <2>2, <4>1 DEF PlainContract
      <4>3. 2 * Number(x) \notin ReservedNumbers /\ ~(2 * Number(x) > MaxNumber)
        BY <2>6 DEF PatchRefused
      <4>4. Number(x) \in 1..MaxNumber /\ MaxNumber \in Nat
        BY <2>1, <4>1, Most
      <4> QED BY <2>1, <4>1, <4>2, <4>3, <4>4
    <3>2. \A f \in fields :
            \/ f = <<<<"ref">>, 1>>
            \/ \E x \in Patched(i) : f = <<<<"value", x>>, 2 * Number(x) - 1>>
            \/ \E x \in Patched(i) : f = <<<<"companion", x>>, 2 * Number(x)>>
      BY <2>6 DEF PatchRequest, PlainContract
    <3>3. ASSUME NEW f \in fields PROVE f[2] \in 1..MaxNumber /\ f[2] \notin ReservedNumbers
      <4>1. CASE f = <<<<"ref">>, 1>>
        BY <4>1, Most DEF ReservedNumbers
      <4>2. ASSUME NEW x \in Patched(i), f = <<<<"value", x>>, 2 * Number(x) - 1>>
            PROVE  f[2] \in 1..MaxNumber /\ f[2] \notin ReservedNumbers
        <5>1. f[2] = 2 * Number(x) - 1
          BY <4>2
        <5> QED BY <3>1, <5>1, Most, SMT DEF ReservedNumbers
      <4>3. ASSUME NEW x \in Patched(i), f = <<<<"companion", x>>, 2 * Number(x)>>
            PROVE  f[2] \in 1..MaxNumber /\ f[2] \notin ReservedNumbers
        <5>1. f[2] = 2 * Number(x)
          BY <4>3
        <5> QED BY <3>1, <5>1, Most, SMT DEF ReservedNumbers
      <4> QED BY <3>2, <4>1, <4>2, <4>3
    <3>4. ASSUME NEW x \in Patched(i), NEW y \in Patched(i)
          PROVE  /\ 2 * Number(x) - 1 # 1 /\ 2 * Number(x) # 1
                 /\ 2 * Number(x) - 1 # 2 * Number(y)
                 /\ x # y => Number(x) # Number(y)
                 /\ 2 * Number(x) = 2 * Number(y) => x = y
                 /\ 2 * Number(x) - 1 = 2 * Number(y) - 1 => x = y
      <4>1. Number(x) \in Int /\ Number(y) \in Int /\ Number(x) > 1
        BY <3>1, Most
      <4>2. x # y => Number(x) # Number(y)
        BY <2>2, <3>1
      <4> QED BY <4>1, <4>2
    <3>5. ASSUME NEW f \in fields, NEW g \in fields, f[2] = g[2] PROVE f = g
      <4> DEFINE ref == <<<<"ref">>, 1>>
                 value(x) == <<<<"value", x>>, 2 * Number(x) - 1>>
                 companion(x) == <<<<"companion", x>>, 2 * Number(x)>>
      <4>1. \A h \in fields : \/ h = ref
                              \/ \E x \in Patched(i) : h = value(x) \/ h = companion(x)
        BY <3>2
      <4>2. \A x : /\ ref[2] = 1 /\ value(x)[2] = 2 * Number(x) - 1
                   /\ companion(x)[2] = 2 * Number(x)
        OBVIOUS
      <4> HIDE DEF ref, value, companion
      <4>3. CASE f = ref \/ g = ref
        <5>1. \A h \in fields : h[2] = 1 => h = ref
          <6> SUFFICES ASSUME NEW h \in fields, h # ref PROVE h[2] # 1
            OBVIOUS
          <6>1. PICK x \in Patched(i) : h = value(x) \/ h = companion(x)
            BY <4>1
          <6> QED BY <3>4, <4>2, <6>1
        <5> QED BY <3>5, <4>2, <4>3, <5>1
      <4>4. CASE f # ref /\ g # ref
        <5>1. PICK x \in Patched(i) : f = value(x) \/ f = companion(x)
          BY <4>1, <4>4
        <5>2. PICK y \in Patched(i) : g = value(y) \/ g = companion(y)
          BY <4>1, <4>4
        <5>3. \/ f = value(x) /\ g = value(y)
              \/ f = companion(x) /\ g = companion(y)
          BY <3>4, <3>5, <4>2, <5>1, <5>2
        <5>4. x = y
          BY <3>4, <3>5, <4>2, <5>3
        <5> QED BY <5>3, <5>4
      <4> QED BY <4>3, <4>4
    <3> QED BY <3>3, <3>5 DEF WellNumbered
  <2> QED BY <2>3, <2>4, <2>5, <2>6 DEF Numbered
<1> QED BY <1>1, BuildInductive, PTL

-----------------------------------------------------------------------------
(* Lookups. *)

\* Every key has a name of one word, which protobuf spells as it is.
OneWordKeys == \A i \in Entities : The(KeyProp(i)).words = 1

\* A name of one word is one path, in compat mode too.
LEMMA OneSpelling ==
    ASSUME BuildInv, pc = "done", OneWordKeys, NEW x \in AllProps, The(x).words = 1
    PROVE  StorePath(x, TRUE) = StorePath(x, FALSE)
<1>1. IsEdge(x) => The(x).target \in Entities
  BY PropsAre
<1> QED BY <1>1 DEF OneWordKeys, StorePath, Spelling

(* A lookup that compat: orm-ts takes away was warned of, or is one by an index  *)
(* of one member (dexie.go:91-137, docs/targets/typescript.md:137-151): the      *)
(* warnings leave the names of keys out, so keys are of one word here.           *)
THEOREM LossesSaid == Spec => [](OneWordKeys => CompatLossSaid)
<1>1. BuildInv => (OneWordKeys => CompatLossSaid)
  <2> SUFFICES ASSUME BuildInv, pc = "done", OneWordKeys, NEW i \in Entities, NEW k \in Keys(i),
                      Finds(i, k, FALSE), ~(k.n # 0 /\ Len(k.props) = 1),
                      \A p \in DOMAIN k.props : k.props[p] \notin Mismatches(i)
               PROVE  Finds(i, k, TRUE)
    BY DEF CompatLossSaid
  <2>1. Paths(Primary(i), TRUE) = Paths(Primary(i), FALSE)
    <3>1. The(KeyProp(i)).words = 1 /\ KeyProp(i) \in AllProps
      BY KeyPropIs DEF OneWordKeys
    <3>2. StorePath(KeyProp(i), TRUE) = StorePath(KeyProp(i), FALSE)
      BY <3>1, OneSpelling
    <3>3. DOMAIN Primary(i).props = {1} /\ Primary(i).props[1] = KeyProp(i)
      BY DEF Primary
    <3> HIDE DEF StorePath
    <3> QED BY <3>2, <3>3 DEF Paths
  <2>2. ASSUME k # Primary(i) PROVE Serves(KeyPart(k, TRUE), Paths(k, FALSE))
    <3>1. k.props \in Seq(AllProps) /\ Len(k.props) \in Nat \ {0} /\ DOMAIN k.props = 1..Len(k.props)
      BY KeysAre
    <3>2. \A p \in DOMAIN k.props : The(k.props[p]).words = 1
      <4> SUFFICES ASSUME NEW p \in DOMAIN k.props PROVE The(k.props[p]).words = 1
        OBVIOUS
      <4>1. k.props[p] \in AllProps
        BY <3>1
      <4>2. The(k.props[p]).words \in {1, 2}
        BY <4>1, PropsAre DEF Member
      <4>3. ~(The(k.props[p]).words > 1)
        BY <2>2 DEF Mismatches
      <4> QED BY <4>2, <4>3
    <3>3. Paths(k, TRUE) = Paths(k, FALSE)
      <4>1. \A p \in DOMAIN k.props : StorePath(k.props[p], TRUE) = StorePath(k.props[p], FALSE)
        <5> SUFFICES ASSUME NEW p \in DOMAIN k.props
                     PROVE  StorePath(k.props[p], TRUE) = StorePath(k.props[p], FALSE)
          OBVIOUS
        <5>1. k.props[p] \in AllProps
          BY <3>1
        <5> QED BY <3>2, <5>1, OneSpelling
      <4> QED BY <4>1 DEF Paths
    <3>4. Len(Paths(k, FALSE)) = Len(k.props)
      BY <3>1 DEF Paths
    <3>5. KeyPart(k, TRUE).paths = Paths(k, FALSE) /\ (KeyPart(k, TRUE).brackets <=> k.n # 0)
      BY <3>3 DEF KeyPart
    <3>6. k.n = 0 => Len(k.props) = 1
      <4> DEFINE x == k.props[1]
      <4>1. k.n = 0 => k.props = <<x>>
        BY KeysAre
      <4> HIDE DEF x
      <4> QED BY <4>1
    <3> QED BY <3>1, <3>4, <3>5, <3>6 DEF Serves
  <2>3. KeyPart(Primary(i), TRUE).paths = Paths(Primary(i), FALSE)
    BY <2>1 DEF KeyPart
  <2>4. k = Primary(i) \/ \E part \in SchemaString(i, TRUE) : Serves(part, Paths(k, FALSE))
    BY <2>2 DEF SchemaString
  <2> QED BY <2>3, <2>4 DEF Finds
<1> QED BY <1>1, BuildInductive, PTL

\* What a conversion makes of a value that is in no key, and in one.
LEMMA TimesU8 ==
    ASSUME NEW v PROVE Times(U8Str, v, 0) = v /\ Times(U8Str, v, 1) = U8Str(v)
<1> DEFINE Is(n, c) == c = [m \in 0..n |-> IF m = 0 THEN v ELSE U8Str(c[m - 1])]
<1>1. Times(U8Str, v, 0) = v
  <2> DEFINE c == CHOOSE c : Is(0, c)
  <2>1. Is(0, [m \in 0..0 |-> v])
    OBVIOUS
  <2>2. Is(0, c)
    BY <2>1
  <2>3. Times(U8Str, v, 0) = c[0]
    BY DEF Times
  <2> HIDE DEF c
  <2> QED BY <2>2, <2>3
<1>2. Times(U8Str, v, 1) = U8Str(v)
  <2> DEFINE c == CHOOSE c : Is(1, c)
             d == [m \in 0..1 |-> IF m = 0 THEN v ELSE U8Str(v)]
  <2>1. Is(1, d)
    <3>1. d[0] = v
      OBVIOUS
    <3>2. \A m \in 0..1 : d[m] = IF m = 0 THEN v ELSE U8Str(d[m - 1])
      BY <3>1
    <3>3. d = [m \in 0..1 |-> d[m]]
      OBVIOUS
    <3> HIDE DEF d
    <3> QED BY <3>2, <3>3
  <2>2. Is(1, c)
    BY <2>1
  <2>3. Times(U8Str, v, 1) = c[1]
    BY DEF Times
  <2> HIDE DEF c
  <2>4. c[0] = v /\ c[1] = U8Str(c[0])
    BY <2>2
  <2> QED BY <2>3, <2>4
<1> QED BY <1>1, <1>2

LEMMA TimesStr ==
    ASSUME NEW v PROVE Times(StrU8, v, 0) = v /\ Times(StrU8, v, 1) = StrU8(v)
<1> DEFINE Is(n, c) == c = [m \in 0..n |-> IF m = 0 THEN v ELSE StrU8(c[m - 1])]
<1>1. Times(StrU8, v, 0) = v
  <2> DEFINE c == CHOOSE c : Is(0, c)
  <2>1. Is(0, [m \in 0..0 |-> v])
    OBVIOUS
  <2>2. Is(0, c)
    BY <2>1
  <2>3. Times(StrU8, v, 0) = c[0]
    BY DEF Times
  <2> HIDE DEF c
  <2> QED BY <2>2, <2>3
<1>2. Times(StrU8, v, 1) = StrU8(v)
  <2> DEFINE c == CHOOSE c : Is(1, c)
             d == [m \in 0..1 |-> IF m = 0 THEN v ELSE StrU8(v)]
  <2>1. Is(1, d)
    <3>1. d[0] = v
      OBVIOUS
    <3>2. \A m \in 0..1 : d[m] = IF m = 0 THEN v ELSE StrU8(d[m - 1])
      BY <3>1
    <3>3. d = [m \in 0..1 |-> d[m]]
      OBVIOUS
    <3> HIDE DEF d
    <3> QED BY <3>2, <3>3
  <2>2. Is(1, c)
    BY <2>1
  <2>3. Times(StrU8, v, 1) = c[1]
    BY DEF Times
  <2> HIDE DEF c
  <2>4. c[0] = v /\ c[1] = StrU8(c[0])
    BY <2>2
  <2> QED BY <2>3, <2>4
<1> QED BY <1>1, <1>2

\* A uuid has one place at most in the keys of its entity.
UuidOnce ==
    \A i \in Entities : \A k, l \in Keys(i) : \A p \in DOMAIN k.props, q \in DOMAIN l.props :
        IsUUID(k.props[p]) /\ k.props[p] = l.props[q] => k = l /\ p = q

Places(x, keys) ==
    UNION {{<<k, p>> : p \in {p \in DOMAIN k.props : k.props[p] = x}} : k \in keys}

LEMMA PlacesAre ==
    ASSUME NEW x, NEW keys
    PROVE  \A c : c \in Places(x, keys) <=>
             \E k \in keys : \E p \in DOMAIN k.props : k.props[p] = x /\ c = <<k, p>>
  BY DEF Places

\* What has one place at most is converted once or not at all.
LEMMA ComponentsAre ==
    ASSUME BuildInv, pc = "done", UuidOnce, NEW i \in Entities, NEW x \in PropsOf(i), IsUUID(x)
    PROVE  /\ x = KeyProp(i) => /\ Components(i, x, Keys(i) \ {Primary(i)}) = 0
                                /\ Components(i, x, Keys(i)) = 1
           /\ x # KeyProp(i) => /\ Components(i, x, Keys(i)) \in {0, 1}
                                /\ Components(i, x, Keys(i) \ {Primary(i)})
                                     = Components(i, x, Keys(i))
           /\ \A k \in Keys(i) : (\E p \in DOMAIN k.props : k.props[p] = x) =>
                /\ Components(i, x, Keys(i)) = 1
                /\ x = KeyProp(i) => k = Primary(i)
<1> DEFINE all == Places(x, Keys(i))
           others == Places(x, Keys(i) \ {Primary(i)})
<1>1. /\ Components(i, x, Keys(i)) = Cardinality(all)
      /\ Components(i, x, Keys(i) \ {Primary(i)}) = Cardinality(others)
  BY DEF Components, Places
<1>2. \A c, d \in all : c = d
  <2> SUFFICES ASSUME NEW c \in all, NEW d \in all PROVE c = d
    OBVIOUS
  <2>a. PICK k \in Keys(i) : \E p \in DOMAIN k.props : k.props[p] = x /\ c = <<k, p>>
    BY PlacesAre
  <2>1. PICK p \in DOMAIN k.props : k.props[p] = x /\ c = <<k, p>>
    BY <2>a
  <2>b. PICK l \in Keys(i) : \E q \in DOMAIN l.props : l.props[q] = x /\ d = <<l, q>>
    BY PlacesAre
  <2>2. PICK q \in DOMAIN l.props : l.props[q] = x /\ d = <<l, q>>
    BY <2>b
  <2>3. k = l /\ p = q
    BY <2>1, <2>2 DEF UuidOnce
  <2> QED BY <2>1, <2>2, <2>3
<1>3. Primary(i) \in Keys(i) /\ DOMAIN Primary(i).props = {1} /\ Primary(i).props[1] = KeyProp(i)
  BY KeyPropIs DEF Primary
<1>4. others = {c \in all : c[1] # Primary(i)}
  <2>1. \A c : c \in others <=>
          \E k \in Keys(i) : \E p \in DOMAIN k.props :
             k # Primary(i) /\ k.props[p] = x /\ c = <<k, p>>
    BY PlacesAre
  <2>2. \A c : c \in all <=> \E k \in Keys(i) : \E p \in DOMAIN k.props :
                               k.props[p] = x /\ c = <<k, p>>
    BY PlacesAre
  <2> HIDE DEF all, others
  <2> QED BY <2>1, <2>2
<1>5. \A k \in Keys(i) : \A p \in DOMAIN k.props : k.props[p] = x => <<k, p>> \in all
  BY PlacesAre
<1>6. \A c \in all : c[1] \in Keys(i) /\ \E p \in DOMAIN c[1].props : c[1].props[p] = x /\ c = <<c[1], p>>
  BY PlacesAre
<1>7. Cardinality({}) = 0 /\ \A c : Cardinality({c}) = 1
  BY FS_EmptySet, FS_Singleton
<1> HIDE DEF all, others
<1>8. all = {} \/ \E c : all = {c}
  <2> SUFFICES ASSUME NEW c \in all PROVE all = {c}
    OBVIOUS
  <2> QED BY <1>2
<1>9. CASE x = KeyProp(i)
  <2>1. <<Primary(i), 1>> \in all
    BY <1>3, <1>5, <1>9
  <2>2. all = {<<Primary(i), 1>>} /\ others = {}
    BY <1>2, <1>4, <2>1
  <2>3. \A k \in Keys(i) : (\E p \in DOMAIN k.props : k.props[p] = x) => k = Primary(i)
    BY <1>2, <1>5, <2>1
  <2> QED BY <1>1, <1>7, <1>9, <2>2, <2>3
<1>10. CASE x # KeyProp(i)
  <2>1. others = all
    BY <1>3, <1>4, <1>6, <1>10
  <2>2. (\E k \in Keys(i) : \E p \in DOMAIN k.props : k.props[p] = x) => \E c : all = {c}
    BY <1>5, <1>8
  <2> QED BY <1>1, <1>7, <1>8, <1>10, <2>1, <2>2
<1> QED BY <1>9, <1>10

\* What a row holds of a prop, and what is read back.
LEMMA StoredAs ==
    ASSUME BuildInv, pc = "done", UuidOnce, NEW i \in Entities, NEW x \in PropsOf(i)
    PROVE  /\ Hydrated(i, x) = "raw"
           /\ \A k \in Keys(i) : (\E p \in DOMAIN k.props : k.props[p] = x) =>
                Dehydrated(i, x) = Keyer(x)
<1>1. CASE ~IsUUID(x)
  <2>1. \A keys : Components(i, x, keys) = 0
    BY <1>1 DEF Components
  <2>2. Dehydrated(i, x) = Times(U8Str, "raw", 0)
    BY <1>1, <2>1 DEF Dehydrated
  <2>3. Dehydrated(i, x) = "raw"
    BY <2>2, TimesU8
  <2>4. Hydrated(i, x) = Times(StrU8, "raw", 0)
    BY <2>1, <2>3 DEF Hydrated
  <2>5. Hydrated(i, x) = "raw" /\ Keyer(x) = "raw"
    BY <1>1, <2>4, TimesStr DEF Keyer
  <2> QED BY <2>3, <2>5
<1>2. CASE IsUUID(x) /\ x = KeyProp(i)
  <2>1. Dehydrated(i, x) = U8Str("raw")
    BY <1>2, ComponentsAre, TimesU8 DEF Dehydrated
  <2>2. Hydrated(i, x) = StrU8(U8Str("raw"))
    BY <1>2, <2>1, ComponentsAre, TimesStr DEF Hydrated
  <2> QED BY <1>2, <2>1, <2>2 DEF U8Str, StrU8, Keyer
<1>3. CASE IsUUID(x) /\ x # KeyProp(i)
  <2> DEFINE n == Components(i, x, Keys(i))
  <2>1. n \in {0, 1} /\ Components(i, x, Keys(i) \ {Primary(i)}) = n
    BY <1>3, ComponentsAre
  <2>2. \A k \in Keys(i) : (\E p \in DOMAIN k.props : k.props[p] = x) => n = 1
    BY <1>3, ComponentsAre
  <2>3. Dehydrated(i, x) = Times(U8Str, "raw", n) /\ Hydrated(i, x) = Times(StrU8, Dehydrated(i, x), n)
    BY <1>3, <2>1 DEF Dehydrated, Hydrated
  <2> HIDE DEF n
  <2>4. CASE n = 0
    <3>1. Dehydrated(i, x) = Times(U8Str, "raw", 0) /\ Hydrated(i, x) = Times(StrU8, Dehydrated(i, x), 0)
      BY <2>3, <2>4
    <3>2. Dehydrated(i, x) = "raw"
      BY <3>1, TimesU8
    <3>3. Hydrated(i, x) = "raw"
      BY <3>1, <3>2, TimesStr
    <3> QED BY <2>2, <2>4, <3>3
  <2>5. CASE n = 1
    <3>1. Dehydrated(i, x) = U8Str("raw")
      BY <2>3, <2>5, TimesU8
    <3>2. Hydrated(i, x) = StrU8(U8Str("raw"))
      BY <2>3, <2>5, <3>1, TimesStr
    <3> QED BY <1>3, <3>1, <3>2 DEF U8Str, StrU8, Keyer
  <2> QED BY <2>1, <2>4, <2>5
<1> QED BY <1>1, <1>2, <1>3

(* A message that was stored in the browser and is read again is the message,    *)
(* where no uuid is converted twice (ts/entity.go:204-236).                      *)
THEOREM StoredComesBack == Spec => [](UuidOnce => RoundTrip)
<1>1. BuildInv => (UuidOnce => RoundTrip)
  <2> SUFFICES ASSUME BuildInv, pc = "done", UuidOnce, NEW x \in AllProps
               PROVE  Hydrated(x[1], x) = "raw"
    BY DEF RoundTrip
  <2>1. x[1] \in Entities /\ x \in PropsOf(x[1])
    BY PropsAre DEF PropsOf
  <2> QED BY <2>1, StoredAs
<1> QED BY <1>1, BuildInductive, PTL

\* Of a conversion that is made again and again, each time of what it made before.
LEMMA U8Far ==
    ASSUME NEW n \in Nat, NEW v \in {"raw", "text"}, n >= IF v = "raw" THEN 2 ELSE 1
    PROVE  Times(U8Str, v, n) = "garbled"
<1> DEFINE Is(m, c) == c = [k \in 0..m |-> IF k = 0 THEN v ELSE U8Str(c[k - 1])]
           made(k) == IF k = 0 THEN v ELSE IF k = 1 /\ v = "raw" THEN "text" ELSE "garbled"
<1>1. Is(n, [k \in 0..n |-> made(k)])
  <2> DEFINE d == [k \in 0..n |-> made(k)]
  <2>1. \A k \in 0..n : d[k] = made(k)
    OBVIOUS
  <2>2. d = [k \in 0..n |-> d[k]]
    OBVIOUS
  <2> HIDE DEF d
  <2>3. \A k \in 0..n : d[k] = IF k = 0 THEN v ELSE U8Str(d[k - 1])
    BY <2>1 DEF U8Str
  <2>4. Is(n, d)
    BY <2>2, <2>3
  <2> QED BY <2>4 DEF d
<1> DEFINE c == CHOOSE c : Is(n, c)
<1>2. Is(n, c)
  BY <1>1
<1>3. Times(U8Str, v, n) = c[n]
  BY DEF Times
<1> HIDE DEF c
<1>4. c[0] = v /\ \A k \in 1..n : c[k] = U8Str(c[k - 1])
  <2>1. \A k \in 0..n : c[k] = IF k = 0 THEN v ELSE U8Str(c[k - 1])
    BY <1>2
  <2> QED BY <2>1
<1> DEFINE G == {m \in Nat : m <= n => c[m] = made(m)}
<1>5. 0 \in G
  BY <1>4
<1>6. ASSUME NEW m \in Nat, m \in G PROVE m + 1 \in G
  <2> SUFFICES ASSUME m + 1 <= n PROVE c[m + 1] = made(m + 1)
    OBVIOUS
  <2>1. c[m + 1] = U8Str(c[m])
    BY <1>4
  <2>2. c[m] = made(m)
    BY <1>6
  <2> QED BY <2>1, <2>2 DEF U8Str
<1> HIDE DEF G
<1>7. n \in G
  BY <1>5, <1>6, Induction
<1> QED BY <1>3, <1>7 DEF G

LEMMA StrFar ==
    ASSUME NEW n \in Nat, n >= 1 PROVE Times(StrU8, "garbled", n) = "lost"
<1> DEFINE Is(m, c) == c = [k \in 0..m |-> IF k = 0 THEN "garbled" ELSE StrU8(c[k - 1])]
           lost(m) == [k \in 0..m |-> IF k = 0 THEN "garbled" ELSE "lost"]
<1>1. Is(n, lost(n))
  <2> DEFINE d == lost(n)
  <2>1. \A k \in 0..n : d[k] = IF k = 0 THEN "garbled" ELSE "lost"
    OBVIOUS
  <2>2. d = [k \in 0..n |-> d[k]]
    OBVIOUS
  <2> HIDE DEF d
  <2>3. \A k \in 0..n : d[k] = IF k = 0 THEN "garbled" ELSE StrU8(d[k - 1])
    BY <2>1 DEF StrU8
  <2>4. Is(n, d)
    BY <2>2, <2>3
  <2> QED BY <2>4 DEF d
<1> DEFINE c == CHOOSE c : Is(n, c)
<1>2. Is(n, c)
  BY <1>1
<1>3. Times(StrU8, "garbled", n) = c[n]
  BY DEF Times
<1> HIDE DEF c
<1>4. c[0] = "garbled" /\ \A k \in 1..n : c[k] = StrU8(c[k - 1])
  <2>1. \A k \in 0..n : c[k] = IF k = 0 THEN "garbled" ELSE StrU8(c[k - 1])
    BY <1>2
  <2> QED BY <2>1
<1> DEFINE G == {m \in Nat : m <= n => c[m] = IF m = 0 THEN "garbled" ELSE "lost"}
<1>5. 0 \in G
  BY <1>4
<1>6. ASSUME NEW m \in Nat, m \in G PROVE m + 1 \in G
  <2> SUFFICES ASSUME m + 1 <= n PROVE c[m + 1] = "lost"
    OBVIOUS
  <2>1. c[m + 1] = StrU8(c[m]) /\ c[m] \in {"garbled", "lost"}
    BY <1>4, <1>6
  <2> QED BY <2>1 DEF StrU8
<1> HIDE DEF G
<1>7. n \in G
  BY <1>5, <1>6, Induction
<1> QED BY <1>3, <1>7 DEF G

\* An entity has finitely many places for a prop in its keys.
LEMMA Images ==
    ASSUME NEW f, f = [x \in DOMAIN f |-> f[x]], IsFiniteSet(DOMAIN f)
    PROVE  IsFiniteSet({f[x] : x \in DOMAIN f})
<1> DEFINE T == {f[x] : x \in DOMAIN f}
<1>1. f \in Surjection(DOMAIN f, T)
  BY DEF Surjection
<1> HIDE DEF T
<1>2. IsFiniteSet(T)
  BY <1>1, FS_Surjection
<1> QED BY <1>2 DEF T

LEMMA PlacesFinite ==
    ASSUME BuildInv, pc = "done", NEW i \in Entities, NEW x \in PropsOf(i),
           NEW keys \in SUBSET Keys(i)
    PROVE  IsFiniteSet(Places(x, keys))
<1> DEFINE N == DOMAIN request[i].indexes
           index(n) == [n |-> n, props |-> indexProps[i][n]]
           spots(n) == [p \in 1..Len(indexProps[i][n]) |-> <<index(n), p>>]
           M == {n \in Indexes(i) : IsUnique(i, n) /\ ~IsHidden(i, n)}
           of == [n \in M |-> {spots(n)[p] : p \in DOMAIN spots(n)}]
           first == <<[n |-> 0, props |-> <<x>>], 1>>
           all == {first} \cup UNION {of[n] : n \in DOMAIN of}
<1>1. IsFiniteSet(M)
  <2>1. request[i].indexes \in Seq(Index)
    BY RequestTyped DEF BuildInv, Entities
  <2>2. IsFiniteSet(1..Len(request[i].indexes)) /\ M \subseteq 1..Len(request[i].indexes)
    <3>1. Len(request[i].indexes) \in Nat /\ DOMAIN request[i].indexes = 1..Len(request[i].indexes)
      BY <2>1
    <3>2. M \subseteq DOMAIN request[i].indexes
      BY DEF Indexes
    <3> QED BY <3>1, <3>2, FS_Interval
  <2> HIDE DEF M
  <2> QED BY <2>2, FS_Subset
<1>2. ASSUME NEW n \in M
      PROVE  /\ indexProps[i][n] \in Seq(AllProps) /\ n # 0 /\ index(n) \in Keys(i)
             /\ of[n] = {<<index(n), p>> : p \in DOMAIN indexProps[i][n]}
             /\ IsFiniteSet(of[n])
  <2>1. index(n) \in Keys(i)
    BY DEF Keys
  <2>2. n # 0
    BY RequestTyped DEF BuildInv, Entities, Indexes
  <2>3. indexProps[i][n] \in Seq(AllProps)
    BY <2>1, KeysAre
  <2>4. Len(indexProps[i][n]) \in Nat /\ DOMAIN indexProps[i][n] = 1..Len(indexProps[i][n])
    BY <2>3
  <2>5. of[n] = {<<index(n), p>> : p \in DOMAIN indexProps[i][n]}
    BY <2>4
  <2>6. IsFiniteSet(1..Len(indexProps[i][n]))
    BY <2>4, FS_Interval
  <2> DEFINE g == spots(n)
  <2>7. g = [p \in DOMAIN g |-> g[p]] /\ DOMAIN g = 1..Len(indexProps[i][n])
    OBVIOUS
  <2>8. of[n] = {g[p] : p \in DOMAIN g}
    OBVIOUS
  <2> HIDE DEF g, of, M
  <2>9. IsFiniteSet(of[n])
    BY <2>6, <2>7, <2>8, Images
  <2> QED BY <2>1, <2>2, <2>3, <2>5, <2>9
<1>3. of = [n \in DOMAIN of |-> of[n]] /\ DOMAIN of = M
  OBVIOUS
<1>4. Places(x, keys) \subseteq all
  <2> SUFFICES ASSUME NEW c \in Places(x, keys) PROVE c \in all
    OBVIOUS
  <2>a. PICK k \in keys : \E p \in DOMAIN k.props : k.props[p] = x /\ c = <<k, p>>
    BY PlacesAre
  <2>1. PICK p \in DOMAIN k.props : k.props[p] = x /\ c = <<k, p>>
    BY <2>a
  <2>2. CASE k.n = 0
    <3>1. k = [n |-> 0, props |-> <<k.props[1]>>] /\ k.props = <<k.props[1]>>
      BY <2>2, KeysAre
    <3>2. p = 1
      <4> DEFINE y == k.props[1]
      <4>1. k.props = <<y>>
        BY <3>1
      <4> HIDE DEF y
      <4> QED BY <2>1, <4>1
    <3> QED BY <2>1, <3>1, <3>2
  <2>3. CASE k.n # 0
    <3>1. k.n \in M /\ k = index(k.n)
      BY <2>3, KeysAre
    <3>2. c \in of[k.n]
      <4>1. c = <<index(k.n), p>> /\ p \in DOMAIN indexProps[i][k.n]
        BY <2>1, <2>3, <3>1, KeysAre
      <4>2. of[k.n] = {<<index(k.n), r>> : r \in DOMAIN indexProps[i][k.n]}
        BY <1>2, <3>1
      <4> HIDE DEF of, index
      <4> QED BY <4>1, <4>2
    <3> QED BY <3>1, <3>2
  <2> QED BY <2>2, <2>3
<1>5. IsFiniteSet(all)
  <2> DEFINE T == {of[n] : n \in DOMAIN of}
  <2>1. \A s \in T : IsFiniteSet(s)
    BY <1>2
  <2> HIDE DEF of, M
  <2>2. IsFiniteSet(T)
    BY <1>1, <1>3, Images
  <2> HIDE DEF T
  <2>3. IsFiniteSet(UNION T) /\ IsFiniteSet({first})
    BY <2>1, <2>2, FS_UNION, FS_Singleton
  <2>4. IsFiniteSet({first} \cup (UNION T))
    BY <2>3, FS_Union
  <2> QED BY <2>4 DEF T
<1> HIDE DEF all
<1> QED BY <1>4, <1>5, FS_Subset

\* What has two places or more in the keys is not read back.
LEMMA TwiceIsLost ==
    ASSUME BuildInv, pc = "done", NEW i \in Entities, NEW x \in PropsOf(i), IsUUID(x),
           NEW c \in Places(x, Keys(i)), NEW d \in Places(x, Keys(i)), c # d
    PROVE  Hydrated(i, x) = "lost"
<1> DEFINE all == Places(x, Keys(i))
           others == Places(x, Keys(i) \ {Primary(i)})
           n == Components(i, x, Keys(i))
           m == Components(i, x, Keys(i) \ {Primary(i)})
<1>1. n = Cardinality(all) /\ m = Cardinality(others)
  BY DEF Components, Places
<1>2. IsFiniteSet(all) /\ IsFiniteSet(others)
  BY PlacesFinite
<1>3. Primary(i) \in Keys(i) /\ DOMAIN Primary(i).props = {1} /\ Primary(i).props[1] = KeyProp(i)
  BY KeyPropIs DEF Primary
<1>4. others = {e \in all : e[1] # Primary(i)}
  <2>1. \A e : e \in others <=>
          \E k \in Keys(i) : \E p \in DOMAIN k.props :
             k # Primary(i) /\ k.props[p] = x /\ e = <<k, p>>
    BY PlacesAre
  <2>2. \A e : e \in all <=> \E k \in Keys(i) : \E p \in DOMAIN k.props :
                               k.props[p] = x /\ e = <<k, p>>
    BY PlacesAre
  <2> HIDE DEF all, others
  <2> QED BY <2>1, <2>2
<1>5. \A e \in all : e[1] = Primary(i) => x = KeyProp(i) /\ e = <<Primary(i), 1>>
  <2> SUFFICES ASSUME NEW e \in all, e[1] = Primary(i)
               PROVE  x = KeyProp(i) /\ e = <<Primary(i), 1>>
    OBVIOUS
  <2>a. PICK k \in Keys(i) : \E p \in DOMAIN k.props : k.props[p] = x /\ e = <<k, p>>
    BY PlacesAre
  <2>1. PICK p \in DOMAIN k.props : k.props[p] = x /\ e = <<k, p>>
    BY <2>a
  <2> QED BY <1>3, <2>1
<1>6. n \in Nat /\ n >= 2
  <2>1. IsFiniteSet({c}) /\ Cardinality({c}) = 1
    BY FS_Singleton
  <2>2. Cardinality({c} \cup {d}) = 2
    <3> DEFINE S == {c}
    <3>1. IsFiniteSet(S) /\ Cardinality(S) = 1 /\ d \notin S
      BY <2>1
    <3> HIDE DEF S
    <3>2. Cardinality(S \cup {d}) = IF d \in S THEN Cardinality(S) ELSE Cardinality(S) + 1
      BY <3>1, FS_AddElement
    <3>3. Cardinality(S \cup {d}) = 2
      BY <3>1, <3>2
    <3> QED BY <3>3 DEF S
  <2>3. {c} \cup {d} \in SUBSET all
    OBVIOUS
  <2> HIDE DEF all, others, n, m
  <2>4. Cardinality({c} \cup {d}) <= Cardinality(all) /\ Cardinality(all) \in Nat
    BY <1>2, <2>3, FS_Subset, FS_CardinalityType
  <2> QED BY <1>1, <2>2, <2>4
<1>7. Dehydrated(i, x) = "garbled"
  <2>1. CASE x = KeyProp(i)
    <3>1. m \in Nat /\ m >= 1
      <4>1. c \in others \/ d \in others
        BY <1>4, <1>5
      <4> HIDE DEF all, others, n, m
      <4>2. Cardinality(others) \in Nat /\ Cardinality(others) # 0
        BY <1>2, <4>1, FS_EmptySet, FS_CardinalityType
      <4> QED BY <1>1, <4>2
    <3>2. Dehydrated(i, x) = Times(U8Str, "text", m)
      BY <2>1 DEF Dehydrated, U8Str
    <3> HIDE DEF m
    <3>3. Times(U8Str, "text", m) = "garbled"
      BY <3>1, U8Far
    <3> QED BY <3>2, <3>3
  <2>2. CASE x # KeyProp(i)
    <3>1. others = all
      BY <1>4, <1>5, <2>2
    <3>2. m = n
      BY <1>1, <3>1
    <3>3. Dehydrated(i, x) = Times(U8Str, "raw", m)
      BY <2>2 DEF Dehydrated
    <3> HIDE DEF m, n, all, others
    <3>4. Times(U8Str, "raw", m) = "garbled"
      BY <1>6, <3>2, U8Far
    <3> QED BY <3>3, <3>4
  <2> QED BY <2>1, <2>2
<1>8. Hydrated(i, x) = Times(StrU8, "garbled", n)
  BY <1>7 DEF Hydrated
<1> HIDE DEF n
<1>9. Times(StrU8, "garbled", n) = "lost"
  BY <1>6, StrFar
<1> QED BY <1>8, <1>9

(* A message comes back as it was exactly where no uuid is in two keys: the       *)
(* condition of StoredComesBack is no stronger than it must be                    *)
(* (ts/entity.go:120-156, forEachUUIDComponent).                                  *)
THEOREM ComesBackExactly == Spec => [](pc = "done" => (RoundTrip <=> UuidOnce))
<1>1. BuildInv => (pc = "done" => (RoundTrip => UuidOnce))
  <2> SUFFICES ASSUME BuildInv, pc = "done", RoundTrip, NEW i \in Entities,
                      NEW k \in Keys(i), NEW l \in Keys(i),
                      NEW p \in DOMAIN k.props, NEW q \in DOMAIN l.props,
                      IsUUID(k.props[p]), k.props[p] = l.props[q], <<k, p>> # <<l, q>>
               PROVE  FALSE
    BY DEF UuidOnce
  <2> DEFINE x == k.props[p]
  <2>1. x \in PropsOf(i) /\ x \in AllProps /\ x[1] = i
    BY KeysAre DEF PropsOf
  <2>2. <<k, p>> \in Places(x, Keys(i)) /\ <<l, q>> \in Places(x, Keys(i))
    BY PlacesAre
  <2> HIDE DEF x
  <2>3. Hydrated(i, x) = "lost"
    BY <2>1, <2>2, TwiceIsLost DEF x
  <2>4. Hydrated(i, x) = "raw"
    BY <2>1 DEF RoundTrip
  <2> QED BY <2>3, <2>4
<1>2. (UuidOnce => RoundTrip) /\ (pc = "done" => (RoundTrip => UuidOnce))
        => (pc = "done" => (RoundTrip <=> UuidOnce))
  OBVIOUS
<1> QED BY <1>1, <1>2, BuildInductive, StoredComesBack, PTL

\* An index has no uuid but those edges are to.
UuidsOfEdges ==
    \A i \in Entities : \A k \in Keys(i) : \A p \in DOMAIN k.props :
        k.n # 0 /\ IsUUID(k.props[p]) => IsEdge(k.props[p])

(* Every candidate key finds the row that was stored, where no uuid is           *)
(* converted twice and none in an index is asked for unconverted                 *)
(* (ts/entity.go:194-199).                                                       *)
THEOREM KeysFind == Spec => [](UuidOnce /\ UuidsOfEdges => LookupFinds)
<1>1. BuildInv => (UuidOnce /\ UuidsOfEdges => LookupFinds)
  <2> SUFFICES ASSUME BuildInv, pc = "done", UuidOnce, UuidsOfEdges,
                      NEW i \in Entities, NEW k \in Keys(i)
               PROVE  Finds(i, k, FALSE)
    BY DEF LookupFinds
  <2>1. KeyPart(Primary(i), FALSE).paths = Paths(Primary(i), FALSE)
    BY DEF KeyPart
  <2>2. Serves(KeyPart(k, FALSE), Paths(k, FALSE))
    <3> DEFINE part == KeyPart(k, FALSE)
               asked == Paths(k, FALSE)
    <3>1. k.props \in Seq(AllProps) /\ Len(k.props) \in Nat \ {0} /\ DOMAIN k.props = 1..Len(k.props)
      BY KeysAre
    <3>2. Len(asked) = Len(k.props)
      BY <3>1 DEF Paths
    <3>3. k.n = 0 => Len(k.props) = 1
      <4> DEFINE x == k.props[1]
      <4>1. k.n = 0 => k.props = <<x>>
        BY KeysAre
      <4> HIDE DEF x
      <4> QED BY <4>1
    <3>4. part.paths = asked /\ (part.brackets <=> k.n # 0 /\ Len(k.props) > 1)
      BY DEF KeyPart
    <3> HIDE DEF part, asked
    <3>5. Len(asked) = 1 => ~part.brackets
      BY <3>2, <3>4
    <3>6. Len(asked) # 1 => part.brackets
      <4>1. Len(k.props) # 1 => k.n # 0
        BY <3>3
      <4>2. Len(k.props) # 1 => Len(k.props) > 1
        <5>1. \A n \in Nat : n # 0 /\ n # 1 => n > 1
          OBVIOUS
        <5>2. Len(k.props) \in Nat /\ Len(k.props) # 0
          BY <3>1
        <5> QED BY <5>1, <5>2
      <4> QED BY <3>2, <3>4, <4>1, <4>2
    <3>7. Serves(part, asked)
      BY <3>4, <3>5, <3>6 DEF Serves
    <3> QED BY <3>7 DEF part, asked
  <2>3. \E part \in SchemaString(i, FALSE) : Serves(part, Paths(k, FALSE))
    BY <2>2 DEF SchemaString
  <2>4. ASSUME NEW p \in DOMAIN k.props PROVE Dehydrated(i, k.props[p]) = Asked(k, k.props[p])
    <3>1. k.props[p] \in PropsOf(i)
      BY KeysAre
    <3>2. Dehydrated(i, k.props[p]) = Keyer(k.props[p])
      BY <3>1, StoredAs
    <3>3. Asked(k, k.props[p]) = Keyer(k.props[p])
      BY DEF Asked, Keyer, UuidsOfEdges
    <3> QED BY <3>2, <3>3
  <2> QED BY <2>1, <2>3, <2>4 DEF Finds
<1> QED BY <1>1, BuildInductive, PTL

-----------------------------------------------------------------------------
(* What the database keeps unique. *)

(* The database keeps every way to look a row up unique but an edge that is      *)
(* unique by itself (entschema.go:306-431: modifiers, emitEdges, emitIndexes).  *)
THEOREM OnlyEdgesAreLoose == Spec => []((\A x \in unique : ~IsEdge(x)) => KeysHeld)
<1>1. BuildInv => ((\A x \in unique : ~IsEdge(x)) => KeysHeld)
  <2> SUFFICES ASSUME BuildInv, pc = "done", \A x \in unique : ~IsEdge(x),
                      NEW i \in Entities, NEW k \in Keys(i)
               PROVE  {k.props[p] : p \in DOMAIN k.props} \in EntConstraints(i)
    BY DEF KeysHeld
  <2>1. CASE k.n = 0
    <3>1. k.props[1] \in unique /\ k.props[1][1] = i /\ k.props = <<k.props[1]>>
      BY <2>1, KeysAre DEF PropsOf
    <3>2. {k.props[p] : p \in DOMAIN k.props} = {k.props[1]}
      <4> DEFINE x == k.props[1]
      <4>1. k.props = <<x>>
        BY <3>1
      <4> HIDE DEF x
      <4> QED BY <4>1
    <3>3. {k.props[1]} \in EntConstraints(i)
      BY <3>1 DEF EntConstraints
    <3> QED BY <3>2, <3>3
  <2>2. CASE k.n # 0
    <3>1. k.n \in Indexes(i) /\ IsUnique(i, k.n) /\ k.props = indexProps[i][k.n]
      BY <2>2, KeysAre
    <3> QED BY <3>1 DEF EntConstraints
  <2> QED BY <2>1, <2>2
<1> QED BY <1>1, BuildInductive, PTL

=============================================================================
