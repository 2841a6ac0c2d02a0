-------------------------------- MODULE Writes --------------------------------
(***************************************************************************)
(* What the go target's Add and Patch do with a request and with ent       *)
(* (gotarget/write.go), the columns ent is told of (gotarget/entschema.go)  *)
(* and the presence the contract gives a field (service/msg.go): three      *)
(* files that are written apart and have to fit.                            *)
(***************************************************************************)
EXTENDS Contract

\* (mutant) a default does not make a prop one that may be left out
IsOptionalIfNullable(x) == Repeated(The(x)) \/ IsNullable(x)

\* Field.IsOptional and Edge.IsOptional: may be left out when a row is created.
IsOptional(x) == Repeated(The(x)) \/ IsNullable(x) \/ The(x).default

FieldsOf(i) == {x \in PropsOf(i) : ~IsEdge(x)}
EdgesOf(i) == {x \in PropsOf(i) : IsEdge(x)}
IsUuidField(x) == ~IsEdge(x) /\ TypeOf(The(x)) = "uuid"

-----------------------------------------------------------------------------
(* The columns (entschema.go, modifiers and emitEdges).                      *)

EntRequired(i) ==
    {x \in FieldsOf(i) : x = KeyProp(i) \/ ~IsOptional(x)}
      \cup {x \in EdgesOf(i) : ~IsNullable(x)}

EntImmutable(i) == {x \in PropsOf(i) : IsImmutable(x)}

EntClearable(i) ==
    {x \in FieldsOf(i) \ {KeyProp(i)} : IsOptional(x)} \cup {x \in EdgesOf(i) : IsNullable(x)}

\* jsonZero: json is a map or a message, whatever type was declared.
SchemaUnwritable(i) ==
    \E x \in FieldsOf(i) : TypeOf(The(x)) = "json" /\ The(x).kind \in {"string", "bytes"}

-----------------------------------------------------------------------------
(* Add. *)

\* addOpts: a field of the request has presence, and with it a Has, when it is a
\* message or may be left out, and a list never.
AddHas(i) ==
    {x \in PropsOf(i) : /\ ~IsVersion(x) /\ ~Repeated(The(x))
                        /\ The(x).kind \in {"message", "time"} \/ IsOptional(x)}

\* What it asks before it sets: the key, or else it draws one, and what a default
\* or null stands in for.
AddAsks(i) ==
    {x \in PropsOf(i) :
       \/ x = KeyProp(i)
       \/ /\ ~IsVersion(x) /\ ~Repeated(The(x))
          /\ IsNullable(x) \/ (~IsEdge(x) /\ The(x).default)}

\* What it sets whatever the request has.
AddSets(i) ==
    {x \in FieldsOf(i) : \/ x = KeyProp(i) \/ IsVersion(x) \/ The(x).default
                         \/ ~Repeated(The(x)) /\ ~IsNullable(x)}
      \cup {x \in EdgesOf(i) : ~IsNullable(x)}

\* A uuid is drawn for the key and read for nothing else.
AddUnwritable(i) ==
    \/ ~IsUuidField(KeyProp(i))
    \/ \E x \in FieldsOf(i) \ {KeyProp(i)} : IsUuidField(x) /\ ~Repeated(The(x))

-----------------------------------------------------------------------------
(* Patch. *)

PatchSets(i) == {f[1][2] : f \in {f \in PatchRequest(i) : f[1][1] = "value"}}

\* Where the request has <p>_null.
PatchClears(i) ==
    {f[1][2] : f \in {f \in PatchRequest(i) : f[1][1] = "companion" /\ ~IsVersion(f[1][2])}}

PatchUnwritable(i) == \E x \in PatchSets(i) : IsUuidField(x) /\ ~Repeated(The(x))

-----------------------------------------------------------------------------
\* Everything that ends a run of the go target over what it would have to write.
Unwritable(i) ==
    \/ SchemaUnwritable(i)
    \/ "add" \in Rpc(i) /\ AddUnwritable(i)
    \/ "patch" \in Rpc(i) /\ PatchUnwritable(i)

\* What is emitted for i can be compiled and does not fail of itself.
Fits(i) ==
    /\ "add" \in Rpc(i) => AddAsks(i) \subseteq AddHas(i) /\ EntRequired(i) \subseteq AddSets(i)
    /\ "patch" \in Rpc(i) => /\ PatchSets(i) \cap EntImmutable(i) = {}
                             /\ PatchClears(i) \subseteq EntClearable(i)

=============================================================================
