------------------------------ MODULE Contract ------------------------------
(***************************************************************************)
(* The contract the service target emits for an entity: which messages it  *)
(* has and which field numbers are in them (target/service/msg.go).  A     *)
(* field is a pair of what it holds and its number.                        *)
(***************************************************************************)
EXTENDS Lookup

MaxNumber == 536870911
ReservedNumbers == 19000..19999

Number(x) == The(x).number

\* Elem.Number: an index reports its first member's.
KeyNumber(k) == Number(k.props[1])

IsImmutable(x) ==
    The(x).immutable = "yes" \/ x = KeyProp(x[1])
IsNullable(x) == x # KeyProp(x[1]) /\ SpecNullable(The(x))
IsVersion(x) == x = <<x[1], version[x[1]]>>

PropsOf(i) == {x \in AllProps : x[1] = i}
Patched(i) == {x \in PropsOf(i) : ~IsImmutable(x)}

\* The store sets the version, so Add does not take one.
AddRequest(i) == {<<<<"value", x>>, Number(x)>> : x \in {x \in PropsOf(i) : ~IsVersion(x)}}

RefOneof(i) == {<<<<"key", k>>, KeyNumber(k)>> : k \in Keys(i)}

RefBy(k) == {<<<<"member", p>>, Number(k.props[p])>> : p \in DOMAIN k.props}

\* A value at 2n-1, its companion (<v>_force, <p>_null) at 2n; ref keeps the
\* number of the key.
PatchRequest(i) ==
    {<<<<"ref">>, Number(KeyProp(i))>>}
      \cup {<<<<"value", x>>, 2 * Number(x) - 1>> : x \in Patched(i)}
      \cup {<<<<"companion", x>>, 2 * Number(x)>> :
              x \in {x \in Patched(i) : IsVersion(x) \/ IsNullable(x)}}

\* (mutant) the reserved numbers not looked at
PatchRefusedPast(i) == \E x \in Patched(i) : 2 * Number(x) > MaxNumber

\* emitPatch gives up, and the run fails, on a companion that cannot be.  Every
\* entity is of a file that is to be generated, not of one that is only imported.
PatchRefused(i) ==
    \E x \in Patched(i) : \/ 2 * Number(x) \in ReservedNumbers
                          \/ 2 * Number(x) > MaxNumber

\* Which messages there are follows from the operations.
NeedsRef(i) == Rpc(i) \cap {"get", "patch", "erase"} # {}

Numbered(i) ==
    (IF "add" \in Rpc(i) THEN {AddRequest(i)} ELSE {})
      \cup (IF NeedsRef(i)
            THEN {RefOneof(i)} \cup {RefBy(k) : k \in {k \in Keys(i) : k.n # 0}} ELSE {})
      \cup (IF "patch" \in Rpc(i) THEN {PatchRequest(i)} ELSE {})

\* The edges for which a message of i mentions <Target>Ref, and <Target>Select.
MentionsRef(i) ==
    {x \in PropsOf(i) : IsEdge(x) /\
       \/ "add" \in Rpc(i)
       \/ "patch" \in Rpc(i) /\ x \in Patched(i)
       \/ NeedsRef(i) /\ \E k \in Keys(i) : \E p \in DOMAIN k.props : k.props[p] = x}
MentionsSelect(i) == {x \in PropsOf(i) : IsEdge(x) /\ "get" \in Rpc(i)}

MentionsGiven(i) ==
    /\ \A x \in MentionsRef(i) : NeedsRef(The(x).target)
    /\ \A x \in MentionsSelect(i) : "get" \in Rpc(The(x).target)

WellNumbered(fields) ==
    /\ \A f, g \in fields : f # g => f[2] # g[2]
    /\ \A f \in fields : f[2] \in 1..MaxNumber /\ f[2] \notin ReservedNumbers

\* A contract that is emitted is one the other targets can read: no two fields
\* of a message have one number, none has a number proto reserves, and every
\* message that is mentioned is there (docs/targets/service.md:3, 94-102).
ContractReads ==
    pc = "done" => \A i \in Entities :
        \/ "patch" \in Rpc(i) /\ PatchRefused(i)
        \/ MentionsGiven(i) /\ \A fields \in Numbered(i) : WellNumbered(fields)

=============================================================================
