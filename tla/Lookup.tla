------------------------------- MODULE Lookup -------------------------------
(***************************************************************************)
(* How a row is found and what it is stored as, once the schema is built:  *)
(* the candidate keys (Entity.Keys), the index declarations of the Dexie   *)
(* backend and the queries and conversions the ts target emits, and the    *)
(* constraints of the ent schema the Go target emits.                      *)
(***************************************************************************)
EXTENDS SchemaBuild

KeyProp(i) == <<i, key[i]>>
IsUnique(i, n) == request[i].indexes[n].unique
IsHidden(i, n) == request[i].indexes[n].hidden

\* A candidate key: a unique prop (n is 0) or a unique index that is not hidden.
Keys(i) ==
    {[n |-> 0, props |-> <<x>>] : x \in {x \in unique : x[1] = i}}
      \cup {[n |-> n, props |-> indexProps[i][n]] :
              n \in {n \in Indexes(i) : IsUnique(i, n) /\ ~IsHidden(i, n)}}

Primary(i) == [n |-> 0, props |-> <<KeyProp(i)>>]

\* The field a prop is stored as: itself, or the key of an edge's target.
StoredField(x) == IF IsEdge(x) THEN KeyProp(The(x).target) ELSE x
IsUUID(x) == TypeOf(The(StoredField(x))) = "uuid"

-----------------------------------------------------------------------------
(* backend/dexie: where a prop lives, and the indexes that are declared.    *)
(* `compat' is TRUE under compat: orm-ts and FALSE under compat: none.      *)

\* dexie.name: the spelling of a name in a key path.  A name of one word has one.
Spelling(x, compat) ==
    [prop |-> x, as |-> IF compat /\ The(x).words > 1 THEN "proto" ELSE "value"]

StorePath(x, compat) ==
    IF IsEdge(x)
    THEN <<Spelling(x, compat), Spelling(KeyProp(The(x).target), compat)>>
    ELSE <<Spelling(x, compat)>>

Paths(k, compat) == [p \in DOMAIN k.props |-> StorePath(k.props[p], compat)]

\* (mutant) brackets around every index
KeyPartBracketed(k, compat) ==
    [paths |-> Paths(k, compat), brackets |-> k.n # 0, unique |-> k.n = 0 \/ ~compat]

\* keyPart: in compat mode an index is always in brackets and never marked `&'.
KeyPart(k, compat) ==
    [paths |-> Paths(k, compat),
     brackets |-> k.n # 0 /\ (compat \/ Len(k.props) > 1),
     unique |-> k.n = 0 \/ ~compat]

SchemaString(i, compat) == {KeyPart(k, compat) : k \in Keys(i)}

\* (mutant) only the props that are keys of themselves
MismatchesOfProps(i) == {x \in unique : x[1] = i /\ The(x).words > 1}

\* What a run says is declared under a name no row has.
Mismatches(i) ==
    {x \in UNION {{k.props[p] : p \in DOMAIN k.props} : k \in Keys(i) \ {Primary(i)}} :
       The(x).words > 1}

\* Dexie's where(q): one path is looked up by the name of an index, more than
\* one by the set of paths of an index in brackets.
Serves(part, asked) ==
    IF Len(asked) = 1
    THEN ~part.brackets /\ part.paths = asked
    ELSE /\ part.brackets /\ Len(part.paths) = Len(asked)
         /\ {part.paths[p] : p \in DOMAIN part.paths} = {asked[p] : p \in DOMAIN asked}

-----------------------------------------------------------------------------
(* target/ts: what a row holds, and what a lookup asks for. *)

\* A uuid on a message is 16 bytes ("raw"); its text is 36 characters.  Applied
\* to text, u8_str takes sixteen of its characters for bytes: the result has
\* the shape of a uuid, and what it was is lost.  Applied to bytes, str_u8
\* throws, for bytes have no replace.
U8Str(v) == IF v = "raw" THEN "text" ELSE "garbled"
StrU8(v) == CASE v = "text" -> "raw"
              [] v = "garbled" -> "lost"
              [] v = "lost" -> "lost"
              [] OTHER -> "thrown"

\* forEachUUIDComponent: one line for each place a prop has in a candidate key.
Components(i, x, keys) ==
    IF IsUUID(x)
    THEN Cardinality(UNION {{<<k, p>> : p \in {p \in DOMAIN k.props : k.props[p] = x}} :
                            k \in keys})
    ELSE 0

Times(Op(_), v, n) ==
    LET f[m \in 0..n] == IF m = 0 THEN v ELSE Op(f[m - 1]) IN f[n]

\* The key is written before the others; w is v, so each line reads what the
\* line before it wrote.
Dehydrated(i, x) ==
    LET first == IF x = KeyProp(i) /\ IsUUID(x) THEN U8Str("raw") ELSE "raw"
    IN Times(U8Str, first, Components(i, x, Keys(i) \ {Primary(i)}))

\* (mutant) the key forgotten on the way back
HydratedOthers(i, x) ==
    Times(StrU8, Dehydrated(i, x), Components(i, x, Keys(i) \ {Primary(i)}))

Hydrated(i, x) == Times(StrU8, Dehydrated(i, x), Components(i, x, Keys(i)))

\* emitGet: keyer around a key's value, and in an index around an edge's, but
\* not around a field's.
Keyer(x) == IF IsUUID(x) THEN U8Str("raw") ELSE "raw"
Asked(k, x) == IF k.n # 0 /\ ~IsEdge(x) THEN "raw" ELSE Keyer(x)

\* A row that was just stored is what the lookup by k finds: a row has the paths
\* of compat: none whatever was declared.
Finds(i, k, compat) ==
    /\ KeyPart(Primary(i), compat).paths = Paths(Primary(i), FALSE)
    /\ k = Primary(i) \/ \E part \in SchemaString(i, compat) : Serves(part, Paths(k, FALSE))
    /\ \A p \in DOMAIN k.props : Dehydrated(i, k.props[p]) = Asked(k, k.props[p])

-----------------------------------------------------------------------------
(* target/gotarget/entschema.go: what the database keeps unique. *)

\* modifiers, emitEdges and emitIndexes.  Unique() on an edge says that it is no
\* list, not that no two rows have the same target.
EntConstraints(i) ==
    {{x} : x \in {x \in unique : x[1] = i /\ ~IsEdge(x)}}
      \cup {{indexProps[i][n][p] : p \in DOMAIN indexProps[i][n]} :
              n \in {n \in Indexes(i) : IsUnique(i, n)}}

-----------------------------------------------------------------------------
(* Properties. *)

\* A row put in the browser's store is found by each of its candidate keys: the
\* index a query asks for is declared, under the path the row has, and what the
\* row holds there is what the query asks ("every candidate key of the schema
\* is a case", target/ts/entity.go:194-199).
LookupFinds ==
    pc = "done" => \A i \in Entities : \A k \in Keys(i) : Finds(i, k, FALSE)

\* What compat: orm-ts takes away is what it says it does: a lookup that works
\* under compat: none works unless the run warns of a prop of it, or it is an
\* index of one member (docs/targets/typescript.md:122-128, 137-151).
CompatLossSaid ==
    pc = "done" =>
      \A i \in Entities : \A k \in Keys(i) :
        Finds(i, k, FALSE) /\ ~Finds(i, k, TRUE) =>
          \/ k.n # 0 /\ Len(k.props) = 1
          \/ \E p \in DOMAIN k.props : k.props[p] \in Mismatches(i)

\* A message stored and read again is the message: every uuid comes back as the
\* bytes it was (ts/packages/runtime/src/uuid.ts).
RoundTrip ==
    pc = "done" => \A x \in AllProps : Hydrated(x[1], x) = "raw"

\* Every way to look a row up names one row, for the database keeps it unique
\* (docs/annotations.md:45, 102: "unique, and therefore a way to look a row up").
KeysHeld ==
    pc = "done" => \A i \in Entities : \A k \in Keys(i) :
        \E c \in EntConstraints(i) : c \subseteq {k.props[p] : p \in DOMAIN k.props}

=============================================================================
