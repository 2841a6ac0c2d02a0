----------------------------- MODULE Capability -----------------------------
(***************************************************************************)
(* What an entity asks of a store, what the store can do, and the          *)
(* shortfalls gen.CheckCapabilities finds between the two                  *)
(* (gen/capability.go, gen/backend.go).                                    *)
(***************************************************************************)
EXTENDS Naturals, FiniteSets

Kind == {"unique_compound_index", "partial_index", "index_arity",
         "unorderable_index_member", "binary_key", "no_transactions"}

\* A prop: `type' is the type a column or a key path has, so for an edge it is
\* the type of the target's key.
Prop == [name: STRING, type: {"plain", "bytes", "json"}, edge: BOOLEAN, unique: BOOLEAN]

\* An entity is [props, indexes, erases, version]; an index names its members.
Members(e, idx) == {p \in e.props : p.name \in idx.members}

IsComposite(idx) == Cardinality(idx.members) > 1

ExcludesErased(e, idx) == idx.unique /\ ~idx.includesErased /\ e.erases

IsOrderable(p) == p.type # "json"

Found(kind, at) == [kind |-> kind, at |-> at]

\* Everything but uniqueness that is wrong with an index.
IndexLacks(e, idx, caps) ==
    {k \in Kind :
       \/ k = "partial_index" /\ ExcludesErased(e, idx) /\ ~caps.partial
       \/ k = "index_arity" /\ caps.arity > 0 /\ Cardinality(idx.members) > caps.arity
       \/ k = "unorderable_index_member" /\ \E p \in Members(e, idx) : ~IsOrderable(p)}

\* Of an index that cannot be unique nothing else is said.
CheckIndex(e, idx, caps) ==
    IF idx.unique /\ IsComposite(idx) /\ ~caps.uniqueCompound
    THEN {Found("unique_compound_index", idx.name)}
    ELSE {Found(k, idx.name) : k \in IndexLacks(e, idx, caps)}

CheckProp(p, caps) ==
    IF p.unique /\ ~p.edge /\ p.type = "bytes" /\ ~caps.binaryKey
    THEN {Found("binary_key", p.name)} ELSE {}

CheckCapabilities(e, caps) ==
    (UNION {CheckIndex(e, idx, caps) : idx \in e.indexes})
      \cup (UNION {CheckProp(p, caps) : p \in e.props})
      \cup IF e.version /\ ~caps.transactions
           THEN {Found("no_transactions", "version")} ELSE {}

(***************************************************************************)
(* What the store cannot hold, as the fields of gen.Capabilities describe   *)
(* themselves: "a byte string can be a key or an index member".             *)
(***************************************************************************)
CannotHold(e, caps) ==
    {Found("unique_compound_index", idx.name) :
       idx \in {i \in e.indexes : i.unique /\ IsComposite(i) /\ ~caps.uniqueCompound}}
      \cup (UNION {{Found(k, idx.name) : k \in IndexLacks(e, idx, caps)} : idx \in e.indexes})
      \cup {Found("binary_key", p.name) :
              p \in {q \in e.props : /\ q.type = "bytes" /\ ~caps.binaryKey
                                     /\ \/ q.unique
                                        \/ \E i \in e.indexes : q.name \in i.members}}
      \cup {Found("no_transactions", v) :
              v \in IF e.version /\ ~caps.transactions THEN {"version"} ELSE {}}

=============================================================================
