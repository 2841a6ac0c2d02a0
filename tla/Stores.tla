-------------------------------- MODULE Stores --------------------------------
(***************************************************************************)
(* What the three stores make of a value on its way in: the codec each      *)
(* backend chooses (gen/lower.go and the tables of backend/) and the type   *)
(* the Swift row has for it (target/swifttarget).                           *)
(***************************************************************************)
EXTENDS Lookup

Store == {"dexie", "entsql", "grdb"}

\* Backend.Capabilities: the codecs the adapter of a store knows.
Codecs(b) ==
    {"identity", "uuid-string", "json"}
      \cup {c \in {"time-native"} : b = "entsql"}
      \cup {c \in {"time-epoch-millis"} : b = "grdb"}

\* The table of a backend; what it does not name is stored as it arrives.
TypeCodec(b, t) ==
    CASE t = "uuid" -> "uuid-string"
      [] t \in {"json", "message"} -> "json"
      [] t = "time" /\ b = "entsql" -> "time-native"
      [] t = "time" /\ b = "grdb" -> "time-epoch-millis"
      [] OTHER -> "identity"

\* (mutant) an edge put through the codec of its own type
OwnCodec(b, x) == TypeCodec(b, TypeOf(The(x)))

\* CodecTable.Codec: an edge is stored as its target's key.
Codec(b, x) == TypeCodec(b, TypeOf(The(StoredField(x))))

\* LowerTables: every entity of the schema, an edge's target that is not emitted
\* too.
Table(b, i) == [x \in {x \in AllProps : x[1] = i} |-> Codec(b, x)]

\* baseType, of the types SchemaBuild tells apart.
SwiftType(x) ==
    LET t == TypeOf(The(StoredField(x)))
    IN CASE t = "uuid" -> "UUID" [] t = "time" -> "Date" [] t = "string" -> "String"
         [] t \in {"bytes", "json"} -> "Data"

\* calqueCodecs, which leaves identity out.
SwiftCodecs(i) ==
    LET t == Table("grdb", i) IN {<<x, t[x]>> : x \in {x \in DOMAIN t : t[x] # "identity"}}

\* The codec without which a column does not decode to a type.
SwiftNeeds(type) ==
    {c \in {<<"UUID", "uuid-string">>, <<"Date", "time-epoch-millis">>} : c[1] = type}

\* A row's name for another is one text wherever it is kept: every uuid, a key or
\* an edge to one, is put through the same codec by the server's store, the
\* browser's and the device's, a codec each of them says it has, and the Swift
\* row converts every column whose type needs it (grdb.go:139-151, dexie.go:202-208,
\* "the two agree by construction rather than by accident").
StoresAgree ==
    pc = "done" => \A i \in Entities :
      /\ \A b \in Store : LET t == Table(b, i) IN \A x \in DOMAIN t :
           /\ t[x] \in Codecs(b)
           /\ IsUUID(x) <=> t[x] = "uuid-string"
      /\ \A x \in DOMAIN Table("grdb", i) :
           SwiftType(x) # "Data" =>
             {c \in SwiftCodecs(i) : c[1] = x} = {<<x, c[2]>> : c \in SwiftNeeds(SwiftType(x))}

=============================================================================
