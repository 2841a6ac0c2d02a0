----------------------------- MODULE MCGenerate -----------------------------
(***************************************************************************)
(* A build like the one that ships, with a target that needs a store, one  *)
(* that takes none and a browser store, and beside them the pair a fork     *)
(* added: of these two one variable reaches both.                           *)
(***************************************************************************)
EXTENDS Generate, TLC

Pairs == {<<"ts", "dexie">>, <<"my", "my-store">>}

Paths ==
    [t \in {"ts", "service", "my"} |->
       CASE t = "ts" -> {<<"client.g.ts">>, <<"db.g.ts">>}
         [] t = "service" -> {<<"service.g.proto">>}
         [] t = "my" -> {<<"client.g.ts">>}]

ManifestPath == <<"calque.manifest">>

Claims ==
    [s \in {"ts", "service", "my", "dexie", "my-store"} |->
       CASE s \in {"ts", "service"} -> {<<"header">>}
         [] s = "my" -> {<<"store_table">>}
         [] s = "my-store" -> {<<"table">>}
         [] s = "dexie" -> {<<"compat">>, <<"accept">>}]

Strings == {<<"ts", <<"header">>>>, <<"service", <<"header">>>>, <<"dexie", <<"compat">>>>}
Tables == {<<"my-store", <<"table">>>>}
Lists == {<<"dexie", <<"compat">>>>, <<"dexie", <<"accept">>>>}

Spelt ==
    [n \in DOMAIN Claims \cup {"header", "table", "compat", "accept", "store_table"} |->
       CASE n = "my-store" -> <<"MY", "STORE">> [] n = "store_table" -> <<"STORE", "TABLE">>
         [] n = "my" -> <<"MY">> [] n = "ts" -> <<"TS">> [] n = "dexie" -> <<"DEXIE">>
         [] n = "service" -> <<"SERVICE">> [] n = "header" -> <<"HEADER">>
         [] n = "table" -> <<"TABLE">> [] n = "compat" -> <<"COMPAT">>
         [] n = "accept" -> <<"ACCEPT">>]

Browser == [uniqueCompound |-> TRUE, partial |-> FALSE, binaryKey |-> FALSE,
            transactions |-> TRUE, arity |-> 0]

StoreCaps(b, v) ==
    IF b = "dexie" THEN Browser ELSE [Browser EXCEPT !.partial = TRUE, !.binaryKey = TRUE]

\* The file says compat: orm-ts, which accepts everything, and the layers above it
\* none, which accepts what is listed.
StoreAccepts(b, v, k) ==
    b = "dexie" /\ LET list == v[<<"accept">>]
                   IN \/ v[<<"compat">>] \in {Zero, <<"file">>}
                      \/ list = <<"file">> /\ k = "partial_index"
                      \/ list = <<"env">> /\ k = "binary_key"
                      \/ list[1] = "opt"

-----------------------------------------------------------------------------
(* What the request declares. *)

Field(name, type, unique) ==
    [name |-> name, type |-> type, edge |-> FALSE, unique |-> unique]

Index(members, unique) ==
    [name |-> "slug", members |-> members, unique |-> unique, includesErased |-> FALSE]

\* A token hash, unique by itself.
Token == [props |-> {Field("id", "plain", TRUE), Field("hash", "bytes", TRUE)},
          indexes |-> {}, erases |-> FALSE, version |-> TRUE]

\* A name that is unique among the rows that are not erased.
Named == [props |-> {Field("id", "plain", TRUE), Field("name", "plain", FALSE)},
          indexes |-> {Index({"name"}, TRUE)}, erases |-> TRUE, version |-> FALSE]

\* A digest that is unique within a tenant.
Blob == [props |-> {Field("id", "plain", TRUE), Field("digest", "bytes", FALSE),
                    [name |-> "tenant", type |-> "plain", edge |-> TRUE, unique |-> FALSE]},
         indexes |-> {Index({"tenant", "digest"}, TRUE)}, erases |-> FALSE, version |-> FALSE]

-----------------------------------------------------------------------------
(* What a run is given. *)

E(t, b, o, n) == [target |-> t, backend |-> b, out |-> o, name |-> n]

TsDexie == E("ts", "dexie", <<"gen">>, "")

Doc(es) == [mapping |-> TRUE, version |-> 1, entries |-> es]

Nothing ==
    [doc |-> {Doc(<<TsDexie>>)}, file |-> {<<>>}, env |-> {<<>>}, params |-> {<<>>},
     present |-> {{"calque.yaml"}}, entity |-> {Named}]

UpTo2(S) == {<<>>} \cup {<<x>> : x \in S} \cup (S \X S)

Documents ==
    {[mapping |-> m, version |-> v, entries |-> <<E(t, b, o, n)>>] :
       m \in BOOLEAN, v \in 0..2, t \in {"", "ts", "nope", "TS"},
       b \in {"", "dexie", "my-store", "dexei"}, n \in {"", "b", "B"},
       o \in {<<>>, <<"", "gen">>, <<"gen", "..">>, <<"gen", "..", "..">>}}
      \cup {Doc(es) : es \in UpTo2({E(t, b, o, n) :
              t \in {"ts", "service"}, b \in {"", "dexie"}, n \in {"", "b"},
              o \in {<<>>, <<"gen">>, <<".", "gen">>, <<"gen", "">>}})}

Option(k, s, p, h) == [key |-> k, section |-> s, path |-> p, how |-> h]

Options2 ==
    UpTo2({Option(k, "", <<>>, h) : k \in {"config", "manifest", "quiet", "protogen", "other"},
                                   h \in {"good", "blank", "wrong"}})

\* One thing in the file, and beside it what the environment and the command line
\* say of the same and of other sections, right and wrong.
FileSays ==
    {<<>>} \cup {<<"dexie", <<"compat">>>> :> h : h \in {"good", "unlisted"}}
      \cup {<<"dexie", <<"accept">>>> :> h : h \in {"good", "wrong"}}
      \cup {p :> "good" : p \in {<<"my-store", <<"table">>>>, <<"dexei", <<"compat">>>>,
                                  <<"dexie", <<"compaat">>>>}}

EnvSays ==
    {<<>>} \cup {<<"DEXIE", "COMPAT">> :> h : h \in {"good", "blank", "unlisted"}}
      \cup {(<<"DEXIE", "ACCEPT">> :> h) @@ (<<"TS", "HEADER">> :> "blank") :
               h \in {"good", "blank", "wrong"}}
      \cup {(<<"MY", "STORE", "TABLE">> :> "good") @@ (<<"MY", "STORE", "TABLE", "X">> :> "good"),
            (<<"DEXEI", "COMPAT">> :> "good") @@ (<<"REFERENCE", "PROTO">> :> "good")}

OptSays ==
    {Option("override", "dexie", <<"compat">>, h) : h \in {"good", "blank", "unlisted"}}
      \cup {Option("override", "dexie", <<"accept">>, h) : h \in {"good", "blank"}}
      \cup {Option("override", "my-store", p, "good") :
               p \in {<<"table">>, <<"table", "x">>, <<"table", "z">>, <<"table", "x", "y">>}}
      \cup {Option("override", "my-store", <<"table", "x">>, "blank")}
      \cup {Option("override", "dexei", <<"compat">>, "good")}

Plans ==
    {<<TsDexie>>, <<E("service", "", <<>>, ""), TsDexie>>,
     <<TsDexie, [TsDexie EXCEPT !.name = "b", !.out = <<>>]>>,
     <<E("my", "my-store", <<>>, "")>>}

Runs ==
    {[Nothing EXCEPT !.doc = Documents, !.entity = {Token, Named}],
     [Nothing EXCEPT !.params = Options2, !.present = SUBSET {"named", "calque.yaml", "calque.yml"}],
     [Nothing EXCEPT !.doc = {Doc(p) : p \in Plans}, !.file = FileSays, !.env = EnvSays,
                     !.params = UpTo2(OptSays)]}

BytesRuns == {[Nothing EXCEPT !.entity = {Blob}, !.params = UpTo2(OptSays), !.env = EnvSays]}

=============================================================================
