# calque in TLA+

calque is a protoc plugin. From `.proto` files annotated with `ormopt` it builds a
schema and, for each entry of a config file, has a *target* (Go, TypeScript,
Swift, a service contract) emit code for a *backend* (ent/SQL, Dexie, GRDB). So
there are two systems here: the generator, and the programs it emits together with
the runtime they import. The second is where concurrency is: a Go server of which
many clients call handlers at once, and browser caches that receive its answers in
any order. Both are modelled. Line numbers below are those of `src/`.

## 1. Inventory

### The emitted Go server: `target/gotarget/write.go`, `bare.go`, `store.go`

*State.* The SQL database (one table for each entity, with the constraints of the
emitted ent schema), the wall clock (which may be set back, and is another one in each
replica), and the local variables of each running handler.

*Operations.* `Add`, `Get`, `Patch`, `Erase` for each entity (`List` and soft erase are
refused or not emitted). No handler opens a transaction. `Add`: one `<Edge>GetKey` query
for each edge given by something other than its key, then `time.Now()`, then an INSERT.
`Patch`: refused if the version is missing and `_force` is not set; `GetKey` for edges;
`time.Now()`, or under force the version the request supplies; an UPDATE whose WHERE is
the reference's predicate and, unless forced, `version = <the one named>`; then a `Get`
by the reference of the request. `Erase`: one DELETE that answers OK whether it hits or not.

*Hard.* Handlers interleave between statements. A version is read from the clock before
it is stored. Edges are resolved in one statement and used in another. The answer of a
Patch comes from a statement after the write. Answers may be lost, late or duplicated.

*Correct when:* a write that names a version never overwrites an image other than the one
its caller read; a version names one image; versions of a row never go back; error codes
and answers say what happened. The first three need more of the clock than a wall clock
gives; section 5 says what.

### The ent schema emission and the query helpers: `entschema.go`, `query.go`, `entproto.go`

*State.* None (text); what they emit fixes which constraints the database keeps, which
predicate a `Ref` becomes, how rows and messages convert, and how a client names a row
(`Ref`, `Pick`) or asks whether a name is a message's (`Picks`).
*Correct when:* the constraints are those the schema declares, a reference of the
candidate key picks at most one row, a message names the row it was read from, and `Picks`
agrees with the predicate.

### The Dexie runtime and the ts target: `ts/packages/dexie/src/db.ts`, `target/ts/*`

*State.* One IndexedDB table for each entity, with a key path and perhaps unique (`&`)
indexes; the pending promises of the application, in every tab that shares the database.
*Operations.* `_insert` and `_reconcile` (dehydrate, one `rw` transaction, resolve),
`_query`; the emitted `_compare` (order of versions) and `_dehydrate`/`_hydrate`.
*Hard.* Messages in any order and from several callers; what a caller is told is about a
moment that has passed; a version that is not set; a unique index that refuses a put.
*Correct when:* the newer of two messages stays, an answer bounds what is stored, and with
a server behind it, the cache is never ahead of it and ends up with what it holds.

### The generator: `plugin/`, `gen/`, `config/`, `backend/`

*State.* `config.Config` (three layers of settings: file, environment, overrides of the
option string; which sections have been claimed and which variables were read), the
registry of targets and backends, the resolved plan,
`gen.Output` (files, and who produced each), diagnostics, stderr, the response.
*Operations.* Parse the options, find the file and validate it; `Resolve` (look every name up, then have each claimant
read its section, then refuse what nobody claimed); `Run` (for each entry: capabilities,
`Partition` into refused and accepted, warn, `Lower`, `Emit`, `Output.Add`); manifest;
response.
*Hard.* It is sequential, but long: what is checked late must still come before the first
byte is rendered, three layers are recorded at three times and applied at a fourth, and a
failure of the n-th entry comes after n-1 entries have added their files.
*Correct when:* nothing is rendered before all names and options are understood; what a
store cannot hold is refused or accepted *and* said; what the environment did is said; a
response is whole or an error; a setting is what the last layer that speaks of it says; and
`calque config`, which runs the same code without a request, answers for the build.

### From annotations to schema: `ormcompat/`, `schema/`, `gen/lower.go`

*State.* The schema under construction: entities, fields, edges, indexes, diagnostics.
*Operations.* Parse of each annotation; `Build` in passes: props, indexes over props,
edges to entities, back references over edges in declaration order; derived keys.
*Hard.* Order of the passes; a later pass meets what an earlier one refused.
*Correct when:* a schema without diagnostics is closed (every edge has a target with a
key, every index names existing props, back references pair up) and says what was
declared whatever the order; and, of what is emitted from it, every candidate key finds
the row it names in each store, a row comes back as it was and is one value in all three
stores, the contract of the service target (`target/service`) has no field number twice, the
two programs that read a contract (`gotarget/query.go`, `ts/client.go`) find the same lookup
in it, and what the go target writes calls only what it writes and asks of a request only
what the contract gives presence.

### The rest

`backend/entsql`, `backend/grdb`, `target/swifttarget`: emission of text, no state (their
codecs and the types of columns are in `Stores`). `main.go`: dispatch; `cmd/config.go` is
`calque config` (in `Settings` and `Generate`). `ts/packages/runtime`: uuid codec and typing
helpers (the codec is in `Lookup`). `internal/`: line writers and a protoc driver for tests. `ormopt`, `gentest`:
generated vocabulary and test support. `PROJECT.json` lists all of them with their status.

### How they interact

`plugin.Serve` calls `ormcompat` → `schema.Build` → `config` → `gen.Resolve` → `gen.Run`,
which calls targets and backends through interfaces. What a target emits depends on the
schema and the backend's capabilities only. The emitted server and the emitted client
meet through messages; the version field is the one thing both ends order by, which is
why the two are also modelled together.

## 2. Modules

| module | models | extends / instantiates |
|---|---|---|
| `OptimisticStore` | what a version field promises, with no versions, clocks or statements | – |
| `EntServer` | the emitted server, one action for each SQL statement | instantiates `OptimisticStore` (`Promise`) |
| `References` | what an answer holds (`Select`, `Proto`) and the client's `Ref`, `Pick`, `Picks` | extends `EntServer` |
| `TableBase` | the Dexie table, `_reconcile`, `_insert`, the emitted `_compare` | – |
| `CachedServer` | server and cache together | extends `EntServer`, instantiates `TableBase` (`Cache`) |
| `Capability` | what an entity asks of a store, and the shortfalls | – |
| `Settings` | document, option string, environment, and what a section makes of them | – |
| `Generate` | a run of the plugin, and what `calque config` says of it | extends `Settings`, `Capability` |
| `SchemaBuild` | from annotated messages to a schema: the parse and the passes of `Build` | – |
| `Lookup` | candidate keys; what the Dexie backend declares, the ts target asks and converts, the ent schema keeps unique | extends `SchemaBuild` |
| `Stores` | the codec each backend puts a column through, and the Swift row's types | extends `Lookup` |
| `Contract` | the messages and field numbers of an emitted contract | extends `Lookup` |
| `Writes` | the emitted `Add` and `Patch` of any entity against contract and ent schema | extends `Contract` |
| `Readers` | the go server and the ts client as readers of a contract; who calls which emitted function | extends `Writes`, `Stores` |
| `MC…` | instances for TLC: symmetry and values of constants | the module named |
| `EntServerProofs`, `EntServerRefinement`, `ReferencesProofs`, `TableBaseProofs`, `GenerateProofs` | theorems | the module, and `TLAPS` |
| `CachedServerProofs` | theorems about server and cache | extends `CachedServer`, `EntServerProofs`, instantiates `TableBaseProofs` |
| `SchemaBuildProofs`, then `ReadersProofs` | theorems about `SchemaBuild`, and about `Lookup`, `Stores`, `Contract`, `Writes`, `Readers` | the second extends the first and `Readers` |

### EntServer

The entity is `User` of `testdata/proto/valid/apptest`: a uuid key, `alias` (with the
edge `tenant`, the unique index `slug`), a plain `name`, a required edge to `Tenant`
(whose `alias` is unique) and the version `date_updated`. Other entities of that schema
differ in the number of fields, which these properties do not tell apart.

`users` and `tenants` are sets of row images, `clock` is `time.Now()`, `call[c]` is the
local state of a handler (`pc` names the statement it comes to), and `seen` is every
image any handler ever answered. A request's version is an image out of `seen` (`base`;
only its version reaches the server): clients name what they have read, at any later
time, which covers lost, delayed and shared answers. A request by reference is any member
of the oneof, including a tenant by alias inside the compound key.

| action | code |
|---|---|
| `BeginAdd`, `BeginPatch` | entry of the handler; `InvalidArgument` for a Patch without a version, and for a key or reference that cannot be read |
| `GetKey` | `<Edge>GetKey`: a query unless the reference is the key already |
| `Stamp` | `time.Now()` or the supplied version, before the statement is sent |
| `SaveAdd`, `SavePatch` | the INSERT / UPDATE with its constraints, and the error codes |
| `Reply` | the `Get` that answers a Patch |
| `Get`, `Erase`, `TenantAdd`, `TenantPatch`, `TenantErase` | handlers of a single statement |
| `Tick` | time passing on a clock whose readings may be equal and, unless `SteadyClock`, a clock that is set back or a replica that is behind |

Two constants say what the clock is like. `FineClock`: every reading is later than the one
before. `SteadyClock`: a reading may equal the one before but is never earlier. With neither,
it is the wall clock that `time.Now()` reads.

In `Add` and `Patch` setters run in declaration order, and the edge is declared before
the version, so `GetKey` comes before `Stamp`. A failed constraint in an INSERT is
`AlreadyExists` when it is a unique one and the raw error otherwise; in an UPDATE it is
always the raw error (`Unknown`).

### References

No state of its own: operators over the rows of `EntServer`, evaluated in its every state.
`UserProto(u, s)` is the answer for row `u` and select `s`: the key is always there, an edge
only when asked for, or key-only without a select. A field that is not told reads as `Zero`,
the empty string, because the helpers ask whether a field is empty and not whether it is
there (`present`). Keys are never `Zero` (`KeysAssumption`); an alias may be, and then a row
still has its key to be named by. An edge that a message does not have is `Absent`.
`Picks` compares through getters that answer of an absent edge what they would of an
empty message (`Untold`).
`UserRefOf` and `TenantRefOf` are the `Ref` of each message, `Found` is what the server does
with that name, `UserPicks` and `TenantPicks` are `Picks`. `Parts(m)` is what a reader may
keep of an answer. Two conditions bound what `Picks` promises: `Speaks` (the message holds
what the name speaks of) and `Vague` (the name tells an empty alias, which every message
read without the alias has too).

### TableBase and CachedServer

IndexedDB runs `rw` transactions over one store one after another, so a transaction is
one step; dehydration before it and the resolution of the promise after it are steps of
their own, because other callers and tabs run in between. `CachedServer` adds `Deliver`:
the application hands any answer it ever got to `_reconcile`, at any time, again if it
likes. Uuid keys become text one for one, so a key stands for its text. It also hands over
the answers to a `Get` with a select, which do without some of the columns in `Selectable`:
`Handed(u)` are the rows that the answers of image `u` become. `Proto` sets every column
whether the query loaded it or not, so one that was not selected reads as its zero value: the
empty string, or for the version a time before every reading. The key is always selected. The
tenant must be, for `_dehydrate` throws of a message without it, before the table is touched
(`Begin` has no step for that).

### Settings, Capability and Generate

One action for each step that may refuse, in the order of the code: `Parse` (options, path of
the config, document), for each entry `ResolveEntry` (names) and then `ConfigureEntry` (the
section of its target, then its backend's), `CheckUnclaimed`, for each entry `LowerEntry`,
`EmitEntry` and an `AddFile` for each file, and `Respond`.

In `Settings` a value is known by the layer it came from and by whether it decodes
(`How`: well, empty, wrong, or not one of those the claimant lists). A section has fields,
each a path of keys. The name of a variable is a sequence of words, so that `store_table` of
section `my` and `table` of section `my-store` have one name, as they have in `envKey`. An
override reaches a field by its dotted path, or a key of a field that is a map. `Layers` is
`Config.Section` with the claimant's defaults; `Kept` is what `Params.Overrides` leaves of the
option string, `Typed` what `calque config` takes of it. A document is its version and
entries, with names right and misspelt and an output path in segments; `Clean` is
`path.Clean`. A backend's capabilities and the shortfalls it accepts are functions of its
configuration (for dexie: `compat` and `accept`). `Emit` may fail, or report a diagnostic and
go on. Files are names with the entry that produced them. What a run may be given is a set of
families (`Families`), each of which varies some inputs in full and keeps the rest right.
Decoding of YAML is left out, and so are progress lines.

### SchemaBuild, Lookup, Stores, Contract, Writes and Readers

A request is a sequence of messages out of a family of `Requests`, a prop the pair of its message's and its own place.
`pc` is the pass: `parse` (`parseEntity`, `checkVocabulary`), `parsed` (the look at what
was said so far), then the four loops of `Build`: `attach`, `indexes`, `edges`, `back`,
and the look at the end. All passes but the last take one message at a time; `back`
takes one edge at a time, because there what one edge does (`unique`, `reverse`) is read
by the next. Types are by classes that the rules tell apart (a string for every scalar
that is neither bytes nor time), names have one word or two (then the JSON name is another
than the proto name), an option is set, set to the contrary, or not set.

The other five change no state: they are what the emitters compute from a schema that was
accepted. A value is what it is in: `raw` bytes, `text`, or what a codec makes of
the wrong one of them. `Serves` is Dexie's `where`: an index by its name for one path, by
the set of its paths for more. An operator's argument `compat` is the mode of the backend.
`Writes` has three sets for each direction: what a request has presence for (`msg.go`), what
`Add` and `Patch` ask and set (`write.go`), what a column demands (`entschema.go`).
`Readers!Oneof` is the oneof of `Ref` as it is in the text of a contract. The server finds a
lookup in it by name (`OneofFieldNamed`), the client by number (`CaseLabel`): `ClientRef` is
what the client writes for a row and `Picked` the query the server makes of what came over
the wire. `Defined` and `Called` are the functions of a generated package.

## 3. Runs

Each run is a distinct question; times are with two workers.

| run | question | bounds |
|---|---|---|
| `server_cas` | two concurrent handlers on one row, forced and not, readings of the clock differ: versions name images, no update is lost, the server implements `OptimisticStore` | 2 calls, 1 row, 2 names, 3 stamps; about 2 minutes, 570 000 states |
| `server_slug` | readings that may be equal, nobody forces, rows picked by the compound key through a tenant whose alias changes between the statements of a handler: does a row's version ever go back? And in every state: does each part of each answer name its row, and does `Picks` agree with the server? | 2 calls, 1 row, 1 tenant whose alias may be empty, 2 readings; every select, part and reference; about 2 minutes, 1 050 000 states |
| `server_rename` | violated: what a Patch that changes its own key answers | 1 call, 2 aliases |
| `cache_newer` | two callers, `_reconcile` and `_insert`, with a unique index in the way | 2 keys, 2 slugs, versions 0..2 |
| `both_order` | whole rows delivered late, twice, out of order: is the cache ever ahead of the server, and is an equal version an equal row? | 2 calls, 1 cache call, 1 row, 2 names, 3 stamps, no erase; 1 050 000 states, about 2 minutes |
| `both_converge` | does what the application reads end up in the cache, when it also caches answers without the name, and rows are erased and added again? | 2 calls, 1 cache call, 1 row, 2 stamps; liveness, no symmetry; 530 000 states, two and a half minutes |
| `generate_order` | order of checks, what is said, which layer a setting has its value from, all or nothing; does `calque config` answer for the build? | every document of one entry, right or wrong in any of its parts, and of up to two right ones; every option string of up to two options and every set of files it may find; four plans with a file, an environment and up to two overrides that agree or disagree; 310 000 states, half a minute |
| `generate_bytes` | violated: a bytes member of an index | one plan, environments and overrides as above |
| `schema_build` | is what `Build` accepts closed, in the words of the annotations and independent of order; are rows found, converted back and one value in all stores; are the contract's numbers distinct; do server and client read it alike, and does the generated server fit it? | 13 000 requests in nine families, see below; 152 000 states, half a minute |
| `lookup` | violated: a lookup by an index with a uuid field | as the family of lookups, and a uuid field in an index |
| `contract` | violated: the number of `ref` in a patch request | a key that is field 2 |
| `held` | violated: what keeps a unique edge unique | the family of lookups |

*Why the bounds are enough.* A lost update needs two writers of one row and a third image
to tell them apart: 2 calls, 2 names, 3 stamps (one Add, two Patches); more calls only
add writers that fail the same WHERE. A reference that is resolved in one statement
and used in another needs a tenant whose alias may change (`server_slug`; that no update is
lost by such references either is proved). `Picks` needs two aliases to tell one tenant
from another, and one of them is empty, which is the alias a message read without it
seems to have; that a name finds no *other* row is empty with one row, and is what the theorem
of `ReferencesProofs` says of any number. For the
cache a third version shows an out-of-order delivery on either side of a middle one.
What makes a cached version the later one of two rows of one id needs two calls (one reads
the clock, the other stores a later version, the row is erased, the first stores): hence two
in `both_converge`. What partial answers could break is that one version comes in several
parts, and one column that may be missing gives two. `both_order` is of whole rows, to
have room for the third version; that partial ones keep `SameVersionSameRow` and `CacheNotAhead`
is proved, and was seen of one call with every column selectable.
For the generator two entries are the least that can collide, share a backend, or fail
after another has succeeded; two settings are the least that can conflict between layers.
For a schema each family varies one thing in full and keeps the rest right: what the key
says, version and erased fields, members right and wrong (with a second message that is
no entity), indexes and their refs, relations (three edges between two entities, each
singular, unique or a list, naming another rightly, wrongly or not at all, towards the
right entity or not), lookups (keys, fields and edges of one or two words, with uuid and
other keys, unique or in an index of one or two members), numbers at the edges of what
protobuf reserves with every set of operations, operations of two entities with an edge
between them, and writes (every option of a field and of an edge beside a key with and
without a default). Rules of `Build` relate two messages at
most, and two edges to one other is the least in which the order of edges shows.
The theorems below have no bounds. `MaxTime` caps the clock by a guard of `Stamp`/`Tick`:
when it is reached handlers that must stamp wait for good, and other steps go on (`Get`
is always enabled), so deadlock checking stays on. In `Generate` and `SchemaBuild` a run ends, so it is off
there.

*Symmetry* permutes sets whose members are compared for equality only (calls, keys,
names, aliases, workers, tenants), in safety runs only.

*Fairness* (`both_converge` only). `WF` of the cache's work: transactions
and promises of a browser that stays open settle. `SF` of the delivery of each whole image
`u`: the application calls `_reconcile` with what it reads and goes on reading whole rows;
strong, because the one worker of the instance may be busy again and again with other
deliveries. Of partial answers nothing is assumed; they may come for ever. Nothing
is assumed of the server's handlers: a caller may never return. The property is
about what the application has been answered of the *current* table, and needs no fairness
of reading. It leaves out a row of which a newer image was answered (`Newest`). That happens
where a row is erased and then added again by an `Add` that had read the clock before: the
cached version is the later one, and `_reconcile` (`db.ts:150`) declines the current row for
good. `both_converge` reaches this case, and without the condition TLC finds it. It is
checked without a unique index on the cached entity; see hazards.

*Mutants.* Definitions marked `(mutant)` change one mapped definition the way a bug in
that code would; none is part of `Next`. Each property of a passing run fails under one:
a WHERE without the version, one with `>=`, a forgotten or cached stamp, a comparison with
its operands exchanged, a put that adds or swallows its refusal, a section looked for in the file alone, a log that leaves names out, a
duplicate file found only within its own entry; a key looked for among refused members,
a ref resolved by its name alone, annotations refused at the end, half of a one-to-one made
unique, a list let stand beside a unique edge, brackets around every index, a warning that
forgets index members, a key not converted back, reserved numbers not looked at; a name
that forgets a unique field, a `Picks` that compares the first member alone; a file decoded
over the environment, the first of two options kept; an edge put through the codec of its own
type, lookups of a `Ref` paired with keys by place, a case label by place, a `GetKey` only for
entities with a patch of their own, a default that does not make a prop one to leave out.

## 4. What disagrees with its documentation

* **A Patch that renames** (`server_rename`). `docs/targets/service.md:31-32`. The row is
  written and the answer is `NotFound`, or another row.
* **Bytes in an index** (`generate_bytes`). `gen/backend.go:61` says `BinaryKey` covers index
  members; `checkProp` asks only about props unique by themselves.
* **A uuid field in an index** (`lookup`). The query of `emitGet` (`target/ts/entity.go:318`)
  holds bytes, the row holds text. Edges beside it and fields by themselves are converted.
* **The number of `ref`** (`contract`). `target/service/msg.go:193-194` has it free because
  the key is never patched. That is so of field 1; a key that is field 2 shares it with the
  companion of field 1.
* **Unique edges** (`held`). `docs/annotations.md:102`: "unique, and therefore a way to look
  a row up". Nothing makes the database keep it.

Seen in instances that are no longer runs:

* *A refused version.* The comment at `write.go:197-199` has the two codes say whether the
  row is gone or somebody was first. The code picks by `is_force` (275-281).
* *A wall clock as a version.* `schema/field.go:25-26`: a write that names an older version is
  refused; `docs/conformance.md:155`: "a genuine compare-and-swap". `write.go:403` stamps with
  `time.Now().UTC()`, of which two readings may be equal, be set back, or come of two replicas.
  With `FineClock = FALSE` `NoLostUpdate` fails: a Patch stamped with the version its row already
  has leaves two images of one version, and a Patch that names the first is not refused. With
  `SteadyClock = FALSE` `VersionForward` fails besides, and with it `CacheNotAhead`. How often
  that is depends on the clock's resolution and on what the column keeps of it; the
  code does not exclude it.
* *A version that is not set.* `db.ts:114`: the newer stays. The emitted `_compare`
  (`target/ts/entity.go:184`) takes an unset one for newest: `KeepsNewer` fails with `Unset`
  among the versions. (`ormcompat/prop.go:149` lets a version be `optional` by keyword,
  though `annotations.md:67` says it is not nullable.)
* *A uuid in two keys.* `forEachUUIDComponent` (`entity.go:120`) has a line for each: the
  second pass of `u8_str` makes of text something that is no uuid. `RoundTrip` fails of an
  edge to a tenant with a uuid key that is in two unique indexes.

Read and not run:

* `true` of `_reconcile` (`db.ts:117`) is about the end of the transaction, and another caller
  may have stored a newer row by the time the promise resolves (`AnswerBounds` allows for it).
* A partial answer carries the version of the whole row. Cached first, it has `_reconcile`
  decline the whole row of that version (`_compare` is 0), and the columns it lacks stay empty
  until the next write: "the newer" of the two (`db.ts:114`) is neither. What `SameVersionSameRow`
  and `CacheConverges` say of such a row is its version, and that it is wrong in no column
  that it was told.
* Two entries with `out: ts` and `out: ./ts` are two names to `Output.Add`, and the manifest is
  put beside the files without it (`plugin/serve.go:134`).
* `entsql.table.apptest.User` is documented as an override (`docs/configuration.md`, about 223
  and 250); a dotted path nests, and a `map[string]string` cannot decode what comes of it.
* A section called `reference` gets no environment (`env.go:42`). An empty variable puts the
  default back over what the file says, and the report says it was set.
* `calque config` applies overrides as typed, the build sorts them and keeps the last of each
  path. Where options tread on each other (one sets a field and another a key inside it, or two
  set two keys of one map, or the first of two would be refused) the two differ:
  `ConfigAnswersForBuild` and `SettingsInForce` are of the other option strings (`PlainOptions`).
* A service file without a package gives the ts target the name `/client.g.ts`, which
  `Output.Add` refuses.
* `dexie.go:225-227` and `docs/targets/typescript.md:157` say that a unique compound index gets
  no `&` and is reported; `Capabilities` says the store has it.
* A contract with `oneof key` and a lookup named `key`, a prop named `all` (in `Select`), or
  props named `ref`, `<x>_null`, `<x>_force` (in the patch request) names two things alike.
  A custom `json_name` of the entity is not carried to its contract. An edge `tenant` beside a
  field `tenant_id` are one column of grdb.
* A repeated scalar is one value in a Swift row and an ent field. `Codable` of a Swift row has no
  `CodingKeys`, while `Columns` and `calqueCodecs` name columns as the store has them. A map
  that is unique by itself is a `map<>` in a oneof.
* `type: json` of a scalar is accepted by the parser and ends the run only in the go target
  (`jsonZero`); a key that is not a uuid, or another field that is one, is refused by it when
  there is an `add` (`AddUnwritable`).
* A key without `default` has no presence in `AddRequest` (`msg.go:72-79`) and `Add` asks
  `HasId` (`write.go:104`), and neither has one that is a list, which the parser accepts; a list
  edge is handed to `GetKey` as one (`write.go:164`, 308): the server does not compile.
  `ServerFits` leaves these out.
* An edge in two relations (named by one edge and naming another) is accepted or refused by
  the order of declaration, and its `reverse` is the last one's; hence `Untangled`.
* `Mismatches` (`dexie.go:340`) asks about neither the entity's key nor the key of an edge's
  target, so that a key of two words is misdeclared under `compat: orm-ts` without a warning.
* Two unique indexes that begin with the same prop, or one that begins with a unique prop,
  give one number twice in the oneof of `Ref` (`msg.go:129`); field 10000 gets 19999 in a
  patch request, which is reserved and not refused (`msg.go:227` tests `2n` alone); a contract
  mentions `<Target>Ref` and `<Target>Select` though the target's operations emit neither.
* `Picks` denies a name that tells the tenant by its alias when the answer was read without a
  select of the tenant (its key is all the answer holds), although the server finds the row
  by that name; hence `Speaks` in `PicksAsTheServer`. It admits any answer read without the
  alias for a name whose alias is empty (`query.go:386-398`), hence `Vague`.
* `shapeOf` (`query.go:149-176`) refuses contracts the service target emits. "An edge and an
  index are the same shape here: both get a `<E>RefBy<X>` of their own" (80-82), but a unique
  edge's member is the target's own `Ref` ("No wrapper", `service/msg.go:130-137`), in which
  mostly no field has the edge's name, and a unique time or message field is a message without
  one too; and a service without `get` has no `<E>GetRequest`. Which contracts those are is what
  `GoReadsContract` says. A unique edge of an entity to itself has a field of its own name there,
  is accepted, and is read one level too deep.
* A hidden unique index is in no Dexie declaration (`annotations.md:182`: it is written to
  the store); indexes with one name, or with one prop twice, are accepted.

## 5. Proofs

Checked by TLAPS for every value of the constants: any number of handlers, rows, entries,
settings, messages, members and indexes.

| theorem | assumption | says |
|---|---|---|
| `EntServerProofs!TypeCorrect` | – | `[]TypeOK` |
| `StampsStayFresh`, `VersionsNameImages` | `StampsAreReadings` | `[]StampsFresh`, `[]VersionNamesImage` |
| `NoUpdateLost` | `StampsAreReadings` | `NoLostUpdate` |
| `VersionsGoForward` | `Forcing = {}`, `SteadyClock` | `VersionForward`, of readings that may be equal |
| `KeysAreAnswered` | – | `AnswersPatchedRow` of references by key, under force and on any clock, one that is set back included |
| `EntServerRefinement!ServerImplementsPromise` | `StampsAreReadings` | the server implements `OptimisticStore` |
| `ReferencesProofs!RefsNameRows`, `PicksAgree` | `KeysAssumption` (a key is not empty) | `[]RefNamesRow`, `[]PicksAsTheServer` |
| `TableBaseProofs!TypeCorrect` | – | `[]TypeOK` |
| `NewerKept`, `AnswersBound` | `EveryMessageVersioned` | `KeepsNewer`, `[]AnswerBounds` |
| `CachedServerProofs!ServerUndisturbed`, `CacheIsTableBase` | `CacheAssumption` | `CachedSpec` implies the specification of each half |
| `EqualVersionsEqualRows` | `StampsAreReadings` | `[]SameVersionSameRow` |
| `CacheStaysBehind`, `CurrentRowsStay` | `RowsStay` | `[]CacheNotAhead`, `CurrentRowStays` |
| `ToldOfCurrentRow` | `RowsStay`, `FineClock` | who was answered `true` or `false` of the current row finds it in the cache |
| `GenerateProofs!TypeCorrect`, `UnderstoodFirst`, `EnvironmentIsSaid` | – | `[]TypeOK`, `[]UnderstoodBeforeRendered`, `[]EnvironmentSaid` |
| `DocumentedOrder`, `CommandAnswers` | (`PlainOptions` in the properties) | `[]SettingsInForce`, `[]ConfigAnswersForBuild` |
| `AllOrNothing` | `TidyFiles` | `[]EveryFileOfEveryEntry` |
| `StoreHolds` | – | `[](AsksPlainly => HeldOrSaid)` |
| `SchemaBuildProofs!TypeCorrect`, `NoNoise`, `Closed` | `RequestsAssumption` | `[]TypeOK`, `[]StructureIsNoNoise`, `[]ClosedSchema` |
| `UniqueIsDeclared`, `ReferencesPair` | `RequestsAssumption` | `[]UniqueAsDeclared`, `[]BackReferencesPair` |
| `ReadersProofs!StoresConverge`, `ServerLinks`, `WritesFit` | `RequestsAssumption` | `[]StoresAgree`, `[]GoLinks`, `[]ServerFits` |
| `ContractsRead`, `RefsArrive` | the same | `[](TellsApart => GoReadsContract)`, `[](TellsApart => ServerReadsClient)` |
| `ContractsNumbered` | the same | `[](PlainContract => ContractReads)` |
| `LossesSaid` | the same | `[](OneWordKeys => CompatLossSaid)` |
| `StoredComesBack`, `KeysFind` | the same | `[](UuidOnce => RoundTrip)`, `[](UuidOnce /\ UuidsOfEdges => LookupFinds)` |
| `ComesBackExactly` | the same | of an accepted schema, `RoundTrip` holds exactly where `UuidOnce` does |
| `OnlyEdgesAreLoose` | the same | `KeysHeld` of a schema without unique edges |

### Assumptions

*`StampsAreReadings`:* readings of the clock differ and go forward (`FineClock`), and nobody
supplies a version under force. Both are needed: without the first `NoLostUpdate` fails of equal
readings, and a supplied version may be one that some image carries already.
A wall clock does not promise the first. The theorems say what the code gives where
it is so: one server, a clock that is not set back, readings that the column tells apart.
*`SteadyClock`* is less: readings may be equal but are never earlier than one before, as
they may be when a clock is set back or a second replica's is behind. What assumes neither
(`TypeCorrect`, `KeysAreAnswered`, `RefsNameRows`, `PicksAgree`) holds on any clock.
*`EveryMessageVersioned`:* the entity has a version and every message sets it; `KeepsNewer`
fails without it. *`RowsStay`:* nobody forces, rows are not erased, and the clock is
steady. All are needed: a version put back, by force or by the clock, leaves the cache ahead, and
so does a row that is erased and then added again by a call that had read the clock before.
*`CacheAssumption`* is only the types of constants. *`RequestsAssumption`* is what protoc and the vocabulary see to: names and numbers
of a message are distinct, and an annotation says what it has a word for.

The other conditions are of one input and not of the constants. They stand inside the box,
so that a theorem speaks of every schema or run that meets them (`TidyFiles` alone
is about a constant, the targets' files, and is an assumption of its theorem), and each
is what a disagreement of section 4 makes necessary:

| condition | leaves out |
|---|---|
| `TidyFiles` | a target that itself emits a name with `.` or `..` in it; of `out` nothing is asked but what the property says |
| `AsksPlainly` | what `checkProp` and `checkIndex` do not ask: bytes of an index or of an edge's key (`generate_bytes`), and what else is wrong with an index that cannot be unique |
| `TellsApart` | two lookups of one name or number in a oneof, which protoc refuses |
| `PlainContract` | besides, a key that is not field 1 (`contract`), field 10000, an index with one prop twice, an edge to an entity without `get` (its messages are mentioned and not emitted) |
| `OneWordKeys` | a key of two words, of which `Mismatches` does not speak |
| `UuidOnce` | a uuid in two keys, which is converted twice |
| `UuidsOfEdges` | a uuid field in an index (`lookup`) |

TLC finds states that meet each of them in the families of `schema_build`, among them the
hard ones: with a patch that is refused for its numbers, with a lookup that compat mode takes
away, with a uuid in an index.

### Arguments

*EntServer.* `NoLostUpdate` is not inductive, nor is `VersionNamesImage`: the version about
to be stored was chosen a step earlier. The strengthening `IInv` says what must hold in
between: handlers carry what their earlier statements gave them (`CallsWellFormed`), no
version is ahead of the clock (`NotAheadOfClock`), and a stamp waiting to be stored is
carried by no image and by no other handler (`StampsFresh`). A fine clock makes `Stamp`
establish the last; a save turns it into the freshness of the new image, hence a version
names one image; so the row the WHERE hits, which has the named version, *is* the image
named, and the replaced row is that image. Steps that are not of a handler (`Environment`)
change neither stamps nor versions, so most lemmas have two cases.

`VersionsGoForward` needs less, and holds of equal readings (`ClockInv`, of which only
`NotAheadOfClock` needs a clock that is not set back): the named version is at most
the stamp because the image was answered before the clock was read, and the WHERE makes the
row's version the named one. It rests on `KeysUnique` to know that a row with the same id
is the same row. `KeysAreAnswered` needs only that a reference by key still names the row that
was written (`RepliesNameRows`); by `slug` it may not (`server_rename`).

*References.* The two theorems rest on what the database keeps: `KeysUnique`, and
`EdgesHold` (no statement leaves a user without its tenant; `TenantErase` and the two saves
are where it could fail). Then a part of an answer tells nothing but its row's own fields
or the empty value (`PartsTell`), a tenant's name picks one tenant and a slug one user. That an
alias may be empty costs one case for each helper: an empty alias in a message is either the
row's or untold, and the name is then by the key.

*Refinement.* The store is the set of rows without their version and a caller's plan
is the body it named. By `VersionNamesImage` and `KeysUnique`, two rows with equal bodies
and ids are one, so removing the row removes its body and the UPDATE is a `Swap` (or, forced,
a `Put`); `Stamp`, `GetKey`, `Reply`, `Get` and the tenants' handlers stutter.

*CachedServer.* A step of the whole is one of the server or one of the cache (`StepOfEach`),
hence what was proved of each carries over, `AnswersBound` by an instance of `TableBaseProofs`.
What the cache holds, or has on the way, is a copy of an answer (`HoldsAnswers`), so that
equal versions are equal rows by `VersionNamesImage`, or what was selected of one: a message
without a version is older than every row, since no reading is `ZeroTime` (`StampsAreTimes`). `CacheNotAhead` asks of the server
that every answer ever given has a row at least as new (`AnswersHaveRows`), which
`VersionForward` keeps while rows stay. `CurrentRowsStay` and `ToldOfCurrentRow` are what
`CacheConverges` needs besides fairness: the current row is never put out again, and a call
that is over has put it in.

*Generate.* `RunInv` is what each phase has established: the names of the entries before `at`
are resolved, their claimants and no others have claimed their sections and have the settings that
decode from the input (`Configured`), all options are understood and the environment is said
before lowering, the shortfalls of the entries before `at` are in the log, `out` is exactly
the files of the entries that have emitted (`FilesInv`), and a response is an error or all of them.
Everything a phase learns is about the input, which does not change, so each part
is kept by the phases after it. That a setting is that of the documented order is a
statement about folds over the options as sorted and as typed; where no two tread on each
other both come to the last one. It is proved by induction, through the least counterexample
of a well-founded order.

*SchemaBuild.* `BuildInv` says of each pass what the messages before `at` (in the last, the edges
before `<<at, on>>`) have been given, as long as nothing was said. The order-dependent part is
`UniqueInv`: what is unique is what was declared, and both ends of the one-to-one relations read
so far. `LinkInv` says of a relation already read that its edge has its back reference and
that no list stands beside a unique half; that a later relation undoes neither is where
`Untangled` is used. An index has the props its refs resolve to, one for one (`RefsAre`, an
induction over the refs).

*Lookup to Readers.* These have no state: what they say follows from `BuildInv` of a
schema that was accepted. `KeysAre` gives the candidate keys their form, `NamesTell` their names.
A uuid with one place in the keys is converted once or not at all (`ComponentsAre`), hence
`StoredAs`; one with two places has passed `u8_str` twice and nothing brings it back
(`TwiceIsLost`, an induction over the conversions). Of a patch request, values have odd numbers, companions even ones, `ref` has 1;
a number is doubled below 2^29 and apart from the reserved ones, or the run is refused.

*Only model-checked:* `CacheConverges`, since liveness under fairness and ENABLED are out of this
prover's reach. Of the five properties that the code violates the theorems above say where they do hold. Library theorems that take an operator as a
parameter cannot be used, so inductions are over sets of numbers.

## 6. Not modelled

* Soft erase and List: there is no emitted code for them.
* The copy of a tenant that a whole answer may have inside it, under the version of the user
  (`docs/conformance.md`, 6): a cached user row keeps the tenant's key.
* Files that are only imported: every entity is of a file that is to be generated. Types of what
  the emitted functions hand to one another (`GoLinks` is about which functions there are).
* A message whose `_dehydrate` throws: it leaves nothing behind.
* Column precision and the in-memory answer of `Add`; nullable edges of the emitted server
  (`Writes` has which columns are null, `EntServer` has a required edge).
* Failure of the connection in the middle of a statement. The handler stops, and a client may
  name any image already, so it adds no reachable table.
* Decoding of YAML and protobuf reflection; the text that is emitted (layout, imports, spelling
  of names); defaults' values; progress lines; `main.go`'s dispatch.
* Line writers, `ormopt` (generated), `gentest`, the protoc driver: no decisions of the system.
* Whatever is not under `src/` (ent, SQL, IndexedDB, protoc) is modelled from how the code
  uses it.

## 7. Plan

In order of importance:

1. *Done:* `EntServer`, its abstract specification and proofs; `TableBase` and proofs;
   `CachedServer`; `Capability`, `Generate`; `SchemaBuild`, `Lookup`, `Contract`.
2. *Done:* `References` and proofs, with empty values; `Settings`; `Stores`, `Writes`,
   `Readers`.
3. Left: nullable edges whose target is erased, and the precision of a stored version against
   the answer of `Add` (both change `EntServer`, and with it its proofs).
4. *Done:* proofs about `CachedServer`, `Generate`, `SchemaBuild` and the modules over it. Every
   safety property that a passing run checks is a theorem.
5. Left to prove: that more of the conditions of section 5 are needed and not only enough (as
   `ComesBackExactly` has it of `UuidOnce`), and what the additions of item 3 disturb.
