------------------------------ MODULE Generate ------------------------------
(***************************************************************************)
(* One run of the plugin, from the request to the response: plugin.Serve's  *)
(* generate, gen.Resolve and gen.Run.  Every step that can refuse is an     *)
(* action, in the order of the code, since that order is what is promised:  *)
(* nothing is rendered before every name and every option is understood.   *)
(*                                                                         *)
(* The request has one entity.  Progress lines are left out.                *)
(***************************************************************************)
EXTENDS Settings, Capability

CONSTANTS
    Target,   \* registered targets
    Backend,  \* registered backends
    Storeless,\* the targets that take no backend
    Supports, \* the pairs of a target and a backend it has an adapter for
    None,     \* an entry without a backend
    Files,    \* Files[t]: the paths target t emits, each a sequence of segments
    Manifest, \* the path `manifest=' gives
    Families, \* what a run may be given: sets of documents, of what is in the file, ...
    Caps(_, _),      \* Caps(b, v): b's capabilities, configured with v
    Accepts(_, _, _) \* Accepts(b, v, k): b, configured with v, lives with shortfall k

ASSUME RegistryAssumption ==
    /\ Storeless \subseteq Target
    /\ Supports \subseteq Target \X Backend
    /\ Target \cap Backend = {}
    /\ DOMAIN Options = Target \cup Backend
    /\ None \notin Backend

Section == Target \cup Backend

\* `doc' is the document and `file' the sections in it, `present' the files that
\* are there to read it from.
Inputs(F) ==
    [doc: F.doc, file: F.file, env: F.env, params: F.params, present: F.present,
     entity: F.entity]

ASSUME FamiliesAssumption ==
    \A F \in Families :
        /\ \A d \in F.doc : d.mapping \in BOOLEAN /\ d.version \in Nat /\ d.entries \in Seq(Entry)
        /\ F.present \subseteq SUBSET {"named", "calque.yaml", "calque.yml"}
        /\ F.params \subseteq Seq(Param)
        /\ \A f \in F.file \cup F.env : \A x \in DOMAIN f : f[x] \in How
        /\ \A f \in F.env : <<>> \notin DOMAIN f

VARIABLES
    input,    \* [doc, file, env, params, present, entity]
    pc, at,   \* the phase, and the entry of the plan it has come to
    setting,  \* what each claimant was configured with
    claimed,  \* Config.claimed
    envRead,  \* Config.envRead: of each variable that was read, the section
    out,      \* Output: the files added, each with the entry that produced it
    todo,     \* what Emit returned and is not added yet
    diags,    \* a target reported a problem with the schema
    log,      \* the warnings on stderr
    response  \* of the run: [error, files], error the phase that refused

vars == <<input, pc, at, setting, claimed, envRead, out, todo, diags, log, response>>

entries == input.doc.entries
entity == input.entity

Phase == {"parse", "names", "configure", "unclaimed", "lower", "emit", "add", "respond"}

Pending == [error |-> "", files |-> {}]

Refused(phase) == [error |-> phase, files |-> {}]

TypeOK ==
    /\ \E F \in Families : input \in Inputs(F)
    /\ pc \in Phase \cup {"ended"}
    /\ at \in DOMAIN entries \cup {1}
    /\ DOMAIN setting = Section
    /\ \A s \in Section : DOMAIN setting[s] = Options[s]
    /\ claimed \subseteq Section
    /\ DOMAIN envRead \subseteq Environ(input.env)
    /\ \A v \in DOMAIN envRead : envRead[v] \in claimed
    /\ \A f \in out \cup todo : f.by \in DOMAIN entries
    /\ diags \in BOOLEAN
    /\ response.error \in Phase \cup {""}

-----------------------------------------------------------------------------
(* Resolve. *)

Resolves(e) ==
    /\ e.target \in Target
    /\ IF e.target \in Storeless
       THEN e.backend = None
       ELSE <<e.target, e.backend>> \in Supports

\* The sections the plan's entries configure.
Planned == (UNION {{entries[i].target, entries[i].backend} : i \in DOMAIN entries}) \ {None}

\* What the claimants read of the option string.
Overriding == Kept(input.params)

\* (mutant) the file decoded over what the environment set
DecodedFileLast(s) ==
    LET v == Layers(s, input, [f \in Options[s] |-> AppliedSorted(s, f, input.params)])
    IN [f \in Options[s] |-> IF <<s, f>> \in DOMAIN input.file THEN <<"file">> ELSE v[f]]

\* Claim: Config.Section into a fresh value, then the defaults.
Decoded(s) == Layers(s, input, [f \in Options[s] |-> AppliedSorted(s, f, input.params)])

ConfigureRefused(s) ==
    DecodeRefused(s, input, Overriding) \/ Unlisted(s, Decoded(s), input)

\* (mutant) sections only the command line names are not looked at
UnclaimedInFile == {x[1] : x \in DOMAIN input.file} \ claimed

\* Config.UnclaimedSections
Unclaimed == Leftover(input, claimed)

\* (mutant) only what set something is worth a line
ReportEnvRead == {<<"set", v, envRead[v]>> : v \in DOMAIN envRead}

\* reportEnv
ReportEnv ==
    {<<"set", v, envRead[v]>> : v \in DOMAIN envRead}
      \cup {<<"unread", v>> : v \in Environ(input.env) \ DOMAIN envRead}

-----------------------------------------------------------------------------
Init ==
    /\ \E F \in Families : input \in Inputs(F)
    /\ pc = "parse" /\ at = 1
    /\ setting = [s \in Section |-> [f \in Options[s] |-> Zero]]
    /\ claimed = {} /\ envRead = <<>>
    /\ out = {} /\ todo = {}
    /\ diags = FALSE
    /\ log = {}
    /\ response = Pending

\* response.error, and whatever was in the making is dropped.
Fail ==
    /\ pc' = "ended"
    /\ response' = Refused(pc)
    /\ UNCHANGED <<input, at, setting, claimed, envRead, out, todo, diags>>

(* ParseParams, ConfigPath and ParseConfig; then ParseFiles, which is        *)
(* SchemaBuild's and may refuse any request.                                *)
Parse ==
    /\ pc = "parse"
    /\ \/ Fail
       \/ /\ ~ParamsRefused(input.params)
          /\ ConfigFound(input.params, input.present)
          /\ ~DocRefused(input.doc)
          /\ pc' = "names"
          /\ UNCHANGED <<input, at, setting, claimed, envRead, out, todo, diags, response>>
    /\ UNCHANGED log

\* (mutant) the loop over the plan runs one entry too far
AdvancePast(phase, then) ==
    IF at <= Len(entries) THEN at' = at + 1 /\ pc' = phase ELSE at' = 1 /\ pc' = then

\* From entry `at' to the next one, or to phase `then'.
Advance(phase, then) ==
    IF at < Len(entries) THEN at' = at + 1 /\ pc' = phase ELSE at' = 1 /\ pc' = then

ResolveEntry ==
    /\ pc = "names"
    /\ IF Resolves(entries[at])
       THEN /\ Advance("names", "configure")
            /\ UNCHANGED <<input, setting, claimed, envRead, out, todo, diags, response>>
       ELSE Fail
    /\ UNCHANGED log

(* The target of the entry claims its section, then the backend its own.    *)
ConfigureEntry ==
    /\ pc = "configure"
    /\ LET t == entries[at].target
           b == entries[at].backend
           mine == {t, b} \ {None}
           read == UNION {Matches(s, input.env) : s \in mine}
       IN IF \E s \in mine : ConfigureRefused(s)
          THEN Fail
          ELSE /\ Advance("configure", "unclaimed")
               /\ setting' = [s \in Section |-> IF s \in mine THEN Decoded(s) ELSE setting[s]]
               /\ claimed' = claimed \cup {s \in mine : Says(s, input)}
               /\ envRead' = [v \in DOMAIN envRead \cup read |->
                                IF v \notin read THEN envRead[v]
                                ELSE IF b # None /\ v \in Matches(b, input.env) THEN b ELSE t]
               /\ UNCHANGED <<input, out, todo, diags, response>>
    /\ UNCHANGED log

CheckUnclaimed ==
    /\ pc = "unclaimed"
    /\ IF Unclaimed # {}
       THEN Fail /\ UNCHANGED log
       ELSE /\ pc' = "lower"
            /\ log' = log \cup ReportEnv
            /\ UNCHANGED <<input, at, setting, claimed, envRead, out, todo, diags, response>>

-----------------------------------------------------------------------------
(* Run. *)

\* An entry without a backend has none.
Shortfalls(b) ==
    IF b = None THEN {} ELSE CheckCapabilities(entity, Caps(b, setting[b]))

\* Partition: the shortfalls that stop the run.
RefusedBy(b) == {x \in Shortfalls(b) : ~Accepts(b, setting[b], x.kind)}

(* Capabilities, the warning about what is accepted, Lower and checkCodecs;  *)
(* an entry without a backend skips all of it.                              *)
LowerEntry ==
    /\ pc = "lower"
    /\ LET b == entries[at].backend
       IN \/ /\ RefusedBy(b) # {}
             /\ Fail /\ UNCHANGED log
          \/ /\ RefusedBy(b) = {}
             /\ log' = log \cup {<<"accepted", at, x>> : x \in Shortfalls(b)}
             /\ \/ /\ pc' = "emit"
                   /\ UNCHANGED <<input, at, setting, claimed, envRead, out, todo, diags,
                                  response>>
                \/ b # None /\ Fail

(* Emit returns its files or fails; it may also have reported a problem,    *)
(* which stops the run only at its end.                                     *)
EmitEntry ==
    /\ pc = "emit"
    /\ \/ Fail
       \/ /\ pc' = "add"
          /\ todo' = {[name |-> entries[at].out \o f, by |-> at] : f \in Files[entries[at].target]}
          /\ diags' \in {diags, TRUE}
          /\ UNCHANGED <<input, at, setting, claimed, envRead, out, response>>
    /\ UNCHANGED log

\* (mutant) the name looked for among the entry's own files only
TakenByMe(f) == \E g \in out : g = f

\* checkFileName: the name of a file is not empty and stays below the root.
Misnamed(f) == f.name = <<>> \/ Escapes(f.name)

\* Output.Add refuses a name another file has, as it is written.
Taken(f) == \E g \in out : g.name = f.name

AddFile ==
    /\ pc = "add"
    /\ IF todo = {}
       THEN /\ Advance("lower", "respond")
            /\ UNCHANGED <<input, setting, claimed, envRead, out, todo, diags, response>>
       ELSE \E f \in todo :
              IF Misnamed(f) \/ Taken(f) THEN Fail
              ELSE /\ out' = {g \in out : g.name # f.name} \cup {f}
                   /\ todo' = todo \ {f}
                   /\ UNCHANGED <<input, pc, at, setting, claimed, envRead, diags, response>>
    /\ UNCHANGED log

(* The response has what Output holds and, where the request asks for it,   *)
(* the manifest, which does not go through Output.Add; the last option of   *)
(* that name is the one that counts, and without a value it asks for none.  *)
Asked ==
    \E i \in DOMAIN input.params :
        /\ input.params[i].key = "manifest" /\ input.params[i].how # "blank"
        /\ \A j \in DOMAIN input.params : input.params[j].key = "manifest" => j <= i

Respond ==
    /\ pc = "respond"
    /\ IF diags
       THEN Fail
       ELSE /\ pc' = "ended"
            /\ response' = [error |-> "",
                            files |-> out \cup IF Asked THEN {[name |-> Manifest, by |-> 0]} ELSE {}]
            /\ UNCHANGED <<input, at, setting, claimed, envRead, out, todo, diags>>
    /\ UNCHANGED log

Next ==
    \/ Parse \/ ResolveEntry \/ ConfigureEntry \/ CheckUnclaimed
    \/ LowerEntry \/ EmitEntry \/ AddFile \/ Respond

Spec == Init /\ [][Next]_vars

-----------------------------------------------------------------------------
(* `calque config': Resolve once more, of the options as they were typed.   *)

Shown(s) == Layers(s, input, [f \in Options[s] |-> AppliedTyped(s, f, input.params)])

\* Resolve, the first two of its loops in one.
Resolved == \A i \in DOMAIN entries : Resolves(entries[i])

CommandRefuses ==
    \/ ~Resolved
    \/ \E s \in Planned : \/ DecodeRefused(s, input, Typed(input.params))
                           \/ Unlisted(s, Shown(s), input)
    \/ Leftover(input, {s \in Planned : Says(s, input)}) # {}

-----------------------------------------------------------------------------
(* What the documentation promises of a run.                                *)

Overrides(s, f) == {i \in Typed(input.params) : Reaches(input.params[i], s, f)}

\* What two options set of one field they give by one path, and the first would
\* do as well: no two name different keys of a map, nor one a key of what the other
\* sets.
PlainOptions ==
    LET ps == input.params
    IN \A s \in Section : \A f \in Options[s] : \A i, j \in Overrides(s, f) :
         /\ ps[i].path = ps[j].path
         /\ i < j => ~OverrideRefused(ps[i], s)

\* The layers that say something of a field.  Of anything but a string an empty
\* variable says nothing.
Speaking(s, f) ==
    {<<"opt", i>> : i \in {i \in Overrides(s, f) : \A j \in Overrides(s, f) : j <= i}}
      \cup {l \in {<<"env">>} : /\ EnvKey(s, f) \in Environ(input.env)
                               /\ \/ <<s, f>> \in Text
                                  \/ input.env[EnvKey(s, f)] # "blank"}
      \cup {l \in {<<"file">>} : <<s, f>> \in DOMAIN input.file}

\* The documented order: a layer overwrites what the ones before it said.
TopLayer(s, f) ==
    CHOOSE l \in Speaking(s, f) \cup {Zero} :
      /\ l = Zero => Speaking(s, f) = {}
      /\ l = <<"file">> => Speaking(s, f) = {l}
      /\ l = <<"env">> => Overrides(s, f) = {}

\* A string that is emptied has its default.
InForce(s, f) ==
    IF Given(s, f, TopLayer(s, f), input) = "blank" THEN Zero ELSE TopLayer(s, f)

(* The settings a target or a backend works with are those of the documented *)
(* order, defaults, file, environment, command line, whichever entry claimed *)
(* its section and however often (docs/configuration.md:7-8; section.go).    *)
SettingsInForce ==
    PlainOptions /\ pc \in {"unclaimed", "lower", "emit", "add", "respond"} =>
      \A s \in Planned : \A f \in Options[s] : setting[s][f] = InForce(s, f)

(* `calque config' answers for the build: it refuses what resolving refuses  *)
(* there, and otherwise shows the settings the build goes on with            *)
(* (cmd/config.go:86-90, resolve.go:19-21).  The command applies options as  *)
(* they are typed and the build sorts them and keeps one of each, so of      *)
(* options one of which is inside another this is not so.                    *)
ConfigAnswersForBuild ==
    PlainOptions =>
      /\ response.error \in {"names", "configure", "unclaimed"} => CommandRefuses
      /\ pc \in {"lower", "emit", "add", "respond"} =>
           ~CommandRefuses /\ \A s \in Planned : setting[s] = Shown(s)

(* Nothing is rendered while a name or an option is not understood: when    *)
(* the first target emits, every section the file or the command line names *)
(* belongs to a target or a backend of the plan, every key in it is one of  *)
(* its own, and every value decodes (run.go, the comment on Run;            *)
(* section.go, CheckUnclaimed).                                             *)
UnderstoodBeforeRendered ==
    pc \in {"emit", "add", "respond"} \/ out # {}
      => /\ Resolved
         /\ \A x \in DOMAIN input.file :
              x[1] \in Planned /\ x[2] \in Options[x[1]] /\ input.file[x] # "wrong"
         /\ \A i \in Overriding :
              input.params[i].section \in Planned
                /\ ~OverrideRefused(input.params[i], input.params[i].section)
         /\ \A s \in Planned : \A v \in Matches(s, input.env) : input.env[v] # "wrong"

(* A run that produced files said what the environment did: of each variable *)
(* that reached a section which section it was, unless another one answers  *)
(* to it too, and of each that nothing reads that it is so (run.go,         *)
(* reportEnv; env.go:44-46).                                                *)
EnvironmentSaid ==
    response.files # {} =>
      \A v \in Environ(input.env) :
        LET readers == {s \in Planned : v \in EnvNames(s)}
        IN IF readers = {} THEN <<"unread", v>> \in log
           ELSE \E s \in readers : <<"set", v, s>> \in log

(* What a store cannot hold either stopped the run or was accepted by the   *)
(* settings in force and said on stderr, for every entry that has a store   *)
(* (capability.go, CheckCapabilities; run.go, Run).                         *)
HeldOrSaid ==
    response.files # {} /\ PlainOptions =>
      \A i \in DOMAIN entries :
        LET b == entries[i].backend
            told == [f \in Options[b] |-> InForce(b, f)]
        IN b # None =>
             \A x \in CannotHold(entity, Caps(b, told)) :
               Accepts(b, told, x.kind) /\ <<"accepted", i, x>> \in log

(* All or nothing: a response that has files has every file of every entry, *)
(* each under the name its entry gave it and with that entry's contents,    *)
(* and no two of them for one place, as long as every `out' is written the  *)
(* short way (output.go, Add; run.go, Run; serve.go, generate).             *)
EveryFileOfEveryEntry ==
    response.files # {} =>
      LET emitted == {f \in response.files : f.by # 0}
      IN /\ response.error = ""
         /\ emitted =
              UNION {{[name |-> entries[i].out \o f, by |-> i] : f \in Files[entries[i].target]} :
                       i \in DOMAIN entries}
         /\ \A f, g \in emitted :
              Clean(f.name) = Clean(g.name) =>
                \/ f = g
                \/ \E i \in {f.by, g.by} : Clean(entries[i].out) # entries[i].out

=============================================================================
