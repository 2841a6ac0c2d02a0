------------------------------ MODULE Settings ------------------------------
(***************************************************************************)
(* What a run is told, and what a section makes of it: the config package, *)
(* and the option string (plugin/param.go).                                *)
(*                                                                         *)
(* A value is known by where it came from.  All that is kept of how it is  *)
(* written is whether it decodes.  A variable is the sequence of words in  *)
(* its name, after CALQUE and without the underscores.                     *)
(***************************************************************************)
EXTENDS Naturals, FiniteSets, SequencesExt

CONSTANTS
    Options,  \* Options[s]: the fields of what section s decodes into, each a
              \* path of keys; an inlined struct adds none to the path
    Text,     \* <<s, f>>: field f of s is a string
    Maps,     \* ... a map from a string to a string
    Listed,   \* ... one of, or some of, the values the claimant lists
    Words,    \* Words[n]: the words of a section's name or of a key
    Reserved, \* the first words of variables calque has other uses for
    Misspelt  \* names that are not lowercase letters, digits and dashes

\* How a value is given: well, empty, so that it does not decode, or as one the
\* claimant does not list.
How == {"good", "blank", "wrong", "unlisted"}

\* targets[], and what the options of a run's command line are.
Entry == [target: STRING, backend: STRING, out: Seq(STRING), name: STRING]

Param == [key: {"config", "manifest", "quiet", "protogen", "override", "other"},
          section: STRING, path: Seq(STRING), how: How]

Zero == <<"default">>

-----------------------------------------------------------------------------
(* The document. *)

\* What a segment does to the path that is clean so far.
CleanStep(done, segment) ==
    CASE segment \in {"", "."} -> done
      [] segment = ".." /\ done # <<>> /\ Last(done) # ".." -> Front(done)
      [] OTHER -> Append(done, segment)

\* path.Clean, of a path in segments.
Clean(p) ==
    LET c[i \in 0..Len(p)] == IF i = 0 THEN <<>> ELSE CleanStep(c[i - 1], p[i])
    IN c[Len(p)]

\* checkOut, and checkFileName of the path of a file.
Escapes(p) == p # <<>> /\ (p[1] = "" \/ ".." \in ToSet(Clean(p)))

Label(e) == IF e.name # "" THEN e.name ELSE e.target

\* Parse and validate, of a document [mapping, version, entries]; mapping is that
\* it is one document, a mapping, and that its own keys decode.
DocRefused(d) ==
    \/ ~d.mapping
    \/ d.version # 1
    \/ d.entries = <<>>
    \/ \E e \in ToSet(d.entries) :
          \/ e.target = "" \/ {e.target, e.backend, e.name} \cap Misspelt # {}
          \/ Escapes(e.out)
    \/ \E i, j \in DOMAIN d.entries : i # j /\ Label(d.entries[i]) = Label(d.entries[j])

-----------------------------------------------------------------------------
(* The option string. *)

ParamsRefused(ps) ==
    \/ \E p \in ToSet(ps) : p.key = "other" \/ (p.key = "quiet" /\ p.how = "wrong")
    \/ \E i, j \in DOMAIN ps : i # j /\ ps[i].key = "config" /\ ps[j].key = "config"

\* ConfigPath finds a file: the one named, or one of the two it looks for.
ConfigFound(ps, present) ==
    IF \E p \in ToSet(ps) : p.key = "config" /\ p.how # "blank"
    THEN "named" \in present
    ELSE {"calque.yaml", "calque.yml"} \cap present # {}

\* (mutant) what was said first stays
KeptFirst(ps) ==
    {i \in DOMAIN ps : /\ ps[i].key = "override"
                       /\ ~\E j \in 1..(i - 1) : /\ ps[j].key = "override"
                                                 /\ ps[j].section = ps[i].section
                                                 /\ ps[j].path = ps[i].path}

\* Params.Overrides: of options with one path the last one.
Kept(ps) ==
    {i \in DOMAIN ps : /\ ps[i].key = "override"
                       /\ ~\E j \in DOMAIN ps : /\ j > i /\ ps[j].key = "override"
                                                /\ ps[j].section = ps[i].section
                                                /\ ps[j].path = ps[i].path}

\* What `calque config' takes, as it was typed.
Typed(ps) == {i \in DOMAIN ps : ps[i].key = "override"}

-----------------------------------------------------------------------------
(* The environment. *)

IsReserved(v) == Len(v) > 1 /\ v[1] \in Reserved

\* ReadEnv
Environ(env) == {v \in DOMAIN env : ~IsReserved(v)}

\* sectionPrefix and envKey: the words of the section, then those of the path.
EnvKey(s, f) == Words[s] \o FlattenSeq([k \in DOMAIN f |-> Words[f[k]]])

EnvNames(s) == {EnvKey(s, f) : f \in Options[s]}

\* envMatches
Matches(s, env) == EnvNames(s) \cap Environ(env)

-----------------------------------------------------------------------------
(* Overrides. *)

\* What o sets of section s: a field, or a key of a field that is a map.
Reaches(o, s, f) ==
    /\ o.section = s
    /\ \/ o.path = f
       \/ <<s, f>> \in Maps /\ Len(o.path) > 1 /\ Front(o.path) = f

\* Decoded strictly, "" is a string and nothing else.
OverrideRefused(o, s) ==
    \/ o.how = "wrong"
    \/ ~\E f \in Options[s] : Reaches(o, s, f)
    \/ o.how = "blank" /\ o.path \in Options[s] /\ <<s, o.path>> \notin Text

\* A path is decoded before those below it, for the keys are sorted.
AppliedSorted(s, f, ps) ==
    LET mine == {i \in Kept(ps) : Reaches(ps[i], s, f)}
    IN {i \in mine : \A j \in mine : Len(ps[j].path) <= Len(ps[i].path)}

AppliedTyped(s, f, ps) ==
    LET mine == {i \in Typed(ps) : Reaches(ps[i], s, f)}
    IN {i \in mine : \A j \in mine : j <= i}

-----------------------------------------------------------------------------
(* Section, of what a run is `told': [file, env, params], where file and env *)
(* map the places of the file and the variables of the environment to How.   *)

\* An empty string is the zero value of a string, and no value of anything else.
Over(v, at, how, from) ==
    IF how # "blank" THEN from ELSE IF at \in Text THEN Zero ELSE v

\* How o gives field f; a key of a map may well be given the empty string.
HowGiven(o, f) == IF o.path # f /\ o.how = "blank" THEN "good" ELSE o.how

\* The file, then the environment, then of each field the override that is applied,
\* if any; the claimant's defaults take the place of what is still zero.
Layers(s, told, applied) ==
    [f \in Options[s] |->
       LET at == <<s, f>>
           v == EnvKey(s, f)
           filed == IF at \in DOMAIN told.file
                    THEN Over(Zero, at, told.file[at], <<"file">>) ELSE Zero
           set == IF v \in Environ(told.env)
                  THEN Over(filed, at, told.env[v], <<"env">>) ELSE filed
       IN IF applied[f] = {} THEN set
          ELSE LET i == CHOOSE i \in applied[f] : TRUE
               IN Over(set, at, HowGiven(told.params[i], f), <<"opt", i>>)]

\* Of the value of a field, how it was given.
Given(s, f, v, told) ==
    CASE v = Zero -> "blank"
      [] v = <<"file">> -> told.file[<<s, f>>]
      [] v = <<"env">> -> told.env[EnvKey(s, f)]
      [] v[1] = "opt" -> HowGiven(told.params[v[2]], f)

\* Section fails, decoding the file strictly, a variable or one of `opts'.
DecodeRefused(s, told, opts) ==
    \/ \E at \in DOMAIN told.file :
          at[1] = s /\ (at[2] \notin Options[s] \/ told.file[at] = "wrong")
    \/ \E v \in Matches(s, told.env) : told.env[v] = "wrong"
    \/ \E i \in opts : told.params[i].section = s /\ OverrideRefused(told.params[i], s)

\* OneOf and Accept.Validate look at what was left of it all.
Unlisted(s, value, told) ==
    \E f \in Options[s] : <<s, f>> \in Listed /\ Given(s, f, value[f], told) = "unlisted"

\* Section reports whether anything was said.
Says(s, told) ==
    \/ \E at \in DOMAIN told.file : at[1] = s
    \/ \E i \in Typed(told.params) : told.params[i].section = s
    \/ Matches(s, told.env) # {}

\* What the file or the command line names and nobody claimed; a variable is none
\* of it.
Leftover(told, claimed) ==
    ({at[1] : at \in DOMAIN told.file}
       \cup {told.params[i].section : i \in Typed(told.params)}) \ claimed

=============================================================================
