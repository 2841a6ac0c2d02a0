---------------------------- MODULE GenerateProofs ----------------------------
(***************************************************************************)
(* Proofs about a run of the plugin, for every registry of targets and     *)
(* backends, every plan, and all that the file, the environment and the    *)
(* command line may say.                                                   *)
(***************************************************************************)
EXTENDS WellFoundedInduction, Generate, TLAPS

-----------------------------------------------------------------------------
(* What a run knows at each phase.  All that it has understood is of its    *)
(* input, and the input does not change: once true of it, always true.      *)

\* The claimants of an entry, and of the first n entries.
Mine(i) == {entries[i].target, entries[i].backend} \ {None}

FirstClaimants(n) == UNION {Mine(i) : i \in 1..n}

Understood ==
    /\ Resolved
    /\ \A s \in Planned : ~ConfigureRefused(s)
    /\ Leftover(input, {s \in Planned : Says(s, input)}) = {}

\* The claimants S, and no others, have claimed their sections.
Configured(S) ==
    /\ \A s \in S : ~ConfigureRefused(s) /\ setting[s] = Decoded(s)
    /\ claimed = {s \in S : Says(s, input)}
    /\ DOMAIN envRead = UNION {Matches(s, input.env) : s \in S}
    /\ \A v \in DOMAIN envRead : envRead[v] \in S /\ v \in Matches(envRead[v], input.env)

\* What the store of an entry cannot hold has been looked at, and is accepted.
Lowered(i) ==
    entries[i].backend # None =>
      /\ RefusedBy(entries[i].backend) = {}
      /\ \A x \in Shortfalls(entries[i].backend) : <<"accepted", i, x>> \in log

FilesOf(i) == {[name |-> entries[i].out \o f, by |-> i] : f \in Files[entries[i].target]}

FilesTo(n) == UNION {FilesOf(i) : i \in 1..n}

Succeeded == pc = "ended" /\ response.error = ""

Rendering == pc \in {"lower", "emit", "add", "respond"} \/ Succeeded

Place ==
    /\ pc \notin {"parse", "ended"} \/ Succeeded => entries # <<>> /\ ~DocRefused(input.doc)
    /\ pc \in {"unclaimed", "respond"} => at = 1
    /\ pc = "parse" => at = 1

NamesInv ==
    /\ pc = "names" => \A i \in 1..(at - 1) : Resolves(entries[i])
    /\ pc \in {"configure", "unclaimed"} \/ Rendering => Resolved

SectionsInv ==
    /\ pc \in {"parse", "names"} => Configured({})
    /\ pc = "configure" => Configured(FirstClaimants(at - 1))
    /\ pc = "unclaimed" \/ Rendering => Configured(Planned)

UnclaimedInv == Rendering => Understood /\ ReportEnv \subseteq log

StoresInv ==
    /\ pc = "lower" => \A i \in 1..(at - 1) : Lowered(i)
    /\ pc \in {"emit", "add"} => \A i \in 1..at : Lowered(i)
    /\ pc = "respond" \/ Succeeded => \A i \in DOMAIN entries : Lowered(i)

FilesInv ==
    /\ pc \in {"parse", "names", "configure", "unclaimed"} => out = {}
    /\ pc \in {"lower", "emit"} => out = FilesTo(at - 1)
    /\ pc = "add" => out \cup todo = FilesTo(at)
    /\ pc = "respond" \/ Succeeded => out = FilesTo(Len(entries))
    /\ \A f, g \in out : f.name = g.name => f = g
    /\ out # {} => Understood

ResponseInv ==
    /\ pc # "ended" => response = Pending
    /\ pc = "ended" /\ response.error # "" =>
         /\ response.files = {}
         /\ response.error = "names" => ~Resolved
         /\ response.error = "configure" => \E s \in Planned : ConfigureRefused(s)
         /\ response.error = "unclaimed" =>
              Leftover(input, {s \in Planned : Says(s, input)}) # {}
    /\ Succeeded =>
         response.files = out \cup IF Asked THEN {[name |-> Manifest, by |-> 0]} ELSE {}

RunInv ==
    /\ TypeOK /\ Place /\ NamesInv /\ SectionsInv /\ UnclaimedInv
    /\ StoresInv /\ FilesInv /\ ResponseInv

\* What is only of the input stays as it is.
LEMMA SameInput ==
    ASSUME UNCHANGED input
    PROVE  /\ entries' = entries /\ entity' = entity
           /\ \A e : Resolves(e)' <=> Resolves(e)
           /\ Planned' = Planned /\ (Resolved' <=> Resolved)
           /\ \A i : Mine(i)' = Mine(i) /\ FilesOf(i)' = FilesOf(i)
           /\ \A n : FirstClaimants(n)' = FirstClaimants(n) /\ FilesTo(n)' = FilesTo(n)
           /\ \A s : Decoded(s)' = Decoded(s) /\ (ConfigureRefused(s)' <=> ConfigureRefused(s))
           /\ \A s : (Says(s, input)' <=> Says(s, input)) /\ Matches(s, input.env)' = Matches(s, input.env)
           /\ Understood' <=> Understood
<1>1. entries' = entries /\ entity' = entity
  BY DEF entries, entity
<1>2. Planned' = Planned
  BY <1>1 DEF Planned
<1>3. Resolved' <=> Resolved
  BY <1>1 DEF Resolved, Resolves
<1>4. ASSUME NEW i PROVE Mine(i)' = Mine(i) /\ FilesOf(i)' = FilesOf(i)
  BY <1>1 DEF Mine, FilesOf
<1>5. ASSUME NEW n PROVE FirstClaimants(n)' = FirstClaimants(n) /\ FilesTo(n)' = FilesTo(n)
  BY <1>4 DEF FirstClaimants, FilesTo
<1>6. ASSUME NEW s
      PROVE  /\ Decoded(s)' = Decoded(s)
             /\ ConfigureRefused(s)' <=> ConfigureRefused(s)
             /\ Says(s, input)' <=> Says(s, input)
             /\ Matches(s, input.env)' = Matches(s, input.env)
  <2>1. Decoded(s)' = Decoded(s)
    BY DEF Decoded
  <2> QED BY <2>1 DEF ConfigureRefused, Overriding
<1>7. {s \in Planned : Says(s, input)}' = {s \in Planned : Says(s, input)}
  BY <1>2, <1>6
<1>8. Understood' <=> Understood
  BY <1>2, <1>3, <1>6, <1>7 DEF Understood
<1>9. \A e : Resolves(e)' <=> Resolves(e)
  BY DEF Resolves
<1> QED BY <1>1, <1>2, <1>3, <1>4, <1>5, <1>6, <1>8, <1>9

-----------------------------------------------------------------------------
(* The plan. *)

LEMMA PlanTyped ==
    ASSUME TypeOK
    PROVE  /\ entries \in Seq(Entry) /\ Len(entries) \in Nat
           /\ DOMAIN entries = 1..Len(entries)
           /\ at \in Nat \ {0}
<1>1. entries \in Seq(Entry)
  BY FamiliesAssumption DEF TypeOK, Inputs, entries
<1>2. Len(entries) \in Nat /\ DOMAIN entries = 1..Len(entries)
  BY <1>1
<1>3. at \in DOMAIN entries \cup {1}
  BY DEF TypeOK
<1> QED BY <1>1, <1>2, <1>3

LEMMA OneMore ==
    ASSUME NEW n \in Nat
    PROVE  /\ FirstClaimants(n + 1) = FirstClaimants(n) \cup Mine(n + 1)
           /\ FilesTo(n + 1) = FilesTo(n) \cup FilesOf(n + 1)
<1>1. 1..(n + 1) = (1..n) \cup {n + 1}
  OBVIOUS
<1> QED BY <1>1 DEF FirstClaimants, FilesTo

LEMMA NoneYet == FirstClaimants(0) = {} /\ FilesTo(0) = {}
BY DEF FirstClaimants, FilesTo

LEMMA AllClaimants == ASSUME TypeOK PROVE FirstClaimants(Len(entries)) = Planned
BY PlanTyped DEF FirstClaimants, Planned, Mine

\* An entry that resolves claims sections of the registry.
LEMMA ClaimsSections ==
    ASSUME NEW i \in DOMAIN entries, Resolves(entries[i])
    PROVE  Mine(i) \subseteq Section \cap Planned
BY RegistryAssumption DEF Resolves, Mine, Section, Planned

LEMMA PlannedClaims == ASSUME Resolved PROVE Planned \subseteq Section
<1>1. \A s \in Planned : \E i \in DOMAIN entries : s \in Mine(i)
  BY DEF Planned, Mine
<1>2. \A i \in DOMAIN entries : Mine(i) \subseteq Section
  BY ClaimsSections DEF Resolved
<1> QED BY <1>1, <1>2

LEMMA AdvanceEffect ==
    ASSUME TypeOK, at \in DOMAIN entries, NEW phase, NEW then, Advance(phase, then)
    PROVE  \/ at < Len(entries) /\ at' = at + 1 /\ at' \in DOMAIN entries /\ pc' = phase
           \/ at = Len(entries) /\ at' = 1 /\ pc' = then
BY PlanTyped DEF Advance

-----------------------------------------------------------------------------
(* Every step keeps the invariant. *)

LEMMA PendingIs == Pending.error = "" /\ Pending.files = {}
BY DEF Pending

\* A refusal at a phase, with what it says about the input.
LEMMA FailKeeps ==
    ASSUME RunInv, pc \in Phase, Fail,
           pc = "names" => ~Resolved,
           pc = "configure" => \E s \in Planned : ConfigureRefused(s),
           pc = "unclaimed" => Leftover(input, {s \in Planned : Says(s, input)}) # {}
    PROVE  RunInv'
<1>1. /\ pc' = "ended" /\ response' = [error |-> pc, files |-> {}]
      /\ UNCHANGED <<input, at, setting, claimed, envRead, out, todo, diags>>
      /\ response'.error # ""
  BY DEF Fail, Refused, Phase
<1>2. TypeOK'
  BY <1>1, SameInput DEF RunInv, TypeOK, Phase, Inputs
<1>3. ~Succeeded' /\ ~Rendering'
  BY <1>1 DEF Succeeded, Rendering
<1>4. Place' /\ NamesInv' /\ SectionsInv' /\ UnclaimedInv' /\ StoresInv'
  BY <1>1, <1>3 DEF Place, NamesInv, SectionsInv, UnclaimedInv, StoresInv
<1>5. FilesInv'
  BY <1>1, <1>3, SameInput DEF RunInv, FilesInv
<1>6. ResponseInv'
  <2>1. {s \in Planned : Says(s, input)}' = {s \in Planned : Says(s, input)}
    BY <1>1, SameInput
  <2> QED BY <1>1, <1>3, <2>1, SameInput DEF ResponseInv
<1> QED BY <1>2, <1>4, <1>5, <1>6 DEF RunInv

\* What is configured, and what was found of a store, stays so.
LEMMA ConfiguredStays ==
    ASSUME UNCHANGED <<input, setting, claimed, envRead>>, NEW S, Configured(S)
    PROVE  Configured(S)'
<1>1. /\ \A s \in S : ~ConfigureRefused(s)' /\ setting'[s] = Decoded(s)'
  BY SameInput DEF Configured
<1>2. claimed' = {s \in S : Says(s, input)'}
  BY SameInput DEF Configured
<1>3. DOMAIN envRead' = UNION {Matches(s, input.env)' : s \in S}
  BY SameInput DEF Configured
<1>4. \A v \in DOMAIN envRead' : envRead'[v] \in S /\ v \in Matches(envRead[v], input.env)'
  BY SameInput DEF Configured
<1> QED BY <1>1, <1>2, <1>3, <1>4 DEF Configured

LEMMA LoweredStays ==
    ASSUME UNCHANGED <<input, setting>>, log \subseteq log', NEW i, Lowered(i)
    PROVE  Lowered(i)'
<1>1. entries' = entries /\ entity' = entity
  BY SameInput
<1>2. \A b : Shortfalls(b)' = Shortfalls(b)
  BY <1>1 DEF Shortfalls
<1>3. \A b : RefusedBy(b)' = RefusedBy(b)
  BY <1>2 DEF RefusedBy
<1> QED BY <1>1, <1>2, <1>3 DEF Lowered

LEMMA AtAnEntry ==
    ASSUME RunInv, pc \notin {"parse", "ended"}
    PROVE  at \in DOMAIN entries
<1>1. entries # <<>> /\ at \in DOMAIN entries \cup {1}
  BY DEF RunInv, Place, TypeOK
<1>2. entries \in Seq(Entry)
  BY PlanTyped DEF RunInv
<1>3. 1 \in DOMAIN entries
  BY <1>1, <1>2
<1> QED BY <1>1, <1>3

LEMMA ParseKeeps == ASSUME RunInv, Parse PROVE RunInv'
<1>1. CASE Fail
  BY <1>1, FailKeeps DEF Parse, Phase
<1>2. CASE ~Fail
  <2>1. /\ pc = "parse" /\ pc' = "names" /\ ~DocRefused(input.doc)
        /\ UNCHANGED <<input, at, setting, claimed, envRead, out, todo, diags, response, log>>
    BY <1>2 DEF Parse
  <2>2. TypeOK'
    BY <2>1, SameInput DEF RunInv, TypeOK, Phase
  <2>3. entries # <<>> /\ at = 1
    BY <2>1 DEF DocRefused, entries, RunInv, Place
  <2>4. ~Rendering' /\ ~Succeeded'
    BY <2>1 DEF Rendering, Succeeded
  <2>5. Configured({})'
    BY <2>1, ConfiguredStays DEF RunInv, SectionsInv
  <2>6. FilesInv'
    BY <2>1, <2>4, SameInput DEF RunInv, FilesInv
  <2>7. Place' /\ NamesInv' /\ SectionsInv' /\ UnclaimedInv' /\ StoresInv' /\ ResponseInv'
    BY <2>1, <2>3, <2>4, <2>5, SameInput
       DEF RunInv, Place, NamesInv, SectionsInv, UnclaimedInv, StoresInv, ResponseInv
  <2> QED BY <2>2, <2>6, <2>7 DEF RunInv
<1> QED BY <1>1, <1>2

LEMMA ResolveEntryKeeps == ASSUME RunInv, ResolveEntry PROVE RunInv'
<1>1. pc = "names" /\ at \in DOMAIN entries
  BY AtAnEntry DEF ResolveEntry
<1>2. CASE ~Resolves(entries[at])
  <2>1. ~Resolved
    BY <1>1, <1>2 DEF Resolved
  <2> QED BY <1>1, <1>2, <2>1, FailKeeps DEF ResolveEntry, Phase
<1>3. CASE Resolves(entries[at])
  <2>1. UNCHANGED <<input, setting, claimed, envRead, out, todo, diags, response, log>>
    BY <1>3 DEF ResolveEntry
  <2>2. \/ at < Len(entries) /\ at' = at + 1 /\ at' \in DOMAIN entries /\ pc' = "names"
        \/ at = Len(entries) /\ at' = 1 /\ pc' = "configure"
    BY <1>1, <1>3, AdvanceEffect DEF ResolveEntry, RunInv
  <2>3. TypeOK'
    BY <2>1, <2>2, SameInput DEF RunInv, TypeOK, Phase
  <2>4. \A i \in 1..at : Resolves(entries[i])
    BY <1>1, <1>3, PlanTyped DEF RunInv, NamesInv
  <2>5. pc' = "configure" => Resolved
    BY <2>2, <2>4, PlanTyped DEF Resolved, RunInv
  <2>6. ~Rendering' /\ ~Succeeded' /\ entries' = entries
    BY <2>1, <2>2, SameInput DEF Rendering, Succeeded
  <2>7. NamesInv'
    <3>1. CASE pc' = "names"
      <4>1. at' - 1 = at
        BY <2>2, <3>1, PlanTyped DEF RunInv
      <4> QED BY <2>1, <2>4, <2>6, <3>1, <4>1, SameInput DEF NamesInv
    <3>2. CASE pc' = "configure"
      BY <2>1, <2>5, <2>6, <3>2, SameInput DEF NamesInv
    <3> QED BY <2>2, <3>1, <3>2
  <2>8. SectionsInv'
    <3>1. Configured({})'
      BY <1>1, <2>1, ConfiguredStays DEF RunInv, SectionsInv
    <3>2. pc' = "configure" => FirstClaimants(at - 1)' = {}
      BY <2>1, <2>2, NoneYet, SameInput
    <3> QED BY <2>2, <2>6, <3>1, <3>2 DEF SectionsInv
  <2>9. FilesInv'
    BY <1>1, <2>1, <2>2, <2>6, SameInput DEF RunInv, FilesInv
  <2>10. Place' /\ UnclaimedInv' /\ StoresInv' /\ ResponseInv'
    BY <1>1, <2>1, <2>2, <2>6 DEF RunInv, Place, UnclaimedInv, StoresInv, ResponseInv
  <2> QED BY <2>3, <2>7, <2>8, <2>9, <2>10 DEF RunInv
<1> QED BY <1>2, <1>3

\* Configuring an entry configures its claimants beside those before it.
LEMMA ConfiguresMine ==
    ASSUME RunInv, ConfigureEntry, ~\E s \in Mine(at) : ConfigureRefused(s),
           NEW S, Configured(S), S \subseteq Section, Mine(at) \subseteq Section,
           NEW T, T = S \cup Mine(at)
    PROVE  Configured(T)'
<1> DEFINE read == UNION {Matches(s, input.env) : s \in Mine(at)}
           b == entries[at].backend
           t == entries[at].target
<1>1. /\ UNCHANGED input
      /\ setting' = [s \in Section |-> IF s \in Mine(at) THEN Decoded(s) ELSE setting[s]]
      /\ claimed' = claimed \cup {s \in Mine(at) : Says(s, input)}
      /\ envRead' = [v \in DOMAIN envRead \cup read |->
                       IF v \notin read THEN envRead[v]
                       ELSE IF b # None /\ v \in Matches(b, input.env) THEN b ELSE t]
  BY DEF ConfigureEntry, Mine
<1>2. \A s \in T : ~ConfigureRefused(s) /\ setting'[s] = Decoded(s)
  BY <1>1 DEF Configured
<1>3. claimed' = {s \in T : Says(s, input)}
  BY <1>1 DEF Configured
<1>4. DOMAIN envRead' = UNION {Matches(s, input.env) : s \in T}
  BY <1>1 DEF Configured
<1>5. ASSUME NEW v \in DOMAIN envRead'
      PROVE  envRead'[v] \in T /\ v \in Matches(envRead'[v], input.env)
  <2>1. CASE v \notin read
    BY <1>1, <1>5, <2>1 DEF Configured
  <2>2. CASE v \in read
    <3>1. PICK s \in Mine(at) : v \in Matches(s, input.env)
      BY <2>2
    <3>2. CASE b # None /\ v \in Matches(b, input.env)
      BY <1>1, <2>2, <3>2 DEF Mine
    <3>3. CASE ~(b # None /\ v \in Matches(b, input.env))
      <4>1. s = t /\ t # None
        BY <3>1, <3>3 DEF Mine
      <4> QED BY <1>1, <2>2, <3>1, <3>3, <4>1 DEF Mine
    <3> QED BY <3>2, <3>3
  <2> QED BY <2>1, <2>2
<1>6. \A s \in T : ~ConfigureRefused(s)' /\ setting'[s] = Decoded(s)'
  BY <1>1, <1>2, SameInput
<1>7. claimed' = {s \in T : Says(s, input)'}
  BY <1>1, <1>3, SameInput
<1>8. DOMAIN envRead' = UNION {Matches(s, input.env)' : s \in T}
  BY <1>1, <1>4, SameInput
<1>9. \A v \in DOMAIN envRead' : envRead'[v] \in T /\ v \in Matches(envRead[v], input.env)'
  BY <1>1, <1>5
<1> QED BY <1>6, <1>7, <1>8, <1>9 DEF Configured

\* What a step leaves claimed and read is typed, as Configured says it.
LEMMA ConfiguredTyped ==
    ASSUME NEW S \in SUBSET Section, Configured(S)'
    PROVE  /\ claimed' \subseteq Section
           /\ DOMAIN envRead' \subseteq Environ(input.env)'
           /\ \A v \in DOMAIN envRead' : envRead'[v] \in claimed'
<1>1. \A s : Matches(s, input.env)' \subseteq Environ(input.env)'
  BY DEF Matches
<1>2. \A s : Matches(s, input.env)' # {} => Says(s, input)'
  BY DEF Says
<1> QED BY <1>1, <1>2 DEF Configured

LEMMA ConfigureEntryKeeps == ASSUME RunInv, ConfigureEntry PROVE RunInv'
<1>1. pc = "configure" /\ at \in DOMAIN entries /\ Resolved
  BY AtAnEntry DEF ConfigureEntry, RunInv, NamesInv
<1>2. \A i \in DOMAIN entries : Mine(i) \subseteq Section \cap Planned
  BY <1>1, ClaimsSections DEF Resolved
<1>3. CASE \E s \in Mine(at) : ConfigureRefused(s)
  <2>1. Fail /\ UNCHANGED log
    BY <1>3 DEF ConfigureEntry, Mine
  <2> QED BY <1>1, <1>2, <1>3, <2>1, FailKeeps DEF Phase
<1>4. CASE ~\E s \in Mine(at) : ConfigureRefused(s)
  <2>1. /\ UNCHANGED <<input, out, todo, diags, response, log>>
        /\ setting' = [s \in Section |-> IF s \in Mine(at) THEN Decoded(s) ELSE setting[s]]
        /\ Advance("configure", "unclaimed")
    BY <1>4 DEF ConfigureEntry, Mine
  <2>2. \/ at < Len(entries) /\ at' = at + 1 /\ at' \in DOMAIN entries /\ pc' = "configure"
        \/ at = Len(entries) /\ at' = 1 /\ pc' = "unclaimed"
    BY <1>1, <2>1, AdvanceEffect DEF RunInv
  <2>3. at \in Nat \ {0} /\ DOMAIN entries = 1..Len(entries) /\ Len(entries) \in Nat
    BY PlanTyped DEF RunInv
  <2>4. /\ at - 1 \in Nat /\ (at - 1) + 1 = at
        /\ FirstClaimants(at) = FirstClaimants(at - 1) \cup Mine(at)
    <3>1. at - 1 \in Nat /\ (at - 1) + 1 = at
      BY <2>3
    <3>2. FirstClaimants((at - 1) + 1) = FirstClaimants(at - 1) \cup Mine((at - 1) + 1)
      BY <3>1, OneMore
    <3> QED BY <3>1, <3>2
  <2>5. FirstClaimants(at - 1) \subseteq Section /\ FirstClaimants(at) \subseteq Section
    <3>1. (1..at) \subseteq DOMAIN entries /\ (1..(at - 1)) \subseteq DOMAIN entries
      BY <1>1, <2>3
    <3> QED BY <1>2, <3>1 DEF FirstClaimants
  <2>6. \A T : T = FirstClaimants(at) => Configured(T)'
    <3>1. Configured(FirstClaimants(at - 1)) /\ Mine(at) \subseteq Section
      BY <1>1, <1>2 DEF RunInv, SectionsInv
    <3> QED BY <1>4, <2>4, <2>5, <3>1, ConfiguresMine
  <2>7. ~Rendering' /\ ~Succeeded' /\ entries' = entries
    BY <2>1, <2>2, SameInput DEF Rendering, Succeeded
  <2>8. SectionsInv'
    <3>1. CASE pc' = "configure"
      <4>1. FirstClaimants(at - 1)' = FirstClaimants(at)
        BY <2>1, <2>2, <2>3, <3>1, SameInput
      <4> QED BY <2>6, <2>7, <3>1, <4>1 DEF SectionsInv
    <3>2. CASE pc' = "unclaimed"
      <4>1. Planned' = FirstClaimants(at)
        BY <2>1, <2>2, <3>2, SameInput, AllClaimants DEF RunInv
      <4> QED BY <2>6, <2>7, <3>2, <4>1 DEF SectionsInv
    <3> QED BY <2>2, <3>1, <3>2
  <2>9. TypeOK'
    <3>1. PICK T : T = FirstClaimants(at)
      OBVIOUS
    <3>2. T \in SUBSET Section /\ Section' = Section
      BY <2>5, <3>1 DEF Section
    <3>3. /\ claimed' \subseteq Section
          /\ DOMAIN envRead' \subseteq Environ(input.env)'
          /\ \A v \in DOMAIN envRead' : envRead'[v] \in claimed'
      BY <2>6, <3>1, <3>2, ConfiguredTyped
    <3>4. \A s \in Section : DOMAIN Decoded(s) = Options[s]
      BY DEF Decoded, Layers
    <3>5. DOMAIN setting' = Section /\ \A s \in Section : DOMAIN setting'[s] = Options[s]
      BY <2>1, <3>4 DEF RunInv, TypeOK
    <3>6. pc' \in Phase /\ at' \in DOMAIN entries \cup {1}
      BY <2>2 DEF Phase
    <3>7. /\ \E F \in Families : input' \in Inputs(F)
          /\ \A f \in out' \cup todo' : f.by \in DOMAIN entries
          /\ diags' \in BOOLEAN
          /\ response'.error \in Phase \cup {""}
      BY <2>1 DEF RunInv, TypeOK
    <3> QED BY <2>7, <3>2, <3>3, <3>5, <3>6, <3>7 DEF TypeOK
  <2>10. FilesInv'
    BY <1>1, <2>1, <2>2, <2>7, SameInput DEF RunInv, FilesInv
  <2>11. NamesInv'
    BY <1>1, <2>1, <2>2, <2>7, SameInput DEF NamesInv
  <2>12. Place' /\ UnclaimedInv' /\ StoresInv' /\ ResponseInv'
    BY <1>1, <2>1, <2>2, <2>7 DEF RunInv, Place, UnclaimedInv, StoresInv, ResponseInv
  <2> QED BY <2>8, <2>9, <2>10, <2>11, <2>12 DEF RunInv
<1> QED BY <1>3, <1>4

LEMMA CheckUnclaimedKeeps == ASSUME RunInv, CheckUnclaimed PROVE RunInv'
<1>1. /\ pc = "unclaimed" /\ Resolved /\ Configured(Planned) /\ at = 1
      /\ entries # <<>>
  BY DEF CheckUnclaimed, RunInv, NamesInv, SectionsInv, Place
<1>2. Unclaimed = Leftover(input, {s \in Planned : Says(s, input)})
  BY <1>1 DEF Unclaimed, Configured
<1>3. CASE Unclaimed # {}
  BY <1>1, <1>2, <1>3, FailKeeps DEF CheckUnclaimed, Phase
<1>4. CASE Unclaimed = {}
  <2>1. /\ UNCHANGED <<input, at, setting, claimed, envRead, out, todo, diags, response>>
        /\ pc' = "lower" /\ log' = log \cup ReportEnv
    BY <1>4 DEF CheckUnclaimed
  <2>2. Understood
    BY <1>1, <1>2, <1>4 DEF Understood, Configured
  <2>3. Rendering' /\ ~Succeeded' /\ entries' = entries
    BY <2>1, SameInput DEF Rendering, Succeeded
  <2>4. TypeOK'
    BY <2>1, SameInput DEF RunInv, TypeOK, Phase
  <2>5. UnclaimedInv'
    <3>1. ReportEnv' = ReportEnv
      BY <2>1 DEF ReportEnv
    <3> QED BY <2>1, <2>2, <3>1, SameInput DEF UnclaimedInv
  <2>6. FilesInv'
    <3>1. FilesTo(at - 1)' = {} /\ out' = {}
      BY <1>1, <2>1, NoneYet, SameInput DEF RunInv, FilesInv
    <3> QED BY <2>1, <2>3, <3>1, SameInput DEF FilesInv
  <2>7. SectionsInv'
    <3>1. \A T : T = Planned => Configured(T)'
      BY <1>1, <2>1, ConfiguredStays
    <3>2. Planned' = Planned
      BY <2>1, SameInput
    <3> QED BY <2>1, <3>1, <3>2 DEF SectionsInv
  <2>8. NamesInv' /\ Place' /\ ResponseInv' /\ StoresInv'
    BY <1>1, <2>1, <2>3, SameInput DEF RunInv, NamesInv, Place, ResponseInv, StoresInv
  <2> QED BY <2>4, <2>5, <2>6, <2>7, <2>8 DEF RunInv
<1> QED BY <1>3, <1>4

\* In gen.Run only the log grows, and what was configured stays configured.
LEMMA RenderingStays ==
    ASSUME RunInv, Rendering, Rendering',
           UNCHANGED <<input, setting, claimed, envRead>>, log \subseteq log'
    PROVE  NamesInv' /\ SectionsInv' /\ UnclaimedInv'
<1>1. Resolved /\ Configured(Planned) /\ Understood /\ ReportEnv \subseteq log
  BY DEF RunInv, NamesInv, SectionsInv, UnclaimedInv
<1>2. pc' \notin {"parse", "names", "configure", "unclaimed"}
  BY DEF Rendering, Succeeded
<1>3. ReportEnv' = ReportEnv
  BY DEF ReportEnv
<1>4. \A T : T = Planned => Configured(T)'
  BY <1>1, ConfiguredStays
<1>5. SectionsInv'
  BY <1>2, <1>4, SameInput DEF SectionsInv
<1> QED BY <1>1, <1>2, <1>3, <1>5, SameInput DEF NamesInv, UnclaimedInv

LEMMA LowerEntryKeeps == ASSUME RunInv, LowerEntry PROVE RunInv'
<1>1. pc = "lower" /\ at \in DOMAIN entries /\ Rendering
  BY AtAnEntry DEF LowerEntry, Rendering
<1>2. CASE Fail
  BY <1>1, <1>2, FailKeeps DEF Phase
<1>3. CASE ~Fail
  <2>1. /\ UNCHANGED <<input, at, setting, claimed, envRead, out, todo, diags, response>>
        /\ pc' = "emit" /\ RefusedBy(entries[at].backend) = {}
        /\ log' = log \cup {<<"accepted", at, x>> : x \in Shortfalls(entries[at].backend)}
    BY <1>3 DEF LowerEntry
  <2>2. Rendering' /\ ~Succeeded' /\ entries' = entries
    BY <2>1, SameInput DEF Rendering, Succeeded
  <2>3. NamesInv' /\ SectionsInv' /\ UnclaimedInv'
    BY <1>1, <2>1, <2>2, RenderingStays
  <2>4. TypeOK'
    BY <2>1, SameInput DEF RunInv, TypeOK, Phase
  <2>5. \A i \in 1..(at - 1) : Lowered(i)'
    BY <1>1, <2>1, LoweredStays DEF RunInv, StoresInv
  <2>6. \A i : i = at => Lowered(i)'
    <3>1. /\ Shortfalls(entries[at].backend)' = Shortfalls(entries[at].backend)
          /\ RefusedBy(entries[at].backend)' = RefusedBy(entries[at].backend)
      BY <2>1, SameInput DEF Shortfalls, RefusedBy
    <3> QED BY <2>1, <3>1 DEF Lowered
  <2>7. StoresInv'
    <3>1. \A i \in 1..at : i \in 1..(at - 1) \/ i = at
      BY PlanTyped DEF RunInv
    <3>2. \A i \in 1..at : Lowered(i)'
      BY <2>5, <2>6, <3>1
    <3> QED BY <2>1, <2>2, <3>2 DEF StoresInv
  <2>8. FilesInv' /\ Place' /\ ResponseInv'
    BY <1>1, <2>1, <2>2, SameInput DEF RunInv, FilesInv, Place, ResponseInv
  <2> QED BY <2>3, <2>4, <2>7, <2>8 DEF RunInv
<1> QED BY <1>2, <1>3

LEMMA EmitEntryKeeps == ASSUME RunInv, EmitEntry PROVE RunInv'
<1>1. pc = "emit" /\ at \in DOMAIN entries /\ Rendering
  BY AtAnEntry DEF EmitEntry, Rendering
<1>2. CASE Fail
  BY <1>1, <1>2, FailKeeps DEF Phase
<1>3. CASE ~Fail
  <2>1. /\ UNCHANGED <<input, at, setting, claimed, envRead, out, response, log>>
        /\ pc' = "add" /\ todo' = FilesOf(at) /\ diags' \in {diags, TRUE}
    BY <1>3 DEF EmitEntry, FilesOf
  <2>2. Rendering' /\ ~Succeeded' /\ entries' = entries
    BY <2>1, SameInput DEF Rendering, Succeeded
  <2>3. NamesInv' /\ SectionsInv' /\ UnclaimedInv'
    BY <1>1, <2>1, <2>2, RenderingStays
  <2>4. TypeOK'
    <3>1. \A f \in todo' : f.by \in DOMAIN entries
      BY <1>1, <2>1 DEF FilesOf
    <3> QED BY <2>1, <2>2, <3>1 DEF RunInv, TypeOK, Phase
  <2>5. StoresInv'
    BY <1>1, <2>1, <2>2, LoweredStays DEF RunInv, StoresInv
  <2>6. FilesInv'
    <3>1. out \cup FilesOf(at) = FilesTo(at)
      <4>1. at - 1 \in Nat /\ (at - 1) + 1 = at
        BY PlanTyped DEF RunInv
      <4>2. FilesTo((at - 1) + 1) = FilesTo(at - 1) \cup FilesOf((at - 1) + 1)
        BY <4>1, OneMore
      <4> QED BY <1>1, <4>1, <4>2 DEF RunInv, FilesInv
    <3>2. FilesTo(at)' = FilesTo(at)
      BY <2>1, SameInput
    <3> QED BY <2>1, <2>2, <3>1, <3>2, SameInput DEF RunInv, FilesInv
  <2>7. Place' /\ ResponseInv'
    BY <1>1, <2>1, <2>2 DEF RunInv, Place, ResponseInv
  <2> QED BY <2>3, <2>4, <2>5, <2>6, <2>7 DEF RunInv
<1> QED BY <1>2, <1>3

LEMMA AddFileKeeps == ASSUME RunInv, AddFile PROVE RunInv'
<1>1. pc = "add" /\ at \in DOMAIN entries /\ Rendering /\ Understood
  BY AtAnEntry DEF AddFile, Rendering, RunInv, UnclaimedInv
<1>2. CASE Fail
  BY <1>1, <1>2, FailKeeps DEF Phase
<1>3. ASSUME NEW f \in todo, ~Taken(f),
             out' = {g \in out : g.name # f.name} \cup {f}, todo' = todo \ {f},
             UNCHANGED <<input, pc, at, setting, claimed, envRead, diags, response, log>>
      PROVE  RunInv'
  <2>1. out' = out \cup {f} /\ out' \cup todo' = out \cup todo
    BY <1>3 DEF Taken
  <2>2. Rendering' /\ ~Succeeded' /\ entries' = entries
    BY <1>1, <1>3, SameInput DEF Rendering, Succeeded
  <2>3. NamesInv' /\ SectionsInv' /\ UnclaimedInv'
    BY <1>1, <1>3, <2>2, RenderingStays
  <2>4. TypeOK'
    BY <1>3, <2>1, <2>2 DEF RunInv, TypeOK
  <2>5. StoresInv'
    BY <1>1, <1>3, <2>2, LoweredStays DEF RunInv, StoresInv
  <2>6. FilesInv'
    <3>1. \A g, h \in out' : g.name = h.name => g = h
      BY <1>3, <2>1 DEF Taken, RunInv, FilesInv
    <3>2. FilesTo(at)' = FilesTo(at) /\ Understood'
      BY <1>1, <1>3, SameInput
    <3> QED BY <1>1, <1>3, <2>1, <2>2, <3>1, <3>2 DEF RunInv, FilesInv
  <2>7. Place' /\ ResponseInv'
    BY <1>1, <1>3, <2>2 DEF RunInv, Place, ResponseInv
  <2> QED BY <2>3, <2>4, <2>5, <2>6, <2>7 DEF RunInv
<1>4. CASE todo = {} /\ ~Fail
  <2>1. /\ UNCHANGED <<input, setting, claimed, envRead, out, todo, diags, response, log>>
        /\ Advance("lower", "respond")
    BY <1>4 DEF AddFile
  <2>2. \/ at < Len(entries) /\ at' = at + 1 /\ at' \in DOMAIN entries /\ pc' = "lower"
        \/ at = Len(entries) /\ at' = 1 /\ pc' = "respond"
    BY <1>1, <2>1, AdvanceEffect DEF RunInv
  <2>3. Rendering' /\ ~Succeeded' /\ entries' = entries
    BY <2>1, <2>2, SameInput DEF Rendering, Succeeded
  <2>4. NamesInv' /\ SectionsInv' /\ UnclaimedInv'
    BY <1>1, <2>1, <2>3, RenderingStays
  <2>5. TypeOK'
    BY <2>1, <2>2, <2>3 DEF RunInv, TypeOK, Phase
  <2>6. at \in Nat \ {0} /\ DOMAIN entries = 1..Len(entries)
    BY PlanTyped DEF RunInv
  <2>7. \A i \in 1..at : Lowered(i)'
    BY <1>1, <2>1, LoweredStays DEF RunInv, StoresInv
  <2>8. StoresInv'
    <3>1. CASE pc' = "lower"
      <4>1. at' - 1 = at
        BY <2>2, <2>6, <3>1
      <4> QED BY <2>3, <2>7, <3>1, <4>1 DEF StoresInv
    <3>2. CASE pc' = "respond"
      <4>1. DOMAIN entries = 1..at
        BY <2>2, <2>6, <3>2
      <4> QED BY <2>3, <2>7, <3>2, <4>1 DEF StoresInv
    <3> QED BY <2>2, <3>1, <3>2
  <2>9. out' = FilesTo(at) /\ FilesTo(at) = FilesTo(at)
    BY <1>1, <1>4, <2>1 DEF RunInv, FilesInv
  <2>10. FilesInv'
    <3>1. CASE pc' = "lower"
      <4>1. FilesTo(at - 1)' = FilesTo(at)
        BY <2>1, <2>2, <2>6, <3>1, SameInput
      <4> QED BY <2>1, <2>3, <2>9, <3>1, <4>1, SameInput DEF RunInv, FilesInv
    <3>2. CASE pc' = "respond"
      <4>1. FilesTo(Len(entries))' = FilesTo(at)
        BY <2>1, <2>2, <3>2, SameInput
      <4> QED BY <2>1, <2>3, <2>9, <3>2, <4>1, SameInput DEF RunInv, FilesInv
    <3> QED BY <2>2, <3>1, <3>2
  <2>11. Place' /\ ResponseInv'
    BY <1>1, <2>1, <2>2, <2>3 DEF RunInv, Place, ResponseInv
  <2> QED BY <2>4, <2>5, <2>8, <2>10, <2>11 DEF RunInv
<1> QED BY <1>2, <1>3, <1>4 DEF AddFile

LEMMA RespondKeeps == ASSUME RunInv, Respond PROVE RunInv'
<1>1. pc = "respond" /\ Rendering /\ at = 1 /\ entries # <<>> /\ ~DocRefused(input.doc)
  BY DEF Respond, Rendering, RunInv, Place
<1>2. CASE Fail
  BY <1>1, <1>2, FailKeeps DEF Phase
<1>3. CASE ~Fail
  <2> DEFINE files == out \cup IF Asked THEN {[name |-> Manifest, by |-> 0]} ELSE {}
  <2>0. /\ UNCHANGED <<input, at, setting, claimed, envRead, out, todo, diags, log>>
        /\ pc' = "ended" /\ response' = [error |-> "", files |-> files]
    BY <1>3 DEF Respond
  <2> HIDE DEF files
  <2>1. /\ UNCHANGED <<input, at, setting, claimed, envRead, out, todo, diags, log>>
        /\ pc' = "ended" /\ response'.error = ""
        /\ response'.files = files
    BY <2>0
  <2>2. Rendering' /\ Succeeded' /\ entries' = entries
    BY <2>1, SameInput DEF Rendering, Succeeded
  <2>3. NamesInv' /\ SectionsInv' /\ UnclaimedInv'
    BY <1>1, <2>1, <2>2, RenderingStays
  <2>4. TypeOK'
    BY <2>1, <2>2 DEF RunInv, TypeOK
  <2>5. StoresInv'
    BY <1>1, <2>1, <2>2, LoweredStays DEF RunInv, StoresInv
  <2>6. FilesInv'
    <3>1. FilesTo(Len(entries))' = FilesTo(Len(entries))
      BY <2>1, SameInput
    <3> QED BY <1>1, <2>1, <2>2, <3>1, SameInput DEF RunInv, FilesInv
  <2>7. Place'
    BY <1>1, <2>1, <2>2 DEF Place
  <2>8. ResponseInv'
    BY <1>1, <2>1, <2>2 DEF ResponseInv, Asked, files
  <2> QED BY <2>3, <2>4, <2>5, <2>6, <2>7, <2>8 DEF RunInv
<1> QED BY <1>2, <1>3

LEMMA RunInvInit == ASSUME Init PROVE RunInv
<1>1. ~Rendering /\ ~Succeeded /\ pc = "parse" /\ at = 1
  BY DEF Init, Rendering, Succeeded
<1>2. TypeOK
  <2>1. DOMAIN setting = Section /\ \A s \in Section : DOMAIN setting[s] = Options[s]
    BY DEF Init
  <2>2. DOMAIN envRead = {} /\ claimed = {} /\ out \cup todo = {}
    BY DEF Init
  <2>3. response.error = ""
    BY DEF Init, Pending
  <2> QED BY <2>1, <2>2, <2>3 DEF Init, TypeOK, Phase
<1>3. Configured({})
  BY DEF Init, Configured
<1>4. FilesInv
  BY <1>1 DEF Init, FilesInv
<1> QED BY <1>1, <1>2, <1>3, <1>4
        DEF Init, RunInv, Place, NamesInv, SectionsInv, UnclaimedInv, StoresInv, ResponseInv

\* A run that has ended, and the environment of the program, change nothing.
LEMMA StutterKeeps == ASSUME RunInv, UNCHANGED vars PROVE RunInv'
<1>1. /\ UNCHANGED <<input, pc, at, setting, claimed, envRead, out, todo, diags, log, response>>
      /\ entries' = entries /\ (Succeeded' <=> Succeeded) /\ (Rendering' <=> Rendering)
  BY DEF vars, entries, Succeeded, Rendering
<1>2. TypeOK' /\ Place' /\ ResponseInv'
  BY <1>1, SameInput DEF RunInv, TypeOK, Place, ResponseInv, Leftover, Asked
<1>3. NamesInv' /\ UnclaimedInv' /\ FilesInv'
  BY <1>1, SameInput DEF RunInv, NamesInv, UnclaimedInv, FilesInv, ReportEnv
<1>4. StoresInv'
  BY <1>1, LoweredStays DEF RunInv, StoresInv
<1>5. SectionsInv'
  BY <1>1, ConfiguredStays, SameInput DEF RunInv, SectionsInv
<1> QED BY <1>2, <1>3, <1>4, <1>5 DEF RunInv

\* What each phase of a run has established holds in every state of every run.
THEOREM RunInductive == Spec => []RunInv
<1>1. Init => RunInv
  BY RunInvInit
<1>2. RunInv /\ [Next]_vars => RunInv'
  BY StutterKeeps, ParseKeeps, ResolveEntryKeeps, ConfigureEntryKeeps, CheckUnclaimedKeeps,
     LowerEntryKeeps, EmitEntryKeeps, AddFileKeeps, RespondKeeps DEF Next
<1> QED BY <1>1, <1>2, PTL DEF Spec

-----------------------------------------------------------------------------
(* What a run promises. *)

(* Every state of a run is well-typed: it never comes to an entry the plan   *)
(* does not have, and only sections of the registry are claimed (serve.go,   *)
(* generate; run.go, Run).                                                  *)
THEOREM TypeCorrect == Spec => []TypeOK
BY RunInductive, PTL DEF RunInv

\* Of what was understood every name belongs to the plan and every value decodes.
LEMMA UnderstoodMeans ==
    ASSUME Understood
    PROVE  /\ Resolved
           /\ \A x \in DOMAIN input.file :
                x[1] \in Planned /\ x[2] \in Options[x[1]] /\ input.file[x] # "wrong"
           /\ \A i \in Overriding :
                input.params[i].section \in Planned
                  /\ ~OverrideRefused(input.params[i], input.params[i].section)
           /\ \A s \in Planned : \A v \in Matches(s, input.env) : input.env[v] # "wrong"
<1>1. \A s \in Planned : ~DecodeRefused(s, input, Overriding)
  BY DEF Understood, ConfigureRefused
<1>2. \A x \in DOMAIN input.file : x[1] \in Planned
  BY DEF Understood, Leftover
<1>3. \A i \in Overriding : input.params[i].section \in Planned
  BY DEF Understood, Leftover, Overriding, Kept, Typed
<1> QED BY <1>1, <1>2, <1>3 DEF Understood, DecodeRefused

(* Nothing is rendered while a name or an option is not understood, however  *)
(* many entries the plan has and whatever the file, the environment and the  *)
(* command line say (run.go, Run; resolve.go, Resolve).                      *)
THEOREM UnderstoodFirst == Spec => []UnderstoodBeforeRendered
<1>1. RunInv => UnderstoodBeforeRendered
  <2> SUFFICES ASSUME RunInv, pc \in {"emit", "add", "respond"} \/ out # {}
               PROVE  Understood
    BY UnderstoodMeans DEF UnderstoodBeforeRendered
  <2> QED BY DEF RunInv, UnclaimedInv, FilesInv, Rendering
<1> QED BY <1>1, RunInductive, PTL

\* Only a run that succeeded has files.
LEMMA FilesOnSuccess ==
    ASSUME RunInv, response.files # {}
    PROVE  Succeeded /\ Rendering
<1>1. pc = "ended"
  BY PendingIs DEF RunInv, ResponseInv
<1>2. response.error = ""
  BY <1>1 DEF RunInv, ResponseInv
<1> QED BY <1>1, <1>2 DEF Succeeded, Rendering

(* A run that produced files has said of every variable which section it      *)
(* reached, and of the ones that reached none that they did not (run.go,     *)
(* reportEnv; section.go, Section).                                          *)
THEOREM EnvironmentIsSaid == Spec => []EnvironmentSaid
<1>1. RunInv => EnvironmentSaid
  <2> SUFFICES ASSUME RunInv, response.files # {}, NEW v \in Environ(input.env)
               PROVE  LET readers == {s \in Planned : v \in EnvNames(s)}
                      IN IF readers = {} THEN <<"unread", v>> \in log
                         ELSE \E s \in readers : <<"set", v, s>> \in log
    BY DEF EnvironmentSaid
  <2>1. Configured(Planned) /\ ReportEnv \subseteq log
    BY FilesOnSuccess DEF RunInv, SectionsInv, UnclaimedInv
  <2>2. \A s : v \in EnvNames(s) <=> v \in Matches(s, input.env)
    BY DEF Matches
  <2>3. CASE v \in DOMAIN envRead
    <3>1. <<"set", v, envRead[v]>> \in log
      BY <2>1, <2>3 DEF ReportEnv
    <3>2. envRead[v] \in Planned /\ v \in EnvNames(envRead[v])
      BY <2>1, <2>2, <2>3 DEF Configured
    <3> QED BY <3>1, <3>2
  <2>4. CASE v \notin DOMAIN envRead
    <3>1. <<"unread", v>> \in log
      BY <2>1, <2>4 DEF ReportEnv
    <3>2. \A s \in Planned : v \notin EnvNames(s)
      BY <2>1, <2>2, <2>4 DEF Configured
    <3> QED BY <3>1, <3>2
  <2> QED BY <2>3, <2>4
<1> QED BY <1>1, RunInductive, PTL

-----------------------------------------------------------------------------
(* The options of a command line, in the two orders they are applied in.    *)

\* The natural numbers are well-ordered, a finite part of them has a last one, and
\* a set of them that is closed under the next one is all of them.
LEMMA Least ==
    ASSUME NEW T \in SUBSET Nat, T # {}
    PROVE  \E x \in T : \A y \in T : x <= y
<1>1. IsWellFoundedOn(OpToRel(<, Nat), Nat)
  BY NatLessThanWellFounded
<1>2. PICK x \in T : \A y \in T : ~(<<y, x>> \in OpToRel(<, Nat))
  BY <1>1, WFMin
<1>3. \A y \in T : ~(y < x)
  BY <1>2 DEF OpToRel
<1> QED BY <1>3

LEMMA Greatest ==
    ASSUME NEW n \in Nat, NEW T \in SUBSET (1..n), T # {}
    PROVE  \E x \in T : \A y \in T : y <= x
<1> DEFINE U == {m \in Nat : \E i \in T : m = n - i}
<1>1. \A i \in T : n - i \in U
  OBVIOUS
<1>2. U \in SUBSET Nat /\ U # {}
  BY <1>1
<1>3. PICK u \in U : \A y \in U : u <= y
  BY <1>2, Least
<1>4. PICK x \in T : u = n - x
  OBVIOUS
<1>5. \A y \in T : n - x <= n - y
  BY <1>1, <1>3, <1>4
<1> QED BY <1>5

LEMMA Induction ==
    ASSUME NEW S, 0 \in S, \A i \in Nat : i \in S => i + 1 \in S
    PROVE  Nat \subseteq S
<1> SUFFICES ASSUME Nat \ S # {} PROVE FALSE
  OBVIOUS
<1>1. PICK n \in Nat \ S : \A m \in Nat \ S : n <= m
  BY Least
<1>2. n # 0 /\ n - 1 \in Nat /\ n - 1 \in S
  BY <1>1
<1> QED BY <1>1, <1>2

LEMMA ParamsTyped ==
    ASSUME TypeOK
    PROVE  /\ input.params \in Seq(Param) /\ Len(input.params) \in Nat
           /\ DOMAIN input.params = 1..Len(input.params)
<1>1. input.params \in Seq(Param)
  BY FamiliesAssumption DEF TypeOK, Inputs
<1> QED BY <1>1

\* Of any option there is a last one with its path, and that one is kept.
LEMMA LastIsKept ==
    ASSUME TypeOK, NEW i \in Typed(input.params)
    PROVE  \E j \in Kept(input.params) :
             /\ i <= j /\ input.params[j].section = input.params[i].section
             /\ input.params[j].path = input.params[i].path
<1> DEFINE T == {j \in Typed(input.params) :
                   /\ input.params[j].section = input.params[i].section
                   /\ input.params[j].path = input.params[i].path}
<1>1. T \in SUBSET (1..Len(input.params)) /\ T # {} /\ Len(input.params) \in Nat
  BY ParamsTyped DEF Typed
<1>2. PICK j \in T : \A k \in T : k <= j
  BY <1>1, Greatest
<1>3. j \in Kept(input.params)
  BY <1>1, <1>2, ParamsTyped DEF Kept, Typed
<1> QED BY <1>2, <1>3

\* The build's map of options and the command's list apply the same one, the last.
LEMMA SameApplied ==
    ASSUME TypeOK, PlainOptions, NEW s \in Section, NEW f \in Options[s]
    PROVE  /\ AppliedSorted(s, f, input.params) = AppliedTyped(s, f, input.params)
           /\ AppliedTyped(s, f, input.params)
                = {i \in Overrides(s, f) : \A j \in Overrides(s, f) : j <= i}
           /\ Overrides(s, f) # {} => \E i : AppliedTyped(s, f, input.params) = {i}
<1> DEFINE ps == input.params
           top == {i \in Overrides(s, f) : \A j \in Overrides(s, f) : j <= i}
<1>1. \A i, j \in Overrides(s, f) : ps[i].path = ps[j].path
  BY DEF PlainOptions
<1>2. /\ DOMAIN ps = 1..Len(ps) /\ Len(ps) \in Nat
      /\ Overrides(s, f) \in SUBSET (1..Len(ps))
  BY ParamsTyped DEF Overrides, Typed
<1>3. {i \in Kept(ps) : Reaches(ps[i], s, f)} = top
  <2>1. ASSUME NEW i \in Kept(ps), Reaches(ps[i], s, f) PROVE i \in top
    <3>1. i \in Overrides(s, f)
      BY <2>1 DEF Kept, Overrides, Typed
    <3>2. \A j \in Overrides(s, f) : ~(j > i)
      BY <1>1, <2>1, <3>1 DEF Kept, Overrides, Typed, Reaches
    <3> QED BY <1>2, <3>1, <3>2
  <2>2. ASSUME NEW i \in top PROVE i \in Kept(ps) /\ Reaches(ps[i], s, f)
    <3>1. \A j \in DOMAIN ps : j > i => j \notin Overrides(s, f)
      BY <1>2, <2>2
    <3>2. \A j \in DOMAIN ps :
            /\ ps[j].key = "override" /\ ps[j].section = ps[i].section
            /\ ps[j].path = ps[i].path
            => j \in Overrides(s, f)
      BY <2>2 DEF Overrides, Typed, Reaches
    <3> QED BY <2>2, <3>1, <3>2 DEF Kept, Overrides, Typed
  <2> QED BY <2>1, <2>2
<1>4. AppliedTyped(s, f, ps) = top
  BY DEF AppliedTyped, Overrides
<1>5. AppliedSorted(s, f, ps) = top
  <2>1. \A i, j \in top : Len(ps[j].path) <= Len(ps[i].path)
    <3>1. \A i \in DOMAIN ps : ps[i] \in Param
      BY ParamsTyped
    <3>2. \A i \in top : ps[i].path \in Seq(STRING)
      BY <1>2, <3>1 DEF Param
    <3>3. \A i \in top : Len(ps[i].path) \in Nat
      BY <3>2
    <3> QED BY <1>1, <3>3
  <2> QED BY <1>3, <2>1 DEF AppliedSorted
<1>6. Overrides(s, f) # {} => \E i : top = {i}
  <2> SUFFICES ASSUME Overrides(s, f) # {} PROVE \E i : top = {i}
    OBVIOUS
  <2>1. PICK i \in Overrides(s, f) : \A j \in Overrides(s, f) : j <= i
    BY <1>2, Greatest
  <2>2. \A j \in top : j = i
    BY <1>2, <2>1
  <2> QED BY <2>1, <2>2
<1> QED BY <1>4, <1>5, <1>6

\* What the build decodes is what the command shows.
LEMMA DecodedIsShown ==
    ASSUME TypeOK, PlainOptions, NEW s \in Section
    PROVE  Decoded(s) = Shown(s)
<1>1. [f \in Options[s] |-> AppliedSorted(s, f, input.params)]
        = [f \in Options[s] |-> AppliedTyped(s, f, input.params)]
  BY SameApplied
<1> QED BY <1>1 DEF Decoded, Shown

-----------------------------------------------------------------------------
(* The order of the layers.                                                 *)

\* What the file and the environment leave of a field, as Layers has it.
Filed(s, f) ==
    IF <<s, f>> \in DOMAIN input.file
    THEN Over(Zero, <<s, f>>, input.file[<<s, f>>], <<"file">>) ELSE Zero

Set(s, f) ==
    IF EnvKey(s, f) \in Environ(input.env)
    THEN Over(Filed(s, f), <<s, f>>, input.env[EnvKey(s, f)], <<"env">>) ELSE Filed(s, f)

\* Without an option a field is what the file and the environment leave; with some
\* it is what the last one makes of that.
LEMMA DecodedField ==
    ASSUME TypeOK, PlainOptions, NEW s \in Section, NEW f \in Options[s]
    PROVE  /\ Overrides(s, f) = {} => Decoded(s)[f] = Set(s, f)
           /\ Overrides(s, f) # {} =>
                \E i \in Overrides(s, f) :
                  /\ \A j \in Overrides(s, f) : j <= i
                  /\ Decoded(s)[f] =
                       Over(Set(s, f), <<s, f>>, HowGiven(input.params[i], f), <<"opt", i>>)
<1> DEFINE applied == [g \in Options[s] |-> AppliedSorted(s, g, input.params)]
<1>1. applied[f] = {i \in Overrides(s, f) : \A j \in Overrides(s, f) : j <= i}
  BY SameApplied
<1>2. Decoded(s)[f] =
        IF applied[f] = {} THEN Set(s, f)
        ELSE LET i == CHOOSE i \in applied[f] : TRUE
             IN Over(Set(s, f), <<s, f>>, HowGiven(input.params[i], f), <<"opt", i>>)
  BY DEF Decoded, Layers, Set, Filed
<1>3. Overrides(s, f) # {} => \E i : applied[f] = {i}
  BY SameApplied
<1> HIDE DEF applied
<1> QED BY <1>1, <1>2, <1>3

LEMMA LayersDiffer ==
    /\ Zero # <<"file">> /\ Zero # <<"env">> /\ <<"file">> # <<"env">>
    /\ \A i : <<"opt", i>> \notin {Zero, <<"file">>, <<"env">>}
<1>1. /\ Zero[1] = "default" /\ <<"file">>[1] = "file" /\ <<"env">>[1] = "env"
      /\ \A i : <<"opt", i>>[1] = "opt"
  BY DEF Zero
<1> QED BY <1>1

\* The layer that speaks last.
LEMMA TopLayerIs ==
    ASSUME TypeOK, NEW s \in Section, NEW f \in Options[s]
    PROVE  /\ \A i \in Overrides(s, f) :
                (\A j \in Overrides(s, f) : j <= i) => TopLayer(s, f) = <<"opt", i>>
           /\ Overrides(s, f) = {} =>
                TopLayer(s, f) = IF <<"env">> \in Speaking(s, f) THEN <<"env">>
                                 ELSE IF <<"file">> \in Speaking(s, f) THEN <<"file">>
                                 ELSE Zero
<1> DEFINE S == Speaking(s, f)
           fits(l) == /\ l \in S \cup {Zero}
                      /\ l = Zero => S = {}
                      /\ l = <<"file">> => S = {l}
                      /\ l = <<"env">> => Overrides(s, f) = {}
<1>1. ASSUME NEW x, fits(x), \A l : fits(l) => l = x
      PROVE  TopLayer(s, f) = x
  BY <1>1 DEF TopLayer
<1>2. ASSUME NEW i \in Overrides(s, f), \A j \in Overrides(s, f) : j <= i
      PROVE  TopLayer(s, f) = <<"opt", i>>
  <2>1. <<"opt", i>> \in S
    BY <1>2 DEF Speaking
  <2>2. \A l \in S : l \in {<<"opt", i>>, <<"env">>, <<"file">>}
    <3>1. Overrides(s, f) \subseteq Nat
      BY ParamsTyped DEF Overrides, Typed
    <3>2. \A k \in Overrides(s, f) : (\A j \in Overrides(s, f) : j <= k) => k = i
      BY <1>2, <3>1
    <3> QED BY <3>2 DEF Speaking
  <2>3. fits(<<"opt", i>>)
    BY <2>1, LayersDiffer
  <2>4. \A l : fits(l) => l = <<"opt", i>>
    BY <2>1, <2>2, LayersDiffer
  <2> QED BY <1>1, <2>3, <2>4
<1>3. ASSUME Overrides(s, f) = {}
      PROVE  TopLayer(s, f) = IF <<"env">> \in S THEN <<"env">>
                              ELSE IF <<"file">> \in S THEN <<"file">> ELSE Zero
  <2>1. S \subseteq {<<"env">>, <<"file">>}
    BY <1>3 DEF Speaking
  <2>2. CASE <<"env">> \in S
    BY <1>1, <1>3, <2>1, <2>2, LayersDiffer
  <2>3. CASE <<"env">> \notin S /\ <<"file">> \in S
    <3>1. S = {<<"file">>}
      BY <2>1, <2>3
    <3> QED BY <1>1, <2>3, <3>1, LayersDiffer
  <2>4. CASE <<"env">> \notin S /\ <<"file">> \notin S
    <3>1. S = {}
      BY <2>1, <2>4
    <3> QED BY <1>1, <2>4, <3>1, LayersDiffer
  <2> QED BY <2>2, <2>3, <2>4
<1> QED BY <1>2, <1>3

LEMMA GivenIs ==
    ASSUME NEW s, NEW f
    PROVE  /\ Given(s, f, Zero, input) = "blank"
           /\ Given(s, f, <<"file">>, input) = input.file[<<s, f>>]
           /\ Given(s, f, <<"env">>, input) = input.env[EnvKey(s, f)]
           /\ \A i : Given(s, f, <<"opt", i>>, input) = HowGiven(input.params[i], f)
<1>1. Given(s, f, Zero, input) = "blank"
  BY LayersDiffer DEF Given, Zero
<1>2. Given(s, f, <<"file">>, input) = input.file[<<s, f>>]
  BY LayersDiffer DEF Given
<1>3. Given(s, f, <<"env">>, input) = input.env[EnvKey(s, f)]
  BY LayersDiffer DEF Given
<1>4. ASSUME NEW i PROVE Given(s, f, <<"opt", i>>, input) = HowGiven(input.params[i], f)
  BY LayersDiffer DEF Given
<1> QED BY <1>1, <1>2, <1>3, <1>4

\* What decoding makes of a field is what the documented order gives it.
LEMMA DecodedInForce ==
    ASSUME TypeOK, PlainOptions, NEW s \in Section, NEW f \in Options[s],
           ~DecodeRefused(s, input, Overriding)
    PROVE  Decoded(s)[f] = InForce(s, f)
<1> DEFINE how == input.env[EnvKey(s, f)]
<1>1. Filed(s, f) = IF <<"file">> \in Speaking(s, f) /\ Given(s, f, <<"file">>, input) # "blank"
                    THEN <<"file">> ELSE Zero
  BY LayersDiffer, GivenIs DEF Filed, Over, Speaking
<1>2. CASE Overrides(s, f) = {}
  <2>1. Decoded(s)[f] = Set(s, f)
    BY <1>2, DecodedField
  <2>2. CASE <<"env">> \in Speaking(s, f)
    <3>1. EnvKey(s, f) \in Environ(input.env) /\ (<<s, f>> \in Text \/ how # "blank")
      BY <2>2, LayersDiffer DEF Speaking
    <3>2. Set(s, f) = IF how = "blank" THEN Zero ELSE <<"env">>
      BY <3>1 DEF Set, Over
    <3>3. TopLayer(s, f) = <<"env">>
      BY <1>2, <2>2, TopLayerIs
    <3>4. InForce(s, f) = IF how = "blank" THEN Zero ELSE <<"env">>
      BY <3>3, GivenIs DEF InForce
    <3> QED BY <2>1, <3>2, <3>4
  <2>3. CASE <<"env">> \notin Speaking(s, f)
    <3>1. EnvKey(s, f) \in Environ(input.env) => <<s, f>> \notin Text /\ how = "blank"
      BY <2>3 DEF Speaking
    <3>2. Set(s, f) = Filed(s, f)
      BY <3>1 DEF Set, Over
    <3>3. TopLayer(s, f) = IF <<"file">> \in Speaking(s, f) THEN <<"file">> ELSE Zero
      BY <1>2, <2>3, TopLayerIs
    <3>4. CASE <<"file">> \in Speaking(s, f)
      <4>1. InForce(s, f) =
              IF Given(s, f, <<"file">>, input) = "blank" THEN Zero ELSE <<"file">>
        BY <3>3, <3>4 DEF InForce
      <4> QED BY <1>1, <2>1, <3>2, <3>4, <4>1
    <3>5. CASE <<"file">> \notin Speaking(s, f)
      BY <1>1, <2>1, <3>2, <3>3, <3>5 DEF InForce
    <3> QED BY <3>4, <3>5
  <2> QED BY <2>2, <2>3
<1>3. CASE Overrides(s, f) # {}
  <2>1. PICK i \in Overrides(s, f) :
          /\ \A j \in Overrides(s, f) : j <= i
          /\ Decoded(s)[f] =
               Over(Set(s, f), <<s, f>>, HowGiven(input.params[i], f), <<"opt", i>>)
    BY <1>3, DecodedField
  <2>2. InForce(s, f) =
          IF HowGiven(input.params[i], f) = "blank" THEN Zero ELSE <<"opt", i>>
    BY <2>1, TopLayerIs, GivenIs DEF InForce
  <2>3. HowGiven(input.params[i], f) = "blank" => <<s, f>> \in Text
    <3>1. i \in Overriding
      BY <2>1, SameApplied DEF AppliedSorted, Overriding
    <3>2. ~OverrideRefused(input.params[i], s)
      BY <2>1, <3>1 DEF DecodeRefused, Overrides, Reaches
    <3> QED BY <3>2 DEF OverrideRefused, HowGiven
  <2> QED BY <2>1, <2>2, <2>3 DEF Over
<1> QED BY <1>2, <1>3

(* The settings a target or a backend works with are those of the documented *)
(* order, whichever entry of the plan claimed its section and however many    *)
(* entries did (docs/configuration.md:7-8; section.go, Section).             *)
THEOREM DocumentedOrder == Spec => []SettingsInForce
<1>1. RunInv => SettingsInForce
  <2> SUFFICES ASSUME RunInv, PlainOptions, pc \in {"unclaimed", "lower", "emit", "add", "respond"},
                      NEW s \in Planned, NEW f \in Options[s]
               PROVE  setting[s][f] = InForce(s, f)
    BY DEF SettingsInForce
  <2>1. Configured(Planned) /\ Resolved
    BY DEF RunInv, SectionsInv, NamesInv, Rendering
  <2>2. s \in Section
    BY <2>1, PlannedClaims
  <2> QED BY <2>1, <2>2, DecodedInForce DEF Configured, ConfigureRefused, RunInv
<1> QED BY <1>1, RunInductive, PTL

\* Whether options are refused does not depend on which of the two orders.
LEMMA SameRefused ==
    ASSUME TypeOK, PlainOptions, NEW s \in Section
    PROVE  DecodeRefused(s, input, Typed(input.params))
             <=> DecodeRefused(s, input, Overriding)
<1> DEFINE ps == input.params
<1>1. Overriding \subseteq Typed(ps)
  BY DEF Overriding, Kept, Typed
<1>2. ASSUME NEW i \in Typed(ps), ps[i].section = s, OverrideRefused(ps[i], s)
      PROVE  \E j \in Overriding : ps[j].section = s /\ OverrideRefused(ps[j], s)
  <2>1. PICK j \in Overriding : i <= j /\ ps[j].section = s /\ ps[j].path = ps[i].path
    BY <1>2, LastIsKept DEF Overriding
  <2>2. CASE i = j
    BY <1>2, <2>1, <2>2
  <2>3. CASE i < j
    <3>1. \A f \in Options[s] : ~Reaches(ps[i], s, f)
      <4>1. SUFFICES ASSUME NEW f \in Options[s], Reaches(ps[i], s, f) PROVE FALSE
        OBVIOUS
      <4>2. i \in Overrides(s, f) /\ j \in Overrides(s, f)
        BY <1>1, <1>2, <2>1, <4>1 DEF Overrides, Reaches
      <4> QED BY <1>2, <2>3, <4>2 DEF PlainOptions
    <3>2. \A f \in Options[s] : ~Reaches(ps[j], s, f)
      BY <1>2, <2>1, <3>1 DEF Reaches
    <3> QED BY <2>1, <3>2 DEF OverrideRefused
  <2>4. i \in Nat /\ j \in Nat
    BY <1>1, <1>2, <2>1, ParamsTyped DEF Typed
  <2> QED BY <2>1, <2>2, <2>3, <2>4
<1> QED BY <1>1, <1>2 DEF DecodeRefused

(* `calque config' answers for the build: where it finds nothing to refuse   *)
(* the build finds nothing while it resolves, the other way round too, and    *)
(* both have the same settings (cmd/config.go:86-90, resolve.go:19-21).      *)
THEOREM CommandAnswers == Spec => []ConfigAnswersForBuild
<1>1. RunInv => ConfigAnswersForBuild
  <2> SUFFICES ASSUME RunInv, PlainOptions
               PROVE  /\ response.error \in {"names", "configure", "unclaimed"} => CommandRefuses
                      /\ pc \in {"lower", "emit", "add", "respond"} =>
                           ~CommandRefuses /\ \A s \in Planned : setting[s] = Shown(s)
    BY DEF ConfigAnswersForBuild
  <2>1. ASSUME Resolved
        PROVE  \A s \in Planned :
                 /\ s \in Section
                 /\ Decoded(s) = Shown(s)
                 /\ ConfigureRefused(s) <=>
                      \/ DecodeRefused(s, input, Typed(input.params))
                      \/ Unlisted(s, Shown(s), input)
    <3>1. Planned \subseteq Section
      BY <2>1, PlannedClaims
    <3> QED BY <3>1, DecodedIsShown, SameRefused DEF ConfigureRefused, RunInv
  <2>2. CASE response.error \in {"names", "configure", "unclaimed"}
    <3>1. pc = "ended"
      BY <2>2, PendingIs DEF RunInv, ResponseInv
    <3> QED BY <2>1, <2>2, <3>1 DEF RunInv, ResponseInv, CommandRefuses
  <2>3. CASE pc \in {"lower", "emit", "add", "respond"}
    <3>1. Understood /\ Configured(Planned)
      BY <2>3 DEF RunInv, UnclaimedInv, SectionsInv, Rendering
    <3>2. ~CommandRefuses
      BY <2>1, <3>1 DEF Understood, CommandRefuses
    <3>3. response.error = ""
      BY <2>3, PendingIs DEF RunInv, ResponseInv
    <3> QED BY <2>1, <3>1, <3>2, <3>3 DEF Configured, Understood
  <2> QED BY <2>2, <2>3
<1> QED BY <1>1, RunInductive, PTL

-----------------------------------------------------------------------------
(* Paths. *)

\* Clean goes through a path segment by segment.
LEMMA CleanRec ==
    ASSUME NEW p \in Seq(STRING)
    PROVE  \E c :
             /\ c = [i \in 0..Len(p) |-> IF i = 0 THEN <<>> ELSE CleanStep(c[i - 1], p[i])]
             /\ Clean(p) = c[Len(p)]
<1> DEFINE Is(n, c) == c = [i \in 0..n |-> IF i = 0 THEN <<>> ELSE CleanStep(c[i - 1], p[i])]
           S == {n \in Nat : \E c : Is(n, c)}
<1>1. 0 \in S
  <2>1. Is(0, [i \in 0..0 |-> <<>>])
    OBVIOUS
  <2> QED BY <2>1
<1>2. ASSUME NEW n \in Nat, n \in S PROVE n + 1 \in S
  <2>1. PICK c : Is(n, c)
    BY <1>2
  <2> DEFINE d == [i \in 0..(n + 1) |-> IF i = n + 1 THEN CleanStep(c[n], p[n + 1]) ELSE c[i]]
  <2>2. \A i \in 0..n : d[i] = c[i]
    OBVIOUS
  <2>3. \A i \in 0..(n + 1) : d[i] = IF i = 0 THEN <<>> ELSE CleanStep(d[i - 1], p[i])
    BY <2>1, <2>2
  <2>4. d = [i \in 0..(n + 1) |-> d[i]]
    OBVIOUS
  <2> HIDE DEF d
  <2>5. Is(n + 1, d)
    BY <2>3, <2>4
  <2> QED BY <2>5
<1> HIDE DEF S
<1>3. Nat \subseteq S
  BY <1>1, <1>2, Induction
<1>4. Len(p) \in Nat
  OBVIOUS
<1>5. \E c : Is(Len(p), c)
  BY <1>3, <1>4 DEF S
<1> DEFINE c == CHOOSE c : Is(Len(p), c)
<1>6. Is(Len(p), c)
  BY <1>5
<1>7. Clean(p) = c[Len(p)]
  BY DEF Clean
<1> QED BY <1>6, <1>7

\* Segments that are no names: one that is dropped, and one that climbs.
Dropped(x) == x \in {"", "."}

Climbing(x) == x = ".."

Climbs(p) == \E k \in DOMAIN p : Climbing(p[k])

Tidy(p) == ~Climbs(p) /\ \A k \in DOMAIN p : ~Dropped(p[k])

LEMMA CleanStepIs ==
    ASSUME NEW done, NEW x, ~Climbing(x)
    PROVE  CleanStep(done, x) = IF Dropped(x) THEN done ELSE Append(done, x)
<1>1. CASE Dropped(x)
  BY <1>1 DEF CleanStep, Dropped
<1>2. CASE ~Dropped(x)
  BY <1>2 DEF CleanStep, Dropped, Climbing
<1> QED BY <1>1, <1>2

\* Of a path of names nothing is dropped.
LEMMA TidyIsClean ==
    ASSUME NEW p \in Seq(STRING), Tidy(p)
    PROVE  Clean(p) = p
<1>1. PICK c : /\ c = [i \in 0..Len(p) |-> IF i = 0 THEN <<>> ELSE CleanStep(c[i - 1], p[i])]
               /\ Clean(p) = c[Len(p)]
  BY CleanRec
<1> DEFINE Same(i) == /\ c[i] \in Seq(STRING) /\ Len(c[i]) = i
                      /\ \A k \in 1..i : c[i][k] = p[k]
           S == {i \in Nat : i <= Len(p) => Same(i)}
<1>2. 0 \in S
  BY <1>1
<1>3. ASSUME NEW i \in Nat, i \in S PROVE i + 1 \in S
  <2> SUFFICES ASSUME i + 1 <= Len(p) PROVE Same(i + 1)
    OBVIOUS
  <2>1. Same(i) /\ i + 1 \in DOMAIN p /\ p[i + 1] \in STRING
    BY <1>3
  <2>2. c[i + 1] = CleanStep(c[i], p[i + 1])
    BY <1>1, <2>1
  <2>3. c[i + 1] = Append(c[i], p[i + 1])
    BY <2>1, <2>2, CleanStepIs DEF Tidy, Climbs
  <2> QED BY <2>1, <2>3
<1> HIDE DEF S
<1>4. Nat \subseteq S
  BY <1>2, <1>3, Induction
<1>5. Len(p) \in Nat /\ Same(Len(p))
  BY <1>4 DEF S
<1>6. DOMAIN c[Len(p)] = DOMAIN p /\ \A k \in DOMAIN p : c[Len(p)][k] = p[k]
  BY <1>5
<1> QED BY <1>1, <1>5, <1>6

\* Of a path that does not climb, the segments that are no names are dropped.
LEMMA UntidyGetsShorter ==
    ASSUME NEW p \in Seq(STRING), ~Climbs(p), ~Tidy(p)
    PROVE  Len(Clean(p)) < Len(p)
<1> PICK k \in DOMAIN p : Dropped(p[k])
  BY DEF Tidy
<1>0. Len(p) \in Nat /\ k \in 1..Len(p)
  OBVIOUS
<1>1. PICK c : /\ c = [i \in 0..Len(p) |-> IF i = 0 THEN <<>> ELSE CleanStep(c[i - 1], p[i])]
               /\ Clean(p) = c[Len(p)]
  BY CleanRec
<1> DEFINE Short(i) == /\ c[i] \in Seq(STRING) /\ Len(c[i]) <= i
                       /\ i >= k => Len(c[i]) < i
           S == {i \in Nat : i <= Len(p) => Short(i)}
<1>2. 0 \in S
  BY <1>0, <1>1
<1>3. ASSUME NEW i \in Nat, i \in S PROVE i + 1 \in S
  <2> SUFFICES ASSUME i + 1 <= Len(p) PROVE Short(i + 1)
    BY <1>0
  <2>1. Short(i) /\ i + 1 \in DOMAIN p /\ p[i + 1] \in STRING
    BY <1>0, <1>3
  <2>2. c[i + 1] = CleanStep(c[i], p[i + 1])
    BY <1>1, <2>1
  <2>3. ~Climbing(p[i + 1])
    BY <2>1 DEF Climbs
  <2>4. CASE Dropped(p[i + 1])
    <3>1. c[i + 1] = c[i]
      BY <2>2, <2>3, <2>4, CleanStepIs
    <3> QED BY <1>0, <2>1, <3>1
  <2>5. CASE ~Dropped(p[i + 1])
    <3>1. c[i + 1] = Append(c[i], p[i + 1])
      BY <2>2, <2>3, <2>5, CleanStepIs
    <3>2. i + 1 # k
      BY <2>5
    <3> QED BY <1>0, <2>1, <3>1, <3>2
  <2> QED BY <2>4, <2>5
<1> HIDE DEF S
<1>4. Nat \subseteq S
  BY <1>2, <1>3, Induction
<1>5. Short(Len(p))
  BY <1>0, <1>4 DEF S
<1> QED BY <1>0, <1>1, <1>5

\* A path that is clean and does not climb is a path of names.
LEMMA CleanIsTidy ==
    ASSUME NEW p \in Seq(STRING), Clean(p) = p, ~Climbs(p)
    PROVE  Tidy(p)
<1>1. Len(Clean(p)) = Len(p)
  OBVIOUS
<1>2. Len(Clean(p)) < Len(p) => Len(Clean(p)) # Len(p)
  <2>1. Len(p) \in Nat
    OBVIOUS
  <2> QED BY <2>1
<1> QED BY <1>1, <1>2, UntidyGetsShorter

-----------------------------------------------------------------------------
(* What the response holds.                                                 *)

\* The paths a target gives its files, package by package, are names: every
\* package has a name of its own (target/ts/target.go:199).
TidyFiles == \A t \in Target : \A f \in Files[t] : f \in Seq(STRING) /\ Tidy(f)

\* Where `out' is written the short way, so is the whole name.
LEMMA NamesAreClean ==
    ASSUME RunInv, Succeeded, TidyFiles, NEW i \in DOMAIN entries, NEW f \in FilesOf(i),
           Clean(entries[i].out) = entries[i].out
    PROVE  Clean(f.name) = f.name
<1> DEFINE o == entries[i].out
<1>1. ~DocRefused(input.doc) /\ Resolves(entries[i]) /\ entries[i] \in Entry
  BY PlanTyped DEF RunInv, Place, NamesInv, Rendering, Resolved
<1>2. o \in Seq(STRING) /\ entries[i].target \in Target
  BY <1>1 DEF Entry, Resolves
<1>3. ~Escapes(o)
  BY <1>1 DEF DocRefused, entries, ToSet
<1>4. ~Climbs(o)
  <2>1. CASE o = <<>>
    BY <2>1 DEF Climbs
  <2>2. CASE o # <<>>
    BY <1>3, <2>2 DEF Escapes, Climbs, Climbing, ToSet
  <2> QED BY <2>1, <2>2
<1>5. Tidy(o)
  BY <1>2, <1>4, CleanIsTidy
<1>6. PICK p \in Files[entries[i].target] : f.name = o \o p
  BY DEF FilesOf
<1>7. p \in Seq(STRING) /\ Tidy(p)
  BY <1>2 DEF TidyFiles
<1>8. o \o p \in Seq(STRING) /\ Tidy(o \o p)
  <2>1. ASSUME NEW a \in Seq(STRING), NEW b \in Seq(STRING), Tidy(a), Tidy(b)
        PROVE  a \o b \in Seq(STRING) /\ Tidy(a \o b)
    <3>1. a \o b \in Seq(STRING)
      OBVIOUS
    <3>2. \A k \in DOMAIN (a \o b) : (\E j \in DOMAIN a : (a \o b)[k] = a[j])
                                       \/ \E j \in DOMAIN b : (a \o b)[k] = b[j]
      <4> SUFFICES ASSUME NEW k \in DOMAIN (a \o b), k > Len(a)
                   PROVE  \E j \in DOMAIN b : (a \o b)[k] = b[j]
        OBVIOUS
      <4>1. k - Len(a) \in DOMAIN b /\ (a \o b)[k] = b[k - Len(a)]
        OBVIOUS
      <4> QED BY <4>1
    <3> QED BY <2>1, <3>1, <3>2 DEF Tidy, Climbs
  <2> QED BY <1>2, <1>5, <1>7, <2>1
<1> QED BY <1>6, <1>8, TidyIsClean

(* All or nothing: a response that has files has every file of every entry    *)
(* of the plan, each with the contents of the entry that gave it its name,     *)
(* and no two of them for one place as long as every `out' is written the      *)
(* short way (output.go, Add; run.go, Run; serve.go, generate).               *)
THEOREM AllOrNothing == ASSUME TidyFiles PROVE Spec => []EveryFileOfEveryEntry
<1>1. RunInv => EveryFileOfEveryEntry
  <2> SUFFICES ASSUME RunInv, response.files # {} PROVE EveryFileOfEveryEntry
    BY DEF EveryFileOfEveryEntry
  <2> DEFINE emitted == {f \in response.files : f.by # 0}
  <2>1. Succeeded /\ out = FilesTo(Len(entries))
    BY FilesOnSuccess DEF RunInv, FilesInv
  <2>0. 0 \notin DOMAIN entries
    BY PlanTyped DEF RunInv
  <2>2. emitted = out
    <3>1. \A f \in out : f.by # 0
      BY <2>0 DEF RunInv, TypeOK
    <3>2. response.files = out \cup IF Asked THEN {[name |-> Manifest, by |-> 0]} ELSE {}
      BY <2>1 DEF RunInv, ResponseInv
    <3>3. \A f \in {[name |-> Manifest, by |-> 0]} : f.by = 0
      OBVIOUS
    <3> QED BY <3>1, <3>2, <3>3
  <2>3. emitted = UNION {{[name |-> entries[i].out \o f, by |-> i] : f \in Files[entries[i].target]} :
                           i \in DOMAIN entries}
    <3>1. FilesTo(Len(entries)) = UNION {FilesOf(i) : i \in DOMAIN entries}
      BY PlanTyped DEF RunInv, FilesTo
    <3> QED BY <2>1, <2>2, <3>1 DEF FilesOf
  <2>4. ASSUME NEW f \in emitted, NEW g \in emitted, Clean(f.name) = Clean(g.name),
               \A i \in {f.by, g.by} : Clean(entries[i].out) = entries[i].out
        PROVE  f = g
    <3>1. ASSUME NEW h \in out PROVE h.by \in DOMAIN entries /\ h \in FilesOf(h.by)
      <4>1. PICK i \in 1..Len(entries) : h \in FilesOf(i)
        BY <2>1 DEF FilesTo
      <4>2. h.by = i
        BY <4>1 DEF FilesOf
      <4> QED BY <4>1, <4>2, PlanTyped DEF RunInv
    <3>2. Clean(f.name) = f.name /\ Clean(g.name) = g.name
      BY <2>1, <2>2, <2>4, <3>1, NamesAreClean
    <3>3. f.name = g.name
      BY <2>4, <3>2
    <3> QED BY <2>2, <3>3 DEF RunInv, FilesInv
  <2> QED BY <2>1, <2>3, <2>4 DEF EveryFileOfEveryEntry, Succeeded
<1> QED BY <1>1, RunInductive, PTL

-----------------------------------------------------------------------------
(* What a store cannot hold.                                                *)

\* Nothing a store cannot hold is hidden from the check: a byte string that is a key
\* or a member of an index is a unique prop and no edge, and an index the store
\* cannot make unique lacks nothing else.
NothingHidden(e, caps) ==
    /\ \A p \in e.props :
         /\ p.type = "bytes" /\ ~caps.binaryKey
         /\ p.unique \/ \E idx \in e.indexes : p.name \in idx.members
         => p.unique /\ ~p.edge
    /\ \A idx \in e.indexes :
         idx.unique /\ IsComposite(idx) /\ ~caps.uniqueCompound => IndexLacks(e, idx, caps) = {}

LEMMA AllIsFound ==
    ASSUME NEW e, NEW caps, NothingHidden(e, caps)
    PROVE  CannotHold(e, caps) \subseteq CheckCapabilities(e, caps)
<1> SUFFICES ASSUME NEW x \in CannotHold(e, caps) PROVE x \in CheckCapabilities(e, caps)
  OBVIOUS
<1>1. ASSUME NEW idx \in e.indexes, idx.unique, IsComposite(idx), ~caps.uniqueCompound,
             x = Found("unique_compound_index", idx.name)
      PROVE  x \in CheckIndex(e, idx, caps)
  BY <1>1 DEF CheckIndex
<1>2. ASSUME NEW idx \in e.indexes, NEW k \in IndexLacks(e, idx, caps), x = Found(k, idx.name)
      PROVE  x \in CheckIndex(e, idx, caps)
  BY <1>2 DEF CheckIndex, NothingHidden
<1>3. ASSUME NEW p \in e.props, p.type = "bytes", ~caps.binaryKey,
             p.unique \/ \E i \in e.indexes : p.name \in i.members,
             x = Found("binary_key", p.name)
      PROVE  x \in CheckProp(p, caps)
  BY <1>3 DEF CheckProp, NothingHidden
<1> QED BY <1>1, <1>2, <1>3 DEF CannotHold, CheckCapabilities

\* The settings a store was configured with are the ones in force.
LEMMA SettingIsInForce ==
    ASSUME TypeOK, Resolved, Configured(Planned), PlainOptions, NEW b \in Planned
    PROVE  setting[b] = [f \in Options[b] |-> InForce(b, f)]
<1>1. b \in Section
  BY PlannedClaims
<1>2. \A f \in Options[b] : Decoded(b)[f] = InForce(b, f)
  BY <1>1, DecodedInForce DEF Configured, ConfigureRefused
<1>3. Decoded(b) = [f \in Options[b] |-> Decoded(b)[f]]
  BY DEF Decoded, Layers
<1> QED BY <1>2, <1>3 DEF Configured

\* Of every entry of a run that succeeded, all that the check finds is accepted and said.
LEMMA FoundIsSaid ==
    ASSUME RunInv, response.files # {}, NEW i \in DOMAIN entries, entries[i].backend # None,
           NEW b, b = entries[i].backend,
           NEW x \in CheckCapabilities(entity, Caps(b, setting[b]))
    PROVE  Accepts(b, setting[b], x.kind) /\ <<"accepted", i, x>> \in log
<1>1. Lowered(i)
  BY FilesOnSuccess DEF RunInv, StoresInv
<1>2. x \in Shortfalls(b)
  BY DEF Shortfalls
<1> QED BY <1>1, <1>2 DEF Lowered, RefusedBy

\* Of what this run asks of its stores, each with the settings in force.
AsksPlainly ==
    \A i \in DOMAIN entries :
      LET b == entries[i].backend
      IN b # None => NothingHidden(entity, Caps(b, [f \in Options[b] |-> InForce(b, f)]))

(* What a store cannot hold either stopped the run or was accepted by the    *)
(* settings in force and said, for every entry that has a store.  It is not  *)
(* so of a byte string that is only a member of an index, or the key an edge  *)
(* points at, nor of what else is wrong with an index that cannot be unique   *)
(* (capability.go, CheckCapabilities and checkProp; run.go, Run).            *)
THEOREM StoreHolds == Spec => [](AsksPlainly => HeldOrSaid)
<1>1. RunInv => (AsksPlainly => HeldOrSaid)
  <2> SUFFICES ASSUME RunInv, AsksPlainly, response.files # {}, PlainOptions,
                      NEW i \in DOMAIN entries, entries[i].backend # None,
                      NEW b, b = entries[i].backend,
                      NEW told, told = [f \in Options[b] |-> InForce(b, f)],
                      NEW x \in CannotHold(entity, Caps(b, told))
               PROVE  Accepts(b, told, x.kind) /\ <<"accepted", i, x>> \in log
    BY DEF HeldOrSaid
  <2>1. x \in CheckCapabilities(entity, Caps(b, told))
    BY AllIsFound DEF AsksPlainly
  <2>2. TypeOK /\ Resolved /\ Configured(Planned)
    BY FilesOnSuccess DEF RunInv, NamesInv, SectionsInv
  <2>3. b \in Planned
    BY DEF Planned
  <2>4. setting[b] = told
    BY <2>2, <2>3, SettingIsInForce
  <2> QED BY <2>1, <2>4, FoundIsSaid
<1> QED BY <1>1, RunInductive, PTL

=============================================================================
