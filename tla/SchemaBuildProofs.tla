--------------------------- MODULE SchemaBuildProofs ---------------------------
(***************************************************************************)
(* Proofs about the schema that is built of a request, for every request   *)
(* protoc lets through: any number of messages, members, indexes and        *)
(* relations, declared in any order.                                       *)
(***************************************************************************)
EXTENDS WellFoundedInduction, SchemaBuild, TLAPS

-----------------------------------------------------------------------------
(* How far the passes have come, and what each leaves behind as long as     *)
(* nothing was reported.                                                    *)

Parsed(i) == pc # "parse" \/ i < at

Attached(i) ==
    pc \in {"indexes", "edges", "back", "resolved", "done"} \/ (pc = "attach" /\ i < at)

Indexed(i) == pc \in {"edges", "back", "resolved", "done"} \/ (pc = "indexes" /\ i < at)

Aimed(i) == pc \in {"back", "resolved", "done"} \/ (pc = "edges" /\ i < at)

Linked(x) ==
    \/ pc \in {"resolved", "done"}
    \/ pc = "back" /\ (x[1] < at \/ (x[1] = at /\ x[2] < on))

FromRequests == \E F \in Requests : request \in F

\* No annotation is a mistake.
Sound(i) == Unknown(i) = {} /\ (i \in Entities => Mistakes(i) = {})

Building == pc \in {"attach", "indexes", "edges", "back", "resolved", "done"}

SaidInv ==
    /\ pc \in {"parse", "parsed"} =>
         /\ \A d \in diags : d[2] \notin Structural
         /\ \A i \in Messages : Parsed(i) =>
              /\ Unknown(i) \subseteq diags
              /\ i \in Entities => Mistakes(i) \subseteq diags
    /\ Building \/ (\E d \in diags : d[2] \in Structural) => \A i \in Messages : Sound(i)

KeyInv == \A i \in Entities : Parsed(i) => key[i] = KeyOf(i)

AttachInv ==
    \A i \in Entities : Attached(i) =>
      /\ version[i] = First(VersionFields(i)) /\ erased[i] = First(ErasedFields(i))
      /\ VersionFields(i) \cup ErasedFields(i) \subseteq {version[i], erased[i]}

IndexInv ==
    \A i \in Entities : Indexed(i) =>
      \A n \in Indexes(i) :
        LET refs == request[i].indexes[n].refs
        IN /\ refs # <<>> /\ \A k \in DOMAIN refs : Resolves(i, refs[k]) # {}
           /\ indexProps[i][n] = [k \in DOMAIN refs |-> <<i, First(Resolves(i, refs[k]))>>]

TargetInv == \A x \in target : IsEdge(x) /\ The(x).target \in Entities

AimInv == \A i \in Entities : Aimed(i) => \A j \in Edges(i) : <<i, j>> \in target

\* What parsing makes unique, and of the relations read so far the ones that make
\* both of their ends unique.
DeclaredOf(i) ==
    {<<i, j>> : j \in {j \in Props(i) : The(<<i, j>>).unique = "yes" \/ j = KeyOf(i)}}

Declared == UNION {DeclaredOf(i) : i \in Entities}

Ties == {r \in Relations : Linked(r[1]) /\ OneToOne(r[1], r[2])}

UniqueInv == unique = {x \in Declared : Parsed(x[1])} \cup UNION {{r[1], r[2]} : r \in Ties}

LinkInv ==
    \A x \in AllProps : HasFrom(x) /\ Linked(x) =>
      /\ inverse[x] \in Other(x)
      /\ \A y \in Other(x) : /\ ~(y \in Declared /\ The(x).repeated)
                             /\ Untangled => reverse[y] = x

BuildInv ==
    /\ FromRequests /\ TypeOK /\ SaidInv /\ TargetInv
    /\ (pc = "parsed" => at = 1) /\ (pc = "done" => diags = {})
    /\ diags = {} => KeyInv /\ AttachInv /\ IndexInv /\ AimInv /\ UniqueInv /\ LinkInv

-----------------------------------------------------------------------------
(* Of a request. *)

\* A set of natural numbers has a first one, and one that is closed under the next
\* number has them all.
LEMMA Least ==
    ASSUME NEW T \in SUBSET Nat, T # {}
    PROVE  \E x \in T : \A y \in T : x <= y
<1>1. IsWellFoundedOn(OpToRel(<, Nat), Nat)
  BY NatLessThanWellFounded
<1>2. PICK x \in T : \A y \in T : ~(<<y, x>> \in OpToRel(<, Nat))
  BY <1>1, WFMin
<1>3. \A y \in T : ~(y < x)
  BY <1>2 DEF OpToRel
<1> QED BY <1>3

LEMMA Induction ==
    ASSUME NEW S, 0 \in S, \A i \in Nat : i \in S => i + 1 \in S
    PROVE  Nat \subseteq S
<1> SUFFICES ASSUME Nat \ S # {} PROVE FALSE
  OBVIOUS
<1>1. PICK n \in Nat \ S : \A m \in Nat \ S : n <= m
  BY Least
<1>2. n # 0 /\ n - 1 \in Nat /\ n - 1 \in S
  BY <1>1
<1> QED BY <1>1, <1>2

LEMMA FirstIs ==
    ASSUME NEW T \in SUBSET Nat
    PROVE  /\ T = {} => First(T) = 0
           /\ T # {} => First(T) \in T
BY Least DEF First

LEMMA RequestTyped ==
    ASSUME FromRequests
    PROVE  /\ request \in Seq(Message) /\ Len(request) \in Nat \ {0}
           /\ Messages = 1..Len(request)
           /\ \A i \in Messages :
                /\ request[i].members \in Seq(Member) /\ request[i].indexes \in Seq(Index)
                /\ Len(request[i].members) \in Nat
                /\ MembersOf(i) = 1..Len(request[i].members)
                /\ Props(i) \in SUBSET Nat /\ Edges(i) \subseteq Props(i)
                /\ Props(i) \subseteq MembersOf(i)
                /\ 0 \notin Props(i)
<1>1. request \in Seq(Message) /\ request # <<>>
  BY RequestsAssumption DEF FromRequests
<1>2. Len(request) \in Nat \ {0} /\ Messages = 1..Len(request)
  BY <1>1 DEF Messages
<1>3. ASSUME NEW i \in Messages
      PROVE  /\ request[i].members \in Seq(Member) /\ request[i].indexes \in Seq(Index)
             /\ Len(request[i].members) \in Nat
             /\ MembersOf(i) = 1..Len(request[i].members)
             /\ Props(i) \in SUBSET Nat /\ Edges(i) \subseteq Props(i)
             /\ Props(i) \subseteq MembersOf(i)
             /\ 0 \notin Props(i)
  <2>1. request[i] \in Message
    BY <1>1 DEF Messages
  <2>2. request[i].members \in Seq(Member) /\ request[i].indexes \in Seq(Index)
    BY <2>1 DEF Message
  <2>3. Len(request[i].members) \in Nat /\ MembersOf(i) = 1..Len(request[i].members)
    BY <2>2 DEF MembersOf
  <2> QED BY <2>2, <2>3 DEF Props, Edges
<1> QED BY <1>1, <1>2, <1>3

LEMMA Distinct ==
    ASSUME FromRequests, NEW i \in Messages
    PROVE  \A j, k \in MembersOf(i) :
             /\ Sayable(The(<<i, j>>))
             /\ j # k => /\ The(<<i, j>>).name # The(<<i, k>>).name
                         /\ The(<<i, j>>).number # The(<<i, k>>).number
BY RequestsAssumption DEF FromRequests, Messages, MembersOf, The

\* A ref resolves to one prop, which has its name and its number.
LEMMA ResolvesToOne ==
    ASSUME FromRequests, NEW i \in Messages, NEW ref
    PROVE  /\ Resolves(i, ref) \in SUBSET Nat /\ Resolves(i, ref) \subseteq Props(i)
           /\ \A j, k \in Resolves(i, ref) : j = k
           /\ \A j \in Resolves(i, ref) :
                The(<<i, j>>).name = ref.name /\ The(<<i, j>>).number = ref.number
BY Distinct, RequestTyped DEF Resolves, Named, Props

LEMMA OtherIs ==
    ASSUME FromRequests, NEW x, The(x).target \in Entities
    PROVE  /\ Other(x) \subseteq AllProps
           /\ \A y, z \in Other(x) : y = z
           /\ \A y \in Other(x) : IsEdge(y)
<1> DEFINE t == The(x).target
<1>1. t \in Messages
  BY DEF Entities
<1>2. \A j \in Edges(t) : j \in Props(t) /\ IsEdge(<<t, j>>)
  BY DEF Edges
<1>3. \A j, k \in Resolves(t, The(x).from) : j = k
  BY <1>1, ResolvesToOne
<1> QED BY <1>1, <1>2, <1>3 DEF Other, AllProps

\* The key is a prop, if the message has one, and no edge.
LEMMA KeyIs ==
    ASSUME FromRequests, NEW i \in Messages
    PROVE  /\ KeyOf(i) \in Props(i) \cup {0}
           /\ KeyOf(i) # 0 => KeyOf(i) \notin Edges(i)
<1> DEFINE T == {j \in Marked(i) : ~Contradicts(The(<<i, j>>))}
<1>1. T \in SUBSET Nat /\ T \subseteq Props(i)
  BY RequestTyped DEF Marked
<1>2. \A j \in T : j \notin Edges(i)
  BY <1>1, Distinct, RequestTyped DEF Marked, Edges, IsEdge, Sayable
<1>3. KeyOf(i) = First(T)
  BY DEF KeyOf
<1> QED BY <1>1, <1>2, <1>3, FirstIs

LEMMA StampsAre ==
    ASSUME FromRequests, NEW i \in Messages
    PROVE  /\ VersionFields(i) \in SUBSET Nat /\ VersionFields(i) \subseteq Props(i)
           /\ ErasedFields(i) \in SUBSET Nat /\ ErasedFields(i) \subseteq Props(i)
           /\ VersionFields(i) \cap ErasedFields(i) = {}
<1>1. /\ VersionFields(i) \in SUBSET Nat /\ VersionFields(i) \subseteq Props(i)
      /\ ErasedFields(i) \in SUBSET Nat /\ ErasedFields(i) \subseteq Props(i)
  BY RequestTyped DEF VersionFields, ErasedFields
<1>2. ASSUME NEW j \in VersionFields(i) \cap ErasedFields(i) PROVE FALSE
  <2> DEFINE m == The(<<i, j>>)
  <2>1. IsProp(m) /\ m.as # "edge" /\ m.version /\ m.erased /\ m \in Member
    <3>1. j \in MembersOf(i) /\ IsProp(m) /\ j \notin Edges(i) /\ j \in Props(i)
      BY <1>2 DEF VersionFields, ErasedFields, Props, The
    <3>2. m \in Member
      BY <3>1, RequestTyped DEF The
    <3> QED BY <1>2, <3>1, <3>2 DEF VersionFields, ErasedFields, Edges, IsEdge
  <2>2. m.as \in {"field", "bare"}
    <3>1. m.as \in {"bare", "field", "edge", "both", "disabled"}
      BY <2>1 DEF Member
    <3> QED BY <2>1, <3>1 DEF IsProp, MemberRefused
  <2>3. ErasedRefused(m)
    BY <2>1 DEF ErasedRefused
  <2> QED BY <2>1, <2>2, <2>3 DEF IsProp, MemberRefused, FieldRefused
<1> QED BY <1>1, <1>2

\* Where all refs of an index resolve, it has their props, in their order.
LEMMA RefsAre ==
    ASSUME FromRequests, NEW i \in Messages, NEW n \in DOMAIN request[i].indexes,
           NEW refs, refs = request[i].indexes[n].refs,
           \A k \in DOMAIN refs : Resolves(i, refs[k]) # {}
    PROVE  ResolvedRefs(i, n) = [k \in DOMAIN refs |-> <<i, First(Resolves(i, refs[k]))>>]
<1> DEFINE Is(m, c) == c = [k \in 0..m |-> IF k = 0 THEN <<>> ELSE WithRef(c[k - 1], i, refs[k])]
           prop(k) == <<i, First(Resolves(i, refs[k]))>>
<1>0. refs \in Seq(Ref) /\ Len(refs) \in Nat /\ DOMAIN refs = 1..Len(refs)
  <2>1. request[i].indexes[n] \in Index
    BY RequestTyped
  <2> QED BY <2>1 DEF Index
<1>1. ASSUME NEW m \in Nat, \E c : Is(m, c) PROVE \E c : Is(m + 1, c)
  <2>1. PICK c : Is(m, c)
    BY <1>1
  <2> DEFINE d == [k \in 0..(m + 1) |-> IF k = m + 1 THEN WithRef(c[m], i, refs[m + 1]) ELSE c[k]]
  <2>2. \A k \in 0..m : d[k] = c[k]
    OBVIOUS
  <2>3. \A k \in 0..(m + 1) : d[k] = IF k = 0 THEN <<>> ELSE WithRef(d[k - 1], i, refs[k])
    BY <2>1, <2>2
  <2>4. d = [k \in 0..(m + 1) |-> d[k]]
    OBVIOUS
  <2> HIDE DEF d
  <2> QED BY <2>3, <2>4
<1>2. \E c : Is(0, c)
  <2>1. Is(0, [k \in 0..0 |-> <<>>])
    OBVIOUS
  <2> QED BY <2>1
<1> DEFINE S == {m \in Nat : \E c : Is(m, c)}
<1>3. 0 \in S /\ \A m \in Nat : m \in S => m + 1 \in S
  BY <1>1, <1>2
<1> HIDE DEF S
<1>4. Len(refs) \in S
  BY <1>0, <1>3, Induction
<1> DEFINE c == CHOOSE c : Is(Len(refs), c)
<1>5. Is(Len(refs), c)
  BY <1>4 DEF S
<1>6. ResolvedRefs(i, n) = c[Len(refs)]
  BY DEF ResolvedRefs
<1>a. c[0] = <<>> /\ \A k \in 1..Len(refs) : c[k] = WithRef(c[k - 1], i, refs[k])
  <2> HIDE DEF c
  <2>1. \A k \in 0..Len(refs) : c[k] = IF k = 0 THEN <<>> ELSE WithRef(c[k - 1], i, refs[k])
    BY <1>5
  <2> QED BY <1>0, <2>1
<1> DEFINE Good(m) == /\ c[m] \in Seq({prop(k) : k \in DOMAIN refs}) /\ Len(c[m]) = m
                      /\ \A k \in 1..m : c[m][k] = prop(k)
           G == {m \in Nat : m <= Len(refs) => Good(m)}
<1> HIDE DEF c, prop
<1>7. 0 \in G
  <2>1. Good(0)
    BY <1>a
  <2> QED BY <2>1
<1>8. ASSUME NEW m \in Nat, m \in G PROVE m + 1 \in G
  <2> SUFFICES ASSUME m + 1 <= Len(refs) PROVE Good(m + 1)
    OBVIOUS
  <2>1. Good(m) /\ m + 1 \in DOMAIN refs
    BY <1>0, <1>8
  <2>2. c[m + 1] = WithRef(c[m], i, refs[m + 1])
    <3>1. m + 1 \in 1..Len(refs) /\ (m + 1) - 1 = m
      BY <1>0
    <3> QED BY <1>a, <3>1
  <2>3. c[m + 1] = Append(c[m], prop(m + 1))
    BY <2>1, <2>2 DEF WithRef, prop
  <2>4. prop(m + 1) \in {prop(k) : k \in DOMAIN refs}
    BY <2>1
  <2> QED BY <2>1, <2>3, <2>4
<1> HIDE DEF G
<1>9. Len(refs) \in G
  BY <1>0, <1>7, <1>8, Induction
<1>10. Good(Len(refs))
  <2> HIDE DEF Good
  <2> QED BY <1>0, <1>9 DEF G
<1>11. c[Len(refs)] = [k \in DOMAIN refs |-> prop(k)]
  <2> DEFINE s == c[Len(refs)]
  <2>1. /\ s \in Seq({prop(k) : k \in DOMAIN refs}) /\ Len(s) = Len(refs)
        /\ \A k \in 1..Len(refs) : s[k] = prop(k)
    BY <1>10
  <2> HIDE DEF s
  <2>2. s = [k \in 1..Len(s) |-> s[k]]
    BY <2>1
  <2>3. s = [k \in DOMAIN refs |-> prop(k)]
    BY <1>0, <2>1, <2>2
  <2> QED BY <2>3 DEF s
<1> QED BY <1>6, <1>11 DEF prop

-----------------------------------------------------------------------------
(* What is only of the request stays as it is, and so does what is of the    *)
(* edges once their targets are resolved.                                   *)

LEMMA SameRequest ==
    ASSUME UNCHANGED request
    PROVE  /\ Messages' = Messages /\ Entities' = Entities /\ Ids' = Ids /\ AllProps' = AllProps
           /\ Declared' = Declared /\ (FromRequests' <=> FromRequests)
           /\ \A x : /\ The(x)' = The(x) /\ Other(x)' = Other(x) /\ (IsEdge(x)' <=> IsEdge(x))
           /\ \A x, y : OneToOne(x, y)' <=> OneToOne(x, y)
           /\ \A i : /\ Props(i)' = Props(i) /\ Edges(i)' = Edges(i) /\ KeyOf(i)' = KeyOf(i)
                     /\ Indexes(i)' = Indexes(i)
                     /\ VersionFields(i)' = VersionFields(i)
                     /\ ErasedFields(i)' = ErasedFields(i)
                     /\ Unknown(i)' = Unknown(i) /\ Mistakes(i)' = Mistakes(i)
                     /\ Sound(i)' <=> Sound(i)
           /\ \A i, ref : Resolves(i, ref)' = Resolves(i, ref)
<1>1. Messages' = Messages /\ Entities' = Entities /\ (FromRequests' <=> FromRequests)
  BY DEF Messages, Entities, FromRequests
<1>2. \A x : The(x)' = The(x)
  BY DEF The
<1>3. \A i : MembersOf(i)' = MembersOf(i) /\ Props(i)' = Props(i)
  BY DEF MembersOf, Props
<1>4. Ids' = Ids /\ AllProps' = AllProps
  BY <1>1, <1>3 DEF Ids, AllProps
<1>5. \A x : IsEdge(x)' <=> IsEdge(x)
  BY <1>2 DEF IsEdge
<1>6. \A i : Edges(i)' = Edges(i)
  BY <1>3, <1>5 DEF Edges
<1>7. \A i : KeyOf(i)' = KeyOf(i) /\ Marked(i)' = Marked(i)
  BY <1>2, <1>3 DEF KeyOf, Marked
<1>8. \A i : VersionFields(i)' = VersionFields(i) /\ ErasedFields(i)' = ErasedFields(i)
  BY <1>2, <1>3, <1>6 DEF VersionFields, ErasedFields
<1>9. \A i : Indexes(i)' = Indexes(i)
  BY DEF Indexes
<1>10. \A i, ref : Resolves(i, ref)' = Resolves(i, ref)
  BY <1>2, <1>3 DEF Resolves, Named
<1>11. \A x : Other(x)' = Other(x)
  BY <1>2, <1>6, <1>10 DEF Other
<1>12. \A x, y : OneToOne(x, y)' <=> OneToOne(x, y)
  BY <1>2 DEF OneToOne
<1>13. Declared' = Declared
  <2>1. \A i : DeclaredOf(i)' = DeclaredOf(i)
    BY <1>2, <1>3, <1>7 DEF DeclaredOf
  <2> QED BY <1>1, <2>1 DEF Declared
<1>14. \A i : Unknown(i)' = Unknown(i)
  BY <1>2, <1>3 DEF Unknown
<1>15. \A i : Mistakes(i)' = Mistakes(i)
  BY <1>2, <1>3, <1>7 DEF Mistakes, KeyMistakes
<1>16. \A i : Sound(i)' <=> Sound(i)
  BY <1>1, <1>14, <1>15 DEF Sound
<1> QED BY <1>1, <1>2, <1>3, <1>4, <1>5, <1>6, <1>7, <1>8, <1>9, <1>10, <1>11, <1>12, <1>13,
           <1>14, <1>15, <1>16

LEMMA SameTargets ==
    ASSUME UNCHANGED <<request, target>>
    PROVE  /\ \A x : HasFrom(x)' <=> HasFrom(x)
           /\ Relations' = Relations /\ (Untangled' <=> Untangled)
<1>1. \A x : HasFrom(x)' <=> HasFrom(x)
  BY SameRequest DEF HasFrom
<1>2. Relations' = Relations
  BY <1>1, SameRequest DEF Relations
<1> QED BY <1>1, <1>2 DEF Untangled

-----------------------------------------------------------------------------
(* One message further. *)

LEMMA PassIs ==
    ASSUME FromRequests, TypeOK, NEW next, Pass(next)
    PROVE  /\ UNCHANGED request /\ on' = 1 /\ at' \in Messages /\ at \in Messages
           /\ \/ at < Len(request) /\ at' = at + 1 /\ pc' = pc
              \/ at = Len(request) /\ at' = 1 /\ pc' = next
BY RequestTyped DEF TypeOK, Pass

LEMMA PassProgress ==
    ASSUME FromRequests, TypeOK, NEW next, Pass(next),
           \/ pc = "parse" /\ next = "parsed"
           \/ pc = "attach" /\ next = "indexes"
           \/ pc = "indexes" /\ next = "edges"
           \/ pc = "edges" /\ next = "back"
    PROVE  /\ \A i \in Messages :
                /\ Parsed(i)' <=> Parsed(i) \/ (pc = "parse" /\ i = at)
                /\ Attached(i)' <=> Attached(i) \/ (pc = "attach" /\ i = at)
                /\ Indexed(i)' <=> Indexed(i) \/ (pc = "indexes" /\ i = at)
                /\ Aimed(i)' <=> Aimed(i) \/ (pc = "edges" /\ i = at)
           /\ \A x \in AllProps : ~Linked(x) /\ ~Linked(x)'
           /\ pc' = "parsed" => at' = 1
<1>1. /\ \A i \in Messages : i \in Nat \ {0} /\ i <= Len(request)
      /\ Len(request) \in Nat
  BY RequestTyped
<1>2. /\ on' = 1 /\ at \in Messages
      /\ \/ at < Len(request) /\ at' = at + 1 /\ pc' = pc
         \/ at = Len(request) /\ at' = 1 /\ pc' = next
  BY PassIs
<1>3. \A x \in AllProps : x[1] \in Messages /\ x[2] \in Nat \ {0}
  BY RequestTyped DEF AllProps, Entities
<1>4. \A x \in AllProps : ~Linked(x) /\ ~Linked(x)'
  BY <1>1, <1>2, <1>3 DEF Linked
<1>5. ASSUME NEW i \in Messages
      PROVE  /\ Parsed(i)' <=> Parsed(i) \/ (pc = "parse" /\ i = at)
             /\ Attached(i)' <=> Attached(i) \/ (pc = "attach" /\ i = at)
             /\ Indexed(i)' <=> Indexed(i) \/ (pc = "indexes" /\ i = at)
             /\ Aimed(i)' <=> Aimed(i) \/ (pc = "edges" /\ i = at)
  <2>1. i < at + 1 <=> i < at \/ i = at
    BY <1>1, <1>2
  <2>2. ~(i < 1) /\ (at = Len(request) => i < at \/ i = at)
    BY <1>1
  <2>3. Parsed(i)' <=> Parsed(i) \/ (pc = "parse" /\ i = at)
    BY <1>2, <2>1, <2>2 DEF Parsed
  <2>4. Attached(i)' <=> Attached(i) \/ (pc = "attach" /\ i = at)
    BY <1>2, <2>1, <2>2 DEF Attached
  <2>5. Indexed(i)' <=> Indexed(i) \/ (pc = "indexes" /\ i = at)
    BY <1>2, <2>1, <2>2 DEF Indexed
  <2>6. Aimed(i)' <=> Aimed(i) \/ (pc = "edges" /\ i = at)
    BY <1>2, <2>1, <2>2 DEF Aimed
  <2> QED BY <2>3, <2>4, <2>5, <2>6
<1> QED BY <1>2, <1>4, <1>5

LEMMA NoTies ==
    ASSUME \A x \in AllProps : ~Linked(x)
    PROVE  Ties = {}
BY DEF Ties, Relations

\* What a problem is, and that it is of a message.
LEMMA SaidTyped ==
    ASSUME FromRequests, NEW i \in Messages
    PROVE  \A d \in Unknown(i) \cup Mistakes(i) :
             d[1] \in Messages /\ d[2] \in Annotational /\ d[3] \in Nat
<1>1. ASSUME NEW d, NEW word \in Annotational, NEW j \in Nat, d = <<i, word, j>>
      PROVE  d[1] \in Messages /\ d[2] \in Annotational /\ d[3] \in Nat
  BY <1>1
<1>2. /\ MembersOf(i) \subseteq Nat /\ Marked(i) \subseteq Nat
      /\ DOMAIN request[i].indexes \subseteq Nat
  BY RequestTyped DEF Marked
<1>3. \A d \in Unknown(i) : \E word \in Annotational : \E j \in Nat : d = <<i, word, j>>
  BY <1>2 DEF Unknown, Annotational
<1>4. \A d \in KeyMistakes(i) : \E word \in Annotational : \E j \in Nat : d = <<i, word, j>>
  BY <1>2 DEF KeyMistakes, Annotational
<1>5. \A d \in Mistakes(i) : \E word \in Annotational : \E j \in Nat : d = <<i, word, j>>
  <2> SUFFICES ASSUME NEW d \in Mistakes(i), d \notin KeyMistakes(i)
               PROVE  \E word \in Annotational : \E j \in Nat : d = <<i, word, j>>
    BY <1>4
  <2> QED BY <1>2 DEF Mistakes, Annotational
<1> QED BY <1>1, <1>3, <1>4, <1>5

LEMMA WordsDiffer == Annotational \cap Structural = {}
BY DEF Annotational, Structural

LEMMA DeclaredAre ==
    /\ \A i : \A x \in DeclaredOf(i) : x[1] = i /\ x[2] \in Props(i) /\ x = <<i, x[2]>>
    /\ \A x : x \in Declared <=> x[1] \in Entities /\ x \in DeclaredOf(x[1])
    /\ Declared \subseteq AllProps
<1>1. ASSUME NEW i, NEW x \in DeclaredOf(i)
      PROVE  x[1] = i /\ x[2] \in Props(i) /\ x = <<i, x[2]>>
  <2>1. PICK j \in Props(i) : x = <<i, j>>
    BY DEF DeclaredOf
  <2> QED BY <2>1
<1>2. \A x : x \in Declared <=> \E i \in Entities : x \in DeclaredOf(i)
  BY DEF Declared
<1>3. \A i \in Entities : DeclaredOf(i) \subseteq AllProps
  BY <1>1 DEF AllProps
<1> QED BY <1>1, <1>2, <1>3

LEMMA ParseKeeps == ASSUME BuildInv, ParseMessage PROVE BuildInv'
<1>1. /\ pc = "parse" /\ Pass("parsed") /\ FromRequests /\ TypeOK /\ at \in Messages
      /\ UNCHANGED <<request, building>>
      /\ diags' = diags \cup Unknown(at) \cup IF at \in Entities THEN Mistakes(at) ELSE {}
      /\ at \in Entities => key' = [key EXCEPT ![at] = KeyOf(at)]
                            /\ unique' = unique \cup DeclaredOf(at)
      /\ at \notin Entities => UNCHANGED parsing
  BY PassIs DEF ParseMessage, BuildInv, DeclaredOf
<1>2. /\ pc' \in {"parse", "parsed"} /\ at' \in Messages /\ on' = 1
      /\ UNCHANGED <<version, erased, indexProps, target, inverse, reverse>>
  BY <1>1, PassIs DEF building
<1>3. /\ \A i \in Messages :
           /\ Parsed(i)' <=> Parsed(i) \/ i = at
           /\ ~Attached(i)' /\ ~Indexed(i)' /\ ~Aimed(i)'
      /\ \A x \in AllProps : ~Linked(x) /\ ~Linked(x)'
      /\ pc' = "parsed" => at' = 1
  <2>1. \A i : ~Attached(i)' /\ ~Indexed(i)' /\ ~Aimed(i)'
    BY <1>2 DEF Attached, Indexed, Aimed
  <2> QED BY <1>1, <2>1, PassProgress
<1>4. /\ Messages' = Messages /\ Entities' = Entities /\ Ids' = Ids /\ AllProps' = AllProps
      /\ Declared' = Declared /\ FromRequests'
      /\ \A i : Props(i)' = Props(i) /\ KeyOf(i)' = KeyOf(i) /\ Unknown(i)' = Unknown(i)
               /\ Mistakes(i)' = Mistakes(i)
  BY <1>1, SameRequest
<1>5. TypeOK'
  <2>1. \A d \in diags' :
          d[1] \in Messages /\ d[2] \in Annotational \cup Structural /\ d[3] \in Nat
    BY <1>1, SaidTyped DEF TypeOK
  <2>2. DOMAIN key' = Messages /\ \A i \in Messages : key'[i] \in Props(i) \cup {0}
    BY <1>1, KeyIs DEF TypeOK, parsing
  <2>3. unique' \subseteq AllProps
    <3>1. at \in Entities => DeclaredOf(at) \subseteq AllProps
      BY DeclaredAre
    <3> QED BY <1>1, <3>1 DEF TypeOK, parsing
  <2> QED BY <1>1, <1>2, <1>4, <2>1, <2>2, <2>3 DEF TypeOK
<1>6. SaidInv'
  <2>1. \A d \in diags' : d[2] \notin Structural
    BY <1>1, SaidTyped, WordsDiffer DEF BuildInv, SaidInv
  <2>2. \A i \in Messages : Parsed(i)' =>
          Unknown(i) \subseteq diags' /\ (i \in Entities => Mistakes(i) \subseteq diags')
    BY <1>1, <1>3 DEF BuildInv, SaidInv
  <2> QED BY <1>2, <1>4, <2>1, <2>2 DEF SaidInv, Building
<1>7. TargetInv'
  BY <1>1, <1>2, SameRequest DEF BuildInv, TargetInv
<1>8. ASSUME diags' = {}
      PROVE  KeyInv' /\ AttachInv' /\ IndexInv' /\ AimInv' /\ UniqueInv' /\ LinkInv'
  <2>1. diags = {} /\ KeyInv /\ UniqueInv
    BY <1>1, <1>8 DEF BuildInv
  <2>2. KeyInv'
    <3>1. ASSUME NEW i \in Entities, Parsed(i)' PROVE key'[i] = KeyOf(i)
      BY <1>1, <1>3, <2>1, <3>1 DEF KeyInv, TypeOK, parsing, Entities
    <3> QED BY <1>4, <3>1 DEF KeyInv
  <2>3. UniqueInv'
    <3>1. Ties = {} /\ Ties' = {}
      BY <1>3, <1>4, NoTies DEF Ties, Relations
    <3>4. {x \in Declared : Parsed(x[1])'} =
            {x \in Declared : Parsed(x[1])} \cup IF at \in Entities THEN DeclaredOf(at) ELSE {}
      BY <1>3, DeclaredAre DEF Entities
    <3>5. unique = {x \in Declared : Parsed(x[1])}
      BY <2>1, <3>1 DEF UniqueInv
    <3>6. unique' = {x \in Declared : Parsed(x[1])'}
      BY <1>1, <3>4, <3>5 DEF parsing
    <3> QED BY <1>4, <3>1, <3>6 DEF UniqueInv
  <2>4. AttachInv' /\ IndexInv' /\ AimInv' /\ LinkInv'
    BY <1>3, <1>4 DEF AttachInv, IndexInv, AimInv, LinkInv, Entities
  <2> QED BY <2>2, <2>3, <2>4
<1> QED BY <1>2, <1>3, <1>4, <1>5, <1>6, <1>7, <1>8 DEF BuildInv

\* The look at what was said after the parse.
LEMMA CheckKeeps == ASSUME BuildInv, CheckAnnotations PROVE BuildInv'
<1>1. /\ pc = "parsed" /\ at = 1 /\ FromRequests /\ TypeOK
      /\ UNCHANGED <<request, at, on, diags, key, unique, version, erased, indexProps, target,
                     inverse, reverse>>
      /\ pc' = IF diags = {} THEN "attach" ELSE "refused"
  BY DEF CheckAnnotations, BuildInv, parsing, building
<1>2. \A i \in Messages : /\ Parsed(i) /\ Parsed(i)' /\ i \in Nat \ {0}
                          /\ ~Attached(i)' /\ ~Indexed(i)' /\ ~Aimed(i)'
  BY <1>1, RequestTyped DEF Parsed, Attached, Indexed, Aimed
<1>3. \A x : ~Linked(x) /\ ~Linked(x)'
  BY <1>1 DEF Linked
<1>4. TypeOK'
  BY <1>1, SameRequest DEF TypeOK
<1>5. SaidInv'
  <2>1. diags = {} => \A i \in Messages : Sound(i)
    BY <1>1, <1>2 DEF BuildInv, SaidInv, Sound
  <2>2. \A d \in diags : d[2] \notin Structural
    BY <1>1 DEF BuildInv, SaidInv
  <2> QED BY <1>1, <2>1, <2>2, SameRequest DEF SaidInv, Building
<1>6. TargetInv'
  BY <1>1, SameRequest DEF BuildInv, TargetInv
<1>7. ASSUME diags' = {}
      PROVE  KeyInv' /\ AttachInv' /\ IndexInv' /\ AimInv' /\ UniqueInv' /\ LinkInv'
  <2>1. KeyInv /\ UniqueInv
    BY <1>1, <1>7 DEF BuildInv
  <2>2. KeyInv'
    BY <1>1, <1>2, <2>1, SameRequest DEF KeyInv, Entities
  <2>3. UniqueInv'
    <3>1. Ties = {} /\ Ties' = {}
      BY <1>3 DEF Ties
    <3>2. {x \in Declared : Parsed(x[1])} = Declared /\ {x \in Declared : Parsed(x[1])'} = Declared
      BY <1>2, DeclaredAre DEF Entities
    <3>3. unique' = unique /\ Declared' = Declared
      BY <1>1, SameRequest
    <3> QED BY <2>1, <3>1, <3>2, <3>3 DEF UniqueInv
  <2>4. AttachInv' /\ IndexInv' /\ AimInv' /\ LinkInv'
    BY <1>1, <1>2, <1>3, SameRequest DEF AttachInv, IndexInv, AimInv, LinkInv, Entities
  <2> QED BY <2>2, <2>3, <2>4
<1>8. FromRequests' /\ (pc = "parsed" => at = 1)' /\ (pc = "done" => diags = {})'
  BY <1>1, SameRequest
<1> QED BY <1>4, <1>5, <1>6, <1>7, <1>8 DEF BuildInv

\* What holds of the passes that came before stays.
LEMMA PassedStays ==
    ASSUME BuildInv, UNCHANGED <<request, key, unique>>, diags = {}, KeyInv, UniqueInv,
           \A i \in Messages : Parsed(i) /\ Parsed(i)',
           \A x \in AllProps : ~Linked(x) /\ ~Linked(x)'
    PROVE  KeyInv' /\ UniqueInv' /\ LinkInv'
<1>1. KeyInv'
  BY SameRequest DEF KeyInv, Entities
<1>2. LinkInv'
  BY SameRequest DEF LinkInv
<1>3. Ties = {} /\ Ties' = {}
  BY NoTies, SameRequest DEF Ties, Relations
<1>4. {x \in Declared : Parsed(x[1])} = Declared /\ {x \in Declared : Parsed(x[1])'} = Declared
  BY DeclaredAre DEF Entities
<1>5. Declared' = Declared
  BY SameRequest
<1> QED BY <1>1, <1>2, <1>3, <1>4, <1>5 DEF UniqueInv

LEMMA AttachKeeps == ASSUME BuildInv, Attach PROVE BuildInv'
<1>1. /\ pc = "attach" /\ Pass("indexes") /\ FromRequests /\ TypeOK /\ at \in Messages
      /\ UNCHANGED <<request, key, unique, indexProps, target, inverse, reverse>>
      /\ diags \subseteq diags'
  BY PassIs DEF Attach, BuildInv, parsing
<1>2. pc' \in {"attach", "indexes"} /\ at' \in Messages /\ on' = 1
  BY <1>1, PassIs
<1>3. /\ \A i \in Messages : /\ Parsed(i) /\ Parsed(i)'
                             /\ Attached(i)' <=> Attached(i) \/ i = at
                             /\ ~Indexed(i)' /\ ~Aimed(i)'
      /\ \A x \in AllProps : ~Linked(x) /\ ~Linked(x)'
  <2>1. \A i : Parsed(i) /\ Parsed(i)' /\ ~Indexed(i) /\ ~Aimed(i)
    BY <1>1, <1>2 DEF Parsed, Indexed, Aimed
  <2> QED BY <1>1, <2>1, PassProgress
<1>4. \A i \in Messages :
        First(VersionFields(i)) \in Props(i) \cup {0} /\ First(ErasedFields(i)) \in Props(i) \cup {0}
  BY <1>1, StampsAre, FirstIs
<1>5. /\ at \in Entities =>
           /\ version' = [version EXCEPT ![at] = First(VersionFields(at))]
           /\ erased' = [erased EXCEPT ![at] = First(ErasedFields(at))]
           /\ diags' = diags \cup
                 {<<at, "second", j>> : j \in (VersionFields(at) \cup ErasedFields(at))
                                                \ {version'[at], erased'[at]}}
      /\ at \notin Entities => UNCHANGED <<version, erased, diags>>
  BY DEF Attach
<1>6. TypeOK'
  <2>1. \A d \in diags' :
          d[1] \in Messages /\ d[2] \in Annotational \cup Structural /\ d[3] \in Nat
    <3>1. ASSUME NEW j \in VersionFields(at) \cup ErasedFields(at), NEW d, d = <<at, "second", j>>
          PROVE  d[1] \in Messages /\ d[2] \in Annotational \cup Structural /\ d[3] \in Nat
      <4>1. j \in Nat
        BY <1>1, StampsAre
      <4> QED BY <1>1, <3>1, <4>1 DEF Structural
    <3> QED BY <1>1, <1>5, <3>1 DEF TypeOK
  <2>2. /\ DOMAIN version' = Messages /\ \A i \in Messages : version'[i] \in Props(i) \cup {0}
        /\ DOMAIN erased' = Messages /\ \A i \in Messages : erased'[i] \in Props(i) \cup {0}
    BY <1>1, <1>4, <1>5 DEF TypeOK
  <2> QED BY <1>1, <1>2, <2>1, <2>2, SameRequest DEF TypeOK
<1>7. SaidInv'
  BY <1>1, <1>2, SameRequest DEF BuildInv, SaidInv, Building
<1>8. TargetInv'
  BY <1>1, SameRequest DEF BuildInv, TargetInv
<1>9. ASSUME diags' = {}
      PROVE  KeyInv' /\ AttachInv' /\ IndexInv' /\ AimInv' /\ UniqueInv' /\ LinkInv'
  <2>1. diags = {} /\ KeyInv /\ AttachInv /\ UniqueInv
    BY <1>1, <1>9 DEF BuildInv
  <2>2. AttachInv'
    <3>1. ASSUME NEW i \in Entities, Attached(i)'
          PROVE  /\ version'[i] = First(VersionFields(i)) /\ erased'[i] = First(ErasedFields(i))
                 /\ VersionFields(i) \cup ErasedFields(i) \subseteq {version'[i], erased'[i]}
      <4>1. CASE i = at
        <5>1. version'[at] = First(VersionFields(at)) /\ erased'[at] = First(ErasedFields(at))
          BY <1>1, <1>5, <4>1 DEF TypeOK
        <5>2. ASSUME NEW j \in VersionFields(at) \cup ErasedFields(at)
              PROVE  j \in {version'[at], erased'[at]}
          <6>1. j \notin {version'[at], erased'[at]} => <<at, "second", j>> \in diags'
            BY <1>5, <4>1
          <6> QED BY <1>9, <6>1
        <5> QED BY <4>1, <5>1, <5>2
      <4>2. CASE i # at
        <5>1. Attached(i)
          BY <1>3, <3>1, <4>2 DEF Entities
        <5>2. version'[i] = version[i] /\ erased'[i] = erased[i]
          BY <1>1, <1>5, <4>2 DEF TypeOK, Entities
        <5> QED BY <2>1, <5>1, <5>2 DEF AttachInv
      <4> QED BY <4>1, <4>2
    <3> QED BY <1>1, <3>1, SameRequest DEF AttachInv
  <2>3. KeyInv' /\ UniqueInv' /\ LinkInv'
    BY <1>1, <1>3, <2>1, PassedStays
  <2>4. IndexInv' /\ AimInv'
    BY <1>1, <1>3, SameRequest DEF IndexInv, AimInv, Entities
  <2> QED BY <2>2, <2>3, <2>4
<1> QED BY <1>1, <1>2, <1>6, <1>7, <1>8, <1>9, SameRequest DEF BuildInv

LEMMA ResolveIndexesKeeps == ASSUME BuildInv, ResolveIndexes PROVE BuildInv'
<1> DEFINE refs(n) == request[at].indexes[n].refs
           new == [n \in DOMAIN indexProps[at] |-> IF n \in Indexes(at) THEN ResolvedRefs(at, n) ELSE <<>>]
           bad == {n \in Indexes(at) :
                     refs(n) = <<>> \/ \E k \in DOMAIN refs(n) : Resolves(at, refs(n)[k]) = {}}
<1>1. /\ pc = "indexes" /\ Pass("edges") /\ FromRequests /\ TypeOK /\ at \in Messages
      /\ UNCHANGED <<request, key, unique, version, erased, target, inverse, reverse>>
      /\ at \in Entities => /\ indexProps' = [indexProps EXCEPT ![at] = new]
                            /\ diags' = diags \cup {<<at, "refs", n>> : n \in bad}
      /\ at \notin Entities => UNCHANGED <<indexProps, diags>>
  BY PassIs DEF ResolveIndexes, BuildInv, parsing
<1> HIDE DEF new, bad
<1>2. pc' \in {"indexes", "edges"} /\ at' \in Messages /\ on' = 1 /\ diags \subseteq diags'
  BY <1>1, PassIs
<1>3. /\ \A i \in Messages : /\ Parsed(i) /\ Parsed(i)'
                             /\ Attached(i) /\ Attached(i)'
                             /\ Indexed(i)' <=> Indexed(i) \/ i = at
                             /\ ~Aimed(i)'
      /\ \A x \in AllProps : ~Linked(x) /\ ~Linked(x)'
  <2>1. \A i : Parsed(i) /\ Parsed(i)' /\ Attached(i) /\ Attached(i)' /\ ~Aimed(i)
    BY <1>1, <1>2 DEF Parsed, Attached, Aimed
  <2> QED BY <1>1, <2>1, PassProgress
<1>4. TypeOK'
  <2>1. \A d \in diags' :
          d[1] \in Messages /\ d[2] \in Annotational \cup Structural /\ d[3] \in Nat
    <3>1. bad \subseteq Nat
      BY <1>1, RequestTyped DEF bad, Indexes
    <3>2. ASSUME NEW n \in bad, NEW d, d = <<at, "refs", n>>
          PROVE  d[1] \in Messages /\ d[2] \in Annotational \cup Structural /\ d[3] \in Nat
      BY <1>1, <3>1, <3>2 DEF Structural
    <3> QED BY <1>1, <3>2 DEF TypeOK
  <2>2. DOMAIN indexProps' = Messages
        /\ \A i \in Messages : DOMAIN indexProps'[i] = DOMAIN request[i].indexes
    BY <1>1 DEF TypeOK, new
  <2> QED BY <1>1, <1>2, <2>1, <2>2, SameRequest DEF TypeOK
<1>5. SaidInv'
  BY <1>1, <1>2, SameRequest DEF BuildInv, SaidInv, Building
<1>6. TargetInv'
  BY <1>1, SameRequest DEF BuildInv, TargetInv
<1>7. ASSUME diags' = {}
      PROVE  KeyInv' /\ AttachInv' /\ IndexInv' /\ AimInv' /\ UniqueInv' /\ LinkInv'
  <2>1. diags = {} /\ KeyInv /\ AttachInv /\ IndexInv /\ UniqueInv
    BY <1>2, <1>7 DEF BuildInv
  <2>2. IndexInv'
    <3>1. ASSUME NEW i \in Entities, Indexed(i)', NEW n \in Indexes(i)
          PROVE  LET rs == request[i].indexes[n].refs
                 IN /\ rs # <<>> /\ \A k \in DOMAIN rs : Resolves(i, rs[k]) # {}
                    /\ indexProps'[i][n] = [k \in DOMAIN rs |-> <<i, First(Resolves(i, rs[k]))>>]
      <4> DEFINE rs == request[i].indexes[n].refs
      <4>1. CASE i = at
        <5>1. n \notin bad
          <6>1. n \in bad => <<at, "refs", n>> \in diags'
            BY <1>1, <4>1
          <6> QED BY <1>7, <6>1
        <5>2. rs # <<>> /\ \A k \in DOMAIN rs : Resolves(i, rs[k]) # {}
          BY <3>1, <4>1, <5>1 DEF bad
        <5>3. n \in DOMAIN request[i].indexes
          BY DEF Indexes
        <5>4. indexProps'[i][n] = ResolvedRefs(i, n)
          BY <1>1, <4>1, <5>3 DEF TypeOK, new
        <5> QED BY <1>1, <3>1, <4>1, <5>2, <5>3, <5>4, RefsAre
      <4>2. CASE i # at
        <5>1. Indexed(i) /\ indexProps'[i] = indexProps[i]
          BY <1>1, <1>3, <3>1, <4>2 DEF Entities, TypeOK
        <5> QED BY <2>1, <3>1, <5>1 DEF IndexInv
      <4> QED BY <4>1, <4>2
    <3> QED BY <1>1, <3>1, SameRequest DEF IndexInv
  <2>3. KeyInv' /\ UniqueInv' /\ LinkInv'
    BY <1>1, <1>3, <2>1, PassedStays
  <2>4. AttachInv' /\ AimInv'
    BY <1>1, <1>3, <2>1, SameRequest DEF AttachInv, AimInv, Entities
  <2> QED BY <2>2, <2>3, <2>4
<1> QED BY <1>1, <1>2, <1>4, <1>5, <1>6, <1>7, SameRequest DEF BuildInv

LEMMA ResolveEdgesKeeps == ASSUME BuildInv, ResolveEdges PROVE BuildInv'
<1> DEFINE found == {j \in Edges(at) : The(<<at, j>>).target \in Entities}
<1>1. /\ pc = "edges" /\ Pass("back") /\ FromRequests /\ TypeOK /\ at \in Messages
      /\ UNCHANGED <<request, key, unique, version, erased, indexProps, inverse, reverse>>
      /\ at \in Entities => /\ target' = target \cup {<<at, j>> : j \in found}
                            /\ diags' = diags \cup {<<at, "target", j>> : j \in Edges(at) \ found}
      /\ at \notin Entities => UNCHANGED <<target, diags>>
  BY PassIs DEF ResolveEdges, BuildInv, parsing
<1> HIDE DEF found
<1>2. pc' \in {"edges", "back"} /\ at' \in Messages /\ on' = 1 /\ diags \subseteq diags'
  BY <1>1, PassIs
<1>3. /\ \A i \in Messages : /\ Parsed(i) /\ Parsed(i)'
                             /\ Attached(i) /\ Attached(i)'
                             /\ Indexed(i) /\ Indexed(i)'
                             /\ Aimed(i)' <=> Aimed(i) \/ i = at
      /\ \A x \in AllProps : ~Linked(x) /\ ~Linked(x)'
  <2>1. \A i : /\ Parsed(i) /\ Parsed(i)' /\ Attached(i) /\ Attached(i)'
               /\ Indexed(i) /\ Indexed(i)'
    BY <1>1, <1>2 DEF Parsed, Attached, Indexed
  <2> QED BY <1>1, <2>1, PassProgress
<1>4. /\ Edges(at) \subseteq Nat /\ found \subseteq Edges(at)
      /\ at \in Entities => \A j \in Edges(at) : <<at, j>> \in AllProps
  <2>1. Edges(at) \subseteq Nat /\ Edges(at) \subseteq Props(at)
    BY <1>1, RequestTyped
  <2> QED BY <2>1 DEF found, AllProps
<1>5. TypeOK'
  <2>1. \A d \in diags' :
          d[1] \in Messages /\ d[2] \in Annotational \cup Structural /\ d[3] \in Nat
    <3>1. ASSUME NEW j \in Edges(at), NEW d, d = <<at, "target", j>>
          PROVE  d[1] \in Messages /\ d[2] \in Annotational \cup Structural /\ d[3] \in Nat
      BY <1>1, <1>4, <3>1 DEF Structural
    <3> QED BY <1>1, <3>1 DEF TypeOK
  <2>2. target' \subseteq AllProps
    BY <1>1, <1>4 DEF TypeOK
  <2> QED BY <1>1, <1>2, <2>1, <2>2, SameRequest DEF TypeOK
<1>6. SaidInv'
  BY <1>1, <1>2, SameRequest DEF BuildInv, SaidInv, Building
<1>7. TargetInv'
  <2>1. \A j \in found : IsEdge(<<at, j>>) /\ The(<<at, j>>).target \in Entities
    BY DEF found, Edges
  <2>2. \A x \in target' : IsEdge(x) /\ The(x).target \in Entities
    BY <1>1, <2>1 DEF BuildInv, TargetInv
  <2> QED BY <1>1, <2>2, SameRequest DEF TargetInv
<1>8. ASSUME diags' = {}
      PROVE  KeyInv' /\ AttachInv' /\ IndexInv' /\ AimInv' /\ UniqueInv' /\ LinkInv'
  <2>1. diags = {} /\ KeyInv /\ AttachInv /\ IndexInv /\ AimInv /\ UniqueInv
    BY <1>2, <1>8 DEF BuildInv
  <2>2. AimInv'
    <3>1. ASSUME NEW i \in Entities, Aimed(i)', NEW j \in Edges(i) PROVE <<i, j>> \in target'
      <4>1. CASE i = at
        <5>1. j \notin found => <<at, "target", j>> \in diags'
          BY <1>1, <4>1
        <5> QED BY <1>1, <1>8, <4>1, <5>1
      <4>2. CASE i # at
        BY <1>1, <1>3, <2>1, <3>1, <4>2 DEF AimInv, Entities
      <4> QED BY <4>1, <4>2
    <3> QED BY <1>1, <3>1, SameRequest DEF AimInv
  <2>3. KeyInv' /\ UniqueInv' /\ LinkInv'
    BY <1>1, <1>3, <2>1, PassedStays
  <2>4. AttachInv' /\ IndexInv'
    BY <1>1, <1>3, <2>1, SameRequest DEF AttachInv, IndexInv, Entities
  <2> QED BY <2>2, <2>3, <2>4
<1> QED BY <1>1, <1>2, <1>5, <1>6, <1>7, <1>8, SameRequest DEF BuildInv

-----------------------------------------------------------------------------
(* The relations. *)

\* The message and the member the last pass is at, once it goes on.
LEMMA NextProgress ==
    ASSUME FromRequests, TypeOK, pc = "back", NextMember
    PROVE  /\ UNCHANGED request /\ at' \in Messages /\ on' \in Nat \ {0}
           /\ pc' \in {"back", "resolved"}
           /\ \A x \in AllProps : Linked(x)' <=> Linked(x) \/ x = <<at, on>>
<1>1. /\ Len(request) \in Nat \ {0} /\ Messages = 1..Len(request)
      /\ at \in Messages /\ on \in Nat \ {0} /\ Len(request[at].members) \in Nat
  BY RequestTyped DEF TypeOK
<1>2. \A x \in AllProps : /\ x = <<x[1], x[2]>>
                          /\ x[1] \in Messages /\ x[2] \in 1..Len(request[x[1]].members)
  <2>1. ASSUME NEW x \in AllProps
        PROVE  \E i \in Messages : \E j \in 1..Len(request[i].members) : x = <<i, j>>
    BY RequestTyped DEF AllProps, Entities
  <2> QED BY <2>1
<1>3. CASE on < Len(request[at].members)
  <2>1. on' = on + 1 /\ UNCHANGED <<request, pc, at>>
    BY <1>3 DEF NextMember
  <2>2. ASSUME NEW x \in AllProps PROVE Linked(x)' <=> Linked(x) \/ x = <<at, on>>
    <3>1. x[1] \in Nat /\ x[2] \in Nat /\ x = <<x[1], x[2]>>
      BY <1>1, <1>2
    <3>2. x[2] < on + 1 <=> x[2] < on \/ x[2] = on
      BY <1>1, <3>1
    <3>3. x = <<at, on>> <=> x[1] = at /\ x[2] = on
      BY <3>1
    <3>4. Linked(x) <=> x[1] < at \/ (x[1] = at /\ x[2] < on)
      BY DEF Linked
    <3>5. Linked(x)' <=> x[1] < at \/ (x[1] = at /\ x[2] < on + 1)
      BY <2>1 DEF Linked
    <3> QED BY <3>2, <3>3, <3>4, <3>5
  <2> QED BY <1>1, <2>1, <2>2
<1>4. CASE ~(on < Len(request[at].members))
  <2>1. Pass("resolved")
    BY <1>4 DEF NextMember
  <2>2. /\ UNCHANGED request /\ on' = 1 /\ at' \in Messages
        /\ \/ at < Len(request) /\ at' = at + 1 /\ pc' = pc
           \/ at = Len(request) /\ at' = 1 /\ pc' = "resolved"
    BY <2>1, PassIs
  <2>3. ASSUME NEW x \in AllProps PROVE Linked(x)' <=> Linked(x) \/ x = <<at, on>>
    <3>1. /\ x[1] \in Nat /\ x[2] \in Nat \ {0} /\ x = <<x[1], x[2]>>
          /\ x[1] <= Len(request) /\ x[2] <= Len(request[x[1]].members)
          /\ Len(request[x[1]].members) \in Nat
      BY <1>1, <1>2, RequestTyped
    <3>2. x[1] = at => x[2] <= on
      BY <1>1, <1>4, <3>1
    <3>3. x = <<at, on>> <=> x[1] = at /\ x[2] = on
      BY <3>1
    <3>4. Linked(x) <=> x[1] < at \/ (x[1] = at /\ x[2] < on)
      BY DEF Linked
    <3>5. Linked(x)' <=> x[1] <= at
      <4>1. CASE pc' = "back"
        <5>1. at' = at + 1 /\ on' = 1
          BY <2>2, <4>1
        <5>2. Linked(x)' <=> x[1] < at + 1 \/ (x[1] = at + 1 /\ x[2] < 1)
          BY <4>1, <5>1 DEF Linked
        <5> QED BY <1>1, <3>1, <5>2
      <4>2. CASE pc' = "resolved"
        BY <2>2, <3>1, <4>2 DEF Linked
      <4> QED BY <2>2, <4>1, <4>2
    <3> QED BY <1>1, <3>1, <3>2, <3>3, <3>4, <3>5
  <2> QED BY <2>2, <2>3
<1> QED BY <1>3, <1>4

\* A relation is of an edge whose target was resolved, and what it names.
LEMMA RelationsAre ==
    ASSUME FromRequests, TypeOK, TargetInv
    PROVE  /\ \A x : HasFrom(x) => x \in target /\ x \in AllProps /\ The(x).target \in Entities
           /\ \A x, y : <<x, y>> \in Relations <=> HasFrom(x) /\ y \in Other(x)
           /\ \A r \in Relations : r = <<r[1], r[2]>>
<1>1. \A x : HasFrom(x) => x \in target /\ x \in AllProps /\ The(x).target \in Entities
  BY DEF HasFrom, TypeOK, TargetInv
<1>2. \A x : HasFrom(x) => Other(x) \subseteq AllProps
  BY <1>1, OtherIs
<1>3. \A x, y : <<x, y>> \in Relations <=> HasFrom(x) /\ y \in Other(x)
  BY <1>1, <1>2 DEF Relations
<1>4. \A r \in Relations : r = <<r[1], r[2]>>
  BY DEF Relations
<1> QED BY <1>1, <1>3, <1>4

\* What the last pass leaves as the ones before it made it.
LEMMA EarlierStays ==
    ASSUME BuildInv, pc = "back", NextMember, diags \subseteq diags',
           UNCHANGED <<key, version, erased, indexProps, target>>
    PROVE  /\ FromRequests' /\ SaidInv' /\ TargetInv'
           /\ (pc = "parsed" => at = 1)' /\ (pc = "done" => diags = {})'
           /\ diags' = {} => KeyInv' /\ AttachInv' /\ IndexInv' /\ AimInv'
<1>1. UNCHANGED request /\ pc' \in {"back", "resolved"}
  BY NextProgress DEF BuildInv
<1>2. \A i : /\ Parsed(i) /\ Attached(i) /\ Indexed(i) /\ Aimed(i)
             /\ Parsed(i)' /\ Attached(i)' /\ Indexed(i)' /\ Aimed(i)'
  BY <1>1 DEF Parsed, Attached, Indexed, Aimed
<1>3. FromRequests' /\ TargetInv' /\ (pc = "parsed" => at = 1)' /\ (pc = "done" => diags = {})'
  BY <1>1, SameRequest DEF BuildInv, TargetInv
<1>4. SaidInv'
  BY <1>1, SameRequest DEF BuildInv, SaidInv, Building
<1>5. ASSUME diags' = {} PROVE KeyInv' /\ AttachInv' /\ IndexInv' /\ AimInv'
  <2>1. KeyInv /\ AttachInv /\ IndexInv /\ AimInv
    BY <1>5 DEF BuildInv
  <2>2. KeyInv' /\ AttachInv'
    BY <1>1, <1>2, <2>1, SameRequest DEF KeyInv, AttachInv
  <2>3. IndexInv'
    BY <1>1, <1>2, <2>1, SameRequest DEF IndexInv
  <2>4. AimInv'
    BY <1>1, <1>2, <2>1, SameRequest DEF AimInv
  <2> QED BY <2>2, <2>3, <2>4
<1> QED BY <1>3, <1>4, <1>5

LEMMA PassEdgeKeeps == ASSUME BuildInv, PassEdge PROVE BuildInv'
<1>1. /\ pc = "back" /\ NextMember /\ ~HasFrom(<<at, on>>) /\ FromRequests /\ TypeOK /\ TargetInv
      /\ UNCHANGED <<diags, key, unique, version, erased, indexProps, target, inverse, reverse>>
  BY DEF PassEdge, BuildInv, parsing, building
<1>2. /\ UNCHANGED request /\ at' \in Messages /\ on' \in Nat \ {0} /\ pc' \in {"back", "resolved"}
      /\ \A x \in AllProps : Linked(x)' <=> Linked(x) \/ x = <<at, on>>
  BY <1>1, NextProgress
<1>3. TypeOK'
  BY <1>1, <1>2, SameRequest DEF TypeOK
<1>4. \A x \in AllProps : HasFrom(x) => (Linked(x)' <=> Linked(x))
  BY <1>1, <1>2
<1>5. ASSUME diags' = {} PROVE UniqueInv' /\ LinkInv'
  <2>1. UniqueInv /\ LinkInv
    BY <1>1, <1>5 DEF BuildInv
  <2>2. Ties' = Ties
    <3>1. \A r \in Relations : r[1] \in AllProps /\ HasFrom(r[1])
      BY DEF Relations
    <3> QED BY <1>1, <1>2, <1>4, <3>1, SameRequest, SameTargets DEF Ties
  <2>3. UniqueInv'
    <3>1. \A i : Parsed(i)' /\ Parsed(i)
      BY <1>1, <1>2 DEF Parsed
    <3> QED BY <1>1, <1>2, <2>1, <2>2, <3>1, SameRequest DEF UniqueInv
  <2>4. LinkInv'
    BY <1>1, <1>2, <1>4, <2>1, SameRequest, SameTargets DEF LinkInv
  <2> QED BY <2>3, <2>4
<1> QED BY <1>1, <1>3, <1>5, EarlierStays DEF BuildInv

LEMMA RefuseKeeps == ASSUME BuildInv, RefuseBackReference PROVE BuildInv'
<1>1. /\ pc = "back" /\ NextMember /\ FromRequests /\ TypeOK
      /\ UNCHANGED <<key, unique, version, erased, indexProps, target, inverse, reverse>>
      /\ diags' = diags \cup {<<at, "from", on>>}
  BY DEF RefuseBackReference, BuildInv, parsing, building
<1>2. /\ UNCHANGED request /\ at' \in Messages /\ on' \in Nat \ {0} /\ pc' \in {"back", "resolved"}
  BY <1>1, NextProgress
<1>3. TypeOK'
  <2>1. ASSUME NEW d, d = <<at, "from", on>>
        PROVE  d[1] \in Messages /\ d[2] \in Annotational \cup Structural /\ d[3] \in Nat
    BY <1>1, <2>1 DEF TypeOK, Structural
  <2>2. \A d \in diags' :
          d[1] \in Messages /\ d[2] \in Annotational \cup Structural /\ d[3] \in Nat
    BY <1>1, <2>1 DEF TypeOK
  <2> QED BY <1>1, <1>2, <2>2, SameRequest DEF TypeOK
<1>4. diags' # {} /\ diags \subseteq diags'
  BY <1>1
<1> QED BY <1>1, <1>3, <1>4, EarlierStays DEF BuildInv

LEMMA LinkKeeps == ASSUME BuildInv, LinkBackReference PROVE BuildInv'
<1> DEFINE x == <<at, on>>
<1>1. PICK y \in MayName(x) :
        /\ inverse' = [inverse EXCEPT ![x] = y]
        /\ reverse' = [reverse EXCEPT ![y] = x]
        /\ unique' = IF OneToOne(x, y) THEN unique \cup {x, y} ELSE unique
  BY DEF LinkBackReference
<1>2. /\ pc = "back" /\ NextMember /\ HasFrom(x) /\ FromRequests /\ TypeOK /\ TargetInv
      /\ UNCHANGED <<diags, key, version, erased, indexProps, target>>
  BY DEF LinkBackReference, BuildInv
<1>3. /\ UNCHANGED request /\ at' \in Messages /\ on' \in Nat \ {0} /\ pc' \in {"back", "resolved"}
      /\ \A z \in AllProps : Linked(z)' <=> Linked(z) \/ z = x
  BY <1>2, NextProgress
<1>4. /\ x \in AllProps /\ y \in AllProps /\ y \in Other(x)
      /\ ~(y \in unique /\ The(x).repeated)
      /\ \A z \in Other(x) : z = y
  BY <1>2, OtherIs, RelationsAre DEF MayName
<1>5. AllProps \subseteq Ids
  BY <1>2, RequestTyped DEF AllProps, Ids, Entities
<1> HIDE DEF x
<1>6. /\ inverse'[x] = y /\ reverse'[y] = x
      /\ \A z \in AllProps : z # x => inverse'[z] = inverse[z]
      /\ \A z \in AllProps : z # y => reverse'[z] = reverse[z]
  BY <1>1, <1>2, <1>4, <1>5 DEF TypeOK
<1>7. TypeOK'
  <2>1. inverse' \in [Ids -> AllProps \cup {NoEdge}] /\ reverse' \in [Ids -> AllProps \cup {NoEdge}]
    BY <1>1, <1>2, <1>4, <1>5 DEF TypeOK
  <2>2. unique' \subseteq AllProps
    BY <1>1, <1>2, <1>4 DEF TypeOK
  <2> QED BY <1>2, <1>3, <2>1, <2>2, SameRequest DEF TypeOK
<1>8. ASSUME diags' = {} PROVE UniqueInv' /\ LinkInv'
  <2>1. UniqueInv /\ LinkInv
    BY <1>2, <1>8 DEF BuildInv
  <2>2. \A i : Parsed(i)' /\ Parsed(i)
    BY <1>2, <1>3 DEF Parsed
  <2>3. Ties' = Ties \cup {r \in {<<x, y>>} : OneToOne(x, y)}
    <3>1. Ties' = {r \in Relations : (Linked(r[1]) \/ r[1] = x) /\ OneToOne(r[1], r[2])}
      <4>1. \A r \in Relations : r[1] \in AllProps
        BY DEF Relations
      <4> QED BY <1>2, <1>3, <4>1, SameRequest, SameTargets DEF Ties
    <3>2. <<x, y>> \in Relations /\ \A r \in Relations : r[1] = x => r = <<x, y>>
      BY <1>2, <1>4, RelationsAre
    <3> QED BY <3>1, <3>2 DEF Ties
  <2>4. UniqueInv'
    <3>1. UNION {{r[1], r[2]} : r \in Ties'} =
            (UNION {{r[1], r[2]} : r \in Ties}) \cup {z \in {x, y} : OneToOne(x, y)}
      <4>1. \A T, z : z \in UNION {{r[1], r[2]} : r \in T} <=> \E r \in T : z = r[1] \/ z = r[2]
        OBVIOUS
      <4>2. \A r \in Ties' : r \in Ties \/ (OneToOne(x, y) /\ r[1] = x /\ r[2] = y)
        BY <2>3
      <4>3. OneToOne(x, y) => \E r \in Ties' : r[1] = x /\ r[2] = y
        <5>1. OneToOne(x, y) => <<x, y>> \in Ties'
          BY <2>3
        <5> QED BY <5>1
      <4>4. Ties \subseteq Ties'
        BY <2>3
      <4>5. \A z : (\E r \in Ties' : z = r[1] \/ z = r[2])
                     <=> \/ \E r \in Ties : z = r[1] \/ z = r[2]
                         \/ z \in {x, y} /\ OneToOne(x, y)
        BY <4>2, <4>3, <4>4
      <4> QED BY <4>1, <4>5
    <3>2. unique' = Declared \cup UNION {{r[1], r[2]} : r \in Ties'}
      <4>1. unique = Declared \cup UNION {{r[1], r[2]} : r \in Ties}
        BY <2>1, <2>2 DEF UniqueInv
      <4>2. unique' = unique \cup {z \in {x, y} : OneToOne(x, y)}
        BY <1>1
      <4> QED BY <3>1, <4>1, <4>2
    <3> QED BY <1>3, <2>2, <3>2, SameRequest DEF UniqueInv
  <2>5. ASSUME NEW z \in AllProps, HasFrom(z), Linked(z)', NEW w \in Other(z)
        PROVE  /\ inverse'[z] \in Other(z) /\ ~(w \in Declared /\ The(z).repeated)
               /\ Untangled => reverse'[w] = z
    <3>1. CASE z = x
      <4>1. w = y /\ (y \in Declared => y \in unique)
        BY <1>4, <2>1, <2>2, <2>5, <3>1 DEF UniqueInv
      <4> QED BY <1>4, <1>6, <3>1, <4>1
    <3>2. CASE z # x
      <4>1. /\ inverse[z] \in Other(z) /\ ~(w \in Declared /\ The(z).repeated)
            /\ Untangled => reverse[w] = z
        BY <1>3, <2>1, <2>5, <3>2 DEF LinkInv
      <4>2. w \in AllProps
        BY <1>2, <2>5, OtherIs, RelationsAre
      <4>3. Untangled => w # y
        <5> SUFFICES ASSUME Untangled, w = y PROVE FALSE
          OBVIOUS
        <5>1. <<x, y>> \in Relations /\ <<z, y>> \in Relations
          BY <1>2, <1>4, <2>5, RelationsAre
        <5>2. {x, y} = {z, y}
          BY <5>1 DEF Untangled
        <5> QED BY <3>2, <5>2
      <4> QED BY <1>6, <3>2, <4>1, <4>2, <4>3
    <3> QED BY <3>1, <3>2
  <2>6. LinkInv'
    <3>1. \A z \in AllProps : HasFrom(z) /\ Linked(z)' => inverse'[z] \in Other(z)
      <4> SUFFICES ASSUME NEW z \in AllProps, HasFrom(z), Linked(z)' PROVE inverse'[z] \in Other(z)
        OBVIOUS
      <4> QED BY <1>3, <1>4, <1>6, <2>1 DEF LinkInv
    <3> QED BY <1>2, <1>3, <2>5, <3>1, SameRequest, SameTargets DEF LinkInv
  <2> QED BY <2>4, <2>6
<1> QED BY <1>2, <1>7, <1>8, EarlierStays DEF BuildInv

LEMMA FinishKeeps == ASSUME BuildInv, Finish PROVE BuildInv'
<1>1. /\ pc = "resolved" /\ FromRequests /\ TypeOK
      /\ UNCHANGED <<request, at, on, diags, key, unique, version, erased, indexProps, target,
                     inverse, reverse>>
      /\ pc' = IF diags = {} THEN "done" ELSE "refused"
  BY DEF Finish, BuildInv, parsing, building
<1>2. TypeOK'
  BY <1>1, SameRequest DEF TypeOK
<1>3. SaidInv'
  BY <1>1, SameRequest DEF BuildInv, SaidInv, Building
<1>4. TargetInv'
  BY <1>1, SameRequest DEF BuildInv, TargetInv
<1>5. ASSUME diags' = {}
      PROVE  KeyInv' /\ AttachInv' /\ IndexInv' /\ AimInv' /\ UniqueInv' /\ LinkInv'
  <2>1. KeyInv /\ AttachInv /\ IndexInv /\ AimInv /\ UniqueInv /\ LinkInv
    BY <1>1, <1>5 DEF BuildInv
  <2>2. /\ \A i : /\ Parsed(i) /\ Attached(i) /\ Indexed(i) /\ Aimed(i)
                  /\ Parsed(i)' /\ Attached(i)' /\ Indexed(i)' /\ Aimed(i)'
        /\ \A x : Linked(x) /\ Linked(x)'
    BY <1>1, <1>5 DEF Parsed, Attached, Indexed, Aimed, Linked
  <2>3. KeyInv' /\ AttachInv'
    BY <1>1, <2>1, <2>2, SameRequest DEF KeyInv, AttachInv
  <2>4. IndexInv' /\ AimInv'
    BY <1>1, <2>1, <2>2, SameRequest DEF IndexInv, AimInv
  <2>5. UniqueInv'
    <3>1. Ties' = Ties
      BY <1>1, <2>2, SameRequest, SameTargets DEF Ties
    <3> QED BY <1>1, <2>1, <2>2, <3>1, SameRequest DEF UniqueInv
  <2>6. LinkInv'
    BY <1>1, <2>1, <2>2, SameRequest, SameTargets DEF LinkInv
  <2> QED BY <2>3, <2>4, <2>5, <2>6
<1> QED BY <1>1, <1>2, <1>3, <1>4, <1>5, SameRequest DEF BuildInv

LEMMA BuildInvInit == ASSUME Init PROVE BuildInv
<1>1. FromRequests /\ pc = "parse" /\ at = 1 /\ on = 1 /\ diags = {} /\ unique = {} /\ target = {}
  BY DEF Init, FromRequests
<1>2. 1 \in Messages /\ \A i \in Messages : i \in Nat \ {0}
  BY <1>1, RequestTyped
<1>3. TypeOK
  <2>1. \A f \in {key, version, erased} : DOMAIN f = Messages /\ \A i \in Messages : f[i] = 0
    BY DEF Init
  <2>2. DOMAIN indexProps = Messages
        /\ \A i \in Messages : DOMAIN indexProps[i] = DOMAIN request[i].indexes
    BY DEF Init
  <2>3. inverse \in [Ids -> AllProps \cup {NoEdge}] /\ reverse \in [Ids -> AllProps \cup {NoEdge}]
    BY DEF Init
  <2>4. request \in Seq(Message)
    BY <1>1, RequestTyped
  <2> QED BY <1>1, <1>2, <2>1, <2>2, <2>3, <2>4 DEF TypeOK
<1>4. /\ \A i \in Messages : ~Parsed(i) /\ ~Attached(i) /\ ~Indexed(i) /\ ~Aimed(i)
      /\ \A x : ~Linked(x)
  BY <1>1, <1>2 DEF Parsed, Attached, Indexed, Aimed, Linked
<1>5. SaidInv /\ TargetInv
  BY <1>1, <1>4 DEF SaidInv, TargetInv, Building
<1>6. KeyInv /\ AttachInv /\ IndexInv /\ AimInv /\ LinkInv
  BY <1>4 DEF KeyInv, AttachInv, IndexInv, AimInv, LinkInv, Entities
<1>7. UniqueInv
  BY <1>1, <1>4, DeclaredAre DEF UniqueInv, Ties, Entities
<1> QED BY <1>1, <1>3, <1>5, <1>6, <1>7 DEF BuildInv

LEMMA StutterKeeps == ASSUME BuildInv, UNCHANGED vars PROVE BuildInv'
<1>1. UNCHANGED <<request, pc, at, on, diags, key, unique, version, erased, indexProps, target,
                  inverse, reverse>>
  BY DEF vars, parsing, building
<1>2. /\ \A i : /\ Parsed(i)' <=> Parsed(i)
                /\ Attached(i)' <=> Attached(i)
                /\ Indexed(i)' <=> Indexed(i)
                /\ Aimed(i)' <=> Aimed(i)
      /\ \A x : Linked(x)' <=> Linked(x)
  BY <1>1 DEF Parsed, Attached, Indexed, Aimed, Linked
<1>3. TypeOK' /\ FromRequests'
  BY <1>1, SameRequest DEF BuildInv, TypeOK
<1>4. SaidInv' /\ TargetInv'
  BY <1>1, <1>2, SameRequest DEF BuildInv, SaidInv, TargetInv, Building
<1>5. ASSUME diags = {}
      PROVE  KeyInv' /\ AttachInv' /\ IndexInv' /\ AimInv' /\ UniqueInv' /\ LinkInv'
  <2>1. KeyInv' /\ AttachInv'
    BY <1>1, <1>2, <1>5, SameRequest DEF BuildInv, KeyInv, AttachInv
  <2>2. IndexInv' /\ AimInv'
    BY <1>1, <1>2, <1>5, SameRequest DEF BuildInv, IndexInv, AimInv
  <2>3. Ties' = Ties
    BY <1>1, <1>2, SameRequest, SameTargets DEF Ties
  <2>4. UniqueInv'
    BY <1>1, <1>2, <1>5, <2>3, SameRequest DEF BuildInv, UniqueInv
  <2>5. LinkInv'
    BY <1>1, <1>2, <1>5, SameRequest, SameTargets DEF BuildInv, LinkInv
  <2> QED BY <2>1, <2>2, <2>4, <2>5
<1> QED BY <1>1, <1>3, <1>4, <1>5 DEF BuildInv

\* What the passes know of a request holds in every state of every build of it.
THEOREM BuildInductive == Spec => []BuildInv
<1>1. Init => BuildInv
  BY BuildInvInit
<1>2. BuildInv /\ [Next]_vars => BuildInv'
  BY ParseKeeps, CheckKeeps, AttachKeeps, ResolveIndexesKeeps, ResolveEdgesKeeps, PassEdgeKeeps,
     RefuseKeeps, LinkKeeps, FinishKeeps, StutterKeeps DEF Next
<1> QED BY <1>1, <1>2, PTL DEF Spec

-----------------------------------------------------------------------------
(* What a schema promises. *)

(* Every state of a build is well formed, and only a prop, never a member     *)
(* that opted out or was refused, is unique, a key, a version, the erased     *)
(* field or the end of a relation (ormcompat/parse.go; schema.go, Build).    *)
THEOREM TypeCorrect == Spec => []TypeOK
BY BuildInductive, PTL DEF BuildInv

(* What is said of the structure is never noise from an annotation that was   *)
(* going to be refused anyway: Build does not begin before every annotation   *)
(* of every message is in order (docs/annotations.md:254-256; schema.go).    *)
THEOREM NoNoise == Spec => []StructureIsNoNoise
<1>1. BuildInv => StructureIsNoNoise
  BY DEF BuildInv, SaidInv, Sound, StructureIsNoNoise
<1> QED BY <1>1, BuildInductive, PTL

\* What a build that was accepted knows of every entity.
LEMMA AcceptedIs ==
    ASSUME BuildInv, pc = "done", diags = {}
    PROVE  /\ KeyInv /\ AttachInv /\ IndexInv /\ AimInv /\ UniqueInv /\ LinkInv
           /\ \A i \in Entities : Parsed(i) /\ Attached(i) /\ Indexed(i) /\ Aimed(i)
           /\ \A x : Linked(x)
           /\ \A i \in Entities : KeyOf(i) \in Props(i) \ Edges(i) /\ key[i] = KeyOf(i)
<1>1. KeyInv /\ AttachInv /\ IndexInv /\ AimInv /\ UniqueInv /\ LinkInv
  BY DEF BuildInv
<1>2. \A i : Parsed(i) /\ Attached(i) /\ Indexed(i) /\ Aimed(i)
  BY DEF Parsed, Attached, Indexed, Aimed
<1>3. \A x : Linked(x)
  BY DEF Linked
<1>4. ASSUME NEW i \in Entities PROVE KeyOf(i) \in Props(i) \ Edges(i) /\ key[i] = KeyOf(i)
  <2>1. i \in Messages /\ Mistakes(i) = {}
    BY DEF BuildInv, SaidInv, Sound, Building, Entities
  <2>2. KeyOf(i) # 0
    <3>1. KeyOf(i) = 0 => <<i, "keyless", 0>> \in KeyMistakes(i)
      BY DEF KeyMistakes
    <3> QED BY <2>1, <3>1 DEF Mistakes
  <2> QED BY <1>1, <1>2, <2>1, <2>2, KeyIs DEF BuildInv, KeyInv
<1> QED BY <1>1, <1>2, <1>3, <1>4

LEMMA AcceptedIsClosed == BuildInv => ClosedSchema
<1> SUFFICES ASSUME BuildInv, pc = "done", NEW i \in Entities
             PROVE  /\ key[i] \in Props(i) \ Edges(i) /\ <<i, key[i]>> \in unique
                    /\ \A j \in Edges(i) : /\ <<i, j>> \in target
                                           /\ key[The(<<i, j>>).target] # 0
                    /\ \A n \in Indexes(i) :
                         LET refs == request[i].indexes[n].refs
                         IN /\ refs # <<>> /\ DOMAIN indexProps[i][n] = DOMAIN refs
                            /\ \A k \in DOMAIN refs :
                                 LET m == The(indexProps[i][n][k])
                                 IN <<m.name, m.number>> = <<refs[k].name, refs[k].number>>
                    /\ VersionFields(i) \subseteq {version[i]}
                    /\ ErasedFields(i) \subseteq {erased[i]}
  BY DEF ClosedSchema
<1>1. diags = {} /\ FromRequests /\ TypeOK /\ TargetInv /\ i \in Messages
  BY DEF BuildInv, Entities
<1>2. key[i] \in Props(i) \ Edges(i) /\ <<i, key[i]>> \in unique
  <2>1. <<i, KeyOf(i)>> \in Declared
    BY <1>1, AcceptedIs DEF Declared, DeclaredOf
  <2>2. Declared \subseteq unique
    BY <1>1, AcceptedIs, DeclaredAre DEF UniqueInv
  <2> QED BY <1>1, <2>1, <2>2, AcceptedIs
<1>3. ASSUME NEW j \in Edges(i) PROVE <<i, j>> \in target /\ key[The(<<i, j>>).target] # 0
  <2>1. <<i, j>> \in target
    BY <1>1, AcceptedIs DEF AimInv
  <2>2. The(<<i, j>>).target \in Entities
    BY <1>1, <2>1 DEF TargetInv
  <2>3. \A t \in Entities : 0 \notin Props(t)
    BY <1>1, RequestTyped DEF Entities
  <2> QED BY <1>1, <2>1, <2>2, <2>3, AcceptedIs
<1>4. ASSUME NEW n \in Indexes(i)
      PROVE  LET refs == request[i].indexes[n].refs
             IN /\ refs # <<>> /\ DOMAIN indexProps[i][n] = DOMAIN refs
                /\ \A k \in DOMAIN refs :
                     /\ The(indexProps[i][n][k]).name = refs[k].name
                     /\ The(indexProps[i][n][k]).number = refs[k].number
  <2> DEFINE refs == request[i].indexes[n].refs
  <2>1. /\ refs # <<>> /\ \A k \in DOMAIN refs : Resolves(i, refs[k]) # {}
        /\ indexProps[i][n] = [k \in DOMAIN refs |-> <<i, First(Resolves(i, refs[k]))>>]
    BY <1>1, <1>4, AcceptedIs DEF IndexInv
  <2>2. \A k \in DOMAIN refs : First(Resolves(i, refs[k])) \in Resolves(i, refs[k])
    BY <1>1, <2>1, ResolvesToOne, FirstIs
  <2>3. ASSUME NEW k \in DOMAIN refs
        PROVE  /\ The(indexProps[i][n][k]).name = refs[k].name
               /\ The(indexProps[i][n][k]).number = refs[k].number
    <3> DEFINE j == First(Resolves(i, refs[k]))
    <3>1. \A m \in Resolves(i, refs[k]) :
            The(<<i, m>>).name = refs[k].name /\ The(<<i, m>>).number = refs[k].number
      BY <1>1, ResolvesToOne
    <3>2. j \in Resolves(i, refs[k]) /\ indexProps[i][n][k] = <<i, j>>
      BY <2>1, <2>2
    <3> HIDE DEF j
    <3> QED BY <3>1, <3>2
  <2> QED BY <2>1, <2>3
<1>5. VersionFields(i) \subseteq {version[i]} /\ ErasedFields(i) \subseteq {erased[i]}
  <2>1. /\ version[i] = First(VersionFields(i)) /\ erased[i] = First(ErasedFields(i))
        /\ VersionFields(i) \cup ErasedFields(i) \subseteq {version[i], erased[i]}
    BY <1>1, AcceptedIs DEF AttachInv
  <2>2. /\ VersionFields(i) # {} => version[i] \in VersionFields(i)
        /\ ErasedFields(i) # {} => erased[i] \in ErasedFields(i)
        /\ VersionFields(i) \cap ErasedFields(i) = {}
    BY <1>1, <2>1, StampsAre, FirstIs
  <2>3. /\ VersionFields(i) = {} => version[i] = 0
        /\ ErasedFields(i) = {} => erased[i] = 0
        /\ 0 \notin VersionFields(i) \cup ErasedFields(i)
    BY <1>1, <2>1, StampsAre, FirstIs, RequestTyped
  <2>4. ASSUME NEW j \in VersionFields(i) PROVE j = version[i]
    BY <2>1, <2>2, <2>3
  <2>5. ASSUME NEW j \in ErasedFields(i) PROVE j = erased[i]
    BY <2>1, <2>2, <2>3
  <2> QED BY <2>4, <2>5
<1> QED BY <1>2, <1>3, <1>4, <1>5

(* A schema Build accepts is closed, in whatever order its messages came:     *)
(* every entity has a key that is a unique field, every edge an entity that    *)
(* has one, every index all of its props and none of another name or number,  *)
(* and there is at most one version and one erased field (schema/entity.go:52,*)
(* edge.go:73, index.go:67).                                                 *)
THEOREM Closed == Spec => []ClosedSchema
BY AcceptedIsClosed, BuildInductive, PTL

(* What is unique in an accepted schema follows from what was declared and    *)
(* from no order: the props that said so, the keys, and both ends of every     *)
(* relation of which neither end is a list (schema.go:236-239).              *)
THEOREM UniqueIsDeclared == Spec => []UniqueAsDeclared
<1>1. BuildInv => UniqueAsDeclared
  <2> SUFFICES ASSUME BuildInv, pc = "done", diags = {} PROVE UniqueAsDeclared
    BY DEF UniqueAsDeclared, BuildInv
  <2>1. unique = Declared \cup UNION {{r[1], r[2]} : r \in Ties}
    BY AcceptedIs, DeclaredAre DEF UniqueInv
  <2>2. Ties = {r \in Relations : OneToOne(r[1], r[2])}
    BY AcceptedIs DEF Ties
  <2>3. Declared = {x \in AllProps : The(x).unique = "yes"} \cup {<<i, key[i]>> : i \in Entities}
    <3>1. \A x \in AllProps : \E i \in Entities : \E j \in Props(i) : x = <<i, j>>
      BY DEF AllProps
    <3>2. \A x \in Declared : \/ x \in AllProps /\ The(x).unique = "yes"
                              \/ \E i \in Entities : x = <<i, key[i]>>
      <4> SUFFICES ASSUME NEW x \in Declared
                   PROVE  \/ x \in AllProps /\ The(x).unique = "yes"
                          \/ \E i \in Entities : x = <<i, key[i]>>
        OBVIOUS
      <4>1. PICK i \in Entities : x \in DeclaredOf(i)
        BY DEF Declared
      <4>2. PICK j \in Props(i) : x = <<i, j>> /\ (The(x).unique = "yes" \/ j = KeyOf(i))
        BY <4>1 DEF DeclaredOf
      <4>3. x \in AllProps
        BY DeclaredAre
      <4> QED BY <4>2, <4>3, AcceptedIs
    <3>3. \A x \in AllProps : The(x).unique = "yes" => x \in Declared
      BY <3>1 DEF Declared, DeclaredOf
    <3>4. \A i \in Entities : <<i, key[i]>> \in Declared
      BY AcceptedIs DEF Declared, DeclaredOf
    <3> QED BY <3>2, <3>3, <3>4
  <2> QED BY <2>1, <2>2, <2>3 DEF UniqueAsDeclared
<1> QED BY <1>1, BuildInductive, PTL

(* Of an accepted schema every back reference has its edge; where no edge is   *)
(* in two relations, the edge has its back reference, and no list stands       *)
(* beside a half that is unique, whichever of the two was read first          *)
(* (schema.go:224-226).                                                      *)
THEOREM ReferencesPair == Spec => []BackReferencesPair
<1>1. BuildInv => BackReferencesPair
  <2> SUFFICES ASSUME BuildInv, pc = "done", diags = {} PROVE BackReferencesPair
    BY DEF BackReferencesPair, BuildInv
  <2>1. \A x \in AllProps : HasFrom(x) => inverse[x] \in Other(x)
    BY AcceptedIs DEF LinkInv
  <2>2. ASSUME Untangled, NEW r \in Relations
        PROVE  reverse[r[2]] = r[1] /\ ~(r[2] \in unique /\ The(r[1]).repeated)
    <3>1. r[1] \in AllProps /\ HasFrom(r[1]) /\ r[2] \in Other(r[1])
      BY DEF Relations
    <3>2. reverse[r[2]] = r[1] /\ ~(r[2] \in Declared /\ The(r[1]).repeated)
      BY <2>2, <3>1, AcceptedIs DEF LinkInv
    <3>3. ASSUME NEW s \in Relations, OneToOne(s[1], s[2]), r[2] \in {s[1], s[2]}
          PROVE  ~The(r[1]).repeated
      <4>1. {r[1], r[2]} = {s[1], s[2]}
        BY <2>2, <3>3 DEF Untangled
      <4> QED BY <3>3, <4>1 DEF OneToOne
    <3>4. r[2] \in unique => r[2] \in Declared \/ ~The(r[1]).repeated
      <4>1. r[2] \in unique => r[2] \in Declared \/ \E s \in Ties : r[2] \in {s[1], s[2]}
        BY AcceptedIs, DeclaredAre DEF UniqueInv
      <4> QED BY <3>3, <4>1 DEF Ties
    <3> QED BY <3>2, <3>4
  <2> QED BY <2>1, <2>2 DEF BackReferencesPair
<1> QED BY <1>1, BuildInductive, PTL

=============================================================================
