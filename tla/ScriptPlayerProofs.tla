------------------------- MODULE ScriptPlayerProofs -------------------------
(***************************************************************************)
(* Theorems about ScriptPlayer, for every application, script and number   *)
(* of attempts: each command does its work at most once and in order; only *)
(* the pointer from a look-up and objects that are no widgets lead to a    *)
(* crash; the name of a widget and the command for an event lead back to   *)
(* it, and so a replay repeats what was recorded, and in an application    *)
(* that changes each command does what it was made for.                    *)
(*                                                                         *)
(* The parts of the module: the line to a widget and the tree, names, what *)
(* is recorded and done for items, clicks and keys, the invariant, the     *)
(* commands of a script, the steps, the replay.                            *)
(***************************************************************************)
EXTENDS ScriptPlayer, TLAPS, SequenceTheorems, FiniteSetTheorems, Induction

\* The values of these are of no interest for their type.
ScriptIsSeq == \E S : script \in Seq(S)
ActedIsSeq  == \E S : acted \in Seq(S)

-----------------------------------------------------------------------------
(* Sequences *)

\* The elements of acted are of no interest, its length is.
LEMMA AppendToAny ==
    ASSUME NEW s, \E S : s \in Seq(S), NEW e
    PROVE  (\E S : Append(s, e) \in Seq(S)) /\ Len(Append(s, e)) = Len(s) + 1
<1>1. PICK S : s \in Seq(S)
  OBVIOUS
<1>2. PICK n \in Nat : s \in [1..n -> S]
  BY <1>1, SeqDef
<1>3. s \in [1..n -> S \cup {e}]
  BY <1>2
<1>4. s \in Seq(S \cup {e})
  BY <1>3, SeqDef
<1>5. Append(s, e) \in Seq(S \cup {e}) /\ Len(Append(s, e)) = Len(s) + 1
  BY <1>4, AppendProperties
<1> QED
  BY <1>5

LEMMA ScriptLength ==
    ASSUME ScriptIsSeq
    PROVE  Len(script) \in Nat /\ DOMAIN script = 1..Len(script)
BY LenProperties DEF ScriptIsSeq

LEMMA ActedByLength ==
    ASSUME TypeOK
    PROVE  Len(actedBy) \in Nat /\ DOMAIN actedBy = 1..Len(actedBy)
           /\ \A m \in 1..Len(actedBy) : actedBy[m] \in DOMAIN script
BY LenProperties, ElementOfSeq DEF TypeOK

-----------------------------------------------------------------------------
(* The tree of objects *)

LEMMA ObjectsAreCounted ==
    ASSUME TreeTypeOK
    PROVE  Len(scene.class) \in Nat /\ Objects = 1..Len(scene.class) /\ scene.changes \in Nat
BY ScenesAssumption, LenProperties DEF TreeTypeOK, Objects

LEMMA ApplicationTyped ==
    ASSUME TreeTypeOK, AppStep
    PROVE  TreeTypeOK' /\ scene' = scene /\ Objects' = Objects
<1>1. PICK i \in Objects : ShowOrHide(i) \/ Destroy(i) \/ Raise(i)
  BY DEF AppStep
<1>2. scene' = scene
  BY <1>1 DEF ShowOrHide, Destroy, Raise
<1>3. Objects' = Objects
  BY <1>2 DEF Objects
<1>4. Change
  BY <1>1 DEF ShowOrHide, Destroy, Raise
<1>5. changes' \in 0..scene.changes /\ changes \in Nat
  BY <1>4, ObjectsAreCounted DEF Change, TreeTypeOK
<1>6. alive' \subseteq Objects /\ shown' \subseteq Widgets
  <2>1. i \in Widgets \/ shown' = shown
    BY <1>1 DEF ShowOrHide, Destroy, Raise
  <2> QED
    BY <1>1, <2>1 DEF ShowOrHide, Destroy, Raise, TreeTypeOK
<1>8. Widgets' = Widgets
  BY <1>2, <1>3 DEF Widgets, Class
<1>7. place' \in [Objects -> Nat]
  <2>1. Len(scene.class) + changes + 1 \in Nat
    BY <1>5, ObjectsAreCounted
  <2> QED
    BY <1>1, <2>1 DEF ShowOrHide, Destroy, Raise, TreeTypeOK
<1> QED
  BY <1>2, <1>3, <1>5, <1>6, <1>7, <1>8 DEF TreeTypeOK

LEMMA TreeFacts ==
    ASSUME TreeTypeOK
    PROVE  /\ Len(scene.class) \in Nat /\ Objects = 1..Len(scene.class)
           /\ \A i \in Objects : /\ i \in Nat /\ i # Null
                                 /\ Parent(i) \in Nat /\ Parent(i) < i
                                 /\ Parent(i) = Null \/ Parent(i) \in Objects
                                 /\ Class(i) # NoText
<1>1. scene \in Scenes
  BY DEF TreeTypeOK
<1>2. /\ scene.class \in Seq(STRING \ {NoText})
      /\ scene.parent \in [1..Len(scene.class) -> Nat]
      /\ \A i \in 1..Len(scene.class) : scene.parent[i] < i
  BY <1>1, ScenesAssumption
<1>n. PICK N \in Nat : N = Len(scene.class)
  BY <1>2, LenProperties
<1>3. \A i \in 1..N : scene.parent[i] \in Nat /\ scene.parent[i] < i
  BY <1>2, <1>n
<1>4. \A i \in 1..N : scene.class[i] \in STRING \ {NoText}
  BY <1>2, <1>n, ElementOfSeq
<1>5. \A i \in 1..N : scene.parent[i] = 0 \/ scene.parent[i] \in 1..N
  BY <1>3
<1>6. \A i \in 1..N : i \in Nat /\ i # 0
  OBVIOUS
<1> QED
  BY <1>n, <1>3, <1>4, <1>5, <1>6 DEF Objects, Parent, Class, Null

\* The parent of a widget is a widget, and a name is a sequence of pieces.
Piece == [name : STRING, class : STRING, order : Nat]

LEMMA NameFacts ==
    ASSUME TreeTypeOK, NEW i \in Objects
    PROVE  /\ i \in Widgets /\ Parent(i) # Null => Parent(i) \in Widgets
           /\ Name(i) \in Seq(Piece) /\ Name(i) # <<>>
           /\ \A k \in DOMAIN Name(i) : Name(i)[k].class = NoText => Name(i)[k].order = 0
<1>1. scene \in Scenes /\ i \in 1..Len(scene.class)
  BY DEF TreeTypeOK, Objects
<1>2. /\ scene.class[i] \notin OtherClasses /\ scene.parent[i] # 0
            => scene.class[scene.parent[i]] \notin OtherClasses
      /\ scene.name[i] \in Seq(Piece) \ {<<>>}
      /\ \A k \in DOMAIN scene.name[i] :
            scene.name[i][k].class = NoText => scene.name[i][k].order = 0
  BY <1>1, ScenesAssumption DEF Piece
<1>3. Parent(i) # Null => Parent(i) \in Objects
  BY TreeFacts
<1> QED
  BY <1>2, <1>3 DEF Widgets, Class, Parent, Name, Null

\* The definition of Line is met.
LineStep(i) ==
    /\ Line[i] \in Seq(Objects)
    /\ Line[i] = IF Parent(i) = Null THEN <<i>> ELSE Append(Line[Parent(i)], i)

LEMMA LineSteps ==
    ASSUME TreeTypeOK
    PROVE  \A i \in Objects : LineStep(i)
<1>n. PICK N \in Nat : N = Len(scene.class) /\ Objects = 1..N
  BY TreeFacts
<1>V. PICK V : V = Seq(Objects)
  OBVIOUS
<1>a. PICK a \in V : a = <<>>
  BY <1>V, EmptySeq
<1>f. \A i \in 1..N, v \in V : Append(v, i) \in V
  BY <1>n, <1>V, AppendProperties
<1>1. PICK F \in [(1..N) \X V -> V] : \A i \in 1..N, v \in V : F[<<i, v>>] = Append(v, i)
  <2> DEFINE G == [x \in (1..N) \X V |-> Append(x[2], x[1])]
  <2>1. G \in [(1..N) \X V -> V]
    BY <1>f
  <2>2. \A i \in 1..N, v \in V : G[<<i, v>>] = Append(v, i)
    OBVIOUS
  <2> QED
    BY <2>1, <2>2
<1>2. PICK p \in [1..N -> Nat] : \A i \in 1..N : p[i] = Parent(i)
  <2>1. [i \in 1..N |-> Parent(i)] \in [1..N -> Nat]
    BY <1>n, TreeFacts
  <2> QED
    BY <2>1
<1>p. \A i \in 1..N : Parent(i) = Null \/ Parent(i) \in 1..N
  BY <1>n, TreeFacts
<1>3. PICK g \in [0..N -> V] : Solves(g, N, a, F, p)
  <2>1. Earlier(p, N)
    BY <1>n, <1>2, TreeFacts DEF Earlier
  <2> QED
    BY <2>1, RecursionExists
<1>4. PICK h : h = [i \in 1..N |-> g[i]]
  OBVIOUS
<1>5. ASSUME NEW i \in 1..N
      PROVE  h[i] = IF Parent(i) = Null THEN <<i>> ELSE Append(h[Parent(i)], i)
  <2>1. p[i] = Parent(i) /\ Parent(i) \in 0..N /\ i \in 0..N
    BY <1>2, <1>p DEF Null
  <2>2. g[i] = F[<<i, g[Parent(i)]>>]
    BY <1>3, <2>1 DEF Solves
  <2>3. g[Parent(i)] \in V
    BY <2>1
  <2>4. g[i] = Append(g[Parent(i)], i)
    BY <1>1, <2>2, <2>3, Zenon
  <2>5. CASE Parent(i) = Null
    <3>1. g[Parent(i)] = <<>>
      BY <1>3, <1>a, <2>5 DEF Solves, Null
    <3>2. Append(<<>>, i) = <<i>>
      OBVIOUS
    <3> QED
      BY <1>4, <2>4, <2>5, <3>1, <3>2
  <2>6. CASE Parent(i) # Null
    <3>1. h[Parent(i)] = g[Parent(i)]
      BY <1>4, <1>p, <2>6
    <3> QED
      BY <1>4, <2>4, <2>6, <3>1
  <2> QED
    BY <2>5, <2>6
<1>6. h = [i \in Objects |-> IF Parent(i) = Null THEN <<i>> ELSE Append(h[Parent(i)], i)]
  <2>1. h = [i \in 1..N |-> h[i]]
    BY <1>4
  <2> QED
    BY <1>n, <1>5, <2>1
<1>7. Line = [i \in Objects |-> IF Parent(i) = Null THEN <<i>> ELSE Append(Line[Parent(i)], i)]
  BY <1>6 DEF Line
<1>8. \A i \in 1..N : Line[i] = IF Parent(i) = Null THEN <<i>> ELSE Append(Line[Parent(i)], i)
  BY <1>n, <1>7
<1>S. PICK S : S = {n \in 0..N : \A i \in 1..n : Line[i] \in V}
  OBVIOUS
<1>9. 0 \in S
  BY <1>S
<1>10. ASSUME NEW n \in 0..N - 1, n \in S
       PROVE  n + 1 \in S
  <2>1. n + 1 \in 0..N /\ n + 1 \in 1..N
    OBVIOUS
  <2>2. Line[n + 1] \in V
    <3>1. CASE Parent(n + 1) = Null
      <4>1. <<n + 1>> \in V
        <5>j. PICK j \in Objects : j = n + 1
          BY <1>n, <2>1
        <5>1. <<j>> \in Seq(Objects)
          OBVIOUS
        <5> QED
          BY <1>V, <5>j, <5>1
      <4> QED
        BY <1>8, <2>1, <3>1, <4>1
    <3>2. CASE Parent(n + 1) # Null
      <4>1. Parent(n + 1) \in 1..n
        <5>1. Parent(n + 1) \in 1..N /\ Parent(n + 1) < n + 1
          BY <1>n, <1>p, <2>1, <3>2, TreeFacts
        <5> QED
          BY <5>1
      <4>2. Line[Parent(n + 1)] \in V
        BY <1>S, <1>10, <4>1
      <4> QED
        BY <1>8, <1>f, <2>1, <3>2, <4>2
    <3> QED
      BY <3>1, <3>2
  <2>3. \A i \in 1..n + 1 : i \in 1..n \/ i = n + 1
    OBVIOUS
  <2> QED
    BY <1>S, <1>10, <2>1, <2>2, <2>3
<1>11. \A n \in 0..N : n \in S
  BY <1>9, <1>10, UpTo
<1>12. \A i \in 1..N : Line[i] \in V
  <2>1. N \in 0..N
    OBVIOUS
  <2> QED
    BY <1>S, <1>11, <2>1
<1> QED
  BY <1>n, <1>V, <1>8, <1>12 DEF LineStep

\* A line leads from an outermost object to the object itself.
Leads(l, i) ==
    /\ l \in Seq(Objects)
    /\ Len(l) \in Nat \ {0}
    /\ l[Len(l)] = i
    /\ Parent(l[1]) = Null
    /\ \A k \in 1..Len(l) - 1 : Parent(l[k + 1]) = l[k]

LEMMA LineGrows ==
    ASSUME TreeTypeOK, NEW i \in Objects, Parent(i) = Null \/ Leads(Line[Parent(i)], Parent(i))
    PROVE  Leads(Line[i], i)
<1>1. LineStep(i)
  BY LineSteps
<1>2. CASE Parent(i) = Null
  <2>1. Line[i] = <<i>> /\ Line[i] \in Seq(Objects)
    BY <1>1, <1>2 DEF LineStep
  <2>2. Len(Line[i]) = 1 /\ Line[i][1] = i
    BY <2>1
  <2> QED
    BY <1>2, <2>1, <2>2 DEF Leads
<1>3. CASE Parent(i) # Null
  <2>1. Leads(Line[Parent(i)], Parent(i))
    BY <1>3
  <2>l. PICK l \in Seq(Objects) : l = Line[Parent(i)] /\ Leads(l, Parent(i))
    BY <2>1 DEF Leads
  <2>n. PICK n \in Nat \ {0} : n = Len(l)
    BY <2>l DEF Leads
  <2>2. Line[i] = Append(l, i) /\ Line[i] \in Seq(Objects)
    BY <1>1, <1>3, <2>l DEF LineStep
  <2>3. /\ Len(Line[i]) = n + 1 /\ Line[i][n + 1] = i
        /\ \A k \in 1..n : Line[i][k] = l[k]
    BY <2>2, <2>n, AppendProperties
  <2>4. l[n] = Parent(i) /\ Parent(l[1]) = Null
        /\ \A k \in 1..n - 1 : Parent(l[k + 1]) = l[k]
    BY <2>l, <2>n DEF Leads
  <2>5. ASSUME NEW k \in 1..n
        PROVE  Parent(Line[i][k + 1]) = Line[i][k]
    <3>1. CASE k = n
      BY <2>3, <2>4, <3>1
    <3>2. CASE k # n
      <4>1. k \in 1..n - 1 /\ k + 1 \in 1..n
        BY <3>2
      <4> QED
        BY <2>3, <2>4, <4>1
    <3> QED
      BY <3>1, <3>2
  <2>6. 1 \in 1..n
    OBVIOUS
  <2> QED
    BY <2>2, <2>3, <2>4, <2>5, <2>6 DEF Leads
<1> QED
  BY <1>2, <1>3

LEMMA LineLeads ==
    ASSUME TreeTypeOK, NEW i \in Objects
    PROVE  Leads(Line[i], i)
<1>n. PICK N \in Nat : N = Len(scene.class) /\ Objects = 1..N
  BY TreeFacts
<1>S. PICK S : S = {n \in 0..N : \A j \in 1..n : Leads(Line[j], j)}
  OBVIOUS
<1>1. 0 \in S
  BY <1>S
<1>2. ASSUME NEW n \in 0..N - 1, n \in S
      PROVE  n + 1 \in S
  <2>1. n + 1 \in 0..N /\ n + 1 \in 1..N /\ n + 1 \in Objects
    BY <1>n
  <2>2. Parent(n + 1) = Null \/ Parent(n + 1) \in 1..n
    <3>1. Parent(n + 1) \in Nat /\ Parent(n + 1) < n + 1
      BY <2>1, TreeFacts
    <3> QED
      BY <3>1 DEF Null
  <2>3. Parent(n + 1) = Null \/ Leads(Line[Parent(n + 1)], Parent(n + 1))
    BY <1>S, <1>2, <2>2
  <2>j. PICK j \in Objects : j = n + 1
    BY <2>1
  <2>4. Leads(Line[j], j)
    BY <2>3, <2>j, LineGrows
  <2>5. \A m \in 1..n + 1 : m \in 1..n \/ m = n + 1
    OBVIOUS
  <2> QED
    BY <1>S, <1>2, <2>1, <2>4, <2>5, <2>j
<1>3. \A n \in 0..N : n \in S
  BY <1>1, <1>2, UpTo
<1>4. N \in 0..N
  OBVIOUS
<1> QED
  BY <1>n, <1>S, <1>3, <1>4

-----------------------------------------------------------------------------
(* Usable widgets, and the order of siblings *)

\* The definition of Usable is met.
LEMMA UsableSteps ==
    ASSUME TreeTypeOK, NEW i \in Objects
    PROVE  Usable[i] = (i \in alive \cap shown /\ (IsWindow(i) \/ Usable[Parent(i)]))
<1>n. PICK N \in Nat : N = Len(scene.class) /\ Objects = 1..N
  BY TreeFacts
<1>a. PICK a \in BOOLEAN : a = TRUE
  OBVIOUS
<1>1. PICK F \in [(1..N) \X BOOLEAN -> BOOLEAN] :
          \A j \in 1..N, v \in BOOLEAN :
              F[<<j, v>>] = (j \in alive \cap shown /\ (IsWindow(j) \/ v))
  <2> DEFINE G == [x \in (1..N) \X BOOLEAN |->
                       x[1] \in alive \cap shown /\ (IsWindow(x[1]) \/ x[2])]
  <2>1. G \in [(1..N) \X BOOLEAN -> BOOLEAN]
    OBVIOUS
  <2>2. \A j \in 1..N, v \in BOOLEAN :
            G[<<j, v>>] = (j \in alive \cap shown /\ (IsWindow(j) \/ v))
    OBVIOUS
  <2> QED
    BY <2>1, <2>2
<1>2. PICK p \in [1..N -> Nat] : \A j \in 1..N : p[j] = Parent(j)
  <2>1. [j \in 1..N |-> Parent(j)] \in [1..N -> Nat]
    BY <1>n, TreeFacts
  <2> QED
    BY <2>1
<1>p. \A j \in 1..N : Parent(j) = Null \/ Parent(j) \in 1..N
  BY <1>n, TreeFacts
<1>V. PICK V : V = BOOLEAN
  OBVIOUS
<1>3. PICK g \in [0..N -> V] : Solves(g, N, a, F, p)
  <2>1. Earlier(p, N)
    BY <1>n, <1>2, TreeFacts DEF Earlier
  <2>2. a \in V /\ F \in [(1..N) \X V -> V]
    BY <1>V
  <2> QED
    BY <2>1, <2>2, RecursionExists
<1>4. PICK h : h = [j \in 1..N |-> g[j]]
  OBVIOUS
<1>5. ASSUME NEW j \in 1..N
      PROVE  h[j] = (j \in alive \cap shown /\ (IsWindow(j) \/ h[Parent(j)]))
  <2>1. p[j] = Parent(j) /\ Parent(j) \in 0..N /\ j \in 0..N
    BY <1>2, <1>p DEF Null
  <2>2. g[j] = F[<<j, g[Parent(j)]>>]
    BY <1>3, <2>1 DEF Solves
  <2>3. g[Parent(j)] \in BOOLEAN
    BY <1>V, <2>1
  <2>4. g[j] = (j \in alive \cap shown /\ (IsWindow(j) \/ g[Parent(j)]))
    BY <1>1, <2>2, <2>3, Zenon
  <2>5. CASE Parent(j) = Null
    <3>1. IsWindow(j)
      BY <2>5 DEF IsWindow
    <3> QED
      BY <1>4, <2>4, <3>1
  <2>6. CASE Parent(j) # Null
    <3>1. h[Parent(j)] = g[Parent(j)]
      BY <1>4, <1>p, <2>6
    <3> QED
      BY <1>4, <2>4, <2>6, <3>1
  <2> QED
    BY <2>5, <2>6
<1>6. h = [j \in Objects |-> j \in alive \cap shown /\ (IsWindow(j) \/ h[Parent(j)])]
  <2>1. h = [j \in 1..N |-> h[j]]
    BY <1>4
  <2> QED
    BY <1>n, <1>5, <2>1
<1>7. Usable = [j \in Objects |-> j \in alive \cap shown /\ (IsWindow(j) \/ Usable[Parent(j)])]
  BY <1>6 DEF Usable
<1> QED
  BY <1>7

LEMMA UsableIsAlive ==
    ASSUME TreeTypeOK, NEW i \in Objects, Usable[i]
    PROVE  i \in alive /\ i \in Widgets
BY UsableSteps DEF TreeTypeOK

\* No two widgets have one place, and a new one is behind all others.
PlacesDiffer ==
    /\ \A i, j \in Objects : place[i] = place[j] => i = j
    /\ \A i \in Objects : place[i] <= Len(scene.class) + changes

\* A widget does not outlive its parent.
ParentsLive == \A i \in alive : Parent(i) = Null \/ Parent(i) \in alive

TreeInv == PlacesDiffer /\ ParentsLive

LEMMA InitTree ==
    ASSUME TreeInit, TreeTypeOK
    PROVE  TreeInv
<1>n. PICK N \in Nat : N = Len(scene.class) /\ Objects = 1..N
  BY TreeFacts
<1>1. changes = 0 /\ alive = Objects /\ \A i \in Objects : place[i] = i
  BY DEF TreeInit
<1>2. PlacesDiffer
  BY <1>n, <1>1 DEF PlacesDiffer
<1>3. ParentsLive
  BY <1>1, TreeFacts DEF ParentsLive
<1> QED
  BY <1>2, <1>3 DEF TreeInv

\* The widgets in one that is destroyed go with it.
LEMMA ChildrenGo ==
    ASSUME TreeTypeOK, NEW t \in Objects, NEW i \in alive, Parent(i) \in {t} \cup Within(t)
    PROVE  i \in {t} \cup Within(t)
<1>1. i \in Objects /\ Parent(i) \in Objects
  <2>1. alive \subseteq Objects
    BY DEF TreeTypeOK
  <2> QED
    BY <2>1 DEF Within
<1>p. PICK p \in Objects : p = Parent(i)
  BY <1>1
<1>2. p # Null
  BY <1>p, TreeFacts
<1>3. Leads(Line[p], p) /\ LineStep(i)
  BY <1>1, LineLeads, LineSteps
<1>l. PICK l \in Seq(Objects) : l = Line[p]
  BY <1>3 DEF Leads
<1>4. PICK m \in DOMAIN l : l[m] = t
  <2>1. CASE p = t
    <3>1. Len(l) \in 1..Len(l) /\ l[Len(l)] = t
      BY <1>3, <1>l, <2>1 DEF Leads
    <3> QED
      BY <3>1, LenProperties
  <2>2. CASE p \in Within(t)
    BY <1>l, <2>2 DEF Within
  <2> QED
    BY <1>p, <2>1, <2>2
<1>5. Line[i] = Append(l, i)
  BY <1>2, <1>3, <1>l, <1>p DEF LineStep
<1>6. m \in DOMAIN Line[i] /\ Line[i][m] = t
  <2>1. PICK n \in Nat : n = Len(l) /\ DOMAIN l = 1..n
    BY LenProperties
  <2>2. DOMAIN Append(l, i) = 1..n + 1 /\ \A k \in 1..n : Append(l, i)[k] = l[k]
    BY <1>1, <2>1, AppendProperties, LenProperties
  <2> QED
    BY <1>4, <1>5, <2>1, <2>2
<1> QED
  BY <1>6 DEF Within

LEMMA TreeStep ==
    ASSUME TreeTypeOK, TreeInv, AppStep
    PROVE  TreeInv'
<1>n. PICK N \in Nat : N = Len(scene.class) /\ Objects = 1..N
  BY TreeFacts
<1>1. PICK t \in Objects : ShowOrHide(t) \/ Destroy(t) \/ Raise(t)
  BY DEF AppStep
<1>2. scene' = scene /\ changes' = changes + 1 /\ Objects' = Objects
      /\ \A i : Parent(i)' = Parent(i)
  BY <1>1 DEF ShowOrHide, Destroy, Raise, Change, Objects, Parent
<1>3. changes \in Nat /\ place \in [Objects -> Nat] /\ alive \subseteq Objects
  <2>1. scene.changes \in Nat
    BY ScenesAssumption DEF TreeTypeOK
  <2> QED
    BY <2>1 DEF TreeTypeOK
<1>4. PlacesDiffer'
  <2>1. /\ \A i, j \in Objects : place[i] = place[j] => i = j
        /\ \A i \in Objects : place[i] <= N + changes /\ place[i] \in Nat
    BY <1>n, <1>3 DEF TreeInv, PlacesDiffer
  <2>2. CASE place' = place
    <3>1. \A i \in Objects : place'[i] <= N + (changes + 1)
      BY <1>3, <2>1, <2>2
    <3>2. \A i, j \in Objects : place'[i] = place'[j] => i = j
      BY <2>1, <2>2, Zenon
    <3> QED
      BY <1>n, <1>2, <3>1, <3>2, Zenon DEF PlacesDiffer
  <2>3. CASE place' = [place EXCEPT ![t] = N + changes + 1]
    <3>1. \A i \in Objects : place'[i] = IF i = t THEN N + changes + 1 ELSE place[i]
      BY <1>3, <2>3
    <3>2. \A i, j \in Objects : place'[i] = place'[j] => i = j
      BY <1>3, <2>1, <3>1
    <3>3. \A i \in Objects : place'[i] <= N + (changes + 1)
      BY <1>3, <2>1, <3>1
    <3> QED
      BY <1>n, <1>2, <3>2, <3>3, Zenon DEF PlacesDiffer
  <2> QED
    BY <1>n, <1>1, <2>2, <2>3 DEF ShowOrHide, Destroy, Raise
<1>5. ParentsLive'
  <2>1. CASE alive' = alive
    BY <1>2, <2>1 DEF TreeInv, ParentsLive
  <2>2. CASE alive' = alive \ ({t} \cup Within(t))
    <3>1. ASSUME NEW i \in alive', Parent(i) # Null
          PROVE  Parent(i) \in alive'
      <4>1. i \in alive /\ i \notin {t} \cup Within(t)
        BY <2>2
      <4>2. Parent(i) \in alive
        BY <3>1, <4>1 DEF TreeInv, ParentsLive
      <4>3. Parent(i) \notin {t} \cup Within(t)
        BY <4>1, ChildrenGo
      <4> QED
        BY <2>2, <4>2, <4>3
    <3> QED
      BY <1>2, <3>1 DEF ParentsLive, Null
  <2> QED
    BY <1>1, <2>1, <2>2 DEF ShowOrHide, Destroy, Raise
<1> QED
  BY <1>4, <1>5 DEF TreeInv

-----------------------------------------------------------------------------
(* The name of a widget whose line has plain names *)

\* Any element that a name may have
Elements == Piece \cup {OfClass(Class(i), NumAmongOthersWithTheSameClass(i)) : i \in Objects}

LEMMA IdIsSeq ==
    ASSUME TreeTypeOK, NEW i \in Objects
    PROVE  QtObjectId(i) \in Seq(Elements)
<1>1. CASE Name(i) # NoName
  <2>1. QtObjectId(i) \in Seq(Piece)
    BY <1>1, NameFacts DEF QtObjectId
  <2>2. Piece \subseteq Elements
    BY DEF Elements
  <2>n. PICK n \in Nat : QtObjectId(i) \in [1..n -> Piece]
    BY <2>1, SeqDef
  <2>3. QtObjectId(i) \in [1..n -> Elements]
    BY <2>2, <2>n
  <2> QED
    BY <2>3, SeqDef
<1>2. CASE Name(i) = NoName
  <2>x. PICK x \in Elements : x = OfClass(Class(i), NumAmongOthersWithTheSameClass(i))
    BY DEF Elements
  <2>1. QtObjectId(i) = <<x>>
    BY <1>2, <2>x DEF QtObjectId
  <2> QED
    BY <2>1
<1> QED
  BY <1>1, <1>2

\* The definition of FullId is met.
IdStep(i) ==
    /\ FullId[i] \in Seq(Elements)
    /\ FullId[i] = IF Parent(i) = Null THEN QtObjectId(i)
                   ELSE FullId[Parent(i)] \o QtObjectId(i)

LEMMA IdSteps ==
    ASSUME TreeTypeOK
    PROVE  \A i \in Objects : IdStep(i)
<1>n. PICK N \in Nat : N = Len(scene.class) /\ Objects = 1..N
  BY TreeFacts
<1>E. PICK E : E = Elements
  OBVIOUS
<1>V. PICK V : V = Seq(E)
  OBVIOUS
<1>a. PICK a \in V : a = <<>>
  BY <1>V, EmptySeq
<1>q. PICK q \in [1..N -> V] : \A i \in 1..N : q[i] = QtObjectId(i)
  <2>1. [i \in 1..N |-> QtObjectId(i)] \in [1..N -> V]
    BY <1>n, <1>V, <1>E, IdIsSeq
  <2> QED
    BY <2>1
<1>f. \A i \in 1..N, v \in V : v \o q[i] \in V
  <2>1. \A v, u \in V : v \o u \in V
    BY <1>V, ConcatProperties
  <2> QED
    BY <2>1
<1>1. PICK F \in [(1..N) \X V -> V] : \A i \in 1..N, v \in V : F[<<i, v>>] = v \o q[i]
  <2> DEFINE G == [x \in (1..N) \X V |-> x[2] \o q[x[1]]]
  <2>1. G \in [(1..N) \X V -> V]
    BY <1>f
  <2>2. \A i \in 1..N, v \in V : G[<<i, v>>] = v \o q[i]
    OBVIOUS
  <2> QED
    BY <2>1, <2>2
<1>2. PICK p \in [1..N -> Nat] : \A i \in 1..N : p[i] = Parent(i)
  <2>1. [i \in 1..N |-> Parent(i)] \in [1..N -> Nat]
    BY <1>n, TreeFacts
  <2> QED
    BY <2>1
<1>p. \A i \in 1..N : Parent(i) = Null \/ Parent(i) \in 1..N
  BY <1>n, TreeFacts
<1>3. PICK g \in [0..N -> V] : Solves(g, N, a, F, p)
  <2>1. Earlier(p, N)
    BY <1>n, <1>2, TreeFacts DEF Earlier
  <2> QED
    BY <2>1, RecursionExists
<1>4. PICK h : h = [i \in 1..N |-> g[i]]
  OBVIOUS
<1>5. ASSUME NEW i \in 1..N
      PROVE  h[i] = IF Parent(i) = Null THEN QtObjectId(i) ELSE h[Parent(i)] \o QtObjectId(i)
  <2>1. p[i] = Parent(i) /\ Parent(i) \in 0..N /\ i \in 0..N
    BY <1>2, <1>p DEF Null
  <2>2. g[i] = F[<<i, g[Parent(i)]>>]
    BY <1>3, <2>1 DEF Solves
  <2>3. g[Parent(i)] \in V
    BY <2>1
  <2>4. g[i] = g[Parent(i)] \o q[i]
    BY <1>1, <2>2, <2>3, Zenon
  <2>5. CASE Parent(i) = Null
    <3>1. g[Parent(i)] = <<>>
      BY <1>3, <1>a, <2>5 DEF Solves, Null
    <3>2. <<>> \o q[i] = q[i]
      <4>1. q[i] \in Seq(E)
        BY <1>V
      <4> QED
        BY <4>1, ConcatEmptySeq
    <3> QED
      BY <1>4, <1>q, <2>4, <2>5, <3>1, <3>2
  <2>6. CASE Parent(i) # Null
    <3>1. h[Parent(i)] = g[Parent(i)]
      BY <1>4, <1>p, <2>6
    <3> QED
      BY <1>4, <1>q, <2>4, <2>6, <3>1
  <2> QED
    BY <2>5, <2>6
<1>6. h = [i \in Objects |-> IF Parent(i) = Null THEN QtObjectId(i)
                             ELSE h[Parent(i)] \o QtObjectId(i)]
  <2>1. h = [i \in 1..N |-> h[i]]
    BY <1>4
  <2> QED
    BY <1>n, <1>5, <2>1
<1>7. FullId = [i \in Objects |-> IF Parent(i) = Null THEN QtObjectId(i)
                                  ELSE FullId[Parent(i)] \o QtObjectId(i)]
  BY <1>6 DEF FullId
<1>8. \A i \in 1..N : FullId[i] = IF Parent(i) = Null THEN QtObjectId(i)
                                  ELSE FullId[Parent(i)] \o QtObjectId(i)
  BY <1>n, <1>7
<1>S. PICK S : S = {n \in 0..N : \A i \in 1..n : FullId[i] \in V}
  OBVIOUS
<1>9. 0 \in S
  BY <1>S
<1>10. ASSUME NEW n \in 0..N - 1, n \in S
       PROVE  n + 1 \in S
  <2>j. PICK j \in 1..N : j = n + 1
    OBVIOUS
  <2>1. j \in 0..N /\ QtObjectId(j) \in V
    BY <1>q
  <2>2. FullId[j] \in V
    <3>1. CASE Parent(j) = Null
      BY <1>8, <2>1, <3>1
    <3>2. CASE Parent(j) # Null
      <4>1. Parent(j) \in 1..n
        <5>1. Parent(j) \in 1..N /\ Parent(j) < j
          BY <1>n, <1>p, <3>2, TreeFacts
        <5> QED
          BY <2>j, <5>1
      <4>2. FullId[Parent(j)] \in V
        BY <1>S, <1>10, <4>1
      <4>3. FullId[Parent(j)] \o q[j] \in V
        BY <1>f, <4>2
      <4> QED
        BY <1>8, <1>q, <3>2, <4>3
    <3> QED
      BY <3>1, <3>2
  <2>3. \A i \in 1..n + 1 : i \in 1..n \/ i = n + 1
    OBVIOUS
  <2> QED
    BY <1>S, <1>10, <2>j, <2>1, <2>2, <2>3
<1>11. \A n \in 0..N : n \in S
  BY <1>9, <1>10, UpTo
<1>12. \A i \in 1..N : FullId[i] \in V
  <2>1. N \in 0..N
    OBVIOUS
  <2> QED
    BY <1>S, <1>11, <2>1
<1> QED
  BY <1>n, <1>V, <1>E, <1>8, <1>12 DEF IdStep

PlainLine(i) == \A k \in 1..Len(Line[i]) : ~ReadsOtherwise(Line[i][k])

\* The name that is recorded has an element for each object on the line.
Spelled(i) ==
    /\ Len(FullId[i]) = Len(Line[i])
    /\ \A k \in 1..Len(Line[i]) : FullId[i][k] = QtObjectId(Line[i][k])[1]

\* The element that an object without a dot in its name adds
LEMMA OneElement ==
    ASSUME TreeTypeOK, NEW i \in Objects, ~ReadsOtherwise(i)
    PROVE  /\ QtObjectId(i) = <<QtObjectId(i)[1]>>
           /\ Name(i) # NoName => /\ QtObjectId(i) = Name(i) /\ QtObjectId(i)[1].class = NoText
                                  /\ QtObjectId(i)[1].order = 0
           /\ Name(i) = NoName => /\ QtObjectId(i)[1].class = Class(i)
                                  /\ QtObjectId(i)[1].order = NumAmongOthersWithTheSameClass(i)
<1>1. CASE Name(i) # NoName
  <2>1. QtObjectId(i) = Name(i) /\ Len(Name(i)) = 1 /\ Name(i)[1].class = NoText
    BY <1>1 DEF ReadsOtherwise, QtObjectId
  <2>2. Name(i) \in Seq(Piece) /\ DOMAIN Name(i) = 1..1
    BY <2>1, NameFacts, LenProperties
  <2>3. Name(i) = <<Name(i)[1]>>
    BY <2>1, <2>2
  <2>4. 1 \in DOMAIN Name(i)
    BY <2>2
  <2>5. Name(i)[1].order = 0
    BY <2>1, <2>4, NameFacts
  <2> QED
    BY <1>1, <2>1, <2>3, <2>5
<1>2. CASE Name(i) = NoName
  BY <1>2 DEF QtObjectId, OfClass
<1> QED
  BY <1>1, <1>2

LEMMA SpelledOn ==
    ASSUME TreeTypeOK, NEW i \in Objects, PlainLine(i),
           Parent(i) # Null /\ PlainLine(Parent(i)) => Spelled(Parent(i))
    PROVE  Spelled(i)
<1>1. LineStep(i) /\ IdStep(i)
  BY LineSteps, IdSteps
<1>l. PICK l \in Seq(Objects) : l = Line[i] /\ Leads(l, i)
  BY LineLeads DEF Leads
<1>m. PICK m \in Nat \ {0} : m = Len(l)
  BY <1>l DEF Leads
<1>2. ~ReadsOtherwise(i)
  <2>1. m \in 1..m /\ l[m] = i
    BY <1>l, <1>m DEF Leads
  <2> QED
    BY <1>l, <1>m, <2>1 DEF PlainLine
<1>x. PICK x \in Elements : x = QtObjectId(i)[1] /\ QtObjectId(i) = <<x>>
  <2>1. QtObjectId(i) = <<QtObjectId(i)[1]>>
    BY <1>2, OneElement
  <2>2. QtObjectId(i) \in Seq(Elements)
    BY IdIsSeq
  <2>3. Len(QtObjectId(i)) = 1
    BY <2>1
  <2>4. QtObjectId(i)[1] \in Elements
    BY <2>2, <2>3, ElementOfSeq
  <2> QED
    BY <2>1, <2>4
<1>3. CASE Parent(i) = Null
  <2>1. Line[i] = <<i>> /\ FullId[i] = <<x>>
    BY <1>1, <1>3, <1>x DEF LineStep, IdStep
  <2> QED
    BY <1>x, <2>1 DEF Spelled
<1>4. CASE Parent(i) # Null
  <2>p. PICK q \in Objects : q = Parent(i)
    BY <1>4, TreeFacts
  <2>k. PICK k \in Seq(Objects) : k = Line[q] /\ Leads(k, q)
    BY LineLeads DEF Leads
  <2>n. PICK n \in Nat : n = Len(k)
    BY <2>k DEF Leads
  <2>1. l = Append(k, i)
    BY <1>1, <1>4, <1>l, <2>p, <2>k DEF LineStep
  <2>2. Len(l) = n + 1 /\ l[n + 1] = i /\ \A j \in 1..n : l[j] = k[j]
    BY <2>1, <2>n, AppendProperties
  <2>3. PlainLine(q)
    <3>1. \A j \in 1..n : ~ReadsOtherwise(k[j])
      BY <1>l, <2>2 DEF PlainLine
    <3> QED
      BY <2>k, <2>n, <3>1 DEF PlainLine
  <2>4. Spelled(q)
    BY <1>4, <2>3, <2>p
  <2>f. PICK f \in Seq(Elements) : f = FullId[q]
    <3>1. IdStep(q)
      BY IdSteps
    <3> QED
      BY <3>1 DEF IdStep
  <2>5. Len(f) = n /\ \A j \in 1..n : f[j] = QtObjectId(k[j])[1]
    BY <2>4, <2>k, <2>n, <2>f DEF Spelled
  <2>6. FullId[i] = f \o <<x>>
    BY <1>1, <1>4, <1>x, <2>p, <2>f DEF IdStep
  <2>7. Len(f \o <<x>>) = n + 1 /\ (f \o <<x>>)[n + 1] = x
        /\ \A j \in 1..n : (f \o <<x>>)[j] = f[j]
    <3>1. <<x>> \in Seq(Elements) /\ Len(<<x>>) = 1 /\ <<x>>[1] = x
      OBVIOUS
    <3>2. f \o <<x>> = Append(f, x)
      BY AppendIsConcat
    <3> QED
      BY <2>5, <3>2, AppendProperties
  <2>8. ASSUME NEW j \in 1..n + 1
        PROVE  FullId[i][j] = QtObjectId(l[j])[1]
    <3>1. CASE j = n + 1
      BY <1>x, <2>2, <2>6, <2>7, <3>1
    <3>2. CASE j # n + 1
      <4>1. j \in 1..n
        BY <3>2
      <4> QED
        BY <2>2, <2>5, <2>6, <2>7, <4>1
    <3> QED
      BY <3>1, <3>2
  <2> QED
    BY <1>l, <2>2, <2>6, <2>7, <2>8 DEF Spelled
<1> QED
  BY <1>3, <1>4

LEMMA NameElements ==
    ASSUME TreeTypeOK, NEW i \in Objects, PlainLine(i)
    PROVE  Spelled(i)
<1>n. PICK N \in Nat : N = Len(scene.class) /\ Objects = 1..N
  BY TreeFacts
<1>S. PICK S : S = {n \in 0..N : \A j \in 1..n : PlainLine(j) => Spelled(j)}
  OBVIOUS
<1>1. 0 \in S
  BY <1>S
<1>2. ASSUME NEW n \in 0..N - 1, n \in S
      PROVE  n + 1 \in S
  <2>j. PICK j \in Objects : j = n + 1
    BY <1>n
  <2>1. n + 1 \in 0..N
    OBVIOUS
  <2>2. Parent(j) = Null \/ Parent(j) \in 1..n
    <3>1. Parent(j) \in Nat /\ Parent(j) < n + 1
      BY <2>j, TreeFacts
    <3> QED
      BY <3>1 DEF Null
  <2>3. Parent(j) # Null /\ PlainLine(Parent(j)) => Spelled(Parent(j))
    BY <1>S, <1>2, <2>2
  <2>4. PlainLine(j) => Spelled(j)
    BY <2>3, SpelledOn
  <2>5. \A m \in 1..n + 1 : m \in 1..n \/ m = n + 1
    OBVIOUS
  <2> QED
    BY <1>S, <1>2, <2>1, <2>4, <2>5, <2>j
<1>3. \A n \in 0..N : n \in S
  BY <1>1, <1>2, UpTo
<1>4. N \in 0..N
  OBVIOUS
<1> QED
  BY <1>n, <1>S, <1>3, <1>4

-----------------------------------------------------------------------------
(* A name that is not misleading is looked up *)

\* The outermost widget is found.
LEMMA OutermostFound ==
    ASSUME TreeTypeOK, NEW r \in alive \cap Widgets, Parent(r) = Null, ~Misleading(r)
    PROVE  FindOutermost(QtObjectId(r)[1], TRUE) = {r}
<1>1. r \in Objects /\ Class(r) # NoText /\ r \in Windows
  BY TreeFacts DEF TreeTypeOK, IsWindow, Windows
<1>2. ~ReadsOtherwise(r) /\ ~OutermostTaken(r) /\ ~(Name(r) = NoName /\ ~Usable[r])
  BY DEF Misleading
<1>el. PICK el : el = QtObjectId(r)[1] /\ QtObjectId(r) = <<el>>
  BY <1>1, <1>2, OneElement
<1>3. ASSUME NEW c \in NamedOutermost(el), c # r
      PROVE  FALSE
  <2>1. /\ c \in alive /\ Name(c) = <<el>>
        /\ \/ Line[c][1] \notin Widgets \/ c \in Windows
           \/ \E t \in Windows : Name(t) # <<el>> /\ c \in Within(t)
    <3>1. \A t \in Windows : t \in alive
      BY DEF Windows
    <3> QED
      BY <1>3, <3>1 DEF NamedOutermost
  <2> QED
    BY <1>2, <1>3, <1>el, <2>1 DEF OutermostTaken
<1>4. CASE Name(r) # NoName
  <2>1. Name(r) = <<el>>
    BY <1>1, <1>2, <1>4, <1>el, OneElement
  <2>2. Line[r][1] \in Widgets
    <3>1. LineStep(r)
      BY <1>1, LineSteps
    <3>2. Line[r] = <<r>>
      BY <3>1 DEF LineStep
    <3> QED
      BY <3>2
  <2>3. r \in NamedOutermost(el)
    <3> DEFINE Named == {i \in alive : Name(i) = <<el>>}
               OfApp == {i \in Named : Line[i][1] \notin Widgets}
    <3>1. OfApp = {}
      <4>1. OfApp # {} => NamedOutermost(el) = OfApp
        BY Zenon DEF NamedOutermost
      <4>2. r \notin OfApp
        BY <2>2
      <4> QED
        BY <1>3, <4>1, <4>2
    <3>2. NamedOutermost(el) = (Named \cap Windows)
              \cup {i \in Named : \E t \in Windows \ Named : i \in Within(t)}
      BY <3>1, Zenon DEF NamedOutermost
    <3> QED
      BY <1>1, <2>1, <3>2
  <2>4. NamedOutermost(el) = {r}
    BY <1>3, <2>3
  <2> QED
    BY <1>el, <2>4 DEF FindOutermost
<1>5. CASE Name(r) = NoName
  <2>1. el.class = Class(r) /\ el.order = 0
    <3>1. NumAmongOthersWithTheSameClass(r) = 0
      BY DEF NumAmongOthersWithTheSameClass
    <3> QED
      BY <1>1, <1>2, <1>5, <1>el, <3>1, OneElement
  <2>2. Name(r) # <<el>>
    BY <1>1, <1>5, <2>1 DEF NoName, Plain
  <2>3. NamedOutermost(el) = {}
    <3>1. r \notin NamedOutermost(el)
      BY <2>2 DEF NamedOutermost
    <3> QED
      BY <1>3, <3>1
  <2>4. FindOutermost(el, TRUE) = BruteForceWidgetSearch(el, TRUE)
    BY <2>1, <2>3 DEF FindOutermost
  <2>5. Usable[r] /\ Stands(el, r)
    BY <1>1, <1>2, <1>5, <2>1 DEF Stands
  <2>6. \A c \in alive \ {r} : ~(Stands(el, c) /\ Usable[c])
    BY <1>2, <1>5, <1>el DEF OutermostTaken
  <2>7. {c \in alive \cap Widgets : Stands(el, c) /\ (TRUE => Usable[c])} = {r}
    BY <2>5, <2>6
  <2>8. BruteForceWidgetSearch(el, TRUE) = {r}
    BY <2>7 DEF BruteForceWidgetSearch, OrNull
  <2> QED
    BY <1>el, <2>4, <2>8
<1> QED
  BY <1>4, <1>5

LEMMA ObjectsFinite ==
    ASSUME TreeTypeOK, NEW S \in SUBSET Objects
    PROVE  IsFiniteSet(S) /\ Cardinality(S) \in Nat
<1>n. PICK N \in Nat : N = Len(scene.class) /\ Objects = 1..N
  BY TreeFacts
<1>1. IsFiniteSet(1..N)
  BY FS_Interval
<1>2. IsFiniteSet(S)
  BY <1>n, <1>1, FS_Subset
<1> QED
  BY <1>2, FS_CardinalityType

\* A set with one element more is greater.
LEMMA MoreCounted ==
    ASSUME TreeTypeOK, NEW T \in SUBSET Objects, NEW S \in SUBSET T, NEW x \in T, x \notin S
    PROVE  Cardinality(S) # Cardinality(T)
<1>1. IsFiniteSet(T)
  BY ObjectsFinite
<1> QED
  BY <1>1, FS_Subset

\* A child is found in its parent: it has the place among the candidates that
\* it has among the siblings of its class, or is the first of its name.
LEMMA ChildFound ==
    ASSUME TreeTypeOK, PlacesDiffer, NEW x \in alive \cap Widgets, Parent(x) # Null,
           ~Misleading(x)
    PROVE  FindBelow(Parent(x), QtObjectId(x)[1], TRUE) = {x}
<1>1. x \in Objects /\ Class(x) # NoText /\ alive \subseteq Objects
  BY TreeFacts DEF TreeTypeOK
<1>2. ~ReadsOtherwise(x) /\ ~OrderShifted(x) /\ ~NameTaken(x) /\ Usable[x]
  BY DEF Misleading
<1>el. PICK el : el = QtObjectId(x)[1] /\ QtObjectId(x) = <<el>>
  BY <1>1, <1>2, OneElement
<1>C. PICK C : C = Candidates(Parent(x), el, TRUE)
  OBVIOUS
<1>3. C = {c \in alive : Parent(c) = Parent(x) /\ Stands(el, c) /\ Usable[c]}
  BY <1>C DEF Candidates
<1>A. PICK A : A = EarlierSiblings(x) \cap C
  OBVIOUS
<1>4. Cardinality(A) = el.order /\ Stands(el, x)
  <2>1. CASE Name(x) # NoName
    <3>1. el.class = NoText /\ <<el>> = Name(x) /\ el.order = 0
      BY <1>1, <1>2, <1>el, <2>1, OneElement
    <3>2. \A c : Stands(el, c) <=> Name(c) = <<el>>
      BY <3>1 DEF Stands
    <3>3. A = {}
      BY <1>2, <1>3, <1>A, <1>el, <3>2 DEF NameTaken
    <3> QED
      BY <3>1, <3>2, <3>3, FS_EmptySet
  <2>2. CASE Name(x) = NoName
    <3>1. el.class = Class(x) /\ el.order = NumAmongOthersWithTheSameClass(x)
      BY <1>1, <1>2, <1>el, <2>2, OneElement
    <3>2. \A c : Stands(el, c) <=> Class(c) = Class(x) \/ Name(c) = <<el>>
      BY <1>1, <3>1 DEF Stands
    <3>3. A = {c \in EarlierSiblings(x) : Class(c) = Class(x)}
      <4>1. \A c \in A : c \in EarlierSiblings(x) /\ Usable[c] /\ Stands(el, c)
        BY <1>3, <1>A
      <4>2. \A c \in A : Name(c) # <<el>>
        BY <1>2, <1>el, <4>1 DEF NameTaken
      <4>3. \A c \in EarlierSiblings(x) : Class(c) = Class(x) => c \in A
        BY <1>2, <1>3, <1>A, <2>2, <3>2 DEF OrderShifted, EarlierSiblings
      <4> QED
        BY <3>2, <4>1, <4>2, <4>3
    <3>4. NumAmongOthersWithTheSameClass(x) = Cardinality({c \in EarlierSiblings(x) : Class(c) = Class(x)})
      BY DEF NumAmongOthersWithTheSameClass
    <3> QED
      BY <3>1, <3>2, <3>3, <3>4
  <2> QED
    BY <2>1, <2>2
<1>5. x \in C /\ C \subseteq alive /\ C \subseteq Objects
  BY <1>1, <1>2, <1>3, <1>4
<1>6. ASSUME NEW c \in C, c # x
      PROVE  Cardinality(EarlierSiblings(c) \cap C) # Cardinality(A)
  <2>B. PICK B : B = EarlierSiblings(c) \cap C
    OBVIOUS
  <2>1. Parent(c) = Parent(x) /\ c \in alive
    BY <1>3, <1>6
  <2>2. /\ A = {d \in C : Parent(d) = Parent(x) /\ place[d] < place[x]}
        /\ B = {d \in C : Parent(d) = Parent(x) /\ place[d] < place[c]}
    BY <1>5, <1>A, <2>1, <2>B DEF EarlierSiblings
  <2>3. \A d \in C : place[d] \in Nat
    BY <1>5 DEF TreeTypeOK
  <2>4. place[c] # place[x]
    BY <1>1, <1>5, <1>6 DEF PlacesDiffer
  <2>5. CASE place[c] < place[x]
    <3>1. B \subseteq A /\ c \in A /\ c \notin B
      BY <1>5, <1>6, <2>1, <2>2, <2>3, <2>5
    <3>2. A \subseteq Objects
      BY <1>5, <2>2
    <3> QED
      BY <2>B, <3>1, <3>2, MoreCounted
  <2>6. CASE place[x] < place[c]
    <3>1. A \subseteq B /\ x \in B /\ x \notin A
      BY <1>5, <1>6, <2>1, <2>2, <2>3, <2>6
    <3>2. B \subseteq Objects
      BY <1>5, <2>2
    <3> QED
      BY <2>B, <3>1, <3>2, MoreCounted
  <2> QED
    BY <1>5, <1>6, <2>3, <2>4, <2>5, <2>6
<1>7. ChosenChild(Parent(x), el, TRUE) = {x}
  <2>1. ChosenChild(Parent(x), el, TRUE)
          = {c \in C : Cardinality(EarlierSiblings(c) \cap C) = el.order}
    BY <1>C, Zenon DEF ChosenChild
  <2> QED
    BY <1>4, <1>5, <1>6, <1>A, <2>1
<1>8. NullCasts(Parent(x), el) = {}
  <2>1. SUFFICES ASSUME NEW c \in NullCasts(Parent(x), el) PROVE FALSE
    OBVIOUS
  <2>2. c \notin Widgets /\ c \in Objects /\ Stands(el, c) /\ c \in EarlierSiblings(x)
    BY <1>1, <1>7, <2>1 DEF NullCasts
  <2>3. Name(c) # <<el>>
    BY <1>2, <1>el, <2>2 DEF NameTaken
  <2>4. el.class # NoText /\ Class(c) = el.class
    BY <2>2, <2>3 DEF Stands
  <2>5. el.class = Class(x)
    BY <1>1, <1>2, <1>el, <2>4, OneElement
  <2> QED
    BY <2>2, <2>4, <2>5 DEF Widgets
<1> QED
  BY <1>el, <1>7, <1>8 DEF FindBelow

-----------------------------------------------------------------------------
(* The line to a widget is followed *)

\* A set that has the parents of its members has the line to each of them.
LEMMA LineWithin ==
    ASSUME TreeTypeOK, NEW X \in SUBSET Objects, \A x \in X : Parent(x) = Null \/ Parent(x) \in X,
           NEW i \in X, NEW L, NEW n \in Nat, Leads(L, i), n = Len(L)
    PROVE  \A k \in 1..n : L[k] \in X
<1>1. L[n] = i /\ n # 0 /\ \A k \in 1..n - 1 : Parent(L[k + 1]) = L[k]
  BY DEF Leads
<1>2. \A k \in 1..n : L[k] \in Objects
  BY ElementOfSeq DEF Leads
<1>S. PICK S : S = {m \in 0..n - 1 : L[n - m] \in X}
  OBVIOUS
<1>3. 0 \in S
  BY <1>1, <1>S
<1>4. ASSUME NEW m \in 0..(n - 1) - 1, m \in S
      PROVE  m + 1 \in S
  <2>k. PICK k \in 1..n - 1 : k = n - (m + 1)
    <3>1. n - (m + 1) \in 1..n - 1
      BY <1>1, <1>4
    <3> QED
      BY <3>1
  <2>1. n - m = k + 1 /\ k \in 1..n /\ m + 1 \in 0..n - 1
    BY <2>k
  <2>2. L[k + 1] \in X
    BY <1>S, <1>4, <2>1
  <2>3. Parent(L[k + 1]) = L[k]
    BY <1>1
  <2>4. L[k] # Null
    BY <1>2, <2>1, TreeFacts
  <2>5. L[k] \in X
    BY <2>2, <2>3, <2>4
  <2> QED
    BY <1>S, <2>1, <2>5, <2>k
<1>5. n - 1 \in Nat
  BY <1>1
<1>6. \A m \in 0..n - 1 : m \in S
  BY <1>3, <1>4, <1>5, UpTo
<1>7. ASSUME NEW k \in 1..n
      PROVE  L[k] \in X
  <2>1. n - k \in 0..n - 1 /\ n - (n - k) = k
    OBVIOUS
  <2>2. L[n - (n - k)] \in X
    BY <1>6, <1>S, <2>1
  <2> QED
    BY <2>1, <2>2
<1> QED
  BY <1>7

-----------------------------------------------------------------------------
(* Look-ups, element by element *)

Outcomes == alive \cup {Null, Fault}

LEMMA FoundIsOutcome ==
    ASSUME NEW el, NEW sbe
    PROVE  /\ FindOutermost(el, sbe) \subseteq Outcomes
           /\ \A found : FindNext(found, el, sbe) \subseteq Outcomes
<1>1. BruteForceWidgetSearch(el, sbe) \subseteq Outcomes
  BY DEF BruteForceWidgetSearch, OrNull, Outcomes
<1>2. NamedOutermost(el) \subseteq alive
  BY DEF NamedOutermost
<1>3. FindOutermost(el, sbe) \subseteq Outcomes
  BY <1>1, <1>2 DEF FindOutermost, Outcomes
<1>4. \A v : FindBelow(v, el, sbe) \subseteq Outcomes
  BY <1>1 DEF FindBelow, ChosenChild, Candidates, Outcomes
<1>5. \A found : FindNext(found, el, sbe) \subseteq Outcomes
  BY <1>4 DEF FindNext, Outcomes
<1> QED
  BY <1>3, <1>5

\* What is found for the elements of a name, one after the other
Traces(g, names, n, sbe) ==
    /\ g[1] = FindOutermost(names[1], sbe)
    /\ \A k \in 1..n - 1 : g[k + 1] = FindNext(g[k], names[k + 1], sbe)
    /\ \A k \in 1..n : g[k] \subseteq Outcomes

Result(S) == {IF v \in Objects \ Widgets THEN Null ELSE v : v \in S}

LEMMA LookUpTraced ==
    ASSUME NEW n \in Nat \ {0}, NEW names, DOMAIN names = 1..n, Len(names) = n, NEW sbe
    PROVE  \E g : Traces(g, names, n, sbe) /\ DoGetWidgetWithSuchName(names, sbe) = Result(g[n])
<1> DEFINE u == CHOOSE f : f = [k \in DOMAIN names |->
                    IF k = 1 THEN FindOutermost(names[1], sbe)
                    ELSE FindNext(f[k - 1], names[k], sbe)]
<1>V. PICK V : V = SUBSET Outcomes
  OBVIOUS
<1>a. PICK a \in V : a = {}
  BY <1>V
<1>1. PICK F \in [(1..n) \X V -> V] : \A k \in 1..n, v \in V :
          F[<<k, v>>] = IF k = 1 THEN FindOutermost(names[1], sbe) ELSE FindNext(v, names[k], sbe)
  <2> DEFINE G == [x \in (1..n) \X V |-> IF x[1] = 1 THEN FindOutermost(names[1], sbe)
                                         ELSE FindNext(x[2], names[x[1]], sbe)]
  <2>1. \A x \in (1..n) \X V : G[x] \in V
    BY <1>V, FoundIsOutcome
  <2>2. G \in [(1..n) \X V -> V]
    BY <2>1
  <2>3. \A k \in 1..n, v \in V :
          G[<<k, v>>] = IF k = 1 THEN FindOutermost(names[1], sbe) ELSE FindNext(v, names[k], sbe)
    OBVIOUS
  <2> QED
    BY <2>2, <2>3
<1>2. PICK p \in [1..n -> Nat] : \A k \in 1..n : p[k] = k - 1
  <2>1. [k \in 1..n |-> k - 1] \in [1..n -> Nat]
    OBVIOUS
  <2> QED
    BY <2>1
<1>3. PICK g \in [0..n -> V] : Solves(g, n, a, F, p)
  <2>1. Earlier(p, n)
    BY <1>2 DEF Earlier
  <2> QED
    BY <2>1, RecursionExists
<1>4. PICK h : h = [k \in 1..n |-> g[k]]
  OBVIOUS
<1>5. ASSUME NEW k \in 1..n
      PROVE  h[k] \in V /\ h[k] = IF k = 1 THEN FindOutermost(names[1], sbe)
                                  ELSE FindNext(h[k - 1], names[k], sbe)
  <2>1. p[k] = k - 1 /\ k - 1 \in 0..n /\ k \in 0..n
    BY <1>2
  <2>2. g[k] = F[<<k, g[k - 1]>>] /\ g[k - 1] \in V /\ g[k] \in V
    BY <1>3, <2>1 DEF Solves
  <2>3. g[k] = IF k = 1 THEN FindOutermost(names[1], sbe) ELSE FindNext(g[k - 1], names[k], sbe)
    BY <1>1, <2>2, Zenon
  <2>4. k # 1 => h[k - 1] = g[k - 1]
    BY <1>4, <2>1
  <2> QED
    BY <1>4, <2>2, <2>3, <2>4
<1>6. h = [k \in DOMAIN names |-> IF k = 1 THEN FindOutermost(names[1], sbe)
                                  ELSE FindNext(h[k - 1], names[k], sbe)]
  <2>1. h = [k \in 1..n |-> h[k]]
    BY <1>4
  <2> QED
    BY <1>5, <2>1
<1>7. u = [k \in DOMAIN names |-> IF k = 1 THEN FindOutermost(names[1], sbe)
                                  ELSE FindNext(u[k - 1], names[k], sbe)]
  BY <1>6
<1>8. DoGetWidgetWithSuchName(names, sbe) = Result(u[n])
  BY DEF DoGetWidgetWithSuchName, Result
<1> HIDE DEF u
<1>9. u[1] = FindOutermost(names[1], sbe)
  <2>1. 1 \in 1..n
    OBVIOUS
  <2> QED
    BY <1>7, <2>1
<1>10. ASSUME NEW k \in 1..n - 1
       PROVE  u[k + 1] = FindNext(u[k], names[k + 1], sbe)
  <2>j. PICK j \in 1..n : j = k + 1 /\ j # 1 /\ j - 1 = k
    OBVIOUS
  <2>1. u[j] = FindNext(u[j - 1], names[j], sbe)
    BY <1>7, <2>j
  <2> QED
    BY <2>1, <2>j
<1>11. ASSUME NEW k \in 1..n
       PROVE  u[k] \subseteq Outcomes
  <2>1. CASE k = 1
    BY <1>9, <2>1, FoundIsOutcome
  <2>2. CASE k # 1
    <3>el. PICK el : el = names[k]
      OBVIOUS
    <3>1. u[k] = FindNext(u[k - 1], el, sbe)
      BY <1>7, <2>2, <3>el
    <3>2. \A found : FindNext(found, el, sbe) \subseteq Outcomes
      BY FoundIsOutcome
    <3> QED
      BY <3>1, <3>2
  <2> QED
    BY <2>1, <2>2
<1> QED
  BY <1>8, <1>9, <1>10, <1>11 DEF Traces

\* A name that is a sequence of elements
IsName(names) == \E n \in Nat \ {0} : DOMAIN names = 1..n /\ Len(names) = n

\* A look-up finds nothing, a widget that is alive, or a fault.
LEMMA FoundIsAlive ==
    ASSUME TreeTypeOK, NEW names, IsName(names), NEW sbe
    PROVE  DoGetWidgetWithSuchName(names, sbe) \subseteq (alive \cap Widgets) \cup {Null, Fault}
<1>n. PICK n \in Nat \ {0} : DOMAIN names = 1..n /\ Len(names) = n
  BY DEF IsName
<1>g. PICK g : Traces(g, names, n, sbe) /\ DoGetWidgetWithSuchName(names, sbe) = Result(g[n])
  BY <1>n, LookUpTraced
<1>1. g[n] \subseteq Outcomes
  <2>1. n \in 1..n
    OBVIOUS
  <2> QED
    BY <1>g, <2>1 DEF Traces
<1> QED
  BY <1>g, <1>1 DEF Result, Outcomes, TreeTypeOK

\* Does an element of the name stand for an object that is no widget?
NoWidgetNamed(names) ==
    \E k \in DOMAIN names, c \in alive \ Widgets : Stands(names[k], c)

\* What comes before a fault in a look-up
LEMMA FaultInNext ==
    ASSUME TreeTypeOK, NEW S, NEW el, NEW sbe,
           \A v \in S : v # Fault /\ (v \in alive => v \in Widgets), S \subseteq Outcomes,
           Fault \in FindNext(S, el, sbe)
    PROVE  \E c \in alive \ Widgets : Stands(el, c)
<1>1. Fault \notin Objects /\ Fault # Null /\ alive \subseteq Objects
  BY ObjectsAreCounted DEF TreeTypeOK, Fault, Null
<1>2. \A v \in S : v = Null \/ v \in Widgets
  BY DEF Outcomes
<1>3. PICK v \in S : v \in Widgets /\ Fault \in FindBelow(v, el, sbe)
  <2>1. PICK v \in S : Fault \in (CASE v = Null -> {Null}
                                    [] v \in Widgets -> FindBelow(v, el, sbe)
                                    [] v # Null /\ v \notin Widgets -> {Fault})
    BY DEF FindNext
  <2>2. v # Null
    <3>1. Null \notin Widgets
      BY TreeFacts DEF Widgets
    <3>2. v = Null => Fault \in {Null}
      BY <2>1, <3>1
    <3> QED
      BY <1>1, <3>2
  <2> QED
    BY <1>2, <2>1, <2>2
<1>4. Fault \notin BruteForceWidgetSearch(el, sbe) /\ Fault \notin ChosenChild(v, el, sbe)
  BY <1>1 DEF BruteForceWidgetSearch, OrNull, ChosenChild, Candidates
<1>5. NullCasts(v, el) # {}
  BY <1>3, <1>4 DEF FindBelow
<1> QED
  BY <1>5 DEF NullCasts

\* Something that is no widget is found only for an element that stands for it.
LEMMA OtherInNext ==
    ASSUME TreeTypeOK, NEW S, NEW el, NEW sbe, NEW c \in alive \ Widgets, c \in FindNext(S, el, sbe)
    PROVE  Stands(el, c)
<1>1. Fault \notin alive /\ Null \notin alive
  BY ObjectsAreCounted DEF TreeTypeOK, Fault, Null
<1>2. PICK v \in S : c \in FindBelow(v, el, sbe)
  BY <1>1 DEF FindNext
<1>3. c \notin BruteForceWidgetSearch(el, sbe)
  BY <1>1 DEF BruteForceWidgetSearch, OrNull
<1>4. c \in ChosenChild(v, el, sbe)
  BY <1>1, <1>2, <1>3 DEF FindBelow
<1> QED
  BY <1>4 DEF ChosenChild, Candidates

LEMMA FaultHasReason ==
    ASSUME TreeTypeOK, NEW names, IsName(names), NEW sbe,
           Fault \in DoGetWidgetWithSuchName(names, sbe)
    PROVE  NoWidgetNamed(names)
<1>n. PICK n \in Nat \ {0} : DOMAIN names = 1..n /\ Len(names) = n
  BY DEF IsName
<1>g. PICK g : Traces(g, names, n, sbe) /\ DoGetWidgetWithSuchName(names, sbe) = Result(g[n])
  BY <1>n, LookUpTraced
<1>1. Fault \notin Objects /\ Fault # Null /\ alive \subseteq Objects
  BY ObjectsAreCounted DEF TreeTypeOK, Fault, Null
<1>2. SUFFICES ASSUME ~NoWidgetNamed(names) PROVE FALSE
  OBVIOUS
<1>S. PICK S : S = {m \in 0..n - 1 : \A v \in g[m + 1] : v # Fault /\ (v \in alive => v \in Widgets)}
  OBVIOUS
<1>3. 0 \in S
  <2>1. \A c \in alive \ Widgets : ~Stands(names[1], c)
    BY <1>2, <1>n DEF NoWidgetNamed
  <2>2. \A i \in NamedOutermost(names[1]) : i \in alive /\ i \in Widgets
    BY <2>1 DEF NamedOutermost, Stands
  <2>3. \A v \in BruteForceWidgetSearch(names[1], sbe) : v = Null \/ v \in Widgets
    BY DEF BruteForceWidgetSearch, OrNull
  <2>4. \A v \in FindOutermost(names[1], sbe) : v = Null \/ v \in Widgets
    BY <2>2, <2>3 DEF FindOutermost
  <2>5. Null \notin alive /\ Fault \notin Widgets
    BY <1>1, TreeFacts DEF TreeTypeOK, Widgets
  <2>6. 0 \in 0..n - 1 /\ 0 + 1 = 1
    OBVIOUS
  <2>7. \A v \in g[1] : v # Fault /\ (v \in alive => v \in Widgets)
    BY <1>1, <1>g, <2>4, <2>5 DEF Traces
  <2> QED
    BY <1>S, <2>6, <2>7
<1>4. ASSUME NEW m \in 0..(n - 1) - 1, m \in S
      PROVE  m + 1 \in S
  <2>k. PICK k \in 1..n - 1 : k = m + 1
    OBVIOUS
  <2>1. k + 1 \in 1..n /\ k \in 1..n /\ k \in 0..n - 1
    OBVIOUS
  <2>2. g[k + 1] = FindNext(g[k], names[k + 1], sbe) /\ g[k] \subseteq Outcomes
    BY <1>g, <2>1 DEF Traces
  <2>3. \A v \in g[k] : v # Fault /\ (v \in alive => v \in Widgets)
    BY <1>4, <1>S, <2>k
  <2>el. PICK el : el = names[k + 1]
    OBVIOUS
  <2>4. \A c \in alive \ Widgets : ~Stands(el, c)
    BY <1>2, <1>n, <2>1, <2>el DEF NoWidgetNamed
  <2>5. Fault \notin g[k + 1]
    BY <2>2, <2>3, <2>4, <2>el, FaultInNext
  <2>6. \A c \in alive \ Widgets : c \notin g[k + 1]
    BY <2>2, <2>4, <2>el, OtherInNext
  <2> QED
    BY <1>S, <2>1, <2>5, <2>6, <2>k
<1>5. n - 1 \in Nat
  OBVIOUS
<1>6. \A m \in 0..n - 1 : m \in S
  BY <1>3, <1>4, <1>5, UpTo
<1>7. Fault \notin g[n]
  <2>1. n - 1 \in 0..n - 1 /\ (n - 1) + 1 = n
    OBVIOUS
  <2> QED
    BY <1>6, <1>S, <2>1
<1> QED
  BY <1>1, <1>7, <1>g DEF Result, Null

\* A look-up that goes from the outermost object to the next, and so on
Guides(names, L, n) ==
    /\ DOMAIN names = 1..n /\ Len(names) = n
    /\ FindOutermost(names[1], TRUE) = {L[1]}
    /\ \A k \in 1..n - 1 : FindNext({L[k]}, names[k + 1], TRUE) = {L[k + 1]}

LEMMA LookUp ==
    ASSUME NEW n \in Nat \ {0}, NEW L, NEW names, Guides(names, L, n), L[n] \in Widgets
    PROVE  DoGetWidgetWithSuchName(names, TRUE) = {L[n]}
<1> USE DEF Guides
<1>g. PICK g : Traces(g, names, n, TRUE) /\ DoGetWidgetWithSuchName(names, TRUE) = Result(g[n])
  BY LookUpTraced
<1>S. PICK S : S = {m \in 0..n - 1 : g[m + 1] = {L[m + 1]}}
  OBVIOUS
<1>1. 0 \in S
  <2>1. g[1] = {L[1]}
    BY <1>g DEF Traces
  <2>2. 0 + 1 = 1 /\ 0 \in 0..n - 1
    OBVIOUS
  <2> QED
    BY <1>S, <2>1, <2>2
<1>2. ASSUME NEW m \in 0..(n - 1) - 1, m \in S
      PROVE  m + 1 \in S
  <2>k. PICK k \in 1..n - 1 : k = m + 1
    OBVIOUS
  <2>1. g[k] = {L[k]} /\ k \in 0..n - 1
    BY <1>S, <1>2, <2>k
  <2>2. g[k + 1] = FindNext(g[k], names[k + 1], TRUE)
    BY <1>g DEF Traces
  <2>3. g[k + 1] = {L[k + 1]}
    BY <2>1, <2>2
  <2> QED
    BY <1>S, <2>1, <2>3, <2>k
<1>3. n - 1 \in Nat
  OBVIOUS
<1>4. \A m \in 0..n - 1 : m \in S
  BY <1>1, <1>2, <1>3, UpTo
<1>5. g[n] = {L[n]}
  <2>1. n - 1 \in 0..n - 1 /\ (n - 1) + 1 = n
    OBVIOUS
  <2> QED
    BY <1>4, <1>S, <2>1
<1>6. Result({L[n]}) = {L[n]}
  BY DEF Result
<1> QED
  BY <1>5, <1>6, <1>g

LEMMA NameFound ==
    ASSUME TreeTypeOK, TreeInv, NEW i \in Objects, Usable[i],
           \A k \in DOMAIN Line[i] : ~Misleading(Line[i][k])
    PROVE  DoGetWidgetWithSuchName(FullQtWidgetId(i), TRUE) = {i}
<1>L. PICK L \in Seq(Objects) : L = Line[i] /\ Leads(L, i)
  BY LineLeads DEF Leads
<1>n. PICK n \in Nat \ {0} : n = Len(L) /\ DOMAIN L = 1..n
  BY <1>L, LenProperties DEF Leads
<1>N. PICK names \in Seq(Elements) : names = FullQtWidgetId(i)
  BY IdSteps DEF IdStep, FullQtWidgetId
<1>0. i \in alive /\ i \in Widgets
  BY UsableIsAlive
<1>1. Len(names) = n /\ DOMAIN names = 1..n /\ \A k \in 1..n : names[k] = QtObjectId(L[k])[1]
  <2>1. PlainLine(i)
    BY <1>L, <1>n DEF PlainLine, Misleading
  <2>2. Spelled(i)
    BY <2>1, NameElements
  <2>3. Len(names) = n /\ \A k \in 1..n : names[k] = QtObjectId(L[k])[1]
    BY <1>L, <1>n, <1>N, <2>2 DEF Spelled, FullQtWidgetId
  <2> QED
    BY <2>3, LenProperties
<1>2. \A k \in 1..n : L[k] \in alive \cap Widgets
  <2>1. alive \subseteq Objects /\ \A x \in alive : Parent(x) = Null \/ Parent(x) \in alive
    BY DEF TreeInv, ParentsLive, TreeTypeOK
  <2>2. Widgets \subseteq Objects /\ \A x \in Widgets : Parent(x) = Null \/ Parent(x) \in Widgets
    BY NameFacts DEF Widgets
  <2>3. \A k \in 1..n : L[k] \in alive
    BY <1>0, <1>L, <1>n, <2>1, LineWithin
  <2>4. \A k \in 1..n : L[k] \in Widgets
    BY <1>0, <1>L, <1>n, <2>2, LineWithin
  <2> QED
    BY <2>3, <2>4
<1>3. /\ L[n] = i /\ Parent(L[1]) = Null
      /\ \A k \in 1..n - 1 : Parent(L[k + 1]) = L[k]
  BY <1>L, <1>n DEF Leads
<1>4. FindOutermost(names[1], TRUE) = {L[1]}
  <2>1. 1 \in 1..n
    OBVIOUS
  <2>r. PICK r \in alive \cap Widgets : r = L[1]
    BY <1>2, <2>1
  <2>2. Parent(r) = Null /\ ~Misleading(r)
    BY <1>3, <1>L, <1>n, <2>1, <2>r
  <2> QED
    BY <1>1, <2>1, <2>2, <2>r, OutermostFound
<1>5. ASSUME NEW k \in 1..n - 1
      PROVE  FindNext({L[k]}, names[k + 1], TRUE) = {L[k + 1]}
  <2>1. k \in 1..n /\ k + 1 \in 1..n
    OBVIOUS
  <2>x. PICK x \in alive \cap Widgets : x = L[k + 1]
    BY <1>2, <2>1
  <2>w. PICK v \in alive \cap Widgets : v = L[k]
    BY <1>2, <2>1
  <2>2. Parent(x) = v /\ ~Misleading(x)
    BY <1>3, <1>L, <1>n, <2>1, <2>x, <2>w
  <2>3. v # Null
    BY TreeFacts DEF TreeTypeOK
  <2>el. PICK el : el = QtObjectId(x)[1]
    OBVIOUS
  <2>4. FindBelow(v, el, TRUE) = {x}
    BY <2>2, <2>3, <2>el, ChildFound DEF TreeInv
  <2>5. FindNext({v}, el, TRUE) = {x}
    BY <2>3, <2>4 DEF FindNext
  <2>6. names[k + 1] = el
    BY <1>1, <2>1, <2>x, <2>el
  <2> QED
    BY <2>5, <2>6, <2>w, <2>x
<1> QED
  <2>1. Guides(names, L, n)
    BY <1>1, <1>4, <1>5 DEF Guides
  <2> QED
    BY <1>0, <1>3, <1>N, <2>1, LookUp

-----------------------------------------------------------------------------
(* Items *)

\* The items of a widget are numbered, and each has a cell of its own.
CellsDiffer(v, n) ==
    \A k, m \in 1..n :
        /\ Item(v, k).under = Item(v, m).under
        /\ Item(v, k).column = Item(v, m).column
        /\ Item(v, k).row = Item(v, m).row
        => k = m

Numbered(v, n) ==
    /\ Items(v) = 1..n
    /\ \A k \in 1..n : Item(v, k).under \in Nat /\ Item(v, k).under < k
    /\ \A k \in 1..n : Item(v, k).column \in Nat /\ Item(v, k).row \in Nat
    /\ CellsDiffer(v, n)

LEMMA ItemFacts ==
    ASSUME TreeTypeOK, NEW v \in Objects
    PROVE  \E n \in Nat : Numbered(v, n)
<1>1. scene \in Scenes /\ v \in 1..Len(scene.class)
  BY DEF TreeTypeOK, Objects
<1>I. PICK its : its = scene.items[v]
  OBVIOUS
<1>2. /\ its \in Seq([text : STRING, caption : STRING, under : Nat, column : Nat, row : Nat])
      /\ \A k \in DOMAIN its : its[k].under < k
      /\ \A k, m \in DOMAIN its :
            its[k].under = its[m].under /\ its[k].column = its[m].column /\ its[k].row = its[m].row
            => k = m
  BY <1>1, <1>I, ItemsAssumption
<1>3. DOMAIN its = 1..Len(its) /\ Len(its) \in Nat
      /\ \A k \in 1..Len(its) : its[k] \in [text : STRING, caption : STRING, under : Nat,
                                            column : Nat, row : Nat]
  BY <1>2, LenProperties, ElementOfSeq
<1>4. \A k \in 1..Len(its) : its[k].under \in Nat /\ its[k].column \in Nat /\ its[k].row \in Nat
  BY <1>3
<1>5. \A k : Item(v, k) = its[k]
  BY <1>I DEF Item
<1>n. PICK n \in Nat : n = Len(its)
  BY <1>3
<1>6. Items(v) = 1..n
  BY <1>3, <1>I, <1>n DEF Items
<1>7. CellsDiffer(v, n)
  <2>1. DOMAIN its = 1..n
    BY <1>3, <1>n
  <2>2. \A k, m \in 1..n :
            its[k].under = its[m].under /\ its[k].column = its[m].column /\ its[k].row = its[m].row
            => k = m
    BY <1>2, <2>1, Zenon
  <2> QED
    BY <1>5, <2>2, Zenon DEF CellsDiffer
<1>8. \A k \in 1..n : Item(v, k).under < k
  BY <1>2, <1>3, <1>5, <1>n
<1>9. Numbered(v, n)
  BY <1>4, <1>5, <1>6, <1>7, <1>8, <1>n DEF Numbered
<1> QED
  BY <1>9

\* The first of some numbers, as OnFirst picks it
LEMMA FirstIs ==
    ASSUME NEW kind, NEW v, NEW found \in SUBSET Nat, NEW k \in found
    PROVE  \E j \in found : /\ OnFirst(kind, v, found) = Happening(kind, v, j)
                            /\ \A n \in found : j <= n
<1>1. PICK j \in found : \A n \in found : j <= n
  BY LeastNat
<1>c. PICK c : c = CHOOSE m \in found : \A n \in found : m <= n
  OBVIOUS
<1>2. c \in found /\ \A n \in found : c <= n
  BY <1>1, <1>c
<1>3. OnFirst(kind, v, found) = Happening(kind, v, c)
  BY <1>c DEF OnFirst
<1> QED
  BY <1>2, <1>3

\* The event e has all the fields of one.
IsEvent(e) ==
    e = [on |-> e.on, item |-> e.item, kind |-> e.kind, button |-> e.button,
         key |-> e.key, modifiers |-> e.modifiers]

LEMMA HappeningIs ==
    ASSUME NEW e, IsEvent(e), NEW kind, NEW v, NEW j
    PROVE  Happening(kind, v, j) = {e}
              <=> /\ e.on = v /\ e.item = j /\ e.kind = kind
                  /\ e.button = "left" /\ e.key = "0" /\ e.modifiers = {}
<1>1. PICK h : h = [on |-> v, item |-> j, kind |-> kind, button |-> "left", key |-> "0",
                    modifiers |-> {}]
  OBVIOUS
<1>2. Happening(kind, v, j) = {h}
  BY <1>1 DEF Happening
<1>3. h = e <=> /\ e.on = v /\ e.item = j /\ e.kind = kind
                /\ e.button = "left" /\ e.key = "0" /\ e.modifiers = {}
  BY <1>1 DEF IsEvent
<1> QED
  BY <1>2, <1>3

\* A click, or an expansion, of a command that finds its item is that of e if
\* and only if no item before that of e is found.
LEMMA OnFirstIs ==
    ASSUME NEW e, IsEvent(e), NEW kind, NEW found \in SUBSET Nat, e.item \in found
    PROVE  OnFirst(kind, e.on, found) = {e}
              <=> /\ \A n \in found : ~(n < e.item)
                  /\ e.kind = kind /\ e.button = "left" /\ e.key = "0" /\ e.modifiers = {}
<1>1. PICK j \in found : /\ OnFirst(kind, e.on, found) = Happening(kind, e.on, j)
                         /\ \A n \in found : j <= n
  BY FirstIs
<1>i. PICK i \in found : i = e.item
  OBVIOUS
<1>2. j = i <=> \A n \in found : ~(n < i)
  <2>1. j \in Nat /\ i \in Nat /\ j <= i /\ \A n \in found : n \in Nat
    BY <1>1
  <2>2. j = i => \A n \in found : ~(n < i)
    BY <1>1, <2>1
  <2>3. (\A n \in found : ~(n < i)) => j = i
    BY <1>1, <2>1
  <2> QED
    BY <2>2, <2>3
<1>3. Happening(kind, e.on, j) = {e}
        <=> /\ e.item = j /\ e.kind = kind
            /\ e.button = "left" /\ e.key = "0" /\ e.modifiers = {}
  BY HappeningIs
<1> QED
  BY <1>1, <1>2, <1>3, <1>i

-----------------------------------------------------------------------------
(* Commands *)

\* Different analyzers answer for different widgets: the first answer that is
\* not empty is the command.
LEMMA FirstOfIs ==
    ASSUME NEW a, NEW N \in Nat, DOMAIN a = 1..N, NEW n \in 1..N, a[n] # {},
           \A m \in 1..(n - 1) : a[m] = {}
    PROVE  FirstOf(a) = a[n]
<1>c. PICK c : c = CHOOSE m \in DOMAIN a : a[m] # {} /\ \A l \in 1..(m - 1) : a[l] = {}
  OBVIOUS
<1>1. c \in 1..N /\ a[c] # {} /\ \A l \in 1..(c - 1) : a[l] = {}
  BY <1>c
<1>2. ~(c < n) /\ ~(n < c)
  <2>1. c < n => c \in 1..(n - 1)
    BY <1>1
  <2>2. n < c => n \in 1..(c - 1)
    BY <1>1
  <2> QED
    BY <1>1, <2>1, <2>2
<1>3. c = n
  BY <1>1, <1>2
<1> QED
  BY <1>3, <1>c DEF FirstOf

LEMMA InheritsIs ==
    ASSUME NEW v
    PROVE  /\ Inherits(v, "QTreeView") <=> Class(v) \in {"QTreeView", "QTreeWidget"}
           /\ Inherits(v, "QListView") <=> Class(v) \in {"QListView", "QListWidget"}
<1>1. <<Class(v), "QTreeView">> \in Super <=> Class(v) = "QTreeWidget"
  BY DEF Super
<1>2. <<Class(v), "QListView">> \in Super <=> Class(v) = "QListWidget"
  BY DEF Super
<1> QED
  BY <1>1, <1>2 DEF Inherits

\* A command is a record of these fields.
LEMMA CommandIs ==
    ASSUME NEW fun, NEW v, NEW text, NEW escaped
    PROVE  LET com == WithText(Command(fun, v), text, escaped)
           IN  /\ com.fun = fun /\ com.names = FullQtWidgetId(v) /\ com.text = text
               /\ (com.parses <=> NameParses(FullQtWidgetId(v)) /\ Special[text] \subseteq escaped)
               /\ com.pos = <<>> /\ com.at = 0 /\ com.button = "left" /\ com.keys = <<>>
BY DEF WithText, Command, Call

\* What Repeats and Misread say of the only command recorded for an event
LEMMA OnlyCommand ==
    ASSUME NEW e, NEW com, Recorded(e) = {com}
    PROVE  /\ Repeats(e) <=> /\ com.parses /\ NamesRead(com.names) = com.names
                             /\ Performed(com, Target(e, com)) = {e}
           /\ Misread(e) <=> \/ KeysLost(e) \/ e.button = "other" \/ ~com.parses
                             \/ Garbled(com) \/ Simplified(e, com) \/ TextTaken(e, com)
BY DEF Repeats, Misread, MisreadAs

-----------------------------------------------------------------------------
(* The position of an item leads back to it *)

\* The definition of ModelIndexToPos is met.
PosBefore(v, k) == IF Item(v, k).under = 0 THEN <<>> ELSE ModelIndexToPos(v, Item(v, k).under)

PosStep(v, k) ==
    /\ ModelIndexToPos(v, k) \in Seq(Nat)
    /\ PosBefore(v, k) \in Seq(Nat)
    /\ ModelIndexToPos(v, k) = PosBefore(v, k) \o <<Item(v, k).column, Item(v, k).row>>

LEMMA PosSteps ==
    ASSUME NEW v, NEW N \in Nat, Numbered(v, N)
    PROVE  \A k \in 1..N : PosStep(v, k)
<1> DEFINE u == CHOOSE f : f = [k \in Items(v) |->
                    (IF Item(v, k).under = 0 THEN <<>> ELSE f[Item(v, k).under])
                        \o <<Item(v, k).column, Item(v, k).row>>]
<1>V. PICK V : V = Seq(Nat)
  OBVIOUS
<1>a. PICK a \in V : a = <<>>
  BY <1>V, EmptySeq
<1>1. /\ Items(v) = 1..N
      /\ \A k \in 1..N : Item(v, k).under \in Nat /\ Item(v, k).under < k
      /\ \A k \in 1..N : Item(v, k).column \in Nat /\ Item(v, k).row \in Nat
  BY DEF Numbered
<1>f. \A k \in 1..N, s \in V : s \o <<Item(v, k).column, Item(v, k).row>> \in V
  <2>1. ASSUME NEW k \in 1..N, NEW s \in V
        PROVE  s \o <<Item(v, k).column, Item(v, k).row>> \in V
    <3>c. PICK c \in Nat, r \in Nat : c = Item(v, k).column /\ r = Item(v, k).row
      BY <1>1
    <3>1. <<c, r>> \in Seq(Nat)
      OBVIOUS
    <3> QED
      BY <1>V, <3>c, <3>1, ConcatProperties
  <2> QED
    BY <2>1
<1>2. PICK F \in [(1..N) \X V -> V] :
          \A k \in 1..N, s \in V : F[<<k, s>>] = s \o <<Item(v, k).column, Item(v, k).row>>
  <2> DEFINE G == [x \in (1..N) \X V |-> x[2] \o <<Item(v, x[1]).column, Item(v, x[1]).row>>]
  <2>1. G \in [(1..N) \X V -> V]
    BY <1>f
  <2>2. \A k \in 1..N, s \in V : G[<<k, s>>] = s \o <<Item(v, k).column, Item(v, k).row>>
    OBVIOUS
  <2> QED
    BY <2>1, <2>2
<1>3. PICK p \in [1..N -> Nat] : \A k \in 1..N : p[k] = Item(v, k).under
  <2>1. [k \in 1..N |-> Item(v, k).under] \in [1..N -> Nat]
    BY <1>1
  <2> QED
    BY <2>1
<1>4. PICK g \in [0..N -> V] : Solves(g, N, a, F, p)
  <2>1. Earlier(p, N)
    BY <1>1, <1>3 DEF Earlier
  <2> QED
    BY <2>1, RecursionExists
<1>5. PICK h : h = [k \in 1..N |-> g[k]]
  OBVIOUS
<1>6. ASSUME NEW k \in 1..N
      PROVE  h[k] = (IF Item(v, k).under = 0 THEN <<>> ELSE h[Item(v, k).under])
                        \o <<Item(v, k).column, Item(v, k).row>>
  <2>i. PICK i \in Nat : i = Item(v, k).under
    BY <1>1
  <2>1. p[k] = i /\ i \in 0..N /\ k \in 0..N /\ (i # 0 => i \in 1..N)
    BY <1>1, <1>3, <2>i
  <2>2. g[k] = F[<<k, g[i]>>] /\ g[i] \in V
    BY <1>4, <2>1 DEF Solves
  <2>3. g[k] = g[i] \o <<Item(v, k).column, Item(v, k).row>>
    BY <1>2, <2>2, Zenon
  <2>4. g[i] = IF i = 0 THEN <<>> ELSE h[i]
    BY <1>4, <1>5, <1>a, <2>1 DEF Solves
  <2>5. h[k] = g[k]
    BY <1>5
  <2> QED
    BY <2>3, <2>4, <2>5, <2>i
<1>7. h = [k \in Items(v) |-> (IF Item(v, k).under = 0 THEN <<>> ELSE h[Item(v, k).under])
                                  \o <<Item(v, k).column, Item(v, k).row>>]
  <2>1. h = [k \in 1..N |-> h[k]]
    BY <1>5
  <2> QED
    BY <1>1, <1>6, <2>1
<1>8. u = [k \in Items(v) |-> (IF Item(v, k).under = 0 THEN <<>> ELSE u[Item(v, k).under])
                                  \o <<Item(v, k).column, Item(v, k).row>>]
  BY <1>7
<1>9. \A k : ModelIndexToPos(v, k) = u[k]
  BY DEF ModelIndexToPos
<1> HIDE DEF u
<1>10. \A k \in 1..N : u[k] = (IF Item(v, k).under = 0 THEN <<>> ELSE u[Item(v, k).under])
                                  \o <<Item(v, k).column, Item(v, k).row>>
  BY <1>1, <1>8
<1>S. PICK S : S = {n \in 0..N : \A k \in 1..n : u[k] \in V}
  OBVIOUS
<1>11. 0 \in S
  BY <1>S
<1>12. ASSUME NEW n \in 0..N - 1, n \in S
       PROVE  n + 1 \in S
  <2>k. PICK k \in 1..N : k = n + 1
    OBVIOUS
  <2>i. PICK i \in Nat : i = Item(v, k).under
    BY <1>1
  <2>1. i # 0 => i \in 1..n
    BY <1>1, <2>i, <2>k
  <2>2. (IF i = 0 THEN <<>> ELSE u[i]) \in V
    BY <1>S, <1>12, <1>a, <2>1
  <2>3. u[k] = (IF i = 0 THEN <<>> ELSE u[i]) \o <<Item(v, k).column, Item(v, k).row>>
    BY <1>10, <2>i
  <2>4. u[k] \in V
    BY <1>f, <2>2, <2>3
  <2>5. \A m \in 1..n + 1 : m \in 1..n \/ m = n + 1
    OBVIOUS
  <2>6. n + 1 \in 0..N
    OBVIOUS
  <2> QED
    BY <1>S, <1>12, <2>4, <2>5, <2>6, <2>k
<1>13. \A n \in 0..N : n \in S
  BY <1>11, <1>12, UpTo
<1>14. \A k \in 1..N : u[k] \in V
  <2>1. N \in 0..N
    OBVIOUS
  <2> QED
    BY <1>S, <1>13, <2>1
<1>15. ASSUME NEW k \in 1..N
       PROVE  PosStep(v, k)
  <2>i. PICK i \in Nat : i = Item(v, k).under
    BY <1>1
  <2>1. i # 0 => i \in 1..N
    BY <1>1, <2>i
  <2>2. PosBefore(v, k) = IF i = 0 THEN <<>> ELSE u[i]
    BY <1>9, <2>i DEF PosBefore
  <2>3. PosBefore(v, k) \in V
    BY <1>14, <1>a, <2>1, <2>2
  <2>4. ModelIndexToPos(v, k) = PosBefore(v, k) \o <<Item(v, k).column, Item(v, k).row>>
    BY <1>9, <1>10, <2>2, <2>i
  <2>5. ModelIndexToPos(v, k) \in V
    BY <1>9, <1>14
  <2> QED
    BY <1>V, <2>3, <2>4, <2>5 DEF PosStep
<1> QED
  BY <1>15

\* A column and a row make the position longer by two.
LEMMA PosGrows ==
    ASSUME NEW v, NEW N \in Nat, Numbered(v, N), NEW k \in 1..N, PosStep(v, k), NEW n \in Nat,
           n = Len(PosBefore(v, k))
    PROVE  /\ Len(ModelIndexToPos(v, k)) = n + 2
           /\ \A j \in 1..n : ModelIndexToPos(v, k)[j] = PosBefore(v, k)[j]
           /\ ModelIndexToPos(v, k)[n + 1] = Item(v, k).column
           /\ ModelIndexToPos(v, k)[n + 2] = Item(v, k).row
<1>c. PICK c \in Nat, r \in Nat : c = Item(v, k).column /\ r = Item(v, k).row
  BY DEF Numbered
<1>s. PICK s \in Seq(Nat) : s = PosBefore(v, k) /\ ModelIndexToPos(v, k) = s \o <<c, r>>
  BY <1>c DEF PosStep
<1>1. <<c, r>> \in Seq(Nat) /\ Len(<<c, r>>) = 2 /\ <<c, r>>[1] = c /\ <<c, r>>[2] = r
  OBVIOUS
<1>2. /\ Len(s \o <<c, r>>) = n + 2
      /\ \A j \in 1..n + 2 : (s \o <<c, r>>)[j] = IF j <= n THEN s[j] ELSE <<c, r>>[j - n]
  BY <1>1, <1>s, ConcatProperties
<1>3. /\ \A j \in 1..n : j \in 1..n + 2 /\ j <= n
      /\ n + 1 \in 1..n + 2 /\ n + 2 \in 1..n + 2 /\ ~(n + 1 <= n) /\ ~(n + 2 <= n)
      /\ (n + 1) - n = 1 /\ (n + 2) - n = 2
  OBVIOUS
<1> QED
  BY <1>1, <1>2, <1>3, <1>c, <1>s

\* Every position has pairs of a column and a row.
Pairs(s) == \E m \in Nat : Len(s) = 2 * m

LEMMA PosPairs ==
    ASSUME NEW v, NEW N \in Nat, Numbered(v, N)
    PROVE  \A k \in 1..N : Pairs(ModelIndexToPos(v, k)) /\ Pairs(PosBefore(v, k))
<1>1. \A k \in 1..N : Item(v, k).under \in Nat /\ Item(v, k).under < k
  BY DEF Numbered
<1>2. \A k \in 1..N : PosStep(v, k)
  BY PosSteps
<1>3. ASSUME NEW k \in 1..N, Pairs(PosBefore(v, k))
      PROVE  Pairs(ModelIndexToPos(v, k))
  <2>1. PICK m \in Nat : Len(PosBefore(v, k)) = 2 * m
    BY <1>3 DEF Pairs
  <2>n. PICK n \in Nat : n = 2 * m
    OBVIOUS
  <2>2. Len(ModelIndexToPos(v, k)) = n + 2
    BY <1>2, <2>1, <2>n, PosGrows
  <2>3. n + 2 = 2 * (m + 1) /\ m + 1 \in Nat
    BY <2>n
  <2> QED
    BY <2>2, <2>3 DEF Pairs
<1>S. PICK S : S = {n \in 0..N : \A k \in 1..n : Pairs(ModelIndexToPos(v, k)) /\ Pairs(PosBefore(v, k))}
  OBVIOUS
<1>4. 0 \in S
  BY <1>S
<1>5. ASSUME NEW n \in 0..N - 1, n \in S
      PROVE  n + 1 \in S
  <2>k. PICK k \in 1..N : k = n + 1
    OBVIOUS
  <2>i. PICK i \in Nat : i = Item(v, k).under
    BY <1>1
  <2>1. i # 0 => i \in 1..n
    BY <1>1, <2>i, <2>k
  <2>2. Pairs(PosBefore(v, k))
    <3>1. CASE i = 0
      <4>1. Len(PosBefore(v, k)) = 2 * 0
        BY <2>i, <3>1 DEF PosBefore
      <4> QED
        BY <4>1 DEF Pairs
    <3>2. CASE i # 0
      BY <1>S, <1>5, <2>1, <2>i, <3>2 DEF PosBefore
    <3> QED
      BY <3>1, <3>2
  <2>3. Pairs(ModelIndexToPos(v, k))
    BY <1>3, <2>2
  <2>4. \A m \in 1..n + 1 : m \in 1..n \/ m = n + 1
    OBVIOUS
  <2>5. n + 1 \in 0..N
    OBVIOUS
  <2> QED
    BY <1>S, <1>5, <2>2, <2>3, <2>4, <2>5, <2>k
<1>6. \A n \in 0..N : n \in S
  BY <1>4, <1>5, UpTo
<1>7. N \in 0..N
  OBVIOUS
<1> QED
  BY <1>S, <1>6, <1>7

\* What the first n pairs of a position lead to
IndexStep(v, s, f, d) ==
    /\ f[0] = {0}
    /\ \A n \in 1..d : f[n] = {k \in Items(v) : /\ Item(v, k).under \in f[n - 1]
                                                /\ Item(v, k).column = s[2 * n - 1]
                                                /\ Item(v, k).row = s[2 * n]}

LEMMA IndexSteps ==
    ASSUME NEW v, NEW N \in Nat, Items(v) = 1..N, NEW s, NEW d \in Nat, Len(s) = 2 * d
    PROVE  \E f : IndexStep(v, s, f, d) /\ PosToModelIndex(v, s) = f[d] \ {0}
<1> DEFINE u == CHOOSE f : f = [n \in 0..(Len(s) \div 2) |->
                    IF n = 0 THEN {0}
                    ELSE {k \in Items(v) : /\ Item(v, k).under \in f[n - 1]
                                           /\ Item(v, k).column = s[2 * n - 1]
                                           /\ Item(v, k).row = s[2 * n]}]
<1>1. Len(s) \div 2 = d
  OBVIOUS
<1>V. PICK V : V = SUBSET Nat
  OBVIOUS
<1>a. PICK a \in V : a = {0}
  <2>1. {0} \in SUBSET Nat
    OBVIOUS
  <2> QED
    BY <1>V, <2>1, Zenon
<1>2. PICK F \in [(1..d) \X V -> V] :
          \A n \in 1..d, T \in V :
              F[<<n, T>>] = {k \in Items(v) : /\ Item(v, k).under \in T
                                              /\ Item(v, k).column = s[2 * n - 1]
                                              /\ Item(v, k).row = s[2 * n]}
  <2> DEFINE G == [x \in (1..d) \X V |->
                      {k \in Items(v) : /\ Item(v, k).under \in x[2]
                                        /\ Item(v, k).column = s[2 * x[1] - 1]
                                        /\ Item(v, k).row = s[2 * x[1]]}]
  <2>1. G \in [(1..d) \X V -> V]
    <3>1. \A x : {k \in Items(v) : /\ Item(v, k).under \in x[2]
                                   /\ Item(v, k).column = s[2 * x[1] - 1]
                                   /\ Item(v, k).row = s[2 * x[1]]} \in V
      <4>1. Items(v) \subseteq Nat
        OBVIOUS
      <4> QED
        BY <1>V, <4>1, Zenon
    <3> QED
      BY <3>1, Zenon
  <2>2. \A n \in 1..d, T \in V :
              G[<<n, T>>] = {k \in Items(v) : /\ Item(v, k).under \in T
                                              /\ Item(v, k).column = s[2 * n - 1]
                                              /\ Item(v, k).row = s[2 * n]}
    OBVIOUS
  <2> QED
    BY <2>1, <2>2
<1>3. PICK p \in [1..d -> Nat] : \A n \in 1..d : p[n] = n - 1
  <2>1. [n \in 1..d |-> n - 1] \in [1..d -> Nat]
    OBVIOUS
  <2> QED
    BY <2>1
<1>4. PICK g \in [0..d -> V] : Solves(g, d, a, F, p)
  <2>1. Earlier(p, d)
    BY <1>3 DEF Earlier
  <2> QED
    BY <2>1, RecursionExists
<1>5. ASSUME NEW n \in 0..d
      PROVE  g[n] = IF n = 0 THEN {0}
                    ELSE {k \in Items(v) : /\ Item(v, k).under \in g[n - 1]
                                           /\ Item(v, k).column = s[2 * n - 1]
                                           /\ Item(v, k).row = s[2 * n]}
  <2>1. CASE n = 0
    BY <1>4, <1>a, <2>1 DEF Solves
  <2>2. CASE n # 0
    <3>1. n \in 1..d /\ n - 1 \in 0..d /\ p[n] = n - 1
      BY <1>3, <2>2
    <3>T. PICK T \in V : T = g[n - 1]
      BY <3>1
    <3>2. g[n] = F[<<n, T>>]
      BY <1>4, <3>1, <3>T DEF Solves
    <3>3. F[<<n, T>>] = {k \in Items(v) : /\ Item(v, k).under \in T
                                          /\ Item(v, k).column = s[2 * n - 1]
                                          /\ Item(v, k).row = s[2 * n]}
      BY <1>2, <3>1
    <3> QED
      BY <2>2, <3>2, <3>3, <3>T, Zenon
  <2> QED
    BY <2>1, <2>2
<1>6. g = [n \in 0..(Len(s) \div 2) |->
                    IF n = 0 THEN {0}
                    ELSE {k \in Items(v) : /\ Item(v, k).under \in g[n - 1]
                                           /\ Item(v, k).column = s[2 * n - 1]
                                           /\ Item(v, k).row = s[2 * n]}]
  <2>1. g = [n \in 0..d |-> g[n]]
    OBVIOUS
  <2> QED
    BY <1>1, <1>5, <2>1, Zenon
<1>7. u = [n \in 0..(Len(s) \div 2) |->
                    IF n = 0 THEN {0}
                    ELSE {k \in Items(v) : /\ Item(v, k).under \in u[n - 1]
                                           /\ Item(v, k).column = s[2 * n - 1]
                                           /\ Item(v, k).row = s[2 * n]}]
  BY <1>6, Zenon
<1>8. PosToModelIndex(v, s) = u[d] \ {0}
  <2>1. PosToModelIndex(v, s) = u[Len(s) \div 2] \ {0}
    BY Zenon DEF PosToModelIndex
  <2> QED
    BY <1>1, <2>1, Zenon
<1>9. PICK f : f = u
  OBVIOUS
<1>10. f = [n \in 0..d |->
                    IF n = 0 THEN {0}
                    ELSE {k \in Items(v) : /\ Item(v, k).under \in f[n - 1]
                                           /\ Item(v, k).column = s[2 * n - 1]
                                           /\ Item(v, k).row = s[2 * n]}]
  BY <1>1, <1>7, <1>9, Zenon
<1> HIDE DEF u
<1>11. f[0] = {0}
  <2>1. 0 \in 0..d
    OBVIOUS
  <2> QED
    BY <1>10, <2>1
<1>12. ASSUME NEW n \in 1..d
       PROVE  f[n] = {k \in Items(v) : /\ Item(v, k).under \in f[n - 1]
                                       /\ Item(v, k).column = s[2 * n - 1]
                                       /\ Item(v, k).row = s[2 * n]}
  <2>1. n \in 0..d /\ n # 0
    OBVIOUS
  <2> QED
    BY <1>10, <2>1
<1>13. IndexStep(v, s, f, d)
  BY <1>11, <1>12 DEF IndexStep
<1> QED
  BY <1>8, <1>9, <1>13

\* Does the position s begin with that of item k?
BeginsWith(s, v, k, m) ==
    /\ Len(ModelIndexToPos(v, k)) = 2 * m
    /\ \A j \in 1..2 * m : s[j] = ModelIndexToPos(v, k)[j]

\* An item found under the right one is the right one.
LEMMA OneCell ==
    ASSUME NEW v, NEW N \in Nat, Numbered(v, N), NEW k \in 1..N, NEW under, NEW column, NEW row,
           under = Item(v, k).under, column = Item(v, k).column, row = Item(v, k).row
    PROVE  {n \in Items(v) : /\ Item(v, n).under \in {under}
                             /\ Item(v, n).column = column
                             /\ Item(v, n).row = row} = {k}
<1>1. Items(v) = 1..N
  BY DEF Numbered
<1>2. ASSUME NEW n \in 1..N, Item(v, n).under = under, Item(v, n).column = column,
             Item(v, n).row = row
      PROVE  n = k
  BY <1>2 DEF Numbered, CellsDiffer
<1> QED
  BY <1>1, <1>2

AllFound(s, v, N, f, d) ==
    \A k \in 1..N : \A m \in 0..d : BeginsWith(s, v, k, m) => f[m] = {k}

LEMMA PrefixFinds ==
    ASSUME NEW v, NEW N \in Nat, Numbered(v, N), NEW s, NEW d \in Nat, NEW f,
           IndexStep(v, s, f, d)
    PROVE  AllFound(s, v, N, f, d)
<1>1. \A k \in 1..N : Item(v, k).under \in Nat /\ Item(v, k).under < k
  BY DEF Numbered
<1>2. \A k \in 1..N : PosStep(v, k) /\ Pairs(PosBefore(v, k))
  BY PosSteps, PosPairs
<1>S. PICK S : S = {n \in 0..N : \A k \in 1..n : \A m \in 0..d : BeginsWith(s, v, k, m) => f[m] = {k}}
  OBVIOUS
<1>3. 0 \in S
  BY <1>S
<1>4. ASSUME NEW n \in 0..N - 1, n \in S
      PROVE  n + 1 \in S
  <2>k. PICK k \in 1..N : k = n + 1
    OBVIOUS
  <2>i. PICK i \in Nat : i = Item(v, k).under
    BY <1>1
  <2>1. i # 0 => i \in 1..n
    BY <1>1, <2>i, <2>k
  <2>2. ASSUME NEW m \in 0..d, BeginsWith(s, v, k, m)
        PROVE  f[m] = {k}
    <3>b. PICK b \in Nat : Len(PosBefore(v, k)) = 2 * b
      BY <1>2 DEF Pairs
    <3>n. PICK l \in Nat : l = 2 * b
      OBVIOUS
    <3>1. /\ Len(ModelIndexToPos(v, k)) = l + 2
          /\ \A j \in 1..l : ModelIndexToPos(v, k)[j] = PosBefore(v, k)[j]
          /\ ModelIndexToPos(v, k)[l + 1] = Item(v, k).column
          /\ ModelIndexToPos(v, k)[l + 2] = Item(v, k).row
      BY <1>2, <3>b, <3>n, PosGrows
    <3>2. l + 2 = 2 * m
      BY <2>2, <3>1 DEF BeginsWith
    <3>3. m = b + 1 /\ m \in 1..d /\ b \in 0..d /\ m - 1 = b /\ l + 1 = 2 * m - 1
      BY <3>2, <3>n
    <3>4. s[2 * m - 1] = Item(v, k).column /\ s[2 * m] = Item(v, k).row
      <4>1. l + 1 \in 1..2 * m /\ l + 2 \in 1..2 * m
        BY <3>2
      <4>2. s[l + 1] = Item(v, k).column /\ s[l + 2] = Item(v, k).row
        BY <2>2, <3>1, <4>1 DEF BeginsWith
      <4> QED
        BY <3>2, <3>3, <4>2
    <3>5. f[b] = {i}
      <4>1. CASE i = 0
        <5>1. Len(PosBefore(v, k)) = 0
          BY <2>i, <4>1 DEF PosBefore
        <5>2. b = 0
          BY <3>b, <5>1
        <5> QED
          BY <4>1, <5>2 DEF IndexStep
      <4>2. CASE i # 0
        <5>1. PosBefore(v, k) = ModelIndexToPos(v, i)
          BY <2>i, <4>2 DEF PosBefore
        <5>2. ASSUME NEW j \in 1..2 * b
              PROVE  s[j] = ModelIndexToPos(v, i)[j]
          <6>1. j \in 1..l /\ j \in 1..2 * m
            BY <3>2, <3>n
          <6>2. s[j] = ModelIndexToPos(v, k)[j]
            BY <2>2, <6>1 DEF BeginsWith
          <6> QED
            BY <3>1, <5>1, <6>1, <6>2
        <5>3. BeginsWith(s, v, i, b)
          BY <3>b, <5>1, <5>2 DEF BeginsWith
        <5> QED
          BY <1>S, <1>4, <2>1, <3>3, <4>2, <5>3
      <4> QED
        BY <4>1, <4>2
    <3>6. f[m] = {x \in Items(v) : /\ Item(v, x).under \in f[b]
                                   /\ Item(v, x).column = s[2 * m - 1]
                                   /\ Item(v, x).row = s[2 * m]}
      BY <3>3 DEF IndexStep
    <3>7. f[m] = {x \in Items(v) : /\ Item(v, x).under \in {i}
                                   /\ Item(v, x).column = s[2 * m - 1]
                                   /\ Item(v, x).row = s[2 * m]}
      BY <3>5, <3>6, Zenon
    <3> QED
      BY <2>i, <3>4, <3>7, OneCell
  <2>3. \A j \in 1..n + 1 : j \in 1..n \/ j = n + 1
    OBVIOUS
  <2>4. n + 1 \in 0..N
    OBVIOUS
  <2> QED
    BY <1>S, <1>4, <2>2, <2>3, <2>4, <2>k
<1>5. \A n \in 0..N : n \in S
  BY <1>3, <1>4, UpTo
<1>6. N \in 0..N
  OBVIOUS
<1> QED
  BY <1>S, <1>5, <1>6 DEF AllFound

\* The columns and rows from an item outwards (modelIndexToPos) lead back to
\* the item and to no other one (posToModelIndex).
LEMMA PosLeads ==
    ASSUME TreeTypeOK, NEW v \in Objects, NEW k \in Items(v)
    PROVE  PosToModelIndex(v, ModelIndexToPos(v, k)) = {k}
<1>n. PICK N \in Nat : Numbered(v, N)
  BY ItemFacts
<1>1. Items(v) = 1..N /\ k \in 1..N
  BY <1>n DEF Numbered
<1>s. PICK s : s = ModelIndexToPos(v, k)
  OBVIOUS
<1>2. PICK d \in Nat : Len(s) = 2 * d
  BY <1>1, <1>n, <1>s, PosPairs DEF Pairs
<1>3. PICK f : IndexStep(v, s, f, d) /\ PosToModelIndex(v, s) = f[d] \ {0}
  BY <1>1, <1>2, IndexSteps
<1>4. BeginsWith(s, v, k, d) /\ d \in 0..d
  BY <1>2, <1>s DEF BeginsWith
<1>5. f[d] = {k}
  <2>1. AllFound(s, v, N, f, d)
    BY <1>2, <1>3, <1>n, PrefixFinds
  <2> QED
    BY <1>1, <1>4, <2>1 DEF AllFound
<1>6. k # 0
  BY <1>1
<1> QED
  BY <1>3, <1>5, <1>6, <1>s

-----------------------------------------------------------------------------
(* The command recorded for a click *)

\* The answer of the analyzer that speaks first
ListText(e) ==
    LET k == IF Item(e.on, e.item).caption = NoText THEN e.item ELSE 1
    IN  IF Item(e.on, k).text # NoText THEN Item(e.on, k).text ELSE Item(e.on, k).caption

ClickedItem(e, com) ==
    /\ e.item # 0
    /\ \/ Class(e.on) = "QMenu" /\ Name(e.on) # NoName
          /\ com = WithText(Command("activateItem", e.on), TextOf(e), {})
       \/ Class(e.on) = "QTreeWidget" /\ e.kind # "dblclick"
          /\ com = WithText(Command("activateItem", e.on), TextOf(e), {"newline"})
       \/ Class(e.on) \in {"QComboBox", "QTabBar"}
          /\ com = WithText(Command("activateItem", e.on), TextOf(e), {})
       \/ Class(e.on) = "QListView"
          /\ com = WithText(Command("activateItem", e.on), TextOf(e), {"newline", "quote"})

ClickedInVain(e, com) ==
    \/ Class(e.on) = "QMenu" /\ com = WithText(Command("activateMenuItem", e.on), TextOf(e), {})
    \/ e.kind = "dblclick" /\ com = WithText(Command("doubleClickItem", e.on), TextOf(e), {"newline"})
    \/ e.kind = "dblclick" /\ com.fun = "doubleClickOnItemInView"

ClickedInList(e, com) ==
    /\ e.item # 0 /\ Class(e.on) = "QListWidget" /\ ListText(e) # NoText
    /\ com = WithText(Command("activateItem", e.on), ListText(e), {})

ClickedInView(e, com) ==
    /\ e.item # 0 /\ Class(e.on) \in {"QTreeView", "QTreeWidget", "QTableView"}
    /\ e.kind # "dblclick"
    /\ com = InView(e)

ClickedTitle(e, com) ==
    /\ e.item # 0 /\ Class(e.on) = "QWorkspace" /\ e.kind = "press" /\ e.button = "left"
    /\ com = WithText(Command("chooseWindowWithTitle", e.on), TextOf(e), {})

ClickedButton(e, com) ==
    /\ Class(e.on) = "QPushButton" /\ e.kind = "press" /\ e.button = "left"
    /\ Parent(e.on) # Null
    /\ com = WithText(Command("pressButtonWithText", Parent(e.on)), TextOf(e), {"newline"})

Clicked(e, com) ==
    \/ ClickedItem(e, com) \/ ClickedInVain(e, com) \/ ClickedInList(e, com)
    \/ ClickedInView(e, com) \/ ClickedTitle(e, com) \/ ClickedButton(e, com)
    \/ com = MouseEventToJavaScript(e)

LEMMA AnswersAre ==
    ASSUME NEW e
    PROVE  /\ DOMAIN Answers(e) = 1..11
           /\ Answers(e)[1] = QMenuActivateClick(e)
           /\ Answers(e)[2] = QTreeWidgetActivateClick(e)
           /\ Answers(e)[3] = QComboBoxActivateClick(e)
           /\ Answers(e)[4] = QListWidgetActivateClick(e)
           /\ Answers(e)[5] = QTabBarActivateClick(e)
           /\ Answers(e)[6] = QTreeViewActivateClick(e)
           /\ Answers(e)[7] = QListViewActivateClick(e)
           /\ Answers(e)[8] = QTableViewActivateClick(e)
           /\ Answers(e)[9] = WorkspaceTitleBarPressed(e)
           /\ Answers(e)[10] = ClickOnUnnamedButton(e)
           /\ Answers(e)[11] = {MouseEventToJavaScript(e)}
BY DEF Answers

\* Which analyzers have nothing to say
LEMMA Silent ==
    ASSUME NEW e
    PROVE  /\ Class(e.on) # "QMenu" \/ e.item = 0 => QMenuActivateClick(e) = {}
           /\ Class(e.on) # "QTreeWidget" \/ e.item = 0 \/ TextOf(e) = NoText
                 => QTreeWidgetActivateClick(e) = {}
           /\ Class(e.on) # "QComboBox" \/ e.item = 0 => QComboBoxActivateClick(e) = {}
           /\ Class(e.on) # "QListWidget" \/ e.item = 0 \/ ListText(e) = NoText
                 => QListWidgetActivateClick(e) = {}
           /\ Class(e.on) # "QTabBar" \/ e.item = 0 => QTabBarActivateClick(e) = {}
           /\ Class(e.on) \notin {"QTreeView", "QTreeWidget"} \/ e.item = 0
                 => QTreeViewActivateClick(e) = {}
           /\ (\/ Class(e.on) \notin {"QListView", "QListWidget"} \/ e.item = 0
               \/ TextOf(e) = NoText \/ Item(e.on, e.item).caption # NoText)
                 => QListViewActivateClick(e) = {}
           /\ Class(e.on) # "QTableView" \/ e.item = 0 => QTableViewActivateClick(e) = {}
           /\ Class(e.on) # "QWorkspace" => WorkspaceTitleBarPressed(e) = {}
           /\ Class(e.on) # "QPushButton" => ClickOnUnnamedButton(e) = {}
<1>1. Class(e.on) # "QMenu" \/ e.item = 0 => QMenuActivateClick(e) = {}
  BY DEF QMenuActivateClick
<1>2. Class(e.on) # "QTreeWidget" \/ e.item = 0 \/ TextOf(e) = NoText
         => QTreeWidgetActivateClick(e) = {}
  BY DEF QTreeWidgetActivateClick
<1>3. Class(e.on) # "QComboBox" \/ e.item = 0 => QComboBoxActivateClick(e) = {}
  BY DEF QComboBoxActivateClick
<1>4. Class(e.on) # "QListWidget" \/ e.item = 0 \/ ListText(e) = NoText
         => QListWidgetActivateClick(e) = {}
  BY DEF QListWidgetActivateClick, ListText
<1>5. Class(e.on) # "QTabBar" \/ e.item = 0 => QTabBarActivateClick(e) = {}
  BY DEF QTabBarActivateClick
<1>6. Class(e.on) \notin {"QTreeView", "QTreeWidget"} \/ e.item = 0
         => QTreeViewActivateClick(e) = {}
  BY InheritsIs DEF QTreeViewActivateClick
<1>7. (\/ Class(e.on) \notin {"QListView", "QListWidget"} \/ e.item = 0
       \/ TextOf(e) = NoText \/ Item(e.on, e.item).caption # NoText)
         => QListViewActivateClick(e) = {}
  BY InheritsIs DEF QListViewActivateClick
<1>8. Class(e.on) # "QTableView" \/ e.item = 0 => QTableViewActivateClick(e) = {}
  BY DEF QTableViewActivateClick
<1>9. Class(e.on) # "QWorkspace" => WorkspaceTitleBarPressed(e) = {}
  BY DEF WorkspaceTitleBarPressed
<1>10. Class(e.on) # "QPushButton" => ClickOnUnnamedButton(e) = {}
  BY DEF ClickOnUnnamedButton
<1> QED
  BY <1>1, <1>2, <1>3, <1>4, <1>5, <1>6, <1>7, <1>8, <1>9, <1>10

LEMMA Answered ==
    ASSUME NEW e, NEW n \in 1..11, Answers(e)[n] # {}, \A m \in 1..(n - 1) : Answers(e)[m] = {}
    PROVE  MouseCommand(e) = Answers(e)[n]
<1>1. DOMAIN Answers(e) = 1..11 /\ 11 \in Nat
  BY AnswersAre
<1>a. PICK a : a = Answers(e)
  OBVIOUS
<1>2. FirstOf(a) = a[n]
  BY <1>1, <1>a, FirstOfIs
<1> QED
  BY <1>2, <1>a DEF MouseCommand

\* Has the command been recorded as an answer to a click on its widget?
RecordedAs(e, com) == MouseCommand(e) = {com} /\ Clicked(e, com)

LEMMA OnMenu ==
    ASSUME NEW e, Class(e.on) = "QMenu", e.item # 0
    PROVE  \E com : RecordedAs(e, com)
<1>c. PICK com : com = WithText(Command(IF Name(e.on) # NoName THEN "activateItem"
                                        ELSE "activateMenuItem", e.on), TextOf(e), {})
  OBVIOUS
<1>1. Answers(e)[1] = {com}
  BY <1>c, AnswersAre DEF QMenuActivateClick
<1>2. MouseCommand(e) = {com}
  BY <1>1, Answered
<1>3. Clicked(e, com)
  BY <1>c DEF Clicked, ClickedItem, ClickedInVain
<1> QED
  BY <1>2, <1>3 DEF RecordedAs

LEMMA OnTree ==
    ASSUME NEW e, Class(e.on) \in {"QTreeWidget", "QTreeView"}, e.item # 0
    PROVE  \E com : RecordedAs(e, com)
<1>1. /\ Answers(e)[1] = {} /\ Answers(e)[3] = {} /\ Answers(e)[4] = {} /\ Answers(e)[5] = {}
      /\ Class(e.on) # "QTreeWidget" \/ TextOf(e) = NoText => Answers(e)[2] = {}
  BY AnswersAre, Silent
<1>2. CASE Class(e.on) = "QTreeWidget" /\ TextOf(e) # NoText
  <2>c. PICK com : com = WithText(Command(IF e.kind = "dblclick" THEN "doubleClickItem"
                                          ELSE "activateItem", e.on), TextOf(e), {"newline"})
    OBVIOUS
  <2>1. Answers(e)[2] = {com}
    BY <1>2, <2>c, AnswersAre DEF QTreeWidgetActivateClick
  <2>2. MouseCommand(e) = {com}
    BY <1>1, <2>1, Answered
  <2>3. Clicked(e, com)
    BY <1>2, <2>c DEF Clicked, ClickedItem, ClickedInVain
  <2> QED
    BY <2>2, <2>3 DEF RecordedAs
<1>3. CASE ~(Class(e.on) = "QTreeWidget" /\ TextOf(e) # NoText)
  <2>c. PICK com : com = InView(e)
    OBVIOUS
  <2>1. Answers(e)[6] = {com}
    BY <2>c, AnswersAre, InheritsIs DEF QTreeViewActivateClick
  <2>2. MouseCommand(e) = {com}
    BY <1>1, <1>3, <2>1, Answered
  <2>3. e.kind = "dblclick" => com.fun = "doubleClickOnItemInView"
    BY <2>c DEF InView, Command, Call
  <2>4. Clicked(e, com)
    BY <2>3, <2>c DEF Clicked, ClickedInView, ClickedInVain
  <2> QED
    BY <2>2, <2>4 DEF RecordedAs
<1> QED
  BY <1>2, <1>3

LEMMA OnTable ==
    ASSUME NEW e, Class(e.on) = "QTableView", e.item # 0
    PROVE  \E com : RecordedAs(e, com)
<1>1. \A m \in 1..7 : Answers(e)[m] = {}
  <2>1. /\ Answers(e)[1] = {} /\ Answers(e)[2] = {} /\ Answers(e)[3] = {}
        /\ Answers(e)[4] = {} /\ Answers(e)[5] = {} /\ Answers(e)[6] = {}
        /\ Answers(e)[7] = {}
    <3>1. /\ QMenuActivateClick(e) = {} /\ QTreeWidgetActivateClick(e) = {}
          /\ QComboBoxActivateClick(e) = {} /\ QListWidgetActivateClick(e) = {}
          /\ QTabBarActivateClick(e) = {} /\ QTreeViewActivateClick(e) = {}
          /\ QListViewActivateClick(e) = {}
      BY Silent
    <3> QED
      BY <3>1, AnswersAre
  <2> QED
    BY <2>1
<1>c. PICK com : com = InView(e)
  OBVIOUS
<1>2. Answers(e)[8] = {com}
  BY <1>c, AnswersAre DEF QTableViewActivateClick
<1>3. MouseCommand(e) = {com}
  BY <1>1, <1>2, Answered
<1>4. e.kind = "dblclick" => com.fun = "doubleClickOnItemInView"
  BY <1>c DEF InView, Command, Call
<1>5. Clicked(e, com)
  BY <1>4, <1>c DEF Clicked, ClickedInView, ClickedInVain
<1> QED
  BY <1>3, <1>5 DEF RecordedAs

LEMMA OnComboOrTabs ==
    ASSUME NEW e, Class(e.on) \in {"QComboBox", "QTabBar"}, e.item # 0
    PROVE  \E com : RecordedAs(e, com)
<1>1. /\ Answers(e)[1] = {} /\ Answers(e)[2] = {} /\ Answers(e)[4] = {}
      /\ Class(e.on) = "QTabBar" => Answers(e)[3] = {}
  BY AnswersAre, Silent
<1>c. PICK com : com = WithText(Command("activateItem", e.on), TextOf(e), {})
  OBVIOUS
<1>2. CASE Class(e.on) = "QComboBox"
  <2>1. Answers(e)[3] = {com}
    BY <1>2, <1>c, AnswersAre DEF QComboBoxActivateClick
  <2>2. MouseCommand(e) = {com}
    BY <1>1, <2>1, Answered
  <2> QED
    BY <1>c, <2>2 DEF RecordedAs, Clicked, ClickedItem
<1>3. CASE Class(e.on) = "QTabBar"
  <2>1. Answers(e)[5] = {com}
    BY <1>3, <1>c, AnswersAre DEF QTabBarActivateClick
  <2>2. MouseCommand(e) = {com}
    BY <1>1, <1>3, <2>1, Answered
  <2> QED
    BY <1>c, <2>2 DEF RecordedAs, Clicked, ClickedItem
<1> QED
  BY <1>2, <1>3

\* What no other analyzer answers is a click at a position.
LEMMA OnNothing ==
    ASSUME NEW e, \A m \in 1..10 : Answers(e)[m] = {}
    PROVE  \E com : RecordedAs(e, com)
<1>c. PICK com : com = MouseEventToJavaScript(e)
  OBVIOUS
<1>1. Answers(e)[11] = {com}
  BY <1>c, AnswersAre
<1>2. MouseCommand(e) = {com}
  BY <1>1, Answered
<1> QED
  BY <1>2, <1>c DEF RecordedAs, Clicked

LEMMA OnList ==
    ASSUME NEW e, Class(e.on) \in {"QListWidget", "QListView"}, e.item # 0
    PROVE  \E com : RecordedAs(e, com)
<1>1. /\ Answers(e)[1] = {} /\ Answers(e)[2] = {} /\ Answers(e)[3] = {}
      /\ Answers(e)[5] = {} /\ Answers(e)[6] = {}
      /\ Class(e.on) # "QListWidget" \/ ListText(e) = NoText => Answers(e)[4] = {}
      /\ Answers(e)[8] = {} /\ Answers(e)[9] = {} /\ Answers(e)[10] = {}
      /\ TextOf(e) = NoText \/ Item(e.on, e.item).caption # NoText => Answers(e)[7] = {}
  BY AnswersAre, Silent
<1>2. CASE Class(e.on) = "QListWidget" /\ ListText(e) # NoText
  <2>c. PICK com : com = WithText(Command("activateItem", e.on), ListText(e), {})
    OBVIOUS
  <2>1. Answers(e)[4] = {com}
    BY <1>2, <2>c, AnswersAre DEF QListWidgetActivateClick, ListText
  <2>2. MouseCommand(e) = {com}
    BY <1>1, <2>1, Answered
  <2> QED
    BY <1>2, <2>2, <2>c DEF RecordedAs, Clicked, ClickedInList
<1>3. CASE Class(e.on) = "QListView" /\ TextOf(e) # NoText /\ Item(e.on, e.item).caption = NoText
  <2>c. PICK com : com = WithText(Command("activateItem", e.on), TextOf(e), {"newline", "quote"})
    OBVIOUS
  <2>1. Answers(e)[7] = {com}
    BY <1>3, <2>c, AnswersAre, InheritsIs DEF QListViewActivateClick
  <2>2. MouseCommand(e) = {com}
    BY <1>1, <1>3, <2>1, Answered
  <2> QED
    BY <1>3, <2>2, <2>c DEF RecordedAs, Clicked, ClickedItem
<1>4. CASE /\ ~(Class(e.on) = "QListWidget" /\ ListText(e) # NoText)
           /\ ~(Class(e.on) = "QListView" /\ TextOf(e) # NoText /\ Item(e.on, e.item).caption = NoText)
  <2>1. Answers(e)[4] = {}
    BY <1>1, <1>4
  <2>2. Answers(e)[7] = {}
    <3>1. CASE Class(e.on) = "QListView"
      BY <1>1, <1>4, <3>1
    <3>2. CASE Class(e.on) = "QListWidget"
      <4>1. ListText(e) = NoText
        BY <1>4, <3>2
      <4>2. TextOf(e) = NoText \/ Item(e.on, e.item).caption # NoText
        BY <4>1 DEF ListText, TextOf
      <4> QED
        BY <1>1, <4>2
    <3> QED
      BY <3>1, <3>2
  <2>3. \A m \in 1..10 : Answers(e)[m] = {}
    BY <1>1, <2>1, <2>2
  <2> QED
    BY <2>3, OnNothing
<1> QED
  BY <1>2, <1>3, <1>4

LEMMA OnWorkspace ==
    ASSUME NEW e, Class(e.on) = "QWorkspace"
    PROVE  \E com : RecordedAs(e, com)
<1>1. \A m \in 1..10 : m # 9 => Answers(e)[m] = {}
  <2>1. /\ Answers(e)[1] = {} /\ Answers(e)[2] = {} /\ Answers(e)[3] = {}
        /\ Answers(e)[4] = {} /\ Answers(e)[5] = {} /\ Answers(e)[6] = {}
        /\ Answers(e)[7] = {} /\ Answers(e)[8] = {} /\ Answers(e)[10] = {}
    <3>1. /\ QMenuActivateClick(e) = {} /\ QTreeWidgetActivateClick(e) = {}
          /\ QComboBoxActivateClick(e) = {} /\ QListWidgetActivateClick(e) = {}
          /\ QTabBarActivateClick(e) = {} /\ QTreeViewActivateClick(e) = {}
          /\ QListViewActivateClick(e) = {} /\ QTableViewActivateClick(e) = {}
          /\ ClickOnUnnamedButton(e) = {}
      BY Silent
    <3> QED
      BY <3>1, AnswersAre
  <2> QED
    BY <2>1
<1>2. CASE e.item # 0 /\ e.kind = "press" /\ e.button = "left"
  <2>c. PICK com : com = WithText(Command("chooseWindowWithTitle", e.on), TextOf(e), {})
    OBVIOUS
  <2>1. Answers(e)[9] = {com}
    BY <1>2, <2>c, AnswersAre DEF WorkspaceTitleBarPressed
  <2>2. \A m \in 1..8 : Answers(e)[m] = {}
    BY <1>1
  <2>3. MouseCommand(e) = {com}
    BY <2>1, <2>2, Answered
  <2> QED
    BY <1>2, <2>3, <2>c DEF RecordedAs, Clicked, ClickedTitle
<1>3. CASE ~(e.item # 0 /\ e.kind = "press" /\ e.button = "left")
  <2>1. Answers(e)[9] = {}
    BY <1>3, AnswersAre DEF WorkspaceTitleBarPressed
  <2> QED
    BY <1>1, <2>1, OnNothing
<1> QED
  BY <1>2, <1>3

LEMMA OnButton ==
    ASSUME NEW e, Class(e.on) = "QPushButton"
    PROVE  \E com : RecordedAs(e, com)
<1>1. \A m \in 1..9 : Answers(e)[m] = {}
  <2>1. /\ Answers(e)[1] = {} /\ Answers(e)[2] = {} /\ Answers(e)[3] = {}
        /\ Answers(e)[4] = {} /\ Answers(e)[5] = {} /\ Answers(e)[6] = {}
        /\ Answers(e)[7] = {} /\ Answers(e)[8] = {} /\ Answers(e)[9] = {}
    <3>1. /\ QMenuActivateClick(e) = {} /\ QTreeWidgetActivateClick(e) = {}
          /\ QComboBoxActivateClick(e) = {} /\ QListWidgetActivateClick(e) = {}
          /\ QTabBarActivateClick(e) = {} /\ QTreeViewActivateClick(e) = {}
          /\ QListViewActivateClick(e) = {} /\ QTableViewActivateClick(e) = {}
          /\ WorkspaceTitleBarPressed(e) = {}
      BY Silent
    <3> QED
      BY <3>1, AnswersAre
  <2> QED
    BY <2>1
<1>2. CASE Answers(e)[10] # {}
  <2>c. PICK com : com = WithText(Command("pressButtonWithText", Parent(e.on)), TextOf(e), {"newline"})
    OBVIOUS
  <2>1. /\ Answers(e)[10] = {com} /\ Parent(e.on) # Null
        /\ e.kind = "press" /\ e.button = "left"
    BY <1>2, <2>c, AnswersAre DEF ClickOnUnnamedButton
  <2>2. MouseCommand(e) = {com}
    BY <1>1, <2>1, Answered
  <2> QED
    BY <2>1, <2>2, <2>c DEF RecordedAs, Clicked, ClickedButton
<1>3. CASE Answers(e)[10] = {}
  BY <1>1, <1>3, OnNothing
<1> QED
  BY <1>2, <1>3

Answering == {"QMenu", "QTreeWidget", "QTreeView", "QTableView", "QComboBox", "QTabBar",
              "QListWidget", "QListView", "QWorkspace", "QPushButton"}

\* For every click one command is recorded.
LEMMA ClickRecorded ==
    ASSUME NEW e
    PROVE  \E com : RecordedAs(e, com)
<1>1. CASE Class(e.on) = "QWorkspace"
  BY <1>1, OnWorkspace
<1>2. CASE Class(e.on) = "QPushButton"
  BY <1>2, OnButton
<1>3. CASE e.item # 0 /\ Class(e.on) \in Answering \ {"QWorkspace", "QPushButton"}
  BY <1>3, OnMenu, OnTree, OnTable, OnComboOrTabs, OnList DEF Answering
<1>4. CASE e.item = 0 /\ Class(e.on) \notin {"QWorkspace", "QPushButton"}
  <2>1. \A m \in 1..10 : Answers(e)[m] = {}
    <3>1. /\ Answers(e)[1] = {} /\ Answers(e)[2] = {} /\ Answers(e)[3] = {}
          /\ Answers(e)[4] = {} /\ Answers(e)[5] = {} /\ Answers(e)[6] = {}
          /\ Answers(e)[7] = {} /\ Answers(e)[8] = {} /\ Answers(e)[9] = {}
          /\ Answers(e)[10] = {}
      <4>1. /\ QMenuActivateClick(e) = {} /\ QTreeWidgetActivateClick(e) = {}
            /\ QComboBoxActivateClick(e) = {} /\ QListWidgetActivateClick(e) = {}
            /\ QTabBarActivateClick(e) = {} /\ QTreeViewActivateClick(e) = {}
            /\ QListViewActivateClick(e) = {} /\ QTableViewActivateClick(e) = {}
            /\ WorkspaceTitleBarPressed(e) = {} /\ ClickOnUnnamedButton(e) = {}
        BY <1>4, Silent
      <4> QED
        BY <4>1, AnswersAre
    <3> QED
      BY <3>1
  <2> QED
    BY <2>1, OnNothing
<1>5. CASE Class(e.on) \notin Answering
  <2>1. \A m \in 1..10 : Answers(e)[m] = {}
    <3>1. /\ Answers(e)[1] = {} /\ Answers(e)[2] = {} /\ Answers(e)[3] = {}
          /\ Answers(e)[4] = {} /\ Answers(e)[5] = {} /\ Answers(e)[6] = {}
          /\ Answers(e)[7] = {} /\ Answers(e)[8] = {} /\ Answers(e)[9] = {}
          /\ Answers(e)[10] = {}
      <4>1. /\ QMenuActivateClick(e) = {} /\ QTreeWidgetActivateClick(e) = {}
            /\ QComboBoxActivateClick(e) = {} /\ QListWidgetActivateClick(e) = {}
            /\ QTabBarActivateClick(e) = {} /\ QTreeViewActivateClick(e) = {}
            /\ QListViewActivateClick(e) = {} /\ QTableViewActivateClick(e) = {}
            /\ WorkspaceTitleBarPressed(e) = {} /\ ClickOnUnnamedButton(e) = {}
        BY <1>5, Silent DEF Answering
      <4> QED
        BY <4>1, AnswersAre
    <3> QED
      BY <3>1
  <2> QED
    BY <2>1, OnNothing
<1> QED
  BY <1>1, <1>2, <1>3, <1>4, <1>5

-----------------------------------------------------------------------------
(* What the command is, whatever the names of the widgets are by now *)

ItemFits(e, com) ==
    /\ e.item # 0
    /\ Class(e.on) \in {"QMenu", "QTreeWidget", "QComboBox", "QTabBar", "QListView"}
    /\ com.fun = "activateItem" /\ com.text = TextOf(e)

VainFits(e, com) ==
    /\ com.fun \in {"activateMenuItem", "doubleClickItem", "doubleClickOnItemInView"}
    /\ com.fun = "activateMenuItem" \/ e.kind = "dblclick"

ListFits(e, com) ==
    /\ e.item # 0 /\ Class(e.on) = "QListWidget" /\ ListText(e) # NoText
    /\ com.fun = "activateItem" /\ com.text = ListText(e)

ViewFits(e, com) ==
    /\ e.item # 0 /\ Class(e.on) \in {"QTreeView", "QTreeWidget", "QTableView"}
    /\ e.kind # "dblclick"
    /\ com.fun = "activateItemInView" /\ com.pos = ModelIndexToPos(e.on, e.item)
    /\ com.text = NoText

TitleFits(e, com) ==
    /\ e.item # 0 /\ Class(e.on) = "QWorkspace" /\ e.kind = "press" /\ e.button = "left"
    /\ com.fun = "chooseWindowWithTitle" /\ com.text = TextOf(e)

ButtonFits(e, com) ==
    /\ Class(e.on) = "QPushButton" /\ e.kind = "press" /\ e.button = "left"
    /\ Parent(e.on) # Null
    /\ com.fun = "pressButtonWithText" /\ com.text = TextOf(e)

PointFits(e, com) ==
    /\ com.fun = IF e.kind = "dblclick" THEN "mouseDClick" ELSE "mouseClick"
    /\ com.at = e.item /\ com.button = e.button /\ com.text = NoText

ClickFits(e, com) ==
    \/ ItemFits(e, com) \/ VainFits(e, com) \/ ListFits(e, com) \/ ViewFits(e, com)
    \/ TitleFits(e, com) \/ ButtonFits(e, com) \/ PointFits(e, com)

ExpansionFits(e, com) ==
    IF Class(e.on) = "QTreeWidget"
    THEN com.fun = "expandItemInTree" /\ com.text = TextOf(e)
    ELSE /\ com.fun = "expandItemInTreeView" /\ com.pos = ModelIndexToPos(e.on, e.item)
         /\ com.text = NoText

\* The modifiers that a user holds down, in their order
Held(h) ==
    LET held(k) == IF k \in h THEN <<k>> ELSE <<>>
    IN  held("Shift") \o held("Alt") \o held("Control") \o held("Meta")

KeySequence(e) ==
    CASE Len(Held(e.modifiers)) = 4 -> <<>>
      [] Len(Held(e.modifiers)) # 4 /\ e.key = "unknown" -> Held(e.modifiers)
      [] OTHER -> Append(Held(e.modifiers), e.key)

KeyFits(e, com) ==
    /\ e.key # "0"
    /\ com.fun = "keyClick" /\ com.keys = KeySequence(e) /\ com.text = NoText

Fits(e, com) ==
    \/ e.kind # "expand" /\ e.kind # "key" /\ ClickFits(e, com)
    \/ e.kind = "expand" /\ ExpansionFits(e, com)
    \/ e.kind = "key" /\ KeyFits(e, com)

\* The command for a slot has the name of the widget that it is for.
NamedFor(e, com) == com.fun \in Slots => com.names = FullQtWidgetId(Target(e, com))

LEMMA ClickedFits ==
    ASSUME NEW e, NEW com, Clicked(e, com)
    PROVE  ClickFits(e, com) /\ NamedFor(e, com)
<1>1. CASE ClickedItem(e, com)
  <2>1. ItemFits(e, com) /\ com.names = FullQtWidgetId(e.on)
    BY <1>1, CommandIs DEF ClickedItem, ItemFits
  <2> QED
    BY <2>1 DEF ClickFits, NamedFor, Target, ItemFits
<1>2. CASE ClickedInVain(e, com)
  <2>1. VainFits(e, com)
    BY <1>2, CommandIs DEF ClickedInVain, VainFits
  <2> QED
    BY <2>1 DEF ClickFits, NamedFor, VainFits, Slots, TextFunctions
<1>3. CASE ClickedInList(e, com)
  <2>1. ListFits(e, com) /\ com.names = FullQtWidgetId(e.on)
    BY <1>3, CommandIs DEF ClickedInList, ListFits
  <2> QED
    BY <2>1 DEF ClickFits, NamedFor, Target, ListFits
<1>4. CASE ClickedInView(e, com)
  <2>1. ViewFits(e, com) /\ com.names = FullQtWidgetId(e.on)
    BY <1>4 DEF ClickedInView, InView, Command, Call, ViewFits
  <2> QED
    BY <2>1 DEF ClickFits, NamedFor, Target, ViewFits
<1>5. CASE ClickedTitle(e, com)
  <2>1. TitleFits(e, com) /\ com.names = FullQtWidgetId(e.on)
    BY <1>5, CommandIs DEF ClickedTitle, TitleFits
  <2> QED
    BY <2>1 DEF ClickFits, NamedFor, Target, TitleFits
<1>6. CASE ClickedButton(e, com)
  <2>1. ButtonFits(e, com) /\ com.names = FullQtWidgetId(Parent(e.on))
    BY <1>6, CommandIs DEF ClickedButton, ButtonFits
  <2> QED
    BY <2>1 DEF ClickFits, NamedFor, Target, ButtonFits
<1>7. CASE com = MouseEventToJavaScript(e)
  <2>1. PointFits(e, com) /\ com.names = FullQtWidgetId(e.on)
    BY <1>7 DEF MouseEventToJavaScript, Command, Call, PointFits
  <2>2. com.fun # "pressButtonWithText"
    BY <2>1 DEF PointFits
  <2> QED
    BY <2>1, <2>2 DEF ClickFits, NamedFor, Target
<1> QED
  BY <1>1, <1>2, <1>3, <1>4, <1>5, <1>6, <1>7 DEF Clicked

-----------------------------------------------------------------------------
(* What the recorded command does *)

\* What may be wrong with a command, but for its name and its quotes
Slips(e, com) ==
    \/ KeysLost(e) \/ e.button = "other" \/ Literal[com.text] # com.text
    \/ Simplified(e, com) \/ TextTaken(e, com)

\* The command does what e was if, and nearly only if, nothing is wrong with it.
Exact(e, com) ==
    IF Slips(e, com)
    THEN \/ Performed(com, Target(e, com)) # {e} \/ Class(e.on) = "QListWidget"
         \/ Class(e.on) = "QTreeWidget" /\ Literal[com.text] # com.text
    ELSE Performed(com, Target(e, com)) = {e}

\* A command for an item is right when it finds the first of some items.
LEMMA FirstRight ==
    ASSUME NEW e, IsEvent(e), e.kind # "key", e.key = "0", e.modifiers = {},
           NEW com, Literal[com.text] = com.text,
           NEW kind, kind # "key", NEW found \in SUBSET Nat, e.item \in found,
           Performed(com, Target(e, com)) = OnFirst(kind, e.on, found),
           TextTaken(e, com) <=> \E n \in found : n < e.item,
           Simplified(e, com) <=> ~(e.kind = kind /\ e.button = "left")
    PROVE  Exact(e, com)
<1>1. ~KeysLost(e)
  BY DEF KeysLost
<1>2. Slips(e, com) <=> e.button = "other" \/ Simplified(e, com) \/ TextTaken(e, com)
  BY <1>1 DEF Slips
<1>3. OnFirst(kind, e.on, found) = {e}
        <=> (\A n \in found : ~(n < e.item)) /\ e.kind = kind /\ e.button = "left"
  BY OnFirstIs
<1>4. Performed(com, Target(e, com)) = {e} <=> ~Slips(e, com)
  BY <1>2, <1>3
<1> QED
  BY <1>4 DEF Exact

\* A command whose text the script engine reads as another one misses the item.
LEMMA OthersMissed ==
    ASSUME NEW e, NEW kind, NEW v, NEW found \in SUBSET Nat, e.item \notin found
    PROVE  OnFirst(kind, v, found) # {e}
<1>1. CASE found = {}
  BY <1>1 DEF OnFirst
<1>2. CASE found # {}
  <2>1. PICK k : k \in found
    BY <1>2
  <2>2. PICK j \in found : OnFirst(kind, v, found) = Happening(kind, v, j)
    BY <2>1, FirstIs
  <2>3. j # e.item
    OBVIOUS
  <2> QED
    BY <2>2, <2>3 DEF Happening
<1> QED
  BY <1>1, <1>2

LEMMA MissedRight ==
    ASSUME NEW e, NEW com, Literal[com.text] # com.text,
           Performed(com, Target(e, com)) # {e} \/ Class(e.on) = "QTreeWidget"
    PROVE  Exact(e, com)
BY DEF Exact, Slips

\* What the user does with the mouse
LEMMA MouseFacts ==
    ASSUME TreeTypeOK, NEW v \in Objects, NEW e \in Mouse(v)
    PROVE  /\ IsEvent(e) /\ e.on = v /\ e.kind \in {"press", "dblclick"} /\ e.kind # "key"
           /\ e.key = "0" /\ e.modifiers = {} /\ e.button \in {"left", "right", "other"}
           /\ e.item # 0 => e.item \in Items(v)
           /\ Items(v) \subseteq Nat \ {0}
           /\ \A com : Recorded(e) = {com} <=> MouseCommand(e) = {com}
<1>1. IsEvent(e) /\ e.on = v /\ e.kind \in {"press", "dblclick"} /\ e.key = "0"
      /\ e.modifiers = {} /\ e.button \in {"left", "right", "other"}
      /\ e.item \in {0} \cup Items(v)
  BY DEF Mouse, IsEvent
<1>2. Items(v) \subseteq Nat \ {0}
  <2>1. PICK n \in Nat : Items(v) = 1..n
    BY ItemFacts DEF Numbered
  <2> QED
    BY <2>1
<1>3. e.kind # "key" /\ e.kind # "expand"
  BY <1>1
<1>4. Recorded(e) = MouseCommand(e)
  BY <1>3 DEF Recorded
<1> QED
  BY <1>1, <1>2, <1>3, <1>4

\* The items with the text of e's item, as Exactly finds them
LEMMA ExactlyFinds ==
    ASSUME NEW v, NEW k \in Items(v), Items(v) \subseteq Nat \ {0}, NEW text,
           text = Item(v, k).text
    PROVE  /\ Exactly(v, text) \in SUBSET Nat /\ k \in Exactly(v, text)
           /\ (\E n \in Exactly(v, text) : n < k) <=> \E n \in 1..(k - 1) : n \in Items(v) /\ Item(v, n).text = text
BY DEF Exactly

LEMMA StartsWithFinds ==
    ASSUME NEW v, NEW k \in Items(v), Items(v) \subseteq Nat \ {0}, NEW text,
           text = Item(v, k).text
    PROVE  /\ StartsWith(v, text) \in SUBSET Nat /\ k \in StartsWith(v, text)
           /\ (\E n \in StartsWith(v, text) : n < k)
                 <=> \E n \in 1..(k - 1) : n \in Items(v) /\ \/ Item(v, n).text = text
                                                             \/ <<text, Item(v, n).text>> \in Prefix
<1>1. StartsWith(v, text) = {n \in Items(v) : \/ Item(v, n).text = text
                                              \/ <<text, Item(v, n).text>> \in Prefix}
  BY DEF StartsWith
<1>2. \A n \in Items(v) : n < k <=> n \in 1..(k - 1)
  OBVIOUS
<1> QED
  BY <1>1, <1>2

\* The items before an item are items.
LEMMA BeforeAreItems ==
    ASSUME TreeTypeOK, NEW v \in Objects, NEW k \in Items(v)
    PROVE  \A n \in 1..(k - 1) : n \in Items(v)
<1>1. PICK m \in Nat : Items(v) = 1..m
  BY ItemFacts DEF Numbered
<1> QED
  BY <1>1

LEMMA TakenByText ==
    ASSUME NEW e, NEW com, com.fun \in TextFunctions \ {"pressButtonWithText"},
           Class(e.on) \notin {"QTreeWidget", "QListWidget", "QPushButton"}
    PROVE  TextTaken(e, com) <=> \E n \in 1..(e.item - 1) : Item(e.on, n).text = com.text
BY DEF TextTaken

LEMMA TakenByPrefix ==
    ASSUME NEW e, NEW com, com.fun \in TextFunctions \ {"pressButtonWithText"},
           Class(e.on) = "QTreeWidget"
    PROVE  TextTaken(e, com) <=> \E n \in 1..(e.item - 1) :
                                    \/ Item(e.on, n).text = com.text
                                    \/ <<com.text, Item(e.on, n).text>> \in Prefix
BY DEF TextTaken

LEMMA TakenByNone ==
    ASSUME NEW e, NEW com, com.fun \notin TextFunctions
    PROVE  ~TextTaken(e, com)
BY DEF TextTaken

LEMMA ItemClickRight ==
    ASSUME TreeTypeOK, NEW v \in Objects, NEW e \in Mouse(v), NEW com, ItemFits(e, com)
    PROVE  Exact(e, com)
<1>1. /\ IsEvent(e) /\ e.on = v /\ e.kind \in {"press", "dblclick"} /\ e.kind # "key"
      /\ e.key = "0" /\ e.modifiers = {} /\ e.item \in Items(v) /\ Items(v) \subseteq Nat \ {0}
  BY MouseFacts DEF ItemFits
<1>2. com.fun = "activateItem" /\ com.text = TextOf(e)
  BY DEF ItemFits
<1>3. com.text = Item(v, e.item).text
  BY <1>1, <1>2 DEF TextOf
<1>4. Target(e, com) = v
  BY <1>1, <1>2 DEF Target
<1>l. Performed(com, v) = ActivateItemInGuiThread(v, Literal[com.text])
  BY <1>2 DEF Performed
<1>g. CASE Literal[com.text] # com.text
  <2>1. CASE Class(v) \in {"QMenu", "QComboBox", "QTabBar", "QListView"}
    <3>t. PICK text : text = Literal[com.text]
      OBVIOUS
    <3>1. ActivateItemInGuiThread(v, text) = OnFirst("press", v, Exactly(v, text))
      BY <2>1 DEF ActivateItemInGuiThread
    <3>2. Exactly(v, text) \in SUBSET Nat /\ e.item \notin Exactly(v, text)
      BY <1>1, <1>3, <1>g, <3>t DEF Exactly
    <3>3. Performed(com, Target(e, com)) # {e}
      BY <1>4, <1>l, <3>t, <3>1, <3>2, OthersMissed
    <3> QED
      BY <1>g, <3>3, MissedRight
  <2>2. Class(v) = "QTreeWidget" \/ Class(v) \in {"QMenu", "QComboBox", "QTabBar", "QListView"}
    BY <1>1 DEF ItemFits
  <2> QED
    BY <1>1, <1>g, <2>1, <2>2, MissedRight
<1> SUFFICES ASSUME Literal[com.text] = com.text PROVE Exact(e, com)
  BY <1>g
<1>5. Performed(com, v) = ActivateItemInGuiThread(v, com.text)
  BY <1>l
<1>6. Simplified(e, com) <=> ~(e.kind = "press" /\ e.button = "left")
  BY <1>1, <1>2 DEF Simplified, ItemFunctions
<1>7. \A n \in 1..(e.item - 1) : n \in Items(v)
  BY <1>1, BeforeAreItems
<1>8. CASE Class(v) \in {"QMenu", "QComboBox", "QTabBar", "QListView"}
  <2>1. ActivateItemInGuiThread(v, com.text) = OnFirst("press", v, Exactly(v, com.text))
    BY <1>8 DEF ActivateItemInGuiThread
  <2>f. PICK found \in SUBSET Nat : found = Exactly(v, com.text)
    BY <1>1, <1>3, ExactlyFinds
  <2>2. e.item \in found
    BY <1>1, <1>3, <2>f, ExactlyFinds
  <2>3. (\E n \in found : n < e.item) <=> \E n \in 1..(e.item - 1) : Item(v, n).text = com.text
    BY <1>1, <1>3, <1>7, <2>f, ExactlyFinds
  <2>4. TextTaken(e, com) <=> \E n \in 1..(e.item - 1) : Item(v, n).text = com.text
    BY <1>1, <1>2, <1>8, TakenByText DEF TextFunctions
  <2>5. Performed(com, Target(e, com)) = OnFirst("press", e.on, found)
    BY <1>1, <1>4, <1>5, <2>1, <2>f
  <2> QED
    BY <1>1, <1>6, <2>2, <2>3, <2>4, <2>5, FirstRight
<1>9. CASE Class(v) = "QTreeWidget"
  <2>1. ActivateItemInGuiThread(v, com.text) = OnFirst("press", v, StartsWith(v, com.text))
    BY <1>9 DEF ActivateItemInGuiThread
  <2>f. PICK found \in SUBSET Nat : found = StartsWith(v, com.text)
    BY <1>1, <1>3, StartsWithFinds
  <2>2. e.item \in found
    BY <1>1, <1>3, <2>f, StartsWithFinds
  <2>3. (\E n \in found : n < e.item)
            <=> \E n \in 1..(e.item - 1) : \/ Item(v, n).text = com.text
                                           \/ <<com.text, Item(v, n).text>> \in Prefix
    BY <1>1, <1>3, <1>7, <2>f, StartsWithFinds
  <2>4. TextTaken(e, com)
            <=> \E n \in 1..(e.item - 1) : \/ Item(v, n).text = com.text
                                           \/ <<com.text, Item(v, n).text>> \in Prefix
    BY <1>1, <1>2, <1>9, TakenByPrefix DEF TextFunctions
  <2>5. Performed(com, Target(e, com)) = OnFirst("press", e.on, found)
    BY <1>1, <1>4, <1>5, <2>1, <2>f
  <2> QED
    BY <1>1, <1>6, <2>2, <2>3, <2>4, <2>5, FirstRight
<1> QED
  BY <1>1, <1>8, <1>9 DEF ItemFits

LEMMA VainClickRight ==
    ASSUME NEW e, NEW com, VainFits(e, com)
    PROVE  Exact(e, com)
<1>1. Simplified(e, com)
  BY DEF VainFits, Simplified, ItemFunctions
<1>2. \A x : Performed(com, x) = {}
  BY DEF VainFits, Performed
<1> QED
  BY <1>1, <1>2 DEF Exact, Slips

LEMMA ListClickRight ==
    ASSUME TreeTypeOK, NEW v \in Objects, NEW e \in Mouse(v), NEW com, ListFits(e, com)
    PROVE  Exact(e, com)
<1>1. /\ IsEvent(e) /\ e.on = v /\ e.kind \in {"press", "dblclick"} /\ e.kind # "key"
      /\ e.key = "0" /\ e.modifiers = {} /\ e.item \in Items(v) /\ Items(v) \subseteq Nat \ {0}
      /\ Class(v) = "QListWidget"
  BY MouseFacts DEF ListFits
<1>2. com.fun = "activateItem" /\ com.text = ListText(e) /\ com.text # NoText
  BY DEF ListFits
<1>3. SUFFICES ASSUME ~Slips(e, com) PROVE Performed(com, Target(e, com)) = {e}
  BY <1>1 DEF Exact
<1>4. /\ Literal[com.text] = com.text /\ e.button # "other"
      /\ ~Simplified(e, com) /\ ~TextTaken(e, com)
  BY <1>3 DEF Slips
<1>5. e.kind = "press" /\ e.button = "left"
  <2> QED
    BY <1>1, <1>2, <1>4 DEF Simplified, ItemFunctions
<1>6. /\ \A n \in 1..(e.item - 1) : Item(v, n).text # com.text
      /\ Item(v, e.item).caption # NoText =>
            /\ e.item = 1
            /\ Item(v, 1).text = NoText => \A n \in Items(v) \ {1} : Item(v, n).text # com.text
  BY <1>1, <1>2, <1>4 DEF TextTaken, TextFunctions
<1>f. PICK found : found = FindItemInQListWidgetThatMatch(v, com.text)
  OBVIOUS
<1>7. found \in SUBSET Nat /\ e.item \in found /\ \A n \in found : ~(n < e.item)
  <2>1. CASE Item(v, e.item).text = com.text
    <3>1. e.item \in Exactly(v, com.text)
      BY <1>1, <2>1 DEF Exactly
    <3>2. found = Exactly(v, com.text)
      BY <1>f, <3>1 DEF FindItemInQListWidgetThatMatch
    <3>3. ASSUME NEW n \in found
          PROVE  n \in Nat /\ ~(n < e.item)
      <4>1. n \in Nat \ {0} /\ Item(v, n).text = com.text /\ e.item \in Nat
        BY <1>1, <3>2 DEF Exactly
      <4>2. n \notin 1..(e.item - 1)
        BY <1>6, <4>1
      <4> QED
        BY <4>1, <4>2
    <3> QED
      BY <3>1, <3>2, <3>3
  <2>2. CASE Item(v, e.item).text # com.text
    <3>1. /\ Item(v, e.item).caption # NoText /\ e.item = 1
          /\ Item(v, 1).text = NoText /\ com.text = Item(v, 1).caption
      BY <1>1, <1>2, <1>6, <2>2 DEF ListText
    <3>2. Exactly(v, com.text) = {}
      BY <1>2, <1>6, <3>1 DEF Exactly
    <3>3. found = {k \in Items(v) : /\ Item(v, k).caption # NoText
                                    /\ \/ Item(v, k).caption = com.text
                                       \/ <<com.text, Item(v, k).caption>> \in Part}
      BY <1>f, <3>2 DEF FindItemInQListWidgetThatMatch
    <3>4. e.item \in found
      BY <1>1, <3>1, <3>3
    <3>5. found \subseteq Nat \ {0}
      BY <1>1, <3>3
    <3> QED
      BY <3>1, <3>4, <3>5
  <2> QED
    BY <2>1, <2>2
<1>8. Target(e, com) = v /\ Performed(com, v) = OnFirst("press", v, found)
  BY <1>1, <1>2, <1>4, <1>f DEF Target, Performed, ActivateItemInGuiThread
<1>9. OnFirst("press", e.on, found) = {e}
  <2>F. PICK F \in SUBSET Nat : F = found
    BY <1>7
  <2>k. PICK kind : kind = "press"
    OBVIOUS
  <2>1. e.item \in F /\ \A n \in F : ~(n < e.item)
    BY <1>7, <2>F
  <2>2. OnFirst(kind, e.on, F) = {e}
              <=> /\ \A n \in F : ~(n < e.item)
                  /\ e.kind = kind /\ e.button = "left" /\ e.key = "0" /\ e.modifiers = {}
    BY <1>1, <2>1, OnFirstIs
  <2> QED
    BY <1>1, <1>5, <2>1, <2>2, <2>F, <2>k
<1> QED
  BY <1>1, <1>8, <1>9

\* In a view the item has a position of its own.
LEMMA PositionRight ==
    ASSUME TreeTypeOK, NEW v \in Objects, NEW e, IsEvent(e), e.on = v, e.kind # "key", e.key = "0",
           e.modifiers = {}, e.item \in Items(v),
           NEW com, com.fun \notin TextFunctions, com.text = NoText,
           com.pos = ModelIndexToPos(v, e.item), NEW kind, kind # "key",
           Performed(com, v) = OnFirst(kind, v, PosToModelIndex(v, com.pos)),
           Simplified(e, com) <=> ~(e.kind = kind /\ e.button = "left")
    PROVE  Exact(e, com)
<1>1. PICK n \in Nat : Items(v) = 1..n
  BY ItemFacts DEF Numbered
<1>f. PICK found \in SUBSET Nat : found = {e.item}
  <2>1. e.item \in Nat
    BY <1>1
  <2> QED
    BY <2>1
<1>2. PosToModelIndex(v, com.pos) = found
  BY <1>f, PosLeads
<1>3. Target(e, com) = v
  BY DEF Target, TextFunctions
<1>4. ~TextTaken(e, com) /\ ~\E m \in found : m < e.item
  BY <1>1, <1>f, TakenByNone
<1>6. Literal[com.text] = com.text
  BY LiteralAssumption
<1>5. Performed(com, Target(e, com)) = OnFirst(kind, e.on, found) /\ e.item \in found
  BY <1>2, <1>3, <1>f
<1> QED
  BY <1>4, <1>5, <1>6, FirstRight

LEMMA ViewClickRight ==
    ASSUME TreeTypeOK, NEW v \in Objects, NEW e \in Mouse(v), NEW com, ViewFits(e, com)
    PROVE  Exact(e, com)
<1>1. /\ IsEvent(e) /\ e.on = v /\ e.kind = "press" /\ e.kind # "key"
      /\ e.key = "0" /\ e.modifiers = {} /\ e.item \in Items(v) /\ Class(v) \in Views
  BY MouseFacts DEF ViewFits, Views
<1>2. /\ com.fun = "activateItemInView" /\ com.pos = ModelIndexToPos(v, e.item)
      /\ com.text = NoText
  BY <1>1 DEF ViewFits
<1>3. Performed(com, v) = OnFirst("press", v, PosToModelIndex(v, com.pos))
  <2>1. PosToModelIndex(v, com.pos) = {e.item}
    BY <1>1, <1>2, PosLeads
  <2> QED
    BY <1>1, <1>2, <2>1 DEF Performed, ClickOnItemInGuiThread
<1>4. Simplified(e, com) <=> ~(e.kind = "press" /\ e.button = "left")
  BY <1>1, <1>2 DEF Simplified, ItemFunctions
<1>5. com.fun \notin TextFunctions
  BY <1>2 DEF TextFunctions
<1> QED
  BY <1>1, <1>2, <1>3, <1>4, <1>5, PositionRight

LEMMA TitleClickRight ==
    ASSUME TreeTypeOK, NEW v \in Objects, NEW e \in Mouse(v), NEW com, TitleFits(e, com)
    PROVE  Exact(e, com)
<1>1. /\ IsEvent(e) /\ e.on = v /\ e.kind = "press" /\ e.kind # "key"
      /\ e.key = "0" /\ e.modifiers = {} /\ e.item \in Items(v) /\ Items(v) \subseteq Nat \ {0}
      /\ Class(v) = "QWorkspace" /\ e.button = "left"
  BY MouseFacts DEF TitleFits
<1>2. com.fun = "chooseWindowWithTitle" /\ com.text = Item(v, e.item).text
  BY <1>1 DEF TitleFits, TextOf
<1>3. Target(e, com) = v /\ ~Simplified(e, com)
  BY <1>1, <1>2 DEF Target, Simplified, ItemFunctions
<1>l. Performed(com, v) = OnFirst("press", v, Exactly(v, Literal[com.text]))
  BY <1>1, <1>2 DEF Performed, ChooseWindowWithTitle
<1>g. CASE Literal[com.text] # com.text
  <2>t. PICK text : text = Literal[com.text]
    OBVIOUS
  <2>1. Exactly(v, text) \in SUBSET Nat /\ e.item \notin Exactly(v, text)
    BY <1>1, <1>2, <1>g, <2>t DEF Exactly
  <2>2. Performed(com, Target(e, com)) # {e}
    BY <1>3, <1>l, <2>t, <2>1, OthersMissed
  <2> QED
    BY <1>g, <2>2, MissedRight
<1> SUFFICES ASSUME Literal[com.text] = com.text PROVE Exact(e, com)
  BY <1>g
<1>4. Performed(com, v) = OnFirst("press", v, Exactly(v, com.text))
  BY <1>l
<1>5. \A n \in 1..(e.item - 1) : n \in Items(v)
  BY <1>1, BeforeAreItems
<1>f. PICK found \in SUBSET Nat : found = Exactly(v, com.text)
  BY <1>1, <1>2, ExactlyFinds
<1>6. e.item \in found
  BY <1>1, <1>2, <1>f, ExactlyFinds
<1>7. (\E n \in found : n < e.item) <=> \E n \in 1..(e.item - 1) : Item(v, n).text = com.text
  BY <1>1, <1>2, <1>5, <1>f, ExactlyFinds
<1>8. TextTaken(e, com) <=> \E n \in 1..(e.item - 1) : Item(v, n).text = com.text
  BY <1>1, <1>2, TakenByText DEF TextFunctions
<1>9. Performed(com, Target(e, com)) = OnFirst("press", e.on, found)
  BY <1>1, <1>3, <1>4, <1>f
<1> QED
  BY <1>1, <1>3, <1>6, <1>7, <1>8, <1>9, FirstRight

LEMMA PointClickRight ==
    ASSUME TreeTypeOK, NEW v \in Objects, NEW e \in Mouse(v), NEW com, PointFits(e, com)
    PROVE  Exact(e, com)
<1>1. /\ IsEvent(e) /\ e.on = v /\ e.kind \in {"press", "dblclick"} /\ e.kind # "key"
      /\ e.key = "0" /\ e.modifiers = {}
  BY MouseFacts
<1>2. /\ com.fun = IF e.kind = "dblclick" THEN "mouseDClick" ELSE "mouseClick"
      /\ com.at = e.item /\ com.button = e.button /\ com.text = NoText
  BY DEF PointFits
<1>3. com.fun \in {"mouseClick", "mouseDClick"}
  BY <1>2
<1>4. ~Simplified(e, com) /\ ~TextTaken(e, com) /\ ~KeysLost(e) /\ Target(e, com) = v
  BY <1>1, <1>3 DEF Simplified, ItemFunctions, TextTaken, TextFunctions, KeysLost, Target
<1>5. Performed(com, v) = EmulateMouseBtnEventInGuiThread(v, com)
  BY <1>3 DEF Performed
<1>6. Slips(e, com) <=> e.button = "other"
  BY <1>2, <1>4, LiteralAssumption DEF Slips
<1>7. CASE e.button = "other"
  <2>1. EmulateMouseBtnEventInGuiThread(v, com) = {}
    BY <1>2, <1>7 DEF EmulateMouseBtnEventInGuiThread
  <2> QED
    BY <1>4, <1>5, <1>6, <1>7, <2>1 DEF Exact
<1>8. CASE e.button # "other"
  <2>1. EmulateMouseBtnEventInGuiThread(v, com) =
            {[on |-> v, item |-> e.item, kind |-> e.kind, button |-> e.button,
              key |-> "0", modifiers |-> {}]}
    BY <1>1, <1>2, <1>8 DEF EmulateMouseBtnEventInGuiThread
  <2>2. EmulateMouseBtnEventInGuiThread(v, com) = {e}
    BY <1>1, <2>1 DEF IsEvent
  <2> QED
    BY <1>4, <1>5, <1>6, <1>8, <2>2 DEF Exact
<1> QED
  BY <1>7, <1>8

LEMMA FirstPlaced ==
    ASSUME place \in [Objects -> Nat], NEW B \in SUBSET Objects, B # {},
           NEW c, c = CHOOSE b \in B : \A o \in B : place[b] <= place[o]
    PROVE  c \in B /\ \A o \in B : place[c] <= place[o]
<1>T. PICK T \in SUBSET Nat : T = {place[b] : b \in B}
  <2>1. {place[b] : b \in B} \in SUBSET Nat
    OBVIOUS
  <2> QED
    BY <2>1
<1>1. PICK o \in B : place[o] \in T
  BY <1>T
<1>2. PICK x \in T : \A y \in T : x <= y
  BY <1>1, LeastNat
<1>3. PICK b \in B : x = place[b]
  BY <1>T
<1>4. \A m \in B : place[b] <= place[m]
  BY <1>2, <1>3, <1>T
<1> QED
  BY <1>4

\* The button that comes first in the list of the parent is pressed.
LEMMA ButtonClickRight ==
    ASSUME TreeTypeOK, PlacesDiffer, NEW v \in alive, NEW e \in Mouse(v), e.item = 1,
           NEW com, ButtonFits(e, com)
    PROVE  Exact(e, com)
<1>1. v \in Objects /\ alive \subseteq Objects /\ place \in [Objects -> Nat]
  BY DEF TreeTypeOK
<1>2. /\ IsEvent(e) /\ e.on = v /\ e.kind = "press" /\ e.kind # "key" /\ e.button = "left"
      /\ e.key = "0" /\ e.modifiers = {} /\ Class(v) = "QPushButton"
  BY <1>1, MouseFacts DEF ButtonFits
<1>3. com.fun = "pressButtonWithText" /\ com.text = Item(v, 1).text
  BY <1>2 DEF ButtonFits, TextOf
<1>4. ~Simplified(e, com) /\ ~KeysLost(e) /\ Target(e, com) = Parent(v)
  BY <1>2, <1>3 DEF Simplified, ItemFunctions, KeysLost, Target
<1>g. CASE Literal[com.text] # com.text
  <2>t. PICK text : text = Literal[com.text]
    OBVIOUS
  <2>C. PICK C : C = {b \in alive : /\ Parent(b) = Parent(v) /\ Class(b) = "QPushButton"
                                    /\ Item(b, 1).text = text}
    OBVIOUS
  <2>1. v \notin C
    BY <1>3, <1>g, <2>t, <2>C
  <2>2. Performed(com, Parent(v)) = PressButtonWithText(Parent(v), text)
    BY <1>3, <2>t DEF Performed
  <2>3. Performed(com, Target(e, com)) # {e}
    <3>1. CASE C = {}
      BY <1>4, <2>2, <2>C, <3>1 DEF PressButtonWithText
    <3>2. CASE C # {}
      <4>c. PICK c : c = CHOOSE b \in C : \A o \in C : place[b] <= place[o]
        OBVIOUS
      <4>1. c \in C
        BY <1>1, <2>C, <3>2, <4>c, FirstPlaced
      <4>2. Performed(com, Parent(v)) = Happening("press", c, 1)
        BY <2>2, <2>C, <3>2, <4>c DEF PressButtonWithText
      <4>3. c # e.on
        BY <1>2, <2>1, <4>1
      <4> QED
        BY <1>4, <4>2, <4>3 DEF Happening
    <3> QED
      BY <3>1, <3>2
  <2> QED
    BY <1>g, <2>3, MissedRight
<1> SUFFICES ASSUME Literal[com.text] = com.text PROVE Exact(e, com)
  BY <1>g
<1>B. PICK B : B = {b \in alive : /\ Parent(b) = Parent(v) /\ Class(b) = "QPushButton"
                                  /\ Item(b, 1).text = com.text}
  OBVIOUS
<1>5. v \in B /\ B \subseteq Objects
  BY <1>1, <1>2, <1>3, <1>B
<1>6. TextTaken(e, com) <=> \E b \in B : place[b] < place[v]
  <2>1. TextTaken(e, com) <=> \E b \in EarlierSiblings(v) : /\ Class(b) = "QPushButton"
                                                            /\ Item(b, 1).text = com.text
    BY <1>2, <1>3 DEF TextTaken, TextFunctions
  <2> QED
    BY <2>1, <1>B DEF EarlierSiblings
<1>c. PICK c : c = CHOOSE b \in B : \A o \in B : place[b] <= place[o]
  OBVIOUS
<1>7. c \in B /\ \A o \in B : place[c] <= place[o]
  BY <1>1, <1>5, <1>c, FirstPlaced
<1>8. Performed(com, Parent(v)) = Happening("press", c, 1)
  <2>1. Performed(com, Parent(v)) = PressButtonWithText(Parent(v), com.text)
    BY <1>3 DEF Performed
  <2>2. B # {}
    BY <1>5
  <2>3. PressButtonWithText(Parent(v), com.text) =
            Happening("press", CHOOSE b \in B : \A o \in B : place[b] <= place[o], 1)
    BY <1>B, <2>2 DEF PressButtonWithText
  <2> QED
    BY <1>c, <2>1, <2>3
<1>9. c = v <=> ~\E b \in B : place[b] < place[v]
  <2>1. c = v => ~\E b \in B : place[b] < place[v]
    BY <1>1, <1>5, <1>7
  <2>2. c # v => place[c] < place[v]
    <3>1. c \in Objects /\ place[c] \in Nat /\ place[v] \in Nat /\ place[c] <= place[v]
      BY <1>1, <1>5, <1>7
    <3>2. c # v => place[c] # place[v]
      BY <1>1, <3>1 DEF PlacesDiffer
    <3> QED
      BY <3>1, <3>2
  <2> QED
    BY <1>7, <2>1, <2>2
<1>10. Happening("press", c, 1) = {e} <=> c = v
  BY <1>2, HappeningIs
<1>11. Performed(com, Target(e, com)) = {e} <=> c = v
  BY <1>4, <1>8, <1>10
<1>12. Slips(e, com) <=> TextTaken(e, com)
  BY <1>2, <1>4 DEF Slips
<1> QED
  BY <1>6, <1>9, <1>11, <1>12 DEF Exact

LEMMA ClickRight ==
    ASSUME TreeTypeOK, PlacesDiffer, NEW v \in alive, NEW e \in Mouse(v),
           Class(v) = "QPushButton" => e.item = 1, NEW com, ClickFits(e, com)
    PROVE  Exact(e, com)
<1>1. v \in Objects /\ e.on = v
  BY DEF TreeTypeOK, Mouse
<1>2. ButtonFits(e, com) => e.item = 1
  BY <1>1 DEF ButtonFits
<1> QED
  BY <1>1, <1>2, ItemClickRight, VainClickRight, ListClickRight, ViewClickRight, TitleClickRight,
     ButtonClickRight, PointClickRight DEF ClickFits

LEMMA ExpansionRight ==
    ASSUME TreeTypeOK, NEW v \in Objects, NEW e \in Expansion(v), NEW com, ExpansionFits(e, com)
    PROVE  Exact(e, com)
<1>1. Class(v) \in {"QTreeView", "QTreeWidget"} /\ e \in [on : {v}, item : Items(v), kind : {"expand"},
          button : {"left"}, key : {"0"}, modifiers : {{}}]
  <2>1. Inherits(v, "QTreeView")
    BY DEF Expansion
  <2> QED
    BY <2>1, InheritsIs DEF Expansion
<1>2. /\ IsEvent(e) /\ e.on = v /\ e.kind = "expand" /\ e.kind # "key" /\ e.button = "left"
      /\ e.key = "0" /\ e.modifiers = {} /\ e.item \in Items(v)
  BY <1>1 DEF IsEvent
<1>4. CASE Class(v) = "QTreeWidget"
  <2>2. com.fun = "expandItemInTree" /\ com.text = Item(v, e.item).text
    BY <1>2, <1>4 DEF ExpansionFits, TextOf
  <2>3. Target(e, com) = v /\ ~Simplified(e, com)
    BY <1>2, <2>2 DEF Target, Simplified, ItemFunctions
  <2>g. CASE Literal[com.text] # com.text
    BY <1>2, <1>4, <2>g, MissedRight
  <2> SUFFICES ASSUME Literal[com.text] = com.text PROVE Exact(e, com)
    BY <2>g
  <2>4. Performed(com, v) = OnFirst("expand", v, StartsWith(v, com.text))
    BY <1>4, <2>2 DEF Performed, ExpandItemInTree
  <2>5. Items(v) \subseteq Nat \ {0}
    <3>1. PICK n \in Nat : Items(v) = 1..n
      BY ItemFacts DEF Numbered
    <3> QED
      BY <3>1
  <2>f. PICK found \in SUBSET Nat : found = StartsWith(v, com.text)
    BY <1>2, <2>2, <2>5, StartsWithFinds
  <2>6. e.item \in found
    BY <1>2, <2>2, <2>5, <2>f, StartsWithFinds
  <2>7. \A n \in 1..(e.item - 1) : n \in Items(v)
    BY <1>2, BeforeAreItems
  <2>8. (\E n \in found : n < e.item)
            <=> \E n \in 1..(e.item - 1) : \/ Item(v, n).text = com.text
                                           \/ <<com.text, Item(v, n).text>> \in Prefix
    BY <1>2, <2>2, <2>5, <2>7, <2>f, StartsWithFinds
  <2>9. TextTaken(e, com)
            <=> \E n \in 1..(e.item - 1) : \/ Item(v, n).text = com.text
                                           \/ <<com.text, Item(v, n).text>> \in Prefix
    BY <1>2, <1>4, <2>2, TakenByPrefix DEF TextFunctions
  <2>10. Performed(com, Target(e, com)) = OnFirst("expand", e.on, found)
    BY <1>2, <2>3, <2>4, <2>f
  <2> QED
    BY <1>2, <2>3, <2>6, <2>8, <2>9, <2>10, FirstRight
<1>5. CASE Class(v) = "QTreeView"
  <2>2. /\ com.fun = "expandItemInTreeView" /\ com.pos = ModelIndexToPos(v, e.item)
        /\ com.text = NoText
    BY <1>2, <1>5 DEF ExpansionFits
  <2>3. Performed(com, v) = OnFirst("expand", v, PosToModelIndex(v, com.pos))
    BY <1>5, <2>2, InheritsIs DEF Performed, ExpandItemInTreeView
  <2>4. Simplified(e, com) <=> ~(e.kind = "expand" /\ e.button = "left")
    BY <1>2, <2>2 DEF Simplified, ItemFunctions
  <2>5. com.fun \notin TextFunctions
    BY <2>2 DEF TextFunctions
  <2> QED
    BY <1>2, <2>2, <2>3, <2>4, <2>5, PositionRight
<1> QED
  BY <1>1, <1>4, <1>5

-----------------------------------------------------------------------------
(* Keys *)

ModifierNames == {"Shift", "Alt", "Control", "Meta"}

\* The sequence s has each of the modifiers m once, and at most j of them.
Holds(s, m, j) ==
    /\ s \in Seq(ModifierNames) /\ Len(s) <= j
    /\ {s[n] : n \in 1..Len(s)} = m
    /\ IsFiniteSet(m) /\ Len(s) = Cardinality(m)

LEMMA HoldsMore ==
    ASSUME NEW s, NEW m, NEW j \in Nat, Holds(s, m, j), NEW x \in ModifierNames \ m, NEW h
    PROVE  Holds(s \o (IF x \in h THEN <<x>> ELSE <<>>), IF x \in h THEN m \cup {x} ELSE m, j + 1)
<1>n. PICK n \in Nat : n = Len(s) /\ s \in Seq(ModifierNames) /\ n <= j
  BY LenProperties DEF Holds
<1>1. CASE x \in h
  <2>1. <<x>> \in Seq(ModifierNames) /\ Len(<<x>>) = 1 /\ <<x>>[1] = x
    OBVIOUS
  <2>t. PICK t \in Seq(ModifierNames) : t = s \o <<x>>
    BY <1>n, <2>1, ConcatProperties
  <2>2. /\ Len(t) = n + 1
        /\ \A k \in 1..n + 1 : t[k] = IF k <= n THEN s[k] ELSE <<x>>[k - n]
    BY <1>n, <2>1, <2>t, ConcatProperties
  <2>3. (\A k \in 1..n : t[k] = s[k]) /\ t[n + 1] = x
    <3>1. \A k \in 1..n : t[k] = s[k]
      BY <2>2
    <3>2. n + 1 \in 1..n + 1 /\ ~(n + 1 <= n) /\ (n + 1) - n = 1
      OBVIOUS
    <3>3. t[n + 1] = <<x>>[(n + 1) - n]
      BY <2>2, <3>2
    <3> QED
      BY <2>1, <3>1, <3>2, <3>3
  <2>4. {t[k] : k \in 1..n + 1} = m \cup {x}
    <3>1. {s[k] : k \in 1..n} = m
      BY <1>n DEF Holds
    <3>2. \A k : k \in 1..n + 1 <=> k \in 1..n \/ k = n + 1
      OBVIOUS
    <3> QED
      BY <2>3, <3>1, <3>2
  <2>5. IsFiniteSet(m \cup {x}) /\ Cardinality(m \cup {x}) = n + 1
    BY <1>n, FS_AddElement DEF Holds
  <2>6. Holds(t, m \cup {x}, j + 1)
    BY <1>n, <2>2, <2>4, <2>5 DEF Holds
  <2> QED
    BY <1>1, <2>6, <2>t
<1>2. CASE x \notin h
  <2>1. s \o <<>> = s
    BY <1>n, ConcatEmptySeq
  <2>2. Holds(s, m, j + 1)
    BY <1>n DEF Holds
  <2> QED
    BY <1>2, <2>1, <2>2
<1> QED
  BY <1>1, <1>2

\* What a user holds down comes out as a sequence of just that.
LEMMA HeldFacts ==
    ASSUME NEW h \in SUBSET ModifierNames
    PROVE  Holds(Held(h), h, 4)
<1> DEFINE With(m, x) == IF x \in h THEN m \cup {x} ELSE m
           One(x)     == IF x \in h THEN <<x>> ELSE <<>>
<1>a. PICK a : a = <<>> \o One("Shift")
  OBVIOUS
<1>b. PICK b : b = a \o One("Alt")
  OBVIOUS
<1>c. PICK c : c = b \o One("Control")
  OBVIOUS
<1>d. PICK d : d = c \o One("Meta")
  OBVIOUS
<1>A. PICK A : A = With({}, "Shift")
  OBVIOUS
<1>B. PICK B : B = With(A, "Alt")
  OBVIOUS
<1>C. PICK C : C = With(B, "Control")
  OBVIOUS
<1>D. PICK D : D = With(C, "Meta")
  OBVIOUS
<1>1. Holds(<<>>, {}, 0)
  BY EmptySeq, FS_EmptySet DEF Holds
<1>2. Holds(a, A, 1)
  <2>x. PICK x \in ModifierNames : x = "Shift"
    BY DEF ModifierNames
  <2>1. Holds(<<>> \o One(x), With({}, x), 0 + 1)
    BY <1>1, HoldsMore
  <2> QED
    BY <1>a, <1>A, <2>1, <2>x
<1>3. Holds(b, B, 2)
  <2>x. PICK x \in ModifierNames \ A : x = "Alt"
    BY <1>A DEF ModifierNames
  <2>1. Holds(a \o One(x), With(A, x), 1 + 1)
    BY <1>2, HoldsMore
  <2> QED
    BY <1>b, <1>B, <2>1, <2>x
<1>4. Holds(c, C, 3)
  <2>x. PICK x \in ModifierNames \ B : x = "Control"
    BY <1>A, <1>B DEF ModifierNames
  <2>1. Holds(b \o One(x), With(B, x), 2 + 1)
    BY <1>3, HoldsMore
  <2> QED
    BY <1>c, <1>C, <2>1, <2>x
<1>5. Holds(d, D, 4)
  <2>x. PICK x \in ModifierNames \ C : x = "Meta"
    BY <1>A, <1>B, <1>C DEF ModifierNames
  <2>j. PICK j \in Nat : j = 3
    OBVIOUS
  <2>0. Holds(c, C, j)
    BY <1>4, <2>j
  <2>1. Holds(c \o One(x), With(C, x), j + 1)
    BY <2>0, HoldsMore
  <2> QED
    BY <1>d, <1>D, <2>1, <2>j, <2>x
<1>6. D = h
  BY <1>A, <1>B, <1>C, <1>D DEF ModifierNames
<1>7. a = One("Shift")
  <2>x. PICK x \in ModifierNames : x = "Shift"
    BY DEF ModifierNames
  <2>0. <<x>> \in Seq(ModifierNames) /\ <<>> \in Seq(ModifierNames)
    BY EmptySeq
  <2>1. One("Shift") \in Seq(ModifierNames)
    BY <2>x, <2>0
  <2> QED
    BY <1>a, <2>1, ConcatEmptySeq
<1>8. d = Held(h)
  BY <1>7, <1>b, <1>c, <1>d DEF Held
<1> QED
  BY <1>5, <1>6, <1>8

LEMMA KeyRight ==
    ASSUME NEW v, NEW e \in Keyboard(v), NEW com, KeyFits(e, com)
    PROVE  Exact(e, com)
<1>1. /\ IsEvent(e) /\ e.on = v /\ e.item = 0 /\ e.kind = "key" /\ e.button = "left"
      /\ e.key \in Keys \cup {"0", "unknown"} /\ e.modifiers \subseteq ModifierNames
  BY DEF Keyboard, IsEvent, ModifierNames
<1>o. PICK order \in Seq(ModifierNames) : order = Held(e.modifiers) /\ Holds(order, e.modifiers, 4)
  BY <1>1, HeldFacts DEF Holds
<1>n. PICK n \in Nat : n = Len(order)
  BY LenProperties
<1>2. /\ n <= 4 /\ n = Cardinality(e.modifiers) /\ {order[k] : k \in 1..n} = e.modifiers
      /\ n = 0 <=> e.modifiers = {}
  <2>1. n <= 4 /\ n = Cardinality(e.modifiers) /\ {order[k] : k \in 1..n} = e.modifiers
    BY <1>n, <1>o DEF Holds
  <2>2. n = 0 => e.modifiers = {}
    BY <2>1
  <2>3. e.modifiers = {} => n = 0
    BY <2>1, FS_EmptySet
  <2> QED
    BY <2>1, <2>2, <2>3
<1>k. PICK keys : keys = CASE n = 4 -> <<>>
                           [] n # 4 /\ e.key = "unknown" -> order
                           [] OTHER -> Append(order, e.key)
  OBVIOUS
<1>3. com.fun = "keyClick" /\ com.keys = keys /\ com.text = NoText /\ e.key # "0"
  <2>1. keys = KeySequence(e)
    BY <1>k, <1>n, <1>o DEF KeySequence
  <2> QED
    BY <2>1 DEF KeyFits
<1>4. ~Simplified(e, com) /\ ~TextTaken(e, com) /\ Target(e, com) = v
  BY <1>1, <1>2, <1>3 DEF Simplified, ItemFunctions, TextTaken, TextFunctions, Target
<1>6. Slips(e, com) <=> KeysLost(e)
  BY <1>1, <1>2, <1>3, <1>4, LiteralAssumption DEF Slips
<1>7. Performed(com, Target(e, com)) = KeyClick(v, keys)
  BY <1>3, <1>4 DEF Performed
<1>8. CASE n = 4
  <2>1. KeysLost(e)
    BY <1>1, <1>2, <1>8 DEF KeysLost
  <2>2. KeyClick(v, keys) = {}
    BY <1>8, <1>k DEF KeyClick
  <2> QED
    BY <1>6, <1>7, <2>1, <2>2 DEF Exact
<1>9. CASE n # 4 /\ e.key = "unknown" /\ n # 0
  <2>1. KeysLost(e)
    BY <1>1, <1>2, <1>9 DEF KeysLost
  <2>2. keys = order /\ order # <<>> /\ order[n] \in ModifierNames
    BY <1>9, <1>k, <1>n, ElementOfSeq
  <2>3. KeyClick(v, keys) = {[on |-> v, item |-> 0, kind |-> "key", button |-> "left",
                              key |-> order[n],
                              modifiers |-> {order[k] : k \in 1..(n - 1)}]}
    BY <1>n, <2>2 DEF KeyClick
  <2>4. KeyClick(v, keys) # {e}
    <3>1. e.key # order[n]
      BY <1>9, <2>2 DEF ModifierNames
    <3> QED
      BY <2>3, <3>1
  <2> QED
    BY <1>6, <1>7, <2>1, <2>4 DEF Exact
<1>11. CASE e.key = "unknown" /\ n = 0
  <2>1. KeysLost(e)
    BY <1>1, <1>2, <1>11 DEF KeysLost
  <2>2. keys = <<>>
    BY <1>11, <1>k, <1>n, EmptySeq
  <2>3. KeyClick(v, keys) = {}
    BY <2>2 DEF KeyClick
  <2> QED
    BY <1>6, <1>7, <2>1, <2>3 DEF Exact
<1>10. CASE n # 4 /\ e.key # "unknown"
  <2>1. ~KeysLost(e)
    BY <1>1, <1>2, <1>3, <1>10 DEF KeysLost
  <2>T. PICK T : T = ModifierNames \cup {e.key}
    OBVIOUS
  <2>2. order \in Seq(T) /\ e.key \in T
    BY <2>T, ElementOfSeq, SeqDef, <1>n
  <2>3. keys = Append(order, e.key)
    BY <1>10, <1>k
  <2>4. /\ Len(keys) = n + 1 /\ keys[n + 1] = e.key
        /\ \A k \in 1..n : keys[k] = order[k]
    BY <1>n, <2>2, <2>3, AppendProperties
  <2>5. keys # <<>>
    BY <2>4
  <2>6. {keys[k] : k \in 1..(Len(keys) - 1)} = e.modifiers
    <3>1. Len(keys) - 1 = n
      BY <2>4
    <3> QED
      BY <1>1, <1>2, <2>4, <3>1
  <2>7. KeyClick(v, keys) = {[on |-> v, item |-> 0, kind |-> "key", button |-> "left",
                              key |-> e.key, modifiers |-> e.modifiers]}
    BY <2>4, <2>5, <2>6 DEF KeyClick
  <2>8. KeyClick(v, keys) = {e}
    BY <1>1, <1>2, <2>7 DEF IsEvent
  <2> QED
    BY <1>6, <1>7, <2>1, <2>8 DEF Exact
<1> QED
  BY <1>8, <1>9, <1>10, <1>11

\* The command for an event, whatever the name of the widget is by now
LEMMA FitsRight ==
    ASSUME TreeTypeOK, PlacesDiffer, NEW v \in alive, NEW e \in Happenings(v), NEW com,
           Fits(e, com)
    PROVE  Exact(e, com)
<1>1. v \in Objects
  BY DEF TreeTypeOK
<1>2. CASE e \in Mouse(v) /\ (Class(v) = "QPushButton" => e.item = 1)
  <2>1. e.kind # "expand" /\ e.kind # "key"
    BY <1>2 DEF Mouse
  <2> QED
    BY <1>2, <2>1, ClickRight DEF Fits
<1>3. CASE e \in Expansion(v)
  <2>1. e.kind = "expand"
    BY <1>3 DEF Expansion
  <2> QED
    BY <1>1, <1>3, <2>1, ExpansionRight DEF Fits
<1>4. CASE e \in Keyboard(v)
  <2>1. e.kind = "key"
    BY <1>4 DEF Keyboard
  <2> QED
    BY <1>4, <2>1, KeyRight DEF Fits
<1> QED
  BY <1>2, <1>3, <1>4 DEF Happenings

\* For everything that the user can do one command is recorded, but for a key
\* without a code.
RecordedAsFits(e, com) == Recorded(e) = {com} /\ Fits(e, com) /\ NamedFor(e, com)

LEMMA HappeningRecorded ==
    ASSUME TreeTypeOK, NEW v \in Objects, NEW e \in Happenings(v)
    PROVE  \/ \E com : RecordedAsFits(e, com)
           \/ KeysLost(e) /\ Recorded(e) = {}
<1>1. CASE e \in Mouse(v)
  <2>1. PICK com : RecordedAs(e, com)
    BY ClickRecorded
  <2>2. Recorded(e) = {com} /\ Clicked(e, com) /\ e.kind # "expand" /\ e.kind # "key"
    BY <1>1, <2>1, MouseFacts DEF RecordedAs, Mouse
  <2>3. ClickFits(e, com) /\ NamedFor(e, com)
    BY <2>2, ClickedFits
  <2> QED
    BY <2>2, <2>3 DEF RecordedAsFits, Fits
<1>2. CASE e \in Expansion(v)
  <2>1. e.kind = "expand"
    BY <1>2 DEF Expansion
  <2>2. Recorded(e) = ExpandCommand(e)
    BY <2>1 DEF Recorded
  <2>c. PICK com : ExpandCommand(e) = {com} /\
                   com = IF Class(e.on) = "QTreeWidget"
                         THEN WithText(Command("expandItemInTree", e.on), TextOf(e), {})
                         ELSE [Command("expandItemInTreeView", e.on)
                                  EXCEPT !.pos = ModelIndexToPos(e.on, e.item)]
    BY DEF ExpandCommand
  <2>3. /\ ExpansionFits(e, com)
        /\ com.fun \in {"expandItemInTree", "expandItemInTreeView"}
        /\ com.names = FullQtWidgetId(e.on)
    <3>1. CASE Class(e.on) = "QTreeWidget"
      BY <2>c, <3>1, CommandIs DEF ExpansionFits
    <3>2. CASE Class(e.on) # "QTreeWidget"
      BY <2>c, <3>2 DEF Command, Call, ExpansionFits
    <3> QED
      BY <3>1, <3>2
  <2>4. NamedFor(e, com)
    BY <2>3 DEF NamedFor, Target
  <2> QED
    BY <2>1, <2>2, <2>c, <2>3, <2>4 DEF RecordedAsFits, Fits
<1>3. CASE e \in Keyboard(v)
  <2>1. e.kind = "key"
    BY <1>3 DEF Keyboard
  <2>2. Recorded(e) = KeyReleaseEventToScript(e)
    BY <2>1 DEF Recorded
  <2>3. CASE e.key = "0"
    BY <2>1, <2>2, <2>3 DEF KeyReleaseEventToScript, KeysLost
  <2>4. CASE e.key # "0"
    <3>k. PICK keys : keys = KeySequence(e)
      OBVIOUS
    <3>c. PICK com : com = [Command("keyClick", e.on) EXCEPT
                               !.keys = keys,
                               !.parses = @ /\ \A n \in DOMAIN keys : Special[keys[n]] = {}]
      OBVIOUS
    <3>1. Recorded(e) = {com}
      BY <2>2, <2>4, <3>k, <3>c, Zenon DEF KeyReleaseEventToScript, KeySequence, Held
    <3>2. /\ com.fun = "keyClick" /\ com.names = FullQtWidgetId(e.on) /\ com.keys = keys
          /\ com.text = NoText
      BY <3>c DEF Command, Call
    <3>3. KeyFits(e, com) /\ NamedFor(e, com)
      BY <2>4, <3>2, <3>k DEF KeyFits, NamedFor, Target
    <3> QED
      BY <2>1, <3>1, <3>3 DEF RecordedAsFits, Fits
  <2> QED
    BY <2>3, <2>4
<1> QED
  BY <1>1, <1>2, <1>3 DEF Happenings

\* What CommandLeadsBack says of one thing the user does
Right(e) ==
    IF Misread(e)
    THEN \/ ~Repeats(e) \/ Class(e.on) = "QListWidget"
         \/ Class(e.on) = "QTreeWidget" /\ \E com \in Recorded(e) : Garbled(com)
    ELSE Repeats(e)

\* Everything the user can do with a widget
LEMMA HappeningRight ==
    ASSUME TreeTypeOK, PlacesDiffer, NEW v \in alive, NEW e \in Happenings(v)
    PROVE  Right(e) /\ e.on = v
<1>1. v \in Objects /\ e.on = v
  BY DEF TreeTypeOK, Happenings, Mouse, Expansion, Keyboard
<1>2. CASE KeysLost(e) /\ Recorded(e) = {}
  <2>1. Misread(e) /\ ~Repeats(e)
    BY <1>2 DEF Misread, Repeats
  <2> QED
    BY <1>1, <2>1 DEF Right
<1>3. ASSUME NEW com, RecordedAsFits(e, com)
      PROVE  Right(e)
  <2>1. Exact(e, com)
    BY <1>3, FitsRight DEF RecordedAsFits
  <2>2. Misread(e) <=> Slips(e, com) \/ ~com.parses \/ NamesRead(com.names) # com.names
    BY <1>3, OnlyCommand DEF RecordedAsFits, Slips, Garbled
  <2>3. Repeats(e) <=> /\ com.parses /\ NamesRead(com.names) = com.names
                       /\ Performed(com, Target(e, com)) = {e}
    BY <1>3, OnlyCommand DEF RecordedAsFits
  <2>4. Literal[com.text] # com.text => \E c \in Recorded(e) : Garbled(c)
    BY <1>3 DEF RecordedAsFits, Garbled
  <2> QED
    BY <2>1, <2>2, <2>3, <2>4 DEF Exact, Right
<1> QED
  BY <1>1, <1>2, <1>3, HappeningRecorded

LEMMA CommandsLeadBackThere ==
    ASSUME TreeTypeOK, TreeInv
    PROVE  CommandLeadsBack
<1>1. ASSUME NEW v \in Objects, Usable[v], NEW e \in Happenings(v)
      PROVE  IF Misread(e)
             THEN \/ ~Repeats(e) \/ Class(v) = "QListWidget"
                  \/ Class(v) = "QTreeWidget" /\ \E com \in Recorded(e) : Garbled(com)
             ELSE Repeats(e)
  <2>1. v \in alive
    BY <1>1, UsableIsAlive
  <2>2. Right(e) /\ e.on = v
    BY <2>1, HappeningRight DEF TreeInv
  <2> QED
    BY <2>2 DEF Right
<1> QED
  BY <1>1 DEF CommandLeadsBack

-----------------------------------------------------------------------------
(* As long as the widgets are as they were, so is everything about them *)

LEMMA SameWidgets ==
    ASSUME UNCHANGED treeVars
    PROVE  /\ Usable' = Usable /\ Line' = Line /\ Objects' = Objects
           /\ Widgets' = Widgets /\ Windows' = Windows
           /\ \A i : Class(i)' = Class(i) /\ Name(i)' = Name(i) /\ Parent(i)' = Parent(i)
           /\ \A i : Items(i)' = Items(i) /\ (\A k : Item(i, k)' = Item(i, k))
           /\ \A i : EarlierSiblings(i)' = EarlierSiblings(i) /\ Within(i)' = Within(i)
<1>1. Usable' = Usable
  BY DEF treeVars, Usable, IsWindow, Parent, Class, Objects
<1>2. Line' = Line /\ Objects' = Objects
  BY DEF treeVars, Line, Parent, Class, Objects
<1>3. \A i : Class(i)' = Class(i) /\ Name(i)' = Name(i) /\ Parent(i)' = Parent(i)
  BY DEF treeVars, Class, Name, Parent
<1>4. \A i : Items(i)' = Items(i) /\ (\A k : Item(i, k)' = Item(i, k))
  BY DEF treeVars, Items, Item
<1>5. \A i : EarlierSiblings(i)' = EarlierSiblings(i)
  BY DEF treeVars, EarlierSiblings, Parent
<1>6. \A i : Within(i)' = Within(i)
  BY <1>2 DEF treeVars, Within
<1>7. Widgets' = Widgets
  BY <1>2 DEF treeVars, Widgets, Class
<1>8. Windows' = Windows
  BY <1>7 DEF treeVars, Windows, IsWindow, Parent, Class
<1> QED
  BY <1>1, <1>2, <1>3, <1>4, <1>5, <1>6, <1>7, <1>8

LEMMA SameIds ==
    ASSUME UNCHANGED treeVars
    PROVE  \A i : QtObjectId(i)' = QtObjectId(i) /\ FullQtWidgetId(i)' = FullQtWidgetId(i)
<1>1. \A i : NumAmongOthersWithTheSameClass(i)' = NumAmongOthersWithTheSameClass(i)
  BY DEF treeVars, NumAmongOthersWithTheSameClass, EarlierSiblings, Parent, Class, Null
<1>2. \A i : QtObjectId(i)' = QtObjectId(i)
  BY <1>1 DEF treeVars, QtObjectId, Name, Class
<1>3. FullId' = FullId
  BY DEF treeVars, FullId, QtObjectId, Name, Class, Parent, Objects,
     NumAmongOthersWithTheSameClass, EarlierSiblings
<1> QED
  BY <1>2, <1>3 DEF FullQtWidgetId

LEMMA SameNames ==
    ASSUME UNCHANGED treeVars, NEW i
    PROVE  FullQtWidgetId(i)' = FullQtWidgetId(i) /\ (Misleading(i)' <=> Misleading(i))
<1>1. ReadsOtherwise(i)' <=> ReadsOtherwise(i)
  BY DEF treeVars, ReadsOtherwise, Name
<1>2. OrderShifted(i)' <=> OrderShifted(i)
  BY SameWidgets DEF treeVars, OrderShifted, Name, Class
<1>3. NameTaken(i)' <=> NameTaken(i)
  BY SameWidgets, SameIds DEF treeVars, NameTaken, Name
<1>4. \A el, c : Stands(el, c)' <=> Stands(el, c)
  BY DEF treeVars, Stands, Name, Class
<1>5. OutermostTaken(i)' <=> OutermostTaken(i)
  BY <1>4, SameWidgets, SameIds DEF treeVars, OutermostTaken, Name
<1>6. Misleading(i)' <=> Misleading(i)
  BY <1>1, <1>2, <1>3, <1>5, SameWidgets DEF treeVars, Misleading, Parent, Name
<1> QED
  BY <1>6, SameIds

LEMMA SameCommand ==
    ASSUME UNCHANGED treeVars
    PROVE  \A fun, v : Command(fun, v)' = Command(fun, v)
BY SameIds DEF Command, Call

LEMMA SameItemAnswers ==
    ASSUME UNCHANGED treeVars, NEW e
    PROVE  /\ QMenuActivateClick(e)' = QMenuActivateClick(e)
           /\ QTreeWidgetActivateClick(e)' = QTreeWidgetActivateClick(e)
           /\ QComboBoxActivateClick(e)' = QComboBoxActivateClick(e)
           /\ QListWidgetActivateClick(e)' = QListWidgetActivateClick(e)
           /\ QTabBarActivateClick(e)' = QTabBarActivateClick(e)
           /\ QListViewActivateClick(e)' = QListViewActivateClick(e)
           /\ WorkspaceTitleBarPressed(e)' = WorkspaceTitleBarPressed(e)
           /\ ClickOnUnnamedButton(e)' = ClickOnUnnamedButton(e)
<1>1. QMenuActivateClick(e)' = QMenuActivateClick(e)
  <2>f. PICK f : f = IF Name(e.on) # NoName THEN "activateItem" ELSE "activateMenuItem"
    OBVIOUS
  <2>1. Command(f, e.on)' = Command(f, e.on)
    BY SameCommand
  <2> QED
    BY <2>1, <2>f DEF QMenuActivateClick, WithText, Class, Name, TextOf, Item, treeVars
<1>2. QTreeWidgetActivateClick(e)' = QTreeWidgetActivateClick(e)
  <2>f. PICK f : f = IF e.kind = "dblclick" THEN "doubleClickItem" ELSE "activateItem"
    OBVIOUS
  <2>1. Command(f, e.on)' = Command(f, e.on)
    BY SameCommand
  <2> QED
    BY <2>1, <2>f DEF QTreeWidgetActivateClick, WithText, Class, TextOf, Item, treeVars
<1>3. QComboBoxActivateClick(e)' = QComboBoxActivateClick(e)
  <2>1. Command("activateItem", e.on)' = Command("activateItem", e.on)
    BY SameCommand
  <2> QED
    BY <2>1 DEF QComboBoxActivateClick, WithText, Class, TextOf, Item, treeVars
<1>4. QListWidgetActivateClick(e)' = QListWidgetActivateClick(e)
  <2>1. Command("activateItem", e.on)' = Command("activateItem", e.on)
    BY SameCommand
  <2> QED
    BY <2>1 DEF QListWidgetActivateClick, WithText, Class, Item, treeVars
<1>5. QTabBarActivateClick(e)' = QTabBarActivateClick(e)
  <2>1. Command("activateItem", e.on)' = Command("activateItem", e.on)
    BY SameCommand
  <2> QED
    BY <2>1 DEF QTabBarActivateClick, WithText, Class, TextOf, Item, treeVars
<1>6. QListViewActivateClick(e)' = QListViewActivateClick(e)
  <2>1. Command("activateItem", e.on)' = Command("activateItem", e.on)
    BY SameCommand
  <2> QED
    BY <2>1 DEF QListViewActivateClick, WithText, Class, TextOf, Item, Inherits, treeVars
<1>7. WorkspaceTitleBarPressed(e)' = WorkspaceTitleBarPressed(e)
  <2>1. Command("chooseWindowWithTitle", e.on)' = Command("chooseWindowWithTitle", e.on)
    BY SameCommand
  <2> QED
    BY <2>1 DEF WorkspaceTitleBarPressed, WithText, Class, TextOf, Item, treeVars
<1>8. ClickOnUnnamedButton(e)' = ClickOnUnnamedButton(e)
  <2>p. PICK p : p = Parent(e.on)
    OBVIOUS
  <2>1. Parent(e.on)' = p
    BY <2>p DEF Parent, treeVars
  <2>2. Command("pressButtonWithText", p)' = Command("pressButtonWithText", p)
    BY SameCommand
  <2>3. Command("pressButtonWithText", Parent(e.on))' = Command("pressButtonWithText", p)'
    BY <2>1 DEF Command, FullQtWidgetId
  <2>4. Command("pressButtonWithText", Parent(e.on))' = Command("pressButtonWithText", Parent(e.on))
    BY <2>2, <2>3, <2>p
  <2> QED
    BY <2>4 DEF ClickOnUnnamedButton, WithText, Class, Name, Parent, TextOf, Item, treeVars
<1> QED
  BY <1>1, <1>2, <1>3, <1>4, <1>5, <1>6, <1>7, <1>8

LEMMA SamePositions ==
    ASSUME UNCHANGED treeVars, NEW v, NEW k
    PROVE  ModelIndexToPos(v, k)' = ModelIndexToPos(v, k)
BY DEF ModelIndexToPos, Items, Item, treeVars

LEMMA SameViewAnswers ==
    ASSUME UNCHANGED treeVars, NEW e
    PROVE  /\ QTreeViewActivateClick(e)' = QTreeViewActivateClick(e)
           /\ QTableViewActivateClick(e)' = QTableViewActivateClick(e)
           /\ MouseEventToJavaScript(e)' = MouseEventToJavaScript(e)
<1>1. InView(e)' = InView(e)
  BY SameCommand, SamePositions DEF InView
<1>2. QTreeViewActivateClick(e)' = QTreeViewActivateClick(e)
  BY <1>1 DEF QTreeViewActivateClick, Inherits, Class, treeVars
<1>3. QTableViewActivateClick(e)' = QTableViewActivateClick(e)
  BY <1>1 DEF QTableViewActivateClick, Class, treeVars
<1>4. MouseEventToJavaScript(e)' = MouseEventToJavaScript(e)
  BY SameCommand DEF MouseEventToJavaScript
<1> QED
  BY <1>2, <1>3, <1>4

LEMMA SameRecorded ==
    ASSUME UNCHANGED treeVars, NEW e
    PROVE  Recorded(e)' = Recorded(e)
<1>1. Answers(e)' = Answers(e)
  BY SameItemAnswers, SameViewAnswers DEF Answers
<1>2. MouseCommand(e)' = MouseCommand(e)
  BY <1>1 DEF MouseCommand, FirstOf
<1>3. ExpandCommand(e)' = ExpandCommand(e)
  BY SameCommand, SamePositions DEF ExpandCommand, WithText, Class, TextOf, Item, treeVars
<1>4. KeyReleaseEventToScript(e)' = KeyReleaseEventToScript(e)
  <2>1. Command("keyClick", e.on)' = Command("keyClick", e.on)
    BY SameCommand
  <2> QED
    BY <2>1 DEF KeyReleaseEventToScript
<1> QED
  BY <1>2, <1>3, <1>4 DEF Recorded

LEMMA SameEvents ==
    ASSUME UNCHANGED treeVars, NEW e
    PROVE  (Possible(e)' <=> Possible(e)) /\ Line1(e)' = Line1(e) /\ (Misread(e)' <=> Misread(e))
<1>1. Happenings(e.on)' = Happenings(e.on)
  BY DEF treeVars, Happenings, Mouse, Expansion, Keyboard, Items, Inherits, Class
<1>2. Possible(e)' <=> Possible(e)
  BY <1>1, SameWidgets DEF Possible
<1>3. Line1(e)' = Line1(e)
  <2>1. Command("getObjectById", e.on)' = Command("getObjectById", e.on)
    BY SameCommand
  <2> QED
    BY <2>1, SameRecorded DEF Line1, Call, HandWritten
<1>4. \A com : TextTaken(e, com)' <=> TextTaken(e, com)
  BY SameWidgets DEF TextTaken, treeVars, Items, Item, Class, EarlierSiblings, Parent
<1>5. \A com : MisreadAs(e, com)' <=> MisreadAs(e, com)
  BY <1>4 DEF MisreadAs
<1>6. Misread(e)' <=> Misread(e)
  BY <1>5, SameRecorded DEF Misread
<1> QED
  BY <1>2, <1>3, <1>6

LEMMA SameTarget ==
    ASSUME UNCHANGED treeVars, NEW e, NEW com
    PROVE  Target(e, com)' = Target(e, com)
BY DEF treeVars, Target, Parent

LEMMA SameFaithful ==
    ASSUME UNCHANGED <<treeVars, asked, script>>, NEW k
    PROVE  Faithful(k)' <=> Faithful(k)
<1>e. PICK e, c : e = asked[k] /\ c = script[k]
  OBVIOUS
<1>1. asked'[k] = e /\ script'[k] = c
  BY <1>e
<1>t. PICK t : t = Target(e, c)
  OBVIOUS
<1>2. Target(e, c)' = t
  BY <1>t, SameTarget
<1>3. Misread(e)' <=> Misread(e)
  BY SameEvents
<1>4. \A i : Misleading(i)' <=> Misleading(i)
  BY SameNames
<1>L. PICK L : L = Line
  OBVIOUS
<1>5. Faithful(k) <=> /\ e.kind \notin HandWritten /\ c.fun \notin Others
                      /\ ~Misread(e)
                      /\ ~\E n \in DOMAIN L[t] : Misleading(L[t][n])
  BY <1>e, <1>t, <1>L DEF Faithful
<1>6. Faithful(k)' <=> /\ e.kind \notin HandWritten /\ c.fun \notin Others
                       /\ ~Misread(e)'
                       /\ ~\E n \in DOMAIN L[t] : Misleading(L[t][n])'
  BY <1>1, <1>2, <1>L, SameWidgets DEF Faithful
<1> QED
  BY <1>3, <1>4, <1>5, <1>6, Zenon

-----------------------------------------------------------------------------
(* The invariant *)

\* What a replay must not leave behind undone
Needed(k) == script[k].fun \in Slots \ (LenientFunctions \cup {"getObjectById"})

\* A command is being run only while there are commands, and attempts, left.
Running == pc \in {"look", "check", "use", "posted", "acting"}

PcFits ==
    /\ Running => next <= Len(script) /\ cmd.fun \in Slots
    /\ ~Over => attempts < MaxAttempts

\* What is used is a pointer to a widget that is alive, or has gone since.
PointerFits ==
    /\ pc \in {"use", "posted", "acting"} => w # Null
    /\ w # Null /\ w \notin alive => gone
    /\ pc = "crashed" => gone \/ NoWidgetNamed(NamesRead(cmd.names))

RightWidget == Target(asked[next], script[next])

\* A name that leads straight to its widget leads there, or to nothing.
Holding == {"check", "use", "posted"}

PointerRight ==
    pc \in Holding /\ ~astray /\ ShouldBeEnabled => w = Null \/ w = RightWidget

DoneInv ==
    /\ \A m \in 1..Len(actedBy) :
          actedBy[m] <= next /\ (pc # "acting" => actedBy[m] < next)
    /\ pc = "acting" => \E m \in 1..Len(actedBy) : actedBy[m] = next
    /\ \A m, n \in 1..Len(actedBy) : m < n => actedBy[m] < actedBy[n]
    /\ \A k \in 1..(next - 1) : Needed(k) => \E n \in 1..Len(actedBy) : actedBy[n] = k

PlayInv ==
    ScriptIsSeq /\ ActedIsSeq /\ TypeOK /\ PcFits /\ PointerFits /\ PointerRight /\ DoneInv

\* Each command is the one for what was asked for, of an object that once was.
CommandFits(e, com) ==
    /\ e.on \in Objects
    /\ com.fun \in Slots => IsName(com.names)
    /\ com.fun \in Slots \ {"getObjectById"} => e \in Happenings(e.on) /\ Fits(e, com)

AskedFit == \A k \in DOMAIN script : CommandFits(asked[k], script[k])

Inv == PlayInv /\ TreeInv /\ AskedFit

-----------------------------------------------------------------------------
(* The commands of a script *)

LEMMA IdIsName ==
    ASSUME TreeTypeOK, NEW i \in Objects
    PROVE  IsName(FullQtWidgetId(i))
<1>x. PICK x \in Seq(Elements) : x = QtObjectId(i)
  BY IdIsSeq
<1>1. x # <<>>
  <2>1. CASE Name(i) # NoName
    BY <1>x, <2>1, NameFacts DEF QtObjectId
  <2>2. CASE Name(i) = NoName
    BY <1>x, <2>2 DEF QtObjectId
  <2> QED
    BY <2>1, <2>2
<1>2. Len(x) \in Nat \ {0}
  BY <1>1, LenProperties, EmptySeq
<1>3. PICK n \in Nat \ {0} : \E names \in Seq(Elements) : names = FullQtWidgetId(i) /\ Len(names) = n
  <2>1. IdStep(i)
    BY IdSteps
  <2>2. CASE Parent(i) = Null
    BY <1>2, <1>x, <2>1, <2>2 DEF IdStep, FullQtWidgetId
  <2>3. CASE Parent(i) # Null
    <3>p. PICK p \in Objects : p = Parent(i)
      BY <2>3, TreeFacts
    <3>1. IdStep(p)
      BY IdSteps
    <3>y. PICK y \in Seq(Elements) : y = FullId[p]
      BY <3>1 DEF IdStep
    <3>2. FullId[i] = y \o x
      BY <1>x, <2>1, <2>3, <3>p, <3>y DEF IdStep
    <3>3. y \o x \in Seq(Elements) /\ Len(y \o x) = Len(y) + Len(x)
      BY ConcatProperties
    <3>4. Len(y) \in Nat
      BY LenProperties
    <3>5. Len(y) + Len(x) \in Nat \ {0}
      BY <1>2, <3>4
    <3> QED
      BY <3>2, <3>3, <3>5 DEF FullQtWidgetId
  <2> QED
    BY <2>2, <2>3
<1>N. PICK names \in Seq(Elements) : names = FullQtWidgetId(i) /\ Len(names) = n
  BY <1>3
<1>4. DOMAIN names = 1..n
  BY <1>N, LenProperties
<1> QED
  BY <1>N, <1>4 DEF IsName

LEMMA ReadIsName ==
    ASSUME NEW names, IsName(names)
    PROVE  IsName(NamesRead(names))
<1>n. PICK n \in Nat \ {0} : DOMAIN names = 1..n /\ Len(names) = n
  BY DEF IsName
<1>r. PICK r : r = NamesRead(names)
  OBVIOUS
<1>1. r = [k \in 1..n |-> r[k]]
  BY <1>n, <1>r DEF NamesRead
<1>2. r \in [1..n -> {r[k] : k \in 1..n}]
  BY <1>1
<1>3. r \in Seq({r[k] : k \in 1..n})
  BY <1>2, SeqDef
<1>4. DOMAIN r = 1..n
  BY <1>1
<1>5. Len(r) = n
  BY <1>3, <1>4, LenProperties
<1> QED
  BY <1>4, <1>5, <1>r DEF IsName

LEMMA TargetIsObject ==
    ASSUME TreeTypeOK, NEW e, e.on \in Objects, NEW com, Fits(e, com)
    PROVE  Target(e, com) \in Objects
<1>1. CASE com.fun # "pressButtonWithText"
  BY <1>1 DEF Target
<1>2. CASE com.fun = "pressButtonWithText"
  <2>1. ButtonFits(e, com)
    BY <1>2 DEF Fits, ClickFits, ExpansionFits, KeyFits, ItemFits, VainFits, ListFits, ViewFits,
       TitleFits, PointFits
  <2> QED
    BY <1>2, <2>1, TreeFacts DEF ButtonFits, Target
<1> QED
  BY <1>1, <1>2

LEMMA LineFits ==
    ASSUME TreeTypeOK, NEW e, Possible(e)
    PROVE  CommandFits(e, Line1(e))
<1>v. PICK v \in Objects : v = e.on
  BY DEF Possible
<1>1. CASE e.kind \in {"holds", "fails"}
  <2>1. Line1(e).fun = "Assert"
    BY <1>1 DEF Line1, Call, HandWritten
  <2> QED
    BY <1>v, <2>1 DEF CommandFits, Slots, TextFunctions
<1>2. CASE e.kind = "get"
  <2>1. Line1(e) = Command("getObjectById", v)
    BY <1>2, <1>v DEF Line1, HandWritten
  <2>2. Line1(e).fun = "getObjectById" /\ Line1(e).names = FullQtWidgetId(v)
    BY <2>1 DEF Command, Call
  <2> QED
    BY <1>v, <2>2, IdIsName DEF CommandFits
<1>3. CASE e.kind \notin HandWritten /\ Recorded(e) = {}
  <2>1. Line1(e).fun = "comment"
    BY <1>3 DEF Line1, Call, HandWritten
  <2> QED
    BY <1>v, <2>1 DEF CommandFits, Slots, TextFunctions
<1>4. CASE e.kind \notin HandWritten /\ Recorded(e) # {}
  <2>1. e \in Happenings(v)
    BY <1>4, <1>v DEF Possible
  <2>c. PICK com : RecordedAsFits(e, com)
    BY <1>4, <2>1, HappeningRecorded
  <2>2. Line1(e) = com
    <3>1. Line1(e) = CHOOSE c \in Recorded(e) : TRUE
      BY <1>4 DEF Line1, HandWritten
    <3> QED
      BY <2>c, <3>1 DEF RecordedAsFits
  <2>t. PICK t \in Objects : t = Target(e, com)
    BY <1>v, <2>c, TargetIsObject DEF RecordedAsFits
  <2>3. com.fun \in Slots => com.names = FullQtWidgetId(t)
    BY <2>c, <2>t DEF RecordedAsFits, NamedFor
  <2>4. com.fun \in Slots => IsName(com.names)
    BY <2>3, IdIsName
  <2> QED
    BY <1>v, <2>1, <2>2, <2>4, <2>c DEF CommandFits, RecordedAsFits
<1> QED
  BY <1>1, <1>2, <1>3, <1>4 DEF HandWritten

\* Only the scene bears on this, and it stays.
LEMMA FitsStay ==
    ASSUME scene' = scene, NEW e, NEW com, CommandFits(e, com)
    PROVE  CommandFits(e, com)'
<1>1. Objects' = Objects
  BY DEF Objects
<1>2. Happenings(e.on)' = Happenings(e.on)
  BY DEF Happenings, Mouse, Expansion, Keyboard, Items, Inherits, Class
<1>3. \A i : Class(i)' = Class(i) /\ Parent(i)' = Parent(i)
  BY DEF Class, Parent
<1>4. TextOf(e)' = TextOf(e) /\ ListText(e)' = ListText(e)
  BY DEF TextOf, ListText, Item
<1>5. ModelIndexToPos(e.on, e.item)' = ModelIndexToPos(e.on, e.item)
  BY DEF ModelIndexToPos, Items, Item
<1>c. Class(e.on)' = Class(e.on) /\ (Parent(e.on) = Null)' = (Parent(e.on) = Null)
  BY <1>3 DEF Null
<1>6. ClickFits(e, com)' = ClickFits(e, com)
  BY <1>c, <1>4, <1>5 DEF ClickFits, ItemFits, VainFits, ListFits, ViewFits, TitleFits, ButtonFits,
     PointFits
<1>7. ExpansionFits(e, com)' = ExpansionFits(e, com)
  BY <1>c, <1>4, <1>5 DEF ExpansionFits
<1>8. Fits(e, com)' = Fits(e, com)
  BY <1>6, <1>7 DEF Fits, KeyFits
<1> QED
  BY <1>1, <1>2, <1>8 DEF CommandFits

-----------------------------------------------------------------------------
(* A command that is not misleading is replayed *)

\* A command that does something is a slot that looks a widget up.
LEMMA PerformedIsSlot ==
    ASSUME NEW com, NEW t, Performed(com, t) # {}
    PROVE  com.fun \in Slots \ {"getObjectById"}
<1>1. com.fun \in {"activateItem", "activateItemInView", "expandItemInTree", "expandItemInTreeView",
                   "chooseWindowWithTitle", "pressButtonWithText", "mouseClick", "mouseDClick",
                   "keyClick"}
  BY DEF Performed
<1> QED
  BY <1>1 DEF Slots, TextFunctions

\* It suits its widget.
LEMMA PerformedSuits ==
    ASSUME Performed(cmd, w) # {}
    PROVE  Suits
<1>1. /\ cmd.fun = "activateItem" => ActivateItemInGuiThread(w, Literal[cmd.text]) # {}
      /\ cmd.fun = "activateItemInView" => ClickOnItemInGuiThread(w, cmd.pos) # {}
      /\ cmd.fun = "expandItemInTree" => ExpandItemInTree(w, Literal[cmd.text]) # {}
      /\ cmd.fun = "expandItemInTreeView" => ExpandItemInTreeView(w, cmd.pos) # {}
      /\ cmd.fun = "chooseWindowWithTitle" => ChooseWindowWithTitle(w, Literal[cmd.text]) # {}
      /\ cmd.fun \in {"mouseClick", "mouseDClick"} => EmulateMouseBtnEventInGuiThread(w, cmd) # {}
      /\ cmd.fun = "keyClick" => KeyClick(w, cmd.keys) # {}
  BY DEF Performed
<1>2. cmd.fun \in {"activateItem", "activateItemInView", "expandItemInTree", "expandItemInTreeView",
                   "chooseWindowWithTitle", "pressButtonWithText", "mouseClick", "mouseDClick",
                   "keyClick"}
  BY DEF Performed
<1>4. /\ cmd.fun = "activateItem" => Class(w) \in {"QMenu", "QTreeWidget", "QComboBox", "QTabBar",
                                                   "QListWidget", "QListView"}
      /\ cmd.fun = "activateItemInView" => Class(w) \in Views
      /\ cmd.fun = "expandItemInTree" => Class(w) = "QTreeWidget"
      /\ cmd.fun = "expandItemInTreeView" => Inherits(w, "QTreeView")
      /\ cmd.fun = "chooseWindowWithTitle" => Class(w) = "QWorkspace"
      /\ cmd.fun \in {"mouseClick", "mouseDClick"} => cmd.button # "other"
      /\ cmd.fun = "keyClick" => cmd.keys # <<>>
  <2>1. cmd.fun = "activateItem" => Class(w) \in {"QMenu", "QTreeWidget", "QComboBox", "QTabBar",
                                                  "QListWidget", "QListView"}
    BY <1>1 DEF ActivateItemInGuiThread
  <2>2. cmd.fun = "activateItemInView" => Class(w) \in Views
    BY <1>1 DEF ClickOnItemInGuiThread
  <2>3. cmd.fun = "expandItemInTree" => Class(w) = "QTreeWidget"
    BY <1>1 DEF ExpandItemInTree
  <2>4. cmd.fun = "expandItemInTreeView" => Inherits(w, "QTreeView")
    BY <1>1 DEF ExpandItemInTreeView
  <2>5. cmd.fun = "chooseWindowWithTitle" => Class(w) = "QWorkspace"
    BY <1>1 DEF ChooseWindowWithTitle
  <2>6. cmd.fun \in {"mouseClick", "mouseDClick"} => cmd.button # "other"
    BY <1>1 DEF EmulateMouseBtnEventInGuiThread
  <2>7. cmd.fun = "keyClick" => cmd.keys # <<>>
    BY <1>1 DEF KeyClick
  <2> QED
    BY <2>1, <2>2, <2>3, <2>4, <2>5, <2>6, <2>7
<1> QED
  BY <1>2, <1>4 DEF Suits

\* The command k names a usable widget, finds it, and repeats what was asked for.
Replayed(k) ==
    \E t \in alive :
        /\ t = Target(asked[k], script[k]) /\ t # Null /\ Usable[t]
        /\ DoGetWidgetWithSuchName(NamesRead(script[k].names), TRUE) = {t}
        /\ script[k].parses
        /\ Performed(script[k], t) = {asked[k]}

LEMMA FaithfulReplayed ==
    ASSUME TreeTypeOK, TreeInv, NEW k, Possible(asked[k]), script[k] = Line1(asked[k]), Faithful(k)
    PROVE  Replayed(k)
<1>e. PICK e : e = asked[k]
  OBVIOUS
<1>v. PICK v \in Objects : v = e.on
  BY <1>e DEF Possible
<1>1. Usable[v] /\ e.kind \notin HandWritten /\ e \in Happenings(v)
  BY <1>e, <1>v DEF Possible, Faithful
<1>a. v \in alive
  BY <1>1, UsableIsAlive
<1>2. ~Misread(e) /\ script[k].fun \notin Others
  BY <1>e DEF Faithful
<1>c. PICK com : RecordedAsFits(e, com)
  BY <1>1, <1>2, HappeningRecorded DEF Misread
<1>r. Recorded(e) = {com} /\ Fits(e, com) /\ NamedFor(e, com)
  BY <1>c DEF RecordedAsFits
<1>3. script[k] = com
  <2>1. Line1(e) = CHOOSE c \in Recorded(e) : TRUE
    BY <1>1, <1>r DEF Line1, HandWritten
  <2> QED
    BY <1>r, <1>e, <2>1
<1>t. PICK t \in Objects : t = Target(e, com)
  BY <1>r, <1>v, TargetIsObject
<1>4. com.parses /\ NamesRead(com.names) = com.names /\ Performed(com, t) = {e}
  <2>1. com.parses /\ ~Garbled(com) /\ ~Slips(e, com)
    BY <1>2, <1>r, OnlyCommand DEF Slips, Garbled
  <2>2. Exact(e, com)
    BY <1>1, <1>a, <1>r, FitsRight DEF TreeInv
  <2> QED
    BY <1>t, <2>1, <2>2 DEF Exact, Garbled
<1>5. Usable[t]
  <2>1. CASE com.fun # "pressButtonWithText"
    BY <1>1, <1>t, <1>v, <2>1 DEF Target
  <2>2. CASE com.fun = "pressButtonWithText"
    <3>1. t = Parent(v) /\ t # Null
      BY <1>t, <1>v, <2>2, TreeFacts DEF Target
    <3>2. Class(v) = "QPushButton"
      <4>1. ButtonFits(e, com)
        BY <1>r, <2>2 DEF Fits, ClickFits, ExpansionFits, KeyFits, ItemFits, VainFits, ListFits,
           ViewFits, TitleFits, PointFits
      <4> QED
        BY <1>v, <4>1 DEF ButtonFits
    <3>3. ~IsWindow(v)
      BY <3>1, <3>2 DEF IsWindow
    <3> QED
      BY <1>1, <3>1, <3>3, UsableSteps
  <2> QED
    BY <2>1, <2>2
<1>6. t \in alive /\ t # Null
  BY <1>5, UsableIsAlive, TreeFacts
<1>7. \A n \in DOMAIN Line[t] : ~Misleading(Line[t][n])
  BY <1>3, <1>e, <1>t DEF Faithful
<1>8. DoGetWidgetWithSuchName(FullQtWidgetId(t), TRUE) = {t}
  BY <1>5, <1>7, NameFound
<1>9. com.names = FullQtWidgetId(t)
  <2>1. com.fun \in Slots
    BY <1>4, PerformedIsSlot
  <2> QED
    BY <1>r, <1>t, <2>1 DEF NamedFor
<1> QED
  BY <1>3, <1>4, <1>5, <1>6, <1>8, <1>9, <1>e, <1>t DEF Replayed

-----------------------------------------------------------------------------
(* The ways in which a step of the agent thread goes on *)

LEMMA SameTree ==
    ASSUME TreeTypeOK, UNCHANGED treeVars
    PROVE  TreeTypeOK' /\ alive' = alive /\ Objects' = Objects
BY DEF TreeTypeOK, treeVars, Objects, Widgets, Class

LEMMA SameDone ==
    ASSUME PlayInv, UNCHANGED <<script, doneVars>>
    PROVE  ScriptIsSeq' /\ ActedIsSeq'
           /\ (Len(acted) = Len(actedBy))' /\ (actedBy \in Seq(DOMAIN script))'
BY DEF PlayInv, ScriptIsSeq, ActedIsSeq, TypeOK, doneVars

LEMMA SameWidget ==
    ASSUME scene' = scene, UNCHANGED <<asked, script, next>>
    PROVE  RightWidget' = RightWidget /\ ShouldBeEnabled' = ShouldBeEnabled /\ cmd' = cmd
<1>1. PICK e, c : e = asked[next] /\ c = script[next]
  OBVIOUS
<1>2. RightWidget = Target(e, c)
  BY <1>1 DEF RightWidget
<1>3. RightWidget' = Target(e, c)'
  BY <1>1 DEF RightWidget
<1>4. Target(e, c)' = Target(e, c)
  BY DEF Target, Parent
<1>5. cmd' = cmd
  BY DEF cmd
<1> QED
  BY <1>2, <1>3, <1>4, <1>5 DEF ShouldBeEnabled

\* The pointer stays right as long as it is that of the last look-up.
LEMMA PointerKept ==
    ASSUME PointerRight, scene' = scene, UNCHANGED <<asked, script, next, w, astray>>,
           pc' \in Holding => pc \in Holding
    PROVE  PointerRight'
BY SameWidget DEF PointerRight, Holding, Null

LEMMA GotoKeeps ==
    ASSUME PlayInv, UNCHANGED treeVars, NEW there \in Pcs \ {"acting"}, Goto(there),
           ~Over, pc # "acting",
           there \in {"look", "check", "use", "posted"} => next <= Len(script) /\ cmd.fun \in Slots,
           there \in Holding => pc \in Holding,
           there = "crashed" => gone, there \in {"use", "posted"} => w # Null
    PROVE  PlayInv'
<1>1. ScriptIsSeq' /\ ActedIsSeq' /\ TypeOK'
  BY SameTree, SameDone DEF Goto, PlayInv, TypeOK
<1>2. PcFits'
  BY DEF Goto, PlayInv, PcFits, Running, Over, Pcs, cmd
<1>3. PointerFits'
  BY DEF Goto, PlayInv, PointerFits, treeVars, Pcs
<1>5. PointerRight'
  BY PointerKept DEF Goto, PlayInv, treeVars
<1>4. DoneInv'
  BY DEF Goto, PlayInv, DoneInv, Needed, doneVars
<1> QED
  BY <1>1, <1>2, <1>3, <1>4, <1>5 DEF PlayInv

LEMMA SucceedKeeps ==
    ASSUME PlayInv, UNCHANGED treeVars, Succeed, ~Over, next <= Len(script),
           Needed(next) => pc = "acting"
    PROVE  PlayInv'
<1>1. Len(script) \in Nat /\ next \in Nat /\ next + 1 \in 1..(Len(script) + 1)
      /\ \A k \in 1..(next + 1 - 1) : k \in 1..(next - 1) \/ k = next
  BY ScriptLength DEF PlayInv, TypeOK
<1>2. ScriptIsSeq' /\ ActedIsSeq' /\ TypeOK'
  BY <1>1, SameTree, SameDone, MaxAttemptsAssumption DEF Succeed, PlayInv, TypeOK, Pcs
<1>3. PcFits'
  BY MaxAttemptsAssumption DEF Succeed, PcFits, Running, Over
<1>4. PointerFits'
  BY DEF Succeed, PlayInv, PointerFits
<1>6. PointerRight'
  BY DEF Succeed, PointerRight, Holding
<1>5. DoneInv'
  <2>1. UNCHANGED <<script, actedBy>> /\ next' = next + 1 /\ pc' = "step"
    BY DEF Succeed, doneVars
  <2>2. \A m \in 1..Len(actedBy) : actedBy[m] \in Nat
    BY <1>1, ActedByLength, ScriptLength DEF PlayInv
  <2>3. \A m \in 1..Len(actedBy) : actedBy[m] < next + 1
    BY <1>1, <2>2 DEF PlayInv, DoneInv
  <2>4. ASSUME NEW k \in 1..(next + 1 - 1), Needed(k)
        PROVE  \E n \in 1..Len(actedBy) : actedBy[n] = k
    BY <1>1, <2>4 DEF PlayInv, DoneInv
  <2>6. \A m \in 1..Len(actedBy) : actedBy[m] <= next + 1
    BY <1>1, <2>2, <2>3
  <2>7. \A m, n \in 1..Len(actedBy) : m < n => actedBy[m] < actedBy[n]
    BY DEF PlayInv, DoneInv
  <2> QED
    <3>1. (\A m \in 1..Len(actedBy) :
              actedBy[m] <= next /\ (pc # "acting" => actedBy[m] < next))'
      BY <2>1, <2>3, <2>6
    <3>2. (\A k \in 1..(next - 1) : Needed(k) => \E n \in 1..Len(actedBy) : actedBy[n] = k)'
      <4>1. ASSUME NEW k \in 1..(next' - 1), Needed(k)'
            PROVE  (\E n \in 1..Len(actedBy) : actedBy[n] = k)'
        <5>1. k \in 1..(next + 1 - 1)
          BY <1>1, <2>1
        <5>2. Needed(k)
          BY <2>1, <4>1 DEF Needed
        <5> QED
          BY <2>1, <2>4, <5>1, <5>2
      <4> QED
        BY <4>1
    <3> QED
      BY <2>1, <2>7, <3>1, <3>2 DEF DoneInv
<1> QED
  BY <1>2, <1>3, <1>4, <1>5, <1>6 DEF PlayInv

LEMMA RetryKeeps ==
    ASSUME PlayInv, UNCHANGED treeVars, NEW here \in {"look", "posted"}, Retry(here),
           here = "posted" => w # Null /\ pc = "posted", ~Over, pc # "acting",
           next <= Len(script), cmd.fun \in Slots
    PROVE  PlayInv'
<1>1. attempts \in 0..MaxAttempts /\ attempts < MaxAttempts /\ MaxAttempts \in Nat
  BY MaxAttemptsAssumption DEF PlayInv, TypeOK, PcFits
<1>2. attempts' \in 0..MaxAttempts /\ (attempts' = MaxAttempts \/ attempts' < MaxAttempts)
  BY <1>1 DEF Retry
<1>3. pc' \in {here, "error"} /\ (pc' # "error" => attempts' < MaxAttempts)
  BY <1>2 DEF Retry
<1>4. ScriptIsSeq' /\ ActedIsSeq' /\ TypeOK'
  BY <1>2, <1>3, SameTree, SameDone DEF Retry, PlayInv, TypeOK, Pcs
<1>5. PcFits'
  BY <1>3 DEF Retry, PlayInv, PcFits, Running, Over, cmd
<1>6. PointerFits'
  BY <1>3 DEF Retry, PlayInv, PointerFits, treeVars
<1>8. PointerRight'
  BY <1>3, PointerKept DEF Retry, PlayInv, Holding, treeVars
<1>7. DoneInv'
  BY <1>3 DEF Retry, PlayInv, DoneInv, Needed, doneVars
<1> QED
  BY <1>4, <1>5, <1>6, <1>7, <1>8 DEF PlayInv

-----------------------------------------------------------------------------
(* The steps *)

LEMMA LookKeeps ==
    ASSUME PlayInv, TreeInv, AskedFit, UNCHANGED treeVars, Look
    PROVE  PlayInv'
<1>0. TreeTypeOK
  BY DEF PlayInv, TypeOK
<1>k. next \in DOMAIN script /\ cmd.fun \in Slots
  BY ScriptLength DEF Look, PlayInv, PcFits, Running, TypeOK
<1>a. CommandFits(asked[next], cmd)
  BY <1>k DEF AskedFit, cmd
<1>N. PICK names : names = NamesRead(cmd.names) /\ IsName(names)
  BY <1>k, <1>a, ReadIsName DEF CommandFits
<1>f. PICK found \in DoGetWidgetWithSuchName(names, ShouldBeEnabled), hidden \in BOOLEAN :
          /\ w' = IF hidden \/ found = Fault THEN Null ELSE found
          /\ unseen' = (unseen \/ hidden)
          /\ pc' = IF found = Fault THEN "crashed" ELSE "check"
  BY <1>N DEF Look
<1>F. found \in (alive \cap Widgets) \cup {Null, Fault}
  BY <1>0, <1>N, FoundIsAlive
<1>1. w' \in alive \cup {Null}
  BY <1>f, <1>F
<1>2. w' \in Objects \cup {Null}
  BY <1>0, <1>1 DEF TreeTypeOK
<1>3. unseen' \in BOOLEAN /\ astray' \in BOOLEAN /\ pc' \in {"check", "crashed"}
  BY <1>f DEF Look, PlayInv, TypeOK
<1>4. ScriptIsSeq' /\ ActedIsSeq' /\ TypeOK'
  BY <1>2, <1>3, SameTree, SameDone DEF Look, PlayInv, TypeOK, Pcs
<1>5. PcFits'
  BY <1>3 DEF Look, PlayInv, PcFits, Running, Over, cmd
<1>6. PointerFits'
  <2>1. pc' = "crashed" => NoWidgetNamed(names)
    BY <1>0, <1>N, <1>f, FaultHasReason
  <2>2. NoWidgetNamed(names)' = NoWidgetNamed(names)
    BY DEF NoWidgetNamed, Stands, Class, Name, Widgets, Objects, treeVars
  <2>3. cmd' = cmd
    BY DEF Look, cmd
  <2>4. pc' = "crashed" => (gone \/ NoWidgetNamed(NamesRead(cmd.names)))'
    BY <1>N, <2>1, <2>2, <2>3
  <2>5. w' # Null' /\ w' \notin alive' => gone'
    BY <1>1 DEF treeVars, Null
  <2> QED
    BY <1>3, <2>4, <2>5 DEF PointerFits
<1>7. PointerRight'
  <2>1. RightWidget' = RightWidget /\ ShouldBeEnabled' = ShouldBeEnabled
    BY SameWidget DEF Look, treeVars
  <2>2. ASSUME Straight, ShouldBeEnabled
        PROVE  w' = Null \/ w' = RightWidget
    <3>1. RightWidget = Target(asked[next], cmd) /\ cmd.fun # "getObjectById"
      BY <2>2 DEF RightWidget, cmd, ShouldBeEnabled
    <3>t. PICK t \in Objects : t = RightWidget
      BY <1>0, <1>k, <1>a, <3>1, TargetIsObject DEF CommandFits
    <3>2. Usable[t] /\ names = FullQtWidgetId(t) /\ \A n \in DOMAIN Line[t] : ~Misleading(Line[t][n])
      BY <1>N, <2>2, <3>1, <3>t DEF Straight
    <3>3. DoGetWidgetWithSuchName(names, TRUE) = {t}
      BY <1>0, <3>2, NameFound
    <3>4. ShouldBeEnabled = TRUE
      BY <3>1 DEF ShouldBeEnabled
    <3>5. found = t
      BY <1>f, <3>3, <3>4
    <3> QED
      BY <1>f, <3>5, <3>t
  <2>3. astray' = ~Straight
    BY DEF Look
  <2> QED
    BY <2>1, <2>2, <2>3 DEF PointerRight, Null
<1>8. DoneInv'
  BY <1>3 DEF Look, PlayInv, DoneInv, Needed, doneVars
<1> QED
  BY <1>4, <1>5, <1>6, <1>7, <1>8 DEF PlayInv

LEMMA CheckKeeps ==
    ASSUME PlayInv, UNCHANGED treeVars, Check
    PROVE  PlayInv'
<1>1. /\ pc = "check" /\ ~Over /\ next <= Len(script) /\ cmd.fun \in Slots
      /\ w # Null /\ w \notin alive => gone
  BY DEF Check, Over, PlayInv, PcFits, Running, PointerFits
<1>2. CASE Retry("look")
  BY <1>1, <1>2, RetryKeeps
<1>3. CASE Goto("crashed") /\ w # Null /\ w \notin alive
  BY <1>1, <1>3, GotoKeeps DEF Pcs, Holding
<1>4. CASE Succeed /\ ~ShouldBeEnabled
  <2>1. ~Needed(next)
    BY <1>4 DEF Needed, ShouldBeEnabled, cmd
  <2> QED
    BY <1>1, <1>4, <2>1, SucceedKeeps
<1>5. CASE /\ pc' = "use" /\ attempts' = 0 /\ w # Null
           /\ UNCHANGED <<asked, script, next, w, unseen, astray, gone, doneVars>>
  <2>1. ScriptIsSeq' /\ ActedIsSeq' /\ TypeOK'
    BY <1>5, SameTree, SameDone, MaxAttemptsAssumption DEF PlayInv, TypeOK, Pcs
  <2>2. PcFits'
    BY <1>1, <1>5, MaxAttemptsAssumption DEF PcFits, Running, Over, cmd
  <2>3. PointerFits'
    BY <1>5 DEF PlayInv, PointerFits, treeVars
  <2>5. PointerRight'
    BY <1>1, <1>5, PointerKept DEF PlayInv, Holding, treeVars
  <2>4. DoneInv'
    BY <1>1, <1>5 DEF PlayInv, DoneInv, Needed, doneVars
  <2> QED
    BY <2>1, <2>2, <2>3, <2>4, <2>5 DEF PlayInv
<1> QED
  BY <1>2, <1>3, <1>4, <1>5 DEF Check

LEMMA PerformKeeps ==
    ASSUME PlayInv, UNCHANGED treeVars, pc = "posted", NEW what,
           acted' = Append(acted, what), actedBy' = Append(actedBy, next), pc' = "acting",
           UNCHANGED <<asked, script, next, attempts, w, unseen, astray, gone>>
    PROVE  PlayInv'
<1>1. next <= Len(script) /\ Len(script) \in Nat /\ next \in 1..(Len(script) + 1)
      /\ DOMAIN script = 1..Len(script)
  BY ScriptLength DEF PlayInv, PcFits, Running, TypeOK
<1>2. next \in DOMAIN script /\ next \in Nat
  BY <1>1
<1>3. actedBy \in Seq(DOMAIN script) /\ Len(actedBy) \in Nat
  BY ActedByLength DEF PlayInv, TypeOK
<1>4. /\ actedBy' \in Seq(DOMAIN script)
      /\ Len(actedBy') = Len(actedBy) + 1
      /\ \A m \in 1..Len(actedBy) : actedBy'[m] = actedBy[m]
      /\ actedBy'[Len(actedBy) + 1] = next
  BY <1>2, <1>3, AppendProperties
<1>5. ActedIsSeq' /\ Len(acted') = Len(acted) + 1
  BY AppendToAny DEF PlayInv, ActedIsSeq
<1>6. ScriptIsSeq' /\ TypeOK'
  BY <1>4, <1>5, SameTree DEF PlayInv, TypeOK, ScriptIsSeq, Pcs
<1>7. PcFits' /\ PointerFits' /\ PointerRight'
  BY DEF PlayInv, PcFits, PointerFits, PointerRight, Holding, Running, Over, cmd, treeVars
<1>8. DoneInv'
  <2>1. PICK l \in Nat : l = Len(actedBy)
    BY <1>3
  <2>2. \A m \in 1..l : actedBy[m] < next /\ actedBy[m] \in Nat
    <3>1. \A m \in 1..l : actedBy[m] < next
      BY <2>1 DEF PlayInv, DoneInv
    <3>2. \A m \in 1..l : actedBy[m] \in 1..Len(script)
      BY <1>1, <2>1, ActedByLength DEF PlayInv
    <3> QED
      BY <1>1, <3>1, <3>2
  <2>3. \A m \in 1..(l + 1) : m \in 1..l \/ m = l + 1
    OBVIOUS
  <2>4. \A m \in 1..(l + 1) : actedBy'[m] <= next
    BY <1>2, <1>4, <2>1, <2>2, <2>3
  <2>5. \E m \in 1..(l + 1) : actedBy'[m] = next
    <3>1. l + 1 \in 1..(l + 1)
      OBVIOUS
    <3> QED
      BY <1>4, <2>1, <3>1
  <2>6. ASSUME NEW m \in 1..(l + 1), NEW n \in 1..(l + 1), m < n
        PROVE  actedBy'[m] < actedBy'[n]
    <3>1. m \in 1..l
      BY <2>6
    <3>2. CASE n \in 1..l
      BY <1>4, <2>1, <2>6, <3>1, <3>2 DEF PlayInv, DoneInv
    <3>3. CASE n = l + 1
      BY <1>4, <2>1, <2>2, <3>1, <3>3
    <3> QED
      BY <2>3, <3>2, <3>3
  <2>7. ASSUME NEW k \in 1..(next - 1), Needed(k)
        PROVE  \E n \in 1..(l + 1) : actedBy'[n] = k
    <3>1. PICK n \in 1..l : actedBy[n] = k
      BY <2>1, <2>7 DEF PlayInv, DoneInv
    <3>2. n \in 1..(l + 1) /\ actedBy'[n] = k
      BY <1>4, <2>1, <3>1
    <3> QED
      BY <3>2
  <2>8. \A k : Needed(k)' <=> Needed(k)
    BY DEF Needed
  <2>9. Len(actedBy') = l + 1 /\ next' = next
    BY <1>4, <2>1
  <2> QED
    BY <2>4, <2>5, <2>6, <2>7, <2>8, <2>9 DEF DoneInv
<1> QED
  BY <1>5, <1>6, <1>7, <1>8 DEF PlayInv

LEMMA ActKeeps ==
    ASSUME PlayInv, UNCHANGED treeVars, Act
    PROVE  PlayInv'
<1>1. /\ pc = "posted" /\ ~Over /\ next <= Len(script) /\ cmd.fun \in Slots
      /\ w # Null /\ (w \notin alive => gone)
  BY DEF Act, Over, PlayInv, PcFits, Running, PointerFits
<1>2. CASE w \notin alive /\ Goto("crashed")
  BY <1>1, <1>2, GotoKeeps DEF Pcs, Holding
<1>3. CASE Lenient /\ Succeed
  <2>1. ~Needed(next)
    BY <1>3 DEF Lenient, Needed, LenientFunctions, cmd
  <2> QED
    BY <1>1, <1>3, <2>1, SucceedKeeps
<1>4. CASE Retry("posted")
  BY <1>1, <1>4, RetryKeeps DEF Holding
<1>5. CASE Goto("error")
  BY <1>1, <1>5, GotoKeeps DEF Pcs, Holding
<1>6. CASE /\ \E what : acted' = Append(acted, what)
           /\ actedBy' = Append(actedBy, next)
           /\ pc' = "acting"
           /\ UNCHANGED <<asked, script, next, attempts, w, unseen, astray, gone>>
  BY <1>1, <1>6, PerformKeeps
<1> QED
  BY <1>2, <1>3, <1>4, <1>5, <1>6 DEF Act

LEMMA PlayerKeeps ==
    ASSUME PlayInv, TreeInv, AskedFit, PlayerStep
    PROVE  PlayInv'
<1>1. UNCHANGED treeVars
  BY DEF PlayerStep
<1>2. Len(script) \in Nat /\ next \in 1..(Len(script) + 1)
  BY ScriptLength DEF PlayInv, TypeOK
<1>3. CASE Start
  <2>1. PICK there \in {"step", "error"} : Goto(there)
    BY <1>3 DEF Start
  <2> QED
    BY <1>1, <1>3, <2>1, GotoKeeps DEF Start, Pcs, Over, Holding
<1>4. CASE Step
  <2>1. pc = "step" /\ ~Over
    BY <1>4 DEF Step, Over
  <2>2. CASE Goto("ok") \/ Goto("error")
    BY <1>1, <2>1, <2>2, GotoKeeps DEF Pcs, Holding
  <2>3. CASE next <= Len(script) /\ cmd.fun \in Slots /\ Goto("look")
    BY <1>1, <2>1, <2>3, GotoKeeps DEF Pcs, Holding
  <2>4. CASE next <= Len(script) /\ cmd.fun \in Others /\ Succeed
    <3>1. ~Needed(next)
      BY <2>4 DEF Needed, Slots, TextFunctions, Others, cmd
    <3> QED
      BY <1>1, <2>1, <2>4, <3>1, SucceedKeeps
  <2> QED
    BY <1>4, <2>2, <2>3, <2>4 DEF Step
<1>5. CASE Look
  BY <1>1, <1>5, LookKeeps
<1>6. CASE Check
  BY <1>1, <1>6, CheckKeeps
<1>7. CASE Use
  <2>1. /\ pc = "use" /\ ~Over /\ next <= Len(script) /\ cmd.fun \in Slots
        /\ w # Null /\ (w \notin alive => gone)
    BY <1>7 DEF Use, Over, PlayInv, PcFits, Running, PointerFits
  <2>2. CASE Goto("crashed") /\ w \notin alive
    BY <1>1, <2>1, <2>2, GotoKeeps DEF Pcs, Holding
  <2>3. CASE Goto("error") \/ Goto("posted")
    BY <1>1, <2>1, <2>3, GotoKeeps DEF Pcs, Holding
  <2> QED
    BY <1>7, <2>2, <2>3 DEF Use
<1>8. CASE Return \/ GiveUp
  <2>1. pc = "acting" /\ ~Over /\ next <= Len(script) /\ Succeed
    BY <1>8 DEF Return, GiveUp, Over, PlayInv, PcFits, Running
  <2> QED
    BY <1>1, <2>1, SucceedKeeps
<1>9. CASE Act
  BY <1>1, <1>9, ActKeeps
<1> QED
  BY <1>3, <1>4, <1>5, <1>6, <1>7, <1>8, <1>9 DEF PlayerStep, AgentThread

LEMMA ApplicationKeeps ==
    ASSUME PlayInv, ApplicationStep
    PROVE  PlayInv'
<1>1. UNCHANGED <<asked, script, pc, next, attempts, w, unseen, astray, doneVars>>
      /\ gone' = (gone \/ (w # Null /\ w \notin alive')) /\ ~Over
  BY DEF ApplicationStep
<1>2. TreeTypeOK' /\ Objects' = Objects /\ scene' = scene
  BY ApplicationTyped DEF ApplicationStep, PlayInv, TypeOK
<1>3. ScriptIsSeq' /\ ActedIsSeq' /\ TypeOK'
  BY <1>1, <1>2, SameDone DEF PlayInv, TypeOK
<1>4. PcFits' /\ PointerFits'
  BY <1>1 DEF PlayInv, PcFits, PointerFits, Running, Over, cmd
<1>6. PointerRight'
  BY <1>1, <1>2, PointerKept DEF PlayInv
<1>5. DoneInv'
  BY <1>1 DEF PlayInv, DoneInv, Needed, doneVars
<1> QED
  BY <1>3, <1>4, <1>5, <1>6 DEF PlayInv

LEMMA InitInv ==
    ASSUME Init
    PROVE  Inv
<1>1. scene \in Scenes /\ scene.commands \in Nat
  BY ScenesAssumption DEF Init, TreeInit
<1>2. PICK n \in Nat : asked \in [1..n -> {e \in scene.user : Possible(e)}]
  BY <1>1 DEF Init
<1>3. script \in [1..n -> {script[k] : k \in 1..n}]
  BY <1>2 DEF Init
<1>4. script \in Seq({script[k] : k \in 1..n})
  BY <1>3, SeqDef
<1>5. ScriptIsSeq /\ Len(script) \in Nat
  BY <1>4, LenProperties DEF ScriptIsSeq
<1>6. ActedIsSeq /\ \A S : <<>> \in Seq(S)
  BY EmptySeq DEF Init, ActedIsSeq
<1>7. TreeTypeOK
  <2>1. Len(scene.class) \in Nat
    BY <1>1, ScenesAssumption, LenProperties
  <2> QED
    BY <1>1, <2>1, ScenesAssumption DEF Init, TreeInit, TreeTypeOK, Objects
<1>8. TypeOK
  <2>1. DOMAIN script = DOMAIN asked /\ pc \in Pcs /\ w \in Objects \cup {Null}
        /\ unseen \in BOOLEAN /\ astray \in BOOLEAN /\ gone \in BOOLEAN
    BY DEF Init, Pcs
  <2>2. next \in 1..(Len(script) + 1)
    BY <1>5 DEF Init
  <2>3. attempts \in 0..MaxAttempts
    BY MaxAttemptsAssumption DEF Init
  <2>4. Len(acted) = Len(actedBy) /\ actedBy \in Seq(DOMAIN script)
    BY <1>6 DEF Init
  <2> QED
    BY <1>7, <2>1, <2>2, <2>3, <2>4 DEF TypeOK
<1>9. PcFits /\ PointerFits /\ PointerRight
  BY MaxAttemptsAssumption DEF Init, PcFits, PointerFits, PointerRight, Holding, Running
<1>10. DoneInv
  BY EmptySeq DEF Init, DoneInv
<1>11. TreeInv
  BY <1>7, InitTree DEF Init
<1>12. AskedFit
  <2>1. ASSUME NEW k \in DOMAIN script
        PROVE  CommandFits(asked[k], script[k])
    <3>1. k \in 1..n /\ script[k] = Line1(asked[k])
      BY <1>2 DEF Init
    <3>e. PICK e : e = asked[k] /\ Possible(e)
      BY <1>2, <3>1
    <3> QED
      BY <1>7, <3>1, <3>e, LineFits
  <2> QED
    BY <2>1 DEF AskedFit
<1> QED
  BY <1>5, <1>6, <1>8, <1>9, <1>10, <1>11, <1>12 DEF Inv, PlayInv

LEMMA StutterKeeps ==
    ASSUME PlayInv, UNCHANGED vars
    PROVE  PlayInv'
<1>1. ScriptIsSeq' /\ ActedIsSeq' /\ TypeOK'
  BY SameTree, SameDone DEF vars, playVars, doneVars, PlayInv, TypeOK
<1>2. PcFits'
  BY DEF vars, playVars, PlayInv, PcFits, Running, Over, cmd
<1>3. PointerFits'
  <2>n. PICK names : names = NamesRead(cmd.names)
    OBVIOUS
  <2>1. NoWidgetNamed(names)' = NoWidgetNamed(names)
    BY DEF NoWidgetNamed, Stands, Class, Name, Widgets, Objects, vars, treeVars
  <2>2. NamesRead(cmd.names)' = names
    BY <2>n DEF vars, playVars, cmd, NamesRead
  <2>3. NoWidgetNamed(NamesRead(cmd.names))' = NoWidgetNamed(names)'
    BY <2>2 DEF NoWidgetNamed
  <2> QED
    BY <2>1, <2>3, <2>n DEF vars, playVars, treeVars, PlayInv, PointerFits, Null
<1>4. PointerRight'
  BY PointerKept DEF vars, playVars, treeVars, PlayInv
<1>5. DoneInv'
  BY DEF vars, playVars, doneVars, PlayInv, DoneInv, Needed
<1> QED
  BY <1>1, <1>2, <1>3, <1>4, <1>5 DEF PlayInv

LEMMA ScriptStays ==
    ASSUME [Next]_vars
    PROVE  UNCHANGED <<asked, script>>
<1>1. CASE UNCHANGED vars
  BY <1>1 DEF vars, playVars
<1>2. CASE ApplicationStep
  BY <1>2 DEF ApplicationStep
<1>3. CASE PlayerStep
  BY <1>3 DEF PlayerStep, AgentThread, Start, Step, Look, Check, Use, Act, Return, GiveUp,
     Goto, Succeed, Retry
<1> QED
  BY <1>1, <1>2, <1>3 DEF Next

LEMMA TreeKept ==
    ASSUME PlayInv, TreeInv, [Next]_vars
    PROVE  TreeInv' /\ scene' = scene
<1>1. CASE UNCHANGED treeVars
  BY <1>1 DEF treeVars, TreeInv, PlacesDiffer, ParentsLive, Objects, Parent
<1>2. CASE AppStep
  BY <1>2, TreeStep, ApplicationTyped DEF PlayInv, TypeOK
<1> QED
  BY <1>1, <1>2 DEF Next, PlayerStep, ApplicationStep, vars

LEMMA InvStep ==
    ASSUME Inv, [Next]_vars
    PROVE  Inv'
<1>1. TreeInv' /\ scene' = scene
  BY TreeKept DEF Inv
<1>2. UNCHANGED <<asked, script>>
  BY ScriptStays
<1>3. AskedFit'
  <2>1. ASSUME NEW k \in DOMAIN script
        PROVE  CommandFits(asked[k], script[k])'
    <3>1. PICK e, com : e = asked[k] /\ com = script[k]
      OBVIOUS
    <3>2. CommandFits(e, com)'
      BY <1>1, <2>1, <3>1, FitsStay DEF Inv, AskedFit
    <3>3. asked'[k] = e /\ script'[k] = com
      BY <1>2, <3>1
    <3> QED
      BY <3>2, <3>3
  <2> QED
    BY <1>2, <2>1 DEF AskedFit
<1>4. PlayInv'
  BY StutterKeeps, PlayerKeeps, ApplicationKeeps DEF Next, Inv
<1> QED
  BY <1>1, <1>3, <1>4 DEF Inv

-----------------------------------------------------------------------------
(* A replay, as long as the application is as it was *)

AskedIsSeq == \E S : asked \in Seq(S)

\* The commands are those for what was asked for, of widgets as they still are.
AskedInv ==
    changes = 0 => \A k \in DOMAIN script : Possible(asked[k]) /\ script[k] = Line1(asked[k])

\* What was done is what was asked for, up to the command that is being run.
RepeatedSoFar ==
    /\ Len(acted) = IF pc = "acting" THEN next ELSE next - 1
    /\ \A m \in 1..Len(acted) : acted[m] = asked[m]

FoundRight ==
    /\ pc = "check" => w = RightWidget \/ (w = Null /\ unseen)
    /\ pc \in {"use", "posted"} => w = RightWidget

EndsRight ==
    /\ pc # "crashed"
    /\ pc = "error" => unseen
    /\ pc = "ok" => next = Len(script) + 1

Repeating == RepeatedSoFar /\ FoundRight /\ EndsRight

AsItWas == changes = 0 /\ \A k \in DOMAIN script : Faithful(k)

ReplayInv == AskedIsSeq /\ AskedInv /\ (AsItWas => Repeating)

LEMMA ActedInAny ==
    ASSUME ActedIsSeq, NEW e
    PROVE  \E S : acted \in Seq(S \cup {e})
<1>1. PICK S : acted \in Seq(S)
  BY DEF ActedIsSeq
<1>2. PICK n \in Nat : acted \in [1..n -> S]
  BY <1>1, SeqDef
<1>3. acted \in [1..n -> S \cup {e}]
  BY <1>2
<1>4. acted \in Seq(S \cup {e})
  BY <1>3, SeqDef
<1> QED
  BY <1>4

LEMMA GotoRepeats ==
    ASSUME Repeating, UNCHANGED treeVars, pc # "acting", NEW there \in {"step", "look", "posted", "ok"},
           Goto(there), there = "posted" => pc = "use", there = "ok" => next = Len(script) + 1
    PROVE  Repeating'
<1>1. RightWidget' = RightWidget
  BY SameWidget DEF Goto, treeVars
<1>2. RepeatedSoFar'
  BY DEF Repeating, RepeatedSoFar, Goto, doneVars
<1>3. FoundRight'
  BY <1>1 DEF Repeating, FoundRight, Goto
<1>4. EndsRight'
  BY DEF Repeating, EndsRight, Goto
<1> QED
  BY <1>2, <1>3, <1>4 DEF Repeating

LEMMA SucceedRepeats ==
    ASSUME PlayInv, Repeating, UNCHANGED treeVars, pc = "acting", Succeed
    PROVE  Repeating'
<1>1. next \in Nat
  BY ScriptLength DEF PlayInv, TypeOK
<1>2. RepeatedSoFar'
  BY <1>1 DEF Repeating, RepeatedSoFar, Succeed, doneVars
<1>3. FoundRight' /\ EndsRight'
  BY DEF FoundRight, EndsRight, Succeed
<1> QED
  BY <1>2, <1>3 DEF Repeating

LEMMA RetryRepeats ==
    ASSUME Repeating, UNCHANGED treeVars, pc = "check", unseen, Retry("look")
    PROVE  Repeating'
<1>1. pc' \in {"look", "error"} /\ unseen'
  BY DEF Retry
<1>2. RepeatedSoFar'
  BY <1>1 DEF Repeating, RepeatedSoFar, Retry, doneVars
<1>3. FoundRight' /\ EndsRight'
  BY <1>1 DEF FoundRight, EndsRight
<1> QED
  BY <1>2, <1>3 DEF Repeating

\* The steps that run the next command
LEMMA PlayerRepeats ==
    ASSUME PlayInv, Repeating, PlayerStep, \A k \in DOMAIN script : Replayed(k)
    PROVE  Repeating'
<1>1. UNCHANGED treeVars
  BY DEF PlayerStep
<1>2. /\ Len(script) \in Nat /\ DOMAIN script = 1..Len(script) /\ next \in 1..(Len(script) + 1)
      /\ pc \in {"look", "check", "use", "posted", "acting"} => next <= Len(script)
  BY ScriptLength DEF PlayInv, TypeOK, PcFits, Running
<1>3. ASSUME next <= Len(script)
      PROVE  /\ RightWidget \in alive /\ RightWidget # Null /\ Usable[RightWidget]
             /\ DoGetWidgetWithSuchName(NamesRead(cmd.names), TRUE) = {RightWidget}
             /\ Performed(cmd, RightWidget) = {asked[next]}
             /\ cmd.fun \in Slots \ {"getObjectById"}
  <2>1. Replayed(next)
    BY <1>2, <1>3
  <2>2. PICK t \in alive :
            /\ t = Target(asked[next], script[next]) /\ t # Null /\ Usable[t]
            /\ DoGetWidgetWithSuchName(NamesRead(script[next].names), TRUE) = {t}
            /\ Performed(script[next], t) = {asked[next]}
    BY <2>1 DEF Replayed
  <2>3. script[next].fun \in Slots \ {"getObjectById"}
    BY <2>2, PerformedIsSlot
  <2> QED
    BY <2>2, <2>3 DEF RightWidget, cmd
<1>4. CASE Start
  <2>1. \A k \in DOMAIN script : script[k].parses
    BY DEF Replayed
  <2> QED
    BY <1>1, <1>4, <2>1, GotoRepeats DEF Start
<1>5. CASE Step
  <2>1. CASE next > Len(script)
    BY <1>1, <1>2, <1>5, <2>1, GotoRepeats DEF Step
  <2>2. CASE next <= Len(script)
    <3>1. ~(next > Len(script))
      BY <1>2, <2>2
    <3>2. cmd.fun \in Slots /\ cmd.fun \notin Others
      BY <1>3, <2>2 DEF Slots, TextFunctions, Others
    <3>3. Goto("look")
      BY <1>5, <2>2, <3>1, <3>2 DEF Step
    <3> QED
      BY <1>1, <1>5, <3>3, GotoRepeats DEF Step
  <2> QED
    BY <1>2, <2>1, <2>2
<1>6. CASE Look
  <2>p. pc = "look" /\ next <= Len(script) /\ UNCHANGED <<asked, script, next, acted>>
    BY <1>2, <1>6 DEF Look, doneVars
  <2>s. ShouldBeEnabled = TRUE
    BY <1>3, <2>p DEF ShouldBeEnabled
  <2>f. PICK found \in {RightWidget}, hidden \in BOOLEAN :
            /\ w' = IF hidden \/ found = Fault THEN Null ELSE found
            /\ unseen' = (unseen \/ hidden)
            /\ pc' = IF found = Fault THEN "crashed" ELSE "check"
    BY <1>3, <1>6, <2>p, <2>s DEF Look
  <2>a. found # Fault
    BY <1>3, <2>p, ObjectsAreCounted DEF PlayInv, TypeOK, TreeTypeOK, Fault
  <2>1. pc = "look" /\ pc' = "check" /\ UNCHANGED <<asked, script, next, acted>>
    BY <2>a, <2>f, <2>p
  <2>2. w' = RightWidget \/ (w' = Null /\ unseen')
    BY <2>a, <2>f
  <2>3. RightWidget' = RightWidget
    BY <1>1, <2>1, SameWidget DEF treeVars
  <2>4. RepeatedSoFar'
    BY <2>1 DEF Repeating, RepeatedSoFar
  <2> QED
    BY <2>1, <2>2, <2>3, <2>4 DEF Repeating, FoundRight, EndsRight, Null
<1>7. CASE Check
  <2>1. pc = "check" /\ next <= Len(script) /\ ShouldBeEnabled
    BY <1>2, <1>3, <1>7 DEF Check, ShouldBeEnabled
  <2>2. CASE w = Null
    <3>1. w # RightWidget /\ unseen
      BY <1>3, <2>1, <2>2 DEF Repeating, FoundRight
    <3>2. Retry("look")
      BY <1>7, <2>2 DEF Check
    <3> QED
      BY <1>1, <2>1, <3>1, <3>2, RetryRepeats
  <2>3. CASE w # Null
    <3>1. w = RightWidget /\ w \in alive /\ Usable[w]
      BY <1>3, <2>1, <2>3 DEF Repeating, FoundRight
    <3>2. pc' = "use" /\ UNCHANGED <<asked, script, next, w, unseen, astray, gone, doneVars>>
      BY <1>7, <2>1, <2>3, <3>1 DEF Check
    <3>3. RightWidget' = RightWidget
      BY <1>1, <3>2, SameWidget DEF treeVars
    <3>4. RepeatedSoFar'
      BY <2>1, <3>2 DEF Repeating, RepeatedSoFar, doneVars
    <3> QED
      BY <3>1, <3>2, <3>3, <3>4 DEF Repeating, FoundRight, EndsRight
  <2> QED
    BY <2>2, <2>3
<1>8. CASE Use
  <2>1. pc = "use" /\ next <= Len(script) /\ w = RightWidget
    BY <1>2, <1>8 DEF Use, Repeating, FoundRight
  <2>2. w \in alive /\ Suits
    BY <1>3, <2>1, PerformedSuits
  <2>3. Goto("posted")
    BY <1>8, <2>2 DEF Use
  <2> QED
    BY <1>1, <2>1, <2>3, GotoRepeats
<1>9. CASE Act
  <2>1. pc = "posted" /\ next <= Len(script) /\ w = RightWidget
    BY <1>2, <1>9 DEF Act, Repeating, FoundRight
  <2>2. w \in alive /\ Performed(cmd, w) = {asked[next]}
    BY <1>3, <2>1
  <2>3. /\ acted' = Append(acted, asked[next]) /\ pc' = "acting"
        /\ UNCHANGED <<asked, script, next, attempts, w, unseen, astray, gone>>
    BY <1>9, <2>2 DEF Act
  <2>4. PICK S : acted \in Seq(S \cup {asked[next]})
    BY ActedInAny DEF PlayInv
  <2>5. PICK n \in Nat : n = next /\ Len(acted) = n - 1
    BY <1>2, <2>1 DEF Repeating, RepeatedSoFar
  <2>6. /\ Len(acted') = n
        /\ \A m \in 1..(n - 1) : acted'[m] = acted[m]
        /\ acted'[n] = asked[n]
    BY <2>3, <2>4, <2>5, AppendProperties
  <2>7. \A m \in 1..n : acted'[m] = asked[m]
    BY <2>5, <2>6 DEF Repeating, RepeatedSoFar
  <2>8. RepeatedSoFar'
    BY <2>3, <2>5, <2>6, <2>7 DEF RepeatedSoFar
  <2> QED
    BY <2>3, <2>8 DEF Repeating, FoundRight, EndsRight
<1>10. CASE Return \/ GiveUp
  BY <1>1, <1>10, SucceedRepeats DEF Return, GiveUp
<1> QED
  BY <1>4, <1>5, <1>6, <1>7, <1>8, <1>9, <1>10 DEF PlayerStep, AgentThread

LEMMA AskedStep ==
    ASSUME UNCHANGED <<treeVars, asked, script>>, AskedInv
    PROVE  AskedInv'
<1>1. ASSUME changes = 0, NEW k \in DOMAIN script
      PROVE  (Possible(asked[k]) /\ script[k] = Line1(asked[k]))'
  <2>1. PICK e : e = asked[k]
    OBVIOUS
  <2>2. Possible(e) /\ script[k] = Line1(e)
    BY <1>1, <2>1 DEF AskedInv
  <2>3. Possible(e)' /\ script[k]' = Line1(e)'
    BY <2>2, SameEvents
  <2>4. asked'[k] = e
    BY <2>1
  <2> QED
    BY <2>3, <2>4
<1> QED
  BY <1>1 DEF AskedInv, treeVars

LEMMA ReplayStep ==
    ASSUME PlayInv, TreeInv, ReplayInv, [Next]_vars
    PROVE  ReplayInv'
<1>1. UNCHANGED asked /\ UNCHANGED script
  BY ScriptStays
<1>3. AskedIsSeq'
  BY <1>1 DEF ReplayInv, AskedIsSeq
<1>4. CASE UNCHANGED treeVars /\ (PlayerStep \/ UNCHANGED vars)
  <2>1. AskedInv'
    BY <1>1, <1>4, AskedStep DEF ReplayInv
  <2>2. ASSUME AsItWas'
        PROVE  Repeating'
    <3>1. changes = 0
      BY <1>4, <2>2 DEF AsItWas, treeVars
    <3>2. ASSUME NEW k \in DOMAIN script
          PROVE  Faithful(k)
      <4>1. Faithful(k)' <=> Faithful(k)
        BY <1>1, <1>4, SameFaithful
      <4>2. Faithful(k)'
        BY <1>1, <2>2, <3>2 DEF AsItWas
      <4> QED
        BY <4>1, <4>2
    <3>3. Repeating
      BY <3>1, <3>2 DEF ReplayInv, AsItWas
    <3>4. CASE UNCHANGED vars
      <4>1. RightWidget' = RightWidget
        BY <3>4, SameWidget DEF vars, playVars, treeVars
      <4> QED
        BY <3>3, <3>4, <4>1 DEF vars, playVars, doneVars, Repeating, RepeatedSoFar, FoundRight, EndsRight
    <3>5. CASE PlayerStep
      <4>1. ASSUME NEW k \in DOMAIN script
            PROVE  Replayed(k)
        <5>1. Possible(asked[k]) /\ script[k] = Line1(asked[k])
          BY <3>1, <4>1 DEF ReplayInv, AskedInv
        <5> QED
          BY <3>2, <4>1, <5>1, FaithfulReplayed DEF PlayInv, TypeOK
      <4> QED
        BY <3>3, <3>5, <4>1, PlayerRepeats
    <3> QED
      BY <1>4, <3>4, <3>5
  <2> QED
    BY <1>3, <2>1, <2>2 DEF ReplayInv
<1>5. CASE ApplicationStep
  <2>1. changes' # 0
    <3>1. changes' = changes + 1
      BY <1>5 DEF ApplicationStep, AppStep, ShowOrHide, Destroy, Raise, Change
    <3>2. changes \in Nat
      BY ScenesAssumption DEF PlayInv, TypeOK, TreeTypeOK
    <3> QED
      BY <3>1, <3>2
  <2> QED
    BY <1>3, <2>1 DEF ReplayInv, AskedInv, AsItWas
<1> QED
  BY <1>4, <1>5 DEF Next, PlayerStep, vars

LEMMA InitReplay ==
    ASSUME Init
    PROVE  ReplayInv
<1>1. scene \in Scenes /\ scene.commands \in Nat
  BY ScenesAssumption DEF Init, TreeInit
<1>2. PICK n \in Nat : asked \in [1..n -> {e \in scene.user : Possible(e)}]
  BY <1>1 DEF Init
<1>3. AskedIsSeq
  BY <1>2, SeqDef DEF AskedIsSeq
<1>4. AskedInv
  <2>1. \A k \in DOMAIN asked : Possible(asked[k])
    BY <1>2
  <2>2. DOMAIN script = DOMAIN asked /\ \A k \in DOMAIN asked : script[k] = Line1(asked[k])
    BY DEF Init
  <2> QED
    BY <2>1, <2>2 DEF AskedInv
<1>5. Repeating
  <2>1. RepeatedSoFar
    BY EmptySeq DEF Init, RepeatedSoFar
  <2>2. FoundRight /\ EndsRight
    BY DEF Init, FoundRight, EndsRight
  <2> QED
    BY <2>1, <2>2 DEF Repeating
<1> QED
  BY <1>3, <1>4, <1>5 DEF ReplayInv

LEMMA RepeatingMeans ==
    ASSUME PlayInv, ReplayInv
    PROVE  Undisturbed
<1> SUFFICES ASSUME Repeating
             PROVE  /\ acted = SubSeq(asked, 1, Len(acted))
                    /\ pc = "ok" => acted = asked
                    /\ pc = "error" => unseen
  BY DEF ReplayInv, AsItWas, Undisturbed
<1>s. PICK S : asked \in Seq(S)
  BY DEF ReplayInv, AskedIsSeq
<1>2. PICK N \in Nat : N = Len(asked) /\ DOMAIN asked = 1..N
  BY <1>s, LenProperties
<1>t. PICK T : acted \in Seq(T)
  BY DEF PlayInv, ActedIsSeq
<1>3. PICK L \in Nat : L = Len(acted) /\ DOMAIN acted = 1..L
  BY <1>t, LenProperties
<1>4. next \in 1..(N + 1) /\ Len(script) = N /\ (pc = "acting" => next <= N)
  <2>1. Len(script) \in Nat /\ 1..Len(script) = 1..N
    BY <1>2, ScriptLength DEF PlayInv, TypeOK
  <2>2. Len(script) = N
    BY <2>1
  <2> QED
    BY <2>2 DEF PlayInv, TypeOK, PcFits, Running
<1>5. L <= N /\ (pc = "ok" => L = N)
  BY <1>3, <1>4 DEF Repeating, RepeatedSoFar, EndsRight
<1>6. \A m \in 1..L : acted[m] = asked[m]
  BY <1>3 DEF Repeating, RepeatedSoFar
<1>7. acted = SubSeq(asked, 1, L)
  <2>1. /\ SubSeq(asked, 1, L) \in Seq(S) /\ Len(SubSeq(asked, 1, L)) = L
        /\ \A m \in 1..L : SubSeq(asked, 1, L)[m] = asked[m]
    <3>1. \A m \in 1..L : asked[m] \in S
      BY <1>s, <1>2, <1>5, ElementOfSeq
    <3> QED
      BY <1>5, <3>1, SubSeqProperties
  <2>2. DOMAIN SubSeq(asked, 1, L) = 1..L
    BY <2>1, LenProperties
  <2> QED
    BY <1>t, <1>3, <1>6, <2>1, <2>2
<1>8. pc = "ok" => acted = asked
  <2>1. ASSUME L = N
        PROVE  acted = asked
    BY <1>s, <1>t, <1>2, <1>3, <1>6, <2>1
  <2> QED
    BY <1>5, <2>1
<1> QED
  BY <1>3, <1>7, <1>8 DEF Repeating, EndsRight

-----------------------------------------------------------------------------
(* What a command does, whatever happens to the application *)

LEMMA ActsRight ==
    ASSUME Inv, [Next]_vars
    PROVE  ActsAsAsked
<1> SUFFICES ASSUME acted' # acted, ~astray, asked[next].on \in alive,
                    ~MisreadAs(asked[next], cmd)
             PROVE  acted' = Append(acted, asked[next])
  BY DEF ActsAsAsked
<1>e. PICK e : e = asked[next]
  OBVIOUS
<1>c. PICK com : com = cmd
  OBVIOUS
<1>1. Act
  <2>1. CASE UNCHANGED vars
    BY <2>1 DEF vars, playVars, doneVars
  <2>2. CASE ApplicationStep
    BY <2>2 DEF ApplicationStep, doneVars
  <2>3. CASE AgentThread
    BY <2>3 DEF AgentThread, Start, Step, Look, Check, Use, Return, GiveUp, Goto, Succeed, Retry,
       doneVars
  <2> QED
    BY <2>1, <2>2, <2>3 DEF Next, PlayerStep
<1>2. PICK what \in Performed(cmd, w) : acted' = Append(acted, what)
  BY <1>1 DEF Act, Goto, Succeed, Retry, doneVars
<1>3. com.fun \in Slots \ {"getObjectById"}
  BY <1>c, <1>2, PerformedIsSlot
<1>4. pc = "posted" /\ next \in DOMAIN script
  BY <1>1, ScriptLength DEF Act, Inv, PlayInv, PcFits, Running, TypeOK
<1>5. CommandFits(e, com)
  BY <1>c, <1>e, <1>4 DEF Inv, AskedFit, cmd
<1>6. e.on \in alive /\ e \in Happenings(e.on) /\ Fits(e, com)
  BY <1>e, <1>3, <1>5 DEF CommandFits
<1>7. Exact(e, com)
  <2>1. TreeTypeOK /\ PlacesDiffer
    BY DEF Inv, PlayInv, TypeOK, TreeInv
  <2>v. PICK v \in alive : v = e.on
    BY <1>6
  <2> QED
    BY <1>6, <2>1, <2>v, FitsRight
<1>8. Performed(com, Target(e, com)) = {e}
  <2>1. ~Slips(e, com)
    BY <1>c, <1>e DEF MisreadAs, Garbled, Slips
  <2> QED
    BY <1>7, <2>1 DEF Exact
<1>9. w = Target(e, com)
  <2>1. ShouldBeEnabled
    BY <1>c, <1>3 DEF ShouldBeEnabled
  <2>2. w # Null
    BY <1>4 DEF Inv, PlayInv, PointerFits
  <2> QED
    BY <1>c, <1>e, <1>4, <2>1, <2>2 DEF Inv, PlayInv, PointerRight, Holding, RightWidget, cmd
<1> QED
  BY <1>2, <1>8, <1>9, <1>c, <1>e

\* The invariant of the whole development holds of every behaviour.
THEOREM Invariance == Spec => []Inv
<1>1. Init => Inv
  BY InitInv
<1>2. Inv /\ [Next]_vars => Inv'
  BY InvStep
<1> QED
  BY <1>1, <1>2, PTL DEF Spec

\* Every variable has its type; in particular no function makes more than
\* MaxAttempts attempts, and a pointer is null or that of a widget.
THEOREM TypeCorrect == Spec => []TypeOK
<1>1. Inv => TypeOK
  BY DEF Inv, PlayInv
<1> QED
  BY <1>1, Invariance, PTL

\* No retry of getWidgetWithSuchName or pressButtonWithText, and no call that
\* gives up waiting, repeats a command of the script or skips one.
THEOREM EachActsOnce == Spec => []ActedOnceEach
<1>1. ASSUME PlayInv
      PROVE  ActedOnceEach
  <2>1. DOMAIN actedBy = 1..Len(actedBy)
    BY <1>1, ActedByLength DEF PlayInv
  <2> QED
    BY <1>1, <2>1 DEF PlayInv, DoneInv, ActedOnceEach, Needed
<1>2. Inv => ActedOnceEach
  BY <1>1 DEF Inv
<1> QED
  BY <1>2, Invariance, PTL

\* The application crashes in a function of ScriptAPI only when the widget was
\* destroyed after doGetWidgetWithSuchName had found it, or when an element of
\* the name stands for an object that is no widget, so that a cast gives null.
THEOREM CrashExplained == Spec => []CrashHasReason
<1>1. Inv => CrashHasReason
  BY DEF Inv, PlayInv, PointerFits, CrashHasReason, NoWidgetNamed
<1> QED
  BY <1>1, Invariance, PTL

\* The name that the recorder gives a widget (fullQtWidgetId), joined with dots
\* and split at them, leads a look-up (doGetWidgetWithSuchName) to this widget,
\* unless an object on the line to it is misleading: in every application,
\* whatever the names and classes of its objects and whatever has happened to
\* them.
THEOREM NamesLeadBack == Spec => []NameLeadsBack
<1>1. Inv => NameLeadsBack
  BY NameFound DEF Inv, PlayInv, TypeOK, NameLeadsBack
<1> QED
  BY <1>1, Invariance, PTL

\* The command that the analyzers or keyReleaseEventToScript record for what
\* the user does with a usable widget, put into the script without escapes and
\* read again, makes the slots of ScriptAPI do the very same, unless it is
\* misread in one of the known ways, and then it does not: for every
\* application, item, button, key and text, whatever has happened before.
THEOREM CommandsLeadBack == Spec => []CommandLeadsBack
<1>1. Inv => CommandLeadsBack
  BY CommandsLeadBackThere DEF Inv, PlayInv, TypeOK
<1> QED
  BY <1>1, Invariance, PTL

\* From the event to the script and back: a recorded script whose commands are
\* not misleading does what the user did, in this order, as long as the
\* application is as it was, and fails only when the screen hides a widget; and
\* whatever happens to the application, a command does what the user did if its
\* name led straight to its widget, which is still there, and nothing in the
\* command is misread.
THEOREM ReplaysRepeat == Spec => ReplayRepeats
<1>1. Init => ReplayInv
  BY InitInv, InitReplay
<1>2. Inv /\ ReplayInv /\ [Next]_vars => ReplayInv'
  BY ReplayStep DEF Inv
<1>3. Inv /\ ReplayInv => Undisturbed
  BY RepeatingMeans DEF Inv
<1>4. Spec => []Undisturbed
  BY <1>1, <1>2, <1>3, Invariance, PTL DEF Spec
<1>5. Inv /\ [Next]_vars => [ActsAsAsked]_vars
  BY ActsRight
<1>6. Spec => [][ActsAsAsked]_vars
  BY <1>5, Invariance, PTL DEF Spec
<1> QED
  BY <1>4, <1>6, PTL DEF ReplayRepeats
=============================================================================
