--------------------------- MODULE GatedLoopProofs ---------------------------
(***************************************************************************)
(* What the recursive resolver of EpistemicGate computes, for every        *)
(* validated graph, and what follows for the loop behind the gate.         *)
(***************************************************************************)
EXTENDS GatedLoop, ClosedLoopProofs, WellFoundedInduction, FiniteSetTheorems

-----------------------------------------------------------------------------
(***************************************************************************)
(* Induction over a set of numbers, and the functions defined by it.       *)
(***************************************************************************)
LEMMA SetInduction ==
    ASSUME NEW S, 0 \in S, \A n \in Nat : n \in S => n + 1 \in S
    PROVE  \A n \in Nat : n \in S
<1> DEFINE T == Nat \ S
<1> SUFFICES ASSUME T # {} PROVE FALSE
  OBVIOUS
<1>1. PICK x \in T : \A y \in T : <<y, x>> \notin OpToRel(<, Nat)
  <2>1. T \subseteq Nat
    OBVIOUS
  <2> HIDE DEF T
  <2> QED
    BY <2>1, NatLessThanWellFounded, WFMin
<1>2. x \in Nat /\ x # 0
  OBVIOUS
<1>3. x - 1 \in Nat /\ x - 1 < x /\ x = (x - 1) + 1
  BY <1>2
<1>4. x - 1 \notin T
  BY <1>1, <1>2, <1>3 DEF OpToRel
<1> QED
  BY <1>2, <1>3, <1>4

\* A function that starts somewhere and takes one step after another.
LEMMA Iteration ==
    ASSUME NEW X, NEW a \in X, NEW N \in Nat, NEW s \in [1 .. N -> [X -> X]]
    PROVE  \E f \in [0 .. N -> X] :
               f = [i \in 0 .. N |-> IF i = 0 THEN a ELSE s[i][f[i - 1]]]
<1> DEFINE Up(f, n) ==
             \A i \in 0 .. N :
                 i <= n => f[i] = IF i = 0 THEN a ELSE s[i][f[i - 1]]
           S == {n \in Nat : \E f \in [0 .. N -> X] : Up(f, n)}
<1>1. 0 \in S
  <2> DEFINE f == [i \in 0 .. N |-> a]
  <2>1. f \in [0 .. N -> X] /\ Up(f, 0)
    OBVIOUS
  <2> QED
    BY <2>1
<1>2. ASSUME NEW n \in Nat, n \in S PROVE n + 1 \in S
  <2>1. PICK f \in [0 .. N -> X] : Up(f, n)
    BY <1>2
  <2> DEFINE h == [i \in 0 .. N |->
                     IF i = n + 1 THEN s[i][f[i - 1]] ELSE f[i]]
  <2>2. h \in [0 .. N -> X]
    <3> SUFFICES ASSUME NEW i \in 0 .. N
                 PROVE  (IF i = n + 1 THEN s[i][f[i - 1]] ELSE f[i]) \in X
      OBVIOUS
    <3>1. CASE i = n + 1
      <4>1. i \in 1 .. N /\ i - 1 \in 0 .. N
        BY <3>1
      <4> QED
        BY <4>1
    <3> QED
      BY <3>1
  <2>3. Up(h, n + 1)
    <3> SUFFICES ASSUME NEW i \in 0 .. N, i <= n + 1
                 PROVE  h[i] = IF i = 0 THEN a ELSE s[i][h[i - 1]]
      OBVIOUS
    <3>1. i # 0 => i - 1 \in 0 .. N /\ i - 1 # n + 1 /\ h[i - 1] = f[i - 1]
      OBVIOUS
    <3>2. CASE i = n + 1
      BY <3>1, <3>2
    <3>3. CASE i <= n
      <4>1. h[i] = f[i]
        BY <3>3
      <4> QED
        BY <2>1, <3>1, <3>3, <4>1
    <3> QED
      BY <3>2, <3>3
  <2> HIDE DEF h, Up
  <2> QED
    BY <2>2, <2>3
<1>3. N \in S
  <2> HIDE DEF S
  <2> QED
    BY <1>1, <1>2, SetInduction
<1>4. PICK f \in [0 .. N -> X] : Up(f, N)
  BY <1>3
<1>5. f = [i \in 0 .. N |-> IF i = 0 THEN a ELSE s[i][f[i - 1]]]
  BY <1>4
<1> QED
  BY <1>5

-----------------------------------------------------------------------------
(***************************************************************************)
(* A call of the resolver is made of smaller calls: of more nodes on the   *)
(* path, or of fewer edges left.  So Walk(g), of which EpistemicGate says  *)
(* only what equation it solves, exists and is of the expected type.       *)
(***************************************************************************)
Left(g, p) ==
    Cardinality(Ids(g) \ p.path) * (Len(g.edges) + 2)
        + (Len(g.edges) + 1 - p.edge)

LEMMA Edged ==
    ASSUME NEW g, Validated(g)
    PROVE  /\ Len(g.edges) \in Nat /\ DOMAIN g.edges = 1 .. Len(g.edges)
           /\ \A i \in 1 .. Len(g.edges) :
                  /\ g.edges[i].from \in Ids(g) /\ g.edges[i].to \in Ids(g)
                  /\ \A n \in Ids(g) : Other(g.edges[i], n) \in Ids(g)
<1> DEFINE E == [from : Ids(g), to : Ids(g), relation : Relations,
                 level : Levels]
<1>1. g.edges \in Seq(E)
  BY DEF Validated
<1>2. /\ Len(g.edges) \in Nat /\ DOMAIN g.edges = 1 .. Len(g.edges)
      /\ \A i \in 1 .. Len(g.edges) : g.edges[i] \in E
  <2> DEFINE s == g.edges
  <2>1. s \in Seq(E)
    BY <1>1
  <2> HIDE DEF s, E
  <2>2. /\ Len(s) \in Nat /\ DOMAIN s = 1 .. Len(s)
        /\ \A i \in 1 .. Len(s) : s[i] \in E
    BY <2>1
  <2> QED
    BY <2>2 DEF s
<1>4. \A i \in 1 .. Len(g.edges) :
          g.edges[i].from \in Ids(g) /\ g.edges[i].to \in Ids(g)
  BY <1>2
<1> HIDE DEF E
<1> QED
  BY <1>2, <1>4 DEF Other

LEMMA OwnTyped ==
    ASSUME NEW g, NEW n \in Ids(g)
    PROVE  Own(g, n) \in SUBSET Streams(g)
BY DEF Streams

LEMMA Entered ==
    ASSUME NEW g, Validated(g), NEW n \in Ids(g), NEW memo \in Memos(g),
           NEW path \in SUBSET Ids(g)
    PROVE  Enter(g, n, memo, path) \in Points(g)
BY OwnTyped, Edged DEF Enter, Points

LEMMA Resolved ==
    ASSUME NEW g, Validated(g), NEW f \in [Points(g) -> Results(g)],
           NEW n \in Ids(g), NEW memo \in Memos(g), NEW path \in SUBSET Ids(g)
    PROVE  Resolve(g, f, n, memo, path) \in Results(g)
<1>1. CASE n \in memo.known
  BY <1>1 DEF Resolve, Results, Memos
<1>2. CASE n \notin memo.known
  <2> DEFINE all == f[Enter(g, n, memo, path)]
  <2>1. all \in Results(g)
    BY Entered
  <2>2. Resolve(g, f, n, memo, path) =
            [found |-> all.found, memo |-> Remember(all.memo, n, all.found)]
    BY <1>2 DEF Resolve
  <2> HIDE DEF all
  <2>3. all.found \in SUBSET Streams(g) /\ all.memo \in Memos(g)
    BY <2>1 DEF Results
  <2>4. Remember(all.memo, n, all.found) \in Memos(g)
    <3>1. [all.memo.of EXCEPT ![n] = all.found]
              \in [Ids(g) -> SUBSET Streams(g)]
      BY <2>3 DEF Memos
    <3> QED
      BY <2>3, <3>1 DEF Remember, Memos
  <2> QED
    BY <2>2, <2>3, <2>4 DEF Results
<1> QED
  BY <1>1, <1>2

\* The rest of a call is smaller, and so is a call it makes.
LEMMA Smaller ==
    ASSUME NEW g, Validated(g), NEW p \in Points(g), p.edge <= Len(g.edges)
    PROVE  /\ \A there \in Results(g) :
                  /\ Onward(p, there) \in Points(g)
                  /\ Left(g, Onward(p, there)) < Left(g, p)
           /\ \A n \in Ids(g) \ p.path, memo \in Memos(g) :
                  /\ Enter(g, n, memo, p.path) \in Points(g)
                  /\ Left(g, Enter(g, n, memo, p.path)) < Left(g, p)
<1> DEFINE L == Len(g.edges)
           c == Cardinality(Ids(g) \ p.path)
<1>1. L \in Nat /\ p.edge \in 1 .. L /\ p.path \in SUBSET Ids(g)
  BY Edged DEF Points
<1>2. c \in Nat /\ IsFiniteSet(Ids(g) \ p.path)
  BY FS_Subset, FS_CardinalityType DEF Validated
<1>3. Left(g, p) = c * (L + 2) + (L + 1 - p.edge) /\ c * (L + 2) \in Nat
  BY <1>1, <1>2 DEF Left
<1>4. ASSUME NEW there \in Results(g)
      PROVE  /\ Onward(p, there) \in Points(g)
             /\ Left(g, Onward(p, there)) < Left(g, p)
  <2> DEFINE q == Onward(p, there)
  <2>1. /\ q.path = p.path /\ q.edge = p.edge + 1 /\ q \in Points(g)
    BY <1>1 DEF Onward, Points, Results
  <2> HIDE DEF q
  <2>2. Left(g, q) = c * (L + 2) + (L + 1 - (p.edge + 1))
    BY <2>1 DEF Left
  <2> HIDE DEF c, L
  <2>3. Left(g, q) < Left(g, p)
    BY <2>2, <1>3, <1>1
  <2> QED
    BY <2>1, <2>3 DEF q
<1>5. ASSUME NEW n \in Ids(g) \ p.path, NEW memo \in Memos(g)
      PROVE  /\ Enter(g, n, memo, p.path) \in Points(g)
             /\ Left(g, Enter(g, n, memo, p.path)) < Left(g, p)
  <2> DEFINE q == Enter(g, n, memo, p.path)
  <2>1. q \in Points(g)
    BY <1>1, Entered
  <2>2. q.path = p.path \cup {n} /\ q.edge = 1
    BY DEF Enter
  <2>3. Ids(g) \ q.path = (Ids(g) \ p.path) \ {n}
    BY <2>2
  <2> HIDE DEF q
  <2>4. Cardinality(Ids(g) \ q.path) = c - 1 /\ c >= 1
    <3> DEFINE C == Ids(g) \ p.path
    <3>1. Cardinality(Ids(g) \ q.path) = c - 1
      <4>1. n \in C /\ IsFiniteSet(C) /\ c = Cardinality(C)
        BY <1>2
      <4>2. Cardinality(C \ {n}) = Cardinality(C) - 1
        <5> HIDE DEF C
        <5> QED
          BY <4>1, FS_RemoveElement
      <4> QED
        BY <2>3, <4>1, <4>2
    <3>2. c # 0
      BY <1>2, FS_EmptySet
    <3> QED
      BY <1>2, <3>1, <3>2
  <2>5. Left(g, q) = (c - 1) * (L + 2) + L
    BY <1>1, <2>2, <2>4 DEF Left
  <2> HIDE DEF c, L
  <2>6. (c - 1) * (L + 2) = c * (L + 2) - (L + 2)
    BY <1>1, <1>2
  <2>7. Left(g, q) < Left(g, p)
    BY <1>1, <1>3, <2>5, <2>6
  <2> QED
    BY <2>1, <2>7 DEF q
<1> QED
  BY <1>4, <1>5

LEMMA LeftIsNat ==
    ASSUME NEW g, Validated(g), NEW p \in Points(g)
    PROVE  /\ Left(g, p) \in Nat
           /\ Left(g, p) < (Cardinality(Ids(g)) + 1) * (Len(g.edges) + 2)
<1> DEFINE L == Len(g.edges)
           c == Cardinality(Ids(g) \ p.path)
           all == Cardinality(Ids(g))
<1>1. L \in Nat /\ p.edge \in 1 .. L + 1 /\ p.path \in SUBSET Ids(g)
  BY Edged DEF Points
<1>2. c \in Nat /\ all \in Nat /\ c <= all
  BY FS_Subset, FS_CardinalityType DEF Validated
<1>3. Left(g, p) = c * (L + 2) + (L + 1 - p.edge)
  BY DEF Left
<1> HIDE DEF c, L, all
<1>4. c * (L + 2) \in Nat /\ c * (L + 2) <= all * (L + 2)
  BY <1>1, <1>2
<1>5. (all + 1) * (L + 2) = all * (L + 2) + (L + 2) /\ all * (L + 2) \in Nat
  BY <1>1, <1>2
<1> QED
  BY <1>1, <1>3, <1>4, <1>5 DEF L, all

LEMMA WalkOnTyped ==
    ASSUME NEW g, Validated(g), NEW f \in [Points(g) -> Results(g)],
           NEW p \in Points(g)
    PROVE  WalkOn(g, f, p) \in Results(g)
<1> DEFINE e == g.edges[p.edge]
<1>1. CASE p.edge > Len(g.edges)
  BY <1>1 DEF WalkOn, Points, Results
<1>2. CASE p.edge \in 1 .. Len(g.edges)
  <2>1. Other(e, p.node) \in Ids(g) /\ p.memo \in Memos(g)
        /\ p.path \in SUBSET Ids(g)
    BY <1>2, Edged DEF Points
  <2>2. Resolve(g, f, Other(e, p.node), p.memo, p.path) \in Results(g)
    BY <2>1, Resolved
  <2>3. [found |-> {}, memo |-> p.memo] \in Results(g)
    BY <2>1 DEF Results
  <2>4. \A there \in Results(g) : Onward(p, there) \in Points(g)
    BY <1>2, Smaller
  <2> HIDE DEF e
  <2>5. WalkOn(g, f, p) \in
            {f[Onward(p, Resolve(g, f, Other(e, p.node), p.memo, p.path))],
             f[Onward(p, [found |-> {}, memo |-> p.memo])]}
    BY <1>2 DEF WalkOn, e
  <2> QED
    BY <2>2, <2>3, <2>4, <2>5
<1> QED
  BY <1>1, <1>2, Edged DEF Points

\* A call depends on the smaller calls only.
LEMMA SameBelow ==
    ASSUME NEW g, Validated(g), NEW p \in Points(g),
           NEW f, NEW h \in [Points(g) -> Results(g)],
           \A q \in Points(g) : Left(g, q) < Left(g, p) => f[q] = h[q]
    PROVE  WalkOn(g, f, p) = WalkOn(g, h, p)
<1> DEFINE e == g.edges[p.edge]
           n == Other(e, p.node)
<1>1. CASE p.edge > Len(g.edges)
  BY <1>1 DEF WalkOn
<1>2. CASE p.edge \in 1 .. Len(g.edges)
  <2>1. n \in Ids(g) /\ p.memo \in Memos(g) /\ p.path \in SUBSET Ids(g)
    BY <1>2, Edged DEF Points
  <2>2. \A there \in Results(g) : f[Onward(p, there)] = h[Onward(p, there)]
    BY <1>2, Smaller
  <2>3. [found |-> {}, memo |-> p.memo] \in Results(g)
    BY <2>1 DEF Results
  <2>4. CASE Traversed(g, e, p.node, p.path)
    <3>1. n \notin p.path
      BY <2>4 DEF Traversed
    <3>2. f[Enter(g, n, p.memo, p.path)] = h[Enter(g, n, p.memo, p.path)]
      BY <1>2, <2>1, <3>1, Smaller
    <3>3. Resolve(g, f, n, p.memo, p.path) = Resolve(g, h, n, p.memo, p.path)
      BY <3>2 DEF Resolve
    <3>4. Resolve(g, h, n, p.memo, p.path) \in Results(g)
      BY <2>1, Resolved
    <3>5. /\ WalkOn(g, f, p) = f[Onward(p, Resolve(g, f, n, p.memo, p.path))]
          /\ WalkOn(g, h, p) = h[Onward(p, Resolve(g, h, n, p.memo, p.path))]
      BY <1>2, <2>4 DEF WalkOn
    <3> HIDE DEF n
    <3> QED
      BY <2>2, <3>3, <3>4, <3>5
  <2>5. CASE ~Traversed(g, e, p.node, p.path)
    BY <1>2, <2>2, <2>3, <2>5 DEF WalkOn
  <2> QED
    BY <2>4, <2>5
<1> QED
  BY <1>1, <1>2, Edged DEF Points

LEMMA WalkExists ==
    ASSUME NEW g, Validated(g)
    PROVE  \E f \in [Points(g) -> Results(g)] :
               f = [p \in Points(g) |-> WalkOn(g, f, p)]
<1> DEFINE Solves(f, k) == \A p \in Points(g) :
                             Left(g, p) < k => f[p] = WalkOn(g, f, p)
           S == {k \in Nat : \E f \in [Points(g) -> Results(g)] : Solves(f, k)}
<1>1. 0 \in S
  <2>1. [found |-> {}, memo |-> NoMemo(g)] \in Results(g)
    BY DEF Results, NoMemo, Memos
  <2>2. [p \in Points(g) |-> [found |-> {}, memo |-> NoMemo(g)]]
            \in [Points(g) -> Results(g)]
    BY <2>1
  <2>3. \A f : Solves(f, 0)
    BY LeftIsNat
  <2> HIDE DEF Solves
  <2> QED
    BY <2>2, <2>3
<1>2. ASSUME NEW k \in Nat, k \in S PROVE k + 1 \in S
  <2>1. PICK f \in [Points(g) -> Results(g)] : Solves(f, k)
    BY <1>2
  <2> DEFINE h == [p \in Points(g) |-> WalkOn(g, f, p)]
  <2>2. h \in [Points(g) -> Results(g)]
    BY WalkOnTyped
  <2>3. ASSUME NEW p \in Points(g), Left(g, p) < k + 1
        PROVE  h[p] = WalkOn(g, h, p)
    <3>1. ASSUME NEW q \in Points(g), Left(g, q) < Left(g, p)
          PROVE  f[q] = h[q]
      <4>1. Left(g, q) < k
        BY <2>3, <3>1, LeftIsNat
      <4> QED
        BY <2>1, <4>1
    <3>2. h[p] = WalkOn(g, f, p)
      OBVIOUS
    <3> HIDE DEF h
    <3> QED
      BY <2>1, <2>2, <3>1, <3>2, SameBelow
  <2> HIDE DEF h
  <2>4. Solves(h, k + 1)
    BY <2>3
  <2> HIDE DEF Solves
  <2> QED
    BY <2>2, <2>4
<1> DEFINE all == (Cardinality(Ids(g)) + 1) * (Len(g.edges) + 2)
<1>3. all \in Nat
  BY Edged, FS_CardinalityType DEF Validated
<1>4. all \in S
  <2> HIDE DEF S, all
  <2> QED
    BY <1>1, <1>2, <1>3, SetInduction
<1>5. PICK f \in [Points(g) -> Results(g)] : Solves(f, all)
  BY <1>4
<1>6. \A p \in Points(g) : f[p] = WalkOn(g, f, p)
  BY <1>5, LeftIsNat
<1>7. f = [p \in Points(g) |-> WalkOn(g, f, p)]
  BY <1>6
<1> QED
  BY <1>7

\* The resolver terminates on every validated graph: its recursive equation
\* has a solution, which is a result at every point.
THEOREM ResolverTerminates ==
    ASSUME NEW g, Validated(g)
    PROVE  /\ Walk(g) \in [Points(g) -> Results(g)]
           /\ \A p \in Points(g) : Walk(g)[p] = WalkOn(g, Walk(g), p)
<1> DEFINE Solution(f) == f = [p \in Points(g) |-> WalkOn(g, f, p)]
<1>1. \E f : Solution(f)
  BY WalkExists
<1>2. Walk(g) = CHOOSE f : Solution(f)
  BY DEF Walk
<1>3. Solution(Walk(g))
  BY <1>1, <1>2
<1>4. PICK h \in [Points(g) -> Results(g)] : Solution(h)
  BY WalkExists
<1> DEFINE f == Walk(g)
           S == {k \in Nat : \A p \in Points(g) :
                                  Left(g, p) < k => f[p] = h[p]}
<1> HIDE DEF f
<1>5. \A p \in Points(g) : f[p] = WalkOn(g, f, p) /\ h[p] = WalkOn(g, h, p)
  BY <1>3, <1>4 DEF f
<1>6. 0 \in S
  BY LeftIsNat
<1>7. ASSUME NEW k \in Nat, k \in S PROVE k + 1 \in S
  <2> SUFFICES ASSUME NEW p \in Points(g), Left(g, p) < k + 1
               PROVE  f[p] = h[p]
    OBVIOUS
  <2>1. ASSUME NEW q \in Points(g), Left(g, q) < Left(g, p)
        PROVE  h[q] = f[q]
    <3>1. Left(g, q) < k
      BY <2>1, LeftIsNat
    <3> QED
      BY <1>7, <3>1
  <2>2. WalkOn(g, f, p) = WalkOn(g, h, p)
    BY <2>1, SameBelow
  <2> QED
    BY <1>5, <2>2
<1>8. \A p \in Points(g) : f[p] = h[p]
  <2>1. \A k \in Nat : k \in S
    <3> HIDE DEF S
    <3> QED
      BY <1>6, <1>7, SetInduction
  <2>2. \A p \in Points(g) : Left(g, p) \in Nat /\ Left(g, p) < Left(g, p) + 1
    BY LeftIsNat
  <2> QED
    BY <2>1, <2>2
<1>9. f = [p \in Points(g) |-> WalkOn(g, f, p)]
  BY <1>3 DEF f
<1>10. f \in [Points(g) -> Results(g)]
  BY <1>5, <1>8, <1>9
<1> QED
  BY <1>5, <1>10 DEF f

-----------------------------------------------------------------------------
(***************************************************************************)
(* What a call finds: at least the node's own workstream, and only         *)
(* workstreams the node is bound to.  The memo holds no more than that     *)
(* either, whatever cycle and order of the edges it was filled in.         *)
(***************************************************************************)
LEMMA BoundToOwn ==
    ASSUME NEW g, NEW n \in Ids(g), NEW w \in Own(g, n)
    PROVE  n \in BoundTo(g, w)
BY DEF BoundTo, OfStream

LEMMA BoundAlong ==
    ASSUME NEW g, NEW i \in DOMAIN g.edges, NEW n \in Ids(g), NEW w,
           g.edges[i].relation \in ProvenanceRelations,
           g.nodes[Other(g.edges[i], n)].type \in ProvenanceTypes,
           Other(g.edges[i], n) \in BoundTo(g, w)
    PROVE  n \in BoundTo(g, w)
<1>1. CASE n \notin {g.edges[i].from, g.edges[i].to}
  <2>1. Other(g.edges[i], n) = n
    BY <1>1 DEF Other
  <2> QED
    BY <2>1
<1>2. CASE n \in {g.edges[i].from, g.edges[i].to}
  <2> SUFFICES ASSUME NEW S \in SUBSET Ids(g), OfStream(g, w) \subseteq S,
                      Closed(g, S)
               PROVE  n \in S
    BY DEF BoundTo
  <2>1. Other(g.edges[i], n) \in S
    BY DEF BoundTo
  <2> QED
    BY <1>2, <2>1 DEF Closed
<1> QED
  BY <1>1, <1>2

SoundFor(g, n, found) ==
    Own(g, n) \subseteq found /\ \A w \in found : n \in BoundTo(g, w)

SoundMemo(g, memo) == \A n \in memo.known : SoundFor(g, n, memo.of[n])

\* A call that is sound so far ends sound, and forgets nothing.
EndsSound(g, p) ==
    SoundMemo(g, p.memo) /\ SoundFor(g, p.node, p.found) =>
        /\ SoundMemo(g, Walk(g)[p].memo)
        /\ SoundFor(g, p.node, Walk(g)[p].found)
        /\ p.memo.known \subseteq Walk(g)[p].memo.known

LEMMA SoundlyResolved ==
    ASSUME NEW g, Validated(g), NEW n \in Ids(g), NEW memo \in Memos(g),
           NEW path \in SUBSET Ids(g), SoundMemo(g, memo),
           EndsSound(g, Enter(g, n, memo, path))
    PROVE  LET r == Resolve(g, Walk(g), n, memo, path)
           IN  /\ SoundMemo(g, r.memo) /\ SoundFor(g, n, r.found)
               /\ memo.known \cup {n} \subseteq r.memo.known
<1> DEFINE r == Resolve(g, Walk(g), n, memo, path)
<1>1. CASE n \in memo.known
  BY <1>1 DEF Resolve, SoundMemo
<1>2. CASE n \notin memo.known
  <2> DEFINE q == Enter(g, n, memo, path)
             all == Walk(g)[q]
  <2>1. q.node = n /\ q.memo = memo /\ SoundFor(g, q.node, q.found)
    BY BoundToOwn DEF Enter, SoundFor
  <2>2. /\ SoundMemo(g, all.memo) /\ SoundFor(g, n, all.found)
        /\ memo.known \subseteq all.memo.known
    <3> HIDE DEF q
    <3> QED
      BY <2>1 DEF EndsSound, q
  <2>3. all \in Results(g)
    BY Entered, ResolverTerminates
  <2>4. r = [found |-> all.found, memo |-> Remember(all.memo, n, all.found)]
    BY <1>2 DEF Resolve
  <2> HIDE DEF all, q
  <2>5. all.memo.of \in [Ids(g) -> SUBSET Streams(g)]
    BY <2>3 DEF Results, Memos
  <2>6. SoundMemo(g, Remember(all.memo, n, all.found))
    BY <2>2, <2>5 DEF SoundMemo, Remember
  <2>7. memo.known \cup {n} \subseteq Remember(all.memo, n, all.found).known
    BY <2>2 DEF Remember
  <2> QED
    BY <2>2, <2>4, <2>6, <2>7
<1> QED
  BY <1>1, <1>2

LEMMA CallsEndSound ==
    ASSUME NEW g, Validated(g), NEW p \in Points(g),
           \A q \in Points(g) : Left(g, q) < Left(g, p) => EndsSound(g, q)
    PROVE  EndsSound(g, p)
<1> SUFFICES ASSUME SoundMemo(g, p.memo), SoundFor(g, p.node, p.found)
             PROVE  /\ SoundMemo(g, Walk(g)[p].memo)
                    /\ SoundFor(g, p.node, Walk(g)[p].found)
                    /\ p.memo.known \subseteq Walk(g)[p].memo.known
  BY DEF EndsSound
<1>1. Walk(g)[p] = WalkOn(g, Walk(g), p)
  BY ResolverTerminates
<1>2. CASE p.edge > Len(g.edges)
  BY <1>1, <1>2 DEF WalkOn
<1>3. CASE p.edge \in 1 .. Len(g.edges)
  <2> DEFINE e == g.edges[p.edge]
             n == Other(e, p.node)
  <2>1. /\ n \in Ids(g) /\ p.memo \in Memos(g) /\ p.path \in SUBSET Ids(g)
        /\ p.node \in Ids(g) /\ p.edge \in DOMAIN g.edges
    BY <1>3, Edged DEF Points
  <2>2. ASSUME NEW there \in Results(g), SoundMemo(g, there.memo),
               \A w \in there.found : p.node \in BoundTo(g, w),
               p.memo.known \subseteq there.memo.known
        PROVE  /\ SoundMemo(g, Walk(g)[Onward(p, there)].memo)
               /\ SoundFor(g, p.node, Walk(g)[Onward(p, there)].found)
               /\ p.memo.known \subseteq Walk(g)[Onward(p, there)].memo.known
    <3> DEFINE q == Onward(p, there)
    <3>1. /\ q.node = p.node /\ q.memo = there.memo
          /\ q.found = p.found \cup there.found
      BY DEF Onward
    <3>2. EndsSound(g, q)
      BY <1>3, Smaller
    <3> HIDE DEF q
    <3>3. SoundFor(g, q.node, q.found)
      BY <2>2, <3>1 DEF SoundFor
    <3> QED
      BY <2>2, <3>1, <3>2, <3>3 DEF EndsSound, q
  <2>3. CASE Traversed(g, e, p.node, p.path)
    <3> DEFINE there == Resolve(g, Walk(g), n, p.memo, p.path)
    <3>1. n \notin p.path
      BY <2>3 DEF Traversed
    <3>2. EndsSound(g, Enter(g, n, p.memo, p.path))
      BY <1>3, <2>1, <3>1, Smaller
    <3>3. /\ SoundMemo(g, there.memo) /\ SoundFor(g, n, there.found)
          /\ p.memo.known \subseteq there.memo.known
      <4> HIDE DEF n
      <4> QED
        BY <2>1, <3>2, SoundlyResolved
    <3>4. there \in Results(g)
      <4> HIDE DEF n
      <4> QED
        BY <2>1, Resolved, ResolverTerminates
    <3>5. \A w \in there.found : p.node \in BoundTo(g, w)
      <4> SUFFICES ASSUME NEW w \in there.found
                   PROVE  p.node \in BoundTo(g, w)
        OBVIOUS
      <4>1. n \in BoundTo(g, w)
        BY <3>3 DEF SoundFor
      <4>2. /\ e.relation \in ProvenanceRelations
            /\ g.nodes[n].type \in ProvenanceTypes
        BY <2>3 DEF Traversed
      <4> QED
        BY <2>1, <4>1, <4>2, BoundAlong
    <3>6. Walk(g)[p] = Walk(g)[Onward(p, there)]
      BY <1>1, <1>3, <2>3 DEF WalkOn
    <3> HIDE DEF there
    <3> QED
      BY <2>2, <3>3, <3>4, <3>5, <3>6
  <2>4. CASE ~Traversed(g, e, p.node, p.path)
    <3> DEFINE there == [found |-> {}, memo |-> p.memo]
    <3>1. there \in Results(g) /\ there.found = {} /\ there.memo = p.memo
      BY <2>1 DEF Results
    <3>2. Walk(g)[p] = Walk(g)[Onward(p, there)]
      BY <1>1, <1>3, <2>4 DEF WalkOn
    <3> HIDE DEF there
    <3> QED
      BY <2>2, <3>1, <3>2
  <2> QED
    BY <2>3, <2>4
<1> QED
  BY <1>2, <1>3, Edged DEF Points

LEMMA AllEndSound ==
    ASSUME NEW g, Validated(g)
    PROVE  \A p \in Points(g) : EndsSound(g, p)
<1> DEFINE S == {k \in Nat : \A p \in Points(g) :
                                 Left(g, p) < k => EndsSound(g, p)}
<1>1. 0 \in S
  BY LeftIsNat
<1>2. ASSUME NEW k \in Nat, k \in S PROVE k + 1 \in S
  <2> SUFFICES ASSUME NEW p \in Points(g), Left(g, p) < k + 1
               PROVE  EndsSound(g, p)
    OBVIOUS
  <2>1. ASSUME NEW q \in Points(g), Left(g, q) < Left(g, p)
        PROVE  EndsSound(g, q)
    <3>1. Left(g, q) < k
      BY <2>1, LeftIsNat
    <3> QED
      BY <1>2, <3>1
  <2> QED
    BY <2>1, CallsEndSound
<1>3. \A k \in Nat : k \in S
  <2> HIDE DEF S
  <2> QED
    BY <1>1, <1>2, SetInduction
<1>4. \A p \in Points(g) : Left(g, p) \in Nat /\ Left(g, p) < Left(g, p) + 1
  BY LeftIsNat
<1> QED
  BY <1>3, <1>4

\* A node's sources, asked for with any sound memo, include its own workstream
\* and are workstreams that provenance binds it to.
THEOREM ResolverSound ==
    ASSUME NEW g, Validated(g), NEW n \in Ids(g), NEW memo \in Memos(g),
           SoundMemo(g, memo)
    PROVE  LET r == Sources(g, n, memo)
           IN  /\ r \in Results(g) /\ SoundMemo(g, r.memo)
               /\ SoundFor(g, n, r.found)
               /\ memo.known \cup {n} \subseteq r.memo.known
<1>1. EndsSound(g, Enter(g, n, memo, {}))
  BY Entered, AllEndSound
<1>2. Sources(g, n, memo) \in Results(g)
  BY Resolved, ResolverTerminates DEF Sources
<1> QED
  BY <1>1, <1>2, SoundlyResolved DEF Sources

-----------------------------------------------------------------------------
(***************************************************************************)
(* The sources of a target: after its edges, one after another, every node *)
(* with an edge into it is in the memo.                                    *)
(***************************************************************************)
EdgeInto(g, i, target) ==
    g.edges[i].to = target /\ g.edges[i].relation \in ProvenanceRelations

LEMMA EdgeAdded ==
    ASSUME NEW g, Validated(g), NEW i \in 1 .. Len(g.edges), NEW target,
           NEW sofar \in Results(g)
    PROVE  LET r == AddEdge(g, g.edges[i], target, sofar)
           IN  /\ SoundMemo(g, sofar.memo) =>
                      /\ r \in Results(g) /\ SoundMemo(g, r.memo)
                      /\ sofar.memo.known \subseteq r.memo.known
                      /\ sofar.found \subseteq r.found
                      /\ EdgeInto(g, i, target) =>
                             /\ g.edges[i].from \in r.memo.known
                             /\ Own(g, g.edges[i].from) \subseteq r.found
                      /\ \A w \in r.found \ sofar.found :
                             /\ EdgeInto(g, i, target)
                             /\ g.edges[i].from \in BoundTo(g, w)
               /\ r \in Results(g)
<1> DEFINE e == g.edges[i]
           there == Sources(g, e.from, sofar.memo)
           r == AddEdge(g, e, target, sofar)
<1>1. e.from \in Ids(g) /\ sofar.memo \in Memos(g)
  BY Edged DEF Results
<1>2. CASE EdgeInto(g, i, target)
  <2>1. r = [found |-> sofar.found \cup there.found, memo |-> there.memo]
    BY <1>2 DEF AddEdge, EdgeInto
  <2>2. there \in Results(g)
    <3> HIDE DEF e
    <3> QED
      BY <1>1, Resolved, ResolverTerminates DEF Sources
  <2>3. SoundMemo(g, sofar.memo) =>
            /\ SoundMemo(g, there.memo)
            /\ sofar.memo.known \cup {e.from} \subseteq there.memo.known
            /\ SoundFor(g, e.from, there.found)
    <3> HIDE DEF e
    <3> QED
      BY <1>1, ResolverSound
  <2> HIDE DEF there
  <2>4. r \in Results(g)
    BY <2>1, <2>2 DEF Results
  <2> QED
    BY <1>2, <2>1, <2>3, <2>4 DEF SoundFor
<1>3. CASE ~EdgeInto(g, i, target)
  BY <1>3 DEF AddEdge, EdgeInto
<1> QED
  BY <1>2, <1>3

LEMMA TargetResolved ==
    ASSUME NEW g, Validated(g), NEW target, NEW memo \in Memos(g)
    PROVE  LET r == TargetSources(g, target, memo)
           IN  /\ r \in Results(g)
               /\ SoundMemo(g, memo) =>
                      /\ SoundMemo(g, r.memo)
                      /\ \A i \in 1 .. Len(g.edges) :
                             EdgeInto(g, i, target) =>
                                 /\ g.edges[i].from \in r.memo.known
                                 /\ Own(g, g.edges[i].from) \subseteq r.found
                      /\ \A w \in r.found :
                             \E i \in 1 .. Len(g.edges) :
                                 /\ EdgeInto(g, i, target)
                                 /\ g.edges[i].from \in BoundTo(g, w)
<1> DEFINE N == Len(g.edges)
           a == [found |-> {}, memo |-> memo]
           s == [i \in 1 .. N |-> [x \in Results(g) |->
                                       AddEdge(g, g.edges[i], target, x)]]
           Upto(f) == f = [i \in 0 .. N |->
                               IF i = 0 THEN a
                               ELSE AddEdge(g, g.edges[i], target, f[i - 1])]
<1>1. N \in Nat
  BY Edged
<1>2. a \in Results(g)
  BY DEF Results
<1>3. s \in [1 .. N -> [Results(g) -> Results(g)]]
  BY EdgeAdded
<1>4. PICK h \in [0 .. N -> Results(g)] :
          h = [i \in 0 .. N |-> IF i = 0 THEN a ELSE s[i][h[i - 1]]]
  <2> HIDE DEF s, a, N
  <2> QED
    BY <1>1, <1>2, <1>3, Iteration
<1>5. \A i \in 0 .. N : i # 0 => i \in 1 .. N /\ i - 1 \in 0 .. N
  BY <1>1
<1>6. \A i \in 0 .. N :
          h[i] = IF i = 0 THEN a ELSE AddEdge(g, g.edges[i], target, h[i - 1])
  <2> SUFFICES ASSUME NEW i \in 0 .. N
               PROVE  h[i] = IF i = 0 THEN a
                             ELSE AddEdge(g, g.edges[i], target, h[i - 1])
    OBVIOUS
  <2>1. CASE i = 0
    BY <1>4, <2>1
  <2>2. CASE i # 0
    <3>1. h[i] = s[i][h[i - 1]]
      <4> HIDE DEF s, a, N
      <4> QED
        BY <1>4, <2>2
    <3>2. i \in 1 .. N /\ h[i - 1] \in Results(g)
      BY <1>4, <1>5, <2>2
    <3> QED
      BY <2>2, <3>1, <3>2
  <2> QED
    BY <2>1, <2>2
<1>7. Upto(h)
  <2> HIDE DEF a, N
  <2> QED
    BY <1>4, <1>6
<1>8. PICK f : Upto(f) /\ TargetSources(g, target, memo) = f[N]
  <2>1. TargetSources(g, target, memo) = (CHOOSE f : Upto(f))[N]
    BY DEF TargetSources
  <2> HIDE DEF Upto
  <2> QED
    BY <1>7, <2>1
<1>9. /\ f[0] = a
      /\ \A i \in 1 .. N : f[i] = AddEdge(g, g.edges[i], target, f[i - 1])
  <2>1. 0 \in 0 .. N /\ \A i \in 1 .. N : i \in 0 .. N /\ i # 0
    BY <1>1
  <2> HIDE DEF a, N
  <2> QED
    BY <1>8, <2>1
<1> DEFINE Good(i) ==
             /\ f[i] \in Results(g)
             /\ SoundMemo(g, memo) =>
                    /\ SoundMemo(g, f[i].memo)
                    /\ \A j \in 1 .. i :
                           EdgeInto(g, j, target) =>
                               /\ g.edges[j].from \in f[i].memo.known
                               /\ Own(g, g.edges[j].from) \subseteq f[i].found
                    /\ \A w \in f[i].found :
                           \E j \in 1 .. i :
                               /\ EdgeInto(g, j, target)
                               /\ g.edges[j].from \in BoundTo(g, w)
           S == {i \in Nat : i <= N => Good(i)}
<1>10. 0 \in S
  BY <1>2, <1>9
<1>11. ASSUME NEW i \in Nat, i \in S PROVE i + 1 \in S
  <2> SUFFICES ASSUME i + 1 <= N PROVE Good(i + 1)
    OBVIOUS
  <2>1. Good(i)
    BY <1>1, <1>11
  <2>2. i + 1 \in 1 .. N /\ f[i + 1] = AddEdge(g, g.edges[i + 1], target, f[i])
    BY <1>1, <1>9
  <2> DEFINE r == f[i + 1]
             x == f[i]
             k == i + 1
  <2>3. /\ r \in Results(g)
        /\ SoundMemo(g, x.memo) =>
               /\ SoundMemo(g, r.memo)
               /\ x.memo.known \subseteq r.memo.known
               /\ x.found \subseteq r.found
               /\ EdgeInto(g, k, target) =>
                      /\ g.edges[k].from \in r.memo.known
                      /\ Own(g, g.edges[k].from) \subseteq r.found
               /\ \A w \in r.found \ x.found :
                      /\ EdgeInto(g, k, target)
                      /\ g.edges[k].from \in BoundTo(g, w)
    <3>1. x \in Results(g) /\ k \in 1 .. Len(g.edges)
          /\ r = AddEdge(g, g.edges[k], target, x)
      BY <2>1, <2>2
    <3> HIDE DEF r, x, k
    <3> QED
      BY <3>1, EdgeAdded
  <2>4. \A j \in 1 .. i + 1 : j \in 1 .. i \/ j = k
    OBVIOUS
  <2> QED
    BY <2>1, <2>3, <2>4
<1>12. Good(N)
  <2>1. N \in S
    <3> HIDE DEF S, N
    <3> QED
      BY <1>1, <1>10, <1>11, SetInduction
  <2> QED
    BY <1>1, <2>1
<1> HIDE DEF N
<1> QED
  BY <1>8, <1>12 DEF N

-----------------------------------------------------------------------------
(***************************************************************************)
(* How much verified relations, statuses and directives stop.              *)
(***************************************************************************)
Weight(s) == Severity(Directive({s}))

LEMMA RelationsAmong ==
    ASSUME NEW g, NEW t, NEW A, NEW B, A \subseteq B
    PROVE  VerifiedRelations(g, t, A) \subseteq VerifiedRelations(g, t, B)
BY DEF VerifiedRelations

LEMMA Severities ==
    /\ Severity("stop_falsified_target") = 3
    /\ Severity("manual_discrimination_required") = 2
    /\ Severity("domain_closeout_required") = 1
    /\ Severity("continue_discriminating_research") = 0
BY DEF Severity

LEMMA Weights ==
    ASSUME NEW a
    PROVE  Weight(a) =
               IF a = "falsified_within_verified_scope" THEN 3
               ELSE IF a \in {"contested", "contradicted_within_verified_scope"}
               THEN 2
               ELSE IF a = "provisionally_supported" THEN 1
               ELSE 0
<1>1. {"contested", "contradicted_within_verified_scope"} \cap {a} # {}
          <=> a \in {"contested", "contradicted_within_verified_scope"}
  OBVIOUS
<1>2. Directive({a}) =
          IF a = "falsified_within_verified_scope" THEN "stop_falsified_target"
          ELSE IF a \in {"contested", "contradicted_within_verified_scope"}
          THEN "manual_discrimination_required"
          ELSE IF a = "provisionally_supported" THEN "domain_closeout_required"
          ELSE "continue_discriminating_research"
  BY <1>1 DEF Directive
<1> QED
  BY <1>2, Severities DEF Weight

LEMMA StatusWeight ==
    ASSUME NEW A, NEW B, A \subseteq B
    PROVE  Weight(Status(A)) <= Weight(Status(B))
<1>1. \A C : Weight(Status(C)) =
                 IF "falsifies" \in C THEN 3
                 ELSE IF "contradicts" \in C THEN 2
                 ELSE IF "supports" \in C THEN 1 ELSE 0
  <2> TAKE C
  <2>1. {"supports", "contradicts"} \subseteq C
            <=> "supports" \in C /\ "contradicts" \in C
    OBVIOUS
  <2>2. CASE "falsifies" \in C
    BY <2>2, Weights DEF Status
  <2>3. CASE "falsifies" \notin C /\ "contradicts" \in C
    <3>1. Status(C) \in {"contested", "contradicted_within_verified_scope"}
      BY <2>3 DEF Status
    <3> QED
      BY <2>3, <3>1, Weights
  <2>4. CASE "falsifies" \notin C /\ "contradicts" \notin C
    <3>1. Status(C) = IF "supports" \in C THEN "provisionally_supported"
                      ELSE "inconclusive"
      BY <2>1, <2>4 DEF Status
    <3> QED
      BY <2>4, <3>1, Weights
  <2> QED
    BY <2>2, <2>3, <2>4
<1> QED
  BY <1>1

\* A set of statuses stops as much as its worst one.
LEMMA DirectiveWeight ==
    ASSUME NEW A, NEW B, \A a \in A : \E b \in B : Weight(a) <= Weight(b)
    PROVE  Severity(Directive(A)) <= Severity(Directive(B))
<1>1. \A a : /\ Weight(a) = 3 <=> a = "falsified_within_verified_scope"
             /\ Weight(a) = 2 <=>
                    a \in {"contested", "contradicted_within_verified_scope"}
             /\ Weight(a) = 1 <=> a = "provisionally_supported"
             /\ Weight(a) \in 0 .. 3
  BY Weights
<1>2. \A C : /\ Severity(Directive(C)) = 3 <=> \E c \in C : Weight(c) = 3
             /\ Severity(Directive(C)) >= 2 <=> \E c \in C : Weight(c) >= 2
             /\ Severity(Directive(C)) >= 1 <=> \E c \in C : Weight(c) >= 1
             /\ Severity(Directive(C)) \in 0 .. 3
  <2> TAKE C
  <2> DEFINE Has(k) == \E c \in C : Weight(c) = k
  <2>1. /\ Has(3) <=> "falsified_within_verified_scope" \in C
        /\ Has(2) <=> {"contested", "contradicted_within_verified_scope"}
                          \cap C # {}
        /\ Has(1) <=> "provisionally_supported" \in C
    BY <1>1
  <2>2. Severity(Directive(C)) =
            IF Has(3) THEN 3 ELSE IF Has(2) THEN 2 ELSE IF Has(1) THEN 1 ELSE 0
    <3> HIDE DEF Has
    <3> QED
      BY <2>1, Severities DEF Directive
  <2>3. /\ (\E c \in C : Weight(c) >= 2) <=> Has(3) \/ Has(2)
        /\ (\E c \in C : Weight(c) >= 1) <=> Has(3) \/ Has(2) \/ Has(1)
    BY <1>1
  <2> QED
    BY <2>2, <2>3
<1> DEFINE a == Severity(Directive(A))
           b == Severity(Directive(B))
<1>3. a \in 0 .. 3 /\ b \in 0 .. 3
  BY <1>2
<1>4. \A x : Weight(x) \in 0 .. 3
  BY <1>1
<1>5. a = 3 => b = 3
  <2> SUFFICES ASSUME a = 3 PROVE b = 3
    OBVIOUS
  <2>1. PICK x \in A : Weight(x) = 3
    BY <1>2
  <2>2. PICK y \in B : Weight(x) <= Weight(y)
    OBVIOUS
  <2>3. Weight(y) = 3
    BY <1>4, <2>1, <2>2
  <2> QED
    BY <1>2, <2>3
<1>6. a >= 2 => b >= 2
  <2> SUFFICES ASSUME a >= 2 PROVE b >= 2
    OBVIOUS
  <2>1. PICK x \in A : Weight(x) >= 2
    BY <1>2
  <2>2. PICK y \in B : Weight(x) <= Weight(y)
    OBVIOUS
  <2>3. Weight(y) >= 2
    BY <1>4, <2>1, <2>2
  <2> QED
    BY <1>2, <2>3
<1>7. a >= 1 => b >= 1
  <2> SUFFICES ASSUME a >= 1 PROVE b >= 1
    OBVIOUS
  <2>1. PICK x \in A : Weight(x) >= 1
    BY <1>2
  <2>2. PICK y \in B : Weight(x) <= Weight(y)
    OBVIOUS
  <2>3. Weight(y) >= 1
    BY <1>4, <2>1, <2>2
  <2> QED
    BY <1>2, <2>3
<1> HIDE DEF a, b
<1>8. a <= b
  BY <1>3, <1>5, <1>6, <1>7
<1> QED
  BY <1>8 DEF a, b

-----------------------------------------------------------------------------
(***************************************************************************)
(* The scope of the gate: of every target it keeps the relations of some   *)
(* sources, between the workstream's own and those bound to it.            *)
(***************************************************************************)
Bound(g) == BoundTo(g, Workstream)
Ours(g) == OfStream(g, Workstream)

\* Some edge into the target starts from one of the nodes.
Upstream(g, target, nodes) ==
    \E i \in 1 .. Len(g.edges) :
        EdgeInto(g, i, target) /\ g.edges[i].from \in nodes

ScopedStatus(g, target, given) ==
    \E R \in SUBSET Ids(g) :
        /\ R \subseteq Bound(g)
        /\ VerifiedRelations(g, target, Ours(g))
               \subseteq VerifiedRelations(g, target, R)
        /\ given = Status(VerifiedRelations(g, target, R))

\* What Scoped has put together after the targets of a set of positions.
Scope(g, done, sofar) ==
    /\ SoundMemo(g, sofar.memo)
    /\ sofar.bound => \A j \in done : Upstream(g, Targets[j], Bound(g))
    /\ ~sofar.bound => \E j \in done : ~Upstream(g, Targets[j], Ours(g))
    /\ \A given \in sofar.statuses :
           \E j \in done : ScopedStatus(g, Targets[j], given)
    /\ \A j \in done :
           \E given \in sofar.statuses : ScopedStatus(g, Targets[j], given)

Statuses == {"falsified_within_verified_scope", "contested",
    "contradicted_within_verified_scope", "provisionally_supported",
    "inconclusive"}

Scopes(g) ==
    [bound : BOOLEAN, statuses : SUBSET Statuses, memo : Memos(g)]

LEMMA TargetAdded ==
    ASSUME NEW g, Validated(g), NEW j, NEW sofar \in Scopes(g)
    PROVE  LET r == AddTarget(g, Targets[j], sofar)
           IN  /\ r \in Scopes(g)
               /\ \A done :
                      Scope(g, done, sofar) => Scope(g, done \cup {j}, r)
<1> DEFINE t == Targets[j]
           sources == TargetSources(g, t, sofar.memo)
           R == Relevant(sources.memo)
           given == Status(VerifiedRelations(g, t, R))
           r == AddTarget(g, t, sofar)
<1>1. sofar.memo \in Memos(g) /\ sofar.bound \in BOOLEAN
      /\ sofar.statuses \in SUBSET Statuses
  BY DEF Scopes
<1>2. /\ sources \in Results(g)
      /\ SoundMemo(g, sofar.memo) =>
             /\ SoundMemo(g, sources.memo)
             /\ \A i \in 1 .. Len(g.edges) :
                    EdgeInto(g, i, t) =>
                        /\ g.edges[i].from \in sources.memo.known
                        /\ Own(g, g.edges[i].from) \subseteq sources.found
             /\ \A w \in sources.found :
                    \E i \in 1 .. Len(g.edges) :
                        EdgeInto(g, i, t) /\ g.edges[i].from \in BoundTo(g, w)
  <2> HIDE DEF t
  <2> QED
    BY <1>1, TargetResolved
<1>3. /\ r.bound <=> (sofar.bound /\ Workstream \in sources.found)
      /\ r.statuses = sofar.statuses \cup {given}
      /\ r.memo = sources.memo
      /\ r = [bound |-> sofar.bound /\ Workstream \in sources.found,
              statuses |-> sofar.statuses \cup {given},
              memo |-> sources.memo]
  BY DEF AddTarget
<1>4. given \in Statuses
  BY DEF Status, Statuses
<1> HIDE DEF given, sources, r, t
<1>5. r \in Scopes(g)
  <2>1. sources.memo \in Memos(g)
    BY <1>2 DEF Results
  <2> QED
    BY <1>1, <1>3, <1>4, <2>1 DEF Scopes
<1>6. ASSUME SoundMemo(g, sofar.memo)
      PROVE  ScopedStatus(g, t, given)
  <2>1. R \in SUBSET Ids(g) /\ R \subseteq Bound(g)
    <3>1. sources.memo.known \in SUBSET Ids(g)
      BY <1>2 DEF Results, Memos
    <3> QED
      BY <1>2, <1>6, <3>1 DEF SoundMemo, SoundFor, Bound, Relevant
  <2>2. VerifiedRelations(g, t, Ours(g)) \subseteq VerifiedRelations(g, t, R)
    <3> SUFFICES ASSUME NEW i \in DOMAIN g.edges, EdgeInto(g, i, t),
                        g.edges[i].from \in Ours(g)
                 PROVE  g.edges[i].from \in R
      BY DEF VerifiedRelations, EdgeInto, ProvenanceRelations
    <3>1. g.edges[i].from \in sources.memo.known
      BY <1>2, <1>6, Edged
    <3>2. Workstream \in sources.memo.of[g.edges[i].from]
      BY <1>2, <1>6, <3>1 DEF SoundMemo, SoundFor, Ours, OfStream
    <3> QED
      BY <3>1, <3>2 DEF Relevant
  <2> HIDE DEF R
  <2> QED
    BY <2>1, <2>2 DEF ScopedStatus, given, R
<1>7. ASSUME NEW done, Scope(g, done, sofar)
      PROVE  Scope(g, done \cup {j}, r)
  <2>1. SoundMemo(g, sofar.memo) /\ SoundMemo(g, r.memo)
    BY <1>2, <1>3, <1>7 DEF Scope
  <2>2. r.bound => \A k \in done \cup {j} : Upstream(g, Targets[k], Bound(g))
    <3>1. Workstream \in sources.found => Upstream(g, t, Bound(g))
      BY <1>2, <2>1 DEF Upstream, Bound
    <3> QED
      BY <1>3, <1>7, <3>1 DEF Scope, t
  <2>3. ~r.bound => \E k \in done \cup {j} : ~Upstream(g, Targets[k], Ours(g))
    <3>1. Workstream \notin sources.found => ~Upstream(g, t, Ours(g))
      BY <1>2, <2>1 DEF Upstream, Ours, OfStream
    <3> QED
      BY <1>3, <1>7, <3>1 DEF Scope, t
  <2>4. \A s \in r.statuses :
            \E k \in done \cup {j} : ScopedStatus(g, Targets[k], s)
    BY <1>3, <1>6, <1>7, <2>1 DEF Scope, t
  <2>5. \A k \in done \cup {j} :
            \E s \in r.statuses : ScopedStatus(g, Targets[k], s)
    BY <1>3, <1>6, <1>7, <2>1 DEF Scope, t
  <2> QED
    BY <2>1, <2>2, <2>3, <2>4, <2>5 DEF Scope
<1> QED
  BY <1>5, <1>7 DEF r, t

LEMMA ScopedScope ==
    ASSUME NEW g, Validated(g)
    PROVE  Scope(g, DOMAIN Targets, Scoped(g))
<1> DEFINE N == Len(Targets)
           a == [bound |-> TRUE, statuses |-> {}, memo |-> NoMemo(g)]
           s == [i \in 1 .. N |-> [x \in Scopes(g) |->
                                       AddTarget(g, Targets[i], x)]]
           Upto(f) == f = [i \in 0 .. N |->
                               IF i = 0 THEN a
                               ELSE AddTarget(g, Targets[i], f[i - 1])]
<1>1. N \in Nat /\ DOMAIN Targets = 1 .. N
  BY GatedAssumption
<1>2. a \in Scopes(g) /\ Scope(g, {}, a)
  <2>1. NoMemo(g) \in Memos(g) /\ SoundMemo(g, NoMemo(g))
    BY DEF NoMemo, Memos, SoundMemo
  <2> QED
    BY <2>1 DEF Scopes, Scope
<1>3. s \in [1 .. N -> [Scopes(g) -> Scopes(g)]]
  BY TargetAdded
<1>4. PICK h \in [0 .. N -> Scopes(g)] :
          h = [i \in 0 .. N |-> IF i = 0 THEN a ELSE s[i][h[i - 1]]]
  <2> HIDE DEF s, a, N
  <2> QED
    BY <1>1, <1>2, <1>3, Iteration
<1>5. \A i \in 0 .. N : i # 0 => i \in 1 .. N /\ i - 1 \in 0 .. N
  BY <1>1
<1>6. \A i \in 0 .. N :
          h[i] = IF i = 0 THEN a ELSE AddTarget(g, Targets[i], h[i - 1])
  <2> SUFFICES ASSUME NEW i \in 0 .. N
               PROVE  h[i] = IF i = 0 THEN a
                             ELSE AddTarget(g, Targets[i], h[i - 1])
    OBVIOUS
  <2>1. CASE i = 0
    BY <1>4, <2>1
  <2>2. CASE i # 0
    <3>1. h[i] = s[i][h[i - 1]]
      <4> HIDE DEF s, a, N
      <4> QED
        BY <1>4, <2>2
    <3>2. i \in 1 .. N /\ h[i - 1] \in Scopes(g)
      BY <1>4, <1>5, <2>2
    <3> QED
      BY <2>2, <3>1, <3>2
  <2> QED
    BY <2>1, <2>2
<1>7. Upto(h)
  <2> HIDE DEF a, N
  <2> QED
    BY <1>4, <1>6
<1>8. PICK f : Upto(f) /\ Scoped(g) = f[N]
  <2>1. Scoped(g) = (CHOOSE f : Upto(f))[N]
    BY DEF Scoped
  <2> HIDE DEF Upto
  <2> QED
    BY <1>7, <2>1
<1>9. /\ f[0] = a
      /\ \A i \in 1 .. N : f[i] = AddTarget(g, Targets[i], f[i - 1])
  <2>1. 0 \in 0 .. N /\ \A i \in 1 .. N : i \in 0 .. N /\ i # 0
    BY <1>1
  <2> HIDE DEF a, N
  <2> QED
    BY <1>8, <2>1
<1> DEFINE Good(i) == f[i] \in Scopes(g) /\ Scope(g, 1 .. i, f[i])
           S == {i \in Nat : i <= N => Good(i)}
<1>10. 0 \in S
  <2>1. 1 .. 0 = {}
    OBVIOUS
  <2> HIDE DEF a, N
  <2> QED
    BY <1>2, <1>9, <2>1
<1>11. ASSUME NEW i \in Nat, i \in S PROVE i + 1 \in S
  <2> SUFFICES ASSUME i + 1 <= N PROVE Good(i + 1)
    OBVIOUS
  <2>1. f[i] \in Scopes(g) /\ Scope(g, 1 .. i, f[i])
    BY <1>1, <1>11
  <2>2. f[i + 1] = AddTarget(g, Targets[i + 1], f[i])
    BY <1>1, <1>9
  <2>3. 1 .. i + 1 = (1 .. i) \cup {i + 1}
    OBVIOUS
  <2> DEFINE x == f[i]
             r == f[i + 1]
             k == i + 1
  <2> HIDE DEF x, r, k
  <2>4. /\ x \in Scopes(g) /\ Scope(g, 1 .. i, x)
        /\ r = AddTarget(g, Targets[k], x)
    BY <2>1, <2>2 DEF x, r, k
  <2>5. r \in Scopes(g) /\ Scope(g, (1 .. i) \cup {k}, r)
    BY <2>4, TargetAdded
  <2> QED
    BY <2>3, <2>5 DEF r, k
<1>12. Good(N)
  <2>1. N \in S
    <3> HIDE DEF S, N
    <3> QED
      BY <1>1, <1>10, <1>11, SetInduction
  <2> QED
    BY <1>1, <2>1
<1> HIDE DEF N
<1> QED
  BY <1>1, <1>8, <1>12

\* The gate refuses to decide only if some target has no edge from the
\* workstream's own evidence, and decides only if every target has an edge
\* from a node that provenance binds to the workstream.
THEOREM GateScope ==
    ASSUME NEW g, Validated(g)
    PROVE  IF GateOutcome(g) = "unbound"
           THEN \E i \in DOMAIN Targets :
                    ~Upstream(g, Targets[i], OfStream(g, Workstream))
           ELSE \A i \in DOMAIN Targets :
                    Upstream(g, Targets[i], BoundTo(g, Workstream))
<1>1. GateOutcome(g) = "unbound" <=> ~Scoped(g).bound
  BY DEF GateOutcome, Directive
<1> QED
  BY <1>1, ScopedScope DEF Scope, Ours, Bound

\* The gate stops for no more than the verified relations of nodes that
\* provenance binds to the workstream, and for no less than those of its own
\* evidence, whatever the order of the edges and the cycles among them.
THEOREM GateWithinBounds ==
    ASSUME NEW g, Validated(g), GateOutcome(g) # "unbound"
    PROVE  /\ Demanded(g, OfStream(g, Workstream)) <= Severity(GateOutcome(g))
           /\ Severity(GateOutcome(g)) <= Demanded(g, BoundTo(g, Workstream))
<1> DEFINE all == Scoped(g)
           Among(i, nodes) == VerifiedRelations(g, Targets[i], nodes)
           Stats(nodes) == {Status(Among(i, nodes)) : i \in DOMAIN Targets}
<1>1. Scope(g, DOMAIN Targets, all)
  BY ScopedScope
<1>2. GateOutcome(g) = Directive(all.statuses)
  BY DEF GateOutcome
<1> HIDE DEF all
<1>3. \A s \in Stats(Ours(g)) : \E t \in all.statuses : Weight(s) <= Weight(t)
  <2> SUFFICES ASSUME NEW i \in DOMAIN Targets
               PROVE  \E t \in all.statuses :
                          Weight(Status(Among(i, Ours(g)))) <= Weight(t)
    OBVIOUS
  <2>1. PICK t \in all.statuses : ScopedStatus(g, Targets[i], t)
    BY <1>1 DEF Scope
  <2>2. PICK R : Among(i, Ours(g)) \subseteq Among(i, R)
                 /\ t = Status(Among(i, R))
    BY <2>1 DEF ScopedStatus
  <2> HIDE DEF Among
  <2> QED
    BY <2>2, StatusWeight
<1>4. \A s \in all.statuses : \E t \in Stats(Bound(g)) : Weight(s) <= Weight(t)
  <2> SUFFICES ASSUME NEW s \in all.statuses
               PROVE  \E t \in Stats(Bound(g)) : Weight(s) <= Weight(t)
    OBVIOUS
  <2>1. PICK i \in DOMAIN Targets : ScopedStatus(g, Targets[i], s)
    BY <1>1 DEF Scope
  <2>2. PICK R : R \subseteq Bound(g) /\ s = Status(Among(i, R))
    BY <2>1 DEF ScopedStatus
  <2>3. Among(i, R) \subseteq Among(i, Bound(g))
    BY <2>2, RelationsAmong
  <2> HIDE DEF Among
  <2>4. Weight(s) <= Weight(Status(Among(i, Bound(g))))
    BY <2>2, <2>3, StatusWeight
  <2> QED
    BY <2>4
<1>5. /\ Demanded(g, Ours(g)) = Severity(Directive(Stats(Ours(g))))
      /\ Demanded(g, Bound(g)) = Severity(Directive(Stats(Bound(g))))
  BY DEF Demanded
<1> HIDE DEF Stats
<1> QED
  BY <1>2, <1>3, <1>4, <1>5, DirectiveWeight DEF Ours, Bound

-----------------------------------------------------------------------------
(***************************************************************************)
(* What the memo costs.  A call visits whatever is neither in the memo nor *)
(* on the path, so that a first call, with nothing in either, visits all   *)
(* that the walk can reach.  What it memoises of the nodes it visits on    *)
(* the way leaves out their paths back, which is why a later call for one  *)
(* of those need not be complete.                                          *)
(***************************************************************************)
Hop(g, i, n) ==
    /\ g.edges[i].relation \in ProvenanceRelations
    /\ g.nodes[Other(g.edges[i], n)].type \in ProvenanceTypes

\* All hops of a node, up to an edge, lead to one of the nodes.
HopsInto(g, n, last, nodes) ==
    \A i \in 1 .. last : Hop(g, i, n) => Other(g.edges[i], n) \in nodes

\* The memo leaves nothing out but what is on the path.
Explored(g, memo, path) ==
    \A n \in memo.known : HopsInto(g, n, Len(g.edges), memo.known \cup path)

\* What a call adds to the memo is also in what it finds.
Reports(g, memo, r) ==
    /\ memo.known \subseteq r.memo.known
    /\ \A n \in r.memo.known \ memo.known : Own(g, n) \subseteq r.found

EndsExplored(g, p) ==
    Explored(g, p.memo, p.path)
        /\ HopsInto(g, p.node, p.edge - 1, p.memo.known \cup p.path) =>
    LET r == Walk(g)[p]
    IN  /\ Explored(g, r.memo, p.path)
        /\ HopsInto(g, p.node, Len(g.edges), r.memo.known \cup p.path)
        /\ p.found \subseteq r.found
        /\ Reports(g, p.memo, r)

LEMMA ExploredByCall ==
    ASSUME NEW g, Validated(g), NEW n \in Ids(g), NEW memo \in Memos(g),
           NEW path \in SUBSET Ids(g), Explored(g, memo, path),
           EndsExplored(g, Enter(g, n, memo, path))
    PROVE  LET r == Resolve(g, Walk(g), n, memo, path)
           IN  /\ Explored(g, r.memo, path) /\ n \in r.memo.known
               /\ Reports(g, memo, r)
<1> DEFINE r == Resolve(g, Walk(g), n, memo, path)
<1>1. CASE n \in memo.known
  BY <1>1 DEF Resolve, Reports
<1>2. CASE n \notin memo.known
  <2> DEFINE q == Enter(g, n, memo, path)
             all == Walk(g)[q]
  <2>1. /\ q.node = n /\ q.memo = memo /\ q.found = Own(g, n) /\ q.edge = 1
        /\ q.path = path \cup {n}
    BY DEF Enter
  <2>2. r = [found |-> all.found, memo |-> Remember(all.memo, n, all.found)]
    BY <1>2 DEF Resolve
  <2> HIDE DEF q
  <2>3. Explored(g, q.memo, q.path)
    BY <2>1 DEF Explored, HopsInto
  <2>4. HopsInto(g, q.node, q.edge - 1, q.memo.known \cup q.path)
    BY <2>1 DEF HopsInto
  <2>5. /\ Explored(g, all.memo, path \cup {n})
        /\ HopsInto(g, n, Len(g.edges), all.memo.known \cup path \cup {n})
        /\ Own(g, n) \subseteq all.found /\ Reports(g, memo, all)
    <3>1. /\ Explored(g, all.memo, q.path)
          /\ HopsInto(g, q.node, Len(g.edges), all.memo.known \cup q.path)
          /\ q.found \subseteq all.found /\ Reports(g, q.memo, all)
      BY <2>3, <2>4 DEF EndsExplored, q
    <3>2. all.memo.known \cup q.path = all.memo.known \cup path \cup {n}
      BY <2>1
    <3> HIDE DEF all
    <3> QED
      BY <2>1, <3>1, <3>2
  <2> HIDE DEF all
  <2>6. r.memo.known = all.memo.known \cup {n} /\ r.found = all.found
    BY <2>2 DEF Remember
  <2> HIDE DEF r
  <2>7. Explored(g, r.memo, path)
    <3>1. r.memo.known \cup path = all.memo.known \cup path \cup {n}
          /\ all.memo.known \cup (path \cup {n}) = r.memo.known \cup path
      BY <2>6
    <3> QED
      BY <2>5, <2>6, <3>1 DEF Explored
  <2>8. Reports(g, memo, r)
    BY <2>5, <2>6 DEF Reports
  <2> QED
    BY <2>6, <2>7, <2>8 DEF r
<1> QED
  BY <1>1, <1>2

LEMMA CallsEndExplored ==
    ASSUME NEW g, Validated(g), NEW p \in Points(g),
           \A q \in Points(g) : Left(g, q) < Left(g, p) => EndsExplored(g, q)
    PROVE  EndsExplored(g, p)
<1> DEFINE L == Len(g.edges)
<1> SUFFICES ASSUME Explored(g, p.memo, p.path),
                    HopsInto(g, p.node, p.edge - 1, p.memo.known \cup p.path)
             PROVE  LET r == Walk(g)[p]
                    IN  /\ Explored(g, r.memo, p.path)
                        /\ HopsInto(g, p.node, L, r.memo.known \cup p.path)
                        /\ p.found \subseteq r.found
                        /\ Reports(g, p.memo, r)
  BY DEF EndsExplored
<1>0. L \in Nat /\ p.edge \in 1 .. L + 1 /\ DOMAIN g.edges = 1 .. L
  BY Edged DEF Points
<1>1. Walk(g)[p] = WalkOn(g, Walk(g), p)
  BY ResolverTerminates
<1>2. CASE p.edge > L
  <2>1. p.edge - 1 = L
    BY <1>0, <1>2
  <2>2. Walk(g)[p].found = p.found /\ Walk(g)[p].memo = p.memo
    BY <1>1, <1>2 DEF WalkOn
  <2> QED
    BY <2>1, <2>2 DEF Reports
<1>3. CASE p.edge \in 1 .. L
  <2> DEFINE e == g.edges[p.edge]
             n == Other(e, p.node)
  <2>1. /\ n \in Ids(g) /\ p.memo \in Memos(g) /\ p.path \in SUBSET Ids(g)
        /\ p.node \in Ids(g)
    BY <1>3, Edged DEF Points
  <2>2. ASSUME NEW there \in Results(g), Explored(g, there.memo, p.path),
               Reports(g, p.memo, there),
               Hop(g, p.edge, p.node) => n \in there.memo.known \cup p.path
        PROVE  LET r == Walk(g)[Onward(p, there)]
               IN  /\ Explored(g, r.memo, p.path)
                   /\ HopsInto(g, p.node, L, r.memo.known \cup p.path)
                   /\ p.found \subseteq r.found
                   /\ Reports(g, p.memo, r)
    <3> DEFINE q == Onward(p, there)
               r == Walk(g)[q]
    <3>1. /\ q.node = p.node /\ q.memo = there.memo /\ q.path = p.path
          /\ q.found = p.found \cup there.found /\ q.edge = p.edge + 1
      BY DEF Onward
    <3>2. EndsExplored(g, q)
      BY <1>3, Smaller
    <3>3. HopsInto(g, q.node, q.edge - 1, q.memo.known \cup q.path)
      <4> HIDE DEF q, n
      <4>1. \A i \in 1 .. q.edge - 1 : i \in 1 .. p.edge - 1 \/ i = p.edge
        BY <1>0, <3>1
      <4>2. p.memo.known \subseteq there.memo.known
        BY <2>2 DEF Reports
      <4> QED
        BY <2>2, <3>1, <4>1, <4>2 DEF HopsInto, n
    <3> HIDE DEF q
    <3>4. /\ Explored(g, r.memo, p.path)
          /\ HopsInto(g, p.node, L, r.memo.known \cup p.path)
          /\ p.found \cup there.found \subseteq r.found
          /\ Reports(g, there.memo, r)
      BY <2>2, <3>1, <3>2, <3>3 DEF EndsExplored
    <3> HIDE DEF r
    <3>5. Reports(g, p.memo, r)
      BY <2>2, <3>4 DEF Reports
    <3> QED
      BY <3>4, <3>5 DEF q, r
  <2>3. CASE Traversed(g, e, p.node, p.path)
    <3> DEFINE there == Resolve(g, Walk(g), n, p.memo, p.path)
    <3>1. n \notin p.path
      BY <2>3 DEF Traversed
    <3>2. EndsExplored(g, Enter(g, n, p.memo, p.path))
      BY <1>3, <2>1, <3>1, Smaller
    <3>3. /\ Explored(g, there.memo, p.path) /\ n \in there.memo.known
          /\ Reports(g, p.memo, there)
      <4> HIDE DEF n
      <4> QED
        BY <2>1, <3>2, ExploredByCall
    <3>4. there \in Results(g)
      <4> HIDE DEF n
      <4> QED
        BY <2>1, Resolved, ResolverTerminates
    <3>5. Walk(g)[p] = Walk(g)[Onward(p, there)]
      BY <1>1, <1>3, <2>3 DEF WalkOn
    <3> HIDE DEF there, n
    <3> QED
      BY <2>2, <3>3, <3>4, <3>5
  <2>4. CASE ~Traversed(g, e, p.node, p.path)
    <3> DEFINE there == [found |-> {}, memo |-> p.memo]
    <3>1. there \in Results(g) /\ there.found = {} /\ there.memo = p.memo
      BY <2>1 DEF Results
    <3>2. Walk(g)[p] = Walk(g)[Onward(p, there)]
      BY <1>1, <1>3, <2>4 DEF WalkOn
    <3>3. Hop(g, p.edge, p.node) => n \in p.path
      BY <2>4 DEF Hop, Traversed
    <3> HIDE DEF there, n
    <3>4. Reports(g, p.memo, there)
      BY <3>1 DEF Reports
    <3> QED
      BY <2>2, <3>1, <3>2, <3>3, <3>4
  <2> QED
    BY <2>3, <2>4
<1> QED
  BY <1>0, <1>2, <1>3

LEMMA AllEndExplored ==
    ASSUME NEW g, Validated(g)
    PROVE  \A p \in Points(g) : EndsExplored(g, p)
<1> DEFINE S == {k \in Nat : \A p \in Points(g) :
                                 Left(g, p) < k => EndsExplored(g, p)}
<1>1. 0 \in S
  BY LeftIsNat
<1>2. ASSUME NEW k \in Nat, k \in S PROVE k + 1 \in S
  <2> SUFFICES ASSUME NEW p \in Points(g), Left(g, p) < k + 1
               PROVE  EndsExplored(g, p)
    OBVIOUS
  <2>1. ASSUME NEW q \in Points(g), Left(g, q) < Left(g, p)
        PROVE  EndsExplored(g, q)
    <3>1. Left(g, q) < k
      BY <2>1, LeftIsNat
    <3> QED
      BY <1>2, <3>1
  <2> QED
    BY <2>1, CallsEndExplored
<1>3. \A k \in Nat : k \in S
  <2> HIDE DEF S
  <2> QED
    BY <1>1, <1>2, SetInduction
<1>4. \A p \in Points(g) : Left(g, p) \in Nat /\ Left(g, p) < Left(g, p) + 1
  BY LeftIsNat
<1> QED
  BY <1>3, <1>4

\* A first call, with an empty memo, finds exactly the workstreams the node is
\* bound to: what the gate misses is missed for a node it asks for later.
THEOREM FirstCallComplete ==
    ASSUME NEW g, Validated(g), NEW n \in Ids(g)
    PROVE  Sources(g, n, NoMemo(g)).found
               = {w \in Streams(g) : n \in BoundTo(g, w)}
<1> DEFINE r == Sources(g, n, NoMemo(g))
           K == r.memo.known
<1>1. NoMemo(g) \in Memos(g) /\ SoundMemo(g, NoMemo(g))
      /\ Explored(g, NoMemo(g), {}) /\ NoMemo(g).known = {}
  BY DEF NoMemo, Memos, SoundMemo, Explored
<1>2. r \in Results(g) /\ SoundFor(g, n, r.found)
  BY <1>1, ResolverSound
<1>3. Explored(g, r.memo, {}) /\ n \in K /\ Reports(g, NoMemo(g), r)
  <2>1. EndsExplored(g, Enter(g, n, NoMemo(g), {}))
    BY <1>1, Entered, AllEndExplored
  <2> QED
    BY <1>1, <2>1, ExploredByCall DEF Sources
<1> HIDE DEF r
<1>4. ASSUME NEW w \in Streams(g), n \in BoundTo(g, w)
      PROVE  w \in r.found
  <2> SUFFICES ASSUME w \notin r.found PROVE FALSE
    OBVIOUS
  <2>1. \A m \in K : w \notin Own(g, m)
    BY <1>1, <1>3 DEF Reports
  <2> DEFINE S == Ids(g) \ K
  <2>2. OfStream(g, w) \subseteq S
    BY <2>1 DEF OfStream
  <2>3. Closed(g, S)
    <3> SUFFICES ASSUME NEW i \in DOMAIN g.edges,
                        NEW m \in {g.edges[i].from, g.edges[i].to},
                        Hop(g, i, m), Other(g.edges[i], m) \in S
                 PROVE  m \in S
      BY DEF Closed, Hop
    <3>1. i \in 1 .. Len(g.edges) /\ m \in Ids(g)
      <4>1. DOMAIN g.edges = 1 .. Len(g.edges)
        BY Edged
      <4> QED
        BY <4>1, Edged
    <3>2. m \in K => Other(g.edges[i], m) \in K
      BY <1>3, <3>1 DEF Explored, HopsInto
    <3> QED
      BY <3>1, <3>2
  <2>4. S \in SUBSET Ids(g)
    OBVIOUS
  <2> HIDE DEF S
  <2>5. n \in S
    BY <1>4, <2>2, <2>3, <2>4 DEF BoundTo
  <2> QED
    BY <1>3, <2>5 DEF S
<1>5. r.found \subseteq Streams(g)
  BY <1>2 DEF Results
<1>6. \A w \in r.found : n \in BoundTo(g, w)
  BY <1>2 DEF SoundFor
<1>7. r.found = {w \in Streams(g) : n \in BoundTo(g, w)}
  BY <1>4, <1>5, <1>6
<1> QED
  BY <1>7 DEF r

-----------------------------------------------------------------------------
(***************************************************************************)
(* Behind the gate.  Every graph on disk is validated, so that the         *)
(* theorems above hold of each evaluation of the gate.                     *)
(***************************************************************************)
EdgesOf(g) == [from : Ids(g), to : Ids(g), relation : Relations, level : Levels]

LEMMA MoreNodes ==
    ASSUME NEW g, Validated(g), NEW n, NEW v, NEW h, NEW more,
           h.nodes = WithNode(g, n, v), more \in Seq(EdgesOf(h)),
           h.edges = g.edges \o more
    PROVE  Validated(h) /\ Ids(g) \cup {n} = Ids(h)
<1>1. Ids(h) = Ids(g) \cup {n}
  BY NewNode
<1>2. IsFiniteSet(Ids(h))
  BY <1>1, FS_AddElement DEF Validated
<1>3. g.edges \in Seq(EdgesOf(h))
  <2>1. EdgesOf(g) \subseteq EdgesOf(h)
    BY <1>1 DEF EdgesOf
  <2>2. g.edges \in Seq(EdgesOf(g))
    BY DEF Validated, EdgesOf
  <2> QED
    BY <2>1, <2>2
<1>4. h.edges \in Seq(EdgesOf(h))
  BY <1>3
<1> QED
  BY <1>1, <1>2, <1>4 DEF Validated, EdgesOf

Valid(g) == Validated(g) /\ Target \in Ids(g)

LEMMA RecordedIsValid ==
    ASSUME NEW g, Valid(g), NEW r, NEW s
    PROVE  Valid(Recorded(g, r, Target, s))
<1> DEFINE h == Recorded(g, r, Target, s)
           v == Node("analysis", "none", s = "completed")
           e == Edge(r, Target, "tests", "proposal")
           more == IF s = "completed" THEN <<e>> ELSE <<>>
<1>1. h.nodes = WithNode(g, r, v)
  BY DEF Recorded
<1>2. h.edges = g.edges \o more
  <2>1. g.edges \in Seq(EdgesOf(g))
    BY DEF Valid, Validated, EdgesOf
  <2> HIDE DEF e
  <2>2. g.edges \o <<>> = g.edges /\ g.edges \o <<e>> = Append(g.edges, e)
    BY <2>1
  <2> QED
    BY <2>2 DEF Recorded, e
<1>3. Ids(h) = Ids(g) \cup {r}
  <2> HIDE DEF h, v
  <2> QED
    BY <1>1, NewNode
<1>4. more \in Seq(EdgesOf(h))
  <2> HIDE DEF h
  <2>1. e \in EdgesOf(h)
    BY <1>3 DEF Edge, EdgesOf, Valid, Relations, ProvenanceRelations, Levels
  <2> HIDE DEF e
  <2> QED
    BY <2>1
<1> HIDE DEF h, v, more
<1>5. Validated(h)
  BY <1>1, <1>2, <1>4, MoreNodes DEF Valid
<1> QED
  BY <1>3, <1>5 DEF Valid, h

LEMMA TransitionIsValid ==
    ASSUME NEW g, Valid(g), NEW n, NEW rel \in InferenceRelations, NEW b
    PROVE  Valid(Transition(g, n, Target, rel, b))
<1> DEFINE h == Transition(g, n, Target, rel, b)
           v == Node("analysis", "none", TRUE)
           level == IF b THEN "domain_verified" ELSE "proposal"
           tests == Edge(n, Target, "tests", "proposal")
           infers == Edge(n, Target, rel, level)
           more == <<tests, infers>>
<1>1. h.nodes = WithNode(g, n, v) /\ h.edges = g.edges \o more
  BY DEF Transition
<1>2. Ids(h) = Ids(g) \cup {n}
  <2> HIDE DEF h, v, more
  <2> QED
    BY <1>1, NewNode
<1>3. more \in Seq(EdgesOf(h))
  <2> HIDE DEF h
  <2>1. tests \in EdgesOf(h)
    BY <1>2 DEF Edge, EdgesOf, Valid, Relations, ProvenanceRelations, Levels
  <2>2. level \in Levels
    BY DEF Levels
  <2> HIDE DEF level
  <2>3. infers \in EdgesOf(h)
    BY <1>2, <2>2 DEF Edge, EdgesOf, Valid, Relations, ProvenanceRelations
  <2> HIDE DEF tests, infers
  <2> QED
    BY <2>1, <2>3
<1> HIDE DEF h, v, more
<1>4. Validated(h)
  BY <1>1, <1>3, MoreNodes DEF Valid
<1> QED
  BY <1>2, <1>4 DEF Valid, h

ValidGraphs ==
    /\ \A g \in disk : Valid(g)
    /\ gated # NoGraph => Valid(gated)

LEMMA ValidGraphsNext ==
    ASSUME IInv, ValidGraphs, [Next]_vars
    PROVE  ValidGraphs'
<1>1. DiskStep
  BY DiskSteps DEF IInv
<1>2. \A g \in disk' : Valid(g)
  <2>1. \A v \in ReviewedAs : v.relation \in InferenceRelations
    BY ClosedLoopAssumption
  <2> QED
    BY <1>1, <2>1, RecordedIsValid, TransitionIsValid
       DEF DiskStep, ValidGraphs, Successor
<1>3. gated' # NoGraph => Valid(gated')
  <2>1. gated' \in {gated, NoGraph} \/ (Working /\ gated' = graph)
    BY DEF Next, Loop, vars, Around, Working, Start, Evaluate, Probe,
           AuthorizationDenied, Recover, Execute, AppendToLedger, Finish,
           RecordGraph, RecordManifest, RecordFails, Advance, Leave, Interrupt,
           Edit, OtherExecutes, OtherRecovers, Review
  <2> QED
    BY <2>1 DEF ValidGraphs, IInv, GraphsOK
<1>4. (\A g \in disk : Valid(g))'
  BY <1>2 DEF Valid, Validated
<1>5. (gated # NoGraph => Valid(gated))'
  BY <1>3 DEF Valid, Validated, NoGraph
<1> QED
  BY <1>4, <1>5 DEF ValidGraphs

LEMMA InitValidGraphs == Init => ValidGraphs
BY GatedAssumption DEF Init, ValidGraphs, Valid

\* Whatever the loop has executed, recovered and reviewed, the gate it last
\* evaluated stopped for what its workstream is bound to, and not for less
\* than its workstream's own evidence says.
THEOREM LoopGateIsBounded ==
    ASSUME \A g : Gate(g) = GateOutcome(g)
    PROVE  Spec => []GateIsBounded
<1>1. ValidGraphs => GateIsBounded
  <2> SUFFICES ASSUME ValidGraphs, gated # NoGraph, Gate(gated) # "unbound"
               PROVE  /\ Demanded(gated, OfStream(gated, Workstream))
                             <= Severity(Gate(gated))
                      /\ Severity(Gate(gated))
                             <= Demanded(gated, BoundTo(gated, Workstream))
    BY DEF GateIsBounded
  <2>1. Validated(gated)
    BY DEF ValidGraphs, Valid
  <2> QED
    BY <2>1, GateWithinBounds
<1> QED
  BY <1>1, InitIInv, NextIInv, InitValidGraphs, ValidGraphsNext, PTL DEF Spec

LEMMA Demands ==
    ASSUME NEW g, NEW nodes, Demanded(g, nodes) <= 0, NEW i \in DOMAIN Targets
    PROVE  VerifiedRelations(g, Targets[i], nodes) = {}
<1> DEFINE A == VerifiedRelations(g, Targets[i], nodes)
           S == {Status(VerifiedRelations(g, Targets[j], nodes)) :
                     j \in DOMAIN Targets}
<1>1. Status(A) \in S
  OBVIOUS
<1>2. A \subseteq InferenceRelations
  BY DEF VerifiedRelations
<1>3. Severity(Directive(S)) <= 0
  BY DEF Demanded
<1>4. Weight(Status(A)) <= Severity(Directive(S))
  <2>1. \A a \in {Status(A)} : \E b \in S : Weight(a) <= Weight(b)
    <3> HIDE DEF S, A
    <3>1. Weight(Status(A)) \in Nat
      BY Weights
    <3> QED
      BY <1>1, <3>1
  <2> HIDE DEF S, A
  <2> QED
    BY <2>1, DirectiveWeight DEF Weight
<1> HIDE DEF A
<1>5. Status(A) = "inconclusive"
  <2>1. Weight(Status(A)) <= 0 /\ Weight(Status(A)) \in Nat
    <3>1. Severity(Directive(S)) \in Nat
      BY Severities DEF Directive
    <3>2. Weight(Status(A)) \in Nat
      BY Weights
    <3> HIDE DEF S
    <3> QED
      BY <1>3, <1>4, <3>1, <3>2
  <2>2. Weight(Status(A)) = 0
    BY <2>1
  <2> QED
    BY <2>2, Weights DEF Status
<1> QED
  BY <1>2, <1>5 DEF Status, InferenceRelations, A

\* No action is executed while the workstream's own evidence says anything of
\* a selected target, on any validated graph and in any order of its edges.
THEOREM LoopHeedsOwnEvidence ==
    ASSUME \A g : Gate(g) = GateOutcome(g)
    PROVE  Spec => []OwnEvidenceIsHeeded
<1>1. IInv /\ ValidGraphs /\ ActsOnGatedGraph => OwnEvidenceIsHeeded
  <2> SUFFICES ASSUME IInv, ValidGraphs, ActsOnGatedGraph, Acting,
                      NEW i \in DOMAIN Targets
               PROVE  VerifiedRelations(graph, Targets[i],
                                        OfStream(graph, Workstream)) = {}
    BY DEF OwnEvidenceIsHeeded
  <2>1. GateOutcome(graph) = "continue_discriminating_research"
    BY DEF ActsOnGatedGraph
  <2>2. Validated(graph)
    BY DEF IInv, GraphsOK, Acting, Working, ValidGraphs, Valid
  <2> QED
    BY <2>1, <2>2, Severities, GateWithinBounds, Demands
<1> QED
  BY <1>1, InitIInv, NextIInv, InitValidGraphs, ValidGraphsNext, LoopIsGated,
     PTL DEF Spec

-----------------------------------------------------------------------------
(***************************************************************************)
(* The record of an executed action.                                       *)
(***************************************************************************)
\* A recorded action changes no assessment: its edge carries no inference, and
\* no edge of a validated graph starts from a node it does not have.
LEMMA RecordOnly ==
    ASSUME NEW g, Validated(g), NEW r, r \notin Ids(g), NEW t, NEW s, NEW u
    PROVE  Assessment(Recorded(g, r, t, s), u) = Assessment(g, u)
<1> DEFINE h == Recorded(g, r, t, s)
           Counts(k, j) == /\ k.edges[j].to = u
                           /\ k.edges[j].relation \in InferenceRelations
                           /\ k.edges[j].level = "domain_verified"
                           /\ k.nodes[k.edges[j].from].usable
                           /\ k.edges[j].from \in Ids(k)
           Counting(k) == {j \in DOMAIN k.edges : Counts(k, j)}
<1>1. /\ Ids(h) = Ids(g) \cup {r}
      /\ \A m \in Ids(g) : h.nodes[m] = g.nodes[m]
  <2> DEFINE v == Node("analysis", "none", s = "completed")
  <2>1. h.nodes = WithNode(g, r, v)
    BY DEF Recorded
  <2> HIDE DEF h, v
  <2> QED
    BY <2>1, NewNode
<1>2. /\ g.edges \in Seq(EdgesOf(g)) /\ Len(g.edges) \in Nat
      /\ DOMAIN g.edges = 1 .. Len(g.edges)
      /\ \A j \in DOMAIN g.edges : g.edges[j] \in EdgesOf(g)
  <2>1. g.edges \in Seq(EdgesOf(g))
    BY DEF Validated, EdgesOf
  <2> QED
    BY <2>1
<1>3. /\ DOMAIN g.edges \subseteq DOMAIN h.edges
      /\ \A j \in DOMAIN g.edges : h.edges[j] = g.edges[j]
      /\ \A j \in DOMAIN h.edges \ DOMAIN g.edges :
             h.edges[j].relation = "tests"
  <2> DEFINE e == Edge(r, t, "tests", "proposal")
  <2>1. h.edges = IF s = "completed" THEN Append(g.edges, e) ELSE g.edges
    BY DEF Recorded
  <2>2. e.relation = "tests"
    BY DEF Edge
  <2> HIDE DEF h, e
  <2>3. /\ DOMAIN Append(g.edges, e) = 1 .. Len(g.edges) + 1
        /\ \A j \in 1 .. Len(g.edges) : Append(g.edges, e)[j] = g.edges[j]
        /\ Append(g.edges, e)[Len(g.edges) + 1] = e
    <3>1. g.edges \in Seq(EdgesOf(g) \cup {e}) /\ e \in EdgesOf(g) \cup {e}
      BY <1>2
    <3> QED
      BY <3>1, AppendFacts
  <2> QED
    BY <1>2, <2>1, <2>2, <2>3
<1> HIDE DEF h
<1>4. Counting(h) = Counting(g)
  <2>1. ASSUME NEW j \in DOMAIN g.edges PROVE Counts(h, j) <=> Counts(g, j)
    <3>1. g.edges[j].from \in Ids(g) /\ h.edges[j] = g.edges[j]
      BY <1>2, <1>3, <2>1 DEF EdgesOf
    <3>2. h.nodes[g.edges[j].from] = g.nodes[g.edges[j].from]
      BY <1>1, <3>1
    <3> QED
      BY <1>1, <3>1, <3>2
  <2>2. ASSUME NEW j \in DOMAIN h.edges \ DOMAIN g.edges PROVE ~Counts(h, j)
    BY <1>3, <2>2 DEF InferenceRelations
  <2> HIDE DEF Counts
  <2> QED
    BY <1>3, <2>1, <2>2
<1>5. \A j \in Counting(g) : h.edges[j] = g.edges[j]
  BY <1>3
<1>6. VerifiedRelations(h, u, Ids(h)) =
          {e.relation : e \in {h.edges[j] : j \in Counting(h)}}
  BY DEF VerifiedRelations
<1>7. VerifiedRelations(g, u, Ids(g)) =
          {e.relation : e \in {g.edges[j] : j \in Counting(g)}}
  BY DEF VerifiedRelations
<1> HIDE DEF Counting
<1>8. {h.edges[j] : j \in Counting(h)} = {g.edges[j] : j \in Counting(g)}
  BY <1>4, <1>5
<1> QED
  BY <1>6, <1>7, <1>8 DEF Assessment, h

\* What the checks before an execution still say at its record: the lock keeps
\* the ledger, and the invocation keeps its queue and its graph.
StillNew ==
    /\ Acting \/ pc = "probe" => ~Collides(graph, queue, next)
    /\ pc = "record" => Len(ledger) = verified

LEMMA StillNewNext ==
    ASSUME StillNew, [Next]_vars
    PROVE  StillNew'
<1>1. CASE Evaluate
  BY <1>1 DEF Evaluate, StillNew, Acting, Return, Collides, memory
<1>2. CASE Finish
  BY <1>2 DEF Finish, StillNew, Acting, Collides, memory
<1>3. CASE UNCHANGED vars
  BY <1>3 DEF StillNew, Acting, vars, world, memory, prints, Collides
<1>4. CASE Next /\ ~Evaluate /\ ~Finish
  <2>1. (Acting \/ pc = "probe")' =>
            (Acting \/ pc = "probe") /\ UNCHANGED <<graph, queue, next>>
    BY <1>4 DEF Next, Loop, Acting, Start, Probe, AuthorizationDenied, Recover,
        Execute, AppendToLedger, RecordGraph, RecordManifest, RecordFails,
        Advance, CycleStart, Leave, Interrupt, Edit, Review, OtherExecutes,
        OtherRecovers, Around, Return, LockIsFree,
        memory
  <2>2. pc' = "record" => pc = "record" /\ UNCHANGED <<ledger, verified>>
    BY <1>4 DEF Next, Loop, Start, Probe, AuthorizationDenied, Recover,
        Execute, AppendToLedger, RecordGraph, RecordManifest, RecordFails,
        Advance, CycleStart, Leave, Interrupt, Edit, Review, OtherExecutes,
        OtherRecovers, Around, Return, LockIsFree,
        world, prints
  <2> QED
    BY <2>1, <2>2 DEF StillNew, Collides, Acting
<1> QED
  BY <1>1, <1>2, <1>3, <1>4

\* Whatever happened to the ledger and the graphs before the invocation, and
\* whoever edits or reviews meanwhile, the three checks of the record pass.
THEOREM RecordNeverRefused == Spec => RecordSucceeds
<1>1. Init => StillNew
  BY DEF Init, StillNew, Acting
<1>2. IInv /\ ValidGraphs /\ StillNew /\ [Next]_vars =>
          (RecordGraph => pc' = "manifest")
  <2> SUFFICES ASSUME IInv, ValidGraphs, StillNew, RecordGraph
               PROVE  pc' = "manifest"
    OBVIOUS
  <2>1. pc = "record" /\ Acting
    BY DEF RecordGraph, Acting
  <2>2. Len(ledger) = verified
    BY <2>1 DEF StillNew
  <2>3. Request \notin Ids(graph)
    <3>1. next \in 1 .. Len(queue) /\ DOMAIN queue = 1 .. Len(queue)
      <4>1. next \in 1 .. Len(queue) /\ queue # <<>>
        BY <2>1 DEF IInv, TypeOK
      <4> QED
        BY <4>1, ClosedLoopAssumption DEF IInv, TypeOK
    <3> QED
      BY <2>1, <3>1 DEF StillNew, Collides, Request
  <2>4. Validated(graph)
    BY <2>1 DEF IInv, GraphsOK, Working, ValidGraphs, Valid
  <2>5. Assessment(Successor(Request), Target) = Assessment(graph, Target)
    BY <2>3, <2>4, RecordOnly DEF Successor
  <2> QED
    BY <2>2, <2>3, <2>5 DEF RecordGraph
<1> QED
  BY <1>1, <1>2, InitIInv, NextIInv, InitValidGraphs, ValidGraphsNext,
     StillNewNext, PTL DEF Spec, RecordSucceeds
=============================================================================
