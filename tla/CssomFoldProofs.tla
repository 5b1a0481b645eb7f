---------------------------- MODULE CssomFoldProofs --------------------------
(***************************************************************************)
(* Theorems about CssomFold: a sheet that is spliced in goes where the walk *)
(* found it, when the styles are the same in both reads and when the whole  *)
(* page is.                                                                 *)
(*                                                                          *)
(* What the paths of two elements have to do with each other is shown by    *)
(* induction over the tree.  Induction is an operator's business in the     *)
(* library; here it is a matter of sets: the elements for which a fact      *)
(* holds are a set that has the root, and with the owner of an element the  *)
(* element (TreeInduction).                                                 *)
(***************************************************************************)
EXTENDS CssomFold, FiniteSetTheorems, FunctionTheorems, SequenceTheorems,
        WellFoundedInduction, TLAPS

----------------------------------------------------------------------------
(* Numbers                                                                 *)

\* A set of naturals that is not empty has a least member.
LEMMA LeastNat ==
  ASSUME NEW S \in SUBSET Nat, S # {}
  PROVE  \E n \in S : \A m \in S : n <= m
<1> DEFINE R == OpToRel(<, Nat)
<1>1. IsWellFoundedOn(R, Nat)
  BY NatLessThanWellFounded
<1>2. \A x, y \in Nat : <<y, x>> \in R <=> y < x
  BY DEF OpToRel
<1>3. \E x \in S : \A y \in S : ~ (<<y, x>> \in R)
  <2> HIDE DEF R
  <2> QED BY <1>1, WFMin
<1> HIDE DEF R
<1>4. PICK n \in S : \A y \in S : ~ (<<y, n>> \in R)
  BY <1>3
<1>5. \A m \in S : n <= m
  <2> SUFFICES ASSUME NEW m \in S PROVE n <= m
    OBVIOUS
  <2>1. ~ (m < n)
    BY <1>4, <1>2
  <2> QED BY <2>1
<1> QED
  BY <1>5

----------------------------------------------------------------------------
(* A document is a tree                                                    *)

\* The page, and what was serialised of it: only elements that are in the page
\* hold elements, each of them stands in one place, and the ranks of elements
\* grow away from the root, so that no element holds itself.
Tree(d) ==
  /\ d \in [Place -> Seq(Element \ {Root})]
  /\ \A p \in Place : d[p] # <<>> => p \in CanHold(d)
  /\ \A p, q \in Place : \A i \in DOMAIN d[p], j \in DOMAIN d[q] :
       d[p][i] = d[q][j] => p = q /\ i = j
  /\ IsFiniteSet(Present(d))
  /\ \E n \in Nat : \E rank \in [Present(d) -> 0..n] :
       \A p \in Place : \A i \in DOMAIN d[p] : rank[p[2]] < rank[d[p][i]]

LEMMA PlaceKinds ==
  ASSUME NEW p \in Place
  PROVE  /\ p[1] = "light" => p = Light(p[2]) /\ p[2] \in Element
         /\ p[1] # "light" => p = Shadow(p[2]) /\ p[2] \in Host /\ p[1] = "shadow"
         /\ p[1] = "shadow" => p[1] # "light"
BY DEF Place, Light, Shadow

\* What an element that stands at p[i] has for its holder and its index.
LEMMA Standing ==
  ASSUME NEW d, Tree(d), NEW p \in Place, NEW i \in DOMAIN d[p]
  PROVE  /\ HolderOf(d, d[p][i]) = p
         /\ IndexOf(d, d[p][i]) = i
         /\ i \in 1..Len(d[p])
         /\ d[p][i] \in Present(d) \ {Root}
         /\ p[2] \in Present(d)
         /\ p[1] = "light" => p[2] \notin Style
<1>1. d[p] \in Seq(Element \ {Root})
  BY DEF Tree
<1>2. DOMAIN d[p] = 1..Len(d[p]) /\ d[p][i] \in Element \ {Root}
  BY <1>1, LenProperties, ElementOfSeq
<1>3. Holds(d, p, d[p][i])
  BY <1>2 DEF Holds, Contains
<1>4. ASSUME NEW q \in Place, Holds(d, q, d[p][i]) PROVE q = p
  <2>1. PICK j \in 1..Len(d[q]) : d[q][j] = d[p][i]
    BY <1>4 DEF Holds, Contains
  <2>2. j \in DOMAIN d[q]
    <3>1. d[q] \in Seq(Element \ {Root})
      BY DEF Tree
    <3> QED BY <3>1, LenProperties
  <2> QED BY <2>1, <2>2 DEF Tree
<1>5. HolderOf(d, d[p][i]) = p
  BY <1>3, <1>4 DEF HolderOf
<1>6. IndexOf(d, d[p][i]) = i
  <2>1. \A j \in 1..Len(d[p]) : d[p][j] = d[p][i] => j = i
    BY <1>2 DEF Tree
  <2> QED BY <1>2, <1>5, <2>1 DEF IndexOf
<1>7. d[p][i] \in Present(d)
  BY DEF Present, ToSet
<1>8. p \in CanHold(d)
  <2>1. d[p] # <<>>
    BY <1>1, <1>2
  <2> QED BY <2>1 DEF Tree
<1>9. p[2] \in Present(d) /\ (p[1] = "light" => p[2] \notin Style)
  BY <1>8 DEF CanHold, Light, Shadow
<1> QED
  BY <1>2, <1>5, <1>6, <1>7, <1>9

\* Every element of the page but the root stands somewhere.
LEMMA Stands ==
  ASSUME NEW d, Tree(d), NEW e \in Present(d), e # Root
  PROVE  /\ HolderOf(d, e) \in Place
         /\ IndexOf(d, e) \in DOMAIN d[HolderOf(d, e)]
         /\ d[HolderOf(d, e)][IndexOf(d, e)] = e
         /\ IndexOf(d, e) \in Nat \ {0}
         /\ HolderOf(d, e)[2] \in Present(d)
<1>1. PICK p \in Place : e \in ToSet(d[p])
  BY DEF Present
<1>2. PICK i \in DOMAIN d[p] : e = d[p][i]
  BY <1>1 DEF ToSet
<1> QED
  BY <1>2, Standing

LEMMA RootPresent ==
  ASSUME NEW d
  PROVE  Root \in Present(d)
BY DEF Present

LEMMA PresentAreElements ==
  ASSUME NEW d, Tree(d)
  PROVE  Present(d) \subseteq Element
<1> SUFFICES ASSUME NEW e \in Present(d), e # Root PROVE e \in Element
  BY DEF Element
<1>1. d[HolderOf(d, e)] \in Seq(Element \ {Root})
  BY Stands DEF Tree
<1> QED
  BY <1>1, Stands, LenProperties, ElementOfSeq

\* Ranks by element.
LEMMA Ranks ==
  ASSUME NEW d, Tree(d)
  PROVE  \E n \in Nat : \E rank \in [Present(d) -> 0..n] :
           \A e \in Present(d) \ {Root} : rank[HolderOf(d, e)[2]] < rank[e]
<1>1. PICK n \in Nat : \E rank \in [Present(d) -> 0..n] :
        \A p \in Place : \A i \in DOMAIN d[p] : rank[p[2]] < rank[d[p][i]]
  BY DEF Tree
<1>2. PICK rank \in [Present(d) -> 0..n] :
        \A p \in Place : \A i \in DOMAIN d[p] : rank[p[2]] < rank[d[p][i]]
  BY <1>1
<1>3. ASSUME NEW e \in Present(d), e # Root
      PROVE  rank[HolderOf(d, e)[2]] < rank[e]
  BY <1>2, <1>3, Stands
<1> QED
  BY <1>3

\* Induction over a document.
LEMMA TreeInduction ==
  ASSUME NEW d, Tree(d), NEW S, Root \in S,
         \A e \in Present(d) \ {Root} : HolderOf(d, e)[2] \in S => e \in S
  PROVE  Present(d) \subseteq S
<1>1. PICK n \in Nat : \E rank \in [Present(d) -> 0..n] :
        \A e \in Present(d) \ {Root} : rank[HolderOf(d, e)[2]] < rank[e]
  BY Ranks
<1>2. PICK rank \in [Present(d) -> 0..n] :
        \A e \in Present(d) \ {Root} : rank[HolderOf(d, e)[2]] < rank[e]
  BY <1>1
<1> DEFINE Out == {rank[e] : e \in Present(d) \ S}
<1> SUFFICES ASSUME Out # {} PROVE FALSE
  OBVIOUS
<1>3. Out \in SUBSET Nat
  BY <1>2
<1>4. PICK k \in Out : \A m \in Out : k <= m
  <2> HIDE DEF Out
  <2> QED BY <1>3, LeastNat
<1>5. PICK e \in Present(d) \ S : k = rank[e]
  BY <1>4
<1>6. e # Root
  BY <1>5
<1> DEFINE o == HolderOf(d, e)[2]
<1>7. o \in Present(d) /\ o \notin S
  BY <1>5, <1>6, Stands
<1>8. rank[o] < rank[e] /\ rank[o] \in Out
  BY <1>2, <1>5, <1>6, <1>7
<1>9. rank[o] \in Nat /\ rank[e] \in Nat
  BY <1>5, <1>7
<1>10. rank[e] <= rank[o]
  BY <1>4, <1>5, <1>8
<1> QED
  BY <1>8, <1>9, <1>10

\* Recursion over a document: v0 for the root, and for another element what G
\* makes of the value of its owner.
Recursive(d, v0, G, f) ==
  \A e \in Present(d) :
    f[e] = IF e = Root THEN v0 ELSE G[e][f[HolderOf(d, e)[2]]]

LEMMA TreeRecursion ==
  ASSUME NEW d, Tree(d), NEW V, NEW v0 \in V,
         NEW G \in [Present(d) -> [V -> V]]
  PROVE  \E f \in [Present(d) -> V] : Recursive(d, v0, G, f)
<1>1. PICK n \in Nat : \E rank \in [Present(d) -> 0..n] :
        \A e \in Present(d) \ {Root} : rank[HolderOf(d, e)[2]] < rank[e]
  BY Ranks
<1>2. PICK rank \in [Present(d) -> 0..n] :
        \A e \in Present(d) \ {Root} : rank[HolderOf(d, e)[2]] < rank[e]
  BY <1>1
<1> DEFINE Upto(f, k) == \A e \in Present(d) : rank[e] < k =>
                           f[e] = IF e = Root THEN v0 ELSE G[e][f[HolderOf(d, e)[2]]]
           S == {k \in Nat : \A f \in [Present(d) -> V] : ~ Upto(f, k)}
<1>3. S = {}
  <2> SUFFICES ASSUME S # {} PROVE FALSE
    OBVIOUS
  <2>1. PICK k \in S : \A m \in S : k <= m
    <3> HIDE DEF S
    <3>1. S \in SUBSET Nat
      BY DEF S
    <3> QED BY <3>1, LeastNat
  <2>2. k # 0
    <3> SUFFICES ASSUME k = 0 PROVE FALSE
      OBVIOUS
    <3> DEFINE f == [e \in Present(d) |-> v0]
    <3>1. f \in [Present(d) -> V]
      OBVIOUS
    <3>2. \A e \in Present(d) : ~ (rank[e] < k)
      OBVIOUS
    <3>3. Upto(f, k)
      BY <3>2
    <3> QED BY <3>1, <3>3, <2>1
  <2>3. k - 1 \in Nat /\ k - 1 \notin S
    <3>1. k \in Nat
      BY <2>1
    <3>2. ~ (k <= k - 1) /\ k - 1 \in Nat
      BY <3>1, <2>2
    <3> HIDE DEF S
    <3> QED BY <3>2, <2>1
  <2>4. PICK f \in [Present(d) -> V] : Upto(f, k - 1)
    <3> HIDE DEF Upto
    <3> QED BY <2>3
  <2> DEFINE g == [e \in Present(d) |-> IF e = Root THEN v0 ELSE G[e][f[HolderOf(d, e)[2]]]]
  <2>5. g \in [Present(d) -> V]
    BY Stands
  <2>6. \A e \in Present(d) : rank[e] < k - 1 => g[e] = f[e]
    BY <2>4
  <2>7. Upto(g, k)
    <3> SUFFICES ASSUME NEW e \in Present(d), rank[e] < k, e # Root
                 PROVE  g[e] = G[e][g[HolderOf(d, e)[2]]]
      OBVIOUS
    <3>1. HolderOf(d, e)[2] \in Present(d) /\ rank[HolderOf(d, e)[2]] < k - 1
      BY <1>2, <2>1, Stands
    <3>2. g[HolderOf(d, e)[2]] = f[HolderOf(d, e)[2]]
      BY <3>1, <2>6
    <3> QED BY <3>2
  <2> QED BY <2>1, <2>5, <2>7
<1>4. PICK f \in [Present(d) -> V] : Upto(f, n + 1)
  <2>1. n + 1 \in Nat
    OBVIOUS
  <2>2. n + 1 \notin S
    BY <1>3
  <2> HIDE DEF Upto
  <2> QED BY <2>1, <2>2
<1>5. \A e \in Present(d) : rank[e] < n + 1
  OBVIOUS
<1> QED
  BY <1>4, <1>5 DEF Recursive

----------------------------------------------------------------------------
(* Paths                                                                   *)

\* The path of what holds a child that stands in place p: of an element, or of
\* the <template> of a shadow root.
PlacePath(d, reader, p) ==
  IF p[1] = "light" THEN PathTo(d, reader)[p[2]]
  ELSE Append(PathTo(d, reader)[p[2]], 1)

LEMMA OffsetIsNat ==
  ASSUME NEW p, NEW reader
  PROVE  Offset(p, reader) \in Nat
BY DEF Offset

\* The recursive function PathTo exists: the path of an element is that of its
\* holder and one index more.
LEMMA PathOf ==
  ASSUME NEW d, Tree(d), NEW reader
  PROVE  /\ PathTo(d, reader) \in [Present(d) -> Seq(Nat)]
         /\ PathTo(d, reader)[Root] = <<>>
         /\ \A e \in Present(d) \ {Root} :
              PathTo(d, reader)[e] =
                Append(PlacePath(d, reader, HolderOf(d, e)),
                       IndexOf(d, e) + Offset(HolderOf(d, e), reader))
<1> DEFINE Tpl(e) == IF HolderOf(d, e)[1] = "shadow" THEN <<1>> ELSE <<>>
           Idx(e) == IndexOf(d, e) + Offset(HolderOf(d, e), reader)
           Body(path) == [e \in Present(d) |->
              IF e = Root THEN <<>>
              ELSE path[HolderOf(d, e)[2]] \o Tpl(e) \o <<Idx(e)>>]
           G == [e \in Present(d) |-> [q \in Seq(Nat) |->
                   IF e = Root THEN <<>> ELSE q \o Tpl(e) \o <<Idx(e)>>]]
<1>1. \A e \in Present(d) \ {Root} : Idx(e) \in Nat
  BY Stands, OffsetIsNat
<1>2. \A e \in Present(d) : Tpl(e) \in Seq(Nat)
  OBVIOUS
<1>3. G \in [Present(d) -> [Seq(Nat) -> Seq(Nat)]]
  <2> SUFFICES ASSUME NEW e \in Present(d), NEW q \in Seq(Nat), e # Root
               PROVE  q \o Tpl(e) \o <<Idx(e)>> \in Seq(Nat)
    OBVIOUS
  <2> HIDE DEF Tpl, Idx
  <2> QED BY <1>1, <1>2
<1>4. PICK f \in [Present(d) -> Seq(Nat)] :
        \A e \in Present(d) :
          f[e] = IF e = Root THEN <<>> ELSE G[e][f[HolderOf(d, e)[2]]]
  <2> DEFINE V == Seq(Nat)
             v0 == <<>>
  <2>1. v0 \in V
    BY EmptySeq
  <2>2. G \in [Present(d) -> [V -> V]]
    BY <1>3
  <2>3. \E f \in [Present(d) -> V] : Recursive(d, v0, G, f)
    <3> HIDE DEF G, V, v0
    <3> QED BY <2>1, <2>2, TreeRecursion
  <2> QED BY <2>3 DEF Recursive
<1>5. f = Body(f)
  <2> SUFFICES ASSUME NEW e \in Present(d) PROVE f[e] = Body(f)[e]
    OBVIOUS
  <2>1. CASE e = Root
    BY <2>1, <1>4
  <2>2. CASE e # Root
    <3>1. f[HolderOf(d, e)[2]] \in Seq(Nat)
      BY <2>2, Stands
    <3> HIDE DEF Tpl, Idx
    <3> QED BY <2>2, <3>1, <1>4
  <2> QED BY <2>1, <2>2
<1>6. PathTo(d, reader) = CHOOSE path : path = Body(path)
  BY DEF PathTo
<1>7. PathTo(d, reader) = Body(PathTo(d, reader))
  <2> HIDE DEF Body
  <2> QED BY <1>5, <1>6
<1> DEFINE P == PathTo(d, reader)
<1> HIDE DEF P
<1>8. /\ P[Root] = <<>>
      /\ \A e \in Present(d) \ {Root} :
           P[e] = P[HolderOf(d, e)[2]] \o Tpl(e) \o <<Idx(e)>>
  BY <1>7, RootPresent DEF P
<1>9. P \in [Present(d) -> Seq(Nat)]
  <2> DEFINE S == {e \in Present(d) : P[e] \in Seq(Nat)}
  <2>1. Root \in S
    <3>1. P[Root] \in Seq(Nat)
      BY <1>8, EmptySeq
    <3> QED BY <3>1, RootPresent
  <2>2. ASSUME NEW e \in Present(d), e # Root, HolderOf(d, e)[2] \in S
        PROVE  e \in S
    <3> DEFINE q == P[HolderOf(d, e)[2]]
    <3>1. q \in Seq(Nat) /\ Tpl(e) \in Seq(Nat) /\ Idx(e) \in Nat
      BY <1>1, <1>2, <2>2
    <3>2. q \o Tpl(e) \o <<Idx(e)>> \in Seq(Nat)
      <4> HIDE DEF q, Tpl, Idx
      <4> QED BY <3>1
    <3>3. P[e] = q \o Tpl(e) \o <<Idx(e)>>
      BY <1>8, <2>2
    <3> QED BY <3>2, <3>3
  <2>3. Present(d) \subseteq S
    <3> HIDE DEF S
    <3> QED BY <2>1, <2>2, TreeInduction
  <2>4. P = [e \in Present(d) |-> P[e]]
    BY <1>7 DEF P
  <2> QED BY <2>3, <2>4
<1>10. ASSUME NEW e \in Present(d), e # Root
       PROVE  P[e] = Append(PlacePath(d, reader, HolderOf(d, e)), Idx(e))
  <2> DEFINE q == P[HolderOf(d, e)[2]]
  <2>1. q \in Seq(Nat) /\ Idx(e) \in Nat
    BY <1>1, <1>9, <1>10, Stands
  <2>2. CASE HolderOf(d, e)[1] = "light"
    <3>1. Tpl(e) = <<>>
      BY <2>2
    <3>2. P[e] = q \o <<>> \o <<Idx(e)>>
      BY <1>8, <1>10, <3>1
    <3>3. P[e] = Append(q, Idx(e))
      <4> HIDE DEF q, Idx
      <4> QED BY <2>1, <3>2
    <3> QED BY <2>2, <3>3 DEF PlacePath, P
  <2>3. CASE HolderOf(d, e)[1] # "light"
    <3>1. Tpl(e) = <<1>>
      BY <2>3, <1>10, Stands, PlaceKinds
    <3>2. P[e] = q \o <<1>> \o <<Idx(e)>>
      BY <1>8, <1>10, <3>1
    <3>3. P[e] = Append(Append(q, 1), Idx(e))
      <4> HIDE DEF q, Idx
      <4> QED BY <2>1, <3>2
    <3> QED BY <2>3, <3>3 DEF PlacePath, P
  <2> QED BY <2>2, <2>3
<1> QED
  BY <1>8, <1>9, <1>10 DEF P

\* The recursive function of Seen exists: the root is seen, and what stands in
\* a place that is.
LEMMA SeenOf ==
  ASSUME NEW d, Tree(d), NEW reader
  PROVE  /\ Seen(d, reader) \subseteq Present(d)
         /\ Root \in Seen(d, reader)
         /\ \A e \in Present(d) \ {Root} :
              e \in Seen(d, reader) <=>
                /\ HolderOf(d, e)[2] \in Seen(d, reader)
                /\ HolderOf(d, e)[1] = "shadow" => HolderOf(d, e)[2] \in RootsOf(reader)
<1> DEFINE Shows(e) == HolderOf(d, e)[1] = "shadow" => HolderOf(d, e)[2] \in RootsOf(reader)
           Body(seen) == [e \in Present(d) |->
                            e = Root \/ (seen[HolderOf(d, e)[2]] /\ Shows(e))]
           G == [e \in Present(d) |-> [b \in BOOLEAN |-> b /\ Shows(e)]]
<1>1. PICK f \in [Present(d) -> BOOLEAN] : Recursive(d, TRUE, G, f)
  <2> DEFINE V == BOOLEAN
             v0 == TRUE
  <2>1. v0 \in V
    OBVIOUS
  <2>2. G \in [Present(d) -> [V -> V]]
    OBVIOUS
  <2>3. \E f \in [Present(d) -> V] : Recursive(d, v0, G, f)
    <3> HIDE DEF G, V, v0
    <3> QED BY <2>1, <2>2, TreeRecursion
  <2> QED BY <2>3
<1>2. f = Body(f)
  <2> SUFFICES ASSUME NEW e \in Present(d)
               PROVE  f[e] = (e = Root \/ (f[HolderOf(d, e)[2]] /\ Shows(e)))
    OBVIOUS
  <2>1. CASE e = Root
    BY <2>1, <1>1 DEF Recursive
  <2>2. CASE e # Root
    <3>1. f[HolderOf(d, e)[2]] \in BOOLEAN
      BY <2>2, Stands
    <3>2. f[e] = G[e][f[HolderOf(d, e)[2]]]
      BY <2>2, <1>1 DEF Recursive
    <3> HIDE DEF Shows
    <3> QED BY <2>2, <3>1, <3>2
  <2> QED BY <2>1, <2>2
<1> DEFINE seen == CHOOSE seen : seen = Body(seen)
<1>3. Seen(d, reader) = {e \in Present(d) : seen[e]}
  BY DEF Seen
<1>4. seen = Body(seen)
  <2> HIDE DEF Body
  <2> QED BY <1>2
<1> HIDE DEF seen
<1>5. seen[Root]
  BY <1>4, RootPresent
<1>6. ASSUME NEW e \in Present(d), e # Root
      PROVE  seen[e] <=> seen[HolderOf(d, e)[2]] /\ Shows(e)
  BY <1>4, <1>6
<1>7. ASSUME NEW e \in Present(d), e # Root
      PROVE  HolderOf(d, e)[2] \in Present(d)
  BY <1>7, Stands
<1> HIDE DEF Body, Shows, G
<1>8. /\ Seen(d, reader) \subseteq Present(d)
      /\ Root \in Seen(d, reader)
  BY <1>3, <1>5, RootPresent
<1>9. ASSUME NEW e \in Present(d), e # Root
      PROVE  e \in Seen(d, reader) <=> HolderOf(d, e)[2] \in Seen(d, reader) /\ Shows(e)
  BY <1>3, <1>6, <1>7, <1>9
<1> QED
  BY <1>8, <1>9 DEF Shows

\* A part of a document that a reader sees: with an element the place it
\* stands in, and no place in a shadow root that is closed to the reader.
Visible(d, reader, W) ==
  /\ W \subseteq Present(d)
  /\ \A e \in W \ {Root} :
       /\ HolderOf(d, e)[2] \in W
       /\ HolderOf(d, e)[1] = "shadow" => HolderOf(d, e)[2] \in RootsOf(reader)

Stations(reader, W) ==
  {p \in Place : p[2] \in W /\ (p[1] = "shadow" => p[2] \in RootsOf(reader))}

LEMMA SeenIsVisible ==
  ASSUME NEW d, Tree(d), NEW reader
  PROVE  Visible(d, reader, Seen(d, reader))
BY SeenOf DEF Visible

\* In the HTML everything is.
LEMMA PresentIsVisible ==
  ASSUME NEW d, Tree(d)
  PROVE  Visible(d, "html", Present(d))
<1> SUFFICES ASSUME NEW e \in Present(d) \ {Root}, HolderOf(d, e)[1] = "shadow"
             PROVE  HolderOf(d, e)[2] \in Host
  BY Stands DEF Visible, RootsOf
<1> QED
  BY Stands, PlaceKinds

\* Where the tag of a place stands, and its number there.
Up(d, p) == IF p[1] = "light" THEN HolderOf(d, p[2]) ELSE Light(p[2])

Number(d, reader, p) ==
  IF p[1] = "light" THEN IndexOf(d, p[2]) + Offset(HolderOf(d, p[2]), reader) ELSE 1

LEMMA PlacePathOf ==
  ASSUME NEW d, Tree(d), NEW reader, NEW W, Visible(d, reader, W),
         NEW p \in Stations(reader, W)
  PROVE  /\ PlacePath(d, reader, p) \in Seq(Nat)
         /\ p = Light(Root) => PlacePath(d, reader, p) = <<>>
         /\ p # Light(Root) =>
              /\ Up(d, p) \in Stations(reader, W)
              /\ Number(d, reader, p) \in Nat
              /\ PlacePath(d, reader, p) =
                   Append(PlacePath(d, reader, Up(d, p)), Number(d, reader, p))
<1>1. p \in Place /\ p[2] \in Present(d) /\ PathTo(d, reader)[p[2]] \in Seq(Nat)
  BY PathOf DEF Stations, Visible
<1>2. PlacePath(d, reader, p) \in Seq(Nat)
  BY <1>1 DEF PlacePath
<1>3. CASE p[1] = "light"
  <2>1. p = Light(p[2])
    BY <1>1, <1>3, PlaceKinds
  <2>2. PlacePath(d, reader, p) = PathTo(d, reader)[p[2]]
    BY <1>3 DEF PlacePath
  <2>3. p = Light(Root) => p[2] = Root
    BY DEF Light
  <2>4. p[2] = Root => PlacePath(d, reader, p) = <<>>
    BY <2>2, PathOf
  <2>5. ASSUME p[2] # Root
        PROVE  /\ Up(d, p) \in Stations(reader, W)
               /\ Number(d, reader, p) \in Nat
               /\ PlacePath(d, reader, p) =
                    Append(PlacePath(d, reader, Up(d, p)), Number(d, reader, p))
    <3>1. Up(d, p) \in Stations(reader, W)
      BY <1>1, <1>3, <2>5, Stands DEF Up, Stations, Visible
    <3>2. Number(d, reader, p) \in Nat
      BY <1>1, <1>3, <2>5, Stands, OffsetIsNat DEF Number
    <3> QED
      BY <1>1, <1>3, <2>2, <2>5, <3>1, <3>2, PathOf DEF Up, Number
  <2> QED
    BY <1>2, <2>1, <2>3, <2>4, <2>5
<1>4. CASE p[1] # "light"
  <2>1. p = Shadow(p[2]) /\ p[2] \in Host
    BY <1>1, <1>4, PlaceKinds
  <2>2. Up(d, p) = Light(p[2]) /\ Number(d, reader, p) = 1
    BY <1>4 DEF Up, Number
  <2>3. Light(p[2]) \in Place /\ Light(p[2])[1] = "light" /\ Light(p[2])[2] = p[2]
    BY <2>1 DEF Place, Light, Element
  <2>4. Light(p[2]) \in Stations(reader, W)
    BY <2>3 DEF Stations
  <2>5. PlacePath(d, reader, p) = Append(PlacePath(d, reader, Light(p[2])), 1)
    BY <1>4, <2>3 DEF PlacePath
  <2>6. p # Light(Root)
    BY <1>4 DEF Light
  <2> QED
    BY <1>2, <2>2, <2>4, <2>5, <2>6
<1> QED
  BY <1>3, <1>4

\* A place is known by where its tag stands and its number there: the
\* <template> has the number 1, which no child of its host has.
LEMMA NumbersApart ==
  ASSUME NEW d, Tree(d), NEW reader, NEW W, Visible(d, reader, W),
         NEW p \in Stations(reader, W), NEW q \in Stations(reader, W),
         p # Light(Root), q # Light(Root),
         Up(d, p) = Up(d, q), Number(d, reader, p) = Number(d, reader, q)
  PROVE  p = q
<1>1. p \in Place /\ q \in Place /\ p[2] \in Present(d) /\ q[2] \in Present(d)
  BY DEF Stations, Visible
<1>2. CASE p[1] = "light" /\ q[1] = "light"
  <2>1. p = Light(p[2]) /\ q = Light(q[2]) /\ p[2] # Root /\ q[2] # Root
    BY <1>1, <1>2, PlaceKinds
  <2>2. HolderOf(d, p[2]) = HolderOf(d, q[2])
    BY <1>2 DEF Up
  <2>3. IndexOf(d, p[2]) \in Nat /\ IndexOf(d, q[2]) \in Nat
    BY <1>1, <2>1, Stands
  <2>4. IndexOf(d, p[2]) = IndexOf(d, q[2])
    BY <1>2, <2>2, <2>3, OffsetIsNat DEF Number
  <2>5. p[2] = q[2]
    BY <1>1, <2>1, <2>2, <2>4, Stands
  <2> QED BY <2>1, <2>5
<1>3. ASSUME NEW l \in Stations(reader, W), NEW s \in Stations(reader, W),
             l[1] = "light", s[1] # "light", l # Light(Root),
             Up(d, l) = Up(d, s), Number(d, reader, l) = Number(d, reader, s)
      PROVE  FALSE
  <2>1. l \in Place /\ s \in Place /\ l[2] \in Present(d)
    BY DEF Stations, Visible
  <2>2. s[1] = "shadow" /\ s[2] \in RootsOf(reader)
    BY <1>3, <2>1, PlaceKinds DEF Stations
  <2>3. l = Light(l[2]) /\ l[2] # Root
    BY <1>3, <2>1, PlaceKinds
  <2>4. HolderOf(d, l[2]) = Light(s[2])
    BY <1>3 DEF Up
  <2>5. Offset(HolderOf(d, l[2]), reader) = 1
    BY <2>2, <2>4 DEF Offset, Light
  <2>6. IndexOf(d, l[2]) \in Nat \ {0}
    BY <2>1, <2>3, Stands
  <2>7. IndexOf(d, l[2]) + 1 = 1
    BY <1>3, <2>5 DEF Number
  <2> QED BY <2>6, <2>7
<1>4. CASE p[1] # "light" /\ q[1] # "light"
  <2>1. p = Shadow(p[2]) /\ q = Shadow(q[2])
    BY <1>1, <1>4, PlaceKinds
  <2>2. Light(p[2]) = Light(q[2])
    BY <1>4 DEF Up
  <2>3. p[2] = q[2]
    BY <2>2 DEF Light
  <2> QED BY <2>1, <2>3
<1> QED
  BY <1>2, <1>3, <1>4

\* Two places have different paths.
LEMMA PathsApart ==
  ASSUME NEW d, Tree(d), NEW reader, NEW W, Visible(d, reader, W)
  PROVE  \A p, q \in Stations(reader, W) :
           PlacePath(d, reader, p) = PlacePath(d, reader, q) => p = q
<1> DEFINE Q(p) == PlacePath(d, reader, p)
           Clash(p, q) == Q(p) = Q(q) /\ p # q
           Places == Stations(reader, W)
           Bad == {n \in Nat : \E p, q \in Places : Clash(p, q) /\ Len(Q(p)) = n}
<1>1. \A p \in Places : Q(p) \in Seq(Nat) /\ Len(Q(p)) \in Nat
  BY PlacePathOf, LenProperties
<1>2. SUFFICES ASSUME Bad # {} PROVE FALSE
  BY <1>1
<1>3. PICK n \in Bad : \A m \in Bad : n <= m
  <2>1. Bad \in SUBSET Nat
    OBVIOUS
  <2> HIDE DEF Bad
  <2> QED BY <2>1, <1>2, LeastNat
<1>4. PICK p \in Places, q \in Places : Clash(p, q) /\ Len(Q(p)) = n
  BY <1>3
<1>5. ASSUME NEW r \in Places
      PROVE  /\ r = Light(Root) => Q(r) = <<>>
             /\ r # Light(Root) =>
                  /\ Up(d, r) \in Places /\ Number(d, reader, r) \in Nat
                  /\ Q(r) = Append(Q(Up(d, r)), Number(d, reader, r))
                  /\ Len(Q(r)) = Len(Q(Up(d, r))) + 1
  <2>1. /\ r = Light(Root) => Q(r) = <<>>
        /\ r # Light(Root) =>
             /\ Up(d, r) \in Places /\ Number(d, reader, r) \in Nat
             /\ Q(r) = Append(Q(Up(d, r)), Number(d, reader, r))
    BY PlacePathOf
  <2> HIDE DEF Q, Places
  <2> QED BY <1>1, <2>1, AppendProperties
<1> HIDE DEF Q, Places, Bad
<1>6. p # Light(Root) /\ q # Light(Root)
  <2>1. Len(Q(p)) = Len(Q(q)) /\ p # q /\ Len(<<>>) = 0
    BY <1>4
  <2>2. \A r \in Places : r # Light(Root) => Len(Q(r)) # 0
    BY <1>1, <1>5
  <2> QED BY <1>5, <2>1, <2>2
<1>7. /\ Up(d, p) \in Places /\ Number(d, reader, p) \in Nat
      /\ Q(p) = Append(Q(Up(d, p)), Number(d, reader, p))
  BY <1>5, <1>6
<1>8. /\ Up(d, q) \in Places /\ Number(d, reader, q) \in Nat
      /\ Q(q) = Append(Q(Up(d, q)), Number(d, reader, q))
  BY <1>5, <1>6
<1>9. Q(Up(d, p)) = Q(Up(d, q)) /\ Number(d, reader, p) = Number(d, reader, q)
  <2> HIDE DEF Q
  <2>1. Append(Q(Up(d, p)), Number(d, reader, p)) = Append(Q(Up(d, q)), Number(d, reader, q))
    BY <1>4, <1>7, <1>8
  <2>2. \A s, t \in Seq(Nat), i, j \in Nat :
          Append(s, i) = Append(t, j) => s = t /\ i = j
    BY AppendInjective
  <2>3. Q(Up(d, p)) \in Seq(Nat) /\ Q(Up(d, q)) \in Seq(Nat)
    BY <1>1, <1>7, <1>8
  <2> QED BY <2>1, <2>2, <2>3, <1>7, <1>8
<1>10. Up(d, p) = Up(d, q)
  <2>1. Len(Q(Up(d, p))) \in Nat /\ n = Len(Q(Up(d, p))) + 1
    BY <1>1, <1>4, <1>5, <1>6, <1>7
  <2>2. Len(Q(Up(d, p))) \notin Bad
    BY <2>1, <1>3
  <2> QED BY <1>7, <1>8, <1>9, <2>1, <2>2 DEF Bad
<1>11. p = q
  BY <1>6, <1>9, <1>10, NumbersApart DEF Places
<1> QED
  BY <1>4, <1>11

----------------------------------------------------------------------------
(* Keys                                                                    *)

LEMMA FrontOfAppend ==
  ASSUME NEW q \in Seq(Nat), NEW n \in Nat
  PROVE  Front(Append(q, n)) = q
BY DEF Front

\* Two styles that a reader sees have different keys: what they stand in has
\* different paths or, if they stand in the same place, one of them is after
\* the other.
LEMMA KeysApart ==
  ASSUME NEW d, Tree(d), NEW reader, NEW W, Visible(d, reader, W),
         NEW s \in W \cap Style, NEW t \in W \cap Style,
         Key(d, reader, s) = Key(d, reader, t)
  PROVE  s = t
<1> DEFINE Upto(u) == {v \in Style : /\ Holds(d, HolderOf(d, u), v)
                                     /\ IndexOf(d, v) <= IndexOf(d, u)}
<1>1. ASSUME NEW u \in W \cap Style
      PROVE  /\ u \in Present(d) /\ u # Root
             /\ HolderOf(d, u) \in Stations(reader, W)
             /\ IndexOf(d, u) \in Nat
             /\ Holds(d, HolderOf(d, u), u)
             /\ Key(d, reader, u) = <<PlacePath(d, reader, HolderOf(d, u)), Cardinality(Upto(u))>>
  <2>1. u \in Present(d) /\ u # Root
    BY FoldAssumption DEF Visible
  <2>2. HolderOf(d, u) \in Place /\ IndexOf(d, u) \in Nat \ {0}
    BY <2>1, Stands
  <2>3. HolderOf(d, u) \in Stations(reader, W)
    BY <2>1, <2>2 DEF Visible, Stations
  <2>4. Holds(d, HolderOf(d, u), u)
    <3>1. /\ IndexOf(d, u) \in DOMAIN d[HolderOf(d, u)]
          /\ d[HolderOf(d, u)][IndexOf(d, u)] = u
      BY <2>1, Stands
    <3>2. IndexOf(d, u) \in 1..Len(d[HolderOf(d, u)])
      BY <2>2, <3>1, Standing
    <3> QED BY <3>1, <3>2 DEF Holds, Contains
  <2>5. /\ PlacePath(d, reader, HolderOf(d, u)) \in Seq(Nat)
        /\ IndexOf(d, u) + Offset(HolderOf(d, u), reader) \in Nat
    BY <2>2, <2>3, PlacePathOf, OffsetIsNat
  <2>6. Front(PathTo(d, reader)[u]) = PlacePath(d, reader, HolderOf(d, u))
    <3>1. PathTo(d, reader)[u] = Append(PlacePath(d, reader, HolderOf(d, u)),
                                        IndexOf(d, u) + Offset(HolderOf(d, u), reader))
      BY <2>1, PathOf
    <3> QED BY <2>5, <3>1, FrontOfAppend
  <2> QED
    BY <2>1, <2>2, <2>3, <2>4, <2>6 DEF Key
<1>2. PlacePath(d, reader, HolderOf(d, s)) = PlacePath(d, reader, HolderOf(d, t))
      /\ Cardinality(Upto(s)) = Cardinality(Upto(t))
  <2> HIDE DEF Upto
  <2> QED BY <1>1
<1>3. HolderOf(d, s) = HolderOf(d, t)
  BY <1>1, <1>2, PathsApart
<1>4. ASSUME NEW u \in W \cap Style, NEW v \in W \cap Style,
             HolderOf(d, u) = HolderOf(d, v), IndexOf(d, u) < IndexOf(d, v)
      PROVE  Cardinality(Upto(u)) # Cardinality(Upto(v))
  <2>1. IndexOf(d, u) \in Nat /\ IndexOf(d, v) \in Nat /\ HolderOf(d, u) \in Place
    BY <1>1 DEF Stations
  <2>2. ASSUME NEW w \in Style, Holds(d, HolderOf(d, u), w)
        PROVE  w \in Present(d) /\ IndexOf(d, w) \in Nat
    <3>1. PICK i \in 1..Len(d[HolderOf(d, u)]) : d[HolderOf(d, u)][i] = w
      BY <2>2 DEF Holds, Contains
    <3>2. i \in DOMAIN d[HolderOf(d, u)]
      <4>1. d[HolderOf(d, u)] \in Seq(Element \ {Root})
        BY <2>1 DEF Tree
      <4> QED BY <4>1, LenProperties
    <3> QED BY <2>1, <3>1, <3>2, Standing
  <2>3. Upto(u) \subseteq Upto(v)
    BY <1>4, <2>1, <2>2
  <2>4. v \in Upto(v) /\ v \notin Upto(u)
    <3>1. IndexOf(d, v) <= IndexOf(d, v) /\ ~ (IndexOf(d, v) <= IndexOf(d, u))
      BY <1>4, <2>1
    <3>2. Holds(d, HolderOf(d, v), v)
      BY <1>1
    <3> QED BY <3>1, <3>2
  <2>5. IsFiniteSet(Upto(v))
    <3>1. Upto(v) \subseteq Present(d)
      BY <1>4, <2>2
    <3>2. IsFiniteSet(Present(d))
      BY DEF Tree
    <3> HIDE DEF Upto
    <3> QED BY <3>1, <3>2, FS_Subset
  <2> HIDE DEF Upto
  <2> QED BY <2>3, <2>4, <2>5, FS_Subset
<1>5. IndexOf(d, s) = IndexOf(d, t)
  <2> HIDE DEF Upto
  <2>1. ~ (IndexOf(d, s) < IndexOf(d, t))
    BY <1>2, <1>3, <1>4
  <2>2. ~ (IndexOf(d, t) < IndexOf(d, s))
    BY <1>2, <1>3, <1>4
  <2>3. IndexOf(d, s) \in Nat /\ IndexOf(d, t) \in Nat
    BY <1>1
  <2> QED BY <2>1, <2>2, <2>3
<1>6. \A u \in {s, t} : d[HolderOf(d, u)][IndexOf(d, u)] = u
  BY <1>1, Stands
<1> QED
  BY <1>3, <1>5, <1>6

----------------------------------------------------------------------------
(* Document order                                                          *)

LEMMA SubSeqsAgree ==
  ASSUME NEW p \in Seq(Nat), NEW q \in Seq(Nat),
         NEW k \in Nat, k <= Len(p), k <= Len(q)
  PROVE  SubSeq(p, 1, k) = SubSeq(q, 1, k) <=> \A i \in 1..k : p[i] = q[i]
OBVIOUS

LEMMA PathsEqual ==
  ASSUME NEW p \in Seq(Nat), NEW q \in Seq(Nat), Len(p) = Len(q),
         \A i \in 1..Len(p) : p[i] = q[i]
  PROVE  p = q
OBVIOUS

\* Before, index by index.
LEMMA BeforeMeans ==
  ASSUME NEW p \in Seq(Nat), NEW q \in Seq(Nat)
  PROVE  Before(p, q) <=>
           \/ Len(p) < Len(q) /\ \A i \in 1..Len(p) : p[i] = q[i]
           \/ \E k \in Nat \ {0} : /\ k <= Len(p) /\ k <= Len(q)
                                   /\ \A i \in 1..(k - 1) : p[i] = q[i]
                                   /\ p[k] < q[k]
<1>1. Len(p) \in Nat /\ Len(q) \in Nat
  BY LenProperties
<1>2. IsStrictPrefix(p, q) <=> Len(p) < Len(q) /\ \A i \in 1..Len(p) : p[i] = q[i]
  <2>1. ASSUME Len(p) <= Len(q)
        PROVE  SubSeq(p, 1, Len(p)) = SubSeq(q, 1, Len(p)) <=> \A i \in 1..Len(p) : p[i] = q[i]
    <3>1. Len(p) \in Nat /\ Len(p) <= Len(p)
      BY <1>1
    <3> QED BY <2>1, <3>1, SubSeqsAgree, Zenon
  <2>2. ASSUME Len(p) = Len(q), \A i \in 1..Len(p) : p[i] = q[i]
        PROVE  p = q
    BY <2>2, PathsEqual, Zenon
  <2> QED
    BY <1>1, <2>1, <2>2 DEF IsStrictPrefix, IsPrefix
<1>3. ASSUME NEW k \in Nat \ {0}, k <= Len(p), k <= Len(q)
      PROVE  SubSeq(p, 1, k - 1) = SubSeq(q, 1, k - 1) <=> \A i \in 1..(k - 1) : p[i] = q[i]
  <2>1. k - 1 \in Nat /\ k - 1 <= Len(p) /\ k - 1 <= Len(q)
    BY <1>1, <1>3
  <2> QED BY <2>1, SubSeqsAgree
<1>4. \A k : k \in (1..Len(p)) \cap (1..Len(q)) <=> k \in Nat \ {0} /\ k <= Len(p) /\ k <= Len(q)
  BY <1>1
<1> QED
  BY <1>2, <1>3, <1>4 DEF Before

LEMMA BeforeIrreflexive ==
  ASSUME NEW p \in Seq(Nat)
  PROVE  ~ Before(p, p)
<1>1. Len(p) \in Nat /\ \A i \in 1..Len(p) : p[i] \in Nat
  BY LenProperties, ElementOfSeq
<1> QED
  BY <1>1, BeforeMeans

LEMMA BeforeTransitive ==
  ASSUME NEW p \in Seq(Nat), NEW q \in Seq(Nat), NEW r \in Seq(Nat),
         Before(p, q), Before(q, r)
  PROVE  Before(p, r)
<1>1. /\ Len(p) \in Nat /\ Len(q) \in Nat /\ Len(r) \in Nat
      /\ \A i \in 1..Len(p) : p[i] \in Nat
      /\ \A i \in 1..Len(q) : q[i] \in Nat
      /\ \A i \in 1..Len(r) : r[i] \in Nat
  BY LenProperties, ElementOfSeq
<1>2. CASE Len(p) < Len(q) /\ \A i \in 1..Len(p) : p[i] = q[i]
  <2>1. CASE Len(q) < Len(r) /\ \A i \in 1..Len(q) : q[i] = r[i]
    <3>1. Len(p) < Len(r) /\ \A i \in 1..Len(p) : p[i] = r[i]
      BY <1>1, <1>2, <2>1
    <3> QED BY <3>1, BeforeMeans
  <2>2. ASSUME NEW k \in Nat \ {0}, k <= Len(q), k <= Len(r),
               \A i \in 1..(k - 1) : q[i] = r[i], q[k] < r[k]
        PROVE  Before(p, r)
    <3>1. CASE k <= Len(p)
      <4>1. (\A i \in 1..(k - 1) : p[i] = r[i]) /\ p[k] < r[k]
        BY <1>1, <1>2, <2>2, <3>1
      <4> QED BY <2>2, <3>1, <4>1, BeforeMeans
    <3>2. CASE Len(p) < k
      <4>1. Len(p) < Len(r) /\ \A i \in 1..Len(p) : p[i] = r[i]
        BY <1>1, <1>2, <2>2, <3>2
      <4> QED BY <4>1, BeforeMeans
    <3> QED BY <1>1, <3>1, <3>2
  <2> QED BY <2>1, <2>2, BeforeMeans
<1>3. ASSUME NEW j \in Nat \ {0}, j <= Len(p), j <= Len(q),
             \A i \in 1..(j - 1) : p[i] = q[i], p[j] < q[j]
      PROVE  Before(p, r)
  <2>1. CASE Len(q) < Len(r) /\ \A i \in 1..Len(q) : q[i] = r[i]
    <3>1. j <= Len(r) /\ j \in 1..Len(q)
      BY <1>1, <1>3, <2>1
    <3>2. ASSUME NEW i \in 1..(j - 1) PROVE p[i] = r[i]
      <4>1. i \in 1..Len(q)
        BY <1>1, <1>3
      <4> QED BY <1>3, <2>1, <4>1
    <3>3. p[j] < r[j]
      BY <1>3, <2>1, <3>1
    <3> QED BY <1>3, <3>1, <3>2, <3>3, BeforeMeans
  <2>2. ASSUME NEW k \in Nat \ {0}, k <= Len(q), k <= Len(r),
               \A i \in 1..(k - 1) : q[i] = r[i], q[k] < r[k]
        PROVE  Before(p, r)
    <3>1. CASE j <= k
      <4>1. j <= Len(r) /\ (\A i \in 1..(j - 1) : p[i] = r[i]) /\ p[j] < r[j]
        <5>1. j < k => q[j] = r[j]
          BY <2>2
        <5>2. j = k => q[j] < r[j]
          BY <2>2
        <5>3. j \in 1..Len(p) /\ j \in 1..Len(q) /\ j \in 1..Len(r)
          BY <1>1, <1>3, <2>2, <3>1
        <5>4. p[j] < r[j]
          <6>1. p[j] \in Nat /\ q[j] \in Nat /\ r[j] \in Nat
            BY <1>1, <5>3
          <6>2. p[j] < q[j] /\ (j < k \/ j = k)
            BY <1>3, <3>1
          <6>3. CASE j < k
            BY <5>1, <6>1, <6>2, <6>3
          <6>4. CASE j = k
            BY <5>2, <6>1, <6>2, <6>4
          <6> QED BY <6>2, <6>3, <6>4
        <5>5. ASSUME NEW i \in 1..(j - 1) PROVE p[i] = r[i]
          <6>1. i \in 1..(k - 1)
            BY <3>1
          <6> QED BY <1>3, <2>2, <6>1
        <5> QED BY <5>3, <5>4, <5>5
      <4> QED BY <1>3, <4>1, BeforeMeans
    <3>2. CASE k < j
      <4>1. k <= Len(p) /\ (\A i \in 1..(k - 1) : p[i] = r[i]) /\ p[k] < r[k]
        <5>1. k <= Len(p) /\ p[k] = q[k]
          BY <1>1, <1>3, <3>2
        <5>2. ASSUME NEW i \in 1..(k - 1) PROVE p[i] = r[i]
          <6>1. i \in 1..(j - 1)
            BY <3>2
          <6> QED BY <1>3, <2>2, <6>1
        <5> QED BY <2>2, <5>1, <5>2
      <4> QED BY <2>2, <4>1, BeforeMeans
    <3> QED BY <3>1, <3>2
  <2> QED BY <2>1, <2>2, BeforeMeans
<1> QED
  BY <1>2, <1>3, BeforeMeans

LEMMA BeforeTotal ==
  ASSUME NEW p \in Seq(Nat), NEW q \in Seq(Nat), p # q
  PROVE  Before(p, q) \/ Before(q, p)
<1>1. /\ Len(p) \in Nat /\ Len(q) \in Nat
      /\ \A i \in 1..Len(p) : p[i] \in Nat
      /\ \A i \in 1..Len(q) : q[i] \in Nat
  BY LenProperties, ElementOfSeq
<1> DEFINE D == {i \in Nat \ {0} : i <= Len(p) /\ i <= Len(q) /\ p[i] # q[i]}
<1>2. CASE D = {}
  <2>1. \A i \in Nat \ {0} : i <= Len(p) /\ i <= Len(q) => p[i] = q[i]
    BY <1>2
  <2>2. CASE Len(p) = Len(q)
    <3>1. p = q
      <4>1. \A i \in 1..Len(p) : p[i] = q[i]
        BY <1>1, <2>1, <2>2
      <4> QED BY <2>2, <4>1, PathsEqual, Zenon
    <3> QED BY <3>1
  <2>3. CASE Len(p) < Len(q)
    <3>1. \A i \in 1..Len(p) : p[i] = q[i]
      BY <1>1, <2>1, <2>3
    <3> QED BY <2>3, <3>1, BeforeMeans
  <2>4. CASE Len(q) < Len(p)
    <3>1. \A i \in 1..Len(q) : q[i] = p[i]
      BY <1>1, <2>1, <2>4
    <3> QED BY <2>4, <3>1, BeforeMeans
  <2> QED BY <1>1, <2>2, <2>3, <2>4
<1>3. CASE D # {}
  <2>1. PICK k \in D : \A m \in D : k <= m
    <3>1. D \in SUBSET Nat
      OBVIOUS
    <3> HIDE DEF D
    <3> QED BY <1>3, <3>1, LeastNat
  <2>2. \A i \in 1..(k - 1) : p[i] = q[i]
    <3> SUFFICES ASSUME NEW i \in 1..(k - 1), p[i] # q[i] PROVE FALSE
      OBVIOUS
    <3>1. k \in Nat \ {0} /\ k <= Len(p) /\ k <= Len(q)
      BY <2>1
    <3>2. i \in Nat \ {0} /\ i <= Len(p) /\ i <= Len(q) /\ ~ (k <= i)
      <4>1. Len(p) \in Nat /\ Len(q) \in Nat
        BY <1>1
      <4> HIDE DEF D
      <4> QED BY <3>1, <4>1
    <3>3. i \in D
      BY <3>2
    <3> HIDE DEF D
    <3> QED BY <2>1, <3>2, <3>3
  <2>3. k \in Nat \ {0} /\ k <= Len(p) /\ k <= Len(q) /\ p[k] \in Nat /\ q[k] \in Nat
        /\ (p[k] < q[k] \/ q[k] < p[k])
    BY <1>1, <2>1
  <2> QED BY <2>2, <2>3, BeforeMeans
<1> QED
  BY <1>2, <1>3

\* A finite set in a strict total order can be listed in that order.
LEMMA Listing ==
  ASSUME NEW S, IsFiniteSet(S), NEW R,
         \A s \in S : <<s, s>> \notin R,
         \A s, t, u \in S : <<s, t>> \in R /\ <<t, u>> \in R => <<s, u>> \in R,
         \A s, t \in S : s # t => <<s, t>> \in R \/ <<t, s>> \in R
  PROVE  \E f \in [1..Cardinality(S) -> S] :
           \A i, j \in 1..Cardinality(S) : i < j => <<f[i], f[j]>> \in R
<1> DEFINE n == Cardinality(S)
           Below(s) == {t \in S : <<t, s>> \in R}
           pos == [s \in S |-> Cardinality(Below(s)) + 1]
<1>1. n \in Nat
  BY FS_CardinalityType
<1>2. ASSUME NEW s \in S
      PROVE  IsFiniteSet(Below(s)) /\ Cardinality(Below(s)) \in Nat
             /\ Cardinality(Below(s)) < n
  <2>1. Below(s) \subseteq S /\ s \notin Below(s)
    OBVIOUS
  <2> HIDE DEF Below
  <2>2. IsFiniteSet(Below(s)) /\ Cardinality(Below(s)) <= n /\ Cardinality(Below(s)) # n
    BY <2>1, FS_Subset
  <2>3. Cardinality(Below(s)) \in Nat
    BY <2>2, FS_CardinalityType
  <2> QED BY <1>1, <2>2, <2>3
<1>3. pos \in [S -> 1..n]
  <2>1. ASSUME NEW s \in S PROVE Cardinality(Below(s)) + 1 \in 1..n
    <3> HIDE DEF n, Below
    <3> QED BY <1>1, <1>2
  <2> HIDE DEF Below
  <2> QED BY <2>1
<1>4. ASSUME NEW s \in S, NEW t \in S, <<s, t>> \in R
      PROVE  pos[s] < pos[t]
  <2>1. Below(s) \subseteq Below(t) /\ s \in Below(t) /\ s \notin Below(s)
    BY <1>4
  <2> HIDE DEF Below
  <2>3. Cardinality(Below(s)) <= Cardinality(Below(t)) /\ Cardinality(Below(s)) # Cardinality(Below(t))
    BY <1>2, <2>1, FS_Subset
  <2> QED BY <1>2, <2>3
<1> HIDE DEF pos
<1>5. \A s, t \in S : pos[s] = pos[t] => s = t
  <2> SUFFICES ASSUME NEW s \in S, NEW t \in S, pos[s] = pos[t], s # t PROVE FALSE
    OBVIOUS
  <2>1. pos[s] \in Nat /\ pos[t] \in Nat
    BY <1>1, <1>3
  <2>2. pos[s] < pos[t] \/ pos[t] < pos[s]
    BY <1>4
  <2> QED BY <2>1, <2>2
<1>6. \A i \in 1..n : \E s \in S : pos[s] = i
  <2>1. pos \in Injection(S, 1..n)
    BY <1>3, <1>5 DEF Injection, IsInjective
  <2>2. IsFiniteSet(1..n) /\ Cardinality(1..n) = n
    BY <1>1, FS_Interval
  <2>3. pos \in Surjection(S, 1..n)
    <3> DEFINE T == 1..n
    <3>1. pos \in Injection(S, T) /\ IsFiniteSet(T) /\ Cardinality(S) = Cardinality(T)
      BY <2>1, <2>2
    <3>2. pos \in Surjection(S, T)
      <4> HIDE DEF T, n
      <4> QED BY <3>1, FS_Injection
    <3> QED BY <3>2
  <2> QED BY <2>3 DEF Surjection
<1> DEFINE f == [i \in 1..n |-> CHOOSE s \in S : pos[s] = i]
<1>7. f \in [1..n -> S] /\ \A i \in 1..n : pos[f[i]] = i
  BY <1>6
<1> HIDE DEF f
<1>8. ASSUME NEW i \in 1..n, NEW j \in 1..n, i < j
      PROVE  <<f[i], f[j]>> \in R
  <2>1. f[i] \in S /\ f[j] \in S /\ pos[f[i]] = i /\ pos[f[j]] = j
    BY <1>7
  <2>2. f[i] # f[j]
    BY <1>8, <2>1
  <2>3. <<f[j], f[i]>> \notin R
    <3> SUFFICES ASSUME <<f[j], f[i]>> \in R PROVE FALSE
      OBVIOUS
    <3>1. j < i
      BY <1>4, <2>1
    <3> QED BY <1>1, <1>8, <3>1
  <2> QED BY <2>1, <2>2, <2>3
<1> QED
  BY <1>7, <1>8

\* Styles of different paths, as those that a reader sees have them, and the
\* list that StylesInOrder chooses: all of them, each once.
LEMMA StylesListed ==
  ASSUME NEW d, Tree(d), NEW reader
  PROVE  /\ \A i \in DOMAIN StylesInOrder(d, reader) :
              StylesInOrder(d, reader)[i] \in Seen(d, reader)
         /\ \A s \in Style : s \in Seen(d, reader) =>
              \E i \in DOMAIN StylesInOrder(d, reader) : StylesInOrder(d, reader)[i] = s
<1> DEFINE styles == Seen(d, reader) \cap Style
           path == PathTo(d, reader)
           n == Cardinality(styles)
           InOrder(f) == \A i, j \in DOMAIN f : i < j => Before(path[f[i]], path[f[j]])
           R == {x \in styles \X styles : Before(path[x[1]], path[x[2]])}
<1>1. IsFiniteSet(styles) /\ n \in Nat
  <2>1. styles \subseteq Present(d) /\ IsFiniteSet(Present(d))
    BY SeenOf DEF Tree
  <2> HIDE DEF styles
  <2> QED BY <2>1, FS_Subset, FS_CardinalityType
<1>2. \A s \in styles : path[s] \in Seq(Nat)
  BY SeenOf, PathOf
<1>3. ASSUME NEW s \in styles, NEW t \in styles, path[s] = path[t]
      PROVE  s = t
  <2>1. /\ Light(s) \in Stations(reader, Seen(d, reader))
        /\ Light(t) \in Stations(reader, Seen(d, reader))
    BY DEF Stations, Place, Light, Element
  <2>2. PlacePath(d, reader, Light(s)) = PlacePath(d, reader, Light(t))
    BY <1>3 DEF PlacePath, Light
  <2>3. Light(s) = Light(t)
    BY <2>1, <2>2, SeenIsVisible, PathsApart
  <2> QED BY <2>3 DEF Light
<1>4. \A s, t \in styles : <<s, t>> \in R <=> Before(path[s], path[t])
  OBVIOUS
<1>5. \E f \in [1..n -> styles] : InOrder(f)
  <2>1. \A s \in styles : <<s, s>> \notin R
    BY <1>2, <1>4, BeforeIrreflexive
  <2>2. \A s, t, u \in styles : <<s, t>> \in R /\ <<t, u>> \in R => <<s, u>> \in R
    <3> HIDE DEF styles, path, R
    <3> QED BY <1>2, <1>4, BeforeTransitive
  <2>3. \A s, t \in styles : s # t => <<s, t>> \in R \/ <<t, s>> \in R
    <3> HIDE DEF styles, path, R
    <3> QED BY <1>2, <1>3, <1>4, BeforeTotal
  <2>4. \E f \in [1..Cardinality(styles) -> styles] :
          \A i, j \in 1..Cardinality(styles) : i < j => <<f[i], f[j]>> \in R
    <3> HIDE DEF styles, R
    <3> QED BY <1>1, <2>1, <2>2, <2>3, Listing
  <2>5. PICK f \in [1..n -> styles] : \A i, j \in 1..n : i < j => <<f[i], f[j]>> \in R
    BY <2>4
  <2>6. InOrder(f)
    <3> HIDE DEF styles, R, path
    <3> QED BY <1>4, <2>5
  <2> QED BY <2>6
<1> DEFINE order == StylesInOrder(d, reader)
<1>6. order \in [1..n -> styles] /\ InOrder(order)
  <2>1. order = CHOOSE f \in [1..n -> styles] : InOrder(f)
    BY DEF StylesInOrder
  <2> HIDE DEF styles, n, InOrder, order
  <2> QED BY <1>5, <2>1
<1> HIDE DEF styles, path, order
<1>7. \A i, j \in 1..n : order[i] = order[j] => i = j
  <2> SUFFICES ASSUME NEW i \in 1..n, NEW j \in 1..n, order[i] = order[j], i < j
               PROVE  FALSE
    BY <1>1
  <2>1. Before(path[order[i]], path[order[j]])
    BY <1>6
  <2> QED BY <1>2, <1>6, <2>1, BeforeIrreflexive
<1>8. \A s \in styles : \E i \in 1..n : order[i] = s
  <2> DEFINE T == 1..n
  <2>1. order \in Injection(T, styles)
    BY <1>6, <1>7 DEF Injection, IsInjective
  <2>2. IsFiniteSet(T) /\ Cardinality(T) = n
    BY <1>1, FS_Interval
  <2>3. order \in Surjection(T, styles)
    <3> HIDE DEF T
    <3> QED BY <1>1, <2>1, <2>2, FS_Injection
  <2> QED BY <2>3 DEF Surjection
<1> QED
  BY <1>6, <1>8 DEF styles, order

----------------------------------------------------------------------------
(* The page changes                                                        *)

LEMMA InsertAtProperties ==
  ASSUME NEW V, NEW s \in Seq(V), NEW e \in V, NEW i \in 1..(Len(s) + 1)
  PROVE  /\ InsertAt(s, i, e) \in Seq(V)
         /\ Len(InsertAt(s, i, e)) = Len(s) + 1
         /\ \A j \in 1..(Len(s) + 1) :
              InsertAt(s, i, e)[j] = IF j < i THEN s[j]
                                     ELSE IF j = i THEN e ELSE s[j - 1]
<1> DEFINE a == SubSeq(s, 1, i - 1)
           b == SubSeq(s, i, Len(s))
           c == Append(a, e)
<1>1. a \in Seq(V) /\ Len(a) = i - 1 /\ \A j \in 1..(i - 1) : a[j] = s[j]
  OBVIOUS
<1>2. b \in Seq(V) /\ Len(b) = Len(s) - i + 1 /\ \A j \in 1..(Len(s) - i + 1) : b[j] = s[i + j - 1]
  OBVIOUS
<1>3. InsertAt(s, i, e) = (a \o <<e>>) \o b
  BY DEF InsertAt
<1> HIDE DEF a, b
<1>4. /\ (a \o <<e>>) \o b \in Seq(V)
      /\ Len((a \o <<e>>) \o b) = Len(s) + 1
  BY <1>1, <1>2
<1>5. ASSUME NEW j \in 1..(Len(s) + 1)
      PROVE  ((a \o <<e>>) \o b)[j] = IF j < i THEN s[j] ELSE IF j = i THEN e ELSE s[j - 1]
  <2>1. CASE j < i
    <3>1. b \in Seq(V) /\ j \in 1..(i - 1) /\ j # i
      BY <1>2, <2>1
    <3> QED BY <1>1, <2>1, <3>1
  <2>2. CASE j = i
    BY <1>1, <1>2, <2>2
  <2>3. CASE i < j
    <3>1. j - i \in 1..(Len(s) - i + 1) /\ i + (j - i) - 1 = j - 1
      BY <2>3
    <3>2. ((a \o <<e>>) \o b)[j] = b[j - i]
      BY <1>1, <1>2, <2>3
    <3>3. b[j - i] = s[j - 1]
      BY <1>2, <3>1
    <3>4. ~ (j < i) /\ j # i
      BY <2>3
    <3> QED BY <3>2, <3>3, <3>4, Zenon
  <2>4. j < i \/ j = i \/ i < j
    OBVIOUS
  <2> QED BY <2>1, <2>2, <2>3, <2>4, Zenon
<1> QED BY <1>3, <1>4, <1>5

LEMMA RemoveAtProperties ==
  ASSUME NEW V, NEW s \in Seq(V), NEW i \in 1..Len(s)
  PROVE  /\ RemoveAt(s, i) \in Seq(V)
         /\ Len(RemoveAt(s, i)) = Len(s) - 1
         /\ \A j \in 1..(Len(s) - 1) :
              RemoveAt(s, i)[j] = IF j < i THEN s[j] ELSE s[j + 1]
<1> DEFINE a == SubSeq(s, 1, i - 1)
           b == SubSeq(s, i + 1, Len(s))
<1>1. a \in Seq(V) /\ Len(a) = i - 1 /\ \A j \in 1..(i - 1) : a[j] = s[j]
  OBVIOUS
<1>2. b \in Seq(V) /\ Len(b) = Len(s) - i /\ \A j \in 1..(Len(s) - i) : b[j] = s[i + j]
  OBVIOUS
<1>3. RemoveAt(s, i) = a \o b
  BY DEF RemoveAt
<1> HIDE DEF a, b
<1>4. a \o b \in Seq(V) /\ Len(a \o b) = Len(s) - 1
  <2>1. a \o b \in Seq(V)
    BY <1>1, <1>2
  <2>2. Len(a \o b) = Len(a) + Len(b)
    <3>1. a \in Seq(V) /\ b \in Seq(V)
      BY <1>1, <1>2
    <3> QED BY <3>1
  <2>3. Len(a) + Len(b) = Len(s) - 1
    BY <1>1, <1>2
  <2> QED BY <2>1, <2>2, <2>3
<1>5. ASSUME NEW j \in 1..(Len(s) - 1)
      PROVE  (a \o b)[j] = IF j < i THEN s[j] ELSE s[j + 1]
  <2>1. CASE j < i
    <3>1. b \in Seq(V) /\ j \in 1..(i - 1) /\ j # i
      BY <1>2, <2>1
    <3> QED BY <1>1, <2>1, <3>1
  <2>2. CASE ~ (j < i)
    <3>1. j - (i - 1) \in 1..(Len(s) - i) /\ i + (j - (i - 1)) = j + 1
      BY <2>2
    <3>2. (a \o b)[j] = b[j - (i - 1)]
      BY <1>1, <1>2, <2>2
    <3>3. b[j - (i - 1)] = s[j + 1]
      BY <1>2, <3>1
    <3> QED BY <2>2, <3>2, <3>3
  <2> QED BY <2>1, <2>2
<1> QED BY <1>3, <1>4, <1>5

\* Places and their sequences.
LEMMA PlaceSeq ==
  ASSUME NEW d, Tree(d), NEW p \in Place
  PROVE  /\ d[p] \in Seq(Element \ {Root})
         /\ Len(d[p]) \in Nat
         /\ DOMAIN d[p] = 1..Len(d[p])
         /\ \A i \in 1..Len(d[p]) : d[p][i] \in Element \ {Root}
<1>1. d[p] \in Seq(Element \ {Root})
  BY DEF Tree
<1> QED
  BY <1>1, LenProperties, ElementOfSeq

LEMMA PlaceCanHold ==
  ASSUME NEW d, NEW p \in Place
  PROVE  p \in CanHold(d) <=> p[2] \in Present(d) /\ (p[1] = "light" => p[2] \notin Style)
<1>1. CASE p[1] = "light"
  <2>1. p = Light(p[2])
    BY <1>1, PlaceKinds
  <2>2. p \in CanHold(d) <=> p[2] \in Present(d) \ Style
    BY <1>1, <2>1 DEF CanHold, Light, Shadow
  <2> QED BY <1>1, <2>2
<1>2. CASE p[1] # "light"
  <2>1. p = Shadow(p[2]) /\ p[2] \in Host
    BY <1>2, PlaceKinds
  <2>2. p \in CanHold(d) <=> p[2] \in Present(d)
    BY <1>2, <2>1 DEF CanHold, Light, Shadow
  <2> QED BY <1>2, <2>2
<1> QED
  BY <1>1, <1>2

LEMMA OnePlace ==
  ASSUME NEW d, Tree(d), NEW p \in Place, NEW q \in Place,
         NEW i \in DOMAIN d[p], NEW j \in DOMAIN d[q], d[p][i] = d[q][j]
  PROVE  p = q /\ i = j
BY DEF Tree

\* An element is inserted.
LEMMA TreeInsert ==
  ASSUME NEW d, Tree(d), NEW e \in Element, e \notin Present(d),
         NEW p \in Place, p \in CanHold(d), NEW i \in 1..(Len(d[p]) + 1)
  PROVE  Tree([d EXCEPT ![p] = InsertAt(@, i, e)])
<1> DEFINE t == [d EXCEPT ![p] = InsertAt(@, i, e)]
           V == Element \ {Root}
           Old(q, j) == IF q = p /\ i < j THEN j - 1 ELSE j
<1>1. e \in V
  BY RootPresent
<1>2. d \in [Place -> Seq(V)] /\ Len(d[p]) \in Nat /\ i \in Nat \ {0}
  BY PlaceSeq DEF Tree
<1>3. /\ t[p] \in Seq(V) /\ Len(t[p]) = Len(d[p]) + 1 /\ DOMAIN t[p] = 1..(Len(d[p]) + 1)
      /\ \A j \in 1..(Len(d[p]) + 1) :
           t[p][j] = IF j < i THEN d[p][j] ELSE IF j = i THEN e ELSE d[p][j - 1]
  <2> DEFINE s == d[p]
  <2>1. t[p] = InsertAt(s, i, e) /\ s \in Seq(V) /\ i \in 1..(Len(s) + 1)
    BY <1>2
  <2> HIDE DEF t, V, s
  <2>2. /\ t[p] \in Seq(V)
        /\ Len(t[p]) = Len(s) + 1
        /\ \A j \in 1..(Len(s) + 1) :
             t[p][j] = IF j < i THEN s[j] ELSE IF j = i THEN e ELSE s[j - 1]
    BY <1>1, <2>1, InsertAtProperties
  <2>3. DOMAIN t[p] = 1..Len(t[p])
    BY <2>2, LenProperties
  <2> QED BY <2>2, <2>3 DEF s
<1>4. \A q \in Place : q # p => t[q] = d[q]
  BY <1>2
<1>5. t \in [Place -> Seq(V)]
  <2>1. InsertAt(d[p], i, e) \in Seq(V)
    BY <1>2, <1>3
  <2> QED BY <1>2, <2>1
<1> HIDE DEF t
\* What stands where in the new document.
<1>6. ASSUME NEW q \in Place, NEW j \in DOMAIN t[q]
      PROVE  \/ q = p /\ j = i /\ t[q][j] = e
             \/ ~ (q = p /\ j = i) /\ Old(q, j) \in DOMAIN d[q] /\ t[q][j] = d[q][Old(q, j)]
  <2>1. CASE q # p
    BY <1>4, <1>6, <2>1
  <2>2. CASE q = p
    <3>1. j \in 1..(Len(d[p]) + 1) /\ DOMAIN d[p] = 1..Len(d[p])
      BY <1>3, <1>6, <2>2, PlaceSeq
    <3>2. CASE j < i
      BY <1>2, <1>3, <2>2, <3>1, <3>2
    <3>3. CASE j = i
      BY <1>2, <1>3, <2>2, <3>1, <3>3
    <3>4. CASE i < j
      BY <1>2, <1>3, <2>2, <3>1, <3>4
    <3> QED BY <1>2, <3>1, <3>2, <3>3, <3>4
  <2> QED BY <2>1, <2>2
<1>7. ASSUME NEW q \in Place, NEW j \in DOMAIN d[q]
      PROVE  \E k \in DOMAIN t[q] : t[q][k] = d[q][j]
  <2>1. CASE q # p
    BY <1>4, <1>7, <2>1
  <2>2. CASE q = p
    <3>1. j \in 1..Len(d[p])
      BY <1>7, <2>2, PlaceSeq
    <3>2. CASE j < i
      BY <1>2, <1>3, <2>2, <3>1, <3>2
    <3>3. CASE i <= j
      <4>1. j + 1 \in DOMAIN t[p] /\ t[p][j + 1] = d[p][j + 1 - 1] /\ j + 1 - 1 = j
        BY <1>2, <1>3, <3>1, <3>3
      <4> QED BY <2>2, <4>1, PathsEqual, Zenon
    <3> QED BY <1>2, <3>1, <3>2, <3>3
  <2> QED BY <2>1, <2>2
<1>8. Present(t) = Present(d) \cup {e}
  <2>1. e \in Present(t)
    <3>1. i \in DOMAIN t[p] /\ t[p][i] = e
      BY <1>2, <1>3
    <3> QED BY <3>1 DEF Present, ToSet
  <2>2. ASSUME NEW x \in Present(d) PROVE x \in Present(t)
    <3>1. CASE x = Root
      BY <3>1, RootPresent
    <3>2. CASE x # Root
      <4> DEFINE q == HolderOf(d, x)
      <4>1. q \in Place /\ IndexOf(d, x) \in DOMAIN d[q] /\ d[q][IndexOf(d, x)] = x
        BY <3>2, Stands
      <4> HIDE DEF q
      <4>2. PICK k \in DOMAIN t[q] : t[q][k] = x
        BY <1>7, <4>1
      <4> QED BY <4>1, <4>2 DEF Present, ToSet
    <3> QED BY <3>1, <3>2
  <2>3. ASSUME NEW x \in Present(t), x # e, x # Root PROVE x \in Present(d)
    <3>1. PICK q \in Place : \E j \in DOMAIN t[q] : t[q][j] = x
      BY <2>3 DEF Present, ToSet
    <3> PICK j \in DOMAIN t[q] : t[q][j] = x
      BY <3>1
    <3>2. Old(q, j) \in DOMAIN d[q] /\ x = d[q][Old(q, j)]
      BY <1>6, <2>3, <3>1
    <3> QED BY <3>2 DEF Present, ToSet
  <2> QED BY <2>1, <2>2, <2>3, RootPresent
<1>9. ASSUME NEW q \in Place, t[q] # <<>> PROVE q \in CanHold(t)
  <2>1. q \in CanHold(d)
    <3>1. CASE q = p
      BY <3>1
    <3>2. CASE q # p
      BY <1>4, <1>9, <3>2 DEF Tree
    <3> QED BY <3>1, <3>2
  <2> QED BY <1>8, <2>1, PlaceCanHold
<1>10. ASSUME NEW q \in Place, NEW r \in Place, NEW j \in DOMAIN t[q], NEW k \in DOMAIN t[r],
              t[q][j] = t[r][k]
       PROVE  q = r /\ j = k
  <2>1. \A a \in Place : \A b \in DOMAIN d[a] : d[a][b] # e
    BY Standing
  <2>2. CASE t[q][j] = e
    <3> HIDE DEF Old
    <3>1. ASSUME NEW a \in Place, NEW b \in DOMAIN t[a], t[a][b] = e
          PROVE  a = p /\ b = i
      BY <1>6, <2>1, <3>1
    <3> QED BY <1>10, <2>2, <3>1
  <2>3. CASE t[q][j] # e
    <3>1. /\ ~ (q = p /\ j = i) /\ Old(q, j) \in DOMAIN d[q] /\ t[q][j] = d[q][Old(q, j)]
          /\ ~ (r = p /\ k = i) /\ Old(r, k) \in DOMAIN d[r] /\ t[r][k] = d[r][Old(r, k)]
      BY <1>6, <1>10, <2>3
    <3>2. q = r /\ Old(q, j) = Old(r, k)
      <4> HIDE DEF Old
      <4>1. d[q][Old(q, j)] = d[r][Old(r, k)]
        BY <1>10, <3>1
      <4> QED BY <3>1, <4>1, OnePlace
    <3>3. j \in Nat /\ k \in Nat
      <4>1. t[q] \in Seq(V) /\ t[r] \in Seq(V)
        BY <1>5
      <4> QED BY <4>1, LenProperties
    <3> QED BY <1>2, <3>1, <3>2, <3>3
  <2> QED BY <2>2, <2>3
<1>11. IsFiniteSet(Present(t))
  BY <1>8, FS_AddElement DEF Tree
<1>12. \E n \in Nat : \E rank \in [Present(t) -> 0..n] :
         \A q \in Place : \A j \in DOMAIN t[q] : rank[q[2]] < rank[t[q][j]]
  <2>1. PICK n \in Nat : \E rank \in [Present(d) -> 0..n] :
          \A q \in Place : \A j \in DOMAIN d[q] : rank[q[2]] < rank[d[q][j]]
    BY DEF Tree
  <2>2. PICK rank \in [Present(d) -> 0..n] :
          \A q \in Place : \A j \in DOMAIN d[q] : rank[q[2]] < rank[d[q][j]]
    BY <2>1
  <2> DEFINE more == [x \in Present(t) |-> IF x = e THEN n + 1 ELSE rank[x]]
  <2>3. more \in [Present(t) -> 0..(n + 1)]
    <3> SUFFICES ASSUME NEW x \in Present(t), x # e PROVE rank[x] \in 0..(n + 1)
      OBVIOUS
    <3>1. rank[x] \in 0..n
      BY <1>8
    <3> QED BY <3>1
  <2>4. ASSUME NEW q \in Place, NEW j \in DOMAIN t[q]
        PROVE  more[q[2]] < more[t[q][j]]
    <3>1. CASE q = p /\ j = i
      <4>1. t[q][j] = e /\ more[e] = n + 1
        BY <1>6, <1>8, <2>4, <3>1
      <4>2. p[2] \in Present(d) /\ p[2] # e
        BY PlaceCanHold
      <4>3. more[p[2]] = rank[p[2]] /\ rank[p[2]] \in 0..n
        BY <1>8, <4>2
      <4> QED BY <3>1, <4>1, <4>3
    <3>2. CASE ~ (q = p /\ j = i)
      <4>1. Old(q, j) \in DOMAIN d[q] /\ t[q][j] = d[q][Old(q, j)]
        BY <1>6, <2>4, <3>2
      <4>2. d[q][Old(q, j)] \in Present(d) /\ q[2] \in Present(d)
        <5> HIDE DEF Old
        <5> QED BY <4>1, Standing
      <4>3. rank[q[2]] < rank[d[q][Old(q, j)]]
        BY <2>2, <4>1
      <4>4. more[q[2]] = rank[q[2]] /\ more[t[q][j]] = rank[d[q][Old(q, j)]]
        <5> HIDE DEF Old
        <5> QED BY <1>8, <4>1, <4>2
      <4> QED BY <4>3, <4>4
    <3> QED BY <3>1, <3>2
  <2>5. n + 1 \in Nat
    OBVIOUS
  <2> HIDE DEF more
  <2> QED BY <2>3, <2>4, <2>5
<1> HIDE DEF Old, V
<1>13. Tree(t)
  BY <1>5, <1>9, <1>10, <1>11, <1>12 DEF Tree, V
<1> QED
  BY <1>13 DEF t

\* What is within e has something within e for its owner, or is e; its rank is
\* not below that of e.
LEMMA WithinOf ==
  ASSUME NEW d, Tree(d), NEW e \in Present(d), e # Root
  PROVE  /\ e \in Within(d, e) /\ Root \notin Within(d, e)
         /\ \A f \in Present(d) \ {Root} :
              HolderOf(d, f)[2] \in Within(d, e) => f \in Within(d, e)
         /\ \A f \in Present(d) \ {Root} :
              f \in Within(d, e) => f = e \/ HolderOf(d, f)[2] \in Within(d, e)
<1> DEFINE Body(within) == [f \in Present(d) |->
                              f = e \/ (f # Root /\ within[HolderOf(d, f)[2]])]
           G == [f \in Present(d) |-> [b \in BOOLEAN |-> f = e \/ b]]
<1>1. PICK g \in [Present(d) -> BOOLEAN] : Recursive(d, FALSE, G, g)
  <2> DEFINE V == BOOLEAN
             v0 == FALSE
  <2>1. v0 \in V
    OBVIOUS
  <2>2. G \in [Present(d) -> [V -> V]]
    OBVIOUS
  <2>3. \E g \in [Present(d) -> V] : Recursive(d, v0, G, g)
    <3> HIDE DEF G, V, v0
    <3> QED BY <2>1, <2>2, TreeRecursion
  <2> QED BY <2>3
<1>2. g = Body(g)
  <2> SUFFICES ASSUME NEW f \in Present(d)
               PROVE  g[f] = (f = e \/ (f # Root /\ g[HolderOf(d, f)[2]]))
    OBVIOUS
  <2>1. CASE f = Root
    BY <2>1, <1>1 DEF Recursive
  <2>2. CASE f # Root
    <3>1. g[HolderOf(d, f)[2]] \in BOOLEAN
      BY <2>2, Stands
    <3>2. g[f] = G[f][g[HolderOf(d, f)[2]]]
      BY <2>2, <1>1 DEF Recursive
    <3> QED BY <2>2, <3>1, <3>2
  <2> QED BY <2>1, <2>2
<1> DEFINE within == CHOOSE within : within = Body(within)
<1>3. Within(d, e) = {f \in Present(d) : within[f]}
  BY DEF Within
<1>4. within = Body(within)
  <2> HIDE DEF Body
  <2> QED BY <1>2
<1> HIDE DEF within
<1>5. within[e] /\ ~ within[Root]
  BY <1>4, RootPresent
<1>6. ASSUME NEW f \in Present(d), f # Root
      PROVE  within[f] <=> f = e \/ within[HolderOf(d, f)[2]]
  BY <1>4, <1>6
<1>7. ASSUME NEW f \in Present(d), f # Root
      PROVE  HolderOf(d, f)[2] \in Present(d)
  BY <1>7, Stands
<1> HIDE DEF Body, G
<1> QED
  BY <1>3, <1>5, <1>6, <1>7

\* What holds e is not within it.
LEMMA OwnerNotWithin ==
  ASSUME NEW d, Tree(d), NEW e \in Present(d), e # Root
  PROVE  HolderOf(d, e)[2] \notin Within(d, e)
<1>1. PICK n \in Nat : \E rank \in [Present(d) -> 0..n] :
        \A f \in Present(d) \ {Root} : rank[HolderOf(d, f)[2]] < rank[f]
  BY Ranks
<1>2. PICK rank \in [Present(d) -> 0..n] :
        \A f \in Present(d) \ {Root} : rank[HolderOf(d, f)[2]] < rank[f]
  BY <1>1
<1> DEFINE S == {f \in Present(d) : f \in Within(d, e) => rank[e] <= rank[f]}
<1>3. Root \in S
  BY RootPresent, WithinOf
<1>4. ASSUME NEW f \in Present(d), f # Root, HolderOf(d, f)[2] \in S
      PROVE  f \in S
  <2> SUFFICES ASSUME f \in Within(d, e), f # e PROVE rank[e] <= rank[f]
    OBVIOUS
  <2>1. HolderOf(d, f)[2] \in Within(d, e)
    BY <1>4, WithinOf
  <2>2. rank[e] <= rank[HolderOf(d, f)[2]] /\ rank[HolderOf(d, f)[2]] < rank[f]
    BY <1>2, <1>4, <2>1
  <2>3. rank[e] \in Nat /\ rank[f] \in Nat /\ rank[HolderOf(d, f)[2]] \in Nat
    BY <1>4
  <2> QED BY <2>2, <2>3
<1>5. Present(d) \subseteq S
  <2> HIDE DEF S
  <2> QED BY <1>3, <1>4, TreeInduction
<1>6. /\ HolderOf(d, e)[2] \in Present(d)
      /\ rank[HolderOf(d, e)[2]] < rank[e]
      /\ rank[HolderOf(d, e)[2]] \in Nat /\ rank[e] \in Nat
  <2>1. HolderOf(d, e)[2] \in Present(d)
    BY Stands
  <2> QED BY <1>2, <2>1
<1> QED
  BY <1>5, <1>6

\* An element is deleted, with all that is in it.
LEMMA TreeDelete ==
  ASSUME NEW d, Tree(d), NEW e \in Present(d), e # Root
  PROVE  Tree([p \in Place |->
                 IF p = HolderOf(d, e) THEN RemoveAt(d[p], IndexOf(d, e))
                 ELSE IF p[2] \in Within(d, e) THEN <<>>
                 ELSE d[p]])
<1> DEFINE h == HolderOf(d, e)
           i == IndexOf(d, e)
           V == Element \ {Root}
           t == [p \in Place |-> IF p = h THEN RemoveAt(d[p], i)
                                 ELSE IF p[2] \in Within(d, e) THEN <<>>
                                 ELSE d[p]]
           Old(q, j) == IF q = h /\ i <= j THEN j + 1 ELSE j
<1>1. h \in Place /\ i \in 1..Len(d[h]) /\ i \in Nat \ {0} /\ d[h][i] = e
  BY Stands, PlaceSeq
<1>2. d \in [Place -> Seq(V)] /\ Len(d[h]) \in Nat
  BY <1>1, PlaceSeq DEF Tree
<1>3. /\ t[h] \in Seq(V) /\ Len(t[h]) = Len(d[h]) - 1 /\ DOMAIN t[h] = 1..(Len(d[h]) - 1)
      /\ \A j \in 1..(Len(d[h]) - 1) : t[h][j] = IF j < i THEN d[h][j] ELSE d[h][j + 1]
  <2> DEFINE s == d[h]
  <2>1. t[h] = RemoveAt(s, i) /\ s \in Seq(V) /\ i \in 1..Len(s)
    BY <1>1, <1>2
  <2> HIDE DEF t, V, s, h, i
  <2>2. /\ t[h] \in Seq(V)
        /\ Len(t[h]) = Len(s) - 1
        /\ \A j \in 1..(Len(s) - 1) : t[h][j] = IF j < i THEN s[j] ELSE s[j + 1]
    BY <2>1, RemoveAtProperties
  <2>3. DOMAIN t[h] = 1..Len(t[h])
    BY <2>2, LenProperties
  <2> QED BY <2>2, <2>3 DEF s
<1>4. \A q \in Place : q # h => t[q] = IF q[2] \in Within(d, e) THEN <<>> ELSE d[q]
  OBVIOUS
<1>5. t \in [Place -> Seq(V)]
  <2> HIDE DEF V, h, i
  <2>1. RemoveAt(d[h], i) \in Seq(V) /\ <<>> \in Seq(V)
    BY <1>1, <1>3, EmptySeq
  <2> QED BY <1>2, <2>1
<1> HIDE DEF t, h, i
<1>6. h[2] \notin Within(d, e)
  BY OwnerNotWithin DEF h
\* What stands where in the new document.
<1>7. ASSUME NEW q \in Place, NEW j \in DOMAIN t[q]
      PROVE  /\ Old(q, j) \in DOMAIN d[q] /\ t[q][j] = d[q][Old(q, j)]
             /\ q[2] \notin Within(d, e)
  <2>1. CASE q # h
    <3>1. t[q] # <<>>
      BY <1>7
    <3> QED BY <1>4, <1>7, <2>1, <3>1
  <2>2. CASE q = h
    <3>1. j \in 1..(Len(d[h]) - 1) /\ DOMAIN d[h] = 1..Len(d[h])
      BY <1>1, <1>3, <1>7, <2>2, PlaceSeq
    <3>2. CASE j < i
      <4>1. ~ (i <= j) /\ j \in 1..Len(d[h])
        BY <1>1, <1>2, <3>1, <3>2
      <4>2. t[h][j] = d[h][j]
        BY <1>3, <3>1, <3>2
      <4> QED BY <1>6, <2>2, <3>1, <4>1, <4>2
    <3>3. CASE i <= j
      <4>1. ~ (j < i) /\ j + 1 \in 1..Len(d[h])
        BY <1>1, <1>2, <3>1, <3>3
      <4>2. t[h][j] = d[h][j + 1]
        BY <1>3, <3>1, <4>1
      <4> QED BY <1>6, <2>2, <3>1, <3>3, <4>1, <4>2
    <3>4. j < i \/ i <= j
      BY <1>1, <3>1
    <3> QED BY <3>2, <3>3, <3>4
  <2> QED BY <2>1, <2>2
<1>8. ASSUME NEW q \in Place, NEW j \in DOMAIN d[q],
             q[2] \notin Within(d, e), d[q][j] # e
      PROVE  \E k \in DOMAIN t[q] : t[q][k] = d[q][j]
  <2>1. CASE q # h
    BY <1>4, <1>8, <2>1
  <2>2. CASE q = h
    <3>1. j \in 1..Len(d[h]) /\ j # i
      BY <1>1, <1>8, <2>2, PlaceSeq
    <3>2. CASE j < i
      <4>1. j \in DOMAIN t[h] /\ t[h][j] = d[h][j]
        BY <1>1, <1>2, <1>3, <3>1, <3>2
      <4> QED BY <2>2, <4>1, PathsEqual, Zenon
    <3>3. CASE i < j
      <4>0. j - 1 \in 1..(Len(d[h]) - 1) /\ ~ (j - 1 < i) /\ j - 1 + 1 = j
        BY <1>1, <1>2, <3>1, <3>3
      <4>1. j - 1 \in DOMAIN t[h] /\ t[h][j - 1] = d[h][j - 1 + 1] /\ j - 1 + 1 = j
        BY <1>3, <4>0
      <4> QED BY <2>2, <4>1, PathsEqual, Zenon
    <3>4. j < i \/ i < j
      BY <1>1, <3>1
    <3> QED BY <3>2, <3>3, <3>4
  <2> QED BY <2>1, <2>2
<1> HIDE DEF Old
<1>9. Present(t) \subseteq Present(d)
  <2> SUFFICES ASSUME NEW x \in Present(t), x # Root PROVE x \in Present(d)
    BY RootPresent
  <2>1. PICK q \in Place : \E j \in DOMAIN t[q] : t[q][j] = x
    BY DEF Present, ToSet
  <2>2. PICK j \in DOMAIN t[q] : t[q][j] = x
    BY <2>1
  <2>3. Old(q, j) \in DOMAIN d[q] /\ x = d[q][Old(q, j)]
    BY <1>7, <2>2
  <2> QED BY <2>3 DEF Present, ToSet
<1>10. ASSUME NEW x \in Present(d), x \notin Within(d, e)
       PROVE  x \in Present(t)
  <2>1. CASE x = Root
    BY <2>1, RootPresent
  <2>2. CASE x # Root
    <3> DEFINE q == HolderOf(d, x)
    <3>1. q \in Place /\ IndexOf(d, x) \in DOMAIN d[q] /\ d[q][IndexOf(d, x)] = x
      BY <2>2, Stands
    <3>2. q[2] \notin Within(d, e) /\ x # e
      BY <1>10, <2>2, WithinOf
    <3> HIDE DEF q
    <3>3. PICK k \in DOMAIN t[q] : t[q][k] = x
      BY <1>8, <3>1, <3>2
    <3> QED BY <3>1, <3>3 DEF Present, ToSet
  <2> QED BY <2>1, <2>2
<1>11. ASSUME NEW q \in Place, t[q] # <<>> PROVE q \in CanHold(t)
  <2>1. PICK j \in DOMAIN t[q] : TRUE
    <3>1. t[q] \in Seq(V)
      BY <1>5
    <3> HIDE DEF V
    <3>2. Len(t[q]) \in Nat \ {0} /\ DOMAIN t[q] = 1..Len(t[q])
      BY <1>11, <3>1, EmptySeq, LenProperties
    <3>3. 1 \in DOMAIN t[q]
      BY <3>2
    <3> QED BY <3>3
  <2>2. Old(q, j) \in DOMAIN d[q] /\ q[2] \notin Within(d, e)
    BY <1>7
  <2>3. q[2] \in Present(d) /\ (q[1] = "light" => q[2] \notin Style)
    BY <2>2, Standing
  <2> QED BY <1>10, <2>2, <2>3, PlaceCanHold
<1>12. ASSUME NEW q \in Place, NEW r \in Place, NEW j \in DOMAIN t[q], NEW k \in DOMAIN t[r],
              t[q][j] = t[r][k]
       PROVE  q = r /\ j = k
  <2>1. /\ Old(q, j) \in DOMAIN d[q] /\ t[q][j] = d[q][Old(q, j)]
        /\ Old(r, k) \in DOMAIN d[r] /\ t[r][k] = d[r][Old(r, k)]
    BY <1>7
  <2>2. d[q][Old(q, j)] = d[r][Old(r, k)]
    BY <1>12, <2>1
  <2>3. q = r /\ Old(q, j) = Old(r, k)
    BY <2>1, <2>2, OnePlace
  <2>4. j \in Nat /\ k \in Nat
    <3>1. t[q] \in Seq(V) /\ t[r] \in Seq(V)
      BY <1>5
    <3> QED BY <3>1, LenProperties
  <2> QED BY <1>1, <2>3, <2>4 DEF Old
<1>13. IsFiniteSet(Present(t))
  BY <1>9, FS_Subset DEF Tree
<1>14. \E n \in Nat : \E rank \in [Present(t) -> 0..n] :
         \A q \in Place : \A j \in DOMAIN t[q] : rank[q[2]] < rank[t[q][j]]
  <2>1. PICK n \in Nat : \E rank \in [Present(d) -> 0..n] :
          \A q \in Place : \A j \in DOMAIN d[q] : rank[q[2]] < rank[d[q][j]]
    BY DEF Tree
  <2>2. PICK rank \in [Present(d) -> 0..n] :
          \A q \in Place : \A j \in DOMAIN d[q] : rank[q[2]] < rank[d[q][j]]
    BY <2>1
  <2> DEFINE less == [x \in Present(t) |-> rank[x]]
  <2>3. less \in [Present(t) -> 0..n]
    BY <1>9
  <2>4. ASSUME NEW q \in Place, NEW j \in DOMAIN t[q]
        PROVE  less[q[2]] < less[t[q][j]]
    <3>1. Old(q, j) \in DOMAIN d[q] /\ t[q][j] = d[q][Old(q, j)] /\ q[2] \notin Within(d, e)
      BY <1>7, <2>4
    <3>2. rank[q[2]] < rank[d[q][Old(q, j)]]
      BY <2>2, <3>1
    <3>3. q[2] \in Present(t)
      BY <1>10, <3>1, Standing
    <3>4. t[q][j] \in Present(t)
      BY <2>4 DEF Present, ToSet
    <3> QED BY <3>1, <3>2, <3>3, <3>4
  <2> HIDE DEF less
  <2> QED BY <2>3, <2>4
<1>15. Tree(t)
  <2>1. \A p, q \in Place : \A a \in DOMAIN t[p], b \in DOMAIN t[q] :
          t[p][a] = t[q][b] => p = q /\ a = b
    BY <1>12
  <2>2. \A p \in Place : t[p] # <<>> => p \in CanHold(t)
    BY <1>11
  <2> HIDE DEF V
  <2> QED BY <1>5, <1>13, <1>14, <2>1, <2>2 DEF Tree, V
<1> QED
  BY <1>15 DEF t, h, i

----------------------------------------------------------------------------
(* The invariant                                                           *)

\* The page is a tree and so is what was serialised of it; the result was made
\* of the two reads as they still are.
FoldInv ==
  /\ Tree(dom)
  /\ at \in {"extracting", "folded", "dumped"} => Tree(html)
  /\ at = "folded" => Applies(html, dom) /\ into = Splice(html, dom)
  /\ at = "dumped" => max_attempts = 0 \/ ~ Applies(html, dom)

LEMMA TreeEmpty == Tree([p \in Place |-> <<>>])
<1> DEFINE d == [p \in Place |-> <<>>]
<1>1. \A p \in Place : d[p] = <<>> /\ DOMAIN d[p] = {}
  OBVIOUS
<1>2. d \in [Place -> Seq(Element \ {Root})]
  <2>1. <<>> \in Seq(Element \ {Root})
    BY EmptySeq
  <2> QED BY <2>1
<1> HIDE DEF d
<1>3. Present(d) = {Root}
  BY <1>1 DEF Present, ToSet
<1>4. IsFiniteSet(Present(d))
  BY <1>3, FS_Singleton
<1>5. \E n \in Nat : \E rank \in [Present(d) -> 0..n] :
        \A p \in Place : \A i \in DOMAIN d[p] : rank[p[2]] < rank[d[p][i]]
  <2> DEFINE rank == [e \in Present(d) |-> 0]
  <2>1. rank \in [Present(d) -> 0..0] /\ 0 \in Nat
    OBVIOUS
  <2>2. \A p \in Place : \A i \in DOMAIN d[p] : rank[p[2]] < rank[d[p][i]]
    BY <1>1
  <2> QED BY <2>1, <2>2
<1>6. Tree(d)
  BY <1>1, <1>2, <1>4, <1>5 DEF Tree
<1> QED
  BY <1>6 DEF d

LEMMA FoldInitially == FoldInit => FoldInv
BY TreeEmpty DEF FoldInit, FoldInv

LEMMA FoldStep ==
  ASSUME FoldInv, [FoldNext]_vars
  PROVE  FoldInv'
<1>1. ASSUME NEW e \in Element, NEW p \in Place, NEW i \in 1..(Len(dom[p]) + 1),
             Insert(e, p, i)
      PROVE  FoldInv'
  <2>1. dom' = [dom EXCEPT ![p] = InsertAt(@, i, e)]
    BY <1>1 DEF Insert, Changes
  <2>2. Tree(dom) /\ e \notin Present(dom) /\ p \in CanHold(dom)
    BY <1>1 DEF Insert, FoldInv
  <2>3. Tree(dom')
    BY <2>1, <2>2, TreeInsert
  <2> QED
    BY <1>1, <2>3 DEF Insert, Changes, Returned, FoldInv
<1>2. ASSUME NEW e \in Element, Delete(e)
      PROVE  FoldInv'
  <2>1. dom' = [p \in Place |->
                  IF p = HolderOf(dom, e) THEN RemoveAt(dom[p], IndexOf(dom, e))
                  ELSE IF p[2] \in Within(dom, e) THEN <<>>
                  ELSE dom[p]]
    BY <1>2 DEF Delete, Changes
  <2>2. Tree(dom) /\ e \in Present(dom) /\ e # Root
    BY <1>2 DEF Delete, FoldInv
  <2>3. Tree(dom')
    BY <2>1, <2>2, TreeDelete
  <2> QED
    BY <1>2, <2>3 DEF Delete, Changes, Returned, FoldInv
<1>3. CASE Start
  BY <1>3 DEF Start, FoldInv
<1>4. CASE Serialize
  BY <1>4 DEF Serialize, FoldInv
<1>5. CASE SerializeFails
  BY <1>5 DEF SerializeFails, Returns, FoldInv
<1>6. CASE ExtractRaises
  BY <1>6 DEF ExtractRaises, Returns, FoldInv
<1>7. CASE Folds
  <2>1. /\ at' = "folded" /\ html' = html /\ dom' = dom
        /\ Applies(html, dom) /\ into' = Splice(html, dom) /\ Tree(html) /\ Tree(dom)
    BY <1>7 DEF Folds, Returns, FoldInv
  <2> QED BY <2>1 DEF FoldInv
<1>8. CASE Dumps
  <2>1. /\ at' = "dumped" /\ html' = html /\ dom' = dom /\ max_attempts' = max_attempts
        /\ max_attempts = 0 \/ ~ Applies(html, dom)
        /\ Tree(html) /\ Tree(dom)
    BY <1>8 DEF Dumps, Refused, Returns, FoldInv
  <2> QED BY <2>1 DEF FoldInv
<1>9. CASE Retries
  BY <1>9 DEF Retries, FoldInv
<1>10. CASE Wakes
  BY <1>10 DEF Wakes, FoldInv
<1>11. CASE UNCHANGED vars
  BY <1>11 DEF vars, FoldInv
<1> QED
  BY <1>1, <1>2, <1>3, <1>4, <1>5, <1>6, <1>7, <1>8, <1>9, <1>10, <1>11
  DEF FoldNext, FoldGoes, PageChanges

\* FoldInv is an invariant, whatever the page does between the awaits and
\* however large it gets.
THEOREM FoldSafe == FoldSpec => []FoldInv
<1>1. FoldInit => FoldInv
  BY FoldInitially
<1>2. FoldInv /\ [FoldNext]_vars => FoldInv'
  BY FoldStep
<1> QED
  BY <1>1, <1>2, PTL DEF FoldSpec

----------------------------------------------------------------------------
(* A page that changed                                                     *)

\* Of two documents whose signatures agree and whose styles, and their order,
\* are the same, each style has the same key in both.
LEMMA SameKey ==
  ASSUME NEW h, NEW d, Tree(d), Agree(h, d),
         StylesInOrder(h, "html") = StylesInOrder(d, "walk"),
         NEW s \in Seen(d, "walk") \cap Style
  PROVE  Key(h, "html", s) = Key(d, "walk", s)
<1>1. PICK i \in DOMAIN StylesInOrder(d, "walk") : StylesInOrder(d, "walk")[i] = s
  BY StylesListed
<1>2. Signature(h, "html")[i] = Key(h, "html", s)
  BY <1>1 DEF Signature
<1>3. Signature(d, "walk")[i] = Key(d, "walk", s)
  BY <1>1 DEF Signature
<1> QED
  BY <1>2, <1>3 DEF Agree

\* Rules are spliced into the style they were read from, if the styles of the
\* page, and their order, are the same in both reads: whatever else was
\* inserted, deleted or moved between the two.
THEOREM FoldStylesInPlace == FoldSpec => []StylesInPlace
<1>1. FoldInv => StylesInPlace
  <2> SUFFICES ASSUME FoldInv, at = "folded",
                      StylesInOrder(html, "html") = StylesInOrder(dom, "walk"),
                      NEW s \in Style, Light(s) \in DOMAIN into
               PROVE  into[Light(s)] = Light(s)
    BY DEF StylesInPlace
  <2>1. Tree(dom) /\ Tree(html) /\ Applies(html, dom) /\ into = Splice(html, dom)
    BY DEF FoldInv
  <2>2. Light(s) \in Plan(dom) /\ into[Light(s)] = CHOOSE p \in Place : p \in Target(html, dom, Light(s))
    BY <2>1 DEF Splice
  <2>3. s \in Seen(dom, "walk") \cap Style
    BY <2>2, FoldAssumption DEF Plan, Light, Shadow
  <2>4. Agree(html, dom)
    BY <2>1, <2>2 DEF Applies
  <2>5. Key(html, "html", s) = Key(dom, "walk", s)
    BY <2>1, <2>3, <2>4, SameKey
  <2>6. s \in Present(html)
    <3>1. PICK i \in DOMAIN StylesInOrder(dom, "walk") : StylesInOrder(dom, "walk")[i] = s
      BY <2>1, <2>3, StylesListed
    <3>2. \A j \in DOMAIN StylesInOrder(html, "html") :
            StylesInOrder(html, "html")[j] \in Seen(html, "html")
      BY <2>1, StylesListed
    <3>3. s \in Seen(html, "html")
      BY <3>1, <3>2
    <3> QED BY <2>1, <3>3, SeenOf
  <2>7. ASSUME NEW t \in Present(html) \cap Style, Key(html, "html", t) = Key(dom, "walk", s)
        PROVE  t = s
    BY <2>1, <2>5, <2>6, <2>7, PresentIsVisible, KeysApart
  <2>8. Target(html, dom, Light(s)) = {Light(s)}
    <3>1. Light(s) # Light(Root) /\ Light(s)[1] = "light" /\ Light(s)[2] = s
      BY FoldAssumption DEF Light
    <3>2. Target(html, dom, Light(s)) =
            {Light(t) : t \in {u \in Present(html) \cap Style :
                                 Key(html, "html", u) = Key(dom, "walk", s)}}
      BY <3>1 DEF Target
    <3>3. {u \in Present(html) \cap Style : Key(html, "html", u) = Key(dom, "walk", s)} = {s}
      BY <2>5, <2>6, <2>7
    <3> QED BY <3>2, <3>3
  <2>9. Light(s) \in Place
    BY DEF Place, Light, Element
  <2> QED BY <2>2, <2>8, <2>9
<1> QED
  BY <1>1, FoldSafe, PTL

----------------------------------------------------------------------------
(* A page that was still                                                   *)

\* Where no shadow root is closed, the walk counts as the HTML does.
LEMMA SamePaths ==
  ASSUME NEW d, Tree(d), Present(d) \cap Closed = {}
  PROVE  PathTo(d, "html") = PathTo(d, "walk")
<1> DEFINE a == PathTo(d, "html")
           b == PathTo(d, "walk")
           S == {e \in Present(d) : a[e] = b[e]}
<1>1. Root \in S
  BY PathOf, RootPresent
<1>2. ASSUME NEW e \in Present(d), e # Root, HolderOf(d, e)[2] \in S
      PROVE  e \in S
  <2> DEFINE p == HolderOf(d, e)
  <2>1. p[2] \in Present(d)
    BY <1>2, Stands
  <2>2. Offset(p, "html") = Offset(p, "walk")
    BY <2>1 DEF Offset, RootsOf
  <2>3. PlacePath(d, "html", p) = PlacePath(d, "walk", p)
    BY <1>2 DEF PlacePath
  <2>4. a[e] = Append(PlacePath(d, "html", p), IndexOf(d, e) + Offset(p, "html"))
    BY <1>2, PathOf
  <2>5. b[e] = Append(PlacePath(d, "walk", p), IndexOf(d, e) + Offset(p, "walk"))
    BY <1>2, PathOf
  <2> HIDE DEF p
  <2> QED BY <1>2, <2>2, <2>3, <2>4, <2>5
<1>3. Present(d) \subseteq S
  <2> HIDE DEF S
  <2> QED BY <1>1, <1>2, TreeInduction
<1>4. a \in [Present(d) -> Seq(Nat)] /\ b \in [Present(d) -> Seq(Nat)]
  BY PathOf
<1> QED
  BY <1>3, <1>4

LEMMA SameSeen ==
  ASSUME NEW d, Tree(d), Present(d) \cap Closed = {}
  PROVE  Seen(d, "html") = Seen(d, "walk")
<1> DEFINE S == {e \in Present(d) : e \in Seen(d, "html") <=> e \in Seen(d, "walk")}
<1>1. Root \in S
  BY SeenOf, RootPresent
<1>2. ASSUME NEW e \in Present(d), e # Root, HolderOf(d, e)[2] \in S
      PROVE  e \in S
  <2>1. HolderOf(d, e)[2] \in RootsOf("html") <=> HolderOf(d, e)[2] \in RootsOf("walk")
    BY <1>2 DEF RootsOf
  <2> QED BY <1>2, <2>1, SeenOf
<1>3. Present(d) \subseteq S
  <2> HIDE DEF S
  <2> QED BY <1>1, <1>2, TreeInduction
<1>4. Seen(d, "html") \subseteq Present(d) /\ Seen(d, "walk") \subseteq Present(d)
  BY SeenOf
<1> QED
  BY <1>3, <1>4

LEMMA SameSignature ==
  ASSUME NEW d, Tree(d), Present(d) \cap Closed = {}
  PROVE  /\ \A s : Key(d, "html", s) = Key(d, "walk", s)
         /\ Agree(d, d)
<1>1. PathTo(d, "html") = PathTo(d, "walk") /\ Seen(d, "html") = Seen(d, "walk")
  BY SamePaths, SameSeen
<1>2. \A s : Key(d, "html", s) = Key(d, "walk", s)
  BY <1>1 DEF Key
<1>3. StylesInOrder(d, "html") = StylesInOrder(d, "walk")
  <2> DEFINE Order(styles, path) ==
        CHOOSE order \in [1..Cardinality(styles) -> styles] :
          \A i, j \in DOMAIN order : i < j => Before(path[order[i]], path[order[j]])
  <2>1. \A r : StylesInOrder(d, r) = Order(Seen(d, r) \cap Style, PathTo(d, r))
    BY DEF StylesInOrder
  <2> HIDE DEF Order
  <2> QED BY <1>1, <2>1
<1>4. Signature(d, "html") = Signature(d, "walk")
  BY <1>2, <1>3 DEF Signature
<1> QED
  BY <1>2, <1>4 DEF Agree

\* Every sheet has one target, the place it belongs in.
LEMMA OwnTarget ==
  ASSUME NEW d, Tree(d), Present(d) \cap Closed = {}, NEW x \in Plan(d)
  PROVE  x \in Place /\ Target(d, d, x) = {x}
<1> DEFINE path == PathTo(d, "html")
           Places == Stations("html", Present(d))
<1>1. path = PathTo(d, "walk")
  BY SamePaths
<1>2. \A p, q \in Places : PlacePath(d, "html", p) = PlacePath(d, "html", q) => p = q
  BY PresentIsVisible, PathsApart
<1>3. \A e \in Present(d) : Light(e) \in Places /\ PlacePath(d, "html", Light(e)) = path[e]
  BY PresentAreElements DEF Stations, Place, Light, PlacePath
<1>4. \A g \in Present(d) \cap Host : /\ Shadow(g) \in Places
                                      /\ PlacePath(d, "html", Shadow(g)) = Append(path[g], 1)
  BY DEF Stations, Place, Shadow, PlacePath, RootsOf
<1>5. Seen(d, "walk") \subseteq Present(d)
  BY SeenOf
<1>6. ASSUME NEW s \in Seen(d, "walk") \cap Readable, x = Light(s)
      PROVE  x \in Place /\ Target(d, d, x) = {x}
  <2>1. s \in Present(d) \cap Style
    BY <1>5, <1>6, FoldAssumption
  <2>2. x # Light(Root) /\ x[1] = "light" /\ x[2] = s
    BY <1>6, <2>1, FoldAssumption DEF Light
  <2>3. Target(d, d, x) = {Light(t) : t \in {u \in Present(d) \cap Style :
                                               Key(d, "html", u) = Key(d, "walk", s)}}
    BY <2>2 DEF Target
  <2>4. ASSUME NEW u \in Present(d) \cap Style, Key(d, "html", u) = Key(d, "walk", s)
        PROVE  u = s
    BY <2>1, <2>4, SameSignature, PresentIsVisible, KeysApart
  <2>5. {u \in Present(d) \cap Style : Key(d, "html", u) = Key(d, "walk", s)} = {s}
    BY <2>1, <2>4, SameSignature
  <2>6. x \in Place
    BY <1>3, <1>6, <2>1 DEF Stations
  <2> QED BY <1>6, <2>3, <2>5, <2>6
<1>7. ASSUME NEW h \in Seen(d, "walk") \cap Host, x = Shadow(h)
      PROVE  x \in Place /\ Target(d, d, x) = {x}
  <2>1. h \in Present(d) \cap Host /\ x[2] = h
    BY <1>5, <1>7 DEF Shadow
  <2>2. x # Light(Root) /\ x[1] # "light"
    BY <1>7 DEF Light, Shadow
  <2>3. Target(d, d, x) =
          {Light(e) : e \in {f \in Present(d) : path[f] = Append(path[h], 1)}}
            \cup {Shadow(g) : g \in {f \in Present(d) \cap Host :
                                       Append(path[f], 1) = Append(path[h], 1)}}
    BY <1>1, <2>1, <2>2 DEF Target
  <2> HIDE DEF path, Places
  <2>4. ASSUME NEW f \in Present(d), path[f] = Append(path[h], 1) PROVE FALSE
    <3>1. /\ Light(f) \in Places /\ PlacePath(d, "html", Light(f)) = path[f]
          /\ Shadow(h) \in Places /\ PlacePath(d, "html", Shadow(h)) = Append(path[h], 1)
      BY <1>3, <1>4, <2>1
    <3>2. Light(f) = Shadow(h)
      BY <1>2, <2>4, <3>1
    <3> QED BY <3>2 DEF Light, Shadow
  <2>5. ASSUME NEW f \in Present(d) \cap Host, Append(path[f], 1) = Append(path[h], 1)
        PROVE  f = h
    <3>1. /\ Shadow(f) \in Places /\ PlacePath(d, "html", Shadow(f)) = Append(path[f], 1)
          /\ Shadow(h) \in Places /\ PlacePath(d, "html", Shadow(h)) = Append(path[h], 1)
      BY <1>4, <2>1
    <3>2. Shadow(f) = Shadow(h)
      BY <1>2, <2>5, <3>1
    <3> QED BY <3>2 DEF Shadow
  <2>6. {f \in Present(d) : path[f] = Append(path[h], 1)} = {}
    BY <2>4
  <2>7. {f \in Present(d) \cap Host : Append(path[f], 1) = Append(path[h], 1)} = {h}
    BY <2>1, <2>5
  <2>8. x \in Place
    BY <1>4, <1>7, <2>1 DEF Stations, Places
  <2> QED BY <1>7, <2>3, <2>6, <2>7, <2>8
<1>8. ASSUME x = Light(Root)
      PROVE  x \in Place /\ Target(d, d, x) = {x}
  BY <1>8 DEF Target, Place, Element
<1>9. \/ \E s \in Seen(d, "walk") \cap Readable : x = Light(s)
      \/ \E h \in Seen(d, "walk") \cap Host : x = Shadow(h)
      \/ x = Light(Root)
  BY DEF Plan, RootsOf
<1> QED
  BY <1>6, <1>7, <1>8, <1>9

\* A page that was the same at both reads is folded at that attempt, and every
\* sheet goes where it belongs, if no shadow root in it is closed.
THEOREM FoldStillPage == FoldSpec => []StillPageFolds
<1>1. FoldInv => StillPageFolds
  <2> SUFFICES ASSUME FoldInv, at \in {"folded", "dumped"}, max_attempts > 0,
                      html = dom, Present(dom) \cap Closed = {}
               PROVE  at = "folded" /\ into = [x \in Plan(dom) |-> x]
    BY DEF StillPageFolds
  <2>1. Tree(dom)
    BY DEF FoldInv
  <2>2. \A x \in Plan(dom) : x \in Place /\ Target(dom, dom, x) = {x}
    BY <2>1, OwnTarget
  <2>3. Applies(dom, dom)
    BY <2>1, <2>2, SameSignature DEF Applies
  <2>4. at = "folded"
    BY <2>3 DEF FoldInv
  <2>5. into = Splice(dom, dom)
    BY <2>4 DEF FoldInv
  <2>6. \A x \in Plan(dom) : (CHOOSE p \in Place : p \in Target(dom, dom, x)) = x
    BY <2>2
  <2>7. Splice(dom, dom) = [x \in Plan(dom) |-> x]
    BY <2>6 DEF Splice
  <2> QED BY <2>4, <2>5, <2>7
<1> QED
  BY <1>1, FoldSafe, PTL

=============================================================================
