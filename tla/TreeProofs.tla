----------------------------- MODULE TreeProofs -----------------------------
(***************************************************************************)
(* The red-black tree of MCParts, for every set of keys: it is a search    *)
(* tree at every step, balanced between operations, and its walks visit    *)
(* the elements in order.                                                  *)
(*                                                                         *)
(* The lemmas are about trees and not about states, except the last ones,  *)
(* one for each action.                                                    *)
(***************************************************************************)
EXTENDS MCParts, FiniteSets, FiniteSetTheorems, WellFoundedInduction, TLAPS

-----------------------------------------------------------------------------
(* Links.  Kid and Up read them; a tree is known by them, its root and its *)
(* red elements.                                                           *)

Sides == {"left", "right"}

Links(E) == E \cup {NULL}

Node(E) == [left : Links(E), right : Links(E), parent : Links(E),
            color : {"red", "black"}]

IsTree(t, E) == t \in [root : Links(E), at : [E -> Node(E)]]

Kid(t, n, side) == t.at[n][side]

Up(t, n) == t.at[n].parent

Red(t, n) == MapTree!IsRed(t, n)

Opp(side) == MapTree!Other(side)

LEMMA OppFacts ==
  ASSUME NEW side \in Sides
  PROVE  /\ Opp(side) \in Sides /\ Opp(side) # side /\ Opp(Opp(side)) = side
         /\ \A s \in Sides : s = side \/ s = Opp(side)
BY DEF Sides, Opp, MapTree!Other

LEMMA TreeTyped ==
  ASSUME NEW E, NEW t, IsTree(t, E)
  PROVE  /\ t.root \in Links(E)
         /\ \A n \in E : Up(t, n) \in Links(E)
         /\ \A n \in E, s \in Sides : Kid(t, n, s) \in Links(E)
BY DEF IsTree, Node, Sides, Kid, Up

\* The sides as the fields they are.
LEMMA FieldsOf ==
  ASSUME NEW t, NEW n
  PROVE  /\ t.at[n].left = Kid(t, n, "left")
         /\ t.at[n].right = Kid(t, n, "right")
         /\ t.at[n].parent = Up(t, n)
BY DEF Kid, Up

\* Trees that differ in one link, in the root or in nothing but a colour.
ChildSet(r, t, E, n, side, x) ==
  /\ IsTree(r, E) /\ r.root = t.root
  /\ \A m \in E :
       /\ Red(r, m) <=> Red(t, m)
       /\ Up(r, m) = Up(t, m)
       /\ \A s \in Sides :
            Kid(r, m, s) = IF m = n /\ s = side THEN x ELSE Kid(t, m, s)

ParentSet(r, t, E, n, x) ==
  /\ IsTree(r, E) /\ r.root = t.root
  /\ \A m \in E :
       /\ Red(r, m) <=> Red(t, m)
       /\ Up(r, m) = IF m = n THEN x ELSE Up(t, m)
       /\ \A s \in Sides : Kid(r, m, s) = Kid(t, m, s)

RootSet(r, t, E, x) ==
  /\ IsTree(r, E) /\ r.root = x
  /\ \A m \in E :
       /\ Red(r, m) <=> Red(t, m)
       /\ Up(r, m) = Up(t, m)
       /\ \A s \in Sides : Kid(r, m, s) = Kid(t, m, s)

SameLinks(r, t, E) ==
  /\ IsTree(r, E) /\ r.root = t.root
  /\ \A m \in E : /\ Up(r, m) = Up(t, m)
                  /\ \A s \in Sides : Kid(r, m, s) = Kid(t, m, s)

LEMMA SetChildFacts ==
  ASSUME NEW E, NULL \notin E, NEW t, IsTree(t, E), NEW n \in E,
         NEW side \in Sides, NEW x \in Links(E)
  PROVE  ChildSet(MapTree!SetChild(t, n, side, x), t, E, n, side, x)
BY DEF IsTree, Node, Sides, Links, Kid, Up, Red, MapTree!IsRed,
       MapTree!SetChild, ChildSet

LEMMA SetParentFacts ==
  ASSUME NEW E, NULL \notin E, NEW t, IsTree(t, E), NEW n \in Links(E),
         NEW x \in Links(E)
  PROVE  ParentSet(MapTree!SetParent(t, n, x), t, E, n, x)
<1>1. CASE n = NULL
  BY <1>1 DEF MapTree!SetParent, ParentSet
<1>2. CASE n # NULL
  <2>1. /\ n \in E
        /\ MapTree!SetParent(t, n, x) = [t EXCEPT !.at[n].parent = x]
    BY <1>2 DEF Links, MapTree!SetParent
  <2>2. ParentSet([t EXCEPT !.at[n].parent = x], t, E, n, x)
    BY <2>1 DEF IsTree, Node, Sides, Links, Kid, Up, Red, MapTree!IsRed,
                ParentSet
  <2> QED
    BY <2>1, <2>2
<1> QED
  BY <1>1, <1>2

LEMMA RootFacts ==
  ASSUME NEW E, NULL \notin E, NEW t, IsTree(t, E), NEW x \in Links(E)
  PROVE  RootSet([t EXCEPT !.root = x], t, E, x)
BY DEF IsTree, Node, Sides, Links, Kid, Up, Red, MapTree!IsRed, RootSet

LEMMA ColorFacts ==
  ASSUME NEW E, NULL \notin E, NEW t, IsTree(t, E), NEW n \in E,
         NEW c \in {"red", "black"}
  PROVE  /\ SameLinks(MapTree!Color(t, n, c), t, E)
         /\ \A m \in E :
              Red(MapTree!Color(t, n, c), m) <=>
                IF m = n THEN c = "red" ELSE Red(t, m)
BY DEF IsTree, Node, Sides, Links, Kid, Up, Red, MapTree!IsRed,
       MapTree!Color, SameLinks

SideIn(t, up, n) == MapTree!SideOf(t, up, n)

LEMMA SideInFacts ==
  ASSUME NEW t, NEW up, NEW n
  PROVE  /\ SideIn(t, up, n) \in Sides
         /\ SideIn(t, up, n) = "left" <=> Kid(t, up, "left") = n
BY DEF SideIn, Sides, Kid, MapTree!SideOf

ChildReplaced(r, t, E, up, old, x) ==
  /\ IsTree(r, E)
  /\ r.root = IF up = NULL THEN x ELSE t.root
  /\ \A m \in E :
       /\ Red(r, m) <=> Red(t, m)
       /\ Up(r, m) = Up(t, m)
       /\ \A s \in Sides :
            Kid(r, m, s) = IF m = up /\ s = SideIn(t, up, old)
                             THEN x ELSE Kid(t, m, s)

LEMMA ReplaceChildFacts ==
  ASSUME NEW E, NULL \notin E, NEW t, IsTree(t, E), NEW up \in Links(E),
         NEW old, NEW x \in Links(E)
  PROVE  ChildReplaced(MapTree!ReplaceChild(t, up, old, x), t, E, up, old, x)
<1>1. CASE up = NULL
  <2>1. MapTree!ReplaceChild(t, up, old, x) = [t EXCEPT !.root = x]
    BY <1>1 DEF MapTree!ReplaceChild
  <2>2. RootSet([t EXCEPT !.root = x], t, E, x)
    BY RootFacts
  <2> QED
    BY <1>1, <2>1, <2>2 DEF RootSet, ChildReplaced
<1>2. CASE up # NULL
  <2>1. MapTree!ReplaceChild(t, up, old, x) =
          MapTree!SetChild(t, up, SideIn(t, up, old), x)
    BY <1>2 DEF MapTree!ReplaceChild, SideIn
  <2>2. up \in E /\ SideIn(t, up, old) \in Sides
    BY <1>2, SideInFacts DEF Links
  <2>3. ChildSet(MapTree!SetChild(t, up, SideIn(t, up, old), x),
                 t, E, up, SideIn(t, up, old), x)
    BY <2>2, SetChildFacts
  <2> QED
    BY <1>2, <2>1, <2>3 DEF ChildSet, ChildReplaced
<1> QED
  BY <1>1, <1>2

\* RB_ROTATE_LEFT and RB_ROTATE_RIGHT, link by link.
IsRotated(r, t, E, n, side) ==
  LET tmp == Kid(t, n, Opp(side))
      inner == Kid(t, tmp, side)
      up == Up(t, n)
  IN  /\ IsTree(r, E)
      /\ r.root = IF up = NULL THEN tmp ELSE t.root
      /\ \A m \in E :
           /\ Red(r, m) <=> Red(t, m)
           /\ Up(r, m) = IF m = inner THEN n
                         ELSE IF m = tmp THEN up
                         ELSE IF m = n THEN tmp ELSE Up(t, m)
           /\ \A s \in Sides :
                Kid(r, m, s) = IF m = up /\ s = SideIn(t, up, n) THEN tmp
                               ELSE IF m = tmp /\ s = side THEN n
                               ELSE IF m = n /\ s = Opp(side) THEN inner
                               ELSE Kid(t, m, s)

LEMMA RotateFacts ==
  ASSUME NEW E, NULL \notin E, NEW t, IsTree(t, E), NEW n \in E,
         NEW side \in Sides, Kid(t, n, Opp(side)) \in E,
         Up(t, n) # n, Up(t, n) # Kid(t, n, Opp(side))
  PROVE  IsRotated(MapTree!Rotate(t, n, side), t, E, n, side)
<1>1. PICK tmp : tmp = Kid(t, n, Opp(side))
  OBVIOUS
<1>2. PICK inner : inner = Kid(t, tmp, side)
  OBVIOUS
<1>3. PICK up : up = Up(t, n)
  OBVIOUS
<1>4. /\ tmp \in E /\ inner \in Links(E) /\ up \in Links(E)
      /\ n \in Links(E) /\ tmp \in Links(E) /\ Opp(side) \in Sides
  BY <1>1, <1>2, <1>3, OppFacts, TreeTyped DEF Links
<1>5. PICK t1 : t1 = MapTree!SetChild(t, n, Opp(side), inner)
  OBVIOUS
<1>6. PICK t2 : t2 = MapTree!SetChild(t1, tmp, side, n)
  OBVIOUS
<1>7. PICK t3 : t3 = MapTree!SetParent(t2, n, tmp)
  OBVIOUS
<1>8. PICK t4 : t4 = MapTree!SetParent(t3, tmp, up)
  OBVIOUS
<1>9. PICK t5 : t5 = MapTree!SetParent(t4, inner, n)
  OBVIOUS
<1>10. PICK r : r = MapTree!ReplaceChild(t5, up, n, tmp)
  BY SMTT(30)
<1>11. r = MapTree!Rotate(t, n, side)
  BY <1>1, <1>2, <1>3, <1>5, <1>6, <1>7, <1>8, <1>9, <1>10
  DEF MapTree!Rotate, Kid, Up, Opp
<1>12. ChildSet(t1, t, E, n, Opp(side), inner)
  BY <1>4, <1>5, SetChildFacts
<1>13. ChildSet(t2, t1, E, tmp, side, n)
  <2>1. IsTree(t1, E)
    BY <1>12 DEF ChildSet
  <2> QED
    BY <1>4, <1>6, <2>1, SetChildFacts
<1>14. ParentSet(t3, t2, E, n, tmp)
  <2>1. IsTree(t2, E)
    BY <1>13 DEF ChildSet
  <2> QED
    BY <1>4, <1>7, <2>1, SetParentFacts
<1>15. ParentSet(t4, t3, E, tmp, up)
  <2>1. IsTree(t3, E)
    BY <1>14 DEF ParentSet
  <2> QED
    BY <1>4, <1>8, <2>1, SetParentFacts
<1>16. ParentSet(t5, t4, E, inner, n)
  <2>1. IsTree(t4, E)
    BY <1>15 DEF ParentSet
  <2> QED
    BY <1>4, <1>9, <2>1, SetParentFacts
<1>17. /\ t5.root = t.root
       /\ \A m \in E :
            /\ Red(t5, m) <=> Red(t, m)
            /\ Up(t5, m) = IF m = inner THEN n
                           ELSE IF m = tmp THEN up
                           ELSE IF m = n THEN tmp ELSE Up(t, m)
            /\ \A s \in Sides :
                 Kid(t5, m, s) = IF m = tmp /\ s = side THEN n
                                 ELSE IF m = n /\ s = Opp(side) THEN inner
                                 ELSE Kid(t, m, s)
  BY <1>12, <1>13, <1>14, <1>15, <1>16 DEF ChildSet, ParentSet
<1>18. ChildReplaced(r, t5, E, up, n, tmp)
  <2>1. IsTree(t5, E)
    BY <1>16 DEF ParentSet
  <2> QED
    BY <1>4, <1>10, <2>1, ReplaceChildFacts
<1>19. SideIn(t5, up, n) = SideIn(t, up, n) \/ up = NULL
  <2> SUFFICES ASSUME up \in E PROVE SideIn(t5, up, n) = SideIn(t, up, n)
    BY <1>4 DEF Links
  <2>1. Kid(t5, up, "left") = Kid(t, up, "left")
    BY <1>1, <1>3, <1>17 DEF Sides
  <2> QED
    BY <2>1 DEF SideIn, MapTree!SideOf, Kid
<1>20. IsRotated(r, t, E, n, side)
  BY <1>1, <1>2, <1>3, <1>4, <1>17, <1>18, <1>19
  DEF IsRotated, ChildReplaced
<1> QED
  BY <1>11, <1>20

-----------------------------------------------------------------------------
(* Numbers.                                                                *)

LEMMA LeastNat ==
  ASSUME NEW T \in SUBSET Nat, T # {}
  PROVE  \E n \in T : \A m \in T : n <= m
<1>1. PICK n \in T : \A m \in T : ~ (<<m, n>> \in OpToRel(<, Nat))
  BY WFMin, NatLessThanWellFounded
<1>2. ASSUME NEW m \in T, m < n PROVE FALSE
  <2>1. \A ss : ss \in OpToRel(<, Nat) <=> ss \in Nat \X Nat /\ ss[1] < ss[2]
    BY Zenon DEF OpToRel
  <2>2. <<m, n>> \in OpToRel(<, Nat)
    BY <2>1, <1>2
  <2>3. QED
    BY <1>1, <2>2
<1>3. QED
  BY <1>2

LEMMA NatSet ==
  ASSUME NEW T, 0 \in T, \A n \in T \cap Nat : n + 1 \in T
  PROVE  Nat \subseteq T
<1> SUFFICES ASSUME Nat \ T # {} PROVE FALSE
  OBVIOUS
<1>1. PICK n \in Nat \ T : \A m \in Nat \ T : n <= m
  BY LeastNat
<1>2. n # 0 /\ n - 1 \in Nat /\ ~ (n <= n - 1) /\ (n - 1) + 1 = n
  OBVIOUS
<1>3. n - 1 \in T
  BY <1>1, <1>2
<1>4. QED
  BY <1>2, <1>3

\* An element of least rank.
LEMMA LeastRank ==
  ASSUME NEW T, T # {}, NEW rank, \A n \in T : rank[n] \in Nat
  PROVE  \E n \in T : \A m \in T : rank[n] <= rank[m]
<1> DEFINE R == {rank[n] : n \in T}
<1>1. R \in SUBSET Nat /\ R # {}
  OBVIOUS
<1>2. PICK k \in R : \A j \in R : k <= j
  <2> HIDE DEF R
  <2> QED
    BY <1>1, LeastNat
<1> QED
  BY <1>2

-----------------------------------------------------------------------------
(* Shape: S[n] is the set of the elements below n, n included.             *)

Before(side, m, n) == IF side = "left" THEN m < n ELSE n < m

InSub(S, m, c) == c # NULL /\ m \in S[c]

\* What links an element to the others, and the keys around it.
NodeShape(t, D, S, n) ==
  /\ Up(t, n) \in Links(D)
  /\ Up(t, n) = NULL => n = t.root
  /\ Up(t, n) # NULL => \E s \in Sides : Kid(t, Up(t, n), s) = n
  /\ \A s \in Sides :
       /\ Kid(t, n, s) \in Links(D)
       /\ Kid(t, n, s) # NULL => Up(t, Kid(t, n, s)) = n
       /\ \A m \in D : InSub(S, m, Kid(t, n, s)) => Before(s, m, n)
  /\ \A m \in D : m \in S[n] <=>
       m = n \/ \E s \in Sides : InSub(S, m, Kid(t, n, s))

Shape(t, D, S) ==
  /\ IsFiniteSet(D) /\ NULL \notin D /\ \A n \in D : n \in Nat
  /\ S \in [D -> SUBSET D]
  /\ t.root \in Links(D)
  /\ \A m \in D : InSub(S, m, t.root)
  /\ t.root # NULL => Up(t, t.root) = NULL
  /\ \A n \in D : NodeShape(t, D, S, n)

LEMMA BeforeFacts ==
  ASSUME NEW s \in Sides, NEW a \in Nat, NEW b \in Nat, NEW c \in Nat
  PROVE  /\ ~ Before(s, a, a)
         /\ Before(Opp(s), a, b) <=> Before(s, b, a)
         /\ Before(s, a, b) => ~ Before(s, b, a)
         /\ Before(s, a, b) /\ Before(s, b, c) => Before(s, a, c)
         /\ a # b => Before(s, a, b) \/ Before(s, b, a)
BY DEF Before, Opp, MapTree!Other, Sides

LEMMA SubMember ==
  ASSUME NEW t, NEW D, NEW S, Shape(t, D, S), NEW n \in D
  PROVE  /\ n \in S[n] /\ n # NULL /\ n \in Nat
         /\ \A m : m \in S[n] => m \in D
         /\ \A s \in Sides : \A m : InSub(S, m, Kid(t, n, s)) => m \in D
BY DEF Shape, NodeShape, InSub, Links

\* The subtrees of an element are apart, and it is in none of them.
LEMMA KidsApart ==
  ASSUME NEW t, NEW D, NEW S, Shape(t, D, S), NEW n \in D, NEW s \in Sides
  PROVE  /\ ~ InSub(S, n, Kid(t, n, s))
         /\ \A m \in D : InSub(S, m, Kid(t, n, s)) =>
                           ~ InSub(S, m, Kid(t, n, Opp(s)))
<1>1. n \in Nat /\ \A m \in D : m \in Nat
  BY DEF Shape, NodeShape
<1>2. \A m \in D, r \in Sides : InSub(S, m, Kid(t, n, r)) => Before(r, m, n)
  BY DEF Shape, NodeShape
<1>3. Opp(s) \in Sides
  BY OppFacts
<1>4. ~ Before(s, n, n)
  BY <1>1, BeforeFacts
<1>5. \A m \in D : Before(s, m, n) => ~ Before(Opp(s), m, n)
  BY <1>1, BeforeFacts
<1> QED
  BY <1>2, <1>3, <1>4, <1>5

\* A child is an element, and not on both sides.
LEMMA KidFacts ==
  ASSUME NEW t, NEW D, NEW S, Shape(t, D, S), NEW n \in D, NEW s \in Sides,
         Kid(t, n, s) # NULL
  PROVE  /\ Kid(t, n, s) \in D /\ Kid(t, n, s) # n
         /\ Kid(t, n, s) \in S[n]
         /\ Up(t, Kid(t, n, s)) = n
         /\ Kid(t, n, Opp(s)) # Kid(t, n, s)
         /\ \A m : m \in S[Kid(t, n, s)] => m \in S[n] /\ m # n
         /\ Kid(t, n, s) # t.root
<1>1. Kid(t, n, s) \in D /\ Up(t, Kid(t, n, s)) = n
  BY DEF Shape, NodeShape, Links
<1>2. InSub(S, Kid(t, n, s), Kid(t, n, s))
  BY <1>1, SubMember DEF InSub
<1>3. Opp(s) \in Sides
  BY OppFacts
<1>4. \A m \in D : InSub(S, m, Kid(t, n, s)) => m \in S[n] /\ m # n
  BY KidsApart DEF Shape, NodeShape
<1>5. \A m : m \in S[Kid(t, n, s)] => m \in D /\ InSub(S, m, Kid(t, n, s))
  BY <1>1, SubMember DEF InSub
<1>6. Kid(t, n, Opp(s)) # Kid(t, n, s)
  BY <1>1, <1>2, KidsApart
<1>7. Kid(t, n, s) # t.root
  BY <1>1, SubMember DEF Shape, NodeShape
<1> QED
  BY <1>1, <1>2, <1>4, <1>5, <1>6, <1>7

\* Nothing but the root has no parent, and a parent has its child on one side.
LEMMA UpFacts ==
  ASSUME NEW t, NEW D, NEW S, Shape(t, D, S), NEW n \in D
  PROVE  /\ Up(t, n) = NULL <=> n = t.root
         /\ Up(t, n) # NULL =>
              /\ Up(t, n) \in D /\ Up(t, n) # n
              /\ n \in S[Up(t, n)]
              /\ SideIn(t, Up(t, n), n) \in Sides
              /\ Kid(t, Up(t, n), SideIn(t, Up(t, n), n)) = n
              /\ Kid(t, Up(t, n), Opp(SideIn(t, Up(t, n), n))) # n
<1>1. Up(t, n) = NULL <=> n = t.root
  BY SubMember DEF Shape, NodeShape
<1>2. ASSUME Up(t, n) # NULL
      PROVE  /\ Up(t, n) \in D /\ Up(t, n) # n /\ n \in S[Up(t, n)]
             /\ SideIn(t, Up(t, n), n) \in Sides
             /\ Kid(t, Up(t, n), SideIn(t, Up(t, n), n)) = n
             /\ Kid(t, Up(t, n), Opp(SideIn(t, Up(t, n), n))) # n
  <2>1. PICK up : up = Up(t, n)
    OBVIOUS
  <2>2. PICK s \in Sides : Kid(t, up, s) = n
    BY <1>2, <2>1 DEF Shape, NodeShape
  <2>3. up \in D /\ n # NULL
    BY <1>2, <2>1, SubMember DEF Shape, NodeShape, Links
  <2>4. up # n /\ n \in S[up] /\ Kid(t, up, Opp(s)) # n
    BY <2>2, <2>3, KidFacts
  <2>5. SideIn(t, up, n) = s
    BY <2>2, <2>4, SideInFacts DEF Sides, Opp, MapTree!Other
  <2> QED
    BY <2>1, <2>2, <2>3, <2>4, <2>5
<1> QED
  BY <1>1, <1>2

\* The side of an element that is there.
LEMMA SideOfKid ==
  ASSUME NEW t, NEW D, NEW S, Shape(t, D, S), NEW n \in D, NEW s \in Sides,
         Kid(t, n, s) # NULL
  PROVE  SideIn(t, n, Kid(t, n, s)) = s
<1>1. PICK c : c = Kid(t, n, s)
  OBVIOUS
<1>2. c \in D /\ Up(t, c) = n /\ n # NULL /\ Kid(t, n, Opp(s)) # c
  BY <1>1, KidFacts, SubMember
<1>3. SideIn(t, n, c) \in Sides /\ Kid(t, n, SideIn(t, n, c)) = c
  BY <1>2, UpFacts
<1> QED
  BY <1>1, <1>2, <1>3, OppFacts

\* How many elements there are below an element.
LEMMA Sizes ==
  ASSUME NEW t, NEW D, NEW S, Shape(t, D, S)
  PROVE  \E size \in [D -> Nat], k \in Nat :
           /\ \A n \in D : size[n] <= k
           /\ \A n \in D, s \in Sides :
                Kid(t, n, s) # NULL => size[Kid(t, n, s)] < size[n]
<1> DEFINE size == [n \in D |-> Cardinality(S[n])]
<1>1. IsFiniteSet(D) /\ Cardinality(D) \in Nat
  BY FS_CardinalityType DEF Shape, NodeShape
<1>2. ASSUME NEW n \in D
      PROVE  /\ S[n] \in SUBSET D /\ IsFiniteSet(S[n])
             /\ Cardinality(S[n]) \in Nat
             /\ Cardinality(S[n]) <= Cardinality(D)
  <2>1. S[n] \in SUBSET D
    BY DEF Shape, NodeShape
  <2>2. IsFiniteSet(S[n]) /\ Cardinality(S[n]) <= Cardinality(D)
    BY <1>1, <2>1, FS_Subset
  <2> QED
    BY <2>1, <2>2, FS_CardinalityType
<1>3. ASSUME NEW n \in D, NEW s \in Sides, Kid(t, n, s) # NULL
      PROVE  Cardinality(S[Kid(t, n, s)]) < Cardinality(S[n])
  <2>1. PICK c : c = Kid(t, n, s)
    OBVIOUS
  <2>2. c \in D /\ n \in S[n] /\ \A m : m \in S[c] => m \in S[n] /\ m # n
    BY <1>3, <2>1, KidFacts, SubMember
  <2>3. S[c] \in SUBSET S[n] /\ S[c] # S[n]
    BY <2>2
  <2>4. Cardinality(S[c]) <= Cardinality(S[n])
        /\ Cardinality(S[c]) # Cardinality(S[n])
    BY <1>2, <2>3, FS_Subset
  <2>5. Cardinality(S[c]) \in Nat /\ Cardinality(S[n]) \in Nat
    BY <1>2, <2>2
  <2> QED
    BY <2>1, <2>4, <2>5
<1>4. size \in [D -> Nat] /\ \A n \in D : size[n] <= Cardinality(D)
  BY <1>2
<1>5. \A n \in D, s \in Sides :
        Kid(t, n, s) # NULL => size[Kid(t, n, s)] < size[n]
  BY <1>3, KidFacts
<1> QED
  BY <1>1, <1>4, <1>5

\* Induction down the tree: a set that has a child of each of its elements is
\* empty.
LEMMA Downward ==
  ASSUME NEW t, NEW D, NEW S, Shape(t, D, S), NEW T \in SUBSET D,
         \A n \in T : \E s \in Sides : Kid(t, n, s) \in T
  PROVE  T = {}
<1> SUFFICES ASSUME T # {} PROVE FALSE
  OBVIOUS
<1>1. PICK size \in [D -> Nat] :
        \A n \in D, s \in Sides :
          Kid(t, n, s) # NULL => size[Kid(t, n, s)] < size[n]
  BY Sizes
<1>2. \A n \in T : size[n] \in Nat
  BY <1>1
<1>3. PICK n \in T : \A m \in T : size[n] <= size[m]
  BY <1>2, LeastRank
<1>4. PICK s \in Sides : Kid(t, n, s) \in T
  OBVIOUS
<1>5. Kid(t, n, s) # NULL /\ n \in D
  BY <1>4 DEF Shape, NodeShape
<1>6. size[Kid(t, n, s)] < size[n] /\ size[n] <= size[Kid(t, n, s)]
  BY <1>1, <1>3, <1>4, <1>5
<1> QED
  BY <1>2, <1>4, <1>6

\* Induction up the tree: so is a set that has their parents.
LEMMA Upward ==
  ASSUME NEW t, NEW D, NEW S, Shape(t, D, S), NEW T \in SUBSET D,
         \A n \in T : Up(t, n) \in T
  PROVE  T = {}
<1> SUFFICES ASSUME T # {} PROVE FALSE
  OBVIOUS
<1>1. PICK size \in [D -> Nat], k \in Nat :
        /\ \A n \in D : size[n] <= k
        /\ \A n \in D, s \in Sides :
             Kid(t, n, s) # NULL => size[Kid(t, n, s)] < size[n]
  BY Sizes
<1> DEFINE rank == [n \in D |-> k - size[n]]
<1>2. \A n \in T : rank[n] \in Nat /\ rank[n] = k - size[n] /\ size[n] \in Nat
  BY <1>1
<1>3. PICK n \in T : \A m \in T : rank[n] <= rank[m]
  <2> HIDE DEF rank
  <2> QED
    BY <1>2, LeastRank
<1>4. PICK up : up = Up(t, n)
  OBVIOUS
<1>5. up \in T /\ up \in D /\ up # NULL
  BY <1>4 DEF Shape, NodeShape
<1>6. PICK s \in Sides : Kid(t, up, s) = n
  BY <1>4, <1>5 DEF Shape, NodeShape
<1>7. size[n] < size[up]
  BY <1>1, <1>5, <1>6, SubMember
<1> HIDE DEF rank
<1>8. /\ rank[n] <= rank[up]
      /\ rank[n] = k - size[n] /\ rank[up] = k - size[up]
      /\ size[n] \in Nat /\ size[up] \in Nat
  BY <1>2, <1>3, <1>5
<1> QED
  BY <1>7, <1>8

\* The subtree of an element is within every subtree that it is in.
LEMMA Within ==
  ASSUME NEW t, NEW D, NEW S, Shape(t, D, S)
  PROVE  \A n \in D : \A m \in S[n] : \A x \in S[m] : x \in S[n]
<1> DEFINE T == {n \in D : \E m \in S[n] : \E x \in S[m] : x \notin S[n]}
<1>1. ASSUME NEW n \in T PROVE \E s \in Sides : Kid(t, n, s) \in T
  <2>1. PICK m \in S[n] : \E x \in S[m] : x \notin S[n]
    OBVIOUS
  <2>2. PICK x \in S[m] : x \notin S[n]
    BY <2>1
  <2>3. m # n /\ m \in D
    BY <2>2, SubMember
  <2>4. PICK s \in Sides : InSub(S, m, Kid(t, n, s))
    BY <2>3 DEF Shape, NodeShape
  <2>5. Kid(t, n, s) \in D /\ m \in S[Kid(t, n, s)]
        /\ x \notin S[Kid(t, n, s)]
    BY <2>2, <2>4, KidFacts DEF InSub
  <2> QED
    BY <2>5
<1>2. T = {}
  <2>1. T \in SUBSET D
    OBVIOUS
  <2> HIDE DEF T
  <2> QED
    BY <1>1, <2>1, Downward
<1> QED
  BY <1>2

\* With an element, the subtree of another one has its parent.
LEMMA UpWithin ==
  ASSUME NEW t, NEW D, NEW S, Shape(t, D, S)
  PROVE  \A n \in D : \A m \in S[n] : m # n => Up(t, m) \in S[n]
<1> DEFINE T == {n \in D : \E m \in S[n] : m # n /\ Up(t, m) \notin S[n]}
<1>1. ASSUME NEW n \in T PROVE \E s \in Sides : Kid(t, n, s) \in T
  <2>1. PICK m \in S[n] : m # n /\ Up(t, m) \notin S[n]
    OBVIOUS
  <2>2. m \in D
    BY SubMember
  <2>3. PICK s \in Sides : InSub(S, m, Kid(t, n, s))
    BY <2>1, <2>2 DEF Shape, NodeShape
  <2>4. /\ Kid(t, n, s) \in D /\ m \in S[Kid(t, n, s)]
        /\ Up(t, m) \notin S[Kid(t, n, s)]
        /\ Up(t, Kid(t, n, s)) = n /\ n \in S[n]
    BY <2>1, <2>3, KidFacts, SubMember DEF InSub
  <2>5. m # Kid(t, n, s)
    BY <2>1, <2>4
  <2> QED
    BY <2>4, <2>5
<1>2. T = {}
  <2>1. T \in SUBSET D
    OBVIOUS
  <2> HIDE DEF T
  <2> QED
    BY <1>1, <2>1, Downward
<1> QED
  BY <1>2

LEMMA Antisymmetric ==
  ASSUME NEW t, NEW D, NEW S, Shape(t, D, S), NEW n \in D, NEW m \in S[n],
         n \in S[m]
  PROVE  m = n
<1> SUFFICES ASSUME m # n PROVE FALSE
  OBVIOUS
<1>1. m \in D
  BY SubMember
<1>2. PICK s \in Sides : InSub(S, m, Kid(t, n, s))
  BY <1>1 DEF Shape, NodeShape
<1>3. n \in S[Kid(t, n, s)] /\ Kid(t, n, s) # NULL
  BY <1>2, KidFacts, Within DEF InSub
<1> QED
  BY <1>3, KidFacts

\* What is outside a subtree is before all of it or after all of it.
LEMMA Convex ==
  ASSUME NEW t, NEW D, NEW S, Shape(t, D, S)
  PROVE  \A n \in D : \A m \in D : m \notin S[n] =>
           \E s \in Sides : \A x \in S[n] : Before(s, x, m)
<1> DEFINE T == {n \in D : \E m \in D : /\ m \notin S[n]
                                        /\ \A s \in Sides : \E x \in S[n] :
                                             ~ Before(s, x, m)}
<1>1. ASSUME NEW n \in T PROVE Up(t, n) \in T
  <2>1. PICK m \in D : /\ m \notin S[n]
                       /\ \A s \in Sides : \E x \in S[n] : ~ Before(s, x, m)
    OBVIOUS
  <2>2. PICK up : up = Up(t, n)
    OBVIOUS
  <2>3. up # NULL
    BY <2>1, <2>2 DEF Shape, NodeShape, InSub
  <2>4. up \in D
    BY <2>2, <2>3 DEF Shape, NodeShape, Links
  <2>5. PICK side \in Sides : Kid(t, up, side) = n
    BY <2>2, <2>3 DEF Shape, NodeShape
  <2>6. n # NULL /\ \A x \in S[n] : x \in D /\ x \in Nat
    BY SubMember
  <2>7. \A x \in S[n] : x \in S[up] /\ Before(side, x, up)
    BY <2>4, <2>5, <2>6, KidFacts DEF Shape, NodeShape, InSub
  <2>8. m # up
    BY <2>1, <2>7
  <2>9. m \notin S[up]
    <3> SUFFICES ASSUME m \in S[up] PROVE FALSE
      OBVIOUS
    <3>1. PICK r \in Sides : InSub(S, m, Kid(t, up, r))
      BY <2>4, <2>8 DEF Shape, NodeShape
    <3>2. r = Opp(side)
      BY <2>1, <2>5, <3>1, OppFacts DEF InSub
    <3>3. Before(r, m, up) /\ up \in Nat /\ m \in Nat
      BY <2>4, <3>1 DEF Shape, NodeShape
    <3>4. Before(side, up, m)
      BY <3>2, <3>3, BeforeFacts
    <3>5. \A x \in S[n] : Before(side, x, m)
      BY <2>6, <2>7, <3>3, <3>4, BeforeFacts
    <3> QED
      BY <2>1, <3>5
  <2>10. \A s \in Sides : \E x \in S[up] : ~ Before(s, x, m)
    BY <2>1, <2>7
  <2> QED
    BY <2>2, <2>4, <2>9, <2>10
<1>2. T = {}
  <2>1. T \in SUBSET D
    OBVIOUS
  <2> HIDE DEF T
  <2> QED
    BY <1>1, <2>1, Upward
<1> QED
  BY <1>2

-----------------------------------------------------------------------------
(* Rotations, insertions and removals keep the shape.                      *)

LEMMA RotationPlaces ==
  ASSUME NEW t, NEW D, NEW S, Shape(t, D, S), NEW n \in D, NEW side \in Sides,
         NEW tmp, tmp = Kid(t, n, Opp(side)), tmp # NULL,
         NEW inner, inner = Kid(t, tmp, side), NEW up, up = Up(t, n)
  PROVE  /\ tmp \in D /\ tmp # n /\ Up(t, tmp) = n /\ tmp # t.root
         /\ up # n /\ up # tmp /\ up \in Links(D)
         /\ inner \in Links(D) /\ inner # tmp /\ inner # n
         /\ inner # up \/ up = NULL
         /\ inner # NULL => Up(t, inner) = tmp
<1>1. Opp(side) \in Sides
  BY OppFacts
<1>2. /\ tmp \in D /\ tmp # n /\ Up(t, tmp) = n /\ tmp # t.root
      /\ tmp \in S[n] /\ n # NULL
      /\ \A m : m \in S[tmp] => m \in S[n] /\ m # n
  BY <1>1, KidFacts, SubMember
<1>3. up \in Links(D)
  BY DEF Shape, NodeShape
<1>4. up # NULL => up \in D /\ up # n /\ n \in S[up]
  BY UpFacts
<1>5. up # tmp
  BY <1>2, <1>4, SubMember
<1>6. inner # NULL => inner \in D /\ inner # tmp /\ Up(t, inner) = tmp
                      /\ inner \in S[tmp]
  BY <1>2, KidFacts
<1>7. inner # NULL /\ up # NULL => inner # up
  BY <1>2, <1>4, <1>6, Antisymmetric
<1> QED
  BY <1>2, <1>3, <1>4, <1>5, <1>6, <1>7 DEF Links

LEMMA RotationShape ==
  ASSUME NEW t, NEW D, NEW S, Shape(t, D, S), NEW n \in D, NEW side \in Sides,
         Kid(t, n, Opp(side)) # NULL,
         NEW r, IsRotated(r, t, D, n, side)
  PROVE  \E R : Shape(r, D, R)
<1>1. PICK tmp : tmp = Kid(t, n, Opp(side))
  OBVIOUS
<1>2. PICK inner : inner = Kid(t, tmp, side)
  OBVIOUS
<1>3. PICK up : up = Up(t, n)
  OBVIOUS
<1>4. /\ tmp \in D /\ tmp # n /\ Up(t, tmp) = n /\ tmp # t.root
      /\ up # n /\ up # tmp /\ up \in Links(D)
      /\ inner \in Links(D) /\ inner # tmp /\ inner # n
      /\ inner # up \/ up = NULL
      /\ inner # NULL => Up(t, inner) = tmp
  BY <1>1, <1>2, <1>3, RotationPlaces
<1>5. PICK s0 : s0 = SideIn(t, up, n)
  OBVIOUS
<1>6. /\ up = NULL <=> n = t.root
      /\ up # NULL => /\ up \in D /\ s0 \in Sides /\ Kid(t, up, s0) = n
                      /\ Kid(t, up, Opp(s0)) # n /\ n \in S[up]
  BY <1>3, <1>5, UpFacts
<1>7. /\ n # NULL /\ tmp # NULL /\ NULL \notin D
      /\ Opp(side) \in Sides /\ Opp(side) # side /\ Opp(Opp(side)) = side
      /\ \A s \in Sides : s = side \/ s = Opp(side)
  BY <1>4, SubMember, OppFacts DEF Shape
<1>8. /\ r.root = IF up = NULL THEN tmp ELSE t.root
      /\ \A m \in D :
           /\ Up(r, m) = IF m = inner THEN n
                         ELSE IF m = tmp THEN up
                         ELSE IF m = n THEN tmp ELSE Up(t, m)
           /\ \A s \in Sides :
                Kid(r, m, s) = IF m = up /\ s = s0 THEN tmp
                               ELSE IF m = tmp /\ s = side THEN n
                               ELSE IF m = n /\ s = Opp(side) THEN inner
                               ELSE Kid(t, m, s)
  BY <1>1, <1>2, <1>3, <1>5 DEF IsRotated
<1>9. PICK R : R = [m \in D |->
                      IF m = tmp THEN S[n]
                      ELSE IF m = n
                        THEN {x \in S[n] : \/ x = n
                                           \/ InSub(S, x, Kid(t, n, side))
                                           \/ InSub(S, x, inner)}
                        ELSE S[m]]
  OBVIOUS
<1>10. S \in [D -> SUBSET D] /\ \A m \in D : m \in Nat
  BY DEF Shape
<1>11. R \in [D -> SUBSET D]
  BY <1>9, <1>10, <1>4
<1>12. /\ R[tmp] = S[n]
       /\ \A m \in D : m # tmp /\ m # n => R[m] = S[m]
       /\ \A x \in D : x \in R[n] <=> \/ x = n
                                      \/ InSub(S, x, Kid(t, n, side))
                                      \/ InSub(S, x, inner)
  <2>1. R[tmp] = S[n] /\ \A m \in D : m # tmp /\ m # n => R[m] = S[m]
    BY <1>4, <1>9
  <2>2. \A x \in D : InSub(S, x, inner) => InSub(S, x, tmp)
    BY <1>2, <1>4, KidFacts, SubMember DEF InSub
  <2>3. \A x \in D : \/ x = n
                     \/ InSub(S, x, Kid(t, n, side))
                     \/ InSub(S, x, inner)
                     => x \in S[n]
    BY <1>1, <1>7, <2>2 DEF Shape, NodeShape
  <2> QED
    BY <1>4, <1>9, <2>1, <2>3
<1>13. \A c \in Links(D) : c # tmp /\ c # n =>
         \A m : InSub(R, m, c) <=> InSub(S, m, c)
  BY <1>12 DEF InSub, Links
<1>14. /\ \A m : InSub(R, m, tmp) <=> InSub(S, m, n)
       /\ \A m \in D : InSub(R, m, n) <=> \/ m = n
                                          \/ InSub(S, m, Kid(t, n, side))
                                          \/ InSub(S, m, inner)
  BY <1>7, <1>12 DEF InSub
<1>15. Shape(t, D, S)
  OBVIOUS
<1>16. NodeShape(r, D, R, tmp)
  <2>1. /\ Kid(r, tmp, side) = n /\ Up(r, tmp) = up
        /\ Kid(r, tmp, Opp(side)) = Kid(t, tmp, Opp(side))
    BY <1>4, <1>7, <1>8
  <2>2. up = NULL => tmp = r.root
    BY <1>8
  <2>3. up # NULL => Kid(r, up, s0) = tmp /\ s0 \in Sides
    BY <1>6, <1>8
  <2>4. PICK c : c = Kid(t, tmp, Opp(side))
    OBVIOUS
  <2>5. /\ c \in Links(D) /\ c # tmp /\ c # n
        /\ c # NULL => Up(t, c) = tmp /\ c # inner
        /\ \A m \in D : InSub(S, m, c) => Before(Opp(side), m, tmp)
    <3>1. c # NULL => c \in D /\ c # tmp /\ Up(t, c) = tmp /\ c \in S[tmp]
      BY <1>4, <1>7, <2>4, KidFacts
    <3>2. c # NULL => c # inner
      BY <1>2, <1>4, <1>7, <2>4, KidFacts
    <3>3. \A m : m \in S[tmp] => m # n
      BY <1>1, <1>7, KidFacts
    <3>4. \A m \in D : InSub(S, m, c) => Before(Opp(side), m, tmp)
      BY <1>4, <1>7, <2>4 DEF Shape, NodeShape
    <3> QED
      BY <1>7, <3>1, <3>2, <3>3, <3>4 DEF Links
  <2>6. c # NULL => Up(r, c) = tmp
    BY <1>8, <2>5 DEF Links
  <2>7. Up(r, n) = tmp
    BY <1>4, <1>8
  <2>8. \A m \in D : InSub(R, m, c) <=> InSub(S, m, c)
    BY <1>13, <2>5
  <2>9. ASSUME NEW m \in D, InSub(R, m, n) PROVE Before(side, m, tmp)
    <3>1. Before(Opp(side), tmp, n) /\ tmp \in Nat /\ m \in Nat /\ n \in Nat
      <4>1. InSub(S, tmp, Kid(t, n, Opp(side)))
        BY <1>1, <1>4, <1>7, SubMember DEF InSub
      <4> QED
        BY <1>4, <1>7, <1>10, <4>1 DEF Shape, NodeShape
    <3>2. Before(side, n, tmp)
      BY <3>1, <1>7, BeforeFacts
    <3>3. CASE m = n
      BY <3>2, <3>3
    <3>4. CASE InSub(S, m, Kid(t, n, side))
      <4>1. Before(side, m, n)
        BY <3>4 DEF Shape, NodeShape
      <4> QED
        BY <3>1, <3>2, <4>1, BeforeFacts
    <3>5. CASE InSub(S, m, inner)
      BY <1>2, <1>4, <3>5 DEF Shape, NodeShape
    <3> QED
      BY <1>14, <2>9, <3>3, <3>4, <3>5
  <2>10. ASSUME NEW m \in D
         PROVE  m \in R[tmp] <=> m = tmp \/ InSub(R, m, n) \/ InSub(R, m, c)
    <3>1. m \in S[n] <=> m = n \/ InSub(S, m, Kid(t, n, side))
                               \/ InSub(S, m, tmp)
      BY <1>1, <1>7 DEF Shape, NodeShape
    <3>2. InSub(S, m, tmp) <=> m = tmp \/ InSub(S, m, inner) \/ InSub(S, m, c)
      BY <1>2, <1>4, <1>7, <2>4 DEF Shape, NodeShape, InSub
    <3> QED
      BY <1>12, <1>14, <2>8, <3>1, <3>2
  <2>11. \A s \in Sides :
           /\ Kid(r, tmp, s) \in Links(D)
           /\ Kid(r, tmp, s) # NULL => Up(r, Kid(r, tmp, s)) = tmp
           /\ \A m \in D : InSub(R, m, Kid(r, tmp, s)) => Before(s, m, tmp)
    BY <1>7, <2>1, <2>4, <2>5, <2>6, <2>7, <2>8, <2>9 DEF Links
  <2>12. \A m \in D : m \in R[tmp] <=>
           m = tmp \/ \E s \in Sides : InSub(R, m, Kid(r, tmp, s))
    BY <1>7, <2>1, <2>4, <2>10
  <2> QED
    BY <1>4, <2>1, <2>2, <2>3, <2>11, <2>12 DEF NodeShape
<1>17. NodeShape(r, D, R, n)
  <2>1. /\ Kid(r, n, Opp(side)) = inner /\ Up(r, n) = tmp
        /\ Kid(r, n, side) = Kid(t, n, side)
        /\ Kid(r, tmp, side) = n
    BY <1>4, <1>7, <1>8
  <2>2. PICK c : c = Kid(t, n, side)
    OBVIOUS
  <2>3. /\ c \in Links(D) /\ c # tmp /\ c # n
        /\ c # NULL => Up(t, c) = n /\ c # inner
        /\ \A m \in D : InSub(S, m, c) => Before(side, m, n)
    <3>1. c # NULL => c \in D /\ c # n /\ Up(t, c) = n /\ c # tmp
      BY <1>1, <1>7, <2>2, KidFacts
    <3>2. c # NULL => c # inner
      BY <1>4, <1>7, <3>1
    <3>3. \A m \in D : InSub(S, m, c) => Before(side, m, n)
      BY <2>2 DEF Shape, NodeShape
    <3> QED
      BY <1>7, <3>1, <3>2, <3>3 DEF Links
  <2>4. c # NULL => Up(r, c) = n
    BY <1>8, <2>3 DEF Links
  <2>5. inner # NULL => Up(r, inner) = n
    BY <1>4, <1>8 DEF Links
  <2>6. \A m : InSub(R, m, c) <=> InSub(S, m, c)
    BY <1>13, <2>3
  <2>7. \A m : InSub(R, m, inner) <=> InSub(S, m, inner)
    BY <1>4, <1>13
  <2>8. ASSUME NEW m \in D, InSub(S, m, inner) PROVE Before(Opp(side), m, n)
    <3>1. InSub(S, m, tmp)
      BY <1>2, <1>4, <2>8, KidFacts, SubMember DEF InSub
    <3> QED
      BY <1>1, <1>7, <3>1 DEF Shape, NodeShape
  <2>9. \A s \in Sides :
          /\ Kid(r, n, s) \in Links(D)
          /\ Kid(r, n, s) # NULL => Up(r, Kid(r, n, s)) = n
          /\ \A m \in D : InSub(R, m, Kid(r, n, s)) => Before(s, m, n)
    BY <1>4, <1>7, <2>1, <2>2, <2>3, <2>4, <2>5, <2>6, <2>7, <2>8
  <2>10. \A m \in D : m \in R[n] <=>
           m = n \/ \E s \in Sides : InSub(R, m, Kid(r, n, s))
    BY <1>7, <1>12, <2>1, <2>2, <2>6, <2>7
  <2> QED
    BY <1>4, <1>7, <2>1, <2>9, <2>10 DEF NodeShape, Links
<1>18. ASSUME NEW m \in D, m # tmp, m # n PROVE NodeShape(r, D, R, m)
  <2>1. NodeShape(t, D, S, m)
    BY DEF Shape
  <2>2. Up(r, m) = IF m = inner THEN n ELSE Up(t, m)
    BY <1>8, <1>18
  <2>3. /\ Up(r, m) \in Links(D)
        /\ Up(r, m) = NULL => m = r.root
    BY <1>6, <1>7, <1>8, <1>18, <2>1, <2>2 DEF NodeShape, Links
  <2>4. ASSUME Up(r, m) # NULL PROVE \E s \in Sides : Kid(r, Up(r, m), s) = m
    <3>1. CASE m = inner
      BY <1>4, <1>7, <1>8, <2>2, <3>1
    <3>2. CASE m # inner
      <4>1. PICK p : p = Up(t, m)
        OBVIOUS
      <4>2. p \in D /\ Up(r, m) = p
        BY <2>1, <2>2, <2>4, <3>2, <4>1 DEF NodeShape, Links
      <4>3. PICK s \in Sides : Kid(t, p, s) = m
        BY <1>7, <2>1, <4>1, <4>2 DEF NodeShape
      <4>4. /\ ~ (p = up /\ s = s0)
            /\ ~ (p = tmp /\ s = side)
            /\ ~ (p = n /\ s = Opp(side))
        BY <1>1, <1>2, <1>6, <1>7, <1>18, <3>2, <4>2, <4>3
      <4>5. Kid(r, p, s) = m
        BY <1>8, <4>2, <4>3, <4>4
      <4> QED
        BY <4>2, <4>5
    <3> QED
      BY <3>1, <3>2
  <2>5. ASSUME NEW s \in Sides
        PROVE  /\ Kid(r, m, s) \in Links(D)
               /\ Kid(r, m, s) # NULL => Up(r, Kid(r, m, s)) = m
               /\ \A x \in D : InSub(R, x, Kid(r, m, s)) <=>
                                 InSub(S, x, Kid(t, m, s))
    <3>1. CASE m = up /\ s = s0
      <4>1. Kid(r, m, s) = tmp /\ Kid(t, m, s) = n
        BY <1>6, <1>7, <1>8, <1>18, <3>1
      <4>2. Up(r, tmp) = m
        BY <1>4, <1>8, <3>1
      <4> QED
        BY <1>4, <1>14, <4>1, <4>2 DEF Links
    <3>2. CASE ~ (m = up /\ s = s0)
      <4>1. PICK c : c = Kid(t, m, s)
        OBVIOUS
      <4>2. Kid(r, m, s) = c
        BY <1>8, <1>18, <3>2, <4>1
      <4>3. c \in Links(D) /\ (c # NULL => Up(t, c) = m)
        BY <2>1, <4>1 DEF NodeShape
      <4>4. c # n
        <5> SUFFICES ASSUME c = n PROVE FALSE
          OBVIOUS
        <5>1. m = up /\ up # NULL
          BY <1>3, <1>7, <4>3
        <5>2. s = Opp(s0)
          BY <1>6, <3>2, <5>1, OppFacts
        <5> QED
          BY <1>6, <4>1, <5>1, <5>2
      <4>5. c # NULL => c # tmp /\ c # inner
        BY <1>4, <1>7, <1>18, <4>3
      <4>6. c # NULL => Up(r, c) = m
        BY <1>8, <4>3, <4>4, <4>5 DEF Links
      <4>7. \A x \in D : InSub(R, x, c) <=> InSub(S, x, c)
        BY <1>7, <1>13, <4>3, <4>4, <4>5 DEF InSub
      <4> QED
        BY <4>1, <4>2, <4>3, <4>6, <4>7
    <3> QED
      BY <3>1, <3>2
  <2>6. \A s \in Sides :
          /\ Kid(r, m, s) \in Links(D)
          /\ Kid(r, m, s) # NULL => Up(r, Kid(r, m, s)) = m
          /\ \A x \in D : InSub(R, x, Kid(r, m, s)) => Before(s, x, m)
    BY <2>1, <2>5 DEF NodeShape
  <2>7. \A x \in D : x \in R[m] <=>
          x = m \/ \E s \in Sides : InSub(R, x, Kid(r, m, s))
    BY <1>12, <1>18, <2>1, <2>5 DEF NodeShape
  <2> QED
    BY <2>3, <2>4, <2>6, <2>7 DEF NodeShape
<1>19. /\ r.root \in Links(D)
       /\ \A m \in D : InSub(R, m, r.root)
       /\ r.root # NULL => Up(r, r.root) = NULL
  <2>1. CASE up = NULL
    <3>1. r.root = tmp /\ Up(r, tmp) = NULL
      BY <1>4, <1>8, <2>1
    <3>2. \A m \in D : InSub(S, m, n)
      BY <1>6, <2>1 DEF Shape
    <3> QED
      BY <1>4, <1>14, <3>1, <3>2 DEF Links
  <2>2. CASE up # NULL
    <3>1. r.root = t.root /\ t.root # n /\ t.root # tmp
      BY <1>4, <1>6, <1>8, <2>2
    <3>2. t.root \in D /\ Up(t, t.root) = NULL
      BY <1>6, <2>2 DEF Shape, InSub, Links
    <3>3. t.root # inner
      BY <1>4, <1>7, <3>2
    <3>4. Up(r, t.root) = NULL
      BY <1>8, <3>1, <3>2, <3>3
    <3>5. \A m \in D : InSub(S, m, t.root)
      BY DEF Shape
    <3>6. \A m \in D : InSub(R, m, t.root)
      BY <1>13, <3>1, <3>2, <3>5 DEF Links
    <3> QED
      BY <3>1, <3>2, <3>4, <3>6 DEF Links
  <2> QED
    BY <2>1, <2>2
<1>20. \A m \in D : NodeShape(r, D, R, m)
  BY <1>16, <1>17, <1>18
<1>21. IsFiniteSet(D)
  BY DEF Shape
<1>22. Shape(r, D, R)
  BY <1>7, <1>10, <1>11, <1>19, <1>20, <1>21 DEF Shape
<1> QED
  BY <1>22

\* key becomes the child of up, on a side that was free.
IsInserted(r, t, D, key, up, side) ==
  /\ r.root = IF up = NULL THEN key ELSE t.root
  /\ Up(r, key) = up
  /\ \A s \in Sides : Kid(r, key, s) = NULL
  /\ \A m \in D :
       /\ Up(r, m) = Up(t, m)
       /\ \A s \in Sides :
            Kid(r, m, s) = IF m = up /\ s = side THEN key ELSE Kid(t, m, s)

LEMMA InsertionShape ==
  ASSUME NEW t, NEW D, NEW S, Shape(t, D, S),
         NEW key \in Nat, key \notin D, key # NULL,
         NEW up \in Links(D), NEW side \in Sides,
         up = NULL => D = {},
         up # NULL => Kid(t, up, side) = NULL,
         \A m \in D, s \in Sides :
           InSub(S, up, Kid(t, m, s)) \/ (m = up /\ s = side)
             => Before(s, key, m),
         NEW r, IsInserted(r, t, D, key, up, side)
  PROVE  \E R : Shape(r, D \cup {key}, R)
<1> DEFINE E == D \cup {key}
<1>1. PICK R : R = [m \in E |-> IF m = key THEN {key}
                                ELSE IF up \in S[m] THEN S[m] \cup {key}
                                ELSE S[m]]
  OBVIOUS
<1>2. S \in [D -> SUBSET D] /\ NULL \notin D /\ NULL \notin E
  BY DEF Shape
<1>3. /\ R \in [E -> SUBSET E] /\ R[key] = {key}
      /\ \A m \in D : \A x : x \in R[m] <=>
           x \in S[m] \/ (x = key /\ up \in S[m])
  BY <1>1, <1>2
<1>4. \A m \in D : m # key
  OBVIOUS
<1>5. \A c \in Links(D) : \A x : InSub(R, x, c) <=>
        InSub(S, x, c) \/ (x = key /\ InSub(S, up, c))
  BY <1>3 DEF InSub, Links
<1>6. \A x : InSub(R, x, key) <=> x = key
  BY <1>3 DEF InSub
<1>7. NodeShape(r, E, R, key)
  <2>1. Up(r, key) = NULL => key = r.root
    BY DEF IsInserted
  <2>2. Up(r, key) # NULL => \E s \in Sides : Kid(r, Up(r, key), s) = key
    BY DEF IsInserted, Links
  <2>3. \A s \in Sides : Kid(r, key, s) = NULL
    BY DEF IsInserted
  <2>4. Up(r, key) \in Links(E)
    BY DEF IsInserted, Links
  <2> QED
    BY <1>3, <2>1, <2>2, <2>3, <2>4 DEF NodeShape, InSub, Links
<1>8. ASSUME NEW m \in D PROVE NodeShape(r, E, R, m)
  <2>1. NodeShape(t, D, S, m) /\ m # NULL /\ Up(r, m) = Up(t, m)
    BY <1>2 DEF Shape, IsInserted
  <2>2. /\ Up(r, m) \in Links(E)
        /\ Up(r, m) = NULL => m = r.root
    BY <1>2, <2>1 DEF NodeShape, Links, IsInserted
  <2>3. ASSUME Up(r, m) # NULL PROVE \E s \in Sides : Kid(r, Up(r, m), s) = m
    <3>1. PICK s \in Sides : Kid(t, Up(t, m), s) = m
      BY <2>1, <2>3 DEF NodeShape
    <3>2. Up(t, m) \in D
      BY <2>1, <2>3 DEF NodeShape, Links
    <3>3. Kid(r, Up(t, m), s) = m
      BY <2>1, <3>1, <3>2 DEF IsInserted
    <3> QED
      BY <2>1, <3>3
  <2>4. ASSUME NEW s \in Sides
        PROVE  /\ Kid(r, m, s) \in Links(E)
               /\ Kid(r, m, s) # NULL => Up(r, Kid(r, m, s)) = m
               /\ \A x \in E : InSub(R, x, Kid(r, m, s)) <=>
                    \/ InSub(S, x, Kid(t, m, s))
                    \/ /\ x = key
                       /\ InSub(S, up, Kid(t, m, s)) \/ (m = up /\ s = side)
    <3>1. CASE m = up /\ s = side
      <4>1. Kid(r, m, s) = key /\ Kid(t, m, s) = NULL
        BY <2>1, <3>1 DEF IsInserted
      <4>2. Up(r, key) = m
        BY <3>1 DEF IsInserted
      <4> QED
        BY <1>6, <3>1, <4>1, <4>2 DEF InSub, Links
    <3>2. CASE ~ (m = up /\ s = side)
      <4>1. Kid(r, m, s) = Kid(t, m, s)
        BY <3>2 DEF IsInserted
      <4>2. Kid(t, m, s) \in Links(D)
            /\ (Kid(t, m, s) # NULL => Up(t, Kid(t, m, s)) = m)
        BY <2>1 DEF NodeShape
      <4>3. Kid(t, m, s) # NULL => Up(r, Kid(t, m, s)) = m
        BY <4>2 DEF IsInserted, Links
      <4> QED
        BY <1>5, <3>2, <4>1, <4>2, <4>3 DEF Links
    <3> QED
      BY <3>1, <3>2
  <2>5. \A s \in Sides :
          /\ Kid(r, m, s) \in Links(E)
          /\ Kid(r, m, s) # NULL => Up(r, Kid(r, m, s)) = m
          /\ \A x \in E : InSub(R, x, Kid(r, m, s)) => Before(s, x, m)
    <3>1. \A s \in Sides : \A x : InSub(S, x, Kid(t, m, s)) => x \in D
      BY SubMember
    <3> QED
      BY <2>1, <2>4, <3>1 DEF NodeShape
  <2>6. ASSUME NEW x \in E
        PROVE  x \in R[m] <=>
                 x = m \/ \E s \in Sides : InSub(R, x, Kid(r, m, s))
    <3>1. \A s \in Sides : InSub(R, x, Kid(r, m, s)) <=>
            \/ InSub(S, x, Kid(t, m, s))
            \/ /\ x = key
               /\ InSub(S, up, Kid(t, m, s)) \/ (m = up /\ s = side)
      BY <2>4
    <3>2. CASE x = key
      <4>1. \A c : ~ InSub(S, x, c) \/ c \notin Links(D)
        BY <1>2, <3>2 DEF InSub, Links
      <4>2. \A s \in Sides : Kid(t, m, s) \in Links(D)
        BY <2>1 DEF NodeShape
      <4>3. x \in R[m] <=> up \in S[m]
        BY <1>2, <1>3, <3>2
      <4>4. up \in S[m] <=>
              m = up \/ \E s \in Sides : InSub(S, up, Kid(t, m, s))
        <5>1. up \in S[m] => up \in D
          BY <1>2
        <5>2. m = up => up \in D
          OBVIOUS
        <5>3. (\E s \in Sides : InSub(S, up, Kid(t, m, s))) => up \in D
          BY SubMember
        <5> QED
          BY <2>1, <5>1, <5>2, <5>3 DEF NodeShape
      <4> QED
        BY <3>1, <3>2, <4>1, <4>2, <4>3, <4>4
    <3>3. CASE x # key
      <4>1. x \in D /\ (x \in R[m] <=> x \in S[m])
        BY <1>3, <3>3
      <4> QED
        BY <2>1, <3>1, <3>3, <4>1 DEF NodeShape
    <3> QED
      BY <3>2, <3>3
  <2> QED
    BY <2>2, <2>3, <2>5, <2>6 DEF NodeShape
<1>9. /\ r.root \in Links(E)
      /\ \A m \in E : InSub(R, m, r.root)
      /\ r.root # NULL => Up(r, r.root) = NULL
  <2>1. CASE up = NULL
    BY <1>6, <2>1 DEF IsInserted, Links
  <2>2. CASE up # NULL
    <3>1. r.root = t.root /\ up \in D
      BY <2>2 DEF IsInserted, Links
    <3>2. InSub(S, up, t.root) /\ t.root \in D
      BY <3>1 DEF Shape, InSub, Links
    <3>3. Up(r, t.root) = NULL
      BY <1>2, <3>2 DEF Shape, IsInserted
    <3>4. \A m \in D : InSub(S, m, t.root)
      BY DEF Shape
    <3> QED
      BY <1>5, <3>1, <3>2, <3>3, <3>4 DEF Links
  <2> QED
    BY <2>1, <2>2
<1>10. IsFiniteSet(E) /\ \A m \in E : m \in Nat
  <2>1. IsFiniteSet(D) /\ \A m \in D : m \in Nat
    BY DEF Shape
  <2> QED
    BY <2>1, FS_AddElement
<1>11. \A m \in E : NodeShape(r, E, R, m)
  BY <1>7, <1>8
<1> HIDE DEF E
<1>12. Shape(r, E, R)
  BY <1>2, <1>3, <1>9, <1>10, <1>11 DEF Shape
<1> QED
  BY <1>12 DEF E

\* gone, which has no child on one side, leaves, and its child takes its place.
IsSpliced(r, t, D, gone, child) ==
  LET up == Up(t, gone)
  IN  /\ r.root = IF up = NULL THEN child ELSE t.root
      /\ \A m \in D \ {gone} :
           /\ Up(r, m) = IF m = child THEN up ELSE Up(t, m)
           /\ \A s \in Sides :
                Kid(r, m, s) = IF m = up /\ s = SideIn(t, up, gone)
                                 THEN child ELSE Kid(t, m, s)

Without(S, D, gone) == [m \in D \ {gone} |-> S[m] \ {gone}]

LEMMA SplicingShape ==
  ASSUME NEW t, NEW D, NEW S, Shape(t, D, S), NEW gone \in D,
         NEW side \in Sides, Kid(t, gone, side) = NULL,
         NEW child, child = Kid(t, gone, Opp(side)),
         NEW r, IsSpliced(r, t, D, gone, child)
  PROVE  Shape(r, D \ {gone}, Without(S, D, gone))
<1> DEFINE E == D \ {gone}
<1>1. PICK up : up = Up(t, gone)
  OBVIOUS
<1>2. PICK s0 : s0 = SideIn(t, up, gone)
  OBVIOUS
<1>3. PICK R : R = Without(S, D, gone)
  OBVIOUS
<1>4. /\ up \in Links(E)
      /\ up = NULL <=> gone = t.root
      /\ up # NULL => /\ up \in E /\ s0 \in Sides /\ Kid(t, up, s0) = gone
                      /\ Kid(t, up, Opp(s0)) # gone
  BY <1>1, <1>2, UpFacts DEF Links
<1>5. /\ Opp(side) \in Sides
      /\ \A s \in Sides : s = side \/ s = Opp(side)
      /\ gone # NULL
  BY OppFacts, SubMember
<1>6. /\ child \in Links(E)
      /\ child # NULL => Up(t, child) = gone /\ child # t.root
  BY <1>5, KidFacts DEF Links
<1>7. S \in [D -> SUBSET D] /\ NULL \notin D
  BY DEF Shape
<1>8. /\ R \in [E -> SUBSET E]
      /\ \A m \in E : \A x : x \in R[m] <=> x \in S[m] /\ x # gone
  BY <1>3, <1>7 DEF Without
<1>9. \A c \in Links(E) : \A x : InSub(R, x, c) <=> InSub(S, x, c) /\ x # gone
  BY <1>8 DEF InSub, Links
<1>10. \A x \in E : InSub(S, x, child) <=> InSub(S, x, gone)
  <2>1. NodeShape(t, D, S, gone)
    BY DEF Shape
  <2> QED
    BY <1>5, <2>1 DEF NodeShape, InSub
<1>11. /\ r.root = IF up = NULL THEN child ELSE t.root
       /\ \A m \in E :
            /\ Up(r, m) = IF m = child THEN up ELSE Up(t, m)
            /\ \A s \in Sides :
                 Kid(r, m, s) = IF m = up /\ s = s0
                                  THEN child ELSE Kid(t, m, s)
  BY <1>1, <1>2 DEF IsSpliced
<1>12. ASSUME NEW m \in E PROVE NodeShape(r, E, R, m)
  <2>1. NodeShape(t, D, S, m) /\ m \in D /\ m # gone /\ m # NULL
    BY <1>7 DEF Shape
  <2>2. Up(t, m) = gone => m = child
    <3> SUFFICES ASSUME Up(t, m) = gone PROVE m = child
      OBVIOUS
    <3>1. PICK s \in Sides : Kid(t, gone, s) = m
      BY <1>5, <2>1 DEF NodeShape
    <3> QED
      BY <1>5, <2>1, <3>1
  <2>3. Up(r, m) \in Links(E)
    BY <1>4, <1>11, <2>1, <2>2 DEF NodeShape, Links
  <2>4. Up(r, m) = NULL => m = r.root
    BY <1>4, <1>11, <2>1 DEF NodeShape
  <2>5. ASSUME Up(r, m) # NULL PROVE \E s \in Sides : Kid(r, Up(r, m), s) = m
    <3>1. CASE m = child
      BY <1>4, <1>11, <2>5, <3>1
    <3>2. CASE m # child
      <4>1. PICK p : p = Up(t, m)
        OBVIOUS
      <4>2. Up(r, m) = p /\ p \in E
        BY <1>11, <2>3, <2>5, <3>2, <4>1 DEF Links
      <4>3. PICK s \in Sides : Kid(t, p, s) = m
        BY <2>1, <2>5, <4>1, <4>2 DEF NodeShape
      <4>4. Kid(r, p, s) = m
        BY <1>4, <1>7, <1>11, <2>1, <4>2, <4>3
      <4> QED
        BY <4>2, <4>4
    <3> QED
      BY <3>1, <3>2
  <2>6. ASSUME NEW s \in Sides
        PROVE  /\ Kid(r, m, s) \in Links(E)
               /\ Kid(r, m, s) # NULL => Up(r, Kid(r, m, s)) = m
               /\ \A x \in E : InSub(R, x, Kid(r, m, s)) <=>
                                 InSub(S, x, Kid(t, m, s))
    <3>1. CASE m = up /\ s = s0
      <4>1. Kid(r, m, s) = child /\ Kid(t, m, s) = gone
        BY <1>4, <1>11, <2>1, <3>1
      <4>2. child # NULL => Up(r, child) = m
        BY <1>6, <1>11, <3>1 DEF Links
      <4> QED
        BY <1>6, <1>9, <1>10, <4>1, <4>2
    <3>2. CASE ~ (m = up /\ s = s0)
      <4>1. PICK c : c = Kid(t, m, s)
        OBVIOUS
      <4>2. Kid(r, m, s) = c /\ c \in Links(D) /\ (c # NULL => Up(t, c) = m)
        BY <1>11, <2>1, <3>2, <4>1 DEF NodeShape
      <4>3. c # gone
        <5> SUFFICES ASSUME c = gone PROVE FALSE
          OBVIOUS
        <5>1. m = up /\ up # NULL
          BY <1>1, <1>5, <2>1, <4>2
        <5>2. s = Opp(s0)
          BY <1>4, <3>2, <5>1, OppFacts
        <5> QED
          BY <1>4, <4>1, <5>1, <5>2
      <4>4. c \in Links(E) /\ (c # NULL => c # child)
        BY <1>6, <2>1, <4>2, <4>3 DEF Links
      <4>5. c # NULL => Up(r, c) = m
        BY <1>11, <4>2, <4>4 DEF Links
      <4> QED
        BY <1>9, <4>1, <4>2, <4>4, <4>5
    <3> QED
      BY <3>1, <3>2
  <2>7. \A s \in Sides :
          /\ Kid(r, m, s) \in Links(E)
          /\ Kid(r, m, s) # NULL => Up(r, Kid(r, m, s)) = m
          /\ \A x \in E : InSub(R, x, Kid(r, m, s)) => Before(s, x, m)
    BY <2>1, <2>6 DEF NodeShape
  <2>8. \A x \in E : x \in R[m] <=>
          x = m \/ \E s \in Sides : InSub(R, x, Kid(r, m, s))
    BY <1>8, <2>1, <2>6 DEF NodeShape
  <2> QED
    BY <2>3, <2>4, <2>5, <2>7, <2>8 DEF NodeShape
<1>13. /\ r.root \in Links(E)
       /\ \A m \in E : InSub(R, m, r.root)
       /\ r.root # NULL => Up(r, r.root) = NULL
  <2>1. \A m \in D : InSub(S, m, t.root)
    BY DEF Shape
  <2>2. CASE up = NULL
    <3>1. r.root = child /\ t.root = gone
      BY <1>4, <1>11, <2>2
    <3>2. child # NULL => Up(r, child) = NULL
      BY <1>6, <1>11, <2>2 DEF Links
    <3> QED
      BY <1>6, <1>9, <1>10, <2>1, <3>1, <3>2
  <2>3. CASE up # NULL
    <3>1. r.root = t.root /\ t.root # gone /\ t.root \in D
          /\ Up(t, t.root) = NULL
      BY <1>4, <1>11, <2>3, <2>1 DEF Shape, InSub, Links
    <3>2. t.root # child
      BY <1>5, <1>6, <1>7, <3>1
    <3>3. Up(r, t.root) = NULL
      BY <1>11, <3>1, <3>2
    <3> QED
      BY <1>9, <2>1, <3>1, <3>3 DEF Links
  <2> QED
    BY <2>2, <2>3
<1>14. IsFiniteSet(E) /\ \A m \in E : m \in Nat
  <2>1. IsFiniteSet(D) /\ \A m \in D : m \in Nat
    BY DEF Shape
  <2> QED
    BY <2>1, FS_RemoveElement
<1>15. NULL \notin E
  BY <1>7
<1> HIDE DEF E
<1>16. Shape(r, E, R)
  BY <1>8, <1>12, <1>13, <1>14, <1>15 DEF Shape
<1> QED
  BY <1>3, <1>16 DEF E

\* gone takes the place of key.
Now(x, key, gone) == IF x = key THEN gone ELSE x

Was(x, key, gone) == IF x = gone THEN key ELSE x

IsRenamed(r, t, D, key, gone) ==
  /\ r.root = Now(t.root, key, gone)
  /\ \A m \in D :
       LET n == Now(m, key, gone)
       IN  /\ Up(r, n) = Now(Up(t, m), key, gone)
           /\ \A s \in Sides : Kid(r, n, s) = Now(Kid(t, m, s), key, gone)

LEMMA RenamingShape ==
  ASSUME NEW t, NEW D, NEW S, Shape(t, D, S), NEW key \in D,
         NEW gone \in Nat, gone \notin D, gone # NULL,
         \A m \in D, s \in Sides :
           /\ InSub(S, key, Kid(t, m, s)) => Before(s, gone, m)
           /\ InSub(S, m, Kid(t, key, s)) => Before(s, m, gone),
         NEW r, IsRenamed(r, t, D, key, gone)
  PROVE  \E R : Shape(r, (D \ {key}) \cup {gone}, R)
<1> DEFINE E == (D \ {key}) \cup {gone}
           now(x) == Now(x, key, gone)
           was(x) == Was(x, key, gone)
<1>1. S \in [D -> SUBSET D] /\ NULL \notin D /\ NULL \notin E /\ key # NULL
  BY DEF Shape
<1>2. /\ \A m \in D : now(m) \in E /\ was(now(m)) = m
      /\ \A m \in E : was(m) \in D /\ now(was(m)) = m
      /\ now(NULL) = NULL /\ was(NULL) = NULL
      /\ \A c \in Links(D) : /\ now(c) \in Links(E) /\ was(now(c)) = c
                             /\ now(c) = NULL <=> c = NULL
      /\ now(key) = gone /\ was(gone) = key
      /\ \A m \in D : m # key => now(m) = m
  BY <1>1 DEF Links, Now, Was
<1>3. PICK R : R = [m \in E |-> {x \in E : was(x) \in S[was(m)]}]
  OBVIOUS
<1>4. /\ R \in [E -> SUBSET E]
      /\ \A m \in E, x \in E : x \in R[m] <=> was(x) \in S[was(m)]
  BY <1>3
<1>5. /\ r.root = now(t.root)
      /\ \A m \in D :
           /\ Up(r, now(m)) = now(Up(t, m))
           /\ \A s \in Sides : Kid(r, now(m), s) = now(Kid(t, m, s))
  BY DEF IsRenamed
<1>6. \A m \in D, s \in Sides :
        /\ InSub(S, key, Kid(t, m, s)) => Before(s, gone, m)
        /\ InSub(S, m, Kid(t, key, s)) => Before(s, m, gone)
  OBVIOUS
<1> HIDE DEF now, was
<1>7. \A c \in Links(D), x \in E : InSub(R, x, now(c)) <=> InSub(S, was(x), c)
  BY <1>1, <1>2, <1>4 DEF InSub, Links
<1>8. ASSUME NEW m \in D PROVE NodeShape(r, E, R, now(m))
  <2>1. NodeShape(t, D, S, m)
    BY DEF Shape
  <2>2. Up(r, now(m)) = now(Up(t, m)) /\ Up(t, m) \in Links(D)
        /\ now(m) \in E
    BY <1>2, <1>5, <2>1 DEF NodeShape
  <2>3. Up(r, now(m)) = NULL => now(m) = r.root
    BY <1>2, <1>5, <2>1, <2>2 DEF NodeShape
  <2>4. ASSUME Up(r, now(m)) # NULL
        PROVE  \E s \in Sides : Kid(r, Up(r, now(m)), s) = now(m)
    <3>1. Up(t, m) # NULL /\ Up(t, m) \in D
      BY <1>2, <2>2, <2>4 DEF Links
    <3>2. PICK s \in Sides : Kid(t, Up(t, m), s) = m
      BY <2>1, <3>1 DEF NodeShape
    <3>3. Kid(r, now(Up(t, m)), s) = now(m)
      BY <1>5, <3>1, <3>2
    <3> QED
      BY <2>2, <3>3
  <2>5. ASSUME NEW s \in Sides
        PROVE  /\ Kid(r, now(m), s) \in Links(E)
               /\ Kid(r, now(m), s) # NULL => Up(r, Kid(r, now(m), s)) = now(m)
               /\ \A x \in E : InSub(R, x, Kid(r, now(m), s)) <=>
                                 InSub(S, was(x), Kid(t, m, s))
    <3>1. PICK c : c = Kid(t, m, s)
      OBVIOUS
    <3>2. c \in Links(D) /\ (c # NULL => Up(t, c) = m)
      BY <2>1, <3>1 DEF NodeShape
    <3>3. Kid(r, now(m), s) = now(c)
      BY <1>5, <3>1
    <3>4. c # NULL => Up(r, now(c)) = now(m)
      BY <1>5, <3>2 DEF Links
    <3> QED
      BY <1>2, <1>7, <3>1, <3>2, <3>3, <3>4
  <2>6. ASSUME NEW s \in Sides, NEW x \in E, InSub(S, was(x), Kid(t, m, s))
        PROVE  Before(s, x, now(m))
    <3>1. was(x) \in D /\ x = now(was(x)) /\ Before(s, was(x), m)
      BY <1>2, <2>1, <2>6 DEF NodeShape
    <3>2. was(x) # m
      BY <2>6, KidsApart
    <3>3. CASE m = key
      <4>1. now(m) = gone /\ x = was(x)
        BY <1>2, <3>1, <3>2, <3>3
      <4> QED
        BY <1>6, <2>6, <3>1, <3>3, <4>1
    <3>4. CASE m # key
      <4>1. now(m) = m
        BY <1>2, <3>4
      <4>2. CASE was(x) = key
        BY <1>2, <1>6, <2>6, <3>1, <4>1, <4>2
      <4>3. CASE was(x) # key
        BY <1>2, <3>1, <4>1, <4>3
      <4> QED
        BY <4>2, <4>3
    <3> QED
      BY <3>3, <3>4
  <2>7. \A x \in E : x \in R[now(m)] <=>
          x = now(m) \/ \E s \in Sides : InSub(R, x, Kid(r, now(m), s))
    <3> TAKE x \in E
    <3>1. x \in R[now(m)] <=> was(x) \in S[m]
      BY <1>2, <1>4
    <3>2. was(x) \in D /\ (was(x) = m <=> x = now(m))
      BY <1>2
    <3>3. was(x) \in S[m] <=>
            was(x) = m \/ \E s \in Sides : InSub(S, was(x), Kid(t, m, s))
      BY <2>1, <3>2 DEF NodeShape
    <3> QED
      BY <2>5, <3>1, <3>2, <3>3
  <2>8. Up(r, now(m)) \in Links(E)
    BY <1>2, <2>2
  <2> QED
    BY <2>3, <2>4, <2>5, <2>6, <2>7, <2>8 DEF NodeShape
<1>9. \A m \in E : NodeShape(r, E, R, m)
  BY <1>2, <1>8
<1>10. /\ r.root \in Links(E)
       /\ \A m \in E : InSub(R, m, r.root)
       /\ r.root # NULL => Up(r, r.root) = NULL
  <2>1. /\ t.root \in Links(D)
        /\ \A m \in D : InSub(S, m, t.root)
        /\ t.root # NULL => Up(t, t.root) = NULL
    BY DEF Shape
  <2>2. t.root # NULL => Up(r, now(t.root)) = NULL
    BY <1>2, <1>5, <2>1 DEF Links
  <2> QED
    BY <1>2, <1>5, <1>7, <2>1, <2>2
<1>11. IsFiniteSet(E) /\ \A m \in E : m \in Nat
  <2>1. IsFiniteSet(D) /\ \A m \in D : m \in Nat
    BY DEF Shape
  <2>2. IsFiniteSet(D \ {key})
    BY <2>1, FS_RemoveElement
  <2> QED
    BY <2>1, <2>2, FS_AddElement
<1> HIDE DEF E
<1>12. Shape(r, E, R)
  BY <1>1, <1>4, <1>9, <1>10, <1>11 DEF Shape
<1> QED
  BY <1>12 DEF E

-----------------------------------------------------------------------------
(* The walks of RbTree are recursive functions on the elements.            *)

IsWalkOn(f, D, stop, val, next) ==
  f = [n \in D |-> IF n \in stop THEN val[n] ELSE f[next[n]]]

LEMMA WalkSolved ==
  ASSUME NEW D, NEW stop, NEW val, NEW next, NEW rank \in [D -> Nat],
         NEW k \in Nat, \A n \in D : rank[n] <= k,
         \A n \in D : n \notin stop =>
           next[n] \in D /\ rank[next[n]] < rank[n]
  PROVE  \E f : IsWalkOn(f, D, stop, val, next)
<1> DEFINE Solves(f, i) ==
             \A n \in D : rank[n] < i =>
               f[n] = IF n \in stop THEN val[n] ELSE f[next[n]]
           T == {i \in Nat : \E f : Solves(f, i)}
<1>1. 0 \in T
  <2>1. \A n \in D : ~ rank[n] < 0
    OBVIOUS
  <2> QED
    BY <2>1
<1>2. ASSUME NEW i \in Nat, NEW f, Solves(f, i),
             NEW g, g = [n \in D |-> IF n \in stop THEN val[n] ELSE f[next[n]]]
      PROVE  Solves(g, i + 1)
  <2> SUFFICES ASSUME NEW n \in D, rank[n] < i + 1, n \notin stop
               PROVE  f[next[n]] = g[next[n]]
    BY <1>2
  <2>1. next[n] \in D /\ rank[next[n]] < i
    <3>1. rank[n] \in Nat /\ next[n] \in D /\ rank[next[n]] < rank[n]
      OBVIOUS
    <3>2. rank[next[n]] \in Nat
      BY <3>1
    <3> QED
      BY <3>1, <3>2
  <2> QED
    BY <1>2, <2>1
<1>3. ASSUME NEW i \in T \cap Nat PROVE i + 1 \in T
  <2>1. PICK f : Solves(f, i)
    OBVIOUS
  <2>2. PICK g : g = [n \in D |-> IF n \in stop THEN val[n] ELSE f[next[n]]]
    OBVIOUS
  <2>3. Solves(g, i + 1)
    <3> HIDE DEF Solves
    <3> QED
      BY <1>2, <2>1, <2>2
  <2> QED
    BY <2>3
<1>4. Nat \subseteq T
  <2> HIDE DEF T
  <2> QED
    BY <1>1, <1>3, NatSet
<1>5. PICK f : Solves(f, k + 1)
  BY <1>4
<1>6. PICK g : g = [n \in D |-> IF n \in stop THEN val[n] ELSE f[next[n]]]
  OBVIOUS
<1>7. Solves(g, (k + 1) + 1)
  <2> HIDE DEF Solves
  <2> QED
    BY <1>2, <1>5, <1>6
<1>8. \A n \in D : rank[n] < (k + 1) + 1
  OBVIOUS
<1>9. \A n \in D : g[n] = IF n \in stop THEN val[n] ELSE g[next[n]]
  BY <1>7, <1>8
<1>10. g = [n \in D |-> g[n]]
  BY <1>6
<1>11. IsWalkOn(g, D, stop, val, next)
  BY <1>9, <1>10 DEF IsWalkOn
<1> QED
  BY <1>11

LEMMA DownSolved ==
  ASSUME NEW t, NEW D, NEW S, Shape(t, D, S), NEW stop, NEW val, NEW next,
         \A n \in D : n \notin stop =>
           \E s \in Sides : next[n] = Kid(t, n, s) /\ next[n] # NULL
  PROVE  \E f : IsWalkOn(f, D, stop, val, next)
<1>1. PICK size \in [D -> Nat], k \in Nat :
        /\ \A n \in D : size[n] <= k
        /\ \A n \in D, s \in Sides :
             Kid(t, n, s) # NULL => size[Kid(t, n, s)] < size[n]
  BY Sizes
<1>2. ASSUME NEW n \in D, n \notin stop
      PROVE  next[n] \in D /\ size[next[n]] < size[n]
  <2>1. PICK s \in Sides : next[n] = Kid(t, n, s) /\ next[n] # NULL
    BY <1>2
  <2> QED
    BY <1>1, <2>1, KidFacts
<1> QED
  BY <1>1, <1>2, WalkSolved

LEMMA UpSolved ==
  ASSUME NEW t, NEW D, NEW S, Shape(t, D, S), NEW stop, NEW val, NEW next,
         \A n \in D : n \notin stop => next[n] = Up(t, n) /\ next[n] # NULL
  PROVE  \E f : IsWalkOn(f, D, stop, val, next)
<1>1. PICK size \in [D -> Nat], k \in Nat :
        /\ \A n \in D : size[n] <= k
        /\ \A n \in D, s \in Sides :
             Kid(t, n, s) # NULL => size[Kid(t, n, s)] < size[n]
  BY Sizes
<1>2. PICK rank : rank = [n \in D |-> k - size[n]]
  OBVIOUS
<1>3. rank \in [D -> Nat] /\ \A n \in D : rank[n] <= k
  BY <1>1, <1>2
<1>4. ASSUME NEW n \in D, n \notin stop
      PROVE  next[n] \in D /\ rank[next[n]] < rank[n]
  <2>1. PICK up : up = Up(t, n)
    OBVIOUS
  <2>2. next[n] = up /\ up # NULL
    BY <1>4, <2>1
  <2>3. up \in D /\ n # NULL
    BY <2>1, <2>2, UpFacts, SubMember
  <2>4. PICK s \in Sides : Kid(t, up, s) = n
    BY <2>1, <2>2, UpFacts
  <2>5. size[n] < size[up] /\ size[n] \in Nat /\ size[up] \in Nat
    BY <1>1, <2>3, <2>4
  <2>6. rank[n] = k - size[n] /\ rank[up] = k - size[up]
    BY <1>2, <2>3
  <2> QED
    BY <2>2, <2>3, <2>5, <2>6
<1> QED
  BY <1>1, <1>3, <1>4, WalkSolved

-----------------------------------------------------------------------------
(* Searches.                                                               *)

SideFor(key, n) == IF key < n THEN "left" ELSE "right"

SearchStops(t, key, n) == n = key \/ Kid(t, n, SideFor(key, n)) = NULL

IsSearch(f, t, key) ==
  f = [n \in DOMAIN t.at |->
         LET child == IF key < n THEN t.at[n].left ELSE t.at[n].right
         IN  IF n = key \/ child = NULL THEN n ELSE f[child]]

LEMMA SearchEndIs ==
  ASSUME NEW t, NEW key
  PROVE  MapTree!SearchEnd(t, key) =
           IF t.root = NULL THEN NULL
           ELSE (CHOOSE f : IsSearch(f, t, key))[t.root]
BY DEF MapTree!SearchEnd, IsSearch

Searches(f, t, D, key) ==
  /\ \A n \in D : f[n] = IF SearchStops(t, key, n) THEN n
                         ELSE f[Kid(t, n, SideFor(key, n))]
  /\ MapTree!SearchEnd(t, key) = IF t.root = NULL THEN NULL ELSE f[t.root]

LEMMA SearchSolved ==
  ASSUME NEW D, NEW t, DOMAIN t.at = D, NEW S, Shape(t, D, S), NEW key
  PROVE  \E f : Searches(f, t, D, key)
<1>1. PICK stop : stop = {n \in D : SearchStops(t, key, n)}
  OBVIOUS
<1>2. PICK next : next = [n \in D |-> Kid(t, n, SideFor(key, n))]
  OBVIOUS
<1>3. PICK val : val = [n \in D |-> n]
  OBVIOUS
<1>4. \A n : SideFor(key, n) \in Sides
  BY DEF SideFor, Sides
<1>5. \A n \in D : n \notin stop =>
        \E s \in Sides : next[n] = Kid(t, n, s) /\ next[n] # NULL
  BY <1>1, <1>2, <1>4 DEF SearchStops
<1>6. PICK f : IsWalkOn(f, D, stop, val, next)
  BY <1>5, DownSolved
<1>7. ASSUME NEW n \in D
      PROVE  (IF key < n THEN t.at[n].left ELSE t.at[n].right) =
               Kid(t, n, SideFor(key, n))
  BY DEF Kid, SideFor
<1>8. IsSearch(f, t, key)
  <2>1. f = [n \in D |-> f[n]]
    BY <1>6 DEF IsWalkOn
  <2>2. \A n \in D : f[n] = LET child == IF key < n THEN t.at[n].left
                                                    ELSE t.at[n].right
                            IN  IF n = key \/ child = NULL THEN n
                                                           ELSE f[child]
    BY <1>1, <1>2, <1>3, <1>6, <1>7 DEF IsWalkOn, SearchStops
  <2> QED
    BY <2>1, <2>2 DEF IsSearch
<1>9. PICK g : g = CHOOSE h : IsSearch(h, t, key)
  OBVIOUS
<1>10. IsSearch(g, t, key)
  BY <1>8, <1>9
<1>11. \A n \in D : g[n] = IF SearchStops(t, key, n) THEN n
                           ELSE g[Kid(t, n, SideFor(key, n))]
  BY <1>7, <1>10 DEF IsSearch, SearchStops
<1>12. Searches(g, t, D, key)
  BY <1>9, <1>11, SearchEndIs DEF Searches
<1> QED
  BY <1>12

\* A search ends at the element that has the key, or where it would belong:
\* every element above is passed on the side the key is on.
SearchFrom(t, D, S, key, n, r) ==
  /\ r \in S[n]
  /\ SearchStops(t, key, r)
  /\ \A m \in S[n] : r \in S[m] /\ m # r =>
       m # key /\ InSub(S, r, Kid(t, m, SideFor(key, m)))
  /\ key \in S[n] => r = key

LEMMA SearchFacts ==
  ASSUME NEW D, NEW t, DOMAIN t.at = D, NEW S, Shape(t, D, S), NEW key \in Nat
  PROVE  /\ t.root = NULL => MapTree!SearchEnd(t, key) = NULL
         /\ t.root # NULL =>
              SearchFrom(t, D, S, key, t.root, MapTree!SearchEnd(t, key))
<1>0. PICK f : Searches(f, t, D, key)
  BY SearchSolved
<1>1. /\ \A n \in D : f[n] = IF SearchStops(t, key, n) THEN n
                             ELSE f[Kid(t, n, SideFor(key, n))]
      /\ MapTree!SearchEnd(t, key) =
           IF t.root = NULL THEN NULL ELSE f[t.root]
  BY <1>0 DEF Searches
<1> DEFINE T == {n \in D : ~ SearchFrom(t, D, S, key, n, f[n])}
<1>2. ASSUME NEW n \in T PROVE \E s \in Sides : Kid(t, n, s) \in T
  <2>1. n \in D /\ ~ SearchFrom(t, D, S, key, n, f[n])
    OBVIOUS
  <2>2. NodeShape(t, D, S, n) /\ n \in S[n] /\ n \in Nat
        /\ \A m \in S[n] : m \in D /\ m \in Nat
    BY <2>1, SubMember DEF Shape
  <2>3. PICK s : s = SideFor(key, n)
    OBVIOUS
  <2>4. s \in Sides /\ Opp(s) \in Sides
        /\ \A x \in Sides : x = s \/ x = Opp(s)
    BY <2>3, OppFacts DEF SideFor, Sides
  <2>5. key # n => \A m \in Nat : Before(Opp(s), m, n) => m # key
    BY <2>2, <2>3 DEF SideFor, Before, Opp, MapTree!Other
  <2>6. key \in S[n] /\ key # n => InSub(S, key, Kid(t, n, s))
    BY <2>2, <2>4, <2>5 DEF NodeShape
  <2>7. CASE SearchStops(t, key, n)
    <3>1. f[n] = n
      BY <1>1, <2>1, <2>7
    <3>2. \A m \in S[n] : n \in S[m] => m = n
      BY <2>1, Antisymmetric
    <3>3. key \in S[n] => n = key
      BY <2>3, <2>6, <2>7 DEF SearchStops, InSub
    <3> QED
      BY <2>1, <2>2, <2>7, <3>1, <3>2, <3>3 DEF SearchFrom
  <2>8. CASE ~ SearchStops(t, key, n)
    <3>1. PICK c : c = Kid(t, n, s)
      OBVIOUS
    <3>2. f[n] = f[c] /\ c # NULL /\ n # key
      BY <1>1, <2>1, <2>3, <2>8, <3>1 DEF SearchStops
    <3>3. c \in D /\ \A m : m \in S[c] => m \in S[n] /\ m # n
      BY <2>1, <2>4, <3>1, <3>2, KidFacts
    <3>4. PICK r : r = f[c]
      OBVIOUS
    <3>5. ASSUME SearchFrom(t, D, S, key, c, r)
          PROVE  SearchFrom(t, D, S, key, n, r)
      <4>1. r \in S[c] /\ r \in S[n] /\ SearchStops(t, key, r) /\ r \in D
        BY <2>2, <3>3, <3>5 DEF SearchFrom
      <4>2. ASSUME NEW m \in S[n], r \in S[m], m # r
            PROVE  m # key /\ InSub(S, r, Kid(t, m, SideFor(key, m)))
        <5>1. CASE m = n
          BY <2>3, <3>1, <3>2, <4>1, <5>1 DEF InSub
        <5>2. CASE m \in S[c]
          BY <3>5, <4>2, <5>2 DEF SearchFrom
        <5>3. CASE m # n /\ m \notin S[c]
          <6>1. m \in D /\ InSub(S, m, Kid(t, n, Opp(s)))
            BY <2>2, <2>4, <3>1, <3>2, <5>3 DEF NodeShape, InSub
          <6>2. InSub(S, r, Kid(t, n, Opp(s)))
            BY <2>1, <2>4, <4>2, <6>1, Within, KidFacts DEF InSub
          <6>3. InSub(S, r, Kid(t, n, s))
            BY <3>1, <3>2, <4>1 DEF InSub
          <6> QED
            BY <2>1, <2>4, <4>1, <6>2, <6>3, KidsApart
        <5> QED
          BY <5>1, <5>2, <5>3
      <4>3. key \in S[n] => r = key
        BY <2>6, <3>1, <3>2, <3>5 DEF SearchFrom, InSub
      <4> QED
        BY <4>1, <4>2, <4>3 DEF SearchFrom
    <3>6. ~ SearchFrom(t, D, S, key, c, f[c])
      BY <2>1, <3>2, <3>4, <3>5
    <3> QED
      BY <2>4, <3>1, <3>3, <3>6
  <2> QED
    BY <2>7, <2>8
<1>3. T = {}
  <2>1. T \in SUBSET D
    OBVIOUS
  <2> HIDE DEF T
  <2> QED
    BY <1>2, <2>1, Downward
<1>4. t.root # NULL => t.root \in D
  BY DEF Shape, Links
<1> QED
  BY <1>1, <1>3, <1>4

-----------------------------------------------------------------------------
(* The last element on one side.                                           *)

IsExtreme(f, t, side) ==
  f = [m \in DOMAIN t.at |->
         IF t.at[m][side] = NULL THEN m ELSE f[t.at[m][side]]]

LEMMA ExtremeIs ==
  ASSUME NEW t, NEW n, NEW side
  PROVE  MapTree!Extreme(t, n, side) = (CHOOSE f : IsExtreme(f, t, side))[n]
BY DEF MapTree!Extreme, IsExtreme

LEMMA ExtremeFacts ==
  ASSUME NEW D, NEW t, DOMAIN t.at = D, NEW S, Shape(t, D, S), NEW n \in D,
         NEW side \in Sides,
         NEW e, e = MapTree!Extreme(t, n, side)
  PROVE  /\ e \in S[n] /\ Kid(t, e, side) = NULL
         /\ \A m \in S[n] : m = e \/ Before(side, e, m)
<1>1. PICK stop : stop = {m \in D : Kid(t, m, side) = NULL}
  OBVIOUS
<1>2. PICK next : next = [m \in D |-> Kid(t, m, side)]
  OBVIOUS
<1>3. PICK val : val = [m \in D |-> m]
  OBVIOUS
<1>4. \A m \in D : m \notin stop =>
        \E s \in Sides : next[m] = Kid(t, m, s) /\ next[m] # NULL
  BY <1>1, <1>2
<1>5. PICK w : IsWalkOn(w, D, stop, val, next)
  BY <1>4, DownSolved
<1>6. IsExtreme(w, t, side)
  <2>1. w = [m \in D |-> w[m]]
    BY <1>5 DEF IsWalkOn
  <2>2. \A m \in D : w[m] = IF t.at[m][side] = NULL THEN m
                            ELSE w[t.at[m][side]]
    BY <1>1, <1>2, <1>3, <1>5 DEF IsWalkOn, Kid
  <2> QED
    BY <2>1, <2>2 DEF IsExtreme
<1>7. PICK f : f = CHOOSE g : IsExtreme(g, t, side)
  OBVIOUS
<1>8. IsExtreme(f, t, side)
  BY <1>6, <1>7
<1>9. \A m \in D : f[m] = IF Kid(t, m, side) = NULL THEN m
                          ELSE f[Kid(t, m, side)]
  BY <1>8 DEF IsExtreme, Kid
<1> DEFINE Good(m) == /\ f[m] \in S[m] /\ Kid(t, f[m], side) = NULL
                      /\ \A x \in S[m] : x = f[m] \/ Before(side, f[m], x)
           T == {m \in D : ~ Good(m)}
<1>10. ASSUME NEW m \in T PROVE \E s \in Sides : Kid(t, m, s) \in T
  <2>1. m \in D /\ ~ Good(m)
    OBVIOUS
  <2> HIDE DEF T
  <2>2. NodeShape(t, D, S, m) /\ m \in S[m] /\ m \in Nat
        /\ \A x \in S[m] : x \in D /\ x \in Nat
    BY <2>1, SubMember DEF Shape
  <2>3. Opp(side) \in Sides /\ \A x \in Sides : x = side \/ x = Opp(side)
    BY OppFacts
  <2>4. \A x \in S[m] : x = m \/ InSub(S, x, Kid(t, m, side))
                              \/ Before(side, m, x)
    <3> TAKE x \in S[m]
    <3>1. x = m \/ InSub(S, x, Kid(t, m, side))
                \/ InSub(S, x, Kid(t, m, Opp(side)))
      BY <2>2, <2>3 DEF NodeShape
    <3>2. InSub(S, x, Kid(t, m, Opp(side))) => Before(Opp(side), x, m)
      BY <2>2, <2>3 DEF NodeShape
    <3>3. Before(Opp(side), x, m) => Before(side, m, x)
      BY <2>2, BeforeFacts
    <3> QED
      BY <3>1, <3>2, <3>3
  <2>5. Kid(t, m, side) # NULL
    <3> SUFFICES ASSUME Kid(t, m, side) = NULL PROVE FALSE
      OBVIOUS
    <3>1. f[m] = m
      BY <1>9, <2>1
    <3> QED
      BY <2>1, <2>2, <2>4, <3>1 DEF InSub
  <2>6. PICK c : c = Kid(t, m, side)
    OBVIOUS
  <2>7. f[m] = f[c] /\ c \in D /\ \A x : x \in S[c] => x \in S[m]
    BY <1>9, <2>1, <2>5, <2>6, KidFacts
  <2>8. ASSUME Good(c) PROVE Good(m)
    <3>1. f[c] \in S[c] /\ f[c] \in S[m] /\ f[c] \in Nat
      BY <2>2, <2>7, <2>8
    <3>2. Before(side, f[c], m)
      <4>1. InSub(S, f[c], Kid(t, m, side)) /\ f[c] \in D
        BY <2>2, <2>5, <2>6, <3>1 DEF InSub
      <4> QED
        BY <2>2, <4>1 DEF NodeShape
    <3>3. ASSUME NEW x \in S[m] PROVE x = f[c] \/ Before(side, f[c], x)
      <4>1. x \in Nat
        BY <2>2
      <4>2. CASE InSub(S, x, Kid(t, m, side))
        BY <2>6, <2>8, <4>2 DEF InSub
      <4>3. CASE x = m
        BY <3>2, <4>3
      <4>4. CASE Before(side, m, x)
        BY <2>2, <3>1, <3>2, <4>1, <4>4, BeforeFacts
      <4> QED
        BY <2>4, <4>2, <4>3, <4>4
    <3> QED
      BY <2>7, <2>8, <3>1, <3>3
  <2>9. c \in T
    BY <2>1, <2>7, <2>8 DEF T
  <2> QED
    BY <2>6, <2>9
<1>11. T = {}
  <2>1. T \in SUBSET D
    OBVIOUS
  <2> HIDE DEF T
  <2> QED
    BY <1>10, <2>1, Downward
<1>12. Good(n) /\ e = f[n]
  BY <1>7, <1>11, ExtremeIs
<1> QED
  BY <1>12

-----------------------------------------------------------------------------
(* Neighbours.                                                             *)

IsClimb(f, t, side) ==
  f = [m \in DOMAIN t.at |->
         LET p == t.at[m].parent
         IN  IF p = NULL \/ t.at[p][side] # m THEN p ELSE f[p]]

LEMMA NeighbourIs ==
  ASSUME NEW t, NEW n, NEW side
  PROVE  MapTree!Neighbour(t, n, side) =
           IF Kid(t, n, side) # NULL
             THEN MapTree!Extreme(t, Kid(t, n, side), Opp(side))
             ELSE (CHOOSE f : IsClimb(f, t, side))[n]
BY DEF MapTree!Neighbour, IsClimb, Kid, Opp

Climbs(f, t, D, side) ==
  \A m \in D : f[m] = IF Up(t, m) = NULL \/ Kid(t, Up(t, m), side) # m
                        THEN Up(t, m) ELSE f[Up(t, m)]

LEMMA ClimbSolved ==
  ASSUME NEW D, NEW t, DOMAIN t.at = D, NEW S, Shape(t, D, S), NEW side
  PROVE  Climbs(CHOOSE f : IsClimb(f, t, side), t, D, side)
<1>1. PICK stop : stop = {m \in D : \/ Up(t, m) = NULL
                                    \/ Kid(t, Up(t, m), side) # m}
  OBVIOUS
<1>2. PICK next : next = [m \in D |-> Up(t, m)]
  OBVIOUS
<1>3. \A m \in D : m \notin stop => next[m] = Up(t, m) /\ next[m] # NULL
  BY <1>1, <1>2
<1>4. PICK w : IsWalkOn(w, D, stop, next, next)
  BY <1>3, UpSolved
<1>5. IsClimb(w, t, side)
  <2>1. w = [m \in D |-> w[m]]
    BY <1>4, SMTT(30) DEF IsWalkOn
  <2>2. \A m \in D : w[m] = LET p == t.at[m].parent
                            IN  IF p = NULL \/ t.at[p][side] # m THEN p
                                                                 ELSE w[p]
    BY <1>1, <1>2, <1>4 DEF IsWalkOn, Kid, Up
  <2> QED
    BY <2>1, <2>2 DEF IsClimb
<1>6. PICK f : f = CHOOSE g : IsClimb(g, t, side)
  OBVIOUS
<1>7. IsClimb(f, t, side)
  BY <1>5, <1>6
<1>8. Climbs(f, t, D, side)
  BY <1>7 DEF IsClimb, Climbs, Kid, Up
<1> QED
  BY <1>6, <1>8

\* The nearest element on a side of n, among those not below m; NULL if there
\* is none.
Nearest(D, M, n, side, e) ==
  /\ e = NULL => \A x \in D : x \notin M => ~ Before(side, x, n)
  /\ e # NULL =>
       /\ e \in D /\ e \notin M /\ Before(side, e, n)
       /\ \A x \in D : x \notin M /\ Before(side, x, n) =>
            x = e \/ Before(side, x, e)

LEMMA ClimbFacts ==
  ASSUME NEW D, NEW t, NEW S, Shape(t, D, S), NEW side \in Sides,
         NEW f, Climbs(f, t, D, side)
  PROVE  \A m \in D : Nearest(D, S[m], m, side, f[m])
<1> DEFINE T == {m \in D : ~ Nearest(D, S[m], m, side, f[m])}
<1>1. ASSUME NEW m \in T PROVE Up(t, m) \in T
  <2>1. m \in D /\ ~ Nearest(D, S[m], m, side, f[m])
    OBVIOUS
  <2> HIDE DEF T
  <2>2. m \in S[m] /\ m \in Nat /\ NULL \notin D /\ \A x \in D : x \in Nat
    BY <2>1, SubMember DEF Shape
  <2>3. Opp(side) \in Sides /\ \A x \in Sides : x = side \/ x = Opp(side)
    BY OppFacts
  <2>4. PICK p : p = Up(t, m)
    OBVIOUS
  <2>5. p # NULL
    <3> SUFFICES ASSUME p = NULL PROVE FALSE
      OBVIOUS
    <3>1. f[m] = NULL
      BY <2>1, <2>4 DEF Climbs
    <3>2. m = t.root
      BY <2>1, <2>4, UpFacts
    <3>3. \A x \in D : x \in S[m]
      BY <3>2 DEF Shape, InSub
    <3> QED
      BY <2>1, <3>1, <3>3 DEF Nearest
  <2>6. /\ p \in D /\ p # m /\ p \in Nat /\ m \in S[p] /\ p \in S[p]
        /\ \E s \in Sides : Kid(t, p, s) = m
        /\ NodeShape(t, D, S, p)
    <3>1. /\ p \in D /\ p # m /\ m \in S[p]
          /\ SideIn(t, p, m) \in Sides /\ Kid(t, p, SideIn(t, p, m)) = m
      BY <2>1, <2>4, <2>5, UpFacts
    <3>2. p \in Nat /\ p \in S[p]
      BY <3>1, SubMember
    <3>3. NodeShape(t, D, S, p)
      BY <3>1 DEF Shape
    <3> QED
      BY <3>1, <3>2, <3>3
  <2>7. \A x \in S[m] : x \in S[p] /\ x # p
    BY <2>1, <2>2, <2>6, KidFacts
  \* What is outside the parent's subtree lies on one side of all of it.
  <2>8. ASSUME NEW x \in D, x \notin S[p], NEW y \in S[p], NEW z \in S[p],
               Before(side, x, y)
        PROVE  Before(side, x, z)
    <3>1. PICK s \in Sides : \A v \in S[p] : Before(s, v, x)
      BY <2>6, <2>8, Convex
    <3>2. x \in Nat /\ y \in Nat /\ z \in Nat
      BY <2>2, <2>6, SubMember
    <3>3. s # side
      BY <2>8, <3>1, <3>2, BeforeFacts
    <3>4. Before(Opp(side), z, x)
      BY <2>3, <3>1, <3>3
    <3> QED
      BY <3>2, <3>4, BeforeFacts
  <2>9. CASE Kid(t, p, side) # m
    <3>1. f[m] = p
      BY <2>1, <2>4, <2>5, <2>9 DEF Climbs
    <3>2. Kid(t, p, Opp(side)) = m
      BY <2>3, <2>6, <2>9
    <3>3. Before(Opp(side), m, p)
      BY <2>1, <2>2, <2>3, <2>6, <3>2 DEF NodeShape, InSub
    <3>4. Before(side, p, m)
      BY <2>2, <2>6, <3>3, BeforeFacts
    <3>5. ASSUME NEW x \in D, x \notin S[m], Before(side, x, m)
          PROVE  x = p \/ Before(side, x, p)
      <4>1. CASE x \in S[p]
        <5>1. x # p => InSub(S, x, Kid(t, p, side))
          BY <2>2, <2>3, <2>6, <3>2, <3>5, <4>1 DEF NodeShape, InSub
        <5> QED
          BY <2>6, <5>1 DEF NodeShape
      <4>2. CASE x \notin S[p]
        BY <2>6, <2>8, <3>5, <4>2
      <4> QED
        BY <4>1, <4>2
    <3>6. p \notin S[m]
      BY <2>7
    <3> QED
      BY <2>1, <2>5, <2>6, <3>1, <3>4, <3>5, <3>6 DEF Nearest
  <2>10. CASE Kid(t, p, side) = m
    <3>1. f[m] = f[p]
      BY <2>1, <2>4, <2>5, <2>10 DEF Climbs
    <3>2. Before(side, m, p)
      BY <2>1, <2>2, <2>6, <2>10 DEF NodeShape, InSub
    <3>3. ASSUME NEW x \in D, x \notin S[m], Before(side, x, m)
          PROVE  x \notin S[p] /\ Before(side, x, p)
      <4>1. x # p /\ x \in Nat
        BY <2>2, <2>6, <3>2, <3>3, BeforeFacts
      <4>2. ~ InSub(S, x, Kid(t, p, Opp(side)))
        <5> SUFFICES ASSUME InSub(S, x, Kid(t, p, Opp(side))) PROVE FALSE
          OBVIOUS
        <5>1. Before(Opp(side), x, p)
          BY <2>3, <2>6 DEF NodeShape
        <5>2. Before(side, p, x)
          BY <2>6, <4>1, <5>1, BeforeFacts
        <5>3. Before(side, m, x)
          BY <2>2, <2>6, <3>2, <4>1, <5>2, BeforeFacts
        <5> QED
          BY <2>2, <3>3, <4>1, <5>3, BeforeFacts
      <4>3. ~ InSub(S, x, Kid(t, p, side))
        BY <2>10, <3>3 DEF InSub
      <4>4. x \notin S[p]
        BY <2>3, <2>6, <4>1, <4>2, <4>3 DEF NodeShape
      <4> QED
        BY <2>6, <2>8, <3>3, <4>4
    <3>4. ASSUME NEW x \in D, x \notin S[p], Before(side, x, p)
          PROVE  x \notin S[m] /\ Before(side, x, m)
      BY <2>6, <2>7, <2>8, <3>4
    <3>5. PICK u : u = f[p]
      OBVIOUS
    <3>6. ASSUME Nearest(D, S[p], p, side, u)
          PROVE  Nearest(D, S[m], m, side, u)
      <4>1. CASE u = NULL
        BY <3>3, <3>6, <4>1 DEF Nearest
      <4>2. CASE u # NULL
        <5>1. u \in D /\ u \notin S[p] /\ Before(side, u, p)
              /\ \A x \in D : x \notin S[p] /\ Before(side, x, p) =>
                   x = u \/ Before(side, x, u)
          BY <3>6, <4>2 DEF Nearest
        <5>2. u \notin S[m] /\ Before(side, u, m)
          BY <3>4, <5>1
        <5>3. \A x \in D : x \notin S[m] /\ Before(side, x, m) =>
                x = u \/ Before(side, x, u)
          BY <3>3, <5>1
        <5> QED
          BY <4>2, <5>1, <5>2, <5>3 DEF Nearest
      <4> QED
        BY <4>1, <4>2
    <3>7. ~ Nearest(D, S[p], p, side, f[p])
      BY <2>1, <3>1, <3>5, <3>6
    <3> QED
      BY <2>4, <2>6, <3>7 DEF T
  <2> QED
    BY <2>9, <2>10
<1>2. T = {}
  <2>1. T \in SUBSET D
    OBVIOUS
  <2> HIDE DEF T
  <2> QED
    BY <1>1, <2>1, Upward
<1> QED
  BY <1>2

\* RB_NEXT returns the nearest of all.
LEMMA NeighbourFacts ==
  ASSUME NEW D, NEW t, DOMAIN t.at = D, NEW S, Shape(t, D, S), NEW n \in D,
         NEW side \in Sides, NEW e, e = MapTree!Neighbour(t, n, side)
  PROVE  Nearest(D, {}, n, side, e)
<1>1. NodeShape(t, D, S, n) /\ n \in S[n] /\ n \in Nat /\ NULL \notin D
      /\ \A x \in D : x \in Nat
  BY SubMember DEF Shape
<1>2. Opp(side) \in Sides /\ \A x \in Sides : x = side \/ x = Opp(side)
  BY OppFacts
<1>3. ASSUME NEW x \in D, Before(side, x, n), x \in S[n]
      PROVE  InSub(S, x, Kid(t, n, side))
  <2>1. x # n
    BY <1>1, <1>3, BeforeFacts
  <2>2. ~ InSub(S, x, Kid(t, n, Opp(side)))
    <3>1. InSub(S, x, Kid(t, n, Opp(side))) => Before(Opp(side), x, n)
      BY <1>1, <1>2 DEF NodeShape
    <3>2. Before(Opp(side), x, n) => ~ Before(side, x, n)
      BY <1>1, BeforeFacts
    <3> QED
      BY <1>3, <3>1, <3>2
  <2> QED
    BY <1>1, <1>2, <1>3, <2>1, <2>2 DEF NodeShape
<1>4. CASE Kid(t, n, side) # NULL
  <2>1. PICK c : c = Kid(t, n, side)
    OBVIOUS
  <2>2. c \in D /\ c # NULL /\ \A x : x \in S[c] => x \in S[n]
    BY <1>4, <2>1, KidFacts
  <2>3. e = MapTree!Extreme(t, c, Opp(side))
    BY <1>4, <2>1, NeighbourIs
  <2>4. e \in S[c] /\ \A x \in S[c] : x = e \/ Before(Opp(side), e, x)
    BY <1>2, <2>2, <2>3, ExtremeFacts
  <2>5. e \in D /\ e \in Nat /\ e # NULL
    BY <1>1, <2>2, <2>4, SubMember
  <2>6. Before(side, e, n)
    BY <1>1, <2>1, <2>2, <2>4, <2>5 DEF NodeShape, InSub
  <2>7. ASSUME NEW x \in D, Before(side, x, n)
        PROVE  x = e \/ Before(side, x, e)
    <3>1. x \in Nat
      BY <1>1
    <3>2. CASE x \in S[n]
      <4>1. x \in S[c]
        BY <1>3, <2>1, <2>7, <3>2 DEF InSub
      <4>2. x = e \/ Before(Opp(side), e, x)
        BY <2>4, <4>1
      <4> QED
        BY <2>5, <3>1, <4>2, BeforeFacts
    <3>3. CASE x \notin S[n]
      <4>1. PICK s \in Sides : \A y \in S[n] : Before(s, y, x)
        BY <3>3, Convex
      <4>2. Before(s, n, x) /\ Before(s, e, x)
        BY <1>1, <2>2, <2>4, <4>1
      <4>3. s = Opp(side)
        BY <1>1, <1>2, <2>7, <3>1, <4>2, BeforeFacts
      <4> QED
        BY <2>5, <3>1, <4>2, <4>3, BeforeFacts
    <3> QED
      BY <3>2, <3>3
  <2> QED
    BY <2>5, <2>6, <2>7 DEF Nearest
<1>5. CASE Kid(t, n, side) = NULL
  <2>1. PICK f : f = CHOOSE g : IsClimb(g, t, side)
    OBVIOUS
  <2>2. Climbs(f, t, D, side)
    BY <2>1, ClimbSolved
  <2>3. e = f[n] /\ Nearest(D, S[n], n, side, f[n])
    BY <1>5, <2>1, <2>2, NeighbourIs, ClimbFacts
  <2>4. \A x \in D : Before(side, x, n) => x \notin S[n]
    BY <1>3, <1>5 DEF InSub
  <2> QED
    BY <2>3, <2>4 DEF Nearest
<1> QED
  BY <1>4, <1>5

LEMMA LeastOfFacts ==
  /\ MapTree!LeastOf({}) = NULL
  /\ \A T : \A e \in T : (\A x \in T : e \in Nat /\ x \in Nat /\ e <= x) =>
       MapTree!LeastOf(T) = e
<1>1. ASSUME NEW T, NEW e \in T,
             \A x \in T : e \in Nat /\ x \in Nat /\ e <= x
      PROVE  MapTree!LeastOf(T) = e
  <2>1. PICK v : v = MapTree!Min(T)
    OBVIOUS
  <2>2. v \in T /\ \A x \in T : v <= x
    BY <1>1, <2>1 DEF MapTree!Min
  <2>3. v \in Nat /\ e \in Nat /\ v <= e /\ e <= v
    BY <1>1, <2>2
  <2>4. v = e
    BY <2>3
  <2> QED
    BY <2>1, <2>4 DEF MapTree!LeastOf
<1> QED
  BY <1>1 DEF MapTree!LeastOf

\* The walk to the right goes to the least greater element.
LEMMA NextIsLeast ==
  ASSUME NEW D, NEW t, DOMAIN t.at = D, NEW S, Shape(t, D, S), NEW n \in D
  PROVE  MapTree!Neighbour(t, n, "right") =
           MapTree!LeastOf({m \in D : m > n})
<1>1. PICK e : e = MapTree!Neighbour(t, n, "right")
  OBVIOUS
<1>2. Nearest(D, {}, n, "right", e)
  BY <1>1, NeighbourFacts DEF Sides
<1>3. \A x \in D, y \in D : x \in Nat /\ (Before("right", x, y) <=> x > y)
  BY DEF Shape, Before
<1>4. CASE e = NULL
  <2>1. {m \in D : m > n} = {}
    BY <1>2, <1>3, <1>4 DEF Nearest
  <2> QED
    BY <1>1, <1>4, <2>1, LeastOfFacts
<1>5. CASE e # NULL
  <2>1. e \in D /\ e > n /\ \A x \in D : x > n => x = e \/ x > e
    BY <1>2, <1>3, <1>5 DEF Nearest
  <2>2. PICK T : T = {m \in D : m > n}
    OBVIOUS
  <2>3. e \in T /\ \A x \in T : e \in Nat /\ x \in Nat /\ e <= x
    BY <1>3, <2>1, <2>2
  <2> QED
    BY <1>1, <2>2, <2>3, LeastOfFacts
<1> QED
  BY <1>4, <1>5

\* RB_MIN returns the least element.
LEMMA MinIsLeast ==
  ASSUME NEW D, NEW t, DOMAIN t.at = D, NEW S, Shape(t, D, S)
  PROVE  MapTree!MinMax(t, "left") = MapTree!LeastOf(D)
<1>1. CASE t.root = NULL
  <2>1. D = {}
    BY <1>1 DEF Shape, InSub
  <2> QED
    BY <1>1, <2>1, LeastOfFacts DEF MapTree!MinMax
<1>2. CASE t.root # NULL
  <2>1. t.root \in D /\ \A x \in D : x \in S[t.root] /\ x \in Nat
    BY <1>2 DEF Shape, InSub, Links
  <2>2. PICK e : e = MapTree!Extreme(t, t.root, "left")
    OBVIOUS
  <2>3. e \in S[t.root] /\ \A x \in S[t.root] : x = e \/ Before("left", e, x)
    BY <2>1, <2>2, ExtremeFacts DEF Sides
  <2>4. e \in D
    BY <2>1, <2>3, SubMember
  <2>5. \A x \in D : e \in Nat /\ x \in Nat /\ e <= x
    BY <2>1, <2>3, <2>4 DEF Before
  <2> QED
    BY <1>2, <2>2, <2>4, <2>5, LeastOfFacts DEF MapTree!MinMax
<1> QED
  BY <1>1, <1>2

-----------------------------------------------------------------------------
(* Below is S.                                                             *)

IsBelow(f) ==
  f = [m \in DOMAIN tree.at |->
         {m} \cup (IF tree.at[m].left = NULL THEN {} ELSE f[tree.at[m].left])
             \cup (IF tree.at[m].right = NULL THEN {}
                                              ELSE f[tree.at[m].right])]

LEMMA BelowIs ==
  ASSUME NEW n
  PROVE  MapTree!Below(n) = IF n = NULL THEN {}
                                        ELSE (CHOOSE f : IsBelow(f))[n]
BY DEF MapTree!Below, IsBelow

LEMMA BelowFacts ==
  ASSUME NEW D, DOMAIN tree.at = D, NEW S, Shape(tree, D, S),
         NEW c \in Links(D)
  PROVE  \A m : m \in MapTree!Below(c) <=> InSub(S, m, c)
<1>1. /\ NULL \notin D /\ S \in [D -> SUBSET D]
      /\ \A m \in D : NodeShape(tree, D, S, m)
  BY DEF Shape
<1>2. \A m : /\ tree.at[m].left = Kid(tree, m, "left")
             /\ tree.at[m].right = Kid(tree, m, "right")
  BY DEF Kid
<1>3. "left" \in Sides /\ "right" \in Sides
      /\ \A s \in Sides : s = "left" \/ s = "right"
  BY DEF Sides
<1>4. ASSUME NEW m \in D
      PROVE  S[m] = {m} \cup (IF tree.at[m].left = NULL THEN {}
                                ELSE S[tree.at[m].left])
                        \cup (IF tree.at[m].right = NULL THEN {}
                                ELSE S[tree.at[m].right])
  <2>1. PICK l : l = Kid(tree, m, "left")
    OBVIOUS
  <2>2. PICK r : r = Kid(tree, m, "right")
    OBVIOUS
  <2>3. \A x \in D : x \in S[m] <=>
          x = m \/ InSub(S, x, l) \/ InSub(S, x, r)
    BY <1>1, <1>3, <2>1, <2>2 DEF NodeShape
  <2>4. \A x : (x \in S[m] \/ InSub(S, x, l) \/ InSub(S, x, r)) => x \in D
    BY <1>3, <2>1, <2>2, SubMember
  <2> QED
    BY <1>2, <2>1, <2>2, <2>3, <2>4 DEF InSub
<1>5. IsBelow(S)
  <2>1. S = [m \in D |-> S[m]]
    BY <1>1
  <2> QED
    BY <1>4, <2>1 DEF IsBelow
<1>6. PICK f : f = CHOOSE g : IsBelow(g)
  OBVIOUS
<1>7. IsBelow(f)
  BY <1>5, <1>6, SMTT(30)
<1>8. \A m \in D :
        f[m] = {m} \cup (IF tree.at[m].left = NULL THEN {}
                           ELSE f[tree.at[m].left])
                   \cup (IF tree.at[m].right = NULL THEN {}
                           ELSE f[tree.at[m].right])
  BY <1>7 DEF IsBelow
<1> DEFINE T == {m \in D : f[m] # S[m]}
<1>9. ASSUME NEW m \in T PROVE \E s \in Sides : Kid(tree, m, s) \in T
  <2>1. m \in D /\ f[m] # S[m]
    OBVIOUS
  <2>2. \E s \in Sides : Kid(tree, m, s) # NULL
                         /\ f[Kid(tree, m, s)] # S[Kid(tree, m, s)]
    <3> SUFFICES ASSUME \A s \in Sides : Kid(tree, m, s) # NULL =>
                          f[Kid(tree, m, s)] = S[Kid(tree, m, s)]
                 PROVE  FALSE
      OBVIOUS
    <3>1. PICK l : l = Kid(tree, m, "left")
      OBVIOUS
    <3>2. PICK r : r = Kid(tree, m, "right")
      OBVIOUS
    <3>3. (l # NULL => f[l] = S[l]) /\ (r # NULL => f[r] = S[r])
      BY <1>3, <3>1, <3>2
    <3>4. f[m] = {m} \cup (IF l = NULL THEN {} ELSE f[l])
                     \cup (IF r = NULL THEN {} ELSE f[r])
      BY <1>2, <1>8, <2>1, <3>1, <3>2
    <3>5. S[m] = {m} \cup (IF l = NULL THEN {} ELSE S[l])
                     \cup (IF r = NULL THEN {} ELSE S[r])
      BY <1>2, <1>4, <2>1, <3>1, <3>2
    <3>6. PICK a, b : a = (IF l = NULL THEN {} ELSE f[l])
                      /\ b = (IF r = NULL THEN {} ELSE f[r])
      OBVIOUS
    <3>7. a = (IF l = NULL THEN {} ELSE S[l])
          /\ b = (IF r = NULL THEN {} ELSE S[r])
      BY <3>3, <3>6
    <3>8. f[m] = S[m]
      BY <3>4, <3>5, <3>6, <3>7
    <3> QED
      BY <2>1, <3>8
  <2> QED
    BY <2>1, <2>2, KidFacts
<1>10. T = {}
  <2>1. T \in SUBSET D
    OBVIOUS
  <2> HIDE DEF T
  <2> QED
    BY <1>9, <2>1, Downward
<1> QED
  BY <1>6, <1>10, BelowIs DEF InSub, Links

\* A tree of that shape is a search tree.
LEMMA ShapeSearchTree ==
  ASSUME DOMAIN tree.at = keys, NEW S, Shape(tree, keys, S)
  PROVE  MapTree!SearchTree
<1>1. tree.root \in Links(keys) /\ \A m \in keys : InSub(S, m, tree.root)
      /\ S \in [keys -> SUBSET keys] /\ NULL \notin keys
      /\ \A n \in keys : n \in Nat
  BY DEF Shape
<1>2. \A m : m \in MapTree!Below(tree.root) <=> m \in keys
  <2>1. \A m : InSub(S, m, tree.root) => m \in keys
    BY <1>1 DEF InSub, Links
  <2> QED
    BY <1>1, <2>1, BelowFacts
<1>3. tree.root # NULL => tree.at[tree.root].parent = NULL
  BY DEF Shape, Up
<1>4. ASSUME NEW n \in keys
      PROVE  /\ \A m \in MapTree!Below(tree.at[n].left) : m < n
             /\ \A m \in MapTree!Below(tree.at[n].right) : m > n
             /\ \A side \in {"left", "right"} :
                  tree.at[n][side] # NULL =>
                    tree.at[tree.at[n][side]].parent = n
  <2>1. NodeShape(tree, keys, S, n)
    BY DEF Shape
  <2>2. ASSUME NEW s \in Sides, NEW m \in MapTree!Below(Kid(tree, n, s))
        PROVE  Before(s, m, n) /\ m \in keys
    <3>1. Kid(tree, n, s) \in Links(keys)
      BY <2>1 DEF NodeShape
    <3>2. InSub(S, m, Kid(tree, n, s))
      BY <2>2, <3>1, BelowFacts
    <3> QED
      BY <2>1, <3>2, SubMember DEF NodeShape
  <2>3. \A m \in MapTree!Below(tree.at[n].left) : m < n
    BY <2>2 DEF Kid, Before, Sides
  <2>4. \A m \in MapTree!Below(tree.at[n].right) : m > n
    <3>1. \A m \in MapTree!Below(Kid(tree, n, "right")) :
            Before("right", m, n) /\ m \in keys
      BY <2>2 DEF Sides
    <3>2. tree.at[n].right = Kid(tree, n, "right")
      BY DEF Kid
    <3> QED
      BY <1>1, <3>1, <3>2 DEF Before
  <2>5. \A s \in Sides :
          Kid(tree, n, s) # NULL => Up(tree, Kid(tree, n, s)) = n
    BY <2>1 DEF NodeShape
  <2> QED
    BY <2>3, <2>4, <2>5 DEF Sides, Kid, Up
<1> QED
  BY <1>2, <1>3, <1>4 DEF MapTree!SearchTree

-----------------------------------------------------------------------------
(* What a rotation leaves and what it changes.                             *)

Turned(r, t, D, n, side, tmp, inner, up) ==
  /\ IsTree(r, D)
  /\ r.root = IF up = NULL THEN tmp ELSE t.root
  /\ Kid(r, n, side) = Kid(t, n, side) /\ Kid(r, n, Opp(side)) = inner
  /\ Kid(r, tmp, side) = n
  /\ Kid(r, tmp, Opp(side)) = Kid(t, tmp, Opp(side))
  /\ Kid(t, n, side) # n /\ Kid(t, n, side) # tmp
  /\ Kid(t, tmp, Opp(side)) # n /\ Kid(t, tmp, Opp(side)) # tmp
  /\ inner \in Links(D) /\ inner # n /\ inner # tmp
  /\ tmp \in D /\ tmp # n /\ n # NULL /\ tmp # NULL
  /\ \A m \in D, s \in Sides : m # n /\ m # tmp =>
       \/ Kid(t, m, s) = n /\ Kid(r, m, s) = tmp
       \/ Kid(t, m, s) # n /\ Kid(t, m, s) # tmp /\ Kid(r, m, s) = Kid(t, m, s)
  /\ Up(r, n) = tmp /\ Up(r, tmp) = up
  /\ inner # NULL => Up(r, inner) = n
  /\ \A m \in D : m # n /\ m # tmp /\ m # inner => Up(r, m) = Up(t, m)

LEMMA TurnFacts ==
  ASSUME NEW t, NEW D, NEW S, Shape(t, D, S), NEW n \in D, NEW side \in Sides,
         NEW tmp, tmp = Kid(t, n, Opp(side)), tmp # NULL,
         NEW inner, inner = Kid(t, tmp, side), NEW up, up = Up(t, n),
         NEW r, IsRotated(r, t, D, n, side)
  PROVE  Turned(r, t, D, n, side, tmp, inner, up)
<1>1. /\ tmp \in D /\ tmp # n /\ Up(t, tmp) = n /\ tmp # t.root
      /\ up # n /\ up # tmp /\ up \in Links(D)
      /\ inner \in Links(D) /\ inner # tmp /\ inner # n
      /\ inner # up \/ up = NULL
      /\ inner # NULL => Up(t, inner) = tmp
  BY RotationPlaces
<1>2. PICK s0 : s0 = SideIn(t, up, n)
  OBVIOUS
<1>3. /\ n # NULL /\ NULL \notin D
      /\ Opp(side) \in Sides /\ Opp(side) # side /\ Opp(Opp(side)) = side
  BY SubMember, OppFacts DEF Shape
<1>4. /\ IsTree(r, D)
      /\ r.root = IF up = NULL THEN tmp ELSE t.root
      /\ \A m \in D :
           /\ Up(r, m) = IF m = inner THEN n
                         ELSE IF m = tmp THEN up
                         ELSE IF m = n THEN tmp ELSE Up(t, m)
           /\ \A s \in Sides :
                Kid(r, m, s) = IF m = up /\ s = s0 THEN tmp
                               ELSE IF m = tmp /\ s = side THEN n
                               ELSE IF m = n /\ s = Opp(side) THEN inner
                               ELSE Kid(t, m, s)
  BY <1>2 DEF IsRotated
<1>5. /\ Kid(r, n, side) = Kid(t, n, side) /\ Kid(r, n, Opp(side)) = inner
      /\ Kid(r, tmp, side) = n
      /\ Kid(r, tmp, Opp(side)) = Kid(t, tmp, Opp(side))
  BY <1>1, <1>3, <1>4
<1>6. Kid(t, n, side) # n /\ Kid(t, n, side) # tmp
  <2>1. Kid(t, n, side) # NULL => Kid(t, n, side) # n
                                  /\ Kid(t, n, side) # tmp
    BY <1>3, KidFacts
  <2> QED
    BY <1>3, <2>1
<1>7. Kid(t, tmp, Opp(side)) # n /\ Kid(t, tmp, Opp(side)) # tmp
  <2>1. \A m : m \in S[tmp] => m # n
    BY <1>3, KidFacts
  <2>2. Kid(t, tmp, Opp(side)) # NULL =>
          Kid(t, tmp, Opp(side)) # tmp /\ Kid(t, tmp, Opp(side)) \in S[tmp]
    BY <1>1, <1>3, KidFacts
  <2> QED
    BY <1>3, <2>1, <2>2
<1>8. ASSUME NEW m \in D, NEW s \in Sides, m # n, m # tmp
      PROVE  \/ Kid(t, m, s) = n /\ Kid(r, m, s) = tmp
             \/ /\ Kid(t, m, s) # n /\ Kid(t, m, s) # tmp
                /\ Kid(r, m, s) = Kid(t, m, s)
  <2>1. Kid(t, m, s) # NULL =>
          Up(t, Kid(t, m, s)) = m /\ SideIn(t, m, Kid(t, m, s)) = s
    BY KidFacts, SideOfKid
  <2>2. Kid(t, m, s) # tmp
    BY <1>1, <1>8, <2>1
  <2>3. Kid(t, m, s) = n => m = up /\ s = s0
    BY <1>2, <1>3, <2>1
  <2>4. m = up /\ s = s0 => Kid(t, m, s) = n
    <3>1. up # NULL => Kid(t, up, s0) = n
      BY <1>2, UpFacts
    <3> QED
      BY <1>3, <3>1
  <2> QED
    BY <1>4, <1>8, <2>2, <2>3, <2>4
<1>9. Up(r, n) = tmp /\ Up(r, tmp) = up /\ (inner # NULL => Up(r, inner) = n)
  BY <1>1, <1>4 DEF Links
<1> QED
  BY <1>1, <1>3, <1>4, <1>5, <1>6, <1>7, <1>8, <1>9 DEF Turned

LEMMA SameLinksShape ==
  ASSUME NEW t, NEW D, NEW S, Shape(t, D, S), NEW r, SameLinks(r, t, D)
  PROVE  Shape(r, D, S)
<1>1. ASSUME NEW n \in D PROVE NodeShape(r, D, S, n)
  <2>1. NodeShape(t, D, S, n)
    BY DEF Shape
  <2>2. r.root = t.root /\ Up(r, n) = Up(t, n)
        /\ \A s \in Sides : Kid(r, n, s) = Kid(t, n, s)
    BY DEF SameLinks
  <2>3. Up(r, n) # NULL => \E s \in Sides : Kid(r, Up(r, n), s) = n
    BY <2>1, <2>2 DEF NodeShape, SameLinks, Links
  <2>4. ASSUME NEW s \in Sides
        PROVE  Kid(r, n, s) # NULL => Up(r, Kid(r, n, s)) = n
    BY <2>1, <2>2 DEF NodeShape, SameLinks, Links
  <2> QED
    BY <2>1, <2>2, <2>3, <2>4 DEF NodeShape
<1>2. t.root # NULL => Up(r, t.root) = NULL
  BY DEF Shape, SameLinks, Links
<1> QED
  BY <1>1, <1>2 DEF Shape, SameLinks

\* A rotation of a tree that has been coloured.
LEMMA TurnColoured ==
  ASSUME NEW t, NEW D, NEW S, Shape(t, D, S), NEW n \in D, NEW side \in Sides,
         NEW tmp, tmp = Kid(t, n, Opp(side)), tmp # NULL,
         NEW inner, inner = Kid(t, tmp, side), NEW up, up = Up(t, n),
         NEW u, SameLinks(u, t, D),
         NEW r, r = MapTree!Rotate(u, n, side)
  PROVE  /\ Turned(r, t, D, n, side, tmp, inner, up)
         /\ \E R : Shape(r, D, R)
         /\ \A m \in D : Red(r, m) <=> Red(u, m)
<1>1. IsTree(u, D) /\ Shape(u, D, S)
  BY SameLinksShape DEF SameLinks
<1>2. /\ u.root = t.root
      /\ \A m \in D : /\ Up(u, m) = Up(t, m)
                      /\ \A s \in Sides : Kid(u, m, s) = Kid(t, m, s)
  BY DEF SameLinks
<1>3. Opp(side) \in Sides
  BY OppFacts
<1>4. /\ tmp \in D /\ up # n /\ up # tmp
  BY RotationPlaces
<1>5. tmp = Kid(u, n, Opp(side)) /\ inner = Kid(u, tmp, side) /\ up = Up(u, n)
  BY <1>2, <1>3, <1>4
<1>6. NULL \notin D
  BY DEF Shape
<1>7. IsRotated(r, u, D, n, side)
  BY <1>1, <1>4, <1>5, <1>6, RotateFacts
<1>8. Turned(r, u, D, n, side, tmp, inner, up)
  BY <1>1, <1>5, <1>7, TurnFacts
<1>9. Turned(r, t, D, n, side, tmp, inner, up)
  BY <1>2, <1>3, <1>4, <1>8 DEF Turned
<1>10. \E R : Shape(r, D, R)
  BY <1>1, <1>5, <1>7, RotationShape
<1>11. \A m \in D : Red(r, m) <=> Red(u, m)
  BY <1>7 DEF IsRotated
<1> QED
  BY <1>9, <1>10, <1>11

-----------------------------------------------------------------------------
(* Black heights: h[n] is the number of black elements on every way down   *)
(* from n, n excluded.  Below p on side s there may be one too few.        *)

Height(t, h, c) == IF c = NULL THEN 0 ELSE IF Red(t, c) THEN h[c] ELSE h[c] + 1

Short(p, s, n, side) == IF n = p /\ side = s THEN 1 ELSE 0

Heights(t, D, h, p, s) ==
  /\ \A n \in D : h[n] \in Nat
  /\ \A n \in D, side \in Sides :
       Height(t, h, Kid(t, n, side)) + Short(p, s, n, side) = h[n]

LEMMA HeightNat ==
  ASSUME NEW t, NEW D, NEW h, NEW p, NEW s, Heights(t, D, h, p, s),
         NEW c \in Links(D)
  PROVE  Height(t, h, c) \in Nat
BY DEF Heights, Height, Links

\* The red child of n is turned up, its colour and that of n are exchanged.
LEMMA RotateRed ==
  ASSUME NEW t, NEW D, NEW n \in D, NEW side \in Sides, NEW tmp, NEW inner,
         NEW up, NEW r, Turned(r, t, D, n, side, tmp, inner, up),
         tmp = Kid(t, n, Opp(side)), inner = Kid(t, tmp, side),
         NEW h, NEW p, NEW s, Heights(t, D, h, p, s),
         p # tmp, ~ (p = n /\ s = Opp(side)),
         Red(t, tmp), Red(r, n), Red(r, tmp) <=> Red(t, n),
         \A m \in D : m # n /\ m # tmp => (Red(r, m) <=> Red(t, m)),
         IsTree(t, D)
  PROVE  Heights(r, D, h, p, s)
<1>1. /\ Opp(side) \in Sides /\ Opp(side) # side
      /\ \A x \in Sides : x = side \/ x = Opp(side)
  BY OppFacts
<1>2. tmp \in D /\ n # NULL /\ tmp # NULL /\ tmp # n
  BY DEF Turned
<1>3. \A c \in Links(D) : c # n /\ c # tmp =>
        Height(r, h, c) = Height(t, h, c)
  BY DEF Height, Links
<1>4. h[n] \in Nat /\ h[tmp] \in Nat /\ h[tmp] = h[n]
  <2>1. Height(t, h, tmp) + Short(p, s, n, Opp(side)) = h[n]
    BY <1>1 DEF Heights
  <2>2. h[n] \in Nat /\ h[tmp] \in Nat
    BY <1>2 DEF Heights
  <2> QED
    BY <1>2, <2>1, <2>2 DEF Height, Short
<1>5. Height(r, h, tmp) = Height(t, h, n) /\ Height(r, h, n) = h[n]
  BY <1>2, <1>4 DEF Height
<1>6. \A m \in D, x \in Sides : Kid(t, m, x) \in Links(D)
  BY TreeTyped
<1>7. ASSUME NEW x \in Sides
      PROVE  Height(r, h, Kid(r, n, x)) + Short(p, s, n, x) = h[n]
  <2>1. CASE x = side
    <3>1. Kid(r, n, x) = Kid(t, n, x) /\ Kid(t, n, x) # n /\ Kid(t, n, x) # tmp
      BY <2>1 DEF Turned
    <3>2. Height(r, h, Kid(r, n, x)) = Height(t, h, Kid(t, n, x))
      BY <1>3, <1>6, <3>1
    <3> QED
      BY <3>2 DEF Heights
  <2>2. CASE x = Opp(side)
    <3>1. Kid(r, n, x) = inner /\ inner # n /\ inner # tmp
          /\ inner \in Links(D)
      BY <2>2 DEF Turned
    <3>2. Height(r, h, inner) = Height(t, h, inner)
      BY <1>3, <3>1
    <3>3. Height(t, h, inner) + Short(p, s, tmp, side) = h[tmp]
      BY <1>2 DEF Heights
    <3>4. Short(p, s, tmp, side) = 0 /\ Short(p, s, n, x) = 0
      BY <2>2 DEF Short
    <3> QED
      BY <1>4, <3>1, <3>2, <3>3, <3>4
  <2> QED
    BY <1>1, <2>1, <2>2
<1>8. ASSUME NEW x \in Sides
      PROVE  Height(r, h, Kid(r, tmp, x)) + Short(p, s, tmp, x) = h[tmp]
  <2>1. CASE x = side
    <3>1. Kid(r, tmp, x) = n
      BY <2>1 DEF Turned
    <3> QED
      BY <1>4, <1>5, <3>1 DEF Short
  <2>2. CASE x = Opp(side)
    <3>1. Kid(r, tmp, x) = Kid(t, tmp, x)
          /\ Kid(t, tmp, x) # n /\ Kid(t, tmp, x) # tmp
      BY <2>2 DEF Turned
    <3>2. Height(r, h, Kid(r, tmp, x)) = Height(t, h, Kid(t, tmp, x))
      BY <1>2, <1>3, <1>6, <3>1
    <3> QED
      BY <1>2, <3>2 DEF Heights
  <2> QED
    BY <1>1, <2>1, <2>2
<1>9. ASSUME NEW m \in D, NEW x \in Sides, m # n, m # tmp
      PROVE  Height(r, h, Kid(r, m, x)) + Short(p, s, m, x) = h[m]
  <2>1. \/ Kid(t, m, x) = n /\ Kid(r, m, x) = tmp
        \/ /\ Kid(t, m, x) # n /\ Kid(t, m, x) # tmp
           /\ Kid(r, m, x) = Kid(t, m, x)
    BY <1>9 DEF Turned
  <2>2. Height(r, h, Kid(r, m, x)) = Height(t, h, Kid(t, m, x))
    BY <1>3, <1>5, <1>6, <2>1
  <2> QED
    BY <2>2 DEF Heights
<1>10. \A m \in D : h[m] \in Nat
  BY DEF Heights
<1> QED
  BY <1>7, <1>8, <1>9, <1>10 DEF Heights

\* A gap below n on the side that its black child is turned to: n and the far
\* nephew become black, the child gets the colour of n, and the gap is gone.
LEMMA RotateGap ==
  ASSUME NEW t, NEW D, NEW n \in D, NEW side \in Sides, NEW tmp, NEW inner,
         NEW up, NEW r, Turned(r, t, D, n, side, tmp, inner, up),
         tmp = Kid(t, n, Opp(side)), inner = Kid(t, tmp, side),
         NEW far \in D, far = Kid(t, tmp, Opp(side)), far # NULL, far # inner,
         far # Kid(t, n, side),
         \A m \in D, x \in Sides : Kid(t, m, x) = far => m = tmp,
         NEW h, Heights(t, D, h, n, side),
         ~ Red(t, tmp), Red(t, far), ~ Red(r, n), ~ Red(r, far),
         Red(r, tmp) <=> Red(t, n),
         \A m \in D : m # n /\ m # tmp /\ m # far => (Red(r, m) <=> Red(t, m)),
         IsTree(t, D), NULL \notin D
  PROVE  \E g : Heights(r, D, g, NULL, "left")
<1>1. /\ Opp(side) \in Sides /\ Opp(side) # side
      /\ \A x \in Sides : x = side \/ x = Opp(side)
  BY OppFacts
<1>2. tmp \in D /\ n # NULL /\ tmp # NULL /\ tmp # n /\ far # n /\ far # tmp
  BY DEF Turned
<1>3. PICK g : g = [m \in D |-> IF m = n THEN h[n] - 1
                                ELSE IF m = tmp THEN h[tmp] + 1 ELSE h[m]]
  OBVIOUS
<1>4. \A m \in D : h[m] \in Nat
  BY DEF Heights
<1>5. \A m \in D, x \in Sides : Kid(t, m, x) \in Links(D)
  BY TreeTyped
<1>6. /\ Height(t, h, Kid(t, n, side)) + 1 = h[n]
      /\ Height(t, h, tmp) = h[n]
      /\ Height(t, h, inner) = h[tmp] /\ Height(t, h, far) = h[tmp]
  <2>1. /\ Height(t, h, Kid(t, n, side)) + Short(n, side, n, side) = h[n]
        /\ Height(t, h, tmp) + Short(n, side, n, Opp(side)) = h[n]
        /\ Height(t, h, inner) + Short(n, side, tmp, side) = h[tmp]
        /\ Height(t, h, far) + Short(n, side, tmp, Opp(side)) = h[tmp]
    BY <1>1, <1>2 DEF Heights
  <2>2. /\ Height(t, h, tmp) \in Nat /\ Height(t, h, inner) \in Nat
        /\ Height(t, h, far) \in Nat
    BY <1>1, <1>2, <1>5, HeightNat
  <2>3. /\ Short(n, side, n, side) = 1 /\ Short(n, side, n, Opp(side)) = 0
        /\ Short(n, side, tmp, side) = 0 /\ Short(n, side, tmp, Opp(side)) = 0
    BY <1>1, <1>2 DEF Short
  <2> QED
    BY <2>1, <2>2, <2>3
<1>7. PICK k : k = h[tmp]
  OBVIOUS
<1>8. k \in Nat /\ h[n] = k + 1 /\ h[far] = k
      /\ Height(t, h, Kid(t, n, side)) = k
  <2>1. h[n] = k + 1 /\ h[far] = k /\ k \in Nat
    BY <1>2, <1>4, <1>6, <1>7 DEF Height
  <2>2. Height(t, h, Kid(t, n, side)) \in Nat
    BY <1>5, HeightNat
  <2> QED
    BY <1>6, <2>1, <2>2
<1>9. /\ g[n] = k /\ g[tmp] = k + 1
      /\ \A m \in D : m # n /\ m # tmp => g[m] = h[m]
  BY <1>2, <1>3, <1>7, <1>8
<1>10. \A m \in D : g[m] \in Nat
  BY <1>4, <1>8, <1>9
<1>11. \A c \in Links(D) : c # n /\ c # tmp /\ c # far =>
         Height(r, g, c) = Height(t, h, c)
  BY <1>9 DEF Height, Links
<1>12. /\ Height(r, g, n) = k + 1 /\ Height(r, g, far) = k + 1
       /\ Height(r, g, tmp) = Height(t, h, n)
  BY <1>2, <1>8, <1>9 DEF Height
<1>13. \A m, x : Short(NULL, "left", m, x) = IF m = NULL /\ x = "left"
                                             THEN 1 ELSE 0
  BY DEF Short
<1>14. ASSUME NEW x \in Sides PROVE Height(r, g, Kid(r, n, x)) = g[n]
  <2>1. CASE x = side
    <3>1. Kid(r, n, x) = Kid(t, n, x) /\ Kid(t, n, x) # n /\ Kid(t, n, x) # tmp
      BY <2>1 DEF Turned
    <3>2. Height(r, g, Kid(r, n, x)) = Height(t, h, Kid(t, n, side))
      BY <1>5, <1>11, <2>1, <3>1
    <3> QED
      BY <1>8, <1>9, <3>2
  <2>2. CASE x = Opp(side)
    <3>1. Kid(r, n, x) = inner /\ inner # n /\ inner # tmp
          /\ inner \in Links(D)
      BY <2>2 DEF Turned
    <3>2. Height(r, g, inner) = Height(t, h, inner)
      BY <1>11, <3>1
    <3> QED
      BY <1>6, <1>7, <1>9, <3>1, <3>2
  <2> QED
    BY <1>1, <2>1, <2>2
<1>15. ASSUME NEW x \in Sides PROVE Height(r, g, Kid(r, tmp, x)) = g[tmp]
  <2>1. CASE x = side
    <3>1. Kid(r, tmp, x) = n
      BY <2>1 DEF Turned
    <3> QED
      BY <1>9, <1>12, <3>1
  <2>2. CASE x = Opp(side)
    <3>1. Kid(r, tmp, x) = far
      BY <2>2 DEF Turned
    <3> QED
      BY <1>9, <1>12, <3>1
  <2> QED
    BY <1>1, <2>1, <2>2
<1>16. ASSUME NEW m \in D, NEW x \in Sides, m # n, m # tmp
       PROVE  Height(r, g, Kid(r, m, x)) = g[m]
  <2>1. \/ Kid(t, m, x) = n /\ Kid(r, m, x) = tmp
        \/ /\ Kid(t, m, x) # n /\ Kid(t, m, x) # tmp
           /\ Kid(r, m, x) = Kid(t, m, x)
    BY <1>16 DEF Turned
  <2>2. Kid(t, m, x) # far
    BY <1>16
  <2>3. Height(r, g, Kid(r, m, x)) = Height(t, h, Kid(t, m, x))
    BY <1>5, <1>11, <1>12, <2>1, <2>2
  <2>4. Height(t, h, Kid(t, m, x)) + Short(n, side, m, x) = h[m]
    BY DEF Heights
  <2>5. Height(t, h, Kid(t, m, x)) \in Nat /\ Short(n, side, m, x) = 0
    BY <1>5, <1>16, HeightNat DEF Short
  <2> QED
    BY <1>9, <1>16, <2>3, <2>4, <2>5
<1>17. \A m \in D, x \in Sides :
         Height(r, g, Kid(r, m, x)) + Short(NULL, "left", m, x) = g[m]
  BY <1>10, <1>13, <1>14, <1>15, <1>16
<1>18. Heights(r, D, g, NULL, "left")
  BY <1>10, <1>17 DEF Heights
<1> QED
  BY <1>18

-----------------------------------------------------------------------------
(* Colours.                                                                *)

RedPair(t, n) == Red(t, n) /\ Red(t, Up(t, n))

\* Between operations, in the loop after an insertion and in that after a
\* removal.
AtRest(t, D) ==
  /\ ~ Red(t, t.root)
  /\ \A n \in D : ~ RedPair(t, n)
  /\ \E h : Heights(t, D, h, NULL, "left")

Inserting(t, D, e) ==
  /\ e \in D /\ Red(t, e)
  /\ Red(t, t.root) => t.root = e
  /\ \A n \in D : RedPair(t, n) => n = e
  /\ \E h : Heights(t, D, h, NULL, "left")

Removing(t, D, e, p) ==
  /\ e \in Links(D) /\ p \in Links(D)
  /\ p = NULL <=> e = t.root
  /\ p # NULL => Kid(t, p, SideIn(t, p, e)) = e
  /\ Red(t, t.root) => t.root = e
  /\ \A n \in D : RedPair(t, n) => n = e \/ Up(t, n) = e
  /\ \E h : Heights(t, D, h, p, SideIn(t, p, e))

LEMMA NoRed ==
  ASSUME NEW t
  PROVE  ~ Red(t, NULL)
BY DEF Red, MapTree!IsRed

LEMMA SameLinksTwice ==
  ASSUME NEW D, NEW t, NEW u, NEW r, SameLinks(u, t, D), SameLinks(r, u, D)
  PROVE  SameLinks(r, t, D)
BY DEF SameLinks

LEMMA TwoColours ==
  ASSUME NEW D, NULL \notin D, NEW t, IsTree(t, D), NEW a \in D, NEW b \in D,
         NEW c \in {"red", "black"}, NEW d \in {"red", "black"},
         NEW u, u = MapTree!Color(MapTree!Color(t, a, c), b, d)
  PROVE  /\ SameLinks(u, t, D)
         /\ \A m \in D : Red(u, m) <=> IF m = b THEN d = "red"
                                       ELSE IF m = a THEN c = "red"
                                       ELSE Red(t, m)
<1>1. PICK v : v = MapTree!Color(t, a, c)
  OBVIOUS
<1>2. /\ SameLinks(v, t, D)
      /\ \A m \in D : Red(v, m) <=> IF m = a THEN c = "red" ELSE Red(t, m)
  BY <1>1, ColorFacts
<1>3. IsTree(v, D)
  BY <1>2 DEF SameLinks
<1>4. /\ SameLinks(u, v, D)
      /\ \A m \in D : Red(u, m) <=> IF m = b THEN d = "red" ELSE Red(v, m)
  BY <1>1, <1>3, ColorFacts
<1> QED
  BY <1>2, <1>4, SameLinksTwice

LEMMA BlackRed ==
  ASSUME NEW D, NULL \notin D, NEW t, IsTree(t, D), NEW a \in D, NEW b \in D,
         a # b, NEW u, u = MapTree!SetBlackRed(t, a, b)
  PROVE  /\ SameLinks(u, t, D)
         /\ Red(u, b) /\ ~ Red(u, a)
         /\ \A m \in D : m # a /\ m # b => (Red(u, m) <=> Red(t, m))
<1>1. u = MapTree!Color(MapTree!Color(t, a, "black"), b, "red")
  BY DEF MapTree!SetBlackRed
<1>2. /\ SameLinks(u, t, D)
      /\ \A m \in D : Red(u, m) <=> IF m = b THEN "red" = "red"
                                    ELSE IF m = a THEN "black" = "red"
                                    ELSE Red(t, m)
  BY <1>1, TwoColours
<1> QED
  BY <1>2

-----------------------------------------------------------------------------
(* The loop after an insertion.                                            *)

InsertAt(t, D, e, up, gparent, side) ==
  /\ up = Up(t, e) /\ up \in D /\ up # e
  /\ gparent = Up(t, up) /\ gparent \in D /\ gparent # up /\ gparent # e
  /\ side \in Sides /\ Kid(t, gparent, side) = up
  /\ side = SideIn(t, gparent, up)
  /\ Kid(t, gparent, Opp(side)) # up
  /\ Red(t, up) /\ ~ Red(t, gparent) /\ ~ Red(t, t.root)

LEMMA InsertPlaces ==
  ASSUME NEW t, NEW D, NEW S, Shape(t, D, S), NEW e, Inserting(t, D, e),
         NEW up, up = Up(t, e), Red(t, up), NEW gparent, gparent = Up(t, up),
         NEW side, side = SideIn(t, gparent, up)
  PROVE  InsertAt(t, D, e, up, gparent, side)
<1>1. up # NULL /\ e \in D /\ Red(t, e)
  BY NoRed DEF Inserting
<1>2. up \in D /\ up # e /\ e \in S[up] /\ e # t.root
  BY <1>1, UpFacts
<1>3. ~ Red(t, t.root) /\ up # t.root
  BY <1>2 DEF Inserting
<1>4. /\ gparent \in D /\ gparent # up /\ up \in S[gparent]
      /\ side \in Sides /\ Kid(t, gparent, side) = up
      /\ Kid(t, gparent, Opp(side)) # up
  BY <1>2, <1>3, UpFacts
<1>5. gparent # e
  BY <1>2, <1>4, Antisymmetric
<1>6. ~ Red(t, gparent)
  BY <1>2 DEF Inserting, RedPair
<1> QED
  BY <1>2, <1>3, <1>4, <1>5, <1>6 DEF InsertAt

\* A red uncle.
LEMMA InsertRecoloured ==
  ASSUME NEW t, NEW D, NEW S, Shape(t, D, S), IsTree(t, D),
         NEW e, Inserting(t, D, e),
         NEW up, NEW gparent, NEW side, InsertAt(t, D, e, up, gparent, side),
         NEW uncle, uncle = Kid(t, gparent, Opp(side)), Red(t, uncle),
         NEW r, r = MapTree!SetBlackRed(MapTree!Color(t, uncle, "black"),
                                        up, gparent)
  PROVE  SameLinks(r, t, D) /\ Inserting(r, D, gparent)
<1>1. /\ up = Up(t, e) /\ up \in D /\ up # e /\ NULL \notin D
      /\ gparent = Up(t, up) /\ gparent \in D /\ gparent # up
      /\ side \in Sides /\ Kid(t, gparent, side) = up
      /\ uncle # up /\ Red(t, up) /\ ~ Red(t, gparent) /\ ~ Red(t, t.root)
      /\ Opp(side) \in Sides /\ \A x \in Sides : x = side \/ x = Opp(side)
  BY OppFacts DEF InsertAt, Shape
<1>2. uncle # NULL
  BY NoRed
<1>3. uncle \in D /\ uncle # gparent /\ Up(t, uncle) = gparent
  BY <1>1, <1>2, KidFacts
<1>4. PICK u : u = MapTree!Color(t, uncle, "black")
  OBVIOUS
<1>5. /\ SameLinks(u, t, D)
      /\ \A m \in D : Red(u, m) <=> IF m = uncle THEN "black" = "red"
                                    ELSE Red(t, m)
  BY <1>1, <1>3, <1>4, ColorFacts
<1>6. IsTree(u, D)
  BY <1>5 DEF SameLinks
<1>7. /\ SameLinks(r, u, D)
      /\ Red(r, gparent) /\ ~ Red(r, up)
      /\ \A m \in D : m # up /\ m # gparent => (Red(r, m) <=> Red(u, m))
  BY <1>1, <1>4, <1>6, BlackRed
<1>8. /\ SameLinks(r, t, D)
      /\ Red(r, gparent) /\ ~ Red(r, up) /\ ~ Red(r, uncle)
      /\ \A m \in D : m # up /\ m # gparent /\ m # uncle =>
           (Red(r, m) <=> Red(t, m))
  BY <1>3, <1>5, <1>7, SameLinksTwice
<1>9. ASSUME NEW m \in D, RedPair(r, m) PROVE m = gparent
  <2> SUFFICES ASSUME m # gparent PROVE FALSE
    OBVIOUS
  <2>1. Red(r, m) /\ Red(r, Up(t, m))
    BY <1>8, <1>9 DEF RedPair, SameLinks
  <2>2. m # up /\ m # uncle /\ Red(t, m)
    BY <1>8, <2>1
  <2>3. PICK q : q = Up(t, m)
    OBVIOUS
  <2>4. q # NULL /\ q # up /\ q # uncle
    BY <1>8, <2>1, <2>3, NoRed
  <2>5. q \in D
    BY <2>3, <2>4, UpFacts
  <2>6. q # gparent
    <3>1. Kid(t, q, SideIn(t, q, m)) = m /\ SideIn(t, q, m) \in Sides
      BY <2>3, <2>4, UpFacts
    <3> QED
      BY <1>1, <2>2, <3>1
  <2>7. RedPair(t, m)
    BY <1>8, <2>1, <2>2, <2>3, <2>4, <2>5, <2>6 DEF RedPair
  <2>8. m = e
    BY <2>7 DEF Inserting
  <2> QED
    BY <1>1, <2>3, <2>4, <2>8
<1>10. ASSUME Red(r, r.root) PROVE r.root = gparent
  <2>1. r.root = t.root
    BY <1>8 DEF SameLinks
  <2>2. t.root # NULL
    BY <1>10, <2>1, NoRed
  <2>3. t.root \in D
    BY <2>2 DEF Shape, Links
  <2> QED
    BY <1>1, <1>8, <1>10, <2>1, <2>3
<1>11. PICK h : Heights(t, D, h, NULL, "left")
  BY DEF Inserting
<1>12. PICK g : g = [m \in D |-> IF m = gparent THEN h[m] + 1 ELSE h[m]]
  OBVIOUS
<1>13. \A m \in D : h[m] \in Nat /\ g[m] \in Nat
  BY <1>11, <1>12 DEF Heights
<1>14. \A c \in Links(D) : c # up /\ c # uncle =>
         Height(r, g, c) = Height(t, h, c)
  BY <1>1, <1>8, <1>12, <1>13 DEF Height, Links
<1>15. ASSUME NEW m \in D, NEW x \in Sides
       PROVE  Height(r, g, Kid(r, m, x)) + Short(NULL, "left", m, x) = g[m]
  <2>1. PICK c : c = Kid(t, m, x)
    OBVIOUS
  <2>2. c \in Links(D) /\ Kid(r, m, x) = c
    BY <1>8, <2>1, TreeTyped DEF SameLinks
  <2>3. Height(t, h, c) + Short(NULL, "left", m, x) = h[m]
    BY <1>11, <2>1 DEF Heights
  <2>4. Short(NULL, "left", m, x) = 0 /\ Height(t, h, c) \in Nat
    BY <1>1, <1>11, <2>2, HeightNat DEF Short
  <2>5. CASE m = gparent
    <3>1. (c = up \/ c = uncle) /\ c # NULL /\ c # gparent
      BY <1>1, <1>2, <1>3, <2>1, <2>5
    <3>2. Height(t, h, c) = h[c] /\ Height(r, g, c) = g[c] + 1
      BY <1>1, <1>8, <3>1 DEF Height
    <3>3. c \in D /\ g[c] = h[c] /\ g[m] = h[m] + 1
      BY <1>1, <1>3, <1>12, <2>5, <3>1
    <3> QED
      BY <1>13, <2>2, <2>3, <2>4, <3>2, <3>3
  <2>6. CASE m # gparent
    <3>1. c # up /\ c # uncle
      BY <1>1, <1>2, <1>3, <2>1, <2>6, KidFacts
    <3> QED
      BY <1>12, <1>14, <2>2, <2>3, <2>6, <3>1
  <2> QED
    BY <2>5, <2>6
<1>16. Heights(r, D, g, NULL, "left")
  BY <1>13, <1>15 DEF Heights
<1>17. Inserting(r, D, gparent)
  BY <1>1, <1>8, <1>9, <1>10, <1>16 DEF Inserting
<1> QED
  BY <1>8, <1>17

\* An inner element changes places with its parent.
LEMMA InsertStraightened ==
  ASSUME NEW t, NEW D, NEW S, Shape(t, D, S), IsTree(t, D),
         NEW e, Inserting(t, D, e),
         NEW up, NEW gparent, NEW side, InsertAt(t, D, e, up, gparent, side),
         Kid(t, up, Opp(side)) = e,
         NEW r, r = MapTree!Rotate(t, up, side)
  PROVE  /\ IsTree(r, D)
         /\ \E R : Shape(r, D, R)
         /\ Inserting(r, D, up)
         /\ InsertAt(r, D, up, e, gparent, side)
         /\ Kid(r, gparent, Opp(side)) = Kid(t, gparent, Opp(side))
         /\ \A m \in D : Red(r, m) <=> Red(t, m)
         /\ Kid(r, e, Opp(side)) # up
<1>1. /\ up = Up(t, e) /\ up \in D /\ up # e /\ NULL \notin D
      /\ gparent = Up(t, up) /\ gparent \in D /\ gparent # up /\ gparent # e
      /\ side \in Sides /\ Kid(t, gparent, side) = up
      /\ side = SideIn(t, gparent, up)
      /\ Kid(t, gparent, Opp(side)) # up
      /\ Red(t, up) /\ ~ Red(t, gparent) /\ ~ Red(t, t.root)
      /\ Opp(side) \in Sides /\ \A x \in Sides : x = side \/ x = Opp(side)
  BY OppFacts DEF InsertAt, Shape
<1>2. e \in D /\ Red(t, e) /\ e # NULL
  BY NoRed DEF Inserting
<1>3. PICK inner : inner = Kid(t, e, side)
  OBVIOUS
<1>4. SameLinks(t, t, D)
  BY DEF SameLinks
<1>5. /\ Turned(r, t, D, up, side, e, inner, gparent)
      /\ \E R : Shape(r, D, R)
      /\ \A m \in D : Red(r, m) <=> Red(t, m)
  BY <1>1, <1>2, <1>3, <1>4, TurnColoured
<1>6. /\ IsTree(r, D) /\ r.root = t.root
      /\ Up(r, up) = e /\ Up(r, e) = gparent
      /\ Kid(r, e, side) = up
      /\ Kid(r, e, Opp(side)) # up
      /\ inner \in Links(D) /\ inner # up /\ inner # e
      /\ inner # NULL => Up(r, inner) = up
      /\ \A m \in D : m # up /\ m # e /\ m # inner => Up(r, m) = Up(t, m)
  BY <1>1, <1>5 DEF Turned
<1>7. /\ Kid(r, gparent, side) = e
      /\ Kid(r, gparent, Opp(side)) = Kid(t, gparent, Opp(side))
      /\ Kid(t, gparent, Opp(side)) # e
  BY <1>1, <1>5 DEF Turned
<1>8. SideIn(r, gparent, e) = side
  <2>1. PICK R : Shape(r, D, R)
    BY <1>5
  <2> QED
    BY <1>1, <1>2, <1>7, <2>1, SideOfKid
<1>9. InsertAt(r, D, up, e, gparent, side)
  <2>1. ~ Red(r, r.root)
    <3>1. t.root \in D
      BY <1>1 DEF Shape, InSub, Links
    <3> QED
      BY <1>1, <1>5, <1>6, <3>1
  <2> QED
    BY <1>1, <1>2, <1>5, <1>6, <1>7, <1>8, <2>1 DEF InsertAt
<1>10. ASSUME NEW m \in D, RedPair(r, m) PROVE m = up
  <2> SUFFICES ASSUME m # up PROVE FALSE
    OBVIOUS
  <2>1. Red(t, m) /\ Red(r, Up(r, m))
    BY <1>5, <1>10 DEF RedPair
  <2>2. m # e
    BY <1>1, <1>5, <1>6, <2>1
  <2>3. m # inner
    <3> SUFFICES ASSUME m = inner PROVE FALSE
      OBVIOUS
    <3>1. inner # NULL
      BY <1>1
    <3>2. Up(t, inner) = e
      BY <1>1, <1>2, <1>3, <3>1, KidFacts
    <3>3. RedPair(t, m)
      BY <1>2, <2>1, <3>2 DEF RedPair
    <3> QED
      BY <2>2, <3>3 DEF Inserting
  <2>4. PICK q : q = Up(t, m)
    OBVIOUS
  <2>5. Up(r, m) = q /\ q # NULL
    BY <1>6, <2>1, <2>2, <2>3, <2>4, NoRed
  <2>6. q \in D
    BY <2>4, <2>5, UpFacts
  <2>7. RedPair(t, m)
    BY <1>5, <2>1, <2>4, <2>5, <2>6 DEF RedPair
  <2> QED
    BY <2>2, <2>7 DEF Inserting
<1>11. PICK h : Heights(t, D, h, NULL, "left")
  BY DEF Inserting
<1>12. Heights(r, D, h, NULL, "left")
  <2>1. NULL # e /\ ~ (NULL = up /\ "left" = Opp(side))
    BY <1>1, <1>2
  <2>2. Red(r, up) /\ (Red(r, e) <=> Red(t, up))
    BY <1>1, <1>2, <1>5, SMTT(30)
  <2> QED
    BY <1>1, <1>2, <1>3, <1>5, <1>11, <2>1, <2>2, RotateRed
<1>13. Red(r, up) /\ (Red(r, r.root) => r.root = up)
  BY <1>1, <1>5, <1>9 DEF InsertAt
<1>14. Inserting(r, D, up)
  BY <1>1, <1>10, <1>12, <1>13 DEF Inserting
<1> QED
  BY <1>5, <1>6, <1>7, <1>9, <1>14

\* An outer element with a black uncle: its parent comes to the top.
LEMMA InsertTopped ==
  ASSUME NEW t, NEW D, NEW S, Shape(t, D, S), IsTree(t, D),
         NEW e, Inserting(t, D, e),
         NEW up, NEW gparent, NEW side, InsertAt(t, D, e, up, gparent, side),
         Kid(t, up, Opp(side)) # e, ~ Red(t, Kid(t, gparent, Opp(side))),
         NEW r, r = MapTree!Rotate(MapTree!SetBlackRed(t, up, gparent),
                                   gparent, Opp(side))
  PROVE  /\ IsTree(r, D)
         /\ \E R : Shape(r, D, R)
         /\ Inserting(r, D, e)
<1>1. /\ up = Up(t, e) /\ up \in D /\ up # e /\ NULL \notin D
      /\ gparent = Up(t, up) /\ gparent \in D /\ gparent # up /\ gparent # e
      /\ side \in Sides /\ Kid(t, gparent, side) = up
      /\ Red(t, up) /\ ~ Red(t, gparent) /\ ~ Red(t, t.root)
      /\ Opp(side) \in Sides /\ \A x \in Sides : x = side \/ x = Opp(side)
      /\ Opp(Opp(side)) = side
  BY OppFacts DEF InsertAt, Shape
<1>2. e \in D /\ Red(t, e) /\ up # NULL /\ gparent # NULL
  BY <1>1 DEF Inserting
<1>3. PICK u : u = MapTree!SetBlackRed(t, up, gparent)
  OBVIOUS
<1>4. /\ SameLinks(u, t, D)
      /\ Red(u, gparent) /\ ~ Red(u, up)
      /\ \A m \in D : m # up /\ m # gparent => (Red(u, m) <=> Red(t, m))
  BY <1>1, <1>3, BlackRed
<1>5. PICK inner : inner = Kid(t, up, Opp(side))
  OBVIOUS
<1>6. PICK top : top = Up(t, gparent)
  OBVIOUS
<1>7. /\ Turned(r, t, D, gparent, Opp(side), up, inner, top)
      /\ \E R : Shape(r, D, R)
      /\ \A m \in D : Red(r, m) <=> Red(u, m)
  BY <1>1, <1>2, <1>3, <1>4, <1>5, <1>6, TurnColoured
<1>8. /\ IsTree(r, D) /\ r.root = IF top = NULL THEN up ELSE t.root
      /\ Up(r, gparent) = up /\ Up(r, up) = top
      /\ inner # NULL => Up(r, inner) = gparent
      /\ \A m \in D : m # up /\ m # gparent /\ m # inner =>
           Up(r, m) = Up(t, m)
  BY <1>7 DEF Turned
<1>9. /\ Red(r, gparent) /\ ~ Red(r, up)
      /\ \A m \in D : m # up /\ m # gparent => (Red(r, m) <=> Red(t, m))
  BY <1>1, <1>4, <1>7
<1>10. ASSUME NEW m \in D PROVE ~ RedPair(r, m)
  <2> SUFFICES ASSUME Red(r, m), Red(r, Up(r, m)) PROVE FALSE
    BY DEF RedPair
  <2>1. m # up /\ m # gparent
    BY <1>8, <1>9
  <2>2. Red(t, m)
    BY <1>9, <2>1
  <2>3. m # inner
    <3> SUFFICES ASSUME m = inner PROVE FALSE
      OBVIOUS
    <3>1. Up(t, inner) = up
      BY <1>1, <1>5, KidFacts
    <3>2. RedPair(t, m)
      BY <1>1, <2>2, <3>1 DEF RedPair
    <3> QED
      BY <1>5, <3>2 DEF Inserting
  <2>4. PICK q : q = Up(t, m)
    OBVIOUS
  <2>5. Up(r, m) = q /\ q # NULL /\ q # up
    BY <1>8, <1>9, <2>1, <2>3, <2>4, NoRed
  <2>6. /\ q \in D /\ SideIn(t, q, m) \in Sides
        /\ Kid(t, q, SideIn(t, q, m)) = m
    BY <2>4, <2>5, UpFacts
  <2>7. q # gparent
    BY <1>1, <2>1, <2>2, <2>6
  <2>8. RedPair(t, m)
    BY <1>9, <2>2, <2>4, <2>5, <2>6, <2>7 DEF RedPair
  <2>9. m = e
    BY <2>8 DEF Inserting
  <2> QED
    BY <1>1, <2>4, <2>5, <2>9
<1>11. PICK h : Heights(t, D, h, NULL, "left")
  BY DEF Inserting
<1>12. Heights(r, D, h, NULL, "left")
  <2>1. NULL # up /\ ~ (NULL = gparent /\ "left" = Opp(Opp(side)))
    BY <1>2
  <2>2. up = Kid(t, gparent, Opp(Opp(side))) /\ Opp(side) \in Sides
    BY <1>1
  <2>3. Red(r, gparent) /\ (Red(r, up) <=> Red(t, gparent))
    BY <1>1, <1>9
  <2> QED
    BY <1>1, <1>5, <1>7, <1>9, <1>11, <2>1, <2>2, <2>3, RotateRed
<1>13. ~ Red(r, r.root)
  <2>1. CASE top = NULL
    BY <1>8, <1>9, <2>1
  <2>2. CASE top # NULL
    <3>1. t.root \in D /\ t.root # gparent
      BY <1>1, <1>6, <2>2, UpFacts DEF Shape, InSub, Links
    <3> QED
      BY <1>1, <1>8, <1>9, <2>2, <3>1
  <2> QED
    BY <2>1, <2>2
<1>14. Red(r, e)
  BY <1>1, <1>2, <1>9
<1>15. Inserting(r, D, e)
  BY <1>2, <1>10, <1>12, <1>13, <1>14 DEF Inserting
<1> QED
  BY <1>7, <1>8, <1>15

\* The root of a tree that is not empty is made black.
LEMMA InsertEnded ==
  ASSUME NEW t, NEW D, NEW S, Shape(t, D, S), IsTree(t, D),
         NEW e, Inserting(t, D, e), ~ Red(t, Up(t, e)),
         NEW r, r = MapTree!Color(t, t.root, "black")
  PROVE  SameLinks(r, t, D) /\ AtRest(r, D)
<1>1. e \in D /\ NULL \notin D
  BY DEF Inserting, Shape
<1>2. t.root \in D /\ Up(t, t.root) = NULL
  BY <1>1 DEF Shape, InSub, Links
<1>3. /\ SameLinks(r, t, D)
      /\ \A m \in D : Red(r, m) <=> IF m = t.root THEN "black" = "red"
                                    ELSE Red(t, m)
  BY <1>1, <1>2, ColorFacts
<1>4. ~ Red(r, r.root)
  BY <1>2, <1>3 DEF SameLinks
<1>5. ASSUME NEW m \in D PROVE ~ RedPair(r, m)
  <2> SUFFICES ASSUME Red(r, m), Red(r, Up(t, m)) PROVE FALSE
    BY <1>3 DEF RedPair, SameLinks
  <2>1. Up(t, m) # NULL
    BY NoRed
  <2>2. Up(t, m) \in D
    BY <2>1, UpFacts
  <2>3. RedPair(t, m)
    BY <1>3, <2>2 DEF RedPair
  <2> QED
    BY <2>3 DEF Inserting, RedPair
<1>6. PICK h : Heights(t, D, h, NULL, "left")
  BY DEF Inserting
<1>7. ASSUME NEW m \in D, NEW x \in Sides
      PROVE  Height(r, h, Kid(r, m, x)) = Height(t, h, Kid(t, m, x))
  <2>1. PICK c : c = Kid(t, m, x)
    OBVIOUS
  <2>2. Kid(r, m, x) = c /\ c \in Links(D) /\ (c # NULL => c # t.root)
    BY <1>3, <2>1, TreeTyped, KidFacts DEF SameLinks
  <2>3. Height(r, h, c) = Height(t, h, c)
    BY <1>3, <2>2 DEF Height, Links
  <2> QED
    BY <2>1, <2>2, <2>3
<1>8. Heights(r, D, h, NULL, "left")
  BY <1>6, <1>7 DEF Heights
<1>9. AtRest(r, D)
  BY <1>4, <1>5, <1>8 DEF AtRest
<1> QED
  BY <1>3, <1>9

-----------------------------------------------------------------------------
(* The loop after a removal.                                               *)

\* The head of an iteration is done: the sibling is an element, and black.
Leveled(t, D, e, p, side) ==
  /\ IsTree(t, D)
  /\ e \in Links(D) /\ p \in D /\ side \in Sides /\ Kid(t, p, side) = e
  /\ ~ Red(t, e) /\ ~ Red(t, t.root)
  /\ \A n \in D : ~ RedPair(t, n)
  /\ Kid(t, p, Opp(side)) \in D /\ ~ Red(t, Kid(t, p, Opp(side)))
  /\ \E h : Heights(t, D, h, p, side)

\* The other side of the gap.
LEMMA GapSibling ==
  ASSUME NEW t, NEW D, NULL \notin D, IsTree(t, D), NEW p \in D,
         NEW side \in Sides, NEW h, Heights(t, D, h, p, side),
         NEW sib, sib = Kid(t, p, Opp(side))
  PROVE  /\ sib \in D /\ sib # Kid(t, p, side)
         /\ h[p] \in Nat /\ h[p] # 0 /\ Height(t, h, sib) = h[p]
         /\ Height(t, h, Kid(t, p, side)) = h[p] - 1
<1>1. Opp(side) \in Sides /\ Opp(side) # side
  BY OppFacts
<1>2. /\ Kid(t, p, side) \in Links(D) /\ sib \in Links(D)
  BY <1>1, TreeTyped
<1>3. /\ Height(t, h, Kid(t, p, side)) \in Nat /\ Height(t, h, sib) \in Nat
  BY <1>2, HeightNat
<1>4. /\ Height(t, h, Kid(t, p, side)) + Short(p, side, p, side) = h[p]
      /\ Height(t, h, sib) + Short(p, side, p, Opp(side)) = h[p]
  BY <1>1 DEF Heights
<1>5. Short(p, side, p, side) = 1 /\ Short(p, side, p, Opp(side)) = 0
  BY <1>1 DEF Short
<1>6. /\ h[p] = Height(t, h, sib) /\ h[p] \in Nat /\ h[p] # 0
      /\ Height(t, h, Kid(t, p, side)) = h[p] - 1
  BY <1>3, <1>4, <1>5
<1>7. sib # NULL
  BY <1>6 DEF Height
<1> QED
  BY <1>2, <1>6, <1>7 DEF Links

LEMMA RemoveStraight ==
  ASSUME NEW t, NEW D, NEW S, Shape(t, D, S), IsTree(t, D),
         NEW e, NEW p, Removing(t, D, e, p), ~ Red(t, e), e # t.root,
         NEW side, side = SideIn(t, p, e),
         NEW tmp, tmp = Kid(t, p, Opp(side)),
         NEW r, r = IF Red(t, tmp)
                      THEN MapTree!Rotate(MapTree!SetBlackRed(t, tmp, p),
                                          p, side)
                      ELSE t
  PROVE  /\ Leveled(r, D, e, p, side)
         /\ \E R : Shape(r, D, R)
<1>1. /\ e \in Links(D) /\ p \in D /\ side \in Sides /\ Kid(t, p, side) = e
      /\ NULL \notin D /\ ~ Red(t, t.root)
      /\ Opp(side) \in Sides /\ \A x \in Sides : x = side \/ x = Opp(side)
      /\ side # Opp(side)
  BY SideInFacts, OppFacts DEF Removing, Shape, Links
<1>2. \A n \in D : ~ RedPair(t, n)
  BY NoRed DEF Removing, RedPair
<1>3. PICK h : Heights(t, D, h, p, side)
  BY DEF Removing
<1>4. /\ tmp \in D /\ tmp # e
      /\ h[p] \in Nat /\ h[p] # 0 /\ Height(t, h, tmp) = h[p]
  BY <1>1, <1>3, GapSibling
<1>5. tmp # NULL
  BY <1>1, <1>4
<1>6. CASE ~ Red(t, tmp)
  BY <1>1, <1>2, <1>3, <1>4, <1>6 DEF Leveled
<1>7. CASE Red(t, tmp)
  <2>1. PICK u : u = MapTree!SetBlackRed(t, tmp, p)
    OBVIOUS
  <2>2. r = MapTree!Rotate(u, p, side)
    BY <1>7, <2>1
  <2>3. Up(t, tmp) = p /\ tmp # p
    BY <1>1, <1>5, KidFacts
  <2>4. /\ SameLinks(u, t, D)
        /\ Red(u, p) /\ ~ Red(u, tmp)
        /\ \A m \in D : m # tmp /\ m # p => (Red(u, m) <=> Red(t, m))
    BY <1>1, <1>4, <2>1, <2>3, BlackRed
  <2>5. PICK inner : inner = Kid(t, tmp, side)
    OBVIOUS
  <2>6. PICK up : up = Up(t, p)
    OBVIOUS
  <2>7. /\ Turned(r, t, D, p, side, tmp, inner, up)
        /\ \E R : Shape(r, D, R)
        /\ \A m \in D : Red(r, m) <=> Red(u, m)
    BY <1>1, <1>5, <2>2, <2>4, <2>5, <2>6, TurnColoured
  <2>8. /\ IsTree(r, D) /\ r.root = IF up = NULL THEN tmp ELSE t.root
        /\ Kid(r, p, side) = e /\ Kid(r, p, Opp(side)) = inner
        /\ e # p /\ inner # p /\ inner # tmp
        /\ Up(r, p) = tmp /\ Up(r, tmp) = up
        /\ inner # NULL => Up(r, inner) = p
        /\ \A m \in D : m # p /\ m # tmp /\ m # inner => Up(r, m) = Up(t, m)
    BY <1>1, <2>7 DEF Turned
  <2>9. /\ Red(r, p) /\ ~ Red(r, tmp)
        /\ \A m \in D : m # tmp /\ m # p => (Red(r, m) <=> Red(t, m))
    BY <1>1, <1>4, <2>4, <2>7
  <2>10. ~ Red(t, p)
    BY <1>2, <1>4, <1>7, <2>3 DEF RedPair
  <2>11. /\ inner \in D /\ Up(t, inner) = tmp
    <3>1. Height(t, h, tmp) = h[tmp]
      BY <1>5, <1>7 DEF Height
    <3>2. Height(t, h, inner) + Short(p, side, tmp, side) = h[tmp]
      BY <1>1, <1>3, <1>4, <2>5 DEF Heights
    <3>3. inner \in Links(D)
      BY <1>1, <1>4, <2>5, TreeTyped
    <3>4. Height(t, h, inner) \in Nat
      BY <1>3, <3>3, HeightNat
    <3>5. inner # NULL
      BY <1>4, <2>3, <3>1, <3>2, <3>4 DEF Height, Short
    <3> QED
      BY <1>1, <1>4, <2>5, <3>5, KidFacts
  <2>12. ~ Red(t, inner)
    BY <1>2, <1>7, <2>11 DEF RedPair
  <2>13. ~ Red(r, inner)
    BY <2>8, <2>9, <2>11, <2>12
  <2>14. ~ Red(r, e)
    <3>1. CASE e = NULL
      BY <3>1, NoRed
    <3>2. CASE e # NULL
      BY <1>1, <1>4, <2>8, <2>9, <3>2 DEF Links
    <3> QED
      BY <3>1, <3>2
  <2>15. ~ Red(r, r.root)
    <3>1. CASE up = NULL
      BY <2>8, <2>9, <3>1
    <3>2. CASE up # NULL
      <4>1. t.root \in D /\ t.root # p
        BY <1>1, <2>6, <3>2, UpFacts DEF Shape, InSub, Links
      <4> QED
        BY <1>1, <2>8, <2>9, <3>2, <4>1
    <3> QED
      BY <3>1, <3>2
  <2>16. ASSUME NEW m \in D PROVE ~ RedPair(r, m)
    <3> SUFFICES ASSUME Red(r, m), Red(r, Up(r, m)) PROVE FALSE
      BY DEF RedPair
    <3>1. m # tmp /\ m # inner /\ m # p
      BY <2>8, <2>9, <2>13
    <3>2. Red(t, m)
      BY <2>9, <3>1
    <3>3. PICK q : q = Up(t, m)
      OBVIOUS
    <3>4. Up(r, m) = q /\ q # NULL /\ q # tmp
      BY <2>8, <2>9, <3>1, <3>3, NoRed
    <3>5. /\ q \in D /\ SideIn(t, q, m) \in Sides
          /\ Kid(t, q, SideIn(t, q, m)) = m
      BY <3>3, <3>4, UpFacts
    <3>6. q # p
      BY <1>1, <2>14, <3>1, <3>2, <3>5
    <3>7. RedPair(t, m)
      BY <2>9, <3>2, <3>3, <3>4, <3>5, <3>6 DEF RedPair
    <3> QED
      BY <1>2, <3>7
  <2>17. Heights(r, D, h, p, side)
    <3>1. p # tmp /\ ~ (p = p /\ side = Opp(side))
      BY <1>1, <2>3
    <3>2. Red(r, tmp) <=> Red(t, p)
      BY <2>9, <2>10
    <3> QED
      BY <1>1, <1>3, <1>7, <2>5, <2>7, <2>9, <3>1, <3>2, RotateRed
  <2>18. Leveled(r, D, e, p, side)
    BY <1>1, <2>8, <2>11, <2>13, <2>14, <2>15, <2>16, <2>17 DEF Leveled
  <2> QED
    BY <2>7, <2>18
<1> QED
  BY <1>6, <1>7

\* No red nephew: the gap moves up.
LEMMA RemoveRecoloured ==
  ASSUME NEW t, NEW D, NEW S, Shape(t, D, S), NEW e, NEW p, NEW side,
         Leveled(t, D, e, p, side),
         NEW sib, sib = Kid(t, p, Opp(side)),
         ~ Red(t, Kid(t, sib, side)), ~ Red(t, Kid(t, sib, Opp(side))),
         NEW q, q = Up(t, p),
         NEW r, r = MapTree!Color(t, sib, "red")
  PROVE  SameLinks(r, t, D) /\ Removing(r, D, p, q)
<1>1. /\ IsTree(t, D) /\ e \in Links(D) /\ p \in D /\ side \in Sides
      /\ Kid(t, p, side) = e /\ ~ Red(t, e) /\ ~ Red(t, t.root)
      /\ \A n \in D : ~ RedPair(t, n)
      /\ sib \in D /\ ~ Red(t, sib) /\ NULL \notin D
      /\ Opp(side) \in Sides /\ \A x \in Sides : x = side \/ x = Opp(side)
      /\ side # Opp(side)
  BY OppFacts DEF Leveled, Shape
<1>2. sib # NULL /\ sib # p /\ Up(t, sib) = p /\ sib # t.root
  <2>1. sib # NULL
    BY <1>1
  <2> QED
    BY <1>1, <2>1, KidFacts
<1>3. /\ SameLinks(r, t, D)
      /\ \A m \in D : Red(r, m) <=> IF m = sib THEN "red" = "red"
                                    ELSE Red(t, m)
  BY <1>1, ColorFacts
<1>4. /\ r.root = t.root
      /\ \A m \in D : /\ Up(r, m) = Up(t, m)
                      /\ \A x \in Sides : Kid(r, m, x) = Kid(t, m, x)
  BY <1>3 DEF SameLinks
<1>5. /\ q \in Links(D)
      /\ q = NULL <=> p = t.root
      /\ q # NULL => /\ q # p /\ SideIn(t, q, p) \in Sides
                     /\ Kid(t, q, SideIn(t, q, p)) = p
  BY <1>1, UpFacts DEF Links
<1>6. PICK s : s = SideIn(r, q, p)
  OBVIOUS
<1>7. q # NULL => s = SideIn(t, q, p)
  <2> SUFFICES ASSUME q # NULL PROVE s = SideIn(t, q, p)
    OBVIOUS
  <2>1. Kid(r, q, "left") = Kid(t, q, "left")
    BY <1>4, <1>5 DEF Sides, Links
  <2> QED
    BY <1>6, <2>1 DEF SideIn, MapTree!SideOf, Kid
<1>8. q # NULL => Kid(r, q, s) = p
  BY <1>4, <1>5, <1>7 DEF Links
<1>9. ~ Red(r, r.root)
  <2>1. t.root \in D
    BY <1>1 DEF Shape, InSub, Links
  <2> QED
    BY <1>1, <1>2, <1>3, <1>4, <2>1
<1>10. ASSUME NEW m \in D, RedPair(r, m) PROVE Up(r, m) = p
  <2> SUFFICES ASSUME Up(t, m) # p PROVE FALSE
    BY <1>4
  <2>1. m # sib /\ Red(t, m) /\ Red(r, Up(t, m))
    BY <1>2, <1>3, <1>4, <1>10 DEF RedPair
  <2>2. PICK v : v = Up(t, m)
    OBVIOUS
  <2>3. v # NULL
    BY <2>1, <2>2, NoRed
  <2>4. /\ v \in D /\ SideIn(t, v, m) \in Sides
        /\ Kid(t, v, SideIn(t, v, m)) = m
    BY <2>2, <2>3, UpFacts
  <2>5. v # sib
    BY <1>1, <2>1, <2>4
  <2>6. RedPair(t, m)
    BY <1>3, <2>1, <2>2, <2>4, <2>5 DEF RedPair
  <2> QED
    BY <1>1, <2>6
<1>11. PICK h : Heights(t, D, h, p, side)
  BY DEF Leveled
<1>12. /\ h[p] \in Nat /\ h[p] # 0 /\ Height(t, h, sib) = h[p]
       /\ Height(t, h, e) = h[p] - 1 /\ sib # e
  BY <1>1, <1>11, GapSibling
<1>13. PICK k : k = h[p] - 1
  OBVIOUS
<1>14. k \in Nat /\ h[p] = k + 1 /\ h[sib] = k /\ Height(t, h, e) = k
  <2>1. Height(t, h, sib) = h[sib] + 1 /\ h[sib] \in Nat
    BY <1>1, <1>2, <1>11 DEF Height, Heights
  <2> QED
    BY <1>12, <1>13, <2>1
<1>15. PICK g : g = [m \in D |-> IF m = p THEN k ELSE h[m]]
  OBVIOUS
<1>16. \A m \in D : h[m] \in Nat /\ g[m] \in Nat
  BY <1>11, <1>14, <1>15 DEF Heights
<1>17. \A c \in Links(D) : c # sib /\ c # p =>
         Height(r, g, c) = Height(t, h, c)
  BY <1>3, <1>15 DEF Height, Links
<1>18. ASSUME NEW m \in D, NEW x \in Sides
       PROVE  Height(r, g, Kid(r, m, x)) + Short(q, s, m, x) = g[m]
  <2>1. PICK c : c = Kid(t, m, x)
    OBVIOUS
  <2>2. c \in Links(D) /\ Kid(r, m, x) = c
    BY <1>1, <1>4, <2>1, TreeTyped
  <2>3. Height(t, h, c) + Short(p, side, m, x) = h[m]
    BY <1>11, <2>1 DEF Heights
  <2>4. Height(t, h, c) \in Nat
    BY <1>11, <2>2, HeightNat
  <2>5. CASE m = p
    <3>1. Short(q, s, m, x) = 0 /\ g[m] = k
      BY <1>1, <1>5, <1>15, <2>5 DEF Short
    <3>2. CASE x = side
      <4>1. c = e /\ e # sib /\ e # p
        BY <1>1, <1>2, <1>12, <2>1, <2>5, <3>2, KidFacts
      <4>2. Height(r, g, c) = k
        BY <1>14, <1>17, <2>2, <4>1
      <4> QED
        BY <1>14, <2>2, <3>1, <4>2
    <3>3. CASE x = Opp(side)
      <4>1. c = sib
        BY <2>1, <2>5, <3>3
      <4>2. Height(r, g, c) = g[sib] /\ g[sib] = k
        BY <1>1, <1>2, <1>3, <1>14, <1>15, <4>1 DEF Height
      <4> QED
        BY <1>14, <2>2, <3>1, <4>2
    <3> QED
      BY <1>1, <3>2, <3>3
  <2>6. CASE m # p
    <3>1. g[m] = h[m] /\ h[m] \in Nat /\ Short(p, side, m, x) = 0
      BY <1>15, <1>16, <2>6 DEF Short
    <3>2. c # sib
      BY <1>1, <1>2, <2>1, <2>6, KidFacts
    <3>3. CASE c = p
      <4>1. m = q /\ x = SideIn(t, q, p) /\ q # NULL
        <5>1. Kid(t, m, x) = p /\ Kid(t, m, x) # NULL /\ m # NULL
          BY <1>1, <2>1, <3>3
        <5>2. Up(t, Kid(t, m, x)) = m /\ SideIn(t, m, Kid(t, m, x)) = x
          BY <5>1, KidFacts, SideOfKid
        <5> QED
          BY <5>1, <5>2
      <4>2. Short(q, s, m, x) = 1
        BY <1>7, <4>1 DEF Short
      <4>3. Height(t, h, c) = Height(r, g, c) + 1
        <5>1. c # NULL /\ h[c] = k + 1 /\ g[c] = k
          BY <1>1, <1>14, <1>15, <3>3
        <5>2. Red(r, c) <=> Red(t, c)
          BY <1>1, <1>2, <1>3, <3>3
        <5> QED
          BY <1>14, <5>1, <5>2 DEF Height
      <4>4. Height(r, g, c) \in Nat
        BY <1>1, <1>14, <1>15, <3>3 DEF Height
      <4> QED
        BY <2>2, <2>3, <2>4, <3>1, <4>2, <4>3, <4>4
    <3>4. CASE c # p
      <4>1. Height(r, g, c) = Height(t, h, c)
        BY <1>17, <2>2, <3>2, <3>4
      <4>2. Short(q, s, m, x) = 0
        <5> SUFFICES ASSUME m = q, x = s PROVE FALSE
          BY DEF Short
        <5> QED
          BY <1>1, <1>5, <1>7, <2>1, <3>4
      <4> QED
        BY <2>2, <2>3, <2>4, <3>1, <4>1, <4>2
    <3> QED
      BY <3>3, <3>4
  <2> QED
    BY <2>5, <2>6
<1>19. Heights(r, D, g, q, s)
  BY <1>16, <1>18 DEF Heights
<1>20. p \in Links(D) /\ (q = NULL <=> p = r.root)
  BY <1>1, <1>4, <1>5 DEF Links
<1>21. Removing(r, D, p, q)
  BY <1>5, <1>6, <1>8, <1>9, <1>10, <1>19, <1>20 DEF Removing
<1> QED
  BY <1>3, <1>21

\* A red near nephew and a black far one: the near one becomes the sibling.
LEMMA RemoveAside ==
  ASSUME NEW t, NEW D, NEW S, Shape(t, D, S), NEW e, NEW p, NEW side,
         Leveled(t, D, e, p, side),
         NEW sib, sib = Kid(t, p, Opp(side)),
         NEW near, near = Kid(t, sib, side), Red(t, near),
         ~ Red(t, Kid(t, sib, Opp(side))),
         NEW r, r = MapTree!Rotate(
                      MapTree!Color(MapTree!Color(t, near, "black"),
                                    sib, "red"),
                      sib, Opp(side))
  PROVE  /\ Leveled(r, D, e, p, side)
         /\ \E R : Shape(r, D, R)
         /\ Red(r, Kid(r, Kid(r, p, Opp(side)), Opp(side)))
<1>1. /\ IsTree(t, D) /\ e \in Links(D) /\ p \in D /\ side \in Sides
      /\ Kid(t, p, side) = e /\ ~ Red(t, e) /\ ~ Red(t, t.root)
      /\ \A n \in D : ~ RedPair(t, n)
      /\ sib \in D /\ ~ Red(t, sib) /\ NULL \notin D
      /\ Opp(side) \in Sides /\ \A x \in Sides : x = side \/ x = Opp(side)
      /\ side # Opp(side) /\ Opp(Opp(side)) = side
  BY OppFacts DEF Leveled, Shape
<1>2. sib # NULL /\ near # NULL
  BY <1>1, NoRed
<1>3. /\ sib # p /\ Up(t, sib) = p /\ sib # t.root /\ sib # e
      /\ near \in D /\ near # sib /\ Up(t, near) = sib /\ near # t.root
  <2>1. Kid(t, p, Opp(Opp(side))) # sib
    BY <1>1, <1>2, KidFacts
  <2> QED
    BY <1>1, <1>2, <2>1, KidFacts
<1>4. near # p
  <2>1. p \notin S[sib]
    BY <1>1, <1>2, KidFacts
  <2>2. near \in S[sib]
    BY <1>1, <1>2, KidFacts
  <2> QED
    BY <2>1, <2>2
<1>5. PICK u : u = MapTree!Color(MapTree!Color(t, near, "black"), sib, "red")
  OBVIOUS
<1>6. /\ SameLinks(u, t, D)
      /\ \A m \in D : Red(u, m) <=> IF m = sib THEN "red" = "red"
                                    ELSE IF m = near THEN "black" = "red"
                                    ELSE Red(t, m)
  BY <1>1, <1>3, <1>5, TwoColours
<1>7. PICK inner : inner = Kid(t, near, Opp(side))
  OBVIOUS
<1>8. /\ Turned(r, t, D, sib, Opp(side), near, inner, p)
      /\ \E R : Shape(r, D, R)
      /\ \A m \in D : Red(r, m) <=> Red(u, m)
  BY <1>1, <1>2, <1>3, <1>5, <1>6, <1>7, TurnColoured
<1>9. /\ Red(r, sib) /\ ~ Red(r, near)
      /\ \A m \in D : m # sib /\ m # near => (Red(r, m) <=> Red(t, m))
  BY <1>1, <1>3, <1>6, <1>8
<1>10. /\ IsTree(r, D) /\ r.root = t.root
       /\ Kid(r, near, Opp(side)) = sib
       /\ inner # sib /\ inner # near
       /\ Up(r, sib) = near /\ Up(r, near) = p
       /\ inner # NULL => Up(r, inner) = sib
       /\ \A m \in D : m # sib /\ m # near /\ m # inner => Up(r, m) = Up(t, m)
  BY <1>1, <1>8 DEF Turned
<1>11. Kid(r, p, side) = e /\ Kid(r, p, Opp(side)) = near
  BY <1>1, <1>3, <1>4, <1>8 DEF Turned
<1>12. e # near
  BY <1>1, <1>2, <1>3, KidFacts
<1>13. ~ Red(r, e)
  <2>1. CASE e = NULL
    BY <2>1, NoRed
  <2>2. CASE e # NULL
    BY <1>1, <1>3, <1>9, <1>12, <2>2 DEF Links
  <2> QED
    BY <2>1, <2>2
<1>14. ~ Red(r, r.root)
  <2>1. t.root \in D
    BY <1>1 DEF Shape, InSub, Links
  <2> QED
    BY <1>1, <1>3, <1>9, <1>10, <2>1
<1>15. ASSUME NEW m \in D PROVE ~ RedPair(r, m)
  <2> SUFFICES ASSUME Red(r, m), Red(r, Up(r, m)) PROVE FALSE
    BY DEF RedPair
  <2>1. m # near /\ m # sib
    BY <1>9, <1>10
  <2>2. Red(t, m)
    BY <1>9, <2>1
  <2>3. m # inner
    <3> SUFFICES ASSUME m = inner PROVE FALSE
      OBVIOUS
    <3>1. inner # NULL
      BY <1>1
    <3>2. Up(t, m) = near
      BY <1>1, <1>3, <1>7, <3>1, KidFacts
    <3> QED
      BY <1>1, <2>2, <3>2 DEF RedPair
  <2>4. PICK q : q = Up(t, m)
    OBVIOUS
  <2>5. Up(r, m) = q /\ q # NULL /\ q # near
    BY <1>9, <1>10, <2>1, <2>3, <2>4, NoRed
  <2>6. /\ q \in D /\ SideIn(t, q, m) \in Sides
        /\ Kid(t, q, SideIn(t, q, m)) = m
    BY <2>4, <2>5, UpFacts
  <2>7. q # sib
    BY <1>1, <2>1, <2>2, <2>6
  <2>8. RedPair(t, m)
    BY <1>9, <2>2, <2>4, <2>5, <2>6, <2>7 DEF RedPair
  <2> QED
    BY <1>1, <2>8
<1>16. PICK h : Heights(t, D, h, p, side)
  BY DEF Leveled
<1>17. Heights(r, D, h, p, side)
  <2>1. p # near /\ ~ (p = sib /\ side = Opp(Opp(side)))
    BY <1>3, <1>4
  <2>2. near = Kid(t, sib, Opp(Opp(side)))
    BY <1>1
  <2>3. Red(r, near) <=> Red(t, sib)
    BY <1>1, <1>9
  <2> QED
    BY <1>1, <1>7, <1>8, <1>9, <1>16, <2>1, <2>2, <2>3, RotateRed
<1>18. Leveled(r, D, e, p, side)
  BY <1>1, <1>3, <1>9, <1>10, <1>11, <1>13, <1>14, <1>15, <1>17 DEF Leveled
<1>19. Red(r, Kid(r, Kid(r, p, Opp(side)), Opp(side)))
  BY <1>9, <1>10, <1>11
<1> QED
  BY <1>8, <1>18, <1>19

\* A red far nephew: the gap is closed.
LEMMA RemoveRotated ==
  ASSUME NEW t, NEW D, NEW S, Shape(t, D, S), NEW e, NEW p, NEW side,
         Leveled(t, D, e, p, side),
         NEW tmp, tmp = Kid(t, p, Opp(side)),
         NEW far, far = Kid(t, tmp, Opp(side)), Red(t, far),
         NEW passed,
         passed = MapTree!Color(MapTree!Color(t, tmp, t.at[p].color),
                                p, "black"),
         NEW r, r = MapTree!Rotate(
                      MapTree!ColorIfAny(passed, Kid(passed, tmp, Opp(side)),
                                         "black"),
                      p, side)
  PROVE  /\ IsTree(r, D)
         /\ \E R : Shape(r, D, R)
         /\ AtRest(r, D)
<1>1. /\ IsTree(t, D) /\ e \in Links(D) /\ p \in D /\ side \in Sides
      /\ Kid(t, p, side) = e /\ ~ Red(t, e) /\ ~ Red(t, t.root)
      /\ \A n \in D : ~ RedPair(t, n)
      /\ tmp \in D /\ ~ Red(t, tmp) /\ NULL \notin D
      /\ Opp(side) \in Sides /\ \A x \in Sides : x = side \/ x = Opp(side)
      /\ side # Opp(side) /\ Opp(Opp(side)) = side
  BY OppFacts DEF Leveled, Shape
<1>2. tmp # NULL /\ far # NULL /\ p # NULL
  BY <1>1, NoRed
<1>3. /\ tmp # p /\ Up(t, tmp) = p /\ tmp # t.root /\ tmp # e
      /\ far \in D /\ far # tmp /\ Up(t, far) = tmp /\ far # t.root
      /\ far # Kid(t, tmp, side)
  <2>1. Kid(t, p, Opp(Opp(side))) # tmp
    BY <1>1, <1>2, KidFacts
  <2>2. Kid(t, tmp, Opp(Opp(side))) # far
    BY <1>1, <1>2, KidFacts
  <2> QED
    BY <1>1, <1>2, <2>1, <2>2, KidFacts
<1>4. far # p /\ far # e
  <2>1. p \notin S[tmp]
    BY <1>1, <1>2, KidFacts
  <2>2. far \in S[tmp]
    BY <1>1, <1>2, KidFacts
  <2>3. e # NULL => Up(t, e) = p
    BY <1>1, KidFacts
  <2> QED
    BY <1>2, <1>3, <2>1, <2>2, <2>3
<1>5. PICK c : c = t.at[p].color
  OBVIOUS
<1>6. c \in {"red", "black"} /\ (c = "red" <=> Red(t, p))
  BY <1>1, <1>2, <1>5 DEF IsTree, Node, Red, MapTree!IsRed
<1>7. passed = MapTree!Color(MapTree!Color(t, tmp, c), p, "black")
  BY <1>5
<1>8. /\ SameLinks(passed, t, D)
      /\ \A m \in D : Red(passed, m) <=> IF m = p THEN "black" = "red"
                                         ELSE IF m = tmp THEN c = "red"
                                         ELSE Red(t, m)
  BY <1>1, <1>6, <1>7, TwoColours
<1>9. IsTree(passed, D) /\ Kid(passed, tmp, Opp(side)) = far
  BY <1>1, <1>8 DEF SameLinks
<1>10. PICK u : u = MapTree!Color(passed, far, "black")
  OBVIOUS
<1>11. r = MapTree!Rotate(u, p, side)
  BY <1>2, <1>9, <1>10 DEF MapTree!ColorIfAny
<1>12. /\ SameLinks(u, passed, D)
       /\ \A m \in D : Red(u, m) <=> IF m = far THEN "black" = "red"
                                     ELSE Red(passed, m)
  BY <1>1, <1>3, <1>9, <1>10, ColorFacts
<1>13. SameLinks(u, t, D)
  BY <1>8, <1>12, SameLinksTwice
<1>14. PICK inner : inner = Kid(t, tmp, side)
  OBVIOUS
<1>15. PICK up : up = Up(t, p)
  OBVIOUS
<1>16. /\ Turned(r, t, D, p, side, tmp, inner, up)
       /\ \E R : Shape(r, D, R)
       /\ \A m \in D : Red(r, m) <=> Red(u, m)
  BY <1>1, <1>2, <1>11, <1>13, <1>14, <1>15, TurnColoured
<1>17. /\ ~ Red(r, p) /\ ~ Red(r, far)
       /\ Red(r, tmp) <=> Red(t, p)
       /\ \A m \in D : m # p /\ m # tmp /\ m # far =>
            (Red(r, m) <=> Red(t, m))
  BY <1>1, <1>3, <1>4, <1>6, <1>8, <1>12, <1>16
<1>18. /\ IsTree(r, D) /\ r.root = IF up = NULL THEN tmp ELSE t.root
       /\ Up(r, p) = tmp /\ Up(r, tmp) = up
       /\ inner # NULL => Up(r, inner) = p
       /\ \A m \in D : m # p /\ m # tmp /\ m # inner => Up(r, m) = Up(t, m)
  BY <1>16 DEF Turned
<1>19. /\ up \in Links(D)
       /\ up = NULL <=> p = t.root
       /\ up # tmp
       /\ up # far
  <2>1. up \in Links(D) /\ (up = NULL <=> p = t.root)
    BY <1>1, <1>15, UpFacts DEF Links
  <2>2. up # tmp
    BY <1>1, <1>2, <1>14, <1>15, RotationPlaces
  <2>3. up # far
    <3> SUFFICES ASSUME up = far PROVE FALSE
      OBVIOUS
    <3>1. p \in S[far]
      BY <1>1, <1>2, <1>15, UpFacts
    <3>2. \A x : x \in S[far] => x \in S[tmp]
      BY <1>1, <1>2, KidFacts
    <3>3. \A x : x \in S[tmp] => x # p
      BY <1>1, <1>2, KidFacts
    <3> QED
      BY <3>1, <3>2, <3>3
  <2> QED
    BY <2>1, <2>2, <2>3
<1>20. ~ Red(r, r.root)
  <2>1. CASE up = NULL
    BY <1>1, <1>17, <1>18, <1>19, <2>1
  <2>2. CASE up # NULL
    <3>1. t.root \in D /\ t.root # p
      BY <1>1, <1>19, <2>2 DEF Shape, InSub, Links
    <3> QED
      BY <1>1, <1>3, <1>17, <1>18, <2>2, <3>1
  <2> QED
    BY <2>1, <2>2
<1>21. ASSUME NEW m \in D PROVE ~ RedPair(r, m)
  <2> SUFFICES ASSUME Red(r, m), Red(r, Up(r, m)) PROVE FALSE
    BY DEF RedPair
  <2>1. m # p /\ m # far
    BY <1>17
  <2>2. CASE m = tmp
    <3>1. Red(t, p) /\ Red(r, up)
      BY <1>17, <1>18, <2>2
    <3>2. up # NULL
      BY <3>1, NoRed
    <3>3. up # p /\ up \in D
      BY <1>1, <1>15, <3>2, UpFacts
    <3>4. Red(t, up)
      BY <1>17, <1>19, <3>1, <3>3
    <3> QED
      BY <1>1, <1>15, <3>1, <3>4 DEF RedPair
  <2>3. CASE m # tmp
    <3>1. Red(t, m)
      BY <1>17, <2>1, <2>3
    <3>2. m # inner
      BY <1>1, <1>17, <1>18
    <3>3. PICK q : q = Up(t, m)
      OBVIOUS
    <3>4. Up(r, m) = q /\ q # NULL /\ q # p /\ q # far
      BY <1>17, <1>18, <2>1, <2>3, <3>2, <3>3, NoRed
    <3>5. /\ q \in D /\ SideIn(t, q, m) \in Sides
          /\ Kid(t, q, SideIn(t, q, m)) = m
      BY <3>3, <3>4, UpFacts
    <3>6. q # tmp
      BY <1>1, <1>14, <2>1, <3>2, <3>5
    <3>7. RedPair(t, m)
      BY <1>17, <3>1, <3>3, <3>4, <3>5, <3>6 DEF RedPair
    <3> QED
      BY <1>1, <3>7
  <2> QED
    BY <2>2, <2>3
<1>22. PICK h : Heights(t, D, h, p, side)
  BY DEF Leveled
<1>23. \E g : Heights(r, D, g, NULL, "left")
  <2>1. \A m \in D, x \in Sides : Kid(t, m, x) = far => m = tmp
    BY <1>2, <1>3, KidFacts
  <2>2. far # Kid(t, p, side) /\ far # inner
    BY <1>1, <1>3, <1>4, <1>14
  <2> QED
    BY <1>1, <1>2, <1>3, <1>14, <1>16, <1>17, <1>22, <2>1, <2>2, RotateGap
<1>24. AtRest(r, D)
  BY <1>20, <1>21, <1>23 DEF AtRest
<1> QED
  BY <1>16, <1>18, <1>24

LEMMA RestRemoving ==
  ASSUME NEW r, NEW D, NULL \notin D, IsTree(r, D), AtRest(r, D)
  PROVE  Removing(r, D, r.root, NULL)
<1>1. PICK h : Heights(r, D, h, NULL, "left")
  BY DEF AtRest
<1>2. \A m \in D : \A x, s : Short(NULL, s, m, x) = 0
  BY DEF Short
<1>3. Heights(r, D, h, NULL, SideIn(r, NULL, r.root))
  BY <1>1, <1>2 DEF Heights
<1> QED
  BY <1>3, TreeTyped DEF AtRest, Removing, Links

\* The element the loop ends at is made black.
LEMMA RemoveEnded ==
  ASSUME NEW t, NEW D, NEW S, Shape(t, D, S), IsTree(t, D),
         NEW e, NEW p, Removing(t, D, e, p), Red(t, e) \/ e = t.root,
         NEW r, r = MapTree!ColorIfAny(t, e, "black")
  PROVE  SameLinks(r, t, D) /\ AtRest(r, D)
<1>1. /\ e \in Links(D) /\ p \in Links(D) /\ NULL \notin D
      /\ p = NULL <=> e = t.root
      /\ p # NULL => Kid(t, p, SideIn(t, p, e)) = e
      /\ Red(t, t.root) => t.root = e
      /\ \A n \in D : RedPair(t, n) => n = e \/ Up(t, n) = e
  BY DEF Removing, Shape
<1>2. PICK s : s = SideIn(t, p, e)
  OBVIOUS
<1>3. PICK h : Heights(t, D, h, p, s)
  BY <1>2 DEF Removing
<1>4. CASE e = NULL
  <2>1. D = {}
    BY <1>1, <1>4, NoRed DEF Shape, InSub
  <2>2. r = t
    BY <1>4 DEF MapTree!ColorIfAny
  <2>3. SameLinks(t, t, D)
    BY DEF SameLinks
  <2>4. ~ Red(t, t.root)
    BY <1>1, <1>4, NoRed
  <2>5. Heights(t, D, h, NULL, "left")
    BY <2>1 DEF Heights
  <2> QED
    BY <2>1, <2>2, <2>3, <2>4, <2>5 DEF AtRest
<1>5. CASE e # NULL
  <2>1. e \in D /\ r = MapTree!Color(t, e, "black")
    BY <1>1, <1>5 DEF Links, MapTree!ColorIfAny
  <2>2. /\ SameLinks(r, t, D)
        /\ \A m \in D : Red(r, m) <=> IF m = e THEN "black" = "red"
                                      ELSE Red(t, m)
    BY <1>1, <2>1, ColorFacts
  <2>3. r.root = t.root /\ t.root \in D
    BY <2>1, <2>2 DEF SameLinks, Shape, InSub, Links
  <2>4. ~ Red(r, r.root)
    BY <1>1, <2>2, <2>3
  <2>5. ASSUME NEW m \in D PROVE ~ RedPair(r, m)
    <3> SUFFICES ASSUME Red(r, m), Red(r, Up(t, m)) PROVE FALSE
      BY <2>2 DEF RedPair, SameLinks
    <3>1. Up(t, m) # NULL
      BY NoRed
    <3>2. Up(t, m) \in D
      BY <3>1, UpFacts
    <3>3. RedPair(t, m) /\ m # e /\ Up(t, m) # e
      BY <2>2, <3>2 DEF RedPair
    <3> QED
      BY <1>1, <3>3
  <2>6. \A c \in Links(D) : c # e => Height(r, h, c) = Height(t, h, c)
    BY <2>2 DEF Height, Links
  <2>7. ASSUME NEW m \in D, NEW x \in Sides
        PROVE  Height(r, h, Kid(r, m, x)) + Short(NULL, "left", m, x) = h[m]
    <3>1. PICK c : c = Kid(t, m, x)
      OBVIOUS
    <3>2. c \in Links(D) /\ Kid(r, m, x) = c
      BY <2>2, <3>1, TreeTyped DEF SameLinks
    <3>3. Height(t, h, c) + Short(p, s, m, x) = h[m]
      BY <1>3, <3>1 DEF Heights
    <3>4. Height(t, h, c) \in Nat /\ Short(NULL, "left", m, x) = 0 /\ m # NULL
      BY <1>1, <1>3, <3>2, HeightNat DEF Short
    <3>5. CASE c = e
      <4>1. m = p /\ x = s /\ e # t.root
        <5>1. Kid(t, m, x) # NULL
          BY <1>5, <3>1, <3>5
        <5>2. Up(t, Kid(t, m, x)) = m /\ SideIn(t, m, Kid(t, m, x)) = x
              /\ Kid(t, m, x) # t.root
          BY <5>1, KidFacts, SideOfKid
        <5>3. p # NULL /\ e # t.root /\ SideIn(t, p, e) \in Sides
          BY <1>1, <3>1, <3>5, <5>2, SideInFacts
        <5>4. Up(t, e) = p
          <6>1. p \in D /\ Kid(t, p, SideIn(t, p, e)) = e
            BY <1>1, <5>3 DEF Links
          <6> QED
            BY <1>5, <5>3, <6>1, KidFacts
        <5> QED
          BY <1>2, <3>1, <3>5, <5>2, <5>3, <5>4
      <4>2. Red(t, e) /\ ~ Red(r, e)
        BY <2>1, <2>2, <4>1
      <4>3. Height(r, h, c) = Height(t, h, c) + 1 /\ Short(p, s, m, x) = 1
        BY <1>5, <3>5, <4>1, <4>2 DEF Height, Short
      <4> QED
        BY <3>2, <3>3, <3>4, <4>3
    <3>6. CASE c # e
      <4>1. ~ (m = p /\ x = s)
        BY <1>1, <1>2, <3>1, <3>4, <3>6
      <4> QED
        BY <2>6, <3>2, <3>3, <3>4, <3>6, <4>1 DEF Short
    <3> QED
      BY <3>5, <3>6
  <2>8. \A m \in D : h[m] \in Nat
    BY <1>3 DEF Heights
  <2>9. Heights(r, D, h, NULL, "left")
    BY <2>7, <2>8 DEF Heights
  <2>10. AtRest(r, D)
    BY <2>4, <2>5, <2>9 DEF AtRest
  <2> QED
    BY <2>2, <2>10
<1> QED
  BY <1>4, <1>5

-----------------------------------------------------------------------------
(* What an insertion and a removal leave to the loops that follow.         *)

LEMMA InsertedRed ==
  ASSUME NEW t, NEW D, NEW S, Shape(t, D, S), AtRest(t, D),
         NEW key, key \notin D, key # NULL,
         NEW up \in Links(D), NEW side \in Sides,
         up = NULL => D = {},
         up # NULL => Kid(t, up, side) = NULL,
         NEW r, IsInserted(r, t, D, key, up, side),
         Red(r, key), \A m \in D : Red(r, m) <=> Red(t, m)
  PROVE  Inserting(r, D \cup {key}, key)
<1>1. /\ r.root = IF up = NULL THEN key ELSE t.root
      /\ \A s \in Sides : Kid(r, key, s) = NULL
      /\ \A m \in D :
           /\ Up(r, m) = Up(t, m)
           /\ \A s \in Sides :
                Kid(r, m, s) = IF m = up /\ s = side THEN key ELSE Kid(t, m, s)
  BY DEF IsInserted
<1>2. NULL \notin D /\ \A m \in D : NodeShape(t, D, S, m)
  BY DEF Shape
<1>3. Red(r, r.root) => r.root = key
  <2>1. CASE up = NULL
    BY <1>1, <2>1
  <2>2. CASE up # NULL
    <3>1. t.root \in D
      BY <2>2 DEF Shape, InSub, Links
    <3> QED
      BY <1>1, <2>2, <3>1 DEF AtRest
  <2> QED
    BY <2>1, <2>2
<1>4. ASSUME NEW m \in D PROVE ~ RedPair(r, m)
  <2> SUFFICES ASSUME Red(t, m), Red(r, Up(t, m)) PROVE FALSE
    BY <1>1 DEF RedPair
  <2>1. Up(t, m) # NULL
    BY NoRed
  <2>2. Up(t, m) \in D
    BY <2>1, UpFacts
  <2> QED
    BY <2>2 DEF AtRest, RedPair
<1>5. PICK h : Heights(t, D, h, NULL, "left")
  BY DEF AtRest
<1>6. PICK g : g = [m \in D \cup {key} |-> IF m = key THEN 0 ELSE h[m]]
  OBVIOUS
<1>7. /\ g[key] = 0 /\ \A m \in D : g[m] = h[m]
      /\ \A m \in D \cup {key} : g[m] \in Nat
  BY <1>5, <1>6 DEF Heights
<1>8. \A c \in Links(D) : Height(r, g, c) = Height(t, h, c)
  BY <1>7 DEF Height, Links
<1>9. Height(r, g, key) = 0 /\ Height(r, g, NULL) = 0 /\ Height(t, h, NULL) = 0
  BY <1>7 DEF Height
<1>10. \A m, x : m # NULL => Short(NULL, "left", m, x) = 0
  BY DEF Short
<1>11. ASSUME NEW m \in D, NEW x \in Sides
       PROVE  Height(r, g, Kid(r, m, x)) + Short(NULL, "left", m, x) = g[m]
  <2>1. Kid(t, m, x) \in Links(D)
    BY <1>2 DEF NodeShape
  <2>2. Height(r, g, Kid(r, m, x)) = Height(t, h, Kid(t, m, x))
    BY <1>1, <1>8, <1>9, <2>1 DEF Links
  <2> QED
    BY <1>5, <1>7, <2>2 DEF Heights
<1>12. \A x \in Sides :
         Height(r, g, Kid(r, key, x)) + Short(NULL, "left", key, x) = g[key]
  BY <1>1, <1>7, <1>9, <1>10
<1>13. Heights(r, D \cup {key}, g, NULL, "left")
  BY <1>7, <1>11, <1>12 DEF Heights
<1>14. \A m \in D \cup {key} : RedPair(r, m) => m = key
  BY <1>4
<1> QED
  BY <1>3, <1>13, <1>14 DEF Inserting

\* The child of an element that leaves is short of black if that was black.
LEMMA SplicedColours ==
  ASSUME NEW t, NEW D, NEW S, Shape(t, D, S), AtRest(t, D), NEW gone \in D,
         NEW side \in Sides, Kid(t, gone, side) = NULL,
         NEW child, child = Kid(t, gone, Opp(side)), NEW up, up = Up(t, gone),
         NEW r, IsSpliced(r, t, D, gone, child),
         \A m \in D \ {gone} : Red(r, m) <=> Red(t, m)
  PROVE  /\ Red(t, gone) => AtRest(r, D \ {gone})
         /\ ~ Red(t, gone) => Removing(r, D \ {gone}, child, up)
<1> DEFINE E == D \ {gone}
<1>1. PICK s0 : s0 = SideIn(t, up, gone)
  OBVIOUS
<1>2. /\ up \in Links(E)
      /\ up = NULL <=> gone = t.root
      /\ up # NULL => /\ up \in E /\ s0 \in Sides /\ Kid(t, up, s0) = gone
                      /\ Kid(t, up, Opp(s0)) # gone
  BY <1>1, UpFacts DEF Links
<1>3. /\ Opp(side) \in Sides /\ NULL \notin D
      /\ \A s \in Sides : s = side \/ s = Opp(side)
      /\ gone # NULL
      /\ \A m \in D : NodeShape(t, D, S, m)
  BY OppFacts, SubMember DEF Shape
<1>4. /\ child \in Links(E)
      /\ child # NULL => Up(t, child) = gone /\ child # t.root
  BY <1>3, KidFacts DEF Links
<1>5. /\ r.root = IF up = NULL THEN child ELSE t.root
      /\ \A m \in E :
           /\ Up(r, m) = IF m = child THEN up ELSE Up(t, m)
           /\ \A s \in Sides :
                Kid(r, m, s) = IF m = up /\ s = s0
                                 THEN child ELSE Kid(t, m, s)
  BY <1>1 DEF IsSpliced
<1>6. \A m \in E : Up(t, m) = gone => m = child
  <2> SUFFICES ASSUME NEW m \in E, Up(t, m) = gone PROVE m = child
    OBVIOUS
  <2>1. PICK s \in Sides : Kid(t, gone, s) = m
    BY <1>3 DEF NodeShape
  <2> QED
    BY <1>3, <2>1
<1>7. \A m \in D : ~ RedPair(t, m)
  BY DEF AtRest
<1>8. ASSUME NEW m \in E, m # child PROVE ~ RedPair(r, m)
  <2> SUFFICES ASSUME Red(r, m), Red(r, Up(t, m)) PROVE FALSE
    BY <1>5, <1>8 DEF RedPair
  <2>1. Up(t, m) # NULL /\ Up(t, m) # gone
    BY <1>6, <1>8, NoRed
  <2>2. Up(t, m) \in E
    BY <2>1, UpFacts
  <2> QED
    BY <1>7, <2>2 DEF RedPair
<1>9. PICK h : Heights(t, D, h, NULL, "left")
  BY DEF AtRest
<1>10. \A m \in D : \A x : Short(NULL, "left", m, x) = 0
  BY <1>3 DEF Short
<1>11. \A c \in Links(D) : Height(t, h, c) \in Nat
  BY <1>9, HeightNat
<1>12. \A m \in D, x \in Sides : Height(t, h, Kid(t, m, x)) = h[m]
  <2> TAKE m \in D, x \in Sides
  <2>1. Height(t, h, Kid(t, m, x)) + Short(NULL, "left", m, x) = h[m]
    BY <1>9 DEF Heights
  <2>2. Kid(t, m, x) \in Links(D)
    BY <1>3 DEF NodeShape
  <2> QED
    BY <1>10, <1>11, <2>1, <2>2
<1>13. h[gone] = 0 /\ Height(t, h, child) = 0
  <2>1. Height(t, h, Kid(t, gone, side)) = 0
    BY DEF Height
  <2> QED
    BY <1>3, <1>12, <2>1
<1>14. \A m \in E : h[m] \in Nat
  BY <1>9 DEF Heights
<1>15. \A c \in Links(E) : Height(r, h, c) = Height(t, h, c)
  BY DEF Height, Links
<1>16. \A m \in E, x \in Sides : ~ (m = up /\ x = s0) =>
         Height(r, h, Kid(r, m, x)) = h[m]
  <2> SUFFICES ASSUME NEW m \in E, NEW x \in Sides, ~ (m = up /\ x = s0)
               PROVE  Height(r, h, Kid(r, m, x)) = h[m]
    OBVIOUS
  <2>1. PICK c : c = Kid(t, m, x)
    OBVIOUS
  <2>2. Kid(r, m, x) = c /\ c \in Links(D)
    BY <1>3, <1>5, <2>1 DEF NodeShape
  <2>3. c # gone
    <3> SUFFICES ASSUME c = gone PROVE FALSE
      OBVIOUS
    <3>1. Kid(t, m, x) # NULL
      BY <1>3, <2>1
    <3>2. Up(t, gone) = m /\ SideIn(t, m, gone) = x
      BY <2>1, <3>1, KidFacts, SideOfKid
    <3> QED
      BY <1>1, <3>2
  <2> QED
    BY <1>12, <1>15, <2>1, <2>2, <2>3 DEF Links
<1>17. up # NULL => Height(r, h, Kid(r, up, s0)) = 0
                    /\ h[up] = IF Red(t, gone) THEN 0 ELSE 1
  <2> SUFFICES ASSUME up # NULL
               PROVE  /\ Height(r, h, Kid(r, up, s0)) = 0
                      /\ h[up] = IF Red(t, gone) THEN 0 ELSE 1
    OBVIOUS
  <2>1. Kid(r, up, s0) = child /\ Kid(t, up, s0) = gone /\ up \in D
    BY <1>2, <1>5
  <2>2. Height(t, h, gone) = h[up]
    BY <1>2, <1>12, <2>1
  <2>3. Height(t, h, gone) = IF Red(t, gone) THEN 0 ELSE 1
    BY <1>3, <1>13 DEF Height
  <2> QED
    BY <1>4, <1>13, <1>15, <2>1, <2>2, <2>3
<1>18. ASSUME Red(t, gone) PROVE AtRest(r, E)
  <2>1. gone # t.root
    BY <1>18 DEF AtRest
  <2>2. r.root = t.root /\ t.root \in E
    BY <1>2, <1>5, <2>1 DEF Shape, InSub, Links
  <2>3. ~ Red(r, r.root)
    BY <2>2 DEF AtRest
  <2>4. child # NULL => ~ Red(r, child)
    BY <1>4, <1>7, <1>18 DEF RedPair, Links
  <2>5. \A m \in E : ~ RedPair(r, m)
    BY <1>3, <1>8, <2>4 DEF RedPair
  <2>6. \A m \in E, x \in Sides :
          Height(r, h, Kid(r, m, x)) + Short(NULL, "left", m, x) = h[m]
    BY <1>3, <1>10, <1>14, <1>16, <1>17, <1>18
  <2>7. Heights(r, E, h, NULL, "left")
    BY <1>14, <2>6 DEF Heights
  <2> QED
    BY <2>3, <2>5, <2>7 DEF AtRest
<1>19. ASSUME ~ Red(t, gone) PROVE Removing(r, E, child, up)
  <2>1. up = NULL <=> child = r.root
    <3>1. up # NULL => r.root = t.root /\ t.root # NULL
      BY <1>5 DEF Shape, InSub
    <3> QED
      BY <1>4, <1>5, <3>1
  <2>2. \A m \in E : RedPair(r, m) => m = child
    BY <1>8
  <2>3. Red(r, r.root) => r.root = child
    <3>1. CASE up = NULL
      BY <1>5, <3>1
    <3>2. CASE up # NULL
      <4>1. r.root = t.root /\ t.root \in E
        BY <1>2, <1>5, <3>2 DEF Shape, InSub, Links
      <4> QED
        BY <4>1 DEF AtRest
    <3> QED
      BY <3>1, <3>2
  <2>4. ASSUME NEW m \in E, NEW x \in Sides
        PROVE  Height(r, h, Kid(r, m, x)) + Short(up, s0, m, x) = h[m]
    <3>1. CASE m = up /\ x = s0
      <4>1. up # NULL
        BY <1>3, <3>1
      <4> QED
        BY <1>17, <1>19, <3>1, <4>1 DEF Short
    <3>2. CASE ~ (m = up /\ x = s0)
      BY <1>14, <1>16, <3>2 DEF Short
    <3> QED
      BY <3>1, <3>2
  <2>5. Heights(r, E, h, up, s0)
    BY <1>14, <2>4 DEF Heights
  <2>6. up # NULL => SideIn(r, up, child) = s0 /\ Kid(r, up, s0) = child
    <3> SUFFICES ASSUME up # NULL
                 PROVE  SideIn(r, up, child) = s0 /\ Kid(r, up, s0) = child
      OBVIOUS
    <3>1. Kid(r, up, s0) = child /\ s0 \in Sides /\ Opp(s0) \in Sides
          /\ s0 # Opp(s0)
      BY <1>2, <1>5, OppFacts
    <3>2. Height(r, h, Kid(r, up, Opp(s0))) = 1
      BY <1>2, <1>16, <1>17, <1>19, <3>1
    <3>3. Kid(r, up, Opp(s0)) # child
      BY <1>17, <3>1, <3>2
    <3> QED
      BY <3>1, <3>3, SideInFacts DEF Sides, Opp, MapTree!Other
  <2>7. \A m \in E : \A x : up = NULL =>
         Short(up, s0, m, x) = 0 /\ Short(up, SideIn(r, up, child), m, x) = 0
    BY <1>3 DEF Short
  <2>8. Heights(r, E, h, up, SideIn(r, up, child))
    BY <2>5, <2>6, <2>7 DEF Heights
  <2> QED
    BY <1>2, <1>4, <2>1, <2>2, <2>3, <2>6, <2>8 DEF Removing
<1> QED
  BY <1>18, <1>19

\* Nothing of this depends on the names of the elements.
LEMMA RenamedColours ==
  ASSUME NEW t, NEW D, NEW S, Shape(t, D, S), NEW key \in D,
         NEW gone, gone \notin D, gone # NULL,
         NEW r, IsRenamed(r, t, D, key, gone),
         \A m \in D : Red(r, Now(m, key, gone)) <=> Red(t, m),
         NEW e, NEW p
  PROVE  /\ AtRest(t, D) => AtRest(r, (D \ {key}) \cup {gone})
         /\ Removing(t, D, e, p) /\ e # key =>
              Removing(r, (D \ {key}) \cup {gone}, e, Now(p, key, gone))
<1> DEFINE E == (D \ {key}) \cup {gone}
           now(x) == Now(x, key, gone)
           was(x) == Was(x, key, gone)
<1>1. NULL \notin D /\ NULL \notin E /\ key # NULL
      /\ \A m \in D : NodeShape(t, D, S, m)
  BY DEF Shape
<1>2. /\ \A m \in D : now(m) \in E /\ was(now(m)) = m
      /\ \A m \in E : was(m) \in D /\ now(was(m)) = m
      /\ now(NULL) = NULL
      /\ \A c \in Links(D) : now(c) \in Links(E) /\ was(now(c)) = c
      /\ \A c \in Links(D) : now(c) = NULL <=> c = NULL
      /\ \A c \in Links(D) : c # key => now(c) = c
  BY <1>1 DEF Links, Now, Was
<1>3. /\ r.root = now(t.root) /\ t.root \in Links(D)
      /\ \A m \in D :
           /\ Up(r, now(m)) = now(Up(t, m)) /\ Up(t, m) \in Links(D)
           /\ \A s \in Sides : /\ Kid(r, now(m), s) = now(Kid(t, m, s))
                               /\ Kid(t, m, s) \in Links(D)
  BY <1>1 DEF IsRenamed, NodeShape, Shape
<1>4. \A m \in D : Red(r, now(m)) <=> Red(t, m)
  OBVIOUS
<1> HIDE DEF now, was, E
<1>5. \A c \in Links(D) : Red(r, now(c)) <=> Red(t, c)
  BY <1>2, <1>4, NoRed DEF Links
<1>6. \A m \in D : RedPair(r, now(m)) <=> RedPair(t, m)
  BY <1>3, <1>4, <1>5 DEF RedPair
<1>7. Red(r, r.root) <=> Red(t, t.root)
  BY <1>3, <1>5
<1>8. ASSUME NEW h, NEW q \in Links(D), NEW s, Heights(t, D, h, q, s)
      PROVE  \E g : Heights(r, E, g, now(q), s)
  <2>1. PICK g : g = [m \in E |-> h[was(m)]]
    OBVIOUS
  <2>2. \A m \in D : g[now(m)] = h[m]
    BY <1>2, <2>1
  <2>3. \A c \in Links(D) : Height(r, g, now(c)) = Height(t, h, c)
    BY <1>2, <1>5, <2>2 DEF Height, Links
  <2>4. \A m \in D : \A x : Short(now(q), s, now(m), x) = Short(q, s, m, x)
    <3>1. \A m \in D : now(m) = now(q) <=> m = q
      BY <1>1, <1>2 DEF Links
    <3> QED
      BY <3>1 DEF Short
  <2>5. ASSUME NEW m \in D, NEW x \in Sides
        PROVE  Height(r, g, Kid(r, now(m), x)) + Short(now(q), s, now(m), x)
                 = g[now(m)]
    <3>1. Height(t, h, Kid(t, m, x)) + Short(q, s, m, x) = h[m]
      BY <1>8 DEF Heights
    <3> QED
      BY <1>3, <2>2, <2>3, <2>4, <3>1
  <2>6. \A m \in E : g[m] \in Nat
    BY <1>2, <1>8, <2>2 DEF Heights
  <2>7. Heights(r, E, g, now(q), s)
    BY <1>2, <2>5, <2>6 DEF Heights
  <2> QED
    BY <2>7
<1>9. ASSUME AtRest(t, D) PROVE AtRest(r, E)
  <2>1. \A m \in E : ~ RedPair(r, m)
    BY <1>2, <1>6, <1>9 DEF AtRest
  <2>2. \E g : Heights(r, E, g, NULL, "left")
    <3>1. PICK h : Heights(t, D, h, NULL, "left")
      BY <1>9 DEF AtRest
    <3>2. \E g : Heights(r, E, g, now(NULL), "left")
      BY <1>8, <3>1 DEF Links
    <3> QED
      BY <1>2, <3>2
  <2> QED
    BY <1>7, <1>9, <2>1, <2>2 DEF AtRest
<1>10. ASSUME Removing(t, D, e, p), e # key PROVE Removing(r, E, e, now(p))
  <2>1. /\ e \in Links(D) /\ p \in Links(D)
        /\ p = NULL <=> e = t.root
        /\ p # NULL => Kid(t, p, SideIn(t, p, e)) = e
        /\ Red(t, t.root) => t.root = e
        /\ \A n \in D : RedPair(t, n) => n = e \/ Up(t, n) = e
    BY <1>10 DEF Removing
  <2>2. now(e) = e
    BY <1>2, <1>10, <2>1
  <2>3. e \in Links(E) /\ now(p) \in Links(E)
    BY <1>2, <2>1, <2>2
  <2>4. \A c \in Links(D) : now(c) = e <=> c = e
    BY <1>2, <2>1, <2>2
  <2>5. now(p) = NULL <=> e = r.root
    BY <1>2, <1>3, <2>1, <2>4
  <2>6. p # NULL => p \in D /\ SideIn(r, now(p), e) = SideIn(t, p, e)
    <3> SUFFICES ASSUME p \in D PROVE SideIn(r, now(p), e) = SideIn(t, p, e)
      BY <2>1 DEF Links
    <3>1. Kid(r, now(p), "left") = now(Kid(t, p, "left"))
          /\ Kid(t, p, "left") \in Links(D)
      BY <1>3 DEF Sides
    <3>2. Kid(r, now(p), "left") = e <=> Kid(t, p, "left") = e
      BY <2>4, <3>1
    <3> QED
      BY <3>2 DEF SideIn, MapTree!SideOf, Kid
  <2>7. now(p) # NULL => Kid(r, now(p), SideIn(r, now(p), e)) = e
    <3> SUFFICES ASSUME p # NULL
                 PROVE  Kid(r, now(p), SideIn(r, now(p), e)) = e
      BY <1>2
    <3>1. SideIn(t, p, e) \in Sides
      BY SideInFacts
    <3> QED
      BY <1>3, <2>1, <2>2, <2>6, <3>1
  <2>8. Red(r, r.root) => r.root = e
    BY <1>3, <1>7, <2>1, <2>2
  <2>9. ASSUME NEW m \in E, RedPair(r, m) PROVE m = e \/ Up(r, m) = e
    <3>1. PICK n : n = was(m)
      OBVIOUS
    <3>2. n \in D /\ m = now(n)
      BY <1>2, <3>1
    <3>3. n = e \/ Up(t, n) = e
      BY <1>6, <2>1, <2>9, <3>2
    <3> QED
      BY <1>3, <2>2, <3>2, <3>3
  <2>10. \E g : Heights(r, E, g, now(p), SideIn(r, now(p), e))
    <3>1. PICK h : Heights(t, D, h, p, SideIn(t, p, e))
      BY <1>10 DEF Removing
    <3>2. PICK g : Heights(r, E, g, now(p), SideIn(t, p, e))
      BY <1>8, <2>1, <3>1
    <3>3. CASE p # NULL
      BY <2>6, <3>2, <3>3
    <3>4. CASE p = NULL
      <4>1. now(p) = NULL
        BY <1>2, <3>4
      <4>2. \A m \in E : \A x, s : Short(NULL, s, m, x) = 0
        BY <1>1 DEF Short
      <4> QED
        BY <3>2, <4>1, <4>2 DEF Heights
    <3> QED
      BY <3>3, <3>4
  <2> QED
    BY <2>3, <2>5, <2>7, <2>8, <2>9, <2>10 DEF Removing
<1> QED
  BY <1>9, <1>10 DEF now, E

-----------------------------------------------------------------------------
(* RB_REMOVE, link by link.                                                *)

LEMMA SpliceFacts ==
  ASSUME NEW D, NULL \notin D, NEW t, IsTree(t, D), NEW gone \in D,
         NEW side \in Sides, Kid(t, gone, side) = NULL,
         NEW child, child = Kid(t, gone, Opp(side)),
         NEW r, r = MapTree!Splice(t, gone)
  PROVE  /\ IsTree(r, D)
         /\ IsSpliced(r, t, D, gone, child)
         /\ \A m \in D : Red(r, m) <=> Red(t, m)
<1>1. child = IF t.at[gone].left = NULL THEN t.at[gone].right
                                        ELSE t.at[gone].left
  BY DEF Kid, Sides, Opp, MapTree!Other
<1>2. PICK up : up = Up(t, gone)
  OBVIOUS
<1>3. up \in Links(D) /\ child \in Links(D)
  BY <1>2, OppFacts, TreeTyped
<1>4. PICK v : v = MapTree!SetParent(t, child, up)
  OBVIOUS
<1>5. r = MapTree!ReplaceChild(v, up, gone, child)
  BY <1>1, <1>2, <1>4 DEF MapTree!Splice, Up
<1>6. ParentSet(v, t, D, child, up)
  BY <1>3, <1>4, SetParentFacts
<1>7. IsTree(v, D)
  BY <1>6 DEF ParentSet
<1>8. ChildReplaced(r, v, D, up, gone, child)
  BY <1>3, <1>5, <1>7, ReplaceChildFacts
<1>9. up \in D => SideIn(v, up, gone) = SideIn(t, up, gone)
  <2> SUFFICES ASSUME up \in D PROVE SideIn(v, up, gone) = SideIn(t, up, gone)
    OBVIOUS
  <2>1. Kid(v, up, "left") = Kid(t, up, "left")
    BY <1>6 DEF ParentSet, Sides
  <2> QED
    BY <2>1 DEF SideIn, MapTree!SideOf, Kid
<1> QED
  BY <1>2, <1>3, <1>6, <1>8, <1>9 DEF ParentSet, ChildReplaced, IsSpliced

LEMMA UnlinkFacts ==
  ASSUME NEW D, NULL \notin D, NEW t, IsTree(t, D), NEW n \in D,
         NEW E, E = D \ {n}, t.root # n,
         \A m \in E : Up(t, m) # n /\ \A s \in Sides : Kid(t, m, s) # n,
         NEW r, r = MapTree!Unlink(t, n)
  PROVE  /\ SameLinks(r, t, E)
         /\ \A m \in E : Red(r, m) <=> Red(t, m)
<1>1. DOMAIN t.at = D /\ t = [root |-> t.root, at |-> t.at]
  BY DEF IsTree
<1>2. r = [root |-> t.root, at |-> [m \in E |-> t.at[m]]]
  BY <1>1 DEF MapTree!Unlink
<1>3. r.root = t.root /\ \A m \in E : r.at[m] = t.at[m]
  BY <1>2
<1>4. \A m \in E : /\ Up(r, m) = Up(t, m)
                   /\ \A s \in Sides : Kid(r, m, s) = Kid(t, m, s)
                   /\ Red(r, m) <=> Red(t, m)
  BY <1>3 DEF Up, Kid, Red, MapTree!IsRed
<1>5. t.root \in Links(E)
  BY TreeTyped DEF Links
<1>6. ASSUME NEW m \in E PROVE t.at[m] \in Node(E)
  <2>1. t.at[m] \in Node(D)
    BY DEF IsTree
  <2>2. /\ t.at[m].left \in Links(D) /\ t.at[m].left # n
        /\ t.at[m].right \in Links(D) /\ t.at[m].right # n
        /\ t.at[m].parent \in Links(D) /\ t.at[m].parent # n
    BY <2>1, FieldsOf DEF Node, Sides
  <2> QED
    BY <2>1, <2>2 DEF Node, Links
<1>7. IsTree(r, E)
  BY <1>2, <1>5, <1>6 DEF IsTree
<1> QED
  BY <1>3, <1>4, <1>7 DEF SameLinks

\* gone, which nothing links to, takes the place of key.
LEMMA TakePlaceFacts ==
  ASSUME NEW D, NULL \notin D, NEW t, IsTree(t, D),
         NEW gone \in D, NEW key \in D, gone # key,
         NEW E, E = D \ {gone}, NEW S, Shape(t, E, S),
         NEW r, r = MapTree!TakePlace(t, gone, key)
  PROVE  /\ IsTree(r, D)
         /\ IsRenamed(r, t, E, key, gone)
         /\ \A m \in E : Red(r, Now(m, key, gone)) <=> Red(t, m)
<1>1. PICK up : up = Up(t, key)
  OBVIOUS
<1>2. PICK left : left = Kid(t, key, "left")
  OBVIOUS
<1>3. PICK right : right = Kid(t, key, "right")
  OBVIOUS
<1>4. "left" \in Sides /\ "right" \in Sides /\ key \in E /\ gone \notin E
      /\ \A s \in Sides : s = "left" \/ s = "right"
  BY DEF Sides
<1>5. PICK s0 : s0 = SideIn(t, up, key)
  OBVIOUS
<1>6. /\ up \in Links(E)
      /\ up = NULL <=> key = t.root
      /\ up # NULL => /\ up \in E /\ up # key /\ s0 \in Sides
                      /\ Kid(t, up, s0) = key
  BY <1>1, <1>4, <1>5, UpFacts DEF Links
<1>7. \A m \in E, s \in Sides :
        Kid(t, m, s) = key <=> up # NULL /\ m = up /\ s = s0
  <2> TAKE m \in E, s \in Sides
  <2>1. ASSUME Kid(t, m, s) = key PROVE up # NULL /\ m = up /\ s = s0
    <3>1. Kid(t, m, s) # NULL /\ m # NULL
      BY <2>1
    <3>2. Up(t, key) = m /\ SideIn(t, m, key) = s
      BY <2>1, <3>1, KidFacts, SideOfKid
    <3> QED
      BY <1>1, <1>5, <3>1, <3>2
  <2> QED
    BY <1>6, <2>1
<1>8. \A m \in E : Up(t, m) = key <=> m = left \/ m = right
  <2> TAKE m \in E
  <2>1. m # NULL
    OBVIOUS
  <2>2. Up(t, m) = key => \E s \in Sides : Kid(t, key, s) = m
    BY UpFacts
  <2>3. \A s \in Sides : Kid(t, key, s) = m => Up(t, m) = key
    BY <1>4, <2>1, KidFacts
  <2> QED
    BY <1>2, <1>3, <1>4, <2>2, <2>3
<1>9. /\ left \in Links(E) /\ right \in Links(E)
      /\ left # key /\ right # key /\ left # gone /\ right # gone
  <2>1. left \in Links(E) /\ right \in Links(E)
    BY <1>2, <1>3, <1>4 DEF Shape, NodeShape
  <2>2. (left # NULL => left # key) /\ (right # NULL => right # key)
    BY <1>2, <1>3, <1>4, KidFacts
  <2> QED
    BY <2>1, <2>2 DEF Links
<1>10. PICK place : place = t.at[key]
  OBVIOUS
<1>11. place.left = left /\ place.right = right /\ place.parent = up
  BY <1>1, <1>2, <1>3, <1>10, FieldsOf
<1>12. PICK v1 : v1 = [t EXCEPT !.at[gone] = place]
  OBVIOUS
<1>13. /\ IsTree(v1, D) /\ v1.root = t.root
       /\ v1.at[gone] = t.at[key]
       /\ \A m \in E : v1.at[m] = t.at[m]
  BY <1>10, <1>12 DEF IsTree
<1>14. /\ Up(v1, gone) = up
       /\ \A s \in Sides : Kid(v1, gone, s) = Kid(t, key, s)
       /\ Red(v1, gone) <=> Red(t, key)
       /\ \A m \in E : /\ Up(v1, m) = Up(t, m)
                       /\ \A s \in Sides : Kid(v1, m, s) = Kid(t, m, s)
                       /\ Red(v1, m) <=> Red(t, m)
  <2>1. gone # NULL /\ key # NULL
    OBVIOUS
  <2> QED
    BY <1>1, <1>13, <2>1 DEF Up, Kid, Red, MapTree!IsRed
<1>15. PICK v2 : v2 = MapTree!ReplaceChild(v1, up, key, gone)
  OBVIOUS
<1>16. PICK v3 : v3 = MapTree!SetParent(v2, left, gone)
  OBVIOUS
<1>17. r = MapTree!SetParent(v3, right, gone)
  BY <1>10, <1>11, <1>12, <1>15, <1>16 DEF MapTree!TakePlace
<1>18. /\ up \in Links(D) /\ left \in Links(D) /\ right \in Links(D)
       /\ gone \in Links(D)
  BY <1>6, <1>9 DEF Links
<1>19. ChildReplaced(v2, v1, D, up, key, gone)
  BY <1>13, <1>15, <1>18, ReplaceChildFacts
<1>20. IsTree(v2, D)
  BY <1>19 DEF ChildReplaced
<1>21. ParentSet(v3, v2, D, left, gone)
  BY <1>16, <1>18, <1>20, SetParentFacts
<1>22. IsTree(v3, D)
  BY <1>21 DEF ParentSet
<1>23. ParentSet(r, v3, D, right, gone)
  BY <1>17, <1>18, <1>22, SetParentFacts
<1>24. up # NULL => SideIn(v1, up, key) = s0
  <2> SUFFICES ASSUME up \in E PROVE SideIn(v1, up, key) = s0
    BY <1>6
  <2>1. Kid(v1, up, "left") = Kid(t, up, "left")
    BY <1>4, <1>14
  <2> QED
    BY <1>5, <2>1 DEF SideIn, MapTree!SideOf, Kid
<1>25. \A m \in D : m # NULL
  OBVIOUS
<1>26. \A m \in E : m \in D /\ m # gone
  OBVIOUS
<1>27. /\ r.root = IF up = NULL THEN gone ELSE t.root
       /\ \A m \in D :
            /\ Red(r, m) <=> Red(v1, m)
            /\ Up(r, m) = IF m = left \/ m = right THEN gone ELSE Up(v1, m)
            /\ \A s \in Sides :
                 Kid(r, m, s) = IF m = up /\ s = s0 THEN gone
                                                    ELSE Kid(v1, m, s)
  BY <1>13, <1>19, <1>21, <1>23, <1>24, <1>25 DEF ChildReplaced, ParentSet
<1>28. IsTree(r, D)
  BY <1>23 DEF ParentSet
<1>29. r.root = Now(t.root, key, gone)
  BY <1>6, <1>27 DEF Now
<1>30. ASSUME NEW m \in E, m # key
       PROVE  /\ Up(r, m) = Now(Up(t, m), key, gone)
              /\ \A s \in Sides : Kid(r, m, s) = Now(Kid(t, m, s), key, gone)
              /\ Red(r, m) <=> Red(t, m)
  BY <1>7, <1>8, <1>14, <1>25, <1>26, <1>27 DEF Now
<1>31. /\ Up(r, gone) = Now(Up(t, key), key, gone)
       /\ \A s \in Sides : Kid(r, gone, s) = Now(Kid(t, key, s), key, gone)
       /\ Red(r, gone) <=> Red(t, key)
  <2>1. Up(t, key) # key
    BY <1>1, <1>4, <1>6, <1>25
  <2>2. \A s \in Sides : Kid(t, key, s) # key
    BY <1>2, <1>3, <1>4, <1>9
  <2>3. gone # up
    BY <1>4, <1>6, <1>25 DEF Links
  <2> QED
    BY <1>1, <1>9, <1>14, <1>27, <2>1, <2>2, <2>3 DEF Now
<1>32. IsRenamed(r, t, E, key, gone)
  BY <1>29, <1>30, <1>31 DEF IsRenamed, Now
<1> QED
  BY <1>28, <1>30, <1>31, <1>32 DEF Now

\* What a removal leaves: a tree of the other keys, which is at rest or waits
\* for the loop that follows.
Removed(r, E, red, e, p) ==
  /\ \E R : Shape(r, E, R)
  /\ IsTree(r, E)
  /\ red => AtRest(r, E)
  /\ ~ red => Removing(r, E, e, p)

LEMMA SameLinksColours ==
  ASSUME NEW r, NEW t, NEW D, NEW S, Shape(t, D, S), SameLinks(r, t, D),
         \A m \in D : Red(r, m) <=> Red(t, m), NEW e, NEW p
  PROVE  /\ AtRest(t, D) => AtRest(r, D)
         /\ Removing(t, D, e, p) => Removing(r, D, e, p)
<1>1. /\ r.root = t.root /\ t.root \in Links(D)
      /\ \A m \in D : /\ Up(r, m) = Up(t, m) /\ Up(t, m) \in Links(D)
                      /\ \A s \in Sides : /\ Kid(r, m, s) = Kid(t, m, s)
                                          /\ Kid(t, m, s) \in Links(D)
  BY DEF SameLinks, Shape, NodeShape
<1>2. \A c \in Links(D) : Red(r, c) <=> Red(t, c)
  BY NoRed DEF Links
<1>3. \A m \in D : RedPair(r, m) <=> RedPair(t, m)
  BY <1>1, <1>2 DEF RedPair
<1>4. ASSUME NEW h, NEW q, NEW s, Heights(t, D, h, q, s)
      PROVE  Heights(r, D, h, q, s)
  <2>1. \A c \in Links(D) : Height(r, h, c) = Height(t, h, c)
    BY <1>2 DEF Height
  <2>2. \A m \in D, x \in Sides :
          Height(r, h, Kid(r, m, x)) = Height(t, h, Kid(t, m, x))
    BY <1>1, <2>1
  <2> QED
    BY <1>4, <2>2 DEF Heights
<1>5. ASSUME AtRest(t, D) PROVE AtRest(r, D)
  <2>1. PICK h : Heights(t, D, h, NULL, "left")
    BY <1>5 DEF AtRest
  <2>2. Heights(r, D, h, NULL, "left")
    BY <1>4, <2>1
  <2> QED
    BY <1>1, <1>2, <1>3, <1>5, <2>2 DEF AtRest
<1>6. ASSUME Removing(t, D, e, p) PROVE Removing(r, D, e, p)
  <2>1. p \in D => SideIn(r, p, e) = SideIn(t, p, e)
    <3> SUFFICES ASSUME p \in D PROVE SideIn(r, p, e) = SideIn(t, p, e)
      OBVIOUS
    <3>1. Kid(r, p, "left") = Kid(t, p, "left")
      BY <1>1 DEF Sides
    <3> QED
      BY <3>1 DEF SideIn, MapTree!SideOf, Kid
  <2>2. /\ p \in Links(D)
        /\ p # NULL => Kid(t, p, SideIn(t, p, e)) = e
    BY <1>6 DEF Removing
  <2>3. p # NULL => Kid(r, p, SideIn(r, p, e)) = e
    BY <1>1, <2>1, <2>2, SideInFacts DEF Links
  <2>4. PICK h : Heights(t, D, h, p, SideIn(t, p, e))
    BY <1>6 DEF Removing
  <2>5. Heights(r, D, h, p, SideIn(r, p, e))
    <3>1. CASE p \in D
      BY <1>4, <2>1, <2>4, <3>1
    <3>2. CASE p \notin D
      <4>1. \A m \in D : \A x, s : Short(p, s, m, x) = 0
        BY <3>2 DEF Short
      <4>2. Heights(t, D, h, p, SideIn(r, p, e))
        BY <2>4, <4>1 DEF Heights
      <4> QED
        BY <1>4, <4>2
    <3> QED
      BY <3>1, <3>2
  <2>6. \A n \in D : RedPair(r, n) => n = e \/ Up(r, n) = e
    BY <1>1, <1>3, <1>6 DEF Removing
  <2>7. Red(r, r.root) => r.root = e
    BY <1>1, <1>2, <1>6 DEF Removing
  <2>8. e \in Links(D) /\ (p = NULL <=> e = r.root)
    BY <1>1, <1>6 DEF Removing
  <2> QED
    BY <2>2, <2>3, <2>5, <2>6, <2>7, <2>8 DEF Removing
<1> QED
  BY <1>5, <1>6

\* An element with a free side leaves.
LEMMA RemovedLeaf ==
  ASSUME NEW t, NEW D, NEW S, Shape(t, D, S), IsTree(t, D), AtRest(t, D),
         NEW key \in D, NEW side \in Sides, Kid(t, key, side) = NULL,
         NEW r, r = MapTree!Unlink(MapTree!Splice(t, key), key)
  PROVE  Removed(r, D \ {key}, Red(t, key), Kid(t, key, Opp(side)),
                 Up(t, key))
<1>1. NULL \notin D
  BY DEF Shape
<1>2. PICK child : child = Kid(t, key, Opp(side))
  OBVIOUS
<1>3. PICK v : v = MapTree!Splice(t, key)
  OBVIOUS
<1>4. PICK E : E = D \ {key}
  OBVIOUS
<1>5. /\ IsTree(v, D) /\ IsSpliced(v, t, D, key, child)
      /\ \A m \in D : Red(v, m) <=> Red(t, m)
  BY <1>1, <1>2, <1>3, SpliceFacts
<1>6. PICK R : Shape(v, E, R)
  <2>1. Shape(v, D \ {key}, Without(S, D, key))
    BY <1>2, <1>5, SplicingShape
  <2> QED
    BY <1>4, <2>1
<1>7. /\ Red(t, key) => AtRest(v, E)
      /\ ~ Red(t, key) => Removing(v, E, child, Up(t, key))
  BY <1>2, <1>4, <1>5, SplicedColours
<1>8. /\ v.root # key
      /\ \A m \in E : Up(v, m) # key /\ \A s \in Sides : Kid(v, m, s) # key
  BY <1>1, <1>4, <1>6 DEF Shape, NodeShape, Links
<1>9. /\ SameLinks(r, v, E) /\ \A m \in E : Red(r, m) <=> Red(v, m)
  BY <1>1, <1>3, <1>4, <1>5, <1>8, UnlinkFacts
<1>10. Shape(r, E, R) /\ IsTree(r, E)
  BY <1>6, <1>9, SameLinksShape DEF SameLinks
<1>11. /\ Red(t, key) => AtRest(r, E)
       /\ ~ Red(t, key) => Removing(r, E, child, Up(t, key))
  BY <1>6, <1>7, <1>9, SameLinksColours
<1> QED
  BY <1>2, <1>4, <1>10, <1>11 DEF Removed

\* The least element below c.
LeastBelow(t, S, c, e) ==
  /\ e \in S[c] /\ Kid(t, e, "left") = NULL
  /\ \A m \in S[c] : m = e \/ Before("left", e, m)

LEMMA LeastBelowIs ==
  ASSUME NEW D, NEW t, DOMAIN t.at = D, NEW S, Shape(t, D, S), NEW c \in D,
         NEW e, e = MapTree!Extreme(t, c, "left")
  PROVE  LeastBelow(t, S, c, e)
<1>1. PICK side \in Sides : side = "left"
  BY DEF Sides
<1>2. e = MapTree!Extreme(t, c, side)
  BY <1>1
<1>3. /\ e \in S[c] /\ Kid(t, e, side) = NULL
      /\ \A m \in S[c] : m = e \/ Before(side, e, m)
  BY <1>2, ExtremeFacts
<1> QED
  BY <1>1, <1>3 DEF LeastBelow

\* An element with two children is replaced by the next one.
LEMMA RemovedInner ==
  ASSUME NEW t, NEW D, NEW S, Shape(t, D, S), IsTree(t, D), AtRest(t, D),
         NEW key \in D, NEW c, c = Kid(t, key, "right"), c # NULL,
         NEW gone, LeastBelow(t, S, c, gone),
         NEW r, r = MapTree!Unlink(
                      MapTree!TakePlace(MapTree!Splice(t, gone), gone, key),
                      key)
  PROVE  /\ gone \in D /\ gone # key /\ Kid(t, gone, "left") = NULL
         /\ Removed(r, D \ {key}, Red(t, gone), Kid(t, gone, "right"),
                    Now(Up(t, gone), key, gone))
<1>1. /\ NULL \notin D /\ \A m \in D : m \in Nat
      /\ "left" \in Sides /\ "right" \in Sides
      /\ Opp("left") = "right"
      /\ \A s \in Sides : s = "left" \/ s = "right"
  BY DEF Shape, Sides, Opp, MapTree!Other
<1>2. c \in D /\ \A m : m \in S[c] => m \in S[key] /\ m # key
  BY <1>1, KidFacts
<1>4. /\ gone \in S[c] /\ Kid(t, gone, "left") = NULL
      /\ \A m \in S[c] : m = gone \/ Before("left", gone, m)
  BY DEF LeastBelow
<1>5. /\ gone \in S[key] /\ gone # key
      /\ gone \in D /\ gone # NULL /\ gone \in Nat
  <2>1. gone \in S[key] /\ gone # key
    BY <1>2, <1>4
  <2>2. gone \in D
    BY <2>1, SubMember
  <2> QED
    BY <1>1, <2>1, <2>2
<1>6. PICK child : child = Kid(t, gone, "right")
  OBVIOUS
<1>7. child # key
  <2>1. child # NULL => child \in S[gone]
    BY <1>1, <1>5, <1>6, KidFacts
  <2>2. child # NULL => child \in S[c]
    BY <1>2, <1>4, <2>1, Within
  <2> QED
    BY <1>1, <1>2, <2>2
<1>8. PICK v : v = MapTree!Splice(t, gone)
  OBVIOUS
<1>9. PICK E : E = D \ {gone}
  OBVIOUS
<1>10. /\ IsTree(v, D) /\ IsSpliced(v, t, D, gone, child)
       /\ \A m \in D : Red(v, m) <=> Red(t, m)
  BY <1>1, <1>4, <1>5, <1>6, <1>8, SpliceFacts
<1>11. PICK R : R = Without(S, D, gone)
  OBVIOUS
<1>12. Shape(v, E, R)
  BY <1>1, <1>4, <1>5, <1>6, <1>9, <1>10, <1>11, SplicingShape
<1>13. /\ Red(t, gone) => AtRest(v, E)
       /\ ~ Red(t, gone) => Removing(v, E, child, Up(t, gone))
  BY <1>1, <1>4, <1>5, <1>6, <1>9, <1>10, SplicedColours
<1>14. PICK w : w = MapTree!TakePlace(v, gone, key)
  OBVIOUS
<1>15. /\ IsTree(w, D) /\ IsRenamed(w, v, E, key, gone)
       /\ \A m \in E : Red(w, Now(m, key, gone)) <=> Red(v, m)
  BY <1>1, <1>5, <1>9, <1>10, <1>12, <1>14, TakePlaceFacts
<1>16. key \in E /\ gone \notin E /\ \A m \in E : m \in D /\ m # gone
  BY <1>5, <1>9
<1>17. \A m \in E : \A x : x \in R[m] => x \in S[m]
  BY <1>9, <1>11 DEF Without
<1>18. ASSUME NEW m \in E, NEW s \in Sides, InSub(R, key, Kid(v, m, s))
       PROVE  Before(s, gone, m)
  <2>1. Before(s, key, m) /\ key \in R[m] /\ m # key
    BY <1>12, <1>16, <1>18, KidsApart DEF Shape, NodeShape
  <2>2. key \in S[m] /\ m \in Nat /\ key \in Nat /\ m \in D
    BY <1>1, <1>16, <1>17, <2>1
  <2>3. PICK x \in Sides : InSub(S, key, Kid(t, m, x))
    BY <2>1, <2>2 DEF Shape, NodeShape
  <2>4. Before(x, key, m)
    BY <2>2, <2>3 DEF Shape, NodeShape
  <2>5. x = s
    <3>1. s = x \/ s = Opp(x)
      BY OppFacts
    <3>2. Before(Opp(x), key, m) => ~ Before(x, key, m)
      BY <2>2, BeforeFacts
    <3> QED
      BY <2>1, <2>4, <3>1, <3>2
  <2>6. InSub(S, gone, Kid(t, m, x))
    <3>1. Kid(t, m, x) \in D
      BY <2>2, <2>3, KidFacts DEF InSub
    <3> QED
      BY <1>5, <2>3, <3>1, Within DEF InSub
  <2> QED
    BY <1>5, <2>2, <2>5, <2>6 DEF Shape, NodeShape
<1>19. ASSUME NEW m \in E, NEW s \in Sides, InSub(R, m, Kid(v, key, s))
       PROVE  Before(s, m, gone)
  <2>1. Before(s, m, key) /\ m \in R[key] /\ m # key
    BY <1>12, <1>16, <1>19, KidsApart DEF Shape, NodeShape
  <2>2. m \in S[key] /\ m \in Nat /\ key \in Nat /\ m \in D /\ m # gone
    BY <1>1, <1>16, <1>17, <2>1
  <2>3. key < gone
    <3>1. InSub(S, gone, Kid(t, key, "right"))
      BY <1>4 DEF InSub
    <3>2. Before("right", gone, key)
      BY <1>1, <1>5, <3>1 DEF Shape, NodeShape
    <3> QED
      BY <3>2 DEF Before
  <2>4. CASE s = "left"
    BY <1>5, <2>1, <2>2, <2>3, <2>4 DEF Before
  <2>5. CASE s = "right"
    <3>1. ~ InSub(S, m, Kid(t, key, "left"))
      <4>1. InSub(S, m, Kid(t, key, "left")) => Before("left", m, key)
        BY <1>1, <2>2 DEF Shape, NodeShape
      <4> QED
        BY <2>1, <2>2, <2>5, <4>1 DEF Before
    <3>2. InSub(S, m, c)
      BY <1>1, <2>1, <2>2, <3>1 DEF Shape, NodeShape
    <3>3. Before("left", gone, m)
      BY <1>4, <2>2, <3>2 DEF InSub
    <3> QED
      BY <2>5, <3>3 DEF Before
  <2> QED
    BY <1>1, <2>4, <2>5
<1>20. PICK F : F = (E \ {key}) \cup {gone}
  OBVIOUS
<1>21. PICK W : Shape(w, F, W)
  <2>1. \E W : Shape(w, (E \ {key}) \cup {gone}, W)
    BY <1>5, <1>12, <1>15, <1>16, <1>18, <1>19, RenamingShape
  <2> QED
    BY <1>20, <2>1
<1>22. /\ AtRest(v, E) => AtRest(w, F)
       /\ Removing(v, E, child, Up(t, gone)) =>
            Removing(w, F, child, Now(Up(t, gone), key, gone))
  BY <1>5, <1>7, <1>12, <1>15, <1>16, <1>20, RenamedColours
<1>23. F = D \ {key}
  BY <1>5, <1>9, <1>20
<1>24. /\ w.root # key
       /\ \A m \in F : Up(w, m) # key /\ \A s \in Sides : Kid(w, m, s) # key
  BY <1>1, <1>21, <1>23 DEF Shape, NodeShape, Links
<1>25. SameLinks(r, w, F) /\ \A m \in F : Red(r, m) <=> Red(w, m)
  BY <1>1, <1>8, <1>14, <1>15, <1>23, <1>24, UnlinkFacts
<1>26. Shape(r, F, W) /\ IsTree(r, F)
  BY <1>21, <1>25, SameLinksShape DEF SameLinks
<1>27. /\ Red(t, gone) => AtRest(r, F)
       /\ ~ Red(t, gone) => Removing(r, F, child, Now(Up(t, gone), key, gone))
  BY <1>13, <1>21, <1>22, <1>25, SameLinksColours
<1> QED
  BY <1>4, <1>5, <1>6, <1>23, <1>26, <1>27 DEF Removed

-----------------------------------------------------------------------------
(* RB_INSERT before its loop.                                              *)

Grown(t, key, up) ==
  LET new == [left |-> NULL, right |-> NULL, parent |-> up, color |-> "red"]
      set == [t EXCEPT !.at = [n \in DOMAIN @ \cup {key} |->
                                 IF n = key THEN new ELSE @[n]]]
  IN  CASE up = NULL -> [set EXCEPT !.root = key]
        [] up # NULL /\ key < up -> [set EXCEPT !.at[up].left = key]
        [] OTHER -> [set EXCEPT !.at[up].right = key]

LEMMA GrownFacts ==
  ASSUME NEW D, NULL \notin D, NEW t, IsTree(t, D),
         NEW key, key \notin D, key # NULL, NEW up \in Links(D),
         NEW side, side = SideFor(key, up),
         NEW r, r = Grown(t, key, up)
  PROVE  /\ IsTree(r, D \cup {key})
         /\ IsInserted(r, t, D, key, up, side)
         /\ Red(r, key) /\ \A m \in D : Red(r, m) <=> Red(t, m)
<1>1. PICK E : E = D \cup {key}
  OBVIOUS
<1>2. PICK new : new = [left |-> NULL, right |-> NULL, parent |-> up,
                        color |-> "red"]
  OBVIOUS
<1>3. PICK set : set = [t EXCEPT !.at = [n \in DOMAIN @ \cup {key} |->
                                           IF n = key THEN new ELSE @[n]]]
  OBVIOUS
<1>4. DOMAIN t.at = D /\ t = [root |-> t.root, at |-> t.at]
      /\ t.root \in Links(D)
  BY DEF IsTree
<1>5. set = [root |-> t.root,
             at |-> [n \in E |-> IF n = key THEN new ELSE t.at[n]]]
  BY <1>1, <1>3, <1>4
<1>6. set.root = t.root /\ set.at[key] = new
      /\ \A m \in D : set.at[m] = t.at[m]
  BY <1>1, <1>5
<1>7. /\ Up(set, key) = up /\ Red(set, key)
      /\ Kid(set, key, "left") = NULL /\ Kid(set, key, "right") = NULL
  BY <1>2, <1>6 DEF Up, Kid, Red, MapTree!IsRed
<1>8. \A m \in D : /\ Up(set, m) = Up(t, m) /\ (Red(set, m) <=> Red(t, m))
                   /\ \A s \in Sides : Kid(set, m, s) = Kid(t, m, s)
  BY <1>6 DEF Up, Kid, Red, MapTree!IsRed
<1>9. IsTree(set, E)
  <2>1. \A x \in Links(D) : x \in Links(E)
    BY <1>1 DEF Links
  <2>2. new \in Node(E)
    BY <1>1, <1>2 DEF Node, Links
  <2>3. ASSUME NEW m \in D PROVE t.at[m] \in Node(E)
    <3>1. t.at[m] \in Node(D)
      BY DEF IsTree
    <3> QED
      BY <2>1, <3>1 DEF Node
  <2> QED
    BY <1>1, <1>4, <1>5, <2>1, <2>2, <2>3 DEF IsTree
<1>10. NULL \notin E /\ key \in E /\ key \in Links(E) /\ side \in Sides
       /\ "left" \in Sides /\ "right" \in Sides
       /\ \A s \in Sides : s = "left" \/ s = "right"
  BY <1>1 DEF SideFor, Sides, Links
<1>11. CASE up = NULL
  <2>1. r = [set EXCEPT !.root = key]
    BY <1>2, <1>3, <1>11 DEF Grown
  <2>2. RootSet(r, set, E, key)
    BY <1>9, <1>10, <2>1, RootFacts
  <2> QED
    BY <1>1, <1>7, <1>8, <1>10, <1>11, <2>2 DEF RootSet, IsInserted
<1>12. CASE up # NULL
  <2>1. up \in D /\ up \in E /\ up # key
    BY <1>1, <1>12 DEF Links
  <2>2. r = MapTree!SetChild(set, up, side, key)
    <3>1. CASE key < up
      <4>1. side = "left"
        BY <3>1 DEF SideFor
      <4>2. r = [set EXCEPT !.at[up].left = key]
        BY <1>2, <1>3, <1>12, <3>1 DEF Grown
      <4> QED
        BY <4>1, <4>2 DEF MapTree!SetChild
    <3>2. CASE ~ (key < up)
      <4>1. side = "right"
        BY <3>2 DEF SideFor
      <4>2. r = [set EXCEPT !.at[up].right = key]
        BY <1>2, <1>3, <1>12, <3>2 DEF Grown
      <4> QED
        BY <4>1, <4>2 DEF MapTree!SetChild
    <3> QED
      BY <3>1, <3>2
  <2>3. ChildSet(r, set, E, up, side, key)
    BY <1>9, <1>10, <2>1, <2>2, SetChildFacts
  <2> QED
    BY <1>1, <1>6, <1>7, <1>8, <1>10, <1>12, <2>1, <2>3
    DEF ChildSet, IsInserted
<1> QED
  BY <1>11, <1>12

\* RB_INSERT puts a new key where the search for it ends.
Settled(r, D, key) ==
  /\ IsTree(r, D \cup {key})
  /\ \E R : Shape(r, D \cup {key}, R)
  /\ Inserting(r, D \cup {key}, key)

LEMMA GrownSettled ==
  ASSUME NEW t, NEW D, NEW S, Shape(t, D, S), IsTree(t, D), AtRest(t, D),
         NEW key \in Nat, key # NULL, MapTree!Find(t, key) = NULL,
         NEW r, r = Grown(t, key, MapTree!SearchEnd(t, key))
  PROVE  key \notin D /\ Settled(r, D, key)
<1>1. /\ DOMAIN t.at = D /\ NULL \notin D /\ t.root \in Links(D)
      /\ \A m \in D : m \in Nat
      /\ \A m \in D : InSub(S, m, t.root)
  BY DEF IsTree, Shape
<1>2. PICK up : up = MapTree!SearchEnd(t, key)
  OBVIOUS
<1>3. /\ t.root = NULL => up = NULL
      /\ t.root # NULL => SearchFrom(t, D, S, key, t.root, up)
  BY <1>1, <1>2, SearchFacts
<1>4. up # key
  BY <1>2 DEF MapTree!Find
<1>5. key \notin D
  BY <1>1, <1>3, <1>4 DEF SearchFrom, InSub
<1>6. /\ up \in Links(D)
      /\ up = NULL => D = {}
      /\ up # NULL => t.root \in D /\ up \in D
  <2>1. CASE t.root = NULL
    BY <1>1, <1>3, <2>1 DEF InSub, Links
  <2>2. CASE t.root # NULL
    <3>1. t.root \in D /\ up \in S[t.root]
      BY <1>1, <1>3, <2>2 DEF SearchFrom, Links
    <3>2. up \in D
      BY <3>1, SubMember
    <3> QED
      BY <1>1, <3>1, <3>2 DEF Links
  <2> QED
    BY <2>1, <2>2
<1>7. PICK side : side = SideFor(key, up)
  OBVIOUS
<1>8. side \in Sides
  BY <1>7 DEF SideFor, Sides
<1>9. up # NULL => Kid(t, up, side) = NULL
  BY <1>3, <1>4, <1>6, <1>7 DEF SearchFrom, SearchStops, Shape
<1>10. ASSUME NEW m \in D PROVE Before(SideFor(key, m), key, m)
  <2>1. key # m /\ m \in Nat
    BY <1>1, <1>5
  <2> QED
    BY <2>1 DEF SideFor, Before
<1>11. ASSUME NEW m \in D, NEW s \in Sides,
              InSub(S, up, Kid(t, m, s)) \/ (m = up /\ s = side)
       PROVE  Before(s, key, m)
  <2>1. CASE m = up /\ s = side
    BY <1>7, <1>10, <2>1
  <2>2. CASE InSub(S, up, Kid(t, m, s))
    <3>1. up \in D
      BY <2>2, SubMember
    <3>2. up \in S[m] /\ up # m
      BY <2>2, <3>1, KidsApart DEF Shape, NodeShape
    <3>3. t.root # NULL /\ m \in S[t.root]
      BY <1>1 DEF InSub
    <3>4. InSub(S, up, Kid(t, m, SideFor(key, m)))
      BY <1>3, <3>2, <3>3 DEF SearchFrom
    <3>5. SideFor(key, m) \in Sides
      BY DEF SideFor, Sides
    <3>6. s = SideFor(key, m) \/ s = Opp(SideFor(key, m))
      BY <3>5, OppFacts
    <3>7. s = SideFor(key, m)
      BY <2>2, <3>1, <3>4, <3>5, <3>6, KidsApart
    <3> QED
      BY <1>10, <3>7
  <2> QED
    BY <1>11, <2>1, <2>2
<1>12. /\ IsTree(r, D \cup {key})
       /\ IsInserted(r, t, D, key, up, side)
       /\ Red(r, key) /\ \A m \in D : Red(r, m) <=> Red(t, m)
  BY <1>1, <1>2, <1>5, <1>6, <1>7, GrownFacts, SMTT(30)
<1>13. up = NULL => D = {}
  BY <1>6
<1>14. \E R : Shape(r, D \cup {key}, R)
  BY <1>5, <1>6, <1>8, <1>9, <1>11, <1>12, <1>13, InsertionShape
<1>15. Inserting(r, D \cup {key}, key)
  BY <1>5, <1>6, <1>8, <1>9, <1>12, <1>13, InsertedRed
<1> QED
  BY <1>5, <1>12, <1>14, <1>15 DEF Settled

-----------------------------------------------------------------------------
(* RB_REMOVE before its loop: the tree, the element and the parent that    *)
(* the loop starts with, and whether there is one.                         *)

Gone(t, key) ==
  IF t.at[key].left = NULL \/ t.at[key].right = NULL
    THEN key ELSE MapTree!Extreme(t, t.at[key].right, "left")

Shrunk(t, key, gone) ==
  MapTree!Unlink(IF t.at[key].left = NULL \/ t.at[key].right = NULL
                   THEN MapTree!Splice(t, gone)
                   ELSE MapTree!TakePlace(MapTree!Splice(t, gone), gone, key),
                 key)

TakesOver(t, gone) ==
  IF t.at[gone].left = NULL THEN t.at[gone].right ELSE t.at[gone].left

ShortAt(t, key, gone) ==
  IF t.at[gone].parent = key
       /\ ~ (t.at[key].left = NULL \/ t.at[key].right = NULL)
    THEN gone ELSE t.at[gone].parent

LEMMA RemoveElementIs ==
  ASSUME NEW key, MapTree!RemoveElement(key),
         NEW gone, gone = Gone(tree, key)
  PROVE  /\ tree' = Shrunk(tree, key, gone)
         /\ keys' = keys \ {key}
         /\ tree.at[gone].color = "black" =>
              /\ pc' = "remove_color"
              /\ elm' = TakesOver(tree, gone)
              /\ parent' = ShortAt(tree, key, gone)
         /\ tree.at[gone].color # "black" => pc' = "idle"
<1>1. tree' = Shrunk(tree, key, gone)
  BY SMTT(30) DEF MapTree!RemoveElement, Gone, Shrunk
<1>2. keys' = keys \ {key}
  BY SMTT(30) DEF MapTree!RemoveElement
<1>3. pc' = IF tree.at[gone].color = "black" THEN "remove_color" ELSE "idle"
  BY DEF MapTree!RemoveElement, Gone
<1>4. tree.at[gone].color = "black" => elm' = TakesOver(tree, gone)
  BY DEF MapTree!RemoveElement, Gone, TakesOver
<1>5. tree.at[gone].color = "black" => parent' = ShortAt(tree, key, gone)
  BY DEF MapTree!RemoveElement, Gone, ShortAt
<1> QED
  BY <1>1, <1>2, <1>3, <1>4, <1>5, SMTT(30)

LEMMA ShrunkFacts ==
  ASSUME NEW t, NEW D, NEW S, Shape(t, D, S), IsTree(t, D), AtRest(t, D),
         NEW key \in D, NEW gone, gone = Gone(t, key),
         NEW r, r = Shrunk(t, key, gone)
  PROVE  /\ gone \in D
         /\ Removed(r, D \ {key}, Red(t, gone), TakesOver(t, gone),
                    ShortAt(t, key, gone))
<1>1. /\ NULL \notin D /\ DOMAIN t.at = D
      /\ "left" \in Sides /\ "right" \in Sides
      /\ Opp("left") = "right" /\ Opp("right") = "left"
  BY DEF IsTree, Shape, Sides, Opp, MapTree!Other
<1>2. /\ t.at[key].left = Kid(t, key, "left")
      /\ t.at[key].right = Kid(t, key, "right")
  BY FieldsOf
<1>3. CASE t.at[key].left = NULL \/ t.at[key].right = NULL
  <2>1. /\ gone = key
        /\ r = MapTree!Unlink(MapTree!Splice(t, key), key)
        /\ ShortAt(t, key, gone) = Up(t, key)
    BY <1>3 DEF Gone, Shrunk, ShortAt, Up
  <2>2. PICK side \in Sides : /\ Kid(t, key, side) = NULL
                              /\ TakesOver(t, gone) = Kid(t, key, Opp(side))
    <3>1. CASE Kid(t, key, "left") = NULL
      BY <1>1, <1>2, <2>1, <3>1 DEF TakesOver
    <3>2. CASE Kid(t, key, "left") # NULL
      BY <1>1, <1>2, <1>3, <2>1, <3>2 DEF TakesOver
    <3> QED
      BY <3>1, <3>2
  <2>3. Removed(r, D \ {key}, Red(t, key), Kid(t, key, Opp(side)), Up(t, key))
    BY <2>1, <2>2, RemovedLeaf
  <2> QED
    BY <2>1, <2>2, <2>3
<1>4. CASE ~ (t.at[key].left = NULL \/ t.at[key].right = NULL)
  <2>1. PICK c : c = Kid(t, key, "right")
    OBVIOUS
  <2>2. c # NULL /\ c \in D
    BY <1>1, <1>2, <1>4, <2>1, KidFacts
  <2>3. /\ gone = MapTree!Extreme(t, c, "left")
        /\ r = MapTree!Unlink(
                 MapTree!TakePlace(MapTree!Splice(t, gone), gone, key), key)
        /\ ShortAt(t, key, gone) = Now(Up(t, gone), key, gone)
    BY <1>2, <1>4, <2>1 DEF Gone, Shrunk, ShortAt, Now, Up
  <2>4. LeastBelow(t, S, c, gone)
    BY <1>1, <2>2, <2>3, LeastBelowIs
  <2>5. /\ gone \in D /\ Kid(t, gone, "left") = NULL
        /\ Removed(r, D \ {key}, Red(t, gone), Kid(t, gone, "right"),
                   Now(Up(t, gone), key, gone))
    BY <2>1, <2>2, <2>3, <2>4, RemovedInner
  <2>6. TakesOver(t, gone) = Kid(t, gone, "right")
    BY <2>5, FieldsOf DEF TakesOver
  <2> QED
    BY <2>3, <2>5, <2>6
<1> QED
  BY <1>3, <1>4

LEMMA NotRed ==
  ASSUME NEW D, NULL \notin D, NEW t, IsTree(t, D), NEW n \in D
  PROVE  t.at[n].color = "black" <=> ~ Red(t, n)
BY DEF IsTree, Node, Red, MapTree!IsRed
-----------------------------------------------------------------------------
(* The invariant, of the state as a tuple of values.                       *)

TreeHolds(q, t, D, e, p, s) ==
  /\ q \in {"idle", "insert_color", "remove_color"}
  /\ \A n \in D : n \in Keys
  /\ IsTree(t, D)
  /\ \E S : Shape(t, D, S)
  /\ q = "idle" => AtRest(t, D)
  /\ q = "insert_color" => Inserting(t, D, e)
  /\ q = "remove_color" => Removing(t, D, e, p)
  /\ s = NoSweep \/ s = MapTree!LeastOf(D)

TreeInv ==
  part = "tree" => TreeHolds(pc, tree, keys, elm, parent, sweep)

LEMMA KeysFacts ==
  /\ \A key \in Keys : key \in Nat /\ key # NULL /\ key # NoSweep
  /\ NoSweep # NULL
BY PartsAssumption DEF MapTree!TreeAssumption

LEMMA InsertStep ==
  ASSUME TreeHolds(pc, tree, keys, elm, parent, sweep),
         NEW key \in Keys, MapTree!Insert(key)
  PROVE  TreeHolds(pc', tree', keys', elm', parent', sweep')
<1>1. /\ pc = "idle" /\ sweep = NoSweep /\ MapTree!Find(tree, key) = NULL
      /\ elm' = key /\ pc' = "insert_color" /\ keys' = keys \cup {key}
      /\ sweep' = sweep
      /\ tree' = Grown(tree, key, MapTree!SearchEnd(tree, key))
  BY DEF MapTree!Insert, Grown
<1>2. PICK t : t = tree
  OBVIOUS
<1>3. PICK D : D = keys
  OBVIOUS
<1>4. PICK r : r = tree'
  OBVIOUS
<1>5. PICK S : Shape(t, D, S)
  BY <1>2, <1>3 DEF TreeHolds
<1>6. IsTree(t, D) /\ AtRest(t, D) /\ key \in Nat /\ key # NULL
      /\ \A n \in D : n \in Keys
  BY <1>1, <1>2, <1>3, KeysFacts DEF TreeHolds
<1>7. MapTree!Find(t, key) = NULL
      /\ r = Grown(t, key, MapTree!SearchEnd(t, key))
  BY <1>1, <1>2, <1>4
<1>8. Settled(r, D, key)
  BY <1>5, <1>6, <1>7, GrownSettled
<1>9. TreeHolds("insert_color", r, D \cup {key}, key, parent', NoSweep)
  BY <1>6, <1>8 DEF TreeHolds, Settled
<1> QED
  BY <1>1, <1>3, <1>4, <1>9

LEMMA InsertRecolorIs ==
  ASSUME MapTree!InsertRecolor,
         NEW up, up = Up(tree, elm), NEW gparent, gparent = Up(tree, up),
         NEW side, side = SideIn(tree, gparent, up),
         NEW uncle, uncle = Kid(tree, gparent, Opp(side))
  PROVE  /\ pc = "insert_color" /\ Red(tree, up) /\ Red(tree, uncle)
         /\ tree' = MapTree!SetBlackRed(MapTree!Color(tree, uncle, "black"),
                                        up, gparent)
         /\ elm' = gparent
         /\ pc' = pc /\ sweep' = sweep /\ keys' = keys
<1>1. /\ tree.at[elm].parent = up /\ tree.at[up].parent = gparent
      /\ MapTree!SideOf(tree, gparent, up) = side
      /\ tree.at[gparent][MapTree!Other(side)] = uncle
  BY DEF Up, Kid, Opp, SideIn
<1>2. pc = "insert_color" /\ Red(tree, up)
  BY <1>1 DEF MapTree!InsertRecolor, MapTree!RedParent, Red
<1>3. Red(tree, uncle)
  BY <1>1 DEF MapTree!InsertRecolor, Red
<1>4. tree' = MapTree!SetBlackRed(MapTree!Color(tree, uncle, "black"),
                                  up, gparent)
  BY <1>1 DEF MapTree!InsertRecolor
<1>5. elm' = gparent
  BY <1>1 DEF MapTree!InsertRecolor
<1>6. pc' = pc /\ sweep' = sweep /\ keys' = keys
  BY Zenon DEF MapTree!InsertRecolor
<1> QED
  BY <1>2, <1>3, <1>4, <1>5, <1>6

LEMMA InsertRecolorStep ==
  ASSUME TreeHolds(pc, tree, keys, elm, parent, sweep),
         MapTree!InsertRecolor
  PROVE  TreeHolds(pc', tree', keys', elm', parent', sweep')
<1>1. PICK t : t = tree
  OBVIOUS
<1>2. PICK D : D = keys
  OBVIOUS
<1>3. PICK e : e = elm
  OBVIOUS
<1>4. PICK up : up = Up(t, e)
  OBVIOUS
<1>5. PICK gparent : gparent = Up(t, up)
  OBVIOUS
<1>6. PICK side : side = SideIn(t, gparent, up)
  OBVIOUS
<1>7. PICK uncle : uncle = Kid(t, gparent, Opp(side))
  OBVIOUS
<1>8. PICK r : r = tree'
  OBVIOUS
<1>9. /\ pc = "insert_color" /\ Red(t, up) /\ Red(t, uncle)
      /\ r = MapTree!SetBlackRed(MapTree!Color(t, uncle, "black"), up, gparent)
      /\ elm' = gparent
      /\ pc' = pc /\ sweep' = sweep /\ keys' = keys
  BY <1>1, <1>3, <1>4, <1>5, <1>6, <1>7, <1>8, InsertRecolorIs
<1>10. PICK S : Shape(t, D, S)
  BY <1>1, <1>2 DEF TreeHolds
<1>11. /\ IsTree(t, D) /\ Inserting(t, D, e)
       /\ \A n \in D : n \in Keys
       /\ sweep = NoSweep \/ sweep = MapTree!LeastOf(D)
  BY <1>1, <1>2, <1>3, <1>9 DEF TreeHolds
<1>12. InsertAt(t, D, e, up, gparent, side)
  BY <1>4, <1>5, <1>6, <1>9, <1>10, <1>11, InsertPlaces
<1>13. SameLinks(r, t, D) /\ Inserting(r, D, gparent)
  BY <1>7, <1>9, <1>10, <1>11, <1>12, InsertRecoloured
<1>14. IsTree(r, D) /\ Shape(r, D, S)
  BY <1>10, <1>13, SameLinksShape DEF SameLinks
<1>15. TreeHolds("insert_color", r, D, gparent, parent', sweep)
  BY <1>11, <1>13, <1>14 DEF TreeHolds
<1> QED
  BY <1>2, <1>8, <1>9, <1>15

LEMMA InsertRotateIs ==
  ASSUME MapTree!InsertRotate,
         NEW up, up = Up(tree, elm), NEW gparent, gparent = Up(tree, up),
         NEW side, side = SideIn(tree, gparent, up),
         NEW u, u = MapTree!Rotate(tree, up, side)
  PROVE  /\ pc = "insert_color" /\ Red(tree, up)
         /\ ~ Red(tree, Kid(tree, gparent, Opp(side)))
         /\ pc' = pc /\ sweep' = sweep /\ keys' = keys
         /\ Kid(tree, up, Opp(side)) = elm =>
              /\ elm' = up
              /\ tree' = MapTree!Rotate(MapTree!SetBlackRed(u, elm, gparent),
                                        gparent, Opp(side))
         /\ Kid(tree, up, Opp(side)) # elm =>
              /\ elm' = elm
              /\ tree' = MapTree!Rotate(MapTree!SetBlackRed(tree, up, gparent),
                                        gparent, Opp(side))
<1>1. /\ tree.at[elm].parent = up /\ tree.at[up].parent = gparent
      /\ MapTree!SideOf(tree, gparent, up) = side
      /\ MapTree!Other(side) = Opp(side)
  BY DEF Up, Kid, Opp, SideIn
<1>2. /\ tree.at[gparent][Opp(side)] = Kid(tree, gparent, Opp(side))
      /\ tree.at[up][Opp(side)] = Kid(tree, up, Opp(side))
  BY DEF Kid
<1>3. pc = "insert_color" /\ Red(tree, up)
  BY <1>1 DEF MapTree!InsertRotate, MapTree!RedParent, Red
<1>4. ~ Red(tree, Kid(tree, gparent, Opp(side)))
  BY <1>1, <1>2 DEF MapTree!InsertRotate, Red
<1>5. pc' = pc /\ sweep' = sweep /\ keys' = keys
  BY Zenon DEF MapTree!InsertRotate
<1>6. CASE Kid(tree, up, Opp(side)) = elm
  <2>1. tree.at[up][MapTree!Other(side)] = elm
    BY <1>1, <1>2, <1>6
  <2>2. elm' = up
    BY <1>1, <2>1 DEF MapTree!InsertRotate
  <2>3. tree' = MapTree!Rotate(MapTree!SetBlackRed(u, elm, gparent),
                               gparent, MapTree!Other(side))
    BY <1>1, <2>1 DEF MapTree!InsertRotate
  <2> QED
    BY <1>1, <1>3, <1>4, <1>5, <1>6, <2>2, <2>3
<1>7. CASE Kid(tree, up, Opp(side)) # elm
  <2>1. tree.at[up][MapTree!Other(side)] # elm
    BY <1>1, <1>2, <1>7
  <2>2. elm' = elm
    BY <1>1, <2>1 DEF MapTree!InsertRotate
  <2>3. tree' = MapTree!Rotate(MapTree!SetBlackRed(tree, up, gparent),
                               gparent, MapTree!Other(side))
    BY <1>1, <2>1 DEF MapTree!InsertRotate
  <2> QED
    BY <1>1, <1>3, <1>4, <1>5, <1>7, <2>2, <2>3
<1> QED
  BY <1>6, <1>7

LEMMA InsertRotateStep ==
  ASSUME TreeHolds(pc, tree, keys, elm, parent, sweep),
         MapTree!InsertRotate
  PROVE  TreeHolds(pc', tree', keys', elm', parent', sweep')
<1>1. PICK t : t = tree
  OBVIOUS
<1>2. PICK D : D = keys
  OBVIOUS
<1>3. PICK e : e = elm
  OBVIOUS
<1>4. PICK up : up = Up(t, e)
  OBVIOUS
<1>5. PICK gparent : gparent = Up(t, up)
  OBVIOUS
<1>6. PICK side : side = SideIn(t, gparent, up)
  OBVIOUS
<1>7. PICK u : u = MapTree!Rotate(t, up, side)
  OBVIOUS
<1>8. PICK r : r = tree'
  OBVIOUS
<1>9. /\ pc = "insert_color" /\ Red(t, up)
      /\ ~ Red(t, Kid(t, gparent, Opp(side)))
      /\ pc' = pc /\ sweep' = sweep /\ keys' = keys
  BY <1>1, <1>3, <1>4, <1>5, <1>6, <1>7, InsertRotateIs
<1>10. Kid(t, up, Opp(side)) = e =>
         /\ elm' = up
         /\ r = MapTree!Rotate(MapTree!SetBlackRed(u, e, gparent),
                               gparent, Opp(side))
  BY <1>1, <1>3, <1>4, <1>5, <1>6, <1>7, <1>8, InsertRotateIs
<1>11. Kid(t, up, Opp(side)) # e =>
         /\ elm' = e
         /\ r = MapTree!Rotate(MapTree!SetBlackRed(t, up, gparent),
                               gparent, Opp(side))
  BY <1>1, <1>3, <1>4, <1>5, <1>6, <1>7, <1>8, InsertRotateIs
<1>12. PICK S : Shape(t, D, S)
  BY <1>1, <1>2 DEF TreeHolds
<1>13. /\ IsTree(t, D) /\ Inserting(t, D, e)
       /\ \A n \in D : n \in Keys
       /\ sweep = NoSweep \/ sweep = MapTree!LeastOf(D)
  BY <1>1, <1>2, <1>3, <1>9 DEF TreeHolds
<1>14. InsertAt(t, D, e, up, gparent, side)
  BY <1>4, <1>5, <1>6, <1>9, <1>12, <1>13, InsertPlaces
<1>15. /\ IsTree(r, D)
       /\ \E R : Shape(r, D, R)
       /\ Inserting(r, D, elm')
  <2>1. CASE Kid(t, up, Opp(side)) # e
    BY <1>9, <1>11, <1>12, <1>13, <1>14, <2>1, InsertTopped
  <2>2. CASE Kid(t, up, Opp(side)) = e
    <3>1. /\ IsTree(u, D)
          /\ \E R : Shape(u, D, R)
          /\ Inserting(u, D, up)
          /\ InsertAt(u, D, up, e, gparent, side)
          /\ Kid(u, gparent, Opp(side)) = Kid(t, gparent, Opp(side))
          /\ \A m \in D : Red(u, m) <=> Red(t, m)
          /\ Kid(u, e, Opp(side)) # up
      BY <1>7, <1>12, <1>13, <1>14, <2>2, InsertStraightened
    <3>2. PICK R : Shape(u, D, R)
      BY <3>1
    <3>3. ~ Red(u, Kid(u, gparent, Opp(side)))
      <4>1. Kid(t, gparent, Opp(side)) \in Links(D)
        BY <1>12, <1>14, OppFacts DEF InsertAt, Shape, NodeShape
      <4> QED
        BY <1>9, <3>1, <4>1, NoRed DEF Links
    <3> QED
      BY <1>10, <2>2, <3>1, <3>2, <3>3, InsertTopped
  <2> QED
    BY <2>1, <2>2
<1>16. TreeHolds("insert_color", r, D, elm', parent', sweep)
  BY <1>13, <1>15 DEF TreeHolds
<1> QED
  BY <1>2, <1>8, <1>9, <1>16

LEMMA InsertDoneStep ==
  ASSUME TreeHolds(pc, tree, keys, elm, parent, sweep),
         MapTree!InsertDone
  PROVE  TreeHolds(pc', tree', keys', elm', parent', sweep')
<1>1. PICK t : t = tree
  OBVIOUS
<1>2. PICK D : D = keys
  OBVIOUS
<1>3. PICK e : e = elm
  OBVIOUS
<1>4. PICK r : r = tree'
  OBVIOUS
<1>5. /\ pc = "insert_color" /\ ~ Red(t, Up(t, e))
      /\ r = MapTree!Color(t, t.root, "black")
      /\ pc' = "idle" /\ sweep' = sweep /\ keys' = keys
  BY <1>1, <1>3, <1>4
  DEF MapTree!InsertDone, MapTree!RedParent, Up, Red
<1>6. PICK S : Shape(t, D, S)
  BY <1>1, <1>2 DEF TreeHolds
<1>7. /\ IsTree(t, D) /\ Inserting(t, D, e)
      /\ \A n \in D : n \in Keys
      /\ sweep = NoSweep \/ sweep = MapTree!LeastOf(D)
  BY <1>1, <1>2, <1>3, <1>5 DEF TreeHolds
<1>8. SameLinks(r, t, D) /\ AtRest(r, D)
  BY <1>5, <1>6, <1>7, InsertEnded
<1>9. IsTree(r, D) /\ Shape(r, D, S)
  BY <1>6, <1>8, SameLinksShape DEF SameLinks
<1>10. TreeHolds("idle", r, D, elm', parent', sweep)
  BY <1>7, <1>8, <1>9 DEF TreeHolds
<1> QED
  BY <1>2, <1>4, <1>5, <1>10

\* Element key leaves the tree, and the loop after it starts if it has to.
LEMMA RemoveElementStep ==
  ASSUME TreeHolds(pc, tree, keys, elm, parent, sweep), pc = "idle",
         NEW key \in keys, MapTree!RemoveElement(key),
         sweep' = NoSweep \/ sweep' = MapTree!LeastOf(keys \ {key})
  PROVE  TreeHolds(pc', tree', keys', elm', parent', sweep')
<1>1. PICK t : t = tree
  OBVIOUS
<1>2. PICK D : D = keys
  OBVIOUS
<1>3. PICK r : r = tree'
  OBVIOUS
<1>4. PICK gone : gone = Gone(t, key)
  OBVIOUS
<1>5. PICK E : E = D \ {key}
  OBVIOUS
<1>6. PICK S : Shape(t, D, S)
  BY <1>1, <1>2 DEF TreeHolds
<1>7. /\ IsTree(t, D) /\ AtRest(t, D) /\ key \in D /\ NULL \notin D
      /\ \A n \in E : n \in Keys
  BY <1>1, <1>2, <1>5, <1>6 DEF TreeHolds, Shape
<1>8. gone = Gone(tree, key)
  BY <1>1, <1>4
<1>9. /\ r = Shrunk(t, key, gone)
      /\ keys' = E
      /\ t.at[gone].color = "black" =>
           /\ pc' = "remove_color"
           /\ elm' = TakesOver(t, gone)
           /\ parent' = ShortAt(t, key, gone)
      /\ t.at[gone].color # "black" => pc' = "idle"
  BY <1>1, <1>2, <1>3, <1>5, <1>8, RemoveElementIs
<1>10. /\ gone \in D
       /\ Removed(r, E, Red(t, gone), TakesOver(t, gone),
                  ShortAt(t, key, gone))
  BY <1>4, <1>5, <1>6, <1>7, <1>9, ShrunkFacts
<1>11. t.at[gone].color = "black" <=> ~ Red(t, gone)
  BY <1>7, <1>10, NotRed
<1>12. sweep' = NoSweep \/ sweep' = MapTree!LeastOf(E)
  BY <1>2, <1>5
<1>13. CASE Red(t, gone)
  <2>1. pc' = "idle"
    BY <1>9, <1>11, <1>13
  <2>2. TreeHolds("idle", r, E, elm', parent', sweep')
    BY <1>7, <1>10, <1>12, <1>13 DEF Removed, TreeHolds
  <2> QED
    BY <1>3, <1>9, <2>1, <2>2
<1>14. CASE ~ Red(t, gone)
  <2>1. /\ pc' = "remove_color" /\ elm' = TakesOver(t, gone)
        /\ parent' = ShortAt(t, key, gone)
    BY <1>9, <1>11, <1>14
  <2>2. TreeHolds("remove_color", r, E, TakesOver(t, gone),
                  ShortAt(t, key, gone), sweep')
    BY <1>7, <1>10, <1>12, <1>14 DEF Removed, TreeHolds
  <2> QED
    BY <1>3, <1>9, <2>1, <2>2
<1> QED
  BY <1>13, <1>14

LEMMA RemoveStep ==
  ASSUME TreeHolds(pc, tree, keys, elm, parent, sweep),
         NEW key \in Keys, MapTree!Remove(key)
  PROVE  TreeHolds(pc', tree', keys', elm', parent', sweep')
<1>1. /\ pc = "idle" /\ sweep = NoSweep /\ sweep' = sweep
      /\ MapTree!Find(tree, key) # NULL
      /\ MapTree!RemoveElement(key)
  BY DEF MapTree!Remove
<1>2. MapTree!SearchEnd(tree, key) = key
  BY <1>1 DEF MapTree!Find
<1>3. PICK S : Shape(tree, keys, S)
  BY DEF TreeHolds
<1>4. DOMAIN tree.at = keys
  BY DEF TreeHolds, IsTree
<1>5. key \in Nat /\ key # NULL
  BY KeysFacts
<1>6. /\ tree.root = NULL => MapTree!SearchEnd(tree, key) = NULL
      /\ tree.root # NULL =>
           SearchFrom(tree, keys, S, key, tree.root,
                      MapTree!SearchEnd(tree, key))
  BY <1>3, <1>4, <1>5, SearchFacts
<1>7. tree.root # NULL /\ SearchFrom(tree, keys, S, key, tree.root, key)
  BY <1>2, <1>5, <1>6
<1>8. key \in S[tree.root] /\ tree.root \in keys
  BY <1>3, <1>7 DEF SearchFrom, Shape, Links
<1>9. key \in keys
  BY <1>3, <1>8, SubMember
<1> QED
  BY <1>1, <1>9, RemoveElementStep

\* The head of an iteration: the sibling is black afterwards.
LEMMA RemoveHead ==
  ASSUME TreeHolds(pc, tree, keys, elm, parent, sweep),
         pc = "remove_color", MapTree!ShortOfBlack,
         NEW st, st = MapTree!Straight, NEW side, side = MapTree!Side,
         NEW sib, sib = MapTree!Sibling
  PROVE  /\ Leveled(st, keys, elm, parent, side)
         /\ \E R : Shape(st, keys, R)
         /\ sib = Kid(st, parent, Opp(side))
         /\ MapTree!Near = Kid(st, sib, side)
         /\ MapTree!Far = Kid(st, sib, Opp(side))
<1>1. PICK t : t = tree
  OBVIOUS
<1>2. PICK D : D = keys
  OBVIOUS
<1>3. PICK e : e = elm
  OBVIOUS
<1>4. PICK p : p = parent
  OBVIOUS
<1>5. PICK tmp : tmp = Kid(t, p, Opp(side))
  OBVIOUS
<1>6. PICK S : Shape(t, D, S)
  BY <1>1, <1>2 DEF TreeHolds
<1>7. IsTree(t, D) /\ Removing(t, D, e, p)
  BY <1>1, <1>2, <1>3, <1>4 DEF TreeHolds
<1>8. ~ Red(t, e) /\ e # t.root
  BY <1>1, <1>3 DEF MapTree!ShortOfBlack, Red
<1>9. side = SideIn(t, p, e)
  BY <1>1, <1>3, <1>4 DEF MapTree!Side, SideIn
<1>10. st = IF Red(t, tmp)
              THEN MapTree!Rotate(MapTree!SetBlackRed(t, tmp, p), p, side)
              ELSE t
  <2>1. /\ MapTree!SideOf(tree, parent, elm) = side
        /\ tree.at[parent][MapTree!Other(side)] = tmp
    BY <1>1, <1>3, <1>4, <1>5, <1>9 DEF SideIn, Kid, Opp
  <2> QED
    BY <1>1, <1>4, <2>1 DEF MapTree!Straight, Red
<1>11. Leveled(st, D, e, p, side) /\ \E R : Shape(st, D, R)
  BY <1>5, <1>6, <1>7, <1>8, <1>9, <1>10, RemoveStraight
<1>12. sib = Kid(st, parent, Opp(side))
  BY DEF MapTree!Sibling, Kid, Opp
<1>13. MapTree!Near = Kid(st, sib, side)
  BY DEF MapTree!Near, Kid
<1>14. MapTree!Far = Kid(st, sib, Opp(side))
  BY DEF MapTree!Far, Kid, Opp
<1> QED
  BY <1>2, <1>3, <1>4, <1>11, <1>12, <1>13, <1>14

LEMMA RemoveRecolorStep ==
  ASSUME TreeHolds(pc, tree, keys, elm, parent, sweep),
         MapTree!RemoveRecolor
  PROVE  TreeHolds(pc', tree', keys', elm', parent', sweep')
<1>1. PICK st : st = MapTree!Straight
  OBVIOUS
<1>2. PICK side : side = MapTree!Side
  OBVIOUS
<1>3. PICK sib : sib = MapTree!Sibling
  OBVIOUS
<1>4. PICK D : D = keys
  OBVIOUS
<1>5. PICK p : p = parent
  OBVIOUS
<1>6. PICK r : r = tree'
  OBVIOUS
<1>7. pc = "remove_color" /\ MapTree!ShortOfBlack
  BY DEF MapTree!RemoveRecolor
<1>8. /\ Leveled(st, D, elm, p, side)
      /\ \E R : Shape(st, D, R)
      /\ sib = Kid(st, p, Opp(side))
      /\ MapTree!Near = Kid(st, sib, side)
      /\ MapTree!Far = Kid(st, sib, Opp(side))
  BY <1>1, <1>2, <1>3, <1>4, <1>5, <1>7, RemoveHead
<1>9. ~ Red(st, Kid(st, sib, side)) /\ ~ Red(st, Kid(st, sib, Opp(side)))
  BY <1>1, <1>8 DEF MapTree!RemoveRecolor, Red
<1>10. /\ r = MapTree!Color(st, sib, "red") /\ elm' = p
       /\ parent' = Up(st, p)
       /\ pc' = pc /\ sweep' = sweep /\ keys' = keys
  BY <1>1, <1>3, <1>5, <1>6 DEF MapTree!RemoveRecolor, Up
<1>11. PICK q : q = Up(st, p)
  OBVIOUS
<1>12. PICK e : e = elm
  OBVIOUS
<1>13. PICK R : Shape(st, D, R)
  BY <1>8
<1>14. Leveled(st, D, e, p, side)
  BY <1>8, <1>12
<1>15. sib = Kid(st, p, Opp(side)) /\ r = MapTree!Color(st, sib, "red")
  BY <1>8, <1>10
<1>16. SameLinks(r, st, D) /\ Removing(r, D, p, q)
  BY <1>9, <1>11, <1>13, <1>14, <1>15, RemoveRecoloured
<1>17. IsTree(r, D) /\ Shape(r, D, R)
  BY <1>13, <1>16, SameLinksShape DEF SameLinks
<1>18. TreeHolds("remove_color", r, D, p, q, sweep)
  BY <1>4, <1>16, <1>17 DEF TreeHolds
<1> QED
  BY <1>4, <1>6, <1>7, <1>10, <1>11, <1>18

\* The end of RemoveRotate, after the rotation of the sibling.
Closed(v, p, side) ==
  LET tmp == v.at[p][MapTree!Other(side)]
      passed == MapTree!Color(MapTree!Color(v, tmp, v.at[p].color),
                              p, "black")
  IN  MapTree!Rotate(
        MapTree!ColorIfAny(passed, passed.at[tmp][MapTree!Other(side)],
                           "black"),
        p, side)

LEMMA RemoveRotateIs ==
  ASSUME MapTree!RemoveRotate,
         NEW st, st = MapTree!Straight, NEW side, side = MapTree!Side,
         NEW sib, sib = MapTree!Sibling,
         NEW near, near = MapTree!Near, NEW far, far = MapTree!Far,
         NEW v, v = IF Red(st, far) THEN st
                    ELSE MapTree!Rotate(
                           MapTree!Color(MapTree!Color(st, near, "black"),
                                         sib, "red"),
                           sib, Opp(side)),
         NEW tmp, tmp = Kid(v, parent, Opp(side)),
         NEW passed,
         passed = MapTree!Color(MapTree!Color(v, tmp, v.at[parent].color),
                                parent, "black")
  PROVE  /\ pc = "remove_color" /\ MapTree!ShortOfBlack
         /\ Red(st, near) \/ Red(st, far)
         /\ tree' = MapTree!Rotate(
                      MapTree!ColorIfAny(passed, Kid(passed, tmp, Opp(side)),
                                         "black"),
                      parent, side)
         /\ elm' = tree'.root /\ parent' = NULL
         /\ pc' = pc /\ sweep' = sweep /\ keys' = keys
<1>1. /\ pc = "remove_color" /\ MapTree!ShortOfBlack /\ parent' = NULL
      /\ pc' = pc /\ sweep' = sweep /\ keys' = keys
  BY Zenon DEF MapTree!RemoveRotate
<1>2. Red(st, near) \/ Red(st, far)
  BY Zenon DEF MapTree!RemoveRotate, Red
<1>3. v = IF MapTree!IsRed(st, far) THEN st
          ELSE MapTree!Rotate(
                 MapTree!Color(MapTree!Color(st, near, "black"), sib, "red"),
                 sib, MapTree!Other(side))
  BY DEF Red, Opp
<1>4. tree' = MapTree!Rotate(
                MapTree!ColorIfAny(passed, Kid(passed, tmp, Opp(side)),
                                   "black"),
                parent, side)
  <2>1. tree' = Closed(IF MapTree!IsRed(MapTree!Straight, MapTree!Far)
                         THEN MapTree!Straight
                         ELSE MapTree!Rotate(
                                MapTree!Color(
                                  MapTree!Color(MapTree!Straight,
                                                MapTree!Near, "black"),
                                  MapTree!Sibling, "red"),
                                MapTree!Sibling, MapTree!Other(MapTree!Side)),
                       parent, MapTree!Side)
    BY Zenon DEF MapTree!RemoveRotate, Closed
  <2>2. tree' = Closed(v, parent, side)
    BY <1>3, <2>1
  <2>3. Closed(v, parent, side) =
          MapTree!Rotate(
            MapTree!ColorIfAny(passed, Kid(passed, tmp, Opp(side)), "black"),
            parent, side)
    BY DEF Closed, Kid, Opp
  <2> QED
    BY <2>2, <2>3
<1>5. elm' = tree'.root
  BY Zenon DEF MapTree!RemoveRotate
<1> QED
  BY <1>1, <1>2, <1>4, <1>5

LEMMA RemoveRotateStep ==
  ASSUME TreeHolds(pc, tree, keys, elm, parent, sweep),
         MapTree!RemoveRotate
  PROVE  TreeHolds(pc', tree', keys', elm', parent', sweep')
<1>1. PICK st : st = MapTree!Straight
  OBVIOUS
<1>2. PICK side : side = MapTree!Side
  OBVIOUS
<1>3. PICK sib : sib = MapTree!Sibling
  OBVIOUS
<1>4. PICK near : near = MapTree!Near
  OBVIOUS
<1>5. PICK far : far = MapTree!Far
  OBVIOUS
<1>6. PICK D : D = keys
  OBVIOUS
<1>7. PICK p : p = parent
  OBVIOUS
<1>8. PICK e : e = elm
  OBVIOUS
<1>9. PICK r : r = tree'
  OBVIOUS
<1>10. PICK v : v = IF Red(st, far) THEN st
                    ELSE MapTree!Rotate(
                           MapTree!Color(MapTree!Color(st, near, "black"),
                                         sib, "red"),
                           sib, Opp(side))
  OBVIOUS
<1>11. PICK tmp : tmp = Kid(v, p, Opp(side))
  OBVIOUS
<1>12. PICK passed :
         passed = MapTree!Color(MapTree!Color(v, tmp, v.at[p].color),
                                p, "black")
  OBVIOUS
<1>13. /\ pc = "remove_color" /\ MapTree!ShortOfBlack
       /\ Red(st, near) \/ Red(st, far)
       /\ r = MapTree!Rotate(
                MapTree!ColorIfAny(passed, Kid(passed, tmp, Opp(side)),
                                   "black"),
                p, side)
       /\ elm' = r.root /\ parent' = NULL
       /\ pc' = pc /\ sweep' = sweep /\ keys' = keys
  BY <1>1, <1>2, <1>3, <1>4, <1>5, <1>7, <1>9, <1>10, <1>11, <1>12,
     RemoveRotateIs
<1>14. /\ Leveled(st, D, e, p, side)
       /\ \E R : Shape(st, D, R)
       /\ sib = Kid(st, p, Opp(side))
       /\ near = Kid(st, sib, side)
       /\ far = Kid(st, sib, Opp(side))
  BY <1>1, <1>2, <1>3, <1>4, <1>5, <1>6, <1>7, <1>8, <1>13, RemoveHead
<1>15. PICK R : Shape(st, D, R)
  BY <1>14
<1>16. /\ Leveled(v, D, e, p, side)
       /\ \E Q : Shape(v, D, Q)
       /\ Red(v, Kid(v, tmp, Opp(side)))
  <2>1. CASE Red(st, far)
    BY <1>10, <1>11, <1>14, <2>1
  <2>2. CASE ~ Red(st, far)
    <3>1. v = MapTree!Rotate(
                MapTree!Color(MapTree!Color(st, near, "black"), sib, "red"),
                sib, Opp(side))
      BY <1>10, <2>2
    <3>2. Red(st, near)
      BY <1>13, <2>2
    <3>3. /\ Leveled(v, D, e, p, side)
          /\ \E Q : Shape(v, D, Q)
          /\ Red(v, Kid(v, Kid(v, p, Opp(side)), Opp(side)))
      BY <1>14, <1>15, <2>2, <3>1, <3>2, RemoveAside
    <3> QED
      BY <1>11, <3>3
  <2> QED
    BY <2>1, <2>2
<1>17. PICK Q : Shape(v, D, Q)
  BY <1>16
<1>18. PICK end : end = Kid(v, tmp, Opp(side))
  OBVIOUS
<1>19. Red(v, end) /\ Leveled(v, D, e, p, side)
  BY <1>16, <1>18
<1>20. r = MapTree!Rotate(
             MapTree!ColorIfAny(passed, Kid(passed, tmp, Opp(side)),
                                "black"),
             p, side)
  BY <1>13
<1>21. IsTree(r, D) /\ (\E W : Shape(r, D, W)) /\ AtRest(r, D)
  BY <1>11, <1>12, <1>17, <1>18, <1>19, <1>20, RemoveRotated
<1>22. NULL \notin D
  BY <1>15 DEF Shape
<1>23. Removing(r, D, r.root, NULL)
  BY <1>21, <1>22, RestRemoving
<1>24. TreeHolds("remove_color", r, D, r.root, NULL, sweep)
  BY <1>6, <1>21, <1>23 DEF TreeHolds
<1> QED
  BY <1>6, <1>9, <1>13, <1>24

LEMMA RemoveDoneStep ==
  ASSUME TreeHolds(pc, tree, keys, elm, parent, sweep),
         MapTree!RemoveDone
  PROVE  TreeHolds(pc', tree', keys', elm', parent', sweep')
<1>1. PICK t : t = tree
  OBVIOUS
<1>2. PICK D : D = keys
  OBVIOUS
<1>3. PICK e : e = elm
  OBVIOUS
<1>4. PICK p : p = parent
  OBVIOUS
<1>5. PICK r : r = tree'
  OBVIOUS
<1>6. /\ pc = "remove_color" /\ (Red(t, e) \/ e = t.root)
      /\ r = MapTree!ColorIfAny(t, e, "black")
      /\ pc' = "idle" /\ sweep' = sweep /\ keys' = keys
  BY <1>1, <1>3, <1>5 DEF MapTree!RemoveDone, MapTree!ShortOfBlack, Red
<1>7. PICK S : Shape(t, D, S)
  BY <1>1, <1>2 DEF TreeHolds
<1>8. /\ IsTree(t, D) /\ Removing(t, D, e, p)
      /\ \A n \in D : n \in Keys
      /\ sweep = NoSweep \/ sweep = MapTree!LeastOf(D)
  BY <1>1, <1>2, <1>3, <1>4, <1>6 DEF TreeHolds
<1>9. SameLinks(r, t, D) /\ AtRest(r, D)
  BY <1>6, <1>7, <1>8, RemoveEnded
<1>10. IsTree(r, D) /\ Shape(r, D, S)
  BY <1>7, <1>9, SameLinksShape DEF SameLinks
<1>11. TreeHolds("idle", r, D, elm', parent', sweep)
  BY <1>8, <1>9, <1>10 DEF TreeHolds
<1> QED
  BY <1>2, <1>5, <1>6, <1>11

\* The loops that empty the tree.
LEMMA LeastLeaves ==
  ASSUME NEW D, \A n \in D : n \in Nat, NEW s, s = MapTree!LeastOf(D),
         s # NULL
  PROVE  s \in D /\ {m \in D : m > s} = D \ {s}
<1>1. D # {}
  BY LeastOfFacts
<1>2. PICK n \in D : \A m \in D : n <= m
  <2>1. D \in SUBSET Nat
    OBVIOUS
  <2> QED
    BY <1>1, <2>1, LeastNat
<1>3. s = n
  BY <1>2, LeastOfFacts
<1>4. \A m \in D : m > s <=> m # s
  BY <1>2, <1>3
<1> QED
  BY <1>3, <1>4

LEMMA SweepBeginStep ==
  ASSUME TreeHolds(pc, tree, keys, elm, parent, sweep),
         MapTree!SweepBegin
  PROVE  TreeHolds(pc', tree', keys', elm', parent', sweep')
<1>1. /\ sweep' = MapTree!MinMax(tree, "left")
      /\ pc' = pc /\ tree' = tree /\ elm' = elm /\ parent' = parent
      /\ keys' = keys
  BY DEF MapTree!SweepBegin
<1>2. PICK S : Shape(tree, keys, S)
  BY DEF TreeHolds
<1>3. DOMAIN tree.at = keys
  BY DEF TreeHolds, IsTree
<1>4. sweep' = MapTree!LeastOf(keys)
  BY <1>1, <1>2, <1>3, MinIsLeast
<1>5. TreeHolds(pc, tree, keys, elm, parent, sweep')
  BY <1>4 DEF TreeHolds
<1> QED
  BY <1>1, <1>5

LEMMA SweepStepStep ==
  ASSUME TreeHolds(pc, tree, keys, elm, parent, sweep),
         MapTree!SweepStep
  PROVE  TreeHolds(pc', tree', keys', elm', parent', sweep')
<1>1. /\ pc = "idle" /\ sweep \in Keys
      /\ sweep' = MapTree!Neighbour(tree, sweep, "right")
      /\ MapTree!RemoveElement(sweep)
  BY DEF MapTree!SweepStep
<1>2. PICK S : Shape(tree, keys, S)
  BY DEF TreeHolds
<1>3. DOMAIN tree.at = keys
  BY DEF TreeHolds, IsTree
<1>4. sweep = MapTree!LeastOf(keys) /\ sweep # NULL
  BY <1>1, KeysFacts DEF TreeHolds
<1>5. \A n \in keys : n \in Nat
  BY <1>2 DEF Shape
<1>6. sweep \in keys /\ {m \in keys : m > sweep} = keys \ {sweep}
  BY <1>4, <1>5, LeastLeaves
<1>7. sweep' = MapTree!LeastOf({m \in keys : m > sweep})
  <2>1. PICK n \in keys : n = sweep
    BY <1>6
  <2>2. MapTree!Neighbour(tree, n, "right") =
          MapTree!LeastOf({m \in keys : m > n})
    BY <1>2, <1>3, NextIsLeast
  <2> QED
    BY <1>1, <2>1, <2>2
<1>8. sweep' = MapTree!LeastOf(keys \ {sweep})
  BY <1>6, <1>7
<1> QED
  BY <1>1, <1>6, <1>8, RemoveElementStep

LEMMA SweepEndStep ==
  ASSUME TreeHolds(pc, tree, keys, elm, parent, sweep),
         MapTree!SweepEnd
  PROVE  TreeHolds(pc', tree', keys', elm', parent', sweep')
<1>1. /\ sweep' = NoSweep
      /\ pc' = pc /\ tree' = tree /\ elm' = elm /\ parent' = parent
      /\ keys' = keys
  BY DEF MapTree!SweepEnd
<1>2. TreeHolds(pc, tree, keys, elm, parent, sweep')
  BY <1>1 DEF TreeHolds
<1> QED
  BY <1>1, <1>2

LEMMA TreeInit ==
  ASSUME Init
  PROVE  TreeInv
<1> SUFFICES ASSUME part = "tree"
             PROVE  TreeHolds(pc, tree, keys, elm, parent, sweep)
  BY DEF TreeInv
<1>1. MapTree!Init
  BY DEF Init
<1>2. PICK t : t = tree
  OBVIOUS
<1>3. /\ pc = "idle" /\ t = [root |-> NULL, at |-> <<>>]
      /\ sweep = NoSweep /\ keys = {}
  BY <1>1, <1>2 DEF MapTree!Init
<1>4. t.root = NULL /\ IsTree(t, {})
  <2>1. \A F : <<>> \in [{} -> F]
    OBVIOUS
  <2>2. <<>> \in [{} -> Node({})] /\ NULL \in Links({})
    BY <2>1 DEF Links
  <2> QED
    BY <1>3, <2>2 DEF IsTree
<1>5. Shape(t, {}, [n \in {} |-> {}])
  <2>1. IsFiniteSet({})
    BY FS_EmptySet
  <2> QED
    BY <1>4, <2>1 DEF Shape, Links
<1>6. AtRest(t, {})
  <2>1. ~ Red(t, t.root)
    BY <1>4, NoRed
  <2>2. Heights(t, {}, [n \in {} |-> 0], NULL, "left")
    BY DEF Heights
  <2> QED
    BY <2>1, <2>2 DEF AtRest
<1>7. \E S : Shape(t, {}, S)
  BY <1>5
<1>8. TreeHolds("idle", t, {}, elm, parent, NoSweep)
  BY <1>4, <1>6, <1>7 DEF TreeHolds
<1> QED
  BY <1>2, <1>3, <1>8

LEMMA TreeStep ==
  ASSUME TreeInv, [Next]_vars
  PROVE  TreeInv'
<1> SUFFICES ASSUME part' = "tree"
             PROVE  TreeHolds(pc', tree', keys', elm', parent', sweep')
  BY DEF TreeInv
<1>1. part = "tree" /\ (MapTree!Next \/ UNCHANGED <<pc, treeVars>>)
  <2>1. CASE Next
    BY <2>1 DEF Next
  <2>2. CASE UNCHANGED vars
    BY <2>2 DEF vars
  <2> QED
    BY <2>1, <2>2
<1>2. TreeHolds(pc, tree, keys, elm, parent, sweep)
  BY <1>1 DEF TreeInv
<1>3. CASE UNCHANGED <<pc, treeVars>>
  <2>1. /\ pc' = pc /\ tree' = tree /\ keys' = keys /\ elm' = elm
        /\ parent' = parent /\ sweep' = sweep
    BY <1>3 DEF treeVars
  <2> QED
    BY <1>2, <2>1
<1>4. CASE MapTree!Next
  <2>1. CASE \E key \in Keys : MapTree!Insert(key) \/ MapTree!Remove(key)
    BY <1>2, <2>1, InsertStep, RemoveStep
  <2>2. CASE MapTree!InsertRecolor
    BY <1>2, <2>2, InsertRecolorStep
  <2>3. CASE MapTree!InsertRotate
    BY <1>2, <2>3, InsertRotateStep
  <2>4. CASE MapTree!InsertDone
    BY <1>2, <2>4, InsertDoneStep
  <2>5. CASE MapTree!RemoveRecolor
    BY <1>2, <2>5, RemoveRecolorStep
  <2>6. CASE MapTree!RemoveRotate
    BY <1>2, <2>6, RemoveRotateStep
  <2>7. CASE MapTree!RemoveDone
    BY <1>2, <2>7, RemoveDoneStep
  <2>8. CASE MapTree!SweepBegin
    BY <1>2, <2>8, SweepBeginStep
  <2>9. CASE MapTree!SweepStep
    BY <1>2, <2>9, SweepStepStep
  <2>10. CASE MapTree!SweepEnd
    BY <1>2, <2>10, SweepEndStep
  <2> QED
    BY <1>4, <2>1, <2>2, <2>3, <2>4, <2>5, <2>6, <2>7, <2>8, <2>9, <2>10
    DEF MapTree!Next
<1> QED
  BY <1>1, <1>3, <1>4

LEMMA TreeInvariant == Spec => []TreeInv
<1>1. Init => TreeInv
  BY TreeInit
<1>2. TreeInv /\ [Next]_vars => TreeInv'
  BY TreeStep
<1> QED
  BY <1>1, <1>2, PTL DEF Spec

-----------------------------------------------------------------------------
(* What the invariant says of the properties.                              *)

IsDepth(f) ==
  f = [m \in DOMAIN tree.at |->
         (IF tree.at[m].color = "black" THEN 1 ELSE 0)
           + (IF tree.at[m].parent = NULL THEN 0 ELSE f[tree.at[m].parent])]

LEMMA BlackDepthIs ==
  ASSUME NEW n
  PROVE  MapTree!BlackDepth(n) = (CHOOSE f : IsDepth(f))[n]
BY DEF MapTree!BlackDepth, IsDepth

\* What is black above an element and what is black below it add up to what
\* is black below the head.
LEMMA DepthFacts ==
  ASSUME NEW D, D = DOMAIN tree.at, NEW S, Shape(tree, D, S),
         IsTree(tree, D), ~ Red(tree, tree.root),
         NEW h, Heights(tree, D, h, NULL, "left")
  PROVE  \E k \in Nat : \A n \in D : MapTree!BlackDepth(n) = k - h[n]
<1>1. PICK k : k = Height(tree, h, tree.root)
  OBVIOUS
<1>2. /\ NULL \notin D /\ tree.root \in Links(D)
      /\ \A m \in D : NodeShape(tree, D, S, m)
      /\ \A m \in D : h[m] \in Nat
  BY DEF Shape, Heights
<1>3. k \in Nat
  BY <1>1, <1>2, HeightNat
<1>4. \A m \in D, s \in Sides : Height(tree, h, Kid(tree, m, s)) = h[m]
  <2> TAKE m \in D, s \in Sides
  <2>1. Kid(tree, m, s) \in Links(D)
    BY <1>2 DEF NodeShape
  <2>2. Height(tree, h, Kid(tree, m, s)) \in Nat
    BY <2>1, HeightNat
  <2>3. Short(NULL, "left", m, s) = 0
    BY <1>2 DEF Short
  <2>4. Height(tree, h, Kid(tree, m, s)) + Short(NULL, "left", m, s) = h[m]
    BY DEF Heights
  <2> QED
    BY <2>2, <2>3, <2>4
<1>5. ASSUME NEW m \in D
      PROVE  /\ tree.at[m].color = "black" <=> ~ Red(tree, m)
             /\ Up(tree, m) = NULL => h[m] + 1 = k /\ ~ Red(tree, m)
             /\ Up(tree, m) # NULL =>
                  /\ Up(tree, m) \in D
                  /\ h[Up(tree, m)] = IF Red(tree, m) THEN h[m] ELSE h[m] + 1
  <2>1. tree.at[m].color = "black" <=> ~ Red(tree, m)
    BY <1>2, NotRed
  <2>2. ASSUME Up(tree, m) = NULL PROVE h[m] + 1 = k /\ ~ Red(tree, m)
    <3>1. m = tree.root /\ m # NULL
      BY <1>2, <2>2, UpFacts
    <3> QED
      BY <1>1, <3>1 DEF Height
  <2>3. ASSUME Up(tree, m) # NULL
        PROVE  /\ Up(tree, m) \in D
               /\ h[Up(tree, m)] = IF Red(tree, m) THEN h[m] ELSE h[m] + 1
    <3>1. PICK p : p = Up(tree, m)
      OBVIOUS
    <3>2. p \in D
      BY <2>3, <3>1, UpFacts
    <3>3. PICK s \in Sides : Kid(tree, p, s) = m
      BY <2>3, <3>1, UpFacts
    <3>4. Height(tree, h, m) = h[p]
      BY <1>4, <3>2, <3>3
    <3>5. m # NULL
      BY <1>2
    <3> QED
      BY <3>1, <3>2, <3>4, <3>5 DEF Height
  <2> QED
    BY <2>1, <2>2, <2>3
<1>6. PICK g : g = [m \in D |-> k - h[m]]
  OBVIOUS
<1>7. \A m \in D : g[m] = k - h[m]
  BY <1>6
<1>8. IsDepth(g)
  <2>1. ASSUME NEW m \in D
        PROVE  g[m] = (IF tree.at[m].color = "black" THEN 1 ELSE 0)
                        + (IF tree.at[m].parent = NULL THEN 0
                                                ELSE g[tree.at[m].parent])
    <3>1. PICK p : p = Up(tree, m)
      OBVIOUS
    <3>2. tree.at[m].parent = p
      BY <3>1 DEF Up
    <3>3. CASE p = NULL
      <4>1. /\ h[m] + 1 = k /\ h[m] \in Nat /\ g[m] = k - h[m]
            /\ tree.at[m].color = "black"
        BY <1>2, <1>5, <1>7, <3>1, <3>3
      <4> QED
        BY <1>3, <3>2, <3>3, <4>1
    <3>4. CASE p # NULL
      <4>1. g[p] = k - h[p] /\ h[p] \in Nat /\ h[m] \in Nat
            /\ g[m] = k - h[m]
            /\ h[p] = IF Red(tree, m) THEN h[m] ELSE h[m] + 1
        BY <1>2, <1>5, <1>7, <3>1, <3>4
      <4> QED
        BY <1>3, <1>5, <3>2, <3>4, <4>1
    <3> QED
      BY <3>3, <3>4
  <2>2. g = [m \in D |-> g[m]]
    BY <1>6
  <2> QED
    BY <2>1, <2>2 DEF IsDepth
<1>9. PICK f : f = CHOOSE x : IsDepth(x)
  OBVIOUS
<1>10. IsDepth(f)
  BY <1>8, <1>9
<1>11. \A m \in D : f[m] = (IF Red(tree, m) THEN 0 ELSE 1)
                             + (IF Up(tree, m) = NULL THEN 0
                                                    ELSE f[Up(tree, m)])
  BY <1>5, <1>10 DEF IsDepth, Up
<1> DEFINE T == {m \in D : f[m] # k - h[m]}
<1>12. ASSUME NEW m \in T PROVE Up(tree, m) \in T
  <2>1. PICK p : p = Up(tree, m)
    OBVIOUS
  <2>2. m \in D /\ f[m] # k - h[m] /\ h[m] \in Nat
    BY <1>2
  <2>3. f[m] = (IF Red(tree, m) THEN 0 ELSE 1)
                 + (IF p = NULL THEN 0 ELSE f[p])
    BY <1>11, <2>1, <2>2
  <2>4. p # NULL
    <3> SUFFICES ASSUME p = NULL PROVE FALSE
      OBVIOUS
    <3>1. h[m] + 1 = k /\ ~ Red(tree, m)
      BY <1>5, <2>1, <2>2
    <3> QED
      BY <2>2, <2>3, <3>1
  <2>5. /\ p \in D /\ h[p] \in Nat
        /\ h[p] = IF Red(tree, m) THEN h[m] ELSE h[m] + 1
    BY <1>2, <1>5, <2>1, <2>2, <2>4
  <2>6. f[p] # k - h[p]
    BY <1>3, <2>2, <2>3, <2>4, <2>5
  <2> QED
    BY <2>1, <2>5, <2>6
<1>13. T = {}
  <2>1. T \in SUBSET D
    OBVIOUS
  <2> HIDE DEF T
  <2> QED
    BY <1>12, <2>1, Upward
<1>14. \A n \in D : MapTree!BlackDepth(n) = k - h[n]
  BY <1>9, <1>13, BlackDepthIs
<1> QED
  BY <1>3, <1>14

LEMMA RestBalanced ==
  ASSUME IsTree(tree, keys), NEW S, Shape(tree, keys, S), AtRest(tree, keys)
  PROVE  MapTree!Balanced
<1>1. ~ MapTree!IsRed(tree, tree.root)
  BY DEF AtRest, Red
<1>2. \A n \in keys : MapTree!IsRed(tree, n) =>
                        ~ MapTree!IsRed(tree, tree.at[n].parent)
  BY DEF AtRest, RedPair, Red, Up
<1>3. DOMAIN tree.at = keys /\ NULL \notin keys
  BY DEF IsTree, Shape
<1>4. PICK h : Heights(tree, keys, h, NULL, "left")
  BY DEF AtRest
<1>5. ~ Red(tree, tree.root)
  BY DEF AtRest
<1>6. PICK k \in Nat : \A n \in keys : MapTree!BlackDepth(n) = k - h[n]
  BY <1>3, <1>4, <1>5, DepthFacts
<1>7. ASSUME NEW n \in keys, NULL \in {tree.at[n].left, tree.at[n].right}
      PROVE  h[n] = 0
  <2>1. PICK s \in Sides : Kid(tree, n, s) = NULL
    BY <1>7 DEF Sides, Kid
  <2>2. Height(tree, h, Kid(tree, n, s)) + Short(NULL, "left", n, s) = h[n]
    BY <1>4 DEF Heights
  <2>3. Height(tree, h, Kid(tree, n, s)) = 0 /\ Short(NULL, "left", n, s) = 0
    BY <1>3, <2>1 DEF Height, Short
  <2> QED
    BY <2>2, <2>3
<1>8. \A m, n \in {n \in keys : NULL \in {tree.at[n].left, tree.at[n].right}} :
        MapTree!BlackDepth(m) = MapTree!BlackDepth(n)
  BY <1>6, <1>7
<1> QED
  BY <1>1, <1>2, <1>8 DEF MapTree!Balanced

\* At every step of RB_INSERT and RB_REMOVE and of the loops after them
\* (tree.h:409-626) the tree is a search tree of the keys inserted and not
\* removed, and between operations it is balanced.
THEOREM AlwaysRedBlackTree == Spec => []RedBlackTree
<1>1. TreeInv => RedBlackTree
  <2> SUFFICES ASSUME TreeInv, part = "tree"
               PROVE  MapTree!SearchTree /\ MapTree!Balanced
    BY DEF RedBlackTree
  <2>1. TreeHolds(pc, tree, keys, elm, parent, sweep)
    BY DEF TreeInv
  <2>2. PICK S : Shape(tree, keys, S)
    BY <2>1 DEF TreeHolds
  <2>3. IsTree(tree, keys) /\ DOMAIN tree.at = keys
    BY <2>1 DEF TreeHolds, IsTree
  <2>4. MapTree!SearchTree
    BY <2>2, <2>3, ShapeSearchTree
  <2>5. MapTree!Balanced
    <3>1. CASE pc = "idle"
      BY <2>1, <2>2, <2>3, <3>1, RestBalanced DEF TreeHolds
    <3>2. CASE pc # "idle"
      BY <3>2 DEF MapTree!Balanced
    <3> QED
      BY <3>1, <3>2
  <2> QED
    BY <2>4, <2>5
<1> QED
  BY <1>1, TreeInvariant, PTL

\* RB_FOREACH and RB_FOREACH_SAFE (tree.h:738, tree.h:748) visit the elements
\* in order and miss none, also when the body removes each one.
THEOREM AlwaysWalksInOrder == Spec => []WalksInOrder
<1>1. TreeInv => WalksInOrder
  <2> SUFFICES ASSUME TreeInv, part = "tree" PROVE MapTree!WalksInOrder
    BY DEF WalksInOrder
  <2>1. TreeHolds(pc, tree, keys, elm, parent, sweep)
    BY DEF TreeInv
  <2>2. PICK S : Shape(tree, keys, S)
    BY <2>1 DEF TreeHolds
  <2>3. DOMAIN tree.at = keys
    BY <2>1 DEF TreeHolds, IsTree
  <2>4. \A n \in keys : MapTree!Neighbour(tree, n, "right") =
                          MapTree!LeastOf({m \in keys : m > n})
    BY <2>2, <2>3, NextIsLeast
  <2>5. sweep # NoSweep => sweep = MapTree!LeastOf(keys)
    BY <2>1 DEF TreeHolds
  <2> QED
    BY <2>4, <2>5 DEF MapTree!WalksInOrder
<1> QED
  BY <1>1, TreeInvariant, PTL
=============================================================================
