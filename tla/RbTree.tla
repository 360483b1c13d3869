------------------------------- MODULE RbTree -------------------------------
(***************************************************************************)
(* The red-black tree of tree.h, in which xh_core.c keeps the libraries it *)
(* tracks: insertion and removal with their rebalancing loops, one step an *)
(* iteration, look-up, the neighbours of an element, and the loop that     *)
(* removes every element while it walks the tree.                          *)
(*                                                                         *)
(* An element is identified with its key.  It has links while it is in the *)
(* tree; xh_core.c frees it afterwards, or inserts it into another tree,   *)
(* and RB_SET resets its links.  Operations on the left and on the right   *)
(* mirror each other and take the side as a parameter.                     *)
(***************************************************************************)
EXTENDS Naturals, FiniteSets, FiniteSetsExt

CONSTANTS Keys,  \* what cmp orders, as numbers
          NULL,
          NoSweep

TreeAssumption ==
  Keys \subseteq Nat /\ NULL \notin Keys /\ NoSweep \notin Keys \cup {NULL}

VARIABLES pc,
          tree,    \* root, and the links and colour of each element
          elm,     \* element a rebalancing loop is at
          parent,  \* its parent, for the loop after a removal
          sweep,   \* next element of the removing walk, if there is one
          keys     \* history: the keys inserted and not removed

vars == <<pc, tree, elm, parent, sweep, keys>>

Init ==
  /\ pc = "idle"
  /\ tree = [root |-> NULL, at |-> <<>>]
  /\ elm = NULL /\ parent = NULL
  /\ sweep = NoSweep
  /\ keys = {}

-----------------------------------------------------------------------------
(* Links.                                                                  *)

Other(side) == IF side = "left" THEN "right" ELSE "left"

\* The side of its parent an element is on; right if it is not the left one.
SideOf(t, up, n) == IF t.at[up].left = n THEN "left" ELSE "right"

IsRed(t, n) == n # NULL /\ t.at[n].color = "red"

Color(t, n, c) == [t EXCEPT !.at[n].color = c]

ColorIfAny(t, n, c) == IF n = NULL THEN t ELSE Color(t, n, c)

\* RB_SET_BLACKRED
SetBlackRed(t, black, red) == Color(Color(t, black, "black"), red, "red")

SetParent(t, n, up) == IF n = NULL THEN t ELSE [t EXCEPT !.at[n].parent = up]

SetChild(t, n, side, child) == [t EXCEPT !.at[n][side] = child]

\* up, or the head when there is no up, has new where it had old.
ReplaceChild(t, up, old, new) ==
  IF up = NULL
    THEN [t EXCEPT !.root = new]
    ELSE SetChild(t, up, SideOf(t, up, old), new)

\* Mutant: the inner subtree keeps its parent.
RotateParentKept(t, n, side) ==
  LET tmp == t.at[n][Other(side)]
      up == t.at[n].parent
      turned == SetChild(SetChild(t, n, Other(side), t.at[tmp][side]),
                         tmp, side, n)
  IN  ReplaceChild(SetParent(SetParent(turned, n, tmp), tmp, up), up, n, tmp)

\* RB_ROTATE_LEFT and RB_ROTATE_RIGHT: the child on the other side goes up.
Rotate(t, n, side) ==
  LET tmp == t.at[n][Other(side)]
      inner == t.at[tmp][side]
      up == t.at[n].parent
      turned == SetChild(SetChild(t, n, Other(side), inner), tmp, side, n)
      raised == SetParent(SetParent(turned, n, tmp), tmp, up)
  IN  ReplaceChild(SetParent(raised, inner, n), up, n, tmp)

-----------------------------------------------------------------------------
(* Walks down and up.                                                      *)

\* The element where a search for key ends: the one that has it, or the one
\* it would be a child of.
SearchEnd(t, key) ==
  LET down[n \in DOMAIN t.at] ==
        LET child == IF key < n THEN t.at[n].left ELSE t.at[n].right
        IN  IF n = key \/ child = NULL THEN n ELSE down[child]
  IN  IF t.root = NULL THEN NULL ELSE down[t.root]

Find(t, key) == IF SearchEnd(t, key) = key THEN key ELSE NULL

\* The last element below n on one side.
Extreme(t, n, side) ==
  LET down[m \in DOMAIN t.at] ==
        IF t.at[m][side] = NULL THEN m ELSE down[t.at[m][side]]
  IN  down[n]

\* RB_MIN and RB_MAX
MinMax(t, side) == IF t.root = NULL THEN NULL ELSE Extreme(t, t.root, side)

\* Mutant: the walk up stops at the first parent.
NeighbourNoClimb(t, n, side) ==
  IF t.at[n][side] # NULL
    THEN Extreme(t, t.at[n][side], Other(side))
    ELSE t.at[n].parent

\* RB_NEXT, with side "right".
Neighbour(t, n, side) ==
  LET up[m \in DOMAIN t.at] ==
        LET p == t.at[m].parent
        IN  IF p = NULL \/ t.at[p][side] # m THEN p ELSE up[p]
  IN  IF t.at[n][side] # NULL
        THEN Extreme(t, t.at[n][side], Other(side))
        ELSE up[n]

-----------------------------------------------------------------------------
(* RB_INSERT.  A key that is there is returned and nothing changes.        *)

Insert(key) ==
  /\ pc = "idle" /\ sweep = NoSweep
  /\ Find(tree, key) = NULL
  /\ LET up == SearchEnd(tree, key)
         new == [left |-> NULL, right |-> NULL, parent |-> up, color |-> "red"]
         set == [tree EXCEPT !.at = [n \in DOMAIN @ \cup {key} |->
                                       IF n = key THEN new ELSE @[n]]]
     IN  tree' = CASE up = NULL -> [set EXCEPT !.root = key]
                   [] up # NULL /\ key < up -> [set EXCEPT !.at[up].left = key]
                   [] OTHER -> [set EXCEPT !.at[up].right = key]
  /\ elm' = key
  /\ pc' = "insert_color"
  /\ keys' = keys \cup {key}
  /\ UNCHANGED <<parent, sweep>>

\* RB_INSERT_COLOR goes on while the parent of elm is red.
RedParent == IsRed(tree, tree.at[elm].parent)

\* A red uncle: the colours are moved up, and the loop goes on from there.
InsertRecolor ==
  /\ pc = "insert_color" /\ RedParent
  /\ LET up == tree.at[elm].parent
         gparent == tree.at[up].parent
         uncle == tree.at[gparent][Other(SideOf(tree, gparent, up))]
     IN  /\ IsRed(tree, uncle)
         /\ tree' = SetBlackRed(Color(tree, uncle, "black"), up, gparent)
         /\ elm' = gparent
  /\ UNCHANGED <<pc, parent, sweep, keys>>

\* A black uncle: one rotation or two.
InsertRotate ==
  /\ pc = "insert_color" /\ RedParent
  /\ LET up == tree.at[elm].parent
         gparent == tree.at[up].parent
         side == SideOf(tree, gparent, up)
         inner == tree.at[up][Other(side)] = elm
         straight == IF inner THEN Rotate(tree, up, side) ELSE tree
         top == IF inner THEN elm ELSE up
     IN  /\ ~ IsRed(tree, tree.at[gparent][Other(side)])
         /\ tree' = Rotate(SetBlackRed(straight, top, gparent),
                           gparent, Other(side))
         /\ elm' = IF inner THEN up ELSE elm
  /\ UNCHANGED <<pc, parent, sweep, keys>>

\* Mutant: the root may stay red.
InsertDoneRedRoot ==
  /\ pc = "insert_color" /\ ~ RedParent
  /\ elm' = NULL
  /\ pc' = "idle"
  /\ UNCHANGED <<tree, parent, sweep, keys>>

InsertDone ==
  /\ pc = "insert_color" /\ ~ RedParent
  /\ tree' = Color(tree, tree.root, "black")
  /\ elm' = NULL
  /\ pc' = "idle"
  /\ UNCHANGED <<parent, sweep, keys>>

-----------------------------------------------------------------------------
(* RB_REMOVE                                                               *)

Unlink(t, n) == [t EXCEPT !.at = [m \in DOMAIN @ \ {n} |-> @[m]]]

\* Element n, which has at most one child, leaves; its child takes its place.
Splice(t, n) ==
  LET child == IF t.at[n].left = NULL THEN t.at[n].right ELSE t.at[n].left
      up == t.at[n].parent
  IN  ReplaceChild(SetParent(t, child, up), up, n, child)

\* Element n takes the place of old: its links, its colour, its neighbours.
TakePlace(t, n, old) ==
  LET place == t.at[old]
      moved == [t EXCEPT !.at[n] = place]
  IN  SetParent(SetParent(ReplaceChild(moved, place.parent, old, n),
                          place.left, n),
                place.right, n)

\* Element key is removed, and elm, parent and pc are set for the loop that
\* follows if the colour that has left is black.
RemoveElement(key) ==
  LET at == tree.at[key]
      leaf == at.left = NULL \/ at.right = NULL
      out == IF leaf THEN key ELSE Extreme(tree, at.right, "left")
      child == IF tree.at[out].left = NULL THEN tree.at[out].right
                                           ELSE tree.at[out].left
      spliced == Splice(tree, out)
      whole == IF leaf THEN spliced ELSE TakePlace(spliced, out, key)
      black == tree.at[out].color = "black"
  IN  /\ tree' = Unlink(whole, key)
      /\ elm' = IF black THEN child ELSE NULL
      /\ parent' = CASE ~ black -> NULL
                     [] black /\ tree.at[out].parent = key /\ ~ leaf -> out
                     [] OTHER -> tree.at[out].parent
      /\ pc' = IF black THEN "remove_color" ELSE "idle"
      /\ keys' = keys \ {key}

Remove(key) ==
  /\ pc = "idle" /\ sweep = NoSweep
  /\ Find(tree, key) # NULL
  /\ RemoveElement(key)
  /\ UNCHANGED sweep

\* RB_REMOVE_COLOR goes on while elm is black and not the root.
ShortOfBlack == ~ IsRed(tree, elm) /\ elm # tree.root

\* The head of an iteration: a red sibling is rotated away.
Straight ==
  LET side == SideOf(tree, parent, elm)
      tmp == tree.at[parent][Other(side)]
  IN  IF IsRed(tree, tmp)
        THEN Rotate(SetBlackRed(tree, tmp, parent), parent, side)
        ELSE tree

\* The side elm is on, its sibling, and the sibling's children.
Side == SideOf(tree, parent, elm)
Sibling == Straight.at[parent][Other(Side)]
Near == Straight.at[Sibling][Side]
Far == Straight.at[Sibling][Other(Side)]

\* Mutant: the loop ends here.
RemoveRecolorOnce ==
  /\ pc = "remove_color" /\ ShortOfBlack
  /\ ~ IsRed(Straight, Near) /\ ~ IsRed(Straight, Far)
  /\ tree' = Color(Straight, Sibling, "red")
  /\ elm' = tree.root
  /\ parent' = NULL
  /\ UNCHANGED <<pc, sweep, keys>>

\* No red nephew: the parent's subtree becomes short as a whole.
RemoveRecolor ==
  /\ pc = "remove_color" /\ ShortOfBlack
  /\ ~ IsRed(Straight, Near) /\ ~ IsRed(Straight, Far)
  /\ tree' = Color(Straight, Sibling, "red")
  /\ elm' = parent
  /\ parent' = Straight.at[parent].parent
  /\ UNCHANGED <<pc, sweep, keys>>

\* A red nephew: one rotation or two, and the loop ends.
RemoveRotate ==
  /\ pc = "remove_color" /\ ShortOfBlack
  /\ IsRed(Straight, Near) \/ IsRed(Straight, Far)
  /\ LET aside == IF IsRed(Straight, Far)
                    THEN Straight
                    ELSE Rotate(Color(Color(Straight, Near, "black"),
                                      Sibling, "red"),
                                Sibling, Other(Side))
         tmp == aside.at[parent][Other(Side)]
         passed == Color(Color(aside, tmp, aside.at[parent].color),
                         parent, "black")
         turned == Rotate(ColorIfAny(passed, passed.at[tmp][Other(Side)],
                                     "black"),
                          parent, Side)
     IN  /\ tree' = turned
         /\ elm' = turned.root
  /\ parent' = NULL
  /\ UNCHANGED <<pc, sweep, keys>>

RemoveDone ==
  /\ pc = "remove_color" /\ ~ ShortOfBlack
  /\ tree' = ColorIfAny(tree, elm, "black")
  /\ elm' = NULL /\ parent' = NULL
  /\ pc' = "idle"
  /\ UNCHANGED <<sweep, keys>>

-----------------------------------------------------------------------------
(* The loops of xh_core.c that empty the tree: RB_FOREACH_SAFE reads the   *)
(* next element before the body removes and frees the current one.         *)

SweepBegin ==
  /\ pc = "idle" /\ sweep = NoSweep
  /\ sweep' = MinMax(tree, "left")
  /\ UNCHANGED <<pc, tree, elm, parent, keys>>

SweepStep ==
  /\ pc = "idle" /\ sweep \in Keys
  /\ sweep' = Neighbour(tree, sweep, "right")
  /\ RemoveElement(sweep)

SweepEnd ==
  /\ pc = "idle" /\ sweep = NULL
  /\ sweep' = NoSweep
  /\ UNCHANGED <<pc, tree, elm, parent, keys>>

Next ==
  \/ \E key \in Keys : Insert(key) \/ Remove(key)
  \/ InsertRecolor \/ InsertRotate \/ InsertDone
  \/ RemoveRecolor \/ RemoveRotate \/ RemoveDone
  \/ SweepBegin \/ SweepStep \/ SweepEnd

Spec == Init /\ [][Next]_vars

-----------------------------------------------------------------------------
\* The elements below n, n included.
Below(n) ==
  LET down[m \in DOMAIN tree.at] ==
        {m} \cup (IF tree.at[m].left = NULL THEN {} ELSE down[tree.at[m].left])
            \cup (IF tree.at[m].right = NULL THEN {} ELSE down[tree.at[m].right])
  IN  IF n = NULL THEN {} ELSE down[n]

\* At every step of every operation the tree is a search tree of the keys
\* inserted and not removed, and the parent links agree with the others.
SearchTree ==
  /\ Below(tree.root) = keys /\ DOMAIN tree.at = keys
  /\ tree.root # NULL => tree.at[tree.root].parent = NULL
  /\ \A n \in keys :
       /\ \A m \in Below(tree.at[n].left) : m < n
       /\ \A m \in Below(tree.at[n].right) : m > n
       /\ \A side \in {"left", "right"} :
            tree.at[n][side] # NULL => tree.at[tree.at[n][side]].parent = n

\* The colours on the way down from the root to n.
BlackDepth(n) ==
  LET up[m \in DOMAIN tree.at] ==
        (IF tree.at[m].color = "black" THEN 1 ELSE 0)
          + (IF tree.at[m].parent = NULL THEN 0 ELSE up[tree.at[m].parent])
  IN  up[n]

\* Between operations the tree is balanced: no red element has a red child,
\* and every way down to an element with a free side has as many black ones.
Balanced ==
  pc = "idle" =>
    /\ ~ IsRed(tree, tree.root)
    /\ \A n \in keys : IsRed(tree, n) => ~ IsRed(tree, tree.at[n].parent)
    /\ LET open == {n \in keys : NULL \in {tree.at[n].left, tree.at[n].right}}
       IN  \A m, n \in open : BlackDepth(m) = BlackDepth(n)

LeastOf(S) == IF S = {} THEN NULL ELSE Min(S)

\* Every walk of xh_core.c visits the elements in order and misses none.  The
\* walk that hooks goes over a tree at rest, from each element to the least
\* greater one; the one that removes what it visits always has the least that
\* is left before it, whatever the removals have rotated.
WalksInOrder ==
  /\ pc = "idle" =>
       \A n \in keys :
         Neighbour(tree, n, "right") = LeastOf({m \in keys : m > n})
  /\ sweep # NoSweep => sweep = LeastOf(keys)

=============================================================================
