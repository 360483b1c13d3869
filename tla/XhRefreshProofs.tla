--------------------------- MODULE XhRefreshProofs ---------------------------
(***************************************************************************)
(* Safety of a refresh, for any libraries and addresses: types, the two    *)
(* trees, what can be hooked by mistake, and what the trees say of the     *)
(* images that are loaded.                                                 *)
(***************************************************************************)
EXTENDS XhRefresh, TLAPS

\* The buffer holds one line for an address.
LinesDistinct == \A x, y \in lines : x.addr = y.addr => x = y

\* What a buffered line says still holds, or nothing is mapped there, or
\* something was mapped over it.
LinesCurrent ==
  \A line \in lines :
    overlaid \/ ~ Mapped(line.addr) \/ maps[line.addr].lib = line.lib

\* Only the library of a line that was accepted is hooked.
HookNeeded ==
  pc = "hook" =>
    \A line \in lines : IsFirst(line) => line.lib \in Needed

\* A hooked address is the start of a region.
HookedMapped == \A a \in hooked : Mapped(a)

BufferInv == LinesDistinct /\ LinesCurrent /\ HookNeeded

HookedInv == HookedMapped /\ StrangerOnlyByOverlay

Inv == TypeOK /\ TreesDisjoint /\ BufferInv /\ HookedInv

-----------------------------------------------------------------------------
LEMMA InitInv == Init => Inv
BY RefreshAssumption DEF Init, Inv, TypeOK, TreesDisjoint, BufferInv,
  LinesDistinct, LinesCurrent, HookNeeded, HookedInv, HookedMapped,
  StrangerOnlyByOverlay, Empty, Tree, Addrs, Line

LEMMA BeginInv ==
  ASSUME Inv, Begin
  PROVE  Inv'
<1> USE RefreshAssumption DEF Inv
<1>1. TypeOK'
  BY DEF TypeOK, Tree, Line, Region, Addrs, Empty, Begin, histVars
<1>2. TreesDisjoint'
  BY DEF TypeOK, Tree, Line, TreesDisjoint, Empty, Begin, histVars
<1>3. BufferInv'
  BY DEF TypeOK, Line, Addrs, BufferInv, LinesDistinct, LinesCurrent,
    HookNeeded, IsFirst, Mapped, Begin, histVars
<1>4. HookedInv'
  BY DEF TypeOK, Line, Region, HookedInv, HookedMapped,
    StrangerOnlyByOverlay, Mapped, Begin, histVars
<1>5. QED
  BY <1>1, <1>2, <1>3, <1>4

LEMMA FillInv ==
  ASSUME Inv, Fill
  PROVE  Inv'
<1> USE RefreshAssumption DEF Inv
<1>1. TypeOK'
  BY DEF TypeOK, Tree, Line, Region, Addrs, Empty, Fill, Unread, Mapped,
    histVars
<1>2. TreesDisjoint'
  BY DEF TypeOK, Tree, Line, TreesDisjoint, Empty, Fill, Unread, Mapped,
    histVars
<1>3. BufferInv'
  BY DEF TypeOK, Line, Addrs, BufferInv, LinesDistinct, LinesCurrent,
    HookNeeded, IsFirst, Mapped, Fill, Unread, histVars
<1>4. HookedInv'
  BY DEF TypeOK, Line, Region, HookedInv, HookedMapped,
    StrangerOnlyByOverlay, Mapped, Fill, Unread, histVars
<1>5. QED
  BY <1>1, <1>2, <1>3, <1>4

LEMMA LineSkippedInv ==
  ASSUME Inv, NEW line \in lines, LineSkipped(line)
  PROVE  Inv'
<1> USE RefreshAssumption DEF Inv
<1>1. TypeOK'
  BY DEF TypeOK, Tree, Line, Region, Addrs, Empty, LineSkipped, Read,
    IsFirst, Drop, histVars
<1>2. TreesDisjoint'
  BY DEF TypeOK, Tree, Line, TreesDisjoint, Empty, LineSkipped, Read,
    IsFirst, Drop, histVars
<1>3. BufferInv'
  BY DEF TypeOK, Line, Addrs, BufferInv, LinesDistinct, LinesCurrent,
    HookNeeded, IsFirst, Mapped, LineSkipped, Read, Drop, histVars
<1>4. HookedInv'
  BY DEF TypeOK, Line, Region, HookedInv, HookedMapped,
    StrangerOnlyByOverlay, Mapped, LineSkipped, Read, IsFirst, Drop, histVars
<1>5. QED
  BY <1>1, <1>2, <1>3, <1>4

LEMMA LineTrackedInv ==
  ASSUME Inv, NEW line \in lines, LineTracked(line)
  PROVE  Inv'
<1> USE RefreshAssumption DEF Inv
<1>1. TypeOK'
  BY DEF TypeOK, Tree, Line, Region, Addrs, Empty, LineTracked, Accepted,
    Read, IsFirst, Record, Drop, histVars
<1>2. TreesDisjoint'
  BY DEF TypeOK, Tree, Line, TreesDisjoint, Empty, LineTracked, Accepted,
    Read, IsFirst, Record, Drop, histVars
<1>3. BufferInv'
  BY DEF TypeOK, Line, Addrs, BufferInv, LinesDistinct, LinesCurrent,
    HookNeeded, IsFirst, Mapped, LineTracked, Accepted, Read, Record, Drop,
    histVars
<1>4. HookedInv'
  BY DEF TypeOK, Line, Region, HookedInv, HookedMapped,
    StrangerOnlyByOverlay, Mapped, LineTracked, Accepted, Read, IsFirst,
    Record, Drop, histVars
<1>5. QED
  BY <1>1, <1>2, <1>3, <1>4

LEMMA LineNewInv ==
  ASSUME Inv, NEW line \in lines, LineNew(line)
  PROVE  Inv'
<1> USE RefreshAssumption DEF Inv
<1>1. TypeOK'
  BY DEF TypeOK, Tree, Line, Region, Addrs, Empty, LineNew, Accepted, Read,
    IsFirst, Record, histVars
<1>2. TreesDisjoint'
  BY DEF TypeOK, Tree, Line, TreesDisjoint, Empty, LineNew, Accepted, Read,
    IsFirst, Record, histVars
<1>3. BufferInv'
  BY DEF TypeOK, Line, Addrs, BufferInv, LinesDistinct, LinesCurrent,
    HookNeeded, IsFirst, Mapped, LineNew, Accepted, Read, Record, histVars
<1>4. HookedInv'
  BY DEF TypeOK, Line, Region, HookedInv, HookedMapped,
    StrangerOnlyByOverlay, Mapped, LineNew, Accepted, Read, IsFirst, Record,
    histVars
<1>5. QED
  BY <1>1, <1>2, <1>3, <1>4

LEMMA LineRepeatedInv ==
  ASSUME Inv, NEW line \in lines, LineRepeated(line)
  PROVE  Inv'
<1> USE RefreshAssumption DEF Inv
<1>1. TypeOK'
  BY DEF TypeOK, Tree, Line, Region, Addrs, Empty, LineRepeated, Accepted,
    Read, IsFirst, Drop, histVars
<1>2. TreesDisjoint'
  BY DEF TypeOK, Tree, Line, TreesDisjoint, Empty, LineRepeated, Accepted,
    Read, IsFirst, Drop, histVars
<1>3. BufferInv'
  BY DEF TypeOK, Line, Addrs, BufferInv, LinesDistinct, LinesCurrent,
    HookNeeded, IsFirst, Mapped, LineRepeated, Accepted, Read, Drop, histVars
<1>4. HookedInv'
  BY DEF TypeOK, Line, Region, HookedInv, HookedMapped,
    StrangerOnlyByOverlay, Mapped, LineRepeated, Accepted, Read, IsFirst,
    Drop, histVars
<1>5. QED
  BY <1>1, <1>2, <1>3, <1>4

LEMMA LineNoMemoryInv ==
  ASSUME Inv, NEW line \in lines, LineNoMemory(line)
  PROVE  Inv'
<1> USE RefreshAssumption DEF Inv
<1>1. TypeOK'
  BY DEF TypeOK, Tree, Line, Region, Addrs, Empty, LineNoMemory, Accepted,
    Read, IsFirst, Drop, histVars
<1>2. TreesDisjoint'
  BY DEF TypeOK, Tree, Line, TreesDisjoint, Empty, LineNoMemory, Accepted,
    Read, IsFirst, Drop, histVars
<1>3. BufferInv'
  BY DEF TypeOK, Line, Addrs, BufferInv, LinesDistinct, LinesCurrent,
    HookNeeded, IsFirst, Mapped, LineNoMemory, Accepted, Read, Drop, histVars
<1>4. HookedInv'
  BY DEF TypeOK, Line, Region, HookedInv, HookedMapped,
    StrangerOnlyByOverlay, Mapped, LineNoMemory, Accepted, Read, IsFirst,
    Drop, histVars
<1>5. QED
  BY <1>1, <1>2, <1>3, <1>4

LEMMA HookInv ==
  ASSUME Inv, NEW line \in lines, Hook(line)
  PROVE  Inv'
<1> USE RefreshAssumption DEF Inv
<1>1. TypeOK'
  BY DEF TypeOK, Tree, Line, Region, Addrs, Empty, Hook, IsFirst, Drop,
    IsElf, histVars
<1>2. TreesDisjoint'
  BY DEF TypeOK, Tree, Line, TreesDisjoint, Empty, Hook, IsFirst, Drop,
    IsElf, histVars
<1>3. BufferInv'
  BY DEF TypeOK, Line, Addrs, BufferInv, LinesDistinct, LinesCurrent,
    HookNeeded, IsFirst, Mapped, Hook, Drop, IsElf, histVars
<1>4. HookedInv'
  BY DEF TypeOK, Line, Region, HookedInv, HookedMapped,
    StrangerOnlyByOverlay, Mapped, BufferInv, LinesDistinct, LinesCurrent,
    HookNeeded, IsFirst, Hook, Drop, IsElf, histVars
<1>5. QED
  BY <1>1, <1>2, <1>3, <1>4

LEMMA HookFailsInv ==
  ASSUME Inv, NEW line \in lines, HookFails(line)
  PROVE  Inv'
<1> USE RefreshAssumption DEF Inv
<1>1. TypeOK'
  BY DEF TypeOK, Tree, Line, Region, Addrs, Empty, HookFails, IsFirst, Drop,
    IsElf, histVars
<1>2. TreesDisjoint'
  BY DEF TypeOK, Tree, Line, TreesDisjoint, Empty, HookFails, IsFirst, Drop,
    IsElf, histVars
<1>3. BufferInv'
  BY DEF TypeOK, Line, Addrs, BufferInv, LinesDistinct, LinesCurrent,
    HookNeeded, IsFirst, Mapped, HookFails, Drop, IsElf, histVars
<1>4. HookedInv'
  BY DEF TypeOK, Line, Region, HookedInv, HookedMapped,
    StrangerOnlyByOverlay, Mapped, BufferInv, LinesDistinct, LinesCurrent,
    HookNeeded, IsFirst, HookFails, Drop, IsElf, histVars
<1>5. QED
  BY <1>1, <1>2, <1>3, <1>4

LEMMA EndInv ==
  ASSUME Inv, End
  PROVE  Inv'
<1> USE RefreshAssumption DEF Inv
<1>1. TypeOK'
  BY DEF TypeOK, Tree, Line, Region, Addrs, Empty, End, Unread, Mapped,
    histVars
<1>2. TreesDisjoint'
  BY DEF TypeOK, Tree, Line, TreesDisjoint, Empty, End, Unread, Mapped,
    histVars
<1>3. BufferInv'
  BY DEF TypeOK, Line, Addrs, BufferInv, LinesDistinct, LinesCurrent,
    HookNeeded, IsFirst, Mapped, End, Unread, histVars
<1>4. HookedInv'
  BY DEF TypeOK, Line, Region, HookedInv, HookedMapped,
    StrangerOnlyByOverlay, Mapped, End, Unread, histVars
<1>5. QED
  BY <1>1, <1>2, <1>3, <1>4

LEMMA UnmapInv ==
  ASSUME Inv, NEW a \in Addrs, Unmap(a)
  PROVE  Inv'
<1> USE RefreshAssumption DEF Inv
<1>1. TypeOK'
  BY DEF TypeOK, Tree, Line, Region, Addrs, Empty, Unmap, Mapped, histVars
<1>2. TreesDisjoint'
  BY DEF TypeOK, Tree, Line, TreesDisjoint, Empty, Unmap, Mapped, histVars
<1>3. BufferInv'
  BY DEF TypeOK, Line, Addrs, BufferInv, LinesDistinct, LinesCurrent,
    HookNeeded, IsFirst, Mapped, Unmap, histVars
<1>4. HookedInv'
  BY DEF TypeOK, Line, Region, HookedInv, HookedMapped,
    StrangerOnlyByOverlay, Mapped, Unmap, histVars
<1>5. QED
  BY <1>1, <1>2, <1>3, <1>4

LEMMA MapInv ==
  ASSUME Inv, NEW a \in Addrs, NEW region \in Region, Map(a, region)
  PROVE  Inv'
<1> USE RefreshAssumption DEF Inv
<1>1. TypeOK'
  BY DEF TypeOK, Tree, Line, Region, Addrs, Empty, Map, Mapped, histVars
<1>2. TreesDisjoint'
  BY DEF TypeOK, Tree, Line, TreesDisjoint, Empty, Map, Mapped, histVars
<1>3. BufferInv'
  BY DEF TypeOK, Line, Addrs, BufferInv, LinesDistinct, LinesCurrent,
    HookNeeded, IsFirst, Mapped, Map, histVars
<1>4. HookedInv'
  BY DEF TypeOK, Line, Region, HookedInv, HookedMapped,
    StrangerOnlyByOverlay, Mapped, Map, histVars
<1>5. QED
  BY <1>1, <1>2, <1>3, <1>4

LEMMA StutterInv == Inv /\ UNCHANGED vars => Inv'
BY DEF Inv, TypeOK, TreesDisjoint, BufferInv, LinesDistinct, LinesCurrent,
  HookNeeded, IsFirst, HookedInv, HookedMapped, StrangerOnlyByOverlay, Mapped,
  vars, histVars

LEMMA StepInv == Inv /\ [Next]_vars => Inv'
<1> SUFFICES ASSUME Inv, [Next]_vars PROVE Inv'
  OBVIOUS
<1>1. CASE Begin BY <1>1, BeginInv
<1>2. CASE Fill BY <1>2, FillInv
<1>3. CASE End BY <1>3, EndInv
<1>4. CASE \E line \in lines : Process(line)
  BY <1>4, LineSkippedInv, LineTrackedInv, LineNewInv, LineRepeatedInv,
    LineNoMemoryInv, HookInv, HookFailsInv DEF Process
<1>5. CASE \E a \in Addrs : Unmap(a)
  BY <1>5, UnmapInv
<1>6. CASE \E a \in Addrs, region \in Region : Map(a, region)
  BY <1>6, MapInv
<1>7. CASE UNCHANGED vars BY <1>7, StutterInv
<1>8. QED
  BY <1>1, <1>2, <1>3, <1>4, <1>5, <1>6, <1>7 DEF Next

-----------------------------------------------------------------------------
THEOREM Invariance == Spec => []Inv
BY InitInv, StepInv, PTL DEF Spec

\* Every variable of xh_core_refresh_impl stays in its type.
THEOREM TypeCorrect == Spec => []TypeOK
BY Invariance, PTL DEF Inv

\* xh_core_refresh_impl never finds a library in both trees, so the branch in
\* which an entry of the old tree cannot be inserted in the new one is dead.
THEOREM TreesAlwaysDisjoint == Spec => []TreesDisjoint
BY Invariance, PTL DEF Inv

\* However dlopen and dlclose interleave with a refresh, a library without a
\* hook is only ever hooked when it is mapped over a line that was read.
THEOREM StrangersOnlyByOverlay == Spec => []StrangerOnlyByOverlay
BY Invariance, PTL DEF Inv, HookedInv

-----------------------------------------------------------------------------
(* What the trees hold: hooked images, and after a quiet walk exactly the  *)
(* images that are loaded.                                                 *)

\* The line that is about to be hooked has just been recorded.
HookRecorded ==
  pc = "hook" =>
    \A line \in lines : IsFirst(line) => refreshed[line.lib] = line.addr

\* Image a of l is recorded, and xh_core_hook has not run on it yet.
Pending(l, a) ==
  /\ pc = "hook"
  /\ \E line \in lines : IsFirst(line) /\ line.lib = l /\ line.addr = a

TrackedOrPending ==
  \A l \in Libs \ missed : \A a \in {map_info[l], refreshed[l]} \ {NoBase} :
    a \in ElfsOf(l) => a \in hooked \/ Pending(l, a)

TrackedInv == HookRecorded /\ TrackedOrPending

\* The regions whose line was processed, but for hooking.
Walked ==
  {a \in Addrs :
     /\ a <= pos /\ Mapped(a)
     /\ \A line \in lines :
          line.addr = a => pc = "hook" /\ IsFirst(line)}

WalkedOf(l) == {a \in Walked : a \in ElfsOf(l)}

LinesTrue ==
  \A line \in lines :
    /\ line.addr <= pos
    /\ Mapped(line.addr) /\ maps[line.addr].lib = line.lib

WalkOrdered == \A a \in Walked : \A line \in lines : a <= line.addr

\* The new tree holds the needed libraries among the walked regions, each at
\* its first address.
WalkExact ==
  \A l \in Libs :
    /\ refreshed[l] # NoBase => l \in Needed /\ refreshed[l] \in WalkedOf(l)
    /\ l \in Needed =>
         \A a \in WalkedOf(l) : refreshed[l] # NoBase /\ refreshed[l] <= a

WalkInv ==
  /\ pc # "idle" /\ ~ disturbed => LinesTrue /\ WalkOrdered /\ WalkExact
  /\ QuietExact

TreeInv == Inv /\ TrackedInv /\ WalkInv

-----------------------------------------------------------------------------
LEMMA FirstUnique ==
  ASSUME TypeOK, LinesDistinct, NEW x \in lines, NEW y \in lines,
         IsFirst(x), IsFirst(y)
  PROVE  x = y
<1>1. x.addr \in Nat /\ y.addr \in Nat /\ x.addr <= y.addr /\ y.addr <= x.addr
  BY DEF TypeOK, Line, Addrs, IsFirst
<1>2. x.addr = y.addr
  BY <1>1
<1>3. QED
  BY <1>2 DEF LinesDistinct

\* A line is dropped without hooking: its region becomes the last one walked.
LEMMA DropWalks ==
  ASSUME TypeOK, LinesDistinct, LinesTrue, WalkOrdered,
         NEW line \in lines, Read(line), Drop(line),
         UNCHANGED <<pc, maps, pos>>
  PROVE  /\ Walked' = Walked \cup {line.addr}
         /\ \A a \in Walked : a <= line.addr
         /\ LinesTrue' /\ WalkOrdered'
<1> USE DEF TypeOK, Line, Addrs, Read, IsFirst, Drop
<1>1. Walked' = Walked \cup {line.addr}
  BY DEF LinesDistinct, LinesTrue, Walked, Mapped
<1>2. \A a \in Walked : a <= line.addr
  BY DEF WalkOrdered
<1>3. LinesTrue'
  BY DEF LinesTrue, Mapped
<1>4. WalkOrdered'
  BY <1>1 DEF WalkOrdered
<1>5. QED
  BY <1>1, <1>2, <1>3, <1>4

\* A line leads to xh_core_hook: its region becomes the last one walked.
LEMMA HookWalks ==
  ASSUME TypeOK, LinesDistinct, LinesTrue, WalkOrdered,
         NEW line \in lines, Read(line), pc' = "hook",
         UNCHANGED <<lines, maps, pos>>
  PROVE  /\ Walked' = Walked \cup {line.addr}
         /\ \A a \in Walked : a <= line.addr
         /\ LinesTrue' /\ WalkOrdered'
<1> USE DEF TypeOK, Line, Addrs, Read, IsFirst
<1>1. Walked' = Walked \cup {line.addr}
  BY FirstUnique DEF LinesDistinct, LinesTrue, Walked, Mapped
<1>2. \A a \in Walked : a <= line.addr
  BY DEF WalkOrdered
<1>3. LinesTrue'
  BY DEF LinesTrue, Mapped
<1>4. WalkOrdered'
  BY <1>1 DEF WalkOrdered
<1>5. QED
  BY <1>1, <1>2, <1>3, <1>4

\* Its line is dropped after hooking: the walked regions stay the same.
LEMMA HookedWalks ==
  ASSUME TypeOK, LinesDistinct, LinesTrue, WalkOrdered,
         NEW line \in lines, pc = "hook", IsFirst(line), Drop(line),
         pc' = "line", UNCHANGED <<maps, pos>>
  PROVE  Walked' = Walked /\ LinesTrue' /\ WalkOrdered'
<1> USE DEF TypeOK, Line, Addrs, IsFirst, Drop
<1>1. Walked' = Walked
  BY FirstUnique DEF LinesDistinct, LinesTrue, Walked, Mapped
<1>2. LinesTrue'
  BY DEF LinesTrue, Mapped
<1>3. WalkOrdered'
  BY <1>1 DEF WalkOrdered
<1>4. QED
  BY <1>1, <1>2, <1>3

\* When a region is walked whose library is not recorded for it, the new tree
\* stays exact if nothing has to be recorded or something already is.
LEMMA PassedExact ==
  ASSUME TypeOK, TypeOK', WalkExact, NEW line \in lines,
         Walked' = Walked \cup {line.addr},
         \A a \in Walked : a <= line.addr,
         maps[line.addr].lib = line.lib,
         UNCHANGED <<maps, refreshed>>,
         \/ line.lib \notin Needed \/ ~ IsElf(line.addr)
         \/ refreshed[line.lib] # NoBase
  PROVE  WalkExact'
<1>1. \A a, l : a \in ElfsOf(l)' <=> a \in ElfsOf(l)
  BY DEF ElfsOf, IsElf, Mapped
<1>2. Walked \subseteq Addrs /\ line.addr \in Addrs
  BY DEF Walked, TypeOK, Line
<1>3. ASSUME NEW l \in Libs, refreshed'[l] # NoBase
      PROVE  l \in Needed /\ refreshed'[l] \in WalkedOf(l)'
  BY <1>1, <1>3 DEF WalkExact, WalkedOf
<1>4. ASSUME NEW l \in Libs, l \in Needed, NEW a \in WalkedOf(l)'
      PROVE  refreshed'[l] # NoBase /\ refreshed'[l] <= a
  <2>1. a \in Walked' /\ a \in ElfsOf(l)
    BY <1>1 DEF WalkedOf
  <2>2. CASE a \in Walked
    BY <1>4, <2>1, <2>2 DEF WalkExact, WalkedOf
  <2>3. CASE a = line.addr
    <3>1. line.lib = l /\ IsElf(line.addr)
      BY <2>1, <2>3 DEF ElfsOf
    <3>2. refreshed[l] # NoBase /\ refreshed[l] \in Walked
      BY <1>4, <3>1 DEF WalkExact, WalkedOf
    <3>3. QED
      BY <2>3, <3>2
  <2>4. QED
    BY <2>1, <2>2, <2>3
<1>5. QED
  BY <1>3, <1>4 DEF WalkExact

\* When a region is walked and recorded, the new tree stays exact.
LEMMA RecordedExact ==
  ASSUME TypeOK, TypeOK', WalkExact, NEW line \in lines,
         Walked' = Walked \cup {line.addr},
         maps[line.addr].lib = line.lib,
         line.lib \in Needed, IsElf(line.addr),
         refreshed[line.lib] = NoBase, Record(line),
         UNCHANGED maps
  PROVE  WalkExact'
<1>1. \A a, l : a \in ElfsOf(l)' <=> a \in ElfsOf(l)
  BY DEF ElfsOf, IsElf, Mapped
<1>2. /\ line.addr \in Addrs /\ line.lib \in Libs
      /\ line.addr # NoBase /\ line.addr \in Nat
      /\ line.addr \in ElfsOf(line.lib)
  BY RefreshAssumption DEF TypeOK, Line, Addrs, ElfsOf
<1>3. /\ refreshed'[line.lib] = line.addr
      /\ \A l \in Libs \ {line.lib} : refreshed'[l] = refreshed[l]
  BY <1>2 DEF Record, TypeOK, Tree
<1>4. WalkedOf(line.lib) = {}
  BY <1>2 DEF WalkExact
<1>5. WalkedOf(line.lib)' = {line.addr}
  BY <1>1, <1>2, <1>4 DEF WalkedOf
<1>6. \A l \in Libs \ {line.lib} : WalkedOf(l)' = WalkedOf(l)
  BY <1>1 DEF WalkedOf, ElfsOf
<1>7. ASSUME NEW l \in Libs
      PROVE  /\ refreshed'[l] # NoBase =>
                  l \in Needed /\ refreshed'[l] \in WalkedOf(l)'
             /\ l \in Needed => \A a \in WalkedOf(l)' :
                                  refreshed'[l] # NoBase /\ refreshed'[l] <= a
  <2>1. CASE l = line.lib
    BY <2>1, <1>2, <1>3, <1>5
  <2>2. CASE l # line.lib
    BY <2>2, <1>3, <1>6 DEF WalkExact
  <2>3. QED
    BY <2>1, <2>2
<1>8. QED
  BY <1>7 DEF WalkExact

-----------------------------------------------------------------------------
LEMMA InitTrees == Init => TrackedInv /\ WalkInv
BY RefreshAssumption DEF Init, TrackedInv, HookRecorded, TrackedOrPending,
  WalkInv, QuietExact, Empty

LEMMA BeginTrees ==
  ASSUME TreeInv, Begin
  PROVE  TrackedInv' /\ WalkInv'
<1> USE RefreshAssumption DEF TreeInv, Inv, TypeOK, Begin, histVars
<1>1. TrackedInv'
  BY DEF TrackedInv, HookRecorded, TrackedOrPending, Pending, ElfsOf, IsElf,
    Mapped, Empty
<1>2. Walked' = {}
  BY DEF Walked, Addrs
<1>3. LinesTrue' /\ WalkOrdered' /\ WalkExact'
  BY <1>2 DEF LinesTrue, WalkOrdered, WalkExact, WalkedOf, Empty
<1>4. QED
  BY <1>1, <1>3 DEF WalkInv, QuietExact

LEMMA FillTrees ==
  ASSUME TreeInv, Fill
  PROVE  TrackedInv' /\ WalkInv'
<1> USE RefreshAssumption DEF TreeInv, Inv, Fill, histVars
<1>1. TrackedInv'
  BY DEF TrackedInv, HookRecorded, TrackedOrPending, Pending, ElfsOf, IsElf,
    Mapped
<1>2. PICK last \in Unread :
        /\ lines' = {[addr |-> a, lib |-> maps[a].lib] :
                       a \in {b \in Unread : b <= last}}
        /\ pos' = last
  OBVIOUS
<1>3. last \in Nat /\ pos \in Nat /\ pos < last
  BY DEF Unread, TypeOK, Addrs
<1>4. \A line \in lines' :
        /\ line.addr \in Unread /\ line.addr <= last
        /\ line.lib = maps[line.addr].lib
  BY <1>2
<1>5. ASSUME NEW b \in Unread, b <= last
      PROVE  \E line \in lines' : line.addr = b
  <2>1. [addr |-> b, lib |-> maps[b].lib] \in lines'
    BY <1>2, <1>5
  <2>2. QED
    BY <2>1
<1>6. Walked' = Walked
  <2>1. ASSUME NEW a \in Walked PROVE a \in Walked'
    BY <1>2, <1>3, <1>4, <2>1 DEF Walked, Unread, Mapped, Addrs
  <2>2. ASSUME NEW a \in Walked' PROVE a \in Walked
    BY <1>2, <1>3, <1>5, <2>2 DEF Walked, Unread, Mapped, Addrs
  <2>3. QED
    BY <2>1, <2>2
<1>7. LinesTrue'
  BY <1>2, <1>4 DEF LinesTrue, Unread, Mapped
<1>8. WalkOrdered'
  BY <1>3, <1>4, <1>6 DEF WalkOrdered, Walked, Unread, Addrs
<1>9. WalkExact <=> WalkExact'
  BY <1>6 DEF WalkExact, WalkedOf, ElfsOf, IsElf, Mapped
<1>10. QED
  BY <1>1, <1>7, <1>8, <1>9 DEF WalkInv, QuietExact

LEMMA LineSkippedTrees ==
  ASSUME TreeInv, TypeOK', NEW line \in lines, LineSkipped(line)
  PROVE  TrackedInv' /\ WalkInv'
<1> USE DEF TreeInv, Inv, BufferInv, LineSkipped, histVars
<1>1. TrackedInv'
  BY DEF Read, TrackedInv, HookRecorded, TrackedOrPending, Pending, ElfsOf,
    IsElf, Mapped
<1>2. ASSUME ~ disturbed
      PROVE  LinesTrue' /\ WalkOrdered' /\ WalkExact'
  <2>1. LinesTrue /\ WalkOrdered /\ WalkExact
    BY <1>2 DEF Read, WalkInv
  <2>2. QED
    BY <2>1, DropWalks, PassedExact DEF LinesTrue
<1>3. QED
  BY <1>1, <1>2 DEF Read, WalkInv, QuietExact

LEMMA LineTrackedTrees ==
  ASSUME TreeInv, TypeOK', NEW line \in lines, LineTracked(line)
  PROVE  TrackedInv' /\ WalkInv'
<1> USE RefreshAssumption
    DEF TreeInv, Inv, BufferInv, LineTracked, Accepted, histVars
<1>1. line.addr \in Addrs /\ line.lib \in Libs /\ IsFirst(line)
  BY DEF TypeOK, Line, Read
<1>2. /\ map_info'[line.lib] = NoBase /\ refreshed'[line.lib] = line.addr
      /\ \A l \in Libs \ {line.lib} :
           map_info'[l] = map_info[l] /\ refreshed'[l] = refreshed[l]
  BY <1>1 DEF Record, TypeOK, Tree
<1>3. HookRecorded'
  <2>1. CASE map_info[line.lib] = line.addr
    BY <2>1 DEF Read, HookRecorded
  <2>2. CASE map_info[line.lib] # line.addr
    <3>1. \A other \in lines : IsFirst(other) => other = line
      BY <1>1, FirstUnique
    <3>2. QED
      BY <2>2, <1>2, <3>1 DEF HookRecorded, IsFirst
  <2>3. QED
    BY <2>1, <2>2
<1>4. TrackedOrPending'
  <2> SUFFICES ASSUME NEW l \in Libs \ missed,
                      NEW a \in {map_info'[l], refreshed'[l]} \ {NoBase},
                      a \in ElfsOf(l)
               PROVE  a \in hooked \/ Pending(l, a)'
    BY DEF TrackedOrPending, ElfsOf, IsElf, Mapped
  <2>1. CASE l # line.lib
    BY <1>2, <2>1 DEF Read, TrackedInv, TrackedOrPending, Pending
  <2>2. CASE l = line.lib /\ map_info[l] = line.addr
    BY <1>2, <2>2 DEF Read, TrackedInv, TrackedOrPending, Pending
  <2>3. CASE l = line.lib /\ map_info[l] # line.addr
    BY <1>1, <1>2, <2>3 DEF Pending, IsFirst
  <2>4. QED
    BY <2>1, <2>2, <2>3
<1>5. ASSUME ~ disturbed
      PROVE  LinesTrue' /\ WalkOrdered' /\ WalkExact'
  <2>1. LinesTrue /\ WalkOrdered /\ WalkExact
    BY <1>5 DEF Read, WalkInv
  <2>2. Walked' = Walked \cup {line.addr} /\ LinesTrue' /\ WalkOrdered'
    <3>1. CASE map_info[line.lib] = line.addr
      BY <2>1, <3>1, DropWalks
    <3>2. CASE map_info[line.lib] # line.addr
      BY <2>1, <3>2, HookWalks
    <3>3. QED
      BY <3>1, <3>2
  <2>3. QED
    BY <2>1, <2>2, RecordedExact DEF LinesTrue
<1>6. QED
  BY <1>3, <1>4, <1>5 DEF Read, TrackedInv, WalkInv, QuietExact

LEMMA LineNewTrees ==
  ASSUME TreeInv, TypeOK', NEW line \in lines, LineNew(line)
  PROVE  TrackedInv' /\ WalkInv'
<1> USE RefreshAssumption
    DEF TreeInv, Inv, BufferInv, LineNew, Accepted, histVars
<1>1. line.addr \in Addrs /\ line.lib \in Libs /\ IsFirst(line)
  BY DEF TypeOK, Line, Read
<1>2. /\ refreshed'[line.lib] = line.addr
      /\ \A l \in Libs \ {line.lib} : refreshed'[l] = refreshed[l]
  BY <1>1 DEF Record, TypeOK, Tree
<1>3. HookRecorded'
  BY <1>1, <1>2, FirstUnique DEF HookRecorded, IsFirst
<1>4. TrackedOrPending'
  <2> SUFFICES ASSUME NEW l \in Libs \ missed,
                      NEW a \in {map_info[l], refreshed'[l]} \ {NoBase},
                      a \in ElfsOf(l)
               PROVE  a \in hooked \/ Pending(l, a)'
    BY DEF TrackedOrPending, ElfsOf, IsElf, Mapped
  <2>1. CASE l # line.lib
    BY <1>2, <2>1 DEF Read, TrackedInv, TrackedOrPending, Pending
  <2>2. CASE l = line.lib
    BY <1>1, <1>2, <2>2 DEF Pending, IsFirst
  <2>3. QED
    BY <2>1, <2>2
<1>5. ASSUME ~ disturbed
      PROVE  LinesTrue' /\ WalkOrdered' /\ WalkExact'
  <2>1. LinesTrue /\ WalkOrdered /\ WalkExact
    BY <1>5 DEF Read, WalkInv
  <2>2. QED
    BY <2>1, HookWalks, RecordedExact DEF LinesTrue
<1>6. QED
  BY <1>3, <1>4, <1>5 DEF Read, TrackedInv, WalkInv, QuietExact

LEMMA LineRepeatedTrees ==
  ASSUME TreeInv, TypeOK', NEW line \in lines, LineRepeated(line)
  PROVE  TrackedInv' /\ WalkInv'
<1> USE RefreshAssumption
    DEF TreeInv, Inv, BufferInv, LineRepeated, Accepted, histVars
<1>1. \A l \in Libs : map_info'[l] \in {map_info[l], NoBase}
  BY DEF TypeOK, Tree
<1>2. TrackedInv'
  BY <1>1 DEF Read, TrackedInv, HookRecorded, TrackedOrPending, Pending,
    ElfsOf, IsElf, Mapped
<1>3. ASSUME ~ disturbed
      PROVE  LinesTrue' /\ WalkOrdered' /\ WalkExact'
  <2>1. LinesTrue /\ WalkOrdered /\ WalkExact
    BY <1>3 DEF Read, WalkInv
  <2>2. QED
    BY <2>1, DropWalks, PassedExact DEF LinesTrue
<1>4. QED
  BY <1>2, <1>3 DEF Read, WalkInv, QuietExact

LEMMA LineNoMemoryTrees ==
  ASSUME TreeInv, NEW line \in lines, LineNoMemory(line)
  PROVE  TrackedInv' /\ WalkInv'
<1> USE DEF TreeInv, LineNoMemory, Accepted, Read
<1>1. TrackedInv'
  BY DEF TrackedInv, HookRecorded, TrackedOrPending, Pending, ElfsOf, IsElf,
    Mapped
<1>2. QED
  BY <1>1 DEF WalkInv, QuietExact

\* xh_core_hook ends: the library of the line is hooked where it is recorded,
\* or is among those hooked in part.
LEMMA HookDone ==
  ASSUME TreeInv, NEW line \in lines, pc = "hook", IsFirst(line),
         missed \ {line.lib} \subseteq missed',
         line.lib \in missed' \/ line.addr \in hooked',
         hooked \subseteq hooked',
         Drop(line), pc' = "line",
         UNCHANGED <<maps, pos, map_info, refreshed, disturbed>>
  PROVE  TrackedInv' /\ WalkInv'
<1> USE RefreshAssumption DEF TreeInv, Inv, BufferInv
<1>1. line.addr \in Addrs /\ line.lib \in Libs
  BY DEF TypeOK, Line
<1>2. refreshed[line.lib] = line.addr
  BY DEF TrackedInv, HookRecorded
<1>3. map_info[line.lib] = NoBase
  BY <1>1, <1>2 DEF TreesDisjoint
<1>4. TrackedOrPending'
  <2> SUFFICES ASSUME NEW l \in Libs \ missed',
                      NEW a \in {map_info[l], refreshed[l]} \ {NoBase},
                      a \in ElfsOf(l)
               PROVE  a \in hooked'
    BY DEF TrackedOrPending, ElfsOf, IsElf, Mapped
  <2>1. CASE l = line.lib
    BY <1>2, <1>3, <2>1
  <2>2. CASE l # line.lib
    <3>1. a \in hooked \/ Pending(l, a)
      BY <2>2 DEF TrackedInv, TrackedOrPending
    <3>2. ~ Pending(l, a)
      BY <2>2, FirstUnique DEF Pending
    <3>3. QED
      BY <3>1, <3>2
  <2>3. QED
    BY <2>1, <2>2
<1>5. ASSUME ~ disturbed
      PROVE  LinesTrue' /\ WalkOrdered' /\ WalkExact'
  <2>1. LinesTrue /\ WalkOrdered /\ WalkExact
    BY <1>5 DEF WalkInv
  <2>2. Walked' = Walked /\ LinesTrue' /\ WalkOrdered'
    BY <2>1, HookedWalks
  <2>3. WalkExact <=> WalkExact'
    BY <2>2 DEF WalkExact, WalkedOf, ElfsOf, IsElf, Mapped
  <2>4. QED
    BY <2>1, <2>2, <2>3
<1>6. QED
  BY <1>4, <1>5 DEF TrackedInv, HookRecorded, WalkInv, QuietExact

LEMMA HookTrees ==
  ASSUME TreeInv, NEW line \in lines, Hook(line)
  PROVE  TrackedInv' /\ WalkInv'
BY HookDone DEF Hook

LEMMA HookFailsTrees ==
  ASSUME TreeInv, NEW line \in lines, HookFails(line)
  PROVE  TrackedInv' /\ WalkInv'
BY HookDone DEF HookFails

LEMMA EndTrees ==
  ASSUME TreeInv, End
  PROVE  TrackedInv' /\ WalkInv'
<1> USE RefreshAssumption DEF TreeInv, Inv, End, histVars
<1>1. TrackedInv'
  BY DEF TrackedInv, HookRecorded, TrackedOrPending, Pending, ElfsOf, IsElf,
    Mapped, Empty
<1>2. ASSUME ~ disturbed
      PROVE  QuietExact'
  <2>1. WalkExact
    BY <1>2 DEF WalkInv
  <2>2. Walked = {a \in Addrs : Mapped(a)}
    BY DEF Walked, Unread, TypeOK, Addrs
  <2>3. \A l \in Libs : WalkedOf(l) = ElfsOf(l)
    BY <2>2 DEF WalkedOf, ElfsOf, IsElf
  <2>4. \A l \in Libs :
          IF l \in Needed /\ ElfsOf(l) # {}
            THEN /\ refreshed[l] \in ElfsOf(l)
                 /\ \A a \in ElfsOf(l) : refreshed[l] <= a
            ELSE refreshed[l] = NoBase
    BY <2>1, <2>3 DEF WalkExact
  <2>5. QED
    BY <2>4 DEF QuietExact, ElfsOf, IsElf, Mapped
<1>3. QED
  BY <1>1, <1>2 DEF WalkInv, QuietExact

LEMMA UnmapTrees ==
  ASSUME TreeInv, NEW b \in Addrs, Unmap(b)
  PROVE  TrackedInv' /\ WalkInv'
<1> USE DEF TreeInv, Inv, Unmap
<1>1. HookRecorded'
  BY DEF TrackedInv, HookRecorded, IsFirst
<1>2. TrackedOrPending'
  <2> SUFFICES ASSUME NEW l \in Libs \ missed,
                      NEW a \in {map_info[l], refreshed[l]} \ {NoBase},
                      a \in ElfsOf(l)'
               PROVE  a \in hooked' \/ Pending(l, a)'
    BY DEF TrackedOrPending
  <2>1. a # b /\ a \in ElfsOf(l)
    BY DEF ElfsOf, IsElf, Mapped, TypeOK
  <2>2. a \in hooked \/ Pending(l, a)
    BY <2>1 DEF TrackedInv, TrackedOrPending
  <2>3. QED
    BY <2>1, <2>2 DEF Pending, IsFirst
<1>3. QED
  BY <1>1, <1>2 DEF TrackedInv, WalkInv, QuietExact

LEMMA MapTrees ==
  ASSUME TreeInv, NEW b \in Addrs, NEW region \in Region, Map(b, region)
  PROVE  TrackedInv' /\ WalkInv'
<1> USE DEF TreeInv, Inv, Map
<1>1. HookRecorded'
  BY DEF TrackedInv, HookRecorded, IsFirst
<1>2. TrackedOrPending'
  <2> SUFFICES ASSUME NEW l \in Libs \ missed',
                      NEW a \in {map_info[l], refreshed[l]} \ {NoBase},
                      a \in ElfsOf(l)'
               PROVE  a \in hooked \/ Pending(l, a)'
    BY DEF TrackedOrPending
  <2>1. l \notin missed
    OBVIOUS
  <2>2. a # b /\ a \in ElfsOf(l)
    BY DEF ElfsOf, IsElf, Mapped, TypeOK
  <2>3. a \in hooked \/ Pending(l, a)
    BY <2>1, <2>2 DEF TrackedInv, TrackedOrPending
  <2>4. QED
    BY <2>3 DEF Pending, IsFirst
<1>3. QED
  BY <1>1, <1>2 DEF TrackedInv, WalkInv, QuietExact

LEMMA StutterTrees ==
  TreeInv /\ UNCHANGED vars => TrackedInv' /\ WalkInv'
<1> SUFFICES ASSUME TreeInv, UNCHANGED vars
             PROVE  TrackedInv' /\ WalkInv'
  OBVIOUS
<1> USE DEF TreeInv, vars, histVars
<1>1. TrackedInv'
  BY DEF TrackedInv, HookRecorded, TrackedOrPending, Pending, ElfsOf, IsElf,
    Mapped, IsFirst
<1>2. QuietExact'
  BY DEF WalkInv, QuietExact, ElfsOf, IsElf, Mapped
<1>3. ASSUME pc # "idle" /\ ~ disturbed
      PROVE  LinesTrue' /\ WalkOrdered' /\ WalkExact'
  <2>1. LinesTrue /\ WalkOrdered /\ WalkExact
    BY <1>3 DEF WalkInv
  <2>2. Walked' = Walked
    BY DEF Walked, Mapped, IsFirst
  <2>3. QED
    BY <2>1, <2>2 DEF LinesTrue, WalkOrdered, WalkExact, WalkedOf, ElfsOf,
      IsElf, Mapped
<1>4. QED
  BY <1>1, <1>2, <1>3 DEF WalkInv

-----------------------------------------------------------------------------
THEOREM TreeInvariance == Spec => []TreeInv
<1>1. Init => TreeInv
  BY InitInv, InitTrees DEF TreeInv
<1>2. Inv /\ [Next]_vars => Inv'
  BY StepInv
<1>3. TreeInv /\ Inv' /\ [Next]_vars => TreeInv'
  <2> SUFFICES ASSUME TreeInv, Inv', [Next]_vars
               PROVE  TrackedInv' /\ WalkInv'
    BY DEF TreeInv
  <2> TypeOK'
    BY DEF Inv
  <2>1. CASE Begin BY <2>1, BeginTrees
  <2>2. CASE Fill BY <2>2, FillTrees
  <2>3. CASE End BY <2>3, EndTrees
  <2>4. CASE \E line \in lines : Process(line)
    BY <2>4, LineSkippedTrees, LineTrackedTrees, LineNewTrees,
      LineRepeatedTrees, LineNoMemoryTrees, HookTrees, HookFailsTrees
    DEF Process
  <2>5. CASE \E a \in Addrs : Unmap(a)
    BY <2>5, UnmapTrees
  <2>6. CASE \E a \in Addrs, region \in Region : Map(a, region)
    BY <2>6, MapTrees
  <2>7. CASE UNCHANGED vars BY <2>7, StutterTrees
  <2>8. QED
    BY <2>1, <2>2, <2>3, <2>4, <2>5, <2>6, <2>7 DEF Next
<1>4. QED
  BY <1>1, <1>2, <1>3, PTL DEF Spec, TreeInv

\* After a refresh during which the process loaded and unloaded nothing and
\* memory did not run out, the tree of xh_core.c holds exactly the libraries
\* to hook that are loaded, each at the first of its regions.
THEOREM QuietRefreshExact == Spec => []QuietExact
BY TreeInvariance, PTL DEF TreeInv, WalkInv

\* However libraries come and go, one that a tree of xh_core.c records at the
\* address where it is loaded is hooked, unless hooking it failed or it was
\* loaded again at the same address.
THEOREM TrackedAlwaysHooked == Spec => []TrackedHooked
<1>1. TreeInv => TrackedHooked
  BY DEF TreeInv, TrackedInv, TrackedOrPending, Pending, TrackedHooked
<1>2. QED
  BY <1>1, TreeInvariance, PTL
=============================================================================
