----------------------------- MODULE XhRefresh -----------------------------
(***************************************************************************)
(* xh_core_refresh_impl: one walk over /proc/self/maps while other threads *)
(* load and unload libraries.  XhCore keeps two walks from overlapping.    *)
(*                                                                         *)
(* A region is one that passes the tests on permissions, offset and path   *)
(* name; it starts with an ELF header or not.  The kernel lists regions by *)
(* address, and fgets reads them through a buffer: what a line says was    *)
(* true when the buffer was filled.  The two red-black trees are functions *)
(* from libraries (path names) to the recorded base address.  SIGSEGV      *)
(* protection is on: a fault ends the check or the hooking of a library.   *)
(* A walk for which fopen fails changes nothing.                           *)
(***************************************************************************)
EXTENDS Naturals

CONSTANTS Libs,
          Needed,     \* libraries with a hook to apply: XhSelect's NeedHook
          LastAddr,   \* bound on addresses
          NoRegion,   \* an address no region starts at
          NoBase      \* a library that is not in the tree

Addrs == 1..LastAddr

Region == [lib : Libs, elf : BOOLEAN]

ASSUME RefreshAssumption ==
  /\ Needed \subseteq Libs
  /\ LastAddr \in Nat
  /\ NoRegion \notin Region
  /\ NoBase \notin Addrs

VARIABLES pc,
          maps,       \* region that starts at each address
          lines,      \* buffered lines yet to be processed
          pos,        \* address of the last line that was buffered
          map_info, refreshed,
          hooked,     \* addresses of the regions whose GOT was replaced
          missed,     \* history: libraries hooked in part, or loaded again
                      \* at the address recorded for them
          disturbed,  \* history: the regions changed, or memory ran out,
                      \* since the last walk began
          overlaid    \* history: a region was mapped where an unprocessed
                      \* line tells of another

histVars == <<missed, disturbed, overlaid>>

vars == <<pc, maps, lines, pos, map_info, refreshed, hooked, histVars>>

Empty == [l \in Libs |-> NoBase]

Init ==
  /\ pc = "idle"
  /\ maps = [a \in Addrs |-> NoRegion]
  /\ lines = {}
  /\ pos = 0
  /\ map_info = Empty /\ refreshed = Empty
  /\ hooked = {}
  /\ missed = {}
  /\ disturbed = TRUE
  /\ overlaid = FALSE

Mapped(a) == maps[a] # NoRegion

IsElf(a) == Mapped(a) /\ maps[a].elf

-----------------------------------------------------------------------------
(* The walk.                                                               *)

Begin ==
  /\ pc = "idle"
  /\ lines' = {} /\ pos' = 0
  /\ refreshed' = Empty
  /\ disturbed' = FALSE
  /\ pc' = "line"
  /\ UNCHANGED <<maps, map_info, hooked, missed, overlaid>>

Unread == {a \in Addrs : a > pos /\ Mapped(a)}

\* The buffer is filled with some of the regions that follow.
Fill ==
  /\ pc = "line"
  /\ lines = {}
  /\ \E last \in Unread :
       /\ lines' = {[addr |-> a, lib |-> maps[a].lib] :
                      a \in {b \in Unread : b <= last}}
       /\ pos' = last
  /\ UNCHANGED <<pc, maps, map_info, refreshed, hooked, histVars>>

IsFirst(line) == \A other \in lines : line.addr <= other.addr

Drop(line) == lines' = lines \ {line}

\* fgets returns a line.
Read(line) == pc = "line" /\ line \in lines /\ IsFirst(line)

\* No hook is needed, or the header is not an ELF header or cannot be read.
LineSkipped(line) ==
  /\ Read(line)
  /\ line.lib \notin Needed \/ ~ IsElf(line.addr)
  /\ Drop(line)
  /\ UNCHANGED <<pc, maps, pos, map_info, refreshed, hooked, histVars>>

\* Mutant: NeedHook is not asked.
AcceptedUnneeded(line) ==
  /\ Read(line)
  /\ IsElf(line.addr)

Accepted(line) ==
  /\ Read(line)
  /\ line.lib \in Needed
  /\ IsElf(line.addr)

Record(line) == refreshed' = [refreshed EXCEPT ![line.lib] = line.addr]

\* Mutant: the library is not removed from the old tree.
LineTrackedKept(line) ==
  /\ Accepted(line)
  /\ map_info[line.lib] # NoBase
  /\ refreshed[line.lib] = NoBase
  /\ Record(line)
  /\ IF map_info[line.lib] # line.addr
       THEN pc' = "hook" /\ UNCHANGED lines
       ELSE Drop(line) /\ UNCHANGED pc
  /\ UNCHANGED <<maps, pos, map_info, hooked, histVars>>

\* Mutant: a library whose base address changed is not hooked again.
LineTrackedOnly(line) ==
  /\ Accepted(line)
  /\ map_info[line.lib] # NoBase
  /\ map_info' = [map_info EXCEPT ![line.lib] = NoBase]
  /\ refreshed[line.lib] = NoBase
  /\ Record(line)
  /\ Drop(line)
  /\ UNCHANGED <<pc, maps, pos, hooked, histVars>>

\* A library of the old tree moves to the new one, and is hooked again if its
\* base address changed.
LineTracked(line) ==
  /\ Accepted(line)
  /\ map_info[line.lib] # NoBase
  /\ map_info' = [map_info EXCEPT ![line.lib] = NoBase]
  /\ refreshed[line.lib] = NoBase
  /\ Record(line)
  /\ IF map_info[line.lib] # line.addr
       THEN pc' = "hook" /\ UNCHANGED lines
       ELSE Drop(line) /\ UNCHANGED pc
  /\ UNCHANGED <<maps, pos, hooked, histVars>>

LineNew(line) ==
  /\ Accepted(line)
  /\ map_info[line.lib] = NoBase
  /\ refreshed[line.lib] = NoBase
  /\ Record(line)
  /\ pc' = "hook"
  /\ UNCHANGED <<maps, lines, pos, map_info, hooked, histVars>>

\* Mutant: the base address of the last line is kept.
LineRepeatedLast(line) ==
  /\ Accepted(line)
  /\ refreshed[line.lib] # NoBase
  /\ map_info' = [map_info EXCEPT ![line.lib] = NoBase]
  /\ Record(line)
  /\ Drop(line)
  /\ UNCHANGED <<pc, maps, pos, hooked, histVars>>

\* "We only keep the first one, that is the real base address": the entry,
\* taken out of the old tree or made for this line, is freed.
LineRepeated(line) ==
  /\ Accepted(line)
  /\ refreshed[line.lib] # NoBase
  /\ map_info' = [map_info EXCEPT ![line.lib] = NoBase]
  /\ Drop(line)
  /\ UNCHANGED <<pc, maps, pos, refreshed, hooked, histVars>>

\* No memory for a new entry: the line is passed over.
LineNoMemory(line) ==
  /\ Accepted(line)
  /\ map_info[line.lib] = NoBase
  /\ Drop(line)
  /\ disturbed' = TRUE
  /\ UNCHANGED <<pc, maps, pos, map_info, refreshed, hooked, missed, overlaid>>

\* xh_core_hook, on whatever is at the recorded address by now.
Hook(line) ==
  /\ pc = "hook"
  /\ line \in lines /\ IsFirst(line)
  /\ IsElf(line.addr)
  /\ hooked' = hooked \cup {line.addr}
  /\ missed' = missed \ {line.lib}
  /\ Drop(line)
  /\ pc' = "line"
  /\ UNCHANGED <<maps, pos, map_info, refreshed, disturbed, overlaid>>

\* xh_elf_init or xh_elf_hook fails, or a SIGSEGV is caught, before or after
\* slots were replaced.
HookFails(line) ==
  /\ pc = "hook"
  /\ line \in lines /\ IsFirst(line)
  /\ hooked' \in {hooked} \cup (IF IsElf(line.addr)
                                  THEN {hooked \cup {line.addr}} ELSE {})
  /\ missed' = missed \cup {line.lib}
  /\ Drop(line)
  /\ pc' = "line"
  /\ UNCHANGED <<maps, pos, map_info, refreshed, disturbed, overlaid>>

\* What is left in the old tree is freed, and the new tree is saved.
End ==
  /\ pc = "line"
  /\ lines = {} /\ Unread = {}
  /\ map_info' = refreshed
  /\ refreshed' = Empty
  /\ pc' = "idle"
  /\ UNCHANGED <<maps, lines, pos, hooked, histVars>>

-----------------------------------------------------------------------------
(* The rest of the process: dlopen and dlclose.                            *)

Map(a, region) ==
  /\ ~ Mapped(a)
  /\ maps' = [maps EXCEPT ![a] = region]
  /\ missed' = IF a \in {map_info[region.lib], refreshed[region.lib]}
                 THEN missed \cup {region.lib} ELSE missed
  /\ disturbed' = TRUE
  /\ overlaid' = (overlaid \/ \E line \in lines : line.addr = a)
  /\ UNCHANGED <<pc, lines, pos, map_info, refreshed, hooked>>

Unmap(a) ==
  /\ Mapped(a)
  /\ maps' = [maps EXCEPT ![a] = NoRegion]
  /\ hooked' = hooked \ {a}
  /\ disturbed' = TRUE
  /\ UNCHANGED <<pc, lines, pos, map_info, refreshed, missed, overlaid>>

-----------------------------------------------------------------------------
Process(line) ==
  \/ LineSkipped(line) \/ LineTracked(line) \/ LineNew(line)
  \/ LineRepeated(line) \/ LineNoMemory(line)
  \/ Hook(line) \/ HookFails(line)

Next ==
  \/ Begin \/ Fill \/ End
  \/ \E line \in lines : Process(line)
  \/ \E a \in Addrs : Unmap(a) \/ \E region \in Region : Map(a, region)

Spec == Init /\ [][Next]_vars

-----------------------------------------------------------------------------
Line == [addr : Addrs, lib : Libs]

Tree == [Libs -> Addrs \cup {NoBase}]

\* Every variable stays in its type.
TypeOK ==
  /\ pc \in {"idle", "line", "hook"}
  /\ maps \in [Addrs -> Region \cup {NoRegion}]
  /\ lines \in SUBSET Line
  /\ pos \in Addrs \cup {0}
  /\ map_info \in Tree /\ refreshed \in Tree
  /\ hooked \in SUBSET Addrs
  /\ missed \in SUBSET Libs
  /\ disturbed \in BOOLEAN /\ overlaid \in BOOLEAN

\* A library is never in the old and the new tree: an entry found in the old
\* one can always be inserted in the new one, and is never freed while the
\* library is hooked.
TreesDisjoint == \A l \in Libs : map_info[l] = NoBase \/ refreshed[l] = NoBase

ElfsOf(l) == {a \in Addrs : IsElf(a) /\ maps[a].lib = l}

\* When the process changed nothing meanwhile, the tree that a refresh leaves
\* holds the needed libraries that are loaded, each at its first address, and
\* no other.
QuietExact ==
  pc = "idle" /\ ~ disturbed =>
    \A l \in Libs :
      IF l \in Needed /\ ElfsOf(l) # {}
        THEN map_info[l] \in ElfsOf(l) /\ \A a \in ElfsOf(l) : map_info[l] <= a
        ELSE map_info[l] = NoBase

\* A library of a tree is hooked at the address the tree records, if it is
\* there: reloading it somewhere else never leaves the new image unhooked
\* under the old record.  Not so after a failure, or when it was reloaded at
\* the same address.
TrackedHooked ==
  pc # "hook" =>
    \A l \in Libs \ missed : \A a \in {map_info[l], refreshed[l]} \ {NoBase} :
      a \in ElfsOf(l) => a \in hooked

\* A library that needs no hook is never hooked, unless it is mapped where
\* a line that was already read tells of another one.
StrangerOnlyByOverlay ==
  \A a \in hooked : maps[a].lib \in Needed \/ overlaid

=============================================================================
