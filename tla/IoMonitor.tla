----------------------------- MODULE IoMonitor -----------------------------
(***************************************************************************)
(* The proxies native-lib.cpp puts in front of open, open64, read, write   *)
(* and close, and info_map_, the table they share, run by several threads. *)
(*                                                                         *)
(* A descriptor belongs to no thread: any thread may read, write or close  *)
(* any number at any time, also while a call of another one is about it.   *)
(* The kernel gives a number out again as soon as it is closed, and        *)
(* ProxyClose closes before it looks at info_map_: the table and the       *)
(* kernel disagree until it erases the entry.  No lock protects info_map_. *)
(* A step is one operation on it (find, operator[], insert, erase) or one  *)
(* system call, and operations on the table do not overlap: what goes      *)
(* wrong here goes wrong even when they are atomic.                        *)
(*                                                                         *)
(* An entry is abstracted to the file whose path it records; what it       *)
(* counts is the subject of IoInfo.                                        *)
(***************************************************************************)
EXTENDS Naturals, FiniteSets

CONSTANTS Threads,
          Fds,        \* file descriptor numbers
          Files,      \* paths
          Closed,     \* a number the kernel has not given out
          Absent,     \* a number info_map_ has no key for
          NoFd        \* no descriptor under way

ASSUME MonitorAssumption ==
  /\ Closed \notin Files /\ Absent \notin Files \cup {Closed}
  /\ NoFd \notin Fds

VARIABLES pc,
          fd,          \* descriptor a thread's call is about
          file,        \* file it was open at when the original call was made
          kernel,      \* file open at each number
          info_map,    \* info_map_: path in the entry of each number
          crashed,     \* number for which operator[] returned a null pointer
          proxied,     \* history: open descriptors that ProxyOpen returned
          (* History: the numbers at which something happened.             *)
          reused,      \* given out again while a ProxyClose was about them
          overlapped,  \* closed while another read, write or close was
          snatched,    \* closed before the open that got them had returned
          orphaned,    \* closed without the proxy while they had an entry
          mistaken     \* something was counted for another file

vars == <<pc, fd, file, kernel, info_map, crashed, proxied, reused, overlapped,
          snatched, orphaned, mistaken>>

Opening == {"open_find", "open_insert"}
Counting == {"rw_find", "count_find", "count_update"}
InClose == {"close_find", "close_update", "close_erase"}

Init ==
  /\ pc = [t \in Threads |-> "idle"]
  /\ fd = [t \in Threads |-> NoFd]
  /\ file = [t \in Threads |-> Closed]
  /\ kernel = [f \in Fds |-> Closed]
  /\ info_map = [f \in Fds |-> Absent]
  /\ crashed = NoFd
  /\ proxied = {}
  /\ reused = {} /\ overlapped = {} /\ snatched = {} /\ orphaned = {}
  /\ mistaken = {}

Found(f) == info_map[f] # Absent

At(t, label) == pc[t] = label /\ crashed = NoFd

Goto(t, label) == pc' = [pc EXCEPT ![t] = label]

\* A proxy goes on to label with what its original call was about.
Begin(t, f, g, label) ==
  /\ Goto(t, label)
  /\ fd' = [fd EXCEPT ![t] = f]
  /\ file' = [file EXCEPT ![t] = g]

Return(t) == Begin(t, NoFd, Closed, "idle")

\* A call about f is at one of the labels.
Busy(f, labels) == \E t \in Threads : pc[t] \in labels /\ fd[t] = f

\* The set of numbers, with f if something happened to it.
Mark(numbers, f, happened) == IF happened THEN numbers \cup {f} ELSE numbers

\* The kernel opens g at a number that is not in use.
KernelOpens(f, g) ==
  /\ kernel[f] = Closed
  /\ kernel' = [kernel EXCEPT ![f] = g]
  /\ reused' = Mark(reused, f, Busy(f, InClose))

\* At a number that is not open close fails, and it stays so.
KernelCloses(f) ==
  /\ kernel' = [kernel EXCEPT ![f] = Closed]
  /\ overlapped' = Mark(overlapped, f, Busy(f, Counting \cup InClose))
  /\ snatched' = Mark(snatched, f, Busy(f, Opening))
  /\ proxied' = proxied \ {f}

-----------------------------------------------------------------------------
(* ProxyOpen.  A call that fails changes nothing.                          *)

Open(t, f, g) ==
  /\ At(t, "idle")
  /\ KernelOpens(f, g)
  /\ Begin(t, f, g, "open_find")
  /\ UNCHANGED <<info_map, crashed, proxied, overlapped, snatched, orphaned,
                 mistaken>>

\* The caller gets the descriptor.
OpenReturn(t) ==
  /\ Return(t)
  /\ proxied' = proxied \cup {fd[t]}

\* An entry that is already there is left as it is.
OpenFound(t) ==
  /\ At(t, "open_find")
  /\ Found(fd[t])
  /\ OpenReturn(t)
  /\ UNCHANGED <<kernel, info_map, crashed, reused, overlapped, snatched,
                 orphaned, mistaken>>

OpenNotFound(t) ==
  /\ At(t, "open_find")
  /\ ~ Found(fd[t])
  /\ Goto(t, "open_insert")
  /\ UNCHANGED <<fd, file, kernel, info_map, crashed, proxied, reused,
                 overlapped, snatched, orphaned, mistaken>>

\* Mutant: the entry is made and dropped, as in ProxyOpen64.
OpenInsertDropped(t) ==
  /\ At(t, "open_insert")
  /\ OpenReturn(t)
  /\ UNCHANGED <<kernel, info_map, crashed, reused, overlapped, snatched,
                 orphaned, mistaken>>

\* insert does not replace an entry.
OpenInsert(t) ==
  /\ At(t, "open_insert")
  /\ info_map' = IF Found(fd[t])
                   THEN info_map
                   ELSE [info_map EXCEPT ![fd[t]] = file[t]]
  /\ OpenReturn(t)
  /\ UNCHANGED <<kernel, crashed, reused, overlapped, snatched, orphaned,
                 mistaken>>

\* ProxyOpen64 makes an entry for a descriptor it does not find, and drops it.
Open64(t, f, g) ==
  /\ At(t, "idle")
  /\ KernelOpens(f, g)
  /\ UNCHANGED <<pc, fd, file, info_map, crashed, proxied, overlapped,
                 snatched, orphaned, mistaken>>

-----------------------------------------------------------------------------
(* ProxyRead, ProxyReadChk, ProxyWrite and ProxyWriteChk, which differ in  *)
(* what they count only, and CountRWInfo.                                  *)

\* The original read or write succeeds: the number is open.
ReadWrite(t, f) ==
  /\ At(t, "idle")
  /\ kernel[f] # Closed
  /\ Begin(t, f, kernel[f], "rw_find")
  /\ UNCHANGED <<kernel, info_map, crashed, proxied, reused, overlapped,
                 snatched, orphaned, mistaken>>

\* Mutant: a descriptor that is not found is used all the same.
FindIgnored(t, label, next) ==
  /\ At(t, label)
  /\ Goto(t, next)
  /\ UNCHANGED <<fd, file, kernel, info_map, crashed, proxied, reused,
                 overlapped, snatched, orphaned, mistaken>>

\* The find of the proxy, then the find of CountRWInfo.
Find(t, label, next) ==
  /\ At(t, label)
  /\ IF Found(fd[t])
       THEN Goto(t, next) /\ UNCHANGED <<fd, file>>
       ELSE Return(t)
  /\ UNCHANGED <<kernel, info_map, crashed, proxied, reused, overlapped,
                 snatched, orphaned, mistaken>>

\* One of the many info_map_[fd]->.  With the key absent operator[] makes a
\* null entry, and the process is over.
Use(t) ==
  /\ crashed' = IF Found(fd[t]) THEN crashed ELSE fd[t]
  /\ mistaken' = Mark(mistaken, fd[t], info_map[fd[t]] \notin {Absent, file[t]})

\* A use that is the last one, or not.

Count(t) ==
  /\ At(t, "count_update")
  /\ Use(t)
  /\ Return(t) \/ UNCHANGED <<pc, fd, file>>
  /\ UNCHANGED <<kernel, info_map, proxied, reused, overlapped, snatched,
                 orphaned>>

-----------------------------------------------------------------------------
(* ProxyClose                                                              *)

\* The original close comes first: the number is free from here on.  What it
\* returns is not tested: a close that failed goes on all the same.
Close(t, f) ==
  /\ At(t, "idle")
  /\ KernelCloses(f)
  /\ Begin(t, f, kernel[f], "close_find")
  /\ UNCHANGED <<info_map, crashed, reused, orphaned, mistaken>>

\* total_cost and file_size are stored through info_map_[fd].
CloseUpdate(t) ==
  /\ At(t, "close_update")
  /\ Use(t)
  /\ Goto(t, "close_erase") \/ UNCHANGED pc
  /\ UNCHANGED <<fd, file, kernel, info_map, proxied, reused, overlapped,
                 snatched, orphaned>>

\* Mutant: the entry is not erased.
CloseNoErase(t) ==
  /\ At(t, "close_erase")
  /\ Return(t)
  /\ UNCHANGED <<kernel, info_map, crashed, proxied, reused, overlapped,
                 snatched, orphaned, mistaken>>

CloseErase(t) ==
  /\ At(t, "close_erase")
  /\ info_map' = [info_map EXCEPT ![fd[t]] = Absent]
  /\ Return(t)
  /\ UNCHANGED <<kernel, crashed, proxied, reused, overlapped, snatched,
                 orphaned, mistaken>>

-----------------------------------------------------------------------------
(* Calls from libraries whose GOT is not hooked: the same descriptors, and *)
(* no proxy.                                                               *)

UnhookedOpen(t, f, g) ==
  /\ At(t, "idle")
  /\ KernelOpens(f, g)
  /\ UNCHANGED <<pc, fd, file, info_map, crashed, proxied, overlapped,
                 snatched, orphaned, mistaken>>

UnhookedClose(t, f) ==
  /\ At(t, "idle")
  /\ kernel[f] # Closed
  /\ KernelCloses(f)
  /\ orphaned' = Mark(orphaned, f, Found(f))
  /\ UNCHANGED <<pc, fd, file, info_map, crashed, reused, mistaken>>

-----------------------------------------------------------------------------
Step(t) ==
  \/ OpenFound(t) \/ OpenNotFound(t) \/ OpenInsert(t)
  \/ Find(t, "rw_find", "count_find") \/ Find(t, "count_find", "count_update")
  \/ Count(t)
  \/ Find(t, "close_find", "close_update") \/ CloseUpdate(t) \/ CloseErase(t)

Call(t) ==
  \E f \in Fds :
    \/ ReadWrite(t, f) \/ Close(t, f) \/ UnhookedClose(t, f)
    \/ \E g \in Files : Open(t, f, g) \/ Open64(t, f, g) \/ UnhookedOpen(t, f, g)

Next == \E t \in Threads : Call(t) \/ Step(t)

Spec == Init /\ [][Next]_vars

-----------------------------------------------------------------------------
\* Every variable stays in its type.
TypeOK ==
  /\ pc \in [Threads -> {"idle"} \cup Opening \cup Counting \cup InClose]
  /\ fd \in [Threads -> Fds \cup {NoFd}]
  /\ file \in [Threads -> Files \cup {Closed}]
  /\ kernel \in [Fds -> Files \cup {Closed}]
  /\ info_map \in [Fds -> Files \cup {Absent}]
  /\ crashed \in Fds \cup {NoFd}
  /\ proxied \subseteq Fds /\ mistaken \subseteq Fds
  /\ reused \subseteq Fds /\ overlapped \subseteq Fds
  /\ snatched \subseteq Fds /\ orphaned \subseteq Fds

\* The table does not leak: an entry is there only for a number that is open
\* or whose ProxyClose has yet to erase it, unless that number was closed
\* without the proxy, or before the open that got it had returned.
EntriesAccounted ==
  \A f \in Fds \ (orphaned \cup snatched) :
    Found(f) => kernel[f] # Closed \/ Busy(f, InClose)

\* The proxies dereference a null entry only at a number that was closed during
\* another call about it, or given out again inside ProxyClose's window; what
\* happens at other numbers does no harm to this one.
FaultOnlyByOverlap == crashed # NoFd => crashed \in reused \cup overlapped

\* An operation, or the time between open and close, is counted for another
\* file only at a number where one of the four happened.
MistakeOnlyByOverlap ==
  mistaken \subseteq reused \cup overlapped \cup snatched \cup orphaned

\* A file the application opened through ProxyOpen is in the table under its
\* own path, also where a close overlapped a read, a write or another close.
TrackedUnlessReused ==
  \A f \in proxied \ (reused \cup snatched \cup orphaned) :
    info_map[f] = kernel[f]

=============================================================================
