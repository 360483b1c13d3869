-------------------------- MODULE IoMonitorProofs --------------------------
(***************************************************************************)
(* Theorems of IoMonitor, for any threads, descriptors and files: what can *)
(* go wrong in the proxies, and when.  Nothing is assumed about which      *)
(* thread uses which descriptor.                                           *)
(***************************************************************************)
EXTENDS IoMonitor, TLAPS

CallsTyped ==
  \A t \in Threads :
    /\ pc[t] # "idle" => fd[t] \in Fds
    /\ pc[t] \in Opening \cup Counting => file[t] \in Files

\* A number that was not reused in its window stays closed inside it; a call
\* of another thread that is about it then is one that its close overlapped;
\* and unless there was one, what was found is still there.
Undisturbed ==
  /\ \A t \in Threads :
       pc[t] \in InClose => fd[t] \in reused \/ kernel[fd[t]] = Closed
  /\ \A t, u \in Threads :
       t # u /\ pc[t] \in InClose /\ pc[u] \in Counting \cup InClose
             /\ fd[t] = fd[u] => fd[t] \in reused \cup overlapped
  /\ \A t \in Threads :
       pc[t] \in {"count_update", "close_update"} =>
         Found(fd[t]) \/ fd[t] \in reused \cup overlapped
  /\ FaultOnlyByOverlap

Sound(f) == f \notin reused \cup snatched \cup orphaned

\* The table agrees with the kernel: an entry is that of the file open at its
\* number, unless it is about to be erased, and every file opened through
\* ProxyOpen has one as soon as the caller has the descriptor.
Agrees ==
  /\ \A f \in Fds : Sound(f) /\ Found(f) /\ ~ Busy(f, InClose) =>
       info_map[f] = kernel[f]
  /\ \A t \in Threads : pc[t] \in Opening /\ Sound(fd[t]) =>
       /\ ~ Found(fd[t]) /\ kernel[fd[t]] = file[t]
       /\ \A u \in Threads : fd[u] = fd[t] /\ u # t =>
            pc[u] \notin InClose \cup Opening
  /\ \A f \in proxied : Sound(f) =>
       Found(f) /\ kernel[f] # Closed /\ ~ Busy(f, InClose)

\* A call is about the file it was about at first, and nobody closes its number
\* meanwhile.
Counts ==
  /\ \A t \in Threads :
       pc[t] \in Counting /\ Sound(fd[t]) /\ fd[t] \notin overlapped =>
         kernel[fd[t]] = file[t] /\ ~ Busy(fd[t], InClose)
  /\ \A t \in Threads :
       pc[t] \in InClose /\ Sound(fd[t]) /\ fd[t] \notin overlapped =>
         info_map[fd[t]] \in {Absent, file[t]}
  /\ MistakeOnlyByOverlap

\* An entry is made for a number that is open.
Accounted ==
  /\ EntriesAccounted
  /\ \A t \in Threads :
       pc[t] \in Opening => fd[t] \in snatched \/ kernel[fd[t]] # Closed

Inv ==
  TypeOK /\ CallsTyped /\ Undisturbed /\ Agrees /\ Counts /\ Accounted

USE DEF At, Goto

LEMMA TypeStep ==
  ASSUME TypeOK, CallsTyped, [Next]_vars
  PROVE  TypeOK'
<1> USE MonitorAssumption
    DEF TypeOK, CallsTyped, Opening, Counting, InClose, Mark
<1>1. ASSUME NEW t \in Threads, NEW f \in Fds, NEW g \in Files, Open(t, f, g)
      PROVE  TypeOK'
  BY <1>1 DEF Open, KernelOpens, Begin
<1>2. ASSUME NEW t \in Threads, OpenFound(t)
      PROVE  TypeOK'
  BY <1>2 DEF OpenFound, OpenReturn, Return, Begin
<1>3. ASSUME NEW t \in Threads, OpenNotFound(t)
      PROVE  TypeOK'
  BY <1>3 DEF OpenNotFound
<1>4. ASSUME NEW t \in Threads, OpenInsert(t)
      PROVE  TypeOK'
  BY <1>4 DEF OpenInsert, OpenReturn, Return, Begin
<1>5. ASSUME NEW t \in Threads, NEW f \in Fds, NEW g \in Files, Open64(t, f, g)
      PROVE  TypeOK'
  BY <1>5 DEF Open64, KernelOpens
<1>6. ASSUME NEW t \in Threads, NEW f \in Fds, ReadWrite(t, f)
      PROVE  TypeOK'
  BY <1>6 DEF ReadWrite, Begin
<1>7. ASSUME NEW t \in Threads, Find(t, "rw_find", "count_find")
      PROVE  TypeOK'
  BY <1>7 DEF Find, Return, Begin
<1>8. ASSUME NEW t \in Threads, Find(t, "count_find", "count_update")
      PROVE  TypeOK'
  BY <1>8 DEF Find, Return, Begin
<1>9. ASSUME NEW t \in Threads, Count(t)
      PROVE  TypeOK'
  BY <1>9 DEF Count, Use, Return, Begin
<1>10. ASSUME NEW t \in Threads, NEW f \in Fds, Close(t, f)
      PROVE  TypeOK'
  BY <1>10 DEF Close, KernelCloses, Begin
<1>11. ASSUME NEW t \in Threads, Find(t, "close_find", "close_update")
      PROVE  TypeOK'
  BY <1>11 DEF Find, Return, Begin
<1>12. ASSUME NEW t \in Threads, CloseUpdate(t)
      PROVE  TypeOK'
  BY <1>12 DEF CloseUpdate, Use
<1>13. ASSUME NEW t \in Threads, CloseErase(t)
      PROVE  TypeOK'
  BY <1>13 DEF CloseErase, Return, Begin
<1>14. ASSUME NEW t \in Threads, NEW f \in Fds, NEW g \in Files, UnhookedOpen(t, f, g)
      PROVE  TypeOK'
  BY <1>14 DEF UnhookedOpen, KernelOpens
<1>15. ASSUME NEW t \in Threads, NEW f \in Fds, UnhookedClose(t, f)
      PROVE  TypeOK'
  BY <1>15 DEF UnhookedClose, KernelCloses
<1>16. CASE UNCHANGED vars
  BY <1>16 DEF vars
<1> QED
  BY <1>1, <1>2, <1>3, <1>4, <1>5, <1>6, <1>7, <1>8, <1>9, <1>10, <1>11,
     <1>12, <1>13, <1>14, <1>15, <1>16 DEF Next, Call, Step

LEMMA CallsStep ==
  ASSUME TypeOK, CallsTyped, [Next]_vars
  PROVE  CallsTyped'
<1> USE MonitorAssumption
    DEF TypeOK, CallsTyped, Opening, Counting, InClose
<1>1. ASSUME NEW t \in Threads, NEW f \in Fds, NEW g \in Files, Open(t, f, g)
      PROVE  CallsTyped'
  BY <1>1 DEF Open, KernelOpens, Begin
<1>2. ASSUME NEW t \in Threads, OpenFound(t)
      PROVE  CallsTyped'
  BY <1>2 DEF OpenFound, OpenReturn, Return, Begin
<1>3. ASSUME NEW t \in Threads, OpenNotFound(t)
      PROVE  CallsTyped'
  BY <1>3 DEF OpenNotFound
<1>4. ASSUME NEW t \in Threads, OpenInsert(t)
      PROVE  CallsTyped'
  BY <1>4 DEF OpenInsert, OpenReturn, Return, Begin
<1>5. ASSUME NEW t \in Threads, NEW f \in Fds, NEW g \in Files, Open64(t, f, g)
      PROVE  CallsTyped'
  BY <1>5 DEF Open64, KernelOpens
<1>6. ASSUME NEW t \in Threads, NEW f \in Fds, ReadWrite(t, f)
      PROVE  CallsTyped'
  BY <1>6 DEF ReadWrite, Begin
<1>7. ASSUME NEW t \in Threads, Find(t, "rw_find", "count_find")
      PROVE  CallsTyped'
  BY <1>7 DEF Find, Return, Begin
<1>8. ASSUME NEW t \in Threads, Find(t, "count_find", "count_update")
      PROVE  CallsTyped'
  BY <1>8 DEF Find, Return, Begin
<1>9. ASSUME NEW t \in Threads, Count(t)
      PROVE  CallsTyped'
  BY <1>9 DEF Count, Use, Return, Begin
<1>10. ASSUME NEW t \in Threads, NEW f \in Fds, Close(t, f)
      PROVE  CallsTyped'
  BY <1>10 DEF Close, KernelCloses, Begin
<1>11. ASSUME NEW t \in Threads, Find(t, "close_find", "close_update")
      PROVE  CallsTyped'
  BY <1>11 DEF Find, Return, Begin
<1>12. ASSUME NEW t \in Threads, CloseUpdate(t)
      PROVE  CallsTyped'
  BY <1>12 DEF CloseUpdate, Use
<1>13. ASSUME NEW t \in Threads, CloseErase(t)
      PROVE  CallsTyped'
  BY <1>13 DEF CloseErase, Return, Begin
<1>14. ASSUME NEW t \in Threads, NEW f \in Fds, NEW g \in Files, UnhookedOpen(t, f, g)
      PROVE  CallsTyped'
  BY <1>14 DEF UnhookedOpen, KernelOpens
<1>15. ASSUME NEW t \in Threads, NEW f \in Fds, UnhookedClose(t, f)
      PROVE  CallsTyped'
  BY <1>15 DEF UnhookedClose, KernelCloses
<1>16. CASE UNCHANGED vars
  BY <1>16 DEF vars
<1> QED
  BY <1>1, <1>2, <1>3, <1>4, <1>5, <1>6, <1>7, <1>8, <1>9, <1>10, <1>11,
     <1>12, <1>13, <1>14, <1>15, <1>16 DEF Next, Call, Step

LEMMA UndisturbedStep ==
  ASSUME TypeOK, CallsTyped, Undisturbed, [Next]_vars
  PROVE  Undisturbed'
<1> USE MonitorAssumption
    DEF TypeOK, CallsTyped, Opening, Counting, InClose, Mark,
        Undisturbed, FaultOnlyByOverlap, Found, Busy
<1>1. ASSUME NEW t \in Threads, NEW f \in Fds, NEW g \in Files, Open(t, f, g)
      PROVE  Undisturbed'
  BY <1>1 DEF Open, KernelOpens, Begin
<1>2. ASSUME NEW t \in Threads, OpenFound(t)
      PROVE  Undisturbed'
  BY <1>2 DEF OpenFound, OpenReturn, Return, Begin
<1>3. ASSUME NEW t \in Threads, OpenNotFound(t)
      PROVE  Undisturbed'
  BY <1>3 DEF OpenNotFound
<1>4. ASSUME NEW t \in Threads, OpenInsert(t)
      PROVE  Undisturbed'
  BY <1>4 DEF OpenInsert, OpenReturn, Return, Begin
<1>5. ASSUME NEW t \in Threads, NEW f \in Fds, NEW g \in Files, Open64(t, f, g)
      PROVE  Undisturbed'
  BY <1>5 DEF Open64, KernelOpens
<1>6. ASSUME NEW t \in Threads, NEW f \in Fds, ReadWrite(t, f)
      PROVE  Undisturbed'
  BY <1>6 DEF ReadWrite, Begin
<1>7. ASSUME NEW t \in Threads, Find(t, "rw_find", "count_find")
      PROVE  Undisturbed'
  BY <1>7 DEF Find, Return, Begin
<1>8. ASSUME NEW t \in Threads, Find(t, "count_find", "count_update")
      PROVE  Undisturbed'
  BY <1>8 DEF Find, Return, Begin
<1>9. ASSUME NEW t \in Threads, Count(t)
      PROVE  Undisturbed'
  BY <1>9 DEF Count, Use, Return, Begin
<1>10. ASSUME NEW t \in Threads, NEW f \in Fds, Close(t, f)
      PROVE  Undisturbed'
  BY <1>10 DEF Close, KernelCloses, Begin
<1>11. ASSUME NEW t \in Threads, Find(t, "close_find", "close_update")
      PROVE  Undisturbed'
  BY <1>11 DEF Find, Return, Begin
<1>12. ASSUME NEW t \in Threads, CloseUpdate(t)
      PROVE  Undisturbed'
  BY <1>12 DEF CloseUpdate, Use
<1>13. ASSUME NEW t \in Threads, CloseErase(t)
      PROVE  Undisturbed'
  BY <1>13 DEF CloseErase, Return, Begin
<1>14. ASSUME NEW t \in Threads, NEW f \in Fds, NEW g \in Files, UnhookedOpen(t, f, g)
      PROVE  Undisturbed'
  BY <1>14 DEF UnhookedOpen, KernelOpens
<1>15. ASSUME NEW t \in Threads, NEW f \in Fds, UnhookedClose(t, f)
      PROVE  Undisturbed'
  BY <1>15 DEF UnhookedClose, KernelCloses
<1>16. CASE UNCHANGED vars
  BY <1>16 DEF vars
<1> QED
  BY <1>1, <1>2, <1>3, <1>4, <1>5, <1>6, <1>7, <1>8, <1>9, <1>10, <1>11,
     <1>12, <1>13, <1>14, <1>15, <1>16 DEF Next, Call, Step

LEMMA AgreesStep ==
  ASSUME TypeOK, CallsTyped, Undisturbed, Agrees, [Next]_vars
  PROVE  Agrees'
<1> USE MonitorAssumption
    DEF TypeOK, CallsTyped, Opening, Counting, InClose, Mark,
        Undisturbed, Agrees, Sound, Found, Busy
<1>1. ASSUME NEW t \in Threads, NEW f \in Fds, NEW g \in Files, Open(t, f, g)
      PROVE  Agrees'
  BY <1>1 DEF Open, KernelOpens, Begin
<1>2. ASSUME NEW t \in Threads, OpenFound(t)
      PROVE  Agrees'
  BY <1>2 DEF OpenFound, OpenReturn, Return, Begin
<1>3. ASSUME NEW t \in Threads, OpenNotFound(t)
      PROVE  Agrees'
  BY <1>3 DEF OpenNotFound
<1>4. ASSUME NEW t \in Threads, OpenInsert(t)
      PROVE  Agrees'
  BY <1>4 DEF OpenInsert, OpenReturn, Return, Begin
<1>5. ASSUME NEW t \in Threads, NEW f \in Fds, NEW g \in Files, Open64(t, f, g)
      PROVE  Agrees'
  BY <1>5 DEF Open64, KernelOpens
<1>6. ASSUME NEW t \in Threads, NEW f \in Fds, ReadWrite(t, f)
      PROVE  Agrees'
  BY <1>6 DEF ReadWrite, Begin
<1>7. ASSUME NEW t \in Threads, Find(t, "rw_find", "count_find")
      PROVE  Agrees'
  BY <1>7 DEF Find, Return, Begin
<1>8. ASSUME NEW t \in Threads, Find(t, "count_find", "count_update")
      PROVE  Agrees'
  BY <1>8 DEF Find, Return, Begin
<1>9. ASSUME NEW t \in Threads, Count(t)
      PROVE  Agrees'
  BY <1>9 DEF Count, Use, Return, Begin
<1>10. ASSUME NEW t \in Threads, NEW f \in Fds, Close(t, f)
      PROVE  Agrees'
  BY <1>10 DEF Close, KernelCloses, Begin
<1>11. ASSUME NEW t \in Threads, Find(t, "close_find", "close_update")
      PROVE  Agrees'
  BY <1>11 DEF Find, Return, Begin
<1>12. ASSUME NEW t \in Threads, CloseUpdate(t)
      PROVE  Agrees'
  BY <1>12 DEF CloseUpdate, Use
<1>13. ASSUME NEW t \in Threads, CloseErase(t)
      PROVE  Agrees'
  BY <1>13 DEF CloseErase, Return, Begin
<1>14. ASSUME NEW t \in Threads, NEW f \in Fds, NEW g \in Files, UnhookedOpen(t, f, g)
      PROVE  Agrees'
  BY <1>14 DEF UnhookedOpen, KernelOpens
<1>15. ASSUME NEW t \in Threads, NEW f \in Fds, UnhookedClose(t, f)
      PROVE  Agrees'
  BY <1>15 DEF UnhookedClose, KernelCloses
<1>16. CASE UNCHANGED vars
  BY <1>16 DEF vars
<1> QED
  BY <1>1, <1>2, <1>3, <1>4, <1>5, <1>6, <1>7, <1>8, <1>9, <1>10, <1>11,
     <1>12, <1>13, <1>14, <1>15, <1>16 DEF Next, Call, Step

LEMMA CountsStep ==
  ASSUME TypeOK, CallsTyped, Undisturbed, Agrees, Counts, [Next]_vars
  PROVE  Counts'
<1> USE MonitorAssumption
    DEF TypeOK, CallsTyped, Opening, Counting, InClose, Mark,
        Undisturbed, Agrees, Counts, MistakeOnlyByOverlap, Sound, Found, Busy
<1>1. ASSUME NEW t \in Threads, NEW f \in Fds, NEW g \in Files, Open(t, f, g)
      PROVE  Counts'
  BY <1>1 DEF Open, KernelOpens, Begin
<1>2. ASSUME NEW t \in Threads, OpenFound(t)
      PROVE  Counts'
  BY <1>2 DEF OpenFound, OpenReturn, Return, Begin
<1>3. ASSUME NEW t \in Threads, OpenNotFound(t)
      PROVE  Counts'
  BY <1>3 DEF OpenNotFound
<1>4. ASSUME NEW t \in Threads, OpenInsert(t)
      PROVE  Counts'
  BY <1>4 DEF OpenInsert, OpenReturn, Return, Begin
<1>5. ASSUME NEW t \in Threads, NEW f \in Fds, NEW g \in Files, Open64(t, f, g)
      PROVE  Counts'
  BY <1>5 DEF Open64, KernelOpens
<1>6. ASSUME NEW t \in Threads, NEW f \in Fds, ReadWrite(t, f)
      PROVE  Counts'
  BY <1>6 DEF ReadWrite, Begin
<1>7. ASSUME NEW t \in Threads, Find(t, "rw_find", "count_find")
      PROVE  Counts'
  BY <1>7 DEF Find, Return, Begin
<1>8. ASSUME NEW t \in Threads, Find(t, "count_find", "count_update")
      PROVE  Counts'
  BY <1>8 DEF Find, Return, Begin
<1>9. ASSUME NEW t \in Threads, Count(t)
      PROVE  Counts'
  BY <1>9 DEF Count, Use, Return, Begin
<1>10. ASSUME NEW t \in Threads, NEW f \in Fds, Close(t, f)
      PROVE  Counts'
  BY <1>10 DEF Close, KernelCloses, Begin
<1>11. ASSUME NEW t \in Threads, Find(t, "close_find", "close_update")
      PROVE  Counts'
  BY <1>11 DEF Find, Return, Begin
<1>12. ASSUME NEW t \in Threads, CloseUpdate(t)
      PROVE  Counts'
  BY <1>12 DEF CloseUpdate, Use
<1>13. ASSUME NEW t \in Threads, CloseErase(t)
      PROVE  Counts'
  BY <1>13 DEF CloseErase, Return, Begin
<1>14. ASSUME NEW t \in Threads, NEW f \in Fds, NEW g \in Files, UnhookedOpen(t, f, g)
      PROVE  Counts'
  BY <1>14 DEF UnhookedOpen, KernelOpens
<1>15. ASSUME NEW t \in Threads, NEW f \in Fds, UnhookedClose(t, f)
      PROVE  Counts'
  BY <1>15 DEF UnhookedClose, KernelCloses
<1>16. CASE UNCHANGED vars
  BY <1>16 DEF vars
<1> QED
  BY <1>1, <1>2, <1>3, <1>4, <1>5, <1>6, <1>7, <1>8, <1>9, <1>10, <1>11,
     <1>12, <1>13, <1>14, <1>15, <1>16 DEF Next, Call, Step

LEMMA AccountedStep ==
  ASSUME TypeOK, CallsTyped, Accounted, [Next]_vars
  PROVE  Accounted'
<1> USE MonitorAssumption
    DEF TypeOK, CallsTyped, Opening, Counting, InClose, Mark,
        Accounted, EntriesAccounted, Found, Busy
<1>1. ASSUME NEW t \in Threads, NEW f \in Fds, NEW g \in Files, Open(t, f, g)
      PROVE  Accounted'
  BY <1>1 DEF Open, KernelOpens, Begin
<1>2. ASSUME NEW t \in Threads, OpenFound(t)
      PROVE  Accounted'
  BY <1>2 DEF OpenFound, OpenReturn, Return, Begin
<1>3. ASSUME NEW t \in Threads, OpenNotFound(t)
      PROVE  Accounted'
  BY <1>3 DEF OpenNotFound
<1>4. ASSUME NEW t \in Threads, OpenInsert(t)
      PROVE  Accounted'
  BY <1>4 DEF OpenInsert, OpenReturn, Return, Begin
<1>5. ASSUME NEW t \in Threads, NEW f \in Fds, NEW g \in Files, Open64(t, f, g)
      PROVE  Accounted'
  BY <1>5 DEF Open64, KernelOpens
<1>6. ASSUME NEW t \in Threads, NEW f \in Fds, ReadWrite(t, f)
      PROVE  Accounted'
  BY <1>6 DEF ReadWrite, Begin
<1>7. ASSUME NEW t \in Threads, Find(t, "rw_find", "count_find")
      PROVE  Accounted'
  BY <1>7 DEF Find, Return, Begin
<1>8. ASSUME NEW t \in Threads, Find(t, "count_find", "count_update")
      PROVE  Accounted'
  BY <1>8 DEF Find, Return, Begin
<1>9. ASSUME NEW t \in Threads, Count(t)
      PROVE  Accounted'
  BY <1>9 DEF Count, Use, Return, Begin
<1>10. ASSUME NEW t \in Threads, NEW f \in Fds, Close(t, f)
      PROVE  Accounted'
  BY <1>10 DEF Close, KernelCloses, Begin
<1>11. ASSUME NEW t \in Threads, Find(t, "close_find", "close_update")
      PROVE  Accounted'
  BY <1>11 DEF Find, Return, Begin
<1>12. ASSUME NEW t \in Threads, CloseUpdate(t)
      PROVE  Accounted'
  BY <1>12 DEF CloseUpdate, Use
<1>13. ASSUME NEW t \in Threads, CloseErase(t)
      PROVE  Accounted'
  BY <1>13 DEF CloseErase, Return, Begin
<1>14. ASSUME NEW t \in Threads, NEW f \in Fds, NEW g \in Files, UnhookedOpen(t, f, g)
      PROVE  Accounted'
  BY <1>14 DEF UnhookedOpen, KernelOpens
<1>15. ASSUME NEW t \in Threads, NEW f \in Fds, UnhookedClose(t, f)
      PROVE  Accounted'
  BY <1>15 DEF UnhookedClose, KernelCloses
<1>16. CASE UNCHANGED vars
  BY <1>16 DEF vars
<1> QED
  BY <1>1, <1>2, <1>3, <1>4, <1>5, <1>6, <1>7, <1>8, <1>9, <1>10, <1>11,
     <1>12, <1>13, <1>14, <1>15, <1>16 DEF Next, Call, Step

LEMMA InvInit == Init => Inv
<1> SUFFICES ASSUME Init PROVE Inv
  OBVIOUS
<1> USE MonitorAssumption DEF Init, Opening, Counting, InClose, Found, Busy
<1>1. TypeOK /\ CallsTyped
  BY DEF TypeOK, CallsTyped
<1>2. Undisturbed /\ Agrees
  BY DEF Undisturbed, FaultOnlyByOverlap, Agrees, Sound
<1>3. Counts /\ Accounted
  BY DEF Counts, MistakeOnlyByOverlap, Accounted, EntriesAccounted
<1> QED
  BY <1>1, <1>2, <1>3 DEF Inv

LEMMA InvStep == Inv /\ [Next]_vars => Inv'
BY TypeStep, CallsStep, UndisturbedStep, AgreesStep, CountsStep, AccountedStep
   DEF Inv

LEMMA InvAlways == Spec => []Inv
BY InvInit, InvStep, PTL DEF Spec

\* No proxy of native-lib.cpp uses a null IOInfo but at a number that another
\* thread closed during a call about it, or that the kernel gave out again
\* between the original close of ProxyClose and its erase
\* (native-lib.cpp:219-249, 360-376).
THEOREM FaultsOnlyByOverlap == Spec => []FaultOnlyByOverlap
<1>1. Inv => FaultOnlyByOverlap
  BY DEF Inv, Undisturbed
<1> QED
  BY <1>1, InvAlways, PTL

\* An operation (CountRWInfo, native-lib.cpp:218) or a lifetime (ProxyClose,
\* native-lib.cpp:370) is counted for another file only at a number that was
\* reused or overlapped so, closed before its ProxyOpen had returned, or closed
\* by a library that is not hooked while it had an entry,
THEOREM MistakesOnlyByOverlap == Spec => []MistakeOnlyByOverlap
<1>1. Inv => MistakeOnlyByOverlap
  BY DEF Inv, Counts
<1> QED
  BY <1>1, InvAlways, PTL

\* and a file opened through ProxyOpen is missing from info_map_, or there
\* under another path, only at such a number (native-lib.cpp:253-265), where a
\* close that overlaps reads, writes and other closes does not count.
THEOREM AlwaysTrackedUnlessReused == Spec => []TrackedUnlessReused
<1>1. Inv => TrackedUnlessReused
  BY DEF Inv, TypeOK, Agrees, TrackedUnlessReused, Sound
<1> QED
  BY <1>1, InvAlways, PTL

\* info_map_ keeps the entry of a closed number (native-lib.cpp:376) only after
\* a close without the proxy, or before its open had returned: whatever is
\* reused and whatever overlaps.
THEOREM EntriesAlwaysAccounted == Spec => []EntriesAccounted
<1>1. Inv => EntriesAccounted
  BY DEF Inv, Accounted
<1> QED
  BY <1>1, InvAlways, PTL
=============================================================================
