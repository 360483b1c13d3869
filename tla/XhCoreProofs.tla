---------------------------- MODULE XhCoreProofs ----------------------------
(***************************************************************************)
(* Theorems of XhCore, for any threads, libraries, registrations and       *)
(* calls: type correctness and exclusive access to the map info tree for   *)
(* any discipline of calls, the others for an application that runs        *)
(* register, ignore and clear alone, and refreshes as it likes.            *)
(***************************************************************************)
EXTENDS XhCore, TLAPS

-----------------------------------------------------------------------------
(* The selections of XhSelect, as in XhSelectProofs, which has other       *)
(* variables.                                                              *)

\* The early return of xh_core_hook_impl (xh_core.c:265-266) at hook k means
\* that every hook is ignored in that library, the ones after k included.
LEMMA ReturnIgnoresAll ==
  ASSUME NEW hs, NEW igs, NEW lib, NEW k, ReturnsAt(hs, igs, lib, k),
         NEW hi
  PROVE  IsIgnored(igs, hi, lib)
<1>1. PICK j \in DOMAIN igs : /\ Applies(igs[j], hs[k], lib)
                              /\ igs[j].symbol = AllSymbols
  BY DEF ReturnsAt
<1>2. Applies(igs[j], hi, lib)
  BY <1>1 DEF Applies
<1> QED
  BY <1>2 DEF IsIgnored

\* What xh_core_hook_impl applies to a library is what the registry wants.
LEMMA HookImplIsWanted ==
  ASSUME NEW hs, NEW igs, NEW lib
  PROVE  HookImpl(hs, igs, lib) = Wanted(hs, igs, lib)
<1>1. HookImpl(hs, igs, lib) \subseteq Wanted(hs, igs, lib)
  BY DEF HookImpl, Wanted
<1>2. ASSUME NEW i \in Wanted(hs, igs, lib)
      PROVE  i \in HookImpl(hs, igs, lib)
  <2>1. /\ i \in DOMAIN hs
        /\ Matches(hs[i], lib)
        /\ ~ IsIgnored(igs, hs[i], lib)
    BY DEF Wanted
  <2>2. \A k \in 1..(i - 1) : ~ ReturnsAt(hs, igs, lib, k)
    BY <2>1, ReturnIgnoresAll
  <2> QED
    BY <2>1, <2>2 DEF HookImpl
<1> QED
  BY <1>1, <1>2

\* The check of xh_core_refresh_impl is passed only by a library to which
\* some hook applies.
LEMMA NeedHookHooks ==
  ASSUME NEW hs, NEW igs, NEW lib, NeedHook(hs, igs, lib)
  PROVE  HookImpl(hs, igs, lib) # {}
<1>1. PICK i \in DOMAIN hs : /\ Matches(hs[i], lib)
                             /\ ~ IsIgnored(igs, hs[i], lib)
  BY DEF NeedHook
<1>2. i \in Wanted(hs, igs, lib)
  BY <1>1 DEF Wanted
<1> QED
  BY <1>2, HookImplIsWanted

-----------------------------------------------------------------------------
(* Type correctness.                                                       *)

\* An entry about to be inserted goes to the list it was made for.
ArgOK ==
  \A t \in Threads :
    /\ pc[t] = "register_insert" => arg[t] \in Hooks
    /\ pc[t] = "ignore_insert" => arg[t] \in Ignores

\* A mutex belongs to the thread whose program counter is under it.
CoreOwner ==
  \A t \in Threads : core_mutex = t <=> pc[t] \in CoreLabels

RefreshOwner ==
  \A p \in Procs : refresh_mutex = p <=> pc[p] \in RefreshLabels

Inv == TypeOK /\ ArgOK /\ CoreOwner /\ RefreshOwner

USE DEF callVars, lockVars, initVars, asyncVars, sigVars, regVars, treeVars,
        elfVars, Goto, Return, AfterRefresh, Begin, MayBegin, SignalAndGoto,
        Waiters, Procs

\* What xh_core_hook_impl requests of xh_elf_hook are symbols.
LEMMA RequestedType ==
  ASSUME DataTypeOK, NEW lib \in Libs
  PROVE  Requested(lib) \subseteq Syms
<1> SUFFICES ASSUME NEW i \in HookImpl(hook_info, ignore_info, lib)
             PROVE  hook_info[i].symbol \in Syms
  BY DEF Requested
<1>1. i \in DOMAIN hook_info
  BY DEF HookImpl
<1>2. hook_info[i] \in HookInfo
  BY <1>1, CoreAssumption DEF DataTypeOK
<1> QED
  BY <1>2 DEF HookInfo

LEMMA TypeStep ==
  ASSUME TypeOK, ArgOK, [Next]_vars
  PROVE  TypeOK' /\ ArgOK'
<1> USE CoreAssumption DEF TypeOK, CallTypeOK, FlagTypeOK, DataTypeOK, ArgOK,
                           Labels, Ops
<1>1. ASSUME NEW t \in Threads, NEW hi \in Hooks, Register(t, hi)
      PROVE  TypeOK' /\ ArgOK'
  BY <1>1 DEF Register
<1>2. ASSUME NEW t \in Threads, NEW ii \in Ignores, Ignore(t, ii)
      PROVE  TypeOK' /\ ArgOK'
  BY <1>2 DEF Ignore
<1>3. ASSUME NEW t \in Threads, NEW op \in Ops, Refresh(t, op)
      PROVE  TypeOK' /\ ArgOK'
  BY <1>3 DEF Refresh
<1>4. ASSUME NEW t \in Threads, Clear(t) PROVE TypeOK' /\ ArgOK'
  BY <1>4 DEF Clear
<1>5. ASSUME NEW t \in Threads, NEW flag \in BOOLEAN,
             EnableSigsegvProtection(t, flag) PROVE TypeOK' /\ ArgOK'
  BY <1>5 DEF EnableSigsegvProtection
<1>6. ASSUME NEW t \in Threads, RegisterInsert(t) PROVE TypeOK' /\ ArgOK'
  BY <1>6 DEF RegisterInsert
<1>7. ASSUME NEW t \in Threads, IgnoreInsert(t) PROVE TypeOK' /\ ArgOK'
  BY <1>7 DEF IgnoreInsert
<1>8. ASSUME NEW t \in Threads, InitLock(t) PROVE TypeOK' /\ ArgOK'
  <2>1. inited' \in BOOLEAN
    <3>1. inited \in BOOLEAN
      OBVIOUS
    <3> QED
      BY <1>8, <3>1, Zenon DEF InitLock
  <2> QED
    BY <1>8, <2>1 DEF InitLock
<1>9. ASSUME NEW t \in Threads, InitHandler(t) PROVE TypeOK' /\ ArgOK'
  BY <1>9 DEF InitHandler
<1>10. ASSUME NEW t \in Threads, InitHandlerFails(t) PROVE TypeOK' /\ ArgOK'
  BY <1>10 DEF InitHandlerFails
<1>11. ASSUME NEW t \in Threads, InitSetOk(t) PROVE TypeOK' /\ ArgOK'
  BY <1>11 DEF InitSetOk
<1>12. ASSUME NEW t \in Threads, InitCheck(t) PROVE TypeOK' /\ ArgOK'
  BY <1>12 DEF InitCheck
<1>13. ASSUME NEW t \in Threads, AsyncTest(t) PROVE TypeOK' /\ ArgOK'
  BY <1>13 DEF AsyncTest
<1>14. ASSUME NEW t \in Threads, AsyncLock(t) PROVE TypeOK' /\ ArgOK'
  <2>1. async_inited' \in BOOLEAN
    <3>1. async_inited \in BOOLEAN
      OBVIOUS
    <3> QED
      BY <1>14, <3>1, Zenon DEF AsyncLock
  <2>2. pc' \in [Procs -> Labels]
    BY <1>14 DEF AsyncLock
  <2>3. CallTypeOK' /\ ArgOK'
    BY <1>14 DEF AsyncLock
  <2>4. FlagTypeOK'
    BY <1>14, <2>1 DEF AsyncLock
  <2>5. DataTypeOK'
    BY <1>14 DEF AsyncLock
  <2> QED
    BY <2>2, <2>3, <2>4, <2>5
<1>15. ASSUME NEW t \in Threads, AsyncRun(t) PROVE TypeOK' /\ ArgOK'
  BY <1>15 DEF AsyncRun
<1>16. ASSUME NEW t \in Threads, AsyncCreate(t) PROVE TypeOK' /\ ArgOK'
  BY <1>16 DEF AsyncCreate
<1>17. ASSUME NEW t \in Threads, AsyncCreateFails(t) PROVE TypeOK' /\ ArgOK'
  <2>1. refresh_thread_running' \in BOOLEAN
    BY <1>17, Zenon DEF AsyncCreateFails
  <2> QED
    BY <1>17, <2>1 DEF AsyncCreateFails
<1>18. ASSUME NEW t \in Threads, AsyncSetOk(t) PROVE TypeOK' /\ ArgOK'
  BY <1>18 DEF AsyncSetOk
<1>19. ASSUME NEW t \in Threads, AsyncCheck(t) PROVE TypeOK' /\ ArgOK'
  BY <1>19 DEF AsyncCheck
<1>20. ASSUME NEW t \in Threads, AsyncDo(t) PROVE TypeOK' /\ ArgOK'
  BY <1>20, SMTT(30) DEF AsyncDo
<1>21. ASSUME NEW t \in Threads, ClearStop(t) PROVE TypeOK' /\ ArgOK'
  <2>1. refresh_thread_running' \in BOOLEAN
    BY <1>21, Zenon DEF ClearStop
  <2>2. pc' \in [Procs -> Labels]
    BY <1>21, SMTT(30) DEF ClearStop
  <2>3. CallTypeOK' /\ ArgOK'
    BY <1>21 DEF ClearStop
  <2>4. FlagTypeOK'
    BY <1>21, <2>1 DEF ClearStop
  <2>5. DataTypeOK'
    BY <1>21 DEF ClearStop
  <2> QED
    BY <2>2, <2>3, <2>4, <2>5
<1>22. ASSUME NEW t \in Threads, ClearJoin(t) PROVE TypeOK' /\ ArgOK'
  BY <1>22 DEF ClearJoin
<1>23. ASSUME NEW t \in Threads, ClearJoined(t) PROVE TypeOK' /\ ArgOK'
  <2>2. pc' \in [Procs -> Labels]
    BY <1>23 DEF ClearJoined
  <2>3. CallTypeOK' /\ ArgOK'
    BY <1>23 DEF ClearJoined
  <2>4. FlagTypeOK'
    BY <1>23 DEF ClearJoined
  <2>5. DataTypeOK'
    BY <1>23 DEF ClearJoined
  <2> QED
    BY <2>2, <2>3, <2>4, <2>5
<1>24. ASSUME NEW t \in Threads, ClearAsyncInitOk(t) PROVE TypeOK' /\ ArgOK'
  <2>1. async_init_ok' \in BOOLEAN
    BY <1>24, Zenon DEF ClearAsyncInitOk
  <2> QED
    BY <1>24, <2>1 DEF ClearAsyncInitOk
<1>25. ASSUME NEW t \in Threads, ClearAsyncInited(t) PROVE TypeOK' /\ ArgOK'
  <2>1. async_inited' \in BOOLEAN
    BY <1>25, Zenon DEF ClearAsyncInited
  <2> QED
    BY <1>25, <2>1 DEF ClearAsyncInited
<1>26. ASSUME NEW t \in Threads, ClearTest(t) PROVE TypeOK' /\ ArgOK'
  BY <1>26 DEF ClearTest
<1>27. ASSUME NEW t \in Threads, ClearHandler(t) PROVE TypeOK' /\ ArgOK'
  BY <1>27 DEF ClearHandler
<1>28. ASSUME NEW t \in Threads, ClearInitOk(t) PROVE TypeOK' /\ ArgOK'
  <2>1. init_ok' \in BOOLEAN
    BY <1>28, Zenon DEF ClearInitOk
  <2> QED
    BY <1>28, <2>1 DEF ClearInitOk
<1>29. ASSUME NEW t \in Threads, ClearInited(t) PROVE TypeOK' /\ ArgOK'
  <2>1. inited' \in BOOLEAN
    BY <1>29, Zenon DEF ClearInited
  <2> QED
    BY <1>29, <2>1 DEF ClearInited
<1>30. ASSUME NEW t \in Threads, ClearLockCore(t) PROVE TypeOK' /\ ArgOK'
  BY <1>30 DEF ClearLockCore
<1>31. ASSUME NEW t \in Threads, ClearLockRefresh(t) PROVE TypeOK' /\ ArgOK'
  BY <1>31 DEF ClearLockRefresh
<1>32. ASSUME NEW t \in Threads, ClearFree(t) PROVE TypeOK' /\ ArgOK'
  BY <1>32 DEF ClearFree
<1>33. ASSUME NEW w \in Workers, WorkerLoop(w) PROVE TypeOK' /\ ArgOK'
  BY <1>33 DEF WorkerLoop
<1>34. ASSUME NEW w \in Workers, WorkerCond(w) PROVE TypeOK' /\ ArgOK'
  <2>1. refresh_thread_do' \in BOOLEAN
    <3>1. refresh_thread_do \in BOOLEAN
      OBVIOUS
    <3> QED
      BY <1>34, <3>1, Zenon DEF WorkerCond
  <2> QED
    BY <1>34, <2>1 DEF WorkerCond
<1>35. ASSUME NEW w \in Workers, SpuriousWakeup(w) PROVE TypeOK' /\ ArgOK'
  BY <1>35 DEF SpuriousWakeup
<1>36. ASSUME NEW p \in Procs, WalkBegin(p) PROVE TypeOK' /\ ArgOK'
  BY <1>36 DEF WalkBegin
<1>37. ASSUME NEW p \in Procs, WalkOpenFails(p) PROVE TypeOK' /\ ArgOK'
  BY <1>37 DEF WalkOpenFails
<1>38. ASSUME NEW p \in Procs, WalkEnd(p) PROVE TypeOK' /\ ArgOK'
  BY <1>38, SMTT(30) DEF WalkEnd
<1>39. ASSUME NEW p \in Procs, NEW lib \in Libs, WalkTracked(p, lib)
       PROVE  TypeOK' /\ ArgOK'
  BY <1>39 DEF WalkTracked
<1>40. ASSUME NEW p \in Procs, NEW lib \in Libs, WalkNew(p, lib)
       PROVE  TypeOK' /\ ArgOK'
  <2>1. Requested(lib) \subseteq Syms
    BY RequestedType DEF DataTypeOK
  <2>2. PICK done \in SUBSET Requested(lib) :
          /\ installed' = [installed EXCEPT ![lib] = @ \cup done]
          /\ damaged' = IF done = Requested(lib) THEN damaged \ {lib}
                                                ELSE damaged \cup {lib}
    BY <1>40 DEF WalkNew
  <2>3. installed' \in [Libs -> SUBSET Syms] /\ damaged' \in SUBSET Libs
    BY <2>1, <2>2
  <2> QED
    BY <1>40, <2>3 DEF WalkNew
<1>41. ASSUME NEW p \in Procs, NEW lib \in Libs, WalkSkip(p, lib)
       PROVE  TypeOK' /\ ArgOK'
  BY <1>41 DEF WalkSkip
<1>42. ASSUME NEW lib \in Libs, Dlopen(lib) PROVE TypeOK' /\ ArgOK'
  BY <1>42 DEF Dlopen
<1>43. ASSUME UNCHANGED vars PROVE TypeOK' /\ ArgOK'
  BY <1>43 DEF vars
<1> HIDE DEF TypeOK, CallTypeOK, FlagTypeOK, DataTypeOK, ArgOK, Labels, Ops
<1> QED
  BY <1>1, <1>2, <1>3, <1>4, <1>5, <1>6, <1>7, <1>8, <1>9, <1>10, <1>11,
     <1>12, <1>13, <1>14, <1>15, <1>16, <1>17, <1>18, <1>19, <1>20, <1>21,
     <1>22, <1>23, <1>24, <1>25, <1>26, <1>27, <1>28, <1>29, <1>30, <1>31,
     <1>32, <1>33, <1>34, <1>35, <1>36, <1>37, <1>38, <1>39, <1>40, <1>41,
     <1>42, <1>43
     DEF Next, BeginCall, ThreadStep, WorkerStep, Walk

LEMMA OwnerStep ==
  ASSUME TypeOK, CoreOwner, RefreshOwner, [Next]_vars
  PROVE  CoreOwner' /\ RefreshOwner'
<1> USE CoreAssumption DEF CoreOwner, RefreshOwner, CoreLabels, RefreshLabels
<1>0. /\ pc \in [Procs -> Labels]
      /\ refresh_mutex \in Procs \cup {Nobody}
      /\ core_mutex \in Threads \cup {Nobody}
  BY DEF TypeOK, FlagTypeOK
<1>1. ASSUME NEW t \in Threads, NEW hi \in Hooks, Register(t, hi)
      PROVE  CoreOwner' /\ RefreshOwner'
  BY <1>0, <1>1 DEF Register
<1>2. ASSUME NEW t \in Threads, NEW ii \in Ignores, Ignore(t, ii)
      PROVE  CoreOwner' /\ RefreshOwner'
  BY <1>0, <1>2 DEF Ignore
<1>3. ASSUME NEW t \in Threads, NEW op \in Ops, Refresh(t, op)
      PROVE  CoreOwner' /\ RefreshOwner'
  BY <1>0, <1>3 DEF Refresh
<1>4. ASSUME NEW t \in Threads, Clear(t) PROVE CoreOwner' /\ RefreshOwner'
  BY <1>0, <1>4 DEF Clear
<1>5. ASSUME NEW t \in Threads, NEW flag \in BOOLEAN,
             EnableSigsegvProtection(t, flag) PROVE CoreOwner' /\ RefreshOwner'
  BY <1>0, <1>5 DEF EnableSigsegvProtection
<1>6. ASSUME NEW t \in Threads, RegisterInsert(t)
      PROVE  CoreOwner' /\ RefreshOwner'
  BY <1>0, <1>6 DEF RegisterInsert
<1>7. ASSUME NEW t \in Threads, IgnoreInsert(t)
      PROVE  CoreOwner' /\ RefreshOwner'
  BY <1>0, <1>7 DEF IgnoreInsert
<1>8. ASSUME NEW t \in Threads, InitLock(t) PROVE CoreOwner' /\ RefreshOwner'
  BY <1>0, <1>8 DEF InitLock
<1>9. ASSUME NEW t \in Threads, InitHandler(t)
      PROVE  CoreOwner' /\ RefreshOwner'
  BY <1>0, <1>9 DEF InitHandler
<1>10. ASSUME NEW t \in Threads, InitHandlerFails(t)
       PROVE  CoreOwner' /\ RefreshOwner'
  BY <1>0, <1>10 DEF InitHandlerFails
<1>11. ASSUME NEW t \in Threads, InitSetOk(t) PROVE CoreOwner' /\ RefreshOwner'
  BY <1>0, <1>11 DEF InitSetOk
<1>12. ASSUME NEW t \in Threads, InitCheck(t) PROVE CoreOwner' /\ RefreshOwner'
  BY <1>0, <1>12 DEF InitCheck
<1>13. ASSUME NEW t \in Threads, AsyncTest(t) PROVE CoreOwner' /\ RefreshOwner'
  BY <1>0, <1>13 DEF AsyncTest
<1>14. ASSUME NEW t \in Threads, AsyncLock(t) PROVE CoreOwner' /\ RefreshOwner'
  BY <1>0, <1>14 DEF AsyncLock
<1>15. ASSUME NEW t \in Threads, AsyncRun(t) PROVE CoreOwner' /\ RefreshOwner'
  BY <1>0, <1>15 DEF AsyncRun
<1>16. ASSUME NEW t \in Threads, AsyncCreate(t)
       PROVE  CoreOwner' /\ RefreshOwner'
  BY <1>0, <1>16 DEF AsyncCreate
<1>17. ASSUME NEW t \in Threads, AsyncCreateFails(t)
       PROVE  CoreOwner' /\ RefreshOwner'
  BY <1>0, <1>17 DEF AsyncCreateFails
<1>18. ASSUME NEW t \in Threads, AsyncSetOk(t)
       PROVE  CoreOwner' /\ RefreshOwner'
  BY <1>0, <1>18 DEF AsyncSetOk
<1>19. ASSUME NEW t \in Threads, AsyncCheck(t)
       PROVE  CoreOwner' /\ RefreshOwner'
  BY <1>0, <1>19 DEF AsyncCheck
<1>20. ASSUME NEW t \in Threads, AsyncDo(t) PROVE CoreOwner' /\ RefreshOwner'
  BY <1>0, <1>20 DEF AsyncDo
<1>21. ASSUME NEW t \in Threads, ClearStop(t) PROVE CoreOwner' /\ RefreshOwner'
  BY <1>0, <1>21 DEF ClearStop
<1>22. ASSUME NEW t \in Threads, ClearJoin(t) PROVE CoreOwner' /\ RefreshOwner'
  BY <1>0, <1>22 DEF ClearJoin
<1>23. ASSUME NEW t \in Threads, ClearJoined(t)
       PROVE  CoreOwner' /\ RefreshOwner'
  BY <1>0, <1>23 DEF ClearJoined
<1>24. ASSUME NEW t \in Threads, ClearAsyncInitOk(t)
       PROVE  CoreOwner' /\ RefreshOwner'
  BY <1>0, <1>24 DEF ClearAsyncInitOk
<1>25. ASSUME NEW t \in Threads, ClearAsyncInited(t)
       PROVE  CoreOwner' /\ RefreshOwner'
  BY <1>0, <1>25 DEF ClearAsyncInited
<1>26. ASSUME NEW t \in Threads, ClearTest(t) PROVE CoreOwner' /\ RefreshOwner'
  BY <1>0, <1>26 DEF ClearTest
<1>27. ASSUME NEW t \in Threads, ClearHandler(t)
       PROVE  CoreOwner' /\ RefreshOwner'
  BY <1>0, <1>27 DEF ClearHandler
<1>28. ASSUME NEW t \in Threads, ClearInitOk(t)
       PROVE  CoreOwner' /\ RefreshOwner'
  BY <1>0, <1>28 DEF ClearInitOk
<1>29. ASSUME NEW t \in Threads, ClearInited(t)
       PROVE  CoreOwner' /\ RefreshOwner'
  BY <1>0, <1>29 DEF ClearInited
<1>30. ASSUME NEW t \in Threads, ClearLockCore(t)
       PROVE  CoreOwner' /\ RefreshOwner'
  BY <1>0, <1>30 DEF ClearLockCore
<1>31. ASSUME NEW t \in Threads, ClearLockRefresh(t)
       PROVE  CoreOwner' /\ RefreshOwner'
  BY <1>0, <1>31 DEF ClearLockRefresh
<1>32. ASSUME NEW t \in Threads, ClearFree(t) PROVE CoreOwner' /\ RefreshOwner'
  BY <1>0, <1>32 DEF ClearFree
<1>33. ASSUME NEW w \in Workers, WorkerLoop(w)
       PROVE  CoreOwner' /\ RefreshOwner'
  BY <1>0, <1>33 DEF WorkerLoop
<1>34. ASSUME NEW w \in Workers, WorkerCond(w)
       PROVE  CoreOwner' /\ RefreshOwner'
  BY <1>0, <1>34 DEF WorkerCond
<1>35. ASSUME NEW w \in Workers, SpuriousWakeup(w)
       PROVE  CoreOwner' /\ RefreshOwner'
  BY <1>0, <1>35 DEF SpuriousWakeup
<1>36. ASSUME NEW p \in Procs, WalkBegin(p) PROVE CoreOwner' /\ RefreshOwner'
  BY <1>0, <1>36 DEF WalkBegin
<1>37. ASSUME NEW p \in Procs, WalkOpenFails(p)
       PROVE  CoreOwner' /\ RefreshOwner'
  BY <1>0, <1>37 DEF WalkOpenFails
<1>38. ASSUME NEW p \in Procs, WalkEnd(p) PROVE CoreOwner' /\ RefreshOwner'
  BY <1>0, <1>38 DEF WalkEnd
<1>39. ASSUME NEW p \in Procs, NEW lib \in Libs, WalkTracked(p, lib)
       PROVE  CoreOwner' /\ RefreshOwner'
  BY <1>0, <1>39 DEF WalkTracked
<1>40. ASSUME NEW p \in Procs, NEW lib \in Libs, WalkNew(p, lib)
       PROVE  CoreOwner' /\ RefreshOwner'
  BY <1>0, <1>40 DEF WalkNew
<1>41. ASSUME NEW p \in Procs, NEW lib \in Libs, WalkSkip(p, lib)
       PROVE  CoreOwner' /\ RefreshOwner'
  BY <1>0, <1>41 DEF WalkSkip
<1>42. ASSUME NEW lib \in Libs, Dlopen(lib) PROVE CoreOwner' /\ RefreshOwner'
  BY <1>0, <1>42 DEF Dlopen
<1>43. ASSUME UNCHANGED vars PROVE CoreOwner' /\ RefreshOwner'
  BY <1>0, <1>43 DEF vars
<1> QED
  BY <1>1, <1>2, <1>3, <1>4, <1>5, <1>6, <1>7, <1>8, <1>9, <1>10, <1>11,
     <1>12, <1>13, <1>14, <1>15, <1>16, <1>17, <1>18, <1>19, <1>20, <1>21,
     <1>22, <1>23, <1>24, <1>25, <1>26, <1>27, <1>28, <1>29, <1>30, <1>31,
     <1>32, <1>33, <1>34, <1>35, <1>36, <1>37, <1>38, <1>39, <1>40, <1>41,
     <1>42, <1>43
     DEF Next, BeginCall, ThreadStep, WorkerStep, Walk

LEMMA InvInit == Init => Inv
<1> SUFFICES ASSUME Init PROVE Inv
  OBVIOUS
<1>1. TypeOK
  <2>1. pc \in [Procs -> Labels] /\ CallTypeOK
    BY CoreAssumption DEF Init, CallTypeOK, Labels
  <2>2. /\ inited \in BOOLEAN /\ init_ok \in BOOLEAN
        /\ async_inited \in BOOLEAN /\ async_init_ok \in BOOLEAN
        /\ refresh_thread_running \in BOOLEAN
        /\ refresh_thread_do \in BOOLEAN
        /\ sigsegv_enable \in BOOLEAN
    BY Zenon DEF Init
  <2>3. FlagTypeOK
    BY <2>2, CoreAssumption DEF Init, FlagTypeOK
  <2>4. DataTypeOK
    BY DEF Init, DataTypeOK
  <2> QED
    BY <2>1, <2>3, <2>4 DEF TypeOK
<1>2. ArgOK /\ CoreOwner /\ RefreshOwner
  BY CoreAssumption DEF Init, ArgOK, CoreOwner, RefreshOwner, CoreLabels,
                        RefreshLabels
<1> QED
  BY <1>1, <1>2 DEF Inv

LEMMA InvStep == Inv /\ [Next]_vars => Inv'
BY TypeStep, OwnerStep DEF Inv

LEMMA InvAlways == Spec => []Inv
BY InvInit, InvStep, PTL DEF Spec

\* Every variable of xh_core.c keeps its type, under every interleaving of
\* any number of threads and refresh threads.
THEOREM TypeCorrect == Spec => []TypeOK
<1>1. Inv => TypeOK
  BY DEF Inv
<1> QED
  BY <1>1, InvAlways, PTL

\* xh_core_refresh_impl (xh_core.c:304-463), on any thread, never runs during
\* another one nor while xh_core_clear frees the map info tree
\* (xh_core.c:606-616), whatever the application calls concurrently.
THEOREM MapInfoExclusive == Spec => []RefreshExclusive
<1>1. Inv => RefreshExclusive
  BY SMTT(30) DEF Inv, RefreshOwner, RefreshExclusive
<1> QED
  BY <1>1, InvAlways, PTL

-----------------------------------------------------------------------------
(* Register, ignore and clear run alone.                                   *)

\* The discipline of calls.
Serial == {"register", "ignore", "clear"} \subseteq Exclusive

InitLabels == {"init_lock", "init_handler", "init_set_ok", "init_check"}

AsyncLabels == {"async_test", "async_lock", "async_run", "async_create",
                "async_set_ok", "async_check", "async_do"}

WalkLabels == {"refresh_lock", "refresh_walk"}

ClearLabels == {"clear_stop", "clear_join", "clear_join_wait",
                "clear_async_ok", "clear_async_inited", "clear_test",
                "clear_handler", "clear_init_ok", "clear_inited",
                "clear_lock_core", "clear_lock_refresh", "clear_free"}

WorkerLabels == {"none", "loop", "cond_lock", "cond_wait", "exited"}

\* The operation a thread executes is the one its program counter is in.
CallOK ==
  /\ \A t \in Threads :
       /\ pc[t] \notin WorkerLabels
       /\ call[t] # "protect"
       /\ pc[t] = "idle" <=> call[t] = "none"
       /\ pc[t] = "register_insert" <=> call[t] = "register"
       /\ pc[t] = "ignore_insert" <=> call[t] = "ignore"
       /\ pc[t] \in ClearLabels <=> call[t] = "clear"
       /\ pc[t] \in AsyncLabels => call[t] = "refresh_async"
  /\ \A w \in Workers : pc[w] \in WorkerLabels \cup WalkLabels

\* A thread that registers, ignores or clears is the only one in a call.
AloneOK ==
  \A t, u \in Threads :
    t # u /\ call[t] \in {"register", "ignore", "clear"} => call[u] = "none"

\* The flags of the two initialisations imply each other in the order they
\* are set, and tell how far initialisation or clear has come.
InitFlagsOK ==
  /\ init_ok => inited
  /\ async_inited => inited
  /\ async_init_ok => async_inited
  /\ \A t \in Threads :
       /\ pc[t] \in {"register_insert", "ignore_insert"} => ~ inited
       /\ pc[t] \in {"init_handler", "init_set_ok", "init_check",
                     "refresh_walk", "refresh_lock"} \cup AsyncLabels
            => inited
       /\ pc[t] \in {"init_handler", "init_set_ok"} => ~ init_ok
       /\ pc[t] \in {"async_run", "async_create", "async_set_ok"}
            => async_inited /\ ~ async_init_ok
       /\ pc[t] \in {"clear_stop", "clear_join", "clear_join_wait"}
            => async_inited
       /\ pc[t] = "clear_async_inited" => ~ async_init_ok
       /\ pc[t] \in {"clear_test", "clear_handler", "clear_init_ok",
                     "clear_inited", "clear_lock_core", "clear_lock_refresh",
                     "clear_free"} => ~ async_inited
       /\ pc[t] \in {"clear_handler", "clear_init_ok"} => init_ok
       /\ pc[t] \in {"clear_inited", "clear_lock_core", "clear_lock_refresh",
                     "clear_free"} => ~ init_ok
       /\ pc[t] \in {"clear_lock_core", "clear_lock_refresh", "clear_free"}
            => ~ inited

\* A refresh thread that exists is the one whose identity is stored, and was
\* made by the initialisation that is under way or complete.
RefresherOK ==
  \A w \in Workers : pc[w] # "none" =>
    /\ refresh_thread_tid = w
    /\ async_inited
    /\ async_init_ok \/ \E t \in Threads : pc[t] = "async_set_ok"
    /\ \A t \in Threads :
         pc[t] \notin {"async_run", "async_create", "clear_async_ok",
                       "clear_async_inited"}

\* While requests are taken the refresh thread is there and told to run.
RunningOK ==
  /\ \A t \in Threads : pc[t] = "async_create" => refresh_thread_running
  /\ \/ async_init_ok /\ ~ Clearing
     \/ \E t \in Threads : pc[t] = "async_set_ok"
     => /\ refresh_thread_running
        /\ refresh_thread_tid \in Workers
        /\ pc[refresh_thread_tid] \notin {"none", "exited"}

\* Clear waits for the refresh thread there is.
JoineeOK ==
  \A t \in Threads :
    IF pc[t] = "clear_join_wait"
      THEN joinee[t] = refresh_thread_tid /\ joinee[t] \in Workers
      ELSE joinee[t] = Nobody

\* The tree is empty while the registry is open.  The tree a walk builds is
\* there while it walks only, and has no library it has yet to read.
TrackedOK ==
  /\ map_info \cup refreshed # {} => Sealed
  /\ Walkers = {} => refreshed = {}
  /\ todo \cup refreshed \subseteq mapped
  /\ todo \cap refreshed = {}

\* With protection never switched the handler is installed once.
HandlerOK ==
  /\ sigsegv_enable
  /\ disposition = IF \/ init_ok
                         /\ \A t \in Threads : pc[t] # "clear_init_ok"
                      \/ \E t \in Threads : pc[t] = "init_set_ok"
                     THEN "xhook" ELSE "app"
  /\ disposition = "xhook" => act_old = "app"
  /\ act_old # "xhook"

FlagsOK == InitFlagsOK /\ RefresherOK /\ RunningOK /\ JoineeOK

SInv == Inv /\ CallOK /\ AloneOK /\ FlagsOK /\ TrackedOK /\ InstalledWanted

LEMMA CallStep ==
  ASSUME TypeOK, Serial, CallOK, AloneOK, [Next]_vars
  PROVE  CallOK' /\ AloneOK'
<1> USE CoreAssumption DEF CallOK, AloneOK, Serial, AsyncLabels, WalkLabels,
           ClearLabels, WorkerLabels, Ops
<1>0. /\ pc \in [Procs -> Labels]
      /\ call \in [Threads -> Ops \cup {"none"}]
      /\ joinee \in [Threads -> Workers \cup {Nobody}]
  BY DEF TypeOK, CallTypeOK
<1>1. ASSUME NEW t \in Threads, NEW hi \in Hooks, Register(t, hi)
      PROVE  CallOK' /\ AloneOK'
  BY <1>0, <1>1 DEF Register
<1>2. ASSUME NEW t \in Threads, NEW ii \in Ignores, Ignore(t, ii)
      PROVE  CallOK' /\ AloneOK'
  BY <1>0, <1>2 DEF Ignore
<1>3. ASSUME NEW t \in Threads, NEW op \in Ops, Refresh(t, op)
      PROVE  CallOK' /\ AloneOK'
  BY <1>0, <1>3 DEF Refresh
<1>4. ASSUME NEW t \in Threads, Clear(t) PROVE CallOK' /\ AloneOK'
  BY <1>0, <1>4 DEF Clear
<1>5. ASSUME NEW t \in Threads, NEW flag \in BOOLEAN,
             EnableSigsegvProtection(t, flag) PROVE CallOK' /\ AloneOK'
  BY <1>0, <1>5 DEF EnableSigsegvProtection
<1>6. ASSUME NEW t \in Threads, RegisterInsert(t) PROVE CallOK' /\ AloneOK'
  BY <1>0, <1>6 DEF RegisterInsert
<1>7. ASSUME NEW t \in Threads, IgnoreInsert(t) PROVE CallOK' /\ AloneOK'
  BY <1>0, <1>7 DEF IgnoreInsert
<1>8. ASSUME NEW t \in Threads, InitLock(t) PROVE CallOK' /\ AloneOK'
  BY <1>0, <1>8 DEF InitLock
<1>9. ASSUME NEW t \in Threads, InitHandler(t) PROVE CallOK' /\ AloneOK'
  BY <1>0, <1>9 DEF InitHandler
<1>10. ASSUME NEW t \in Threads, InitHandlerFails(t) PROVE CallOK' /\ AloneOK'
  BY <1>0, <1>10 DEF InitHandlerFails
<1>11. ASSUME NEW t \in Threads, InitSetOk(t) PROVE CallOK' /\ AloneOK'
  BY <1>0, <1>11 DEF InitSetOk
<1>12. ASSUME NEW t \in Threads, InitCheck(t) PROVE CallOK' /\ AloneOK'
  BY <1>0, <1>12 DEF InitCheck
<1>13. ASSUME NEW t \in Threads, AsyncTest(t) PROVE CallOK' /\ AloneOK'
  BY <1>0, <1>13 DEF AsyncTest
<1>14. ASSUME NEW t \in Threads, AsyncLock(t) PROVE CallOK' /\ AloneOK'
  BY <1>0, <1>14 DEF AsyncLock
<1>15. ASSUME NEW t \in Threads, AsyncRun(t) PROVE CallOK' /\ AloneOK'
  BY <1>0, <1>15 DEF AsyncRun
<1>16. ASSUME NEW t \in Threads, AsyncCreate(t) PROVE CallOK' /\ AloneOK'
  BY <1>0, <1>16 DEF AsyncCreate
<1>17. ASSUME NEW t \in Threads, AsyncCreateFails(t) PROVE CallOK' /\ AloneOK'
  BY <1>0, <1>17 DEF AsyncCreateFails
<1>18. ASSUME NEW t \in Threads, AsyncSetOk(t) PROVE CallOK' /\ AloneOK'
  BY <1>0, <1>18 DEF AsyncSetOk
<1>19. ASSUME NEW t \in Threads, AsyncCheck(t) PROVE CallOK' /\ AloneOK'
  BY <1>0, <1>19 DEF AsyncCheck
<1>20. ASSUME NEW t \in Threads, AsyncDo(t) PROVE CallOK' /\ AloneOK'
  BY <1>0, <1>20 DEF AsyncDo
<1>21. ASSUME NEW t \in Threads, ClearStop(t) PROVE CallOK' /\ AloneOK'
  BY <1>0, <1>21 DEF ClearStop
<1>22. ASSUME NEW t \in Threads, ClearJoin(t) PROVE CallOK' /\ AloneOK'
  BY <1>0, <1>22 DEF ClearJoin
<1>23. ASSUME NEW t \in Threads, ClearJoined(t) PROVE CallOK' /\ AloneOK'
  BY <1>0, <1>23 DEF ClearJoined
<1>24. ASSUME NEW t \in Threads, ClearAsyncInitOk(t) PROVE CallOK' /\ AloneOK'
  BY <1>0, <1>24 DEF ClearAsyncInitOk
<1>25. ASSUME NEW t \in Threads, ClearAsyncInited(t) PROVE CallOK' /\ AloneOK'
  BY <1>0, <1>25 DEF ClearAsyncInited
<1>26. ASSUME NEW t \in Threads, ClearTest(t) PROVE CallOK' /\ AloneOK'
  BY <1>0, <1>26 DEF ClearTest
<1>27. ASSUME NEW t \in Threads, ClearHandler(t) PROVE CallOK' /\ AloneOK'
  BY <1>0, <1>27 DEF ClearHandler
<1>28. ASSUME NEW t \in Threads, ClearInitOk(t) PROVE CallOK' /\ AloneOK'
  BY <1>0, <1>28 DEF ClearInitOk
<1>29. ASSUME NEW t \in Threads, ClearInited(t) PROVE CallOK' /\ AloneOK'
  BY <1>0, <1>29 DEF ClearInited
<1>30. ASSUME NEW t \in Threads, ClearLockCore(t) PROVE CallOK' /\ AloneOK'
  BY <1>0, <1>30 DEF ClearLockCore
<1>31. ASSUME NEW t \in Threads, ClearLockRefresh(t) PROVE CallOK' /\ AloneOK'
  BY <1>0, <1>31 DEF ClearLockRefresh
<1>32. ASSUME NEW t \in Threads, ClearFree(t) PROVE CallOK' /\ AloneOK'
  BY <1>0, <1>32 DEF ClearFree
<1>33. ASSUME NEW w \in Workers, WorkerLoop(w) PROVE CallOK' /\ AloneOK'
  BY <1>0, <1>33 DEF WorkerLoop
<1>34. ASSUME NEW w \in Workers, WorkerCond(w) PROVE CallOK' /\ AloneOK'
  BY <1>0, <1>34 DEF WorkerCond
<1>35. ASSUME NEW w \in Workers, SpuriousWakeup(w) PROVE CallOK' /\ AloneOK'
  BY <1>0, <1>35 DEF SpuriousWakeup
<1>36. ASSUME NEW p \in Procs, WalkBegin(p) PROVE CallOK' /\ AloneOK'
  BY <1>0, <1>36 DEF WalkBegin
<1>37. ASSUME NEW p \in Procs, WalkOpenFails(p) PROVE CallOK' /\ AloneOK'
  BY <1>0, <1>37 DEF WalkOpenFails
<1>38. ASSUME NEW p \in Procs, WalkEnd(p) PROVE CallOK' /\ AloneOK'
  BY <1>0, <1>38 DEF WalkEnd
<1>39. ASSUME NEW p \in Procs, NEW lib \in Libs, WalkTracked(p, lib)
      PROVE  CallOK' /\ AloneOK'
  BY <1>0, <1>39 DEF WalkTracked
<1>40. ASSUME NEW p \in Procs, NEW lib \in Libs, WalkNew(p, lib)
      PROVE  CallOK' /\ AloneOK'
  BY <1>0, <1>40 DEF WalkNew
<1>41. ASSUME NEW p \in Procs, NEW lib \in Libs, WalkSkip(p, lib)
      PROVE  CallOK' /\ AloneOK'
  BY <1>0, <1>41 DEF WalkSkip
<1>42. ASSUME NEW lib \in Libs, Dlopen(lib) PROVE CallOK' /\ AloneOK'
  BY <1>0, <1>42 DEF Dlopen
<1>43. ASSUME UNCHANGED vars PROVE CallOK' /\ AloneOK'
  BY <1>0, <1>43, SMTT(30) DEF vars
<1> QED
  BY <1>1, <1>2, <1>3, <1>4, <1>5, <1>6, <1>7, <1>8, <1>9, <1>10, <1>11,
     <1>12, <1>13, <1>14, <1>15, <1>16, <1>17, <1>18, <1>19, <1>20, <1>21,
     <1>22, <1>23, <1>24, <1>25, <1>26, <1>27, <1>28, <1>29, <1>30, <1>31,
     <1>32, <1>33, <1>34, <1>35, <1>36, <1>37, <1>38, <1>39, <1>40, <1>41,
     <1>42, <1>43
     DEF Next, BeginCall, ThreadStep, WorkerStep, Walk

LEMMA InitFlagsStep ==
  ASSUME TypeOK, CallOK, AloneOK, CoreOwner, InitFlagsOK, [Next]_vars
  PROVE  InitFlagsOK'
<1> USE CoreAssumption DEF CallOK, AloneOK, CoreOwner, InitFlagsOK,
           AsyncLabels, ClearLabels, WorkerLabels, CoreLabels
<1>0. /\ pc \in [Procs -> Labels]
      /\ inited \in BOOLEAN /\ init_ok \in BOOLEAN
      /\ async_inited \in BOOLEAN /\ async_init_ok \in BOOLEAN
      /\ refresh_thread_tid \in Workers \cup {Nobody}
      /\ joinee \in [Threads -> Workers \cup {Nobody}]
  BY DEF TypeOK, CallTypeOK, FlagTypeOK
<1>1. ASSUME NEW t \in Threads, NEW hi \in Hooks, Register(t, hi)
      PROVE  InitFlagsOK'
  BY <1>0, <1>1 DEF Register
<1>2. ASSUME NEW t \in Threads, NEW ii \in Ignores, Ignore(t, ii)
      PROVE  InitFlagsOK'
  BY <1>0, <1>2 DEF Ignore
<1>3. ASSUME NEW t \in Threads, NEW op \in Ops, Refresh(t, op)
      PROVE  InitFlagsOK'
  BY <1>0, <1>3 DEF Refresh
<1>4. ASSUME NEW t \in Threads, Clear(t) PROVE InitFlagsOK'
  BY <1>0, <1>4 DEF Clear
<1>5. ASSUME NEW t \in Threads, NEW flag \in BOOLEAN,
             EnableSigsegvProtection(t, flag) PROVE InitFlagsOK'
  BY <1>0, <1>5 DEF EnableSigsegvProtection
<1>6. ASSUME NEW t \in Threads, RegisterInsert(t) PROVE InitFlagsOK'
  BY <1>0, <1>6 DEF RegisterInsert
<1>7. ASSUME NEW t \in Threads, IgnoreInsert(t) PROVE InitFlagsOK'
  BY <1>0, <1>7 DEF IgnoreInsert
<1>8. ASSUME NEW t \in Threads, InitLock(t) PROVE InitFlagsOK'
  BY <1>0, <1>8 DEF InitLock
<1>9. ASSUME NEW t \in Threads, InitHandler(t) PROVE InitFlagsOK'
  BY <1>0, <1>9 DEF InitHandler
<1>10. ASSUME NEW t \in Threads, InitHandlerFails(t) PROVE InitFlagsOK'
  BY <1>0, <1>10 DEF InitHandlerFails
<1>11. ASSUME NEW t \in Threads, InitSetOk(t) PROVE InitFlagsOK'
  BY <1>0, <1>11 DEF InitSetOk
<1>12. ASSUME NEW t \in Threads, InitCheck(t) PROVE InitFlagsOK'
  BY <1>0, <1>12 DEF InitCheck
<1>13. ASSUME NEW t \in Threads, AsyncTest(t) PROVE InitFlagsOK'
  BY <1>0, <1>13 DEF AsyncTest
<1>14. ASSUME NEW t \in Threads, AsyncLock(t) PROVE InitFlagsOK'
  BY <1>0, <1>14 DEF AsyncLock
<1>15. ASSUME NEW t \in Threads, AsyncRun(t) PROVE InitFlagsOK'
  BY <1>0, <1>15 DEF AsyncRun
<1>16. ASSUME NEW t \in Threads, AsyncCreate(t) PROVE InitFlagsOK'
  BY <1>0, <1>16 DEF AsyncCreate
<1>17. ASSUME NEW t \in Threads, AsyncCreateFails(t) PROVE InitFlagsOK'
  BY <1>0, <1>17 DEF AsyncCreateFails
<1>18. ASSUME NEW t \in Threads, AsyncSetOk(t) PROVE InitFlagsOK'
  BY <1>0, <1>18 DEF AsyncSetOk
<1>19. ASSUME NEW t \in Threads, AsyncCheck(t) PROVE InitFlagsOK'
  BY <1>0, <1>19 DEF AsyncCheck
<1>20. ASSUME NEW t \in Threads, AsyncDo(t) PROVE InitFlagsOK'
  BY <1>0, <1>20 DEF AsyncDo
<1>21. ASSUME NEW t \in Threads, ClearStop(t) PROVE InitFlagsOK'
  BY <1>0, <1>21 DEF ClearStop
<1>22. ASSUME NEW t \in Threads, ClearJoin(t) PROVE InitFlagsOK'
  BY <1>0, <1>22 DEF ClearJoin
<1>23. ASSUME NEW t \in Threads, ClearJoined(t) PROVE InitFlagsOK'
  BY <1>0, <1>23 DEF ClearJoined
<1>24. ASSUME NEW t \in Threads, ClearAsyncInitOk(t) PROVE InitFlagsOK'
  BY <1>0, <1>24 DEF ClearAsyncInitOk
<1>25. ASSUME NEW t \in Threads, ClearAsyncInited(t) PROVE InitFlagsOK'
  BY <1>0, <1>25 DEF ClearAsyncInited
<1>26. ASSUME NEW t \in Threads, ClearTest(t) PROVE InitFlagsOK'
  BY <1>0, <1>26 DEF ClearTest
<1>27. ASSUME NEW t \in Threads, ClearHandler(t) PROVE InitFlagsOK'
  BY <1>0, <1>27 DEF ClearHandler
<1>28. ASSUME NEW t \in Threads, ClearInitOk(t) PROVE InitFlagsOK'
  BY <1>0, <1>28 DEF ClearInitOk
<1>29. ASSUME NEW t \in Threads, ClearInited(t) PROVE InitFlagsOK'
  BY <1>0, <1>29 DEF ClearInited
<1>30. ASSUME NEW t \in Threads, ClearLockCore(t) PROVE InitFlagsOK'
  BY <1>0, <1>30 DEF ClearLockCore
<1>31. ASSUME NEW t \in Threads, ClearLockRefresh(t) PROVE InitFlagsOK'
  BY <1>0, <1>31 DEF ClearLockRefresh
<1>32. ASSUME NEW t \in Threads, ClearFree(t) PROVE InitFlagsOK'
  BY <1>0, <1>32 DEF ClearFree
<1>33. ASSUME NEW w \in Workers, WorkerLoop(w) PROVE InitFlagsOK'
  BY <1>0, <1>33 DEF WorkerLoop
<1>34. ASSUME NEW w \in Workers, WorkerCond(w) PROVE InitFlagsOK'
  BY <1>0, <1>34 DEF WorkerCond
<1>35. ASSUME NEW w \in Workers, SpuriousWakeup(w) PROVE InitFlagsOK'
  BY <1>0, <1>35 DEF SpuriousWakeup
<1>36. ASSUME NEW p \in Procs, WalkBegin(p) PROVE InitFlagsOK'
  BY <1>0, <1>36 DEF WalkBegin
<1>37. ASSUME NEW p \in Procs, WalkOpenFails(p) PROVE InitFlagsOK'
  BY <1>0, <1>37 DEF WalkOpenFails
<1>38. ASSUME NEW p \in Procs, WalkEnd(p) PROVE InitFlagsOK'
  BY <1>0, <1>38 DEF WalkEnd
<1>39. ASSUME NEW p \in Procs, NEW lib \in Libs, WalkTracked(p, lib)
      PROVE  InitFlagsOK'
  BY <1>0, <1>39 DEF WalkTracked
<1>40. ASSUME NEW p \in Procs, NEW lib \in Libs, WalkNew(p, lib)
      PROVE  InitFlagsOK'
  BY <1>0, <1>40 DEF WalkNew
<1>41. ASSUME NEW p \in Procs, NEW lib \in Libs, WalkSkip(p, lib)
      PROVE  InitFlagsOK'
  BY <1>0, <1>41 DEF WalkSkip
<1>42. ASSUME NEW lib \in Libs, Dlopen(lib) PROVE InitFlagsOK'
  BY <1>0, <1>42 DEF Dlopen
<1>43. ASSUME UNCHANGED vars PROVE InitFlagsOK'
  BY <1>0, <1>43 DEF vars
<1> QED
  BY <1>1, <1>2, <1>3, <1>4, <1>5, <1>6, <1>7, <1>8, <1>9, <1>10, <1>11,
     <1>12, <1>13, <1>14, <1>15, <1>16, <1>17, <1>18, <1>19, <1>20, <1>21,
     <1>22, <1>23, <1>24, <1>25, <1>26, <1>27, <1>28, <1>29, <1>30, <1>31,
     <1>32, <1>33, <1>34, <1>35, <1>36, <1>37, <1>38, <1>39, <1>40, <1>41,
     <1>42, <1>43
     DEF Next, BeginCall, ThreadStep, WorkerStep, Walk

LEMMA RefresherStep ==
  ASSUME TypeOK, Serial, CallOK, AloneOK, CoreOwner, InitFlagsOK, RefresherOK,
         JoineeOK, [Next]_vars
  PROVE  RefresherOK' /\ JoineeOK'
<1> USE CoreAssumption DEF CallOK, AloneOK, CoreOwner, InitFlagsOK,
           RefresherOK, JoineeOK, AsyncLabels, ClearLabels, WorkerLabels,
           CoreLabels
<1>0. /\ pc \in [Procs -> Labels]
      /\ inited \in BOOLEAN /\ init_ok \in BOOLEAN
      /\ async_inited \in BOOLEAN /\ async_init_ok \in BOOLEAN
      /\ refresh_thread_tid \in Workers \cup {Nobody}
      /\ joinee \in [Threads -> Workers \cup {Nobody}]
  BY DEF TypeOK, CallTypeOK, FlagTypeOK
<1>1. ASSUME NEW t \in Threads, NEW hi \in Hooks, Register(t, hi)
      PROVE  RefresherOK' /\ JoineeOK'
  BY <1>0, <1>1 DEF Register
<1>2. ASSUME NEW t \in Threads, NEW ii \in Ignores, Ignore(t, ii)
      PROVE  RefresherOK' /\ JoineeOK'
  BY <1>0, <1>2 DEF Ignore
<1>3. ASSUME NEW t \in Threads, NEW op \in Ops, Refresh(t, op)
      PROVE  RefresherOK' /\ JoineeOK'
  BY <1>0, <1>3 DEF Refresh
<1>4. ASSUME NEW t \in Threads, Clear(t) PROVE RefresherOK' /\ JoineeOK'
  <2>1. ASSUME async_init_ok PROVE RefresherOK' /\ JoineeOK'
    BY <1>0, <1>4, <2>1 DEF Clear
  <2>2. ASSUME ~ async_init_ok PROVE RefresherOK' /\ JoineeOK'
    <3>1. \A u \in Threads : pc[u] # "async_set_ok"
      BY <1>0, <1>4 DEF Clear, Serial
    <3>2. \A w \in Workers : pc[w] = "none"
      BY <2>2, <3>1
    <3> QED
      BY <1>0, <1>4, <2>2, <3>2 DEF Clear
  <2> QED
    BY <2>1, <2>2
<1>5. ASSUME NEW t \in Threads, NEW flag \in BOOLEAN,
             EnableSigsegvProtection(t, flag) PROVE RefresherOK' /\ JoineeOK'
  BY <1>0, <1>5 DEF EnableSigsegvProtection
<1>6. ASSUME NEW t \in Threads, RegisterInsert(t)
      PROVE  RefresherOK' /\ JoineeOK'
  BY <1>0, <1>6 DEF RegisterInsert
<1>7. ASSUME NEW t \in Threads, IgnoreInsert(t)
      PROVE  RefresherOK' /\ JoineeOK'
  BY <1>0, <1>7 DEF IgnoreInsert
<1>8. ASSUME NEW t \in Threads, InitLock(t) PROVE RefresherOK' /\ JoineeOK'
  BY <1>0, <1>8 DEF InitLock
<1>9. ASSUME NEW t \in Threads, InitHandler(t) PROVE RefresherOK' /\ JoineeOK'
  BY <1>0, <1>9 DEF InitHandler
<1>10. ASSUME NEW t \in Threads, InitHandlerFails(t)
      PROVE  RefresherOK' /\ JoineeOK'
  BY <1>0, <1>10 DEF InitHandlerFails
<1>11. ASSUME NEW t \in Threads, InitSetOk(t) PROVE RefresherOK' /\ JoineeOK'
  BY <1>0, <1>11 DEF InitSetOk
<1>12. ASSUME NEW t \in Threads, InitCheck(t) PROVE RefresherOK' /\ JoineeOK'
  BY <1>0, <1>12 DEF InitCheck
<1>13. ASSUME NEW t \in Threads, AsyncTest(t) PROVE RefresherOK' /\ JoineeOK'
  BY <1>0, <1>13 DEF AsyncTest
<1>14. ASSUME NEW t \in Threads, AsyncLock(t) PROVE RefresherOK' /\ JoineeOK'
  BY <1>0, <1>14 DEF AsyncLock
<1>15. ASSUME NEW t \in Threads, AsyncRun(t) PROVE RefresherOK' /\ JoineeOK'
  BY <1>0, <1>15 DEF AsyncRun
<1>16. ASSUME NEW t \in Threads, AsyncCreate(t)
      PROVE  RefresherOK' /\ JoineeOK'
  BY <1>0, <1>16 DEF AsyncCreate
<1>17. ASSUME NEW t \in Threads, AsyncCreateFails(t)
      PROVE  RefresherOK' /\ JoineeOK'
  BY <1>0, <1>17 DEF AsyncCreateFails
<1>18. ASSUME NEW t \in Threads, AsyncSetOk(t) PROVE RefresherOK' /\ JoineeOK'
  BY <1>0, <1>18 DEF AsyncSetOk
<1>19. ASSUME NEW t \in Threads, AsyncCheck(t) PROVE RefresherOK' /\ JoineeOK'
  BY <1>0, <1>19 DEF AsyncCheck
<1>20. ASSUME NEW t \in Threads, AsyncDo(t) PROVE RefresherOK' /\ JoineeOK'
  BY <1>0, <1>20 DEF AsyncDo
<1>21. ASSUME NEW t \in Threads, ClearStop(t) PROVE RefresherOK' /\ JoineeOK'
  BY <1>0, <1>21 DEF ClearStop
<1>22. ASSUME NEW t \in Threads, ClearJoin(t) PROVE RefresherOK' /\ JoineeOK'
  BY <1>0, <1>22 DEF ClearJoin
<1>23. ASSUME NEW t \in Threads, ClearJoined(t)
      PROVE  RefresherOK' /\ JoineeOK'
  BY <1>0, <1>23 DEF ClearJoined
<1>24. ASSUME NEW t \in Threads, ClearAsyncInitOk(t)
      PROVE  RefresherOK' /\ JoineeOK'
  BY <1>0, <1>24 DEF ClearAsyncInitOk
<1>25. ASSUME NEW t \in Threads, ClearAsyncInited(t)
      PROVE  RefresherOK' /\ JoineeOK'
  BY <1>0, <1>25 DEF ClearAsyncInited
<1>26. ASSUME NEW t \in Threads, ClearTest(t) PROVE RefresherOK' /\ JoineeOK'
  BY <1>0, <1>26 DEF ClearTest
<1>27. ASSUME NEW t \in Threads, ClearHandler(t)
      PROVE  RefresherOK' /\ JoineeOK'
  BY <1>0, <1>27 DEF ClearHandler
<1>28. ASSUME NEW t \in Threads, ClearInitOk(t)
      PROVE  RefresherOK' /\ JoineeOK'
  BY <1>0, <1>28 DEF ClearInitOk
<1>29. ASSUME NEW t \in Threads, ClearInited(t)
      PROVE  RefresherOK' /\ JoineeOK'
  BY <1>0, <1>29 DEF ClearInited
<1>30. ASSUME NEW t \in Threads, ClearLockCore(t)
      PROVE  RefresherOK' /\ JoineeOK'
  BY <1>0, <1>30 DEF ClearLockCore
<1>31. ASSUME NEW t \in Threads, ClearLockRefresh(t)
      PROVE  RefresherOK' /\ JoineeOK'
  BY <1>0, <1>31 DEF ClearLockRefresh
<1>32. ASSUME NEW t \in Threads, ClearFree(t) PROVE RefresherOK' /\ JoineeOK'
  BY <1>0, <1>32 DEF ClearFree
<1>33. ASSUME NEW w \in Workers, WorkerLoop(w) PROVE RefresherOK' /\ JoineeOK'
  BY <1>0, <1>33 DEF WorkerLoop
<1>34. ASSUME NEW w \in Workers, WorkerCond(w) PROVE RefresherOK' /\ JoineeOK'
  BY <1>0, <1>34 DEF WorkerCond
<1>35. ASSUME NEW w \in Workers, SpuriousWakeup(w)
      PROVE  RefresherOK' /\ JoineeOK'
  BY <1>0, <1>35 DEF SpuriousWakeup
<1>36. ASSUME NEW p \in Procs, WalkBegin(p) PROVE RefresherOK' /\ JoineeOK'
  BY <1>0, <1>36 DEF WalkBegin
<1>37. ASSUME NEW p \in Procs, WalkOpenFails(p)
      PROVE  RefresherOK' /\ JoineeOK'
  BY <1>0, <1>37 DEF WalkOpenFails
<1>38. ASSUME NEW p \in Procs, WalkEnd(p) PROVE RefresherOK' /\ JoineeOK'
  BY <1>0, <1>38 DEF WalkEnd
<1>39. ASSUME NEW p \in Procs, NEW lib \in Libs, WalkTracked(p, lib)
      PROVE  RefresherOK' /\ JoineeOK'
  BY <1>0, <1>39 DEF WalkTracked
<1>40. ASSUME NEW p \in Procs, NEW lib \in Libs, WalkNew(p, lib)
      PROVE  RefresherOK' /\ JoineeOK'
  BY <1>0, <1>40 DEF WalkNew
<1>41. ASSUME NEW p \in Procs, NEW lib \in Libs, WalkSkip(p, lib)
      PROVE  RefresherOK' /\ JoineeOK'
  BY <1>0, <1>41 DEF WalkSkip
<1>42. ASSUME NEW lib \in Libs, Dlopen(lib) PROVE RefresherOK' /\ JoineeOK'
  BY <1>0, <1>42 DEF Dlopen
<1>43. ASSUME UNCHANGED vars PROVE RefresherOK' /\ JoineeOK'
  BY <1>0, <1>43 DEF vars
<1> QED
  BY <1>1, <1>2, <1>3, <1>4, <1>5, <1>6, <1>7, <1>8, <1>9, <1>10, <1>11,
     <1>12, <1>13, <1>14, <1>15, <1>16, <1>17, <1>18, <1>19, <1>20, <1>21,
     <1>22, <1>23, <1>24, <1>25, <1>26, <1>27, <1>28, <1>29, <1>30, <1>31,
     <1>32, <1>33, <1>34, <1>35, <1>36, <1>37, <1>38, <1>39, <1>40, <1>41,
     <1>42, <1>43
     DEF Next, BeginCall, ThreadStep, WorkerStep, Walk

LEMMA RunningStep ==
  ASSUME TypeOK, CallOK, AloneOK, CoreOwner, InitFlagsOK, RefresherOK,
         RunningOK, [Next]_vars
  PROVE  RunningOK'
<1> USE CoreAssumption DEF CallOK, AloneOK, CoreOwner, InitFlagsOK,
           RefresherOK, RunningOK, Clearing, AsyncLabels, ClearLabels,
           WorkerLabels, CoreLabels, WalkLabels
<1>0. /\ pc \in [Procs -> Labels]
      /\ inited \in BOOLEAN /\ init_ok \in BOOLEAN
      /\ async_inited \in BOOLEAN /\ async_init_ok \in BOOLEAN
      /\ refresh_thread_tid \in Workers \cup {Nobody}
      /\ refresh_thread_running \in BOOLEAN
      /\ call \in [Threads -> Ops \cup {"none"}]
  BY DEF TypeOK, CallTypeOK, FlagTypeOK
<1>1. ASSUME NEW t \in Threads, NEW hi \in Hooks, Register(t, hi)
      PROVE  RunningOK'
  BY <1>0, <1>1 DEF Register
<1>2. ASSUME NEW t \in Threads, NEW ii \in Ignores, Ignore(t, ii)
      PROVE  RunningOK'
  BY <1>0, <1>2 DEF Ignore
<1>3. ASSUME NEW t \in Threads, NEW op \in Ops, Refresh(t, op)
      PROVE  RunningOK'
  BY <1>0, <1>3 DEF Refresh
<1>4. ASSUME NEW t \in Threads, Clear(t) PROVE RunningOK'
  BY <1>0, <1>4 DEF Clear
<1>5. ASSUME NEW t \in Threads, NEW flag \in BOOLEAN,
             EnableSigsegvProtection(t, flag) PROVE RunningOK'
  BY <1>0, <1>5 DEF EnableSigsegvProtection
<1>6. ASSUME NEW t \in Threads, RegisterInsert(t) PROVE RunningOK'
  BY <1>0, <1>6 DEF RegisterInsert
<1>7. ASSUME NEW t \in Threads, IgnoreInsert(t) PROVE RunningOK'
  BY <1>0, <1>7 DEF IgnoreInsert
<1>8. ASSUME NEW t \in Threads, InitLock(t) PROVE RunningOK'
  BY <1>0, <1>8 DEF InitLock
<1>9. ASSUME NEW t \in Threads, InitHandler(t) PROVE RunningOK'
  BY <1>0, <1>9 DEF InitHandler
<1>10. ASSUME NEW t \in Threads, InitHandlerFails(t) PROVE RunningOK'
  BY <1>0, <1>10 DEF InitHandlerFails
<1>11. ASSUME NEW t \in Threads, InitSetOk(t) PROVE RunningOK'
  BY <1>0, <1>11 DEF InitSetOk
<1>12. ASSUME NEW t \in Threads, InitCheck(t) PROVE RunningOK'
  BY <1>0, <1>12 DEF InitCheck
<1>13. ASSUME NEW t \in Threads, AsyncTest(t) PROVE RunningOK'
  BY <1>0, <1>13 DEF AsyncTest
<1>14. ASSUME NEW t \in Threads, AsyncLock(t) PROVE RunningOK'
  BY <1>0, <1>14 DEF AsyncLock
<1>15. ASSUME NEW t \in Threads, AsyncRun(t) PROVE RunningOK'
  BY <1>0, <1>15 DEF AsyncRun
<1>16. ASSUME NEW t \in Threads, AsyncCreate(t) PROVE RunningOK'
  BY <1>0, <1>16 DEF AsyncCreate
<1>17. ASSUME NEW t \in Threads, AsyncCreateFails(t) PROVE RunningOK'
  BY <1>0, <1>17 DEF AsyncCreateFails
<1>18. ASSUME NEW t \in Threads, AsyncSetOk(t) PROVE RunningOK'
  BY <1>0, <1>18 DEF AsyncSetOk
<1>19. ASSUME NEW t \in Threads, AsyncCheck(t) PROVE RunningOK'
  BY <1>0, <1>19 DEF AsyncCheck
<1>20. ASSUME NEW t \in Threads, AsyncDo(t) PROVE RunningOK'
  BY <1>0, <1>20 DEF AsyncDo
<1>21. ASSUME NEW t \in Threads, ClearStop(t) PROVE RunningOK'
  BY <1>0, <1>21 DEF ClearStop
<1>22. ASSUME NEW t \in Threads, ClearJoin(t) PROVE RunningOK'
  BY <1>0, <1>22 DEF ClearJoin
<1>23. ASSUME NEW t \in Threads, ClearJoined(t) PROVE RunningOK'
  BY <1>0, <1>23 DEF ClearJoined
<1>24. ASSUME NEW t \in Threads, ClearAsyncInitOk(t) PROVE RunningOK'
  BY <1>0, <1>24 DEF ClearAsyncInitOk
<1>25. ASSUME NEW t \in Threads, ClearAsyncInited(t) PROVE RunningOK'
  BY <1>0, <1>25 DEF ClearAsyncInited
<1>26. ASSUME NEW t \in Threads, ClearTest(t) PROVE RunningOK'
  BY <1>0, <1>26 DEF ClearTest
<1>27. ASSUME NEW t \in Threads, ClearHandler(t) PROVE RunningOK'
  BY <1>0, <1>27 DEF ClearHandler
<1>28. ASSUME NEW t \in Threads, ClearInitOk(t) PROVE RunningOK'
  BY <1>0, <1>28 DEF ClearInitOk
<1>29. ASSUME NEW t \in Threads, ClearInited(t) PROVE RunningOK'
  BY <1>0, <1>29 DEF ClearInited
<1>30. ASSUME NEW t \in Threads, ClearLockCore(t) PROVE RunningOK'
  BY <1>0, <1>30 DEF ClearLockCore
<1>31. ASSUME NEW t \in Threads, ClearLockRefresh(t) PROVE RunningOK'
  BY <1>0, <1>31 DEF ClearLockRefresh
<1>32. ASSUME NEW t \in Threads, ClearFree(t) PROVE RunningOK'
  BY <1>0, <1>32 DEF ClearFree
<1>33. ASSUME NEW w \in Workers, WorkerLoop(w) PROVE RunningOK'
  BY <1>0, <1>33 DEF WorkerLoop
<1>34. ASSUME NEW w \in Workers, WorkerCond(w) PROVE RunningOK'
  BY <1>0, <1>34 DEF WorkerCond
<1>35. ASSUME NEW w \in Workers, SpuriousWakeup(w) PROVE RunningOK'
  BY <1>0, <1>35 DEF SpuriousWakeup
<1>36. ASSUME NEW p \in Procs, WalkBegin(p) PROVE RunningOK'
  BY <1>0, <1>36 DEF WalkBegin
<1>37. ASSUME NEW p \in Procs, WalkOpenFails(p) PROVE RunningOK'
  BY <1>0, <1>37 DEF WalkOpenFails
<1>38. ASSUME NEW p \in Procs, WalkEnd(p) PROVE RunningOK'
  BY <1>0, <1>38 DEF WalkEnd
<1>39. ASSUME NEW p \in Procs, NEW lib \in Libs, WalkTracked(p, lib)
      PROVE  RunningOK'
  BY <1>0, <1>39 DEF WalkTracked
<1>40. ASSUME NEW p \in Procs, NEW lib \in Libs, WalkNew(p, lib)
      PROVE  RunningOK'
  BY <1>0, <1>40 DEF WalkNew
<1>41. ASSUME NEW p \in Procs, NEW lib \in Libs, WalkSkip(p, lib)
      PROVE  RunningOK'
  BY <1>0, <1>41 DEF WalkSkip
<1>42. ASSUME NEW lib \in Libs, Dlopen(lib) PROVE RunningOK'
  BY <1>0, <1>42 DEF Dlopen
<1>43. ASSUME UNCHANGED vars PROVE RunningOK'
  BY <1>0, <1>43 DEF vars
<1> QED
  BY <1>1, <1>2, <1>3, <1>4, <1>5, <1>6, <1>7, <1>8, <1>9, <1>10, <1>11,
     <1>12, <1>13, <1>14, <1>15, <1>16, <1>17, <1>18, <1>19, <1>20, <1>21,
     <1>22, <1>23, <1>24, <1>25, <1>26, <1>27, <1>28, <1>29, <1>30, <1>31,
     <1>32, <1>33, <1>34, <1>35, <1>36, <1>37, <1>38, <1>39, <1>40, <1>41,
     <1>42, <1>43
     DEF Next, BeginCall, ThreadStep, WorkerStep, Walk

LEMMA HandlerStep ==
  ASSUME TypeOK, CallOK, AloneOK, CoreOwner, InitFlagsOK, HandlerOK,
         "protect" \notin Calls, [Next]_vars
  PROVE  HandlerOK'
<1> USE CoreAssumption DEF CallOK, AloneOK, CoreOwner, InitFlagsOK,
           HandlerOK, AsyncLabels, ClearLabels, WorkerLabels, CoreLabels,
           WalkLabels
<1>0. /\ pc \in [Procs -> Labels]
      /\ inited \in BOOLEAN /\ init_ok \in BOOLEAN
      /\ async_inited \in BOOLEAN /\ async_init_ok \in BOOLEAN
      /\ refresh_thread_tid \in Workers \cup {Nobody}
      /\ sigsegv_enable \in BOOLEAN
  BY DEF TypeOK, CallTypeOK, FlagTypeOK
<1>1. ASSUME NEW t \in Threads, NEW hi \in Hooks, Register(t, hi)
      PROVE  HandlerOK'
  BY <1>0, <1>1 DEF Register
<1>2. ASSUME NEW t \in Threads, NEW ii \in Ignores, Ignore(t, ii)
      PROVE  HandlerOK'
  BY <1>0, <1>2 DEF Ignore
<1>3. ASSUME NEW t \in Threads, NEW op \in Ops, Refresh(t, op)
      PROVE  HandlerOK'
  BY <1>0, <1>3 DEF Refresh
<1>4. ASSUME NEW t \in Threads, Clear(t) PROVE HandlerOK'
  BY <1>0, <1>4 DEF Clear
<1>5. ASSUME NEW t \in Threads, NEW flag \in BOOLEAN,
             EnableSigsegvProtection(t, flag) PROVE HandlerOK'
  BY <1>0, <1>5 DEF EnableSigsegvProtection
<1>6. ASSUME NEW t \in Threads, RegisterInsert(t) PROVE HandlerOK'
  BY <1>0, <1>6 DEF RegisterInsert
<1>7. ASSUME NEW t \in Threads, IgnoreInsert(t) PROVE HandlerOK'
  BY <1>0, <1>7 DEF IgnoreInsert
<1>8. ASSUME NEW t \in Threads, InitLock(t) PROVE HandlerOK'
  BY <1>0, <1>8 DEF InitLock
<1>9. ASSUME NEW t \in Threads, InitHandler(t) PROVE HandlerOK'
  BY <1>0, <1>9 DEF InitHandler
<1>10. ASSUME NEW t \in Threads, InitHandlerFails(t) PROVE HandlerOK'
  BY <1>0, <1>10 DEF InitHandlerFails
<1>11. ASSUME NEW t \in Threads, InitSetOk(t) PROVE HandlerOK'
  BY <1>0, <1>11 DEF InitSetOk
<1>12. ASSUME NEW t \in Threads, InitCheck(t) PROVE HandlerOK'
  BY <1>0, <1>12 DEF InitCheck
<1>13. ASSUME NEW t \in Threads, AsyncTest(t) PROVE HandlerOK'
  BY <1>0, <1>13 DEF AsyncTest
<1>14. ASSUME NEW t \in Threads, AsyncLock(t) PROVE HandlerOK'
  BY <1>0, <1>14 DEF AsyncLock
<1>15. ASSUME NEW t \in Threads, AsyncRun(t) PROVE HandlerOK'
  BY <1>0, <1>15 DEF AsyncRun
<1>16. ASSUME NEW t \in Threads, AsyncCreate(t) PROVE HandlerOK'
  BY <1>0, <1>16 DEF AsyncCreate
<1>17. ASSUME NEW t \in Threads, AsyncCreateFails(t) PROVE HandlerOK'
  BY <1>0, <1>17 DEF AsyncCreateFails
<1>18. ASSUME NEW t \in Threads, AsyncSetOk(t) PROVE HandlerOK'
  BY <1>0, <1>18 DEF AsyncSetOk
<1>19. ASSUME NEW t \in Threads, AsyncCheck(t) PROVE HandlerOK'
  BY <1>0, <1>19 DEF AsyncCheck
<1>20. ASSUME NEW t \in Threads, AsyncDo(t) PROVE HandlerOK'
  BY <1>0, <1>20 DEF AsyncDo
<1>21. ASSUME NEW t \in Threads, ClearStop(t) PROVE HandlerOK'
  BY <1>0, <1>21 DEF ClearStop
<1>22. ASSUME NEW t \in Threads, ClearJoin(t) PROVE HandlerOK'
  BY <1>0, <1>22 DEF ClearJoin
<1>23. ASSUME NEW t \in Threads, ClearJoined(t) PROVE HandlerOK'
  BY <1>0, <1>23 DEF ClearJoined
<1>24. ASSUME NEW t \in Threads, ClearAsyncInitOk(t) PROVE HandlerOK'
  BY <1>0, <1>24 DEF ClearAsyncInitOk
<1>25. ASSUME NEW t \in Threads, ClearAsyncInited(t) PROVE HandlerOK'
  BY <1>0, <1>25 DEF ClearAsyncInited
<1>26. ASSUME NEW t \in Threads, ClearTest(t) PROVE HandlerOK'
  BY <1>0, <1>26 DEF ClearTest
<1>27. ASSUME NEW t \in Threads, ClearHandler(t) PROVE HandlerOK'
  BY <1>0, <1>27 DEF ClearHandler
<1>28. ASSUME NEW t \in Threads, ClearInitOk(t) PROVE HandlerOK'
  BY <1>0, <1>28 DEF ClearInitOk
<1>29. ASSUME NEW t \in Threads, ClearInited(t) PROVE HandlerOK'
  BY <1>0, <1>29 DEF ClearInited
<1>30. ASSUME NEW t \in Threads, ClearLockCore(t) PROVE HandlerOK'
  BY <1>0, <1>30 DEF ClearLockCore
<1>31. ASSUME NEW t \in Threads, ClearLockRefresh(t) PROVE HandlerOK'
  BY <1>0, <1>31 DEF ClearLockRefresh
<1>32. ASSUME NEW t \in Threads, ClearFree(t) PROVE HandlerOK'
  BY <1>0, <1>32 DEF ClearFree
<1>33. ASSUME NEW w \in Workers, WorkerLoop(w) PROVE HandlerOK'
  BY <1>0, <1>33 DEF WorkerLoop
<1>34. ASSUME NEW w \in Workers, WorkerCond(w) PROVE HandlerOK'
  BY <1>0, <1>34 DEF WorkerCond
<1>35. ASSUME NEW w \in Workers, SpuriousWakeup(w) PROVE HandlerOK'
  BY <1>0, <1>35 DEF SpuriousWakeup
<1>36. ASSUME NEW p \in Procs, WalkBegin(p) PROVE HandlerOK'
  BY <1>0, <1>36 DEF WalkBegin
<1>37. ASSUME NEW p \in Procs, WalkOpenFails(p) PROVE HandlerOK'
  BY <1>0, <1>37 DEF WalkOpenFails
<1>38. ASSUME NEW p \in Procs, WalkEnd(p) PROVE HandlerOK'
  BY <1>0, <1>38 DEF WalkEnd
<1>39. ASSUME NEW p \in Procs, NEW lib \in Libs, WalkTracked(p, lib)
      PROVE  HandlerOK'
  BY <1>0, <1>39 DEF WalkTracked
<1>40. ASSUME NEW p \in Procs, NEW lib \in Libs, WalkNew(p, lib)
      PROVE  HandlerOK'
  BY <1>0, <1>40 DEF WalkNew
<1>41. ASSUME NEW p \in Procs, NEW lib \in Libs, WalkSkip(p, lib)
      PROVE  HandlerOK'
  BY <1>0, <1>41 DEF WalkSkip
<1>42. ASSUME NEW lib \in Libs, Dlopen(lib) PROVE HandlerOK'
  BY <1>0, <1>42 DEF Dlopen
<1>43. ASSUME UNCHANGED vars PROVE HandlerOK'
  BY <1>0, <1>43 DEF vars
<1> QED
  BY <1>1, <1>2, <1>3, <1>4, <1>5, <1>6, <1>7, <1>8, <1>9, <1>10, <1>11,
     <1>12, <1>13, <1>14, <1>15, <1>16, <1>17, <1>18, <1>19, <1>20, <1>21,
     <1>22, <1>23, <1>24, <1>25, <1>26, <1>27, <1>28, <1>29, <1>30, <1>31,
     <1>32, <1>33, <1>34, <1>35, <1>36, <1>37, <1>38, <1>39, <1>40, <1>41,
     <1>42, <1>43
     DEF Next, BeginCall, ThreadStep, WorkerStep, Walk

LEMMA TrackedStep ==
  ASSUME TypeOK, CallOK, AloneOK, RefreshOwner, InitFlagsOK, RefresherOK,
         TrackedOK, [Next]_vars
  PROVE  TrackedOK'
<1> USE CoreAssumption DEF CallOK, AloneOK, RefreshOwner, InitFlagsOK,
           RefresherOK, TrackedOK, Sealed, Walkers, AsyncLabels, ClearLabels,
           WorkerLabels, RefreshLabels, WalkLabels
<1>0. /\ pc \in [Procs -> Labels]
      /\ refresh_mutex \in Procs \cup {Nobody}
      /\ inited \in BOOLEAN
      /\ map_info \in SUBSET Libs /\ refreshed \in SUBSET Libs
      /\ todo \in SUBSET Libs /\ mapped \in SUBSET Libs
  BY DEF TypeOK, FlagTypeOK, DataTypeOK
<1>1. ASSUME NEW t \in Threads, NEW hi \in Hooks, Register(t, hi)
      PROVE  TrackedOK'
  BY <1>0, <1>1 DEF Register
<1>2. ASSUME NEW t \in Threads, NEW ii \in Ignores, Ignore(t, ii)
      PROVE  TrackedOK'
  BY <1>0, <1>2 DEF Ignore
<1>3. ASSUME NEW t \in Threads, NEW op \in Ops, Refresh(t, op)
      PROVE  TrackedOK'
  BY <1>0, <1>3 DEF Refresh
<1>4. ASSUME NEW t \in Threads, Clear(t) PROVE TrackedOK'
  BY <1>0, <1>4 DEF Clear
<1>5. ASSUME NEW t \in Threads, NEW flag \in BOOLEAN,
             EnableSigsegvProtection(t, flag) PROVE TrackedOK'
  BY <1>0, <1>5 DEF EnableSigsegvProtection
<1>6. ASSUME NEW t \in Threads, RegisterInsert(t) PROVE TrackedOK'
  BY <1>0, <1>6 DEF RegisterInsert
<1>7. ASSUME NEW t \in Threads, IgnoreInsert(t) PROVE TrackedOK'
  BY <1>0, <1>7 DEF IgnoreInsert
<1>8. ASSUME NEW t \in Threads, InitLock(t) PROVE TrackedOK'
  BY <1>0, <1>8 DEF InitLock
<1>9. ASSUME NEW t \in Threads, InitHandler(t) PROVE TrackedOK'
  BY <1>0, <1>9 DEF InitHandler
<1>10. ASSUME NEW t \in Threads, InitHandlerFails(t) PROVE TrackedOK'
  BY <1>0, <1>10 DEF InitHandlerFails
<1>11. ASSUME NEW t \in Threads, InitSetOk(t) PROVE TrackedOK'
  BY <1>0, <1>11 DEF InitSetOk
<1>12. ASSUME NEW t \in Threads, InitCheck(t) PROVE TrackedOK'
  BY <1>0, <1>12 DEF InitCheck
<1>13. ASSUME NEW t \in Threads, AsyncTest(t) PROVE TrackedOK'
  BY <1>0, <1>13 DEF AsyncTest
<1>14. ASSUME NEW t \in Threads, AsyncLock(t) PROVE TrackedOK'
  BY <1>0, <1>14 DEF AsyncLock
<1>15. ASSUME NEW t \in Threads, AsyncRun(t) PROVE TrackedOK'
  BY <1>0, <1>15 DEF AsyncRun
<1>16. ASSUME NEW t \in Threads, AsyncCreate(t) PROVE TrackedOK'
  BY <1>0, <1>16 DEF AsyncCreate
<1>17. ASSUME NEW t \in Threads, AsyncCreateFails(t) PROVE TrackedOK'
  BY <1>0, <1>17 DEF AsyncCreateFails
<1>18. ASSUME NEW t \in Threads, AsyncSetOk(t) PROVE TrackedOK'
  BY <1>0, <1>18 DEF AsyncSetOk
<1>19. ASSUME NEW t \in Threads, AsyncCheck(t) PROVE TrackedOK'
  BY <1>0, <1>19 DEF AsyncCheck
<1>20. ASSUME NEW t \in Threads, AsyncDo(t) PROVE TrackedOK'
  BY <1>0, <1>20 DEF AsyncDo
<1>21. ASSUME NEW t \in Threads, ClearStop(t) PROVE TrackedOK'
  BY <1>0, <1>21 DEF ClearStop
<1>22. ASSUME NEW t \in Threads, ClearJoin(t) PROVE TrackedOK'
  BY <1>0, <1>22 DEF ClearJoin
<1>23. ASSUME NEW t \in Threads, ClearJoined(t) PROVE TrackedOK'
  BY <1>0, <1>23 DEF ClearJoined
<1>24. ASSUME NEW t \in Threads, ClearAsyncInitOk(t) PROVE TrackedOK'
  BY <1>0, <1>24 DEF ClearAsyncInitOk
<1>25. ASSUME NEW t \in Threads, ClearAsyncInited(t) PROVE TrackedOK'
  BY <1>0, <1>25 DEF ClearAsyncInited
<1>26. ASSUME NEW t \in Threads, ClearTest(t) PROVE TrackedOK'
  BY <1>0, <1>26 DEF ClearTest
<1>27. ASSUME NEW t \in Threads, ClearHandler(t) PROVE TrackedOK'
  BY <1>0, <1>27 DEF ClearHandler
<1>28. ASSUME NEW t \in Threads, ClearInitOk(t) PROVE TrackedOK'
  BY <1>0, <1>28 DEF ClearInitOk
<1>29. ASSUME NEW t \in Threads, ClearInited(t) PROVE TrackedOK'
  BY <1>0, <1>29 DEF ClearInited
<1>30. ASSUME NEW t \in Threads, ClearLockCore(t) PROVE TrackedOK'
  BY <1>0, <1>30 DEF ClearLockCore
<1>31. ASSUME NEW t \in Threads, ClearLockRefresh(t) PROVE TrackedOK'
  BY <1>0, <1>31 DEF ClearLockRefresh
<1>32. ASSUME NEW t \in Threads, ClearFree(t) PROVE TrackedOK'
  BY <1>0, <1>32 DEF ClearFree
<1>33. ASSUME NEW w \in Workers, WorkerLoop(w) PROVE TrackedOK'
  BY <1>0, <1>33 DEF WorkerLoop
<1>34. ASSUME NEW w \in Workers, WorkerCond(w) PROVE TrackedOK'
  BY <1>0, <1>34 DEF WorkerCond
<1>35. ASSUME NEW w \in Workers, SpuriousWakeup(w) PROVE TrackedOK'
  BY <1>0, <1>35 DEF SpuriousWakeup
<1>36. ASSUME NEW p \in Procs, WalkBegin(p) PROVE TrackedOK'
  BY <1>0, <1>36 DEF WalkBegin
<1>37. ASSUME NEW p \in Procs, WalkOpenFails(p) PROVE TrackedOK'
  BY <1>0, <1>37 DEF WalkOpenFails
<1>38. ASSUME NEW p \in Procs, WalkEnd(p) PROVE TrackedOK'
  BY <1>0, <1>38 DEF WalkEnd
<1>39. ASSUME NEW p \in Procs, NEW lib \in Libs, WalkTracked(p, lib)
      PROVE  TrackedOK'
  BY <1>0, <1>39 DEF WalkTracked
<1>40. ASSUME NEW p \in Procs, NEW lib \in Libs, WalkNew(p, lib)
      PROVE  TrackedOK'
  BY <1>0, <1>40 DEF WalkNew
<1>41. ASSUME NEW p \in Procs, NEW lib \in Libs, WalkSkip(p, lib)
      PROVE  TrackedOK'
  BY <1>0, <1>41 DEF WalkSkip
<1>42. ASSUME NEW lib \in Libs, Dlopen(lib) PROVE TrackedOK'
  BY <1>0, <1>42 DEF Dlopen
<1>43. ASSUME UNCHANGED vars PROVE TrackedOK'
  BY <1>0, <1>43 DEF vars
<1> QED
  BY <1>1, <1>2, <1>3, <1>4, <1>5, <1>6, <1>7, <1>8, <1>9, <1>10, <1>11,
     <1>12, <1>13, <1>14, <1>15, <1>16, <1>17, <1>18, <1>19, <1>20, <1>21,
     <1>22, <1>23, <1>24, <1>25, <1>26, <1>27, <1>28, <1>29, <1>30, <1>31,
     <1>32, <1>33, <1>34, <1>35, <1>36, <1>37, <1>38, <1>39, <1>40, <1>41,
     <1>42, <1>43
     DEF Next, BeginCall, ThreadStep, WorkerStep, Walk

\* Nothing is tracked and nobody walks when an entry is inserted.
LEMMA OpenRegistry ==
  ASSUME CallOK, AloneOK, InitFlagsOK, RefresherOK, TrackedOK,
         NEW t \in Threads, pc[t] \in {"register_insert", "ignore_insert"}
  PROVE  ~ Sealed /\ Walkers = {} /\ map_info = {} /\ refreshed = {}
<1>1. ~ inited
  BY DEF InitFlagsOK
<1>2. call[t] \in {"register", "ignore"}
  BY DEF CallOK
<1>3. ~ Sealed
  <2>1. \A u \in Threads : pc[u] \notin ClearLabels
    BY <1>2 DEF AloneOK, CallOK
  <2> QED
    BY <1>1, <2>1 DEF Sealed, ClearLabels
<1>4. Walkers = {}
  <2>1. \A u \in Threads : pc[u] # "refresh_walk"
    BY <1>1 DEF InitFlagsOK
  <2>2. \A w \in Workers : pc[w] = "none"
    BY <1>1 DEF InitFlagsOK, RefresherOK
  <2> QED
    BY <2>1, <2>2 DEF Walkers
<1> QED
  BY <1>3, <1>4 DEF TrackedOK

\* Nobody walks when clear frees the tree.
LEMMA ClearAlone ==
  ASSUME RefreshOwner, TrackedOK, NEW t \in Threads, pc[t] = "clear_free"
  PROVE  Walkers = {} /\ refreshed = {}
<1>1. Walkers = {}
  BY CoreAssumption DEF RefreshOwner, RefreshLabels, Walkers
<1> QED
  BY <1>1 DEF TrackedOK

LEMMA InstalledStep ==
  ASSUME TypeOK, CallOK, AloneOK, RefreshOwner, InitFlagsOK, RefresherOK,
         TrackedOK, InstalledWanted, [Next]_vars
  PROVE  InstalledWanted'
<1> USE DEF InstalledWanted
<1>0. /\ installed \in [Libs -> SUBSET Syms]
      /\ map_info \in SUBSET Libs /\ refreshed \in SUBSET Libs
  BY DEF TypeOK, DataTypeOK
<1>1. ASSUME NEW t \in Threads, NEW hi \in Hooks, Register(t, hi)
      PROVE  InstalledWanted'
  BY <1>0, <1>1 DEF Register
<1>2. ASSUME NEW t \in Threads, NEW ii \in Ignores, Ignore(t, ii)
      PROVE  InstalledWanted'
  BY <1>0, <1>2 DEF Ignore
<1>3. ASSUME NEW t \in Threads, NEW op \in Ops, Refresh(t, op)
      PROVE  InstalledWanted'
  BY <1>0, <1>3 DEF Refresh
<1>4. ASSUME NEW t \in Threads, Clear(t) PROVE InstalledWanted'
  BY <1>0, <1>4 DEF Clear
<1>5. ASSUME NEW t \in Threads, NEW flag \in BOOLEAN,
             EnableSigsegvProtection(t, flag) PROVE InstalledWanted'
  BY <1>0, <1>5 DEF EnableSigsegvProtection
<1>6. ASSUME NEW t \in Threads, RegisterInsert(t) PROVE InstalledWanted'
  BY <1>6, OpenRegistry DEF RegisterInsert
<1>7. ASSUME NEW t \in Threads, IgnoreInsert(t) PROVE InstalledWanted'
  BY <1>7, OpenRegistry DEF IgnoreInsert
<1>8. ASSUME NEW t \in Threads, InitLock(t) PROVE InstalledWanted'
  BY <1>0, <1>8 DEF InitLock
<1>9. ASSUME NEW t \in Threads, InitHandler(t) PROVE InstalledWanted'
  BY <1>0, <1>9 DEF InitHandler
<1>10. ASSUME NEW t \in Threads, InitHandlerFails(t) PROVE InstalledWanted'
  BY <1>0, <1>10 DEF InitHandlerFails
<1>11. ASSUME NEW t \in Threads, InitSetOk(t) PROVE InstalledWanted'
  BY <1>0, <1>11 DEF InitSetOk
<1>12. ASSUME NEW t \in Threads, InitCheck(t) PROVE InstalledWanted'
  BY <1>0, <1>12 DEF InitCheck
<1>13. ASSUME NEW t \in Threads, AsyncTest(t) PROVE InstalledWanted'
  BY <1>0, <1>13 DEF AsyncTest
<1>14. ASSUME NEW t \in Threads, AsyncLock(t) PROVE InstalledWanted'
  BY <1>0, <1>14 DEF AsyncLock
<1>15. ASSUME NEW t \in Threads, AsyncRun(t) PROVE InstalledWanted'
  BY <1>0, <1>15 DEF AsyncRun
<1>16. ASSUME NEW t \in Threads, AsyncCreate(t) PROVE InstalledWanted'
  BY <1>0, <1>16 DEF AsyncCreate
<1>17. ASSUME NEW t \in Threads, AsyncCreateFails(t) PROVE InstalledWanted'
  BY <1>0, <1>17 DEF AsyncCreateFails
<1>18. ASSUME NEW t \in Threads, AsyncSetOk(t) PROVE InstalledWanted'
  BY <1>0, <1>18 DEF AsyncSetOk
<1>19. ASSUME NEW t \in Threads, AsyncCheck(t) PROVE InstalledWanted'
  BY <1>0, <1>19 DEF AsyncCheck
<1>20. ASSUME NEW t \in Threads, AsyncDo(t) PROVE InstalledWanted'
  BY <1>0, <1>20 DEF AsyncDo
<1>21. ASSUME NEW t \in Threads, ClearStop(t) PROVE InstalledWanted'
  BY <1>0, <1>21 DEF ClearStop
<1>22. ASSUME NEW t \in Threads, ClearJoin(t) PROVE InstalledWanted'
  BY <1>0, <1>22 DEF ClearJoin
<1>23. ASSUME NEW t \in Threads, ClearJoined(t) PROVE InstalledWanted'
  BY <1>0, <1>23 DEF ClearJoined
<1>24. ASSUME NEW t \in Threads, ClearAsyncInitOk(t) PROVE InstalledWanted'
  BY <1>0, <1>24 DEF ClearAsyncInitOk
<1>25. ASSUME NEW t \in Threads, ClearAsyncInited(t) PROVE InstalledWanted'
  BY <1>0, <1>25 DEF ClearAsyncInited
<1>26. ASSUME NEW t \in Threads, ClearTest(t) PROVE InstalledWanted'
  BY <1>0, <1>26 DEF ClearTest
<1>27. ASSUME NEW t \in Threads, ClearHandler(t) PROVE InstalledWanted'
  BY <1>0, <1>27 DEF ClearHandler
<1>28. ASSUME NEW t \in Threads, ClearInitOk(t) PROVE InstalledWanted'
  BY <1>0, <1>28 DEF ClearInitOk
<1>29. ASSUME NEW t \in Threads, ClearInited(t) PROVE InstalledWanted'
  BY <1>0, <1>29 DEF ClearInited
<1>30. ASSUME NEW t \in Threads, ClearLockCore(t) PROVE InstalledWanted'
  BY <1>0, <1>30 DEF ClearLockCore
<1>31. ASSUME NEW t \in Threads, ClearLockRefresh(t) PROVE InstalledWanted'
  BY <1>0, <1>31 DEF ClearLockRefresh
<1>32. ASSUME NEW t \in Threads, ClearFree(t) PROVE InstalledWanted'
  BY <1>32, ClearAlone DEF ClearFree
<1>33. ASSUME NEW w \in Workers, WorkerLoop(w) PROVE InstalledWanted'
  BY <1>0, <1>33 DEF WorkerLoop
<1>34. ASSUME NEW w \in Workers, WorkerCond(w) PROVE InstalledWanted'
  BY <1>0, <1>34 DEF WorkerCond
<1>35. ASSUME NEW w \in Workers, SpuriousWakeup(w) PROVE InstalledWanted'
  BY <1>0, <1>35 DEF SpuriousWakeup
<1>36. ASSUME NEW p \in Procs, WalkBegin(p) PROVE InstalledWanted'
  BY <1>0, <1>36 DEF WalkBegin
<1>37. ASSUME NEW p \in Procs, WalkOpenFails(p) PROVE InstalledWanted'
  BY <1>0, <1>37 DEF WalkOpenFails
<1>38. ASSUME NEW p \in Procs, WalkEnd(p) PROVE InstalledWanted'
  BY <1>0, <1>38 DEF WalkEnd
<1>39. ASSUME NEW p \in Procs, NEW lib \in Libs, WalkTracked(p, lib)
      PROVE  InstalledWanted'
  BY <1>0, <1>39 DEF WalkTracked
<1>40. ASSUME NEW p \in Procs, NEW lib \in Libs, WalkNew(p, lib)
      PROVE  InstalledWanted'
  <2>1. Requested(lib) =
          {hook_info[i].symbol : i \in Wanted(hook_info, ignore_info, lib)}
    BY HookImplIsWanted DEF Requested
  <2>2. PICK done \in SUBSET Requested(lib) :
          /\ installed' = [installed EXCEPT ![lib] = @ \cup done]
          /\ damaged' = IF done = Requested(lib) THEN damaged \ {lib}
                                                ELSE damaged \cup {lib}
    BY <1>0, <1>40 DEF WalkNew
  <2>3. /\ UNCHANGED <<hook_info, ignore_info, map_info>>
        /\ refreshed' = refreshed \cup {lib}
    BY <1>0, <1>40 DEF WalkNew
  <2>4. ASSUME NEW l \in (map_info' \cup refreshed') \ damaged',
               NEW i \in Wanted(hook_info, ignore_info, l)
        PROVE  hook_info[i].symbol \in installed'[l]
    <3>1. CASE l = lib
      BY <1>0, <2>1, <2>2, <2>4, <3>1
    <3>2. CASE l # lib
      BY <1>0, <2>2, <2>3, <2>4, <3>2
    <3> QED
      BY <3>1, <3>2
  <2> QED
    BY <2>3, <2>4
<1>41. ASSUME NEW p \in Procs, NEW lib \in Libs, WalkSkip(p, lib)
      PROVE  InstalledWanted'
  BY <1>0, <1>41 DEF WalkSkip
<1>42. ASSUME NEW lib \in Libs, Dlopen(lib) PROVE InstalledWanted'
  BY <1>0, <1>42 DEF Dlopen
<1>43. ASSUME UNCHANGED vars PROVE InstalledWanted'
  BY <1>0, <1>43 DEF vars
<1> QED
  BY <1>1, <1>2, <1>3, <1>4, <1>5, <1>6, <1>7, <1>8, <1>9, <1>10, <1>11,
     <1>12, <1>13, <1>14, <1>15, <1>16, <1>17, <1>18, <1>19, <1>20, <1>21,
     <1>22, <1>23, <1>24, <1>25, <1>26, <1>27, <1>28, <1>29, <1>30, <1>31,
     <1>32, <1>33, <1>34, <1>35, <1>36, <1>37, <1>38, <1>39, <1>40, <1>41,
     <1>42, <1>43
     DEF Next, BeginCall, ThreadStep, WorkerStep, Walk

\* A walk runs under a sealed registry.
LEMMA WalkSealed ==
  ASSUME InitFlagsOK, RefresherOK, NEW p \in Procs,
         pc[p] \in WalkLabels
  PROVE  inited
<1>1. CASE p \in Threads
  BY <1>1 DEF InitFlagsOK, WalkLabels
<1>2. CASE p \in Workers
  BY <1>2 DEF InitFlagsOK, RefresherOK, WalkLabels
<1> QED
  BY <1>1, <1>2

LEMMA ApiStep ==
  ASSUME Inv, CallOK, AloneOK, InitFlagsOK, RefresherOK, TrackedOK, [Next]_vars
  PROVE  [Api!Next]_(Api!vars)
<1> USE DEF Inv
<1>0. /\ pc \in [Procs -> Labels]
      /\ inited \in BOOLEAN
      /\ call \in [Threads -> Ops \cup {"none"}]
  BY DEF TypeOK, CallTypeOK, FlagTypeOK
<1>1. ASSUME NEW t \in Threads, NEW hi \in Hooks, Register(t, hi)
      PROVE  [Api!Next]_(Api!vars)
  BY <1>0, <1>1 DEF Register, Sealed, Api!vars
<1>2. ASSUME NEW t \in Threads, NEW ii \in Ignores, Ignore(t, ii)
      PROVE  [Api!Next]_(Api!vars)
  BY <1>0, <1>2 DEF Ignore, Sealed, Api!vars
<1>3. ASSUME NEW t \in Threads, NEW op \in Ops, Refresh(t, op)
      PROVE  [Api!Next]_(Api!vars)
  BY <1>0, <1>3 DEF Refresh, Sealed, Api!vars
<1>4. ASSUME NEW t \in Threads, Clear(t) PROVE [Api!Next]_(Api!vars)
  BY <1>0, <1>4 DEF Clear, Sealed, Api!vars
<1>5. ASSUME NEW t \in Threads, NEW flag \in BOOLEAN,
             EnableSigsegvProtection(t, flag) PROVE [Api!Next]_(Api!vars)
  BY <1>0, <1>5 DEF EnableSigsegvProtection, Sealed, Api!vars
<1>6. ASSUME NEW t \in Threads, RegisterInsert(t) PROVE [Api!Next]_(Api!vars)
  <2>1. ~ Sealed /\ arg[t] \in Hooks
    BY <1>6, OpenRegistry DEF RegisterInsert, ArgOK
  <2>2. Sealed' = Sealed
    BY <1>0, <1>6 DEF RegisterInsert, Sealed
  <2>3. Api!Register(arg[t])
    BY <1>6, <2>1, <2>2 DEF RegisterInsert, Api!Register
  <2> QED
    BY <2>1, <2>3 DEF Api!Next
<1>7. ASSUME NEW t \in Threads, IgnoreInsert(t) PROVE [Api!Next]_(Api!vars)
  <2>1. ~ Sealed /\ arg[t] \in Ignores
    BY <1>7, OpenRegistry DEF IgnoreInsert, ArgOK
  <2>2. Sealed' = Sealed
    BY <1>0, <1>7 DEF IgnoreInsert, Sealed
  <2>3. Api!Ignore(arg[t])
    BY <1>7, <2>1, <2>2 DEF IgnoreInsert, Api!Ignore
  <2> QED
    BY <2>1, <2>3 DEF Api!Next
<1>8. ASSUME NEW t \in Threads, InitLock(t) PROVE [Api!Next]_(Api!vars)
  <2>1. CASE inited
    BY <1>0, <1>8, <2>1 DEF InitLock, Sealed, Api!vars
  <2>2. CASE ~ inited
    <3>1. Sealed'
      BY <1>8, <2>2 DEF InitLock, Sealed
    <3>2. Api!Seal
      BY <1>8, <3>1 DEF InitLock, Api!Seal
    <3> QED
      BY <3>2 DEF Api!Next
  <2> QED
    BY <2>1, <2>2
<1>9. ASSUME NEW t \in Threads, InitHandler(t) PROVE [Api!Next]_(Api!vars)
  BY <1>0, <1>9 DEF InitHandler, Sealed, Api!vars
<1>10. ASSUME NEW t \in Threads, InitHandlerFails(t)
      PROVE  [Api!Next]_(Api!vars)
  BY <1>0, <1>10 DEF InitHandlerFails, Sealed, Api!vars
<1>11. ASSUME NEW t \in Threads, InitSetOk(t) PROVE [Api!Next]_(Api!vars)
  BY <1>0, <1>11 DEF InitSetOk, Sealed, Api!vars
<1>12. ASSUME NEW t \in Threads, InitCheck(t) PROVE [Api!Next]_(Api!vars)
  BY <1>0, <1>12 DEF InitCheck, Sealed, Api!vars
<1>13. ASSUME NEW t \in Threads, AsyncTest(t) PROVE [Api!Next]_(Api!vars)
  BY <1>0, <1>13 DEF AsyncTest, Sealed, Api!vars
<1>14. ASSUME NEW t \in Threads, AsyncLock(t) PROVE [Api!Next]_(Api!vars)
  BY <1>0, <1>14 DEF AsyncLock, Sealed, Api!vars
<1>15. ASSUME NEW t \in Threads, AsyncRun(t) PROVE [Api!Next]_(Api!vars)
  BY <1>0, <1>15 DEF AsyncRun, Sealed, Api!vars
<1>16. ASSUME NEW t \in Threads, AsyncCreate(t) PROVE [Api!Next]_(Api!vars)
  BY <1>0, <1>16 DEF AsyncCreate, Sealed, Api!vars
<1>17. ASSUME NEW t \in Threads, AsyncCreateFails(t)
      PROVE  [Api!Next]_(Api!vars)
  BY <1>0, <1>17 DEF AsyncCreateFails, Sealed, Api!vars
<1>18. ASSUME NEW t \in Threads, AsyncSetOk(t) PROVE [Api!Next]_(Api!vars)
  BY <1>0, <1>18 DEF AsyncSetOk, Sealed, Api!vars
<1>19. ASSUME NEW t \in Threads, AsyncCheck(t) PROVE [Api!Next]_(Api!vars)
  BY <1>0, <1>19 DEF AsyncCheck, Sealed, Api!vars
<1>20. ASSUME NEW t \in Threads, AsyncDo(t) PROVE [Api!Next]_(Api!vars)
  BY <1>0, <1>20 DEF AsyncDo, Sealed, Api!vars
<1>21. ASSUME NEW t \in Threads, ClearStop(t) PROVE [Api!Next]_(Api!vars)
  BY <1>0, <1>21 DEF ClearStop, Sealed, Api!vars
<1>22. ASSUME NEW t \in Threads, ClearJoin(t) PROVE [Api!Next]_(Api!vars)
  BY <1>0, <1>22 DEF ClearJoin, Sealed, Api!vars
<1>23. ASSUME NEW t \in Threads, ClearJoined(t) PROVE [Api!Next]_(Api!vars)
  BY <1>0, <1>23 DEF ClearJoined, Sealed, Api!vars
<1>24. ASSUME NEW t \in Threads, ClearAsyncInitOk(t)
      PROVE  [Api!Next]_(Api!vars)
  BY <1>0, <1>24 DEF ClearAsyncInitOk, Sealed, Api!vars
<1>25. ASSUME NEW t \in Threads, ClearAsyncInited(t)
      PROVE  [Api!Next]_(Api!vars)
  BY <1>0, <1>25 DEF ClearAsyncInited, Sealed, Api!vars
<1>26. ASSUME NEW t \in Threads, ClearTest(t) PROVE [Api!Next]_(Api!vars)
  BY <1>0, <1>26 DEF ClearTest, Sealed, Api!vars
<1>27. ASSUME NEW t \in Threads, ClearHandler(t) PROVE [Api!Next]_(Api!vars)
  BY <1>0, <1>27 DEF ClearHandler, Sealed, Api!vars
<1>28. ASSUME NEW t \in Threads, ClearInitOk(t) PROVE [Api!Next]_(Api!vars)
  BY <1>0, <1>28 DEF ClearInitOk, Sealed, Api!vars
<1>29. ASSUME NEW t \in Threads, ClearInited(t) PROVE [Api!Next]_(Api!vars)
  <2>1. Sealed'
    BY <1>0, <1>29 DEF ClearInited, Sealed
  <2>2. Api!Seal
    BY <1>29, <2>1 DEF ClearInited, Api!Seal
  <2> QED
    BY <2>2 DEF Api!Next
<1>30. ASSUME NEW t \in Threads, ClearLockCore(t) PROVE [Api!Next]_(Api!vars)
  BY <1>0, <1>30 DEF ClearLockCore, Sealed, Api!vars
<1>31. ASSUME NEW t \in Threads, ClearLockRefresh(t)
      PROVE  [Api!Next]_(Api!vars)
  BY <1>0, <1>31 DEF ClearLockRefresh, Sealed, Api!vars
<1>32. ASSUME NEW t \in Threads, ClearFree(t) PROVE [Api!Next]_(Api!vars)
  <2>1. ~ Sealed'
    <3>1. ~ inited /\ call[t] = "clear"
      BY <1>0, <1>32 DEF ClearFree, InitFlagsOK, CallOK, ClearLabels
    <3>2. \A u \in Threads : pc'[u] \notin ClearLabels
      BY <1>0, <1>32, <3>1 DEF ClearFree, CallOK, AloneOK, ClearLabels
    <3> QED
      BY <1>32, <3>1, <3>2 DEF ClearFree, Sealed, ClearLabels
  <2>2. Api!Clear
    BY <1>32, <2>1, ClearAlone DEF ClearFree, Api!Clear
  <2> QED
    BY <2>2 DEF Api!Next
<1>33. ASSUME NEW w \in Workers, WorkerLoop(w) PROVE [Api!Next]_(Api!vars)
  BY <1>0, <1>33 DEF WorkerLoop, Sealed, Api!vars
<1>34. ASSUME NEW w \in Workers, WorkerCond(w) PROVE [Api!Next]_(Api!vars)
  BY <1>0, <1>34 DEF WorkerCond, Sealed, Api!vars
<1>35. ASSUME NEW w \in Workers, SpuriousWakeup(w) PROVE [Api!Next]_(Api!vars)
  BY <1>0, <1>35 DEF SpuriousWakeup, Sealed, Api!vars
<1>36. ASSUME NEW p \in Procs, WalkBegin(p) PROVE [Api!Next]_(Api!vars)
  <2>1. refreshed = {}
    BY <1>0, <1>36, CoreAssumption
       DEF WalkBegin, RefreshOwner, RefreshLabels, Walkers, TrackedOK
  <2>2. Sealed' = Sealed
    BY <1>0, <1>36 DEF WalkBegin, Sealed
  <2> QED
    BY <1>36, <2>1, <2>2 DEF WalkBegin, Api!vars
<1>37. ASSUME NEW p \in Procs, WalkOpenFails(p) PROVE [Api!Next]_(Api!vars)
  BY <1>0, <1>37 DEF WalkOpenFails, Sealed, Api!vars
<1>38. ASSUME NEW p \in Procs, WalkEnd(p) PROVE [Api!Next]_(Api!vars)
  <2>1. Sealed /\ Sealed'
    BY <1>0, <1>38, WalkSealed DEF WalkEnd, Sealed, WalkLabels
  <2>2. Api!Forget
    BY <1>38, <2>1 DEF WalkEnd, Api!Forget
  <2> QED
    BY <2>2 DEF Api!Next
<1>39. ASSUME NEW p \in Procs, NEW lib \in Libs, WalkTracked(p, lib)
      PROVE  [Api!Next]_(Api!vars)
  <2>1. map_info' \cup refreshed' = map_info \cup refreshed
    BY <1>0, <1>39 DEF WalkTracked, Sealed, Api!vars
  <2>2. Sealed' = Sealed
    BY <1>0, <1>39 DEF WalkTracked, Sealed
  <2> QED
    BY <1>39, <2>1, <2>2 DEF WalkTracked, Api!vars
<1>40. ASSUME NEW p \in Procs, NEW lib \in Libs, WalkNew(p, lib)
      PROVE  [Api!Next]_(Api!vars)
  <2>1. Sealed /\ Sealed'
    BY <1>0, <1>40, WalkSealed DEF WalkNew, Sealed, WalkLabels
  <2>2. Requested(lib) = Api!WantedSymbols(lib)
    BY HookImplIsWanted DEF Requested, Api!WantedSymbols, Api!Wanted, Wanted,
       Api!Matches, Matches, Api!IsIgnored, IsIgnored, Api!Applies, Applies
  <2>3. Sealed' = Sealed
    BY <1>0, <1>40 DEF WalkNew, Sealed
  <2>4. Requested(lib) # {}
    <3>1. HookImpl(hook_info, ignore_info, lib) # {}
      BY <1>40, NeedHookHooks DEF WalkNew
    <3> QED
      BY <3>1 DEF Requested
  <2>5. lib \notin map_info \cup refreshed
    BY <1>0, <1>40 DEF WalkNew, TrackedOK
  <2>6. \E done \in SUBSET Api!WantedSymbols(lib) :
          installed' = [installed EXCEPT ![lib] = @ \cup done]
    BY <1>40, <2>2 DEF WalkNew
  <2>7. map_info' \cup refreshed' = (map_info \cup refreshed) \cup {lib}
    BY <1>0, <1>40 DEF WalkNew, Sealed, Api!vars
  <2>8. Api!Hook(lib)
    BY <1>40, <2>1, <2>2, <2>3, <2>4, <2>5, <2>6, <2>7 DEF WalkNew, Api!Hook
  <2> QED
    BY <2>8 DEF Api!Next
<1>41. ASSUME NEW p \in Procs, NEW lib \in Libs, WalkSkip(p, lib)
      PROVE  [Api!Next]_(Api!vars)
  BY <1>0, <1>41 DEF WalkSkip, Sealed, Api!vars
<1>42. ASSUME NEW lib \in Libs, Dlopen(lib) PROVE [Api!Next]_(Api!vars)
  BY <1>0, <1>42 DEF Dlopen, Sealed, Api!vars
<1>43. ASSUME UNCHANGED vars PROVE [Api!Next]_(Api!vars)
  BY <1>0, <1>43 DEF vars, Sealed, Api!vars
<1> QED
  BY <1>1, <1>2, <1>3, <1>4, <1>5, <1>6, <1>7, <1>8, <1>9, <1>10, <1>11,
     <1>12, <1>13, <1>14, <1>15, <1>16, <1>17, <1>18, <1>19, <1>20, <1>21,
     <1>22, <1>23, <1>24, <1>25, <1>26, <1>27, <1>28, <1>29, <1>30, <1>31,
     <1>32, <1>33, <1>34, <1>35, <1>36, <1>37, <1>38, <1>39, <1>40, <1>41,
     <1>42, <1>43
     DEF Next, BeginCall, ThreadStep, WorkerStep, Walk

LEMMA SInvInit == Init => SInv /\ HandlerOK
<1> SUFFICES ASSUME Init PROVE SInv /\ HandlerOK
  OBVIOUS
<1> USE CoreAssumption DEF Init
<1>1. Inv
  BY InvInit
<1>2. CallOK /\ AloneOK
  BY DEF CallOK, AloneOK, WorkerLabels, WalkLabels, ClearLabels, AsyncLabels
<1>3. InitFlagsOK
  BY DEF InitFlagsOK, AsyncLabels
<1>4. RefresherOK /\ RunningOK /\ JoineeOK
  BY DEF RefresherOK, RunningOK, JoineeOK
<1>5. TrackedOK /\ InstalledWanted
  BY DEF TrackedOK, InstalledWanted
<1>6. HandlerOK
  BY DEF HandlerOK
<1> QED
  BY <1>1, <1>2, <1>3, <1>4, <1>5, <1>6 DEF SInv, FlagsOK

LEMMA SInvStep ==
  ASSUME Serial, SInv, [Next]_vars
  PROVE  SInv'
<1> USE DEF SInv, FlagsOK
<1>1. Inv'
  BY InvStep
<1>2. CallOK' /\ AloneOK'
  BY CallStep DEF Inv
<1>3. InitFlagsOK'
  BY InitFlagsStep DEF Inv
<1>4. RefresherOK' /\ JoineeOK'
  BY RefresherStep DEF Inv
<1>5. RunningOK'
  BY RunningStep DEF Inv
<1>6. TrackedOK'
  BY TrackedStep DEF Inv
<1>7. InstalledWanted'
  BY InstalledStep DEF Inv
<1> QED
  BY <1>1, <1>2, <1>3, <1>4, <1>5, <1>6, <1>7

LEMMA SInvAlways ==
  ASSUME Serial
  PROVE  Spec => []SInv
<1>1. Init => SInv
  BY SInvInit
<1>2. SInv /\ [Next]_vars => SInv'
  BY SInvStep
<1> QED
  BY <1>1, <1>2, PTL DEF Spec

LEMMA HandlerAlways ==
  ASSUME Serial, "protect" \notin Calls
  PROVE  Spec => []HandlerOK
<1>1. Init => HandlerOK
  BY SInvInit
<1>2. SInv /\ HandlerOK /\ [Next]_vars => HandlerOK'
  BY HandlerStep DEF SInv, FlagsOK, Inv
<1> QED
  BY <1>1, <1>2, SInvAlways, PTL DEF Spec

-----------------------------------------------------------------------------
\* However refreshes interleave, xh_core_init_async_once (xh_core.c:529-552)
\* never makes a second refresh thread beside one that clear has not joined.
THEOREM RefresherUnique ==
  ASSUME Serial
  PROVE  Spec => []SingleRefresher
<1>1. SInv => SingleRefresher
  BY DEF SInv, FlagsOK, RefresherOK, SingleRefresher
<1> QED
  BY <1>1, SInvAlways, PTL

\* A request that xh_core_refresh accepts (xh_core.c:566-571) has a refresh
\* thread that is running and is the one clear would join.
THEOREM RequestServed ==
  ASSUME Serial
  PROVE  Spec => []RequestHasRefresher
<1>1. SInv => RequestHasRefresher
  BY DEF SInv, FlagsOK, RunningOK, RequestHasRefresher
<1> QED
  BY <1>1, SInvAlways, PTL

\* A library that a refresh put in the tree (xh_core.c:414-439) has every hook
\* the registry wants in it, unless its hooking was cut short.
THEOREM NoHookMissed ==
  ASSUME Serial
  PROVE  Spec => []InstalledWanted
<1>1. SInv => InstalledWanted
  BY SMTT(30) DEF SInv
<1> QED
  BY <1>1, SInvAlways, PTL

\* The lists do not change under a walk that reads them without their mutex
\* (xh_core.c:248-281, 357-382): the discipline of calls protects them.
THEOREM RegistryFixedByCalls ==
  ASSUME Serial
  PROVE  Spec => RegistryFrozen
<1>1. ASSUME SInv, Walkers # {}, [Next]_vars
      PROVE  UNCHANGED regVars
  <2> USE <1>1 DEF SInv, FlagsOK
  <2>1. ASSUME NEW t \in Threads PROVE ~ RegisterInsert(t) /\ ~ IgnoreInsert(t)
    BY OpenRegistry DEF RegisterInsert, IgnoreInsert
  <2>2. ASSUME NEW t \in Threads PROVE ~ ClearFree(t)
    BY ClearAlone DEF ClearFree, Inv
  <2> QED
    BY <2>1, <2>2
       DEF Next, vars, BeginCall, ThreadStep, WorkerStep, Walk, Register,
           Ignore, Refresh, Clear, EnableSigsegvProtection, InitLock,
           InitHandler, InitHandlerFails, InitSetOk, InitCheck, AsyncTest,
           AsyncLock, AsyncRun, AsyncCreate, AsyncCreateFails, AsyncSetOk,
           AsyncCheck, AsyncDo, WorkerLoop, WorkerCond, SpuriousWakeup,
           WalkBegin, WalkOpenFails, WalkEnd, WalkTracked, WalkNew, WalkSkip,
           Dlopen, ClearStop, ClearJoin, ClearJoined, ClearAsyncInitOk,
           ClearAsyncInited, ClearTest, ClearHandler, ClearInitOk,
           ClearInited, ClearLockCore, ClearLockRefresh
<1>2. SInv /\ [Next]_vars => [Walkers # {} => UNCHANGED regVars]_vars
  BY <1>1
<1> QED
  BY <1>2, SInvAlways, PTL DEF Spec, RegistryFrozen

\* xhook implements its interface: seen through the registry, the libraries
\* tracked and the hooks in them, every step of xh_core.c is one of XhApi's or
\* changes nothing.
THEOREM ApiImplemented ==
  ASSUME Serial
  PROVE  Spec => ImplementsApi
<1>1. Init => Api!Init
  BY CoreAssumption DEF Init, Api!Init, Sealed
<1>2. SInv /\ [Next]_vars => [Api!Next]_(Api!vars)
  BY ApiStep DEF SInv, FlagsOK
<1> QED
  BY <1>1, <1>2, SInvAlways, PTL DEF Spec, ImplementsApi, Api!Spec

\* xh_core_clear (xh_core.c:583-646) leaves nothing behind, when protection is
\* never switched.
THEOREM ClearCleans ==
  ASSUME Serial, "protect" \notin Calls
  PROVE  Spec => []CleanAfterClear
<1>1. SInv /\ HandlerOK => CleanAfterClear
  <2> SUFFICES ASSUME SInv, HandlerOK, Quiescent, ~ inited
               PROVE  /\ \A w \in Workers : pc[w] = "none"
                      /\ disposition = "app"
                      /\ map_info = {}
                      /\ ~ init_ok /\ ~ async_inited /\ ~ async_init_ok
    BY DEF CleanAfterClear
  <2>1. ~ init_ok /\ ~ async_inited /\ ~ async_init_ok
    BY DEF SInv, FlagsOK, InitFlagsOK
  <2>2. \A w \in Workers : pc[w] = "none"
    BY <2>1 DEF SInv, FlagsOK, RefresherOK
  <2>3. disposition = "app"
    BY <2>1 DEF HandlerOK, Quiescent
  <2>4. map_info = {}
    BY DEF SInv, TrackedOK, Sealed, Quiescent
  <2> QED
    BY <2>1, <2>2, <2>3, <2>4
<1> QED
  BY <1>1, SInvAlways, HandlerAlways, PTL

\* The action that xh_core_sigsegv_handler falls back to (xh_core.c:97) is
\* never the handler, when protection is never switched: concurrent first
\* refreshes save the application's action once.
THEOREM HandlerSavedOnce ==
  ASSUME Serial, "protect" \notin Calls
  PROVE  Spec => []HandlerNotSelf
<1>1. HandlerOK => HandlerNotSelf
  BY DEF HandlerOK, HandlerNotSelf
<1> QED
  BY <1>1, HandlerAlways, PTL
=============================================================================
