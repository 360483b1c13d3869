------------------------------- MODULE XhCore -------------------------------
(***************************************************************************)
(* The life cycle of xhook (xh_core.c): registration, the one-time         *)
(* initialisations, synchronous and asynchronous refresh, the refresh      *)
(* thread, and clear, called by several application threads at once.       *)
(*                                                                         *)
(* A program counter names the next step of every thread.  A step makes    *)
(* one access to state that is shared and not protected by a mutex the     *)
(* thread holds: the volatile flags are tested and set outside the         *)
(* mutexes.  Acquiring a mutex is merged with the first access made under  *)
(* it and releasing it with the last.                                      *)
(*                                                                         *)
(* A library is hooked by xh_elf.c in WalkNew: its outcome is the set of   *)
(* symbols whose GOT slots were replaced, any subset of those requested    *)
(* when the ELF is malformed, a page cannot be made writable or a SIGSEGV  *)
(* is caught.                                                              *)
(* Here a library that is mapped stays where it is: unloading, base        *)
(* addresses and the order of the lines are the subject of XhRefresh.      *)
(***************************************************************************)
EXTENDS XhSelect, FiniteSets

CONSTANTS Threads,     \* application threads
          Workers,     \* identities pthread_create may give a refresh thread
          Nobody,      \* no thread: a free mutex, an unset pthread_t
          NoArg,       \* no registration under way
          Hooks,       \* registrations the application makes
          Ignores,     \* ignore entries the application makes
          MaxHooks,    \* bound on the length of the hook list
          MaxIgnores,  \* bound on the length of the ignore list
          Calls,       \* operations the application calls
          Exclusive    \* those it never runs concurrently with another call

Procs == Threads \cup Workers

Ops == {"register", "ignore", "refresh", "refresh_async", "clear", "protect"}

ASSUME CoreAssumption ==
  /\ Threads \cap Workers = {}
  /\ Nobody \notin Procs
  /\ Hooks \subseteq HookInfo
  /\ Ignores \subseteq IgnoreInfo
  /\ NoArg \notin Hooks \cup Ignores
  /\ MaxHooks \in Nat /\ MaxIgnores \in Nat
  /\ Calls \subseteq Ops /\ Exclusive \subseteq Ops

VARIABLES
  pc,                \* next step of every thread
  call,              \* operation a thread is executing, or "none"
  arg,               \* entry a register or ignore call allocated
  joinee,            \* thread a clear call waits for in pthread_join
  core_mutex, refresh_mutex,
  inited, init_ok,
  async_inited, async_init_ok,
  refresh_thread_tid, refresh_thread_running, refresh_thread_do,
  sigsegv_enable,
  disposition,       \* what SIGSEGV does: the application's action, xhook's
                     \* handler, or the default action
  act_old,           \* xh_core_sigsegv_act_old
  hook_info, ignore_info,
  map_info,          \* libraries in the map info tree
  refreshed,         \* the tree the current walk builds
  todo,              \* libraries the current walk has yet to read
  mapped,            \* libraries the linker has mapped
  installed,         \* symbols whose GOT slots point to the new functions
  damaged            \* history: tracked libraries whose hooking was cut short

callVars  == <<call, arg, joinee>>
lockVars  == <<core_mutex, refresh_mutex>>
initVars  == <<inited, init_ok>>
asyncVars == <<async_inited, async_init_ok, refresh_thread_tid,
               refresh_thread_running, refresh_thread_do>>
sigVars   == <<sigsegv_enable, disposition, act_old>>
regVars   == <<hook_info, ignore_info>>
treeVars  == <<map_info, refreshed, todo>>
elfVars   == <<mapped, installed, damaged>>

vars == <<pc, callVars, lockVars, initVars, asyncVars, sigVars, regVars,
          treeVars, elfVars>>

Init ==
  /\ pc = [p \in Procs |-> IF p \in Threads THEN "idle" ELSE "none"]
  /\ call = [t \in Threads |-> "none"]
  /\ arg = [t \in Threads |-> NoArg]
  /\ joinee = [t \in Threads |-> Nobody]
  /\ core_mutex = Nobody /\ refresh_mutex = Nobody
  /\ inited = FALSE /\ init_ok = FALSE
  /\ async_inited = FALSE /\ async_init_ok = FALSE
  /\ refresh_thread_tid = Nobody
  /\ refresh_thread_running = FALSE /\ refresh_thread_do = FALSE
  /\ sigsegv_enable = TRUE
  /\ disposition = "app" /\ act_old = "default"
  /\ hook_info = <<>> /\ ignore_info = <<>>
  /\ map_info = {} /\ refreshed = {} /\ todo = {}
  /\ mapped \in SUBSET Libs
  /\ installed = [l \in Libs |-> {}]
  /\ damaged = {}

-----------------------------------------------------------------------------
(* Steps every operation is made of.                                       *)

Goto(p, label) == pc' = [pc EXCEPT ![p] = label]

MayBegin(t, op) ==
  /\ pc[t] = "idle"
  /\ op \in Calls
  /\ \A u \in Threads \ {t} :
       call[u] # "none" => op \notin Exclusive /\ call[u] \notin Exclusive

Begin(t, op, label) ==
  /\ MayBegin(t, op)
  /\ call' = [call EXCEPT ![t] = op]
  /\ Goto(t, label)

Return(t) ==
  /\ Goto(t, "idle")
  /\ call' = [call EXCEPT ![t] = "none"]

Waiters == {w \in Workers : pc[w] = "cond_wait"}

\* Thread t, at its last step under core_mutex, signals xh_core_cond: some
\* waiter, if there is one, goes on to re-acquire the mutex.
SignalAndGoto(t, label) ==
  \/ Waiters = {} /\ Goto(t, label)
  \/ \E w \in Waiters :
       pc' = [pc EXCEPT ![t] = label, ![w] = "cond_lock"]

-----------------------------------------------------------------------------
(* xh_core_register and xh_core_ignore.  Calls refused because inited is   *)
(* set, or failing in regcomp or malloc, change nothing.                   *)

\* Mutant: inited is not tested.
RegisterAnyTime(t, hi) ==
  /\ Len(hook_info) < MaxHooks
  /\ Begin(t, "register", "register_insert")
  /\ arg' = [arg EXCEPT ![t] = hi]
  /\ UNCHANGED <<joinee, lockVars, initVars, asyncVars, sigVars, regVars,
                 treeVars, elfVars>>

Register(t, hi) ==
  /\ ~ inited
  /\ Len(hook_info) < MaxHooks
  /\ Begin(t, "register", "register_insert")
  /\ arg' = [arg EXCEPT ![t] = hi]
  /\ UNCHANGED <<joinee, lockVars, initVars, asyncVars, sigVars, regVars,
                 treeVars, elfVars>>

RegisterInsert(t) ==
  /\ pc[t] = "register_insert"
  /\ core_mutex = Nobody
  /\ hook_info' = Append(hook_info, arg[t])
  /\ arg' = [arg EXCEPT ![t] = NoArg]
  /\ Return(t)
  /\ UNCHANGED <<joinee, lockVars, initVars, asyncVars, sigVars, ignore_info,
                 treeVars, elfVars>>

Ignore(t, ii) ==
  /\ ~ inited
  /\ Len(ignore_info) < MaxIgnores
  /\ Begin(t, "ignore", "ignore_insert")
  /\ arg' = [arg EXCEPT ![t] = ii]
  /\ UNCHANGED <<joinee, lockVars, initVars, asyncVars, sigVars, regVars,
                 treeVars, elfVars>>

IgnoreInsert(t) ==
  /\ pc[t] = "ignore_insert"
  /\ core_mutex = Nobody
  /\ ignore_info' = Append(ignore_info, arg[t])
  /\ arg' = [arg EXCEPT ![t] = NoArg]
  /\ Return(t)
  /\ UNCHANGED <<joinee, lockVars, initVars, asyncVars, sigVars, hook_info,
                 treeVars, elfVars>>

-----------------------------------------------------------------------------
(* xh_core_enable_sigsegv_protection                                       *)

EnableSigsegvProtection(t, flag) ==
  /\ MayBegin(t, "protect")
  /\ sigsegv_enable' = flag
  /\ UNCHANGED <<pc, callVars, lockVars, initVars, asyncVars, disposition,
                 act_old, regVars, treeVars, elfVars>>

-----------------------------------------------------------------------------
(* xh_core_refresh and xh_core_init_once                                   *)

\* The unlocked test of inited at the head of xh_core_init_once.
Refresh(t, op) ==
  /\ op \in {"refresh", "refresh_async"}
  /\ Begin(t, op, IF inited THEN "init_check" ELSE "init_lock")
  /\ UNCHANGED <<arg, joinee, lockVars, initVars, asyncVars, sigVars, regVars,
                 treeVars, elfVars>>

\* Mutant: inited is not tested again under the mutex.
InitLockNoRetest(t) ==
  /\ pc[t] = "init_lock"
  /\ core_mutex = Nobody
  /\ inited' = TRUE
  /\ core_mutex' = t
  /\ Goto(t, "init_handler")
  /\ UNCHANGED <<callVars, refresh_mutex, init_ok, asyncVars, sigVars,
                 regVars, treeVars, elfVars>>

InitLock(t) ==
  /\ pc[t] = "init_lock"
  /\ core_mutex = Nobody
  /\ \/ /\ inited
        /\ Goto(t, "init_check")
        /\ UNCHANGED <<core_mutex, inited>>
     \/ /\ ~ inited
        /\ inited' = TRUE
        /\ core_mutex' = t
        /\ Goto(t, "init_handler")
  /\ UNCHANGED <<callVars, refresh_mutex, init_ok, asyncVars, sigVars,
                 regVars, treeVars, elfVars>>

\* xh_core_add_sigsegv_handler
InitHandler(t) ==
  /\ pc[t] = "init_handler"
  /\ IF sigsegv_enable
       THEN act_old' = disposition /\ disposition' = "xhook"
       ELSE UNCHANGED <<act_old, disposition>>
  /\ Goto(t, "init_set_ok")
  /\ UNCHANGED <<callVars, lockVars, initVars, asyncVars, sigsegv_enable,
                 regVars, treeVars, elfVars>>

\* sigaction reports an error: the initialisation is not completed, and
\* inited keeps it from being tried again.
InitHandlerFails(t) ==
  /\ pc[t] = "init_handler"
  /\ sigsegv_enable
  /\ core_mutex' = Nobody
  /\ Goto(t, "init_check")
  /\ UNCHANGED <<callVars, refresh_mutex, initVars, asyncVars, sigVars,
                 regVars, treeVars, elfVars>>

InitSetOk(t) ==
  /\ pc[t] = "init_set_ok"
  /\ init_ok' = TRUE
  /\ core_mutex' = Nobody
  /\ Goto(t, "init_check")
  /\ UNCHANGED <<callVars, refresh_mutex, inited, asyncVars, sigVars,
                 regVars, treeVars, elfVars>>

InitCheck(t) ==
  /\ pc[t] = "init_check"
  /\ \/ ~ init_ok /\ Return(t)
     \/ /\ init_ok
        /\ Goto(t, IF call[t] = "refresh" THEN "refresh_lock" ELSE "async_test")
        /\ UNCHANGED call
  /\ UNCHANGED <<arg, joinee, lockVars, initVars, asyncVars, sigVars, regVars,
                 treeVars, elfVars>>

-----------------------------------------------------------------------------
(* xh_core_init_async_once and the request for an asynchronous refresh     *)

AsyncTest(t) ==
  /\ pc[t] = "async_test"
  /\ Goto(t, IF async_inited THEN "async_check" ELSE "async_lock")
  /\ UNCHANGED <<callVars, lockVars, initVars, asyncVars, sigVars, regVars,
                 treeVars, elfVars>>

\* Mutant: async_inited is not tested again under the mutex.
AsyncLockNoRetest(t) ==
  /\ pc[t] = "async_lock"
  /\ core_mutex = Nobody
  /\ async_inited' = TRUE
  /\ core_mutex' = t
  /\ Goto(t, "async_run")
  /\ UNCHANGED <<callVars, refresh_mutex, initVars, async_init_ok,
                 refresh_thread_tid, refresh_thread_running,
                 refresh_thread_do, sigVars, regVars, treeVars, elfVars>>

AsyncLock(t) ==
  /\ pc[t] = "async_lock"
  /\ core_mutex = Nobody
  /\ \/ /\ async_inited
        /\ Goto(t, "async_check")
        /\ UNCHANGED <<core_mutex, async_inited>>
     \/ /\ ~ async_inited
        /\ async_inited' = TRUE
        /\ core_mutex' = t
        /\ Goto(t, "async_run")
  /\ UNCHANGED <<callVars, refresh_mutex, initVars, async_init_ok,
                 refresh_thread_tid, refresh_thread_running,
                 refresh_thread_do, sigVars, regVars, treeVars, elfVars>>

AsyncRun(t) ==
  /\ pc[t] = "async_run"
  /\ refresh_thread_running' = TRUE
  /\ Goto(t, "async_create")
  /\ UNCHANGED <<callVars, lockVars, initVars, async_inited, async_init_ok,
                 refresh_thread_tid, refresh_thread_do, sigVars, regVars,
                 treeVars, elfVars>>

\* pthread_create, under an identity no live or unjoined thread has.
AsyncCreate(t) ==
  /\ pc[t] = "async_create"
  /\ \E w \in Workers :
       /\ pc[w] = "none"
       /\ refresh_thread_tid' = w
       /\ pc' = [pc EXCEPT ![t] = "async_set_ok", ![w] = "loop"]
  /\ UNCHANGED <<callVars, lockVars, initVars, async_inited, async_init_ok,
                 refresh_thread_running, refresh_thread_do, sigVars, regVars,
                 treeVars, elfVars>>

AsyncCreateFails(t) ==
  /\ pc[t] = "async_create"
  /\ refresh_thread_running' = FALSE
  /\ core_mutex' = Nobody
  /\ Goto(t, "async_check")
  /\ UNCHANGED <<callVars, refresh_mutex, initVars, async_inited,
                 async_init_ok, refresh_thread_tid, refresh_thread_do,
                 sigVars, regVars, treeVars, elfVars>>

AsyncSetOk(t) ==
  /\ pc[t] = "async_set_ok"
  /\ async_init_ok' = TRUE
  /\ core_mutex' = Nobody
  /\ Goto(t, "async_check")
  /\ UNCHANGED <<callVars, refresh_mutex, initVars, async_inited,
                 refresh_thread_tid, refresh_thread_running,
                 refresh_thread_do, sigVars, regVars, treeVars, elfVars>>

AsyncCheck(t) ==
  /\ pc[t] = "async_check"
  /\ \/ ~ async_init_ok /\ Return(t)
     \/ async_init_ok /\ Goto(t, "async_do") /\ UNCHANGED call
  /\ UNCHANGED <<arg, joinee, lockVars, initVars, asyncVars, sigVars, regVars,
                 treeVars, elfVars>>

\* Mutant: the condition is not signalled.
AsyncDoSilently(t) ==
  /\ pc[t] = "async_do"
  /\ core_mutex = Nobody
  /\ refresh_thread_do' = TRUE
  /\ Return(t)
  /\ UNCHANGED <<arg, joinee, lockVars, initVars, async_inited, async_init_ok,
                 refresh_thread_tid, refresh_thread_running, sigVars, regVars,
                 treeVars, elfVars>>

AsyncDo(t) ==
  /\ pc[t] = "async_do"
  /\ core_mutex = Nobody
  /\ refresh_thread_do' = TRUE
  /\ SignalAndGoto(t, "idle")
  /\ call' = [call EXCEPT ![t] = "none"]
  /\ UNCHANGED <<arg, joinee, lockVars, initVars, async_inited, async_init_ok,
                 refresh_thread_tid, refresh_thread_running, sigVars, regVars,
                 treeVars, elfVars>>

-----------------------------------------------------------------------------
(* xh_core_refresh_thread_func                                             *)

WorkerLoop(w) ==
  /\ pc[w] = "loop"
  /\ Goto(w, IF refresh_thread_running THEN "cond_lock" ELSE "exited")
  /\ UNCHANGED <<callVars, lockVars, initVars, asyncVars, sigVars, regVars,
                 treeVars, elfVars>>

\* One evaluation of the waiting loop's condition, under core_mutex.
WorkerCond(w) ==
  /\ pc[w] = "cond_lock"
  /\ core_mutex = Nobody
  /\ \/ /\ ~ refresh_thread_do /\ refresh_thread_running
        /\ Goto(w, "cond_wait")
        /\ UNCHANGED refresh_thread_do
     \/ /\ ~ refresh_thread_running
        /\ Goto(w, "exited")
        /\ UNCHANGED refresh_thread_do
     \/ /\ refresh_thread_do /\ refresh_thread_running
        /\ refresh_thread_do' = FALSE
        /\ Goto(w, "refresh_lock")
  /\ UNCHANGED <<callVars, lockVars, initVars, async_inited, async_init_ok,
                 refresh_thread_tid, refresh_thread_running, sigVars, regVars,
                 treeVars, elfVars>>

\* pthread_cond_wait may return without a signal.
SpuriousWakeup(w) ==
  /\ pc[w] = "cond_wait"
  /\ Goto(w, "cond_lock")
  /\ UNCHANGED <<callVars, lockVars, initVars, asyncVars, sigVars, regVars,
                 treeVars, elfVars>>

-----------------------------------------------------------------------------
(* xh_core_refresh_impl, run under refresh_mutex by a synchronous refresh  *)
(* or by the refresh thread.                                               *)

AfterRefresh(p) ==
  IF p \in Threads
    THEN Return(p)
    ELSE Goto(p, "loop") /\ UNCHANGED call

Walkers == {p \in Procs : pc[p] = "refresh_walk"}

\* Mutant: a walk begins without the mutex.
WalkBeginUnlocked(p) ==
  /\ pc[p] = "refresh_lock"
  /\ todo' = mapped
  /\ refreshed' = {}
  /\ Goto(p, "refresh_walk")
  /\ UNCHANGED <<callVars, lockVars, initVars, asyncVars, sigVars, regVars,
                 map_info, elfVars>>

\* The mutex is taken and /proc/self/maps opened.
WalkBegin(p) ==
  /\ pc[p] = "refresh_lock"
  /\ refresh_mutex = Nobody
  /\ refresh_mutex' = p
  /\ todo' = mapped
  /\ refreshed' = {}
  /\ Goto(p, "refresh_walk")
  /\ UNCHANGED <<callVars, core_mutex, initVars, asyncVars, sigVars, regVars,
                 map_info, elfVars>>

\* fopen fails: the refresh returns at once, and reports success.
WalkOpenFails(p) ==
  /\ pc[p] = "refresh_lock"
  /\ refresh_mutex = Nobody
  /\ AfterRefresh(p)
  /\ UNCHANGED <<arg, joinee, lockVars, initVars, asyncVars, sigVars, regVars,
                 treeVars, elfVars>>

\* A line about a library of the tree: it moves to the new tree, and is not
\* hooked again while its base address is the same.
WalkTracked(p, lib) ==
  /\ pc[p] = "refresh_walk"
  /\ lib \in todo \cap map_info
  /\ NeedHook(hook_info, ignore_info, lib)
  /\ todo' = todo \ {lib}
  /\ map_info' = map_info \ {lib}
  /\ refreshed' = refreshed \cup {lib}
  /\ UNCHANGED <<pc, callVars, lockVars, initVars, asyncVars, sigVars,
                 regVars, elfVars>>

\* Mutant: the walk over the hooks ends with the first one applied.
RequestedFirst(lib) ==
  {hook_info[i].symbol :
     i \in {j \in HookImpl(hook_info, ignore_info, lib) :
              \A k \in HookImpl(hook_info, ignore_info, lib) : j <= k}}

Requested(lib) ==
  {hook_info[i].symbol : i \in HookImpl(hook_info, ignore_info, lib)}

\* A line about a library that is not in the tree: it is added, then hooked.
WalkNew(p, lib) ==
  /\ pc[p] = "refresh_walk"
  /\ lib \in todo \ map_info
  /\ NeedHook(hook_info, ignore_info, lib)
  /\ todo' = todo \ {lib}
  /\ refreshed' = refreshed \cup {lib}
  /\ \E done \in SUBSET Requested(lib) :
       /\ installed' = [installed EXCEPT ![lib] = @ \cup done]
       /\ damaged' = IF done = Requested(lib) THEN damaged \ {lib}
                                             ELSE damaged \cup {lib}
  /\ UNCHANGED <<pc, callVars, lockVars, initVars, asyncVars, sigVars,
                 regVars, map_info, mapped>>

\* No hook is needed, the ELF header is rejected, or malloc fails.
WalkSkip(p, lib) ==
  /\ pc[p] = "refresh_walk"
  /\ lib \in todo
  /\ todo' = todo \ {lib}
  /\ UNCHANGED <<pc, callVars, lockVars, initVars, asyncVars, sigVars,
                 regVars, map_info, refreshed, elfVars>>

\* The libraries left in the old tree are freed and the new tree saved.
WalkEnd(p) ==
  /\ pc[p] = "refresh_walk"
  /\ todo = {}
  /\ map_info' = refreshed
  /\ refreshed' = {}
  /\ refresh_mutex' = Nobody
  /\ AfterRefresh(p)
  /\ UNCHANGED <<arg, joinee, core_mutex, initVars, asyncVars, sigVars,
                 regVars, todo, elfVars>>

\* The linker maps a library; a walk under way may or may not read its line.
Dlopen(lib) ==
  /\ lib \notin mapped
  /\ mapped' = mapped \cup {lib}
  /\ todo' \in IF Walkers = {} THEN {todo} ELSE {todo, todo \cup {lib}}
  /\ UNCHANGED <<pc, callVars, lockVars, initVars, asyncVars, sigVars,
                 regVars, map_info, refreshed, installed, damaged>>

-----------------------------------------------------------------------------
(* xh_core_clear                                                           *)

\* The unlocked test of async_init_ok.
Clear(t) ==
  /\ Begin(t, "clear", IF async_init_ok THEN "clear_stop"
                                        ELSE "clear_async_inited")
  /\ UNCHANGED <<arg, joinee, lockVars, initVars, asyncVars, sigVars, regVars,
                 treeVars, elfVars>>

\* Mutant: the refresh thread is woken but not told to stop.
ClearSignalOnly(t) ==
  /\ pc[t] = "clear_stop"
  /\ core_mutex = Nobody
  /\ SignalAndGoto(t, "clear_join")
  /\ UNCHANGED <<callVars, lockVars, initVars, asyncVars, sigVars, regVars,
                 treeVars, elfVars>>

ClearStop(t) ==
  /\ pc[t] = "clear_stop"
  /\ core_mutex = Nobody
  /\ refresh_thread_running' = FALSE
  /\ SignalAndGoto(t, "clear_join")
  /\ UNCHANGED <<callVars, lockVars, initVars, async_inited, async_init_ok,
                 refresh_thread_tid, refresh_thread_do, sigVars, regVars,
                 treeVars, elfVars>>

\* Mutant: the refresh thread is not waited for.
ClearNoJoin(t) ==
  /\ pc[t] = "clear_join"
  /\ Goto(t, "clear_async_ok")
  /\ UNCHANGED <<callVars, lockVars, initVars, asyncVars, sigVars, regVars,
                 treeVars, elfVars>>

\* pthread_join waits for a thread nobody has joined and nobody else waits
\* for.  On any other identity it returns an error, which clear ignores.
ClearJoin(t) ==
  /\ pc[t] = "clear_join"
  /\ \/ /\ refresh_thread_tid \in Workers
        /\ pc[refresh_thread_tid] # "none"
        /\ \A u \in Threads : joinee[u] # refresh_thread_tid
        /\ joinee' = [joinee EXCEPT ![t] = refresh_thread_tid]
        /\ Goto(t, "clear_join_wait")
     \/ /\ \/ pc[refresh_thread_tid] = "none"
           \/ \E u \in Threads : joinee[u] = refresh_thread_tid
        /\ UNCHANGED joinee
        /\ Goto(t, "clear_async_ok")
  /\ UNCHANGED <<call, arg, lockVars, initVars, asyncVars, sigVars, regVars,
                 treeVars, elfVars>>

ClearJoined(t) ==
  /\ pc[t] = "clear_join_wait"
  /\ pc[joinee[t]] = "exited"
  /\ pc' = [pc EXCEPT ![t] = "clear_async_ok", ![joinee[t]] = "none"]
  /\ joinee' = [joinee EXCEPT ![t] = Nobody]
  /\ UNCHANGED <<call, arg, lockVars, initVars, asyncVars, sigVars, regVars,
                 treeVars, elfVars>>

\* Mutant: async_init_ok is not reset.
ClearAsyncInitOkKept(t) ==
  /\ pc[t] = "clear_async_ok"
  /\ Goto(t, "clear_async_inited")
  /\ UNCHANGED <<callVars, lockVars, initVars, asyncVars, sigVars, regVars,
                 treeVars, elfVars>>

ClearAsyncInitOk(t) ==
  /\ pc[t] = "clear_async_ok"
  /\ async_init_ok' = FALSE
  /\ Goto(t, "clear_async_inited")
  /\ UNCHANGED <<callVars, lockVars, initVars, async_inited,
                 refresh_thread_tid, refresh_thread_running,
                 refresh_thread_do, sigVars, regVars, treeVars, elfVars>>

ClearAsyncInited(t) ==
  /\ pc[t] = "clear_async_inited"
  /\ async_inited' = FALSE
  /\ Goto(t, "clear_test")
  /\ UNCHANGED <<callVars, lockVars, initVars, async_init_ok,
                 refresh_thread_tid, refresh_thread_running,
                 refresh_thread_do, sigVars, regVars, treeVars, elfVars>>

\* The unlocked test of init_ok.
ClearTest(t) ==
  /\ pc[t] = "clear_test"
  /\ Goto(t, IF init_ok THEN "clear_handler" ELSE "clear_inited")
  /\ UNCHANGED <<callVars, lockVars, initVars, asyncVars, sigVars, regVars,
                 treeVars, elfVars>>

\* Mutant: the handler is left in place.
ClearHandlerKept(t) ==
  /\ pc[t] = "clear_handler"
  /\ Goto(t, "clear_init_ok")
  /\ UNCHANGED <<callVars, lockVars, initVars, asyncVars, sigVars, regVars,
                 treeVars, elfVars>>

\* xh_core_del_sigsegv_handler
ClearHandler(t) ==
  /\ pc[t] = "clear_handler"
  /\ disposition' = IF sigsegv_enable THEN act_old ELSE disposition
  /\ Goto(t, "clear_init_ok")
  /\ UNCHANGED <<callVars, lockVars, initVars, asyncVars, sigsegv_enable,
                 act_old, regVars, treeVars, elfVars>>

ClearInitOk(t) ==
  /\ pc[t] = "clear_init_ok"
  /\ init_ok' = FALSE
  /\ Goto(t, "clear_inited")
  /\ UNCHANGED <<callVars, lockVars, inited, asyncVars, sigVars, regVars,
                 treeVars, elfVars>>

ClearInited(t) ==
  /\ pc[t] = "clear_inited"
  /\ inited' = FALSE
  /\ Goto(t, "clear_lock_core")
  /\ UNCHANGED <<callVars, lockVars, init_ok, asyncVars, sigVars, regVars,
                 treeVars, elfVars>>

ClearLockCore(t) ==
  /\ pc[t] = "clear_lock_core"
  /\ core_mutex = Nobody
  /\ core_mutex' = t
  /\ Goto(t, "clear_lock_refresh")
  /\ UNCHANGED <<callVars, refresh_mutex, initVars, asyncVars, sigVars,
                 regVars, treeVars, elfVars>>

ClearLockRefresh(t) ==
  /\ pc[t] = "clear_lock_refresh"
  /\ refresh_mutex = Nobody
  /\ refresh_mutex' = t
  /\ Goto(t, "clear_free")
  /\ UNCHANGED <<callVars, core_mutex, initVars, asyncVars, sigVars, regVars,
                 treeVars, elfVars>>

ClearFree(t) ==
  /\ pc[t] = "clear_free"
  /\ map_info' = {}
  /\ hook_info' = <<>> /\ ignore_info' = <<>>
  /\ core_mutex' = Nobody /\ refresh_mutex' = Nobody
  /\ Return(t)
  /\ UNCHANGED <<arg, joinee, initVars, asyncVars, sigVars, refreshed, todo,
                 elfVars>>

-----------------------------------------------------------------------------
BeginCall(t) ==
  \/ \E hi \in Hooks : Register(t, hi)
  \/ \E ii \in Ignores : Ignore(t, ii)
  \/ \E op \in Ops : Refresh(t, op)
  \/ Clear(t)
  \/ \E flag \in BOOLEAN : EnableSigsegvProtection(t, flag)

Walk(p) ==
  \/ WalkBegin(p) \/ WalkOpenFails(p) \/ WalkEnd(p)
  \/ \E lib \in Libs :
       WalkTracked(p, lib) \/ WalkNew(p, lib) \/ WalkSkip(p, lib)

ThreadStep(t) ==
  \/ RegisterInsert(t) \/ IgnoreInsert(t)
  \/ InitLock(t) \/ InitHandler(t) \/ InitHandlerFails(t)
  \/ InitSetOk(t) \/ InitCheck(t)
  \/ AsyncTest(t) \/ AsyncLock(t) \/ AsyncRun(t) \/ AsyncCreate(t)
  \/ AsyncCreateFails(t) \/ AsyncSetOk(t) \/ AsyncCheck(t) \/ AsyncDo(t)
  \/ Walk(t)
  \/ ClearStop(t) \/ ClearJoin(t) \/ ClearJoined(t)
  \/ ClearAsyncInitOk(t) \/ ClearAsyncInited(t) \/ ClearTest(t)
  \/ ClearHandler(t) \/ ClearInitOk(t) \/ ClearInited(t)
  \/ ClearLockCore(t) \/ ClearLockRefresh(t) \/ ClearFree(t)

WorkerStep(w) == WorkerLoop(w) \/ WorkerCond(w) \/ Walk(w)

Next ==
  \/ \E t \in Threads : BeginCall(t) \/ ThreadStep(t)
  \/ \E w \in Workers : WorkerStep(w) \/ SpuriousWakeup(w)
  \/ \E lib \in Libs : Dlopen(lib)

Spec == Init /\ [][Next]_vars

\* The scheduler runs every thread that can run, and a mutex is not withheld
\* for ever from a thread that keeps asking for it while it keeps being
\* released.  Nothing makes the application begin a call.
FairSpec ==
  /\ Spec
  /\ \A t \in Threads : SF_vars(ThreadStep(t))
  /\ \A w \in Workers : SF_vars(WorkerStep(w))

-----------------------------------------------------------------------------
(* Safety.                                                                 *)

Labels ==
  {"idle", "register_insert", "ignore_insert", "init_lock", "init_handler",
   "init_set_ok", "init_check", "async_test", "async_lock", "async_run",
   "async_create", "async_set_ok", "async_check", "async_do", "refresh_lock",
   "refresh_walk", "clear_stop", "clear_join", "clear_join_wait",
   "clear_async_ok", "clear_async_inited", "clear_test", "clear_handler",
   "clear_init_ok", "clear_inited", "clear_lock_core", "clear_lock_refresh",
   "clear_free", "none", "loop", "cond_lock", "cond_wait", "exited"}

CallTypeOK ==
  /\ call \in [Threads -> Ops \cup {"none"}]
  /\ arg \in [Threads -> Hooks \cup Ignores \cup {NoArg}]
  /\ joinee \in [Threads -> Workers \cup {Nobody}]

FlagTypeOK ==
  /\ core_mutex \in Threads \cup {Nobody}
  /\ refresh_mutex \in Procs \cup {Nobody}
  /\ inited \in BOOLEAN /\ init_ok \in BOOLEAN
  /\ async_inited \in BOOLEAN /\ async_init_ok \in BOOLEAN
  /\ refresh_thread_tid \in Workers \cup {Nobody}
  /\ refresh_thread_running \in BOOLEAN /\ refresh_thread_do \in BOOLEAN
  /\ sigsegv_enable \in BOOLEAN
  /\ disposition \in {"app", "xhook", "default"}
  /\ act_old \in {"app", "xhook", "default"}

DataTypeOK ==
  /\ hook_info \in Seq(Hooks)
  /\ ignore_info \in Seq(Ignores)
  /\ map_info \in SUBSET Libs /\ refreshed \in SUBSET Libs
  /\ todo \in SUBSET Libs /\ mapped \in SUBSET Libs
  /\ installed \in [Libs -> SUBSET Syms]
  /\ damaged \in SUBSET Libs

\* Every variable stays in its type.
TypeOK == pc \in [Procs -> Labels] /\ CallTypeOK /\ FlagTypeOK /\ DataTypeOK

CoreLabels == {"init_handler", "init_set_ok", "async_run", "async_create",
               "async_set_ok", "clear_lock_refresh", "clear_free"}

RefreshLabels == {"refresh_walk", "clear_free"}

\* The map info tree is in the hands of one thread at a time: no refresh, on
\* an application thread or on the refresh thread, runs during another one or
\* while clear frees the tree.
RefreshExclusive ==
  \A p, q \in Procs :
    pc[p] \in RefreshLabels /\ pc[q] \in RefreshLabels => p = q

Clearing == \E t \in Threads : call[t] = "clear"

Quiescent == \A t \in Threads : pc[t] = "idle"

\* The hook and ignore lists, which refresh reads under refresh_mutex and
\* register and ignore extend under core_mutex, do not change while a refresh
\* walks them.
RegistryFrozen == [][Walkers # {} => UNCHANGED regVars]_vars

\* The registry is sealed from the first refresh until clear empties the
\* lists, which it does after it has reset inited.
Sealed ==
  \/ inited
  \/ \E t \in Threads : pc[t] \in {"clear_lock_core", "clear_lock_refresh",
                                    "clear_free"}

Api == INSTANCE XhApi
         WITH sealed <- Sealed, tracked <- map_info \cup refreshed

\* Seen through its registry, the libraries it tracks and the hooks in them,
\* xhook does what XhApi says: no entry is added after a refresh has sealed
\* the registry ("do not register hook after refresh()", xh_core.c:147), and
\* a library is hooked once, as the whole registry wants.
ImplementsApi == Api!Spec

\* There is never a second refresh thread.
SingleRefresher ==
  \A v, w \in Workers : pc[v] # "none" /\ pc[w] # "none" => v = w

\* While async_init_ok tells refresh that a request will be served, the
\* refresh thread it created is there to serve it: it has been told to run,
\* has not left its loop, and is the thread clear would join.
RequestHasRefresher ==
  async_init_ok /\ ~ Clearing =>
    /\ refresh_thread_running
    /\ refresh_thread_tid \in Workers
    /\ pc[refresh_thread_tid] \notin {"none", "exited"}

\* A library of the tree has every hook the registry wants in it, unless its
\* hooking was cut short: no registration is lost between the registering
\* threads and the refreshing ones.
InstalledWanted ==
  \A lib \in (map_info \cup refreshed) \ damaged :
    \A i \in Wanted(hook_info, ignore_info, lib) :
      hook_info[i].symbol \in installed[lib]

\* After clear nothing of xhook is left: neither the refresh thread nor the
\* SIGSEGV handler, no library and no flag that would make the next refresh
\* skip an initialisation.
CleanAfterClear ==
  Quiescent /\ ~ inited =>
    /\ \A w \in Workers : pc[w] = "none"
    /\ disposition = "app"
    /\ map_info = {}
    /\ ~ init_ok /\ ~ async_inited /\ ~ async_init_ok

\* "stop the async refresh thread" (xh_core.c:585): when clear has returned
\* and nothing has been called since, no refresh thread is left.
RefresherStopped ==
  Quiescent /\ ~ inited => \A w \in Workers : pc[w] = "none"

\* "unregister the sig handler" (xh_core.c:598): when clear has returned and
\* nothing has been called since, SIGSEGV does what the application asked.
HandlerRestored == Quiescent /\ ~ inited => disposition = "app"

\* The action the handler falls back to, for a SIGSEGV outside xhook, is
\* never the handler itself, which would fault for ever.
HandlerNotSelf == act_old # "xhook"

-----------------------------------------------------------------------------
(* Liveness, under FairSpec.                                               *)

\* Every call returns: refresh and clear never wait for ever on a mutex, on
\* the end of the walk or on the refresh thread.
CallsReturn == \A t \in Threads : pc[t] # "idle" ~> pc[t] = "idle"

\* A requested asynchronous refresh is taken up, unless clear stops the
\* refresh thread first: the signal that announces it is never lost.
RequestTaken == refresh_thread_do /\ refresh_thread_running
                  ~> ~ refresh_thread_do \/ ~ refresh_thread_running

=============================================================================
