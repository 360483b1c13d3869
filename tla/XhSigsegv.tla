----------------------------- MODULE XhSigsegv -----------------------------
(***************************************************************************)
(* The SIGSEGV protection of xh_core.c: the handler, its installation and  *)
(* removal, and the regions it guards (xh_core_check_elf_header and        *)
(* xh_core_hook), against faults on every thread of the process.           *)
(*                                                                         *)
(* One thread refreshes at a time and clear overlaps no refresh (XhCore).  *)
(* Every access is one step: a thread in the handler may be preempted      *)
(* between its test of the flag and what it does next.  sa_flags is never  *)
(* set by the code: it holds what was on the stack, and of its flags       *)
(* SA_RESETHAND is the one that changes what this protocol does.           *)
(***************************************************************************)
EXTENDS FiniteSets

CONSTANTS Threads, NULL

SigsegvAssumption == NULL \notin Threads

VARIABLES pc,          \* the refreshing thread
          refresher,   \* owner of xh_core_refresh_mutex
          enable,      \* xh_core_sigsegv_enable
          flag,        \* xh_core_sigsegv_flag
          env,         \* xh_core_sigsegv_env: thread that saved it, its mask
          action,      \* what SIGSEGV does
          act_old,     \* xh_core_sigsegv_act_old
          inited,      \* xh_core_inited
          resethand,   \* SA_RESETHAND in the installed action
          blocked,     \* threads in whose mask SIGSEGV is
          handler,     \* where a thread is in xh_core_sigsegv_handler
          tested,      \* history: whose region it was when a thread in the
                       \* handler tested the flag
          outcome,     \* what became of the process, and on which thread
          switched,    \* history: protection was switched
          foreign      \* history: a fault outside a guarded region

vars == <<pc, refresher, enable, flag, env, action, act_old, inited, resethand,
          blocked, handler, tested, outcome, switched, foreign>>

handlerVars == <<blocked, handler, tested, outcome>>

Init ==
  /\ pc = "idle" /\ refresher = NULL
  /\ enable = TRUE
  /\ flag = FALSE
  /\ env = [thread |-> NULL, mask |-> FALSE]
  /\ action \in {"default", "app"}
  /\ act_old = "default"
  /\ inited = FALSE
  /\ resethand = FALSE
  /\ blocked = {}
  /\ handler = [t \in Threads |-> "outside"]
  /\ tested = [t \in Threads |-> NULL]
  /\ outcome = [kind |-> "running", thread |-> NULL]
  /\ switched = FALSE /\ foreign = FALSE

Running == outcome.kind = "running"

\* The refreshing thread is at one of the labels, and not in the handler.
Refreshing(labels) ==
  Running /\ pc \in labels /\ handler[refresher] = "outside"

\* The thread for which the flag is up.
Region == IF pc \in {"armed", "guarded", "caught"} THEN refresher ELSE NULL

-----------------------------------------------------------------------------
(* The calls of the application.                                           *)

EnableSigsegvProtection ==
  /\ Running
  /\ enable' \in BOOLEAN
  /\ switched' = (switched \/ enable' # enable)
  /\ UNCHANGED <<pc, refresher, flag, env, action, act_old, inited, resethand,
                  handlerVars, foreign>>

\* xh_core_init_once adds the handler.
InitOnce ==
  /\ Running /\ pc = "idle" /\ ~ inited
  /\ inited' = TRUE
  /\ IF enable
       THEN /\ action' = "xhook" /\ act_old' = action
            /\ resethand' \in BOOLEAN
       ELSE UNCHANGED <<action, act_old, resethand>>
  /\ UNCHANGED <<pc, refresher, enable, flag, env, handlerVars, switched,
                  foreign>>

Clear ==
  /\ Running /\ pc = "idle" /\ inited
  /\ inited' = FALSE
  /\ action' = IF enable THEN act_old ELSE action
  /\ UNCHANGED <<pc, refresher, enable, flag, env, act_old, resethand,
                  handlerVars, switched, foreign>>

RefreshBegin(t) ==
  /\ Running /\ pc = "idle" /\ inited /\ handler[t] = "outside"
  /\ pc' = "walk" /\ refresher' = t
  /\ UNCHANGED <<enable, flag, env, action, act_old, inited, resethand,
                  handlerVars, switched, foreign>>

RefreshEnd ==
  /\ Refreshing({"walk"})
  /\ pc' = "idle" /\ refresher' = NULL
  /\ UNCHANGED <<enable, flag, env, action, act_old, inited, resethand,
                  handlerVars, switched, foreign>>

-----------------------------------------------------------------------------
(* A guarded region.                                                       *)

\* Protection is looked at once, on entry.
Enter ==
  /\ Refreshing({"walk"})
  /\ IF enable THEN pc' = "armed" /\ flag' = TRUE
               ELSE pc' = "bare" /\ UNCHANGED flag
  /\ UNCHANGED <<refresher, enable, env, action, act_old, inited, resethand,
                  handlerVars, switched, foreign>>

\* sigsetjmp(env, 1)
SetJump ==
  /\ Refreshing({"armed"})
  /\ env' = [thread |-> refresher, mask |-> refresher \in blocked]
  /\ pc' = "guarded"
  /\ UNCHANGED <<refresher, enable, flag, action, act_old, inited, resethand,
                  handlerVars, switched, foreign>>

\* Mutant: the flag stays up after a fault was caught.
LeaveFlagUp ==
  /\ Refreshing({"guarded", "caught", "bare"})
  /\ flag' = (flag /\ pc # "guarded")
  /\ pc' = "walk"
  /\ UNCHANGED <<refresher, enable, env, action, act_old, inited, resethand,
                  handlerVars, switched, foreign>>

Leave ==
  /\ Refreshing({"guarded", "caught", "bare"})
  /\ flag' = (flag /\ pc = "bare")
  /\ pc' = "walk"
  /\ UNCHANGED <<refresher, enable, env, action, act_old, inited, resethand,
                  handlerVars, switched, foreign>>

-----------------------------------------------------------------------------
(* Faults: the refresher's in a region that touches mapped memory, and     *)
(* anything else's anywhere.                                               *)

MayFault(t) ==
  /\ Running /\ handler[t] = "outside"
  /\ t = refresher => pc \in {"guarded", "bare"}

Guarded(t) == t = refresher /\ pc = "guarded"

Ends(kind, t) == outcome' = [kind |-> kind, thread |-> t]

\* The kernel runs the handler, with SIGSEGV in the mask until it returns.
HandlerBegins(t) ==
  /\ MayFault(t)
  /\ action = "xhook" /\ t \notin blocked
  /\ handler' = [handler EXCEPT ![t] = "begun"]
  /\ blocked' = blocked \cup {t}
  /\ action' = IF resethand THEN "default" ELSE action
  /\ foreign' = (foreign \/ ~ Guarded(t))
  /\ UNCHANGED <<pc, refresher, enable, flag, env, act_old, inited, resethand,
                  tested, outcome, switched>>

TestFlag(t) ==
  /\ Running /\ handler[t] = "begun"
  /\ handler' = [handler EXCEPT ![t] = IF flag THEN "jump" ELSE "fall_back"]
  /\ tested' = [tested EXCEPT ![t] = Region]
  /\ UNCHANGED <<pc, refresher, enable, flag, env, action, act_old, inited,
                  resethand, blocked, outcome, switched, foreign>>

\* Mutant: sigsetjmp saves no mask, and the jump leaves SIGSEGV in it.
MaskKept(t) == blocked

\* siglongjmp restores the mask that sigsetjmp saved.
MaskRestored(t) == IF env.mask THEN blocked \cup {t} ELSE blocked \ {t}

\* The flag was up: the handler returns to where env was saved last, with the
\* mask saved there.  Only the thread that saved it, still in its region, can:
\* by now the region in which another thread saw the flag may be over, or the
\* refresh, or another thread may have saved env in a region of its own.
LongJump(t) ==
  /\ Running /\ handler[t] = "jump"
  /\ IF env.thread = t /\ Guarded(t)
       THEN /\ pc' = "caught" /\ blocked' = MaskRestored(t)
            /\ handler' = [handler EXCEPT ![t] = "outside"]
            /\ UNCHANGED outcome
       ELSE Ends("wild", t) /\ UNCHANGED <<pc, blocked, handler>>
  /\ UNCHANGED <<refresher, enable, flag, env, action, act_old, inited,
                  resethand, tested, switched, foreign>>

\* The flag was down: the action before is put back, and the instruction
\* faults again when the handler has returned.
FallBack(t) ==
  /\ Running /\ handler[t] = "fall_back"
  /\ action' = act_old
  /\ resethand' = (resethand /\ act_old = "xhook")
  /\ handler' = [handler EXCEPT ![t] = "outside"]
  /\ blocked' = blocked \ {t}
  /\ UNCHANGED <<pc, refresher, enable, flag, env, act_old, inited, tested,
                  outcome, switched, foreign>>

\* The application's handler deals with the fault; in a guarded region that
\* is as much the end of xhook's protection as the default action.
Killed(t) ==
  /\ MayFault(t)
  /\ action = "default" \/ t \in blocked \/ (Guarded(t) /\ action = "app")
  /\ Ends("killed", t)
  /\ foreign' = (foreign \/ ~ Guarded(t))
  /\ UNCHANGED <<pc, refresher, enable, flag, env, action, act_old, inited,
                  resethand, blocked, handler, tested, switched>>

Handler(t) == TestFlag(t) \/ LongJump(t) \/ FallBack(t)

Next ==
  \/ EnableSigsegvProtection \/ InitOnce \/ Clear
  \/ \E t \in Threads :
       RefreshBegin(t) \/ HandlerBegins(t) \/ Handler(t) \/ Killed(t)
  \/ RefreshEnd \/ Enter \/ SetJump \/ Leave

Spec == Init /\ [][Next]_vars

-----------------------------------------------------------------------------
\* Every fault of a guarded region is caught, however many there are in
\* however many refreshes, unless protection has been switched, a fault
\* elsewhere has put the old action back, or the unset sa_flags say that the
\* handler serves once.
FaultCaught ==
  outcome.kind = "killed" /\ Guarded(outcome.thread) =>
    resethand \/ switched \/ foreign

\* The handler leaves its own stack only on a thread that tested the flag while
\* another one was in a guarded region, however long ago that was when it
\* jumps: never on a fault of the refresher, and never on the strength of a
\* region that was over at the test.
JumpsHome ==
  outcome.kind = "wild" =>
    tested[outcome.thread] \notin {NULL, outcome.thread}
=============================================================================
