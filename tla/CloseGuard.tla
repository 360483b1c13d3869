----------------------------- MODULE CloseGuard -----------------------------
(***************************************************************************)
(* The leak detector: CloseGuardHooker.start, which every creation of the  *)
(* activity calls, puts an IOCloseLeakDetector in front of the CloseGuard  *)
(* reporter there is, which may be a detector itself.  The finalizer       *)
(* thread calls the reporter meanwhile; a detector passes on what it does  *)
(* not handle.  Reporters are numbered from the original one, 0, outwards. *)
(***************************************************************************)
EXTENDS Naturals

CONSTANTS MaxStarts, MaxCalls, \* bounds
          NoCall

\* report with a message and a Throwable, report with anything else, and the
\* methods that every object has.
Methods == {"report", "report_message", "other"}

GuardAssumption ==
  MaxStarts \in Nat /\ MaxCalls \in Nat /\ NoCall \notin Methods

VARIABLES reporter,  \* what CloseGuard calls
          enabled,   \* CloseGuard reports at all
          method,    \* method being called, or NoCall
          callee,    \* reporter it has got to
          logs,      \* stacks logged
          raised,    \* history: calls by CloseGuard, by method
          bare,      \* history: those with no detector in front
          received   \* history: calls that reached the original reporter

vars == <<reporter, enabled, method, callee, logs, raised, bare, received>>

Init ==
  /\ reporter = 0 /\ enabled \in BOOLEAN
  /\ method = NoCall /\ callee = 0
  /\ logs = 0
  /\ raised = [m \in Methods |-> 0]
  /\ bare = [m \in Methods |-> 0]
  /\ received = [m \in Methods |-> 0]

-----------------------------------------------------------------------------
\* tryHookCloseGuard
StartHook ==
  /\ reporter < MaxStarts
  /\ enabled' = TRUE
  /\ reporter' = reporter + 1
  /\ UNCHANGED <<method, callee, logs, raised, bare, received>>

\* Without a class loader, or when setReporter throws, reporting is on.
StartHalf ==
  /\ enabled' = TRUE
  /\ UNCHANGED <<reporter, method, callee, logs, raised, bare, received>>

\* CloseGuard calls its reporter from the finalizer thread.
Raise(m) ==
  /\ method = NoCall /\ enabled
  /\ raised[m] < MaxCalls
  /\ method' = m /\ callee' = reporter
  /\ raised' = [raised EXCEPT ![m] = @ + 1]
  /\ bare' = [bare EXCEPT ![m] = @ + (IF reporter = 0 THEN 1 ELSE 0)]
  /\ UNCHANGED <<reporter, enabled, logs, received>>

\* Mutant: a leak that was logged is passed on as well.
InvokeReportPassed ==
  /\ callee > 0 /\ method = "report"
  /\ logs' = logs + 1
  /\ callee' = callee - 1
  /\ UNCHANGED <<reporter, enabled, method, raised, bare, received>>

\* invoke: a leak is logged, and nobody else hears of it.
InvokeReport ==
  /\ callee > 0 /\ method = "report"
  /\ logs' = logs + 1
  /\ method' = NoCall /\ callee' = 0
  /\ UNCHANGED <<reporter, enabled, raised, bare, received>>

\* invoke: a report with other arguments is dropped.
InvokeOtherReport ==
  /\ callee > 0 /\ method = "report_message"
  /\ method' = NoCall /\ callee' = 0
  /\ UNCHANGED <<reporter, enabled, logs, raised, bare, received>>

\* invoke: anything else is called on the reporter behind.
InvokeOther ==
  /\ callee > 0 /\ method = "other"
  /\ callee' = callee - 1
  /\ UNCHANGED <<reporter, enabled, method, logs, raised, bare, received>>

OriginalReceives ==
  /\ callee = 0 /\ method # NoCall
  /\ received' = [received EXCEPT ![method] = @ + 1]
  /\ method' = NoCall
  /\ UNCHANGED <<reporter, enabled, callee, logs, raised, bare>>

Next ==
  \/ StartHook \/ StartHalf
  \/ \E m \in Methods : Raise(m)
  \/ InvokeReport \/ InvokeOtherReport \/ InvokeOther \/ OriginalReceives

Spec == Init /\ [][Next]_vars

-----------------------------------------------------------------------------
\* Once a detector is in front, every leak is logged once, however many
\* detectors have been chained and whenever, and what is not a report still
\* reaches the original reporter once.
ReportedOnce ==
  method = NoCall =>
    /\ logs = raised["report"] - bare["report"]
    /\ received["report"] = bare["report"]
    /\ received["other"] = raised["other"]
=============================================================================
