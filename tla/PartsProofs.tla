----------------------------- MODULE PartsProofs -----------------------------
(***************************************************************************)
(* Theorems about the parts of MCParts, each for every value of its        *)
(* constants.  A part's inductive invariant is one about its own           *)
(* variables, and holds in the behaviours that run the part.               *)
(***************************************************************************)
EXTENDS MCParts, Integers, Sequences, SequenceTheorems, FiniteSetTheorems,
        FunctionTheorems, WellFoundedInduction, TLAPS

-----------------------------------------------------------------------------
(* A behaviour runs one part.                                              *)

LEMMA InitOf ==
  ASSUME Init
  PROVE  /\ part = "init" => ElfInit!Init
         /\ part = "lookup" => Lookup!Init
         /\ part = "sleb128" => Sleb!Init
         /\ part = "packed" => Packed!Init
         /\ part = "protect" => Protection!Init
         /\ part = "sigsegv" => Sigsegv!Init
         /\ part = "queue" => HookQueue!Init
         /\ part = "mmap" => Mmap!Init
         /\ part = "close" => Guard!Init
BY DEF Init

LEMMA StepOf ==
  ASSUME [Next]_vars
  PROVE  /\ part' = part
         /\ part = "init" => ElfInit!Next \/ UNCHANGED <<pc, initVars>>
         /\ part = "lookup" => Lookup!Next \/ UNCHANGED lookupVars
         /\ part = "sleb128" => Sleb!Next \/ UNCHANGED <<pc, sleb128Vars>>
         /\ part = "packed" => Packed!Next \/ UNCHANGED <<pc, packedVars>>
         /\ part = "protect" => Protection!Next \/ UNCHANGED <<pc, protectVars>>
         /\ part = "sigsegv" => Sigsegv!Next \/ UNCHANGED <<pc, sigsegvVars>>
         /\ part = "queue" => HookQueue!Next \/ UNCHANGED queueVars
         /\ part = "mmap" => Mmap!Next \/ UNCHANGED mmapVars
         /\ part = "close" => Guard!Next \/ UNCHANGED closeVars
<1>1. CASE Next
  BY <1>1 DEF Next
<1>2. CASE UNCHANGED vars
  BY <1>2 DEF vars
<1>3. QED
  BY <1>1, <1>2

-----------------------------------------------------------------------------
(* SIGSEGV protection.  The flag is up in the guarded regions and nowhere  *)
(* else; from sigsetjmp on the buffer is the refresher's.                  *)

Regions == {"armed", "guarded", "caught"}

SigsegvTyped ==
  /\ pc \in Regions \cup {"idle", "walk", "bare"}
  /\ refresher \in Threads \cup {NULL}
  /\ action \in {"default", "app", "xhook"}
  /\ act_old \in {"default", "app", "xhook"}
  /\ outcome \in [kind : {"running", "killed", "wild"},
                  thread : Threads \cup {NULL}]
  /\ env \in [thread : Threads \cup {NULL}, mask : BOOLEAN]
  /\ handler \in [Threads -> {"outside", "begun", "jump", "fall_back"}]
  /\ tested \in [Threads -> Threads \cup {NULL}]

\* SIGSEGV is in the mask of a thread while it is in the handler.
RegionInv ==
  /\ flag <=> pc \in Regions
  /\ pc \in {"guarded", "caught"} => env.thread = refresher
  /\ pc # "idle" => inited
  /\ pc = "idle" <=> refresher = NULL
  /\ blocked = {t \in Threads : handler[t] # "outside"}
  /\ ~ env.mask

\* The refresher enters the handler from its region and jumps home; a fault
\* that was not its own is on record, and so is whose region its thread saw.
InHandlerInv ==
  /\ refresher # NULL /\ handler[refresher] # "outside"
       => pc \in {"guarded", "bare"}
  /\ refresher # NULL /\ handler[refresher] # "outside" /\ pc = "guarded"
       => handler[refresher] \in {"begun", "jump"}
  /\ refresher # NULL /\ handler[refresher] = "jump" => pc = "guarded"
  /\ \A t \in Threads : handler[t] # "outside" =>
       foreign \/ (t = refresher /\ pc = "guarded")
  /\ \A t \in Threads : handler[t] = "jump" /\ t # refresher =>
       tested[t] \notin {NULL, t}

\* Nothing but the three causes takes the handler away between the first
\* refresh and clear.
HandlerInv ==
  /\ ~ switched => enable
  /\ inited /\ ~ switched /\ ~ foreign /\ ~ resethand => action = "xhook"

SigsegvInv ==
  /\ SigsegvTyped /\ RegionInv /\ InHandlerInv /\ HandlerInv
  /\ Sigsegv!FaultCaught /\ Sigsegv!JumpsHome

LEMMA SigsegvInit ==
  ASSUME Sigsegv!Init
  PROVE  SigsegvInv
BY DEF SigsegvInv, SigsegvTyped, RegionInv, InHandlerInv, HandlerInv, Regions,
  Sigsegv!Init,
  Sigsegv!FaultCaught, Sigsegv!JumpsHome, Sigsegv!Guarded

LEMMA SigsegvStep ==
  ASSUME SigsegvInv, Sigsegv!Next \/ UNCHANGED <<pc, sigsegvVars>>
  PROVE  SigsegvInv'
<1> USE PartsAssumption
    DEF Sigsegv!SigsegvAssumption, SigsegvInv, SigsegvTyped, RegionInv,
        HandlerInv, Sigsegv!FaultCaught, Sigsegv!JumpsHome, Regions,
        InHandlerInv, Sigsegv!Guarded, Sigsegv!Running, Sigsegv!MayFault,
        Sigsegv!Ends, Sigsegv!MaskRestored, Sigsegv!Refreshing,
        Sigsegv!Region, Sigsegv!handlerVars
<1>1. CASE Sigsegv!EnableSigsegvProtection
  <2>1. HandlerInv' /\ switched' = (switched \/ enable' # enable)
    BY <1>1 DEF Sigsegv!EnableSigsegvProtection
  <2>2. SigsegvTyped' /\ RegionInv' /\ InHandlerInv'
    BY <1>1 DEF Sigsegv!EnableSigsegvProtection
  <2>3. Sigsegv!FaultCaught' /\ Sigsegv!JumpsHome'
    BY <1>1 DEF Sigsegv!EnableSigsegvProtection
  <2> QED
    BY <2>1, <2>2, <2>3
<1>2. CASE Sigsegv!InitOnce
  BY <1>2 DEF Sigsegv!InitOnce
<1>3. CASE Sigsegv!Clear
  BY <1>3 DEF Sigsegv!Clear
<1>4. ASSUME NEW t \in Threads, Sigsegv!RefreshBegin(t) PROVE SigsegvInv'
  BY <1>4 DEF Sigsegv!RefreshBegin
<1>5. CASE Sigsegv!RefreshEnd
  BY <1>5 DEF Sigsegv!RefreshEnd
<1>6. CASE Sigsegv!Enter
  BY <1>6 DEF Sigsegv!Enter
<1>7. CASE Sigsegv!SetJump
  BY <1>7 DEF Sigsegv!SetJump
<1>8. CASE Sigsegv!Leave
  BY <1>8 DEF Sigsegv!Leave
<1>9. ASSUME NEW t \in Threads, Sigsegv!HandlerBegins(t) PROVE SigsegvInv'
  <2>1. /\ handler' = [handler EXCEPT ![t] = "begun"]
        /\ blocked' = blocked \cup {t}
        /\ handler[t] = "outside"
        /\ t = refresher => pc \in {"guarded", "bare"}
        /\ foreign' = (foreign \/ ~ (t = refresher /\ pc = "guarded"))
        /\ action' = IF resethand THEN "default" ELSE action
        /\ UNCHANGED <<pc, refresher, enable, flag, env, act_old, inited,
                       resethand, tested, outcome, switched>>
    BY <1>9 DEF Sigsegv!HandlerBegins
  <2>2. SigsegvTyped' /\ RegionInv'
    BY <2>1
  <2>3. InHandlerInv'
    <3>1. \A u \in Threads : handler'[u] # "outside" =>
            foreign' \/ (u = refresher' /\ pc' = "guarded")
      BY <2>1
    <3>2. \A u \in Threads : handler'[u] = "jump" => handler[u] = "jump"
      BY <2>1
    <3> QED
      BY <2>1, <3>1, <3>2
  <2>4. HandlerInv' /\ Sigsegv!FaultCaught' /\ Sigsegv!JumpsHome'
    BY <1>9, <2>1
  <2> QED
    BY <2>2, <2>3, <2>4
<1>10. ASSUME NEW t \in Threads, Sigsegv!TestFlag(t) PROVE SigsegvInv'
  BY <1>10 DEF Sigsegv!TestFlag
<1>11. ASSUME NEW t \in Threads, Sigsegv!LongJump(t) PROVE SigsegvInv'
  BY <1>11 DEF Sigsegv!LongJump
<1>12. ASSUME NEW t \in Threads, Sigsegv!FallBack(t) PROVE SigsegvInv'
  BY <1>12 DEF Sigsegv!FallBack
<1>13. ASSUME NEW t \in Threads, Sigsegv!Killed(t) PROVE SigsegvInv'
  BY <1>13 DEF Sigsegv!Killed
<1>14. CASE UNCHANGED <<pc, sigsegvVars>>
  BY <1>14 DEF sigsegvVars
<1>15. QED
  BY <1>1, <1>2, <1>3, <1>4, <1>5, <1>6, <1>7, <1>8, <1>9, <1>10, <1>11,
     <1>12, <1>13, <1>14 DEF Sigsegv!Next, Sigsegv!Handler

LEMMA SigsegvAlways == Spec => [](part = "sigsegv" => SigsegvInv)
<1>1. Init => (part = "sigsegv" => SigsegvInv)
  BY SigsegvInit, InitOf
<1>2. (part = "sigsegv" => SigsegvInv) /\ [Next]_vars
        => (part = "sigsegv" => SigsegvInv)'
  BY SigsegvStep, StepOf
<1>3. QED
  BY <1>1, <1>2, PTL DEF Spec

\* Every fault in a guarded region is caught, however many there are, unless
\* protection was switched, a fault elsewhere removed the handler, or the
\* unset sa_flags did (xh_core_sigsegv_handler, xh_core_hook).
THEOREM FaultsCaught == Spec => []FaultCaught
<1>1. (part = "sigsegv" => SigsegvInv) => FaultCaught
  BY DEF SigsegvInv, FaultCaught
<1>2. QED
  BY <1>1, SigsegvAlways, PTL

\* siglongjmp goes to a stack that is not the handler's own only on a thread
\* that read xh_core_sigsegv_flag (xh_core.c:95) while another one was in a
\* guarded region, whatever happens before it jumps (xh_core.c:96).
THEOREM AlwaysJumpsHome == Spec => []JumpsHome
<1>1. (part = "sigsegv" => SigsegvInv) => JumpsHome
  BY DEF SigsegvInv, JumpsHome
<1>2. QED
  BY <1>1, SigsegvAlways, PTL

-----------------------------------------------------------------------------
(* The mmap log.  What this process and those before it wrote lies below   *)
(* the most bytes ever logged, and write_ptr is at the bytes logged since  *)
(* the mapping was made.                                                   *)

MmapInv ==
  /\ process \in {"stopped", "running", "wrote_past", "read_past",
                  "null_written"}
  /\ write_ptr \in Nat \cup {NoLog}
  /\ logged \in Nat /\ peak \in Nat /\ logged <= peak
  /\ write_ptr # NoLog => write_ptr = logged
  /\ written \subseteq Mmap!Offsets
  /\ \A i \in written : i < peak
  /\ Mmap!PastOnlyWhenFull

LEMMA MmapConstants ==
  Capacity \in Nat \ {0} /\ Lens \subseteq Nat \ {0} /\ NoLog \notin Nat
BY PartsAssumption DEF Mmap!MmapAssumption

LEMMA MmapInit ==
  ASSUME Mmap!Init
  PROVE  MmapInv
BY DEF Mmap!Init, MmapInv, Mmap!PastOnlyWhenFull

LEMMA MmapStep ==
  ASSUME MmapInv, Mmap!Next \/ UNCHANGED mmapVars
  PROVE  MmapInv'
<1> USE MmapConstants DEF MmapInv, Mmap!PastOnlyWhenFull, Mmap!Offsets
<1>1. CASE Mmap!InitNative
  <2>1. ~ Mmap!EndsInside(Mmap!Start, written) => peak >= Capacity
    <3> SUFFICES ASSUME peak < Capacity
                 PROVE  \E i \in Mmap!Offsets \ written : i >= 0
      BY DEF Mmap!EndsInside, Mmap!Start
    <3>1. peak \in Mmap!Offsets \ written /\ peak >= 0
      OBVIOUS
    <3>2. QED
      BY <3>1
  <2>2. QED
    BY <1>1, <2>1 DEF Mmap!InitNative, Mmap!Start
<1>2. CASE Mmap!InitNativeFails
  BY <1>2 DEF Mmap!InitNativeFails
<1>3. ASSUME NEW len \in Lens, Mmap!WriteNative(len) PROVE MmapInv'
  <2> DEFINE end == write_ptr + len
  <2>1. /\ end \in Nat /\ logged' = end /\ peak' \in Nat /\ end <= peak'
        /\ peak <= peak'
    BY <1>3 DEF Mmap!WriteNative
  <2>2. /\ written' \subseteq Mmap!Offsets
        /\ \A i \in written' : i < peak'
    BY <1>3, <2>1 DEF Mmap!WriteNative
  <2>3. ~ Mmap!EndsInside(end, written') => peak' >= Capacity
    <3> SUFFICES ASSUME peak' < Capacity
                 PROVE  \E i \in Mmap!Offsets \ written' : i >= end
      BY <2>1 DEF Mmap!EndsInside
    <3>1. peak' \in Mmap!Offsets \ written' /\ peak' >= end
      BY <2>1, <2>2
    <3>2. QED
      BY <3>1
  <2>4. CASE end > Capacity
    BY <1>3, <2>1, <2>2, <2>4 DEF Mmap!WriteNative
  <2>5. CASE end <= Capacity /\ Mmap!EndsInside(end, written')
    BY <1>3, <2>1, <2>2, <2>5 DEF Mmap!WriteNative
  <2>6. CASE end <= Capacity /\ ~ Mmap!EndsInside(end, written')
    BY <1>3, <2>1, <2>2, <2>3, <2>6 DEF Mmap!WriteNative
  <2>7. QED
    BY <2>1, <2>4, <2>5, <2>6
<1>4. CASE Mmap!WriteNativeNull
  BY <1>4 DEF Mmap!WriteNativeNull
<1>5. CASE Mmap!Restart
  BY <1>5 DEF Mmap!Restart
<1>6. CASE UNCHANGED mmapVars
  BY <1>6 DEF mmapVars
<1>7. QED
  BY <1>1, <1>2, <1>3, <1>4, <1>5, <1>6 DEF Mmap!Next

LEMMA MmapAlways == Spec => [](part = "mmap" => MmapInv)
<1>1. Init => (part = "mmap" => MmapInv)
  BY MmapInit, InitOf
<1>2. (part = "mmap" => MmapInv) /\ [Next]_vars => (part = "mmap" => MmapInv)'
  BY MmapStep, StepOf
<1>3. QED
  BY <1>1, <1>2, PTL DEF Spec

\* mmap_demo: no access leaves the mapping before as many bytes as it maps were
\* logged after one start of the log.
THEOREM PastAlwaysFull == Spec => []PastOnlyWhenFull
<1>1. (part = "mmap" => MmapInv) => PastOnlyWhenFull
  BY DEF MmapInv, PastOnlyWhenFull
<1>2. QED
  BY <1>1, MmapAlways, PTL

-----------------------------------------------------------------------------
(* The leak detector.  A call in flight is one that was raised and is not  *)
(* counted as logged or received yet.                                      *)

InFlight(b) == IF b THEN 1 ELSE 0

GuardInv ==
  /\ reporter \in Nat /\ callee \in Nat
  /\ method \in Guard!Methods \cup {NoCall}
  /\ logs \in Nat
  /\ raised \in [Guard!Methods -> Nat] /\ bare \in [Guard!Methods -> Nat]
  /\ received \in [Guard!Methods -> Nat]
  /\ logs + InFlight(method = "report" /\ callee > 0)
       = raised["report"] - bare["report"]
  /\ received["report"] + InFlight(method = "report" /\ callee = 0)
       = bare["report"]
  /\ received["other"] + InFlight(method = "other") = raised["other"]

LEMMA GuardConstants == NoCall \notin Guard!Methods
BY PartsAssumption DEF Guard!GuardAssumption

LEMMA GuardInit ==
  ASSUME Guard!Init
  PROVE  GuardInv
BY GuardConstants DEF Guard!Init, GuardInv, InFlight, Guard!Methods

LEMMA GuardStep ==
  ASSUME GuardInv, Guard!Next \/ UNCHANGED closeVars
  PROVE  GuardInv'
<1> USE GuardConstants DEF GuardInv, InFlight, Guard!Methods
<1>1. CASE Guard!StartHook
  BY <1>1 DEF Guard!StartHook
<1>2. CASE Guard!StartHalf
  BY <1>2 DEF Guard!StartHalf
<1>3. ASSUME NEW m \in Guard!Methods, Guard!Raise(m) PROVE GuardInv'
  BY <1>3 DEF Guard!Raise
<1>4. CASE Guard!InvokeReport
  BY <1>4 DEF Guard!InvokeReport
<1>5. CASE Guard!InvokeOtherReport
  BY <1>5 DEF Guard!InvokeOtherReport
<1>6. CASE Guard!InvokeOther
  BY <1>6 DEF Guard!InvokeOther
<1>7. CASE Guard!OriginalReceives
  BY <1>7 DEF Guard!OriginalReceives
<1>8. CASE UNCHANGED closeVars
  BY <1>8 DEF closeVars
<1>9. QED
  BY <1>1, <1>2, <1>3, <1>4, <1>5, <1>6, <1>7, <1>8 DEF Guard!Next

LEMMA GuardAlways == Spec => [](part = "close" => GuardInv)
<1>1. Init => (part = "close" => GuardInv)
  BY GuardInit, InitOf
<1>2. (part = "close" => GuardInv) /\ [Next]_vars => (part = "close" => GuardInv)'
  BY GuardStep, StepOf
<1>3. QED
  BY <1>1, <1>2, PTL DEF Spec

\* CloseGuardHooker: with any number of detectors chained at any moments, each
\* leak is logged once, and what is not a report reaches the original reporter.
THEOREM AlwaysReportedOnce == Spec => []ReportedOnce
<1>1. (part = "close" => GuardInv) => ReportedOnce
  BY GuardConstants
  DEF GuardInv, ReportedOnce, Guard!ReportedOnce, InFlight, Guard!Methods
<1>2. QED
  BY <1>1, GuardAlways, PTL

-----------------------------------------------------------------------------
(* The tail queue.  The loop of xh_core_clear is always at the first        *)
(* element.                                                                *)

\* The i-th element of the queue, TheHead before the first, NULL after the last.
QueueAt(i) ==
  IF i = 0 THEN TheHead ELSE IF i > Len(order) THEN NULL ELSE order[i]

Linked(i) == entry[order[i]] = [next |-> QueueAt(i + 1), prev |-> QueueAt(i - 1)]

QueueInv ==
  /\ order \in Seq(Elems)
  /\ \A i, j \in 1..Len(order) : order[i] = order[j] => i = j
  /\ entry = [e \in DOMAIN entry |-> entry[e]]
  /\ DOMAIN entry = {order[i] : i \in 1..Len(order)}
  /\ tqh_first = QueueAt(1)
  /\ tqh_last = QueueAt(Len(order))
  /\ \A i \in 1..Len(order) : Linked(i)
  /\ hi_tmp # NoSweep => hi_tmp = tqh_first

LEMMA QueueConstants ==
  /\ NULL \notin Elems /\ TheHead \notin Elems
  /\ NoSweep \notin Elems \cup {NULL}
BY PartsAssumption DEF HookQueue!QueueAssumption

LEMMA QueueInit ==
  ASSUME HookQueue!Init
  PROVE  QueueInv
BY DEF HookQueue!Init, QueueInv, QueueAt

LEMMA QueueInsert ==
  ASSUME QueueInv, NEW e \in Elems, HookQueue!InsertTail(e)
  PROVE  QueueInv'
<1> USE QueueConstants DEF QueueInv
<1>0. PICK n \in Nat : n = Len(order)
  OBVIOUS
<1> USE <1>0
<1> DEFINE new == [next |-> NULL, prev |-> tqh_last]
<1>1. /\ n \in Nat /\ Len(order') = n + 1 /\ order' \in Seq(Elems)
      /\ order'[n + 1] = e /\ \A i \in 1..n : order'[i] = order[i]
      /\ \A i \in 1..n : order[i] \in Elems
      /\ tqh_last' = e /\ hi_tmp = NoSweep /\ hi_tmp' = NoSweep
      /\ e \notin DOMAIN entry
  BY DEF HookQueue!InsertTail
<1>2. \A i \in 1..n : order[i] # e
  BY <1>1
<1>3. \A i, j \in 1..(n + 1) : order'[i] = order'[j] => i = j
  BY <1>1, <1>2
<1>4. CASE n = 0
  <2>1. tqh_last = TheHead /\ DOMAIN entry = {}
    BY <1>4 DEF QueueAt
  <2>2. tqh_first' = e /\ entry' = [x \in {e} |-> new]
    BY <1>1, <2>1 DEF HookQueue!InsertTail
  <2>3. DOMAIN entry' = {order'[i] : i \in 1..(n + 1)}
    BY <1>1, <1>4, <2>2
  <2>4. Linked(1)'
    BY <1>1, <1>4, <2>1, <2>2 DEF Linked, QueueAt
  <2>5. tqh_first' = QueueAt(1)' /\ tqh_last' = QueueAt(Len(order))'
    BY <1>1, <1>4, <2>2 DEF QueueAt
  <2>6. QED
    BY <1>1, <1>3, <1>4, <2>2, <2>3, <2>4, <2>5
<1>5. CASE n > 0
  <2>0. PICK last : last = order[n]
    OBVIOUS
  <2> USE <2>0
  <2>1. tqh_last = last /\ last \in Elems /\ last \in DOMAIN entry /\ last # e
    BY <1>1, <1>2, <1>5 DEF QueueAt
  <2>2. /\ tqh_first' = tqh_first
        /\ entry' = [[x \in DOMAIN entry \cup {e} |->
                       IF x = e THEN new ELSE entry[x]] EXCEPT ![last].next = e]
    BY <1>1, <2>1 DEF HookQueue!InsertTail
  <2>3. /\ DOMAIN entry' = DOMAIN entry \cup {e}
        /\ entry' = [x \in DOMAIN entry' |-> entry'[x]]
        /\ entry'[e] = [next |-> NULL, prev |-> last]
        /\ entry'[last] = [entry[last] EXCEPT !.next = e]
        /\ \A x \in DOMAIN entry \ {last} : entry'[x] = entry[x]
    BY <1>1, <2>1, <2>2
  <2>4. DOMAIN entry' = {order'[i] : i \in 1..(n + 1)}
    BY <1>1, <2>3
  <2>5. Linked(n + 1)'
    BY <1>1, <1>5, <2>3 DEF Linked, QueueAt
  <2>6. Linked(n)'
    <3>1. entry[last] = [next |-> NULL, prev |-> QueueAt(n - 1)]
      <4>1. Linked(n)
        BY <1>5
      <4>2. QueueAt(n + 1) = NULL
        BY DEF QueueAt
      <4>3. QED
        BY <4>1, <4>2 DEF Linked
    <3>2. entry'[last] = [next |-> e, prev |-> QueueAt(n - 1)]
      BY <2>3, <3>1
    <3>3. QueueAt(n + 1)' = e /\ QueueAt(n - 1)' = QueueAt(n - 1)
      BY <1>1, <1>5 DEF QueueAt
    <3>4. QED
      BY <1>1, <1>5, <3>2, <3>3 DEF Linked
  <2>7. ASSUME NEW i \in 1..n, i # n PROVE Linked(i)'
    <3>1. order[i] \in DOMAIN entry \ {last}
      BY <1>1, <1>5, <2>7
    <3>2. Linked(i) /\ entry'[order'[i]] = entry[order[i]]
      BY <1>1, <2>3, <3>1
    <3>3. QueueAt(i + 1)' = QueueAt(i + 1) /\ QueueAt(i - 1)' = QueueAt(i - 1)
      BY <1>1, <2>7 DEF QueueAt
    <3>4. QED
      BY <3>2, <3>3 DEF Linked
  <2>8. \A i \in 1..(n + 1) : Linked(i)'
    BY <1>1, <2>5, <2>6, <2>7
  <2>9. tqh_first' = QueueAt(1)' /\ tqh_last' = QueueAt(Len(order))'
    <3>1. 1 \in 1..n /\ n + 1 # 0 /\ ~ (n + 1 > n + 1) /\ ~ (1 > n + 1)
      BY <1>5
    <3>2. order'[1] = order[1] /\ QueueAt(1) = order[1]
      BY <1>1, <3>1 DEF QueueAt
    <3>3. QueueAt(1)' = order'[1]
      BY <1>1, <3>1 DEF QueueAt
    <3>4. QueueAt(Len(order))' = e
      BY <1>1, <3>1 DEF QueueAt
    <3>5. QED
      BY <1>1, <2>2, <3>2, <3>3, <3>4
  <2>10. QED
    BY <1>1, <1>3, <2>3, <2>4, <2>8, <2>9
<1>6. QED
  BY <1>1, <1>4, <1>5

LEMMA QueueSweep ==
  ASSUME QueueInv, HookQueue!SweepStep
  PROVE  QueueInv'
<1> USE QueueConstants DEF QueueInv
<1>0. PICK n, head, second :
        n \in Nat /\ n = Len(order) /\ head = order[1] /\ second = QueueAt(2)
  OBVIOUS
<1> USE <1>0
<1>1. /\ n \in Nat /\ n > 0 /\ hi_tmp = head /\ head \in Elems
      /\ \A i \in 1..n : order[i] \in Elems
  BY DEF HookQueue!SweepStep, QueueAt
<1>2. entry[head] = [next |-> second, prev |-> TheHead]
  <2>1. Linked(1) /\ 1 + 1 = 2 /\ 1 - 1 = 0
    BY <1>1
  <2>2. QueueAt(0) = TheHead
    BY DEF QueueAt
  <2>3. QED
    BY <2>1, <2>2 DEF Linked
<1>3. /\ tqh_first' = second /\ hi_tmp' = second
      /\ tqh_last' = (IF second = NULL THEN TheHead ELSE tqh_last)
      /\ entry' = [x \in DOMAIN entry \ {head} |->
                    IF x = second THEN [entry[x] EXCEPT !.prev = TheHead]
                                  ELSE entry[x]]
  BY <1>1, <1>2 DEF HookQueue!SweepStep, HookQueue!LastWithout
<1>4. /\ order' \in Seq(Elems) /\ Len(order') = n - 1
      /\ \A i \in 1..(n - 1) : order'[i] = order[i + 1]
  <2>1. order' = [i \in 1..(n - 1) |-> IF \E j \in 1..i : order[j] = head
                                         THEN order[i + 1] ELSE order[i]]
    BY <1>1 DEF HookQueue!SweepStep, HookQueue!Without
  <2>2. order' = [i \in 1..(n - 1) |-> order[i + 1]]
    BY <2>1
  <2>3. QED
    BY <1>1, <2>2, SMTT(30)
<1>index. /\ \A i \in 1..(n - 1) : i + 1 \in 1..n /\ i + 1 # 1
      /\ \A i \in 1..n : i # 1 => i - 1 \in 1..(n - 1) /\ (i - 1) + 1 = i
  BY <1>1
<1>5. ASSUME NEW i \in 1..(n - 1), NEW j \in 1..(n - 1), order'[i] = order'[j]
      PROVE  i = j
  <2>1. order[i + 1] = order[j + 1] /\ i + 1 \in 1..n /\ j + 1 \in 1..n
    BY <1>4, <1>5, <1>index
  <2>2. i + 1 = j + 1
    BY <2>1
  <2>3. QED
    BY <2>2
<1>6. second = IF n = 1 THEN NULL ELSE order[2]
  BY <1>1 DEF QueueAt
<1>7. \A i : i \in 0..n => QueueAt(i)' = IF i = 0 THEN TheHead ELSE QueueAt(i + 1)
  <2> SUFFICES ASSUME NEW i \in 1..n
               PROVE  QueueAt(i)' = QueueAt(i + 1)
    BY DEF QueueAt
  <2>1. CASE i = n
    <3>1. i > Len(order') /\ i + 1 > n /\ i # 0 /\ i + 1 # 0
      BY <1>4, <2>1
    <3>2. QED
      BY <3>1 DEF QueueAt
  <2>2. CASE i # n
    <3>1. i \in 1..(n - 1) /\ ~ (i > Len(order')) /\ ~ (i + 1 > n)
          /\ i # 0 /\ i + 1 # 0
      BY <1>4, <2>2
    <3>2. QED
      BY <1>4, <3>1 DEF QueueAt
  <2>3. QED
    BY <2>1, <2>2
<1>8. DOMAIN entry' = {order'[i] : i \in 1..(n - 1)}
  <2>1. DOMAIN entry' = {order[i] : i \in 1..n} \ {head}
    BY <1>3
  <2>2. ASSUME NEW i \in 1..n, order[i] # head
        PROVE  order[i] \in {order'[j] : j \in 1..(n - 1)}
    <3>1. i - 1 \in 1..(n - 1) /\ (i - 1) + 1 = i
      BY <1>index, <2>2
    <3>2. order'[i - 1] = order[i]
      BY <1>4, <3>1
    <3>3. QED
      BY <3>1, <3>2
  <2>3. ASSUME NEW i \in 1..(n - 1)
        PROVE  order'[i] \in {order[j] : j \in 1..n} /\ order'[i] # head
    <3>1. i + 1 \in 1..n /\ i + 1 # 1 /\ 1 \in 1..n /\ order'[i] = order[i + 1]
      BY <1>1, <1>4, <1>index
    <3>2. QED
      BY <3>1
  <2>4. QED
    BY <2>1, <2>2, <2>3
<1>9. ASSUME NEW i \in 1..(n - 1) PROVE Linked(i)'
  <2> DEFINE x == order[i + 1]
  <2>1. /\ order'[i] = x /\ x \in DOMAIN entry /\ x # head
        /\ entry[x] = [next |-> QueueAt(i + 2), prev |-> QueueAt(i)]
    <3>1. i + 1 \in 1..n /\ i + 1 # 1 /\ (i + 1) + 1 = i + 2 /\ (i + 1) - 1 = i
      BY <1>1
    <3>2. Linked(i + 1)
      BY <3>1
    <3>3. QED
      BY <1>1, <1>4, <3>1, <3>2 DEF Linked
  <2>2. x = second <=> i = 1
    BY <1>1, <1>6
  <2>3. entry'[x] = IF i = 1 THEN [entry[x] EXCEPT !.prev = TheHead] ELSE entry[x]
    BY <1>3, <2>1, <2>2
  <2>4. QueueAt(i + 1)' = QueueAt(i + 2)
    BY <1>1, <1>7
  <2>5. QueueAt(i - 1)' = IF i = 1 THEN TheHead ELSE QueueAt(i)
    BY <1>1, <1>7
  <2>6. entry'[x] = [next |-> QueueAt(i + 2),
                     prev |-> IF i = 1 THEN TheHead ELSE QueueAt(i)]
    BY <2>1, <2>3
  <2>7. QED
    BY <2>1, <2>4, <2>5, <2>6 DEF Linked
<1>10. tqh_first' = QueueAt(1)' /\ tqh_last' = QueueAt(Len(order))'
  <2>1. tqh_first' = QueueAt(1)'
    BY <1>1, <1>3, <1>7
  <2>2. tqh_last' = IF n = 1 THEN TheHead ELSE QueueAt(n)
    BY <1>1, <1>3, <1>6
  <2>3. QueueAt(n - 1)' = IF n = 1 THEN TheHead ELSE QueueAt(n)
    BY <1>1, <1>7
  <2>4. QED
    BY <1>4, <2>1, <2>2, <2>3 DEF QueueAt
<1>11. entry' = [x \in DOMAIN entry' |-> entry'[x]]
  BY <1>3
<1>12. QED
  BY <1>1, <1>3, <1>4, <1>5, <1>8, <1>9, <1>10, <1>11

LEMMA QueueStep ==
  ASSUME QueueInv, HookQueue!Next \/ UNCHANGED queueVars
  PROVE  QueueInv'
<1>1. CASE \E e \in Elems : HookQueue!InsertTail(e)
  BY <1>1, QueueInsert
<1>2. CASE HookQueue!SweepStep
  BY <1>2, QueueSweep
<1>3. CASE HookQueue!SweepBegin \/ HookQueue!SweepEnd \/ UNCHANGED queueVars
  <2>1. UNCHANGED <<tqh_first, tqh_last, entry, order>>
    BY <1>3 DEF HookQueue!SweepBegin, HookQueue!SweepEnd, queueVars
  <2>2. hi_tmp' # NoSweep => hi_tmp' = tqh_first
    BY <1>3 DEF HookQueue!SweepBegin, HookQueue!SweepEnd, queueVars, QueueInv
  <2>3. QED
    BY <2>1, <2>2 DEF QueueInv, Linked, QueueAt
<1>4. QED
  BY <1>1, <1>2, <1>3 DEF HookQueue!Next

LEMMA QueueAlways == Spec => [](part = "queue" => QueueInv)
<1>1. Init => (part = "queue" => QueueInv)
  BY QueueInit, InitOf
<1>2. (part = "queue" => QueueInv) /\ [Next]_vars => (part = "queue" => QueueInv)'
  BY QueueStep, StepOf
<1>3. QED
  BY <1>1, <1>2, PTL DEF Spec

\* queue.h as xh_core uses it: whatever was registered and cleared before, the
\* queue is the elements in it, in order, with no pointer to a freed one.
THEOREM AlwaysSequence == Spec => []QueueIsSequence
<1>1. (part = "queue" => QueueInv) => QueueIsSequence
  <2> SUFFICES ASSUME QueueInv PROVE HookQueue!QueueIsSequence
    BY DEF QueueIsSequence
  <2>1. DOMAIN order = 1..Len(order)
    BY DEF QueueInv
  <2>2. QED
    BY <2>1 DEF HookQueue!QueueIsSequence, QueueInv, Linked, QueueAt
<1>2. QED
  BY <1>1, QueueAlways, PTL

-----------------------------------------------------------------------------
(* Natural numbers: induction by a least element, and recursions solved.   *)

LEMMA LeastNat ==
  ASSUME NEW T \in SUBSET Nat, T # {}
  PROVE  \E n \in T : \A m \in T : n <= m
<1>1. PICK n \in T : \A m \in T : ~ (<<m, n>> \in OpToRel(<, Nat))
  BY WFMin, NatLessThanWellFounded
<1>2. ASSUME NEW m \in T, m < n PROVE FALSE
  <2>1. \A ss : ss \in OpToRel(<, Nat) <=> ss \in Nat \X Nat /\ ss[1] < ss[2]
    BY Zenon DEF OpToRel
  <2>2. <<m, n>> \in OpToRel(<, Nat)
    BY <2>1, <1>2
  <2>3. QED
    BY <1>1, <2>2
<1>3. QED
  BY <1>2

LEMMA NatSet ==
  ASSUME NEW T, 0 \in T, \A n \in T \cap Nat : n + 1 \in T
  PROVE  Nat \subseteq T
<1> SUFFICES ASSUME Nat \ T # {} PROVE FALSE
  OBVIOUS
<1>1. PICK n \in Nat \ T : \A m \in Nat \ T : n <= m
  BY LeastNat
<1>2. n # 0 /\ n - 1 \in Nat /\ ~ (n <= n - 1) /\ (n - 1) + 1 = n
  OBVIOUS
<1>3. n - 1 \in T
  BY <1>1, <1>2
<1>4. QED
  BY <1>2, <1>3

\* A property of 0 that n hands to n + 1, for n below k.
LEMMA UpTo ==
  ASSUME NEW k \in Nat, NEW T, 0 \in T,
         \A n \in T \cap Nat : n < k => n + 1 \in T
  PROVE  \A n \in 0..k : n \in T
<1> DEFINE U == {n \in Nat : n <= k => n \in T}
<1>1. 0 \in U
  OBVIOUS
<1>2. \A n \in U \cap Nat : n + 1 \in U
  OBVIOUS
<1> HIDE DEF U
<1>3. Nat \subseteq U
  BY <1>1, <1>2, NatSet
<1>4. QED
  BY <1>3 DEF U

\* Dually, the greatest element of a set of naturals up to k.
LEMMA GreatestNat ==
  ASSUME NEW k \in Nat, NEW T \in SUBSET (0..k), T # {}
  PROVE  \E n \in T : \A m \in T : m <= n
<1> DEFINE U == {n \in Nat : \E m \in T : m + n = k}
<1>1. PICK t \in T : TRUE
  OBVIOUS
<1>2. k - t \in U
  BY <1>1
<1>3. PICK u \in U : \A n \in U : u <= n
  <2> HIDE DEF U
  <2>1. U \in SUBSET Nat /\ U # {}
    BY <1>2 DEF U
  <2>2. QED
    BY <2>1, LeastNat
<1>4. PICK n \in T : n + u = k
  OBVIOUS
<1>5. ASSUME NEW m \in T PROVE m <= n
  <2>1. k - m \in U
    OBVIOUS
  <2>2. u <= k - m
    BY <1>3, <2>1
  <2>3. QED
    BY <1>4, <2>2
<1>6. QED
  BY <1>5

\* A recursion over 0..N, from value a with step F, has a solution.
Recurses(f, N, V, a, F) ==
  /\ f \in [0..N -> V] /\ f[0] = a
  /\ \A k \in 1..N : f[k] = F[k][f[k - 1]]

LEMMA RecursionSolved ==
  ASSUME NEW N \in Nat, NEW V, NEW a \in V, NEW F \in [1..N -> [V -> V]]
  PROVE  \E f : Recurses(f, N, V, a, F)
<1> DEFINE Solves(f, n) == /\ f \in [0..n -> V] /\ f[0] = a
                           /\ \A k \in 1..n : f[k] = F[k][f[k - 1]]
           T == {n \in Nat : n <= N => \E f : Solves(f, n)}
<1>1. 0 \in T
  <2>1. Solves([k \in 0..0 |-> a], 0)
    OBVIOUS
  <2>2. QED
    BY <2>1
<1>2. ASSUME NEW n \in T \cap Nat PROVE n + 1 \in T
  <2> SUFFICES ASSUME n + 1 <= N PROVE \E f : Solves(f, n + 1)
    OBVIOUS
  <2>1. PICK f : Solves(f, n)
    BY <1>2
  <2> DEFINE last == F[n + 1][f[n]]
             g == [k \in 0..(n + 1) |-> IF k <= n THEN f[k] ELSE last]
  <2>2. n \in Nat /\ n + 1 \in 1..N /\ f[n] \in V /\ last \in V
    BY <2>1
  <2> HIDE DEF last, T
  <2>3. g \in [0..(n + 1) -> V] /\ g[0] = a
    BY <2>1, <2>2
  <2>4. ASSUME NEW k \in 1..(n + 1) PROVE g[k] = F[k][g[k - 1]]
    <3>1. CASE k = n + 1
      <4>1. g[k] = last /\ g[k - 1] = f[n]
        BY <2>2, <3>1
      <4> HIDE DEF g
      <4>2. QED
        BY <3>1, <4>1 DEF last
    <3>2. CASE k \in 1..n
      <4>1. g[k] = f[k] /\ g[k - 1] = f[k - 1]
        BY <2>2, <3>2
      <4> HIDE DEF g
      <4>2. QED
        BY <2>1, <3>2, <4>1
    <3>3. QED
      <4> HIDE DEF g
      <4>1. QED
        BY <2>2, <3>1, <3>2
  <2>5. Solves(g, n + 1)
    <3> HIDE DEF g
    <3>1. QED
      BY <2>3, <2>4
  <2>6. QED
    BY <2>5
<1>3. N \in T
  <2> HIDE DEF T
  <2>1. Nat \subseteq T
    BY <1>1, <1>2, NatSet
  <2>2. QED
    BY <2>1
<1>4. QED
  BY <1>3 DEF Recurses

LEMMA DivBounds ==
  ASSUME NEW n \in Nat, NEW d \in Nat \ {0}
  PROVE  n \div d \in Nat /\ (n \div d) * d <= n /\ n < (n \div d) * d + d
OBVIOUS

LEMMA Multiples ==
  ASSUME NEW a \in Int, NEW b \in Int, NEW d \in Nat \ {0}
  PROVE  /\ a * d \in Int
         /\ a * d < b * d + d => a <= b
         /\ a * d < b * d => a < b
         /\ a <= b => a * d <= b * d
         /\ a < b => a * d + d <= b * d
OBVIOUS

-----------------------------------------------------------------------------
(* Memory protection.  A word lies on one page or two; the walk over the   *)
(* lines has met none of them, or has read the first and is at the second. *)

FirstPage == addr \div PAGE_SIZE
LastPage  == (addr + WordSize - 1) \div PAGE_SIZE

\* prot is what the pages of the word grant together under protections m.
Granted(m) ==
  /\ m[FirstPage] # Gap /\ m[LastPage] # Gap
  /\ prot = m[FirstPage] \cap m[LastPage]

\* Lines are cut where the protection changes.
LinesCut ==
  \A p \in Protection!PageNos : p # 0 /\ perm[p] # perm[p - 1] => p \in cuts

WalkInv ==
  /\ load0 => /\ start_addr = addr
              /\ page * PAGE_SIZE <= addr \/ perm[FirstPage] = Gap
  /\ ~ load0 => /\ LastPage = FirstPage + 1
                /\ start_addr = LastPage * PAGE_SIZE
                /\ perm[FirstPage] # Gap /\ prot = perm[FirstPage]
                /\ page = LastPage \/ (page > LastPage /\ perm[LastPage] = Gap)

ProtectTyped ==
  /\ pc \in {"get", "found", "failed", "store", "done"}
  /\ perm \in [Protection!PageNos -> (SUBSET Protection!AllProts) \cup {Gap}]
  /\ original \in [Protection!PageNos -> (SUBSET Protection!AllProts) \cup {Gap}]
  /\ addr \in 0..(Pages * PAGE_SIZE - WordSize)
  /\ page \in 0..Pages
  /\ load0 \in BOOLEAN

ProtectInv ==
  /\ ProtectTyped
  /\ pc \in {"get", "found", "failed"} => perm = original
  /\ pc = "get" => LinesCut /\ WalkInv
  /\ pc \in {"found", "store"} => Granted(original)
  /\ pc = "failed" => perm[FirstPage] = Gap \/ perm[LastPage] = Gap
  /\ pc = "store" =>
       perm = [p \in Protection!PageNos |->
                IF p \in {FirstPage, LastPage} /\ prot # Protection!need_prot
                  THEN Protection!need_prot ELSE original[p]]
  /\ pc = "done" /\ original[FirstPage] = original[LastPage] => perm = original

LEMMA ProtectConstants ==
  /\ Pages \in Nat \ {0} /\ PAGE_SIZE \in Nat \ {0} /\ WordSize \in Nat \ {0}
  /\ WordSize <= PAGE_SIZE
  /\ Prots \subseteq SUBSET Protection!AllProts
  /\ Gap \notin SUBSET Protection!AllProts
BY PartsAssumption DEF Protection!ProtectAssumption, Protection!AllProts

LEMMA WordFacts ==
  ASSUME addr \in 0..(Pages * PAGE_SIZE - WordSize)
  PROVE  /\ FirstPage \in Protection!PageNos /\ LastPage \in Protection!PageNos
         /\ LastPage \in {FirstPage, FirstPage + 1}
         /\ FirstPage * PAGE_SIZE <= addr
         /\ addr < FirstPage * PAGE_SIZE + PAGE_SIZE
         /\ LastPage * PAGE_SIZE < addr + WordSize
         /\ addr + WordSize <= LastPage * PAGE_SIZE + PAGE_SIZE
         /\ Protection!WordPages = {FirstPage, LastPage}
         /\ Protection!Cover = {FirstPage, LastPage}
<1> USE ProtectConstants
<1>1. /\ Pages * PAGE_SIZE \in Nat
      /\ addr \in Nat /\ addr + WordSize - 1 \in Nat
      /\ addr + WordSize <= Pages * PAGE_SIZE
  BY Multiples
<1>2. /\ FirstPage \in Nat /\ FirstPage * PAGE_SIZE <= addr
      /\ addr < FirstPage * PAGE_SIZE + PAGE_SIZE
  BY <1>1, DivBounds DEF FirstPage
<1>3. /\ LastPage \in Nat /\ LastPage * PAGE_SIZE <= addr + WordSize - 1
      /\ addr + WordSize - 1 < LastPage * PAGE_SIZE + PAGE_SIZE
  BY <1>1, DivBounds DEF LastPage
<1> DEFINE fp == FirstPage * PAGE_SIZE
           lp == LastPage * PAGE_SIZE
<1>4. fp \in Int /\ lp \in Int /\ (FirstPage + 1) * PAGE_SIZE = fp + PAGE_SIZE
  BY <1>2, <1>3
<1>5. FirstPage <= LastPage
  BY <1>1, <1>2, <1>3, Multiples
<1>6. LastPage <= FirstPage + 1
  <2>1. lp < (FirstPage + 1) * PAGE_SIZE + PAGE_SIZE
    BY <1>1, <1>2, <1>3, <1>4
  <2>2. QED
    BY <1>2, <1>3, <2>1, Multiples
<1>7. LastPage < Pages
  BY <1>1, <1>3, Multiples
<1>8. LastPage \in {FirstPage, FirstPage + 1}
  BY <1>2, <1>3, <1>5, <1>6
<1>9. \A b \in addr..(addr + WordSize - 1) : b \div PAGE_SIZE \in {FirstPage, LastPage}
  <2> SUFFICES ASSUME NEW b \in addr..(addr + WordSize - 1)
               PROVE  b \div PAGE_SIZE \in {FirstPage, LastPage}
    OBVIOUS
  <2> DEFINE q == b \div PAGE_SIZE
  <2>1. b \in Nat /\ addr <= b /\ b <= addr + WordSize - 1
    BY <1>1
  <2>2. q \in Nat /\ q * PAGE_SIZE <= b /\ b < q * PAGE_SIZE + PAGE_SIZE
    BY <2>1, DivBounds
  <2> HIDE DEF q
  <2>3. FirstPage <= q
    BY <1>2, <2>1, <2>2, Multiples
  <2>4. q <= LastPage
    BY <1>1, <1>3, <2>1, <2>2, Multiples
  <2>5. q \in {FirstPage, LastPage}
    BY <1>2, <1>3, <1>8, <2>2, <2>3, <2>4
  <2>6. QED
    BY <2>5 DEF q
<1>10. Protection!WordPages = {FirstPage, LastPage}
  <2>1. addr \in addr..(addr + WordSize - 1)
        /\ addr + WordSize - 1 \in addr..(addr + WordSize - 1)
    BY <1>1
  <2>2. QED
    BY <1>9, <2>1 DEF Protection!WordPages, FirstPage, LastPage
<1>11. Protection!Cover = {FirstPage, LastPage}
  <2>1. Protection!Cover = FirstPage..LastPage
    BY DEF Protection!Cover, FirstPage, LastPage
  <2>2. QED
    BY <1>2, <1>3, <1>8, <2>1
<1>12. QED
  BY <1>1, <1>2, <1>3, <1>5, <1>7, <1>8, <1>10, <1>11 DEF Protection!PageNos

\* A line ends after its first page, and its pages have one protection.
LEMMA LineFacts ==
  ASSUME page \in 0..Pages, page < Pages, LinesCut
  PROVE  /\ Protection!NextLine(page) \in (page + 1)..Pages
         /\ \A r \in page..(Protection!NextLine(page) - 1) : perm[r] = perm[page]
<1> USE ProtectConstants
<1> DEFINE Ends(q) == /\ q = Pages \/ q \in cuts
                      /\ \A r \in (page + 1)..(q - 1) : r \notin cuts
           E == {q \in (page + 1)..Pages : q = Pages \/ q \in cuts}
           next == Protection!NextLine(page)
<1>1. \E q \in (page + 1)..Pages : Ends(q)
  <2>1. E \in SUBSET Nat /\ Pages \in E
    OBVIOUS
  <2>2. PICK q \in E : \A m \in E : q <= m
    <3> HIDE DEF E
    <3>1. QED
      BY <2>1, LeastNat
  <2>3. \A r \in (page + 1)..(q - 1) : r \notin cuts
    BY <2>2
  <2>4. QED
    BY <2>2, <2>3
<1>2. next \in (page + 1)..Pages /\ Ends(next)
  BY <1>1, Zenon DEF Protection!NextLine
<1> DEFINE T == {k \in Nat : page + k < next => perm[page + k] = perm[page]}
<1> HIDE DEF next
<1>3. 0 \in T
  OBVIOUS
<1>4. ASSUME NEW k \in T \cap Nat PROVE k + 1 \in T
  <2> SUFFICES ASSUME page + (k + 1) < next
               PROVE  perm[page + (k + 1)] = perm[page]
    OBVIOUS
  <2> DEFINE p == page + (k + 1)
  <2>1. p \in (page + 1)..(next - 1) /\ p - 1 = page + k /\ p # 0
        /\ page + k < next /\ p \in 0..(Pages - 1)
    BY <1>2
  <2>2. perm[p] = perm[p - 1]
    BY <1>2, <2>1 DEF LinesCut, Protection!PageNos
  <2>3. perm[page + k] = perm[page]
    BY <1>4, <2>1
  <2>4. QED
    BY <2>1, <2>2, <2>3
<1>5. Nat \subseteq T
  <2> HIDE DEF T
  <2>1. QED
    BY <1>3, <1>4, NatSet
<1>6. ASSUME NEW r \in page..(next - 1) PROVE perm[r] = perm[page]
  <2>1. r - page \in Nat /\ page + (r - page) = r /\ r < next
    BY <1>2
  <2>2. r - page \in T
    BY <1>5, <2>1
  <2>3. QED
    BY <2>1, <2>2
<1>7. QED
  BY <1>2, <1>6 DEF next

LEMMA ProtectInit ==
  ASSUME Protection!Init
  PROVE  ProtectInv
<1> USE ProtectConstants
<1>1. PICK extra \in SUBSET Protection!PageNos :
        cuts = {p \in Protection!PageNos :
                 p = 0 \/ p \in extra \/ perm[p] # perm[p - 1]}
  BY DEF Protection!Init
<1>2. LinesCut
  BY <1>1 DEF LinesCut
<1>3. ProtectTyped
  <2>1. perm \in [Protection!PageNos -> Prots \cup {Gap}] /\ original = perm
    BY DEF Protection!Init
  <2>2. perm \in [Protection!PageNos -> (SUBSET Protection!AllProts) \cup {Gap}]
    BY <2>1
  <2>3. QED
    BY <2>1, <2>2 DEF Protection!Init, ProtectTyped
<1>4. page * PAGE_SIZE <= addr
  BY DEF Protection!Init
<1>5. QED
  BY <1>2, <1>3, <1>4 DEF Protection!Init, ProtectInv, WalkInv

LEMMA PassedOverInv ==
  ASSUME ProtectInv, Protection!LinePassedOver
  PROVE  ProtectInv'
<1> USE ProtectConstants
<1> DEFINE next == Protection!NextLine(page)
<1>1. /\ ProtectTyped /\ perm = original /\ LinesCut /\ WalkInv
      /\ pc = "get" /\ page < Pages /\ page \in Nat /\ ~ Protection!Covers
      /\ page' = next
      /\ UNCHANGED <<pc, perm, cuts, addr, start_addr, load0, prot, original>>
  BY DEF ProtectInv, ProtectTyped, Protection!LinePassedOver
<1>2. /\ next \in (page + 1)..Pages
      /\ \A r \in page..(next - 1) : perm[r] = perm[page]
  BY <1>1, LineFacts DEF ProtectTyped
<1>3. ~ (/\ perm[page] # Gap /\ page * PAGE_SIZE <= start_addr
         /\ start_addr < next * PAGE_SIZE)
  BY <1>1 DEF Protection!Covers, Protection!LineEnd
<1>4. /\ FirstPage \in Protection!PageNos /\ LastPage \in Protection!PageNos
      /\ FirstPage * PAGE_SIZE <= addr
      /\ addr < FirstPage * PAGE_SIZE + PAGE_SIZE
  BY <1>1, WordFacts DEF ProtectTyped
<1> HIDE DEF next
<1>5. next \in Nat /\ FirstPage \in Nat /\ LastPage \in Nat /\ addr \in Nat
  BY <1>1, <1>2, <1>4, Multiples DEF Protection!PageNos, ProtectTyped
<1>6. WalkInv'
  <2>1. CASE load0
    <3> SUFFICES ASSUME perm[FirstPage] # Gap, page * PAGE_SIZE <= addr
                 PROVE  next * PAGE_SIZE <= addr
      BY <1>1, <2>1 DEF WalkInv, FirstPage, LastPage
    <3> SUFFICES ASSUME addr < next * PAGE_SIZE PROVE FALSE
      BY <1>5, Multiples
    <3>1. page <= FirstPage
      BY <1>1, <1>4, <1>5, Multiples
    <3>2. FirstPage < next
      BY <1>4, <1>5, Multiples
    <3>3. perm[FirstPage] = perm[page]
      BY <1>1, <1>2, <1>5, <3>1, <3>2
    <3>4. QED
      BY <1>1, <1>3, <2>1, <3>3 DEF WalkInv
  <2>2. CASE ~ load0
    <3>1. page = LastPage => perm[LastPage] = Gap
      <4> SUFFICES ASSUME page = LastPage
                   PROVE  LastPage * PAGE_SIZE < next * PAGE_SIZE
        BY <1>1, <1>3, <1>5, <2>2, Multiples DEF WalkInv
      <4>1. LastPage < next
        BY <1>2, <1>5
      <4>2. QED
        BY <1>5, <4>1, Multiples
    <3>2. next > LastPage
      BY <1>1, <1>2, <1>5, <2>2 DEF WalkInv
    <3>3. QED
      BY <1>1, <2>2, <3>1, <3>2 DEF WalkInv, FirstPage, LastPage
  <2>3. QED
    BY <1>1, <2>1, <2>2 DEF ProtectTyped
<1>7. ProtectTyped' /\ LinesCut'
  BY <1>1, <1>2 DEF ProtectTyped, LinesCut
<1>8. QED
  BY <1>1, <1>6, <1>7 DEF ProtectInv

LEMMA CoversInv ==
  ASSUME ProtectInv, Protection!LineCovers
  PROVE  ProtectInv'
<1> USE ProtectConstants
<1> DEFINE next == Protection!NextLine(page)
<1>1. /\ ProtectTyped /\ perm = original /\ LinesCut /\ WalkInv
      /\ pc = "get" /\ page < Pages /\ page \in Nat
      /\ perm[page] # Gap /\ page * PAGE_SIZE <= start_addr
      /\ start_addr < next * PAGE_SIZE
      /\ prot' = (IF load0 THEN perm[page] ELSE prot \cap perm[page])
      /\ load0' = FALSE /\ page' = next
      /\ UNCHANGED <<perm, cuts, addr, original>>
  BY DEF ProtectInv, ProtectTyped, Protection!LineCovers, Protection!Covers,
    Protection!LineEnd, Protection!Merged
<1>2. IF addr + WordSize <= next * PAGE_SIZE
        THEN pc' = "found" /\ start_addr' = start_addr
        ELSE start_addr' = next * PAGE_SIZE /\ pc' = pc
  BY DEF Protection!LineCovers, Protection!LineEnd
<1>3. /\ next \in (page + 1)..Pages
      /\ \A r \in page..(next - 1) : perm[r] = perm[page]
  BY <1>1, LineFacts DEF ProtectTyped
<1>4. /\ FirstPage \in Protection!PageNos /\ LastPage \in Protection!PageNos
      /\ LastPage \in {FirstPage, FirstPage + 1}
      /\ FirstPage * PAGE_SIZE <= addr
      /\ addr < FirstPage * PAGE_SIZE + PAGE_SIZE
      /\ LastPage * PAGE_SIZE < addr + WordSize
      /\ addr + WordSize <= LastPage * PAGE_SIZE + PAGE_SIZE
  BY <1>1, WordFacts DEF ProtectTyped
<1> HIDE DEF next
<1>5. next \in Nat /\ FirstPage \in Nat /\ LastPage \in Nat /\ addr \in Nat
  BY <1>1, <1>3, <1>4, Multiples DEF Protection!PageNos, ProtectTyped
<1>6. /\ ProtectTyped' /\ LinesCut' /\ FirstPage' = FirstPage
      /\ LastPage' = LastPage
  <2>1. pc' \in {"get", "found"} /\ page' \in 0..Pages
    BY <1>1, <1>2, <1>3
  <2>2. QED
    BY <1>1, <2>1 DEF ProtectTyped, LinesCut, FirstPage, LastPage
<1>7. CASE load0
  <2>1. start_addr = addr /\ page <= FirstPage /\ FirstPage < next
    BY <1>1, <1>4, <1>5, <1>7, Multiples DEF WalkInv
  <2>2. perm[FirstPage] = perm[page] /\ prot' = perm[FirstPage]
    BY <1>1, <1>3, <1>5, <1>7, <2>1
  <2>3. CASE addr + WordSize <= next * PAGE_SIZE
    <3>1. LastPage < next /\ page <= LastPage
      BY <1>1, <1>4, <1>5, <2>1, <2>3, Multiples
    <3>2. perm[LastPage] = perm[page]
      BY <1>1, <1>3, <1>5, <3>1
    <3>3. Granted(original)'
      BY <1>1, <1>6, <2>2, <3>2 DEF Granted
    <3>4. QED
      BY <1>1, <1>2, <1>6, <2>3, <3>3 DEF ProtectInv
  <2>4. CASE ~ (addr + WordSize <= next * PAGE_SIZE)
    <3>1. next <= LastPage
      <4>1. next * PAGE_SIZE < LastPage * PAGE_SIZE + PAGE_SIZE
        BY <1>4, <1>5, <2>4, Multiples
      <4>2. QED
        BY <1>5, <4>1, Multiples
    <3>2. next = LastPage /\ LastPage = FirstPage + 1
      BY <1>4, <1>5, <2>1, <3>1
    <3>3. WalkInv'
      BY <1>1, <1>2, <1>6, <2>2, <2>4, <3>2 DEF WalkInv
    <3>4. QED
      BY <1>1, <1>2, <1>6, <2>4, <3>3 DEF ProtectInv
  <2>5. QED
    BY <2>3, <2>4
<1>8. CASE ~ load0
  <2>1. start_addr = LastPage * PAGE_SIZE /\ page <= LastPage
    BY <1>1, <1>5, <1>8, Multiples DEF WalkInv
  <2>2. page = LastPage /\ LastPage = FirstPage + 1
    BY <1>1, <1>5, <1>8, <2>1 DEF WalkInv
  <2>3. addr + WordSize <= next * PAGE_SIZE
    <3>1. LastPage < next
      BY <1>3, <1>5, <2>2
    <3>2. LastPage * PAGE_SIZE + PAGE_SIZE <= next * PAGE_SIZE
      BY <1>5, <3>1, Multiples
    <3>3. QED
      BY <1>4, <1>5, <3>2, Multiples
  <2>4. Granted(original)'
    BY <1>1, <1>6, <1>8, <2>2 DEF Granted, WalkInv
  <2>5. QED
    BY <1>1, <1>2, <1>6, <2>3, <2>4 DEF ProtectInv
<1>9. QED
  BY <1>7, <1>8

LEMMA NotFoundInv ==
  ASSUME ProtectInv, Protection!NotFound
  PROVE  ProtectInv'
<1> USE ProtectConstants
<1>1. /\ ProtectTyped /\ perm = original /\ WalkInv /\ pc = "get" /\ page = Pages
      /\ pc' = "failed" /\ UNCHANGED <<perm, addr, page, load0, original>>
  BY DEF ProtectInv, Protection!NotFound
<1>2. FirstPage' = FirstPage /\ LastPage' = LastPage
  BY <1>1 DEF FirstPage, LastPage
<1>3. perm[FirstPage] = Gap \/ perm[LastPage] = Gap
  <2>1. CASE load0
    <3>1. ~ (page * PAGE_SIZE <= addr)
      BY <1>1, Multiples DEF ProtectTyped
    <3>2. QED
      BY <1>1, <2>1, <3>1 DEF WalkInv
  <2>2. CASE ~ load0
    <3>1. LastPage # Pages
      BY <1>1, WordFacts DEF ProtectTyped, Protection!PageNos
    <3>2. QED
      BY <1>1, <2>2, <3>1 DEF WalkInv
  <2>3. QED
    BY <2>1, <2>2
<1>4. ProtectTyped'
  BY <1>1 DEF ProtectTyped
<1>5. QED
  BY <1>1, <1>2, <1>3, <1>4 DEF ProtectInv

LEMMA SetInv ==
  ASSUME ProtectInv, Protection!SetProtection
  PROVE  ProtectInv'
<1> USE ProtectConstants
<1>1. /\ ProtectTyped /\ perm = original /\ Granted(original)
      /\ pc = "found" /\ pc' = "store"
      /\ UNCHANGED <<addr, page, start_addr, load0, prot, original>>
  BY DEF ProtectInv, Protection!SetProtection
<1>2. Protection!Cover = {FirstPage, LastPage}
  BY <1>1, WordFacts DEF ProtectTyped
<1>3. perm' = [p \in Protection!PageNos |->
                IF p \in {FirstPage, LastPage} /\ prot # Protection!need_prot
                  THEN Protection!need_prot ELSE original[p]]
  <2>1. CASE prot # Protection!need_prot
    BY <1>1, <1>2, <2>1 DEF Protection!SetProtection, Protection!Protect
  <2>2. CASE prot = Protection!need_prot
    BY <1>1, <2>2 DEF Protection!SetProtection, ProtectTyped
  <2>3. QED
    BY <2>1, <2>2
<1>4. FirstPage' = FirstPage /\ LastPage' = LastPage
  BY <1>1 DEF FirstPage, LastPage
<1>5. Granted(original)'
  BY <1>1, <1>4 DEF Granted
<1>6. ProtectTyped'
  BY <1>1, <1>3
  DEF ProtectTyped, Protection!need_prot, Protection!AllProts
<1>7. QED
  BY <1>1, <1>3, <1>4, <1>5, <1>6 DEF ProtectInv

LEMMA RestoreInv ==
  ASSUME ProtectInv, Protection!RestoreProtection
  PROVE  ProtectInv'
<1> USE ProtectConstants
<1> DEFINE put(p) == IF p \in {FirstPage, LastPage} /\ prot # Protection!need_prot
                       THEN prot ELSE original[p]
<1>1. /\ ProtectTyped /\ Granted(original) /\ pc' = "done"
      /\ perm = [p \in Protection!PageNos |->
                  IF p \in {FirstPage, LastPage} /\ prot # Protection!need_prot
                    THEN Protection!need_prot ELSE original[p]]
      /\ UNCHANGED <<addr, page, start_addr, load0, prot, original>>
  BY DEF ProtectInv, Protection!RestoreProtection
<1>2. /\ Protection!Cover = {FirstPage, LastPage}
      /\ FirstPage \in Protection!PageNos /\ LastPage \in Protection!PageNos
  BY <1>1, WordFacts DEF ProtectTyped
<1>3. perm' = [p \in Protection!PageNos |-> put(p)]
  <2>1. CASE prot # Protection!need_prot
    BY <1>1, <1>2, <2>1 DEF Protection!RestoreProtection, Protection!Protect
  <2>2. CASE prot = Protection!need_prot
    BY <1>1, <2>2 DEF Protection!RestoreProtection
  <2>3. QED
    BY <2>1, <2>2
<1>4. FirstPage' = FirstPage /\ LastPage' = LastPage
  BY <1>1 DEF FirstPage, LastPage
<1>5. original[FirstPage] = original[LastPage] => perm' = original
  <2> SUFFICES ASSUME original[FirstPage] = original[LastPage]
               PROVE  \A p \in Protection!PageNos : put(p) = original[p]
    BY <1>1, <1>3 DEF ProtectTyped
  <2>1. prot = original[FirstPage]
    BY <1>1 DEF Granted
  <2>2. QED
    BY <2>1
<1>6. ProtectTyped'
  <2>1. prot \in SUBSET Protection!AllProts
    BY <1>1, <1>2 DEF Granted, ProtectTyped
  <2>2. QED
    BY <1>1, <1>3, <2>1 DEF ProtectTyped
<1>7. QED
  BY <1>1, <1>4, <1>5, <1>6 DEF ProtectInv

LEMMA ProtectStep ==
  ASSUME ProtectInv, Protection!Next \/ UNCHANGED <<pc, protectVars>>
  PROVE  ProtectInv'
<1>1. CASE Protection!Next
  BY <1>1, PassedOverInv, CoversInv, NotFoundInv, SetInv, RestoreInv
  DEF Protection!Next
<1>2. CASE UNCHANGED <<pc, protectVars>>
  BY <1>2 DEF protectVars, ProtectInv, ProtectTyped, LinesCut, WalkInv, Granted,
    FirstPage, LastPage
<1>3. QED
  BY <1>1, <1>2

LEMMA ProtectAlways == Spec => [](part = "protect" => ProtectInv)
<1>1. Init => (part = "protect" => ProtectInv)
  BY ProtectInit, InitOf
<1>2. (part = "protect" => ProtectInv) /\ [Next]_vars
        => (part = "protect" => ProtectInv)'
  BY ProtectStep, StepOf
<1>3. QED
  BY <1>1, <1>2, PTL DEF Spec

\* xh_util_get_mem_protect: it succeeds exactly when every byte of the word is
\* mapped, and then finds what all the lines grant, however they are cut.
THEOREM AlwaysProtectionExact == Spec => []ProtectionExact
<1>1. (part = "protect" => ProtectInv) => ProtectionExact
  <2> SUFFICES ASSUME ProtectInv PROVE Protection!ProtectionExact
    BY DEF ProtectionExact
  <2>1. ProtectTyped /\ Protection!WordPages = {FirstPage, LastPage}
        /\ FirstPage \in Protection!PageNos /\ LastPage \in Protection!PageNos
    BY WordFacts DEF ProtectInv, ProtectTyped
  <2>2. ASSUME pc = "found"
        PROVE  /\ \A p \in Protection!WordPages : perm[p] # Gap
               /\ prot = {x \in Protection!AllProts :
                           \A p \in Protection!WordPages : x \in perm[p]}
    <3>1. Granted(perm)
      BY <2>2 DEF ProtectInv
    <3>2. perm[FirstPage] \in SUBSET Protection!AllProts
      BY <2>1, <3>1 DEF ProtectTyped, Granted
    <3>3. QED
      BY <2>1, <3>1, <3>2 DEF Granted
  <2>3. QED
    BY <2>1, <2>2 DEF Protection!ProtectionExact, ProtectInv
<1>2. QED
  BY <1>1, ProtectAlways, PTL

\* xh_elf_replace_function stores to writable pages only.
THEOREM AlwaysStoreAllowed == Spec => []StoreAllowed
<1>1. (part = "protect" => ProtectInv) => StoreAllowed
  <2> SUFFICES ASSUME ProtectInv, pc = "store", NEW p \in Protection!WordPages
               PROVE  "w" \in perm[p]
    BY DEF StoreAllowed, Protection!StoreAllowed
  <2>1. p \in {FirstPage, LastPage} /\ p \in Protection!PageNos
    BY WordFacts DEF ProtectInv, ProtectTyped
  <2>2. CASE prot # Protection!need_prot
    BY <2>1, <2>2 DEF ProtectInv, Protection!need_prot
  <2>3. CASE prot = Protection!need_prot
    BY <2>1, <2>3 DEF ProtectInv, Granted, Protection!need_prot
  <2>4. QED
    BY <2>2, <2>3
<1>2. QED
  BY <1>1, ProtectAlways, PTL

\* Replacing a slot leaves every page with the protection it had, unless the
\* slot lies across two pages with different ones.
THEOREM AlwaysProtectionKept == Spec => []ProtectionKept
<1>1. (part = "protect" => ProtectInv) => ProtectionKept
  <2> SUFFICES ASSUME ProtectInv PROVE Protection!ProtectionKept
    BY DEF ProtectionKept
  <2>1. Protection!WordPages = {FirstPage, LastPage}
    BY WordFacts DEF ProtectInv, ProtectTyped
  <2>2. QED
    BY <2>1 DEF Protection!ProtectionKept, Protection!Uniform, ProtectInv
<1>2. QED
  BY <1>1, ProtectAlways, PTL

-----------------------------------------------------------------------------
(* The ELF image.  Each entry read so far is what the fields say, as long  *)
(* as none was refused.                                                    *)

ElfTyped ==
  /\ pc \in {"parse", "ok", "format"}
  /\ dyn \in Seq(ElfInit!Entry)
  /\ self \in [field : [ElfInit!Fields -> {"0", "place", "below", "apk"}],
               is_use_rela : BOOLEAN, is_use_gnu_hash : BOOLEAN,
               table : {"0", "hash", "gnu_hash"}, bloom : {"0", "gnu_hash"}]

\* No field is written by two entries: rel and rela exclude each other.
FieldsLearnt ==
  \A i \in DOMAIN dyn :
    dyn[i].tag \in DOMAIN ElfInit!FieldOf =>
      self.field[ElfInit!FieldOf[dyn[i].tag]] = dyn[i].val

PltrelLearnt ==
  /\ \A i \in DOMAIN dyn :
       dyn[i].tag = "pltrel" =>
         (self.is_use_rela = TRUE <=> dyn[i].val = "rela")
  /\ ~ ElfInit!Has("pltrel") => self.is_use_rela = FALSE

\* DT_GNU_HASH is preferred, whether DT_HASH came before it or after.
TablesLearnt ==
  /\ self.is_use_gnu_hash = TRUE <=> ElfInit!Has("gnu_hash")
  /\ ElfInit!Has("gnu_hash") =>
       self.table = "gnu_hash" /\ self.bloom = "gnu_hash"
  /\ ~ ElfInit!Has("gnu_hash") => self.table # "gnu_hash" /\ self.bloom = "0"

ElfInv ==
  /\ ElfTyped
  /\ pc # "format" => FieldsLearnt /\ PltrelLearnt /\ TablesLearnt
  /\ pc = "ok" => self.table # "0"

LEMMA ElfInitInv ==
  ASSUME ElfInit!Init
  PROVE  ElfInv
<1>1. self = ElfInit!Reset /\ dyn = <<>> /\ pc \in {"parse", "format"}
  BY DEF ElfInit!Init
<1>2. ElfTyped
  BY <1>1 DEF ElfTyped, ElfInit!Reset
<1>3. FieldsLearnt /\ PltrelLearnt /\ TablesLearnt
  BY <1>1 DEF ElfInit!Reset, FieldsLearnt, PltrelLearnt, TablesLearnt,
              ElfInit!Has
<1>4. QED
  BY <1>1, <1>2, <1>3 DEF ElfInv

LEMMA FieldTags ==
  /\ DOMAIN ElfInit!FieldOf =
       {"strtab", "symtab", "jmprel", "rel", "rela", "android"}
  /\ \A t \in DOMAIN ElfInit!FieldOf : ElfInit!FieldOf[t] \in ElfInit!Fields
  /\ \A t, u \in DOMAIN ElfInit!FieldOf :
       ElfInit!FieldOf[t] = ElfInit!FieldOf[u]
         => t = u \/ {t, u} = {"rel", "rela"}
BY DEF ElfInit!FieldOf, ElfInit!Fields

\* What a step does that reads entry e.
LEMMA ReadEntry ==
  ASSUME ElfInv, NEW e \in ElfInit!Entry, ElfInit!Read(e)
  PROVE  /\ pc = "parse"
         /\ dyn' \in Seq(ElfInit!Entry)
         /\ \A i \in DOMAIN dyn' :
              dyn'[i] = e \/ \E j \in DOMAIN dyn : dyn'[i] = dyn[j]
         /\ \A i \in DOMAIN dyn : e.tag = "other" \/ dyn[i].tag # e.tag
         /\ \A t : ElfInit!Has(t)' <=> ElfInit!Has(t) \/ e.tag = t
         /\ e.tag \in {"rel", "rela"} =>
              \A i \in DOMAIN dyn : dyn[i].tag \notin {"rel", "rela"}
<1>1. dyn \in Seq(ElfInit!Entry) /\ dyn' = Append(dyn, e) /\ pc = "parse"
  BY DEF ElfInv, ElfTyped, ElfInit!Read
<1>2. PICK n \in Nat : n = Len(dyn)
  BY <1>1
<1>3. /\ DOMAIN dyn = 1..n /\ DOMAIN dyn' = 1..(n + 1)
      /\ dyn' \in Seq(ElfInit!Entry)
      /\ \A i \in 1..n : dyn'[i] = dyn[i]
      /\ dyn'[n + 1] = e
  BY <1>1, <1>2
<1>4. /\ e.tag = "other" \/ ~ ElfInit!Has(e.tag)
      /\ e.tag = "rel" => ~ ElfInit!Has("rela")
      /\ e.tag = "rela" => ~ ElfInit!Has("rel")
  BY DEF ElfInit!Read
<1>5. ASSUME NEW t PROVE ElfInit!Has(t)' <=> ElfInit!Has(t) \/ e.tag = t
  <2>1. 1..(n + 1) = 1..n \cup {n + 1}
    BY <1>2
  <2>2. QED
    BY <1>3, <2>1 DEF ElfInit!Has
<1>6. \A i \in DOMAIN dyn' :
        dyn'[i] = e \/ \E j \in DOMAIN dyn : dyn'[i] = dyn[j]
  BY <1>2, <1>3
<1>7. QED
  BY <1>1, <1>3, <1>4, <1>5, <1>6 DEF ElfInit!Has

LEMMA PltrelKept ==
  ASSUME ElfInv, NEW e \in ElfInit!Entry, ElfInit!Read(e),
         e.tag # "pltrel", self'.is_use_rela = self.is_use_rela
  PROVE  PltrelLearnt'
<1>1. PltrelLearnt
  BY ReadEntry DEF ElfInv
<1>2. ElfInit!Has("pltrel")' <=> ElfInit!Has("pltrel")
  BY ReadEntry
<1>3. ASSUME NEW i \in DOMAIN dyn', dyn'[i].tag = "pltrel"
      PROVE  self'.is_use_rela = TRUE <=> dyn'[i].val = "rela"
  <2>1. PICK j \in DOMAIN dyn : dyn'[i] = dyn[j]
    BY <1>3, ReadEntry
  <2>2. QED
    BY <1>1, <1>3, <2>1 DEF PltrelLearnt
<1>4. QED
  BY <1>1, <1>2, <1>3 DEF PltrelLearnt

LEMMA TablesKept ==
  ASSUME ElfInv, NEW e \in ElfInit!Entry, ElfInit!Read(e),
         e.tag # "gnu_hash",
         self'.is_use_gnu_hash = self.is_use_gnu_hash,
         self'.table = self.table, self'.bloom = self.bloom
  PROVE  TablesLearnt'
<1>1. TablesLearnt
  BY ReadEntry DEF ElfInv
<1>2. ElfInit!Has("gnu_hash")' <=> ElfInit!Has("gnu_hash")
  BY ReadEntry
<1>3. QED
  BY <1>1, <1>2 DEF TablesLearnt

LEMMA ReadOtherInv ==
  ASSUME ElfInv, NEW e \in ElfInit!Entry,
         ElfInit!ReadNull(e) \/ ElfInit!ReadOther(e)
  PROVE  ElfInv'
<1>1. /\ ElfInit!Read(e) /\ e.tag \in {"null", "other"} /\ self' = self
      /\ pc' = pc
  BY DEF ElfInit!ReadNull, ElfInit!ReadOther
<1>2. e.tag \notin DOMAIN ElfInit!FieldOf
  BY <1>1, FieldTags
<1>3. ElfTyped'
  BY <1>1, ReadEntry DEF ElfInv, ElfTyped
<1>4. FieldsLearnt'
  BY <1>1, <1>2, ReadEntry DEF ElfInv, FieldsLearnt
<1>5. PltrelLearnt' /\ TablesLearnt'
  BY <1>1, PltrelKept, TablesKept
<1>6. QED
  BY <1>1, <1>3, <1>4, <1>5, ReadEntry DEF ElfInv

LEMMA ReadPltrelInv ==
  ASSUME ElfInv, NEW e \in ElfInit!Entry, ElfInit!ReadPltrel(e)
  PROVE  ElfInv'
<1>1. /\ ElfInit!Read(e) /\ e.tag = "pltrel" /\ pc' = pc
      /\ self' = [self EXCEPT !.is_use_rela = (e.val = "rela")]
  BY DEF ElfInit!ReadPltrel
<1>2. /\ self'.field = self.field
      /\ self'.is_use_rela = TRUE <=> e.val = "rela"
      /\ self'.is_use_gnu_hash = self.is_use_gnu_hash
      /\ self'.table = self.table /\ self'.bloom = self.bloom
  BY <1>1 DEF ElfInv, ElfTyped
<1>3. ElfTyped'
  BY <1>1, ReadEntry DEF ElfInv, ElfTyped
<1>4. FieldsLearnt'
  BY <1>1, <1>2, ReadEntry, FieldTags DEF ElfInv, FieldsLearnt
<1>5. PltrelLearnt'
  <2>1. ASSUME NEW i \in DOMAIN dyn', dyn'[i].tag = "pltrel"
        PROVE  dyn'[i] = e
    BY <1>1, <2>1, ReadEntry
  <2>2. ElfInit!Has("pltrel")'
    BY <1>1, ReadEntry
  <2>3. QED
    BY <1>2, <2>1, <2>2 DEF PltrelLearnt
<1>6. TablesLearnt'
  BY <1>1, <1>2, TablesKept
<1>7. QED
  BY <1>1, <1>3, <1>4, <1>5, <1>6, ReadEntry DEF ElfInv

LEMMA ReadFieldInv ==
  ASSUME ElfInv, NEW e \in ElfInit!Entry, ElfInit!ReadField(e)
  PROVE  ElfInv'
<1> DEFINE f == ElfInit!FieldOf[e.tag]
<1>1. /\ ElfInit!Read(e) /\ e.tag \in DOMAIN ElfInit!FieldOf
      /\ self' = [self EXCEPT !.field[f] = e.val]
      /\ pc' = IF e.val = "below" THEN "format" ELSE pc
  BY DEF ElfInit!ReadField
<1>2. f \in ElfInit!Fields /\ e.val \in {"place", "below", "apk"}
  BY <1>1, FieldTags DEF ElfInit!Entry, ElfInit!Pointers
<1>3. /\ self'.field = [self.field EXCEPT ![f] = e.val]
      /\ self'.is_use_rela = self.is_use_rela
      /\ self'.is_use_gnu_hash = self.is_use_gnu_hash
      /\ self'.table = self.table /\ self'.bloom = self.bloom
      /\ self.field \in [ElfInit!Fields -> {"0", "place", "below", "apk"}]
  BY <1>1 DEF ElfInv, ElfTyped
<1>4. ElfTyped'
  <2>1. self' \in [field : [ElfInit!Fields -> {"0", "place", "below", "apk"}],
               is_use_rela : BOOLEAN, is_use_gnu_hash : BOOLEAN,
               table : {"0", "hash", "gnu_hash"}, bloom : {"0", "gnu_hash"}]
    BY <1>1, <1>2 DEF ElfInv, ElfTyped
  <2>2. QED
    BY <1>1, <2>1, ReadEntry DEF ElfInv, ElfTyped
<1>5. ASSUME pc' # "format" PROVE FieldsLearnt'
  <2> SUFFICES ASSUME NEW i \in DOMAIN dyn',
                      dyn'[i].tag \in DOMAIN ElfInit!FieldOf
               PROVE  self'.field[ElfInit!FieldOf[dyn'[i].tag]] = dyn'[i].val
    BY DEF FieldsLearnt
  <2>1. CASE dyn'[i] = e
    BY <1>2, <1>3, <2>1
  <2>2. CASE dyn'[i] # e
    <3>1. PICK j \in DOMAIN dyn : dyn'[i] = dyn[j]
      BY <1>1, <2>2, ReadEntry
    <3>2. /\ dyn[j].tag # e.tag /\ {dyn[j].tag, e.tag} # {"rel", "rela"}
          /\ dyn[j].tag \in DOMAIN ElfInit!FieldOf
      <4>1. dyn[j].tag # e.tag
        BY <1>1, <3>1, ReadEntry, FieldTags
      <4>2. e.tag \in {"rel", "rela"} => dyn[j].tag \notin {"rel", "rela"}
        BY <1>1, ReadEntry
      <4>3. QED
        BY <3>1, <4>1, <4>2
    <3>3. ElfInit!FieldOf[dyn[j].tag] # f
      BY <1>1, <3>2, FieldTags
    <3>4. self.field[ElfInit!FieldOf[dyn[j].tag]] = dyn[j].val
      BY <1>1, <3>2, ReadEntry DEF ElfInv, FieldsLearnt
    <3>5. ElfInit!FieldOf[dyn[j].tag] \in ElfInit!Fields
      BY <3>2, FieldTags
    <3>6. QED
      BY <1>3, <3>1, <3>3, <3>4, <3>5
  <2>3. QED
    BY <2>1, <2>2
<1>6. e.tag \notin {"pltrel", "gnu_hash"}
  BY <1>1, FieldTags
<1>7. PltrelLearnt' /\ TablesLearnt'
  BY <1>1, <1>3, <1>6, PltrelKept, TablesKept
<1>8. QED
  BY <1>1, <1>4, <1>5, <1>7, ReadEntry DEF ElfInv

LEMMA ReadHashInv ==
  ASSUME ElfInv, NEW e \in ElfInit!Entry,
         ElfInit!ReadHash(e) \/ ElfInit!ReadGnuHash(e)
  PROVE  ElfInv'
<1>1. /\ ElfInit!Read(e) /\ e.tag \in {"hash", "gnu_hash"}
      /\ pc' \in {pc, "format"}
  BY DEF ElfInit!ReadHash, ElfInit!ReadGnuHash
<1>2. /\ self'.field = self.field /\ self'.is_use_rela = self.is_use_rela
  BY DEF ElfInit!ReadHash, ElfInit!ReadGnuHash, ElfInv, ElfTyped
<1>3. ElfTyped'
  <2>1. /\ self' = self \/ self' = [self EXCEPT !.table = "hash"]
           \/ self' = [self EXCEPT !.table = "gnu_hash",
                                  !.bloom = "gnu_hash",
                                  !.is_use_gnu_hash = TRUE]
    BY DEF ElfInit!ReadHash, ElfInit!ReadGnuHash
  <2>2. ElfTyped
    BY DEF ElfInv
  <2>3. self' \in [field : [ElfInit!Fields -> {"0", "place", "below", "apk"}],
               is_use_rela : BOOLEAN, is_use_gnu_hash : BOOLEAN,
               table : {"0", "hash", "gnu_hash"}, bloom : {"0", "gnu_hash"}]
    BY <2>1, <2>2 DEF ElfTyped
  <2>4. dyn' \in Seq(ElfInit!Entry) /\ pc' \in {"parse", "ok", "format"}
    BY <1>1, <2>2, ReadEntry DEF ElfTyped
  <2>5. QED
    BY <2>3, <2>4 DEF ElfTyped
<1>4. FieldsLearnt'
  <2>1. e.tag \notin DOMAIN ElfInit!FieldOf
    BY <1>1, FieldTags
  <2>2. QED
    BY <1>1, <1>2, <2>1, ReadEntry DEF ElfInv, FieldsLearnt
<1>5. PltrelLearnt'
  BY <1>1, <1>2, PltrelKept
<1>6. ASSUME pc' # "format" PROVE TablesLearnt'
  <2>0. TablesLearnt /\ ElfTyped
    BY <1>1, ReadEntry DEF ElfInv
  <2>1. CASE e.tag = "hash"
    <3>1. /\ self'.is_use_gnu_hash = self.is_use_gnu_hash
          /\ self'.bloom = self.bloom
          /\ self'.table = IF self.is_use_gnu_hash THEN self.table ELSE "hash"
      BY <1>1, <1>6, <2>0, <2>1, ReadEntry
         DEF ElfInit!ReadHash, ElfInit!ReadGnuHash, ElfTyped
    <3>2. ElfInit!Has("gnu_hash")' <=> ElfInit!Has("gnu_hash")
      BY <1>1, <2>1, ReadEntry
    <3>3. QED
      BY <2>0, <3>1, <3>2 DEF TablesLearnt
  <2>2. CASE e.tag = "gnu_hash"
    <3>1. /\ self'.is_use_gnu_hash = TRUE
          /\ self'.bloom = "gnu_hash" /\ self'.table = "gnu_hash"
      BY <1>1, <1>6, <2>0, <2>2, ReadEntry
         DEF ElfInit!ReadHash, ElfInit!ReadGnuHash, ElfTyped
    <3>2. ElfInit!Has("gnu_hash")'
      BY <1>1, <2>2, ReadEntry
    <3>3. QED
      BY <3>1, <3>2 DEF TablesLearnt
  <2>3. QED
    BY <1>1, <2>1, <2>2
<1>7. QED
  BY <1>1, <1>3, <1>4, <1>5, <1>6, ReadEntry DEF ElfInv

LEMMA FinishInv ==
  ASSUME ElfInv, ElfInit!Finish
  PROVE  ElfInv'
<1>1. /\ pc = "parse" /\ pc' \in {"ok", "format"}
      /\ dyn' = dyn /\ self' = self
      /\ pc' = "ok" => self.table # "0"
  BY DEF ElfInit!Finish, ElfInit!Complete
<1>2. ElfTyped'
  BY <1>1 DEF ElfInv, ElfTyped
<1>3. FieldsLearnt' /\ PltrelLearnt' /\ TablesLearnt'
  BY <1>1 DEF ElfInv, FieldsLearnt, PltrelLearnt, TablesLearnt, ElfInit!Has
<1>4. QED
  BY <1>1, <1>2, <1>3 DEF ElfInv

LEMMA ElfStep ==
  ASSUME ElfInv, ElfInit!Next \/ UNCHANGED <<pc, initVars>>
  PROVE  ElfInv'
<1>1. CASE ElfInit!Next
  BY <1>1, ReadOtherInv, ReadPltrelInv, ReadFieldInv, ReadHashInv, FinishInv
     DEF ElfInit!Next
<1>2. CASE UNCHANGED <<pc, initVars>>
  BY <1>2 DEF initVars, ElfInv, ElfTyped, FieldsLearnt, PltrelLearnt,
              TablesLearnt, ElfInit!Has
<1>3. QED
  BY <1>1, <1>2

LEMMA ElfAlways == Spec => [](part = "init" => ElfInv)
<1>1. Init => (part = "init" => ElfInv)
  BY ElfInitInv, InitOf
<1>2. (part = "init" => ElfInv) /\ [Next]_vars => (part = "init" => ElfInv)'
  BY ElfStep, StepOf
<1>3. QED
  BY <1>1, <1>2, PTL DEF Spec

\* What xh_elf_init (xh_elf.c:862-1046) learns from an image it accepts is the
\* same in whatever order the linker wrote the dynamic section, however long.
THEOREM AlwaysOrderIrrelevant == Spec => []OrderIrrelevant
<1>1. ASSUME ElfInv, pc = "ok"
      PROVE  ElfInit!OrderIrrelevant
  <2>1. FieldsLearnt /\ PltrelLearnt /\ TablesLearnt /\ self.table # "0"
        /\ ElfTyped
    BY <1>1 DEF ElfInv
  <2>2. ASSUME NEW t, ElfInit!Has(t)
        PROVE  \E i \in DOMAIN dyn : dyn[i].tag = t
                                     /\ dyn[i].val = ElfInit!ValueOf(t)
    <3>1. PICK i \in DOMAIN dyn : dyn[i].tag = t
      BY <2>2 DEF ElfInit!Has
    <3>2. QED
      BY <3>1 DEF ElfInit!ValueOf
  <2>3. ASSUME NEW t \in DOMAIN ElfInit!FieldOf, ElfInit!Has(t)
        PROVE  self.field[ElfInit!FieldOf[t]] = ElfInit!ValueOf(t)
    BY <2>1, <2>2, <2>3 DEF FieldsLearnt
  <2>4. self.is_use_rela = (/\ ElfInit!Has("pltrel")
                            /\ ElfInit!ValueOf("pltrel") = "rela")
    <3>1. self.is_use_rela = TRUE <=>
            ElfInit!Has("pltrel") /\ ElfInit!ValueOf("pltrel") = "rela"
      BY <2>1, <2>2 DEF PltrelLearnt
    <3>2. self.is_use_rela \in BOOLEAN
      BY <2>1 DEF ElfTyped
    <3>3. QED
      BY <3>1, <3>2, Zenon
  <2>5. /\ self.table = IF ElfInit!Has("gnu_hash") THEN "gnu_hash" ELSE "hash"
        /\ self.bloom = IF ElfInit!Has("gnu_hash") THEN "gnu_hash" ELSE "0"
    BY <2>1 DEF TablesLearnt, ElfTyped
  <2>6. self.is_use_gnu_hash = ElfInit!Has("gnu_hash")
    <3>1. self.is_use_gnu_hash = TRUE <=> ElfInit!Has("gnu_hash")
      BY <2>1 DEF TablesLearnt
    <3>2. self.is_use_gnu_hash \in BOOLEAN
      BY <2>1 DEF ElfTyped
    <3>3. QED
      BY <3>1, <3>2, Zenon DEF ElfInit!Has
  <2>7. QED
    BY <2>3, <2>4, <2>5, <2>6 DEF ElfInit!OrderIrrelevant
<1>2. (part = "init" => ElfInv) => OrderIrrelevant
  BY <1>1 DEF OrderIrrelevant, ElfInit!OrderIrrelevant
<1>3. QED
  BY <1>2, ElfAlways, PTL

-----------------------------------------------------------------------------
(* Symbol look-up.  The tables stay what the linker wrote; a bucket's      *)
(* symbols are met one after the other, from the last one down in DT_HASH, *)
(* from the first one up in DT_GNU_HASH.                                   *)

LookupTables ==
  /\ symtab \in [Lookup!Indexes -> Names]
  /\ \A i, j \in Lookup!Indexes : symtab[i] = symtab[j] => i = j
  /\ hash \in [Names \cup {Absent} -> Hashes]
  /\ symoffset \in 1..(Lookup!Count + 1)
  /\ bucket_cnt \in BucketCounts
  /\ bloom_sz \in BloomSizes /\ bloom_shift \in BloomShifts
  /\ Lookup!SortedByBucket

\* The instance has its own copies of the standard operators.
LEMMA LookupFinite ==
  ASSUME NEW S
  PROVE  /\ Lookup!IsFiniteSet(S) <=> IsFiniteSet(S)
         /\ Lookup!Cardinality(S) = Cardinality(S)
<1>1. Lookup!IsFiniteSet(S) <=> IsFiniteSet(S)
  BY Zenon DEF Lookup!IsFiniteSet, IsFiniteSet
<1>2. Lookup!Cardinality(S) = Cardinality(S)
  BY Zenon DEF Lookup!Cardinality, Cardinality
<1>3. QED
  BY <1>1, <1>2

LEMMA LookupConstants ==
  /\ Absent \notin Names /\ IsFiniteSet(Names)
  /\ Hashes \subseteq Nat /\ BucketCounts \subseteq Nat \ {0}
  /\ Lookup!Count \in Nat
<1>1. /\ Absent \notin Names /\ IsFiniteSet(Names)
      /\ Hashes \subseteq Nat /\ BucketCounts \subseteq Nat \ {0}
  BY PartsAssumption, LookupFinite DEF Lookup!LookupAssumption
<1>2. Lookup!Count \in Nat
  BY <1>1, LookupFinite, FS_CardinalityType DEF Lookup!Count
<1>3. QED
  BY <1>1, <1>2

\* Every name is in the symbol table.
LEMMA SymtabOnto ==
  ASSUME LookupTables, NEW name \in Names
  PROVE  \E i \in Lookup!Indexes : symtab[i] = name
<1>1. symtab \in Injection(Lookup!Indexes, Names)
  BY Fun_IsInj DEF LookupTables
<1>2. Cardinality(Lookup!Indexes) = Cardinality(Names)
  <2>1. Cardinality(1..Lookup!Count) = Lookup!Count
    BY LookupConstants, FS_Interval
  <2>2. QED
    BY <2>1, LookupFinite DEF Lookup!Indexes, Lookup!Count
<1>3. symtab \in Surjection(Lookup!Indexes, Names)
  BY <1>1, <1>2, LookupConstants, FS_Injection
<1>4. QED
  BY <1>3, Fun_SurjectionProperties

\* The bucket of an index is that of its name; buckets are numbers.
LEMMA Buckets ==
  ASSUME LookupTables
  PROVE  \A i \in Lookup!Indexes :
           /\ Lookup!Bucket(i) = hash[symtab[i]] % bucket_cnt
           /\ Lookup!Bucket(i) \in Nat
<1>1. bucket_cnt \in Nat \ {0}
  BY LookupConstants DEF LookupTables
<1>2. ASSUME NEW i \in Lookup!Indexes PROVE hash[symtab[i]] \in Nat
  BY LookupConstants DEF LookupTables
<1>3. QED
  BY <1>1, <1>2 DEF Lookup!Bucket

LEMMA LastIs ==
  ASSUME NEW S \in SUBSET Lookup!Indexes
  PROVE  /\ S = {} => Lookup!Last(S) = 0
         /\ S # {} => Lookup!Last(S) \in S /\ \A j \in S : j <= Lookup!Last(S)
<1>1. ASSUME S # {} PROVE \E i \in S : \A j \in S : j <= i
  <2>1. S \in SUBSET (0..Lookup!Count)
    BY LookupConstants DEF Lookup!Indexes
  <2>2. QED
    BY <1>1, <2>1, LookupConstants, GreatestNat
<1>2. QED
  BY <1>1 DEF Lookup!Last

\* The walk along a chain that begins in bucket b.
IsWalk(w, b) ==
  w = [k \in 0..Lookup!Count |->
         IF k = 0 THEN Lookup!bucket(b)
         ELSE IF w[k - 1] = 0 THEN 0 ELSE Lookup!chain(w[k - 1])]

Walk(b) == CHOOSE w : IsWalk(w, b)

LEMMA WalkExists ==
  ASSUME NEW b
  PROVE  \E w : IsWalk(w, b)
<1> DEFINE N == Lookup!Count
           F == [k \in 1..N |->
                   [i \in Nat |-> IF i = 0 THEN 0 ELSE Lookup!chain(i)]]
<1>1. N \in Nat /\ \A i \in Lookup!Indexes : i \in Nat
  BY LookupConstants DEF Lookup!Indexes
<1>2. Lookup!bucket(b) \in Nat
  <2> DEFINE S == Lookup!InBucket(b)
  <2>1. S \in SUBSET Lookup!Indexes /\ Lookup!bucket(b) = Lookup!Last(S)
    BY DEF Lookup!InBucket, Lookup!bucket
  <2> HIDE DEF S
  <2>2. Lookup!Last(S) = 0 \/ Lookup!Last(S) \in S
    BY <2>1, LastIs
  <2>3. QED
    BY <1>1, <2>1, <2>2
<1>3. ASSUME NEW i PROVE Lookup!chain(i) \in Nat
  <2> DEFINE S == {j \in Lookup!InBucket(Lookup!Bucket(i)) : j < i}
  <2>1. S \in SUBSET Lookup!Indexes /\ Lookup!chain(i) = Lookup!Last(S)
    BY DEF Lookup!InBucket, Lookup!chain
  <2> HIDE DEF S
  <2>2. Lookup!Last(S) = 0 \/ Lookup!Last(S) \in S
    BY <2>1, LastIs
  <2>3. QED
    BY <1>1, <2>1, <2>2
<1> HIDE DEF N
<1>4. F \in [1..N -> [Nat -> Nat]]
  BY <1>3
<1>5. PICK w : Recurses(w, N, Nat, Lookup!bucket(b), F)
  <2> HIDE DEF F
  <2>1. QED
    BY <1>1, <1>2, <1>4, RecursionSolved
<1>6. ASSUME NEW k \in 0..N
      PROVE  w[k] = IF k = 0 THEN Lookup!bucket(b)
                    ELSE IF w[k - 1] = 0 THEN 0 ELSE Lookup!chain(w[k - 1])
  <2>1. CASE k = 0
    BY <1>5, <2>1 DEF Recurses
  <2>2. CASE k # 0
    <3>1. k \in 1..N /\ w[k - 1] \in Nat /\ w[k] = F[k][w[k - 1]]
      BY <1>1, <1>5, <2>2 DEF Recurses
    <3>2. QED
      BY <2>2, <3>1
  <2>3. QED
    BY <2>1, <2>2
<1>7. IsWalk(w, b)
  <2> HIDE DEF F
  <2>1. w = [k \in 0..N |-> w[k]]
    BY <1>5 DEF Recurses
  <2>2. QED
    BY <1>6, <2>1 DEF IsWalk, N
<1>8. QED
  BY <1>7

\* The walk stays in its bucket and goes down until it ends at 0.
LEMMA WalkFacts ==
  ASSUME LookupTables, NEW b
  PROVE  LET w == Walk(b)
             N == Lookup!Count
         IN  /\ w[0] = Lookup!Last(Lookup!InBucket(b))
             /\ \A k \in 1..N : w[k - 1] # 0 =>
                  w[k] = Lookup!Last({j \in Lookup!InBucket(b) : j < w[k - 1]})
             /\ \A k \in 0..N : /\ w[k] # 0 => w[k] \in Lookup!InBucket(b)
                                /\ w[k] \in Nat
                                /\ w[k] # 0 => w[k] + k <= N
<1> DEFINE w == Walk(b)
           N == Lookup!Count
           B == Lookup!InBucket(b)
<1>0. N \in Nat /\ Lookup!Indexes = 1..N /\ B \subseteq 1..N
  BY LookupConstants DEF Lookup!Indexes, Lookup!InBucket
<1>1. IsWalk(w, b)
  BY WalkExists DEF Walk
<1> HIDE DEF w, N
<1>2. ASSUME NEW k \in 0..N
      PROVE  w[k] = IF k = 0 THEN Lookup!bucket(b)
                    ELSE IF w[k - 1] = 0 THEN 0 ELSE Lookup!chain(w[k - 1])
  BY <1>1 DEF IsWalk, N
<1>3. w[0] = Lookup!Last(B)
  BY <1>0, <1>2 DEF Lookup!bucket
<1>4. ASSUME NEW i \in B
      PROVE  Lookup!chain(i) = Lookup!Last({j \in B : j < i})
  BY <1>4 DEF Lookup!chain, Lookup!InBucket
<1> DEFINE Good(k) == /\ w[k] # 0 => w[k] \in B
                      /\ w[k] \in Nat
                      /\ w[k] # 0 => w[k] + k <= N
           T == {k \in Nat : k <= N => Good(k)}
<1>9. \A v \in B : v \in Nat /\ v # 0 /\ v <= N
  BY <1>0
<1> HIDE DEF B
<1>5. 0 \in T
  <2>1. w[0] = 0 \/ w[0] \in B
    BY <1>0, <1>3, LastIs
  <2>2. w[0] = 0 \/ (w[0] \in Nat /\ w[0] # 0 /\ w[0] <= N)
    BY <1>9, <2>1
  <2>3. Good(0)
    BY <1>0, <2>1, <2>2
  <2>4. QED
    BY <2>3
<1>6. ASSUME NEW n \in T \cap Nat PROVE n + 1 \in T
  <2> SUFFICES ASSUME n + 1 <= N PROVE Good(n + 1)
    OBVIOUS
  <2>1. Good(n) /\ n + 1 \in 0..N /\ n + 1 # 0 /\ (n + 1) - 1 = n
    BY <1>0, <1>6
  <2>2. w[n + 1] = IF w[n] = 0 THEN 0 ELSE Lookup!chain(w[n])
    BY <1>2, <2>1
  <2>3. CASE w[n] = 0
    BY <2>2, <2>3
  <2>4. CASE w[n] # 0
    <3> DEFINE S == {j \in B : j < w[n]}
    <3>1. w[n] \in B /\ w[n + 1] = Lookup!Last(S)
      BY <1>4, <2>1, <2>2, <2>4
    <3>2. S \in SUBSET Lookup!Indexes
      BY <1>0
    <3>3. w[n + 1] = 0 \/ w[n + 1] \in S
      <4> HIDE DEF S
      <4>1. QED
        BY <3>1, <3>2, LastIs
    <3>4. CASE w[n + 1] \in S
      <4>1. w[n + 1] \in B /\ w[n + 1] < w[n] /\ w[n + 1] \in Nat
        BY <1>9, <3>4
      <4>2. w[n] \in Nat /\ w[n] + n <= N
        BY <2>1, <2>4
      <4>3. QED
        BY <1>0, <4>1, <4>2
    <3>5. CASE w[n + 1] = 0
      BY <3>5
    <3>6. QED
      BY <3>3, <3>4, <3>5
  <2>5. QED
    BY <2>3, <2>4
<1>7. \A k \in 0..N : Good(k)
  <2> HIDE DEF T
  <2>1. Nat \subseteq T
    BY <1>5, <1>6, NatSet
  <2> USE DEF T
  <2>2. QED
    BY <1>0, <2>1
<1>8. ASSUME NEW k \in 1..N, w[k - 1] # 0
      PROVE  w[k] = Lookup!Last({j \in B : j < w[k - 1]})
  <2>1. k \in 0..N /\ k - 1 \in 0..N /\ k # 0
    BY <1>0
  <2>2. w[k - 1] \in B
    BY <1>7, <1>8, <2>1
  <2>3. QED
    BY <1>2, <1>4, <1>8, <2>1, <2>2
<1>10. QED
  BY <1>3, <1>7, <1>8 DEF w, N, B

\* Every index of the bucket is met.
LEMMA WalkComplete ==
  ASSUME LookupTables, NEW b, NEW i \in Lookup!InBucket(b)
  PROVE  \E k \in 0..Lookup!Count : Walk(b)[k] = i
<1> DEFINE w == Walk(b)
           N == Lookup!Count
           B == Lookup!InBucket(b)
           T == {k \in 0..N : w[k] < i}
<1>0. N \in Nat /\ Lookup!Indexes = 1..N /\ B \subseteq 1..N /\ i \in 1..N
  BY LookupConstants DEF Lookup!Indexes, Lookup!InBucket
<1>1. /\ w[0] = Lookup!Last(B)
      /\ \A k \in 1..N : w[k - 1] # 0 =>
           w[k] = Lookup!Last({j \in B : j < w[k - 1]})
      /\ \A k \in 0..N : /\ w[k] # 0 => w[k] \in B
                         /\ w[k] \in Nat
                         /\ w[k] # 0 => w[k] + k <= N
  BY WalkFacts
<1> HIDE DEF w, N, B
<1>2. i \in B
  BY DEF B
<1>3. N \in T
  BY <1>0, <1>1
<1>4. PICK k \in T : \A m \in T : k <= m
  <2>1. T \in SUBSET Nat
    BY <1>0
  <2>2. QED
    BY <1>3, <2>1, LeastNat
<1>5. k # 0
  <2>1. i <= w[0]
    BY <1>0, <1>1, <1>2, LastIs
  <2>2. QED
    BY <1>0, <1>1, <1>4, <2>1
<1>6. k - 1 \in 0..N /\ k \in 1..N /\ ~ (w[k - 1] < i)
  BY <1>0, <1>4, <1>5
<1>7. CASE w[k - 1] > i
  <2> DEFINE S == {j \in B : j < w[k - 1]}
  <2>1. i \in S /\ S \in SUBSET Lookup!Indexes
    BY <1>0, <1>2, <1>7
  <2>2. w[k] = Lookup!Last(S)
    BY <1>0, <1>1, <1>6, <1>7
  <2>3. i <= w[k]
    <3> HIDE DEF S
    <3>1. QED
      BY <2>1, <2>2, LastIs
  <2>4. QED
    BY <1>0, <1>1, <1>4, <2>3
<1>8. w[k - 1] \in Nat
  BY <1>1, <1>6
<1>9. QED
  BY <1>0, <1>6, <1>7, <1>8 DEF w, N

\* xh_elf_hash_lookup (xh_elf.c:240-257) finds the symbol that has the name.
LEMMA HashLookupExact ==
  ASSUME LookupTables, NEW name \in Names \cup {Absent}
  PROVE  IF name \in Names
           THEN /\ Lookup!HashLookup(name) \in Lookup!Indexes
                /\ symtab[Lookup!HashLookup(name)] = name
           ELSE Lookup!HashLookup(name) = Lookup!NotFound
<1> DEFINE N == Lookup!Count
           b == hash[name] % bucket_cnt
           w == Walk(b)
           found == {k \in 0..N : w[k] # 0 /\ symtab[w[k]] = name}
<1>0. N \in Nat /\ Lookup!Indexes = 1..N
  BY LookupConstants DEF Lookup!Indexes
<1>1. Lookup!HashLookup(name) =
        IF found = {} THEN Lookup!NotFound
        ELSE w[CHOOSE k \in found : \A m \in found : k <= m]
  BY DEF Lookup!HashLookup, Walk, IsWalk
<1>2. \A k \in 0..N : w[k] # 0 => w[k] \in Lookup!InBucket(b)
  BY WalkFacts
<1>3. ASSUME found # {}
      PROVE  /\ Lookup!HashLookup(name) \in Lookup!Indexes
             /\ symtab[Lookup!HashLookup(name)] = name
  <2> HIDE DEF w, b
  <2>1. found \in SUBSET Nat
    BY <1>0
  <2>2. \E k \in found : \A m \in found : k <= m
    <3> HIDE DEF found
    <3>1. QED
      BY <1>3, <2>1, LeastNat
  <2>3. PICK k \in found : Lookup!HashLookup(name) = w[k]
    <3> HIDE DEF found
    <3>1. QED
      BY <1>1, <1>3, <2>2
  <2>4. QED
    BY <1>2, <2>3 DEF Lookup!InBucket
<1>4. CASE name \in Names
  <2>1. PICK i \in Lookup!Indexes : symtab[i] = name
    BY <1>4, SymtabOnto
  <2>2. i \in Lookup!InBucket(b)
    BY <2>1 DEF Lookup!InBucket, Lookup!Bucket
  <2>3. PICK k \in 0..N : w[k] = i
    <3> HIDE DEF b
    <3>1. QED
      BY <2>2, WalkComplete
  <2>4. k \in found
    <3> HIDE DEF w
    <3>1. QED
      BY <1>0, <2>1, <2>3
  <2>5. QED
    <3> HIDE DEF found
    <3>1. QED
      BY <1>3, <1>4, <2>4
<1>5. CASE name \notin Names
  <2>1. found = {}
    <3> HIDE DEF w, b
    <3>1. ASSUME NEW k \in 0..N, w[k] # 0 PROVE symtab[w[k]] \in Names
      BY <1>2, <3>1 DEF Lookup!InBucket, LookupTables
    <3>2. QED
      BY <1>5, <3>1
  <2>2. QED
    <3> HIDE DEF found
    <3>1. QED
      BY <1>1, <1>5, <2>1
<1>6. QED
  BY <1>4, <1>5

\* The lowest bit of a chain hash marks the end of a bucket, the others are
\* those of the hash.
LEMMA ChainHash ==
  ASSUME LookupTables, NEW i \in Lookup!Indexes
  PROVE  /\ Lookup!gnu_chain(i) \div 2 = hash[symtab[i]] \div 2
         /\ Lookup!gnu_chain(i) % 2 = IF Lookup!EndsBucket(i) THEN 1 ELSE 0
<1>1. hash[symtab[i]] \in Nat
  BY LookupConstants DEF LookupTables
<1>2. ASSUME NEW x \in Nat, NEW e \in {0, 1}
      PROVE  /\ (2 * (x \div 2) + e) \div 2 = x \div 2
             /\ (2 * (x \div 2) + e) % 2 = e
  OBVIOUS
<1>3. QED
  BY <1>1, <1>2 DEF Lookup!gnu_chain

\* The loop over a bucket that begins at i ends, at the first end of a bucket.
LEMMA StopsAtEnd ==
  ASSUME LookupTables, NEW i \in Lookup!Indexes
  PROVE  /\ Lookup!StopsAt(i) \in i..Lookup!Count
         /\ Lookup!EndsBucket(Lookup!StopsAt(i))
<1> DEFINE N == Lookup!Count
           T == {k \in i..N : Lookup!gnu_chain(k) % 2 = 1}
<1>0. N \in Nat /\ Lookup!Indexes = 1..N
  BY LookupConstants DEF Lookup!Indexes
<1>1. N \in T
  BY <1>0, ChainHash DEF Lookup!EndsBucket
<1>2. PICK k \in T : \A m \in T : k <= m
  <2>1. T \in SUBSET Nat
    BY <1>0
  <2> HIDE DEF T
  <2>2. QED
    BY <1>1, <2>1, LeastNat
<1>3. ASSUME NEW m \in i..(k - 1) PROVE Lookup!gnu_chain(m) % 2 = 0
  <2>1. m \in i..N /\ m \notin T /\ m \in Lookup!Indexes
    BY <1>0, <1>2
  <2>2. QED
    BY <2>1, ChainHash
<1>4. /\ Lookup!StopsAt(i) \in i..N
      /\ Lookup!gnu_chain(Lookup!StopsAt(i)) % 2 = 1
  BY <1>2, <1>3 DEF Lookup!StopsAt
<1>5. QED
  BY <1>0, <1>4, ChainHash

LEMMA GnuBucketIs ==
  ASSUME LookupTables, NEW b
  PROVE  LET S == {i \in Lookup!Hashed : Lookup!Bucket(i) = b}
         IN  /\ S = {} => Lookup!gnu_bucket(b) = 0
             /\ S # {} => /\ Lookup!gnu_bucket(b) \in S
                          /\ \A j \in S : Lookup!gnu_bucket(b) <= j
<1> DEFINE S == {i \in Lookup!Hashed : Lookup!Bucket(i) = b}
<1>1. S \in SUBSET Nat
  BY LookupConstants DEF Lookup!Hashed, LookupTables
<1>2. S # {} => \E i \in S : \A j \in S : i <= j
  <2> HIDE DEF S
  <2>1. QED
    BY <1>1, LeastNat
<1>3. QED
  BY <1>2 DEF Lookup!gnu_bucket

\* What LookupDef returns, if anything, is the index of the name; and it finds
\* the names that are hashed.
LEMMA LookupDefExact ==
  ASSUME LookupTables, NEW name \in Names \cup {Absent}
  PROVE  /\ Lookup!LookupDef(name) # Lookup!NotFound =>
              /\ Lookup!LookupDef(name) \in Lookup!Indexes
              /\ symtab[Lookup!LookupDef(name)] = name
         /\ \A i \in Lookup!Hashed :
              symtab[i] = name => Lookup!LookupDef(name) # Lookup!NotFound
<1> DEFINE N == Lookup!Count
           h == hash[name]
           b == h % bucket_cnt
           first == Lookup!gnu_bucket(b)
           found == {i \in first..Lookup!StopsAt(first) :
                       Lookup!Same(h, name, i)}
           none == \/ ~ (Lookup!BitsOf(h) \subseteq Lookup!bloom)
                   \/ first < symoffset \/ found = {}
<1>0. /\ N \in Nat /\ Lookup!Indexes = 1..N /\ symoffset \in 1..(N + 1)
      /\ Lookup!Hashed = symoffset..N /\ Lookup!NotFound = N + 1
  BY LookupConstants DEF Lookup!Indexes, LookupTables, Lookup!Hashed,
                         Lookup!NotFound
<1>1. Lookup!LookupDef(name) =
        IF none THEN Lookup!NotFound
        ELSE CHOOSE i \in found : \A j \in found : i <= j
  BY DEF Lookup!LookupDef
<1>2. /\ first = 0 \/ (first \in Lookup!Hashed /\ Lookup!Bucket(first) = b)
      /\ \A i \in Lookup!Hashed :
           Lookup!Bucket(i) = b => /\ first \in Lookup!Hashed
                                   /\ Lookup!Bucket(first) = b
                                   /\ first <= i
  <2> DEFINE S == {i \in Lookup!Hashed : Lookup!Bucket(i) = b}
  <2>1. /\ S = {} => first = 0
        /\ S # {} => first \in S /\ \A j \in S : first <= j
    BY GnuBucketIs
  <2> HIDE DEF first, b
  <2>2. QED
    BY <2>1
<1> HIDE DEF first, b
<1>3. ASSUME ~ none
      PROVE  /\ Lookup!LookupDef(name) \in Lookup!Indexes
             /\ symtab[Lookup!LookupDef(name)] = name
  <2>1. first \in Lookup!Indexes
    BY <1>0, <1>2, <1>3
  <2>2. Lookup!StopsAt(first) \in first..N
    BY <2>1, StopsAtEnd
  <2>3. found \in SUBSET Lookup!Indexes /\ found # {}
    BY <1>0, <1>3, <2>1, <2>2
  <2>4. \E k \in found : \A m \in found : k <= m
    <3> HIDE DEF found
    <3>1. found \in SUBSET Nat
      BY <1>0, <2>3
    <3>2. QED
      BY <2>3, <3>1, LeastNat
  <2>5. Lookup!LookupDef(name) \in found
    <3> DEFINE least == CHOOSE i \in found : \A j \in found : i <= j
    <3>1. Lookup!LookupDef(name) = least
      <4> HIDE DEF found
      <4>1. QED
        BY <1>1, <1>3
    <3>2. least \in found
      <4> HIDE DEF found
      <4>1. QED
        BY <2>4
    <3>3. QED
      BY <3>1, <3>2
  <2>6. QED
    BY <2>3, <2>5 DEF Lookup!Same
<1>4. ASSUME NEW i \in Lookup!Hashed, symtab[i] = name
      PROVE  ~ none
  <2>1. i \in Lookup!Indexes /\ Lookup!Bucket(i) = b /\ Lookup!Bucket(i) \in Nat
    BY <1>0, <1>4, Buckets DEF b
  <2>2. /\ first \in Lookup!Hashed /\ Lookup!Bucket(first) = b /\ first <= i
        /\ first \in Lookup!Indexes
    BY <1>0, <1>2, <2>1
  <2>3. Lookup!BitsOf(h) \subseteq Lookup!bloom
    BY <1>4 DEF Lookup!bloom
  <2> DEFINE k == Lookup!StopsAt(first)
  <2>4. k \in first..N /\ Lookup!EndsBucket(k)
    BY <2>2, StopsAtEnd
  <2>5. i <= k
    <3> SUFFICES ASSUME k < i PROVE FALSE
      <4> HIDE DEF k
      <4>1. QED
        BY <1>0, <2>1, <2>4
    <3> HIDE DEF k
    <3>1. /\ k \in Lookup!Hashed /\ k + 1 \in Lookup!Hashed /\ k # N
          /\ k \in Lookup!Indexes /\ k + 1 \in Lookup!Indexes
      BY <1>0, <2>2, <2>4
    <3>2. Lookup!Bucket(k + 1) # Lookup!Bucket(k)
      BY <2>4, <3>1 DEF Lookup!EndsBucket
    <3>3. /\ first < k \/ first = k
          /\ k < k + 1
          /\ k + 1 < i \/ k + 1 = i
      BY <1>0, <2>1, <2>2, <2>4, <3>1
    <3>4. \A m, n \in Lookup!Hashed :
            m < n => Lookup!Bucket(m) <= Lookup!Bucket(n)
      BY DEF LookupTables, Lookup!SortedByBucket
    <3>5. /\ b <= Lookup!Bucket(k) /\ Lookup!Bucket(k) <= Lookup!Bucket(k + 1)
          /\ Lookup!Bucket(k + 1) <= b
      BY <1>4, <2>1, <2>2, <3>1, <3>3, <3>4
    <3>6. Lookup!Bucket(k) \in Nat /\ Lookup!Bucket(k + 1) \in Nat
      BY <3>1, Buckets
    <3>7. QED
      BY <2>1, <3>2, <3>5, <3>6
  <2>6. Lookup!Same(h, name, i)
    BY <1>4, <2>1, ChainHash DEF Lookup!Same
  <2>7. i \in found
    <3> HIDE DEF k
    <3>1. i \in first..k
      BY <1>0, <2>2, <2>4, <2>5
    <3> USE DEF k
    <3>2. QED
      BY <2>6, <3>1
  <2>8. ~ (first < symoffset)
    BY <1>0, <2>2
  <2>9. QED
    BY <2>3, <2>7, <2>8
<1>5. none => Lookup!LookupDef(name) = Lookup!NotFound
  BY <1>1
<1>6. ~ none => Lookup!LookupDef(name) # Lookup!NotFound
  <2> HIDE DEF none
  <2>1. QED
    BY <1>0, <1>3
<1>7. QED
  <2> HIDE DEF none
  <2>1. QED
    BY <1>3, <1>4, <1>5, <1>6

\* xh_elf_gnu_hash_lookup (xh_elf.c:259-332) finds the symbol that has the
\* name, hashed or before those that are.
LEMMA GnuHashLookupExact ==
  ASSUME LookupTables, NEW name \in Names \cup {Absent}
  PROVE  IF name \in Names
           THEN /\ Lookup!GnuHashLookup(name) \in Lookup!Indexes
                /\ symtab[Lookup!GnuHashLookup(name)] = name
           ELSE Lookup!GnuHashLookup(name) = Lookup!NotFound
<1> DEFINE N == Lookup!Count
           found == {i \in 1..(symoffset - 1) : symtab[i] = name}
<1>0. /\ N \in Nat /\ Lookup!Indexes = 1..N /\ symoffset \in 1..(N + 1)
      /\ Lookup!Hashed = symoffset..N /\ Lookup!NotFound = N + 1
      /\ symtab \in [Lookup!Indexes -> Names] /\ Absent \notin Names
  BY LookupConstants DEF Lookup!Indexes, LookupTables, Lookup!Hashed,
                         Lookup!NotFound
<1>1. Lookup!LookupUndef(name) =
        IF found = {} THEN Lookup!NotFound
        ELSE CHOOSE i \in found : \A j \in found : i <= j
  BY DEF Lookup!LookupUndef
<1>2. found \in SUBSET Lookup!Indexes /\ found \in SUBSET Nat
  BY <1>0
<1>3. found # {} => /\ Lookup!LookupUndef(name) \in Lookup!Indexes
                    /\ symtab[Lookup!LookupUndef(name)] = name
  <2>1. found # {} => Lookup!LookupUndef(name) \in found
    <3> HIDE DEF found
    <3>1. found # {} => \E i \in found : \A j \in found : i <= j
      BY <1>2, LeastNat
    <3>2. QED
      BY <1>1, <3>1
  <2>2. QED
    BY <1>2, <2>1
<1>4. Lookup!LookupDef(name) # Lookup!NotFound =>
        /\ Lookup!LookupDef(name) \in Lookup!Indexes
        /\ symtab[Lookup!LookupDef(name)] = name
  BY LookupDefExact
<1>5. CASE name \in Names
  <2>1. PICK i \in Lookup!Indexes : symtab[i] = name
    BY <1>5, SymtabOnto
  <2>2. CASE i \in Lookup!Hashed
    <3>1. Lookup!LookupDef(name) # Lookup!NotFound
      BY <2>1, <2>2, LookupDefExact
    <3>2. QED
      BY <1>4, <1>5, <3>1 DEF Lookup!GnuHashLookup
  <2>3. CASE i \notin Lookup!Hashed
    <3>1. i \in found
      BY <1>0, <2>1, <2>3
    <3>2. found # {}
      BY <3>1
    <3>3. QED
      <4> HIDE DEF found
      <4>1. QED
        BY <1>3, <1>4, <1>5, <3>2 DEF Lookup!GnuHashLookup
  <2>4. QED
    BY <2>2, <2>3
<1>6. CASE name \notin Names
  <2>1. found = {}
    BY <1>0, <1>2, <1>6
  <2>2. Lookup!LookupDef(name) = Lookup!NotFound
    BY <1>0, <1>4, <1>6
  <2>3. Lookup!LookupUndef(name) = Lookup!NotFound
    <3> HIDE DEF found
    <3>1. QED
      BY <1>1, <2>1
  <2>4. QED
    BY <1>6, <2>2, <2>3 DEF Lookup!GnuHashLookup
<1>7. QED
  BY <1>5, <1>6

LookupInv == LookupTables /\ Lookup!LookupExact

LEMMA LookupInit ==
  ASSUME Lookup!Init
  PROVE  LookupInv
BY LookupConstants DEF LookupInv, LookupTables, Lookup!Init, Lookup!LookupExact

LEMMA LookupStep ==
  ASSUME LookupInv, Lookup!Next \/ UNCHANGED lookupVars
  PROVE  LookupInv'
<1>1. ASSUME NEW name \in Names \cup {Absent}, Lookup!Find(name)
      PROVE  LookupInv'
  <2>1. /\ symbol' = name /\ symidx' = Lookup!FindSymidx(name)
        /\ symtab' = symtab /\ hash' = hash /\ symoffset' = symoffset
        /\ bucket_cnt' = bucket_cnt /\ bloom_sz' = bloom_sz
        /\ bloom_shift' = bloom_shift
    BY <1>1 DEF Lookup!Find
  <2>2. LookupTables
    BY DEF LookupInv
  <2>3. LookupTables'
    BY <2>1, <2>2 DEF LookupTables, Lookup!SortedByBucket, Lookup!Bucket,
                      Lookup!Hashed
  <2>4. IF name \in Names
          THEN /\ Lookup!FindSymidx(name) \in Lookup!Indexes
               /\ symtab[Lookup!FindSymidx(name)] = name
          ELSE Lookup!FindSymidx(name) = Lookup!NotFound
    BY <2>2, HashLookupExact, GnuHashLookupExact DEF Lookup!FindSymidx
  <2>5. Lookup!LookupExact'
    BY <2>1, <2>4 DEF Lookup!LookupExact
  <2>6. QED
    BY <2>3, <2>5 DEF LookupInv
<1>2. CASE UNCHANGED lookupVars
  BY <1>2 DEF lookupVars, LookupInv, LookupTables, Lookup!SortedByBucket,
              Lookup!Bucket, Lookup!Hashed, Lookup!LookupExact
<1>3. QED
  BY <1>1, <1>2 DEF Lookup!Next

\* Both look-ups find exactly the symbols there are, at their indexes: for any
\* library, any hash functions and any tables the linker may write.
THEOREM AlwaysLookupExact == Spec => []LookupExact
<1>1. Init => (part = "lookup" => LookupInv)
  BY LookupInit, InitOf
<1>2. (part = "lookup" => LookupInv) /\ [Next]_vars
        => (part = "lookup" => LookupInv)'
  BY LookupStep, StepOf
<1>3. (part = "lookup" => LookupInv) => LookupExact
  BY DEF LookupInv, LookupExact
<1>4. QED
  BY <1>1, <1>2, <1>3, PTL DEF Spec

-----------------------------------------------------------------------------
(* The LEB128 decoder.  Powers of two and sums are recursive functions;    *)
(* what is read so far is the sum of the payloads modulo a power of two.   *)

IsPow2(p, n) ==
  /\ p = [k \in 0..n |-> p[k]]
  /\ p[0] = 1
  /\ \A k \in 1..n : p[k] = 2 * p[k - 1]

LEMMA Pow2Begins ==
  ASSUME NEW n \in Nat
  PROVE  \E p : IsPow2(p, n)
<1> DEFINE F == [k \in 1..n |-> [x \in Nat |-> 2 * x]]
<1>1. F \in [1..n -> [Nat -> Nat]]
  OBVIOUS
<1>2. PICK p : Recurses(p, n, Nat, 1, F)
  <2>1. 1 \in Nat
    OBVIOUS
  <2> HIDE DEF F
  <2>2. QED
    BY <1>1, <2>1, RecursionSolved
<1>3. ASSUME NEW k \in 1..n PROVE p[k] = 2 * p[k - 1]
  <2>1. k - 1 \in 0..n
    OBVIOUS
  <2> HIDE DEF F
  <2>2. p[k - 1] \in Nat /\ p[k] = F[k][p[k - 1]]
    BY <1>2, <2>1 DEF Recurses
  <2> USE DEF F
  <2>3. QED
    BY <2>2
<1>4. QED
  <2> HIDE DEF F
  <2>1. p \in [0..n -> Nat] /\ p[0] = 1
    BY <1>2 DEF Recurses
  <2>2. QED
    BY <2>1, <1>3 DEF IsPow2

LEMMA Pow2Agree ==
  ASSUME NEW m \in Nat, NEW n \in Nat, NEW p, NEW q, IsPow2(p, m), IsPow2(q, n)
  PROVE  \A k \in Nat : k <= m /\ k <= n => p[k] = q[k]
<1> DEFINE T == {k \in Nat : k <= m /\ k <= n => p[k] = q[k]}
<1>1. 0 \in T
  BY DEF IsPow2
<1>2. ASSUME NEW k \in T \cap Nat PROVE k + 1 \in T
  <2> SUFFICES ASSUME k + 1 <= m, k + 1 <= n PROVE p[k + 1] = q[k + 1]
    OBVIOUS
  <2>1. /\ p[k] = q[k] /\ k + 1 \in 1..m /\ k + 1 \in 1..n /\ (k + 1) - 1 = k
    OBVIOUS
  <2>2. p[k + 1] = 2 * p[k] /\ q[k + 1] = 2 * q[k]
    BY <2>1 DEF IsPow2
  <2>3. QED
    BY <2>1, <2>2
<1>3. QED
  <2> HIDE DEF T
  <2>1. Nat \subseteq T
    BY <1>1, <1>2, NatSet
  <2> USE DEF T
  <2>2. QED
    BY <2>1

\* The recursion of Pow2 has a solution, so Pow2 is one.
LEMMA Pow2Step ==
  /\ Sleb!Pow2[0] = 1
  /\ \A n \in Nat : Sleb!Pow2[n + 1] = 2 * Sleb!Pow2[n]
<1> DEFINE P(n) == CHOOSE p : IsPow2(p, n)
           f == [n \in Nat |-> P(n)[n]]
           Solves(g) == g = [n \in Nat |-> IF n = 0 THEN 1 ELSE 2 * g[n - 1]]
<1>1. \A n \in Nat : IsPow2(P(n), n)
  BY Pow2Begins
<1> HIDE DEF P
<1>2. ASSUME NEW n \in Nat
      PROVE  f[n] = IF n = 0 THEN 1 ELSE 2 * f[n - 1]
  <2>1. CASE n = 0
    BY <1>1, <2>1 DEF IsPow2
  <2>2. CASE n # 0
    <3>1. n - 1 \in Nat /\ n \in 1..n
      BY <2>2
    <3>2. P(n)[n] = 2 * P(n)[n - 1]
      BY <1>1, <3>1 DEF IsPow2
    <3>3. P(n)[n - 1] = P(n - 1)[n - 1]
      BY <1>1, <3>1, Pow2Agree
    <3>4. QED
      BY <2>2, <3>1, <3>2, <3>3
  <2>3. QED
    BY <2>1, <2>2
<1>3. Solves(f)
  <2>1. f = [n \in Nat |-> f[n]]
    OBVIOUS
  <2> HIDE DEF f
  <2>2. QED
    BY <1>2, <2>1
<1>4. Sleb!Pow2 = CHOOSE g : Solves(g)
  BY DEF Sleb!Pow2
<1>5. Solves(Sleb!Pow2)
  <2> HIDE DEF f, Solves
  <2>1. QED
    BY <1>3, <1>4
<1>6. QED
  <2> DEFINE g == Sleb!Pow2
  <2>1. g = [n \in Nat |-> IF n = 0 THEN 1 ELSE 2 * g[n - 1]]
    BY <1>5
  <2> HIDE DEF g
  <2>2. g[0] = 1
    BY <2>1
  <2>3. ASSUME NEW n \in Nat PROVE g[n + 1] = 2 * g[n]
    <3>1. n + 1 \in Nat /\ n + 1 # 0 /\ (n + 1) - 1 = n
      OBVIOUS
    <3>2. QED
      BY <2>1, <3>1
  <2>4. QED
    BY <2>2, <2>3 DEF g

LEMMA Pow2Positive == \A n \in Nat : Sleb!Pow2[n] \in Nat \ {0}
<1> DEFINE T == {n \in Nat : Sleb!Pow2[n] \in Nat \ {0}}
<1>1. 0 \in T
  BY Pow2Step
<1>2. \A n \in T \cap Nat : n + 1 \in T
  BY Pow2Step
<1>3. QED
  <2> HIDE DEF T
  <2>1. Nat \subseteq T
    BY <1>1, <1>2, NatSet
  <2> USE DEF T
  <2>2. QED
    BY <2>1

LEMMA Pow2Adds ==
  ASSUME NEW m \in Nat
  PROVE  \A n \in Nat : Sleb!Pow2[m + n] = Sleb!Pow2[m] * Sleb!Pow2[n]
<1> DEFINE P(n) == Sleb!Pow2[n]
           T == {n \in Nat : P(m + n) = P(m) * P(n)}
<1>0. /\ \A n \in Nat : P(n) \in Nat /\ P(n + 1) = 2 * P(n)
      /\ P(0) = 1
  BY Pow2Step, Pow2Positive
<1> HIDE DEF P
<1>1. 0 \in T
  BY <1>0
<1>2. ASSUME NEW n \in T \cap Nat PROVE n + 1 \in T
  <2>1. /\ m + (n + 1) = (m + n) + 1 /\ m + n \in Nat
        /\ P(m + n) = P(m) * P(n)
    OBVIOUS
  <2>2. P(m + (n + 1)) = 2 * (P(m) * P(n))
    BY <1>0, <2>1
  <2>3. \A a, b \in Nat : 2 * (a * b) = a * (2 * b)
    OBVIOUS
  <2>4. P(m + (n + 1)) = P(m) * P(n + 1)
    BY <1>0, <2>2, <2>3
  <2>5. QED
    BY <2>4
<1>3. QED
  <2> HIDE DEF T
  <2>1. Nat \subseteq T
    BY <1>1, <1>2, NatSet
  <2> USE DEF T
  <2>2. QED
    BY <2>1 DEF P

-----------------------------------------------------------------------------
(* Remainders.                                                             *)

LEMMA Quotient ==
  ASSUME NEW m \in Nat \ {0}, NEW a \in Int
  PROVE  /\ a \div m \in Int /\ (a % m) \in 0..(m - 1)
         /\ a = m * (a \div m) + (a % m)
OBVIOUS

LEMMA RemainderIs ==
  ASSUME NEW m \in Nat \ {0}, NEW a \in Int, NEW q \in Int,
         NEW r \in 0..(m - 1), a = m * q + r
  PROVE  a % m = r
<1> DEFINE d == a \div m
           s == a % m
<1>1. d \in Int /\ s \in 0..(m - 1) /\ a = m * d + s
  BY Quotient
<1> HIDE DEF d, s
<1>2. m * (q - d) = s - r
  BY <1>1
<1>3. CASE q - d >= 1
  <2>1. m * (q - d) >= m
    BY <1>1, <1>3
  <2>2. QED
    BY <1>1, <1>2, <2>1
<1>4. CASE q - d <= -1
  <2>1. m * (q - d) <= -m
    BY <1>1, <1>4
  <2>2. QED
    BY <1>1, <1>2, <2>1
<1>5. CASE q = d
  BY <1>1, <1>2, <1>5 DEF s
<1>6. QED
  BY <1>1, <1>3, <1>4, <1>5

LEMMA RemainderShift ==
  ASSUME NEW m \in Nat \ {0}, NEW a \in Int, NEW k \in Int
  PROVE  (a + m * k) % m = a % m
<1> DEFINE q == a \div m
           r == a % m
<1>1. q \in Int /\ r \in 0..(m - 1) /\ a = m * q + r
  BY Quotient
<1> HIDE DEF q, r
<1>2. a + m * k = m * (q + k) + r /\ a + m * k \in Int /\ q + k \in Int
  BY <1>1
<1>3. (a + m * k) % m = r
  BY <1>1, <1>2, RemainderIs
<1>4. QED
  BY <1>3 DEF r

LEMMA RemainderAdds ==
  ASSUME NEW m \in Nat \ {0}, NEW a \in Int, NEW b \in Int
  PROVE  /\ ((a % m) + (b % m)) % m = (a + b) % m
         /\ ((a % m) + b) % m = (a + b) % m
<1> DEFINE q == a \div m
           r == a % m
           p == b \div m
           s == b % m
<1>1. /\ q \in Int /\ r \in 0..(m - 1) /\ a = m * q + r
      /\ p \in Int /\ s \in 0..(m - 1) /\ b = m * p + s
  BY Quotient
<1> HIDE DEF q, r, p, s
<1>2. a + b = (r + s) + m * (q + p) /\ a + b = (r + b) + m * q
  BY <1>1
<1>3. (r + s) % m = (a + b) % m
  <2>1. r + s \in Int /\ q + p \in Int
    BY <1>1
  <2>2. QED
    BY <1>2, <2>1, RemainderShift
<1>4. (r + b) % m = (a + b) % m
  <2>1. r + b \in Int /\ q \in Int
    BY <1>1
  <2>2. QED
    BY <1>2, <2>1, RemainderShift
<1>5. QED
  BY <1>3, <1>4 DEF r, s

-----------------------------------------------------------------------------
\* The sums of the payloads.
LEMMA PayloadsStep ==
  ASSUME NEW n \in Nat, buffer \in [1..n -> Sleb!Byte], Len(buffer) = n
  PROVE  /\ \A k \in 0..n : Sleb!Payloads[k] \in Nat
         /\ Sleb!Payloads[0] = 0
         /\ \A k \in 1..n : Sleb!Payloads[k] = Sleb!Payloads[k - 1]
                              + buffer[k].payload * Sleb!Pow2[Bits * (k - 1)]
<1> DEFINE a(k) == buffer[k].payload * Sleb!Pow2[Bits * (k - 1)]
           F == [k \in 1..n |-> [x \in Nat |-> x + a(k)]]
           Solves(g) ==
             g = [k \in 0..n |-> IF k = 0 THEN 0 ELSE g[k - 1] + a(k)]
<1>1. ASSUME NEW k \in 1..n PROVE a(k) \in Nat
  <2>1. buffer[k].payload \in Nat
    <3>1. buffer[k] \in Sleb!Byte
      OBVIOUS
    <3>2. QED
      BY <3>1, Pow2Positive, PartsAssumption DEF Sleb!Byte, Sleb!SlebAssumption
  <2>2. Bits * (k - 1) \in Nat
    BY PartsAssumption DEF Sleb!SlebAssumption
  <2>3. QED
    BY <2>1, <2>2, Pow2Positive
<1>2. Sleb!Payloads = CHOOSE g : Solves(g)
  BY DEF Sleb!Payloads
<1> HIDE DEF a
<1>3. PICK f : Recurses(f, n, Nat, 0, F)
  <2>1. 0 \in Nat /\ F \in [1..n -> [Nat -> Nat]]
    BY <1>1
  <2> HIDE DEF F
  <2>2. QED
    BY <2>1, RecursionSolved
<1>4. f \in [0..n -> Nat] /\ f[0] = 0
  BY <1>3 DEF Recurses
<1>5. ASSUME NEW k \in 1..n PROVE f[k] = f[k - 1] + a(k)
  <2>1. k - 1 \in 0..n
    OBVIOUS
  <2> HIDE DEF F
  <2>2. f[k - 1] \in Nat /\ f[k] = F[k][f[k - 1]]
    BY <1>3, <2>1 DEF Recurses
  <2> USE DEF F
  <2>3. QED
    BY <2>2
<1>6. Solves(f)
  BY <1>4, <1>5
<1>7. Solves(Sleb!Payloads)
  <2> HIDE DEF Solves
  <2>1. QED
    BY <1>2, <1>6
<1> DEFINE g == Sleb!Payloads
<1>8. g = [k \in 0..n |-> IF k = 0 THEN 0 ELSE g[k - 1] + a(k)]
  BY <1>7
<1> HIDE DEF g
<1>9. /\ g[0] = 0
      /\ \A k \in 1..n : g[k] = g[k - 1] + a(k)
  BY <1>8
<1>10. \A k \in 0..n : g[k] \in Nat
  <2> DEFINE T == {k \in 0..n : g[k] \in Nat}
  <2>1. 0 \in T
    BY <1>9
  <2>2. ASSUME NEW k \in T \cap Nat, k < n PROVE k + 1 \in T
    <3>1. k + 1 \in 1..n /\ (k + 1) - 1 = k /\ g[k] \in Nat
      BY <2>2
    <3>2. g[k + 1] = g[k] + a(k + 1)
      BY <1>9, <3>1
    <3>3. QED
      BY <1>1, <3>1, <3>2
  <2>3. \A k \in 0..n : k \in T
    <3> HIDE DEF T
    <3>1. QED
      BY <2>1, <2>2, UpTo
  <2>4. QED
    BY <2>3
<1>11. QED
  BY <1>9, <1>10 DEF g, a

\* A byte that still reaches into the word adds its payload.
LEMMA ReadAdds ==
  ASSUME NEW n \in Nat, buffer \in [1..n -> Sleb!Byte], Len(buffer) = n,
         cur \in 0..(n - 1), shift = Bits * cur, shift < Width,
         value = Sleb!Payloads[cur] % Sleb!Pow2[Width],
         NEW v \in Sleb!Shifted(Sleb!Current.payload, shift)
  PROVE  Sleb!Or(v) = Sleb!Payloads[cur + 1] % Sleb!Pow2[Width]
<1> DEFINE M == Sleb!Pow2[Width]
           x == buffer[cur + 1].payload * Sleb!Pow2[Bits * cur]
<1>1. v = x % M
  BY DEF Sleb!Shifted, Sleb!Current
<1>2. /\ cur + 1 \in 1..n /\ (cur + 1) - 1 = cur /\ cur \in 0..n
      /\ cur + 1 \in 0..n
  OBVIOUS
<1>3. /\ Sleb!Payloads[cur] \in Nat /\ Sleb!Payloads[cur + 1] \in Nat
      /\ Sleb!Payloads[cur + 1] = Sleb!Payloads[cur] + x
  BY <1>2, PayloadsStep
<1>4. x \in Int
  <2>1. buffer[cur + 1] \in Sleb!Byte
    BY <1>2
  <2>2. buffer[cur + 1].payload \in Int
    BY <2>1, Pow2Positive, PartsAssumption DEF Sleb!Byte, Sleb!SlebAssumption
  <2>3. Bits * cur \in Nat
    BY PartsAssumption DEF Sleb!SlebAssumption
  <2>4. QED
    BY <2>2, <2>3, Pow2Positive
<1>5. M \in Nat \ {0}
  BY Pow2Positive, PartsAssumption DEF Sleb!SlebAssumption
<1>6. Sleb!Or(v) = (value + v) % M
  BY DEF Sleb!Or
<1> HIDE DEF M, x
<1>7. QED
  <2> DEFINE a == Sleb!Payloads[cur]
  <2>1. a \in Int /\ value = a % M /\ Sleb!Payloads[cur + 1] = a + x
    BY <1>3 DEF M
  <2> HIDE DEF a
  <2>2. ((a % M) + (x % M)) % M = (a + x) % M
    BY <1>4, <1>5, <2>1, RemainderAdds
  <2>3. QED
    BY <1>1, <1>6, <2>1, <2>2 DEF M

\* The last byte's sign, whether it reaches the end of the word or not.
LEMMA SignAdds ==
  ASSUME NEW n \in Nat, buffer \in [1..n -> Sleb!Byte], Len(buffer) = n,
         cur \in 0..(n - 1), shift = Bits * cur, shift < Width,
         value = Sleb!Payloads[cur] % Sleb!Pow2[Width],
         NEW v \in Sleb!Shifted(Sleb!Current.payload, shift),
         NEW w, w = IF Sleb!Extended(shift + Bits)
                      THEN (Sleb!Or(v) - Sleb!Pow2[shift + Bits])
                             % Sleb!Pow2[Width]
                      ELSE Sleb!Or(v)
  PROVE  w = Sleb!Signed(cur + 1) % Sleb!Pow2[Width]
<1> DEFINE M == Sleb!Pow2[Width]
           a == Sleb!Payloads[cur + 1]
           s == Bits * (cur + 1)
           p == Sleb!Pow2[s]
<1>1. Sleb!Or(v) = a % M
  BY ReadAdds
<1>2. shift + Bits = s /\ s \in Nat /\ Width \in Nat
  BY PartsAssumption DEF Sleb!SlebAssumption
<1>3. a \in Int /\ p \in Nat
  <2>1. cur + 1 \in 0..n
    OBVIOUS
  <2>2. QED
    BY <1>2, <2>1, PayloadsStep, Pow2Positive
<1>4. M \in Nat \ {0}
  BY <1>2, Pow2Positive
<1>5. Sleb!Signed(cur + 1) = IF Sleb!Negative THEN a - p ELSE a
  BY DEF Sleb!Signed, Sleb!Negative, Sleb!Current
<1>6. Sleb!Extended(shift + Bits) <=> Sleb!Negative /\ s < Width
  BY <1>2 DEF Sleb!Extended
<1>7. w = IF Sleb!Extended(shift + Bits) THEN (Sleb!Or(v) - p) % M
          ELSE Sleb!Or(v)
  BY <1>2
<1>8. s >= Width => \E k \in Int : p = M * k
  <2> HAVE s >= Width
  <2>1. s - Width \in Nat /\ s = Width + (s - Width)
    BY <1>2
  <2>2. p = M * Sleb!Pow2[s - Width]
    BY <1>2, <2>1, Pow2Adds
  <2>3. QED
    BY <2>1, <2>2, Pow2Positive
<1> HIDE DEF M, a, s, p
<1>9. CASE ~ Sleb!Negative
  BY <1>1, <1>5, <1>6, <1>7, <1>9 DEF M
<1>10. CASE Sleb!Negative /\ s < Width
  <2>1. w = ((a % M) - p) % M
    BY <1>1, <1>6, <1>7, <1>10
  <2>2. -p \in Int /\ (a % M) - p = (a % M) + (-p) /\ a - p = a + (-p)
    BY <1>3, <1>4
  <2>3. ((a % M) + (-p)) % M = (a + (-p)) % M
    BY <1>3, <1>4, <2>2, RemainderAdds
  <2>4. QED
    BY <1>5, <1>10, <2>1, <2>2, <2>3 DEF M
<1>11. CASE Sleb!Negative /\ ~ (s < Width)
  <2>1. w = a % M
    BY <1>1, <1>6, <1>7, <1>11
  <2>2. PICK k \in Int : p = M * k
    BY <1>2, <1>8, <1>11
  <2>3. -k \in Int /\ a - p = a + M * (-k)
    BY <1>3, <1>4, <2>2
  <2>4. (a + M * (-k)) % M = a % M
    BY <1>3, <1>4, <2>3, RemainderShift
  <2>5. QED
    BY <1>5, <1>11, <2>1, <2>3, <2>4 DEF M
<1>12. QED
  BY <1>9, <1>10, <1>11

\* The bytes read all announce another, and as long as the last of them
\* reached into the word, the value is what they add up to.
SlebInv ==
  /\ Len(buffer) \in Nat
  /\ buffer \in [1..Len(buffer) -> Sleb!Byte]
  /\ cur \in 0..Len(buffer)
  /\ shift = Bits * cur
  /\ pc \in {"read", "ok", "format"}
  /\ pc = "read" =>
       /\ \A i \in 1..cur : buffer[i].more = TRUE
       /\ (cur = 0 \/ Bits * (cur - 1) < Width) =>
            value = Sleb!Payloads[cur] % Sleb!Pow2[Width]
  /\ Sleb!DecodesExactly

LEMMA SlebInit == Sleb!Init => SlebInv
<1> SUFFICES ASSUME Sleb!Init PROVE SlebInv
  OBVIOUS
<1>1. pc = "read" /\ cur = 0 /\ value = 0 /\ shift = 0
  BY DEF Sleb!Init
<1>2. PICK n \in 0..MaxBytes : buffer \in [1..n -> Sleb!Byte]
  BY DEF Sleb!Init
<1>3. n \in Nat /\ Len(buffer) = n
  BY <1>2, PartsAssumption DEF Sleb!SlebAssumption
<1>4. Bits * cur = 0
  BY <1>1, PartsAssumption DEF Sleb!SlebAssumption
<1>5. value = Sleb!Payloads[cur] % Sleb!Pow2[Width]
  <2>1. Sleb!Payloads[cur] = 0
    BY <1>1, <1>2, <1>3, PayloadsStep
  <2>2. Sleb!Pow2[Width] \in Nat \ {0}
    BY Pow2Positive, PartsAssumption DEF Sleb!SlebAssumption
  <2>3. QED
    BY <1>1, <2>1, <2>2
<1>6. QED
  BY <1>1, <1>2, <1>3, <1>4, <1>5 DEF SlebInv, Sleb!DecodesExactly

LEMMA ReachedInto ==
  ASSUME NEW k \in Nat, Bits * k < Width
  PROVE  k = 0 \/ Bits * (k - 1) < Width
<1>1. Bits \in Nat /\ Width \in Nat /\ Bits * (k - 1) = Bits * k - Bits
  BY PartsAssumption DEF Sleb!SlebAssumption
<1>2. Bits * k \in Nat
  BY <1>1
<1>3. QED
  BY <1>1, <1>2

LEMMA SlebStep ==
  ASSUME SlebInv, Sleb!Next \/ UNCHANGED <<pc, sleb128Vars>>
  PROVE  SlebInv'
<1> DEFINE n == Len(buffer)
<1>1. /\ n \in Nat /\ buffer \in [1..n -> Sleb!Byte] /\ Len(buffer) = n
      /\ cur \in 0..n /\ shift = Bits * cur
      /\ pc = "read" /\ (cur = 0 \/ Bits * (cur - 1) < Width) =>
           value = Sleb!Payloads[cur] % Sleb!Pow2[Width]
  BY DEF SlebInv
<1>2. Bits \in Nat /\ Width \in Nat
  BY PartsAssumption DEF Sleb!SlebAssumption
<1>3. ASSUME buffer' = buffer
      PROVE  /\ n' = n
             /\ \A k : Sleb!Payloads'[k] = Sleb!Payloads[k]
             /\ \A k : Sleb!Signed(k)' = Sleb!Signed(k)
  BY <1>3 DEF Sleb!Payloads, Sleb!Signed
<1>4. CASE Sleb!ReadByte
  <2>1. /\ pc = "read" /\ pc' = "read" /\ buffer' = buffer
        /\ cur' = cur + 1 /\ cur < n /\ shift' = shift + Bits
    BY <1>4 DEF Sleb!ReadByte
  <2>2. cur \in 0..(n - 1) /\ cur' \in 0..n /\ shift' = Bits * cur'
    BY <1>1, <1>2, <2>1
  <2>3. \A i \in 1..cur' : buffer[i].more = TRUE
    <3>1. \A i \in 1..cur : buffer[i].more = TRUE
      BY <2>1 DEF SlebInv
    <3>2. buffer[cur + 1].more = TRUE
      <4>1. buffer[cur + 1].more
        BY <1>4, Zenon DEF Sleb!ReadByte, Sleb!Current
      <4>2. buffer[cur + 1].more \in BOOLEAN
        <5>1. buffer[cur + 1] \in Sleb!Byte
          BY <1>1, <2>2, SMTT(30)
        <5>2. QED
          BY <5>1 DEF Sleb!Byte
      <4>3. QED
        BY <4>1, <4>2, Zenon
    <3>3. \A i \in 1..cur' : i \in 1..cur \/ i = cur + 1
      BY <2>1, <2>2
    <3>4. QED
      BY <3>1, <3>2, <3>3
  <2>4. ASSUME Bits * cur < Width
        PROVE  value' = Sleb!Payloads[cur'] % Sleb!Pow2[Width]
    <3>1. value = Sleb!Payloads[cur] % Sleb!Pow2[Width]
      BY <1>1, <2>1, <2>4, ReachedInto
    <3>2. PICK v \in Sleb!Shifted(Sleb!Current.payload, shift) :
            value' = Sleb!Or(v)
      BY <1>4 DEF Sleb!ReadByte
    <3>3. QED
      BY <1>1, <2>1, <2>2, <2>4, <3>1, <3>2, ReadAdds
  <2>5. cur' # 0 /\ cur' - 1 = cur
    BY <1>1, <2>1
  <2> HIDE DEF n
  <2>6. QED
    BY <1>1, <1>3, <2>1, <2>2, <2>3, <2>4, <2>5
       DEF SlebInv, Sleb!DecodesExactly, n
<1>5. CASE Sleb!ReadLast
  <2>1. /\ pc = "read" /\ pc' = "ok" /\ buffer' = buffer
        /\ cur' = cur + 1 /\ cur < n /\ shift' = shift + Bits
    BY <1>5 DEF Sleb!ReadLast
  <2>2. cur \in 0..(n - 1) /\ cur' \in 0..n /\ shift' = Bits * cur'
    BY <1>1, <1>2, <2>1, SMTT(30)
  <2>3. ASSUME Bits * cur < Width
        PROVE  value' = Sleb!Signed(cur') % Sleb!Pow2[Width]
    <3>1. value = Sleb!Payloads[cur] % Sleb!Pow2[Width]
      BY <1>1, <2>1, <2>3, ReachedInto
    <3>2. PICK v \in Sleb!Shifted(Sleb!Current.payload, shift) :
            value' = IF Sleb!Extended(shift + Bits)
                       THEN (Sleb!Or(v) - Sleb!Pow2[shift + Bits])
                              % Sleb!Pow2[Width]
                       ELSE Sleb!Or(v)
      BY <1>5 DEF Sleb!ReadLast
    <3>3. QED
      BY <1>1, <2>1, <2>2, <2>3, <3>1, <3>2, SignAdds
  <2>4. cur' - 1 = cur
    BY <1>1, <2>1
  <2> HIDE DEF n
  <2>5. QED
    BY <1>1, <1>3, <2>1, <2>2, <2>3, <2>4
       DEF SlebInv, Sleb!DecodesExactly, n
<1>6. CASE Sleb!OutOfBytes
  <2>1. /\ pc = "read" /\ pc' = "format"
        /\ UNCHANGED <<buffer, cur, value, shift>>
    BY <1>6 DEF Sleb!OutOfBytes
  <2>2. cur = n /\ \A i \in 1..cur : buffer[i].more = TRUE
    BY <1>6, <2>1 DEF Sleb!OutOfBytes, SlebInv
  <2>3. \A i \in DOMAIN buffer : buffer[i].more
    <3>1. \A i \in DOMAIN buffer : buffer[i].more = TRUE
      BY <1>1, <2>2
    <3>2. QED
      BY <3>1, Zenon
  <2>4. Sleb!DecodesExactly'
    BY <2>1, <2>3, Zenon DEF Sleb!DecodesExactly
  <2> HIDE DEF n
  <2>5. QED
    BY <1>1, <2>1, <2>4 DEF SlebInv, n
<1>7. CASE UNCHANGED <<pc, sleb128Vars>>
  <2>1. UNCHANGED <<pc, buffer, cur, value, shift>>
    BY <1>7 DEF sleb128Vars
  <2>2. Sleb!Payloads' = Sleb!Payloads /\ Sleb!DecodesExactly'
    BY <2>1, Zenon DEF Sleb!Payloads, SlebInv, Sleb!DecodesExactly,
                        Sleb!Signed
  <2>3. QED
    BY <2>1, <2>2 DEF SlebInv
<1>8. QED
  BY <1>4, <1>5, <1>6, <1>7 DEF Sleb!Next

\* xh_elf_sleb128_decoder_next: whatever the width of a word, the bits of a
\* byte and the length of the buffer, a number whose last byte reaches into
\* the word is decoded to its two's complement, and a buffer that ends before
\* the number is refused.
THEOREM AlwaysDecodesExactly == Spec => []DecodesExactly
<1> DEFINE Inv == part = "sleb128" => SlebInv
<1>1. Init => Inv
  BY InitOf, SlebInit
<1>2. Inv /\ [Next]_vars => Inv'
  BY StepOf, SlebStep
<1>3. Inv => DecodesExactly
  BY DEF SlebInv, DecodesExactly
<1>4. QED
  BY <1>1, <1>2, <1>3, PTL DEF Spec

-----------------------------------------------------------------------------
(* Sequences of sequences.  The elements of the k-th one lie, in the       *)
(* flattened sequence, behind pos[k - 1] others.                           *)

Places(pos, ss, n) ==
  /\ pos \in [0..n -> Nat] /\ pos[0] = 0
  /\ \A k \in 1..n : pos[k] = pos[k - 1] + Len(ss[k])

Flattened(flat, pos, ss, n) ==
  /\ Len(flat) = pos[n]
  /\ \A k \in 1..n : \A i \in 1..Len(ss[k]) : flat[pos[k - 1] + i] = ss[k][i]

LEMMA PlacesExist ==
  ASSUME NEW n \in Nat, NEW ss, \A k \in 1..n : Len(ss[k]) \in Nat
  PROVE  \E pos : Places(pos, ss, n)
<1> DEFINE F == [k \in 1..n |-> [x \in Nat |-> x + Len(ss[k])]]
<1>1. PICK p : Recurses(p, n, Nat, 0, F)
  <2>1. 0 \in Nat /\ F \in [1..n -> [Nat -> Nat]]
    OBVIOUS
  <2> HIDE DEF F
  <2>2. QED
    BY <2>1, RecursionSolved
<1>2. ASSUME NEW k \in 1..n PROVE p[k] = p[k - 1] + Len(ss[k])
  <2>1. k - 1 \in 0..n
    OBVIOUS
  <2> HIDE DEF F
  <2>2. p[k - 1] \in Nat /\ p[k] = F[k][p[k - 1]]
    BY <1>1, <2>1 DEF Recurses
  <2> USE DEF F
  <2>3. QED
    BY <2>2
<1>3. p \in [0..n -> Nat] /\ p[0] = 0
  BY <1>1 DEF Recurses
<1>4. QED
  BY <1>2, <1>3 DEF Places

LEMMA PlacesGrow ==
  ASSUME NEW n \in Nat, NEW ss, NEW pos, Places(pos, ss, n),
         \A k \in 1..n : Len(ss[k]) \in Nat
  PROVE  \A k \in 0..n : \A j \in 0..k : pos[j] <= pos[k]
<1> DEFINE T == {k \in 0..n : \A j \in 0..k : pos[j] <= pos[k]}
<1>0. /\ pos \in [0..n -> Nat] /\ pos[0] = 0
      /\ \A k \in 1..n : pos[k] = pos[k - 1] + Len(ss[k])
  BY DEF Places
<1>1. 0 \in T
  BY <1>0
<1>2. ASSUME NEW k \in T \cap Nat, k < n PROVE k + 1 \in T
  <2>1. k + 1 \in 1..n /\ (k + 1) - 1 = k
    BY <1>2
  <2>2. pos[k + 1] = pos[k] + Len(ss[k + 1]) /\ Len(ss[k + 1]) \in Nat
    BY <1>0, <2>1
  <2>3. ASSUME NEW j \in 0..(k + 1) PROVE pos[j] <= pos[k + 1]
    <3>1. CASE j = k + 1
      BY <1>0, <2>1, <3>1
    <3>2. CASE j \in 0..k
      <4>1. pos[j] <= pos[k] /\ pos[j] \in Nat /\ pos[k] \in Nat
        BY <1>0, <1>2, <3>2
      <4>2. QED
        BY <2>2, <4>1
    <3>3. QED
      BY <3>1, <3>2
  <2>4. QED
    BY <2>1, <2>3
<1>3. \A k \in 0..n : k \in T
  <2> HIDE DEF T
  <2>1. QED
    BY <1>1, <1>2, UpTo
<1>4. QED
  BY <1>3

LEMMA FlattenPlaces ==
  ASSUME NEW S, NEW n \in Nat, NEW ss \in [1..n -> Seq(S)],
         NEW pos, Places(pos, ss, n)
  PROVE  /\ Packed!FlattenSeq(ss) \in Seq(S)
         /\ Flattened(Packed!FlattenSeq(ss), pos, ss, n)
<1> DEFINE Flat == Packed!FlattenSeq(ss)
<1>0. /\ pos \in [0..n -> Nat] /\ pos[0] = 0
      /\ \A k \in 1..n : pos[k] = pos[k - 1] + Len(ss[k])
      /\ Len(ss) = n
      /\ \A k \in 1..n : ss[k] \in Seq(S) /\ Len(ss[k]) \in Nat
  BY DEF Places
<1>1. CASE n = 0
  <2>1. ss = <<>> /\ ss \in Seq(S) /\ Len(ss) = 0
    BY <1>1
  <2>2. Flat = ss
    BY <1>0, <1>1 DEF Packed!FlattenSeq
  <2>3. QED
    BY <1>0, <1>1, <2>1, <2>2 DEF Flattened
<1>2. CASE n # 0
  <2> DEFINE Solves(g) ==
        g = [i \in 1..n |-> IF i = 1 THEN ss[i] ELSE g[i - 1] \o ss[i]]
      F == [k \in 1..n |-> [x \in Seq(S) |-> x \o ss[k]]]
  <2>1. PICK f : Recurses(f, n, Seq(S), <<>>, F)
    <3>1. <<>> \in Seq(S) /\ F \in [1..n -> [Seq(S) -> Seq(S)]]
      BY <1>0
    <3> HIDE DEF F
    <3>2. QED
      BY <3>1, RecursionSolved
  <2>2. ASSUME NEW k \in 1..n
        PROVE  /\ f[k - 1] \in Seq(S) /\ f[k] = f[k - 1] \o ss[k]
    <3>1. k - 1 \in 0..n
      OBVIOUS
    <3> HIDE DEF F
    <3>2. f[k - 1] \in Seq(S) /\ f[k] = F[k][f[k - 1]]
      BY <2>1, <3>1 DEF Recurses
    <3> USE DEF F
    <3>3. QED
      BY <3>2
  <2>3. f[0] = <<>>
    BY <2>1 DEF Recurses
  <2> HIDE DEF F
  <2> DEFINE h == [i \in 1..n |-> f[i]]
  <2>4. Solves(h)
    <3>1. ASSUME NEW i \in 1..n
          PROVE  h[i] = IF i = 1 THEN ss[i] ELSE h[i - 1] \o ss[i]
      <4>1. CASE i = 1
        <5>0. i - 1 = 0
          BY <4>1
        <5>1. f[i] = <<>> \o ss[i] /\ ss[i] \in Seq(S)
          BY <1>0, <2>2, <2>3, <5>0
        <5>2. <<>> \o ss[i] = ss[i]
          BY <5>1
        <5>3. QED
          BY <4>1, <5>1, <5>2
      <4>2. CASE i # 1
        <5>1. i - 1 \in 1..n
          BY <4>2
        <5>2. QED
          BY <2>2, <4>2, <5>1
      <4>3. QED
        BY <4>1, <4>2
    <3>2. QED
      BY <3>1
  <2>5. Flat = (CHOOSE q : Solves(q))[n]
    BY <1>0, <1>2 DEF Packed!FlattenSeq
  <2> DEFINE g == CHOOSE q : Solves(q)
  <2>6. Solves(g)
    <3> HIDE DEF h, Solves
    <3>1. QED
      BY <2>4
  <2> HIDE DEF g
  <2>7. /\ g[1] = ss[1]
        /\ \A k \in 1..n : k # 1 => g[k] = g[k - 1] \o ss[k]
    <3>1. g = [i \in 1..n |-> IF i = 1 THEN ss[i] ELSE g[i - 1] \o ss[i]]
      BY <2>6
    <3> HIDE DEF Solves
    <3>2. 1 \in 1..n
      BY <1>2
    <3>3. QED
      BY <3>1, <3>2
  <2> HIDE DEF Solves
  <2> DEFINE Good(k) ==
        /\ g[k] \in Seq(S) /\ Len(g[k]) = pos[k]
        /\ \A j \in 1..k : \A i \in 1..Len(ss[j]) :
             g[k][pos[j - 1] + i] = ss[j][i]
      T == {k \in 0..n : k = 0 \/ Good(k)}
  <2>8. 0 \in T
    OBVIOUS
  <2>9. ASSUME NEW k \in T \cap Nat, k < n PROVE k + 1 \in T
    <3>1. k + 1 \in 1..n /\ (k + 1) - 1 = k /\ k \in 0..n
      BY <2>9
    <3>2. /\ ss[k + 1] \in Seq(S) /\ Len(ss[k + 1]) \in Nat /\ pos[k] \in Nat
          /\ pos[k + 1] = pos[k] + Len(ss[k + 1])
      BY <1>0, <3>1
    <3>3. CASE k = 0
      <4>1. g[1] = ss[1] /\ pos[1] = Len(ss[1]) /\ pos[0] = 0
        BY <1>0, <2>7, <3>2, <3>3
      <4>2. \A j \in 1..1 : j = 1
        OBVIOUS
      <4>3. Good(1)
        BY <3>2, <3>3, <4>1, <4>2
      <4>4. QED
        BY <3>1, <3>3, <4>3
    <3>4. CASE k # 0
      <4>1. /\ g[k] \in Seq(S) /\ Len(g[k]) = pos[k]
            /\ \A j \in 1..k : \A i \in 1..Len(ss[j]) :
                 g[k][pos[j - 1] + i] = ss[j][i]
        BY <3>4
      <4>2. g[k + 1] = g[k] \o ss[k + 1]
        <5>1. k + 1 # 1
          BY <3>1, <3>4
        <5>2. QED
          BY <2>7, <3>1, <5>1
      <4>3. /\ g[k + 1] \in Seq(S) /\ Len(g[k + 1]) = pos[k + 1]
            /\ \A i \in 1..pos[k] : g[k + 1][i] = g[k][i]
            /\ \A i \in 1..Len(ss[k + 1]) : g[k + 1][pos[k] + i] = ss[k + 1][i]
        <5>1. ss[k + 1] \in Seq(S) /\ g[k] \in Seq(S) /\ pos[k] = Len(g[k])
          BY <3>2, <4>1
        <5>2. PICK a, b, c : a = g[k] /\ b = ss[k + 1] /\ c = g[k + 1]
          OBVIOUS
        <5>3. a \in Seq(S) /\ b \in Seq(S) /\ c = a \o b
          BY <4>2, <5>1, <5>2
        <5>4. c \in Seq(S) /\ Len(c) = Len(a) + Len(b)
          BY <5>3
        <5>5. ASSUME NEW i \in 1..Len(a) PROVE c[i] = a[i]
          BY <5>3
        <5>6. ASSUME NEW i \in 1..Len(b) PROVE c[Len(a) + i] = b[i]
          BY <5>3
        <5>7. QED
          BY <3>2, <5>1, <5>2, <5>4, <5>5, <5>6
      <4>4. ASSUME NEW j \in 1..(k + 1), NEW i \in 1..Len(ss[j])
            PROVE  g[k + 1][pos[j - 1] + i] = ss[j][i]
        <5>1. CASE j = k + 1
          BY <3>1, <4>3, <5>1
        <5>2. CASE j \in 1..k
          <6>1. /\ j \in 1..n /\ j \in 0..k /\ j - 1 \in 0..n
                /\ Len(ss[j]) \in Nat
            BY <1>0, <3>1, <5>2
          <6>2. /\ pos[j] = pos[j - 1] + Len(ss[j]) /\ pos[j] <= pos[k]
                /\ pos[j - 1] \in Nat
            BY <1>0, <3>1, <6>1, PlacesGrow
          <6>3. pos[j - 1] + i \in 1..pos[k]
            <7>1. i \in Nat /\ 1 <= i /\ i <= Len(ss[j])
              BY <6>1
            <7>2. pos[j - 1] + i <= pos[j]
              BY <6>2, <7>1, <6>1
            <7>3. pos[j - 1] + i \in Nat /\ 1 <= pos[j - 1] + i
              <8>1. ASSUME NEW p \in Nat, NEW m \in Nat, 1 <= m
                    PROVE  p + m \in Nat /\ 1 <= p + m
                BY <8>1
              <8>2. pos[j - 1] \in Nat
                BY <6>2
              <8>3. QED
                BY <7>1, <8>1, <8>2
            <7>4. pos[j] \in Nat /\ pos[k] \in Nat
              BY <3>2, <6>1, <6>2, SMTT(30)
            <7>5. QED
              BY <6>2, <7>2, <7>3, <7>4
          <6>4. QED
            BY <4>1, <4>3, <5>2, <6>3
        <5>3. QED
          BY <5>1, <5>2
      <4>5. Good(k + 1)
        BY <4>3, <4>4
      <4>6. QED
        BY <3>1, <4>5
    <3>5. QED
      BY <3>3, <3>4
  <2>10. n \in T
    <3> HIDE DEF T
    <3>1. QED
      BY <2>8, <2>9, UpTo
  <2>11. QED
    BY <1>2, <2>5, <2>10 DEF Flattened, g
<1>3. QED
  BY <1>1, <1>2

-----------------------------------------------------------------------------
(* Sums.                                                                   *)

LEMMA WordFact == WordMod \in Nat \ {0}
BY PartsAssumption DEF Packed!PackedAssumption

LEMMA PlusFact ==
  \A a, b \in Int : Packed!Plus(a, b) \in 0..(WordMod - 1)
BY WordFact DEF Packed!Plus

LEMMA SumStep ==
  ASSUME NEW n \in Nat, NEW s \in [1..n -> Nat]
  PROVE  /\ Packed!SumTo(s)[0] = 0
         /\ \A k \in 1..n :
              Packed!SumTo(s)[k] = Packed!Plus(Packed!SumTo(s)[k - 1], s[k])
         /\ \A k \in 0..n : Packed!SumTo(s)[k] \in 0..(WordMod - 1)
<1> DEFINE V == 0..(WordMod - 1)
           F == [k \in 1..n |-> [x \in V |-> Packed!Plus(x, s[k])]]
           Solves(g) == g = [k \in 0..n |->
                               IF k = 0 THEN 0 ELSE Packed!Plus(g[k - 1], s[k])]
<1>1. 0 \in V /\ F \in [1..n -> [V -> V]]
  <2>1. 0 \in V
    BY WordFact
  <2>2. ASSUME NEW k \in 1..n, NEW x \in V PROVE Packed!Plus(x, s[k]) \in V
    <3>1. x \in Int /\ s[k] \in Int
      BY WordFact
    <3>2. QED
      BY <3>1, PlusFact
  <2> HIDE DEF V
  <2>3. QED
    BY <2>1, <2>2
<1>2. PICK f : Recurses(f, n, V, 0, F)
  <2> HIDE DEF F, V
  <2>1. QED
    BY <1>1, RecursionSolved
<1>3. f \in [0..n -> V] /\ f[0] = 0
  BY <1>2 DEF Recurses
<1>4. ASSUME NEW k \in 1..n PROVE f[k] = Packed!Plus(f[k - 1], s[k])
  <2>1. k - 1 \in 0..n
    OBVIOUS
  <2> HIDE DEF F, V
  <2>2. f[k - 1] \in V /\ f[k] = F[k][f[k - 1]]
    BY <1>2, <2>1 DEF Recurses
  <2> USE DEF F
  <2>3. QED
    BY <2>2
<1> HIDE DEF F, V
<1>5. Solves(f)
  BY <1>3, <1>4
<1>6. Len(s) = n
  OBVIOUS
<1>7. Packed!SumTo(s) = CHOOSE g : Solves(g)
  BY <1>6 DEF Packed!SumTo
<1> DEFINE g == Packed!SumTo(s)
<1>8. Solves(g)
  <2> HIDE DEF Solves
  <2>1. QED
    BY <1>5, <1>7
<1>9. g = [k \in 0..n |-> IF k = 0 THEN 0 ELSE Packed!Plus(g[k - 1], s[k])]
  BY <1>8
<1> HIDE DEF g
<1>10. /\ g[0] = 0
       /\ \A k \in 1..n : g[k] = Packed!Plus(g[k - 1], s[k])
  BY <1>9
<1>11. \A k \in 0..n : g[k] \in V
  <2> DEFINE T == {k \in 0..n : g[k] \in V}
  <2>1. 0 \in T
    BY <1>1, <1>10
  <2>2. ASSUME NEW k \in T \cap Nat, k < n PROVE k + 1 \in T
    <3>1. k + 1 \in 1..n /\ (k + 1) - 1 = k /\ g[k] \in Int /\ s[k + 1] \in Int
      BY <2>2, WordFact DEF V
    <3>2. g[k + 1] = Packed!Plus(g[k], s[k + 1])
      BY <1>10, <3>1
    <3>3. g[k + 1] \in V
      BY <3>1, <3>2, PlusFact DEF V
    <3>4. QED
      BY <3>1, <3>3
  <2>3. \A k \in 0..n : k \in T
    <3> HIDE DEF T
    <3>1. QED
      BY <2>1, <2>2, UpTo
  <2>4. QED
    BY <2>3
<1>12. QED
  BY <1>10, <1>11 DEF g, V

LEMMA SumAgrees ==
  ASSUME NEW n \in Nat, NEW s \in [1..n -> Nat], NEW t \in [1..n -> Nat],
         NEW k \in 0..n, \A j \in 1..k : s[j] = t[j]
  PROVE  Packed!SumTo(s)[k] = Packed!SumTo(t)[k]
<1> DEFINE T == {j \in 0..k : Packed!SumTo(s)[j] = Packed!SumTo(t)[j]}
<1>0. /\ Packed!SumTo(s)[0] = 0 /\ Packed!SumTo(t)[0] = 0
      /\ \A j \in 1..n :
           /\ Packed!SumTo(s)[j] = Packed!Plus(Packed!SumTo(s)[j - 1], s[j])
           /\ Packed!SumTo(t)[j] = Packed!Plus(Packed!SumTo(t)[j - 1], t[j])
  BY SumStep
<1>1. 0 \in T
  BY <1>0
<1>2. ASSUME NEW j \in T \cap Nat, j < k PROVE j + 1 \in T
  <2>1. j + 1 \in 1..n /\ j + 1 \in 1..k /\ (j + 1) - 1 = j
    BY <1>2
  <2>2. /\ Packed!SumTo(s)[j + 1] = Packed!Plus(Packed!SumTo(s)[j], s[j + 1])
        /\ Packed!SumTo(t)[j + 1] = Packed!Plus(Packed!SumTo(t)[j], t[j + 1])
    BY <1>0, <2>1
  <2>3. QED
    BY <2>1, <2>2
<1>3. \A j \in 0..k : j \in T
  <2>1. k \in Nat
    OBVIOUS
  <2> HIDE DEF T
  <2>2. QED
    BY <1>1, <1>2, <2>1, UpTo
<1>4. QED
  BY <1>3

LEMMA SumZero ==
  ASSUME NEW n \in Nat, NEW s \in [1..n -> Nat], NEW k \in 0..n,
         \A j \in 1..k : s[j] = 0
  PROVE  Packed!SumTo(s)[k] = 0
<1> DEFINE T == {j \in 0..k : Packed!SumTo(s)[j] = 0}
<1>0. /\ Packed!SumTo(s)[0] = 0
      /\ \A j \in 1..n :
           Packed!SumTo(s)[j] = Packed!Plus(Packed!SumTo(s)[j - 1], s[j])
  BY SumStep
<1>1. 0 \in T
  BY <1>0
<1>2. ASSUME NEW j \in T \cap Nat, j < k PROVE j + 1 \in T
  <2>1. j + 1 \in 1..n /\ j + 1 \in 1..k /\ (j + 1) - 1 = j
    BY <1>2
  <2>2. Packed!SumTo(s)[j + 1] = Packed!Plus(0, 0)
    BY <1>0, <2>1
  <2>3. Packed!Plus(0, 0) = 0
    BY WordFact DEF Packed!Plus
  <2>4. QED
    BY <2>1, <2>2, <2>3
<1>3. \A j \in 0..k : j \in T
  <2>1. k \in Nat
    OBVIOUS
  <2> HIDE DEF T
  <2>2. QED
    BY <1>1, <1>2, <2>1, UpTo
<1>4. QED
  BY <1>3

-----------------------------------------------------------------------------
(* What a section consists of.                                             *)

Numbers == Nat \cup Packed!Flags

LEMMA ValueFact ==
  \A g, m, field \in Nat : Packed!Value(g, m, field) \in 0..(WordMod - 1)
BY WordFact DEF Packed!Value

IsIf(s, b, x) == s = Packed!If(b, x)

LEMMA IfFact ==
  ASSUME NEW S, NEW b \in BOOLEAN, NEW x \in S, NEW s, IsIf(s, b, x)
  PROVE  /\ s \in Seq(S) /\ Len(s) = Packed!One(b)
         /\ b => s[1] = x
<1>1. CASE b
  BY <1>1 DEF IsIf, Packed!If, Packed!One
<1>2. CASE ~ b
  BY <1>2 DEF IsIf, Packed!If, Packed!One
<1>3. QED
  BY <1>1, <1>2

LEMMA FieldFact ==
  ASSUME NEW S, NEW f \in Packed!Flags, NEW x \in S, NEW s
  PROVE  /\ IsIf(s, f.delta, x) =>
              /\ s \in Seq(S) /\ Len(s) = Packed!One(f.delta)
              /\ f.delta => s[1] = x
         /\ IsIf(s, f.info, x) =>
              /\ s \in Seq(S) /\ Len(s) = Packed!One(f.info)
              /\ f.info => s[1] = x
<1>1. f.delta \in BOOLEAN /\ f.info \in BOOLEAN
  BY DEF Packed!Flags
<1>2. PICK d, i : d = f.delta /\ i = f.info
  OBVIOUS
<1>3. d \in BOOLEAN /\ i \in BOOLEAN
  BY <1>1, <1>2
<1>4. IsIf(s, d, x) =>
        s \in Seq(S) /\ Len(s) = Packed!One(d) /\ (d => s[1] = x)
  BY <1>3, IfFact
<1>5. IsIf(s, i, x) =>
        s \in Seq(S) /\ Len(s) = Packed!One(i) /\ (i => s[1] = x)
  BY <1>3, IfFact
<1>6. QED
  BY <1>2, <1>4, <1>5

-----------------------------------------------------------------------------
(* Where the numbers of a packed section lie in its stream: MemberAt,      *)
(* GroupLies and SectionLies.                                              *)

\* How many numbers a member of a group with flags f has.
MemberLen(f) ==
  Packed!One(~ f.delta) + Packed!One(~ f.info)
    + Packed!One(f.has /\ ~ f.addend)

\* What member m of group g, which has flags f, has in s behind o numbers.
MemberAt(s, o, g, m, f) ==
  /\ ~ f.delta => s[o + 1] = Packed!Delta(g, m)
  /\ ~ f.info => s[o + 1 + Packed!One(~ f.delta)] = Packed!Info(g, m)
  /\ f.has /\ ~ f.addend => s[o + MemberLen(f)] = Packed!Addend(g, m)

\* What introduces it.
GroupAt(s, o, g, f, size) ==
  /\ s[o + 1] = size /\ s[o + 2] = f
  /\ f.delta => s[o + 3] = Packed!Delta(g, 0)
  /\ f.info => s[o + 3 + Packed!One(f.delta)] = Packed!Info(g, 0)
  /\ Packed!GroupedAddend(f) =>
       s[o + Packed!HeaderSize(f)] = Packed!Addend(g, 0)

LEMMA MemberLenNat == \A f \in Packed!Flags : MemberLen(f) \in Nat
BY DEF Packed!Flags, MemberLen, Packed!One

LEMMA MemberNumbersFacts ==
  ASSUME NEW g \in Nat, NEW m \in Nat, NEW f \in Packed!Flags,
         NEW s, s = Packed!MemberNumbers(g, m, f)
  PROVE  /\ s \in Seq(Numbers) /\ Len(s) = MemberLen(f)
         /\ MemberAt(s, 0, g, m, f)
<1>1. PICK a, b, c :
        /\ IsIf(a, ~ f.delta, Packed!Delta(g, m))
        /\ IsIf(b, ~ f.info, Packed!Info(g, m))
        /\ IsIf(c, f.has /\ ~ f.addend, Packed!Addend(g, m))
  BY DEF IsIf
<1>2. s = (a \o b) \o c
  BY <1>1 DEF Packed!MemberNumbers, IsIf
<1>3. /\ f.delta \in BOOLEAN /\ f.info \in BOOLEAN
      /\ f.has \in BOOLEAN /\ f.addend \in BOOLEAN
  BY DEF Packed!Flags
<1>4. /\ Packed!Delta(g, m) \in Numbers /\ Packed!Info(g, m) \in Numbers
      /\ Packed!Addend(g, m) \in Numbers
  <2>1. ASSUME NEW k \in {1, 2, 3} PROVE Packed!Value(g, m, k) \in Numbers
    <3>1. Packed!Value(g, m, k) \in 0..(WordMod - 1)
      BY ValueFact
    <3>2. QED
      BY <3>1, WordFact DEF Numbers
  <2>2. QED
    BY <2>1 DEF Packed!Delta, Packed!Info, Packed!Addend
<1>5. /\ a \in Seq(Numbers) /\ Len(a) = Packed!One(~ f.delta)
      /\ ~ f.delta => a[1] = Packed!Delta(g, m)
  BY <1>1, <1>3, <1>4, IfFact
<1>6. /\ b \in Seq(Numbers) /\ Len(b) = Packed!One(~ f.info)
      /\ ~ f.info => b[1] = Packed!Info(g, m)
  BY <1>1, <1>3, <1>4, IfFact
<1>7. /\ c \in Seq(Numbers) /\ Len(c) = Packed!One(f.has /\ ~ f.addend)
      /\ f.has /\ ~ f.addend => c[1] = Packed!Addend(g, m)
  BY <1>1, <1>3, <1>4, IfFact
<1>8. PICK ab : ab = a \o b
  OBVIOUS
<1>9. ab \in Seq(Numbers) /\ Len(ab) = Len(a) + Len(b)
  BY <1>5, <1>6, <1>8, ConcatProperties
<1>10. s \in Seq(Numbers) /\ Len(s) = Len(ab) + Len(c)
  BY <1>2, <1>7, <1>8, <1>9, ConcatProperties
<1>11. ~ f.delta => s[1] = a[1]
  <2> HAVE ~ f.delta
  <2>1. Len(a) = 1
    BY <1>5 DEF Packed!One
  <2>2. ab[1] = a[1] /\ Len(ab) >= 1
    BY <2>1, <1>5, <1>6, <1>8, <1>9
  <2>3. QED
    BY <1>2, <1>7, <1>8, <1>9, <2>2
<1>12. ~ f.info => s[1 + Len(a)] = b[1]
  <2> HAVE ~ f.info
  <2>1. Len(b) = 1
    BY <1>6 DEF Packed!One
  <2>2. ab[1 + Len(a)] = b[1] /\ Len(ab) = 1 + Len(a)
    BY <2>1, <1>5, <1>6, <1>8, <1>9
  <2>3. QED
    BY <1>2, <1>5, <1>7, <1>8, <1>9, <2>2, ConcatProperties
<1>13. f.has /\ ~ f.addend => s[Len(ab) + Len(c)] = c[1]
  <2> HAVE f.has /\ ~ f.addend
  <2>1. Len(c) = 1
    BY <1>7 DEF Packed!One
  <2>2. s = ab \o c /\ ab \in Seq(Numbers) /\ c \in Seq(Numbers)
    BY <1>2, <1>7, <1>8, <1>9
  <2>3. Len(ab) \in Nat /\ Len(ab) + 1 \in 1..(Len(ab) + Len(c))
    BY <2>1, <2>2
  <2>4. s[Len(ab) + 1] = c[(Len(ab) + 1) - Len(ab)]
    BY <2>2, <2>3, ConcatProperties
  <2>5. QED
    BY <2>1, <2>3, <2>4
<1>14. MemberLen(f) = Len(ab) + Len(c)
  BY <1>5, <1>6, <1>7, <1>9 DEF MemberLen
<1>15. Len(a) \in Nat /\ Len(ab) \in Nat /\ Len(c) \in Nat
  BY <1>5, <1>7, <1>9
<1>16. /\ 0 + 1 = 1 /\ 0 + 1 + Packed!One(~ f.delta) = 1 + Len(a)
       /\ 0 + MemberLen(f) = Len(ab) + Len(c)
  BY <1>5, <1>14, <1>15
<1>17. MemberAt(s, 0, g, m, f)
  BY <1>5, <1>6, <1>7, <1>11, <1>12, <1>13, <1>16 DEF MemberAt
<1>18. QED
  BY <1>10, <1>14, <1>17

\* s has t behind o elements.
Has(s, o, t) == \A i \in 1..Len(t) : s[o + i] = t[i]

IsJoined(c, a, b) == c = a \o b

LEMMA HasTwo ==
  ASSUME NEW S, NEW a \in Seq(S), NEW b \in Seq(S), NEW c, IsJoined(c, a, b)
  PROVE  /\ c \in Seq(S) /\ Len(c) = Len(a) + Len(b)
         /\ Has(c, 0, a) /\ Has(c, Len(a), b)
<1> USE DEF IsJoined
<1>1. c \in Seq(S) /\ Len(c) = Len(a) + Len(b)
  BY ConcatProperties
<1>2. ASSUME NEW i \in 1..Len(a) PROVE c[0 + i] = a[i]
  <2>1. i \in 1..(Len(a) + Len(b)) /\ i <= Len(a) /\ 0 + i = i
    OBVIOUS
  <2>2. QED
    BY <2>1, ConcatProperties
<1>3. ASSUME NEW i \in 1..Len(b) PROVE c[Len(a) + i] = b[i]
  <2>1. /\ Len(a) + i \in 1..(Len(a) + Len(b)) /\ ~ (Len(a) + i <= Len(a))
        /\ (Len(a) + i) - Len(a) = i
    OBVIOUS
  <2>2. QED
    BY <2>1, ConcatProperties
<1>4. QED
  BY <1>2, <1>3 DEF Has

LEMMA HasInside ==
  ASSUME NEW S, NEW s, NEW t \in Seq(S), NEW u \in Seq(S), NEW o \in Nat,
         NEW p \in Nat, Has(s, o, t), Has(t, p, u), p + Len(u) <= Len(t)
  PROVE  Has(s, o + p, u)
<1> SUFFICES ASSUME NEW i \in 1..Len(u) PROVE s[(o + p) + i] = u[i]
  BY DEF Has
<1>1. p + i \in 1..Len(t) /\ (o + p) + i = o + (p + i)
  OBVIOUS
<1>2. QED
  BY <1>1 DEF Has

LEMMA HasFive ==
  ASSUME NEW S, NEW a \in Seq(S), NEW b \in Seq(S), NEW c \in Seq(S),
         NEW d \in Seq(S), NEW e \in Seq(S), NEW ab, NEW abc, NEW abcd, NEW s,
         IsJoined(ab, a, b), IsJoined(abc, ab, c), IsJoined(abcd, abc, d),
         IsJoined(s, abcd, e)
  PROVE  /\ s \in Seq(S)
         /\ Len(s) = Len(a) + Len(b) + Len(c) + Len(d) + Len(e)
         /\ Has(s, 0, a)
         /\ Has(s, Len(a), b)
         /\ Has(s, Len(a) + Len(b), c)
         /\ Has(s, Len(a) + Len(b) + Len(c), d)
         /\ Has(s, Len(a) + Len(b) + Len(c) + Len(d), e)
<1>3. /\ ab \in Seq(S) /\ Len(ab) = Len(a) + Len(b)
      /\ Has(ab, 0, a) /\ Has(ab, Len(a), b)
  BY HasTwo
<1>4. /\ abc \in Seq(S) /\ Len(abc) = Len(ab) + Len(c)
      /\ Has(abc, 0, ab) /\ Has(abc, Len(ab), c)
  BY <1>3, HasTwo
<1>5. /\ abcd \in Seq(S) /\ Len(abcd) = Len(abc) + Len(d)
      /\ Has(abcd, 0, abc) /\ Has(abcd, Len(abc), d)
  BY <1>4, HasTwo
<1>6. /\ s \in Seq(S) /\ Len(s) = Len(abcd) + Len(e)
      /\ Has(s, 0, abcd) /\ Has(s, Len(abcd), e)
  BY <1>5, HasTwo
<1>7. /\ Len(a) \in Nat /\ Len(b) \in Nat /\ Len(c) \in Nat /\ Len(d) \in Nat
      /\ Len(ab) \in Nat /\ Len(abc) \in Nat
  BY <1>3, <1>4
<1>8. Has(s, 0 + Len(abc), d)
  <2>1. Len(abc) + Len(d) <= Len(abcd)
    BY <1>5, <1>7
  <2>2. QED
    BY <1>5, <1>6, <1>7, <2>1, HasInside
<1>9. Has(s, 0 + 0, abc)
  <2>1. 0 + Len(abc) <= Len(abcd)
    BY <1>5, <1>7
  <2>2. QED
    BY <1>4, <1>5, <1>6, <2>1, HasInside
<1>10. Has(s, (0 + 0) + Len(ab), c)
  <2>1. Len(ab) + Len(c) <= Len(abc) /\ 0 + 0 \in Nat
    BY <1>4, <1>7
  <2>2. QED
    BY <1>4, <1>7, <1>9, <2>1, HasInside
<1>11. Has(s, (0 + 0) + 0, ab)
  <2>1. 0 + Len(ab) <= Len(abc) /\ 0 + 0 \in Nat
    BY <1>4, <1>7
  <2>2. QED
    BY <1>3, <1>4, <1>9, <2>1, HasInside
<1>12. Has(s, ((0 + 0) + 0) + Len(a), b)
  <2>1. Len(a) + Len(b) <= Len(ab) /\ (0 + 0) + 0 \in Nat
    BY <1>3, <1>7
  <2>2. QED
    BY <1>3, <1>7, <1>11, <2>1, HasInside
<1>13. Has(s, ((0 + 0) + 0) + 0, a)
  <2>1. 0 + Len(a) <= Len(ab) /\ (0 + 0) + 0 \in Nat
    BY <1>3, <1>7
  <2>2. QED
    BY <1>3, <1>11, <2>1, HasInside
<1>14. QED
  BY <1>3, <1>4, <1>5, <1>6, <1>7, <1>8, <1>10, <1>12, <1>13

\* A member keeps its numbers wherever they are put.
LEMMA MemberMoves ==
  ASSUME NEW f \in Packed!Flags, NEW g, NEW m, NEW t, NEW p \in Nat,
         Len(t) \in Nat, p + MemberLen(f) <= Len(t), MemberAt(t, p, g, m, f),
         NEW s, NEW o \in Nat, Has(s, o, t)
  PROVE  MemberAt(s, o + p, g, m, f)
<1>1. /\ f.delta \in BOOLEAN /\ f.info \in BOOLEAN
      /\ f.has \in BOOLEAN /\ f.addend \in BOOLEAN
  BY DEF Packed!Flags
<1>2. PICK x, y, z :
        /\ x = Packed!One(~ f.delta) /\ y = Packed!One(~ f.info)
        /\ z = Packed!One(f.has /\ ~ f.addend)
  OBVIOUS
<1>3. /\ x \in {0, 1} /\ y \in {0, 1} /\ z \in {0, 1}
      /\ ~ f.delta => x = 1
      /\ ~ f.info => y = 1
      /\ f.has /\ ~ f.addend => z = 1
  BY <1>1, <1>2 DEF Packed!One
<1>4. MemberLen(f) = x + y + z
  BY <1>2 DEF MemberLen
<1>5. \A i \in 1..(x + y + z) : s[(o + p) + i] = t[p + i]
  <2> TAKE i \in 1..(x + y + z)
  <2>1. p + i \in 1..Len(t) /\ (o + p) + i = o + (p + i)
    BY <1>3, <1>4
  <2>2. QED
    BY <2>1 DEF Has
<1>6. ~ f.delta => s[(o + p) + 1] = t[p + 1]
  BY <1>3, <1>5
<1>7. ~ f.info => s[(o + p) + 1 + x] = t[p + 1 + x]
  <2> HAVE ~ f.info
  <2>1. /\ 1 + x \in 1..(x + y + z) /\ (o + p) + (1 + x) = (o + p) + 1 + x
        /\ p + (1 + x) = p + 1 + x
    BY <1>3
  <2>2. QED
    BY <1>5, <2>1
<1>8. f.has /\ ~ f.addend => s[(o + p) + (x + y + z)] = t[p + (x + y + z)]
  <2> HAVE f.has /\ ~ f.addend
  <2>1. x + y + z \in 1..(x + y + z)
    BY <1>3
  <2>2. QED
    BY <1>5, <2>1
<1>9. QED
  BY <1>2, <1>4, <1>6, <1>7, <1>8 DEF MemberAt

\* The numbers of group g behind o others in s, q[m] numbers up to member m.
GroupLies(s, o, q, g, f, size) ==
  /\ GroupAt(s, o, g, f, size)
  /\ q \in [0..size -> Nat] /\ q[0] = o + Packed!HeaderSize(f)
  /\ \A m \in 0..size : q[m] <= q[size]
  /\ \A m \in 1..size : /\ q[m] = q[m - 1] + MemberLen(f)
                        /\ MemberAt(s, q[m - 1], g, m, f)

LEMMA GroupNumbersFacts ==
  ASSUME NEW n \in Nat, groups \in [1..n -> Packed!Group], NEW g \in 1..n,
         NEW f, f = groups[g].flags, NEW size, size = groups[g].size,
         NEW s, s = Packed!GroupNumbers(g)
  PROVE  /\ s \in Seq(Numbers) /\ size \in Nat
         /\ \E q : GroupLies(s, 0, q, g, f, size) /\ Len(s) = q[size]
<1> DEFINE ms == [m \in 1..size |-> Packed!MemberNumbers(g, m, f)]
<1>1. f \in Packed!Flags /\ size \in Nat /\ size \in 1..MaxMembers
  BY PartsAssumption DEF Packed!PackedAssumption, Packed!Group
<1>2. /\ f.delta \in BOOLEAN /\ f.info \in BOOLEAN
      /\ f.has \in BOOLEAN /\ f.addend \in BOOLEAN
  BY <1>1 DEF Packed!Flags
<1>3. \A m \in 1..size : /\ ms[m] \in Seq(Numbers) /\ Len(ms[m]) = MemberLen(f)
                         /\ MemberAt(ms[m], 0, g, m, f)
  <2> TAKE m \in 1..size
  <2>1. g \in Nat /\ m \in Nat
    OBVIOUS
  <2>2. QED
    BY <1>1, <2>1, MemberNumbersFacts
<1>4. ms \in [1..size -> Seq(Numbers)] /\ \A m \in 1..size : Len(ms[m]) \in Nat
  <2>1. ms = [m \in 1..size |-> ms[m]]
    OBVIOUS
  <2> HIDE DEF ms
  <2>2. QED
    BY <1>1, <1>3, <2>1, MemberLenNat
<1>5. PICK p : Places(p, ms, size)
  BY <1>1, <1>4, PlacesExist
<1>6. PICK flat : flat = Packed!FlattenSeq(ms)
  OBVIOUS
<1>7. flat \in Seq(Numbers) /\ Flattened(flat, p, ms, size)
  <2> HIDE DEF ms
  <2>1. QED
    BY <1>1, <1>4, <1>5, <1>6, FlattenPlaces
<1>8. PICK a, b, c, d :
        /\ a = <<size, f>>
        /\ IsIf(b, f.delta, Packed!Delta(g, 0))
        /\ IsIf(c, f.info, Packed!Info(g, 0))
        /\ IsIf(d, f.has /\ f.addend, Packed!Addend(g, 0))
  BY DEF IsIf
<1>9. PICK ab, abc, abcd :
        /\ IsJoined(ab, a, b) /\ IsJoined(abc, ab, c) /\ IsJoined(abcd, abc, d)
  BY DEF IsJoined
<1>10. IsJoined(s, abcd, flat)
  BY <1>6, <1>8, <1>9, Zenon
     DEF Packed!GroupNumbers, IsJoined, IsIf
<1>11. /\ Packed!Delta(g, 0) \in Numbers /\ Packed!Info(g, 0) \in Numbers
       /\ Packed!Addend(g, 0) \in Numbers
  <2>1. ASSUME NEW k \in {1, 2, 3} PROVE Packed!Value(g, 0, k) \in Numbers
    <3>1. Packed!Value(g, 0, k) \in 0..(WordMod - 1)
      <4>1. g \in Nat /\ 0 \in Nat /\ k \in Nat
        OBVIOUS
      <4>2. QED
        BY <4>1, ValueFact
    <3>2. QED
      BY <3>1, WordFact DEF Numbers
  <2>2. QED
    BY <2>1 DEF Packed!Delta, Packed!Info, Packed!Addend
<1>12. a \in Seq(Numbers) /\ Len(a) = 2 /\ a[1] = size /\ a[2] = f
  BY <1>1, <1>8 DEF Numbers
<1>13. /\ b \in Seq(Numbers) /\ Len(b) = Packed!One(f.delta)
       /\ f.delta => b[1] = Packed!Delta(g, 0)
  BY <1>1, <1>8, <1>11, FieldFact
<1>14. /\ c \in Seq(Numbers) /\ Len(c) = Packed!One(f.info)
       /\ f.info => c[1] = Packed!Info(g, 0)
  BY <1>1, <1>8, <1>11, FieldFact
<1>15. /\ d \in Seq(Numbers) /\ Len(d) = Packed!One(f.has /\ f.addend)
       /\ f.has /\ f.addend => d[1] = Packed!Addend(g, 0)
  <2>1. (f.has /\ f.addend) \in BOOLEAN
    OBVIOUS
  <2>2. QED
    BY <1>8, <1>11, <2>1, IfFact, Zenon
<1> HIDE DEF ms
<1>16. /\ s \in Seq(Numbers)
       /\ Len(s) = Len(a) + Len(b) + Len(c) + Len(d) + Len(flat)
       /\ Has(s, 0, a)
       /\ Has(s, Len(a), b)
       /\ Has(s, Len(a) + Len(b), c)
       /\ Has(s, Len(a) + Len(b) + Len(c), d)
       /\ Has(s, Len(a) + Len(b) + Len(c) + Len(d), flat)
  <2>1. /\ a \in Seq(Numbers) /\ b \in Seq(Numbers) /\ c \in Seq(Numbers)
        /\ d \in Seq(Numbers) /\ flat \in Seq(Numbers)
    BY <1>7, <1>12, <1>13, <1>14, <1>15
  <2>2. QED
    BY <1>9, <1>10, <2>1, HasFive, SMTT(30)
<1>17. Packed!HeaderSize(f) = Len(a) + Len(b) + Len(c) + Len(d)
  BY <1>12, <1>13, <1>14, <1>15 DEF Packed!HeaderSize, Packed!GroupedAddend
<1>18. /\ Len(a) \in Nat /\ Len(b) \in Nat /\ Len(c) \in Nat /\ Len(d) \in Nat
  BY <1>12, <1>13, <1>14, <1>15
<1>19. GroupAt(s, 0, g, f, size)
  <2>1. s[0 + 1] = size /\ s[0 + 2] = f
    BY <1>12, <1>16 DEF Has
  <2>2. f.delta => s[0 + 3] = Packed!Delta(g, 0)
    BY <1>12, <1>13, <1>16 DEF Has, Packed!One
  <2>3. f.info => s[0 + 3 + Packed!One(f.delta)] = Packed!Info(g, 0)
    <3> HAVE f.info
    <3>1. Len(c) = 1
      BY <1>14 DEF Packed!One
    <3>2. s[Len(a) + Len(b) + 1] = c[1]
      BY <1>16, <3>1 DEF Has
    <3>3. 0 + 3 + Packed!One(f.delta) = Len(a) + Len(b) + 1
      BY <1>12, <1>13, <1>18
    <3>4. QED
      BY <1>14, <3>2, <3>3
  <2>4. Packed!GroupedAddend(f) =>
          s[0 + Packed!HeaderSize(f)] = Packed!Addend(g, 0)
    <3> HAVE Packed!GroupedAddend(f)
    <3>1. Len(d) = 1 /\ d[1] = Packed!Addend(g, 0)
      BY <1>15 DEF Packed!One, Packed!GroupedAddend
    <3>2. s[Len(a) + Len(b) + Len(c) + 1] = d[1]
      BY <1>16, <3>1 DEF Has
    <3>3. 0 + Packed!HeaderSize(f) = Len(a) + Len(b) + Len(c) + 1
      BY <1>17, <1>18, <3>1
    <3>4. QED
      BY <3>1, <3>2, <3>3
  <2>5. QED
    BY <2>1, <2>2, <2>3, <2>4 DEF GroupAt
<1> DEFINE h == Packed!HeaderSize(f)
           q == [m \in 0..size |-> h + p[m]]
<1>20. /\ p \in [0..size -> Nat] /\ p[0] = 0 /\ h \in Nat
       /\ \A m \in 1..size : p[m] = p[m - 1] + MemberLen(f)
  BY <1>3, <1>5, <1>17, <1>18 DEF Places
<1>21. ASSUME NEW m \in 1..size PROVE MemberAt(s, q[m - 1], g, m, f)
  <2>1. m - 1 \in 0..size /\ p[m - 1] \in Nat
    BY <1>1, <1>20, SMTT(30)
  <2>2. q[m - 1] = h + p[m - 1]
    BY <2>1
  <2>3. Has(flat, p[m - 1], ms[m])
    BY <1>7 DEF Flattened, Has
  <2>4. p[m - 1] + Len(ms[m]) <= Len(flat)
    <3>1. Len(flat) = p[size] /\ p[m] <= p[size]
      <4>1. m \in 0..size /\ size \in 0..size
        BY <1>1
      <4>2. QED
        BY <1>1, <1>4, <1>5, <1>7, <4>1, PlacesGrow DEF Flattened
    <3>2. p[m] = p[m - 1] + Len(ms[m])
      BY <1>5 DEF Places
    <3>3. QED
      BY <3>1, <3>2
  <2>5. Has(s, h + p[m - 1], ms[m])
    <3>1. Has(s, h, flat) /\ ms[m] \in Seq(Numbers)
      BY <1>3, <1>16, <1>17
    <3> HIDE DEF ms, h
    <3>2. QED
      BY <1>7, <1>20, <2>1, <2>3, <2>4, <3>1, HasInside
  <2>6. QED
    <3>1. /\ Len(ms[m]) = MemberLen(f) /\ MemberAt(ms[m], 0, g, m, f)
          /\ q[m - 1] \in Nat /\ Has(s, q[m - 1], ms[m])
      BY <1>3, <1>20, <2>1, <2>2, <2>5
    <3>2. /\ Len(ms[m]) \in Nat /\ 0 + MemberLen(f) <= Len(ms[m])
          /\ q[m - 1] + 0 = q[m - 1]
      BY <1>1, <3>1, MemberLenNat
    <3> HIDE DEF q
    <3>3. MemberAt(s, q[m - 1] + 0, g, m, f)
      BY <1>1, <3>1, <3>2, MemberMoves
    <3>4. QED
      BY <3>2, <3>3
<1> HIDE DEF h
<1>22. /\ q \in [0..size -> Nat] /\ q[0] = h
       /\ \A m \in 1..size : q[m] = q[m - 1] + MemberLen(f)
  <2>1. q \in [0..size -> Nat] /\ q[0] = h
    BY <1>1, <1>20
  <2>2. ASSUME NEW m \in 1..size PROVE q[m] = q[m - 1] + MemberLen(f)
    <3>0. m - 1 \in 0..size /\ m \in 0..size
      BY <1>1
    <3>1. /\ m - 1 \in 0..size /\ m \in 0..size /\ p[m - 1] \in Nat
          /\ p[m] \in Nat
      BY <1>20, <3>0
    <3>2. q[m] = h + p[m] /\ q[m - 1] = h + p[m - 1]
      BY <3>1
    <3>3. MemberLen(f) = p[m] - p[m - 1]
      BY <1>20, <3>1, MemberLenNat, <1>1
    <3> HIDE DEF q
    <3>4. QED
      BY <1>20, <3>1, <3>2, <3>3
  <2>3. QED
    BY <2>1, <2>2
<1> HIDE DEF q
<1>23. GroupLies(s, 0, q, g, f, size)
  <2>1. q[0] = 0 + Packed!HeaderSize(f)
    BY <1>20, <1>22 DEF h
  <2>2. ASSUME NEW m \in 0..size PROVE q[m] <= q[size]
    <3>1. size \in 0..size /\ p[m] \in Nat /\ p[size] \in Nat
      BY <1>1, <1>20
    <3>2. p[m] <= p[size]
      BY <1>1, <1>4, <1>5, <3>1, PlacesGrow
    <3>3. QED
      BY <1>20, <3>1, <3>2 DEF q
  <2>3. QED
    BY <1>19, <1>21, <1>22, <2>1, <2>2 DEF GroupLies
<1>24. Len(s) = q[size]
  <2>1. size \in 0..size
    BY <1>1
  <2>2. q[size] = h + p[size]
    BY <2>1 DEF q
  <2>3. Len(flat) = p[size]
    BY <1>7 DEF Flattened
  <2>4. QED
    BY <1>16, <1>17, <2>2, <2>3 DEF h
<1>25. QED
  BY <1>1, <1>16, <1>23, <1>24

\* A group keeps its numbers wherever they are put.
LEMMA GroupMoves ==
  ASSUME NEW f \in Packed!Flags, NEW g, NEW size \in Nat, NEW t,
         Len(t) \in Nat, NEW q, GroupLies(t, 0, q, g, f, size),
         Len(t) = q[size], NEW s, NEW o \in Nat, Has(s, o, t)
  PROVE  GroupLies(s, o, [m \in 0..size |-> o + q[m]], g, f, size)
<1> DEFINE r == [m \in 0..size |-> o + q[m]]
           h == Packed!HeaderSize(f)
<1>1. /\ q \in [0..size -> Nat] /\ q[0] = h
      /\ \A m \in 0..size : q[m] <= q[size]
      /\ \A m \in 1..size : /\ q[m] = q[m - 1] + MemberLen(f)
                            /\ MemberAt(t, q[m - 1], g, m, f)
  <2>1. q[0] = 0 + h /\ 0 \in 0..size /\ q \in [0..size -> Nat]
    BY DEF GroupLies
  <2>2. q[0] \in Nat
    BY <2>1
  <2>3. h \in Nat
    <3>1. /\ f.delta \in BOOLEAN /\ f.info \in BOOLEAN
          /\ f.has \in BOOLEAN /\ f.addend \in BOOLEAN
      BY DEF Packed!Flags
    <3>2. QED
      BY <3>1 DEF Packed!HeaderSize, Packed!One
  <2>4. QED
    BY <2>1, <2>3 DEF GroupLies
<1>2. /\ f.delta \in BOOLEAN /\ f.info \in BOOLEAN
      /\ f.has \in BOOLEAN /\ f.addend \in BOOLEAN
  BY DEF Packed!Flags
<1>3. PICK x, y, z : /\ x = Packed!One(f.delta) /\ y = Packed!One(f.info)
                     /\ z = Packed!One(Packed!GroupedAddend(f))
  OBVIOUS
<1>4. /\ x \in {0, 1} /\ y \in {0, 1} /\ z \in {0, 1}
      /\ f.delta => x = 1
      /\ f.info => y = 1
      /\ Packed!GroupedAddend(f) => z = 1
  BY <1>2, <1>3 DEF Packed!One
<1>5. h = 2 + x + y + z
  BY <1>3 DEF Packed!HeaderSize
<1>6. h <= Len(t)
  <2>1. 0 \in 0..size
    OBVIOUS
  <2>2. QED
    BY <1>1, <2>1
<1>7. \A i \in 1..(2 + x + y + z) : s[o + i] = t[0 + i]
  <2> TAKE i \in 1..(2 + x + y + z)
  <2>1. i \in 1..Len(t) /\ 0 + i = i
    BY <1>4, <1>5, <1>6
  <2>2. QED
    BY <2>1 DEF Has
<1> HIDE DEF h
<1>8. GroupAt(s, o, g, f, size)
  <2>1. /\ t[0 + 1] = size /\ t[0 + 2] = f
        /\ f.delta => t[0 + 3] = Packed!Delta(g, 0)
        /\ f.info => t[0 + 3 + x] = Packed!Info(g, 0)
        /\ Packed!GroupedAddend(f) => t[0 + h] = Packed!Addend(g, 0)
    BY <1>3 DEF GroupLies, GroupAt, h
  <2>2. s[o + 1] = size /\ s[o + 2] = f
    BY <1>4, <1>7, <2>1
  <2>3. f.delta => s[o + 3] = Packed!Delta(g, 0)
    BY <1>4, <1>7, <2>1
  <2>4. f.info => s[o + 3 + x] = Packed!Info(g, 0)
    <3> HAVE f.info
    <3>1. 3 + x \in 1..(2 + x + y + z) /\ o + (3 + x) = o + 3 + x
          /\ 0 + (3 + x) = 0 + 3 + x
      BY <1>4
    <3>2. QED
      BY <1>7, <2>1, <3>1
  <2>5. Packed!GroupedAddend(f) => s[o + h] = Packed!Addend(g, 0)
    <3> HAVE Packed!GroupedAddend(f)
    <3>1. h \in 1..(2 + x + y + z)
      BY <1>4, <1>5
    <3>2. QED
      BY <1>7, <2>1, <3>1
  <2>6. QED
    BY <1>3, <2>2, <2>3, <2>4, <2>5 DEF GroupAt, h
<1>9. ASSUME NEW m \in 1..size
      PROVE  /\ r[m] = r[m - 1] + MemberLen(f)
             /\ MemberAt(s, r[m - 1], g, m, f)
  <2>1. /\ m - 1 \in 0..size /\ m \in 0..size
    OBVIOUS
  <2>2. /\ q[m - 1] \in Nat /\ q[m] \in Nat /\ MemberLen(f) \in Nat
        /\ q[m] = q[m - 1] + MemberLen(f) /\ q[m] <= Len(t)
        /\ MemberAt(t, q[m - 1], g, m, f)
    BY <1>1, <2>1, MemberLenNat
  <2>3. r[m] = o + q[m] /\ r[m - 1] = o + q[m - 1]
    BY <2>1
  <2> HIDE DEF r
  <2>4. q[m - 1] + MemberLen(f) <= Len(t)
    BY <2>2
  <2>5. MemberAt(s, o + q[m - 1], g, m, f)
    BY <2>2, <2>4, MemberMoves
  <2>6. QED
    BY <2>2, <2>3, <2>5
<1>10. /\ r \in [0..size -> Nat] /\ r[0] = o + h
       /\ \A m \in 0..size : r[m] <= r[size]
  <2>1. 0 \in 0..size /\ size \in 0..size
    OBVIOUS
  <2>2. QED
    BY <1>1, <2>1
<1> HIDE DEF r
<1>11. GroupLies(s, o, r, g, f, size)
  BY <1>8, <1>9, <1>10 DEF GroupLies, h
<1>12. QED
  BY <1>11 DEF r

\* The numbers of a whole section: at[g] of them up to group g.
SectionLies(sn, at, q, n, gs) ==
  /\ at \in [0..n -> Nat] /\ at[0] = 2 /\ Len(sn) = at[n]
  /\ \A g \in 1..n :
       /\ GroupLies(sn, at[g - 1], q[g], g, gs[g].flags, gs[g].size)
       /\ at[g] = q[g][gs[g].size] /\ at[g] <= at[n]

LEMMA SectionNumbersFacts ==
  ASSUME NEW n \in Nat, groups \in [1..n -> Packed!Group],
         Len(Packed!Members) \in Nat,
         NEW sn, sn = Packed!SectionNumbers
  PROVE  /\ sn[1] = Len(Packed!Members) /\ sn[2] = Packed!FirstOffset
         /\ sn \in Seq(Numbers) /\ 2 <= Len(sn)
         /\ \E at, q : SectionLies(sn, at, q, n, groups)
<1> DEFINE F(g) == groups[g].flags
           Size(g) == groups[g].size
           ss == [g \in 1..n |-> Packed!GroupNumbers(g)]
           Lies(g, q) == /\ GroupLies(ss[g], 0, q, g, F(g), Size(g))
                         /\ Len(ss[g]) = q[Size(g)]
           Q(g) == CHOOSE q : Lies(g, q)
<1>1. ASSUME NEW g \in 1..n
      PROVE  /\ ss[g] \in Seq(Numbers) /\ Size(g) \in Nat /\ F(g) \in Packed!Flags
             /\ Lies(g, Q(g))
  <2>1. ss[g] = Packed!GroupNumbers(g)
    OBVIOUS
  <2>2. /\ ss[g] \in Seq(Numbers) /\ Size(g) \in Nat /\ \E q : Lies(g, q)
    BY <2>1, GroupNumbersFacts
  <2>3. F(g) \in Packed!Flags
    BY DEF Packed!Group
  <2>4. Lies(g, Q(g))
    <3> HIDE DEF Lies
    <3>1. QED
      BY <2>2
  <2>5. QED
    BY <2>2, <2>3, <2>4
<1>2. ss = [g \in 1..n |-> ss[g]]
  OBVIOUS
<1>3. [g \in DOMAIN groups |-> Packed!GroupNumbers(g)] = ss
  OBVIOUS
<1> HIDE DEF ss, Q
<1>4. ss \in [1..n -> Seq(Numbers)] /\ \A g \in 1..n : Len(ss[g]) \in Nat
  <2> HIDE DEF Lies, F, Size
  <2>1. QED
    BY <1>1, <1>2
<1>5. PICK p : Places(p, ss, n)
  BY <1>4, PlacesExist
<1>6. PICK flat : flat = Packed!FlattenSeq(ss)
  OBVIOUS
<1>7. flat \in Seq(Numbers) /\ Flattened(flat, p, ss, n)
  BY <1>4, <1>5, <1>6, FlattenPlaces
<1>8. PICK a : a = <<Len(Packed!Members), Packed!FirstOffset>>
  OBVIOUS
<1>9. IsJoined(sn, a, flat)
  BY <1>3, <1>6, <1>8 DEF Packed!SectionNumbers, IsJoined
<1>10. a \in Seq(Numbers) /\ Len(a) = 2
  <2>1. Packed!FirstOffset \in Nat
    <3>1. Packed!Value(0, 0, 1) \in 0..(WordMod - 1)
      BY ValueFact
    <3>2. QED
      BY <3>1, WordFact DEF Packed!FirstOffset
  <2>2. QED
    BY <1>8, <2>1 DEF Numbers
<1>11. /\ sn \in Seq(Numbers) /\ Len(sn) = 2 + Len(flat)
       /\ Has(sn, 0, a) /\ Has(sn, 2, flat)
  <2>1. a \in Seq(Numbers) /\ flat \in Seq(Numbers)
    BY <1>7, <1>10
  <2>2. /\ sn \in Seq(Numbers) /\ Len(sn) = Len(a) + Len(flat)
        /\ Has(sn, 0, a) /\ Has(sn, Len(a), flat)
    BY <1>9, <2>1, HasTwo, Zenon
  <2>3. QED
    BY <1>10, <2>2
<1>12. sn[1] = Len(Packed!Members) /\ sn[2] = Packed!FirstOffset
  <2>1. /\ sn[0 + 1] = a[1] /\ sn[0 + 2] = a[2]
    BY <1>10, <1>11 DEF Has
  <2>2. QED
    BY <1>8, <2>1
<1> DEFINE at == [g \in 0..n |-> 2 + p[g]]
           q == [g \in 1..n |-> [m \in 0..Size(g) |-> at[g - 1] + Q(g)[m]]]
<1>13. /\ p \in [0..n -> Nat] /\ p[0] = 0
       /\ \A g \in 1..n : p[g] = p[g - 1] + Len(ss[g])
       /\ Len(flat) = p[n]
  BY <1>5, <1>7 DEF Places, Flattened
<1>14. at \in [0..n -> Nat] /\ at[0] = 2 /\ Len(sn) = at[n]
  BY <1>11, <1>13
<1>15. ASSUME NEW g \in 1..n
       PROVE  /\ GroupLies(sn, at[g - 1], q[g], g, F(g), Size(g))
              /\ at[g] = q[g][Size(g)] /\ at[g] <= at[n]
  <2>1. /\ g - 1 \in 0..n /\ g \in 0..n /\ n \in 0..n
    OBVIOUS
  <2>2. /\ p[g - 1] \in Nat /\ p[g] \in Nat /\ p[g] <= p[n] /\ p[n] \in Nat
        /\ p[g] = p[g - 1] + Len(ss[g])
    <3> HIDE DEF F, Size, Lies, at, q
    <3>1. QED
      BY <1>4, <1>5, <1>13, <2>1, PlacesGrow
  <2>3. /\ at[g - 1] = 2 + p[g - 1] /\ at[g] = 2 + p[g] /\ at[n] = 2 + p[n]
    BY <2>1
  <2>4. Has(flat, p[g - 1], ss[g])
    BY <1>7 DEF Flattened, Has
  <2>5. Has(sn, 2 + p[g - 1], ss[g])
    <3>1. p[g - 1] + Len(ss[g]) <= Len(flat) /\ 2 \in Nat /\ ss[g] \in Seq(Numbers)
      BY <1>1, <1>13, <2>2
    <3> HIDE DEF F, Size, Lies, at, q
    <3>2. QED
      BY <1>7, <1>11, <2>2, <2>4, <3>1, HasInside
  <2>6. q[g] = [m \in 0..Size(g) |-> at[g - 1] + Q(g)[m]]
    OBVIOUS
  <2>7. GroupLies(sn, at[g - 1], [m \in 0..Size(g) |-> at[g - 1] + Q(g)[m]], g,
                  F(g), Size(g))
    <3>1. /\ at[g - 1] \in Nat /\ Has(sn, at[g - 1], ss[g])
          /\ Len(ss[g]) \in Nat
      BY <1>4, <2>2, <2>3, <2>5, SMTT(30)
    <3>2. /\ Size(g) \in Nat /\ F(g) \in Packed!Flags
          /\ GroupLies(ss[g], 0, Q(g), g, F(g), Size(g))
          /\ Len(ss[g]) = Q(g)[Size(g)]
      BY <1>1
    <3> HIDE DEF F, Size, Lies, at, q
    <3>3. QED
      BY <3>1, <3>2, GroupMoves
  <2>8. at[g] = q[g][Size(g)]
    <3>1. Size(g) \in 0..Size(g) /\ Len(ss[g]) = Q(g)[Size(g)]
      BY <1>1
    <3>2. q[g][Size(g)] = at[g - 1] + Q(g)[Size(g)]
      BY <2>6, <3>1
    <3>3. Len(ss[g]) \in Nat
      BY <1>4
    <3> HIDE DEF F, Size, Lies, at, q
    <3>4. QED
      BY <2>2, <2>3, <3>1, <3>2, <3>3
  <2>9. at[g] <= at[n]
    BY <2>2, <2>3
  <2> HIDE DEF at, q
  <2>10. QED
    BY <2>6, <2>7, <2>8, <2>9
<1>16. SectionLies(sn, at, q, n, groups)
  <2> HIDE DEF at, q
  <2>1. QED
    BY <1>14, <1>15 DEF SectionLies
<1>17. 2 <= Len(sn)
  <2>1. Len(flat) \in Nat
    BY <1>7
  <2>2. QED
    BY <1>11, <2>1
<1>18. QED
  BY <1>11, <1>12, <1>16, <1>17

\* The relocations of a section: idx[g] of them up to group g.
MembersLie(ms, idx, n, gs) ==
  /\ idx \in [0..n -> Nat] /\ idx[0] = 0 /\ Len(ms) = idx[n]
  /\ ms \in [1..idx[n] -> [group : 1..n, member : Nat]]
  /\ \A g \in 1..n :
       /\ idx[g] = idx[g - 1] + gs[g].size /\ idx[g] <= idx[n]
       /\ \A m \in 1..gs[g].size :
            ms[idx[g - 1] + m] = [group |-> g, member |-> m]
       /\ \A j \in 1..idx[g - 1] : ms[j].group \in 1..(g - 1)

LEMMA MembersFacts ==
  ASSUME NEW n \in Nat, groups \in [1..n -> Packed!Group]
  PROVE  \E idx : MembersLie(Packed!Members, idx, n, groups)
<1> DEFINE Size(g) == groups[g].size
           R == [group : 1..n, member : Nat]
           ss == [g \in 1..n |-> [m \in 1..Size(g) |->
                                    [group |-> g, member |-> m]]]
<1>1. \A g \in 1..n : Size(g) \in Nat /\ Size(g) \in 1..MaxMembers
  BY PartsAssumption DEF Packed!PackedAssumption, Packed!Group
<1>2. ASSUME NEW g \in 1..n
      PROVE  /\ ss[g] \in Seq(R) /\ Len(ss[g]) = Size(g)
             /\ \A m \in 1..Size(g) : ss[g][m] = [group |-> g, member |-> m]
  <2>1. PICK s : s = [m \in 1..Size(g) |-> [group |-> g, member |-> m]]
    OBVIOUS
  <2>2. ss[g] = s
    BY <2>1
  <2> HIDE DEF ss
  <2>3. s \in [1..Size(g) -> R]
    BY <2>1
  <2>4. s \in Seq(R) /\ Len(s) = Size(g)
    <3>1. s \in Seq(R)
      <4>1. PICK k : k = Size(g)
        OBVIOUS
      <4>2. k \in Nat /\ s \in [1..k -> R]
        BY <1>1, <2>3, <4>1
      <4> HIDE DEF R
      <4>3. QED
        BY <4>2
    <3>2. Len(s) = Size(g)
      BY <1>1, <2>1
    <3>3. QED
      BY <3>1, <3>2
  <2>5. QED
    BY <2>1, <2>2, <2>4
<1>3. ss = [g \in 1..n |-> ss[g]]
  OBVIOUS
<1>4. Packed!Members = Packed!FlattenSeq(ss)
  <2>1. DOMAIN groups = 1..n
    OBVIOUS
  <2>2. QED
    BY <2>1 DEF Packed!Members
<1> HIDE DEF ss
<1>5. ss \in [1..n -> Seq(R)] /\ \A g \in 1..n : Len(ss[g]) \in Nat
  <2> HIDE DEF R, Size
  <2>1. QED
    BY <1>1, <1>2, <1>3
<1>6. PICK p : Places(p, ss, n)
  BY <1>5, PlacesExist
<1> DEFINE ms == Packed!Members
<1>7. ms \in Seq(R) /\ Flattened(ms, p, ss, n)
  <2> HIDE DEF R
  <2>1. QED
    BY <1>4, <1>5, <1>6, FlattenPlaces
<1> HIDE DEF ms
<1>8. /\ p \in [0..n -> Nat] /\ p[0] = 0 /\ Len(ms) = p[n]
      /\ \A g \in 1..n : p[g] = p[g - 1] + Size(g)
  BY <1>2, <1>6, <1>7 DEF Places, Flattened
<1>9. ms \in [1..p[n] -> R]
  <2> HIDE DEF R
  <2>1. QED
    BY <1>7, <1>8
<1>10. ASSUME NEW g \in 1..n
       PROVE  /\ p[g] <= p[n]
              /\ \A m \in 1..Size(g) :
                   ms[p[g - 1] + m] = [group |-> g, member |-> m]
  <2>1. g \in 0..n /\ n \in 0..n
    OBVIOUS
  <2>2. p[g] <= p[n]
    BY <1>5, <1>6, <2>1, PlacesGrow
  <2>3. \A m \in 1..Size(g) : ms[p[g - 1] + m] = ss[g][m]
    BY <1>2, <1>7 DEF Flattened
  <2>4. QED
    BY <1>2, <2>2, <2>3
<1>11. \A g \in 0..n : \A j \in 1..p[g] : ms[j].group \in 1..g
  <2> DEFINE T == {g \in 0..n : \A j \in 1..p[g] : ms[j].group \in 1..g}
  <2>1. 0 \in T
    BY <1>8
  <2>2. ASSUME NEW g \in T \cap Nat, g < n PROVE g + 1 \in T
    <3>1. /\ g + 1 \in 1..n /\ (g + 1) - 1 = g /\ g \in 0..n
          /\ \A j \in 1..p[g] : ms[j].group \in 1..g
      BY <2>2
    <3>2. p[g] \in Nat /\ p[g + 1] = p[g] + Size(g + 1) /\ Size(g + 1) \in Nat
      BY <1>1, <1>8, <3>1
    <3>3. ASSUME NEW j \in 1..p[g + 1] PROVE ms[j].group \in 1..(g + 1)
      <4>1. CASE j \in 1..p[g]
        BY <3>1, <4>1
      <4>2. CASE j \notin 1..p[g]
        <5>1. j - p[g] \in 1..Size(g + 1) /\ p[g] + (j - p[g]) = j
          BY <3>2, <4>2
        <5>2. ms[j] = [group |-> g + 1, member |-> j - p[g]]
          BY <1>10, <3>1, <5>1
        <5>3. QED
          BY <3>1, <5>2
      <4>3. QED
        BY <4>1, <4>2
    <3>4. QED
      BY <3>1, <3>3
  <2>3. \A g \in 0..n : g \in T
    <3> HIDE DEF T
    <3>1. QED
      BY <2>1, <2>2, UpTo
  <2>4. QED
    BY <2>3
<1>12. \A g \in 1..n : \A j \in 1..p[g - 1] : ms[j].group \in 1..(g - 1)
  BY <1>11
<1>13. MembersLie(ms, p, n, groups)
  BY <1>8, <1>9, <1>10, <1>12 DEF MembersLie
<1>14. QED
  BY <1>13 DEF ms

-----------------------------------------------------------------------------
(* What the relocations add up to.                                         *)

LEMMA OffsetFacts ==
  ASSUME NEW n \in Nat, groups \in [1..n -> Packed!Group], NEW idx,
         MembersLie(Packed!Members, idx, n, groups)
  PROVE  /\ Packed!OffsetOf(0) = Packed!FirstOffset
         /\ \A k \in 0..idx[n] : Packed!OffsetOf(k) \in Nat
         /\ \A g \in 1..n : \A m \in 1..groups[g].size :
              Packed!OffsetOf(idx[g - 1] + m) =
                Packed!Plus(Packed!OffsetOf(idx[g - 1] + (m - 1)),
                  Packed!Delta(g, IF groups[g].flags.delta THEN 0 ELSE m))
<1> DEFINE ms == Packed!Members
           D == Packed!Deltas
           N == idx[n]
           d(g, m) == Packed!Delta(g, IF groups[g].flags.delta THEN 0 ELSE m)
<1>1. /\ N \in Nat /\ ms \in [1..N -> [group : 1..n, member : Nat]]
      /\ idx \in [0..n -> Nat]
      /\ \A g \in 1..n :
           /\ idx[g] = idx[g - 1] + groups[g].size /\ idx[g] <= idx[n]
           /\ \A m \in 1..groups[g].size :
                ms[idx[g - 1] + m] = [group |-> g, member |-> m]
  <2>1. n \in 0..n
    OBVIOUS
  <2>2. QED
    BY <2>1 DEF MembersLie
<1> HIDE DEF ms
<1>2. D = [j \in 1..N |-> d(ms[j].group, ms[j].member)]
  <2>1. DOMAIN ms = 1..N
    BY <1>1
  <2>2. QED
    BY <2>1 DEF Packed!Deltas, Packed!FlagsOf, ms
<1>3. \A g, m \in Nat : d(g, m) \in Nat
  <2>1. \A g, m \in Nat : Packed!Delta(g, m) \in Nat
    <3> TAKE g, m \in Nat
    <3>1. Packed!Value(g, m, 1) \in 0..(WordMod - 1)
      BY ValueFact
    <3>2. QED
      BY <3>1, WordFact DEF Packed!Delta
  <2>2. QED
    BY <2>1
<1>4. \A j \in 1..N : ms[j].group \in Nat /\ ms[j].member \in Nat
  <2> TAKE j \in 1..N
  <2>1. ms[j] \in [group : 1..n, member : Nat]
    BY <1>1
  <2>2. QED
    BY <2>1
<1> HIDE DEF d, N
<1>5. D \in [1..N -> Nat]
  BY <1>2, <1>3, <1>4
<1> HIDE DEF D
<1>6. Packed!FirstOffset \in 0..(WordMod - 1)
  <2>1. Packed!Value(0, 0, 1) \in 0..(WordMod - 1)
    BY ValueFact
  <2>2. QED
    BY <2>1 DEF Packed!FirstOffset
<1>7. \A k : Packed!OffsetOf(k) =
               Packed!Plus(Packed!FirstOffset, Packed!SumTo(D)[k])
  BY DEF Packed!OffsetOf, D
<1>8. Packed!OffsetOf(0) = Packed!FirstOffset
  <2>1. Packed!SumTo(D)[0] = 0
    BY <1>1, <1>5, SumStep
  <2>2. Packed!Plus(Packed!FirstOffset, 0) = Packed!FirstOffset
    BY <1>6, WordFact DEF Packed!Plus
  <2>3. QED
    BY <1>7, <2>1, <2>2
<1>9. ASSUME NEW k \in 0..N PROVE Packed!OffsetOf(k) \in Nat
  <2>1. Packed!SumTo(D)[k] \in 0..(WordMod - 1)
    BY <1>1, <1>5, SumStep
  <2>2. Packed!SumTo(D)[k] \in Int /\ Packed!FirstOffset \in Int
    BY <1>6, <2>1, WordFact
  <2>3. Packed!OffsetOf(k) \in 0..(WordMod - 1)
    BY <1>7, <2>2, PlusFact
  <2>4. QED
    BY <2>3, WordFact
<1>10. ASSUME NEW g \in 1..n, NEW m \in 1..groups[g].size
       PROVE  Packed!OffsetOf(idx[g - 1] + m) =
                Packed!Plus(Packed!OffsetOf(idx[g - 1] + (m - 1)), d(g, m))
  <2>1. /\ groups[g].size \in Nat /\ g - 1 \in 0..n /\ g \in 0..n
    BY PartsAssumption DEF Packed!PackedAssumption, Packed!Group
  <2>2. idx[g - 1] \in Nat /\ idx[g] = idx[g - 1] + groups[g].size /\ idx[g] <= N
    BY <1>1, <2>1 DEF N
  <2>3. PICK k : k = idx[g - 1] + m
    OBVIOUS
  <2>4. k \in 1..N /\ k - 1 = idx[g - 1] + (m - 1) /\ k - 1 \in 0..N
    <3>1. m \in Nat /\ 1 <= m /\ m <= groups[g].size /\ N \in Nat
      BY <1>1, <2>1
    <3>2. k <= idx[g]
      BY <2>1, <2>2, <2>3, <3>1
    <3>3. idx[g] \in Nat
      BY <2>1, <2>2
    <3>4. QED
      BY <2>2, <2>3, <3>1, <3>2, <3>3
  <2>5. ms[k] = [group |-> g, member |-> m]
    BY <1>1, <2>3
  <2>6. D[k] = d(g, m)
    BY <1>2, <2>4, <2>5
  <2>7. /\ Packed!SumTo(D)[k] = Packed!Plus(Packed!SumTo(D)[k - 1], D[k])
        /\ Packed!SumTo(D)[k - 1] \in 0..(WordMod - 1)
    BY <1>1, <1>5, <2>4, SumStep
  <2>8. PICK a, b, c : /\ a = Packed!FirstOffset /\ b = Packed!SumTo(D)[k - 1]
                       /\ c = D[k]
    OBVIOUS
  <2>9. a \in Int /\ b \in Int /\ c \in Int
    BY <1>5, <1>6, <2>4, <2>7, <2>8, WordFact
  <2>10. Packed!Plus(a, Packed!Plus(b, c)) = Packed!Plus(Packed!Plus(a, b), c)
    <3>1. b + c \in Int /\ a + b \in Int
      BY <2>9
    <3>2. ((b + c) % WordMod) + a \in Int /\ ((a + b) % WordMod) + c \in Int
      BY <2>9, WordFact
    <3>3. (((b + c) % WordMod) + a) % WordMod = ((b + c) + a) % WordMod
      BY <2>9, <3>1, WordFact, RemainderAdds
    <3>4. (((a + b) % WordMod) + c) % WordMod = ((a + b) + c) % WordMod
      BY <2>9, <3>1, WordFact, RemainderAdds
    <3>5. /\ (b + c) + a = (a + b) + c
          /\ a + ((b + c) % WordMod) = ((b + c) % WordMod) + a
      BY <2>9, WordFact
    <3>6. QED
      BY <3>3, <3>4, <3>5 DEF Packed!Plus
  <2>11. QED
    BY <1>7, <2>3, <2>4, <2>6, <2>7, <2>8, <2>10
<1>11. QED
  BY <1>8, <1>9, <1>10 DEF N, d

\* The addend after k relocations, for a relocation of group last.
AddAt(last, k) == Packed!SumTo(Packed!Addends(last))[k]

\* What the section says stays as long as the section does.
LEMMA PackedFixed ==
  ASSUME groups' = groups
  PROVE  /\ Packed!Members' = Packed!Members
         /\ Packed!SectionNumbers' = Packed!SectionNumbers
         /\ \A k : Packed!OffsetOf(k)' = Packed!OffsetOf(k)
         /\ \A last, k : AddAt(last, k)' = AddAt(last, k)
         /\ \A k : Packed!InfoOf(k)' = Packed!InfoOf(k)
         /\ \A k : Packed!Expected(k)' = Packed!Expected(k)
<1>1. Packed!Members' = Packed!Members
  BY DEF Packed!Members
<1>2. \A g : Packed!GroupNumbers(g)' = Packed!GroupNumbers(g)
  BY DEF Packed!GroupNumbers
<1>3. Packed!SectionNumbers' = Packed!SectionNumbers
  BY <1>1, <1>2 DEF Packed!SectionNumbers
<1>4. \A g : Packed!FlagsOf(g)' = Packed!FlagsOf(g)
  BY DEF Packed!FlagsOf
<1>5. Packed!Deltas' = Packed!Deltas
  BY <1>1, <1>4 DEF Packed!Deltas
<1>6. \A last : Packed!Addends(last)' = Packed!Addends(last)
  BY <1>1, <1>4 DEF Packed!Addends
<1>7. \A k : Packed!OffsetOf(k)' = Packed!OffsetOf(k)
  BY <1>5 DEF Packed!OffsetOf
<1>8. \A last, k : AddAt(last, k)' = AddAt(last, k)
  BY <1>6 DEF AddAt
<1>9. \A k : Packed!InfoOf(k)' = Packed!InfoOf(k)
  BY <1>1, <1>4 DEF Packed!InfoOf
<1>10. \A k : Packed!Expected(k)' = Packed!Expected(k)
  BY <1>1, <1>4, <1>7, <1>8, <1>9 DEF Packed!Expected, Packed!AddendOf, AddAt
<1>11. QED
  BY <1>1, <1>3, <1>7, <1>8, <1>9, <1>10

\* What member m of group g contributes to the addends of its group.
Contribution(g, m, f) ==
  IF ~ f.has THEN 0
  ELSE IF ~ f.addend THEN Packed!Addend(g, m)
  ELSE IF m = 1 THEN Packed!Addend(g, 0) ELSE 0

LEMMA AddendFacts ==
  ASSUME NEW n \in Nat, groups \in [1..n -> Packed!Group], NEW idx,
         MembersLie(Packed!Members, idx, n, groups), NEW g \in 1..n
  PROVE  /\ AddAt(g, 0) = 0
         /\ \A k \in 0..idx[n] : AddAt(g, k) \in 0..(WordMod - 1)
         /\ \A m \in 1..groups[g].size :
              AddAt(g, idx[g - 1] + m) =
                Packed!Plus(AddAt(g, idx[g - 1] + (m - 1)),
                            Contribution(g, m, groups[g].flags))
         /\ ~ groups[g].flags.has => \A k \in 0..idx[g] : AddAt(g, k) = 0
         /\ groups[g].flags.has /\ g - 1 \in 1..n =>
              AddAt(g, idx[g - 1]) = AddAt(g - 1, idx[g - 1])
<1> DEFINE ms == Packed!Members
           N == idx[n]
           Since(h, last) == \A i \in h..last : groups[i].flags.has
           W(last, r) == IF ~ Since(r.group, last) THEN 0
                         ELSE IF ~ groups[r.group].flags.addend
                                THEN Packed!Addend(r.group, r.member)
                         ELSE IF r.member = 1 THEN Packed!Addend(r.group, 0)
                         ELSE 0
           A(last) == Packed!Addends(last)
<1>1. /\ N \in Nat /\ ms \in [1..N -> [group : 1..n, member : Nat]]
      /\ idx \in [0..n -> Nat]
      /\ idx[g] = idx[g - 1] + groups[g].size /\ idx[g] <= N
      /\ \A m \in 1..groups[g].size :
           ms[idx[g - 1] + m] = [group |-> g, member |-> m]
      /\ \A j \in 1..idx[g - 1] : ms[j].group \in 1..(g - 1)
  <2>1. n \in 0..n
    OBVIOUS
  <2>2. QED
    BY <2>1 DEF MembersLie
<1>2. \A j \in 1..N : ms[j].group \in 1..n /\ ms[j].member \in Nat
  <2> TAKE j \in 1..N
  <2>1. ms[j] \in [group : 1..n, member : Nat]
    BY <1>1
  <2>2. QED
    BY <2>1
<1>3. DOMAIN ms = 1..N
  BY <1>1
<1>4. \A last : A(last) = [j \in 1..N |-> W(last, ms[j])]
  BY <1>3 DEF Packed!Addends, Packed!FlagsOf
<1>5. \A h, m \in Nat : Packed!Addend(h, m) \in Nat
  <2> TAKE h, m \in Nat
  <2>1. Packed!Value(h, m, 3) \in 0..(WordMod - 1)
    BY ValueFact
  <2>2. QED
    BY <2>1, WordFact DEF Packed!Addend
<1> HIDE DEF ms, N, A, Since
<1>6. ASSUME NEW last PROVE A(last) \in [1..N -> Nat]
  <2>1. ASSUME NEW j \in 1..N PROVE W(last, ms[j]) \in Nat
    <3>1. ms[j].group \in Nat /\ ms[j].member \in Nat
      BY <1>2
    <3>2. /\ Packed!Addend(ms[j].group, ms[j].member) \in Nat
          /\ Packed!Addend(ms[j].group, 0) \in Nat
      BY <1>5, <3>1
    <3>3. QED
      BY <3>2
  <2> HIDE DEF W
  <2>2. QED
    BY <1>4, <2>1
<1>7. /\ groups[g].size \in Nat /\ g - 1 \in 0..n /\ g \in 0..n
      /\ idx[g - 1] \in Nat /\ idx[g] \in Nat /\ idx[g - 1] <= idx[g]
      /\ idx[g - 1] \in 0..N
  <2>1. /\ groups[g].size \in Nat /\ g - 1 \in 0..n /\ g \in 0..n
    BY PartsAssumption DEF Packed!PackedAssumption, Packed!Group
  <2>2. idx[g - 1] \in Nat /\ idx[g] \in Nat
    BY <1>1, <2>1
  <2>3. QED
    BY <1>1, <2>1, <2>2
<1>8. \A last, k : AddAt(last, k) = Packed!SumTo(A(last))[k]
  BY DEF AddAt, A
<1>17. N \in Nat
  BY <1>1
<1>18. PICK s : s = A(g)
  OBVIOUS
<1>19. s \in [1..N -> Nat]
  BY <1>6, <1>18
<1>20. /\ Packed!SumTo(s)[0] = 0
       /\ \A k \in 1..N :
            Packed!SumTo(s)[k] = Packed!Plus(Packed!SumTo(s)[k - 1], s[k])
       /\ \A k \in 0..N : Packed!SumTo(s)[k] \in 0..(WordMod - 1)
  BY <1>17, <1>19, SumStep
<1>21. \A k : AddAt(g, k) = Packed!SumTo(s)[k]
  BY <1>8, <1>18
<1>9. AddAt(g, 0) = 0
  BY <1>20, <1>21
<1>10. ASSUME NEW k \in 0..N PROVE AddAt(g, k) \in 0..(WordMod - 1)
  BY <1>20, <1>21
<1>11. ASSUME NEW m \in 1..groups[g].size
       PROVE  AddAt(g, idx[g - 1] + m) =
                Packed!Plus(AddAt(g, idx[g - 1] + (m - 1)),
                            Contribution(g, m, groups[g].flags))
  <2>1. PICK k : k = idx[g - 1] + m
    OBVIOUS
  <2>2. k \in 1..N /\ k - 1 = idx[g - 1] + (m - 1)
    <3>1. PICK a, z \in Nat : a = idx[g - 1] /\ z = groups[g].size
      BY <1>7
    <3>2. a + z <= N
      BY <1>1, <3>1
    <3>3. m \in 1..z /\ k = a + m
      BY <2>1, <3>1
    <3>4. k \in 1..N /\ k - 1 = a + (m - 1)
      BY <1>17, <3>2, <3>3
    <3>5. QED
      BY <3>1, <3>4
  <2>3. ms[k] = [group |-> g, member |-> m]
    BY <1>1, <2>1
  <2>4. Since(g, g) <=> groups[g].flags.has
    BY DEF Since
  <2>5. W(g, [group |-> g, member |-> m]) = Contribution(g, m, groups[g].flags)
    BY <2>4 DEF Contribution
  <2> HIDE DEF W
  <2>6. s[k] = Contribution(g, m, groups[g].flags)
    BY <1>4, <1>18, <2>2, <2>3, <2>5
  <2>7. Packed!SumTo(s)[k] = Packed!Plus(Packed!SumTo(s)[k - 1], s[k])
    BY <1>20, <2>2
  <2>8. QED
    BY <1>21, <2>1, <2>2, <2>6, <2>7
<1>12. ASSUME NEW j \in 1..N, ms[j].group \in 1..g
       PROVE  /\ ~ groups[g].flags.has => A(g)[j] = 0
              /\ groups[g].flags.has /\ ms[j].group \in 1..(g - 1) =>
                   A(g)[j] = A(g - 1)[j]
  <2>1. g \in ms[j].group..g
    BY <1>12
  <2>2. ~ groups[g].flags.has => ~ Since(ms[j].group, g)
    BY <2>1 DEF Since
  <2>3. groups[g].flags.has =>
          (Since(ms[j].group, g) <=> Since(ms[j].group, g - 1))
    <3>1. \A i \in ms[j].group..g : i \in ms[j].group..(g - 1) \/ i = g
      BY <1>12
    <3>2. \A i \in ms[j].group..(g - 1) : i \in ms[j].group..g
      BY <1>12
    <3>3. QED
      BY <3>1, <3>2 DEF Since
  <2>4. A(g)[j] = W(g, ms[j]) /\ A(g - 1)[j] = W(g - 1, ms[j])
    <3> HIDE DEF W
    <3>1. QED
      BY <1>4
  <2>5. QED
    BY <2>2, <2>3, <2>4
<1>13. ASSUME NEW j \in 1..idx[g] PROVE j \in 1..N /\ ms[j].group \in 1..g
  <2>1. j \in 1..N
    BY <1>1, <1>7
  <2>2. CASE j \in 1..idx[g - 1]
    BY <1>1, <2>1, <2>2
  <2>3. CASE j \notin 1..idx[g - 1]
    <3>1. PICK m : m = j - idx[g - 1]
      OBVIOUS
    <3>5. PICK a, z \in Nat : a = idx[g - 1] /\ z = groups[g].size
      BY <1>7
    <3>6. j \in 1..(a + z) /\ ~ j <= a
      BY <1>1, <1>13, <2>3, <3>5
    <3>7. m \in 1..z /\ a + m = j
      BY <3>1, <3>5, <3>6, SMTT(30)
    <3>2. m \in 1..groups[g].size /\ idx[g - 1] + m = j
      BY <3>5, <3>7
    <3>3. ms[j] = [group |-> g, member |-> m]
      BY <1>1, <3>2
    <3>4. QED
      BY <2>1, <3>3
  <2>4. QED
    BY <2>2, <2>3
<1> HIDE DEF W
<1>14. ASSUME ~ groups[g].flags.has, NEW k \in 0..idx[g] PROVE AddAt(g, k) = 0
  <2>1. k \in 0..N
    BY <1>1, <1>7
  <2>2. \A j \in 1..k : A(g)[j] = 0
    <3> TAKE j \in 1..k
    <3>1. j \in 1..idx[g]
      BY <1>7
    <3>2. QED
      BY <1>12, <1>13, <1>14, <3>1
  <2>3. \A j \in 1..k : s[j] = 0
    BY <1>18, <2>2
  <2>4. Packed!SumTo(s)[k] = 0
    BY <1>17, <1>19, <2>1, <2>3, SumZero
  <2>5. QED
    BY <1>21, <2>4
<1>15. ASSUME groups[g].flags.has, g - 1 \in 1..n
       PROVE  AddAt(g, idx[g - 1]) = AddAt(g - 1, idx[g - 1])
  <2>1. \A j \in 1..idx[g - 1] : A(g)[j] = A(g - 1)[j]
    <3> TAKE j \in 1..idx[g - 1]
    <3>1. j \in 1..idx[g] /\ ms[j].group \in 1..(g - 1)
      BY <1>1, <1>7
    <3>2. QED
      BY <1>12, <1>13, <1>15, <3>1
  <2>2. PICK t : t = A(g - 1)
    OBVIOUS
  <2>3. t \in [1..N -> Nat]
    BY <1>6, <2>2
  <2>4. PICK a \in 0..N : a = idx[g - 1]
    BY <1>7
  <2>5. \A j \in 1..a : s[j] = t[j]
    BY <1>18, <2>1, <2>2, <2>4
  <2>6. Packed!SumTo(s)[a] = Packed!SumTo(t)[a]
    BY <1>17, <1>19, <2>3, <2>5, SumAgrees
  <2>7. QED
    BY <1>8, <1>18, <2>2, <2>4, <2>6
<1>16. QED
  BY <1>9, <1>10, <1>11, <1>14, <1>15 DEF N

-----------------------------------------------------------------------------
(* Where the iterator is.                                                  *)

IsIterator(i) ==
  i = [cur |-> i.cur, count |-> i.count, group_size |-> i.group_size,
       group_index |-> i.group_index, index |-> i.index, flags |-> i.flags,
       delta |-> i.delta, r_offset |-> i.r_offset, r_info |-> i.r_info,
       r_addend |-> i.r_addend]

\* It has read the first g groups.
GroupsRead(i, idx, at, g) ==
  /\ i.cur = at[g] /\ i.index = idx[g] /\ i.group_index = i.group_size
  /\ i.r_offset = Packed!OffsetOf(idx[g])
  /\ i.r_addend = IF g = 0 THEN 0 ELSE AddAt(g, idx[g])

\* It has read the fields and the first m members of group g.
MembersRead(i, idx, q, g, m, f, size) ==
  /\ i.cur = q[g][m] /\ i.index = idx[g - 1] + m
  /\ i.group_index = m /\ i.group_size = size /\ i.flags = f
  /\ f.delta => i.delta = Packed!Delta(g, 0)
  /\ f.info => i.r_info = Packed!Info(g, 0)
  /\ i.r_offset = Packed!OffsetOf(idx[g - 1] + m)
  /\ i.r_addend = IF m = 0 /\ Packed!GroupedAddend(f)
                    THEN Packed!Plus(AddAt(g, idx[g - 1]), Packed!Addend(g, 0))
                    ELSE AddAt(g, idx[g - 1] + m)

\* The stream is the first numbers of the section.
IsPrefixOf(s, sn) ==
  /\ Len(s) \in Nat /\ Len(s) <= Len(sn)
  /\ \A k \in 1..Len(s) : s[k] = sn[k]

LEMMA ReadGroupAt ==
  ASSUME NEW n \in Nat, groups \in [1..n -> Packed!Group], NEW idx,
         MembersLie(Packed!Members, idx, n, groups), NEW sn, NEW at, NEW q,
         SectionLies(sn, at, q, n, groups), IsPrefixOf(stream, sn),
         NEW g \in 1..n, NEW i, IsIterator(i), GroupsRead(i, idx, at, g - 1),
         i.cur + 2 <= Len(stream),
         i.cur + Packed!HeaderSize(stream[i.cur + 2]) <= Len(stream)
  PROVE  /\ IsIterator(Packed!ReadGroup(i))
         /\ Packed!ReadGroup(i).count = i.count
         /\ MembersRead(Packed!ReadGroup(i), idx, q, g, 0, groups[g].flags,
                        groups[g].size)
<1> PICK f, size : f = groups[g].flags /\ size = groups[g].size
  OBVIOUS
<1> PICK o : o = at[g - 1]
  OBVIOUS
<1>1. f \in Packed!Flags /\ size \in Nat /\ o \in Nat /\ g - 1 \in 0..n
  <2>1. g - 1 \in 0..n
    OBVIOUS
  <2>2. QED
    BY <2>1, PartsAssumption
    DEF Packed!PackedAssumption, Packed!Group, SectionLies
<1>2. /\ f.delta \in BOOLEAN /\ f.info \in BOOLEAN /\ f.addend \in BOOLEAN
      /\ f.has \in BOOLEAN
  BY <1>1 DEF Packed!Flags
<1>3. i.cur = o
  BY DEF GroupsRead
<1>4. GroupLies(sn, o, q[g], g, f, size)
  BY DEF SectionLies
<1>5. q[g][0] = o + Packed!HeaderSize(f) /\ GroupAt(sn, o, g, f, size)
  BY <1>4 DEF GroupLies
<1>6. stream[o + 2] = f /\ stream[o + 1] = size
  <2>1. o + 2 \in 1..Len(stream) /\ o + 1 \in 1..Len(stream)
    BY <1>1, <1>3, SMTT(30) DEF IsPrefixOf
  <2>2. QED
    BY <1>5, <2>1 DEF IsPrefixOf, GroupAt
<1>7. o + Packed!HeaderSize(f) <= Len(stream)
  BY <1>3, <1>6
<1>8. PICK d, e, a \in {0, 1} :
        /\ d = Packed!One(f.delta) /\ e = Packed!One(f.info)
        /\ a = Packed!One(Packed!GroupedAddend(f))
  BY DEF Packed!One
<1>9. /\ f.delta => d = 1
      /\ f.info => e = 1
      /\ Packed!HeaderSize(f) = 2 + d + e + a
  BY <1>8 DEF Packed!One, Packed!HeaderSize
<1>10. /\ f.delta => stream[o + 3] = Packed!Delta(g, 0)
       /\ f.info => stream[o + 3 + Packed!One(f.delta)] = Packed!Info(g, 0)
       /\ Packed!GroupedAddend(f) =>
            stream[o + Packed!HeaderSize(f)] = Packed!Addend(g, 0)
  <2>1. f.delta => o + 3 \in 1..Len(stream)
    BY <1>1, <1>7, <1>9, SMTT(30) DEF IsPrefixOf
  <2>2. f.info => o + 3 + d \in 1..Len(stream)
    <3>1. PICK len \in Nat : len = Len(stream)
      BY DEF IsPrefixOf
    <3>2. ASSUME f.info PROVE o + (2 + d + 1 + a) <= len
      BY <1>7, <1>9, <3>1, <3>2
    <3>5. o \in Nat /\ d \in Nat /\ a \in Nat
      BY <1>1
    <3>3. ASSUME f.info PROVE o + 3 + d \in 1..len
      BY <3>1, <3>2, <3>3, <3>5, SMTT(30)
    <3>4. QED
      BY <1>2, <3>1, <3>3
  <2>3. o + Packed!HeaderSize(f) \in 1..Len(stream)
    <3>1. PICK h \in Nat : h = Packed!HeaderSize(f) /\ h >= 2
      BY <1>8, <1>9
    <3>2. QED
      BY <1>1, <1>7, <3>1 DEF IsPrefixOf
  <2>4. QED
    BY <1>5, <1>8, <2>1, <2>2, <2>3 DEF IsPrefixOf, GroupAt
<1>11. PICK j : j = Packed!ReadGroup(i)
  OBVIOUS
<1>13. /\ IsIterator(j) /\ j.count = i.count
       /\ j.cur = o + Packed!HeaderSize(f) /\ j.index = i.index
       /\ j.group_index = 0 /\ j.group_size = size /\ j.flags = f
       /\ f.delta => j.delta = Packed!Delta(g, 0)
       /\ f.info => j.r_info = Packed!Info(g, 0)
       /\ j.r_offset = i.r_offset
       /\ j.r_addend = IF Packed!GroupedAddend(f)
                         THEN Packed!Plus(i.r_addend, Packed!Addend(g, 0))
                         ELSE IF ~ f.has THEN 0 ELSE i.r_addend
  <2>1. PICK last : last = o + Packed!HeaderSize(f)
    OBVIOUS
  <2>2. PICK vd, vi, va, z :
          /\ vd = IF f.delta THEN stream[i.cur + 3] ELSE i.delta
          /\ vi = IF f.info THEN stream[i.cur + 3 + Packed!One(f.delta)]
                  ELSE i.r_info
          /\ va = IF Packed!GroupedAddend(f)
                    THEN Packed!Plus(i.r_addend, stream[last])
                    ELSE IF ~ f.has THEN 0 ELSE i.r_addend
          /\ z = stream[i.cur + 1]
    OBVIOUS
  <2>3. j = [i EXCEPT !.cur = last, !.group_size = z, !.flags = f,
                      !.delta = vd, !.r_info = vi, !.r_addend = va,
                      !.group_index = 0]
    <3>1. f = stream[i.cur + 2] /\ last = i.cur + Packed!HeaderSize(f)
      BY <1>3, <1>6, <2>1
    <3>2. j = [i EXCEPT
                 !.cur = last, !.group_size = stream[i.cur + 1], !.flags = f,
                 !.delta = IF f.delta THEN stream[i.cur + 3] ELSE @,
                 !.r_info = IF f.info
                              THEN stream[i.cur + 3 + Packed!One(f.delta)]
                              ELSE @,
                 !.r_addend = IF Packed!GroupedAddend(f)
                                THEN Packed!Plus(@, stream[last])
                                ELSE IF ~ f.has THEN 0 ELSE @,
                 !.group_index = 0]
      BY <1>11, <3>1 DEF Packed!ReadGroup
    <3>3. QED
      BY <2>2, <3>2
  <2>4. /\ IsIterator(j) /\ j.count = i.count /\ j.cur = last
        /\ j.index = i.index /\ j.group_index = 0 /\ j.group_size = z
        /\ j.flags = f /\ j.delta = vd /\ j.r_info = vi /\ j.r_addend = va
        /\ j.r_offset = i.r_offset
    BY <2>3 DEF IsIterator
  <2>5. /\ z = size
        /\ f.delta => vd = Packed!Delta(g, 0)
        /\ f.info => vi = Packed!Info(g, 0)
        /\ va = IF Packed!GroupedAddend(f)
                  THEN Packed!Plus(i.r_addend, Packed!Addend(g, 0))
                  ELSE IF ~ f.has THEN 0 ELSE i.r_addend
    BY <1>3, <1>6, <1>10, <2>1, <2>2
  <2>6. QED
    BY <2>1, <2>4, <2>5
<1>14. /\ AddAt(g, 0) = 0
       /\ ~ f.has => \A k \in 0..idx[g] : AddAt(g, k) = 0
       /\ f.has /\ g - 1 \in 1..n =>
            AddAt(g, idx[g - 1]) = AddAt(g - 1, idx[g - 1])
  BY AddendFacts
<1>15. PICK x : x = idx[g - 1]
  OBVIOUS
<1>16. x \in Nat /\ x + size = idx[g] /\ x \in 0..idx[g] /\ (g = 1 => x = 0)
  BY <1>1, <1>15 DEF MembersLie
<1>17. f.has => i.r_addend = AddAt(g, x)
  <2>1. CASE g = 1
    BY <1>14, <1>15, <1>16, <2>1 DEF GroupsRead
  <2>2. CASE g # 1
    <3>1. g - 1 \in 1..n /\ g - 1 # 0
      BY <2>2
    <3>2. QED
      BY <1>14, <1>15, <3>1 DEF GroupsRead
  <2>3. QED
    BY <2>1, <2>2
<1>18. ~ f.has => AddAt(g, x) = 0
  BY <1>14, <1>16
<1>19. j.r_addend = IF Packed!GroupedAddend(f)
                      THEN Packed!Plus(AddAt(g, x), Packed!Addend(g, 0))
                      ELSE AddAt(g, x)
  <2>1. Packed!GroupedAddend(f) => f.has
    BY DEF Packed!GroupedAddend
  <2>2. QED
    BY <1>13, <1>17, <1>18, <2>1
<1>20. j.index = x /\ j.r_offset = Packed!OffsetOf(x) /\ x + 0 = x
  BY <1>13, <1>15, <1>16 DEF GroupsRead
<1>21. MembersRead(j, idx, q, g, 0, f, size)
  BY <1>5, <1>13, <1>15, <1>19, <1>20 DEF MembersRead
<1>22. QED
  BY <1>11, <1>13, <1>21

LEMMA ReadMemberAt ==
  ASSUME NEW n \in Nat, groups \in [1..n -> Packed!Group], NEW idx,
         MembersLie(Packed!Members, idx, n, groups), NEW sn, NEW at, NEW q,
         SectionLies(sn, at, q, n, groups), IsPrefixOf(stream, sn),
         NEW g \in 1..n, NEW m \in 1..groups[g].size,
         rela \in BOOLEAN, ~ rela => ~ groups[g].flags.has,
         NEW i, IsIterator(i),
         MembersRead(i, idx, q, g, m - 1, groups[g].flags, groups[g].size),
         i.cur + Packed!MemberSize(groups[g].flags) <= Len(stream),
         NEW j, j = Packed!ReadMember(i)
  PROVE  /\ IsIterator(j) /\ j.count = i.count
         /\ MembersRead(j, idx, q, g, m, groups[g].flags, groups[g].size)
         /\ idx[g - 1] + m \in 1..idx[n] /\ idx[g - 1] + (m - 1) \in Nat
         /\ [offset |-> j.r_offset, info |-> j.r_info, addend |-> j.r_addend]
              = Packed!Expected(idx[g - 1] + m)
<1> PICK f, size : f = groups[g].flags /\ size = groups[g].size
  OBVIOUS
<1>1. f \in Packed!Flags /\ size \in Nat /\ g - 1 \in 0..n /\ m \in 1..size
  BY PartsAssumption DEF Packed!PackedAssumption, Packed!Group
<1>2. /\ f.delta \in BOOLEAN /\ f.info \in BOOLEAN /\ f.addend \in BOOLEAN
      /\ f.has \in BOOLEAN
  BY <1>1 DEF Packed!Flags
<1>3. GroupLies(sn, at[g - 1], q[g], g, f, size)
  BY DEF SectionLies
<1>4. m - 1 \in 0..size /\ m \in Nat
  BY <1>1
<1>5. PICK o : o = q[g][m - 1]
  OBVIOUS
<1>6. /\ o \in Nat /\ q[g][m] = o + MemberLen(f)
      /\ MemberAt(sn, o, g, m, f)
  BY <1>1, <1>3, <1>4, <1>5 DEF GroupLies
<1>7. /\ i.cur = o /\ i.index = idx[g - 1] + (m - 1)
      /\ i.group_index = m - 1 /\ i.group_size = size /\ i.flags = f
      /\ f.delta => i.delta = Packed!Delta(g, 0)
      /\ f.info => i.r_info = Packed!Info(g, 0)
      /\ i.r_offset = Packed!OffsetOf(idx[g - 1] + (m - 1))
      /\ i.r_addend = IF m - 1 = 0 /\ Packed!GroupedAddend(f)
                    THEN Packed!Plus(AddAt(g, idx[g - 1]), Packed!Addend(g, 0))
                    ELSE AddAt(g, idx[g - 1] + (m - 1))
  BY <1>5 DEF MembersRead
<1>8. (rela /\ f.has /\ ~ f.addend) = (f.has /\ ~ f.addend)
  BY Zenon
<1>9. Packed!MemberSize(f) = MemberLen(f)
  BY <1>8 DEF Packed!MemberSize, MemberLen
<1>10. o + MemberLen(f) <= Len(stream)
  BY <1>7, <1>9
<1>11. PICK d, e, a \in {0, 1} :
         /\ d = Packed!One(~ f.delta) /\ e = Packed!One(~ f.info)
         /\ a = Packed!One(f.has /\ ~ f.addend)
  BY DEF Packed!One
<1>12. /\ ~ f.delta => d = 1
       /\ ~ f.info => e = 1
       /\ f.has /\ ~ f.addend => a = 1
       /\ MemberLen(f) = d + e + a
  BY <1>11 DEF Packed!One, MemberLen
<1>13. /\ ~ f.delta => stream[o + 1] = Packed!Delta(g, m)
       /\ ~ f.info => stream[o + 1 + Packed!One(~ f.delta)] = Packed!Info(g, m)
       /\ f.has /\ ~ f.addend =>
            stream[o + MemberLen(f)] = Packed!Addend(g, m)
  <2>1. ~ f.delta => o + 1 \in 1..Len(stream)
    BY <1>6, <1>10, <1>12 DEF IsPrefixOf
  <2>2. ~ f.info => o + 1 + d \in 1..Len(stream)
    BY <1>6, <1>10, <1>12 DEF IsPrefixOf
  <2>3. f.has /\ ~ f.addend => o + MemberLen(f) \in 1..Len(stream)
    BY <1>6, <1>10, <1>12 DEF IsPrefixOf
  <2>4. QED
    BY <1>6, <1>11, <2>1, <2>2, <2>3 DEF IsPrefixOf, MemberAt
<1>14. j = [i EXCEPT !.cur = o + MemberLen(f),
                     !.r_offset = Packed!Plus(@, IF f.delta
                                                   THEN Packed!Delta(g, 0)
                                                   ELSE Packed!Delta(g, m)),
                     !.r_info = IF f.info THEN @ ELSE Packed!Info(g, m),
                     !.r_addend = IF f.has /\ ~ f.addend
                                    THEN Packed!Plus(@, Packed!Addend(g, m))
                                    ELSE @,
                     !.index = @ + 1, !.group_index = @ + 1]
  BY <1>7, <1>8, <1>9, <1>13 DEF Packed!ReadMember
<1>15. /\ IsIterator(j) /\ j.count = i.count
       /\ j.cur = o + MemberLen(f) /\ j.index = i.index + 1
       /\ j.group_index = i.group_index + 1 /\ j.group_size = size
       /\ j.flags = f /\ j.delta = i.delta
       /\ j.r_offset = Packed!Plus(i.r_offset, IF f.delta
                                                 THEN Packed!Delta(g, 0)
                                                 ELSE Packed!Delta(g, m))
       /\ j.r_info = IF f.info THEN i.r_info ELSE Packed!Info(g, m)
       /\ j.r_addend = IF f.has /\ ~ f.addend
                         THEN Packed!Plus(i.r_addend, Packed!Addend(g, m))
                         ELSE i.r_addend
  BY <1>7, <1>14 DEF IsIterator
<1>16. PICK x, N : x = idx[g - 1] /\ N = idx[n]
  OBVIOUS
<1>17. /\ x \in Nat /\ idx[g] = x + size /\ idx[g] <= N /\ N \in Nat
       /\ Packed!Members[x + m] = [group |-> g, member |-> m]
  <2>1. g \in 0..n /\ n \in 0..n
    OBVIOUS
  <2>2. QED
    BY <1>1, <1>16, <2>1 DEF MembersLie
<1>18. /\ x + m \in 1..N /\ x + (m - 1) \in Nat /\ x + m \in 0..idx[g]
       /\ x + (m - 1) \in 0..idx[g] /\ x + (m - 1) \in 0..N
       /\ (x + (m - 1)) + 1 = x + m /\ (m - 1) + 1 = m
  <2>1. PICK y \in Nat : y = idx[g]
    BY <1>1, <1>17
  <2>2. y = x + size /\ y <= N
    BY <1>17, <2>1
  <2>3. /\ x + m \in 1..N /\ x + (m - 1) \in Nat /\ x + m \in 0..y
        /\ x + (m - 1) \in 0..y /\ x + (m - 1) \in 0..N
        /\ (x + (m - 1)) + 1 = x + m /\ (m - 1) + 1 = m
    BY <1>1, <1>4, <1>17, <2>2
  <2>4. QED
    BY <2>1, <2>3
<1>19. Packed!OffsetOf(x + m) =
         Packed!Plus(Packed!OffsetOf(x + (m - 1)),
                     Packed!Delta(g, IF f.delta THEN 0 ELSE m))
  BY <1>1, <1>16, OffsetFacts
<1>20. j.r_offset = Packed!OffsetOf(x + m)
  BY <1>2, <1>7, <1>15, <1>16, <1>19
<1>21. /\ \A k \in 0..N : AddAt(g, k) \in 0..(WordMod - 1)
       /\ AddAt(g, x + m) = Packed!Plus(AddAt(g, x + (m - 1)),
                                        Contribution(g, m, f))
       /\ ~ f.has => \A k \in 0..idx[g] : AddAt(g, k) = 0
  BY <1>1, <1>16, AddendFacts
<1>22. j.r_addend = AddAt(g, x + m)
  <2>1. CASE ~ f.has
    <3>1. i.r_addend = AddAt(g, x + (m - 1))
      BY <1>7, <1>16, <2>1 DEF Packed!GroupedAddend
    <3>2. QED
      BY <1>15, <1>18, <1>21, <2>1, <3>1
  <2>2. CASE f.has /\ ~ f.addend
    <3>1. i.r_addend = AddAt(g, x + (m - 1))
      BY <1>7, <1>16, <2>2 DEF Packed!GroupedAddend
    <3>2. QED
      BY <1>15, <1>21, <2>2, <3>1 DEF Contribution
  <2>3. CASE f.has /\ f.addend /\ m = 1
    <3>1. m - 1 = 0 /\ x + (m - 1) = x
      BY <1>17, <2>3
    <3>2. i.r_addend = Packed!Plus(AddAt(g, x), Packed!Addend(g, 0))
      BY <1>7, <1>16, <2>3, <3>1 DEF Packed!GroupedAddend
    <3>3. Contribution(g, m, f) = Packed!Addend(g, 0)
      BY <2>3 DEF Contribution
    <3>4. QED
      BY <1>15, <1>21, <2>3, <3>1, <3>2, <3>3
  <2>4. CASE f.has /\ f.addend /\ m # 1
    <3>1. m - 1 # 0
      BY <1>4, <2>4
    <3>2. i.r_addend = AddAt(g, x + (m - 1))
      BY <1>7, <1>16, <3>1
    <3>3. Contribution(g, m, f) = 0
      BY <2>4 DEF Contribution
    <3>4. PICK v \in 0..(WordMod - 1) : v = AddAt(g, x + (m - 1))
      BY <1>18, <1>21
    <3>5. Packed!Plus(v, 0) = v
      <4>1. v % WordMod = v
        BY WordFact
      <4>2. QED
        BY <4>1 DEF Packed!Plus
    <3>6. QED
      BY <1>15, <1>21, <2>4, <3>2, <3>3, <3>4, <3>5
  <2>5. QED
    BY <1>2, <2>1, <2>2, <2>3, <2>4
<1>23. j.r_info = IF f.info THEN Packed!Info(g, 0) ELSE Packed!Info(g, m)
  BY <1>7, <1>15
<1>24. MembersRead(j, idx, q, g, m, f, size)
  <2>1. m # 0 /\ j.index = x + m /\ j.group_index = m
    BY <1>4, <1>1, <1>7, <1>15, <1>16, <1>18
  <2>2. QED
    BY <1>6, <1>7, <1>15, <1>16, <1>20, <1>22, <1>23, <2>1 DEF MembersRead
<1>25. Packed!Expected(x + m) =
         [offset |-> j.r_offset, info |-> j.r_info, addend |-> j.r_addend]
  <2>1. Packed!AddendOf(x + m) = AddAt(g, x + m)
    BY <1>17 DEF Packed!AddendOf, AddAt
  <2>2. Packed!InfoOf(x + m) = Packed!Info(g, IF f.info THEN 0 ELSE m)
    BY <1>17 DEF Packed!InfoOf, Packed!FlagsOf
  <2>3. QED
    BY <1>2, <1>20, <1>22, <1>23, <2>1, <2>2 DEF Packed!Expected
<1>26. QED
  BY <1>15, <1>16, <1>18, <1>24, <1>25

-----------------------------------------------------------------------------
(* The invariant of the iterator: it is behind some member of some group,  *)
(* wherever these lie.                                                     *)

Position(i, idx, at, q, n, gs) ==
  \/ GroupsRead(i, idx, at, 0)
  \/ \E g \in 1..n : \E m \in 1..gs[g].size :
       MembersRead(i, idx, q, g, m, gs[g].flags, gs[g].size)

PackedInv ==
  /\ groups \in Seq(Packed!Group) /\ rela \in BOOLEAN /\ pc \in {"next", "end"}
  /\ ~ rela => \A g \in 1..Len(groups) : ~ groups[g].flags.has
  /\ IsPrefixOf(stream, Packed!SectionNumbers)
  /\ IsIterator(it)
  /\ out \in Seq({Packed!Expected(k) : k \in Nat})
  /\ Len(out) = it.index /\ it.index <= Len(Packed!Members)
  /\ \A k \in 1..Len(out) : out[k] = Packed!Expected(k)
  /\ Len(stream) < 2 =>
       it.group_index = it.group_size /\ it.cur = Len(stream)
  /\ Len(stream) >= 2 => it.count = Len(Packed!Members)
  /\ Len(stream) >= 2 =>
       \A idx, at, q :
         /\ MembersLie(Packed!Members, idx, Len(groups), groups)
         /\ SectionLies(Packed!SectionNumbers, at, q, Len(groups), groups)
         => Position(it, idx, at, q, Len(groups), groups)
  /\ pc = "end" /\ Len(stream) = Len(Packed!SectionNumbers) =>
       Len(out) = Len(Packed!Members)

\* Sections of any number of groups.
LEMMA SectionFacts ==
  ASSUME groups \in Seq(Packed!Group), NEW n, n = Len(groups)
  PROVE  /\ n \in Nat /\ groups \in [1..n -> Packed!Group]
         /\ Packed!SectionNumbers \in Seq(Numbers)
         /\ Packed!SectionNumbers[1] = Len(Packed!Members)
         /\ Packed!SectionNumbers[2] = Packed!FirstOffset
         /\ 2 <= Len(Packed!SectionNumbers) /\ Len(Packed!Members) \in Nat
         /\ \E idx : MembersLie(Packed!Members, idx, n, groups)
         /\ \E at, q : SectionLies(Packed!SectionNumbers, at, q, n, groups)
<1>1. n \in Nat /\ groups \in [1..n -> Packed!Group]
  OBVIOUS
<1>2. PICK idx : MembersLie(Packed!Members, idx, n, groups)
  BY <1>1, MembersFacts
<1>3. Len(Packed!Members) \in Nat
  <2>1. n \in 0..n
    BY <1>1
  <2>2. QED
    BY <1>2, <2>1 DEF MembersLie
<1>4. PICK sn : sn = Packed!SectionNumbers
  OBVIOUS
<1>5. /\ sn[1] = Len(Packed!Members) /\ sn[2] = Packed!FirstOffset
      /\ sn \in Seq(Numbers) /\ 2 <= Len(sn)
      /\ \E at, q : SectionLies(sn, at, q, n, groups)
  BY <1>1, <1>3, <1>4, SectionNumbersFacts
<1>6. QED
  BY <1>1, <1>2, <1>3, <1>4, <1>5

LEMMA GroupsReadAt ==
  ASSUME NEW n \in Nat, groups \in [1..n -> Packed!Group], NEW idx,
         MembersLie(Packed!Members, idx, n, groups), NEW sn, NEW at, NEW q,
         SectionLies(sn, at, q, n, groups), NEW g \in 1..n, NEW i,
         MembersRead(i, idx, q, g, groups[g].size, groups[g].flags,
                     groups[g].size)
  PROVE  GroupsRead(i, idx, at, g)
<1>1. PICK size \in Nat : size = groups[g].size /\ size # 0
  BY PartsAssumption DEF Packed!PackedAssumption, Packed!Group
<1>2. q[g][size] = at[g]
  BY <1>1 DEF SectionLies
<1>3. idx[g - 1] + size = idx[g] /\ g # 0
  BY <1>1 DEF MembersLie
<1>4. QED
  BY <1>1, <1>2, <1>3 DEF GroupsRead, MembersRead

\* The iterator is either between two groups or within one.
LEMMA PositionIs ==
  ASSUME NEW n \in Nat, groups \in [1..n -> Packed!Group], NEW idx,
         MembersLie(Packed!Members, idx, n, groups), NEW sn, NEW at, NEW q,
         SectionLies(sn, at, q, n, groups), NEW i,
         Position(i, idx, at, q, n, groups)
  PROVE  \/ \E h \in 0..n : GroupsRead(i, idx, at, h)
         \/ \E g \in 1..n : \E m \in 2..groups[g].size :
              /\ MembersRead(i, idx, q, g, m - 1, groups[g].flags,
                             groups[g].size)
              /\ i.group_index # i.group_size
<1>1. CASE GroupsRead(i, idx, at, 0)
  BY <1>1
<1>2. ASSUME NEW g \in 1..n, NEW l \in 1..groups[g].size,
             MembersRead(i, idx, q, g, l, groups[g].flags, groups[g].size)
      PROVE  \/ \E h \in 0..n : GroupsRead(i, idx, at, h)
             \/ \E m \in 2..groups[g].size :
                  /\ MembersRead(i, idx, q, g, m - 1, groups[g].flags,
                                 groups[g].size)
                  /\ i.group_index # i.group_size
  <2>1. PICK size \in Nat : size = groups[g].size
    BY PartsAssumption DEF Packed!PackedAssumption, Packed!Group
  <2>2. CASE l = size
    <3>1. GroupsRead(i, idx, at, g)
      BY <1>2, <2>1, <2>2, GroupsReadAt
    <3>2. QED
      BY <3>1
  <2>3. CASE l # size
    <3>1. l + 1 \in 2..size /\ (l + 1) - 1 = l
      BY <2>1, <2>3
    <3>2. i.group_index # i.group_size
      BY <1>2, <2>1, <2>3 DEF MembersRead
    <3>3. QED
      BY <1>2, <2>1, <3>1, <3>2
  <2>4. QED
    BY <2>2, <2>3
<1>3. QED
  BY <1>1, <1>2 DEF Position

\* One relocation is returned: the next one of the section.
LEMMA NextRelocAt ==
  ASSUME PackedInv, Packed!NextReloc, NEW n, n = Len(groups), NEW idx, NEW at,
         NEW q, MembersLie(Packed!Members, idx, n, groups),
         SectionLies(Packed!SectionNumbers, at, q, n, groups)
  PROVE  /\ IsIterator(it') /\ it'.count = it.count
         /\ it'.index = it.index + 1 /\ it'.index \in 1..Len(Packed!Members)
         /\ [offset |-> it'.r_offset, info |-> it'.r_info,
             addend |-> it'.r_addend] = Packed!Expected(it'.index)
         /\ 2 <= Len(stream) /\ Position(it', idx, at, q, n, groups)
<1> PICK sn : sn = Packed!SectionNumbers
  OBVIOUS
<1>1. /\ n \in Nat /\ groups \in [1..n -> Packed!Group]
      /\ Len(Packed!Members) \in Nat
  BY SectionFacts DEF PackedInv
<1>2. /\ SectionLies(sn, at, q, n, groups) /\ IsPrefixOf(stream, sn)
      /\ rela \in BOOLEAN /\ IsIterator(it)
      /\ \A g \in 1..n : ~ rela => ~ groups[g].flags.has
  BY DEF PackedInv
<1>3. /\ it.index < it.count /\ Packed!Readable
      /\ it' = Packed!ReadMember(Packed!InGroup)
  BY DEF Packed!NextReloc
<1>4. 2 <= Len(stream)
  <2>1. Len(stream) \in Nat
    BY <1>2 DEF IsPrefixOf
  <2>2. ASSUME Len(stream) < 2 PROVE FALSE
    <3>1. it.cur = Len(stream) /\ Packed!AtGroup
      BY <2>2 DEF PackedInv, Packed!AtGroup
    <3>2. it.cur + 2 <= Len(stream)
      BY <1>3, <3>1 DEF Packed!Readable, Packed!GroupReadable
    <3>3. QED
      BY <2>1, <3>1, <3>2
  <2>3. QED
    BY <2>1, <2>2
<1>5. it.count = Len(Packed!Members) /\ Position(it, idx, at, q, n, groups)
  <2>1. Len(stream) >= 2
    BY <1>2, <1>4 DEF IsPrefixOf
  <2>2. QED
    BY <2>1 DEF PackedInv
<1>6. idx \in [0..n -> Nat] /\ Len(Packed!Members) = idx[n]
  BY DEF MembersLie
\* What ReadMemberAt says of the next member.
<1>7. ASSUME NEW g \in 1..n, NEW m \in 1..groups[g].size, NEW i,
             IsIterator(i), i = Packed!InGroup,
             i.count = it.count, i.index = it.index,
             MembersRead(i, idx, q, g, m - 1, groups[g].flags, groups[g].size)
      PROVE  /\ IsIterator(it') /\ it'.count = it.count
             /\ it'.index = it.index + 1
             /\ it'.index \in 1..Len(Packed!Members)
             /\ [offset |-> it'.r_offset, info |-> it'.r_info,
                 addend |-> it'.r_addend] = Packed!Expected(it'.index)
             /\ Position(it', idx, at, q, n, groups)
  <2>1. i.flags = groups[g].flags /\ i.index = idx[g - 1] + (m - 1)
    BY <1>7 DEF MembersRead
  <2>2. i.cur + Packed!MemberSize(groups[g].flags) <= Len(stream)
    BY <1>3, <1>7, <2>1 DEF Packed!Readable
  <2>3. PICK j : j = Packed!ReadMember(i)
    OBVIOUS
  <2>4. ~ rela => ~ groups[g].flags.has
    BY <1>2
  <2>5. /\ IsIterator(j) /\ j.count = i.count
        /\ MembersRead(j, idx, q, g, m, groups[g].flags, groups[g].size)
        /\ idx[g - 1] + m \in 1..idx[n] /\ idx[g - 1] + (m - 1) \in Nat
        /\ [offset |-> j.r_offset, info |-> j.r_info, addend |-> j.r_addend]
             = Packed!Expected(idx[g - 1] + m)
    BY <1>1, <1>2, <1>7, <2>2, <2>3, <2>4, ReadMemberAt, SMTT(30)
  <2>6. j.index = idx[g - 1] + m
    BY <2>5 DEF MembersRead
  <2>7. j.index = i.index + 1
    <3>1. g - 1 \in 0..n
      OBVIOUS
    <3>2. PICK x \in Nat : x = idx[g - 1]
      BY <1>6, <3>1
    <3>3. PICK size \in Nat : size = groups[g].size
      BY <1>1, PartsAssumption DEF Packed!PackedAssumption, Packed!Group
    <3>4. m \in Nat
      BY <3>3
    <3>5. QED
      BY <2>1, <2>6, <3>2, <3>4
  <2>8. Position(j, idx, at, q, n, groups)
    BY <2>5 DEF Position
  <2>9. j = it'
    BY <1>3, <1>7, <2>3
  <2>10. QED
    BY <1>6, <1>7, <2>5, <2>6, <2>7, <2>8, <2>9
<1>8. CASE \E h \in 0..n : GroupsRead(it, idx, at, h)
  <2>1. PICK h \in 0..n : GroupsRead(it, idx, at, h)
    BY <1>8
  <2>2. h # n
    <3>1. it.index = idx[h]
      BY <2>1 DEF GroupsRead
    <3>2. n \in 0..n
      BY <1>1
    <3>3. idx[n] \in Nat
      BY <1>6, <3>2
    <3>4. QED
      BY <1>3, <1>5, <1>6, <3>1, <3>3
  <2>3. PICK g \in 1..n : g - 1 = h
    <3>1. h + 1 \in 1..n /\ (h + 1) - 1 = h
      BY <1>1, <2>2
    <3>2. QED
      BY <3>1
  <2>4. GroupsRead(it, idx, at, g - 1)
    BY <2>1, <2>3
  <2>5. Packed!AtGroup
    BY <2>1 DEF GroupsRead, Packed!AtGroup
  <2>6. /\ it.cur + 2 <= Len(stream)
        /\ it.cur + Packed!HeaderSize(stream[it.cur + 2]) <= Len(stream)
    BY <1>3, <2>5 DEF Packed!Readable, Packed!GroupReadable
  <2>7. PICK i : i = Packed!ReadGroup(it)
    OBVIOUS
  <2>8. /\ IsIterator(i) /\ i.count = it.count
        /\ MembersRead(i, idx, q, g, 0, groups[g].flags, groups[g].size)
    BY <1>1, <1>2, <2>4, <2>6, <2>7, ReadGroupAt
  <2>9. i.index = it.index
    <3>1. g - 1 \in 0..n
      OBVIOUS
    <3>2. PICK x \in Nat : x = idx[g - 1]
      BY <1>6, <3>1
    <3>3. QED
      BY <2>4, <2>8, <3>2 DEF GroupsRead, MembersRead
  <2>10. 1 \in 1..groups[g].size /\ 1 - 1 = 0
    BY <1>1, PartsAssumption DEF Packed!PackedAssumption, Packed!Group
  <2>11. i = Packed!InGroup
    BY <2>5, <2>7 DEF Packed!InGroup
  <2>12. QED
    BY <1>4, <1>7, <2>8, <2>9, <2>10, <2>11
<1>9. CASE \E g \in 1..n : \E m \in 2..groups[g].size :
             /\ MembersRead(it, idx, q, g, m - 1, groups[g].flags,
                            groups[g].size)
             /\ it.group_index # it.group_size
  <2>1. PICK g \in 1..n :
          \E m \in 2..groups[g].size :
             /\ MembersRead(it, idx, q, g, m - 1, groups[g].flags,
                            groups[g].size)
             /\ it.group_index # it.group_size
    BY <1>9
  <2>2. PICK m \in 2..groups[g].size :
             /\ MembersRead(it, idx, q, g, m - 1, groups[g].flags,
                            groups[g].size)
             /\ it.group_index # it.group_size
    BY <2>1
  <2>3. m \in 1..groups[g].size
    BY <1>1, PartsAssumption DEF Packed!PackedAssumption, Packed!Group
  <2>4. it = Packed!InGroup
    BY <2>2 DEF Packed!InGroup, Packed!AtGroup
  <2>5. QED
    BY <1>2, <1>4, <1>7, <2>2, <2>3, <2>4
<1>10. QED
  BY <1>1, <1>2, <1>5, <1>8, <1>9, PositionIs

\* Nothing is missing from a whole section.
LEMMA WholeReadable ==
  ASSUME PackedInv, Len(stream) = Len(Packed!SectionNumbers),
         it.index < it.count
  PROVE  Packed!Readable
<1> PICK n : n = Len(groups)
  OBVIOUS
<1>1. /\ n \in Nat /\ groups \in [1..n -> Packed!Group]
      /\ 2 <= Len(Packed!SectionNumbers) /\ Len(Packed!Members) \in Nat
      /\ \E idx : MembersLie(Packed!Members, idx, n, groups)
      /\ \E at, q : SectionLies(Packed!SectionNumbers, at, q, n, groups)
  BY SectionFacts DEF PackedInv
<1>2. PICK idx : MembersLie(Packed!Members, idx, n, groups)
  BY <1>1
<1>3. PICK sn : sn = Packed!SectionNumbers
  OBVIOUS
<1>4. PICK at, q : SectionLies(sn, at, q, n, groups)
  BY <1>1, <1>3
<1>5. IsPrefixOf(stream, sn) /\ Len(stream) = Len(sn) /\ IsIterator(it)
  BY <1>3 DEF PackedInv
<1>6. it.count = Len(Packed!Members) /\ Position(it, idx, at, q, n, groups)
  <2>1. Len(stream) >= 2
    BY <1>1, <1>3, <1>5 DEF IsPrefixOf
  <2>2. QED
    BY <1>2, <1>3, <1>4, <2>1 DEF PackedInv
\* Member m of group g is there.
<1>7. ASSUME NEW g \in 1..n
      PROVE  /\ groups[g].size \in Nat /\ 1 \in 1..groups[g].size
             /\ groups[g].flags \in Packed!Flags
             /\ GroupAt(sn, at[g - 1], g, groups[g].flags, groups[g].size)
             /\ at[g - 1] \in Nat
             /\ q[g][0] = at[g - 1] + Packed!HeaderSize(groups[g].flags)
             /\ q[g][0] <= Len(sn)
             /\ \A m \in 1..groups[g].size :
                  q[g][m - 1] + MemberLen(groups[g].flags) <= Len(sn)
  <2>1. PICK size : size = groups[g].size
    OBVIOUS
  <2>2. PICK f : f = groups[g].flags
    OBVIOUS
  <2>3. size \in Nat /\ 1 \in 1..size /\ f \in Packed!Flags
    BY <1>1, <2>1, <2>2, PartsAssumption
    DEF Packed!PackedAssumption, Packed!Group
  <2>4. /\ GroupLies(sn, at[g - 1], q[g], g, f, size)
        /\ at[g] = q[g][size] /\ at[g] <= at[n] /\ Len(sn) = at[n]
        /\ at \in [0..n -> Nat]
    BY <1>4, <2>1, <2>2 DEF SectionLies
  <2>5. \A m \in 0..size : q[g][m] <= Len(sn)
    <3> TAKE m \in 0..size
    <3>1. g \in 0..n /\ n \in 0..n /\ size \in 0..size
      BY <1>1, <2>3
    <3>2. PICK a, b, c \in Nat : a = q[g][m] /\ b = at[g] /\ c = at[n]
      BY <2>4, <3>1 DEF GroupLies
    <3>3. a <= b /\ b <= c
      BY <2>4, <3>2 DEF GroupLies
    <3>4. QED
      BY <2>4, <3>2, <3>3
  <2>6. \A m \in 1..size : q[g][m - 1] + MemberLen(f) <= Len(sn)
    <3> TAKE m \in 1..size
    <3>1. q[g][m] = q[g][m - 1] + MemberLen(f)
      BY <2>4 DEF GroupLies
    <3>2. m \in 0..size
      BY <2>3
    <3>3. QED
      BY <2>5, <3>1, <3>2
  <2>7. g - 1 \in 0..n /\ 0 \in 0..size
    BY <2>3
  <2>8. QED
    BY <2>1, <2>2, <2>3, <2>4, <2>5, <2>6, <2>7 DEF GroupLies
<1>8. rela \in BOOLEAN /\ \A g \in 1..n : ~ rela => ~ groups[g].flags.has
  BY DEF PackedInv
<1>9. \A g \in 1..n :
        Packed!MemberSize(groups[g].flags) = MemberLen(groups[g].flags)
  <2> TAKE g \in 1..n
  <2>1. (rela /\ groups[g].flags.has /\ ~ groups[g].flags.addend) =
          (groups[g].flags.has /\ ~ groups[g].flags.addend)
    BY <1>8, Zenon
  <2>2. QED
    BY <2>1 DEF Packed!MemberSize, MemberLen
<1>10. CASE \E h \in 0..n : GroupsRead(it, idx, at, h)
  <2>1. PICK h \in 0..n : GroupsRead(it, idx, at, h)
    BY <1>10
  <2>2. h # n
    <3>1. it.index = idx[h] /\ idx[n] = Len(Packed!Members)
      BY <1>2, <2>1 DEF GroupsRead, MembersLie
    <3>2. QED
      BY <1>1, <1>6, <3>1
  <2>3. PICK g \in 1..n : g - 1 = h
    <3>1. h + 1 \in 1..n /\ (h + 1) - 1 = h
      BY <1>1, <2>2
    <3>2. QED
      BY <3>1
  <2>4. GroupsRead(it, idx, at, g - 1)
    BY <2>1, <2>3
  <2>5. PICK o \in Nat : o = at[g - 1] /\ it.cur = o
    BY <1>7, <2>4 DEF GroupsRead
  <2>6. PICK f : f = groups[g].flags
    OBVIOUS
  <2>7. PICK len \in Nat : len = Len(stream) /\ len = Len(sn)
    BY <1>5 DEF IsPrefixOf
  <2>8. PICK hs : hs = Packed!HeaderSize(f)
    OBVIOUS
  <2>9. hs \in Nat /\ hs >= 2
    BY <2>8 DEF Packed!HeaderSize, Packed!One
  <2>10. o + hs <= len /\ q[g][0] = o + hs
    BY <1>7, <2>5, <2>6, <2>7, <2>8
  <2>11. o + 2 <= len
    BY <2>9, <2>10
  <2>12. stream[o + 2] = f
    <3>1. o + 2 \in 1..len
      BY <2>11
    <3>2. sn[o + 2] = f
      BY <1>7, <2>5, <2>6 DEF GroupAt
    <3>3. QED
      BY <1>5, <2>7, <3>1, <3>2 DEF IsPrefixOf
  <2>13. Packed!GroupReadable
    BY <2>5, <2>7, <2>8, <2>10, <2>11, <2>12 DEF Packed!GroupReadable
  <2>14. PICK i : i = Packed!ReadGroup(it)
    OBVIOUS
  <2>15. MembersRead(i, idx, q, g, 0, groups[g].flags, groups[g].size)
    BY <1>1, <1>2, <1>4, <1>5, <2>4, <2>13, <2>14, ReadGroupAt
    DEF Packed!GroupReadable
  <2>16. i.cur = q[g][0] /\ i.flags = groups[g].flags
    BY <2>15 DEF MembersRead
  <2>17. q[g][1 - 1] + MemberLen(groups[g].flags) <= Len(sn)
    BY <1>7
  <2>18. i.cur + Packed!MemberSize(i.flags) <= Len(stream)
    <3>1. 1 - 1 = 0
      OBVIOUS
    <3>2. QED
      BY <1>5, <1>9, <2>16, <2>17, <3>1
  <2>19. i = Packed!InGroup
    BY <2>4, <2>14 DEF Packed!InGroup, Packed!AtGroup, GroupsRead
  <2>20. QED
    BY <2>13, <2>18, <2>19 DEF Packed!Readable
<1>11. CASE \E g \in 1..n : \E m \in 2..groups[g].size :
             /\ MembersRead(it, idx, q, g, m - 1, groups[g].flags,
                            groups[g].size)
             /\ it.group_index # it.group_size
  <2>1. PICK g \in 1..n :
          \E m \in 2..groups[g].size :
             /\ MembersRead(it, idx, q, g, m - 1, groups[g].flags,
                            groups[g].size)
             /\ it.group_index # it.group_size
    BY <1>11
  <2>2. PICK m \in 2..groups[g].size :
             /\ MembersRead(it, idx, q, g, m - 1, groups[g].flags,
                            groups[g].size)
             /\ it.group_index # it.group_size
    BY <2>1
  <2>3. m \in 1..groups[g].size
    BY <1>7
  <2>4. it = Packed!InGroup /\ ~ Packed!AtGroup
    BY <2>2 DEF Packed!InGroup, Packed!AtGroup
  <2>5. it.cur = q[g][m - 1] /\ it.flags = groups[g].flags
    BY <2>2 DEF MembersRead
  <2>6. it.cur + Packed!MemberSize(it.flags) <= Len(stream)
    BY <1>5, <1>7, <1>9, <2>3, <2>5
  <2>7. QED
    BY <2>4, <2>6 DEF Packed!Readable
<1>12. QED
  BY <1>1, <1>2, <1>4, <1>6, <1>10, <1>11, PositionIs

LEMMA PackedInit ==
  ASSUME Packed!Init
  PROVE  PackedInv
<1> PICK n : n = Len(groups)
  OBVIOUS
<1>1. groups \in Seq(Packed!Group) /\ rela \in BOOLEAN /\ pc = "next"
      /\ out = <<>> /\ it = Packed!InitIterator
  BY DEF Packed!Init
<1>2. ~ rela => \A g \in 1..Len(groups) : ~ groups[g].flags.has
  BY <1>1 DEF Packed!Init
<1>3. PICK sn : sn = Packed!SectionNumbers
  OBVIOUS
<1>4. /\ sn \in Seq(Numbers) /\ 2 <= Len(sn)
      /\ sn[1] = Len(Packed!Members) /\ sn[2] = Packed!FirstOffset
      /\ Len(Packed!Members) \in Nat
  BY <1>1, <1>3, SectionFacts
<1>5. PICK cut \in 0..Len(sn) : stream = SubSeq(sn, 1, cut)
  BY <1>3 DEF Packed!Init
<1>6. Len(stream) = cut /\ \A k \in 1..cut : stream[k] = sn[k]
  BY <1>4, <1>5
<1>7. IsPrefixOf(stream, sn)
  BY <1>4, <1>6 DEF IsPrefixOf
<1>8. /\ IsIterator(it) /\ it.index = 0
      /\ it.group_index = 0 /\ it.group_size = 0 /\ it.r_addend = 0
      /\ Len(stream) < 2 => it.cur = Len(stream)
      /\ Len(stream) >= 2 =>
           it.cur = 2 /\ it.count = stream[1] /\ it.r_offset = stream[2]
  <2>1. cut \in Nat
    BY <1>4
  <2>2. QED
    BY <1>1, <1>6, <2>1 DEF Packed!InitIterator, IsIterator
<1>9. Len(stream) >= 2 =>
        stream[1] = Len(Packed!Members) /\ stream[2] = Packed!FirstOffset
  BY <1>4, <1>6
<1>10. ASSUME Len(stream) >= 2, NEW idx, NEW at, NEW q,
              MembersLie(Packed!Members, idx, Len(groups), groups),
              SectionLies(Packed!SectionNumbers, at, q, Len(groups), groups)
       PROVE  Position(it, idx, at, q, Len(groups), groups)
  <2>1. Packed!OffsetOf(0) = Packed!FirstOffset
    BY <1>1, <1>10, OffsetFacts, SectionFacts
  <2>2. idx[0] = 0 /\ at[0] = 2
    BY <1>10 DEF MembersLie, SectionLies
  <2>3. GroupsRead(it, idx, at, 0)
    BY <1>8, <1>9, <1>10, <2>1, <2>2 DEF GroupsRead
  <2>4. QED
    BY <2>3 DEF Position
<1>11. QED
  BY <1>1, <1>2, <1>3, <1>4, <1>7, <1>8, <1>9, <1>10 DEF PackedInv

LEMMA NextRelocInv ==
  ASSUME PackedInv, Packed!NextReloc
  PROVE  PackedInv'
<1>1. /\ groups' = groups /\ rela' = rela /\ stream' = stream /\ pc' = pc
      /\ pc = "next"
      /\ out' = Append(out, [offset |-> it'.r_offset, info |-> it'.r_info,
                             addend |-> it'.r_addend])
  BY DEF Packed!NextReloc
<1>2. /\ Packed!Members' = Packed!Members
      /\ Packed!SectionNumbers' = Packed!SectionNumbers
      /\ \A k : Packed!Expected(k)' = Packed!Expected(k)
      /\ \A k : Packed!OffsetOf(k)' = Packed!OffsetOf(k)
      /\ \A last, k : AddAt(last, k)' = AddAt(last, k)
  BY <1>1, PackedFixed
<1>3. PICK n : n = Len(groups)
  OBVIOUS
<1>4. PICK N \in Nat : N = Len(Packed!Members)
  BY <1>3, SectionFacts DEF PackedInv
<1>5. PICK idx, at, q :
        /\ MembersLie(Packed!Members, idx, n, groups)
        /\ SectionLies(Packed!SectionNumbers, at, q, n, groups)
  BY <1>3, SectionFacts DEF PackedInv
<1>6. PICK i : i = it'
  OBVIOUS
<1>7. /\ IsIterator(i) /\ i.count = it.count
      /\ i.index = it.index + 1 /\ i.index \in 1..N
      /\ [offset |-> i.r_offset, info |-> i.r_info,
          addend |-> i.r_addend] = Packed!Expected(i.index)
      /\ 2 <= Len(stream)
  BY <1>3, <1>4, <1>5, <1>6, NextRelocAt
<1>8. PICK S : S = {Packed!Expected(k) : k \in Nat}
  OBVIOUS
<1>9. out \in Seq(S) /\ Len(out) = it.index
  BY <1>8 DEF PackedInv
<1>10. i.index \in Nat /\ Packed!Expected(i.index) \in S
  BY <1>7, <1>8
<1>11. PICK e : e = Packed!Expected(i.index)
  OBVIOUS
<1>12. out' = Append(out, e) /\ e \in S
  BY <1>1, <1>6, <1>7, <1>10, <1>11
<1>13. out' \in Seq(S) /\ Len(out') = i.index
  BY <1>7, <1>9, <1>12
<1>14. \A k \in 1..Len(out') : out'[k] = Packed!Expected(k)
  <2> TAKE k \in 1..Len(out')
  <2>1. CASE k = i.index
    BY <1>7, <1>9, <1>11, <1>12, <2>1
  <2>2. CASE k # i.index
    <3>1. k \in 1..Len(out) /\ out'[k] = out[k]
      BY <1>7, <1>9, <1>12, <1>13, <2>2
    <3>2. QED
      BY <3>1 DEF PackedInv
  <2>3. QED
    BY <2>1, <2>2
<1>15. S = {Packed!Expected(k)' : k \in Nat}
  BY <1>2, <1>8
<1>16. ASSUME NEW idx2, NEW at2, NEW q2,
              MembersLie(Packed!Members, idx2, n, groups),
              SectionLies(Packed!SectionNumbers, at2, q2, n, groups)
       PROVE  Position(it, idx2, at2, q2, n, groups)'
  <2>1. Position(i, idx2, at2, q2, n, groups)
    BY <1>3, <1>6, <1>16, NextRelocAt
  <2>2. QED
    BY <1>1, <1>2, <1>6, <2>1 DEF Position, GroupsRead, MembersRead
<1>17. Len(stream) \in Nat
  BY DEF PackedInv, IsPrefixOf
<1>18. out' \in Seq({Packed!Expected(k)' : k \in Nat})
  BY <1>13, <1>15
<1>19. it'.index \in Nat /\ it'.index <= Len(Packed!Members)
  BY <1>4, <1>6, <1>7
<1>20. ~ Len(stream) < 2
  BY <1>7, <1>17
<1>21. Len(out') = it'.index /\ IsIterator(it') /\ it'.count = it.count
  BY <1>6, <1>7, <1>13
<1>22. PackedInv
  OBVIOUS
<1>23. Len(stream) >= 2 => it.count = Len(Packed!Members)
  BY <1>22 DEF PackedInv
<1>24. \A idx2, at2, q2 :
         /\ MembersLie(Packed!Members, idx2, Len(groups), groups)
         /\ SectionLies(Packed!SectionNumbers, at2, q2, Len(groups), groups)
         => Position(it, idx2, at2, q2, Len(groups), groups)'
  BY <1>1, <1>3, <1>16
<1>25. (\A k \in 1..Len(out) : out[k] = Packed!Expected(k))'
  BY <1>2, <1>14
<1>26. /\ groups \in Seq(Packed!Group) /\ rela \in BOOLEAN
       /\ ~ rela => \A g \in 1..Len(groups) : ~ groups[g].flags.has
       /\ IsPrefixOf(stream, Packed!SectionNumbers)
  BY <1>22 DEF PackedInv
<1>27. (\A idx2, at2, q2 :
         /\ MembersLie(Packed!Members, idx2, Len(groups), groups)
         /\ SectionLies(Packed!SectionNumbers, at2, q2, Len(groups), groups)
         => Position(it, idx2, at2, q2, Len(groups), groups))'
  BY <1>1, <1>2, <1>24
<1>28. QED
  BY <1>1, <1>2, <1>18, <1>19, <1>20, <1>21, <1>23, <1>25, <1>26, <1>27
  DEF PackedInv

LEMMA NextNullInv ==
  ASSUME PackedInv, Packed!NextNull
  PROVE  PackedInv'
<1>1. /\ groups' = groups /\ rela' = rela /\ stream' = stream /\ pc' = "end"
      /\ it' = it /\ out' = out
      /\ it.index < it.count => ~ Packed!Readable
  BY DEF Packed!NextNull
<1>2. ASSUME Len(stream) = Len(Packed!SectionNumbers)
      PROVE  Len(out) = Len(Packed!Members)
  <2>1. ~ it.index < it.count
    BY <1>1, <1>2, WholeReadable
  <2>2. 2 <= Len(stream) /\ Len(stream) \in Nat /\ Len(Packed!Members) \in Nat
    BY <1>2, SectionFacts DEF PackedInv, IsPrefixOf
  <2>3. it.count = Len(Packed!Members) /\ it.index <= it.count
        /\ Len(out) = it.index /\ Len(out) \in Nat
    BY <2>2 DEF PackedInv
  <2>4. QED
    BY <2>1, <2>2, <2>3
<1>3. /\ Packed!Members' = Packed!Members
      /\ Packed!SectionNumbers' = Packed!SectionNumbers
      /\ \A k : Packed!Expected(k)' = Packed!Expected(k)
      /\ \A k : Packed!OffsetOf(k)' = Packed!OffsetOf(k)
      /\ \A last, k : AddAt(last, k)' = AddAt(last, k)
  BY <1>1, PackedFixed
<1>4. ASSUME NEW idx, NEW at, NEW q, NEW n
      PROVE  Position(it, idx, at, q, n, groups)' <=>
               Position(it, idx, at, q, n, groups)
  BY <1>1, <1>3 DEF Position, GroupsRead, MembersRead
<1>5. {Packed!Expected(k)' : k \in Nat} = {Packed!Expected(k) : k \in Nat}
  BY <1>3
<1>6. QED
  BY <1>1, <1>2, <1>3, <1>4, <1>5 DEF PackedInv

LEMMA PackedStep ==
  ASSUME PackedInv, Packed!Next \/ UNCHANGED <<pc, packedVars>>
  PROVE  PackedInv'
<1>1. CASE Packed!Next
  BY <1>1, NextRelocInv, NextNullInv DEF Packed!Next
<1>2. CASE UNCHANGED <<pc, packedVars>>
  <2>1. /\ groups' = groups /\ rela' = rela /\ stream' = stream /\ pc' = pc
        /\ it' = it /\ out' = out
    BY <1>2 DEF packedVars
  <2>2. /\ Packed!Members' = Packed!Members
        /\ Packed!SectionNumbers' = Packed!SectionNumbers
        /\ \A k : Packed!Expected(k)' = Packed!Expected(k)
        /\ \A k : Packed!OffsetOf(k)' = Packed!OffsetOf(k)
        /\ \A last, k : AddAt(last, k)' = AddAt(last, k)
    BY <2>1, PackedFixed
  <2>3. ASSUME NEW idx, NEW at, NEW q, NEW n
        PROVE  Position(it, idx, at, q, n, groups)' <=>
                 Position(it, idx, at, q, n, groups)
    BY <2>1, <2>2 DEF Position, GroupsRead, MembersRead
  <2>4. {Packed!Expected(k)' : k \in Nat} = {Packed!Expected(k) : k \in Nat}
    BY <2>2
  <2>5. QED
    BY <2>1, <2>2, <2>3, <2>4 DEF PackedInv
<1>3. QED
  BY <1>1, <1>2

LEMMA PackedAlways == Spec => [](part = "packed" => PackedInv)
<1>1. Init => (part = "packed" => PackedInv)
  BY PackedInit, InitOf
<1>2. (part = "packed" => PackedInv) /\ [Next]_vars =>
        (part = "packed" => PackedInv)'
  BY PackedStep, StepOf
<1>3. QED
  BY <1>1, <1>2, PTL DEF Spec

\* The relocations that xh_elf_packed_reloc_iterator_next (xh_elf.c:325-391)
\* returns are the first ones of the section, and all of them if the section is
\* whole: for any number of groups, their sizes and flags, and any cut.
THEOREM AlwaysIteratesExactly == Spec => []IteratesExactly
<1>1. ASSUME PackedInv PROVE Packed!IteratesExactly
  <2>1. DOMAIN out = 1..Len(out)
    BY <1>1 DEF PackedInv
  <2>2. QED
    BY <1>1, <2>1 DEF PackedInv, Packed!IteratesExactly
<1>2. (part = "packed" => PackedInv) => IteratesExactly
  BY <1>1 DEF IteratesExactly
<1>3. QED
  BY <1>2, PackedAlways, PTL
=============================================================================
