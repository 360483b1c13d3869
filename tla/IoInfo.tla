------------------------------- MODULE IoInfo -------------------------------
(***************************************************************************)
(* What native-lib.cpp records about one open file: the counters of an     *)
(* IOInfo, updated by CountRWInfo after every read and write and completed *)
(* by ProxyClose.                                                          *)
(*                                                                         *)
(* The cost of an operation is measured on the boot-time clock and never   *)
(* negative.  Whether two operations are continual is decided on the wall  *)
(* clock, which may be set back between them.  The counters are unbounded: *)
(* the width of long is not modelled.                                      *)
(***************************************************************************)
EXTENDS Integers, Sequences

CONSTANTS Sizes,               \* sizes requested of a read or write, or of
                               \* the buffer, in the _chk variants
          Costs,               \* durations of a read or write
          Gaps,                \* time from one operation's end to the next's
          Jumps,               \* by how much the wall clock may be set
          Start,               \* wall clock when the file is opened
          kContinualThreshold,
          MaxOps               \* bound on the operations on the file

ASSUME InfoAssumption ==
  /\ Sizes \subseteq Nat /\ Costs \subseteq Nat /\ Gaps \subseteq Nat
  /\ Jumps \subseteq Int
  /\ Start \in Nat
  /\ kContinualThreshold \in Nat
  /\ MaxOps \in Nat

VARIABLES info,     \* the IOInfo
          tracked,  \* it is in info_map_
          now,      \* GetSysTimeMicros
          skew,     \* history: by how much the wall clock has been set
          ops       \* history: the operations, as they were counted

vars == <<info, tracked, now, skew, ops>>

NewInfo(time) ==
  [start_time |-> time, op_cnt |-> 0, buffer_size |-> 0, op_size |-> 0,
   rw_cost |-> 0, max_continual |-> 0, max_once |-> 0, current |-> 0,
   last_rw_time |-> 0, total_cost |-> 0]

Larger(a, b) == IF a > b THEN a ELSE b

\* Mutant: the threshold itself counts as continual.
ContinualInclusive(i, time) ==
  i.last_rw_time > 0 /\ time - i.last_rw_time <= kContinualThreshold

Continual(i, time) ==
  i.last_rw_time > 0 /\ time - i.last_rw_time < kContinualThreshold

\* The new value of current_continual_rw_time.
Current(i, cost, time) ==
  IF Continual(i, time) THEN i.current + cost ELSE cost

\* Mutant: the longest burst is not updated.
CountedNoLongest(i, size, cost, time) ==
  [i EXCEPT !.rw_cost = @ + cost,
            !.current = Current(i, cost, time),
            !.last_rw_time = time]

Counted(i, size, cost, time) ==
  [i EXCEPT !.op_cnt = @ + 1,
            !.op_size = @ + size,
            !.rw_cost = @ + cost,
            !.max_once = Larger(cost, @),
            !.current = Current(i, cost, time),
            !.max_continual = Larger(Current(i, cost, time), @),
            !.last_rw_time = time,
            !.buffer_size = Larger(size, @)]

\* Mutant: the time since the last operation.
CollectedFromLast(i, time) == [i EXCEPT !.total_cost = time - i.last_rw_time]

Collected(i, time) == [i EXCEPT !.total_cost = time - i.start_time]

-----------------------------------------------------------------------------
Init ==
  /\ now = Start /\ skew = 0
  /\ info = NewInfo(Start)
  /\ tracked = TRUE
  /\ ops = <<>>

Tick(gap, jump) ==
  /\ now + gap + jump > 0
  /\ now' = now + gap + jump
  /\ skew' = skew + jump

\* An operation that took cost, all of it since the previous one.
CountRWInfo(size, cost, gap, jump) ==
  /\ tracked
  /\ Len(ops) < MaxOps
  /\ cost <= gap
  /\ Tick(gap, jump)
  /\ info' = Counted(info, size, cost, now')
  /\ ops' = Append(ops, [size |-> size, cost |-> cost, time |-> now'])
  /\ UNCHANGED tracked

ProxyClose(gap, jump) ==
  /\ tracked
  /\ Tick(gap, jump)
  /\ info' = Collected(info, now')
  /\ tracked' = FALSE
  /\ UNCHANGED ops

Next ==
  \E gap \in Gaps, jump \in Jumps :
    \/ \E size \in Sizes, cost \in Costs : CountRWInfo(size, cost, gap, jump)
    \/ ProxyClose(gap, jump)

Spec == Init /\ [][Next]_vars

-----------------------------------------------------------------------------
Info == [start_time : Int, op_cnt : Nat, buffer_size : Nat, op_size : Nat,
         rw_cost : Nat, max_continual : Nat, max_once : Nat, current : Nat,
         last_rw_time : Int, total_cost : Int]

\* Every variable stays in its type.
TypeOK ==
  /\ info \in Info
  /\ tracked \in BOOLEAN
  /\ now \in Int /\ skew \in Int
  /\ ops \in Seq([size : Sizes, cost : Costs, time : Int])

\* The longest operation is never longer than the longest burst of continual
\* operations, nor that than all the operations together, even if the wall
\* clock that separates the bursts is set back or forward between them.
CostsOrdered ==
  /\ info.max_once <= info.max_continual
  /\ info.current <= info.max_continual
  /\ info.max_continual <= info.rw_cost

\* A file was open at least as long as it was being read and written: the
\* lifetime that ProxyClose records is wrong by no more than the wall clock
\* was set meanwhile.
RwWithinLifetime == ~ tracked => info.rw_cost <= info.total_cost - skew
=============================================================================
