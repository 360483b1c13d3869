------------------------------ MODULE MCIoInfo ------------------------------
(***************************************************************************)
(* IoInfo against a definition of its counters that reads the operations   *)
(* back from the history, for every short sequence of operations.          *)
(***************************************************************************)
EXTENDS IoInfo, FiniteSetsExt

\* The wall clock runs on, is set back or is set forward.
MCJumps == {-5, 0, 5}

\* The running totals of a sequence: SumTo(s)[n] = s[1] + ... + s[n].
SumTo(s) ==
  LET sum[n \in 0..Len(s)] == IF n = 0 THEN 0 ELSE sum[n - 1] + s[n]
  IN  sum

SizeTo == SumTo([k \in DOMAIN ops |-> ops[k].size])
CostTo == SumTo([k \in DOMAIN ops |-> ops[k].cost])

\* What operations b[1] to b[2] cost together.
CostOf(b) == CostTo[b[2]] - CostTo[b[1] - 1]

\* Operations i to j follow each other closely on the wall clock.
Burst(i, j) ==
  \A k \in (i + 1)..j : ops[k].time - ops[k - 1].time < kContinualThreshold

Bursts ==
  {b \in (DOMAIN ops) \X (DOMAIN ops) : b[1] <= b[2] /\ Burst(b[1], b[2])}

\* The counters are what the history of operations says: totals, maxima, the
\* cost of the costliest burst, and of the one that ends with the last
\* operation.
CountersExact ==
  /\ info.op_cnt = Len(ops)
  /\ info.op_size = SizeTo[Len(ops)]
  /\ info.rw_cost = CostTo[Len(ops)]
  /\ ops # <<>> =>
       /\ info.max_once = Max({ops[k].cost : k \in DOMAIN ops})
       /\ info.buffer_size = Max({ops[k].size : k \in DOMAIN ops})
       /\ info.max_continual = Max({CostOf(b) : b \in Bursts})
       /\ info.current = Max({CostOf(b) : b \in {c \in Bursts :
                                                   c[2] = Len(ops)}})
=============================================================================
