---------------------------- MODULE IoInfoProofs ----------------------------
(***************************************************************************)
(* Theorems of IoInfo, for any number of operations of any sizes and       *)
(* durations and any settings of the wall clock.                           *)
(***************************************************************************)
EXTENDS MCIoInfo, TLAPS

LEMMA CountedType ==
  ASSUME NEW i \in Info, NEW size \in Nat, NEW cost \in Nat, NEW time \in Int
  PROVE  Counted(i, size, cost, time) \in Info
<1> DEFINE cnt == i.op_cnt + 1
           total == i.op_size + size
           spent == i.rw_cost + cost
           once == Larger(cost, i.max_once)
           current == Current(i, cost, time)
           longest == Larger(current, i.max_continual)
           buffer == Larger(size, i.buffer_size)
<1>1. /\ i.op_cnt \in Nat /\ i.op_size \in Nat /\ i.rw_cost \in Nat
      /\ i.max_once \in Nat /\ i.current \in Nat
      /\ i.max_continual \in Nat /\ i.buffer_size \in Nat
  BY DEF Info
<1>2. current \in Nat
  BY <1>1 DEF Current
<1>3. /\ cnt \in Nat /\ total \in Nat /\ spent \in Nat /\ once \in Nat
      /\ longest \in Nat /\ buffer \in Nat
  BY <1>1, <1>2 DEF Larger
<1>4. Counted(i, size, cost, time) =
        [i EXCEPT !.op_cnt = cnt, !.op_size = total, !.rw_cost = spent,
                  !.max_once = once, !.current = current,
                  !.max_continual = longest, !.last_rw_time = time,
                  !.buffer_size = buffer]
  BY DEF Counted
<1> HIDE DEF cnt, total, spent, once, current, longest, buffer
<1>5. Counted(i, size, cost, time) =
        [start_time |-> i.start_time, op_cnt |-> cnt, buffer_size |-> buffer,
         op_size |-> total, rw_cost |-> spent, max_continual |-> longest,
         max_once |-> once, current |-> current, last_rw_time |-> time,
         total_cost |-> i.total_cost]
  BY <1>4 DEF Info
<1>6. i.start_time \in Int /\ i.total_cost \in Int
  BY DEF Info
<1> QED
  BY <1>2, <1>3, <1>5, <1>6 DEF Info

LEMMA CollectedType ==
  ASSUME NEW i \in Info, NEW time \in Int
  PROVE  Collected(i, time) \in Info
<1> DEFINE cost == time - i.start_time
<1>1. cost \in Int
  BY DEF Info
<1>2. Collected(i, time) = [i EXCEPT !.total_cost = cost]
  BY DEF Collected
<1> HIDE DEF cost
<1> QED
  BY <1>1, <1>2 DEF Info

LEMMA TypeInit == Init => TypeOK
BY InfoAssumption DEF Init, TypeOK, NewInfo, Info

LEMMA TypeStep == TypeOK /\ [Next]_vars => TypeOK'
<1> SUFFICES ASSUME TypeOK, [Next]_vars PROVE TypeOK'
  OBVIOUS
<1> USE DEF TypeOK
<1>1. ASSUME NEW size \in Sizes, NEW cost \in Costs, NEW gap \in Gaps,
             NEW jump \in Jumps, CountRWInfo(size, cost, gap, jump)
      PROVE  TypeOK'
  <2>1. now' \in Int /\ skew' \in Int
    BY <1>1, InfoAssumption DEF CountRWInfo, Tick
  <2>2. info' \in Info
    BY <1>1, <2>1, CountedType, InfoAssumption DEF CountRWInfo
  <2>3. ops' \in Seq([size : Sizes, cost : Costs, time : Int])
    BY <1>1, <2>1 DEF CountRWInfo
  <2>4. tracked' \in BOOLEAN
    BY <1>1 DEF CountRWInfo
  <2> QED
    BY <2>1, <2>2, <2>3, <2>4
<1>2. ASSUME NEW gap \in Gaps, NEW jump \in Jumps, ProxyClose(gap, jump)
      PROVE  TypeOK'
  <2>1. now' \in Int /\ skew' \in Int
    BY <1>2, InfoAssumption DEF ProxyClose, Tick
  <2>2. info' \in Info
    BY <1>2, <2>1, CollectedType DEF ProxyClose
  <2>3. tracked' \in BOOLEAN
    BY <1>2, Zenon DEF ProxyClose
  <2> QED
    BY <1>2, <2>1, <2>2, <2>3 DEF ProxyClose
<1>3. CASE UNCHANGED vars
  BY <1>3 DEF vars
<1> QED
  BY <1>1, <1>2, <1>3 DEF Next

\* The counters of an IOInfo (native-lib.cpp:73-84) keep their types.
THEOREM TypeCorrect == Spec => []TypeOK
BY TypeInit, TypeStep, PTL DEF Spec

LEMMA CostsStep == TypeOK /\ CostsOrdered /\ [Next]_vars => CostsOrdered'
<1> SUFFICES ASSUME TypeOK, CostsOrdered, [Next]_vars PROVE CostsOrdered'
  OBVIOUS
<1>1. info \in Info
  BY DEF TypeOK
<1>2. ASSUME NEW size \in Sizes, NEW cost \in Costs, NEW gap \in Gaps,
             NEW jump \in Jumps, CountRWInfo(size, cost, gap, jump)
      PROVE  CostsOrdered'
  <2> DEFINE current == Current(info, cost, now')
  <2>1. /\ info'.max_once = Larger(cost, info.max_once)
        /\ info'.current = current
        /\ info'.max_continual = Larger(current, info.max_continual)
        /\ info'.rw_cost = info.rw_cost + cost
    BY <1>1, <1>2 DEF CountRWInfo, Counted, Info
  <2>2. /\ cost \in Nat /\ info.current \in Nat /\ info.max_once \in Nat
        /\ info.max_continual \in Nat /\ info.rw_cost \in Nat
    BY <1>1, InfoAssumption DEF Info
  <2>3. current \in {cost, info.current + cost}
    BY DEF Current
  <2> HIDE DEF current
  <2> QED
    BY <2>1, <2>2, <2>3 DEF CostsOrdered, Larger
<1>3. ASSUME NEW gap \in Gaps, NEW jump \in Jumps, ProxyClose(gap, jump)
      PROVE  CostsOrdered'
  BY <1>1, <1>3 DEF ProxyClose, Collected, CostsOrdered, Info
<1>4. CASE UNCHANGED vars
  BY <1>4 DEF vars, CostsOrdered
<1> QED
  BY <1>2, <1>3, <1>4 DEF Next

\* Whatever the wall clock does, the longest read or write, the costliest burst
\* and the total cost that CountRWInfo (native-lib.cpp:218-251) records stay in
\* that order.
THEOREM CostsAlwaysOrdered == Spec => []CostsOrdered
<1>1. Init => CostsOrdered
  BY DEF Init, NewInfo, CostsOrdered
<1> QED
  BY <1>1, TypeInit, TypeStep, CostsStep, PTL DEF Spec

\* While the file is open, its operations took no longer than what the wall
\* clock has advanced, not counting by how much it was set.
Elapsed ==
  /\ tracked => info.rw_cost <= now - info.start_time - skew
  /\ RwWithinLifetime

LEMMA ElapsedStep == TypeOK /\ Elapsed /\ [Next]_vars => Elapsed'
<1> SUFFICES ASSUME TypeOK, Elapsed, [Next]_vars PROVE Elapsed'
  OBVIOUS
<1>1. /\ info \in Info /\ now \in Int /\ skew \in Int
      /\ info.rw_cost \in Nat /\ info.start_time \in Int
  BY DEF TypeOK, Info
<1>2. ASSUME NEW size \in Sizes, NEW cost \in Costs, NEW gap \in Gaps,
             NEW jump \in Jumps, CountRWInfo(size, cost, gap, jump)
      PROVE  Elapsed'
  <2>1. /\ info'.rw_cost = info.rw_cost + cost
        /\ info'.start_time = info.start_time
    BY <1>1, <1>2 DEF CountRWInfo, Counted, Info
  <2>2. /\ now' = now + gap + jump /\ skew' = skew + jump
        /\ tracked /\ tracked' = tracked /\ cost <= gap
    BY <1>2 DEF CountRWInfo, Tick
  <2>3. cost \in Nat /\ gap \in Nat /\ jump \in Int
    BY InfoAssumption
  <2> QED
    BY <1>1, <2>1, <2>2, <2>3 DEF Elapsed, RwWithinLifetime
<1>3. ASSUME NEW gap \in Gaps, NEW jump \in Jumps, ProxyClose(gap, jump)
      PROVE  Elapsed'
  <2>1. /\ info'.rw_cost = info.rw_cost
        /\ info'.total_cost = now' - info.start_time
    BY <1>1, <1>3 DEF ProxyClose, Collected, Info
  <2>2. /\ now' = now + gap + jump /\ skew' = skew + jump
        /\ tracked /\ ~ tracked'
    BY <1>3 DEF ProxyClose, Tick
  <2>3. gap \in Nat /\ jump \in Int
    BY InfoAssumption
  <2> QED
    BY <1>1, <2>1, <2>2, <2>3 DEF Elapsed, RwWithinLifetime
<1>4. CASE UNCHANGED vars
  BY <1>4 DEF vars, Elapsed, RwWithinLifetime
<1> QED
  BY <1>2, <1>3, <1>4 DEF Next

\* The lifetime that ProxyClose stores (native-lib.cpp:370), corrected by how
\* much the wall clock was set, is at least the time that CountRWInfo summed up.
THEOREM RwAlwaysWithinLifetime == Spec => []RwWithinLifetime
<1>1. Init => Elapsed
  BY InfoAssumption DEF Init, NewInfo, Elapsed, RwWithinLifetime
<1>2. Elapsed => RwWithinLifetime
  BY DEF Elapsed
<1> QED
  BY <1>1, <1>2, TypeInit, TypeStep, ElapsedStep, PTL DEF Spec

-----------------------------------------------------------------------------
(* The counters and the history.  What the history says is a fact about a  *)
(* sequence of operations o and the IOInfo i that counted them; each       *)
(* operation extends both.                                                 *)

Op == [size : Nat, cost : Nat, time : Int]

IsTotal(q, s) ==
  q = [n \in 0..Len(s) |-> IF n = 0 THEN 0 ELSE q[n - 1] + s[n]]

\* The recursion that SumTo solves has one solution.
Totalled(s) == \E p \in [0..Len(s) -> Nat] : \A q : IsTotal(q, s) <=> q = p

LEMMA SumToSolves ==
  ASSUME NEW s, Totalled(s)
  PROVE  /\ SumTo(s) \in [0..Len(s) -> Nat]
         /\ \A q : IsTotal(q, s) <=> q = SumTo(s)
<1>1. PICK p \in [0..Len(s) -> Nat] : \A q : IsTotal(q, s) <=> q = p
  BY DEF Totalled
<1>2. SumTo(s) = CHOOSE q : IsTotal(q, s)
  BY DEF SumTo, IsTotal
<1>3. SumTo(s) = p
  BY <1>1, <1>2
<1> QED
  BY <1>1, <1>3

LEMMA SumToEmpty == Totalled(<<>>) /\ SumTo(<<>>)[0] = 0
<1> DEFINE p == [n \in 0..0 |-> 0]
<1>1. p \in [0..Len(<<>>) -> Nat]
  OBVIOUS
<1>2. ASSUME NEW q PROVE IsTotal(q, <<>>) <=> q = p
  BY DEF IsTotal
<1>3. Totalled(<<>>)
  BY <1>1, <1>2, Zenon DEF Totalled
<1>4. IsTotal(p, <<>>)
  BY <1>2
<1> QED
  BY <1>3, <1>4, SumToSolves

\* One more element extends the running totals by one.
LEMMA SumToAppend ==
  ASSUME NEW s \in Seq(Nat), NEW x \in Nat, Totalled(s)
  PROVE  /\ Totalled(Append(s, x))
         /\ \A n \in 0..Len(s) : SumTo(Append(s, x))[n] = SumTo(s)[n]
         /\ SumTo(Append(s, x))[Len(s) + 1] = SumTo(s)[Len(s)] + x
<1> DEFINE t == Append(s, x)
           m == Len(s)
<1>1. PICK p \in [0..m -> Nat] : p = SumTo(s) /\ \A q : IsTotal(q, s) <=> q = p
  BY SumToSolves
<1>2. /\ m \in Nat /\ Len(t) = m + 1 /\ t[m + 1] = x
      /\ \A n \in 1..m : t[n] = s[n] /\ s[n] \in Nat
  OBVIOUS
<1> DEFINE r == [n \in 0..(m + 1) |-> IF n <= m THEN p[n] ELSE p[m] + x]
<1>3. r \in [0..Len(t) -> Nat]
  BY <1>2
<1>4. \A n \in 0..m : p[n] = IF n = 0 THEN 0 ELSE p[n - 1] + s[n]
  BY <1>1 DEF IsTotal
<1> HIDE DEF t, m
<1>5. IsTotal(r, t)
  <2>1. ASSUME NEW n \in 0..Len(t)
        PROVE  r[n] = IF n = 0 THEN 0 ELSE r[n - 1] + t[n]
    <3>1. CASE n = 0
      BY <1>2, <1>4, <3>1
    <3>2. CASE n \in 1..m
      BY <1>2, <1>4, <3>2
    <3>3. CASE n = m + 1
      BY <1>2, <3>3
    <3> QED
      BY <1>2, <2>1, <3>1, <3>2, <3>3
  <2>2. r = [n \in 0..Len(t) |-> r[n]]
    BY <1>2
  <2> QED
    BY <2>1, <2>2 DEF IsTotal
<1>6. ASSUME NEW q, IsTotal(q, t) PROVE q = r
  <2>1. /\ q = [n \in 0..(m + 1) |-> q[n]]
        /\ \A n \in 0..(m + 1) : q[n] = IF n = 0 THEN 0 ELSE q[n - 1] + t[n]
    BY <1>2, <1>6 DEF IsTotal
  <2> DEFINE u == [n \in 0..m |-> q[n]]
  <2>2. ASSUME NEW n \in 0..m
        PROVE  u[n] = IF n = 0 THEN 0 ELSE u[n - 1] + s[n]
    <3>1. CASE n = 0
      BY <1>2, <2>1, <3>1, SMTT(30)
    <3>2. CASE n # 0
      <4>1. n \in 1..m /\ n \in 0..(m + 1) /\ n - 1 \in 0..m
        BY <1>2, <3>2
      <4>2. q[n] = q[n - 1] + t[n]
        BY <2>1, <3>2, <4>1
      <4>3. u[n] = q[n] /\ u[n - 1] = q[n - 1] /\ t[n] = s[n]
        BY <1>2, <4>1
      <4> QED
        BY <3>2, <4>2, <4>3
    <3> QED
      BY <3>1, <3>2
  <2>3. IsTotal(u, s)
    <3>1. u = [n \in 0..m |-> IF n = 0 THEN 0 ELSE u[n - 1] + s[n]]
      BY <2>2
    <3> QED
      BY <3>1 DEF IsTotal, m
  <2>4. u = p
    BY <1>1, <2>3
  <2>5. ASSUME NEW n \in 0..(m + 1) PROVE q[n] = r[n]
    <3>1. CASE n <= m
      <4>1. u[n] = p[n] /\ u[n] = q[n]
        BY <1>2, <2>4, <3>1
      <4> QED
        BY <1>2, <3>1, <4>1
    <3>2. CASE n = m + 1
      <4>1. u[m] = p[m] /\ u[m] = q[m]
        BY <1>2, <2>4
      <4>2. q[m + 1] = q[m] + x
        <5>1. m + 1 \in 0..(m + 1) /\ m + 1 # 0 /\ (m + 1) - 1 = m
          BY <1>2
        <5>2. q[m + 1] = q[(m + 1) - 1] + t[m + 1]
          BY <2>1, <5>1
        <5> QED
          BY <1>2, <5>1, <5>2
      <4> QED
        BY <1>2, <3>2, <4>1, <4>2
    <3> QED
      BY <1>2, <3>1, <3>2
  <2> HIDE DEF u
  <2> QED
    BY <2>1, <2>5
<1> HIDE DEF r
<1>7. \A q : IsTotal(q, t) <=> q = r
  BY <1>5, <1>6
<1>8. Totalled(t)
  BY <1>3, <1>7 DEF Totalled
<1>9. SumTo(t) = r
  BY <1>7, <1>8, SumToSolves
<1> USE DEF r
<1>10. /\ \A n \in 0..m : r[n] = p[n]
       /\ r[m + 1] = p[m] + x
  BY <1>2
<1> QED
  BY <1>1, <1>8, <1>9, <1>10 DEF t, m

SizesOf(o) == [k \in DOMAIN o |-> o[k].size]
CostsOf(o) == [k \in DOMAIN o |-> o[k].cost]

BurstOf(o, j, k) ==
  \A n \in (j + 1)..k : o[n].time - o[n - 1].time < kContinualThreshold

Spent(o, j, k) == SumTo(CostsOf(o))[k] - SumTo(CostsOf(o))[j - 1]

TotalsRecorded(o, i) ==
  /\ Totalled(SizesOf(o)) /\ Totalled(CostsOf(o))
  /\ i.op_cnt = Len(o)
  /\ i.op_size = SumTo(SizesOf(o))[Len(o)]
  /\ i.rw_cost = SumTo(CostsOf(o))[Len(o)]

\* The test last_rw_time_μs > 0 of CountRWInfo tells whether there was an
\* operation.
LastRecorded(o, i) ==
  IF o = <<>> THEN i.last_rw_time = 0
              ELSE i.last_rw_time = o[Len(o)].time /\ i.last_rw_time > 0

MaximaRecorded(o, i) ==
  /\ \A n \in 1..Len(o) : o[n].cost <= i.max_once
  /\ \A n \in 1..Len(o) : o[n].size <= i.buffer_size
  /\ IF o = <<>>
     THEN i.max_once = 0 /\ i.buffer_size = 0
     ELSE /\ \E n \in 1..Len(o) : i.max_once = o[n].cost
          /\ \E n \in 1..Len(o) : i.buffer_size = o[n].size

CurrentRecorded(o, i) ==
  /\ \A j \in 1..Len(o) :
       BurstOf(o, j, Len(o)) => Spent(o, j, Len(o)) <= i.current
  /\ o # <<>> => \E j \in 1..Len(o) : /\ BurstOf(o, j, Len(o))
                                      /\ i.current = Spent(o, j, Len(o))

LongestRecorded(o, i) ==
  /\ \A k \in 1..Len(o) : \A j \in 1..k :
       BurstOf(o, j, k) => Spent(o, j, k) <= i.max_continual
  /\ IF o = <<>>
     THEN i.max_continual = 0
     ELSE \E k \in 1..Len(o) : \E j \in 1..k :
            BurstOf(o, j, k) /\ i.max_continual = Spent(o, j, k)

Recorded(o, i) ==
  /\ TotalsRecorded(o, i)
  /\ LastRecorded(o, i)
  /\ MaximaRecorded(o, i)
  /\ CurrentRecorded(o, i)
  /\ LongestRecorded(o, i)

LEMMA NothingRecorded == ASSUME NEW t PROVE Recorded(<<>>, NewInfo(t))
<1>1. SizesOf(<<>>) = <<>> /\ CostsOf(<<>>) = <<>>
  BY DEF SizesOf, CostsOf
<1>2. TotalsRecorded(<<>>, NewInfo(t))
  BY <1>1, SumToEmpty DEF TotalsRecorded, NewInfo
<1> QED
  BY <1>2 DEF Recorded, LastRecorded, MaximaRecorded, CurrentRecorded,
              LongestRecorded, NewInfo

LEMMA OpFields ==
  ASSUME NEW op \in Op
  PROVE  op.size \in Nat /\ op.cost \in Nat /\ op.time \in Int
BY DEF Op

LEMMA Appended ==
  ASSUME NEW S, NEW o \in Seq(S), NEW x \in S
  PROVE  /\ Len(o) \in Nat /\ DOMAIN o = 1..Len(o)
         /\ \A k \in 1..Len(o) : Append(o, x)[k] = o[k] /\ o[k] \in S
         /\ Len(Append(o, x)) = Len(o) + 1
         /\ DOMAIN Append(o, x) = 1..(Len(o) + 1)
         /\ Append(o, x)[Len(o) + 1] = x
         /\ o = <<>> <=> Len(o) = 0
         /\ Append(o, x) # <<>>
OBVIOUS

\* The running totals and the bursts after one more operation.
LEMMA OneMore ==
  ASSUME NEW o \in Seq(Op), NEW op \in Op,
         Totalled(SizesOf(o)), Totalled(CostsOf(o))
  PROVE  LET q == Append(o, op)
             n == Len(o)
         IN  /\ Totalled(SizesOf(q)) /\ Totalled(CostsOf(q))
             /\ SumTo(SizesOf(q))[n + 1] = SumTo(SizesOf(o))[n] + op.size
             /\ SumTo(CostsOf(q))[n + 1] = SumTo(CostsOf(o))[n] + op.cost
             /\ \A k \in 0..n : SumTo(CostsOf(o))[k] \in Nat
             /\ \A k \in 1..n : \A j \in 1..k :
                  /\ Spent(q, j, k) = Spent(o, j, k)
                  /\ BurstOf(q, j, k) <=> BurstOf(o, j, k)
             /\ \A j \in 1..n :
                  /\ Spent(q, j, n + 1) = Spent(o, j, n) + op.cost
                  /\ BurstOf(q, j, n + 1) <=>
                       /\ BurstOf(o, j, n)
                       /\ op.time - o[n].time < kContinualThreshold
             /\ Spent(q, n + 1, n + 1) = op.cost
             /\ BurstOf(q, n + 1, n + 1)
<1> DEFINE q == Append(o, op)
           n == Len(o)
           C == SumTo(CostsOf(o))
           D == SumTo(CostsOf(q))
<1>1. /\ n \in Nat /\ Len(q) = n + 1 /\ q[n + 1] = op
      /\ \A k \in 1..n : q[k] = o[k] /\ o[k] \in Op
      /\ op.size \in Nat /\ op.cost \in Nat /\ op.time \in Int
      /\ DOMAIN o = 1..n /\ DOMAIN q = 1..(n + 1)
  BY Appended, OpFields
<1>2. /\ SizesOf(o) \in Seq(Nat) /\ Len(SizesOf(o)) = n
      /\ CostsOf(o) \in Seq(Nat) /\ Len(CostsOf(o)) = n
  BY <1>1 DEF SizesOf, CostsOf, Op
<1>3. SizesOf(q) = Append(SizesOf(o), op.size)
  BY <1>1, <1>2 DEF SizesOf
<1>4. CostsOf(q) = Append(CostsOf(o), op.cost)
  BY <1>1, <1>2 DEF CostsOf
<1>5. /\ Totalled(SizesOf(q)) /\ Totalled(CostsOf(q))
      /\ SumTo(SizesOf(q))[n + 1] = SumTo(SizesOf(o))[n] + op.size
      /\ D[n + 1] = C[n] + op.cost
      /\ \A k \in 0..n : D[k] = C[k]
  BY <1>1, <1>2, <1>3, <1>4, SumToAppend
<1>6. \A k \in 0..n : C[k] \in Nat
  BY <1>2, SumToSolves
<1>7. \A j, k : Spent(o, j, k) = C[k] - C[j - 1]
                /\ Spent(q, j, k) = D[k] - D[j - 1]
  BY DEF Spent
<1> HIDE DEF q, n, C, D
<1>8. ASSUME NEW k \in 1..n, NEW j \in 1..k
      PROVE  /\ Spent(q, j, k) = Spent(o, j, k)
             /\ BurstOf(q, j, k) <=> BurstOf(o, j, k)
  <2>1. k \in 0..n /\ j - 1 \in 0..n
    BY <1>1
  <2>2. \A m \in (j + 1)..k : m \in 1..n /\ m - 1 \in 1..n
    BY <1>1
  <2> QED
    BY <1>1, <1>5, <1>7, <2>1, <2>2 DEF BurstOf
<1>9. ASSUME NEW j \in 1..n
      PROVE  /\ Spent(q, j, n + 1) = Spent(o, j, n) + op.cost
             /\ BurstOf(q, j, n + 1) <=>
                  /\ BurstOf(o, j, n)
                  /\ op.time - o[n].time < kContinualThreshold
  <2>1. n \in 0..n /\ j - 1 \in 0..n /\ (n + 1) - 1 = n /\ n \in 1..n
    BY <1>1
  <2>2. C[n] \in Nat /\ C[j - 1] \in Nat /\ D[j - 1] = C[j - 1]
    BY <1>5, <1>6, <2>1
  <2>3. Spent(q, j, n + 1) = Spent(o, j, n) + op.cost
    BY <1>1, <1>5, <1>7, <2>2
  <2>4. /\ \A m \in (j + 1)..n : m \in 1..n /\ m - 1 \in 1..n
        /\ (j + 1)..(n + 1) = (j + 1)..n \cup {n + 1}
    BY <1>1
  <2> QED
    BY <1>1, <2>1, <2>3, <2>4 DEF BurstOf
<1>10. /\ Spent(q, n + 1, n + 1) = op.cost
       /\ BurstOf(q, n + 1, n + 1)
  <2>1. n \in 0..n /\ (n + 1) - 1 = n /\ (n + 1) + 1 > n + 1
    BY <1>1
  <2>2. C[n] \in Nat /\ D[n] = C[n]
    BY <1>5, <1>6, <2>1
  <2>3. ((n + 1) + 1)..(n + 1) = {}
    BY <1>1
  <2> QED
    BY <1>1, <1>5, <1>7, <2>1, <2>2, <2>3 DEF BurstOf
<1> QED
  BY <1>5, <1>6, <1>8, <1>9, <1>10 DEF q, n, C, D

LEMMA RecordedStep ==
  ASSUME NEW o \in Seq(Op), NEW i \in Info, NEW op \in Op,
         op.time > 0, Recorded(o, i)
  PROVE  Recorded(Append(o, op), Counted(i, op.size, op.cost, op.time))
<1> DEFINE q == Append(o, op)
           n == Len(o)
           h == Counted(i, op.size, op.cost, op.time)
<1>1. /\ n \in Nat /\ Len(q) = n + 1 /\ q[n + 1] = op /\ q # <<>>
      /\ \A k \in 1..n : q[k] = o[k] /\ o[k] \in Op
      /\ op.size \in Nat /\ op.cost \in Nat /\ op.time \in Int
      /\ o = <<>> <=> n = 0
  BY Appended, OpFields
<1>2. /\ h.op_cnt = i.op_cnt + 1
      /\ h.op_size = i.op_size + op.size
      /\ h.rw_cost = i.rw_cost + op.cost
      /\ h.max_once = Larger(op.cost, i.max_once)
      /\ h.buffer_size = Larger(op.size, i.buffer_size)
      /\ h.current = Current(i, op.cost, op.time)
      /\ h.max_continual = Larger(h.current, i.max_continual)
      /\ h.last_rw_time = op.time
  BY DEF Counted, Info
<1>3. /\ i.max_once \in Nat /\ i.buffer_size \in Nat /\ i.current \in Nat
      /\ i.max_continual \in Nat /\ i.last_rw_time \in Int
  BY DEF Info
<1>4. /\ Totalled(SizesOf(o)) /\ Totalled(CostsOf(o))
  BY DEF Recorded, TotalsRecorded
<1>5. /\ Totalled(SizesOf(q)) /\ Totalled(CostsOf(q))
      /\ SumTo(SizesOf(q))[n + 1] = SumTo(SizesOf(o))[n] + op.size
      /\ SumTo(CostsOf(q))[n + 1] = SumTo(CostsOf(o))[n] + op.cost
      /\ \A k \in 0..n : SumTo(CostsOf(o))[k] \in Nat
  BY <1>4, OneMore
<1>6. \A k \in 1..n : \A j \in 1..k :
        /\ Spent(q, j, k) = Spent(o, j, k)
        /\ BurstOf(q, j, k) <=> BurstOf(o, j, k)
        /\ Spent(o, j, k) \in Int
  <2>1. ASSUME NEW k \in 1..n, NEW j \in 1..k PROVE Spent(o, j, k) \in Int
    <3>1. k \in 0..n /\ j - 1 \in 0..n
      BY <1>1
    <3> QED
      BY <1>5, <3>1 DEF Spent
  <2> QED
    BY <1>4, <2>1, OneMore
<1>7. \A j \in 1..n : /\ Spent(q, j, n + 1) = Spent(o, j, n) + op.cost
                      /\ BurstOf(q, j, n + 1) <=>
                           /\ BurstOf(o, j, n)
                           /\ op.time - o[n].time < kContinualThreshold
  BY <1>4, OneMore
<1>8. /\ Spent(q, n + 1, n + 1) = op.cost
      /\ BurstOf(q, n + 1, n + 1)
  BY <1>4, OneMore
<1>9. Continual(i, op.time) <=>
        n > 0 /\ op.time - o[n].time < kContinualThreshold
  BY <1>1, InfoAssumption DEF Recorded, LastRecorded, Continual
<1> HIDE DEF q, n, h
<1>10. TotalsRecorded(q, h)
  BY <1>1, <1>2, <1>5 DEF Recorded, TotalsRecorded, n
<1>11. LastRecorded(q, h)
  BY <1>1, <1>2 DEF LastRecorded
<1>12. MaximaRecorded(q, h)
  <2>1. MaximaRecorded(o, i)
    BY DEF Recorded
  <2>2. \A k \in 1..(n + 1) : q[k].cost <= h.max_once
                              /\ q[k].size <= h.buffer_size
    <3>1. /\ h.max_once >= op.cost /\ h.max_once >= i.max_once
          /\ h.buffer_size >= op.size /\ h.buffer_size >= i.buffer_size
          /\ h.max_once \in Nat /\ h.buffer_size \in Nat
      BY <1>1, <1>2, <1>3 DEF Larger
    <3>2. \A k \in 1..n : /\ q[k] = o[k]
                          /\ o[k].cost \in Nat /\ o[k].cost <= i.max_once
                          /\ o[k].size \in Nat /\ o[k].size <= i.buffer_size
      BY <1>1, <2>1, OpFields DEF MaximaRecorded, n
    <3>3. ASSUME NEW k \in 1..n
          PROVE  q[k].cost <= h.max_once /\ q[k].size <= h.buffer_size
      BY <1>3, <3>1, <3>2, SMTT(30)
    <3>4. q[n + 1].cost <= h.max_once /\ q[n + 1].size <= h.buffer_size
      BY <1>1, <3>1
    <3> QED
      BY <1>1, <3>3, <3>4
  <2>3. \E k \in 1..(n + 1) : h.max_once = q[k].cost
    <3>1. CASE h.max_once = op.cost
      BY <1>1, <3>1
    <3>2. CASE h.max_once = i.max_once /\ n > 0
      BY <1>1, <2>1, <3>2 DEF MaximaRecorded, n
    <3> QED
      BY <1>1, <1>2, <1>3, <2>1, <3>1, <3>2 DEF MaximaRecorded, Larger
  <2>4. \E k \in 1..(n + 1) : h.buffer_size = q[k].size
    <3>1. CASE h.buffer_size = op.size
      BY <1>1, <3>1
    <3>2. CASE h.buffer_size = i.buffer_size /\ n > 0
      BY <1>1, <2>1, <3>2 DEF MaximaRecorded, n
    <3> QED
      BY <1>1, <1>2, <1>3, <2>1, <3>1, <3>2 DEF MaximaRecorded, Larger
  <2> QED
    BY <1>1, <2>2, <2>3, <2>4 DEF MaximaRecorded
<1>13. CurrentRecorded(q, h)
  <2>1. CurrentRecorded(o, i)
    BY DEF Recorded
  <2>2. CASE Continual(i, op.time)
    <3>1. h.current = i.current + op.cost
      BY <1>2, <2>2 DEF Current
    <3>2. PICK j \in 1..n : BurstOf(o, j, n) /\ i.current = Spent(o, j, n)
      BY <1>1, <1>9, <2>1, <2>2 DEF CurrentRecorded, n
    <3>3. /\ j \in 1..(n + 1) /\ BurstOf(q, j, n + 1)
          /\ h.current = Spent(q, j, n + 1)
      BY <1>1, <1>7, <1>9, <2>2, <3>1, <3>2
    <3>4. ASSUME NEW k \in 1..(n + 1), BurstOf(q, k, n + 1)
          PROVE  Spent(q, k, n + 1) <= h.current
      <4>1. CASE k = n + 1
        BY <1>1, <1>3, <1>8, <3>1, <4>1
      <4>2. CASE k \in 1..n
        <5>1. Spent(o, k, n) <= i.current /\ n \in 1..n /\ k \in 1..n
          BY <1>1, <1>7, <2>1, <3>4, <4>2 DEF CurrentRecorded, n
        <5> QED
          BY <1>1, <1>3, <1>6, <1>7, <3>1, <5>1
      <4> QED
        BY <1>1, <4>1, <4>2
    <3> QED
      BY <1>1, <3>3, <3>4 DEF CurrentRecorded
  <2>3. CASE ~ Continual(i, op.time)
    <3>1. h.current = op.cost
      BY <1>2, <2>3 DEF Current
    <3>2. ASSUME NEW k \in 1..(n + 1), BurstOf(q, k, n + 1)
          PROVE  k = n + 1
      BY <1>1, <1>7, <1>9, <2>3, <3>2
    <3>3. n + 1 \in 1..(n + 1)
      BY <1>1
    <3> QED
      BY <1>1, <1>8, <3>1, <3>2, <3>3 DEF CurrentRecorded
  <2> QED
    BY <2>2, <2>3
<1>14. LongestRecorded(q, h)
  <2>1. LongestRecorded(o, i)
    BY DEF Recorded
  <2>2. h.current \in Nat
    BY <1>1, <1>2, <1>3 DEF Current
  <2>3. /\ h.max_continual \in {h.current, i.max_continual}
        /\ h.max_continual >= h.current /\ h.max_continual >= i.max_continual
    BY <1>2, <1>3, <2>2 DEF Larger
  <2>4. ASSUME NEW k \in 1..(n + 1), NEW j \in 1..k, BurstOf(q, j, k)
        PROVE  Spent(q, j, k) <= h.max_continual
    <3>1. CASE k = n + 1
      <4>1. Spent(q, j, k) <= h.current
        BY <1>1, <1>13, <2>4, <3>1 DEF CurrentRecorded
      <4>2. Spent(q, j, k) \in Int
        <5>1. CASE j = n + 1
          BY <1>1, <1>8, <3>1, <5>1
        <5>2. CASE j \in 1..n
          <6>1. n \in 1..n
            BY <1>1, <5>2
          <6> QED
            BY <1>1, <1>6, <1>7, <3>1, <5>2, <6>1
        <5> QED
          BY <1>1, <2>4, <3>1, <5>1, <5>2
      <4> QED
        BY <1>3, <2>2, <2>3, <4>1, <4>2
    <3>2. CASE k \in 1..n
      <4>1. Spent(o, j, k) <= i.max_continual /\ Spent(o, j, k) \in Int
            /\ Spent(q, j, k) = Spent(o, j, k)
        BY <1>6, <2>1, <2>4, <3>2 DEF LongestRecorded, n
      <4> QED
        BY <1>3, <2>2, <2>3, <4>1
    <3> QED
      BY <1>1, <2>4, <3>1, <3>2
  <2>5. \E k \in 1..(n + 1) : \E j \in 1..k :
          BurstOf(q, j, k) /\ h.max_continual = Spent(q, j, k)
    <3>1. CASE h.max_continual = h.current
      <4>1. n + 1 \in 1..(n + 1)
        BY <1>1
      <4> QED
        BY <1>1, <1>13, <3>1, <4>1 DEF CurrentRecorded
    <3>2. CASE h.max_continual = i.max_continual /\ n > 0
      <4>1. PICK k \in 1..n : \E j \in 1..k :
                   BurstOf(o, j, k) /\ i.max_continual = Spent(o, j, k)
        BY <1>1, <2>1, <3>2 DEF LongestRecorded, n
      <4>2. k \in 1..(n + 1)
        BY <1>1
      <4> QED
        BY <1>6, <3>2, <4>1, <4>2
    <3>3. n = 0 => h.max_continual = h.current
      BY <1>1, <2>1, <2>2, <2>3 DEF LongestRecorded
    <3> QED
      BY <1>1, <2>3, <3>1, <3>2, <3>3
  <2> QED
    BY <1>1, <2>4, <2>5 DEF LongestRecorded
<1> QED
  BY <1>10, <1>11, <1>12, <1>13, <1>14 DEF Recorded, q, h

LEMMA OpsTyped == TypeOK => ops \in Seq(Op)
<1> DEFINE T == [size : Sizes, cost : Costs, time : Int]
<1>1. \A x \in T : x \in Op
  BY InfoAssumption DEF Op
<1> SUFFICES ASSUME TypeOK PROVE ops \in Seq(Op)
  OBVIOUS
<1>2. ops \in Seq(T)
  BY DEF TypeOK
<1> HIDE DEF T
<1> QED
  BY <1>1, <1>2

LEMMA HistoryStep ==
  TypeOK /\ Recorded(ops, info) /\ [Next]_vars => Recorded(ops, info)'
<1> SUFFICES ASSUME TypeOK, Recorded(ops, info), [Next]_vars
             PROVE  Recorded(ops', info')
  OBVIOUS
<1>1. info \in Info /\ ops \in Seq(Op) /\ now' \in Int
  <2>1. TypeOK'
    BY TypeStep
  <2> QED
    BY <2>1, OpsTyped DEF TypeOK
<1>2. ASSUME NEW size \in Sizes, NEW cost \in Costs, NEW gap \in Gaps,
             NEW jump \in Jumps, CountRWInfo(size, cost, gap, jump)
      PROVE  Recorded(ops', info')
  <2> DEFINE op == [size |-> size, cost |-> cost, time |-> now']
  <2>1. op \in Op /\ op.size = size /\ op.cost = cost /\ op.time = now'
    BY <1>1, InfoAssumption DEF Op
  <2>2. now' > 0
    BY <1>2 DEF CountRWInfo, Tick
  <2>3. ops' = Append(ops, op) /\ info' = Counted(info, size, cost, now')
    BY <1>2 DEF CountRWInfo
  <2> HIDE DEF op
  <2> QED
    BY <1>1, <2>1, <2>2, <2>3, RecordedStep
<1>3. ASSUME NEW gap \in Gaps, NEW jump \in Jumps, ProxyClose(gap, jump)
      PROVE  Recorded(ops', info')
  <2>1. ops' = ops /\ info' = Collected(info, now')
    BY <1>3 DEF ProxyClose
  <2>2. /\ info'.op_cnt = info.op_cnt /\ info'.op_size = info.op_size
        /\ info'.rw_cost = info.rw_cost /\ info'.max_once = info.max_once
        /\ info'.buffer_size = info.buffer_size
        /\ info'.current = info.current
        /\ info'.max_continual = info.max_continual
        /\ info'.last_rw_time = info.last_rw_time
    BY <1>1, <2>1 DEF Collected, Info
  <2> QED
    BY <2>1, <2>2 DEF Recorded, TotalsRecorded, LastRecorded, MaximaRecorded,
                      CurrentRecorded, LongestRecorded
<1>4. CASE UNCHANGED vars
  BY <1>4 DEF vars
<1> QED
  BY <1>2, <1>3, <1>4 DEF Next

LEMMA MaxIs ==
  ASSUME NEW S \in SUBSET Int, NEW m \in S, \A y \in S : y <= m
  PROVE  Max(S) = m
<1>1. \A y \in S : m >= y
  OBVIOUS
<1>2. ASSUME NEW x \in S, \A y \in S : x >= y PROVE x = m
  BY <1>2
<1> QED
  BY <1>1, <1>2 DEF Max

LEMMA RecordedExact ==
  ASSUME TypeOK, Recorded(ops, info)
  PROVE  CountersExact
<1>1. /\ SizeTo = SumTo(SizesOf(ops)) /\ CostTo = SumTo(CostsOf(ops))
      /\ \A b : CostOf(b) = Spent(ops, b[1], b[2])
      /\ \A j, k : Burst(j, k) <=> BurstOf(ops, j, k)
  BY DEF SizeTo, CostTo, SizesOf, CostsOf, CostOf, Spent, Burst, BurstOf
<1>2. PICK n \in Nat : n = Len(ops) /\ DOMAIN ops = 1..n
  BY DEF TypeOK
<1>3. \A k \in 1..n : ops[k].cost \in Nat /\ ops[k].size \in Nat
  BY <1>2, OpsTyped, OpFields
<1>4. ASSUME ops # <<>>
      PROVE  /\ info.max_once = Max({ops[k].cost : k \in DOMAIN ops})
             /\ info.buffer_size = Max({ops[k].size : k \in DOMAIN ops})
  <2>1. MaximaRecorded(ops, info)
    BY DEF Recorded
  <2> DEFINE S == {ops[k].cost : k \in DOMAIN ops}
             T == {ops[k].size : k \in DOMAIN ops}
  <2>2. S \in SUBSET Int /\ T \in SUBSET Int
    BY <1>2, <1>3
  <2>3. /\ info.max_once \in S /\ \A y \in S : y <= info.max_once
        /\ info.buffer_size \in T /\ \A y \in T : y <= info.buffer_size
    BY <1>2, <1>4, <2>1 DEF MaximaRecorded
  <2> HIDE DEF S, T
  <2>4. Max(S) = info.max_once /\ Max(T) = info.buffer_size
    BY <2>2, <2>3, MaxIs
  <2> QED
    BY <2>4 DEF S, T
<1>5. /\ Bursts = {b \in (1..n) \X (1..n) :
                     b[1] <= b[2] /\ BurstOf(ops, b[1], b[2])}
      /\ \A b \in Bursts : CostOf(b) = Spent(ops, b[1], b[2])
  BY <1>1, <1>2 DEF Bursts
<1>6. \A b \in Bursts : CostOf(b) \in Int
  <2>1. SumTo(CostsOf(ops)) \in [0..n -> Nat]
    <3>1. Len(CostsOf(ops)) = n
      BY <1>2 DEF CostsOf
    <3> QED
      BY <3>1, SumToSolves DEF Recorded, TotalsRecorded
  <2>2. ASSUME NEW b \in Bursts
        PROVE  b[2] \in 0..n /\ b[1] - 1 \in 0..n
    BY <1>5
  <2> QED
    BY <1>5, <2>1, <2>2 DEF Spent
<1>7. ASSUME ops # <<>>
      PROVE  info.max_continual = Max({CostOf(b) : b \in Bursts})
  <2>1. LongestRecorded(ops, info)
    BY DEF Recorded
  <2> DEFINE S == {CostOf(b) : b \in Bursts}
  <2>2. S \in SUBSET Int
    BY <1>6
  <2>3. info.max_continual \in S
    <3>1. PICK k \in 1..n : \E j \in 1..k :
            BurstOf(ops, j, k) /\ info.max_continual = Spent(ops, j, k)
      BY <1>2, <1>7, <2>1 DEF LongestRecorded
    <3>2. PICK j \in 1..k :
            BurstOf(ops, j, k) /\ info.max_continual = Spent(ops, j, k)
      BY <3>1
    <3>3. <<j, k>> \in Bursts
      BY <1>5, <3>1, <3>2
    <3>4. CostOf(<<j, k>>) = info.max_continual
      BY <1>1, <3>2
    <3> QED
      BY <3>3, <3>4
  <2>4. ASSUME NEW y \in S PROVE y <= info.max_continual
    <3>1. PICK b \in Bursts : y = CostOf(b)
      BY <2>4
    <3>2. /\ b[2] \in 1..n /\ b[1] \in 1..b[2] /\ BurstOf(ops, b[1], b[2])
          /\ y = Spent(ops, b[1], b[2])
      BY <1>5, <3>1
    <3> QED
      BY <1>2, <2>1, <3>2 DEF LongestRecorded
  <2> HIDE DEF S
  <2>5. Max(S) = info.max_continual
    BY <2>2, <2>3, <2>4, MaxIs
  <2> QED
    BY <2>5 DEF S
<1>8. ASSUME ops # <<>>
      PROVE  info.current = Max({CostOf(b) : b \in {c \in Bursts :
                                                     c[2] = Len(ops)}})
  <2>1. CurrentRecorded(ops, info)
    BY DEF Recorded
  <2> DEFINE R == {c \in Bursts : c[2] = Len(ops)}
             S == {CostOf(b) : b \in R}
  <2>2. S \in SUBSET Int
    BY <1>6
  <2>3. info.current \in S
    <3>1. PICK j \in 1..n :
            BurstOf(ops, j, n) /\ info.current = Spent(ops, j, n)
      BY <1>2, <1>8, <2>1 DEF CurrentRecorded
    <3>2. n \in 1..n /\ <<j, n>> \in Bursts
      BY <1>5, <3>1
    <3>3. CostOf(<<j, n>>) = info.current /\ <<j, n>> \in R
      BY <1>1, <1>2, <3>1, <3>2
    <3> QED
      BY <3>3
  <2>4. ASSUME NEW y \in S PROVE y <= info.current
    <3>1. PICK b \in Bursts : y = CostOf(b) /\ b[2] = n
      BY <1>2, <2>4
    <3>2. /\ b[1] \in 1..n /\ BurstOf(ops, b[1], n)
          /\ y = Spent(ops, b[1], n)
      BY <1>5, <3>1
    <3> QED
      BY <1>2, <2>1, <3>2 DEF CurrentRecorded
  <2> HIDE DEF S, R
  <2>5. Max(S) = info.current
    BY <2>2, <2>3, <2>4, MaxIs
  <2> QED
    BY <2>5 DEF S, R
<1> QED
  BY <1>1, <1>4, <1>7, <1>8
     DEF CountersExact, Recorded, TotalsRecorded

\* For any operations, the counters of CountRWInfo (native-lib.cpp:218-251)
\* are the totals and maxima of all operations, of the costliest burst and of
\* the burst that is still going on, with the bursts that the wall clock
\* separates.
THEOREM CountersAlwaysExact == Spec => []CountersExact
<1>1. Init => Recorded(ops, info)
  BY NothingRecorded DEF Init
<1>2. TypeOK /\ Recorded(ops, info) => CountersExact
  BY RecordedExact
<1> QED
  BY <1>1, <1>2, TypeInit, TypeStep, HistoryStep, PTL DEF Spec
=============================================================================
