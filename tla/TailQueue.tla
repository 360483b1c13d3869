----------------------------- MODULE TailQueue -----------------------------
(***************************************************************************)
(* The tail queue of queue.h, in which xh_core.c keeps the registered and  *)
(* the ignored entries: appending, and the loop of xh_core_clear that      *)
(* unlinks and frees every element while it walks the queue.               *)
(*                                                                         *)
(* tqh_last and tqe_prev are addresses of pointers to elements.  Such an   *)
(* address is named by what the pointer is a field of: an element, or the  *)
(* head (TheHead).                                                         *)
(***************************************************************************)
EXTENDS Naturals, Sequences

CONSTANTS Elems, NULL, TheHead, NoSweep

QueueAssumption ==
  /\ NULL \notin Elems /\ TheHead \notin Elems
  /\ NoSweep \notin Elems \cup {NULL}

VARIABLES tqh_first, tqh_last,
          entry,   \* tqe_next and tqe_prev of the allocated elements
          hi_tmp,  \* next element of the clearing loop, if it runs
          order    \* history: the elements in the queue, as inserted

vars == <<tqh_first, tqh_last, entry, hi_tmp, order>>

\* TAILQ_HEAD_INITIALIZER
Init ==
  /\ tqh_first = NULL /\ tqh_last = TheHead
  /\ entry = <<>>
  /\ hi_tmp = NoSweep
  /\ order = <<>>

-----------------------------------------------------------------------------
\* TAILQ_INSERT_TAIL of an element just allocated.
InsertTail(elm) ==
  /\ hi_tmp = NoSweep
  /\ elm \notin DOMAIN entry
  /\ LET new == [next |-> NULL, prev |-> tqh_last]
         set == [e \in DOMAIN entry \cup {elm} |->
                   IF e = elm THEN new ELSE entry[e]]
     IN  IF tqh_last = TheHead
           THEN tqh_first' = elm /\ entry' = set
           ELSE /\ entry' = [set EXCEPT ![tqh_last].next = elm]
                /\ UNCHANGED tqh_first
  /\ tqh_last' = elm
  /\ order' = Append(order, elm)
  /\ UNCHANGED hi_tmp

SweepBegin ==
  /\ hi_tmp = NoSweep
  /\ hi_tmp' = tqh_first
  /\ UNCHANGED <<tqh_first, tqh_last, entry, order>>

\* Mutant: the address of the last pointer stays in the freed element.
LastKept(next, prev) == tqh_last

\* tqh_last after the removal of an element between prev and next.
LastWithout(next, prev) == IF next = NULL THEN prev ELSE tqh_last

\* The sequence s without its element e.
Without(s, e) ==
  [i \in 1..(Len(s) - 1) |-> IF \E j \in 1..i : s[j] = e THEN s[i + 1] ELSE s[i]]

\* One iteration: the next element is read, then TAILQ_REMOVE and free.
SweepStep ==
  /\ hi_tmp \in Elems
  /\ LET next == entry[hi_tmp].next
         prev == entry[hi_tmp].prev
         freed == [e \in DOMAIN entry \ {hi_tmp} |->
                     IF e = next THEN [entry[e] EXCEPT !.prev = prev]
                                 ELSE entry[e]]
     IN  /\ IF prev = TheHead
              THEN tqh_first' = next /\ entry' = freed
              ELSE /\ entry' = [freed EXCEPT ![prev].next = next]
                   /\ UNCHANGED tqh_first
         /\ tqh_last' = LastWithout(next, prev)
         /\ hi_tmp' = next
  /\ order' = Without(order, hi_tmp)

SweepEnd ==
  /\ hi_tmp = NULL
  /\ hi_tmp' = NoSweep
  /\ UNCHANGED <<tqh_first, tqh_last, entry, order>>

Next ==
  \/ \E elm \in Elems : InsertTail(elm)
  \/ SweepBegin \/ SweepStep \/ SweepEnd

Spec == Init /\ [][Next]_vars

-----------------------------------------------------------------------------
\* The queue is the elements inserted and not removed, in that order, with
\* no pointer into an element that was freed: whatever was cleared before,
\* the next registration is appended where the walks find it.
QueueIsSequence ==
  LET At(i) == IF i = 0 THEN TheHead
               ELSE IF i > Len(order) THEN NULL ELSE order[i]
  IN  /\ DOMAIN entry = {order[i] : i \in DOMAIN order}
      /\ tqh_first = At(1)
      /\ tqh_last = At(Len(order))
      /\ \A i \in DOMAIN order :
           entry[order[i]] = [next |-> At(i + 1), prev |-> At(i - 1)]
=============================================================================
