------------------------------ MODULE MmapDemo ------------------------------
(***************************************************************************)
(* The log of mmap_demo.cpp: a file mapped by initNative and appended to   *)
(* by writeNative through the global write_ptr.  The file outlives the     *)
(* process; every creation of the activity maps it again and starts at its *)
(* beginning.  Both run on the main thread.                                *)
(*                                                                         *)
(* A byte of the file is what it was extended with (0) or a byte of a log. *)
(* writeNative logs write_ptr as a string after the copy, initNative       *)
(* before it returns: the read goes on to the first 0.                     *)
(***************************************************************************)
EXTENDS Naturals

CONSTANTS Capacity,  \* bytes mapped
          Lens,      \* lengths of the logs written
          NoLog      \* write_ptr is NULL

MmapAssumption ==
  /\ Capacity \in Nat \ {0}
  /\ Lens \subseteq Nat \ {0}
  /\ NoLog \notin Nat

VARIABLES write_ptr,  \* offset of the next log in the mapping
          written,    \* bytes of the file that hold part of a log
          process,    \* running, stopped, or what it did wrong
          logged,     \* history: bytes logged since the last initNative
          peak        \* history: the most there ever were

vars == <<write_ptr, written, process, logged, peak>>

Offsets == 0..(Capacity - 1)

Init ==
  /\ write_ptr = NoLog
  /\ written = {}
  /\ process = "stopped"
  /\ logged = 0 /\ peak = 0

\* Reading a string at an offset stays inside if it meets a 0 there.
EndsInside(offset, bytes) == \E i \in Offsets \ bytes : i >= offset

\* Mutant: the pointer of the mapping before is kept.
StartKept == IF write_ptr = NoLog THEN 0 ELSE write_ptr

\* Where writing starts in a new mapping.
Start == 0

InitNative ==
  /\ process \in {"stopped", "running"}
  /\ write_ptr' = Start
  /\ process' = IF EndsInside(Start, written) THEN "running" ELSE "read_past"
  /\ logged' = 0
  /\ UNCHANGED <<written, peak>>

\* The file cannot be opened or mapped: nobody looks at the result.
InitNativeFails ==
  /\ process \in {"stopped", "running"}
  /\ write_ptr' = NoLog
  /\ process' = "running"
  /\ UNCHANGED <<written, logged, peak>>

WriteNative(len) ==
  /\ process = "running" /\ write_ptr # NoLog
  /\ LET end == write_ptr + len
     IN  /\ write_ptr' = end
         /\ written' = written \cup {i \in Offsets : write_ptr <= i /\ i < end}
         /\ process' = CASE end > Capacity -> "wrote_past"
                         [] end <= Capacity /\ EndsInside(end, written') ->
                              "running"
                         [] OTHER -> "read_past"
  /\ logged' = logged + len
  /\ peak' = IF logged' > peak THEN logged' ELSE peak

WriteNativeNull ==
  /\ process = "running" /\ write_ptr = NoLog
  /\ process' = "null_written"
  /\ UNCHANGED <<write_ptr, written, logged, peak>>

\* The process ends, whatever it did last, and is started again later.
Restart ==
  /\ process # "stopped"
  /\ process' = "stopped"
  /\ write_ptr' = NoLog
  /\ UNCHANGED <<written, logged, peak>>

Next ==
  \/ InitNative \/ InitNativeFails \/ WriteNativeNull \/ Restart
  \/ \E len \in Lens : WriteNative(len)

Spec == Init /\ [][Next]_vars

-----------------------------------------------------------------------------
\* No access leaves the mapping as long as every start of the log, in this
\* process and in those before it, was followed by fewer bytes than it maps:
\* what an earlier process left in the file is overwritten from its beginning
\* and still ended by a 0.
PastOnlyWhenFull ==
  process \in {"wrote_past", "read_past"} => peak >= Capacity
=============================================================================
