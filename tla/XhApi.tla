-------------------------------- MODULE XhApi --------------------------------
(***************************************************************************)
(* What xhook promises an application that calls register, ignore and      *)
(* clear one at a time, with no flag, mutex, thread or file in it.         *)
(*                                                                         *)
(* The registry grows until the first refresh seals it and is empty and    *)
(* open again after clear.  While it is sealed, libraries are found: each  *)
(* is hooked once, when it is found, as the whole registry wants, and not  *)
(* again before it has been forgotten.  A hook, once installed, stays.     *)
(***************************************************************************)
EXTENDS XhSelect

CONSTANTS Hooks, Ignores

VARIABLES hook_info, ignore_info,
          sealed,     \* no entry is accepted
          tracked,    \* libraries that are not hooked again
          installed   \* symbols hooked in each library

vars == <<hook_info, ignore_info, sealed, tracked, installed>>

Init ==
  /\ hook_info = <<>> /\ ignore_info = <<>>
  /\ sealed = FALSE
  /\ tracked = {}
  /\ installed = [lib \in Libs |-> {}]

Register(hi) ==
  /\ ~ sealed
  /\ hook_info' = Append(hook_info, hi)
  /\ UNCHANGED <<ignore_info, sealed, tracked, installed>>

Ignore(ii) ==
  /\ ~ sealed
  /\ ignore_info' = Append(ignore_info, ii)
  /\ UNCHANGED <<hook_info, sealed, tracked, installed>>

Seal ==
  /\ sealed' = TRUE
  /\ UNCHANGED <<hook_info, ignore_info, tracked, installed>>

WantedSymbols(lib) ==
  {hook_info[i].symbol : i \in Wanted(hook_info, ignore_info, lib)}

\* A library the registry wants a hook in is found.  Hooking may be cut short.
Hook(lib) ==
  /\ sealed
  /\ lib \notin tracked
  /\ WantedSymbols(lib) # {}
  /\ tracked' = tracked \cup {lib}
  /\ \E done \in SUBSET WantedSymbols(lib) :
       installed' = [installed EXCEPT ![lib] = @ \cup done]
  /\ UNCHANGED <<hook_info, ignore_info, sealed>>

\* Libraries that are no longer mapped are forgotten.
Forget ==
  /\ sealed
  /\ tracked' \in SUBSET tracked
  /\ UNCHANGED <<hook_info, ignore_info, sealed, installed>>

Clear ==
  /\ sealed' = FALSE
  /\ hook_info' = <<>> /\ ignore_info' = <<>>
  /\ tracked' = {}
  /\ UNCHANGED installed

Next ==
  \/ \E hi \in Hooks : Register(hi)
  \/ \E ii \in Ignores : Ignore(ii)
  \/ Seal \/ Forget \/ Clear
  \/ \E lib \in Libs : Hook(lib)

Spec == Init /\ [][Next]_vars
=============================================================================
