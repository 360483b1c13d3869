------------------------------ MODULE XhSelect ------------------------------
(***************************************************************************)
(* Which hooks of the registry apply to a library: the two selections that *)
(* xh_core.c computes while it refreshes.                                  *)
(*                                                                         *)
(*   - NeedHook: the check xh_core_refresh_impl makes on every line of     *)
(*     /proc/self/maps ("if we need to hook this elf?");                   *)
(*   - HookImpl: the registrations xh_core_hook_impl then applies to it.   *)
(*                                                                         *)
(* A compiled pathname regex is abstracted to the set of libraries whose   *)
(* path it matches, so regexec(...) == 0 is set membership.  Both tail     *)
(* queues are sequences, in insertion order.                               *)
(***************************************************************************)
EXTENDS Naturals, Sequences

CONSTANTS Libs,       \* shared libraries the process may map
          Syms,       \* imported symbols that may be hooked
          AllSymbols  \* the NULL symbol of an ignore entry: every symbol

ASSUME SelectAssumption == AllSymbols \notin Syms

HookInfo == [pathname_regex : SUBSET Libs, symbol : Syms]

IgnoreInfo == [pathname_regex : SUBSET Libs, symbol : Syms \cup {AllSymbols}]

Matches(info, lib) == lib \in info.pathname_regex

\* Ignore entry ii stops the walk over the ignore list for hook hi on lib.
Applies(ii, hi, lib) ==
  /\ Matches(ii, lib)
  /\ ii.symbol = AllSymbols \/ ii.symbol = hi.symbol

IsIgnored(ignores, hi, lib) ==
  \E j \in DOMAIN ignores : Applies(ignores[j], hi, lib)

-----------------------------------------------------------------------------
(* What the registry asks for, with no order of evaluation.                *)

Wanted(hooks, ignores, lib) ==
  {i \in DOMAIN hooks : /\ Matches(hooks[i], lib)
                        /\ ~ IsIgnored(ignores, hooks[i], lib)}

-----------------------------------------------------------------------------
(* The loops of the code.                                                  *)

\* Mutant: the ignore list is not consulted.
NeedHookMatching(hooks, ignores, lib) ==
  \E i \in DOMAIN hooks : Matches(hooks[i], lib)

\* The check of xh_core_refresh_impl: only the first hook whose regex matches
\* decides, because both exits of the inner loop leave the outer one.
NeedHook(hooks, ignores, lib) ==
  \E i \in DOMAIN hooks :
    /\ Matches(hooks[i], lib)
    /\ \A k \in 1..(i - 1) : ~ Matches(hooks[k], lib)
    /\ ~ IsIgnored(ignores, hooks[i], lib)

\* xh_core_hook_impl returns from the whole function at hook k: the first
\* ignore entry that applies to it names all symbols.
ReturnsAt(hooks, ignores, lib, k) ==
  /\ Matches(hooks[k], lib)
  /\ \E j \in DOMAIN ignores :
       /\ Applies(ignores[j], hooks[k], lib)
       /\ ignores[j].symbol = AllSymbols
       /\ \A m \in 1..(j - 1) : ~ Applies(ignores[m], hooks[k], lib)

\* Mutant: any ignored hook ends the whole function.
HookImplReturnEarly(hooks, ignores, lib) ==
  {i \in DOMAIN hooks :
     /\ Matches(hooks[i], lib)
     /\ \A k \in 1..i : Matches(hooks[k], lib)
                           => ~ IsIgnored(ignores, hooks[k], lib)}

\* The hooks for which xh_core_hook_impl calls xh_elf_hook, in one call.
HookImpl(hooks, ignores, lib) ==
  {i \in DOMAIN hooks :
     /\ Matches(hooks[i], lib)
     /\ ~ IsIgnored(ignores, hooks[i], lib)
     /\ \A k \in 1..(i - 1) : ~ ReturnsAt(hooks, ignores, lib, k)}

=============================================================================
