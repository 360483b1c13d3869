----------------------------- MODULE MCXhSelect -----------------------------
(***************************************************************************)
(* Enumerates registries: every list of at most MaxHooks hooks and         *)
(* MaxIgnores ignore entries, built in the order the application calls     *)
(* xhook_register and xhook_ignore.                                        *)
(***************************************************************************)
EXTENDS XhSelect

CONSTANTS MaxHooks, MaxIgnores

VARIABLES hooks, ignores

vars == <<hooks, ignores>>

Init == hooks = <<>> /\ ignores = <<>>

AddHook ==
  /\ Len(hooks) < MaxHooks
  /\ \E h \in HookInfo : hooks' = Append(hooks, h)
  /\ UNCHANGED ignores

AddIgnore ==
  /\ Len(ignores) < MaxIgnores
  /\ \E i \in IgnoreInfo : ignores' = Append(ignores, i)
  /\ UNCHANGED hooks

Next == AddHook \/ AddIgnore

Spec == Init /\ [][Next]_vars

\* xh_core_hook_impl hooks exactly what the registry asks for: cutting the
\* whole function short at an ignore-all entry never skips a wanted hook, in
\* whatever order hooks and ignore entries were added.
HookImplExact ==
  \A lib \in Libs : HookImpl(hooks, ignores, lib) = Wanted(hooks, ignores, lib)

\* A library that passes the check of xh_core_refresh_impl has at least one
\* hook to apply: no library is tracked (its ELF parsed, its base address
\* recorded) for nothing.
NeedHookSound ==
  \A lib \in Libs : NeedHook(hooks, ignores, lib)
                       => HookImpl(hooks, ignores, lib) # {}

\* "if we need to hook this elf?" (xh_core.c:358) answered yes whenever
\* xh_core_hook_impl, which ignores only "the current symbol"
\* (xh_core.c:269), would hook something in the library.
NeedHookComplete ==
  \A lib \in Libs : HookImpl(hooks, ignores, lib) # {}
                       => NeedHook(hooks, ignores, lib)
=============================================================================
