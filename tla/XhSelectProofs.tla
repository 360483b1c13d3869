--------------------------- MODULE XhSelectProofs ---------------------------
(***************************************************************************)
(* The two selections of xh_core.c agree with the registry, for every      *)
(* registry: proofs of the properties MCXhSelect checks on short lists.    *)
(***************************************************************************)
EXTENDS MCXhSelect, TLAPS

\* The early return of xh_core_hook_impl (xh_core.c:265-266) at hook k means
\* that every hook is ignored in that library, the ones after k included.
LEMMA ReturnIgnoresAll ==
  ASSUME NEW hs, NEW igs, NEW lib, NEW k, ReturnsAt(hs, igs, lib, k),
         NEW hi
  PROVE  IsIgnored(igs, hi, lib)
<1>1. PICK j \in DOMAIN igs : /\ Applies(igs[j], hs[k], lib)
                              /\ igs[j].symbol = AllSymbols
  BY DEF ReturnsAt
<1>2. Applies(igs[j], hi, lib)
  BY <1>1 DEF Applies
<1> QED
  BY <1>2 DEF IsIgnored

\* What xh_core_hook_impl applies to a library is what the registry wants.
LEMMA HookImplIsWanted ==
  ASSUME NEW hs, NEW igs, NEW lib
  PROVE  HookImpl(hs, igs, lib) = Wanted(hs, igs, lib)
<1>1. HookImpl(hs, igs, lib) \subseteq Wanted(hs, igs, lib)
  BY DEF HookImpl, Wanted
<1>2. ASSUME NEW i \in Wanted(hs, igs, lib)
      PROVE  i \in HookImpl(hs, igs, lib)
  <2>1. /\ i \in DOMAIN hs
        /\ Matches(hs[i], lib)
        /\ ~ IsIgnored(igs, hs[i], lib)
    BY DEF Wanted
  <2>2. \A k \in 1..(i - 1) : ~ ReturnsAt(hs, igs, lib, k)
    BY <2>1, ReturnIgnoresAll
  <2> QED
    BY <2>1, <2>2 DEF HookImpl
<1> QED
  BY <1>1, <1>2

\* The check of xh_core_refresh_impl is passed only by a library to which
\* some hook applies.
LEMMA NeedHookHooks ==
  ASSUME NEW hs, NEW igs, NEW lib, NeedHook(hs, igs, lib)
  PROVE  HookImpl(hs, igs, lib) # {}
<1>1. PICK i \in DOMAIN hs : /\ Matches(hs[i], lib)
                             /\ ~ IsIgnored(igs, hs[i], lib)
  BY DEF NeedHook
<1>2. i \in Wanted(hs, igs, lib)
  BY <1>1 DEF Wanted
<1> QED
  BY <1>2, HookImplIsWanted

\* For every registry, in every order of registration, xh_core_hook_impl
\* (xh_core.c:248-281) applies exactly the hooks that match the library and
\* are not ignored.
THEOREM HookImplExactAlways == Spec => []HookImplExact
<1>1. HookImplExact
  BY HookImplIsWanted DEF HookImplExact
<1> QED
  BY <1>1, PTL

\* For every registry, a library that xh_core_refresh_impl decides to hook
\* (xh_core.c:357-382) has a hook that xh_core_hook_impl applies.
THEOREM NeedHookSoundAlways == Spec => []NeedHookSound
<1>1. NeedHookSound
  BY NeedHookHooks DEF NeedHookSound
<1> QED
  BY <1>1, PTL
=============================================================================
