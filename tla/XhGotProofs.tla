---------------------------- MODULE XhGotProofs ----------------------------
(***************************************************************************)
(* Theorems about the replacement of GOT slots, for any libraries, slots,  *)
(* registries and proxies.                                                 *)
(*                                                                         *)
(* The old_func variables form chains.  A chain is finite because each     *)
(* proxy on it was registered before the one that calls it: the proxies    *)
(* below one, Under, become fewer from hop to hop.                         *)
(***************************************************************************)
EXTENDS XhGot, FiniteSetTheorems, WellFoundedInduction, TLAPS

Hooks == DOMAIN hook_info

SymbolOf(h) == hook_info[h].symbol
ProxyOf(h)  == hook_info[h].proxy

TypeOK ==
  /\ pc \in {"idle", "check", "save", "replace", "restore"}
  /\ hook_info \in Registries
  /\ lib \in Libs
  /\ todo \in SUBSET Replacements(lib)
  /\ got = [l \in Libs |-> got[l]]
  /\ \A l \in Libs : got[l] \in [DOMAIN Relocs[l] -> Syms \cup Proxies]
  /\ old_func \in [Proxies -> Syms \cup Proxies \cup {Null}]
  /\ writable \in SUBSET Pages
  /\ hooked \in SUBSET Libs
  /\ restore \in BOOLEAN /\ rehooked \in BOOLEAN /\ failed \in BOOLEAN

-----------------------------------------------------------------------------
(* What the slots hold and what the proxies call.                          *)

\* A slot holds the function of its symbol, or a proxy registered for it.
SlotTyped ==
  \A l \in Libs : \A i \in DOMAIN Relocs[l] :
    got[l][i] # Relocs[l][i].symbol =>
      \E h \in Hooks :
        SymbolOf(h) = Relocs[l][i].symbol /\ got[l][i] = ProxyOf(h)

\* A library that is not hooked has the slots the linker bound.
FreshBound ==
  /\ \A l \in Libs \ hooked : got[l] = Bound(l)
  /\ pc # "idle" => lib \in hooked

\* Before a library is hooked again, a slot that is to be replaced holds no
\* proxy that was registered later.
SlotBehind ==
  ~ rehooked /\ pc # "idle" =>
    \A r \in todo :
      got[lib][r.reloc] # Relocs[lib][r.reloc].symbol =>
        \E g \in Hooks : /\ SymbolOf(g) = SymbolOf(r.hook)
                         /\ g <= r.hook
                         /\ got[lib][r.reloc] = ProxyOf(g)

\* A proxy that can be called has its old_func set, and so has the one that it
\* calls.
OldSet ==
  /\ \A l \in Libs : \A i \in DOMAIN Relocs[l] :
       got[l][i] \in Proxies => old_func[got[l][i]] # Null
  /\ \A p \in Proxies :
       old_func[p] \in Proxies => old_func[old_func[p]] # Null

\* xh_elf_replace_function does not replace a proxy by itself, and saves first.
SavedInv ==
  \A r \in todo : IsNext(r) =>
    /\ pc = "save" => got[lib][r.reloc] # Proxy(r)
    /\ pc = "replace" => old_func[Proxy(r)] # Null

\* The proxies registered before p for the same symbol.
Under(p) ==
  {q \in Proxies \ {p} :
     \E g, h \in Hooks : /\ g < h /\ SymbolOf(g) = SymbolOf(h)
                         /\ ProxyOf(g) = q /\ ProxyOf(h) = p}

Clean == ~ (rehooked /\ Contended)

\* A proxy calls the function it replaces or one registered before it.
OldUnder ==
  Clean =>
    \A h \in Hooks :
      old_func[ProxyOf(h)] \in {Null, SymbolOf(h)} \cup Under(ProxyOf(h))

CallInv ==
  SlotTyped /\ FreshBound /\ SlotBehind /\ OldSet /\ SavedInv /\ OldUnder

-----------------------------------------------------------------------------
(* Which proxies are on the way, as long as nothing fails.                 *)

\* What was done comes before what is to be done.
TodoSuffix ==
  ~ failed /\ pc # "idle" =>
    \A r \in Replacements(lib) \ todo, q \in todo :
      r.hook < q.hook \/ (r.hook = q.hook /\ r.reloc < q.reloc)

Pair(h, i) == [hook |-> h, reloc |-> i]

\* Hook h was applied to slot i of library l.
Done(l, i, h) ==
  /\ Replaces(l, i, h)
  /\ \/ l # lib \/ pc = "idle" \/ Pair(h, i) \notin todo
     \/ pc = "restore" /\ IsNext(Pair(h, i))

\* A slot holds the proxy of the last hook applied to it.
SlotTop ==
  ~ failed =>
    \A l \in hooked : \A i \in DOMAIN Relocs[l], h \in Hooks :
      Done(l, i, h) =>
        \E k \in Hooks : h <= k /\ Done(l, i, k) /\ got[l][i] = ProxyOf(k)

\* Hook g is the last one before h for the same symbol.
IsPrev(g, h) ==
  /\ g < h /\ SymbolOf(g) = SymbolOf(h) /\ ProxyOf(g) # ProxyOf(h)
  /\ \A k \in Hooks : g < k /\ k < h => SymbolOf(k) # SymbolOf(h)

\* A proxy calls the one registered before it.
OldPrev ==
  ~ failed =>
    \A g, h \in Hooks :
      IsPrev(g, h) => old_func[ProxyOf(h)] \in {Null, ProxyOf(g)}

ChainInv == TodoSuffix /\ SlotTop /\ OldPrev

\* Only the page of the slot that is being replaced has another protection.
PageInv ==
  ~ failed =>
    /\ pc \in {"idle", "check"} => writable = WritablePages
    /\ pc \in {"save", "replace", "restore"} =>
         \A r \in todo : IsNext(r) =>
           /\ WritablePages \subseteq writable
           /\ writable \subseteq WritablePages \cup {Page(r)}
           /\ restore <=> Page(r) \notin WritablePages

IInv == TypeOK /\ CallInv /\ ChainInv /\ PageInv

-----------------------------------------------------------------------------
LEMMA Element ==
  ASSUME NEW S, NEW s \in Seq(S), NEW i \in DOMAIN s
  PROVE  i \in Nat /\ s[i] \in S
OBVIOUS

LEMMA RelocFacts ==
  ASSUME NEW l \in Libs, NEW i \in DOMAIN Relocs[l]
  PROVE  /\ i \in Nat /\ Relocs[l][i].symbol \in Syms
         /\ Relocs[l][i].page \in Pages
<1>1. Relocs[l] \in Seq([symbol : Syms, section : Sections, page : Pages])
  BY GotAssumption
<1>2. i \in Nat /\ Relocs[l][i] \in [symbol : Syms, section : Sections,
                                       page : Pages]
  BY <1>1, Element
<1>3. QED
  BY <1>2

LEMMA HookFacts ==
  ASSUME TypeOK, NEW h \in Hooks
  PROVE  h \in Nat /\ SymbolOf(h) \in Syms /\ ProxyOf(h) \in Proxies
<1>1. hook_info \in Seq([symbol : Syms, proxy : Proxies])
  BY GotAssumption DEF TypeOK
<1>2. h \in Nat /\ hook_info[h] \in [symbol : Syms, proxy : Proxies]
  BY <1>1, Element DEF Hooks
<1>3. QED
  BY <1>2 DEF SymbolOf, ProxyOf

LEMMA TodoFacts ==
  ASSUME TypeOK, NEW r \in todo
  PROVE  /\ r.hook \in Hooks /\ r.hook \in Nat
         /\ r.reloc \in DOMAIN Relocs[lib] /\ r.reloc \in Nat
         /\ Relocs[lib][r.reloc].symbol = SymbolOf(r.hook)
         /\ Proxy(r) = ProxyOf(r.hook) /\ Proxy(r) \in Proxies
         /\ r = Pair(r.hook, r.reloc)
         /\ Replaces(lib, r.reloc, r.hook)
         /\ got[lib][r.reloc] \in Syms \cup Proxies
<1>1. r \in [hook : DOMAIN hook_info, reloc : DOMAIN Relocs[lib]]
  BY DEF TypeOK, Replacements
<1>2. Replaces(lib, r.reloc, r.hook)
  BY DEF TypeOK, Replacements
<1>3. lib \in Libs
  BY DEF TypeOK
<1>4. Relocs[lib][r.reloc].symbol = SymbolOf(r.hook)
  BY <1>2 DEF Replaces, Names, SymbolOf
<1>5. QED
  <2>1. r.hook \in Hooks /\ r.reloc \in DOMAIN Relocs[lib]
    BY <1>1 DEF Hooks
  <2>2. r = Pair(r.hook, r.reloc)
    BY <1>1 DEF Pair
  <2>3. QED
    BY <1>2, <1>3, <1>4, <2>1, <2>2, HookFacts, RelocFacts
    DEF ProxyOf, Proxy, TypeOK

LEMMA NextUnique ==
  ASSUME TypeOK, NEW r \in todo, NEW q \in todo, IsNext(r), IsNext(q)
  PROVE  r = q
<1>1. r.hook = q.hook /\ r.reloc = q.reloc
  BY TodoFacts DEF IsNext
<1>2. QED
  BY <1>1, TodoFacts

\* A symbol with two proxies has each of them once.
LEMMA OwnHook ==
  ASSUME TypeOK, NEW g \in Hooks, NEW h \in Hooks, ProxyOf(g) = ProxyOf(h)
  PROVE  /\ SymbolOf(g) = SymbolOf(h)
         /\ g # h => \A k \in Hooks : SymbolOf(k) = SymbolOf(g) =>
                                        ProxyOf(k) = ProxyOf(g)
BY ProxyAssumption DEF TypeOK, Hooks, SymbolOf, ProxyOf

\* Whether a hook replaces a slot depends on its symbol alone.
LEMMA ReplacesSymbol ==
  ASSUME NEW l, NEW i, NEW g, NEW h, SymbolOf(g) = SymbolOf(h),
         Replaces(l, i, g)
  PROVE  Replaces(l, i, h)
BY DEF Replaces, Names, SymbolOf

-----------------------------------------------------------------------------
LEMMA InitInv == Init => IInv
<1> SUFFICES ASSUME Init PROVE IInv
  OBVIOUS
<1>1. TypeOK
  <2>1. \A l \in Libs : Bound(l) \in [DOMAIN Relocs[l] -> Syms \cup Proxies]
    BY RelocFacts DEF Bound
  <2>2. QED
    BY <2>1, GotAssumption DEF Init, TypeOK
<1>2. \A l \in Libs : got[l] = Bound(l)
  BY DEF Init
<1>3. \A l \in Libs : \A i \in DOMAIN Relocs[l] :
        got[l][i] = Relocs[l][i].symbol
  BY <1>2 DEF Bound
<1>4. CallInv
  <2>1. SlotTyped /\ FreshBound /\ SlotBehind /\ SavedInv
    BY <1>2, <1>3 DEF Init, SlotTyped, FreshBound, SlotBehind, SavedInv
  <2>2. OldSet
    BY <1>3, RelocFacts, GotAssumption DEF Init, OldSet
  <2>3. OldUnder
    BY <1>1, HookFacts DEF Init, OldUnder
  <2>4. QED
    BY <2>1, <2>2, <2>3 DEF CallInv
<1>5. ChainInv
  BY <1>1, HookFacts DEF Init, ChainInv, TodoSuffix, SlotTop, OldPrev
<1>6. PageInv
  BY DEF Init, PageInv
<1>7. QED
  BY <1>1, <1>4, <1>5, <1>6 DEF IInv

LEMMA HookLibInv ==
  ASSUME IInv, NEW l \in Libs, HookLib(l)
  PROVE  IInv'
<1> USE DEF IInv, HookLib
<1>1. TypeOK'
  BY DEF TypeOK, Replacements, Replaces, Names
<1>2. CallInv'
  <2>1. ~ rehooked' => got[l] = Bound(l)
    BY DEF CallInv, FreshBound, TypeOK
  <2>2. SlotBehind'
    <3> SUFFICES ASSUME ~ rehooked', NEW r \in todo'
                 PROVE  got[l][r.reloc] = Relocs[l][r.reloc].symbol
      BY DEF SlotBehind
    <3>1. r.reloc \in DOMAIN Relocs[l]
      BY DEF Replacements
    <3>2. QED
      BY <2>1, <3>1 DEF Bound
  <2>3. QED
    BY <2>2 DEF CallInv, SlotTyped, FreshBound, OldSet, SavedInv, OldUnder,
      Clean, Contended, Under, Hooks, SymbolOf, ProxyOf, IsNext, Proxy, TypeOK
<1>3. TodoSuffix' /\ OldPrev'
  BY DEF ChainInv, TodoSuffix, OldPrev, IsPrev, Hooks, SymbolOf, ProxyOf,
    Replacements, Replaces, Names
<1>4. SlotTop'
  <2> SUFFICES ASSUME ~ failed, NEW m \in hooked', NEW i \in DOMAIN Relocs[m],
                      NEW h \in Hooks, Done(m, i, h)'
               PROVE  \E k \in Hooks : /\ h <= k /\ Done(m, i, k)'
                                       /\ got[m][i] = ProxyOf(k)
    BY DEF SlotTop, Hooks, ProxyOf
  <2>1. m # l
    <3> SUFFICES ASSUME m = l PROVE FALSE
      OBVIOUS
    <3>1. Pair(h, i) \in Replacements(l)
      BY DEF Done, Replacements, Replaces, Names, Pair, Hooks
    <3>2. QED
      BY <3>1 DEF Done
  <2>2. \A k : Replaces(m, i, k) <=> Done(m, i, k)
    BY DEF Done
  <2>3. \A k : Replaces(m, i, k)' <=> Done(m, i, k)'
    BY <2>1 DEF Done, Replaces, Names
  <2>4. \A k : Replaces(m, i, k)' <=> Replaces(m, i, k)
    BY DEF Replaces, Names
  <2>5. QED
    BY <2>1, <2>2, <2>3, <2>4 DEF ChainInv, SlotTop
<1>5. PageInv'
  BY DEF PageInv
<1>6. QED
  BY <1>1, <1>2, <1>3, <1>4, <1>5 DEF ChainInv

LEMMA HookLibDoneInv ==
  ASSUME IInv, HookLibDone
  PROVE  IInv'
<1> USE DEF IInv, HookLibDone
<1>1. TypeOK'
  BY DEF TypeOK, Replacements, Replaces, Names
<1>2. CallInv'
  BY DEF CallInv, SlotTyped, FreshBound, SlotBehind, OldSet, SavedInv,
    OldUnder, Clean, Contended, Under, Hooks, SymbolOf, ProxyOf
<1>3. TodoSuffix' /\ OldPrev'
  BY DEF ChainInv, TodoSuffix, OldPrev, IsPrev, Hooks, SymbolOf, ProxyOf
<1>4. SlotTop'
  <2>1. \A l, i, h : Done(l, i, h)' <=> Done(l, i, h)
    BY DEF Done, Replaces, Names
  <2>2. QED
    BY <2>1 DEF ChainInv, SlotTop, Hooks, ProxyOf
<1>5. PageInv'
  BY DEF PageInv
<1>6. QED
  BY <1>1, <1>2, <1>3, <1>4, <1>5 DEF ChainInv

\* Taking the next replacement from those to do keeps them a suffix.
LEMMA NextDone ==
  ASSUME IInv, NEW r \in todo, IsNext(r), pc # "idle", pc' # "idle",
         todo' = todo \ {r}, UNCHANGED <<lib, hook_info, failed>>
  PROVE  TodoSuffix'
<1> SUFFICES ASSUME ~ failed, NEW p \in Replacements(lib), p \notin todo',
                    NEW q \in todo, q # r
             PROVE  p.hook < q.hook \/ (p.hook = q.hook /\ p.reloc < q.reloc)
  BY DEF TodoSuffix, Replacements, Replaces, Names
<1>1. CASE p = r
  <2>1. r.hook < q.hook \/ (r.hook = q.hook /\ r.reloc <= q.reloc)
    BY DEF IsNext
  <2>2. ~ (r.hook = q.hook /\ r.reloc = q.reloc)
    BY TodoFacts DEF IInv
  <2>3. QED
    BY <1>1, <2>1, <2>2, TodoFacts DEF IInv
<1>2. CASE p # r
  BY <1>2 DEF IInv, ChainInv, TodoSuffix
<1>3. QED
  BY <1>1, <1>2

LEMMA AlreadyReplacedInv ==
  ASSUME IInv, NEW r \in todo, AlreadyReplaced(r)
  PROVE  IInv'
<1> USE DEF IInv, AlreadyReplaced
<1>1. TypeOK'
  BY DEF TypeOK, Replacements, Replaces, Names
<1>2. CallInv'
  BY DEF CallInv, SlotTyped, FreshBound, SlotBehind, OldSet, SavedInv,
    OldUnder, Clean, Contended, Under, Hooks, SymbolOf, ProxyOf
<1>3. TodoSuffix'
  BY NextDone
<1>4. OldPrev'
  BY DEF ChainInv, OldPrev, IsPrev, Hooks, SymbolOf, ProxyOf
<1>5. SlotTop'
  <2> SUFFICES ASSUME ~ failed, NEW l \in hooked, NEW i \in DOMAIN Relocs[l],
                      NEW h \in Hooks, Done(l, i, h)'
               PROVE  \E k \in Hooks : /\ h <= k /\ Done(l, i, k)'
                                       /\ got[l][i] = ProxyOf(k)
    BY DEF SlotTop, Hooks, ProxyOf
  <2>1. \A k : Done(l, i, k) => Done(l, i, k)'
    BY DEF Done, Replaces, Names
  <2>2. CASE Done(l, i, h)
    BY <2>1, <2>2 DEF ChainInv, SlotTop
  <2>3. CASE ~ Done(l, i, h)
    <3>1. l = lib /\ Pair(h, i) = r
      BY <2>3 DEF Done, Replaces, Names
    <3>2. r.hook = h /\ r.reloc = i
      BY <3>1 DEF Pair
    <3>3. got[l][i] = ProxyOf(h) /\ h <= h
      BY <3>1, <3>2, HookFacts DEF Proxy, ProxyOf
    <3>4. QED
      BY <3>3
  <2>4. QED
    BY <2>2, <2>3
<1>6. PageInv'
  BY DEF PageInv
<1>7. QED
  BY <1>1, <1>2, <1>3, <1>4, <1>5, <1>6 DEF ChainInv

LEMMA SetProtectionInv ==
  ASSUME IInv, NEW r \in todo, SetProtection(r)
  PROVE  IInv'
<1> USE DEF IInv, SetProtection
<1>1. TypeOK'
  <2>1. Page(r) \in Pages
    <3>1. lib \in Libs /\ r.reloc \in DOMAIN Relocs[lib]
      BY TodoFacts DEF TypeOK
    <3>2. QED
      BY <3>1, RelocFacts DEF Page
  <2>2. QED
    BY <2>1 DEF TypeOK, Replacements, Replaces, Names
<1>2. CallInv'
  <2>1. SavedInv'
    BY NextUnique DEF SavedInv, IsNext, Proxy
  <2>2. QED
    BY <2>1 DEF CallInv, SlotTyped, FreshBound, SlotBehind, OldSet, OldUnder,
      Clean, Contended, Under, Hooks, SymbolOf, ProxyOf
<1>3. TodoSuffix' /\ OldPrev'
  BY DEF ChainInv, TodoSuffix, OldPrev, IsPrev, Hooks, SymbolOf, ProxyOf,
    Replacements, Replaces, Names
<1>4. SlotTop'
  <2>1. \A l, i, h : Done(l, i, h)' <=> Done(l, i, h)
    BY DEF Done, Replaces, Names
  <2>2. QED
    BY <2>1 DEF ChainInv, SlotTop, Hooks, ProxyOf
<1>5. PageInv'
  BY NextUnique DEF PageInv, IsNext, Page
<1>6. QED
  BY <1>1, <1>2, <1>3, <1>4, <1>5 DEF ChainInv

LEMMA SetProtectionFailsInv ==
  ASSUME IInv, NEW r \in todo, SetProtectionFails(r)
  PROVE  IInv'
<1> USE DEF IInv, SetProtectionFails
<1>1. TypeOK'
  BY DEF TypeOK, Replacements, Replaces, Names
<1>2. CallInv'
  BY DEF CallInv, SlotTyped, FreshBound, SlotBehind, OldSet, SavedInv,
    OldUnder, Clean, Contended, Under, Hooks, SymbolOf, ProxyOf
<1>3. ChainInv' /\ PageInv'
  BY DEF ChainInv, TodoSuffix, OldPrev, SlotTop, PageInv
<1>4. QED
  BY <1>1, <1>2, <1>3

LEMMA FaultInv ==
  ASSUME IInv, Fault
  PROVE  IInv'
<1> USE DEF IInv, Fault
<1>1. TypeOK'
  BY DEF TypeOK, Replacements, Replaces, Names
<1>2. CallInv'
  BY DEF CallInv, SlotTyped, FreshBound, SlotBehind, OldSet, SavedInv,
    OldUnder, Clean, Contended, Under, Hooks, SymbolOf, ProxyOf
<1>3. ChainInv' /\ PageInv'
  BY DEF ChainInv, TodoSuffix, OldPrev, SlotTop, PageInv
<1>4. QED
  BY <1>1, <1>2, <1>3

(* Saving: the slot holds what the proxy is to call.                       *)
LEMMA SaveOldInv ==
  ASSUME IInv, NEW r \in todo, SaveOld(r)
  PROVE  IInv'
<1> USE DEF IInv, SaveOld
<1> DEFINE old == got[lib][r.reloc]
<1>1. /\ Proxy(r) = ProxyOf(r.hook) /\ Proxy(r) \in Proxies
      /\ old \in Syms \cup Proxies /\ old # Null
      /\ r.hook \in Hooks /\ lib \in Libs /\ r.reloc \in DOMAIN Relocs[lib]
      /\ SymbolOf(r.hook) = Relocs[lib][r.reloc].symbol
  BY TodoFacts, GotAssumption DEF TypeOK
<1>2. /\ old_func'[Proxy(r)] = old
      /\ \A p \in Proxies : p # Proxy(r) => old_func'[p] = old_func[p]
  BY <1>1 DEF TypeOK
<1>3. TypeOK'
  BY <1>1, <1>2 DEF TypeOK, Replacements, Replaces, Names
<1>4. SlotTyped' /\ FreshBound' /\ SlotBehind'
  BY DEF CallInv, SlotTyped, FreshBound, SlotBehind, Hooks, SymbolOf, ProxyOf
<1>5. OldSet'
  <2>1. \A p \in Proxies : old_func[p] # Null => old_func'[p] # Null
    BY <1>1, <1>2
  <2>2. \A l \in Libs : \A i \in DOMAIN Relocs[l] :
          got[l][i] \in Proxies => old_func'[got[l][i]] # Null
    BY <2>1 DEF CallInv, OldSet
  <2>3. ASSUME NEW p \in Proxies, old_func'[p] \in Proxies
        PROVE  old_func'[old_func'[p]] # Null
    <3>1. CASE p = Proxy(r)
      BY <1>1, <1>2, <2>2, <2>3, <3>1
    <3>2. CASE p # Proxy(r)
      BY <1>2, <2>1, <2>3, <3>2 DEF CallInv, OldSet
    <3>3. QED
      BY <3>1, <3>2
  <2>4. QED
    BY <2>2, <2>3 DEF OldSet
<1>6. SavedInv'
  BY <1>1, <1>2, NextUnique DEF SavedInv, IsNext, Proxy
<1>7. OldUnder'
  <2> SUFFICES ASSUME Clean, NEW h \in Hooks, ProxyOf(h) = Proxy(r)
               PROVE  old \in {SymbolOf(h)} \cup Under(ProxyOf(h))
    BY <1>2, HookFacts DEF CallInv, OldUnder, Clean, Contended, Under, Hooks,
      SymbolOf, ProxyOf
  <2>1. SymbolOf(h) = SymbolOf(r.hook)
    BY <1>1, OwnHook
  <2>2. old # Proxy(r)
    BY DEF CallInv, SavedInv
  <2>3. CASE old = SymbolOf(h)
    BY <2>3
  <2>4. CASE old # SymbolOf(h)
    <3>1. ~ rehooked
      <4>1. PICK g \in Hooks : SymbolOf(g) = SymbolOf(r.hook) /\ old = ProxyOf(g)
        BY <1>1, <2>1, <2>4 DEF CallInv, SlotTyped
      <4>2. Contended
        BY <1>1, <2>2, <4>1 DEF Contended, Hooks, SymbolOf, ProxyOf
      <4>3. QED
        BY <4>2 DEF Clean
    <3>2. PICK g \in Hooks : /\ SymbolOf(g) = SymbolOf(r.hook) /\ g <= r.hook
                             /\ old = ProxyOf(g)
      BY <1>1, <2>1, <2>4, <3>1 DEF CallInv, SlotBehind
    <3>3. g < r.hook
      BY <1>1, <2>2, <3>2, HookFacts
    <3>4. old \in Proxies \ {Proxy(r)}
      BY <2>2, <3>2, HookFacts
    <3>5. QED
      BY <1>1, <3>2, <3>3, <3>4 DEF Under
  <2>5. QED
    BY <2>3, <2>4
<1>8. TodoSuffix'
  BY DEF ChainInv, TodoSuffix, Replacements, Replaces, Names
<1>9. SlotTop'
  <2>1. \A l, i, h : Done(l, i, h)' <=> Done(l, i, h)
    BY DEF Done, Replaces, Names
  <2>2. QED
    BY <2>1 DEF ChainInv, SlotTop, Hooks, ProxyOf
<1>10. OldPrev'
  <2> SUFFICES ASSUME ~ failed, NEW g \in Hooks, NEW h \in Hooks, IsPrev(g, h),
                      ProxyOf(h) = Proxy(r)
               PROVE  old = ProxyOf(g)
    BY <1>2, HookFacts DEF ChainInv, OldPrev, IsPrev, Hooks, SymbolOf, ProxyOf
  <2>1. h = r.hook
    BY <1>1, OwnHook DEF IsPrev
  <2> DEFINE i == r.reloc
  <2>2. Replaces(lib, i, g)
    BY <2>1, TodoFacts, ReplacesSymbol DEF IsPrev
  <2>3. g \in Nat /\ h \in Nat /\ g < h
    BY HookFacts DEF IsPrev
  <2>4. Pair(g, i) \notin todo
    <3>1. Pair(g, i).hook = g
      BY DEF Pair
    <3>2. QED
      BY <2>1, <2>3, <3>1 DEF IsNext
  <2>5. Done(lib, i, g) /\ lib \in hooked
    BY <2>2, <2>4 DEF Done, CallInv, FreshBound
  <2>6. PICK k \in Hooks : g <= k /\ Done(lib, i, k) /\ old = ProxyOf(k)
    BY <1>1, <2>5 DEF ChainInv, SlotTop
  <2>7. Pair(k, i) \in Replacements(lib) \ todo
    BY <1>1, <2>6 DEF Done, Replacements, Pair, Hooks
  <2>8. k < r.hook
    <3>1. k < r.hook \/ (k = r.hook /\ i < i)
      BY <2>7 DEF ChainInv, TodoSuffix, Pair
    <3>2. QED
      BY <3>1, TodoFacts
  <2>9. SymbolOf(k) = SymbolOf(h)
    BY <1>1, <2>1, <2>6 DEF Done, Replaces, Names, SymbolOf
  <2>10. k = g
    BY <2>1, <2>3, <2>6, <2>8, <2>9, HookFacts DEF IsPrev
  <2>11. QED
    BY <2>6, <2>10
<1>11. PageInv'
  BY DEF PageInv, IsNext, Page
<1>12. QED
  BY <1>3, <1>4, <1>5, <1>6, <1>7, <1>8, <1>9, <1>10, <1>11 DEF CallInv, ChainInv

LEMMA ReplaceInv ==
  ASSUME IInv, NEW r \in todo, Replace(r)
  PROVE  IInv'
<1> USE DEF IInv, Replace
<1>1. /\ Proxy(r) = ProxyOf(r.hook) /\ Proxy(r) \in Proxies
      /\ r.hook \in Hooks /\ lib \in Libs /\ r.reloc \in DOMAIN Relocs[lib]
      /\ SymbolOf(r.hook) = Relocs[lib][r.reloc].symbol
  BY TodoFacts DEF TypeOK
<1>2. \A l \in Libs : \A i \in DOMAIN Relocs[l] :
        got'[l][i] = IF l = lib /\ i = r.reloc THEN Proxy(r) ELSE got[l][i]
  BY <1>1 DEF TypeOK
<1>3. TypeOK'
  <2>1. got' = [l \in Libs |-> got'[l]]
    BY DEF TypeOK
  <2>2. \A l \in Libs : got'[l] \in [DOMAIN Relocs[l] -> Syms \cup Proxies]
    BY <1>1 DEF TypeOK
  <2>3. QED
    BY <2>1, <2>2 DEF TypeOK, Replacements, Replaces, Names
<1>4. SlotTyped'
  BY <1>1, <1>2 DEF CallInv, SlotTyped, Hooks, SymbolOf, ProxyOf
<1>5. FreshBound'
  <2>1. lib \in hooked
    BY DEF CallInv, FreshBound
  <2>2. \A l \in Libs : l # lib => got'[l] = got[l]
    BY DEF TypeOK
  <2>3. QED
    BY <2>1, <2>2 DEF CallInv, FreshBound, Bound
<1>6. SlotBehind'
  <2> SUFFICES ASSUME ~ rehooked, NEW q \in todo, q.reloc = r.reloc
               PROVE  \E g \in Hooks : /\ SymbolOf(g) = SymbolOf(q.hook)
                                       /\ g <= q.hook
                                       /\ Proxy(r) = ProxyOf(g)
    BY <1>1, <1>2, TodoFacts
    DEF CallInv, SlotBehind, Hooks, SymbolOf, ProxyOf
  <2>1. r.hook <= q.hook
    BY TodoFacts DEF IsNext
  <2>2. QED
    BY <1>1, <2>1, TodoFacts
<1>7. OldSet'
  BY <1>1, <1>2 DEF CallInv, OldSet, SavedInv
<1>8. SavedInv' /\ OldUnder'
  BY DEF CallInv, SavedInv, OldUnder, Clean, Contended, Under, Hooks, SymbolOf,
    ProxyOf
<1>9. TodoSuffix' /\ OldPrev'
  BY DEF ChainInv, TodoSuffix, OldPrev, IsPrev, Hooks, SymbolOf, ProxyOf,
    Replacements, Replaces, Names
<1>10. SlotTop'
  <2> SUFFICES ASSUME ~ failed, NEW l \in hooked, NEW i \in DOMAIN Relocs[l],
                      NEW h \in Hooks, Done(l, i, h)'
               PROVE  \E k \in Hooks : /\ h <= k /\ Done(l, i, k)'
                                       /\ got'[l][i] = ProxyOf(k)
    BY DEF SlotTop, Hooks, ProxyOf
  <2>1. \A k : Done(l, i, k) => Done(l, i, k)'
    BY DEF Done, Replaces, Names
  <2>2. l \in Libs /\ r = Pair(r.hook, r.reloc)
    BY TodoFacts DEF TypeOK
  <2>3. CASE l = lib /\ i = r.reloc
    <3>1. Done(l, i, r.hook)'
      BY <2>2, <2>3, TodoFacts DEF Done, Replaces, Names, IsNext
    <3>2. h <= r.hook
      <4>1. Pair(h, i).hook = h /\ Pair(h, i).reloc = i
        BY DEF Pair
      <4>2. CASE Pair(h, i) \notin todo
        <5>1. Pair(h, i) \in Replacements(lib) \ todo
          BY <2>3, <4>2 DEF Done, Replaces, Names, Replacements, Pair, Hooks
        <5>2. h < r.hook \/ (h = r.hook /\ i < r.reloc)
          BY <4>1, <5>1 DEF ChainInv, TodoSuffix
        <5>3. QED
          BY <5>2, TodoFacts, HookFacts
      <4>3. CASE Pair(h, i) \in todo
        <5>1. IsNext(Pair(h, i))
          BY <2>3, <4>3 DEF Done, IsNext
        <5>2. QED
          BY <4>1, <5>1, TodoFacts, HookFacts DEF IsNext
      <4>4. QED
        BY <4>2, <4>3
    <3>3. QED
      BY <1>1, <1>2, <2>3, <3>1, <3>2
  <2>4. CASE ~ (l = lib /\ i = r.reloc)
    <3>1. Done(l, i, h)
      <4> SUFFICES ASSUME l = lib, Pair(h, i) \in todo, IsNext(Pair(h, i))
                   PROVE  FALSE
        BY DEF Done, Replaces, Names, IsNext
      <4>1. Pair(h, i) = r
        BY NextUnique
      <4>2. QED
        BY <2>4, <4>1 DEF Pair
    <3>2. PICK k \in Hooks : h <= k /\ Done(l, i, k) /\ got[l][i] = ProxyOf(k)
      BY <3>1 DEF ChainInv, SlotTop
    <3>3. QED
      BY <1>2, <2>1, <2>2, <2>4, <3>2
  <2>5. QED
    BY <2>3, <2>4
<1>11. PageInv'
  BY DEF PageInv, IsNext, Page
<1>12. QED
  BY <1>3, <1>4, <1>5, <1>6, <1>7, <1>8, <1>9, <1>10, <1>11 DEF CallInv, ChainInv

LEMMA RestoreProtectionInv ==
  ASSUME IInv, NEW r \in todo, RestoreProtection(r)
  PROVE  IInv'
<1> USE DEF IInv, RestoreProtection
<1>1. TypeOK'
  <2>1. todo' \in SUBSET Replacements(lib)'
    BY DEF TypeOK, Replacements, Replaces, Names
  <2>2. writable' \in SUBSET Pages /\ failed' \in BOOLEAN
    BY DEF TypeOK
  <2>3. QED
    BY <2>1, <2>2 DEF TypeOK
<1>2. CallInv'
  BY DEF CallInv, SlotTyped, FreshBound, SlotBehind, OldSet, SavedInv,
    OldUnder, Clean, Contended, Under, Hooks, SymbolOf, ProxyOf
<1>3. TodoSuffix'
  <2>1. CASE failed' = failed
    BY <2>1, NextDone
  <2>2. CASE failed'
    BY <2>2 DEF TodoSuffix
  <2>3. QED
    BY <2>1, <2>2
<1>4. OldPrev'
  BY DEF ChainInv, OldPrev, IsPrev, Hooks, SymbolOf, ProxyOf
<1>5. SlotTop'
  <2>1. ASSUME NEW l, NEW i, NEW h PROVE Done(l, i, h)' <=> Done(l, i, h)
    <3>1. Pair(h, i) \in todo /\ IsNext(Pair(h, i)) => Pair(h, i) = r
      BY NextUnique
    <3>2. QED
      BY <3>1 DEF Done, Replaces, Names
  <2>2. ~ failed' => ~ failed
    OBVIOUS
  <2>3. QED
    BY <2>1, <2>2 DEF ChainInv, SlotTop, Hooks, ProxyOf
<1>6. PageInv'
  <2> SUFFICES ASSUME ~ failed' PROVE writable' = WritablePages
    BY DEF PageInv
  <2>1. /\ WritablePages \subseteq writable
        /\ writable \subseteq WritablePages \cup {Page(r)}
        /\ restore <=> Page(r) \notin WritablePages
    BY DEF PageInv
  <2>2. QED
    BY <2>1
<1>7. QED
  BY <1>1, <1>2, <1>3, <1>4, <1>5, <1>6 DEF ChainInv

LEMMA ReloadInv ==
  ASSUME IInv, NEW l \in Libs, Reload(l)
  PROVE  IInv'
<1> USE DEF IInv, Reload
<1>1. Bound(l) \in [DOMAIN Relocs[l] -> Syms]
  BY RelocFacts DEF Bound
<1>2. \A m \in Libs : got'[m] = IF m = l THEN Bound(l) ELSE got[m]
  BY DEF TypeOK
<1>3. TypeOK'
  <2>1. got' = [m \in Libs |-> got'[m]]
    BY DEF TypeOK
  <2>2. \A m \in Libs : got'[m] \in [DOMAIN Relocs[m] -> Syms \cup Proxies]
    BY <1>1, <1>2 DEF TypeOK
  <2>3. writable' \in SUBSET Pages
    BY GotAssumption DEF TypeOK
  <2>4. QED
    BY <2>1, <2>2, <2>3 DEF TypeOK, Replacements, Replaces, Names
<1>4. SlotTyped'
  <2>1. \A i \in DOMAIN Relocs[l] : got'[l][i] = Relocs[l][i].symbol
    BY <1>2 DEF Bound
  <2>2. QED
    BY <1>2, <2>1 DEF CallInv, SlotTyped, Hooks, SymbolOf, ProxyOf
<1>5. FreshBound' /\ SlotBehind' /\ SavedInv' /\ OldUnder'
  BY <1>2 DEF CallInv, FreshBound, SlotBehind, SavedInv, OldUnder, Bound, TypeOK,
    Clean, Contended, Under, Hooks, SymbolOf, ProxyOf, IsNext, Proxy
<1>6. OldSet'
  BY <1>1, <1>2, GotAssumption DEF CallInv, OldSet
<1>7. TodoSuffix' /\ OldPrev'
  BY DEF ChainInv, TodoSuffix, OldPrev, IsPrev, Hooks, SymbolOf, ProxyOf,
    Replacements, Replaces, Names
<1>8. SlotTop'
  <2>1. \A m, i, h : Done(m, i, h)' <=> Done(m, i, h)
    BY DEF Done, Replaces, Names, IsNext
  <2>2. hooked' \subseteq Libs \ {l} /\ hooked' \subseteq hooked
    BY DEF TypeOK
  <2>3. QED
    BY <1>2, <2>1, <2>2 DEF ChainInv, SlotTop, Hooks, ProxyOf
<1>9. PageInv'
  BY DEF PageInv, IsNext, Page
<1>10. QED
  BY <1>3, <1>4, <1>5, <1>6, <1>7, <1>8, <1>9 DEF CallInv, ChainInv

LEMMA StutterInv ==
  ASSUME IInv, UNCHANGED vars
  PROVE  IInv'
<1> USE DEF IInv, vars
<1>1. TypeOK'
  <2>1. Replacements(lib)' = Replacements(lib)
    BY DEF Replacements, Replaces, Names
  <2>2. QED
    BY <2>1 DEF TypeOK
<1>2. CallInv'
  BY DEF CallInv, SlotTyped, FreshBound, SlotBehind, OldSet, SavedInv,
    OldUnder, Clean, Contended, Under, Hooks, SymbolOf, ProxyOf, IsNext, Proxy
<1>3. TodoSuffix' /\ OldPrev'
  BY DEF ChainInv, TodoSuffix, OldPrev, IsPrev, Hooks, SymbolOf, ProxyOf,
    Replacements, Replaces, Names
<1>4. SlotTop'
  <2>1. \A l, i, h : Done(l, i, h)' <=> Done(l, i, h)
    BY DEF Done, Replaces, Names, IsNext
  <2>2. QED
    BY <2>1 DEF ChainInv, SlotTop, Hooks, ProxyOf
<1>5. PageInv'
  BY DEF PageInv, IsNext, Page
<1>6. QED
  BY <1>1, <1>2, <1>3, <1>4, <1>5 DEF ChainInv

THEOREM Invariance == Spec => []IInv
<1>1. Init => IInv
  BY InitInv
<1>2. IInv /\ [Next]_vars => IInv'
  <2> SUFFICES ASSUME IInv, [Next]_vars PROVE IInv'
    OBVIOUS
  <2>1. CASE \E l \in Libs : HookLib(l) \/ Reload(l)
    BY <2>1, HookLibInv, ReloadInv
  <2>2. CASE \E r \in todo : ReplaceFunction(r)
    BY <2>2, AlreadyReplacedInv, SetProtectionInv, SetProtectionFailsInv,
      SaveOldInv, ReplaceInv, RestoreProtectionInv DEF ReplaceFunction
  <2>3. CASE HookLibDone \/ Fault
    BY <2>3, HookLibDoneInv, FaultInv
  <2>4. CASE UNCHANGED vars
    BY <2>4, StutterInv
  <2>5. QED
    BY <2>1, <2>2, <2>3, <2>4 DEF Next
<1>3. QED
  BY <1>1, <1>2, PTL DEF Spec

-----------------------------------------------------------------------------
(* Induction: the least element of a set of naturals.                      *)

LEMMA LeastNat ==
  ASSUME NEW T \in SUBSET Nat, T # {}
  PROVE  \E n \in T : \A m \in T : n <= m
<1>1. PICK n \in T : \A m \in T : ~ (<<m, n>> \in OpToRel(<, Nat))
  BY WFMin, NatLessThanWellFounded
<1>2. ASSUME NEW m \in T, m < n PROVE FALSE
  <2>1. \A ss : ss \in OpToRel(<, Nat) <=> ss \in Nat \X Nat /\ ss[1] < ss[2]
    BY Zenon DEF OpToRel
  <2>2. <<m, n>> \in OpToRel(<, Nat)
    BY <2>1, <1>2
  <2>3. QED
    BY <1>1, <2>2
<1>3. QED
  BY <1>2

LEMMA NatSet ==
  ASSUME NEW T, 0 \in T, \A n \in T \cap Nat : n + 1 \in T
  PROVE  Nat \subseteq T
<1> SUFFICES ASSUME Nat \ T # {} PROVE FALSE
  OBVIOUS
<1>1. PICK n \in Nat \ T : \A m \in Nat \ T : n <= m
  BY LeastNat
<1>2. n # 0 /\ n - 1 \in Nat /\ ~ (n <= n - 1) /\ (n - 1) + 1 = n
  OBVIOUS
<1>3. n - 1 \in T
  BY <1>1, <1>2
<1>4. QED
  BY <1>2, <1>3

\* A property of 0 that n hands to n + 1, for n below k.
LEMMA UpTo ==
  ASSUME NEW k \in Nat, NEW T, 0 \in T,
         \A n \in T \cap Nat : n < k => n + 1 \in T
  PROVE  \A n \in 0..k : n \in T
<1> DEFINE U == {n \in Nat : n <= k => n \in T}
<1>1. 0 \in U
  OBVIOUS
<1>2. \A n \in U \cap Nat : n + 1 \in U
  OBVIOUS
<1> HIDE DEF U
<1>3. Nat \subseteq U
  BY <1>1, <1>2, NatSet
<1>4. QED
  BY <1>3 DEF U

\* Dually, the greatest element of a set of naturals up to k.
LEMMA GreatestNat ==
  ASSUME NEW k \in Nat, NEW T \in SUBSET (0..k), T # {}
  PROVE  \E n \in T : \A m \in T : m <= n
<1> DEFINE U == {n \in Nat : \E m \in T : m + n = k}
<1>1. PICK t \in T : TRUE
  OBVIOUS
<1>2. k - t \in U
  BY <1>1
<1>3. PICK u \in U : \A n \in U : u <= n
  <2> HIDE DEF U
  <2>1. U \in SUBSET Nat /\ U # {}
    BY <1>2 DEF U
  <2>2. QED
    BY <2>1, LeastNat
<1>4. PICK n \in T : n + u = k
  OBVIOUS
<1>5. ASSUME NEW m \in T PROVE m <= n
  <2>1. k - m \in U
    OBVIOUS
  <2>2. u <= k - m
    BY <1>3, <2>1
  <2>3. QED
    BY <1>4, <2>2
<1>6. QED
  BY <1>5

-----------------------------------------------------------------------------
(* Calls.                                                                  *)

Depth == Cardinality(Proxies)

LEMMA DepthNat == Depth \in Nat
BY FS_CardinalityType, GotAssumption DEF Depth

\* CallPath is what its recursive definition says.
LEMMA PathStep ==
  ASSUME NEW f
  PROVE  /\ CallPath(f)[0] = f
         /\ \A n \in 0..Depth : n < Depth =>
              CallPath(f)[n + 1] = Onward(CallPath(f)[n])
<1> DEFINE Body(p, k) ==
             [n \in 0..k |-> IF n = 0 THEN f ELSE Onward(p[n - 1])]
<1> DEFINE T == {k \in Nat : \E p : p = Body(p, k)}
<1>1. 0 \in T
  <2>1. [n \in 0..0 |-> f] = Body([n \in 0..0 |-> f], 0)
    OBVIOUS
  <2>2. QED
    BY <2>1
<1>2. ASSUME NEW k \in T \cap Nat PROVE k + 1 \in T
  <2>1. PICK p : p = Body(p, k)
    OBVIOUS
  <2> DEFINE q == [n \in 0..(k + 1) |-> IF n = k + 1 THEN Onward(p[k]) ELSE p[n]]
  <2>2. q = Body(q, k + 1)
    BY <2>1
  <2>3. \E s : s = Body(s, k + 1)
    BY <2>2
  <2>4. QED
    BY <2>3
<1>3. Depth \in T
  <2> HIDE DEF T
  <2>1. QED
    BY <1>1, <1>2, NatSet, DepthNat
<1>4. CallPath(f) = Body(CallPath(f), Depth)
  BY <1>3 DEF CallPath, Depth
<1>5. CallPath(f)[0] = f
  BY <1>4, DepthNat
<1>6. ASSUME NEW n \in 0..Depth, n < Depth
      PROVE  CallPath(f)[n + 1] = Onward(CallPath(f)[n])
  <2>1. n + 1 \in 0..Depth /\ n + 1 # 0 /\ (n + 1) - 1 = n
    BY <1>6, DepthNat
  <2> HIDE DEF Body
  <2>2. Body(CallPath(f), Depth)[n + 1] = Onward(CallPath(f)[n])
    BY <2>1 DEF Body
  <2>3. QED
    BY <1>4, <2>2
<1>7. QED
  BY <1>5, <1>6

\* The proxies registered before one are fewer than all of them, and the ones
\* registered before one of these fewer still.
LEMMA UnderShrinks ==
  ASSUME TypeOK, NEW p \in Proxies
  PROVE  /\ Cardinality(Under(p)) \in Nat /\ Cardinality(Under(p)) < Depth
         /\ \A q \in Under(p) : Cardinality(Under(q)) < Cardinality(Under(p))
<1>1. /\ IsFiniteSet(Proxies \ {p}) /\ Cardinality(Proxies \ {p}) \in Nat
      /\ Cardinality(Proxies \ {p}) < Depth
  <2>1. /\ IsFiniteSet(Proxies \ {p})
        /\ Cardinality(Proxies \ {p}) = Cardinality(Proxies) - 1
    BY FS_RemoveElement, GotAssumption
  <2>2. Cardinality(Proxies \ {p}) \in Nat
    BY <2>1, FS_CardinalityType
  <2>3. QED
    BY <2>1, <2>2, DepthNat DEF Depth
<1>2. /\ IsFiniteSet(Under(p)) /\ Cardinality(Under(p)) \in Nat
      /\ Cardinality(Under(p)) <= Cardinality(Proxies \ {p})
  <2>1. Under(p) \subseteq Proxies \ {p}
    BY DEF Under
  <2>2. QED
    BY <1>1, <2>1, FS_Subset, FS_CardinalityType
<1>3. ASSUME NEW q \in Under(p)
      PROVE  Cardinality(Under(q)) < Cardinality(Under(p))
  <2>1. PICK g \in Hooks, h \in Hooks :
          g < h /\ SymbolOf(g) = SymbolOf(h) /\ ProxyOf(g) = q /\ ProxyOf(h) = p
    BY DEF Under
  <2>2. q # p
    BY DEF Under
  <2>3. ASSUME NEW s \in Under(q) PROVE s \in Under(p) \ {q}
    <3>1. PICK a \in Hooks, b \in Hooks :
            a < b /\ SymbolOf(a) = SymbolOf(b) /\ ProxyOf(a) = s /\ ProxyOf(b) = q
      BY DEF Under
    <3>2. s # q /\ s \in Proxies
      BY DEF Under
    <3>3. b = g
      BY <2>1, <3>1, <3>2, OwnHook
    <3>4. a < h /\ SymbolOf(a) = SymbolOf(h)
      BY <2>1, <3>1, <3>3, HookFacts
    <3>5. s # p
      <4>1. a # h
        BY <3>4, HookFacts
      <4>2. QED
        BY <2>1, <2>2, <3>1, <3>4, <4>1, OwnHook
    <3>6. QED
      BY <2>1, <3>1, <3>2, <3>4, <3>5 DEF Under
  <2>4. /\ IsFiniteSet(Under(p) \ {q})
        /\ Cardinality(Under(p) \ {q}) = Cardinality(Under(p)) - 1
    BY <1>2, FS_RemoveElement
  <2>5. /\ IsFiniteSet(Under(q)) /\ Cardinality(Under(q)) \in Nat
        /\ Cardinality(Under(q)) <= Cardinality(Under(p) \ {q})
    BY <2>3, <2>4, FS_Subset, FS_CardinalityType
  <2>6. QED
    BY <1>2, <2>4, <2>5
<1>4. Cardinality(Under(p)) < Depth
  BY <1>1, <1>2, DepthNat
<1>5. QED
  BY <1>2, <1>3, <1>4

\* A proxy that a call is in after n hops, with enough proxies left to go through.
OnPath(v, n) ==
  v \in Proxies /\ old_func[v] # Null /\ Cardinality(Under(v)) + n < Depth

LEMMA PathEnds ==
  ASSUME TypeOK, NEW v
  PROVE  ~ OnPath(v, Depth)
BY UnderShrinks, DepthNat DEF OnPath

LEMMA PathStarts ==
  ASSUME TypeOK, OldSet, NEW l \in Libs, NEW i \in DOMAIN Relocs[l],
         got[l][i] \in Proxies
  PROVE  OnPath(got[l][i], 0)
BY UnderShrinks DEF OnPath, OldSet

LEMMA PathGoesOn ==
  ASSUME TypeOK, OldSet, NEW n \in Nat, NEW v, OnPath(v, n),
         old_func[v] \in Under(v)
  PROVE  OnPath(old_func[v], n + 1)
<1>1. old_func[v] \in Proxies /\ old_func[old_func[v]] # Null
  BY DEF OnPath, OldSet, Under
<1>2. Cardinality(Under(old_func[v])) < Cardinality(Under(v))
  BY UnderShrinks DEF OnPath
<1>3. QED
  BY <1>1, <1>2, UnderShrinks, DepthNat DEF OnPath

-----------------------------------------------------------------------------
\* Type correctness: slots hold functions and proxies, and the replacements
\* still to do are ones that the registry asks for.
THEOREM TypeCorrect == Spec => []TypeOK
<1>1. IInv => TypeOK
  BY DEF IInv
<1>2. QED
  BY <1>1, Invariance, PTL

\* xh_core: a call through any slot, at any moment of a refresh, ends in the
\* function the linker bound.
THEOREM CallsEnd == Spec => []CallsReachReal
<1>1. IInv => CallsReachReal
  <2> SUFFICES ASSUME IInv, Clean, NEW l \in Libs, NEW i \in DOMAIN Relocs[l]
               PROVE  CallPath(got[l][i])[Depth] = Relocs[l][i].symbol
    BY DEF CallsReachReal, Clean, Depth
  <2> DEFINE sym == Relocs[l][i].symbol
             f == got[l][i]
             At(v, n) == \/ v = sym
                         \/ /\ OnPath(v, n)
                            /\ \E h \in Hooks : SymbolOf(h) = sym /\ v = ProxyOf(h)
             T == {n \in Nat : At(CallPath(f)[n], n)}
  <2>1. TypeOK /\ SlotTyped /\ OldSet /\ OldUnder
    BY DEF IInv, CallInv
  <2>2. sym \notin Proxies
    BY RelocFacts, GotAssumption
  <2>3. 0 \in T
    <3>1. At(f, 0)
      <4>1. CASE f = sym
        BY <4>1
      <4>2. CASE f # sym
        <5>1. PICK h \in Hooks : SymbolOf(h) = sym /\ f = ProxyOf(h)
          BY <2>1, <4>2 DEF SlotTyped
        <5>2. OnPath(f, 0)
          BY <2>1, <5>1, HookFacts, PathStarts
        <5>3. QED
          BY <5>1, <5>2
      <4>3. QED
        BY <4>1, <4>2
    <3>2. QED
      BY <3>1, PathStep
  <2>4. ASSUME NEW n \in T \cap Nat, n < Depth PROVE n + 1 \in T
    <3> DEFINE v == CallPath(f)[n]
    <3>1. CallPath(f)[n + 1] = Onward(v)
      BY <2>4, PathStep, DepthNat
    <3>2. CASE v = sym
      BY <2>2, <3>1, <3>2 DEF Onward
    <3>3. CASE v # sym
      <4>1. OnPath(v, n)
        BY <3>3
      <4>2. PICK h \in Hooks : SymbolOf(h) = sym /\ v = ProxyOf(h)
        BY <3>3
      <4>3. Onward(v) = old_func[v] /\ old_func[v] # Null
        BY <4>1 DEF OnPath, Onward
      <4>4. old_func[v] \in {sym} \cup Under(v)
        BY <2>1, <4>2, <4>3 DEF OldUnder
      <4>5. CASE old_func[v] = sym
        BY <3>1, <4>3, <4>5
      <4>6. CASE old_func[v] \in Under(v)
        <5>1. OnPath(old_func[v], n + 1)
          BY <2>1, <4>1, <4>6, PathGoesOn
        <5>2. PICK g \in Hooks, k \in Hooks : /\ SymbolOf(g) = SymbolOf(k)
                                              /\ ProxyOf(g) = old_func[v]
                                              /\ ProxyOf(k) = v
          BY <4>6 DEF Under
        <5>3. SymbolOf(g) = sym
          BY <2>1, <4>2, <5>2, OwnHook
        <5>4. At(old_func[v], n + 1)
          BY <5>1, <5>2, <5>3
        <5>5. QED
          BY <3>1, <4>3, <5>4
      <4>7. QED
        BY <4>4, <4>5, <4>6
    <3>4. QED
      BY <3>2, <3>3
  <2>5. Depth \in T
    <3> HIDE DEF T
    <3>1. QED
      BY <2>3, <2>4, UpTo, DepthNat
  <2>6. QED
    BY <2>1, <2>5, PathEnds
<1>2. QED
  BY <1>1, Invariance, PTL

\* xh_core: when nothing failed, a call from a hooked library goes through the
\* proxy of every hook registered for its symbol.
THEOREM EveryProxy == Spec => []EveryProxyCalled
<1>1. IInv => EveryProxyCalled
  <2> SUFFICES ASSUME IInv, pc = "idle", ~ failed, NEW l \in hooked,
                      NEW h \in Hooks, NEW i \in DOMAIN Relocs[l],
                      Replaces(l, i, h),
                      \A n \in 0..Depth : CallPath(got[l][i])[n] # ProxyOf(h)
               PROVE  FALSE
    BY DEF EveryProxyCalled, Hooks, ProxyOf, Depth
  <2> DEFINE f == got[l][i]
             At(v, n) == /\ OnPath(v, n)
                         /\ \E k \in Hooks : /\ h < k /\ SymbolOf(k) = SymbolOf(h)
                                             /\ v = ProxyOf(k)
             T == {n \in Nat : At(CallPath(f)[n], n)}
  <2>1. TypeOK /\ OldSet /\ SlotTop /\ OldPrev /\ l \in Libs /\ h \in Nat
    BY HookFacts DEF IInv, CallInv, ChainInv, TypeOK
  <2>2. 0 \in T
    <3>1. f # ProxyOf(h)
      BY PathStep, DepthNat
    <3>2. PICK k \in Hooks : h <= k /\ Done(l, i, k) /\ f = ProxyOf(k)
      BY <2>1 DEF SlotTop, Done
    <3>3. h < k /\ SymbolOf(k) = SymbolOf(h)
      <4>1. SymbolOf(k) = SymbolOf(h)
        BY <3>2 DEF Done, Replaces, Names, SymbolOf
      <4>2. h # k /\ k \in Nat
        BY <2>1, <3>1, <3>2, HookFacts
      <4>3. QED
        BY <2>1, <3>2, <4>1, <4>2
    <3>4. OnPath(f, 0)
      BY <2>1, <3>2, HookFacts, PathStarts
    <3>5. QED
      BY <3>2, <3>3, <3>4, PathStep
  <2>3. ASSUME NEW n \in T \cap Nat, n < Depth PROVE n + 1 \in T
    <3> DEFINE v == CallPath(f)[n]
    <3>1. CallPath(f)[n + 1] = Onward(v) /\ n \in 0..Depth /\ n + 1 \in 0..Depth
      BY <2>3, PathStep, DepthNat
    <3>2. PICK k \in Hooks : h < k /\ SymbolOf(k) = SymbolOf(h) /\ v = ProxyOf(k)
      OBVIOUS
    <3>3. OnPath(v, n) /\ v # ProxyOf(h) /\ k \in Nat
      BY <2>1, <3>1, HookFacts
    <3> DEFINE G == {g \in Hooks : g < k /\ SymbolOf(g) = SymbolOf(k)}
    <3>4. PICK g \in G : \A m \in G : m <= g
      <4>1. h \in G /\ G \subseteq 0..k
        <5>1. h \in G
          BY <3>2
        <5>2. \A m \in Hooks : m \in Nat
          BY <2>1, HookFacts
        <5>3. G \subseteq 0..k
          <6>1. \A g \in G : g \in Nat /\ g <= k
            BY <3>3, <5>2
          <6> HIDE DEF G
          <6>2. QED
            BY <3>3, <6>1
        <5>4. QED
          BY <5>1, <5>3
      <4> HIDE DEF G
      <4>2. QED
        BY <3>3, <4>1, GreatestNat
    <3>5. g \in Nat /\ h <= g
      BY <2>1, <3>2, <3>4, HookFacts
    <3>6. IsPrev(g, k)
      <4>1. ProxyOf(g) # ProxyOf(k)
        BY <2>1, <3>2, <3>3, <3>4, <3>5, OwnHook
      <4>2. \A m \in Hooks : g < m /\ m < k => SymbolOf(m) # SymbolOf(k)
        BY <2>1, <3>4, <3>5, HookFacts
      <4>3. QED
        BY <3>4, <4>1, <4>2 DEF IsPrev
    <3>7. Onward(v) = ProxyOf(g) /\ old_func[v] = ProxyOf(g)
      BY <2>1, <3>2, <3>3, <3>4, <3>6 DEF OldPrev, Onward, OnPath
    <3>8. h < g
      BY <2>1, <3>1, <3>5, <3>7
    <3>9. ProxyOf(g) \in Under(v)
      BY <2>1, <3>2, <3>4, <3>6, HookFacts DEF Under, IsPrev
    <3>10. OnPath(ProxyOf(g), n + 1)
      BY <2>1, <3>3, <3>7, <3>9, PathGoesOn
    <3>11. QED
      BY <3>1, <3>2, <3>4, <3>7, <3>8, <3>10
  <2>4. Depth \in T
    <3> HIDE DEF T
    <3>1. QED
      BY <2>2, <2>3, UpTo, DepthNat
  <2>5. QED
    BY <2>1, <2>4, PathEnds
<1>2. QED
  BY <1>1, Invariance, PTL

\* xh_util: when nothing failed, no page is left with a protection of ours.
THEOREM Restored == Spec => []ProtectionRestored
<1>1. IInv => ProtectionRestored
  BY DEF IInv, PageInv, ProtectionRestored
<1>2. QED
  BY <1>1, Invariance, PTL
=============================================================================
