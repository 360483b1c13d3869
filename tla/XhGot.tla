------------------------------- MODULE XhGot -------------------------------
(***************************************************************************)
(* How xh_elf_hook replaces the GOT slots of a library, one slot at a      *)
(* time, while every thread of the process may call through them.          *)
(*                                                                         *)
(* A slot holds a function: the one the linker bound, named by its symbol, *)
(* or a proxy.  A proxy calls on through its old_func variable, which all  *)
(* the libraries it is hooked in share: each replacement overwrites it     *)
(* with what that slot held.  One refresh runs at a time (XhCore), so one  *)
(* thread writes; calls read slots and old_func variables in any state.    *)
(*                                                                         *)
(* The protection of a page is the linker's or read-write.                 *)
(***************************************************************************)
EXTENDS Naturals, Sequences, FiniteSets

CONSTANTS Libs, Syms, Pages,
          Relocs,      \* relocations of a library: symbol, section and page
                       \* of the slot, .plt entries first
          Proxies,     \* replacement functions
          Null,        \* an old_func variable never set
          Registries,  \* lists of registrations: symbol and proxy, in order
          WritablePages \* pages the linker leaves read-write

Sections == {"plt", "dyn"}

ASSUME GotAssumption ==
  /\ Relocs \in [Libs -> Seq([symbol : Syms, section : Sections, page : Pages])]
  /\ Registries \subseteq Seq([symbol : Syms, proxy : Proxies])
  /\ WritablePages \subseteq Pages
  /\ IsFiniteSet(Proxies)
  /\ Syms \cap Proxies = {} /\ Null \notin Syms \cup Proxies

\* A proxy replaces one function, which it calls on through its one old_func
\* variable (native-lib.cpp:393-402).  It may be registered for that symbol
\* more than once if no other client hooks the symbol.
ASSUME ProxyAssumption ==
  \A reg \in Registries : \A g, h \in DOMAIN reg :
    reg[g].proxy = reg[h].proxy =>
      /\ reg[g].symbol = reg[h].symbol
      /\ g # h => \A k \in DOMAIN reg :
                    reg[k].symbol = reg[g].symbol => reg[k].proxy = reg[g].proxy

VARIABLES pc,
          hook_info, \* the registry
          lib,       \* library being hooked
          todo,      \* replacements still to do in it: hook and relocation
          got,       \* function in each slot
          old_func,  \* function a proxy calls
          writable,  \* pages that are read-write now
          restore,   \* whether the current page's protection was changed
          hooked,    \* libraries hooked since they were loaded
          rehooked,  \* history: a library was hooked that was hooked already
          failed     \* history: a replacement failed or faulted

vars == <<pc, hook_info, lib, todo, got, old_func, writable, restore, hooked,
          rehooked, failed>>

Bound(l) == [i \in DOMAIN Relocs[l] |-> Relocs[l][i].symbol]

Init ==
  /\ pc = "idle"
  /\ hook_info \in Registries
  /\ lib \in Libs
  /\ todo = {}
  /\ got = [l \in Libs |-> Bound(l)]
  /\ old_func = [p \in Proxies |-> Null]
  /\ writable = WritablePages
  /\ restore = FALSE
  /\ hooked = {} /\ rehooked = FALSE
  /\ failed = FALSE

-----------------------------------------------------------------------------
(* The replacements xh_elf_hook makes for hook h in library l, in order:   *)
(* the first relocation of .rel.plt, and every one of .rel.dyn and         *)
(* .rel.android, that names the symbol.                                    *)

Names(l, i, h) == Relocs[l][i].symbol = hook_info[h].symbol

Replaces(l, i, h) ==
  /\ Names(l, i, h)
  /\ Relocs[l][i].section = "plt" =>
       \A j \in 1..(i - 1) :
         ~ (Names(l, j, h) /\ Relocs[l][j].section = "plt")

Replacements(l) ==
  {r \in [hook : DOMAIN hook_info, reloc : DOMAIN Relocs[l]] :
     Replaces(l, r.reloc, r.hook)}

\* The hooks are applied one after the other, each to the relocations in
\* their order.
IsNext(r) ==
  \A q \in todo : r.hook < q.hook \/ (r.hook = q.hook /\ r.reloc <= q.reloc)

Proxy(r) == hook_info[r.hook].proxy
Page(r)  == Relocs[lib][r.reloc].page

-----------------------------------------------------------------------------
\* xh_core_hook_impl starts on a library, perhaps one that is hooked already:
\* after xhook_clear, or when a refresh lost it.
HookLib(l) ==
  /\ pc = "idle"
  /\ lib' = l
  /\ todo' = Replacements(l)
  /\ hooked' = hooked \cup {l}
  /\ rehooked' = (rehooked \/ l \in hooked)
  /\ pc' = "check"
  /\ UNCHANGED <<hook_info, got, old_func, writable, restore, failed>>

HookLibDone ==
  /\ pc = "check"
  /\ todo = {}
  /\ pc' = "idle"
  /\ UNCHANGED <<hook_info, lib, todo, got, old_func, writable, restore,
                  hooked, rehooked, failed>>

\* Mutant: a slot that any proxy holds counts as replaced.
ReplacedByAny(r) ==
  /\ pc = "check"
  /\ IsNext(r)
  /\ got[lib][r.reloc] \in Proxies
  /\ todo' = todo \ {r}
  /\ UNCHANGED <<pc, hook_info, lib, got, old_func, writable, restore, hooked,
                  rehooked, failed>>

\* "already replaced?"
AlreadyReplaced(r) ==
  /\ pc = "check"
  /\ IsNext(r)
  /\ got[lib][r.reloc] = Proxy(r)
  /\ todo' = todo \ {r}
  /\ UNCHANGED <<pc, hook_info, lib, got, old_func, writable, restore, hooked,
                  rehooked, failed>>

\* The page is made read-write, if it is not.
SetProtection(r) ==
  /\ pc = "check"
  /\ IsNext(r)
  /\ got[lib][r.reloc] # Proxy(r)
  /\ restore' = (Page(r) \notin writable)
  /\ writable' = writable \cup {Page(r)}
  /\ pc' = "save"
  /\ UNCHANGED <<hook_info, lib, todo, got, old_func, hooked, rehooked,
                  failed>>

\* The protection cannot be read, or mprotect fails: xh_elf_hook ends, and
\* the hook's other slots are left as they are.
SetProtectionFails(r) ==
  /\ pc = "check"
  /\ IsNext(r)
  /\ got[lib][r.reloc] # Proxy(r)
  /\ todo' = {q \in todo : q.hook # r.hook}
  /\ failed' = TRUE
  /\ UNCHANGED <<pc, hook_info, lib, got, old_func, writable, restore, hooked,
                  rehooked>>

\* Mutant: the slot is replaced before its function is saved.
SaveNothing(r) ==
  /\ pc = "save"
  /\ IsNext(r)
  /\ pc' = "replace"
  /\ UNCHANGED <<hook_info, lib, todo, got, old_func, writable, restore,
                  hooked, rehooked, failed>>

SaveOld(r) ==
  /\ pc = "save"
  /\ IsNext(r)
  /\ old_func' = [old_func EXCEPT ![Proxy(r)] = got[lib][r.reloc]]
  /\ pc' = "replace"
  /\ UNCHANGED <<hook_info, lib, todo, got, writable, restore, hooked,
                  rehooked, failed>>

Replace(r) ==
  /\ pc = "replace"
  /\ IsNext(r)
  /\ got' = [got EXCEPT ![lib][r.reloc] = Proxy(r)]
  /\ pc' = "restore"
  /\ UNCHANGED <<hook_info, lib, todo, old_func, writable, restore, hooked,
                  rehooked, failed>>

\* Mutant: the page stays read-write.
RestoreNothing(r) ==
  /\ pc = "restore"
  /\ IsNext(r)
  /\ todo' = todo \ {r}
  /\ restore' = FALSE
  /\ pc' = "check"
  /\ UNCHANGED <<hook_info, lib, got, old_func, writable, hooked, rehooked,
                  failed>>

\* A restoration that fails is only logged.
RestoreProtection(r) ==
  /\ pc = "restore"
  /\ IsNext(r)
  /\ \/ /\ writable' = IF restore THEN writable \ {Page(r)} ELSE writable
        /\ UNCHANGED failed
     \/ restore /\ failed' = TRUE /\ UNCHANGED writable
  /\ todo' = todo \ {r}
  /\ restore' = FALSE
  /\ pc' = "check"
  /\ UNCHANGED <<hook_info, lib, got, old_func, hooked, rehooked>>

\* A SIGSEGV on reading or writing the slot is caught by xh_core_hook, which
\* gives the library up.
Fault ==
  /\ pc \in {"check", "save", "replace"}
  /\ todo # {}
  /\ todo' = {}
  /\ restore' = FALSE
  /\ failed' = TRUE
  /\ pc' = "idle"
  /\ UNCHANGED <<hook_info, lib, got, old_func, writable, hooked, rehooked>>

\* The library is unloaded and loaded again, while it is not being hooked.
Reload(l) ==
  /\ pc = "idle" \/ l # lib
  /\ got' = [got EXCEPT ![l] = Bound(l)]
  /\ hooked' = hooked \ {l}
  /\ writable' = (writable \ {Relocs[l][i].page : i \in DOMAIN Relocs[l]})
                   \cup (WritablePages \cap
                          {Relocs[l][i].page : i \in DOMAIN Relocs[l]})
  /\ UNCHANGED <<pc, hook_info, lib, todo, old_func, restore, rehooked,
                  failed>>

ReplaceFunction(r) ==
  \/ AlreadyReplaced(r) \/ SetProtection(r) \/ SetProtectionFails(r)
  \/ SaveOld(r) \/ Replace(r) \/ RestoreProtection(r)

Next ==
  \/ \E l \in Libs : HookLib(l) \/ Reload(l)
  \/ \E r \in todo : ReplaceFunction(r)
  \/ HookLibDone \/ Fault

Spec == Init /\ [][Next]_vars

-----------------------------------------------------------------------------
\* What a function calls: a proxy calls on, any other function returns.
Onward(f) == IF f \in Proxies THEN old_func[f] ELSE f

\* Where a call is after it has passed through n proxies.
CallPath(f) ==
  LET path[n \in 0..Cardinality(Proxies)] ==
        IF n = 0 THEN f ELSE Onward(path[n - 1])
  IN  path

\* Two clients hook the same symbol.
Contended ==
  \E g, h \in DOMAIN hook_info :
    /\ hook_info[g].symbol = hook_info[h].symbol
    /\ hook_info[g].proxy # hook_info[h].proxy

\* A call through any slot, at any moment of the hooking and through however
\* many proxies, ends in the function the linker bound: it meets neither an
\* old_func that is not set yet nor a proxy that it has already been through.
\* Hooking a library again keeps it so when every symbol has one proxy; with
\* two, each becomes the other's old_func.
CallsReachReal ==
  ~ (rehooked /\ Contended) =>
    \A l \in Libs : \A i \in DOMAIN Relocs[l] :
      CallPath(got[l][i])[Cardinality(Proxies)] = Relocs[l][i].symbol

\* When nothing failed, a call from a hooked library goes through every proxy
\* registered for its symbol, although the proxies share their old_func
\* variables between libraries.
EveryProxyCalled ==
  pc = "idle" /\ ~ failed =>
    \A l \in hooked : \A h \in DOMAIN hook_info, i \in DOMAIN Relocs[l] :
      Replaces(l, i, h) =>
        \E n \in 0..Cardinality(Proxies) :
          CallPath(got[l][i])[n] = hook_info[h].proxy

\* When nothing failed, hooking leaves no page with another protection than
\* the one the linker gave it.
ProtectionRestored == pc = "idle" /\ ~ failed => writable = WritablePages
=============================================================================
