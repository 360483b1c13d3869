---------------------------- MODULE XhMemProtect ----------------------------
(***************************************************************************)
(* xh_util.c: the protection of the word at an address, read from          *)
(* /proc/self/maps line by line, changed to read-write with mprotect, and  *)
(* put back, as xh_elf_replace_function does around its store.             *)
(*                                                                         *)
(* The address space is a row of pages.  A page has a protection, or is a  *)
(* Gap: not mapped, shared, or on a line that does not name the library.   *)
(* A line of the maps file is a run of pages; it begins at each page of    *)
(* cuts, and at least wherever the protection changes.  Failures of        *)
(* mprotect are in XhGot.                                                  *)
(***************************************************************************)
EXTENDS Integers, FiniteSets

CONSTANTS Pages,      \* number of pages
          PAGE_SIZE,
          WordSize,   \* sizeof(uintptr_t)
          Prots,      \* protections the linker and the process give pages
          Gap         \* told apart from every protection

ProtectAssumption ==
  /\ Pages \in Nat \ {0} /\ PAGE_SIZE \in Nat \ {0} /\ WordSize \in Nat \ {0}
  /\ WordSize <= PAGE_SIZE
  /\ Prots \subseteq SUBSET {"r", "w", "x"}
  /\ Gap \notin SUBSET {"r", "w", "x"}

PageNos == 0..(Pages - 1)

VARIABLES pc,
          perm,        \* protection of every page, or Gap
          cuts,        \* pages that begin a line
          addr,        \* the word
          page,        \* next line to read: the page it begins with
          start_addr, load0, prot,
          original     \* history: perm before anything was changed

vars == <<pc, perm, cuts, addr, page, start_addr, load0, prot, original>>

AllProts == {"r", "w", "x"}

need_prot == {"r", "w"}

Init ==
  /\ pc = "get"
  /\ perm \in [PageNos -> Prots \cup {Gap}]
  /\ \E extra \in SUBSET PageNos :
       cuts = {p \in PageNos : p = 0 \/ p \in extra \/ perm[p] # perm[p - 1]}
  /\ addr \in 0..(Pages * PAGE_SIZE - WordSize)
  /\ page = 0
  /\ start_addr = addr
  /\ load0 = TRUE
  /\ prot = {}
  /\ original = perm

-----------------------------------------------------------------------------
(* xh_util_get_mem_protect                                                 *)

\* One past the last page of the line that begins with page p.
NextLine(p) ==
  CHOOSE q \in (p + 1)..Pages :
    /\ q = Pages \/ q \in cuts
    /\ \A r \in (p + 1)..(q - 1) : r \notin cuts

LineEnd == NextLine(page) * PAGE_SIZE

Covers ==
  /\ perm[page] # Gap
  /\ page * PAGE_SIZE <= start_addr
  /\ start_addr < LineEnd

\* The first line gives the protection, the following ones restrict it.
Merged == IF load0 THEN perm[page] ELSE prot \cap perm[page]

LinePassedOver ==
  /\ pc = "get"
  /\ page < Pages
  /\ ~ Covers
  /\ page' = NextLine(page)
  /\ UNCHANGED <<pc, perm, cuts, addr, start_addr, load0, prot, original>>

\* Mutant: one line is taken to cover the word.
LineCoversAnyway ==
  /\ pc = "get"
  /\ page < Pages
  /\ Covers
  /\ prot' = Merged
  /\ load0' = FALSE
  /\ pc' = "found" /\ UNCHANGED start_addr
  /\ page' = NextLine(page)
  /\ UNCHANGED <<perm, cuts, addr, original>>

LineCovers ==
  /\ pc = "get"
  /\ page < Pages
  /\ Covers
  /\ prot' = Merged
  /\ load0' = FALSE
  /\ IF addr + WordSize <= LineEnd
       THEN pc' = "found" /\ UNCHANGED start_addr
       ELSE start_addr' = LineEnd /\ UNCHANGED pc
  /\ page' = NextLine(page)
  /\ UNCHANGED <<perm, cuts, addr, original>>

\* The file ends before the word is covered.
NotFound ==
  /\ pc = "get"
  /\ page = Pages
  /\ pc' = "failed"
  /\ UNCHANGED <<perm, cuts, addr, page, start_addr, load0, prot, original>>

-----------------------------------------------------------------------------
(* xh_util_set_addr_protect                                                *)

\* Mutant: the page of the word's first byte only.
CoverFirst == {addr \div PAGE_SIZE}

\* PAGE_COVER: the pages of the word's first and last byte.
Cover == (addr \div PAGE_SIZE)..((addr + WordSize - 1) \div PAGE_SIZE)

Protect(new) ==
  /\ perm' = [p \in PageNos |-> IF p \in Cover THEN new ELSE perm[p]]
  /\ cuts' = {p \in PageNos : p \in cuts \/ p = 0 \/ perm'[p] # perm'[p - 1]}

SetProtection ==
  /\ pc = "found"
  /\ IF prot # need_prot THEN Protect(need_prot) ELSE UNCHANGED <<perm, cuts>>
  /\ pc' = "store"
  /\ UNCHANGED <<addr, page, start_addr, load0, prot, original>>

\* Mutant: the protection is put back when it was read-write only.
RestoreInverted ==
  /\ pc = "store"
  /\ IF prot = need_prot THEN Protect(prot) ELSE UNCHANGED <<perm, cuts>>
  /\ pc' = "done"
  /\ UNCHANGED <<addr, page, start_addr, load0, prot, original>>

RestoreProtection ==
  /\ pc = "store"
  /\ IF prot # need_prot THEN Protect(prot) ELSE UNCHANGED <<perm, cuts>>
  /\ pc' = "done"
  /\ UNCHANGED <<addr, page, start_addr, load0, prot, original>>

Next ==
  \/ LinePassedOver \/ LineCovers \/ NotFound
  \/ SetProtection \/ RestoreProtection

Spec == Init /\ [][Next]_vars

-----------------------------------------------------------------------------
\* The pages the word lies on, counted from its bytes.
WordPages == {b \div PAGE_SIZE : b \in addr..(addr + WordSize - 1)}

\* xh_util_get_mem_protect succeeds when every byte of the word is on a line
\* of the library, however the lines are cut, and then grants what all of
\* them grant.
ProtectionExact ==
  /\ pc = "found" => /\ \A p \in WordPages : perm[p] # Gap
                     /\ prot = {x \in AllProts : \A p \in WordPages : x \in perm[p]}
  /\ pc = "failed" => \E p \in WordPages : perm[p] = Gap

\* When the slot is stored to, every page it lies on is writable.
StoreAllowed == pc = "store" => \A p \in WordPages : "w" \in perm[p]

Uniform == \A p, q \in WordPages : original[p] = original[q]

\* Replacing a slot leaves every page of the process with the protection it
\* had, unless the slot lies across two pages with different ones.
ProtectionKept == pc \in {"done", "failed"} /\ Uniform => perm = original
=============================================================================
