----------------------------- MODULE XhElfInit -----------------------------
(***************************************************************************)
(* xh_elf_init: what xh_core learns about a library from the program       *)
(* headers and the dynamic section of its image in memory.                 *)
(*                                                                         *)
(* Addresses are abstracted to whether they lie below the base address     *)
(* (Below) or are one of the places the entries point to.  The sizes that  *)
(* go with the relocation sections are stored like PLTREL and left out.    *)
(* The linker writes an entry of each kind at most once, in any order, and *)
(* relocation sections of one kind, DT_REL or DT_RELA.                     *)
(***************************************************************************)
EXTENDS Naturals, FiniteSets, Sequences

CONSTANTS Headers,    \* program headers the image may have
          MaxHeaders, \* bound on their number
          MaxEntries  \* bound on the entries of the dynamic section

\* A program header: its type, and for a load segment whether its offset is
\* 0, and whether its virtual address is above the base address.
Header == [type : {"load", "dynamic", "other"}, zero : BOOLEAN, high : BOOLEAN]

InitAssumption ==
  Headers \subseteq Header /\ MaxHeaders \in Nat /\ MaxEntries \in Nat

Pointers ==
  {"strtab", "symtab", "jmprel", "rel", "rela", "android", "hash", "gnu_hash"}

\* An entry of the dynamic section.  "apk" is android data with another magic.
Entry ==
  [tag : Pointers, val : {"place", "below"}] \cup
  [tag : {"android"}, val : {"apk"}] \cup
  [tag : {"pltrel"}, val : {"rel", "rela"}] \cup
  [tag : {"null", "other"}, val : {"none"}]

VARIABLES pc,      \* "parse", or how xh_elf_init returned: "ok" or "format"
          phdr,
          dyn,     \* history: the entries read so far
          done,    \* DT_NULL was read
          self     \* the xh_elf_t

vars == <<pc, phdr, dyn, done, self>>

\* The address fields of xh_elf_t, and the tags stored in them.
Fields == {"strtab", "symtab", "relplt", "reldyn", "relandroid"}

FieldOf ==
  [strtab |-> "strtab", symtab |-> "symtab", jmprel |-> "relplt",
   rel |-> "reldyn", rela |-> "reldyn", android |-> "relandroid"]

\* memset: every address is 0, both flags are clear.
Reset == [field |-> [f \in Fields |-> "0"], is_use_rela |-> FALSE,
          is_use_gnu_hash |-> FALSE, table |-> "0", bloom |-> "0"]

-----------------------------------------------------------------------------
FirstSegment(P(_)) ==
  LET S == {i \in DOMAIN phdr : P(phdr[i])}
  IN  IF S = {} THEN 0 ELSE CHOOSE i \in S : \A j \in S : i <= j

\* xh_elf_get_first_segment_by_type_offset
phdr0 == FirstSegment(LAMBDA h : h.type = "load" /\ h.zero)

\* xh_elf_get_first_segment_by_type
dhdr == FirstSegment(LAMBDA h : h.type = "dynamic")

\* The headers pass the checks that precede the dynamic section.
HeadersOK == phdr0 # 0 /\ ~ phdr[phdr0].high /\ dhdr # 0

Init ==
  /\ phdr \in UNION {[1..n -> Headers] : n \in 0..MaxHeaders}
  /\ dyn = <<>>
  /\ done = FALSE
  /\ self = Reset
  /\ pc = IF HeadersOK THEN "parse" ELSE "format"

-----------------------------------------------------------------------------
(* One entry of the dynamic section.                                       *)

Has(tag) == \E i \in DOMAIN dyn : dyn[i].tag = tag

Read(e) ==
  /\ pc = "parse"
  /\ ~ done
  /\ Len(dyn) < MaxEntries
  /\ e.tag = "other" \/ ~ Has(e.tag)
  /\ e.tag = "rel" => ~ Has("rela")
  /\ e.tag = "rela" => ~ Has("rel")
  /\ dyn' = Append(dyn, e)
  /\ UNCHANGED phdr

\* DT_NULL: the end of the dynamic section.
ReadNull(e) ==
  /\ Read(e)
  /\ e.tag = "null"
  /\ done' = TRUE
  /\ UNCHANGED <<pc, self>>

ReadOther(e) ==
  /\ Read(e)
  /\ e.tag = "other"
  /\ UNCHANGED <<pc, done, self>>

ReadPltrel(e) ==
  /\ Read(e)
  /\ e.tag = "pltrel"
  /\ self' = [self EXCEPT !.is_use_rela = (e.val = "rela")]
  /\ UNCHANGED <<pc, done>>

ReadField(e) ==
  /\ Read(e)
  /\ e.tag \in DOMAIN FieldOf
  /\ self' = [self EXCEPT !.field[FieldOf[e.tag]] = e.val]
  /\ pc' = IF e.val = "below" THEN "format" ELSE pc
  /\ UNCHANGED done

\* Mutant: DT_HASH replaces what was read from DT_GNU_HASH.
ReadHashAlways(e) ==
  /\ Read(e)
  /\ e.tag = "hash"
  /\ IF e.val = "below"
       THEN pc' = "format" /\ UNCHANGED self
       ELSE self' = [self EXCEPT !.table = "hash"] /\ UNCHANGED pc
  /\ UNCHANGED done

\* DT_HASH is not even looked at after DT_GNU_HASH.
ReadHash(e) ==
  /\ Read(e)
  /\ e.tag = "hash"
  /\ IF self.is_use_gnu_hash THEN UNCHANGED <<pc, self>>
     ELSE IF e.val = "below" THEN pc' = "format" /\ UNCHANGED self
     ELSE self' = [self EXCEPT !.table = "hash"] /\ UNCHANGED pc
  /\ UNCHANGED done

\* DT_GNU_HASH replaces what was read from DT_HASH.
ReadGnuHash(e) ==
  /\ Read(e)
  /\ e.tag = "gnu_hash"
  /\ IF e.val = "below"
       THEN pc' = "format" /\ UNCHANGED self
       ELSE /\ self' = [self EXCEPT !.table = "gnu_hash", !.bloom = "gnu_hash",
                                    !.is_use_gnu_hash = TRUE]
            /\ UNCHANGED pc
  /\ UNCHANGED done

\* xh_elf_check.  (The base and bias addresses and the headers are not null.)
Complete ==
  /\ self.field["strtab"] # "0" /\ self.field["symtab"] # "0"
  /\ self.table # "0"
  /\ self.is_use_gnu_hash => self.bloom # "0"

\* The section ends, with DT_NULL or its last entry.
Finish ==
  /\ pc = "parse"
  /\ pc' = IF self.field["relandroid"] # "apk" /\ Complete
             THEN "ok" ELSE "format"
  /\ UNCHANGED <<phdr, dyn, done, self>>

Next ==
  \/ \E e \in Entry :
       \/ ReadNull(e) \/ ReadOther(e) \/ ReadPltrel(e) \/ ReadField(e)
       \/ ReadHash(e) \/ ReadGnuHash(e)
  \/ Finish

Spec == Init /\ [][Next]_vars

-----------------------------------------------------------------------------
ValueOf(tag) ==
  LET i == CHOOSE j \in DOMAIN dyn : dyn[j].tag = tag IN dyn[i].val

\* When xh_elf_init accepts an image, what it learnt does not depend on the
\* order of the entries: each field is the one of its entry, and the GNU hash
\* table is preferred, bucket, chain and Bloom filter together.
OrderIrrelevant ==
  pc = "ok" =>
    /\ \A tag \in DOMAIN FieldOf :
         Has(tag) => self.field[FieldOf[tag]] = ValueOf(tag)
    /\ self.table = IF Has("gnu_hash") THEN "gnu_hash" ELSE "hash"
    /\ self.bloom = IF Has("gnu_hash") THEN "gnu_hash" ELSE "0"
    /\ self.is_use_gnu_hash = Has("gnu_hash")
    /\ self.is_use_rela = (Has("pltrel") /\ ValueOf("pltrel") = "rela")

\* "replace for .rel(a).dyn" (xh_elf.c:1019): the relocations of .rela.dyn,
\* which xh_elf_hook steps through in units that is_use_rela selects, are
\* known to be Rela, unless the image says that those of its PLT are Rel.
RelaKnown ==
  pc = "ok" /\ Has("rela") /\ ~ (Has("pltrel") /\ ValueOf("pltrel") = "rel")
    => self.is_use_rela
=============================================================================
