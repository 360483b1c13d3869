--------------------------- MODULE XhPackedReloc ---------------------------
(***************************************************************************)
(* xh_elf_packed_reloc_iterator: the relocations of an .android.rel(a)     *)
(* section, read one by one from a stream of numbers (XhSleb128).          *)
(*                                                                         *)
(* A section is a list of groups.  What the members of a group have in     *)
(* common is written once; offsets and addends are written as differences  *)
(* from the relocation before.  size_t arithmetic is modulo WordMod.       *)
(*                                                                         *)
(* The iterator never tests a number it stores, so the numbers of a        *)
(* section are fixed ones, told apart by Value; every shape of section is  *)
(* tried, whole and cut off anywhere.  The linker writes no empty group,   *)
(* and no addend in a section without them.                                *)
(***************************************************************************)
EXTENDS Integers, Sequences, SequencesExt

CONSTANTS WordMod,               \* 2^w, for a size_t of w bits
          MaxGroups, MaxMembers  \* bounds on a section

PackedAssumption ==
  WordMod \in Nat \ {0} /\ MaxGroups \in Nat /\ MaxMembers \in Nat

\* Group flags: what is grouped (by info, by offset delta, by addend), and
\* whether relocations have an addend.
Flags == [info : BOOLEAN, delta : BOOLEAN, addend : BOOLEAN, has : BOOLEAN]

Group == [flags : Flags, size : 1..MaxMembers]

VARIABLES groups,   \* the section
          rela,     \* is_use_rela
          stream,   \* its numbers, up to where it was cut off
          it,       \* the iterator
          out,      \* history: the relocations returned
          pc        \* "next", or "end" after NULL

vars == <<groups, rela, stream, it, out, pc>>

-----------------------------------------------------------------------------
(* What the linker writes.  Member 0 of a group stands for the group.      *)

Value(g, m, field) == (17 * g + 5 * m + 3 * field) % WordMod

Delta(g, m) == Value(g, m, 1)
Info(g, m) == Value(g, m, 2)
Addend(g, m) == Value(g, m, 3)

FirstOffset == Value(0, 0, 1)

If(b, number) == IF b THEN <<number>> ELSE <<>>

MemberNumbers(g, m, f) ==
  If(~ f.delta, Delta(g, m)) \o If(~ f.info, Info(g, m))
    \o If(f.has /\ ~ f.addend, Addend(g, m))

GroupNumbers(g) ==
  LET f == groups[g].flags
  IN  <<groups[g].size, f>>
        \o If(f.delta, Delta(g, 0)) \o If(f.info, Info(g, 0))
        \o If(f.has /\ f.addend, Addend(g, 0))
        \o FlattenSeq([m \in 1..groups[g].size |-> MemberNumbers(g, m, f)])

Members ==
  FlattenSeq([g \in DOMAIN groups |->
                [m \in 1..groups[g].size |-> [group |-> g, member |-> m]]])

SectionNumbers ==
  <<Len(Members), FirstOffset>>
    \o FlattenSeq([g \in DOMAIN groups |-> GroupNumbers(g)])

-----------------------------------------------------------------------------
(* The iterator.                                                           *)

\* xh_elf_packed_reloc_iterator_init, whose result xh_elf_hook ignores: all
\* fields it could not read are 0.
InitIterator ==
  [cur |-> IF Len(stream) < 2 THEN Len(stream) ELSE 2,
   count |-> IF Len(stream) < 1 THEN 0 ELSE stream[1],
   group_size |-> 0, group_index |-> 0, index |-> 0,
   flags |-> [info |-> FALSE, delta |-> FALSE, addend |-> FALSE, has |-> FALSE],
   delta |-> 0,
   r_offset |-> IF Len(stream) < 2 THEN 0 ELSE stream[2],
   r_info |-> 0, r_addend |-> 0]

Init ==
  /\ groups \in UNION {[1..n -> Group] : n \in 0..MaxGroups}
  /\ rela \in BOOLEAN
  /\ ~ rela => \A g \in DOMAIN groups : ~ groups[g].flags.has
  /\ \E cut \in 0..Len(SectionNumbers) : stream = SubSeq(SectionNumbers, 1, cut)
  /\ it = InitIterator
  /\ out = <<>>
  /\ pc = "next"

One(b) == IF b THEN 1 ELSE 0

Plus(a, b) == (a + b) % WordMod

GroupedAddend(f) == f.has /\ f.addend

\* How many numbers introduce a group with flags f, and how many a member of
\* it has.  (A section that is not Rela has no addends.)
HeaderSize(f) == 2 + One(f.delta) + One(f.info) + One(GroupedAddend(f))

MemberSize(f) == One(~ f.delta) + One(~ f.info) + One(rela /\ f.has /\ ~ f.addend)

AtGroup == it.group_index = it.group_size

GroupReadable ==
  /\ it.cur + 2 <= Len(stream)
  /\ it.cur + HeaderSize(stream[it.cur + 2]) <= Len(stream)

\* Mutant: the addend of the group before is kept when a group has none.
ReadGroupKeepsAddend(i) ==
  LET f == stream[i.cur + 2]
      last == i.cur + HeaderSize(f)
  IN  [i EXCEPT !.cur = last,
                !.group_size = stream[i.cur + 1],
                !.flags = f,
                !.delta = IF f.delta THEN stream[i.cur + 3] ELSE @,
                !.r_info = IF f.info THEN stream[i.cur + 3 + One(f.delta)] ELSE @,
                !.r_addend = IF GroupedAddend(f) THEN Plus(@, stream[last]) ELSE @,
                !.group_index = 0]

\* xh_elf_packed_reloc_iterator_read_group_fields
ReadGroup(i) ==
  LET f == stream[i.cur + 2]
      last == i.cur + HeaderSize(f)
  IN  [i EXCEPT !.cur = last,
                !.group_size = stream[i.cur + 1],
                !.flags = f,
                !.delta = IF f.delta THEN stream[i.cur + 3] ELSE @,
                !.r_info = IF f.info THEN stream[i.cur + 3 + One(f.delta)] ELSE @,
                !.r_addend = IF GroupedAddend(f) THEN Plus(@, stream[last])
                             ELSE IF ~ f.has THEN 0 ELSE @,
                !.group_index = 0]

ReadMember(i) ==
  LET f == i.flags
      last == i.cur + MemberSize(f)
  IN  [i EXCEPT !.cur = last,
                !.r_offset = Plus(@, IF f.delta THEN i.delta
                                                ELSE stream[i.cur + 1]),
                !.r_info = IF f.info THEN @
                                     ELSE stream[i.cur + 1 + One(~ f.delta)],
                !.r_addend = IF rela /\ f.has /\ ~ f.addend
                               THEN Plus(@, stream[last]) ELSE @,
                !.index = @ + 1,
                !.group_index = @ + 1]

\* The iterator after the fields of a group, if one begins here.
InGroup == IF AtGroup THEN ReadGroup(it) ELSE it

Readable ==
  /\ AtGroup => GroupReadable
  /\ InGroup.cur + MemberSize(InGroup.flags) <= Len(stream)

NextReloc ==
  /\ pc = "next"
  /\ it.index < it.count
  /\ Readable
  /\ it' = ReadMember(InGroup)
  /\ out' = Append(out, [offset |-> it'.r_offset, info |-> it'.r_info,
                         addend |-> it'.r_addend])
  /\ UNCHANGED <<groups, rela, stream, pc>>

\* NULL: every relocation was returned, or a number is missing.  The caller
\* gives the iterator up.
NextNull ==
  /\ pc = "next"
  /\ it.index < it.count => ~ Readable
  /\ pc' = "end"
  /\ UNCHANGED <<groups, rela, stream, it, out>>

Next == NextReloc \/ NextNull

Spec == Init /\ [][Next]_vars

-----------------------------------------------------------------------------
(* What the section says, relocation by relocation.                        *)

FlagsOf(g) == groups[g].flags

\* What the first n elements of s add up to.
SumTo(s) ==
  LET sum[n \in 0..Len(s)] == IF n = 0 THEN 0 ELSE Plus(sum[n - 1], s[n])
  IN  sum

Deltas ==
  [j \in DOMAIN Members |->
     LET r == Members[j]
     IN  Delta(r.group, IF FlagsOf(r.group).delta THEN 0 ELSE r.member)]

OffsetOf(k) == Plus(FirstOffset, SumTo(Deltas)[k])

InfoOf(k) ==
  LET r == Members[k] IN Info(r.group, IF FlagsOf(r.group).info THEN 0 ELSE r.member)

\* An addend adds up what was written since the last group that had none.
Addends(last) ==
  LET Since(g) == \A h \in g..last : FlagsOf(h).has
      Written(r) == IF ~ Since(r.group) THEN 0
                    ELSE IF ~ FlagsOf(r.group).addend
                           THEN Addend(r.group, r.member)
                    ELSE IF r.member = 1 THEN Addend(r.group, 0) ELSE 0
  IN  [j \in DOMAIN Members |-> Written(Members[j])]

AddendOf(k) == SumTo(Addends(Members[k].group))[k]

Expected(k) ==
  [offset |-> OffsetOf(k), info |-> InfoOf(k), addend |-> AddendOf(k)]

\* The relocations returned are the first ones of the section, and all of
\* them if the section is whole: differences, groups and resets compose over
\* any sequence of groups, and a section cut off anywhere yields no relocation
\* that is not in it.
IteratesExactly ==
  /\ Len(out) <= Len(Members)
  /\ \A k \in DOMAIN out : out[k] = Expected(k)
  /\ pc = "end" /\ Len(stream) = Len(SectionNumbers) => Len(out) = Len(Members)
=============================================================================
