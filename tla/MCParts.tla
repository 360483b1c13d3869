------------------------------ MODULE MCParts ------------------------------
(***************************************************************************)
(* The parts of the program that are checked on their own, as one state    *)
(* machine: the algorithms of xh_elf.c and xh_util.c, the SIGSEGV          *)
(* protection, the containers, the mmap log and the leak detector.  They   *)
(* share no state: an initial state picks one part and its input, and the  *)
(* variables of the others are Off.  Those with a program counter share    *)
(* pc.                                                                     *)
(***************************************************************************)
EXTENDS Naturals

CONSTANTS
  Off, NULL,
  Headers, MaxHeaders, MaxEntries,                    \* XhElfInit
  Names, Absent, Hashes, elfclass_bits,               \* XhElfLookup
  BucketCounts, BloomSizes, BloomShifts,
  Width, Bits, MaxBytes,                              \* XhSleb128
  WordMod, MaxGroups, MaxMembers,                     \* XhPackedReloc
  Pages, PAGE_SIZE, WordSize, Prots, Gap,             \* XhMemProtect
  Threads,                                            \* XhSigsegv
  Keys, NoSweep,                                      \* RbTree
  Elems, TheHead,                                     \* TailQueue
  Capacity, Lens, NoLog,                              \* MmapDemo
  MaxStarts, MaxCalls, NoCall                         \* CloseGuard

VARIABLES
  part, pc,
  phdr, dyn, done, self,
  symtab, hash, symoffset, bucket_cnt, bloom_sz, bloom_shift, gnu, symbol,
  symidx,
  buffer, cur, value, shift,
  groups, rela, stream, it, out,
  perm, cuts, addr, page, start_addr, load0, prot, original,
  refresher, enable, flag, env, action, act_old, inited, resethand, blocked,
  handler, tested, outcome, switched, foreign,
  tree, elm, parent, sweep, keys,
  tqh_first, tqh_last, entry, hi_tmp, order,
  write_ptr, written, process, logged, peak,
  reporter, enabled, method, callee, logs, raised, bare, received

ElfInit == INSTANCE XhElfInit
Lookup == INSTANCE XhElfLookup
Sleb == INSTANCE XhSleb128
Packed == INSTANCE XhPackedReloc
Protection == INSTANCE XhMemProtect
Sigsegv == INSTANCE XhSigsegv
MapTree == INSTANCE RbTree
HookQueue == INSTANCE TailQueue
Mmap == INSTANCE MmapDemo
Guard == INSTANCE CloseGuard

ASSUME PartsAssumption ==
  /\ ElfInit!InitAssumption
  /\ Lookup!LookupAssumption
  /\ Sleb!SlebAssumption
  /\ Packed!PackedAssumption
  /\ Protection!ProtectAssumption
  /\ Sigsegv!SigsegvAssumption
  /\ MapTree!TreeAssumption
  /\ HookQueue!QueueAssumption
  /\ Mmap!MmapAssumption
  /\ Guard!GuardAssumption

initVars == <<phdr, dyn, done, self>>
lookupVars == <<symtab, hash, symoffset, bucket_cnt, bloom_sz, bloom_shift,
                gnu, symbol, symidx>>
sleb128Vars == <<buffer, cur, value, shift>>
packedVars == <<groups, rela, stream, it, out>>
protectVars == <<perm, cuts, addr, page, start_addr, load0, prot, original>>
sigsegvVars == <<refresher, enable, flag, env, action, act_old, inited,
                 resethand, blocked, handler, tested, outcome, switched,
                 foreign>>
treeVars == <<tree, elm, parent, sweep, keys>>
queueVars == <<tqh_first, tqh_last, entry, hi_tmp, order>>
mmapVars == <<write_ptr, written, process, logged, peak>>
closeVars == <<reporter, enabled, method, callee, logs, raised, bare,
               received>>

vars == <<part, pc, initVars, lookupVars, sleb128Vars, packedVars, protectVars,
           sigsegvVars, treeVars, queueVars, mmapVars, closeVars>>

NoElfInit ==
  /\ phdr = Off /\ dyn = Off /\ done = Off /\ self = Off

NoLookup ==
  /\ symtab = Off /\ hash = Off /\ symoffset = Off /\ bucket_cnt = Off
  /\ bloom_sz = Off /\ bloom_shift = Off /\ gnu = Off /\ symbol = Off
  /\ symidx = Off

NoSleb ==
  /\ buffer = Off /\ cur = Off /\ value = Off /\ shift = Off

NoPacked ==
  /\ groups = Off /\ rela = Off /\ stream = Off /\ it = Off
  /\ out = Off

NoProtection ==
  /\ perm = Off /\ cuts = Off /\ addr = Off /\ page = Off
  /\ start_addr = Off /\ load0 = Off /\ prot = Off /\ original = Off

NoSigsegv ==
  /\ refresher = Off /\ enable = Off /\ flag = Off /\ env = Off
  /\ action = Off /\ act_old = Off /\ inited = Off /\ resethand = Off
  /\ blocked = Off /\ handler = Off /\ tested = Off /\ outcome = Off
  /\ switched = Off /\ foreign = Off

NoMapTree ==
  /\ tree = Off /\ elm = Off /\ parent = Off /\ sweep = Off
  /\ keys = Off

NoHookQueue ==
  /\ tqh_first = Off /\ tqh_last = Off /\ entry = Off /\ hi_tmp = Off
  /\ order = Off

NoMmap ==
  /\ write_ptr = Off /\ written = Off /\ process = Off /\ logged = Off
  /\ peak = Off

NoGuard ==
  /\ reporter = Off /\ enabled = Off /\ method = Off /\ callee = Off
  /\ logs = Off /\ raised = Off /\ bare = Off /\ received = Off

Init ==
  \/ /\ part = "init" /\ ElfInit!Init
     /\ NoLookup /\ NoSleb /\ NoPacked /\ NoProtection /\ NoSigsegv
     /\ NoMapTree /\ NoHookQueue /\ NoMmap /\ NoGuard
  \/ /\ part = "lookup" /\ pc = Off /\ Lookup!Init
     /\ NoElfInit /\ NoSleb /\ NoPacked /\ NoProtection /\ NoSigsegv
     /\ NoMapTree /\ NoHookQueue /\ NoMmap /\ NoGuard
  \/ /\ part = "sleb128" /\ Sleb!Init
     /\ NoElfInit /\ NoLookup /\ NoPacked /\ NoProtection /\ NoSigsegv
     /\ NoMapTree /\ NoHookQueue /\ NoMmap /\ NoGuard
  \/ /\ part = "packed" /\ Packed!Init
     /\ NoElfInit /\ NoLookup /\ NoSleb /\ NoProtection /\ NoSigsegv
     /\ NoMapTree /\ NoHookQueue /\ NoMmap /\ NoGuard
  \/ /\ part = "protect" /\ Protection!Init
     /\ NoElfInit /\ NoLookup /\ NoSleb /\ NoPacked /\ NoSigsegv
     /\ NoMapTree /\ NoHookQueue /\ NoMmap /\ NoGuard
  \/ /\ part = "sigsegv" /\ Sigsegv!Init
     /\ NoElfInit /\ NoLookup /\ NoSleb /\ NoPacked /\ NoProtection
     /\ NoMapTree /\ NoHookQueue /\ NoMmap /\ NoGuard
  \/ /\ part = "tree" /\ MapTree!Init
     /\ NoElfInit /\ NoLookup /\ NoSleb /\ NoPacked /\ NoProtection
     /\ NoSigsegv /\ NoHookQueue /\ NoMmap /\ NoGuard
  \/ /\ part = "queue" /\ pc = Off /\ HookQueue!Init
     /\ NoElfInit /\ NoLookup /\ NoSleb /\ NoPacked /\ NoProtection
     /\ NoSigsegv /\ NoMapTree /\ NoMmap /\ NoGuard
  \/ /\ part = "mmap" /\ pc = Off /\ Mmap!Init
     /\ NoElfInit /\ NoLookup /\ NoSleb /\ NoPacked /\ NoProtection
     /\ NoSigsegv /\ NoMapTree /\ NoHookQueue /\ NoGuard
  \/ /\ part = "close" /\ pc = Off /\ Guard!Init
     /\ NoElfInit /\ NoLookup /\ NoSleb /\ NoPacked /\ NoProtection
     /\ NoSigsegv /\ NoMapTree /\ NoHookQueue /\ NoMmap

Next ==
  /\ UNCHANGED part
  /\ \/ /\ part = "init" /\ ElfInit!Next
        /\ UNCHANGED <<lookupVars, sleb128Vars, packedVars, protectVars,
                       sigsegvVars, treeVars, queueVars, mmapVars, closeVars>>
     \/ /\ part = "lookup" /\ Lookup!Next
        /\ UNCHANGED <<pc, initVars, sleb128Vars, packedVars, protectVars,
                       sigsegvVars, treeVars, queueVars, mmapVars, closeVars>>
     \/ /\ part = "sleb128" /\ Sleb!Next
        /\ UNCHANGED <<initVars, lookupVars, packedVars, protectVars,
                       sigsegvVars, treeVars, queueVars, mmapVars, closeVars>>
     \/ /\ part = "packed" /\ Packed!Next
        /\ UNCHANGED <<initVars, lookupVars, sleb128Vars, protectVars,
                       sigsegvVars, treeVars, queueVars, mmapVars, closeVars>>
     \/ /\ part = "protect" /\ Protection!Next
        /\ UNCHANGED <<initVars, lookupVars, sleb128Vars, packedVars,
                       sigsegvVars, treeVars, queueVars, mmapVars, closeVars>>
     \/ /\ part = "sigsegv" /\ Sigsegv!Next
        /\ UNCHANGED <<initVars, lookupVars, sleb128Vars, packedVars,
                       protectVars, treeVars, queueVars, mmapVars, closeVars>>
     \/ /\ part = "tree" /\ MapTree!Next
        /\ UNCHANGED <<initVars, lookupVars, sleb128Vars, packedVars,
                       protectVars, sigsegvVars, queueVars, mmapVars,
                       closeVars>>
     \/ /\ part = "queue" /\ HookQueue!Next
        /\ UNCHANGED <<pc, initVars, lookupVars, sleb128Vars, packedVars,
                       protectVars, sigsegvVars, treeVars, mmapVars,
                       closeVars>>
     \/ /\ part = "mmap" /\ Mmap!Next
        /\ UNCHANGED <<pc, initVars, lookupVars, sleb128Vars, packedVars,
                       protectVars, sigsegvVars, treeVars, queueVars,
                       closeVars>>
     \/ /\ part = "close" /\ Guard!Next
        /\ UNCHANGED <<pc, initVars, lookupVars, sleb128Vars, packedVars,
                       protectVars, sigsegvVars, treeVars, queueVars,
                       mmapVars>>

Spec == Init /\ [][Next]_vars

-----------------------------------------------------------------------------
\* Program headers: the load segment with the ELF header, at its address or
\* above the base address, another one, and the dynamic section.
MCHeaders == {[type |-> "load", zero |-> TRUE, high |-> FALSE],
              [type |-> "load", zero |-> TRUE, high |-> TRUE],
              [type |-> "load", zero |-> FALSE, high |-> FALSE],
              [type |-> "dynamic", zero |-> FALSE, high |-> FALSE]}

MCProts == {{"r"}, {"r", "w"}, {"r", "x"}, {"r", "w", "x"}}

-----------------------------------------------------------------------------
\* What an accepted image taught xh_elf_init does not depend on the order of
\* its dynamic entries.
OrderIrrelevant == part = "init" => ElfInit!OrderIrrelevant

\* The relocations of .rela.dyn are known to be Rela ("replace for
\* .rel(a).dyn", xh_elf.c:1019).
RelaKnown == part = "init" => ElfInit!RelaKnown

\* Both look-ups find exactly the symbols there are, at their indexes,
\* whatever collides.
LookupExact == part = "lookup" => Lookup!LookupExact

\* The decoder returns the two's complement of what the bytes encode.
DecodesExactly == part = "sleb128" => Sleb!DecodesExactly

\* The iterator returns the relocations of the section, in order.
IteratesExactly == part = "packed" => Packed!IteratesExactly

\* The protection found is what every line that the word lies on grants.
ProtectionExact == part = "protect" => Protection!ProtectionExact

\* The store hits writable pages only.
StoreAllowed == part = "protect" => Protection!StoreAllowed

\* Afterwards every page has the protection it had.
ProtectionKept == part = "protect" => Protection!ProtectionKept

\* Every fault of a guarded region is caught, unless protection was switched,
\* a fault elsewhere removed the handler or the unset flags did.
FaultCaught == part = "sigsegv" => Sigsegv!FaultCaught

\* The handler jumps to the wrong stack only on a thread that tested the flag
\* while another one was in a guarded region.
JumpsHome == part = "sigsegv" => Sigsegv!JumpsHome

\* At every step the tree is a search tree of the keys inserted, and between
\* operations it is balanced.
RedBlackTree == part = "tree" => MapTree!SearchTree /\ MapTree!Balanced

\* A walk over the tree, one that removes what it visits or one over a tree at
\* rest, visits the elements in order and misses none.
WalksInOrder == part = "tree" => MapTree!WalksInOrder

\* The queue is the elements inserted and not removed, in that order.
QueueIsSequence == part = "queue" => HookQueue!QueueIsSequence

\* No access leaves the mapping before as much as it maps was logged.
PastOnlyWhenFull == part = "mmap" => Mmap!PastOnlyWhenFull

\* Chained detectors log every leak once and pass on the rest.
ReportedOnce == part = "close" => Guard!ReportedOnce
=============================================================================
