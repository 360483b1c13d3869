# Formal model of IOMonitorDemo

IOMonitorDemo is an Android application that monitors file I/O. It hooks `open`,
`read`, `write` and `close` in chosen shared libraries by rewriting their GOT
(the vendored and adapted xhook library, `xh_*.c`), and its replacement functions
(`native-lib.cpp`) keep statistics about every open file. This directory holds
TLA+ modules of that code, the TLC configurations that check them on small
instances, and theorems that TLAPS checks for every value of the constants.

Paths below are relative to `src/app/src/main/cpp/` (C, C++) and
`src/app/src/main/java/com/lanshifu/iomonitordemo/` (Java, Kotlin). The repository
has no tests and no design documents: its "documentation" is the comments and the
log messages of the code.

## 1. Inventory

| Component | State | Operations | Correct when |
|---|---|---|---|
| **Registry and selection** (`xh_core.c`) | the hook list and the ignore list | the selection in `xh_core_refresh_impl` ("do we need this library?") and in `xh_core_hook_impl` (what to hook) | exactly the registrations that match and are not ignored are applied; the check and the hooking agree |
| **Life cycle** (`xh_core.c`, `xhook.c`, `xh_jni.c`) | two mutexes, a condition variable, six volatile flags, the refresh thread, the SIGSEGV action, the map info tree | `register`, `ignore`, `refresh(async)`, `clear`, `enable_sigsegv_protection`, the refresh thread | one refresh thread, one user of the tree, no lost request, no registration lost, `clear` leaves nothing and always returns |
| **Map refresh** (`xh_core_refresh_impl`) | the tree of the last refresh and the one being built: path name and base address | one walk over `/proc/self/maps` while other threads load and unload | the tree holds the libraries that are there, each hooked at the address recorded |
| **SIGSEGV protection** (`xh_core.c`) | handler, global flag and jump buffer, signal mask | install, remove, guard, catch, fall back | restored by `clear`; every fault in a guarded region is caught and ends only the hooking of one library; the handler jumps into no other stack |
| **GOT replacement** (`xh_elf.c`) | GOT slots, `old_func` of every registration, page protections | `xh_elf_hook`, `xh_elf_replace_function` | calls reach the real function at every moment, through every proxy; protections are put back |
| **ELF image parsing** (`xh_elf.c`) | `xh_elf_t` | `xh_elf_init`, `xh_elf_check` | what is learnt does not depend on the order of the dynamic entries, and is usable |
| **Symbol look-up** (`xh_elf.c`) | none (reads the image) | `xh_elf_find_symidx_by_name` over `DT_HASH`, `DT_GNU_HASH` | finds exactly the symbols there are |
| **Relocation iterators** (`xh_elf.c`) | decoder and iterator positions | `sleb128_decoder_next`, `packed_reloc_iterator_next` | decode what the linker encoded, also when cut off |
| **Memory protection** (`xh_util.c`) | none (reads the maps file, calls `mprotect`) | `xh_util_get_mem_protect`, `xh_util_set_addr_protect` | the protection of a word that may lie on two pages and two lines |
| **I/O proxies** (`native-lib.cpp`) | `info_map_`: descriptor to `IOInfo`, no lock | `ProxyOpen`, `ProxyOpen64`, `ProxyRead(Chk)`, `ProxyWrite(Chk)`, `ProxyClose` | an operation is counted for the file it was made on, no entry leaks, none is used that is not there |
| **I/O statistics** (`native-lib.cpp`) | the counters of an `IOInfo` | `CountRWInfo`, the end of `ProxyClose` | counters equal what the operations say; the wall clock may be set at any time |
| **Containers** (`tree.h`, `queue.h`) | links and colours; the address of the last pointer | insert, find, remove, walk, walk and remove | the libraries tracked are found; clearing misses none and leaves a container that can be filled again |
| **mmap log** (`mmap_demo.cpp`) | `write_ptr`, the mapped file | `initNative`, `writeNative` | no access outside the mapping |
| **CloseGuard detector** (`CloseGuardHooker.kt`, `IOCloseLeakDetector.java`) | the reporter CloseGuard calls | `start`, `invoke` | a leak is logged once, other calls reach the original reporter |
| JNI context capture, hook set-up, Matrix and ByteHook glue, logging | | | not modelled, see section 8 |

How they interact: the application registers hooks and refreshes (life cycle); a
refresh reads the memory map (map refresh), asks the registry (selection), parses the
image of each library (ELF parsing) and, for each hook, looks the symbol up and
walks the relocations (iterators), replacing slots (GOT replacement) under a changed
protection (memory protection), with faults caught (SIGSEGV protection). From then
on every thread of the process calls the proxies, which share `info_map_`.

What is hard: flags that are tested outside the mutexes that protect what they
stand for; two kinds of refresh, a refresh thread and `clear` that joins it; a
memory map that changes while it is read; slots that are called while they are
replaced, and `old_func` variables that several libraries share; a table without
a lock whose keys the kernel hands out again; a wall clock that is set.
`PROJECT.json` lists the hazards line by line.

## 2. Modules

| Module | Models | Composes | Checked in | Theorems in |
|---|---|---|---|---|
| `XhSelect` | registry and selection (operators) | | `MCXhSelect` | `XhSelectProofs` |
| `XhApi` | what the calls promise (abstract) | extends `XhSelect` | through `XhCore` | |
| `XhCore` | life cycle | extends `XhSelect`, implements `XhApi` | `MCXhCore` | `XhCoreProofs` |
| `XhRefresh` | one refresh against a changing memory map | `Needed` stands for `XhSelect!NeedHook` | `MCXhRefresh` | `XhRefreshProofs` |
| `XhGot` | slot replacement against calls | `hook_info` is `XhSelect`'s selection for a library | `MCXhGot` | `XhGotProofs` |
| `XhElfInit` | `xh_elf_init` | | `MCParts` | `PartsProofs` |
| `XhElfLookup` | both hash look-ups | | `MCParts` | `PartsProofs` |
| `XhSleb128` | the signed LEB128 decoder | | `MCParts` | `PartsProofs` |
| `XhPackedReloc` | the packed relocation iterator | its numbers are what `XhSleb128` decodes | `MCParts` | `PartsProofs` |
| `XhMemProtect` | protection read, changed and put back | | `MCParts` | `PartsProofs` |
| `XhSigsegv` | the protection against faults on every thread | guards what `XhGot` and `XhRefresh` do | `MCParts` | `PartsProofs` |
| `RbTree` | the red-black tree of `tree.h` | `map_info` of `XhCore` and `XhRefresh` is the set it holds | `MCParts` | `TreeProofs` |
| `TailQueue` | the tail queue of `queue.h` | `hook_info` of `XhSelect` is the sequence it holds | `MCParts` | `PartsProofs` |
| `MmapDemo` | the mmap log | | `MCParts` | `PartsProofs` |
| `CloseGuard` | the leak detector | | `MCParts` | `PartsProofs` |
| `IoMonitor` | proxies, `info_map_` and the kernel's descriptors | an entry's counters are `IoInfo`'s | `MCIoMonitor` | `IoMonitorProofs` |
| `IoInfo` | the counters of one file | | `MCIoInfo` | `IoInfoProofs` |

### XhSelect

`HookInfo` and `IgnoreInfo` are the two list entries; a compiled regex is the set of
libraries it matches. `NeedHook` is the loop of `xh_core_refresh_impl` (lines
357-382), `HookImpl` that of `xh_core_hook_impl`, `Wanted` what the lists ask for
with no order of evaluation. `NeedHook` follows the code in looking at the first
matching registration only (the label `check_continue` stands before a `break`).

### XhCore

Every thread has a program counter; a step is one access to something that is
shared and that no mutex held by the thread protects. So `inited`, `init_ok`, `async_inited`,
`async_init_ok`, `refresh_thread_running`, `refresh_thread_do` and
`sigsegv_enable` are read and written one at a time between mutexes, as in the code,
and acquiring (releasing) a mutex is merged with the first (last) access made
under it. Actions carry the name of the function and what they do: `InitLock`,
`InitHandler`, `InitSetOk` are `xh_core_init_once`; `AsyncTest` ... `AsyncSetOk` are
`xh_core_init_async_once`; `AsyncDo` raises the request and signals; `WorkerLoop`,
`WorkerCond` are the refresh thread, with `SpuriousWakeup` for what POSIX allows; `WalkBegin`,
`WalkTracked`, `WalkNew`, `WalkSkip`, `WalkEnd` are `xh_core_refresh_impl`, one
library at a time; `Clear` ... `ClearFree` are `xh_core_clear` in the order of its
statements. Failures modelled: `sigaction`, `pthread_create` and `fopen` fail, and
hooking a library installs any subset of what was requested (`damaged` remembers
that it was cut short). `Dlopen` maps a library at any time.

`Calls` and `Exclusive` state how the application uses the API: which operations it calls
and which of them it never runs concurrently with another call. The code does not
enforce any discipline; the constants make it explicit what each property needs.

`XhApi` is the same seen by the application, without flags, mutexes, threads and
files: a registry that is open until the first refresh *seals* it, libraries that are
hooked once when they are found and not again before they are forgotten, `clear`.
`XhCore` maps its state to it by `sealed <- Sealed` (`inited`, or a `clear` that has reset `inited`
and not yet freed the lists) and `tracked <- map_info \cup refreshed`
(both trees of a walk); `ImplementsApi` is the abstract specification under that mapping. A
step that inserts a registration is `Register`, one that sets `inited` is `Seal`, `WalkNew` is
`Hook`, the swap of the trees is `Forget`, `ClearFree` is `Clear`; the other steps stutter.

### XhRefresh

The address space is a row of addresses, each with a region of some library (with an
ELF header or not) or none. `Fill` is the buffering of `fgets`: the lines it takes
were true then, and `Map` and `Unmap` change the memory at any time afterwards.
`LineSkipped`, `LineTracked`, `LineNew`, `LineRepeated`, `LineNoMemory`
are the ways a line is processed, `Hook` and `HookFails` the hooking that follows,
`End` the swap of the trees. `overlaid`, `disturbed` and `missed` are history variables
that properties use to say exactly when something may go wrong.

### XhGot

One thread replaces slots (XhCore shows that there is one): `SetProtection`,
`SaveOld`, `Replace`, `RestoreProtection` are the four parts of
`xh_elf_replace_function`, `AlreadyReplaced` its first test. `todo` is what remains of
the two loops, hooks outside and relocations inside, and `IsNext` the order they run in;
`Replacements` says which relocations a hook applies to (the first of `.rel.plt`, every
one of the other sections). A failure drops the rest of one hook, a fault the rest of the
library. Calls are not actions: a
call reads a slot and follows `old_func` variables, so the property looks
at where a call through any slot would go in every state. `Reload` is dlclose followed by
dlopen; `HookLib` may hook a library again. `ProxyAssumption` is how the proxies are
written: each has one `old_func` variable and stands for one function, and a client that
registers one twice does not share the symbol with another client.

### XhElfInit, XhElfLookup, XhSleb128, XhPackedReloc, XhMemProtect

Sequential algorithms. Each is a small state machine (a step per entry, byte,
relocation or line) whose initial states are the inputs, compared with a
definition that is independent of the algorithm: the entry of a kind wherever it
stands, the index of the name, the number in mathematical integers, the relocation the
linker meant, the protections of all the pages of the word. The linker's side (tables,
encoding) is modelled from the format that the code reads.

`MCParts` composes them, and the modules of the next three sections, by a
disjunction: an initial state picks one part, the variables of the others are `Off`.
They share no state, so one run checks them as many would.

### XhSigsegv

The refresher's way through a guarded region is `Enter` (the protection switch is read
once, the flag goes up), `SetJump`, `Leave` (the flag goes down); a region entered with
protection off is `bare`. A fault can come on any thread. `HandlerBegins` is the kernel's part
(SIGSEGV goes into the thread's mask), `TestFlag` reads the flag, and then, in a step of its
own, comes `LongJump` or `FallBack` (the saved action is put back and the instruction
faults again): a thread may be preempted in the handler for as long as it takes the refresher
to leave the region, end the refresh, or save the buffer in another one. `Killed` is a
fault for which the handler is not what runs. A jump to anything but the jumping
thread's own live frame ends the behaviour as `wild`. `sa_flags` is read uninitialised by
`sigaction`: `resethand` is a free choice at every installation. One refresh at a
time and `clear` outside refreshes are taken from `XhCore`.

### RbTree, TailQueue

One step is one insertion or removal up to its rebalancing loop, and then one iteration
of the loop, so that the loops are checked to end with the right tree and not defined to.
Left and right are one parameter (`side`), as the two halves of every macro mirror each
other. An element is its key; a freed one has no links, so a step that followed a pointer into one would
have no value. `SweepBegin`, `SweepStep`, `SweepEnd` are `RB_FOREACH_SAFE` and
`TAILQ_FOREACH_SAFE` with the bodies that `xh_core.c` gives them. In `TailQueue` a
pointer to a pointer (`tqh_last`, `tqe_prev`) is named by the element whose field it points
to, or the head.

### MmapDemo, CloseGuard

`MmapDemo` keeps which bytes of the file hold part of a log: the file outlives `Restart`, so the
string that `LOGD` reads past `write_ptr` may end in the log of an earlier process. An
access outside the mapping is undefined behaviour: it ends the behaviour until the
process is started again. `CloseGuard` numbers the reporters outwards from the original
one; a call in flight holds the reporter it got to, while `start` may put another in front.

### IoMonitor, IoInfo

A step of `IoMonitor` is one system call or one operation on `info_map_`. Any thread
opens, reads, writes and closes any number at any time: nothing in the proxies, or
in the kernel, gives a descriptor to one thread. `ReadWrite` is an original read or write
that succeeded, then two `Find`s (the proxy's and `CountRWInfo`'s) and any number of
`Count`s, the uses of `info_map_[fd]->`. `Close` closes first, as `ProxyClose` does, and goes on
whatever the close returned; then `Find`, `CloseUpdate`, `CloseErase`. An entry that another
thread erases between a find and a use makes `operator[]` return a null pointer:
`crashed` is the number where that happened. The kernel gives out any number that is closed.
`UnhookedOpen` and `UnhookedClose` are the calls of libraries that are not hooked.

Each descriptor number has four histories, which the properties are about:

* `reused`: given out again while a `ProxyClose` was about it;
* `overlapped`: closed, or attempted to be, while another read, write or close was about it;
* `snatched`: closed before the open that got it had returned (another thread guessed it);
* `orphaned`: closed by an unhooked library while it had an entry.

Operations on the table are atomic: the real `unordered_map` has no lock, and concurrent
changes are undefined behaviour on top of what is shown here.
`IoInfo` is `CountRWInfo` and the end of `ProxyClose` for one
file: `Tick` advances the clock by the time that passed and by how much it was set.

## 3. Runs

| Run | Question | Bounds, and why they are enough |
|---|---|---|
| `select` | does `xh_core_hook_impl` hook exactly what is asked for, and is a tracked library always hooked? | 3 hooks, 2 ignore entries, 2 symbols, 1 library. The loops look at one library at a time; 2 entries that are out of order relative to 3 hooks give every position of an early return. Proved for any length. |
| `select_ignore` | does the check answer yes whenever something is to be hooked? (violated) | as above |
| `core_serial` | is the life cycle right when `register`, `ignore` and `clear` overlap nothing, and does it implement `XhApi`? | 2 threads, 2 refresh thread identities (one per create after a clear), 2 libraries, 2 hooks, 1 ignore entry. A third thread can only repeat what two overlapping refreshes do. |
| `core_live` | does every call return and is every request taken? is the tree used by one thread? | 2 threads, 1 library; `clear` overlaps nothing, protection is switched at any time |
| `core_clear_race` | does `clear` stop the refresh thread? (violated when it overlaps) | 2 threads that may overlap in any way |
| `core_toggle` | does `clear` restore the SIGSEGV action? (violated) | one sequence of four calls suffices |
| `refresh` | is the tree exact, is what it records hooked, is anything else hooked? | 3 libraries (2 to hook, 1 not), 3 addresses: enough for a library with two regions, one moved, and one mapped over another |
| `got` | does every call reach the real function, through every proxy, and are protections restored? | 2 libraries importing the same symbol, slots in `.plt` and `.dyn` on different pages; 1 client for the symbol, 2 clients, or 1 that registered twice. Proved for any number |
| `parts` | are the parts that share no state right? | 5 dynamic entries (an image needs 3, and 2 more interact); 3 symbols, 4 hash values that collide in every way (low bit, bucket, Bloom word); 4 bytes of 2 bits for a 5-bit word (the number ends before, on and after the width); 2 groups of 2 relocations; 4 pages of 3 bytes with a word of 2. 3 threads for the protection: the refresher and two others, one in the handler while the other refreshes. Trees of up to 8 keys: height 4, every case of both loops and loops of two iterations. Queues of 3: first, middle and last. A mapping of 4 bytes with logs of 1 and 2: a log that ends before, on and behind the end. 3 detectors, 2 calls of each kind |
| `parts_rela` | are Rela relocations known to be Rela? (violated) | as above |
| `io_monitor` | when do the proxies go wrong? | 2 threads, 2 descriptor numbers, 2 files, all three symmetric: every hazard is between a call that is under way at a number and one other call, reuse needs a second path, and that numbers do not disturb each other a second number |
| `io_info` | are the counters what the operations say? | 3 operations: a burst, its end and the next one; the clock is set by -5, 0 or 5 with a threshold of 8 and gaps on both sides of it |

`CHECK_DEADLOCK FALSE` is set where the program stops by itself (an algorithm that
returned, a file that was closed, a bound that was reached, a crashed process). The
life cycle, the refresh and the GOT runs check for deadlock.

### Properties

* `HookImplExact`, `NeedHookSound`: the early return at an ignore-all entry never
  skips a wanted hook; no library is tracked for nothing.
* `RefreshExclusive`: the walks of two refreshes and the freeing in `clear` never overlap.
* `RegistryFrozen`, `ImplementsApi`: the lists, which are read under one mutex and
  changed under another, never change under a walk; what an application can observe of
  registry, tracked libraries and hooks is a behaviour of `XhApi`.
* `SingleRefresher`, `RequestHasRefresher`: never two refresh threads, and the flag
  that promises one is never raised without it.
* `InstalledWanted`: a tracked library has all that the registry wants, unless cut short.
* `CleanAfterClear`, `HandlerNotSelf`: nothing is left after `clear`, and the action
  the handler falls back to is never the handler.
* `CallsReturn`, `RequestTaken`: liveness, see section 4.
* `TreesDisjoint`, `QuietExact`, `TrackedHooked`, `StrangerOnlyByOverlay`: the two trees
  of a refresh, the result when nothing moved, and the precise ways in which a
  changing memory map leaves an image unhooked or hooks a wrong one.
* `CallsReachReal`, `EveryProxyCalled`, `ProtectionRestored`: see XhGot.
* `FaultCaught`, `JumpsHome`: a fault in a guarded region kills the process only after
  protection was switched, a fault elsewhere put the old action back, or `sa_flags` happened to hold
  `SA_RESETHAND`; the handler jumps into a foreign stack only on a thread that tested the flag while
  another was in a region, though when it jumps the region, or the refresh, may be over.
  All of these do happen. The properties say that the refresher's own faults always come
  home, and that a flag left up by a region that is over misleads no thread.
* `RedBlackTree`, `WalksInOrder`, `QueueIsSequence`: search order and parent links at every
  step, balance between operations; a walk, also one that frees what it stands on, misses
  nothing and leaves a container that can be used again.
* `PastOnlyWhenFull`: nothing is read or written outside the mapping while every
  session logged less than it maps, whatever earlier processes left in the file.
* `ReportedOnce`: chained detectors log a leak once.
* `FaultOnlyByOverlap`, `MistakeOnlyByOverlap`, `TrackedUnlessReused`, `EntriesAccounted`:
  what goes wrong in the proxies, and at which numbers. A null entry is used only at a number
  that was reused or overlapped; something is counted for another file only at one that was
  reused, overlapped, snatched or orphaned; the table lacks a file that was opened through
  `ProxyOpen` only where the number was reused, snatched or orphaned, so overlapping reads and
  closes do not harm it; and it keeps the entry of a closed number only where that
  was snatched or orphaned. Each of these causes does occur in the run. The properties are
  per number: what happened at one does no harm at another.
* `CostsOrdered`, `CountersExact`, `RwWithinLifetime`: the
  counters against the history of operations. `total_cost` is a difference of wall-clock
  times; it is wrong by exactly what the clock was set.

The type invariants of `XhCore`, `XhRefresh`, `IoMonitor` and `IoInfo` are proved
(section 5), so no run repeats them.

Each property of a passing run has a mutant in `PROJECT.json`: a definition of the model
changed as a plausible bug would change the code, with which TLC finds the property violated.

## 4. Fairness

Only `core_live` assumes any. `FairSpec` gives strong fairness to the steps of every
thread: a thread that can run runs, and a mutex is not withheld for ever from a thread that
keeps asking for it while others keep taking and releasing it. Weak fairness would not do:
a thread waiting for `xh_refresh_mutex` is disabled again and again by refreshes that
follow each other, and pthread mutexes on a real scheduler do not starve a thread for
ever. Nothing makes the application begin a call, spurious wake-ups happen or not, and
no call is assumed to succeed.

## 5. Theorems

All are of the form `Spec => []P`, but for `RegistryFixedByCalls` (an action property) and
`ApiImplemented` (a refinement), for every value of the constants that satisfies the named
assumption of the module.

* **XhSelectProofs** `HookImplExactAlways`, `NeedHookSoundAlways`: registries of any
  length. The argument: the function returns at entry *i* only if an ignore-all entry
  matches the library, and then every registration is ignored.
* **XhCoreProofs** `TypeCorrect`, `MapInfoExclusive` (`RefreshExclusive`): any
  number of threads and any discipline of calls. `RefreshExclusive` is not inductive; the
  invariant adds `CoreOwner` and `RefreshOwner`: a thread at a step under a mutex is
  recorded as its owner. Two threads at such steps would both be the owner.
  `RefresherUnique`, `RequestServed`, `NoHookMissed`,
  `RegistryFixedByCalls`, `ApiImplemented`: any number of threads, libraries and
  registrations, where `register`, `ignore` and `clear` are exclusive (hypothesis `Serial`);
  `ClearCleans` and `HandlerSavedOnce` also need that protection is not switched.
  The invariant rests on one observation: a thread at a step of an exclusive call is
  the only one that is not idle, so the flags that the calls test outside the
  mutexes do not change between the test and its use. On it stand: who has initialised
  what (a thread between `InitLock` and `InitSetOk` is alone there), one identity for the
  refresh thread and a place where it is, walkers only while the registry is sealed, and what
  each library of the two trees has installed. For the refinement each action is mapped
  to one abstract step or to none; that `WalkNew` is `Hook` uses the
  lemmas about the selections (those of **XhSelectProofs**, stated again over the variables of
  this module), which relate the code's early returns to what the lists ask for.
* **XhRefreshProofs** `TypeCorrect`, `TreesAlwaysDisjoint`, `StrangersOnlyByOverlay`,
  `QuietRefreshExact`, `TrackedAlwaysHooked`: any libraries and addresses. The invariant adds `BufferInv` (buffered lines have
  distinct addresses; unless something was overlaid, a line tells the truth about a region that
  is still there; the library about to be hooked is needed) and `HookedMapped`. On it stand
  `TrackedInv` (a recorded image is hooked or is the one about to be) and `WalkInv`: while
  nothing disturbs a walk, its lines are true, the regions walked come before those that
  remain, and the new tree is exact for the regions walked.
* **XhGotProofs** `TypeCorrect`, `CallsEnd` (`CallsReachReal`), `EveryProxy`
  (`EveryProxyCalled`), `Restored` (`ProtectionRestored`): any libraries, relocations,
  registries and proxies. A call is a chain of `old_func` variables. `CallInv` says what
  the links are: a slot holds its own function or a proxy registered for it (`SlotTyped`),
  a proxy that can be called has its `old_func` set (`OldSet`), and `old_func` is the real
  function or a proxy registered *before* (`OldUnder`). So the set `Under` of the proxies
  below one shrinks at every hop (`UnderShrinks`), and a call ends after at most as many hops as
  there are proxies. That `OldUnder` survives `SaveOld` needs `SlotBehind`: a slot still
  to be replaced holds no proxy registered later, which fails when a library is hooked again
  while two clients share a symbol. `ChainInv` says which proxies are on the way
  while nothing fails: a slot holds the proxy of the last hook applied to it (`SlotTop`),
  and each proxy calls its immediate predecessor (`OldPrev`). `PageInv`: only the page of the
  slot at hand differs from what the linker gave.
* **PartsProofs**: the parts of `MCParts`, each for every value of its constants.
  * `FaultsCaught`, `AlwaysJumpsHome` (XhSigsegv): any number of threads and faults. The
    flag is up exactly in the regions, from `sigsetjmp` on the buffer is the refresher's, and
    SIGSEGV is in the mask of exactly the threads in the handler (`RegionInv`). A
    refresher in the handler stays in its region, whose flag it saw, until it jumps
    (`InHandlerInv`); other threads may see the flag and jump at any later time. Between the
    first refresh and `clear` nothing but the three causes takes the handler away (`HandlerInv`).
  * `AlwaysOrderIrrelevant` (XhElfInit): any number of entries and fields. Each
    entry read so far is what its field says (`FieldsLearnt`, `PltrelLearnt`), and
    `TablesLearnt`: once there is a `DT_GNU_HASH` it is the table in use, whether
    `DT_HASH` comes before or after it.
  * `AlwaysLookupExact` (XhElfLookup): any symbols, hash functions, buckets and Bloom
    filters. A chain of `DT_HASH` visits exactly the symbols of its bucket; a run of
    `DT_GNU_HASH` does, as the linker sorts symbols by bucket and marks the end of each
    run; the filter rejects no symbol that is there.
  * `AlwaysDecodesExactly` (XhSleb128): any width of the word, bits per byte and length of
    the buffer. Invariant: the value read so far is the sum of the payloads so far modulo two to
    the width. Sign extension subtracts a power of two, and is right at the width too.
  * `AlwaysIteratesExactly` (XhPackedReloc): any number of groups, sizes, flags and cuts.
    First where the numbers are: `GroupLies` and `SectionLies` give the place in the stream of
    every number of every group, `MembersLie` the index of every relocation. Then
    `Position`: the iterator stands behind some member of some group, and its offset and addend
    are the running sums at its index. Groups with a shared addend add it before their first
    member, groups without addends set the sum back; both have their case in `ReadGroupAt`.
  * `AlwaysProtectionExact`, `AlwaysStoreAllowed`, `AlwaysProtectionKept`
    (XhMemProtect): any page size, address space, word and cut into lines. A word lies
    on one page or two. `WalkInv`: the walk has met neither page, or has read the first
    and looks for the second; and it has not passed the page it looks for, unless that is a gap.
  * `PastAlwaysFull` (MmapDemo): any capacity, logs and restarts. Whatever this
    process and earlier ones wrote lies below the most bytes ever logged since a mapping.
  * `AlwaysReportedOnce` (CloseGuard): any number of detectors and calls. Calls raised
    are calls logged or received, and the one in flight (`InFlight`); reports raised
    before a detector was there (`bare`) are those that reach the original reporter.
  * `AlwaysSequence` (TailQueue): any elements. The links are those of the sequence of
    the elements in the queue, and a sweep in progress is always at its first element.
* **TreeProofs** `AlwaysRedBlackTree`, `AlwaysWalksInOrder` (RbTree): any set of keys.
  Most lemmas are about trees and not about states.
  * Order. `Shape(t, D, S)`: the links of `t` are those of a search tree with the elements
    `D`, where `S[n]` are the elements from `n` down. `S` is part of the
    statement because a rotation changes it for two elements only; it also gives the
    induction, down the tree and up, on the number of elements of `S[n]` (`Downward`, `Upward`).
    `RotationShape`, `InsertionShape`, `SplicingShape` and `RenamingShape` say that
    each surgery of the macros leaves a shape. So search order holds *inside* the loops too.
  * Balance. `Heights`: every element has a black height that agrees with those of
    its children. `RedBlackTree` says nothing of the colours inside the loops, so
    it is not inductive; the invariant says what a loop still owes. `AtRest`:
    no red element has a red parent, and the root is black. `Inserting`: all this but at
    `elm`, which may have a red parent or be a red root. `Removing`: the
    side of `parent` where `elm` hangs (possibly an empty one) is one black element short, and
    `elm` or its children may have a red parent. Each iteration moves the debt
    up or pays it (`InsertRecoloured`, `InsertStraightened`, `InsertTopped`,
    `RemoveStraight`, `RemoveRecoloured`, `RemoveAside`, `RemoveRotated`). A nephew that the
    code reads is there, because the sibling of a short side has height above zero.
  * Walks. The recursive walks satisfy their equations (`WalkSolved`), so `Find` finds
    what is there, the extremes are the least and the greatest element, and `RB_NEXT` gives the
    least of the greater ones (`NextIsLeast`). A sweep stands on the least element left.
  * `DepthFacts`: black depth plus black height is the same for all elements, which turns
    `AtRest` into the balance that the property states.
* **IoMonitorProofs** `FaultsOnlyByOverlap`, `MistakesOnlyByOverlap`,
  `AlwaysTrackedUnlessReused`, `EntriesAlwaysAccounted`: any threads, descriptors and files, and
  any thread using any descriptor. The invariant is in layers, each about the numbers
  to which some of the four things have not happened. `Undisturbed` (not reused): the number
  stays closed inside a `ProxyClose`; unless overlapped too, no other call is about it there,
  and what was found is still there. `Agrees` (not reused, snatched or orphaned):
  an entry is that of the file open at its number unless it is about to be erased, an open
  under way finds no entry, and what `ProxyOpen` returned has one. `Counts` (nor overlapped): a call
  is about the file it was about at first. `Accounted` stands alone: an entry is only ever
  made at a number that is open.
* **IoInfoProofs** `TypeCorrect`, `CostsAlwaysOrdered`, `RwAlwaysWithinLifetime`,
  `CountersAlwaysExact` (`CountersExact`): any
  operations and clock changes. `RwAlwaysWithinLifetime` needs what happens before the close: the time
  spent is at most what the clock advanced, not counting by how much it was set.
  `CountersExact` compares each counter with the whole history. That of the running
  burst needs that the costliest burst ending with an operation is the longest one, as costs
  are not negative: the code keeps one number for it, reset where a burst is broken.

Assumptions: `CoreAssumption` (threads and refresh threads are different, "nobody" is
neither), `SelectAssumption`, `RefreshAssumption`, `GotAssumption`, `ProxyAssumption`,
`MonitorAssumption`, `InfoAssumption` and those of the parts:
typing of the constants, distinctness of the marker values and how the linker and the
clients write their tables. TLC evaluates them in every run.

The library's induction theorems take an operator as a parameter and cannot be used here.
Where a proof needs induction over data, it takes the least natural number for
which the claim fails: `NatSet` says that a set of natural numbers that holds 0 and the
successor of each of its members holds all of them (from the well-foundedness of `<`), and
`RecursionSolved` that a recursive function satisfies its equation.

Only model-checked:

* `CallsReturn`, `RequestTaken`: fairness and ENABLED are outside TLAPS.
Every invariant and every action property that a passing run checks is a theorem.

## 6. Findings

* `select_ignore`: a library whose first matching registration is ignored is never hooked,
  although a later registration applies (`xh_core.c:371-378`).
* `core_clear_race`: `clear` tests `async_init_ok` and resets `async_inited` and
  `inited` outside the mutex; overlapping the first asynchronous refresh it returns and leaves a
  refresh thread (`xh_core.c:585-604`). With another refresh in between, the join can
  also wait for ever, which is why `core_live` keeps `clear` exclusive.
* `core_toggle`: protection switched off between refresh and `clear` leaves the
  handler installed (`xh_core.c:116`); a later initialisation then saves the handler as its
  own fallback, which is why `core_serial` does not toggle.
* `parts_rela`: `is_use_rela` comes from `DT_PLTREL` alone, so an image with `DT_RELA` and no PLT is
  walked in units of Rel (`xh_elf.c:826`).

Observed and stated in properties rather than as findings, because no comment says otherwise:
a registration that overlaps the first refresh gets past the test of
`inited`; two clients of one symbol and a library hooked twice make each
proxy the other's old function; the window of `ProxyClose`, and an entry
erased by it under a read of the same descriptor on another thread; a thread that jumps
out of the SIGSEGV handler when the region whose flag it saw is over; `ProxyOpen64` drops the entry it makes.

## 7. Plan

Done, in this order: selection, life cycle, GOT replacement, proxies and statistics,
refresh, the algorithms of `xh_elf.c`; then the refinement of `XhApi` by `XhCore`, the
proofs under the exclusive discipline, the SIGSEGV protection, the
containers, the mmap log and the leak detector, and the exactness of a quiet refresh as a
theorem; then the theorems about calls through the GOT, the counters, the
ELF image, both look-ups, the decoder, the packed relocations, memory protection, the mmap log, the detector and the queue; then the red-black tree.

Left, in order of importance:

1. `XhRefresh` as a refinement of the walk of `XhCore`.
2. The comparison of ELF header bytes, and the result codes of the calls.

## 8. Not modelled, and why

* JNI context capture (`native-lib.cpp:112-188`): calls into Java for a stack trace, no
  state. It returns a reference to a local variable, undefined at every call.
* Hook set-up (`doHook`, the activity): one behaviour of XhCore; a second
  activity registers again, is refused, and refreshes.
* Matrix and ByteHook glue: configuration of third-party libraries, a stub.
* Of `tree.h` and `queue.h`, what xhook does not expand (splay trees, lists, simple
  queues, `RB_NFIND`).
* A failing `ftruncate` in the mmap log; the mapping that a second `initNative` abandons.
* Log levels, dumps and version strings: no property depends on them.
* Of `xh_elf_init`, the test that `bias_addr` is not null, and the size of the packed section
  apart from its magic: the model accepts an image whose load segment has its base
  address as virtual address, which the code refuses.
* A packed section that is not Rela and has addend flags (the code returns an error), and
  symbols from the first hashed one on that `DT_GNU_HASH` leaves out: the properties of
  `XhPackedReloc` and `XhElfLookup` are about sections and tables as linkers write them.
* The comparison of ELF header bytes (`xh_elf_check_elfheader`): one Boolean of a region.
* The results that `refresh` and `register` return, regex compilation, `malloc`
  failures in `register` (the call ends with nothing changed).
* The width of the counters of an `IOInfo`: `long` is 32 bits on old devices.
