# TLA+ models of the memory manager, thread lifecycle, IPv4 layer and soft-float library of yunusp/os

This directory holds TLA+ models of these parts, and the TLC configurations
that check them:

- the physical page allocator and its pager (`src/kernel/mm/physical.c`);
- the x86 page-table code (`src/kernel/mm/x86/mapping.c`): the page-directory
  layer, and the leaf mappings with per-processor TLBs and the thread count
  that decides whether an invalidation IPI is sent (`src/kernel/ps/thread.c`);
- the thread lifecycle (`src/kernel/ps/thread.c`): creation and its failure
  paths, exit, the dead-thread list and reaper, lookups by ID, and
  destruction with the process teardown it can trigger;
- IPv4 fragmentation and reassembly
  (`src/drivers/net/netcore/ipv4/ip4.c`), with an abstract datagram service
  that it is shown to implement;
- the double-precision soft-float routines (`src/lib/rtl/base/softfp.c`),
  checked against exact IEEE 754 rounding on a scaled format.

`PROJECT.json` lists the following:

- every component and its status;
- every run and what it shows;
- the mutants that show each checked property can fail;
- the source lines each definition models;
- the findings;
- the hazards the code is exposed to.

## 1. Inventory

### Physical page allocator (`physical.c`)

**State.** The allocator's state is the frame database. Each physical segment
(`PHYSICAL_MEMORY_SEGMENT`) has an array of `PHYSICAL_PAGE` entries and a
`FreePages` count. An entry has one of three states:

- free;
- non-paged (`PHYSICAL_PAGE_FLAG_NON_PAGED`);
- pageable, pointing to a `PAGING_ENTRY` that has a lock count and a `PagingOut` flag.

The global counters are `MmTotalAllocatedPhysicalPages` and `MmNonPagedPhysicalPages`.
There are two search cursors:

- `MmLastAllocatedSegment/Offset`, for free pages;
- `MmLastPagedSegment/Offset`, for the pager.

All of this state is protected by the queued lock `MmPhysicalPageLock`.

**Operations.** Each one runs inside one critical section.

- `MmpFindPhysicalPages` searches for free, pageable or identity-mappable
  pages. It is called under the lock by the other operations.
- `MmpAllocatePhysicalPages`: if the search fails, it releases the lock,
  asks the pager for pages (`MmRequestPagingOut`), waits on
  `MmPagingFreePagesEvent`, and retries.
- `MmFreePhysicalPages` releases the pages of a run. It skips a page the
  pager is paging out.
- `MmpEnablePagingOnPhysicalAddress` makes non-paged pages pageable, or
  pageable and locked.
- `MmpLockPhysicalPages` and `MmpUnlockPhysicalPages` take and drop page locks.
  A partial lock is undone after the lock is dropped.
- `MmpPageOutPhysicalPages` is the pager loop. It searches for a victim under
  the lock and flags it, then calls `MmpPageOut` without the lock. It frees
  the page on success, and signals waiters every `SignalPageCount` pages and
  at the end of the pass.
- The memory-warning bookkeeping is a sampled level check at the end of an
  allocation and in the free loop. It drives `MmPhysicalMemoryWarningEvent`.

**Interactions.** Allocating threads interact with the pager thread through
`MmPagingFreePagesEvent` and through the database flags. A section's free
races the pager's page-out of the same page. Lockers race the pager's choice
of victim.

### x86 page tables (`mapping.c`)

- mapping and unmapping in the current and in other processes;
- TLB invalidation with an IPI;
- double-checked creation of page tables;
- synchronisation of the kernel half of the directories;
- the fork-time preallocation and copy.

**Interactions.** Page tables are created by `MmpCreatePageTable` under the
global queued lock `MmPageTableLock`, after an unlocked check. A kernel page
table is published into `MmKernelPageDirectory` in two stores: the entry with
Present clear (mapping.c:2755), then Present (2756). Other processes copy
kernel entries without that lock, in `MmpCreatePageTable`'s unlocked sync,
in `MmpCheckDirectoryUpdates` on a fault, and in `MmUpdatePageDirectory`,
which `PsCreateThread` calls for a new kernel stack (thread.c:1502). A fork
counts the parent's page tables (`PageTableCount`), allocates that many
pages, and then walks the parent's directory (`MmpPreallocatePageTables`).

Leaf mappings are changed under the address-space lock, so each of
`MmpMapPage`, `MmpUnmapPages`, `MmpChangeMemoryRegionAccess`,
`MmpMapPageInOtherProcess` and `MmpUnmapPageInOtherProcess` is one step.
Each of them invalidates the TLB entries of the pages it changes. It
interrupts the process's other processors (`MmpSendTlbInvalidateIpi`) only
when `Process->ThreadCount` is above 1 (mapping.c:1190). The thread count is
changed by `PspCreateThread` and by `PspThreadTermination`. Termination
decrements the count (thread.c:1244) and later still writes the user thread
ID (1282) from the process's address space.

At fork, `MmpCopyAndChangeSectionMappings` is run by a thread of the parent
for each image section. It clears Writable in every parent entry with a
frame and copies the entry, Dirty masked, into the child's preallocated leaf
table (mapping.c:2255-2260, 2313-2318). It invalidates no TLB: "one giant TLB
flush is executed at the end" (2247) by its caller, which is not under
`src/`. Until that flush, the parent's other processors keep writable
translations of frames the child now shares. The image-section layer copies
a shared page on a write fault before it grants write access (spec E5).

### IPv4 fragmentation and reassembly (`ip4.c`)

`NetpIp4Send` cuts a packet larger than the link's maximum into fragments of
`MaxFragmentLength` bytes, aligned down to 8, each with the socket's
`SendPacketCount` as identification. `NetpIp4ProcessReceivedData` passes a
fragment (More Fragments set or a non-zero offset) to
`NetpIp4ProcessPacketFragment`. That routine runs under the global queued
lock `NetIp4FragmentedPacketLock`. It does the following:

- destroys the expired packet nodes;
- drops the fragment if `NetIp4FragmentCount` is over its limit;
- finds or creates the packet node of the fragment's identification;
- places the fragment in the node's sorted list, joining it to an adjacent
  previous and next entry and ignoring it if it overlaps either;
- returns the reassembled packet when the result is last and starts at
  offset 0.

`NetpIp4Close` destroys the socket's nodes.

**Interactions.** The only shared state is the tree, the count and the lock,
so concurrent receivers serialise. The hard part is the input: the network
may lose, duplicate and reorder fragments, and nodes time out.

### Soft-float (`softfp.c`)

`RtlDoubleAdd`, `RtlDoubleSubtract`, `RtlDoubleMultiply` and
`RtlDoubleDivide` unpack their operands, handle NaN, infinity and zero
operands first, compute a significand with 10 guard bits in a 64-bit word
(the 128-bit helpers `RtlpMultiply64To128`, `RtlpEstimateDivide128To64`,
`RtlpAdd128` and `RtlpSubtract128`, and the jamming shift that keeps a
sticky bit), and round and pack it in `RtlpRoundAndPackDouble`. The six
comparisons return a truth value. Every routine reports exceptions by ORing
bits into the global `RtlSoftFloatExceptionFlags` (`RtlpSoftFloatRaise`),
and rounding reads the globals `RtlRoundingMode` and
`RtlTininessDetection`, which callers assign. These three globals are the
only state; nothing in the library takes a lock, so each call is one step.
The conversions between doubles and `LONG`, `ULONG`, `LONGLONG` and
`ULONGLONG` pack an integer directly (32-bit) or through
`RtlpNormalizeRoundAndPackDouble` (64-bit), and take a double to an
integer by a jamming shift (`RtlpShift64RightJamming`,
`RtlpShift64ExtraRightJamming`) and `RtlpRoundAndPack32` or
`RtlpRoundAndPack64`, which saturate and raise invalid when the value does
not fit. `RtlDoubleConvertToFloat` jams the fraction right by 22 places
and rounds it in `RtlpRoundAndPackFloat`; `RtlFloatConvertToDouble` is
exact. Both take a NaN through the common-NaN record, which raises invalid
for a signaling one. `RtlDoubleModulo` is the IEEE remainder: it takes
62 quotient bits a pass from `RtlpEstimateDivide128To64` (each estimate
lowered by 2), then the last bits by subtraction, and keeps whichever of
the last two remainders is nearer zero.

### Thread lifecycle (`thread.c`)

`PsCreateThread` calls `PspCreateThread`, which creates the thread object
(one reference, two with `THREAD_FLAG_ADD_REFERENCE`) and, under the
process lock, puts it on `Process->ThreadListHead` and increments
`ThreadCount`. If an allocation fails before that, both references are
dropped. `PsCreateThread` then copies credentials and sets up the user
stack; if that fails, it drops the references while the thread is on the
list (thread.c:279-286; `PspCloneThread` likewise at 1075). An exiting
thread runs `PspThreadTermination`, which decrements `ThreadCount`; the
scheduler (not in the repository) then queues it with
`PsQueueThreadCleanup` at the head of `PsDeadThreadsListHead`. The reaper
thread (`PspReaperThread`) moves the whole dead list to a local list under
a spinlock, and for each thread removes it from the process list under the
process lock and drops its reference. `PspGetThreadById` (used by
`PsGetThreadInformation`) adds a reference to a thread it finds on the list.
Whoever drops the last reference runs `PspDestroyThread`, which unlinks a
thread that never ran and, if the process's list is then empty, tears the
process down.

### Other components

The other source files are listed in `PROJECT.json`, each with the reason it
is not modelled. They are drivers, HAL code, firmware, headers and the PE
parser.

## 2. Modules

| Module | Models | State and actions |
|---|---|---|
| `PhysicalSearch` | `MmpFindPhysicalPages` | A pure operator. `Body`/`Again` are the do-while body and its loop condition. `Span` is the span loop and `Matches` the per-type test. `FindPhysicalPages` returns the run and the cursor the routine stores. `ExistsRun`/`RunOK`/`Wanted` is the reference definition of what the search is for. |
| `MCPhysicalSearch` | the search over every database | Variables are the pages, lock counts and both cursors. `ChangeFrame` changes any frame. `Search` performs any request and moves the cursor the way the code does. Every reachable database and cursor is therefore checked against the reference. |
| `PhysicalAllocator` | allocator, free, paging enable, lock/unlock, pager | `db` is the frame database and its counters. `owner` abstracts the section or caller holding a frame. `pc[t]` is each allocating thread's position: idle, request, towait, wait, retry, or undo after a failed lock. `pager` holds the pager loop's locals. `pagingEvent`/`freeEvent` are the two events. Each action is one critical section of the code. Steps after `KeReleaseQueuedLock` are separate actions: the request, the wait, the retry, the undo, and the page-out. |
| `PhysicalPages` | what the allocator promises | The abstract specification: `holder[f]` is a thread, the pool, boot, or released (freed by its holder while being paged out); `pageable` and `evicting` (at most one frame). `Alloc` takes pool frames, `EnablePaging` marks a holder's frames, `Release` returns frames to the pool except the one being evicted, `Pick`, `Evict` and `Abandon` are one eviction. `PhysicalAllocator` maps `owner`, the database's free and pageable marks and the pager's victim onto it (`PagesHolder`, `Pages`). |
| `MCPhysicalAllocator` | the allocator instantiated for TLC | Segments, a thread symmetry set and a drift constraint, used by `MCFreeAccounting.cfg`. |
| `PageDirectory` | `MmpCreatePageTable`, `MmpCheckDirectoryUpdates`, `MmUpdatePageDirectory`, `MmpPreallocatePageTables`, `MmpTearDownPageTables` | `kpde` is `MmKernelPageDirectory` and `pde[p]` the directory of process `p`; an entry is abstracted to its page-table frame (`.Entry`) and Present bit. `ptLock` is `MmPageTableLock`, `ptCount` is `PageTableCount`, `freeFrames` the frames free in the allocator. `th[t]` holds a thread's locals: `lock` (page table in hand, waiting for the lock), `publish` (after the store at 2755), `walk` (in the preallocation walk). `written` records each kernel mapping written and through which table. Actions: `MapPage` (the unlocked part), `Install` (under the lock up to 2755/2760), `Publish` (the Present stores, unlock, PTE write), `CheckDirectoryUpdates`, `UpdatePageDirectory`, `ForkStart`, `PreallocWalk`, `Exit`. |
| `MCPageDirectory` | the page-directory layer for TLC | Processes, threads, frames, thread placements and boot tables. |
| `Mapping` | `MmpMapPage`, `MmpUnmapPages`, `MmpChangeMemoryRegionAccess`, `MmpMapPageInOtherProcess`, `MmpUnmapPageInOtherProcess`, `MmpCopyAndChangeSectionMappings`, `PspCreateThread`, `PspThreadTermination` | `pte[p][va]` is a leaf entry: frame, Present and Writable. Each thread runs on its own processor, and `tlb[t]` is that processor's TLB. `threadCount[p]` is `Process->ThreadCount`, and `tstate[t]` is unborn, running, exiting or dead. Frames are `free`, `held` by the caller, or in a PTE. `rss` is the resident-set count. `stray` records frames written through a translation no PTE gives. `TlbFill` is the hardware page walk. `ExitStart` is termination up to the decrement. `ExitFinish` is the user write and the switch away. `childPte` and `childRss` are the leaf entries and resident set of the fork child of `ForkParent`, and `fork` is none, copied (flush owed) or done. `ForkCopy` is the copy of the section `ForkVas`; `ForkFlush` is the caller's flush, modelled from the specification. |
| `MCMapping` | the mapping layer for TLC | Two processes, three threads (two in one process), two VAs, two frames, a frame symmetry set, and `p0`, a process that does not exist, for the runs without a fork. |
| `Ip4Fragment` | `NetpIp4Send` (fragmenting), `NetpIp4ProcessReceivedData`, `NetpIp4ProcessPacketFragment`, node creation, destruction and expiry, `NetpIp4Close` | `sent` holds the datagrams handed to `NetpIp4Send`, and `wire` every packet sent; a packet is a record of identification, offset, More Fragments and data. `node` is the tree of packet nodes by identification, each a sorted list of entries and a timeout. `fragCount` is `NetIp4FragmentCount` and `now` the time counter. `processed` holds what `NetpIp4ProcessReceivedData` hands up in its local `Packet`, and `handedUp` what `ReceiveContext->Packet` holds then. Byte *i* of the *k*-th datagram is the label `<<k, i>>`, so a misplaced, repeated or missing byte changes the data. `ProcessPacketFragment` is one step, as it runs under the lock. `Failures` chooses which allocation, if any, fails. |
| `Ip4Service` | the IPv4 datagram service | The abstract specification: sent and received sets of datagrams, where a received datagram must have been sent. `Ip4Fragment` maps `received` to `processed`. |
| `MCIp4Fragment` | the IPv4 layer for TLC | The datagram lengths of each configuration. |
| `SoftFloat` | `RtlDoubleAdd`, `RtlDoubleSubtract`, `RtlDoubleMultiply`, `RtlDoubleDivide`, `RtlDoubleModulo`, the six comparisons, `RtlDoubleIsNan` and their helpers | The format is parameterised by `ExpBits`, `FracBits` and `GuardBits`; the word is `FracBits + GuardBits + 2` bits, as 64 = 52 + 10 + 2, and every constant of the code is written in these terms (0x200 is `2^(GuardBits-1)`, 0x7FD is `NanExponent - 2`, ...). Each routine and helper is an operator returning the bits and the set of flags raised. The variables are `mode`, `tininess` and `flags` (the three globals). `Add`, `Subtract`, `Multiply`, `Divide`, `Modulo` and `Compare` are a call on two operands, ORing its flags in (`Raise`); `SetRoundingMode` and `SetTininess` are a caller's assignment. A reference (`Rounded`, `RefSum`, `RefProduct`, `RefQuotient`, `RefRemainder`, `RefCompare`) rounds the exact value, in units of the smallest subnormal, by the IEEE rules. |
| `SoftFloatConvert` | the eight `RtlDoubleConvert{To,From}...Integer{32,64}` routines, `RtlpRoundAndPack32`, `RtlpRoundAndPack64`, `RtlpShift64ExtraRightJamming` | Extends `SoftFloat` with `Int32Bits` (the width of a `LONG`) and `IntRoundBits` (the 7 bits below the point in `RtlpRoundAndPack32`); a `LONGLONG` is the word. Integer results are a value and a set of flags. The four to-integer calls and the two 64-bit from-integer calls are actions (`ConvertNext`); the 32-bit from-integer calls raise nothing and are checked as operators. A shift left by a negative count, undefined in C, is the set of what the targets produce (`ShiftLeftOutcomes`). The reference rounds the exact value to an integer (`RefToInteger`, any value allowed for an invalid one) or to a double (`RefFromInteger`). |
| `SoftFloatSingle` | `RtlDoubleConvertToFloat`, `RtlFloatConvertToDouble`, `RtlpRoundAndPackFloat`, the four common-NaN conversions, `RtlpShift32RightJamming`, `RtlpNormalizeFloatSubnormal`, `FLOAT_IS_SIGNALING_NAN` | Two instances of `SoftFloat`, `D` at the double's widths and `F` at the float's (its word is the float's `ULONG`). The float-side constants of the code are written from the two formats (the shift by 22 is `JamShift`, 0x380 is `ExponentOffset`). `ConvertToFloat` is a call that ORs its flags in; the widening raises nothing for a non-signaling float and is checked as an operator. The reference rounds the double's exact value in float units (`RefToFloat`). |
| `MCSoftFloat` | soft-float for TLC | Instances sharing the three globals: `SoftFloat` on the 3/2/4 format and the operands of the arithmetic calls, `SoftFloatConvert` on a 4/4/2 format with a 2-bit `LONG` and the operands of the integer conversions, `SoftFloatSingle` on a 4/5/1 double and a 3/2/2 float with the operands of the narrowing, and a `SoftFloat` on a 4/1/3 format (no calls) for the remainder's reduction loop. |
| `ThreadLifecycle` | `PspCreateThread`, `PsCreateThread`, `PspThreadTermination`, `PsQueueThreadCleanup`, `PspReaperThread`, `PspGetThreadById`, `PsGetThreadInformation`, `PspDestroyThread` | `state[t]` is `Thread->State` (with `Terminated` between `PspThreadTermination` and the scheduler marking the thread exited), `refs[t]` the reference count, `inList` the process thread list, `threadCount` `Process->ThreadCount`. `deadList`, `deadEvent`, `reaperList` and `reaperUnlinked` are the dead list, its event, and the reaper's local list and place. `held[l]` is the thread a looker has a reference to; `destroying[a]` the thread actor `a` dropped to zero and is destroying; `freed` and `cleanups` count what `PspDestroyThread` did. `CreateThread` is `PspCreateThread` (both outcomes), `FinishCreate` the rest of `PsCreateThread`, `Release` is `ObReleaseReference`, `DestroyThread` one step of `PspDestroyThread`. |
| `MemoryWarning` | the warning levels | The allocated-page counter, the level, the two sample counters (modulo `CountMask + 1`) and whether the step signalled. The thresholds and mask are computed as `MmpInitializePhysicalPageAllocator` does. |

Abstractions in `PhysicalAllocator`:

- **Sections and image sections become `owner`.** A page is held by a thread
  or by nobody.
- **`MmpPageOut` is not modelled in detail.** Its outcomes are modelled from
  the specification (`PageOutOutcomes`), because that code is not under `src/`:
  - resource-in-use, while the page is locked;
  - paged;
  - failed, while the page is still in use.
- **The warning counters are left out.** They are modelled in `MemoryWarning`
  and read nothing else.
- **Time is not modelled.** The 180-second crash of the allocator's wait loop
  is therefore absent.

Abstractions in `Mapping`:

- **One thread per processor.** A thread's TLB is its processor's TLB, and an
  IPI reaches the processors of the running and exiting threads of the
  process. Context switches between threads of one process are left out.
- **The address-space lock makes each mapping operation one step.** Nothing
  else of the operation can be seen by another thread.
- **Page tables are always present.** Their creation is `PageDirectory`,
  and so is the preallocation of the child's leaf tables before a fork.
- **The fork copy is one step.** The parent's entries change one by one in
  the code. Another processor sees them only through its TLB, which the copy
  does not touch, and through the hardware walk, which a downgrade only
  restricts. The Dirty bit and the per-processor swap page that the copy
  borrows are left out.
- **Callers respect copy-on-write (`Grants`).** No caller asks for write
  access to a frame the child shares: the image-section layer first gives
  the faulting process a copy (spec E5). Without this contract a caller could
  make a shared page writable by itself.

Abstractions in `Ip4Fragment`:

- **One flow.** The tree key (protocol, addresses, identification) becomes
  the identification; the red-black tree becomes a function.
- **Lengths are scaled.** `Alignment` stands for the 8-byte unit and the
  lengths are a few units long, so the same divisions and remainders occur.
- **Headers are not modelled.** Checksums, options, the Don't Fragment bit
  (the sender never sets it) and the TTL are left out. `IpHeader` is the one
  label for a header that ends up in front of data.
- **Send failures are stutters.** An allocation failure in the fragmenting
  loop returns before anything is sent and before `SendPacketCount` moves.
- **The wire is a set.** A packet once sent can be delivered at any later
  time, any number of times, or never.


## 3. Runs

| Run | Expect | Shows |
|---|---|---|
| `search` | pass | The search finds a correct run, or reports none only when none exists. This holds for free and pageable searches, every cursor and every alignment in {1,2,4}. The stored cursor stays inside a segment. |
| `allocator` | pass | `NonPagedAccounting`: the non-paged count is exact through lock, undo, unlock, enable and eviction. `VictimStaysAllocated`: a free cannot release the pager's victim. `LocksHeldByLockers`: each pageable page's lock count equals the callers holding it locked, a caller whose two-page lock stopped at a page at the limit included until its undo after the lock is dropped. `WaitersWakeOnceLockingStops`: a waiting allocator is released once callers stop taking page locks, including when the signal arrives between the request and the wait. `PagesRefined`: the allocator refines `PhysicalPages`, so no frame goes from one holder to another, is handed out while the pager pages it out, or is freed twice. |
| `page_tables` | pass | A fork and two child threads racing to create page tables, then exit: each page-table frame has one holder (the loser of a race frees its own page), and `PageTableCount` equals the populated user entries through reuse of preallocated tables and teardown. |
| `page_tables_liveness` | pass | Every page-table creation that waits for `MmPageTableLock` returns (`MapCompletes`), with two processes syncing the kernel entry. |
| `kernel_publish_race` | violation | A second process copies a half-published kernel entry, its locked resync compares only `.Entry`, and it installs a second kernel page table; mappings through the first are not seen (mapping.c:2719). |
| `tlb_shootdown` | pass | `RunningTlbCoherent`: a running thread's TLB only holds translations the page tables give, through unmap, write-protect, remap and unmap in another process, with the IPI skipped at `ThreadCount <= 1`. `ResidentSetCounts` and `FramesHaveOneOwner`: the resident-set count and frame ownership stay exact. |
| `fork_copy` | pass | A thread of `p1` copies its section `v1` into a fork child while `p1`'s threads map, unmap, change access, map and unmap in `p2`, are created and exit. `ForkSharesReadOnly`: a frame the child shares is writable through no leaf entry, the child's or any process's. `ResidentSetCounts`: the child's counter equals its entries, non-present ones included. |
| `exit_write_race` | violation | An exiting thread has already decremented `ThreadCount`, so a sibling's unmap skips the IPI, and the exiting thread's thread-ID write goes through its stale TLB entry to the freed frame (thread.c:1282). |
| `ip4_reassembly` | pass | Datagrams of one socket cross a wire that loses, duplicates and reorders. With allocation failures, expiry, the fragment limit and socket close: `StoredFragmentsFaithful` says each packet node holds pieces of one sent datagram at their offsets, in order, with gaps, and marked last exactly at the end. `FragmentCountMatches` says `NetIp4FragmentCount` equals the stored entries. `DatagramService` says the layer refines `Ip4Service`: what it hands up is a sent datagram, whole. Final fragments are at least the alignment long. |
| `softfloat` | pass | Under every rounding mode and tininess rule a caller can store, `RtlDoubleAdd` and `RtlDoubleSubtract` (`SumsRound`), `RtlDoubleMultiply` (`ProductsRound`) and `RtlDoubleDivide` (`QuotientsRound`) return, for every pair of the 64 patterns, the correctly rounded result with exactly the IEEE exception flags; `RtlpMultiply64To128` is exact and `RtlpEstimateDivide128To64` within two of the quotient on words that reach their carries and correction loop. `ComparisonsOrder`: the six comparisons follow the IEEE order, with -0 = +0 and NaNs unordered, and raise invalid by the signaling rules. `ToIntegersRound`: on the wide format the four conversions to `LONG` and `LONGLONG` return the IEEE-rounded integer with inexact, or raise invalid (and saturate) exactly when the value does not fit; `FromIntegersRound`: the conversions from `LONG`, `ULONG`, `LONGLONG` and `ULONGLONG` below 2^63 return the nearest double. `RemaindersExact`: `RtlDoubleModulo` returns the exact IEEE remainder (the even quotient on a tie) with no flag, invalid for an infinite dividend or a zero divisor, on the narrow format and on a 4/1/3 one whose 6-bit word sends it through its reduction loop. `NarrowingRounds`: `RtlDoubleConvertToFloat` returns the correctly rounded float with the IEEE flags, through float overflow and subnormals; `WideningRoundTrips`: every float that is not a signaling NaN widens exactly with no flag and narrows back to itself. `TypeOK`: the flags word holds only the five flag bits. |
| `thread_lifecycle` | pass | The initial thread creates two threads, each with or without the extra reference and each able to fail early or late; any thread exits; two other processes' threads look threads up. `ThreadCountMatches`: `ThreadCount` equals the listed threads that have not terminated. `FreedThreadsUnlisted`: no freed thread is on the process list. `ExitedThreadsUnlinked`: every terminated thread is eventually unlinked by the reaper. |
| `ip4_short_tail` | violation | A duplicate of a final fragment shorter than 8 bytes is joined to its own stored copy (ip4.c:2821), and the reassembled datagram has its tail twice. |

Ten configurations reproduce defects without being runs: the run limit
keeps one run per question. `MCFreeAccounting.cfg` checks
`AllocatedMatchesFrames` of `MCPhysicalAllocator`. `MCMemoryWarning.cfg` checks `NoRefireAtLevel1`
of `MemoryWarning`. `MCThreadCreateFailure.cfg` checks
`FreedThreadsUnreferenced` and `MCThreadTeardown.cfg` checks
`ProcessDestroyedOnce`, both of `ThreadLifecycle`. `MCIdentitySearch.cfg` checks `IdentityOK` of
`MCPhysicalSearch`. `MCPagerLivelock.cfg` checks `WaitersWake` of
`MCPhysicalAllocator`. `MCPreallocRace.cfg` checks `PreallocInBounds` of
`MCPageDirectory`, with a second thread in the parent. `MCIp4HandUp.cfg`
checks `HandedUpIsSent` of `MCIp4Fragment`. `MCSoftFloatIsNan.cfg` checks
`IsNanExact` and `MCSoftFloatUnsigned.cfg` checks
`UnsignedFromInteger64Exact`, and `MCSoftFloatSignaling.cfg` checks
`WideningSignalsInvalid`, all three of `MCSoftFloat`. Each one finds its
property violated. All but `MCIdentitySearch.cfg` and
`MCSoftFloatSignaling.cfg` are described with a hazard in `PROJECT.json`;
those two are described under Findings.

### Bounds

**`search`** uses two segments of three pages each.

- Requests are for 1 to 3 pages, with alignments 1, 2 and 4.
- These sizes reach the boundary cases: a run that ends exactly at a segment
  end, a run that would cross it, an aligned start beyond the segment, and
  wrap-around to the first segment.
- They also reach a search that starts inside a segment and has to come back
  to it.

**`allocator`** uses two threads over one segment of two frames, with runs
of one page allocated, freed and enabled, runs of up to two pages locked
(`MaxLockRun = 2`), no symmetry and no constraint, so that the liveness property is
checked soundly. Two frames are enough for one page locked while the other
is the victim, and for a free racing the page-out of its page.

- `MaxLockCount = 1` with `MaxLockRun = 2` makes the lock-limit failure
  reachable after the first page of a run is locked, so the undo has a
  page to give back and runs while other threads and the pager interleave.
  Allocating and freeing two-page runs as well (`MaxRun = 2`) takes the run
  past four minutes; the two-page free is checked by `MCFreeAccounting.cfg`.
- `MaxPageOutFailures = 1` and `SignalPageCount = 1` reach both ways a pass
  ends.

`MCFreeAccounting.cfg` adds runs of two pages, a thread symmetry set and
`DriftConstraint`. The constraint bounds by 1 how far
`MmTotalAllocatedPhysicalPages` can drift from the frames: the drift is the
bug, and without the constraint the counter is unbounded.

**Page-directory runs** use one kernel index and one or two user indices,
with five table frames. The kernel race needs two processes and no page
table for the kernel index at boot. So `page_tables` gives the kernel index a
boot table (`BootTables`) and has one initial process that forks a child
with two threads. `page_tables_liveness` has two processes without a boot
table, the setting in which `CheckDirectoryUpdates` is reached. The two
violation run shows what happens without those restrictions;
`MCPreallocRace.cfg` adds a second thread to the parent, the least needed for
the overrun.

**`tlb_shootdown`** uses two processes, three threads (two in the first
process, one of them unborn at the start), two VAs and two frames. Two
threads in one process are the least for the IPI decision to matter. Two
frames allow a remap to a different frame, and two VAs allow two mappings of
one process. Symmetry over frames is sound, because no definition names a
frame. A third frame made the run take more than ten minutes without
reaching a new kind of step.

**`fork_copy`** forks `p1`, whose section is `v1` of its two VAs, with
threads `t1` and `t2` (created at any time), and `p2` without threads as the
other address space. A second thread of the parent is the least that can
hold a stale writable translation during the copy. `v2` lies outside the
section, and a frame can be unmapped from the parent and mapped into `p2`.
`p2`'s own thread, `t3`, is left out: with it the run reaches 4.3 million
states in more than six minutes, and it adds no step that touches the child.

**`ip4_reassembly`** sends two datagrams with distinct identifications. Each
is 2, 6 or 8 bytes long, with `Alignment = 2` and a link payload of 2:

- 2 bytes is not fragmented;
- 6 bytes makes three fragments, so a middle fragment can join both
  neighbours and complete the packet;
- 8 bytes makes four fragments, and its reassembly passes
  `MaxPacketSize = 7`, which destroys the node.

`MaxFragmentCount = 2` is reached by two pieces of one datagram and one of
the other. `Timeout = 1` and two ticks let a node expire while its fragments
are still on the wire. Final fragments of 2 bytes are not shorter than the
alignment; `ip4_short_tail` sends one 5-byte datagram, whose final fragment
is 1 byte.

**`thread_lifecycle`** has the initial thread, two threads it may create
and two lookers: 33,050 states. Two created threads let one be created
while the other exits or is reaped, and put two threads on the dead list at
once; two lookers let two references be added to one thread. Each thread is
created once, which bounds the reference counts. A third created thread
takes the run past two and a half minutes without a new kind of step. The
two reproductions need one created thread and one looker.

**`softfloat`** uses a double scaled to 3 exponent bits, 2 fraction bits and
4 guard bits: 64 patterns, an 8-bit word, bias 3. Every pattern kind occurs:
both zeros, subnormals, normals, the largest finite value, both infinities,
quiet and signaling NaNs. The properties quantify over all 4096 pairs under
the stored mode and tininess rule. Four guard bits keep round, half and
sticky positions and the `<= 2` remainder test distinct. The calls themselves use 14 operands, one of
each kind and sign; they drive the flags, the mode and the tininess rule
through all 160 reachable states. No routine reads the flags word, so the
properties are checked in the states where it is clear (`Clear` in
`MCSoftFloat`); every mode and tininess rule is reachable with it clear,
and in the other states the properties would say the same again. At this scale one factor of every product
has a zero low half-word, and the division's estimates are never too high,
so the carries of `RtlpMultiply64To128` and the correction loops are not
reached from the routines. `ProductsRound` and `QuotientsRound` therefore
also check the two helpers on the 25 words whose half-words are 0, 1, 7, 8
or 15, which reach both.

The conversions need a second format. The code relies on 52 fraction bits
holding a `LONG` and its 7 round bits (so a double too large for a `LONG`
is never shifted left), and on the NaN exponent lying above the exponent
of 2^63; TLC's 32-bit integers rule out 5 exponent bits. The wide format
has 4 exponent, 4 fraction and 2 guard bits (512 patterns, an 8-bit
`LONGLONG`), a 2-bit `LONG` and 2 round bits. Its 20 operands are zero,
the smallest subnormal, 0.75, 1.5, 2.5 (a tie), 2 (one past `MAX_LONG`,
while -2 is `MIN_LONG`), 128 (-128 is `MIN_LONGLONG`), infinity and both
NaNs, of both signs. `ToIntegersRound` checks the four to-integer routines
on all 512 patterns and `FromIntegersRound` the four from-integer routines
on every integer of their type (every `ULONGLONG` below 2^63), in every
mode and tininess rule.

The double-float conversions need a double with more fraction bits than
the float has fraction and guard bits together, so that the fraction is
jammed right: a double of 4, 5 and 1 bits (bias 7, a 7-bit word) and a
float of 3, 2 and 2 (bias 3, a 6-bit `ULONG`) jam by one place. The
double's range covers float overflow, float subnormals and doubles below
half the smallest float; the float has a signaling NaN. `NarrowingRounds`
checks all 1024 doubles and `WideningRoundTrips` all 64 floats. The call
`ConvertToFloat` uses 12 operands: 1, 1 + 2^-5, the largest double, a
tie, an underflow and a signaling NaN, of both signs.

`RtlDoubleModulo` runs its reduction loop only when the exponents differ
by more than the word, which the 3/2/4 format (exponents up to 6, an
8-bit word) never does. The 4/1/3 format has exponents 1 to 14 and a
6-bit word, so 448 pairs of normal operands take the loop once or twice.
`RemaindersExact` checks every pair of both formats.

### Fairness

The pager is a dedicated kernel thread. It is woken by `pagingEvent`, and it
runs while it has work, so it is weakly fair.

An allocating thread that has asked for pages keeps running its own code,
which is a retry after a wake. So its post-request steps are weakly fair.

`MmPageTableLock` is a queued lock granted in arrival order, so a thread
waiting for it is strongly fair (`SF` on `Install`). A thread holding it
runs on (`WF` on `Publish`), and so does a thread in the preallocation walk.

Nothing is assumed of a thread's decision to allocate, free or lock. Fairness
is written as `<>[]Ready => []<><<Step>>_vars`, with an explicit enabling
predicate `Ready`. This is equivalent to weak fairness, and it avoids TLC
computing `ENABLED` of the search-heavy actions.

In `ThreadLifecycle` the scheduler queues every thread that has
terminated (it switches the thread out for good), the reaper is a kernel
thread that loops forever on its event, a `PspDestroyThread` once begun
runs to its end, and `PsGetThreadInformation` drops its reference before
returning: these steps are weakly fair. The creator and the threads
themselves are not assumed to make progress, and neither is the creator's
release of the extra reference, which is up to its caller.

`Mapping`, `Ip4Fragment` and `SoftFloat` assume no fairness. Their properties are safety
properties and the refinement of `Ip4Service`, whose specification has no
fairness either. The network guarantees no delivery, so no liveness of
reassembly can be claimed.

## 4. Findings

The findings are listed in `PROJECT.json`.

In the page-directory layer:

- the kernel publish race (mapping.c:2719), a code defect: a kernel page
  table can be replaced and leak;

In the mapping layer:

- the exit write race (thread.c:1282), a code defect: a thread's exit write
  can reach a frame another thread has unmapped and freed.

In IPv4:

- the short-tail join (ip4.c:2821), a code defect: a duplicated final
  fragment shorter than 8 bytes makes the reassembled datagram carry its tail
  twice in release builds, and hits an `ASSERT` in debug builds.

Defects recorded as hazards, each with a reproducing configuration or
constant:

- the pager pass is kept alive by lock/unlock of its victim
  (physical.c:2049; `MCPagerLivelock.cfg`);
- `MmpUnmapPageInOtherProcess` never sets `Physical`, so with the free flag
  the frame leaks (mapping.c:1572; `OtherUnmapFree = {TRUE, FALSE}` breaks
  `FramesHaveOneOwner`);
- it decrements the resident set for an empty entry (mapping.c:1627;
  `OtherUnmapAbsent = TRUE` breaks `ResidentSetCounts`);
- after reassembly, `ReceiveContext->Packet` still holds the final fragment,
  and the protocols are handed the fragment with its IPv4 header
  (ip4.c:1612; `MCIp4HandUp.cfg`);
- the fragment limit lets `IP4_MAX_FRAGMENT_COUNT + 1` entries be stored
  (ip4.c:2715);
- the preallocation overrun (mapping.c:2036), which depends on a thread of
  the forking process creating a page table during the fork
  (`MCPreallocRace.cfg`);
- `RtlDoubleIsNan` tests only the exponent and answers TRUE for both
  infinities (softfp.c:409; `MCSoftFloatIsNan.cfg`);
- `RtlpNormalizeRoundAndPackDouble` shifts left by `clz - 1`, which is -1
  for a value with bit 63 set, and `RtlDoubleConvertFromUnsignedInteger64`
  passes it every `ULONGLONG` of 2^63 or more (softfp.c:3250 and 583). The
  shift is undefined: x86 masks the count to 63 and keeps only bit 0 at the
  top, ARM gives 0. Either way the conversion returns a wrong double
  (`MCSoftFloatUnsigned.cfg`).

Defects and a disagreement reproduced by a configuration:

- `MmFreePhysicalPages` sets `ReleasedPhysicalPage` once and never clears
  it (physical.c:587), so a page after the first released one is counted as
  freed even when it is skipped because the pager holds it, and again when
  the pager frees it; the specification (4.1, free) says such a page is left
  alone (`MCFreeAccounting.cfg`);

- above the level-1 mark the warning level alternates between 1 and 2 and
  fires on each sampled allocation (physical.c:1039), where the
  specification says a level-1 warning fires once per crossing
  (`MCMemoryWarning.cfg`);
- when `PsCreateThread` fails after `PspCreateThread` listed the thread, it
  drops the last reference with the thread still on the process list
  (thread.c:283); a `PspGetThreadById` adds a reference to it, and the
  destroy already under way frees it while the lookup holds it. The
  reaper's comment (thread.c:1626) and `PspDestroyThread`'s
  `ASSERT(Thread->ProcessEntry.Next == NULL)` both say a thread must leave
  the list before its count reaches zero (`MCThreadCreateFailure.cfg`);
- every `PspDestroyThread` that finds the process's thread list empty
  tears the process down (thread.c:1785), so when a lookup keeps a thread
  alive until after the list emptied, the child signal is sent and the
  process removed from the global lists twice (`MCThreadTeardown.cfg`);

- `FLOAT_IS_SIGNALING_NAN` (softfp.c:69) compares the whole word with
  0x003FFFFF after requiring the bits above bit 21 to be 0x1FE, so it is
  never true, and `RtlFloatConvertToDouble` quietly widens a signaling
  float without raising invalid (`MCSoftFloatSignaling.cfg`).

Defects seen while modelling and not checked:

- the identity-mappable search checks the VA of the span's first page only
  (physical.c:2343; reproduced by `MCIdentitySearch.cfg`);

- the completed header's checksum is computed over the fragment's header
  (ip4.c:2979);

## 5. Not modelled yet, and the plan

1. The fork copy racing the pager: a frame the child shares being paged out
   between the copy and the flush, which needs `Mapping` and
   `PhysicalAllocator` composed.
2. The address-space lifecycle: `MmpArchCreateAddressSpace` and
   `MmpVirtualToPhysical`. Its failure path (mapping.c:879) is not reachable:
   the directory page comes from `MmpAllocatePhysicalPages`, which waits for
   memory and crashes the system rather than fail (physical.c:1097).
3. `PhysicalPages` says nothing about the counters: a refinement of the
   free-page and non-paged counts needs `MCFreeAccounting.cfg`'s defect
   fixed first, since `MmTotalAllocatedPhysicalPages` drifts.
4. Within `physical.c`:
   - `MmpMigratePagingEntries`;
   - page-cache back-pointers;
   - identity-mappable allocation as an action.
5. IPv4 beyond reassembly: several flows and the tree key, the identification
   wrap of a busy socket (`IdSpace < MaxSends`), and concurrent sends on one
   socket racing on `SendPacketCount`.
6. The rest of soft-float: `RtlDoubleSquareRoot` and
   `RtlpEstimateSquareRoot32`. The estimate starts from two 16-entry tables
   of constants fitted to a 32-bit significand; on a scaled format they no
   longer give an estimate within the bounds the routine's correction
   relies on, and at full width the 64-bit words exceed TLC's integers. No
   faithful scaled model of it exists. Each call is modelled as one step: two threads ORing into
   `RtlSoftFloatExceptionFlags` at once (softfp.c:2088, a plain `|=`
   without a lock) could lose a flag, and that is not modelled.
7. Threads beyond their lifecycle: signal queueing and delivery,
   `PsGetThreadList`, user stacks and credentials, and the debugger's stop
   counts. The scheduler and object manager are not in the repository.
8. Not modelled, by choice: drivers (e100), HAL timers and interrupt
   controllers, firmware, headers of constants and the PE parser. They are
   register-level or pure I/O and hold no state that a property could relate.
