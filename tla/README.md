# KmtHsaStudy: specifications

TLA+ models of KmtHsaStudy, model-checked with TLC, and theorems about them proved with TLAPS. KmtHsaStudy is a user-space
program in C++ that drives one AMD GPU through the kernel driver (KFD) without AMD's runtime: it does itself what the thunk
library (KMT) and the HSA runtime do, for the sake of seeing how. What is built is `src/src/*.cpp` (kmthsa, memory, queue,
sdma, event, aql, executable, main) and AMD's code-object library `src/libamdhsacode`. `src/kmttest` holds a queue and
packets taken over from AMD's KFDTest; `src/src/src-bck` and `src/src/src-old` are earlier states of the same code. The
repository has no README and no specification; what a component promises is read from its asserts, comments and tests.

Paths below are relative to the repository.

## 1. Inventory

One thread runs the program. Everything that is concurrent runs outside of it and shares memory with it: the SDMA engine,
the packet processor and the waves of a kernel on the GPU, and the kernel driver behind `ioctl`. There are no callbacks and
no locks, nothing is persisted, and no component restarts: `KmtHsaDeInit` and a second `KmtHsaInit` are the nearest thing.

| component (source) | state | operations | talks to |
|---|---|---|---|
| start-up and tear-down (`src/kmthsa.cpp`, `src/memory.cpp` 60-224) | `gKfdFd`, `gDrmFd`, `gGpuId`, the aperture, files left open | `KmtHsaInit`, `KmtHsaDeInit`, `kmtReadKey`, `kmtIoctl` | driver, sysfs, memory, queues |
| memory manager (`src/memory.cpp` 226-660) | `vm_obj_array`, `vm_obj_cnt`, blocks on the heap, pages, the driver's buffer objects | `KmtAlloc*`, `KmtMapToGpu`, `KmtUnmapFromGpu`, `KmtReleaseMemory`, `HsaAllocCPU/GPU`, `HsaFreeMem` | driver, `mmap`, heap |
| queues (`src/queue.cpp`) | `kmt_queue_t` with its buffers, the doorbell's mapping, the driver's record | `KmtCreateQueue`, `KmtDestroyQueue` | memory, driver |
| SDMA copy engine (`src/sdma.cpp`) | ring, `CommandSize`, write index, doorbell, read index | `HsaSdmaCopy`, `HsaSdmaWrite` | engine: ring and three indices |
| events (`src/event.cpp`) | `gEventsPage`, `HsaEvent` objects, the driver's events, the slots of the page | create, destroy, set, wait | driver, GPU interrupts |
| AQL dispatch and program (`src/aql.cpp`, `src/main.cpp`) | packet 0 of the ring, arguments and the pointer to the next, buffers | `HsaAqlCreate`, `HsaAqlSetPkt`, `HsaAqlSetKernelArg`, `HsaAqlRingDoorbell`, `main` | packet processor, waves, SDMA |
| code loader (`src/executable.cpp`) | image of the code object in host and GPU memory, `KernelSymbolAddress` | `HsaLoadKernel` | code-object library, SDMA |
| vector kernel (`kernel/VectorAdd.s`) | registers of a wave | load, add, store | buffers |
| test queue (`kmttest/BaseQueue.cpp`, `SDMAQueue.cpp`, `KFDTestUtil.cpp`) | ring, two pending indices, registers | `PlacePacket`, `SubmitPacket`, `Wait4PacketConsumption` | engine |
| code objects (`libamdhsacode`: `amd_elf_image.cpp`, `amd_hsa_code.cpp`) | sections, segments, symbols, notes of an ELF image; the file | the methods of `AmdHsaCode` that build, `Freeze`, `PullElf` | a finalizer builds, the code loader reads |
| test packets (`kmttest/SDMAPacket.cpp`) | the packets of one copy or fill | constructors of `SDMACopyDataPacket`, `SDMAFillDataPacket` | test queue |

What is hard, and what would make each component correct:

- **Memory manager.** `find_vm_obj` walks a table whose slots point to freed blocks; `vm_obj_cnt` only grows; an allocation
  is one page longer than what is unmapped; the result of the driver's free is not looked at. Correct means: a lookup finds
  the owner of an owned address whatever came before; live allocations and their guard pages are apart; the driver's
  objects are those of the live allocations; a free takes nothing from others.
- **SDMA.** Host and engine share indices and see each other's stores one by one; two calls compute the published index in
  two ways. Correct means: requests are performed whole, once and in order, and a call that returns has been performed.
- **Start-up and queues.** Every device, file and ioctl may fail, and not every failure is looked at; files and buffers are
  not given back. Correct means: "ready" and "off" mean what they say; the engine of every queue the driver has works on
  memory that is there; a doorbell rings its own queue.
- **Events.** A set may come before, during or after a wait, or never; the GPU writes to an address in a page it shares with
  the driver. Correct means: no signal is lost, none counts twice, every wait ends.
- **Program.** Nothing tells the thread that the kernel has ended. Correct means: the sum is right and no wave touches a freed
  buffer, unless the sleep was too short.
- **Loader.** Two address computations must agree with how the object was linked.
- **Test queue.** The ring is a wrapped index and an unwrapped one, with padding at the end of the ring and one slot kept free.
- **Test packets.** A count rounded up in 32 bits must agree with a loop; a fill is by dwords or by bytes, packet by packet.
- **Code objects.** A section's place in the file and in memory are computed by two pieces of code, libelf's and `GElfSegment::push`,
  and a segment is right only if both lay its sections out alike. The building calls come in any order and several overwrite
  what an earlier one set. Reading stops half way over one bad symbol, and the loader looks at no result. Correct means: what the
  loader takes for granted holds of every object that can be built, bytes arrive at the address they were given, and a load
  fails only over something the object lacks.

## 2. Modules

| module | models | composed with |
|---|---|---|
| `KmtMemory` | memory manager, with pages, heap, table and the driver's buffer objects | |
| `KmtMemoryProps` | its properties | refines `GpuBuffers` |
| `GpuBuffers` | abstract: a pool of buffers that never overlap | |
| `LeastNumber` | facts for inductions up to a bound | used by the proofs about `KmtMemory` and `CodeLoad` |
| `KmtMemoryProofs` | proofs about `KmtMemory`, the refinement of `GpuBuffers` included | |
| `Sdma` | copy engine, host and engine | |
| `SdmaProps` | its properties | refines `DmaOrder` |
| `DmaOrder` | abstract: requests of one thread, performed in order | |
| `SdmaProofs` | proofs about `Sdma`, one of them that it implements `DmaOrder` | |
| `KmtQueue` | queues | extended by `Startup` |
| `Startup` | start-up, tear-down and the creation of AQL queues between them | extends `KmtQueue` |
| `StartupProofs` | proofs about `Startup` and `KmtQueue` | |
| `KmtEvent` | events, driver and GPU | |
| `KmtEventProofs` | proofs about `KmtEvent` | |
| `Loader` | code loader | extended by `VectorAdd` and `CodeLoad` |
| `ElfImage` | the ELF image as a value: what each method does to it, and its layout when written | used by `HsaCode` |
| `HsaCode` | `AmdHsaCode`: building, writing and reading a code object | uses `ElfImage` |
| `CodeLoad` | building, reading back and loading one code object | composes `HsaCode` and `Loader` |
| `VectorAdd` | `main`, AQL packet and arguments, kernel | extends `Loader`; its copies are what `DmaOrder` promises |
| `VectorAddProofs` | proofs about `VectorAdd` and `Loader` | |
| `RingQueue` | test queue and its engine | places the packets of `CopySplit` |
| `RingQueueProofs` | proofs about `RingQueue` and `CopySplit` | |
| `CopySplit` | test packets, as operators | used by `RingQueue` |

Each component `M` has its properties in `MProps`; `MC...` modules define the constants of TLC's instances. A definition named
`X_Y` under the comment "Fault" is `X` with a plausible bug `Y`; nothing uses it but the mutation runs listed in
`PROJECT.json`, in which a property must fail when `X` is replaced by `X_Y`.

### KmtMemory

`page` is the address space in pages (free, reserved without access, accessible), `bo` the driver's buffer objects by handle,
`cell` the heap blocks of `vm_object_t`, `vm_obj_array` and `vm_obj_cnt` the table. `held` are the addresses callers own.
Allocating is one action up to the point where the address is returned (`mmap`, ioctl, table entry, second `mmap`), mapping,
unmapping and releasing are one each, with every lookup they make: `HsaAllocCPU` is allocate then map, `HsaFreeMem` unmap
then release, and `call` says which one is under way. `mmap` may choose any free place and `malloc` any free block.

`FreedStartSurvives` says whether a freed block may still show the address it had. The first word of a `vm_object_t` is
`start`; glibc's `free` stores a list pointer there in every bin (thread cache, fast, small, unsorted), and does not when the
chunk is merged into the top of the heap. With `FALSE` every property holds; with `TRUE` run `memory_stale` shows what goes
wrong. `call.op` takes the values `assert`, `segv`, `double_free` and `overrun` when the program ends that way.

### Sdma and DmaOrder

Dwords of the ring are a zero dword, a header with its packet, or a body. Publishing the index, writing the doorbell and
polling are actions of their own, since the engine runs between them; building a packet is one, since the engine does not read
beyond the doorbell. The engine is assumed to treat a zero dword as a no-operation (the ring is fresh memory), to read
modulo the ring's size, to stop at a dword that is no header, and to wait for a packet the doorbell cuts in two. An *early*
engine may report a packet as read before it has performed it; `Engines` says which kinds there are, `early` which one a
behaviour has. `DmaOrder` is the promise: calls append a request, requests are performed one by one; if `synchronous`, a
call returns when none is left. `SdmaProps` maps the ring to the pending requests and `early` to the lack of `synchronous`.

### KmtQueue and Startup

A buffer is a number that is never given twice (`vm_obj_cnt`, as in the code); `queues` is what the program knows of its
queues, `kqueues` what the driver knows. Creating a queue is one action: the allocations, the ioctl, the doorbell's mapping;
it may end in a refusal by the driver (an assert) or in a full table. `Startup` takes `KmtHsaInit` apart into its steps: a
descriptor is `open` or `bad` after an `open` that may fail (the assert behind it excludes 0, and failure is -1), reading a
key uses up a descriptor, since a key that is found is returned before `fclose`, and reading a file that is not there is the
end (`segv`). Between start-up and tear-down `HsaAqlCreate` may be called any number of times. Its queues are never
destroyed, and the driver keeps them when the device is closed.

### KmtEvent

The driver's events are numbered by slot; `signaled`, `autoReset` and `slots` are the driver's, `evts` the thread's objects,
whose `hw` is the slot that `HWData2` points to. A slot has 8 bytes and `HWData2` advances by `sizeof(HsaEvent)`, so `hw` is
`Stride` times the number. A wait is two actions, the call and its end. `told` is a history: who has signalled an event since
a wait last took it. The GPU's signal, its interrupt and the driver's look at the slot are one action.

### VectorAdd and Loader

`Program` is `main` statement by statement, `step` the position in it. `Loader` runs inside the step `load`, one action per
function and per turn of its loops, on an arbitrary code object: segments and symbols are records of addresses. The kernel's
work-groups load (one action) and store (one action), between any steps of the thread once the doorbell is rung; a wave that
finds no kernel at the address in the packet, or a buffer that is gone, dies with `fault`. Sleeping is a step that may take
no longer than anything else, so the kernel may be late; `early` records whether it was.

### RingQueue and CopySplit

`pendingWptr` and `pendingWptr64` are the wrapped and the unwrapped index of `BaseQueue`. The code does not check that there is
room for a packet (the assert is a comment), so that is up to the caller, of which there are two: one ("checks") that places only
what `PlacePacket` computes room for, and one ("waits") as in `KmtTest.cpp`, which asks for no room and waits after each packet,
whatever the wait returns. `BaseQueue.hpp:41` says of the wait that it is "until RPTR=WPTR", but `WaitOnValue` gives up for both when
its time has run down, and `Wait4PacketConsumption` drops its result. Two variables are history: `gaveUp`, whether
the last wait did, and `crammed`, whether a packet has ever been placed without room. Once one has, the ring is out of order for
good and the properties say no more; what they do say is that this takes a wait that gave up (`PlacesWithRoom`).
`CopySplit` holds the constructors of `SDMACopyDataPacket` and `SDMAFillDataPacket` with a small `TWO_MEG` and a small
`unsigned int`: their number of packets, their size, and the packets their loop fills in. `surface` is the copy or fill whose
packets have been built and not placed.

### ElfImage, HsaCode and CodeLoad

An image is a record of sections, segments, symbols and version notes, and each method of `amd_elf_image.cpp` an operator that
gives the image after the call; sizes are in words of 4 bytes, contents are left out. `SegmentPush` is `GElfSegment::push` as it
stands, with its two sums that are rounded up side by side, for the file and for memory; `Offsets` is what libelf does with the
sections. `HsaCode` has one action per method of `AmdHsaCode` a finalizer calls, with what the method's assert asks as its guard,
in any order. `AddExecutableSymbol` takes a section or none: with none the symbol is for the code's section, and else for any the
methods have returned, of code, data or descriptors, while `AddKernelCode` always puts the code into the last section for code. `Freeze`
writes, and `PulledSegments`, `DataSegments` and `PulledSymbols` are what `PullElf` finds in what was written: each segment twice,
types by the first version note, symbols up to the first kernel whose header is not read, because its section does not pass for
code (`Executable`) or does not hold it whole. `ReadsNoBits` is the crash there: a section without bits has a size and no buffer
to copy from. In `CodeLoad`, `create_code_object` hands them to `Loader`, whose actions then run on them, so that `LoaderNeeds` checks of built
objects what `LoaderAssumption` asks of given ones. A byte in GPU memory is named by segment and distance, which `OnGpu` follows
through the file to the section that has it there.

`TidyInPlace` says when a segment comes out right, since it does not always: its sections must lie together in the file, with
alignments that round alike, and what has no bits must come last. Two data sections of a segment with another section created
between them are enough to put the second one's bytes elsewhere; the library does not say that this must not be done.

## 3. Runs

| run | question | bounds |
|---|---|---|
| `memory` | lookups, guard pages, driver's objects, no failing call, frees are local, refinement of `GpuBuffers` | 6 pages, sizes 1 and 2, 3 table slots and blocks, 2 handles |
| `memory_overrun` (finding) | does the table overflow only when that many are alive? | same |
| `memory_stale` (finding) | do the asserts behind map and unmap hold if freed blocks may show their address? | same |
| `sdma_copy` | order and completeness of copies, engine in step, calls return, for late and early engines; refinement of `DmaOrder` | 4 cells, ring of 23 dwords, copies of 1 and 2 and one refused |
| `sdma_mixed` | when can a write be lost or a call hang, with copies and writes mixed? | 2 cells, ring of 35 dwords: 7 writes or 5 copies |
| `sdma_write_test` (finding) | is a write in memory when it returns, as `RunSdmaTest` expects? | same |
| `runtime` | what ready and off mean, which failures are noticed, queues on live buffers, doorbells, refusals | 5 start-ups, 48 descriptors, 20 buffers, 3 doorbells in 2 pages, 2 queues of each type |
| `events` | no set is lost or counted twice, the page is handed over once, waits end | 3 slots |
| `events_lost` (finding) | is a GPU's signal ever lost? | same |
| `program` | segments where linked, kernel found, the sum right unless the copy back came too early, everything ends | 2 work-groups, 2 values, 60 code objects |
| `ring_queue` | nothing overwritten, in order, all performed; no packet without room unless a wait gave up; a wait that returns true means it; packets and count agree, each byte is carried once to each destination | ring of 6 dwords, 8 copies and fills of 1 to 3 dwords of packets of up to 8 bytes, 5 of them placed, 64-value unsigned |
| `code_object` | what the loader needs holds of built objects, sections end up at their addresses, the entry is the kernel's, loads fail only over what is lacking or in the wrong section | rodata, data and bss of an agent and data of a program, 4 sections, 2 segments, 3 symbols, 1 piece of data and 2 kernels a section, 1 note, versions 1 and 2, data of 1 and 3 words |

Why the bounds are enough. *memory*: an address must be able to come back with another size next to a live neighbour while a
freed block is in the table: that takes two sizes, three objects ever created and two alive; six pages leave a choice of place.
*sdma*: three copies and the overflow at the end of the ring; for writes the first wrong index (the second write), the first
lost one (the third) and the first wrap (the fourth) all happen. *runtime*: enough descriptors for two to four start-ups, then
none; the table runs full with and without AQL queues; three AQL queues are one more than the driver has. *events*: slot 0, the
last slot, and one between; creating one too many. *program*: the layouts have a gap before, a gap between, memory behind the
image, and symbols at and off a segment's start. *ring_queue*: the packets go round the ring more than twice, with each padding
from 0 to 2; a surface is one byte, one whole packet, one byte more, three whole packets, two destinations, and fills with a tail or
an address that is no dword; sizes whose rounding up would overflow are left out, see section 6. *code_object*: four sections are
two of one segment with one of another segment between them, or data, bss and code with a symbol table; two segments share the
file; a kernel is second in its section, in a section that is no longer the last, in one of data, in one without bits, or never
added; pieces are aligned less and more than the file aligns them. Of the nine data sections four are enough: all kinds of an
agent's, whose flags pass for code, and one of a program's, whose flags do not; nothing tells the read-only ones from these.

`CHECK_DEADLOCK FALSE` is given where the program really stops: when `main` or a constructor is through, the caller makes
no more calls, an assert has failed, or the ring or table is full.

What the violation runs show:

- `memory_overrun`: `vm_obj_cnt` counts objects ever created, and the table has room for 32: the 33rd allocation of a process
  is written behind it although others were freed (`src/memory.cpp:346`).
- `memory_stale`: `release_memory_object` leaves the slot; where the freed block still shows the address, a later allocation at
  that address is looked up through it, and the assert behind the mapping ioctl fails (`src/memory.cpp:309, 361, 567`).
- `sdma_write_test`: `HsaSdmaWrite` adds an offset from the start of the ring to the engine's read index
  (`src/sdma.cpp:447`); the third write of a process is behind the engine and returns without being performed.
- `events_lost`: the slot's address advances by `sizeof(HsaEvent)` in a page of 8-byte slots (`src/event.cpp:24, 46`): the
  GPU's signal of any event but the first misses its slot.

## 4. Fairness

- *Thread.* Weak fairness of the steps of a call that has begun: the operating system runs the thread, and nothing in the
  code makes it stop between two statements. That a caller makes another call is never assumed (`Sdma`: `Host` is fair, building
  is not; `RingQueue`: no step of the caller is; `Startup`: `Starting` and `Close` are, `kmtOpen` and the
  tear-down are not). In `VectorAdd` the thread is the whole of `main`.
- *Engine and GPU.* Weak fairness of fetching, performing and reporting: hardware that never acts makes every wait in the
  code endless, since the polls of `sdma.cpp` have no timeout.
- *Driver.* `KmtEvent`: a wait ends, with the event or when its time has passed. An ioctl is atomic and answers.
- `RingQueue`: the engine's two steps only. Nothing is assumed of how long a wait takes or the engine needs.

## 5. Theorems

### KmtMemory and GpuBuffers

For every number of pages, sizes, table slots, blocks and handles (`KmtMemoryAssumption`); all but the first under the
hypothesis `~ FreedStartSurvives` explained in section 2, without which they are false (run `memory_stale`).

| theorem | states |
|---|---|
| `TypeCorrect` | `Spec => []TypeOK` |
| `MemoryInvariant` | the inductive invariant `MemInv` holds |
| `LookupCorrect` | `find_vm_obj` and `KmtGetVmHandle` find the owner of an owned address |
| `CallsSucceed` | no ioctl's assert fails, no NULL is followed, no block is freed twice |
| `GuardPages` | the page behind a live object is reserved and nobody's |
| `BufferObjectsOwned` | the driver's buffer objects are those of the owned addresses |
| `FreeIsLocal` | a free changes no page and no buffer object of another allocation |
| `MemoryImplementsPool` | `Spec => Pool!Spec`: every behaviour is one of `GpuBuffers` |

The argument. None of these is inductive alone: that a lookup succeeds depends on the table holding the block of every
owned address (`TableInv`), on no two live blocks having one address (`OwnerInv`), which depends on the pages of live blocks
being apart (`LayoutInv`), which holds through `mmap` only because no free takes pages of another block, which depends on the
block found being the owner's, that is, on the lookup. `BufferObjectInv` ties the driver's objects to the same blocks, and
`CallApart` keeps the address of a call under way out of the owned ones. `MemInv` is their conjunction with `TypeOK`. Each
conjunct is preserved by each action in a step of its own; `LeastNumber` gives the first slot of the table that matches, for
`find_vm_obj` is a search. `MemoryImplementsPool` uses `MemInv` to show that allocate, map, unmap and release map to `Create`,
`MapToGpu`, `UnmapFromGpu` and `Destroy`, and a call that fails to a stutter.

### RingQueue

For every ring size, every set of surfaces and every number of packets and turns (`CopySplitAssumption`,
`RingQueueAssumption`), in `RingQueueProofs`. One has the hypothesis `HalfRing`: if there are callers that wait instead of asking
for room, a packet is at most half the ring, because such a caller places into an empty ring and the padding takes up to a
packet's length less one. The instance TLC checks is of this kind: at most 3 dwords of packets in a ring of 6.

| theorem | states |
|---|---|
| `RingInvariant` | the inductive invariant `RingInv` holds |
| `TypeCorrect` | `Spec => []TypeOK` |
| `Room` | as long as each packet had room, none lands on one still to be read, and equal indices mean that all has been read |
| `InOrder` | so long, packets are performed whole, once each, in the order they were placed |
| `RoomByWaiting` | under `HalfRing`, the first packet placed without room follows a wait that gave up |
| `TrueMeansConsumed` | as long as each packet had room, a wait that returns true leaves nothing handed over unread |
| `SurfaceCarried` | the packets of a copy or fill are as many as there is memory for and carry each byte once to each destination |

The argument. `RingInv` is `StateInv`, the types and what is known of caller and engine whatever was placed, and `WindowInv`, which
holds until a packet is placed without room. `InOrder` says what the engine did, and follows from what the ring holds: the window from the read index to the
write index. `ContentsInv` says that the window is cut into whole packets and NOPs and that the doorbell is on a cut, so the
engine, which starts on a cut, reads from the first dword of a packet to its last and stays on one. `OrderInv` says that the
numbers in the window go on from the last one read without a gap, each in one place, so what it reads is next. `PlaceStep`
keeps both: `AvailableIs` turns the caller's comparison of wrapped indices into the distance of the unwrapped ones, the packet
and its padding fit in front of the window (`PlaceFits`), and since indices less than the ring apart have positions of their
own (`PosInjective`), nothing of the window is overwritten (`PlaceContents`). `IndexInv` and `EmptyInv` hold the rest: a caller whose wait returned
true finds the ring empty, because `wptr` is the write index from the doorbell to the end of the wait, and half a ring is then
room enough for a packet with its padding.

`SurfaceCarried` needs no `HalfRing`, but that `TWO_MEG` is a whole number of dwords, as 2^21 is, and that no size wraps when it
is rounded up to whole packets (section 6). `PacketsOf` is a loop over the bytes left, so the theorem takes induction over the
number of turns, which the library's induction theorems, being about operators, do not give with these provers.
`LeastElement` does: `LoopExists` and `LoopEnds` look at the least number of turns for which the claim would fail.
`LoopInv` says of the packets filled in so far that each byte done has exactly one of them, that no other byte has any, and
that all but the last are full; the number of packets is then the rounded-up quotient (`SurfaceCounted`).

### Sdma and DmaOrder

For every ring, memory, set of copies and writes and both kinds of engine (`SdmaAssumption`, which asks that a copy
reads allocated memory, as those of the callers in the code do), in `SdmaProofs`.

| theorem | states | hypothesis |
|---|---|---|
| `SdmaTypeCorrect` | `Spec => []TypeOK` | |
| `CopyInvCorrect` | the inductive invariant `CopyInv` holds | `Writes = {}` |
| `CopiesInStep` | every copy finds the ring empty and the engine idle | `Writes = {}` |
| `CopiesInOrder` | `Spec => Order!Spec`: every behaviour is one of `DmaOrder` | `Writes = {}` |
| `MixedInvCorrect` | the inductive invariant `MixedInv` holds | `Engines \subseteq {FALSE}` |
| `WritesInMemory` | a write that returns is in memory unless it was out of step | `Engines \subseteq {FALSE}` |

`Writes = {}` is the program as `main` uses it, with copies only. The hypothesis cannot be dropped: `HsaSdmaWrite` computes the
index wrongly, and the third write is lost (run `sdma_write_test`). `Engines \subseteq {FALSE}` leaves out the engine that
reports a packet before it has performed it, which returns from a write that is not in memory yet.

The argument. `InStepInv` says where engine and host are at each `pc`: between calls every index is at the end of what was
built; within a call the engine is at most the one packet behind, which lies whole in the ring, and beyond `CommandSize`
the ring is as it was created. So a copy's poll ends when its own packet has been read, and the step that returns is one of
`DmaOrder`. With writes the indices no longer agree, and `MixedInv` says only what remains: the ring is cut into whole packets
(`PackedInv`), outside a call the engine rests (`IndexInv`), and a write published in step is ahead of the engine, in its
hands, or in memory (`WriteInv`).

### KmtQueue and Startup

For every limit on files, queues and buffers, every set of doorbells and every set of topologies (`StartupAssumption`, `KmtQueueAssumption`), in `StartupProofs`.

| theorem | states |
|---|---|
| `StartupTypeCorrect` | `Spec => []TypeOK` |
| `StartupInvariant` | the inductive invariant `StartupInv` holds |
| `StartupReadyAndOff` | "ready" means device, address space and SDMA queue; "off" means neither device nor SDMA queue |
| `StartupQueuesBacked` | every queue of the driver works on live buffers of its own |
| `StartupDoorbells` | a doorbell rings its own queue |
| `StartupFailsOnlyForWant` | a key fails only for want of descriptors or of banks of the GPU's, a queue only for want of queues |

That the GPU has fewer banks than the CPU is a case of the last because the code reads the GPU's memory banks with the CPU's
count; a key is then not there for any number of descriptors.

The argument. `ControlInv` gives for each position in the start-up what is open and which tables are filled in; `LeakInv`
counts the files each loop has left open so far, from the start-ups behind it and the turns done, so that a failing `open` can be
traced to the limit; `TableInv` says that the buffers and doorbells of the queues the program knows are those of the driver's
queues and that no buffer belongs to two, because numbers are never given twice; `SdmaInv` that there is one SDMA queue from the end
of a start-up to the tear-down.

### KmtEvent

For every number of slots and every stride (`KmtEventAssumption`), in `KmtEventProofs`, without hypotheses.

| theorem | states |
|---|---|
| `EventTypeCorrect` | `Spec => []TypeOK`, with which thread and driver agree on the events there are |
| `EventInvCorrect` | the inductive invariant `EventInv` holds |
| `WaitsCompleteIfTold` | a wait completes only for an event signalled since a wait last took it |
| `SignalsLostBehindFirstSlot` | no set is lost, and no signal of the GPU in the first slot |

The argument. `TypeOK` is inductive with `PageInv`, that there is no event without the page. `ToldInv` is the history and the
driver's flag in both directions: an event is signalled only if someone told so, and what the thread told, or the GPU in the
first slot, is still signalled.

### VectorAdd and Loader

For every code object, however many segments and symbols it has, every set of grids and every place of the allocation
(`LoaderAssumption`, `VectorAddAssumption`), in `VectorAddProofs`, without further hypotheses.

| theorem | states |
|---|---|
| `VectorTypeCorrect` | `Spec => []TypeOK`: types, and that no segment and no argument passes the end of its memory |
| `VectorInvCorrect` | the inductive invariant `VectorInv` holds |
| `CodeLoadedAsLinked` | every byte of a loaded object is where the object has it, and the rest is zero |
| `KernelFound` | the address of the one kernel of an object that starts a segment is where its code is |
| `RunInvCorrect` | the inductive invariant `RunInv` holds |
| `ResultRightUnlessEarly` | the result is the sum, and no buffer is touched once freed, unless the kernel was at work when the sum was copied |

The argument. `PlaceInv` says which step of the program the loader belongs to, `LoadInv` where its loops are and how much memory it
has, `ImageInv` that the host's image holds, at each place, the byte of the segment laid there so far, if there is one. Segments
laid later do not disturb it because an object's segments are apart, any two of them and not only neighbours: `ObjectParts`
shows that from the least segment at which it would fail. `KernelInv` says which address has been found. `KernelFound` needs an
object with one kernel at the start of a segment (`Plain`), for the code keeps the last kernel it meets and adds a distance to
the start of a segment. `RunInv` is about the launch: `DispatchInv` says what packet and arguments hold once they are filled in,
`ResultInv` that the buffers are there until the result has been printed and that the copies are what was copied, `SumInv` that
a work-group through with its work has the sum of its own elements in its place; the kernel is over when the sum is copied back,
or `early` says that it is not.

### CodeLoad, HsaCode and ElfImage

For every alignment, size and number of kernels, data and segments (`HsaCodeAssumption`, `LoaderAssumption`), in
`CodeLoadProofs`. The last has a hypothesis of its own, the others none.

| theorem | states |
|---|---|
| `CodeTypeCorrect` | `Spec => []TypeOK` |
| `LoaderCanRely` | a code object built and frozen here is one that the loader can rely on |
| `LoadFailsOnlyForLack` | loading crashes only for want of a segment or version or over a kernel's symbol in a section without bits, and misses a kernel only where the first one's section is of data, has no code, or is one of two for code |
| `EntryCorrect` | the address found holds the last kernel's first word, if its code is first in a segment of its own |
| `TidyCorrect` | with alignments that nest, the sections of a tidy segment are at their addresses, and zero without bits |

`LoaderCanRely` is what `LoaderAssumption` takes for granted of the objects the program is given, so it discharges for the
objects built here the hypothesis of the theorems about `VectorAdd`.

The argument. `ImageOK` says what an image is at all times: segments and symbols name sections there are, and a section with data
has no memory size of its own. Every method of `AmdHsaCode` keeps it, each in a lemma.
Writing the image lays its sections and segments one after the other, which `HsaCode` and `ElfImage` say with recursive
functions. That these exist, and that each of their values is where the one before it ends, is an induction up to a bound
(`InductionUpTo`, `RecursionUpTo` of `LeastNumber`, which rest on the least number for which the claim fails). From it: in a
section, and so in a segment, no more bytes are in the file than in memory, and the segments are in line. What the reader takes
from the file is then all segments once, or nothing (`OfTypesPrefix`), and nothing the loader does changes the object.

For `LoadFailsOnlyForLack` the image is followed through the symbols too. `Placed`: a section for code that was added to has room
for a kernel's header, and if it is the only one, the header of each kernel with its symbol there lies in it whole; each method is
shown to leave the sections for code and the kernels' symbols alone (`Kept`, `KernelsFrom`), or to put the code where it says. So
the first kernel, if its symbol is there, is not lost in reading (`KernelPulled`, which rests on `OfTypesHas`, an induction up to
the number of symbols), and `LoaderInv` says that the loader has an address from the first kernel it meets on, and what a crash
comes from.

For `EntryCorrect` the invariant is the conjunction `CodeLoadInv`. `ListedOnce`, a part of `ImageOK`, has no section in two
segments; `FileInOrder`, a part of `CodeInv`, has the sections one behind the other in the file, so that a byte of a section is
at one place of it (`InFileIs`). `ContentsInv` says what the loader's memory holds while it goes through the segments: the bytes
of those it has been to, and zero elsewhere. As they do not overlap (`LoaderCanRely`), a byte of a segment ends up at its
address (`OnGpuIs`). `KernelInv` says that the address is that of the segment found for the last kernel looked at, which is the
last of the image (`LastKernelGiven`).

For `TidyCorrect`, `OneBss` has at most one section without bits in a segment, so there are none but the last. `TidyInStep`
shows by induction along a segment that each of its other sections is as far behind the first in the file as it is in memory:
`SegmentPush` rounds a sum up from 0 and `Offsets` one from the place of the first section. The two agree where the first
place is a multiple of every later alignment, and that is what `AlignmentsNest` gives: of two alignments the larger is a
multiple of the smaller. Powers of two nest, and `alignUp` asserts them (`libamdhsacode/amd_hsa_code_util.hpp:182`). With
alignments 3 and then 2 the theorem would be false.

## 6. What is only model-checked, and what is not modelled

- All liveness is checked only, as temporal proofs with fairness are out of the prover's reach.
- Every safety invariant of a run that passes is a theorem. What the runs show that end in a violation needs no proof.
- Of `libamdhsacode`, string and debug sections, section and block symbols, notes other than the version, the manager, files,
  `GetInfo` and all printing are left out; so are sections that are no data, code or descriptors, or whose flags the caller makes up
  (`AddDataSection`). A symbol made by `AddExecutableSymbol` is of the kernel's type, one made by `AddVariableSymbol` for a section of
  data. Relocations are recorded as sections, since nothing applies them. Objects that were
  not built by it, among them all of version 2, are the business of `VectorAdd`'s given objects. `include/` has no code.
- `kmttest/example`, `KmtTest.cpp`, `AqlQueue.cpp` and `HsaMemoryBuffer` are clients of libraries that are not in the repository,
  or disabled. `src-bck` and `src-old` are superseded and were read only for what they say of the intent.
- Sizes of copies at or above the one the assert refuses are modelled by the refusal; a size of 0 is not, as no caller passes it.
- `build_flush_cmd` and `build_trap_cmd` are never called. Reading the code object's file is I/O.
- `CopySplit` leaves out surfaces within `TWO_MEG` of 2^32 bytes, for which the rounded-up count wraps to 0; the parameter is an
  `unsigned int` and no caller comes near.

Other disagreements of code and comment that are plain from the lines and have no run:

- `src/memory.cpp:185` sets the result of `AMDKFD_IOC_ACQUIRE_VM` to 0 before line 186 asserts that it is 0. `Startup` lets the
  call fail and the start-up go on.
- `src/queue.cpp:160-162` frees a destroyed queue's buffers in comments. `KmtQueue` leaves them allocated.
- `kmttest/BaseQueue.cpp:175` asserts that there is room for a packet in a comment. `RingQueue` has a caller that keeps to it and
  one that does not ask.
- `kmttest/SDMAQueue.cpp:81-84` drops the timeout its caller asks for. In `RingQueue` every wait has the same.

## 7. Plan

Done, in this order: `KmtMemory` with `GpuBuffers` and all its proofs, as everything else stands on it; `Sdma` with
`DmaOrder`; events, queues and start-up; loader and program; the test queue and packets; the code objects; the proofs about
`RingQueue`, `Sdma`, `KmtEvent`, `Startup` and `VectorAdd`; that the packets of `CopySplit` carry their surface; that the loader
can rely on what `CodeLoad` builds, when it fails, and that it puts what is tidy in its place and finds the kernel.

To model next:

- `Sdma` with both functions in one refinement, for histories in which the engine stays in step.
- `KmtMemory` under a caller that keeps addresses after freeing them, as `HsaFreeMem` does not look at what it is given.
- The program's allocations in `Startup`'s table of buffers: `main` needs 18 of 32 slots, a second run of the same calls does not fit.
- A second dispatch of the compute queue (`write_dispatch_id` is never advanced).
