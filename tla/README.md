# BlightOS in TLA+

TLA+ models of the BlightOS kernel (`src/kernel/src`), the TLC runs that check
them on small instances and the proofs that hold for every instance. Paths
below are relative to `src/kernel/src` unless they start with `programs/`.

The models follow the x86_64 build (`config.mk`), release profile with
`panic = "abort"` and wrapping arithmetic, round-robin scheduling with a 200 us
quantum (`kernel.rs:169,187`).

## 1. The system

BlightOS is a small preemptive SMP kernel with user programs. Every CPU runs
its own scheduler over its own pool of tasks; CPUs share a few maps and lists
under spinlocks and talk through a queue of inter-processor messages (IPMs)
that a *worker* task of each CPU polls. There is no inter-processor interrupt.

| Component | Source | State | Operations | Talks to |
|---|---|---|---|---|
| Spinlock, preemption guard | `util.rs`, `sched/mod.rs:1053` | a flag per lock; IF per context | `lock`, `try_lock`, drop; `Preemption::lock`, drop | everything |
| Scheduler | `sched/mod.rs`, `sched/sched_rr.rs` | per CPU: `TASK_POOL`, run queue, `CURR_TID`; shared: `TID_CPU_MAP`, `MSG_QUEUE`, `LOAD_BALANCER`, `NEXT_TASK_ID`; `WaitChannel` lists | spawn, join, block, wake, sleep, exit, migrate, preempt; wait, signal; the worker's bury, move and message steps | timer, drivers, system calls, processes |
| Physical memory | `mem/phys.rs` | frame bitmap and count | `init`, `alloc*`, `free*` | heap, processes, drivers |
| Kernel heap | `mem/heap.rs` | per size class a chain of descriptor pages, a bitmap per cluster | alloc, free | frames |
| Processes | `mem/virt.rs` | `PROCESSES`: address space, tasks, file descriptors; `NEXT_PID` | spawn, launch, attach and drop tasks, move, resize the heap, page faults; add, get, remove files | scheduler, frames, files |
| MMU | `arch/x86_64/mmu.rs` | page tables, kernel mapping slots | map, unmap, copy, enter, drop | processes |
| Traps, CPUs, timer | `arch/x86_64/stub.rs`, `boot.S`, `systimer.rs` | contexts, IF, gates | interrupt and system-call entry, context switch | scheduler |
| Storage | `drivers/storage/*` | per drive: request, submitted and completed queues; a one-buffer cache | issue, interrupt, drive worker; buffered read/write | scheduler, file systems |
| File systems | `fs/*` | mount points, volumes, open files, a shared count per File | mount; open, clone, read, seek, enumerate, close, drop | storage, processes |
| Input | `drivers/input/*` | event rings, last key code, wait channels | push (interrupt), read, wait | scheduler |
| Window system | `drivers/gui.rs` | `WIN_LIST`, redraw rectangles, focus | create, update, destroy, draw | processes, frames, input |
| Audio | `drivers/audio/*` | stream buffers | set format, write, interrupt | scheduler |
| Run-time library | `programs/rtlib/*` | a program's heap; a File's descriptor and offsets | alloc, free, release; open, read, seek, close; wrappers of system calls | kernel |
| Programs | `programs/*` | widgets, games | | run-time library |

What is hard here: the timer interrupt between any two instructions with IF
set; system calls that run with IF = 0 until they block; blocks and unblocks
that cross between CPUs by message; tasks that die or migrate while others
look them up; interrupt handlers that signal; guards that are dropped by the
statement that takes them (`let _ = Preemption::lock()`), so that code that
looks protected is not. `PROJECT.json` lists the hazards line by line with the
properties that cover each, and says why where none does.

What makes each component correct:

* locks: one holder; a holder is not interrupted or preempted; interrupts
  come back as they were; every lock taken is released;
* scheduler: a task is in one place, at most once in a queue; no wake-up is
  lost; join returns after the target's death only; answers reach the call
  that asked; the dead stay dead and are buried; sleepers wake; counts agree;
* frames: no frame has two owners; the kernel's frames never leave; the count
  is the bitmap's; an out-of-memory answer is true;
* heaps: objects are disjoint, nothing is lost, the hints that make a search
  short are true, coalescing keeps the blocks a tiling;
* processes: image, heap and stacks keep apart; a frame has one use; memory is
  given back once, when the main task is dropped; lock order;
* files: a descriptor names the same file until closed; the driver's handle is
  open exactly as long as an instance of the File exists; a path, a listing
  and a read give what is on the disk;
* storage: each request is completed once and its caller woken; the buffer
  holds what the disk has at the address it claims;
* windows: a block of window memory is free or one window's; an update is
  drawn.

## 2. Modules

| Module | What it is |
|---|---|
| `LockOwner` | abstract: each lock has one owner or none |
| `Spinlock` | `util.rs` spinlocks and the preemption guard, machine step by machine step |
| `SpinlockProofs` | theorems about `Spinlock` |
| `WaitQueue` | abstract: waiters are let go one by one, in order, and do return |
| `Sched` | the scheduler |
| `SchedProofs` | theorems about `Sched`: one home |
| `SchedWakeProofs` | theorems about `Sched`: blocks and unblocks, and what follows |
| `Frames` | abstract: frames move between free and the owners |
| `PhysMem` | `mem/phys.rs` |
| `IoService` | abstract: every request is answered once, in the end |
| `Storage` | buffered and synchronous disk reads, the AHCI driver and the registers it shares with the HBA |
| `StorageProofs` | theorems about `Storage` |
| `Arena` | abstract: objects in memory, disjoint, each its holder's until freed |
| `Kalloc` | `mem/heap.rs` |
| `MemoryProofs` | theorems about `PhysMem` and `Kalloc` |
| `Process` | `mem/virt.rs` with the page tables of `arch/x86_64/mmu.rs` and the launchers of `kernel.rs` |
| `ProcessProofs` | theorems about `Process` |
| `Files` | File objects and descriptors (`fs/mod.rs`, `mem/virt.rs`, `kernel.rs`), handles of FAT files and of windows (`drivers/gui.rs`) |
| `FilesProofs` | theorems about `Files` |
| `UserHeap` | `programs/rtlib/src/heap.rs` |
| `UserHeapProofs` | theorems about `UserHeap` |
| `Fat` | `fs/gpt.rs`, `fs/fat/mod.rs`, and the loops that read a file |
| `MC*` | values for TLC |

How they fit: `PhysMem` (its `bitmap`) is the detailed model of the set `free` in `Kalloc`,
`Process` and `Files`; `Spinlock` of the locks under which `Kalloc`, `Process`
and `UserHeap` take an operation as one step; `Sched` of the tasks that die and
are dropped later in `Process` and `Files`, and of the block and wake of
`Storage`; `Storage` of the disk that `Fat` reads as a sequence of bytes;
`Files` of the descriptors that `Fat` leaves out; `Process` of the growth that
`UserHeap` asks for.

### Spinlock

A *context* is a task or the interrupt handler of a CPU. `ie[x]` is RFLAGS.IF:
the live flag while `x` runs, the saved one while it does not. `pc[x]` is the
place in `lock`, `try_lock` or `drop`: `code` (outside), `swap` (IF cleared,
before the atomic swap), `spin` (the load loop), `reenable` (flag stored, IF
not yet restored). One action per machine step:

| Action | Code |
|---|---|
| `Call`, `ClearIF` | save IF, clear it (`util.rs:288-289`) |
| `SwapTakes`, `SwapFails` | the swap and what follows each answer (`290-293`, `304-310`) |
| `SpinEnds` | the load sees FALSE; back to the loop's top |
| `DropStore`, `DropRestore` | the two halves of `drop` (`314-319`) |
| `PreemptionLock/Drop` | `sched/mod.rs:1053-1069` |
| `SyscallEnter/Exit`, `IrqEnter/Exit` | the gates: IF = 0 inside |
| `TimerIrq`, `Block`, `BlockUnderGuard` | the CPU goes to another of its tasks |

The clients are arbitrary: any nesting of guards, dropped in scope order,
within one assumption about callers: locks are nested by increasing `Rank`, as
the scheduler does (`Files` shows the place that does not). `Sleepers` are the
tasks that call `Task::block` with locks held, as `launch_elf` does; the code
has no check against it, only two comments that it must not happen
(`sched/mod.rs:9` and `370`). The run and the theorems are for
`Sleepers = {}`; `MCSpinlockSleep.cfg` has one.

### Sched

A step is what runs between two places where someone else can get in. `th[t]`
is the thread of task `t` in the kernel: `pc` where it is, `ie` its IF, `back`
where a nested call returns, `obj` and `arg` its locals. Tasks are clients that
make up to `Left[t]` calls from `Calls` in any order and then exit. A task of
`UserTask` makes them as system calls, with IF = 0; others with IF = 1, so that
the timer can hit between all steps. The steps are cut

* at each access of a structure CPUs share (`TID_CPU_MAP`, `MSG_QUEUE`,
  `LOAD_BALANCER`, a channel's list): one access, one step;
* where a guard was dropped at once, so the timer can hit: in `block_task`
  between the count, the state and the queue (`blk_add`, `blk_state`,
  `blk_rem`, `blk_int`), in `unblock_task` (`ub_map`, `ub_cpu`, `ub_ready`,
  `ub_add`), in `create_task` between tid, pool, map, queue, state and load
  count (`cr_new` to `cr_lb`), in `sleep`, and in the worker: between the scan,
  the pool, the load count and the message of a task that leaves (`MoveOut`,
  `MoveUncount`, `MoveSend`), and between the pool and the map for one that
  arrives (`DoMoveTask`, `MoveMap`).

`MoveMap` updates the map and the load count in one step because the code does:
the guard of `TID_CPU_MAP` taken at `sched/mod.rs:872` lives to the end of its
block, so that IF is clear and the map locked until the count is done (`876`).
`known` is history: the tids the map ever had, which are the ones a program can
have been told and may join.

`Timer` is the interrupt and `preempt_irq`; `Scan` to `Halt` are the worker:
bury one dead task and wake its joiners, send off one migrating task, fetch
this CPU's messages, answer them one by one, halt. A driver that completes
synchronous requests is `Io` and `Serve`; a wait channel is `Wait`, `Signal`
and the keyboard's interrupt handler (`IrqEnter`, `IrqSignalPop`, `IrqExit`).
A failed `expect` or a store through a freed task sets `fault` and stops the
model.

### PhysMem

`boot` is `init`'s arguments; `bitmap` the set of frames whose bit is 1;
`free_frames` the count kept beside it; `granted` who was given what; `res` the
last call's answer. `PhysInit` is the whole of `PhysMem::init`: the last available
address, the bitmap's place and size behind the kernel, the entries rounded to
frames, reserved entries, the red zone and the module taken out. Each
allocation is one action (the code holds the bitmap's lock throughout):
`alloc_frames` upwards, `alloc_high_frames` downwards, `alloc_continuous`;
`free_held` gives back what the caller has, `free_foreign` is a free of an
address nobody holds: a double free, the kernel, or beyond RAM.

Two things the model shows about rounding, at unaligned map entries (maps 2
and 3 of the run have them): the base is rounded up and the entry's whole
length added, so a frame beyond an available entry may become free
(`phys.rs:206`), and the first frame a reserved entry overlaps is not reserved
(`phys.rs:220`, although the comment at 216 reads "Mark any unavailable memory
that overlaps the free memory as used"). Firmware entries are page-aligned in
practice. `kernel.rs:138` passes no module to `init`; map 2 has one because
`init` takes it.

### Storage

`setup` is the machine: whether the driver polls (`irq_enabled` false), which
drive a task uses. `cl[c]` is a task with its `BufferedDiskIO` (`first_lba`,
`sec_count`; what the buffer really holds is `buf[c]`, changed by the HBA) and
the request it waits for. `request_queue`, `submitted_queue`,
`completed_queue` and `answers` (`REQID_IOREQ_MAP`) are the code's; `wk[d]` is
a drive's worker with its loop counter; `irq` the locals of `irq_handler`,
which the interrupt or a polling worker calls.

| Action | Code |
|---|---|
| `ReadHit`, `ReadMiss` | `BufferedDiskIO::read` with `fetch_from` (`storage/mod.rs:184-256`) |
| `SubmitSync`, `Collect` | `submit_sync_io` before and after the request |
| `Push`, `GoOn` | `issue_io` (`ahci.rs:544-576`): into the queue; `Task::block` returns |
| `CountRequests` to `Wake` | `drive_worker` (`626-675`), one critical section each; `Submit` and `Issue` are the two halves of one, around the wait for the drive |
| `IrqEnter`, `Look`, `Drain`, `IrqEnd` | `irq_handler` (`581-622`), cut at its register accesses |
| `Complete` | the HBA: data, CI, port IS, HBA IS, and an edge if HBA IS was 0 |

`Task::block` and `Task::wake` are a count of wake-ups (`permit`), what
`Sched` shows them to be when no timer splits them. The wait for the drive
(`port_wait_while_busy` reads TFD) is a wait for CI to be clear. The HBA is
assumed to have read the command table by the time CI is set, as slot 0's
table is rewritten before that wait.

The model shows that a window reaching beyond the disk's end is refused by
`issue_io`, that `fetch_from` does not look at the refusal, and that `read`
then returns the zeroed buffer as data: reads in a disk's last seven sectors.
`ReadsTrue` is about all others.

### Kalloc

Memory is counted in units of the smallest object (64 bytes); `root[c]` is the
chain of descriptor pages of class `c`, `cdp` what is in each page: its
descriptors (`base`, and `au`, the set of bits that are 1) and the two hints
that the code keeps in the page's low bytes, `count` and `first`. One action
per call, since `KALLOC_ROOT` is held throughout.

| Action | Code |
|---|---|
| `Alloc` | `tlsf_alloc` and `cluster_search_alloc` (`heap.rs:415-518`): first page with room or a new one before the head, descriptor by the hint, a cluster if it has none, lowest unit, hints; two panics |
| `AllocLarge`, `FreeLarge` | whole frames (`155-184`) |
| `Free` | `tlsf_free`, `cluster_search_free`, `cluster_free` (`439-611`): the descriptor by its address range, the bit by division, hints, the cluster given up when empty; descriptor pages are kept |

Seen while modelling: objects of at most one class whose alignment is above 64
bytes are allocated as whole frames, but `dealloc` goes by their size and only
logs that they are not found, so they are lost (the kernel has no such type);
the comment on `free_desc_index` (`47`) calls it the *first* descriptor with a
free unit, which holds of the page's descriptors after an allocation but not
after every free; what holds, and what `alloc` needs, is that it has one.

### Process

Memory is counted in pages of user space. `procs` is `PROCESSES`; an address
space has its `children` (UserTask), `top`, `base`, `heap`, `map` (page to
frame) and `tables` (page-table frames). `task[t]` is where a task is: in a
launcher, in user mode, dead, gone. `PROCESSES` is held through each operation,
so each is one step; what interleaves are tasks.

| Action | Code |
|---|---|
| `Spawn` | `syscall_proc_control`: `AddressSpace::spawn` and the launcher's task, or tid 0 if there is none (`kernel.rs:663-688`) |
| `LaunchElf` | `launch_elf` with `attach_task` (`virt.rs:216-318`, `370-410`), failing at each allocation; the launcher then exits |
| `SpawnTask`, `MoveToProcess` | a further task of a process and its launcher (`kernel.rs:425-465`, `virt.rs:334-364`) |
| `ResizeHeap` | `Grow`, `Shrink` (`virt.rs:458-510`) |
| `PageFault` | `handle_page_fault` with `expand_stack` (`515-648`): more stack, or the task is ended |
| `Exit`, `TaskDropped` | `task_exited`, and `task_dropped` from the worker's drop of the Task (`414-449`); `Released` is the page tables' drop (`mmu.rs:691-743`) |

What the model shows of the code, all within the properties as stated:

* the drop gives back pages above `MIN_VIRTUAL_USER` only (`mmu.rs:715`, `>`):
  the first page of each image is lost, one frame per process that ends;
* `task_dropped` of the main task removes the process, although its comment
  (`virt.rs:101-102`) says "the process (and other child tasks)": other tasks
  run on over page tables that were given back, and their next `add_file`
  panics with "Process not found!";
* a launch that fails after its image was mapped gives back frames that stay
  mapped, and the process stays in the table for ever, with its page tables;
* a stack's range is not used again after its task; the range checks of
  `attach_task` refuse tasks in the end although there is room.

`OwnMemory` therefore speaks of processes in the table, and of the pages of
launched ones. `FramesConserved` says that while processes live and no launch
fails, the frames that are neither free nor in use stay the same, whatever
else goes on: every other step exchanges frames with the allocator one for one.
What the end of a process gives back is `FramesComeBack`, all its frames, as
the comment at `virt.rs:695-697` has it. It is false because of the first item
(`MCProcessDrop.cfg`: spawn, launch, a page fault that ends the only task, its
drop), and it is in no run.

### Files

`file` are the File objects ever opened, with the `count` their clones share;
`procs[p]` the vector of a process, `held[p]` what its programs believe their
descriptors to be; `open_files` and `wins` the drivers' handles; `pc[a]` where
a task, or the worker that drops dead tasks, is, with the Files it still has to
drop. `plock` and `wlock` are the holders of `PROCESSES` and `WIN_LIST` where
one is held while another lock is waited for.

| Action | Code |
|---|---|
| `OpenFat`, `FatOpened` | `File::open` with FAT's `fopen`: a handle, or an error and the drop of a File with handle 0 |
| `OpenWindow`, `CreateWindow`, `MapWindow` | `create_window` under `WIN_LIST`: memory, then `dmap` under `PROCESSES` |
| `AddFile`, `GetFile`, `Use` | descriptors; a read or write holds a clone meanwhile |
| `Close`, `DropFile`, `CloseFat`, `DestroyWindow`, `UpdateScreen` | `remove_file` under `PROCESSES`, and what the drop of the last instance does |
| `Exit`, `DropProcess` | the end of a task; all files of a process dropped under `PROCESSES` |

Seen: the two locks are taken in both orders (`CreateWindow` holds `WIN_LIST`
and `MapWindow` waits for `PROCESSES`; `Close` holds `PROCESSES` and
`DestroyWindow` waits for `WIN_LIST`), and the model reaches the cycle. A failed
`fopen` closes FAT handle 0, which nobody has after boot. `destroy_window` has
its `dunmap` commented out (`gui.rs:131`, "BUG:"), so that a closed window's
memory stays mapped in the program, also when it is the memory of another
program's window by then: `WindowPrivate` is false (`MCFilesStale.cfg`: a window
is opened, closed, and one opened by another process). `BlocksAccounted` is
what is true beside that: each block is free, in the making or one window's,
and whoever has a window open has its block mapped. `get_window` always fails
(`gui.rs:348`).

### UserHeap

Units of 8 bytes, the header's size. `block` are the headers, `list` the free
list, `held` the program's objects. `Alloc` is `alloc` with its growth,
`Refuse` the kernel's refusal of it, at which the library panics (`heap.rs:607`)
although the docs of `alloc` say that it returns null; `Free` merges with right
and left neighbours; `Release` is `release_unused_memory`. Alignments above 8
only round the size, the address is not aligned; a double free is told by the
header's bit alone, so the model frees what the program holds.

### Fat

The disk is a sequence of bytes, with names of two characters and one (`Box` is
the one that stands for "BOX", a program's extension). `Mount`
is a walk through the partition table (`gpt.rs`) and `FATVolume::mount`; `Open`
is `fopen` with path walk, entry matching (`sfn_match`), the FAT entries of all
three widths and the chain; `Enum` a listing; `Read` and `Fread` the loop of
rtlib's `File::read` over system calls; `Seek`; `Load` and `LoadChunk` the loop
that loads a segment of a program. `MCFat` formats the disks and keeps beside
each the tree of all files it put there, with their attributes; the properties
compare with that tree. `PathsLead`: what opens is the file at that path, opened in a
mode it permits. `ListsTrue`: a listing shows no file that is not there, none
twice, each with its kind and size, and leaves out none that can be opened.
They are about paths that mean one file (`Clear`). `ListsAll`, that a listing shows all
files, is false in three ways, each with a configuration. What the driver does,
as the model and the code show:

* an entry without extension answers to its name with any extension, `.`
  to `..`; a name of eight characters and an extension is refused; a name of
  more than eleven characters matches by its prefix;
* read-only, hidden, system and volume entries are taken for long names
  (`attr & 0x0F`): neither found nor listed, although `fs/mod.rs:79` says
  "Returns a list of entries in the directory" and `get_directory_entry`
  translates their flags (`MCFatFlags.cfg` refutes `ListsAll`);
* a directory that fills its clusters, without terminator, ends in
  `OutOfBoundIO`, as directories have no size at which a read stops; the branch
  "Hit the end of the directory content" is not reached (`MCFatFull.cfg`);
* a FAT12/16 root area longer than a cluster is read from its first cluster
  again and again (`MCFatRoot.cfg`);
* a path through a regular file opens that file; an empty name ends the path;
  `..` to a FAT32 root has no clusters;
* clusters larger than the buffer of 4096 bytes fail with `NotIssued` for long
  reads, after shorter ones moved the offset;
* an unused GPT entry hides all that follow, as the offset moves on used ones
  only;
* a seek behind the end is refused by the kernel, a read there wraps the
  rest's length in rtlib and is refused then.

A chain with a cycle (a broken volume) does not end in the code; the disks have
none. The 16-bit `root_ent_count` arithmetic is not modelled.

## 3. Runs

| Run | Instance | Shows |
|---|---|---|
| `spinlock` | 2 CPUs, 3 tasks, 1 handler, 2 locks; t1 two guards, the others one | `TypeOK`, `MutualExclusion`, `HolderKeepsCpu`, `InterruptsRestored`, `ImplementsOwner`, `LockReleased` (21,680 states) |
| `sched_wait` | 2 CPUs, workers, a kernel and a user task, two calls each, one keyboard signal | `NoTaskLost`, `QueueSound`, `ImplementsWaitQueue` with liveness (40,214 states) |
| `sched_user` | 1 CPU, worker, two user tasks and one they may create | `LoadExact`, `DeadAreDropped`, `SleepersWake` (34,518 states) |
| `sched_full` | 2 CPUs, workers, a kernel task and a user task it may create, all calls that cross CPUs | `OneHome`, `JoinedIsDead`, `AnswersMatch` (905,911 states) |
| `physmem` | nine frames, three memory maps, two owners, sizes 1 to 3 | `TypeOK`, `CountExact`, `NoFrameShared`, `KernelKeptOut`, `OomIsTrue`, `ImplementsFrames` (22,282 states) |
| `storage` | a disk of six sectors, windows of two; two tasks call once on two polled drives or on one, polled or interrupted, or one calls two or three times | `RequestOnce`, `ReadsTrue`, `AnswerIsOwn`, `ImplementsIoService`, with liveness where each drive has one caller (254,489 states) |
| `kalloc` | five frames of three units, two descriptors a page, objects of one, two and four units | `HintsSound`, `MemoryAccounted`, `ImplementsArena` (108,617 states) |
| `process` | two processes, four tasks, eight user pages, thirteen frames | `LayoutSound`, `OwnMemory`, `FramesConserved` (795,974 states) |
| `files` | two processes, a second task in one, the worker; memory for two windows, three opens | `HandlesExact`, `BlocksAccounted` (2,277,916 states) |
| `files_shift` | the same | `DescriptorsKept` violated |
| `uheap` | growths of six units, a heap of at most eighteen, objects of 0, 1, 3 and 7, two alignments | `HeapSound` (282,229 states) |
| `fat` | two disks: FAT12 and FAT32 volumes; FAT16 with large clusters; directories and files in several clusters out of order, deleted and long-name entries | `PathsLead`, `ListsTrue`, `ReadsFile` (18,062 states) |

Bounds. `MaxOps`, `Left` and `MaxOpens` bound calls per actor, `MaxTid` and
`MaxPid` the ids handed out, `MaxIrqs` the handler's signals, `Sizes`, `Aligns`,
`Images`, `Deltas`, `Buffers` and `Moves` the arguments, `MaxHeap` what the
kernel grants. Each is large enough that two actors meet inside of every
multi-step operation, or that a resource runs out in every operation that takes
it: `kalloc` fills a page of descriptors and chains a second, has clusters
across a frame's edge, and ends at every allocation; two processes at their
largest want more than thirteen frames, and three stacks or two and a heap
fill a process; `files` has a window fewer than opens; `uheap` grows three
times. The four tasks of `process` are symmetric.

No deadlock check where the system may stop: `sched_full`, `kalloc`, `process`
(a panic, or nobody left), `files` and `files_shift` (all opens used, a panic,
and the lock cycle above), `uheap` (the program's panic), `fat` (no volume is
mounted). All others have it on.

`storage` has machines with one caller per drive and machines with two tasks on
one drive. In the latter requests get lost (below), so that the liveness of
`IoService` is asked of the former only (`OneCaller`); the safety of its
refinement and the other properties hold in both. It has one drive in use when the HBA
interrupts: the line is programmed edge-triggered (`ahci.rs:129`), and an event
of another drive between the handler's look at its port and the write to HBA IS
(621) may raise no edge.
A client reads inside a window, across its end, before it, and at the disk's
end; it writes (refused) and asks for too many sectors (refused).

Fairness. `Spinlock`: a context that keeps getting the CPU executes its next
instruction and leaves its critical sections and system calls (strong, since
preemption disables it now and then); the round-robin timer gives each task of
a CPU its turn; a handler returns. Nobody has to take a lock. `Sched`: a task
makes its next kernel step in one of its quanta (strong), the timer fires
while IF is set, a handler ends, time passes. Nobody has to make a call. `Storage`:
tasks and workers go on (strong: `AHCI_BUS` is a spinlock), drives finish what
they were given, a pending interrupt is taken. The
code justifies it: `next_task` rotates the queue and a quantum is far longer
than a step. That who waits for a lock gets it is not claimed: the spinlock is
unfair, and a waiter can starve behind others that take it again and again.
The other modules state safety only.

### Disagreements with what the code says of itself

1. Descriptors (`files_shift`): `remove_file` takes the File out of the vector,
   so every later descriptor of the process denotes the next file, or none.
2. `launch_elf` reads the disk, thus blocks, holding `PROCESSES`
   (`virt.rs:217-270`), against `sched/mod.rs:9` and `370`: a task that takes
   that lock meanwhile spins with interrupts off, and if it does so on the CPU
   of the holder, neither of them runs again.
3. `let _ = Preemption::lock()` drops the guard at the end of the statement
   (`let _guard = ...` keeps it; `WaitChannel::wait`, which does so, has no such
   race: `sched_wait`). So with IF set an unblock in the middle of `block_task`
   loses the task (`sched/mod.rs:687`), a child can exit before its creator
   stores `Ready` and is revived (`571`), and a migrating task can leave its
   pool while still queued, at which the scheduler panics (`409`). That no
   `expect` of the scheduler fails without migration, and that no task is lost
   which blocks in wait channels only, are theorems.
4. The AHCI handler drops requests that are still at the drive (`ahci.rs:602`),
   although the comments on `AHCIDrive` keep a request in the submitted queue
   until it has completed: with two tasks on one drive, one of them may never
   be woken.
5. The drop of an address space "releases any physical frames"
   (`virt.rs:695-697`), but for the one of the image's first page.
6. The memory of a closed window stays mapped in its program (`gui.rs:131`).
7. "Returns a list of entries in the directory" (`fs/mod.rs:79`): not of all, in
   the three ways listed with `Fat`.

`files_shift` is the run of the first. The others are refuted by hand, with
`tlc -config <file> <module>`; TLC stops at a counterexample within seconds:

| Configuration | Module | Refuted | The instance |
|---|---|---|---|
| `MCSpinlockSleep.cfg` | `MCSpinlock` | `HolderKeepsCpu` (2; also `LockReleased`, if put in its place) | that of `spinlock`, t1 a sleeper |
| `MCSchedPanic.cfg` | `MCSchedFull` | `NoPanic` (3, line 409) | that of `sched_full` |
| `MCSchedDead.cfg` | `MCSchedFull` | `DeadStaysDead` (3, line 571) | that of `sched_full` |
| `MCStorageLost.cfg` | `MCStorage` | `NoRequestLost` (4) | two tasks on one drive |
| `MCProcessDrop.cfg` | `MCProcess` | `FramesComeBack` (5) | that of `process` |
| `MCFilesStale.cfg` | `MCFiles` | `WindowPrivate` (6) | that of `files` |
| `MCFatFlags.cfg`, `MCFatRoot.cfg`, `MCFatFull.cfg` | `MCFat` | `ListsAll` (7) | a disk with flagged files; with a root area of two clusters; with a directory that fills its cluster |

`NoTaskLost` is refuted (3, line 687) when it is put into `MCSchedUser.cfg`.

## 4. Proofs

`SpinlockProofs`, for any CPUs, tasks, handlers, locks and number of guards,
under `SpinlockAssumption` (contexts are pinned to a CPU, each has a task, at
most one handler per CPU, names are distinct, ranks are numbers):
`TypeCorrect`, `LockExcludes`, `OwnerKeepsCpu`, `InterruptsGivenBack` and
`Refinement` (to `LockOwner`), all with the hypothesis `NobodySleeps`
(`Sleepers = {}`), which disagreement 2 shows to be needed. Mutual exclusion is not inductive by itself:
`SwapTakes` needs to know that a flag that is down has no holder, so `FlagUp`
(up exactly while a guard protects the lock); `DropStore` of one context must
not uncover another, which is `MutualExclusion` itself; that a holder is never
switched away needs `OwnerRuns` and `Masked` (IF is clear under guards and
inside `lock` and `drop`), and `Masked` needs `Nested`: of a stack of guards
only the outermost may give interrupts back. `ThreadIF` and `IrqIF` carry the
saved flags. `IInv` is their conjunction; each action has a lemma.

`MemoryProofs`, on `PhysMem`, for every frame size of at least 2, every set of memory maps,
owners and request sizes, under `PhysMemAssumption` (the map has a last
available entry that is not empty, entries and the kernel's range are
numbers): `TypeCorrect`, `CountIsExact`, `NothingShared`, `KernelIsSafe` and
`PhysRefinement` (to `Frames`). The strengthening is `AllValid`: every free or
held frame passes `is_valid`, because then a frame that is given back is
really marked, and one that the check refuses was never anybody's. The base
case is arithmetic on rounding: an aligned end of the red zone makes the frames
that `mark_continuous` marks and those `is_valid` refuses the same
(`RedZoneMarked`), and marked frames lie in RAM (`EntryInRam`). `OutOfMemoryIsTrue` follows in two facts: the count is
exact, so a request it refuses is one that no scan can serve, and valid frames
are within the scan of `alloc_high_frames`, so that it never runs below frame 0.

`MemoryProofs`, on `Kalloc`, for any set of frames, units per frame (at least 2, so that
a class is more than one unit), descriptors per page and set of sizes, under
`KallocAssumption`: `HintsAreSound`, `MemoryIsAccounted` and `Refinement` (to
`Arena`). The hints depend on the page alone (`PagesSound`: `count` is the
number of descriptors with a free unit, `first` has one if any has, a descriptor
without cluster is blank). All about memory is one statement, `Fit(Uses, free)`:
the runs of frames of descriptor pages, clusters and large objects are disjoint
and fill what is not free; `FitAdd` and `FitRemove` are its only two steps, and
`Users` counts frames in terms of it. `ObjectsMarked` ties what callers hold to
the clear bits, `ChainsApart` keeps a page in one chain. A free finds the
descriptor by its address range, which is the right one because ranges are
disjoint: `Fit` again.

`StorageProofs`, for any clients, drives, setups and sizes, under
`StorageAssumption`: `ReadsAreTrue`, `AnswersAreOwn`, `NoneTwice` and
`Refinement` (to the safety part of `IoService`; its liveness is TLC's). `IInv` says of each
drive what is in its queues, in its worker's hand and in its port, each the
request of a client that sleeps and wants it (`PlacesSound`), in one of these
places (`OnePlace`), and what the worker's locals count (`WorkerSound`: the
queue is at least as long as when it was counted); of each client whose
answer is in the map (`AnswersSound`) and what its buffer holds (`BufferSound`).
A read's data is true because a request reaches `completed_queue` only after
the HBA was seen idle: `Got` or `port.ci`, which `Drain` looks at, through the
locals of a handler that read the register before (`BusSound`). `NoneTwice`
(`RequestOnce`), for any number of tasks on a drive, is read off `OnePlace` and
the counts of each place.

`FilesProofs`, for any processes, tasks, windows' memory and number of opens,
under `FilesAssumption` (the main task of a process is at home in it, the
worker is nobody's, memory is finite): `CountsAreExact` and
`WindowMemoryAccounted`. `Counted(f)` says that the count of a File is the
number of its entries in vectors and in hands; the proof needs how one more
or one less entry changes the cardinality of a set of places
(`TallyAppend`, `TallyWithout`, `RowSplit`), with the renumbering that
`remove_file` causes (`Renumbers`). `HandlesSound` (handles are handed out in order,
each to one File or one window in the making) and `ClosesOnce` make
`DriversSound` inductive: what the drivers have open is what lives or is just
being closed. `BlocksSound` and `MapsSound` are the windows' part.

`ProcessProofs`, for any tasks, finite frames, and any sizes of images, heaps,
stacks and regions, under `ProcessAssumption`: `LayoutHolds`, `MemoryIsOwn` and
`MemoryIsConserved`. `IInv` has for each process `KidsSound` (children are the
tasks the scheduler has, each once) and `SpaceSound`: page tables one to one,
and, once it has a main task, pages mapped exactly where `Layout` says (image
and heap below, a stack per child, each in a range of its own of `MaxPages`
below `base` and above `top`), all frames its own. `LauncherSound` says that
a process waits for its first task untouched and that only one launcher has
it. The panic "already mapped" of `map_pages` is excluded on the way
(`stopped # "mapped"`). The proof goes in three layers: what `alloc_high_frames` gives
(`Highest`, `Lowest` and `Kth` by ranks in finite sets of numbers), what
mapping and unmapping a run of pages does to a space, and `ExchangeStep`: a step
that changes one space, taking from `free` what it adds and giving back what
it drops, keeps all the others; then a lemma for each action.
`FramesAccounted` is proved with the step, action by action.

`SchedProofs`, for any CPUs, tasks, calls and interrupts, under
`SchedAssumption` (each CPU has a worker of its own, the tasks of the start have
the first numbers): `TasksHaveOneHome`. That pools are disjoint is not inductive: `DoMoveTask`
inserts the task of a message into a pool, and `DropEnd` clears the map's entry
of a task that left its pool many steps, unblocks and interrupts ago. So `Pools`
says that whoever is in a pool has the map's word for it, unless a thread is
between the pool and the map (`cr_map`, `mv_map`), and no message about it; that
thread is the only one to have the task's new number in hand (`Numbers`), or the
worker of that CPU; `Moves` that a task travels in one message of the shared queue and all the
workers' lists together; `Victims` that what a worker is about to remove or to
send off is still in its pool, and that nobody has what it buries, from
`RemoveDead` until the map forgets it, through every unblock of a joiner in
between (`Buries`). `Threads` says which code a worker and another task may be
in and that nested calls come back to it (`back`), `Served` that a worker
which creates a task still has the message that asked for it. That the worker
stays in its queue needs `Tasks` (a worker neither exits nor migrates) and what
`preempt_irq` and `rem_task` do to a queue (`Rotates`, `RemTaskLeaves`); the split
of the message queue (`Fetch`) and the queue of the start are about `Nth`, which
counts a finite set of numbers (`NthCounts`, from `RanksAreAll`). A step of a
thread that brings no worker to a victim, a burial or a creation (`Steps`) and
sends no `MoveTask` (`Posts`) keeps all of it (`StepKeeps`); the other actions of
the worker have lemmas of their own.

The theorems of `SchedWakeProofs` assume `NoMigration` (no task calls
`migrate_to_cpu`: in the repository only `kernel/src/test.rs:243-249` does) and
rest on `WakesAreAccounted`: as long as the kernel has not stopped, `WInv` holds.
It keeps an account for every task. `Wakers(t)` is where an unblock of `t` is:
in the channel's list, the queue of requests, a target's joiners, what a worker
took from a target, the hands of a thread in `unblock_task`, or a message that
leads to one. `Owed` is the number of unblocks `t` still needs, from its counter
and from where it is in `block_task`. `Ledger` relates the two for every place a
blocked call goes on at: one waker per unblock owed, in one place at a time; for a join on
another CPU also what the answer says and how far target and answer are, since
there the second unblock may overtake the task (a counter of -1). `Body` adds
what the accounts lean on: who is off the run queue and why (`Parked`), who is
in the hands of an unblock (`Hand`, `Brought`), sleepers (`Nap`), that who is gone has
exited (`Fate`), and that a worker's message and victim are what its place says
(`Desk`). One lemma per action shows that one account changes, in one of the
ways of `Ledger*`. From it follow

* `JoinWaitsForTheEnd` (`JoinedIsDead`) and `AnswersAreToTheirQuestions`
  (`AnswersMatch`), which are read off the accounts;
* `OnlyOneWayToStop`: each `expect` of the scheduler finds its task, so that the
  only fault left is the store of `create_task` through a pointer to a task that
  has been removed (disagreement 3);
* `NothingStopsTheKernel` (`NoPanic`), if besides nobody is created or all tasks
  make their calls through the gate (`SpawnersMasked`, as `sched_wait` and
  `sched_user` have it): `Shields` says that the new task stays in its pool from
  `CreateInsert` to the store;
* `WaitChannelIsAQueue`: every step is one of `WaitQueue` or a stutter, the safety
  part of `ImplementsWaitQueue`, for any calls beside those of the channel;
* `QueuesAreSound` (`QueueSound`) and `NoTaskIsLost` (`NoTaskLost`), for tasks that
  block in wait channels only (`OnlyChannelsBlock`: `wait`, `signal`, `sleep` and
  exits; `sched_wait` has the first two), on any number of CPUs. With other calls
  both are false (disagreement 3): a block whose guard is dropped can be
  overtaken by its unblock between two of its steps, and then puts the task in
  the queue twice, or takes it out for good. The invariant is `Settled`. `Masked` says why a
  channel's wait is not overtaken: who blocks has the interrupts off, is the
  current task of its CPU and owes one unblock, and the handler of a CPU is
  there only while they are on. So nobody on the CPU runs between the counter,
  the state and the removal, and an unblock from another CPU has to go through
  the CPU's worker. `Orderly` is `Distinct` (each task once), and for every task
  that only who is dead has exited (`Over`) and that off the queue it is gone,
  being put there or blocked (`Held`). `Modest` says where such tasks may be, from
  which it follows that nobody creates a task and that workers only unblock.

`UserHeapProofs`, for any page, growth, largest heap, sizes and alignments,
under `UserHeapAssumption` (the growth is whole pages and holds a block):
`HeapIsSound`. `IInv` states the same of blocks, list and objects in a form that
steps keep: `Tiled` (each block ends within the heap, where the next begins),
`Listed` (the list is an enumeration of the free blocks), `Apart` (no two free
blocks touch) and `Owned` (objects and used blocks one to one). `Apart` is false
in the middle of `alloc`: the block a growth adds may touch a free one before it.
`ApartBut` names that one place, and the first fit takes just that block, as no
older one was large enough (`GrownSound`, `TakenSound`, `PlaceSound`). For
`free`, `MergedRun` shows that what it merges are all the blocks between two
ends, with no free block beyond either, and `MergedSound` that one block in their
place keeps the tiling. What a sequence keeps when elements are taken out of it
is `KeptKeeps` again.

Model-checked only, and why:

* all liveness (`LockReleased`, `DeadAreDropped`, `SleepersWake`, that of `WaitQueue` and `IoService`): fairness is out of the
  prover's reach;
* `Sched`: `LoadExact` is true of the instance it is checked on and not in
  general (disagreement 3: a revived child has exited and looks alive), and the hypotheses
  on callers that make it true are not worked out as a theorem; what is proved of `NoPanic`, `JoinedIsDead`, `AnswersMatch` and `WaitQueue` is
  under `NoMigration`, while `sched_full` checks the two properties of join and
  answers with migrations;
* `Fat`: it follows a cluster chain with a RECURSIVE operator, and what it
  computes is a matter of induction over data.

## 5. Not modelled, and what comes next

Left out for good: aarch64, eMMC, PCI and machine discovery, console and
framebuffer drawing, the parsing of ELF headers, sound and picture formats, the
programs and widgets: they read tables or draw, and hold no state that two
actors share. Inside the scheduler the FCFS queue (not configured), task names,
and lack of stacks (`Process` has it). Interrupted list and tree operations (a
timer inside `LinkedList` code) are outside: each list operation is one step.
The formatting of listings is outside, and with it `syscall_enum`'s copy of a
listing that is longer than the program's buffer, which panics
(`kernel.rs:911-915`); so are the temporary kernel mappings, whose lock is
dropped by the statement that takes it (`mmu.rs:288`), the redraw requests that
`destroy_window` overwrites (`gui.rs:321`), and the last key code, which is
loaded and cleared in two steps (`drivers/input/mod.rs:293`). The order in which
windows are drawn is outside too: an update draws its window over those in
front of it, as only that window is marked (`gui.rs:380`), although the flag's
comment (`68-70`) says that windows overlapping a changed one are. Of the mouse,
reading the code shows that an event that does not fit into the rest of a
program's buffer is taken from the queue and lost (`drivers/input/mod.rs:179`).

Plan, in order:

1. Proofs: `DeadStaysDead` and `LoadExact` for calls through the gate; the account
   of a task that migrates.
2. `Mmu`: kernel mapping slots without their lock; `Input` and `Audio` rings;
   windows' redraw requests and focus.
3. Composition: `Files` over `Process`, so that a window's memory and a
   process's frames come from one allocator.
