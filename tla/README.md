# A verification of the UNIX V6++ kernel

This directory holds TLA+ specifications of the kernel in
`src/v6++proj/v6++proj` (the copies of the same files under
`src/v6++/oos/src` and `src/buildproj/buildproj/FileSystem` are identical and
are covered by the same models), the TLC configurations that check them, and
proofs for TLAPS. `PROJECT.json` lists the runs, the properties, a mutant of the
code for each property, the source lines of each definition and the hazards.

## 1. The system

The repository has three programs: a small UNIX V6 kernel for the PC written in
C++ (V6++), a user-space port of its file system (`testMyFileSystem`), and C#
tools that format disk images. The rest is vendored: MinGW, Bochs, NASM.

### Concurrency in the kernel

* There is one CPU and the kernel is not preemptive. A process inside the kernel
  gives up the CPU only in `Process::Sleep` (which calls `Swtch`) and on the
  way back to user mode.
* Interrupts run between any two kernel instructions except between `CLI` and
  `STI`. The disk interrupt runs `ATADriver::ATAHandler` and through it
  `IODone`, `Brelse` and `WakeUpAll`.
* `Sleep(chan, pri)` sets `p_wchan` and gives up the CPU; `WakeUpAll(chan)` makes
  every process with that `p_wchan` ready. It is not a semaphore: a wake-up
  nobody waits for is lost, and a woken process has to test its condition again.
  Sleeps with a negative priority are not interrupted by signals. When `Sleep`
  returns, interrupts are enabled, whatever they were before.
* `Select` scans the process table from the entry after the last one it chose.

### Components

| Component | State | Operations | Interacts with | What makes it correct |
|---|---|---|---|---|
| Buffer cache (`dev/BufferManager.cpp`) | `m_Buf[15]`, `bFreeList`, device queue, flags | GetBlk, Brelse, Bread, Breada, Bwrite, Bdwrite, Bawrite, Bflush, IOWait, IODone | called by the file system and by exec; queue of the block device; interrupt | lists exact, one copy per block, one owner per buffer, no lost wake-up, reads return the last write |
| Block device (`dev/BlockDevice.cpp`, `ATADriver.cpp`) | `d_actf` chain, `d_active`, `d_errcnt` | Strategy, Start, ATAHandler | cache, swap, interrupt | every request is served once, in order, retries are bounded |
| Swap buffer (`BufferManager::Swap`) | `SwBuf` | Swap | scheduler, disk queue | one user at a time, no lost wake-up |
| Super block (`fs/FileSystem.cpp`) | `s_free[100]`, `s_inode[100]`, `s_flock`, `s_ilock`, `s_fmod`, `updlock` | Alloc, Free, IAlloc, IFree, Update | cache, inode table | no block free and used, none given twice, none lost |
| Inode table (`fs/OpenFileManager.cpp`, `fs/INode.cpp`) | `m_Inode[100]`, `i_count`, ILOCK/IWANT | IGet, IPut, Prele, Plock, IUpdate | super block, cache | one in-core copy, locks have one owner, waiters are woken |
| File mapping (`fs/INode.cpp`) | `i_addr[10]`, indirect blocks | Bmap, ITrunc, ReadI, WriteI | super block, cache | a block has one place, truncation frees every block once |
| Open files and pipes (`fs/File.cpp`, `FileManager.cpp`, `OpenFileManager.cpp`) | `m_File[100]`, `ProcessOpenFileTable`, `f_count` | Open, Close, Dup, Pipe, ReadP, WriteP | inode table | counts exact; a pipe is a bounded FIFO |
| Directories (`fs/FileManager.cpp`) | directory entries, `i_nlink` | NameI, MakNode, WriteDir, Link, UnLink, ChDir | all of the above | every reference is given back, names are unique, link counts match entries, no call waits for one that waits for it |
| Processes (`proc/*.cpp`) | `process[100]`, `p_stat`, signals | NewProc, Exit, Wait, Kill, Sleep, WakeUpAll | all | children are reaped once, nobody sleeps for ever |
| Scheduler and swapping (`proc/ProcessManager.cpp`, `Text.cpp`) | `RunRun`, `RunIn`, `RunOut`, text table | Swtch, Select, Sched, XSwap | allocator, swap buffer | a ready process runs; memory has one user |
| Memory (`mm/*.cpp`) | maps of free extents | Alloc, Free | scheduler, exec | extents disjoint, sum conserved |
| Clock (`interrupt/TimeInterrupt.cpp`) | `time`, `tout` | Clock, Sys_Sslep | processes | sleepers wake at their time |
| User-space port (`testMyFileSystem`) | 15 buffers, own super block | as the kernel's, sequential | disk image file | as above, buffers not drained |

Hard behaviours: interrupts between the steps of a buffer's release; sleeps in
the middle of a search or an update; wake-ups that arrive before the sleep; failed
transfers; tables that run full; a stop between the writes of an update. The
places where they bite are the `hazards` of `PROJECT.json`.

## 2. Modules and plan

| Module | What it is | Proofs |
|---|---|---|
| `BufferCache` | cache, disk queue, disk interrupt; implements `BlockStore`, an array of blocks | `BufferCacheProofs` |
| `FreeBlocks` | free block list, `s_flock`, the super block's part of `Update`; implements `BlockPool`, a set of blocks | `FreeBlocksProofs` |
| `Inodes` | in-core table and free inode list under open, creat, unlink, close, sync, and a restart | `InodesProofs` |
| `FileBlocks` | `Bmap`, the loops of `ReadI` and `WriteI`, `ITrunc`, above `BlockPool` and `BlockStore` | |
| `Directories` | path names and the calls that change directories, above `IGet` and `IPut` | `DirectoriesProofs` |
| `Pipe` | pipes with their lock, descriptors, closes and signals; implements `BoundedFifo` | `PipeProofs` |
| `Processes` | process table: fork, exit, wait, kill, signals | `ProcessesProofs` |
| `Alarm` | `sleep`, the clock and `stime` | `AlarmProofs` |
| `ResourceMap` | the first-fit allocator as functions of its array | `SwappingProofs` |
| `Swapping` | images, texts, the swap buffer, the scheduler, over `ResourceMap` | `SwappingProofs` |

Each module with runs has an `MC` module, which extends it and declares symmetry where
it is used. Modules above the cache use the promise of `BlockStore` (a block is held by
one process, reading returns the last write) and modules above the free list that of
`BlockPool`, instead of the details.

What the plan has left, in this order: transfer errors in `Alloc` and a restart from the
free list on the disk; the lock of an inode under two truncations, which joins `Inodes`
and `FileBlocks`; proofs about `FileBlocks`; the user-space port.

## 3. The buffer cache

### What `BufferCache` models

| TLA+ | Code |
|---|---|
| `flags`, `blk`, `data` | `b_flags`, (`b_dev`, `b_blkno`), the bytes at `b_addr` |
| `freeList`, `freeWanted` | the `av_forw` chain of `bFreeList`, its `B_WANTED` |
| `ioq`, `active`, `errcnt` | the `d_actf` chain, `d_active`, `d_errcnt` |
| `disk` | the medium |
| `cpu` | the process that executes in the kernel, `NoProc` when none is (user mode, idle loop) |
| `pc`, `ret`, `req`, `bp`, `abp`, `uerror` | program counter, return address, arguments and locals of the call, `u_error` |
| `chan` | `p_wchan` |

An action is one stretch of code in which an interrupt cannot be told to have run
or not; actions of processes need the CPU (`Running`), the actions of
`DiskInterrupt` need only `active # 0`. The device queue (`b_forw`) is the set
of buffers with a given `blk`; only processes change it. `GetBlk` is split where it
enables interrupts: search and sleep (`GetBlkBusy`, `GetBlkNoFree`), hit
(`GetBlkHit`, then `NotAvail`), test for a free buffer (`GetBlkSomeFree`), reuse
(`TakeDirty`, `TakeClean`). `Brelse` is split between the wake-ups and the
section with interrupts off. A caller does what `ReadI` and `WriteI` do with a
buffer: look at it, change it, and release it, write it, or write it later
(`Release`, `Bdwrite`, `Bawrite`, `Bwrite`); after a failed read `WriteI` changes
the bytes and releases (`SpoilRelease`).

Choices to know about:

* `Strategy` rejects block numbers beyond `NSECTOR`, which is `0x7FFFFFFF`; no
  caller can exceed it and the path is left out. `GetBlk` with a negative device
  has no caller and is left out. `Swap` shares the request queue; its own protocol is
  in `Swapping`.
* `Bwrite` of an asynchronous write without `B_DELWRI` asks `GetError` whether the transfer
  has failed by then; `MayHaveFailed` sets `u_error` or not.
* A process holds one buffer at a time, two inside `Breada`. `Bmap`, which holds
  an indirect block while `Alloc` takes another, is in `FileBlocks`.
* `Initialize` puts the buffers on the free list in one fixed order; the model
  allows every order, which names the buffers differently and nothing else.
* After a call a process is on its way to user mode and another may run; the model
  lets it make another call at once or not at all.
* A block number of `Failing` is one for which the controller may report an error;
  `MaxErr` stands for the 10 of `ATAHandler`.

### Runs

| Run | Instance | Question |
|---|---|---|
| `CacheSafety` | 2 processes, 2 buffers, 3 blocks (one failing, one retry), 2 values; getblk, bread, bflush | all safety, and refinement of `BlockStore` |
| `CacheAhead` | 2 processes, 2 buffers, 4 blocks; breada | processes that hold one buffer and ask for another, up to the last buffer |
| `CacheLiveness` | 2 processes, 2 buffers, 2 blocks, one failing | every sleeper wakes, every request is served |

Bounds: two buffers and three blocks make buffers be reused, written out to be
reused and fought over; two processes are enough for one to find what the other
left (three were tried with one value and showed nothing new). In `CacheAhead` the
fourth block is needed for a process to find its first block already read when it
comes back from a sleep. It has as many processes as buffers, so that each can hold the
buffer of its first block and sleep in `GetBlk` for the second (`BufferManager.cpp:277`):
there the system does stop, and `CHECK_DEADLOCK FALSE` stands in the configuration for that
reason. `NotAllAsleep` says that the processes all sleep in no other way (`Exhausted`; with
three processes over two buffers and three blocks it holds too). The kernel has 15 buffers and
up to 100 processes, so the stop is possible there: 15 processes that read ahead at once.
Processes, buffers, good blocks and values are interchangeable, so these sets are
symmetric; the liveness run uses no symmetry.

Properties: `FreeListExact`, `QueueExact`, `OneCopy`,
`ExclusiveUse`, `NoLostWakeup`, `NotAllAsleep`, `ReadsCurrent` (which includes that the
`while` of `IOWait` never finds `B_DONE` clear after a wake-up, so that it does not matter
that interrupts are enabled by then), and
`ImplementsStore`: with a buffer's contents counting when they are valid or on
their way to the disk, and the disk's otherwise, every step is a step of an array
of blocks (`BlockStore`): take a block that nobody has, replace its contents
while having it, give it up. Blocks with failing transfers are outside that promise.

Fairness (`FairSpec`): weak for `DiskInterrupt` (the controller raises an interrupt
for every command), weak for each step of a process that has the CPU (nothing
preempts it), strong for `Resume` (a woken process is ready again and again while
others run; `Select`'s scan from the last choice gets to it). Calls are not fair:
a process may stay in user mode. Under it `SleepersWake` and `RequestsServed` hold.

### Proofs

`BufferCacheProofs` proves for every number of processes, buffers, blocks and values,
every set of failing blocks and every `MaxErr`, from `CacheAssumption` alone (the
names are distinct, the buffers finite, `MaxErr` a number, the calls among the four):

* `TypeCorrect`, `FreeListSafe`, `QueueSafe`, `NoDuplicate`, `WakeupsSafe`,
  `OwnershipSafe`: `Spec => []P` for `TypeOK`, `FreeListExact`, `QueueExact`,
  `OneCopy`, `NoLostWakeup`, `ExclusiveUse`.

None of these is inductive alone: that a buffer is released once depends on who
owns it, ownership on where each process is, and a process's position on who may
have the CPU. `IInv` joins them with `CpuOK` (only a process in GetBlk or IOWait is
off the CPU inside the kernel), `RetOK` (return addresses), `NamesOK` (the block a
process looks for), `LocalsOK` (when the local pointers are set), `OwnersOK` (a busy
buffer has one owner or is asynchronous and queued), `TransferOK` (whose buffer may be
queued) and `SleepOK`. It was checked with TLC on the instance of `CacheSafety` before
it was proved; the run leaves it out, and the type invariant, because both are theorems.

The argument: `AppendChain`, `TailChain` and `RemoveChain` say what the list
operations do to the set of a chain; `SameBuffers`, `Enqueued`, `Taken`, `Flushed`,
`Freed`, `Dequeued`, `DequeuedFreed` say that the few ways in which a buffer moves
between owner, free list and request queue keep the four conjuncts about buffers; one
lemma per action then checks the conjuncts about processes and cites one of these.

Its second part goes on from there, from the same assumption:

* `ReadsCurrentHolds` and `ImplementsStoreHolds`: `Bread` and `Breada` hand over the current
  contents of the block asked for, and `Spec => ImplementsStore`, the refinement of
  `BlockStore`. The invariant `StoreInv` adds to `IInv` what the flags of a buffer say
  about its bytes and the disk's (`BuffersOK`) and what a process knows of the buffer it
  has (`CallsOK`). The initial contents are `BlockStore`'s; `ContentFacts` says which bytes
  are a block's contents; each step then either leaves the contents of all good blocks
  and the holders alone, or is a taking, a change or a giving back by one process. The
  steps of the disk interrupt that end a write are where this could fail: they move the
  contents of a block from its buffer to the disk.
* `NotAllAsleepHolds`, for any finite number of processes and with no assumption about the
  number of buffers: if all sleep, every buffer is held by a process that has the first block
  of a `Breada` and waits in `GetBlk`, and one of those that sleep waits for any buffer
  (`Exhausted`). So waiting for the user of a certain block, which several processes can do in
  a row, is never part of a deadlock. The reason is an order (`Ranked`, in `OrderInv`) in which a
  process comes before those that have the block it waits for while it has another: `Breada`
  calls `GetBlk` for its second block only when that is in no buffer (`InCore`), so whoever has
  it took it later. The last in that order that has a buffer waits for nobody's.

## 4. The free block list

### What `FreeBlocks` models

| TLA+ | Code |
|---|---|
| `stack` | `s_free[0 .. s_nfree-1]` |
| `flock`, `asleep` | `s_flock`, the processes asleep on its address |
| `fmod`, `updlock` | `s_fmod`, `updlock` |
| `onDisk` | the table in the super block on the disk |
| `content` | for each block, the table written in it, or `Data` |
| `used` | blocks that belong to files |
| `blk`, `err` | `blkno` of the call, `u_error` |

| Action | Code (`fs/FileSystem.cpp`) |
|---|---|
| `AllocWait`, `FreeWait` | the `while (s_flock)` loops |
| `AllocTake`, `AllocEnd`, `AllocOutside` | the pop: a block, the end mark, an entry before the table |
| `AllocRefill` | after `Bread`: the next table is copied, the lock released |
| `AllocClear` | after `GetBlk`: the new block is cleared |
| `FreePut`, `FreeFull` | room in the table; a full table |
| `FreeStore`, `FreeStored` | after `GetBlk`: the table goes into the block; after `Bwrite` |
| `UpdateBegin`, `UpdateCopy`, `UpdateDone` | the tests of `Update`; after `GetBlk`; after the writes |

An action is the code from one possible sleep to the next. Blocks are read and
written as `BlockStore` promises, at some time, by one process at a time. `Formatted`
is the list the disk tool makes (`MyDiskInit`), and the initial state.

* A block is freed by the one process that has its file's inode locked. That lock can
  be cleared by another process (`InodeLock`, section 12); what two truncations at once
  do to the list is left out.
* `AllocOutside` has two outcomes: `s_free[-1]` is the word before the table, which is
  `s_nfree`, and the build decides whether the decremented value is stored before the
  word is read. 0 means no space, -1 is handed out. After that (`wild`) calls in
  progress end and no new ones are made (`NotFollowed`): what block -1 is depends on
  the driver.
* Errors of transfers and a restart are not in this module.

### Runs

| Run | Instance | Question |
|---|---|---|
| `Free` | 2 processes, 4 blocks, tables of 2 | all safety, refinement of `BlockPool`, and whoever sleeps on `s_flock` is woken |

Four blocks in tables of two make a list of three tables, so that a table is written
out while another one is in a block; two is the smallest table (`Free` puts two numbers
into an empty one). With two processes one holds the lock and the other sleeps; three
processes were tried with two blocks, where a wake-up of all leaves somebody to wait
again, and `SleepersWake` held as well.

`EveryBlockOnce` is the property of the component: each block is once on the list, or in
a file, or with one process in `Alloc` or `Free`. `ModifiedKnown` says that `s_fmod` may
be trusted when nobody is in the middle of a change. `ImplementsPool` hides tables and
lock: `Alloc` takes some free block and is refused only when none is free.

Fairness is weak and only for the steps of a call that has begun: transfers end (what
`CacheLiveness` shows of the cache), and a ready process runs. Nobody has to make a
call. `SleepersWake` says that a sleeper is woken, not that its call succeeds: the code
lets others take the lock again before it looks.

### Proofs

`FreeBlocksProofs` proves `LockSafe` (`Spec => []LockSound`): the lock has one owner and
nobody sleeps on it while it is clear, for every number of processes, blocks and entries.
`LockInv` adds the types of the variables that matter. Lemmas `MovesOutside`, `Locks`,
`Unlocks` and `Sleeps` are the four ways a step can touch the lock, and each action is
one of them.

`ModifiedKnownHolds` is `Spec => []ModifiedKnown`. It needs to know what is in the tables: a
clear `s_fmod` could be wrong after `Alloc` has popped an end mark, or refilled the table,
if something were left of the table. `KnownInv` therefore adds that every table, in core, in a
block and on the disk, has the end mark at its bottom at most, and where the processes are that
have changed the table but not yet set `s_fmod`. The tables of a new disk are given by the
recursive function `Formatted`; that it exists is not taken for granted: `Iterated` builds a
function that begins with a value and takes given steps for ever, by the least number at which
it would stop; `FormattedIs` derives the equation of `Formatted` from it, and `FormattedMarked`
the form of each table.

`EveryBlockOnceHolds` (`Spec => []EveryBlockOnce`) and `ImplementsPoolHolds`
(`Spec => ImplementsPool`) are proved together, from `BlocksInv`: types, the two invariants
above, a table in the super block only while none is on its way (`Emptied`), and, until a
number is read from outside the table, `PlaceInv`. Its first part (`PoolOK`) says of the
variables of the pool that free blocks, blocks of files and hands are apart and cover all
blocks. Its second (`OnList`) says that the list holds each free block once, with the end mark
or without it. The argument:

* The list is the sequence of tables that the function `Walk` computes from the first table
  and the contents of the blocks. `WalkIs` and `WalkUnique` give its equation and say that it
  has one solution.
* `Lists(s, c, X)` says that from table `s`, with contents `c`, the list holds each number of
  `X` once. One lemma for each way a list changes: `ListsPut`, `ListsFront` (a number on or
  off the first table), `ListsPush`, `ListsPop` (the table into the freed block, or out of the
  one taken), `ListsSame` (a block written that is not on the list), `ListsEmpty`, `ListsAlone`.
* `FreeSet` looks at as many tables as there are blocks, and one. That these are all is the
  pigeonhole principle (`ListsEnd`): each table but the last begins with a block of its own.
* `ImageWhole`: on a new disk every block is on the list, again by the least number of freed
  blocks for which it would fail.
* Each action, with what it does to the list, is a step of `BlockPool` or hidden by it
  (`TakeStep`, `RefillStep`, `StoreStep`, ...), and `PoolKeeps` shows once, for the pool, that
  its steps keep the blocks apart.

Only model-checked: liveness.

## 5. Inodes

### What `Inodes` models

| TLA+ | Code |
|---|---|
| `slot` | `m_Inode[100]`: `i_number`, `i_count`, `ILOCK`, `IWANT`, `IUPD` (for `IUPD` or `IACC`), `i_mode # 0`, `i_nlink > 0` |
| `disk` | the inodes on the disk, as read through the cache |
| `list`, `ilock`, `fmod` | `s_inode[0 .. s_ninode-1]`, `s_ilock`, `s_fmod` |
| `onDisk` | the list in the super block on the disk |
| `updlock` | `updlock` |
| `named` | inodes that have a directory entry |
| `files` | for each entry, the open files whose `f_inode` it is |
| `cpu`, `chan` | the process that has not slept since its last step; `p_wchan` |
| `pc`, `call`, `num`, `sl`, `back`, `scan` | program counter, arguments and locals of the call |
| `overtaken`, `misread`, `wild` | history: an entry was given up under `Update`; an inode in use was freed because it could not be read; a number that is none of an inode was used |

| Action | Code |
|---|---|
| `IGetWait`, `IGetFound`, `IGetLoad`, `IGetFull`, `ICopy`, `IGetError` | `InodeTable::IGet`: locked, in core, to be read, table full, read, read failed |
| `IPutShared`, `IPutTrunc`, `Truncated`, `IPutUpdate`, `IPutClean`, `IPutDone` | `InodeTable::IPut`: not the last reference; `ITrunc`; `IUpdate`; the release |
| `IUpdate` | `Inode::IUpdate`, for `IPut` and `UpdateInodeTable` |
| `IAllocWait`, `IAllocSearch`, `IAllocBlock`, `IAllocFound`, `IAllocTake`, `IAllocOutside`, `IAllocFree`, `IAllocOccupied` | `FileSystem::IAlloc`: the lock, the search of the disk, the loop over the list |
| `IFree` (in `Truncated`) | `FileSystem::IFree` |
| `Sync`, `SyncSuper`, `SyncInode`, `SyncWritten`, `SyncEnd` | the inode part of `FileSystem::Update`, `UpdateInodeTable` |
| `Open`, `UnLink`, `Creat`, `Close`, `WriteDir`, `Open1*`, `Unlinked` | what `FileManager` and `OpenFileTable::CloseF` do around them |
| `Crash` | the machine stops and is started again |

A process that is in the kernel goes on until it sleeps (`GoOn` keeps the CPU; after
`SleepAt` any process may be next, the same one too, which stands for a call that may or
may not sleep). A process at `"unread"` has an entry whose inode could not be read and is
about to call `IPut` with it. What is abstracted:

* A file is `i_mode # 0` and `i_nlink > 0`, and has one name: `Link` is in `Directories`.
  Directories have no entries in the table here and are never locked; the
  places where their release may sleep are kept. Mount points, read-only file systems,
  and errors of `WriteI` on a directory are left out; `Plock` is in `Pipe`.
* `Open` reads a name and asks for its inode later, as `NameI` does, and gets whatever
  the number means by then.
* `Update` writes the super block in two halves and sleeps between them, and the list of
  free inodes lies in both; `SyncSuper` copies it at once, when `GetBlk` has returned for the
  first. A mixture of two lists on the disk is not modelled, nor that `s_flock` keeps
  `Update` from the super block.
* The order of the first list is immaterial. `IUpdate` of an entry released meanwhile
  writes before its buffer, which the model leaves out; a number read from `s_inode[-1]`
  ends the run (`wild`, `NotFollowed`).
* A stop keeps the inodes that were written and any of the names of these (directory
  blocks and inodes reach the disk independently).

### Runs

| Run | Instance | Question |
|---|---|---|
| `InodeSafety` | 2 processes, 2 entries, 2 inodes in a block, list of 1, 1 open file, 1 crash; open, creat, unlink, close, sync, failed reads of one inode | all safety |
| `InodeFaults` | 1 process, 2 entries, 3 inodes in 2 blocks, list of 1, 2 open files, sync, failed reads, 1 crash | the inductive invariant `RefInv` |

Two entries and two inodes empty the list and make entries be reused; the third inode of
`InodeFaults` finds the table full and the list too short for what is free. The second
process finds every state the first can sleep in, `Update` included. After a crash the list
is the one the disk has, which names inodes that are in use by then. With a list of 2
entries (`ListSize = 2`, in which a number can stand twice: a file is unlinked and closed
between `NameI` and `IGet` of an open) `InodeSafety` has 4.75 million states instead of
0.95 million and finds nothing either; the theorems hold for every size.

Two faults of the code are not properties but exceptions of them, marked by history
variables at the step where they happen: `overtaken`, when the last reference of an entry
is given up while `Update` writes it, and `misread`, when an inode in use is freed because
`IGet` could not read it (both below). `WorksOnItsInode` is stated up to the first,
`NamedAlive` and `FreshInode` up to either. `Beyond = FALSE` lets a run stop there; with
`Beyond = TRUE` it goes on, as the theorems do.

`CHECK_DEADLOCK FALSE` stands in these configurations because the system does stop: a
process that waits in `IGet` is never woken (`InodeWake`, section 12), and when all wait there is no
step. No liveness property is stated for that reason.

Properties: `OneCopy` and `RefCounts` (the table), `NamedAlive` (no name leads to a free
inode), `FreshInode` (`IAlloc` gives out an inode nobody has or names, whatever is on the
list), `WorksOnItsInode` (the entry is the same after a sleep).

### Disagreements

That a waiter is not woken, and that two processes may have one inode locked, is shown in
section 12 (`InodeWake`, `InodeLock`). Three more disagreements with comments were found
with the same model; each takes one change of a configuration:

* `overtaken` is reached in `InodeSafety`. `UpdateInodeTable` locks an entry and does not
  count itself (`OpenFileManager.cpp:245`); the last close releases the entry during the
  write, and `IGet` may give it to another file. The comments at lines 201-204 and 237-243
  say that the lock prevents it. With `Beyond = TRUE` and without the condition
  `~overtaken`, `WorksOnItsInode` fails after it, and so do the other two.
* `misread` is reached in `InodeSafety`. When a read fails, `IGet` calls `IPut`
  (`OpenFileManager.cpp:181`) with the `i_nlink` the entry had for its last file; if that was
  0 the inode is freed on the disk although it is in use. With `Beyond = TRUE` and without
  `~misread`, `NamedAlive` fails after it, also when nobody calls `Update`.
* `IAllocOutside` is reached in `InodeSafety`: after an inode in use `IAlloc` takes the next
  number without testing `s_ninode` again (`FileSystem.cpp:277`), although the comment at
  lines 270-273 says that the list holds one.

### Proofs

`InodesProofs` proves `OneCopySafe` and `RefCountsExact`, for every number of processes,
entries, inodes and files, with sync, failed reads and crashes, from `InodesAssumption`.
They hold although the locks do not: neither uses `ILOCK`.

`RefCounts` counts processes, so the invariant has to say where each one is. `RefInv` is
`EntriesOK` (types), `PlacesOK` (which calls can be at which place and whether they have
an entry there), `OneCopy` and `RefCounts`. `UsersChange` says how the number of users of
an entry changes when one process takes or leaves it, `BalancedStep` that a step keeps the
invariant when count, files and users of one entry change together, `Quiet` covers steps
that touch none of them. The lemmas named `...Keep` or `...Keeps` apply these to the
actions in groups; `IGetLoadKeeps` is the one place where `OneCopy` is at stake, and uses
that the search of the table and the choice of an entry are not separated by a sleep.
`Started` covers the boot and the restart.

The other three need more of the calls. Nothing is assumed about which calls are made or
which reads fail: sync, failed reads and crashes are all there, and the theorems exclude
only what happens after the two faults, by the history variables.

* `WorksOnItsInodeHolds`. The lock of an entry keeps nobody out, so it cannot be the reason.
  `WorkInvariance` is that `WorkInv` holds until `overtaken`: while an entry is read, truncated or
  written for the last time, its count is 1 and it is locked, and `UserCounts` turns that into
  "nobody else uses it". `IGet` cannot find it, because it is locked; `IPut` of another cannot
  reach it; `Update` passes it over, because it is locked. What `Update` itself has locked
  (`Syncs`) is counted by somebody, or the step that gave it up has set `overtaken`.
* `NamedAliveHolds` and `FreshInodeHolds`. `AliveInvariance` is that `AliveInv` holds until either
  fault. It adds what a name leads to in core and on the disk (`NamesLive`), that a copy not
  marked as changed is as the disk's unless it is being read or cut (`CopiesSame`, with `Loading`
  and `Cutting`), that an inode free in core is free on the disk until that is written
  (`FreeSame`), that what has a name has `i_nlink` on the disk too (`DiskLinked`: `Update` may write
  the inode of a file that has just lost its name, but no other's), and what a creat, an
  unlink and an `IPut` know at each place (`TaskOK`). One of its parts is a
  fault put to use: an unlink that has waited in `IGet` is never woken (`InodeWake`, section
  12), so an unlink that goes on has read the name since it last slept. If the wake-up were
  repaired the proof would have to change here, and the code to test the name again.

Each action has a lemma of the same form: which entry it touches (`MayChange`, or none), what
holds of the process after it, and that the others keep theirs. `SearchedNumbers` is about the
list that a search of `IAlloc` makes. All properties of the runs are proved.

## 6. Files

### What `FileBlocks` models

| TLA+ | Code |
|---|---|
| `addr`, `size`, `table` | `i_addr`, `i_size` in blocks, the numbers in the index tables |
| `free` | what the free list holds, as `BlockPool` has it |
| `path`, `chain` | the indexes `Bmap` or `ITrunc` derives; the blocks met on the way |
| `blk` | the block `Alloc` gave last, or the one that is read or written |
| `stale` | tables allocated and released without being marked for writing |
| `home`, `lost`, `cut`, `raced` | history: where a block was stored; blocks nobody leads to; calls whose file was cut under them; whether two stored at one place |

| Action | Code (`fs/INode.cpp`) |
|---|---|
| `Transfer`, `Move` | one turn of the loop of `ReadI` or `WriteI`, before and after the block is in core |
| `LookEmpty`, `LookTable`, `LookFound` | an entry of `i_addr` or of a table: zero, a table, the block |
| `AllocNone`, `AllocTake`, `Store` | `Alloc` refuses; it gives a block; the number is entered |
| `Trunc`, `NextEntry`, `TableRead`, `TableDone`, `Freed`, `Truncated` | the three nested loops of `ITrunc` |

`Rdwr` takes no lock, so any number of calls are at work in a file, also while it is cut;
`ITrunc` excludes itself only. The three arms of `Bmap` are one walk along a path of one to
three indexes. A process sleeps before and after `Alloc` takes the block, in `Free`, and in
`Bread` of a table, which waits for a process that keeps it (`Busy`). The lowest free block
is taken, because blocks do not differ. Left out: special files, the read-ahead number, the
bytes themselves, and the offsets of `File`: `Rdwr` moves `f_offset` after a transfer that
sleeps (`FileManager.cpp:348`), so that two processes that share a `File` write at the same
place and then move the offset twice. `TableDone` reads the entry that led to a table again, as
`ITrunc` does (line 594): it may be another's by then.

What cannot be followed ends the model (`Stray`, `wild`): a process that goes on with a
block which `ITrunc` has freed under it, or with a stale table.

### Run `Files`

One file, two processes, three blocks, one entry of each kind, tables of two; places 2
(through a table) and 4 (through two tables). Three blocks are exactly enough for the long
path, so that with a second process or the short path present `Alloc` fails at every
level. `MaxLost = 0`: no call begins after a block was lost.

* `BlocksExact`: each block is free, at one place of one file where the tables lead to it,
  in one process's hand, or lost. It includes the types, and `OwnBlocks`: nobody reads,
  writes or enters a number into a block that is not his file's, unless the file was cut
  during the call.
* `NothingLost`: only two processes that store at one place, or a store into a file that
  is being cut, lose a block; a failed `Alloc` and `ITrunc` lose none.
* `CallsEnd`: no call waits for a table that is never given back.

Fairness is strong for the steps of a call: a process that waits for a table is woken each
time it is released and may lose it again to another.

## 7. Pipes and descriptors

### What `Pipe` models

| TLA+ | Code |
|---|---|
| `ino` | the pipe's inode: `i_count`, `ILOCK`, `IWANT`, `i_size`, `IREAD`, `IWRITE`, number of blocks |
| `data`, `foff` | the bytes of its file; `f_offset` of the reading end |
| `fcount`, `fds` | `f_count` of the two `File`s, each process's descriptors for them |
| `chan` | asleep on the inode, on the inode + 1 (room) or on the inode + 2 (data) |
| `left`, `io`, `err`, `end` | locals of `WriteP`; `u_IOParam`; `u_error`; the end that is closed |

`WaitLock` is `Plock`; `ReadEnd`, `ReadEmpty`, `ReadStart`, `ReadBlock` are `ReadP` with the
turns of `ReadI`; `WriteEnd`, `WriteFull`, `WriteStart`, `WriteBlock`, `WriteNoSpace`,
`WriteSkip` are `WriteP` with those of `WriteI`; `CloseShared`, `CloseEnd`, `CloseLast`,
`Truncated`, `Released` are `CloseF` with `IPut`; `NewInode`, `PipeMade`, `PipeFails` are
`Pipe`. `Sync` is what `Update` does to the inode. `Neighbour` wakes the sleepers of a
channel for no reason of the pipe's: `inode + 1` is the address of the next entry of the
table. Each block of a transfer may sleep. A pipe has `PIPSIZ` bytes and the writer starts
again at 0 only when the reader has emptied it, as in the code.

`IPut` clears the lock whoever has it (`PipeUnlocked`, section 12). `wild` records it; the
model goes on until two processes are inside the lock together and stops there (`At`), for
what they then do to the offsets depends on the order of single instructions.

### Run `PipeFifo`

Two processes, one of which may write and both of which may read, a pipe of two blocks of
one byte, two values, two descriptors a process, writes and reads of up to two bytes,
signals. Two blocks make a transfer sleep in its middle and the pipe full after two bytes; two
values tell a byte out of order.

* `EndsCounted`: `f_count` is the number of descriptors and `i_count` that of open ends,
  whatever fails in the middle of `Pipe`.
* `SleepersHaveReason`: a sleeper for data or room left its flag set, both ends are open,
  and the pipe is empty or full; a waiter for the lock left `IWANT` set.
* `IsFifo`: every step is one of `BoundedFifo`, or the lock was cleared under a process.
* `WritersEnd`: a write ends. Assumed: a process that can run runs (strong fairness of
  `Move`; `Select` goes round the table), and a process that only reads keeps asking for
  bytes and gets its turn at the lock. The second is an assumption about users, and
  `WritersEnd` excepts writers that hold the reading end themselves.

`CHECK_DEADLOCK FALSE`: a reader sleeps for ever when the writer has all ends it needs.

### Proofs

`PipeProofs` proves `EndsCountedHolds`, `SleepersHaveReasonHolds` and `IsFifoHolds` for any
number of processes, descriptors and bytes, any `PIPSIZ`, any `BLOCK_SIZE` and any length of a
call, from `PipeAssumption`. The difficulty is the lock, which another process may clear. So
the inductive invariant `PipeInv` does not rest on it. Its parts, besides the types:

* `CountsOK`: while one process makes the pipe or gives its inode up (`Ending`), it is alone
  and there are no descriptors, so that nobody else can come near the counts; otherwise
  `f_count` is the number of descriptors and `i_count` that of the open ends.
* `HoldersOK`: how far the lock can be trusted. It is set while somebody is inside, and there
  is one owner, except that an `Update` may be inside together with the last close; or it was
  cleared under its owner (`wild`).
* `PlaceOK` and `TurnOK`: what each process is doing, by where it sleeps, and that a turn of
  `ReadI` or `WriteI` has at least a byte to move and stays in the file. A reader with the lock
  has found bytes, which is why nobody can have gone to sleep for data since.
* `SleepersHaveReason` itself, which is inductive with the others even under `wild`.

`EndsCounted` counts descriptors over all processes. The counting lemmas (`OneMore`, `NoItems`,
`OneItem`, `Copied`) say how the number of pairs (process, descriptor) changes when a process
has one more or a child has those of its parent; no recursive sum is needed.

`IsFifo` is a refinement, proved step by step from `FifoInv`, which adds `FifoOK` to `PipeInv`: as
long as the lock was not cleared under its owner, the reader's turn lies between `f_offset`
and the size of the file, the writer's turn begins at the size, and the file is empty while there
is no pipe. `Position` says with that where the queue begins. `Taken` and `Added` are about
the bytes: what `ReadBlock` gives a reader is the front of the queue, and what `WriteBlock`
moves goes to its end, in the room there is. `QuietActions` covers the steps that move no byte. TLC
checked `PipeInv` and `FifoInv` on the run's instance before they were proved.

`WritersEnd` is model-checked only, being a liveness property.

## 8. Processes

`Processes` has `process[]` (`p_stat`, `p_pid`, `p_ppid`, `p_sig`, `p_addr`), the handler of
one signal that may be caught, the free blocks of the swap area and `m_NextUniquePid`.
`Fork` is `Fork`, `NewProc` and `Clone` in one step (without lack of memory, which is in
`Swapping`, they do not sleep). `Exit` is split at `GetBlk` and `Bwrite` of the u area
(`ExitAlloc`, `Bury`), `Wait` at `Sleep` and at `Bread` (`WaitFinds`, `WaitFrees`). Every
call ends in `Trap`, where a signal is answered; `Clock` answers one in user mode. A wake-up
from `Sleep` looks at the signal first (`WaitWakes`).

Left out: process 0, which makes no call; owners and terminals (all have one owner;
`p_ttyp` is never set); priorities and `Nice`; tracing. `MaxPid` bounds the numbers given
out. The model stops (`Reused`) when a slot that `Wait` has given up is used before `Wait`
is done with it. `hasChild` in `Wait` stays true once a child was seen
(`ProcessManager.cpp:335`); `WaitNoChild` looks anew, which is the same, because only its
own `Wait` takes a child from a process.

Run `Processes`: three slots besides 0, four numbers, two blocks, two processes that may
send signals, one that may set a handler.

* `SwapExact`: each block of the swap area is free or kept by one zombie, one `Exit` or
  one `Wait`.
* `WaitersHaveReason`: who sleeps in `Wait` has a child and no zombie, process 1 excepted,
  which `Exit` does not wake for the zombies it inherits.
* `OrphansAdopted`: whoever is in the table has a parent that can still wait for it.
* `KilledEnds`: `SIGKIL` ends a process wherever it is. Fairness is strong for the steps
  in the kernel and for the clock in user mode: `Select` goes round the table, buffers come,
  the clock ticks. It does not hold once `Exit` has panicked for lack of swap space.

### Proofs

`ProcessesProofs` proves `SwapExactHolds`, `WaitersHaveReasonHolds` and `OrphansAdoptedHolds`
for a table of any size, any number of process numbers and any swap area, from
`ProcessesAssumption`. The three are proved together, because they need one another's help
and three facts besides. The inductive invariant `IInv` (TLC found it true in the states of
the run first) adds

* `StatesOK`: where a process can be, given its `p_stat`. So a zombie is not also in `Exit`
  or `Wait`, and a slot is a keeper of a block in one way only (`KeepersAre`).
* `NumbersOK`: numbers are distinct and a parent's is smaller than its child's. When `Exit`
  gives children to process 1, no sleeper other than the parent loses one, and nobody
  becomes its own parent.
* `LocalsOK`: what `Exit` and `Wait` remember across their sleeps.

There is a lemma for each step that gives a block a new keeper (`ExitAllocStep`, `BuryStep`,
`WaitFindsStep`, `WaitFreesStep`); the other steps leave keepers and blocks as they are
(`BlocksSame`). `Fork` is the only step that may end in `Reused`. `KilledEnds` is
model-checked only.

## 9. The alarm

`Alarm` has `Time::time`, `Time::tout` and the loop of `Sys_Sslep`. Interrupts are off from
the call to its first `Sleep` (one action, `Sslep`) and on after it, because `Sleep` ends
with `STI`: in the further turns each test and assignment is an action, and the clock may
come between. `Stime` sets the time to the number of the call, which is what `u_ar0[EAX]`
holds.

Run `Alarms`: three sleepers, five seconds, `stime` and signals. `AlarmAheadUnlessMissed`:
the alarm is to come and not later than any sleeper's time; `SleepEnds`: a call returns.
Both except the case that the time changed under a process in the loop (`missed`), which
does happen (`AlarmMissed`, section 12). Three sleepers are needed for one to move the alarm
while two wait for different times. Fairness: the clock ticks (weak), a woken process runs
(strong).

`AlarmProofs` proves `AlarmSafe` for any number of processes and any bounds.
`AlarmAheadUnlessMissed` is not inductive: what the process in the loop has tested must
still hold when it acts on it. `IInv` adds `TypeOK` and `LoopState`, which says what is known
at each place in the loop. `CallerStep` has the two ways the alarm moves: it was past, and
then nobody sleeps who was not woken, or it was later.

## 10. Memory and swapping

`ResourceMap` gives the array of free areas after `Alloc` and `Free` as a function of the
array before: the shifting loops are removal and insertion in a sequence. Its mutant joins
an area with the one before it only.

`Swapping` uses it twice, for pages and for blocks of the swap area, below everything that
allocates from them:

| TLA+ | Code |
|---|---|
| `mem`, `swap` | the maps of `UserPageManager` and `SwapperManager` |
| `proc` | `p_stat`, `SLOAD`, `p_addr`, `p_size`, `p_textp` |
| `text` | `x_count`, `x_ccount`, `x_caddr`, `x_daddr`, by program file |
| `swbuf` | `B_BUSY` and `B_WANTED` of `SwBuf` |
| `runIn`, `runOut` | the two events of the scheduler |
| `then`, `loc`, `in` | return places and locals of `XSwap`, `Expand`, `Exec`, `NewProc`, `Sched` |

`Fork`/`ForkSwap`/`Forked` are `NewProc`, with the child written straight to the swap area
if there is no memory; `Shrink`, `Grow`, `Expand`, `ExpandSwap`, `Expanded` are `SBreak` and
`Expand`; `Exec`, `ExecText`, `ExecCopy`, `Execed` the parts of `Exec` that change memory;
the actions named `Sched...` are `Sched`; `SwapStart`, `SwapWait`, `SwapAgain`, `SwapSleep`
with `IODone` are `BufferManager::Swap`. Sizes are in blocks, and rounded up to pages where
the managers do so. Which ready process `Sched` takes is left open.

Left out, and merged:

* `XFree` gives the program's inode back before `p_textp` is cleared (`Text.cpp:36`), and that
  `IPut` may sleep; in `ExecText` and `Exit` it is one step with what follows. The entry is
  then unused (`x_count` 0) and keeps its `x_iptr`: what another exec of the program
  does with it in that window is not modelled.
* `Exec` holds its program's inode locked until it ends, so that one process at a time is in
  `Exec` of a file; the `Prele` of another's `IPut` can clear that lock (`InodeLock`, section 12),
  after which two would be.
* Program files are fewer than the 50 entries of the text table. When it is full and the
  program is not in it, `pText` is `NULL` and is used all the same (`ProcessManager.cpp:561-605`,
  637).
* `Exit` frees the text and the image at once; between them it sleeps in `GetBlk` and `Bwrite`
  for the block of its u area, which is in `Processes`.
* `SetRun` leaves out the branch that wakes the scheduler for a process that is swapped out
  (`Process.cpp:33-37`): no sleeper ever is, because `Sched` swaps nobody out.

The model stops (`wild`) when memory is used that was not allocated. It happens in three
ways: `sbreak` to a smaller size that does not end at a page (`Process.cpp:146` rounds the
difference and not the ends); `exec` of a text whose memory went when its last user was
swapped out (`ProcessManager.cpp:573`); `exec` with no room for the text
(lines 597, 598, whose results are not tested). No comment says otherwise.

Run `Swapping`: process 1, two more slots and the scheduler, three pages of two blocks, six
blocks of swap, images of two to four blocks, one program. Three pages hold one large and
one small image, so that a fork, a growth or an exec goes to the swap area and the
scheduler must wait.

* `AreasExact`: both maps are `WellFormed` (ordered, joined, never overlapping); the areas of
  images, texts and transfers are disjoint, and with the map they are all of memory and of
  the swap area.
* `TextCounts`: `x_count` and `x_ccount` are the numbers of processes with the text, and of
  those in memory.
* `SleepersHaveReason`: who sleeps for the buffer or for an event left its flag set, unless
  a transfer ended between the test and the `Sleep` of a second turn (`lost`): `IODone`
  clears `B_WANTED` (`BufferManager.cpp:407-410`).

### Proofs

`SwappingProofs` begins with the allocator. For every well-formed map: `AllocKeeps`, the
result is well formed and lacks exactly the area returned, which was free; `FreeKeeps`,
freeing an area that is not free and not empty gives a well-formed map with exactly that
area more. The lemmas say where each entry of a sequence is after `RemoveAt` and `InsertAt`,
and what of order and joints that keeps.

On them rest `AreasExactHolds`, `TextCountsHolds` and `SleepersHaveReasonHolds`: the three
invariants of the run, for any number of processes, pages, blocks of swap, program files and
sizes. The assumption is `SwappingAssumption`: a table of at least two processes, the
scheduler and process 1 (`NPROC` is 100), images not smaller than the page of the u area and
a text of whole pages; nothing of the order in which processes run.

None of the three is inductive. `AreasExact` says that the areas in use and the map make
up the memory, but not which process is in the middle of what: that a process whose `XSwap`
is under way has both its pages and its new blocks, that a child being written to the swap
area has no pages of its own, that the parent of such a child is idle and does not run
with the same image. `IInv`, which TLC checked as an invariant of the run first, adds

* `PlacesOK`: what each place (`pc`, `then`) says of the process's state, its `SLOAD`, what
  `XSwap` and `Exec` remember for it (`loc`) and on what it may sleep; `Moves` for the four
  ways through the swap buffer;
* `SchedOK`: the same for process 0 and the process it brings in, which is ready and out
  until it is in; with the text to come first only when nobody of the text is in memory;
* `Births`: one child at a time is written out for a parent;
* `BufferOK`: one transfer at a time, and `SwBuf` is busy while it lasts;
* `Divided(mem, MemUse, NPages)` and `Divided(swap, SwapUse, NBlocks)`: the two parts of
  `AreasExact` in a form a step can be compared with, a function from users (an image, a
  text, `Sched`) to the units each has, disjoint and together the complement of the map.

`Takes`, `Gives` and `Hands` say what `AllocMap` and `FreeMap` do to a divided map when one
user takes or gives back units, or hands them to another; `XccDecDoes` and `XFreeDoes` what
the two operations on texts do
to the users of both maps and to the counts; `PagesIs`, `PagesSums`, `ShrinkFits` and
`ShrinkExact` are the arithmetic of pages, with a page of any number of blocks. There is one
lemma for each action (`ForkStep`, `ExpandSwapStep`, ...), and `StepSound` combines them.
`MemoryIsExact` and `SwapIsExact` lead back from `Divided` to the invariant of the run.

The steps that make `wild` true (`ShrinkStep`, `ExecTextStep`) are proved to leave the maps
in order all the same, so `WellFormed` of both holds without any condition: what `sbreak`
gives back wrongly was part of the image all the same, and overlaps no free area.

## 11. Directories

`Directories` has the tree of names and the calls that walk and change it. `IGet` and `IPut`
are taken for what they do to one inode; the table and the free list are `Inodes`'.

| TLA+ | Code |
|---|---|
| `node` | kind of `i_mode`, `i_nlink`, `i_count`, `ILOCK` with the process that set it |
| `ent` | the `DirectoryEntry`s of a directory, free ones included |
| `free` | inodes `IAlloc` can give out |
| `files`, `cdir` | open files by inode; `u_cdir` |
| `path` | what is left of the path name; its first component is `u_dbuf` |
| `refs` | the inodes a call has got and not yet put: `pInode`, `u_pdir`, `pDeleteInode` |
| `num`, `off` | `u_dent.m_ino`, `m_Offset` |
| `back` | where the call goes on after `IPut` |

| Action | Code |
|---|---|
| `Call`, `Arrived`, `Denied`, `Descend`, `Enter`, `NextFails`, `NotFound`, `ToCreate`, `ToDelete`, `Error` | `NameI`, one action per way through a component |
| `Get` (in `Call`, `Enter`, `IAlloc`, `LinkTo`, `UnLink`) | `IGet` |
| `IPutShared`, `IPutLast`, `Truncated`, `Release` | `IPut` |
| `IAlloc`, `MakNodeFails`, `MakNode`, `WriteDir`, `WriteDirFails` | `MakNode`, `WriteDir` with its `WriteI` |
| `Refused`, `Empties`, `Open1`, `Open1Full` | `Open1`, and the refusals of the other calls |
| `ChDir`, `Entered` | `ChDir` |
| `Link`, `LinkTo`, `Linked` | `Link` with its second `NameI` |
| `UnLink`, `UnLinkDenied`, `Clear`, `Unlinked`, `UnlinkFails` | `UnLink` after its `NameI` |
| `Close` | `CloseF` |

What is abstracted: permissions may always be denied (`Denied`, `Refused`) except those the
code ties to the superuser; a directory is one block, so a search sees the entries of one
moment, after a sleep for the block; an inode is in core exactly while it is counted; one
device, no mount points. `fork` and `exit`, which count `u_cdir` again, are left out; so is
the full in-core table under `UnLink`, where the kernel panics. A directory's block that
cannot be read while `NameI` searches it is left out (the call fails, and of a `creat` or
`link` it leaves the directory locked, as `MakNodeFails` does); so are a directory's index
blocks, and a buffer that still holds an entry which never got to the disk.

`WriteI` returns without a word when `Bmap` finds no block (`INode.cpp:170`), when the block
cannot be read, or when an error stands already, and neither `WriteDir` (`FileManager.cpp:789`)
nor `Link` (line 1000) nor `UnLink` (line 1036) looks. `WriteDirFails` and `UnlinkFails` are
these. After the first, `i_nlink` counts a name that no directory has: `Link`'s, or the only
one of the inode `MakNode` has made, which then is never freed. `unwritten` counts them, and
the run goes on. A free entry is written where it is, and a new one needs a block of its own
after every `PerBlock` entries, which is 16 in the code; only there can `Link`, whose call has
no error yet, find no block.

Three faults of the code end what the run follows (`Followed`): the directory that `MakNode`
leaves locked and counted when `IAlloc` fails (`FileManager.cpp:756`), recorded in `kept`,
an `IPut` that clears the lock of a process at work (`OpenFileManager.cpp:230`), recorded in
`stolen`, and an entry that `UnLink` could not clear though it counts the name down,
recorded in `uncleared`: the inode is freed while a name leads to it. With `Beyond` the model
goes on, and `DirLost` shows a name lost to a stolen lock.

Run `Directories`: the root and two inodes, so that one can be a directory and the other a
file in it or both are made and removed; names `a` and `b`; one process of the superuser
that makes, unlinks and enters directories, by a path of none, one and two components, and
one that opens, closes, creats, links and unlinks files; one open file, so that the table runs full;
`MaxLink` 2, so that a link is refused; `PerBlock` 2, so that entries come with and without a
new block. The inodes but the root are interchangeable. Two
processes find every state the other sleeps in; a circle of waiting among them has two.
`CHECK_DEADLOCK FALSE`, because a process that waits in `IGet` is not woken.

* `RefsExact`: `i_count` is exactly the files, the working directories and what calls will
  put, on each of the many ways out of `NameI`, `Link`, `UnLink`, `ChDir` and `Open1`; the
  directories in `kept` are the only references lost.
* `NamesExact`: no directory has one name twice; `i_nlink` is the number of names and of
  those that were never written, except while `Link` or `MakNode` is between the two writes,
  and for names in a directory that was removed with them; no name leads to a free inode. A
  failing write thus counts a name too much and does nothing worse, but for `UnLink`'s. It
  rests on the lock of the directory from the search to the write, and holds until a lock is
  stolen or an entry is not cleared.
* `NoCircularWait`: no processes wait for inodes that they have locked against each other,
  which is why `Link` unlocks the file (comment at `FileManager.cpp:972`).

### Proofs

`DirectoriesProofs` proves `RefsExactHolds`, `Spec => []RefsExact`, from
`DirectoriesAssumption` (finitely many processes, the root is an inode, paths are of names)
for any inodes, names, paths and calls, with `Beyond` or without: whatever locks are
cleared and whatever directories are left behind, `i_count` stays exact.

`RefsExact` says nothing of where a call is, so `DirInv` adds how many references a call has
at each place of its way (`HasRefs`: one in `NameI`, two once `MakNode` or `UnLink` has the
file, one more throughout the second `NameI` of `Link`, and after `IPut` what the place it
returns to expects) and what it knows there (`Knows`: which calls come to a place, that
`num` is an inode before `IGet`). TLC checked `DirInv` on the instance of the run before it
was proved. `UsesChange` counts the references of all calls after one call's change, and
`Balanced` says that `RefsExact` is kept by a step that changes `i_count` by as much as the
call's references, the files and the directories in `kept`; `GetKeeps` is every `IGet`,
`GivesKeep` every `IPut`, `ChDirStep` the one step in which a working directory changes.

`NoCircularWaitHolds` proves `Spec => []NoCircularWait`, from the inductive `WaitInv`:
`DirInv` and, until `MakNode` leaves a directory locked, `Orderly`. Its parts: every inode a
call has locked is one of those in `MayLock`, which depends on the place (none where it
calls `IGet`, but for `MakNode`'s); the lock of an inode in `free` belongs to a call that
does not sleep for another inode (`FreeQuiet`); the directory of a call in `MakNode` is not
free, the inode it has taken is no longer free, and a call that truncates an inode is its
only user and has it locked (`Taken`). A call that falls asleep then either has nothing
locked, so that nobody waits for it, or sleeps for a free inode, whose holder is awake:
either way no circle closes (`CircleStep`). That the only user of an inode stays the only
one is `UsedByTwo`, by the exact `i_count` of `RefsExact`. TLC checked `WaitInv` on the
instance of the run before it was proved.

`NamesExactHolds` proves `Spec => []NamesExact`, from the inductive `NamesInv`: `DirInv`
and, until an `IPut` clears a lock that is another's or an entry is not cleared, `Exact`.
Writes that fail are part of it. `NamesExact` says nothing of
the calls under way, and `Exact` adds what each of them relies on:

* `Alone`: a call that truncates or releases an inode, or has just taken one from the free
  list, is its only user and has it locked; `Idle` and `FreeIdle`: nobody else uses an
  inode that is no file, and one in `free` is none.
* `Held`: a call in `search`, `ialloc`, `made` or `writedir` has the directory locked, and
  one that clears an entry has the file locked, though not the directory.
* `Goes`: what was read is still so when it is used. The place for a new entry is free and
  the name nowhere else in the directory (`SlotFree`); the entry `UnLink` clears leads to
  the file it has; the inode `NameI` goes on to is named by the directory it came from,
  unless that directory has just been removed.
* `CountsAre`: `i_nlink` is the sum (`Tally`) of the entries, one for the root, the names
  that were never written (`unwritten`: none for a free inode), the calls that have counted
  and not yet written (`Making`), those that have written and not yet
  counted (`Linking`, less), and those on their way from a directory they have removed
  (`Pending`): without these the inode such a call goes on to would seem to lose its name
  before the call has it. At most so, once a directory with entries was removed.

A step of one call leaves what the others rely on (`OthersGo`): it changes inodes it has
and entries of a directory it has locked (`Modest`, `Edits`), and the one exception,
`UnLink`'s write into a directory that is not locked, touches only the entry of a file it
has locked, which no other call can be about to clear. That a directory which is removed is
used by nobody else is again the exact `i_count` (`OnlyUser`). `CountsChange` reduces the
tally to what one call and the entries add to it (`Weight`). TLC checked `NamesInv` on the
instance of the run.

## 12. Disagreements between code and comments

Each of these configurations makes TLC show a behaviour of the code that a comment
excludes, or that one would not expect. They are not among the runs; `tlc -config X.cfg M`
reproduces each.

| Configuration | Module | Property | What happens |
|---|---|---|---|
| `CacheBadData` | `MCBufferCache` | `ErrorNotHidden` | `Brelse` means to rename a buffer whose transfer failed (`BufferManager.cpp:155-157`), but `SetMinor` changes a copy and line 160 drops it: the next `Bread` returns the bytes without an error |
| `FreeOutside` | `MCFreeBlocks` | `OnlyDataBlocks` | after the list has run out `s_nfree` is 0 (`FileSystem.cpp:365`); the next call reads `s_free[-1]` and hands it out, although the comment (358-362) says such numbers make it fail |
| `FreeHalfDone` | `MCFreeBlocks` | `NoHalfFreeWritten` | `Update` tests `s_flock` (line 137), sleeps in `GetBlk` (157) and copies a table that `Free` has emptied; the comment in `Free` (423-427) says that setting `s_fmod` early prevents it. The next `Update` repairs it, a stop in between loses the list |
| `InodeWake` | `MCInodes` | `WaitersWoken` | `IGet` sets `IWANT` and sleeps on `&pInode`, the address of its own variable (`OpenFileManager.cpp:119`); `Prele` wakes those who sleep on the inode (`INode.cpp:614`). The comment of `IWANT` (`include/INode.h:24`) says that clearing `ILOCK` wakes the processes that wait. Here an open waits for the inode of a creat and sleeps on when nobody holds it |
| `InodeLock` | `MCInodes` | `OneLocks` | `IPut` ends with `Prele` on every path (`OpenFileManager.cpp:230`): a close unlocks an inode another process is at work on (comment at `FileManager.cpp:120-124`) |
| `DirLost` | `MCDirectories` | `CountsUnlessUncleared` | the same in a directory: a close clears the lock an unlink has on the file (`OpenFileManager.cpp:230`), a second unlink that has found the same entry gets the file too, both clear the entry, and `i_nlink` goes down twice: the inode can be freed while another name leads to it |
| `PipeUnlocked` | `MCPipe` | `LockExclusive` | the same for a pipe: a close lets a reader and a writer in together (`FileManager.cpp:415`) |
| `FileStale` | `MCFileBlocks` | `TablesRead` | `Alloc` fails below a table that `Bmap` has just allocated; the table's buffer is released neither valid nor marked for writing (`INode.cpp:346`, `389`), and old bytes of the disk are read as block numbers |
| `AlarmMissed` | `MCAlarm` | `AlarmAhead` | a second ends between the test and the `Sleep` of a second turn: the alarm is past and the process sleeps until another one sets it, the case the comment at `SystemCall.cpp:574-579` means to exclude |
| `BornSignalled` | `MCProcesses` | `BornQuiet` | `Kill` with pid 0 reaches free slots, and `Clone` leaves `p_sig` (`Process.cpp:273`): a process is born with a signal |
| `SlotReused` | `MCProcesses` | `SwapExactAlways` | `Wait` clears `p_stat`, sleeps in `Bread` and then frees the block in `p_addr` (`ProcessManager.cpp:353-361`): a fork has taken the slot meanwhile, and the block is lost |
| `OrphansToInit` | `MCProcesses` | `ToGrandparent` | the comment at `Process.cpp:257` gives a process's children to its own parent; the code gives them to process 1 |
| `NoRoomMade` | `MCSwapping` | `MakesRoom` | `Sched` should swap sleeping processes out (comment at `ProcessManager.cpp:247-250`); `==` binds more tightly than `&` (lines 255, 273), the condition never holds, and a process waits in the swap area |

## 13. Not modelled

Mount points, other devices, and the calls that change one field of an inode (`ChMod`,
`ChOwn`). The user-space port, which is sequential and repeats the kernel's file
system. The order in which `Select` takes processes by priority. Left out for good: DMA,
timer and interrupt-controller programming, boot and descriptor tables, PE parsing and the
kernel heap's wrapper (conversions and port output without state that another component
shares), the terminal driver (its sources are absent), the shell and user programs, and
the vendored tools, which are most of the repository's lines.

Out of the provers' reach, and left to TLC: liveness under fairness. Not proved, and left to
TLC: the two invariants of `FileBlocks`, whose folds along the paths of a file would need an
induction of their own.
