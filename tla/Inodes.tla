-------------------------------- MODULE Inodes --------------------------------
(*****************************************************************************)
(* The in-core inode table (InodeTable::IGet, IPut, UpdateInodeTable,        *)
(* Inode::Prele, IUpdate) and the super block's list of free inodes          *)
(* (FileSystem::IAlloc, IFree, the inode part of Update), with the calls     *)
(* that use them: open, creat, unlink, close, sync.                          *)
(*                                                                           *)
(* A process in the kernel runs until it sleeps: cpu is the process that has *)
(* not slept since its last step, and then only it can move.  Sleeps are:    *)
(* waiting for a locked inode or for s_ilock, reading a block of inodes,     *)
(* writing one, truncating a file, and what a caller does while it has the   *)
(* inode locked.  Of a file only i_mode # 0 and i_nlink > 0 matter, and no   *)
(* file has two names, so that i_nlink-- leaves none.                        *)
(*****************************************************************************)
EXTENDS Integers, Sequences, FiniteSets, SequencesExt, FiniteSetsExt

CONSTANTS Procs,      \* processes
          NoProc,     \* no process has the CPU
          NSlots,     \* NINODE: entries of the in-core table
          NInodes,    \* inodes on the disk
          PerBlock,   \* INODE_NUMBER_PER_SECTOR
          ListSize,   \* entries of s_inode: 100 in the code
          NFile,      \* entries of the open file table
          Failing,    \* inodes whose first read may fail
          Calls,      \* the calls processes make
          Beyond,     \* is the system followed beyond its known faults?
          MaxCrashes  \* bound on crashes

ASSUME InodesAssumption ==
    /\ IsFiniteSet(Procs) /\ NoProc \notin Procs
    /\ NSlots \in Nat \ {0} /\ NInodes \in Nat \ {0} /\ PerBlock \in Nat \ {0}
    /\ ListSize \in Nat \ {0} /\ NFile \in Nat /\ MaxCrashes \in Nat
    /\ Beyond \in BOOLEAN
    /\ Failing \subseteq 0..(NInodes - 1)
    /\ Calls \subseteq {"open", "creat", "unlink", "close", "sync"}

Inos  == 0..(NInodes - 1)
Slots == 1..NSlots
NoIno == -1          \* i_number of an entry that was released

BlockOf(i) == IF i = NoIno THEN 0 ELSE i \div PerBlock   \* -1 / 8 is 0 in C++
LastBlock  == BlockOf(NInodes - 1)

\* Channels to sleep on; Own is the address of IGet's own variable pInode.
Awake   == <<"awake", 0>>
Own     == <<"pInode", 0>>
ILock   == <<"s_ilock", 0>>
Node(s) == <<"inode", s>>

VARIABLES slot,     \* slot[s]: i_number, i_count, ILOCK, IWANT, IUPD, i_mode # 0, i_nlink > 0
          disk,     \* disk[i]: d_mode # 0 and d_nlink > 0, as read through the cache
          list,     \* s_inode[0 .. s_ninode-1]
          ilock,    \* s_ilock
          fmod,     \* s_fmod, for the list of inodes
          updlock,  \* updlock
          onDisk,   \* the list in the super block on the disk
          named,    \* inodes with a directory entry
          files,    \* files[s]: open files whose f_inode is entry s
          cpu,      \* the process that goes on without having slept, or NoProc
          pc,       \* where a process will go on
          call,     \* the call it is in
          num,      \* the inode number it asked IGet or Bread for
          sl,       \* the entry it works on
          back,     \* where it goes on after IPut or IUpdate
          scan,     \* the block, or the entry, a search has come to
          chan,     \* p_wchan
          wild,     \* IAlloc has got a number that is none of an inode (history)
          overtaken,\* an entry was given up for good while Update wrote it (history)
          misread,  \* an inode in use was freed because it could not be read (history)
          crashes   \* crashes so far

lists   == <<list, ilock, fmod, updlock, onDisk>>
locals  == <<call, num, sl, back, scan>>
history == <<wild, overtaken, misread, crashes>>
vars    == <<slot, disk, lists, named, files, cpu, pc, locals, chan, history>>

\* After Prele: the lock is cleared whoever has it.
Prele(e) == [e EXCEPT !.lock = FALSE, !.want = FALSE]

\* After the end of IPut for the last reference: i_mode and i_nlink stay.
Released(e) == [e EXCEPT !.num = NoIno, !.count = e.count - 1, !.lock = FALSE,
                         !.want = FALSE, !.upd = FALSE]

Put(f, p, v) == [f EXCEPT ![p] = v]

WakeUpAll(c) == chan' = [p \in Procs |-> IF chan[p] = c THEN Awake ELSE chan[p]]

\* Prele wakes those who sleep on the inode itself, if IWANT says there are any.
WakeWanting(s) == IF slot[s].want THEN WakeUpAll(Node(s)) ELSE UNCHANGED chan

\* The system is not followed beyond the first number that is none of an inode, and,
\* without Beyond, beyond the first inode that is written or freed wrongly.
Followed == ~wild /\ (Beyond \/ (~overtaken /\ ~misread))

\* Has p the CPU, or can it get it, at this place?
At(p, label) == pc[p] = label /\ cpu \in {p, NoProc} /\ chan[p] = Awake /\ Followed

GoOn(p, label)   == pc' = Put(pc, p, label) /\ cpu' = p
SleepAt(p, label) == pc' = Put(pc, p, label) /\ cpu' = NoProc

UserMode(p) ==
    /\ SleepAt(p, "user")
    /\ call' = Put(call, p, "none") /\ num' = Put(num, p, NoIno)
    /\ sl' = Put(sl, p, 0) /\ back' = Put(back, p, "user") /\ scan' = Put(scan, p, 0)

\* The state when the kernel has booted: LoadSuperBlock has copied the list.
EmptyTable == [s \in Slots |-> [num |-> NoIno, count |-> 0, lock |-> FALSE,
                                want |-> FALSE, upd |-> FALSE,
                                mode |-> FALSE, nlink |-> FALSE]]

Init ==
    /\ slot = EmptyTable
    /\ disk = [i \in Inos |-> [mode |-> FALSE, nlink |-> FALSE]]
    /\ list = [n \in 1..Min({ListSize, NInodes}) |-> n - 1]
    /\ onDisk = list
    /\ ilock = FALSE /\ fmod = FALSE /\ updlock = FALSE
    /\ named = {} /\ files = [s \in Slots |-> 0]
    /\ cpu = NoProc
    /\ pc = [p \in Procs |-> "user"] /\ call = [p \in Procs |-> "none"]
    /\ num = [p \in Procs |-> NoIno] /\ sl = [p \in Procs |-> 0]
    /\ back = [p \in Procs |-> "user"] /\ scan = [p \in Procs |-> 0]
    /\ chan = [p \in Procs |-> Awake]
    /\ wild = FALSE /\ overtaken = FALSE /\ misread = FALSE /\ crashes = 0

-----------------------------------------------------------------------------
(* Calls *)

Enters(p, c) == At(p, "user") /\ c \in Calls

\* NameI has found the entry of inode i.  Open gives up the directory first, which
\* may sleep; UnLink does not.
Open(p) == \E i \in named :
    /\ Enters(p, "open")
    /\ SleepAt(p, "iget")
    /\ call' = Put(call, p, "open") /\ num' = Put(num, p, i)
    /\ UNCHANGED <<slot, disk, lists, named, files, sl, back, scan, chan, history>>

UnLink(p) == \E i \in named :
    /\ Enters(p, "unlink")
    /\ GoOn(p, "iget")
    /\ call' = Put(call, p, "unlink") /\ num' = Put(num, p, i)
    /\ UNCHANGED <<slot, disk, lists, named, files, sl, back, scan, chan, history>>

Creat(p) ==
    /\ Enters(p, "creat")
    /\ SleepAt(p, "ialloc")
    /\ call' = Put(call, p, "creat")
    /\ UNCHANGED <<slot, disk, lists, named, files, num, sl, back, scan, chan, history>>

Close(p) == \E s \in Slots :
    /\ Enters(p, "close") /\ files[s] > 0
    /\ GoOn(p, "iput")
    /\ files' = [files EXCEPT ![s] = @ - 1]
    /\ sl' = Put(sl, p, s) /\ call' = Put(call, p, "close")
    /\ UNCHANGED <<slot, disk, lists, named, num, back, scan, chan, history>>

-----------------------------------------------------------------------------
(* IGet *)

\* Mutant: IGet would test index > 0.
LoadedNotFirst(i) == {s \in Slots \ {1} : slot[s].num = i /\ slot[s].count # 0}

Loaded(i) == {s \in Slots : slot[s].num = i /\ slot[s].count # 0}
FreeSlots == {s \in Slots : slot[s].count = 0}

\* IGet returns to IAlloc, or to a caller that uses the inode and may sleep.
Arrive(p) == IF call[p] = "creat" THEN GoOn(p, "chosen") ELSE SleepAt(p, "locked")

IGetWait(p) == \E s \in Loaded(num[p]) :
    /\ At(p, "iget") /\ slot[s].lock
    /\ slot' = [slot EXCEPT ![s].want = TRUE]
    /\ chan' = Put(chan, p, Own)
    /\ SleepAt(p, "iget")
    /\ UNCHANGED <<disk, lists, named, files, locals, history>>

\* Mutant: IGet would not count the reference to an inode that is in core.
IGetFoundUncounted(p) == \E s \in Loaded(num[p]) :
    /\ At(p, "iget") /\ ~slot[s].lock
    /\ slot' = [slot EXCEPT ![s].lock = TRUE]
    /\ sl' = Put(sl, p, s)
    /\ Arrive(p)
    /\ UNCHANGED <<disk, lists, named, files, call, num, back, scan, chan, history>>

IGetFound(p) == \E s \in Loaded(num[p]) :
    /\ At(p, "iget") /\ ~slot[s].lock
    /\ slot' = [slot EXCEPT ![s].count = @ + 1, ![s].lock = TRUE]
    /\ sl' = Put(sl, p, s)
    /\ Arrive(p)
    /\ UNCHANGED <<disk, lists, named, files, call, num, back, scan, chan, history>>

\* No copy is in core: the first free entry is taken and the block asked for.
IGetLoad(p) == \E s \in FreeSlots :
    /\ At(p, "iget") /\ Loaded(num[p]) = {}
    /\ \A t \in FreeSlots : s <= t
    /\ slot' = [slot EXCEPT ![s].num = num[p], ![s].count = @ + 1, ![s].lock = TRUE,
                            ![s].want = FALSE, ![s].upd = FALSE]
    /\ sl' = Put(sl, p, s)
    /\ SleepAt(p, "load")
    /\ UNCHANGED <<disk, lists, named, files, call, num, back, scan, chan, history>>

\* The table is full: NULL, and the call fails.
IGetFull(p) ==
    /\ At(p, "iget") /\ Loaded(num[p]) = {} /\ FreeSlots = {}
    /\ UserMode(p)
    /\ UNCHANGED <<slot, disk, lists, named, files, chan, history>>

\* Bread has delivered the block.
ICopy(p) ==
    /\ At(p, "load")
    /\ slot' = [slot EXCEPT ![sl[p]].mode = disk[num[p]].mode,
                            ![sl[p]].nlink = disk[num[p]].nlink]
    /\ Arrive(p)
    /\ UNCHANGED <<disk, lists, named, files, locals, chan, history>>

\* Mutant: IGet would return from an error without IPut.
IGetErrorKept(p) ==
    /\ At(p, "load") /\ num[p] \in Failing
    /\ UserMode(p)
    /\ UNCHANGED <<slot, disk, lists, named, files, chan, history>>

\* Bread has failed: IPut, with the i_nlink of the entry's last file.
IGetError(p) ==
    /\ At(p, "load") /\ num[p] \in Failing
    /\ GoOn(p, "unread")
    /\ UNCHANGED <<slot, disk, lists, named, files, locals, chan, history>>

-----------------------------------------------------------------------------
(* What a caller does with the inode it has locked *)

OpenFiles == MapThenSumSet(LAMBDA s : files[s], Slots)

\* MakNode has written the directory entry; giving up the directory may sleep.
WriteDir(p) ==
    /\ At(p, "writedir")
    /\ named' = named \cup {num[p]}
    /\ SleepAt(p, "locked")
    /\ UNCHANGED <<slot, disk, lists, files, locals, chan, history>>

\* The inode is unlocked and a file refers to it.  Creat of an existing file has
\* truncated it.
Open1(p) == \E truncated \in {FALSE, call[p] = "open"} :
    /\ At(p, "locked") /\ call[p] # "unlink" /\ OpenFiles < NFile
    /\ slot' = [slot EXCEPT ![sl[p]].lock = FALSE, ![sl[p]].want = FALSE,
                            ![sl[p]].upd = @ \/ truncated]
    /\ WakeWanting(sl[p])
    /\ files' = [files EXCEPT ![sl[p]] = @ + 1]
    /\ UserMode(p)
    /\ UNCHANGED <<disk, lists, named, history>>

\* Permission is denied, or the file table is full: the reference is given back.
Open1Denied(p) ==
    /\ At(p, "locked") /\ call[p] = "open"
    /\ GoOn(p, "iput")
    /\ UNCHANGED <<slot, disk, lists, named, files, locals, chan, history>>

Open1Full(p) ==
    /\ At(p, "locked") /\ call[p] # "unlink" /\ OpenFiles >= NFile
    /\ slot' = [slot EXCEPT ![sl[p]] = Prele(@)]
    /\ WakeWanting(sl[p])
    /\ GoOn(p, "iput")
    /\ UNCHANGED <<disk, lists, named, files, locals, history>>

\* The directory entry has been cleared; the parent is given up, which may sleep.
Unlinked(p) ==
    /\ At(p, "locked") /\ call[p] = "unlink"
    /\ slot' = [slot EXCEPT ![sl[p]].nlink = FALSE, ![sl[p]].upd = TRUE]
    /\ named' = named \ {num[p]}
    /\ SleepAt(p, "iput")
    /\ UNCHANGED <<disk, lists, files, locals, chan, history>>

-----------------------------------------------------------------------------
(* IPut *)

\* IPut is called with an inode, or with the entry of one that could not be read.
AtIPut(p) == At(p, "iput") \/ At(p, "unread")

\* Update is at work on the entry, which it has locked and does not count.
Updating(s) == \E q \in Procs : /\ call[q] = "sync" /\ pc[q] \in {"update", "write"}
                               /\ sl[q] = s

\* p gives up the last reference: does it overtake Update?
GivesUp(p) == overtaken' = (overtaken \/ Updating(sl[p]))

\* Back to user mode, or to the loop of IAlloc.
IPutReturn(p) ==
    IF back[p] = "user" THEN UserMode(p)
    ELSE /\ GoOn(p, back[p])
         /\ sl' = Put(sl, p, 0) /\ back' = Put(back, p, "user")
         /\ UNCHANGED <<call, num, scan>>

IPutShared(p) ==
    /\ AtIPut(p) /\ slot[sl[p]].count # 1
    /\ slot' = [slot EXCEPT ![sl[p]].count = @ - 1, ![sl[p]].lock = FALSE,
                            ![sl[p]].want = FALSE]
    /\ WakeWanting(sl[p])
    /\ IPutReturn(p)
    /\ UNCHANGED <<disk, lists, named, files, history>>

\* Mutant: IPut would not lock the inode before ITrunc.
IPutTruncUnlocked(p) ==
    /\ AtIPut(p) /\ slot[sl[p]].count = 1 /\ ~slot[sl[p]].nlink
    /\ slot' = [slot EXCEPT ![sl[p]].lock = FALSE]
    /\ GivesUp(p)
    /\ misread' = (misread \/ (pc[p] = "unread" /\ disk[num[p]].mode))
    /\ SleepAt(p, "trunc")
    /\ UNCHANGED <<disk, lists, named, files, locals, chan, wild, crashes>>

\* The last reference to a file without a directory entry: ITrunc sleeps.
IPutTrunc(p) ==
    /\ AtIPut(p) /\ slot[sl[p]].count = 1 /\ ~slot[sl[p]].nlink
    /\ slot' = [slot EXCEPT ![sl[p]].lock = TRUE]
    /\ GivesUp(p)
    /\ misread' = (misread \/ (pc[p] = "unread" /\ disk[num[p]].mode))
    /\ SleepAt(p, "trunc")
    /\ UNCHANGED <<disk, lists, named, files, locals, chan, wild, crashes>>

\* The last reference to a changed inode: IUpdate asks for its block.
IPutUpdate(p) ==
    /\ AtIPut(p) /\ slot[sl[p]].count = 1 /\ slot[sl[p]].nlink
    /\ slot[sl[p]].upd
    /\ slot' = [slot EXCEPT ![sl[p]].lock = TRUE]
    /\ GivesUp(p)
    /\ num' = Put(num, p, slot[sl[p]].num)
    /\ SleepAt(p, "update")
    /\ UNCHANGED <<disk, lists, named, files, call, sl, back, scan, chan, wild, misread,
                   crashes>>

IPutClean(p) ==
    /\ AtIPut(p) /\ slot[sl[p]].count = 1 /\ slot[sl[p]].nlink
    /\ ~slot[sl[p]].upd
    /\ slot' = [slot EXCEPT ![sl[p]] = Released(@)]
    /\ GivesUp(p)
    /\ WakeWanting(sl[p])
    /\ IPutReturn(p)
    /\ UNCHANGED <<disk, lists, named, files, wild, misread, crashes>>

\* The inode goes on the list, unless that is locked or full.
IFree(i) ==
    IF ilock \/ Len(list) >= ListSize THEN UNCHANGED <<list, fmod>>
    ELSE list' = Append(list, i) /\ fmod' = TRUE

\* ITrunc has freed the blocks and set IUPD; IUpdate asks for the block.
Truncated(p) ==
    /\ At(p, "trunc")
    /\ slot' = [slot EXCEPT ![sl[p]].mode = FALSE, ![sl[p]].upd = TRUE]
    /\ IFree(slot[sl[p]].num)
    /\ num' = Put(num, p, slot[sl[p]].num)
    /\ SleepAt(p, "update")
    /\ UNCHANGED <<disk, ilock, updlock, onDisk, named, files, call, sl, back, scan,
                   chan, history>>

\* Bread has delivered the block.  The fields of the entry are copied into it, at
\* the place its i_number says; for i_number -1 that is a place before the buffer.
IUpdate(p) ==
    /\ At(p, "update")
    /\ LET e  == slot[sl[p]]
           to == BlockOf(num[p]) * PerBlock + (e.num % PerBlock)
       IN  disk' = [i \in Inos |-> IF e.num # NoIno /\ i = to
                                   THEN [mode |-> e.mode, nlink |-> e.nlink]
                                   ELSE disk[i]]
    /\ SleepAt(p, "write")
    /\ UNCHANGED <<slot, lists, named, files, locals, chan, history>>

IPutDone(p) ==
    /\ At(p, "write") /\ back[p] # "sync"
    /\ slot' = [slot EXCEPT ![sl[p]] = Released(@)]
    /\ WakeWanting(sl[p])
    /\ IPutReturn(p)
    /\ UNCHANGED <<disk, lists, named, files, history>>

-----------------------------------------------------------------------------
(* IAlloc *)

IAllocWait(p) ==
    /\ At(p, "ialloc") /\ ilock
    /\ chan' = Put(chan, p, ILock)
    /\ SleepAt(p, "ialloc")
    /\ UNCHANGED <<slot, disk, lists, named, files, locals, history>>

\* The list is empty: search the disk for free inodes.
IAllocSearch(p) ==
    /\ At(p, "ialloc") /\ ~ilock /\ list = << >>
    /\ ilock' = TRUE
    /\ scan' = Put(scan, p, 0)
    /\ SleepAt(p, "search")
    /\ UNCHANGED <<slot, disk, list, fmod, updlock, onDisk, named, files, call, num,
                   sl, back, chan, history>>

\* The numbers of a set, in ascending order
Ascending(S) == CHOOSE f \in [1..Cardinality(S) -> S] :
    \A m, n \in DOMAIN f : m < n => f[m] < f[n]

\* The list with the free inodes of block b: d_mode is 0 and there is no copy in core.
Searched(b) ==
    LET free == {i \in Inos : BlockOf(i) = b /\ ~disk[i].mode /\ Loaded(i) = {}}
        all  == list \o Ascending(free)
    IN  SubSeq(all, 1, Min({Len(all), ListSize}))

\* Bread has delivered a block of inodes, and there is more to search.
IAllocBlock(p) ==
    /\ At(p, "search")
    /\ scan[p] < LastBlock /\ Len(Searched(scan[p])) < ListSize
    /\ list' = Searched(scan[p])
    /\ scan' = Put(scan, p, scan[p] + 1)
    /\ SleepAt(p, "search")
    /\ UNCHANGED <<slot, disk, ilock, fmod, updlock, onDisk, named, files, call, num,
                   sl, back, chan, history>>

\* It was the last, or the list is full: unlock, and go on if there is an inode.
IAllocFound(p) ==
    /\ At(p, "search")
    /\ scan[p] = LastBlock \/ Len(Searched(scan[p])) >= ListSize
    /\ list' = Searched(scan[p])
    /\ ilock' = FALSE /\ WakeUpAll(ILock)
    /\ IF list' = << >> THEN UserMode(p)
                        ELSE GoOn(p, "pop") /\ UNCHANGED locals
    /\ UNCHANGED <<slot, disk, fmod, updlock, onDisk, named, files, history>>

\* The top of the list, at first and after an occupied inode.
IAllocTake(p) ==
    /\ At(p, "pop") \/ (At(p, "ialloc") /\ ~ilock)
    /\ list # << >> /\ Last(list) # NoIno
    /\ list' = Front(list)
    /\ num' = Put(num, p, Last(list))
    /\ GoOn(p, "iget")
    /\ UNCHANGED <<slot, disk, ilock, fmod, updlock, onDisk, named, files, call, sl,
                   back, scan, chan, history>>

\* After an occupied inode the list is not tested: s_inode[-1] is read.  Or the number is
\* -1: that of an entry that was released while another was about to free its inode.
IAllocOutside(p) ==
    /\ \/ At(p, "pop") /\ list = << >>
       \/ /\ At(p, "pop") \/ (At(p, "ialloc") /\ ~ilock)
          /\ list # << >> /\ Last(list) = NoIno
    /\ wild' = TRUE
    /\ UserMode(p)
    /\ UNCHANGED <<slot, disk, lists, named, files, chan, overtaken, misread, crashes>>

\* Mutant: MakNode would not set IUPD.
IAllocFreeUnmarked(p) ==
    /\ At(p, "chosen") /\ ~slot[sl[p]].mode
    /\ slot' = [slot EXCEPT ![sl[p]].mode = TRUE, ![sl[p]].nlink = TRUE]
    /\ fmod' = TRUE
    /\ SleepAt(p, "writedir")
    /\ UNCHANGED <<disk, list, ilock, updlock, onDisk, named, files, locals, chan, history>>

\* Mutant: IAlloc would not test i_mode.
IAllocFreeUntested(p) ==
    /\ At(p, "chosen")
    /\ slot' = [slot EXCEPT ![sl[p]].mode = TRUE, ![sl[p]].nlink = TRUE,
                            ![sl[p]].upd = TRUE]
    /\ fmod' = TRUE
    /\ SleepAt(p, "writedir")
    /\ UNCHANGED <<disk, list, ilock, updlock, onDisk, named, files, locals, chan, history>>

\* IGet has returned a free inode: Clean, and MakNode fills it in.
IAllocFree(p) ==
    /\ At(p, "chosen") /\ ~slot[sl[p]].mode
    /\ slot' = [slot EXCEPT ![sl[p]].mode = TRUE, ![sl[p]].nlink = TRUE,
                            ![sl[p]].upd = TRUE]
    /\ fmod' = TRUE
    /\ SleepAt(p, "writedir")
    /\ UNCHANGED <<disk, list, ilock, updlock, onDisk, named, files, locals, chan, history>>

IAllocOccupied(p) ==
    /\ At(p, "chosen") /\ slot[sl[p]].mode
    /\ back' = Put(back, p, "pop")
    /\ GoOn(p, "iput")
    /\ UNCHANGED <<slot, disk, lists, named, files, call, num, sl, scan, chan, history>>

-----------------------------------------------------------------------------
(* Update *)

\* The super block is to be written if it has changed and the list is not locked; GetBlk
\* sleeps.
Sync(p) ==
    /\ Enters(p, "sync") /\ ~updlock
    /\ updlock' = TRUE
    /\ call' = Put(call, p, "sync") /\ scan' = Put(scan, p, 1)
    /\ IF fmod /\ ~ilock THEN fmod' = FALSE /\ SleepAt(p, "super")
                         ELSE GoOn(p, "sync") /\ UNCHANGED fmod
    /\ UNCHANGED <<slot, disk, list, ilock, onDisk, named, files, num, sl, back, chan,
                   history>>

\* The list is copied as it is by now, and Bwrite sleeps.
SyncSuper(p) ==
    /\ At(p, "super")
    /\ onDisk' = list
    /\ SleepAt(p, "sync")
    /\ UNCHANGED <<slot, disk, list, ilock, fmod, updlock, named, files, locals, chan,
                   history>>

\* An entry in use and not locked is locked, and written if it has changed.
SyncInode(p) ==
    /\ At(p, "sync") /\ scan[p] \in Slots
    /\ LET s == scan[p] IN
         IF slot[s].lock \/ slot[s].count = 0 \/ ~slot[s].upd
         THEN /\ scan' = Put(scan, p, s + 1)
              /\ GoOn(p, "sync")
              /\ UNCHANGED <<slot, num, sl, back>>
         ELSE /\ slot' = [slot EXCEPT ![s].lock = TRUE]
              /\ num' = Put(num, p, slot[s].num)
              /\ sl' = Put(sl, p, s) /\ back' = Put(back, p, "sync")
              /\ SleepAt(p, "update")
              /\ UNCHANGED scan
    /\ UNCHANGED <<disk, lists, named, files, call, chan, history>>

SyncWritten(p) ==
    /\ At(p, "write") /\ back[p] = "sync"
    /\ slot' = [slot EXCEPT ![sl[p]] = Prele(@)]
    /\ WakeWanting(sl[p])
    /\ num' = Put(num, p, NoIno)
    /\ sl' = Put(sl, p, 0) /\ back' = Put(back, p, "user")
    /\ scan' = Put(scan, p, scan[p] + 1)
    /\ GoOn(p, "sync")
    /\ UNCHANGED <<disk, lists, named, files, call, history>>

SyncEnd(p) ==
    /\ At(p, "sync") /\ scan[p] \notin Slots
    /\ updlock' = FALSE
    /\ UserMode(p)
    /\ UNCHANGED <<slot, disk, list, ilock, fmod, onDisk, named, files, chan, history>>

-----------------------------------------------------------------------------

\* The machine stops and is started again.  A file whose inode was written has its
\* directory entry, unless that was removed.
Crash == \E lost \in SUBSET {i \in named : disk[i].mode} :
    /\ crashes < MaxCrashes /\ Followed
    /\ crashes' = crashes + 1
    /\ slot' = EmptyTable /\ files' = [s \in Slots |-> 0]
    /\ list' = onDisk
    /\ ilock' = FALSE /\ fmod' = FALSE /\ updlock' = FALSE
    /\ named' = {i \in named : disk[i].mode} \ lost
    /\ cpu' = NoProc
    /\ pc' = [p \in Procs |-> "user"] /\ call' = [p \in Procs |-> "none"]
    /\ num' = [p \in Procs |-> NoIno] /\ sl' = [p \in Procs |-> 0]
    /\ back' = [p \in Procs |-> "user"] /\ scan' = [p \in Procs |-> 0]
    /\ chan' = [p \in Procs |-> Awake]
    /\ UNCHANGED <<disk, onDisk, wild, overtaken, misread>>

NotFollowed == ~Followed /\ UNCHANGED vars

Step(p) ==
    \/ Open(p) \/ UnLink(p) \/ Creat(p) \/ Close(p) \/ Sync(p)
    \/ IGetWait(p) \/ IGetFound(p) \/ IGetLoad(p) \/ IGetFull(p)
    \/ ICopy(p) \/ IGetError(p)
    \/ WriteDir(p) \/ Open1(p) \/ Open1Denied(p) \/ Open1Full(p) \/ Unlinked(p)
    \/ IPutShared(p) \/ IPutTrunc(p) \/ IPutUpdate(p) \/ IPutClean(p)
    \/ Truncated(p) \/ IUpdate(p) \/ IPutDone(p)
    \/ IAllocWait(p) \/ IAllocSearch(p) \/ IAllocBlock(p) \/ IAllocFound(p)
    \/ IAllocTake(p) \/ IAllocOutside(p) \/ IAllocFree(p) \/ IAllocOccupied(p)
    \/ SyncSuper(p) \/ SyncInode(p) \/ SyncWritten(p) \/ SyncEnd(p)

Next == Crash \/ NotFollowed \/ \E p \in Procs : Step(p)

Spec == Init /\ [][Next]_vars

-----------------------------------------------------------------------------

Uses(p, s)    == sl[p] = s /\ call[p] # "sync"
Users(s)      == {p \in Procs : Uses(p, s)}
HasLock(p, s) == sl[p] = s /\ pc[p] \in {"writedir", "locked"}

\* No inode has two copies in core (IsLoaded, IGet 106-151): with two, one of the
\* IUpdates would undo the other.
OneCopy == \A s, t \in Slots :
    /\ slot[s].count > 0 /\ slot[t].count > 0
    /\ slot[s].num = slot[t].num /\ slot[s].num # NoIno
    => s = t

\* i_count is the number of open files that refer to the entry and of processes
\* that are at work on it: none is lost and none is left (IGet, IPut, Open1, CloseF).
RefCounts == \A s \in Slots :
    slot[s].count = files[s] + Cardinality(Users(s))

\* The invariant behind OneCopy and RefCounts: what kind of call is where, and
\* where it has an entry.  Only Update leaves the entry uncounted.
EntriesOK ==
    /\ DOMAIN slot = Slots /\ files \in [Slots -> Nat]
    /\ \A s \in Slots :
          /\ DOMAIN slot[s] = {"num", "count", "lock", "want", "upd", "mode", "nlink"}
          /\ slot[s].count \in Int

PlaceOK(p) ==
    /\ pc[p] \in {"user", "iget", "ialloc", "search", "pop"}
          => sl[p] = 0 /\ back[p] = "user" /\ call[p] # "sync"
    /\ pc[p] \in {"load", "unread", "locked", "writedir", "chosen"}
          => sl[p] \in Slots /\ back[p] = "user" /\ call[p] # "sync"
    /\ pc[p] \in {"iput", "trunc"}
          => sl[p] \in Slots /\ back[p] \in {"user", "pop"} /\ call[p] # "sync"
    /\ pc[p] \in {"update", "write"}
          => /\ sl[p] \in Slots /\ back[p] \in {"user", "pop", "sync"}
             /\ back[p] = "sync" <=> call[p] = "sync"
    /\ pc[p] \in {"super", "sync"} => call[p] = "sync"

PlacesOK ==
    /\ DOMAIN pc = Procs /\ DOMAIN call = Procs
    /\ DOMAIN sl = Procs /\ DOMAIN back = Procs
    /\ \A p \in Procs : PlaceOK(p)

RefInv == EntriesOK /\ PlacesOK /\ OneCopy /\ RefCounts

\* A name always leads to an inode in use, on the disk or in core: IAlloc, MakNode,
\* IPut and Update order their writes so that none is given up while it has a name.  Only
\* an entry that is given up under Update (OpenFileManager.cpp:245), or one whose inode
\* could not be read (line 181), can make it otherwise.
NamedAlive == ~overtaken /\ ~misread =>
    \A i \in named : disk[i].mode \/ \E s \in Loaded(i) : slot[s].mode

\* The inode IAlloc has given to a process has no name yet and was given to nobody
\* else, whatever the list of free inodes says (IAlloc 287-299); with the same two
\* exceptions.
FreshInode == ~overtaken /\ ~misread =>
    \A p \in Procs : pc[p] = "writedir" =>
        /\ num[p] \notin named
        /\ \A q \in Procs \ {p} : pc[q] = "writedir" => num[q] # num[p]

\* The entry a process reads, uses or writes is still that of its inode when it has
\* slept, Update included: IPut has not given it to another (IPut 201-204,
\* UpdateInodeTable 237-243), unless a last reference was given up while Update wrote
\* the entry.
WorksOnItsInode == ~overtaken => \A p \in Procs :
    pc[p] \in {"load", "unread", "chosen", "writedir", "locked", "update", "write"}
        => slot[sl[p]].num = num[p]

\* ILOCK keeps others from an inode while the process that got it from IGet may
\* sleep (FileManager.cpp:120-124).
OneLocks == \A p, q \in Procs : \A s \in Slots :
    HasLock(p, s) /\ HasLock(q, s) => p = q

\* Who waits in IGet waits for an inode that is locked: Prele wakes the others
\* (INode.cpp:608).
WaitersWoken == \A p \in Procs :
    chan[p] = Own => \E s \in Loaded(num[p]) : slot[s].lock

=============================================================================
