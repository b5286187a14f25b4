--------------------------------- MODULE Pipe ---------------------------------
(*****************************************************************************)
(* A pipe: FileManager::Pipe, ReadP, WriteP, Inode::Plock, Prele, the turns  *)
(* of ReadI and WriteI, OpenFileTable::FAlloc, CloseF with the InodeTable::  *)
(* IPut of the pipe's inode, and the descriptors (OpenFiles, Dup, Fork) that *)
(* count the references to its two ends.                                     *)
(*                                                                           *)
(* A process in the kernel runs until it sleeps: for a lock, for data, for   *)
(* room, or for a block of the pipe's file in ReadI and WriteI.  cpu is the  *)
(* process that goes on without having slept.  The three channels of a pipe  *)
(* are the addresses of its inode and of the next two entries of the inode   *)
(* table, so that the use of those wakes its sleepers too.                   *)
(*****************************************************************************)
EXTENDS Integers, Sequences, FiniteSets, FiniteSetsExt

CONSTANTS Procs,     \* processes
          NoProc,    \* no process has the CPU
          Writers,   \* processes that may call write
          Readers,   \* processes that may call read
          Syncers,   \* processes that call sync
          Bytes,     \* what can be written
          NoByte,    \* what is in the file where there is nothing to read
          PIPSIZ,    \* bytes a pipe holds
          Block,     \* BLOCK_SIZE
          MaxCount,  \* bound on the bytes of one read or write
          NOFile,    \* NOFILES: descriptors of a process
          MaySignal  \* are signals sent?

ASSUME PipeAssumption ==
    /\ IsFiniteSet(Procs) /\ NoProc \notin Procs
    /\ Writers \subseteq Procs /\ Readers \subseteq Procs /\ Syncers \subseteq Procs
    /\ NoByte \notin Bytes
    /\ PIPSIZ \in Nat \ {0} /\ Block \in Nat \ {0} /\ MaxCount \in Nat \ {0}
    /\ NOFile \in Nat /\ MaySignal \in BOOLEAN

Ends == {"r", "w"}

\* Channels: the inode and the addresses of the next two entries of the table.
Awake == "awake"
Lock  == "pInode"
Room  == "pInode + 1"
Data  == "pInode + 2"

VARIABLES ino,     \* i_count, ILOCK, IWANT, i_size, IREAD, IWRITE, blocks of the file
          data,    \* the bytes in its blocks
          foff,    \* f_offset of the reading end
          fcount,  \* f_count of each end
          fds,     \* fds[p][e]: descriptors of p for end e
          cpu,     \* the process that goes on without having slept, or NoProc
          pc,      \* where a process will go on
          chan,    \* p_wchan
          end,     \* the end it closes
          left,    \* count of WriteP
          io,      \* u_IOParam: m_Offset, m_Count, and nbytes of the turn
          err,     \* u_error is set
          got,     \* the bytes last moved to a reader (history)
          wild     \* a lock was cleared under a process that held it (history)

file   == <<ino, data, foff>>
counts == <<fcount, fds>>
locals == <<end, left, io, err>>
vars   == <<file, counts, cpu, pc, chan, locals, got, wild>>

NoIO   == [off |-> 0, cnt |-> 0, n |-> 0]
NoPipe == [count |-> 0, lock |-> FALSE, want |-> FALSE, size |-> 0,
           iread |-> FALSE, iwrite |-> FALSE, blocks |-> 0]

Put(f, p, v) == [f EXCEPT ![p] = v]

Holds(p) == pc[p] \in {"rblock", "wblock", "sync", "trunc", "update"}

\* Between Plock and Prele nobody else is (FileManager.cpp:415).
LockExclusive == \A p, q \in Procs : Holds(p) /\ Holds(q) => p = q

\* Has p the CPU, or can it get it, at this place?  The pipe is not followed beyond
\* the first time two processes hold its lock.
At(p, label) ==
    /\ pc[p] = label /\ cpu \in {p, NoProc} /\ chan[p] = Awake
    /\ wild => LockExclusive

GoOn(p, label)    == pc' = Put(pc, p, label) /\ cpu' = p
SleepAt(p, label) == pc' = Put(pc, p, label) /\ cpu' = NoProc

UserMode(p) ==
    /\ SleepAt(p, "user")
    /\ end' = Put(end, p, "none") /\ left' = Put(left, p, 0)
    /\ io' = Put(io, p, NoIO) /\ err' = Put(err, p, FALSE)

Init ==
    /\ ino = NoPipe /\ foff = 0
    /\ data = [k \in 0..(PIPSIZ - 1) |-> NoByte]
    /\ fcount = [e \in Ends |-> 0]
    /\ fds = [p \in Procs |-> [e \in Ends |-> 0]]
    /\ cpu = NoProc
    /\ \E p \in Procs : pc = [q \in Procs |-> IF q = p THEN "user" ELSE "none"]
    /\ chan = [p \in Procs |-> Awake]
    /\ end = [p \in Procs |-> "none"] /\ left = [p \in Procs |-> 0]
    /\ io = [p \in Procs |-> NoIO] /\ err = [p \in Procs |-> FALSE]
    /\ got = << >> /\ wild = FALSE

-----------------------------------------------------------------------------
(* Descriptors *)

Enters(p) == At(p, "user")

\* Descriptors of p for the pipe.  Its others are not counted: AllocFreeSlot, and
\* the search for a free File, may fail at any time.
Used(p) == fds[p]["r"] + fds[p]["w"]

Dup(p) == \E e \in Ends :
    /\ Enters(p) /\ fds[p][e] > 0 /\ Used(p) < NOFile
    /\ fds' = [fds EXCEPT ![p][e] = @ + 1]
    /\ fcount' = [fcount EXCEPT ![e] = @ + 1]
    /\ UNCHANGED <<file, cpu, pc, chan, locals, got, wild>>

\* Clone: the child refers to the files of its parent.
Fork(p) == \E q \in Procs :
    /\ Enters(p) /\ pc[q] = "none"
    /\ pc' = Put(pc, q, "user")
    /\ fds' = Put(fds, q, fds[p])
    /\ fcount' = [e \in Ends |-> fcount[e] + fds[p][e]]
    /\ UNCHANGED <<file, cpu, chan, locals, got, wild>>

\* Exit has closed the files of the process.
Exit(p) ==
    /\ Enters(p) /\ Used(p) = 0
    /\ SleepAt(p, "none")
    /\ UNCHANGED <<file, counts, chan, locals, got, wild>>

\* Pipe begins: IAlloc finds an inode, which may sleep, and returns it locked.
NewInode(p) ==
    /\ Enters(p) /\ ino.count = 0
    /\ ino' = [NoPipe EXCEPT !.count = 1, !.lock = TRUE]
    /\ SleepAt(p, "pipe")
    /\ UNCHANGED <<data, foff, counts, chan, locals, got, wild>>

\* Both calls of FAlloc succeed.  i_flag is overwritten, and with it ILOCK.
PipeMade(p) ==
    /\ At(p, "pipe") /\ Used(p) + 2 <= NOFile
    /\ fcount' = [e \in Ends |-> 1]
    /\ fds' = [fds EXCEPT ![p] = [e \in Ends |-> @[e] + 1]]
    /\ foff' = 0
    /\ ino' = [ino EXCEPT !.count = 2, !.lock = FALSE, !.want = FALSE]
    /\ UserMode(p)
    /\ UNCHANGED <<data, chan, got, wild>>

\* Mutant: the File of the reading end would not be given back.
PipeFailsHalf(p) ==
    /\ At(p, "pipe")
    /\ fcount' = [fcount EXCEPT !["r"] = 1]
    /\ SleepAt(p, "trunc")
    /\ UNCHANGED <<file, fds, chan, locals, got, wild>>

\* One of them fails.  If it was the second, the File and the descriptor of the
\* first are given back; then IPut frees the inode.
PipeFails(p) ==
    /\ At(p, "pipe")
    /\ SleepAt(p, "trunc")
    /\ UNCHANGED <<file, counts, chan, locals, got, wild>>

-----------------------------------------------------------------------------
(* The lock *)

\* Prele by p: the lock is cleared, whoever has it.
Prele(p, e) ==
    /\ ino' = [e EXCEPT !.lock = FALSE, !.want = FALSE]
    /\ wild' = (wild \/ \E q \in Procs \ {p} : Holds(q))

\* The wake-ups of p, with that of Prele.
Wakes(channels) ==
    LET all == channels \cup (IF ino.want THEN {Lock} ELSE {})
    IN  chan' = [q \in Procs |-> IF chan[q] \in all THEN Awake ELSE chan[q]]

\* Plock finds the inode locked.
WaitLock(p) == \E label \in {"read", "write"} :
    /\ At(p, label) /\ ino.lock
    /\ ino' = [ino EXCEPT !.want = TRUE]
    /\ chan' = Put(chan, p, Lock)
    /\ SleepAt(p, label)
    /\ UNCHANGED <<data, foff, counts, locals, got, wild>>

\* Update writes every inode in use that is not locked, and locks it meanwhile.
Sync(p) ==
    /\ Enters(p) /\ p \in Syncers /\ ino.count # 0 /\ ~ino.lock
    /\ ino' = [ino EXCEPT !.lock = TRUE]
    /\ SleepAt(p, "sync")
    /\ UNCHANGED <<data, foff, counts, chan, locals, got, wild>>

SyncDone(p) ==
    /\ At(p, "sync")
    /\ Prele(p, ino) /\ Wakes({})
    /\ UserMode(p)
    /\ UNCHANGED <<data, foff, counts, got>>

-----------------------------------------------------------------------------
(* ReadP *)

Read(p, n) ==
    /\ Enters(p) /\ p \in Readers /\ fds[p]["r"] > 0
    /\ io' = [io EXCEPT ![p].cnt = n]
    /\ SleepAt(p, "read")
    /\ UNCHANGED <<file, counts, chan, end, left, err, got, wild>>

\* Mutant: only f_offset would go back to 0.
EmptiedOffsetOnly == IF foff = 0 THEN ino ELSE [ino EXCEPT !.iwrite = FALSE]

\* The pipe once its bytes have been read: both offsets go back to 0.
Emptied == IF foff = 0 THEN ino ELSE [ino EXCEPT !.size = 0, !.iwrite = FALSE]
Woken   == IF foff # 0 /\ ino.iwrite THEN {Room} ELSE {}

\* Nothing to read, and an end is closed: read returns 0.
ReadEnd(p) ==
    /\ At(p, "read") /\ ~ino.lock /\ foff = ino.size /\ ino.count < 2
    /\ foff' = 0
    /\ Prele(p, Emptied) /\ Wakes(Woken)
    /\ UserMode(p)
    /\ UNCHANGED <<data, counts, got>>

\* Nothing to read yet: wait for data.
ReadEmpty(p) ==
    /\ At(p, "read") /\ ~ino.lock /\ foff = ino.size /\ ino.count >= 2
    /\ foff' = 0
    /\ Prele(p, [Emptied EXCEPT !.iread = TRUE])
    /\ LET channels == Woken \cup (IF ino.want THEN {Lock} ELSE {})
       IN  chan' = [q \in Procs |-> IF q = p THEN Data
                                    ELSE IF chan[q] \in channels THEN Awake ELSE chan[q]]
    /\ SleepAt(p, "read")
    /\ UNCHANGED <<data, counts, locals, got>>

\* A turn of ReadI: what is moved is the rest of the block, of the request or of
\* the file.  The block is asked for.
ReadTurn(p, off, cnt) ==
    /\ cnt > 0 /\ off < ino.size
    /\ io' = Put(io, p, [off |-> off, cnt |-> cnt,
                         n |-> Min({Block - (off % Block), cnt, ino.size - off})])
    /\ SleepAt(p, "rblock")
    /\ UNCHANGED <<foff, counts, chan, end, left, err>>

\* ReadI has nothing more to do: f_offset is moved and the pipe unlocked.
ReadDone(p, off, cnt) ==
    /\ cnt = 0 \/ off >= ino.size
    /\ foff' = off
    /\ Prele(p, ino) /\ Wakes({})
    /\ UserMode(p)
    /\ UNCHANGED counts

ReadStart(p) ==
    /\ At(p, "read") /\ ~ino.lock /\ foff # ino.size
    /\ \/ /\ ReadTurn(p, foff, io[p].cnt)
          /\ ino' = [ino EXCEPT !.lock = TRUE] /\ UNCHANGED wild
       \/ ReadDone(p, foff, io[p].cnt)
    /\ UNCHANGED <<data, got>>

\* Bread has delivered the block.  Who holds the lock reads a byte once: it is then
\* forgotten.
ReadBlock(p) ==
    /\ At(p, "rblock")
    /\ LET off == io[p].off
           n   == io[p].n
       IN  /\ got' = [k \in 1..n |-> data[off + k - 1]]
           /\ \/ ReadTurn(p, off + n, io[p].cnt - n) /\ UNCHANGED <<ino, wild>>
              \/ ReadDone(p, off + n, io[p].cnt - n)
           /\ data' = [k \in DOMAIN data |-> IF k \in off..(off + n - 1) THEN NoByte
                                             ELSE data[k]]

-----------------------------------------------------------------------------
(* WriteP *)

Write(p) == \E n \in 0..MaxCount :
    /\ Enters(p) /\ p \in Writers /\ fds[p]["w"] > 0
    /\ left' = Put(left, p, n)
    /\ SleepAt(p, "write")
    /\ UNCHANGED <<file, counts, chan, end, io, err, got, wild>>

\* All is written; or an end is closed: EPIPE and SIGPIPE.
WriteEnd(p) ==
    /\ At(p, "write") /\ ~ino.lock
    /\ left[p] = 0 \/ ino.count < 2
    /\ Prele(p, ino) /\ Wakes({})
    /\ UserMode(p)
    /\ UNCHANGED <<data, foff, counts, got>>

\* Mutant: WriteP would not set IWRITE.
WriteFullUnmarked(p) ==
    /\ At(p, "write") /\ ~ino.lock /\ left[p] > 0 /\ ino.count >= 2
    /\ ino.size = PIPSIZ
    /\ Prele(p, ino)
    /\ LET channels == IF ino.want THEN {Lock} ELSE {}
       IN  chan' = [q \in Procs |-> IF q = p THEN Room
                                    ELSE IF chan[q] \in channels THEN Awake ELSE chan[q]]
    /\ SleepAt(p, "write")
    /\ UNCHANGED <<data, foff, counts, locals, got>>

\* The file has its full length: wait until it has been read to the end.
WriteFull(p) ==
    /\ At(p, "write") /\ ~ino.lock /\ left[p] > 0 /\ ino.count >= 2
    /\ ino.size = PIPSIZ
    /\ Prele(p, [ino EXCEPT !.iwrite = TRUE])
    /\ LET channels == IF ino.want THEN {Lock} ELSE {}
       IN  chan' = [q \in Procs |-> IF q = p THEN Room
                                    ELSE IF chan[q] \in channels THEN Awake ELSE chan[q]]
    /\ SleepAt(p, "write")
    /\ UNCHANGED <<data, foff, counts, locals, got>>

\* A turn of WriteI: Bmap and Bread or GetBlk may sleep.
WriteTurn(p, off, cnt) ==
    /\ io' = Put(io, p, [off |-> off, cnt |-> cnt, n |-> Min({Block - (off % Block), cnt})])
    /\ SleepAt(p, "wblock")

WriteStart(p) ==
    /\ At(p, "write") /\ ~ino.lock /\ left[p] > 0 /\ ino.count >= 2
    /\ ino.size # PIPSIZ /\ ~err[p]
    /\ LET cnt == Min({left[p], PIPSIZ - ino.size})
       IN  left' = [left EXCEPT ![p] = @ - cnt] /\ WriteTurn(p, ino.size, cnt)
    /\ ino' = [ino EXCEPT !.lock = TRUE]
    /\ UNCHANGED <<data, foff, counts, chan, end, err, got, wild>>

\* After WriteI: unlock, wake the readers and go on with the loop.
Written(p, e) ==
    /\ Prele(p, [e EXCEPT !.iread = FALSE])
    /\ Wakes(IF e.iread THEN {Data} ELSE {})
    /\ GoOn(p, "write")
    /\ io' = Put(io, p, NoIO)

\* u_error is set: WriteI writes nothing, and the count goes down all the same.
WriteSkip(p) ==
    /\ At(p, "write") /\ ~ino.lock /\ left[p] > 0 /\ ino.count >= 2
    /\ ino.size # PIPSIZ /\ err[p]
    /\ left' = [left EXCEPT ![p] = @ - Min({left[p], PIPSIZ - ino.size})]
    /\ Written(p, ino)
    /\ UNCHANGED <<data, foff, counts, end, err, got>>

\* The block is in core: a user's bytes are moved to it, and the file is longer.
WriteBlock(p) == \E s \in [1..io[p].n -> Bytes] :
    /\ At(p, "wblock")
    /\ LET off  == io[p].off
           next == off + io[p].n
           e    == [ino EXCEPT !.size = Max({ino.size, next}),
                               !.blocks = Max({ino.blocks, off \div Block + 1})]
       IN  /\ data' = [k \in DOMAIN data |-> IF k \in off..(next - 1) THEN s[k - off + 1]
                                             ELSE data[k]]
           /\ IF io[p].cnt > io[p].n
              THEN /\ WriteTurn(p, next, io[p].cnt - io[p].n)
                   /\ ino' = e
                   /\ UNCHANGED <<chan, wild>>
              ELSE Written(p, e)
    /\ UNCHANGED <<foff, counts, end, left, err, got>>

\* Bmap finds no block for the file: ENOSPC.
WriteNoSpace(p) ==
    /\ At(p, "wblock") /\ io[p].off \div Block >= ino.blocks
    /\ err' = Put(err, p, TRUE)
    /\ Written(p, ino)
    /\ UNCHANGED <<data, foff, counts, end, left, got>>

-----------------------------------------------------------------------------
(* CloseF *)

\* Mutant: CloseF would wake the readers only.
CloseSharedReaders(p) == \E e \in Ends :
    /\ Enters(p) /\ fds[p][e] > 0 /\ fcount[e] > 1
    /\ fds' = [fds EXCEPT ![p][e] = @ - 1]
    /\ fcount' = [fcount EXCEPT ![e] = @ - 1]
    /\ ino' = [ino EXCEPT !.iread = FALSE, !.iwrite = FALSE]
    /\ chan' = [q \in Procs |-> IF chan[q] = Data THEN Awake ELSE chan[q]]
    /\ UNCHANGED <<data, foff, cpu, pc, locals, got, wild>>

\* Another descriptor refers to the end.
CloseShared(p) == \E e \in Ends :
    /\ Enters(p) /\ fds[p][e] > 0 /\ fcount[e] > 1
    /\ fds' = [fds EXCEPT ![p][e] = @ - 1]
    /\ fcount' = [fcount EXCEPT ![e] = @ - 1]
    /\ ino' = [ino EXCEPT !.iread = FALSE, !.iwrite = FALSE]
    /\ chan' = [q \in Procs |-> IF chan[q] \in {Room, Data} THEN Awake ELSE chan[q]]
    /\ UNCHANGED <<data, foff, cpu, pc, locals, got, wild>>

\* The end is closed and the other is open: IPut gives up a reference and calls Prele.
CloseEnd(p) == \E e \in Ends :
    /\ Enters(p) /\ fds[p][e] > 0 /\ fcount[e] <= 1 /\ ino.count # 1
    /\ fds' = [fds EXCEPT ![p][e] = @ - 1]
    /\ fcount' = [fcount EXCEPT ![e] = @ - 1]
    /\ Prele(p, [ino EXCEPT !.iread = FALSE, !.iwrite = FALSE, !.count = @ - 1])
    /\ Wakes({Room, Data})
    /\ UNCHANGED <<data, foff, cpu, pc, locals, got>>

\* Both ends are closed: IPut locks the inode, and ITrunc sleeps.
CloseLast(p) == \E e \in Ends :
    /\ Enters(p) /\ fds[p][e] > 0 /\ fcount[e] <= 1 /\ ino.count = 1
    /\ fds' = [fds EXCEPT ![p][e] = @ - 1]
    /\ ino' = [ino EXCEPT !.iread = FALSE, !.iwrite = FALSE, !.lock = TRUE]
    /\ chan' = [q \in Procs |-> IF chan[q] \in {Room, Data} THEN Awake ELSE chan[q]]
    /\ end' = Put(end, p, e)
    /\ SleepAt(p, "trunc")
    /\ UNCHANGED <<data, foff, fcount, left, io, err, got, wild>>

\* The blocks are freed and the inode too; IUpdate sleeps.
Truncated(p) ==
    /\ At(p, "trunc")
    /\ ino' = [ino EXCEPT !.size = 0, !.blocks = 0, !.iread = FALSE, !.iwrite = FALSE]
    /\ data' = [k \in DOMAIN data |-> NoByte] /\ foff' = 0
    /\ SleepAt(p, "update")
    /\ UNCHANGED << counts, chan, locals, got, wild>>

Released(p) ==
    /\ At(p, "update")
    /\ Prele(p, [ino EXCEPT !.count = @ - 1]) /\ Wakes({})
    /\ fcount' = [e \in Ends |-> IF e = end[p] THEN fcount[e] - 1 ELSE fcount[e]]
    /\ UserMode(p)
    /\ UNCHANGED <<data, foff, fds, got>>

-----------------------------------------------------------------------------
(* Signals, and the neighbours in the inode table *)

\* A process that sleeps for the pipe, or has slept, gets a signal: the call ends.
Signal(p) ==
    /\ MaySignal /\ pc[p] \in {"read", "write"} /\ cpu = NoProc
    /\ chan' = Put(chan, p, Awake)
    /\ UserMode(p)
    /\ UNCHANGED <<file, counts, got, wild>>

\* The inodes at the addresses next to the pipe's are unlocked, or are pipes too.
Neighbour == \E c \in {Lock, Room, Data} :
    /\ \E p \in Procs : chan[p] = c
    /\ chan' = [q \in Procs |-> IF chan[q] = c THEN Awake ELSE chan[q]]
    /\ UNCHANGED <<file, counts, cpu, pc, locals, got, wild>>

Call(p) == \/ Dup(p) \/ Fork(p) \/ Exit(p) \/ NewInode(p) \/ Sync(p) \/ Write(p)
           \/ CloseShared(p) \/ CloseEnd(p) \/ CloseLast(p)

\* What a process does in the kernel once it has entered it.
Move(p) ==
    \/ PipeMade(p) \/ PipeFails(p) \/ WaitLock(p) \/ SyncDone(p)
    \/ ReadEnd(p) \/ ReadEmpty(p) \/ ReadStart(p) \/ ReadBlock(p)
    \/ WriteEnd(p) \/ WriteFull(p) \/ WriteStart(p) \/ WriteSkip(p)
    \/ WriteBlock(p) \/ WriteNoSpace(p) \/ Truncated(p) \/ Released(p)

Next ==
    \/ Neighbour
    \/ \E p \in Procs : Call(p) \/ Move(p) \/ Signal(p)
    \/ \E p \in Procs : \E n \in 0..MaxCount : Read(p, n)

Spec == Init /\ [][Next]_vars

\* A process that can run gets the CPU again and again, and readers keep asking for
\* bytes.
FairSpec == /\ Spec
            /\ \A p \in Procs : SF_vars(Move(p))
            /\ \A p \in Readers \ Writers :
                  /\ SF_vars(\E n \in 1..MaxCount : Read(p, n))
                  /\ SF_vars(io[p].cnt > 0 /\ ReadStart(p))

-----------------------------------------------------------------------------

TypeOK ==
    /\ ino \in [count : 0..2, lock : BOOLEAN, want : BOOLEAN, size : 0..PIPSIZ,
                iread : BOOLEAN, iwrite : BOOLEAN, blocks : 0..PIPSIZ]
    /\ data \in [0..(PIPSIZ - 1) -> Bytes \cup {NoByte}] /\ foff \in 0..PIPSIZ
    /\ fcount \in [Ends -> Nat] /\ fds \in [Procs -> [Ends -> 0..NOFile]]
    /\ cpu \in Procs \cup {NoProc}
    /\ pc \in [Procs -> {"none", "user", "pipe", "read", "rblock", "write", "wblock",
                         "sync", "trunc", "update"}]
    /\ chan \in [Procs -> {Awake, Lock, Room, Data}]
    /\ end \in [Procs -> Ends \cup {"none"}] /\ left \in [Procs -> 0..MaxCount]
    /\ io \in [Procs -> [off : 0..PIPSIZ, cnt : 0..MaxCount, n : 0..Block]]
    /\ err \in [Procs -> BOOLEAN] /\ wild \in BOOLEAN

\* The descriptors for an end, each as its process and a number.
Descriptors(e) == {d \in Procs \X (1..NOFile) : d[2] <= fds[d[1]][e]}

\* f_count is the number of descriptors that refer to an end, with one that is being
\* closed, and i_count the number of ends open: a pipe that could not be made leaves
\* no File behind, and none is given up twice (Pipe 371-388, CloseF 67-78, Clone).
EndsCounted ==
    /\ TypeOK
    /\ \A e \in Ends :
         fcount[e] = Cardinality(Descriptors(e)) + Cardinality({p \in Procs : end[p] = e})
    /\ (\A p \in Procs : pc[p] \notin {"pipe", "trunc", "update"})
         => ino.count = Cardinality({e \in Ends : fcount[e] > 0})

\* Nobody sleeps for something that has already happened: a reader that sleeps for
\* data has left IREAD set on a pipe that is empty and has both ends, a writer that
\* sleeps for room has left IWRITE set on a full one, and who waits for the lock
\* has left IWANT set on an inode that is locked (ReadP 416-446, WriteP 464-504,
\* Plock, Prele, CloseF 59-65).
SleepersHaveReason == \A p \in Procs :
    /\ chan[p] = Data => /\ ino.iread /\ ino.count = 2
                         /\ foff = ino.size \/ \E q \in Procs : pc[q] = "wblock"
    /\ chan[p] = Room => ino.iwrite /\ ino.count = 2 /\ ino.size = PIPSIZ
    /\ chan[p] = Lock => ino.want /\ (ino.lock \/ wild)

\* The bytes in the pipe: from where the reader is to the end of the file.
From == LET readers == {p \in Procs : pc[p] = "rblock"}
        IN  IF readers = {} THEN foff ELSE Max({io[p].off : p \in readers})

queue == [k \in 1..(ino.size - From) |-> data[From + k - 1]]
inUse == \E p \in Procs : Used(p) > 0

Fifo == INSTANCE BoundedFifo WITH Capacity <- PIPSIZ, queue <- queue, got <- got,
                                  inUse <- inUse

\* A pipe is a bounded first-in first-out queue of bytes, whatever turns its readers
\* and writers take (ReadP, WriteP), as long as no close has cleared its lock.
IsFifo == Fifo!FifoInit /\ [][wild' \/ Fifo!FifoNext]_<<queue, got, inUse>>

\* A write ends, as long as the processes that hold the reading end keep reading and
\* no writer is one of them.
WritersEnd == \A p \in Procs :
    pc[p] = "write" ~> pc[p] = "user" \/ wild \/ \E q \in Writers : fds[q]["r"] > 0

=============================================================================
