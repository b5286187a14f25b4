------------------------------- MODULE BufferCache -------------------------------
(*****************************************************************************)
(* The block buffer cache of the kernel (dev/BufferManager.cpp) together     *)
(* with the request queue and interrupt handler of the only block device     *)
(* (dev/BlockDevice.cpp, dev/ATADriver.cpp).                                 *)
(*                                                                           *)
(* The kernel runs on one CPU and is not preemptive: a process inside the    *)
(* kernel keeps the CPU until it sleeps, but the disk interrupt may run      *)
(* between any two steps that are not in one CLI/STI section.  An action is  *)
(* therefore one stretch of code in which the interrupt cannot be told to    *)
(* have run; cpu names the process that is executing in the kernel.          *)
(*****************************************************************************)
EXTENDS Integers, Sequences, FiniteSets, SequencesExt

CONSTANTS
    Procs,     \* processes
    Bufs,      \* buffer headers m_Buf[NBUF]
    Blocks,    \* block numbers of ROOTDEV
    Values,    \* contents of a block, abstracted
    Failing,   \* blocks on which the controller may report an error
    MaxErr,    \* tries after a first error, 10 in ATAHandler
    Calls,     \* entry points that callers use
    NoProc, NoBuf, NoBlock,
    FreeList   \* the address of bFreeList, a sleep channel

ASSUME CacheAssumption ==
    /\ IsFiniteSet(Bufs)
    /\ NoProc \notin Procs /\ NoBuf \notin Bufs /\ NoBlock \notin Blocks
    /\ FreeList \notin Bufs \cup {NoBuf}
    /\ Failing \subseteq Blocks
    /\ MaxErr \in Nat
    /\ Calls \subseteq {"getblk", "bread", "breada", "bflush"}

VARIABLES
    flags,      \* b_flags
    blk,        \* (b_dev, b_blkno): NoBlock is b_dev = -1
    data,       \* the 512 bytes at b_addr
    disk,       \* the medium
    freeList,   \* the av_forw chain of bFreeList, head first
    freeWanted, \* B_WANTED of bFreeList
    ioq,        \* the d_actf chain
    active,     \* d_active
    errcnt,     \* d_errcnt
    cpu,        \* the process executing in the kernel
    pc,         \* where each process is
    ret,        \* where GetBlk, IOWait or Brelse returns to
    req,        \* the call each process is making
    bp, abp,    \* local buffer pointers of the call
    chan,       \* p_wchan: what each process sleeps on, NoBuf when it does not
    uerror      \* u_error = EIO

cacheVars == <<flags, blk, data, freeList, freeWanted>>
diskVars  == <<disk, ioq, active, errcnt>>
procVars  == <<cpu, pc, ret, req, bp, abp, chan, uerror>>
vars == <<cacheVars, diskVars, procVars>>

Flag == {"READ", "DONE", "ERROR", "BUSY", "WANTED", "ASYNC", "DELWRI"}

Label == {"user", "getblk", "notavail", "take", "bread", "incore", "rafirst",
          "ranext", "raissue", "rafinish", "iowait", "hold", "brelse",
          "putfree", "bflush"}

\* The calls a kernel path can make; Breada without a next block has ahead = 0.
Request ==
    [call : Calls \cap {"getblk", "bread"}, blk : Blocks, ahead : {NoBlock}]
    \cup [call : Calls \cap {"breada"}, blk : Blocks, ahead : Blocks \cup {NoBlock}]
    \cup [call : Calls \cap {"bflush"}, blk : {NoBlock}, ahead : {NoBlock}]

NoReq == [call |-> "none", blk |-> NoBlock, ahead |-> NoBlock]

-----------------------------------------------------------------------------
\* Helpers

Has(b, f) == f \in flags[b]

\* The buffers of a chain, and that none is on it twice
Chain(s) == {s[i] : i \in DOMAIN s}
Distinct(s) == \A i, j \in DOMAIN s : s[i] = s[j] => i = j

\* InCore: the buffers of the device queue that hold block k (mutant: a search that
\* skips buffers in use)
InCoreIdle(k) == {b \in Bufs : blk[b] = k /\ ~Has(b, "BUSY")}
InCore(k) == {b \in Bufs : blk[b] = k}

\* GetBlk and Brelse work on the read-ahead buffer while Breada handles it.
Ahead(p) == ret[p] \in {"raissue", "rafinish"}
Want(p)  == IF Ahead(p) THEN req[p].ahead ELSE req[p].blk
Cur(p)   == IF Ahead(p) THEN abp[p] ELSE bp[p]

SetCur(p, b) ==
    IF Ahead(p)
    THEN abp' = [abp EXCEPT ![p] = b] /\ UNCHANGED bp
    ELSE bp' = [bp EXCEPT ![p] = b] /\ UNCHANGED abp

\* WakeUpAll(c): every sleeper on c becomes SRUN
Woken(c) == [p \in Procs |-> IF chan[p] = c THEN NoBuf ELSE chan[p]]

Goto(p, l) == pc' = [pc EXCEPT ![p] = l]

\* Sleep(c, PRIBIO), uninterruptible, resumed at label l
SleepOn(p, c, l) ==
    /\ chan' = [chan EXCEPT ![p] = c]
    /\ cpu' = NoProc
    /\ Goto(p, l)

\* ATABlockDevice::Strategy with Start: append, start an idle controller
Strategy(b) ==
    /\ ioq' = Append(ioq, b)
    /\ active' = IF active = 0 THEN 1 ELSE active
    /\ UNCHANGED <<disk, errcnt>>

\* The flags Bwrite clears before it calls Strategy (mutant: B_READ stays)
WriteFlagsRead(f) == f \ {"DONE", "ERROR", "DELWRI"}
WriteFlags(f) == f \ {"READ", "DONE", "ERROR", "DELWRI"}

Running(p, l) == cpu = p /\ pc[p] = l

-----------------------------------------------------------------------------
\* Mutants: forms of the definitions below with a plausible bug each.  No action
\* uses them.

\* getblk does not look whether the buffer it found is in use
GetBlkHitUnchecked(p) ==
    /\ Running(p, "getblk")
    /\ \E b \in InCore(Want(p)) : SetCur(p, b)
    /\ Goto(p, "notavail")
    /\ UNCHANGED <<cacheVars, diskVars, cpu, ret, req, chan, uerror>>

\* a buffer is reused without being marked busy
TakeCleanIdle(p) ==
    /\ Running(p, "take")
    /\ LET b == Head(freeList) IN
        /\ ~Has(b, "DELWRI")
        /\ flags' = [flags EXCEPT ![b] = {}]
        /\ blk' = [blk EXCEPT ![b] = Want(p)]
        /\ SetCur(p, b)
    /\ freeList' = Tail(freeList)
    /\ Goto(p, ret[p])
    /\ UNCHANGED <<data, freeWanted, diskVars, cpu, ret, req, chan, uerror>>

\* Bread hands the buffer over without waiting for the transfer
BreadMissNoWait(p) ==
    /\ Running(p, "bread")
    /\ ~Has(bp[p], "DONE")
    /\ flags' = [flags EXCEPT ![bp[p]] = @ \cup {"READ"}]
    /\ Strategy(bp[p])
    /\ Goto(p, "hold")
    /\ ret' = [ret EXCEPT ![p] = "hold"]
    /\ UNCHANGED <<blk, data, freeList, freeWanted, cpu, req, bp, abp, chan, uerror>>

\* Brelse wakes whoever waits for any buffer, not those who wait for this one
BrelseForgetful(p) ==
    /\ Running(p, "brelse")
    /\ chan' = Woken(FreeList)
    /\ freeWanted' = FALSE
    /\ Goto(p, "putfree")
    /\ UNCHANGED <<flags, blk, data, freeList, diskVars, cpu, ret, req, bp, abp, uerror>>

\* Breada asks for the next block even when it is cached, and may wait for its user
BreadaNextWaits(p) ==
    /\ Running(p, "ranext")
    /\ \/ /\ req[p].ahead # NoBlock
          /\ Goto(p, "getblk")
          /\ ret' = [ret EXCEPT ![p] = "raissue"]
       \/ /\ req[p].ahead = NoBlock
          /\ Goto(p, "rafinish")
          /\ UNCHANGED ret
    /\ UNCHANGED <<cacheVars, diskVars, cpu, req, bp, abp, chan, uerror>>

\* the end of a transfer wakes waiters only if B_WANTED says there are some
IODoneIfWanted(b, f) ==
    /\ "ASYNC" \notin f
    /\ flags' = [flags EXCEPT ![b] = (f \cup {"DONE"}) \ {"WANTED"}]
    /\ chan' = IF "WANTED" \in f THEN Woken(b) ELSE chan
    /\ UNCHANGED <<freeList, freeWanted>>

\* the handler dequeues a request and does not start the next
NextRequestStops ==
    /\ errcnt' = 0
    /\ ioq' = Tail(ioq)
    /\ active' = 0

-----------------------------------------------------------------------------
\* Scheduling

Init ==
    /\ flags = [b \in Bufs |-> {}]
    /\ blk = [b \in Bufs |-> NoBlock]
    /\ data \in [Bufs -> Values]
    /\ disk \in [Blocks -> Values]
    /\ freeList \in [1..Cardinality(Bufs) -> Bufs]
    /\ Chain(freeList) = Bufs /\ Distinct(freeList)
    /\ freeWanted = FALSE
    /\ ioq = <<>> /\ active = 0 /\ errcnt = 0
    /\ cpu = NoProc
    /\ pc = [p \in Procs |-> "user"]
    /\ ret = [p \in Procs |-> "user"]
    /\ req = [p \in Procs |-> NoReq]
    /\ bp = [p \in Procs |-> NoBuf] /\ abp = [p \in Procs |-> NoBuf]
    /\ chan = [p \in Procs |-> NoBuf]
    /\ uerror = [p \in Procs |-> FALSE]

\* A process in user mode traps into the kernel and a kernel path calls r.call.
Call(p, r) ==
    /\ cpu = NoProc
    /\ pc[p] = "user"
    /\ cpu' = p
    /\ req' = [req EXCEPT ![p] = r]
    /\ uerror' = [uerror EXCEPT ![p] = FALSE]
    /\ \/ /\ r.call = "getblk"
          /\ Goto(p, "getblk") /\ ret' = [ret EXCEPT ![p] = "hold"]
       \/ /\ r.call = "bread"
          /\ Goto(p, "getblk") /\ ret' = [ret EXCEPT ![p] = "bread"]
       \/ /\ r.call = "breada"
          /\ Goto(p, "incore") /\ UNCHANGED ret
       \/ /\ r.call = "bflush"
          /\ Goto(p, "bflush") /\ UNCHANGED ret
    /\ UNCHANGED <<cacheVars, diskVars, bp, abp, chan>>

\* Swtch: some process that was woken inside the kernel resumes.
Resume(p) ==
    /\ cpu = NoProc
    /\ pc[p] # "user" /\ chan[p] = NoBuf
    /\ cpu' = p
    /\ UNCHANGED <<cacheVars, diskVars, pc, ret, req, bp, abp, chan, uerror>>

\* The call is over; the process is on its way back to user mode, where
\* another process may be chosen.
Leave(p) ==
    /\ Goto(p, "user")
    /\ cpu' = NoProc
    /\ req' = [req EXCEPT ![p] = NoReq]
    /\ ret' = [ret EXCEPT ![p] = "user"]

-----------------------------------------------------------------------------
\* GetBlk

\* Lines 73-91: the block is cached but its buffer is in use.
GetBlkBusy(p) ==
    /\ Running(p, "getblk")
    /\ \E b \in InCore(Want(p)) :
        /\ Has(b, "BUSY")
        /\ flags' = [flags EXCEPT ![b] = @ \cup {"WANTED"}]
        /\ SleepOn(p, b, "getblk")
    /\ UNCHANGED <<blk, data, freeList, freeWanted, diskVars, ret, req, bp, abp, uerror>>

\* Lines 85-92: the block is cached and free.  STI comes before NotAvail.
GetBlkHit(p) ==
    /\ Running(p, "getblk")
    /\ \E b \in InCore(Want(p)) :
        /\ ~Has(b, "BUSY")
        /\ SetCur(p, b)
    /\ Goto(p, "notavail")
    /\ UNCHANGED <<cacheVars, diskVars, cpu, ret, req, chan, uerror>>

\* NotAvail(bp), lines 93-95
NotAvail(p) ==
    /\ Running(p, "notavail")
    /\ \E i \in DOMAIN freeList :
        /\ freeList[i] = Cur(p)
        /\ freeList' = RemoveAt(freeList, i)
    /\ flags' = [flags EXCEPT ![Cur(p)] = @ \cup {"BUSY"}]
    /\ Goto(p, ret[p])
    /\ UNCHANGED <<blk, data, freeWanted, diskVars, cpu, ret, req, bp, abp, chan, uerror>>

\* Lines 99-107: no buffer is free
GetBlkNoFree(p) ==
    /\ Running(p, "getblk")
    /\ InCore(Want(p)) = {}
    /\ freeList = <<>>
    /\ freeWanted' = TRUE
    /\ SleepOn(p, FreeList, "getblk")
    /\ UNCHANGED <<flags, blk, data, freeList, diskVars, ret, req, bp, abp, uerror>>

\* Lines 99-108
GetBlkSomeFree(p) ==
    /\ Running(p, "getblk")
    /\ InCore(Want(p)) = {}
    /\ freeList # <<>>
    /\ Goto(p, "take")
    /\ UNCHANGED <<cacheVars, diskVars, cpu, ret, req, bp, abp, chan, uerror>>

\* Lines 111-119: the least recently used buffer has a delayed write; write it
\* out without waiting (Bwrite) and search again.
TakeDirty(p) ==
    /\ Running(p, "take")
    /\ LET b == Head(freeList) IN
        /\ Has(b, "DELWRI")
        /\ flags' = [flags EXCEPT ![b] = WriteFlags(@ \cup {"BUSY", "ASYNC"})]
        /\ Strategy(b)
    /\ freeList' = Tail(freeList)
    /\ Goto(p, "getblk")
    /\ UNCHANGED <<blk, data, freeWanted, cpu, ret, req, bp, abp, chan, uerror>>

\* Lines 111-135: reuse the least recently used buffer for the wanted block.
TakeClean(p) ==
    /\ Running(p, "take")
    /\ LET b == Head(freeList) IN
        /\ ~Has(b, "DELWRI")
        /\ flags' = [flags EXCEPT ![b] = {"BUSY"}]
        /\ blk' = [blk EXCEPT ![b] = Want(p)]
        /\ SetCur(p, b)
    /\ freeList' = Tail(freeList)
    /\ Goto(p, ret[p])
    /\ UNCHANGED <<data, freeWanted, diskVars, cpu, ret, req, chan, uerror>>

-----------------------------------------------------------------------------
\* Brelse, called by a process

\* Lines 142-153: wake-ups come before the buffer is on the free list.
Brelse(p) ==
    /\ Running(p, "brelse")
    /\ chan' = [q \in Procs |->
                  IF \/ chan[q] = Cur(p) /\ Has(Cur(p), "WANTED")
                     \/ chan[q] = FreeList /\ freeWanted
                  THEN NoBuf ELSE chan[q]]
    /\ freeWanted' = FALSE
    /\ Goto(p, "putfree")
    /\ UNCHANGED <<flags, blk, data, freeList, diskVars, cpu, ret, req, bp, abp, uerror>>

\* Lines 158-178.  SetMinor works on its own copy of b_dev (Utility.cpp:96), so
\* line 160 leaves the buffer in the device queue under its old name.
PutFree(p) ==
    /\ Running(p, "putfree")
    /\ flags' = [flags EXCEPT ![Cur(p)] = @ \ {"WANTED", "BUSY", "ASYNC"}]
    /\ freeList' = Append(freeList, Cur(p))
    /\ SetCur(p, NoBuf)
    /\ \/ /\ ret[p] = "user"
          /\ Leave(p)
       \/ /\ ret[p] = "rafinish"
          /\ Goto(p, "rafinish")
          /\ UNCHANGED <<cpu, req, ret>>
    /\ UNCHANGED <<blk, data, freeWanted, diskVars, chan, uerror>>

-----------------------------------------------------------------------------
\* Bread and Breada

\* Lines 226-229
BreadHit(p) ==
    /\ Running(p, "bread")
    /\ Has(bp[p], "DONE")
    /\ Goto(p, "hold")
    /\ ret' = [ret EXCEPT ![p] = "hold"]
    /\ UNCHANGED <<cacheVars, diskVars, cpu, req, bp, abp, chan, uerror>>

\* Lines 231-241
BreadMiss(p) ==
    /\ Running(p, "bread")
    /\ ~Has(bp[p], "DONE")
    /\ flags' = [flags EXCEPT ![bp[p]] = @ \cup {"READ"}]
    /\ Strategy(bp[p])
    /\ Goto(p, "iowait")
    /\ ret' = [ret EXCEPT ![p] = "hold"]
    /\ UNCHANGED <<blk, data, freeList, freeWanted, cpu, req, bp, abp, chan, uerror>>

\* Lines 252-254
BreadaFirst(p) ==
    /\ Running(p, "incore")
    /\ \/ /\ InCore(req[p].blk) = {}
          /\ Goto(p, "getblk")
          /\ ret' = [ret EXCEPT ![p] = "rafirst"]
       \/ /\ InCore(req[p].blk) # {}
          /\ Goto(p, "ranext")
          /\ UNCHANGED ret
    /\ UNCHANGED <<cacheVars, diskVars, cpu, req, bp, abp, chan, uerror>>

\* Lines 259-266: start the read, do not wait for it.
BreadaStart(p) ==
    /\ Running(p, "rafirst")
    /\ \/ /\ Has(bp[p], "DONE")
          /\ UNCHANGED <<flags, diskVars>>
       \/ /\ ~Has(bp[p], "DONE")
          /\ flags' = [flags EXCEPT ![bp[p]] = @ \cup {"READ"}]
          /\ Strategy(bp[p])
    /\ Goto(p, "ranext")
    /\ UNCHANGED <<blk, data, freeList, freeWanted, cpu, ret, req, bp, abp, chan, uerror>>

\* Lines 275-277
BreadaNext(p) ==
    /\ Running(p, "ranext")
    /\ \/ /\ req[p].ahead # NoBlock
          /\ InCore(req[p].ahead) = {}
          /\ Goto(p, "getblk")
          /\ ret' = [ret EXCEPT ![p] = "raissue"]
       \/ /\ req[p].ahead = NoBlock \/ InCore(req[p].ahead) # {}
          /\ Goto(p, "rafinish")
          /\ UNCHANGED ret
    /\ UNCHANGED <<cacheVars, diskVars, cpu, req, bp, abp, chan, uerror>>

\* Lines 280-288: somebody else has read the next block meanwhile.
BreadaAheadHit(p) ==
    /\ Running(p, "raissue")
    /\ Has(abp[p], "DONE")
    /\ Goto(p, "brelse")
    /\ ret' = [ret EXCEPT ![p] = "rafinish"]
    /\ UNCHANGED <<cacheVars, diskVars, cpu, req, bp, abp, chan, uerror>>

\* Lines 289-296: read ahead; the interrupt handler will release the buffer.
BreadaAheadMiss(p) ==
    /\ Running(p, "raissue")
    /\ ~Has(abp[p], "DONE")
    /\ flags' = [flags EXCEPT ![abp[p]] = @ \cup {"READ", "ASYNC"}]
    /\ Strategy(abp[p])
    /\ abp' = [abp EXCEPT ![p] = NoBuf]
    /\ Goto(p, "rafinish")
    /\ UNCHANGED <<blk, data, freeList, freeWanted, cpu, ret, req, bp, chan, uerror>>

\* Lines 306-312
BreadaFinish(p) ==
    /\ Running(p, "rafinish")
    /\ \/ /\ bp[p] = NoBuf
          /\ Goto(p, "getblk")
          /\ ret' = [ret EXCEPT ![p] = "bread"]
       \/ /\ bp[p] # NoBuf
          /\ Goto(p, "iowait")
          /\ ret' = [ret EXCEPT ![p] = "hold"]
    /\ UNCHANGED <<cacheVars, diskVars, cpu, req, bp, abp, chan, uerror>>

-----------------------------------------------------------------------------
\* IOWait with GetError.  Sleep returns with interrupts enabled, so a process
\* that found B_DONE clear after a wake-up could miss the interrupt; ReadsCurrent
\* states that no wake-up comes before B_DONE.

IOWaitSleep(p) ==
    /\ Running(p, "iowait")
    /\ ~Has(bp[p], "DONE")
    /\ SleepOn(p, bp[p], "iowait")
    /\ UNCHANGED <<cacheVars, diskVars, ret, req, bp, abp, uerror>>

IOWaitDone(p) ==
    /\ Running(p, "iowait")
    /\ Has(bp[p], "DONE")
    /\ uerror' = [uerror EXCEPT ![p] = @ \/ Has(bp[p], "ERROR")]
    /\ Goto(p, ret[p])
    /\ ret' = [ret EXCEPT ![p] = "user"]
    /\ UNCHANGED <<cacheVars, diskVars, cpu, req, bp, abp, chan>>

-----------------------------------------------------------------------------
\* The caller has a buffer (Inode::ReadI, WriteI, IUpdate, Bmap ...): it looks at
\* the contents or replaces them, and gives the buffer back one way or another.

Release(p) ==
    /\ Running(p, "hold")
    /\ Goto(p, "brelse")
    /\ ret' = [ret EXCEPT ![p] = "user"]
    /\ UNCHANGED <<cacheVars, diskVars, cpu, req, bp, abp, chan, uerror>>

\* WriteI, lines 196-206: after a failed read the bytes are replaced all the same
\* and the buffer is released.
SpoilRelease(p, v) ==
    /\ Running(p, "hold")
    /\ uerror[p]
    /\ data' = [data EXCEPT ![bp[p]] = v]
    /\ Goto(p, "brelse")
    /\ ret' = [ret EXCEPT ![p] = "user"]
    /\ UNCHANGED <<flags, blk, freeList, freeWanted, diskVars, cpu, req, bp, abp, chan, uerror>>

\* Bdwrite
Bdwrite(p, v) ==
    /\ Running(p, "hold")
    /\ data' = [data EXCEPT ![bp[p]] = v]
    /\ flags' = [flags EXCEPT ![bp[p]] = @ \cup {"DELWRI", "DONE"}]
    /\ Goto(p, "brelse")
    /\ ret' = [ret EXCEPT ![p] = "user"]
    /\ UNCHANGED <<blk, freeList, freeWanted, diskVars, cpu, req, bp, abp, chan, uerror>>

\* Bwrite, lines 332-340: the transfer may have failed by the time GetError looks.
MayHaveFailed(p) ==
    \/ UNCHANGED uerror
    \/ /\ ~Has(bp[p], "DELWRI") /\ blk[bp[p]] \in Failing
       /\ uerror' = [uerror EXCEPT ![p] = TRUE]

\* Bawrite
Bawrite(p, v) ==
    /\ Running(p, "hold")
    /\ data' = [data EXCEPT ![bp[p]] = v]
    /\ flags' = [flags EXCEPT ![bp[p]] = WriteFlags(@ \cup {"ASYNC"})]
    /\ Strategy(bp[p])
    /\ MayHaveFailed(p)
    /\ bp' = [bp EXCEPT ![p] = NoBuf]
    /\ Leave(p)
    /\ UNCHANGED <<blk, freeList, freeWanted, abp, chan>>

\* Bwrite: write, wait, release
Bwrite(p, v) ==
    /\ Running(p, "hold")
    /\ data' = [data EXCEPT ![bp[p]] = v]
    /\ flags' = [flags EXCEPT ![bp[p]] = WriteFlags(@)]
    /\ Strategy(bp[p])
    /\ Goto(p, "iowait")
    /\ ret' = [ret EXCEPT ![p] = "brelse"]
    /\ UNCHANGED <<blk, freeList, freeWanted, cpu, req, bp, abp, chan, uerror>>

-----------------------------------------------------------------------------
\* Bflush(NODEV)

Dirty == {i \in DOMAIN freeList : Has(freeList[i], "DELWRI")}

\* Lines 384-393: the first delayed write on the free list, then start over
BflushOne(p) ==
    /\ Running(p, "bflush")
    /\ \E i \in Dirty :
        /\ \A j \in Dirty : i <= j
        /\ freeList' = RemoveAt(freeList, i)
        /\ flags' = [flags EXCEPT ![freeList[i]] = WriteFlags(@ \cup {"BUSY", "ASYNC"})]
        /\ Strategy(freeList[i])
    /\ UNCHANGED <<blk, data, freeWanted, procVars>>

BflushDone(p) ==
    /\ Running(p, "bflush")
    /\ Dirty = {}
    /\ Leave(p)
    /\ UNCHANGED <<cacheVars, diskVars, bp, abp, chan, uerror>>

-----------------------------------------------------------------------------
\* The disk interrupt: ATAHandler, IODone and, for an asynchronous transfer,
\* Brelse.  f are the flags after the transfer.

IODone(b, f) ==
    \/ /\ "ASYNC" \notin f
       /\ flags' = [flags EXCEPT ![b] = (f \cup {"DONE"}) \ {"WANTED"}]
       /\ chan' = Woken(b)
       /\ UNCHANGED <<freeList, freeWanted>>
    \/ /\ "ASYNC" \in f
       /\ flags' = [flags EXCEPT ![b] = (f \cup {"DONE"}) \ {"WANTED", "BUSY", "ASYNC"}]
       /\ chan' = [q \in Procs |->
                     IF \/ chan[q] = b /\ "WANTED" \in f
                        \/ chan[q] = FreeList /\ freeWanted
                     THEN NoBuf ELSE chan[q]]
       /\ freeWanted' = FALSE
       /\ freeList' = Append(freeList, b)

\* Dequeue and start the next request, if there is one
NextRequest ==
    /\ errcnt' = 0
    /\ ioq' = Tail(ioq)
    /\ active' = IF Tail(ioq) = <<>> THEN 0 ELSE 1

TransferDone ==
    /\ active # 0
    /\ LET b == Head(ioq) IN
        /\ \/ /\ Has(b, "READ")
              /\ data' = [data EXCEPT ![b] = disk[blk[b]]]
              /\ UNCHANGED disk
           \/ /\ ~Has(b, "READ")
              /\ disk' = [disk EXCEPT ![blk[b]] = data[b]]
              /\ UNCHANGED data
        /\ IODone(b, flags[b])
    /\ NextRequest
    /\ UNCHANGED <<blk, cpu, pc, ret, req, bp, abp, uerror>>

\* Lines 27-33: the controller reports an error, the request is tried again.
TransferRetry ==
    /\ active # 0
    /\ blk[Head(ioq)] \in Failing
    /\ errcnt < MaxErr
    /\ errcnt' = errcnt + 1
    /\ UNCHANGED <<cacheVars, disk, ioq, active, procVars>>

\* Lines 34-40: given up.  Neither the buffer nor the medium has changed.
TransferFailed ==
    /\ active # 0
    /\ blk[Head(ioq)] \in Failing
    /\ errcnt = MaxErr
    /\ IODone(Head(ioq), flags[Head(ioq)] \cup {"ERROR"})
    /\ NextRequest
    /\ UNCHANGED <<blk, data, disk, cpu, pc, ret, req, bp, abp, uerror>>

DiskInterrupt == TransferDone \/ TransferRetry \/ TransferFailed

-----------------------------------------------------------------------------

Step(p) ==
    \/ GetBlkBusy(p) \/ GetBlkHit(p) \/ NotAvail(p)
    \/ GetBlkNoFree(p) \/ GetBlkSomeFree(p) \/ TakeDirty(p) \/ TakeClean(p)
    \/ Brelse(p) \/ PutFree(p)
    \/ BreadHit(p) \/ BreadMiss(p)
    \/ BreadaFirst(p) \/ BreadaStart(p) \/ BreadaNext(p)
    \/ BreadaAheadHit(p) \/ BreadaAheadMiss(p) \/ BreadaFinish(p)
    \/ IOWaitSleep(p) \/ IOWaitDone(p)
    \/ Release(p)
    \/ \E v \in Values : SpoilRelease(p, v) \/ Bdwrite(p, v) \/ Bawrite(p, v) \/ Bwrite(p, v)
    \/ BflushOne(p) \/ BflushDone(p)

Next ==
    \/ \E p \in Procs :
        \/ \E r \in Request : Call(p, r)
        \/ Resume(p)
        \/ Step(p)
    \/ DiskInterrupt

Spec == Init /\ [][Next]_vars

-----------------------------------------------------------------------------
\* Properties

TypeOK ==
    /\ flags \in [Bufs -> SUBSET Flag]
    /\ blk \in [Bufs -> Blocks \cup {NoBlock}]
    /\ data \in [Bufs -> Values]
    /\ disk \in [Blocks -> Values]
    /\ freeList \in Seq(Bufs)
    /\ freeWanted \in BOOLEAN
    /\ ioq \in Seq(Bufs)
    /\ active \in {0, 1}
    /\ errcnt \in 0..MaxErr
    /\ cpu \in Procs \cup {NoProc}
    /\ pc \in [Procs -> Label]
    /\ ret \in [Procs -> Label]
    /\ req \in [Procs -> Request \cup {NoReq}]
    /\ bp \in [Procs -> Bufs \cup {NoBuf}]
    /\ abp \in [Procs -> Bufs \cup {NoBuf}]
    /\ chan \in [Procs -> Bufs \cup {FreeList, NoBuf}]
    /\ uerror \in [Procs -> BOOLEAN]

\* A buffer is on the free list exactly when nobody uses it (B_BUSY is clear), and
\* only once, whatever the order in which callers, the read-ahead path and the
\* interrupt handler release buffers: otherwise av_forw/av_back are corrupted.
FreeListExact ==
    /\ Chain(freeList) = {b \in Bufs : ~Has(b, "BUSY")}
    /\ Distinct(freeList)

\* A queued request is a buffer in use whose transfer is not over, queued once
\* (av_forw is shared by the free list and the request chain), and the controller
\* is busy exactly while there are requests, so none is left behind.
QueueExact ==
    /\ \A b \in Chain(ioq) : Has(b, "BUSY") /\ ~Has(b, "DONE")
    /\ Distinct(ioq)
    /\ (active = 1) <=> (ioq # <<>>)

\* A block is cached in one buffer at most, although GetBlk may sleep between the
\* search of the device queue and the reuse of a buffer.
OneCopy ==
    \A b, c \in Bufs : blk[b] # NoBlock /\ blk[b] = blk[c] => b = c

Users(b) == {p \in Procs : b \in {bp[p], abp[p]}}

\* A buffer in use belongs to one process, or to an asynchronous transfer and to no
\* process: nobody reads or changes the bytes while another process has them or
\* after they were handed to Bawrite.
ExclusiveUse ==
    \A b \in Bufs :
        \/ \E p \in Procs :
            /\ Users(b) = {p}
            /\ ~Has(b, "ASYNC") /\ (Has(b, "BUSY") \/ Running(p, "notavail"))
        \/ Users(b) = {} /\ Has(b, "BUSY") /\ Has(b, "ASYNC") /\ b \in Chain(ioq)
        \/ Users(b) = {} /\ ~Has(b, "BUSY")

\* Whoever sleeps will be woken: a process that waits for a busy buffer has left
\* B_WANTED on it, one that waits for any buffer has left B_WANTED on a free list
\* that is still empty, one that waits for a transfer has it queued.
NoLostWakeup ==
    \A p \in Procs :
        /\ chan[p] \in Bufs /\ pc[p] = "getblk" =>
               Has(chan[p], "BUSY") /\ Has(chan[p], "WANTED")
        /\ chan[p] = FreeList => freeWanted /\ freeList = <<>>
        /\ pc[p] = "iowait" /\ chan[p] # NoBuf =>
               chan[p] = bp[p] /\ bp[p] \in Chain(ioq)

\* p has the first block of a Breada and looks for a buffer for the next.
LooksAhead(p) == pc[p] = "getblk" /\ ret[p] = "raissue"

\* Every buffer is held by a process that has the first block of a Breada and sleeps
\* in GetBlk, and somebody there waits until any buffer is free.
Exhausted == /\ \A b \in Bufs : \E p \in Procs : bp[p] = b /\ LooksAhead(p)
             /\ \E p \in Procs : chan[p] = FreeList

\* Somebody can go on: with no transfer outstanding the processes are never all asleep
\* in the cache, unless as many as there are buffers read ahead at once and have used
\* them up (Breada, BufferManager.cpp:277).  Waiting for the user of a certain block,
\* of another process in Breada too, is never part of a deadlock (InCore, line 275).
NotAllAsleep ==
    \/ active = 1 \/ \E p \in Procs : chan[p] = NoBuf
    \/ Exhausted

\* A process that has been given the contents of a block by Bread or Breada has
\* either valid contents or an error (Brelse, lines 155-157: a buffer with an error
\* is renamed so that later processes do not use its data by mistake).
ErrorNotHidden ==
    \A p \in Procs :
        /\ Running(p, "hold")
        /\ req[p].call # "getblk" /\ Has(bp[p], "ERROR")
        => uerror[p]

-----------------------------------------------------------------------------
\* The inductive invariant behind the safety properties

\* Sleeping and scheduling: only a process in GetBlk or IOWait can be off the CPU.
CpuOK ==
    \A p \in Procs :
        /\ cpu = p => pc[p] # "user"
        /\ cpu # p => pc[p] \in {"user", "getblk", "iowait"}
        /\ chan[p] # NoBuf => cpu # p /\ pc[p] # "user"

\* Where GetBlk, IOWait and Brelse were called from
RetOK ==
    \A p \in Procs :
        /\ pc[p] \in {"getblk", "notavail", "take"} => ret[p] \in {"hold", "bread", "rafirst", "raissue"}
        /\ pc[p] \in {"bread", "rafirst", "raissue"} => ret[p] = pc[p]
        /\ pc[p] = "iowait" => ret[p] \in {"hold", "brelse"}
        /\ pc[p] \in {"brelse", "putfree"} => ret[p] \in {"user", "rafinish"}
        /\ pc[p] \in {"user", "incore", "ranext", "hold", "bflush"} => ~Ahead(p)

\* GetBlk always looks for a block; what it has found or will take is that block's.
Seeking(p) == pc[p] \in {"getblk", "notavail", "take"}

NamesOK ==
    /\ \A p \in Procs :
        /\ Seeking(p) => Want(p) \in Blocks
        /\ pc[p] \in {"incore", "rafirst", "ranext", "raissue", "rafinish"} => req[p].blk \in Blocks
        /\ Ahead(p) => req[p].blk \in Blocks
        /\ pc[p] = "notavail" => blk[Cur(p)] = Want(p)
        /\ pc[p] = "take" => InCore(Want(p)) = {} /\ freeList # <<>>
    /\ \A b \in Bufs : flags[b] # {} => blk[b] \in Blocks

OwnsMain(p)  == bp[p] # NoBuf /\ ~(pc[p] = "notavail" /\ ~Ahead(p))
OwnsAhead(p) == abp[p] # NoBuf /\ ~(pc[p] = "notavail" /\ Ahead(p))
Owns(p, b)   == \/ b = bp[p] /\ OwnsMain(p)
                \/ b = abp[p] /\ OwnsAhead(p)

\* When a process has a buffer and when it has none
LocalsOK ==
    \A p \in Procs :
        /\ pc[p] \in {"user", "incore", "bflush"} => bp[p] = NoBuf
        /\ pc[p] \in {"getblk", "take"} /\ ~Ahead(p) => bp[p] = NoBuf
        /\ pc[p] \in {"bread", "rafirst", "iowait", "hold"} => bp[p] # NoBuf
        /\ abp[p] # NoBuf => Ahead(p) /\ pc[p] \in {"notavail", "raissue", "brelse", "putfree"}
        /\ pc[p] \in {"notavail", "raissue", "brelse", "putfree"} => Cur(p) # NoBuf
        /\ bp[p] # NoBuf => bp[p] # abp[p]
        /\ pc[p] = "notavail" => ~Has(Cur(p), "BUSY")

\* A process owns its buffers alone; a buffer in use that nobody owns is on its way.
OwnersOK ==
    /\ \A p \in Procs, b \in Bufs : Owns(p, b) => Has(b, "BUSY") /\ ~Has(b, "ASYNC")
    /\ \A p, q \in Procs, b \in Bufs : Owns(p, b) /\ Owns(q, b) => p = q
    /\ \A b \in Bufs : Has(b, "BUSY") /\ (\A p \in Procs : ~Owns(p, b)) => Has(b, "ASYNC")
    /\ \A b \in Bufs : Has(b, "ASYNC") => b \in Chain(ioq)

\* The caller's buffer is queued only between the start of its transfer and IOWait.
TransferOK ==
    \A p \in Procs :
        /\ pc[p] \in {"bread", "rafirst", "hold"} => bp[p] \notin Chain(ioq)
        /\ pc[p] \in {"raissue", "brelse", "putfree"} => Cur(p) \notin Chain(ioq)
        /\ bp[p] # NoBuf /\ (pc[p] \in {"ranext", "rafinish", "iowait"} \/ Ahead(p)) =>
               bp[p] \in Chain(ioq) \/ Has(bp[p], "DONE")

\* Sleepers are in GetBlk or IOWait; a release in progress has woken everybody who
\* waits for this buffer or for any buffer.
SleepOK ==
    \A p \in Procs :
        /\ chan[p] # NoBuf /\ pc[p] = "iowait" => chan[p] = bp[p]
        /\ pc[p] = "putfree" => \A q \in Procs : chan[q] # Cur(p) /\ chan[q] # FreeList

IInv ==
    /\ TypeOK /\ CpuOK /\ RetOK /\ NamesOK /\ LocalsOK /\ OwnersOK /\ TransferOK
    /\ SleepOK /\ FreeListExact /\ QueueExact /\ OneCopy /\ NoLostWakeup

-----------------------------------------------------------------------------
\* The cache implements an array of blocks.  A buffer counts when its contents are
\* valid (B_DONE) or on their way to the disk; otherwise the disk counts.  Blocks
\* with failing transfers are outside the promise.

Valid(b) == Has(b, "DONE") \/ (b \in Chain(ioq) /\ ~Has(b, "READ"))

Content(k) ==
    IF \E b \in InCore(k) : Valid(b)
    THEN data[CHOOSE b \in InCore(k) : Valid(b)]
    ELSE disk[k]

Sound == Blocks \ Failing

Store == INSTANCE BlockStore WITH
    Blocks  <- Sound,
    content <- [k \in Sound |-> Content(k)],
    using   <- [p \in Procs |-> IF pc[p] = "hold" /\ req[p].blk \in Sound
                                THEN req[p].blk ELSE NoBlock]

\* Every step of the cache is a step of the block array or changes nothing there.
ImplementsStore == Store!StoreSpec

\* Nobody is woken in IOWait before the transfer is over (see IOWaitSleep), and what
\* Bread and Breada then hand over is the current contents of the block asked for.
ReadsCurrent ==
    \A p \in Procs :
        /\ pc[p] = "iowait" /\ chan[p] = NoBuf /\ cpu # p => Has(bp[p], "DONE")
        /\ Running(p, "hold") /\ req[p].blk \in Sound =>
              /\ blk[bp[p]] = req[p].blk
              /\ req[p].call # "getblk" =>
                    data[bp[p]] = Content(req[p].blk) /\ Has(bp[p], "DONE")

-----------------------------------------------------------------------------
\* Liveness.  The controller raises an interrupt for every request it was given; a
\* process in the kernel is not preempted, so it runs on; Select scans the processes
\* from the one after the last it chose, so a process that is ready gets its turn.

FairSpec ==
    /\ Spec
    /\ WF_vars(DiskInterrupt)
    /\ \A p \in Procs : WF_vars(Step(p)) /\ SF_vars(Resume(p))

\* A process that goes to sleep in the buffer layer wakes up.
SleepersWake == \A p \in Procs : (chan[p] # NoBuf) ~> (chan[p] = NoBuf)

\* A delayed or asynchronous write that was handed to the driver leaves the queue.
RequestsServed == \A b \in Bufs : (b \in Chain(ioq)) ~> (b \notin Chain(ioq))

=============================================================================
