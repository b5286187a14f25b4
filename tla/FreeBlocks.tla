------------------------------ MODULE FreeBlocks ------------------------------
(*****************************************************************************)
(* The list of free disk blocks of the super block: FileSystem::Alloc, Free  *)
(* and the part of Update that writes the super block.                       *)
(*                                                                           *)
(* The super block holds a table of at most GroupSize block numbers, used as *)
(* a stack.  The number at the bottom is the block that contains the next    *)
(* table, 0 when there is none.  Popping the bottom reads that table in;     *)
(* freeing a block while the table is full writes the table into the block   *)
(* and starts a new one.  Both sleep, so both set s_flock meanwhile.         *)
(*                                                                           *)
(* A process in the kernel runs until it sleeps, so an action is the code    *)
(* from one possible sleep to the next: the sleep on s_flock, and the calls  *)
(* of GetBlk, Bread and Bwrite, each of which takes any time.  Blocks are    *)
(* read and written as BlockStore says.                                      *)
(*****************************************************************************)
EXTENDS Integers, Sequences, FiniteSets, SequencesExt

CONSTANTS Procs,      \* processes that allocate, free and synchronise
          NBlocks,    \* the data blocks are 1..NBlocks
          GroupSize   \* entries of s_free: 100 in the code

ASSUME FreeBlocksAssumption ==
    /\ NBlocks \in Nat \ {0}
    /\ GroupSize \in Nat \ {0, 1}

Blocks  == 1..NBlocks
Outside == -1           \* what s_free[-1] holds: the s_nfree field before it
Data    == << >>        \* bytes that are not a table of free blocks
Table   == UNION {[1..n -> Blocks \cup {0, Outside}] : n \in 1..GroupSize}

VARIABLES stack,    \* s_free[0 .. s_nfree-1]
          flock,    \* s_flock
          fmod,     \* s_fmod
          onDisk,   \* the table in the super block on the disk
          updlock,  \* updlock
          content,  \* content[b]: the table block b contains, or Data
          used,     \* blocks that belong to files
          pc,       \* where a process will go on
          blk,      \* blk[p]: blkno of the call p is in
          err,      \* err[p]: u_error is ENOSPC
          asleep,   \* processes asleep on s_flock
          wild      \* a number was read from outside the table (history)

vars == <<stack, flock, fmod, onDisk, updlock, content, used, pc, blk, err,
          asleep, wild>>

superBlock == <<stack, flock, fmod>>

\* Makes every process on s_flock ready: WakeUpAll(&s_flock).
Unlock == flock' = FALSE /\ asleep' = {}

Goto(p, label) == pc' = [pc EXCEPT ![p] = label]

Return(p) == Goto(p, "user") /\ blk' = [blk EXCEPT ![p] = 0]

-----------------------------------------------------------------------------
(***************************************************************************)
(* The image the formatting tool makes: it frees the blocks from the last  *)
(* to the first, into a table that starts with the end mark.               *)
(***************************************************************************)

Formatted[n \in Nat] ==
    IF n = 0 THEN [stack |-> <<0>>, content |-> [b \in Blocks |-> Data]]
    ELSE LET b == NBlocks + 1 - n
             f == Formatted[n - 1]
         IN  IF Len(f.stack) < GroupSize
             THEN [f EXCEPT !.stack = Append(@, b)]
             ELSE [stack |-> <<b>>, content |-> [f.content EXCEPT ![b] = f.stack]]

Init ==
    /\ stack = Formatted[NBlocks].stack
    /\ content = Formatted[NBlocks].content
    /\ onDisk = stack
    /\ flock = FALSE /\ fmod = FALSE /\ updlock = FALSE
    /\ used = {}
    /\ pc = [p \in Procs |-> "user"]
    /\ blk = [p \in Procs |-> 0]
    /\ err = [p \in Procs |-> FALSE]
    /\ asleep = {} /\ wild = FALSE

-----------------------------------------------------------------------------
\* A process makes a call.  The system is not followed beyond the first number
\* read from outside the table: calls in progress end, no new ones are made.
Calls(p) == pc[p] = "user" /\ ~wild

-----------------------------------------------------------------------------
(* Alloc *)

InAlloc(p) == Calls(p) \/ (pc[p] = "alloc" /\ p \notin asleep)

\* Somebody is changing the table: sleep, then look again.
AllocWait(p) ==
    /\ InAlloc(p) /\ flock
    /\ Goto(p, "alloc") /\ asleep' = asleep \cup {p}
    /\ err' = [err EXCEPT ![p] = FALSE]
    /\ UNCHANGED <<superBlock, onDisk, updlock, content, used, blk, wild>>

\* The result of the pop is 0: no space.
NoSpace(p) ==
    /\ stack' = << >>
    /\ err' = [err EXCEPT ![p] = TRUE]
    /\ Return(p)
    /\ UNCHANGED <<flock, fmod, onDisk, updlock, content, used, asleep, wild>>

\* The result is a block; if it was the last of the table, it contains the next.
Popped(p, b, rest) ==
    /\ stack' = rest
    /\ flock' = (rest = << >>)
    /\ blk' = [blk EXCEPT ![p] = b]
    /\ err' = [err EXCEPT ![p] = FALSE]
    /\ Goto(p, IF rest = << >> THEN "refill" ELSE "clear")
    /\ UNCHANGED <<fmod, onDisk, updlock, content, used, asleep>>

\* Mutant: after a sleep the lock is not tested again.
AllocTakeUntested(p) ==
    /\ InAlloc(p) /\ (flock => pc[p] = "alloc") /\ stack # << >>
    /\ Last(stack) # 0
    /\ Popped(p, Last(stack), Front(stack))
    /\ UNCHANGED wild

AllocTake(p) ==
    /\ InAlloc(p) /\ ~flock /\ stack # << >>
    /\ Last(stack) # 0
    /\ Popped(p, Last(stack), Front(stack))
    /\ UNCHANGED wild

AllocEnd(p) ==
    /\ InAlloc(p) /\ ~flock /\ stack # << >>
    /\ Last(stack) = 0
    /\ NoSpace(p)

\* s_nfree was 0: s_free[-1] is s_nfree itself, already decremented or not yet.
AllocOutside(p) ==
    /\ InAlloc(p) /\ ~flock /\ stack = << >>
    /\ \/ NoSpace(p)
       \/ Popped(p, Outside, << >>) /\ wild' = TRUE

\* Mutant: the waiting processes are not woken.
AllocRefillSilently(p) ==
    /\ pc[p] = "refill" /\ blk[p] \in Blocks
    /\ stack' = content[blk[p]]
    /\ flock' = FALSE
    /\ Goto(p, "clear")
    /\ UNCHANGED <<fmod, onDisk, updlock, content, used, blk, err, asleep, wild>>

\* Bread has delivered the block.  If it holds no table, or there is no such
\* block and the buffer holds the bytes of any other, they are copied all the same.
AllocRefill(p) ==
    /\ pc[p] = "refill"
    /\ IF blk[p] \in Blocks THEN stack' = content[blk[p]]
                            ELSE \E b \in Blocks : stack' = content[b]
    /\ Unlock
    /\ Goto(p, "clear")
    /\ UNCHANGED <<fmod, onDisk, updlock, content, used, blk, err, wild>>

\* Mutant: the super block is not marked.
AllocClearUnmarked(p) ==
    /\ pc[p] = "clear"
    /\ content' = [b \in Blocks |-> IF b = blk[p] THEN Data ELSE content[b]]
    /\ used' = used \cup {blk[p]}
    /\ Return(p)
    /\ UNCHANGED <<stack, flock, fmod, onDisk, updlock, err, asleep, wild>>

\* GetBlk has delivered a buffer for the new block.
AllocClear(p) ==
    /\ pc[p] = "clear"
    /\ content' = [b \in Blocks |-> IF b = blk[p] THEN Data ELSE content[b]]
    /\ fmod' = TRUE
    /\ used' = used \cup {blk[p]}
    /\ Return(p)
    /\ UNCHANGED <<stack, flock, onDisk, updlock, err, asleep, wild>>

-----------------------------------------------------------------------------
(* Free *)

\* p calls Free for a block of a file, or has slept in Free on s_flock.  The
\* first statement of Free sets s_fmod.
InFree(p, b) ==
    \/ Calls(p) /\ b \in used
    \/ pc[p] = "free" /\ b = blk[p] /\ p \notin asleep

ModifiedEarly(p) == fmod \/ pc[p] = "user"

FreeWait(p, b) ==
    /\ InFree(p, b) /\ flock
    /\ Goto(p, "free") /\ asleep' = asleep \cup {p}
    /\ fmod' = ModifiedEarly(p)
    /\ blk' = [blk EXCEPT ![p] = b]
    /\ used' = used \ {b}
    /\ UNCHANGED <<stack, flock, onDisk, updlock, content, err, wild>>

\* The table has room; an empty one gets the end mark first.
FreePut(p, b) ==
    /\ InFree(p, b) /\ ~flock /\ Len(stack) < GroupSize
    /\ stack' = IF stack = << >> THEN <<0, b>> ELSE Append(stack, b)
    /\ fmod' = TRUE
    /\ Return(p)
    /\ used' = used \ {b}
    /\ UNCHANGED <<flock, onDisk, updlock, content, err, asleep, wild>>

\* The table is full: it will go into the block itself.
FreeFull(p, b) ==
    /\ InFree(p, b) /\ ~flock /\ Len(stack) >= GroupSize
    /\ flock' = TRUE
    /\ fmod' = ModifiedEarly(p)
    /\ blk' = [blk EXCEPT ![p] = b]
    /\ Goto(p, "store")
    /\ used' = used \ {b}
    /\ UNCHANGED <<stack, onDisk, updlock, content, err, asleep, wild>>

\* Mutant: s_nfree is cleared before the table is copied.
FreeStoreEmptied(p) ==
    /\ pc[p] = "store"
    /\ content' = [b \in Blocks |-> IF b = blk[p] THEN << >> ELSE content[b]]
    /\ stack' = << >>
    /\ Goto(p, "stored")
    /\ UNCHANGED <<flock, fmod, onDisk, updlock, used, blk, err, asleep, wild>>

\* GetBlk has delivered a buffer; Bwrite starts the transfer and sleeps.
FreeStore(p) ==
    /\ pc[p] = "store"
    /\ content' = [b \in Blocks |-> IF b = blk[p] THEN stack ELSE content[b]]
    /\ stack' = << >>
    /\ Goto(p, "stored")
    /\ UNCHANGED <<flock, fmod, onDisk, updlock, used, blk, err, asleep, wild>>

\* Mutant: the waiting processes are not woken.
FreeStoredSilently(p) ==
    /\ pc[p] = "stored"
    /\ flock' = FALSE
    /\ stack' = Append(stack, blk[p])
    /\ fmod' = TRUE
    /\ Return(p)
    /\ UNCHANGED <<onDisk, updlock, content, used, err, asleep, wild>>

FreeStored(p) ==
    /\ pc[p] = "stored"
    /\ Unlock
    /\ stack' = Append(stack, blk[p])
    /\ fmod' = TRUE
    /\ Return(p)
    /\ UNCHANGED <<onDisk, updlock, content, used, err, wild>>

-----------------------------------------------------------------------------
(* Update *)

\* The tests are made before GetBlk, the copy after it.
UpdateBegin(p) ==
    /\ Calls(p) /\ ~updlock
    /\ fmod /\ ~flock
    /\ updlock' = TRUE /\ fmod' = FALSE
    /\ Goto(p, "copy")
    /\ UNCHANGED <<stack, flock, onDisk, content, used, blk, err, asleep, wild>>

UpdateCopy(p) ==
    /\ pc[p] = "copy"
    /\ onDisk' = stack
    /\ Goto(p, "rest")
    /\ UNCHANGED <<superBlock, updlock, content, used, blk, err, asleep, wild>>

\* The second half of the super block and the inodes have been written.
UpdateDone(p) ==
    /\ pc[p] = "rest"
    /\ updlock' = FALSE
    /\ Return(p)
    /\ UNCHANGED <<superBlock, onDisk, content, used, err, asleep, wild>>

-----------------------------------------------------------------------------

\* What goes on by itself once it has begun; the rest are calls.
Continue(p) ==
    \/ AllocRefill(p) \/ AllocClear(p)
    \/ FreeStore(p) \/ FreeStored(p)
    \/ UpdateCopy(p) \/ UpdateDone(p)

NotFollowed == wild /\ (\A p \in Procs : pc[p] = "user") /\ UNCHANGED vars

Next ==
    \/ NotFollowed
    \/ \E p \in Procs :
           \/ AllocWait(p) \/ AllocTake(p) \/ AllocEnd(p) \/ AllocOutside(p)
           \/ \E b \in used \cup {blk[p]} : FreeWait(p, b) \/ FreePut(p, b) \/ FreeFull(p, b)
           \/ UpdateBegin(p)
           \/ Continue(p)

Spec == Init /\ [][Next]_vars

\* A call that has begun goes on: transfers end (the promise of BufferCache) and a
\* process that is ready gets the CPU.  Nobody has to make a call.
FairSpec ==
    Spec /\ \A p \in Procs :
        /\ WF_vars(Continue(p))
        /\ WF_vars(pc[p] = "alloc" /\ (AllocWait(p) \/ AllocTake(p) \/ AllocEnd(p)
                                        \/ AllocOutside(p)))
        /\ WF_vars(pc[p] = "free" /\ \E b \in {blk[p]} :
                       FreeWait(p, b) \/ FreePut(p, b) \/ FreeFull(p, b))

-----------------------------------------------------------------------------
(* Properties *)

TypeOK ==
    /\ stack \in Table \cup {Data} /\ onDisk \in Table \cup {Data}
    /\ flock \in BOOLEAN /\ fmod \in BOOLEAN /\ updlock \in BOOLEAN
    /\ content \in [Blocks -> Table \cup {Data}]
    /\ used \subseteq Blocks \cup {Outside}
    /\ pc \in [Procs -> {"user", "alloc", "refill", "clear", "free", "store",
                          "stored", "copy", "rest"}]
    /\ blk \in [Procs -> Blocks \cup {0, Outside}]
    /\ err \in [Procs -> BOOLEAN]
    /\ asleep \subseteq Procs /\ wild \in BOOLEAN

\* Processes between taking the lock and releasing it.
Changing(p) == pc[p] \in {"refill", "store", "stored"}

\* Processes with a block that is neither free nor of a file.
InHand(p) == pc[p] \in {"clear", "free"} \/ Changing(p)

\* The table at the head of the list.  While its only copy is in a block, on the
\* way in or out, it is there.
FirstTable ==
    IF \E p \in Procs : pc[p] \in {"refill", "stored"} /\ blk[p] \in Blocks
    THEN content[blk[CHOOSE p \in Procs : pc[p] \in {"refill", "stored"}]]
    ELSE stack

\* The table after s on the list, when the blocks contain c.
After(s, c) == IF s # Data /\ Head(s) \in Blocks THEN c[Head(s)] ELSE Data

\* The tables of the list that begins with first.
Walk(first, c) ==
    LET Nth[n \in Nat] == IF n = 0 THEN first
                          ELSE LET before == Nth[n - 1] IN After(before, c)
    IN  Nth

\* The list: no more tables than there are blocks, and the one in the super block.
Places == 0..NBlocks
Tables == LET walk == Walk(FirstTable, content) IN [n \in Places |-> walk[n]]

FreeSet == LET tables == Tables IN (UNION {ToSet(tables[n]) : n \in Places}) \ {0}

\* Every block is in one place: once on the list, or in a file, or with one process
\* on its way in Alloc or Free.  None is lost when tables are written out and read
\* back, and no two files share one.
EveryBlockOnce ==
    /\ TypeOK
    /\ wild \/
       LET free  == FreeSet
           hands == {p \in Procs : InHand(p)}
           list  == Tables
       IN  /\ \A m, n \in Places : \A i \in DOMAIN list[m], j \in DOMAIN list[n] :
                 list[m][i] = list[n][j] => m = n /\ i = j
           /\ free \cap used = {}
           /\ \A p \in hands : blk[p] \notin free \cup used
           /\ \A p, q \in hands : blk[p] = blk[q] => p = q
           /\ Blocks = free \cup used \cup {blk[p] : p \in hands}

\* s_flock has one owner, and processes sleep on it only while it is set.
LockSound ==
    /\ flock <=> \E p \in Procs : Changing(p)
    /\ \A p, q \in Procs : Changing(p) /\ Changing(q) => p = q
    /\ asleep # {} => flock

\* When s_fmod is clear and nobody is in the middle of a change or of Update, the
\* super block on the disk has the table in use: Update may skip it.  (A table
\* emptied by Alloc and one that holds only the end mark say the same.)
ModifiedKnown ==
    (~fmod /\ \A p \in Procs : pc[p] \notin {"refill", "clear", "stored", "copy"})
        => onDisk = stack \/ {onDisk, stack} = {<< >>, <<0>>}

\* Alloc and Free implement the pool, until a number is read from outside the table.
hand == [p \in Procs |-> IF InHand(p) THEN blk[p] ELSE 0]
Pool == INSTANCE BlockPool WITH Nothing <- 0, free <- FreeSet, refused <- err
ImplementsPool == Pool!PoolInit /\ [][wild' \/ Pool!PoolNext]_(Pool!pvars)

\* A process that sleeps on s_flock is woken.
SleepersWake == \A p \in Procs : p \in asleep ~> p \notin asleep

\* Alloc hands out only blocks of the data area; the comment in Alloc says that
\* everything else makes the call fail.
OnlyDataBlocks == used \subseteq Blocks

\* The super block is not written while Free has half changed it, which the
\* comment in Free says setting s_fmod early prevents.
NoHalfFreeWritten == [][onDisk' # onDisk => \A p \in Procs : pc[p] # "stored"]_vars

=============================================================================
