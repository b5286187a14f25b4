------------------------------- MODULE FileBlocks -------------------------------
(*****************************************************************************)
(* The blocks of files (fs/INode.cpp): Inode::Bmap, which leads from a place *)
(* in a file to a block and puts one there if there is none, ReadI and       *)
(* WriteI, which call it for each block of a transfer, and ITrunc, which     *)
(* gives all blocks of a file back.                                          *)
(*                                                                           *)
(* A place is found along a path of indexes: the first into i_addr, the      *)
(* others into the tables of one or two levels of indirection.  Read and     *)
(* write lock nothing (FileManager::Rdwr), so several processes may be at    *)
(* work on a file, and creat may cut it meanwhile.  A process can be         *)
(* overtaken where it sleeps: in Alloc, before and after the block is taken  *)
(* from the free list, in Free, and for a table's buffer that another has.   *)
(* The free list does as BlockPool says, the buffers hold what was written   *)
(* last, as BlockStore says.                                                 *)
(*****************************************************************************)
EXTENDS Integers, Sequences, FiniteSetsExt, SequencesExt

CONSTANTS Procs, NoProc,
          Files,     \* the files at work
          NBlocks,   \* data blocks of the disk
          Direct,    \* entries of i_addr that lead to data: 6
          Single,    \* that lead to a table of data blocks: 2
          Double,    \* that lead to a table of tables: 2
          PerIndex,  \* ADDRESS_PER_INDEX_BLOCK: 128
          Lbns,      \* the places that are read and written
          MaxLost    \* bound: with more blocks lost, no call begins

ASSUME FileAssumption ==
    /\ NoProc \notin Procs /\ NBlocks \in Nat
    /\ Direct \in Nat /\ Single \in Nat /\ Double \in Nat /\ PerIndex \in Nat \ {0}
    /\ Lbns \subseteq Nat /\ MaxLost \in Nat

Blocks == 1..NBlocks
Slots  == 0..(Direct + Single + Double - 1)
Index  == 0..(PerIndex - 1)
Large  == Direct + Single * PerIndex               \* LARGE_FILE_BLOCK
Huge   == Large + Double * PerIndex * PerIndex     \* HUGE_FILE_BLOCK

VARIABLES addr,    \* i_addr of each file; 0 is no block
          size,    \* i_size, in blocks
          table,   \* the block numbers in a block that is a table
          free,    \* blocks that are free
          pc, cpu, \* where a process is, and who runs on without sleeping
          op,      \* what it does: read, write or trunc
          file, lbn,  \* the file and the place it works on
          path,    \* the indexes to that place; when it cuts, to the block it gives back
          chain,   \* the blocks it has met on that path
          blk,     \* the block Alloc gave it last, or the one it reads or writes
          stale,   \* tables whose clear bytes were never marked to be written
          home,    \* file and path a block was stored at (history)
          lost,    \* blocks that no file and no list leads to (history)
          cut,     \* processes whose file was cut during their call (history)
          raced,   \* two processes stored at one place, or one in a file being cut (history)
          wild     \* a process used a block that is its file's no more, or a stale
                   \* table (history)

filing  == <<addr, size>>
process == <<pc, cpu, op, file, lbn, path, chain, blk>>
history == <<home, lost, cut, raced, wild>>
vars    == <<addr, size, table, free, stale, process, history>>

Put(f, x, v) == [f EXCEPT ![x] = v]
NoHome       == <<>>
At(f, way)   == [file |-> f, path |-> way]

Init ==
    /\ addr = [f \in Files |-> [s \in Slots |-> 0]] /\ size = [f \in Files |-> 0]
    /\ table = [b \in Blocks |-> [i \in Index |-> 0]]
    /\ free = Blocks
    /\ pc = [p \in Procs |-> "user"] /\ cpu = NoProc
    /\ op = [p \in Procs |-> "none"]
    /\ file = [p \in Procs |-> CHOOSE f \in Files : TRUE] /\ lbn = [p \in Procs |-> 0]
    /\ path = [p \in Procs |-> <<>>] /\ chain = [p \in Procs |-> <<>>]
    /\ blk = [p \in Procs |-> 0] /\ stale = {}
    /\ home = [b \in Blocks |-> NoHome]
    /\ lost = {} /\ cut = {} /\ raced = FALSE /\ wild = FALSE

-----------------------------------------------------------------------------
(* Paths *)

\* The indexes that Bmap derives from a place.
Path(l) ==
    IF l < Direct THEN <<l>>
    ELSE IF l < Large
         THEN <<Direct + (l - Direct) \div PerIndex, (l - Direct) % PerIndex>>
         ELSE <<Direct + Single + (l - Large) \div (PerIndex * PerIndex),
                ((l - Large) \div PerIndex) % PerIndex,
                (l - Large) % PerIndex>>

\* How long the paths are that begin with an entry of i_addr.
Depth(s) == IF s < Direct THEN 1 ELSE IF s < Direct + Single THEN 2 ELSE 3

\* The block number found behind the blocks met so far.
Entry(f, met, way) ==
    IF met = <<>> THEN addr[f][way[1]] ELSE table[Last(met)][way[Len(met) + 1]]

\* The blocks of a file that were stored at a path or behind it.
Behind(f, way) == {b \in Blocks :
    /\ home[b] # NoHome
    /\ home[b].file = f /\ IsPrefix(way, home[b].path)}

\* The blocks whose buffers a process keeps while it sleeps.
Holds(p) ==
    CASE pc[p] \in {"alloc", "store"} -> IF chain[p] = <<>> THEN {} ELSE {Last(chain[p])}
      [] pc[p] \in {"table", "free"}  -> {Front(chain[p])[i] : i \in 1..(Len(chain[p]) - 1)}
      [] OTHER -> {}

Busy(p, b) == \E q \in Procs \ {p} : b \in Holds(q)

\* The block that a process is about to use is still its file's, at its place, or
\* nobody's.
Met(p)     == IF pc[p] = "io" THEN blk[p] ELSE Last(chain[p])
MetPath(p) == IF pc[p] = "io" THEN path[p] ELSE SubSeq(path[p], 1, Len(chain[p]))
Mine(p)    == home[Met(p)] = At(file[p], MetPath(p)) \/ Met(p) \in lost
Uses(p)    == pc[p] = "io" \/ (pc[p] \in {"look", "store"} /\ chain[p] # <<>>)
Astray(p)  == p \in cut /\ Uses(p) /\ ~Mine(p)

\* A table is about to be read whose bytes on the disk are those of an earlier use.
ReadsStale(p) == pc[p] \in {"look", "table"} /\ chain[p] # <<>> /\ Last(chain[p]) \in stale

Ready(p, label) == ~wild /\ pc[p] = label /\ cpu \in {p, NoProc}
                   /\ ~Astray(p) /\ ~ReadsStale(p)

SleepAt(p, label) == pc' = Put(pc, p, label) /\ cpu' = NoProc
GoOn(p, label)    == pc' = Put(pc, p, label) /\ cpu' = p

Return(p) ==
    /\ SleepAt(p, "user")
    /\ op' = Put(op, p, "none") /\ file' = Put(file, p, CHOOSE f \in Files : TRUE)
    /\ lbn' = Put(lbn, p, 0) /\ path' = Put(path, p, <<>>)
    /\ chain' = Put(chain, p, <<>>) /\ blk' = Put(blk, p, 0)

Cutting(f)  == \E p \in Procs : op[p] = "trunc" /\ file[p] = f
WorksIn(f)  == {p \in Procs : op[p] \in {"read", "write"} /\ file[p] = f}

-----------------------------------------------------------------------------
(* ReadI, WriteI and Bmap *)

\* A read within the file, or a write: Bmap begins.  Beyond the largest file Bmap
\* refuses (255-259) and nothing changes.
Transfer(p) == \E f \in Files, l \in Lbns, what \in {"read", "write"} :
    /\ Ready(p, "user") /\ Cardinality(lost) <= MaxLost
    /\ l < Huge /\ (what = "read" => l < size[f])
    /\ GoOn(p, "look")
    /\ op' = Put(op, p, what) /\ file' = Put(file, p, f) /\ lbn' = Put(lbn, p, l)
    /\ path' = Put(path, p, Path(l))
    /\ cut' = IF Cutting(f) THEN cut \cup {p} ELSE cut
    /\ UNCHANGED <<filing, table, free, stale, chain, blk, home, lost, raced, wild>>

\* Bread gives the table, or the entry is one of i_addr: is there a block?
LookEmpty(p) ==
    /\ Ready(p, "look")
    /\ chain[p] # <<>> => ~Busy(p, Last(chain[p]))
    /\ Entry(file[p], chain[p], path[p]) = 0
    /\ SleepAt(p, "alloc")
    /\ UNCHANGED <<filing, table, free, stale, op, file, lbn, path, chain, blk, history>>

\* A table: it is read next, and the one before it is released.
LookTable(p) == LET e == Entry(file[p], chain[p], path[p]) IN
    /\ Ready(p, "look")
    /\ chain[p] # <<>> => ~Busy(p, Last(chain[p]))
    /\ e # 0 /\ Len(chain[p]) + 1 < Len(path[p])
    /\ SleepAt(p, "look")
    /\ chain' = Put(chain, p, Append(chain[p], e))
    /\ UNCHANGED <<filing, table, free, stale, op, file, lbn, path, blk, history>>

\* The block of the place: Bread or GetBlk for it may sleep.
LookFound(p) == LET e == Entry(file[p], chain[p], path[p]) IN
    /\ Ready(p, "look")
    /\ chain[p] # <<>> => ~Busy(p, Last(chain[p]))
    /\ e # 0 /\ Len(chain[p]) + 1 = Len(path[p])
    /\ SleepAt(p, "io")
    /\ blk' = Put(blk, p, e)
    /\ UNCHANGED <<filing, table, free, stale, op, file, lbn, path, chain, history>>

\* Mutant: the table would stay with the caller when no block is to be had.
AllocNoneKeeps(p) ==
    /\ Ready(p, "alloc") /\ free = {}
    /\ IF chain[p] = <<>> THEN Return(p) /\ cut' = cut \ {p}
       ELSE UNCHANGED <<process, cut>>
    /\ UNCHANGED <<filing, table, free, stale, home, lost, raced, wild>>

\* Alloc has no block: the call ends with an error.  If the table at hand is new, its
\* buffer is released with neither B_DELWRI nor, unless it had been there from an
\* earlier use, B_DONE: what is on the disk will be read as the table.
AllocNone(p) ==
    /\ Ready(p, "alloc") /\ free = {}
    /\ \E new \in {{}, {blk[p]} \ {0}} : stale' = stale \cup new
    /\ Return(p) /\ cut' = cut \ {p}
    /\ UNCHANGED <<filing, table, free, home, lost, raced, wild>>

\* Alloc takes a block (no block differs from another: the lowest), then sleeps for
\* its buffer; it is clear.
AllocTake(p) == LET b == Min(free) IN
    /\ Ready(p, "alloc") /\ free # {}
    /\ free' = free \ {b}
    /\ blk' = Put(blk, p, b)
    /\ SleepAt(p, "store")
    /\ UNCHANGED <<filing, table, stale, op, file, lbn, path, chain, history>>

\* Its number is stored, in i_addr over whatever another process has stored there
\* meanwhile.  It is the place's block, or a table whose entry is allocated next.
Store(p) ==
    LET f   == file[p]
        way == SubSeq(path[p], 1, Len(chain[p]) + 1)
        old == Behind(f, way)
        orphan == chain[p] # <<>> /\ Last(chain[p]) \in lost
    IN
    /\ Ready(p, "store")
    /\ IF chain[p] = <<>>
       THEN /\ addr' = [addr EXCEPT ![f][path[p][1]] = blk[p]]
            /\ UNCHANGED table
       ELSE /\ table' = [table EXCEPT ![Last(chain[p])][Last(way)] = blk[p]]
            /\ UNCHANGED addr
    /\ home' = [b \in Blocks |->
            IF b = blk[p] /\ ~orphan THEN At(f, way)
            ELSE IF b \in old THEN NoHome ELSE home[b]]
    /\ lost' = lost \cup old \cup (IF orphan THEN {blk[p]} ELSE {})
    /\ raced' = (raced \/ p \in cut
                 \/ (chain[p] = <<>> /\ addr[f][path[p][1]] # 0))
    /\ IF way = path[p]
       THEN SleepAt(p, "io") /\ UNCHANGED <<chain, blk>>
       ELSE /\ SleepAt(p, "alloc")
            /\ chain' = Put(chain, p, Append(chain[p], blk[p]))
            /\ UNCHANGED blk
    /\ UNCHANGED <<size, free, stale, op, file, lbn, path, cut, wild>>

\* The block is in a buffer: the bytes are moved, and the file may grow.
Move(p) ==
    /\ Ready(p, "io")
    /\ IF op[p] = "write"
       THEN size' = Put(size, file[p], Max({size[file[p]], lbn[p] + 1}))
       ELSE UNCHANGED size
    /\ Return(p) /\ cut' = cut \ {p}
    /\ UNCHANGED <<addr, table, free, stale, home, lost, raced, wild>>

-----------------------------------------------------------------------------
(* ITrunc: creat of a file that exists, and IPut of one without names.  The     *)
(* inode is locked: no other ITrunc of this file runs.                          *)

Trunc(p) == \E f \in Files :
    /\ Ready(p, "user") /\ Cardinality(lost) <= MaxLost /\ ~Cutting(f)
    /\ GoOn(p, "next")
    /\ op' = Put(op, p, "trunc") /\ file' = Put(file, p, f)
    /\ path' = Put(path, p, << Max(Slots) + 1 >>) /\ chain' = Put(chain, p, <<0>>)
    /\ cut' = cut \cup WorksIn(f)
    /\ UNCHANGED <<filing, table, free, stale, lbn, blk, home, lost, raced, wild>>

\* The entries of the table at hand, or of i_addr, that are still to be looked at.
Parent(p) == Front(chain[p])
Rest(p)   == {i \in 0..(Last(path[p]) - 1) :
                  Entry(file[p], Parent(p), Append(Front(path[p]), i)) # 0}

\* The next entry: a block of data is freed at once, a table is read first.
NextEntry(p) ==
    LET i   == Max(Rest(p))
        way == Append(Front(path[p]), i)
        e   == Entry(file[p], Parent(p), way)
    IN
    /\ Ready(p, "next") /\ Rest(p) # {}
    /\ SleepAt(p, IF Len(way) = Depth(way[1]) THEN "free" ELSE "table")
    /\ path' = Put(path, p, way)
    /\ chain' = Put(chain, p, Append(Parent(p), e))
    /\ UNCHANGED <<filing, table, free, stale, op, file, lbn, blk, history>>

\* Bread gives the table: its entries come next.
TableRead(p) ==
    /\ Ready(p, "table") /\ ~Busy(p, Last(chain[p]))
    /\ GoOn(p, "next")
    /\ path' = Put(path, p, Append(path[p], PerIndex))
    /\ chain' = Put(chain, p, Append(chain[p], 0))
    /\ UNCHANGED <<filing, table, free, stale, op, file, lbn, blk, history>>

\* Mutant: the table itself would stay allocated.
TableDoneKept(p) ==
    /\ Ready(p, "next") /\ Rest(p) = {} /\ Len(path[p]) > 1
    /\ GoOn(p, "next")
    /\ path' = Put(path, p, Front(path[p])) /\ chain' = Put(chain, p, Parent(p))
    /\ UNCHANGED <<filing, table, free, stale, op, file, lbn, blk, history>>

\* All entries of the table are freed: it is released, and the block freed whose number
\* is in the entry that led to it by now.
TableDone(p) ==
    LET way == Front(path[p])
        up  == Front(Parent(p))
    IN
    /\ Ready(p, "next") /\ Rest(p) = {} /\ Len(path[p]) > 1
    /\ SleepAt(p, "free")
    /\ path' = Put(path, p, way)
    /\ chain' = Put(chain, p, Append(up, Entry(file[p], up, way)))
    /\ UNCHANGED <<filing, table, free, stale, op, file, lbn, blk, history>>

\* Mutant: the entry of i_addr would still lead to the block.
FreedEntryKept(p) == addr

\* i_addr[i] = 0, after the Free of its block.
FreedEntry(p) ==
    IF Len(path[p]) = 1 THEN [addr EXCEPT ![file[p]][path[p][1]] = 0] ELSE addr

\* Free has put the block on the list; what it holds is nobody's now, and cleared
\* here, where Alloc clears it.  What others have stored behind it meanwhile is lost.
Freed(p) ==
    LET b    == Last(chain[p])
        gone == Behind(file[p], path[p]) \ {b}
    IN
    /\ Ready(p, "free")
    /\ free' = free \cup {b}
    /\ addr' = FreedEntry(p)
    /\ home' = [c \in Blocks |-> IF c \in gone \cup {b} THEN NoHome ELSE home[c]]
    /\ lost' = (lost \cup gone) \ {b}
    /\ table' = Put(table, b, [i \in Index |-> 0])
    /\ GoOn(p, "next")
    /\ UNCHANGED <<size, stale, op, file, lbn, path, chain, blk, cut, raced, wild>>

\* The file is empty.
Truncated(p) ==
    /\ Ready(p, "next") /\ Rest(p) = {} /\ Len(path[p]) = 1
    /\ size' = Put(size, file[p], 0)
    /\ Return(p)
    /\ UNCHANGED <<addr, table, free, stale, history>>

-----------------------------------------------------------------------------

\* A process reads, writes or changes a block that ITrunc has freed under it, or takes
\* old bytes for a table: what follows is not modelled.
Stray(p) ==
    /\ ~wild /\ (Astray(p) \/ ReadsStale(p)) /\ cpu \in {p, NoProc}
    /\ wild' = TRUE
    /\ UNCHANGED <<filing, table, free, stale, process, home, lost, cut, raced>>

NotFollowed == wild /\ UNCHANGED vars

Work(p) ==
    \/ LookEmpty(p) \/ LookTable(p) \/ LookFound(p)
    \/ AllocNone(p) \/ AllocTake(p) \/ Store(p) \/ Move(p)
    \/ NextEntry(p) \/ TableRead(p) \/ TableDone(p) \/ Freed(p) \/ Truncated(p)
    \/ Stray(p)

Next == NotFollowed \/ \E p \in Procs : Transfer(p) \/ Trunc(p) \/ Work(p)

Spec == Init /\ [][Next]_vars

\* Who is asleep is woken when what it waits for is there, and gets the processor
\* in its turn.
FairSpec == Spec /\ \A p \in Procs : SF_vars(Work(p))

-----------------------------------------------------------------------------

Labels == {"user", "look", "alloc", "store", "io", "next", "table", "free"}

TypeOK ==
    /\ addr \in [Files -> [Slots -> 0..NBlocks]] /\ size \in [Files -> Nat]
    /\ table \in [Blocks -> [Index -> 0..NBlocks]]
    /\ free \subseteq Blocks /\ stale \subseteq Blocks /\ lost \subseteq Blocks /\ cut \subseteq Procs
    /\ pc \in [Procs -> Labels] /\ cpu \in Procs \cup {NoProc}
    /\ op \in [Procs -> {"none", "read", "write", "trunc"}]
    /\ file \in [Procs -> Files] /\ lbn \in [Procs -> Lbns \cup {0}]
    /\ blk \in [Procs -> 0..NBlocks]
    /\ raced \in BOOLEAN /\ wild \in BOOLEAN

\* The block that the tables of a file lead to.
Walk(f, way) == FoldLeft(
    LAMBDA b, d : IF b = 0 THEN 0 ELSE table[b][way[d]],
    addr[f][way[1]], [d \in 1..(Len(way) - 1) |-> d + 1])

\* A process reads, writes or enters a number only into blocks of its own file, at
\* its own place, unless the file was cut during its call (Bmap, ReadI 106-119,
\* WriteI 184-196).
OwnBlocks == \A p \in Procs : Uses(p) /\ p \notin cut => Mine(p)

\* The blocks of a file, and only they, hold the place they were stored at: no two
\* places share one, and each block is free, a file's, in one process's hand, or
\* lost, and only one of these (Bmap 263-397, ITrunc 550-598).
InHand(p)  == IF pc[p] = "store" THEN {blk[p]} ELSE {}
Housed     == {b \in Blocks : home[b] # NoHome}
BlocksExact ==
    /\ TypeOK /\ OwnBlocks
    /\ \A b \in Housed : Walk(home[b].file, home[b].path) = b
    /\ Housed \cup free \cup lost \cup UNION {InHand(p) : p \in Procs} = Blocks
    /\ Cardinality(Housed) + Cardinality(free) + Cardinality(lost)
         + Cardinality({p \in Procs : InHand(p) # {}}) = NBlocks

\* A block gets lost only where two processes were at work on one file at once:
\* one alone loses none, whether Alloc fails or the file is cut (Bmap 316-347,
\* 377-390, ITrunc).
NothingLost == lost # {} => raced

\* What i_addr or a table leads to as a table is one: no call takes old bytes of the
\* disk for the numbers of blocks (INode.cpp:311, 320, 339).
TablesRead == \A p \in Procs : ~ReadsStale(p)

\* Every call ends: nobody keeps a table that others wait for, or waits for what he
\* has (Bmap 326-390, ITrunc 559-591).
CallsEnd == \A p \in Procs : pc[p] # "user" ~> (pc[p] = "user" \/ wild)

=============================================================================
