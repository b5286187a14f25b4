------------------------------ MODULE PipeProofs ------------------------------
(*****************************************************************************)
(* A pipe for any number of processes and descriptors, any PIPSIZ and        *)
(* BLOCK_SIZE and any bytes: the references to its ends are counted, nobody  *)
(* sleeps for what has already happened, and it is a bounded queue of bytes. *)
(*                                                                           *)
(* The lock of the pipe can be cleared under its owner.  PipeInv says what   *)
(* holds all the same, and with HoldersOK how far the lock can be trusted.   *)
(*****************************************************************************)
EXTENDS Pipe, FiniteSetTheorems, SequenceTheorems, TLAPS

\* p makes the pipe or gives up its inode.
Ending(p) == pc[p] \in {"pipe", "trunc", "update"}

\* p has the lock, or had it until it was cleared.
Locks(p) == Holds(p) \/ pc[p] = "pipe"

Open(e) == IF fcount[e] > 0 THEN 1 ELSE 0

\* One process makes the pipe or gives its inode up, when there are no descriptors; else
\* the counts are the numbers of descriptors and of open ends.
CountsOK ==
    /\ \A p, q \in Procs : Ending(p) /\ Ending(q) => p = q
    /\ \A p \in Procs : Ending(p) =>
          /\ ino.count = 1 /\ \A q \in Procs, e \in Ends : fds[q][e] = 0
          /\ \A e \in Ends : fcount[e] = IF end[p] = e THEN 1 ELSE 0
    /\ (\A p \in Procs : ~Ending(p)) =>
          /\ \A e \in Ends : fcount[e] = Cardinality(Descriptors(e))
          /\ ino.count = Open("r") + Open("w")

\* The lock is set while somebody has it, and has one owner but for an Update that is
\* writing the inode while the last descriptor is closed; or it was cleared once.
HoldersOK ==
    /\ \A p \in Procs : Locks(p) => (ino.lock /\ ino.count > 0) \/ wild
    /\ \A p, q \in Procs : Locks(p) /\ Locks(q) /\ p # q /\ ~wild =>
          \/ pc[p] = "sync" /\ pc[q] \in {"trunc", "update"}
          \/ pc[q] = "sync" /\ pc[p] \in {"trunc", "update"}

\* Where a process can be, given its descriptors, its channel and the CPU.
PlaceOK(p) ==
    /\ pc[p] \in {"read", "rblock"} => fds[p]["r"] > 0
    /\ pc[p] \in {"write", "wblock"} => fds[p]["w"] > 0
    /\ pc[p] = "none" => \A e \in Ends : fds[p][e] = 0
    /\ Used(p) <= NOFile
    /\ chan[p] = Data => pc[p] = "read"
    /\ chan[p] = Room => pc[p] = "write"
    /\ chan[p] = Lock => pc[p] \in {"read", "write"}
    /\ cpu = p => pc[p] = "write" /\ chan[p] = Awake
    /\ end[p] # "none" => pc[p] \in {"trunc", "update"}

\* A turn of ReadI or WriteI is inside the pipe, and f_offset is moved only at its end.
TurnOK(p) ==
    /\ pc[p] \in {"rblock", "wblock"} => /\ io[p].n \in 1..io[p].cnt
                                         /\ io[p].off + io[p].n <= PIPSIZ
    /\ pc[p] = "wblock" => io[p].off + io[p].cnt <= PIPSIZ
    /\ pc[p] = "rblock" => foff # ino.size

PipeInv ==
    /\ TypeOK /\ CountsOK /\ HoldersOK /\ SleepersHaveReason
    /\ \A p \in Procs : PlaceOK(p) /\ TurnOK(p)

-----------------------------------------------------------------------------
\* Counting descriptors

Counts == [Procs -> 0..NOFile]

\* What f counts, one by one.
Items(f) == {d \in Procs \X (1..NOFile) : d[2] <= f[d[1]]}

LEMMA ItemsFinite ==
    ASSUME NEW f \in Counts
    PROVE  IsFiniteSet(Items(f)) /\ Cardinality(Items(f)) \in Nat
<1>1. IsFiniteSet(Procs) /\ NOFile \in Int
  BY PipeAssumption
<1>2. IsFiniteSet(1..NOFile)
  BY <1>1, FS_Interval
<1>3. IsFiniteSet(Procs \X (1..NOFile))
  BY <1>1, <1>2, FS_Product
<1> QED BY <1>3, FS_Subset, FS_CardinalityType DEF Items

LEMMA OneMore ==
    ASSUME NEW f \in Counts, NEW g \in Counts, NEW p \in Procs, g = [f EXCEPT ![p] = @ + 1]
    PROVE  Cardinality(Items(g)) = Cardinality(Items(f)) + 1
<1>1. g[p] = f[p] + 1 /\ g[p] \in 1..NOFile
  BY PipeAssumption DEF Counts
<1>2. Items(g) = Items(f) \cup {<<p, g[p]>>}
  BY <1>1, PipeAssumption DEF Counts, Items
<1>3. <<p, g[p]>> \notin Items(f)
  BY <1>1 DEF Items, Counts
<1> QED BY <1>2, <1>3, ItemsFinite, FS_AddElement

LEMMA NoItems ==
    ASSUME NEW f \in Counts
    PROVE  Cardinality(Items(f)) = 0 <=> \A q \in Procs : f[q] = 0
<1>1. Items(f) = {} <=> \A q \in Procs : f[q] = 0
  <2>1. ASSUME NEW q \in Procs, f[q] # 0  PROVE <<q, f[q]>> \in Items(f)
    BY <2>1, PipeAssumption DEF Items, Counts
  <2>2. ASSUME NEW d \in Items(f)  PROVE d[1] \in Procs /\ f[d[1]] # 0
    BY <2>2, PipeAssumption DEF Items, Counts
  <2> QED BY <2>1, <2>2
<1> QED BY <1>1, ItemsFinite, FS_EmptySet

LEMMA OneItem ==
    ASSUME NEW f \in Counts, NEW p \in Procs, f[p] > 0
    PROVE  /\ Cardinality(Items(f)) > 0
           /\ Cardinality(Items(f)) <= 1 => f[p] = 1 /\ \A q \in Procs \ {p} : f[q] = 0
<1>1. PICK g : g = [f EXCEPT ![p] = @ - 1]
  OBVIOUS
<1>2. g \in Counts /\ f = [g EXCEPT ![p] = @ + 1]
  <2>1. f[p] - 1 \in 0..NOFile /\ (f[p] - 1) + 1 = f[p]
    BY PipeAssumption DEF Counts
  <2>2. g \in Counts
    BY <1>1, <2>1 DEF Counts
  <2>3. g[p] + 1 = f[p] /\ DOMAIN f = Procs /\ \A q \in Procs \ {p} : g[q] = f[q]
    BY <1>1, <2>1 DEF Counts
  <2> QED BY <2>2, <2>3 DEF Counts
<1>3. Cardinality(Items(f)) = Cardinality(Items(g)) + 1 /\ Cardinality(Items(g)) \in Nat
  BY <1>2, OneMore, ItemsFinite
<1>4. Cardinality(Items(f)) <= 1 => \A q \in Procs : g[q] = 0
  BY <1>2, <1>3, NoItems
<1> QED BY <1>1, <1>3, <1>4, PipeAssumption DEF Counts

\* A process that had none gets as many as p has.
LEMMA Copied ==
    ASSUME NEW f \in Counts, NEW g \in Counts, NEW p \in Procs, NEW q \in Procs,
           f[q] = 0, g = [f EXCEPT ![q] = f[p]]
    PROVE  Cardinality(Items(g)) = Cardinality(Items(f)) + f[p]
<1>1. PICK new : new = {q} \X (1..f[p])
  OBVIOUS
<1>2. f[p] \in Nat
  BY PipeAssumption DEF Counts
<1>3. IsFiniteSet(new) /\ Cardinality(new) = f[p]
  <2>1. IsFiniteSet({q}) /\ Cardinality({q}) = 1
    BY FS_Singleton
  <2>2. PICK n \in Nat : n = f[p]
    BY <1>2
  <2>3. IsFiniteSet(1..n) /\ Cardinality(1..n) = n
    <3>1. n \in Int /\ 1 \in Int
      OBVIOUS
    <3>2. IsFiniteSet(1..n) /\ Cardinality(1..n) = IF 1 > n THEN 0 ELSE n - 1 + 1
      BY <3>1, FS_Interval, Zenon
    <3> QED BY <3>2
  <2>4. IsFiniteSet(new) /\ Cardinality(new) = 1 * n
    BY <1>1, <2>1, <2>2, <2>3, FS_Product
  <2> QED BY <2>2, <2>4
<1>4. Items(g) = Items(f) \cup new
  BY <1>1, <1>2, PipeAssumption DEF Items, Counts
<1>5. Items(f) \cap new = {}
  BY <1>1, <1>2, PipeAssumption DEF Items, Counts
<1>6. IsFiniteSet(Items(f)) /\ Cardinality(Items(f)) \in Nat
  BY ItemsFinite
<1>7. Cardinality(Items(f) \cap new) = 0
  BY <1>5, FS_EmptySet
<1>8. Cardinality(Items(f) \cup new)
        = Cardinality(Items(f)) + Cardinality(new) - Cardinality(Items(f) \cap new)
  BY <1>3, <1>6, FS_Union
<1>9. Cardinality(Items(g)) = Cardinality(Items(f) \cup new)
  BY <1>4
<1> QED BY <1>2, <1>3, <1>6, <1>7, <1>8, <1>9

-----------------------------------------------------------------------------
\* The descriptors for e, by process
By(e) == [p \in Procs |-> fds[p][e]]

FdsOK == \A p \in Procs, e \in Ends : fds[p][e] \in 0..NOFile

LEMMA ByIs ==
    ASSUME FdsOK, NEW e \in Ends
    PROVE  By(e) \in Counts /\ Descriptors(e) = Items(By(e))
  BY DEF FdsOK, By, Counts, Descriptors, Items


-----------------------------------------------------------------------------
\* Types, part by part

FileType ==
    /\ ino \in [count : 0..2, lock : BOOLEAN, want : BOOLEAN, size : 0..PIPSIZ,
                iread : BOOLEAN, iwrite : BOOLEAN, blocks : 0..PIPSIZ]
    /\ data \in [0..(PIPSIZ - 1) -> Bytes \cup {NoByte}] /\ foff \in 0..PIPSIZ

CountType == fcount \in [Ends -> Nat] /\ fds \in [Procs -> [Ends -> 0..NOFile]]

PlaceType ==
    /\ cpu \in Procs \cup {NoProc}
    /\ pc \in [Procs -> {"none", "user", "pipe", "read", "rblock", "write", "wblock",
                         "sync", "trunc", "update"}]
    /\ chan \in [Procs -> {Awake, Lock, Room, Data}] /\ wild \in BOOLEAN

LocalType ==
    /\ end \in [Procs -> Ends \cup {"none"}] /\ left \in [Procs -> 0..MaxCount]
    /\ io \in [Procs -> [off : 0..PIPSIZ, cnt : 0..MaxCount, n : 0..Block]]
    /\ err \in [Procs -> BOOLEAN]

LEMMA TypeParts == TypeOK <=> FileType /\ CountType /\ PlaceType /\ LocalType
  BY DEF TypeOK, FileType, CountType, PlaceType, LocalType

LEMMA TypeNext == FileType' /\ CountType' /\ PlaceType' /\ LocalType' => TypeOK'
  BY TypeParts, PTL

-----------------------------------------------------------------------------
\* Steps of one process

\* Only p moves; the others may be woken.
Moves(p) ==
    /\ cpu' \in {p, NoProc}
    /\ \A q \in Procs \ {p} :
          /\ pc'[q] = pc[q] /\ fds'[q] = fds[q] /\ end'[q] = end[q] /\ io'[q] = io[q]
          /\ chan'[q] \in {chan[q], Awake}

LEMMA Channels == /\ Awake # Data /\ Awake # Room /\ Awake # Lock
                  /\ Data # Room /\ Data # Lock /\ Room # Lock
  BY DEF Awake, Data, Room, Lock

LEMMA OthersPlaces ==
    ASSUME PipeInv, NEW p \in Procs, Moves(p)
    PROVE  \A q \in Procs \ {p} : PlaceOK(q)'
<1> TAKE q \in Procs \ {p}
<1>1. PlaceOK(q)
  BY DEF PipeInv
<1>2. cpu' # q
  BY PipeAssumption DEF Moves
<1>3. Used(q)' = Used(q)
  BY DEF Moves, Used
<1>4. chan'[q] \in {chan[q], Awake}
  BY DEF Moves
<1> QED BY <1>1, <1>2, <1>3, <1>4, Channels DEF Moves, PlaceOK

LEMMA OthersTurns ==
    ASSUME PipeInv, NEW p \in Procs, Moves(p),
           foff' # ino'.size \/ \A q \in Procs \ {p} : pc[q] # "rblock"
    PROVE  \A q \in Procs \ {p} : TurnOK(q)'
  BY DEF PipeInv, Moves, TurnOK

LEMMA CountsKept ==
    ASSUME PipeInv, NEW p \in Procs, Moves(p), UNCHANGED counts, ino'.count = ino.count,
           Ending(p)' <=> Ending(p), Ending(p) => end'[p] = end[p]
    PROVE  CountsOK'
<1>1. \A q \in Procs : Ending(q)' <=> Ending(q)
  BY DEF Moves, Ending
<1>2. \A q \in Procs : Ending(q) => end'[q] = end[q]
  BY DEF Moves
<1>3. \A e \in Ends : Descriptors(e)' = Descriptors(e)
  BY DEF counts, Descriptors
<1> QED BY <1>1, <1>2, <1>3 DEF PipeInv, CountsOK, counts, Open

\* What p has of the lock does not change.
LEMMA HoldersKept ==
    ASSUME PipeInv, NEW p \in Procs, Moves(p), Locks(p)' => pc'[p] = pc[p],
           ino'.lock = ino.lock, ino'.count = ino.count, UNCHANGED wild
    PROVE  HoldersOK'
  BY DEF PipeInv, HoldersOK, Moves, Locks, Holds

\* p takes the lock, which is clear.
LEMMA LockTaken ==
    ASSUME PipeInv, NEW p \in Procs, Moves(p), ~ino.lock, ino'.lock, ino'.count > 0,
           UNCHANGED wild
    PROVE  HoldersOK'
  BY DEF PipeInv, HoldersOK, Moves, Locks, Holds

\* p clears the lock.
LEMMA LockCleared ==
    ASSUME PipeInv, NEW p \in Procs, Moves(p), ~Locks(p)',
           \A q \in Procs \ {p} : pc[q] = "pipe" => wild,
           wild' = (wild \/ \E q \in Procs \ {p} : Holds(q))
    PROVE  HoldersOK'
<1>1. CASE wild'
  BY <1>1 DEF HoldersOK
<1>2. CASE ~wild'
  <2>1. \A q \in Procs : ~Locks(q)'
    BY <1>2 DEF Moves, Locks, Holds
  <2> QED BY <2>1 DEF HoldersOK
<1> QED BY <1>1, <1>2

\* What is left to show for a step of p.
LEMMA Kept ==
    ASSUME PipeInv, NEW p \in Procs, Moves(p), FileType', CountType', PlaceType', LocalType',
           CountsOK', HoldersOK',
           PlaceOK(p)', TurnOK(p)', SleepersHaveReason',
           foff' # ino'.size \/ \A q \in Procs \ {p} : pc[q] # "rblock"
    PROVE  PipeInv'
  BY OthersPlaces, OthersTurns, TypeNext DEF PipeInv

\* While p has a descriptor, nobody makes the pipe or gives its inode up.
LEMMA Settled ==
    ASSUME PipeInv, NEW p \in Procs, NEW e \in Ends, fds[p][e] > 0
    PROVE  /\ \A q \in Procs : ~Ending(q)
           /\ \A x \in Ends : By(x) \in Counts /\ fcount[x] = Cardinality(Items(By(x)))
           /\ ino.count = Open("r") + Open("w")
           /\ fcount[e] \in Nat \ {0}
<1>1. FdsOK
  BY DEF PipeInv, TypeOK, FdsOK
<1>2. \A q \in Procs : ~Ending(q)
  BY DEF PipeInv, CountsOK
<1>3. /\ \A x \in Ends : fcount[x] = Cardinality(Descriptors(x))
      /\ ino.count = Open("r") + Open("w")
  BY <1>2 DEF PipeInv, CountsOK
<1>4. \A x \in Ends : By(x) \in Counts /\ fcount[x] = Cardinality(Items(By(x)))
  BY <1>1, <1>3, ByIs
<1>5. Cardinality(Items(By(e))) > 0 /\ Cardinality(Items(By(e))) \in Nat
  <2>1. By(e)[p] > 0
    BY DEF By
  <2> QED BY <1>4, <2>1, OneItem, ItemsFinite
<1> QED BY <1>2, <1>3, <1>4, <1>5

\* The sleepers that a step of p leaves asleep still have their reason.
LEMMA SleepersKept ==
    ASSUME PipeInv, NEW p \in Procs, Moves(p), chan'[p] \in {chan[p], Awake},
           UNCHANGED foff, ino'.size = ino.size, ino'.count = ino.count,
           ino'.iread = ino.iread, ino'.iwrite = ino.iwrite,
           pc[p] = "wblock" => pc'[p] = "wblock",
           ino.want => ino'.want, ino.lock \/ wild => ino'.lock \/ wild'
    PROVE  SleepersHaveReason'
<1>1. \A q \in Procs : chan'[q] \in {chan[q], Awake}
  BY DEF Moves
<1>2. \A q \in Procs : pc[q] = "wblock" => pc'[q] = "wblock"
  BY DEF Moves
<1> QED BY <1>1, <1>2, Channels DEF PipeInv, SleepersHaveReason

-----------------------------------------------------------------------------
\* Calls


LEMMA ByNext ==
    FdsOK' => \A x \in Ends : By(x)' \in Counts /\ Descriptors(x)' = Items(By(x)')
  BY DEF FdsOK, By, Counts, Descriptors, Items

\* A process has one descriptor more, or one less, for e.
LEMMA DescriptorMore ==
    ASSUME FdsOK, FdsOK', CountType, NEW p \in Procs, NEW e \in Ends,
           fds' = [fds EXCEPT ![p][e] = @ + 1]
    PROVE  \A x \in Ends : Cardinality(Descriptors(x)') =
                 IF x = e THEN Cardinality(Descriptors(x)) + 1 ELSE Cardinality(Descriptors(x))
<1> TAKE x \in Ends
<1>1. By(x) \in Counts /\ Descriptors(x) = Items(By(x))
  BY ByIs
<1>2. By(x)' \in Counts /\ Descriptors(x)' = Items(By(x)')
  BY ByNext
<1>3. x = e => By(x)' = [By(x) EXCEPT ![p] = @ + 1]
  BY DEF By, CountType
<1>4. x # e => By(x)' = By(x)
  BY DEF By, CountType
<1> QED BY <1>1, <1>2, <1>3, <1>4, OneMore

LEMMA DescriptorLess ==
    ASSUME FdsOK, FdsOK', CountType, NEW p \in Procs, NEW e \in Ends, fds[p][e] > 0,
           fds' = [fds EXCEPT ![p][e] = @ - 1]
    PROVE  \A x \in Ends : Cardinality(Descriptors(x)) =
                 IF x = e THEN Cardinality(Descriptors(x)') + 1 ELSE Cardinality(Descriptors(x)')
<1> TAKE x \in Ends
<1>1. By(x) \in Counts /\ Descriptors(x) = Items(By(x))
  BY ByIs
<1>2. By(x)' \in Counts /\ Descriptors(x)' = Items(By(x)')
  BY ByNext
<1>3. x = e => By(x) = [By(x)' EXCEPT ![p] = @ + 1]
  <2>1. fds[p][e] - 1 + 1 = fds[p][e]
    BY DEF CountType
  <2> QED BY <2>1 DEF By, CountType
<1>4. x # e => By(x)' = By(x)
  BY DEF By, CountType
<1> QED BY <1>1, <1>2, <1>3, <1>4, OneMore

LEMMA Types ==
    ASSUME PipeInv
    PROVE  FileType /\ CountType /\ PlaceType /\ LocalType /\ FdsOK
<1>1. TypeOK
  BY DEF PipeInv
<1>2. FileType /\ CountType /\ PlaceType /\ LocalType
  BY <1>1, TypeParts
<1> QED BY <1>2 DEF CountType, FdsOK

\* Without descriptors nobody reads, writes or waits for the pipe.
LEMMA Unused ==
    ASSUME PipeInv, \A q \in Procs, e \in Ends : fds[q][e] = 0
    PROVE  \A q \in Procs : /\ chan[q] = Awake
                            /\ pc[q] \notin {"read", "rblock", "write", "wblock"}
<1> TAKE q \in Procs
<1>1. PlaceOK(q) /\ PlaceType
  BY Types DEF PipeInv
<1>2. fds[q]["r"] = 0 /\ fds[q]["w"] = 0
  BY DEF Ends
<1>3. pc[q] \notin {"read", "rblock", "write", "wblock"}
  BY <1>1, <1>2 DEF PlaceOK
<1> QED BY <1>1, <1>3 DEF PlaceOK, PlaceType

\* While p makes the pipe or gives it up there are none.
LEMMA EndingUnused ==
    ASSUME PipeInv, NEW p \in Procs, Ending(p)
    PROVE  /\ \A q \in Procs : /\ chan[q] = Awake /\ \A e \in Ends : fds[q][e] = 0
                              /\ pc[q] \notin {"read", "rblock", "write", "wblock"}
           /\ \A q \in Procs \ {p} : ~Ending(q)
           /\ ino.count = 1 /\ \A e \in Ends : fcount[e] = IF end[p] = e THEN 1 ELSE 0
<1>1. \A q \in Procs, e \in Ends : fds[q][e] = 0
  BY DEF PipeInv, CountsOK
<1> QED BY <1>1, Unused DEF PipeInv, CountsOK

LEMMA EndingKeeps ==
    ASSUME PipeInv, NEW p \in Procs,
           PipeMade(p) \/ PipeFails(p) \/ Truncated(p) \/ Released(p)
    PROVE  PipeInv'
<1> USE DEF At, Put, file, counts, locals
<1>0. /\ \A q \in Procs : /\ chan[q] = Awake /\ \A e \in Ends : fds[q][e] = 0
                         /\ pc[q] \notin {"read", "rblock", "write", "wblock"}
      /\ \A q \in Procs \ {p} : ~Ending(q)
      /\ ino.count = 1 /\ \A e \in Ends : fcount[e] = IF end[p] = e THEN 1 ELSE 0
      /\ Ending(p) /\ PlaceOK(p) /\ p # NoProc /\ FdsOK
  BY EndingUnused, Types, PipeAssumption
     DEF PipeInv, Ending, PipeMade, PipeFails, Truncated, Released
<1>1. CASE PipeMade(p)
  <2>1. FileType' /\ CountType'
    <3>1. FileType'
      <4>1. 2 \in 0..2 /\ 0 \in 0..PIPSIZ
        BY PipeAssumption
      <4> QED BY <1>1, <4>1, Types DEF FileType, PipeMade, UserMode, SleepAt, NoIO
    <3>2. 1 \in 0..NOFile /\ \A e \in Ends : fds[p][e] = 0
      BY <1>0, <1>1, PipeAssumption DEF Used, Ends, PipeMade, UserMode, SleepAt, NoIO
    <3>3. CountType'
      BY <1>1, <3>2, Types DEF CountType, PipeMade, UserMode, SleepAt, NoIO
    <3> QED BY <3>1, <3>3
  <2>2. PlaceType'
    BY <1>1, TypeParts DEF PipeInv, PlaceType, PipeMade, UserMode, SleepAt, NoIO
  <2>3. LocalType'
    BY <1>1, TypeParts, PipeAssumption DEF PipeInv, LocalType, Ends, PipeMade, UserMode, SleepAt,
       NoIO
  <2>4. Moves(p)
    BY <1>1 DEF PipeInv, TypeOK, Moves, PipeMade, UserMode, SleepAt, NoIO
  <2>5. PlaceOK(p)' /\ TurnOK(p)'
    <3>1. pc'[p] = "user" /\ cpu' = NoProc /\ end'[p] = "none" /\ chan'[p] = Awake
      BY <1>0, <1>1, Types DEF PlaceType, LocalType, PipeMade, UserMode, SleepAt, NoIO
    <3>2. Used(p)' <= NOFile
      <4>1. fds[p]["r"] = 0 /\ fds[p]["w"] = 0 /\ 2 <= NOFile
        BY <1>0, <1>1, PipeAssumption DEF Used, Ends, PipeMade, UserMode, SleepAt, NoIO
      <4>2. fds'[p]["r"] = 1 /\ fds'[p]["w"] = 1
        BY <1>1, <4>1, Types DEF CountType, Ends, PipeMade, UserMode, SleepAt, NoIO
      <4> QED BY <4>1, <4>2 DEF Used
    <3> QED BY <1>0, <3>1, <3>2, Channels DEF PlaceOK, TurnOK
  <2>6. CountsOK'
    <3>1. ~Ending(p)' /\ \A q \in Procs \ {p} : ~Ending(q)'
      BY <1>0, <1>1, <2>2, <2>4 DEF Moves, PlaceType, Ending, PipeMade, UserMode, SleepAt, NoIO
    <3>2. end[p] = "none" /\ \A e \in Ends : fcount[e] = 0 /\ fcount'[e] = 1
      BY <1>0, <1>1 DEF PlaceOK, Ends, PipeMade, UserMode, SleepAt, NoIO
    <3>3. \A e \in Ends : Cardinality(Descriptors(e)') = 1
      <4> TAKE e \in Ends
      <4>1. By(e) \in Counts /\ By(e)' \in Counts /\ Descriptors(e)' = Items(By(e)')
        BY <1>0, <2>1, ByIs, ByNext DEF CountType, FdsOK
      <4>2. By(e)' = [By(e) EXCEPT ![p] = @ + 1]
        BY <1>1, Types DEF By, CountType, PipeMade, UserMode, SleepAt, NoIO
      <4>3. \A q \in Procs : By(e)[q] = 0
        BY <1>0 DEF By
      <4>4. Cardinality(Items(By(e))) = 0
        BY <4>1, <4>3, NoItems
      <4>5. Cardinality(Items(By(e)')) = Cardinality(Items(By(e))) + 1
        BY <4>1, <4>2, OneMore
      <4> QED BY <4>1, <4>4, <4>5
    <3>4. ino'.count = 2 /\ Open("r")' = 1 /\ Open("w")' = 1
      BY <1>1, <3>2, Types DEF Open, Ends, FileType, PipeMade, UserMode, SleepAt, NoIO
    <3> QED BY <3>1, <3>2, <3>3, <3>4 DEF CountsOK
  <2>7. HoldersOK'
    <3>1. \A q \in Procs \ {p} : Locks(q) => wild
      BY <1>1 DEF PipeInv, HoldersOK, Locks, PipeMade, UserMode, SleepAt, NoIO
    <3> QED BY <1>1, <2>2, <2>4, <3>1 DEF HoldersOK, Moves, Locks, Holds, PlaceType, PipeMade,
               UserMode, SleepAt, NoIO
  <2>8. SleepersHaveReason'
    BY <1>0, <1>1, <2>4, Channels DEF Moves, SleepersHaveReason, PipeMade, UserMode, SleepAt, NoIO
  <2>9. foff' # ino'.size \/ \A q \in Procs \ {p} : pc[q] # "rblock"
    BY <1>0 DEF PipeInv
  <2> QED BY <2>1, <2>2, <2>3, <2>4, <2>5, <2>6, <2>7, <2>8, <2>9, Kept
<1>2. CASE PipeFails(p)
  <2>1. FileType' /\ CountType'
    <3>1. 0 \in 0..PIPSIZ
      BY PipeAssumption
    <3> QED BY <1>2, <3>1, Types DEF FileType, CountType, PipeFails, SleepAt
  <2>2. PlaceType'
    BY <1>2, TypeParts DEF PipeInv, PlaceType, PipeFails, SleepAt
  <2>3. LocalType'
    BY <1>2, TypeParts, PipeAssumption DEF PipeInv, LocalType, Ends, PipeFails, SleepAt
  <2>4. Moves(p)
    BY <1>2 DEF PipeInv, TypeOK, Moves, PipeFails, SleepAt
  <2>5. PlaceOK(p)' /\ TurnOK(p)'
    <3>1. Used(p)' = Used(p)
      BY <1>2 DEF Used, PipeFails, SleepAt
    <3> QED BY <1>0, <1>2, <2>2, <3>1, Channels, Types DEF PlaceOK, PlaceType, TurnOK, PipeFails,
               SleepAt
  <2>6. CountsOK'
    BY <1>0, <1>2, <2>2, <2>4, CountsKept, Types DEF PlaceType, FileType, Ending, PipeFails, SleepAt
  <2>7. HoldersOK'
    BY <1>2, <2>2, <2>4, Types DEF PipeInv, HoldersOK, Moves, Locks, Holds, PlaceType, FileType,
       PipeFails, SleepAt
  <2>8. SleepersHaveReason'
    BY <1>0, <1>2, <2>4, Channels DEF Moves, SleepersHaveReason, PipeFails, SleepAt
  <2>9. foff' # ino'.size \/ \A q \in Procs \ {p} : pc[q] # "rblock"
    BY <1>0 DEF PipeInv
  <2> QED BY <2>1, <2>2, <2>3, <2>4, <2>5, <2>6, <2>7, <2>8, <2>9, Kept
<1>3. CASE Truncated(p)
  <2>1. FileType' /\ CountType'
    <3>1. 0 \in 0..PIPSIZ
      BY PipeAssumption
    <3> QED BY <1>3, <3>1, Types DEF FileType, CountType, Truncated, SleepAt
  <2>2. PlaceType'
    BY <1>3, TypeParts DEF PipeInv, PlaceType, Truncated, SleepAt
  <2>3. LocalType'
    BY <1>3, TypeParts, PipeAssumption DEF PipeInv, LocalType, Ends, Truncated, SleepAt
  <2>4. Moves(p)
    BY <1>3 DEF PipeInv, TypeOK, Moves, Truncated, SleepAt
  <2>5. PlaceOK(p)' /\ TurnOK(p)'
    <3>1. Used(p)' = Used(p)
      BY <1>3 DEF Used, Truncated, SleepAt
    <3> QED BY <1>0, <1>3, <2>2, <3>1, Channels, Types DEF PlaceOK, PlaceType, TurnOK, Truncated,
               SleepAt
  <2>6. CountsOK'
    BY <1>0, <1>3, <2>2, <2>4, CountsKept, Types DEF PlaceType, FileType, Ending, Truncated, SleepAt
  <2>7. HoldersOK'
    BY <1>3, <2>2, <2>4, Types DEF PipeInv, HoldersOK, Moves, Locks, Holds, PlaceType, FileType,
       Truncated, SleepAt
  <2>8. SleepersHaveReason'
    BY <1>0, <1>3, <2>4, Channels DEF Moves, SleepersHaveReason, Truncated, SleepAt
  <2>9. foff' # ino'.size \/ \A q \in Procs \ {p} : pc[q] # "rblock"
    BY <1>0 DEF PipeInv
  <2> QED BY <2>1, <2>2, <2>3, <2>4, <2>5, <2>6, <2>7, <2>8, <2>9, Kept
<1>4. CASE Released(p)
  <2>1. FileType' /\ CountType'
    <3>1. ino.count - 1 \in 0..2 /\ \A e \in Ends : e = end[p] => fcount[e] - 1 = 0
      BY <1>0
    <3>2. FileType'
      BY <1>4, <3>1, Types DEF FileType, Released, Prele, Wakes, UserMode, SleepAt, NoIO
    <3>3. CountType'
      BY <1>4, <3>1, Types DEF CountType, Released, Prele, Wakes, UserMode, SleepAt, NoIO
    <3> QED BY <3>2, <3>3
  <2>2. PlaceType'
    BY <1>4, TypeParts DEF PipeInv, PlaceType, Released, Prele, Wakes, UserMode, SleepAt, NoIO
  <2>3. LocalType'
    BY <1>4, TypeParts, PipeAssumption DEF PipeInv, LocalType, Ends, Released, Prele, Wakes,
       UserMode, SleepAt, NoIO
  <2>4. Moves(p)
    BY <1>4 DEF PipeInv, TypeOK, Moves, Released, Prele, Wakes, UserMode, SleepAt, NoIO
  <2>5. PlaceOK(p)' /\ TurnOK(p)'
    <3>1. pc'[p] = "user" /\ cpu' = NoProc /\ end'[p] = "none" /\ chan'[p] = Awake
      BY <1>0, <1>4, Types, Channels DEF PlaceType, LocalType, Released, Prele, Wakes, UserMode,
         SleepAt, NoIO
    <3>2. Used(p)' = Used(p)
      BY <1>4 DEF Used, Released, Prele, Wakes, UserMode, SleepAt, NoIO
    <3> QED BY <1>0, <3>1, <3>2, Channels DEF PlaceOK, TurnOK
  <2>6. CountsOK'
    <3>1. ~Ending(p)' /\ \A q \in Procs \ {p} : ~Ending(q)'
      BY <1>0, <1>4, <2>2, <2>4 DEF Moves, PlaceType, Ending, Released, Prele, Wakes, UserMode,
         SleepAt, NoIO
    <3>2. \A e \in Ends : fcount'[e] = 0
      BY <1>0, <1>4 DEF Released, Prele, Wakes, UserMode, SleepAt, NoIO
    <3>3. \A e \in Ends : Cardinality(Descriptors(e)') = 0
      <4> TAKE e \in Ends
      <4>1. By(e)' \in Counts /\ Descriptors(e)' = Items(By(e)')
        BY <2>1, ByNext DEF CountType, FdsOK
      <4>2. \A q \in Procs : By(e)'[q] = 0
        BY <1>0, <1>4 DEF By, Released, Prele, Wakes, UserMode, SleepAt, NoIO
      <4> QED BY <4>1, <4>2, NoItems
    <3>4. ino'.count = 0 /\ Open("r")' = 0 /\ Open("w")' = 0
      BY <1>0, <1>4, <3>2, Types DEF Open, Ends, FileType, Released, Prele, Wakes, UserMode,
         SleepAt, NoIO
    <3> QED BY <3>1, <3>2, <3>3, <3>4 DEF CountsOK
  <2>7. HoldersOK'
    BY <1>0, <1>4, <2>2, <2>4, LockCleared DEF Ending, Locks, Holds, PlaceType, Released, Prele,
       Wakes, UserMode, SleepAt, NoIO
  <2>8. SleepersHaveReason'
    BY <1>0, <1>4, <2>4, Channels DEF Moves, SleepersHaveReason, Released, Prele, Wakes, UserMode,
       SleepAt, NoIO
  <2>9. foff' # ino'.size \/ \A q \in Procs \ {p} : pc[q] # "rblock"
    BY <1>0 DEF PipeInv
  <2> QED BY <2>1, <2>2, <2>3, <2>4, <2>5, <2>6, <2>7, <2>8, <2>9, Kept
<1> QED BY <1>1, <1>2, <1>3, <1>4


-----------------------------------------------------------------------------
\* Descriptors

LEMMA CallsKeep ==
    ASSUME PipeInv, NEW p \in Procs, NEW n \in 0..MaxCount,
           Exit(p) \/ Sync(p) \/ Write(p) \/ Read(p, n) \/ Signal(p)
    PROVE  PipeInv'
<1> USE DEF At, Put, file, counts, locals
<1>1. CASE Exit(p)
  <2>1. FileType' /\ CountType'
    BY <1>1, TypeParts DEF PipeInv, FileType, CountType, Exit, Enters, SleepAt
  <2>2. PlaceType'
    BY <1>1, TypeParts DEF PipeInv, PlaceType, Exit, Enters, SleepAt
  <2>3. LocalType'
    BY <1>1, TypeParts, PipeAssumption DEF PipeInv, LocalType, Ends, Exit, Enters, SleepAt
  <2>4. Moves(p)
    BY <1>1 DEF PipeInv, TypeOK, Moves, Exit, Enters, SleepAt
  <2>5. PlaceOK(p)' /\ TurnOK(p)'
    <3>1. PlaceOK(p) /\ p # NoProc
      BY PipeAssumption DEF PipeInv
    <3>2. Used(p)' = Used(p)
      BY <1>1 DEF Used, Exit, Enters, SleepAt
    <3>3. \A e \in Ends : fds[p][e] = 0
      BY <1>1, Types DEF FdsOK, Ends, Used, Exit, Enters, SleepAt
    <3>4. pc'[p] = "none" /\ chan'[p] = Awake /\ end'[p] = end[p] /\ cpu' = NoProc /\ fds' = fds
      BY <1>1, Types DEF PlaceType, Exit, Enters, SleepAt
    <3> QED BY <1>1, <3>1, <3>2, <3>3, <3>4, Channels DEF PlaceOK, TurnOK, Exit, Enters, SleepAt
  <2>6. CountsOK'
    BY <1>1, <2>4, CountsKept DEF PipeInv, TypeOK, PlaceOK, Ending, Exit, Enters, SleepAt
  <2>7. HoldersOK'
    BY <1>1, <2>4, HoldersKept DEF PipeInv, TypeOK, Locks, Holds, Exit, Enters, SleepAt
  <2>8. SleepersHaveReason'
    BY <1>1, <2>4, SleepersKept DEF PipeInv, TypeOK, Exit, Enters, SleepAt
  <2>9. foff' # ino'.size \/ \A q \in Procs \ {p} : pc[q] # "rblock"
    BY <1>1 DEF PipeInv, TypeOK, TurnOK, Exit, Enters, SleepAt
  <2> QED BY <2>1, <2>2, <2>3, <2>4, <2>5, <2>6, <2>7, <2>8, <2>9, Kept
<1>2. CASE Sync(p)
  <2>1. FileType' /\ CountType'
    BY <1>2, TypeParts DEF PipeInv, FileType, CountType, Sync, Enters, SleepAt
  <2>2. PlaceType'
    BY <1>2, TypeParts DEF PipeInv, PlaceType, Sync, Enters, SleepAt
  <2>3. LocalType'
    BY <1>2, TypeParts, PipeAssumption DEF PipeInv, LocalType, Ends, Sync, Enters, SleepAt
  <2>4. Moves(p)
    BY <1>2 DEF PipeInv, TypeOK, Moves, Sync, Enters, SleepAt
  <2>5. PlaceOK(p)' /\ TurnOK(p)'
    <3>1. PlaceOK(p) /\ PlaceType /\ LocalType /\ p # NoProc
      BY TypeParts, PipeAssumption DEF PipeInv
    <3>2. Used(p)' = Used(p)
      BY <1>2 DEF Used, Sync, Enters, SleepAt
    <3> QED BY <1>2, <3>1, <3>2, Channels DEF PlaceOK, PlaceType, LocalType, TurnOK, Sync, Enters,
               SleepAt
  <2>6. CountsOK'
    BY <1>2, <2>4, CountsKept DEF PipeInv, TypeOK, PlaceOK, Ending, Sync, Enters, SleepAt
  <2>7. HoldersOK'
    <3>1. ~ino.lock /\ ino'.lock /\ ino'.count > 0 /\ UNCHANGED wild
      BY <1>2, Types DEF FileType, Sync
    <3> QED BY <2>4, <3>1, LockTaken
  <2>8. SleepersHaveReason'
    BY <1>2, <2>4, SleepersKept DEF PipeInv, TypeOK, Sync, Enters, SleepAt
  <2>9. foff' # ino'.size \/ \A q \in Procs \ {p} : pc[q] # "rblock"
    BY <1>2 DEF PipeInv, TypeOK, TurnOK, Sync, Enters, SleepAt
  <2> QED BY <2>1, <2>2, <2>3, <2>4, <2>5, <2>6, <2>7, <2>8, <2>9, Kept
<1>3. CASE Write(p)
  <2>1. FileType' /\ CountType'
    BY <1>3, TypeParts DEF PipeInv, FileType, CountType, Write, Enters, SleepAt
  <2>2. PlaceType'
    BY <1>3, TypeParts DEF PipeInv, PlaceType, Write, Enters, SleepAt
  <2>3. LocalType'
    BY <1>3, TypeParts, PipeAssumption DEF PipeInv, LocalType, Ends, Write, Enters, SleepAt
  <2>4. Moves(p)
    BY <1>3 DEF PipeInv, TypeOK, Moves, Write, Enters, SleepAt
  <2>5. PlaceOK(p)' /\ TurnOK(p)'
    <3>1. PlaceOK(p) /\ PlaceType /\ LocalType /\ p # NoProc
      BY TypeParts, PipeAssumption DEF PipeInv
    <3>2. Used(p)' = Used(p)
      BY <1>3 DEF Used, Write, Enters, SleepAt
    <3> QED BY <1>3, <3>1, <3>2, Channels DEF PlaceOK, PlaceType, LocalType, TurnOK, Write,
               Enters, SleepAt
  <2>6. CountsOK'
    BY <1>3, <2>4, CountsKept DEF PipeInv, TypeOK, PlaceOK, Ending, Write, Enters, SleepAt
  <2>7. HoldersOK'
    <3>1. UNCHANGED <<ino, wild>> /\ pc'[p] = "write"
      BY <1>3, Types DEF PlaceType, Write, SleepAt
    <3>2. ~Locks(p)'
      BY <3>1 DEF Locks, Holds
    <3> QED BY <2>4, <3>1, <3>2, HoldersKept
  <2>8. SleepersHaveReason'
    BY <1>3, <2>4, SleepersKept, SMTT(30) DEF PipeInv, TypeOK, Write, Enters, SleepAt
  <2>9. foff' # ino'.size \/ \A q \in Procs \ {p} : pc[q] # "rblock"
    BY <1>3 DEF PipeInv, TypeOK, TurnOK, Write, Enters, SleepAt
  <2> QED BY <2>1, <2>2, <2>3, <2>4, <2>5, <2>6, <2>7, <2>8, <2>9, Kept
<1>4. CASE Read(p, n)
  <2>1. FileType' /\ CountType'
    BY <1>4, TypeParts DEF PipeInv, FileType, CountType, Read, Enters, SleepAt
  <2>2. PlaceType'
    BY <1>4, TypeParts DEF PipeInv, PlaceType, Read, Enters, SleepAt
  <2>3. LocalType'
    BY <1>4, TypeParts, PipeAssumption DEF PipeInv, LocalType, Ends, Read, Enters, SleepAt
  <2>4. Moves(p)
    BY <1>4 DEF PipeInv, TypeOK, Moves, Read, Enters, SleepAt
  <2>5. PlaceOK(p)' /\ TurnOK(p)'
    <3>1. PlaceOK(p) /\ PlaceType /\ LocalType /\ p # NoProc
      BY TypeParts, PipeAssumption DEF PipeInv
    <3>2. Used(p)' = Used(p)
      BY <1>4 DEF Used, Read, Enters, SleepAt
    <3> QED BY <1>4, <3>1, <3>2, Channels DEF PlaceOK, PlaceType, LocalType, TurnOK, Read, Enters,
               SleepAt
  <2>6. CountsOK'
    BY <1>4, <2>4, CountsKept DEF PipeInv, TypeOK, PlaceOK, Ending, Read, Enters, SleepAt
  <2>7. HoldersOK'
    BY <1>4, <2>4, HoldersKept DEF PipeInv, TypeOK, Locks, Holds, Read, Enters, SleepAt
  <2>8. SleepersHaveReason'
    BY <1>4, <2>4, SleepersKept DEF PipeInv, TypeOK, Read, Enters, SleepAt
  <2>9. foff' # ino'.size \/ \A q \in Procs \ {p} : pc[q] # "rblock"
    BY <1>4 DEF PipeInv, TypeOK, TurnOK, Read, Enters, SleepAt
  <2> QED BY <2>1, <2>2, <2>3, <2>4, <2>5, <2>6, <2>7, <2>8, <2>9, Kept
<1>5. CASE Signal(p)
  <2>1. FileType' /\ CountType'
    BY <1>5, TypeParts DEF PipeInv, FileType, CountType, Signal, UserMode, SleepAt, NoIO
  <2>2. PlaceType'
    BY <1>5, TypeParts DEF PipeInv, PlaceType, Signal, UserMode, SleepAt, NoIO
  <2>3. LocalType'
    BY <1>5, TypeParts, PipeAssumption DEF PipeInv, LocalType, Ends, Signal, UserMode, SleepAt, NoIO
  <2>4. Moves(p)
    BY <1>5 DEF PipeInv, TypeOK, Moves, Signal, UserMode, SleepAt, NoIO
  <2>5. PlaceOK(p)' /\ TurnOK(p)'
    <3>1. PlaceOK(p) /\ PlaceType /\ LocalType /\ p # NoProc
      BY TypeParts, PipeAssumption DEF PipeInv
    <3>2. Used(p)' = Used(p)
      BY <1>5 DEF Used, Signal, UserMode, SleepAt, NoIO
    <3> QED BY <1>5, <3>1, <3>2, Channels DEF PlaceOK, PlaceType, LocalType, TurnOK, Signal,
               UserMode, SleepAt, NoIO
  <2>6. CountsOK'
    BY <1>5, <2>4, CountsKept DEF PipeInv, TypeOK, PlaceOK, Ending, Signal, UserMode, SleepAt, NoIO
  <2>7. HoldersOK'
    BY <1>5, <2>4, HoldersKept DEF PipeInv, TypeOK, Locks, Holds, Signal, UserMode, SleepAt, NoIO
  <2>8. SleepersHaveReason'
    BY <1>5, <2>4, SleepersKept DEF PipeInv, TypeOK, Signal, UserMode, SleepAt, NoIO
  <2>9. foff' # ino'.size \/ \A q \in Procs \ {p} : pc[q] # "rblock"
    BY <1>5 DEF PipeInv, TypeOK, TurnOK, Signal, UserMode, SleepAt, NoIO
  <2> QED BY <2>1, <2>2, <2>3, <2>4, <2>5, <2>6, <2>7, <2>8, <2>9, Kept
<1> QED BY <1>1, <1>2, <1>3, <1>4, <1>5

LEMMA NewInodeKeeps ==
    ASSUME PipeInv, NEW p \in Procs, NewInode(p)
    PROVE  PipeInv'
<1> USE DEF At, Put, file, counts, locals
<1>1. ino.count = 0 /\ pc[p] = "user" /\ \A q \in Procs : ~Ending(q)
  BY DEF PipeInv, CountsOK, NewInode, Enters, SleepAt, NoPipe
<1>2. \A e \in Ends : fcount[e] = 0 /\ fcount[e] = Cardinality(Descriptors(e))
  BY <1>1, Types DEF PipeInv, CountsOK, Open, CountType, Ends
<1>3. ASSUME NEW e \in Ends  PROVE \A q \in Procs : fds[q][e] = 0
  <2>1. By(e) \in Counts /\ Cardinality(Items(By(e))) = 0
    BY <1>2, Types, ByIs
  <2>2. \A q \in Procs : By(e)[q] = 0
    BY <2>1, NoItems
  <2> QED BY <2>2 DEF By
<1>4. \A q \in Procs : chan[q] = Awake /\ pc[q] # "rblock"
  BY <1>3, Unused
<1>5. ino' = [count |-> 1, lock |-> TRUE, want |-> FALSE, size |-> 0,
              iread |-> FALSE, iwrite |-> FALSE, blocks |-> 0]
  BY DEF NewInode, Enters, SleepAt, NoPipe
<1>6. FileType' /\ CountType'
  <2>1. 1 \in 0..2 /\ 0 \in 0..PIPSIZ
    BY PipeAssumption
  <2>2. UNCHANGED <<data, foff>> /\ UNCHANGED counts
    BY DEF NewInode
  <2>3. FileType'
    BY <1>5, <2>1, <2>2, Types DEF FileType
  <2> QED BY <2>2, <2>3, Types DEF CountType
<1>7. PlaceType' /\ LocalType'
  BY Types DEF PlaceType, LocalType, NewInode, Enters, SleepAt, NoPipe
<1>8. Moves(p)
  BY Types DEF PlaceType, LocalType, Moves, NewInode, Enters, SleepAt, NoPipe
<1>9. PlaceOK(p)' /\ TurnOK(p)'
  <2>1. PlaceOK(p) /\ p # NoProc
    BY PipeAssumption DEF PipeInv
  <2>2. Used(p)' = Used(p)
    BY DEF Used, NewInode
  <2>3. pc'[p] = "pipe" /\ chan'[p] = Awake /\ end'[p] = end[p] /\ cpu' = NoProc
    BY <1>4, Types DEF PlaceType, NewInode, Enters, SleepAt, NoPipe
  <2> QED BY <1>1, <2>1, <2>2, <2>3, Channels DEF PlaceOK, TurnOK
<1>10. CountsOK'
  <2>1. end[p] = "none" /\ end' = end
    BY <1>1 DEF PipeInv, PlaceOK, NewInode
  <2>2. Ending(p)' /\ \A q \in Procs \ {p} : ~Ending(q)'
    BY <1>1, <1>7, <1>8, Types DEF Ending, Moves, PlaceType, NewInode, Enters, SleepAt, NoPipe
  <2>3. UNCHANGED counts /\ ino'.count = 1
    BY <1>5 DEF NewInode
  <2> QED BY <1>2, <1>3, <2>1, <2>2, <2>3 DEF CountsOK, Ends
<1>11. HoldersOK'
  <2>1. \A q \in Procs : Locks(q) => wild
    BY <1>1 DEF PipeInv, HoldersOK
  <2> QED BY <1>5, <1>8, <2>1 DEF HoldersOK, Moves, Locks, Holds, NewInode
<1>12. SleepersHaveReason'
  BY <1>4, <1>8, Channels DEF SleepersHaveReason, NewInode
<1> QED BY <1>4, <1>6, <1>7, <1>8, <1>9, <1>10, <1>11, <1>12, Kept


\* The child of a fork has the descriptors of its parent.
LEMMA DescriptorsCopied ==
    ASSUME FdsOK, FdsOK', CountType, NEW p \in Procs, NEW q \in Procs,
           \A x \in Ends : fds[q][x] = 0, fds' = [fds EXCEPT ![q] = fds[p]]
    PROVE  \A x \in Ends : Cardinality(Descriptors(x)') = Cardinality(Descriptors(x)) + fds[p][x]
<1> TAKE x \in Ends
<1>1. By(x) \in Counts /\ Descriptors(x) = Items(By(x))
  BY ByIs
<1>2. By(x)' \in Counts /\ Descriptors(x)' = Items(By(x)')
  BY ByNext
<1>3. By(x)' = [By(x) EXCEPT ![q] = By(x)[p]] /\ By(x)[q] = 0 /\ By(x)[p] = fds[p][x]
  BY DEF By, CountType
<1>4. Cardinality(Items(By(x)')) = Cardinality(Items(By(x))) + By(x)[p]
  BY <1>1, <1>2, <1>3, Copied
<1> QED BY <1>1, <1>2, <1>3, <1>4

LEMMA DupKeeps ==
    ASSUME PipeInv, NEW p \in Procs, Dup(p)
    PROVE  PipeInv'
<1>1. PICK e \in Ends :
          /\ pc[p] = "user" /\ fds[p][e] > 0 /\ Used(p) < NOFile
          /\ cpu \in {p, NoProc} /\ chan[p] = Awake
          /\ fds' = [fds EXCEPT ![p][e] = @ + 1] /\ fcount' = [fcount EXCEPT ![e] = @ + 1]
  BY DEF Dup, Enters, At
<1>2. /\ UNCHANGED <<ino, data, foff, pc, chan, end, left, io, err, wild>>
      /\ cpu' = cpu
  BY DEF Dup, file, locals
<1>3. FileType' /\ PlaceType' /\ LocalType'
  BY <1>2, Types DEF FileType, PlaceType, LocalType
<1>4. CountType' /\ Used(p)' <= NOFile /\ FdsOK'
  <2>1. fds[p]["r"] \in 0..NOFile /\ fds[p]["w"] \in 0..NOFile /\ e \in {"r", "w"}
    BY Types DEF FdsOK, Ends
  <2>2. fds[p][e] + 1 \in 0..NOFile
    BY <1>1, <2>1, PipeAssumption DEF Used
  <2>3. CountType'
    BY <1>1, <2>2, Types DEF CountType
  <2>4. Used(p)' = Used(p) + 1
    <3>1. CASE e = "r"
      BY <1>1, <2>1, <3>1, PipeAssumption, Types DEF Used, CountType, Ends
    <3>2. CASE e = "w"
      BY <1>1, <2>1, <3>2, PipeAssumption, Types DEF Used, CountType, Ends
    <3> QED BY <2>1, <3>1, <3>2
  <2> QED BY <1>1, <2>1, <2>3, <2>4, PipeAssumption DEF CountType, FdsOK, Used
<1>5. Moves(p)
  BY <1>1, <1>2, Types DEF Moves, CountType
<1>6. /\ \A q \in Procs : ~Ending(q)
      /\ \A x \in Ends : fcount[x] = Cardinality(Descriptors(x)) /\ fcount[x] \in Nat
      /\ ino.count = Open("r") + Open("w") /\ fcount[e] > 0
  BY <1>1, Settled, Types, ByIs, ItemsFinite
<1>7. CountsOK'
  <2>1. \A q \in Procs : ~Ending(q)'
    BY <1>2, <1>6 DEF Ending
  <2>2. \A x \in Ends : fcount'[x] = Cardinality(Descriptors(x)')
    BY <1>1, <1>4, <1>6, DescriptorMore, Types, ZenonT(40) DEF CountType
  <2>3. \A x \in Ends : Open(x)' = Open(x)
    BY <1>1, <1>6, Types DEF Open, CountType
  <2> QED BY <1>2, <1>6, <2>1, <2>2, <2>3 DEF CountsOK, Ends
<1>8. PlaceOK(p)' /\ TurnOK(p)'
  <2>1. PlaceOK(p) /\ TurnOK(p)
    BY DEF PipeInv
  <2> QED BY <1>1, <1>2, <1>4, <2>1 DEF PlaceOK, TurnOK
<1>9. HoldersOK'
  BY <1>2, <1>5, HoldersKept
<1>10. SleepersHaveReason'
  BY <1>2, <1>5, SleepersKept
<1>11. foff' # ino'.size \/ \A q \in Procs \ {p} : pc[q] # "rblock"
  BY <1>2 DEF PipeInv, TurnOK
<1> QED BY <1>3, <1>4, <1>5, <1>7, <1>8, <1>9, <1>10, <1>11, Kept

\* Descriptors of p and of its child q change, and the place of q.
LEMMA ForkKeeps ==
    ASSUME PipeInv, NEW p \in Procs, Fork(p)
    PROVE  PipeInv'
<1>1. PICK q \in Procs :
          /\ pc[p] = "user" /\ pc[q] = "none" /\ cpu \in {p, NoProc}
          /\ pc' = [pc EXCEPT ![q] = "user"] /\ fds' = [fds EXCEPT ![q] = fds[p]]
  BY DEF Fork, Enters, At, Put
<1>2. /\ UNCHANGED <<ino, data, foff, cpu, chan, end, left, io, err, wild>>
      /\ fcount' = [e \in Ends |-> fcount[e] + fds[p][e]]
  BY DEF Fork, file, locals
<1>3. FileType' /\ PlaceType' /\ LocalType' /\ CountType' /\ FdsOK'
  <2>1. FileType' /\ LocalType'
    BY <1>2, Types DEF FileType, LocalType
  <2>2. PlaceType'
    BY <1>1, <1>2, Types DEF PlaceType
  <2>3. fds' \in [Procs -> [Ends -> 0..NOFile]]
    BY <1>1, Types DEF CountType
  <2>4. fcount' \in [Ends -> Nat]
    <3>1. \A e \in Ends : fcount[e] \in Nat /\ fds[p][e] \in Nat
      BY PipeAssumption, Types DEF CountType, FdsOK
    <3> QED BY <1>2, <3>1
  <2> QED BY <2>1, <2>2, <2>3, <2>4 DEF CountType, FdsOK
<1>4. \A e \in Ends : fds[q][e] = 0
  BY <1>1 DEF PipeInv, PlaceOK
<1>5. /\ chan[q] = Awake /\ end[q] = "none"
      /\ \A x \in Procs : pc[x] = pc'[x] \/ (x = q /\ pc'[x] = "user")
  BY <1>1, Types DEF PipeInv, PlaceOK, PlaceType
<1>6. \A x \in Procs : (Ending(x)' <=> Ending(x)) /\ (Locks(x)' <=> Locks(x))
  BY <1>1, <1>5 DEF Ending, Locks, Holds
<1>7. CountsOK'
  <2>1. CASE \E x \in Procs : Ending(x)
    <3>1. \A y \in Procs, e \in Ends : fds[y][e] = 0
      BY <2>1 DEF PipeInv, CountsOK
    <3>2. fds' = fds /\ fcount' = fcount
      BY <1>1, <1>2, <1>4, <3>1, Types DEF CountType
    <3> QED BY <1>2, <1>6, <2>1, <3>1, <3>2 DEF PipeInv, CountsOK
  <2>2. CASE \A x \in Procs : ~Ending(x)
    <3>1. /\ \A e \in Ends : fcount[e] = Cardinality(Descriptors(e))
          /\ ino.count = Open("r") + Open("w")
      BY <2>2 DEF PipeInv, CountsOK
    <3>2. \A e \in Ends : fcount'[e] = Cardinality(Descriptors(e)')
      BY <1>1, <1>2, <1>3, <1>4, <3>1, DescriptorsCopied, Types
    <3>3. \A e \in Ends : Open(e)' = Open(e)
      <4> TAKE e \in Ends
      <4>1. fcount[e] \in Nat /\ fds[p][e] \in Nat /\ fcount'[e] = fcount[e] + fds[p][e]
        BY <1>2, Types, PipeAssumption DEF CountType, FdsOK
      <4>2. fds[p][e] > 0 => fcount[e] > 0
        BY Settled
      <4> QED BY <4>1, <4>2 DEF Open
    <3> QED BY <1>2, <1>6, <2>2, <3>1, <3>2, <3>3 DEF CountsOK, Ends
  <2> QED BY <2>1, <2>2
<1>8. HoldersOK'
  BY <1>1, <1>2, <1>5, <1>6 DEF PipeInv, HoldersOK, Locks, Holds
<1>9. ASSUME NEW x \in Procs  PROVE PlaceOK(x)' /\ TurnOK(x)'
  <2>1. PlaceOK(x) /\ TurnOK(x) /\ PlaceOK(p)
    BY DEF PipeInv
  <2>2. CASE x = q
    <3>1. fds'[q] = fds[p] /\ Used(q)' = Used(p)
      BY <1>1, Types DEF Used, CountType
    <3>2. pc'[q] = "user" /\ chan'[q] = Awake /\ end'[q] = "none" /\ cpu' # q
      BY <1>1, <1>2, <1>5, PipeAssumption, Types DEF PlaceType
    <3> QED BY <2>1, <2>2, <3>1, <3>2, Channels DEF PlaceOK, TurnOK
  <2>3. CASE x # q
    <3>1. pc'[x] = pc[x] /\ fds'[x] = fds[x] /\ Used(x)' = Used(x)
      BY <1>1, <2>3, Types DEF Used, CountType, PlaceType
    <3> QED BY <1>2, <2>1, <3>1 DEF PlaceOK, TurnOK
  <2> QED BY <2>2, <2>3
<1>10. SleepersHaveReason'
  BY <1>1, <1>2, <1>5 DEF PipeInv, SleepersHaveReason
<1> QED BY <1>3, <1>7, <1>8, <1>9, <1>10, TypeNext DEF PipeInv

\* p gives up a descriptor for e.
LEMMA Closed ==
    ASSUME PipeInv, NEW p \in Procs, NEW e \in Ends, fds[p][e] > 0,
           fds' = [fds EXCEPT ![p][e] = @ - 1]
    PROVE  /\ fds' \in [Procs -> [Ends -> 0..NOFile]] /\ Used(p)' <= NOFile
           /\ \A q \in Procs : ~Ending(q)
           /\ \A x \in Ends : fcount[x] \in Nat /\
                 fcount[x] = IF x = e THEN Cardinality(Descriptors(x)') + 1
                                      ELSE Cardinality(Descriptors(x)')
           /\ \A x \in Ends : Cardinality(Descriptors(x)') \in Nat
           /\ \A x \in Ends : Cardinality(Descriptors(x)') = 0 => \A q \in Procs : fds'[q][x] = 0
           /\ ino.count = Open("r") + Open("w")
<1>1. fds[p]["r"] \in 0..NOFile /\ fds[p]["w"] \in 0..NOFile /\ e \in {"r", "w"}
  BY Types DEF FdsOK, Ends
<1>2. fds[p][e] - 1 \in 0..NOFile
  BY <1>1, PipeAssumption
<1>3. fds' \in [Procs -> [Ends -> 0..NOFile]]
  BY <1>2, Types DEF CountType
<1>4. FdsOK'
  BY <1>3 DEF FdsOK
<1>5. Used(p)' <= NOFile
  <2>1. Used(p) <= NOFile
    BY DEF PipeInv, PlaceOK
  <2>2. fds'[p]["r"] \in Nat /\ fds'[p]["w"] \in Nat
    BY <1>3, PipeAssumption DEF Ends
  <2>3. fds'[p]["r"] <= fds[p]["r"] /\ fds'[p]["w"] <= fds[p]["w"]
    BY <1>1, PipeAssumption, Types DEF CountType, Ends
  <2> QED BY <1>1, <2>1, <2>2, <2>3, PipeAssumption DEF Used
<1>6. /\ \A q \in Procs : ~Ending(q)
      /\ \A x \in Ends : fcount[x] = Cardinality(Descriptors(x)) /\ fcount[x] \in Nat
      /\ ino.count = Open("r") + Open("w")
  BY Settled, Types, ByIs, ItemsFinite
<1>7. \A x \in Ends : fcount[x] = IF x = e THEN Cardinality(Descriptors(x)') + 1
                                           ELSE Cardinality(Descriptors(x)')
  BY <1>4, <1>6, DescriptorLess, Types
<1>8. ASSUME NEW x \in Ends
      PROVE  /\ Cardinality(Descriptors(x)') \in Nat
             /\ Cardinality(Descriptors(x)') = 0 => \A q \in Procs : fds'[q][x] = 0
  <2>1. By(x)' \in Counts /\ Descriptors(x)' = Items(By(x)')
    BY <1>4, ByNext
  <2>2. \A q \in Procs : By(x)'[q] = fds'[q][x]
    BY DEF By
  <2> QED BY <2>1, <2>2, NoItems, ItemsFinite
<1> QED BY <1>3, <1>5, <1>6, <1>7, <1>8

LEMMA CloseSharedKeeps ==
    ASSUME PipeInv, NEW p \in Procs, CloseShared(p)
    PROVE  PipeInv'
<1>1. PICK e \in Ends :
          /\ pc[p] = "user" /\ fds[p][e] > 0 /\ fcount[e] > 1
          /\ cpu \in {p, NoProc} /\ chan[p] = Awake
          /\ fds' = [fds EXCEPT ![p][e] = @ - 1] /\ fcount' = [fcount EXCEPT ![e] = @ - 1]
  BY DEF CloseShared, Enters, At
<1>2. /\ UNCHANGED <<data, foff, pc, cpu, end, left, io, err, wild>>
      /\ ino' = [ino EXCEPT !.iread = FALSE, !.iwrite = FALSE]
      /\ chan' = [q \in Procs |-> IF chan[q] \in {Room, Data} THEN Awake ELSE chan[q]]
  BY DEF CloseShared, locals
<1>3. /\ fds' \in [Procs -> [Ends -> 0..NOFile]] /\ Used(p)' <= NOFile
      /\ \A q \in Procs : ~Ending(q)
      /\ \A x \in Ends : fcount[x] \in Nat /\
            fcount[x] = IF x = e THEN Cardinality(Descriptors(x)') + 1
                                 ELSE Cardinality(Descriptors(x)')
      /\ \A x \in Ends : Cardinality(Descriptors(x)') \in Nat
      /\ ino.count = Open("r") + Open("w")
  BY <1>1, Closed
<1>4. FileType' /\ PlaceType' /\ LocalType'
  BY <1>2, Types DEF FileType, PlaceType, LocalType
<1>5. CountType'
  BY <1>1, <1>3, Types DEF CountType
<1>6. Moves(p)
  BY <1>1, <1>2, Types DEF Moves, CountType, PlaceType
<1>7. ino'.count = ino.count /\ ino'.lock = ino.lock /\ ino'.want = ino.want /\ ino'.size = ino.size
  BY <1>2, Types DEF FileType
<1>8. CountsOK'
  <2>1. \A q \in Procs : ~Ending(q)'
    BY <1>2, <1>3 DEF Ending
  <2>2. \A x \in Ends : fcount'[x] = Cardinality(Descriptors(x)')
    BY <1>1, <1>3, Types DEF CountType
  <2>3. \A x \in Ends : Open(x)' = Open(x)
    BY <1>1, <1>3, Types DEF Open, CountType
  <2> QED BY <1>3, <1>7, <2>1, <2>2, <2>3 DEF CountsOK, Ends
<1>9. PlaceOK(p)' /\ TurnOK(p)'
  <2>1. PlaceOK(p) /\ TurnOK(p)
    BY DEF PipeInv
  <2>2. chan'[p] = Awake
    BY <1>1, <1>2
  <2> QED BY <1>1, <1>2, <1>3, <2>1, <2>2, Channels DEF PlaceOK, TurnOK
<1>10. HoldersOK'
  BY <1>2, <1>6, <1>7, HoldersKept
<1>11. SleepersHaveReason'
  BY <1>2, <1>7, Channels DEF PipeInv, SleepersHaveReason
<1>12. foff' # ino'.size \/ \A q \in Procs \ {p} : pc[q] # "rblock"
  BY <1>2, <1>7 DEF PipeInv, TurnOK
<1> QED BY <1>4, <1>5, <1>6, <1>8, <1>9, <1>10, <1>11, <1>12, Kept

LEMMA CloseEndKeeps ==
    ASSUME PipeInv, NEW p \in Procs, CloseEnd(p)
    PROVE  PipeInv'
<1>1. PICK e \in Ends :
          /\ pc[p] = "user" /\ fds[p][e] > 0 /\ fcount[e] <= 1 /\ ino.count # 1
          /\ cpu \in {p, NoProc} /\ chan[p] = Awake
          /\ fds' = [fds EXCEPT ![p][e] = @ - 1] /\ fcount' = [fcount EXCEPT ![e] = @ - 1]
  BY DEF CloseEnd, Enters, At
<1>2. /\ UNCHANGED <<data, foff, pc, cpu, end, left, io, err>>
      /\ ino' = [ino EXCEPT !.iread = FALSE, !.iwrite = FALSE, !.count = @ - 1,
                            !.lock = FALSE, !.want = FALSE]
      /\ wild' = (wild \/ \E q \in Procs \ {p} : Holds(q))
      /\ chan' = [q \in Procs |-> IF chan[q] \in {Room, Data} \cup (IF ino.want THEN {Lock} ELSE {})
                                  THEN Awake ELSE chan[q]]
  BY DEF CloseEnd, locals, Prele, Wakes
<1>3. /\ fds' \in [Procs -> [Ends -> 0..NOFile]] /\ Used(p)' <= NOFile
      /\ \A q \in Procs : ~Ending(q)
      /\ \A x \in Ends : fcount[x] \in Nat /\
            fcount[x] = IF x = e THEN Cardinality(Descriptors(x)') + 1
                                 ELSE Cardinality(Descriptors(x)')
      /\ \A x \in Ends : Cardinality(Descriptors(x)') \in Nat
      /\ ino.count = Open("r") + Open("w")
  BY <1>1, Closed, ZenonT(40)
<1>4. ino.count = 2 /\ fcount[e] = 1
  BY <1>1, <1>3 DEF Open, Ends
<1>5. FileType' /\ PlaceType' /\ LocalType'
  <2>1. ino.count - 1 \in 0..2
    BY <1>4
  <2>2. FileType'
    BY <1>2, <2>1, Types DEF FileType
  <2> QED BY <1>2, <2>2, Types DEF PlaceType, LocalType
<1>6. CountType'
  BY <1>1, <1>3, <1>4, Types DEF CountType
<1>7. Moves(p)
  BY <1>1, <1>2, Types DEF Moves, CountType, PlaceType
<1>8. ino'.count = 1 /\ ino'.size = ino.size
  BY <1>2, <1>4, Types DEF FileType
<1>9. CountsOK'
  <2>1. \A q \in Procs : ~Ending(q)'
    BY <1>2, <1>3 DEF Ending
  <2>2. \A x \in Ends : fcount'[x] = Cardinality(Descriptors(x)')
    BY <1>1, <1>3, Types DEF CountType
  <2>3. Open(e)' = 0 /\ Open(e) = 1 /\ \A x \in Ends \ {e} : Open(x)' = Open(x)
    BY <1>1, <1>3, <1>4, Types DEF Open, CountType
  <2>4. Open("r")' + Open("w")' = 1
    BY <1>3, <1>4, <2>3 DEF Ends, Open
  <2> QED BY <1>8, <2>1, <2>2, <2>4 DEF CountsOK, Ends
<1>10. PlaceOK(p)' /\ TurnOK(p)'
  <2>1. PlaceOK(p) /\ TurnOK(p)
    BY DEF PipeInv
  <2>2. chan'[p] = Awake
    BY <1>1, <1>2
  <2> QED BY <1>1, <1>2, <1>3, <2>1, <2>2, Channels DEF PlaceOK, TurnOK
<1>11. HoldersOK'
  BY <1>1, <1>2, <1>3, <1>7, LockCleared DEF Ending, Locks, Holds
<1>12. SleepersHaveReason'
  BY <1>2, Channels DEF PipeInv, SleepersHaveReason
<1>13. foff' # ino'.size \/ \A q \in Procs \ {p} : pc[q] # "rblock"
  BY <1>2, <1>8 DEF PipeInv, TurnOK
<1> QED BY <1>5, <1>6, <1>7, <1>9, <1>10, <1>11, <1>12, <1>13, Kept

LEMMA CloseLastKeeps ==
    ASSUME PipeInv, NEW p \in Procs, CloseLast(p)
    PROVE  PipeInv'
<1>1. PICK e \in Ends :
          /\ pc[p] = "user" /\ fds[p][e] > 0 /\ fcount[e] <= 1 /\ ino.count = 1
          /\ cpu \in {p, NoProc} /\ chan[p] = Awake
          /\ fds' = [fds EXCEPT ![p][e] = @ - 1] /\ end' = [end EXCEPT ![p] = e]
  BY DEF CloseLast, Enters, At, Put
<1>2. /\ UNCHANGED <<data, foff, fcount, left, io, err, wild>>
      /\ pc' = [pc EXCEPT ![p] = "trunc"] /\ cpu' = NoProc
      /\ ino' = [ino EXCEPT !.iread = FALSE, !.iwrite = FALSE, !.lock = TRUE]
      /\ chan' = [q \in Procs |-> IF chan[q] \in {Room, Data} THEN Awake ELSE chan[q]]
  BY DEF CloseLast, SleepAt, Put
<1>3. /\ fds' \in [Procs -> [Ends -> 0..NOFile]] /\ Used(p)' <= NOFile
      /\ \A q \in Procs : ~Ending(q)
      /\ \A x \in Ends : fcount[x] \in Nat /\
            fcount[x] = IF x = e THEN Cardinality(Descriptors(x)') + 1
                                 ELSE Cardinality(Descriptors(x)')
      /\ \A x \in Ends : Cardinality(Descriptors(x)') \in Nat
      /\ \A x \in Ends : Cardinality(Descriptors(x)') = 0 => \A q \in Procs : fds'[q][x] = 0
      /\ ino.count = Open("r") + Open("w")
  BY <1>1, Closed
<1>4. \A x \in Ends : fcount[x] = IF x = e THEN 1 ELSE 0
  BY <1>1, <1>3 DEF Open, Ends
<1>5. \A q \in Procs, x \in Ends : fds'[q][x] = 0
  BY <1>3, <1>4
<1>6. FileType' /\ PlaceType' /\ LocalType' /\ CountType'
  <2>1. FileType' /\ PlaceType'
    BY <1>2, Types DEF FileType, PlaceType
  <2>2. LocalType' /\ CountType'
    BY <1>1, <1>2, <1>3, Types DEF LocalType, CountType
  <2> QED BY <2>1, <2>2
<1>7. Moves(p)
  BY <1>1, <1>2, Types DEF Moves, CountType, PlaceType, LocalType
<1>8. ino'.count = 1 /\ ino'.lock /\ ino'.size = ino.size /\ ino'.want = ino.want
  BY <1>1, <1>2, Types DEF FileType
<1>9. Ending(p)' /\ \A q \in Procs \ {p} : ~Ending(q)'
  BY <1>2, <1>3, Types DEF Ending, PlaceType
<1>10. CountsOK'
  <2>1. end'[p] = e
    BY <1>1, Types DEF LocalType
  <2> QED BY <1>2, <1>4, <1>5, <1>8, <1>9, <2>1 DEF CountsOK
<1>11. PlaceOK(p)' /\ TurnOK(p)'
  <2>1. PlaceOK(p) /\ p # NoProc
    BY PipeAssumption DEF PipeInv
  <2>2. chan'[p] = Awake /\ pc'[p] = "trunc"
    BY <1>1, <1>2, Types DEF PlaceType
  <2> QED BY <1>2, <1>3, <2>1, <2>2, Channels DEF PlaceOK, TurnOK
<1>12. HoldersOK'
  <2>1. ASSUME NEW q \in Procs \ {p}, Locks(q)  PROVE pc[q] = "sync" \/ wild
    <3>1. fds'[q] = fds[q] /\ PlaceOK(q)
      BY <1>1, Types DEF PipeInv, CountType
    <3>2. fds[q]["r"] = 0 /\ fds[q]["w"] = 0
      BY <1>5, <3>1 DEF Ends
    <3> QED BY <1>3, <2>1, <3>1, <3>2 DEF PlaceOK, Ending, Locks, Holds
  <2>2. \A q, x \in Procs \ {p} : Locks(q) /\ Locks(x) /\ q # x => wild
    BY <2>1 DEF PipeInv, HoldersOK
  <2> QED BY <1>2, <1>7, <1>8, <2>1, <2>2, Types
          DEF HoldersOK, Moves, Locks, Holds, PlaceType
<1>13. SleepersHaveReason'
  BY <1>2, <1>8, Channels DEF PipeInv, SleepersHaveReason
<1>14. foff' # ino'.size \/ \A q \in Procs \ {p} : pc[q] # "rblock"
  BY <1>2, <1>8 DEF PipeInv, TurnOK
<1> QED BY <1>6, <1>7, <1>10, <1>11, <1>12, <1>13, <1>14, Kept

-----------------------------------------------------------------------------
\* Reading and writing

LEMMA MinOf ==
    ASSUME NEW a \in Int, NEW b \in Int
    PROVE  Min({a, b}) \in {a, b} /\ Min({a, b}) <= a /\ Min({a, b}) <= b
<1>1. CASE a <= b
  <2>1. \E x \in {a, b} : \A y \in {a, b} : x =< y
    BY <1>1
  <2>2. Min({a, b}) \in {a, b} /\ \A y \in {a, b} : Min({a, b}) =< y
    BY <2>1, Zenon DEF Min
  <2> QED BY <2>2
<1>2. CASE b <= a
  <2>1. \E x \in {a, b} : \A y \in {a, b} : x =< y
    BY <1>2
  <2>2. Min({a, b}) \in {a, b} /\ \A y \in {a, b} : Min({a, b}) =< y
    BY <2>1, Zenon DEF Min
  <2> QED BY <2>2
<1> QED BY <1>1, <1>2

LEMMA MinOfThree ==
    ASSUME NEW a \in Int, NEW b \in Int, NEW c \in Int
    PROVE  /\ Min({a, b, c}) \in {a, b, c}
           /\ Min({a, b, c}) <= a /\ Min({a, b, c}) <= b /\ Min({a, b, c}) <= c
<1>1. \E x \in {a, b, c} : \A y \in {a, b, c} : x =< y
  <2>1. CASE a <= b /\ a <= c
    BY <2>1
  <2>2. CASE b <= a /\ b <= c
    BY <2>2
  <2>3. CASE c <= a /\ c <= b
    BY <2>3
  <2> QED BY <2>1, <2>2, <2>3
<1>2. Min({a, b, c}) \in {a, b, c} /\ \A y \in {a, b, c} : Min({a, b, c}) =< y
  BY <1>1, Zenon DEF Min
<1> QED BY <1>2

LEMMA MaxOf ==
    ASSUME NEW a \in Int, NEW b \in Int
    PROVE  Max({a, b}) = IF a <= b THEN b ELSE a
<1>1. \E x \in {a, b} : \A y \in {a, b} : x >= y
  <2>1. CASE a <= b
    BY <2>1
  <2>2. CASE b <= a
    BY <2>2
  <2> QED BY <2>1, <2>2
<1>2. Max({a, b}) \in {a, b} /\ \A y \in {a, b} : Max({a, b}) >= y
  BY <1>1, Zenon DEF Max
<1> QED BY <1>2

LEMMA InBlock ==
    ASSUME NEW off \in Nat
    PROVE  Block - (off % Block) \in 1..Block /\ off \div Block \in 0..off
  BY PipeAssumption

\* What one turn of ReadI moves is in one block and in the file.
LEMMA ReadTurnIs ==
    ASSUME NEW off \in Nat, NEW cnt \in 1..MaxCount, NEW size \in 0..PIPSIZ, off < size
    PROVE  LET n == Min({Block - (off % Block), cnt, size - off})
           IN  n \in 0..Block /\ n \in 1..cnt /\ off + n <= size
<1>1. PICK a : a = Block - (off % Block)
  OBVIOUS
<1>2. PICK c : c = size - off
  OBVIOUS
<1>3. a \in 1..Block
  BY <1>1, InBlock
<1>4. c \in Nat \ {0} /\ off + c = size /\ cnt \in Nat \ {0}
  BY <1>2, PipeAssumption
<1>5. a \in Int /\ c \in Int /\ cnt \in Int /\ Block \in Nat
  BY <1>3, <1>4, PipeAssumption
<1>6. PICK n : n = Min({a, cnt, c})
  OBVIOUS
<1>7. n \in {a, cnt, c} /\ n <= a /\ n <= cnt /\ n <= c
  BY <1>5, <1>6, MinOfThree
<1>8. n \in 0..Block /\ n \in 1..cnt /\ off + n <= size
  BY <1>3, <1>4, <1>5, <1>7
<1> QED BY <1>1, <1>2, <1>6, <1>8

LEMMA WriteTurnIs ==
    ASSUME NEW off \in Nat, NEW cnt \in Nat \ {0}
    PROVE  LET n == Min({Block - (off % Block), cnt})
           IN  n \in 0..Block /\ n \in 1..cnt
<1>1. PICK a : a = Block - (off % Block)
  OBVIOUS
<1>2. a \in 1..Block
  BY <1>1, InBlock
<1>3. a \in Int /\ cnt \in Int /\ Block \in Nat
  BY <1>2, PipeAssumption
<1>4. PICK n : n = Min({a, cnt})
  OBVIOUS
<1>5. n \in {a, cnt} /\ n <= a /\ n <= cnt
  BY <1>3, <1>4, MinOf
<1>6. n \in 0..Block /\ n \in 1..cnt
  BY <1>2, <1>3, <1>5
<1> QED BY <1>1, <1>4, <1>6

\* Who moves bytes and can go on has the lock for itself, cleared or not.
LEMMA OnlyHolder ==
    ASSUME PipeInv, NEW p \in Procs, pc[p] \in {"rblock", "wblock"}, wild => LockExclusive
    PROVE  \A q \in Procs \ {p} : ~Holds(q)
  BY DEF PipeInv, HoldersOK, LockExclusive, Locks, Holds

\* While a call of read or write is under way, the pipe is open.
LEMMA InCall ==
    ASSUME PipeInv, NEW p \in Procs, pc[p] \in {"read", "rblock", "write", "wblock"}
    PROVE  (\A q \in Procs : ~Ending(q)) /\ ino.count > 0
<1>1. PICK e \in Ends : fds[p][e] > 0
  BY DEF PipeInv, PlaceOK, Ends
<1>2. fcount[e] > 0 /\ (\A q \in Procs : ~Ending(q)) /\ ino.count = Open("r") + Open("w")
  BY <1>1, Settled
<1> QED BY <1>2 DEF Open, Ends

\* What is left to show for a step of a call of read or write, or of Update.
LEMMA StepKept ==
    ASSUME PipeInv, NEW p \in Procs, Moves(p), UNCHANGED counts, ino'.count = ino.count,
           \/ pc[p] \in {"read", "rblock"} /\ pc'[p] \in {"read", "rblock", "user"}
           \/ pc[p] \in {"write", "wblock"} /\ pc'[p] \in {"write", "wblock", "user"}
           \/ pc[p] = "sync" /\ pc'[p] = "user",
           end'[p] \in {"none", end[p]},
           chan'[p] = Data => pc'[p] = "read", chan'[p] = Room => pc'[p] = "write",
           chan'[p] = Lock => pc'[p] \in {"read", "write"},
           cpu' = p => pc'[p] = "write" /\ chan'[p] = Awake,
           FileType', PlaceType', LocalType', HoldersOK', SleepersHaveReason', TurnOK(p)',
           foff' # ino'.size \/ \A q \in Procs \ {p} : pc[q] # "rblock"
    PROVE  PipeInv'
<1>1. CountType'
  BY Types DEF CountType, counts
<1>2. CountsOK'
  BY CountsKept DEF Ending
<1>3. PlaceOK(p)'
  <2>1. PlaceOK(p)
    BY DEF PipeInv
  <2>2. Used(p)' = Used(p) /\ fds' = fds
    BY DEF Used, counts
  <2> QED BY <2>1, <2>2 DEF PlaceOK
<1> QED BY <1>1, <1>2, <1>3, Kept

\* The wake-ups of p with that of Prele leave nobody waiting for the lock.
LEMMA Woke ==
    ASSUME PipeInv, NEW p \in Procs, NEW channels \in SUBSET {Room, Data},
           \A q \in Procs \ {p} :
             chan'[q] = IF chan[q] \in channels \cup (IF ino.want THEN {Lock} ELSE {})
                        THEN Awake ELSE chan[q]
    PROVE  \A q \in Procs \ {p} : /\ chan'[q] \in {chan[q], Awake} /\ chan'[q] # Lock
                                  /\ chan[q] \in channels => chan'[q] = Awake
<1> TAKE q \in Procs \ {p}
<1>1. chan[q] = Lock => ino.want
  BY DEF PipeInv, SleepersHaveReason
<1> QED BY <1>1, Channels

LEMMA WaitLockKeeps ==
    ASSUME PipeInv, NEW p \in Procs, WaitLock(p)
    PROVE  PipeInv'
<1>1. /\ pc[p] \in {"read", "write"} /\ ino.lock /\ pc' = pc /\ cpu' = NoProc
      /\ ino' = [ino EXCEPT !.want = TRUE] /\ chan' = [chan EXCEPT ![p] = Lock]
      /\ UNCHANGED <<data, foff, fcount, fds, end, left, io, err, wild>>
  BY Types DEF WaitLock, At, SleepAt, Put, counts, locals, PlaceType
<1>2. FileType' /\ PlaceType' /\ LocalType'
  BY <1>1, Types DEF FileType, PlaceType, LocalType
<1>3. Moves(p) /\ chan'[p] = Lock
  BY <1>1, Types DEF Moves, PlaceType
<1>4. ino'.lock /\ ino'.want /\ \A f \in {"count", "size", "iread", "iwrite"} : ino'[f] = ino[f]
  BY <1>1, Types DEF FileType
<1>5. HoldersOK'
  BY <1>1, <1>3, <1>4, HoldersKept DEF Locks, Holds
<1>6. SleepersHaveReason'
  BY <1>1, <1>3, <1>4, Channels DEF PipeInv, SleepersHaveReason, Moves
<1>7. TurnOK(p)' /\ (foff' # ino'.size \/ \A q \in Procs \ {p} : pc[q] # "rblock")
  BY <1>1, <1>4 DEF PipeInv, TurnOK
<1>8. cpu' # p /\ UNCHANGED counts
  BY <1>1, PipeAssumption DEF counts
<1> QED BY <1>1, <1>2, <1>3, <1>4, <1>5, <1>6, <1>7, <1>8, Channels, StepKept

\* p, which did not have the lock for itself, unlocks the inode and leaves the kernel.
LEMMA LeaveKeeps ==
    ASSUME PipeInv, NEW p \in Procs,
           pc[p] \in {"read", "write", "sync"}, chan[p] = Awake,
           Prele(p, ino), Wakes({}), UserMode(p), UNCHANGED <<data, foff, counts>>
    PROVE  PipeInv'
<1>1. /\ pc' = [pc EXCEPT ![p] = "user"] /\ cpu' = NoProc
      /\ ino' = [ino EXCEPT !.lock = FALSE, !.want = FALSE]
      /\ end' = [end EXCEPT ![p] = "none"] /\ left' = [left EXCEPT ![p] = 0]
      /\ io' = [io EXCEPT ![p] = [off |-> 0, cnt |-> 0, n |-> 0]]
      /\ err' = [err EXCEPT ![p] = FALSE]
      /\ wild' = (wild \/ \E q \in Procs \ {p} : Holds(q))
      /\ chan' = [q \in Procs |-> IF chan[q] \in {} \cup (IF ino.want THEN {Lock} ELSE {})
                                  THEN Awake ELSE chan[q]]
      /\ UNCHANGED <<data, foff, fcount, fds>>
  BY DEF Prele, Wakes, UserMode, SleepAt, Put, NoIO, counts
<1>2. FileType' /\ PlaceType' /\ LocalType'
  <2>1. FileType'
    BY <1>1, Types DEF FileType
  <2>2. PlaceType'
    BY <1>1, Types DEF PlaceType
  <2>3. 0 \in 0..PIPSIZ /\ 0 \in 0..MaxCount /\ 0 \in 0..Block
    BY PipeAssumption
  <2>4. LocalType'
    BY <1>1, <2>3, Types DEF LocalType
  <2> QED BY <2>1, <2>2, <2>4
<1>3. chan'[p] = Awake /\ \A q \in Procs \ {p} : chan'[q] \in {chan[q], Awake} /\ chan'[q] # Lock
  BY <1>1, Woke, Channels
<1>4. Moves(p) /\ pc'[p] = "user" /\ end'[p] = "none"
  BY <1>1, <1>3, Types DEF Moves, PlaceType, LocalType
<1>5. \A f \in {"count", "size", "iread", "iwrite"} : ino'[f] = ino[f]
  BY <1>1, Types DEF FileType
<1>6. HoldersOK'
  <2>1. \A q \in Procs \ {p} : pc[q] = "pipe" => wild
    BY InCall DEF PipeInv, HoldersOK, Ending, Locks, Holds
  <2> QED BY <1>1, <1>4, <2>1, LockCleared DEF Locks, Holds
<1>7. SleepersHaveReason'
  BY <1>1, <1>3, <1>4, <1>5, Channels DEF PipeInv, SleepersHaveReason, Moves
<1>8. TurnOK(p)' /\ (foff' # ino'.size \/ \A q \in Procs \ {p} : pc[q] # "rblock")
  BY <1>1, <1>4, <1>5 DEF PipeInv, TurnOK
<1>9. cpu' # p /\ UNCHANGED counts
  BY <1>1, PipeAssumption DEF counts
<1> QED BY <1>2, <1>3, <1>4, <1>5, <1>6, <1>7, <1>8, <1>9, Channels, StepKept

LEMMA LeavesKeep ==
    ASSUME PipeInv, NEW p \in Procs, SyncDone(p) \/ WriteEnd(p)
    PROVE  PipeInv'
<1>1. pc[p] \in {"write", "sync"} /\ chan[p] = Awake /\ Prele(p, ino) /\ Wakes({}) /\ UserMode(p)
  BY DEF SyncDone, WriteEnd, At
<1>2. UNCHANGED <<data, foff, counts>>
  BY DEF SyncDone, WriteEnd
<1> QED BY <1>1, <1>2, LeaveKeeps

\* A reader that finds the pipe empty: f_offset and i_size go back to 0, and who waits
\* for room is woken.
LEMMA EmptiedIs ==
    ASSUME PipeInv, NEW p \in Procs, pc[p] = "read", foff = ino.size, foff' = 0,
           NEW mark \in BOOLEAN, ino.iread => mark,
           ino' = [Emptied EXCEPT !.iread = mark, !.lock = FALSE, !.want = FALSE],
           wild' = (wild \/ \E q \in Procs \ {p} : Holds(q)), UNCHANGED data,
           \A q \in Procs \ {p} :
             chan'[q] = IF chan[q] \in Woken \cup (IF ino.want THEN {Lock} ELSE {})
                        THEN Awake ELSE chan[q]
    PROVE  /\ FileType' /\ ino'.size = 0 /\ ino'.count = ino.count /\ ino'.iread = mark
           /\ \A q \in Procs \ {p} : chan'[q] \in {chan[q], Awake} /\ chan'[q] \notin {Lock, Room}
           /\ \A q \in Procs \ {p} : pc[q] # "rblock"
           /\ \A q \in Procs \ {p} : pc[q] = "pipe" => wild
<1>1. ino' = [ino EXCEPT !.iread = mark, !.lock = FALSE, !.want = FALSE, !.size = 0,
                         !.iwrite = IF foff = 0 THEN ino.iwrite ELSE FALSE]
  BY Types DEF Emptied, FileType
<1>2. ino'.size = 0 /\ ino'.count = ino.count /\ ino'.iread = mark
  BY <1>1, Types DEF FileType
<1>3. FileType'
  <2>1. 0 \in 0..PIPSIZ
    BY PipeAssumption
  <2> QED BY <1>1, <2>1, Types DEF FileType
<1>4. Woken \in SUBSET {Room, Data}
  BY DEF Woken
<1>5. \A q \in Procs \ {p} : /\ chan'[q] \in {chan[q], Awake} /\ chan'[q] # Lock
                             /\ chan[q] \in Woken => chan'[q] = Awake
  BY <1>4, Woke
<1>6. ASSUME NEW q \in Procs \ {p}, chan'[q] = Room  PROVE FALSE
  <2>1. chan[q] = Room
    BY <1>5, <1>6, Channels
  <2>2. ino.iwrite /\ foff # 0
    BY <2>1, PipeAssumption DEF PipeInv, SleepersHaveReason
  <2> QED BY <1>5, <1>6, <2>1, <2>2, Channels DEF Woken
<1>7. \A q \in Procs \ {p} : pc[q] # "rblock"
  BY DEF PipeInv, TurnOK
<1>8. \A q \in Procs \ {p} : pc[q] # "pipe"
  BY InCall DEF Ending
<1> QED BY <1>2, <1>3, <1>5, <1>6, <1>7, <1>8

LEMMA ReadEndKeeps ==
    ASSUME PipeInv, NEW p \in Procs, ReadEnd(p)
    PROVE  PipeInv'
<1>1. /\ pc[p] = "read" /\ chan[p] = Awake /\ foff = ino.size /\ ino.count < 2
      /\ pc' = [pc EXCEPT ![p] = "user"] /\ cpu' = NoProc /\ foff' = 0
      /\ end' = [end EXCEPT ![p] = "none"] /\ left' = [left EXCEPT ![p] = 0]
      /\ io' = [io EXCEPT ![p] = [off |-> 0, cnt |-> 0, n |-> 0]]
      /\ err' = [err EXCEPT ![p] = FALSE]
      /\ wild' = (wild \/ \E q \in Procs \ {p} : Holds(q))
      /\ chan' = [q \in Procs |-> IF chan[q] \in Woken \cup (IF ino.want THEN {Lock} ELSE {})
                                  THEN Awake ELSE chan[q]]
      /\ ino' = [Emptied EXCEPT !.lock = FALSE, !.want = FALSE]
      /\ UNCHANGED <<data, fcount, fds>>
  BY DEF ReadEnd, At, Prele, Wakes, UserMode, SleepAt, Put, NoIO, counts
<1>2. ino' = [Emptied EXCEPT !.iread = ino.iread, !.lock = FALSE, !.want = FALSE]
  BY <1>1, Types DEF Emptied, FileType
<1>3. /\ FileType' /\ ino'.size = 0 /\ ino'.count = ino.count
      /\ \A q \in Procs \ {p} : chan'[q] \in {chan[q], Awake} /\ chan'[q] \notin {Lock, Room}
      /\ \A q \in Procs \ {p} : pc[q] # "rblock"
      /\ \A q \in Procs \ {p} : pc[q] = "pipe" => wild
  <2>1. ino.iread \in BOOLEAN
    BY Types DEF FileType
  <2> QED BY <1>1, <1>2, <2>1, EmptiedIs
<1>4. PlaceType' /\ LocalType'
  <2>1. 0 \in 0..PIPSIZ /\ 0 \in 0..MaxCount /\ 0 \in 0..Block
    BY PipeAssumption
  <2>2. PlaceType'
    BY <1>1, Types DEF PlaceType
  <2> QED BY <1>1, <2>1, <2>2, Types DEF LocalType
<1>5. Moves(p) /\ pc'[p] = "user" /\ end'[p] = "none" /\ chan'[p] = Awake
  BY <1>1, <1>3, Types DEF Moves, PlaceType, LocalType
<1>6. HoldersOK'
  BY <1>1, <1>3, <1>5, LockCleared DEF Locks, Holds
<1>7. SleepersHaveReason'
  BY <1>1, <1>3, <1>5, Channels DEF PipeInv, SleepersHaveReason
<1>8. cpu' # p /\ UNCHANGED counts /\ TurnOK(p)'
  BY <1>1, <1>5, PipeAssumption DEF counts, TurnOK
<1> QED BY <1>1, <1>3, <1>4, <1>5, <1>6, <1>7, <1>8, Channels, StepKept

LEMMA ReadEmptyKeeps ==
    ASSUME PipeInv, NEW p \in Procs, ReadEmpty(p)
    PROVE  PipeInv'
<1>1. /\ pc[p] = "read" /\ foff = ino.size /\ ino.count >= 2
      /\ pc' = pc /\ cpu' = NoProc /\ foff' = 0
      /\ wild' = (wild \/ \E q \in Procs \ {p} : Holds(q))
      /\ chan' = [q \in Procs |-> IF q = p THEN Data
                    ELSE IF chan[q] \in Woken \cup (IF ino.want THEN {Lock} ELSE {})
                         THEN Awake ELSE chan[q]]
      /\ ino' = [Emptied EXCEPT !.iread = TRUE, !.lock = FALSE, !.want = FALSE]
      /\ UNCHANGED <<data, fcount, fds, end, left, io, err>>
  BY Types DEF ReadEmpty, At, Prele, SleepAt, Put, counts, locals, PlaceType, FileType, Emptied
<1>2. /\ FileType' /\ ino'.size = 0 /\ ino'.count = ino.count /\ ino'.iread
      /\ \A q \in Procs \ {p} : chan'[q] \in {chan[q], Awake} /\ chan'[q] \notin {Lock, Room}
      /\ \A q \in Procs \ {p} : pc[q] # "rblock"
      /\ \A q \in Procs \ {p} : pc[q] = "pipe" => wild
  BY <1>1, EmptiedIs
<1>3. PlaceType' /\ LocalType'
  BY <1>1, Types DEF PlaceType, LocalType
<1>4. Moves(p) /\ chan'[p] = Data
  BY <1>1, <1>2 DEF Moves
<1>5. HoldersOK'
  BY <1>1, <1>2, <1>4, LockCleared DEF Locks, Holds
<1>6. ino'.count = 2
  BY <1>1, <1>2, Types DEF FileType
<1>7. SleepersHaveReason'
  BY <1>1, <1>2, <1>4, <1>6, Channels DEF SleepersHaveReason
<1>8. cpu' # p /\ UNCHANGED counts /\ TurnOK(p)'
  BY <1>1, PipeAssumption DEF counts, TurnOK
<1> QED BY <1>1, <1>2, <1>3, <1>4, <1>5, <1>7, <1>8, Channels, StepKept

\* A turn of ReadI by p, who takes the lock or has it.
LEMMA ReadTurnKeeps ==
    ASSUME PipeInv, NEW p \in Procs, pc[p] \in {"read", "rblock"}, chan[p] = Awake,
           NEW off \in Nat, NEW cnt \in 0..MaxCount, ReadTurn(p, off, cnt), foff # ino.size,
           \/ pc[p] = "read" /\ ~ino.lock /\ ino' = [ino EXCEPT !.lock = TRUE]
           \/ pc[p] = "rblock" /\ UNCHANGED ino,
           UNCHANGED wild, data' \in [0..(PIPSIZ - 1) -> Bytes \cup {NoByte}]
    PROVE  PipeInv'
<1>1. PICK n : n = Min({Block - (off % Block), cnt, ino.size - off})
  OBVIOUS
<1>2. /\ cnt > 0 /\ off < ino.size /\ io' = [io EXCEPT ![p] = [off |-> off, cnt |-> cnt, n |-> n]]
      /\ pc' = [pc EXCEPT ![p] = "rblock"] /\ cpu' = NoProc
      /\ UNCHANGED <<foff, fcount, fds, chan, end, left, err>>
  BY <1>1 DEF ReadTurn, SleepAt, Put, counts
<1>3. ino.size \in 0..PIPSIZ /\ ino.count > 0
  BY InCall, Types DEF FileType
<1>4. n \in 0..Block /\ n \in 1..cnt /\ off + n <= ino.size
  <2>1. cnt \in 1..MaxCount
    BY <1>2
  <2> QED BY <1>1, <1>2, <1>3, <2>1, ReadTurnIs
<1>5. FileType' /\ PlaceType' /\ LocalType'
  <2>1. FileType'
    BY <1>2, Types DEF FileType
  <2>2. PlaceType'
    BY <1>2, Types DEF PlaceType
  <2>3. off \in 0..PIPSIZ
    BY <1>2, <1>3, PipeAssumption
  <2> QED BY <1>2, <1>4, <2>1, <2>2, <2>3, Types DEF LocalType
<1>6. Moves(p) /\ pc'[p] = "rblock" /\ io'[p] = [off |-> off, cnt |-> cnt, n |-> n]
  BY <1>2, Types DEF Moves, PlaceType, LocalType
<1>7. /\ \A f \in {"count", "size", "iread", "iwrite", "want"} : ino'[f] = ino[f]
      /\ ino.lock => ino'.lock
  BY Types DEF FileType
<1>8. HoldersOK'
  <2>1. CASE pc[p] = "read"
    <3>1. ino'.lock /\ ino'.count > 0
      BY <1>3, <1>7, <2>1, Types DEF FileType
    <3> QED BY <1>6, <2>1, <3>1, LockTaken
  <2>2. CASE pc[p] = "rblock"
    BY <1>6, <2>2, HoldersKept
  <2> QED BY <2>1, <2>2
<1>9. SleepersHaveReason'
  BY <1>2, <1>6, <1>7, SleepersKept
<1>10. TurnOK(p)' /\ foff' # ino'.size
  BY <1>2, <1>3, <1>4, <1>6, <1>7, PipeAssumption DEF TurnOK
<1>11. cpu' # p /\ UNCHANGED counts /\ chan'[p] = Awake
  BY <1>2, PipeAssumption DEF counts
<1> QED BY <1>2, <1>5, <1>6, <1>7, <1>8, <1>9, <1>10, <1>11, Channels, StepKept

\* ReadI has moved all it can.
LEMMA ReadDoneKeeps ==
    ASSUME PipeInv, NEW p \in Procs, pc[p] = "rblock", chan[p] = Awake,
           wild => LockExclusive,
           NEW off \in 0..PIPSIZ, NEW cnt \in 0..MaxCount, ReadDone(p, off, cnt),
           data' \in [0..(PIPSIZ - 1) -> Bytes \cup {NoByte}]
    PROVE  PipeInv'
<1>1. /\ pc' = [pc EXCEPT ![p] = "user"] /\ cpu' = NoProc /\ foff' = off
      /\ ino' = [ino EXCEPT !.lock = FALSE, !.want = FALSE]
      /\ end' = [end EXCEPT ![p] = "none"] /\ left' = [left EXCEPT ![p] = 0]
      /\ io' = [io EXCEPT ![p] = [off |-> 0, cnt |-> 0, n |-> 0]]
      /\ err' = [err EXCEPT ![p] = FALSE]
      /\ wild' = (wild \/ \E q \in Procs \ {p} : Holds(q))
      /\ chan' = [q \in Procs |-> IF chan[q] \in {} \cup (IF ino.want THEN {Lock} ELSE {})
                                  THEN Awake ELSE chan[q]]
      /\ UNCHANGED <<fcount, fds>>
  BY DEF ReadDone, Prele, Wakes, UserMode, SleepAt, Put, NoIO, counts
<1>2. FileType' /\ PlaceType' /\ LocalType'
  <2>1. FileType'
    BY <1>1, Types DEF FileType
  <2>2. PlaceType'
    BY <1>1, Types DEF PlaceType
  <2>3. 0 \in 0..PIPSIZ /\ 0 \in 0..MaxCount /\ 0 \in 0..Block
    BY PipeAssumption
  <2>4. LocalType'
    BY <1>1, <2>3, Types DEF LocalType
  <2> QED BY <2>1, <2>2, <2>4
<1>3. chan'[p] = Awake /\ \A q \in Procs \ {p} : chan'[q] \in {chan[q], Awake} /\ chan'[q] # Lock
  BY <1>1, Woke, Channels
<1>4. Moves(p) /\ pc'[p] = "user" /\ end'[p] = "none"
  BY <1>1, <1>3, Types DEF Moves, PlaceType, LocalType
<1>5. \A f \in {"count", "size", "iread", "iwrite"} : ino'[f] = ino[f]
  BY <1>1, Types DEF FileType
<1>6. \A q \in Procs \ {p} : ~Holds(q)
  BY OnlyHolder
<1>7. HoldersOK'
  <2>1. \A q \in Procs : ~Ending(q)
    BY InCall
  <2> QED BY <1>1, <1>4, <2>1, LockCleared DEF Ending, Locks, Holds
<1>8. SleepersHaveReason'
  <2>1. foff # ino.size
    BY DEF PipeInv, TurnOK
  <2>2. \A q \in Procs : pc[q] # "wblock"
    BY <1>6 DEF Holds
  <2>3. \A q \in Procs : chan[q] # Data
    BY <2>1, <2>2 DEF PipeInv, SleepersHaveReason
  <2> QED BY <1>3, <1>5, <2>3, Channels DEF PipeInv, SleepersHaveReason
<1>9. TurnOK(p)' /\ \A q \in Procs \ {p} : pc[q] # "rblock"
  BY <1>4, <1>6 DEF TurnOK, Holds
<1>10. cpu' # p /\ UNCHANGED counts
  BY <1>1, PipeAssumption DEF counts
<1> QED BY <1>2, <1>3, <1>4, <1>5, <1>7, <1>8, <1>9, <1>10, Channels, StepKept

LEMMA ReadKeeps ==
    ASSUME PipeInv, NEW p \in Procs, ReadStart(p) \/ ReadBlock(p)
    PROVE  PipeInv'
<1>1. chan[p] = Awake /\ (wild => LockExclusive)
  BY DEF ReadStart, ReadBlock, At
<1>2. /\ foff \in 0..PIPSIZ /\ ino.size \in 0..PIPSIZ /\ PIPSIZ \in Nat
      /\ data \in [0..(PIPSIZ - 1) -> Bytes \cup {NoByte}]
      /\ io[p].off \in 0..PIPSIZ /\ io[p].cnt \in 0..MaxCount /\ io[p].n \in 0..Block
  BY Types, PipeAssumption DEF FileType, LocalType
<1>3. CASE ReadStart(p)
  <2>1. pc[p] = "read" /\ ~ino.lock /\ foff # ino.size /\ UNCHANGED data
    BY <1>3 DEF ReadStart, At
  <2>2. CASE /\ ReadTurn(p, foff, io[p].cnt)
             /\ ino' = [ino EXCEPT !.lock = TRUE] /\ UNCHANGED wild
    BY <1>1, <1>2, <2>1, <2>2, ReadTurnKeeps
  <2>3. CASE ReadDone(p, foff, io[p].cnt)
    BY <1>1, <2>1, <2>3, LeaveKeeps DEF ReadDone
  <2> QED BY <1>3, <2>2, <2>3 DEF ReadStart
<1>4. CASE ReadBlock(p)
  <2>1. PICK off, cnt : off = io[p].off + io[p].n /\ cnt = io[p].cnt - io[p].n
    OBVIOUS
  <2>2. /\ pc[p] = "rblock"
        /\ (ReadTurn(p, off, cnt) /\ UNCHANGED <<ino, wild>>) \/ ReadDone(p, off, cnt)
        /\ \E s : data' = [k \in DOMAIN data |-> IF k \in s THEN NoByte ELSE data[k]]
    BY <1>4, <2>1 DEF ReadBlock, At
  <2>3. off \in 0..PIPSIZ /\ cnt \in 0..MaxCount /\ foff # ino.size
    <3>1. io[p].n \in 1..io[p].cnt /\ io[p].off + io[p].n <= PIPSIZ /\ foff # ino.size
      BY <2>2 DEF PipeInv, TurnOK
    <3>2. \A o \in Nat, c \in 0..MaxCount : \A n \in 1..c :
              o + n <= PIPSIZ => o + n \in 0..PIPSIZ /\ c - n \in 0..MaxCount
      BY PipeAssumption
    <3>3. io[p].off + io[p].n \in 0..PIPSIZ /\ io[p].cnt - io[p].n \in 0..MaxCount
      <4>1. PICK o \in Nat, c \in 0..MaxCount : o = io[p].off /\ c = io[p].cnt
        BY <1>2
      <4>2. PICK n \in 1..c : n = io[p].n
        BY <3>1, <4>1
      <4> QED BY <3>1, <3>2, <4>1, <4>2
    <3> QED BY <2>1, <3>1, <3>3
  <2>4. data' \in [0..(PIPSIZ - 1) -> Bytes \cup {NoByte}]
    BY <1>2, <2>2
  <2>5. CASE ReadTurn(p, off, cnt) /\ UNCHANGED <<ino, wild>>
    BY <1>1, <1>2, <2>2, <2>3, <2>4, <2>5, ReadTurnKeeps
  <2>6. CASE ReadDone(p, off, cnt)
    BY <1>1, <2>2, <2>3, <2>4, <2>6, ReadDoneKeeps
  <2> QED BY <2>2, <2>5, <2>6
<1> QED BY <1>3, <1>4

LEMMA WriteFullKeeps ==
    ASSUME PipeInv, NEW p \in Procs, WriteFull(p)
    PROVE  PipeInv'
<1>1. /\ pc[p] = "write" /\ ino.count >= 2 /\ ino.size = PIPSIZ /\ pc' = pc /\ cpu' = NoProc
      /\ ino' = [ino EXCEPT !.iwrite = TRUE, !.lock = FALSE, !.want = FALSE]
      /\ wild' = (wild \/ \E q \in Procs \ {p} : Holds(q))
      /\ chan' = [q \in Procs |-> IF q = p THEN Room
                    ELSE IF chan[q] \in {} \cup (IF ino.want THEN {Lock} ELSE {})
                         THEN Awake ELSE chan[q]]
      /\ UNCHANGED <<data, foff, fcount, fds, end, left, io, err>>
  BY Types DEF WriteFull, At, Prele, SleepAt, Put, counts, locals, PlaceType, FileType
<1>2. FileType' /\ PlaceType' /\ LocalType'
  BY <1>1, Types DEF FileType, PlaceType, LocalType
<1>3. \A q \in Procs \ {p} : chan'[q] \in {chan[q], Awake} /\ chan'[q] # Lock
  BY <1>1, Woke
<1>4. Moves(p) /\ chan'[p] = Room
  BY <1>1, <1>3 DEF Moves
<1>5. /\ ino'.count = 2 /\ ino'.count = ino.count /\ ino'.size = ino.size
      /\ ino'.iread = ino.iread /\ ino'.iwrite
  BY <1>1, Types DEF FileType
<1>6. HoldersOK'
  <2>1. \A q \in Procs : ~Ending(q)
    BY <1>1, InCall
  <2> QED BY <1>1, <1>4, <2>1, LockCleared DEF Ending, Locks, Holds
<1>7. SleepersHaveReason'
  BY <1>1, <1>3, <1>4, <1>5, Channels DEF PipeInv, SleepersHaveReason
<1>8. TurnOK(p)' /\ (foff' # ino'.size \/ \A q \in Procs \ {p} : pc[q] # "rblock")
  BY <1>1, <1>5 DEF PipeInv, TurnOK
<1>9. cpu' # p /\ UNCHANGED counts
  BY <1>1, PipeAssumption DEF counts
<1> QED BY <1>1, <1>2, <1>4, <1>5, <1>6, <1>7, <1>8, <1>9, Channels, StepKept

\* A turn of WriteI by p, who takes the lock or has it; the file may be longer by its last.
LEMMA WriteTurnKeeps ==
    ASSUME PipeInv, NEW p \in Procs, chan[p] = Awake, wild => LockExclusive,
           NEW off \in Nat, NEW cnt \in 1..MaxCount, off + cnt <= PIPSIZ,
           WriteTurn(p, off, cnt), left' \in [Procs -> 0..MaxCount],
           NEW size \in 0..PIPSIZ, NEW blocks \in 0..PIPSIZ, ino.size <= size,
           \/ /\ pc[p] = "write" /\ ~ino.lock
              /\ ino' = [ino EXCEPT !.lock = TRUE] /\ size = ino.size
           \/ /\ pc[p] = "wblock"
              /\ ino' = [ino EXCEPT !.size = size, !.blocks = blocks],
           UNCHANGED <<foff, counts, chan, end, err, wild>>,
           data' \in [0..(PIPSIZ - 1) -> Bytes \cup {NoByte}]
    PROVE  PipeInv'
<1>1. PICK n : n = Min({Block - (off % Block), cnt})
  OBVIOUS
<1>2. /\ io' = [io EXCEPT ![p] = [off |-> off, cnt |-> cnt, n |-> n]]
      /\ pc' = [pc EXCEPT ![p] = "wblock"] /\ cpu' = NoProc
      /\ UNCHANGED <<foff, fcount, fds, chan, end, err>>
  BY <1>1 DEF WriteTurn, SleepAt, Put, counts
<1>3. n \in 0..Block /\ n \in 1..cnt
  <2>1. /\ Min({Block - (off % Block), cnt}) \in 0..Block
        /\ Min({Block - (off % Block), cnt}) \in 1..cnt
    <3>1. cnt \in Nat \ {0}
      BY PipeAssumption
    <3> QED BY <3>1, WriteTurnIs
  <2> QED BY <1>1, <2>1
<1>4. FileType' /\ PlaceType' /\ LocalType'
  <2>1. FileType'
    BY <1>2, Types DEF FileType
  <2>2. PlaceType'
    BY <1>2, Types DEF PlaceType
  <2>3. off \in 0..PIPSIZ /\ cnt \in 0..MaxCount
    BY PipeAssumption
  <2> QED BY <1>2, <1>3, <2>1, <2>2, <2>3, Types DEF LocalType
<1>5. Moves(p) /\ pc'[p] = "wblock" /\ io'[p] = [off |-> off, cnt |-> cnt, n |-> n]
  BY <1>2, Types DEF Moves, PlaceType, LocalType
<1>6. /\ \A f \in {"count", "iread", "iwrite", "want"} : ino'[f] = ino[f]
      /\ ino.lock => ino'.lock
      /\ ino'.size = size
  BY Types DEF FileType
<1>7. HoldersOK'
  <2>1. CASE pc[p] = "write"
    <3>1. ino'.lock /\ ino'.count > 0
      BY <1>6, <2>1, InCall, Types DEF FileType
    <3> QED BY <1>5, <2>1, <3>1, LockTaken
  <2>2. CASE pc[p] = "wblock"
    <3>1. ino'.lock = ino.lock
      BY <2>2, Types DEF FileType
    <3> QED BY <1>5, <1>6, <2>2, <3>1, HoldersKept
  <2> QED BY <2>1, <2>2
<1>8. SleepersHaveReason'
  <2>1. size # ino.size => ino.size # PIPSIZ
    BY PipeAssumption, Types DEF FileType
  <2> QED BY <1>2, <1>5, <1>6, <2>1, Channels DEF PipeInv, SleepersHaveReason, Moves
<1>9. TurnOK(p)'
  <2>1. off + n <= PIPSIZ
    BY <1>3, PipeAssumption
  <2> QED BY <1>3, <1>5, <2>1 DEF TurnOK
<1>10. foff' # ino'.size \/ \A q \in Procs \ {p} : pc[q] # "rblock"
  <2>1. CASE pc[p] = "write"
    BY <1>2, <1>6, <2>1 DEF PipeInv, TurnOK
  <2>2. CASE pc[p] = "wblock"
    BY <2>2, OnlyHolder DEF Holds
  <2> QED BY <2>1, <2>2
<1>11. cpu' # p /\ chan'[p] = Awake
  BY <1>2, PipeAssumption
<1> QED BY <1>2, <1>4, <1>5, <1>6, <1>7, <1>8, <1>9, <1>10, <1>11, Channels, StepKept

\* p has written; the file may be longer.
LEMMA WrittenKeeps ==
    ASSUME PipeInv, NEW p \in Procs, pc[p] \in {"write", "wblock"}, chan[p] = Awake,
           wild => LockExclusive,
           NEW size \in 0..PIPSIZ, NEW blocks \in 0..PIPSIZ, ino.size <= size,
           pc[p] = "write" => size = ino.size,
           Written(p, [ino EXCEPT !.size = size, !.blocks = blocks]),
           left' \in [Procs -> 0..MaxCount], err' \in [Procs -> BOOLEAN],
           UNCHANGED <<foff, counts, end>>,
           data' \in [0..(PIPSIZ - 1) -> Bytes \cup {NoByte}]
    PROVE  PipeInv'
<1>1. /\ pc' = [pc EXCEPT ![p] = "write"] /\ cpu' = p
      /\ ino' = [ino EXCEPT !.size = size, !.blocks = blocks, !.iread = FALSE,
                            !.lock = FALSE, !.want = FALSE]
      /\ io' = [io EXCEPT ![p] = [off |-> 0, cnt |-> 0, n |-> 0]]
      /\ wild' = (wild \/ \E q \in Procs \ {p} : Holds(q))
      /\ chan' = [q \in Procs |-> IF chan[q] \in (IF ino.iread THEN {Data} ELSE {})
                                                   \cup (IF ino.want THEN {Lock} ELSE {})
                                  THEN Awake ELSE chan[q]]
      /\ UNCHANGED <<fcount, fds>>
  BY Types DEF Written, Prele, Wakes, GoOn, Put, NoIO, counts, FileType
<1>2. FileType' /\ PlaceType' /\ LocalType'
  <2>1. FileType'
    BY <1>1, Types DEF FileType
  <2>2. PlaceType'
    BY <1>1, Types DEF PlaceType
  <2>3. 0 \in 0..PIPSIZ /\ 0 \in 0..MaxCount /\ 0 \in 0..Block
    BY PipeAssumption
  <2>4. LocalType'
    BY <1>1, <2>3, Types DEF LocalType
  <2> QED BY <2>1, <2>2, <2>4
<1>3. \A q \in Procs \ {p} : /\ chan'[q] \in {chan[q], Awake} /\ chan'[q] # Lock
                             /\ ino.iread /\ chan[q] = Data => chan'[q] = Awake
  <2>1. (IF ino.iread THEN {Data} ELSE {}) \in SUBSET {Room, Data}
    OBVIOUS
  <2>2. \A q \in Procs \ {p} :
          /\ chan'[q] \in {chan[q], Awake} /\ chan'[q] # Lock
          /\ chan[q] \in (IF ino.iread THEN {Data} ELSE {}) => chan'[q] = Awake
    BY <1>1, <2>1, Woke
  <2> QED BY <2>2
<1>4. \A q \in Procs \ {p} : chan'[q] # Data
  BY <1>3, Channels DEF PipeInv, SleepersHaveReason
<1>5. Moves(p) /\ pc'[p] = "write" /\ chan'[p] = Awake /\ end'[p] = end[p]
  BY <1>1, <1>3, Types, Channels DEF Moves, PlaceType, LocalType
<1>6. ino'.count = ino.count /\ ino'.iwrite = ino.iwrite /\ ino'.size = size
  BY <1>1, Types DEF FileType
<1>7. HoldersOK'
  <2>1. \A q \in Procs : ~Ending(q)
    BY InCall
  <2> QED BY <1>1, <1>5, <2>1, LockCleared DEF Ending, Locks, Holds
<1>8. SleepersHaveReason'
  <2>1. size # ino.size => ino.size # PIPSIZ
    BY PipeAssumption, Types DEF FileType
  <2> QED BY <1>3, <1>4, <1>5, <1>6, <2>1, Channels DEF PipeInv, SleepersHaveReason
<1>9. TurnOK(p)'
  BY <1>5 DEF TurnOK
<1>10. foff' # ino'.size \/ \A q \in Procs \ {p} : pc[q] # "rblock"
  <2>1. CASE pc[p] = "write"
    BY <1>6, <2>1 DEF PipeInv, TurnOK
  <2>2. CASE pc[p] = "wblock"
    BY <2>2, OnlyHolder DEF Holds
  <2> QED BY <2>1, <2>2
<1> QED BY <1>2, <1>5, <1>6, <1>7, <1>8, <1>9, <1>10, Channels, StepKept

\* What WriteP gives to one call of WriteI.
LEMMA ShareIs ==
    ASSUME NEW c \in 1..MaxCount, NEW size \in 0..PIPSIZ, size # PIPSIZ
    PROVE  LET cnt == Min({c, PIPSIZ - size})
           IN  cnt \in 1..c /\ size + cnt <= PIPSIZ
<1>1. PICK r : r = PIPSIZ - size
  OBVIOUS
<1>2. r \in Nat \ {0} /\ size + r = PIPSIZ /\ r \in Int /\ c \in Int
  BY <1>1, PipeAssumption
<1>3. PICK cnt : cnt = Min({c, r})
  OBVIOUS
<1>4. cnt \in {c, r} /\ cnt <= c /\ cnt <= r
  BY <1>2, <1>3, MinOf
<1>5. cnt \in 1..c /\ size + cnt <= PIPSIZ
  BY <1>2, <1>4, PipeAssumption
<1> QED BY <1>1, <1>3, <1>5

LEMMA WriteKeeps ==
    ASSUME PipeInv, NEW p \in Procs, WriteStart(p) \/ WriteSkip(p) \/ WriteNoSpace(p)
    PROVE  PipeInv'
<1>1. chan[p] = Awake /\ (wild => LockExclusive)
  BY DEF WriteStart, WriteSkip, WriteNoSpace, At
<1>2. /\ ino.size \in 0..PIPSIZ /\ ino.blocks \in 0..PIPSIZ /\ left[p] \in 0..MaxCount
      /\ data \in [0..(PIPSIZ - 1) -> Bytes \cup {NoByte}]
      /\ ino = [ino EXCEPT !.size = ino.size, !.blocks = ino.blocks]
      /\ left \in [Procs -> 0..MaxCount] /\ err \in [Procs -> BOOLEAN]
      /\ MaxCount \in Nat /\ PIPSIZ \in Nat
  BY Types, PipeAssumption DEF FileType, LocalType
<1>3. ASSUME WriteStart(p) \/ WriteSkip(p), NEW cnt, cnt = Min({left[p], PIPSIZ - ino.size})
      PROVE  /\ cnt \in 1..MaxCount /\ ino.size + cnt <= PIPSIZ
             /\ left' = [left EXCEPT ![p] = @ - cnt] => left' \in [Procs -> 0..MaxCount]
  <2>1. left[p] \in 1..MaxCount /\ ino.size # PIPSIZ
    BY <1>2, <1>3 DEF WriteStart, WriteSkip
  <2>2. cnt \in 1..left[p] /\ ino.size + cnt <= PIPSIZ
    BY <1>2, <1>3, <2>1, ShareIs
  <2>3. cnt \in 1..MaxCount /\ left[p] - cnt \in 0..MaxCount
    BY <1>2, <2>1, <2>2
  <2> QED BY <1>2, <2>2, <2>3
<1>4. CASE WriteStart(p)
  <2>1. PICK cnt : cnt = Min({left[p], PIPSIZ - ino.size})
    OBVIOUS
  <2>2. /\ pc[p] = "write" /\ ~ino.lock /\ ino' = [ino EXCEPT !.lock = TRUE]
        /\ left' = [left EXCEPT ![p] = @ - cnt] /\ WriteTurn(p, ino.size, cnt)
        /\ UNCHANGED <<foff, counts, chan, end, err, wild>> /\ UNCHANGED data
    BY <1>4, <2>1 DEF WriteStart, At
  <2>3. /\ cnt \in 1..MaxCount /\ ino.size + cnt <= PIPSIZ
        /\ left' = [left EXCEPT ![p] = @ - cnt] => left' \in [Procs -> 0..MaxCount]
    BY <1>3, <1>4, <2>1
  <2>4. ino.size \in Nat /\ ino.size <= ino.size
    BY <1>2
  <2> QED BY <1>1, <1>2, <2>2, <2>3, <2>4, WriteTurnKeeps
<1>5. CASE WriteSkip(p)
  <2>1. PICK cnt : cnt = Min({left[p], PIPSIZ - ino.size})
    OBVIOUS
  <2>2. /\ pc[p] = "write" /\ left' = [left EXCEPT ![p] = @ - cnt] /\ Written(p, ino)
        /\ UNCHANGED <<foff, counts, end>> /\ UNCHANGED data /\ UNCHANGED err
    BY <1>5, <2>1 DEF WriteSkip, At
  <2>3. left' = [left EXCEPT ![p] = @ - cnt] => left' \in [Procs -> 0..MaxCount]
    BY <1>3, <1>5, <2>1
  <2>4. /\ Written(p, [ino EXCEPT !.size = ino.size, !.blocks = ino.blocks])
        /\ ino.size <= ino.size
    BY <1>2, <2>2
  <2> QED BY <1>1, <1>2, <2>2, <2>3, <2>4, WrittenKeeps
<1>6. CASE WriteNoSpace(p)
  <2>1. /\ pc[p] = "wblock" /\ err' = [err EXCEPT ![p] = TRUE] /\ Written(p, ino)
        /\ UNCHANGED <<foff, counts, end>> /\ UNCHANGED data /\ UNCHANGED left
    BY <1>6 DEF WriteNoSpace, At, Put
  <2>2. err' \in [Procs -> BOOLEAN] /\ ino.size <= ino.size
    BY <1>2, <2>1
  <2>3. Written(p, [ino EXCEPT !.size = ino.size, !.blocks = ino.blocks])
    BY <1>2, <2>1
  <2> QED BY <1>1, <1>2, <2>1, <2>2, <2>3, WrittenKeeps
<1> QED BY <1>4, <1>5, <1>6

LEMMA WriteBlockKeeps ==
    ASSUME PipeInv, NEW p \in Procs, WriteBlock(p)
    PROVE  PipeInv'
<1>1. PICK off, cnt, n : off = io[p].off /\ cnt = io[p].cnt /\ n = io[p].n
  OBVIOUS
<1> DEFINE e == [ino EXCEPT !.size = Max({ino.size, io[p].off + io[p].n}),
                            !.blocks = Max({ino.blocks, io[p].off \div Block + 1})]
<1>2. /\ \E s \in [1..io[p].n -> Bytes] :
             data' = [k \in DOMAIN data |-> IF k \in io[p].off..((io[p].off + io[p].n) - 1)
                                            THEN s[k - io[p].off + 1] ELSE data[k]]
      /\ At(p, "wblock")
      /\ IF cnt > n
         THEN WriteTurn(p, off + n, cnt - n) /\ ino' = e /\ UNCHANGED <<chan, wild>>
         ELSE Written(p, e)
      /\ UNCHANGED <<foff, counts, end, left, err>>
  <2>1. PICK s \in [1..io[p].n -> Bytes] :
          /\ At(p, "wblock")
          /\ /\ data' = [k \in DOMAIN data |-> IF k \in io[p].off..((io[p].off + io[p].n) - 1)
                                               THEN s[k - io[p].off + 1] ELSE data[k]]
             /\ IF io[p].cnt > io[p].n
                THEN /\ WriteTurn(p, io[p].off + io[p].n, io[p].cnt - io[p].n)
                     /\ ino' = e
                     /\ UNCHANGED <<chan, wild>>
                ELSE Written(p, e)
          /\ UNCHANGED <<foff, counts, end, left, err, got>>
    BY Zenon DEF WriteBlock
  <2> HIDE DEF e
  <2>2. IF cnt > n
        THEN WriteTurn(p, off + n, cnt - n) /\ ino' = e /\ UNCHANGED <<chan, wild>>
        ELSE Written(p, e)
    BY <1>1, <2>1
  <2> QED BY <2>1, <2>2
<1>3. pc[p] = "wblock" /\ chan[p] = Awake /\ (wild => LockExclusive)
  BY <1>2 DEF At
<1>4. /\ ino.size \in 0..PIPSIZ /\ ino.blocks \in 0..PIPSIZ
      /\ data \in [0..(PIPSIZ - 1) -> Bytes \cup {NoByte}]
      /\ left \in [Procs -> 0..MaxCount] /\ err \in [Procs -> BOOLEAN]
      /\ MaxCount \in Nat /\ PIPSIZ \in Nat
      /\ off \in 0..PIPSIZ /\ cnt \in 0..MaxCount
  BY <1>1, Types, PipeAssumption DEF FileType, LocalType
<1>5. n \in 1..cnt /\ off + n <= PIPSIZ /\ off + cnt <= PIPSIZ
  BY <1>1, <1>3 DEF PipeInv, TurnOK
<1>6. data' \in [0..(PIPSIZ - 1) -> Bytes \cup {NoByte}]
  <2>1. PICK s \in [1..io[p].n -> Bytes] :
          data' = [k \in DOMAIN data |-> IF k \in io[p].off..((io[p].off + io[p].n) - 1)
                                         THEN s[k - io[p].off + 1] ELSE data[k]]
    BY <1>2, Zenon
  <2>2. ASSUME NEW k \in 0..(PIPSIZ - 1), k \in io[p].off..((io[p].off + io[p].n) - 1)
        PROVE  s[k - io[p].off + 1] \in Bytes
    <3>1. k \in off..((off + n) - 1)
      BY <1>1, <2>2
    <3>2. k - off + 1 \in 1..n
      BY <1>4, <1>5, <3>1
    <3>3. k - io[p].off + 1 \in 1..io[p].n
      BY <1>1, <3>2
    <3> QED BY <2>1, <3>3
  <2> QED BY <1>4, <2>1, <2>2
<1>7. PICK size, blocks : /\ size = Max({ino.size, off + n})
                          /\ blocks = Max({ino.blocks, off \div Block + 1})
  OBVIOUS
<1>8. size \in 0..PIPSIZ /\ ino.size <= size
  <2>1. off + n \in Nat /\ off + n \in Int /\ ino.size \in Int
    BY <1>4, <1>5
  <2>2. size = IF ino.size <= off + n THEN off + n ELSE ino.size
    BY <1>7, <2>1, MaxOf
  <2> QED BY <1>4, <1>5, <2>1, <2>2
<1>9. blocks \in 0..PIPSIZ
  <2>0. off \in Nat
    BY <1>4
  <2>1. off \div Block \in 0..off
    BY <2>0, InBlock
  <2>2. off \div Block + 1 \in 0..PIPSIZ
    BY <1>4, <1>5, <2>1
  <2>3. off \div Block + 1 \in Int /\ ino.blocks \in Int
    BY <1>4, <2>2
  <2>4. blocks = IF ino.blocks <= off \div Block + 1 THEN off \div Block + 1 ELSE ino.blocks
    BY <1>7, <2>3, MaxOf
  <2> QED BY <1>4, <2>2, <2>4
<1>10. CASE cnt > n
  <2>1. /\ WriteTurn(p, off + n, cnt - n) /\ UNCHANGED <<chan, wild>>
        /\ ino' = [ino EXCEPT !.size = size, !.blocks = blocks]
    BY <1>1, <1>2, <1>7, <1>10
  <2>2. /\ off + n \in Nat /\ cnt - n \in 1..MaxCount /\ (off + n) + (cnt - n) <= PIPSIZ
        /\ left' \in [Procs -> 0..MaxCount]
    <3>1. off + n \in Nat
      BY <1>4, <1>5
    <3>2. cnt - n \in 1..MaxCount
      BY <1>4, <1>5, <1>10
    <3>3. (off + n) + (cnt - n) <= PIPSIZ
      BY <1>4, <1>5
    <3> QED BY <1>2, <1>4, <3>1, <3>2, <3>3
  <2> QED BY <1>2, <1>3, <1>6, <1>8, <1>9, <2>1, <2>2, WriteTurnKeeps
<1>11. CASE ~(cnt > n)
  <2>1. Written(p, [ino EXCEPT !.size = size, !.blocks = blocks])
    BY <1>1, <1>2, <1>7, <1>11
  <2>2. left' \in [Procs -> 0..MaxCount] /\ err' \in [Procs -> BOOLEAN]
    BY <1>2, <1>4
  <2> QED BY <1>2, <1>3, <1>6, <1>8, <1>9, <2>1, <2>2, WrittenKeeps
<1> QED BY <1>10, <1>11

-----------------------------------------------------------------------------
\* The specification

LEMMA NeighbourKeeps == PipeInv /\ Neighbour => PipeInv'
<1> SUFFICES ASSUME PipeInv, Neighbour  PROVE PipeInv'
  OBVIOUS
<1>1. PICK c \in {Lock, Room, Data} :
        /\ \E p \in Procs : chan[p] = c
        /\ chan' = [q \in Procs |-> IF chan[q] = c THEN Awake ELSE chan[q]]
  BY DEF Neighbour
<1>2. UNCHANGED <<ino, data, foff, fcount, fds, cpu, pc, end, left, io, err, wild>>
  BY DEF Neighbour, file, counts, locals
<1>3. PICK p \in Procs : cpu \in {p, NoProc}
  BY <1>1, Types DEF PlaceType
<1>4. FileType' /\ CountType' /\ PlaceType' /\ LocalType'
  BY <1>1, <1>2, Types DEF FileType, CountType, PlaceType, LocalType
<1>5. \A q \in Procs : chan'[q] \in {chan[q], Awake}
  BY <1>1
<1>6. Moves(p)
  BY <1>2, <1>3, <1>5 DEF Moves
<1>7. CountsOK'
  BY <1>2, <1>6, CountsKept DEF counts, Ending
<1>8. HoldersOK'
  BY <1>2, <1>6, HoldersKept
<1>9. SleepersHaveReason'
  BY <1>2, <1>5, <1>6, SleepersKept
<1>10. PlaceOK(p)' /\ TurnOK(p)'
  <2>1. PlaceOK(p) /\ TurnOK(p)
    BY DEF PipeInv
  <2>2. Used(p)' = Used(p)
    BY <1>2 DEF Used
  <2> QED BY <1>2, <1>5, <2>1, <2>2, Channels DEF PlaceOK, TurnOK
<1>11. foff' # ino'.size \/ \A q \in Procs \ {p} : pc[q] # "rblock"
  BY <1>2 DEF PipeInv, TurnOK
<1> QED BY <1>4, <1>6, <1>7, <1>8, <1>9, <1>10, <1>11, Kept

LEMMA PipeStutter == PipeInv /\ UNCHANGED vars => PipeInv'
<1> SUFFICES ASSUME PipeInv, UNCHANGED vars  PROVE PipeInv'
  OBVIOUS
<1>1. UNCHANGED <<ino, data, foff, fcount, fds, cpu, pc, chan, end, left, io, err, wild>>
  BY DEF vars, file, counts, locals
<1>2. TypeOK' /\ CountsOK'
  BY <1>1 DEF PipeInv, TypeOK, CountsOK, Ending, Open, Descriptors
<1>3. HoldersOK' /\ SleepersHaveReason'
  BY <1>1 DEF PipeInv, HoldersOK, SleepersHaveReason, Locks, Holds
<1>4. ASSUME NEW q \in Procs  PROVE PlaceOK(q)' /\ TurnOK(q)'
  BY <1>1 DEF PipeInv, PlaceOK, TurnOK, Used
<1> QED BY <1>2, <1>3, <1>4 DEF PipeInv

LEMMA PipeInit == Init => PipeInv
<1> SUFFICES ASSUME Init  PROVE PipeInv
  OBVIOUS
<1>1. TypeOK
  <2>1. 0 \in 0..2 /\ 0 \in 0..PIPSIZ /\ 0 \in 0..MaxCount /\ 0 \in 0..Block /\ 0 \in 0..NOFile
    BY PipeAssumption
  <2>2. FileType /\ CountType /\ PlaceType
    BY <2>1 DEF Init, NoPipe, FileType, CountType, PlaceType
  <2>3. LocalType
    BY <2>1 DEF Init, NoIO, LocalType
  <2> QED BY <2>2, <2>3, TypeParts
<1>2. FdsOK
  BY <1>1 DEF TypeOK, FdsOK
<1>3. \A q \in Procs : /\ pc[q] \in {"user", "none"} /\ chan[q] = Awake /\ end[q] = "none"
                       /\ \A e \in Ends : fds[q][e] = 0
  BY DEF Init
<1>4. \A e \in Ends : fcount[e] = 0 /\ Cardinality(Descriptors(e)) = 0
  <2> TAKE e \in Ends
  <2>1. By(e) \in Counts /\ Descriptors(e) = Items(By(e))
    BY <1>2, ByIs
  <2>2. \A q \in Procs : By(e)[q] = 0
    BY <1>3 DEF By
  <2> QED BY <2>1, <2>2, NoItems DEF Init
<1>5. CountsOK
  BY <1>3, <1>4 DEF Init, NoPipe, CountsOK, Ending, Open, Ends
<1>6. \A q \in Procs : PlaceOK(q) /\ TurnOK(q)
  <2> TAKE q \in Procs
  <2>1. Used(q) <= NOFile /\ cpu # q
    BY <1>3, PipeAssumption DEF Used, Ends, Init
  <2> QED BY <1>3, <2>1, Channels DEF PlaceOK, TurnOK
<1>7. HoldersOK
  BY <1>3 DEF HoldersOK, Locks, Holds
<1>8. SleepersHaveReason
  BY <1>3, Channels DEF SleepersHaveReason
<1> QED BY <1>1, <1>5, <1>6, <1>7, <1>8 DEF PipeInv

LEMMA PipeNext == PipeInv /\ [Next]_vars => PipeInv'
<1> SUFFICES ASSUME PipeInv, Next  PROVE PipeInv'
  BY PipeStutter
<1>1. CASE Neighbour
  BY <1>1, NeighbourKeeps
<1>2. ASSUME NEW p \in Procs, Call(p)  PROVE PipeInv'
  <2>1. 0 \in 0..MaxCount
    BY PipeAssumption
  <2> QED BY <1>2, <2>1, CallsKeep, NewInodeKeeps, DupKeeps, ForkKeeps, CloseSharedKeeps,
             CloseEndKeeps, CloseLastKeeps DEF Call
<1>3. ASSUME NEW p \in Procs, Move(p)  PROVE PipeInv'
  BY <1>3, EndingKeeps, WaitLockKeeps, LeavesKeep, ReadEndKeeps, ReadEmptyKeeps, ReadKeeps,
     WriteFullKeeps, WriteKeeps, WriteBlockKeeps DEF Move
<1>4. ASSUME NEW p \in Procs, Signal(p)  PROVE PipeInv'
  <2>1. 0 \in 0..MaxCount
    BY PipeAssumption
  <2> QED BY <1>4, <2>1, CallsKeep
<1>5. ASSUME NEW p \in Procs, NEW n \in 0..MaxCount, Read(p, n)  PROVE PipeInv'
  BY <1>5, CallsKeep
<1> QED BY <1>1, <1>2, <1>3, <1>4, <1>5 DEF Next

\* Every state of a pipe satisfies the inductive invariant: the counts, the lock as far as
\* it can be trusted, the sleepers' reasons, the place of each process, and the bounds of
\* a turn (FileManager::Pipe, ReadP, WriteP, Plock, Prele, FAlloc, CloseF, IPut).
THEOREM PipeInvariance == Spec => []PipeInv
<1>1. Init => PipeInv
  BY PipeInit
<1>2. PipeInv /\ [Next]_vars => PipeInv'
  BY PipeNext
<1> QED BY <1>1, <1>2, PTL DEF Spec

\* From the counts kept one way while somebody makes the pipe or gives it up, and another
\* way else, the counts as EndsCounted has them.
LEMMA CountsAreEnds == PipeInv => EndsCounted
<1> SUFFICES ASSUME PipeInv  PROVE EndsCounted
  OBVIOUS
<1>1. \A q \in Procs : end[q] # "none" => Ending(q)
  BY DEF PipeInv, PlaceOK, Ending
<1>2. ASSUME NEW e \in Ends, NEW p \in Procs, Ending(p)
      PROVE  fcount[e] = Cardinality(Descriptors(e)) + Cardinality({q \in Procs : end[q] = e})
  <2>1. fcount[e] = (IF end[p] = e THEN 1 ELSE 0) /\ \A q \in Procs : By(e)[q] = 0
    BY <1>2, EndingUnused DEF By
  <2>2. By(e) \in Counts /\ Descriptors(e) = Items(By(e))
    BY Types, ByIs
  <2>3. Cardinality(Descriptors(e)) = 0
    BY <2>1, <2>2, NoItems
  <2>4. \A q \in Procs \ {p} : end[q] = "none"
    BY <1>1, <1>2, EndingUnused
  <2>5. {q \in Procs : end[q] = e} = IF end[p] = e THEN {p} ELSE {}
    BY <2>4 DEF Ends
  <2>6. Cardinality({q \in Procs : end[q] = e}) = IF end[p] = e THEN 1 ELSE 0
    <3>1. Cardinality({p}) = 1 /\ Cardinality({}) = 0
      BY FS_Singleton, FS_EmptySet
    <3> QED BY <2>5, <3>1
  <2> QED BY <2>1, <2>3, <2>6
<1>3. ASSUME \A q \in Procs : ~Ending(q), NEW e \in Ends
      PROVE  fcount[e] = Cardinality(Descriptors(e)) + Cardinality({q \in Procs : end[q] = e})
  <2>1. {q \in Procs : end[q] = e} = {}
    BY <1>1, <1>3 DEF Ends
  <2>2. Cardinality({q \in Procs : end[q] = e}) = 0
    BY <2>1, FS_EmptySet
  <2>3. fcount[e] = Cardinality(Descriptors(e)) /\ fcount[e] \in Nat
    BY <1>3, Types DEF PipeInv, CountsOK, CountType
  <2> QED BY <2>2, <2>3
<1>4. ASSUME \A q \in Procs : ~Ending(q)
      PROVE  ino.count = Cardinality({e \in Ends : fcount[e] > 0})
  <2>1. ino.count = Open("r") + Open("w")
    BY <1>4 DEF PipeInv, CountsOK
  <2>2. Cardinality({}) = 0 /\ Cardinality({"r"}) = 1 /\ Cardinality({"w"}) = 1
        /\ Cardinality({"r", "w"}) = 2
    <3>1. IsFiniteSet({"r"}) /\ Cardinality({"r"}) = 1 /\ Cardinality({"w"}) = 1
      BY FS_Singleton
    <3>2. Cardinality({"r"} \cup {"w"}) = Cardinality({"r"}) + 1
      BY <3>1, FS_AddElement
    <3>3. {"r", "w"} = {"r"} \cup {"w"}
      OBVIOUS
    <3> QED BY <3>1, <3>2, <3>3, FS_EmptySet
  <2>3. CASE fcount["r"] > 0 /\ fcount["w"] > 0
    <3>1. {e \in Ends : fcount[e] > 0} = {"r", "w"}
      BY <2>3 DEF Ends
    <3> QED BY <2>1, <2>2, <2>3, <3>1 DEF Open
  <2>4. CASE fcount["r"] > 0 /\ ~(fcount["w"] > 0)
    <3>1. {e \in Ends : fcount[e] > 0} = {"r"}
      BY <2>4 DEF Ends
    <3> QED BY <2>1, <2>2, <2>4, <3>1 DEF Open
  <2>5. CASE ~(fcount["r"] > 0) /\ fcount["w"] > 0
    <3>1. {e \in Ends : fcount[e] > 0} = {"w"}
      BY <2>5 DEF Ends
    <3> QED BY <2>1, <2>2, <2>5, <3>1 DEF Open
  <2>6. CASE ~(fcount["r"] > 0) /\ ~(fcount["w"] > 0)
    <3>1. {e \in Ends : fcount[e] > 0} = {}
      BY <2>6 DEF Ends
    <3> QED BY <2>1, <2>2, <2>6, <3>1 DEF Open
  <2> QED BY <2>3, <2>4, <2>5, <2>6
<1> QED BY <1>2, <1>3, <1>4 DEF EndsCounted, PipeInv, Ending

\* f_count is the number of descriptors of an end, and i_count the number of open ends,
\* whatever Dup, Fork, Exit and failed calls of Pipe come between (Pipe 371-388, CloseF
\* 67-78, Clone).
THEOREM EndsCountedHolds == Spec => []EndsCounted
  BY PipeInvariance, CountsAreEnds, PTL

\* No wake-up of a pipe is lost: a sleeper's reason still holds, also when CloseF has
\* cleared the lock under a process, and when signals and the neighbours' wake-ups come
\* between (ReadP 416-446, WriteP 464-504, Plock, Prele, CloseF 59-65).
THEOREM SleepersHaveReasonHolds == Spec => []SleepersHaveReason
<1>1. PipeInv => SleepersHaveReason
  BY DEF PipeInv
<1> QED BY <1>1, PipeInvariance, PTL

-----------------------------------------------------------------------------
\* The queue

Store == [0..(PIPSIZ - 1) -> Bytes \cup {NoByte}]

LEMMA IsSequence ==
    ASSUME NEW m \in Nat, NEW S, NEW f \in [1..m -> S]
    PROVE  f \in Seq(S) /\ Len(f) = m
<1>1. f \in Seq(S)
  OBVIOUS
<1>2. DOMAIN f = 1..m /\ DOMAIN f = 1..Len(f) /\ Len(f) \in Nat
  BY <1>1, LenProperties
<1> QED BY <1>1, <1>2

\* The bytes of d from an offset to the end of a file of a certain size.
Rest(d, off, size) == [k \in 1..(size - off) |-> d[off + k - 1]]

LEMMA RestIs ==
    ASSUME NEW d \in Store, NEW size \in 0..PIPSIZ, NEW off \in 0..size
    PROVE  /\ Rest(d, off, size) \in Seq(Bytes \cup {NoByte})
           /\ Len(Rest(d, off, size)) = size - off
           /\ \A k \in 1..(size - off) : Rest(d, off, size)[k] = d[off + k - 1]
<1>1. size - off \in Nat /\ \A k \in 1..(size - off) : off + k - 1 \in 0..(PIPSIZ - 1)
  BY PipeAssumption
<1>2. Rest(d, off, size) \in [1..(size - off) -> Bytes \cup {NoByte}]
  BY <1>1 DEF Rest, Store
<1> QED BY <1>1, <1>2, IsSequence DEF Rest

\* A reader takes n bytes.
LEMMA Taken ==
    ASSUME NEW d \in Store, NEW e \in Store, NEW size \in 0..PIPSIZ, NEW off \in 0..size,
           NEW n \in 1..(size - off), \A j \in (off + n)..(PIPSIZ - 1) : e[j] = d[j]
    PROVE  /\ n \in 1..Len(Rest(d, off, size))
           /\ [k \in 1..n |-> d[off + k - 1]] = SubSeq(Rest(d, off, size), 1, n)
           /\ Rest(e, off + n, size)
                = SubSeq(Rest(d, off, size), n + 1, Len(Rest(d, off, size)))
<1>1. PICK q : q = Rest(d, off, size)
  OBVIOUS
<1>2. /\ q \in Seq(Bytes \cup {NoByte}) /\ Len(q) = size - off
      /\ \A k \in 1..(size - off) : q[k] = d[off + k - 1]
  BY <1>1, RestIs
<1>3. /\ size \in Int /\ off \in Int /\ n \in Int /\ 1 <= n /\ n <= size - off
      /\ 0 <= off /\ size <= PIPSIZ /\ PIPSIZ \in Int
  BY PipeAssumption
<1>4. \A i \in 1..Len(q) : q[i] \in Bytes \cup {NoByte}
  BY <1>2, ElementOfSeq
<1>5. [k \in 1..n |-> d[off + k - 1]] = SubSeq(q, 1, n)
  <2>1. PICK g : g = [k \in 1..n |-> d[off + k - 1]]
    OBVIOUS
  <2>2. PICK h : h = SubSeq(q, 1, n)
    OBVIOUS
  <2>3. \A i \in 1..n : q[i] \in Bytes \cup {NoByte}
    BY <1>2, <1>3, <1>4
  <2>4. /\ h \in Seq(Bytes \cup {NoByte}) /\ Len(h) = IF 1 <= n THEN n - 1 + 1 ELSE 0
        /\ \A i \in 1..(n - 1 + 1) : h[i] = q[1 + i - 1]
    BY <1>3, <2>2, <2>3, SubSeqProperties
  <2>5. Len(h) = n /\ \A i \in 1..n : h[i] = q[i]
    BY <1>3, <2>4
  <2>6. \A i \in 1..n : g[i] = q[i]
    BY <1>2, <1>3, <2>1
  <2>7. g \in [1..n -> Bytes \cup {NoByte}]
    BY <2>1, <2>3, <2>6
  <2>8. g \in Seq(Bytes \cup {NoByte}) /\ Len(g) = n
    BY <1>3, <2>7, IsSequence
  <2>9. g = h
    BY <2>4, <2>5, <2>6, <2>8, SeqEqual
  <2> QED BY <2>1, <2>2, <2>9
<1>6. Rest(e, off + n, size) = SubSeq(q, n + 1, Len(q))
  <2>1. PICK r : r = Rest(e, off + n, size)
    OBVIOUS
  <2>2. PICK h : h = SubSeq(q, n + 1, size - off)
    OBVIOUS
  <2>3. off + n \in 0..size
    BY <1>3
  <2>4. /\ r \in Seq(Bytes \cup {NoByte}) /\ Len(r) = size - (off + n)
        /\ \A k \in 1..(size - (off + n)) : r[k] = e[(off + n) + k - 1]
    BY <2>1, <2>3, RestIs
  <2>5. \A i \in (n + 1)..(size - off) : q[i] \in Bytes \cup {NoByte}
    BY <1>2, <1>3, <1>4
  <2>6. n + 1 \in Int /\ size - off \in Int
    BY <1>3
  <2>7. /\ h \in Seq(Bytes \cup {NoByte})
        /\ Len(h) = IF n + 1 <= size - off THEN (size - off) - (n + 1) + 1 ELSE 0
        /\ \A i \in 1..((size - off) - (n + 1) + 1) : h[i] = q[(n + 1) + i - 1]
    BY <2>2, <2>5, <2>6, SubSeqProperties
  <2>8. Len(h) = size - (off + n) /\ \A i \in 1..(size - (off + n)) : h[i] = q[n + i]
    BY <1>3, <2>7
  <2>9. ASSUME NEW i \in 1..(size - (off + n))  PROVE r[i] = q[n + i]
    <3>1. n + i \in 1..(size - off) /\ (off + n) + i - 1 \in (off + n)..(PIPSIZ - 1)
          /\ off + (n + i) - 1 = (off + n) + i - 1
      BY <1>3
    <3>2. q[n + i] = d[off + (n + i) - 1] /\ r[i] = e[(off + n) + i - 1]
      BY <1>2, <2>4, <3>1
    <3> QED BY <3>1, <3>2
  <2>10. r = h
    BY <2>4, <2>7, <2>8, <2>9, SeqEqual
  <2> QED BY <1>2, <2>1, <2>2, <2>10
<1>7. n \in 1..Len(q)
  BY <1>2, <1>3
<1> QED BY <1>1, <1>5, <1>6, <1>7

\* A writer adds n bytes.
LEMMA Added ==
    ASSUME NEW d \in Store, NEW e \in Store, NEW size \in 0..PIPSIZ, NEW off \in 0..size,
           NEW n \in 1..(PIPSIZ - size), NEW s \in [1..n -> Bytes],
           \A j \in 0..(size - 1) : e[j] = d[j], \A j \in 1..n : e[size + j - 1] = s[j]
    PROVE  /\ n \in 1..(PIPSIZ - Len(Rest(d, off, size)))
           /\ Rest(e, off, size + n) = Rest(d, off, size) \o s
<1>1. PICK q, r : q = Rest(d, off, size) /\ r = Rest(e, off, size + n)
  OBVIOUS
<1>2. /\ size \in Int /\ off \in Int /\ n \in Int /\ 1 <= n /\ size + n <= PIPSIZ
      /\ 0 <= off /\ off <= size /\ PIPSIZ \in Int
  BY PipeAssumption
<1>3. /\ q \in Seq(Bytes \cup {NoByte}) /\ Len(q) = size - off
      /\ \A k \in 1..(size - off) : q[k] = d[off + k - 1]
  BY <1>1, RestIs
<1>4. size + n \in 0..PIPSIZ /\ off \in 0..(size + n)
  BY <1>2
<1>5. /\ r \in Seq(Bytes \cup {NoByte}) /\ Len(r) = size + n - off
      /\ \A k \in 1..(size + n - off) : r[k] = e[off + k - 1]
  <2>1. PICK z \in 0..PIPSIZ : z = size + n
    BY <1>4
  <2>2. off \in 0..z /\ r = Rest(e, off, z)
    BY <1>1, <1>4, <2>1
  <2>3. /\ r \in Seq(Bytes \cup {NoByte}) /\ Len(r) = z - off
        /\ \A k \in 1..(z - off) : r[k] = e[off + k - 1]
    BY <2>2, RestIs
  <2> QED BY <2>1, <2>3
<1>6. s \in Seq(Bytes \cup {NoByte}) /\ Len(s) = n
  <2>1. s \in [1..n -> Bytes \cup {NoByte}]
    OBVIOUS
  <2> QED BY <1>2, <2>1, IsSequence
<1>7. /\ q \o s \in Seq(Bytes \cup {NoByte}) /\ Len(q \o s) = (size - off) + n
      /\ \A i \in 1..((size - off) + n) :
            (q \o s)[i] = IF i <= size - off THEN q[i] ELSE s[i - (size - off)]
  <2>1. /\ q \o s \in Seq(Bytes \cup {NoByte}) /\ Len(q \o s) = Len(q) + Len(s)
        /\ \A i \in 1..(Len(q) + Len(s)) :
              (q \o s)[i] = IF i <= Len(q) THEN q[i] ELSE s[i - Len(q)]
    <3>1. q \in Seq(Bytes \cup {NoByte}) /\ s \in Seq(Bytes \cup {NoByte})
      BY <1>3, <1>6
    <3> QED BY <3>1, ConcatProperties, ZenonT(60)
  <2> QED BY <1>3, <1>6, <2>1
<1>8. ASSUME NEW i \in 1..(size + n - off)  PROVE r[i] = (q \o s)[i]
  <2>1. r[i] = e[off + i - 1] /\ i \in 1..((size - off) + n)
    BY <1>2, <1>5
  <2>2. CASE i <= size - off
    <3>1. i \in 1..(size - off) /\ off + i - 1 \in 0..(size - 1)
      BY <1>2, <2>2
    <3> QED BY <1>3, <1>7, <2>1, <2>2, <3>1
  <2>3. CASE ~(i <= size - off)
    <3>1. i - (size - off) \in 1..n /\ size + (i - (size - off)) - 1 = off + i - 1
      BY <1>2, <2>3
    <3>2. e[size + (i - (size - off)) - 1] = s[i - (size - off)]
      BY <3>1
    <3> QED BY <1>7, <2>1, <2>3, <3>1, <3>2
  <2> QED BY <2>2, <2>3
<1>9. Len(r) = Len(q \o s)
  BY <1>2, <1>5, <1>7
<1>10. r = q \o s
  <2>1. \A i \in 1..Len(r) : r[i] = (q \o s)[i]
    BY <1>5, <1>8
  <2> QED BY <1>5, <1>7, <1>9, <2>1, SeqEqual
<1>11. n \in 1..(PIPSIZ - Len(q))
  BY <1>2, <1>3
<1> QED BY <1>1, <1>10, <1>11

\* As long as no lock was cleared under its owner: where the reader and the writer are in
\* the file, and that the file is empty while there is no pipe.
FifoOK == ~wild =>
    /\ foff <= ino.size
    /\ \A p \in Procs : pc[p] = "rblock" => /\ foff <= io[p].off
                                            /\ io[p].off + io[p].n <= ino.size
    /\ \A p \in Procs : pc[p] = "wblock" => io[p].off = ino.size
    /\ ino.count = 0 \/ (\E p \in Procs : pc[p] \in {"pipe", "update"}) =>
          ino.size = 0 /\ foff = 0

FifoInv == PipeInv /\ FifoOK

\* What is to be shown of a step.
FifoStep == FifoOK' /\ [wild' \/ Fifo!FifoNext]_<<queue, got, inUse>>

\* The reader is at f_offset, or at the offset of its turn.
Position == PipeInv /\ ~wild =>
    /\ (\A p \in Procs : pc[p] # "rblock") => From = foff
    /\ \A p \in Procs : pc[p] = "rblock" => From = io[p].off

LEMMA PositionHolds == Position
<1> SUFFICES ASSUME PipeInv, ~wild
             PROVE  /\ (\A p \in Procs : pc[p] # "rblock") => From = foff
                    /\ \A p \in Procs : pc[p] = "rblock" => From = io[p].off
  BY DEF Position
<1>1. ASSUME \A p \in Procs : pc[p] # "rblock"  PROVE From = foff
  <2>1. {p \in Procs : pc[p] = "rblock"} = {}
    BY <1>1
  <2> QED BY <2>1 DEF From
<1>2. ASSUME NEW p \in Procs, pc[p] = "rblock"  PROVE From = io[p].off
  <2>1. \A q \in Procs \ {p} : pc[q] # "rblock"
    BY <1>2 DEF PipeInv, HoldersOK, Locks, Holds
  <2>2. {q \in Procs : pc[q] = "rblock"} = {p}
    BY <1>2, <2>1
  <2>3. PICK x \in Int : x = io[p].off
    BY Types, PipeAssumption DEF LocalType
  <2>4. {io[q].off : q \in {p}} = {x}
    BY <2>3
  <2>5. Max({x}) = x
    <3>1. Max({x, x}) = x
      BY MaxOf
    <3>2. {x, x} = {x}
      OBVIOUS
    <3> QED BY <3>1, <3>2
  <2>6. From = Max({io[q].off : q \in {p}})
    BY <2>2 DEF From
  <2> QED BY <2>3, <2>4, <2>5, <2>6
<1> QED BY <1>1, <1>2

LEMMA PositionNext == Position'
  BY PositionHolds, PTL

LEMMA QueueIs == queue = Rest(data, From, ino.size)
  BY DEF queue, Rest

LEMMA QueueNext == queue' = Rest(data', From', ino'.size)
  BY DEF queue, Rest

\* After a lock was cleared under its owner nothing more is said.
LEMMA WildStep ==
    ASSUME wild'
    PROVE  FifoStep
  BY DEF FifoStep, FifoOK

\* A step that leaves the queue alone can at most make the pipe or close it.
LEMMA QuietStep ==
    ASSUME FifoOK', queue' = queue, got' = got
    PROVE  FifoStep
<1>1. inUse \in BOOLEAN /\ inUse' \in BOOLEAN
  BY DEF inUse
<1>2. inUse' = inUse \/ inUse' = ~inUse
  BY <1>1
<1> QED BY <1>2 DEF FifoStep, Fifo!FifoNext, Fifo!MakeOrClose

\* p moves no bytes and no offset.
QuietMove(p) ==
    /\ \A q \in Procs \ {p} : pc'[q] = pc[q] /\ io'[q] = io[q]
    /\ UNCHANGED <<data, foff, got>> /\ ino'.size = ino.size /\ (wild => wild')
    /\ ino'.count = 0 => ino.count = 0 \/ pc[p] = "update"
    /\ pc[p] # "rblock"

LEMMA Quiet ==
    ASSUME PipeInv, PipeInv', FifoOK, NEW p \in Procs, QuietMove(p),
           pc'[p] = "rblock" => /\ \A q \in Procs : pc[q] # "rblock"
                                /\ foff = io'[p].off /\ io'[p].off + io'[p].n <= ino'.size,
           pc'[p] = "wblock" => io'[p].off = ino.size,
           pc'[p] \in {"pipe", "update"} => ino.size = 0 /\ foff = 0
    PROVE  FifoStep
<1>1. CASE wild'
  BY <1>1, WildStep
<1>2. CASE ~wild'
  <2>1. /\ ~wild
        /\ \A q \in Procs \ {p} : pc'[q] = pc[q] /\ io'[q] = io[q]
    BY <1>2 DEF QuietMove
  <2>2. foff \in Int /\ UNCHANGED <<data, foff, got>> /\ ino'.size = ino.size /\ pc[p] # "rblock"
    BY Types, PipeAssumption DEF FileType, QuietMove
  <2>3. FifoOK'
    <3>1. /\ foff <= ino.size
          /\ \A q \in Procs : pc[q] = "rblock" => /\ foff <= io[q].off
                                                  /\ io[q].off + io[q].n <= ino.size
          /\ \A q \in Procs : pc[q] = "wblock" => io[q].off = ino.size
          /\ ino.count = 0 \/ (\E q \in Procs : pc[q] \in {"pipe", "update"}) =>
                ino.size = 0 /\ foff = 0
      BY <2>1 DEF FifoOK
    <3>2. \A q \in Procs : pc'[q] = "rblock" => /\ foff <= io'[q].off
                                                /\ io'[q].off + io'[q].n <= ino'.size
      BY <2>1, <2>2, <3>1
    <3>3. \A q \in Procs : pc'[q] = "wblock" => io'[q].off = ino'.size
      BY <2>1, <2>2, <3>1 DEF QuietMove
    <3>4. ino'.count = 0 \/ (\E q \in Procs : pc'[q] \in {"pipe", "update"}) =>
             ino'.size = 0 /\ foff' = 0
      BY <2>1, <2>2, <3>1 DEF QuietMove
    <3> QED BY <2>2, <3>1, <3>2, <3>3, <3>4 DEF FifoOK
  <2>4. From' = From
    <3>1. CASE pc'[p] = "rblock"
      <4>1. From = foff
        BY <2>1, <3>1, PositionHolds DEF Position
      <4>2. From' = io'[p].off
        BY <1>2, <3>1, PositionNext DEF Position
      <4> QED BY <3>1, <4>1, <4>2
    <3>2. CASE pc'[p] # "rblock" /\ \A q \in Procs : pc[q] # "rblock"
      <4>1. From = foff
        BY <2>1, <3>2, PositionHolds DEF Position
      <4>2. \A q \in Procs : pc'[q] # "rblock"
        BY <2>1, <3>2
      <4>3. From' = foff'
        BY <1>2, <4>2, PositionNext DEF Position
      <4> QED BY <2>2, <4>1, <4>3
    <3>3. ASSUME pc'[p] # "rblock", NEW q \in Procs, pc[q] = "rblock"  PROVE From' = From
      <4>1. pc'[q] = "rblock" /\ io'[q] = io[q]
        BY <2>1, <2>2, <3>3
      <4>2. From = io[q].off
        BY <2>1, <3>3, PositionHolds DEF Position
      <4>3. From' = io'[q].off
        BY <1>2, <4>1, PositionNext DEF Position
      <4> QED BY <4>1, <4>2, <4>3
    <3> QED BY <3>1, <3>2, <3>3
  <2>5. queue' = queue
    BY <2>2, <2>4, QueueIs, QueueNext
  <2> QED BY <2>2, <2>3, <2>5, QuietStep
<1> QED BY <1>1, <1>2

LEMMA QuietActions ==
    ASSUME PipeInv, PipeInv', FifoOK, NEW p \in Procs, NEW n \in 0..MaxCount,
           Dup(p) \/ Exit(p) \/ Sync(p) \/ Write(p) \/ Read(p, n) \/ CloseShared(p) \/
           CloseEnd(p) \/ CloseLast(p) \/ Signal(p) \/ PipeFails(p) \/ WaitLock(p) \/
           SyncDone(p) \/ WriteEnd(p) \/ WriteFull(p) \/ WriteSkip(p) \/ WriteNoSpace(p) \/
           Released(p)
    PROVE  FifoStep
<1> USE DEF At, Put, file, counts, locals
<1>0. FileType /\ PlaceType /\ LocalType
  BY Types
<1>1. QuietMove(p) /\ pc'[p] \in {"none", "user", "read", "write", "sync", "trunc"}
  <2>1. CASE Dup(p)
    BY <1>0, <2>1 DEF QuietMove, FileType, PlaceType, LocalType, Dup, Enters
  <2>2. CASE Exit(p)
    BY <1>0, <2>2 DEF QuietMove, FileType, PlaceType, LocalType, Exit, Enters, SleepAt
  <2>3. CASE Sync(p)
    BY <1>0, <2>3 DEF QuietMove, FileType, PlaceType, LocalType, Sync, Enters, SleepAt
  <2>4. CASE Write(p)
    BY <1>0, <2>4 DEF QuietMove, FileType, PlaceType, LocalType, Write, Enters, SleepAt
  <2>5. CASE Read(p, n)
    BY <1>0, <2>5 DEF QuietMove, FileType, PlaceType, LocalType, Read, Enters, SleepAt
  <2>6. CASE CloseShared(p)
    BY <1>0, <2>6 DEF QuietMove, FileType, PlaceType, LocalType, CloseShared, Enters
  <2>7. CASE CloseEnd(p)
    BY <1>0, <2>7 DEF QuietMove, FileType, PlaceType, LocalType, CloseEnd, Enters, Prele, Wakes
  <2>8. CASE CloseLast(p)
    BY <1>0, <2>8 DEF QuietMove, FileType, PlaceType, LocalType, CloseLast, Enters, SleepAt
  <2>9. CASE Signal(p)
    BY <1>0, <2>9 DEF QuietMove, FileType, PlaceType, LocalType, Signal, UserMode, SleepAt, NoIO
  <2>10. CASE PipeFails(p)
    BY <1>0, <2>10 DEF QuietMove, FileType, PlaceType, LocalType, PipeFails, SleepAt
  <2>11. CASE WaitLock(p)
    BY <1>0, <2>11 DEF QuietMove, FileType, PlaceType, LocalType, WaitLock, SleepAt
  <2>12. CASE SyncDone(p)
    BY <1>0, <2>12 DEF QuietMove, FileType, PlaceType, LocalType, SyncDone, Prele, Wakes,
       UserMode, SleepAt, NoIO
  <2>13. CASE WriteEnd(p)
    BY <1>0, <2>13 DEF QuietMove, FileType, PlaceType, LocalType, WriteEnd, Prele, Wakes,
       UserMode, SleepAt, NoIO
  <2>14. CASE WriteFull(p)
    BY <1>0, <2>14 DEF QuietMove, FileType, PlaceType, LocalType, WriteFull, Prele, SleepAt
  <2>15. CASE WriteSkip(p)
    BY <1>0, <2>15 DEF QuietMove, FileType, PlaceType, LocalType, WriteSkip, Written, Prele,
       Wakes, GoOn, NoIO
  <2>16. CASE WriteNoSpace(p)
    BY <1>0, <2>16 DEF QuietMove, FileType, PlaceType, LocalType, WriteNoSpace, Written, Prele,
       Wakes, GoOn, NoIO
  <2>17. CASE Released(p)
    BY <1>0, <2>17 DEF QuietMove, FileType, PlaceType, LocalType, Released, Prele, Wakes,
       UserMode, SleepAt, NoIO
  <2> QED BY <2>1, <2>2, <2>3, <2>4, <2>5, <2>6, <2>7, <2>8, <2>9, <2>10, <2>11, <2>12, <2>13,
             <2>14, <2>15, <2>16, <2>17
<1> QED BY <1>1, Quiet

LEMMA ForkAndNeighbour ==
    ASSUME PipeInv, PipeInv', FifoOK, Neighbour \/ \E p \in Procs : Fork(p)
    PROVE  FifoStep
<1>1. CASE Neighbour
  <2>1. UNCHANGED <<ino, data, foff, pc, io, wild, got>>
    BY <1>1 DEF Neighbour, file, locals
  <2>2. FifoOK' /\ queue' = queue
    BY <2>1 DEF FifoOK, queue, From
  <2> QED BY <2>1, <2>2, QuietStep
<1>2. ASSUME NEW p \in Procs, Fork(p)  PROVE FifoStep
  <2>1. PICK q \in Procs : pc[q] = "none" /\ pc' = Put(pc, q, "user")
    BY <1>2 DEF Fork
  <2>2. UNCHANGED <<ino, data, foff, io, wild, got>>
    BY <1>2 DEF Fork, file, locals
  <2>3. QuietMove(q) /\ pc'[q] = "user"
    BY <2>1, <2>2, Types DEF QuietMove, Put, PlaceType
  <2> QED BY <2>3, Quiet
<1> QED BY <1>1, <1>2

LEMMA RestEmpty ==
    ASSUME NEW d \in Store, NEW off \in 0..PIPSIZ
    PROVE  Rest(d, off, off) = << >>
<1>1. off \in 0..off /\ off - off = 0
  BY PipeAssumption
<1>2. Rest(d, off, off) \in Seq(Bytes \cup {NoByte}) /\ Len(Rest(d, off, off)) = 0
  BY <1>1, RestIs
<1> QED BY <1>2, EmptySeq, SeqEqual

\* Where nobody reads and f_offset is the length of the file, before and after, the queue
\* is empty.
LEMMA StaysEmpty ==
    ASSUME PipeInv, PipeInv', ~wild', wild => wild', foff = ino.size, foff' = ino'.size,
           \A q \in Procs : pc[q] # "rblock" /\ pc'[q] # "rblock"
    PROVE  queue = << >> /\ queue' = << >>
<1>1. From = foff
  BY PositionHolds DEF Position
<1>2. From' = foff'
  BY PositionNext DEF Position
<1>3. data \in Store /\ foff \in 0..PIPSIZ
  BY DEF PipeInv, TypeOK, Store
<1>4. data' \in Store /\ foff' \in 0..PIPSIZ
  BY DEF PipeInv, TypeOK, Store
<1>5. queue = Rest(data, foff, foff)
  BY <1>1, QueueIs
<1>6. queue' = Rest(data', foff', foff')
  BY <1>2, QueueNext
<1> QED BY <1>3, <1>4, <1>5, <1>6, RestEmpty

\* The pipe is made, or its blocks are freed.
LEMMA MakeAndTruncate ==
    ASSUME PipeInv, PipeInv', FifoOK, NEW p \in Procs, NewInode(p) \/ PipeMade(p) \/ Truncated(p)
    PROVE  FifoStep
<1> USE DEF At, Put, file, counts, locals
<1>1. FileType /\ PlaceType
  BY Types
<1>2. CASE wild'
  BY <1>2, WildStep
<1>3. CASE ~wild' /\ NewInode(p)
  <2>1. ~wild /\ ino.size = 0 /\ foff = 0
    BY <1>3 DEF FifoOK, NewInode
  <2>2. ino' = [count |-> 1, lock |-> TRUE, want |-> FALSE, size |-> 0,
                iread |-> FALSE, iwrite |-> FALSE, blocks |-> 0]
    BY <1>3 DEF NewInode, NoPipe
  <2>3. QuietMove(p) /\ pc'[p] = "pipe"
    <3>1. ino'.size = ino.size /\ ino'.count = 1
      BY <2>1, <2>2
    <3>2. /\ pc' = [pc EXCEPT ![p] = "pipe"] /\ pc[p] = "user"
          /\ UNCHANGED <<data, foff, io, got, wild>>
      BY <1>3 DEF NewInode, Enters, SleepAt
    <3> QED BY <1>1, <3>1, <3>2 DEF PlaceType, QuietMove
  <2> QED BY <2>1, <2>3, Quiet
<1>4. CASE ~wild' /\ PipeMade(p)
  <2>1. ~wild /\ foff = 0
    BY <1>4 DEF FifoOK, PipeMade
  <2>2. QuietMove(p) /\ pc'[p] = "user"
    BY <1>1, <1>4, <2>1 DEF FileType, PlaceType, QuietMove, PipeMade, UserMode, SleepAt
  <2> QED BY <2>2, Quiet
<1>5. CASE ~wild' /\ Truncated(p)
  <2>1. /\ ~wild /\ UNCHANGED <<got, fds>> /\ foff' = 0 /\ ino'.size = 0
        /\ pc' = [pc EXCEPT ![p] = "update"] /\ ino'.count = ino.count /\ pc[p] = "trunc"
    BY <1>1, <1>5 DEF FileType, Truncated, SleepAt
  <2>2. \A q \in Procs : /\ pc[q] \notin {"rblock", "wblock"}
                         /\ \A e \in Ends : fds[q][e] = 0
    BY <2>1, EndingUnused DEF Ending
  <2>3. \A q \in Procs : pc'[q] \notin {"rblock", "wblock"}
    BY <1>1, <2>1, <2>2 DEF PlaceType
  <2>4. FifoOK'
    BY <2>1, <2>3 DEF FifoOK
  <2>5. inUse = FALSE /\ inUse' = FALSE
    <3>1. \A q \in Procs : fds[q]["r"] = 0 /\ fds[q]["w"] = 0
      BY <2>2 DEF Ends
    <3>2. \A q \in Procs : ~(Used(q) > 0) /\ ~(Used(q) > 0)'
      BY <2>1, <3>1 DEF Used
    <3> QED BY <3>2 DEF inUse
  <2>6. queue' = << >>
    <3>1. From' = foff'
      BY <1>5, <2>3, PositionNext DEF Position
    <3>2. data' \in Store /\ foff' \in 0..PIPSIZ
      BY DEF PipeInv, TypeOK, Store
    <3>3. queue' = Rest(data', foff', foff')
      BY <2>1, <3>1, QueueNext
    <3> QED BY <3>2, <3>3, RestEmpty
  <2> QED BY <2>1, <2>4, <2>5, <2>6 DEF FifoStep, Fifo!FifoNext, Fifo!Drop
<1> QED BY <1>2, <1>3, <1>4, <1>5

\* Nobody else has an unlocked inode, as long as no lock was cleared under its owner.
LEMMA NobodyInside ==
    ASSUME PipeInv, ~wild, ~ino.lock
    PROVE  \A q \in Procs : pc[q] \notin {"rblock", "wblock", "pipe", "update"}
  BY DEF PipeInv, HoldersOK, Locks, Holds

LEMMA NobodyInsideNext ==
    PipeInv' /\ ~wild' /\ ~ino'.lock =>
      \A q \in Procs : pc'[q] \notin {"rblock", "wblock", "pipe", "update"}
  BY DEF PipeInv, HoldersOK, Locks, Holds

LEMMA EmptyActions ==
    ASSUME PipeInv, PipeInv', FifoOK, NEW p \in Procs, ReadEnd(p) \/ ReadEmpty(p)
    PROVE  FifoStep
<1>1. CASE wild'
  BY <1>1, WildStep
<1>2. CASE ~wild'
  <2>1. /\ ~ino.lock /\ foff = ino.size /\ foff' = 0 /\ ~wild /\ UNCHANGED got
        /\ (wild => wild') /\ ino'.size = 0 /\ ~ino'.lock
    BY <1>2, Types DEF ReadEnd, ReadEmpty, Prele, Emptied, FileType
  <2>2. \A q \in Procs : pc[q] # "rblock"
    BY <2>1, NobodyInside
  <2>3. \A q \in Procs : pc'[q] \notin {"rblock", "wblock", "pipe", "update"}
    BY <1>2, <2>1, NobodyInsideNext
  <2>4. queue = << >> /\ queue' = << >>
    BY <1>2, <2>1, <2>2, <2>3, StaysEmpty
  <2>5. FifoOK'
    BY <2>1, <2>3 DEF FifoOK
  <2> QED BY <2>1, <2>4, <2>5, QuietStep
<1> QED BY <1>1, <1>2

LEMMA ReadTurnGives ==
    ASSUME PipeInv, NEW p \in Procs, NEW off \in Nat, NEW cnt \in 0..MaxCount,
           ReadTurn(p, off, cnt)
    PROVE  /\ pc'[p] = "rblock" /\ io'[p].off = off /\ off + io'[p].n <= ino.size
           /\ \A q \in Procs \ {p} : pc'[q] = pc[q] /\ io'[q] = io[q]
           /\ UNCHANGED <<foff, fds>>
<1>1. PICK n : n = Min({Block - (off % Block), cnt, ino.size - off})
  OBVIOUS
<1>2. /\ cnt > 0 /\ off < ino.size /\ io' = [io EXCEPT ![p] = [off |-> off, cnt |-> cnt, n |-> n]]
      /\ pc' = [pc EXCEPT ![p] = "rblock"] /\ UNCHANGED <<foff, fds>>
  BY <1>1 DEF ReadTurn, SleepAt, Put, counts
<1>3. ino.size \in 0..PIPSIZ /\ cnt \in 1..MaxCount
  BY <1>2, Types DEF FileType
<1>4. off + n <= ino.size
  BY <1>1, <1>2, <1>3, ReadTurnIs
<1> QED BY <1>2, <1>4, Types DEF PlaceType, LocalType

LEMMA ReadDoneGives ==
    ASSUME PipeInv, NEW p \in Procs, NEW off, NEW cnt, ReadDone(p, off, cnt)
    PROVE  /\ pc'[p] = "user" /\ foff' = off /\ UNCHANGED fds /\ (wild => wild')
           /\ ino'.size = ino.size /\ ino'.count = ino.count
           /\ \A q \in Procs \ {p} : pc'[q] = pc[q] /\ io'[q] = io[q]
<1>1. /\ pc' = [pc EXCEPT ![p] = "user"] /\ foff' = off /\ UNCHANGED fds /\ (wild => wild')
      /\ ino' = [ino EXCEPT !.lock = FALSE, !.want = FALSE] /\ io' = [io EXCEPT ![p] = NoIO]
  BY DEF ReadDone, Prele, UserMode, SleepAt, Put, counts
<1> QED BY <1>1, Types DEF FileType, PlaceType, LocalType

LEMMA ReadStartStep ==
    ASSUME PipeInv, PipeInv', FifoOK, NEW p \in Procs, ReadStart(p)
    PROVE  FifoStep
<1>1. /\ foff \in 0..PIPSIZ /\ foff \in Nat /\ io[p].cnt \in 0..MaxCount
  BY Types, PipeAssumption DEF FileType, LocalType
<1>2. pc[p] = "read" /\ ~ino.lock /\ UNCHANGED <<data, got>>
  BY DEF ReadStart, At
<1>3. CASE wild'
  BY <1>3, WildStep
<1>4. CASE /\ ReadTurn(p, foff, io[p].cnt)
           /\ ino' = [ino EXCEPT !.lock = TRUE] /\ UNCHANGED wild /\ ~wild'
  <2>1. ino'.size = ino.size /\ ino'.count = ino.count
    BY <1>4, Types DEF FileType
  <2>2. /\ pc'[p] = "rblock" /\ io'[p].off = foff /\ foff + io'[p].n <= ino.size
        /\ \A q \in Procs \ {p} : pc'[q] = pc[q] /\ io'[q] = io[q]
        /\ UNCHANGED <<foff, fds>>
    BY <1>1, <1>4, ReadTurnGives
  <2>3. \A q \in Procs : pc[q] # "rblock"
    BY <1>2, <1>4, NobodyInside
  <2>4. QuietMove(p)
    BY <1>2, <1>4, <2>1, <2>2 DEF QuietMove
  <2> QED BY <2>1, <2>2, <2>3, <2>4, Quiet
<1>5. CASE ReadDone(p, foff, io[p].cnt)
  <2>1. QuietMove(p) /\ pc'[p] = "user"
    BY <1>2, <1>5, ReadDoneGives DEF QuietMove
  <2> QED BY <2>1, Quiet
<1> QED BY <1>3, <1>4, <1>5 DEF ReadStart

\* A reader with the lock takes the oldest bytes.
LEMMA ReadBlockStep ==
    ASSUME PipeInv, PipeInv', FifoOK, NEW p \in Procs, ReadBlock(p)
    PROVE  FifoStep
<1>1. CASE wild'
  BY <1>1, WildStep
<1>2. CASE ~wild'
  <2>1. PICK off, n, cnt, size : /\ off = io[p].off /\ n = io[p].n /\ cnt = io[p].cnt - io[p].n
                                 /\ size = ino.size
    OBVIOUS
  <2>2. /\ pc[p] = "rblock" /\ got' = [k \in 1..n |-> data[off + k - 1]]
        /\ \/ ReadTurn(p, off + n, cnt) /\ UNCHANGED <<ino, wild>>
           \/ ReadDone(p, off + n, cnt)
        /\ data' = [k \in DOMAIN data |-> IF k \in off..(off + n - 1) THEN NoByte ELSE data[k]]
    BY <2>1 DEF ReadBlock, At
  <2>3. ~wild
    BY <1>2, <2>2, ReadDoneGives
  <2>4. /\ foff <= off /\ off + n <= size /\ n \in 1..io[p].cnt
        /\ size \in 0..PIPSIZ /\ off \in 0..PIPSIZ /\ io[p].cnt \in 0..MaxCount
    BY <2>1, <2>2, <2>3, Types DEF FifoOK, PipeInv, TurnOK, FileType, LocalType
  <2>5. /\ off \in 0..size /\ n \in 1..(size - off) /\ off + n \in Nat /\ cnt \in 0..MaxCount
        /\ foff <= off + n /\ foff \in Int
    <3>1. cnt \in 0..MaxCount
      <4>1. PICK c \in 0..MaxCount : c = io[p].cnt
        BY <2>4
      <4>2. n \in 1..c /\ cnt = c - n
        BY <2>1, <2>4, <4>1
      <4> QED BY <4>2, PipeAssumption
    <3>2. n \in Int /\ 1 <= n
      <4>1. PICK c \in 0..MaxCount : c = io[p].cnt
        BY <2>4
      <4> QED BY <2>4, <4>1, PipeAssumption
    <3>3. foff \in Int
      BY Types, PipeAssumption DEF FileType
    <3> QED BY <2>4, <3>1, <3>2, <3>3, PipeAssumption
  <2>6. \A q \in Procs \ {p} : pc[q] \notin {"rblock", "wblock"}
    BY <2>2, <2>3, OnlyHolder DEF Holds
  <2>7. (\A q \in Procs : pc[q] \notin {"pipe", "update"}) /\ ino.count > 0
    BY <2>2, InCall DEF Ending
  <2>8. From = off
    BY <2>1, <2>2, <2>3, PositionHolds DEF Position
  <2>9. data \in Store /\ data' \in Store
    BY DEF PipeInv, TypeOK, Store
  <2>10. \A j \in (off + n)..(PIPSIZ - 1) : data'[j] = data[j]
    <3> TAKE j \in (off + n)..(PIPSIZ - 1)
    <3>1. j \in 0..(PIPSIZ - 1) /\ ~(j \in off..(off + n - 1))
      BY <2>4, <2>5, PipeAssumption
    <3> QED BY <2>2, <2>9, <3>1 DEF Store
  <2>11. /\ From' = off + n /\ FifoOK' /\ ino'.size = size /\ UNCHANGED fds
    <3>1. CASE ReadTurn(p, off + n, cnt) /\ UNCHANGED <<ino, wild>>
      <4>1. /\ pc'[p] = "rblock" /\ io'[p].off = off + n /\ off + n + io'[p].n <= ino.size
            /\ \A q \in Procs \ {p} : pc'[q] = pc[q] /\ io'[q] = io[q]
            /\ UNCHANGED <<foff, fds>>
        BY <2>5, <3>1, ReadTurnGives
      <4>2. From' = off + n
        BY <1>2, <4>1, PositionNext DEF Position
      <4>3. FifoOK'
        <5>1. foff' <= ino'.size /\ ino'.count # 0
          BY <2>1, <2>3, <2>7, <3>1, <4>1 DEF FifoOK
        <5>2. foff' <= io'[p].off /\ io'[p].off + io'[p].n <= ino'.size
          BY <2>5, <3>1, <4>1
        <5>3. \A q \in Procs \ {p} : pc'[q] \notin {"rblock", "wblock", "pipe", "update"}
          BY <2>6, <2>7, <4>1
        <5> QED BY <4>1, <5>1, <5>2, <5>3 DEF FifoOK
      <4> QED BY <2>1, <3>1, <4>1, <4>2, <4>3
    <3>2. CASE ReadDone(p, off + n, cnt)
      <4>1. /\ pc'[p] = "user" /\ foff' = off + n /\ UNCHANGED fds
            /\ ino'.size = ino.size /\ ino'.count = ino.count
            /\ \A q \in Procs \ {p} : pc'[q] = pc[q] /\ io'[q] = io[q]
        BY <3>2, ReadDoneGives
      <4>2. \A q \in Procs : pc'[q] \notin {"rblock", "wblock", "pipe", "update"}
        BY <2>6, <2>7, <4>1
      <4>3. From' = off + n
        BY <1>2, <4>1, <4>2, PositionNext DEF Position
      <4>4. FifoOK'
        BY <2>1, <2>4, <2>7, <4>1, <4>2 DEF FifoOK
      <4> QED BY <2>1, <4>1, <4>3, <4>4
    <3> QED BY <2>2, <3>1, <3>2
  <2>12. queue = Rest(data, off, size) /\ queue' = Rest(data', off + n, size)
    BY <2>1, <2>8, <2>11, QueueIs, QueueNext
  <2>13. /\ n \in 1..Len(queue) /\ got' = SubSeq(queue, 1, n)
         /\ queue' = SubSeq(queue, n + 1, Len(queue))
    <3>1. PICK e \in Store : e = data'
      BY <2>9
    <3>2. \A j \in (off + n)..(PIPSIZ - 1) : e[j] = data[j]
      BY <2>10, <3>1
    <3>3. /\ n \in 1..Len(Rest(data, off, size))
          /\ [k \in 1..n |-> data[off + k - 1]] = SubSeq(Rest(data, off, size), 1, n)
          /\ Rest(e, off + n, size)
               = SubSeq(Rest(data, off, size), n + 1, Len(Rest(data, off, size)))
      <4>1. size \in 0..PIPSIZ /\ off \in 0..size /\ n \in 1..(size - off)
        BY <2>4, <2>5
      <4>2. data \in Store
        BY <2>9
      <4> QED BY <3>1, <3>2, <4>1, <4>2, Taken, ZenonT(60)
    <3>4. queue' = Rest(e, off + n, size) /\ got' = [k \in 1..n |-> data[off + k - 1]]
      BY <2>2, <2>12, <3>1
    <3> QED BY <2>12, <3>3, <3>4, Zenon
  <2>14. inUse' = inUse
    BY <2>11 DEF inUse, Used
  <2>15. Fifo!Get
    BY <2>13, <2>14 DEF Fifo!Get
  <2> QED BY <2>11, <2>15 DEF FifoStep, Fifo!FifoNext
<1> QED BY <1>1, <1>2

\* A writer that gets the lock begins at the end of the file.
LEMMA WriteStartStep ==
    ASSUME PipeInv, PipeInv', FifoOK, NEW p \in Procs, WriteStart(p)
    PROVE  FifoStep
<1>1. PICK cnt : /\ WriteTurn(p, ino.size, cnt) /\ ino' = [ino EXCEPT !.lock = TRUE]
                 /\ pc[p] = "write" /\ UNCHANGED <<data, foff, got, wild>>
  BY DEF WriteStart, At
<1>2. PICK n : /\ io' = [io EXCEPT ![p] = [off |-> ino.size, cnt |-> cnt, n |-> n]]
               /\ pc' = [pc EXCEPT ![p] = "wblock"]
  BY <1>1 DEF WriteTurn, SleepAt, Put
<1>3. /\ pc'[p] = "wblock" /\ io'[p].off = ino.size
      /\ \A q \in Procs \ {p} : pc'[q] = pc[q] /\ io'[q] = io[q]
  BY <1>2, Types DEF PlaceType, LocalType
<1>4. ino'.size = ino.size /\ ino'.count = ino.count
  BY <1>1, Types DEF FileType
<1>5. QuietMove(p)
  BY <1>1, <1>3, <1>4 DEF QuietMove
<1> QED BY <1>3, <1>5, Quiet

\* The last turn of a write, and one that is not.
LEMMA WrittenGives ==
    ASSUME PipeInv, NEW p \in Procs, NEW size, NEW blocks,
           Written(p, [ino EXCEPT !.size = size, !.blocks = blocks])
    PROVE  /\ ino'.size = size /\ ino'.count = ino.count /\ pc'[p] = "write"
           /\ \A q \in Procs \ {p} : pc'[q] = pc[q] /\ io'[q] = io[q]
           /\ (wild => wild')
<1>1. /\ ino' = [[[ino EXCEPT !.size = size, !.blocks = blocks] EXCEPT !.iread = FALSE]
                   EXCEPT !.lock = FALSE, !.want = FALSE]
      /\ pc' = [pc EXCEPT ![p] = "write"] /\ io' = [io EXCEPT ![p] = NoIO]
      /\ (wild => wild')
  BY DEF Written, Prele, GoOn, Put
<1> QED BY <1>1, Types DEF FileType, PlaceType, LocalType

LEMMA WriteTurnGives ==
    ASSUME PipeInv, NEW p \in Procs, NEW size, NEW blocks, NEW off, NEW cnt,
           WriteTurn(p, off, cnt), ino' = [ino EXCEPT !.size = size, !.blocks = blocks]
    PROVE  /\ ino'.size = size /\ ino'.count = ino.count
           /\ pc'[p] = "wblock" /\ io'[p].off = off
           /\ \A q \in Procs \ {p} : pc'[q] = pc[q] /\ io'[q] = io[q]
<1>1. PICK n : /\ io' = [io EXCEPT ![p] = [off |-> off, cnt |-> cnt, n |-> n]]
               /\ pc' = [pc EXCEPT ![p] = "wblock"]
  BY DEF WriteTurn, SleepAt, Put
<1> QED BY <1>1, Types DEF FileType, PlaceType, LocalType

\* A writer with the lock adds its bytes at the end of the file.
LEMMA WriteBlockStep ==
    ASSUME PipeInv, PipeInv', FifoOK, NEW p \in Procs, WriteBlock(p)
    PROVE  FifoStep
<1> DEFINE e == [ino EXCEPT !.size = Max({ino.size, io[p].off + io[p].n}),
                            !.blocks = Max({ino.blocks, io[p].off \div Block + 1})]
<1>1. PICK s \in [1..io[p].n -> Bytes] :
        /\ At(p, "wblock")
        /\ /\ data' = [k \in DOMAIN data |-> IF k \in io[p].off..((io[p].off + io[p].n) - 1)
                                             THEN s[k - io[p].off + 1] ELSE data[k]]
           /\ IF io[p].cnt > io[p].n
              THEN /\ WriteTurn(p, io[p].off + io[p].n, io[p].cnt - io[p].n)
                   /\ ino' = e
                   /\ UNCHANGED <<chan, wild>>
              ELSE Written(p, e)
        /\ UNCHANGED <<foff, counts, end, left, err, got>>
  BY Zenon DEF WriteBlock
<1>2. PICK off, cnt, n : off = io[p].off /\ cnt = io[p].cnt /\ n = io[p].n
  OBVIOUS
<1>3. PICK size, blocks : /\ size = Max({ino.size, off + n})
                          /\ blocks = Max({ino.blocks, off \div Block + 1})
  OBVIOUS
<1>4. e = [ino EXCEPT !.size = size, !.blocks = blocks]
  BY <1>2, <1>3
<1> HIDE DEF e
<1>5. /\ pc[p] = "wblock" /\ UNCHANGED <<foff, fds, got>>
      /\ \/ WriteTurn(p, off + n, cnt - n) /\ ino' = e /\ UNCHANGED wild
         \/ Written(p, e)
      /\ data' = [k \in DOMAIN data |-> IF k \in off..((off + n) - 1)
                                        THEN s[k - off + 1] ELSE data[k]]
      /\ s \in [1..n -> Bytes]
  BY <1>1, <1>2 DEF At, counts
<1>6. CASE wild'
  BY <1>6, WildStep
<1>7. CASE ~wild'
  <2>1. /\ ino'.size = size /\ ino'.count = ino.count /\ ~wild
        /\ pc'[p] \in {"write", "wblock"} /\ (pc'[p] = "wblock" => io'[p].off = off + n)
        /\ \A q \in Procs \ {p} : pc'[q] = pc[q] /\ io'[q] = io[q]
    <3>1. CASE WriteTurn(p, off + n, cnt - n) /\ ino' = e /\ UNCHANGED wild
      <4>1. ino' = [ino EXCEPT !.size = size, !.blocks = blocks]
        BY <1>4, <3>1
      <4>2. PICK z : z = off + n
        OBVIOUS
      <4>3. WriteTurn(p, z, cnt - n)
        BY <3>1, <4>2
      <4>4. PICK c : c = cnt - n
        OBVIOUS
      <4>5. WriteTurn(p, z, c)
        BY <4>3, <4>4
      <4>6. /\ ino'.size = size /\ ino'.count = ino.count
            /\ pc'[p] = "wblock" /\ io'[p].off = z
            /\ \A q \in Procs \ {p} : pc'[q] = pc[q] /\ io'[q] = io[q]
        BY <4>1, <4>5, WriteTurnGives
      <4> QED BY <1>7, <3>1, <4>2, <4>6
    <3>2. CASE Written(p, e)
      BY <1>4, <1>7, <3>2, WrittenGives
    <3> QED BY <1>5, <3>1, <3>2
  <2>2. /\ off = ino.size /\ foff <= off /\ n \in 1..cnt /\ off + n <= PIPSIZ
        /\ off \in 0..PIPSIZ /\ foff \in 0..PIPSIZ /\ cnt \in 0..MaxCount
    BY <1>2, <1>5, <2>1, Types DEF FifoOK, PipeInv, TurnOK, FileType, LocalType
  <2>3. /\ n \in Int /\ 1 <= n /\ off \in Int /\ foff \in Int /\ 0 <= off /\ 0 <= foff
        /\ off + n <= PIPSIZ /\ foff <= off /\ PIPSIZ \in Int
    <3>1. PICK c \in 0..MaxCount : c = cnt
      BY <2>2
    <3> QED BY <2>2, <3>1, PipeAssumption
  <2>4. size = off + n
    <3>1. off + n \in Int /\ ino.size \in Int /\ ino.size <= off + n
      BY <2>2, <2>3
    <3> QED BY <1>3, <3>1, MaxOf
  <2>5. \A q \in Procs \ {p} : pc[q] \notin {"rblock", "wblock"}
    BY <1>5, <2>1, OnlyHolder DEF Holds
  <2>6. (\A q \in Procs : pc[q] \notin {"pipe", "update"}) /\ ino.count > 0
    BY <1>5, InCall DEF Ending
  <2>7. \A q \in Procs : pc[q] # "rblock" /\ pc'[q] # "rblock"
    BY <1>5, <2>1, <2>5
  <2>8. From = foff /\ From' = foff
    BY <1>5, <1>7, <2>1, <2>7, PositionHolds, PositionNext DEF Position
  <2>9. FifoOK'
    <3>1. foff' <= ino'.size
      BY <1>5, <2>1, <2>2, <2>3, <2>4
    <3>2. \A q \in Procs : pc'[q] = "wblock" => io'[q].off = ino'.size
      BY <2>1, <2>4, <2>5
    <3>3. ino'.count # 0 /\ \A q \in Procs : pc'[q] \notin {"pipe", "update"}
      BY <2>1, <2>6
    <3> QED BY <2>7, <3>1, <3>2, <3>3 DEF FifoOK
  <2>10. data \in Store /\ data' \in Store
    BY DEF PipeInv, TypeOK, Store
  <2>11. PICK d \in Store : d = data'
    BY <2>10
  <2>12. \A j \in 0..(off - 1) : d[j] = data[j]
    <3> TAKE j \in 0..(off - 1)
    <3>1. j \in 0..(PIPSIZ - 1) /\ ~(j \in off..((off + n) - 1))
      BY <2>2, <2>3, PipeAssumption
    <3> QED BY <1>5, <2>10, <2>11, <3>1 DEF Store
  <2>13. \A j \in 1..n : d[off + j - 1] = s[j]
    <3> TAKE j \in 1..n
    <3>1. PICK k : k = off + j - 1
      OBVIOUS
    <3>2. k \in 0..(PIPSIZ - 1) /\ k \in off..((off + n) - 1) /\ k - off + 1 = j
      BY <2>3, <3>1
    <3>3. d[k] = s[k - off + 1]
      BY <1>5, <2>10, <2>11, <3>2 DEF Store
    <3> QED BY <3>1, <3>2, <3>3
  <2>14. n \in 1..(PIPSIZ - off) /\ foff \in 0..off
    BY <2>3
  <2>15. /\ n \in 1..(PIPSIZ - Len(Rest(data, foff, off)))
         /\ Rest(d, foff, off + n) = Rest(data, foff, off) \o s
    <3>1. off \in 0..PIPSIZ
      BY <2>2
    <3>2. s \in [1..n -> Bytes] /\ data \in Store
      BY <1>5, <2>10
    <3> QED BY <2>11, <2>12, <2>13, <2>14, <3>1, <3>2, Added, Zenon
  <2>16. queue = Rest(data, foff, off) /\ queue' = Rest(d, foff, off + n)
    BY <2>1, <2>2, <2>4, <2>8, <2>11, QueueIs, QueueNext
  <2>17. n \in 1..(PIPSIZ - Len(queue)) /\ queue' = queue \o s
    BY <2>15, <2>16, Zenon
  <2>18. inUse' = inUse
    BY <1>5 DEF inUse, Used
  <2>19. Fifo!Put
    BY <1>5, <2>17, <2>18 DEF Fifo!Put
  <2> QED BY <2>9, <2>19 DEF FifoStep, Fifo!FifoNext
<1> QED BY <1>6, <1>7

LEMMA FifoMove ==
    ASSUME PipeInv, PipeInv', FifoOK, NEW p \in Procs, Move(p)
    PROVE  FifoStep
<1>1. 0 \in 0..MaxCount
  BY PipeAssumption
<1> QED BY <1>1, QuietActions, MakeAndTruncate, EmptyActions, ReadStartStep, ReadBlockStep,
           WriteStartStep, WriteBlockStep DEF Move

LEMMA FifoCall ==
    ASSUME PipeInv, PipeInv', FifoOK, NEW p \in Procs, Call(p)
    PROVE  FifoStep
<1>1. 0 \in 0..MaxCount
  BY PipeAssumption
<1> QED BY <1>1, QuietActions, ForkAndNeighbour, MakeAndTruncate DEF Call

\* A step of the pipe is a step of the queue, or leaves it as it is.
LEMMA FifoNextKeeps == FifoInv /\ [Next]_vars => FifoInv' /\ FifoStep
<1> SUFFICES ASSUME FifoInv, [Next]_vars  PROVE PipeInv' /\ FifoStep
  BY DEF FifoInv, FifoStep
<1>1. PipeInv /\ FifoOK /\ PipeInv'
  BY PipeNext DEF FifoInv
<1>2. 0 \in 0..MaxCount
  BY PipeAssumption
<1>3. CASE UNCHANGED vars
  <2>1. UNCHANGED <<queue, got, inUse>>
    BY <1>3 DEF vars, file, counts, locals, queue, From, inUse, Used
  <2>2. FifoOK'
    BY <1>1, <1>3 DEF vars, file, counts, locals, FifoOK
  <2> QED BY <1>1, <2>1, <2>2 DEF FifoStep
<1>4. CASE Neighbour
  BY <1>1, <1>4, ForkAndNeighbour
<1>5. ASSUME NEW p \in Procs, Call(p)  PROVE FifoStep
  BY <1>1, <1>5, FifoCall
<1>6. ASSUME NEW p \in Procs, Move(p)  PROVE FifoStep
  BY <1>1, <1>6, FifoMove
<1>7. ASSUME NEW p \in Procs, Signal(p)  PROVE FifoStep
  BY <1>1, <1>2, <1>7, QuietActions
<1>8. ASSUME NEW p \in Procs, NEW n \in 0..MaxCount, Read(p, n)  PROVE FifoStep
  BY <1>1, <1>8, QuietActions
<1> QED BY <1>1, <1>3, <1>4, <1>5, <1>6, <1>7, <1>8 DEF Next

LEMMA FifoStart == Init => FifoInv /\ Fifo!FifoInit
<1> SUFFICES ASSUME Init  PROVE FifoInv /\ Fifo!FifoInit
  OBVIOUS
<1>1. PipeInv
  BY PipeInit
<1>2. /\ ino.size = 0 /\ foff = 0 /\ ~wild /\ got = << >>
      /\ \A p \in Procs : pc[p] \in {"user", "none"} /\ \A e \in Ends : fds[p][e] = 0
  BY DEF Init, NoPipe
<1>3. FifoOK
  BY <1>2 DEF FifoOK
<1>4. From = foff
  BY <1>1, <1>2, PositionHolds DEF Position
<1>5. queue = << >>
  <2>1. data \in Store /\ foff \in 0..PIPSIZ /\ foff = ino.size
    BY <1>1, <1>2 DEF PipeInv, TypeOK, Store
  <2>2. queue = Rest(data, foff, foff)
    BY <1>4, <2>1, QueueIs
  <2> QED BY <2>1, <2>2, RestEmpty
<1>6. inUse = FALSE
  BY <1>2 DEF inUse, Used, Ends
<1> QED BY <1>1, <1>2, <1>3, <1>5, <1>6 DEF FifoInv, Fifo!FifoInit

\* As long as no close has cleared the lock, the reader and the writer with the lock are
\* where f_offset and the size of the file say, whatever turns they have taken (ReadP,
\* WriteP, ReadI, WriteI).
THEOREM FifoInvariance == Spec => []FifoInv
<1>1. FifoInv /\ [Next]_vars => FifoInv'
  BY FifoNextKeeps
<1> QED BY <1>1, FifoStart, PTL DEF Spec

\* A pipe is a bounded first-in first-out queue of bytes, as long as no close has cleared
\* its lock: each turn of ReadI takes the oldest bytes, each of WriteI adds to the newest
\* ones while there is room, and no signal, fork, close or sync moves a byte (ReadP, WriteP,
\* ReadI, WriteI, Clone, CloseF, IPut, ITrunc).
THEOREM IsFifoHolds == Spec => IsFifo
<1>1. FifoInv /\ [Next]_vars => FifoInv' /\ [wild' \/ Fifo!FifoNext]_<<queue, got, inUse>>
  BY FifoNextKeeps DEF FifoStep
<1> QED BY <1>1, FifoStart, PTL DEF Spec, IsFifo

===============================================================================
