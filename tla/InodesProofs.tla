------------------------------ MODULE InodesProofs ------------------------------
(*****************************************************************************)
(* The table of inodes in core, for any number of processes, entries and     *)
(* inodes, with crashes, failing reads and Update:                           *)
(*   - RefInv of Inodes: one copy of an inode and exact reference counts;    *)
(*   - WorkInv: until an entry is given up while Update writes it, every     *)
(*     process works on its inode;                                           *)
(*   - AliveInv: until then, or until an inode in use is freed because it    *)
(*     could not be read, a name leads to an inode in use, and no inode is   *)
(*     given out twice.                                                      *)
(*****************************************************************************)
EXTENDS Inodes, FiniteSetTheorems, SequenceTheorems, WellFoundedInduction, TLAPS

Fields == {"num", "count", "lock", "want", "upd", "mode", "nlink"}

\* One reference if p uses the entry, none if not.
Ref(uses) == IF uses THEN 1 ELSE 0

\* Only p moves.
Alone(p) ==
    /\ DOMAIN pc' = Procs /\ DOMAIN call' = Procs
    /\ DOMAIN sl' = Procs /\ DOMAIN back' = Procs
    /\ \A q \in Procs \ {p} : /\ pc'[q] = pc[q] /\ call'[q] = call[q]
                              /\ sl'[q] = sl[q] /\ back'[q] = back[q]

\* The table has the same entries, of the same inodes and with the same counts.
SameEntries ==
    /\ DOMAIN slot' = Slots
    /\ \A t \in Slots : /\ DOMAIN (slot'[t]) = Fields
                        /\ slot'[t].num = slot[t].num
                        /\ slot'[t].count = slot[t].count

\* Only the entry s differs.
OnlyEntry(s) ==
    /\ DOMAIN slot' = Slots
    /\ DOMAIN (slot'[s]) = Fields
    /\ \A t \in Slots \ {s} : slot'[t] = slot[t]

-----------------------------------------------------------------------------
\* The users of an entry after a step of p are those before it, with or without p.
LEMMA UsersChange ==
    ASSUME NEW p \in Procs, NEW s \in Slots, PlacesOK, Alone(p)
    PROVE  /\ Cardinality(Users(s)) \in Nat
           /\ Cardinality(Users(s)') =
                  Cardinality(Users(s)) + Ref(Uses(p, s)') - Ref(Uses(p, s))
<1> DEFINE before == Users(s)
           after  == Users(s)'
<1>1. IsFiniteSet(Procs) /\ before \subseteq Procs /\ after \subseteq Procs
  BY InodesAssumption DEF Users
<1>2. /\ IsFiniteSet(before) /\ IsFiniteSet(after)
      /\ Cardinality(before) \in Nat /\ Cardinality(after) \in Nat
  BY <1>1, FS_Subset, FS_CardinalityType
<1>3. \A q \in Procs \ {p} : q \in before <=> q \in after
  BY DEF Users, Uses, Alone
<1>4. (p \in before <=> Uses(p, s)) /\ (p \in after <=> Uses(p, s)')
  BY DEF Users, Uses
<1>5. CASE Uses(p, s) /\ Uses(p, s)'
  <2>1. before = after
    BY <1>1, <1>3, <1>4, <1>5
  <2> QED BY <1>2, <1>5, <2>1 DEF Ref
<1>6. CASE ~Uses(p, s) /\ ~Uses(p, s)'
  <2>1. before = after
    BY <1>1, <1>3, <1>4, <1>6
  <2> QED BY <1>2, <1>6, <2>1 DEF Ref
<1>7. CASE Uses(p, s) /\ ~Uses(p, s)'
  <2>1. after = before \ {p} /\ p \in before
    BY <1>1, <1>3, <1>4, <1>7
  <2>2. Cardinality(after) = Cardinality(before) - 1
    BY <1>2, <2>1, FS_RemoveElement
  <2> QED BY <1>2, <1>7, <2>2 DEF Ref
<1>8. CASE ~Uses(p, s) /\ Uses(p, s)'
  <2>1. after = before \cup {p} /\ p \notin before
    BY <1>1, <1>3, <1>4, <1>8
  <2>2. Cardinality(after) = Cardinality(before) + 1
    BY <1>2, <2>1, FS_AddElement
  <2> QED BY <1>2, <1>8, <2>2 DEF Ref
<1> QED BY <1>5, <1>6, <1>7, <1>8

\* No count is negative.
LEMMA CountsNatural ==
    ASSUME RefInv
    PROVE  \A s \in Slots : slot[s].count \in Nat /\ slot[s].count >= files[s]
<1> SUFFICES ASSUME NEW s \in Slots
             PROVE  slot[s].count \in Nat /\ slot[s].count >= files[s]
  OBVIOUS
<1>1. Users(s) \subseteq Procs /\ IsFiniteSet(Procs)
  BY InodesAssumption DEF Users
<1>2. Cardinality(Users(s)) \in Nat
  BY <1>1, FS_Subset, FS_CardinalityType
<1>3. slot[s].count = files[s] + Cardinality(Users(s)) /\ files[s] \in Nat
  BY DEF RefInv, RefCounts, EntriesOK
<1> QED BY <1>2, <1>3

\* What a step of p has to show to keep the invariant: its place, the entries, and
\* that it changes a count by what it changes in files and users.
LEMMA BalancedStep ==
    ASSUME RefInv, NEW p \in Procs, Alone(p), PlaceOK(p)', EntriesOK', OneCopy',
           \A t \in Slots : slot'[t].count - slot[t].count =
               files'[t] - files[t] + Ref(Uses(p, t)') - Ref(Uses(p, t))
    PROVE  RefInv'
<1>1. PlacesOK'
  BY DEF RefInv, PlacesOK, PlaceOK, Alone
<1>2. RefCounts'
  <2> SUFFICES ASSUME NEW s \in Slots
               PROVE  slot'[s].count = files'[s] + Cardinality(Users(s)')
    BY DEF RefCounts
  <2>1. /\ Cardinality(Users(s)) \in Nat
        /\ Cardinality(Users(s)') =
               Cardinality(Users(s)) + Ref(Uses(p, s)') - Ref(Uses(p, s))
    BY UsersChange DEF RefInv
  <2>2. slot[s].count = files[s] + Cardinality(Users(s))
    BY DEF RefInv, RefCounts
  <2>3. /\ slot[s].count \in Int /\ slot'[s].count \in Int
        /\ files[s] \in Nat /\ files'[s] \in Nat
    BY DEF RefInv, EntriesOK
  <2>4. Ref(Uses(p, s)) \in {0, 1} /\ Ref(Uses(p, s)') \in {0, 1}
    BY DEF Ref
  <2>5. slot'[s].count - slot[s].count =
            files'[s] - files[s] + Ref(Uses(p, s)') - Ref(Uses(p, s))
    OBVIOUS
  <2>6. ASSUME NEW c \in Int, NEW d \in Int, NEW f \in Int, NEW g \in Int,
               NEW m \in Int, NEW n \in Int, NEW r \in Int, NEW q \in Int,
               d - c = g - f + r - q, c = f + m, n = m + r - q
        PROVE  d = g + n
    BY <2>6
  <2> QED BY <2>1, <2>2, <2>3, <2>4, <2>5, <2>6
<1> QED BY <1>1, <1>2 DEF RefInv

\* A step that changes no count, no inode number and no file.
LEMMA Quiet ==
    ASSUME RefInv, NEW p \in Procs, Alone(p), PlaceOK(p)', SameEntries, files' = files,
           \A t \in Slots : Uses(p, t)' <=> Uses(p, t)
    PROVE  RefInv'
<1>1. EntriesOK' /\ OneCopy'
  BY DEF RefInv, EntriesOK, SameEntries, OneCopy, Fields
<1>2. \A t \in Slots : slot'[t].count - slot[t].count =
          files'[t] - files[t] + Ref(Uses(p, t)') - Ref(Uses(p, t))
  BY DEF RefInv, EntriesOK, SameEntries, Ref
<1> QED BY <1>1, <1>2, BalancedStep

\* A step that takes or gives back one reference to the entry s, which keeps its
\* number or loses it.
LEMMA Count ==
    ASSUME RefInv, NEW p \in Procs, NEW s \in Slots, Alone(p), PlaceOK(p)',
           OnlyEntry(s), files' \in [Slots -> Nat], slot'[s].count \in Int,
           slot'[s].num = slot[s].num \/ slot'[s].num = NoIno,
           slot'[s].count > 0 => slot[s].count > 0,
           slot'[s].count - slot[s].count =
               files'[s] - files[s] + Ref(Uses(p, s)') - Ref(Uses(p, s)),
           \A t \in Slots \ {s} : files'[t] = files[t] /\ (Uses(p, t)' <=> Uses(p, t))
    PROVE  RefInv'
<1>1. EntriesOK'
  BY DEF RefInv, EntriesOK, OnlyEntry, Fields
<1>2. OneCopy'
  <2> SUFFICES ASSUME NEW t \in Slots, NEW u \in Slots,
                      slot'[t].count > 0, slot'[u].count > 0,
                      slot'[t].num = slot'[u].num, slot'[t].num # NoIno
               PROVE  t = u
    BY DEF OneCopy
  <2>1. /\ slot[t].count > 0 /\ slot[u].count > 0
        /\ slot[t].num = slot'[t].num /\ slot[u].num = slot'[u].num
    BY DEF OnlyEntry
  <2> QED BY <2>1 DEF RefInv, OneCopy
<1>3. \A t \in Slots : slot'[t].count - slot[t].count =
          files'[t] - files[t] + Ref(Uses(p, t)') - Ref(Uses(p, t))
  <2>1. ASSUME NEW t \in Slots \ {s}
        PROVE  slot'[t].count - slot[t].count =
                   files'[t] - files[t] + Ref(Uses(p, t)') - Ref(Uses(p, t))
    <3>1. slot'[t] = slot[t] /\ files'[t] = files[t] /\ slot[t].count \in Int
          /\ files[t] \in Nat /\ (Uses(p, t)' <=> Uses(p, t))
      BY DEF RefInv, EntriesOK, OnlyEntry
    <3> QED BY <3>1 DEF Ref
  <2> QED BY <2>1
<1> QED BY <1>1, <1>2, <1>3, BalancedStep

-----------------------------------------------------------------------------
\* The actions

LEMMA NoEntry == 0 \notin Slots
  BY DEF Slots

\* A call begins; the process has no entry yet.
LEMMA CallsKeep ==
    ASSUME RefInv, NEW p \in Procs,
           Open(p) \/ UnLink(p) \/ Creat(p) \/ Sync(p)
    PROVE  RefInv'
<1>1. CASE Open(p)
  <2>1. Alone(p) /\ PlaceOK(p)' /\ \A t \in Slots : Uses(p, t)' <=> Uses(p, t)
    BY <1>1, NoEntry DEF Open, Enters, GoOn, SleepAt, locals,
       At, Put, Alone, PlaceOK, Uses, RefInv, PlacesOK
  <2>2. SameEntries /\ files' = files
    BY <1>1 DEF Open, SameEntries, RefInv, EntriesOK, Fields
  <2> QED BY <2>1, <2>2, Quiet
<1>2. CASE UnLink(p)
  <2>1. Alone(p) /\ PlaceOK(p)' /\ \A t \in Slots : Uses(p, t)' <=> Uses(p, t)
    BY <1>2, NoEntry DEF UnLink, Enters, GoOn, locals,
       At, Put, Alone, PlaceOK, Uses, RefInv, PlacesOK
  <2>2. SameEntries /\ files' = files
    BY <1>2 DEF UnLink, SameEntries, RefInv, EntriesOK, Fields
  <2> QED BY <2>1, <2>2, Quiet
<1>3. CASE Creat(p)
  <2>1. Alone(p) /\ PlaceOK(p)' /\ \A t \in Slots : Uses(p, t)' <=> Uses(p, t)
    BY <1>3, NoEntry DEF Creat, Enters, SleepAt, locals,
       At, Put, Alone, PlaceOK, Uses, RefInv, PlacesOK
  <2>2. SameEntries /\ files' = files
    BY <1>3 DEF Creat, SameEntries, RefInv, EntriesOK, Fields
  <2> QED BY <2>1, <2>2, Quiet
<1>4. CASE Sync(p)
  <2>1. Alone(p) /\ PlaceOK(p)' /\ \A t \in Slots : Uses(p, t)' <=> Uses(p, t)
    BY <1>4, NoEntry DEF Sync, Enters, GoOn, SleepAt,
       At, Put, Alone, PlaceOK, Uses, RefInv, PlacesOK
  <2>2. SameEntries /\ files' = files
    BY <1>4 DEF Sync, SameEntries, RefInv, EntriesOK, Fields
  <2> QED BY <2>1, <2>2, Quiet
<1> QED BY <1>1, <1>2, <1>3, <1>4

\* IGet sleeps, fails, or reads the inode.
LEMMA IGetKeeps ==
    ASSUME RefInv, NEW p \in Procs,
           IGetWait(p) \/ IGetFull(p) \/ ICopy(p) \/ IGetError(p)
    PROVE  RefInv'
<1>1. CASE IGetWait(p)
  <2>1. Alone(p) /\ PlaceOK(p)' /\ \A t \in Slots : Uses(p, t)' <=> Uses(p, t)
    BY <1>1, NoEntry DEF IGetWait, SleepAt, locals,
       At, Put, Alone, PlaceOK, Uses, RefInv, PlacesOK
  <2>2. SameEntries /\ files' = files
    BY <1>1 DEF IGetWait, SameEntries, RefInv, EntriesOK, Fields
  <2> QED BY <2>1, <2>2, Quiet
<1>2. CASE IGetFull(p)
  <2>1. Alone(p) /\ PlaceOK(p)' /\ \A t \in Slots : Uses(p, t)' <=> Uses(p, t)
    BY <1>2, NoEntry DEF IGetFull, UserMode, SleepAt,
       At, Put, Alone, PlaceOK, Uses, RefInv, PlacesOK
  <2>2. SameEntries /\ files' = files
    BY <1>2 DEF IGetFull, SameEntries, RefInv, EntriesOK, Fields
  <2> QED BY <2>1, <2>2, Quiet
<1>3. CASE ICopy(p)
  <2>1. Alone(p) /\ PlaceOK(p)' /\ \A t \in Slots : Uses(p, t)' <=> Uses(p, t)
    BY <1>3, NoEntry DEF ICopy, Arrive, GoOn, SleepAt, locals,
       At, Put, Alone, PlaceOK, Uses, RefInv, PlacesOK
  <2>2. SameEntries /\ files' = files
    BY <1>3 DEF ICopy, At, PlaceOK, PlacesOK, SameEntries, RefInv, EntriesOK, Fields
  <2> QED BY <2>1, <2>2, Quiet
<1>4. CASE IGetError(p)
  <2>1. Alone(p) /\ PlaceOK(p)' /\ \A t \in Slots : Uses(p, t)' <=> Uses(p, t)
    BY <1>4, NoEntry DEF IGetError, GoOn, locals,
       At, Put, Alone, PlaceOK, Uses, RefInv, PlacesOK
  <2>2. SameEntries /\ files' = files
    BY <1>4 DEF IGetError, SameEntries, RefInv, EntriesOK, Fields
  <2> QED BY <2>1, <2>2, Quiet
<1> QED BY <1>1, <1>2, <1>3, <1>4

\* The caller works on the inode it has locked.
LEMMA CallerKeeps ==
    ASSUME RefInv, NEW p \in Procs,
           WriteDir(p) \/ Open1Denied(p) \/ Open1Full(p) \/ Unlinked(p)
    PROVE  RefInv'
<1>1. CASE WriteDir(p)
  <2>1. Alone(p) /\ PlaceOK(p)' /\ \A t \in Slots : Uses(p, t)' <=> Uses(p, t)
    BY <1>1, NoEntry DEF WriteDir, GoOn, SleepAt, locals,
       At, Put, Alone, PlaceOK, Uses, RefInv, PlacesOK
  <2>2. SameEntries /\ files' = files
    BY <1>1 DEF WriteDir, SameEntries, RefInv, EntriesOK, Fields
  <2> QED BY <2>1, <2>2, Quiet
<1>2. CASE Open1Denied(p)
  <2>1. Alone(p) /\ PlaceOK(p)' /\ \A t \in Slots : Uses(p, t)' <=> Uses(p, t)
    BY <1>2, NoEntry DEF Open1Denied, GoOn, locals,
       At, Put, Alone, PlaceOK, Uses, RefInv, PlacesOK
  <2>2. SameEntries /\ files' = files
    BY <1>2 DEF Open1Denied, SameEntries, RefInv, EntriesOK, Fields
  <2> QED BY <2>1, <2>2, Quiet
<1>3. CASE Open1Full(p)
  <2>1. Alone(p) /\ PlaceOK(p)' /\ \A t \in Slots : Uses(p, t)' <=> Uses(p, t)
    BY <1>3, NoEntry DEF Open1Full, GoOn, locals,
       At, Put, Alone, PlaceOK, Uses, RefInv, PlacesOK
  <2>2. SameEntries /\ files' = files
    BY <1>3 DEF Open1Full, At, PlaceOK, PlacesOK, Prele, SameEntries, RefInv, EntriesOK, Fields
  <2> QED BY <2>1, <2>2, Quiet
<1>4. CASE Unlinked(p)
  <2>1. Alone(p) /\ PlaceOK(p)' /\ \A t \in Slots : Uses(p, t)' <=> Uses(p, t)
    BY <1>4, NoEntry DEF Unlinked, GoOn, SleepAt, locals,
       At, Put, Alone, PlaceOK, Uses, RefInv, PlacesOK
  <2>2. SameEntries /\ files' = files
    BY <1>4 DEF Unlinked, At, PlaceOK, PlacesOK, SameEntries, RefInv, EntriesOK, Fields
  <2> QED BY <2>1, <2>2, Quiet
<1> QED BY <1>1, <1>2, <1>3, <1>4

\* IPut before it gives up the entry.
LEMMA IPutKeeps ==
    ASSUME RefInv, NEW p \in Procs,
           IPutTrunc(p) \/ IPutUpdate(p) \/ Truncated(p) \/ IUpdate(p)
    PROVE  RefInv'
<1>1. CASE IPutTrunc(p)
  <2>1. Alone(p) /\ PlaceOK(p)' /\ \A t \in Slots : Uses(p, t)' <=> Uses(p, t)
    BY <1>1, NoEntry DEF IPutTrunc, AtIPut, SleepAt, locals,
       At, Put, Alone, PlaceOK, Uses, RefInv, PlacesOK
  <2>2. SameEntries /\ files' = files
    BY <1>1 DEF IPutTrunc, AtIPut, At, PlaceOK, PlacesOK, SameEntries, RefInv, EntriesOK, Fields
  <2> QED BY <2>1, <2>2, Quiet
<1>2. CASE IPutUpdate(p)
  <2>1. Alone(p) /\ PlaceOK(p)' /\ \A t \in Slots : Uses(p, t)' <=> Uses(p, t)
    BY <1>2, NoEntry DEF IPutUpdate, AtIPut, SleepAt,
       At, Put, Alone, PlaceOK, Uses, RefInv, PlacesOK
  <2>2. SameEntries /\ files' = files
    BY <1>2 DEF IPutUpdate, AtIPut, At, PlaceOK, PlacesOK, SameEntries, RefInv, EntriesOK, Fields
  <2> QED BY <2>1, <2>2, Quiet
<1>3. CASE Truncated(p)
  <2>1. Alone(p) /\ PlaceOK(p)' /\ \A t \in Slots : Uses(p, t)' <=> Uses(p, t)
    BY <1>3, NoEntry DEF Truncated, SleepAt,
       At, Put, Alone, PlaceOK, Uses, RefInv, PlacesOK
  <2>2. SameEntries /\ files' = files
    BY <1>3 DEF Truncated, At, PlaceOK, PlacesOK, SameEntries, RefInv, EntriesOK, Fields
  <2> QED BY <2>1, <2>2, Quiet
<1>4. CASE IUpdate(p)
  <2>1. Alone(p) /\ PlaceOK(p)' /\ \A t \in Slots : Uses(p, t)' <=> Uses(p, t)
    BY <1>4, NoEntry DEF IUpdate, SleepAt, locals,
       At, Put, Alone, PlaceOK, Uses, RefInv, PlacesOK
  <2>2. SameEntries /\ files' = files
    BY <1>4 DEF IUpdate, SameEntries, RefInv, EntriesOK, Fields
  <2> QED BY <2>1, <2>2, Quiet
<1> QED BY <1>1, <1>2, <1>3, <1>4

\* IAlloc: the list and the search.
LEMMA IAllocKeeps ==
    ASSUME RefInv, NEW p \in Procs,
           IAllocWait(p) \/ IAllocSearch(p) \/ IAllocBlock(p) \/ IAllocFound(p)
           \/ IAllocTake(p) \/ IAllocOutside(p) \/ IAllocFree(p) \/
           IAllocOccupied(p)
    PROVE  RefInv'
<1>1. CASE IAllocWait(p)
  <2>1. Alone(p) /\ PlaceOK(p)' /\ \A t \in Slots : Uses(p, t)' <=> Uses(p, t)
    BY <1>1, NoEntry DEF IAllocWait, SleepAt, locals,
       At, Put, Alone, PlaceOK, Uses, RefInv, PlacesOK
  <2>2. SameEntries /\ files' = files
    BY <1>1 DEF IAllocWait, SameEntries, RefInv, EntriesOK, Fields
  <2> QED BY <2>1, <2>2, Quiet
<1>2. CASE IAllocSearch(p)
  <2>1. Alone(p) /\ PlaceOK(p)' /\ \A t \in Slots : Uses(p, t)' <=> Uses(p, t)
    BY <1>2, NoEntry DEF IAllocSearch, SleepAt,
       At, Put, Alone, PlaceOK, Uses, RefInv, PlacesOK
  <2>2. SameEntries /\ files' = files
    BY <1>2 DEF IAllocSearch, SameEntries, RefInv, EntriesOK, Fields
  <2> QED BY <2>1, <2>2, Quiet
<1>3. CASE IAllocBlock(p)
  <2>1. Alone(p) /\ PlaceOK(p)' /\ \A t \in Slots : Uses(p, t)' <=> Uses(p, t)
    BY <1>3, NoEntry DEF IAllocBlock, SleepAt,
       At, Put, Alone, PlaceOK, Uses, RefInv, PlacesOK
  <2>2. SameEntries /\ files' = files
    BY <1>3 DEF IAllocBlock, SameEntries, RefInv, EntriesOK, Fields
  <2> QED BY <2>1, <2>2, Quiet
<1>4. CASE IAllocFound(p)
  <2>1. Alone(p) /\ PlaceOK(p)' /\ \A t \in Slots : Uses(p, t)' <=> Uses(p, t)
    BY <1>4, NoEntry DEF IAllocFound, UserMode, GoOn, SleepAt, locals,
       At, Put, Alone, PlaceOK, Uses, RefInv, PlacesOK
  <2>2. SameEntries /\ files' = files
    BY <1>4 DEF IAllocFound, SameEntries, RefInv, EntriesOK, Fields
  <2> QED BY <2>1, <2>2, Quiet
<1>5. CASE IAllocTake(p)
  <2>1. Alone(p) /\ PlaceOK(p)' /\ \A t \in Slots : Uses(p, t)' <=> Uses(p, t)
    BY <1>5, NoEntry DEF IAllocTake, GoOn,
       At, Put, Alone, PlaceOK, Uses, RefInv, PlacesOK
  <2>2. SameEntries /\ files' = files
    BY <1>5 DEF IAllocTake, SameEntries, RefInv, EntriesOK, Fields
  <2> QED BY <2>1, <2>2, Quiet
<1>6. CASE IAllocOutside(p)
  <2>1. Alone(p) /\ PlaceOK(p)' /\ \A t \in Slots : Uses(p, t)' <=> Uses(p, t)
    BY <1>6, NoEntry DEF IAllocOutside, UserMode, SleepAt,
       At, Put, Alone, PlaceOK, Uses, RefInv, PlacesOK
  <2>2. SameEntries /\ files' = files
    BY <1>6 DEF IAllocOutside, SameEntries, RefInv, EntriesOK, Fields
  <2> QED BY <2>1, <2>2, Quiet
<1>7. CASE IAllocFree(p)
  <2>1. Alone(p) /\ PlaceOK(p)' /\ \A t \in Slots : Uses(p, t)' <=> Uses(p, t)
    BY <1>7, NoEntry DEF IAllocFree, SleepAt, locals,
       At, Put, Alone, PlaceOK, Uses, RefInv, PlacesOK
  <2>2. SameEntries /\ files' = files
    BY <1>7 DEF IAllocFree, At, PlaceOK, PlacesOK, SameEntries, RefInv, EntriesOK, Fields
  <2> QED BY <2>1, <2>2, Quiet
<1>8. CASE IAllocOccupied(p)
  <2>1. Alone(p) /\ PlaceOK(p)' /\ \A t \in Slots : Uses(p, t)' <=> Uses(p, t)
    BY <1>8, NoEntry DEF IAllocOccupied, GoOn,
       At, Put, Alone, PlaceOK, Uses, RefInv, PlacesOK
  <2>2. SameEntries /\ files' = files
    BY <1>8 DEF IAllocOccupied, SameEntries, RefInv, EntriesOK, Fields
  <2> QED BY <2>1, <2>2, Quiet
<1> QED BY <1>1, <1>2, <1>3, <1>4, <1>5, <1>6, <1>7, <1>8

\* Update: it has entries without being counted.
LEMMA SyncKeeps ==
    ASSUME RefInv, NEW p \in Procs,
           SyncSuper(p) \/ SyncInode(p) \/ SyncWritten(p) \/ SyncEnd(p)
    PROVE  RefInv'
<1>1. CASE SyncInode(p)
  <2>1. Alone(p) /\ PlaceOK(p)' /\ \A t \in Slots : Uses(p, t)' <=> Uses(p, t)
    BY <1>1, NoEntry DEF SyncInode, GoOn, SleepAt,
       At, Put, Alone, PlaceOK, Uses, RefInv, PlacesOK
  <2>2. SameEntries /\ files' = files
    BY <1>1 DEF SyncInode, SameEntries, RefInv, EntriesOK, Fields
  <2> QED BY <2>1, <2>2, Quiet
<1>2. CASE SyncWritten(p)
  <2>1. Alone(p) /\ PlaceOK(p)' /\ \A t \in Slots : Uses(p, t)' <=> Uses(p, t)
    BY <1>2, NoEntry DEF SyncWritten, GoOn,
       At, Put, Alone, PlaceOK, Uses, RefInv, PlacesOK
  <2>2. SameEntries /\ files' = files
    BY <1>2 DEF SyncWritten, At, PlaceOK, PlacesOK, Prele, SameEntries, RefInv, EntriesOK, Fields
  <2> QED BY <2>1, <2>2, Quiet
<1>3. CASE SyncEnd(p)
  <2>1. Alone(p) /\ PlaceOK(p)' /\ \A t \in Slots : Uses(p, t)' <=> Uses(p, t)
    BY <1>3, NoEntry DEF SyncEnd, UserMode, SleepAt,
       At, Put, Alone, PlaceOK, Uses, RefInv, PlacesOK
  <2>2. SameEntries /\ files' = files
    BY <1>3 DEF SyncEnd, SameEntries, RefInv, EntriesOK, Fields
  <2> QED BY <2>1, <2>2, Quiet
<1>4. CASE SyncSuper(p)
  <2>1. Alone(p) /\ PlaceOK(p)' /\ \A t \in Slots : Uses(p, t)' <=> Uses(p, t)
    BY <1>4, NoEntry DEF SyncSuper, SleepAt, locals,
       At, Put, Alone, PlaceOK, Uses, RefInv, PlacesOK
  <2>2. SameEntries /\ files' = files
    BY <1>4 DEF SyncSuper, SameEntries, RefInv, EntriesOK, Fields
  <2> QED BY <2>1, <2>2, Quiet
<1> QED BY <1>1, <1>2, <1>3, <1>4

\* IPut returns: the process has no entry any more, and no other is touched.
LEMMA Returned ==
    ASSUME RefInv, NEW p \in Procs, NEW s, s = sl[p],
           pc[p] \in {"iput", "unread", "write"}, back[p] # "sync", IPutReturn(p)
    PROVE  /\ Alone(p) /\ PlaceOK(p)' /\ ~Uses(p, s)'
           /\ s \in Slots /\ Uses(p, s)
           /\ \A t \in Slots \ {s} : Uses(p, t)' <=> Uses(p, t)
<1>1. s \in Slots /\ call[p] # "sync"
  BY DEF RefInv, PlacesOK, PlaceOK
<1>2. CASE back[p] = "user"
  BY <1>1, <1>2, NoEntry DEF IPutReturn, UserMode, SleepAt, Put, Alone, PlaceOK, Uses,
     RefInv, PlacesOK
<1>3. CASE back[p] # "user"
  <2>1. back[p] = "pop"
    BY <1>3 DEF RefInv, PlacesOK, PlaceOK
  <2> QED BY <1>1, <1>3, <2>1, NoEntry DEF IPutReturn, GoOn, Put, Alone, PlaceOK, Uses,
     RefInv, PlacesOK
<1> QED BY <1>2, <1>3

\* A reference is taken or given back.
LEMMA CountsKeep ==
    ASSUME RefInv, NEW p \in Procs,
           Close(p) \/ IGetFound(p) \/ Open1(p) \/ IPutShared(p) \/ IPutClean(p)
           \/ IPutDone(p)
    PROVE  RefInv'
<1>1. CASE Close(p)
  <2>1. PICK s \in Slots : /\ At(p, "user") /\ files[s] > 0
                           /\ GoOn(p, "iput") /\ files' = [files EXCEPT ![s] = @ - 1]
                           /\ sl' = Put(sl, p, s) /\ call' = Put(call, p, "close")
                           /\ slot' = slot /\ back' = back
    BY <1>1 DEF Close, Enters
  <2>2. /\ Alone(p) /\ PlaceOK(p)' /\ Uses(p, s)' /\ ~Uses(p, s)
        /\ \A t \in Slots \ {s} : Uses(p, t)' <=> Uses(p, t)
    BY <2>1, NoEntry DEF At, GoOn, Put, Alone, PlaceOK, Uses, RefInv, PlacesOK
  <2>3. /\ OnlyEntry(s) /\ files' \in [Slots -> Nat] /\ files'[s] = files[s] - 1
        /\ slot'[s] = slot[s] /\ slot[s].count \in Int
        /\ \A t \in Slots \ {s} : files'[t] = files[t]
    BY <2>1 DEF OnlyEntry, RefInv, EntriesOK, Fields
  <2>4. slot'[s].count - slot[s].count =
            files'[s] - files[s] + Ref(Uses(p, s)') - Ref(Uses(p, s))
    BY <2>2, <2>3 DEF Ref, RefInv, EntriesOK
  <2> QED BY <2>2, <2>3, <2>4, Count
<1>2. CASE IGetFound(p)
  <2>1. PICK s \in Slots : /\ At(p, "iget") /\ slot[s].count # 0 /\ Arrive(p)
                           /\ slot' = [slot EXCEPT ![s].count = @ + 1, ![s].lock = TRUE]
                           /\ sl' = Put(sl, p, s)
                           /\ files' = files /\ call' = call /\ back' = back
    BY <1>2 DEF IGetFound, Loaded
  <2>2. /\ Alone(p) /\ PlaceOK(p)' /\ Uses(p, s)' /\ ~Uses(p, s)
        /\ \A t \in Slots \ {s} : Uses(p, t)' <=> Uses(p, t)
    BY <2>1, NoEntry DEF At, Arrive, GoOn, SleepAt, Put, Alone, PlaceOK, Uses, RefInv, PlacesOK
  <2>3. /\ OnlyEntry(s) /\ slot'[s].count = slot[s].count + 1
        /\ slot'[s].num = slot[s].num /\ slot[s].count > 0 /\ slot[s].count \in Int
    BY <2>1, CountsNatural DEF OnlyEntry, RefInv, EntriesOK, Fields
  <2>4. slot'[s].count - slot[s].count =
            files'[s] - files[s] + Ref(Uses(p, s)') - Ref(Uses(p, s))
    BY <2>1, <2>2, <2>3 DEF Ref, RefInv, EntriesOK
  <2>5. files' \in [Slots -> Nat] /\ \A t \in Slots \ {s} : files'[t] = files[t]
    BY <2>1 DEF RefInv, EntriesOK
  <2>6. slot'[s].count \in Int
    BY <2>3
  <2> QED BY <2>2, <2>3, <2>4, <2>5, <2>6, Count
<1>3. CASE Open1(p)
  <2>1. PICK s \in Slots : /\ s = sl[p] /\ At(p, "locked") /\ UserMode(p)
                           /\ files' = [files EXCEPT ![s] = @ + 1]
    BY <1>3 DEF Open1, At, RefInv, PlacesOK, PlaceOK
  <2>2. /\ Alone(p) /\ PlaceOK(p)' /\ ~Uses(p, s)' /\ Uses(p, s) /\ s \in Slots
        /\ \A t \in Slots \ {s} : Uses(p, t)' <=> Uses(p, t)
    BY <2>1, NoEntry DEF At, UserMode, SleepAt, Put, Alone, PlaceOK, Uses, RefInv, PlacesOK
  <2>3. /\ OnlyEntry(s) /\ slot'[s].count = slot[s].count
        /\ slot'[s].num = slot[s].num /\ slot[s].count \in Int
    BY <1>3, <2>1, SMTT(30) DEF Open1, OnlyEntry, RefInv, EntriesOK, Fields
  <2>4. /\ files' \in [Slots -> Nat] /\ files'[s] = files[s] + 1
        /\ \A t \in Slots \ {s} : files'[t] = files[t]
    BY <2>1, <2>2 DEF RefInv, EntriesOK
  <2>5. slot'[s].count - slot[s].count =
            files'[s] - files[s] + Ref(Uses(p, s)') - Ref(Uses(p, s))
    BY <2>2, <2>3, <2>4 DEF Ref, RefInv, EntriesOK
  <2>6. slot'[s].count \in Int /\ (slot'[s].count > 0 => slot[s].count > 0)
    BY <2>3
  <2> QED BY <2>1, <2>2, <2>3, <2>4, <2>5, <2>6, Count
<1>4. ASSUME pc[p] \in {"iput", "unread", "write"}, back[p] # "sync", IPutReturn(p), files' = files,
             OnlyEntry(sl[p]), slot'[sl[p]].count = slot[sl[p]].count - 1,
             slot'[sl[p]].num = slot[sl[p]].num \/ slot'[sl[p]].num = NoIno
      PROVE  RefInv'
  <2>1. PICK s : s = sl[p]
    OBVIOUS
  <2>2. /\ Alone(p) /\ PlaceOK(p)' /\ ~Uses(p, s)' /\ s \in Slots /\ Uses(p, s)
        /\ \A t \in Slots \ {s} : Uses(p, t)' <=> Uses(p, t)
    BY <1>4, <2>1, Returned
  <2>3. /\ slot[s].count \in Int /\ slot'[s].count = slot[s].count - 1
        /\ slot'[s].num = slot[s].num \/ slot'[s].num = NoIno
    BY <1>4, <2>1, <2>2 DEF RefInv, EntriesOK
  <2>4. slot'[s].count - slot[s].count =
            files'[s] - files[s] + Ref(Uses(p, s)') - Ref(Uses(p, s))
    BY <1>4, <2>2, <2>3 DEF Ref, RefInv, EntriesOK
  <2>5. /\ files' \in [Slots -> Nat] /\ \A t \in Slots \ {s} : files'[t] = files[t]
        /\ OnlyEntry(s)
    BY <1>4, <2>1 DEF RefInv, EntriesOK
  <2>6. slot'[s].count \in Int /\ (slot'[s].count > 0 => slot[s].count > 0)
    BY <2>3
  <2> QED BY <2>2, <2>3, <2>4, <2>5, <2>6, Count
<1>5. pc[p] \in {"iput", "unread", "write"} => sl[p] \in Slots
  BY DEF RefInv, PlacesOK, PlaceOK
<1>6. CASE IPutShared(p)
  <2>1. /\ OnlyEntry(sl[p]) /\ slot'[sl[p]].count = slot[sl[p]].count - 1
        /\ slot'[sl[p]].num = slot[sl[p]].num
    BY <1>5, <1>6 DEF IPutShared, AtIPut, At, OnlyEntry, RefInv, EntriesOK, Fields
  <2>2. back[p] # "sync"
    BY <1>6 DEF IPutShared, AtIPut, At, RefInv, PlacesOK, PlaceOK
  <2> QED BY <1>4, <1>6, <2>1, <2>2 DEF IPutShared, AtIPut, At
<1>7. ASSUME pc[p] \in {"iput", "unread", "write"},
             slot' = [slot EXCEPT ![sl[p]] = Released(@)]
      PROVE  /\ OnlyEntry(sl[p]) /\ slot'[sl[p]].count = slot[sl[p]].count - 1
             /\ slot'[sl[p]].num = NoIno
  BY <1>5, <1>7 DEF Released, OnlyEntry, RefInv, EntriesOK, Fields
<1>8. CASE IPutClean(p)
  <2>1. back[p] # "sync"
    BY <1>8 DEF IPutClean, AtIPut, At, RefInv, PlacesOK, PlaceOK
  <2> QED BY <1>4, <1>7, <1>8, <2>1 DEF IPutClean, AtIPut, At
<1>9. CASE IPutDone(p)
  BY <1>4, <1>7, <1>9 DEF IPutDone, At
<1> QED BY <1>1, <1>2, <1>3, <1>6, <1>8, <1>9

\* The first free entry is taken for an inode that has no copy.
LEMMA IGetLoadKeeps ==
    ASSUME RefInv, NEW p \in Procs, IGetLoad(p)
    PROVE  RefInv'
<1>1. PICK s \in FreeSlots :
        /\ At(p, "iget") /\ Loaded(num[p]) = {}
        /\ slot' = [slot EXCEPT ![s].num = num[p], ![s].count = @ + 1, ![s].lock = TRUE,
                                ![s].want = FALSE, ![s].upd = FALSE]
        /\ sl' = Put(sl, p, s) /\ SleepAt(p, "load")
        /\ files' = files /\ call' = call /\ back' = back
  BY DEF IGetLoad
<1>2. s \in Slots /\ slot[s].count = 0
  BY DEF FreeSlots
<1>3. /\ Alone(p) /\ PlaceOK(p)' /\ Uses(p, s)' /\ ~Uses(p, s)
      /\ \A t \in Slots \ {s} : Uses(p, t)' <=> Uses(p, t)
  BY <1>1, <1>2, NoEntry DEF At, SleepAt, Put, Alone, PlaceOK, Uses, RefInv, PlacesOK
<1>4. OnlyEntry(s) /\ slot'[s].count = 1 /\ slot'[s].num = num[p]
  BY <1>1, <1>2 DEF OnlyEntry, RefInv, EntriesOK, Fields
<1>5. EntriesOK'
  BY <1>1, <1>4, SMTT(30) DEF RefInv, EntriesOK, OnlyEntry, Fields
<1>6. OneCopy'
  <2>1. \A t \in Slots \ {s} : slot[t].count > 0 => slot[t].num # num[p]
    BY <1>1 DEF Loaded, RefInv, EntriesOK
  <2>2. \A t \in Slots \ {s} : slot'[t] = slot[t]
    BY <1>4 DEF OnlyEntry
  <2>3. ASSUME NEW t \in Slots, NEW u \in Slots, slot'[t].count > 0, slot'[u].count > 0,
               slot'[t].num = slot'[u].num, slot'[t].num # NoIno, t # u
        PROVE  FALSE
    <3>1. CASE t = s
      BY <1>4, <2>1, <2>2, <2>3, <3>1
    <3>2. CASE u = s
      BY <1>4, <2>1, <2>2, <2>3, <3>2
    <3>3. CASE t # s /\ u # s
      BY <2>2, <2>3, <3>3 DEF RefInv, OneCopy
    <3> QED BY <3>1, <3>2, <3>3
  <2> QED BY <2>3 DEF OneCopy
<1>7. \A t \in Slots : slot'[t].count - slot[t].count =
          files'[t] - files[t] + Ref(Uses(p, t)') - Ref(Uses(p, t))
  <2>1. ASSUME NEW t \in Slots \ {s}
        PROVE  slot'[t].count - slot[t].count =
                   files'[t] - files[t] + Ref(Uses(p, t)') - Ref(Uses(p, t))
    BY <1>1, <1>3, <1>4 DEF OnlyEntry, Ref, RefInv, EntriesOK
  <2>2. slot'[s].count - slot[s].count =
            files'[s] - files[s] + Ref(Uses(p, s)') - Ref(Uses(p, s))
    BY <1>1, <1>2, <1>3, <1>4 DEF Ref, RefInv, EntriesOK
  <2> QED BY <2>1, <2>2
<1> QED BY <1>3, <1>5, <1>6, <1>7, BalancedStep

\* The state of a machine that has just been started.
Boot ==
    /\ slot = EmptyTable /\ files = [s \in Slots |-> 0]
    /\ pc = [p \in Procs |-> "user"] /\ call = [p \in Procs |-> "none"]
    /\ sl = [p \in Procs |-> 0] /\ back = [p \in Procs |-> "user"]

LEMMA Started == Boot => RefInv
<1> SUFFICES ASSUME Boot  PROVE RefInv
  OBVIOUS
<1>1. EntriesOK /\ PlacesOK /\ OneCopy
  BY DEF Boot, EmptyTable, EntriesOK, PlacesOK, PlaceOK, OneCopy
<1>2. RefCounts
  <2> SUFFICES ASSUME NEW s \in Slots
               PROVE  slot[s].count = files[s] + Cardinality(Users(s))
    BY DEF RefCounts
  <2>1. Users(s) = {}
    BY NoEntry DEF Boot, Users, Uses
  <2> QED BY <2>1, FS_EmptySet DEF Boot, EmptyTable
<1> QED BY <1>1, <1>2 DEF RefInv

-----------------------------------------------------------------------------
\* The invariant is kept by every step.
LEMMA RefNext == RefInv /\ [Next]_vars => RefInv'
<1> SUFFICES ASSUME RefInv, [Next]_vars  PROVE RefInv'
  OBVIOUS
<1>1. CASE UNCHANGED vars
  BY <1>1 DEF RefInv, EntriesOK, PlacesOK, PlaceOK, OneCopy, RefCounts, Users, Uses,
     vars, locals
<1>2. CASE Crash
  <2>1. Boot'
    BY <1>2 DEF Crash, Boot, EmptyTable, Slots
  <2>2. Boot' => RefInv'
    BY Started, PTL
  <2> QED BY <2>1, <2>2
<1>3. ASSUME NEW p \in Procs, Step(p)  PROVE RefInv'
  BY <1>3, CallsKeep, IGetKeeps, CallerKeeps, IPutKeeps, IAllocKeeps, SyncKeeps,
     CountsKeep, IGetLoadKeeps DEF Step
<1> QED BY <1>1, <1>2, <1>3 DEF Next, NotFollowed

\* RefInv holds in every state, after crashes and failed reads too.
THEOREM RefInvariance == Spec => []RefInv
<1>1. Init => RefInv
  BY Started DEF Init, Boot
<1> QED BY <1>1, RefNext, PTL DEF Spec

\* The table never has two copies of an inode in use.
THEOREM OneCopySafe == Spec => []OneCopy
<1>1. RefInv => OneCopy
  BY DEF RefInv
<1> QED BY <1>1, RefInvariance, PTL

\* A count is exactly the number of files and calls that use the entry, so that IPut
\* releases it with the last of them and not before.
THEOREM RefCountsExact == Spec => []RefCounts
<1>1. RefInv => RefCounts
  BY DEF RefInv
<1> QED BY <1>1, RefInvariance, PTL

-----------------------------------------------------------------------------
\* The numbers a search puts on the list

LEMMA Least ==
    ASSUME NEW T, T \subseteq Nat, T # {}
    PROVE  \E x \in T : \A y \in T : x <= y
<1> DEFINE R == OpToRel(<, Nat)
<1>1. IsWellFoundedOn(R, Nat)
  BY NatLessThanWellFounded
<1>2. \A y, x \in Nat : <<y, x>> \in R <=> y < x
  BY DEF OpToRel
<1> HIDE DEF R
<1>3. PICK x \in T : \A y \in T : ~(<<y, x>> \in R)
  BY <1>1, WFMin
<1>4. \A y \in T : x <= y
  <2> TAKE y \in T
  <2>1. ~(y < x)
    BY <1>2, <1>3, Zenon
  <2>2. x \in Nat /\ y \in Nat
    OBVIOUS
  <2> QED BY <2>1, <2>2
<1> QED BY <1>4

\* f lists the numbers of S upwards.
Lists(f, S) ==
    /\ f \in [1..Cardinality(S) -> S]
    /\ \A m, n \in 1..Cardinality(S) : m < n => f[m] < f[n]

\* A finite set of numbers can be listed: none is the smallest that can not.
LEMMA CanBeListed ==
    ASSUME NEW S, S \subseteq Nat, IsFiniteSet(S)
    PROVE  \E f : Lists(f, S)
<1> DEFINE Bad(n) == \E U : /\ U \subseteq Nat /\ IsFiniteSet(U) /\ Cardinality(U) = n
                            /\ ~(\E f : Lists(f, U))
           T == {n \in Nat : Bad(n)}
<1>1. SUFFICES T = {}
  BY FS_CardinalityType
<1>2. SUFFICES ASSUME T # {}  PROVE FALSE
  OBVIOUS
<1>3. PICK n \in T : \A m \in T : n <= m
  <2> HIDE DEF Bad
  <2> QED BY <1>2, Least
<1>4. PICK U : U \subseteq Nat /\ IsFiniteSet(U) /\ Cardinality(U) = n /\ ~(\E f : Lists(f, U))
  BY <1>3
<1> HIDE DEF Bad
<1>5. n \in Nat
  BY <1>3
<1>6. U # {}
  <2> SUFFICES ASSUME U = {}  PROVE FALSE
    OBVIOUS
  <2>1. Cardinality(U) = 0
    BY FS_EmptySet
  <2>2. PICK f : f = [m \in 1..0 |-> 0]
    OBVIOUS
  <2>3. Lists(f, U)
    BY <2>1, <2>2 DEF Lists
  <2> QED BY <1>4, <2>3
<1>7. PICK x \in U : \A y \in U : x <= y
  BY <1>4, <1>6, Least
<1>8. PICK V : V = U \ {x}
  OBVIOUS
<1>9. /\ V \subseteq Nat /\ IsFiniteSet(V) /\ Cardinality(V) = n - 1
      /\ \A y \in V : y \in U /\ x < y
  <2>1. IsFiniteSet(V) /\ Cardinality(V) = n - 1
    BY <1>4, <1>7, <1>8, FS_RemoveElement
  <2> QED BY <1>4, <1>7, <1>8, <2>1
<1>10. n - 1 \in Nat
  BY <1>9, FS_CardinalityType
<1>11. n - 1 \notin T
  BY <1>3, <1>5
<1>12. PICK g : Lists(g, V)
  BY <1>9, <1>10, <1>11 DEF Bad
<1>13. /\ g \in [1..(n - 1) -> V]
       /\ \A i, j \in 1..(n - 1) : i < j => g[i] < g[j]
  BY <1>9, <1>12 DEF Lists
<1>14. PICK f : f = [m \in 1..n |-> IF m = 1 THEN x ELSE g[m - 1]]
  OBVIOUS
<1>15. f \in [1..n -> U] /\ \A i, j \in 1..n : i < j => f[i] < f[j]
  <2>1. \A m \in 1..n : m # 1 => m - 1 \in 1..(n - 1)
    BY <1>5
  <2>2. \A m \in 1..n : m # 1 => f[m] = g[m - 1] /\ f[m] \in V
    BY <2>1, <1>13, <1>14
  <2>3. 1 \in 1..n => f[1] = x
    BY <1>14
  <2>4. f \in [1..n -> U]
    BY <1>7, <1>9, <1>14, <2>2, <2>3
  <2>5. ASSUME NEW i \in 1..n, NEW j \in 1..n, i < j  PROVE f[i] < f[j]
    <3>1. j # 1 /\ j - 1 \in 1..(n - 1)
      BY <1>5, <2>5
    <3>2. CASE i = 1
      BY <1>9, <2>2, <2>3, <3>1, <3>2
    <3>3. CASE i # 1
      <4>1. i - 1 \in 1..(n - 1) /\ i - 1 < j - 1
        BY <1>5, <2>5, <3>3
      <4> QED BY <1>13, <2>2, <3>1, <3>3, <4>1
    <3> QED BY <3>2, <3>3
  <2> QED BY <2>4, <2>5
<1> QED BY <1>4, <1>15 DEF Lists

LEMMA SearchedNumbers ==
    ASSUME list \in Seq(Inos), NEW b
    PROVE  Searched(b) \in Seq(Inos)
<1> USE InodesAssumption
<1>1. PICK free : free = {i \in Inos : BlockOf(i) = b /\ ~disk[i].mode /\ Loaded(i) = {}}
  OBVIOUS
<1>2. free \subseteq Inos /\ Inos \subseteq Nat /\ IsFiniteSet(free)
  <2>1. IsFiniteSet(Inos)
    BY FS_Interval DEF Inos
  <2>2. free \subseteq Inos
    BY <1>1
  <2>3. Inos \subseteq Nat
    BY DEF Inos
  <2> QED BY <2>1, <2>2, <2>3, FS_Subset
<1>3. Ascending(free) \in Seq(Inos)
  <2>1. Cardinality(free) \in Nat
    BY <1>2, FS_CardinalityType
  <2>2. \E f \in [1..Cardinality(free) -> free] :
           \A m, n \in DOMAIN f : m < n => f[m] < f[n]
    BY <1>2, CanBeListed DEF Lists
  <2>3. Ascending(free) \in [1..Cardinality(free) -> free]
    BY <2>2 DEF Ascending
  <2>4. Ascending(free) \in Seq(free)
    BY <2>1, <2>3, IsASeq
  <2> QED BY <1>2, <2>4, SeqMonotonic
<1>4. PICK all : all = list \o Ascending(free)
  OBVIOUS
<1>5. all \in Seq(Inos) /\ Len(all) \in Nat
  BY <1>3, <1>4, ConcatProperties, LenProperties
<1>6. Searched(b) = SubSeq(all, 1, Min({Len(all), ListSize}))
  BY <1>1, <1>4 DEF Searched
<1>7. Min({Len(all), ListSize}) \in Nat /\ Min({Len(all), ListSize}) <= Len(all)
  <2>1. ListSize \in Nat
    OBVIOUS
  <2>2. \E x \in {Len(all), ListSize} : \A y \in {Len(all), ListSize} : x <= y
    BY <1>5, <2>1
  <2>3. /\ Min({Len(all), ListSize}) \in {Len(all), ListSize}
        /\ \A y \in {Len(all), ListSize} : Min({Len(all), ListSize}) <= y
    BY <2>2 DEF Min
  <2> QED BY <1>5, <2>1, <2>3
<1>8. PICK m : m = Min({Len(all), ListSize})
  OBVIOUS
<1>9. m \in Nat /\ \A i \in 1..m : all[i] \in Inos
  <2>1. m \in Nat /\ m <= Len(all)
    BY <1>7, <1>8
  <2> QED BY <1>5, <2>1, ElementOfSeq
<1>10. SubSeq(all, 1, m) \in Seq(Inos)
  BY <1>9, SubSeqProperties
<1> QED BY <1>6, <1>8, <1>10

-----------------------------------------------------------------------------
\* Every process works on its own inode

NumbersOK ==
    /\ DOMAIN num = Procs /\ DOMAIN chan = Procs
    /\ list \in Seq(Inos) /\ onDisk \in Seq(Inos)
    /\ named \subseteq Inos
    /\ \A s \in Slots : slot[s].count > 0 => slot[s].num \in Inos

\* p reads the entry, or is about to cut it or to write it for the last time.
Exclusive(p) ==
    call[p] # "sync" /\ pc[p] \in {"load", "unread", "trunc", "update", "write"}

Syncs(p) == call[p] = "sync" /\ pc[p] \in {"update", "write"}

\* The entry of a process has the number it asked for; while it is read, cut or written
\* for the last time, it is locked, nobody else refers to it and Update has not got it.
EntryOK(p) ==
    /\ pc[p] = "iget" => num[p] \in Inos
    /\ pc[p] \in {"load", "unread", "chosen", "writedir", "locked", "update", "write"}
          => slot[sl[p]].num = num[p]
    /\ pc[p] \in {"load", "unread"} => ~slot[sl[p]].upd
    /\ Exclusive(p) => slot[sl[p]].count = 1 /\ slot[sl[p]].lock /\ ~Updating(sl[p])
    /\ Syncs(p) => slot[sl[p]].count > 0

WorkInv == RefInv /\ NumbersOK /\ \A p \in Procs : EntryOK(p)

\* What users do to the count of an entry.
LEMMA UserCounts ==
    ASSUME RefInv, NEW s \in Slots, NEW p \in Procs, Uses(p, s)
    PROVE  /\ slot[s].count >= files[s] + 1
           /\ \A q \in Procs \ {p} : Uses(q, s) => slot[s].count >= files[s] + 2
<1>1. IsFiniteSet(Procs) /\ Users(s) \subseteq Procs /\ p \in Users(s)
  BY InodesAssumption DEF Users
<1>2. IsFiniteSet(Users(s)) /\ Cardinality(Users(s)) \in Nat
  BY <1>1, FS_Subset, FS_CardinalityType
<1>3. files[s] \in Nat /\ slot[s].count = files[s] + Cardinality(Users(s))
  BY DEF RefInv, RefCounts, EntriesOK
<1>4. PICK rest : rest = Users(s) \ {p}
  OBVIOUS
<1>5. /\ IsFiniteSet(rest) /\ Cardinality(rest) \in Nat
      /\ Cardinality(rest) = Cardinality(Users(s)) - 1
  BY <1>1, <1>2, <1>4, FS_RemoveElement, FS_CardinalityType
<1>6. ASSUME NEW q \in Procs \ {p}, Uses(q, s)
      PROVE  slot[s].count >= files[s] + 2
  <2>1. q \in rest
    BY <1>4, <1>6 DEF Users
  <2>2. Cardinality(rest) # 0
    BY <1>5, <2>1, FS_EmptySet
  <2> QED BY <1>2, <1>3, <1>5, <2>2
<1> QED BY <1>2, <1>3, <1>5, <1>6

\* Who is at work on an entry, other than Update, is counted.
LEMMA UserPlace ==
    ASSUME RefInv, NEW p \in Procs,
           \/ pc[p] \in {"load", "unread", "chosen", "writedir", "locked", "iput", "trunc"}
           \/ pc[p] \in {"update", "write"} /\ back[p] # "sync"
    PROVE  /\ sl[p] \in Slots /\ Uses(p, sl[p]) /\ call[p] # "sync"
           /\ slot[sl[p]].count >= 1 /\ slot[sl[p]].count \in Int
<1>1. sl[p] \in Slots /\ Uses(p, sl[p]) /\ call[p] # "sync"
  BY DEF RefInv, PlacesOK, PlaceOK, Uses
<1> QED BY <1>1, UserCounts DEF RefInv, EntriesOK

\* Only Update comes to write an entry as Update does.
LEMMA UpdatingKept ==
    ASSUME NEW p \in Procs, Alone(p), Syncs(p)' => Syncs(p) /\ sl'[p] = sl[p]
    PROVE  \A s : Updating(s)' => Updating(s)
BY DEF Alone, Syncs, Updating

\* What a step of p may do to the entry s so that the others keep theirs.
MayChange(p, s) ==
    \/ slot' = slot
    \/ /\ OnlyEntry(s)
       /\ \/ Uses(p, s) /\ slot'[s].num = slot[s].num /\ slot'[s].count > 0
          \/ Uses(p, s) /\ slot[s].count = 1 /\ ~Updating(s)
          \/ slot[s].count = 0
          \/ ~slot[s].lock /\ slot'[s].num = slot[s].num /\ slot'[s].count > 0
          \/ /\ Syncs(p) /\ sl[p] = s
             /\ slot'[s].num = slot[s].num /\ slot'[s].count = slot[s].count

\* Update takes only entries that are not locked.
TakesUnlocked(p) ==
    Syncs(p)' => (Syncs(p) /\ sl'[p] = sl[p]) \/ ~slot[sl'[p]].lock

LEMMA OthersEntries ==
    ASSUME WorkInv, NEW p \in Procs, NEW s \in Slots, Alone(p), MayChange(p, s),
           TakesUnlocked(p), \A q \in Procs \ {p} : num'[q] = num[q]
    PROVE  \A q \in Procs \ {p} : EntryOK(q)'
<1> SUFFICES ASSUME NEW q \in Procs \ {p}
             PROVE  EntryOK(q)'
  OBVIOUS
<1>1. EntryOK(q) /\ PlaceOK(q)
  BY DEF WorkInv, RefInv, PlacesOK
<1>2. /\ pc'[q] = pc[q] /\ call'[q] = call[q] /\ sl'[q] = sl[q] /\ back'[q] = back[q]
      /\ num'[q] = num[q]
      /\ (Exclusive(q)' <=> Exclusive(q)) /\ (Syncs(q)' <=> Syncs(q))
  BY DEF Alone, Exclusive, Syncs
<1>3. Exclusive(q) => ~Updating(sl[q])'
  <2> SUFFICES ASSUME Exclusive(q), NEW r \in Procs, Syncs(r)', sl'[r] = sl[q]
               PROVE  FALSE
    BY <1>2 DEF Updating, Syncs
  <2>1. slot[sl[q]].lock /\ ~Updating(sl[q])
    BY <1>1 DEF EntryOK
  <2>2. CASE r = p
    BY <2>1, <2>2 DEF TakesUnlocked, Updating, Syncs
  <2>3. CASE r # p
    BY <2>1, <2>3 DEF Alone, Updating, Syncs
  <2> QED BY <2>2, <2>3
<1>4. CASE slot'[sl[q]] = slot[sl[q]]
  BY <1>1, <1>2, <1>3, <1>4 DEF EntryOK
<1>5. CASE pc[q] \notin {"load", "unread", "chosen", "writedir", "locked", "trunc", "update",
                        "write"}
  BY <1>1, <1>2, <1>5 DEF EntryOK, Exclusive, Syncs
<1>6. CASE /\ slot'[sl[q]] # slot[sl[q]]
           /\ pc[q] \in {"load", "unread", "chosen", "writedir", "locked", "trunc", "update",
                        "write"}
  <2>1. sl[q] \in Slots
    BY <1>1, <1>6 DEF PlaceOK
  <2>2. sl[q] = s /\ OnlyEntry(s)
    BY <1>6, <2>1 DEF MayChange, OnlyEntry
  <2>3. CASE Syncs(q)
    <3>1. Updating(s) /\ slot[s].count > 0 /\ ~Exclusive(q)
          /\ pc[q] \in {"update", "write"}
      BY <1>1, <2>2, <2>3 DEF EntryOK, Updating, Syncs, Exclusive
    <3>2. slot'[s].num = slot[s].num /\ slot'[s].count > 0
      BY <1>6, <2>2, <3>1 DEF MayChange
    <3> QED BY <1>1, <1>2, <2>2, <2>3, <3>1, <3>2 DEF EntryOK
  <2>4. CASE ~Syncs(q)
    <3>1. Uses(q, s)
      BY <1>1, <1>6, <2>2, <2>4 DEF PlaceOK, Syncs, Uses
    <3>2. slot[s].count >= 1 /\ slot[s].count \in Int
      BY <3>1, UserCounts DEF WorkInv, RefInv, EntriesOK
    <3>3. Uses(p, s) => slot[s].count >= 2
      BY <3>1, UserCounts DEF WorkInv, RefInv, EntriesOK
    <3>4. CASE Exclusive(q)
      <4>1. slot[s].count = 1 /\ slot[s].lock /\ ~Updating(s)
        BY <1>1, <2>2, <3>4 DEF EntryOK
      <4>2. ~(Syncs(p) /\ sl[p] = s)
        BY <4>1 DEF Updating, Syncs
      <4> QED BY <1>6, <2>2, <3>3, <4>1, <4>2 DEF MayChange
    <3>5. CASE ~Exclusive(q)
      <4>1. pc[q] \in {"chosen", "writedir", "locked"}
        BY <1>6, <2>4, <3>1, <3>5 DEF Exclusive, Syncs, Uses
      <4>2. slot'[s].num = slot[s].num
        BY <1>6, <2>2, <3>2, <3>3 DEF MayChange
      <4> QED BY <1>1, <1>2, <2>2, <2>4, <3>5, <4>1, <4>2 DEF EntryOK
    <3> QED BY <3>4, <3>5
  <2> QED BY <2>3, <2>4
<1> QED BY <1>4, <1>5, <1>6


LEMMA LastFront ==
    ASSUME list \in Seq(Inos), list # << >>
    PROVE  Front(list) \in Seq(Inos) /\ Last(list) \in Inos
<1>1. Len(list) \in Nat /\ Len(list) # 0
  BY EmptySeq, LenProperties
<1>2. \A i \in 1..Len(list) : list[i] \in Inos
  BY ElementOfSeq
<1>3. Front(list) = SubSeq(list, 1, Len(list) - 1) /\ Last(list) = list[Len(list)]
  BY DEF Front, Last
<1>4. SubSeq(list, 1, Len(list) - 1) \in Seq(Inos)
  BY <1>1, <1>2, SubSeqProperties
<1> QED BY <1>1, <1>2, <1>3, <1>4

\* Only p moves, and asks for a number.
Moves(p) ==
    /\ Alone(p) /\ DOMAIN num' = Procs /\ DOMAIN chan' = Procs
    /\ \A q \in Procs \ {p} : num'[q] = num[q]

\* It moves so, and takes no locked entry for Update.
Steps(p) == Moves(p) /\ TakesUnlocked(p)

LEMMA WorkKept ==
    ASSUME WorkInv, RefInv', NEW p \in Procs, NEW s \in Slots, Steps(p), MayChange(p, s),
           EntryOK(p)', list' \in Seq(Inos), onDisk' \in Seq(Inos), named' \subseteq Inos,
           slot'[s].count > 0 => slot'[s].num \in Inos
    PROVE  WorkInv'
<1>1. \A q \in Procs : EntryOK(q)'
  BY OthersEntries DEF Steps, Moves
<1>2. \A t \in Slots : slot'[t].count > 0 => slot'[t].num \in Inos
  BY DEF MayChange, OnlyEntry, WorkInv, NumbersOK
<1>3. NumbersOK'
  BY <1>2 DEF NumbersOK, Steps, Moves
<1> QED BY <1>1, <1>3 DEF WorkInv

\* A step that leaves the table and the lists alone.
LEMMA WorkMoves ==
    ASSUME WorkInv, RefInv', NEW p \in Procs, Steps(p), EntryOK(p)',
           UNCHANGED <<slot, onDisk>>, list' \in Seq(Inos), named' \subseteq Inos
    PROVE  WorkInv'
<1>1. 1 \in Slots
  BY InodesAssumption DEF Slots
<1> QED BY <1>1, WorkKept DEF MayChange, WorkInv, NumbersOK

\* A call begins.
LEMMA CallsWork ==
    ASSUME WorkInv, RefInv', NEW p \in Procs,
           Open(p) \/ UnLink(p) \/ Creat(p) \/ Close(p)
    PROVE  WorkInv'
<1>1. /\ RefInv /\ NumbersOK /\ EntryOK(p) /\ PlaceOK(p)
      /\ DOMAIN pc = Procs /\ DOMAIN call = Procs /\ DOMAIN sl = Procs
      /\ DOMAIN back = Procs /\ DOMAIN num = Procs /\ DOMAIN chan = Procs
      /\ list \in Seq(Inos) /\ onDisk \in Seq(Inos) /\ named \subseteq Inos
      /\ DOMAIN slot = Slots
      /\ \A t \in Slots : DOMAIN slot[t] = Fields /\ slot[t].count \in Int
      /\ \A t \in Slots : slot[t].count > 0 => slot[t].num \in Inos
  BY DEF WorkInv, NumbersOK, RefInv, PlacesOK, EntriesOK, Fields
<1>2. CASE Open(p)
  <2>1. Steps(p)
    BY <1>1, <1>2 DEF Open, Enters, GoOn, SleepAt, locals, At, Put, Steps, TakesUnlocked, Syncs,
       Moves, Alone, Exclusive, EntryOK, PlaceOK
  <2>2. EntryOK(p)'
    BY <1>1, <1>2 DEF Open, Enters, GoOn, SleepAt, locals, At, Put, Steps, TakesUnlocked, Syncs,
       Moves, Alone, Exclusive, EntryOK, PlaceOK
  <2>3. UNCHANGED <<slot, onDisk>> /\ list' \in Seq(Inos) /\ named' \subseteq Inos
    BY <1>1, <1>2 DEF Open, lists
  <2> QED BY <2>1, <2>2, <2>3, WorkMoves
<1>3. CASE UnLink(p)
  <2>1. Steps(p)
    BY <1>1, <1>3 DEF UnLink, Enters, GoOn, locals, At, Put, Steps, TakesUnlocked, Syncs, Moves,
       Alone, Exclusive, EntryOK, PlaceOK
  <2>2. EntryOK(p)'
    BY <1>1, <1>3 DEF UnLink, Enters, GoOn, locals, At, Put, Steps, TakesUnlocked, Syncs, Moves,
       Alone, Exclusive, EntryOK, PlaceOK
  <2>3. UNCHANGED <<slot, onDisk>> /\ list' \in Seq(Inos) /\ named' \subseteq Inos
    BY <1>1, <1>3 DEF UnLink, lists
  <2> QED BY <2>1, <2>2, <2>3, WorkMoves
<1>4. CASE Creat(p)
  <2>1. Steps(p)
    BY <1>1, <1>4 DEF Creat, Enters, SleepAt, locals, At, Put, Steps, TakesUnlocked, Syncs,
       Moves, Alone, Exclusive, EntryOK, PlaceOK
  <2>2. EntryOK(p)'
    BY <1>1, <1>4 DEF Creat, Enters, SleepAt, locals, At, Put, Steps, TakesUnlocked, Syncs,
       Moves, Alone, Exclusive, EntryOK, PlaceOK
  <2>3. UNCHANGED <<slot, onDisk>> /\ list' \in Seq(Inos) /\ named' \subseteq Inos
    BY <1>1, <1>4 DEF Creat, lists
  <2> QED BY <2>1, <2>2, <2>3, WorkMoves
<1>5. CASE Close(p)
  <2>1. Steps(p)
    BY <1>1, <1>5 DEF Close, Enters, GoOn, At, Put, Steps, TakesUnlocked, Syncs, Moves, Alone,
       Exclusive, EntryOK, PlaceOK
  <2>2. EntryOK(p)'
    BY <1>1, <1>5 DEF Close, Enters, GoOn, At, Put, Steps, TakesUnlocked, Syncs, Moves, Alone,
       Exclusive, EntryOK, PlaceOK
  <2>3. UNCHANGED <<slot, onDisk>> /\ list' \in Seq(Inos) /\ named' \subseteq Inos
    BY <1>1, <1>5 DEF Close, lists
  <2> QED BY <2>1, <2>2, <2>3, WorkMoves
<1> QED BY <1>2, <1>3, <1>4, <1>5

\* IGet
LEMMA IGetWork ==
    ASSUME WorkInv, RefInv', NEW p \in Procs,
           IGetWait(p) \/ IGetFound(p) \/ IGetLoad(p) \/ IGetFull(p) \/ ICopy(p)
            \/ IGetError(p)
    PROVE  WorkInv'
<1>1. /\ RefInv /\ NumbersOK /\ EntryOK(p) /\ PlaceOK(p)
      /\ DOMAIN pc = Procs /\ DOMAIN call = Procs /\ DOMAIN sl = Procs
      /\ DOMAIN back = Procs /\ DOMAIN num = Procs /\ DOMAIN chan = Procs
      /\ list \in Seq(Inos) /\ onDisk \in Seq(Inos) /\ named \subseteq Inos
      /\ DOMAIN slot = Slots
      /\ \A t \in Slots : DOMAIN slot[t] = Fields /\ slot[t].count \in Int
      /\ \A t \in Slots : slot[t].count > 0 => slot[t].num \in Inos
  BY DEF WorkInv, NumbersOK, RefInv, PlacesOK, EntriesOK, Fields
<1>2. CASE IGetWait(p)
  <2>1. PICK s \in Slots : /\ slot[s].count # 0
                           /\ slot' = [slot EXCEPT ![s].want = TRUE]
    BY <1>2 DEF IGetWait, Loaded
  <2>2. Steps(p)
    BY <1>1, <1>2 DEF IGetWait, SleepAt, locals, At, Put, Steps, TakesUnlocked, Syncs, Moves,
       Alone, Exclusive, EntryOK, PlaceOK
  <2>3. OnlyEntry(s) /\ slot'[s].num = slot[s].num /\ slot'[s].count = slot[s].count
        /\ slot'[s].lock = slot[s].lock /\ slot'[s].upd = slot[s].upd
    BY <1>1, <2>1 DEF OnlyEntry, Fields
  <2>4. EntryOK(p)'
    BY <1>1, <1>2 DEF IGetWait, SleepAt, locals, At, Put, Steps, TakesUnlocked, Syncs, Moves,
       Alone, Exclusive, EntryOK, PlaceOK
  <2>5. \A q \in Procs \ {p} : EntryOK(q)'
    <3>1. ASSUME NEW q \in Procs \ {p}  PROVE EntryOK(q)'
      <4>1. EntryOK(q) /\ PlaceOK(q)
        BY <3>1 DEF WorkInv, RefInv, PlacesOK
      <4>2. \A t \in Slots : /\ slot'[t].num = slot[t].num /\ slot'[t].count = slot[t].count
                             /\ slot'[t].lock = slot[t].lock /\ slot'[t].upd = slot[t].upd
        BY <2>3 DEF OnlyEntry
      <4>3. \A t : Updating(t)' => Updating(t)
        <5>1. ~Syncs(p)'
          BY <1>1, <1>2 DEF IGetWait, SleepAt, At, Put, Syncs
        <5> QED BY <2>2, <5>1, UpdatingKept DEF Steps, Moves
      <4> QED BY <2>2, <4>1, <4>2, <4>3 DEF Steps, TakesUnlocked, Syncs, Moves, Alone,
         Exclusive, EntryOK, PlaceOK
    <3> QED BY <3>1
  <2>6. NumbersOK'
    BY <1>1, <1>2, <2>2, <2>3 DEF IGetWait, lists, NumbersOK, Steps, Moves, OnlyEntry
  <2> QED BY <2>4, <2>5, <2>6 DEF WorkInv
<1>3. CASE IGetFound(p)
  <2>1. PICK s \in Slots :
           /\ At(p, "iget") /\ slot[s].num = num[p] /\ slot[s].count # 0 /\ ~slot[s].lock
           /\ slot' = [slot EXCEPT ![s].count = @ + 1, ![s].lock = TRUE]
           /\ sl' = Put(sl, p, s)
    BY <1>3 DEF IGetFound, Loaded
  <2>2. Steps(p)
    BY <1>1, <1>3, <2>1 DEF IGetFound, Arrive, GoOn, SleepAt, At, Put, Steps, TakesUnlocked,
       Syncs, Moves, Alone, Exclusive, EntryOK, PlaceOK
  <2>3. OnlyEntry(s) /\ slot'[s].num = slot[s].num /\ slot'[s].count > 0
    BY <1>1, <2>1, CountsNatural DEF OnlyEntry, Fields
  <2>4. MayChange(p, s)
    BY <2>1, <2>3 DEF MayChange
  <2>5. EntryOK(p)'
    BY <1>1, <1>3, <2>1, <2>3 DEF IGetFound, Arrive, GoOn, SleepAt, At, Put, Steps,
       TakesUnlocked, Syncs, Moves, Alone, Exclusive, EntryOK, PlaceOK
  <2>6. /\ list' \in Seq(Inos) /\ onDisk' \in Seq(Inos) /\ named' \subseteq Inos
        /\ slot'[s].num \in Inos
    BY <1>1, <1>3, <2>1, <2>3 DEF IGetFound, lists, At, EntryOK
  <2> QED BY <2>2, <2>4, <2>5, <2>6, WorkKept
<1>4. CASE IGetLoad(p)
  <2>1. PICK s \in FreeSlots :
           /\ At(p, "iget") /\ SleepAt(p, "load") /\ sl' = Put(sl, p, s)
           /\ slot' = [slot EXCEPT ![s].num = num[p], ![s].count = @ + 1, ![s].lock = TRUE,
                                   ![s].want = FALSE, ![s].upd = FALSE]
    BY <1>4 DEF IGetLoad
  <2>2. s \in Slots /\ slot[s].count = 0
    BY DEF FreeSlots
  <2>3. Steps(p)
    BY <1>1, <1>4, <2>1 DEF IGetLoad, SleepAt, At, Put, Steps, TakesUnlocked, Syncs, Moves,
       Alone, Exclusive, EntryOK, PlaceOK
  <2>4. OnlyEntry(s) /\ slot'[s].num = num[p] /\ slot'[s].count = 1 /\ slot'[s].lock
        /\ ~slot'[s].upd
    BY <1>1, <2>1, <2>2 DEF OnlyEntry, Fields
  <2>5. MayChange(p, s)
    BY <2>2, <2>4 DEF MayChange
  <2>5a. ~Updating(s)'
    <3>1. ~Updating(s)
      BY <2>2 DEF WorkInv, EntryOK, Updating, Syncs
    <3>2. Syncs(p)' => Syncs(p) /\ sl'[p] = sl[p]
      BY <1>1, <1>4 DEF IGetLoad, SleepAt, At, Put, Syncs
    <3> QED BY <2>3, <3>1, <3>2, UpdatingKept DEF Steps, Moves
  <2>6. EntryOK(p)'
    BY <1>1, <1>4, <2>1, <2>2, <2>4, <2>5a DEF IGetLoad, SleepAt, At, Put, Steps, TakesUnlocked,
       Syncs, Moves, Alone, Exclusive, EntryOK, PlaceOK
  <2>7. /\ list' \in Seq(Inos) /\ onDisk' \in Seq(Inos) /\ named' \subseteq Inos
        /\ slot'[s].num \in Inos
    BY <1>1, <1>4, <2>1, <2>4 DEF IGetLoad, lists, At, EntryOK
  <2> QED BY <2>2, <2>3, <2>5, <2>6, <2>7, WorkKept
<1>5. CASE IGetFull(p)
  <2>1. Steps(p)
    BY <1>1, <1>5 DEF IGetFull, UserMode, SleepAt, At, Put, Steps, TakesUnlocked, Syncs, Moves,
       Alone, Exclusive, EntryOK, PlaceOK
  <2>2. EntryOK(p)'
    BY <1>1, <1>5 DEF IGetFull, UserMode, SleepAt, At, Put, Steps, TakesUnlocked, Syncs, Moves,
       Alone, Exclusive, EntryOK, PlaceOK
  <2>3. UNCHANGED <<slot, onDisk>> /\ list' \in Seq(Inos) /\ named' \subseteq Inos
    BY <1>1, <1>5 DEF IGetFull, lists
  <2> QED BY <2>1, <2>2, <2>3, WorkMoves
<1>6. CASE ICopy(p)
  <2>1. PICK s \in Slots : s = sl[p]
    BY <1>1, <1>6 DEF ICopy, At, PlaceOK
  <2>2. Steps(p)
    BY <1>1, <1>6 DEF ICopy, Arrive, GoOn, SleepAt, locals, At, Put, Steps, TakesUnlocked,
       Syncs, Moves, Alone, Exclusive, EntryOK, PlaceOK
  <2>3. Uses(p, s) /\ slot[s].count >= 1 /\ slot[s].count \in Int /\ call[p] # "sync"
    BY <1>1, <1>6, <2>1, UserPlace DEF ICopy, At
  <2>4. OnlyEntry(s)
    BY <1>1, <1>6, <2>1 DEF ICopy, OnlyEntry, Fields, Prele, Released
  <2>5. MayChange(p, s)
    BY <1>1, <1>6, <2>1, <2>3, <2>4 DEF ICopy, At, EntryOK, MayChange, Fields, Prele, Released
  <2>6. EntryOK(p)'
    BY <1>1, <1>6, <2>1, <2>3 DEF ICopy, Arrive, GoOn, SleepAt, locals, At, Put, Steps,
       TakesUnlocked, Syncs, Moves, Alone, Exclusive, EntryOK, PlaceOK, Fields
  <2>7. /\ list' \in Seq(Inos) /\ onDisk' \in Seq(Inos) /\ named' \subseteq Inos
        /\ slot'[s].count > 0 => slot'[s].num \in Inos
    BY <1>1, <1>6, <2>1, <2>3 DEF ICopy, lists, Fields, Prele, Released
  <2> QED BY <2>1, <2>2, <2>5, <2>6, <2>7, WorkKept
<1>7. CASE IGetError(p)
  <2>1. Steps(p)
    BY <1>1, <1>7 DEF IGetError, GoOn, locals, At, Put, Steps, TakesUnlocked, Syncs, Moves,
       Alone, Exclusive, EntryOK, PlaceOK
  <2>1a. ~Updating(sl[p])'
    <3>1. ~Updating(sl[p])
      BY <1>1, <1>7 DEF IGetError, At, PlaceOK, EntryOK, Exclusive
    <3>2. Syncs(p)' => Syncs(p) /\ sl'[p] = sl[p]
      BY <1>1, <1>7 DEF IGetError, GoOn, At, Put, locals, Syncs
    <3>3. sl' = sl
      BY <1>7 DEF IGetError, locals
    <3> QED BY <2>1, <3>3, <3>1, <3>2, UpdatingKept DEF Steps, Moves
  <2>2. EntryOK(p)'
    BY <1>1, <1>7, <2>1a DEF IGetError, GoOn, locals, At, Put, Steps, TakesUnlocked, Syncs,
       Moves, Alone, Exclusive, EntryOK, PlaceOK
  <2>3. UNCHANGED <<slot, onDisk>> /\ list' \in Seq(Inos) /\ named' \subseteq Inos
    BY <1>1, <1>7 DEF IGetError, lists
  <2> QED BY <2>1, <2>2, <2>3, WorkMoves
<1> QED BY <1>2, <1>3, <1>4, <1>5, <1>6, <1>7

\* The caller, with the inode it has.
LEMMA CallerWork ==
    ASSUME WorkInv, RefInv', NEW p \in Procs,
           WriteDir(p) \/ Open1(p) \/ Open1Denied(p) \/ Open1Full(p) \/ Unlinked(p)
    PROVE  WorkInv'
<1>1. /\ RefInv /\ NumbersOK /\ EntryOK(p) /\ PlaceOK(p)
      /\ DOMAIN pc = Procs /\ DOMAIN call = Procs /\ DOMAIN sl = Procs
      /\ DOMAIN back = Procs /\ DOMAIN num = Procs /\ DOMAIN chan = Procs
      /\ list \in Seq(Inos) /\ onDisk \in Seq(Inos) /\ named \subseteq Inos
      /\ DOMAIN slot = Slots
      /\ \A t \in Slots : DOMAIN slot[t] = Fields /\ slot[t].count \in Int
      /\ \A t \in Slots : slot[t].count > 0 => slot[t].num \in Inos
  BY DEF WorkInv, NumbersOK, RefInv, PlacesOK, EntriesOK, Fields
<1>2. CASE WriteDir(p)
  <2>1. Steps(p)
    BY <1>1, <1>2 DEF WriteDir, GoOn, SleepAt, locals, At, Put, Steps, TakesUnlocked, Syncs,
       Moves, Alone, Exclusive, EntryOK, PlaceOK
  <2>2. EntryOK(p)'
    BY <1>1, <1>2 DEF WriteDir, GoOn, SleepAt, locals, At, Put, Steps, TakesUnlocked, Syncs,
       Moves, Alone, Exclusive, EntryOK, PlaceOK
  <2>3. UNCHANGED <<slot, onDisk>> /\ list' \in Seq(Inos) /\ named' \subseteq Inos
    <3>1. sl[p] \in Slots /\ slot[sl[p]].num = num[p] /\ Uses(p, sl[p])
      BY <1>1, <1>2 DEF WriteDir, At, PlaceOK, EntryOK, Uses
    <3>2. num[p] \in Inos
      BY <1>1, <3>1, UserCounts DEF RefInv, EntriesOK
    <3> QED BY <1>1, <1>2, <3>2 DEF WriteDir, lists
  <2> QED BY <2>1, <2>2, <2>3, WorkMoves
<1>3. CASE Open1(p)
  <2>1. PICK s \in Slots : s = sl[p]
    BY <1>1, <1>3 DEF Open1, At, PlaceOK
  <2>2. Steps(p)
    BY <1>1, <1>3 DEF Open1, UserMode, SleepAt, WakeWanting, WakeUpAll, At, Put, Steps,
       TakesUnlocked, Syncs, Moves, Alone, Exclusive, EntryOK, PlaceOK
  <2>3. Uses(p, s) /\ slot[s].count >= 1 /\ slot[s].count \in Int /\ call[p] # "sync"
    BY <1>1, <1>3, <2>1, UserPlace DEF Open1, At
  <2>4. OnlyEntry(s)
    BY <1>1, <1>3, <2>1 DEF Open1, OnlyEntry, Fields, Prele, Released
  <2>5. MayChange(p, s)
    BY <1>1, <1>3, <2>1, <2>3, <2>4 DEF Open1, At, EntryOK, MayChange, Fields, Prele, Released
  <2>6. EntryOK(p)'
    BY <1>1, <1>3, <2>1, <2>3 DEF Open1, UserMode, SleepAt, WakeWanting, WakeUpAll, At, Put,
       Steps, TakesUnlocked, Syncs, Moves, Alone, Exclusive, EntryOK, PlaceOK, Fields
  <2>7. /\ list' \in Seq(Inos) /\ onDisk' \in Seq(Inos) /\ named' \subseteq Inos
        /\ slot'[s].count > 0 => slot'[s].num \in Inos
    BY <1>1, <1>3, <2>1, <2>3 DEF Open1, lists, Fields, Prele, Released
  <2> QED BY <2>1, <2>2, <2>5, <2>6, <2>7, WorkKept
<1>4. CASE Open1Denied(p)
  <2>1. Steps(p)
    BY <1>1, <1>4 DEF Open1Denied, GoOn, locals, At, Put, Steps, TakesUnlocked, Syncs, Moves,
       Alone, Exclusive, EntryOK, PlaceOK
  <2>2. EntryOK(p)'
    BY <1>1, <1>4 DEF Open1Denied, GoOn, locals, At, Put, Steps, TakesUnlocked, Syncs, Moves,
       Alone, Exclusive, EntryOK, PlaceOK
  <2>3. UNCHANGED <<slot, onDisk>> /\ list' \in Seq(Inos) /\ named' \subseteq Inos
    BY <1>1, <1>4 DEF Open1Denied, lists
  <2> QED BY <2>1, <2>2, <2>3, WorkMoves
<1>5. CASE Open1Full(p)
  <2>1. PICK s \in Slots : s = sl[p]
    BY <1>1, <1>5 DEF Open1Full, At, PlaceOK
  <2>2. Steps(p)
    BY <1>1, <1>5 DEF Open1Full, GoOn, locals, WakeWanting, WakeUpAll, At, Put, Steps,
       TakesUnlocked, Syncs, Moves, Alone, Exclusive, EntryOK, PlaceOK
  <2>3. Uses(p, s) /\ slot[s].count >= 1 /\ slot[s].count \in Int /\ call[p] # "sync"
    BY <1>1, <1>5, <2>1, UserPlace DEF Open1Full, At
  <2>4. OnlyEntry(s)
    BY <1>1, <1>5, <2>1 DEF Open1Full, OnlyEntry, Fields, Prele, Released
  <2>5. MayChange(p, s)
    BY <1>1, <1>5, <2>1, <2>3, <2>4 DEF Open1Full, At, EntryOK, MayChange, Fields, Prele, Released
  <2>6. EntryOK(p)'
    BY <1>1, <1>5, <2>1, <2>3 DEF Open1Full, GoOn, locals, WakeWanting, WakeUpAll, At, Put,
       Steps, TakesUnlocked, Syncs, Moves, Alone, Exclusive, EntryOK, PlaceOK, Fields
  <2>7. /\ list' \in Seq(Inos) /\ onDisk' \in Seq(Inos) /\ named' \subseteq Inos
        /\ slot'[s].count > 0 => slot'[s].num \in Inos
    BY <1>1, <1>5, <2>1, <2>3 DEF Open1Full, lists, Fields, Prele, Released
  <2> QED BY <2>1, <2>2, <2>5, <2>6, <2>7, WorkKept
<1>6. CASE Unlinked(p)
  <2>1. PICK s \in Slots : s = sl[p]
    BY <1>1, <1>6 DEF Unlinked, At, PlaceOK
  <2>2. Steps(p)
    BY <1>1, <1>6 DEF Unlinked, GoOn, SleepAt, locals, At, Put, Steps, TakesUnlocked, Syncs,
       Moves, Alone, Exclusive, EntryOK, PlaceOK
  <2>3. Uses(p, s) /\ slot[s].count >= 1 /\ slot[s].count \in Int /\ call[p] # "sync"
    BY <1>1, <1>6, <2>1, UserPlace DEF Unlinked, At
  <2>4. OnlyEntry(s)
    BY <1>1, <1>6, <2>1 DEF Unlinked, OnlyEntry, Fields, Prele, Released
  <2>5. MayChange(p, s)
    BY <1>1, <1>6, <2>1, <2>3, <2>4 DEF Unlinked, At, EntryOK, MayChange, Fields, Prele, Released
  <2>6. EntryOK(p)'
    BY <1>1, <1>6, <2>1, <2>3 DEF Unlinked, GoOn, SleepAt, locals, At, Put, Steps,
       TakesUnlocked, Syncs, Moves, Alone, Exclusive, EntryOK, PlaceOK, Fields
  <2>7. /\ list' \in Seq(Inos) /\ onDisk' \in Seq(Inos) /\ named' \subseteq Inos
        /\ slot'[s].count > 0 => slot'[s].num \in Inos
    BY <1>1, <1>6, <2>1, <2>3 DEF Unlinked, lists, Fields, Prele, Released
  <2> QED BY <2>1, <2>2, <2>5, <2>6, <2>7, WorkKept
<1> QED BY <1>2, <1>3, <1>4, <1>5, <1>6

\* IPut
LEMMA IPutWork ==
    ASSUME WorkInv, RefInv', ~overtaken', NEW p \in Procs,
           IPutShared(p) \/ IPutTrunc(p) \/ IPutUpdate(p) \/ IPutClean(p) \/ Truncated(p)
            \/ IUpdate(p) \/ IPutDone(p)
    PROVE  WorkInv'
<1>1. /\ RefInv /\ NumbersOK /\ EntryOK(p) /\ PlaceOK(p)
      /\ DOMAIN pc = Procs /\ DOMAIN call = Procs /\ DOMAIN sl = Procs
      /\ DOMAIN back = Procs /\ DOMAIN num = Procs /\ DOMAIN chan = Procs
      /\ list \in Seq(Inos) /\ onDisk \in Seq(Inos) /\ named \subseteq Inos
      /\ DOMAIN slot = Slots
      /\ \A t \in Slots : DOMAIN slot[t] = Fields /\ slot[t].count \in Int
      /\ \A t \in Slots : slot[t].count > 0 => slot[t].num \in Inos
  BY DEF WorkInv, NumbersOK, RefInv, PlacesOK, EntriesOK, Fields
<1>2. CASE IPutShared(p)
  <2>1. PICK s \in Slots : s = sl[p]
    BY <1>1, <1>2 DEF IPutShared, AtIPut, GivesUp, At, PlaceOK
  <2>2. Steps(p)
    BY <1>1, <1>2 DEF IPutShared, AtIPut, GivesUp, IPutReturn, UserMode, GoOn, SleepAt,
       WakeWanting, WakeUpAll, At, Put, Steps, TakesUnlocked, Syncs, Moves, Alone, Exclusive,
       EntryOK, PlaceOK
  <2>3. Uses(p, s) /\ slot[s].count >= 1 /\ slot[s].count \in Int /\ call[p] # "sync"
    BY <1>1, <1>2, <2>1, UserPlace DEF IPutShared, AtIPut, GivesUp, At
  <2>4. OnlyEntry(s)
    BY <1>1, <1>2, <2>1 DEF IPutShared, AtIPut, GivesUp, OnlyEntry, Fields, Prele, Released
  <2>5. MayChange(p, s)
    BY <1>1, <1>2, <2>1, <2>3, <2>4 DEF IPutShared, AtIPut, GivesUp, At, EntryOK, MayChange,
       Fields, Prele, Released
  <2>6. EntryOK(p)'
    BY <1>1, <1>2, <2>1, <2>3 DEF IPutShared, AtIPut, GivesUp, IPutReturn, UserMode, GoOn,
       SleepAt, WakeWanting, WakeUpAll, At, Put, Steps, TakesUnlocked, Syncs, Moves, Alone,
       Exclusive, EntryOK, PlaceOK, Fields
  <2>7. /\ list' \in Seq(Inos) /\ onDisk' \in Seq(Inos) /\ named' \subseteq Inos
        /\ slot'[s].count > 0 => slot'[s].num \in Inos
    BY <1>1, <1>2, <2>1, <2>3 DEF IPutShared, AtIPut, GivesUp, lists, Fields, Prele, Released
  <2> QED BY <2>1, <2>2, <2>5, <2>6, <2>7, WorkKept
<1>3. CASE IPutTrunc(p)
  <2>1. PICK s \in Slots : s = sl[p]
    BY <1>1, <1>3 DEF IPutTrunc, AtIPut, GivesUp, At, PlaceOK
  <2>2. Steps(p)
    BY <1>1, <1>3 DEF IPutTrunc, AtIPut, GivesUp, SleepAt, locals, At, Put, Steps,
       TakesUnlocked, Syncs, Moves, Alone, Exclusive, EntryOK, PlaceOK
  <2>3. Uses(p, s) /\ slot[s].count >= 1 /\ slot[s].count \in Int /\ call[p] # "sync"
    BY <1>1, <1>3, <2>1, UserPlace DEF IPutTrunc, AtIPut, GivesUp, At
  <2>4. OnlyEntry(s)
    BY <1>1, <1>3, <2>1 DEF IPutTrunc, AtIPut, GivesUp, OnlyEntry, Fields, Prele, Released
  <2>5. MayChange(p, s)
    BY <1>1, <1>3, <2>1, <2>3, <2>4 DEF IPutTrunc, AtIPut, GivesUp, At, EntryOK, MayChange,
       Fields, Prele, Released
  <2>5a. ~Updating(s)'
    <3>1. ~Updating(s)
      BY <1>3, <2>1 DEF IPutTrunc, GivesUp
    <3>2. Syncs(p)' => Syncs(p) /\ sl'[p] = sl[p]
      BY <1>1, <1>3 DEF IPutTrunc, SleepAt, At, Put, locals, Syncs
    <3> QED BY <2>2, <3>1, <3>2, UpdatingKept DEF Steps, Moves
  <2>6. EntryOK(p)'
    BY <1>1, <1>3, <2>1, <2>3, <2>5a DEF IPutTrunc, AtIPut, GivesUp, SleepAt, locals, At, Put,
       Steps, TakesUnlocked, Syncs, Moves, Alone, Exclusive, EntryOK, PlaceOK, Fields
  <2>7. /\ list' \in Seq(Inos) /\ onDisk' \in Seq(Inos) /\ named' \subseteq Inos
        /\ slot'[s].count > 0 => slot'[s].num \in Inos
    BY <1>1, <1>3, <2>1, <2>3 DEF IPutTrunc, AtIPut, GivesUp, lists, Fields, Prele, Released
  <2> QED BY <2>1, <2>2, <2>5, <2>6, <2>7, WorkKept
<1>4. CASE IPutUpdate(p)
  <2>1. PICK s \in Slots : s = sl[p]
    BY <1>1, <1>4 DEF IPutUpdate, AtIPut, GivesUp, At, PlaceOK
  <2>2. Steps(p)
    BY <1>1, <1>4 DEF IPutUpdate, AtIPut, GivesUp, SleepAt, At, Put, Steps, TakesUnlocked,
       Syncs, Moves, Alone, Exclusive, EntryOK, PlaceOK
  <2>3. Uses(p, s) /\ slot[s].count >= 1 /\ slot[s].count \in Int /\ call[p] # "sync"
    BY <1>1, <1>4, <2>1, UserPlace DEF IPutUpdate, AtIPut, GivesUp, At
  <2>4. OnlyEntry(s)
    BY <1>1, <1>4, <2>1 DEF IPutUpdate, AtIPut, GivesUp, OnlyEntry, Fields, Prele, Released
  <2>5. MayChange(p, s)
    BY <1>1, <1>4, <2>1, <2>3, <2>4 DEF IPutUpdate, AtIPut, GivesUp, At, EntryOK, MayChange,
       Fields, Prele, Released
  <2>5a. ~Updating(s)'
    <3>1. ~Updating(s)
      BY <1>4, <2>1 DEF IPutUpdate, GivesUp
    <3>2. Syncs(p)' => Syncs(p) /\ sl'[p] = sl[p]
      BY <1>1, <1>4 DEF IPutUpdate, AtIPut, At, PlaceOK, Put, Syncs
    <3> QED BY <2>2, <3>1, <3>2, UpdatingKept DEF Steps, Moves
  <2>6. EntryOK(p)'
    BY <1>1, <1>4, <2>1, <2>3, <2>5a DEF IPutUpdate, AtIPut, GivesUp, SleepAt, At, Put, Steps,
       TakesUnlocked, Syncs, Moves, Alone, Exclusive, EntryOK, PlaceOK, Fields
  <2>7. /\ list' \in Seq(Inos) /\ onDisk' \in Seq(Inos) /\ named' \subseteq Inos
        /\ slot'[s].count > 0 => slot'[s].num \in Inos
    BY <1>1, <1>4, <2>1, <2>3 DEF IPutUpdate, AtIPut, GivesUp, lists, Fields, Prele, Released
  <2> QED BY <2>1, <2>2, <2>5, <2>6, <2>7, WorkKept
<1>5. CASE IPutClean(p)
  <2>1. PICK s \in Slots : s = sl[p]
    BY <1>1, <1>5 DEF IPutClean, AtIPut, GivesUp, At, PlaceOK
  <2>2. Steps(p)
    BY <1>1, <1>5 DEF IPutClean, AtIPut, GivesUp, IPutReturn, UserMode, GoOn, SleepAt,
       WakeWanting, WakeUpAll, At, Put, Steps, TakesUnlocked, Syncs, Moves, Alone, Exclusive,
       EntryOK, PlaceOK
  <2>3. Uses(p, s) /\ slot[s].count >= 1 /\ slot[s].count \in Int /\ call[p] # "sync"
    BY <1>1, <1>5, <2>1, UserPlace DEF IPutClean, AtIPut, GivesUp, At
  <2>4. OnlyEntry(s)
    BY <1>1, <1>5, <2>1 DEF IPutClean, AtIPut, GivesUp, OnlyEntry, Fields, Prele, Released
  <2>5. MayChange(p, s)
    BY <1>1, <1>5, <2>1, <2>3, <2>4 DEF IPutClean, AtIPut, GivesUp, At, EntryOK, MayChange,
       Fields, Prele, Released
  <2>6. EntryOK(p)'
    BY <1>1, <1>5, <2>1, <2>3 DEF IPutClean, AtIPut, GivesUp, IPutReturn, UserMode, GoOn,
       SleepAt, WakeWanting, WakeUpAll, At, Put, Steps, TakesUnlocked, Syncs, Moves, Alone,
       Exclusive, EntryOK, PlaceOK, Fields
  <2>7. /\ list' \in Seq(Inos) /\ onDisk' \in Seq(Inos) /\ named' \subseteq Inos
        /\ slot'[s].count > 0 => slot'[s].num \in Inos
    BY <1>1, <1>5, <2>1, <2>3 DEF IPutClean, AtIPut, GivesUp, lists, Fields, Prele, Released
  <2> QED BY <2>1, <2>2, <2>5, <2>6, <2>7, WorkKept
<1>6. CASE Truncated(p)
  <2>1. PICK s \in Slots : s = sl[p]
    BY <1>1, <1>6 DEF Truncated, At, PlaceOK
  <2>2. Steps(p)
    BY <1>1, <1>6 DEF Truncated, SleepAt, At, Put, Steps, TakesUnlocked, Syncs, Moves, Alone,
       Exclusive, EntryOK, PlaceOK
  <2>3. Uses(p, s) /\ slot[s].count >= 1 /\ slot[s].count \in Int /\ call[p] # "sync"
    BY <1>1, <1>6, <2>1, UserPlace DEF Truncated, At
  <2>4. OnlyEntry(s)
    BY <1>1, <1>6, <2>1 DEF Truncated, OnlyEntry, Fields, Prele, Released
  <2>5. MayChange(p, s)
    BY <1>1, <1>6, <2>1, <2>3, <2>4 DEF Truncated, At, EntryOK, MayChange, Fields, Prele, Released
  <2>5a. ~Updating(s)'
    <3>1. ~Updating(s)
      BY <1>1, <1>6, <2>1, <2>3 DEF Truncated, At, EntryOK, Exclusive
    <3>2. Syncs(p)' => Syncs(p) /\ sl'[p] = sl[p]
      BY <1>1, <1>6 DEF Truncated, At, PlaceOK, Put, Syncs
    <3> QED BY <2>2, <3>1, <3>2, UpdatingKept DEF Steps, Moves
  <2>6. EntryOK(p)'
    BY <1>1, <1>6, <2>1, <2>3, <2>5a DEF Truncated, SleepAt, At, Put, Steps, TakesUnlocked,
       Syncs, Moves, Alone, Exclusive, EntryOK, PlaceOK, Fields
  <2>7. /\ list' \in Seq(Inos) /\ onDisk' \in Seq(Inos) /\ named' \subseteq Inos
        /\ slot'[s].count > 0 => slot'[s].num \in Inos
    <3>1. slot[s].num \in Inos /\ slot'[s].num = slot[s].num
      BY <1>1, <1>6, <2>1, <2>3 DEF Truncated, Fields
    <3>2. list' \in Seq(Inos)
      <4>1. list' = list \/ list' = Append(list, slot[s].num)
        BY <1>6, <2>1 DEF Truncated, IFree
      <4>2. Append(list, slot[s].num) \in Seq(Inos)
        BY <1>1, <3>1, AppendProperties
      <4> QED BY <1>1, <4>1, <4>2
    <3> QED BY <1>1, <1>6, <3>1, <3>2 DEF Truncated
  <2> QED BY <2>1, <2>2, <2>5, <2>6, <2>7, WorkKept
<1>7. CASE IUpdate(p)
  <2>1. Steps(p)
    BY <1>1, <1>7 DEF IUpdate, SleepAt, locals, At, Put, Steps, TakesUnlocked, Syncs, Moves,
       Alone, Exclusive, EntryOK, PlaceOK
  <2>1a. Exclusive(p) => ~Updating(sl[p])'
    <3>1. Syncs(p)' => Syncs(p) /\ sl'[p] = sl[p]
      BY <1>1, <1>7 DEF IUpdate, At, locals, Syncs
    <3>2. sl' = sl /\ (Exclusive(p) => ~Updating(sl[p]))
      BY <1>1, <1>7 DEF IUpdate, locals, EntryOK
    <3> QED BY <2>1, <3>1, <3>2, UpdatingKept DEF Steps, Moves
  <2>2. EntryOK(p)'
    BY <1>1, <1>7, <2>1a DEF IUpdate, SleepAt, locals, At, Put, Steps, TakesUnlocked, Syncs,
       Moves, Alone, Exclusive, EntryOK, PlaceOK
  <2>3. UNCHANGED <<slot, onDisk>> /\ list' \in Seq(Inos) /\ named' \subseteq Inos
    BY <1>1, <1>7 DEF IUpdate, lists
  <2> QED BY <2>1, <2>2, <2>3, WorkMoves
<1>8. CASE IPutDone(p)
  <2>1. PICK s \in Slots : s = sl[p]
    BY <1>1, <1>8 DEF IPutDone, At, PlaceOK
  <2>2. Steps(p)
    BY <1>1, <1>8 DEF IPutDone, IPutReturn, UserMode, GoOn, SleepAt, WakeWanting, WakeUpAll, At,
       Put, Steps, TakesUnlocked, Syncs, Moves, Alone, Exclusive, EntryOK, PlaceOK
  <2>3. Uses(p, s) /\ slot[s].count >= 1 /\ slot[s].count \in Int /\ call[p] # "sync"
    BY <1>1, <1>8, <2>1, UserPlace DEF IPutDone, At
  <2>4. OnlyEntry(s)
    BY <1>1, <1>8, <2>1 DEF IPutDone, OnlyEntry, Fields, Prele, Released
  <2>5. MayChange(p, s)
    BY <1>1, <1>8, <2>1, <2>3, <2>4 DEF Exclusive, IPutDone, At, EntryOK, MayChange, Fields,
       Prele, Released
  <2>6. EntryOK(p)'
    BY <1>1, <1>8, <2>1, <2>3 DEF IPutDone, IPutReturn, UserMode, GoOn, SleepAt, WakeWanting,
       WakeUpAll, At, Put, Steps, TakesUnlocked, Syncs, Moves, Alone, Exclusive, EntryOK,
       PlaceOK, Fields
  <2>7. /\ list' \in Seq(Inos) /\ onDisk' \in Seq(Inos) /\ named' \subseteq Inos
        /\ slot'[s].count > 0 => slot'[s].num \in Inos
    BY <1>1, <1>8, <2>1, <2>3 DEF Exclusive, IPutDone, lists, Fields, Prele, Released, At, EntryOK
  <2> QED BY <2>1, <2>2, <2>5, <2>6, <2>7, WorkKept
<1> QED BY <1>2, <1>3, <1>4, <1>5, <1>6, <1>7, <1>8

\* IAlloc
LEMMA IAllocWork ==
    ASSUME WorkInv, RefInv', NEW p \in Procs,
           IAllocWait(p) \/ IAllocSearch(p) \/ IAllocBlock(p) \/ IAllocFound(p)
            \/ IAllocTake(p) \/ IAllocOutside(p) \/ IAllocFree(p) \/ IAllocOccupied(p)
    PROVE  WorkInv'
<1>1. /\ RefInv /\ NumbersOK /\ EntryOK(p) /\ PlaceOK(p)
      /\ DOMAIN pc = Procs /\ DOMAIN call = Procs /\ DOMAIN sl = Procs
      /\ DOMAIN back = Procs /\ DOMAIN num = Procs /\ DOMAIN chan = Procs
      /\ list \in Seq(Inos) /\ onDisk \in Seq(Inos) /\ named \subseteq Inos
      /\ DOMAIN slot = Slots
      /\ \A t \in Slots : DOMAIN slot[t] = Fields /\ slot[t].count \in Int
      /\ \A t \in Slots : slot[t].count > 0 => slot[t].num \in Inos
  BY DEF WorkInv, NumbersOK, RefInv, PlacesOK, EntriesOK, Fields
<1>2. CASE IAllocWait(p)
  <2>1. Steps(p)
    BY <1>1, <1>2 DEF IAllocWait, SleepAt, locals, At, Put, Steps, TakesUnlocked, Syncs, Moves,
       Alone, Exclusive, EntryOK, PlaceOK
  <2>2. EntryOK(p)'
    BY <1>1, <1>2 DEF IAllocWait, SleepAt, locals, At, Put, Steps, TakesUnlocked, Syncs, Moves,
       Alone, Exclusive, EntryOK, PlaceOK
  <2>3. UNCHANGED <<slot, onDisk>> /\ list' \in Seq(Inos) /\ named' \subseteq Inos
    BY <1>1, <1>2 DEF IAllocWait, lists
  <2> QED BY <2>1, <2>2, <2>3, WorkMoves
<1>3. CASE IAllocSearch(p)
  <2>1. Steps(p)
    BY <1>1, <1>3 DEF IAllocSearch, SleepAt, At, Put, Steps, TakesUnlocked, Syncs, Moves, Alone,
       Exclusive, EntryOK, PlaceOK
  <2>2. EntryOK(p)'
    BY <1>1, <1>3 DEF IAllocSearch, SleepAt, At, Put, Steps, TakesUnlocked, Syncs, Moves, Alone,
       Exclusive, EntryOK, PlaceOK
  <2>3. UNCHANGED <<slot, onDisk>> /\ list' \in Seq(Inos) /\ named' \subseteq Inos
    BY <1>1, <1>3 DEF IAllocSearch, lists
  <2> QED BY <2>1, <2>2, <2>3, WorkMoves
<1>4. CASE IAllocBlock(p)
  <2>1. Steps(p)
    BY <1>1, <1>4 DEF IAllocBlock, SleepAt, At, Put, Steps, TakesUnlocked, Syncs, Moves, Alone,
       Exclusive, EntryOK, PlaceOK
  <2>2. EntryOK(p)'
    BY <1>1, <1>4 DEF IAllocBlock, SleepAt, At, Put, Steps, TakesUnlocked, Syncs, Moves, Alone,
       Exclusive, EntryOK, PlaceOK
  <2>3. UNCHANGED <<slot, onDisk>> /\ list' \in Seq(Inos) /\ named' \subseteq Inos
    BY <1>1, <1>4, SearchedNumbers DEF IAllocBlock, lists
  <2> QED BY <2>1, <2>2, <2>3, WorkMoves
<1>5. CASE IAllocFound(p)
  <2>1. Steps(p)
    BY <1>1, <1>5 DEF IAllocFound, UserMode, GoOn, SleepAt, locals, WakeUpAll, At, Put, Steps,
       TakesUnlocked, Syncs, Moves, Alone, Exclusive, EntryOK, PlaceOK
  <2>2. EntryOK(p)'
    BY <1>1, <1>5 DEF IAllocFound, UserMode, GoOn, SleepAt, locals, WakeUpAll, At, Put, Steps,
       TakesUnlocked, Syncs, Moves, Alone, Exclusive, EntryOK, PlaceOK
  <2>3. UNCHANGED <<slot, onDisk>> /\ list' \in Seq(Inos) /\ named' \subseteq Inos
    BY <1>1, <1>5, SearchedNumbers DEF IAllocFound, lists
  <2> QED BY <2>1, <2>2, <2>3, WorkMoves
<1>6. CASE IAllocTake(p)
  <2>1. Steps(p)
    BY <1>1, <1>6 DEF IAllocTake, GoOn, At, Put, Steps, TakesUnlocked, Syncs, Moves, Alone,
       Exclusive, EntryOK, PlaceOK
  <2>2. EntryOK(p)'
    <3>1. Last(list) \in Inos
      BY <1>1, <1>6, LastFront DEF IAllocTake
    <3> QED BY <1>1, <1>6, <3>1 DEF IAllocTake, GoOn, At, Put, Steps, TakesUnlocked, Syncs,
       Moves, Alone, Exclusive, EntryOK, PlaceOK
  <2>3. UNCHANGED <<slot, onDisk>> /\ list' \in Seq(Inos) /\ named' \subseteq Inos
    BY <1>1, <1>6, LastFront DEF IAllocTake, lists
  <2> QED BY <2>1, <2>2, <2>3, WorkMoves
<1>7. CASE IAllocOutside(p)
  <2>1. Steps(p)
    BY <1>1, <1>7 DEF IAllocOutside, UserMode, SleepAt, At, Put, Steps, TakesUnlocked, Syncs,
       Moves, Alone, Exclusive, EntryOK, PlaceOK
  <2>2. EntryOK(p)'
    BY <1>1, <1>7 DEF IAllocOutside, UserMode, SleepAt, At, Put, Steps, TakesUnlocked, Syncs,
       Moves, Alone, Exclusive, EntryOK, PlaceOK
  <2>3. UNCHANGED <<slot, onDisk>> /\ list' \in Seq(Inos) /\ named' \subseteq Inos
    BY <1>1, <1>7 DEF IAllocOutside, lists
  <2> QED BY <2>1, <2>2, <2>3, WorkMoves
<1>8. CASE IAllocFree(p)
  <2>1. PICK s \in Slots : s = sl[p]
    BY <1>1, <1>8 DEF IAllocFree, At, PlaceOK
  <2>2. Steps(p)
    BY <1>1, <1>8 DEF IAllocFree, SleepAt, locals, At, Put, Steps, TakesUnlocked, Syncs, Moves,
       Alone, Exclusive, EntryOK, PlaceOK
  <2>3. Uses(p, s) /\ slot[s].count >= 1 /\ slot[s].count \in Int /\ call[p] # "sync"
    BY <1>1, <1>8, <2>1, UserPlace DEF IAllocFree, At
  <2>4. OnlyEntry(s)
    BY <1>1, <1>8, <2>1 DEF IAllocFree, OnlyEntry, Fields, Prele, Released
  <2>5. MayChange(p, s)
    BY <1>1, <1>8, <2>1, <2>3, <2>4 DEF IAllocFree, At, EntryOK, MayChange, Fields, Prele, Released
  <2>6. EntryOK(p)'
    BY <1>1, <1>8, <2>1, <2>3 DEF IAllocFree, SleepAt, locals, At, Put, Steps, TakesUnlocked,
       Syncs, Moves, Alone, Exclusive, EntryOK, PlaceOK, Fields
  <2>7. /\ list' \in Seq(Inos) /\ onDisk' \in Seq(Inos) /\ named' \subseteq Inos
        /\ slot'[s].count > 0 => slot'[s].num \in Inos
    BY <1>1, <1>8, <2>1, <2>3 DEF IAllocFree, lists, Fields, Prele, Released
  <2> QED BY <2>1, <2>2, <2>5, <2>6, <2>7, WorkKept
<1>9. CASE IAllocOccupied(p)
  <2>1. Steps(p)
    BY <1>1, <1>9 DEF IAllocOccupied, GoOn, At, Put, Steps, TakesUnlocked, Syncs, Moves, Alone,
       Exclusive, EntryOK, PlaceOK
  <2>2. EntryOK(p)'
    BY <1>1, <1>9 DEF IAllocOccupied, GoOn, At, Put, Steps, TakesUnlocked, Syncs, Moves, Alone,
       Exclusive, EntryOK, PlaceOK
  <2>3. UNCHANGED <<slot, onDisk>> /\ list' \in Seq(Inos) /\ named' \subseteq Inos
    BY <1>1, <1>9 DEF IAllocOccupied, lists
  <2> QED BY <2>1, <2>2, <2>3, WorkMoves
<1> QED BY <1>2, <1>3, <1>4, <1>5, <1>6, <1>7, <1>8, <1>9

\* Update takes entries that are not locked, so none that another writes or cuts.
LEMMA SyncWork ==
    ASSUME WorkInv, RefInv', NEW p \in Procs,
           Sync(p) \/ SyncSuper(p) \/ SyncInode(p) \/ SyncWritten(p) \/ SyncEnd(p)
    PROVE  WorkInv'
<1>1. /\ RefInv /\ NumbersOK /\ EntryOK(p) /\ PlaceOK(p)
      /\ DOMAIN pc = Procs /\ DOMAIN call = Procs /\ DOMAIN sl = Procs
      /\ DOMAIN back = Procs /\ DOMAIN num = Procs /\ DOMAIN chan = Procs
      /\ list \in Seq(Inos) /\ onDisk \in Seq(Inos) /\ named \subseteq Inos
      /\ DOMAIN slot = Slots
      /\ \A t \in Slots : DOMAIN slot[t] = Fields /\ slot[t].count \in Int
      /\ \A t \in Slots : slot[t].count > 0 => slot[t].num \in Inos
  BY DEF WorkInv, NumbersOK, RefInv, PlacesOK, EntriesOK, Fields
<1>2. CASE Sync(p)
  <2>1. Steps(p)
    BY <1>1, <1>2 DEF Sync, Enters, GoOn, SleepAt, At, Put, Steps, TakesUnlocked, Syncs, Moves,
       Alone
  <2>2. EntryOK(p)'
    BY <1>1, <1>2 DEF Sync, Enters, GoOn, SleepAt, At, Put, Syncs, Exclusive, EntryOK
  <2>3. UNCHANGED <<slot, onDisk>> /\ list' \in Seq(Inos) /\ named' \subseteq Inos
    BY <1>1, <1>2 DEF Sync
  <2> QED BY <2>1, <2>2, <2>3, WorkMoves
<1>3. CASE SyncSuper(p)
  <2>1. Steps(p)
    BY <1>1, <1>3 DEF SyncSuper, SleepAt, locals, At, Put, Steps, TakesUnlocked, Syncs, Moves,
       Alone
  <2>2. EntryOK(p)'
    BY <1>1, <1>3 DEF SyncSuper, SleepAt, locals, At, Put, Syncs, Exclusive, EntryOK
  <2>3. /\ slot' = slot /\ list' \in Seq(Inos) /\ onDisk' \in Seq(Inos)
        /\ named' \subseteq Inos
    BY <1>1, <1>3 DEF SyncSuper
  <2>4. 1 \in Slots
    BY InodesAssumption DEF Slots
  <2> QED BY <1>1, <2>1, <2>2, <2>3, <2>4, WorkKept DEF MayChange
<1>4. CASE SyncInode(p)
  <2>1. PICK s \in Slots : s = scan[p]
    BY <1>4 DEF SyncInode
  <2>2. call[p] = "sync"
    BY <1>1, <1>4 DEF SyncInode, At, PlaceOK
  <2>3. CASE slot[s].lock \/ slot[s].count = 0 \/ ~slot[s].upd
    <3>1. /\ pc' = Put(pc, p, "sync")
          /\ UNCHANGED <<slot, num, sl, back, call, lists, named, chan>>
      BY <1>4, <2>1, <2>3 DEF SyncInode, GoOn
    <3>2. Steps(p) /\ EntryOK(p)'
      BY <1>1, <3>1 DEF Put, Steps, TakesUnlocked, Syncs, Moves, Alone, Exclusive, EntryOK
    <3> QED BY <1>1, <3>1, <3>2, WorkMoves DEF lists
  <2>4. CASE ~(slot[s].lock \/ slot[s].count = 0 \/ ~slot[s].upd)
    <3>1. /\ slot' = [slot EXCEPT ![s].lock = TRUE]
          /\ num' = Put(num, p, slot[s].num)
          /\ sl' = Put(sl, p, s) /\ back' = Put(back, p, "sync")
          /\ pc' = Put(pc, p, "update")
          /\ UNCHANGED <<call, lists, named, chan>>
      BY <1>4, <2>1, <2>4 DEF SyncInode, SleepAt
    <3>2. slot[s].count > 0
      BY <1>1, <2>4, CountsNatural
    <3>3. OnlyEntry(s) /\ slot'[s].num = slot[s].num /\ slot'[s].count = slot[s].count
      BY <1>1, <3>1 DEF OnlyEntry, Fields
    <3>4. Steps(p)
      BY <1>1, <2>4, <3>1 DEF Put, Steps, TakesUnlocked, Syncs, Moves, Alone
    <3>5. EntryOK(p)'
      BY <1>1, <2>2, <3>1, <3>2, <3>3 DEF Put, Syncs, Exclusive, EntryOK
    <3>6. MayChange(p, s)
      BY <2>4, <3>2, <3>3 DEF MayChange
    <3> QED BY <1>1, <3>1, <3>2, <3>3, <3>4, <3>5, <3>6, WorkKept DEF lists
  <2> QED BY <2>3, <2>4
<1>5. CASE SyncWritten(p)
  <2>1. PICK s \in Slots : s = sl[p] /\ Syncs(p)
    BY <1>1, <1>5 DEF SyncWritten, At, PlaceOK, Syncs
  <2>2. Steps(p)
    BY <1>1, <1>5 DEF SyncWritten, GoOn, WakeWanting, WakeUpAll, At, Put, Steps, TakesUnlocked,
       Syncs, Moves, Alone
  <2>3. OnlyEntry(s) /\ slot'[s].num = slot[s].num /\ slot'[s].count = slot[s].count
    BY <1>1, <1>5, <2>1 DEF SyncWritten, Prele, OnlyEntry, Fields
  <2>4. EntryOK(p)'
    BY <1>1, <1>5 DEF SyncWritten, GoOn, At, Put, Syncs, Exclusive, EntryOK
  <2>5. MayChange(p, s)
    BY <2>1, <2>3 DEF MayChange
  <2>6. /\ list' \in Seq(Inos) /\ onDisk' \in Seq(Inos) /\ named' \subseteq Inos
        /\ slot'[s].count > 0 => slot'[s].num \in Inos
    BY <1>1, <1>5, <2>3 DEF SyncWritten, lists
  <2> QED BY <2>2, <2>4, <2>5, <2>6, WorkKept
<1>6. CASE SyncEnd(p)
  <2>1. Steps(p)
    BY <1>1, <1>6 DEF SyncEnd, UserMode, SleepAt, At, Put, Steps, TakesUnlocked, Syncs, Moves,
       Alone
  <2>2. EntryOK(p)'
    BY <1>1, <1>6 DEF SyncEnd, UserMode, SleepAt, At, Put, Syncs, Exclusive, EntryOK
  <2>3. UNCHANGED <<slot, onDisk>> /\ list' \in Seq(Inos) /\ named' \subseteq Inos
    BY <1>1, <1>6 DEF SyncEnd
  <2> QED BY <2>1, <2>2, <2>3, WorkMoves
<1> QED BY <1>2, <1>3, <1>4, <1>5, <1>6

LEMMA WorkInit == Init => WorkInv
<1> SUFFICES ASSUME Init  PROVE WorkInv
  OBVIOUS
<1>1. RefInv
  BY Started DEF Init, Boot
<1>2. NInodes \in Nat /\ ListSize \in Nat
  BY InodesAssumption
<1>3. \E x \in {ListSize, NInodes} : \A y \in {ListSize, NInodes} : x <= y
  BY <1>2
<1>4. Min({ListSize, NInodes}) \in Nat /\ Min({ListSize, NInodes}) <= NInodes
  <2>1. /\ Min({ListSize, NInodes}) \in {ListSize, NInodes}
        /\ \A y \in {ListSize, NInodes} : Min({ListSize, NInodes}) <= y
    BY <1>3 DEF Min
  <2> QED BY <1>2, <2>1
<1>5. PICK k : k = Min({ListSize, NInodes})
  OBVIOUS
<1>6. list \in [1..k -> Inos]
  BY <1>2, <1>4, <1>5 DEF Init, Inos
<1>7. list \in Seq(Inos) /\ onDisk \in Seq(Inos)
  <2>1. onDisk = list /\ k \in Nat
    BY <1>4, <1>5 DEF Init
  <2> QED BY <1>6, <2>1, SeqDef
<1>8. NumbersOK
  BY <1>7 DEF Init, NumbersOK, EmptyTable
<1> QED BY <1>1, <1>8 DEF WorkInv, EntryOK, Exclusive, Syncs, Init

\* The history of an entry given up under Update is kept.
LEMMA OvertakenKept == [Next]_vars /\ ~overtaken' => ~overtaken
<1> SUFFICES ASSUME [Next]_vars, overtaken  PROVE overtaken'
  OBVIOUS
<1>1. CASE UNCHANGED vars
  BY <1>1 DEF vars, history
<1>2. CASE Crash
  BY <1>2 DEF Crash
<1>3. ASSUME NEW p \in Procs, Step(p)  PROVE overtaken'
  BY <1>3 DEF Step, history, GivesUp, Open, UnLink, Creat, Close, Sync, IGetWait, IGetFound,
     IGetLoad, IGetFull, ICopy, IGetError, WriteDir, Open1, Open1Denied, Open1Full, Unlinked,
     IPutShared, IPutTrunc, IPutUpdate, IPutClean, Truncated, IUpdate, IPutDone, IAllocWait,
     IAllocSearch, IAllocBlock, IAllocFound, IAllocTake, IAllocOutside, IAllocFree,
     IAllocOccupied, SyncSuper, SyncInode, SyncWritten, SyncEnd
<1> QED BY <1>1, <1>2, <1>3 DEF Next, NotFollowed

LEMMA WorkNext ==
    ASSUME WorkInv, [Next]_vars, ~overtaken'
    PROVE  WorkInv'
<1>1. RefInv'
  BY RefNext DEF WorkInv
<1>2. CASE UNCHANGED vars
  BY <1>2 DEF WorkInv, NumbersOK, EntryOK, Exclusive, Syncs, Updating, RefInv, EntriesOK,
     PlacesOK, PlaceOK, OneCopy, RefCounts, Users, Uses, vars, locals, lists
<1>3. CASE Crash
  <2>1. PICK lost : named' = {i \in named : disk[i].mode} \ lost
    BY <1>3 DEF Crash
  <2>2. list' \in Seq(Inos) /\ onDisk' \in Seq(Inos) /\ named' \subseteq Inos
    BY <1>3, <2>1 DEF Crash, WorkInv, NumbersOK
  <2>3. \A s \in Slots : slot'[s].count = 0
    BY <1>3 DEF Crash, EmptyTable
  <2>4. NumbersOK' /\ \A p \in Procs : EntryOK(p)'
    BY <1>3, <2>2, <2>3 DEF Crash, NumbersOK, EntryOK, Exclusive, Syncs
  <2> QED BY <1>1, <2>4 DEF WorkInv
<1>4. ASSUME NEW p \in Procs, Step(p)  PROVE WorkInv'
  BY <1>1, <1>4, CallsWork, IGetWork, CallerWork, IPutWork, IAllocWork, SyncWork DEF Step
<1> QED BY <1>2, <1>3, <1>4 DEF Next, NotFollowed

\* WorkInv holds, with crashes, failed reads and Update, until an entry is given up while
\* Update writes it: the entry that a process reads into, cuts or writes back is locked
\* and has no other user, and Update does not come to it (IGet 107-153, IPut 201-224,
\* UpdateInodeTable 233-255, IAlloc 281-299), which the lock alone does not see to.
THEOREM WorkInvariance == Spec => [](~overtaken => WorkInv)
<1>1. Init => (~overtaken => WorkInv)
  BY WorkInit
<1>2. (~overtaken => WorkInv) /\ [Next]_vars => (~overtaken => WorkInv)'
  BY WorkNext, OvertakenKept
<1> QED BY <1>1, <1>2, PTL DEF Spec

\* The entry of a process is still that of its inode when it has slept, although the
\* lock of the entry does not keep others out: whoever releases an entry is the only one
\* that refers to it (IPut 201-204), and only Update can be at work on it uncounted.
THEOREM WorksOnItsInodeHolds == Spec => []WorksOnItsInode
<1>1. (~overtaken => WorkInv) => WorksOnItsInode
  BY DEF WorkInv, EntryOK, WorksOnItsInode
<1> QED BY <1>1, WorkInvariance, PTL


-----------------------------------------------------------------------------
\* Names lead to inodes in use

\* Who reads the entry, cuts its file, or writes it for the last time
Loading(s)  == \E p \in Procs : pc[p] \in {"load", "unread"} /\ sl[p] = s
Cutting(s)  == \E p \in Procs : pc[p] = "trunc" /\ sl[p] = s
Flushing(s) == \E p \in Procs : pc[p] = "update" /\ call[p] # "sync" /\ sl[p] = s

Live(s)     == slot[s].count > 0 /\ ~Loading(s)
AsOnDisk(s) == /\ disk[slot[s].num].mode <=> slot[s].mode
               /\ disk[slot[s].num].nlink <=> slot[s].nlink

\* What a name leads to, in core and, if it has no copy there, on the disk
NamesLive ==
    \A i \in named :
        /\ \A s \in Slots : Live(s) /\ slot[s].num = i => slot[s].mode /\ slot[s].nlink
        /\ (\A s \in Slots : ~(Live(s) /\ slot[s].num = i)) => disk[i].mode

\* A copy that was not changed is that of the disk, unless it was never read; and an
\* inode that is free in core is free on the disk, until that is written.
CopiesSame == \A s \in Slots :
    Live(s) /\ ~slot[s].upd /\ ~Cutting(s) => AsOnDisk(s)

FreeSame == \A s \in Slots :
    Live(s) /\ ~slot[s].mode /\ ~Flushing(s) => ~disk[slot[s].num].mode

\* Update may write the inode of a file that has lost its name, but not of another.
Wanted(i)  == i \in named \/ \E p \in Procs : pc[p] = "writedir" /\ num[p] = i
DiskLinked == \A i \in Inos : Wanted(i) /\ disk[i].mode => disk[i].nlink

\* What a process knows of the inode it works on.  An unlink that has waited in IGet
\* is never woken, so one that goes on has just read the name.
TaskOK(p) ==
    /\ pc[p] \in {"ialloc", "search", "pop", "chosen", "writedir"} \/ back[p] = "pop"
          => call[p] = "creat"
    /\ pc[p] = "trunc"  => ~slot[sl[p]].nlink
    /\ pc[p] = "write" /\ call[p] # "sync" => AsOnDisk(sl[p])
    /\ pc[p] = "writedir" =>
          /\ slot[sl[p]].mode /\ slot[sl[p]].nlink /\ num[p] \notin named
          /\ \A q \in Procs \ {p} : pc[q] = "writedir" => num[q] # num[p]
    /\ call[p] = "unlink" =>
          /\ pc[p] = "iget" => chan[p] = Own \/ (cpu = p /\ num[p] \in named)
          /\ pc[p] = "load" => num[p] \in named
          /\ pc[p] = "locked" =>
                /\ slot[sl[p]].mode
                /\ \A q \in Procs \ {p} : pc[q] = "writedir" => num[q] # num[p]

AliveInv == /\ WorkInv /\ NamesLive /\ CopiesSame /\ FreeSame /\ DiskLinked
            /\ \A p \in Procs : TaskOK(p)

LEMMA Holds ==
    ASSUME WorkInv, NEW p \in Procs,
           pc[p] \in {"load", "unread", "chosen", "writedir", "locked", "iput", "trunc",
                     "update", "write"}
    PROVE  /\ sl[p] \in Slots /\ slot[sl[p]].count > 0 /\ slot[sl[p]].num \in Inos
           /\ pc[p] \notin {"update", "write"} => call[p] # "sync"
           /\ call[p] # "sync" => Uses(p, sl[p])
           /\ pc[p] \notin {"load", "unread"} => Live(sl[p])
<1>1. EntryOK(p) /\ PlaceOK(p)
  BY DEF WorkInv, RefInv, PlacesOK
<1>2. /\ sl[p] \in Slots /\ (pc[p] \notin {"update", "write"} => call[p] # "sync")
      /\ call[p] # "sync" => Uses(p, sl[p])
  BY <1>1 DEF PlaceOK, Uses
<1>3. slot[sl[p]].count > 0
  <2>1. CASE call[p] # "sync"
    BY <1>2, <2>1, UserCounts DEF WorkInv, RefInv, EntriesOK
  <2>2. CASE call[p] = "sync"
    BY <1>1, <1>2, <2>2 DEF EntryOK, Syncs
  <2> QED BY <2>1, <2>2
<1>4. slot[sl[p]].num \in Inos
  BY <1>2, <1>3 DEF WorkInv, NumbersOK
<1>5. ASSUME pc[p] \notin {"load", "unread"}, NEW q \in Procs,
             pc[q] \in {"load", "unread"}, sl[q] = sl[p]
      PROVE  FALSE
  <2>1. EntryOK(q) /\ PlaceOK(q) /\ q # p
    BY <1>5 DEF WorkInv, RefInv, PlacesOK
  <2>2. Uses(q, sl[p]) /\ slot[sl[p]].count = 1 /\ ~Updating(sl[p])
    BY <1>5, <2>1 DEF EntryOK, Exclusive, PlaceOK, Uses
  <2>3. CASE call[p] # "sync"
    BY <1>2, <2>1, <2>2, <2>3, UserCounts DEF WorkInv, RefInv, EntriesOK
  <2>4. CASE call[p] = "sync"
    BY <1>2, <2>2, <2>4 DEF Updating
  <2> QED BY <2>3, <2>4
<1> QED BY <1>2, <1>3, <1>4, <1>5 DEF Live, Loading

\* The entry of a process that has it for itself is nobody else's.
LEMMA ForItself ==
    ASSUME WorkInv, NEW p \in Procs, NEW q \in Procs \ {p}, Exclusive(q),
           pc[p] \in {"load", "unread", "chosen", "writedir", "locked", "iput", "trunc",
                     "update", "write"}
    PROVE  sl[q] # sl[p] /\ slot[sl[q]].num # slot[sl[p]].num
<1>1. /\ sl[p] \in Slots /\ slot[sl[p]].count > 0 /\ slot[sl[p]].num \in Inos
      /\ call[p] # "sync" => Uses(p, sl[p])
      /\ pc[p] \notin {"update", "write"} => call[p] # "sync"
  BY Holds
<1>2. sl[q] \in Slots /\ Uses(q, sl[q]) /\ slot[sl[q]].count > 0
  BY Holds DEF Exclusive
<1>3. slot[sl[q]].count = 1 /\ ~Updating(sl[q])
  BY DEF WorkInv, EntryOK
<1>4. sl[q] # sl[p]
  <2>1. CASE call[p] # "sync"
    BY <1>1, <1>2, <1>3, <2>1, UserCounts DEF WorkInv, RefInv, EntriesOK
  <2>2. CASE call[p] = "sync"
    BY <1>1, <1>3, <2>2 DEF Updating
  <2> QED BY <2>1, <2>2
<1>5. slot[sl[p]].num # NoIno
  BY <1>1 DEF Inos, NoIno
<1> QED BY <1>1, <1>2, <1>4, <1>5 DEF WorkInv, RefInv, OneCopy

\* Of two entries in use with the same number there is one.
LEMMA Same ==
    ASSUME WorkInv, NEW s \in Slots, NEW t \in Slots, slot[s].count > 0, slot[t].count > 0,
           slot[s].num = slot[t].num
    PROVE  s = t
<1>1. slot[s].num # NoIno
  BY DEF WorkInv, NumbersOK, Inos, NoIno
<1> QED BY <1>1 DEF WorkInv, RefInv, OneCopy

-----------------------------------------------------------------------------
\* What a step does to what the others know

\* The flags of the entry s, for a process with the CPU that may change them
FlagsFor(p, s) ==
    \/ slot' = slot
    \/ /\ OnlyEntry(s)
       /\ \/ /\ slot'[s].mode <=> slot[s].mode
             /\ slot'[s].nlink <=> slot[s].nlink
             /\ slot'[s].num = slot[s].num
          \/ Uses(p, s) /\ slot[s].count = 1
          \/ slot[s].count = 0
          \/ /\ Uses(p, s) /\ slot'[s].num = slot[s].num
             /\ \A q \in Procs \ {p} :
                   /\ sl[q] = s /\ pc[q] = "writedir" => slot'[s].mode /\ slot'[s].nlink
                   /\ sl[q] = s /\ pc[q] = "locked" /\ call[q] = "unlink" => slot'[s].mode

\* Nobody who waits in IGet is woken.
Undisturbed(p) ==
    /\ Moves(p) /\ cpu \in {p, NoProc}
    /\ \A q \in Procs \ {p} : chan'[q] = Own <=> chan[q] = Own

LEMMA OthersTasks ==
    ASSUME AliveInv, NEW p \in Procs, NEW s \in Slots, Undisturbed(p), FlagsFor(p, s),
           \A i \in Inos : disk'[i] = disk[i] \/
               (pc[p] = "update" /\ i = num[p]),
           \A q \in Procs \ {p} :
               /\ pc[q] = "writedir" => /\ num[q] \notin named'
                                        /\ pc'[p] = "writedir" => num[q] # num'[p]
               /\ call[q] = "unlink" /\ pc[q] = "load" => num[q] \in named'
               /\ call[q] = "unlink" /\ pc[q] = "locked" =>
                     (pc'[p] = "writedir" => num[q] # num'[p])
    PROVE  \A q \in Procs \ {p} : TaskOK(q)'
<1> SUFFICES ASSUME NEW q \in Procs \ {p}
             PROVE  TaskOK(q)'
  OBVIOUS
<1>1. TaskOK(q) /\ WorkInv /\ EntryOK(q) /\ PlaceOK(q)
  BY DEF AliveInv, WorkInv, RefInv, PlacesOK
<1>2. /\ pc'[q] = pc[q] /\ call'[q] = call[q] /\ sl'[q] = sl[q] /\ back'[q] = back[q]
      /\ num'[q] = num[q] /\ (chan'[q] = Own <=> chan[q] = Own) /\ cpu # q
      /\ \A r \in Procs \ {p} : pc'[r] = pc[r] /\ num'[r] = num[r]
  BY InodesAssumption DEF Undisturbed, Moves, Alone
<1>3. CASE Exclusive(q) /\ pc[q] \notin {"load", "unread"}
  <2>1. sl[q] \in Slots /\ Uses(q, sl[q]) /\ slot[sl[q]].num \in Inos /\ slot[sl[q]].count = 1
    BY <1>1, <1>3, Holds DEF EntryOK, Exclusive
  <2>2. Uses(p, s) => sl[q] # s
    BY <1>1, <2>1, UserCounts DEF WorkInv, RefInv, EntriesOK
  <2>3. /\ slot'[sl[q]].num = slot[sl[q]].num
        /\ slot'[sl[q]].mode <=> slot[sl[q]].mode
        /\ slot'[sl[q]].nlink <=> slot[sl[q]].nlink
    BY <2>1, <2>2 DEF FlagsFor, OnlyEntry
  <2>4. pc[p] = "update" => slot[sl[q]].num # num[p]
    BY <1>1, <1>3, ForItself DEF WorkInv, EntryOK
  <2>5. disk'[slot[sl[q]].num] = disk[slot[sl[q]].num]
    BY <2>1, <2>4
  <2> QED BY <1>1, <1>2, <1>3, <2>3, <2>5 DEF TaskOK, AsOnDisk, Exclusive
<1>4. CASE pc[q] = "writedir"
  <2>1. sl[q] \in Slots /\ Uses(q, sl[q]) /\ slot[sl[q]].count > 0
    BY <1>1, <1>4, Holds
  <2>2. Uses(p, s) /\ slot[s].count = 1 => sl[q] # s
    BY <1>1, <2>1, UserCounts DEF WorkInv, RefInv, EntriesOK
  <2>3. slot'[sl[q]].mode /\ slot'[sl[q]].nlink
    BY <1>1, <1>4, <2>1, <2>2 DEF FlagsFor, OnlyEntry, TaskOK
  <2>4. num[q] \notin named' /\ \A r \in Procs \ {q} : pc'[r] = "writedir" => num'[r] # num[q]
    BY <1>1, <1>2, <1>4 DEF TaskOK
  <2> QED BY <1>1, <1>2, <1>4, <2>3, <2>4 DEF TaskOK
<1>5. CASE pc[q] = "locked" /\ call[q] = "unlink"
  <2>1. sl[q] \in Slots /\ Uses(q, sl[q]) /\ slot[sl[q]].count > 0
    BY <1>1, <1>5, Holds
  <2>2. Uses(p, s) /\ slot[s].count = 1 => sl[q] # s
    BY <1>1, <2>1, UserCounts DEF WorkInv, RefInv, EntriesOK
  <2>3. slot'[sl[q]].mode
    BY <1>1, <1>5, <2>1, <2>2 DEF FlagsFor, OnlyEntry, TaskOK
  <2>4. \A r \in Procs \ {q} : pc'[r] = "writedir" => num'[r] # num[q]
    BY <1>1, <1>2, <1>5 DEF TaskOK
  <2> QED BY <1>1, <1>2, <1>5, <2>3, <2>4 DEF TaskOK
<1>6. CASE /\ ~Exclusive(q) \/ pc[q] \in {"load", "unread"}
           /\ pc[q] # "writedir" /\ ~(pc[q] = "locked" /\ call[q] = "unlink")
  <2>1. pc[q] # "trunc" /\ (pc[q] = "write" => call[q] = "sync")
    BY <1>1, <1>6 DEF Exclusive, PlaceOK
  <2> QED BY <1>1, <1>2, <1>6, <2>1 DEF TaskOK
<1> QED BY <1>3, <1>4, <1>5, <1>6

\* A step that changes nothing about the entries that are in core and read.
LEMMA SameNames ==
    ASSUME AliveInv, UNCHANGED disk, UNCHANGED named,
           \A i \in Inos : Wanted(i)' => Wanted(i),
           \A t \in Slots :
               /\ Live(t)' <=> Live(t)
               /\ Live(t) => /\ slot'[t].num = slot[t].num
                             /\ slot'[t].mode <=> slot[t].mode
                             /\ slot'[t].nlink <=> slot[t].nlink
                             /\ slot[t].upd => slot'[t].upd
                             /\ Cutting(t) => Cutting(t)'
                             /\ Flushing(t) => Flushing(t)'
    PROVE  NamesLive' /\ CopiesSame' /\ FreeSame' /\ DiskLinked'
<1>1. NamesLive'
  BY DEF AliveInv, NamesLive
<1>2. CopiesSame' /\ FreeSame'
  BY DEF AliveInv, CopiesSame, FreeSame, AsOnDisk
<1> QED BY <1>1, <1>2 DEF AliveInv, DiskLinked

\* Who is reading, cutting and writing, after a step of p.
LEMMA LoadingKept ==
    ASSUME NEW p \in Procs, Alone(p),
           pc[p] \notin {"load", "unread"}, pc'[p] \notin {"load", "unread"}
    PROVE  \A t \in Slots : Loading(t)' <=> Loading(t)
BY DEF Alone, Loading

LEMMA ExemptKept ==
    ASSUME NEW p \in Procs, Alone(p)
    PROVE  \A t \in Slots :
              /\ pc[p] # "trunc" \/ sl[p] # t => (Cutting(t) => Cutting(t)')
              /\ pc[p] # "update" \/ sl[p] # t => (Flushing(t) => Flushing(t)')
BY DEF Alone, Cutting, Flushing

\* No inode becomes wanted but by IAlloc, or is wanted no longer when it has a name.
LEMMA WantedKept ==
    ASSUME NEW p \in Procs, Moves(p), pc'[p] # "writedir",
           \A i \in named' : i \in named \/ (pc[p] = "writedir" /\ num[p] = i)
    PROVE  \A i \in Inos : Wanted(i)' => Wanted(i)
BY DEF Moves, Alone, Wanted

-----------------------------------------------------------------------------
\* The actions once more

LEMMA Channels == Own # Awake /\ Own # ILock /\ \A s \in Slots : Own # Node(s)
BY DEF Own, Awake, ILock, Node

\* The entry s keeps its inode and is in core before and after.
QuietEntry(s) ==
    \/ slot' = slot
    \/ /\ OnlyEntry(s)
       /\ slot'[s].num = slot[s].num
       /\ slot'[s].mode <=> slot[s].mode
       /\ slot'[s].nlink <=> slot[s].nlink
       /\ slot[s].upd => slot'[s].upd
       /\ slot'[s].count > 0 <=> slot[s].count > 0

LEMMA AliveQuiet ==
    ASSUME AliveInv, WorkInv', NEW p \in Procs, NEW s \in Slots, Undisturbed(p),
           pc[p] \notin {"load", "unread", "trunc", "update"},
           pc'[p] \notin {"load", "unread", "writedir"}, UNCHANGED <<disk, named>>,
           QuietEntry(s), TaskOK(p)'
    PROVE  AliveInv'
<1>1. \A t \in Slots :
          /\ slot'[t].count > 0 <=> slot[t].count > 0
          /\ slot'[t].num = slot[t].num
          /\ slot'[t].mode <=> slot[t].mode
          /\ slot'[t].nlink <=> slot[t].nlink
          /\ slot[t].upd => slot'[t].upd
  BY DEF QuietEntry, OnlyEntry
<1>2. \A t \in Slots :
          (Live(t)' <=> Live(t)) /\ (Cutting(t) => Cutting(t)') /\ (Flushing(t) => Flushing(t)')
  <2>1. \A t \in Slots : Loading(t)' <=> Loading(t)
    BY LoadingKept DEF Undisturbed, Moves
  <2>2. \A t \in Slots : (Cutting(t) => Cutting(t)') /\ (Flushing(t) => Flushing(t)')
    BY ExemptKept DEF Undisturbed, Moves
  <2> QED BY <1>1, <2>1, <2>2 DEF Live
<1>3. \A i \in Inos : Wanted(i)' => Wanted(i)
  BY WantedKept DEF Undisturbed
<1>4. NamesLive' /\ CopiesSame' /\ FreeSame' /\ DiskLinked'
  BY <1>1, <1>2, <1>3, SameNames
<1>5. FlagsFor(p, s)
  BY DEF QuietEntry, FlagsFor
<1>6. \A q \in Procs \ {p} : TaskOK(q)'
  BY <1>5, OthersTasks DEF AliveInv, TaskOK
<1> QED BY <1>4, <1>6 DEF AliveInv

\* The same when the table is left alone.
LEMMA AliveMoves ==
    ASSUME AliveInv, WorkInv', NEW p \in Procs, Undisturbed(p),
           pc[p] \notin {"load", "unread", "trunc", "update"},
           pc'[p] \notin {"load", "unread", "writedir"}, UNCHANGED <<slot, disk, named>>,
           TaskOK(p)'
    PROVE  AliveInv'
<1>1. 1 \in Slots
  BY InodesAssumption DEF Slots
<1> QED BY <1>1, AliveQuiet DEF QuietEntry

\* A call begins.
LEMMA CallsAlive ==
    ASSUME AliveInv, WorkInv', NEW p \in Procs,
           Open(p) \/ UnLink(p) \/ Creat(p) \/ Close(p)
    PROVE  AliveInv'
<1>1. /\ WorkInv /\ EntryOK(p) /\ PlaceOK(p) /\ TaskOK(p)
      /\ DOMAIN pc = Procs /\ DOMAIN call = Procs /\ DOMAIN sl = Procs
      /\ DOMAIN back = Procs /\ DOMAIN num = Procs /\ DOMAIN chan = Procs
      /\ DOMAIN slot = Slots
      /\ \A t \in Slots : DOMAIN slot[t] = Fields /\ slot[t].count \in Int
  BY DEF AliveInv, WorkInv, NumbersOK, RefInv, PlacesOK, EntriesOK, Fields
<1>2. CASE Open(p)
  <2>1. Undisturbed(p)
    BY <1>1, <1>2, Channels DEF Open, Enters, GoOn, SleepAt, locals, At, Put, Undisturbed,
       Moves, Alone
  <2>2. TaskOK(p)'
    BY <1>1, <1>2 DEF Open, Enters, GoOn, SleepAt, locals, At, Put, TaskOK, PlaceOK, EntryOK
  <2>3. /\ pc[p] \notin {"load", "unread", "trunc", "update"}
        /\ pc'[p] \notin {"load", "unread", "writedir"}
        /\ UNCHANGED <<slot, disk, named>>
    BY <1>1, <1>2 DEF Open, Enters, GoOn, SleepAt, locals, At, Put
  <2> QED BY <2>1, <2>2, <2>3, AliveMoves
<1>3. CASE UnLink(p)
  <2>1. Undisturbed(p)
    BY <1>1, <1>3, Channels DEF UnLink, Enters, GoOn, locals, At, Put, Undisturbed, Moves, Alone
  <2>2. TaskOK(p)'
    BY <1>1, <1>3 DEF UnLink, Enters, GoOn, locals, At, Put, TaskOK, PlaceOK, EntryOK
  <2>3. /\ pc[p] \notin {"load", "unread", "trunc", "update"}
        /\ pc'[p] \notin {"load", "unread", "writedir"}
        /\ UNCHANGED <<slot, disk, named>>
    BY <1>1, <1>3 DEF UnLink, Enters, GoOn, locals, At, Put
  <2> QED BY <2>1, <2>2, <2>3, AliveMoves
<1>4. CASE Creat(p)
  <2>1. Undisturbed(p)
    BY <1>1, <1>4, Channels DEF Creat, Enters, SleepAt, locals, At, Put, Undisturbed, Moves, Alone
  <2>2. TaskOK(p)'
    BY <1>1, <1>4 DEF Creat, Enters, SleepAt, locals, At, Put, TaskOK, PlaceOK, EntryOK
  <2>3. /\ pc[p] \notin {"load", "unread", "trunc", "update"}
        /\ pc'[p] \notin {"load", "unread", "writedir"}
        /\ UNCHANGED <<slot, disk, named>>
    BY <1>1, <1>4 DEF Creat, Enters, SleepAt, locals, At, Put
  <2> QED BY <2>1, <2>2, <2>3, AliveMoves
<1>5. CASE Close(p)
  <2>1. Undisturbed(p)
    BY <1>1, <1>5, Channels DEF Close, Enters, GoOn, At, Put, Undisturbed, Moves, Alone
  <2>2. TaskOK(p)'
    BY <1>1, <1>5 DEF Close, Enters, GoOn, At, Put, TaskOK, PlaceOK, EntryOK
  <2>3. /\ pc[p] \notin {"load", "unread", "trunc", "update"}
        /\ pc'[p] \notin {"load", "unread", "writedir"}
        /\ UNCHANGED <<slot, disk, named>>
    BY <1>1, <1>5 DEF Close, Enters, GoOn, At, Put
  <2> QED BY <2>1, <2>2, <2>3, AliveMoves
<1> QED BY <1>2, <1>3, <1>4, <1>5

\* IGet sleeps, fails or finds the inode in core.
LEMMA IGetAlive ==
    ASSUME AliveInv, WorkInv', NEW p \in Procs,
           IGetWait(p) \/ IGetFound(p) \/ IGetFull(p)
    PROVE  AliveInv'
<1>1. /\ WorkInv /\ EntryOK(p) /\ PlaceOK(p) /\ TaskOK(p)
      /\ DOMAIN pc = Procs /\ DOMAIN call = Procs /\ DOMAIN sl = Procs
      /\ DOMAIN back = Procs /\ DOMAIN num = Procs /\ DOMAIN chan = Procs
      /\ DOMAIN slot = Slots
      /\ \A t \in Slots : DOMAIN slot[t] = Fields /\ slot[t].count \in Int
  BY DEF AliveInv, WorkInv, NumbersOK, RefInv, PlacesOK, EntriesOK, Fields
<1>2. CASE IGetWait(p)
  <2>1. PICK s \in Slots : slot' = [slot EXCEPT ![s].want = TRUE]
    BY <1>2 DEF IGetWait, Loaded
  <2>2. Undisturbed(p)
    BY <1>1, <1>2, Channels DEF IGetWait, SleepAt, locals, At, Put, Undisturbed, Moves, Alone
  <2>3. QuietEntry(s)
    BY <1>1, <2>1 DEF QuietEntry, OnlyEntry, Fields
  <2>4. TaskOK(p)'
    BY <1>1, <1>2 DEF IGetWait, SleepAt, locals, At, Put, TaskOK, PlaceOK, EntryOK
  <2>5. /\ pc[p] \notin {"load", "unread", "trunc", "update"}
        /\ pc'[p] \notin {"load", "unread", "writedir"}
        /\ UNCHANGED <<disk, named>>
    BY <1>1, <1>2 DEF IGetWait, SleepAt, At, Put
  <2> QED BY <2>2, <2>3, <2>4, <2>5, AliveQuiet
<1>3. CASE IGetFound(p)
  <2>1. PICK s \in Slots :
           /\ slot[s].num = num[p] /\ slot[s].count # 0 /\ ~slot[s].lock
           /\ slot' = [slot EXCEPT ![s].count = @ + 1, ![s].lock = TRUE]
           /\ sl' = Put(sl, p, s)
    BY <1>3 DEF IGetFound, Loaded
  <2>2. Undisturbed(p)
    BY <1>1, <1>3, <2>1, Channels DEF IGetFound, Arrive, GoOn, SleepAt, At, Put, Undisturbed,
       Moves, Alone
  <2>3. slot[s].count > 0
    BY <1>1, <2>1, CountsNatural DEF WorkInv
  <2>4. QuietEntry(s)
    BY <1>1, <2>1, <2>3 DEF QuietEntry, OnlyEntry, Fields
  <2>5. Live(s)
    <3> SUFFICES ASSUME NEW q \in Procs, pc[q] \in {"load", "unread"}, sl[q] = s
                 PROVE  FALSE
      BY <2>3 DEF Live, Loading
    <3>1. EntryOK(q) /\ PlaceOK(q)
      BY <1>1 DEF WorkInv, RefInv, PlacesOK
    <3> QED BY <2>1, <3>1 DEF EntryOK, Exclusive, PlaceOK
  <2>6. call[p] = "unlink" =>
           /\ slot[s].mode
           /\ \A q \in Procs \ {p} : pc[q] = "writedir" => num[q] # num[p]
    <3> SUFFICES ASSUME call[p] = "unlink"
                 PROVE  /\ slot[s].mode
                        /\ \A q \in Procs \ {p} : pc[q] = "writedir" => num[q] # num[p]
      OBVIOUS
    <3>1. num[p] \in named
      BY <1>1, <1>3, Channels DEF IGetFound, At, TaskOK
    <3> QED BY <2>1, <2>5, <3>1 DEF AliveInv, NamesLive, TaskOK
  <2>7. TaskOK(p)'
    <3>1. \A q \in Procs \ {p} : pc'[q] = pc[q] /\ num'[q] = num[q]
      BY <2>2 DEF Undisturbed, Moves, Alone
    <3>2. slot'[s].mode <=> slot[s].mode
      BY <1>1, <2>1 DEF Fields
    <3>3. /\ sl'[p] = s /\ call'[p] = call[p] /\ num'[p] = num[p] /\ back'[p] = "user"
          /\ pc'[p] = IF call[p] = "creat" THEN "chosen" ELSE "locked"
      BY <1>1, <1>3, <2>1 DEF IGetFound, Arrive, GoOn, SleepAt, At, Put, PlaceOK
    <3> QED BY <2>6, <3>1, <3>2, <3>3 DEF TaskOK
  <2>8. /\ pc[p] \notin {"load", "unread", "trunc", "update"}
        /\ pc'[p] \notin {"load", "unread", "writedir"}
        /\ UNCHANGED <<disk, named>>
    BY <1>1, <1>3 DEF IGetFound, Arrive, GoOn, SleepAt, At, Put
  <2> QED BY <2>2, <2>4, <2>7, <2>8, AliveQuiet
<1>4. CASE IGetFull(p)
  <2>1. Undisturbed(p)
    BY <1>1, <1>4, Channels DEF IGetFull, UserMode, SleepAt, At, Put, Undisturbed, Moves, Alone
  <2>2. TaskOK(p)'
    BY <1>1, <1>4 DEF IGetFull, UserMode, SleepAt, At, Put, TaskOK, PlaceOK, EntryOK
  <2>3. /\ pc[p] \notin {"load", "unread", "trunc", "update"}
        /\ pc'[p] \notin {"load", "unread", "writedir"}
        /\ UNCHANGED <<slot, disk, named>>
    BY <1>1, <1>4 DEF IGetFull, UserMode, SleepAt, At, Put
  <2> QED BY <2>1, <2>2, <2>3, AliveMoves
<1> QED BY <1>2, <1>3, <1>4

\* The caller gives the inode up.
LEMMA CallerAlive ==
    ASSUME AliveInv, WorkInv', NEW p \in Procs,
           \/ Open1(p) \/ Open1Denied(p) \/ Open1Full(p) \/ IPutShared(p)
           \/ IPutTrunc(p) /\ pc[p] = "iput"
           \/ IPutUpdate(p)
    PROVE  AliveInv'
<1>1. /\ WorkInv /\ EntryOK(p) /\ PlaceOK(p) /\ TaskOK(p)
      /\ DOMAIN pc = Procs /\ DOMAIN call = Procs /\ DOMAIN sl = Procs
      /\ DOMAIN back = Procs /\ DOMAIN num = Procs /\ DOMAIN chan = Procs
      /\ DOMAIN slot = Slots
      /\ \A t \in Slots : DOMAIN slot[t] = Fields /\ slot[t].count \in Int
  BY DEF AliveInv, WorkInv, NumbersOK, RefInv, PlacesOK, EntriesOK, Fields
<1>2. CASE Open1(p)
  <2>1. PICK s \in Slots : s = sl[p]
    BY <1>1, <1>2 DEF Open1, At, PlaceOK
  <2>2. Undisturbed(p)
    BY <1>1, <1>2, Channels DEF Open1, UserMode, SleepAt, WakeWanting, WakeUpAll, At, Put,
       Undisturbed, Moves, Alone, PlaceOK
  <2>3. slot[s].count >= 1
    BY <1>1, <1>2, <2>1, Holds DEF Open1, At
  <2>4. QuietEntry(s)
    <3>1. PICK truncated : slot' = [slot EXCEPT ![s].lock = FALSE, ![s].want = FALSE,
                                                ![s].upd = @ \/ truncated]
      BY <1>2, <2>1 DEF Open1
    <3>2. /\ OnlyEntry(s)
          /\ slot'[s].num = slot[s].num /\ slot'[s].count = slot[s].count
          /\ slot'[s].mode = slot[s].mode /\ slot'[s].nlink = slot[s].nlink
          /\ slot'[s].upd = (slot[s].upd \/ truncated)
      BY <1>1, <3>1 DEF OnlyEntry, Fields
    <3>3. slot[s].upd => slot'[s].upd
      BY <3>2
    <3> QED BY <3>2, <3>3 DEF QuietEntry
  <2>5. TaskOK(p)'
    BY <1>1, <1>2, <2>1 DEF Open1, UserMode, SleepAt, WakeWanting, WakeUpAll, At, Put, TaskOK,
       PlaceOK, EntryOK, Fields
  <2>6. /\ pc[p] \notin {"load", "unread", "trunc", "update"}
        /\ pc'[p] \notin {"load", "unread", "writedir"}
        /\ UNCHANGED <<disk, named>>
    BY <1>1, <1>2 DEF Open1, UserMode, SleepAt, WakeWanting, WakeUpAll, At, Put, PlaceOK
  <2> QED BY <2>2, <2>4, <2>5, <2>6, AliveQuiet
<1>3. CASE Open1Denied(p)
  <2>1. Undisturbed(p)
    BY <1>1, <1>3, Channels DEF Open1Denied, GoOn, locals, At, Put, Undisturbed, Moves, Alone
  <2>2. TaskOK(p)'
    BY <1>1, <1>3 DEF Open1Denied, GoOn, locals, At, Put, TaskOK, PlaceOK, EntryOK
  <2>3. /\ pc[p] \notin {"load", "unread", "trunc", "update"}
        /\ pc'[p] \notin {"load", "unread", "writedir"}
        /\ UNCHANGED <<slot, disk, named>>
    BY <1>1, <1>3 DEF Open1Denied, GoOn, locals, At, Put
  <2> QED BY <2>1, <2>2, <2>3, AliveMoves
<1>4. CASE Open1Full(p)
  <2>1. PICK s \in Slots : s = sl[p]
    BY <1>1, <1>4 DEF Open1Full, At, PlaceOK
  <2>2. Undisturbed(p)
    BY <1>1, <1>4, Channels DEF Open1Full, GoOn, locals, WakeWanting, WakeUpAll, At, Put,
       Undisturbed, Moves, Alone, PlaceOK
  <2>3. slot[s].count >= 1
    BY <1>1, <1>4, <2>1, Holds DEF Open1Full, At
  <2>4. QuietEntry(s)
    BY <1>1, <1>4, <2>1, <2>3 DEF Open1Full, QuietEntry, OnlyEntry, Fields, Prele
  <2>5. TaskOK(p)'
    BY <1>1, <1>4, <2>1 DEF Open1Full, GoOn, locals, WakeWanting, WakeUpAll, At, Put, TaskOK,
       PlaceOK, EntryOK, Fields
  <2>6. /\ pc[p] \notin {"load", "unread", "trunc", "update"}
        /\ pc'[p] \notin {"load", "unread", "writedir"}
        /\ UNCHANGED <<disk, named>>
    BY <1>1, <1>4 DEF Open1Full, GoOn, locals, WakeWanting, WakeUpAll, At, Put, PlaceOK
  <2> QED BY <2>2, <2>4, <2>5, <2>6, AliveQuiet
<1>5. CASE IPutShared(p)
  <2>0. pc[p] = "iput"
    BY <1>1, <1>5 DEF IPutShared, AtIPut, At, EntryOK, PlaceOK, Exclusive
  <2>1. PICK s \in Slots : s = sl[p]
    BY <1>1, <1>5, <2>0 DEF IPutShared, AtIPut, At, PlaceOK
  <2>2. Undisturbed(p)
    BY <1>1, <1>5, <2>0, Channels DEF IPutShared, AtIPut, IPutReturn, UserMode, GoOn, SleepAt,
       WakeWanting, WakeUpAll, At, Put, Undisturbed, Moves, Alone, PlaceOK
  <2>3. slot[s].count >= 1
    BY <1>1, <1>5, <2>0, <2>1, Holds DEF IPutShared, AtIPut, At
  <2>4. QuietEntry(s)
    BY <1>1, <1>5, <2>0, <2>1, <2>3 DEF IPutShared, AtIPut, QuietEntry, OnlyEntry, Fields, Prele
  <2>5. TaskOK(p)'
    BY <1>1, <1>5, <2>0, <2>1 DEF IPutShared, AtIPut, IPutReturn, UserMode, GoOn, SleepAt,
       WakeWanting, WakeUpAll, At, Put, TaskOK, PlaceOK, EntryOK, Fields
  <2>6. /\ pc[p] \notin {"load", "unread", "trunc", "update"}
        /\ pc'[p] \notin {"load", "unread", "writedir"}
        /\ UNCHANGED <<disk, named>>
    BY <1>1, <1>5, <2>0 DEF IPutShared, AtIPut, IPutReturn, UserMode, GoOn, SleepAt,
       WakeWanting, WakeUpAll, At, Put, PlaceOK
  <2> QED BY <2>2, <2>4, <2>5, <2>6, AliveQuiet
<1>6. CASE IPutTrunc(p) /\ pc[p] = "iput"
  <2>1. PICK s \in Slots : s = sl[p]
    BY <1>1, <1>6 DEF IPutTrunc, AtIPut, At, PlaceOK
  <2>2. Undisturbed(p)
    BY <1>1, <1>6, Channels DEF IPutTrunc, AtIPut, SleepAt, locals, At, Put, Undisturbed, Moves,
       Alone, PlaceOK
  <2>3. slot[s].count >= 1
    BY <1>1, <1>6, <2>1, Holds DEF IPutTrunc, AtIPut, At
  <2>4. QuietEntry(s)
    BY <1>1, <1>6, <2>1, <2>3 DEF IPutTrunc, AtIPut, QuietEntry, OnlyEntry, Fields, Prele
  <2>5. TaskOK(p)'
    BY <1>1, <1>6, <2>1 DEF IPutTrunc, AtIPut, SleepAt, locals, At, Put, TaskOK, PlaceOK,
       EntryOK, Fields
  <2>6. /\ pc[p] \notin {"load", "unread", "trunc", "update"}
        /\ pc'[p] \notin {"load", "unread", "writedir"}
        /\ UNCHANGED <<disk, named>>
    BY <1>1, <1>6 DEF IPutTrunc, AtIPut, SleepAt, locals, At, Put, PlaceOK
  <2> QED BY <2>2, <2>4, <2>5, <2>6, AliveQuiet
<1>7. CASE IPutUpdate(p)
  <2>0. pc[p] = "iput"
    BY <1>1, <1>7 DEF IPutUpdate, AtIPut, At, EntryOK, PlaceOK, Exclusive
  <2>1. PICK s \in Slots : s = sl[p]
    BY <1>1, <1>7, <2>0 DEF IPutUpdate, AtIPut, At, PlaceOK
  <2>2. Undisturbed(p)
    BY <1>1, <1>7, <2>0, Channels DEF IPutUpdate, AtIPut, SleepAt, At, Put, Undisturbed, Moves,
       Alone, PlaceOK
  <2>3. slot[s].count >= 1
    BY <1>1, <1>7, <2>0, <2>1, Holds DEF IPutUpdate, AtIPut, At
  <2>4. QuietEntry(s)
    BY <1>1, <1>7, <2>0, <2>1, <2>3 DEF IPutUpdate, AtIPut, QuietEntry, OnlyEntry, Fields, Prele
  <2>5. TaskOK(p)'
    BY <1>1, <1>7, <2>0, <2>1 DEF IPutUpdate, AtIPut, SleepAt, At, Put, TaskOK, PlaceOK,
       EntryOK, Fields
  <2>6. /\ pc[p] \notin {"load", "unread", "trunc", "update"}
        /\ pc'[p] \notin {"load", "unread", "writedir"}
        /\ UNCHANGED <<disk, named>>
    BY <1>1, <1>7, <2>0 DEF IPutUpdate, AtIPut, SleepAt, At, Put, PlaceOK
  <2> QED BY <2>2, <2>4, <2>5, <2>6, AliveQuiet
<1> QED BY <1>2, <1>3, <1>4, <1>5, <1>6, <1>7

\* IAlloc looks for an inode.
LEMMA IAllocAlive ==
    ASSUME AliveInv, WorkInv', NEW p \in Procs,
           IAllocWait(p) \/ IAllocSearch(p) \/ IAllocBlock(p) \/ IAllocFound(p)
            \/ IAllocTake(p) \/ IAllocOutside(p) \/ IAllocOccupied(p)
    PROVE  AliveInv'
<1>1. /\ WorkInv /\ EntryOK(p) /\ PlaceOK(p) /\ TaskOK(p)
      /\ DOMAIN pc = Procs /\ DOMAIN call = Procs /\ DOMAIN sl = Procs
      /\ DOMAIN back = Procs /\ DOMAIN num = Procs /\ DOMAIN chan = Procs
      /\ DOMAIN slot = Slots
      /\ \A t \in Slots : DOMAIN slot[t] = Fields /\ slot[t].count \in Int
  BY DEF AliveInv, WorkInv, NumbersOK, RefInv, PlacesOK, EntriesOK, Fields
<1>2. CASE IAllocWait(p)
  <2>1. Undisturbed(p)
    BY <1>1, <1>2, Channels DEF IAllocWait, SleepAt, locals, At, Put, Undisturbed, Moves, Alone
  <2>2. TaskOK(p)'
    BY <1>1, <1>2 DEF IAllocWait, SleepAt, locals, At, Put, TaskOK, PlaceOK, EntryOK
  <2>3. /\ pc[p] \notin {"load", "unread", "trunc", "update"}
        /\ pc'[p] \notin {"load", "unread", "writedir"}
        /\ UNCHANGED <<slot, disk, named>>
    BY <1>1, <1>2 DEF IAllocWait, SleepAt, locals, At, Put
  <2> QED BY <2>1, <2>2, <2>3, AliveMoves
<1>3. CASE IAllocSearch(p)
  <2>1. Undisturbed(p)
    BY <1>1, <1>3, Channels DEF IAllocSearch, SleepAt, At, Put, Undisturbed, Moves, Alone
  <2>2. TaskOK(p)'
    BY <1>1, <1>3 DEF IAllocSearch, SleepAt, At, Put, TaskOK, PlaceOK, EntryOK
  <2>3. /\ pc[p] \notin {"load", "unread", "trunc", "update"}
        /\ pc'[p] \notin {"load", "unread", "writedir"}
        /\ UNCHANGED <<slot, disk, named>>
    BY <1>1, <1>3 DEF IAllocSearch, SleepAt, At, Put
  <2> QED BY <2>1, <2>2, <2>3, AliveMoves
<1>4. CASE IAllocBlock(p)
  <2>1. Undisturbed(p)
    BY <1>1, <1>4, Channels DEF IAllocBlock, SleepAt, At, Put, Undisturbed, Moves, Alone
  <2>2. TaskOK(p)'
    BY <1>1, <1>4 DEF IAllocBlock, SleepAt, At, Put, TaskOK, PlaceOK, EntryOK
  <2>3. /\ pc[p] \notin {"load", "unread", "trunc", "update"}
        /\ pc'[p] \notin {"load", "unread", "writedir"}
        /\ UNCHANGED <<slot, disk, named>>
    BY <1>1, <1>4 DEF IAllocBlock, SleepAt, At, Put
  <2> QED BY <2>1, <2>2, <2>3, AliveMoves
<1>5. CASE IAllocFound(p)
  <2>1. Undisturbed(p)
    BY <1>1, <1>5, Channels DEF IAllocFound, UserMode, GoOn, SleepAt, locals, WakeUpAll, At,
       Put, Undisturbed, Moves, Alone
  <2>2. TaskOK(p)'
    BY <1>1, <1>5 DEF IAllocFound, UserMode, GoOn, SleepAt, locals, WakeUpAll, At, Put, TaskOK,
       PlaceOK, EntryOK
  <2>3. /\ pc[p] \notin {"load", "unread", "trunc", "update"}
        /\ pc'[p] \notin {"load", "unread", "writedir"}
        /\ UNCHANGED <<slot, disk, named>>
    BY <1>1, <1>5 DEF IAllocFound, UserMode, GoOn, SleepAt, locals, WakeUpAll, At, Put
  <2> QED BY <2>1, <2>2, <2>3, AliveMoves
<1>6. CASE IAllocTake(p)
  <2>1. Undisturbed(p)
    BY <1>1, <1>6, Channels DEF IAllocTake, GoOn, At, Put, Undisturbed, Moves, Alone
  <2>2. TaskOK(p)'
    BY <1>1, <1>6 DEF IAllocTake, GoOn, At, Put, TaskOK, PlaceOK, EntryOK
  <2>3. /\ pc[p] \notin {"load", "unread", "trunc", "update"}
        /\ pc'[p] \notin {"load", "unread", "writedir"}
        /\ UNCHANGED <<slot, disk, named>>
    BY <1>1, <1>6 DEF IAllocTake, GoOn, At, Put
  <2> QED BY <2>1, <2>2, <2>3, AliveMoves
<1>7. CASE IAllocOutside(p)
  <2>1. Undisturbed(p)
    BY <1>1, <1>7, Channels DEF IAllocOutside, UserMode, SleepAt, At, Put, Undisturbed, Moves,
       Alone
  <2>2. TaskOK(p)'
    BY <1>1, <1>7 DEF IAllocOutside, UserMode, SleepAt, At, Put, TaskOK, PlaceOK, EntryOK
  <2>3. /\ pc[p] \notin {"load", "unread", "trunc", "update"}
        /\ pc'[p] \notin {"load", "unread", "writedir"}
        /\ UNCHANGED <<slot, disk, named>>
    BY <1>1, <1>7 DEF IAllocOutside, UserMode, SleepAt, At, Put
  <2> QED BY <2>1, <2>2, <2>3, AliveMoves
<1>8. CASE IAllocOccupied(p)
  <2>1. Undisturbed(p)
    BY <1>1, <1>8, Channels DEF IAllocOccupied, GoOn, At, Put, Undisturbed, Moves, Alone
  <2>2. TaskOK(p)'
    BY <1>1, <1>8 DEF IAllocOccupied, GoOn, At, Put, TaskOK, PlaceOK, EntryOK
  <2>3. /\ pc[p] \notin {"load", "unread", "trunc", "update"}
        /\ pc'[p] \notin {"load", "unread", "writedir"}
        /\ UNCHANGED <<slot, disk, named>>
    BY <1>1, <1>8 DEF IAllocOccupied, GoOn, At, Put
  <2> QED BY <2>1, <2>2, <2>3, AliveMoves
<1> QED BY <1>2, <1>3, <1>4, <1>5, <1>6, <1>7, <1>8


\* The first free entry is taken: nothing changes about the others.
LEMMA IGetLoadAlive ==
    ASSUME AliveInv, WorkInv', NEW p \in Procs, IGetLoad(p)
    PROVE  AliveInv'
<1>1. /\ WorkInv /\ EntryOK(p) /\ PlaceOK(p) /\ TaskOK(p)
      /\ NamesLive /\ CopiesSame /\ FreeSame /\ DiskLinked
      /\ DOMAIN pc = Procs /\ DOMAIN call = Procs /\ DOMAIN sl = Procs
      /\ DOMAIN back = Procs /\ DOMAIN num = Procs /\ DOMAIN chan = Procs
      /\ DOMAIN slot = Slots
      /\ \A t \in Slots : DOMAIN slot[t] = Fields /\ slot[t].count \in Int
  BY DEF AliveInv, WorkInv, NumbersOK, RefInv, PlacesOK, EntriesOK, Fields
<1>2. PICK s \in FreeSlots :
         /\ SleepAt(p, "load") /\ sl' = Put(sl, p, s)
         /\ slot' = [slot EXCEPT ![s].num = num[p], ![s].count = @ + 1, ![s].lock = TRUE,
                                 ![s].want = FALSE, ![s].upd = FALSE]
  BY DEF IGetLoad
<1>3. s \in Slots /\ slot[s].count = 0
  BY DEF FreeSlots
<1>4. Undisturbed(p)
  BY <1>1, <1>2, Channels DEF IGetLoad, SleepAt, At, Put, Undisturbed, Moves, Alone
<1>5. OnlyEntry(s) /\ FlagsFor(p, s)
  BY <1>1, <1>2, <1>3 DEF OnlyEntry, FlagsFor, Fields
<1>6. UNCHANGED <<disk, named>> /\ pc[p] = "iget" /\ pc'[p] = "load" /\ sl'[p] = s
  BY <1>1, <1>2, <1>3 DEF IGetLoad, SleepAt, At, Put
<1>7. \A t \in Slots : Live(t)' <=> Live(t)
  <2>1. ASSUME NEW t \in Slots \ {s}  PROVE Loading(t)' <=> Loading(t)
    BY <1>1, <1>4, <1>6, <2>1 DEF Undisturbed, Moves, Alone, Loading
  <2>2. Loading(s)'
    BY <1>6 DEF Loading
  <2> QED BY <1>3, <1>5, <2>1, <2>2 DEF Live, OnlyEntry
<1>8. NamesLive' /\ CopiesSame' /\ FreeSame' /\ DiskLinked'
  <2>1. \A t \in Slots : Live(t) => slot'[t] = slot[t]
    BY <1>3, <1>5 DEF Live, OnlyEntry
  <2>2. \A t \in Slots : (Cutting(t) => Cutting(t)') /\ (Flushing(t) => Flushing(t)')
    BY <1>4, <1>6, ExemptKept DEF Undisturbed, Moves
  <2>3. \A i \in Inos : Wanted(i)' => Wanted(i)
    BY <1>4, <1>6, WantedKept DEF Undisturbed
  <2> QED BY <1>6, <1>7, <2>1, <2>2, <2>3, SameNames
<1>9. \A q \in Procs \ {p} : TaskOK(q)'
  BY <1>3, <1>4, <1>5, <1>6, OthersTasks DEF AliveInv, TaskOK
<1>10. TaskOK(p)'
  <2>1. call[p] = "unlink" => num[p] \in named
    BY <1>1, Channels DEF IGetLoad, At, TaskOK
  <2>2. call'[p] = call[p] /\ num'[p] = num[p] /\ back'[p] = back[p] /\ back[p] = "user"
    BY <1>1, <1>6 DEF IGetLoad, PlaceOK
  <2> QED BY <1>6, <2>1, <2>2 DEF TaskOK
<1> QED BY <1>8, <1>9, <1>10 DEF AliveInv

\* The copy is that of the disk.
LEMMA ICopyAlive ==
    ASSUME AliveInv, WorkInv', NEW p \in Procs, ICopy(p)
    PROVE  AliveInv'
<1>1. /\ WorkInv /\ EntryOK(p) /\ PlaceOK(p) /\ TaskOK(p)
      /\ NamesLive /\ CopiesSame /\ FreeSame /\ DiskLinked
      /\ DOMAIN pc = Procs /\ DOMAIN call = Procs /\ DOMAIN sl = Procs
      /\ DOMAIN back = Procs /\ DOMAIN num = Procs /\ DOMAIN chan = Procs
      /\ DOMAIN slot = Slots
      /\ \A t \in Slots : DOMAIN slot[t] = Fields /\ slot[t].count \in Int
  BY DEF AliveInv, WorkInv, NumbersOK, RefInv, PlacesOK, EntriesOK, Fields
<1>2. PICK s \in Slots : s = sl[p] /\ pc[p] = "load"
  BY <1>1 DEF ICopy, At, PlaceOK
<1>3. /\ Uses(p, s) /\ slot[s].count = 1 /\ slot[s].num \in Inos /\ slot[s].num = num[p]
  BY <1>1, <1>2, Holds DEF EntryOK, Exclusive
<1>4. Undisturbed(p)
  BY <1>1, <1>2, Channels DEF ICopy, Arrive, GoOn, SleepAt, locals, At, Put, Undisturbed, Moves,
     Alone
<1>5. /\ OnlyEntry(s) /\ FlagsFor(p, s)
      /\ slot'[s].mode = disk[num[p]].mode /\ slot'[s].nlink = disk[num[p]].nlink
      /\ slot'[s].num = slot[s].num /\ slot'[s].count = slot[s].count
      /\ slot'[s].upd = slot[s].upd
  BY <1>1, <1>2, <1>3 DEF ICopy, OnlyEntry, FlagsFor, Fields
<1>6. /\ UNCHANGED <<disk, named, locals>>
      /\ pc'[p] = IF call[p] = "creat" THEN "chosen" ELSE "locked"
  BY <1>1, <1>2 DEF ICopy, Arrive, GoOn, SleepAt, Put
<1>7. Loading(s) /\ ~Live(s)
  BY <1>2 DEF Loading, Live
<1>8. \A t \in Slots \ {s} : Live(t)' <=> Live(t)
  <2>1. ASSUME NEW t \in Slots \ {s}  PROVE Loading(t)' <=> Loading(t)
    BY <1>1, <1>2, <1>4, <1>6, <2>1 DEF Undisturbed, Moves, Alone, Loading, locals
  <2> QED BY <1>5, <2>1 DEF Live, OnlyEntry
<1>9. \A t \in Slots : slot[t].count > 0 /\ slot[t].num = num[p] => t = s
  BY <1>1, <1>3, Same
<1>10. num[p] \in named => slot'[s].mode /\ slot'[s].nlink
  <2>1. num[p] \in named => disk[num[p]].mode
    BY <1>1, <1>7, <1>9 DEF NamesLive, Live
  <2> QED BY <1>1, <1>3, <1>5, <2>1 DEF DiskLinked, Wanted
<1>11. NamesLive'
  BY <1>1, <1>3, <1>5, <1>6, <1>7, <1>8, <1>10 DEF NamesLive, OnlyEntry
<1>12. CopiesSame' /\ FreeSame' /\ DiskLinked'
  <2>1. AsOnDisk(s)'
    BY <1>3, <1>5, <1>6 DEF AsOnDisk
  <2>2. \A t \in Slots \ {s} : /\ AsOnDisk(t)' <=> AsOnDisk(t)
                              /\ slot'[t] = slot[t] /\ (Live(t)' <=> Live(t))
    BY <1>5, <1>6, <1>8 DEF AsOnDisk, OnlyEntry
  <2>3. \A t \in Slots : (Cutting(t) => Cutting(t)') /\ (Flushing(t) => Flushing(t)')
    BY <1>2, <1>4, ExemptKept DEF Undisturbed, Moves
  <2>4. CopiesSame'
    BY <1>1, <2>1, <2>2, <2>3 DEF CopiesSame
  <2>5. FreeSame'
    BY <1>1, <1>6, <2>1, <2>2, <2>3 DEF FreeSame, AsOnDisk
  <2>6. DiskLinked'
    BY <1>1, <1>4, <1>6, WantedKept DEF DiskLinked, Undisturbed
  <2> QED BY <2>4, <2>5, <2>6
<1>13. \A q \in Procs \ {p} : TaskOK(q)'
  BY <1>2, <1>4, <1>5, <1>6, OthersTasks DEF AliveInv, TaskOK
<1>14. TaskOK(p)'
  <2>1. call[p] = "unlink" => num[p] \in named
    BY <1>1, <1>2 DEF TaskOK
  <2>2. \A q \in Procs \ {p} : pc'[q] = pc[q] /\ num'[q] = num[q]
    BY <1>4 DEF Undisturbed, Moves, Alone
  <2>3. \A q \in Procs : pc[q] = "writedir" => num[q] \notin named
    BY DEF AliveInv, TaskOK
  <2>4. call'[p] = call[p] /\ num'[p] = num[p] /\ sl'[p] = s /\ back'[p] = "user"
    BY <1>1, <1>2, <1>6 DEF locals, PlaceOK
  <2> QED BY <1>6, <1>10, <2>1, <2>2, <2>3, <2>4 DEF TaskOK
<1> QED BY <1>11, <1>12, <1>13, <1>14 DEF AliveInv

\* A name is given to an inode that is in use.
LEMMA WriteDirAlive ==
    ASSUME AliveInv, WorkInv', NEW p \in Procs, WriteDir(p)
    PROVE  AliveInv'
<1>1. /\ WorkInv /\ EntryOK(p) /\ PlaceOK(p) /\ TaskOK(p)
      /\ NamesLive /\ CopiesSame /\ FreeSame /\ DiskLinked
      /\ DOMAIN pc = Procs /\ DOMAIN call = Procs /\ DOMAIN sl = Procs
      /\ DOMAIN back = Procs /\ DOMAIN num = Procs /\ DOMAIN chan = Procs
      /\ DOMAIN slot = Slots
      /\ \A t \in Slots : DOMAIN slot[t] = Fields /\ slot[t].count \in Int
  BY DEF AliveInv, WorkInv, NumbersOK, RefInv, PlacesOK, EntriesOK, Fields
<1>2. PICK s \in Slots : s = sl[p] /\ pc[p] = "writedir"
  BY <1>1 DEF WriteDir, At, PlaceOK
<1>3. /\ Uses(p, s) /\ Live(s) /\ slot[s].num = num[p]
      /\ slot[s].mode /\ slot[s].nlink /\ call[p] = "creat"
  BY <1>1, <1>2, Holds DEF EntryOK, TaskOK
<1>4. Undisturbed(p)
  BY <1>1, <1>2, Channels DEF WriteDir, GoOn, SleepAt, locals, At, Put, Undisturbed, Moves, Alone
<1>5. UNCHANGED <<slot, disk, locals>> /\ named' = named \cup {num[p]} /\ pc'[p] = "locked"
  BY <1>1 DEF WriteDir, GoOn, SleepAt, Put
<1>6. \A t \in Slots : Live(t)' <=> Live(t)
  <2>1. \A t \in Slots : Loading(t)' <=> Loading(t)
    BY <1>2, <1>4, <1>5, LoadingKept DEF Undisturbed, Moves
  <2> QED BY <1>5, <2>1 DEF Live
<1>7. \A t \in Slots : Live(t) /\ slot[t].num = num[p] => t = s
  BY <1>1, <1>3, Same DEF Live
<1>8. NamesLive'
  BY <1>1, <1>3, <1>5, <1>6, <1>7 DEF NamesLive
<1>9. CopiesSame' /\ FreeSame' /\ DiskLinked'
  <2>1. \A t \in Slots : (Cutting(t) => Cutting(t)') /\ (Flushing(t) => Flushing(t)')
    BY <1>2, <1>4, ExemptKept DEF Undisturbed, Moves
  <2>2. \A i \in Inos : Wanted(i)' => Wanted(i)
    BY <1>2, <1>4, <1>5, WantedKept DEF Undisturbed
  <2> QED BY <1>1, <1>5, <1>6, <2>1, <2>2 DEF CopiesSame, FreeSame, AsOnDisk, DiskLinked
<1>10. \A q \in Procs \ {p} : TaskOK(q)'
  <2>1. FlagsFor(p, s)
    BY <1>5 DEF FlagsFor
  <2>2. \A q \in Procs \ {p} :
           /\ pc[q] = "writedir" => num[q] # num[p] /\ num[q] \notin named
           /\ call[q] = "unlink" /\ pc[q] = "load" => num[q] \in named
    BY <1>1, <1>2 DEF AliveInv, TaskOK
  <2> QED BY <1>4, <1>5, <2>1, <2>2, OthersTasks
<1>11. TaskOK(p)'
  BY <1>1, <1>2, <1>3, <1>5 DEF TaskOK, PlaceOK, locals
<1> QED BY <1>8, <1>9, <1>10, <1>11 DEF AliveInv

\* The name is removed before the inode is given up.
LEMMA UnlinkedAlive ==
    ASSUME AliveInv, WorkInv', NEW p \in Procs, Unlinked(p)
    PROVE  AliveInv'
<1>1. /\ WorkInv /\ EntryOK(p) /\ PlaceOK(p) /\ TaskOK(p)
      /\ NamesLive /\ CopiesSame /\ FreeSame /\ DiskLinked
      /\ DOMAIN pc = Procs /\ DOMAIN call = Procs /\ DOMAIN sl = Procs
      /\ DOMAIN back = Procs /\ DOMAIN num = Procs /\ DOMAIN chan = Procs
      /\ DOMAIN slot = Slots
      /\ \A t \in Slots : DOMAIN slot[t] = Fields /\ slot[t].count \in Int
  BY DEF AliveInv, WorkInv, NumbersOK, RefInv, PlacesOK, EntriesOK, Fields
<1>2. PICK s \in Slots : s = sl[p] /\ pc[p] = "locked" /\ call[p] = "unlink"
  BY <1>1 DEF Unlinked, At, PlaceOK
<1>3. /\ Uses(p, s) /\ Live(s) /\ slot[s].num = num[p] /\ slot[s].mode
  BY <1>1, <1>2, Holds DEF EntryOK, TaskOK
<1>4. Undisturbed(p)
  BY <1>1, <1>2, Channels DEF Unlinked, GoOn, SleepAt, locals, At, Put, Undisturbed, Moves, Alone
<1>5. /\ UNCHANGED <<disk, locals>> /\ named' = named \ {num[p]} /\ pc'[p] = "iput"
      /\ OnlyEntry(s) /\ slot'[s].num = slot[s].num /\ slot'[s].count = slot[s].count
      /\ slot'[s].mode = slot[s].mode /\ slot'[s].upd
  BY <1>1, <1>2 DEF Unlinked, GoOn, SleepAt, Put, OnlyEntry, Fields
<1>6. \A t \in Slots : Live(t)' <=> Live(t)
  <2>1. \A t \in Slots : Loading(t)' <=> Loading(t)
    BY <1>2, <1>4, <1>5, LoadingKept DEF Undisturbed, Moves
  <2> QED BY <1>5, <2>1 DEF Live, OnlyEntry
<1>7. NamesLive'
  BY <1>1, <1>3, <1>5, <1>6 DEF NamesLive, OnlyEntry
<1>8. CopiesSame' /\ FreeSame' /\ DiskLinked'
  <2>1. \A t \in Slots \ {s} : (AsOnDisk(t)' <=> AsOnDisk(t)) /\ slot'[t] = slot[t]
    BY <1>5 DEF AsOnDisk, OnlyEntry
  <2>2. \A t \in Slots : (Cutting(t) => Cutting(t)') /\ (Flushing(t) => Flushing(t)')
    BY <1>2, <1>4, ExemptKept DEF Undisturbed, Moves
  <2>3. \A i \in Inos : Wanted(i)' => Wanted(i)
    BY <1>4, <1>5, WantedKept DEF Undisturbed
  <2>4. CopiesSame' /\ FreeSame'
    BY <1>1, <1>3, <1>5, <1>6, <2>1, <2>2 DEF CopiesSame, FreeSame
  <2> QED BY <1>1, <1>5, <2>3, <2>4 DEF DiskLinked
<1>9. \A q \in Procs \ {p} : TaskOK(q)'
  <2>1. \A q \in Procs \ {p} :
           /\ pc[q] = "writedir" => num[q] # num[p] /\ num[q] \notin named
           /\ call[q] = "unlink" /\ pc[q] = "load" => num[q] \in named
    BY <1>1, <1>2 DEF AliveInv, TaskOK
  <2>2. ASSUME NEW q \in Procs \ {p}, pc[q] = "writedir"  PROVE sl[q] # s
    BY <1>1, <1>3, <2>1, <2>2 DEF WorkInv, EntryOK
  <2>3. ASSUME NEW q \in Procs \ {p}, pc[q] = "load"  PROVE num[q] # num[p]
    <3>1. Exclusive(q)
      BY <1>1, <2>3, Holds DEF Exclusive
    <3>2. slot[sl[q]].num # slot[s].num
      BY <1>1, <1>2, <3>1, ForItself
    <3> QED BY <1>1, <1>3, <2>3, <3>2 DEF WorkInv, EntryOK
  <2>4. \A q \in Procs \ {p} :
           sl[q] = s /\ pc[q] = "locked" /\ call[q] = "unlink" => slot'[s].mode
    BY <1>3, <1>5
  <2>5. FlagsFor(p, s)
    BY <1>3, <1>5, <2>2, <2>4 DEF FlagsFor
  <2> QED BY <1>4, <1>5, <2>1, <2>3, <2>5, OthersTasks
<1>10. TaskOK(p)'
  BY <1>1, <1>2, <1>5 DEF TaskOK, PlaceOK, locals
<1> QED BY <1>7, <1>8, <1>9, <1>10 DEF AliveInv

\* An entry is released when the disk has what it says.
LEMMA ReleasedAlive ==
    ASSUME AliveInv, WorkInv', NEW p \in Procs,
           IPutDone(p) \/ (IPutClean(p) /\ pc[p] = "iput")
    PROVE  AliveInv'
<1>1. /\ WorkInv /\ EntryOK(p) /\ PlaceOK(p) /\ TaskOK(p)
      /\ NamesLive /\ CopiesSame /\ FreeSame /\ DiskLinked
      /\ DOMAIN pc = Procs /\ DOMAIN call = Procs /\ DOMAIN sl = Procs
      /\ DOMAIN back = Procs /\ DOMAIN num = Procs /\ DOMAIN chan = Procs
      /\ DOMAIN slot = Slots
      /\ \A t \in Slots : DOMAIN slot[t] = Fields /\ slot[t].count \in Int
  BY DEF AliveInv, WorkInv, NumbersOK, RefInv, PlacesOK, EntriesOK, Fields
<1>2. PICK s \in Slots : s = sl[p] /\ pc[p] \in {"iput", "write"} /\ back[p] # "sync"
  BY <1>1 DEF IPutClean, IPutDone, AtIPut, At, PlaceOK
<1>3. Uses(p, s) /\ Live(s) /\ slot[s].count = 1 /\ slot[s].num \in Inos
  BY <1>1, <1>2, Holds DEF IPutClean, IPutDone, At, EntryOK, Exclusive, PlaceOK
<1>3a. ~Cutting(s)
  <2> SUFFICES ASSUME NEW q \in Procs, pc[q] = "trunc", sl[q] = s
               PROVE  FALSE
    BY DEF Cutting
  <2>1. q # p /\ Exclusive(q)
    BY <1>1, <1>2, Holds DEF Exclusive
  <2> QED BY <1>1, <1>2, <2>1, ForItself
<1>4. slot[s].mode => disk[slot[s].num].mode
  BY <1>1, <1>2, <1>3, <1>3a DEF IPutClean, IPutDone, At, CopiesSame, AsOnDisk, TaskOK, Uses
<1>5. IPutReturn(p) /\ UNCHANGED <<disk, named>> /\ slot' = [slot EXCEPT ![s] = Released(@)]
  BY <1>2 DEF IPutClean, IPutDone
<1>6. Undisturbed(p)
  <2>1. Moves(p)
    BY <1>1, <1>2, <1>5 DEF IPutClean, IPutDone, IPutReturn, UserMode, GoOn, SleepAt,
       WakeWanting, WakeUpAll, AtIPut, At, Put, Moves, Alone
  <2>2. \A q \in Procs \ {p} : chan'[q] = Own <=> chan[q] = Own
    BY <1>1, <1>2, Channels DEF IPutClean, IPutDone, WakeWanting, WakeUpAll
  <2> QED BY <2>1, <2>2 DEF IPutClean, IPutDone, AtIPut, At, Undisturbed
<1>7. OnlyEntry(s) /\ slot'[s].count = 0
  BY <1>1, <1>3, <1>5 DEF OnlyEntry, Released, Fields
<1>8. pc'[p] \in {"user", "pop"} /\ (pc'[p] = "pop" => call'[p] = "creat") /\ call'[p] # "unlink"
      /\ back'[p] = "user"
  BY <1>1, <1>2, <1>5 DEF IPutReturn, UserMode, GoOn, SleepAt, Put, PlaceOK, TaskOK
<1>9. \A t \in Slots : Live(t)' <=> t # s /\ Live(t)
  <2>1. \A t \in Slots : Loading(t)' <=> Loading(t)
    BY <1>2, <1>6, <1>8, LoadingKept DEF Undisturbed, Moves
  <2> QED BY <1>7, <2>1 DEF Live, OnlyEntry
<1>10. NamesLive'
  <2> SUFFICES ASSUME NEW i \in named
               PROVE  /\ \A t \in Slots : Live(t)' /\ slot'[t].num = i =>
                             slot'[t].mode /\ slot'[t].nlink
                      /\ (\A t \in Slots : ~(Live(t)' /\ slot'[t].num = i)) => disk[i].mode
    BY <1>5 DEF NamesLive
  <2>1. \A t \in Slots : Live(t)' => Live(t) /\ slot'[t] = slot[t]
    BY <1>7, <1>9 DEF OnlyEntry
  <2>2. CASE slot[s].num = i
    BY <1>1, <1>3, <1>4, <2>1, <2>2 DEF NamesLive
  <2>3. CASE slot[s].num # i
    BY <1>1, <1>7, <1>9, <2>1, <2>3 DEF NamesLive, OnlyEntry
  <2> QED BY <2>2, <2>3
<1>11. CopiesSame' /\ FreeSame' /\ DiskLinked'
  <2>1. \A t \in Slots : (Cutting(t) => Cutting(t)') /\ (Flushing(t) => Flushing(t)')
    BY <1>2, <1>6, ExemptKept DEF Undisturbed, Moves
  <2>2. \A i \in Inos : Wanted(i)' => Wanted(i)
    BY <1>5, <1>6, <1>8, WantedKept DEF Undisturbed
  <2>3. CopiesSame' /\ FreeSame'
    BY <1>1, <1>5, <1>7, <1>9, <2>1 DEF CopiesSame, FreeSame, AsOnDisk, OnlyEntry
  <2> QED BY <1>1, <1>5, <2>2, <2>3 DEF DiskLinked
<1>12. \A q \in Procs \ {p} : TaskOK(q)'
  <2>1. FlagsFor(p, s)
    BY <1>3, <1>7 DEF FlagsFor
  <2> QED BY <1>5, <1>6, <1>8, <2>1, OthersTasks DEF AliveInv, TaskOK
<1>13. TaskOK(p)'
  BY <1>8 DEF TaskOK
<1> QED BY <1>10, <1>11, <1>12, <1>13 DEF AliveInv

\* An inode without links loses its mode.
LEMMA TruncatedAlive ==
    ASSUME AliveInv, WorkInv', NEW p \in Procs, Truncated(p)
    PROVE  AliveInv'
<1>1. /\ WorkInv /\ EntryOK(p) /\ PlaceOK(p) /\ TaskOK(p)
      /\ NamesLive /\ CopiesSame /\ FreeSame /\ DiskLinked
      /\ DOMAIN pc = Procs /\ DOMAIN call = Procs /\ DOMAIN sl = Procs
      /\ DOMAIN back = Procs /\ DOMAIN num = Procs /\ DOMAIN chan = Procs
      /\ DOMAIN slot = Slots
      /\ \A t \in Slots : DOMAIN slot[t] = Fields /\ slot[t].count \in Int
  BY DEF AliveInv, WorkInv, NumbersOK, RefInv, PlacesOK, EntriesOK, Fields
<1>2. PICK s \in Slots : s = sl[p] /\ pc[p] = "trunc"
  BY <1>1 DEF Truncated, At, PlaceOK
<1>3. Uses(p, s) /\ Live(s) /\ slot[s].count = 1 /\ ~slot[s].nlink
  BY <1>1, <1>2, Holds DEF EntryOK, Exclusive, TaskOK
<1>4. Undisturbed(p)
  BY <1>1, <1>2, Channels DEF Truncated, SleepAt, At, Put, Undisturbed, Moves, Alone
<1>5. /\ UNCHANGED <<disk, named, call, sl, back>> /\ pc'[p] = "update"
      /\ OnlyEntry(s) /\ slot'[s].num = slot[s].num /\ slot'[s].count = slot[s].count
      /\ ~slot'[s].mode /\ slot'[s].upd
  BY <1>1, <1>2 DEF Truncated, SleepAt, Put, OnlyEntry, Fields
<1>6. slot[s].num \notin named
  BY <1>1, <1>3 DEF NamesLive
<1>7. \A t \in Slots : Live(t)' <=> Live(t)
  <2>1. \A t \in Slots : Loading(t)' <=> Loading(t)
    BY <1>2, <1>4, <1>5, LoadingKept DEF Undisturbed, Moves
  <2> QED BY <1>5, <2>1 DEF Live, OnlyEntry
<1>8. NamesLive'
  BY <1>1, <1>5, <1>6, <1>7 DEF NamesLive, OnlyEntry
<1>9. CopiesSame' /\ FreeSame' /\ DiskLinked'
  <2>1. \A t \in Slots \ {s} : (AsOnDisk(t)' <=> AsOnDisk(t)) /\ slot'[t] = slot[t]
    BY <1>5 DEF AsOnDisk, OnlyEntry
  <2>2. \A t \in Slots \ {s} : (Cutting(t) => Cutting(t)') /\ (Flushing(t) => Flushing(t)')
    BY <1>2, <1>4, ExemptKept DEF Undisturbed, Moves
  <2>3. \A i \in Inos : Wanted(i)' => Wanted(i)
    BY <1>4, <1>5, WantedKept DEF Undisturbed
  <2>4. Flushing(s)'
    BY <1>1, <1>2, <1>5 DEF Flushing, PlaceOK
  <2>5. CopiesSame' /\ FreeSame'
    BY <1>1, <1>5, <1>7, <2>1, <2>2, <2>4 DEF CopiesSame, FreeSame
  <2> QED BY <1>1, <1>5, <2>3, <2>5 DEF DiskLinked
<1>10. \A q \in Procs \ {p} : TaskOK(q)'
  <2>1. FlagsFor(p, s)
    BY <1>3, <1>5 DEF FlagsFor
  <2> QED BY <1>4, <1>5, <2>1, OthersTasks DEF AliveInv, TaskOK
<1>11. TaskOK(p)'
  BY <1>1, <1>2, <1>5 DEF TaskOK
<1> QED BY <1>8, <1>9, <1>10, <1>11 DEF AliveInv

\* The place in the block that IUpdate writes is that of the inode.
LEMMA PlaceInBlock ==
    ASSUME NEW i \in Inos
    PROVE  BlockOf(i) * PerBlock + (i % PerBlock) = i
<1>1. PerBlock \in Nat \ {0} /\ i \in Nat
  BY InodesAssumption DEF Inos
<1> QED BY <1>1 DEF BlockOf, NoIno

\* The disk gets what the entry says.
LEMMA IUpdateAlive ==
    ASSUME AliveInv, WorkInv', NEW p \in Procs, IUpdate(p)
    PROVE  AliveInv'
<1>1. /\ WorkInv /\ EntryOK(p) /\ PlaceOK(p) /\ TaskOK(p)
      /\ NamesLive /\ CopiesSame /\ FreeSame /\ DiskLinked
      /\ DOMAIN pc = Procs /\ DOMAIN call = Procs /\ DOMAIN sl = Procs
      /\ DOMAIN back = Procs /\ DOMAIN num = Procs /\ DOMAIN chan = Procs
      /\ DOMAIN slot = Slots
      /\ \A t \in Slots : DOMAIN slot[t] = Fields /\ slot[t].count \in Int
  BY DEF AliveInv, WorkInv, NumbersOK, RefInv, PlacesOK, EntriesOK, Fields
<1>2. PICK s \in Slots : s = sl[p] /\ pc[p] = "update"
  BY <1>1 DEF IUpdate, At, PlaceOK
<1>3. Live(s) /\ slot[s].num = num[p] /\ num[p] \in Inos
  BY <1>1, <1>2, Holds DEF EntryOK
<1>4. Undisturbed(p)
  BY <1>1, <1>2, Channels DEF IUpdate, SleepAt, locals, At, Put, Undisturbed, Moves, Alone
<1>5. UNCHANGED <<slot, named, locals>> /\ pc'[p] = "write"
  BY <1>1 DEF IUpdate, SleepAt, Put
<1>6. /\ disk'[num[p]] = [mode |-> slot[s].mode, nlink |-> slot[s].nlink]
      /\ \A i \in Inos \ {num[p]} : disk'[i] = disk[i]
  <2>1. BlockOf(num[p]) * PerBlock + (slot[s].num % PerBlock) = num[p]
    BY <1>3, PlaceInBlock
  <2>2. slot[s].num # NoIno
    BY <1>3 DEF Inos, NoIno
  <2>3. disk' = [i \in Inos |-> IF slot[s].num # NoIno /\ i = num[p]
                                THEN [mode |-> slot[s].mode, nlink |-> slot[s].nlink]
                                ELSE disk[i]]
    BY <1>2, <2>1 DEF IUpdate
  <2> QED BY <1>3, <2>2, <2>3
<1>7. \A t \in Slots : Live(t)' <=> Live(t)
  <2>1. \A t \in Slots : Loading(t)' <=> Loading(t)
    BY <1>2, <1>4, <1>5, LoadingKept DEF Undisturbed, Moves
  <2> QED BY <1>5, <2>1 DEF Live
<1>8. \A t \in Slots : Live(t) /\ slot[t].num = num[p] => t = s
  BY <1>1, <1>2, <1>3, Same DEF Live
<1>9. NamesLive'
  <2>1. named \subseteq Inos
    BY <1>1 DEF WorkInv, NumbersOK
  <2> QED BY <1>1, <1>3, <1>5, <1>6, <1>7, <2>1 DEF NamesLive
<1>10. AsOnDisk(s)' /\ \A t \in Slots : Live(t) /\ t # s => (AsOnDisk(t)' <=> AsOnDisk(t))
  <2>1. AsOnDisk(s)'
    BY <1>3, <1>5, <1>6 DEF AsOnDisk
  <2>2. ASSUME NEW t \in Slots, Live(t), t # s  PROVE AsOnDisk(t)' <=> AsOnDisk(t)
    <3>1. slot[t].num \in Inos \ {num[p]}
      BY <1>1, <1>8, <2>2 DEF Live, WorkInv, NumbersOK
    <3> QED BY <1>5, <1>6, <3>1 DEF AsOnDisk
  <2> QED BY <2>1, <2>2
<1>11. CopiesSame' /\ FreeSame'
  <2>1. \A t \in Slots \ {s} : (Cutting(t) => Cutting(t)') /\ (Flushing(t) => Flushing(t)')
    BY <1>2, <1>4, ExemptKept DEF Undisturbed, Moves
  <2>2. ASSUME NEW t \in Slots, Live(t), ~slot[t].mode, ~Flushing(t)'
        PROVE  ~disk'[slot[t].num].mode
    <3>1. CASE t = s
      BY <1>5, <1>10, <2>2, <3>1 DEF AsOnDisk
    <3>2. CASE t # s
      <4>1. slot[t].num \in Inos \ {num[p]}
        BY <1>1, <1>8, <2>2, <3>2 DEF Live, WorkInv, NumbersOK
      <4> QED BY <1>1, <1>6, <2>1, <2>2, <3>2, <4>1 DEF FreeSame
    <3> QED BY <3>1, <3>2
  <2>3. FreeSame'
    BY <1>5, <1>7, <2>2 DEF FreeSame
  <2> QED BY <1>1, <1>5, <1>7, <1>10, <2>1, <2>3 DEF CopiesSame
<1>12. DiskLinked'
  <2>1. \A i \in Inos : Wanted(i)' => Wanted(i)
    BY <1>4, <1>5, WantedKept DEF Undisturbed
  <2>2. Wanted(num[p]) => slot[s].nlink \/ ~slot[s].mode
    <3>1. num[p] \in named => slot[s].nlink
      BY <1>1, <1>3 DEF NamesLive
    <3>2. ASSUME NEW q \in Procs, pc[q] = "writedir", num[q] = num[p]  PROVE slot[s].nlink
      <4>1. /\ sl[q] \in Slots /\ slot[sl[q]].count > 0 /\ slot[sl[q]].num = num[q]
            /\ slot[sl[q]].nlink
        BY <1>1, <3>2, Holds DEF AliveInv, WorkInv, EntryOK, TaskOK
      <4> QED BY <1>1, <1>2, <1>3, <3>2, <4>1, Same DEF Live
    <3> QED BY <3>1, <3>2 DEF Wanted
  <2> QED BY <1>1, <1>3, <1>6, <2>1, <2>2 DEF DiskLinked
<1>13. \A q \in Procs \ {p} : TaskOK(q)'
  <2>1. FlagsFor(p, s)
    BY <1>5 DEF FlagsFor
  <2>2. \A i \in Inos : disk'[i] = disk[i] \/ (pc[p] = "update" /\ i = num[p])
    BY <1>2, <1>6
  <2> QED BY <1>4, <1>5, <2>1, <2>2, OthersTasks DEF AliveInv, TaskOK
<1>14. TaskOK(p)'
  BY <1>1, <1>2, <1>5, <1>10 DEF TaskOK, locals
<1> QED BY <1>9, <1>11, <1>12, <1>13, <1>14 DEF AliveInv

\* A free inode is filled in: nobody else has it and no name leads to it.
LEMMA IAllocFreeAlive ==
    ASSUME AliveInv, WorkInv', NEW p \in Procs, IAllocFree(p)
    PROVE  AliveInv'
<1>1. /\ WorkInv /\ EntryOK(p) /\ PlaceOK(p) /\ TaskOK(p)
      /\ NamesLive /\ CopiesSame /\ FreeSame /\ DiskLinked
      /\ DOMAIN pc = Procs /\ DOMAIN call = Procs /\ DOMAIN sl = Procs
      /\ DOMAIN back = Procs /\ DOMAIN num = Procs /\ DOMAIN chan = Procs
      /\ DOMAIN slot = Slots
      /\ \A t \in Slots : DOMAIN slot[t] = Fields /\ slot[t].count \in Int
  BY DEF AliveInv, WorkInv, NumbersOK, RefInv, PlacesOK, EntriesOK, Fields
<1>2. PICK s \in Slots : s = sl[p] /\ pc[p] = "chosen" /\ ~slot[s].mode
  BY <1>1 DEF IAllocFree, At, PlaceOK
<1>3. Uses(p, s) /\ Live(s) /\ slot[s].num = num[p] /\ call[p] = "creat"
  BY <1>1, <1>2, Holds DEF EntryOK, TaskOK
<1>4. Undisturbed(p)
  BY <1>1, <1>2, Channels DEF IAllocFree, SleepAt, locals, At, Put, Undisturbed, Moves, Alone
<1>5. /\ UNCHANGED <<disk, named, locals>> /\ pc'[p] = "writedir"
      /\ OnlyEntry(s) /\ slot'[s].num = slot[s].num /\ slot'[s].count = slot[s].count
      /\ slot'[s].mode /\ slot'[s].nlink /\ slot'[s].upd
  BY <1>1, <1>2 DEF IAllocFree, SleepAt, Put, OnlyEntry, Fields
<1>6. num[p] \notin named
  BY <1>1, <1>2, <1>3 DEF NamesLive
<1>7. ASSUME NEW q \in Procs \ {p},
             pc[q] = "writedir" \/ (pc[q] = "locked" /\ call[q] = "unlink")
      PROVE  num[q] # num[p]
  <2>1. /\ sl[q] \in Slots /\ slot[sl[q]].count > 0 /\ slot[sl[q]].mode
        /\ slot[sl[q]].num = num[q]
    BY <1>1, <1>7, Holds DEF AliveInv, WorkInv, EntryOK, TaskOK
  <2> QED BY <1>1, <1>2, <1>3, <2>1, Same DEF Live
<1>8. \A t \in Slots : Live(t)' <=> Live(t)
  <2>1. \A t \in Slots : Loading(t)' <=> Loading(t)
    BY <1>2, <1>4, <1>5, LoadingKept DEF Undisturbed, Moves
  <2> QED BY <1>5, <2>1 DEF Live, OnlyEntry
<1>9. NamesLive'
  BY <1>1, <1>3, <1>5, <1>6, <1>8 DEF NamesLive, OnlyEntry
<1>10. CopiesSame' /\ FreeSame' /\ DiskLinked'
  <2>1. \A t \in Slots \ {s} : (AsOnDisk(t)' <=> AsOnDisk(t)) /\ slot'[t] = slot[t]
    BY <1>5 DEF AsOnDisk, OnlyEntry
  <2>2. \A t \in Slots : (Cutting(t) => Cutting(t)') /\ (Flushing(t) => Flushing(t)')
    BY <1>2, <1>4, ExemptKept DEF Undisturbed, Moves
  <2>3. CopiesSame' /\ FreeSame'
    BY <1>1, <1>5, <1>8, <2>1, <2>2 DEF CopiesSame, FreeSame
  <2>4. ~Flushing(s)
    <3> SUFFICES ASSUME NEW q \in Procs, pc[q] = "update", call[q] # "sync", sl[q] = s
                 PROVE  FALSE
      BY DEF Flushing
    <3>1. Exclusive(q) /\ q # p
      BY <1>2 DEF Exclusive
    <3> QED BY <1>1, <1>2, <3>1, ForItself
  <2>5. ~disk[num[p]].mode
    BY <1>1, <1>2, <1>3, <2>4 DEF FreeSame
  <2>6. \A i \in Inos : Wanted(i)' => Wanted(i) \/ i = num[p]
    BY <1>4, <1>5 DEF Wanted, Undisturbed, Moves, Alone, locals
  <2> QED BY <1>1, <1>5, <2>3, <2>5, <2>6 DEF DiskLinked
<1>11. \A q \in Procs \ {p} : TaskOK(q)'
  <2>1. FlagsFor(p, s)
    BY <1>3, <1>5 DEF FlagsFor
  <2>2. num'[p] = num[p]
    BY <1>5 DEF locals
  <2> QED BY <1>4, <1>5, <1>7, <2>1, <2>2, OthersTasks DEF AliveInv, TaskOK
<1>12. TaskOK(p)'
  <2>1. \A q \in Procs \ {p} : pc'[q] = pc[q] /\ num'[q] = num[q]
    BY <1>4 DEF Undisturbed, Moves, Alone
  <2> QED BY <1>1, <1>2, <1>3, <1>5, <1>6, <1>7, <2>1 DEF TaskOK, locals
<1> QED BY <1>9, <1>10, <1>11, <1>12 DEF AliveInv

\* The read has failed: the entry is still not that of its inode.
LEMMA IGetErrorAlive ==
    ASSUME AliveInv, WorkInv', NEW p \in Procs, IGetError(p)
    PROVE  AliveInv'
<1>1. /\ WorkInv /\ EntryOK(p) /\ PlaceOK(p) /\ TaskOK(p)
      /\ NamesLive /\ CopiesSame /\ FreeSame /\ DiskLinked
      /\ DOMAIN pc = Procs /\ DOMAIN call = Procs /\ DOMAIN sl = Procs
      /\ DOMAIN back = Procs /\ DOMAIN num = Procs /\ DOMAIN chan = Procs
      /\ DOMAIN slot = Slots
      /\ \A t \in Slots : DOMAIN slot[t] = Fields /\ slot[t].count \in Int
  BY DEF AliveInv, WorkInv, NumbersOK, RefInv, PlacesOK, EntriesOK, Fields
<1>2. /\ pc[p] = "load" /\ pc'[p] = "unread" /\ UNCHANGED <<slot, disk, named, locals>>
  BY <1>1 DEF IGetError, At, GoOn, Put
<1>3. Undisturbed(p)
  BY <1>1, Channels DEF IGetError, GoOn, locals, At, Put, Undisturbed, Moves, Alone
<1>4. \A t \in Slots : Live(t)' <=> Live(t)
  <2>1. \A t \in Slots : Loading(t)' <=> Loading(t)
    BY <1>2, <1>3 DEF Loading, Undisturbed, Moves, Alone, locals
  <2> QED BY <1>2, <2>1 DEF Live
<1>5. NamesLive' /\ CopiesSame' /\ FreeSame' /\ DiskLinked'
  <2>1. \A t \in Slots : (Cutting(t) => Cutting(t)') /\ (Flushing(t) => Flushing(t)')
    BY <1>2, <1>3, ExemptKept DEF Undisturbed, Moves
  <2>2. \A i \in Inos : Wanted(i)' => Wanted(i)
    BY <1>2, <1>3, WantedKept DEF Undisturbed
  <2> QED BY <1>2, <1>4, <2>1, <2>2, SameNames
<1>6. \A q \in Procs \ {p} : TaskOK(q)'
  <2>1. FlagsFor(p, sl[p])
    BY <1>2 DEF FlagsFor
  <2>2. sl[p] \in Slots
    BY <1>1, <1>2 DEF PlaceOK
  <2> QED BY <1>2, <1>3, <2>1, <2>2, OthersTasks DEF AliveInv, TaskOK
<1>7. TaskOK(p)'
  BY <1>1, <1>2 DEF TaskOK, PlaceOK, locals
<1> QED BY <1>5, <1>6, <1>7 DEF AliveInv

\* The entry of an inode that was not read is given up: to IPut it is that of the file
\* that was there before.  If it says that there are no links, the inode is cut, which
\* is a free one unless misread.
LEMMA UnreadAlive ==
    ASSUME AliveInv, WorkInv', ~misread', NEW p \in Procs, pc[p] = "unread",
           IPutTrunc(p) \/ IPutClean(p)
    PROVE  AliveInv'
<1>1. /\ WorkInv /\ EntryOK(p) /\ PlaceOK(p) /\ TaskOK(p)
      /\ NamesLive /\ CopiesSame /\ FreeSame /\ DiskLinked
      /\ DOMAIN pc = Procs /\ DOMAIN call = Procs /\ DOMAIN sl = Procs
      /\ DOMAIN back = Procs /\ DOMAIN num = Procs /\ DOMAIN chan = Procs
      /\ DOMAIN slot = Slots
      /\ \A t \in Slots : DOMAIN slot[t] = Fields /\ slot[t].count \in Int
  BY DEF AliveInv, WorkInv, NumbersOK, RefInv, PlacesOK, EntriesOK, Fields
<1>2. PICK s \in Slots : s = sl[p]
  BY <1>1 DEF PlaceOK
<1>3. /\ Uses(p, s) /\ slot[s].count = 1 /\ slot[s].num = num[p] /\ num[p] \in Inos
      /\ ~Live(s)
  BY <1>1, <1>2, Holds DEF EntryOK, Exclusive, Live, Loading
<1>4. \A t \in Slots : Live(t) => slot[t].num # num[p]
  BY <1>1, <1>2, <1>3, Same DEF Live
<1>5. UNCHANGED <<disk, named>>
  BY DEF IPutTrunc, IPutClean
<1>6. CASE IPutTrunc(p)
  <2>1. Undisturbed(p)
    BY <1>1, <1>6, Channels DEF IPutTrunc, AtIPut, SleepAt, locals, At, Put, Undisturbed, Moves,
       Alone
  <2>2. /\ UNCHANGED locals /\ pc'[p] = "trunc" /\ ~slot[s].nlink /\ OnlyEntry(s)
        /\ slot'[s].num = slot[s].num /\ slot'[s].count = slot[s].count
        /\ slot'[s].mode = slot[s].mode /\ slot'[s].nlink = slot[s].nlink
    BY <1>1, <1>2, <1>6 DEF IPutTrunc, SleepAt, Put, OnlyEntry, Fields
  <2>3. ~disk[num[p]].mode
    BY <1>6 DEF IPutTrunc
  <2>4. num[p] \notin named
    BY <1>1, <1>4, <2>3 DEF NamesLive
  <2>5. \A t \in Slots \ {s} : /\ Live(t)' <=> Live(t)
                              /\ slot'[t] = slot[t] /\ (AsOnDisk(t)' <=> AsOnDisk(t))
    <3>1. \A t \in Slots \ {s} : Loading(t)' <=> Loading(t)
      BY <1>2, <2>1, <2>2 DEF Undisturbed, Moves, Alone, Loading, locals
    <3> QED BY <1>5, <2>2, <3>1 DEF Live, OnlyEntry, AsOnDisk
  <2>6. NamesLive'
    BY <1>1, <1>3, <1>5, <2>2, <2>4, <2>5 DEF NamesLive
  <2>7. \A t \in Slots : (Cutting(t) => Cutting(t)') /\ (Flushing(t) => Flushing(t)')
    BY <2>1, ExemptKept DEF Undisturbed, Moves
  <2>8. CopiesSame' /\ FreeSame'
    <3>1. Cutting(s)'
      BY <1>2, <2>2 DEF Cutting, locals
    <3> QED BY <1>1, <1>3, <1>5, <2>2, <2>3, <2>5, <2>7, <3>1 DEF CopiesSame, FreeSame
  <2>9. DiskLinked'
    BY <1>1, <1>5, <2>1, <2>2, WantedKept DEF DiskLinked, Undisturbed
  <2>10. \A q \in Procs \ {p} : TaskOK(q)'
    <3>1. FlagsFor(p, s)
      BY <1>3, <2>2 DEF FlagsFor
    <3> QED BY <1>5, <2>1, <2>2, <3>1, OthersTasks DEF AliveInv, TaskOK
  <2>11. TaskOK(p)'
    BY <1>1, <1>2, <2>2 DEF TaskOK, PlaceOK, locals
  <2> QED BY <2>6, <2>8, <2>9, <2>10, <2>11 DEF AliveInv
<1>7. CASE IPutClean(p)
  <2>1. Undisturbed(p)
    BY <1>1, <1>7, Channels DEF IPutClean, AtIPut, IPutReturn, UserMode, GoOn, SleepAt,
       WakeWanting, WakeUpAll, At, Put, Undisturbed, Moves, Alone, PlaceOK
  <2>2. pc'[p] = "user" /\ call'[p] = "none" /\ back'[p] = "user"
    BY <1>1, <1>7 DEF IPutClean, IPutReturn, UserMode, SleepAt, Put, PlaceOK
  <2>3. OnlyEntry(s) /\ slot'[s].count = 0
    BY <1>1, <1>2, <1>3, <1>7 DEF IPutClean, OnlyEntry, Released, Fields
  <2>4. \A t \in Slots : Live(t)' <=> Live(t)
    <3>1. \A t \in Slots \ {s} : Loading(t)' <=> Loading(t)
      BY <1>2, <2>1, <2>2 DEF Undisturbed, Moves, Alone, Loading
    <3> QED BY <1>3, <2>3, <3>1 DEF Live, OnlyEntry
  <2>5. NamesLive' /\ CopiesSame' /\ FreeSame' /\ DiskLinked'
    <3>1. \A t \in Slots : Live(t) => slot'[t] = slot[t]
      BY <1>3, <2>3 DEF OnlyEntry
    <3>2. \A t \in Slots : (Cutting(t) => Cutting(t)') /\ (Flushing(t) => Flushing(t)')
      BY <2>1, ExemptKept DEF Undisturbed, Moves
    <3>3. \A i \in Inos : Wanted(i)' => Wanted(i)
      BY <1>5, <2>1, <2>2, WantedKept DEF Undisturbed
    <3> QED BY <1>5, <2>4, <3>1, <3>2, <3>3, SameNames
  <2>6. \A q \in Procs \ {p} : TaskOK(q)'
    <3>1. FlagsFor(p, s)
      BY <1>3, <2>3 DEF FlagsFor
    <3> QED BY <1>5, <2>1, <2>2, <3>1, OthersTasks DEF AliveInv, TaskOK
  <2>7. TaskOK(p)'
    BY <2>2 DEF TaskOK
  <2> QED BY <2>5, <2>6, <2>7 DEF AliveInv
<1> QED BY <1>6, <1>7

\* Update locks and unlocks, and changes nothing else; what it writes, IUpdate writes.
LEMMA SyncAlive ==
    ASSUME AliveInv, WorkInv', NEW p \in Procs,
           Sync(p) \/ SyncSuper(p) \/ SyncInode(p) \/ SyncWritten(p) \/ SyncEnd(p)
    PROVE  AliveInv'
<1>1. /\ WorkInv /\ EntryOK(p) /\ PlaceOK(p) /\ TaskOK(p)
      /\ DOMAIN pc = Procs /\ DOMAIN call = Procs /\ DOMAIN sl = Procs
      /\ DOMAIN back = Procs /\ DOMAIN num = Procs /\ DOMAIN chan = Procs
      /\ DOMAIN slot = Slots
      /\ \A t \in Slots : DOMAIN slot[t] = Fields /\ slot[t].count \in Int
  BY DEF AliveInv, WorkInv, NumbersOK, RefInv, PlacesOK, EntriesOK, Fields
<1>2. CASE Sync(p)
  <2>1. Undisturbed(p)
    BY <1>1, <1>2, Channels DEF Sync, Enters, GoOn, SleepAt, At, Put, Undisturbed, Moves, Alone
  <2>2. TaskOK(p)'
    BY <1>1, <1>2 DEF Sync, Enters, GoOn, SleepAt, At, Put, TaskOK, PlaceOK
  <2>3. /\ pc[p] \notin {"load", "unread", "trunc", "update"}
        /\ pc'[p] \notin {"load", "unread", "writedir"}
        /\ UNCHANGED <<slot, disk, named>>
    BY <1>1, <1>2 DEF Sync, Enters, GoOn, SleepAt, At, Put
  <2> QED BY <2>1, <2>2, <2>3, AliveMoves
<1>3. CASE SyncSuper(p)
  <2>1. Undisturbed(p)
    BY <1>1, <1>3, Channels DEF SyncSuper, SleepAt, locals, At, Put, Undisturbed, Moves, Alone
  <2>2. TaskOK(p)'
    BY <1>1, <1>3 DEF SyncSuper, SleepAt, locals, At, Put, TaskOK, PlaceOK
  <2>3. /\ pc[p] \notin {"load", "unread", "trunc", "update"}
        /\ pc'[p] \notin {"load", "unread", "writedir"}
        /\ UNCHANGED <<slot, disk, named>>
    BY <1>1, <1>3 DEF SyncSuper, SleepAt, locals, At, Put
  <2> QED BY <2>1, <2>2, <2>3, AliveMoves
<1>4. CASE SyncEnd(p)
  <2>1. Undisturbed(p)
    BY <1>1, <1>4, Channels DEF SyncEnd, UserMode, SleepAt, At, Put, Undisturbed, Moves, Alone
  <2>2. TaskOK(p)'
    BY <1>1, <1>4 DEF SyncEnd, UserMode, SleepAt, At, Put, TaskOK, PlaceOK
  <2>3. /\ pc[p] \notin {"load", "unread", "trunc", "update"}
        /\ pc'[p] \notin {"load", "unread", "writedir"}
        /\ UNCHANGED <<slot, disk, named>>
    BY <1>1, <1>4 DEF SyncEnd, UserMode, SleepAt, At, Put
  <2> QED BY <2>1, <2>2, <2>3, AliveMoves
<1>5. CASE SyncInode(p)
  <2>1. PICK s \in Slots : s = scan[p]
    BY <1>5 DEF SyncInode
  <2>2. Undisturbed(p)
    BY <1>1, <1>5, Channels DEF SyncInode, GoOn, SleepAt, At, Put, Undisturbed, Moves, Alone
  <2>3. QuietEntry(s)
    BY <1>1, <1>5, <2>1 DEF SyncInode, QuietEntry, OnlyEntry, Fields
  <2>4. TaskOK(p)'
    <3>1. /\ call[p] = "sync" /\ call'[p] = "sync"
          /\ pc'[p] \in {"sync", "update"} /\ back'[p] \in {back[p], "sync"}
      BY <1>1, <1>5 DEF SyncInode, GoOn, SleepAt, At, Put, PlaceOK
    <3> QED BY <1>1, <3>1 DEF TaskOK
  <2>5. /\ pc[p] \notin {"load", "unread", "trunc", "update"}
        /\ pc'[p] \notin {"load", "unread", "writedir"}
        /\ UNCHANGED <<disk, named>>
    BY <1>1, <1>5 DEF SyncInode, GoOn, SleepAt, At, Put
  <2> QED BY <2>2, <2>3, <2>4, <2>5, AliveQuiet
<1>6. CASE SyncWritten(p)
  <2>1. PICK s \in Slots : s = sl[p]
    BY <1>1, <1>6 DEF SyncWritten, At, PlaceOK
  <2>2. Undisturbed(p)
    BY <1>1, <1>6, <2>1, Channels DEF SyncWritten, GoOn, WakeWanting, WakeUpAll, At, Put,
       Undisturbed, Moves, Alone
  <2>3. QuietEntry(s)
    BY <1>1, <1>6, <2>1 DEF SyncWritten, QuietEntry, OnlyEntry, Fields, Prele
  <2>4. TaskOK(p)'
    BY <1>1, <1>6 DEF SyncWritten, GoOn, At, Put, TaskOK, PlaceOK
  <2>5. /\ pc[p] \notin {"load", "unread", "trunc", "update"}
        /\ pc'[p] \notin {"load", "unread", "writedir"}
        /\ UNCHANGED <<disk, named>>
    BY <1>1, <1>6 DEF SyncWritten, GoOn, At, Put
  <2> QED BY <2>2, <2>3, <2>4, <2>5, AliveQuiet
<1> QED BY <1>2, <1>3, <1>4, <1>5, <1>6

LEMMA AliveInit == Init => AliveInv
<1> SUFFICES ASSUME Init  PROVE AliveInv
  OBVIOUS
<1>1. \A s \in Slots : slot[s].count = 0
  BY DEF Init, EmptyTable
<1>2. NamesLive /\ CopiesSame /\ FreeSame /\ DiskLinked
  BY <1>1 DEF Init, NamesLive, CopiesSame, FreeSame, DiskLinked, Live
<1>3. \A p \in Procs : TaskOK(p)
  BY DEF Init, TaskOK
<1> QED BY <1>2, <1>3, WorkInit DEF AliveInv

LEMMA CrashAlive ==
    ASSUME AliveInv, WorkInv', Crash
    PROVE  AliveInv'
<1>1. PICK lost : named' = {i \in named : disk[i].mode} \ lost
  BY DEF Crash
<1>2. UNCHANGED disk /\ \A s \in Slots : slot'[s].count = 0
  BY DEF Crash, EmptyTable
<1>3. NamesLive' /\ CopiesSame' /\ FreeSame'
  BY <1>1, <1>2 DEF NamesLive, CopiesSame, FreeSame, Live
<1>3a. DiskLinked'
  <2>1. \A i \in Inos : Wanted(i)' => Wanted(i)
    BY <1>1 DEF Crash, Wanted
  <2> QED BY <1>2, <2>1 DEF AliveInv, DiskLinked
<1>4. \A p \in Procs : TaskOK(p)'
  BY DEF Crash, TaskOK
<1> QED BY <1>3, <1>3a, <1>4 DEF AliveInv

\* The history of an inode freed although it is in use is kept.
LEMMA MisreadKept == [Next]_vars /\ ~misread' => ~misread
<1> SUFFICES ASSUME [Next]_vars, misread  PROVE misread'
  OBVIOUS
<1>1. CASE UNCHANGED vars
  BY <1>1 DEF vars, history
<1>2. CASE Crash
  BY <1>2 DEF Crash
<1>3. ASSUME NEW p \in Procs, Step(p)  PROVE misread'
  BY <1>3 DEF Step, history, Open, UnLink, Creat, Close, Sync, IGetWait, IGetFound, IGetLoad,
     IGetFull, ICopy, IGetError, WriteDir, Open1, Open1Denied, Open1Full, Unlinked, IPutShared,
     IPutTrunc, IPutUpdate, IPutClean, Truncated, IUpdate, IPutDone, IAllocWait, IAllocSearch,
     IAllocBlock, IAllocFound, IAllocTake, IAllocOutside, IAllocFree, IAllocOccupied, SyncSuper,
     SyncInode, SyncWritten, SyncEnd
<1> QED BY <1>1, <1>2, <1>3 DEF Next, NotFollowed

LEMMA AliveNext ==
    ASSUME AliveInv, [Next]_vars, ~overtaken', ~misread'
    PROVE  AliveInv'
<1>1. WorkInv'
  BY WorkNext DEF AliveInv
<1>2. CASE UNCHANGED vars
  <2>1. UNCHANGED <<slot, disk, named, cpu, pc, call, num, sl, back, chan>>
    BY <1>2 DEF vars, locals
  <2>2. NamesLive' /\ CopiesSame' /\ FreeSame' /\ DiskLinked'
    BY <2>1 DEF AliveInv, NamesLive, CopiesSame, FreeSame, DiskLinked, Wanted, Live, Loading,
       Cutting, Flushing, AsOnDisk
  <2>3. \A p \in Procs : TaskOK(p)'
    BY <2>1 DEF AliveInv, TaskOK, AsOnDisk
  <2> QED BY <1>1, <2>2, <2>3 DEF AliveInv
<1>3. CASE Crash
  BY <1>1, <1>3, CrashAlive
<1>4. ASSUME NEW p \in Procs, Step(p)  PROVE AliveInv'
  <2>1. IPutTrunc(p) \/ IPutClean(p) => pc[p] \in {"iput", "unread"}
    BY DEF IPutTrunc, IPutClean, AtIPut, At
  <2> QED BY <1>1, <1>4, <2>1, CallsAlive, IGetAlive, CallerAlive, IAllocAlive, IGetLoadAlive,
     IGetErrorAlive, UnreadAlive, ICopyAlive, WriteDirAlive, UnlinkedAlive, ReleasedAlive,
     TruncatedAlive, IUpdateAlive, IAllocFreeAlive, SyncAlive DEF Step
<1> QED BY <1>2, <1>3, <1>4 DEF Next, NotFollowed

\* AliveInv holds until an entry is given up under Update or an inode in use is freed
\* unread: what has a name has the mode and the links for it in core or on the disk,
\* through creat, unlink, IPut, IUpdate, Update, failing reads and crashes.
THEOREM AliveInvariance == Spec => [](~overtaken /\ ~misread => AliveInv)
<1>1. Init => (~overtaken /\ ~misread => AliveInv)
  BY AliveInit
<1>2. (~overtaken /\ ~misread => AliveInv) /\ [Next]_vars
         => (~overtaken /\ ~misread => AliveInv)'
  BY AliveNext, OvertakenKept, MisreadKept
<1> QED BY <1>1, <1>2, PTL DEF Spec

\* A name always leads to an inode in use, through crashes, stale numbers, failing reads,
\* Update and locks that do not hold, but for the two exceptions of NamedAlive: IPut gives
\* no other inode up that has a name (IPut 201-224, IAlloc 287-299).
THEOREM NamedAliveHolds == Spec => []NamedAlive
<1>1. (~overtaken /\ ~misread => AliveInv) => NamedAlive
  BY DEF AliveInv, NamesLive, NamedAlive, Loaded, Live
<1> QED BY <1>1, AliveInvariance, PTL

\* With the same exceptions IAlloc gives no inode to two processes, nor one that has a
\* name, whatever is on the list of free inodes.
THEOREM FreshInodeHolds == Spec => []FreshInode
<1>1. (~overtaken /\ ~misread => AliveInv) => FreshInode
  BY DEF AliveInv, TaskOK, FreshInode
<1> QED BY <1>1, AliveInvariance, PTL

=============================================================================
