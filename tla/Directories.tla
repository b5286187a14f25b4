----------------------------- MODULE Directories -----------------------------
(*****************************************************************************)
(* Directories and path names (fs/FileManager.cpp): NameI, MakNode, WriteDir *)
(* and the calls that use them, open, creat, mknod, link, unlink, chdir and  *)
(* close, over a tree of directories that several processes change.  Inodes  *)
(* has the in-core table and the list of free inodes in full; here an inode  *)
(* is its kind, i_nlink, i_count and ILOCK, and Inodes' calls IGet and IPut  *)
(* are taken for what they do to these.                                      *)
(*                                                                           *)
(* As in Inodes, cpu is the process that has not slept since its last step.  *)
(*****************************************************************************)
EXTENDS Integers, Sequences, FiniteSets, FiniteSetsExt, SequencesExt

CONSTANTS Procs,   \* processes
          NoProc,  \* no process
          Inos,    \* inode numbers
          Root,    \* FileSystem::ROOTINO
          Supers,  \* processes of the superuser
          Names,   \* components of path names
          Paths,   \* Paths[p]: the paths its calls name
          MaxLink, \* what i_nlink is limited to: 255
          PerBlock,\* entries of a directory in a block: 16
          NFile,   \* entries of the open file table
          Calls,   \* Calls[p]: the calls process p makes
          Beyond,  \* is the system followed beyond its known faults?
          NoIno    \* m_ino of an entry that is free

ASSUME DirectoriesAssumption ==
    /\ IsFiniteSet(Procs) /\ NoProc \notin Procs /\ Supers \subseteq Procs
    /\ Root \in Inos /\ NoIno \notin Inos /\ Paths \in [Procs -> SUBSET Seq(Names)]
    /\ MaxLink \in Nat /\ PerBlock \in Nat \ {0} /\ NFile \in Nat /\ Beyond \in BOOLEAN
    /\ Calls \in [Procs -> SUBSET {"open", "creat", "mknod", "link", "unlink",
                                   "chdir", "close"}]

FreeEntry == [name |-> NoIno, ino |-> NoIno]   \* what name it had does not matter

VARIABLES node,   \* node[i]: kind of file, i_nlink, i_count, and who set ILOCK
          ent,    \* ent[d]: the entries of directory d
          free,   \* inodes IAlloc can give out
          files,  \* open files that refer to an inode
          cdir,   \* u_cdir
          cpu, pc,
          call,   \* the call a process is in; "linkto" is link's second NameI
          path,   \* what is left of the path, the component in u_dbuf first
          refs,   \* the inodes it has got from IGet, in the order it will IPut them
          num,    \* u_dent.m_ino
          off,    \* m_Offset: the entry that will be written
          back,   \* where it goes on after IPut
          kept,   \* directories MakNode left behind (history)
          stolen, \* a lock was cleared by another process than had set it (history)
          pruned, \* a directory with entries was removed (history)
          unwritten, \* names that i_nlink counts though they were not written (history)
          uncleared  \* an entry stayed when i_nlink was counted down for it (history)

locals  == <<call, path, num, off, back>>
history == <<kept, stolen, pruned, unwritten, uncleared>>
vars    == <<node, ent, free, files, cdir, cpu, pc, locals, refs, history>>

Put(f, p, v) == [f EXCEPT ![p] = v]

\* Without Beyond the system is followed until a directory stays locked for ever, a lock
\* is cleared under the process that works with the inode, or an unlinked entry stays.
NoneKept == \A i \in Inos : kept[i] = 0
Followed == Beyond \/ (~stolen /\ ~uncleared /\ NoneKept)

At(p, label)      == pc[p] = label /\ cpu \in {p, NoProc} /\ Followed
GoOn(p, label)    == pc' = Put(pc, p, label) /\ cpu' = p
SleepAt(p, label) == pc' = Put(pc, p, label) /\ cpu' = NoProc

\* The locals mean nothing any more.
Forget(p) ==
    /\ call' = Put(call, p, "none") /\ path' = Put(path, p, << >>)
    /\ num' = Put(num, p, NoIno) /\ off' = Put(off, p, 0) /\ back' = Put(back, p, "out")

UserMode(p) == SleepAt(p, "user") /\ Forget(p)

\* Everything IPut has to give back, then the end of the call.
Leave(p) == GoOn(p, "iput") /\ Forget(p)

Live(d) == {k \in DOMAIN ent[d] : ent[d][k].ino # NoIno}

\* The state after boot: an empty root, in core for rootDirInode and every u_cdir.
Init ==
    /\ node = [i \in Inos |-> [kind  |-> IF i = Root THEN "dir" ELSE "none",
                               nlink |-> IF i = Root THEN 1 ELSE 0,
                               count |-> IF i = Root THEN 1 + Cardinality(Procs) ELSE 0,
                               lock  |-> NoProc]]
    /\ ent = [i \in Inos |-> << >>]
    /\ free = Inos \ {Root}
    /\ files = [i \in Inos |-> 0] /\ cdir = [p \in Procs |-> Root]
    /\ cpu = NoProc /\ pc = [p \in Procs |-> "user"]
    /\ call = [p \in Procs |-> "none"] /\ path = [p \in Procs |-> << >>]
    /\ refs = [p \in Procs |-> << >>]
    /\ num = [p \in Procs |-> NoIno] /\ off = [p \in Procs |-> 0]
    /\ back = [p \in Procs |-> "out"]
    /\ kept = [i \in Inos |-> 0] /\ stolen = FALSE /\ pruned = FALSE
    /\ unwritten = [i \in Inos |-> 0] /\ uncleared = FALSE

-----------------------------------------------------------------------------
(* IGet and IPut *)

\* IGet(i), for call c with the path way, which gives a process the references got.  An
\* inode that is not in core is read, one that is locked is slept for: on an address
\* nobody wakes (see Inodes).  The search that follows reads the directory, if it has
\* ever had entries.
Get(p, i, label, got, c, way) ==
    \/ /\ node[i].lock # NoProc
       /\ SleepAt(p, "asleep") /\ num' = Put(num, p, i)
       /\ call' = Put(call, p, "none") /\ path' = Put(path, p, << >>)
       /\ off' = Put(off, p, 0)
       /\ UNCHANGED <<node, refs, back>>
    \/ /\ node[i].lock = NoProc
       /\ node' = [node EXCEPT ![i].count = @ + 1, ![i].lock = p]
       /\ refs' = Put(refs, p, got) /\ num' = Put(num, p, NoIno)
       /\ call' = Put(call, p, c) /\ path' = Put(path, p, way)
       /\ IF node[i].count = 0 \/ (label = "search" /\ way # << >> /\ ent[i] # << >>)
          THEN SleepAt(p, label) ELSE GoOn(p, label)
       /\ UNCHANGED <<off, back>>

\* ILOCK is cleared or set: was it another's?
Unlocks(p, i) == stolen' = (stolen \/ node[i].lock \notin {p, NoProc})

\* Where IPut returns to, with the references left.
Return(p, left) ==
    CASE back[p] = "out" /\ left = << >> -> UserMode(p)
      [] back[p] = "out" /\ left # << >> -> GoOn(p, "iput") /\ UNCHANGED locals
      [] OTHER -> /\ GoOn(p, back[p]) /\ back' = Put(back, p, "out")
                  /\ UNCHANGED <<call, path, num, off>>

\* IPut(Head(refs[p])): there are others, but the lock is cleared.
IPutShared(p) == LET i == Head(refs[p]) IN
    /\ At(p, "iput") /\ node[i].count # 1
    /\ node' = [node EXCEPT ![i].count = @ - 1, ![i].lock = NoProc]
    /\ Unlocks(p, i)
    /\ refs' = Put(refs, p, Tail(refs[p]))
    /\ Return(p, Tail(refs[p]))
    /\ UNCHANGED <<ent, free, files, cdir, kept, pruned, unwritten, uncleared>>

\* The last reference: ITrunc, or at once IUpdate, may sleep.
IPutLast(p) == LET i == Head(refs[p]) IN
    /\ At(p, "iput") /\ node[i].count = 1
    /\ node' = [node EXCEPT ![i].lock = p]
    /\ Unlocks(p, i)
    /\ SleepAt(p, IF node[i].nlink <= 0 THEN "trunc" ELSE "release")
    /\ UNCHANGED <<ent, free, files, cdir, locals, refs, kept, pruned, unwritten, uncleared>>

\* The inode is free, and in IFree's list; IUpdate may sleep.
Truncated(p) == LET i == Head(refs[p]) IN
    /\ At(p, "trunc")
    /\ node' = [node EXCEPT ![i].kind = "none"]
    /\ ent' = [ent EXCEPT ![i] = << >>]
    /\ free' = free \cup {i}
    /\ pruned' = (pruned \/ Live(i) # {})
    /\ SleepAt(p, "release")
    /\ UNCHANGED <<files, cdir, locals, refs, kept, stolen, unwritten, uncleared>>

Release(p) == LET i == Head(refs[p]) IN
    /\ At(p, "release")
    /\ node' = [node EXCEPT ![i].count = @ - 1, ![i].lock = NoProc]
    /\ refs' = Put(refs, p, Tail(refs[p]))
    /\ Return(p, Tail(refs[p]))
    /\ UNCHANGED <<ent, free, files, cdir, history>>

-----------------------------------------------------------------------------
(* NameI *)

Modes == [open |-> "OPEN", chdir |-> "OPEN", link |-> "OPEN", creat |-> "CREATE",
          mknod |-> "CREATE", linkto |-> "CREATE", unlink |-> "DELETE"]
Mode(p) == Modes[call[p]]

\* NameI starts at the root or at u_cdir; without a component only OPEN goes on.
StartAt(p, i, c, way) ==
    Get(p, i, IF way = << >> /\ Modes[c] # "OPEN" THEN "error" ELSE "search",
        <<i>> \o refs[p], c, way)

Call(p) == \E c \in Calls[p] \ {"close"}, way \in Paths[p], i \in {Root, cdir[p]} :
    /\ At(p, "user") /\ (c = "mknod" => p \in Supers)
    /\ StartAt(p, i, c, way)
    /\ UNCHANGED <<ent, free, files, cdir, history>>

\* The end of the path: NameI returns the inode, locked.
Arrived(p) ==
    /\ At(p, "search") /\ path[p] = << >>
    /\ GoOn(p, "found")
    /\ UNCHANGED <<node, ent, free, files, cdir, locals, refs, history>>

\* It is no directory, or may not be searched or written.
Denied(p) ==
    /\ At(p, "search") /\ path[p] # << >>
    /\ Leave(p)
    /\ UNCHANGED <<node, ent, free, files, cdir, refs, history>>

Matches(d, name)  == {k \in Live(d) : ent[d][k].name = name}
FreeEntries(d)    == DOMAIN ent[d] \ Live(d)
FreeEntryOffset(d) == IF FreeEntries(d) = {} THEN Len(ent[d]) + 1 ELSE Min(FreeEntries(d))

\* The entry NameI finds in the directory it has come to, if there is one.
Found(p) == LET d == Head(refs[p])
            IN  {k \in Matches(d, Head(path[p])) : \A j \in Matches(d, Head(path[p])) : k <= j}

Looks(p) == At(p, "search") /\ path[p] # << >> /\ node[Head(refs[p])].kind = "dir"
IsLast(p) == Len(path[p]) = 1

\* The component is found and the directory given up, which may sleep, for the inode.
Descend(p) ==
    /\ Looks(p) /\ ~(Mode(p) = "DELETE" /\ IsLast(p))
    /\ \E k \in Found(p) : num' = Put(num, p, ent[Head(refs[p])][k].ino)
    /\ path' = Put(path, p, Tail(path[p]))
    /\ GoOn(p, "iput") /\ back' = Put(back, p, "next")
    /\ UNCHANGED <<node, ent, free, files, cdir, call, off, refs, history>>

Enter(p) ==
    /\ At(p, "next")
    /\ Get(p, num[p], "search", <<num[p]>> \o refs[p], call[p], path[p])
    /\ UNCHANGED <<ent, free, files, cdir, history>>

\* The in-core table is full, or the inode cannot be read: NULL.
NextFails(p) ==
    /\ At(p, "next") /\ node[num[p]].count = 0
    /\ IF refs[p] = << >> THEN UserMode(p) ELSE Leave(p)
    /\ UNCHANGED <<node, ent, free, files, cdir, refs, history>>

\* Not found: an error, or the place for a new entry in the directory, which stays locked.
NotFound(p) ==
    /\ Looks(p) /\ Found(p) = {}
    /\ ~(Mode(p) = "CREATE" /\ IsLast(p))
    /\ Leave(p)
    /\ UNCHANGED <<node, ent, free, files, cdir, refs, history>>

\* Mutant: NameI would unlock the directory, as UnLink does.
ToCreateUnlocked(p) == LET d == Head(refs[p]) IN
    /\ Looks(p) /\ Mode(p) = "CREATE" /\ IsLast(p) /\ Found(p) = {}
    /\ off' = Put(off, p, FreeEntryOffset(d))
    /\ node' = [node EXCEPT ![d].lock = NoProc]
    /\ SleepAt(p, IF call[p] = "linkto" THEN "writedir" ELSE "ialloc")
    /\ UNCHANGED <<ent, free, files, cdir, call, path, num, back, refs, history>>

ToCreate(p) ==
    /\ Looks(p) /\ Mode(p) = "CREATE" /\ IsLast(p) /\ Found(p) = {}
    /\ off' = Put(off, p, FreeEntryOffset(Head(refs[p])))
    /\ SleepAt(p, IF call[p] = "linkto" THEN "writedir" ELSE "ialloc")
    /\ UNCHANGED <<node, ent, free, files, cdir, call, path, num, back, refs, history>>

\* The entry to delete: NameI returns the directory, and UnLink unlocks it.
ToDelete(p) == LET d == Head(refs[p]) IN
    /\ Looks(p) /\ Mode(p) = "DELETE" /\ IsLast(p)
    /\ \E k \in Found(p) : /\ num' = Put(num, p, ent[d][k].ino)
                          /\ off' = Put(off, p, k)
    /\ node' = [node EXCEPT ![d].lock = NoProc] /\ Unlocks(p, d)
    /\ GoOn(p, "unlink")
    /\ UNCHANGED <<ent, free, files, cdir, call, path, back, refs, kept, pruned, unwritten,
                   uncleared>>

Error(p) ==
    /\ At(p, "error")
    /\ Leave(p)
    /\ UNCHANGED <<node, ent, free, files, cdir, refs, history>>

-----------------------------------------------------------------------------
(* MakNode and WriteDir *)

\* IAlloc takes a free inode and reads it.  (Inodes shows that nobody else has it.)
IAlloc(p) == \E i \in free :
    /\ At(p, "ialloc")
    /\ free' = free \ {i}
    /\ Get(p, i, "made", Append(refs[p], i), call[p], path[p])
    /\ UNCHANGED <<ent, files, cdir, history>>

\* No inode, or no entry in the in-core table: MakNode returns, without an IPut.
MakNodeFails(p) == LET d == Head(refs[p]) IN
    /\ At(p, "ialloc")
    /\ kept' = [kept EXCEPT ![d] = @ + 1]
    /\ refs' = Put(refs, p, << >>)
    /\ UserMode(p)
    /\ UNCHANGED <<node, ent, free, files, cdir, stolen, pruned, unwritten, uncleared>>

\* The inode is filled in; WriteI reads the directory.
MakNode(p) == LET i == refs[p][2] IN \E kind \in {"file", "dir"} :
    /\ At(p, "made") /\ (call[p] = "creat" => kind = "file")
    /\ node' = [node EXCEPT ![i].kind = kind, ![i].nlink = 1]
    /\ SleepAt(p, "writedir")
    /\ UNCHANGED <<ent, free, files, cdir, locals, refs, history>>

\* WriteI of one entry.
Written(d, k, e) == [ent EXCEPT ![d] = IF k \in DOMAIN @ THEN [@ EXCEPT ![k] = e]
                                                          ELSE Append(@, e)]

AfterWriteDir == [creat |-> "open1", mknod |-> "out", linkto |-> "count"]

WriteDir(p) == LET d == Head(refs[p]) IN
    /\ At(p, "writedir")
    /\ ent' = Written(d, off[p], [name |-> Head(path[p]), ino |-> refs[p][2]])
    /\ GoOn(p, "iput") /\ back' = Put(back, p, AfterWriteDir[call[p]])
    /\ path' = Put(path, p, << >>) /\ off' = Put(off, p, 0)
    /\ UNCHANGED <<node, free, files, cdir, call, num, refs, history>>

\* Does the next entry of directory d need a block of its own?
NewBlock(d) == Len(ent[d]) % PerBlock = 0

\* The entry is not written, and the call goes on with u_error: WriteI has done nothing,
\* since an error stood already (from IAlloc; Link looks), Bmap found no block, or the block
\* of a free entry cannot be read; or that of a new one cannot, and i_size has grown.
WriteDirFails(p) == LET d == Head(refs[p]) IN
    /\ At(p, "writedir")
    /\ \/ /\ call[p] = "linkto" => NewBlock(d) \/ off[p] \in DOMAIN ent[d]
          /\ ent' = ent
       \/ /\ ~NewBlock(d) /\ off[p] \notin DOMAIN ent[d]
          /\ ent' = Written(d, off[p], FreeEntry)
    /\ unwritten' = [unwritten EXCEPT ![refs[p][2]] = @ + 1]
    /\ GoOn(p, "iput") /\ back' = Put(back, p, IF call[p] = "linkto" THEN "count" ELSE "out")
    /\ path' = Put(path, p, << >>) /\ off' = Put(off, p, 0)
    /\ UNCHANGED <<node, free, files, cdir, call, num, refs, kept, stolen, pruned, uncleared>>

-----------------------------------------------------------------------------
(* The calls, with the inode NameI or MakNode has returned *)

\* Permission is denied, the name exists, it is the wrong kind of file.
Refused(p) ==
    /\ At(p, "found")
    /\ Leave(p)
    /\ UNCHANGED <<node, ent, free, files, cdir, refs, history>>

\* Creat of an existing file: ITrunc sleeps.
Empties(p) ==
    /\ At(p, "found") /\ call[p] = "creat" /\ node[Head(refs[p])].kind = "file"
    /\ SleepAt(p, "open1")
    /\ UNCHANGED <<node, ent, free, files, cdir, locals, refs, history>>

Opens(p) == At(p, "open1") \/ (At(p, "found") /\ call[p] = "open")
OpenFiles == MapThenSumSet(LAMBDA i : files[i], Inos)

Open1(p) == LET i == Head(refs[p]) IN
    /\ Opens(p) /\ OpenFiles < NFile
    /\ node' = [node EXCEPT ![i].lock = NoProc] /\ Unlocks(p, i)
    /\ files' = [files EXCEPT ![i] = @ + 1]
    /\ refs' = Put(refs, p, << >>)
    /\ UserMode(p)
    /\ UNCHANGED <<ent, free, cdir, kept, pruned, unwritten, uncleared>>

\* FAlloc finds no entry.
Open1Full(p) == LET i == Head(refs[p]) IN
    /\ Opens(p) /\ OpenFiles >= NFile
    /\ node' = [node EXCEPT ![i].lock = NoProc] /\ Unlocks(p, i)
    /\ Leave(p)
    /\ UNCHANGED <<ent, free, files, cdir, refs, kept, pruned, unwritten, uncleared>>

\* CloseF: an inode that nobody has locked for this is given back.
Close(p) == \E i \in Inos :
    /\ At(p, "user") /\ "close" \in Calls[p] /\ files[i] > 0
    /\ files' = [files EXCEPT ![i] = @ - 1]
    /\ refs' = Put(refs, p, <<i>>)
    /\ Leave(p)
    /\ UNCHANGED <<node, ent, free, cdir, history>>

\* Mutant: ChDir would not give back the directory it leaves.
ChDirKeeps(p) == LET i == Head(refs[p]) IN
    /\ At(p, "found") /\ call[p] = "chdir" /\ node[i].kind = "dir"
    /\ cdir' = Put(cdir, p, i)
    /\ refs' = Put(refs, p, << >>)
    /\ GoOn(p, "entered")
    /\ UNCHANGED <<node, ent, free, files, locals, history>>

\* The old directory is given back, which may sleep, then the new one unlocked.
ChDir(p) == LET i == Head(refs[p]) IN
    /\ At(p, "found") /\ call[p] = "chdir" /\ node[i].kind = "dir"
    /\ cdir' = Put(cdir, p, i)
    /\ refs' = Put(refs, p, <<cdir[p]>>)
    /\ GoOn(p, "iput") /\ back' = Put(back, p, "entered")
    /\ UNCHANGED <<node, ent, free, files, call, path, num, off, history>>

Entered(p) == LET i == cdir[p] IN
    /\ At(p, "entered")
    /\ node' = [node EXCEPT ![i].lock = NoProc] /\ Unlocks(p, i)
    /\ UserMode(p)
    /\ UNCHANGED <<ent, free, files, cdir, refs, kept, pruned, unwritten, uncleared>>

\* Only the superuser links or unlinks a directory.
MayName(p, i) == node[i].kind = "dir" => p \in Supers

\* Mutant: Link would keep the file locked.
LinkLocked(p) == LET i == Head(refs[p]) IN \E way \in Paths[p] :
    /\ At(p, "found") /\ call[p] = "link" /\ MayName(p, i) /\ node[i].nlink < MaxLink
    /\ call' = Put(call, p, "linkto") /\ path' = Put(path, p, way)
    /\ GoOn(p, "linkto")
    /\ UNCHANGED <<node, ent, free, files, cdir, num, off, back, refs, history>>

\* The file is unlocked, lest the search for the new name deadlocks.
Link(p) == LET i == Head(refs[p]) IN \E way \in Paths[p] :
    /\ At(p, "found") /\ call[p] = "link" /\ MayName(p, i) /\ node[i].nlink < MaxLink
    /\ node' = [node EXCEPT ![i].lock = NoProc] /\ Unlocks(p, i)
    /\ call' = Put(call, p, "linkto") /\ path' = Put(path, p, way)
    /\ GoOn(p, "linkto")
    /\ UNCHANGED <<ent, free, files, cdir, num, off, back, refs, kept, pruned, unwritten,
                   uncleared>>

LinkTo(p) == \E i \in {Root, cdir[p]} :
    /\ At(p, "linkto")
    /\ StartAt(p, i, "linkto", path[p])
    /\ UNCHANGED <<ent, free, files, cdir, history>>

\* The entry is written, or not, and its directory given up.
Linked(p) == LET i == Head(refs[p]) IN
    /\ At(p, "count")
    /\ node' = [node EXCEPT ![i].nlink = @ + 1]
    /\ Leave(p)
    /\ UNCHANGED <<ent, free, files, cdir, refs, history>>

\* UnLink gets the inode while nobody has the directory locked.
UnLink(p) ==
    /\ At(p, "unlink")
    /\ Get(p, num[p], "clear?", Append(refs[p], num[p]), call[p], path[p])
    /\ UNCHANGED <<ent, free, files, cdir, history>>

UnLinkDenied(p) ==
    /\ At(p, "clear?") /\ ~MayName(p, Last(refs[p]))
    /\ Leave(p)
    /\ UNCHANGED <<node, ent, free, files, cdir, refs, history>>

\* WriteI reads the directory.
Clear(p) ==
    /\ At(p, "clear?") /\ MayName(p, Last(refs[p]))
    /\ SleepAt(p, "clear")
    /\ UNCHANGED <<node, ent, free, files, cdir, locals, refs, history>>

Unlinked(p) == LET d == Head(refs[p]) IN
    /\ At(p, "clear")
    /\ ent' = Written(d, off[p], FreeEntry)
    /\ node' = [node EXCEPT ![Last(refs[p])].nlink = @ - 1]
    /\ Leave(p)
    /\ UNCHANGED <<free, files, cdir, refs, history>>

\* The block cannot be read, or an error stands from NameI: the name is counted all the same.
UnlinkFails(p) ==
    /\ At(p, "clear")
    /\ node' = [node EXCEPT ![Last(refs[p])].nlink = @ - 1]
    /\ uncleared' = TRUE
    /\ Leave(p)
    /\ UNCHANGED <<ent, free, files, cdir, refs, kept, stolen, pruned, unwritten>>

-----------------------------------------------------------------------------

Step(p) ==
    \/ IPutShared(p) \/ IPutLast(p) \/ Truncated(p) \/ Release(p)
    \/ Call(p) \/ Arrived(p) \/ Denied(p) \/ Descend(p) \/ Enter(p) \/ NextFails(p)
    \/ NotFound(p) \/ ToCreate(p) \/ ToDelete(p) \/ Error(p)
    \/ IAlloc(p) \/ MakNodeFails(p) \/ MakNode(p) \/ WriteDir(p) \/ WriteDirFails(p)
    \/ Refused(p) \/ Empties(p) \/ Open1(p) \/ Open1Full(p) \/ Close(p)
    \/ ChDir(p) \/ Entered(p) \/ Link(p) \/ LinkTo(p) \/ Linked(p)
    \/ UnLink(p) \/ UnLinkDenied(p) \/ Clear(p) \/ Unlinked(p) \/ UnlinkFails(p)

Next == \E p \in Procs : Step(p)

Spec == Init /\ [][Next]_vars

-----------------------------------------------------------------------------
(* Properties *)

\* i_count is the number of files, working directories and calls that use the inode,
\* on every way out of NameI, Link, UnLink, ChDir and Open1, but for the directories
\* MakNode leaves behind (FileManager.cpp:756).
RefsExact == \A i \in Inos :
    node[i].count =
        files[i] + kept[i] + (IF i = Root THEN 1 ELSE 0)
        + Cardinality({p \in Procs : cdir[p] = i})
        + Cardinality(UNION {{<<p, k>> : k \in {n \in DOMAIN refs[p] : refs[p][n] = i}} :
                             p \in Procs})

UniqueNames == \A d \in Inos : \A j, k \in Live(d) :
    ent[d][j].name = ent[d][k].name => j = k

\* Calls that have set i_nlink and not yet written the entry, and the other way round.
Making(i)  == {p \in Procs : pc[p] = "writedir" /\ call[p] # "linkto" /\ refs[p][2] = i}
Linking(i) == {p \in Procs : /\ call[p] = "linkto" /\ Last(refs[p]) = i
                             /\ pc[p] = "count" \/ back[p] = "count"}
EntriesOf(i) == Cardinality(UNION {{<<d, k>> : k \in {n \in Live(d) : ent[d][n].ino = i}} :
                                   d \in Inos})
                + (IF i = Root THEN 1 ELSE 0)

LinkCounts == \A i \in Inos :
    LET names == EntriesOf(i) + Cardinality(Making(i)) - Cardinality(Linking(i)) + unwritten[i]
    IN  /\ names <= node[i].nlink
        /\ ~pruned => names = node[i].nlink
        /\ node[i].kind = "none" => EntriesOf(i) = 0

\* No directory has two entries of one name, no name leads to an inode that is free, and
\* i_nlink is the number of names and of those that were never written, but for those in
\* directories that were removed with their entries: NameI's search and WriteDir's write
\* are one step for the others (FileManager.cpp:621-643, 789), a write that fails counts a
\* name too much and nothing worse, and Link and UnLink count right although they sleep
\* with the directory, or the file, unlocked.  It holds until an IPut clears a lock that
\* was another's (DirLost.cfg shows what happens then), or an entry cannot be cleared.
NamesExact == ~stolen /\ ~uncleared => UniqueNames /\ LinkCounts

\* q has locked the inode p waits for.
WaitsFor(p, q) == pc[p] = "asleep" /\ node[num[p]].lock = q

\* Waiting never goes round in a circle: a call waits for an inode while it has another
\* locked only in MakNode, for an inode that is being released (FileManager.cpp:972).
NoCircularWait == NoneKept => \A Q \in SUBSET Procs :
    Q # {} => \E p \in Q : \A q \in Q : ~WaitsFor(p, q)

=============================================================================
