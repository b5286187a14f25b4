--------------------------- MODULE DirectoriesProofs ---------------------------
(*****************************************************************************)
(* The references of the calls to inodes, for any number of processes,       *)
(* inodes, names and paths: i_count is exact on every way through the calls, *)
(* whatever locks are cleared and whatever is left behind.  And who waits    *)
(* for whom: calls sleep for each other's inodes, but never in a circle,     *)
(* until MakNode leaves a directory locked.  And the names: i_nlink is their *)
(* number, and none is there twice, until an IPut clears another's lock.     *)
(*****************************************************************************)
EXTENDS Directories, FiniteSetTheorems, SequenceTheorems, WellFoundedInduction, TLAPS

Entry == [name : Names \cup {NoIno}, ino : Inos \cup {NoIno}]

Labels == {"user", "asleep", "iput", "trunc", "release", "search", "error", "next", "found",
           "ialloc", "made", "writedir", "open1", "count", "entered", "linkto", "unlink",
           "clear?", "clear"}
NameCalls == {"open", "chdir", "link", "creat", "mknod", "linkto", "unlink"}

Node == [kind : {"none", "file", "dir"}, nlink : Int, count : Int,
         lock : Procs \cup {NoProc}]

NodeType == node \in [Inos -> Node]
TreeType == ent \in [Inos -> Seq(Entry)] /\ free \subseteq Inos
UserType == /\ files \in [Inos -> Nat] /\ kept \in [Inos -> Nat] /\ cdir \in [Procs -> Inos]
            /\ refs \in [Procs -> Seq(Inos)]
PlaceType == /\ cpu \in Procs \cup {NoProc} /\ pc \in [Procs -> Labels]
             /\ call \in [Procs -> NameCalls \cup {"none"}]
             /\ back \in [Procs -> {"out", "next", "open1", "count", "entered"}]
LocalType == path \in [Procs -> Seq(Names)] /\ num \in [Procs -> Inos \cup {NoIno}]

\* A link that has its file holds one reference more.
Extra(p) == IF call[p] = "linkto" THEN 1 ELSE 0

Giving(p) == pc[p] \in {"iput", "trunc", "release"}

\* How many references a call has at each place, and where it goes on after IPut.
HasRefs(p) ==
    /\ Len(refs[p]) <= 2
    /\ pc[p] = "user" => refs[p] = << >>
    /\ Giving(p) => /\ Len(refs[p]) >= 1
                    /\ back[p] = "next" => Len(refs[p]) = 1 + Extra(p)
                    /\ back[p] \in {"open1", "count"} => Len(refs[p]) = 2
                    /\ back[p] = "entered" => Len(refs[p]) = 1
    /\ pc[p] \in {"search", "error", "found"} => Len(refs[p]) = 1 + Extra(p)
    /\ pc[p] = "next" => Len(refs[p]) = Extra(p)
    /\ pc[p] \in {"ialloc", "open1", "count", "linkto", "unlink"} => Len(refs[p]) = 1
    /\ pc[p] \in {"made", "writedir", "clear?", "clear"} => Len(refs[p]) = 2
    /\ pc[p] = "entered" => Len(refs[p]) = 0

\* What a call knows at each place.
Knows(p) ==
    /\ ~Giving(p) /\ pc[p] # "asleep" => back[p] = "out"
    /\ pc[p] = "next" \/ (Giving(p) /\ back[p] = "next") \/ pc[p] = "unlink" => num[p] \in Inos
    /\ pc[p] \in {"search", "next", "unlink"} \/ (Giving(p) /\ back[p] = "next") =>
          call[p] \in NameCalls
    /\ pc[p] = "unlink" => call[p] = "unlink"
    /\ pc[p] \in {"ialloc", "made"} => call[p] \in {"creat", "mknod"}
    /\ pc[p] = "writedir" => call[p] \in {"creat", "mknod", "linkto"}
    /\ pc[p] = "linkto" => call[p] = "linkto"
    /\ pc[p] \in {"ialloc", "made", "writedir"} => path[p] # << >>

DirInv ==
    /\ NodeType /\ TreeType /\ UserType /\ PlaceType /\ LocalType
    /\ \A p \in Procs : HasRefs(p) /\ Knows(p)
    /\ RefsExact

-----------------------------------------------------------------------------
\* Counting references

Short == {s \in Seq(Inos) : Len(s) <= 2}

\* The references to i among those of all calls, and among the first two of s.
Uses(f, i) == UNION {{<<p, k>> : k \in {n \in DOMAIN f[p] : f[p][n] = i}} : p \in Procs}
Of(s, i) == (IF Len(s) >= 1 /\ s[1] = i THEN 1 ELSE 0)
            + (IF Len(s) >= 2 /\ s[2] = i THEN 1 ELSE 0)

LEMMA ShortIs ==
    ASSUME NEW s \in Short
    PROVE  /\ s \in Seq(Inos) /\ Len(s) \in 0..2 /\ DOMAIN s = 1..Len(s)
           /\ \A k \in DOMAIN s : k \in {1, 2} /\ s[k] \in Inos
<1>1. s \in Seq(Inos) /\ Len(s) \in Nat /\ Len(s) <= 2 /\ DOMAIN s = 1..Len(s)
  BY LenProperties DEF Short
<1>2. \A k \in 1..Len(s) : s[k] \in Inos
  BY <1>1, ElementOfSeq
<1> QED BY <1>1, <1>2

LEMMA UsesAre ==
    ASSUME NEW f \in [Procs -> Short], NEW i
    PROVE  /\ Uses(f, i) = {u \in Procs \X {1, 2} : u[2] <= Len(f[u[1]]) /\ f[u[1]][u[2]] = i}
           /\ IsFiniteSet(Uses(f, i))
<1>1. \A p \in Procs : DOMAIN f[p] = 1..Len(f[p]) /\ Len(f[p]) \in 0..2
  BY ShortIs
<1>2. \A p \in Procs : \A n : n \in DOMAIN f[p] <=> n \in {1, 2} /\ n <= Len(f[p])
  BY <1>1
<1>3. Uses(f, i) = {u \in Procs \X {1, 2} : u[2] <= Len(f[u[1]]) /\ f[u[1]][u[2]] = i}
  BY <1>2 DEF Uses
<1>4. IsFiniteSet({1, 2})
  <2>1. IsFiniteSet({1} \cup {2})
    BY FS_Singleton, FS_AddElement
  <2>2. {1, 2} = {1} \cup {2}
    OBVIOUS
  <2> QED BY <2>1, <2>2
<1>5. IsFiniteSet(Procs \X {1, 2})
  BY <1>4, FS_Product, DirectoriesAssumption
<1>6. Uses(f, i) \in SUBSET (Procs \X {1, 2})
  BY <1>3
<1> QED BY <1>3, <1>5, <1>6, FS_Subset

\* The references of p, and those of the others.
LEMMA UsesSplit ==
    ASSUME NEW f \in [Procs -> Short], NEW p \in Procs, NEW i
    PROVE  LET rest == {u \in Uses(f, i) : u[1] # p}
           IN  /\ Cardinality(rest) \in Nat
               /\ Cardinality(Uses(f, i)) = Cardinality(rest) + Of(f[p], i)
<1>1. PICK rest : rest = {u \in Uses(f, i) : u[1] # p}
  OBVIOUS
<1>2. IsFiniteSet(rest) /\ Cardinality(rest) \in Nat
  BY <1>1, UsesAre, FS_Subset, FS_CardinalityType
<1>3. PICK one, two \in BOOLEAN : /\ one <=> Len(f[p]) >= 1 /\ f[p][1] = i
                                  /\ two <=> Len(f[p]) >= 2 /\ f[p][2] = i
  OBVIOUS
<1>4. Of(f[p], i) = (IF one THEN 1 ELSE 0) + (IF two THEN 1 ELSE 0)
  BY <1>3 DEF Of
<1>5. PICK first : first = IF one THEN rest \cup {<<p, 1>>} ELSE rest
  OBVIOUS
<1>6. IsFiniteSet(first) /\ Cardinality(first) = Cardinality(rest) + (IF one THEN 1 ELSE 0)
  <2>1. <<p, 1>> \notin rest
    BY <1>1
  <2>2. /\ IsFiniteSet(rest \cup {<<p, 1>>})
        /\ Cardinality(rest \cup {<<p, 1>>}) = Cardinality(rest) + 1
    BY <1>2, <2>1, FS_AddElement
  <2> QED BY <1>2, <1>5, <2>2
<1>7. Uses(f, i) = IF two THEN first \cup {<<p, 2>>} ELSE first
  <2>1. Len(f[p]) \in 0..2
    BY ShortIs
  <2>2. \A u : u \in Uses(f, i) <=>
           u \in rest \/ (one /\ u = <<p, 1>>) \/ (two /\ u = <<p, 2>>)
    BY <1>1, <1>3, <2>1, UsesAre
  <2> QED BY <1>5, <2>2
<1>8. <<p, 2>> \notin first
  BY <1>1, <1>5
<1>9. Cardinality(Uses(f, i)) = Cardinality(first) + (IF two THEN 1 ELSE 0)
  <2>1. /\ Cardinality(first \cup {<<p, 2>>}) = Cardinality(first) + 1
        /\ Cardinality(first) \in Nat
    BY <1>6, <1>8, FS_AddElement, FS_CardinalityType
  <2> QED BY <1>7, <2>1
<1> QED BY <1>1, <1>2, <1>4, <1>6, <1>9

\* What s instead of f[p] makes of the number of references.
Counted(f, g, p, s, i) ==
    /\ Cardinality(Uses(f, i)) \in Nat
    /\ Cardinality(Uses(g, i)) = Cardinality(Uses(f, i)) - Of(f[p], i) + Of(s, i)

LEMMA UsesChange ==
    ASSUME NEW f \in [Procs -> Short], NEW p \in Procs, NEW s \in Short, NEW i,
           NEW g, g = [f EXCEPT ![p] = s]
    PROVE  Counted(f, g, p, s, i)
<1>1. g \in [Procs -> Short] /\ g[p] = s /\ \A q \in Procs \ {p} : g[q] = f[q]
  OBVIOUS
<1>2. {u \in Uses(g, i) : u[1] # p} = {u \in Uses(f, i) : u[1] # p}
  <2>1. Uses(f, i) = {u \in Procs \X {1, 2} : u[2] <= Len(f[u[1]]) /\ f[u[1]][u[2]] = i}
    BY UsesAre
  <2>2. Uses(g, i) = {u \in Procs \X {1, 2} : u[2] <= Len(g[u[1]]) /\ g[u[1]][u[2]] = i}
    <3>1. g \in [Procs -> Short]
      BY <1>1
    <3> QED BY <3>1, UsesAre, ZenonT(40)
  <2>3. \A u \in Procs \X {1, 2} : u[1] # p => g[u[1]] = f[u[1]]
    BY <1>1
  <2> QED BY <2>1, <2>2, <2>3
<1>3. PICK n \in Nat : /\ n = Cardinality({u \in Uses(f, i) : u[1] # p})
                       /\ Cardinality(Uses(f, i)) = n + Of(f[p], i)
                       /\ Cardinality(Uses(g, i)) = n + Of(s, i)
  <2>1. /\ Cardinality({u \in Uses(f, i) : u[1] # p}) \in Nat
        /\ Cardinality(Uses(f, i)) = Cardinality({u \in Uses(f, i) : u[1] # p}) + Of(f[p], i)
    BY UsesSplit
  <2>2. Cardinality(Uses(g, i)) = Cardinality({u \in Uses(g, i) : u[1] # p}) + Of(g[p], i)
    BY <1>1, UsesSplit
  <2> QED BY <1>1, <1>2, <2>1, <2>2
<1>4. Of(f[p], i) \in 0..2 /\ Of(s, i) \in 0..2
  BY DEF Of
<1> QED BY <1>1, <1>3, <1>4 DEF Counted

-----------------------------------------------------------------------------
\* Steps of one process

\* Nothing changes for a process but p.
Moves(p) == \A q \in Procs \ {p} :
    /\ pc'[q] = pc[q] /\ call'[q] = call[q] /\ path'[q] = path[q] /\ num'[q] = num[q]
    /\ back'[q] = back[q] /\ refs'[q] = refs[q]

LEMMA Types ==
    ASSUME DirInv
    PROVE  NodeType /\ TreeType /\ UserType /\ PlaceType /\ LocalType
  BY DEF DirInv

\* What a process has and knows is a matter of its own locals.
LEMMA OthersKeep ==
    ASSUME DirInv, NEW p \in Procs, Moves(p)
    PROVE  \A q \in Procs \ {p} : HasRefs(q)' /\ Knows(q)'
<1> TAKE q \in Procs \ {p}
<1>1. HasRefs(q) /\ Knows(q)
  BY DEF DirInv
<1>2. /\ pc'[q] = pc[q] /\ call'[q] = call[q] /\ path'[q] = path[q] /\ num'[q] = num[q]
      /\ back'[q] = back[q] /\ refs'[q] = refs[q]
  BY DEF Moves
<1> QED BY <1>1, <1>2 DEF HasRefs, Knows, Giving, Extra

\* Working directories.
Dirs(i) == {p \in Procs : cdir[p] = i}
One(b)  == IF b THEN 1 ELSE 0

LEMMA RefsExactIs ==
    RefsExact <=> \A i \in Inos :
        node[i].count = files[i] + kept[i] + One(i = Root) + Cardinality(Dirs(i))
                        + Cardinality(Uses(refs, i))
  BY DEF RefsExact, One, Dirs, Uses

LEMMA RefsExactNext ==
    RefsExact' <=> \A i \in Inos :
        node'[i].count = files'[i] + kept'[i] + One(i = Root) + Cardinality(Dirs(i)')
                         + Cardinality(Uses(refs', i))
  BY DEF RefsExact, One, Dirs, Uses

LEMMA DirsFinite == \A i : IsFiniteSet(Dirs(i)) /\ Cardinality(Dirs(i)) \in Nat
<1> TAKE i
<1>1. Dirs(i) \in SUBSET Procs /\ IsFiniteSet(Procs)
  BY DirectoriesAssumption DEF Dirs
<1> QED BY <1>1, FS_Subset, FS_CardinalityType

LEMMA RefsShort == DirInv => refs \in [Procs -> Short]
  BY DEF DirInv, UserType, HasRefs, Short

LEMMA UsesNext ==
    ASSUME DirInv, NEW p \in Procs, NEW s \in Short, refs' = [refs EXCEPT ![p] = s], NEW i
    PROVE  Counted(refs, refs', p, s, i)
<1>1. refs \in [Procs -> Short]
  BY RefsShort
<1>2. PICK g : g = [refs EXCEPT ![p] = s]
  OBVIOUS
<1>3. Counted(refs, g, p, s, i)
  BY <1>1, <1>2, UsesChange
<1> QED BY <1>2, <1>3

\* A step of p that gives it other references, and changes files and directories left
\* behind: every i_count changes as much.
Booked(p, s) ==
    \A i \in Inos : node'[i].count = node[i].count - Of(refs[p], i) + Of(s, i)
                                     + (files'[i] - files[i]) + (kept'[i] - kept[i])

LEMMA Balanced ==
    ASSUME DirInv, NEW p \in Procs, NEW s \in Short, refs' = [refs EXCEPT ![p] = s],
           UNCHANGED cdir, files' \in [Inos -> Nat], kept' \in [Inos -> Nat], Booked(p, s)
    PROVE  RefsExact'
<1> SUFFICES ASSUME NEW i \in Inos
             PROVE  node'[i].count = files'[i] + kept'[i] + One(i = Root)
                        + Cardinality(Dirs(i)') + Cardinality(Uses(refs', i))
  BY RefsExactNext
<1>1. Dirs(i)' = Dirs(i) /\ Cardinality(Dirs(i)) \in Nat
  BY DirsFinite DEF Dirs
<1>2. /\ Cardinality(Uses(refs, i)) \in Nat
      /\ Cardinality(Uses(refs', i)) = Cardinality(Uses(refs, i)) - Of(refs[p], i) + Of(s, i)
  BY UsesNext DEF Counted
<1>3. node[i].count = files[i] + kept[i] + One(i = Root) + Cardinality(Dirs(i))
                      + Cardinality(Uses(refs, i))
  BY RefsExactIs DEF DirInv
<1>4. /\ files[i] \in Nat /\ kept[i] \in Nat /\ files'[i] \in Nat /\ kept'[i] \in Nat
      /\ One(i = Root) \in Nat
  BY Types DEF UserType, One
<1>5. Of(refs[p], i) \in Nat /\ Of(s, i) \in Nat
  BY DEF Of
<1>6. node'[i].count = node[i].count - Of(refs[p], i) + Of(s, i)
                       + (files'[i] - files[i]) + (kept'[i] - kept[i])
  BY DEF Booked
<1> QED BY <1>1, <1>2, <1>3, <1>4, <1>5, <1>6

\* What is left to show for a step of p.
LEMMA Kept ==
    ASSUME DirInv, NEW p \in Procs, Moves(p), HasRefs(p)', Knows(p)',
           NodeType', TreeType', UserType', PlaceType', LocalType', RefsExact'
    PROVE  DirInv'
  BY OthersKeep DEF DirInv

\* The references stay as they are.
LEMMA Steady ==
    ASSUME DirInv, NEW p \in Procs, Moves(p), HasRefs(p)', Knows(p)',
           NodeType', TreeType', PlaceType', LocalType',
           UNCHANGED <<files, kept, cdir, refs>>,
           \A i \in Inos : node'[i].count = node[i].count
    PROVE  DirInv'
<1>1. UserType'
  BY Types DEF UserType
<1>2. \A i : Dirs(i)' = Dirs(i)
  BY DEF Dirs
<1>3. RefsExact'
  BY <1>2, RefsExactIs, RefsExactNext DEF DirInv
<1> QED BY <1>1, <1>3, Kept

\* The references of a call, by how many it has.
LEMMA RefsAre ==
    ASSUME DirInv, NEW p \in Procs
    PROVE  /\ refs[p] \in Seq(Inos) /\ Len(refs[p]) \in 0..2
           /\ Len(refs[p]) = 0 <=> refs[p] = << >>
           /\ Len(refs[p]) >= 1 => Head(refs[p]) = refs[p][1] /\ Head(refs[p]) \in Inos
           /\ Len(refs[p]) = 2 => refs[p][2] \in Inos /\ Last(refs[p]) = refs[p][2]
<1>1. refs[p] \in Seq(Inos) /\ refs[p] \in Short
  BY RefsShort DEF DirInv, UserType
<1>2. Len(refs[p]) \in 0..2 /\ \A k \in 1..Len(refs[p]) : refs[p][k] \in Inos
  BY <1>1, ShortIs
<1>3. Len(refs[p]) = 0 <=> refs[p] = << >>
  BY <1>1, EmptySeq
<1>4. Len(refs[p]) >= 1 => Head(refs[p]) = refs[p][1]
  <2>1. PICK s \in Seq(Inos) : s = refs[p]
    BY <1>1
  <2>2. s # << >> => Head(s) = s[1]
    OBVIOUS
  <2> QED BY <1>2, <1>3, <2>1, <2>2
<1> QED BY <1>1, <1>2, <1>3, <1>4 DEF Last

\* The steps that end a call, but for what it must give back.
LEMMA LeavesKeep ==
    ASSUME DirInv, NEW p \in Procs,
           \/ Denied(p) \/ NotFound(p) \/ Error(p) \/ Refused(p) \/ Open1Full(p)
           \/ Linked(p) \/ UnLinkDenied(p)
    PROVE  DirInv'
<1> USE DEF At, GoOn, Put, Leave, Forget, history
<1>1. NodeType /\ TreeType /\ UserType /\ PlaceType /\ LocalType /\ HasRefs(p) /\ Knows(p)
  BY DEF DirInv
<1>2. << >> \in Seq(Names)
  BY EmptySeq
<1>3. CASE Denied(p)
  <2>1. /\ pc'[p] = "iput" /\ back'[p] = "out" /\ Moves(p) /\ Len(refs[p]) >= 1
        /\ UNCHANGED <<files, kept, cdir, refs>>
    BY <1>1, <1>3, RefsAre DEF PlaceType, LocalType, Moves, HasRefs, Extra, Denied
  <2>2. PlaceType' /\ LocalType'
    BY <1>1, <1>2, <1>3 DEF PlaceType, LocalType, Labels, Denied
  <2>3. NodeType' /\ TreeType' /\ \A i \in Inos : node'[i].count = node[i].count
    BY <1>1, <1>3 DEF NodeType, Node, TreeType, Denied
  <2>4. HasRefs(p)' /\ Knows(p)'
    BY <1>1, <2>1 DEF HasRefs, Knows, Giving
  <2> QED BY <2>1, <2>2, <2>3, <2>4, Steady
<1>4. CASE NotFound(p)
  <2>1. /\ pc'[p] = "iput" /\ back'[p] = "out" /\ Moves(p) /\ Len(refs[p]) >= 1
        /\ UNCHANGED <<files, kept, cdir, refs>>
    BY <1>1, <1>4, RefsAre DEF PlaceType, LocalType, Moves, HasRefs, Extra, NotFound, Looks
  <2>2. PlaceType' /\ LocalType'
    BY <1>1, <1>2, <1>4 DEF PlaceType, LocalType, Labels, NotFound, Looks
  <2>3. NodeType' /\ TreeType' /\ \A i \in Inos : node'[i].count = node[i].count
    BY <1>1, <1>4 DEF NodeType, Node, TreeType, NotFound, Looks
  <2>4. HasRefs(p)' /\ Knows(p)'
    BY <1>1, <2>1 DEF HasRefs, Knows, Giving
  <2> QED BY <2>1, <2>2, <2>3, <2>4, Steady
<1>5. CASE Error(p)
  <2>1. /\ pc'[p] = "iput" /\ back'[p] = "out" /\ Moves(p) /\ Len(refs[p]) >= 1
        /\ UNCHANGED <<files, kept, cdir, refs>>
    BY <1>1, <1>5, RefsAre DEF PlaceType, LocalType, Moves, HasRefs, Extra, Error
  <2>2. PlaceType' /\ LocalType'
    BY <1>1, <1>2, <1>5 DEF PlaceType, LocalType, Labels, Error
  <2>3. NodeType' /\ TreeType' /\ \A i \in Inos : node'[i].count = node[i].count
    BY <1>1, <1>5 DEF NodeType, Node, TreeType, Error
  <2>4. HasRefs(p)' /\ Knows(p)'
    BY <1>1, <2>1 DEF HasRefs, Knows, Giving
  <2> QED BY <2>1, <2>2, <2>3, <2>4, Steady
<1>6. CASE Refused(p)
  <2>1. /\ pc'[p] = "iput" /\ back'[p] = "out" /\ Moves(p) /\ Len(refs[p]) >= 1
        /\ UNCHANGED <<files, kept, cdir, refs>>
    BY <1>1, <1>6, RefsAre DEF PlaceType, LocalType, Moves, HasRefs, Extra, Refused
  <2>2. PlaceType' /\ LocalType'
    BY <1>1, <1>2, <1>6 DEF PlaceType, LocalType, Labels, Refused
  <2>3. NodeType' /\ TreeType' /\ \A i \in Inos : node'[i].count = node[i].count
    BY <1>1, <1>6 DEF NodeType, Node, TreeType, Refused
  <2>4. HasRefs(p)' /\ Knows(p)'
    BY <1>1, <2>1 DEF HasRefs, Knows, Giving
  <2> QED BY <2>1, <2>2, <2>3, <2>4, Steady
<1>7. CASE Open1Full(p)
  <2>1. /\ pc'[p] = "iput" /\ back'[p] = "out" /\ Moves(p) /\ Len(refs[p]) >= 1
        /\ UNCHANGED <<files, kept, cdir, refs>>
    BY <1>1, <1>7, RefsAre DEF PlaceType, LocalType, Moves, HasRefs, Extra, Open1Full, Opens
  <2>2. PlaceType' /\ LocalType'
    BY <1>1, <1>2, <1>7 DEF PlaceType, LocalType, Labels, Open1Full, Opens
  <2>3. NodeType' /\ TreeType' /\ \A i \in Inos : node'[i].count = node[i].count
    BY <1>1, <1>7 DEF NodeType, Node, TreeType, Open1Full, Opens
  <2>4. HasRefs(p)' /\ Knows(p)'
    BY <1>1, <2>1 DEF HasRefs, Knows, Giving
  <2> QED BY <2>1, <2>2, <2>3, <2>4, Steady
<1>8. CASE Linked(p)
  <2>1. /\ pc'[p] = "iput" /\ back'[p] = "out" /\ Moves(p) /\ Len(refs[p]) >= 1
        /\ UNCHANGED <<files, kept, cdir, refs>>
    BY <1>1, <1>8, RefsAre DEF PlaceType, LocalType, Moves, HasRefs, Extra, Linked
  <2>2. PlaceType' /\ LocalType'
    BY <1>1, <1>2, <1>8 DEF PlaceType, LocalType, Labels, Linked
  <2>3. NodeType' /\ TreeType' /\ \A i \in Inos : node'[i].count = node[i].count
    <3>1. PICK i : i = Head(refs[p])
      OBVIOUS
    <3>2. i \in Inos /\ node[i].nlink \in Int
      BY <1>1, <2>1, <3>1, RefsAre DEF NodeType, Node
    <3>3. PICK n \in Int : n = node[i].nlink + 1
      BY <3>2
    <3>4. node' = [node EXCEPT ![i].nlink = n] /\ UNCHANGED <<ent, free>>
      BY <1>8, <3>1, <3>3 DEF Linked
    <3> QED BY <1>1, <3>4 DEF NodeType, Node, TreeType
  <2>4. HasRefs(p)' /\ Knows(p)'
    BY <1>1, <2>1 DEF HasRefs, Knows, Giving
  <2> QED BY <2>1, <2>2, <2>3, <2>4, Steady
<1>9. CASE UnLinkDenied(p)
  <2>1. /\ pc'[p] = "iput" /\ back'[p] = "out" /\ Moves(p) /\ Len(refs[p]) >= 1
        /\ UNCHANGED <<files, kept, cdir, refs>>
    BY <1>1, <1>9, RefsAre DEF PlaceType, LocalType, Moves, HasRefs, Extra, UnLinkDenied
  <2>2. PlaceType' /\ LocalType'
    BY <1>1, <1>2, <1>9 DEF PlaceType, LocalType, Labels, UnLinkDenied
  <2>3. NodeType' /\ TreeType' /\ \A i \in Inos : node'[i].count = node[i].count
    BY <1>1, <1>9 DEF NodeType, Node, TreeType, UnLinkDenied
  <2>4. HasRefs(p)' /\ Knows(p)'
    BY <1>1, <2>1 DEF HasRefs, Knows, Giving
  <2> QED BY <2>1, <2>2, <2>3, <2>4, Steady
<1> QED BY <1>3, <1>4, <1>5, <1>6, <1>7, <1>8, <1>9

\* An entry NameI finds leads to an inode.
LEMMA FoundIs ==
    ASSUME DirInv, NEW p \in Procs, Looks(p), NEW k \in Found(p)
    PROVE  ent[Head(refs[p])][k].ino \in Inos
<1>1. PICK d : d = Head(refs[p])
  OBVIOUS
<1>2. d \in Inos
  BY <1>1, RefsAre DEF DirInv, Looks, At, HasRefs, Extra
<1>3. k \in DOMAIN ent[d] /\ ent[d][k].ino # NoIno
  BY <1>1 DEF Found, Matches, Live
<1>4. ent[d] \in Seq(Entry)
  BY <1>2, Types DEF TreeType
<1>5. ent[d][k] \in Entry
  BY <1>3, <1>4, LenProperties, ElementOfSeq
<1> QED BY <1>1, <1>3, <1>5 DEF Entry

LEMMA WrittenIs ==
    ASSUME TreeType, NEW d, NEW k, NEW e \in Entry
    PROVE  Written(d, k, e) \in [Inos -> Seq(Entry)]
<1>1. CASE d \in Inos
  <2>1. PICK s \in Seq(Entry) : s = ent[d]
    BY <1>1 DEF TreeType
  <2>2. [s EXCEPT ![k] = e] \in Seq(Entry)
    <3>1. DOMAIN s = 1..Len(s) /\ Len(s) \in Nat /\ \A j \in 1..Len(s) : s[j] \in Entry
      BY LenProperties, ElementOfSeq
    <3>2. [s EXCEPT ![k] = e] \in [1..Len(s) -> Entry]
      BY <3>1
    <3> QED BY <3>1, <3>2
  <2>3. Append(s, e) \in Seq(Entry)
    OBVIOUS
  <2>4. Written(d, k, e) = [ent EXCEPT ![d] = IF k \in DOMAIN s THEN [s EXCEPT ![k] = e]
                                                                 ELSE Append(s, e)]
    BY <2>1 DEF Written
  <2> QED BY <2>2, <2>3, <2>4 DEF TreeType
<1>2. CASE d \notin Inos
  <2>1. Written(d, k, e) = ent
    BY <1>2 DEF Written, TreeType
  <2> QED BY <2>1 DEF TreeType
<1> QED BY <1>1, <1>2

\* Steps that set the lock of an inode, and MakNode's that fills one in.
LEMMA LockStep ==
    ASSUME NodeType, NEW i, NEW l \in Procs \cup {NoProc},
           node' = [node EXCEPT ![i].lock = l]
    PROVE  NodeType' /\ \A j \in Inos : node'[j].count = node[j].count
  BY DEF NodeType, Node

LEMMA FilledStep ==
    ASSUME NodeType, NEW i, NEW k \in {"file", "dir"},
           node' = [node EXCEPT ![i].kind = k, ![i].nlink = 1]
    PROVE  NodeType' /\ \A j \in Inos : node'[j].count = node[j].count
<1>1. PICK m \in [Inos -> Node] : /\ m = [node EXCEPT ![i].kind = k]
                                  /\ \A j \in Inos : m[j].count = node[j].count
  BY DEF NodeType, Node
<1>2. node' = [m EXCEPT ![i].nlink = 1]
  BY <1>1
<1>3. CASE i \in Inos
  <2>1. PICK r \in Node : r = m[i]
    BY <1>1, <1>3
  <2>2. PICK s : s = [r EXCEPT !.nlink = 1]
    OBVIOUS
  <2>3. s \in Node /\ s.count = r.count
    BY <2>1, <2>2 DEF Node
  <2>4. node' = [m EXCEPT ![i] = s]
    BY <1>2, <2>1, <2>2
  <2> QED BY <1>1, <2>1, <2>3, <2>4 DEF NodeType
<1>4. CASE i \notin Inos
  BY <1>1, <1>2, <1>4 DEF NodeType
<1> QED BY <1>3, <1>4

\* One reference more or less, and the lock set or cleared.
LEMMA CountStep ==
    ASSUME NodeType, NEW i \in Inos, NEW c \in Int, NEW l \in Procs \cup {NoProc},
           node' = [node EXCEPT ![i].count = c, ![i].lock = l]
    PROVE  /\ NodeType' /\ node'[i].count = c
           /\ \A j \in Inos \ {i} : node'[j].count = node[j].count
<1>1. PICK m \in [Inos -> Node] : /\ m = [node EXCEPT ![i].count = c] /\ m[i].count = c
                                  /\ \A j \in Inos \ {i} : m[j].count = node[j].count
  BY DEF NodeType, Node
<1>2. node' = [m EXCEPT ![i].lock = l]
  BY <1>1
<1>3. PICK r \in Node : r = m[i]
  BY <1>1
<1>4. PICK s : s = [r EXCEPT !.lock = l]
  OBVIOUS
<1>5. s \in Node /\ s.count = r.count
  BY <1>3, <1>4 DEF Node
<1>6. node' = [m EXCEPT ![i] = s]
  BY <1>2, <1>3, <1>4
<1>7. node' \in [Inos -> Node] /\ node'[i] = s /\ \A j \in Inos \ {i} : node'[j] = m[j]
  BY <1>1, <1>5, <1>6
<1>8. node'[i].count = c
  BY <1>1, <1>3, <1>5, <1>7
<1> QED BY <1>1, <1>7, <1>8 DEF NodeType

LEMMA SameNodes ==
    ASSUME NodeType, TreeType, UNCHANGED <<node, ent, free>>
    PROVE  NodeType' /\ TreeType' /\ \A j \in Inos : node'[j].count = node[j].count
  BY DEF NodeType, Node, TreeType

\* The steps of NameI that get no reference and give none back.
LEMMA SearchesKeep ==
    ASSUME DirInv, NEW p \in Procs,
           Arrived(p) \/ Descend(p) \/ NextFails(p) \/ ToCreate(p) \/ ToDelete(p)
    PROVE  DirInv'
<1> USE DEF At, GoOn, SleepAt, UserMode, Put, Leave, Forget, history, locals
<1>1. NodeType /\ TreeType /\ UserType /\ PlaceType /\ LocalType /\ HasRefs(p) /\ Knows(p)
  BY DEF DirInv
<1>2. << >> \in Seq(Names)
  BY EmptySeq
<1>3. CASE Arrived(p)
  <2>1. /\ Moves(p) /\ UNCHANGED <<files, kept, cdir, refs>>
        /\ pc[p] = "search" /\ pc'[p] = "found" /\ UNCHANGED <<call, path, num, back>>
    BY <1>1, <1>3
    DEF PlaceType, LocalType, Moves, HasRefs, Knows, Extra, Giving, Arrived
  <2>2. PlaceType' /\ LocalType'
    BY <1>1, <1>2, <1>3, <2>1 DEF PlaceType, LocalType, Labels, Arrived
  <2>3. NodeType' /\ TreeType' /\ \A i \in Inos : node'[i].count = node[i].count
    BY <1>1, <1>3, <2>1 DEF NodeType, Node, TreeType, Arrived
  <2>4. HasRefs(p)' /\ Knows(p)'
    BY <1>1, <2>1 DEF HasRefs, Knows, Giving, Extra
  <2> QED BY <2>1, <2>2, <2>3, <2>4, Steady
<1>4. CASE Descend(p)
  <2>1. PICK i \in Inos : num' = [num EXCEPT ![p] = i]
    <3>1. PICK k \in Found(p) : num' = [num EXCEPT ![p] = ent[Head(refs[p])][k].ino]
      BY <1>4 DEF Descend
    <3>2. ent[Head(refs[p])][k].ino \in Inos
      BY <1>4, FoundIs DEF Descend
    <3> QED BY <3>1, <3>2
  <2>2. path[p] \in Seq(Names) /\ path[p] # << >> /\ Tail(path[p]) \in Seq(Names)
    BY <1>1, <1>4 DEF LocalType, Descend, Looks
  <2>3. /\ Moves(p) /\ UNCHANGED <<files, kept, cdir, refs, call>>
        /\ pc[p] = "search" /\ pc'[p] = "iput" /\ back'[p] = "next" /\ num'[p] = i
    BY <1>1, <1>4, <2>1 DEF PlaceType, LocalType, Moves, Descend, Looks
  <2>4. PlaceType' /\ LocalType'
    BY <1>1, <1>4, <2>1, <2>2 DEF PlaceType, LocalType, Labels, Descend
  <2>5. NodeType' /\ TreeType' /\ \A j \in Inos : node'[j].count = node[j].count
    BY <1>1, <1>4 DEF NodeType, Node, TreeType, Descend
  <2>6. HasRefs(p)' /\ Knows(p)'
    BY <1>1, <2>3 DEF HasRefs, Knows, Giving, Extra
  <2> QED BY <2>3, <2>4, <2>5, <2>6, Steady
<1>5. CASE NextFails(p)
  <2>1. PICK l \in {"user", "iput"} : /\ pc' = [pc EXCEPT ![p] = l]
                                      /\ l = "user" => refs[p] = << >>
                                      /\ l = "iput" => Len(refs[p]) >= 1
    BY <1>5, RefsAre DEF NextFails
  <2>2. /\ UNCHANGED <<files, kept, cdir, refs>> /\ cpu' \in {p, NoProc}
        /\ call' = [call EXCEPT ![p] = "none"] /\ path' = [path EXCEPT ![p] = << >>]
        /\ num' = [num EXCEPT ![p] = NoIno] /\ back' = [back EXCEPT ![p] = "out"]
    BY <1>5 DEF NextFails
  <2>3. Moves(p) /\ pc'[p] = l /\ back'[p] = "out"
    BY <1>1, <2>1, <2>2 DEF PlaceType, LocalType, Moves
  <2>4. PlaceType' /\ LocalType'
    BY <1>1, <1>2, <2>1, <2>2 DEF PlaceType, LocalType, Labels
  <2>5. NodeType' /\ TreeType' /\ \A j \in Inos : node'[j].count = node[j].count
    BY <1>1, <1>5 DEF NodeType, Node, TreeType, NextFails
  <2>6. HasRefs(p)' /\ Knows(p)'
    BY <1>1, <2>1, <2>2, <2>3 DEF HasRefs, Knows, Giving, Extra
  <2> QED BY <2>2, <2>3, <2>4, <2>5, <2>6, Steady
<1>6. CASE ToCreate(p)
  <2>1. call[p] \in {"creat", "mknod", "linkto"} /\ path[p] # << >>
    <3>1. call[p] \in NameCalls /\ Modes[call[p]] = "CREATE"
      BY <1>1, <1>6 DEF ToCreate, Looks, Mode, Knows
    <3> QED BY <3>1, <1>6 DEF Modes, NameCalls, ToCreate, Looks
  <2>2. PICK l : /\ l = IF call[p] = "linkto" THEN "writedir" ELSE "ialloc"
                 /\ pc' = [pc EXCEPT ![p] = l]
    BY <1>6 DEF ToCreate
  <2>3. /\ Moves(p) /\ UNCHANGED <<files, kept, cdir, refs, call, path, num, back>>
        /\ pc[p] = "search" /\ pc'[p] = l
    BY <1>1, <1>6, <2>2 DEF PlaceType, Moves, ToCreate, Looks
  <2>4. PlaceType' /\ LocalType'
    BY <1>1, <1>6, <2>2 DEF PlaceType, LocalType, Labels, ToCreate
  <2>5. NodeType' /\ TreeType' /\ \A j \in Inos : node'[j].count = node[j].count
    <3>1. UNCHANGED <<node, ent, free>>
      BY <1>6 DEF ToCreate
    <3> QED BY <1>1, <3>1, SameNodes
  <2>6. HasRefs(p)' /\ Knows(p)'
    <3>1. \/ l = "writedir" /\ call[p] = "linkto" /\ Len(refs[p]) = 2
          \/ l = "ialloc" /\ call[p] \in {"creat", "mknod"} /\ Len(refs[p]) = 1
      <4>1. Len(refs[p]) = 1 + Extra(p)
        BY <1>1, <2>3 DEF HasRefs
      <4> QED BY <2>1, <2>2, <4>1 DEF Extra
    <3>2. back'[p] = "out" /\ call'[p] = call[p] /\ path'[p] # << >> /\ refs'[p] = refs[p]
      BY <1>1, <2>1, <2>3 DEF Knows, Giving
    <3>3. HasRefs(p)'
      <4>1. \/ pc'[p] = "writedir" /\ Len(refs'[p]) = 2
            \/ pc'[p] = "ialloc" /\ Len(refs'[p]) = 1
        BY <2>3, <3>1, <3>2
      <4>2. CASE pc'[p] = "writedir" /\ Len(refs'[p]) = 2
        BY <4>2 DEF HasRefs, Giving, Extra
      <4>3. CASE pc'[p] = "ialloc" /\ Len(refs'[p]) = 1
        BY <4>3 DEF HasRefs, Giving, Extra
      <4> QED BY <4>1, <4>2, <4>3
    <3>4. Knows(p)'
      BY <2>1, <2>3, <3>1, <3>2 DEF Knows, Giving
    <3> QED BY <3>3, <3>4
  <2> QED BY <2>3, <2>4, <2>5, <2>6, Steady
<1>7. CASE ToDelete(p)
  <2>1. call[p] = "unlink"
    <3>1. call[p] \in NameCalls /\ Modes[call[p]] = "DELETE"
      BY <1>1, <1>7 DEF ToDelete, Looks, Mode, Knows
    <3> QED BY <3>1 DEF Modes, NameCalls
  <2>2. PICK i \in Inos : num' = [num EXCEPT ![p] = i]
    <3>1. PICK k \in Found(p) : num' = [num EXCEPT ![p] = ent[Head(refs[p])][k].ino]
      BY <1>7 DEF ToDelete
    <3>2. ent[Head(refs[p])][k].ino \in Inos
      BY <1>7, FoundIs DEF ToDelete
    <3> QED BY <3>1, <3>2
  <2>3. /\ Moves(p) /\ UNCHANGED <<files, kept, cdir, refs, call, path, back>>
        /\ pc[p] = "search" /\ pc'[p] = "unlink" /\ num'[p] = i
    BY <1>1, <1>7, <2>2 DEF PlaceType, LocalType, Moves, ToDelete, Looks
  <2>4. PlaceType' /\ LocalType'
    BY <1>1, <1>7, <2>2 DEF PlaceType, LocalType, Labels, ToDelete
  <2>5. NodeType' /\ TreeType' /\ \A j \in Inos : node'[j].count = node[j].count
    <3>1. /\ node' = [node EXCEPT ![Head(refs[p])].lock = NoProc]
          /\ UNCHANGED <<ent, free>>
      BY <1>7 DEF ToDelete
    <3> QED BY <1>1, <3>1, LockStep DEF TreeType
  <2>6. HasRefs(p)' /\ Knows(p)'
    BY <1>1, <2>1, <2>3 DEF HasRefs, Knows, Giving, Extra
  <2> QED BY <2>3, <2>4, <2>5, <2>6, Steady
<1> QED BY <1>3, <1>4, <1>5, <1>6, <1>7

\* The steps of a call with the inodes it has.
LEMMA InodeStepsKeep ==
    ASSUME DirInv, NEW p \in Procs,
           \/ MakNode(p) \/ WriteDir(p) \/ Empties(p) \/ Entered(p) \/ Link(p) \/ Clear(p)
           \/ Unlinked(p) \/ IPutLast(p) \/ Truncated(p) \/ WriteDirFails(p) \/ UnlinkFails(p)
    PROVE  DirInv'
<1> USE DEF At, GoOn, SleepAt, UserMode, Put, Leave, Forget, history, locals
<1>1. NodeType /\ TreeType /\ UserType /\ PlaceType /\ LocalType /\ HasRefs(p) /\ Knows(p)
  BY DEF DirInv
<1>2. << >> \in Seq(Names)
  BY EmptySeq
<1>3. CASE MakNode(p)
  <2>1. /\ Moves(p) /\ UNCHANGED <<files, kept, cdir, refs, call, path, num, back>>
        /\ pc[p] = "made" /\ pc'[p] = "writedir"
    BY <1>1, <1>3 DEF PlaceType, Moves, MakNode
  <2>2. PlaceType' /\ LocalType'
    BY <1>1, <1>3 DEF PlaceType, LocalType, Labels, MakNode
  <2>3. NodeType' /\ TreeType' /\ \A j \in Inos : node'[j].count = node[j].count
    <3>1. PICK i : i = refs[p][2]
      OBVIOUS
    <3>2. PICK kind \in {"file", "dir"} :
             node' = [node EXCEPT ![i].kind = kind, ![i].nlink = 1]
      BY <1>3, <3>1 DEF MakNode
    <3>3. UNCHANGED <<ent, free>>
      BY <1>3 DEF MakNode
    <3> QED BY <1>1, <3>2, <3>3, FilledStep DEF TreeType
  <2>4. HasRefs(p)' /\ Knows(p)'
    BY <1>1, <2>1 DEF HasRefs, Knows, Giving, Extra
  <2> QED BY <2>1, <2>2, <2>3, <2>4, Steady
<1>4. CASE WriteDir(p)
  <2>1. PICK b \in {"open1", "out", "count"} : back' = [back EXCEPT ![p] = b]
    <3>1. call[p] \in {"creat", "mknod", "linkto"}
      BY <1>1, <1>4 DEF Knows, WriteDir
    <3>2. back' = [back EXCEPT ![p] = AfterWriteDir[call[p]]]
      BY <1>4 DEF WriteDir
    <3>3. AfterWriteDir[call[p]] \in {"open1", "out", "count"}
      BY <3>1 DEF AfterWriteDir
    <3> QED BY <3>2, <3>3
  <2>2. /\ Moves(p) /\ UNCHANGED <<files, kept, cdir, refs, call, num>>
        /\ pc[p] = "writedir" /\ pc'[p] = "iput" /\ back'[p] = b
    BY <1>1, <1>4, <2>1 DEF PlaceType, LocalType, Moves, WriteDir
  <2>3. PlaceType' /\ LocalType'
    BY <1>1, <1>2, <1>4, <2>1 DEF PlaceType, LocalType, Labels, WriteDir
  <2>4. NodeType' /\ TreeType' /\ \A j \in Inos : node'[j].count = node[j].count
    <3>1. refs[p][2] \in Inos
      BY <1>1, <2>2, RefsAre DEF HasRefs
    <3>2. Head(path[p]) \in Names
      <4>1. PICK s \in Seq(Names) : s = path[p] /\ s # << >>
        BY <1>1, <2>2 DEF LocalType, Knows
      <4> QED BY <4>1
    <3>3. PICK e \in Entry : e = [name |-> Head(path[p]), ino |-> refs[p][2]]
      BY <3>1, <3>2 DEF Entry
    <3>4. ent' = Written(Head(refs[p]), off[p], e) /\ UNCHANGED <<node, free>>
      BY <1>4, <3>3 DEF WriteDir
    <3>5. ent' \in [Inos -> Seq(Entry)]
      BY <1>1, <3>4, WrittenIs
    <3> QED BY <1>1, <3>4, <3>5 DEF NodeType, Node, TreeType
  <2>5. HasRefs(p)' /\ Knows(p)'
    <3>1. Len(refs[p]) = 2
      BY <1>1, <2>2 DEF HasRefs
    <3> QED BY <2>1, <2>2, <3>1 DEF HasRefs, Knows, Giving
  <2> QED BY <2>2, <2>3, <2>4, <2>5, Steady
<1>5. CASE Empties(p)
  <2>1. /\ Moves(p) /\ UNCHANGED <<files, kept, cdir, refs>>
        /\ pc[p] = "found" /\ pc'[p] = "open1" /\ UNCHANGED <<call, path, num, back>>
        /\ call[p] = "creat"
    BY <1>1, <1>5
    DEF PlaceType, LocalType, Moves, HasRefs, Knows, Extra, Giving, Empties
  <2>2. PlaceType' /\ LocalType'
    BY <1>1, <1>2, <1>5, <2>1 DEF PlaceType, LocalType, Labels, NameCalls, Empties
  <2>3. NodeType' /\ TreeType' /\ \A i \in Inos : node'[i].count = node[i].count
    BY <1>1, <1>5, <2>1 DEF NodeType, Node, TreeType, Empties
  <2>4. HasRefs(p)' /\ Knows(p)'
    BY <1>1, <2>1 DEF HasRefs, Knows, Giving, Extra
  <2> QED BY <2>1, <2>2, <2>3, <2>4, Steady
<1>6. CASE Entered(p)
  <2>1. /\ Moves(p) /\ UNCHANGED <<files, kept, cdir, refs>>
        /\ pc'[p] = "user" /\ back'[p] = "out" /\ refs[p] = << >>
    BY <1>1, <1>6
    DEF PlaceType, LocalType, Moves, HasRefs, Knows, Extra, Giving, Entered
  <2>2. PlaceType' /\ LocalType'
    BY <1>1, <1>2, <1>6, <2>1 DEF PlaceType, LocalType, Labels, NameCalls, Entered
  <2>3. NodeType' /\ TreeType' /\ \A i \in Inos : node'[i].count = node[i].count
    BY <1>1, <1>6, <2>1 DEF NodeType, Node, TreeType, Entered
  <2>4. HasRefs(p)' /\ Knows(p)'
    BY <1>1, <2>1 DEF HasRefs, Knows, Giving, Extra
  <2> QED BY <2>1, <2>2, <2>3, <2>4, Steady
<1>7. CASE Link(p)
  <2>1. PICK way \in Seq(Names) : path' = [path EXCEPT ![p] = way]
    BY <1>7, DirectoriesAssumption DEF Link
  <2>2. /\ Moves(p) /\ UNCHANGED <<files, kept, cdir, refs, num, back>>
        /\ pc[p] = "found" /\ pc'[p] = "linkto" /\ call'[p] = "linkto" /\ call[p] = "link"
    BY <1>1, <1>7, <2>1 DEF PlaceType, LocalType, Moves, Link
  <2>3. PlaceType' /\ LocalType'
    BY <1>1, <1>7, <2>1 DEF PlaceType, LocalType, Labels, NameCalls, Link
  <2>4. NodeType' /\ TreeType' /\ \A j \in Inos : node'[j].count = node[j].count
    <3>1. /\ node' = [node EXCEPT ![Head(refs[p])].lock = NoProc]
          /\ UNCHANGED <<ent, free>>
      BY <1>7 DEF Link
    <3> QED BY <1>1, <3>1, LockStep DEF TreeType
  <2>5. HasRefs(p)' /\ Knows(p)'
    BY <1>1, <2>2 DEF HasRefs, Knows, Giving, Extra
  <2> QED BY <2>2, <2>3, <2>4, <2>5, Steady
<1>8. CASE Clear(p)
  <2>1. /\ Moves(p) /\ UNCHANGED <<files, kept, cdir, refs>>
        /\ pc[p] = "clear?" /\ pc'[p] = "clear" /\ UNCHANGED <<call, path, num, back>>
    BY <1>1, <1>8
    DEF PlaceType, LocalType, Moves, HasRefs, Knows, Extra, Giving, Clear
  <2>2. PlaceType' /\ LocalType'
    BY <1>1, <1>2, <1>8, <2>1 DEF PlaceType, LocalType, Labels, NameCalls, Clear
  <2>3. NodeType' /\ TreeType' /\ \A i \in Inos : node'[i].count = node[i].count
    BY <1>1, <1>8, <2>1 DEF NodeType, Node, TreeType, Clear
  <2>4. HasRefs(p)' /\ Knows(p)'
    BY <1>1, <2>1 DEF HasRefs, Knows, Giving, Extra
  <2> QED BY <2>1, <2>2, <2>3, <2>4, Steady
<1>9. CASE Unlinked(p) \/ UnlinkFails(p)
  <2>1. /\ Moves(p) /\ UNCHANGED <<files, kept, cdir, refs>>
        /\ pc[p] = "clear" /\ pc'[p] = "iput" /\ back'[p] = "out" /\ Len(refs[p]) = 2
    <3>1. /\ pc' = [pc EXCEPT ![p] = "iput"] /\ Forget(p) /\ pc[p] = "clear"
          /\ UNCHANGED <<files, kept, cdir, refs>>
      BY <1>9 DEF Unlinked, UnlinkFails
    <3> QED BY <1>1, <3>1 DEF PlaceType, LocalType, Moves, HasRefs
  <2>2. PlaceType' /\ LocalType'
    <3>1. pc' = [pc EXCEPT ![p] = "iput"] /\ cpu' = p /\ Forget(p)
      BY <1>9 DEF Unlinked, UnlinkFails
    <3> QED BY <1>1, <1>2, <3>1 DEF PlaceType, LocalType, Labels
  <2>3. NodeType' /\ \A j \in Inos : node'[j].count = node[j].count
    <3>1. PICK i : i = Last(refs[p])
      OBVIOUS
    <3>2. i \in Inos /\ node[i].nlink \in Int
      BY <1>1, <2>1, <3>1, RefsAre DEF NodeType, Node
    <3>3. PICK n \in Int : n = node[i].nlink - 1
      BY <3>2
    <3>4. node' = [node EXCEPT ![i].nlink = n]
      BY <1>9, <3>1, <3>3 DEF Unlinked, UnlinkFails
    <3> QED BY <1>1, <3>4 DEF NodeType, Node
  <2>4. TreeType'
    <3>1. FreeEntry \in Entry
      BY DEF FreeEntry, Entry
    <3>2. /\ ent' = Written(Head(refs[p]), off[p], FreeEntry) \/ ent' = ent
          /\ UNCHANGED free
      BY <1>9 DEF Unlinked, UnlinkFails
    <3> QED BY <1>1, <3>1, <3>2, WrittenIs DEF TreeType
  <2>5. HasRefs(p)' /\ Knows(p)'
    BY <1>1, <2>1 DEF HasRefs, Knows, Giving, Extra
  <2> QED BY <2>1, <2>2, <2>3, <2>4, <2>5, Steady
<1>10. CASE IPutLast(p)
  <2>1. /\ Moves(p) /\ UNCHANGED <<files, kept, cdir, refs>>
        /\ pc[p] = "iput" /\ pc'[p] \in {"trunc", "release"}
        /\ UNCHANGED <<call, path, num, back>>
    BY <1>1, <1>10
    DEF PlaceType, LocalType, Moves, HasRefs, Knows, Extra, Giving, IPutLast
  <2>2. PlaceType' /\ LocalType'
    BY <1>1, <1>2, <1>10, <2>1 DEF PlaceType, LocalType, Labels, NameCalls, IPutLast
  <2>3. NodeType' /\ TreeType' /\ \A i \in Inos : node'[i].count = node[i].count
    BY <1>1, <1>10, <2>1 DEF NodeType, Node, TreeType, IPutLast
  <2>4. HasRefs(p)' /\ Knows(p)'
    BY <1>1, <2>1 DEF HasRefs, Knows, Giving, Extra
  <2> QED BY <2>1, <2>2, <2>3, <2>4, Steady
<1>11. CASE Truncated(p)
  <2>1. /\ Moves(p) /\ UNCHANGED <<files, kept, cdir, refs, call, path, num, back>>
        /\ pc[p] = "trunc" /\ pc'[p] = "release"
    BY <1>1, <1>11 DEF PlaceType, Moves, Truncated
  <2>2. PlaceType' /\ LocalType'
    BY <1>1, <1>11 DEF PlaceType, LocalType, Labels, Truncated
  <2>3. NodeType' /\ TreeType' /\ \A j \in Inos : node'[j].count = node[j].count
    <3>1. PICK i : i = Head(refs[p])
      OBVIOUS
    <3>2. i \in Inos
      BY <1>1, <2>1, <3>1, RefsAre DEF HasRefs, Giving
    <3>3. /\ node' = [node EXCEPT ![i].kind = "none"]
          /\ ent' = [ent EXCEPT ![i] = << >>] /\ free' = free \cup {i}
      BY <1>11, <3>1 DEF Truncated
    <3>4. << >> \in Seq(Entry)
      BY EmptySeq
    <3> QED BY <1>1, <3>2, <3>3, <3>4 DEF NodeType, Node, TreeType
  <2>4. HasRefs(p)' /\ Knows(p)'
    BY <1>1, <2>1 DEF HasRefs, Knows, Giving, Extra
  <2> QED BY <2>1, <2>2, <2>3, <2>4, Steady
<1>12. CASE WriteDirFails(p)
  <2>1. PICK b \in {"out", "count"} : back' = [back EXCEPT ![p] = b]
    BY <1>12 DEF WriteDirFails
  <2>2. /\ Moves(p) /\ UNCHANGED <<node, free, files, kept, cdir, refs, call, num>>
        /\ pc[p] = "writedir" /\ pc'[p] = "iput" /\ back'[p] = b
    BY <1>1, <1>12, <2>1 DEF PlaceType, LocalType, Moves, WriteDirFails
  <2>3. PlaceType' /\ LocalType'
    BY <1>1, <1>2, <1>12, <2>1 DEF PlaceType, LocalType, Labels, WriteDirFails
  <2>4. NodeType' /\ TreeType' /\ \A j \in Inos : node'[j].count = node[j].count
    <3>1. FreeEntry \in Entry
      BY DEF FreeEntry, Entry
    <3>2. ent' = ent \/ ent' = Written(Head(refs[p]), off[p], FreeEntry)
      BY <1>12 DEF WriteDirFails
    <3>3. ent' \in [Inos -> Seq(Entry)]
      BY <1>1, <3>1, <3>2, WrittenIs DEF TreeType
    <3> QED BY <1>1, <2>2, <3>3 DEF NodeType, Node, TreeType
  <2>5. HasRefs(p)' /\ Knows(p)'
    <3>1. Len(refs[p]) = 2
      BY <1>1, <2>2 DEF HasRefs
    <3> QED BY <2>1, <2>2, <3>1 DEF HasRefs, Knows, Giving
  <2> QED BY <2>2, <2>3, <2>4, <2>5, Steady
<1> QED BY <1>3, <1>4, <1>5, <1>6, <1>7, <1>8, <1>9, <1>10, <1>11, <1>12

\* What a reference more, or one less, does to the count.
LEMMA OfNone == << >> \in Short /\ \A j : Of(<< >>, j) = 0
  BY EmptySeq DEF Short, Of

LEMMA OfMore ==
    ASSUME NEW s \in Short, NEW i \in Inos, Len(s) <= 1, NEW t, t = <<i>> \o s \/ t = Append(s, i)
    PROVE  /\ t \in Short /\ Len(t) = Len(s) + 1
           /\ \A j : Of(t, j) = Of(s, j) + One(i = j)
<1>1. s \in Seq(Inos) /\ Len(s) \in {0, 1} /\ <<i>> \in Seq(Inos) /\ Len(<<i>>) = 1
  BY ShortIs DEF Short
<1>2. CASE t = <<i>> \o s
  <2>1. /\ t \in Seq(Inos) /\ Len(t) = Len(s) + 1 /\ t[1] = i
        /\ Len(s) = 1 => t[2] = s[1]
    BY <1>1, <1>2, ConcatProperties
  <2> QED BY <1>1, <2>1 DEF Short, Of, One
<1>3. CASE t = Append(s, i)
  <2>1. /\ t \in Seq(Inos) /\ Len(t) = Len(s) + 1 /\ t[Len(s) + 1] = i
        /\ Len(s) = 1 => t[1] = s[1]
    BY <1>1, <1>3, AppendProperties
  <2> QED BY <1>1, <2>1 DEF Short, Of, One
<1> QED BY <1>2, <1>3

LEMMA OfLess ==
    ASSUME NEW s \in Short, Len(s) >= 1
    PROVE  /\ Tail(s) \in Short /\ Len(Tail(s)) = Len(s) - 1
           /\ Len(s) = 1 <=> Tail(s) = << >>
           /\ \A j : Of(Tail(s), j) = Of(s, j) - One(s[1] = j)
<1>1. s \in Seq(Inos) /\ s # << >> /\ Len(s) \in {1, 2}
  BY ShortIs, EmptySeq DEF Short
<1>2. /\ Tail(s) \in Seq(Inos) /\ Len(Tail(s)) = Len(s) - 1
      /\ Len(s) = 2 => Tail(s)[1] = s[2]
  BY <1>1, HeadTailProperties
<1>3. Len(Tail(s)) = 0 <=> Tail(s) = << >>
  BY <1>2, EmptySeq
<1> QED BY <1>1, <1>2, <1>3 DEF Short, Of, One

\* What a call is at, and has, that comes to label by IGet.
Fits(p, label, c, way) ==
    /\ label \in {"search", "error", "made", "clear?"} /\ c \in NameCalls /\ way \in Seq(Names)
    /\ ~Giving(p) /\ pc[p] # "asleep" /\ Len(refs[p]) <= 1
    /\ label \in {"search", "error"} => Len(refs[p]) = IF c = "linkto" THEN 1 ELSE 0
    /\ label \in {"made", "clear?"} => Len(refs[p]) = 1
    /\ label = "made" => c \in {"creat", "mknod"} /\ way # << >>

\* IGet: asleep, or with one reference more to the inode.
LEMMA GetKeeps ==
    ASSUME DirInv, NEW p \in Procs, NEW i \in Inos,
           NEW label, NEW got, NEW c, NEW way, Fits(p, label, c, way),
           got = <<i>> \o refs[p] \/ got = Append(refs[p], i),
           Get(p, i, label, got, c, way), UNCHANGED <<ent, files, kept, cdir>>,
           free' \subseteq free
    PROVE  DirInv'
<1> USE DEF Put, SleepAt, GoOn, Fits
<1>1. NodeType /\ TreeType /\ UserType /\ PlaceType /\ LocalType /\ HasRefs(p) /\ Knows(p)
  BY DEF DirInv
<1>2. back[p] = "out" /\ << >> \in Seq(Names)
  BY <1>1, EmptySeq DEF Knows
<1>3. refs[p] \in Short /\ Len(refs[p]) \in {0, 1}
  BY RefsShort, RefsAre
<1>4. /\ got \in Short /\ Len(got) = Len(refs[p]) + 1
      /\ \A j : Of(got, j) = Of(refs[p], j) + One(i = j)
  BY <1>3, OfMore
<1>5. TreeType'
  BY <1>1 DEF TreeType
<1>6. CASE node[i].lock # NoProc
  <2>1. /\ pc' = [pc EXCEPT ![p] = "asleep"] /\ cpu' = NoProc /\ num' = [num EXCEPT ![p] = i]
        /\ call' = [call EXCEPT ![p] = "none"] /\ path' = [path EXCEPT ![p] = << >>]
        /\ UNCHANGED <<node, refs, back>>
    BY <1>6 DEF Get
  <2>2. Moves(p) /\ pc'[p] = "asleep"
    BY <1>1, <2>1 DEF Moves, PlaceType
  <2>3. PlaceType' /\ LocalType'
    BY <1>1, <1>2, <2>1 DEF PlaceType, LocalType, Labels
  <2>4. HasRefs(p)' /\ Knows(p)'
    BY <1>3, <2>1, <2>2 DEF HasRefs, Knows, Giving
  <2>5. NodeType' /\ \A j \in Inos : node'[j].count = node[j].count
    BY <1>1, <2>1 DEF NodeType
  <2> QED BY <1>5, <2>1, <2>2, <2>3, <2>4, <2>5, Steady
<1>7. CASE node[i].lock = NoProc
  <2>1. /\ node' = [node EXCEPT ![i].count = @ + 1, ![i].lock = p]
        /\ pc' = [pc EXCEPT ![p] = label] /\ cpu' \in {p, NoProc}
        /\ refs' = [refs EXCEPT ![p] = got] /\ num' = [num EXCEPT ![p] = NoIno]
        /\ call' = [call EXCEPT ![p] = c] /\ path' = [path EXCEPT ![p] = way]
        /\ UNCHANGED back
    BY <1>7 DEF Get
  <2>2. /\ Moves(p) /\ pc'[p] = label /\ refs'[p] = got /\ call'[p] = c /\ path'[p] = way
        /\ back'[p] = "out"
    BY <1>1, <1>2, <2>1 DEF Moves, PlaceType, LocalType, UserType
  <2>3. PlaceType' /\ LocalType'
    BY <1>1, <2>1 DEF PlaceType, LocalType, Labels
  <2>4. HasRefs(p)'
    <3>1. PICK n \in {0, 1} : n = Len(refs[p]) /\ Len(refs'[p]) = n + 1
      <4>1. Len(refs'[p]) = Len(got)
        BY <2>2
      <4> QED BY <1>3, <1>4, <4>1
    <3>2. /\ Len(refs'[p]) \in {1, 2}
          /\ \/ label \in {"search", "error"} /\ Len(refs'[p]) = 1 + Extra(p)'
             \/ label \in {"made", "clear?"} /\ Len(refs'[p]) = 2
      <4>1. call'[p] = c
        BY <2>2
      <4> QED BY <3>1, <4>1 DEF Extra
    <3>3. CASE label \in {"search", "error"} /\ Len(refs'[p]) = 1 + Extra(p)'
      BY <2>2, <3>2, <3>3 DEF HasRefs, Giving
    <3>4. CASE label \in {"made", "clear?"} /\ Len(refs'[p]) = 2
      BY <2>2, <3>2, <3>4 DEF HasRefs, Giving
    <3> QED BY <3>2, <3>3, <3>4
  <2>5. Knows(p)'
    BY <2>2 DEF Knows, Giving
  <2>6. PICK n \in Int : n = node[i].count + 1
    BY <1>1 DEF NodeType, Node
  <2>7. node' = [node EXCEPT ![i].count = n, ![i].lock = p]
    BY <2>1, <2>6
  <2>8. NodeType' /\ \A j \in Inos : node'[j].count = node[j].count + One(i = j)
    <3>1. /\ NodeType' /\ node'[i].count = n
          /\ \A j \in Inos \ {i} : node'[j].count = node[j].count
      BY <1>1, <2>7, CountStep
    <3>2. \A j \in Inos : node[j].count \in Int
      BY <1>1 DEF NodeType, Node
    <3> QED BY <2>6, <3>1, <3>2 DEF One
  <2>9. UserType'
    BY <1>1, <1>4, <2>1 DEF UserType, Short
  <2>10. RefsExact'
    <3>1. Booked(p, got)
      <4> USE DEF Booked
      <4> TAKE j \in Inos
      <4>1. node[j].count \in Int /\ files[j] \in Nat /\ kept[j] \in Nat
        BY <1>1 DEF NodeType, Node, UserType
      <4>2. Of(refs[p], j) \in Nat /\ One(i = j) \in Nat
        BY DEF Of, One
      <4>3. Of(got, j) = Of(refs[p], j) + One(i = j)
        BY <1>4
      <4>4. files'[j] = files[j] /\ kept'[j] = kept[j]
        OBVIOUS
      <4>5. node'[j].count = node[j].count + One(i = j)
        BY <2>8
      <4> QED BY <4>1, <4>2, <4>3, <4>4, <4>5
    <3>2. files' \in [Inos -> Nat] /\ kept' \in [Inos -> Nat]
      BY <1>1 DEF UserType
    <3> QED BY <1>4, <2>1, <3>1, <3>2, Balanced
  <2> QED BY <1>5, <2>2, <2>3, <2>4, <2>5, <2>8, <2>9, <2>10, Kept
<1> QED BY <1>6, <1>7

\* The steps that get an inode.
LEMMA GetStepsKeep ==
    ASSUME DirInv, NEW p \in Procs,
           Call(p) \/ Enter(p) \/ IAlloc(p) \/ LinkTo(p) \/ UnLink(p)
    PROVE  DirInv'
<1> USE DEF At, history
<1>1. /\ TreeType /\ UserType /\ PlaceType /\ LocalType /\ HasRefs(p) /\ Knows(p)
      /\ Len(refs[p]) \in 0..2
  BY RefsAre DEF DirInv
<1>2. CASE Call(p)
  <2>1. PICK c \in Calls[p] \ {"close"}, way \in Paths[p], i \in {Root, cdir[p]} :
           /\ At(p, "user") /\ StartAt(p, i, c, way)
           /\ UNCHANGED <<ent, free, files, cdir, history>>
    BY <1>2 DEF Call
  <2>2. c \in NameCalls /\ c # "linkto" /\ way \in Seq(Names) /\ i \in Inos
    <3>1. /\ Calls[p] \in SUBSET {"open", "creat", "mknod", "link", "unlink", "chdir", "close"}
          /\ Paths[p] \in SUBSET Seq(Names) /\ Root \in Inos
      BY DirectoriesAssumption
    <3>2. cdir[p] \in Inos
      BY <1>1 DEF UserType
    <3> QED BY <2>1, <3>1, <3>2 DEF NameCalls
  <2>3. pc[p] = "user" /\ Len(refs[p]) = 0
    BY <1>1, <2>1, RefsAre DEF HasRefs
  <2>4. PICK label \in {"search", "error"} : Get(p, i, label, <<i>> \o refs[p], c, way)
    BY <2>1 DEF StartAt
  <2>5. Fits(p, label, c, way)
    BY <2>2, <2>3, <2>4 DEF Giving, Fits
  <2>6. UNCHANGED <<ent, files, kept, cdir>> /\ free' \subseteq free
    BY <2>1
  <2> QED BY <2>2, <2>4, <2>5, <2>6, GetKeeps
<1>3. CASE Enter(p)
  <2>1. PICK i \in Inos : i = num[p]
    BY <1>1, <1>3 DEF Enter, Knows
  <2>2. /\ pc[p] = "next" /\ call[p] \in NameCalls /\ path[p] \in Seq(Names)
        /\ Len(refs[p]) = IF call[p] = "linkto" THEN 1 ELSE 0
    BY <1>1, <1>3 DEF Enter, Knows, HasRefs, Extra, LocalType
  <2>3. /\ Get(p, i, "search", <<i>> \o refs[p], call[p], path[p])
        /\ UNCHANGED <<ent, files, kept, cdir>> /\ free' \subseteq free
    BY <1>3, <2>1 DEF Enter
  <2>4. Fits(p, "search", call[p], path[p])
    BY <2>2 DEF Giving, Fits
  <2> QED BY <2>3, <2>4, GetKeeps
<1>4. CASE IAlloc(p)
  <2>1. PICK i \in free : /\ free' = free \ {i}
                          /\ Get(p, i, "made", Append(refs[p], i), call[p], path[p])
                          /\ UNCHANGED <<ent, files, kept, cdir>>
    BY <1>4 DEF IAlloc
  <2>2. /\ pc[p] = "ialloc" /\ call[p] \in {"creat", "mknod"} /\ path[p] \in Seq(Names)
        /\ Len(refs[p]) = 1 /\ path[p] # << >>
    BY <1>1, <1>4 DEF IAlloc, Knows, HasRefs, LocalType
  <2>3. i \in Inos /\ call[p] \in NameCalls
    BY <1>1, <2>1, <2>2 DEF TreeType, NameCalls
  <2>4. Fits(p, "made", call[p], path[p])
    BY <2>2, <2>3 DEF Giving, Fits
  <2>5. free' \subseteq free
    BY <2>1
  <2> QED BY <2>1, <2>3, <2>4, <2>5, GetKeeps
<1>5. CASE LinkTo(p)
  <2>1. PICK i \in {Root, cdir[p]} : /\ StartAt(p, i, "linkto", path[p])
                                     /\ UNCHANGED <<ent, files, kept, cdir>>
                                     /\ free' \subseteq free
    BY <1>5 DEF LinkTo
  <2>2. /\ pc[p] = "linkto" /\ path[p] \in Seq(Names) /\ Len(refs[p]) = 1 /\ i \in Inos
    BY <1>1, <1>5, DirectoriesAssumption DEF LinkTo, HasRefs, LocalType, UserType
  <2>3. PICK label \in {"search", "error"} :
           Get(p, i, label, <<i>> \o refs[p], "linkto", path[p])
    BY <2>1 DEF StartAt
  <2>4. Fits(p, label, "linkto", path[p])
    BY <2>2, <2>3 DEF Giving, Fits, NameCalls
  <2> QED BY <2>1, <2>2, <2>3, <2>4, GetKeeps
<1>6. CASE UnLink(p)
  <2>1. PICK i \in Inos : i = num[p]
    BY <1>1, <1>6 DEF UnLink, Knows
  <2>2. /\ pc[p] = "unlink" /\ call[p] \in NameCalls /\ path[p] \in Seq(Names)
        /\ Len(refs[p]) = 1
    BY <1>1, <1>6 DEF UnLink, Knows, HasRefs, LocalType
  <2>3. /\ Get(p, i, "clear?", Append(refs[p], i), call[p], path[p])
        /\ UNCHANGED <<ent, files, kept, cdir>> /\ free' \subseteq free
    BY <1>6, <2>1 DEF UnLink
  <2>4. Fits(p, "clear?", call[p], path[p])
    BY <2>2 DEF Giving, Fits
  <2> QED BY <2>3, <2>4, GetKeeps
<1> QED BY <1>2, <1>3, <1>4, <1>5, <1>6

\* Where IPut can return to.
LEMMA After ==
    ASSUME NEW p, back'[p] = "out", NEW n \in {0, 1}, Len(refs'[p]) = n,
           \/ pc'[p] = "user" /\ refs'[p] = << >>
           \/ pc'[p] \in {"iput", "open1", "count"} /\ n = 1
           \/ pc'[p] = "entered" /\ n = 0
           \/ pc'[p] = "next" /\ n = Extra(p)' /\ num'[p] \in Inos /\ call'[p] \in NameCalls
    PROVE  HasRefs(p)' /\ Knows(p)'
<1>1. CASE pc'[p] = "user" /\ refs'[p] = << >>
  BY <1>1 DEF HasRefs, Knows, Giving
<1>2. CASE pc'[p] \in {"iput", "open1", "count"} /\ n = 1
  BY <1>2 DEF HasRefs, Knows, Giving
<1>3. CASE pc'[p] = "entered" /\ n = 0
  BY <1>3 DEF HasRefs, Knows, Giving
<1>4. CASE pc'[p] = "next" /\ n = Extra(p)' /\ num'[p] \in Inos /\ call'[p] \in NameCalls
  <2>1. HasRefs(p)'
    BY <1>4 DEF HasRefs, Giving
  <2>2. Knows(p)'
    BY <1>4 DEF Knows, Giving
  <2> QED BY <2>1, <2>2
<1> QED BY <1>1, <1>2, <1>3, <1>4

\* IPut gives the first reference back, and the call goes on where it has to.
LEMMA GivesKeep ==
    ASSUME DirInv, NEW p \in Procs, Giving(p), NEW i, i = Head(refs[p]),
           node' = [node EXCEPT ![i].count = @ - 1, ![i].lock = NoProc],
           refs' = Put(refs, p, Tail(refs[p])), Return(p, Tail(refs[p])),
           UNCHANGED <<ent, files, cdir, kept, free>>
    PROVE  DirInv'
<1> USE DEF Put, SleepAt, GoOn
<1>1. NodeType /\ TreeType /\ UserType /\ PlaceType /\ LocalType /\ HasRefs(p) /\ Knows(p)
  BY DEF DirInv
<1>2. << >> \in Seq(Names)
  BY EmptySeq
<1>3. refs[p] \in Short /\ Len(refs[p]) \in {1, 2} /\ i \in Inos /\ i = refs[p][1]
  BY <1>1, RefsShort, RefsAre DEF HasRefs
<1>4. PICK left : left = Tail(refs[p])
  OBVIOUS
<1>5. /\ left \in Short /\ Len(left) = Len(refs[p]) - 1
      /\ Len(refs[p]) = 1 <=> left = << >>
      /\ \A j : Of(left, j) = Of(refs[p], j) - One(i = j)
  <2>1. PICK s \in Short : s = refs[p] /\ Len(s) >= 1 /\ i = s[1]
    <3>1. Len(refs[p]) >= 1
      BY <1>3
    <3> QED BY <1>3, <3>1
  <2>2. /\ Tail(s) \in Short /\ Len(Tail(s)) = Len(s) - 1
        /\ Len(s) = 1 <=> Tail(s) = << >>
        /\ \A j : Of(Tail(s), j) = Of(s, j) - One(s[1] = j)
    BY <2>1, OfLess
  <2>3. Tail(s) = left
    BY <1>4, <2>1
  <2> QED BY <2>1, <2>2, <2>3
<1>6. refs' = [refs EXCEPT ![p] = left] /\ refs'[p] = left
  BY <1>1, <1>4 DEF UserType
<1>7. PICK l : /\ pc' = [pc EXCEPT ![p] = l] /\ cpu' \in {p, NoProc}
               /\ back' = [back EXCEPT ![p] = "out"]
               /\ \/ l = "user" /\ back[p] = "out" /\ left = << >> /\ Forget(p)
                  \/ /\ l = "iput" /\ back[p] = "out" /\ left # << >>
                     /\ UNCHANGED <<call, path, num>>
                  \/ /\ l = back[p] /\ back[p] # "out" /\ UNCHANGED <<call, path, num>>
  <2>1. CASE back[p] = "out" /\ left = << >>
    BY <1>4, <1>5, <2>1 DEF Return, UserMode, Forget
  <2>2. CASE back[p] = "out" /\ left # << >>
    <3>1. GoOn(p, "iput") /\ UNCHANGED locals
      BY <1>4, <1>5, <2>2 DEF Return
    <3>2. back = [back EXCEPT ![p] = "out"]
      BY <1>1, <2>2 DEF PlaceType
    <3> QED BY <2>2, <3>1, <3>2 DEF locals
  <2>3. CASE back[p] # "out"
    BY <1>4, <1>5, <2>3 DEF Return
  <2> QED BY <2>1, <2>2, <2>3
<1>8. /\ call' \in [Procs -> NameCalls \cup {"none"}] /\ LocalType'
      /\ \A q \in Procs \ {p} : call'[q] = call[q] /\ path'[q] = path[q] /\ num'[q] = num[q]
  <2>1. CASE UNCHANGED <<call, path, num>>
    BY <1>1, <2>1 DEF PlaceType, LocalType
  <2>2. CASE Forget(p)
    BY <1>1, <1>2, <2>2 DEF PlaceType, LocalType, Forget
  <2> QED BY <1>7, <2>1, <2>2
<1>9. Moves(p) /\ pc'[p] = l /\ back'[p] = "out"
  BY <1>1, <1>6, <1>7, <1>8 DEF Moves, PlaceType, UserType
<1>10. PlaceType'
  <2>1. l \in Labels
    BY <1>1, <1>7 DEF PlaceType, Labels
  <2> QED BY <1>1, <1>7, <1>8, <2>1 DEF PlaceType
<1>11. HasRefs(p)' /\ Knows(p)'
  <2>1. PICK n \in {0, 1} : n = Len(refs'[p]) /\ Len(refs[p]) = n + 1 /\ (n = 0 <=> left = << >>)
    <3>1. Len(refs'[p]) = Len(left)
      BY <1>6
    <3> QED BY <1>3, <1>4, <1>5, <3>1
  <2>2. CASE l = "user" /\ left = << >>
    <3>1. pc'[p] = "user" /\ refs'[p] = << >> /\ back'[p] = "out"
      BY <1>6, <1>9, <2>2
    <3> QED BY <2>1, <3>1, After
  <2>3. CASE l = "iput" /\ left # << >>
    <3>1. pc'[p] = "iput" /\ back'[p] = "out" /\ n = 1
      BY <1>9, <2>1, <2>3
    <3> QED BY <2>1, <3>1, After
  <2>4. CASE l = back[p] /\ back[p] # "out" /\ UNCHANGED <<call, path, num>>
    <3>1. CASE back[p] = "next"
      <4>1. /\ pc'[p] = "next" /\ back'[p] = "out" /\ num'[p] \in Inos
            /\ call'[p] = call[p] /\ call'[p] \in NameCalls
        BY <1>1, <1>9, <2>4, <3>1 DEF Knows
      <4>2. n + 1 = 1 + Extra(p)
        BY <1>1, <2>1, <3>1 DEF HasRefs
      <4>3. n = Extra(p)'
        BY <2>1, <4>1, <4>2 DEF Extra
      <4> QED BY <2>1, <4>1, <4>3, After
    <3>2. CASE back[p] \in {"open1", "count"}
      <4>1. pc'[p] \in {"open1", "count"} /\ back'[p] = "out"
        BY <1>9, <2>4, <3>2
      <4>2. n = 1
        BY <1>1, <2>1, <3>2 DEF HasRefs
      <4> QED BY <2>1, <4>1, <4>2, After
    <3>3. CASE back[p] = "entered"
      <4>1. pc'[p] = "entered" /\ back'[p] = "out"
        BY <1>9, <2>4, <3>3
      <4>2. n = 0
        BY <1>1, <2>1, <3>3 DEF HasRefs
      <4> QED BY <2>1, <4>1, <4>2, After
    <3> QED BY <1>1, <2>4, <3>1, <3>2, <3>3 DEF PlaceType
  <2> QED BY <1>7, <2>2, <2>3, <2>4
<1>12. PICK n \in Int : n = node[i].count - 1
  BY <1>1, <1>3 DEF NodeType, Node
<1>13. NodeType' /\ \A j \in Inos : node'[j].count = node[j].count - One(i = j)
  <2>1. node' = [node EXCEPT ![i].count = n, ![i].lock = NoProc]
    BY <1>12
  <2>2. /\ NodeType' /\ node'[i].count = n
        /\ \A j \in Inos \ {i} : node'[j].count = node[j].count
    BY <1>1, <1>3, <2>1, CountStep
  <2>3. \A j \in Inos : node[j].count \in Int
    BY <1>1 DEF NodeType, Node
  <2>4. ASSUME NEW j \in Inos PROVE node'[j].count = node[j].count - One(i = j)
    <3>1. CASE j = i
      BY <1>12, <2>2, <3>1 DEF One
    <3>2. CASE j # i
      <4>1. node'[j].count = node[j].count /\ node[j].count \in Int /\ One(i = j) = 0
        BY <2>2, <2>3, <3>2 DEF One
      <4> QED BY <4>1
    <3> QED BY <3>1, <3>2
  <2> QED BY <2>2, <2>4
<1>14. UserType' /\ TreeType'
  BY <1>1, <1>5, <1>6 DEF UserType, TreeType, Short
<1>15. RefsExact'
  <2>1. Booked(p, left)
    <3> USE DEF Booked
    <3> TAKE j \in Inos
    <3>1. node[j].count \in Int /\ files[j] \in Nat /\ kept[j] \in Nat
      BY <1>1 DEF NodeType, Node, UserType
    <3>2. Of(refs[p], j) \in Nat /\ One(i = j) \in Nat
      BY DEF Of, One
    <3>3. Of(left, j) = Of(refs[p], j) - One(i = j)
      BY <1>5
    <3>4. files'[j] = files[j] /\ kept'[j] = kept[j]
      OBVIOUS
    <3>5. node'[j].count = node[j].count - One(i = j)
      BY <1>13
    <3> QED BY <3>1, <3>2, <3>3, <3>4, <3>5
  <2>2. files' \in [Inos -> Nat] /\ kept' \in [Inos -> Nat]
    BY <1>1 DEF UserType
  <2>3. left \in Short /\ refs' = [refs EXCEPT ![p] = left]
    BY <1>5, <1>6
  <2> QED BY <2>1, <2>2, <2>3, Balanced
<1> QED BY <1>8, <1>9, <1>10, <1>11, <1>13, <1>14, <1>15, Kept

LEMMA IPutKeeps ==
    ASSUME DirInv, NEW p \in Procs, IPutShared(p) \/ Release(p)
    PROVE  DirInv'
<1>1. PICK i : i = Head(refs[p])
  OBVIOUS
<1>2. CASE IPutShared(p)
  <2>1. /\ Giving(p) /\ node' = [node EXCEPT ![i].count = @ - 1, ![i].lock = NoProc]
        /\ refs' = Put(refs, p, Tail(refs[p])) /\ Return(p, Tail(refs[p]))
        /\ UNCHANGED <<ent, files, cdir, kept, free>>
    BY <1>1, <1>2 DEF IPutShared, At, Giving
  <2> QED BY <1>1, <2>1, GivesKeep
<1>3. CASE Release(p)
  <2>1. /\ Giving(p) /\ node' = [node EXCEPT ![i].count = @ - 1, ![i].lock = NoProc]
        /\ refs' = Put(refs, p, Tail(refs[p])) /\ Return(p, Tail(refs[p]))
        /\ UNCHANGED <<ent, files, cdir, kept, free>>
    BY <1>1, <1>3 DEF Release, At, Giving, history
  <2> QED BY <1>1, <2>1, GivesKeep
<1> QED BY <1>2, <1>3

\* One reference is taken over by, or from, a file, or left behind.
LEMMA Handed ==
    ASSUME DirInv, NEW p \in Procs, NEW s \in Short, refs' = [refs EXCEPT ![p] = s],
           \A j \in Inos : node'[j].count = node[j].count, UNCHANGED cdir, UserType',
           \A j \in Inos : files'[j] + kept'[j] + Of(s, j) = files[j] + kept[j] + Of(refs[p], j)
    PROVE  RefsExact'
<1>1. NodeType /\ UserType
  BY Types
<1>2. Booked(p, s)
  <2> USE DEF Booked
  <2> TAKE j \in Inos
  <2>1. /\ node[j].count \in Int /\ files[j] \in Nat /\ kept[j] \in Nat
        /\ files'[j] \in Nat /\ kept'[j] \in Nat
    BY <1>1 DEF NodeType, Node, UserType
  <2>2. Of(refs[p], j) \in Nat /\ Of(s, j) \in Nat
    BY DEF Of
  <2>3. /\ node'[j].count = node[j].count
        /\ files'[j] + kept'[j] + Of(s, j) = files[j] + kept[j] + Of(refs[p], j)
    OBVIOUS
  <2> QED BY <2>1, <2>2, <2>3
<1>3. files' \in [Inos -> Nat] /\ kept' \in [Inos -> Nat]
  BY DEF UserType
<1> QED BY <1>2, <1>3, Balanced

LEMMA OfOnly ==
    ASSUME NEW s \in Short, Len(s) = 1
    PROVE  \A j : Of(s, j) = One(s[1] = j)
  BY DEF Of, One

\* Open and close, and MakNode that fails.
LEMMA HandsKeep ==
    ASSUME DirInv, NEW p \in Procs, Open1(p) \/ Close(p) \/ MakNodeFails(p)
    PROVE  DirInv'
<1> USE DEF At, GoOn, SleepAt, UserMode, Put, Leave, Forget, history
<1>1. NodeType /\ TreeType /\ UserType /\ PlaceType /\ LocalType /\ HasRefs(p) /\ Knows(p)
  BY DEF DirInv
<1>2. << >> \in Seq(Names) /\ << >> \in Short /\ refs[p] \in Short
  BY EmptySeq, OfNone, RefsShort
<1>3. CASE Open1(p)
  <2>1. Len(refs[p]) = 1
    <3>1. pc[p] = "open1" \/ (pc[p] = "found" /\ call[p] = "open")
      BY <1>3 DEF Open1, Opens
    <3>2. CASE pc[p] = "open1"
      BY <1>1, <3>2 DEF HasRefs
    <3>3. CASE pc[p] = "found" /\ call[p] = "open"
      BY <1>1, <3>3 DEF HasRefs, Extra
    <3> QED BY <3>1, <3>2, <3>3
  <2>2. PICK i \in Inos : i = Head(refs[p]) /\ \A j : Of(refs[p], j) = One(i = j)
    <3>1. Head(refs[p]) \in Inos /\ Head(refs[p]) = refs[p][1]
      BY <2>1, RefsAre
    <3> QED BY <1>2, <2>1, <3>1, OfOnly
  <2>3. /\ node' = [node EXCEPT ![i].lock = NoProc] /\ files' = [files EXCEPT ![i] = @ + 1]
        /\ refs' = [refs EXCEPT ![p] = << >>] /\ UserMode(p)
        /\ UNCHANGED <<ent, free, cdir, kept>>
    BY <1>3, <2>2 DEF Open1
  <2>4. NodeType' /\ \A j \in Inos : node'[j].count = node[j].count
    BY <1>1, <2>3, LockStep
  <2>5. UserType'
    BY <1>1, <1>2, <2>3 DEF UserType
  <2>6. RefsExact'
    <3>1. \A j \in Inos : /\ files'[j] + kept'[j] + Of(<< >>, j)
                             = files[j] + kept[j] + Of(refs[p], j)
      <4> TAKE j \in Inos
      <4>1. Of(<< >>, j) = 0 /\ Of(refs[p], j) = One(i = j)
        BY <2>2, OfNone
      <4>2. files'[j] = files[j] + One(i = j) /\ kept'[j] = kept[j]
        BY <1>1, <2>3 DEF UserType, One
      <4>3. files[j] \in Nat /\ kept[j] \in Nat /\ One(i = j) \in Nat
        BY <1>1 DEF UserType, One
      <4> QED BY <4>1, <4>2, <4>3
    <3> QED BY <1>2, <2>3, <2>4, <2>5, <3>1, Handed
  <2>7. /\ Moves(p) /\ pc'[p] = "user" /\ refs'[p] = << >> /\ back'[p] = "out"
    BY <1>1, <2>3 DEF Moves, PlaceType, LocalType, UserType
  <2>8. PlaceType' /\ LocalType' /\ TreeType'
    BY <1>1, <1>2, <2>3 DEF PlaceType, LocalType, TreeType, Labels
  <2>9. HasRefs(p)' /\ Knows(p)'
    <3>1. Len(refs'[p]) = 0
      BY <1>2, <2>7, EmptySeq
    <3> QED BY <2>7, <3>1, After
  <2> QED BY <2>4, <2>5, <2>7, <2>8, <2>9, <2>6, Kept
<1>4. CASE Close(p)
  <2>1. PICK i \in Inos : /\ pc[p] = "user" /\ files[i] > 0
                          /\ files' = [files EXCEPT ![i] = @ - 1]
                          /\ refs' = [refs EXCEPT ![p] = <<i>>] /\ Leave(p)
                          /\ UNCHANGED <<node, ent, free, cdir, kept>>
    BY <1>4 DEF Close
  <2>2. PICK s \in Short : s = <<i>> /\ Len(s) = 1 /\ s[1] = i
    <3>1. <<i>> \in Seq(Inos) /\ Len(<<i>>) = 1 /\ <<i>>[1] = i
      OBVIOUS
    <3>2. <<i>> \in Short
      BY <3>1 DEF Short
    <3> QED BY <3>1, <3>2
  <2>3. refs[p] = << >> /\ \A j : Of(s, j) = One(i = j)
    BY <1>1, <2>1, <2>2, OfOnly DEF HasRefs
  <2>4. NodeType' /\ \A j \in Inos : node'[j].count = node[j].count
    BY <1>1, <2>1 DEF NodeType
  <2>5. UserType'
    BY <1>1, <2>1, <2>2 DEF UserType, Short
  <2>6. RefsExact'
    <3>1. \A j \in Inos : files'[j] + kept'[j] + Of(s, j) = files[j] + kept[j] + Of(refs[p], j)
      <4> TAKE j \in Inos
      <4>1. Of(refs[p], j) = 0 /\ Of(s, j) = One(i = j)
        BY <2>3, OfNone
      <4>2. files'[j] = files[j] - One(i = j) /\ kept'[j] = kept[j]
        BY <1>1, <2>1 DEF UserType, One
      <4>3. files[j] \in Nat /\ kept[j] \in Nat /\ One(i = j) \in Nat
        BY <1>1 DEF UserType, One
      <4> QED BY <4>1, <4>2, <4>3
    <3> QED BY <2>1, <2>2, <2>4, <2>5, <3>1, Handed
  <2>7. /\ Moves(p) /\ pc'[p] = "iput" /\ refs'[p] = s /\ back'[p] = "out"
    BY <1>1, <2>1, <2>2 DEF Moves, PlaceType, LocalType, UserType
  <2>8. PlaceType' /\ LocalType' /\ TreeType'
    BY <1>1, <1>2, <2>1 DEF PlaceType, LocalType, TreeType, Labels
  <2>9. HasRefs(p)' /\ Knows(p)'
    BY <2>2, <2>7, After
  <2> QED BY <2>4, <2>5, <2>7, <2>8, <2>9, <2>6, Kept
<1>5. CASE MakNodeFails(p)
  <2>1. Len(refs[p]) = 1
    BY <1>1, <1>5 DEF MakNodeFails, HasRefs
  <2>2. PICK i \in Inos : i = Head(refs[p]) /\ \A j : Of(refs[p], j) = One(i = j)
    <3>1. Head(refs[p]) \in Inos /\ Head(refs[p]) = refs[p][1]
      BY <2>1, RefsAre
    <3> QED BY <1>2, <2>1, <3>1, OfOnly
  <2>3. /\ kept' = [kept EXCEPT ![i] = @ + 1] /\ refs' = [refs EXCEPT ![p] = << >>]
        /\ UserMode(p) /\ UNCHANGED <<node, ent, free, files, cdir>>
    BY <1>5, <2>2 DEF MakNodeFails
  <2>4. NodeType' /\ \A j \in Inos : node'[j].count = node[j].count
    BY <1>1, <2>3 DEF NodeType
  <2>5. UserType'
    BY <1>1, <1>2, <2>3 DEF UserType
  <2>6. RefsExact'
    <3>1. \A j \in Inos : /\ files'[j] + kept'[j] + Of(<< >>, j)
                             = files[j] + kept[j] + Of(refs[p], j)
      <4> TAKE j \in Inos
      <4>1. Of(<< >>, j) = 0 /\ Of(refs[p], j) = One(i = j)
        BY <2>2, OfNone
      <4>2. files'[j] = files[j] /\ kept'[j] = kept[j] + One(i = j)
        BY <1>1, <2>3 DEF UserType, One
      <4>3. files[j] \in Nat /\ kept[j] \in Nat /\ One(i = j) \in Nat
        BY <1>1 DEF UserType, One
      <4> QED BY <4>1, <4>2, <4>3
    <3> QED BY <1>2, <2>3, <2>4, <2>5, <3>1, Handed
  <2>7. /\ Moves(p) /\ pc'[p] = "user" /\ refs'[p] = << >> /\ back'[p] = "out"
    BY <1>1, <2>3 DEF Moves, PlaceType, LocalType, UserType
  <2>8. PlaceType' /\ LocalType' /\ TreeType'
    BY <1>1, <1>2, <2>3 DEF PlaceType, LocalType, TreeType, Labels
  <2>9. HasRefs(p)' /\ Knows(p)'
    <3>1. Len(refs'[p]) = 0
      BY <1>2, <2>7, EmptySeq
    <3> QED BY <2>7, <3>1, After
  <2> QED BY <2>4, <2>5, <2>7, <2>8, <2>9, <2>6, Kept
<1> QED BY <1>3, <1>4, <1>5

\* Another working directory.
Moved(p, i, j) ==
    Cardinality(Dirs(j)') = Cardinality(Dirs(j)) - One(cdir[p] = j) + One(i = j)

LEMMA DirsChange ==
    ASSUME cdir \in [Procs -> Inos], NEW p \in Procs, NEW i \in Inos,
           cdir' = [cdir EXCEPT ![p] = i], NEW j
    PROVE  Moved(p, i, j)
<1>1. PICK rest : rest = Dirs(j) \ {p}
  OBVIOUS
<1>2. IsFiniteSet(rest) /\ Cardinality(rest) \in Nat /\ p \notin rest
  BY <1>1, DirsFinite, FS_Difference, FS_CardinalityType
<1>3. IsFiniteSet(rest \cup {p}) /\ Cardinality(rest \cup {p}) = Cardinality(rest) + 1
  BY <1>2, FS_AddElement
<1>4. Dirs(j) = IF cdir[p] = j THEN rest \cup {p} ELSE rest
  BY <1>1 DEF Dirs
<1>5. Dirs(j)' = IF i = j THEN rest \cup {p} ELSE rest
  BY <1>1 DEF Dirs
<1> QED BY <1>2, <1>3, <1>4, <1>5 DEF One, Moved

\* ChDir hands its reference over to u_cdir, and gives back the one it had.
LEMMA ChDirStep ==
    ASSUME DirInv, NEW p \in Procs, ChDir(p)
    PROVE  DirInv'
<1> USE DEF At, GoOn, Put, history
<1>1. NodeType /\ TreeType /\ UserType /\ PlaceType /\ LocalType /\ HasRefs(p) /\ Knows(p)
  BY DEF DirInv
<1>2. Len(refs[p]) = 1
  <2>1. pc[p] = "found" /\ call[p] = "chdir"
    BY DEF ChDir
  <2> QED BY <1>1, <2>1 DEF HasRefs, Extra
<1>3. PICK i \in Inos : i = Head(refs[p]) /\ \A j : Of(refs[p], j) = One(i = j)
  <2>1. Head(refs[p]) \in Inos /\ Head(refs[p]) = refs[p][1]
    BY <1>2, RefsAre
  <2>2. refs[p] \in Short
    BY RefsShort
  <2> QED BY <1>2, <2>1, <2>2, OfOnly
<1>4. PICK d \in Inos : d = cdir[p]
  BY <1>1 DEF UserType
<1>5. PICK s \in Short : s = <<d>> /\ Len(s) = 1 /\ s[1] = d
  <2>1. <<d>> \in Seq(Inos) /\ Len(<<d>>) = 1 /\ <<d>>[1] = d
    OBVIOUS
  <2>2. <<d>> \in Short
    BY <2>1 DEF Short
  <2> QED BY <2>1, <2>2
<1>6. /\ cdir' = [cdir EXCEPT ![p] = i] /\ refs' = [refs EXCEPT ![p] = s]
      /\ pc' = [pc EXCEPT ![p] = "iput"] /\ cpu' = p /\ back' = [back EXCEPT ![p] = "entered"]
      /\ UNCHANGED <<node, ent, free, files, kept, call, path, num>>
  BY <1>3, <1>4, <1>5 DEF ChDir
<1>7. Moves(p) /\ pc'[p] = "iput" /\ back'[p] = "entered" /\ refs'[p] = s
  BY <1>1, <1>6 DEF Moves, PlaceType, UserType
<1>8. NodeType' /\ TreeType'
  BY <1>1, <1>6, SameNodes
<1>9. PlaceType' /\ LocalType'
  BY <1>1, <1>6 DEF PlaceType, LocalType, Labels
<1>10. UserType'
  BY <1>1, <1>6 DEF UserType, Short
<1>11. HasRefs(p)' /\ Knows(p)'
  <2>1. Len(refs'[p]) = 1
    BY <1>5, <1>7
  <2> QED BY <1>7, <2>1 DEF HasRefs, Knows, Giving
<1>12. RefsExact'
  <2> SUFFICES ASSUME NEW j \in Inos
               PROVE  node'[j].count = files'[j] + kept'[j] + One(j = Root)
                          + Cardinality(Dirs(j)') + Cardinality(Uses(refs', j))
    BY RefsExactNext
  <2>1. PICK m \in Nat : /\ m = Cardinality(Dirs(j))
                         /\ Cardinality(Dirs(j)') = m - One(d = j) + One(i = j)
    <3>1. Cardinality(Dirs(j)) \in Nat
      BY DirsFinite
    <3>2. Moved(p, i, j)
      <4>1. cdir \in [Procs -> Inos] /\ cdir' = [cdir EXCEPT ![p] = i] /\ i \in Inos
        BY <1>1, <1>3, <1>6 DEF UserType
      <4> QED BY <4>1, DirsChange
    <3> QED BY <1>4, <3>1, <3>2 DEF Moved
  <2>2. PICK n \in Nat : /\ n = Cardinality(Uses(refs, j))
                         /\ Cardinality(Uses(refs', j)) = n - Of(refs[p], j) + Of(s, j)
    <3>1. s \in Short /\ refs' = [refs EXCEPT ![p] = s]
      BY <1>5, <1>6
    <3>2. /\ Cardinality(Uses(refs, j)) \in Nat
          /\ Cardinality(Uses(refs', j)) = Cardinality(Uses(refs, j)) - Of(refs[p], j) + Of(s, j)
      BY <3>1, UsesNext DEF Counted
    <3> QED BY <3>2
  <2>3. Of(refs[p], j) = One(i = j) /\ Of(s, j) = One(d = j)
    BY <1>3, <1>5, OfOnly
  <2>4. One(i = j) \in Nat /\ One(d = j) \in Nat /\ One(j = Root) \in Nat
    BY DEF One
  <2>5. node[j].count = files[j] + kept[j] + One(j = Root) + m + n
    BY <2>1, <2>2, RefsExactIs DEF DirInv
  <2>6. files[j] \in Nat /\ kept[j] \in Nat
    BY <1>1 DEF UserType
  <2>7. node'[j].count = node[j].count /\ files'[j] = files[j] /\ kept'[j] = kept[j]
    BY <1>6
  <2> QED BY <2>1, <2>2, <2>3, <2>4, <2>5, <2>6, <2>7
<1> QED BY <1>7, <1>8, <1>9, <1>10, <1>11, <1>12, Kept

-----------------------------------------------------------------------------
\* The invariant

LEMMA InitDirInv == Init => DirInv
<1> SUFFICES ASSUME Init
             PROVE  DirInv
  OBVIOUS
<1> USE DEF Init
<1>1. Cardinality(Procs) \in Nat /\ << >> \in Seq(Inos)
  BY DirectoriesAssumption, FS_CardinalityType, EmptySeq
<1>2. NodeType
  BY <1>1 DEF NodeType, Node
<1>3. TreeType
  <2>1. << >> \in Seq(Entry)
    BY EmptySeq
  <2> QED BY <2>1, DirectoriesAssumption DEF TreeType
<1>4. UserType
  BY <1>1, DirectoriesAssumption DEF UserType
<1>5. PlaceType /\ LocalType
  <2>1. << >> \in Seq(Names)
    BY EmptySeq
  <2> QED BY <2>1 DEF PlaceType, LocalType, Labels
<1>6. \A p \in Procs : HasRefs(p) /\ Knows(p)
  <2>1. Len(<< >>) = 0
    OBVIOUS
  <2> QED BY <2>1 DEF HasRefs, Knows, Giving
<1>7. RefsExact
  <2> SUFFICES ASSUME NEW i \in Inos
               PROVE  node[i].count = files[i] + kept[i] + One(i = Root) + Cardinality(Dirs(i))
                                      + Cardinality(Uses(refs, i))
    BY RefsExactIs
  <2>1. Uses(refs, i) = {}
    <3>1. \A p \in Procs : DOMAIN refs[p] = {}
      OBVIOUS
    <3> QED BY <3>1 DEF Uses
  <2>2. Dirs(i) = IF i = Root THEN Procs ELSE {}
    BY DEF Dirs
  <2>3. Cardinality({}) = 0
    BY FS_EmptySet
  <2>4. /\ node[i].count = IF i = Root THEN 1 + Cardinality(Procs) ELSE 0
        /\ files[i] = 0 /\ kept[i] = 0
    OBVIOUS
  <2>5. Cardinality(Uses(refs, i)) = 0
    BY <2>1, <2>3
  <2>6. Cardinality(Dirs(i)) = IF i = Root THEN Cardinality(Procs) ELSE 0
    BY <2>2, <2>3
  <2>7. One(i = Root) = IF i = Root THEN 1 ELSE 0
    BY DEF One
  <2> HIDE DEF Init
  <2> QED BY <1>1, <2>4, <2>5, <2>6, <2>7
<1> QED BY <1>2, <1>3, <1>4, <1>5, <1>6, <1>7 DEF DirInv

LEMMA StutterDirInv ==
    ASSUME DirInv, UNCHANGED vars
    PROVE  DirInv'
<1> USE DEF vars, locals, history
<1>1. NodeType' /\ TreeType'
  BY Types, SameNodes
<1>2. UserType' /\ PlaceType' /\ LocalType'
  BY Types DEF UserType, PlaceType, LocalType
<1>3. \A p \in Procs : HasRefs(p)' /\ Knows(p)'
  <2> TAKE p \in Procs
  <2>1. HasRefs(p) /\ Knows(p)
    BY DEF DirInv
  <2> QED BY <2>1 DEF HasRefs, Knows, Giving, Extra
<1>4. RefsExact'
  <2>1. \A i : Dirs(i)' = Dirs(i)
    BY DEF Dirs
  <2> QED BY <2>1, RefsExactIs, RefsExactNext DEF DirInv
<1> QED BY <1>1, <1>2, <1>3, <1>4 DEF DirInv

\* What holds in every state: the types, how many references a call has at each place of
\* its way, and that i_count counts them, with the files and the working directories.
THEOREM DirInvariance == Spec => []DirInv
<1>1. Init => DirInv
  BY InitDirInv
<1>2. DirInv /\ [Next]_vars => DirInv'
  <2> SUFFICES ASSUME DirInv, [Next]_vars
               PROVE  DirInv'
    OBVIOUS
  <2>1. ASSUME NEW p \in Procs, Step(p)
        PROVE  DirInv'
    BY <2>1, LeavesKeep, SearchesKeep, InodeStepsKeep, GetStepsKeep, IPutKeeps, HandsKeep,
       ChDirStep DEF Step
  <2>2. CASE UNCHANGED vars
    BY <2>2, StutterDirInv
  <2> QED BY <2>1, <2>2 DEF Next
<1> QED BY <1>1, <1>2, PTL DEF Spec

\* i_count is the number of files, working directories and calls that use the inode, and
\* of the directories MakNode has left behind (FileManager.cpp:756), on every way out of
\* NameI, Link, UnLink, ChDir and Open1, even when locks are cleared that were another's.
THEOREM RefsExactHolds == Spec => []RefsExact
<1>1. DirInv => RefsExact
  BY DEF DirInv
<1> QED BY <1>1, DirInvariance, PTL

-----------------------------------------------------------------------------
\* Who waits for whom

\* The inodes a call may have locked, at each place.
MayLock(p) ==
    CASE pc[p] \in {"user", "next", "linkto", "unlink"} -> {}
      [] pc[p] \in {"search", "error", "found"} \/ (Giving(p) /\ back[p] = "next") ->
             {refs[p][1]}
      [] pc[p] = "entered" \/ (Giving(p) /\ back[p] = "entered") ->
             Range(refs[p]) \cup {cdir[p]}
      [] OTHER -> Range(refs[p])

LocksKnown == \A i \in Inos, p \in Procs : node[i].lock = p => i \in MayLock(p)

\* Who has locked a free inode releases it, and does not sleep for another.
FreeQuiet == \A i \in free : /\ node[i].kind = "none"
                             /\ \A p \in Procs : node[i].lock = p => pc[p] # "asleep"

\* What a call that makes a name or gives up an inode has for itself.
Taken(p) ==
    /\ pc[p] = "ialloc" => refs[p][1] \notin free
    /\ pc[p] = "made" => refs[p][2] \notin free
    /\ pc[p] = "asleep" => num[p] \in Inos
    /\ pc[p] \in {"trunc", "release"} =>
          node[refs[p][1]].count = 1 /\ node[refs[p][1]].lock = p

NoCircle == \A Q \in SUBSET Procs : Q # {} => \E p \in Q : \A q \in Q : ~WaitsFor(p, q)

Orderly == LocksKnown /\ FreeQuiet /\ (\A p \in Procs : Taken(p)) /\ NoCircle

WaitInv == DirInv /\ (NoneKept => Orderly)

LEMMA PairIs ==
    ASSUME NEW x, NEW y, x # y
    PROVE  IsFiniteSet({x, y}) /\ Cardinality({x, y}) = 2
<1>1. IsFiniteSet({x}) /\ Cardinality({x}) = 1
  BY FS_Singleton
<1>2. {x, y} = {x} \cup {y}
  OBVIOUS
<1> QED BY <1>1, <1>2, FS_AddElement

\* An inode that two calls use is counted twice.
LEMMA UsedByTwo ==
    ASSUME DirInv, NEW p \in Procs, NEW q \in Procs, p # q, NEW i \in Inos,
           i \in Range(refs[p]), i \in Range(refs[q]) \cup {cdir[q]}
    PROVE  node[i].count >= 2
<1>1. PICK n \in Nat : node[i].count = n + Cardinality(Dirs(i)) + Cardinality(Uses(refs, i))
  <2>1. node[i].count = files[i] + kept[i] + One(i = Root) + Cardinality(Dirs(i))
                        + Cardinality(Uses(refs, i))
    BY RefsExactIs DEF DirInv
  <2>2. files[i] \in Nat /\ kept[i] \in Nat /\ One(i = Root) \in Nat
    BY Types DEF UserType, One
  <2> QED BY <2>1, <2>2
<1>2. /\ IsFiniteSet(Uses(refs, i)) /\ IsFiniteSet(Dirs(i))
      /\ Cardinality(Uses(refs, i)) \in Nat /\ Cardinality(Dirs(i)) \in Nat
  BY RefsShort, UsesAre, DirsFinite, FS_CardinalityType
<1>3. PICK k \in DOMAIN refs[p] : refs[p][k] = i
  BY DEF Range
<1>4. <<p, k>> \in Uses(refs, i)
  BY <1>3 DEF Uses
<1>5. CASE i \in Range(refs[q])
  <2>1. PICK l \in DOMAIN refs[q] : refs[q][l] = i
    BY <1>5 DEF Range
  <2>2. <<q, l>> \in Uses(refs, i)
    BY <2>1 DEF Uses
  <2>3. /\ {<<p, k>>, <<q, l>>} \in SUBSET Uses(refs, i)
        /\ Cardinality({<<p, k>>, <<q, l>>}) = 2
    BY <1>4, <2>2, PairIs
  <2>4. 2 <= Cardinality(Uses(refs, i))
    BY <1>2, <2>3, FS_Subset
  <2> QED BY <1>1, <1>2, <2>4
<1>6. CASE i = cdir[q]
  <2>1. q \in Dirs(i)
    BY <1>6 DEF Dirs
  <2>2. Cardinality(Dirs(i)) # 0 /\ Cardinality(Uses(refs, i)) # 0
    BY <1>2, <1>4, <2>1, FS_EmptySet
  <2> QED BY <1>1, <1>2, <2>2
<1> QED BY <1>5, <1>6

\* A step of p locks inodes for p only, unlocks only what p uses, and lets an inode become
\* free only when it has truncated it.
Gentle(p) ==
    /\ \A i \in Inos : /\ node'[i].lock \in {node[i].lock, NoProc, p}
                       /\ \/ node'[i].lock = node[i].lock /\ node'[i].count = node[i].count
                          \/ node[i].lock = NoProc
                          \/ i \in Range(refs[p]) \cup {cdir[p]}
    /\ \A i \in free' : i \in free \/ (pc[p] = "trunc" /\ i = refs[p][1])
    /\ \A q \in Procs \ {p} : cdir'[q] = cdir[q]

LEMMA MayLockStays ==
    ASSUME NEW q, pc'[q] = pc[q], back'[q] = back[q], refs'[q] = refs[q], cdir'[q] = cdir[q]
    PROVE  MayLock(q)' = MayLock(q)
BY DEF MayLock, Giving

\* Who falls asleep waits for nobody who sleeps, or nobody waits for it.
SleepsWell(p) == pc'[p] = "asleep" =>
    /\ num'[p] \in Inos
    /\ \A i \in Inos : node'[i].lock = node[i].lock
    /\ \A i \in free' : node[i].lock # p
    /\ \/ \A i \in Inos : node[i].lock # p
       \/ \A q \in Procs : node[num'[p]].lock = q => q # p /\ pc[q] # "asleep"

LEMMA CircleStep ==
    ASSUME DirInv, NoCircle, NEW p \in Procs, Moves(p), Gentle(p), pc[p] # "asleep",
           SleepsWell(p), \A q \in Procs : pc[q] = "asleep" => num[q] \in Inos
    PROVE  NoCircle'
<1> SUFFICES ASSUME NEW Q \in SUBSET Procs, Q # {}
             PROVE  \E r \in Q : \A q \in Q : ~WaitsFor(r, q)'
  BY DEF NoCircle
<1>1. ASSUME NEW r \in Procs \ {p}, NEW q \in Procs \ {p}, WaitsFor(r, q)'
      PROVE  WaitsFor(r, q)
  <2>1. pc[r] = "asleep" /\ num'[r] = num[r] /\ num[r] \in Inos
    BY <1>1 DEF Moves, WaitsFor
  <2>2. node'[num[r]].lock = q
    BY <1>1, <2>1 DEF WaitsFor
  <2>3. node'[num[r]].lock \in {node[num[r]].lock, NoProc, p}
    BY <2>1 DEF Gentle
  <2>4. q # NoProc /\ q # p
    BY DirectoriesAssumption
  <2> QED BY <2>1, <2>2, <2>3, <2>4 DEF WaitsFor
<1>2. CASE p \notin Q
  <2>1. PICK r \in Q : \A q \in Q : ~WaitsFor(r, q)
    BY DEF NoCircle
  <2> QED BY <1>1, <1>2, <2>1
<1>3. CASE p \in Q /\ pc'[p] # "asleep"
  <2>1. \A q \in Q : ~WaitsFor(p, q)'
    BY <1>3 DEF WaitsFor
  <2> QED BY <1>3, <2>1
<1>4. CASE p \in Q /\ pc'[p] = "asleep" /\ \A i \in Inos : node[i].lock # p
  <2>1. \A i \in Inos : node'[i].lock # p
    BY <1>4 DEF SleepsWell
  <2>2. \A r \in Procs : ~WaitsFor(r, p)'
    <3> TAKE r \in Procs
    <3>1. pc'[r] = "asleep" => num'[r] \in Inos
      BY <1>4 DEF SleepsWell, Moves
    <3> QED BY <2>1, <3>1 DEF WaitsFor
  <2>3. CASE Q = {p}
    BY <2>2, <2>3
  <2>4. CASE Q # {p}
    <3>1. Q \ {p} # {} /\ Q \ {p} \in SUBSET Procs
      BY <2>4
    <3>2. PICK r \in Q \ {p} : \A q \in Q \ {p} : ~WaitsFor(r, q)
      BY <3>1 DEF NoCircle
    <3> QED BY <1>1, <2>2, <3>2
  <2> QED BY <2>3, <2>4
<1>5. CASE /\ p \in Q /\ pc'[p] = "asleep"
           /\ \A q \in Procs : node[num'[p]].lock = q => q # p /\ pc[q] # "asleep"
  <2>1. num'[p] \in Inos /\ node'[num'[p]].lock = node[num'[p]].lock
    BY <1>5 DEF SleepsWell
  <2>2. CASE \E q \in Q : node[num'[p]].lock = q
    <3>1. PICK h \in Q : node[num'[p]].lock = h
      BY <2>2
    <3>2. h # p /\ pc[h] # "asleep"
      BY <1>5, <3>1
    <3>3. pc'[h] # "asleep"
      BY <3>2 DEF Moves
    <3> QED BY <3>3 DEF WaitsFor
  <2>3. CASE ~ \E q \in Q : node[num'[p]].lock = q
    <3>1. \A q \in Q : ~WaitsFor(p, q)'
      BY <2>1, <2>3 DEF WaitsFor
    <3> QED BY <1>5, <3>1
  <2> QED BY <2>2, <2>3
<1> QED BY <1>2, <1>3, <1>4, <1>5 DEF SleepsWell

\* A step of p that keeps the order: its locks are those it may have, nobody can wait for
\* it in a circle, and what it has for itself at its next place is so.
LEMMA WaitKept ==
    ASSUME DirInv, Orderly, NEW p \in Procs, Moves(p), Gentle(p), pc[p] # "asleep",
           SleepsWell(p), \A i \in free' : node'[i].kind = "none", Taken(p)',
           \A i \in Inos : node'[i].lock = p => i \in MayLock(p)'
    PROVE  Orderly'
<1>1. ASSUME NEW q \in Procs \ {p}
      PROVE  /\ pc'[q] = pc[q] /\ refs'[q] = refs[q] /\ num'[q] = num[q]
             /\ MayLock(q)' = MayLock(q)
  BY MayLockStays DEF Moves, Gentle
<1>2. \A q \in Procs : q # NoProc
  BY DirectoriesAssumption
<1>3. LocksKnown'
  <2> SUFFICES ASSUME NEW i \in Inos, NEW q \in Procs \ {p}, node'[i].lock = q
               PROVE  i \in MayLock(q)'
    BY DEF LocksKnown
  <2>1. node[i].lock = q
    BY <1>2 DEF Gentle
  <2> QED BY <1>1, <2>1 DEF Orderly, LocksKnown
<1>4. FreeQuiet'
  <2> SUFFICES ASSUME NEW i \in free', NEW q \in Procs, node'[i].lock = q, pc'[q] = "asleep"
               PROVE  FALSE
    BY DEF FreeQuiet
  <2>1. i \in Inos
    <3>1. i \in free \/ (pc[p] = "trunc" /\ i = refs[p][1])
      BY DEF Gentle
    <3>2. CASE i \in free
      BY <3>2, Types DEF TreeType
    <3>3. CASE pc[p] = "trunc" /\ i = refs[p][1]
      BY <3>3, RefsAre DEF DirInv, HasRefs, Giving
    <3> QED BY <3>1, <3>2, <3>3
  <2>2. CASE q = p
    BY <2>1, <2>2 DEF SleepsWell
  <2>3. CASE q # p
    <3>1. pc[q] = "asleep" /\ node[i].lock = q
      BY <1>1, <1>2, <2>1, <2>3 DEF Gentle
    <3>2. i \notin free
      BY <3>1 DEF Orderly, FreeQuiet
    <3>3. pc[p] = "trunc" /\ i = refs[p][1]
      BY <3>2 DEF Gentle
    <3> QED BY <2>3, <3>1, <3>3 DEF Orderly, Taken
  <2> QED BY <2>2, <2>3
<1>5. ASSUME NEW q \in Procs \ {p}
      PROVE  Taken(q)'
  <2>1. Taken(q) /\ HasRefs(q) /\ Taken(p) /\ HasRefs(p)
    BY DEF Orderly, DirInv
  <2>2. ASSUME NEW k \in {1, 2}, k <= Len(refs[q]), refs[q][k] \notin free
        PROVE  refs'[q][k] \notin free'
    <3> SUFFICES ASSUME refs[q][k] \in free'
                 PROVE  FALSE
      BY <1>1
    <3>1. pc[p] = "trunc" /\ refs[q][k] = refs[p][1] /\ node[refs[p][1]].count = 1
      BY <2>1, <2>2 DEF Gentle, Taken
    <3>2. /\ DOMAIN refs[q] = 1..Len(refs[q]) /\ DOMAIN refs[p] = 1..Len(refs[p])
          /\ Len(refs[q]) \in 0..2 /\ Len(refs[p]) \in 0..2 /\ Len(refs[p]) >= 1
          /\ refs[p][1] \in Inos
      BY <2>1, <3>1, RefsAre, LenProperties DEF HasRefs, Giving
    <3>3. refs[p][1] \in Range(refs[p]) /\ refs[p][1] \in Range(refs[q])
      BY <2>2, <3>1, <3>2 DEF Range
    <3>4. node[refs[p][1]].count >= 2
      BY <3>2, <3>3, UsedByTwo
    <3> QED BY <3>1, <3>4
  <2>3. pc[q] = "ialloc" => refs'[q][1] \notin free'
    BY <2>1, <2>2 DEF Taken, HasRefs
  <2>4. pc[q] = "made" => refs'[q][2] \notin free'
    BY <2>1, <2>2 DEF Taken, HasRefs
  <2>5. ASSUME pc[q] \in {"trunc", "release"}
        PROVE  node'[refs[q][1]].count = 1 /\ node'[refs[q][1]].lock = q
    <3>1. PICK i : i = refs[q][1]
      OBVIOUS
    <3>2. i \in Inos /\ i \in Range(refs[q]) /\ node[i].count = 1 /\ node[i].lock = q
      <4>1. /\ DOMAIN refs[q] = 1..Len(refs[q]) /\ Len(refs[q]) \in 0..2
            /\ Len(refs[q]) >= 1 /\ refs[q][1] \in Inos
        BY <2>1, <2>5, RefsAre, LenProperties DEF HasRefs, Giving
      <4> QED BY <2>1, <2>5, <3>1, <4>1 DEF Taken, Range
    <3>3. i \notin Range(refs[p]) \cup {cdir[p]}
      <4>1. ASSUME i \in Range(refs[p]) \cup {cdir[p]}
            PROVE  FALSE
        <5>1. node[i].count >= 2
          BY <3>2, <4>1, UsedByTwo
        <5> QED BY <3>2, <5>1
      <4> QED BY <4>1
    <3>4. node'[i].lock = node[i].lock /\ node'[i].count = node[i].count
      BY <1>2, <3>2, <3>3 DEF Gentle
    <3> QED BY <3>1, <3>2, <3>4
  <2>6. pc[q] = "asleep" => num'[q] \in Inos
    BY <1>1, <2>1 DEF Taken
  <2> QED BY <1>1, <2>3, <2>4, <2>5, <2>6 DEF Taken
<1>6. NoCircle'
  <2>1. \A q \in Procs : pc[q] = "asleep" => num[q] \in Inos
    BY DEF Orderly, Taken
  <2> QED BY <2>1, CircleStep DEF Orderly
<1> QED BY <1>3, <1>4, <1>5, <1>6 DEF Orderly

\* The inodes a call may have locked are its own.
LEMMA LocksOwn ==
    ASSUME DirInv, NEW p \in Procs
    PROVE  /\ MayLock(p) \subseteq Range(refs[p]) \cup {cdir[p]}
           /\ pc[p] # "entered" /\ ~(Giving(p) /\ back[p] = "entered") =>
                 MayLock(p) \subseteq Range(refs[p])
           /\ Len(refs[p]) >= 1 => refs[p][1] \in Range(refs[p])
           /\ Len(refs[p]) = 1 => Range(refs[p]) = {refs[p][1]}
           /\ Len(refs[p]) = 0 => Range(refs[p]) = {}
<1>1. DOMAIN refs[p] = 1..Len(refs[p]) /\ Len(refs[p]) \in 0..2
  BY RefsAre, LenProperties
<1>2. /\ Len(refs[p]) >= 1 => refs[p][1] \in Range(refs[p])
      /\ Len(refs[p]) = 1 => Range(refs[p]) = {refs[p][1]}
      /\ Len(refs[p]) = 0 => Range(refs[p]) = {}
  BY <1>1 DEF Range
<1>3. HasRefs(p)
  BY DEF DirInv
<1>4. pc[p] \in {"search", "error", "found"} \/ (Giving(p) /\ back[p] = "next") =>
         Len(refs[p]) >= 1
  BY <1>1, <1>3 DEF HasRefs, Extra
<1> QED BY <1>2, <1>4 DEF MayLock, Giving

\* A step that leaves locks, counts and the free inodes as they are.
LEMMA WaitSteady ==
    ASSUME DirInv, Orderly, NEW p \in Procs, Moves(p), pc[p] # "asleep", pc'[p] # "asleep",
           \A i \in Inos : node'[i].lock = node[i].lock /\ node'[i].count = node[i].count,
           free' = free, \A i \in free : node'[i].kind = node[i].kind,
           \A q \in Procs \ {p} : cdir'[q] = cdir[q],
           \A i \in MayLock(p) : i \in MayLock(p)', Taken(p)'
    PROVE  Orderly'
<1>1. Gentle(p) /\ SleepsWell(p)
  BY DEF Gentle, SleepsWell
<1>2. \A i \in free' : node'[i].kind = "none"
  BY DEF Orderly, FreeQuiet
<1>3. \A i \in Inos : node'[i].lock = p => i \in MayLock(p)'
  BY DEF Orderly, LocksKnown
<1> QED BY <1>1, <1>2, <1>3, WaitKept

\* A step that clears the lock of an inode of the call.
LEMMA WaitUnlock ==
    ASSUME DirInv, Orderly, NEW p \in Procs, Moves(p), pc[p] # "asleep", pc'[p] # "asleep",
           NEW i \in Range(refs[p]) \cup {cdir[p]}, node'[i].lock = NoProc,
           \A j \in Inos \ {i} : node'[j].lock = node[j].lock /\ node'[j].count = node[j].count,
           free' = free, \A j \in free : node'[j].kind = node[j].kind,
           UNCHANGED cdir, \A j \in MayLock(p) \ {i} : j \in MayLock(p)', Taken(p)'
    PROVE  Orderly'
<1>1. Gentle(p) /\ SleepsWell(p)
  BY DEF Gentle, SleepsWell
<1>2. \A j \in free' : node'[j].kind = "none"
  BY DEF Orderly, FreeQuiet
<1>3. \A j \in Inos : node'[j].lock = p => j \in MayLock(p)'
  BY DirectoriesAssumption DEF Orderly, LocksKnown
<1> QED BY <1>1, <1>2, <1>3, WaitKept

\* Which inodes it may have locked, by its place; and by the next one.
LEMMA LocksAre ==
    ASSUME NEW p \in Procs
    PROVE  /\ pc[p] \in {"user", "next", "linkto", "unlink"} => MayLock(p) = {}
           /\ pc[p] \in {"found", "search", "error"} => MayLock(p) = {refs[p][1]}
           /\ pc[p] \in {"asleep", "ialloc", "made", "writedir", "open1", "count", "clear?",
                         "clear"} => MayLock(p) = Range(refs[p])
           /\ pc[p] \in {"iput", "trunc", "release"} =>
                 /\ back[p] \in {"out", "open1", "count"} => MayLock(p) = Range(refs[p])
                 /\ back[p] = "next" => MayLock(p) = {refs[p][1]}
                 /\ back[p] = "entered" => MayLock(p) = Range(refs[p]) \cup {cdir[p]}
           /\ pc[p] = "entered" => MayLock(p) = Range(refs[p]) \cup {cdir[p]}
  BY DEF MayLock, Giving

LEMMA LocksNext ==
    ASSUME NEW p \in Procs
    PROVE  /\ pc'[p] \in {"user", "next", "linkto", "unlink"} => MayLock(p)' = {}
           /\ pc'[p] \in {"found", "search", "error"} => MayLock(p)' = {refs'[p][1]}
           /\ pc'[p] \in {"asleep", "ialloc", "made", "writedir", "open1", "count", "clear?",
                          "clear"} => MayLock(p)' = Range(refs'[p])
           /\ pc'[p] \in {"iput", "trunc", "release"} =>
                 /\ back'[p] \in {"out", "open1", "count"} => MayLock(p)' = Range(refs'[p])
                 /\ back'[p] = "next" => MayLock(p)' = {refs'[p][1]}
                 /\ back'[p] = "entered" => MayLock(p)' = Range(refs'[p]) \cup {cdir'[p]}
           /\ pc'[p] = "entered" => MayLock(p)' = Range(refs'[p]) \cup {cdir'[p]}
  BY DEF MayLock, Giving

\* A step of p that leaves locks, counts, free inodes and directories as they are.
Quiet(p) ==
    /\ Moves(p) /\ free' = free /\ cdir' = cdir
    /\ \A i \in Inos : node'[i].lock = node[i].lock /\ node'[i].count = node[i].count
    /\ \A i \in free : node'[i].kind = node[i].kind

LEMMA WaitLeave ==
    ASSUME DirInv, Orderly, NEW p \in Procs, Quiet(p), refs'[p] = refs[p],
           pc[p] \in {"search", "error", "found", "clear?", "clear", "count"},
           pc'[p] = "iput", back'[p] = "out"
    PROVE  Orderly'
<1>1. MayLock(p) \subseteq Range(refs[p]) /\ MayLock(p)' = Range(refs[p])
  BY LocksOwn, LocksNext DEF Giving
<1>2. Taken(p)'
  BY DEF Taken
<1> QED BY <1>1, <1>2, WaitSteady DEF Quiet

\* The steps that end a call.
LEMMA WaitLeaves ==
    ASSUME DirInv, Orderly, NEW p \in Procs,
           \/ Denied(p) \/ NotFound(p) \/ Error(p) \/ Refused(p) \/ Linked(p)
           \/ UnLinkDenied(p) \/ Unlinked(p) \/ UnlinkFails(p)
    PROVE  Orderly'
<1> USE DEF At, GoOn, Put, Leave, Forget, history
<1>1. NodeType /\ UserType /\ PlaceType /\ LocalType /\ HasRefs(p)
  BY DEF DirInv
<1>2. CASE Denied(p) \/ NotFound(p) \/ Error(p) \/ Refused(p) \/ UnLinkDenied(p)
  <2>1. UNCHANGED <<node, free, cdir, refs>> /\ Leave(p)
    BY <1>2 DEF Denied, NotFound, Error, Refused, UnLinkDenied
  <2>2. pc[p] \in {"search", "error", "found", "clear?"}
    BY <1>2 DEF Denied, NotFound, Error, Refused, UnLinkDenied, Looks
  <2>3. Quiet(p) /\ refs'[p] = refs[p] /\ pc'[p] = "iput" /\ back'[p] = "out"
    BY <1>1, <2>1 DEF Quiet, Moves, PlaceType
  <2> QED BY <2>2, <2>3, WaitLeave
<1>3. CASE Linked(p) \/ Unlinked(p) \/ UnlinkFails(p)
  <2>1. UNCHANGED <<free, cdir, refs>> /\ Leave(p) /\ pc[p] \in {"count", "clear"}
    BY <1>3 DEF Linked, Unlinked, UnlinkFails
  <2>2. PICK i, n : node' = [node EXCEPT ![i].nlink = n]
    BY <1>3 DEF Linked, Unlinked, UnlinkFails
  <2>3. \A j \in Inos : /\ node'[j].lock = node[j].lock /\ node'[j].count = node[j].count
                        /\ node'[j].kind = node[j].kind
    BY <1>1, <2>2 DEF NodeType, Node
  <2>4. /\ Moves(p) /\ refs'[p] = refs[p] /\ pc'[p] = "iput" /\ back'[p] = "out"
    BY <1>1, <2>1 DEF Moves, PlaceType
  <2>5. Quiet(p)
    BY <2>1, <2>3, <2>4, Types DEF Quiet, TreeType
  <2> QED BY <2>1, <2>4, <2>5, WaitLeave
<1> QED BY <1>2, <1>3

\* The other steps that leave the locks as they are.
LEMMA WaitSteps ==
    ASSUME DirInv, Orderly, NEW p \in Procs,
           \/ Arrived(p) \/ Descend(p) \/ NextFails(p) \/ ToCreate(p) \/ Empties(p)
           \/ Close(p) \/ Clear(p) \/ WriteDir(p) \/ WriteDirFails(p)
    PROVE  Orderly'
<1> USE DEF At, GoOn, SleepAt, UserMode, Put, Leave, Forget, history, locals
<1>1. NodeType /\ UserType /\ PlaceType /\ LocalType /\ HasRefs(p) /\ Knows(p)
  BY DEF DirInv
<1>2. CASE Arrived(p) \/ Empties(p) \/ Clear(p)
  <2>1. UNCHANGED <<node, free, cdir, refs, call, path, num, back>>
    BY <1>2 DEF Arrived, Empties, Clear
  <2>2. \/ pc[p] = "search" /\ pc' = [pc EXCEPT ![p] = "found"]
        \/ pc[p] = "found" /\ pc' = [pc EXCEPT ![p] = "open1"]
        \/ pc[p] = "clear?" /\ pc' = [pc EXCEPT ![p] = "clear"]
    BY <1>2 DEF Arrived, Empties, Clear
  <2>3. /\ Moves(p) /\ refs'[p] = refs[p]
        /\ \/ pc[p] = "search" /\ pc'[p] = "found"
           \/ pc[p] = "found" /\ pc'[p] = "open1"
           \/ pc[p] = "clear?" /\ pc'[p] = "clear"
    BY <1>1, <2>1, <2>2 DEF Moves, PlaceType
  <2>4. \A i \in MayLock(p) : i \in MayLock(p)'
    <3>1. CASE pc[p] = "search" /\ pc'[p] = "found"
      <4>1. MayLock(p) = {refs[p][1]}
        BY <3>1, LocksAre
      <4> QED BY <2>3, <3>1, <4>1, LocksNext
    <3>2. CASE pc'[p] \in {"open1", "clear"}
      <4>1. MayLock(p) \subseteq Range(refs[p])
        BY <2>3, <3>2, LocksOwn DEF Giving
      <4> QED BY <2>3, <3>2, <4>1, LocksNext
    <3> QED BY <2>3, <3>1, <3>2
  <2>5. Taken(p)'
    BY <2>3 DEF Taken
  <2> QED BY <2>1, <2>3, <2>4, <2>5, WaitSteady
<1>3. CASE Descend(p)
  <2>1. PICK n : num' = [num EXCEPT ![p] = n]
    BY <1>3 DEF Descend
  <2>2. /\ UNCHANGED <<node, free, cdir, refs>> /\ Moves(p) /\ refs'[p] = refs[p]
        /\ pc[p] = "search" /\ pc'[p] = "iput" /\ back'[p] = "next"
    BY <1>1, <1>3, <2>1 DEF Moves, PlaceType, LocalType, Descend, Looks
  <2>3. MayLock(p) = {refs[p][1]}
    BY <2>2, LocksAre
  <2>4. MayLock(p)' = {refs[p][1]}
    BY <2>2, LocksNext
  <2>5. Taken(p)'
    BY <2>2 DEF Taken
  <2> QED BY <2>2, <2>3, <2>4, <2>5, WaitSteady
<1>4. CASE NextFails(p) \/ Close(p)
  <2>1. /\ \E l \in {"user", "iput"} : pc' = [pc EXCEPT ![p] = l]
        /\ \E s : refs' = [refs EXCEPT ![p] = s]
    <3>1. CASE NextFails(p)
      <4>1. refs' = [refs EXCEPT ![p] = refs[p]]
        BY <1>1, <3>1 DEF NextFails, UserType
      <4> QED BY <3>1, <4>1 DEF NextFails
    <3>2. CASE Close(p)
      BY <3>2 DEF Close
    <3> QED BY <1>4, <3>1, <3>2
  <2>2. /\ UNCHANGED <<node, free, cdir>> /\ pc[p] \in {"next", "user"}
        /\ Forget(p)
    BY <1>4 DEF NextFails, Close
  <2>3. Moves(p) /\ pc'[p] \in {"user", "iput"}
    BY <1>1, <2>1, <2>2 DEF Moves, PlaceType
  <2>4. MayLock(p) = {}
    BY <2>2, LocksAre
  <2>5. Taken(p)'
    BY <2>1, <2>3 DEF Taken
  <2> QED BY <2>1, <2>2, <2>3, <2>4, <2>5, WaitSteady
<1>5. CASE ToCreate(p)
  <2>1. PICK l \in {"writedir", "ialloc"} : pc' = [pc EXCEPT ![p] = l]
    BY <1>5 DEF ToCreate
  <2>2. /\ UNCHANGED <<node, free, cdir, refs, call, path, num, back>> /\ pc[p] = "search"
    BY <1>5 DEF ToCreate, Looks
  <2>3. Moves(p) /\ pc'[p] = l /\ refs'[p] = refs[p]
    BY <1>1, <2>1, <2>2 DEF Moves, PlaceType
  <2>4. \A i \in MayLock(p) : i \in MayLock(p)'
    <3>1. MayLock(p) \subseteq Range(refs[p])
      BY <2>2, LocksOwn DEF Giving
    <3> QED BY <2>1, <2>3, <3>1, LocksNext
  <2>5. refs[p][1] \notin free
    <3>1. Len(refs[p]) >= 1
      BY <1>1, <2>2, RefsAre DEF HasRefs, Extra
    <3>2. node[refs[p][1]].kind = "dir"
      BY <1>5, <3>1, RefsAre DEF ToCreate, Looks
    <3> QED BY <3>2 DEF Orderly, FreeQuiet
  <2>6. Taken(p)'
    BY <2>1, <2>2, <2>3, <2>5 DEF Taken
  <2> QED BY <2>1, <2>2, <2>3, <2>4, <2>6, WaitSteady
<1>6. CASE WriteDir(p) \/ WriteDirFails(p)
  <2>1. PICK b \in {"open1", "out", "count"} : back' = [back EXCEPT ![p] = b]
    <3>1. call[p] \in {"creat", "mknod", "linkto"}
      BY <1>1, <1>6 DEF Knows, WriteDir, WriteDirFails
    <3>2. CASE WriteDir(p)
      <4>1. back' = [back EXCEPT ![p] = AfterWriteDir[call[p]]]
        BY <3>2 DEF WriteDir
      <4>2. AfterWriteDir[call[p]] \in {"open1", "out", "count"}
        BY <3>1 DEF AfterWriteDir
      <4> QED BY <4>1, <4>2
    <3>3. CASE WriteDirFails(p)
      BY <3>3 DEF WriteDirFails
    <3> QED BY <1>6, <3>2, <3>3
  <2>2. /\ Moves(p) /\ UNCHANGED <<node, free, cdir, refs>>
        /\ pc[p] = "writedir" /\ pc'[p] = "iput" /\ back'[p] = b
    BY <1>1, <1>6, <2>1 DEF PlaceType, LocalType, Moves, WriteDir, WriteDirFails
  <2>3. \A i \in MayLock(p) : i \in MayLock(p)'
    <3>1. MayLock(p) \subseteq Range(refs[p])
      BY <2>2, LocksOwn DEF Giving
    <3> QED BY <2>1, <2>2, <3>1, LocksNext
  <2>4. Taken(p)'
    BY <2>2 DEF Taken
  <2> QED BY <2>2, <2>3, <2>4, WaitSteady
<1> QED BY <1>2, <1>3, <1>4, <1>5, <1>6

\* MakNode fills in an inode that is no longer free; ChDir hands its directory over.
LEMMA WaitMakes ==
    ASSUME DirInv, Orderly, NEW p \in Procs, MakNode(p) \/ ChDir(p)
    PROVE  Orderly'
<1> USE DEF At, GoOn, SleepAt, Put, history, locals
<1>1. NodeType /\ UserType /\ PlaceType /\ LocalType /\ HasRefs(p) /\ Knows(p) /\ TreeType
  BY DEF DirInv
<1>2. CASE MakNode(p)
  <2>1. /\ Moves(p) /\ UNCHANGED <<free, cdir>> /\ refs'[p] = refs[p]
        /\ pc[p] = "made" /\ pc'[p] = "writedir"
    BY <1>1, <1>2 DEF Moves, PlaceType, MakNode
  <2>2. PICK i : i = refs[p][2]
    OBVIOUS
  <2>3. i \notin free
    BY <2>1, <2>2 DEF Orderly, Taken
  <2>4. PICK k \in {"file", "dir"} : node' = [node EXCEPT ![i].kind = k, ![i].nlink = 1]
    BY <1>2, <2>2 DEF MakNode
  <2>5. /\ \A j \in Inos : node'[j].lock = node[j].lock /\ node'[j].count = node[j].count
        /\ \A j \in Inos \ {i} : node'[j].kind = node[j].kind
    BY <1>1, <2>4 DEF NodeType, Node
  <2>6. \A j \in free : node'[j].kind = node[j].kind
    BY <1>1, <2>3, <2>5 DEF TreeType
  <2>7. MayLock(p) = Range(refs[p]) /\ MayLock(p)' = Range(refs[p])
    BY <2>1, LocksAre, LocksNext
  <2>8. Taken(p)'
    BY <2>1 DEF Taken
  <2> QED BY <2>1, <2>5, <2>6, <2>7, <2>8, WaitSteady
<1>3. CASE ChDir(p)
  <2>1. PICK d, s : d = Head(refs[p]) /\ s = <<cdir[p]>>
    OBVIOUS
  <2>2. /\ cdir' = [cdir EXCEPT ![p] = d] /\ refs' = [refs EXCEPT ![p] = s]
        /\ pc' = [pc EXCEPT ![p] = "iput"] /\ back' = [back EXCEPT ![p] = "entered"]
        /\ UNCHANGED <<node, free, call, path, num>> /\ pc[p] = "found" /\ call[p] = "chdir"
    BY <1>3, <2>1 DEF ChDir
  <2>3. /\ Moves(p) /\ cdir'[p] = d /\ pc'[p] = "iput" /\ back'[p] = "entered"
        /\ \A q \in Procs \ {p} : cdir'[q] = cdir[q]
    BY <1>1, <2>2 DEF Moves, PlaceType, UserType
  <2>4. d = refs[p][1]
    BY <1>1, <2>1, <2>2, RefsAre DEF HasRefs, Extra
  <2>5. MayLock(p) = {d} /\ MayLock(p)' = Range(refs'[p]) \cup {d}
    BY <2>2, <2>3, <2>4, LocksAre, LocksNext
  <2>6. Taken(p)'
    BY <2>3 DEF Taken
  <2> QED BY <2>2, <2>3, <2>5, <2>6, WaitSteady
<1> QED BY <1>2, <1>3

\* The steps that unlock an inode and keep it, or hand it over.
LEMMA WaitUnlocks ==
    ASSUME DirInv, Orderly, NEW p \in Procs,
           ToDelete(p) \/ Open1(p) \/ Open1Full(p) \/ Entered(p) \/ Link(p)
    PROVE  Orderly'
<1> USE DEF At, GoOn, SleepAt, UserMode, Put, Leave, Forget, history
<1>1. NodeType /\ UserType /\ PlaceType /\ LocalType /\ HasRefs(p) /\ Knows(p) /\ TreeType
  BY DEF DirInv
<1>2. ASSUME NEW i \in Inos, node' = [node EXCEPT ![i].lock = NoProc]
      PROVE  /\ node'[i].lock = NoProc
             /\ \A j \in Inos \ {i} : node'[j].lock = node[j].lock /\ node'[j].count = node[j].count
             /\ \A j \in free : node'[j].kind = node[j].kind
  BY <1>1, <1>2 DEF NodeType, Node, TreeType
<1>3. CASE Entered(p)
  <2>1. /\ node' = [node EXCEPT ![cdir[p]].lock = NoProc] /\ UNCHANGED <<free, cdir, refs>>
        /\ pc[p] = "entered" /\ UserMode(p)
    BY <1>3 DEF Entered
  <2>2. Moves(p) /\ pc'[p] = "user"
    BY <1>1, <2>1 DEF Moves, PlaceType
  <2>3. PICK i \in Inos : i = cdir[p]
    BY <1>1 DEF UserType
  <2>4. MayLock(p) = {i}
    <3>1. Len(refs[p]) = 0
      BY <1>1, <2>1 DEF HasRefs
    <3> QED BY <2>1, <2>3, <3>1, LocksAre, LocksOwn
  <2>5. Taken(p)'
    BY <2>2 DEF Taken
  <2>6. /\ node'[i].lock = NoProc
        /\ \A j \in Inos \ {i} : node'[j].lock = node[j].lock /\ node'[j].count = node[j].count
        /\ \A j \in free : node'[j].kind = node[j].kind
    BY <1>2, <2>1, <2>3
  <2>7. i \in Range(refs[p]) \cup {cdir[p]}
    BY <2>3
  <2> QED BY <2>1, <2>2, <2>4, <2>5, <2>6, <2>7, WaitUnlock
<1>4. CASE ToDelete(p) \/ Open1(p) \/ Open1Full(p) \/ Link(p)
  <2>1. pc[p] \in {"search", "found", "open1"}
    BY <1>4 DEF ToDelete, Looks, Open1, Open1Full, Opens, Link
  <2>2. Len(refs[p]) >= 1 /\ (pc[p] = "open1" => Len(refs[p]) = 1)
    <3>1. CASE pc[p] \in {"search", "found"}
      BY <1>1, <3>1, RefsAre DEF HasRefs, Extra
    <3>2. pc[p] = "open1" => Len(refs[p]) = 1
      <4>1. HasRefs(p)
        BY <1>1
      <4> QED BY ONLY <4>1 DEF HasRefs
    <3> QED BY <2>1, <3>1, <3>2
  <2>3. PICK i \in Inos : i = Head(refs[p]) /\ i = refs[p][1] /\ i \in Range(refs[p])
    BY <2>2, RefsAre, LocksOwn
  <2>4. MayLock(p) = {i}
    BY <2>1, <2>2, <2>3, LocksAre, LocksOwn
  <2>5. node' = [node EXCEPT ![i].lock = NoProc] /\ UNCHANGED <<free, cdir>>
    BY <1>4, <2>3 DEF ToDelete, Open1, Open1Full, Link
  <2>6. Moves(p) /\ pc'[p] \in {"unlink", "user", "iput", "linkto"}
    <3>1. CASE ToDelete(p)
      <4>1. PICK n : num' = [num EXCEPT ![p] = n]
        BY <3>1 DEF ToDelete
      <4>2. pc' = [pc EXCEPT ![p] = "unlink"] /\ UNCHANGED <<call, path, back, refs>>
        BY <3>1 DEF ToDelete
      <4> QED BY <1>1, <4>1, <4>2 DEF Moves, PlaceType
    <3>2. CASE Open1(p)
      <4>1. refs' = [refs EXCEPT ![p] = << >>] /\ UserMode(p)
        BY <3>2 DEF Open1
      <4> QED BY <1>1, <4>1 DEF Moves, PlaceType
    <3>3. CASE Open1Full(p)
      <4>1. refs' = refs /\ Leave(p)
        BY <3>3 DEF Open1Full
      <4> QED BY <1>1, <4>1 DEF Moves, PlaceType
    <3>4. CASE Link(p)
      <4>1. PICK way : path' = [path EXCEPT ![p] = way]
        BY <3>4 DEF Link
      <4>2. /\ pc' = [pc EXCEPT ![p] = "linkto"] /\ call' = [call EXCEPT ![p] = "linkto"]
            /\ UNCHANGED <<num, back, refs>>
        BY <3>4 DEF Link
      <4> QED BY <1>1, <4>1, <4>2 DEF Moves, PlaceType
    <3> QED BY <1>4, <3>1, <3>2, <3>3, <3>4
  <2>7. Taken(p)'
    BY <2>6 DEF Taken
  <2>8. /\ node'[i].lock = NoProc
        /\ \A j \in Inos \ {i} : node'[j].lock = node[j].lock /\ node'[j].count = node[j].count
        /\ \A j \in free : node'[j].kind = node[j].kind
    BY <1>2, <2>5
  <2>9. i \in Range(refs[p]) \cup {cdir[p]}
    BY <2>3
  <2> QED BY <2>1, <2>4, <2>5, <2>6, <2>7, <2>8, <2>9, WaitUnlock
<1> QED BY <1>3, <1>4

\* IPut gives the first reference back.
LEMMA WaitGives ==
    ASSUME DirInv, Orderly, NEW p \in Procs, IPutShared(p) \/ Release(p)
    PROVE  Orderly'
<1> USE DEF Put
<1>1. NodeType /\ UserType /\ PlaceType /\ LocalType /\ HasRefs(p) /\ Knows(p) /\ TreeType
  BY DEF DirInv
<1>2. pc[p] \in {"iput", "release"}
  BY DEF IPutShared, Release, At
<1>3. Len(refs[p]) >= 1
  BY <1>1, <1>2, RefsAre DEF HasRefs, Giving
<1>4. PICK i \in Inos : i = Head(refs[p]) /\ i = refs[p][1] /\ i \in Range(refs[p])
  BY <1>3, RefsAre, LocksOwn
<1>5. PICK left : left = Tail(refs[p])
  OBVIOUS
<1>6. /\ node' = [node EXCEPT ![i].count = @ - 1, ![i].lock = NoProc]
      /\ refs' = [refs EXCEPT ![p] = left] /\ Return(p, left)
      /\ UNCHANGED <<free, cdir>>
  BY <1>4, <1>5 DEF IPutShared, Release
<1>7. PICK l : /\ pc' = [pc EXCEPT ![p] = l] /\ back' = [back EXCEPT ![p] = "out"]
               /\ \/ l = "user" /\ back[p] = "out" /\ left = << >> /\ Forget(p)
                  \/ /\ l = "iput" /\ back[p] = "out" /\ left # << >>
                     /\ UNCHANGED <<call, path, num>>
                  \/ /\ l = back[p] /\ back[p] # "out" /\ UNCHANGED <<call, path, num>>
  <2> USE DEF GoOn, SleepAt
  <2>1. CASE back[p] = "out" /\ left = << >>
    BY <1>6, <2>1 DEF Return, UserMode, Forget
  <2>2. CASE back[p] = "out" /\ left # << >>
    <3>1. GoOn(p, "iput") /\ UNCHANGED locals
      BY <1>6, <2>2 DEF Return
    <3>2. back = [back EXCEPT ![p] = "out"]
      BY <1>1, <2>2 DEF PlaceType
    <3> QED BY <2>2, <3>1, <3>2 DEF locals
  <2>3. CASE back[p] # "out"
    BY <1>6, <2>3 DEF Return
  <2> QED BY <2>1, <2>2, <2>3
<1>8. /\ Moves(p) /\ pc'[p] = l /\ back'[p] = "out" /\ refs'[p] = left
      /\ l \in {"user", "iput", "next", "open1", "count", "entered"}
  <2>1. CASE UNCHANGED <<call, path, num>>
    BY <1>1, <1>6, <1>7, <2>1 DEF Moves, PlaceType, UserType
  <2>2. CASE Forget(p)
    BY <1>1, <1>6, <1>7, <2>2 DEF Moves, PlaceType, UserType, Forget
  <2> QED BY <1>7, <2>1, <2>2
<1>9. Range(refs[p]) \ {i} \subseteq Range(left) /\ (left = << >> => Range(refs[p]) = {i})
  <2>1. PICK s \in Seq(Inos) : s = refs[p] /\ Len(s) \in {1, 2} /\ s # << >>
    BY <1>3, RefsAre
  <2>2. CASE Len(s) = 1
    <3>1. Range(refs[p]) = {i}
      BY <1>4, <2>1, <2>2, LocksOwn
    <3> QED BY <3>1
  <2>3. CASE Len(s) = 2
    <3>1. left \in Seq(Inos) /\ Len(left) = 1 /\ left[1] = s[2]
      BY <1>5, <2>1, <2>3, HeadTailProperties
    <3>2. DOMAIN left = 1..1 /\ DOMAIN s = 1..2
      BY <2>3, <3>1, LenProperties
    <3>3. Range(left) = {s[2]} /\ Range(s) = {s[1], s[2]}
      BY <3>1, <3>2 DEF Range
    <3>4. left # << >>
      <4>1. Len(left) # 0
        BY <3>1
      <4> QED BY <4>1, EmptySeq, Zenon
    <3> QED BY <1>4, <2>1, <3>3, <3>4
  <2> QED BY <2>1, <2>2, <2>3
<1>10. \A j \in MayLock(p) \ {i} : j \in MayLock(p)'
  <2>1. CASE back[p] = "out"
    <3>1. MayLock(p) = Range(refs[p])
      BY <1>2, <2>1, LocksAre
    <3>2. (l = "user" /\ left = << >>) \/ l = "iput"
      BY <1>7, <2>1
    <3>3. l = "iput" => MayLock(p)' = Range(left)
      BY <1>8, LocksNext
    <3> QED BY <1>9, <3>1, <3>2, <3>3
  <2>2. CASE back[p] = "next"
    <3>1. MayLock(p) = {i}
      BY <1>2, <1>4, <2>2, LocksAre
    <3> QED BY <3>1
  <2>3. CASE back[p] \in {"open1", "count"}
    <3>1. MayLock(p) = Range(refs[p])
      BY <1>2, <2>3, LocksAre
    <3>2. MayLock(p)' = Range(left)
      BY <1>7, <1>8, <2>3, LocksNext
    <3> QED BY <1>9, <3>1, <3>2
  <2>4. CASE back[p] = "entered"
    <3>1. MayLock(p) = Range(refs[p]) \cup {cdir[p]}
      BY <1>2, <2>4, LocksAre
    <3>2. MayLock(p)' = Range(left) \cup {cdir'[p]} /\ cdir' = cdir
      BY <1>6, <1>7, <1>8, <2>4, LocksNext
    <3> QED BY <1>9, <3>1, <3>2
  <2> QED BY <1>1, <2>1, <2>2, <2>3, <2>4 DEF PlaceType
<1>11. Taken(p)'
  BY <1>8 DEF Taken
<1>12. /\ node'[i].lock = NoProc
       /\ \A j \in Inos \ {i} : node'[j].lock = node[j].lock /\ node'[j].count = node[j].count
       /\ \A j \in free : node'[j].kind = node[j].kind
  BY <1>1, <1>6 DEF NodeType, Node, TreeType
<1>13. pc[p] # "asleep" /\ pc'[p] # "asleep"
  BY <1>2, <1>8
<1> QED BY <1>4, <1>6, <1>8, <1>10, <1>11, <1>12, <1>13, WaitUnlock

\* The last reference: the inode is locked by the call until it is released.
LEMMA WaitLast ==
    ASSUME DirInv, Orderly, NEW p \in Procs, IPutLast(p) \/ Truncated(p)
    PROVE  Orderly'
<1> USE DEF At, SleepAt, Put, history, locals
<1>1. NodeType /\ UserType /\ PlaceType /\ LocalType /\ HasRefs(p) /\ Knows(p) /\ TreeType
  BY DEF DirInv
<1>2. pc[p] \in {"iput", "trunc"} /\ UNCHANGED <<refs, cdir, back, call, path, num>>
  BY DEF IPutLast, Truncated
<1>3. Len(refs[p]) >= 1
  BY <1>1, <1>2, RefsAre DEF HasRefs, Giving
<1>4. PICK i \in Inos : i = Head(refs[p]) /\ i = refs[p][1] /\ i \in Range(refs[p])
  BY <1>3, RefsAre, LocksOwn
<1>5. PICK l \in {"trunc", "release"} : pc' = [pc EXCEPT ![p] = l]
  BY DEF IPutLast, Truncated
<1>6. /\ Moves(p) /\ pc'[p] = l /\ back'[p] = back[p] /\ refs'[p] = refs[p]
      /\ pc'[p] # "asleep"
  BY <1>1, <1>2, <1>5 DEF Moves, PlaceType
<1>7. SleepsWell(p)
  BY <1>6 DEF SleepsWell
<1>8. back[p] \in {"out", "next", "open1", "count", "entered"}
  BY <1>1 DEF PlaceType
<1>9. MayLock(p)' = MayLock(p) /\ i \in MayLock(p)
  <2>1. CASE back[p] \in {"out", "open1", "count"}
    BY <1>2, <1>4, <1>6, <2>1, LocksAre, LocksNext
  <2>2. CASE back[p] = "next"
    BY <1>2, <1>4, <1>6, <2>2, LocksAre, LocksNext
  <2>3. CASE back[p] = "entered"
    <3>1. MayLock(p) = Range(refs[p]) \cup {cdir[p]}
      BY <1>2, <2>3, LocksAre
    <3>2. MayLock(p)' = Range(refs'[p]) \cup {cdir'[p]}
      BY <1>6, <2>3, LocksNext
    <3> QED BY <1>2, <1>4, <1>6, <3>1, <3>2
  <2> QED BY <1>8, <2>1, <2>2, <2>3
<1>10. CASE IPutLast(p)
  <2>1. node' = [node EXCEPT ![i].lock = p] /\ free' = free /\ node[i].count = 1
    BY <1>4, <1>10 DEF IPutLast
  <2>2. /\ node'[i].lock = p /\ node'[i].count = 1
        /\ \A j \in Inos : node'[j].count = node[j].count /\ node'[j].kind = node[j].kind
        /\ \A j \in Inos \ {i} : node'[j].lock = node[j].lock
    BY <1>1, <2>1 DEF NodeType, Node
  <2>3. Gentle(p)
    BY <1>2, <1>4, <2>1, <2>2 DEF Gentle
  <2>4. Taken(p)'
    BY <1>4, <1>6, <2>2 DEF Taken
  <2>5. \A j \in free' : node'[j].kind = "none"
    BY <1>1, <2>1, <2>2 DEF Orderly, FreeQuiet, TreeType
  <2>6. \A j \in Inos : node'[j].lock = p => j \in MayLock(p)'
    BY <1>9, <2>2 DEF Orderly, LocksKnown
  <2> QED BY <1>2, <1>6, <1>7, <2>3, <2>4, <2>5, <2>6, WaitKept
<1>11. CASE Truncated(p)
  <2>1. node' = [node EXCEPT ![i].kind = "none"] /\ free' = free \cup {i} /\ pc[p] = "trunc"
    BY <1>4, <1>11 DEF Truncated
  <2>2. /\ node'[i].kind = "none"
        /\ \A j \in Inos : node'[j].count = node[j].count /\ node'[j].lock = node[j].lock
        /\ \A j \in Inos \ {i} : node'[j].kind = node[j].kind
    BY <1>1, <2>1 DEF NodeType, Node
  <2>3. Gentle(p)
    BY <1>2, <1>4, <2>1, <2>2 DEF Gentle
  <2>4. node[i].count = 1 /\ node[i].lock = p
    BY <1>4, <2>1 DEF Orderly, Taken
  <2>5. Taken(p)'
    BY <1>4, <1>6, <2>2, <2>4 DEF Taken
  <2>6. \A j \in free' : node'[j].kind = "none"
    BY <1>1, <2>1, <2>2 DEF Orderly, FreeQuiet, TreeType
  <2>7. \A j \in Inos : node'[j].lock = p => j \in MayLock(p)'
    BY <1>9, <2>2 DEF Orderly, LocksKnown
  <2> QED BY <1>2, <1>6, <1>7, <2>3, <2>5, <2>6, <2>7, WaitKept
<1> QED BY <1>10, <1>11

\* IGet without a lock, and IAlloc's, with the directory locked but for a free inode.
Bare(p, i, label, got) ==
    /\ pc[p] \in {"user", "next", "linkto", "unlink"} /\ free' = free
    /\ \/ label \in {"search", "error"} /\ got = <<i>> \o refs[p]
       \/ label = "clear?" /\ got = Append(refs[p], i)
Fresh(p, i, label, got) ==
    /\ pc[p] = "ialloc" /\ i \in free /\ free' = free \ {i}
    /\ label = "made" /\ got = Append(refs[p], i)

LEMMA WaitGet ==
    ASSUME DirInv, Orderly, NEW p \in Procs, NEW i \in Inos, NEW label, NEW got, NEW c, NEW way,
           Get(p, i, label, got, c, way), UNCHANGED cdir,
           Bare(p, i, label, got) \/ Fresh(p, i, label, got)
    PROVE  Orderly'
<1> USE DEF Put, SleepAt, GoOn
<1>1. NodeType /\ UserType /\ PlaceType /\ LocalType /\ HasRefs(p) /\ Knows(p) /\ TreeType
  BY DEF DirInv
<1>2. pc[p] # "asleep" /\ pc[p] \in {"user", "next", "linkto", "unlink", "ialloc"}
  BY DEF Bare, Fresh
<1>3. Bare(p, i, label, got) => MayLock(p) = {}
  BY LocksAre DEF Bare
<1>4. ASSUME Fresh(p, i, label, got)
      PROVE  /\ Len(refs[p]) = 1 /\ MayLock(p) = {refs[p][1]} /\ refs[p][1] \notin free
             /\ \A j \in free : node[j].lock # p
  <2>1. pc[p] = "ialloc" /\ Len(refs[p]) = 1
    BY <1>1, <1>4 DEF Fresh, HasRefs
  <2>2. MayLock(p) = {refs[p][1]}
    BY <2>1, LocksAre, LocksOwn
  <2>3. refs[p][1] \notin free
    BY <2>1 DEF Orderly, Taken
  <2> QED BY <1>1, <2>1, <2>2, <2>3 DEF Orderly, LocksKnown, TreeType
<1>5. CASE node[i].lock # NoProc
  <2>1. /\ pc' = [pc EXCEPT ![p] = "asleep"] /\ num' = [num EXCEPT ![p] = i]
        /\ call' = [call EXCEPT ![p] = "none"] /\ path' = [path EXCEPT ![p] = << >>]
        /\ UNCHANGED <<node, refs, back>>
    BY <1>5 DEF Get
  <2>2. Moves(p) /\ pc'[p] = "asleep" /\ num'[p] = i
    BY <1>1, <2>1 DEF Moves, PlaceType, LocalType
  <2>3. Gentle(p)
    <3>1. free' \subseteq free
      BY DEF Bare, Fresh
    <3> QED BY <2>1, <3>1 DEF Gentle
  <2>4. SleepsWell(p)
    <3>1. CASE Bare(p, i, label, got)
      <4>1. \A j \in Inos : node[j].lock # p
        BY <1>3, <3>1 DEF Orderly, LocksKnown
      <4>2. free' \subseteq Inos
        BY <1>1, <3>1 DEF Bare, TreeType
      <4> QED BY <2>1, <2>2, <4>1, <4>2 DEF SleepsWell
    <3>2. CASE Fresh(p, i, label, got)
      <4>1. i \in free /\ free' \subseteq free /\ \A j \in free : node[j].lock # p
        BY <1>4, <3>2 DEF Fresh
      <4>2. \A q \in Procs : node[i].lock = q => q # p /\ pc[q] # "asleep"
        BY <4>1 DEF Orderly, FreeQuiet
      <4> QED BY <2>1, <2>2, <4>1, <4>2 DEF SleepsWell
    <3> QED BY <3>1, <3>2
  <2>5. Taken(p)'
    BY <2>2 DEF Taken
  <2>6. \A j \in free' : node'[j].kind = "none"
    BY <2>1 DEF Bare, Fresh, Orderly, FreeQuiet
  <2>7. \A j \in Inos : node'[j].lock = p => j \in MayLock(p)'
    <3>1. MayLock(p) \subseteq Range(refs[p])
      BY <1>2, LocksOwn DEF Giving
    <3>2. MayLock(p)' = Range(refs[p])
      BY <2>1, <2>2, LocksNext
    <3> QED BY <2>1, <3>1, <3>2 DEF Orderly, LocksKnown
  <2> QED BY <1>2, <2>2, <2>3, <2>4, <2>5, <2>6, <2>7, WaitKept
<1>6. CASE node[i].lock = NoProc
  <2>1. /\ node' = [node EXCEPT ![i].count = @ + 1, ![i].lock = p]
        /\ pc' = [pc EXCEPT ![p] = label]
        /\ refs' = [refs EXCEPT ![p] = got] /\ num' = [num EXCEPT ![p] = NoIno]
        /\ call' = [call EXCEPT ![p] = c] /\ path' = [path EXCEPT ![p] = way]
        /\ UNCHANGED back
    BY <1>6 DEF Get
  <2>2. Moves(p) /\ pc'[p] = label /\ refs'[p] = got /\ pc'[p] # "asleep"
    <3>1. label # "asleep"
      BY DEF Bare, Fresh
    <3> QED BY <1>1, <2>1, <3>1 DEF Moves, PlaceType, UserType
  <2>3. /\ \A j \in Inos : node'[j].kind = node[j].kind
        /\ \A j \in Inos \ {i} : node'[j].lock = node[j].lock /\ node'[j].count = node[j].count
        /\ node'[i].lock = p
    BY <1>1, <2>1 DEF NodeType, Node
  <2>4. free' \subseteq free
    BY DEF Bare, Fresh
  <2>5. Gentle(p) /\ SleepsWell(p)
    BY <1>6, <2>2, <2>3, <2>4 DEF Gentle, SleepsWell
  <2>6. \A j \in free' : node'[j].kind = "none"
    BY <1>1, <2>3, <2>4 DEF Orderly, FreeQuiet, TreeType
  <2>7. PICK s \in Seq(Inos) : s = refs[p] /\ Len(s) \in {0, 1}
    <3>1. Len(refs[p]) \in 0..2 /\ refs[p] \in Seq(Inos) /\ (refs[p] = << >> => Len(refs[p]) = 0)
      BY RefsAre
    <3>2. CASE pc[p] \in {"user", "linkto", "unlink", "ialloc"}
      BY <1>1, <3>1, <3>2 DEF HasRefs
    <3>3. CASE pc[p] = "next"
      BY <1>1, <3>1, <3>3 DEF HasRefs, Extra
    <3> QED BY <1>2, <3>2, <3>3, <3>1
  <2>8. CASE Bare(p, i, label, got) /\ label \in {"search", "error"}
    <3>1. got[1] = i
      <4>1. got = <<i>> \o s
        BY <2>7, <2>8 DEF Bare
      <4> QED BY <4>1
    <3>2. MayLock(p)' = {i}
      BY <2>2, <2>8, <3>1, LocksNext
    <3>3. \A j \in Inos : node'[j].lock = p => j \in MayLock(p)'
      BY <1>3, <2>3, <2>8, <3>2 DEF Orderly, LocksKnown
    <3>4. Taken(p)'
      BY <2>2, <2>8 DEF Taken
    <3> QED BY <1>2, <2>2, <2>5, <2>6, <3>3, <3>4, WaitKept
  <2>9. CASE (Bare(p, i, label, got) /\ label = "clear?") \/ Fresh(p, i, label, got)
    <3>1. label \in {"made", "clear?"} /\ got = Append(s, i)
      BY <2>7, <2>9 DEF Bare, Fresh
    <3>2. /\ got \in Seq(Inos) /\ Len(got) = Len(s) + 1 /\ got[Len(s) + 1] = i
          /\ Len(s) = 1 => got[1] = s[1]
      BY <2>7, <3>1, AppendProperties
    <3>3. DOMAIN got = 1..(Len(s) + 1)
      BY <3>2, LenProperties
    <3>4. MayLock(p)' = Range(got)
      BY <2>2, <3>1, LocksNext
    <3>5. i \in Range(got) /\ (Len(s) = 1 => s[1] \in Range(got))
      BY <2>7, <3>2, <3>3 DEF Range
    <3>6. \A j \in MayLock(p) : j \in Range(got)
      BY <1>3, <1>4, <2>7, <2>9, <3>5
    <3>7. \A j \in Inos : node'[j].lock = p => j \in MayLock(p)'
      BY <2>3, <3>4, <3>5, <3>6 DEF Orderly, LocksKnown
    <3>8. Taken(p)'
      <4>1. CASE label = "clear?"
        BY <2>2, <4>1 DEF Taken
      <4>2. CASE label = "made"
        <5>1. Fresh(p, i, label, got)
          BY <2>9, <4>2
        <5>2. got[2] = i /\ i \notin free'
          BY <1>4, <2>7, <3>2, <5>1 DEF Fresh
        <5> QED BY <2>2, <4>2, <5>2 DEF Taken
      <4> QED BY <3>1, <4>1, <4>2
    <3> QED BY <1>2, <2>2, <2>5, <2>6, <3>7, <3>8, WaitKept
  <2> QED BY <2>8, <2>9 DEF Bare
<1> QED BY <1>5, <1>6

\* The steps that get an inode.
LEMMA WaitGets ==
    ASSUME DirInv, Orderly, NEW p \in Procs,
           Call(p) \/ Enter(p) \/ IAlloc(p) \/ LinkTo(p) \/ UnLink(p)
    PROVE  Orderly'
<1> USE DEF At, Bare, Fresh
<1>1. TreeType /\ UserType /\ HasRefs(p) /\ Knows(p) /\ Root \in Inos
  BY DirectoriesAssumption DEF DirInv
<1>2. ASSUME NEW c, NEW way, NEW i \in {Root, cdir[p]}, StartAt(p, i, c, way),
             pc[p] \in {"user", "linkto"}, UNCHANGED <<free, cdir>>
      PROVE  Orderly'
  <2>1. PICK label \in {"search", "error"} : Get(p, i, label, <<i>> \o refs[p], c, way)
    BY <1>2 DEF StartAt
  <2>2. i \in Inos
    BY <1>1 DEF UserType
  <2>3. Bare(p, i, label, <<i>> \o refs[p])
    BY <1>2, <2>1
  <2> QED BY <1>2, <2>1, <2>2, <2>3, WaitGet
<1>3. CASE Call(p)
  BY <1>2, <1>3 DEF Call
<1>4. CASE LinkTo(p)
  BY <1>2, <1>4 DEF LinkTo
<1>5. CASE Enter(p)
  <2>1. PICK i \in Inos : i = num[p]
    BY <1>1, <1>5 DEF Enter, Knows
  <2>2. /\ pc[p] = "next" /\ Get(p, i, "search", <<i>> \o refs[p], call[p], path[p])
        /\ UNCHANGED <<free, cdir>>
    BY <1>5, <2>1 DEF Enter
  <2>3. Bare(p, i, "search", <<i>> \o refs[p])
    BY <2>2
  <2> QED BY <2>2, <2>3, WaitGet
<1>6. CASE IAlloc(p)
  <2>1. PICK i \in free : /\ free' = free \ {i} /\ pc[p] = "ialloc"
                          /\ Get(p, i, "made", Append(refs[p], i), call[p], path[p])
                          /\ UNCHANGED cdir
    BY <1>6 DEF IAlloc
  <2>2. i \in Inos
    BY <1>1, <2>1 DEF TreeType
  <2>3. Fresh(p, i, "made", Append(refs[p], i))
    BY <2>1
  <2> QED BY <2>1, <2>2, <2>3, WaitGet
<1>7. CASE UnLink(p)
  <2>1. PICK i \in Inos : i = num[p]
    BY <1>1, <1>7 DEF UnLink, Knows
  <2>2. /\ pc[p] = "unlink" /\ Get(p, i, "clear?", Append(refs[p], i), call[p], path[p])
        /\ UNCHANGED <<free, cdir>>
    BY <1>7, <2>1 DEF UnLink
  <2>3. Bare(p, i, "clear?", Append(refs[p], i))
    BY <2>2
  <2> QED BY <2>2, <2>3, WaitGet
<1> QED BY <1>3, <1>4, <1>5, <1>6, <1>7

\* A directory that is left behind stays so.
LEMMA KeptForEver ==
    ASSUME DirInv, [Next]_vars, NoneKept'
    PROVE  NoneKept /\ \A p \in Procs : ~MakNodeFails(p)
<1>1. UserType /\ \A p \in Procs : HasRefs(p)
  BY DEF DirInv
<1>2. \A i \in Inos : kept'[i] = 0
  BY DEF NoneKept
<1>3. \A p \in Procs : ~MakNodeFails(p)
  <2> SUFFICES ASSUME NEW p \in Procs, MakNodeFails(p)
               PROVE  FALSE
    OBVIOUS
  <2>1. Head(refs[p]) \in Inos
    BY <1>1, RefsAre DEF MakNodeFails, At, HasRefs
  <2>2. PICK i \in Inos : i = Head(refs[p])
    BY <2>1
  <2>3. kept' = [kept EXCEPT ![i] = @ + 1]
    BY <2>2 DEF MakNodeFails
  <2>4. kept[i] \in Nat /\ kept'[i] = kept[i] + 1
    BY <1>1, <2>3 DEF UserType
  <2> QED BY <1>2, <2>4
<1>4. kept' = kept
  <2>1. CASE UNCHANGED vars
    BY <2>1, Zenon DEF vars, history
  <2>2. ASSUME NEW p \in Procs, Step(p)
        PROVE  kept' = kept
    BY <1>3, <2>2, Zenon
    DEF Step, history, IPutShared, IPutLast, Truncated, Release, Call, Arrived, Denied, Descend,
        Enter, NextFails, NotFound, ToCreate, ToDelete, Error, IAlloc, MakNode, WriteDir,
        WriteDirFails, Refused, Empties, Open1, Open1Full, Close, ChDir, Entered, Link, LinkTo,
        Linked, UnLink, UnLinkDenied, Clear, Unlinked, UnlinkFails
  <2> QED BY <2>1, <2>2 DEF Next
<1> QED BY <1>2, <1>3, <1>4 DEF NoneKept

LEMMA InitOrderly == Init => Orderly
<1> SUFFICES ASSUME Init
             PROVE  Orderly
  OBVIOUS
<1>1. NoProc \notin Procs
  BY DirectoriesAssumption
<1>2. LocksKnown /\ FreeQuiet /\ \A p \in Procs : Taken(p)
  BY <1>1 DEF Init, LocksKnown, FreeQuiet, Taken
<1>3. NoCircle
  <2>1. \A p, q \in Procs : ~WaitsFor(p, q)
    BY DEF Init, WaitsFor
  <2> QED BY <2>1 DEF NoCircle
<1> QED BY <1>2, <1>3 DEF Orderly

LEMMA StutterOrderly ==
    ASSUME Orderly, UNCHANGED vars
    PROVE  Orderly'
<1> USE DEF vars, locals, history
<1>1. \A p : MayLock(p)' = MayLock(p)
  BY MayLockStays
<1>2. LocksKnown'
  BY <1>1 DEF Orderly, LocksKnown
<1>3. FreeQuiet' /\ \A p \in Procs : Taken(p)'
  BY DEF Orderly, FreeQuiet, Taken
<1>4. NoCircle'
  BY DEF Orderly, NoCircle, WaitsFor
<1> QED BY <1>2, <1>3, <1>4 DEF Orderly

\* What holds as long as MakNode has left no directory locked: which inodes each call may
\* have locked at each place of its way, that the lock of an inode that is free is held
\* only by the call that releases it and never while that call sleeps for another, and
\* that no set of calls waits for one another.
THEOREM WaitInvariance == Spec => []WaitInv
<1>1. Init => WaitInv
  BY InitDirInv, InitOrderly DEF WaitInv
<1>2. WaitInv /\ DirInv' /\ [Next]_vars => WaitInv'
  <2> SUFFICES ASSUME WaitInv, DirInv', [Next]_vars, NoneKept'
               PROVE  Orderly'
    BY DEF WaitInv
  <2>1. DirInv /\ Orderly /\ \A p \in Procs : ~MakNodeFails(p)
    BY KeptForEver DEF WaitInv
  <2>2. ASSUME NEW p \in Procs, Step(p)
        PROVE  Orderly'
    BY <2>1, <2>2, WaitLeaves, WaitSteps, WaitMakes, WaitUnlocks, WaitGives, WaitLast, WaitGets
    DEF Step
  <2>3. CASE UNCHANGED vars
    BY <2>1, <2>3, StutterOrderly
  <2> QED BY <2>2, <2>3 DEF Next
<1> QED BY <1>1, <1>2, DirInvariance, PTL DEF Spec

\* Waiting never goes round in a circle: calls sleep for one another's inodes, but a call
\* that sleeps for an inode while it has another locked has met, in MakNode, an inode that
\* is being released (FileManager.cpp:972), so the chain ends there.
THEOREM NoCircularWaitHolds == Spec => []NoCircularWait
<1>1. WaitInv => NoCircularWait
  BY DEF WaitInv, Orderly, NoCircle, NoCircularWait
<1> QED BY <1>1, WaitInvariance, PTL

-----------------------------------------------------------------------------
\* The names of an inode

\* Who is alone with an inode: a call that releases it, or that has just taken it.
AloneWith(p, i) == \/ pc[p] \in {"trunc", "release"} /\ refs[p][1] = i
                   \/ pc[p] = "made" /\ refs[p][2] = i

Alone == \A p \in Procs, i \in Inos :
    AloneWith(p, i) => node[i].count = 1 /\ node[i].lock = p

\* The inodes a call needs locked for what it goes on to write.
Held(p) ==
    /\ pc[p] \in {"search", "ialloc", "made", "writedir"} => node[refs[p][1]].lock = p
    /\ pc[p] \in {"clear?", "clear"} => node[refs[p][2]].lock = p

EntryAt(d, k, i) == k \in Live(d) /\ ent[d][k].ino = i
Leads(p) == \E k \in Nat : EntryAt(refs[p][1], k, num[p])

\* The place for a new entry is free, and nobody has written the name elsewhere.
SlotFree(p) ==
    /\ off[p] \in FreeEntries(refs[p][1]) \cup {Len(ent[refs[p][1]]) + 1}
    /\ Matches(refs[p][1], Head(path[p])) = {}

\* What a call has read of the names is still so when it uses it.
Goes(p) ==
    /\ pc[p] \in {"next", "unlink"} \/ (pc[p] = "iput" /\ back[p] = "next") => cpu = p
    /\ Giving(p) /\ back[p] = "next" =>
          Leads(p) \/ (pc[p] = "release" /\ ent[refs[p][1]] = << >>)
    /\ pc[p] = "next" => node[num[p]].kind # "none"
    /\ pc[p] = "unlink" => EntryAt(refs[p][1], off[p], num[p])
    /\ pc[p] \in {"clear?", "clear"} => EntryAt(refs[p][1], off[p], refs[p][2])
    /\ pc[p] \in {"ialloc", "made", "writedir"} => SlotFree(p)
    /\ pc[p] = "made" => node[refs[p][2]].kind = "none"
    /\ pc[p] = "trunc" => node[refs[p][1]].nlink <= 0
    /\ pc[p] = "count" \/ back[p] = "count" => call[p] = "linkto"
    /\ pc[p] = "asleep" => back[p] # "count"

\* Only the call that is alone with it uses an inode that is no file.
Idle == \A i \in Inos : node[i].kind = "none" =>
    node[i].count = 0 \/ \E p \in Procs : AloneWith(p, i)
FreeIdle == \A i \in free : /\ node[i].kind = "none"
                            /\ \A p \in Procs : pc[p] = "made" => refs[p][2] # i

\* The entries that lead to i; calls that go on to i from a directory they have removed.
Named(i) == UNION {{<<d, k>> : k \in {n \in Live(d) : ent[d][n].ino = i}} : d \in Inos}
Pending(i) == {p \in Procs : /\ pc[p] = "release" /\ back[p] = "next" /\ num[p] = i
                             /\ ent[refs[p][1]] = << >>}

Tally(i) == Cardinality(Named(i)) + One(i = Root) + Cardinality(Making(i))
            - Cardinality(Linking(i)) + Cardinality(Pending(i)) + unwritten[i]

CountsAre(i) ==
    /\ IsFiniteSet(Named(i))
    /\ Tally(i) <= node[i].nlink /\ (~pruned => Tally(i) = node[i].nlink)
    /\ node[i].kind = "none" => /\ Named(i) = {} /\ i # Root /\ Pending(i) = {}
                                /\ unwritten[i] = 0
    /\ Pending(i) # {} => pruned

OffType == off \in [Procs -> Nat]
LostType == unwritten \in [Inos -> Nat]

Exact ==
    /\ OffType /\ LostType /\ Alone /\ Idle /\ FreeIdle /\ UniqueNames
    /\ \A p \in Procs : Held(p) /\ Goes(p)
    /\ \A i \in Inos : CountsAre(i)

NamesInv == DirInv /\ (~stolen /\ ~uncleared => Exact)

\* How often an inode is used.
LEMMA CountIs ==
    ASSUME DirInv, NEW i \in Inos
    PROVE  /\ node[i].count = files[i] + kept[i] + One(i = Root) + Cardinality(Dirs(i))
                              + Cardinality(Uses(refs, i))
           /\ files[i] \in Nat /\ kept[i] \in Nat /\ One(i = Root) \in Nat
           /\ Cardinality(Dirs(i)) \in Nat /\ Cardinality(Uses(refs, i)) \in Nat
           /\ IsFiniteSet(Dirs(i)) /\ IsFiniteSet(Uses(refs, i))
<1>1. node[i].count = files[i] + kept[i] + One(i = Root) + Cardinality(Dirs(i))
                      + Cardinality(Uses(refs, i))
  BY RefsExactIs DEF DirInv
<1>2. files[i] \in Nat /\ kept[i] \in Nat /\ One(i = Root) \in Nat
  BY Types DEF UserType, One
<1>3. IsFiniteSet(Uses(refs, i)) /\ Cardinality(Uses(refs, i)) \in Nat
  BY RefsShort, UsesAre, FS_CardinalityType
<1> QED BY <1>1, <1>2, <1>3, DirsFinite

LEMMA UsedAt ==
    ASSUME DirInv, NEW q \in Procs, NEW k \in {1, 2}, k <= Len(refs[q])
    PROVE  <<q, k>> \in Uses(refs, refs[q][k])
<1>1. DOMAIN refs[q] = 1..Len(refs[q]) /\ Len(refs[q]) \in 0..2
  BY RefsAre, LenProperties
<1>2. k \in DOMAIN refs[q]
  BY <1>1
<1> QED BY <1>2 DEF Uses

\* What is used is counted.
LEMMA UsedIsCounted ==
    ASSUME DirInv, NEW i \in Inos,
           \/ i = Root \/ files[i] > 0 \/ \E q \in Procs : cdir[q] = i
           \/ \E q \in Procs, k \in {1, 2} : k <= Len(refs[q]) /\ refs[q][k] = i
    PROVE  node[i].count >= 1
<1>1. PICK D, U : D = Dirs(i) /\ U = Uses(refs, i)
  OBVIOUS
<1>2. /\ node[i].count = files[i] + kept[i] + One(i = Root) + Cardinality(D) + Cardinality(U)
      /\ files[i] \in Nat /\ kept[i] \in Nat /\ One(i = Root) \in Nat
      /\ Cardinality(D) \in Nat /\ Cardinality(U) \in Nat
      /\ IsFiniteSet(D) /\ IsFiniteSet(U)
  BY <1>1, CountIs, Zenon
<1>3. CASE i = Root \/ files[i] > 0
  BY <1>3, <1>2 DEF One
<1>4. CASE \E q \in Procs : cdir[q] = i
  <2>1. Dirs(i) # {}
    BY <1>4 DEF Dirs
  <2>2. Cardinality(D) # 0
    BY <1>1, <1>2, <2>1, FS_EmptySet
  <2> QED BY <1>2, <2>2
<1>5. CASE \E q \in Procs, k \in {1, 2} : k <= Len(refs[q]) /\ refs[q][k] = i
  <2>1. Uses(refs, i) # {}
    <3>1. PICK q \in Procs, k \in {1, 2} : k <= Len(refs[q]) /\ refs[q][k] = i
      BY <1>5
    <3>2. <<q, k>> \in Uses(refs, refs[q][k])
      BY <3>1, UsedAt
    <3> QED BY <3>1, <3>2
  <2>2. Cardinality(U) # 0
    BY <1>1, <1>2, <2>1, FS_EmptySet
  <2> QED BY <1>2, <2>2
<1> QED BY <1>3, <1>4, <1>5

\* An inode that is counted once has one user, who uses it once.
LEMMA OnlyUser ==
    ASSUME DirInv, NEW i \in Inos, node[i].count = 1,
           NEW p \in Procs, NEW k \in {1, 2}, k <= Len(refs[p]), refs[p][k] = i
    PROVE  /\ i # Root /\ files[i] = 0 /\ \A q \in Procs : cdir[q] # i
           /\ \A q \in Procs, l \in {1, 2} :
                 l <= Len(refs[q]) /\ refs[q][l] = i => q = p /\ l = k
<1>1. <<p, k>> \in Uses(refs, i)
  BY UsedAt
<1>2. Cardinality(Uses(refs, i)) # 0
  BY <1>1, CountIs, FS_EmptySet
<1>3. /\ files[i] = 0 /\ One(i = Root) = 0 /\ Cardinality(Dirs(i)) = 0
      /\ Cardinality(Uses(refs, i)) = 1
  <2>1. /\ 1 = files[i] + kept[i] + One(i = Root) + Cardinality(Dirs(i))
                + Cardinality(Uses(refs, i))
        /\ files[i] \in Nat /\ kept[i] \in Nat /\ One(i = Root) \in Nat
        /\ Cardinality(Dirs(i)) \in Nat /\ Cardinality(Uses(refs, i)) \in Nat
    BY CountIs
  <2>2. ASSUME NEW a \in Nat, NEW b \in Nat, NEW c \in Nat, NEW d \in Nat, NEW e \in Nat,
               1 = a + b + c + d + e, e # 0
        PROVE  a = 0 /\ c = 0 /\ d = 0 /\ e = 1
    BY <2>2
  <2> QED BY <1>2, <2>1, <2>2
<1>4. Dirs(i) = {}
  BY <1>3, CountIs, FS_EmptySet
<1>5. ASSUME NEW q \in Procs, NEW l \in {1, 2}, l <= Len(refs[q]), refs[q][l] = i,
             ~(q = p /\ l = k)
      PROVE  FALSE
  <2>1. <<q, l>> \in Uses(refs, i)
    BY <1>5, UsedAt
  <2>2. {<<p, k>>, <<q, l>>} \in SUBSET Uses(refs, i) /\ Cardinality({<<p, k>>, <<q, l>>}) = 2
    BY <1>1, <1>5, <2>1, PairIs
  <2>3. PICK S : S = Uses(refs, i)
    OBVIOUS
  <2>4. PICK T : T = {<<p, k>>, <<q, l>>}
    OBVIOUS
  <2>5. IsFiniteSet(S) /\ T \in SUBSET S /\ Cardinality(T) = 2 /\ Cardinality(S) = 1
    BY <1>3, <2>2, <2>3, <2>4, CountIs
  <2>6. Cardinality(T) <= Cardinality(S)
    BY <2>5, FS_Subset
  <2> QED BY <2>5, <2>6
<1>6. i # Root
  BY <1>3 DEF One
<1>7. \A q \in Procs : cdir[q] # i
  BY <1>4 DEF Dirs
<1> QED BY <1>3, <1>5, <1>6, <1>7

\* Where a call is alone with an inode it has it.
LEMMA AloneHas ==
    ASSUME DirInv, NEW p \in Procs, NEW i, AloneWith(p, i)
    PROVE  i \in Inos /\ \E k \in {1, 2} : k <= Len(refs[p]) /\ refs[p][k] = i
<1>1. HasRefs(p)
  BY DEF DirInv
<1>2. CASE pc[p] \in {"trunc", "release"} /\ refs[p][1] = i
  <2>1. Len(refs[p]) >= 1
    BY <1>1, <1>2, RefsAre DEF HasRefs, Giving
  <2> QED BY <1>2, <2>1, RefsAre
<1>3. CASE pc[p] = "made" /\ refs[p][2] = i
  <2>1. Len(refs[p]) = 2
    BY <1>1, <1>3 DEF HasRefs
  <2> QED BY <1>3, <2>1, RefsAre
<1> QED BY <1>2, <1>3 DEF AloneWith

\* What is used otherwise is a file or a directory.
LEMMA UsedIsFile ==
    ASSUME DirInv, Exact, NEW i \in Inos,
           \/ i = Root \/ files[i] > 0 \/ \E q \in Procs : cdir[q] = i
           \/ \E q \in Procs, k \in {1, 2} :
                 k <= Len(refs[q]) /\ refs[q][k] = i /\ ~AloneWith(q, i)
    PROVE  node[i].kind # "none"
<1> SUFFICES ASSUME node[i].kind = "none"
             PROVE  FALSE
  OBVIOUS
<1>1. node[i].count >= 1
  BY UsedIsCounted
<1>2. PICK p \in Procs : AloneWith(p, i)
  BY <1>1 DEF Exact, Idle
<1>3. node[i].count = 1
  BY <1>2 DEF Exact, Alone
<1>4. PICK k \in {1, 2} : k <= Len(refs[p]) /\ refs[p][k] = i
  BY <1>2, AloneHas
<1> QED BY <1>2, <1>3, <1>4, OnlyUser

\* An inode that is free and not locked is not used.
LEMMA FreeIsUnused ==
    ASSUME DirInv, Exact, NEW i \in free, node[i].lock = NoProc
    PROVE  node[i].count = 0
<1>1. i \in Inos /\ NoProc \notin Procs
  BY Types, DirectoriesAssumption DEF TreeType
<1> QED BY <1>1 DEF Exact, FreeIdle, Idle, Alone

\* A step of p changes only inodes it has or takes, and entries of directories it has locked.
Modest(p) ==
    /\ Moves(p) /\ (\A q \in Procs \ {p} : off'[q] = off[q]) /\ cpu \in {p, NoProc}
    /\ LostType'
    /\ \A i \in Inos :
          /\ node'[i].lock = node[i].lock \/ node[i].lock \in {p, NoProc}
          /\ node'[i].count = node[i].count \/ node[i].lock \in {p, NoProc}
          /\ \/ node'[i].kind = node[i].kind
             \/ pc[p] = "made" /\ i = refs[p][2]
             \/ pc[p] = "trunc" /\ i = refs[p][1] /\ node'[i].kind = "none"
          /\ \/ node'[i].nlink = node[i].nlink
             \/ \E k \in {1, 2} : k <= Len(refs[p]) /\ refs[p][k] = i
    /\ \A i \in free' : i \in free \/ (pc[p] = "trunc" /\ i = refs[p][1] /\ node'[i].kind = "none")

\* UnLink clears the entry it has found, whoever has the directory locked.
Clears(p, d) ==
    /\ pc[p] = "clear" /\ d = refs[p][1] /\ off[p] \in DOMAIN ent[d]
    /\ ent'[d] = [ent[d] EXCEPT ![off[p]] = FreeEntry] /\ Len(ent'[d]) = Len(ent[d])

Edits(p) == \A d \in Inos :
    /\ ent'[d] = ent[d] \/ node[d].lock = p \/ Clears(p, d)
    /\ \A k, i : EntryAt(d, k, i) =>
          \/ EntryAt(d, k, i)'
          \/ pc[p] = "clear" /\ d = refs[p][1] /\ k = off[p] /\ i = refs[p][2]
          \/ AloneWith(p, d)

\* Where the references of a call are that it needs.
LEMMA NeedsRefs ==
    ASSUME DirInv, NEW q \in Procs
    PROVE  /\ pc[q] \in {"search", "ialloc", "made", "writedir", "clear?", "clear", "trunc",
                         "release", "found", "error"} =>
                 Len(refs[q]) >= 1 /\ refs[q][1] \in Inos
           /\ pc[q] \in {"made", "writedir", "clear?", "clear"} =>
                 Len(refs[q]) >= 2 /\ refs[q][2] \in Inos
<1>1. HasRefs(q)
  BY DEF DirInv
<1>2. Len(refs[q]) \in 0..2
  BY RefsAre
<1>3. pc[q] \in {"search", "ialloc", "made", "writedir", "clear?", "clear", "trunc",
                 "release", "found", "error"} => Len(refs[q]) >= 1
  <2>1. pc[q] \in {"search", "found", "error"} => Len(refs[q]) >= 1
    BY <1>1, <1>2 DEF HasRefs, Extra
  <2>2. /\ pc[q] = "ialloc" => Len(refs[q]) = 1
        /\ pc[q] \in {"made", "writedir", "clear?", "clear"} => Len(refs[q]) = 2
    BY ONLY <1>1, SMT DEF HasRefs
  <2>3. pc[q] \in {"trunc", "release"} => Len(refs[q]) >= 1
    BY <1>1 DEF HasRefs, Giving
  <2> QED BY <2>1, <2>2, <2>3
<1>4. pc[q] \in {"made", "writedir", "clear?", "clear"} => Len(refs[q]) = 2
  BY <1>1, <1>2 DEF HasRefs
<1> QED BY <1>2, <1>3, <1>4, RefsAre

\* A directory the others use is not removed.
LEMMA NotAlone ==
    ASSUME DirInv, Exact, NEW p \in Procs, NEW q \in Procs \ {p}, NEW i \in Inos,
           NEW k \in {1, 2}, k <= Len(refs[q]), refs[q][k] = i
    PROVE  ~AloneWith(p, i)
<1> SUFFICES ASSUME AloneWith(p, i)
             PROVE  FALSE
  OBVIOUS
<1>1. node[i].count = 1
  BY DEF Exact, Alone
<1>2. PICK l \in {1, 2} : l <= Len(refs[p]) /\ refs[p][l] = i
  BY AloneHas
<1> QED BY <1>1, <1>2, OnlyUser

\* What the others know of inodes and names stays so.
LEMMA OthersGo ==
    ASSUME DirInv, Exact, NEW p \in Procs, Modest(p), Edits(p), NEW q \in Procs \ {p}
    PROVE  /\ Held(q)' /\ Goes(q)'
           /\ \A i \in Inos : /\ AloneWith(q, i)' = AloneWith(q, i)
                              /\ AloneWith(q, i) => node'[i].count = 1 /\ node'[i].lock = q
<1>1. /\ pc'[q] = pc[q] /\ call'[q] = call[q] /\ path'[q] = path[q] /\ num'[q] = num[q]
      /\ back'[q] = back[q] /\ refs'[q] = refs[q] /\ off'[q] = off[q] /\ cpu # q
  BY DirectoriesAssumption DEF Modest, Moves
<1>2. q # NoProc /\ Held(q) /\ Goes(q)
  BY DirectoriesAssumption DEF Exact
<1>3. \A i \in Inos : node[i].lock = q => /\ node'[i].lock = q /\ node'[i].count = node[i].count
                                          /\ ent'[i] = ent[i] \/ Clears(p, i)
  BY <1>2 DEF Modest, Edits
<1>4. Held(q)'
  BY <1>1, <1>2, <1>3, NeedsRefs DEF Held
<1>5. \A i : AloneWith(q, i)' = AloneWith(q, i)
  BY <1>1 DEF AloneWith
<1>6. ASSUME NEW i \in Inos, AloneWith(q, i)
      PROVE  /\ node'[i].count = 1 /\ node'[i].lock = q /\ node'[i].nlink = node[i].nlink
             /\ ent'[i] = ent[i]
  <2>1. node[i].count = 1 /\ node[i].lock = q
    BY <1>6 DEF Exact, Alone
  <2>2. \A k \in {1, 2} : k <= Len(refs[p]) => refs[p][k] # i
    BY <1>6, NotAlone
  <2>3. ~Clears(p, i)
    BY <2>2, NeedsRefs DEF Clears
  <2> QED BY <1>3, <2>1, <2>2, <2>3 DEF Modest, LostType, Exact
<1>7. Goes(q)'
  <2>1. ~(pc[q] \in {"next", "unlink"} \/ (pc[q] = "iput" /\ back[q] = "next"))
    BY <1>1, <1>2 DEF Goes
  <2>2. Giving(q)' /\ back'[q] = "next" =>
          Leads(q)' \/ (pc'[q] = "release" /\ ent'[refs'[q][1]] = << >>)
    <3> SUFFICES ASSUME Giving(q), back[q] = "next"
                 PROVE  Leads(q)' \/ (pc[q] = "release" /\ ent'[refs[q][1]] = << >>)
      BY <1>1 DEF Giving
    <3>1. AloneWith(q, refs[q][1]) /\ refs[q][1] \in Inos
      BY <2>1, NeedsRefs DEF Giving, AloneWith
    <3>3. ent'[refs[q][1]] = ent[refs[q][1]]
      BY <1>6, <3>1
    <3>4. Leads(q) => Leads(q)'
      BY <1>1, <3>3 DEF Leads, EntryAt, Live
    <3> QED BY <1>2, <3>3, <3>4 DEF Goes
  <2>3. pc[q] \in {"clear?", "clear"} => EntryAt(refs[q][1], off[q], refs[q][2])'
    <3> SUFFICES ASSUME pc[q] \in {"clear?", "clear"}
                 PROVE  EntryAt(refs[q][1], off[q], refs[q][2])'
      OBVIOUS
    <3>1. PICK d, k, i : d = refs[q][1] /\ k = off[q] /\ i = refs[q][2]
      OBVIOUS
    <3>2. /\ d \in Inos /\ i \in Inos /\ EntryAt(d, k, i) /\ node[i].lock = q
          /\ Len(refs[q]) >= 2
      BY <1>2, <3>1, NeedsRefs DEF Goes, Held
    <3>3. ~(pc[p] = "clear" /\ i = refs[p][2])
      <4>1. pc[p] = "clear" => node[refs[p][2]].lock = p
        BY DEF Exact, Held
      <4> QED BY <3>2, <4>1
    <3>4. ~AloneWith(p, d)
      <4>1. Len(refs[q]) \in 0..2
        BY RefsAre
      <4> QED BY <3>1, <3>2, <4>1, NotAlone
    <3>5. EntryAt(d, k, i)'
      BY <3>2, <3>3, <3>4 DEF Edits
    <3>6. refs'[q][1] = d /\ off'[q] = k /\ refs'[q][2] = i
      BY <1>1, <3>1
    <3> QED BY <3>5, <3>6 DEF EntryAt, Live
  <2>4. pc[q] \in {"ialloc", "made", "writedir"} => SlotFree(q)'
    <3> SUFFICES ASSUME pc[q] \in {"ialloc", "made", "writedir"}
                 PROVE  SlotFree(q)'
      OBVIOUS
    <3>1. SlotFree(q) /\ refs[q][1] \in Inos /\ node[refs[q][1]].lock = q
      BY <1>2, NeedsRefs DEF Goes, Held
    <3>2. CASE ent'[refs[q][1]] = ent[refs[q][1]]
      BY <1>1, <3>1, <3>2 DEF SlotFree, FreeEntries, Matches, Live
    <3>3. CASE Clears(p, refs[q][1])
      <4>1. PICK d \in Inos : d = refs[q][1]
        BY <3>1
      <4>2. /\ DOMAIN ent'[d] = DOMAIN ent[d] /\ Len(ent'[d]) = Len(ent[d])
            /\ \A k \in DOMAIN ent[d] :
                  ent'[d][k] = IF k = off[p] THEN FreeEntry ELSE ent[d][k]
        BY <3>3, <4>1 DEF Clears
      <4>3. \A k \in Live(d)' : k \in Live(d) /\ ent'[d][k] = ent[d][k]
        BY <4>2 DEF Live, FreeEntry
      <4>4. FreeEntries(d) \subseteq FreeEntries(d)'
        BY <4>2, <4>3 DEF FreeEntries
      <4>6. /\ off[q] \in FreeEntries(d) \cup {Len(ent[d]) + 1}
            /\ Matches(d, Head(path[q])) = {}
        BY <3>1, <4>1 DEF SlotFree
      <4>7. /\ off[q] \in FreeEntries(d)' \cup {Len(ent'[d]) + 1}
            /\ Matches(d, Head(path[q]))' = {}
        <5>1. Matches(d, Head(path[q]))' \subseteq Matches(d, Head(path[q]))
          BY <1>1, <4>3 DEF Matches
        <5> QED BY <4>2, <4>4, <4>6, <5>1
      <4>8. refs'[q][1] = d
        BY <1>1, <4>1
      <4> QED BY <1>1, <4>7, <4>8 DEF SlotFree, FreeEntries, Matches, Live
    <3> QED BY <1>3, <3>1, <3>2, <3>3
  <2>5. pc[q] = "made" => node'[refs[q][2]].kind = "none"
    <3> SUFFICES ASSUME pc[q] = "made"
                 PROVE  node'[refs[q][2]].kind = "none"
      OBVIOUS
    <3>1. PICK i \in Inos : i = refs[q][2] /\ AloneWith(q, i) /\ node[i].kind = "none"
      BY <1>2, NeedsRefs DEF AloneWith, Goes
    <3>2. node[i].lock = q
      BY <3>1 DEF Exact, Alone
    <3>3. ~(pc[p] = "made" /\ i = refs[p][2])
      BY <3>1, <3>2 DEF Exact, Alone, AloneWith
    <3> QED BY <3>1, <3>3 DEF Modest, LostType, Exact
  <2>6. pc[q] = "trunc" => node'[refs[q][1]].nlink <= 0
    <3> SUFFICES ASSUME pc[q] = "trunc"
                 PROVE  node'[refs[q][1]].nlink <= 0
      OBVIOUS
    <3>1. AloneWith(q, refs[q][1]) /\ refs[q][1] \in Inos
      BY NeedsRefs DEF AloneWith
    <3> QED BY <1>2, <1>6, <3>1 DEF Goes
  <2>7. /\ pc[q] = "count" \/ back[q] = "count" => call[q] = "linkto"
        /\ pc[q] = "asleep" => back[q] # "count"
    BY <1>2 DEF Goes
  <2>8. /\ Giving(q)' = Giving(q) /\ pc'[q] \notin {"next", "unlink"}
        /\ ~(pc'[q] = "iput" /\ back'[q] = "next")
    BY <1>1, <2>1 DEF Giving
  <2>9. pc'[q] = "trunc" => node'[refs'[q][1]].nlink <= 0
    BY <1>1, <2>6
  <2> QED BY <1>1, <2>2, <2>3, <2>4, <2>7, <2>8, <2>9, <2>5 DEF Goes
<1> QED BY <1>4, <1>5, <1>6, <1>7

\* The calls that count for an inode without a name of theirs are as they were, but for p.
LEMMA OthersCount ==
    ASSUME DirInv, Exact, NEW p \in Procs, Modest(p), Edits(p), NEW i, NEW q \in Procs \ {p}
    PROVE  /\ q \in Making(i)' <=> q \in Making(i)
           /\ q \in Linking(i)' <=> q \in Linking(i)
           /\ q \in Pending(i)' <=> q \in Pending(i)
<1>1. /\ pc'[q] = pc[q] /\ call'[q] = call[q] /\ num'[q] = num[q]
      /\ back'[q] = back[q] /\ refs'[q] = refs[q]
  BY DEF Modest, Moves
<1>2. pc[q] = "release" => ent'[refs[q][1]] = ent[refs[q][1]]
  <2> SUFFICES ASSUME pc[q] = "release"
               PROVE  ent'[refs[q][1]] = ent[refs[q][1]]
    OBVIOUS
  <2>1. refs[q][1] \in Inos /\ AloneWith(q, refs[q][1])
    BY NeedsRefs DEF AloneWith
  <2>2. node[refs[q][1]].lock = q
    BY <2>1 DEF Exact, Alone
  <2>3. ~Clears(p, refs[q][1])
    <3> SUFFICES ASSUME pc[p] = "clear", refs[p][1] = refs[q][1]
                 PROVE  FALSE
      BY DEF Clears
    <3>1. 1 <= Len(refs[p]) /\ Len(refs[p]) \in 0..2
      BY NeedsRefs, RefsAre
    <3> QED BY <2>1, <3>1, NotAlone
  <2> QED BY <2>1, <2>2, <2>3 DEF Edits
<1>3. q \in Making(i)' <=> q \in Making(i)
  BY <1>1 DEF Making
<1>4. q \in Linking(i)' <=> q \in Linking(i)
  BY <1>1 DEF Linking
<1>5. q \in Pending(i)' <=> q \in Pending(i)
  BY <1>1, <1>2 DEF Pending
<1> QED BY <1>3, <1>4, <1>5

LEMMA SetMove ==
    ASSUME NEW S \in SUBSET Procs, NEW T \in SUBSET Procs, NEW p \in Procs,
           \A q \in Procs \ {p} : q \in T <=> q \in S
    PROVE  \E n \in Nat : /\ Cardinality(S) = n + One(p \in S)
                          /\ Cardinality(T) = n + One(p \in T)
<1>1. IsFiniteSet(S) /\ IsFiniteSet(T)
  BY FS_Subset, DirectoriesAssumption
<1>2. PICK R : R = S \ {p}
  OBVIOUS
<1>3. R = T \ {p} /\ IsFiniteSet(R) /\ Cardinality(R) \in Nat
  BY <1>1, <1>2, FS_Subset, FS_CardinalityType
<1>4. ASSUME NEW U \in SUBSET Procs, U = S \/ U = T
      PROVE  Cardinality(U) = Cardinality(R) + One(p \in U)
  <2>1. CASE p \in U
    <3>1. U = R \cup {p} /\ p \notin R
      BY <1>2, <1>3, <1>4, <2>1
    <3>2. Cardinality(R \cup {p}) = Cardinality(R) + 1
      BY <1>3, <3>1, FS_AddElement
    <3> QED BY <2>1, <3>1, <3>2 DEF One
  <2>2. CASE p \notin U
    <3>1. U = R
      BY <1>2, <1>3, <1>4, <2>2
    <3> QED BY <1>3, <2>2, <3>1 DEF One
  <2> QED BY <2>1, <2>2
<1> QED BY <1>3, <1>4

\* What is too much or too little at i, as far as p and the entries go.
Weight(p, i) == Cardinality(Named(i)) + One(p \in Making(i)) - One(p \in Linking(i))
                + One(p \in Pending(i)) + unwritten[i] - node[i].nlink

LEMMA WeightIs ==
    ASSUME DirInv, Exact, NEW p \in Procs, Modest(p), Edits(p), NEW i \in Inos, NodeType',
           IsFiniteSet(Named(i)), IsFiniteSet(Named(i)')
    PROVE  /\ \E n \in Int : /\ Tally(i) - node[i].nlink = Weight(p, i) + n
                             /\ (Tally(i) - node[i].nlink)' = Weight(p, i)' + n
           /\ Tally(i) \in Int /\ Tally(i)' \in Int /\ Weight(p, i) \in Int
           /\ Weight(p, i)' \in Int /\ node[i].nlink \in Int /\ node'[i].nlink \in Int
<1>1. /\ Making(i) \in SUBSET Procs /\ Linking(i) \in SUBSET Procs /\ Pending(i) \in SUBSET Procs
      /\ Making(i)' \in SUBSET Procs /\ Linking(i)' \in SUBSET Procs
      /\ Pending(i)' \in SUBSET Procs
  BY DEF Making, Linking, Pending
<1>2. PICK a \in Nat : /\ Cardinality(Making(i)) = a + One(p \in Making(i))
                       /\ Cardinality(Making(i)') = a + One(p \in Making(i)')
  BY <1>1, SetMove, OthersCount
<1>3. PICK b \in Nat : /\ Cardinality(Linking(i)) = b + One(p \in Linking(i))
                       /\ Cardinality(Linking(i)') = b + One(p \in Linking(i)')
  BY <1>1, SetMove, OthersCount
<1>4. PICK c \in Nat : /\ Cardinality(Pending(i)) = c + One(p \in Pending(i))
                       /\ Cardinality(Pending(i)') = c + One(p \in Pending(i)')
  BY <1>1, SetMove, OthersCount
<1>5. /\ Cardinality(Named(i)) \in Nat /\ Cardinality(Named(i)') \in Nat
      /\ node[i].nlink \in Int /\ node'[i].nlink \in Int
      /\ unwritten[i] \in Int /\ unwritten'[i] \in Int
  <2>1. NodeType /\ LostType /\ LostType'
    BY Types DEF Modest, Exact
  <2>2. /\ node[i].nlink \in Int /\ node'[i].nlink \in Int
        /\ unwritten[i] \in Int /\ unwritten'[i] \in Int
    BY <2>1 DEF NodeType, Node, LostType
  <2> QED BY <2>2, FS_CardinalityType
<1>6. /\ One(p \in Making(i)) \in Nat /\ One(p \in Linking(i)) \in Nat
      /\ One(p \in Pending(i)) \in Nat /\ One(p \in Making(i)') \in Nat
      /\ One(p \in Linking(i)') \in Nat /\ One(p \in Pending(i)') \in Nat
      /\ One(i = Root) \in Nat
  BY DEF One
<1>7. PICK n \in Int : n = One(i = Root) + a - b + c
  BY <1>6
<1>8. /\ Tally(i) - node[i].nlink = Weight(p, i) + n
      /\ Tally(i) \in Int /\ Weight(p, i) \in Int
  BY <1>2, <1>3, <1>4, <1>5, <1>6, <1>7 DEF Tally, Weight
<1>9. /\ (Tally(i) - node[i].nlink)' = Weight(p, i)' + n
      /\ Tally(i)' \in Int /\ Weight(p, i)' \in Int
  <2>1. PICK x \in Nat, u \in Int, l \in Int :
           x = Cardinality(Named(i)') /\ u = unwritten'[i] /\ l = node'[i].nlink
    BY <1>5
  <2>2. PICK m, k, g : /\ m = Cardinality(Making(i)') /\ k = Cardinality(Linking(i)')
                       /\ g = Cardinality(Pending(i)')
    OBVIOUS
  <2>3. PICK r, s, t : /\ r = One(p \in Making(i)') /\ s = One(p \in Linking(i)')
                       /\ t = One(p \in Pending(i)')
    OBVIOUS
  <2>4. Tally(i)' = x + One(i = Root) + m - k + g + u
    BY <2>1, <2>2 DEF Tally
  <2>5. Weight(p, i)' = x + r - s + t + u - l
    BY <2>1, <2>3 DEF Weight
  <2> QED BY <1>2, <1>3, <1>4, <1>6, <1>7, <2>1, <2>2, <2>3, <2>4, <2>5
<1> QED BY <1>5, <1>8, <1>9

LEMMA CountsChange ==
    ASSUME DirInv, Exact, NEW p \in Procs, Modest(p), Edits(p), NEW i \in Inos, NodeType',
           IsFiniteSet(Named(i)'), pruned => pruned',
           Weight(p, i)' = Weight(p, i) \/ (pruned' /\ Weight(p, i)' <= Weight(p, i)),
           node'[i].kind = "none" => /\ Named(i)' = {} /\ i # Root /\ Pending(i)' = {}
                                     /\ unwritten'[i] = 0,
           Pending(i)' # {} => pruned'
    PROVE  CountsAre(i)'
<1>1. CountsAre(i)
  BY DEF Exact
<1>2. PICK n \in Int : /\ Tally(i) - node[i].nlink = Weight(p, i) + n
                       /\ (Tally(i) - node[i].nlink)' = Weight(p, i)' + n
  BY <1>1, WeightIs DEF CountsAre
<1>3. /\ Tally(i) \in Int /\ Tally(i)' \in Int /\ Weight(p, i) \in Int
      /\ Weight(p, i)' \in Int /\ node[i].nlink \in Int /\ node'[i].nlink \in Int
  BY <1>1, WeightIs DEF CountsAre
<1> QED BY <1>1, <1>2, <1>3 DEF CountsAre

\* What is left to show for a step of p.
LEMMA NamesKept ==
    ASSUME DirInv, Exact, NEW p \in Procs, Modest(p), Edits(p), TreeType', OffType',
           Held(p)', Goes(p)',
           \A i \in Inos : AloneWith(p, i)' => node'[i].count = 1 /\ node'[i].lock = p,
           \A i \in Inos : node'[i].kind = "none" =>
               \/ AloneWith(p, i)'
               \/ node'[i].count = 0
               \/ /\ node[i].kind = "none" /\ node'[i].count = node[i].count
                  /\ ~AloneWith(p, i),
           pc'[p] = "made" => refs'[p][2] \notin free',
           UniqueNames', \A i \in Inos : CountsAre(i)'
    PROVE  Exact'
<1>1. Alone'
  BY OthersGo DEF Alone
<1>2. Idle'
  <2> SUFFICES ASSUME NEW i \in Inos, node'[i].kind = "none", node'[i].count # 0,
                      ~AloneWith(p, i)'
               PROVE  \E q \in Procs : AloneWith(q, i)'
    BY DEF Idle
  <2>1. node[i].kind = "none" /\ node[i].count # 0 /\ ~AloneWith(p, i)
    OBVIOUS
  <2>2. PICK q \in Procs : AloneWith(q, i)
    BY <2>1 DEF Exact, Idle
  <2> QED BY <2>1, <2>2, OthersGo
<1>3. FreeIdle'
  <2> SUFFICES ASSUME NEW i \in free'
               PROVE  node'[i].kind = "none" /\ \A q \in Procs : pc'[q] = "made" => refs'[q][2] # i
    BY DEF FreeIdle
  <2>1. i \in Inos
    BY DEF TreeType
  <2>2. CASE i \in free
    <3>1. node[i].kind = "none" /\ \A q \in Procs : pc[q] = "made" => refs[q][2] # i
      BY <2>2 DEF Exact, FreeIdle
    <3>2. node'[i].kind = "none"
      BY <2>1, <3>1 DEF Modest, LostType, Exact
    <3> QED BY <3>1, <3>2 DEF Modest, Moves
  <2>3. CASE i \notin free
    <3>1. pc[p] = "trunc" /\ i = refs[p][1] /\ node'[i].kind = "none"
      BY <2>3 DEF Modest, LostType, Exact
    <3>2. ASSUME NEW q \in Procs \ {p}, pc[q] = "made"
          PROVE  refs[q][2] # i
      BY <2>1, <3>1, <3>2, NeedsRefs, RefsAre, NotAlone DEF AloneWith
    <3> QED BY <3>1, <3>2 DEF Modest, Moves
  <2> QED BY <2>2, <2>3
<1>4. \A q \in Procs : Held(q)' /\ Goes(q)'
  BY OthersGo
<1>5. LostType'
  BY DEF Modest, LostType, Exact
<1> QED BY <1>1, <1>2, <1>3, <1>4, <1>5 DEF Exact

\* Calls that count for no inode.
Apart(p) == \A i : p \notin Making(i) /\ p \notin Linking(i) /\ p \notin Pending(i)

LEMMA ApartIs ==
    ASSUME NEW p \in Procs
    PROVE  /\ pc[p] \notin {"writedir", "count", "release"} /\ back[p] # "count" => Apart(p)
           /\ pc'[p] \notin {"writedir", "count", "release"} /\ back'[p] # "count" => Apart(p)'
  BY DEF Apart, Making, Linking, Pending

\* A step that leaves the names and their numbers as they are.
Nameless(p) ==
    /\ UNCHANGED <<ent, pruned, unwritten>>
    /\ \A i \in Inos : /\ node'[i].kind = node[i].kind /\ node'[i].nlink = node[i].nlink
                       /\ p \in Making(i)' <=> p \in Making(i)
                       /\ p \in Linking(i)' <=> p \in Linking(i)
                       /\ p \in Pending(i)' => p \in Pending(i)

LEMMA NamelessKeeps ==
    ASSUME DirInv, Exact, NEW p \in Procs, Modest(p), Nameless(p)
    PROVE  Edits(p) /\ UniqueNames' /\ \A i \in Inos : CountsAre(i)'
<1>1. Edits(p)
  BY DEF Nameless, Edits, EntryAt, Live
<1>2. UniqueNames'
  <2>1. UniqueNames
    BY DEF Exact
  <2> QED BY <2>1 DEF UniqueNames, Live, Nameless
<1>3. ASSUME NEW i \in Inos
      PROVE  CountsAre(i)'
  <2>1. Named(i)' = Named(i)
    BY DEF Named, Live, Nameless
  <2>2. /\ Making(i)' = Making(i) /\ Linking(i)' = Linking(i)
        /\ Pending(i)' \subseteq Pending(i) /\ Pending(i) \in SUBSET Procs
        /\ Making(i) \in SUBSET Procs /\ Linking(i) \in SUBSET Procs
    <3>1. /\ Making(i) \in SUBSET Procs /\ Linking(i) \in SUBSET Procs
          /\ Pending(i) \in SUBSET Procs /\ Making(i)' \in SUBSET Procs
          /\ Linking(i)' \in SUBSET Procs /\ Pending(i)' \in SUBSET Procs
      BY DEF Making, Linking, Pending
    <3>2. \A q \in Procs : /\ q \in Making(i)' <=> q \in Making(i)
                           /\ q \in Linking(i)' <=> q \in Linking(i)
                           /\ q \in Pending(i)' => q \in Pending(i)
      BY <1>1, OthersCount DEF Nameless
    <3> QED BY <3>1, <3>2
  <2>3. /\ node'[i].kind = node[i].kind /\ node'[i].nlink = node[i].nlink
        /\ pruned' = pruned /\ CountsAre(i) /\ node[i].nlink \in Int
        /\ unwritten'[i] = unwritten[i] /\ unwritten[i] \in Int
    BY Types DEF Nameless, Exact, NodeType, Node, LostType
  <2>4. PICK S, T : S = Pending(i) /\ T = Pending(i)'
    OBVIOUS
  <2>5. /\ Cardinality(S) \in Nat /\ Cardinality(T) \in Nat
        /\ Cardinality(T) <= Cardinality(S) /\ (T = S \/ pruned)
    <3>1. IsFiniteSet(S) /\ T \in SUBSET S
      BY <2>2, <2>4, FS_Subset, DirectoriesAssumption
    <3>2. IsFiniteSet(T) /\ Cardinality(T) <= Cardinality(S)
      BY <3>1, FS_Subset
    <3>3. T = S \/ pruned
      BY <2>3, <2>4, <3>1 DEF CountsAre
    <3> QED BY <3>1, <3>2, <3>3, FS_CardinalityType
  <2>6. PICK n \in Int : /\ Tally(i) = n + Cardinality(S)
                         /\ Tally(i)' = n + Cardinality(T)
    <3>1. /\ Cardinality(Named(i)) \in Nat /\ Cardinality(Making(i)) \in Nat
          /\ Cardinality(Linking(i)) \in Nat /\ One(i = Root) \in Nat
      <4>1. IsFiniteSet(Making(i)) /\ IsFiniteSet(Linking(i)) /\ IsFiniteSet(Named(i))
        BY <2>2, <2>3, FS_Subset, DirectoriesAssumption DEF CountsAre
      <4> QED BY <4>1, FS_CardinalityType DEF One
    <3>2. PICK n \in Int : n = Cardinality(Named(i)) + One(i = Root) + Cardinality(Making(i))
                               - Cardinality(Linking(i)) + unwritten[i]
      BY <2>3, <3>1
    <3> QED BY <2>1, <2>2, <2>3, <2>4, <2>5, <3>1, <3>2 DEF Tally
  <2>7. Tally(i)' <= node'[i].nlink /\ (~pruned' => Tally(i)' = node'[i].nlink)
    BY <2>3, <2>5, <2>6 DEF CountsAre
  <2> QED BY <2>1, <2>2, <2>3, <2>4, <2>5, <2>7 DEF CountsAre
<1> QED BY <1>1, <1>2, <1>3

\* Places where a call needs nothing locked and has promised nothing.
Resting == {"user", "asleep", "iput", "error", "found", "open1", "entered", "linkto"}

LEMMA Rests ==
    ASSUME NEW p \in Procs, pc'[p] \in Resting, back'[p] \notin {"next", "count"}
    PROVE  Held(p)' /\ Goes(p)' /\ Apart(p)' /\ \A i : ~AloneWith(p, i)'
<1>1. pc'[p] \notin {"writedir", "count", "release"}
  BY DEF Resting
<1> QED BY <1>1, ApartIs DEF Held, Goes, AloneWith, Giving, Resting

\* A step of a call that is apart, and changes at most a lock of its own.
Plain(p) ==
    /\ Moves(p) /\ (\A q \in Procs \ {p} : off'[q] = off[q]) /\ cpu \in {p, NoProc}
    /\ UNCHANGED <<ent, pruned, unwritten>> /\ free' \subseteq free
    /\ \A i \in Inos :
          /\ node'[i].kind = node[i].kind /\ node'[i].nlink = node[i].nlink
          /\ node'[i].count = node[i].count
          /\ node'[i].lock = node[i].lock \/ node[i].lock \in {p, NoProc}
    /\ pc[p] \in {"user", "search", "error", "found", "clear?", "next", "open1", "entered",
                  "ialloc", "linkto", "unlink"}

LEMMA PlainKeeps ==
    ASSUME DirInv, Exact, TreeType', OffType', NEW p \in Procs, Plain(p), Held(p)', Goes(p)',
           Apart(p)', \A i : ~AloneWith(p, i)'
    PROVE  Exact'
<1>1. Modest(p) /\ \A i : ~AloneWith(p, i)
  BY DEF Modest, Plain, AloneWith, LostType, Exact
<1>2. Apart(p)
  <2>1. back[p] = "out"
    BY DEF Plain, DirInv, Knows, Giving
  <2> QED BY <2>1, ApartIs DEF Plain
<1>3. Nameless(p)
  BY <1>2 DEF Nameless, Plain, Apart
<1>4. Edits(p) /\ UniqueNames' /\ \A i \in Inos : CountsAre(i)'
  BY <1>1, <1>3, NamelessKeeps
<1>5. pc'[p] # "made"
  <2>1. ~AloneWith(p, refs[p][2])'
    OBVIOUS
  <2> QED BY <2>1 DEF AloneWith
<1> QED BY <1>1, <1>4, <1>5, NamesKept DEF Plain

\* Calls that end, or go on with what they have.
LEMMA NamesLeaves ==
    ASSUME DirInv, DirInv', Exact, NEW p \in Procs,
           \/ Denied(p) \/ NotFound(p) \/ Error(p) \/ Refused(p) \/ UnLinkDenied(p)
           \/ NextFails(p) \/ Arrived(p) \/ Empties(p)
    PROVE  Exact'
<1> USE DEF At, GoOn, SleepAt, UserMode, Put, Leave, Forget, history, locals
<1>1. PlaceType /\ LocalType /\ UserType /\ OffType /\ TreeType' /\ Knows(p)
  BY DEF DirInv, Exact
<1>2. /\ UNCHANGED <<node, ent, free, pruned, unwritten, refs>> /\ cpu \in {p, NoProc}
      /\ pc[p] \in {"search", "error", "found", "clear?", "next"}
  BY DEF Denied, NotFound, Error, Refused, UnLinkDenied, NextFails, Arrived, Empties, Looks
<1>3. CASE Arrived(p) \/ Empties(p)
  <2>1. PICK l \in {"found", "open1"} : pc' = [pc EXCEPT ![p] = l]
    BY <1>3 DEF Arrived, Empties
  <2>2. UNCHANGED <<call, path, num, back, off>>
    BY <1>3 DEF Arrived, Empties
  <2>3. /\ OffType' /\ Plain(p) /\ pc'[p] \in Resting /\ back'[p] = "out"
    BY <1>1, <1>2, <2>1, <2>2
    DEF OffType, Plain, Moves, PlaceType, Resting, Knows, Giving
  <2> QED BY <1>1, <2>3, Rests, PlainKeeps
<1>4. CASE \/ Denied(p) \/ NotFound(p) \/ Error(p) \/ Refused(p) \/ UnLinkDenied(p)
           \/ NextFails(p)
  <2>1. Forget(p) /\ \E l \in {"user", "iput"} : pc' = [pc EXCEPT ![p] = l]
    BY <1>4 DEF Denied, NotFound, Error, Refused, UnLinkDenied, NextFails, Looks
  <2>2. /\ OffType' /\ Plain(p) /\ pc'[p] \in Resting /\ back'[p] = "out"
    BY <1>1, <1>2, <2>1 DEF OffType, Plain, Moves, PlaceType, LocalType, Resting
  <2> QED BY <1>1, <2>2, Rests, PlainKeeps
<1> QED BY <1>3, <1>4

\* Calls that hand an inode over to a file, a directory, or nobody, or unlock it.
LEMMA NamesHands ==
    ASSUME DirInv, DirInv', Exact, NEW p \in Procs, ~stolen',
           \/ Close(p) \/ Open1(p) \/ Open1Full(p) \/ Entered(p) \/ MakNodeFails(p)
           \/ ChDir(p) \/ Link(p)
    PROVE  Exact'
<1> USE DEF At, GoOn, SleepAt, UserMode, Put, Leave, Forget, history
<1>1. /\ NodeType /\ PlaceType /\ LocalType /\ UserType /\ OffType /\ TreeType' /\ Knows(p)
      /\ HasRefs(p)
  BY DEF DirInv, Exact
<1>2. /\ UNCHANGED <<ent, free, pruned, unwritten>> /\ cpu \in {p, NoProc}
      /\ pc[p] \in {"user", "found", "open1", "entered", "ialloc"}
  BY DEF Close, Open1, Open1Full, Entered, MakNodeFails, ChDir, Link, Opens
<1>3. \A i \in Inos : /\ node'[i].kind = node[i].kind /\ node'[i].nlink = node[i].nlink
                      /\ node'[i].count = node[i].count
                      /\ node'[i].lock = node[i].lock \/ node[i].lock \in {p, NoProc}
  <2>1. CASE UNCHANGED node
    BY <2>1
  <2>2. CASE Open1(p) \/ Open1Full(p) \/ Entered(p) \/ Link(p)
    <3>1. PICK i : node' = [node EXCEPT ![i].lock = NoProc] /\ Unlocks(p, i)
      BY <2>2 DEF Open1, Open1Full, Entered, Link
    <3> QED BY <1>1, <3>1 DEF Unlocks, NodeType, Node
  <2> QED BY <2>1, <2>2 DEF Close, MakNodeFails, ChDir
<1>4. \E s : refs' = [refs EXCEPT ![p] = s]
  <2>1. CASE UNCHANGED refs
    <3>1. refs' = [refs EXCEPT ![p] = refs[p]]
      BY <1>1, <2>1 DEF UserType
    <3> QED BY <3>1
  <2>2. CASE Close(p) \/ Open1(p) \/ MakNodeFails(p) \/ ChDir(p)
    BY <2>2 DEF Close, Open1, MakNodeFails, ChDir
  <2> QED BY <2>1, <2>2 DEF Open1Full, Entered, Link
<1>5. CASE Close(p) \/ Open1(p) \/ Open1Full(p) \/ Entered(p) \/ MakNodeFails(p)
  <2>1. Forget(p) /\ \E l \in {"user", "iput"} : pc' = [pc EXCEPT ![p] = l]
    BY <1>5 DEF Close, Open1, Open1Full, Entered, MakNodeFails
  <2>2. /\ OffType' /\ Plain(p) /\ pc'[p] \in Resting /\ back'[p] = "out"
    BY <1>1, <1>2, <1>3, <1>4, <2>1
    DEF OffType, Plain, Moves, PlaceType, LocalType, UserType, Resting
  <2> QED BY <1>1, <2>2, Rests, PlainKeeps
<1>6. CASE ChDir(p)
  <2>1. /\ pc' = [pc EXCEPT ![p] = "iput"] /\ back' = [back EXCEPT ![p] = "entered"]
        /\ UNCHANGED <<call, path, num, off>>
    BY <1>6 DEF ChDir
  <2>2. /\ OffType' /\ Plain(p) /\ pc'[p] \in Resting /\ back'[p] = "entered"
    BY <1>1, <1>2, <1>3, <1>4, <2>1
    DEF OffType, Plain, Moves, PlaceType, LocalType, UserType, Resting
  <2> QED BY <1>1, <2>2, Rests, PlainKeeps
<1>7. CASE Link(p)
  <2>1. /\ pc' = [pc EXCEPT ![p] = "linkto"] /\ call' = [call EXCEPT ![p] = "linkto"]
        /\ UNCHANGED <<num, off, back>> /\ \E way : path' = [path EXCEPT ![p] = way]
        /\ pc[p] = "found"
    BY <1>7 DEF Link
  <2>2. back[p] = "out"
    BY <1>1, <2>1 DEF Knows, Giving
  <2>3. /\ OffType' /\ Plain(p) /\ pc'[p] \in Resting /\ back'[p] = "out"
    BY <1>1, <1>2, <1>3, <1>4, <2>1, <2>2
    DEF OffType, Plain, Moves, PlaceType, LocalType, UserType, Resting
  <2> QED BY <1>1, <2>3, Rests, PlainKeeps
<1> QED BY <1>5, <1>6, <1>7

LEMMA Least ==
    ASSUME NEW T, T \subseteq Nat, T # {}
    PROVE  \E x \in T : \A y \in T : x <= y
<1> DEFINE R == OpToRel(<, Nat)
<1>1. IsWellFoundedOn(R, Nat)
  BY NatLessThanWellFounded
<1>2. \A y, x \in Nat : <<y, x>> \in R <=> y < x
  BY DEF OpToRel
<1> HIDE DEF R
<1>3. PICK x \in T : \A y \in T : ~(<<y, x>> \in R)
  BY <1>1, WFMin
<1>4. \A y \in T : x <= y
  <2> TAKE y \in T
  <2>1. ~(y < x)
    BY <1>2, <1>3, Zenon
  <2>2. x \in Nat /\ y \in Nat
    OBVIOUS
  <2> QED BY <2>1, <2>2
<1> QED BY <1>4

\* The entries of a directory, and the place NameI finds for a new one.
LEMMA EntriesAre ==
    ASSUME TreeType, NEW d \in Inos
    PROVE  /\ ent[d] \in Seq(Entry) /\ Len(ent[d]) \in Nat
           /\ DOMAIN ent[d] = 1..Len(ent[d]) /\ Live(d) \subseteq 1..Len(ent[d])
           /\ FreeEntryOffset(d) \in FreeEntries(d) \cup {Len(ent[d]) + 1}
           /\ FreeEntryOffset(d) \in Nat
<1>1. /\ ent[d] \in Seq(Entry) /\ Len(ent[d]) \in Nat
      /\ DOMAIN ent[d] = 1..Len(ent[d]) /\ Live(d) \subseteq 1..Len(ent[d])
  BY LenProperties DEF TreeType, Live
<1>2. PICK F : F = FreeEntries(d)
  OBVIOUS
<1>3. F \subseteq Nat
  BY <1>1, <1>2 DEF FreeEntries
<1>4. CASE F = {}
  BY <1>1, <1>2, <1>4 DEF FreeEntryOffset
<1>5. CASE F # {}
  <2>1. \E x \in F : \A y \in F : x <= y
    BY <1>3, <1>5, Least
  <2>2. Min(F) \in F
    BY <2>1 DEF Min
  <2> QED BY <1>1, <1>2, <1>3, <1>5, <2>2 DEF FreeEntryOffset
<1> QED BY <1>1, <1>4, <1>5

\* A search that finds nothing has found that nothing has the name.
LEMMA NothingFound ==
    ASSUME TreeType, NEW p \in Procs, Head(refs[p]) \in Inos, Found(p) = {}
    PROVE  Matches(Head(refs[p]), Head(path[p])) = {}
<1>1. PICK M : M = Matches(Head(refs[p]), Head(path[p]))
  OBVIOUS
<1>2. Live(Head(refs[p])) \subseteq 1..Len(ent[Head(refs[p])]) /\ Len(ent[Head(refs[p])]) \in Nat
  BY EntriesAre
<1>3. M \subseteq Nat
  BY <1>1, <1>2 DEF Matches
<1>4. CASE M # {}
  <2>1. PICK x \in M : \A y \in M : x <= y
    BY <1>3, <1>4, Least
  <2>2. x \in Found(p)
    BY <1>1, <2>1 DEF Found
  <2> QED BY <2>2
<1> QED BY <1>1, <1>4

\* NameI's steps from a directory, and UnLink's with what it has found.
LEMMA NamesSearches ==
    ASSUME DirInv, DirInv', Exact, NEW p \in Procs, ~stolen',
           Clear(p) \/ ToCreate(p) \/ ToDelete(p) \/ Descend(p)
    PROVE  Exact'
<1> USE DEF At, GoOn, SleepAt, Put, history, locals
<1>1. /\ NodeType /\ PlaceType /\ LocalType /\ UserType /\ OffType /\ TreeType' /\ Knows(p)
      /\ HasRefs(p) /\ Held(p) /\ Goes(p) /\ TreeType
  BY DEF DirInv, Exact
<1>2. /\ UNCHANGED <<ent, free, pruned, unwritten, refs, call>> /\ cpu \in {p, NoProc}
      /\ pc[p] \in {"clear?", "search"}
  BY DEF Clear, ToCreate, ToDelete, Descend, Looks
<1>3. PICK d \in Inos : d = refs[p][1] /\ d = Head(refs[p]) /\ Len(refs[p]) >= 1
  BY <1>2, NeedsRefs, RefsAre
<1>4. /\ Len(ent[d]) \in Nat /\ Live(d) \subseteq 1..Len(ent[d])
      /\ FreeEntryOffset(d) \in FreeEntries(d) \cup {Len(ent[d]) + 1}
      /\ FreeEntryOffset(d) \in Nat
  BY <1>1, EntriesAre
<1>5. back[p] = "out"
  BY <1>1, <1>2 DEF Knows, Giving
<1>6. CASE Clear(p)
  <2>1. /\ UNCHANGED <<node, path, num, back, off>> /\ pc' = [pc EXCEPT ![p] = "clear"]
        /\ pc[p] = "clear?"
    BY <1>6 DEF Clear
  <2>2. OffType' /\ Plain(p) /\ pc'[p] = "clear" /\ back'[p] = "out"
    BY <1>1, <1>2, <1>5, <2>1 DEF OffType, Plain, Moves, PlaceType
  <2>3. Held(p)'
    BY <1>1, <1>2, <2>1, <2>2 DEF Held
  <2>4. Goes(p)'
    BY <1>1, <1>2, <2>1, <2>2 DEF Goes, Giving, EntryAt, Live
  <2>5. Apart(p)' /\ \A i : ~AloneWith(p, i)'
    BY <2>2, ApartIs DEF AloneWith
  <2> QED BY <1>1, <2>2, <2>3, <2>4, <2>5, PlainKeeps
<1>7. CASE ToCreate(p)
  <2>1. PICK l \in {"writedir", "ialloc"} : /\ pc' = [pc EXCEPT ![p] = l]
                                            /\ l = "writedir" => call[p] = "linkto"
    BY <1>7 DEF ToCreate
  <2>2. /\ UNCHANGED <<node, path, num, back>> /\ off' = [off EXCEPT ![p] = FreeEntryOffset(d)]
        /\ pc[p] = "search" /\ Found(p) = {}
    BY <1>3, <1>7 DEF ToCreate, Looks
  <2>3. /\ OffType' /\ Plain(p) /\ pc'[p] = l /\ back'[p] = "out"
        /\ off'[p] = FreeEntryOffset(d)
    BY <1>1, <1>2, <1>4, <1>5, <2>1, <2>2 DEF OffType, Plain, Moves, PlaceType
  <2>4. Held(p)'
    BY <1>1, <1>2, <2>1, <2>2, <2>3 DEF Held
  <2>5. SlotFree(p)'
    <3>1. Matches(d, Head(path[p])) = {}
      BY <1>1, <1>3, <2>2, NothingFound
    <3> QED BY <1>2, <1>3, <1>4, <2>2, <2>3, <3>1 DEF SlotFree, Matches, FreeEntries, Live
  <2>6. Goes(p)'
    BY <2>1, <2>3, <2>5 DEF Goes, Giving
  <2>7. Apart(p)'
    BY <1>2, <2>1, <2>3 DEF Apart, Making, Linking, Pending
  <2>8. \A i : ~AloneWith(p, i)'
    BY <2>1, <2>3 DEF AloneWith
  <2> QED BY <1>1, <2>3, <2>4, <2>6, <2>7, <2>8, PlainKeeps
<1>8. CASE ToDelete(p)
  <2>1. PICK k \in Found(p) : /\ num' = [num EXCEPT ![p] = ent[d][k].ino]
                              /\ off' = [off EXCEPT ![p] = k]
    BY <1>3, <1>8 DEF ToDelete
  <2>2. /\ UNCHANGED <<path, back>> /\ pc' = [pc EXCEPT ![p] = "unlink"] /\ cpu' = p
        /\ pc[p] = "search" /\ node' = [node EXCEPT ![d].lock = NoProc] /\ Unlocks(p, d)
    BY <1>3, <1>8 DEF ToDelete, Looks
  <2>3. k \in Live(d) /\ k \in Nat
    BY <1>3, <1>4, <2>1 DEF Found, Matches
  <2>4. \A i \in Inos : /\ node'[i].kind = node[i].kind /\ node'[i].nlink = node[i].nlink
                        /\ node'[i].count = node[i].count
                        /\ node'[i].lock = node[i].lock \/ node[i].lock \in {p, NoProc}
    BY <1>1, <2>2 DEF Unlocks, NodeType, Node
  <2>5. /\ OffType' /\ Plain(p) /\ pc'[p] = "unlink" /\ back'[p] = "out"
        /\ off'[p] = k /\ num'[p] = ent[d][k].ino
    BY <1>1, <1>2, <1>5, <2>1, <2>2, <2>3, <2>4 DEF OffType, Plain, Moves, PlaceType, LocalType
  <2>6. Held(p)' /\ Apart(p)' /\ \A i : ~AloneWith(p, i)'
    BY <2>5, ApartIs DEF Held, AloneWith
  <2>7. Goes(p)'
    BY <1>2, <1>3, <2>2, <2>3, <2>5 DEF Goes, Giving, EntryAt, Live
  <2> QED BY <1>1, <2>5, <2>6, <2>7, PlainKeeps
<1>9. CASE Descend(p)
  <2>1. PICK k \in Found(p) : num' = [num EXCEPT ![p] = ent[d][k].ino]
    BY <1>3, <1>9 DEF Descend
  <2>2. /\ UNCHANGED <<node, off>> /\ pc' = [pc EXCEPT ![p] = "iput"] /\ cpu' = p
        /\ back' = [back EXCEPT ![p] = "next"] /\ path' = [path EXCEPT ![p] = Tail(path[p])]
        /\ pc[p] = "search"
    BY <1>9 DEF Descend, Looks
  <2>3. k \in Live(d) /\ k \in Nat
    BY <1>3, <1>4, <2>1 DEF Found, Matches
  <2>4. /\ OffType' /\ Plain(p) /\ pc'[p] = "iput" /\ back'[p] = "next"
        /\ num'[p] = ent[d][k].ino
    BY <1>1, <1>2, <2>1, <2>2 DEF OffType, Plain, Moves, PlaceType, LocalType
  <2>5. Held(p)' /\ Apart(p)' /\ \A i : ~AloneWith(p, i)'
    BY <2>4, ApartIs DEF Held, AloneWith
  <2>6. Leads(p)'
    BY <1>2, <1>3, <2>3, <2>4 DEF Leads, EntryAt, Live
  <2>7. Goes(p)'
    BY <2>2, <2>4, <2>6 DEF Goes, Giving
  <2> QED BY <1>1, <2>4, <2>5, <2>7, PlainKeeps
<1> QED BY <1>6, <1>7, <1>8, <1>9

\* An inode that has a name is a file or a directory.
LEMMA NamedIsFile ==
    ASSUME Exact, NEW d \in Inos, NEW k, NEW i \in Inos, EntryAt(d, k, i)
    PROVE  <<d, k>> \in Named(i) /\ node[i].kind # "none"
<1>1. <<d, k>> \in Named(i)
  BY DEF Named, EntryAt
<1> QED BY <1>1 DEF Exact, CountsAre

\* One reference more to i, with its lock.
LEMMA GotNode ==
    ASSUME NodeType, NEW i \in Inos, NEW p \in Procs,
           node' = [node EXCEPT ![i].count = @ + 1, ![i].lock = p]
    PROVE  /\ node'[i].count = node[i].count + 1 /\ node'[i].lock = p
           /\ node'[i].kind = node[i].kind /\ node'[i].nlink = node[i].nlink
           /\ \A j \in Inos \ {i} : node'[j] = node[j]
<1>1. PICK m : m = [node EXCEPT ![i].count = @ + 1]
  OBVIOUS
<1>2. /\ m[i].count = node[i].count + 1 /\ m[i].kind = node[i].kind
      /\ m[i].nlink = node[i].nlink /\ DOMAIN m = Inos /\ \A j \in Inos \ {i} : m[j] = node[j]
      /\ m[i] = [node[i] EXCEPT !.count = node[i].count + 1] /\ node[i] \in Node
  BY <1>1 DEF NodeType, Node
<1>3. m[i] \in [kind : {"none", "file", "dir"}, nlink : Int, count : Int,
                lock : Procs \cup {NoProc}]
  BY <1>2 DEF Node
<1>4. node' = [m EXCEPT ![i] = [m[i] EXCEPT !.lock = p]]
  BY <1>1
<1> QED BY <1>2, <1>3, <1>4

LEMMA GaveNode ==
    ASSUME NodeType, NEW i \in Inos,
           node' = [node EXCEPT ![i].count = @ - 1, ![i].lock = NoProc]
    PROVE  /\ node'[i].count = node[i].count - 1 /\ node'[i].lock = NoProc
           /\ node'[i].kind = node[i].kind /\ node'[i].nlink = node[i].nlink
           /\ \A j \in Inos \ {i} : node'[j] = node[j]
<1>1. PICK m : m = [node EXCEPT ![i].count = @ - 1]
  OBVIOUS
<1>2. /\ m[i].count = node[i].count - 1 /\ m[i].kind = node[i].kind
      /\ m[i].nlink = node[i].nlink /\ DOMAIN m = Inos /\ \A j \in Inos \ {i} : m[j] = node[j]
      /\ m[i] = [node[i] EXCEPT !.count = node[i].count - 1] /\ node[i] \in Node
  BY <1>1 DEF NodeType, Node
<1>3. m[i] \in [kind : {"none", "file", "dir"}, nlink : Int, count : Int,
                lock : Procs \cup {NoProc}]
  BY <1>2 DEF Node
<1>4. node' = [m EXCEPT ![i] = [m[i] EXCEPT !.lock = NoProc]]
  BY <1>1
<1> QED BY <1>2, <1>3, <1>4

LEMMA NamesGot ==
    ASSUME DirInv, DirInv', Exact, NEW p \in Procs, NEW i \in Inos, node[i].lock = NoProc,
           node' = [node EXCEPT ![i].count = @ + 1, ![i].lock = p],
           Moves(p), UNCHANGED <<ent, pruned, unwritten, off>>, cpu \in {p, NoProc},
           free' \subseteq free,
           pc[p] \in {"user", "next", "ialloc", "linkto", "unlink"},
           pc'[p] \in {"search", "error", "made", "clear?"}, back'[p] = "out",
           Held(p)', Goes(p)',
           pc'[p] = "made" => i \notin free' /\ refs'[p][2] = i /\ node[i].count = 0,
           pc'[p] # "made" => node[i].kind # "none"
    PROVE  Exact'
<1>1. NodeType /\ TreeType' /\ OffType /\ OffType' /\ back[p] = "out"
  BY DEF DirInv, Exact, OffType, Knows, Giving
<1>2. /\ node'[i].count = node[i].count + 1 /\ node'[i].lock = p
      /\ node'[i].kind = node[i].kind /\ node'[i].nlink = node[i].nlink
      /\ \A j \in Inos \ {i} : node'[j] = node[j]
  BY <1>1, GotNode
<1>3. Modest(p)
  BY <1>2 DEF Modest, LostType, Exact
<1>4. Nameless(p)
  <2>1. Apart(p) /\ Apart(p)'
    BY <1>1, ApartIs
  <2> QED BY <1>2, <2>1 DEF Nameless, Apart
<1>5. Edits(p) /\ UniqueNames' /\ \A j \in Inos : CountsAre(j)'
  BY <1>3, <1>4, NamelessKeeps
<1>6. \A j : ~AloneWith(p, j)
  BY DEF AloneWith
<1>7. \A j : AloneWith(p, j)' <=> pc'[p] = "made" /\ j = i
  BY DEF AloneWith
<1>8. \A j \in Inos : AloneWith(p, j)' => node'[j].count = 1 /\ node'[j].lock = p
  <2>1. pc'[p] = "made" => node'[i].count = 1
    BY <1>2
  <2> QED BY <1>2, <1>7, <2>1, Zenon
<1>9. ASSUME NEW j \in Inos, node'[j].kind = "none"
      PROVE  \/ AloneWith(p, j)'
             \/ node[j].kind = "none" /\ node'[j].count = node[j].count /\ ~AloneWith(p, j)
  BY <1>2, <1>6, <1>7, <1>9
<1>10. pc'[p] = "made" => refs'[p][2] \notin free'
  OBVIOUS
<1> QED BY <1>1, <1>3, <1>5, <1>8, <1>9, <1>10, NamesKept

\* IGet, with what the call is at and comes to.
Comes(p, i, label, got, c, way) ==
    /\ pc[p] \in {"user", "next", "ialloc", "linkto", "unlink"} /\ cpu \in {p, NoProc}
    /\ label \in {"search", "error", "made", "clear?"}
    /\ label \in {"search", "error"} => got = <<i>> \o refs[p] /\ node[i].kind # "none"
    /\ label \in {"made", "clear?"} => got = Append(refs[p], i) /\ Len(refs[p]) = 1
    /\ label = "clear?" => pc[p] = "unlink" /\ i = num[p]
    /\ label = "made" => /\ pc[p] = "ialloc" /\ way = path[p]
                         /\ i \in free /\ i \notin free'

LEMMA NamesGet ==
    ASSUME DirInv, DirInv', Exact, NEW p \in Procs, NEW i \in Inos,
           NEW label, NEW got, NEW c, NEW way, Comes(p, i, label, got, c, way),
           Get(p, i, label, got, c, way), UNCHANGED <<ent, pruned, unwritten>>, free' \subseteq free
    PROVE  Exact'
<1> USE DEF GoOn, SleepAt, Put, Comes
<1>1. /\ NodeType /\ PlaceType /\ LocalType /\ UserType /\ OffType /\ TreeType' /\ Knows(p)
      /\ HasRefs(p) /\ Held(p) /\ Goes(p) /\ TreeType
  BY DEF DirInv, Exact
<1>2. back[p] = "out" /\ Len(refs[p]) \in 0..2 /\ refs[p] \in Seq(Inos)
  BY <1>1, RefsAre DEF Knows, Giving
<1>3. CASE node[i].lock # NoProc
  <2>1. /\ pc' = [pc EXCEPT ![p] = "asleep"] /\ num' = [num EXCEPT ![p] = i]
        /\ call' = [call EXCEPT ![p] = "none"] /\ path' = [path EXCEPT ![p] = << >>]
        /\ off' = [off EXCEPT ![p] = 0] /\ UNCHANGED <<node, refs, back>>
    BY <1>3 DEF Get
  <2>2. /\ OffType' /\ Plain(p) /\ pc'[p] \in Resting /\ back'[p] = "out"
    BY <1>1, <1>2, <2>1 DEF OffType, Plain, Moves, PlaceType, LocalType, Resting
  <2> QED BY <1>1, <2>2, Rests, PlainKeeps
<1>4. CASE node[i].lock = NoProc
  <2>1. /\ node' = [node EXCEPT ![i].count = @ + 1, ![i].lock = p]
        /\ pc' = [pc EXCEPT ![p] = label]
        /\ refs' = [refs EXCEPT ![p] = got] /\ num' = [num EXCEPT ![p] = NoIno]
        /\ call' = [call EXCEPT ![p] = c] /\ path' = [path EXCEPT ![p] = way]
        /\ UNCHANGED <<back, off>>
    BY <1>4 DEF Get
  <2>2. /\ Moves(p) /\ pc'[p] = label /\ refs'[p] = got /\ call'[p] = c /\ path'[p] = way
        /\ back'[p] = "out" /\ off'[p] = off[p]
    BY <1>1, <1>2, <2>1 DEF Moves, PlaceType, LocalType, UserType
  <2>3. node'[i].lock = p /\ \A j \in Inos \ {i} : node'[j] = node[j]
    BY <1>1, <2>1, GotNode
  <2>4. CASE label \in {"search", "error"}
    <3>1. got[1] = i
      BY <1>2, <2>4, ConcatProperties
    <3>2. Held(p)' /\ Goes(p)'
      BY <2>2, <2>3, <2>4, <3>1 DEF Held, Goes, Giving
    <3> QED BY <1>4, <2>1, <2>2, <2>4, <3>2, NamesGot
  <2>5. CASE label \in {"made", "clear?"}
    <3>1. got[2] = i /\ got[1] = refs[p][1] /\ refs[p][1] \in Inos
      BY <1>2, <2>5, AppendProperties
    <3>2. CASE label = "made"
      <4>1. SlotFree(p) /\ node[refs[p][1]].lock = p
        BY <1>1, <3>2 DEF Goes, Held
      <4>2. node'[refs[p][1]].lock = p
        BY <2>3, <3>1, <4>1
      <4>3. Held(p)'
        BY <2>2, <3>1, <3>2, <4>2 DEF Held
      <4>4. SlotFree(p)'
        BY <2>2, <3>1, <3>2, <4>1 DEF SlotFree, FreeEntries, Matches, Live
      <4>5. node'[refs'[p][2]].kind = "none"
        <5>1. node'[i].kind = node[i].kind
          BY <1>1, <2>1, GotNode
        <5>2. node[i].kind = "none"
          BY <3>2 DEF Exact, FreeIdle
        <5> QED BY <2>2, <3>1, <5>1, <5>2
      <4>6. Goes(p)'
        BY <2>2, <3>2, <4>4, <4>5 DEF Goes, Giving
      <4>7. node[i].count = 0
        BY <1>4, <3>2, FreeIsUnused
      <4> QED BY <1>4, <2>1, <2>2, <3>1, <3>2, <4>3, <4>6, <4>7, NamesGot
    <3>3. CASE label = "clear?"
      <4>1. EntryAt(refs[p][1], off[p], i)
        BY <1>1, <3>3 DEF Goes
      <4>2. node[i].kind # "none"
        BY <3>1, <4>1, NamedIsFile
      <4>3. Held(p)'
        BY <2>2, <2>3, <3>1, <3>3 DEF Held
      <4>4. EntryAt(refs[p][1], off[p], refs[p][2])'
        BY <2>2, <3>1, <4>1 DEF EntryAt, Live
      <4>5. Goes(p)'
        BY <2>2, <3>3, <4>4 DEF Goes, Giving
      <4> QED BY <1>4, <2>1, <2>2, <3>3, <4>2, <4>3, <4>5, NamesGot
    <3> QED BY <2>5, <3>2, <3>3
  <2> QED BY <2>4, <2>5
<1> QED BY <1>3, <1>4

\* The steps that get an inode.
LEMMA NamesGets ==
    ASSUME DirInv, DirInv', Exact, NEW p \in Procs,
           Call(p) \/ Enter(p) \/ IAlloc(p) \/ LinkTo(p) \/ UnLink(p)
    PROVE  Exact'
<1> USE DEF At, history
<1>1. /\ TreeType /\ UserType /\ PlaceType /\ LocalType /\ HasRefs(p) /\ Knows(p) /\ Goes(p)
  BY DEF DirInv, Exact
<1>2. \A i \in {Root, cdir[p]} : i \in Inos /\ node[i].kind # "none"
  BY <1>1, UsedIsFile, DirectoriesAssumption DEF UserType
<1>3. CASE Call(p) \/ LinkTo(p)
  <2>1. PICK i \in {Root, cdir[p]} : \E c, way :
           /\ StartAt(p, i, c, way) /\ pc[p] \in {"user", "linkto"} /\ cpu \in {p, NoProc}
           /\ UNCHANGED <<ent, free, pruned, unwritten>>
    <3>1. CASE Call(p)
      BY <3>1, Zenon DEF Call
    <3>2. CASE LinkTo(p)
      BY <3>2 DEF LinkTo
    <3> QED BY <1>3, <3>1, <3>2
  <2>2. PICK c, way : /\ StartAt(p, i, c, way) /\ pc[p] \in {"user", "linkto"}
                      /\ cpu \in {p, NoProc} /\ UNCHANGED <<ent, free, pruned, unwritten>>
    BY <2>1
  <2>3. PICK label \in {"search", "error"} : Get(p, i, label, <<i>> \o refs[p], c, way)
    BY <2>2 DEF StartAt
  <2>4. Comes(p, i, label, <<i>> \o refs[p], c, way)
    BY <1>2, <2>2, <2>3 DEF Comes
  <2> QED BY <1>2, <2>2, <2>3, <2>4, NamesGet
<1>4. CASE Enter(p)
  <2>1. PICK i \in Inos : i = num[p]
    BY <1>1, <1>4 DEF Enter, Knows
  <2>2. /\ Get(p, i, "search", <<i>> \o refs[p], call[p], path[p])
        /\ UNCHANGED <<ent, free, pruned, unwritten>> /\ pc[p] = "next" /\ cpu \in {p, NoProc}
    BY <1>4, <2>1 DEF Enter
  <2>3. Comes(p, i, "search", <<i>> \o refs[p], call[p], path[p])
    BY <1>1, <2>1, <2>2 DEF Comes, Goes
  <2> QED BY <2>2, <2>3, NamesGet
<1>5. CASE IAlloc(p)
  <2>1. PICK i \in free : /\ free' = free \ {i} /\ pc[p] = "ialloc" /\ cpu \in {p, NoProc}
                          /\ Get(p, i, "made", Append(refs[p], i), call[p], path[p])
                          /\ UNCHANGED <<ent, pruned, unwritten>>
    BY <1>5 DEF IAlloc
  <2>2. i \in Inos /\ Len(refs[p]) = 1
    BY <1>1, <2>1 DEF TreeType, HasRefs
  <2>3. Comes(p, i, "made", Append(refs[p], i), call[p], path[p])
    BY <2>1, <2>2 DEF Comes
  <2>4. free' \subseteq free
    BY <2>1
  <2> QED BY <2>1, <2>2, <2>3, <2>4, NamesGet
<1>6. CASE UnLink(p)
  <2>1. PICK i \in Inos : i = num[p]
    BY <1>1, <1>6 DEF UnLink, Knows
  <2>2. /\ Get(p, i, "clear?", Append(refs[p], i), call[p], path[p])
        /\ UNCHANGED <<ent, free, pruned, unwritten>> /\ pc[p] = "unlink" /\ cpu \in {p, NoProc}
    BY <1>6, <2>1 DEF UnLink
  <2>3. Comes(p, i, "clear?", Append(refs[p], i), call[p], path[p])
    BY <1>1, <2>1, <2>2 DEF Comes, HasRefs
  <2> QED BY <2>2, <2>3, NamesGet
<1> QED BY <1>3, <1>4, <1>5, <1>6

\* IPut's last reference: who finds i_count at one is alone with the inode from here on.
LEMMA NamesLast ==
    ASSUME DirInv, DirInv', Exact, NEW p \in Procs, ~stolen', IPutLast(p)
    PROVE  Exact'
<1> USE DEF At, SleepAt, Put, locals
<1>1. /\ NodeType /\ PlaceType /\ UserType /\ OffType /\ TreeType' /\ Goes(p) /\ HasRefs(p)
  BY DEF DirInv, Exact
<1>2. PICK i \in Inos : i = refs[p][1] /\ i = Head(refs[p]) /\ Len(refs[p]) >= 1
  BY <1>1, RefsAre DEF IPutLast, HasRefs, Giving
<1>3. PICK l \in {"trunc", "release"} : /\ pc' = [pc EXCEPT ![p] = l]
                                        /\ l = "trunc" => node[i].nlink <= 0
  BY <1>2 DEF IPutLast
<1>4. /\ pc[p] = "iput" /\ cpu \in {p, NoProc} /\ node[i].count = 1 /\ Unlocks(p, i)
      /\ node' = [node EXCEPT ![i].lock = p]
      /\ UNCHANGED <<ent, free, pruned, unwritten, call, path, num, off, back, refs>>
  BY <1>2 DEF IPutLast
<1>5. /\ OffType' /\ Moves(p) /\ pc'[p] = l
  BY <1>1, <1>3, <1>4 DEF OffType, Moves, PlaceType
<1>6. /\ \A j \in Inos : /\ node'[j].kind = node[j].kind /\ node'[j].nlink = node[j].nlink
                         /\ node'[j].count = node[j].count
                         /\ node'[j].lock = node[j].lock \/ node[j].lock \in {p, NoProc}
      /\ node'[i].lock = p
  BY <1>1, <1>4 DEF Unlocks, NodeType, Node
<1>7. back[p] = "next" => Leads(p) /\ ent[i] # << >>
  <2> SUFFICES ASSUME back[p] = "next"
               PROVE  Leads(p) /\ ent[i] # << >>
    OBVIOUS
  <2>1. Leads(p)
    BY <1>1, <1>4 DEF Goes, Giving
  <2>2. PICK k : EntryAt(i, k, num[p])
    BY <1>2, <2>1 DEF Leads
  <2> QED BY <2>1, <2>2 DEF EntryAt, Live
<1>8. Modest(p)
  BY <1>4, <1>5, <1>6 DEF Modest, LostType, Exact
<1>9. Nameless(p)
  <2>1. \A j \in Inos : /\ p \in Making(j)' <=> p \in Making(j)
                        /\ p \in Linking(j)' <=> p \in Linking(j)
    BY <1>3, <1>4, <1>5 DEF Making, Linking
  <2>2. \A j \in Inos : p \notin Pending(j)'
    BY <1>2, <1>4, <1>7 DEF Pending
  <2> QED BY <1>4, <1>6, <2>1, <2>2 DEF Nameless
<1>10. Edits(p) /\ UniqueNames' /\ \A j \in Inos : CountsAre(j)'
  BY <1>8, <1>9, NamelessKeeps
<1>11. \A j : ~AloneWith(p, j)
  BY <1>4 DEF AloneWith
<1>12. AloneWith(p, i)' /\ \A j : AloneWith(p, j)' => j = i
  BY <1>2, <1>3, <1>4, <1>5 DEF AloneWith
<1>13. Held(p)'
  BY <1>3, <1>5 DEF Held
<1>14. Goes(p)'
  <2>1. back[p] = "next" => Leads(p)'
    BY <1>4, <1>7 DEF Leads, EntryAt, Live
  <2>2. pc'[p] = "trunc" => node'[refs'[p][1]].nlink <= 0
    BY <1>2, <1>3, <1>4, <1>5, <1>6
  <2>3. back[p] = "count" => call[p] = "linkto"
    BY <1>1 DEF Goes
  <2> QED BY <1>3, <1>4, <1>5, <2>1, <2>2, <2>3 DEF Goes
<1>15. \A j \in Inos : AloneWith(p, j)' => node'[j].count = 1 /\ node'[j].lock = p
  BY <1>4, <1>6, <1>12
<1>16. pc'[p] # "made"
  BY <1>3, <1>5
<1> QED BY <1>1, <1>5, <1>6, <1>8, <1>10, <1>11, <1>13, <1>14, <1>15, <1>16, NamesKept

\* IPut's end, whoever else uses the inode: the lock is cleared, and the call goes on.
LEMMA NamesGives ==
    ASSUME DirInv, DirInv', Exact, NEW p \in Procs, ~stolen', IPutShared(p) \/ Release(p)
    PROVE  Exact'
<1> USE DEF At, SleepAt, GoOn, Put, history
<1>1. /\ NodeType /\ PlaceType /\ LocalType /\ UserType /\ OffType /\ TreeType' /\ Goes(p)
      /\ HasRefs(p) /\ Knows(p)
  BY DEF DirInv, Exact
<1>2. PICK i \in Inos : i = refs[p][1] /\ i = Head(refs[p]) /\ Len(refs[p]) \in {1, 2}
  BY <1>1, RefsAre DEF IPutShared, Release, HasRefs, Giving
<1>3. PICK left : left = Tail(refs[p])
  OBVIOUS
<1>4. /\ pc[p] \in {"iput", "release"} /\ cpu \in {p, NoProc}
      /\ pc[p] = "iput" => Unlocks(p, i)
      /\ node' = [node EXCEPT ![i].count = @ - 1, ![i].lock = NoProc]
      /\ refs' = [refs EXCEPT ![p] = left] /\ Return(p, left)
      /\ UNCHANGED <<ent, free, pruned, unwritten>>
  BY <1>2, <1>3 DEF IPutShared, Release
<1>5. PICK l : /\ pc' = [pc EXCEPT ![p] = l] /\ back' = [back EXCEPT ![p] = "out"]
               /\ \/ l \in {"user", "iput"} /\ back[p] = "out"
                  \/ l = back[p] /\ back[p] # "out" /\ cpu' = p
               /\ \/ Forget(p) /\ back[p] = "out"
                  \/ UNCHANGED <<call, path, num, off>>
  <2>1. CASE back[p] = "out" /\ left = << >>
    BY <1>4, <2>1 DEF Return, UserMode, Forget
  <2>2. CASE back[p] = "out" /\ left # << >>
    <3>1. GoOn(p, "iput") /\ UNCHANGED locals
      BY <1>4, <2>2 DEF Return
    <3>2. back = [back EXCEPT ![p] = "out"]
      BY <1>1, <2>2 DEF PlaceType
    <3> QED BY <2>2, <3>1, <3>2 DEF locals
  <2>3. CASE back[p] # "out"
    BY <1>4, <2>3 DEF Return
  <2> QED BY <2>1, <2>2, <2>3
<1>6. /\ OffType' /\ Moves(p) /\ (\A q \in Procs \ {p} : off'[q] = off[q])
      /\ pc'[p] = l /\ back'[p] = "out" /\ refs'[p] = left
      /\ l \in {"user", "iput", "next", "open1", "count", "entered"}
  <2>1. CASE Forget(p)
    BY <1>1, <1>4, <1>5, <2>1 DEF OffType, Moves, PlaceType, LocalType, UserType, Forget
  <2>2. CASE UNCHANGED <<call, path, num, off>>
    BY <1>1, <1>4, <1>5, <2>2 DEF OffType, Moves, PlaceType, LocalType, UserType
  <2> QED BY <1>5, <2>1, <2>2
<1>7. /\ node'[i].count = node[i].count - 1 /\ node'[i].kind = node[i].kind
      /\ node'[i].nlink = node[i].nlink /\ node'[i].lock = NoProc
      /\ \A j \in Inos \ {i} : node'[j] = node[j]
  BY <1>1, <1>4, GaveNode
<1>8. pc[p] = "release" => node[i].count = 1 /\ node[i].lock = p
  BY <1>2 DEF Exact, Alone, AloneWith
<1>9. Modest(p)
  <2>1. node[i].lock \in {p, NoProc}
    BY <1>4, <1>8 DEF Unlocks
  <2> QED BY <1>4, <1>6, <1>7, <2>1 DEF Modest, LostType, Exact
<1>10. back[p] # "out" => UNCHANGED <<call, path, num, off>> /\ cpu' = p
  BY <1>5
<1>11. Nameless(p)
  <2>1. \A j \in Inos : p \notin Making(j) /\ p \notin Making(j)' /\ p \notin Pending(j)'
    BY <1>4, <1>6 DEF Making, Pending
  <2>2. ASSUME NEW j \in Inos
        PROVE  p \in Linking(j)' <=> p \in Linking(j)
    <3>1. CASE back[p] = "count"
      <4>1. Last(left) = Last(refs[p])
        <5>1. Len(refs[p]) = 2
          BY <1>1, <1>4, <3>1 DEF HasRefs, Giving
        <5>2. PICK s \in Seq(Inos) : s = refs[p] /\ Len(s) = 2
          BY <1>1, <5>1 DEF UserType
        <5>3. Len(left) = 1 /\ left[1] = refs[p][2]
          BY <1>3, <5>2, HeadTailProperties, EmptySeq
        <5> QED BY <5>1, <5>3 DEF Last
      <4> QED BY <1>5, <1>6, <1>10, <3>1, <4>1 DEF Linking
    <3>2. CASE back[p] # "count"
      <4>1. pc'[p] # "count"
        BY <1>5, <1>6, <3>2
      <4> QED BY <1>4, <1>6, <3>2, <4>1 DEF Linking
    <3> QED BY <3>1, <3>2
  <2> QED BY <1>4, <1>7, <2>1, <2>2 DEF Nameless
<1>12. Edits(p) /\ UniqueNames' /\ \A j \in Inos : CountsAre(j)'
  BY <1>9, <1>11, NamelessKeeps
<1>13. Held(p)' /\ \A j : ~AloneWith(p, j)'
  BY <1>6 DEF Held, AloneWith
<1>14. Goes(p)'
  <2>1. ASSUME l = "next"
        PROVE  cpu' = p /\ node'[num'[p]].kind # "none"
    <3>1. back[p] = "next" /\ cpu' = p /\ num'[p] = num[p] /\ num[p] \in Inos
      BY <1>1, <1>4, <1>5, <1>10, <2>1 DEF Knows, Giving
    <3>2. Leads(p) \/ (pc[p] = "release" /\ ent[i] = << >>)
      BY <1>1, <1>2, <1>4, <3>1 DEF Goes, Giving
    <3>3. CASE Leads(p)
      <4>1. PICK k : EntryAt(i, k, num[p])
        BY <1>2, <3>3 DEF Leads
      <4> QED BY <1>7, <3>1, <4>1, NamedIsFile
    <3>4. CASE pc[p] = "release" /\ ent[i] = << >>
      <4>1. p \in Pending(num[p])
        BY <1>2, <3>1, <3>4 DEF Pending
      <4>2. node[num[p]].kind # "none"
        BY <3>1, <4>1 DEF Exact, CountsAre
      <4> QED BY <1>7, <3>1, <4>2
    <3> QED BY <3>2, <3>3, <3>4
  <2>2. l = "count" => call'[p] = "linkto"
    BY <1>1, <1>5, <1>10 DEF Goes
  <2> QED BY <1>6, <2>1, <2>2 DEF Goes, Giving
<1>15. ASSUME NEW j \in Inos, node'[j].kind = "none"
       PROVE  \/ node'[j].count = 0
              \/ node[j].kind = "none" /\ node'[j].count = node[j].count /\ ~AloneWith(p, j)
  <2>1. CASE j # i
    BY <1>2, <1>4, <1>7, <1>15, <2>1 DEF AloneWith
  <2>2. CASE j = i /\ pc[p] = "release"
    BY <1>7, <1>8, <2>2
  <2>3. CASE j = i /\ pc[p] = "iput"
    <3>1. ~AloneWith(p, i)
      BY <2>3 DEF AloneWith
    <3>2. node[i].kind # "none"
      <4>1. 1 <= Len(refs[p])
        BY <1>2
      <4> QED BY <1>2, <3>1, <4>1, UsedIsFile
    <3> QED BY <1>7, <1>15, <2>3, <3>2
  <2> QED BY <1>4, <2>1, <2>2, <2>3
<1>16. pc'[p] # "made"
  BY <1>6
<1> QED BY <1>1, <1>6, <1>9, <1>12, <1>13, <1>14, <1>15, <1>16, NamesKept

\* A call that has yet to count a name, or to write it, has the inode.
LEMMA LinkerHas ==
    ASSUME DirInv, Exact, NEW q \in Procs, NEW i, q \in Linking(i)
    PROVE  \E k \in {1, 2} : /\ k = Len(refs[q]) /\ refs[q][k] = i
                             /\ pc[q] = "count" => k = 1
                             /\ Giving(q) => k = 2
<1>1. HasRefs(q) /\ Knows(q) /\ Goes(q)
  BY DEF DirInv, Exact
<1>2. Last(refs[q]) = i /\ (pc[q] = "count" \/ back[q] = "count")
  BY DEF Linking
<1>3. pc[q] = "count" \/ (Giving(q) /\ back[q] = "count")
  BY <1>1, <1>2 DEF Knows, Goes
<1>4. /\ pc[q] = "count" => Len(refs[q]) = 1
      /\ Giving(q) /\ back[q] = "count" => Len(refs[q]) = 2
  BY <1>1 DEF HasRefs
<1> QED BY <1>2, <1>3, <1>4 DEF Last, Giving

\* A removed directory has no name: whoever can count for it would use it.
LEMMA GoneIs ==
    ASSUME DirInv, Exact, NEW p \in Procs, pc[p] = "trunc", NEW i, i = refs[p][1]
    PROVE  /\ i \in Inos /\ node[i].count = 1 /\ node[i].lock = p
           /\ Named(i) = {} /\ i # Root /\ Pending(i) = {} /\ unwritten[i] = 0
<1>1. i \in Inos /\ AloneWith(p, i) /\ 1 <= Len(refs[p]) /\ Len(refs[p]) \in 0..2
  BY NeedsRefs, RefsAre DEF AloneWith
<1>2. node[i].count = 1 /\ node[i].lock = p /\ node[i].nlink <= 0 /\ CountsAre(i)
  BY <1>1 DEF Exact, Alone, Goes
<1>3. /\ i # Root
      /\ \A q \in Procs, l \in {1, 2} :
            l <= Len(refs[q]) /\ refs[q][l] = i => q = p /\ l = 1
  BY <1>1, <1>2, OnlyUser
<1>4. Linking(i) = {}
  <2> SUFFICES ASSUME NEW q \in Procs, q \in Linking(i)
               PROVE  FALSE
    BY DEF Linking
  <2>1. PICK k \in {1, 2} : k = Len(refs[q]) /\ refs[q][k] = i /\ (Giving(q) => k = 2)
    BY LinkerHas
  <2>2. k <= Len(refs[q])
    BY <2>1
  <2>3. q = p /\ k = 1
    BY <1>3, <2>1, <2>2
  <2> QED BY <2>1, <2>3 DEF Giving
<1>5. /\ IsFiniteSet(Named(i)) /\ IsFiniteSet(Making(i)) /\ IsFiniteSet(Pending(i))
      /\ IsFiniteSet({})
  <2>1. Making(i) \in SUBSET Procs /\ Pending(i) \in SUBSET Procs /\ {} \in SUBSET Procs
    BY DEF Making, Pending
  <2> QED BY <1>2, <2>1, FS_Subset, DirectoriesAssumption DEF CountsAre
<1>6. Tally(i) <= 0 /\ Tally(i) = Cardinality(Named(i)) + Cardinality(Making(i))
                                  + Cardinality(Pending(i)) + unwritten[i]
  <2>1. Cardinality(Linking(i)) = 0 /\ One(i = Root) = 0
    BY <1>3, <1>4, FS_EmptySet DEF One
  <2>2. /\ Cardinality(Named(i)) \in Nat /\ Cardinality(Making(i)) \in Nat
        /\ Cardinality(Pending(i)) \in Nat /\ unwritten[i] \in Nat
    <3>1. LostType
      BY DEF Exact
    <3>2. unwritten[i] \in Nat
      BY <1>1, <3>1 DEF LostType
    <3> QED BY <1>5, <3>2, FS_CardinalityType
  <2>3. Tally(i) = Cardinality(Named(i)) + Cardinality(Making(i)) + Cardinality(Pending(i))
                   + unwritten[i]
    BY <2>1, <2>2 DEF Tally
  <2>4. Tally(i) <= node[i].nlink /\ node[i].nlink \in Int
    BY <1>1, <1>2, Types DEF CountsAre, NodeType, Node
  <2> QED BY <1>2, <2>2, <2>3, <2>4
<1>7. Cardinality(Named(i)) = 0 /\ Cardinality(Pending(i)) = 0 /\ unwritten[i] = 0
  <2>1. /\ Cardinality(Named(i)) \in Nat /\ Cardinality(Making(i)) \in Nat
        /\ Cardinality(Pending(i)) \in Nat /\ unwritten[i] \in Nat
    <3>1. LostType
      BY DEF Exact
    <3>2. unwritten[i] \in Nat
      BY <1>1, <3>1 DEF LostType
    <3> QED BY <1>5, <3>2, FS_CardinalityType
  <2>2. PICK x \in Nat, y \in Nat, z \in Nat, w \in Nat :
           /\ x = Cardinality(Named(i)) /\ y = Cardinality(Making(i))
           /\ z = Cardinality(Pending(i)) /\ w = unwritten[i]
    BY <2>1
  <2>3. x + y + z + w <= 0
    BY <1>6, <2>2
  <2> QED BY <2>2, <2>3
<1> QED BY <1>1, <1>2, <1>3, <1>5, <1>7, FS_EmptySet

LEMMA NamedIs ==
    ASSUME NEW i, NEW u
    PROVE  /\ u \in Named(i) <=> \E d \in Inos : \E k : u = <<d, k>> /\ EntryAt(d, k, i)
           /\ u \in Named(i)' <=> \E d \in Inos : \E k : u = <<d, k>> /\ EntryAt(d, k, i)'
  BY DEF Named, EntryAt

\* The entries of a removed directory go, and with them names; a call that has found its
\* next inode there counts for it from here on.
LEMMA NamesTruncated ==
    ASSUME DirInv, DirInv', Exact, NEW p \in Procs, Truncated(p)
    PROVE  Exact'
<1> USE DEF At, SleepAt, Put, locals
<1>1. /\ NodeType /\ NodeType' /\ PlaceType /\ UserType /\ OffType /\ TreeType /\ TreeType'
      /\ Goes(p) /\ HasRefs(p)
  BY DEF DirInv, Exact
<1>2. PICK i \in Inos : i = refs[p][1] /\ i = Head(refs[p]) /\ pc[p] = "trunc"
  BY NeedsRefs, RefsAre DEF Truncated
<1>3. /\ node[i].count = 1 /\ node[i].lock = p
      /\ Named(i) = {} /\ i # Root /\ Pending(i) = {} /\ unwritten[i] = 0
  BY <1>2, GoneIs
<1>4. /\ cpu \in {p, NoProc} /\ node' = [node EXCEPT ![i].kind = "none"]
      /\ ent' = [ent EXCEPT ![i] = << >>] /\ free' = free \cup {i}
      /\ pruned' = (pruned \/ Live(i) # {}) /\ pc' = [pc EXCEPT ![p] = "release"]
      /\ UNCHANGED <<call, path, num, off, back, refs, unwritten>>
  BY <1>2 DEF Truncated
<1>5. OffType' /\ Moves(p) /\ pc'[p] = "release"
  BY <1>1, <1>4 DEF OffType, Moves, PlaceType
<1>6. /\ node'[i].kind = "none"
      /\ \A j \in Inos : /\ j # i => node'[j] = node[j]
                         /\ node'[j].nlink = node[j].nlink /\ node'[j].count = node[j].count
                         /\ node'[j].lock = node[j].lock
  BY <1>1, <1>4 DEF NodeType, Node
<1>7. ent'[i] = << >> /\ \A d \in Inos \ {i} : ent'[d] = ent[d]
  BY <1>1, <1>4 DEF TreeType
<1>8. Modest(p)
  BY <1>2, <1>4, <1>5, <1>6 DEF Modest, LostType, Exact
<1>9. Edits(p)
  <2>1. AloneWith(p, i)
    BY <1>2 DEF AloneWith
  <2> QED BY <1>3, <1>7, <2>1 DEF Edits, EntryAt, Live
<1>10. Held(p)'
  BY <1>5 DEF Held
<1>11. Goes(p)'
  <2>1. back[p] = "count" => call[p] = "linkto"
    BY <1>1 DEF Goes
  <2>2. ent'[refs'[p][1]] = << >>
    BY <1>2, <1>4, <1>7
  <2> QED BY <1>4, <1>5, <2>1, <2>2 DEF Goes
<1>12. \A j : (AloneWith(p, j) <=> j = i) /\ (AloneWith(p, j)' <=> j = i)
  BY <1>2, <1>4, <1>5 DEF AloneWith
<1>13. UniqueNames'
  <2>1. UniqueNames
    BY DEF Exact
  <2>2. Live(i)' = {}
    BY <1>7, EmptySeq DEF Live
  <2> QED BY <1>7, <2>1, <2>2 DEF UniqueNames, Live
<1>14. ASSUME NEW j \in Inos
       PROVE  CountsAre(j)'
  <2>1. PICK S, T : S = Named(j) /\ T = Named(j)'
    OBVIOUS
  <2>2. CountsAre(j) /\ IsFiniteSet(S)
    BY <2>1 DEF Exact, CountsAre
  <2>3. T \in SUBSET S /\ \A k : EntryAt(i, k, j) => <<i, k>> \in S \ T
    <3>1. \A k : ~EntryAt(i, k, j)'
      BY <1>7, EmptySeq DEF EntryAt, Live
    <3>2. \A d \in Inos \ {i} : \A k : EntryAt(d, k, j)' <=> EntryAt(d, k, j)
      BY <1>7 DEF EntryAt, Live
    <3>3. \A u : u \in S <=> \E d \in Inos : \E k : u = <<d, k>> /\ EntryAt(d, k, j)
      BY <2>1, NamedIs
    <3>4. \A u : u \in T <=> \E d \in Inos : \E k : u = <<d, k>> /\ EntryAt(d, k, j)'
      BY <2>1, NamedIs
    <3>5. T \in SUBSET S
      BY <3>1, <3>2, <3>3, <3>4
    <3>6. \A k : <<i, k>> \notin T
      BY <3>1, <3>4
    <3>7. \A k : EntryAt(i, k, j) => <<i, k>> \in S
      BY <3>3
    <3> QED BY <3>5, <3>6, <3>7
  <2>4. /\ IsFiniteSet(T) /\ Cardinality(T) \in Nat /\ Cardinality(S) \in Nat
        /\ Cardinality(T) <= Cardinality(S) /\ (Cardinality(T) = Cardinality(S) => T = S)
    BY <2>2, <2>3, FS_Subset, FS_CardinalityType
  <2>5. T # S => pruned'
    <3> SUFFICES ASSUME T # S
                 PROVE  Live(i) # {}
      BY <1>4
    <3>1. PICK u \in S : u \notin T
      BY <2>3
    <3>2. PICK d \in Inos : \E k : u = <<d, k>> /\ EntryAt(d, k, j)
      BY <2>1, <3>1, NamedIs
    <3>3. PICK k : u = <<d, k>> /\ EntryAt(d, k, j)
      BY <3>2
    <3>4. ~EntryAt(d, k, j)'
      BY <2>1, <3>1, <3>3, NamedIs
    <3>5. d = i
      BY <1>7, <3>3, <3>4 DEF EntryAt, Live
    <3> QED BY <3>3, <3>5 DEF EntryAt
  <2>6. p \in Pending(j)' => T # S
    <3> SUFFICES ASSUME p \in Pending(j)'
                 PROVE  T # S
      OBVIOUS
    <3>1. back[p] = "next" /\ num[p] = j
      BY <1>4 DEF Pending
    <3>2. Leads(p)
      BY <1>1, <1>2, <3>1 DEF Goes, Giving
    <3>3. PICK k : EntryAt(i, k, j)
      BY <1>2, <3>1, <3>2 DEF Leads
    <3> QED BY <2>3, <3>3
  <2>7. /\ p \notin Pending(j) /\ p \notin Making(j) /\ p \notin Making(j)'
        /\ p \in Linking(j)' <=> p \in Linking(j)
    BY <1>2, <1>4, <1>5 DEF Pending, Making, Linking
  <2>8. Weight(p, j)' = Weight(p, j) \/ (pruned' /\ Weight(p, j)' <= Weight(p, j))
    <3>1. PICK a \in {0, 1} : a = One(p \in Linking(j)) /\ a = One((p \in Linking(j))')
      BY <2>7 DEF One
    <3>2. PICK n \in Int : n = node[j].nlink - unwritten[j] /\ n = node'[j].nlink - unwritten'[j]
                           /\ node[j].nlink \in Int /\ unwritten[j] \in Int
                           /\ node'[j].nlink = node[j].nlink /\ unwritten'[j] = unwritten[j]
      BY <1>1, <1>4, <1>6 DEF NodeType, Node, LostType, Exact
    <3>3. Weight(p, j) = Cardinality(S) - a - n
      BY <2>1, <2>4, <2>7, <3>1, <3>2 DEF Weight, One
    <3>4. CASE p \in Pending(j)'
      <4>1. Weight(p, j)' = Cardinality(T) - a + 1 - n
        BY <2>1, <2>4, <2>7, <3>1, <3>2, <3>4 DEF Weight, One
      <4> QED BY <2>4, <2>5, <2>6, <3>1, <3>2, <3>3, <3>4, <4>1
    <3>5. CASE p \notin Pending(j)'
      <4>1. Weight(p, j)' = Cardinality(T) - a - n
        BY <2>1, <2>4, <2>7, <3>1, <3>2, <3>5 DEF Weight, One
      <4> QED BY <2>4, <2>5, <3>1, <3>2, <3>3, <4>1
    <3> QED BY <3>4, <3>5
  <2>9. Pending(j)' # {} => pruned'
    <3>1. CASE p \in Pending(j)'
      BY <2>5, <2>6, <3>1
    <3>2. CASE p \notin Pending(j)' /\ Pending(j)' # {}
      <4>1. PICK q \in Procs \ {p} : q \in Pending(j)'
        BY <3>2 DEF Pending
      <4>2. q \in Pending(j)
        BY <1>8, <1>9, <4>1, OthersCount
      <4> QED BY <1>4, <2>2, <4>2 DEF CountsAre
    <3> QED BY <3>1, <3>2
  <2>10. node'[j].kind = "none" => /\ T = {} /\ j # Root /\ Pending(j)' = {}
                                   /\ unwritten'[j] = 0
    <3> SUFFICES ASSUME node'[j].kind = "none"
                 PROVE  T = {} /\ j # Root /\ Pending(j)' = {} /\ unwritten[j] = 0
      BY <1>4
    <3>1. S = {} /\ j # Root /\ Pending(j) = {} /\ unwritten[j] = 0
      <4>1. CASE j = i
        BY <1>3, <2>1, <4>1
      <4>2. CASE j # i
        BY <1>6, <2>1, <2>2, <4>2 DEF CountsAre
      <4> QED BY <4>1, <4>2
    <3>2. T = {} /\ p \notin Pending(j)'
      BY <2>3, <2>6, <3>1
    <3>3. \A q \in Procs \ {p} : q \notin Pending(j)'
      BY <1>8, <1>9, <3>1, OthersCount
    <3>4. Pending(j)' \in SUBSET Procs
      BY DEF Pending
    <3> QED BY <3>1, <3>2, <3>3, <3>4
  <2>11. IsFiniteSet(Named(j)') /\ (pruned => pruned')
    BY <1>4, <2>1, <2>4
  <2> QED BY <1>1, <1>8, <1>9, <2>1, <2>8, <2>9, <2>10, <2>11, CountsChange
<1>15. \A j \in Inos : AloneWith(p, j)' => node'[j].count = 1 /\ node'[j].lock = p
  BY <1>3, <1>6, <1>12
<1>16. pc'[p] # "made"
  BY <1>5
<1>17. \A j \in Inos : node'[j].kind = "none" =>
          \/ AloneWith(p, j)'
          \/ node[j].kind = "none" /\ node'[j].count = node[j].count /\ ~AloneWith(p, j)
  BY <1>6, <1>12
<1> QED BY <1>1, <1>5, <1>8, <1>9, <1>10, <1>11, <1>13, <1>14, <1>15, <1>16, <1>17, NamesKept

\* A step that leaves the number of names that were never written.
LEMMA LostStays ==
    ASSUME Exact, unwritten' = unwritten
    PROVE  /\ LostType /\ LostType'
           /\ \A j \in Inos : unwritten[j] \in Nat /\ unwritten'[j] = unwritten[j]
  BY DEF Exact, LostType

\* A step that leaves the entries as they are.
LEMMA EntriesStay ==
    ASSUME NEW p \in Procs, ent' = ent
    PROVE  /\ Edits(p) /\ \A j : Named(j)' = Named(j)
           /\ UniqueNames => UniqueNames'
  BY DEF Edits, EntryAt, Live, Named, UniqueNames

\* MakNode's inode counts one name, which is still to be written.
LEMMA NamesMade ==
    ASSUME DirInv, DirInv', Exact, NEW p \in Procs, MakNode(p)
    PROVE  Exact'
<1> USE DEF At, SleepAt, Put, locals, history
<1>1. /\ NodeType /\ NodeType' /\ PlaceType /\ UserType /\ OffType /\ TreeType /\ TreeType'
      /\ Goes(p) /\ Held(p) /\ HasRefs(p) /\ Knows(p)
  BY DEF DirInv, Exact
<1>2. PICK i \in Inos : i = refs[p][2] /\ pc[p] = "made" /\ Len(refs[p]) = 2
  BY <1>1, NeedsRefs DEF MakNode, HasRefs
<1>3. /\ cpu \in {p, NoProc} /\ pc' = [pc EXCEPT ![p] = "writedir"]
      /\ \E kind \in {"file", "dir"} : node' = [node EXCEPT ![i].kind = kind, ![i].nlink = 1]
      /\ UNCHANGED <<ent, free, pruned, unwritten, call, path, num, off, back, refs>>
  BY <1>2 DEF MakNode
<1>4. OffType' /\ Moves(p) /\ pc'[p] = "writedir"
  BY <1>1, <1>3 DEF OffType, Moves, PlaceType
<1>5. /\ node'[i].kind # "none" /\ node'[i].nlink = 1
      /\ node'[i].lock = node[i].lock /\ node'[i].count = node[i].count
      /\ \A j \in Inos \ {i} : node'[j] = node[j]
  <2>1. PICK kind \in {"file", "dir"} : node' = [node EXCEPT ![i].kind = kind, ![i].nlink = 1]
    BY <1>3
  <2>2. PICK m : m = [node EXCEPT ![i].kind = kind]
    OBVIOUS
  <2>3. /\ m[i] = [node[i] EXCEPT !.kind = kind] /\ m[i] \in Node /\ m[i].kind = kind
        /\ m[i].lock = node[i].lock /\ m[i].count = node[i].count
        /\ DOMAIN m = Inos /\ \A j \in Inos \ {i} : m[j] = node[j]
    BY <1>1, <2>2 DEF NodeType, Node
  <2>4. m[i] \in [kind : {"none", "file", "dir"}, nlink : Int, count : Int,
                  lock : Procs \cup {NoProc}]
    BY <2>3 DEF Node
  <2>5. node' = [m EXCEPT ![i] = [m[i] EXCEPT !.nlink = 1]]
    BY <2>1, <2>2
  <2> QED BY <2>3, <2>4, <2>5
<1>6. AloneWith(p, i) /\ \A j : AloneWith(p, j) => j = i
  BY <1>2 DEF AloneWith
<1>7. node[i].count = 1 /\ node[i].lock = p /\ node[i].kind = "none"
  BY <1>1, <1>2, <1>6 DEF Exact, Alone, Goes
<1>8. Modest(p)
  <2>1. \E k \in {1, 2} : k <= Len(refs[p]) /\ refs[p][k] = i
    BY <1>2
  <2>2. /\ (\A q \in Procs \ {p} : off'[q] = off[q]) /\ cpu \in {p, NoProc} /\ free' = free
    BY <1>3
  <2>3. \A j \in Inos \ {i} : node'[j] = node[j]
    BY <1>5
  <2>4. LostType'
    BY <1>3, LostStays
  <2> QED BY <1>2, <1>4, <1>5, <2>1, <2>2, <2>3, <2>4 DEF Modest
<1>9. Edits(p) /\ UniqueNames' /\ \A j : Named(j)' = Named(j)
  BY <1>3, EntriesStay DEF Exact
<1>10. Held(p)'
  <2>1. node'[refs[p][1]].lock = p
    <3>1. refs[p][1] \in Inos /\ node[refs[p][1]].lock = p
      BY <1>1, <1>2, NeedsRefs DEF Held
    <3> QED BY <1>5, <3>1
  <2> QED BY <1>3, <1>4, <2>1 DEF Held
<1>11. Goes(p)' /\ \A j : ~AloneWith(p, j)'
  <2>1. SlotFree(p)'
    BY <1>1, <1>2, <1>3 DEF Goes, SlotFree, FreeEntries, Matches, Live
  <2>2. back'[p] = "out"
    BY <1>1, <1>2, <1>3 DEF Knows, Giving
  <2> QED BY <1>4, <2>1, <2>2 DEF Goes, Giving, AloneWith
<1>12. /\ \A q \in Procs, l \in {1, 2} :
             l <= Len(refs[q]) /\ refs[q][l] = i => q = p /\ l = 2
       /\ i # Root
  BY <1>2, <1>7, OnlyUser
<1>13. /\ \A j : p \notin Making(j) /\ p \notin Linking(j) /\ p \notin Pending(j)
       /\ \A j : p \notin Linking(j)' /\ p \notin Pending(j)' /\ (p \in Making(j)' <=> j = i)
  <2>1. back[p] = "out" /\ call[p] # "linkto"
    BY <1>1, <1>2 DEF Knows, Giving
  <2> QED BY <1>2, <1>3, <1>4, <2>1 DEF Making, Linking, Pending
<1>14. CountsAre(i)'
  <2>1. Named(i) = {} /\ Pending(i) = {} /\ i # Root /\ unwritten'[i] = 0
    BY <1>3, <1>7 DEF Exact, CountsAre
  <2>2. Named(i)' = {} /\ Pending(i)' = {} /\ Linking(i)' = {} /\ Making(i)' = {p}
    <3>1. ASSUME NEW q \in Procs \ {p}
          PROVE  q \notin Pending(i)' /\ q \notin Linking(i)' /\ q \notin Making(i)'
      <4>1. q \notin Linking(i)
        <5>1. ASSUME q \in Linking(i) PROVE FALSE
          <6>1. PICK l \in {1, 2} : l = Len(refs[q]) /\ refs[q][l] = i
            BY <5>1, LinkerHas
          <6>2. l <= Len(refs[q])
            BY <6>1
          <6> QED BY <1>12, <6>1, <6>2
        <5> QED BY <5>1
      <4>2. q \notin Making(i)
        <5>1. ASSUME q \in Making(i) PROVE FALSE
          <6>1. pc[q] = "writedir" /\ refs[q][2] = i
            BY <5>1 DEF Making
          <6>2. 2 <= Len(refs[q]) /\ Len(refs[q]) \in 0..2
            BY <6>1, NeedsRefs, RefsAre
          <6> QED BY <1>12, <6>1, <6>2
        <5> QED BY <5>1
      <4> QED BY <1>8, <1>9, <2>1, <4>1, <4>2, OthersCount
    <3>2. /\ Making(i)' \in SUBSET Procs /\ Linking(i)' \in SUBSET Procs
          /\ Pending(i)' \in SUBSET Procs
      BY DEF Making, Linking, Pending
    <3> QED BY <1>9, <1>13, <2>1, <3>1, <3>2
  <2>3. IsFiniteSet({}) /\ Cardinality({}) = 0 /\ Cardinality({p}) = 1
    BY FS_EmptySet, FS_Singleton
  <2>4. Tally(i)' = 1
    BY <2>1, <2>2, <2>3 DEF Tally, One
  <2> QED BY <1>5, <2>2, <2>3, <2>4 DEF CountsAre
<1>15. ASSUME NEW j \in Inos \ {i}
       PROVE  CountsAre(j)'
  <2>1. CountsAre(j) /\ node'[j] = node[j]
    BY <1>5 DEF Exact
  <2>2. Weight(p, j)' = Weight(p, j)
    BY <1>3, <1>9, <1>13, <2>1 DEF Weight, One
  <2>3. Pending(j)' = Pending(j)
    <3>1. Pending(j)' \in SUBSET Procs /\ Pending(j) \in SUBSET Procs
      BY DEF Pending
    <3>2. \A q \in Procs \ {p} : q \in Pending(j)' <=> q \in Pending(j)
      BY <1>8, <1>9, OthersCount
    <3> QED BY <1>13, <3>1, <3>2
  <2>4. IsFiniteSet(Named(j)') /\ pruned' = pruned
    BY <1>3, <1>9, <2>1 DEF CountsAre
  <2>5. node'[j].kind = "none" => /\ Named(j)' = {} /\ j # Root /\ Pending(j)' = {}
                                  /\ unwritten'[j] = 0
    BY <1>3, <1>9, <2>1, <2>3 DEF CountsAre
  <2>6. Pending(j)' # {} => pruned'
    BY <2>1, <2>3, <2>4 DEF CountsAre
  <2> QED BY <1>1, <1>8, <1>9, <2>2, <2>4, <2>5, <2>6, CountsChange
<1>16. \A j \in Inos : CountsAre(j)'
  BY <1>14, <1>15
<1>17. \A j \in Inos : node'[j].kind = "none" =>
          node[j].kind = "none" /\ node'[j].count = node[j].count /\ ~AloneWith(p, j)
  BY <1>5, <1>6
<1>18. pc'[p] # "made"
  BY <1>4
<1> QED BY <1>1, <1>4, <1>8, <1>9, <1>10, <1>11, <1>16, <1>17, <1>18, NamesKept

\* What is left for an inode that p counts for as before, or whose number is as much more.
LEMMA CountsEven ==
    ASSUME DirInv, Exact, NEW p \in Procs, Modest(p), Edits(p), NEW j \in Inos, NodeType',
           pruned' = pruned, IsFiniteSet(Named(j)'), Weight(p, j)' = Weight(p, j),
           p \in Pending(j)' <=> p \in Pending(j),
           node'[j].kind = "none" => /\ node[j].kind = "none" /\ unwritten'[j] = unwritten[j]
                                     /\ Named(j)' \subseteq Named(j)
    PROVE  CountsAre(j)'
<1>1. CountsAre(j)
  BY DEF Exact
<1>2. Pending(j)' = Pending(j)
  <2>1. Pending(j)' \in SUBSET Procs /\ Pending(j) \in SUBSET Procs
    BY DEF Pending
  <2>2. \A q \in Procs \ {p} : q \in Pending(j)' <=> q \in Pending(j)
    BY OthersCount
  <2> QED BY <2>1, <2>2
<1>3. node'[j].kind = "none" => /\ Named(j)' = {} /\ j # Root /\ Pending(j)' = {}
                                /\ unwritten'[j] = 0
  BY <1>1, <1>2 DEF CountsAre
<1>4. Pending(j)' # {} => pruned'
  BY <1>1, <1>2 DEF CountsAre
<1> QED BY <1>3, <1>4, CountsChange

\* Link's second half counts the name that is written.
LEMMA NamesLinked ==
    ASSUME DirInv, DirInv', Exact, NEW p \in Procs, Linked(p)
    PROVE  Exact'
<1> USE DEF At, GoOn, Put, Leave, Forget, history
<1>1. /\ NodeType /\ NodeType' /\ PlaceType /\ LocalType /\ UserType /\ OffType /\ TreeType'
      /\ Goes(p) /\ HasRefs(p) /\ Knows(p)
  BY DEF DirInv, Exact
<1>2. /\ Len(refs[p]) = 1 /\ pc[p] = "count" /\ back[p] = "out" /\ call[p] = "linkto"
  BY <1>1 DEF Linked, HasRefs, Knows, Goes, Giving
<1>3. PICK i \in Inos : i = Head(refs[p]) /\ i = refs[p][1] /\ i = Last(refs[p])
  BY <1>2, RefsAre DEF Last
<1>4. /\ cpu \in {p, NoProc} /\ pc' = [pc EXCEPT ![p] = "iput"]
      /\ node' = [node EXCEPT ![i].nlink = @ + 1]
      /\ call' = [call EXCEPT ![p] = "none"] /\ path' = [path EXCEPT ![p] = << >>]
      /\ num' = [num EXCEPT ![p] = NoIno] /\ off' = [off EXCEPT ![p] = 0]
      /\ back' = [back EXCEPT ![p] = "out"]
      /\ UNCHANGED <<ent, free, refs, pruned, unwritten>>
  BY <1>3 DEF Linked
<1>5. OffType' /\ Moves(p) /\ pc'[p] = "iput" /\ back'[p] = "out" /\ call'[p] = "none"
  BY <1>1, <1>4 DEF OffType, Moves, PlaceType, LocalType
<1>6. /\ node'[i].nlink = node[i].nlink + 1
      /\ \A j \in Inos : /\ j # i => node'[j].nlink = node[j].nlink
                         /\ node'[j].kind = node[j].kind /\ node'[j].count = node[j].count
                         /\ node'[j].lock = node[j].lock /\ node[j].nlink \in Int
  BY <1>1, <1>4 DEF NodeType, Node
<1>7. Modest(p)
  <2>1. \E k \in {1, 2} : k <= Len(refs[p]) /\ refs[p][k] = i
    BY <1>2, <1>3
  <2>2. (\A q \in Procs \ {p} : off'[q] = off[q]) /\ cpu \in {p, NoProc} /\ free' = free
    BY <1>1, <1>4 DEF OffType
  <2>3. LostType'
    BY <1>4, LostStays
  <2> QED BY <1>5, <1>6, <2>1, <2>2, <2>3 DEF Modest
<1>8. Edits(p) /\ UniqueNames' /\ \A j : Named(j)' = Named(j)
  BY <1>4, EntriesStay DEF Exact
<1>9. Held(p)' /\ Goes(p)' /\ Apart(p)' /\ \A j : ~AloneWith(p, j)'
  BY <1>5, Rests DEF Resting
<1>10. \A j : /\ p \notin Making(j) /\ p \notin Pending(j) /\ (p \in Linking(j) <=> j = i)
              /\ ~AloneWith(p, j)
  BY <1>2, <1>3 DEF Making, Pending, Linking, AloneWith
<1>11. ASSUME NEW j \in Inos
       PROVE  CountsAre(j)'
  <2>1. IsFiniteSet(Named(j)) /\ Cardinality(Named(j)) \in Nat
    BY FS_CardinalityType DEF Exact, CountsAre
  <2>2. Weight(p, j)' = Weight(p, j)
    <3>1. unwritten[j] \in Nat /\ unwritten'[j] = unwritten[j]
      BY <1>4, LostStays
    <3> QED BY <1>6, <1>8, <1>9, <1>10, <2>1, <3>1 DEF Weight, One, Apart
  <2> QED BY <1>1, <1>4, <1>6, <1>7, <1>8, <1>9, <1>10, <2>1, <2>2, CountsEven DEF Apart
<1>12. pc'[p] # "made"
  BY <1>5
<1> QED BY <1>1, <1>5, <1>6, <1>7, <1>8, <1>9, <1>10, <1>11, <1>12, NamesKept

\* An entry that is written.
Writes(d, k, e) ==
    /\ ent'[d][k] = e /\ DOMAIN ent'[d] = DOMAIN ent[d] \cup {k}
    /\ \A l \in DOMAIN ent[d] \ {k} : ent'[d][l] = ent[d][l]
    /\ \A c \in Inos \ {d} : ent'[c] = ent[c]

LEMMA WrittenAt ==
    ASSUME TreeType, NEW d \in Inos, NEW k, k \in 1..(Len(ent[d]) + 1), NEW e \in Entry,
           ent' = Written(d, k, e)
    PROVE  Writes(d, k, e)
<1> USE DEF Writes
<1>1. PICK s \in Seq(Entry) : s = ent[d]
  BY DEF TreeType
<1>2. DOMAIN s = 1..Len(s) /\ Len(s) \in Nat
  BY LenProperties
<1>3. PICK t : t = IF k \in DOMAIN s THEN [s EXCEPT ![k] = e] ELSE Append(s, e)
  OBVIOUS
<1>4. ent' = [ent EXCEPT ![d] = t]
  BY <1>1, <1>3 DEF Written
<1>5. ent'[d] = t /\ \A c \in Inos \ {d} : ent'[c] = ent[c]
  BY <1>4 DEF TreeType
<1>6. CASE k \in DOMAIN s
  BY <1>1, <1>2, <1>3, <1>5, <1>6
<1>7. CASE k \notin DOMAIN s
  <2>1. k = Len(s) + 1 /\ t = Append(s, e)
    BY <1>1, <1>2, <1>3, <1>7
  <2>2. /\ t \in Seq(Entry) /\ Len(t) = Len(s) + 1 /\ t[k] = e
        /\ \A l \in 1..Len(s) : t[l] = s[l]
    BY <2>1, AppendProperties
  <2>3. DOMAIN t = 1..Len(t)
    BY <2>2, LenProperties
  <2>4. DOMAIN t = DOMAIN s \cup {k}
    BY <1>2, <2>1, <2>2, <2>3
  <2> QED BY <1>1, <1>2, <1>5, <1>7, <2>1, <2>2, <2>4
<1> QED BY <1>6, <1>7

\* A name that is written to its place in a directory that is locked since it was not there.
LEMMA NamesWritten ==
    ASSUME DirInv, DirInv', Exact, NEW p \in Procs, WriteDir(p)
    PROVE  Exact'
<1> USE DEF At, GoOn, Put, history
<1>1. /\ NodeType /\ NodeType' /\ PlaceType /\ LocalType /\ UserType /\ OffType
      /\ TreeType /\ TreeType' /\ Goes(p) /\ Held(p) /\ HasRefs(p) /\ Knows(p)
  BY DEF DirInv, Exact
<1>2. /\ Len(refs[p]) = 2 /\ pc[p] = "writedir" /\ back[p] = "out" /\ path[p] # << >>
      /\ call[p] \in {"creat", "mknod", "linkto"}
  BY <1>1 DEF WriteDir, HasRefs, Knows, Giving
<1>3. PICK d \in Inos, i \in Inos : /\ d = refs[p][1] /\ d = Head(refs[p])
                                    /\ i = refs[p][2] /\ i = Last(refs[p])
  BY <1>2, RefsAre DEF Last
<1>4. PICK k : k = off[p]
  OBVIOUS
<1>5. PICK e \in Entry : e = [name |-> Head(path[p]), ino |-> i]
  <2>1. Head(path[p]) \in Names
    BY <1>1, <1>2, HeadTailProperties DEF LocalType
  <2> QED BY <2>1 DEF Entry
<1>6. PICK b \in {"open1", "out", "count"} : b = AfterWriteDir[call[p]]
                                             /\ (b = "count" <=> call[p] = "linkto")
  BY <1>2 DEF AfterWriteDir
<1>7. /\ cpu \in {p, NoProc} /\ pc' = [pc EXCEPT ![p] = "iput"]
      /\ back' = [back EXCEPT ![p] = b] /\ path' = [path EXCEPT ![p] = << >>]
      /\ off' = [off EXCEPT ![p] = 0] /\ ent' = Written(d, k, e)
      /\ UNCHANGED <<node, free, call, num, refs, pruned, unwritten>>
  BY <1>3, <1>4, <1>5, <1>6 DEF WriteDir
<1>8. /\ OffType' /\ Moves(p) /\ pc'[p] = "iput" /\ back'[p] = b
      /\ \A q \in Procs \ {p} : off'[q] = off[q]
  BY <1>1, <1>7 DEF OffType, Moves, PlaceType, LocalType
<1>9. /\ k \in 1..(Len(ent[d]) + 1) /\ k \notin Live(d)
      /\ Matches(d, Head(path[p])) = {} /\ node[d].lock = p
  <2>1. SlotFree(p) /\ node[d].lock = p
    BY <1>1, <1>2, <1>3 DEF Goes, Held
  <2>2. DOMAIN ent[d] = 1..Len(ent[d]) /\ Len(ent[d]) \in Nat /\ Live(d) \subseteq 1..Len(ent[d])
    BY <1>1, EntriesAre
  <2> QED BY <1>3, <1>4, <2>1, <2>2 DEF SlotFree, FreeEntries
<1>10. /\ ent'[d][k] = e /\ DOMAIN ent'[d] = DOMAIN ent[d] \cup {k}
       /\ \A l \in DOMAIN ent[d] \ {k} : ent'[d][l] = ent[d][l]
       /\ \A c \in Inos \ {d} : ent'[c] = ent[c]
  <2>1. TreeType /\ ent' = Written(d, k, e) /\ k \in 1..(Len(ent[d]) + 1)
    BY <1>1, <1>7, <1>9
  <2>2. Writes(d, k, e)
    BY <1>3, <1>5, <2>1, WrittenAt
  <2> QED BY <2>2 DEF Writes
<1>11. e.ino = i /\ e.name = Head(path[p]) /\ i # NoIno
  BY <1>5, DirectoriesAssumption
<1>12. /\ Live(d)' = Live(d) \cup {k}
       /\ \A l \in Live(d) : l # k /\ ent'[d][l] = ent[d][l]
       /\ \A c \in Inos \ {d} : Live(c)' = Live(c)
  BY <1>9, <1>10, <1>11 DEF Live
<1>13. \A c \in Inos : \A l, j : EntryAt(c, l, j)' <=> \/ EntryAt(c, l, j)
                                                       \/ c = d /\ l = k /\ j = i
  BY <1>9, <1>10, <1>11, <1>12 DEF EntryAt
<1>14. Modest(p)
  BY <1>7, <1>8 DEF Modest, LostType, Exact
<1>15. Edits(p)
  <2>1. \A c \in Inos : ent'[c] = ent[c] \/ node[c].lock = p
    BY <1>9, <1>10
  <2> QED BY <1>13, <2>1 DEF Edits
<1>16. UniqueNames'
  <2>1. UniqueNames
    BY DEF Exact
  <2>2. \A l \in Live(d) : ent[d][l].name # e.name
    BY <1>9, <1>11 DEF Matches
  <2>3. ASSUME NEW c \in Inos, NEW m \in Live(c)', NEW l \in Live(c)',
               ent'[c][m].name = ent'[c][l].name
        PROVE  m = l
    <3>1. CASE c # d
      BY <1>10, <1>12, <2>1, <2>3, <3>1 DEF UniqueNames
    <3>2. CASE c = d
      <4>1. m \in Live(d) \cup {k} /\ l \in Live(d) \cup {k}
        BY <1>12, <2>3, <3>2
      <4>2. CASE m = k /\ l # k
        BY <1>10, <1>12, <2>2, <2>3, <3>2, <4>1, <4>2
      <4>3. CASE m # k /\ l = k
        BY <1>10, <1>12, <2>2, <2>3, <3>2, <4>1, <4>3
      <4>4. CASE m # k /\ l # k
        BY <1>12, <2>1, <2>3, <3>2, <4>1, <4>4 DEF UniqueNames
      <4> QED BY <4>2, <4>3, <4>4
    <3> QED BY <3>1, <3>2
  <2> QED BY <2>3 DEF UniqueNames
<1>17. /\ Held(p)' /\ Goes(p)' /\ \A j : ~AloneWith(p, j)'
  <2>1. call'[p] = call[p]
    BY <1>7
  <2> QED BY <1>6, <1>8, <2>1 DEF Held, Goes, AloneWith, Giving
<1>18. /\ \A j : p \notin Pending(j) /\ p \notin Linking(j) /\ ~AloneWith(p, j)
       /\ \A j : p \notin Pending(j)' /\ p \notin Making(j)'
       /\ \A j : p \in Making(j) <=> call[p] # "linkto" /\ j = i
       /\ \A j : p \in Linking(j)' <=> call[p] = "linkto" /\ j = i
  <2>1. call'[p] = call[p] /\ refs'[p] = refs[p]
    BY <1>7
  <2> QED BY <1>2, <1>3, <1>6, <1>8, <2>1 DEF Pending, Linking, AloneWith, Making
<1>19. node[i].kind # "none"
  <2>1. 2 <= Len(refs[p]) /\ refs[p][2] = i /\ ~AloneWith(p, i)
    BY <1>2, <1>3, <1>18
  <2> QED BY <2>1, UsedIsFile
<1>20. ASSUME NEW j \in Inos
       PROVE  CountsAre(j)'
  <2>1. /\ IsFiniteSet(Named(j)) /\ Cardinality(Named(j)) \in Nat /\ node[j].nlink \in Int
        /\ unwritten[j] \in Nat /\ unwritten'[j] = unwritten[j]
    <3>1. /\ IsFiniteSet(Named(j)) /\ Cardinality(Named(j)) \in Nat
          /\ node[j].nlink \in Int
      BY <1>1, FS_CardinalityType DEF Exact, CountsAre, NodeType, Node
    <3> QED BY <1>7, <3>1, LostStays
  <2>2. PICK S, T : S = Named(j) /\ T = Named(j)'
    OBVIOUS
  <2>3. /\ \A u : u \in S <=> \E c \in Inos : \E l : u = <<c, l>> /\ EntryAt(c, l, j)
        /\ \A u : u \in T <=> \E c \in Inos : \E l : u = <<c, l>> /\ EntryAt(c, l, j)'
    BY <2>2, NamedIs
  <2>4. CASE j = i
    <3>1. T = S \cup {<<d, k>>} /\ <<d, k>> \notin S
      <4>1. <<d, k>> \notin S
        BY <1>9, <2>3 DEF EntryAt
      <4>2. \A u : u \in T <=> u \in S \/ u = <<d, k>>
        <5>1. \A c \in Inos : \A l : EntryAt(c, l, j)' <=> EntryAt(c, l, j) \/ (c = d /\ l = k)
          BY <1>13, <2>4
        <5>2. ASSUME NEW u \in T
              PROVE  u \in S \/ u = <<d, k>>
          <6>1. PICK c \in Inos : \E l : u = <<c, l>> /\ EntryAt(c, l, j)'
            BY <2>3
          <6>2. PICK l : u = <<c, l>> /\ EntryAt(c, l, j)'
            BY <6>1
          <6> QED BY <2>3, <5>1, <6>2
        <5>3. \A u \in S : u \in T
          BY <2>3, <5>1
        <5>4. <<d, k>> \in T
          BY <1>3, <2>3, <5>1
        <5> QED BY <5>2, <5>3, <5>4
      <4> QED BY <4>1, <4>2
    <3>2. IsFiniteSet(T) /\ Cardinality(T) = Cardinality(S) + 1
      <4>1. IsFiniteSet(S) /\ <<d, k>> \notin S
        BY <2>1, <2>2, <3>1
      <4>2. IsFiniteSet(S \cup {<<d, k>>}) /\ Cardinality(S \cup {<<d, k>>}) = Cardinality(S) + 1
        BY <4>1, FS_AddElement
      <4> QED BY <3>1, <4>2
    <3>3. Weight(p, j)' = Weight(p, j)
      <4>1. CASE call[p] = "linkto"
        <5>1. Weight(p, j) = Cardinality(S) + unwritten[j] - node[j].nlink
          BY <1>18, <2>1, <2>2, <4>1 DEF Weight, One
        <5>2. Weight(p, j)' = Cardinality(T) - 1 + unwritten[j] - node[j].nlink
          BY <1>7, <1>18, <2>1, <2>2, <2>4, <3>2, <4>1 DEF Weight, One
        <5> QED BY <2>1, <2>2, <3>2, <5>1, <5>2
      <4>2. CASE call[p] # "linkto"
        <5>1. Weight(p, j) = Cardinality(S) + 1 + unwritten[j] - node[j].nlink
          BY <1>18, <2>1, <2>2, <2>4, <4>2 DEF Weight, One
        <5>2. Weight(p, j)' = Cardinality(T) + unwritten[j] - node[j].nlink
          BY <1>7, <1>18, <2>1, <2>2, <3>2, <4>2 DEF Weight, One
        <5> QED BY <2>1, <2>2, <3>2, <5>1, <5>2
      <4> QED BY <4>1, <4>2
    <3>4. node'[j].kind # "none"
      BY <1>7, <1>19, <2>4
    <3> QED BY <1>1, <1>7, <1>14, <1>15, <1>18, <2>2, <3>2, <3>3, <3>4, CountsEven
  <2>5. CASE j # i
    <3>1. T = S
      BY <1>13, <2>3, <2>5
    <3>2. Weight(p, j)' = Weight(p, j)
      BY <1>7, <1>18, <2>1, <2>2, <2>5, <3>1 DEF Weight, One
    <3>3. IsFiniteSet(Named(j)') /\ Named(j)' = Named(j) /\ node'[j] = node[j]
      BY <1>7, <2>1, <2>2, <3>1
    <3> QED BY <1>1, <1>7, <1>14, <1>15, <1>18, <3>2, <3>3, CountsEven
  <2> QED BY <2>4, <2>5
<1>21. pc'[p] # "made"
  BY <1>8
<1>22. \A j \in Inos : node'[j].kind = "none" =>
          node[j].kind = "none" /\ node'[j].count = node[j].count /\ ~AloneWith(p, j)
  BY <1>7, <1>18
<1> QED BY <1>1, <1>8, <1>14, <1>15, <1>16, <1>17, <1>20, <1>21, <1>22, NamesKept

\* A name that is not written: it is one more that i_nlink counts without an entry.
LEMMA NamesUnwritten ==
    ASSUME DirInv, DirInv', Exact, NEW p \in Procs, WriteDirFails(p)
    PROVE  Exact'
<1> USE DEF At, GoOn, Put
<1>1. /\ NodeType /\ NodeType' /\ PlaceType /\ LocalType /\ UserType /\ OffType /\ LostType
      /\ TreeType /\ TreeType' /\ Goes(p) /\ Held(p) /\ HasRefs(p) /\ Knows(p)
  BY DEF DirInv, Exact
<1>2. /\ Len(refs[p]) = 2 /\ pc[p] = "writedir" /\ back[p] = "out"
      /\ call[p] \in {"creat", "mknod", "linkto"}
  BY <1>1 DEF WriteDirFails, HasRefs, Knows, Giving
<1>3. PICK d \in Inos, i \in Inos : /\ d = refs[p][1] /\ d = Head(refs[p])
                                    /\ i = refs[p][2] /\ i = Last(refs[p])
  BY <1>2, RefsAre DEF Last
<1>4. PICK b \in {"out", "count"} : b = IF call[p] = "linkto" THEN "count" ELSE "out"
  OBVIOUS
<1>5. /\ cpu \in {p, NoProc} /\ pc' = [pc EXCEPT ![p] = "iput"]
      /\ back' = [back EXCEPT ![p] = b] /\ path' = [path EXCEPT ![p] = << >>]
      /\ off' = [off EXCEPT ![p] = 0] /\ unwritten' = [unwritten EXCEPT ![i] = @ + 1]
      /\ \/ ent' = ent
         \/ off[p] \notin DOMAIN ent[d] /\ ent' = Written(d, off[p], FreeEntry)
      /\ UNCHANGED <<node, free, call, num, refs, pruned>>
  BY <1>3, <1>4 DEF WriteDirFails
<1>6. /\ OffType' /\ LostType' /\ Moves(p) /\ pc'[p] = "iput" /\ back'[p] = b
      /\ \A q \in Procs \ {p} : off'[q] = off[q]
      /\ unwritten'[i] = unwritten[i] + 1
      /\ \A j \in Inos \ {i} : unwritten'[j] = unwritten[j]
  BY <1>1, <1>5 DEF OffType, LostType, Moves, PlaceType, LocalType
<1>7. node[d].lock = p
  BY <1>1, <1>2, <1>3 DEF Held
<1>8. /\ \A c \in Inos \ {d} : ent'[c] = ent[c]
      /\ Live(d)' = Live(d) /\ \A l \in Live(d) : ent'[d][l] = ent[d][l]
  <2>1. CASE ent' = ent
    BY <2>1 DEF Live
  <2>2. CASE off[p] \notin DOMAIN ent[d] /\ ent' = Written(d, off[p], FreeEntry)
    <3>1. FreeEntry \in Entry /\ FreeEntry.ino = NoIno
      BY DEF FreeEntry, Entry
    <3>2. off[p] \in 1..(Len(ent[d]) + 1)
      <4>1. SlotFree(p)
        BY <1>1, <1>2 DEF Goes
      <4>2. /\ DOMAIN ent[d] = 1..Len(ent[d]) /\ Len(ent[d]) \in Nat
            /\ Live(d) \subseteq 1..Len(ent[d])
        BY <1>1, EntriesAre
      <4> QED BY <1>3, <4>1, <4>2 DEF SlotFree, FreeEntries
    <3>3. PICK k : k = off[p]
      OBVIOUS
    <3>4. Writes(d, k, FreeEntry)
      <4>1. TreeType /\ ent' = Written(d, k, FreeEntry) /\ k \in 1..(Len(ent[d]) + 1)
        BY <1>1, <2>2, <3>2, <3>3
      <4> QED BY <1>3, <3>1, <4>1, WrittenAt
    <3>5. /\ ent'[d][k] = FreeEntry /\ DOMAIN ent'[d] = DOMAIN ent[d] \cup {k}
          /\ k \notin DOMAIN ent[d] /\ \A l \in DOMAIN ent[d] : ent'[d][l] = ent[d][l]
          /\ \A c \in Inos \ {d} : ent'[c] = ent[c]
      BY <2>2, <3>3, <3>4 DEF Writes
    <3> QED BY <3>1, <3>5 DEF Live
  <2> QED BY <1>5, <2>1, <2>2
<1>9. \A c \in Inos : /\ Live(c)' = Live(c)
                      /\ \A l \in Live(c) : ent'[c][l] = ent[c][l]
  BY <1>8 DEF Live
<1>10. \A c \in Inos : \A l, j : EntryAt(c, l, j)' <=> EntryAt(c, l, j)
  BY <1>9 DEF EntryAt
<1>11. Modest(p)
  BY <1>5, <1>6 DEF Modest
<1>12. Edits(p)
  <2>1. \A c \in Inos : ent'[c] = ent[c] \/ node[c].lock = p
    BY <1>7, <1>8
  <2> QED BY <1>10, <2>1 DEF Edits
<1>13. UniqueNames'
  <2>1. UniqueNames
    BY DEF Exact
  <2> QED BY <1>9, <2>1 DEF UniqueNames
<1>14. /\ Held(p)' /\ Goes(p)' /\ \A j : ~AloneWith(p, j)'
  <2>1. call'[p] = call[p]
    BY <1>5
  <2> QED BY <1>4, <1>6, <2>1 DEF Held, Goes, AloneWith, Giving
<1>15. /\ \A j : p \notin Pending(j) /\ p \notin Linking(j) /\ ~AloneWith(p, j)
       /\ \A j : p \notin Pending(j)' /\ p \notin Making(j)'
       /\ \A j : p \in Making(j) <=> j = i /\ call[p] # "linkto"
       /\ \A j : p \in Linking(j)' <=> j = i /\ call[p] = "linkto"
  <2>1. refs'[p] = refs[p] /\ call'[p] = call[p]
    BY <1>5
  <2> QED BY <1>2, <1>3, <1>4, <1>6, <2>1 DEF Pending, Linking, Making, AloneWith
<1>16. node[i].kind # "none"
  <2>1. 2 <= Len(refs[p]) /\ refs[p][2] = i /\ ~AloneWith(p, i)
    BY <1>2, <1>3, <1>15
  <2> QED BY <2>1, UsedIsFile
<1>17. ASSUME NEW j \in Inos
       PROVE  CountsAre(j)'
  <2>1. Named(j)' = Named(j)
    <3>1. \A u : u \in Named(j)' <=> u \in Named(j)
      BY <1>10, NamedIs
    <3> QED BY <3>1
  <2>2. /\ IsFiniteSet(Named(j)) /\ Cardinality(Named(j)) \in Nat /\ node[j].nlink \in Int
        /\ unwritten[j] \in Nat
    BY <1>1, FS_CardinalityType DEF Exact, CountsAre, NodeType, Node, LostType
  <2>3. PICK n \in Nat : n = Cardinality(Named(j)) /\ n = Cardinality(Named(j)')
    BY <2>1, <2>2
  <2>4. Weight(p, j)' = Weight(p, j)
    <3>1. Weight(p, j) = n + One(j = i /\ call[p] # "linkto") + unwritten[j] - node[j].nlink
      BY <1>15, <2>2, <2>3 DEF Weight, One
    <3>2. Weight(p, j)' = n - One(j = i /\ call[p] = "linkto") + unwritten'[j] - node[j].nlink
      <4>1. node' = node
        BY <1>5
      <4>2. unwritten'[j] \in Nat
        BY <1>6 DEF LostType
      <4> QED BY <1>15, <2>2, <2>3, <4>1, <4>2 DEF Weight, One
    <3>3. unwritten'[j] = unwritten[j] + One(j = i)
      BY <1>6, <2>2 DEF One
    <3> QED BY <2>2, <2>3, <3>1, <3>2, <3>3 DEF One
  <2>5. node'[j] = node[j] /\ pruned' = pruned
    BY <1>5
  <2>6. node'[j].kind = "none" => unwritten'[j] = unwritten[j]
    BY <1>6, <1>16, <2>5
  <2> QED BY <1>1, <1>11, <1>12, <1>15, <2>1, <2>2, <2>4, <2>5, <2>6, CountsEven
<1>18. pc'[p] # "made"
  BY <1>6
<1>19. \A j \in Inos : node'[j].kind = "none" =>
          node[j].kind = "none" /\ node'[j].count = node[j].count /\ ~AloneWith(p, j)
  BY <1>5, <1>15
<1> QED BY <1>1, <1>6, <1>11, <1>12, <1>13, <1>14, <1>17, <1>18, <1>19, NamesKept

\* UnLink clears the entry it has found, and counts the name less.
LEMMA NamesUnlinked ==
    ASSUME DirInv, DirInv', Exact, NEW p \in Procs, Unlinked(p)
    PROVE  Exact'
<1> USE DEF At, GoOn, Put, Leave, Forget, history
<1>1. /\ NodeType /\ NodeType' /\ PlaceType /\ LocalType /\ UserType /\ OffType
      /\ TreeType /\ TreeType' /\ Goes(p) /\ HasRefs(p) /\ Knows(p)
  BY DEF DirInv, Exact
<1>2. Len(refs[p]) = 2 /\ pc[p] = "clear" /\ back[p] = "out"
  BY <1>1 DEF Unlinked, HasRefs, Knows, Giving
<1>3. PICK d \in Inos, i \in Inos : /\ d = refs[p][1] /\ d = Head(refs[p])
                                    /\ i = refs[p][2] /\ i = Last(refs[p])
  BY <1>2, RefsAre DEF Last
<1>4. PICK k : k = off[p]
  OBVIOUS
<1>5. /\ cpu \in {p, NoProc} /\ pc' = [pc EXCEPT ![p] = "iput"]
      /\ node' = [node EXCEPT ![i].nlink = @ - 1] /\ ent' = Written(d, k, FreeEntry)
      /\ call' = [call EXCEPT ![p] = "none"] /\ path' = [path EXCEPT ![p] = << >>]
      /\ num' = [num EXCEPT ![p] = NoIno] /\ off' = [off EXCEPT ![p] = 0]
      /\ back' = [back EXCEPT ![p] = "out"] /\ UNCHANGED <<free, refs, pruned, unwritten>>
  BY <1>3, <1>4 DEF Unlinked
<1>6. /\ OffType' /\ Moves(p) /\ pc'[p] = "iput" /\ back'[p] = "out"
      /\ \A q \in Procs \ {p} : off'[q] = off[q]
  BY <1>1, <1>5 DEF OffType, Moves, PlaceType, LocalType
<1>7. /\ node'[i].nlink = node[i].nlink - 1
      /\ \A j \in Inos : /\ j # i => node'[j].nlink = node[j].nlink
                         /\ node'[j].kind = node[j].kind /\ node'[j].count = node[j].count
                         /\ node'[j].lock = node[j].lock /\ node[j].nlink \in Int
  BY <1>1, <1>5 DEF NodeType, Node
<1>8. EntryAt(d, k, i) /\ k \in DOMAIN ent[d] /\ k \in 1..(Len(ent[d]) + 1)
  <2>1. EntryAt(d, k, i)
    BY <1>1, <1>2, <1>3, <1>4 DEF Goes
  <2>2. DOMAIN ent[d] = 1..Len(ent[d]) /\ Len(ent[d]) \in Nat /\ Live(d) \subseteq 1..Len(ent[d])
    BY <1>1, EntriesAre
  <2> QED BY <2>1, <2>2 DEF EntryAt
<1>9. FreeEntry \in Entry /\ FreeEntry.ino = NoIno
  BY DEF FreeEntry, Entry
<1>10. /\ ent'[d][k] = FreeEntry /\ DOMAIN ent'[d] = DOMAIN ent[d]
       /\ \A l \in DOMAIN ent[d] \ {k} : ent'[d][l] = ent[d][l]
       /\ \A c \in Inos \ {d} : ent'[c] = ent[c]
  <2>1. TreeType /\ ent' = Written(d, k, FreeEntry) /\ k \in 1..(Len(ent[d]) + 1)
    BY <1>1, <1>5, <1>8
  <2>2. Writes(d, k, FreeEntry)
    BY <1>3, <1>9, <2>1, WrittenAt
  <2> QED BY <1>8, <2>2 DEF Writes
<1>11. /\ Live(d)' = Live(d) \ {k} /\ k \in Live(d)
       /\ \A l \in Live(d) \ {k} : ent'[d][l] = ent[d][l]
       /\ \A c \in Inos \ {d} : Live(c)' = Live(c)
  BY <1>8, <1>9, <1>10 DEF Live, EntryAt
<1>12. \A c \in Inos : \A l, j : EntryAt(c, l, j)' <=> /\ EntryAt(c, l, j)
                                                       /\ ~(c = d /\ l = k)
  BY <1>10, <1>11 DEF EntryAt
<1>13. \A j : EntryAt(d, k, j) => j = i
  BY <1>8 DEF EntryAt
<1>14. Modest(p)
  <2>1. 2 <= Len(refs[p]) /\ refs[p][2] = i
    BY <1>2, <1>3
  <2>2. \E l \in {1, 2} : l <= Len(refs[p]) /\ refs[p][l] = i
    BY <2>1
  <2> QED BY <1>5, <1>6, <1>7, <2>2 DEF Modest, LostType, Exact
<1>15. Edits(p)
  <2>1. Clears(p, d)
    <3>1. PICK s \in Seq(Entry), t \in Seq(Entry) : s = ent[d] /\ t = ent'[d]
      BY <1>1, <1>3 DEF TreeType
    <3>2. /\ DOMAIN s = 1..Len(s) /\ Len(s) \in Nat
          /\ DOMAIN t = 1..Len(t) /\ Len(t) \in Nat
      BY <3>1, LenProperties
    <3>3. Len(t) = Len(s) /\ t = [s EXCEPT ![k] = FreeEntry]
      <4>1. Len(t) = Len(s)
        BY <1>10, <3>1, <3>2
      <4>2. PICK u : u = [s EXCEPT ![k] = FreeEntry]
        OBVIOUS
      <4>3. /\ u \in [1..Len(s) -> Entry] /\ t \in [1..Len(s) -> Entry]
            /\ \A l \in 1..Len(s) : u[l] = t[l]
        BY <1>8, <1>9, <1>10, <3>1, <3>2, <4>1, <4>2, ElementOfSeq
      <4>4. u = t
        BY <4>3
      <4> QED BY <4>1, <4>2, <4>4
    <3> QED BY <1>2, <1>3, <1>4, <1>8, <3>1, <3>3 DEF Clears
  <2>2. \A c \in Inos : ent'[c] = ent[c] \/ Clears(p, c)
    BY <1>10, <2>1
  <2> QED BY <1>2, <1>3, <1>4, <1>12, <1>13, <2>2 DEF Edits
<1>16. UniqueNames'
  <2>1. UniqueNames
    BY DEF Exact
  <2> QED BY <1>10, <1>11, <2>1 DEF UniqueNames
<1>17. Held(p)' /\ Goes(p)' /\ Apart(p)' /\ \A j : ~AloneWith(p, j)'
  BY <1>6, Rests DEF Resting
<1>18. Apart(p) /\ \A j : ~AloneWith(p, j)
  BY <1>2, ApartIs DEF AloneWith
<1>19. ASSUME NEW j \in Inos
       PROVE  CountsAre(j)'
  <2>1. /\ IsFiniteSet(Named(j)) /\ Cardinality(Named(j)) \in Nat /\ node[j].nlink \in Int
        /\ unwritten[j] \in Nat /\ unwritten'[j] = unwritten[j]
    <3>1. /\ IsFiniteSet(Named(j)) /\ Cardinality(Named(j)) \in Nat
          /\ node[j].nlink \in Int
      BY <1>1, FS_CardinalityType DEF Exact, CountsAre, NodeType, Node
    <3> QED BY <1>5, <3>1, LostStays
  <2>2. PICK S, T : S = Named(j) /\ T = Named(j)'
    OBVIOUS
  <2>3. /\ \A u : u \in S <=> \E c \in Inos : \E l : u = <<c, l>> /\ EntryAt(c, l, j)
        /\ \A u : u \in T <=> \E c \in Inos : \E l : u = <<c, l>> /\ EntryAt(c, l, j)'
    BY <2>2, NamedIs
  <2>4. T \subseteq S
    BY <1>12, <2>3
  <2>5. CASE j = i
    <3>1. T = S \ {<<d, k>>} /\ <<d, k>> \in S
      <4>1. <<d, k>> \in S
        BY <1>3, <1>8, <2>3, <2>5
      <4>2. <<d, k>> \notin T
        BY <1>12, <2>3
      <4>3. ASSUME NEW u \in S, u # <<d, k>>
            PROVE  u \in T
        <5>1. PICK c \in Inos : \E l : u = <<c, l>> /\ EntryAt(c, l, j)
          BY <2>3
        <5>2. PICK l : u = <<c, l>> /\ EntryAt(c, l, j)
          BY <5>1
        <5>3. EntryAt(c, l, j)'
          BY <1>12, <4>3, <5>2
        <5> QED BY <2>3, <5>2, <5>3
      <4> QED BY <2>4, <4>1, <4>2, <4>3
    <3>2. IsFiniteSet(T) /\ Cardinality(T) = Cardinality(S) - 1
      <4>1. IsFiniteSet(S) /\ <<d, k>> \in S
        BY <2>1, <2>2, <3>1
      <4>2. /\ IsFiniteSet(S \ {<<d, k>>})
            /\ Cardinality(S \ {<<d, k>>}) = Cardinality(S) - 1
        BY <4>1, FS_RemoveElement
      <4> QED BY <3>1, <4>2
    <3>3. Weight(p, j)' = Weight(p, j)
      <4>1. Weight(p, j) = Cardinality(S) + unwritten[j] - node[j].nlink
        BY <1>18, <2>1, <2>2 DEF Weight, One, Apart
      <4>2. Weight(p, j)' = Cardinality(T) + unwritten[j] - node'[j].nlink
        BY <1>17, <2>1, <2>2, <3>2, <1>7 DEF Weight, One, Apart
      <4> QED BY <1>7, <2>1, <2>2, <2>5, <3>2, <4>1, <4>2
    <3> QED BY <1>1, <1>5, <1>7, <1>14, <1>15, <1>17, <1>18, <2>2, <2>4, <3>2, <3>3, CountsEven
        DEF Apart
  <2>6. CASE j # i
    <3>1. T = S
      <4>1. \A c \in Inos : \A l : EntryAt(c, l, j)' <=> EntryAt(c, l, j)
        BY <1>12, <1>13, <2>6
      <4> QED BY <2>3, <4>1
    <3>2. Weight(p, j)' = Weight(p, j)
      BY <1>7, <1>17, <1>18, <2>1, <2>2, <2>6, <3>1 DEF Weight, One, Apart
    <3>3. IsFiniteSet(Named(j)') /\ Named(j)' \subseteq Named(j)
      BY <2>1, <2>2, <3>1
    <3> QED BY <1>1, <1>5, <1>7, <1>14, <1>15, <1>17, <1>18, <3>2, <3>3, CountsEven DEF Apart
  <2> QED BY <2>5, <2>6
<1>20. pc'[p] # "made"
  BY <1>6
<1>21. \A j \in Inos : node'[j].kind = "none" =>
          node[j].kind = "none" /\ node'[j].count = node[j].count /\ ~AloneWith(p, j)
  BY <1>7, <1>18
<1> QED BY <1>1, <1>6, <1>14, <1>15, <1>16, <1>17, <1>19, <1>20, <1>21, NamesKept

LEMMA InitExact == Init => Exact
<1> SUFFICES ASSUME Init
             PROVE  Exact
  OBVIOUS
<1>1. NoProc \notin Procs /\ Root \in Inos
  BY DirectoriesAssumption
<1>2. /\ pc = [p \in Procs |-> "user"] /\ back = [p \in Procs |-> "out"]
      /\ ent = [i \in Inos |-> << >>] /\ free = Inos \ {Root}
      /\ off = [p \in Procs |-> 0] /\ refs = [p \in Procs |-> << >>]
      /\ unwritten = [i \in Inos |-> 0]
  BY DEF Init
<1>3. \A i \in Inos : /\ node[i].kind = IF i = Root THEN "dir" ELSE "none"
                      /\ node[i].nlink = IF i = Root THEN 1 ELSE 0
                      /\ i # Root => node[i].count = 0
  BY DEF Init
<1>4. \A d \in Inos : Live(d) = {}
  BY <1>2 DEF Live
<1>5. OffType /\ LostType /\ Alone /\ Idle /\ FreeIdle /\ UniqueNames
  BY <1>2, <1>3, <1>4 DEF OffType, LostType, Alone, AloneWith, Idle, FreeIdle, UniqueNames
<1>6. \A p \in Procs : Held(p) /\ Goes(p)
  BY <1>2 DEF Held, Goes, Giving
<1>7. ASSUME NEW i \in Inos
      PROVE  CountsAre(i)
  <2>1. Named(i) = {}
    BY <1>4 DEF Named
  <2>2. Making(i) = {} /\ Linking(i) = {} /\ Pending(i) = {}
    BY <1>2 DEF Making, Linking, Pending
  <2>3. IsFiniteSet({}) /\ Cardinality({}) = 0
    BY FS_EmptySet
  <2>4. Tally(i) = One(i = Root) /\ unwritten[i] = 0
    BY <1>2, <2>1, <2>2, <2>3 DEF Tally, One
  <2>5. Tally(i) = node[i].nlink /\ node[i].nlink \in Int
    BY <1>3, <2>4 DEF One
  <2> QED BY <1>3, <2>1, <2>2, <2>3, <2>4, <2>5 DEF CountsAre
<1> QED BY <1>5, <1>6, <1>7 DEF Exact

LEMMA StutterExact ==
    ASSUME Exact, UNCHANGED vars
    PROVE  Exact'
<1> USE DEF vars, locals, history
<1>1. OffType' /\ LostType' /\ Alone' /\ Idle' /\ FreeIdle'
  BY DEF Exact, OffType, LostType, Alone, AloneWith, Idle, FreeIdle
<1>2. UniqueNames'
  BY DEF Exact, UniqueNames, Live
<1>3. ASSUME NEW p \in Procs
      PROVE  Held(p)' /\ Goes(p)'
  <2>1. Held(p) /\ Goes(p)
    BY DEF Exact
  <2>2. \A d, k, i : EntryAt(d, k, i)' <=> EntryAt(d, k, i)
    BY DEF EntryAt, Live
  <2>3. Leads(p)' <=> Leads(p)
    BY <2>2 DEF Leads
  <2>4. SlotFree(p)' <=> SlotFree(p)
    BY DEF SlotFree, FreeEntries, Matches, Live
  <2>5. Held(p)'
    BY <2>1 DEF Held
  <2>6. Goes(p)'
    BY <2>1, <2>2, <2>3, <2>4 DEF Goes, Giving
  <2> QED BY <2>5, <2>6
<1>4. ASSUME NEW i \in Inos
      PROVE  CountsAre(i)'
  <2>1. Named(i)' = Named(i)
    BY DEF Named, Live
  <2>2. Making(i)' = Making(i) /\ Linking(i)' = Linking(i) /\ Pending(i)' = Pending(i)
    BY DEF Making, Linking, Pending
  <2> QED BY <2>1, <2>2 DEF Exact, CountsAre, Tally
<1> QED BY <1>1, <1>2, <1>3, <1>4 DEF Exact

\* A lock that was another's stays so, and an entry that was not cleared.
LEMMA StolenForEver ==
    ASSUME [Next]_vars
    PROVE  (~stolen' => ~stolen) /\ (~uncleared' => ~uncleared)
<1>1. CASE UNCHANGED vars
  BY <1>1, Zenon DEF vars, history
<1>2. ASSUME NEW p \in Procs, Step(p)
      PROVE  ~stolen' => ~stolen
  BY <1>2, Zenon
  DEF Step, history, Unlocks, IPutShared, IPutLast, Truncated, Release, Call, Arrived, Denied,
      Descend, Enter, NextFails, NotFound, ToCreate, ToDelete, Error, IAlloc, MakNodeFails,
      MakNode, WriteDir, WriteDirFails, Refused, Empties, Open1, Open1Full, Close, ChDir,
      Entered, Link, LinkTo, Linked, UnLink, UnLinkDenied, Clear, Unlinked, UnlinkFails
<1>3. ASSUME NEW p \in Procs, Step(p)
      PROVE  ~uncleared' => ~uncleared
  BY <1>3, Zenon
  DEF Step, history, IPutShared, IPutLast, Truncated, Release, Call, Arrived, Denied,
      Descend, Enter, NextFails, NotFound, ToCreate, ToDelete, Error, IAlloc, MakNodeFails,
      MakNode, WriteDir, WriteDirFails, Refused, Empties, Open1, Open1Full, Close, ChDir,
      Entered, Link, LinkTo, Linked, UnLink, UnLinkDenied, Clear, Unlinked, UnlinkFails
<1> QED BY <1>1, <1>2, <1>3 DEF Next

LEMMA NamesStep ==
    ASSUME DirInv, DirInv', Exact, NEW p \in Procs, Step(p), ~stolen', ~uncleared'
    PROVE  Exact'
<1>1. CASE IPutShared(p) \/ Release(p)
  BY <1>1, NamesGives
<1>2. CASE IPutLast(p)
  BY <1>2, NamesLast
<1>3. CASE Truncated(p)
  BY <1>3, NamesTruncated
<1>4. CASE Call(p) \/ Enter(p) \/ IAlloc(p) \/ LinkTo(p) \/ UnLink(p)
  BY <1>4, NamesGets
<1>5. CASE \/ Denied(p) \/ NotFound(p) \/ Error(p) \/ Refused(p) \/ UnLinkDenied(p)
           \/ NextFails(p) \/ Arrived(p) \/ Empties(p)
  BY <1>5, NamesLeaves
<1>6. CASE Clear(p) \/ ToCreate(p) \/ ToDelete(p) \/ Descend(p)
  BY <1>6, NamesSearches
<1>7. CASE \/ Close(p) \/ Open1(p) \/ Open1Full(p) \/ Entered(p) \/ MakNodeFails(p)
           \/ ChDir(p) \/ Link(p)
  BY <1>7, NamesHands
<1>8. CASE MakNode(p)
  BY <1>8, NamesMade
<1>9. CASE WriteDir(p)
  BY <1>9, NamesWritten
<1>10. CASE Linked(p)
  BY <1>10, NamesLinked
<1>11. CASE Unlinked(p)
  BY <1>11, NamesUnlinked
<1>12. CASE WriteDirFails(p)
  BY <1>12, NamesUnwritten
<1>13. ~UnlinkFails(p)
  BY DEF UnlinkFails
<1> QED BY <1>1, <1>2, <1>3, <1>4, <1>5, <1>6, <1>7, <1>8, <1>9, <1>10, <1>11, <1>12, <1>13
    DEF Step

\* What holds as long as no lock was cleared by another than had set it and every unlinked
\* entry was cleared: who is alone with an inode, what a call has locked, that the entry or
\* the free place it has found is still there when it goes on, and that i_nlink is the
\* number of names when those that could not be written are counted in, the calls between
\* the two, and those that go on from a directory they have removed.
THEOREM NamesInvariance == Spec => []NamesInv
<1>1. Init => NamesInv
  BY InitDirInv, InitExact DEF NamesInv
<1>2. NamesInv /\ DirInv' /\ [Next]_vars => NamesInv'
  <2> SUFFICES ASSUME NamesInv, DirInv', [Next]_vars, ~stolen', ~uncleared'
               PROVE  Exact'
    BY DEF NamesInv
  <2>1. DirInv /\ Exact
    BY StolenForEver DEF NamesInv
  <2>2. ASSUME NEW p \in Procs, Step(p)
        PROVE  Exact'
    BY <2>1, <2>2, NamesStep
  <2>3. CASE UNCHANGED vars
    BY <2>1, <2>3, StutterExact
  <2> QED BY <2>2, <2>3 DEF Next
<1> QED BY <1>1, <1>2, DirInvariance, PTL DEF Spec

\* No directory has two entries of one name, no name leads to an inode that is free, and
\* i_nlink is the number of names and of those whose entry WriteI could not write, but for
\* names in directories that were removed with their entries, as long as no IPut has cleared
\* a lock that was another's and every unlinked entry could be cleared: NameI's search and
\* WriteDir's write are one step for the others, since the directory stays locked
\* (FileManager.cpp:621-643, 789), and UnLink's entry stays while the directory is unlocked.
THEOREM NamesExactHolds == Spec => []NamesExact
<1>1. NamesInv => NamesExact
  <2> SUFFICES ASSUME DirInv, Exact
               PROVE  UniqueNames /\ LinkCounts
    BY DEF NamesInv, NamesExact
  <2>1. ASSUME NEW i \in Inos
        PROVE  LET names == EntriesOf(i) + Cardinality(Making(i)) - Cardinality(Linking(i))
                            + unwritten[i]
               IN  /\ names <= node[i].nlink
                   /\ ~pruned => names = node[i].nlink
                   /\ node[i].kind = "none" => EntriesOf(i) = 0
    <3>1. CountsAre(i) /\ node[i].nlink \in Int
      BY Types DEF Exact, NodeType, Node
    <3>2. EntriesOf(i) = Cardinality(Named(i)) + One(i = Root)
      BY DEF EntriesOf, Named, One
    <3>3. /\ IsFiniteSet(Making(i)) /\ IsFiniteSet(Linking(i)) /\ IsFiniteSet(Pending(i))
      <4>1. Making(i) \subseteq Procs /\ Linking(i) \subseteq Procs /\ Pending(i) \subseteq Procs
        BY DEF Making, Linking, Pending
      <4> QED BY <4>1, FS_Subset, DirectoriesAssumption
    <3>4. /\ Cardinality(Named(i)) \in Nat /\ Cardinality(Making(i)) \in Nat
          /\ Cardinality(Linking(i)) \in Nat /\ Cardinality(Pending(i)) \in Nat
          /\ One(i = Root) \in Nat /\ unwritten[i] \in Nat
      BY <3>1, <3>3, FS_CardinalityType DEF CountsAre, One, LostType, Exact
    <3>5. Cardinality({}) = 0
      BY FS_EmptySet
    <3>6. Tally(i) <= node[i].nlink /\ (~pruned => Tally(i) = node[i].nlink /\ Pending(i) = {})
      BY <3>1 DEF CountsAre
    <3>7. node[i].kind = "none" => Cardinality(Named(i)) = 0 /\ One(i = Root) = 0
      BY <3>1, <3>5 DEF CountsAre, One
    <3> QED BY <3>1, <3>2, <3>4, <3>5, <3>6, <3>7 DEF Tally
  <2> QED BY <2>1 DEF LinkCounts, Exact
<1> QED BY <1>1, NamesInvariance, PTL

===============================================================================
