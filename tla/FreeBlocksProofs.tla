---------------------------- MODULE FreeBlocksProofs ----------------------------
(*****************************************************************************)
(* The free list, for any number of processes, blocks and entries of a       *)
(* table.                                                                    *)
(*                                                                           *)
(* LockSound needs only the places the processes are at (LockInv), and       *)
(* ModifiedKnown what is in the tables as well (KnownInv): each has the end  *)
(* mark at its bottom at most.                                               *)
(*                                                                           *)
(* That every block is in one place, and that Alloc and Free implement a     *)
(* pool, are proved together (BlocksInv).  The list is the sequence of       *)
(* tables that Walk computes; Lists says that it holds each of a set of      *)
(* numbers once, and a lemma for each kind of change (a number on or off the *)
(* first table, a table pushed into a block or popped out of it, a block     *)
(* written that is not on the list) says what it holds then.  From that each *)
(* action is a step of the pool, and the steps of the pool keep the blocks   *)
(* apart (PoolKeeps).                                                        *)
(*****************************************************************************)
EXTENDS FreeBlocks, SequenceTheorems, FiniteSetTheorems, WellFoundedInduction, TLAPS

Labels == {"user", "alloc", "refill", "clear", "free", "store", "stored", "copy", "rest"}

LockInv ==
    /\ pc \in [Procs -> Labels]
    /\ flock \in BOOLEAN
    /\ asleep \subseteq Procs
    /\ LockSound

\* A step that moves one process, neither from nor to a place where the table is
\* changed, and adds nobody to the sleepers.
LEMMA MovesOutside ==
    ASSUME LockInv, NEW p \in Procs, NEW to \in Labels,
           ~Changing(p), to \notin {"refill", "store", "stored"},
           pc' = [pc EXCEPT ![p] = to], flock' = flock, asleep' = asleep
    PROVE  LockInv'
  BY DEF LockInv, LockSound, Changing, Labels

\* A step that takes the lock while it is free.
LEMMA Locks ==
    ASSUME LockInv, NEW p \in Procs, NEW to \in {"refill", "store"},
           ~flock, pc' = [pc EXCEPT ![p] = to], flock' = TRUE, asleep' = asleep
    PROVE  LockInv'
  BY DEF LockInv, LockSound, Changing, Labels

\* A step that ends a change, unlocks and wakes everybody.
LEMMA Unlocks ==
    ASSUME LockInv, NEW p \in Procs, NEW to \in Labels,
           Changing(p), to \notin {"refill", "store", "stored"},
           pc' = [pc EXCEPT ![p] = to], Unlock
    PROVE  LockInv'
  BY DEF LockInv, LockSound, Changing, Labels, Unlock

\* A step that goes to sleep on the lock.
LEMMA Sleeps ==
    ASSUME LockInv, NEW p \in Procs, NEW to \in {"alloc", "free"},
           ~Changing(p), flock, flock' = flock,
           pc' = [pc EXCEPT ![p] = to], asleep' = asleep \cup {p}
    PROVE  LockInv'
  BY DEF LockInv, LockSound, Changing, Labels

LEMMA AllocKeepsLock ==
    ASSUME LockInv, NEW p \in Procs,
           AllocWait(p) \/ AllocTake(p) \/ AllocEnd(p) \/ AllocOutside(p)
    PROVE  LockInv'
<1>1. ~Changing(p)
  BY DEF AllocWait, AllocTake, AllocEnd, AllocOutside, InAlloc, Calls, Changing
<1>2. CASE AllocWait(p)
  BY <1>1, <1>2, Sleeps DEF AllocWait, Goto, superBlock
<1>3. ASSUME NoSpace(p)  PROVE LockInv'
  BY <1>1, <1>3, MovesOutside DEF NoSpace, Return, Goto, Labels
<1>4. ASSUME NEW b, NEW rest, Popped(p, b, rest), ~flock  PROVE LockInv'
  <2>1. CASE rest = << >>
    BY <1>4, <2>1, Locks DEF Popped, Goto
  <2>2. CASE rest # << >>
    BY <1>1, <1>4, <2>2, MovesOutside DEF Popped, Goto, Labels, LockInv
  <2> QED BY <2>1, <2>2
<1>5. CASE AllocTake(p)
  BY <1>4, <1>5 DEF AllocTake
<1>6. CASE AllocEnd(p)
  BY <1>3, <1>6 DEF AllocEnd
<1>7. CASE AllocOutside(p)
  BY <1>3, <1>4, <1>7 DEF AllocOutside
<1> QED BY <1>2, <1>5, <1>6, <1>7

LEMMA FreeKeepsLock ==
    ASSUME LockInv, NEW p \in Procs, NEW b,
           FreeWait(p, b) \/ FreePut(p, b) \/ FreeFull(p, b)
    PROVE  LockInv'
<1>1. ~Changing(p)
  BY DEF FreeWait, FreePut, FreeFull, InFree, Calls, Changing
<1>2. CASE FreeWait(p, b)
  BY <1>1, <1>2, Sleeps DEF FreeWait, Goto
<1>3. CASE FreePut(p, b)
  BY <1>1, <1>3, MovesOutside DEF FreePut, Return, Goto, Labels
<1>4. CASE FreeFull(p, b)
  BY <1>4, Locks DEF FreeFull, Goto
<1> QED BY <1>2, <1>3, <1>4

LEMMA ContinueKeepsLock ==
    ASSUME LockInv, NEW p \in Procs, UpdateBegin(p) \/ Continue(p)
    PROVE  LockInv'
<1>1. CASE AllocRefill(p)
  BY <1>1, Unlocks DEF AllocRefill, Goto, Changing, Labels
<1>2. CASE FreeStored(p)
  BY <1>2, Unlocks DEF FreeStored, Return, Goto, Changing, Labels
<1>3. CASE FreeStore(p)
  BY <1>3 DEF FreeStore, Goto, LockInv, LockSound, Changing, Labels
<1>4. CASE AllocClear(p)
  BY <1>4, MovesOutside DEF AllocClear, Return, Goto, Changing, Labels
<1>5. CASE UpdateBegin(p)
  BY <1>5, MovesOutside DEF UpdateBegin, Calls, Goto, Changing, Labels
<1>6. CASE UpdateCopy(p)
  BY <1>6, MovesOutside DEF UpdateCopy, Goto, Changing, Labels, superBlock
<1>7. CASE UpdateDone(p)
  BY <1>7, MovesOutside DEF UpdateDone, Return, Goto, Changing, Labels, superBlock
<1> QED BY <1>1, <1>2, <1>3, <1>4, <1>5, <1>6, <1>7 DEF Continue

LEMMA LockNext == LockInv /\ [Next]_vars => LockInv'
<1> SUFFICES ASSUME LockInv, [Next]_vars  PROVE LockInv'
  OBVIOUS
<1>1. CASE UNCHANGED vars
  BY <1>1 DEF LockInv, LockSound, Changing, vars
<1>2. CASE NotFollowed
  BY <1>1, <1>2 DEF NotFollowed
<1>3. CASE Next
  BY <1>2, <1>3, AllocKeepsLock, FreeKeepsLock, ContinueKeepsLock DEF Next
<1> QED BY <1>1, <1>3

\* LockInv holds in every state: the lock of the free list is set exactly while one
\* process changes the table, whatever Alloc, Free and Update the others are in.
THEOREM LockInvariance == Spec => []LockInv
<1>1. Init => LockInv
  BY DEF Init, LockInv, LockSound, Changing, Labels
<1> QED BY <1>1, LockNext, PTL DEF Spec

\* s_flock has one owner, and nobody sleeps on it while it is clear: no wake-up of
\* Alloc or Free is lost.
THEOREM LockSafe == Spec => []LockSound
<1>1. LockInv => LockSound
  BY DEF LockInv
<1> QED BY <1>1, LockInvariance, PTL

-----------------------------------------------------------------------------
\* Functions on the numbers

LEMMA Least ==
    ASSUME NEW T, T \subseteq Nat, T # {}
    PROVE  \E x \in T : \A y \in T : x <= y
<1> DEFINE R == OpToRel(<, Nat)
<1>1. IsWellFoundedOn(R, Nat)
  BY NatLessThanWellFounded
<1>2. \A y, x \in Nat : <<y, x>> \in R <=> y < x
  BY DEF OpToRel
<1> HIDE DEF R
<1>3. PICK x \in T : \A y \in T : ~(<<y, x>> \in R)
  BY <1>1, WFMin
<1>4. \A y \in T : x <= y
  <2> TAKE y \in T
  <2>1. ~(y < x)
    BY <1>2, <1>3, Zenon
  <2>2. x \in Nat /\ y \in Nat
    OBVIOUS
  <2> QED BY <2>1, <2>2
<1> QED BY <1>4

\* g begins with a and takes the steps of F, as far as n.
Follows(g, S, a, F, n) ==
    /\ g \in [0..n -> S] /\ g[0] = a
    /\ \A m \in 1..n : g[m] = F[m][g[m - 1]]

\* Some function does, as far as any n: none is the first it stops at.
LEMMA FollowsExists ==
    ASSUME NEW S, NEW a \in S, NEW F \in [Nat -> [S -> S]]
    PROVE  \A n \in Nat : \E g : Follows(g, S, a, F, n)
<1> DEFINE T == {n \in Nat : ~\E g : Follows(g, S, a, F, n)}
<1> SUFFICES ASSUME T # {}  PROVE FALSE
  OBVIOUS
<1>1. PICK n \in T : \A y \in T : n <= y
  BY Least
<1>2. CASE n = 0
  <2>1. Follows([m \in 0..0 |-> a], S, a, F, 0)
    BY DEF Follows
  <2> QED BY <1>2, <2>1
<1>3. CASE n # 0
  <2>1. n - 1 \in Nat /\ n - 1 \notin T
    <3>1. T \subseteq Nat
      OBVIOUS
    <3> HIDE DEF T
    <3> QED BY <1>1, <1>3, <3>1
  <2>2. PICK g : Follows(g, S, a, F, n - 1)
    BY <2>1
  <2> DEFINE e == F[n][g[n - 1]]
             h == [m \in 0..n |-> IF m = n THEN e ELSE g[m]]
  <2>3. e \in S
    <3>1. g[n - 1] \in S /\ F[n] \in [S -> S]
      BY <2>1, <2>2 DEF Follows
    <3> QED BY <3>1
  <2> HIDE DEF e
  <2>4. h \in [0..n -> S] /\ h[0] = a
    BY <1>3, <2>1, <2>2, <2>3 DEF Follows
  <2>5. ASSUME NEW m \in 1..n  PROVE h[m] = F[m][h[m - 1]]
    <3>1. CASE m = n
      BY <3>1, <2>1 DEF e
    <3>2. CASE m # n
      <4>1. m \in 1..(n - 1) /\ h[m] = g[m] /\ h[m - 1] = g[m - 1]
        BY <2>5, <3>2, <2>1
      <4> QED BY <4>1, <2>2 DEF Follows
    <3> QED BY <3>1, <3>2
  <2>6. Follows(h, S, a, F, n)
    BY <2>4, <2>5 DEF Follows
  <2> QED BY <2>6
<1> QED BY <1>2, <1>3

\* And they agree.
LEMMA FollowsUnique ==
    ASSUME NEW S, NEW a, NEW F, NEW i \in Nat, NEW j \in Nat, i <= j, NEW g, NEW h,
           Follows(g, S, a, F, i), Follows(h, S, a, F, j)
    PROVE  g[i] = h[i]
<1> DEFINE T == {n \in 0..i : g[n] # h[n]}
<1> SUFFICES ASSUME T # {}  PROVE FALSE
  OBVIOUS
<1>1. PICK n \in T : \A y \in T : n <= y
  <2>1. T \subseteq Nat
    OBVIOUS
  <2> QED BY <2>1, Least
<1>2. CASE n = 0
  BY <1>2 DEF Follows
<1>3. CASE n # 0
  <2>1. n - 1 \in 0..i /\ n - 1 \notin T /\ n \in 1..i /\ n \in 1..j
    BY <1>1, <1>3
  <2>2. g[n - 1] = h[n - 1]
    BY <2>1
  <2>3. g[n] = h[n]
    BY <2>1, <2>2 DEF Follows
  <2> QED BY <2>3
<1> QED BY <1>2, <1>3

\* G begins with a and takes the steps of F for ever.
Iterates(G, S, a, F) ==
    G \in [Nat -> S] /\ G[0] = a /\ \A n \in Nat \ {0} : G[n] = F[n][G[n - 1]]

LEMMA Iterated ==
    ASSUME NEW S, NEW a \in S, NEW F \in [Nat -> [S -> S]]
    PROVE  \E G : Iterates(G, S, a, F)
<1> DEFINE Q(n) == CHOOSE g : Follows(g, S, a, F, n)
           G    == [n \in Nat |-> Q(n)[n]]
<1>1. \A n \in Nat : Follows(Q(n), S, a, F, n)
  <2>1. \A n \in Nat : \E g : Follows(g, S, a, F, n)
    BY FollowsExists
  <2> QED BY <2>1
<1>2. \A n \in Nat : G[n] = Q(n)[n]
  OBVIOUS
<1> HIDE DEF Q
<1>3. G[0] = a
  BY <1>1 DEF Follows
<1>4. ASSUME NEW n \in Nat  PROVE G[n] \in S
  <2>1. Q(n) \in [0..n -> S] /\ n \in 0..n
    BY <1>1 DEF Follows
  <2> QED BY <1>2, <2>1
<1>5. ASSUME NEW n \in Nat \ {0}  PROVE G[n] = F[n][G[n - 1]]
  <2>1. PICK g : g = Q(n)
    OBVIOUS
  <2>2. PICK h : h = Q(n - 1)
    OBVIOUS
  <2>3. n - 1 \in Nat /\ n \in Nat /\ n - 1 <= n
    OBVIOUS
  <2>4. Follows(g, S, a, F, n) /\ Follows(h, S, a, F, n - 1)
    BY <1>1, <2>1, <2>2, <2>3
  <2>5. G[n] = g[n] /\ G[n - 1] = h[n - 1]
    BY <1>2, <2>1, <2>2, <2>3
  <2> HIDE DEF G
  <2>6. h[n - 1] = g[n - 1]
    BY <2>3, <2>4, FollowsUnique
  <2>7. g[n] = F[n][g[n - 1]]
    BY <2>4 DEF Follows
  <2> QED BY <2>5, <2>6, <2>7
<1>6. G \in [Nat -> S]
  BY <1>4
<1> HIDE DEF G
<1>7. Iterates(G, S, a, F)
  BY <1>3, <1>5, <1>6 DEF Iterates
<1> QED BY <1>7

-----------------------------------------------------------------------------
\* The formatted disk: Formatted is the function its equation describes

\* What is on the disk after n blocks have been freed.
Images == [stack : Seq(Int), content : [Blocks -> Seq(Int)]]

Blank == [stack |-> << 0 >>, content |-> [b \in Blocks |-> Data]]

Freed(f, b) ==
    IF Len(f.stack) < GroupSize
    THEN [f EXCEPT !.stack = Append(@, b)]
    ELSE [stack |-> <<b>>, content |-> [f.content EXCEPT ![b] = f.stack]]

LEMMA BlankIs == Blank \in Images
  BY DEF Blank, Images, Data

LEMMA FreedIs ==
    ASSUME NEW f \in Images, NEW b \in Int
    PROVE  Freed(f, b) \in Images
<1>1. f.stack \in Seq(Int) /\ f.content \in [Blocks -> Seq(Int)]
  BY DEF Images
<1>2. CASE Len(f.stack) < GroupSize
  <2> DEFINE t == Append(f.stack, b)
  <2>1. t \in Seq(Int)
    BY <1>1
  <2>2. Freed(f, b) = [f EXCEPT !.stack = t]
    BY <1>2 DEF Freed
  <2> HIDE DEF t
  <2> QED BY <1>1, <2>1, <2>2 DEF Images
<1>3. CASE ~(Len(f.stack) < GroupSize)
  <2> DEFINE c == f.content
             t == f.stack
  <2>1. <<b>> \in Seq(Int) /\ [c EXCEPT ![b] = t] \in [Blocks -> Seq(Int)]
    <3>1. c \in [Blocks -> Seq(Int)] /\ t \in Seq(Int)
      BY <1>1
    <3> HIDE DEF c, t
    <3>2. [c EXCEPT ![b] = t] \in [Blocks -> Seq(Int)]
      BY <3>1
    <3> QED BY <3>2
  <2>2. Freed(f, b) = [stack |-> <<b>>, content |-> [f.content EXCEPT ![b] = f.stack]]
    BY <1>3 DEF Freed
  <2> QED BY <2>1, <2>2 DEF Images
<1> QED BY <1>2, <1>3

\* The equation of Formatted, with its values.
LEMMA FormattedIs ==
    /\ Formatted \in [Nat -> Images] /\ Formatted[0] = Blank
    /\ \A n \in Nat \ {0} : Formatted[n] = Freed(Formatted[n - 1], NBlocks + 1 - n)
<1> DEFINE E(f) == f = [n \in Nat |-> IF n = 0 THEN Blank
                                      ELSE Freed(f[n - 1], NBlocks + 1 - n)]
           F    == [n \in Nat |-> [f \in Images |-> Freed(f, NBlocks + 1 - n)]]
<1>1. F \in [Nat -> [Images -> Images]]
  <2>1. \A n \in Nat : \A f \in Images : Freed(f, NBlocks + 1 - n) \in Images
    BY FreedIs, FreeBlocksAssumption DEF FreeBlocksAssumption
  <2> QED BY <2>1
<1>2. \A n \in Nat : \A f \in Images : F[n][f] = Freed(f, NBlocks + 1 - n)
  OBVIOUS
<1> HIDE DEF F
<1>3. PICK G : Iterates(G, Images, Blank, F)
  BY <1>1, BlankIs, Iterated, Zenon
<1>4. \A n \in Nat \ {0} : G[n] = Freed(G[n - 1], NBlocks + 1 - n)
  <2>1. \A n \in Nat \ {0} : n - 1 \in Nat /\ n \in Nat
    OBVIOUS
  <2> QED BY <1>2, <1>3, <2>1 DEF Iterates
<1>5. E(G)
  <2>1. G = [n \in Nat |-> G[n]]
    BY <1>3 DEF Iterates
  <2> QED BY <1>3, <1>4, <2>1 DEF Iterates
<1>6. Formatted = CHOOSE f : E(f)
  BY DEF Formatted, Blank, Freed
<1>7. E(Formatted)
  <2> HIDE DEF E
  <2> QED BY <1>5, <1>6
<1>8. /\ Formatted[0] = Blank
      /\ \A n \in Nat \ {0} : Formatted[n] = Freed(Formatted[n - 1], NBlocks + 1 - n)
      /\ Formatted = [n \in Nat |-> Formatted[n]]
  BY <1>7
<1>9. \A n \in Nat : Formatted[n] \in Images
  <2> DEFINE T == {n \in Nat : Formatted[n] \notin Images}
  <2> SUFFICES ASSUME T # {}  PROVE FALSE
    OBVIOUS
  <2>1. PICK n \in T : \A y \in T : n <= y
    BY Least
  <2>2. n # 0
    BY <1>8, BlankIs
  <2>3. n - 1 \in Nat /\ n - 1 \notin T /\ NBlocks + 1 - n \in Int
    BY <2>1, <2>2, FreeBlocksAssumption DEF FreeBlocksAssumption
  <2>4. Formatted[n] \in Images
    BY <1>8, <2>2, <2>3, FreedIs
  <2> QED BY <2>4
<1> QED BY <1>8, <1>9
-----------------------------------------------------------------------------
LEMMA FrontIs ==
    ASSUME NEW s \in Seq(Int), s # << >>
    PROVE  /\ Front(s) \in Seq(Int) /\ Len(Front(s)) = Len(s) - 1
           /\ \A k \in 1..(Len(s) - 1) : Front(s)[k] = s[k]
  BY EmptySeq, LenProperties, SMTT(30) DEF Front

\* The list as a sequence of tables

Contents == [Blocks -> Seq(Int)]

\* t[0], t[1], ... are the tables from s on.
IsWalk(t, s, c) ==
    /\ t \in [Nat -> Seq(Int)] /\ t[0] = s
    /\ \A n \in Nat : t[n + 1] = After(t[n], c)

LEMMA AfterIs ==
    ASSUME NEW c \in Contents, NEW s \in Seq(Int)
    PROVE  After(s, c) \in Seq(Int)
  BY DEF After, Contents, Data

LEMMA WalkIs ==
    ASSUME NEW c \in Contents, NEW s \in Seq(Int)
    PROVE  IsWalk(Walk(s, c), s, c)
<1> DEFINE E(f) == f = [n \in Nat |-> IF n = 0 THEN s ELSE After(f[n - 1], c)]
           F    == [n \in Nat |-> [r \in Seq(Int) |-> After(r, c)]]
<1>1. F \in [Nat -> [Seq(Int) -> Seq(Int)]]
  BY AfterIs
<1>2. \A n \in Nat : \A r \in Seq(Int) : F[n][r] = After(r, c)
  OBVIOUS
<1> HIDE DEF F
<1>3. PICK G : Iterates(G, Seq(Int), s, F)
  BY <1>1, Iterated, Zenon
<1>4. \A n \in Nat \ {0} : G[n] = After(G[n - 1], c)
  <2>1. \A n \in Nat \ {0} : n - 1 \in Nat /\ n \in Nat
    OBVIOUS
  <2> QED BY <1>2, <1>3, <2>1 DEF Iterates
<1>5. E(G)
  <2>1. G = [n \in Nat |-> G[n]]
    BY <1>3 DEF Iterates
  <2> QED BY <1>3, <1>4, <2>1 DEF Iterates
<1>6. Walk(s, c) = CHOOSE f : E(f)
  BY DEF Walk
<1>7. E(Walk(s, c))
  <2> HIDE DEF E
  <2> QED BY <1>5, <1>6
<1>8. PICK W : W = Walk(s, c)
  OBVIOUS
<1>9. /\ W[0] = s /\ W = [n \in Nat |-> W[n]]
      /\ \A n \in Nat \ {0} : W[n] = After(W[n - 1], c)
  BY <1>7, <1>8
<1>10. \A n \in Nat : W[n] \in Seq(Int)
  <2> DEFINE T == {n \in Nat : W[n] \notin Seq(Int)}
  <2> SUFFICES ASSUME T # {}  PROVE FALSE
    OBVIOUS
  <2>1. PICK n \in T : \A y \in T : n <= y
    BY Least
  <2>2. n # 0
    BY <1>9
  <2>3. n - 1 \in Nat /\ n - 1 \notin T
    BY <2>1, <2>2
  <2>4. W[n] \in Seq(Int)
    BY <1>9, <2>2, <2>3, AfterIs
  <2> QED BY <2>4
<1>11. \A n \in Nat : W[n + 1] = After(W[n], c)
  <2> TAKE n \in Nat
  <2>1. n + 1 \in Nat \ {0} /\ (n + 1) - 1 = n
    OBVIOUS
  <2> QED BY <1>9, <2>1
<1> QED BY <1>8, <1>9, <1>10, <1>11 DEF IsWalk

\* The equation has one solution.
LEMMA WalkUnique ==
    ASSUME NEW c \in Contents, NEW s \in Seq(Int), NEW t, IsWalk(t, s, c)
    PROVE  t = Walk(s, c)
<1>1. PICK W : W = Walk(s, c)
  OBVIOUS
<1>2. IsWalk(W, s, c)
  BY <1>1, WalkIs
<1> DEFINE T == {n \in Nat : W[n] # t[n]}
<1>3. ASSUME T # {}  PROVE FALSE
  <2>1. PICK n \in T : \A y \in T : n <= y
    BY <1>3, Least
  <2>2. n # 0
    BY <1>2 DEF IsWalk
  <2>3. n - 1 \in Nat /\ n - 1 \notin T /\ (n - 1) + 1 = n
    BY <2>1, <2>2
  <2>4. W[n] = t[n]
    BY <1>2, <2>3 DEF IsWalk
  <2> QED BY <2>4
<1>4. \A n \in Nat : W[n] = t[n]
  BY <1>3
<1>5. W = t
  BY <1>2, <1>4 DEF IsWalk
<1> QED BY <1>1, <1>5

\* A number is at one place in the tables t at most.
Once(t) ==
    \A m, n \in Nat : \A i \in 1..Len(t[m]), j \in 1..Len(t[n]) :
        t[m][i] = t[n][j] => m = n /\ i = j

\* X is the set of numbers in the tables t.
Holds(t, X) ==
    /\ \A n \in Nat : \A i \in 1..Len(t[n]) : t[n][i] \in X
    /\ \A x \in X : \E n \in Nat : \E i \in 1..Len(t[n]) : t[n][i] = x

\* The list that begins with the table s holds the numbers X, each once.
Lists(s, c, X) == \E t : IsWalk(t, s, c) /\ Once(t) /\ Holds(t, X)

\* After an empty table there is nothing.
LEMMA RestEmpty ==
    ASSUME NEW t, NEW s, NEW c, IsWalk(t, s, c), NEW k \in Nat, t[k] = << >>
    PROVE  \A n \in Nat : n >= k => t[n] = << >>
<1> DEFINE T == {n \in Nat : n >= k /\ t[n] # << >>}
<1> SUFFICES ASSUME T # {}  PROVE FALSE
  OBVIOUS
<1>1. PICK n \in T : \A y \in T : n <= y
  BY Least
<1>2. n # k
  OBVIOUS
<1>3. n - 1 \in Nat /\ n - 1 >= k /\ n - 1 \notin T /\ (n - 1) + 1 = n
  BY <1>1, <1>2
<1>4. t[n - 1] = << >>
  BY <1>3
<1>5. t[n] = << >>
  BY <1>3, <1>4 DEF IsWalk, After, Data
<1> QED BY <1>5

LEMMA ListsEmpty ==
    ASSUME NEW c \in Contents
    PROVE  Lists(<< >>, c, {})
<1>1. PICK t : t = Walk(<< >>, c)
  OBVIOUS
<1>2. IsWalk(t, << >>, c)
  <2>1. << >> \in Seq(Int)
    OBVIOUS
  <2> QED BY <1>1, <2>1, WalkIs
<1>3. t[0] = << >>
  BY <1>2 DEF IsWalk
<1>4. \A n \in Nat : t[n] = << >>
  BY <1>2, <1>3, RestEmpty
<1>5. Once(t) /\ Holds(t, {})
  BY <1>4 DEF Once, Holds
<1> QED BY <1>2, <1>5 DEF Lists

\* One table, with the end mark or none at its bottom.
LEMMA ListsAlone ==
    ASSUME NEW c \in Contents, NEW s \in Seq(Int), s # << >>, s[1] \notin Blocks,
           \A i, j \in 1..Len(s) : s[i] = s[j] => i = j
    PROVE  Lists(s, c, {s[i] : i \in 1..Len(s)})
<1>1. PICK t : t = Walk(s, c)
  OBVIOUS
<1>2. IsWalk(t, s, c)
  BY <1>1, WalkIs
<1>3. t[0] = s /\ t[0 + 1] = After(t[0], c) /\ 0 + 1 = 1
  BY <1>2 DEF IsWalk
<1>4. t[1] = << >>
  <2>1. Head(s) = s[1]
    OBVIOUS
  <2>2. t[1] = After(s, c)
    BY <1>3
  <2> QED BY <2>1, <2>2, Zenon DEF After, Data
<1>5. \A n \in Nat : n >= 1 => t[n] = << >>
  BY <1>2, <1>4, RestEmpty
<1>6. \A n \in Nat : t[n] # << >> => n = 0
  BY <1>5
<1>7. \A n \in Nat : \A i \in 1..Len(t[n]) : n = 0 /\ i \in 1..Len(s) /\ t[n][i] = s[i]
  BY <1>3, <1>6
<1>8. Once(t)
  BY <1>7 DEF Once
<1>9. Holds(t, {s[i] : i \in 1..Len(s)})
  BY <1>3, <1>7 DEF Holds
<1> QED BY <1>2, <1>8, <1>9 DEF Lists

\* A block on the list may be told by its table and place.
LEMMA ListsHead ==
    ASSUME NEW s, NEW c, NEW X, Lists(s, c, X), s # << >>
    PROVE  s \in Seq(Int) /\ \A i \in 1..Len(s) : s[i] \in X
<1>1. PICK t : IsWalk(t, s, c) /\ Holds(t, X)
  BY DEF Lists
<1> QED BY <1>1 DEF IsWalk, Holds

\* What the blocks that are not on the list contain makes no difference.
LEMMA ListsSame ==
    ASSUME NEW s, NEW c \in Contents, NEW d \in Contents, NEW X, Lists(s, c, X),
           \A b \in Blocks : b \in X => d[b] = c[b]
    PROVE  Lists(s, d, X)
<1>1. PICK t : IsWalk(t, s, c) /\ Once(t) /\ Holds(t, X)
  BY DEF Lists
<1>2. ASSUME NEW n \in Nat  PROVE After(t[n], d) = After(t[n], c)
  <2>1. CASE t[n] # << >>
    <3>1. t[n] \in Seq(Int)
      BY <1>1 DEF IsWalk
    <3>2. 1 \in 1..Len(t[n]) /\ Head(t[n]) = t[n][1]
      BY <2>1, <3>1, EmptySeq, LenProperties
    <3>3. Head(t[n]) \in X
      BY <1>1, <3>2 DEF Holds
    <3> QED BY <3>3 DEF After
  <2>2. CASE t[n] = << >>
    BY <2>2 DEF After, Data
  <2> QED BY <2>1, <2>2
<1>3. IsWalk(t, s, d)
  BY <1>1, <1>2 DEF IsWalk
<1> QED BY <1>1, <1>3 DEF Lists

LEMMA AppendIs ==
    ASSUME NEW s \in Seq(Int), NEW b \in Int
    PROVE  /\ Append(s, b) \in Seq(Int) /\ Len(s) \in Nat /\ Len(Append(s, b)) = Len(s) + 1
           /\ \A k \in 1..Len(s) : Append(s, b)[k] = s[k]
           /\ Append(s, b)[Len(s) + 1] = b
           /\ s # << >> => Head(Append(s, b)) = Head(s)
<1>1. /\ Append(s, b) \in Seq(Int) /\ Len(s) \in Nat /\ Len(Append(s, b)) = Len(s) + 1
      /\ \A k \in 1..Len(s) : Append(s, b)[k] = s[k]
      /\ Append(s, b)[Len(s) + 1] = b
  OBVIOUS
<1>2. ASSUME s # << >>  PROVE Head(Append(s, b)) = Head(s)
  <2>1. 1 \in 1..Len(s)
    BY <1>2, EmptySeq, LenProperties
  <2>2. Append(s, b)[1] = s[1] /\ Append(s, b) # << >>
    BY <2>1, <1>1
  <2> QED BY <1>1, <1>2, <2>2
<1> QED BY <1>1, <1>2

\* A number put on the first table.
LEMMA ListsPut ==
    ASSUME NEW s, NEW c, NEW X, Lists(s, c, X), s # << >>, NEW b \in Int, b \notin X
    PROVE  Lists(Append(s, b), c, X \cup {b})
<1>1. PICK t : IsWalk(t, s, c) /\ Once(t) /\ Holds(t, X)
  BY DEF Lists
<1>2. PICK r : r = Append(s, b)
  OBVIOUS
<1>3. /\ r \in Seq(Int) /\ Len(s) \in Nat /\ Len(r) = Len(s) + 1
      /\ \A k \in 1..Len(s) : r[k] = s[k]
      /\ r[Len(s) + 1] = b /\ Head(r) = Head(s) /\ r # << >>
  <2>1. s \in Seq(Int)
    BY ListsHead
  <2> QED BY <1>2, <2>1, AppendIs
<1> DEFINE u == [n \in Nat |-> IF n = 0 THEN r ELSE t[n]]
<1>4. u[0] = r /\ u \in [Nat -> Seq(Int)] /\ \A n \in Nat : n # 0 => u[n] = t[n]
  BY <1>1, <1>3 DEF IsWalk
<1> HIDE DEF u
<1>5. t[0] = s /\ \A n \in Nat : t[n] \in Seq(Int) /\ Len(t[n]) \in Nat
  <2>1. t[0] = s /\ \A n \in Nat : t[n] \in Seq(Int)
    BY <1>1 DEF IsWalk
  <2> QED BY <2>1, LenProperties
<1>6. IsWalk(u, r, c)
  <2>1. After(r, c) = After(s, c)
    <3>1. s # << >> /\ r # << >> /\ Head(r) = Head(s)
      BY <1>3
    <3> QED BY <3>1 DEF After, Data
  <2>2. \A n \in Nat : u[n + 1] = t[n + 1] /\ t[n + 1] = After(t[n], c)
    <3>1. \A n \in Nat : n + 1 \in Nat /\ n + 1 # 0
      OBVIOUS
    <3>2. \A n \in Nat : t[n + 1] = After(t[n], c)
      BY <1>1 DEF IsWalk
    <3> QED BY <1>4, <3>1, <3>2
  <2>3. ASSUME NEW n \in Nat  PROVE u[n + 1] = After(u[n], c)
    <3>1. CASE n = 0
      BY <1>4, <1>5, <2>1, <2>2, <3>1
    <3>2. CASE n # 0
      BY <1>4, <2>2, <3>2
    <3> QED BY <3>1, <3>2
  <2> QED BY <1>4, <2>3 DEF IsWalk
\* the places of the new tables are those of the old and one more
<1>7. ASSUME NEW n \in Nat, NEW i \in 1..Len(u[n])
      PROVE  \/ n = 0 /\ i = Len(s) + 1 /\ u[n][i] = b
             \/ i \in 1..Len(t[n]) /\ u[n][i] = t[n][i]
  <2>1. CASE n = 0
    <3>1. i \in 1..(Len(s) + 1)
      BY <1>3, <1>4, <1>7, <2>1
    <3>2. i = Len(s) + 1 \/ i \in 1..Len(s)
      BY <1>3, <3>1
    <3>3. u[n] = r /\ t[n] = s
      BY <1>4, <1>5, <2>1
    <3> QED BY <1>3, <2>1, <3>2, <3>3
  <2>2. CASE n # 0
    BY <1>4, <1>7, <2>2
  <2> QED BY <2>1, <2>2
<1>8. ASSUME NEW n \in Nat, NEW i \in 1..Len(t[n])
      PROVE  i \in 1..Len(u[n]) /\ u[n][i] = t[n][i]
  <2>1. CASE n = 0
    <3>1. u[n] = r /\ t[n] = s
      BY <1>4, <1>5, <2>1
    <3>2. i \in 1..Len(s) /\ i \in 1..(Len(s) + 1)
      BY <1>3, <1>8, <3>1
    <3> QED BY <1>3, <3>1, <3>2
  <2>2. CASE n # 0
    BY <1>4, <1>8, <2>2
  <2> QED BY <2>1, <2>2
<1>9. \A n \in Nat : \A i \in 1..Len(t[n]) : t[n][i] \in X /\ t[n][i] # b
  BY <1>1 DEF Holds
<1>10. Once(u)
  <2> SUFFICES ASSUME NEW m \in Nat, NEW n \in Nat, NEW i \in 1..Len(u[m]),
                      NEW j \in 1..Len(u[n]), u[m][i] = u[n][j]
               PROVE  m = n /\ i = j
    BY DEF Once
  <2>1. \/ m = 0 /\ i = Len(s) + 1 /\ u[m][i] = b
        \/ i \in 1..Len(t[m]) /\ u[m][i] = t[m][i]
    BY <1>7
  <2>2. \/ n = 0 /\ j = Len(s) + 1 /\ u[n][j] = b
        \/ j \in 1..Len(t[n]) /\ u[n][j] = t[n][j]
    BY <1>7
  <2>3. CASE u[m][i] = b
    BY <1>9, <2>1, <2>2, <2>3
  <2>4. CASE u[m][i] # b
    <3>1. i \in 1..Len(t[m]) /\ j \in 1..Len(t[n]) /\ t[m][i] = t[n][j]
      BY <2>1, <2>2, <2>4
    <3> QED BY <1>1, <3>1 DEF Once
  <2> QED BY <2>3, <2>4
<1>11. Holds(u, X \cup {b})
  <2>1. 0 \in Nat /\ Len(s) + 1 \in 1..Len(u[0]) /\ u[0][Len(s) + 1] = b
    BY <1>3, <1>4
  <2>2. \A n \in Nat : \A i \in 1..Len(u[n]) : u[n][i] \in X \cup {b}
    BY <1>7, <1>9
  <2>3. \A x \in X : \E n \in Nat : \E i \in 1..Len(u[n]) : u[n][i] = x
    BY <1>1, <1>8 DEF Holds
  <2> QED BY <2>1, <2>2, <2>3 DEF Holds
<1> QED BY <1>2, <1>6, <1>10, <1>11 DEF Lists

\* The last number taken off the first table, which has others.
LEMMA ListsFront ==
    ASSUME NEW s, NEW c, NEW X, Lists(s, c, X), s # << >>, Front(s) # << >>
    PROVE  Lists(Front(s), c, X \ {Last(s)})
<1>1. PICK t : IsWalk(t, s, c) /\ Once(t) /\ Holds(t, X)
  BY DEF Lists
<1>2. PICK r, b : r = Front(s) /\ b = Last(s)
  OBVIOUS
<1>3. /\ r \in Seq(Int) /\ Len(s) \in Nat /\ Len(s) > 1 /\ Len(r) = Len(s) - 1
      /\ \A k \in 1..Len(r) : r[k] = s[k]
      /\ s[Len(s)] = b /\ Head(r) = Head(s) /\ r # << >>
  <2>1. s \in Seq(Int)
    BY ListsHead
  <2>2. r \in Seq(Int) /\ Len(r) = Len(s) - 1 /\ \A k \in 1..(Len(s) - 1) : r[k] = s[k]
    BY <1>2, <2>1, FrontIs
  <2>3. r # << >> /\ Len(r) # 0 /\ Len(r) \in Nat /\ Len(s) \in Nat
    BY <1>2, <2>1, <2>2, EmptySeq
  <2>4. r[1] = s[1] /\ Head(r) = r[1] /\ Head(s) = s[1]
    BY <2>1, <2>2, <2>3
  <2> QED BY <1>2, <2>2, <2>3, <2>4 DEF Last
<1> DEFINE u == [n \in Nat |-> IF n = 0 THEN r ELSE t[n]]
<1>4. u[0] = r /\ u \in [Nat -> Seq(Int)] /\ \A n \in Nat : n # 0 => u[n] = t[n]
  BY <1>1, <1>3 DEF IsWalk
<1> HIDE DEF u
<1>5. t[0] = s /\ \A n \in Nat : t[n] \in Seq(Int) /\ Len(t[n]) \in Nat
  <2>1. t[0] = s /\ \A n \in Nat : t[n] \in Seq(Int)
    BY <1>1 DEF IsWalk
  <2> QED BY <2>1, LenProperties
<1>6. IsWalk(u, r, c)
  <2>1. After(r, c) = After(s, c)
    <3>1. s # << >> /\ r # << >> /\ Head(r) = Head(s)
      BY <1>3
    <3> QED BY <3>1 DEF After, Data
  <2>2. \A n \in Nat : u[n + 1] = t[n + 1] /\ t[n + 1] = After(t[n], c)
    <3>1. \A n \in Nat : n + 1 \in Nat /\ n + 1 # 0
      OBVIOUS
    <3>2. \A n \in Nat : t[n + 1] = After(t[n], c)
      BY <1>1 DEF IsWalk
    <3> QED BY <1>4, <3>1, <3>2
  <2>3. ASSUME NEW n \in Nat  PROVE u[n + 1] = After(u[n], c)
    <3>1. CASE n = 0
      BY <1>4, <1>5, <2>1, <2>2, <3>1
    <3>2. CASE n # 0
      BY <1>4, <2>2, <3>2
    <3> QED BY <3>1, <3>2
  <2> QED BY <1>4, <2>3 DEF IsWalk
<1>7. ASSUME NEW n \in Nat, NEW i \in 1..Len(u[n])
      PROVE  i \in 1..Len(t[n]) /\ u[n][i] = t[n][i] /\ (n # 0 \/ i # Len(s))
  <2>1. CASE n = 0
    <3>1. u[n] = r /\ t[n] = s
      BY <1>4, <1>5, <2>1
    <3>2. i \in 1..(Len(s) - 1)
      BY <1>3, <1>7, <3>1
    <3>3. i \in 1..Len(s) /\ i # Len(s)
      BY <1>3, <3>2
    <3> QED BY <1>3, <3>1, <3>2, <3>3
  <2>2. CASE n # 0
    BY <1>4, <1>7, <2>2
  <2> QED BY <2>1, <2>2
<1>8. ASSUME NEW n \in Nat, NEW i \in 1..Len(t[n])
      PROVE  \/ n = 0 /\ i = Len(s) /\ t[n][i] = b
             \/ i \in 1..Len(u[n]) /\ u[n][i] = t[n][i]
  <2>1. CASE n = 0
    <3>1. u[n] = r /\ t[n] = s
      BY <1>4, <1>5, <2>1
    <3>2. i \in 1..Len(s)
      BY <1>8, <3>1
    <3>3. i = Len(s) \/ i \in 1..(Len(s) - 1)
      BY <1>3, <3>2
    <3> QED BY <1>3, <2>1, <3>1, <3>3
  <2>2. CASE n # 0
    BY <1>4, <1>8, <2>2
  <2> QED BY <2>1, <2>2
<1>10. Once(u)
  BY <1>1, <1>7 DEF Once
<1>11. \A n \in Nat : \A i \in 1..Len(u[n]) : u[n][i] # b
  <2>1. 0 \in Nat /\ Len(s) \in 1..Len(t[0]) /\ t[0][Len(s)] = b
    BY <1>3, <1>5
  <2> QED BY <1>1, <1>7, <2>1 DEF Once
<1>9. Holds(u, X \ {b})
  <2>1. \A n \in Nat : \A i \in 1..Len(u[n]) : u[n][i] \in X \ {b}
    BY <1>1, <1>7, <1>11 DEF Holds
  <2>2. ASSUME NEW x \in X \ {b}  PROVE \E n \in Nat : \E i \in 1..Len(u[n]) : u[n][i] = x
    <3>1. PICK n \in Nat : \E i \in 1..Len(t[n]) : t[n][i] = x
      BY <1>1 DEF Holds
    <3>2. PICK i \in 1..Len(t[n]) : t[n][i] = x
      BY <3>1
    <3> QED BY <1>8, <3>2
  <2> QED BY <2>1, <2>2 DEF Holds
<1> QED BY <1>2, <1>6, <1>9, <1>10 DEF Lists

\* A new first table with the one block that contains the old.
LEMMA ListsPush ==
    ASSUME NEW s, NEW c, NEW X, NEW b \in Blocks, c[b] = s, b \notin X, Lists(s, c, X)
    PROVE  Lists(<<b>>, c, X \cup {b})
<1>1. PICK t : IsWalk(t, s, c) /\ Once(t) /\ Holds(t, X)
  BY DEF Lists
<1>2. b \in Int /\ <<b>> \in Seq(Int) /\ Len(<<b>>) = 1 /\ <<b>>[1] = b
  BY FreeBlocksAssumption DEF Blocks, FreeBlocksAssumption
<1> DEFINE u == [n \in Nat |-> IF n = 0 THEN <<b>> ELSE t[n - 1]]
<1>3. u[0] = <<b>> /\ u \in [Nat -> Seq(Int)] /\ \A n \in Nat : u[n + 1] = t[n]
  <2>1. \A n \in Nat : n # 0 => n - 1 \in Nat /\ t[n - 1] \in Seq(Int)
    BY <1>1 DEF IsWalk
  <2>2. \A n \in Nat : n + 1 \in Nat /\ n + 1 # 0 /\ (n + 1) - 1 = n
    OBVIOUS
  <2> QED BY <1>2, <2>1, <2>2
<1>4. \A n \in Nat : n = 0 \/ \E k \in Nat : n = k + 1
  <2> TAKE n \in Nat
  <2>1. CASE n # 0
    <3>1. n - 1 \in Nat /\ n = (n - 1) + 1
      BY <2>1
    <3> QED BY <3>1
  <2> QED BY <2>1
<1> HIDE DEF u
<1>5. IsWalk(u, <<b>>, c)
  <2>1. After(<<b>>, c) = s
    BY <1>2 DEF After, Data
  <2>2. t[0] = s /\ \A n \in Nat : t[n + 1] = After(t[n], c)
    BY <1>1 DEF IsWalk
  <2>3. ASSUME NEW n \in Nat  PROVE u[n + 1] = After(u[n], c)
    <3>1. CASE n = 0
      BY <1>3, <2>1, <2>2, <3>1
    <3>2. ASSUME NEW k \in Nat, n = k + 1  PROVE u[n + 1] = After(u[n], c)
      BY <1>3, <2>2, <3>2
    <3> QED BY <1>4, <3>1, <3>2
  <2> QED BY <1>3, <2>3 DEF IsWalk
<1>6. \A n \in Nat : \A i \in 1..Len(t[n]) : t[n][i] \in X /\ t[n][i] # b
  BY <1>1 DEF Holds
<1>7. ASSUME NEW n \in Nat, NEW i \in 1..Len(u[n])
      PROVE  \/ n = 0 /\ i = 1 /\ u[n][i] = b
             \/ \E k \in Nat : n = k + 1 /\ i \in 1..Len(t[k]) /\ u[n][i] = t[k][i]
  <2>1. CASE n = 0
    <3>1. i \in 1..1
      BY <1>2, <1>3, <1>7, <2>1
    <3> QED BY <1>2, <1>3, <2>1, <3>1
  <2>2. CASE n # 0
    BY <1>3, <1>4, <1>7, <2>2
  <2> QED BY <2>1, <2>2
<1>8. Once(u)
  <2> SUFFICES ASSUME NEW m \in Nat, NEW n \in Nat, NEW i \in 1..Len(u[m]),
                      NEW j \in 1..Len(u[n]), u[m][i] = u[n][j]
               PROVE  m = n /\ i = j
    BY DEF Once
  <2>1. \/ m = 0 /\ i = 1 /\ u[m][i] = b
        \/ \E k \in Nat : m = k + 1 /\ i \in 1..Len(t[k]) /\ u[m][i] = t[k][i]
    BY <1>7
  <2>2. \/ n = 0 /\ j = 1 /\ u[n][j] = b
        \/ \E k \in Nat : n = k + 1 /\ j \in 1..Len(t[k]) /\ u[n][j] = t[k][j]
    BY <1>7
  <2>3. ASSUME NEW k \in Nat, m = k + 1, i \in 1..Len(t[k]), u[m][i] = t[k][i],
               NEW l \in Nat, n = l + 1, j \in 1..Len(t[l]), u[n][j] = t[l][j]
        PROVE  m = n /\ i = j
    <3>1. t[k][i] = t[l][j]
      BY <2>3
    <3>2. k = l /\ i = j
      BY <1>1, <2>3, <3>1 DEF Once
    <3> QED BY <2>3, <3>2
  <2> QED BY <1>6, <2>1, <2>2, <2>3
<1>9. Holds(u, X \cup {b})
  <2>1. \A n \in Nat : \A i \in 1..Len(u[n]) : u[n][i] \in X \cup {b}
    BY <1>6, <1>7
  <2>2. 0 \in Nat /\ 1 \in 1..Len(u[0]) /\ u[0][1] = b
    BY <1>2, <1>3
  <2>3. ASSUME NEW x \in X  PROVE \E n \in Nat : \E i \in 1..Len(u[n]) : u[n][i] = x
    <3>1. PICK n \in Nat : \E i \in 1..Len(t[n]) : t[n][i] = x
      BY <1>1 DEF Holds
    <3>2. n + 1 \in Nat /\ u[n + 1] = t[n]
      BY <1>3
    <3> QED BY <3>1, <3>2
  <2> QED BY <2>1, <2>2, <2>3 DEF Holds
<1> QED BY <1>5, <1>8, <1>9 DEF Lists

\* A first table with one block, replaced by what the block contains.
LEMMA ListsPop ==
    ASSUME NEW c, NEW X, NEW b \in Blocks, Lists(<<b>>, c, X)
    PROVE  Lists(c[b], c, X \ {b})
<1>1. PICK t : IsWalk(t, <<b>>, c) /\ Once(t) /\ Holds(t, X)
  BY DEF Lists
<1>2. b \in Int /\ <<b>> \in Seq(Int) /\ Len(<<b>>) = 1 /\ <<b>>[1] = b
  BY FreeBlocksAssumption DEF Blocks, FreeBlocksAssumption
<1> DEFINE u == [n \in Nat |-> t[n + 1]]
<1>3. u \in [Nat -> Seq(Int)] /\ \A n \in Nat : n + 1 \in Nat /\ u[n] = t[n + 1]
  <2>1. \A n \in Nat : n + 1 \in Nat /\ t[n + 1] \in Seq(Int)
    BY <1>1 DEF IsWalk
  <2> QED BY <2>1
<1> HIDE DEF u
<1>4. t[0] = <<b>> /\ \A n \in Nat : t[n + 1] = After(t[n], c)
  BY <1>1 DEF IsWalk
<1>5. IsWalk(u, c[b], c)
  <2>1. After(<<b>>, c) = c[b]
    BY <1>2 DEF After, Data
  <2>2. u[0] = c[b]
    <3>1. u[0] = t[0 + 1] /\ t[0 + 1] = After(t[0], c)
      BY <1>3, <1>4
    <3> QED BY <1>4, <2>1, <3>1
  <2>3. \A n \in Nat : u[n + 1] = After(u[n], c)
    BY <1>3, <1>4
  <2> QED BY <1>3, <2>2, <2>3 DEF IsWalk
<1>6. Once(u)
  <2> SUFFICES ASSUME NEW m \in Nat, NEW n \in Nat, NEW i \in 1..Len(u[m]),
                      NEW j \in 1..Len(u[n]), u[m][i] = u[n][j]
               PROVE  m = n /\ i = j
    BY DEF Once
  <2>1. u[m] = t[m + 1] /\ u[n] = t[n + 1] /\ m + 1 \in Nat /\ n + 1 \in Nat
    BY <1>3
  <2>2. m + 1 = n + 1 /\ i = j
    BY <1>1, <2>1 DEF Once
  <2> QED BY <2>2
<1>7. ASSUME NEW n \in Nat, NEW i \in 1..Len(u[n])  PROVE u[n][i] \in X \ {b}
  <2>1. u[n] = t[n + 1] /\ n + 1 \in Nat /\ n + 1 # 0
    BY <1>3
  <2>2. 0 \in Nat /\ 1 \in 1..Len(t[0]) /\ t[0][1] = b
    BY <1>2, <1>4
  <2>3. u[n][i] \in X
    BY <1>1, <1>7, <2>1 DEF Holds
  <2>4. u[n][i] # b
    BY <1>1, <1>7, <2>1, <2>2 DEF Once
  <2> QED BY <2>3, <2>4
<1>8. ASSUME NEW x \in X \ {b}  PROVE \E n \in Nat : \E i \in 1..Len(u[n]) : u[n][i] = x
  <2>1. PICK n \in Nat : \E i \in 1..Len(t[n]) : t[n][i] = x
    BY <1>1 DEF Holds
  <2>2. n # 0
    <3>1. \A i \in 1..Len(t[0]) : t[0][i] = b
      BY <1>2, <1>4
    <3> QED BY <2>1, <3>1
  <2>3. n - 1 \in Nat /\ (n - 1) + 1 = n
    BY <2>2
  <2>4. u[n - 1] = t[n]
    BY <1>3, <2>3
  <2> QED BY <2>1, <2>3, <2>4
<1>9. Holds(u, X \ {b})
  BY <1>7, <1>8 DEF Holds
<1> QED BY <1>5, <1>6, <1>9 DEF Lists

-----------------------------------------------------------------------------
\* The blocks on the list

\* What FreeSet collects.
Collected(s, c) == (UNION {ToSet(Walk(s, c)[n]) : n \in Places}) \ {0}

LEMMA FreeSetIs == FreeSet = Collected(FirstTable, content)
<1>1. \A n \in Places : Tables[n] = Walk(FirstTable, content)[n]
  BY DEF Tables
<1>2. {ToSet(Tables[n]) : n \in Places} = {ToSet(Walk(FirstTable, content)[n]) : n \in Places}
  BY <1>1
<1> QED BY <1>2 DEF FreeSet, Collected

LEMMA FreeSetIsAfter == FreeSet' = Collected(FirstTable', content')
<1>1. \A n \in Places : Tables'[n] = Walk(FirstTable', content')[n]
  BY DEF Tables
<1>2. {ToSet(Tables'[n]) : n \in Places} = {ToSet(Walk(FirstTable', content')[n]) : n \in Places}
  BY <1>1
<1> QED BY <1>2 DEF FreeSet, Collected

\* A list of blocks has no more tables than there are blocks and the first: each but the
\* last begins with another block.
LEMMA ListsEnd ==
    ASSUME NEW s, NEW c, NEW X, NEW t, X \subseteq Blocks \cup {0},
           IsWalk(t, s, c), Once(t), Holds(t, X)
    PROVE  \A n \in Nat : n \notin Places => t[n] = << >>
<1>1. NBlocks \in Nat /\ NBlocks + 1 \in Nat
  BY FreeBlocksAssumption DEF FreeBlocksAssumption
<1>2. t[NBlocks + 1] = << >>
  <2> SUFFICES ASSUME t[NBlocks + 1] # << >>  PROVE FALSE
    OBVIOUS
  <2>1. ASSUME NEW k \in Places
        PROVE  k \in Nat /\ t[k] # << >> /\ t[k] \in Seq(Int) /\ t[k + 1] # << >>
    <3>1. k \in Nat /\ k + 1 \in Nat /\ k <= NBlocks + 1 /\ k + 1 <= NBlocks + 1
      BY <1>1 DEF Places
    <3>2. ASSUME NEW m \in Nat, m <= NBlocks + 1  PROVE t[m] # << >>
      <4>1. t[m] = << >> => \A n \in Nat : n >= m => t[n] = << >>
        BY RestEmpty
      <4> QED BY <1>1, <3>2, <4>1
    <3>3. t[k] \in Seq(Int)
      BY <3>1 DEF IsWalk
    <3> QED BY <3>1, <3>2, <3>3
  <2>2. ASSUME NEW k \in Places  PROVE 1 \in 1..Len(t[k]) /\ t[k][1] \in Blocks
    <3>1. k \in Nat /\ t[k] # << >> /\ t[k] \in Seq(Int) /\ t[k + 1] # << >>
      BY <2>1
    <3>2. 1 \in 1..Len(t[k]) /\ Head(t[k]) = t[k][1]
      BY <3>1, EmptySeq, LenProperties
    <3>3. t[k + 1] = After(t[k], c)
      BY <3>1 DEF IsWalk
    <3>4. Head(t[k]) \in Blocks
      BY <3>1, <3>3, Zenon DEF After, Data
    <3> QED BY <3>2, <3>4
  <2> DEFINE f == [k \in Places |-> t[k][1]]
  <2>3. f \in [Places -> Blocks]
    BY <2>2
  <2>4. /\ IsFiniteSet(Places) /\ IsFiniteSet(Blocks)
        /\ Cardinality(Places) = NBlocks + 1 /\ Cardinality(Blocks) = NBlocks
    <3>1. 0 \in Int /\ 1 \in Int /\ NBlocks \in Int
      BY <1>1
    <3>2. NBlocks # 0 /\ NBlocks - 0 + 1 = NBlocks + 1 /\ NBlocks - 1 + 1 = NBlocks
      BY <1>1, FreeBlocksAssumption DEF FreeBlocksAssumption
    <3>3. ~(0 > NBlocks) /\ ~(1 > NBlocks)
      BY <1>1, <3>2
    <3> QED BY <3>1, <3>2, <3>3, FS_Interval DEF Places, Blocks
  <2> HIDE DEF f
  <2>5. Cardinality(Blocks) < Cardinality(Places)
    BY <1>1, <2>4
  <2>6. \E x, y \in Places : x # y /\ f[x] = f[y]
    BY <2>3, <2>4, <2>5, FS_PigeonHole
  <2>7. PICK x \in Places, y \in Places : x # y /\ f[x] = f[y]
    BY <2>6
  <2>8. t[x][1] = t[y][1] /\ x \in Nat /\ y \in Nat
    BY <2>1, <2>7 DEF f
  <2>9. x = y
    BY <2>2, <2>8 DEF Once
  <2> QED BY <2>7, <2>9
<1>3. \A n \in Nat : n >= NBlocks + 1 => t[n] = << >>
  BY <1>1, <1>2, RestEmpty
<1>4. \A n \in Nat : n \notin Places => n >= NBlocks + 1
  BY <1>1 DEF Places
<1> QED BY <1>3, <1>4

LEMMA CollectedIs ==
    ASSUME NEW s, NEW c \in Contents, NEW X, X \subseteq Blocks \cup {0}, Lists(s, c, X)
    PROVE  Collected(s, c) = X \ {0}
<1>1. PICK t : IsWalk(t, s, c) /\ Once(t) /\ Holds(t, X)
  BY DEF Lists
<1>2. s \in Seq(Int)
  BY <1>1 DEF IsWalk
<1>3. t = Walk(s, c)
  BY <1>1, <1>2, WalkUnique
<1>4. \A n \in Nat : n \notin Places => t[n] = << >>
  BY <1>1, ListsEnd
<1>5. Places \subseteq Nat
  BY FreeBlocksAssumption DEF Places, FreeBlocksAssumption
<1>6. \A n \in Places : t[n] \in Seq(Int) /\ DOMAIN t[n] = 1..Len(t[n])
  BY <1>1, <1>5, LenProperties DEF IsWalk
<1>7. \A n \in Places : ToSet(t[n]) = {t[n][i] : i \in 1..Len(t[n])}
  BY <1>6 DEF ToSet
<1>8. UNION {ToSet(t[n]) : n \in Places} = X
  <2>1. ASSUME NEW x \in X  PROVE \E n \in Places : x \in ToSet(t[n])
    <3>1. PICK n \in Nat : \E i \in 1..Len(t[n]) : t[n][i] = x
      BY <1>1 DEF Holds
    <3>2. n \in Places
      <4>1. Len(<< >>) = 0 /\ 1..0 = {}
        OBVIOUS
      <4> QED BY <1>4, <3>1, <4>1
    <3> QED BY <1>7, <3>1, <3>2
  <2>2. ASSUME NEW n \in Places, NEW x \in ToSet(t[n])  PROVE x \in X
    BY <1>1, <1>5, <1>7, <2>2 DEF Holds
  <2> QED BY <2>1, <2>2
<1>9. Collected(s, c) = (UNION {ToSet(t[n]) : n \in Places}) \ {0}
  BY <1>3 DEF Collected
<1> QED BY <1>8, <1>9

-----------------------------------------------------------------------------
\* Tables

Numbered == Blocks \cup {0, Outside}

IsTable(s) == s \in Seq(Numbered) /\ Len(s) <= GroupSize

LEMMA NumberedInt == Numbered \subseteq Int /\ 0 \in Numbered /\ Outside \in Numbered
                     /\ GroupSize \in Nat /\ GroupSize >= 2 /\ 0 \notin Blocks
                     /\ Outside \notin Blocks /\ Outside # 0
BY FreeBlocksAssumption DEF Numbered, Blocks, Outside, FreeBlocksAssumption

LEMMA TableIs == \A s : s \in Table \cup {Data} <=> IsTable(s)
<1>1. ASSUME NEW s, IsTable(s)  PROVE s \in Table \cup {Data}
  <2>1. Len(s) \in Nat /\ s \in [1..Len(s) -> Numbered] /\ s \in Seq(Numbered)
    BY <1>1, LenProperties DEF IsTable
  <2>2. CASE Len(s) = 0
    BY <2>1, <2>2, EmptySeq DEF Data
  <2>3. CASE Len(s) # 0
    <3>1. Len(s) \in 1..GroupSize
      BY <1>1, <2>1, <2>3, NumberedInt DEF IsTable
    <3> QED BY <2>1, <3>1 DEF Table, Numbered
  <2> QED BY <2>2, <2>3
<1>2. ASSUME NEW s \in Table  PROVE IsTable(s)
  <2>1. PICK n \in 1..GroupSize : s \in [1..n -> Numbered]
    BY DEF Table, Numbered
  <2>2. n \in Nat /\ n <= GroupSize
    BY NumberedInt
  <2>3. s \in Seq(Numbered)
    BY <2>1, <2>2
  <2>4. Len(s) = n
    BY <2>1, <2>2
  <2> QED BY <2>2, <2>3, <2>4 DEF IsTable
<1>3. IsTable(Data)
  BY NumberedInt DEF IsTable, Data
<1> QED BY <1>1, <1>2, <1>3

LEMMA TableSeq == \A s : IsTable(s) => s \in Seq(Int)
<1> SUFFICES ASSUME NEW s, IsTable(s)  PROVE s \in Seq(Int)
  OBVIOUS
<1>1. Len(s) \in Nat /\ s \in [1..Len(s) -> Numbered]
  BY LenProperties DEF IsTable
<1>2. s \in [1..Len(s) -> Int]
  BY <1>1, NumberedInt
<1> QED BY <1>1, <1>2

LEMMA TableSmall == IsTable(<< >>) /\ \A b \in Numbered : IsTable(<<b>>) /\ IsTable(<<0, b>>)
BY NumberedInt DEF IsTable

LEMMA TableFront ==
    ASSUME NEW s, IsTable(s), s # << >>
    PROVE  IsTable(Front(s)) /\ Last(s) \in Numbered
<1>1. s \in Seq(Int) /\ Len(s) \in Nat \ {0} /\ s \in Seq(Numbered)
  BY TableSeq, EmptySeq, LenProperties DEF IsTable
<1>2. Last(s) \in Numbered
  <2>1. Len(s) \in 1..Len(s)
    BY <1>1
  <2> QED BY <1>1, <2>1, ElementOfSeq DEF Last
<1>3. /\ Front(s) \in Seq(Int) /\ Len(Front(s)) = Len(s) - 1
      /\ \A k \in 1..(Len(s) - 1) : Front(s)[k] = s[k]
  BY <1>1, FrontIs
<1>4. \A k \in 1..Len(Front(s)) : Front(s)[k] \in Numbered
  <2>1. \A k \in 1..(Len(s) - 1) : k \in 1..Len(s)
    BY <1>1
  <2> QED BY <1>1, <1>3, <2>1, ElementOfSeq
<1>5. Front(s) \in Seq(Numbered)
  <2>1. Front(s) = [k \in 1..Len(Front(s)) |-> Front(s)[k]] /\ Len(Front(s)) \in Nat
    BY <1>3, LenProperties
  <2> QED BY <1>4, <2>1
<1>6. Len(Front(s)) <= GroupSize
  BY <1>1, <1>3, NumberedInt DEF IsTable
<1> QED BY <1>2, <1>5, <1>6 DEF IsTable

LEMMA TableAppend ==
    ASSUME NEW s, IsTable(s), Len(s) < GroupSize, NEW b \in Numbered
    PROVE  IsTable(Append(s, b))
<1>1. s \in Seq(Numbered) /\ Len(s) \in Nat
  BY LenProperties DEF IsTable
<1>2. Append(s, b) \in Seq(Numbered) /\ Len(Append(s, b)) = Len(s) + 1
  BY <1>1
<1> QED BY <1>1, <1>2, NumberedInt DEF IsTable

-----------------------------------------------------------------------------
\* The new disk

\* All of it after n blocks have been freed, NBlocks the first of them.
Image(n) ==
    LET f == Formatted[n] IN
    /\ f.stack # << >> /\ IsTable(f.stack) /\ \A b \in Blocks : IsTable(f.content[b])
    /\ Lists(f.stack, f.content, {0} \cup ((NBlocks + 1 - n)..NBlocks))

LEMMA ImageFirst == Image(0)
<1>1. PICK s, c : s = Formatted[0].stack /\ c = Formatted[0].content
  OBVIOUS
<1>2. s = << 0 >> /\ c \in Contents /\ \A b \in Blocks : c[b] = << >>
  BY <1>1, FormattedIs DEF Blank, Data, Contents
<1>3. NBlocks \in Nat
  BY FreeBlocksAssumption DEF FreeBlocksAssumption
<1>4. {0} \cup ((NBlocks + 1 - 0)..NBlocks) = {0}
  BY <1>3
<1>5. Lists(s, c, {0})
  <2>1. << 0 >> \in Seq(Int) /\ << 0 >> # << >> /\ << 0 >>[1] = 0 /\ Len(<< 0 >>) = 1
    OBVIOUS
  <2>2. \A i, j \in 1..Len(<< 0 >>) : i = j
    BY <2>1
  <2>3. {<< 0 >>[i] : i \in 1..Len(<< 0 >>)} = {0}
    BY <2>1
  <2>4. Lists(<< 0 >>, c, {<< 0 >>[i] : i \in 1..Len(<< 0 >>)})
    BY <1>2, <2>1, <2>2, NumberedInt, ListsAlone
  <2> QED BY <1>2, <2>3, <2>4
<1>6. IsTable(s) /\ s # << >> /\ \A b \in Blocks : IsTable(c[b])
  BY <1>2, TableSmall, NumberedInt
<1> QED BY <1>1, <1>4, <1>5, <1>6 DEF Image

LEMMA ImageNext ==
    ASSUME NEW n \in 1..NBlocks, Image(n - 1)
    PROVE  Image(n)
<1>1. NBlocks \in Nat /\ n \in Nat \ {0} /\ n - 1 \in Nat
  BY FreeBlocksAssumption DEF FreeBlocksAssumption
<1>2. PICK s, c, d, b : /\ s = Formatted[n - 1].stack /\ c = Formatted[n - 1].content
                        /\ d = [c EXCEPT ![b] = s] /\ b = NBlocks + 1 - n
  OBVIOUS
<1>3. PICK X : X = {0} \cup ((NBlocks + 1 - (n - 1))..NBlocks)
  OBVIOUS
<1>4. /\ b \in Blocks /\ b \notin X /\ b \in Int
      /\ X \cup {b} = {0} \cup ((NBlocks + 1 - n)..NBlocks)
  BY <1>1, <1>2, <1>3 DEF Blocks
<1>5. /\ s # << >> /\ IsTable(s) /\ \A k \in Blocks : IsTable(c[k])
      /\ Lists(s, c, X)
  BY <1>2, <1>3 DEF Image
<1>6. c \in Contents /\ s \in Seq(Int)
  BY <1>1, <1>2, FormattedIs DEF Images, Contents
<1>7. Formatted[n] = Freed(Formatted[n - 1], b) /\ Formatted[n - 1] \in Images
  BY <1>1, <1>2, FormattedIs
<1>8. CASE Len(s) < GroupSize
  <2> DEFINE r == Append(s, b)
  <2>1. Formatted[n] = [Formatted[n - 1] EXCEPT !.stack = r]
    BY <1>2, <1>7, <1>8 DEF Freed
  <2>2. IsTable(r) /\ r # << >>
    <3>1. b \in Numbered
      BY <1>4 DEF Numbered
    <3>2. IsTable(r)
      BY <1>5, <1>8, <3>1, TableAppend
    <3>3. r # << >>
      BY <1>4, <1>6
    <3> QED BY <3>2, <3>3
  <2>3. Lists(r, c, X \cup {b})
    BY <1>4, <1>5, ListsPut
  <2> HIDE DEF r
  <2>4. Formatted[n].stack = r /\ Formatted[n].content = c
    BY <1>2, <1>7, <2>1 DEF Images
  <2> QED BY <1>4, <1>5, <2>2, <2>3, <2>4 DEF Image
<1>9. CASE ~(Len(s) < GroupSize)
  <2>1. Formatted[n] = [stack |-> <<b>>, content |-> d]
    BY <1>2, <1>7, <1>9 DEF Freed
  <2>2. Formatted[n].stack = <<b>> /\ Formatted[n].content = d
    BY <2>1
  <2>3. d \in Contents /\ d[b] = s /\ \A k \in Blocks : k # b => d[k] = c[k]
    BY <1>2, <1>4, <1>6 DEF Contents
  <2>4. Lists(s, d, X)
    <3>1. \A k \in Blocks : k \in X => d[k] = c[k]
      BY <1>4, <2>3
    <3> QED BY <1>5, <1>6, <2>3, <3>1, ListsSame
  <2>5. Lists(<<b>>, d, X \cup {b})
    BY <1>4, <2>3, <2>4, ListsPush
  <2>6. IsTable(<<b>>) /\ \A k \in Blocks : IsTable(d[k])
    BY <1>4, <1>5, <2>3, TableSmall DEF Numbered
  <2>7. <<b>> # << >>
    OBVIOUS
  <2>8. Lists(<<b>>, d, {0} \cup ((NBlocks + 1 - n)..NBlocks))
    BY <1>4, <2>5
  <2> QED BY <2>2, <2>6, <2>7, <2>8, Zenon DEF Image
<1> QED BY <1>8, <1>9

\* Every block is on the list of a new disk, once.
LEMMA ImageWhole == Image(NBlocks)
<1> DEFINE T == {n \in 0..NBlocks : ~Image(n)}
<1> SUFFICES ASSUME T # {}  PROVE FALSE
  BY FreeBlocksAssumption DEF FreeBlocksAssumption
<1>1. PICK n \in T : \A y \in T : n <= y
  <2>1. T \subseteq Nat
    OBVIOUS
  <2> QED BY <2>1, Least
<1>2. n # 0
  BY ImageFirst
<1>3. n \in 1..NBlocks /\ n - 1 \in 0..NBlocks /\ n - 1 \notin T
  BY <1>1, <1>2, FreeBlocksAssumption DEF FreeBlocksAssumption
<1>4. Image(n)
  BY <1>3, ImageNext
<1> QED BY <1>4

-----------------------------------------------------------------------------
\* What Update may leave out

\* A table has the end mark at its bottom only.
Marked(s) == s \in Seq(Int) /\ \A k \in 2..Len(s) : s[k] # 0

TablesMarked ==
    /\ Marked(stack) /\ content \in [Blocks -> Seq(Int)]
    /\ \A b \in Blocks : Marked(content[b])

\* No block in use or in hand has the number of the end mark.
NumbersUsed ==
    /\ used \subseteq Int \ {0} /\ blk \in [Procs -> Int]
    /\ \A p \in Procs : InHand(p) => blk[p] # 0

KnownInv == pc \in [Procs -> Labels] /\ TablesMarked /\ NumbersUsed /\ ModifiedKnown

LEMMA MarkedFront ==
    ASSUME NEW s, Marked(s), s # << >>
    PROVE  Marked(Front(s)) /\ Last(s) \in Int
<1>1. Len(s) \in Nat \ {0}
  BY EmptySeq DEF Marked
<1>2. Last(s) \in Int
  BY <1>1 DEF Last, Marked
<1>3. ASSUME NEW k \in 2..Len(Front(s))  PROVE Front(s)[k] # 0
  <2>1. Len(Front(s)) = Len(s) - 1 /\ \A i \in 1..(Len(s) - 1) : Front(s)[i] = s[i]
    BY FrontIs DEF Marked
  <2>2. \A n \in Nat : k \in 2..(n - 1) => k \in 1..(n - 1) /\ k \in 2..n
    OBVIOUS
  <2>3. k \in 1..(Len(s) - 1) /\ k \in 2..Len(s)
    BY <1>1, <1>3, <2>1, <2>2
  <2> QED BY <2>1, <2>3 DEF Marked
<1> QED BY <1>2, <1>3, FrontIs DEF Marked

\* An end mark that is popped was alone.
LEMMA MarkedEnd ==
    ASSUME NEW s, Marked(s), s # << >>, Last(s) = 0
    PROVE  s = << 0 >>
<1>1. Len(s) \in Nat \ {0} /\ s[Len(s)] = 0
  BY EmptySeq DEF Marked, Last
<1>2. ASSUME NEW n \in Nat \ {0}, n # 1, Len(s) = n  PROVE FALSE
  <2>1. n \in 2..n
    BY <1>2
  <2> QED BY <1>1, <1>2, <2>1 DEF Marked
<1>3. Len(s) = 1
  BY <1>1, <1>2
<1> QED BY <1>1, <1>3 DEF Marked

LEMMA MarkedPut ==
    ASSUME NEW s, Marked(s), NEW b \in Int \ {0}
    PROVE  Marked(Append(s, b)) /\ Marked(<<0, b>>)
<1> DEFINE t == Append(s, b)
<1>1. /\ t \in Seq(Int) /\ Len(s) \in Nat /\ Len(t) = Len(s) + 1
      /\ \A k \in 1..Len(s) : t[k] = s[k]
      /\ t[Len(s) + 1] = b
  BY DEF Marked
<1> HIDE DEF t
<1>2. ASSUME NEW k \in 2..Len(t)  PROVE t[k] # 0
  <2>1. CASE k = Len(s) + 1
    BY <1>1, <2>1
  <2>2. CASE k # Len(s) + 1
    <3>1. k \in 2..Len(s) /\ k \in 1..Len(s)
      BY <1>1, <1>2, <2>2
    <3> QED BY <1>1, <3>1 DEF Marked
  <2> QED BY <2>1, <2>2
<1>3. Marked(t)
  BY <1>1, <1>2 DEF Marked
<1>4. Marked(<<0, b>>)
  BY DEF Marked
<1> QED BY <1>3, <1>4 DEF t

LEMMA MarkedSmall == Marked(<< >>) /\ \A b \in Int : Marked(<<b>>)
  BY DEF Marked

LEMMA FreedMarked ==
    ASSUME NEW f \in Images, Marked(f.stack), \A c \in Blocks : Marked(f.content[c]),
           NEW b \in Int \ {0}
    PROVE  LET g == Freed(f, b) IN Marked(g.stack) /\ \A c \in Blocks : Marked(g.content[c])
<1>1. CASE Len(f.stack) < GroupSize
  <2>1. Freed(f, b) = [f EXCEPT !.stack = Append(f.stack, b)]
    BY <1>1 DEF Freed
  <2>2. Freed(f, b).stack = Append(f.stack, b) /\ Freed(f, b).content = f.content
    <3> DEFINE t == Append(f.stack, b)
    <3> HIDE DEF t
    <3>1. [f EXCEPT !.stack = t].stack = t /\ [f EXCEPT !.stack = t].content = f.content
      BY DEF Images
    <3> QED BY <2>1, <3>1 DEF t
  <2> QED BY <2>2, MarkedPut
<1>2. CASE ~(Len(f.stack) < GroupSize)
  <2>1. Freed(f, b).stack = <<b>> /\ Freed(f, b).content = [f.content EXCEPT ![b] = f.stack]
    BY <1>2 DEF Freed
  <2>2. ASSUME NEW c \in Blocks  PROVE Marked(Freed(f, b).content[c])
    <3> DEFINE t == f.stack
               d == f.content
    <3>1. d \in [Blocks -> Seq(Int)]
      BY DEF Images
    <3> HIDE DEF t, d
    <3>2. [d EXCEPT ![b] = t][c] = IF c = b THEN t ELSE d[c]
      BY <3>1
    <3>3. Marked(t) /\ Marked(d[c])
      BY DEF t, d
    <3> QED BY <2>1, <3>2, <3>3 DEF t, d
  <2> QED BY <2>1, <2>2, MarkedSmall
<1> QED BY <1>1, <1>2

LEMMA FormattedMarked ==
    \A n \in 0..NBlocks : /\ Marked(Formatted[n].stack)
                          /\ \A c \in Blocks : Marked(Formatted[n].content[c])
<1> DEFINE M(n) == /\ Marked(Formatted[n].stack)
                   /\ \A c \in Blocks : Marked(Formatted[n].content[c])
           T    == {n \in 0..NBlocks : ~M(n)}
<1> SUFFICES ASSUME T # {}  PROVE FALSE
  OBVIOUS
<1>1. PICK n \in T : \A y \in T : n <= y
  <2>1. T \subseteq Nat
    OBVIOUS
  <2> QED BY <2>1, Least
<1>2. M(0)
  <2>1. Formatted[0].stack = << 0 >> /\ \A c \in Blocks : Formatted[0].content[c] = << >>
    BY FormattedIs DEF Blank, Data
  <2> QED BY <2>1, MarkedSmall
<1>3. n \in Nat \ {0} /\ n <= NBlocks
  BY <1>1, <1>2
<1>4. n - 1 \in 0..NBlocks /\ n - 1 \notin T
  BY <1>1, <1>3, FreeBlocksAssumption DEF FreeBlocksAssumption
<1>5. NBlocks + 1 - n \in Int \ {0}
  BY <1>3, FreeBlocksAssumption DEF FreeBlocksAssumption
<1>6. M(n - 1) /\ Formatted[n - 1] \in Images
  BY <1>3, <1>4, FormattedIs
<1>7. Formatted[n] = Freed(Formatted[n - 1], NBlocks + 1 - n)
  BY <1>3, FormattedIs
<1>8. M(n)
  BY <1>5, <1>6, <1>7, FreedMarked
<1> QED BY <1>1, <1>8

LEMMA KnownInit == Init => KnownInv
<1> SUFFICES ASSUME Init  PROVE KnownInv
  OBVIOUS
<1>1. NBlocks \in 0..NBlocks /\ NBlocks \in Nat
  BY FreeBlocksAssumption DEF FreeBlocksAssumption
<1>2. Marked(stack) /\ \A c \in Blocks : Marked(content[c])
  BY <1>1, FormattedMarked DEF Init
<1>3. content \in [Blocks -> Seq(Int)]
  BY <1>1, FormattedIs DEF Init, Images
<1>4. NumbersUsed
  BY DEF Init, NumbersUsed, InHand, Changing
<1>5. ModifiedKnown
  BY DEF Init, ModifiedKnown
<1> QED BY <1>2, <1>3, <1>4, <1>5 DEF KnownInv, TablesMarked, Init, Labels


LEMMA AllocKeepsKnown ==
    ASSUME KnownInv, NEW p \in Procs,
           AllocWait(p) \/ AllocTake(p) \/ AllocEnd(p) \/ AllocOutside(p)
    PROVE  KnownInv'
<1> USE DEF KnownInv, TablesMarked
<1>1. pc[p] \in {"user", "alloc"}
  BY DEF AllocWait, AllocTake, AllocEnd, AllocOutside, InAlloc, Calls
<1>2. CASE AllocWait(p)
  <2>1. UNCHANGED <<stack, content, fmod, onDisk, used, blk>>
    BY <1>2 DEF AllocWait, superBlock
  <2>2. pc' = [pc EXCEPT ![p] = "alloc"]
    BY <1>2 DEF AllocWait, Goto
  <2>3. NumbersUsed'
    BY <1>1, <2>1, <2>2 DEF NumbersUsed, InHand, Changing
  <2>4. ModifiedKnown'
    BY <1>1, <2>1, <2>2 DEF ModifiedKnown
  <2> QED BY <2>1, <2>2, <2>3, <2>4 DEF Labels
<1>3. ASSUME NoSpace(p), stack \in {<< >>, << 0 >>}  PROVE KnownInv'
  <2>1. UNCHANGED <<content, fmod, onDisk, used>> /\ stack' = << >>
    BY <1>3 DEF NoSpace
  <2>2. pc' = [pc EXCEPT ![p] = "user"] /\ blk' = [blk EXCEPT ![p] = 0]
    BY <1>3 DEF NoSpace, Return, Goto
  <2>3. NumbersUsed'
    BY <2>1, <2>2 DEF NumbersUsed, InHand, Changing
  <2>4. ModifiedKnown'
    <3> SUFFICES ASSUME ~fmod', \A q \in Procs : pc'[q] \notin {"refill", "clear", "stored", "copy"}
                 PROVE  onDisk' = << >> \/ {onDisk', << >>} = {<< >>, << 0 >>}
      BY <2>1 DEF ModifiedKnown
    <3>1. ~fmod /\ \A q \in Procs : pc[q] \notin {"refill", "clear", "stored", "copy"}
      BY <1>1, <2>1, <2>2
    <3>2. onDisk = stack \/ {onDisk, stack} = {<< >>, << 0 >>}
      BY <3>1 DEF ModifiedKnown
    <3>3. onDisk \in {<< >>, << 0 >>}
      <4>1. CASE onDisk = stack
        BY <1>3, <4>1
      <4>2. CASE {onDisk, stack} = {<< >>, << 0 >>}
        <5>1. onDisk \in {onDisk, stack}
          OBVIOUS
        <5> QED BY <4>2, <5>1, Zenon
      <4> QED BY <3>2, <4>1, <4>2
    <3>4. onDisk' = onDisk
      BY <2>1
    <3> QED BY <3>3, <3>4, Zenon
  <2> QED BY <2>1, <2>2, <2>3, <2>4, MarkedSmall DEF Labels
<1>4. ASSUME NEW b \in Int \ {0}, NEW rest, Marked(rest), Popped(p, b, rest)  PROVE KnownInv'
  <2>1. UNCHANGED <<content, used>> /\ stack' = rest /\ blk' = [blk EXCEPT ![p] = b]
    BY <1>4 DEF Popped
  <2>2. PICK to \in {"refill", "clear"} : pc' = [pc EXCEPT ![p] = to]
    BY <1>4 DEF Popped, Goto
  <2>3. NumbersUsed'
    BY <2>1, <2>2 DEF NumbersUsed, InHand, Changing
  <2>4. ModifiedKnown'
    BY <2>2 DEF ModifiedKnown
  <2> QED BY <1>4, <2>1, <2>2, <2>3, <2>4 DEF Labels
<1>5. CASE AllocTake(p)
  <2>1. Marked(Front(stack)) /\ Last(stack) \in Int \ {0}
    BY <1>5, MarkedFront DEF AllocTake
  <2> QED BY <1>4, <1>5, <2>1 DEF AllocTake
<1>6. CASE AllocEnd(p)
  BY <1>3, <1>6, MarkedEnd DEF AllocEnd
<1>7. CASE AllocOutside(p)
  <2>1. Marked(<< >>) /\ Outside \in Int \ {0}
    BY MarkedSmall DEF Outside
  <2> QED BY <1>3, <1>4, <1>7, <2>1 DEF AllocOutside
<1> QED BY <1>2, <1>5, <1>6, <1>7

LEMMA FreeKeepsKnown ==
    ASSUME KnownInv, NEW p \in Procs, NEW b,
           FreeWait(p, b) \/ FreePut(p, b) \/ FreeFull(p, b)
    PROVE  KnownInv'
<1> USE DEF KnownInv, TablesMarked
<1>1. b \in Int \ {0} /\ pc[p] \in {"user", "free"}
  BY ZenonT(40) DEF FreeWait, FreePut, FreeFull, InFree, Calls, NumbersUsed, InHand
<1>2. used \ {b} \subseteq Int \ {0}
  BY DEF NumbersUsed
<1>3. CASE FreePut(p, b)
  <2>1. fmod' = TRUE /\ UNCHANGED <<content, onDisk>> /\ used' = used \ {b}
    BY <1>3 DEF FreePut
  <2>2. pc' = [pc EXCEPT ![p] = "user"] /\ blk' = [blk EXCEPT ![p] = 0]
    BY <1>3 DEF FreePut, Return, Goto
  <2>3. Marked(stack')
    BY <1>1, <1>3, MarkedPut DEF FreePut
  <2>4. NumbersUsed'
    BY <1>2, <2>1, <2>2 DEF NumbersUsed, InHand, Changing
  <2>5. ModifiedKnown'
    BY <2>1 DEF ModifiedKnown
  <2> QED BY <2>1, <2>2, <2>3, <2>4, <2>5 DEF Labels
<1>4. CASE FreeWait(p, b) \/ FreeFull(p, b)
  <2>1. /\ UNCHANGED <<stack, content, onDisk>> /\ used' = used \ {b}
        /\ blk' = [blk EXCEPT ![p] = b] /\ fmod' = (fmod \/ pc[p] = "user")
    BY <1>4 DEF FreeWait, FreeFull, ModifiedEarly
  <2>2. PICK to \in {"free", "store"} : pc' = [pc EXCEPT ![p] = to]
    BY <1>4 DEF FreeWait, FreeFull, Goto
  <2>3. NumbersUsed'
    BY <1>1, <1>2, <2>1, <2>2 DEF NumbersUsed, InHand, Changing
  <2>4. ModifiedKnown'
    BY <1>1, <2>1, <2>2 DEF ModifiedKnown
  <2> QED BY <2>1, <2>2, <2>3, <2>4 DEF Labels
<1> QED BY <1>3, <1>4

LEMMA ContinueKeepsKnown ==
    ASSUME KnownInv, NEW p \in Procs, UpdateBegin(p) \/ Continue(p)
    PROVE  KnownInv'
<1> USE DEF KnownInv, TablesMarked
<1>1. CASE AllocRefill(p)
  <2>1. \E c \in Blocks : stack' = content[c]
    BY <1>1 DEF AllocRefill
  <2>2. UNCHANGED <<fmod, onDisk, content, used, blk>> /\ pc' = [pc EXCEPT ![p] = "clear"]
    BY <1>1 DEF AllocRefill, Goto
  <2>3. NumbersUsed'
    BY <1>1, <2>2 DEF NumbersUsed, InHand, Changing, AllocRefill
  <2>4. ModifiedKnown'
    BY <2>2 DEF ModifiedKnown
  <2> QED BY <2>1, <2>2, <2>3, <2>4 DEF Labels
<1>2. CASE AllocClear(p)
  <2>1. /\ content' = [c \in Blocks |-> IF c = blk[p] THEN << >> ELSE content[c]]
        /\ fmod' = TRUE /\ UNCHANGED stack /\ used' = used \cup {blk[p]}
    BY <1>2 DEF AllocClear, Data
  <2>2. pc' = [pc EXCEPT ![p] = "user"] /\ blk' = [blk EXCEPT ![p] = 0]
    BY <1>2 DEF AllocClear, Return, Goto
  <2>3. content' \in [Blocks -> Seq(Int)] /\ \A c \in Blocks : Marked(content'[c])
    BY <2>1, MarkedSmall DEF Marked
  <2>4. NumbersUsed'
    <3>1. blk[p] \in Int \ {0}
      BY <1>2 DEF AllocClear, NumbersUsed, InHand
    <3> DEFINE b == blk[p]
    <3>2. b \in Int \ {0} /\ used' = used \cup {b}
      BY <2>1, <3>1
    <3> HIDE DEF b
    <3>3. used' \subseteq Int \ {0}
      BY <3>2 DEF NumbersUsed
    <3>4. blk' \in [Procs -> Int] /\ \A q \in Procs : InHand(q)' => blk'[q] # 0
      BY <2>2 DEF NumbersUsed, InHand, Changing
    <3> QED BY <3>3, <3>4 DEF NumbersUsed
  <2>5. ModifiedKnown'
    BY <2>1 DEF ModifiedKnown
  <2> QED BY <2>1, <2>2, <2>3, <2>4, <2>5 DEF Labels
<1>3. CASE FreeStore(p)
  <2>1. /\ content' = [c \in Blocks |-> IF c = blk[p] THEN stack ELSE content[c]]
        /\ stack' = << >> /\ UNCHANGED <<used, blk>>
    BY <1>3 DEF FreeStore
  <2>2. pc' = [pc EXCEPT ![p] = "stored"]
    BY <1>3 DEF FreeStore, Goto
  <2>3. content' \in [Blocks -> Seq(Int)] /\ \A c \in Blocks : Marked(content'[c])
    BY <2>1 DEF Marked
  <2>4. NumbersUsed'
    BY <1>3, <2>1, <2>2 DEF NumbersUsed, InHand, Changing, FreeStore
  <2>5. ModifiedKnown'
    BY <2>2 DEF ModifiedKnown
  <2> QED BY <2>1, <2>2, <2>3, <2>4, <2>5, MarkedSmall DEF Labels
<1>4. CASE FreeStored(p)
  <2>1. /\ fmod' = TRUE /\ UNCHANGED <<content, used>> /\ stack' = Append(stack, blk[p])
    BY <1>4 DEF FreeStored
  <2>2. pc' = [pc EXCEPT ![p] = "user"] /\ blk' = [blk EXCEPT ![p] = 0]
    BY <1>4 DEF FreeStored, Return, Goto
  <2>3. blk[p] \in Int \ {0}
    BY <1>4 DEF FreeStored, NumbersUsed, InHand, Changing
  <2>4. NumbersUsed'
    BY <2>1, <2>2 DEF NumbersUsed, InHand, Changing
  <2>5. ModifiedKnown'
    BY <2>1 DEF ModifiedKnown
  <2> QED BY <2>1, <2>2, <2>3, <2>4, <2>5, MarkedPut DEF Labels
<1>5. CASE UpdateBegin(p)
  <2>1. UNCHANGED <<stack, content, used, blk>> /\ pc' = [pc EXCEPT ![p] = "copy"]
    BY <1>5 DEF UpdateBegin, Goto
  <2>2. NumbersUsed'
    BY <2>1 DEF NumbersUsed, InHand, Changing
  <2>3. ModifiedKnown'
    BY <2>1 DEF ModifiedKnown
  <2> QED BY <2>1, <2>2, <2>3 DEF Labels
<1>6. CASE UpdateCopy(p)
  <2>1. /\ UNCHANGED <<stack, content, used, blk>> /\ onDisk' = stack
        /\ pc' = [pc EXCEPT ![p] = "rest"]
    BY <1>6 DEF UpdateCopy, Goto, superBlock
  <2>2. NumbersUsed'
    BY <2>1 DEF NumbersUsed, InHand, Changing
  <2>3. ModifiedKnown'
    BY <2>1 DEF ModifiedKnown
  <2> QED BY <2>1, <2>2, <2>3 DEF Labels
<1>7. CASE UpdateDone(p)
  <2>1. /\ UNCHANGED <<stack, fmod, onDisk, content, used>> /\ pc[p] = "rest"
        /\ pc' = [pc EXCEPT ![p] = "user"] /\ blk' = [blk EXCEPT ![p] = 0]
    BY <1>7 DEF UpdateDone, Return, Goto, superBlock
  <2>2. NumbersUsed'
    BY <2>1 DEF NumbersUsed, InHand, Changing
  <2>3. ModifiedKnown'
    BY <2>1 DEF ModifiedKnown
  <2> QED BY <2>1, <2>2, <2>3 DEF Labels
<1> QED BY <1>1, <1>2, <1>3, <1>4, <1>5, <1>6, <1>7 DEF Continue

LEMMA KnownNext == KnownInv /\ [Next]_vars => KnownInv'
<1> SUFFICES ASSUME KnownInv, [Next]_vars  PROVE KnownInv'
  OBVIOUS
<1>1. CASE UNCHANGED vars
  BY <1>1 DEF KnownInv, TablesMarked, NumbersUsed, ModifiedKnown, InHand, Changing, vars
<1>2. CASE NotFollowed
  BY <1>1, <1>2 DEF NotFollowed
<1>3. CASE Next
  BY <1>2, <1>3, AllocKeepsKnown, FreeKeepsKnown, ContinueKeepsKnown DEF Next
<1> QED BY <1>1, <1>3

\* In every state, whatever Alloc, Free and Update do, only the bottom of a table is
\* the end mark, so an end mark that Alloc pops leaves nothing behind; with it goes
\* what a clear s_fmod says of the super block on the disk.
THEOREM KnownInvariance == Spec => []KnownInv
<1> QED BY KnownInit, KnownNext, PTL DEF Spec

\* Update may leave out the super block while s_fmod is clear: it is on the disk as
\* Alloc and Free left it.
THEOREM ModifiedKnownHolds == Spec => []ModifiedKnown
<1>1. KnownInv => ModifiedKnown
  BY DEF KnownInv
<1> QED BY <1>1, KnownInvariance, PTL

-----------------------------------------------------------------------------
\* The blocks: types

\* While the table is in a block, on the way in or out, there is none in the super block.
Emptied == \A p \in Procs : pc[p] \in {"refill", "stored"} => stack = << >>

Base == TypeOK /\ Emptied /\ LockInv /\ KnownInv

LEMMA Types ==
    ASSUME TypeOK
    PROVE  /\ IsTable(stack) /\ IsTable(onDisk) /\ used \subseteq Blocks \cup {Outside}
           /\ content \in [Blocks -> Table \cup {Data}]
           /\ \A b \in Blocks : IsTable(content[b])
           /\ blk \in [Procs -> Numbered] /\ pc \in [Procs -> Labels]
<1>1. IsTable(stack) /\ IsTable(onDisk)
  BY TableIs DEF TypeOK
<1>2. content \in [Blocks -> Table \cup {Data}]
  BY DEF TypeOK
<1>3. \A b \in Blocks : IsTable(content[b])
  BY <1>2, TableIs
<1> QED BY <1>1, <1>2, <1>3 DEF TypeOK, Numbered, Labels

\* What a step has to keep.
Typed ==
    /\ IsTable(stack) /\ IsTable(onDisk)
    /\ flock \in BOOLEAN /\ fmod \in BOOLEAN /\ updlock \in BOOLEAN
    /\ content \in [Blocks -> Table \cup {Data}]
    /\ used \subseteq Blocks \cup {Outside}
    /\ pc \in [Procs -> Labels] /\ blk \in [Procs -> Numbered]
    /\ err \in [Procs -> BOOLEAN]
    /\ asleep \subseteq Procs /\ wild \in BOOLEAN

LEMMA TypedIs == TypeOK <=> Typed
  BY TableIs DEF TypeOK, Typed, Labels, Numbered

LEMMA TypedIsAfter == TypeOK' <=> Typed'
BY TypedIs, PTL

\* A free lock: nobody is in the middle of a change.
LEMMA Unlocked == LockInv /\ ~flock => \A p \in Procs : ~Changing(p)
  BY DEF LockInv, LockSound

LEMMA AllocKeepsTypes ==
    ASSUME Base, NEW p \in Procs,
           AllocWait(p) \/ AllocTake(p) \/ AllocEnd(p) \/ AllocOutside(p)
    PROVE  TypeOK' /\ Emptied'
<1> USE TypedIs, TypedIsAfter DEF Base
<1>1. Outside \in Numbered /\ 0 \in Numbered /\ IsTable(<< >>)
  BY NumberedInt, TableSmall
<1>2. CASE AllocWait(p)
  <2>1. /\ UNCHANGED <<superBlock, onDisk, updlock, content, used, blk, wild>>
        /\ pc' = [pc EXCEPT ![p] = "alloc"] /\ asleep' = asleep \cup {p}
        /\ err' = [err EXCEPT ![p] = FALSE]
    BY <1>2 DEF AllocWait, Goto
  <2> QED BY <2>1 DEF Typed, Emptied, superBlock, Labels
<1>3. ASSUME NoSpace(p), wild' = wild  PROVE TypeOK' /\ Emptied'
  <2>1. /\ UNCHANGED <<flock, fmod, onDisk, updlock, content, used, asleep, wild>>
        /\ pc' = [pc EXCEPT ![p] = "user"] /\ blk' = [blk EXCEPT ![p] = 0]
        /\ err' = [err EXCEPT ![p] = TRUE] /\ stack' = << >>
    BY <1>3 DEF NoSpace, Return, Goto
  <2> QED BY <1>1, <2>1 DEF Typed, Emptied, Labels
<1>4. ASSUME NEW b \in Numbered, NEW rest, IsTable(rest), Popped(p, b, rest), ~flock,
             wild' \in BOOLEAN
      PROVE  TypeOK' /\ Emptied'
  <2>1. /\ UNCHANGED <<fmod, onDisk, updlock, content, used, asleep>>
        /\ stack' = rest /\ flock' = (rest = << >>)
        /\ blk' = [blk EXCEPT ![p] = b] /\ err' = [err EXCEPT ![p] = FALSE]
        /\ pc' = [pc EXCEPT ![p] = IF rest = << >> THEN "refill" ELSE "clear"]
    BY <1>4 DEF Popped, Goto
  <2>2. Typed'
    BY <1>4, <2>1 DEF Typed, Labels
  <2>3. \A q \in Procs : pc[q] \notin {"refill", "stored"}
    BY <1>4, Unlocked DEF Changing
  <2>4. Emptied'
    BY <2>1, <2>3 DEF Typed, Emptied
  <2> QED BY <2>2, <2>4
<1>5. CASE AllocTake(p)
  <2>1. IsTable(Front(stack)) /\ Last(stack) \in Numbered
    BY <1>5, TableFront DEF AllocTake, Typed
  <2>2. wild' \in BOOLEAN
    BY <1>5 DEF AllocTake, Typed
  <2> QED BY <1>4, <1>5, <2>1, <2>2 DEF AllocTake
<1>6. CASE AllocEnd(p)
  BY <1>3, <1>6 DEF AllocEnd, NoSpace
<1>7. CASE AllocOutside(p)
  BY <1>1, <1>3, <1>4, <1>7 DEF AllocOutside, NoSpace
<1> QED BY <1>2, <1>5, <1>6, <1>7

LEMMA FreeKeepsTypes ==
    ASSUME Base, NEW p \in Procs, NEW b,
           FreeWait(p, b) \/ FreePut(p, b) \/ FreeFull(p, b)
    PROVE  TypeOK' /\ Emptied'
<1> USE TypedIs, TypedIsAfter DEF Base
<1>1. b \in Numbered /\ pc[p] \in {"user", "free"}
  <2>1. b \in used \/ b = blk[p]
    BY DEF FreeWait, FreePut, FreeFull, InFree
  <2>2. pc[p] \in {"user", "free"}
    BY DEF FreeWait, FreePut, FreeFull, InFree, Calls
  <2> QED BY <2>1, <2>2 DEF Typed, Numbered
<1>2. used \ {b} \subseteq Blocks \cup {Outside} /\ 0 \in Numbered
  BY NumberedInt DEF Typed
<1>3. CASE FreePut(p, b)
  <2>1. /\ fmod' = TRUE /\ UNCHANGED <<flock, onDisk, updlock, content, err, asleep, wild>>
        /\ used' = used \ {b}
        /\ pc' = [pc EXCEPT ![p] = "user"] /\ blk' = [blk EXCEPT ![p] = 0]
    BY <1>3 DEF FreePut, Return, Goto
  <2>2. IsTable(stack')
    BY <1>1, <1>3, TableAppend, TableSmall DEF FreePut, Typed
  <2>3. Typed'
    BY <1>2, <2>1, <2>2 DEF Typed, Labels
  <2>4. Emptied'
    <3>1. ~flock
      BY <1>3 DEF FreePut
    <3>2. \A q \in Procs : pc[q] \notin {"refill", "stored"}
      BY <3>1, Unlocked DEF Changing
    <3> QED BY <2>1, <3>2 DEF Typed, Emptied
  <2> QED BY <2>3, <2>4
<1>4. CASE FreeWait(p, b) \/ FreeFull(p, b)
  <2>1. /\ UNCHANGED <<stack, onDisk, updlock, content, err, wild>> /\ used' = used \ {b}
        /\ blk' = [blk EXCEPT ![p] = b] /\ fmod' = (fmod \/ pc[p] = "user")
        /\ flock' \in BOOLEAN /\ asleep' \subseteq Procs
    BY <1>4 DEF FreeWait, FreeFull, ModifiedEarly, Typed
  <2>2. PICK to \in {"free", "store"} : pc' = [pc EXCEPT ![p] = to]
    BY <1>4 DEF FreeWait, FreeFull, Goto
  <2> QED BY <1>1, <1>2, <2>1, <2>2 DEF Typed, Emptied, Labels
<1> QED BY <1>3, <1>4

LEMMA ContinueKeepsTypes ==
    ASSUME Base, NEW p \in Procs, UpdateBegin(p) \/ Continue(p)
    PROVE  TypeOK' /\ Emptied'
<1> USE TypedIs, TypedIsAfter DEF Base
<1>1. /\ 0 \in Numbered /\ IsTable(<< >>) /\ \A b \in Blocks : IsTable(content[b])
      /\ Data \in Table \cup {Data} /\ stack \in Table \cup {Data}
  BY NumberedInt, TableSmall, TableIs DEF Typed
<1>2. \A q \in Procs : Changing(p) /\ Changing(q) => q = p
  BY DEF LockInv, LockSound
<1>3. CASE AllocRefill(p)
  <2>1. /\ UNCHANGED <<fmod, onDisk, updlock, content, used, blk, err, wild>>
        /\ pc' = [pc EXCEPT ![p] = "clear"] /\ pc[p] = "refill"
        /\ flock' = FALSE /\ asleep' = {}
    BY <1>3 DEF AllocRefill, Goto, Unlock
  <2>2. \E c \in Blocks : stack' = content[c]
    BY <1>3 DEF AllocRefill
  <2>3. Typed'
    BY <1>1, <2>1, <2>2 DEF Typed, Labels
  <2>4. Emptied'
    BY <1>2, <2>1 DEF Emptied, Changing, Typed
  <2> QED BY <2>3, <2>4
<1>4. CASE AllocClear(p)
  <2>1. /\ UNCHANGED <<stack, flock, onDisk, updlock, err, asleep, wild>> /\ fmod' = TRUE
        /\ content' = [c \in Blocks |-> IF c = blk[p] THEN Data ELSE content[c]]
        /\ used' = used \cup {blk[p]} /\ pc[p] = "clear"
        /\ pc' = [pc EXCEPT ![p] = "user"] /\ blk' = [blk EXCEPT ![p] = 0]
    BY <1>4 DEF AllocClear, Return, Goto
  <2>2. blk[p] \in Blocks \cup {Outside}
    <3>1. blk[p] # 0
      BY <2>1 DEF KnownInv, NumbersUsed, InHand
    <3> QED BY <3>1 DEF Typed, Numbered
  <2>3. content' \in [Blocks -> Table \cup {Data}] /\ used' \subseteq Blocks \cup {Outside}
    BY <1>1, <2>1, <2>2 DEF Typed
  <2>4. Typed'
    BY <1>1, <2>1, <2>3 DEF Typed, Labels
  <2>5. Emptied'
    BY <2>1 DEF Emptied, Typed
  <2> QED BY <2>4, <2>5
<1>5. CASE FreeStore(p)
  <2>1. /\ UNCHANGED <<flock, fmod, onDisk, updlock, used, blk, err, asleep, wild>>
        /\ content' = [c \in Blocks |-> IF c = blk[p] THEN stack ELSE content[c]]
        /\ stack' = << >> /\ pc' = [pc EXCEPT ![p] = "stored"]
    BY <1>5 DEF FreeStore, Goto
  <2>2. content' \in [Blocks -> Table \cup {Data}]
    BY <1>1, <2>1 DEF Typed
  <2> QED BY <1>1, <2>1, <2>2 DEF Typed, Labels, Emptied
<1>6. CASE FreeStored(p)
  <2>1. /\ UNCHANGED <<onDisk, updlock, content, used, err, wild>> /\ fmod' = TRUE
        /\ flock' = FALSE /\ asleep' = {} /\ stack' = Append(stack, blk[p])
        /\ pc' = [pc EXCEPT ![p] = "user"] /\ blk' = [blk EXCEPT ![p] = 0]
        /\ pc[p] = "stored"
    BY <1>6 DEF FreeStored, Return, Goto, Unlock
  <2>2. IsTable(stack')
    <3>1. stack = << >> /\ blk[p] \in Numbered
      BY <2>1 DEF Emptied, Typed
    <3>2. Len(<< >>) = 0 /\ 0 < GroupSize
      BY NumberedInt
    <3> QED BY <1>1, <2>1, <3>1, <3>2, TableAppend
  <2>3. Emptied'
    BY <1>2, <2>1 DEF Emptied, Changing, Typed
  <2>4. Typed'
    BY <1>1, <2>1, <2>2 DEF Typed, Labels
  <2> QED BY <2>3, <2>4
<1>7. CASE UpdateBegin(p)
  BY <1>7 DEF UpdateBegin, Goto, Typed, Emptied, Labels
<1>8. CASE UpdateCopy(p)
  BY <1>8 DEF UpdateCopy, Goto, Typed, Emptied, Labels, superBlock
<1>9. CASE UpdateDone(p)
  BY <1>1, <1>9 DEF UpdateDone, Return, Goto, Typed, Emptied, Labels, superBlock
<1> QED BY <1>3, <1>4, <1>5, <1>6, <1>7, <1>8, <1>9 DEF Continue

LEMMA BaseNext == Base /\ [Next]_vars => Base'
<1> SUFFICES ASSUME Base, [Next]_vars  PROVE Base'
  OBVIOUS
<1>1. LockInv' /\ KnownInv'
  BY LockNext, KnownNext DEF Base
<1>2. CASE UNCHANGED vars
  <2>1. TypeOK' /\ Emptied'
    BY <1>2 DEF Base, TypeOK, Emptied, vars
  <2> QED BY <1>1, <2>1 DEF Base
<1>3. CASE NotFollowed
  BY <1>2, <1>3 DEF NotFollowed
<1>4. CASE Next
  <2>1. CASE NotFollowed
    BY <1>3, <2>1
  <2>2. CASE ~NotFollowed
    <3>1. TypeOK' /\ Emptied'
      BY <1>4, <2>2, AllocKeepsTypes, FreeKeepsTypes, ContinueKeepsTypes DEF Next
    <3> QED BY <1>1, <3>1 DEF Base
  <2> QED BY <2>1, <2>2
<1> QED BY <1>2, <1>4

-----------------------------------------------------------------------------
\* The blocks and the pool

\* Every block is in one place of the pool.
PoolOK ==
    /\ FreeSet \subseteq Blocks /\ used \subseteq Blocks /\ hand \in [Procs -> Blocks \cup {0}]
    /\ FreeSet \cap used = {}
    /\ \A p \in Procs : hand[p] # 0 => hand[p] \notin FreeSet /\ hand[p] \notin used
    /\ \A p, q \in Procs : hand[p] # 0 /\ hand[p] = hand[q] => p = q
    /\ \A b \in Blocks : b \in FreeSet \/ b \in used \/ \E p \in Procs : hand[p] = b

PoolStep == [Pool!PoolNext]_(Pool!pvars)

LEMMA PoolVars == Pool!pvars = <<FreeSet, used, hand, err>>
  BY DEF Pool!pvars

LEMMA PoolSame == UNCHANGED <<FreeSet, used, hand, err>> => PoolStep
  BY PoolVars DEF PoolStep, Pool!pvars

\* The steps of the pool keep that.
LEMMA PoolKeeps ==
    ASSUME PoolOK, PoolStep
    PROVE  PoolOK'
<1>1. 0 \notin Blocks
  BY NumberedInt
<1>2. CASE UNCHANGED <<FreeSet, used, hand>>
  BY <1>2 DEF PoolOK
<1>3. ASSUME NEW b \in used, Pool!GiveBackAtOnce(b)  PROVE PoolOK'
  BY <1>1, <1>3 DEF PoolOK, Pool!GiveBackAtOnce
<1>4. ASSUME NEW p \in Procs, Pool!Ask(p) \/ Pool!Refuse(p)  PROVE PoolOK'
  BY <1>2, <1>4 DEF Pool!Ask, Pool!Refuse
<1>5. ASSUME NEW p \in Procs, Pool!Keep(p)  PROVE PoolOK'
  BY <1>1, <1>5 DEF PoolOK, Pool!Keep
<1>6. ASSUME NEW p \in Procs, Pool!Put(p)  PROVE PoolOK'
  BY <1>1, <1>6 DEF PoolOK, Pool!Put
<1>7. ASSUME NEW p \in Procs, NEW b \in FreeSet, Pool!Take(p, b)  PROVE PoolOK'
  BY <1>1, <1>7 DEF PoolOK, Pool!Take
<1>8. ASSUME NEW p \in Procs, NEW b \in used, Pool!GiveBack(p, b)  PROVE PoolOK'
  BY <1>1, <1>8 DEF PoolOK, Pool!GiveBack
<1>9. CASE Pool!PoolNext
  BY <1>3, <1>4, <1>5, <1>6, <1>7, <1>8, <1>9 DEF Pool!PoolNext
<1>10. CASE UNCHANGED Pool!pvars
  BY <1>2, <1>10 DEF Pool!pvars
<1> QED BY <1>9, <1>10 DEF PoolStep

-----------------------------------------------------------------------------
\* The list in the state

OnList ==
    \/ Lists(FirstTable, content, FreeSet)
    \/ Lists(FirstTable, content, FreeSet \cup {0})

PlaceInv == PoolOK /\ OnList

\* What the list of the next state holds is what FreeSet is then.
LEMMA OnListAfter ==
    ASSUME content' \in Contents, NEW X, X \subseteq Blocks \cup {0},
           Lists(FirstTable', content', X)
    PROVE  FreeSet' = X \ {0} /\ OnList'
<1>1. FreeSet' = X \ {0}
  <2>1. PICK s, c : s = FirstTable' /\ c = content'
    OBVIOUS
  <2>2. Collected(s, c) = X \ {0}
    BY <2>1, CollectedIs
  <2> QED BY <2>1, <2>2, FreeSetIsAfter
<1>2. X = FreeSet' \/ X = FreeSet' \cup {0}
  BY <1>1
<1>3. Lists(FirstTable', content', FreeSet') \/ Lists(FirstTable', content', FreeSet' \cup {0})
  BY <1>2
<1> QED BY <1>1, <1>3 DEF OnList

LEMMA Typing ==
    ASSUME Base
    PROVE  /\ content \in Contents /\ stack \in Seq(Int)
           /\ pc \in [Procs -> Labels] /\ blk \in [Procs -> Numbered]
           /\ \A q \in Procs : InHand(q) => blk[q] # 0
  BY Types, TableSeq DEF Base, Contents, KnownInv, TablesMarked, NumbersUsed

LEMMA TypingAfter ==
    Base' => /\ content' \in Contents /\ stack' \in Seq(Int)
             /\ pc' \in [Procs -> Labels] /\ blk' \in [Procs -> Numbered]
<1>1. Base => /\ content \in Contents /\ stack \in Seq(Int)
              /\ pc \in [Procs -> Labels] /\ blk \in [Procs -> Numbered]
  BY Typing
<1>2. (Base => /\ content \in Contents /\ stack \in Seq(Int)
               /\ pc \in [Procs -> Labels] /\ blk \in [Procs -> Numbered])'
  BY <1>1, PTL
<1> QED BY <1>2

\* The first table is in the block that is on its way, if there is one.
Moving(p) == pc[p] \in {"refill", "stored"} /\ blk[p] \in Blocks

LEMMA FirstIs ==
    LockInv => /\ \A p \in Procs : Moving(p) => FirstTable = content[blk[p]]
               /\ (\A p \in Procs : ~Moving(p)) => FirstTable = stack
<1> SUFFICES ASSUME LockInv
             PROVE  /\ \A p \in Procs : Moving(p) => FirstTable = content[blk[p]]
                    /\ (\A p \in Procs : ~Moving(p)) => FirstTable = stack
  OBVIOUS
<1>1. ASSUME NEW p \in Procs, Moving(p)  PROVE FirstTable = content[blk[p]]
  <2> DEFINE q == CHOOSE q \in Procs : pc[q] \in {"refill", "stored"}
  <2>1. q \in Procs /\ pc[q] \in {"refill", "stored"}
    BY <1>1 DEF Moving
  <2>2. q = p
    BY <1>1, <2>1 DEF LockInv, LockSound, Changing, Moving
  <2>3. FirstTable = content[blk[q]]
    BY <1>1 DEF FirstTable, Moving
  <2> QED BY <2>2, <2>3
<1>2. ASSUME \A p \in Procs : ~Moving(p)  PROVE FirstTable = stack
  BY <1>2 DEF FirstTable, Moving
<1> QED BY <1>1, <1>2

LEMMA FirstIsAfter ==
    LockInv' => /\ \A p \in Procs : Moving(p)' => FirstTable' = content'[blk'[p]]
                /\ (\A p \in Procs : ~Moving(p)') => FirstTable' = stack'
<1>1. (LockInv => /\ \A p \in Procs : Moving(p) => FirstTable = content[blk[p]]
                  /\ (\A p \in Procs : ~Moving(p)) => FirstTable = stack)'
  BY FirstIs, PTL
<1> QED BY <1>1

\* The hands of the pool.
Handed == {"clear", "free", "refill", "store", "stored"}

LEMMA HandIs ==
    ASSUME Base, NEW p \in Procs
    PROVE  /\ hand[p] = (IF InHand(p) THEN blk[p] ELSE 0)
           /\ InHand(p) <=> pc[p] \in Handed
           /\ hand[p] # 0 <=> InHand(p)
<1>1. hand[p] = IF InHand(p) THEN blk[p] ELSE 0
  BY DEF hand
<1>2. InHand(p) => blk[p] # 0
  BY Typing
<1> QED BY <1>1, <1>2 DEF InHand, Changing, Handed

LEMMA HandsFull == Base /\ PoolOK => \A p \in Procs : InHand(p) => blk[p] \in Blocks
<1> SUFFICES ASSUME Base, PoolOK, NEW p \in Procs, InHand(p)  PROVE blk[p] \in Blocks
  OBVIOUS
<1>1. hand[p] = blk[p] /\ hand[p] # 0
  BY HandIs
<1> QED BY <1>1 DEF PoolOK

LEMMA HandAfter ==
    ASSUME Base, NEW p \in Procs, NEW to, NEW b,
           pc' = [pc EXCEPT ![p] = to], blk' = [blk EXCEPT ![p] = b]
    PROVE  hand' = [hand EXCEPT ![p] = IF to \in Handed THEN b ELSE 0]
<1>1. /\ \A q \in Procs : pc'[q] = (IF q = p THEN to ELSE pc[q])
      /\ \A q \in Procs : blk'[q] = (IF q = p THEN b ELSE blk[q])
  BY Typing
<1>2. \A q \in Procs : hand[q] = (IF InHand(q) THEN blk[q] ELSE 0)
  BY DEF hand
<1>3. \A q \in Procs : hand'[q] = (IF InHand(q)' THEN blk'[q] ELSE 0)
  BY DEF hand
<1>4. \A q \in Procs : InHand(q)' <=> pc'[q] \in Handed
  BY DEF InHand, Changing, Handed
<1>5. \A q \in Procs : InHand(q) <=> pc[q] \in Handed
  BY DEF InHand, Changing, Handed
<1>6. \A q \in Procs : hand'[q] = IF q = p THEN (IF to \in Handed THEN b ELSE 0) ELSE hand[q]
  BY <1>1, <1>2, <1>3, <1>4, <1>5
<1>7. hand = [q \in Procs |-> hand[q]] /\ hand' = [q \in Procs |-> hand'[q]]
  BY DEF hand
<1> QED BY <1>6, <1>7

\* The hand of p does not change when p keeps its block.
LEMMA HandKept ==
    ASSUME Base, NEW p \in Procs, NEW to,
           pc' = [pc EXCEPT ![p] = to], blk' = blk,
           to \in Handed <=> pc[p] \in Handed
    PROVE  hand' = hand
<1>1. blk' = [blk EXCEPT ![p] = blk[p]]
  BY Typing
<1>2. hand' = [hand EXCEPT ![p] = IF to \in Handed THEN blk[p] ELSE 0]
  BY <1>1, HandAfter
<1>3. hand[p] = IF to \in Handed THEN blk[p] ELSE 0
  BY HandIs
<1>4. hand = [q \in Procs |-> hand[q]]
  BY DEF hand
<1> QED BY <1>2, <1>3, <1>4

-----------------------------------------------------------------------------
\* What each step does to the list and the pool

LEMMA FirstKept ==
    ASSUME LockInv, LockInv', \A q \in Procs : Moving(q)' <=> Moving(q), stack' = stack,
           \A q \in Procs : Moving(q) => content'[blk'[q]] = content[blk[q]]
    PROVE  FirstTable' = FirstTable
<1>1. ASSUME NEW q \in Procs, Moving(q)  PROVE FirstTable' = FirstTable
  <2>1. Moving(q)'
    BY <1>1
  <2>2. FirstTable = content[blk[q]] /\ FirstTable' = content'[blk'[q]]
    BY <1>1, <2>1, FirstIs, FirstIsAfter
  <2> QED BY <1>1, <2>2
<1>2. ASSUME \A q \in Procs : ~Moving(q)  PROVE FirstTable' = FirstTable
  <2>1. \A q \in Procs : ~Moving(q)'
    BY <1>2
  <2>2. FirstTable = stack /\ FirstTable' = stack'
    BY <1>2, <2>1, FirstIs, FirstIsAfter
  <2> QED BY <2>2
<1> QED BY <1>1, <1>2

LEMMA ListKept ==
    ASSUME Base, Base', PlaceInv, FirstTable' = FirstTable,
           \A b \in Blocks : b \in FreeSet => content'[b] = content[b]
    PROVE  FreeSet' = FreeSet /\ OnList'
<1>1. content \in Contents /\ content' \in Contents
  BY Typing, TypingAfter
<1>2. FreeSet \subseteq Blocks /\ 0 \notin Blocks
  BY NumberedInt DEF PlaceInv, PoolOK
<1>3. PICK X : X \in {FreeSet, FreeSet \cup {0}} /\ Lists(FirstTable, content, X)
  BY DEF PlaceInv, OnList
<1>4. PICK s, c, d : s = FirstTable /\ c = content /\ d = content'
  OBVIOUS
<1>5. Lists(s, d, X)
  <2>1. \A b \in Blocks : b \in X => d[b] = c[b]
    BY <1>2, <1>3, <1>4
  <2>2. Lists(s, c, X) /\ c \in Contents /\ d \in Contents
    BY <1>1, <1>3, <1>4
  <2> QED BY <2>1, <2>2, ListsSame
<1>6. Lists(FirstTable', content', X) /\ X \subseteq Blocks \cup {0}
  BY <1>2, <1>3, <1>4, <1>5
<1>7. FreeSet' = X \ {0} /\ OnList'
  BY <1>1, <1>6, OnListAfter
<1> QED BY <1>2, <1>3, <1>7

\* Nothing is on the way: the first table is that of the super block.
LEMMA FirstFree == LockInv /\ ~flock => FirstTable = stack /\ \A q \in Procs : ~Moving(q)
<1> SUFFICES ASSUME LockInv, ~flock  PROVE FirstTable = stack /\ \A q \in Procs : ~Moving(q)
  OBVIOUS
<1>1. \A q \in Procs : ~Moving(q)
  BY Unlocked DEF Moving, Changing
<1> QED BY <1>1, FirstIs

LEMMA FirstFreeAfter ==
    LockInv' /\ (\A q \in Procs : ~Moving(q)') => FirstTable' = stack'
BY FirstIsAfter

LEMMA WaitStep ==
    ASSUME Base, Base', PlaceInv, NEW p \in Procs, AllocWait(p)
    PROVE  PoolStep /\ OnList'
<1>1. /\ UNCHANGED <<stack, content, used, blk>>
      /\ pc' = [pc EXCEPT ![p] = "alloc"] /\ err' = [err EXCEPT ![p] = FALSE]
  BY DEF AllocWait, Goto, superBlock
<1>2. pc[p] \in {"user", "alloc"}
  BY DEF AllocWait, InAlloc, Calls
<1>3. hand' = hand
  BY <1>1, <1>2, HandKept DEF Handed
<1>4. \A q \in Procs : Moving(q)' <=> Moving(q)
  BY <1>1, <1>2, Typing DEF Moving
<1>5. FirstTable' = FirstTable
  BY <1>1, <1>4, FirstKept DEF Base
<1>6. FreeSet' = FreeSet /\ OnList'
  BY <1>1, <1>5, ListKept
<1>7. Pool!Ask(p)
  BY <1>1, <1>3, <1>6 DEF Pool!Ask
<1> QED BY <1>6, <1>7 DEF PoolStep, Pool!PoolNext

\* What a table with nothing but the end mark, or without it, leads to.
LEMMA NothingFree ==
    ASSUME NEW c \in Contents, NEW s \in {<< >>, << 0 >>}
    PROVE  \E X \in {{}, {0}} : Lists(s, c, X)
<1>1. CASE s = << >>
  BY <1>1, ListsEmpty
<1>2. CASE s = << 0 >>
  <2>1. << 0 >> \in Seq(Int) /\ << 0 >> # << >> /\ << 0 >>[1] = 0 /\ Len(<< 0 >>) = 1
    OBVIOUS
  <2>2. \A i, j \in 1..Len(<< 0 >>) : i = j
    BY <2>1
  <2>3. {<< 0 >>[i] : i \in 1..Len(<< 0 >>)} = {0}
    BY <2>1
  <2>4. Lists(<< 0 >>, c, {<< 0 >>[i] : i \in 1..Len(<< 0 >>)})
    BY <2>1, <2>2, NumberedInt, ListsAlone
  <2> QED BY <1>2, <2>3, <2>4
<1> QED BY <1>1, <1>2

LEMMA RefuseStep ==
    ASSUME Base, Base', PlaceInv, NEW p \in Procs, pc[p] \in {"user", "alloc"}, ~flock,
           stack \in {<< >>, << 0 >>}, NoSpace(p)
    PROVE  PoolStep /\ OnList'
<1>1. /\ UNCHANGED <<flock, content, used>> /\ stack' = << >>
      /\ pc' = [pc EXCEPT ![p] = "user"] /\ blk' = [blk EXCEPT ![p] = 0]
      /\ err' = [err EXCEPT ![p] = TRUE]
  BY DEF NoSpace, Return, Goto
<1>2. FreeSet = {}
  <2>1. FirstTable = stack
    BY FirstFree DEF Base
  <2>2. content \in Contents
    BY Typing
  <2>3. PICK X \in {{}, {0}} : Lists(stack, content, X)
    BY <2>2, NothingFree
  <2>4. Collected(stack, content) = X \ {0}
    BY <2>2, <2>3, CollectedIs
  <2> QED BY <2>1, <2>3, <2>4, FreeSetIs
<1>3. hand[p] = 0
  BY HandIs DEF Handed
<1>4. hand' = hand
  <2>1. hand' = [hand EXCEPT ![p] = 0]
    BY <1>1, HandAfter DEF Handed
  <2> QED BY <1>3, <2>1 DEF PlaceInv, PoolOK
<1>5. FreeSet' = {} /\ OnList'
  <2>1. \A q \in Procs : ~Moving(q)'
    BY <1>1, FirstFree, Typing DEF Base, Moving
  <2>2. FirstTable' = << >>
    BY <1>1, <2>1, FirstFreeAfter DEF Base
  <2>3. Lists(FirstTable', content', {}) /\ content' \in Contents
    BY <2>2, TypingAfter, ListsEmpty
  <2>4. FreeSet' = {} \ {0} /\ OnList'
    BY <2>3, OnListAfter
  <2> QED BY <2>4
<1>6. Pool!Refuse(p)
  BY <1>1, <1>2, <1>3, <1>4, <1>5 DEF Pool!Refuse
<1> QED BY <1>5, <1>6 DEF PoolStep, Pool!PoolNext

LEMMA TakeStep ==
    ASSUME Base, Base', PlaceInv, NEW p \in Procs, AllocTake(p)
    PROVE  PoolStep /\ OnList'
<1>1. PICK s, b : s = stack /\ b = Last(stack)
  OBVIOUS
<1>2. /\ UNCHANGED <<content, used>> /\ stack' = Front(s) /\ s # << >> /\ b # 0 /\ ~flock
      /\ blk' = [blk EXCEPT ![p] = b] /\ err' = [err EXCEPT ![p] = FALSE]
      /\ pc' = [pc EXCEPT ![p] = IF Front(s) = << >> THEN "refill" ELSE "clear"]
  BY <1>1 DEF AllocTake, Popped, Goto
<1>3. pc[p] \in {"user", "alloc"}
  BY DEF AllocTake, InAlloc, Calls
<1>4. FirstTable = s /\ \A q \in Procs : ~Moving(q)
  BY <1>1, <1>2, FirstFree DEF Base
<1>5. PICK X : X \in {FreeSet, FreeSet \cup {0}} /\ Lists(s, content, X)
  BY <1>4 DEF PlaceInv, OnList
<1>6. FreeSet \subseteq Blocks /\ 0 \notin Blocks
  BY NumberedInt DEF PlaceInv, PoolOK
<1>7. s \in Seq(Int) /\ Len(s) \in Nat \ {0} /\ b = s[Len(s)] /\ b \in X
  <2>1. s \in Seq(Int) /\ Len(s) \in Nat \ {0} /\ b = s[Len(s)]
    BY <1>1, <1>2, Typing, EmptySeq, LenProperties DEF Last
  <2>2. Len(s) \in 1..Len(s)
    BY <2>1
  <2> QED BY <1>2, <1>5, <2>1, <2>2, ListsHead
<1>8. b \in FreeSet /\ b \in Blocks
  BY <1>2, <1>5, <1>6, <1>7
<1>9. hand[p] = 0 /\ hand' = [hand EXCEPT ![p] = b]
  <2>1. hand' = [hand EXCEPT ![p] = b]
    BY <1>2, HandAfter DEF Handed
  <2> QED BY <1>3, <2>1, HandIs DEF Handed
<1>10. Lists(FirstTable', content', X \ {b})
  <2>1. CASE Front(s) = << >>
    <3>1. s = <<b>>
      <4>1. Len(Front(s)) = Len(s) - 1 /\ Len(Front(s)) = 0
        BY <1>2, <1>7, <2>1, FrontIs
      <4>2. Len(s) = 1
        BY <1>7, <4>1
      <4> QED BY <1>7, <4>2
    <3>2. Moving(p)'
      BY <1>2, <1>8, <2>1, Typing DEF Moving
    <3>3. FirstTable' = content[b]
      <4>1. FirstTable' = content'[blk'[p]]
        BY <3>2, FirstIsAfter DEF Base
      <4> QED BY <1>2, <4>1, Typing
    <3>4. Lists(content[b], content, X \ {b})
      BY <1>5, <1>8, <3>1, ListsPop
    <3> QED BY <1>2, <3>3, <3>4
  <2>2. CASE Front(s) # << >>
    <3>1. \A q \in Procs : ~Moving(q)'
      BY <1>2, <1>4, <2>2, Typing DEF Moving
    <3>2. FirstTable' = Front(s)
      BY <1>2, <3>1, FirstFreeAfter DEF Base
    <3>3. Lists(Front(s), content, X \ {b})
      BY <1>1, <1>2, <1>5, <2>2, ListsFront
    <3> QED BY <1>2, <3>2, <3>3
  <2> QED BY <2>1, <2>2
<1>11. FreeSet' = FreeSet \ {b} /\ OnList'
  <2>1. X \ {b} \subseteq Blocks \cup {0} /\ (X \ {b}) \ {0} = FreeSet \ {b}
    BY <1>5, <1>6
  <2>2. FreeSet' = (X \ {b}) \ {0} /\ OnList'
    BY <1>10, <2>1, TypingAfter, OnListAfter
  <2> QED BY <2>1, <2>2
<1>12. Pool!Take(p, b)
  BY <1>2, <1>9, <1>11 DEF Pool!Take
<1> QED BY <1>8, <1>11, <1>12 DEF PoolStep, Pool!PoolNext

LEMMA RefillStep ==
    ASSUME Base, Base', PlaceInv, NEW p \in Procs, AllocRefill(p)
    PROVE  PoolStep /\ OnList'
<1>1. pc[p] = "refill" /\ InHand(p) /\ Changing(p)
  BY DEF AllocRefill, InHand, Changing
<1>2. blk[p] \in Blocks
  BY <1>1, HandsFull DEF PlaceInv
<1>3. /\ UNCHANGED <<content, used, blk, err>> /\ stack' = content[blk[p]]
      /\ pc' = [pc EXCEPT ![p] = "clear"]
  BY <1>2 DEF AllocRefill, Goto
<1>4. hand' = hand
  BY <1>1, <1>3, HandKept DEF Handed
<1>5. FirstTable = content[blk[p]]
  BY <1>1, <1>2, FirstIs DEF Base, Moving
<1>6. \A q \in Procs : ~Moving(q)'
  <2>1. \A q \in Procs : q # p => ~Changing(q)
    BY <1>1 DEF Base, LockInv, LockSound
  <2> QED BY <1>3, <2>1, Typing DEF Moving, Changing
<1>7. FirstTable' = FirstTable
  BY <1>3, <1>5, <1>6, FirstFreeAfter DEF Base
<1>8. FreeSet' = FreeSet /\ OnList'
  BY <1>3, <1>7, ListKept
<1> QED BY <1>3, <1>4, <1>8, PoolSame

LEMMA ClearStep ==
    ASSUME Base, Base', PlaceInv, NEW p \in Procs, AllocClear(p)
    PROVE  PoolStep /\ OnList'
<1>1. pc[p] = "clear" /\ InHand(p)
  BY DEF AllocClear, InHand
<1>2. PICK b : b = blk[p]
  OBVIOUS
<1>3. /\ content' = [c \in Blocks |-> IF c = b THEN Data ELSE content[c]]
      /\ UNCHANGED <<stack, err>> /\ used' = used \cup {b}
      /\ pc' = [pc EXCEPT ![p] = "user"] /\ blk' = [blk EXCEPT ![p] = 0]
  BY <1>2 DEF AllocClear, Return, Goto
<1>4. hand[p] = b /\ b # 0 /\ b \in Blocks
  BY <1>1, <1>2, HandIs, HandsFull DEF PlaceInv
<1>5. hand' = [hand EXCEPT ![p] = 0]
  BY <1>3, HandAfter DEF Handed
<1>6. \A q \in Procs : Moving(q)' <=> Moving(q)
  BY <1>1, <1>3, Typing DEF Moving
<1>7. ASSUME NEW q \in Procs, Moving(q)  PROVE content'[blk'[q]] = content[blk[q]]
  <2>1. q # p /\ InHand(q) /\ blk[q] \in Blocks
    BY <1>1, <1>7 DEF Moving, InHand, Changing
  <2>2. hand[q] = blk[q] /\ hand[q] # 0
    BY <2>1, HandIs
  <2>3. blk[q] # b
    BY <1>4, <2>1, <2>2 DEF PlaceInv, PoolOK
  <2>4. blk'[q] = blk[q]
    BY <1>3, <2>1, Typing
  <2> QED BY <1>3, <2>1, <2>3, <2>4
<1>8. FirstTable' = FirstTable
  BY <1>3, <1>6, <1>7, FirstKept DEF Base
<1>9. \A k \in Blocks : k \in FreeSet => content'[k] = content[k]
  BY <1>3, <1>4 DEF PlaceInv, PoolOK
<1>10. FreeSet' = FreeSet /\ OnList'
  BY <1>8, <1>9, ListKept
<1>11. Pool!Keep(p)
  BY <1>3, <1>4, <1>5, <1>10 DEF Pool!Keep
<1> QED BY <1>10, <1>11 DEF PoolStep, Pool!PoolNext

LEMMA NoneFree ==
    ASSUME Base, ~flock, stack \in {<< >>, << 0 >>}
    PROVE  FreeSet = {}
<1>1. FirstTable = stack
  BY FirstFree DEF Base
<1>2. content \in Contents
  BY Typing
<1>3. PICK X \in {{}, {0}} : Lists(stack, content, X)
  BY <1>2, NothingFree
<1>4. Collected(stack, content) = X \ {0}
  BY <1>2, <1>3, CollectedIs
<1> QED BY <1>1, <1>3, <1>4, FreeSetIs

\* The block p frees is of a file, or already in the hand of p.
LEMMA FreedFrom ==
    ASSUME Base, PlaceInv, NEW p \in Procs, NEW b, InFree(p, b)
    PROVE  /\ b \in Blocks /\ b # 0 /\ b \notin FreeSet /\ pc[p] \in {"user", "free"}
           /\ \/ b \in used /\ hand[p] = 0
              \/ b \notin used /\ hand[p] = b
<1>1. 0 \notin Blocks
  BY NumberedInt
<1>2. CASE pc[p] = "user" /\ b \in used
  <2>1. hand[p] = 0
    BY <1>2, HandIs DEF Handed
  <2> QED BY <1>1, <1>2, <2>1 DEF PlaceInv, PoolOK
<1>3. CASE pc[p] = "free" /\ b = blk[p]
  <2>1. hand[p] = b /\ hand[p] # 0
    BY <1>3, HandIs DEF Handed
  <2> QED BY <1>1, <1>3, <2>1 DEF PlaceInv, PoolOK
<1> QED BY <1>2, <1>3 DEF InFree, Calls

LEMMA LeaveStep ==
    ASSUME Base, Base', PlaceInv, NEW p \in Procs, NEW b, FreeWait(p, b) \/ FreeFull(p, b)
    PROVE  PoolStep /\ OnList'
<1>1. /\ UNCHANGED <<stack, content, err>> /\ used' = used \ {b}
      /\ blk' = [blk EXCEPT ![p] = b] /\ InFree(p, b)
  BY DEF FreeWait, FreeFull
<1>2. PICK to \in {"free", "store"} : pc' = [pc EXCEPT ![p] = to]
  BY DEF FreeWait, FreeFull, Goto
<1>3. /\ b \in Blocks /\ b # 0 /\ b \notin FreeSet /\ pc[p] \in {"user", "free"}
      /\ \/ b \in used /\ hand[p] = 0
         \/ b \notin used /\ hand[p] = b
  BY <1>1, FreedFrom
<1>4. hand' = [hand EXCEPT ![p] = b]
  BY <1>1, <1>2, HandAfter DEF Handed
<1>5. \A q \in Procs : (Moving(q)' <=> Moving(q)) /\ (Moving(q) => blk'[q] = blk[q])
  BY <1>1, <1>2, <1>3, Typing DEF Moving
<1>6. FirstTable' = FirstTable
  BY <1>1, <1>5, FirstKept DEF Base
<1>7. FreeSet' = FreeSet /\ OnList'
  BY <1>1, <1>6, ListKept
<1>8. CASE b \in used /\ hand[p] = 0
  <2>1. Pool!GiveBack(p, b)
    BY <1>1, <1>4, <1>7, <1>8 DEF Pool!GiveBack
  <2> QED BY <1>7, <1>8, <2>1 DEF PoolStep, Pool!PoolNext
<1>9. CASE b \notin used /\ hand[p] = b
  <2>1. used' = used
    BY <1>1, <1>9
  <2>2. hand' = hand
    BY <1>4, <1>9 DEF PlaceInv, PoolOK
  <2> QED BY <1>1, <1>7, <2>1, <2>2, PoolSame
<1> QED BY <1>3, <1>8, <1>9

LEMMA PutStep ==
    ASSUME Base, Base', PlaceInv, NEW p \in Procs, NEW b, FreePut(p, b)
    PROVE  PoolStep /\ OnList'
<1>1. PICK s : s = stack
  OBVIOUS
<1>2. /\ UNCHANGED <<flock, content, err>> /\ used' = used \ {b} /\ ~flock
      /\ stack' = (IF s = << >> THEN <<0, b>> ELSE Append(s, b))
      /\ blk' = [blk EXCEPT ![p] = 0] /\ pc' = [pc EXCEPT ![p] = "user"] /\ InFree(p, b)
  BY <1>1 DEF FreePut, Return, Goto
<1>3. /\ b \in Blocks /\ b # 0 /\ b \notin FreeSet /\ pc[p] \in {"user", "free"}
      /\ \/ b \in used /\ hand[p] = 0
         \/ b \notin used /\ hand[p] = b
  BY <1>2, FreedFrom
<1>4. hand' = [hand EXCEPT ![p] = 0]
  BY <1>2, HandAfter DEF Handed
<1>5. FirstTable = s /\ \A q \in Procs : ~Moving(q)
  BY <1>1, <1>2, FirstFree DEF Base
<1>6. FirstTable' = stack'
  <2>1. \A q \in Procs : ~Moving(q)'
    BY <1>2, <1>5, Typing DEF Moving
  <2> QED BY <2>1, FirstFreeAfter DEF Base
<1>7. FreeSet \subseteq Blocks /\ 0 \notin Blocks /\ Blocks \subseteq Int
  BY NumberedInt DEF PlaceInv, PoolOK, Numbered
<1>8. content \in Contents /\ content' \in Contents
  BY Typing, TypingAfter
<1>9. FreeSet' = FreeSet \cup {b} /\ OnList'
  <2>1. CASE s = << >>
    <3>1. FreeSet = {}
      BY <1>1, <1>2, <2>1, NoneFree
    <3>2. /\ <<0, b>> \in Seq(Int) /\ <<0, b>> # << >> /\ Len(<<0, b>>) = 2
          /\ <<0, b>>[1] = 0 /\ <<0, b>>[2] = b
      BY <1>3, <1>7
    <3>3. \A i, j \in 1..Len(<<0, b>>) : <<0, b>>[i] = <<0, b>>[j] => i = j
      BY <1>3, <3>2
    <3>4. {<<0, b>>[i] : i \in 1..Len(<<0, b>>)} = {0, b}
      BY <3>2
    <3>5. Lists(<<0, b>>, content, {0, b})
      <4>1. PICK r, c : r = <<0, b>> /\ c = content
        OBVIOUS
      <4>2. /\ r \in Seq(Int) /\ r # << >> /\ r[1] \notin Blocks /\ c \in Contents
            /\ \A i, j \in 1..Len(r) : r[i] = r[j] => i = j
        BY <1>7, <1>8, <3>2, <3>3, <4>1
      <4>3. Lists(r, c, {r[i] : i \in 1..Len(r)})
        BY <4>2, ListsAlone
      <4>4. {r[i] : i \in 1..Len(r)} = {0, b}
        BY <3>4, <4>1
      <4> QED BY <4>1, <4>3, <4>4
    <3>6. Lists(FirstTable', content', {0, b}) /\ {0, b} \subseteq Blocks \cup {0}
      BY <1>2, <1>3, <1>6, <2>1, <3>5
    <3>7. FreeSet' = {0, b} \ {0} /\ OnList'
      BY <1>8, <3>6, OnListAfter
    <3> QED BY <1>3, <3>1, <3>7
  <2>2. CASE s # << >>
    <3>1. PICK X : X \in {FreeSet, FreeSet \cup {0}} /\ Lists(s, content, X)
      BY <1>5 DEF PlaceInv, OnList
    <3>2. b \notin X /\ b \in Int
      BY <1>3, <1>7, <3>1
    <3>3. Lists(Append(s, b), content, X \cup {b})
      BY <2>2, <3>1, <3>2, ListsPut
    <3>4. Lists(FirstTable', content', X \cup {b})
      BY <1>2, <1>6, <2>2, <3>3
    <3>5. X \cup {b} \subseteq Blocks \cup {0} /\ (X \cup {b}) \ {0} = FreeSet \cup {b}
      BY <1>3, <1>7, <3>1
    <3>6. FreeSet' = (X \cup {b}) \ {0} /\ OnList'
      BY <1>8, <3>4, <3>5, OnListAfter
    <3> QED BY <3>5, <3>6
  <2> QED BY <2>1, <2>2
<1>10. CASE b \in used /\ hand[p] = 0
  <2>1. hand' = hand
    BY <1>4, <1>10 DEF PlaceInv, PoolOK
  <2>2. Pool!GiveBackAtOnce(b)
    BY <1>2, <1>9, <2>1 DEF Pool!GiveBackAtOnce
  <2> QED BY <1>9, <1>10, <2>2 DEF PoolStep, Pool!PoolNext
<1>11. CASE b \notin used /\ hand[p] = b
  <2>1. used' = used
    BY <1>2, <1>11
  <2>2. Pool!Put(p)
    BY <1>2, <1>3, <1>4, <1>9, <1>11, <2>1 DEF Pool!Put
  <2> QED BY <1>9, <2>2 DEF PoolStep, Pool!PoolNext
<1> QED BY <1>3, <1>10, <1>11

LEMMA StoreStep ==
    ASSUME Base, Base', PlaceInv, NEW p \in Procs, FreeStore(p)
    PROVE  PoolStep /\ OnList'
<1>1. pc[p] = "store" /\ InHand(p) /\ Changing(p)
  BY DEF FreeStore, InHand, Changing
<1>2. PICK b, s : b = blk[p] /\ s = stack
  OBVIOUS
<1>3. /\ content' = [c \in Blocks |-> IF c = b THEN s ELSE content[c]]
      /\ UNCHANGED <<used, blk, err>> /\ pc' = [pc EXCEPT ![p] = "stored"]
  BY <1>2 DEF FreeStore, Goto
<1>4. hand[p] = b /\ b # 0 /\ b \in Blocks
  BY <1>1, <1>2, HandIs, HandsFull DEF PlaceInv
<1>5. hand' = hand
  BY <1>1, <1>3, HandKept DEF Handed
<1>6. FirstTable = s
  <2>1. \A q \in Procs : q # p => ~Changing(q)
    BY <1>1 DEF Base, LockInv, LockSound
  <2>2. \A q \in Procs : ~Moving(q)
    BY <1>1, <2>1 DEF Moving, Changing
  <2> QED BY <1>2, <2>2, FirstIs DEF Base
<1>7. FirstTable' = FirstTable
  <2>1. Moving(p)'
    BY <1>2, <1>3, <1>4, Typing DEF Moving
  <2>2. FirstTable' = content'[blk'[p]]
    BY <2>1, FirstIsAfter DEF Base
  <2>3. blk'[p] = b
    BY <1>2, <1>3
  <2> QED BY <1>3, <1>4, <1>6, <2>2, <2>3
<1>8. \A k \in Blocks : k \in FreeSet => content'[k] = content[k]
  BY <1>3, <1>4 DEF PlaceInv, PoolOK
<1>9. FreeSet' = FreeSet /\ OnList'
  BY <1>7, <1>8, ListKept
<1> QED BY <1>3, <1>5, <1>9, PoolSame

LEMMA StoredStep ==
    ASSUME Base, Base', PlaceInv, NEW p \in Procs, FreeStored(p)
    PROVE  PoolStep /\ OnList'
<1>1. pc[p] = "stored" /\ InHand(p) /\ Changing(p)
  BY DEF FreeStored, InHand, Changing
<1>2. PICK b : b = blk[p]
  OBVIOUS
<1>3. /\ UNCHANGED <<content, used, err>> /\ stack' = Append(stack, b)
      /\ pc' = [pc EXCEPT ![p] = "user"] /\ blk' = [blk EXCEPT ![p] = 0]
  BY <1>2 DEF FreeStored, Return, Goto
<1>4. hand[p] = b /\ b # 0 /\ b \in Blocks /\ b \notin FreeSet
  BY <1>1, <1>2, HandIs, HandsFull DEF PlaceInv, PoolOK
<1>5. hand' = [hand EXCEPT ![p] = 0]
  BY <1>3, HandAfter DEF Handed
<1>6. stack' = <<b>>
  <2>1. stack = << >>
    BY <1>1 DEF Base, Emptied
  <2> QED BY <1>3, <2>1
<1>7. FirstTable = content[b]
  BY <1>1, <1>2, <1>4, FirstIs DEF Base, Moving
<1>8. FirstTable' = <<b>>
  <2>1. \A q \in Procs : q # p => ~Changing(q)
    BY <1>1 DEF Base, LockInv, LockSound
  <2>2. \A q \in Procs : ~Moving(q)'
    BY <1>3, <2>1, Typing DEF Moving, Changing
  <2> QED BY <1>6, <2>2, FirstFreeAfter DEF Base
<1>9. FreeSet' = FreeSet \cup {b} /\ OnList'
  <2>1. PICK X : X \in {FreeSet, FreeSet \cup {0}} /\ Lists(content[b], content, X)
    BY <1>7 DEF PlaceInv, OnList
  <2>2. b \notin X
    BY <1>4, <2>1
  <2>3. Lists(<<b>>, content, X \cup {b})
    <3>1. PICK s, c : s = content[b] /\ c = content
      OBVIOUS
    <3> QED BY <1>4, <2>1, <2>2, <3>1, ListsPush
  <2>4. Lists(FirstTable', content', X \cup {b})
    BY <1>3, <1>8, <2>3
  <2>5. X \cup {b} \subseteq Blocks \cup {0} /\ (X \cup {b}) \ {0} = FreeSet \cup {b}
    <3>1. FreeSet \subseteq Blocks /\ 0 \notin Blocks
      BY NumberedInt DEF PlaceInv, PoolOK
    <3> QED BY <1>4, <2>1, <3>1
  <2>6. FreeSet' = (X \cup {b}) \ {0} /\ OnList'
    BY <2>4, <2>5, TypingAfter, OnListAfter
  <2> QED BY <2>5, <2>6
<1>10. Pool!Put(p)
  BY <1>3, <1>4, <1>5, <1>9 DEF Pool!Put
<1> QED BY <1>9, <1>10 DEF PoolStep, Pool!PoolNext

LEMMA UpdateStep ==
    ASSUME Base, Base', PlaceInv, NEW p \in Procs,
           UpdateBegin(p) \/ UpdateCopy(p) \/ UpdateDone(p)
    PROVE  PoolStep /\ OnList'
<1>1. UNCHANGED <<stack, content, used, err>>
  BY DEF UpdateBegin, UpdateCopy, UpdateDone, superBlock
<1>2. pc[p] \in {"user", "copy", "rest"}
  BY DEF UpdateBegin, UpdateCopy, UpdateDone, Calls
<1>3. PICK to \in {"copy", "rest", "user"} : pc' = [pc EXCEPT ![p] = to]
  BY DEF UpdateBegin, UpdateCopy, UpdateDone, Goto, Return
<1>4. PICK x : blk' = [blk EXCEPT ![p] = x]
  <2>1. blk' = blk \/ blk' = [blk EXCEPT ![p] = 0]
    BY DEF UpdateBegin, UpdateCopy, UpdateDone, Return
  <2>2. blk = [blk EXCEPT ![p] = blk[p]]
    BY Typing
  <2> QED BY <2>1, <2>2
<1>5. hand' = hand
  <2>1. hand' = [hand EXCEPT ![p] = 0]
    BY <1>3, <1>4, HandAfter DEF Handed
  <2>2. hand[p] = 0
    BY <1>2, HandIs DEF Handed
  <2> QED BY <2>1, <2>2 DEF PlaceInv, PoolOK
<1>6. \A q \in Procs : (Moving(q)' <=> Moving(q)) /\ (Moving(q) => blk'[q] = blk[q])
  BY <1>2, <1>3, <1>4, Typing DEF Moving
<1>7. FirstTable' = FirstTable
  BY <1>1, <1>6, FirstKept DEF Base
<1>8. FreeSet' = FreeSet /\ OnList'
  BY <1>1, <1>7, ListKept
<1> QED BY <1>1, <1>5, <1>8, PoolSame

-----------------------------------------------------------------------------
\* Everything together

BlocksInv == Base /\ (wild \/ PlaceInv)

\* With each step the list is in order and the pool has made a step, until a number is
\* read from outside the table.
LEMMA BlocksNext == BlocksInv /\ [Next]_vars => BlocksInv' /\ (wild' \/ PoolStep)
<1> SUFFICES ASSUME BlocksInv, [Next]_vars  PROVE BlocksInv' /\ (wild' \/ PoolStep)
  OBVIOUS
<1>1. Base /\ Base'
  BY BaseNext DEF BlocksInv
<1>2. CASE wild'
  BY <1>1, <1>2 DEF BlocksInv
<1>3. CASE ~wild'
  <2>1. ~wild
    BY <1>3 DEF Next, NotFollowed, vars, AllocWait, AllocTake, AllocEnd, AllocOutside,
             NoSpace, Popped, FreeWait, FreePut, FreeFull, UpdateBegin, Continue,
             AllocRefill, AllocClear, FreeStore, FreeStored, UpdateCopy, UpdateDone
  <2>2. PlaceInv
    BY <2>1 DEF BlocksInv
  <2>3. PoolStep /\ OnList'
    <3>1. CASE UNCHANGED vars
      <4>1. UNCHANGED <<stack, content, used, err, pc, blk>>
        BY <3>1 DEF vars
      <4>2. FirstTable' = FirstTable
        BY <4>1 DEF FirstTable
      <4>3. FreeSet' = FreeSet /\ OnList'
        BY <1>1, <2>2, <4>1, <4>2, ListKept
      <4>4. hand' = hand
        BY <4>1 DEF hand, InHand, Changing
      <4> QED BY <4>1, <4>3, <4>4, PoolSame
    <3>2. ASSUME NEW p \in Procs, AllocEnd(p)  PROVE PoolStep /\ OnList'
      <4>1. /\ ~flock /\ stack # << >> /\ Last(stack) = 0 /\ NoSpace(p)
            /\ pc[p] \in {"user", "alloc"}
        BY <3>2 DEF AllocEnd, InAlloc, Calls
      <4>2. stack = << 0 >>
        BY <1>1, <4>1, MarkedEnd DEF Base, KnownInv, TablesMarked
      <4> QED BY <1>1, <2>2, <4>1, <4>2, RefuseStep
    <3>3. ASSUME NEW p \in Procs, AllocOutside(p)  PROVE PoolStep /\ OnList'
      <4>1. ~flock /\ stack = << >> /\ NoSpace(p) /\ pc[p] \in {"user", "alloc"}
        BY <1>3, <3>3 DEF AllocOutside, InAlloc, Calls
      <4> QED BY <1>1, <2>2, <4>1, RefuseStep
    <3>4. ASSUME NEW p \in Procs, AllocWait(p) \/ AllocTake(p)  PROVE PoolStep /\ OnList'
      BY <1>1, <2>2, <3>4, WaitStep, TakeStep
    <3>5. ASSUME NEW p \in Procs, NEW b, FreeWait(p, b) \/ FreePut(p, b) \/ FreeFull(p, b)
          PROVE  PoolStep /\ OnList'
      BY <1>1, <2>2, <3>5, LeaveStep, PutStep
    <3>6. ASSUME NEW p \in Procs, UpdateBegin(p) \/ Continue(p)  PROVE PoolStep /\ OnList'
      BY <1>1, <2>2, <3>6, RefillStep, ClearStep, StoreStep, StoredStep, UpdateStep
         DEF Continue
    <3>7. CASE NotFollowed
      BY <3>1, <3>7 DEF NotFollowed
    <3> QED BY <3>1, <3>2, <3>3, <3>4, <3>5, <3>6, <3>7 DEF Next
  <2>4. PoolOK'
    BY <2>2, <2>3, PoolKeeps DEF PlaceInv
  <2> QED BY <1>1, <2>3, <2>4 DEF BlocksInv, PlaceInv
<1> QED BY <1>2, <1>3

LEMMA BlocksInit == Init => BlocksInv /\ Pool!PoolInit
<1> SUFFICES ASSUME Init  PROVE BlocksInv /\ Pool!PoolInit
  OBVIOUS
<1>1. PICK s, c : s = stack /\ c = content
  OBVIOUS
<1>2. s = Formatted[NBlocks].stack /\ c = Formatted[NBlocks].content
  BY <1>1 DEF Init
<1>3. NBlocks \in Nat /\ NBlocks + 1 - NBlocks = 1
  BY FreeBlocksAssumption DEF FreeBlocksAssumption
<1>4. /\ s # << >> /\ IsTable(s) /\ \A b \in Blocks : IsTable(c[b])
      /\ Lists(s, c, {0} \cup Blocks)
  BY <1>2, <1>3, ImageWhole, Zenon DEF Image, Blocks
<1>5. c \in Contents
  BY <1>2, <1>3, FormattedIs DEF Images, Contents
<1>6. LockInv /\ KnownInv
  <2>1. LockInv
    BY DEF Init, LockInv, LockSound, Changing, Labels
  <2> QED BY <2>1, KnownInit
<1>7. TypeOK
  <2>1. content \in [Blocks -> Table \cup {Data}]
    BY <1>1, <1>4, <1>5, TableIs DEF Contents
  <2>2. IsTable(stack) /\ IsTable(onDisk)
    BY <1>1, <1>4 DEF Init
  <2>3. Typed
    BY <2>1, <2>2, NumberedInt DEF Init, Typed, Labels
  <2> QED BY <2>3, TypedIs
<1>8. Base
  <2>1. Emptied
    BY DEF Init, Emptied
  <2> QED BY <1>6, <1>7, <2>1 DEF Base
<1>9. FirstTable = s
  BY <1>1, FirstFree, <1>6 DEF Init
<1>10. FreeSet = Blocks
  <2>1. Collected(s, c) = ({0} \cup Blocks) \ {0}
    BY <1>4, <1>5, CollectedIs
  <2>2. 0 \notin Blocks
    BY NumberedInt
  <2> QED BY <1>1, <1>9, <2>1, <2>2, FreeSetIs
<1>11. OnList
  <2>1. {0} \cup Blocks = FreeSet \cup {0}
    BY <1>10
  <2> QED BY <1>1, <1>4, <1>9, <2>1 DEF OnList
<1>12. hand = [p \in Procs |-> 0]
  BY DEF Init, hand, InHand, Changing
<1>13. used = {} /\ err = [p \in Procs |-> FALSE]
  BY DEF Init
<1>14. PoolOK
  BY <1>10, <1>12, <1>13 DEF PoolOK
<1>15. Pool!PoolInit
  BY <1>10, <1>12, <1>13 DEF Pool!PoolInit
<1> QED BY <1>8, <1>11, <1>14, <1>15 DEF BlocksInv, PlaceInv

\* BlocksInv holds in every state: on the list of free blocks, which goes from the super
\* block through tables that Alloc reads in and Free writes out, each free block is
\* once, until a number is read from outside the table.
THEOREM BlocksInvariance == Spec => []BlocksInv
<1>1. Init => BlocksInv
  BY BlocksInit
<1>2. BlocksInv /\ [Next]_vars => BlocksInv'
  BY BlocksNext
<1> QED BY <1>1, <1>2, PTL DEF Spec

\* The blocks in the hands of the processes.
LEMMA EveryBlock == BlocksInv => EveryBlockOnce
<1> SUFFICES ASSUME BlocksInv  PROVE EveryBlockOnce
  OBVIOUS
<1>1. Base
  BY DEF BlocksInv
<1>2. CASE wild
  BY <1>1, <1>2 DEF EveryBlockOnce, Base
<1>3. CASE ~wild
  <2>1. PlaceInv
    BY <1>3 DEF BlocksInv
  <2> DEFINE hands == {p \in Procs : InHand(p)}
  <2>2. \A p \in hands : p \in Procs /\ hand[p] = blk[p] /\ hand[p] # 0
    BY <1>1, HandIs
  <2>3. \A p \in Procs : hand[p] # 0 => p \in hands /\ hand[p] = blk[p]
    BY <1>1, HandIs
  <2>4. FreeSet \cap used = {}
    BY <2>1 DEF PlaceInv, PoolOK
  <2>5. \A p \in hands : blk[p] \notin FreeSet \cup used
    BY <2>1, <2>2 DEF PlaceInv, PoolOK
  <2>6. \A p, q \in hands : blk[p] = blk[q] => p = q
    BY <2>1, <2>2 DEF PlaceInv, PoolOK
  <2>7. Blocks = FreeSet \cup used \cup {blk[p] : p \in hands}
    <3>1. \A p \in hands : blk[p] \in Blocks
      BY <1>1, <2>1, HandsFull DEF PlaceInv
    <3>2. FreeSet \subseteq Blocks /\ used \subseteq Blocks
      BY <2>1 DEF PlaceInv, PoolOK
    <3>3. \A b \in Blocks : b \in FreeSet \/ b \in used \/ \E p \in hands : blk[p] = b
      <4>1. \A b \in Blocks : b \in FreeSet \/ b \in used \/ \E p \in Procs : hand[p] = b
        BY <2>1 DEF PlaceInv, PoolOK
      <4>2. 0 \notin Blocks
        BY NumberedInt
      <4> QED BY <2>3, <4>1, <4>2
    <3> HIDE DEF hands
    <3> QED BY <3>1, <3>2, <3>3
  <2>8. \A m, n \in Places : \A i \in DOMAIN Tables[m], j \in DOMAIN Tables[n] :
            Tables[m][i] = Tables[n][j] => m = n /\ i = j
    <3>1. PICK X : Lists(FirstTable, content, X)
      BY <2>1 DEF PlaceInv, OnList
    <3>2. PICK s, c : s = FirstTable /\ c = content
      OBVIOUS
    <3>3. PICK t : IsWalk(t, s, c) /\ Once(t)
      BY <3>1, <3>2 DEF Lists
    <3>4. t = Walk(s, c)
      <4>1. c \in Contents
        BY <1>1, <3>2, Typing
      <4>2. s \in Seq(Int)
        BY <3>3 DEF IsWalk
      <4> QED BY <3>3, <4>1, <4>2, WalkUnique
    <3>5. \A n \in Places : Tables[n] = t[n]
      BY <3>2, <3>4 DEF Tables
    <3>6. \A n \in Places : n \in Nat /\ DOMAIN t[n] = 1..Len(t[n])
      <4>1. Places \subseteq Nat
        BY FreeBlocksAssumption DEF Places, FreeBlocksAssumption
      <4> QED BY <3>3, <4>1, LenProperties DEF IsWalk
    <3>7. \A n \in Places : Tables[n] = t[n] /\ DOMAIN Tables[n] = 1..Len(t[n]) /\ n \in Nat
      BY <3>5, <3>6
    <3>8. ASSUME NEW m \in Places, NEW n \in Places,
                 NEW i \in DOMAIN Tables[m], NEW j \in DOMAIN Tables[n],
                 Tables[m][i] = Tables[n][j]
          PROVE  m = n /\ i = j
      <4>1. /\ i \in 1..Len(t[m]) /\ j \in 1..Len(t[n]) /\ t[m][i] = t[n][j]
            /\ m \in Nat /\ n \in Nat
        BY <3>7, <3>8
      <4> QED BY <3>3, <4>1 DEF Once
    <3> QED BY <3>8
  <2>9. TypeOK
    BY <1>1 DEF Base
  <2> QED BY <2>4, <2>5, <2>6, <2>7, <2>8, <2>9 DEF EveryBlockOnce
<1> QED BY <1>2, <1>3

\* No block is lost or at two places, while processes allocate, free and sleep in the
\* middle of both, while tables are written into blocks that are freed and read back.
THEOREM EveryBlockOnceHolds == Spec => []EveryBlockOnce
<1> QED BY EveryBlock, BlocksInvariance, PTL

\* Alloc and Free implement a pool of blocks: whatever the tables, the chain and the lock
\* do, each step takes a free block, keeps it, gives one back or changes nothing, and
\* ENOSPC is the answer only when nothing is free.
THEOREM ImplementsPoolHolds == Spec => ImplementsPool
<1>1. Init => Pool!PoolInit
  BY BlocksInit
<1>2. BlocksInv /\ [Next]_vars => [wild' \/ Pool!PoolNext]_(Pool!pvars)
  BY BlocksNext DEF PoolStep
<1> QED BY <1>1, <1>2, BlocksInvariance, PTL DEF Spec, ImplementsPool

=============================================================================
