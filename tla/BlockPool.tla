------------------------------- MODULE BlockPool -------------------------------
(*****************************************************************************)
(* What FileSystem::Alloc and Free promise: a set of free blocks.  A block   *)
(* is free, or in the hand of one process that is taking it or giving it     *)
(* back, or belongs to a file.  A process is refused only when nothing is    *)
(* free.  Tables, chaining and the lock are invisible.                       *)
(*****************************************************************************)
EXTENDS Integers

CONSTANTS Procs,   \* processes that take and give back blocks
          Blocks,  \* the blocks
          Nothing  \* an empty hand

VARIABLES free,    \* free blocks
          used,    \* blocks of files
          hand,    \* hand[p]: the block p is taking or giving back
          refused  \* refused[p]: p asked for a block and got none

pvars == <<free, used, hand, refused>>

PoolInit ==
    /\ free = Blocks /\ used = {}
    /\ hand = [p \in Procs |-> Nothing]
    /\ refused = [p \in Procs |-> FALSE]

Ask(p) ==
    /\ refused' = [refused EXCEPT ![p] = FALSE]
    /\ UNCHANGED <<free, used, hand>>

Take(p, b) ==
    /\ hand[p] = Nothing
    /\ hand' = [hand EXCEPT ![p] = b]
    /\ free' = free \ {b}
    /\ refused' = [refused EXCEPT ![p] = FALSE]
    /\ UNCHANGED used

Refuse(p) ==
    /\ free = {} /\ hand[p] = Nothing
    /\ refused' = [refused EXCEPT ![p] = TRUE]
    /\ UNCHANGED <<free, used, hand>>

Keep(p) ==
    /\ hand[p] # Nothing
    /\ used' = used \cup {hand[p]}
    /\ hand' = [hand EXCEPT ![p] = Nothing]
    /\ UNCHANGED <<free, refused>>

GiveBack(p, b) ==
    /\ hand[p] = Nothing
    /\ hand' = [hand EXCEPT ![p] = b]
    /\ used' = used \ {b}
    /\ UNCHANGED <<free, refused>>

Put(p) ==
    /\ hand[p] # Nothing
    /\ free' = free \cup {hand[p]}
    /\ hand' = [hand EXCEPT ![p] = Nothing]
    /\ UNCHANGED <<used, refused>>

\* A block that needs no table moves from file to pool in one step.
GiveBackAtOnce(b) ==
    /\ used' = used \ {b} /\ free' = free \cup {b}
    /\ UNCHANGED <<hand, refused>>

PoolNext ==
    \/ \E b \in used : GiveBackAtOnce(b)
    \/ \E p \in Procs :
          \/ Ask(p) \/ Refuse(p) \/ Keep(p) \/ Put(p)
          \/ \E b \in free : Take(p, b)
          \/ \E b \in used : GiveBack(p, b)

PoolSpec == PoolInit /\ [][PoolNext]_pvars

=============================================================================
