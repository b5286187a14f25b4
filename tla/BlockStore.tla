------------------------------- MODULE BlockStore -------------------------------
(*****************************************************************************)
(* What the buffer layer promises to the file system above it: an array of   *)
(* disk blocks.  A kernel path gets exclusive use of one block, sees its     *)
(* current contents, may replace them, and gives the block up.  Nothing else *)
(* changes the contents of a block: caching, delayed writes, eviction, the   *)
(* request queue and the disk itself are invisible.                          *)
(*****************************************************************************)

CONSTANTS Procs,   \* processes that call the buffer layer
          Blocks,  \* blocks of the device
          Values,  \* what a block may contain
          NoBlock  \* a process that has no block

VARIABLES content, \* content[b]: what block b contains
          using    \* using[p]: the block process p has exclusive use of

svars == <<content, using>>

StoreTypeOK ==
    /\ content \in [Blocks -> Values]
    /\ using \in [Procs -> Blocks \cup {NoBlock}]

StoreInit ==
    /\ content \in [Blocks -> Values]
    /\ using = [p \in Procs |-> NoBlock]

Acquire(p, b) ==
    /\ using[p] = NoBlock
    /\ \A q \in Procs : using[q] # b
    /\ using' = [using EXCEPT ![p] = b]
    /\ UNCHANGED content

\* The new contents become visible and the block is given up in one step: until
\* then nobody else can look at it.
Store(p, v) ==
    /\ using[p] \in Blocks
    /\ content' = [content EXCEPT ![using[p]] = v]
    /\ using' = [using EXCEPT ![p] = NoBlock]

GiveUp(p) ==
    /\ using[p] \in Blocks
    /\ using' = [using EXCEPT ![p] = NoBlock]
    /\ UNCHANGED content

StoreNext ==
    \E p \in Procs :
        \/ \E b \in Blocks : Acquire(p, b)
        \/ \E v \in Values : Store(p, v)
        \/ GiveUp(p)

StoreSpec == StoreInit /\ [][StoreNext]_svars

=============================================================================
