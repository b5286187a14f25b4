----------------------------- MODULE BoundedFifo -----------------------------
(*****************************************************************************)
(* What a pipe promises: the bytes written come out once each, in the order  *)
(* they went in, and never more than Capacity of them are held.              *)
(*****************************************************************************)
EXTENDS Integers, Sequences

CONSTANTS Bytes,    \* what can be written
          Capacity  \* PIPSIZ

VARIABLES queue,  \* what has been written and not yet read
          got,    \* what was last given to a reader
          inUse   \* does a descriptor refer to the pipe?

FifoInit == queue = << >> /\ got = << >> /\ inUse = FALSE

\* A writer's bytes are taken in, as far as there is room.
Put == \E n \in 1..(Capacity - Len(queue)) : \E s \in [1..n -> Bytes] :
    /\ queue' = queue \o s
    /\ UNCHANGED <<got, inUse>>

\* A reader gets the oldest bytes, and they are gone.
Get == \E n \in 1..Len(queue) :
    /\ got' = SubSeq(queue, 1, n)
    /\ queue' = SubSeq(queue, n + 1, Len(queue))
    /\ UNCHANGED inUse

\* The pipe is made, or its last descriptor is closed.
MakeOrClose == inUse' = ~inUse /\ UNCHANGED <<queue, got>>

\* What was not read is lost, and only when no descriptor is left to read it with.
Drop == ~inUse /\ queue' = << >> /\ UNCHANGED <<got, inUse>>

FifoNext == Put \/ Get \/ MakeOrClose \/ Drop

FifoSpec == FifoInit /\ [][FifoNext]_<<queue, got, inUse>>

=============================================================================
