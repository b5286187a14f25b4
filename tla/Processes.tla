------------------------------- MODULE Processes -------------------------------
(*****************************************************************************)
(* The process table: ProcessManager::Fork with NewProc, Process::Clone and  *)
(* Exit, ProcessManager::Wait and Kill, PSignal, IsSig, PSig and Ssig, the   *)
(* end of SystemCall::Trap, and the block of the swap area that keeps the    *)
(* u area of a process from its Exit to its parent's Wait.                   *)
(*                                                                           *)
(* A process in the kernel runs until it sleeps: in Wait for a child, in     *)
(* Wait and Exit for a buffer.  cpu is the process that goes on without      *)
(* having slept.  Process 0, which makes no calls, is left out; all          *)
(* processes have one user and one terminal (p_ttyp is never set), and       *)
(* memory never runs out (Swapping has that part).                           *)
(*****************************************************************************)
EXTENDS Integers, FiniteSets, FiniteSetsExt

CONSTANTS NPROC,       \* size of process[]
          SwapBlocks,  \* blocks of the swap area
          Memory,      \* p_addr of a process that has its image in memory
          NoProc,      \* no process has the CPU
          MaxPid,      \* bound on the process numbers given out
          MayKill,     \* slots of the processes that send signals
          MayCatch     \* slots of the processes that set a handler

ASSUME ProcessesAssumption ==
    /\ NPROC \in Nat \ {0, 1} /\ MaxPid \in Nat \ {0}
    /\ IsFiniteSet(SwapBlocks) /\ SwapBlocks \subseteq Nat \ {0}
    /\ Memory \notin SwapBlocks /\ NoProc \notin 0..NPROC
    /\ MayKill \subseteq 1..(NPROC - 1) /\ MayCatch \subseteq 1..(NPROC - 1)

Slots    == 1..(NPROC - 1)
Handlers == {"default", "caught", "ignored"}  \* u_signal[n]: 0, even, odd
SIGNUL   == "SIGNUL"
SIGINT   == "SIGINT"                          \* a signal that may be caught
SIGKIL   == "SIGKIL"

VARIABLES proc,     \* process[]: p_stat, p_pid, p_ppid, p_sig, p_addr
          handler,  \* u_signal[SIGINT]; that of SIGKIL cannot be set
          free,     \* free blocks of the swap area
          nextPid,  \* m_NextUniquePid
          cpu,      \* the process that goes on without having slept, or NoProc
          pc,       \* where a process will go on
          reap,     \* i of Wait: the slot of the child it has found
          blk       \* blkno of Exit

vars == <<proc, handler, free, nextPid, cpu, pc, reap, blk>>

Free   == [stat |-> "SNULL", pid |-> 0, ppid |-> -1, sig |-> SIGNUL, addr |-> Memory]
Put(f, p, v) == [f EXCEPT ![p] = v]
Stat(s)      == {i \in Slots : proc[i].stat = s}
Live         == Stat("SRUN") \cup Stat("SWAIT")
Children(p)  == {i \in Slots : proc[i].ppid = proc[p].pid}

\* Wait has given up the slot of a child, and another process has it before Wait has
\* used its p_addr (ProcessManager.cpp:353, 361).
Reused == \E p \in Slots : pc[p] = "reap" /\ proc[reap[p]].stat # "SNULL"

\* Has p the CPU, or can it get it, at this place?  The table is not followed beyond
\* the first time a slot is used too early.
At(p, label) ==
    pc[p] = label /\ cpu \in {p, NoProc} /\ proc[p].stat = "SRUN" /\ ~Reused

GoOn(p, label)    == pc' = Put(pc, p, label) /\ cpu' = p
SleepAt(p, label) == pc' = Put(pc, p, label) /\ cpu' = NoProc

\* Process 1 alone, as process 0 has made it.
Init ==
    /\ proc = [i \in Slots |->
                 IF i = 1 THEN [Free EXCEPT !.stat = "SRUN", !.pid = 1, !.ppid = 0] ELSE Free]
    /\ handler = [i \in Slots |-> "default"]
    /\ free = SwapBlocks /\ nextPid = 2
    /\ cpu = NoProc
    /\ pc = [i \in Slots |-> IF i = 1 THEN "user" ELSE "none"]
    /\ reap = [i \in Slots |-> 0] /\ blk = [i \in Slots |-> 0]

-----------------------------------------------------------------------------
(* Signals *)

\* Mutant: a later signal would replace SIGKIL.
PSignalLast(e, s) == [e EXCEPT !.sig = s, !.stat = IF @ = "SWAIT" THEN "SRUN" ELSE @]

\* What a signal does to a slot of the table.
PSignal(e, s) ==
    [e EXCEPT !.sig = IF @ = SIGKIL THEN SIGKIL ELSE s,
              !.stat = IF @ = "SWAIT" THEN "SRUN" ELSE @]

IsSig(p) == \/ proc[p].sig = SIGKIL /\ pc[p] \notin {"exit", "bury"}
            \/ proc[p].sig = SIGINT /\ handler[p] # "ignored"

\* Kill takes every slot whose number is pid; for pid 0 every slot there is.
Kill(p) == \E pid \in {0} \cup {proc[i].pid : i \in Slots}, s \in {SIGINT, SIGKIL} :
    /\ At(p, "user") /\ p \in MayKill
    /\ proc' = [i \in Slots |-> IF i # p /\ (pid = 0 \/ proc[i].pid = pid)
                                THEN PSignal(proc[i], s) ELSE proc[i]]
    /\ GoOn(p, "trap")
    /\ UNCHANGED <<handler, free, nextPid, reap, blk>>

Ssig(p) == \E h \in Handlers :
    /\ At(p, "user") /\ p \in MayCatch
    /\ handler' = Put(handler, p, h)
    /\ proc' = [proc EXCEPT ![p].sig = IF @ = SIGINT THEN SIGNUL ELSE @]
    /\ GoOn(p, "trap")
    /\ UNCHANGED <<free, nextPid, reap, blk>>

\* Any other call, and one that fails, as Fork without a free slot.
OtherCall(p) ==
    /\ At(p, "user")
    /\ GoOn(p, "trap")
    /\ UNCHANGED <<proc, handler, free, nextPid, reap, blk>>

\* PSig: the handler is called once, or the process exits.
PSig(p) ==
    /\ proc' = [proc EXCEPT ![p].sig = SIGNUL]
    /\ IF proc[p].sig = SIGINT /\ handler[p] = "caught"
       THEN handler' = Put(handler, p, "default") /\ SleepAt(p, "user")
       ELSE handler' = Put(handler, p, "ignored") /\ SleepAt(p, "exit")
    /\ UNCHANGED <<free, nextPid, reap, blk>>

\* The end of Trap: back to the user, unless there is a signal.
Trap(p) ==
    /\ At(p, "trap")
    /\ \/ IsSig(p) /\ PSig(p)
       \/ /\ ~IsSig(p) /\ SleepAt(p, "user")
          /\ UNCHANGED <<proc, handler, free, nextPid, reap, blk>>

\* Clock interrupts p in user mode at the end of a second.
Clock(p) ==
    /\ At(p, "user") /\ IsSig(p)
    /\ PSig(p)

-----------------------------------------------------------------------------
(* Fork, exit and wait *)

\* Fork, NewProc and Clone: the child has the first free slot, whose p_sig is left as
\* it is, and returns from the call like its parent.
Fork(p) ==
    /\ At(p, "user") /\ Stat("SNULL") # {} /\ nextPid <= MaxPid
    /\ LET c == Min(Stat("SNULL"))
       IN  /\ proc' = [proc EXCEPT ![c].stat = "SRUN", ![c].pid = nextPid,
                                   ![c].ppid = proc[p].pid, ![c].addr = Memory]
           /\ handler' = Put(handler, c, handler[p])
           /\ pc' = [pc EXCEPT ![c] = "trap", ![p] = "trap"]
    /\ nextPid' = nextPid + 1
    /\ cpu' = p
    /\ UNCHANGED <<free, reap, blk>>

\* Exit begins; its files, directory and text are given up first.
Exit(p) ==
    /\ At(p, "user")
    /\ handler' = Put(handler, p, "ignored")
    /\ SleepAt(p, "exit")
    /\ UNCHANGED <<proc, free, nextPid, reap, blk>>

ExitPanics(p) ==
    /\ At(p, "exit") /\ free = {}
    /\ GoOn(p, "panic")
    /\ UNCHANGED <<proc, handler, free, nextPid, reap, blk>>

\* Mutant: the parent would be looked for by its number.
WokenByNumber(p) == {proc[p].ppid}

\* The slot whose sleepers Exit wakes: the parent's.
Woken(p) == {i \in Slots : proc[i].pid = proc[p].ppid}

\* Mutant: children that have exited would be passed over.
AdoptedLive(p) == {i \in Children(p) : proc[i].stat # "SZOMB"}

\* The children that go to process 1.
Adopted(p) == Children(p)

\* Mutant: the zombie would be there before its u area is in the swap area.
ExitAllocEarly(p) ==
    /\ At(p, "exit") /\ free # {}
    /\ blk' = Put(blk, p, Min(free))
    /\ free' = free \ {Min(free)}
    /\ proc' = [i \in Slots |->
                  IF i = p THEN [proc[i] EXCEPT !.stat = "SZOMB"]
                  ELSE [proc[i] EXCEPT !.ppid = IF i \in Adopted(p) THEN 1 ELSE @,
                                       !.stat = IF i \in Woken(p) /\ @ = "SWAIT"
                                                THEN "SRUN" ELSE @]]
    /\ SleepAt(p, "none")
    /\ UNCHANGED <<handler, nextPid, reap>>

\* A block is allocated for the u area, and a buffer asked for.
ExitAlloc(p) ==
    /\ At(p, "exit") /\ free # {}
    /\ blk' = Put(blk, p, Min(free))
    /\ free' = free \ {Min(free)}
    /\ SleepAt(p, "bury")
    /\ UNCHANGED <<proc, handler, nextPid, reap>>

\* The u area is written: the process is a zombie.
Bury(p) ==
    /\ At(p, "bury")
    /\ proc' = [i \in Slots |->
                  IF i = p THEN [proc[i] EXCEPT !.stat = "SZOMB", !.addr = blk[p]]
                  ELSE [proc[i] EXCEPT !.ppid = IF i \in Adopted(p) THEN 1 ELSE @,
                                       !.stat = IF i \in Woken(p) /\ @ = "SWAIT"
                                                THEN "SRUN" ELSE @]]
    /\ blk' = Put(blk, p, 0)
    /\ SleepAt(p, "none")
    /\ UNCHANGED <<handler, free, nextPid, reap>>

Wait(p) ==
    /\ At(p, "user")
    /\ GoOn(p, "wait")
    /\ UNCHANGED <<proc, handler, free, nextPid, reap, blk>>

ZombiesOf(p) == {i \in Children(p) : proc[i].stat = "SZOMB"}

\* The first child that has exited loses its slot, and its u area is asked for.
WaitFinds(p) ==
    /\ At(p, "wait") /\ ZombiesOf(p) # {}
    /\ LET i == Min(ZombiesOf(p))
       IN  /\ proc' = Put(proc, i, [Free EXCEPT !.addr = proc[i].addr])
           /\ reap' = Put(reap, p, i)
    /\ SleepAt(p, "reap")
    /\ UNCHANGED <<handler, free, nextPid, blk>>

\* The u area has been read, and its block is given back.
WaitFrees(p) ==
    /\ At(p, "reap")
    /\ free' = free \cup {proc[reap[p]].addr}
    /\ reap' = Put(reap, p, 0)
    /\ GoOn(p, "trap")
    /\ UNCHANGED <<proc, handler, nextPid, blk>>

\* No child has exited: wait for one, unless there is a signal.
WaitSleeps(p) ==
    /\ At(p, "wait") /\ ZombiesOf(p) = {} /\ Children(p) # {}
    /\ \/ IsSig(p) /\ GoOn(p, "trap") /\ UNCHANGED proc
       \/ /\ ~IsSig(p) /\ SleepAt(p, "slept")
          /\ proc' = [proc EXCEPT ![p].stat = "SWAIT"]
    /\ UNCHANGED <<handler, free, nextPid, reap, blk>>

\* Sleep returns: by aRetU if there is a signal.
WaitWakes(p) ==
    /\ At(p, "slept")
    /\ GoOn(p, IF IsSig(p) THEN "trap" ELSE "wait")
    /\ UNCHANGED <<proc, handler, free, nextPid, reap, blk>>

WaitNoChild(p) ==
    /\ At(p, "wait") /\ Children(p) = {}
    /\ GoOn(p, "trap")
    /\ UNCHANGED <<proc, handler, free, nextPid, reap, blk>>

-----------------------------------------------------------------------------
(* Specification *)

Call(p) == Fork(p) \/ Exit(p) \/ Wait(p) \/ Kill(p) \/ Ssig(p) \/ OtherCall(p)

Inside(p) == \/ ExitAlloc(p) \/ ExitPanics(p) \/ Bury(p)
             \/ WaitFinds(p) \/ WaitFrees(p) \/ WaitSleeps(p) \/ WaitWakes(p)
             \/ WaitNoChild(p) \/ Trap(p)

Next == \E p \in Slots : Call(p) \/ Inside(p) \/ Clock(p)

Spec == Init /\ [][Next]_vars

\* Select turns round the table, so that a process that may run does; what it waits
\* for in Exit and Wait is a buffer; the clock ticks while it is in user mode.
Fairness == \A p \in Slots : SF_vars(Inside(p) \/ Clock(p))

FairSpec == Spec /\ Fairness

-----------------------------------------------------------------------------
(* Properties *)

\* The process table, the u areas and the swap area have the values their types in
\* Process.h, User.h and SwapperManager.h allow.
TypeOK ==
    /\ proc \in [Slots -> [stat : {"SNULL", "SRUN", "SWAIT", "SZOMB"}, pid : 0..MaxPid,
                           ppid : -1..MaxPid, sig : {SIGNUL, SIGINT, SIGKIL},
                           addr : SwapBlocks \cup {Memory}]]
    /\ handler \in [Slots -> Handlers]
    /\ free \subseteq SwapBlocks /\ nextPid \in 2..(MaxPid + 1)
    /\ cpu \in Slots \cup {NoProc}
    /\ pc \in [Slots -> {"none", "user", "trap", "exit", "bury", "panic", "wait", "slept",
                         "reap"}]
    /\ reap \in [Slots -> Slots \cup {0}] /\ blk \in [Slots -> SwapBlocks \cup {0}]

\* Who answers for a block of the swap area: a zombie, a process in Exit, or a Wait
\* that has found a zombie.
Keepers == Stat("SZOMB") \cup {p \in Slots : pc[p] \in {"bury", "reap"}}
BlockOf(k) == CASE proc[k].stat = "SZOMB" -> proc[k].addr
                [] pc[k] = "bury" -> blk[k]
                [] pc[k] = "reap" -> proc[reap[k]].addr

BlocksKept ==
    /\ {BlockOf(k) : k \in Keepers} = SwapBlocks \ free
    /\ \A j, k \in Keepers : BlockOf(j) = BlockOf(k) => j = k

\* Each block that Exit has allocated has one keeper, until Wait frees it: none is
\* lost and none is freed twice (Process.cpp:224-239, ProcessManager.cpp:353-361).
SwapExact == TypeOK /\ (Reused \/ BlocksKept)

\* It is so even if the slot of a reaped child is used at once: Wait gives back the
\* block that the u area of the child was in (the comment at ProcessManager.cpp:359).
SwapExactAlways == BlocksKept

\* Who sleeps in Wait has a child, and none that has exited, but for process 1, which
\* is not told of the zombies it inherits (ProcessManager.cpp:342-381, Process.cpp:242).
WaitersHaveReason == \A p \in Stat("SWAIT") :
    Children(p) # {} /\ (proc[p].pid # 1 => ZombiesOf(p) = {})

\* Whoever is in the table has a parent that can still call Wait, or process 1
\* (Process.cpp:258-268).
OrphansAdopted == \A i \in Live \cup Stat("SZOMB") :
    proc[i].ppid > 1 => \E j \in Live : proc[j].pid = proc[i].ppid

\* A new process has no signal pending: signals are sent to processes
\* (ProcessManager.cpp:722, 733).
BornQuiet == [][\A i \in Slots :
    proc[i].stat = "SNULL" /\ proc'[i].stat = "SRUN" => proc'[i].sig = SIGNUL]_vars

\* The children of a process go to its own parent (the comment at Process.cpp:257).
ToGrandparent == [][\A p \in Slots : proc[p].stat = "SRUN" /\ proc'[p].stat = "SZOMB" =>
    \A i \in Children(p) : proc'[i].ppid = proc[p].ppid]_vars

\* Nothing more happens: Exit has found no block, or a slot is used too early.
Stopped == Reused \/ \E p \in Slots : pc[p] = "panic"

\* SIGKIL is the end of a process, wherever it is and whatever it does next (PSignal,
\* Sleep, Trap and Clock).
KilledEnds == \A p \in Slots :
    p \in Live /\ proc[p].sig = SIGKIL ~> pc[p] \in {"exit", "bury", "none"} \/ Stopped

=============================================================================
