---------------------------- MODULE ProcessesProofs ----------------------------
(*****************************************************************************)
(* The process table for any number of slots, process numbers and blocks of  *)
(* the swap area: every block has one keeper, whoever waits has a reason and *)
(* every process a parent that can wait for it, by the inductive invariant   *)
(* IInv.                                                                     *)
(*****************************************************************************)
EXTENDS Processes, WellFoundedInduction, TLAPS

\* A process is in the kernel at the places its p_stat allows.
StatesOK == \A i \in Slots :
    /\ proc[i].stat \in {"SNULL", "SZOMB"} => pc[i] = "none"
    /\ proc[i].stat = "SWAIT" => pc[i] = "slept"
    /\ proc[i].stat = "SRUN" => pc[i] # "none"

\* The values of an entry of process[].
Entries == [stat : {"SNULL", "SRUN", "SWAIT", "SZOMB"}, pid : 0..MaxPid, ppid : -1..MaxPid,
            sig : {SIGNUL, SIGINT, SIGKIL}, addr : SwapBlocks \cup {Memory}]

\* An entry changed by signals alone.
Signalled(d, e) ==
    /\ d \in Entries /\ d.pid = e.pid /\ d.ppid = e.ppid /\ d.addr = e.addr
    /\ d.stat = e.stat \/ (e.stat = "SWAIT" /\ d.stat = "SRUN")

\* Process numbers are given out once, parents' before their children's.
NumbersOK == \A i \in Slots :
    /\ proc[i].stat = "SNULL" => proc[i].pid = 0 /\ proc[i].ppid = -1
    /\ proc[i].stat # "SNULL" =>
          /\ 0 <= proc[i].ppid /\ proc[i].ppid < proc[i].pid /\ proc[i].pid < nextPid
          /\ \A j \in Slots \ {i} : proc[j].pid # proc[i].pid

\* What Exit and Wait keep in their locals.
LocalsOK == \A p \in Slots :
    /\ pc[p] = "bury" => blk[p] \in SwapBlocks
    /\ pc[p] = "reap" => reap[p] \in Slots

IInv ==
    /\ TypeOK /\ StatesOK /\ NumbersOK /\ LocalsOK
    /\ WaitersHaveReason /\ OrphansAdopted
    /\ Reused \/ BlocksKept

\* What IInv says of the blocks, keeper by keeper.
BlocksApart ==
    /\ \A k \in Keepers : BlockOf(k) \in SwapBlocks \ free
    /\ \A b \in SwapBlocks \ free : \E k \in Keepers : BlockOf(k) = b
    /\ \A j, k \in Keepers : BlockOf(j) = BlockOf(k) => j = k

\* A keeper's block, by what the keeper is.
KeepersAre == \A k \in Slots :
    /\ proc[k].stat = "SZOMB" => k \in Keepers /\ BlockOf(k) = proc[k].addr
    /\ pc[k] = "bury" => k \in Keepers /\ BlockOf(k) = blk[k]
    /\ pc[k] = "reap" => k \in Keepers /\ BlockOf(k) = proc[reap[k]].addr
    /\ proc[k].stat # "SZOMB" /\ pc[k] \notin {"bury", "reap"} => k \notin Keepers

-----------------------------------------------------------------------------
\* Helpers

\* Slots and blocks are numbers, and Min picks one of them.
LEMMA MinIn ==
    ASSUME NEW T, T \subseteq Nat, T # {}
    PROVE  Min(T) \in T
<1> DEFINE R == OpToRel(<, Nat)
<1>1. IsWellFoundedOn(R, Nat)
  BY NatLessThanWellFounded
<1>2. \A y, x \in Nat : <<y, x>> \in R <=> y < x
  BY DEF OpToRel
<1> HIDE DEF R
<1>3. PICK x \in T : \A y \in T : ~(<<y, x>> \in R)
  BY <1>1, WFMin
<1>4. \A y \in T : x <= y
  <2> TAKE y \in T
  <2>1. ~(y < x)
    BY <1>2, <1>3, Zenon
  <2>2. x \in Nat /\ y \in Nat
    OBVIOUS
  <2> QED BY <2>1, <2>2
<1> QED BY <1>4 DEF Min

\* BlocksKept, as a statement about pairs of keepers.
LEMMA ApartIsKept == BlocksKept <=> BlocksApart
<1>1. ASSUME BlocksKept  PROVE BlocksApart
  BY <1>1 DEF BlocksKept, BlocksApart
<1>2. ASSUME BlocksApart  PROVE BlocksKept
  BY <1>2 DEF BlocksKept, BlocksApart
<1> QED BY <1>1, <1>2

\* By its state or its place, a slot is a keeper in one way at most.
LEMMA BlockOfIs == StatesOK => KeepersAre
<1> SUFFICES ASSUME StatesOK, NEW k \in Slots
             PROVE  /\ proc[k].stat = "SZOMB" => k \in Keepers /\ BlockOf(k) = proc[k].addr
                    /\ pc[k] = "bury" => k \in Keepers /\ BlockOf(k) = blk[k]
                    /\ pc[k] = "reap" => k \in Keepers /\ BlockOf(k) = proc[reap[k]].addr
                    /\ proc[k].stat # "SZOMB" /\ pc[k] \notin {"bury", "reap"}
                       => k \notin Keepers
  BY DEF KeepersAre
<1>1. CASE proc[k].stat = "SZOMB"
  <2>1. pc[k] = "none"
    BY <1>1 DEF StatesOK
  <2> QED BY <1>1, <2>1 DEF Keepers, Stat, BlockOf
<1>2. CASE proc[k].stat # "SZOMB"
  BY <1>2 DEF Keepers, Stat, BlockOf
<1> QED BY <1>1, <1>2

\* Nobody's block changes.
LEMMA BlocksSame ==
    ASSUME BlocksKept, free' = free, Keepers' = Keepers,
           \A k \in Keepers : BlockOf(k)' = BlockOf(k)
    PROVE  BlocksKept'
<1>1. BlocksApart
  BY ApartIsKept
<1>2. BlocksApart'
  BY <1>1 DEF BlocksApart
<1> QED BY <1>2, ApartIsKept, PTL

-----------------------------------------------------------------------------
\* Steps that move a process on, or send signals

\* The places that have nothing to do with a block.
Calm == {"user", "trap", "exit", "panic", "wait", "slept"}

\* p goes from one place to another, both in Calm, and
\* processes get signals and are woken by them.
LEMMA MovesOn ==
    ASSUME IInv, NEW p \in Slots, proc[p].stat = "SRUN", ~Reused, NEW to,
           pc[p] \in Calm, to \in Calm,
           pc' = [pc EXCEPT ![p] = to], cpu' \in Slots \cup {NoProc},
           handler' \in [Slots -> Handlers], DOMAIN proc' = Slots,
           \A i \in Slots : Signalled(proc'[i], proc[i]), proc' = [i \in Slots |-> proc'[i]],
           UNCHANGED <<free, nextPid, reap, blk>>
    PROVE  IInv'
<1> USE DEF IInv, Signalled, Entries, Calm
<1>1. /\ pc' \in [Slots -> {"none", "user", "trap", "exit", "bury", "panic", "wait",
                             "slept", "reap"}]
      /\ pc'[p] = to /\ \A q \in Slots \ {p} : pc'[q] = pc[q]
  BY DEF TypeOK
<1>2. TypeOK'
  BY <1>1 DEF TypeOK
<1>3. StatesOK'
  BY <1>1 DEF StatesOK
<1>4. NumbersOK'
  BY DEF NumbersOK
<1>5. LocalsOK'
  BY <1>1 DEF LocalsOK
<1>6. /\ Stat("SZOMB")' = Stat("SZOMB") /\ Live' = Live
      /\ \A i \in Slots : Children(i)' = Children(i) /\ ZombiesOf(i)' = ZombiesOf(i)
  BY DEF Stat, Live, Children, ZombiesOf
<1>7. WaitersHaveReason'
  <2>1. Stat("SWAIT")' \subseteq Stat("SWAIT")
    BY DEF Stat
  <2> QED BY <2>1, <1>6 DEF WaitersHaveReason, Stat
<1>8. OrphansAdopted'
  <2>1. \A j \in Live : j \in Slots
    BY DEF Live, Stat
  <2> QED BY <1>6, <2>1 DEF OrphansAdopted, Stat
<1>9. BlocksKept'
  <2>1. KeepersAre /\ KeepersAre'
    BY <1>3, BlockOfIs, PTL
  <2>2. Keepers' = Keepers
    BY <2>1, <1>1 DEF KeepersAre, Keepers, Stat
  <2>3. \A k \in Keepers : BlockOf(k)' = BlockOf(k)
    <3> TAKE k \in Keepers
    <3>1. k \in Slots
      BY DEF Keepers, Stat
    <3> QED BY <3>1, <2>1, <1>1 DEF KeepersAre, LocalsOK
  <2> QED BY <2>2, <2>3, BlocksSame
<1> QED BY <1>2, <1>3, <1>4, <1>5, <1>7, <1>8, <1>9

\* The entries as one set of records, and what signals do to one.
LEMMA EntriesIn == TypeOK => proc \in [Slots -> Entries]
BY DEF TypeOK, Entries

LEMMA PSignalIs ==
    ASSUME NEW e \in Entries, NEW s \in {SIGINT, SIGKIL}
    PROVE  Signalled(PSignal(e, s), e)
BY DEF Signalled, PSignal, Entries

LEMMA SigOnly ==
    ASSUME TypeOK, NEW p \in Slots, NEW s \in {SIGNUL, SIGINT, SIGKIL},
           proc' = [proc EXCEPT ![p].sig = s]
    PROVE  /\ DOMAIN proc' = Slots /\ proc' = [i \in Slots |-> proc'[i]]
           /\ \A i \in Slots : Signalled(proc'[i], proc[i])
<1>1. proc \in [Slots -> Entries]
  BY EntriesIn
<1>2. DOMAIN proc' = Slots /\ proc' = [i \in Slots |-> proc'[i]]
  BY <1>1
<1>3. /\ proc'[p] = [proc[p] EXCEPT !.sig = s]
      /\ \A i \in Slots \ {p} : proc'[i] = proc[i]
  BY <1>1
<1>4. Signalled(proc'[p], proc[p])
  BY <1>1, <1>3 DEF Signalled, Entries
<1>5. \A i \in Slots \ {p} : Signalled(proc'[i], proc[i])
  BY <1>1, <1>3 DEF Signalled
<1> QED BY <1>2, <1>4, <1>5

\* A signal is taken, in user mode or at the end of Trap.
LEMMA PSigStep ==
    ASSUME IInv, NEW p \in Slots, proc[p].stat = "SRUN", ~Reused,
           pc[p] \in {"user", "trap"}, PSig(p)
    PROVE  IInv'
<1> USE ProcessesAssumption
<1>1. pc[p] \in Calm /\ \E to \in Calm : pc' = [pc EXCEPT ![p] = to]
  BY DEF PSig, SleepAt, Put, Calm
<1>2. cpu' \in Slots \cup {NoProc} /\ handler' \in [Slots -> Handlers]
  BY DEF PSig, SleepAt, Put, IInv, TypeOK, Handlers
<1>3. proc' = [proc EXCEPT ![p].sig = SIGNUL]
  BY DEF PSig
<1>5. /\ DOMAIN proc' = Slots /\ proc' = [i \in Slots |-> proc'[i]]
      /\ \A i \in Slots : Signalled(proc'[i], proc[i])
  BY <1>3, SigOnly DEF IInv
<1>4. UNCHANGED <<free, nextPid, reap, blk>>
  BY DEF PSig
<1> QED BY <1>1, <1>2, <1>4, <1>5, MovesOn

\* The calls that touch neither the table nor a block, and the ends of the others.
Quiet(p) ==
    \/ Exit(p) \/ Wait(p) \/ OtherCall(p) \/ ExitPanics(p) \/ WaitWakes(p) \/ WaitNoChild(p)
    \/ /\ (At(p, "trap") /\ SleepAt(p, "user")) \/ (At(p, "wait") /\ GoOn(p, "trap"))
       /\ UNCHANGED <<proc, handler, free, nextPid, reap, blk>>

LEMMA QuietStep ==
    ASSUME IInv, NEW p \in Slots, Quiet(p)
    PROVE  IInv'
<1>1. proc[p].stat = "SRUN" /\ ~Reused
  BY DEF Quiet, Exit, Wait, OtherCall, ExitPanics, WaitWakes, WaitNoChild, At
<1>2. pc[p] \in Calm
  BY DEF Quiet, Exit, Wait, OtherCall, ExitPanics, WaitWakes, WaitNoChild, At, Calm
<1>3. \E to \in Calm : pc' = [pc EXCEPT ![p] = to]
  BY DEF Quiet, Exit, Wait, OtherCall, ExitPanics, WaitWakes, WaitNoChild, GoOn,
         SleepAt, Put, Calm
<1>4. cpu' \in Slots \cup {NoProc}
  BY DEF Quiet, Exit, Wait, OtherCall, ExitPanics, WaitWakes, WaitNoChild, GoOn, SleepAt
<1>5. handler' \in [Slots -> Handlers]
  BY DEF Quiet, Exit, Wait, OtherCall, ExitPanics,
         WaitWakes, WaitNoChild, Put, IInv, TypeOK, Handlers
<1>6. UNCHANGED <<proc, free, nextPid, reap, blk>>
  BY DEF Quiet, Exit, Wait, OtherCall, ExitPanics, WaitWakes, WaitNoChild
<1>7. /\ DOMAIN proc' = Slots /\ proc' = [i \in Slots |-> proc'[i]]
      /\ \A i \in Slots : Signalled(proc'[i], proc[i])
  <2>1. proc \in [Slots -> Entries]
    BY EntriesIn DEF IInv
  <2>2. DOMAIN proc = Slots /\ proc = [i \in Slots |-> proc[i]]
    BY <2>1
  <2>3. \A i \in Slots : Signalled(proc[i], proc[i])
    BY <2>1 DEF Signalled
  <2> QED BY <1>6, <2>2, <2>3
<1>8. UNCHANGED <<free, nextPid, reap, blk>>
  BY <1>6
<1> QED BY <1>1, <1>2, <1>3, <1>4, <1>5, <1>7, <1>8, MovesOn

\* Kill wakes sleepers and Ssig forgets a signal of its caller's.
LEMMA SignalStep ==
    ASSUME IInv, NEW p \in Slots, Kill(p) \/ Ssig(p)
    PROVE  IInv'
<1>1. proc[p].stat = "SRUN" /\ ~Reused /\ pc[p] \in Calm /\ "trap" \in Calm
  BY DEF Kill, Ssig, At, Calm
<1>2. pc' = [pc EXCEPT ![p] = "trap"] /\ cpu' \in Slots \cup {NoProc}
  BY DEF Kill, Ssig, GoOn, Put
<1>3. handler' \in [Slots -> Handlers]
  BY DEF Kill, Ssig, Put, IInv, TypeOK
<1>4. UNCHANGED <<free, nextPid, reap, blk>>
  BY DEF Kill, Ssig
<1>5. /\ DOMAIN proc' = Slots /\ proc' = [i \in Slots |-> proc'[i]]
      /\ \A i \in Slots : Signalled(proc'[i], proc[i])
  <2>1. CASE Kill(p)
    <3>1. proc \in [Slots -> Entries]
      BY EntriesIn DEF IInv
    <3>2. PICK pid \in {0} \cup {proc[i].pid : i \in Slots}, s \in {SIGINT, SIGKIL} :
              proc' = [i \in Slots |-> IF i # p /\ (pid = 0 \/ proc[i].pid = pid)
                                       THEN PSignal(proc[i], s) ELSE proc[i]]
      BY <2>1 DEF Kill
    <3>3. \A i \in Slots : Signalled(proc[i], proc[i]) /\ Signalled(PSignal(proc[i], s), proc[i])
      BY <3>1, PSignalIs DEF Signalled
    <3>4. DOMAIN proc' = Slots /\ proc' = [i \in Slots |-> proc'[i]]
      BY <3>2, Zenon
    <3>5. \A i \in Slots : proc'[i] = PSignal(proc[i], s) \/ proc'[i] = proc[i]
      BY <3>2, Zenon
    <3> QED BY <3>3, <3>4, <3>5, Zenon
  <2>2. CASE Ssig(p)
    <3> DEFINE s == IF proc[p].sig = SIGINT THEN SIGNUL ELSE proc[p].sig
    <3>1. proc' = [proc EXCEPT ![p].sig = s]
      BY <2>2 DEF Ssig
    <3>2. s \in {SIGNUL, SIGINT, SIGKIL}
      BY DEF IInv, TypeOK
    <3> HIDE DEF s
    <3> QED BY <3>1, <3>2, SigOnly DEF IInv
  <2> QED BY <2>1, <2>2
<1> QED BY <1>1, <1>2, <1>3, <1>4, <1>5, MovesOn

-----------------------------------------------------------------------------
\* Fork, Exit and Wait

\* What IInv says of the entries, in arithmetic.
LEMMA EntryFacts ==
    ASSUME IInv, NEW i \in Slots
    PROVE  /\ proc[i] \in Entries /\ proc[i].pid \in 0..MaxPid /\ proc[i].ppid \in -1..MaxPid
           /\ proc[i].stat = "SNULL" => proc[i].pid = 0 /\ proc[i].ppid = -1
           /\ proc[i].stat # "SNULL" =>
                 /\ proc[i].pid >= 1 /\ proc[i].ppid >= 0 /\ proc[i].ppid < proc[i].pid
                 /\ proc[i].pid < nextPid
<1>1. proc[i] \in Entries
  BY EntriesIn DEF IInv
<1>2. proc[i].pid \in 0..MaxPid /\ proc[i].ppid \in -1..MaxPid /\ nextPid \in Nat
  BY <1>1 DEF Entries, IInv, TypeOK
<1> QED BY <1>1, <1>2, ProcessesAssumption DEF IInv, NumbersOK, ProcessesAssumption

\* The child gets a slot nobody answers for, unless a Wait is about to use its address.
LEMMA ForkStep ==
    ASSUME IInv, NEW p \in Slots, Fork(p)
    PROVE  IInv'
<1> DEFINE c == Min(Stat("SNULL"))
<1>1. c \in Slots /\ proc[c].stat = "SNULL"
  <2>1. Stat("SNULL") \subseteq Nat /\ Stat("SNULL") # {}
    <3>1. Slots \subseteq Nat
      BY ProcessesAssumption DEF Slots, ProcessesAssumption
    <3> QED BY <3>1 DEF Stat, Fork
  <2> QED BY <2>1, MinIn DEF Stat
<1>2. /\ proc' = [proc EXCEPT ![c].stat = "SRUN", ![c].pid = nextPid,
                              ![c].ppid = proc[p].pid, ![c].addr = Memory]
      /\ handler' = Put(handler, c, handler[p])
      /\ pc' = [pc EXCEPT ![c] = "trap", ![p] = "trap"]
      /\ nextPid' = nextPid + 1 /\ cpu' = p /\ UNCHANGED <<free, reap, blk>>
      /\ nextPid <= MaxPid /\ pc[p] = "user" /\ proc[p].stat = "SRUN" /\ ~Reused
  BY DEF Fork, At
<1> HIDE DEF c
<1>3. c # p /\ pc[c] = "none" /\ c \notin Keepers
  BY <1>1, <1>2, BlockOfIs DEF IInv, StatesOK, KeepersAre
<1>4. /\ proc \in [Slots -> Entries] /\ pc \in [Slots -> {"none", "user", "trap", "exit",
                                             "bury", "panic", "wait", "slept", "reap"}]
      /\ nextPid \in 2..(MaxPid + 1) /\ MaxPid \in Nat
  BY EntriesIn, ProcessesAssumption DEF IInv, TypeOK, ProcessesAssumption
<1>5. /\ proc'[c].stat = "SRUN" /\ proc'[c].pid = nextPid /\ proc'[c].ppid = proc[p].pid
      /\ proc'[c] \in Entries
      /\ \A i \in Slots \ {c} : proc'[i] = proc[i]
  BY <1>1, <1>2, <1>4, EntryFacts DEF Entries
<1>6. pc'[c] = "trap" /\ pc'[p] = "trap" /\ \A i \in Slots \ {c, p} : pc'[i] = pc[i]
  BY <1>1, <1>2, <1>4
<1>7. TypeOK'
  <2>1. proc' \in [Slots -> Entries]
    BY <1>2, <1>4, <1>5
  <2>2. pc' \in [Slots -> {"none", "user", "trap", "exit", "bury", "panic", "wait", "slept",
                           "reap"}]
    BY <1>2, <1>4
  <2>3. handler' \in [Slots -> Handlers]
    BY <1>1, <1>2 DEF IInv, TypeOK, Put
  <2>4. nextPid' \in 2..(MaxPid + 1)
    BY <1>2, <1>4
  <2> QED BY <2>1, <2>2, <2>3, <2>4, <1>2 DEF IInv, TypeOK, Entries
<1>8. StatesOK'
  <2> USE DEF StatesOK
  <2> TAKE i \in Slots
  <2>1. CASE i = c
    BY <2>1, <1>5, <1>6
  <2>2. CASE i = p
    BY <2>2, <1>2, <1>3, <1>5, <1>6
  <2>3. CASE i # c /\ i # p
    BY <2>3, <1>5, <1>6 DEF IInv, StatesOK
  <2> QED BY <2>1, <2>2, <2>3
<1>9. NumbersOK'
  <2> USE DEF NumbersOK
  <2> TAKE i \in Slots
  <2>1. CASE i = c
    BY <2>1, <1>2, <1>4, <1>5, EntryFacts
  <2>2. CASE i # c
    <3>1. proc'[i] = proc[i] /\ proc'[c].pid = nextPid /\ nextPid' = nextPid + 1
      BY <2>2, <1>2, <1>5
    <3>2. \A j \in Slots \ {c} : proc'[j].pid = proc[j].pid
      BY <1>5
    <3> QED BY <2>2, <3>1, <3>2, <1>4, EntryFacts DEF IInv, NumbersOK
  <2> QED BY <2>1, <2>2
<1>10. LocalsOK'
  BY <1>2, <1>3, <1>6 DEF IInv, LocalsOK
<1>11. Stat("SWAIT")' = Stat("SWAIT") /\ Stat("SZOMB")' = Stat("SZOMB") /\ Live \subseteq Live'
       /\ Live' = Live \cup {c}
  BY <1>1, <1>5 DEF Stat, Live
<1>12. WaitersHaveReason'
  <2> SUFFICES ASSUME NEW q \in Stat("SWAIT")
               PROVE  /\ Children(q) \subseteq Children(q)'
                      /\ ZombiesOf(q)' = ZombiesOf(q) /\ proc'[q].pid = proc[q].pid
    BY <1>11 DEF WaitersHaveReason, IInv
  <2>1. q \in Slots /\ q # c /\ proc'[q] = proc[q] /\ proc[q].pid >= 1
    BY <1>1, <1>5, EntryFacts DEF Stat
  <2>2. proc[c].ppid = -1
    BY <1>1, EntryFacts
  <2> QED BY <2>1, <2>2, <1>1, <1>5 DEF Children, ZombiesOf
<1>13. OrphansAdopted'
  <2>1. p \in Live /\ c \notin Live /\ c \notin Stat("SZOMB")
    BY <1>1, <1>2 DEF Live, Stat
  <2>2. proc'[p].pid = proc[p].pid
    BY <1>3, <1>5
  <2>3. \A j \in Live \cup Stat("SZOMB") : j \in Slots \ {c}
    BY <2>1 DEF Live, Stat
  <2> QED BY <1>5, <1>11, <2>1, <2>2, <2>3 DEF OrphansAdopted, IInv
<1>14. Reused' \/ BlocksKept'
  <2>1. CASE \E q \in Slots : pc[q] = "reap" /\ reap[q] = c
    BY <2>1, <1>2, <1>3, <1>5, <1>6 DEF Reused
  <2>2. CASE \A q \in Slots : pc[q] = "reap" => reap[q] # c
    <3>1. KeepersAre /\ KeepersAre'
      BY <1>8, BlockOfIs, PTL DEF IInv
    <3>2. Keepers' = Keepers
      BY <1>2, <1>3, <1>6, <1>11 DEF Keepers
    <3>3. \A k \in Keepers : BlockOf(k)' = BlockOf(k)
      <4> TAKE k \in Keepers
      <4>1. k \in Slots \ {c} /\ proc'[k] = proc[k]
        BY <1>3, <1>5 DEF Keepers, Stat
      <4>2. CASE k = p
        BY <4>2, <1>2, <3>1 DEF KeepersAre
      <4>3. CASE k # p
        <5>1. pc'[k] = pc[k] /\ reap'[k] = reap[k] /\ blk'[k] = blk[k]
          BY <4>1, <4>3, <1>2, <1>6
        <5>2. pc[k] = "reap" => proc'[reap[k]] = proc[reap[k]]
          BY <4>1, <2>2, <1>5 DEF IInv, LocalsOK
        <5> QED BY <4>1, <5>1, <5>2, <3>1 DEF KeepersAre
      <4> QED BY <4>2, <4>3
    <3> QED BY <1>2, <3>2, <3>3, BlocksSame DEF IInv
  <2> QED BY <2>1, <2>2
<1> QED BY <1>7, <1>8, <1>9, <1>10, <1>12, <1>13, <1>14 DEF IInv

\* A step of p that leaves the table as it is, and goes on at a place in the kernel.
LEMMA PlaceOnly ==
    ASSUME IInv, NEW p \in Slots, NEW to, UNCHANGED <<proc, nextPid>>, proc[p].stat = "SRUN",
           to \in {"bury", "trap"}, pc' = [pc EXCEPT ![p] = to], TypeOK', LocalsOK',
           BlocksKept'
    PROVE  IInv'
<1>1. StatesOK'
  BY DEF IInv, TypeOK, StatesOK
<1>2. NumbersOK'
  BY DEF IInv, NumbersOK
<1>3. WaitersHaveReason' /\ OrphansAdopted'
  BY DEF IInv, WaitersHaveReason, OrphansAdopted, Stat, Live, Children, ZombiesOf
<1> QED BY <1>1, <1>2, <1>3 DEF IInv

\* A block of Exit has one keeper: it was free.
LEMMA ExitAllocStep ==
    ASSUME IInv, NEW p \in Slots, ExitAlloc(p)
    PROVE  IInv'
<1> DEFINE b == Min(free)
<1>1. b \in free /\ b \in SwapBlocks
  <2>1. free \subseteq Nat /\ free # {} /\ free \subseteq SwapBlocks
    BY ProcessesAssumption DEF ExitAlloc, IInv, TypeOK, ProcessesAssumption
  <2> QED BY <2>1, MinIn
<1>2. /\ blk' = [blk EXCEPT ![p] = b] /\ free' = free \ {b}
      /\ pc' = [pc EXCEPT ![p] = "bury"] /\ cpu' = NoProc
      /\ UNCHANGED <<proc, handler, nextPid, reap>>
      /\ pc[p] = "exit" /\ proc[p].stat = "SRUN" /\ ~Reused
  BY DEF ExitAlloc, At, SleepAt, Put
<1> HIDE DEF b
<1>3. /\ pc'[p] = "bury" /\ \A q \in Slots \ {p} : pc'[q] = pc[q]
      /\ blk'[p] = b /\ \A q \in Slots \ {p} : blk'[q] = blk[q]
  BY <1>2 DEF IInv, TypeOK
<1>4. TypeOK'
  BY <1>1, <1>2 DEF IInv, TypeOK
<1>5. LocalsOK'
  BY <1>1, <1>2, <1>3 DEF IInv, LocalsOK
<1>6. BlocksKept'
  <2>1. KeepersAre /\ p \notin Keepers /\ BlocksApart
    BY <1>2, BlockOfIs, ApartIsKept DEF IInv, KeepersAre
  <2>2. Keepers' = Keepers \cup {p}
    BY <1>2, <1>3 DEF Keepers, Stat
  <2>3. BlockOf(p)' = b
    BY <1>2, <1>3 DEF BlockOf
  <2>4. \A k \in Keepers : BlockOf(k)' = BlockOf(k)
    <3> TAKE k \in Keepers
    <3>1. k \in Slots \ {p}
      BY <2>1 DEF Keepers, Stat
    <3> QED BY <3>1, <1>2, <1>3 DEF BlockOf
  <2>5. BlocksApart'
    <3>1. \A k \in Keepers' : BlockOf(k)' \in SwapBlocks \ free'
      BY <1>1, <1>2, <2>1, <2>2, <2>3, <2>4 DEF BlocksApart
    <3>2. \A x \in SwapBlocks \ free' : \E k \in Keepers' : BlockOf(k)' = x
      BY <1>1, <1>2, <2>1, <2>2, <2>3, <2>4 DEF BlocksApart
    <3>3. \A j, k \in Keepers' : BlockOf(j)' = BlockOf(k)' => j = k
      BY <1>1, <2>1, <2>2, <2>3, <2>4 DEF BlocksApart
    <3> QED BY <3>1, <3>2, <3>3 DEF BlocksApart
  <2> QED BY <2>5, ApartIsKept, PTL
<1> QED BY <1>2, <1>4, <1>5, <1>6, PlaceOnly

\* Wait gives back the block it alone answers for.
LEMMA WaitFreesStep ==
    ASSUME IInv, NEW p \in Slots, WaitFrees(p)
    PROVE  IInv'
<1> DEFINE b == proc[reap[p]].addr
<1>1. /\ reap' = [reap EXCEPT ![p] = 0] /\ free' = free \cup {b}
      /\ pc' = [pc EXCEPT ![p] = "trap"] /\ cpu' = p
      /\ UNCHANGED <<proc, handler, nextPid, blk>>
      /\ pc[p] = "reap" /\ proc[p].stat = "SRUN" /\ ~Reused
  BY DEF WaitFrees, At, GoOn, Put
<1> HIDE DEF b
<1>2. KeepersAre /\ BlocksApart
  BY <1>1, BlockOfIs, ApartIsKept DEF IInv
<1>3. p \in Keepers /\ BlockOf(p) = b /\ b \in SwapBlocks \ free
  <2>1. p \in Keepers /\ BlockOf(p) = b
    BY <1>1, <1>2 DEF KeepersAre, b
  <2> QED BY <2>1, <1>2 DEF BlocksApart
<1>4. /\ pc'[p] = "trap" /\ \A q \in Slots \ {p} : pc'[q] = pc[q]
      /\ \A q \in Slots \ {p} : reap'[q] = reap[q]
  BY <1>1 DEF IInv, TypeOK
<1>5. TypeOK'
  BY <1>1, <1>3 DEF IInv, TypeOK
<1>6. LocalsOK'
  BY <1>1, <1>4 DEF IInv, LocalsOK
<1>7. BlocksKept'
  <2>1. Keepers' = Keepers \ {p}
    BY <1>1, <1>4 DEF Keepers, Stat
  <2>2. \A k \in Keepers' : BlockOf(k)' = BlockOf(k)
    <3> TAKE k \in Keepers'
    <3>1. k \in Slots \ {p}
      BY <2>1 DEF Keepers, Stat
    <3> QED BY <3>1, <1>1, <1>4 DEF BlockOf
  <2>3. BlocksApart'
    <3>1. \A k \in Keepers' : BlockOf(k)' \in SwapBlocks \ free'
      BY <1>1, <1>2, <1>3, <2>1, <2>2 DEF BlocksApart
    <3>2. \A x \in SwapBlocks \ free' : \E k \in Keepers' : BlockOf(k)' = x
      BY <1>1, <1>2, <1>3, <2>1, <2>2 DEF BlocksApart
    <3>3. \A j, k \in Keepers' : BlockOf(j)' = BlockOf(k)' => j = k
      BY <1>2, <2>1, <2>2 DEF BlocksApart
    <3> QED BY <3>1, <3>2, <3>3 DEF BlocksApart
  <2> QED BY <2>3, ApartIsKept, PTL
<1> QED BY <1>1, <1>5, <1>6, <1>7, PlaceOnly

\* Who falls asleep in Wait has looked at all its children.
LEMMA WaitSleepsStep ==
    ASSUME IInv, NEW p \in Slots, WaitSleeps(p), ~IsSig(p)
    PROVE  IInv'
<1>1. /\ proc' = [proc EXCEPT ![p].stat = "SWAIT"]
      /\ pc' = [pc EXCEPT ![p] = "slept"] /\ cpu' = NoProc
      /\ UNCHANGED <<handler, free, nextPid, reap, blk>>
      /\ pc[p] = "wait" /\ proc[p].stat = "SRUN" /\ ~Reused
      /\ ZombiesOf(p) = {} /\ Children(p) # {}
  BY DEF WaitSleeps, At, SleepAt, Put
<1>2. /\ pc'[p] = "slept" /\ \A q \in Slots \ {p} : pc'[q] = pc[q]
      /\ proc \in [Slots -> Entries]
  BY <1>1, EntriesIn DEF IInv, TypeOK
<1>3. /\ proc'[p].stat = "SWAIT" /\ proc'[p].pid = proc[p].pid /\ proc'[p].ppid = proc[p].ppid
      /\ proc'[p] \in Entries
      /\ \A q \in Slots \ {p} : proc'[q] = proc[q]
  BY <1>1, <1>2 DEF Entries
<1>4. TypeOK'
  <2>1. proc' \in [Slots -> Entries]
    BY <1>1, <1>2, <1>3
  <2> QED BY <2>1, <1>1 DEF IInv, TypeOK, Entries
<1>5. StatesOK'
  BY <1>2, <1>3 DEF IInv, StatesOK
<1>6. \A q \in Slots : proc'[q].pid = proc[q].pid /\ proc'[q].ppid = proc[q].ppid
  BY <1>3
<1>7. NumbersOK'
  BY <1>1, <1>3, <1>6 DEF IInv, NumbersOK
<1>8. LocalsOK'
  BY <1>1, <1>2 DEF IInv, LocalsOK
<1>9. /\ Live' = Live /\ Stat("SZOMB")' = Stat("SZOMB")
      /\ Stat("SWAIT")' = Stat("SWAIT") \cup {p}
  BY <1>1, <1>3 DEF Live, Stat
<1>10. \A q \in Slots : Children(q)' = Children(q) /\ ZombiesOf(q)' = ZombiesOf(q)
  BY <1>1, <1>3, <1>6 DEF Children, ZombiesOf
<1>11. WaitersHaveReason'
  <2>1. \A q \in Stat("SWAIT") : q \in Slots
    BY DEF Stat
  <2> QED BY <1>1, <1>6, <1>9, <1>10, <2>1 DEF IInv, WaitersHaveReason
<1>12. OrphansAdopted'
  <2>1. \A q \in Live \cup Stat("SZOMB") : q \in Slots
    BY DEF Live, Stat
  <2> QED BY <1>6, <1>9, <2>1 DEF IInv, OrphansAdopted
<1>13. BlocksKept'
  <2>1. KeepersAre /\ KeepersAre'
    BY <1>5, BlockOfIs, PTL DEF IInv
  <2>2. Keepers' = Keepers /\ p \notin Keepers
    BY <1>1, <1>2, <1>9, <2>1 DEF Keepers, KeepersAre
  <2>3. \A k \in Keepers : BlockOf(k)' = BlockOf(k)
    <3> TAKE k \in Keepers
    <3>1. k \in Slots \ {p} /\ proc'[k] = proc[k] /\ pc'[k] = pc[k]
      BY <1>2, <1>3, <2>2 DEF Keepers, Stat
    <3>2. pc[k] = "reap" => proc'[reap[k]].addr = proc[reap[k]].addr
      BY <1>1, <1>2, <1>3, <3>1 DEF IInv, LocalsOK, Entries
    <3> QED BY <1>1, <2>1, <3>1, <3>2 DEF KeepersAre
  <2> QED BY <1>1, <2>2, <2>3, BlocksSame DEF IInv
<1> QED BY <1>4, <1>5, <1>7, <1>8, <1>11, <1>12, <1>13 DEF IInv

\* The block of a child that has exited passes to the Wait that finds it.
LEMMA WaitFindsStep ==
    ASSUME IInv, NEW p \in Slots, WaitFinds(p)
    PROVE  IInv'
<1> DEFINE i == Min(ZombiesOf(p))
<1>1. i \in ZombiesOf(p)
  <2>1. Slots \subseteq Nat
    BY ProcessesAssumption DEF Slots, ProcessesAssumption
  <2>2. ZombiesOf(p) \subseteq Nat /\ ZombiesOf(p) # {}
    BY <2>1 DEF WaitFinds, ZombiesOf, Children
  <2> QED BY <2>2, MinIn
<1>2. /\ proc' = [proc EXCEPT ![i] = [Free EXCEPT !.addr = proc[i].addr]]
      /\ reap' = [reap EXCEPT ![p] = i]
      /\ pc' = [pc EXCEPT ![p] = "reap"] /\ cpu' = NoProc
      /\ UNCHANGED <<handler, free, nextPid, blk>>
      /\ pc[p] = "wait" /\ proc[p].stat = "SRUN" /\ ~Reused
  BY DEF WaitFinds, At, SleepAt, Put
<1> HIDE DEF i
<1>3. /\ i \in Slots /\ i # p /\ proc[i].stat = "SZOMB" /\ proc[i].ppid = proc[p].pid
      /\ pc[i] = "none"
  BY <1>1, <1>2 DEF ZombiesOf, Children, IInv, StatesOK
<1>4. /\ pc'[p] = "reap" /\ \A q \in Slots \ {p} : pc'[q] = pc[q]
      /\ reap'[p] = i /\ \A q \in Slots \ {p} : reap'[q] = reap[q]
      /\ proc \in [Slots -> Entries]
  BY <1>2, EntriesIn DEF IInv, TypeOK
<1>5. /\ proc'[i].stat = "SNULL" /\ proc'[i].pid = 0 /\ proc'[i].ppid = -1
      /\ proc'[i].addr = proc[i].addr /\ proc'[i] \in Entries
      /\ \A q \in Slots \ {i} : proc'[q] = proc[q]
  <2>1. proc[i].addr \in SwapBlocks \cup {Memory} /\ MaxPid \in Nat
    BY <1>3, <1>4, ProcessesAssumption DEF Entries, ProcessesAssumption
  <2> QED BY <1>2, <1>3, <1>4, <2>1 DEF Free, Entries
<1>6. TypeOK'
  <2>1. proc' \in [Slots -> Entries]
    BY <1>2, <1>4, <1>5
  <2> QED BY <2>1, <1>2, <1>3 DEF IInv, TypeOK, Entries
<1>7. StatesOK'
  BY <1>2, <1>3, <1>4, <1>5 DEF IInv, StatesOK
<1>8. NumbersOK'
  <2> USE DEF NumbersOK
  <2> TAKE k \in Slots
  <2>1. CASE k = i
    BY <2>1, <1>5
  <2>2. CASE k # i
    <3>1. proc'[k] = proc[k] /\ proc'[i].pid = 0 /\ nextPid' = nextPid
      BY <2>2, <1>2, <1>5
    <3> QED BY <2>2, <3>1, <1>5, EntryFacts DEF IInv
  <2> QED BY <2>1, <2>2
<1>9. LocalsOK'
  BY <1>2, <1>3, <1>4 DEF IInv, LocalsOK
<1>10. /\ Live' = Live /\ Stat("SZOMB")' = Stat("SZOMB") \ {i}
       /\ Stat("SWAIT")' = Stat("SWAIT")
  BY <1>3, <1>5 DEF Live, Stat
<1>11. WaitersHaveReason'
  <2> SUFFICES ASSUME NEW q \in Stat("SWAIT")
               PROVE  Children(q)' = Children(q) /\ ZombiesOf(q)' = ZombiesOf(q)
                      /\ proc'[q].pid = proc[q].pid
    BY <1>10 DEF IInv, WaitersHaveReason
  <2>1. q \in Slots /\ q # i /\ q # p /\ proc'[q] = proc[q] /\ proc[q].pid >= 1
    BY <1>2, <1>3, <1>5, EntryFacts DEF Stat
  <2>2. proc[p].pid # proc[q].pid
    BY <1>2, <2>1 DEF IInv, NumbersOK
  <2>3. proc[i].ppid # proc[q].pid /\ proc'[i].ppid # proc'[q].pid
    BY <1>3, <1>5, <2>1, <2>2, EntryFacts
  <2> QED BY <2>1, <2>3, <1>5 DEF Children, ZombiesOf
<1>12. OrphansAdopted'
  <2>1. \A q \in Live \cup Stat("SZOMB")' : q \in Slots \ {i}
    BY <1>3, <1>10 DEF Live, Stat
  <2> QED BY <1>5, <1>10, <2>1 DEF IInv, OrphansAdopted
<1>13. BlocksKept'
  <2>1. KeepersAre /\ KeepersAre' /\ BlocksApart
    BY <1>2, <1>7, BlockOfIs, ApartIsKept, PTL DEF IInv
  <2>2. /\ Keepers' = (Keepers \ {i}) \cup {p} /\ p \notin Keepers /\ i \in Keepers
    BY <1>2, <1>3, <1>4, <1>10, <2>1 DEF Keepers, KeepersAre
  <2>3. BlockOf(p)' = BlockOf(i)
    BY <1>3, <1>4, <1>5, <2>1 DEF KeepersAre
  <2>4. \A k \in Keepers \ {i} : BlockOf(k)' = BlockOf(k)
    <3> TAKE k \in Keepers \ {i}
    <3>1. k \in Slots \ {p, i} /\ proc'[k] = proc[k] /\ pc'[k] = pc[k] /\ reap'[k] = reap[k]
      BY <1>4, <1>5, <2>2 DEF Keepers, Stat
    <3>2. pc[k] = "reap" => reap[k] # i /\ reap[k] \in Slots
      BY <1>2, <1>3, <3>1 DEF Reused, IInv, LocalsOK
    <3> QED BY <1>2, <1>5, <2>1, <3>1, <3>2 DEF KeepersAre
  <2>5. BlocksApart'
    <3>1. \A k \in Keepers' : BlockOf(k)' \in SwapBlocks \ free'
      BY <1>2, <2>1, <2>2, <2>3, <2>4 DEF BlocksApart
    <3>2. \A x \in SwapBlocks \ free' : \E k \in Keepers' : BlockOf(k)' = x
      BY <1>2, <2>1, <2>2, <2>3, <2>4 DEF BlocksApart
    <3>3. \A j, k \in Keepers' : BlockOf(j)' = BlockOf(k)' => j = k
      BY <2>1, <2>2, <2>3, <2>4 DEF BlocksApart
    <3> QED BY <3>1, <3>2, <3>3 DEF BlocksApart
  <2> QED BY <2>5, ApartIsKept, PTL
<1> QED BY <1>6, <1>7, <1>8, <1>9, <1>11, <1>12, <1>13 DEF IInv

\* The block of Exit passes to the zombie; the children go to process 1 and the parent
\* is woken.
LEMMA BuryStep ==
    ASSUME IInv, NEW p \in Slots, Bury(p)
    PROVE  IInv'
<1>1. proc' = [i \in Slots |->
                    IF i = p THEN [proc[i] EXCEPT !.stat = "SZOMB", !.addr = blk[p]]
                    ELSE [proc[i] EXCEPT !.ppid = IF i \in Adopted(p) THEN 1 ELSE @,
                                         !.stat = IF i \in Woken(p) /\ @ = "SWAIT"
                                                  THEN "SRUN" ELSE @]]
  BY DEF Bury
<1>2. /\ blk' = [blk EXCEPT ![p] = 0]
      /\ pc' = [pc EXCEPT ![p] = "none"] /\ cpu' = NoProc
      /\ UNCHANGED <<handler, free, nextPid, reap>>
      /\ pc[p] = "bury" /\ proc[p].stat = "SRUN" /\ ~Reused /\ blk[p] \in SwapBlocks
  BY DEF Bury, At, SleepAt, Put, IInv, LocalsOK
<1>3. /\ pc'[p] = "none" /\ \A q \in Slots \ {p} : pc'[q] = pc[q]
      /\ \A q \in Slots \ {p} : blk'[q] = blk[q]
      /\ proc \in [Slots -> Entries]
  BY <1>2, EntriesIn DEF IInv, TypeOK
<1>4. 1 \in 0..MaxPid /\ 1 \in -1..MaxPid
  BY ProcessesAssumption DEF ProcessesAssumption
<1>5. /\ proc'[p].stat = "SZOMB" /\ proc'[p].addr = blk[p] /\ proc'[p] \in Entries
      /\ proc'[p].pid = proc[p].pid /\ proc'[p].ppid = proc[p].ppid
  <2>1. proc'[p] = [proc[p] EXCEPT !.stat = "SZOMB", !.addr = blk[p]]
    BY <1>1
  <2> QED BY <1>2, <1>3, <2>1 DEF Entries
<1>6. \A i \in Slots \ {p} :
         /\ proc'[i] \in Entries /\ proc'[i].addr = proc[i].addr /\ proc'[i].pid = proc[i].pid
         /\ proc'[i].ppid = IF i \in Adopted(p) THEN 1 ELSE proc[i].ppid
         /\ proc'[i].stat = IF i \in Woken(p) /\ proc[i].stat = "SWAIT" THEN "SRUN"
                            ELSE proc[i].stat
  <2> TAKE i \in Slots \ {p}
  <2>1. proc'[i] = [proc[i] EXCEPT !.ppid = IF i \in Adopted(p) THEN 1 ELSE @,
                                   !.stat = IF i \in Woken(p) /\ @ = "SWAIT"
                                            THEN "SRUN" ELSE @]
    BY <1>1
  <2> DEFINE pp == IF i \in Adopted(p) THEN 1 ELSE proc[i].ppid
             st == IF i \in Woken(p) /\ proc[i].stat = "SWAIT" THEN "SRUN" ELSE proc[i].stat
  <2>2. proc'[i] = [proc[i] EXCEPT !.ppid = pp, !.stat = st] /\ proc[i] \in Entries
    BY <1>3, <2>1
  <2>3. pp \in -1..MaxPid /\ st \in {"SNULL", "SRUN", "SWAIT", "SZOMB"}
    BY <1>4, <2>2 DEF Entries
  <2>4. /\ proc'[i] \in Entries /\ proc'[i].addr = proc[i].addr /\ proc'[i].pid = proc[i].pid
        /\ proc'[i].ppid = pp /\ proc'[i].stat = st
    <3> HIDE DEF pp, st
    <3> QED BY <2>2, <2>3 DEF Entries
  <2> QED BY <2>4
<1>7. TypeOK'
  <2>1. proc' \in [Slots -> Entries]
    BY <1>1, <1>5, <1>6
  <2> QED BY <2>1, <1>2 DEF IInv, TypeOK, Entries
<1>8. StatesOK'
  <2> USE DEF StatesOK
  <2> TAKE k \in Slots
  <2>1. CASE k = p
    BY <2>1, <1>3, <1>5
  <2>2. CASE k # p
    BY <2>2, <1>3, <1>6 DEF IInv
  <2> QED BY <2>1, <2>2
<1>9. /\ \A q \in Slots : proc'[q].pid = proc[q].pid
      /\ \A q \in Slots : q \notin Adopted(p) => proc'[q].ppid = proc[q].ppid
      /\ \A q \in Adopted(p) : q \in Slots \ {p} /\ proc'[q].ppid = 1 /\ proc[q].ppid >= 1
                               /\ proc[q].pid >= 2 /\ proc[q].stat # "SNULL"
  <2>1. ASSUME NEW q \in Adopted(p)
        PROVE  q \in Slots \ {p} /\ proc[q].ppid >= 1 /\ proc[q].pid >= 2
               /\ proc[q].stat # "SNULL"
    <3>1. q \in Slots /\ proc[q].ppid = proc[p].pid
      BY <2>1 DEF Adopted, Children
    <3>2. proc[p].pid >= 1 /\ proc[p].ppid # proc[p].pid
      BY <1>2, EntryFacts
    <3>3. proc[q].ppid >= 1 /\ proc[q].stat # "SNULL"
      BY <3>1, <3>2, EntryFacts
    <3>4. proc[q].pid >= 2
      BY <3>1, <3>3, EntryFacts
    <3> QED BY <3>1, <3>2, <3>3, <3>4
  <2>2. \A q \in Adopted(p) : proc'[q].ppid = 1
    BY <2>1, <1>6
  <2> QED BY <2>1, <2>2, <1>5, <1>6
<1>10. NumbersOK'
  <2> USE DEF NumbersOK
  <2> TAKE k \in Slots
  <2>1. proc'[k].stat = "SNULL" <=> proc[k].stat = "SNULL"
    BY <1>2, <1>5, <1>6
  <2>2. CASE k \in Adopted(p)
    BY <1>2, <1>9, <2>1, <2>2, EntryFacts DEF IInv
  <2>3. CASE k \notin Adopted(p)
    BY <1>2, <1>9, <2>1, <2>3 DEF IInv
  <2> QED BY <2>2, <2>3
<1>11. LocalsOK'
  BY <1>2, <1>3 DEF IInv, LocalsOK
<1>12. /\ Live' = Live \ {p} /\ Stat("SZOMB")' = Stat("SZOMB") \cup {p}
       /\ Stat("SWAIT")' = Stat("SWAIT") \ Woken(p)
  <2>1. \A q \in Slots \ {p} : proc'[q].stat = proc[q].stat
                               \/ (proc[q].stat = "SWAIT" /\ proc'[q].stat = "SRUN")
    BY <1>6
  <2>2. Live' = Live \ {p} /\ Stat("SZOMB")' = Stat("SZOMB") \cup {p}
    BY <1>2, <1>5, <2>1 DEF Live, Stat
  <2>3. Stat("SWAIT")' = Stat("SWAIT") \ Woken(p)
    BY <1>2, <1>5, <1>6 DEF Stat
  <2> QED BY <2>2, <2>3
<1>13. WaitersHaveReason'
  <2> SUFFICES ASSUME NEW q \in Stat("SWAIT") \ Woken(p)
               PROVE  /\ Children(q)' # {}
                      /\ proc[q].pid # 1 => ZombiesOf(q)' = {}
    BY <1>9, <1>12 DEF WaitersHaveReason, Stat
  <2>1. q \in Slots /\ q # p /\ proc[q].stat = "SWAIT" /\ proc[p].ppid # proc[q].pid
    BY <1>2 DEF Stat, Woken
  <2>2. proc[q].pid # proc[p].pid
    BY <1>2, <2>1 DEF IInv, NumbersOK
  <2>3. \A k \in Children(q) : k \notin Adopted(p)
    BY <2>2 DEF Children, Adopted
  <2>4. Children(q) # {} /\ (proc[q].pid # 1 => ZombiesOf(q) = {})
    BY DEF IInv, WaitersHaveReason
  <2>5. Children(q) \subseteq Children(q)'
    BY <1>9, <2>1, <2>3 DEF Children
  <2>6. ASSUME proc[q].pid # 1  PROVE ZombiesOf(q)' = {}
    <3> SUFFICES ASSUME NEW k \in ZombiesOf(q)'  PROVE FALSE
      OBVIOUS
    <3>1. k \in Slots /\ proc'[k].ppid = proc[q].pid /\ proc'[k].stat = "SZOMB"
      BY <1>9, <2>1 DEF ZombiesOf, Children
    <3>2. k \notin Adopted(p)
      BY <1>9, <2>6, <3>1
    <3>3. proc[k].ppid = proc[q].pid /\ k # p
      BY <1>9, <2>1, <3>1, <3>2
    <3>4. proc[k].stat = "SZOMB"
      BY <1>6, <3>1, <3>3
    <3> QED BY <2>4, <2>6, <3>1, <3>3, <3>4 DEF ZombiesOf, Children
  <2> QED BY <2>4, <2>5, <2>6
<1>14. OrphansAdopted'
  <2> SUFFICES ASSUME NEW i \in Live' \cup Stat("SZOMB")', proc'[i].ppid > 1
               PROVE  \E j \in Live' : proc'[j].pid = proc'[i].ppid
    BY DEF OrphansAdopted
  <2>1. i \in Slots /\ i \in Live \cup Stat("SZOMB")
    BY <1>2, <1>12 DEF Live, Stat
  <2>2. i \notin Adopted(p) /\ proc'[i].ppid = proc[i].ppid
    BY <1>9, <2>1
  <2>3. PICK j \in Live : proc[j].pid = proc[i].ppid
    BY <2>1, <2>2 DEF IInv, OrphansAdopted
  <2>4. j # p /\ j \in Slots
    BY <2>1, <2>2, <2>3 DEF Adopted, Children, Live, Stat
  <2> QED BY <1>9, <1>12, <2>2, <2>3, <2>4
<1>15. BlocksKept'
  <2>1. KeepersAre /\ KeepersAre'
    BY <1>8, BlockOfIs, PTL DEF IInv
  <2>2. Keepers' = Keepers
    BY <1>2, <1>3, <1>12 DEF Keepers
  <2>3. \A k \in Keepers : BlockOf(k)' = BlockOf(k)
    <3> TAKE k \in Keepers
    <3>1. k \in Slots
      BY DEF Keepers, Stat
    <3>2. CASE k = p
      BY <3>2, <1>2, <1>5, <2>1 DEF KeepersAre
    <3>3. CASE k # p
      <4>1. /\ pc'[k] = pc[k] /\ blk'[k] = blk[k] /\ proc'[k].addr = proc[k].addr
            /\ proc'[k].stat = "SZOMB" <=> proc[k].stat = "SZOMB"
        BY <3>1, <3>3, <1>3, <1>6
      <4>2. pc[k] = "reap" => proc'[reap[k]].addr = proc[reap[k]].addr
        <5>1. pc[k] = "reap" => reap[k] \in Slots \ {p}
          BY <3>1, <1>2 DEF Reused, IInv, LocalsOK
        <5> QED BY <5>1, <1>6
      <4> QED BY <1>2, <2>1, <3>1, <4>1, <4>2 DEF KeepersAre
    <3> QED BY <3>2, <3>3
  <2> QED BY <1>2, <2>2, <2>3, BlocksSame DEF IInv
<1> QED BY <1>7, <1>8, <1>10, <1>11, <1>13, <1>14, <1>15 DEF IInv

-----------------------------------------------------------------------------
\* Every step

\* Process 1 alone: no zombie, no sleeper, no block allocated.
LEMMA InitHolds == Init => IInv
<1> SUFFICES ASSUME Init  PROVE IInv
  OBVIOUS
<1>1. 1 \in Slots /\ MaxPid \in Nat \ {0} /\ NoProc \notin Slots
  BY ProcessesAssumption DEF ProcessesAssumption, Slots
<1>2. /\ proc[1].stat = "SRUN" /\ proc[1].pid = 1 /\ proc[1].ppid = 0 /\ pc[1] = "user"
      /\ \A i \in Slots \ {1} : proc[i] = Free /\ pc[i] = "none"
      /\ proc = [i \in Slots |-> proc[i]] /\ proc[1] \in Entries
      /\ nextPid = 2 /\ free = SwapBlocks
  <2>1. proc = [i \in Slots |->
                  IF i = 1 THEN [Free EXCEPT !.stat = "SRUN", !.pid = 1, !.ppid = 0] ELSE Free]
    BY DEF Init
  <2>2. proc[1] = [stat |-> "SRUN", pid |-> 1, ppid |-> 0, sig |-> SIGNUL, addr |-> Memory]
    BY <1>1, <2>1 DEF Free
  <2>3. 1 \in 0..MaxPid /\ 0 \in -1..MaxPid
    BY <1>1
  <2>4. proc[1] \in Entries
    BY <2>2, <2>3 DEF Entries
  <2>5. \A i \in Slots \ {1} : proc[i] = Free
    BY <2>1
  <2>6. proc = [i \in Slots |-> proc[i]]
    BY <2>1
  <2> QED BY <1>1, <2>2, <2>4, <2>5, <2>6 DEF Init
<1>3. \A i \in Slots \ {1} : proc[i] \in Entries /\ proc[i].stat = "SNULL"
                             /\ proc[i].pid = 0 /\ proc[i].ppid = -1
  BY <1>1, <1>2 DEF Free, Entries
<1>4. TypeOK
  <2>1. proc \in [Slots -> Entries]
    BY <1>2, <1>3
  <2>2. /\ handler \in [Slots -> Handlers] /\ cpu \in Slots \cup {NoProc}
        /\ reap \in [Slots -> Slots \cup {0}] /\ blk \in [Slots -> SwapBlocks \cup {0}]
        /\ pc \in [Slots -> {"none", "user", "trap", "exit", "bury", "panic", "wait", "slept",
                             "reap"}]
    BY DEF Init, Handlers
  <2>3. nextPid \in 2..(MaxPid + 1)
    BY <1>1, <1>2
  <2> QED BY <1>2, <2>1, <2>2, <2>3 DEF TypeOK, Entries
<1>5. StatesOK
  BY <1>2, <1>3 DEF StatesOK
<1>6. NumbersOK
  BY <1>2, <1>3 DEF NumbersOK
<1>7. LocalsOK
  BY <1>2 DEF LocalsOK
<1>8. /\ Stat("SZOMB") = {} /\ Stat("SWAIT") = {} /\ Live = {1} /\ Keepers = {}
  BY <1>1, <1>2, <1>3 DEF Stat, Live, Keepers
<1>9. WaitersHaveReason /\ OrphansAdopted
  BY <1>2, <1>8 DEF WaitersHaveReason, OrphansAdopted
<1>10. BlocksKept
  BY <1>2, <1>8 DEF BlocksKept
<1> QED BY <1>4, <1>5, <1>6, <1>7, <1>9, <1>10 DEF IInv

\* One lemma for each step that changes the table or a block, QuietStep for the others.
LEMMA NextInv == IInv /\ [Next]_vars => IInv'
<1> SUFFICES ASSUME IInv, [Next]_vars  PROVE IInv'
  OBVIOUS
<1>1. CASE UNCHANGED vars
  BY <1>1 DEF vars, IInv, TypeOK, StatesOK, NumbersOK, LocalsOK, WaitersHaveReason,
              OrphansAdopted, BlocksKept, Reused, Keepers, BlockOf, Stat, Live, Children,
              ZombiesOf
<1>2. ASSUME NEW p \in Slots, Call(p)  PROVE IInv'
  <2>1. Fork(p) \/ Kill(p) \/ Ssig(p) \/ Quiet(p)
    BY <1>2 DEF Call, Quiet
  <2> QED BY <2>1, ForkStep, SignalStep, QuietStep
<1>3. ASSUME NEW p \in Slots, Inside(p)  PROVE IInv'
  <2>1. CASE WaitSleeps(p)
    <3>1. CASE IsSig(p)
      BY <2>1, <3>1, QuietStep DEF WaitSleeps, Quiet
    <3> QED BY <2>1, <3>1, WaitSleepsStep
  <2>2. CASE Trap(p)
    <3>1. CASE IsSig(p)
      BY <2>2, <3>1, PSigStep DEF Trap, At
    <3>2. CASE ~IsSig(p)
      BY <2>2, <3>2, QuietStep DEF Trap, Quiet
    <3> QED BY <3>1, <3>2
  <2>3. ExitAlloc(p) \/ Bury(p) \/ WaitFinds(p) \/ WaitFrees(p) \/ WaitSleeps(p) \/ Trap(p)
        \/ Quiet(p)
    BY <1>3 DEF Inside, Quiet
  <2> QED BY <2>1, <2>2, <2>3, ExitAllocStep, BuryStep, WaitFindsStep, WaitFreesStep,
             QuietStep
<1>4. ASSUME NEW p \in Slots, Clock(p)  PROVE IInv'
  BY <1>4, PSigStep DEF Clock, At
<1> QED BY <1>1, <1>2, <1>3, <1>4 DEF Next

\* IInv holds before the first process forks and after every step of the table.
THEOREM Invariance == Spec => []IInv
BY InitHolds, NextInv, PTL DEF Spec

-----------------------------------------------------------------------------
(* The theorems *)

\* Each block that Exit has allocated has one keeper until Wait frees it
\* (Process.cpp:224-239, ProcessManager.cpp:353-361).
THEOREM SwapExactHolds == Spec => []SwapExact
<1>1. IInv => SwapExact
  BY DEF IInv, SwapExact
<1> QED BY <1>1, Invariance, PTL

\* Who sleeps in Wait has a child, and none that has exited, but for process 1
\* (ProcessManager.cpp:342-381, Process.cpp:242).
THEOREM WaitersHaveReasonHolds == Spec => []WaitersHaveReason
<1>1. IInv => WaitersHaveReason
  BY DEF IInv
<1> QED BY <1>1, Invariance, PTL

\* Whoever is in the table has a parent that can still call Wait, or process 1
\* (Process.cpp:258-268).
THEOREM OrphansAdoptedHolds == Spec => []OrphansAdopted
<1>1. IInv => OrphansAdopted
  BY DEF IInv
<1> QED BY <1>1, Invariance, PTL

=============================================================================
