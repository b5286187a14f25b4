--------------------------------- MODULE Alarm ---------------------------------
(*****************************************************************************)
(* sleep(seconds): SystemCall::Sys_Sslep, the end of a second in             *)
(* Time::Clock, and Sys_Stime.  All sleepers share one alarm, Time::tout:    *)
(* Clock compares it with the time for equality and wakes everybody, and who *)
(* is woken too soon sets it anew.                                           *)
(*                                                                           *)
(* The interrupts are off from the call to the first Sleep and on in the     *)
(* further turns of the loop, where each read or write of the time and of    *)
(* the alarm is a step.  cpu is the process that is in the loop: no other    *)
(* runs meanwhile, but the clock may interrupt it.                           *)
(*****************************************************************************)
EXTENDS Integers, FiniteSets

CONSTANTS Procs,     \* processes that call sleep
          NoProc,    \* no process is in the loop
          MaxTime,   \* bound on the time, and on the wake-up times
          MaxSleep,  \* bound on the seconds of a call
          StimeTime, \* what stime sets the time to: EAX, the number of the call
          MayStime,  \* is stime called?
          MaySignal  \* are signals sent to sleepers?

ASSUME AlarmAssumption ==
    /\ NoProc \notin Procs /\ MaxTime \in Nat /\ MaxSleep \in Nat
    /\ StimeTime \in 0..MaxTime /\ MayStime \in BOOLEAN /\ MaySignal \in BOOLEAN

VARIABLES time,      \* Time::time
          tout,      \* Time::tout
          wakeTime,  \* wakeTime of each caller
          pc,        \* where a process is
          sig,       \* processes that have a signal
          cpu,       \* the process in the loop, or NoProc
          missed     \* time changed under a process about to sleep (history)

vars == <<time, tout, wakeTime, pc, sig, cpu, missed>>

Put(f, p, v) == [f EXCEPT ![p] = v]
Asleep       == {p \in Procs : pc[p] = "asleep"}

At(p, label)      == pc[p] = label /\ cpu \in {p, NoProc}
GoOn(p, label)    == pc' = Put(pc, p, label) /\ cpu' = p
SleepAt(p, label) == pc' = Put(pc, p, label) /\ cpu' = NoProc

Return(p) ==
    /\ SleepAt(p, "user")
    /\ wakeTime' = Put(wakeTime, p, 0)
    /\ sig' = sig \ {p}

Init ==
    /\ time = 0 /\ tout = 0
    /\ wakeTime = [p \in Procs |-> 0] /\ pc = [p \in Procs |-> "user"]
    /\ sig = {} /\ cpu = NoProc
    /\ missed = FALSE

-----------------------------------------------------------------------------
(* Sys_Sslep *)

\* Mutant: an alarm that is later than this one would be left.
ToSetIfPast(w) == tout <= time

\* Is the alarm to be set to w: is it past, or later than w?
ToSet(w) == tout <= time \/ tout > w

\* The call, up to its first Sleep.  A call for 0 seconds returns.
Sslep(p, n) ==
    /\ At(p, "user") /\ n > 0 /\ time + n <= MaxTime
    /\ wakeTime' = Put(wakeTime, p, time + n)
    /\ tout' = IF ToSet(time + n) THEN time + n ELSE tout
    /\ SleepAt(p, "asleep")
    /\ UNCHANGED <<time, sig, missed>>

\* Sleep returns: by aRetU if there is a signal.
Wakes(p) ==
    /\ At(p, "woken")
    /\ \/ p \in sig /\ Return(p)
       \/ p \notin sig /\ GoOn(p, "loop") /\ UNCHANGED <<wakeTime, sig>>
    /\ UNCHANGED <<time, tout, missed>>

\* while ( wakeTime > Time::time )
Loop(p) ==
    /\ At(p, "loop")
    /\ \/ wakeTime[p] <= time /\ Return(p)
       \/ wakeTime[p] > time /\ GoOn(p, "test") /\ UNCHANGED <<wakeTime, sig>>
    /\ UNCHANGED <<time, tout, missed>>

Test(p) ==
    /\ At(p, "test")
    /\ GoOn(p, IF ToSet(wakeTime[p]) THEN "set" ELSE "sleep")
    /\ UNCHANGED <<time, tout, wakeTime, sig, missed>>

Set(p) ==
    /\ At(p, "set")
    /\ tout' = wakeTime[p]
    /\ GoOn(p, "sleep")
    /\ UNCHANGED <<time, wakeTime, sig, missed>>

Nods(p) ==
    /\ At(p, "sleep")
    /\ SleepAt(p, "asleep")
    /\ UNCHANGED <<time, tout, wakeTime, sig, missed>>

-----------------------------------------------------------------------------
(* The clock, stime and signals *)

\* Mutant: one sleeper would be woken, not all of them.
WokenOne == IF Asleep = {} THEN {} ELSE {CHOOSE p \in Asleep : TRUE}

\* WakeUpAll(&Time::tout)
Woken == Asleep

Wake(ps) == pc' = [p \in Procs |-> IF p \in ps THEN "woken" ELSE pc[p]]

AboutToSleep == \E p \in Procs : pc[p] \in {"test", "set", "sleep"}

\* The end of a second.
Clock ==
    /\ time < MaxTime
    /\ time' = time + 1
    /\ IF time + 1 = tout THEN Wake(Woken) ELSE UNCHANGED pc
    /\ missed' = (missed \/ AboutToSleep)
    /\ UNCHANGED <<tout, wakeTime, sig, cpu>>

\* Sys_Stime sets the time, and leaves the alarm as it is.
Stime ==
    /\ MayStime /\ cpu = NoProc
    /\ time' = StimeTime
    /\ missed' = (missed \/ \E p \in Procs : pc[p] # "user")
    /\ UNCHANGED <<tout, wakeTime, pc, sig, cpu>>

\* PSignal: a sleeper is woken.
Signal(p) ==
    /\ MaySignal /\ cpu = NoProc /\ pc[p] \in {"asleep", "woken"}
    /\ sig' = sig \cup {p}
    /\ Wake({p})
    /\ UNCHANGED <<time, tout, wakeTime, cpu, missed>>

-----------------------------------------------------------------------------
(* Specification *)

Inside(p) == Wakes(p) \/ Loop(p) \/ Test(p) \/ Set(p) \/ Nods(p)

Next == \/ \E p \in Procs : (\E n \in 1..MaxSleep : Sslep(p, n)) \/ Inside(p) \/ Signal(p)
        \/ Clock \/ Stime

Spec == Init /\ [][Next]_vars

\* The clock ticks; who has been woken runs (Select goes round the table).
Fairness == WF_vars(Clock) /\ \A p \in Procs : SF_vars(Inside(p))

FairSpec == Spec /\ Fairness

-----------------------------------------------------------------------------
(* Properties *)

\* The time, the alarm and the loop have values their types in Time.h allow.
TypeOK ==
    /\ time \in 0..MaxTime /\ tout \in 0..MaxTime
    /\ wakeTime \in [Procs -> 0..MaxTime]
    /\ pc \in [Procs -> {"user", "asleep", "woken", "loop", "test", "set", "sleep"}]
    /\ sig \subseteq Procs /\ cpu \in Procs \cup {NoProc}
    /\ missed \in BOOLEAN

\* The alarm is still to come and not later than any sleeper wants to be woken: so
\* Time::time == Time::tout will hold in time (TimeInterrupt.cpp:86; the comment at
\* SystemCall.cpp:574-579).
AlarmAhead == \A p \in Asleep : time < tout /\ tout <= wakeTime[p]

\* It is so unless the second ended, or the time was set, under a process in the loop.
AlarmAheadUnlessMissed == ~missed => AlarmAhead

\* The process in the loop, between its reads and writes of the time and the alarm.
LoopState == \A p \in Procs :
    /\ pc[p] \in {"loop", "test", "set", "sleep"} <=> cpu = p
    /\ pc[p] \in {"test", "set"} /\ ~missed => time < wakeTime[p]
    /\ pc[p] = "set" /\ ~missed => ToSet(wakeTime[p])
    /\ pc[p] = "sleep" /\ ~missed => time < tout /\ tout <= wakeTime[p]

\* What every step preserves: with it AlarmAheadUnlessMissed is inductive.
IInv == TypeOK /\ LoopState /\ AlarmAheadUnlessMissed

\* A call to sleep returns (Sys_Sslep with Time::Clock).
SleepEnds == \A p \in Procs : pc[p] = "asleep" ~> pc[p] = "user" \/ missed

=============================================================================
