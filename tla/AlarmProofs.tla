------------------------------ MODULE AlarmProofs ------------------------------
(*****************************************************************************)
(* The alarm of sleep(seconds) for any number of processes and any times, by *)
(* the inductive invariant IInv of Alarm.                                    *)
(*****************************************************************************)
EXTENDS Alarm, TLAPS

LEMMA InitHolds == Init => IInv
<1> SUFFICES ASSUME Init  PROVE IInv
  OBVIOUS
<1>1. /\ time = 0 /\ tout = 0 /\ wakeTime = [p \in Procs |-> 0]
      /\ \A p \in Procs : pc[p] = "user"
      /\ cpu = NoProc /\ NoProc \notin Procs
  BY AlarmAssumption DEF Init
<1>2. TypeOK
  <2>1. /\ 0 \in 0..MaxTime /\ pc \in [Procs -> {"user"}]
        /\ sig = {} /\ missed = FALSE
    BY AlarmAssumption DEF Init, AlarmAssumption
  <2> QED BY <1>1, <2>1 DEF TypeOK
<1>3. LoopState
  BY <1>1 DEF LoopState
<1>4. AlarmAheadUnlessMissed
  BY <1>1 DEF AlarmAheadUnlessMissed, AlarmAhead, Asleep
<1> QED BY <1>2, <1>3, <1>4 DEF IInv

\* The steps of a caller: from the call to its first Sleep, and round the loop.
LEMMA TypeStep ==
    ASSUME TypeOK, Next
    PROVE  TypeOK'
<1> USE AlarmAssumption DEF TypeOK
<1>1. ASSUME NEW p \in Procs, NEW n \in 1..MaxSleep, Sslep(p, n)  PROVE TypeOK'
  BY <1>1 DEF Sslep, At, SleepAt, Put
<1>2. ASSUME NEW p \in Procs, Inside(p)  PROVE TypeOK'
  <2>1. CASE Wakes(p)
    BY <2>1 DEF Wakes, At, GoOn, SleepAt, Return, Put
  <2>2. CASE Loop(p)
    BY <2>2 DEF Loop, At, GoOn, SleepAt, Return, Put
  <2>3. CASE Test(p)
    BY <2>3 DEF Test, At, GoOn, Put
  <2>4. CASE Set(p)
    BY <2>4 DEF Set, At, GoOn, Put
  <2>5. CASE Nods(p)
    BY <2>5 DEF Nods, At, SleepAt, Put
  <2> QED BY <1>2, <2>1, <2>2, <2>3, <2>4, <2>5 DEF Inside
<1>3. ASSUME NEW p \in Procs, Signal(p)  PROVE TypeOK'
  BY <1>3 DEF Signal, Wake
<1>4. CASE Clock
  BY <1>4 DEF Clock, Wake
<1>5. CASE Stime
  BY <1>5 DEF Stime
<1> QED BY <1>1, <1>2, <1>3, <1>4, <1>5 DEF Next

\* A caller that falls asleep leaves the alarm ahead of all sleepers: it moves it only
\* if it was past, when nobody sleeps, or later than its own time.
LEMMA CallerStep ==
    ASSUME IInv, NEW p \in Procs, (\E n \in 1..MaxSleep : Sslep(p, n)) \/ Inside(p)
    PROVE  LoopState' /\ AlarmAheadUnlessMissed'
<1> USE AlarmAssumption
    DEF IInv, TypeOK, LoopState, AlarmAheadUnlessMissed, AlarmAhead, Asleep, Put, At
<1>1. ASSUME NEW n \in 1..MaxSleep, Sslep(p, n)
      PROVE  LoopState' /\ AlarmAheadUnlessMissed'
  <2>1. /\ cpu = NoProc /\ cpu' = NoProc /\ missed' = missed /\ time' = time
        /\ \A q \in Procs : pc[q] \notin {"loop", "test", "set", "sleep"}
        /\ \A q \in Procs : pc'[q] = IF q = p THEN "asleep" ELSE pc[q]
        /\ \A q \in Procs : wakeTime'[q] = IF q = p THEN time + n ELSE wakeTime[q]
    BY <1>1 DEF Sslep, SleepAt
  <2>2. tout' = IF tout <= time \/ tout > time + n THEN time + n ELSE tout
    BY <1>1 DEF Sslep, ToSet
  <2>3. LoopState'
    BY <2>1
  <2>4. ASSUME ~missed  PROVE AlarmAhead'
    BY <2>1, <2>2, <2>4
  <2> QED BY <2>1, <2>3, <2>4
<1>2. CASE Wakes(p)
  BY <1>2 DEF Wakes, GoOn, SleepAt, Return, ToSet
<1>3. CASE Loop(p)
  BY <1>3 DEF Loop, GoOn, SleepAt, Return, ToSet
<1>4. CASE Test(p)
  BY <1>4 DEF Test, GoOn, ToSet
<1>5. CASE Set(p)
  <2>1. /\ cpu = p /\ cpu' = p /\ missed' = missed /\ time' = time /\ wakeTime' = wakeTime
        /\ \A q \in Procs : pc'[q] = IF q = p THEN "sleep" ELSE pc[q]
        /\ tout' = wakeTime[p]
    BY <1>5 DEF Set, GoOn
  <2>2. ~missed => time < wakeTime[p] /\ (tout <= time \/ tout > wakeTime[p])
    BY <1>5 DEF Set, ToSet
  <2>3. \A q \in Procs : q # p => pc[q] \notin {"loop", "test", "set", "sleep"}
    BY <2>1
  <2>4. LoopState'
    BY <2>1, <2>2, <2>3
  <2>5. ASSUME ~missed  PROVE AlarmAhead'
    BY <2>1, <2>2, <2>5
  <2> QED BY <2>1, <2>4, <2>5
<1>6. CASE Nods(p)
  BY <1>6 DEF Nods, SleepAt, ToSet
<1> QED BY <1>1, <1>2, <1>3, <1>4, <1>5, <1>6 DEF Inside

\* The clock wakes everybody when it comes to the alarm, and only then is past it.
LEMMA ClockStep ==
    ASSUME IInv, Clock
    PROVE  LoopState' /\ AlarmAheadUnlessMissed'
<1> USE AlarmAssumption DEF IInv, TypeOK
<1>1. LoopState'
  BY DEF Clock, Wake, Woken, Asleep, LoopState, AboutToSleep, ToSet
<1>2. AlarmAheadUnlessMissed'
  <2>1. CASE time + 1 = tout
    BY <2>1 DEF Clock, Wake, Woken, Asleep, AlarmAheadUnlessMissed, AlarmAhead
  <2>2. CASE time + 1 # tout
    BY <2>2 DEF Clock, Asleep, AlarmAheadUnlessMissed, AlarmAhead
  <2> QED BY <2>1, <2>2
<1> QED BY <1>1, <1>2

LEMMA OtherStep ==
    ASSUME IInv, Stime \/ \E p \in Procs : Signal(p)
    PROVE  LoopState' /\ AlarmAheadUnlessMissed'
<1> USE AlarmAssumption
    DEF IInv, TypeOK, LoopState, AlarmAheadUnlessMissed, AlarmAhead, Asleep
<1>1. CASE Stime
  BY <1>1 DEF Stime, ToSet
<1>2. ASSUME NEW p \in Procs, Signal(p)  PROVE LoopState' /\ AlarmAheadUnlessMissed'
  BY <1>2 DEF Signal, Wake, ToSet
<1> QED BY <1>1, <1>2

\* IInv holds in every state of every system of this kind.
THEOREM Invariance == Spec => []IInv
<1>1. IInv /\ [Next]_vars => IInv'
  <2> SUFFICES ASSUME IInv, [Next]_vars  PROVE IInv'
    OBVIOUS
  <2>1. CASE UNCHANGED vars
    BY <2>1 DEF vars, IInv, TypeOK, LoopState, AlarmAheadUnlessMissed, AlarmAhead, Asleep, ToSet
  <2>2. CASE Next
    <3>1. TypeOK'
      BY <2>2, TypeStep DEF IInv
    <3>2. LoopState' /\ AlarmAheadUnlessMissed'
      BY <2>2, CallerStep, ClockStep, OtherStep DEF Next
    <3> QED BY <3>1, <3>2 DEF IInv
  <2> QED BY <2>1, <2>2
<1> QED BY <1>1, InitHolds, PTL DEF Spec

\* Time::tout is ahead of the time and not later than any sleeper's wakeTime, until a
\* second ends, or the time is set, under a process in the loop of Sys_Sslep.
THEOREM AlarmSafe == Spec => []AlarmAheadUnlessMissed
<1>1. IInv => AlarmAheadUnlessMissed
  BY DEF IInv
<1> QED BY <1>1, Invariance, PTL

=============================================================================
