------------------------ MODULE IntervalTimerProofs ------------------------
(***************************************************************************)
(* Proofs about IntervalTimer, for any number of threads and block times:  *)
(* one timer runs at a time, it mines only while it is the current one and  *)
(* holds the mutex, and a request leaves it as the configuration says.     *)
(***************************************************************************)
EXTENDS IntervalTimer, TLAPS

(* The invariant that is inductive.  The configuration is only written     *)
(* while no thread exists (NoThreadWhileApplying), which is what keeps a   *)
(* thread about to mine current (MiningIsCurrent).                         *)
NoThreadWhileApplying == request.phase \in {"apply", "start"} => handle = None
MutexIsHeld == \A t \in Timer : timer[t].at \in {"check", "mine"} => mutex = t
MiningIsCurrent == \A t \in Timer : timer[t].at = "mine" => config = timer[t].blockTime

(* The owned thread runs at the configured cadence and nobody has asked it *)
(* to stop, except while a request waits for it to end: no other step may  *)
(* make it leave its loop.                                                 *)
OwnedThreadRuns ==
  handle # None /\ request.phase # "join" =>
    /\ ~stopRequested
    /\ timer[handle].at # "done"
    /\ timer[handle].blockTime = config
(* A request only waits for a thread there is. *)
SomeoneToJoin == request.phase = "join" => handle # None

Inv ==
  /\ TypeOK
  /\ OneTimer
  /\ NoThreadWhileApplying
  /\ MutexIsHeld
  /\ MiningIsCurrent
  /\ OwnedThreadRuns
  /\ SomeoneToJoin
  /\ TimerMatchesConfig

(* The variables keep their types. *)
LEMMA TypeInit == Init => TypeOK
<1> SUFFICES ASSUME Init PROVE TypeOK
  OBVIOUS
<1>1. request \in Request
  BY TimerAssumption DEF Init, Request, Kind
<1>2. timer \in [Timer -> Thread]
  BY DEF Init, Thread
<1> QED
  BY <1>1, <1>2, TimerAssumption DEF Init, TypeOK

LEMMA TypeStep == TypeOK /\ [Next]_vars => TypeOK'
<1> SUFFICES ASSUME TypeOK, [Next]_vars PROVE TypeOK'
  OBVIOUS
<1> USE TimerAssumption DEF TypeOK, Request, Thread
<1>1. ASSUME NEW k \in {"set", "revert", "reset", "other"}, NEW b \in BlockTime \cup {0},
             BeginRequest(k, b)
      PROVE TypeOK'
  BY <1>1 DEF BeginRequest, Kind
<1>2. CASE BeginShutdown
  BY <1>2 DEF BeginShutdown, IdleRequest, Kind
<1>3. CASE Stop
  <2>1. /\ request' \in Request /\ request'.phase # "idle"
        /\ stopRequested' \in BOOLEAN
        /\ UNCHANGED <<mutex, config, handle, timer>>
    <3>1. CASE handle = None
      BY <1>3, <3>1 DEF Stop
    <3>2. CASE handle # None
      BY <1>3, <3>2 DEF Stop
    <3> QED
      BY <3>1, <3>2
  <2>2. mutex' = Rpc => request'.phase # "idle"
    BY <2>1
  <2> QED
    BY <2>1, <2>2
<1>4. CASE Join
  BY <1>4 DEF Join
<1>5. CASE Apply
  BY <1>5 DEF Apply
<1>6. CASE ResetFails
  BY <1>6 DEF ResetFails
<1>7. CASE Start
  <2>1. CASE config = 0 \/ handle # None
    BY <1>7, <2>1 DEF Start
  <2>2. CASE ~(config = 0 \/ handle # None)
    <3>1. PICK t \in Timer \ Alive :
            /\ handle' = t
            /\ timer' = [timer EXCEPT ![t] = [at |-> "sleep", blockTime |-> config]]
      BY <1>7, <2>2 DEF Start
    <3>2. timer' \in [Timer -> Thread]
      BY <3>1
    <3>3. request' \in Request
      BY <1>7, <2>2 DEF Start
    <3> QED
      BY <1>7, <2>2, <3>1, <3>2, <3>3 DEF Start
  <2> QED
    BY <2>1, <2>2
<1>8. CASE SpawnFails
  BY <1>8 DEF SpawnFails
<1>9. CASE EndRequest
  BY <1>9 DEF EndRequest, IdleRequest, Kind
<1>10. CASE EndShutdown
  BY <1>10 DEF EndShutdown
<1>11. ASSUME NEW t \in Timer, TimerStep(t)
       PROVE TypeOK'
  BY <1>11 DEF TimerStep, Wake, TryLock, Check, MineTick, Goto
<1>12. CASE UNCHANGED vars
  BY <1>12 DEF vars
<1> HIDE DEF TypeOK, Request, Thread
<1> QED
  BY <1>1, <1>2, <1>3, <1>4, <1>5, <1>6, <1>7, <1>8, <1>9, <1>10, <1>11, <1>12
     DEF Next, RequestStep

(* A thread is stopped and joined before the next one starts. *)
LEMMA InvInit == Init => Inv
  BY TypeInit, TimerAssumption
     DEF Init, Inv, OneTimer, Alive, NoThreadWhileApplying, MutexIsHeld, MiningIsCurrent,
         OwnedThreadRuns, SomeoneToJoin, TimerMatchesConfig

LEMMA InvStep == Inv /\ [Next]_vars => Inv'
<1> SUFFICES ASSUME Inv, [Next]_vars PROVE Inv'
  OBVIOUS
<1>0. TypeOK'
  BY TypeStep DEF Inv
<1> USE TimerAssumption, <1>0
    DEF Inv, OneTimer, Alive, NoThreadWhileApplying, MutexIsHeld, MiningIsCurrent,
         OwnedThreadRuns, SomeoneToJoin, TimerMatchesConfig
<1>1. ASSUME NEW k \in {"set", "revert", "reset", "other"}, NEW b \in BlockTime \cup {0},
             BeginRequest(k, b)
      PROVE Inv'
  BY <1>1 DEF BeginRequest, TypeOK, Request
<1>2. CASE BeginShutdown
  BY <1>2 DEF BeginShutdown, IdleRequest, TypeOK, Request
<1>3. CASE Stop
  BY <1>3 DEF Stop, TypeOK, Request
<1>4. CASE Join
  BY <1>4 DEF Join, TypeOK, Request
<1>5. CASE Apply
  BY <1>5 DEF Apply, TypeOK, Request
<1>6. CASE ResetFails
  BY <1>6 DEF ResetFails, TypeOK, Request
<1>7. CASE Start
  BY <1>7 DEF Start, TypeOK, Request, Thread
<1>8. CASE SpawnFails
  BY <1>8 DEF SpawnFails, TypeOK, Request
<1>9. CASE EndRequest
  BY <1>9 DEF EndRequest, IdleRequest, TypeOK, Request
<1>10. CASE EndShutdown
  BY <1>10 DEF EndShutdown, TypeOK, Request
<1>11. ASSUME NEW t \in Timer, TimerStep(t)
       PROVE Inv'
  <2>1. CASE Wake(t)
    BY <2>1 DEF Wake, Goto, TypeOK, Thread
  <2>2. CASE TryLock(t)
    BY <2>2 DEF TryLock, Goto, TypeOK, Thread
  <2>3. CASE Check(t)
    BY <2>3 DEF Check, Goto, TypeOK, Thread
  <2>4. CASE MineTick(t)
    BY <2>4 DEF MineTick, Goto, TypeOK, Thread
  <2> QED
    BY <1>11, <2>1, <2>2, <2>3, <2>4 DEF TimerStep
<1>12. CASE UNCHANGED vars
  BY <1>12 DEF vars
<1> QED
  BY <1>1, <1>2, <1>3, <1>4, <1>5, <1>6, <1>7, <1>8, <1>9, <1>10, <1>11, <1>12
     DEF Next, RequestStep

(* The invariant holds throughout. *)
THEOREM Invariance == Spec => []Inv
  BY InvInit, InvStep, PTL DEF Spec

(* The variables keep their types, whatever requests, ticks and threads    *)
(* come in between.                                                        *)
THEOREM TypeCorrect == Spec => []TypeOK
  BY Invariance, PTL DEF Inv

(* At most one timer thread runs, the one the runtime owns: raising and    *)
(* lowering the one stop flag never revives a thread told to stop.         *)
THEOREM OneTimerRuns == Spec => []OneTimer
  BY Invariance, PTL DEF Inv

(* A tick mines only for the owned thread, under the mutex, at the block   *)
(* time configured now.                                                    *)
THEOREM TicksAreCurrent == Spec => TickIsCurrent
<1>1. Inv /\ [Next]_vars =>
        [\A t \in Timer : MineTick(t) =>
           /\ handle = t
           /\ mutex = t
           /\ config = timer[t].blockTime]_vars
  BY DEF Inv, OneTimer, Alive, MutexIsHeld, MiningIsCurrent, MineTick
<1> QED
  BY <1>1, Invariance, PTL DEF Spec, TickIsCurrent

(* Whenever a request that touches the timer is done, a thread runs iff    *)
(* interval mining is configured, at the configured block time: through    *)
(* replaced and repeated cadences, reverts, failed resets and ticks that   *)
(* are in the middle of a block.                                           *)
THEOREM TimerFollowsConfig == Spec => []TimerMatchesConfig
  BY Invariance, PTL DEF Inv
=============================================================================
