--------------------------- MODULE IntervalTimer ---------------------------
(***************************************************************************)
(* The interval-mining thread of src/node/runtime.zig and the requests     *)
(* that start, stop and replace it: zevm_setIntervalMining and its kin     *)
(* (setMiningConfig), zevm_revert, zevm_reset, startup and shutdown.       *)
(*                                                                         *)
(* A request runs under runtime_mutex and joins the thread it stops; the   *)
(* thread takes the same mutex to mine, by polling, so that it notices the *)
(* stop flag while the stopping request holds the mutex.  There is one     *)
(* stop flag, shared by every thread ever started.                         *)
(*                                                                         *)
(* The mining configuration is its block time: 0 stands for auto and       *)
(* manual, which the timer does not tell apart.  Requests that leave the   *)
(* configuration alone only hold the mutex.                                *)
(***************************************************************************)
EXTENDS Naturals, FiniteSets

CONSTANTS
  Timer,        \* thread identities
  BlockTime,    \* interval block times
  Default,      \* configuration at startup and after a reset
  SpawnMayFail, \* whether the system may refuse a thread
  Rpc,          \* the request holding the mutex
  None

ASSUME TimerAssumption ==
  /\ Cardinality(Timer) >= 2
  /\ BlockTime \subseteq Nat \ {0}
  /\ Default \in BlockTime \cup {0}
  /\ SpawnMayFail \in BOOLEAN
  /\ Rpc \notin Timer
  /\ None \notin Timer \cup {Rpc}

VARIABLES
  mutex,         \* runtime_mutex: who holds it
  config,        \* mining_config
  handle,        \* interval_thread
  stopRequested, \* interval_stop_requested
  request,       \* the request in progress
  timer          \* each thread: where it is, and its block_time argument

vars == <<mutex, config, handle, stopRequested, request, timer>>

Kind == {"none", "startup", "set", "revert", "reset", "other", "shutdown"}

(* phase: stop, join and start are the steps of a request; restart is      *)
(* restart_interval_on_error; refused, that it fails for want of a thread. *)
Request == [phase : {"idle", "stop", "join", "apply", "start", "leave", "halted"},
            kind : Kind, target : BlockTime \cup {0}, restart : BOOLEAN,
            refused : BOOLEAN]

Thread == [at : {"done", "sleep", "lock", "check", "mine"},
           blockTime : BlockTime \cup {0}]

IdleRequest == [phase |-> "idle", kind |-> "none", target |-> 0,
                restart |-> FALSE, refused |-> FALSE]

Alive == {t \in Timer : timer[t].at # "done"}

(* Startup calls startBackgroundServices before any listener is up.        *)
Init ==
  /\ mutex = None
  /\ config = Default
  /\ handle = None
  /\ stopRequested = FALSE
  /\ request = [phase |-> "start", kind |-> "startup", target |-> Default,
                restart |-> FALSE, refused |-> FALSE]
  /\ timer = [t \in Timer |-> [at |-> "done", blockTime |-> 0]]

-----------------------------------------------------------------------------
(* A request. *)

(* dispatchMethod takes the mutex for the whole handler. *)
BeginRequest(kind, target) ==
  /\ request.phase = "idle"
  /\ mutex = None
  /\ mutex' = Rpc
  /\ request' = [phase |-> IF kind = "other" THEN "leave" ELSE "stop",
                 kind |-> kind, target |-> target, restart |-> handle # None,
                 refused |-> FALSE]
  /\ UNCHANGED <<config, handle, stopRequested, timer>>

(* deinit runs on the main thread, without the mutex. *)
BeginShutdown ==
  /\ request.phase = "idle"
  /\ request' = [IdleRequest EXCEPT !.phase = "stop", !.kind = "shutdown"]
  /\ UNCHANGED <<mutex, config, handle, stopRequested, timer>>

(* stopIntervalMiningTimer: no handle, nothing to stop; else raise the     *)
(* flag and wait for the thread.                                           *)
Stop ==
  /\ request.phase = "stop"
  /\ IF handle = None
       THEN /\ request' = [request EXCEPT !.phase = "apply"]
            /\ UNCHANGED stopRequested
       ELSE /\ request' = [request EXCEPT !.phase = "join"]
            /\ stopRequested' = TRUE
  /\ UNCHANGED <<mutex, config, handle, timer>>

(* Mutant of Join: the thread is told to stop but not waited for.          *)
JoinDetaches ==
  /\ request.phase = "join"
  /\ handle' = None
  /\ request' = [request EXCEPT !.phase = "apply"]
  /\ UNCHANGED <<mutex, config, stopRequested, timer>>

Join ==
  /\ request.phase = "join"
  /\ timer[handle].at = "done"
  /\ handle' = None
  /\ request' = [request EXCEPT !.phase = "apply"]
  /\ UNCHANGED <<mutex, config, stopRequested, timer>>

(* The new configuration: the one asked for, the snapshot's, the default.  *)
Apply ==
  /\ request.phase = "apply"
  /\ request.kind # "shutdown"
  /\ config' = request.target
  /\ request' = [request EXCEPT !.phase = "start"]
  /\ UNCHANGED <<mutex, handle, stopRequested, timer>>

(* Mutant of ResetFails: the error path leaves the timer stopped.          *)
ResetFailsStopped ==
  /\ request.phase = "apply"
  /\ request.kind = "reset"
  /\ request' = [request EXCEPT !.phase = "leave"]
  /\ UNCHANGED <<mutex, config, handle, stopRequested, timer>>

(* reset fails on its fork configuration: it restarts what it stopped.     *)
ResetFails ==
  /\ request.phase = "apply"
  /\ request.kind = "reset"
  /\ request' = [request EXCEPT !.phase = IF request.restart THEN "start" ELSE "leave"]
  /\ UNCHANGED <<mutex, config, handle, stopRequested, timer>>

(* startIntervalMiningTimer, called for an interval configuration only. *)
Start ==
  /\ request.phase = "start"
  /\ IF config = 0 \/ handle # None
       THEN /\ request' = [request EXCEPT !.phase = "leave"]
            /\ UNCHANGED <<handle, stopRequested, timer>>
       ELSE /\ stopRequested' = FALSE
            /\ \E t \in Timer \ Alive :
                 /\ handle' = t
                 /\ timer' = [timer EXCEPT ![t] = [at |-> "sleep", blockTime |-> config]]
            /\ request' = [request EXCEPT !.phase = "leave"]
  /\ UNCHANGED <<mutex, config>>

(* A refused thread is the request's error; it ends a process starting up. *)
SpawnFails ==
  /\ SpawnMayFail
  /\ request.phase = "start"
  /\ config # 0 /\ handle = None
  /\ stopRequested' = FALSE
  /\ request' = [request EXCEPT !.phase =
                   IF request.kind = "startup" THEN "halted" ELSE "leave",
                            !.refused = TRUE]
  /\ UNCHANGED <<mutex, config, handle, timer>>

EndRequest ==
  /\ request.phase = "leave"
  /\ mutex' = IF mutex = Rpc THEN None ELSE mutex
  /\ request' = IdleRequest
  /\ UNCHANGED <<config, handle, stopRequested, timer>>

EndShutdown ==
  /\ request.phase = "apply"
  /\ request.kind = "shutdown"
  /\ request' = [request EXCEPT !.phase = "halted"]
  /\ UNCHANGED <<mutex, config, handle, stopRequested, timer>>

RequestStep ==
  \/ Stop \/ Join \/ Apply \/ ResetFails \/ Start \/ SpawnFails
  \/ EndRequest \/ EndShutdown

-----------------------------------------------------------------------------
(* The thread: intervalMiningLoop. *)

Goto(t, place) == timer' = [timer EXCEPT ![t].at = place]

(* sleepUntilIntervalStop *)
Wake(t) ==
  /\ timer[t].at = "sleep"
  /\ Goto(t, IF stopRequested THEN "done" ELSE "lock")
  /\ UNCHANGED <<mutex, config, handle, stopRequested, request>>

(* Mutant of TryLock: a blocking lock, deaf to the stop flag.              *)
BlockingLock(t) ==
  /\ timer[t].at = "lock"
  /\ mutex = None
  /\ mutex' = t
  /\ Goto(t, "check")
  /\ UNCHANGED <<config, handle, stopRequested, request>>

(* lockRuntimeUntilIntervalStop: one round of tryLock that gets somewhere. *)
TryLock(t) ==
  /\ timer[t].at = "lock"
  /\ \/ /\ stopRequested
        /\ Goto(t, "done")
        /\ UNCHANGED mutex
     \/ /\ ~stopRequested
        /\ mutex = None
        /\ mutex' = t
        /\ Goto(t, "check")
  /\ UNCHANGED <<config, handle, stopRequested, request>>

(* Under the mutex: stopped meanwhile, or reconfigured, the thread ends.   *)
Check(t) ==
  /\ timer[t].at = "check"
  /\ IF stopRequested \/ config # timer[t].blockTime
       THEN /\ mutex' = None
            /\ Goto(t, "done")
       ELSE /\ UNCHANGED mutex
            /\ Goto(t, "mine")
  /\ UNCHANGED <<config, handle, stopRequested, request>>

(* mineIntervalTick (NodeRuntime!Tick); its error is logged only. *)
MineTick(t) ==
  /\ timer[t].at = "mine"
  /\ mutex' = None
  /\ Goto(t, IF stopRequested THEN "done" ELSE "sleep")
  /\ UNCHANGED <<config, handle, stopRequested, request>>

TimerStep(t) == Wake(t) \/ TryLock(t) \/ Check(t) \/ MineTick(t)

-----------------------------------------------------------------------------
Next ==
  \/ \E k \in {"set", "revert"}, b \in BlockTime \cup {0} : BeginRequest(k, b)
  \/ BeginRequest("reset", Default)
  \/ BeginRequest("other", 0)
  \/ BeginShutdown
  \/ RequestStep
  \/ \E t \in Timer : TimerStep(t)

(* Every thread keeps running.  Taking the mutex is by polling on one side *)
(* and an unfair lock on the other: no strong fairness is assumed.         *)
Fairness == WF_vars(RequestStep) /\ \A t \in Timer : WF_vars(TimerStep(t))
Spec == Init /\ [][Next]_vars /\ Fairness

-----------------------------------------------------------------------------
(* Properties. *)

(* The variables have their types, and the mutex is not left held by a     *)
(* request that is over.                                                   *)
TypeOK ==
  /\ mutex \in Timer \cup {Rpc, None}
  /\ config \in BlockTime \cup {0}
  /\ handle \in Timer \cup {None}
  /\ stopRequested \in BOOLEAN
  /\ request \in Request
  /\ timer \in [Timer -> Thread]
  /\ mutex = Rpc => request.phase # "idle"

(* At most one timer thread runs, and it is the one the runtime holds the  *)
(* handle of: the stop flag is lowered again for the next thread, which    *)
(* would revive a thread that was told to stop and not waited for.         *)
OneTimer == Alive \subseteq {handle}

(* A tick mines only for the thread the runtime owns, with the mutex and   *)
(* at the block time configured now: no tick after the call that stopped   *)
(* interval mining returned, none at a replaced cadence.                   *)
TickIsCurrent ==
  [][\A t \in Timer : MineTick(t) =>
       /\ handle = t
       /\ mutex = t
       /\ config = timer[t].blockTime]_vars

(* Once a request that touches the timer is done, interval mining is       *)
(* configured iff a thread runs for it, at the configured block time: a    *)
(* revert to an interval snapshot brings its timer back, and so does a     *)
(* reset that fails.  (Unless the system refused the thread; a reset with  *)
(* no timer to put back may find one missing since such a refusal.)        *)
TimerMatchesConfig ==
  /\ request.phase = "leave"
  /\ request.kind # "other"
  /\ request.kind = "reset" => request.restart
  /\ ~request.refused
  =>
    IF config = 0
      THEN handle = None
      ELSE /\ handle # None
           /\ timer[handle].at # "done"
           /\ timer[handle].blockTime = config

(* A request returns: joining the thread under the mutex it polls for does *)
(* not deadlock, and shutting down during a tick waits the tick out.       *)
RequestReturns == request.phase # "idle" ~> request.phase \in {"idle", "halted"}
=============================================================================
