----------------------------- MODULE RpcServer -----------------------------
(***************************************************************************)
(* The listener of src/rpc/server.zig: an accept thread that takes a       *)
(* connection slot, accepts, registers the connection and detaches a       *)
(* thread for it; the connection threads; and stop(), which the owner      *)
(* calls on a thread of its own.                                           *)
(*                                                                         *)
(* What a request does is left to the dispatcher: here a connection reads, *)
(* handles and answers.  A client may go on sending up to MaxRequests      *)
(* requests, go away, or fall silent, and the read timeout ends it then.   *)
(***************************************************************************)
EXTENDS Naturals, Sequences, FiniteSets

CONSTANTS
  Client,       \* client connections
  Waker,        \* the connection stop() makes to itself
  None,
  MaxActive,    \* max_active_connections
  MaxRequests,  \* bound on the requests of one connection
  SpawnMayFail  \* whether the system may refuse a thread

ASSUME ServerAssumption ==
  /\ Waker \notin Client
  /\ None \notin Client \cup {Waker}
  /\ MaxActive \in Nat \ {0}
  /\ MaxRequests \in Nat
  /\ SpawnMayFail \in BOOLEAN

VARIABLES
  stopRequested, \* stop_requested
  stopper,       \* where stop() is
  acceptor,      \* where acceptLoop is
  accepted,      \* the connection acceptLoop works on
  backlog,       \* connections made and not yet accepted
  slots,         \* permits of connection_slots
  active,        \* the list at active_head; its size is active_connections
  thread,        \* where each connection's thread is
  shut,          \* connections whose sockets shutdownActiveConnections hit
  requests       \* requests each connection has sent

vars == <<stopRequested, stopper, acceptor, accepted, backlog, slots, active,
          thread, shut, requests>>
acceptVars == <<acceptor, accepted, backlog>>

Init ==
  /\ stopRequested = FALSE
  /\ stopper = "running"
  /\ acceptor = "top"
  /\ accepted = None
  /\ backlog = <<>>
  /\ slots = MaxActive
  /\ active = {}
  /\ thread = [c \in Client |-> "none"]
  /\ shut = {}
  /\ requests = [c \in Client |-> 0]

-----------------------------------------------------------------------------
(* acceptLoop. *)

Close(c) ==
  thread' = IF c \in Client THEN [thread EXCEPT ![c] = "gone"] ELSE thread

(* waitForConnectionSlot: gives up when it sees the flag. *)
TakeSlot ==
  /\ acceptor = "top"
  /\ slots > 0
  /\ slots' = slots - 1
  /\ acceptor' = "accept"
  /\ UNCHANGED <<stopRequested, stopper, accepted, backlog, active, thread, shut, requests>>

LeaveLoop ==
  /\ acceptor = "top"
  /\ stopRequested
  /\ acceptor' = "done"
  /\ UNCHANGED <<stopRequested, stopper, accepted, backlog, slots, active, thread, shut, requests>>

Accept ==
  /\ acceptor = "accept"
  /\ backlog # <<>>
  /\ accepted' = Head(backlog)
  /\ backlog' = Tail(backlog)
  /\ acceptor' = "check"
  /\ UNCHANGED <<stopRequested, stopper, slots, active, thread, shut, requests>>

(* Mutants of AcceptFails: the slot is kept; the loop ends.                *)
AcceptFailsKeepsSlot ==
  /\ acceptor = "accept"
  /\ backlog # <<>>
  /\ Head(backlog) # Waker
  /\ backlog' = Tail(backlog)
  /\ acceptor' = IF stopRequested THEN "done" ELSE "top"
  /\ Close(Head(backlog))
  /\ UNCHANGED <<stopRequested, stopper, accepted, slots, active, shut, requests>>

AcceptFailsForGood ==
  /\ acceptor = "accept"
  /\ backlog # <<>>
  /\ Head(backlog) # Waker
  /\ backlog' = Tail(backlog)
  /\ slots' = slots + 1
  /\ acceptor' = "done"
  /\ Close(Head(backlog))
  /\ UNCHANGED <<stopRequested, stopper, accepted, active, shut, requests>>

(* accept fails: the peer of a waiting connection is gone. *)
AcceptFails ==
  /\ acceptor = "accept"
  /\ backlog # <<>>
  /\ Head(backlog) # Waker
  /\ backlog' = Tail(backlog)
  /\ slots' = slots + 1
  /\ acceptor' = IF stopRequested THEN "done" ELSE "top"
  /\ Close(Head(backlog))
  /\ UNCHANGED <<stopRequested, stopper, accepted, active, shut, requests>>

(* The flag is looked at once more after accept. *)
CheckStop ==
  /\ acceptor = "check"
  /\ IF stopRequested
       THEN /\ slots' = slots + 1
            /\ acceptor' = "done"
            /\ accepted' = None
            /\ Close(accepted)
       ELSE /\ acceptor' = "register"
            /\ UNCHANGED <<slots, accepted, thread>>
  /\ UNCHANGED <<stopRequested, stopper, backlog, active, shut, requests>>

(* registerConnection, under active_mutex. *)
Register ==
  /\ acceptor = "register"
  /\ active' = active \cup {accepted}
  /\ acceptor' = "spawn"
  /\ UNCHANGED <<stopRequested, stopper, accepted, backlog, slots, thread, shut, requests>>

SpawnThread ==
  /\ acceptor = "spawn"
  /\ thread' = [thread EXCEPT ![accepted] = "read"]
  /\ acceptor' = "top"
  /\ accepted' = None
  /\ UNCHANGED <<stopRequested, stopper, backlog, slots, active, shut, requests>>

(* The errdefers of spawnConnection: unregisterConnection gives the slot   *)
(* back, the one posting it directly is off after registering.             *)
SpawnFails ==
  /\ SpawnMayFail
  /\ acceptor = "spawn"
  /\ active' = active \ {accepted}
  /\ slots' = slots + 1
  /\ thread' = [thread EXCEPT ![accepted] = "gone"]
  /\ acceptor' = "top"
  /\ accepted' = None
  /\ UNCHANGED <<stopRequested, stopper, backlog, shut, requests>>

AcceptStep ==
  \/ TakeSlot \/ LeaveLoop \/ Accept \/ AcceptFails \/ CheckStop \/ Register
  \/ SpawnThread \/ SpawnFails

-----------------------------------------------------------------------------
(* connectionThread of connection c. *)

Goto(c, place) == thread' = [thread EXCEPT ![c] = place]

(* receiveHead delivers a request; on a socket shut down it cannot. *)
Receive(c) ==
  /\ thread[c] = "read"
  /\ c \notin shut
  /\ requests[c] < MaxRequests
  /\ requests' = [requests EXCEPT ![c] = @ + 1]
  /\ Goto(c, "handle")
  /\ UNCHANGED <<stopRequested, stopper, acceptVars, slots, active, shut>>

(* The answer is written: the connection is kept alive, unless the request *)
(* was refused, or the write fails.                                        *)
Respond(c) ==
  /\ thread[c] = "handle"
  /\ \/ c \notin shut /\ Goto(c, "read")
     \/ Goto(c, "unregister")
  /\ UNCHANGED <<stopRequested, stopper, acceptVars, slots, active, shut, requests>>

(* The client closes, the socket is shut down, or the read timeout passes. *)
ReadEnds(c) ==
  /\ thread[c] = "read"
  /\ Goto(c, "unregister")
  /\ UNCHANGED <<stopRequested, stopper, acceptVars, slots, active, shut, requests>>

(* The deferred calls run last to first: unregisterConnection, then the    *)
(* stream closes, then the context is freed through server.allocator.      *)
Unregister(c) ==
  /\ thread[c] = "unregister"
  /\ active' = active \ {c}
  /\ slots' = slots + 1
  /\ Goto(c, "free")
  /\ UNCHANGED <<stopRequested, stopper, acceptVars, shut, requests>>

Free(c) ==
  /\ thread[c] = "free"
  /\ Goto(c, "gone")
  /\ UNCHANGED <<stopRequested, stopper, acceptVars, slots, active, shut, requests>>

ThreadStep(c) == Receive(c) \/ Respond(c) \/ ReadEnds(c) \/ Unregister(c) \/ Free(c)

-----------------------------------------------------------------------------
(* stop(). *)

RequestStop ==
  /\ stopper = "running"
  /\ stopRequested' = TRUE
  /\ stopper' = "wake"
  /\ UNCHANGED <<acceptVars, slots, active, thread, shut, requests>>

(* Mutant of UnblockAccept: nobody connects.                               *)
LeaveBlocked ==
  /\ stopper = "wake"
  /\ stopper' = "shutdown"
  /\ UNCHANGED <<stopRequested, acceptVars, slots, active, thread, shut, requests>>

UnblockAccept ==
  /\ stopper = "wake"
  /\ backlog' = Append(backlog, Waker)
  /\ stopper' = "shutdown"
  /\ UNCHANGED <<stopRequested, acceptor, accepted, slots, active, thread, shut, requests>>

ShutdownActive ==
  /\ stopper = "shutdown"
  /\ shut' = shut \cup active
  /\ stopper' = "join"
  /\ UNCHANGED <<stopRequested, acceptVars, slots, active, thread, requests>>

JoinAcceptor ==
  /\ stopper = "join"
  /\ acceptor = "done"
  /\ stopper' = "wait"
  /\ UNCHANGED <<stopRequested, acceptVars, slots, active, thread, shut, requests>>

(* Mutant of WaitForConnections: it does not wait.                         *)
WaitForNobody ==
  /\ stopper = "wait"
  /\ stopper' = "stopped"
  /\ UNCHANGED <<stopRequested, acceptVars, slots, active, thread, shut, requests>>

WaitForConnections ==
  /\ stopper = "wait"
  /\ active = {}
  /\ stopper' = "stopped"
  /\ UNCHANGED <<stopRequested, acceptVars, slots, active, thread, shut, requests>>

StopStep == UnblockAccept \/ ShutdownActive \/ JoinAcceptor \/ WaitForConnections

-----------------------------------------------------------------------------
(* A client connects, once each, while the listener is open. *)
Connect(c) ==
  /\ thread[c] = "none"
  /\ stopper # "stopped"
  /\ Goto(c, "queued")
  /\ backlog' = Append(backlog, c)
  /\ UNCHANGED <<stopRequested, stopper, acceptor, accepted, slots, active, shut, requests>>

Next ==
  \/ AcceptStep
  \/ \E c \in Client : Connect(c) \/ ThreadStep(c)
  \/ RequestStop
  \/ StopStep

(* Every thread runs; a read ends at the latest by its timeout. *)
Fairness ==
  /\ WF_vars(AcceptStep)
  /\ WF_vars(StopStep)
  /\ \A c \in Client : WF_vars(ThreadStep(c))
Spec == Init /\ [][Next]_vars /\ Fairness

-----------------------------------------------------------------------------
(* Properties. *)

(* The variables have their types. *)
TypeOK ==
  /\ stopRequested \in BOOLEAN
  /\ stopper \in {"running", "wake", "shutdown", "join", "wait", "stopped"}
  /\ acceptor \in {"top", "accept", "check", "register", "spawn", "done"}
  /\ accepted \in Client \cup {Waker, None}
  /\ backlog \in Seq(Client \cup {Waker})
  /\ slots \in 0..MaxActive
  /\ active \subseteq Client
  /\ thread \in [Client -> {"none", "queued", "read", "handle", "unregister", "free", "gone"}]
  /\ shut \subseteq Client
  /\ requests \in [Client -> 0..MaxRequests]

(* Every connection slot is accounted for: free, held by the accept loop,  *)
(* or held by one registered connection.  A path that forgot to give one   *)
(* back would, after max_active_connections failures, refuse every client; *)
(* one that gave it back twice would lift the limit.                       *)
HeldByAcceptor ==
  IF acceptor \in {"accept", "check", "register"} THEN 1 ELSE 0
SlotsBalance == slots + Cardinality(active) + HeldByAcceptor = MaxActive

(* stop() returns with no request being read or handled, and none to come. *)
StoppedIsQuiet ==
  stopper = "stopped" =>
    /\ acceptor = "done"
    /\ \A c \in Client : thread[c] \notin {"read", "handle", "unregister"}

(* stop() returns, if clients do not go on sending requests for ever.      *)
StopReturns == stopRequested ~> stopper = "stopped"

(* A client in the backlog is reached, or the server stops: slots come     *)
(* back however the connections before it end.                             *)
WaitingClientIsReached ==
  \A c \in Client : thread[c] = "queued" ~> (thread[c] # "queued" \/ stopRequested)
=============================================================================
