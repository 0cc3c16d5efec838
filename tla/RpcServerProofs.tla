-------------------------- MODULE RpcServerProofs --------------------------
(***************************************************************************)
(* Proofs about RpcServer, for any clients and any number of slots: the    *)
(* types, the account of the connection slots, and what stop() may assume  *)
(* of the connections when it returns.                                     *)
(***************************************************************************)
EXTENDS RpcServer, FiniteSetTheorems, SequenceTheorems, TLAPS

-----------------------------------------------------------------------------
(* The inductive invariant. *)

Running == {c \in Client : thread[c] \in {"read", "handle", "unregister"}}

(* The connection stop() makes to itself is there only after the flag.     *)
WakerFollowsFlag ==
  /\ stopRequested <=> stopper # "running"
  /\ \A i \in 1..Len(backlog) : backlog[i] = Waker => stopRequested

(* A client waits in one place: once in the backlog, or with acceptLoop.   *)
WaitingIsUnique ==
  /\ \A i \in 1..Len(backlog) :
       backlog[i] # Waker => thread[backlog[i]] = "queued" /\ backlog[i] # accepted
  /\ \A i, j \in 1..Len(backlog) : backlog[i] = backlog[j] /\ i # j => backlog[i] = Waker

AcceptedIsQueued ==
  /\ acceptor \in {"top", "accept", "done"} => accepted = None
  /\ acceptor = "check" => accepted # None
  /\ acceptor = "check" /\ accepted = Waker => stopRequested
  /\ acceptor \in {"register", "spawn"} => accepted \in Client
  /\ accepted \in Client => thread[accepted] = "queued"

(* The list at active_head holds the connections whose threads run and the *)
(* one that is about to get a thread.                                      *)
ActiveIsRunning ==
  /\ IsFiniteSet(active)
  /\ active = Running \cup (IF acceptor = "spawn" THEN {accepted} ELSE {})

StopOrder ==
  /\ stopper \in {"wait", "stopped"} => acceptor = "done"
  /\ stopper = "stopped" => active = {}

Inv ==
  /\ TypeOK /\ WakerFollowsFlag /\ WaitingIsUnique /\ AcceptedIsQueued
  /\ ActiveIsRunning /\ SlotsBalance /\ StopOrder

-----------------------------------------------------------------------------
(* Lemmas. *)

(* Taking the first connection off the backlog.                            *)
LEMMA BacklogHead ==
  ASSUME TypeOK, backlog # <<>>
  PROVE  /\ 1 \in 1..Len(backlog)
         /\ Head(backlog) = backlog[1]
         /\ Head(backlog) \in Client \cup {Waker}
         /\ Tail(backlog) \in Seq(Client \cup {Waker})
         /\ Len(Tail(backlog)) = Len(backlog) - 1
         /\ \A i \in 1..Len(Tail(backlog)) :
              i + 1 \in 1..Len(backlog) /\ Tail(backlog)[i] = backlog[i + 1]
<1>1. backlog \in Seq(Client \cup {Waker}) /\ Len(backlog) \in Nat /\ Len(backlog) # 0
  BY EmptySeq, LenProperties DEF TypeOK
<1> QED
  BY <1>1, HeadTailProperties

(* Adding one at its end.                                                  *)
LEMMA BacklogAppend ==
  ASSUME TypeOK, NEW c \in Client \cup {Waker}
  PROVE  /\ Append(backlog, c) \in Seq(Client \cup {Waker})
         /\ Len(backlog) \in Nat
         /\ Len(Append(backlog, c)) = Len(backlog) + 1
         /\ \A i \in 1..Len(backlog) : Append(backlog, c)[i] = backlog[i]
         /\ Append(backlog, c)[Len(backlog) + 1] = c
BY AppendProperties, LenProperties DEF TypeOK

LEMMA InitInv == Init => Inv
<1> SUFFICES ASSUME Init PROVE Inv
  OBVIOUS
<1>1. TypeOK
  <2>1. backlog \in Seq(Client \cup {Waker})
    BY EmptySeq DEF Init
  <2>2. 0 \in 0..MaxRequests /\ MaxActive \in 0..MaxActive
    BY ServerAssumption
  <2>3. requests \in [Client -> 0..MaxRequests] /\ slots \in 0..MaxActive
    BY <2>2 DEF Init
  <2> QED
    BY <2>1, <2>3 DEF Init, TypeOK
<1>2. Len(backlog) = 0 /\ WakerFollowsFlag /\ WaitingIsUnique /\ AcceptedIsQueued
  BY ServerAssumption, EmptySeq DEF Init, WakerFollowsFlag, WaitingIsUnique, AcceptedIsQueued
<1>3. ActiveIsRunning /\ SlotsBalance /\ StopOrder
  BY ServerAssumption, FS_EmptySet
     DEF Init, ActiveIsRunning, Running, SlotsBalance, HeldByAcceptor, StopOrder
<1> QED
  BY <1>1, <1>2, <1>3 DEF Inv

(* TakeSlot and LeaveLoop: nobody moves but acceptLoop.                    *)
LEMMA LoopTopStep == Inv /\ (TakeSlot \/ LeaveLoop) => Inv'
<1> SUFFICES ASSUME Inv, TakeSlot \/ LeaveLoop PROVE Inv'
  OBVIOUS
<1>0. /\ acceptor = "top" /\ acceptor' \in {"accept", "done"}
      /\ UNCHANGED <<stopRequested, stopper, accepted, backlog, active, thread, shut, requests>>
  BY DEF TakeSlot, LeaveLoop
<1>1. Cardinality(active) \in Nat
  BY FS_CardinalityType DEF Inv, ActiveIsRunning
<1>2. SlotsBalance' /\ slots' \in 0..MaxActive
  BY <1>0, <1>1, ServerAssumption
     DEF Inv, TypeOK, TakeSlot, LeaveLoop, SlotsBalance, HeldByAcceptor
<1>4. TypeOK'
  BY <1>0, <1>2 DEF Inv, TypeOK
<1>5. WakerFollowsFlag' /\ WaitingIsUnique' /\ AcceptedIsQueued'
  BY <1>0 DEF Inv, TypeOK, WakerFollowsFlag, WaitingIsUnique, AcceptedIsQueued
<1>6. ActiveIsRunning' /\ StopOrder'
  BY <1>0 DEF Inv, ActiveIsRunning, Running, StopOrder
<1> QED
  BY <1>2, <1>4, <1>5, <1>6 DEF Inv
LEMMA AcceptStepInv == Inv /\ Accept => Inv'
<1> SUFFICES ASSUME Inv, Accept PROVE Inv'
  OBVIOUS
<1> USE DEF Accept
<1>1. /\ Head(backlog) = backlog[1]
      /\ 1 \in 1..Len(backlog)
      /\ Head(backlog) \in Client \cup {Waker}
      /\ backlog' \in Seq(Client \cup {Waker})
      /\ Len(backlog) \in Nat /\ Len(backlog') = Len(backlog) - 1
      /\ \A i \in 1..Len(backlog') :
           i + 1 \in 1..Len(backlog) /\ backlog'[i] = backlog[i + 1]
  BY BacklogHead, LenProperties DEF Inv, TypeOK
<1>2. TypeOK'
  BY <1>1 DEF Inv, TypeOK
<1>3. WakerFollowsFlag'
  BY <1>1 DEF Inv, WakerFollowsFlag
<1>4. WaitingIsUnique'
  <2>1. ASSUME NEW i \in 1..Len(backlog'), backlog'[i] # Waker
        PROVE  thread'[backlog'[i]] = "queued" /\ backlog'[i] # accepted'
    <3>1. i + 1 # 1 /\ i + 1 \in 1..Len(backlog) /\ backlog'[i] = backlog[i + 1]
      BY <1>1
    <3>2. backlog[i + 1] # backlog[1]
      BY <1>1, <2>1, <3>1 DEF Inv, WaitingIsUnique
    <3> QED
      BY <1>1, <2>1, <3>1, <3>2 DEF Inv, WaitingIsUnique
  <2>2. ASSUME NEW i \in 1..Len(backlog'), NEW j \in 1..Len(backlog'),
               backlog'[i] = backlog'[j], i # j
        PROVE  backlog'[i] = Waker
    <3>1. /\ i + 1 \in 1..Len(backlog) /\ backlog'[i] = backlog[i + 1]
          /\ j + 1 \in 1..Len(backlog) /\ backlog'[j] = backlog[j + 1]
          /\ i + 1 # j + 1
      BY <1>1, <2>2
    <3> QED
      BY <2>2, <3>1 DEF Inv, WaitingIsUnique
  <2> QED
    BY <2>1, <2>2 DEF WaitingIsUnique
<1>5. AcceptedIsQueued'
  BY <1>1, ServerAssumption
     DEF Inv, AcceptedIsQueued, WaitingIsUnique, WakerFollowsFlag
<1>6. ActiveIsRunning' /\ SlotsBalance' /\ StopOrder'
  BY DEF Inv, ActiveIsRunning, Running, SlotsBalance, HeldByAcceptor, StopOrder
<1> QED
  BY <1>2, <1>3, <1>4, <1>5, <1>6 DEF Inv

LEMMA AcceptFailsStep == Inv /\ AcceptFails => Inv'
<1> SUFFICES ASSUME Inv, AcceptFails PROVE Inv'
  OBVIOUS
<1> DEFINE c == backlog[1]
<1>1. /\ Head(backlog) = c
      /\ 1 \in 1..Len(backlog)
      /\ Head(backlog) \in Client \cup {Waker}
      /\ Tail(backlog) \in Seq(Client \cup {Waker})
      /\ Len(backlog) \in Nat /\ Len(Tail(backlog)) = Len(backlog) - 1
      /\ \A i \in 1..Len(Tail(backlog)) :
           i + 1 \in 1..Len(backlog) /\ Tail(backlog)[i] = backlog[i + 1]
  BY BacklogHead, LenProperties DEF Inv, TypeOK, AcceptFails
<1>2. /\ c \in Client /\ thread[c] = "queued"
      /\ acceptor = "accept" /\ accepted = None
      /\ backlog' = Tail(backlog) /\ slots' = slots + 1
      /\ acceptor' \in {"top", "done"}
      /\ thread' = [thread EXCEPT ![c] = "gone"]
      /\ UNCHANGED <<stopRequested, stopper, accepted, active, shut, requests>>
  BY <1>1 DEF AcceptFails, Close, Inv, WaitingIsUnique, AcceptedIsQueued
<1>3. Cardinality(active) \in Nat
  BY FS_CardinalityType DEF Inv, ActiveIsRunning
<1> HIDE DEF c
<1>4. SlotsBalance' /\ slots' \in 0..MaxActive
  BY <1>2, <1>3, ServerAssumption DEF Inv, TypeOK, SlotsBalance, HeldByAcceptor
<1>5. TypeOK'
  BY <1>1, <1>2, <1>4 DEF Inv, TypeOK
<1>6. WakerFollowsFlag'
  BY <1>1, <1>2 DEF Inv, WakerFollowsFlag
<1>7. WaitingIsUnique'
  <2>1. ASSUME NEW i \in 1..Len(backlog'), backlog'[i] # Waker
        PROVE  thread'[backlog'[i]] = "queued" /\ backlog'[i] # accepted'
    <3>1. i + 1 # 1 /\ i + 1 \in 1..Len(backlog) /\ backlog'[i] = backlog[i + 1]
      BY <1>1, <1>2
    <3>2. backlog[i + 1] # c /\ thread[backlog[i + 1]] = "queued" /\ backlog[i + 1] # accepted
      BY <1>1, <2>1, <3>1 DEF Inv, WaitingIsUnique, c
    <3>3. backlog[i + 1] \in Client
      BY <2>1, <3>1, <1>1, ElementOfSeq DEF Inv, TypeOK
    <3> QED
      BY <1>2, <3>1, <3>2, <3>3 DEF Inv, TypeOK
  <2>2. ASSUME NEW i \in 1..Len(backlog'), NEW j \in 1..Len(backlog'),
               backlog'[i] = backlog'[j], i # j
        PROVE  backlog'[i] = Waker
    <3>1. /\ i + 1 \in 1..Len(backlog) /\ backlog'[i] = backlog[i + 1]
          /\ j + 1 \in 1..Len(backlog) /\ backlog'[j] = backlog[j + 1]
          /\ i + 1 # j + 1
      BY <1>1, <1>2, <2>2
    <3> QED
      BY <2>2, <3>1 DEF Inv, WaitingIsUnique
  <2> QED
    BY <2>1, <2>2 DEF WaitingIsUnique
<1>8. AcceptedIsQueued'
  BY <1>2, ServerAssumption DEF Inv, AcceptedIsQueued
<1>9. ActiveIsRunning' /\ StopOrder'
  <2>1. Running' = Running
    BY <1>2 DEF Running, Inv, TypeOK
  <2> QED
    BY <1>2, <2>1 DEF Inv, ActiveIsRunning, StopOrder
<1> QED
  BY <1>4, <1>5, <1>6, <1>7, <1>8, <1>9 DEF Inv

(* A step in which the backlog stays and only the accepted connection's    *)
(* thread may move: acceptLoop from the second look at the flag on.        *)
LEMMA CheckStopStep == Inv /\ CheckStop => Inv'
<1> SUFFICES ASSUME Inv, CheckStop PROVE Inv'
  OBVIOUS
<1>1. Cardinality(active) \in Nat
  BY FS_CardinalityType DEF Inv, ActiveIsRunning
<1>2. accepted \in Client \cup {Waker} /\ acceptor = "check"
  BY DEF Inv, TypeOK, AcceptedIsQueued, CheckStop
<1>3. /\ thread' \in [Client -> {"none", "queued", "read", "handle", "unregister", "free", "gone"}]
      /\ \A d \in Client : d # accepted => thread'[d] = thread[d]
      /\ (accepted \in Client => thread'[accepted] \in {"queued", "gone"})
  BY <1>2 DEF CheckStop, Close, Inv, TypeOK, AcceptedIsQueued
<1>4. SlotsBalance' /\ slots' \in 0..MaxActive
  <2>1. slots \in 0..MaxActive /\ slots + Cardinality(active) + 1 = MaxActive
    BY <1>1, ServerAssumption DEF CheckStop, Inv, TypeOK, SlotsBalance, HeldByAcceptor
  <2>2. active' = active
    BY DEF CheckStop
  <2>3. CASE stopRequested
    <3>1. slots' = slots + 1 /\ acceptor' = "done"
      BY <2>3 DEF CheckStop
    <3> QED
      BY <1>1, <2>1, <2>2, <3>1, ServerAssumption DEF SlotsBalance, HeldByAcceptor
  <2>4. CASE ~stopRequested
    <3>1. slots' = slots /\ acceptor' = "register"
      BY <2>4 DEF CheckStop
    <3> QED
      BY <1>1, <2>1, <2>2, <3>1, ServerAssumption DEF SlotsBalance, HeldByAcceptor
  <2> QED
    BY <2>3, <2>4
<1>5. TypeOK'
  BY <1>3, <1>4, <1>2 DEF CheckStop, Inv, TypeOK
<1>6. WakerFollowsFlag'
  BY DEF CheckStop, Inv, WakerFollowsFlag
<1>7. WaitingIsUnique'
  <2>1. ASSUME NEW i \in 1..Len(backlog), backlog[i] # Waker
        PROVE  thread'[backlog[i]] = "queued" /\ backlog[i] # accepted'
    <3>1. backlog[i] \in Client /\ thread[backlog[i]] = "queued" /\ backlog[i] # accepted
      BY <2>1, ElementOfSeq DEF Inv, TypeOK, WaitingIsUnique
    <3> QED
      BY <1>3, <3>1, ServerAssumption DEF CheckStop
  <2> QED
    BY <2>1 DEF WaitingIsUnique, Inv, CheckStop
<1>8. AcceptedIsQueued'
  BY <1>2, <1>3, ServerAssumption DEF CheckStop, Inv, AcceptedIsQueued
<1>9. ActiveIsRunning' /\ StopOrder'
  <2>1. \A d \in Client : thread'[d] \in {"read", "handle", "unregister"}
                           <=> thread[d] \in {"read", "handle", "unregister"}
    <3>1. accepted \in Client => thread[accepted] = "queued"
      BY DEF Inv, AcceptedIsQueued
    <3> TAKE d \in Client
    <3>2. CASE d = accepted
      BY <1>3, <3>1, <3>2
    <3>3. CASE d # accepted
      BY <1>3, <3>3
    <3> QED
      BY <3>2, <3>3
  <2>2. Running' = Running
    BY <2>1 DEF Running
  <2> QED
    BY <2>2 DEF CheckStop, Inv, ActiveIsRunning, StopOrder
<1> QED
  BY <1>4, <1>5, <1>6, <1>7, <1>8, <1>9 DEF Inv
LEMMA RegisterStep == Inv /\ Register => Inv'
<1> SUFFICES ASSUME Inv, Register PROVE Inv'
  OBVIOUS
<1>1. accepted \in Client /\ thread[accepted] = "queued" /\ accepted \notin active
  BY DEF Inv, AcceptedIsQueued, ActiveIsRunning, Running, Register
<1>2. /\ Cardinality(active) \in Nat
      /\ IsFiniteSet(active') /\ Cardinality(active') = Cardinality(active) + 1
  BY <1>1, FS_CardinalityType, FS_AddElement DEF Inv, ActiveIsRunning, Register
<1>3. SlotsBalance'
  BY <1>2, ServerAssumption DEF Register, Inv, TypeOK, SlotsBalance, HeldByAcceptor
<1>4. TypeOK'
  BY <1>1 DEF Register, Inv, TypeOK
<1>5. WakerFollowsFlag' /\ WaitingIsUnique' /\ AcceptedIsQueued'
  BY <1>1 DEF Register, Inv, WakerFollowsFlag, WaitingIsUnique, AcceptedIsQueued
<1>6. ActiveIsRunning'
  BY <1>2 DEF Register, Inv, ActiveIsRunning, Running
<1>7. StopOrder'
  BY DEF Register, Inv, StopOrder
<1> QED
  BY <1>3, <1>4, <1>5, <1>6, <1>7 DEF Inv

(* spawnConnection, with a thread or without one.                          *)
LEMMA SpawnStep == Inv /\ (SpawnThread \/ SpawnFails) => Inv'
<1> SUFFICES ASSUME Inv, SpawnThread \/ SpawnFails PROVE Inv'
  OBVIOUS
<1>1. PICK place \in {"read", "gone"} :
        /\ thread' = [thread EXCEPT ![accepted] = place]
        /\ place = "read" => active' = active /\ slots' = slots
        /\ place = "gone" => active' = active \ {accepted} /\ slots' = slots + 1
  BY DEF SpawnThread, SpawnFails
<1>2. /\ acceptor = "spawn" /\ acceptor' = "top" /\ accepted' = None
      /\ UNCHANGED <<stopRequested, stopper, backlog, shut, requests>>
  BY DEF SpawnThread, SpawnFails
<1>3. accepted \in Client /\ thread[accepted] = "queued" /\ accepted \in active
  BY <1>2 DEF Inv, AcceptedIsQueued, ActiveIsRunning
<1>4. /\ Cardinality(active) \in Nat /\ IsFiniteSet(active \ {accepted})
      /\ Cardinality(active \ {accepted}) = Cardinality(active) - 1
      /\ Cardinality(active \ {accepted}) \in Nat
  BY <1>3, FS_CardinalityType, FS_RemoveElement DEF Inv, ActiveIsRunning
<1>5. SlotsBalance' /\ slots' \in 0..MaxActive
  <2>1. slots \in 0..MaxActive /\ slots + Cardinality(active) = MaxActive
    BY <1>2, <1>4, ServerAssumption DEF Inv, TypeOK, SlotsBalance, HeldByAcceptor
  <2> QED
    BY <1>1, <1>2, <1>4, <2>1, ServerAssumption DEF SlotsBalance, HeldByAcceptor
<1>6. TypeOK'
  BY <1>1, <1>2, <1>5 DEF Inv, TypeOK
<1>7. WakerFollowsFlag'
  BY <1>2 DEF Inv, WakerFollowsFlag
<1>8. WaitingIsUnique'
  <2>1. ASSUME NEW i \in 1..Len(backlog), backlog[i] # Waker
        PROVE  thread'[backlog[i]] = "queued" /\ backlog[i] # accepted'
    <3>1. backlog[i] \in Client /\ thread[backlog[i]] = "queued" /\ backlog[i] # accepted
      BY <2>1, ElementOfSeq DEF Inv, TypeOK, WaitingIsUnique
    <3> QED
      BY <1>1, <1>2, <3>1, ServerAssumption DEF Inv, TypeOK
  <2> QED
    BY <1>2, <2>1 DEF WaitingIsUnique, Inv
<1>9. AcceptedIsQueued'
  BY <1>2, ServerAssumption DEF AcceptedIsQueued
<1>10. ActiveIsRunning'
  <2>1. Running' = IF accepted' = None /\ thread'[accepted] = "read"
                     THEN Running \cup {accepted} ELSE Running
    BY <1>1, <1>2, <1>3 DEF Running, Inv, TypeOK
  <2>2. thread'[accepted] = IF active' = active THEN "read" ELSE "gone"
    BY <1>1, <1>3 DEF Inv, TypeOK
  <2>3. accepted \notin Running
    BY <1>3 DEF Running
  <2> QED
    BY <1>1, <1>2, <1>3, <1>4, <2>1, <2>2, <2>3 DEF Inv, ActiveIsRunning
<1>11. StopOrder'
  BY <1>2 DEF Inv, StopOrder
<1> QED
  BY <1>5, <1>6, <1>7, <1>8, <1>9, <1>10, <1>11 DEF Inv

(* A connection thread moves between reading, handling and giving up.      *)
LEMMA WorkStep ==
  ASSUME Inv, NEW c \in Client, Receive(c) \/ Respond(c) \/ ReadEnds(c) \/ Free(c)
  PROVE  Inv'
<1>1. PICK place \in {"read", "handle", "unregister", "gone"} :
        /\ thread' = [thread EXCEPT ![c] = place]
        /\ thread[c] \in {"read", "handle", "free"}
        /\ place = "gone" <=> thread[c] = "free"
  BY DEF Receive, Respond, ReadEnds, Free, Goto
<1>2. UNCHANGED <<stopRequested, stopper, acceptor, accepted, backlog, slots, active, shut>>
  BY DEF Receive, Respond, ReadEnds, Free, acceptVars
<1>3. requests' \in [Client -> 0..MaxRequests]
  <2>1. CASE Receive(c)
    BY <2>1, ServerAssumption DEF Receive, Inv, TypeOK
  <2>2. CASE requests' = requests
    BY <2>2 DEF Inv, TypeOK
  <2> QED
    BY <2>1, <2>2 DEF Respond, ReadEnds, Free
<1>4. TypeOK'
  BY <1>1, <1>2, <1>3 DEF Inv, TypeOK
<1>5. WakerFollowsFlag' /\ SlotsBalance' /\ StopOrder'
  BY <1>2 DEF Inv, WakerFollowsFlag, SlotsBalance, HeldByAcceptor, StopOrder
<1>6. WaitingIsUnique'
  <2>1. ASSUME NEW i \in 1..Len(backlog), backlog[i] # Waker
        PROVE  thread'[backlog[i]] = "queued" /\ backlog[i] # accepted'
    <3>1. backlog[i] \in Client /\ thread[backlog[i]] = "queued" /\ backlog[i] # accepted
      BY <2>1, ElementOfSeq DEF Inv, TypeOK, WaitingIsUnique
    <3> QED
      BY <1>1, <1>2, <3>1 DEF Inv, TypeOK
  <2> QED
    BY <1>2, <2>1 DEF WaitingIsUnique, Inv
<1>7. AcceptedIsQueued'
  <2>1. accepted \in Client => thread'[accepted] = "queued"
    BY <1>1 DEF Inv, AcceptedIsQueued, TypeOK
  <2> QED
    BY <1>2, <2>1 DEF Inv, AcceptedIsQueued
<1>8. ActiveIsRunning'
  <2>1. Running' = Running
    BY <1>1 DEF Running, Inv, TypeOK
  <2> QED
    BY <1>2, <2>1 DEF Inv, ActiveIsRunning
<1> QED
  BY <1>4, <1>5, <1>6, <1>7, <1>8 DEF Inv

LEMMA UnregisterStep == ASSUME Inv, NEW c \in Client, Unregister(c) PROVE Inv'
<1>1. /\ thread[c] = "unregister" /\ thread' = [thread EXCEPT ![c] = "free"]
      /\ active' = active \ {c} /\ slots' = slots + 1
      /\ UNCHANGED <<stopRequested, stopper, acceptor, accepted, backlog, shut, requests>>
  BY DEF Unregister, Goto, acceptVars
<1>2. c \in active
  BY <1>1 DEF Inv, ActiveIsRunning, Running
<1>3. /\ Cardinality(active) \in Nat /\ IsFiniteSet(active')
      /\ Cardinality(active') = Cardinality(active) - 1 /\ Cardinality(active') \in Nat
  BY <1>1, <1>2, FS_CardinalityType, FS_RemoveElement DEF Inv, ActiveIsRunning
<1>4. SlotsBalance' /\ slots' \in 0..MaxActive
  BY <1>1, <1>3, ServerAssumption DEF Inv, TypeOK, SlotsBalance, HeldByAcceptor
<1>5. TypeOK'
  BY <1>1, <1>4 DEF Inv, TypeOK
<1>6. WakerFollowsFlag' /\ StopOrder'
  BY <1>1 DEF Inv, WakerFollowsFlag, StopOrder
<1>7. WaitingIsUnique'
  <2>1. ASSUME NEW i \in 1..Len(backlog), backlog[i] # Waker
        PROVE  thread'[backlog[i]] = "queued" /\ backlog[i] # accepted'
    <3>1. backlog[i] \in Client /\ thread[backlog[i]] = "queued" /\ backlog[i] # accepted
      BY <2>1, ElementOfSeq DEF Inv, TypeOK, WaitingIsUnique
    <3> QED
      BY <1>1, <3>1 DEF Inv, TypeOK
  <2> QED
    BY <1>1, <2>1 DEF WaitingIsUnique, Inv
<1>8. AcceptedIsQueued' /\ (acceptor = "spawn" => accepted # c)
  <2>1. accepted \in Client => thread'[accepted] = "queued" /\ accepted # c
    BY <1>1 DEF Inv, AcceptedIsQueued, TypeOK
  <2> QED
    BY <1>1, <2>1 DEF Inv, AcceptedIsQueued
<1>9. ActiveIsRunning'
  <2>1. Running' = Running \ {c}
    BY <1>1 DEF Running, Inv, TypeOK
  <2> QED
    BY <1>1, <1>3, <1>8, <2>1 DEF Inv, ActiveIsRunning
<1> QED
  BY <1>4, <1>5, <1>6, <1>7, <1>8, <1>9 DEF Inv
(* stop(), but for the connection it makes to itself.                      *)
LEMMA StopStepInv ==
  Inv /\ (RequestStop \/ ShutdownActive \/ JoinAcceptor \/ WaitForConnections) => Inv'
<1> SUFFICES ASSUME Inv,
                    RequestStop \/ ShutdownActive \/ JoinAcceptor \/ WaitForConnections
             PROVE Inv'
  OBVIOUS
<1> USE DEF RequestStop, ShutdownActive, JoinAcceptor, WaitForConnections, acceptVars
<1>1. UNCHANGED <<acceptor, accepted, backlog, slots, active, thread, requests>>
  OBVIOUS
<1>2. TypeOK'
  BY DEF Inv, TypeOK
<1>3. WakerFollowsFlag'
  BY DEF Inv, WakerFollowsFlag
<1>4. WaitingIsUnique' /\ ActiveIsRunning' /\ SlotsBalance'
  BY <1>1 DEF Inv, WaitingIsUnique, ActiveIsRunning, Running, SlotsBalance, HeldByAcceptor
<1>5. AcceptedIsQueued' /\ StopOrder'
  BY DEF Inv, AcceptedIsQueued, StopOrder
<1> QED
  BY <1>2, <1>3, <1>4, <1>5 DEF Inv

LEMMA UnblockStep == Inv /\ UnblockAccept => Inv'
<1> SUFFICES ASSUME Inv, UnblockAccept PROVE Inv'
  OBVIOUS
<1>1. /\ backlog' \in Seq(Client \cup {Waker})
      /\ Len(backlog) \in Nat /\ Len(backlog') = Len(backlog) + 1
      /\ \A i \in 1..Len(backlog) : backlog'[i] = backlog[i]
      /\ backlog'[Len(backlog) + 1] = Waker
  BY BacklogAppend DEF Inv, UnblockAccept
<1>2. /\ stopper = "wake" /\ stopper' = "shutdown"
      /\ UNCHANGED <<stopRequested, acceptor, accepted, slots, active, thread, shut, requests>>
  BY DEF UnblockAccept
<1>3. TypeOK' /\ WakerFollowsFlag'
  BY <1>1, <1>2 DEF Inv, TypeOK, WakerFollowsFlag
<1>4. \A i \in 1..Len(backlog') :
        (i \in 1..Len(backlog) /\ backlog'[i] = backlog[i]) \/ backlog'[i] = Waker
  BY <1>1
<1>5. WaitingIsUnique'
  BY <1>2, <1>4 DEF Inv, WaitingIsUnique
<1>6. AcceptedIsQueued' /\ ActiveIsRunning' /\ SlotsBalance' /\ StopOrder'
  BY <1>2 DEF Inv, AcceptedIsQueued, ActiveIsRunning, Running, SlotsBalance,
              HeldByAcceptor, StopOrder
<1> QED
  BY <1>3, <1>5, <1>6 DEF Inv

LEMMA ConnectStep == ASSUME Inv, NEW c \in Client, Connect(c) PROVE Inv'
<1>1. /\ backlog' \in Seq(Client \cup {Waker})
      /\ Len(backlog) \in Nat /\ Len(backlog') = Len(backlog) + 1
      /\ \A i \in 1..Len(backlog) : backlog'[i] = backlog[i]
      /\ backlog'[Len(backlog) + 1] = c
  BY BacklogAppend DEF Inv, Connect
<1>2. /\ thread[c] = "none" /\ thread' = [thread EXCEPT ![c] = "queued"]
      /\ UNCHANGED <<stopRequested, stopper, acceptor, accepted, slots, active, shut, requests>>
  BY DEF Connect, Goto
<1>3. c # Waker /\ c # accepted
  BY <1>2, ServerAssumption DEF Inv, AcceptedIsQueued
<1>4. \A i \in 1..Len(backlog) : backlog[i] # c /\ backlog[i] \in Client \cup {Waker}
  BY <1>2, <1>3, ElementOfSeq DEF Inv, TypeOK, WaitingIsUnique
<1>5. \A i \in 1..Len(backlog') :
        \/ i \in 1..Len(backlog) /\ backlog'[i] = backlog[i]
        \/ i = Len(backlog) + 1 /\ backlog'[i] = c
  BY <1>1
<1>6. TypeOK'
  BY <1>1, <1>2 DEF Inv, TypeOK
<1>7. WakerFollowsFlag' /\ StopOrder'
  BY <1>2, <1>3, <1>5 DEF Inv, WakerFollowsFlag, StopOrder
<1>8. WaitingIsUnique'
  <2>1. ASSUME NEW i \in 1..Len(backlog'), backlog'[i] # Waker
        PROVE  thread'[backlog'[i]] = "queued" /\ backlog'[i] # accepted'
    BY <1>2, <1>3, <1>4, <1>5, <2>1 DEF Inv, TypeOK, WaitingIsUnique
  <2>2. ASSUME NEW i \in 1..Len(backlog'), NEW j \in 1..Len(backlog'),
               backlog'[i] = backlog'[j], i # j
        PROVE  backlog'[i] = Waker
    BY <1>4, <1>5, <2>2 DEF Inv, WaitingIsUnique
  <2> QED
    BY <2>1, <2>2 DEF WaitingIsUnique
<1>9. AcceptedIsQueued'
  BY <1>2, <1>3 DEF Inv, AcceptedIsQueued, TypeOK
<1>10. ActiveIsRunning' /\ SlotsBalance'
  <2>1. Running' = Running
    BY <1>2 DEF Running, Inv, TypeOK
  <2> QED
    BY <1>2, <2>1 DEF Inv, ActiveIsRunning, SlotsBalance, HeldByAcceptor
<1> QED
  BY <1>6, <1>7, <1>8, <1>9, <1>10 DEF Inv

LEMMA StutterStep == Inv /\ UNCHANGED vars => Inv'
BY DEF vars, Inv, TypeOK, WakerFollowsFlag, WaitingIsUnique, AcceptedIsQueued,
       ActiveIsRunning, Running, SlotsBalance, HeldByAcceptor, StopOrder

(* Every step keeps the invariant.                                         *)
THEOREM Invariance == Spec => []Inv
<1>1. Inv /\ [Next]_vars => Inv'
  <2> SUFFICES ASSUME Inv, [Next]_vars PROVE Inv'
    OBVIOUS
  <2>1. CASE AcceptStep
    BY <2>1, LoopTopStep, AcceptStepInv, AcceptFailsStep, CheckStopStep, RegisterStep,
       SpawnStep DEF AcceptStep
  <2>2. CASE \E c \in Client : Connect(c) \/ ThreadStep(c)
    BY <2>2, ConnectStep, WorkStep, UnregisterStep DEF ThreadStep
  <2>3. CASE RequestStop \/ StopStep
    BY <2>3, StopStepInv, UnblockStep DEF StopStep
  <2>4. CASE UNCHANGED vars
    BY <2>4, StutterStep
  <2> QED
    BY <2>1, <2>2, <2>3, <2>4 DEF Next
<1> QED
  BY <1>1, InitInv, PTL DEF Spec

(* The types, for any clients.                                             *)
THEOREM TypeCorrect == Spec => []TypeOK
<1>1. Inv => TypeOK
  BY DEF Inv
<1> QED
  BY <1>1, Invariance, PTL

(* Every connection slot is accounted for, whatever fails: accept, a       *)
(* thread that cannot be made, an answer that cannot be written.           *)
THEOREM SlotsAreAccounted == Spec => []SlotsBalance
<1>1. Inv => SlotsBalance
  BY DEF Inv
<1> QED
  BY <1>1, Invariance, PTL

(* When stop() returns no request is being read or handled.                *)
THEOREM StopLeavesQuiet == Spec => []StoppedIsQuiet
<1>1. Inv => StoppedIsQuiet
  BY DEF Inv, StopOrder, ActiveIsRunning, Running, StoppedIsQuiet
<1> QED
  BY <1>1, Invariance, PTL
=============================================================================
