-------------------------- MODULE CaptureWin_proofs --------------------------
(***************************************************************************)
(* Proofs about CaptureWin, for any number of barriers, clients, triggers  *)
(* and keys and any capacity of the channels.                              *)
(***************************************************************************)
EXTENDS CaptureWin, CaptureTask_proofs

(* the theorems about the contract, for the events of the hook thread *)
ContractProofs == INSTANCE CaptureContract_proofs
    WITH active <- ACTIVE_CLIENT, pending <- PENDING_CLIENT, out <- events

LEMMA HookTypes ==
    ASSUME ApiTypeOK, HookTypeOK, HookApi \/ HookLoop \/ HookUser
    PROVE  ApiTypeOK' /\ HookTypeOK'
<1>. USE DEF hookVars, ApiTypeOK, HookTypeOK
<1>1. CASE SignalRelease
  BY <1>1 DEF SignalRelease
<1>2. CASE ClientUpdate
  <2>1. Head(calls) \in ClientUpdates
    BY <1>2 DEF ClientUpdate, Calls
  <2>. QED
    BY <1>2, <2>1 DEF ClientUpdate
<1>3. CASE GetRelease
  BY <1>3 DEF GetRelease
<1>4. CASE GetClientUpdate
  BY <1>4 DEF GetClientUpdate
<1>5. ASSUME NEW op, Applying(op)
      PROVE  /\ Head(draining).key \in Key
             /\ draining' \in Seq(ClientUpdates)
             /\ UNCHANGED <<calls, request_buffer, posted>>
  <2>1. Head(draining) \in ClientUpdates
    BY <1>5 DEF Applying
  <2>. QED
    BY <1>5, <2>1 DEF Applying, ClientUpdates
<1>6. CASE ApplyCreate
  BY <1>5, <1>6 DEF ApplyCreate
<1>7. CASE ApplyDestroy
  BY <1>5, <1>7 DEF ApplyDestroy
<1>10. CASE ApplyStartCapture
  BY <1>5, <1>10, AppendTypes, SignalTypes DEF ApplyStartCapture
<1>11. CASE ApplyCancelPending
  BY <1>5, <1>11 DEF ApplyCancelPending
<1>12. ASSUME NEW k \in Key, MoveAcross(k)
       PROVE  ApiTypeOK' /\ HookTypeOK'
  BY <1>12, AppendTypes, SignalTypes DEF MoveAcross
<1>13. CASE MoveWithin
  BY <1>13, AppendTypes, SignalTypes DEF MoveWithin
<1>14. ASSUME NEW i \in Input, HookInput(i)
       PROVE  ApiTypeOK' /\ HookTypeOK'
  <2>1. InputEvent(ACTIVE_CLIENT, i) \in CaptureEvents
    BY <1>14, InputTypes DEF HookInput
  <2>. QED
    BY <1>14, <2>1, AppendTypes DEF HookInput
<1>. QED
  BY <1>1, <1>2, <1>3, <1>4, <1>6, <1>7, <1>10, <1>11, <1>12, <1>13, <1>14
  DEF HookApi, HookLoop, HookUser

(* Every variable of the capture task, the hook thread and the channels keeps *)
(* its type, the payload of State::Pending and the capacity of the event      *)
(* channel included.                                                          *)
THEOREM TypeCorrect == Spec => []TypeOK
<1>1. Init => TypeOK
  <2>1. Init => ApiTypeOK /\ HookTypeOK
    BY EventCapAssumption DEF Init, HookInit, ApiTypeOK, HookTypeOK
  <2>2. Init => TaskTypeOK
    BY TaskInitTypes DEF Init
  <2>. QED
    BY <2>1, <2>2 DEF TypeOK
<1>2. TypeOK /\ [Next]_vars => TypeOK'
  <2>1. ASSUME TypeOK, UNCHANGED vars
        PROVE  TypeOK'
    BY <2>1 DEF vars, taskVars, hookVars, TypeOK, ApiTypeOK, TaskTypeOK, HookTypeOK
  <2>2. ASSUME TypeOK, ServesEvents \/ ServesOthers \/ Network, UNCHANGED hookVars
        PROVE  TypeOK'
    BY <2>2, ServesEventsTypes, ServesOthersTypes, NetworkTypes
    DEF TaskTypes, TypeOK, HookTypeOK, hookVars
  <2>. QED
    BY <2>1, <2>2, HookTypes, TaskKeepsTypes DEF Next, TypeOK
<1>. QED
  BY <1>1, <1>2, PTL DEF Spec

-----------------------------------------------------------------------------
(* The ghost-active state that run_watchdog_light repairs is not reachable:   *)
(* in State::Sending the task always knows the client it sends to.            *)
THEOREM NoGhostActive == Spec => []SendingHasClient
<1>1. Init => SendingHasClient
  BY DEF Init, TaskInit, SendingHasClient
<1>2. SendingHasClient /\ [Next]_vars => SendingHasClient'
  BY TaskKeepsClient DEF Next, vars
<1>. QED
  BY <1>1, <1>2, PTL DEF Spec

-----------------------------------------------------------------------------
LEMMA BarrierStep == TypeOK /\ BarrierStates /\ [Next]_vars => BarrierStates'
<1>. SUFFICES ASSUME TypeOK, BarrierStates, [Next]_vars
              PROVE  BarrierStates'
  OBVIOUS
<1>. USE DEF BarrierStates
<1>1. CASE UNCHANGED <<CLIENTS, ACTIVE_CLIENT, PENDING_CLIENT>>
  BY <1>1
<1>2. CASE HookApi
  BY <1>1, <1>2 DEF HookApi, SignalRelease, ClientUpdate
<1>3. CASE HookLoop
  BY <1>3, NoneAssumption
  DEF HookLoop, GetRelease, GetClientUpdate, ApplyCreate, ApplyDestroy, ApplyStartCapture,
      ApplyCancelPending
<1>4. CASE HookUser
  BY <1>4 DEF HookUser, MoveAcross, MoveWithin, HookInput, hookVars
<1>. QED
  BY <1>1, <1>2, <1>3, <1>4 DEF Next, vars, hookVars

(* At most one barrier is pending or active, and it exists: the message loop  *)
(* and the hook procedures keep ACTIVE_CLIENT and PENDING_CLIENT exclusive    *)
(* under every interleaving with the task's calls.                            *)
THEOREM BarriersConsistent == Spec => []BarrierStates
<1>1. Init => BarrierStates
  BY DEF Init, HookInit, BarrierStates
<1>. QED
  BY <1>1, TypeCorrect, BarrierStep, PTL DEF Spec

-----------------------------------------------------------------------------
(* Refinement: each step of the task and of the hook thread is a step of the  *)
(* contract or leaves its variables alone.                                    *)

LEMMA ContractStep == TypeOK /\ [Next]_vars => [Contract!Next]_Contract!contractVars
<1>. SUFFICES ASSUME TypeOK, [Next]_vars
              PROVE  [Contract!Next]_Contract!contractVars
  OBVIOUS
<1>1. ASSUME UNCHANGED <<ACTIVE_CLIENT, PENDING_CLIENT, events>>
      PROVE  UNCHANGED Contract!contractVars
  BY <1>1 DEF Contract!contractVars
<1>2. CASE ServesEvents /\ UNCHANGED hookVars
  BY <1>1, <1>2, EventsTaken DEF hookVars, Contract!Next, Contract!Take
<1>3. CASE (ServesOthers \/ Network) /\ UNCHANGED hookVars
  BY <1>1, <1>3, EventsKept DEF hookVars
<1>5. CASE HookApi
  BY <1>1, <1>5 DEF HookApi, SignalRelease, ClientUpdate
<1>6. CASE GetRelease \/ ApplyDestroy \/ ApplyCancelPending
  BY <1>6 DEF GetRelease, ApplyDestroy, ApplyCancelPending, Contract!Next, Contract!Withdraw
<1>7. CASE GetClientUpdate \/ ApplyCreate
  BY <1>1, <1>7 DEF GetClientUpdate, ApplyCreate
<1>8. CASE ApplyStartCapture
  <2>1. Head(draining).key \in Key
    <3>1. Head(draining) \in ClientUpdates
      BY <1>8 DEF ApplyStartCapture, Applying, TypeOK, HookTypeOK
    <3>. QED
      BY <3>1 DEF ClientUpdates
  <2>2. CASE PENDING_CLIENT # Head(draining).key
    BY <1>1, <1>8, <2>2 DEF ApplyStartCapture
  <2>3. CASE PENDING_CLIENT = Head(draining).key
    BY <1>8, <2>1, <2>3, NoneAssumption
    DEF ApplyStartCapture, Contract!Next, Contract!Promote, Contract!Emit, Signal, Contract!Signal
  <2>. QED
    BY <2>2, <2>3
<1>9. ASSUME NEW k \in Key, MoveAcross(k)
      PROVE  Contract!Next
  BY <1>9 DEF MoveAcross, Contract!Next, Contract!Cross, Contract!Emit, Signal, Contract!Signal
<1>10. ASSUME MoveWithin
       PROVE  Contract!Next
  BY <1>10 DEF MoveWithin, Contract!Next, Contract!PullBack, Contract!Emit, Signal, Contract!Signal
<1>11. ASSUME NEW i \in Input, HookInput(i)
       PROVE  Contract!Next
  BY <1>11
  DEF HookInput, hookVars, Contract!Next, Contract!Forward, Contract!Emit, InputEvent,
      Contract!InputEvent
<1>12. CASE UNCHANGED vars
  BY <1>1, <1>12 DEF vars, hookVars
<1>. QED
  BY <1>2, <1>3, <1>5, <1>6, <1>7, <1>8, <1>9, <1>10, <1>11, <1>12
  DEF Next, HookLoop, HookUser

(* The hook thread, driven by the capture task, implements the contract of a  *)
(* backend with the pending-capture handshake.                                *)
THEOREM HookImplementsContract == Spec => ImplementsContract
<1>1. Init => Contract!Init
  BY DEF Init, HookInit, Contract!Init
<1>. QED
  BY <1>1, TypeCorrect, ContractStep, PTL DEF Spec, ImplementsContract, Contract!Spec

(* Hence the events the capture task takes are ordered: no input of a barrier *)
(* before its Begin, no Begin without its BeginPending.                       *)
THEOREM HookEventsOrdered == Spec => []EventOrder
<1>. USE DEF Contract!Signal, ContractProofs!Signal, Contract!InputEvent, ContractProofs!InputEvent
<1>1. Contract!Init => ContractProofs!Init
  BY DEF Contract!Init, ContractProofs!Init
<1>2. [Contract!Next]_Contract!contractVars => [ContractProofs!Next]_ContractProofs!contractVars
  BY Zenon DEF Contract!contractVars, ContractProofs!contractVars, Contract!Next, ContractProofs!Next,
         Contract!Cross, ContractProofs!Cross, Contract!PullBack, ContractProofs!PullBack,
         Contract!Promote, ContractProofs!Promote, Contract!Forward, ContractProofs!Forward,
         Contract!Withdraw, ContractProofs!Withdraw, Contract!Take, ContractProofs!Take,
         Contract!Emit, ContractProofs!Emit
<1>3. ContractProofs!EventOrder => EventOrder
  BY DEF EventOrder, Contract!EventOrder, ContractProofs!EventOrder, Contract!Ordered,
         ContractProofs!Ordered, Contract!Follows, ContractProofs!Follows
<1>4. ContractProofs!Spec => []ContractProofs!EventOrder
  BY ContractProofs!StreamOrdered, NoneAssumption, PTL
<1>. QED
  BY <1>1, <1>2, <1>3, <1>4, HookImplementsContract, PTL
  DEF ImplementsContract, Contract!Spec, ContractProofs!Spec

-----------------------------------------------------------------------------
(* What is under way from the task to the hook thread.  A message that clears *)
(* a pending or an active barrier is not lost on the way.                     *)

Underway == Elems(calls) \cup Elems(request_buffer) \cup Elems(draining)

Releasing == Release \in Elems(calls) \/ "Release" \in Elems(posted)

ClearsPending(k) ==
    \/ Releasing
    \/ \E op \in {"destroy", "start_capture", "cancel_pending"} : Call(op, k) \in Underway

ClearsActive(k) == Releasing \/ Call("destroy", k) \in Underway

(* the task adds to its calls only *)
LEMMA TaskKeepsClears ==
    ASSUME Elems(calls) \subseteq Elems(calls'), UNCHANGED hookVars, NEW k
    PROVE  /\ ClearsPending(k) => ClearsPending(k)'
           /\ ClearsActive(k) => ClearsActive(k)'
<1>1. Elems(request_buffer)' = Elems(request_buffer) /\ Elems(draining)' = Elems(draining)
      /\ Elems(posted)' = Elems(posted) /\ Elems(calls)' = Elems(calls')
  BY DEF Elems, hookVars
<1>2. Underway \subseteq Underway' /\ (Releasing => Releasing')
  BY <1>1 DEF Underway, Releasing
<1>. QED
  BY <1>2 DEF ClearsPending, ClearsActive

LEMMA ElemsPosted ==
    ASSUME TypeOK, NEW m \in {"ClientUpdate", "Release"}
    PROVE  Elems(Append(posted, m)) = Elems(posted) \cup {m}
<1>. DEFINE S == {"ClientUpdate", "Release"}
<1>1. posted \in Seq(S) /\ m \in S
  BY DEF TypeOK, HookTypeOK
<1>. HIDE DEF S
<1>. QED
  BY <1>1, ElemsAppend

LEMMA HookKeepsClears ==
    ASSUME TypeOK, HookApi \/ HookLoop, NEW k \in Key
    PROVE  /\ ClearsPending(k) => ClearsPending(k)' \/ PENDING_CLIENT' # k
           /\ ClearsActive(k) => ClearsActive(k)' \/ ACTIVE_CLIENT' # k
<1>. USE DEF TypeOK, ApiTypeOK, HookTypeOK
<1>1. CASE SignalRelease
  <2>1. /\ Head(calls) \in Calls /\ Head(calls).op = "release" /\ calls # <<>>
        /\ calls' = Tail(calls) /\ posted' = Append(posted, "Release")
        /\ UNCHANGED <<request_buffer, draining>>
    BY <1>1 DEF SignalRelease
  <2>2. "Release" \in Elems(posted')
    BY <2>1, ElemsPosted
  <2>. QED
    BY <2>2 DEF ClearsPending, ClearsActive, Releasing
<1>2. CASE ClientUpdate
  <2>1. /\ Head(calls) \in ClientUpdates /\ Head(calls) # Release /\ calls # <<>>
        /\ calls' = Tail(calls) /\ posted' = Append(posted, "ClientUpdate")
        /\ request_buffer' = Append(request_buffer, Head(calls))
        /\ UNCHANGED draining
    BY <1>2 DEF ClientUpdate, Calls, Release
  <2>2. Elems(calls) = Elems(calls') \cup {Head(calls)}
    BY <2>1, ElemsTail
  <2>3. Elems(request_buffer') = Elems(request_buffer) \cup {Head(calls)}
    BY <2>1, ElemsAppend
  <2>4. Elems(posted') = Elems(posted) \cup {"ClientUpdate"}
    BY <2>1, ElemsPosted
  <2>5. Elems(draining') = Elems(draining)
    BY <2>1
  <2>. QED
    BY <2>1, <2>2, <2>3, <2>4, <2>5 DEF ClearsPending, ClearsActive, Releasing, Underway
<1>3. CASE GetRelease
  BY <1>3, NoneAssumption DEF GetRelease
<1>4. CASE GetClientUpdate
  <2>1. /\ posted # <<>> /\ Head(posted) = "ClientUpdate" /\ posted' = Tail(posted)
        /\ draining = <<>> /\ draining' = request_buffer /\ request_buffer' = <<>>
        /\ UNCHANGED calls
    BY <1>4 DEF GetClientUpdate, LoopIdle
  <2>2. Elems(posted) = Elems(posted') \cup {"ClientUpdate"}
    BY <2>1, ElemsTail
  <2>3. /\ Elems(draining') = Elems(request_buffer) /\ Elems(draining) = {}
        /\ Elems(request_buffer') = {} /\ Elems(calls') = Elems(calls)
    BY <2>1, ElemsFew
  <2>. QED
    BY <2>2, <2>3 DEF ClearsPending, ClearsActive, Releasing, Underway
<1>5. ASSUME NEW op, Applying(op)
      PROVE  /\ Underway \subseteq Underway' \cup {Head(draining)}
             /\ Releasing' = Releasing
             /\ Head(draining) = Call(op, Head(draining).key)
  <2>1. /\ draining # <<>> /\ Head(draining).op = op /\ draining' = Tail(draining)
        /\ Head(draining) \in ClientUpdates
        /\ UNCHANGED <<calls, request_buffer, posted>>
    BY <1>5 DEF Applying
  <2>2. Elems(draining) = Elems(draining') \cup {Head(draining)}
    BY <2>1, ElemsTail
  <2>3. /\ Elems(calls') = Elems(calls) /\ Elems(request_buffer') = Elems(request_buffer)
        /\ Elems(posted') = Elems(posted)
    BY <2>1
  <2>. QED
    BY <2>1, <2>2, <2>3 DEF Underway, Releasing, ClientUpdates, Call
<1>6. ASSUME NEW op, Applying(op), op \in {"create", "start_capture", "cancel_pending", "destroy"}
      PROVE  /\ ClearsPending(k) => ClearsPending(k)' \/ (op # "create" /\ Head(draining).key = k)
             /\ ClearsActive(k) => ClearsActive(k)' \/ (op = "destroy" /\ Head(draining).key = k)
  <2>1. \A o, l : Call(o, k) = Call(op, l) => o = op /\ l = k
    BY DEF Call
  <2>. QED
    BY <1>5, <1>6, <2>1 DEF ClearsPending, ClearsActive
<1>7. CASE ApplyCreate
  BY <1>6, <1>7 DEF ApplyCreate
<1>8. CASE ApplyDestroy
  BY <1>6, <1>8, NoneAssumption DEF ApplyDestroy
<1>9. CASE ApplyStartCapture
  BY <1>6, <1>9, NoneAssumption DEF ApplyStartCapture
<1>10. CASE ApplyCancelPending
  BY <1>6, <1>10, NoneAssumption DEF ApplyCancelPending
<1>. QED
  BY <1>1, <1>2, <1>3, <1>4, <1>7, <1>8, <1>9, <1>10 DEF HookApi, HookLoop

-----------------------------------------------------------------------------
(* A barrier without subscriber exists only as long as its destruction is     *)
(* under way: each create among the requests is followed by a destroy.        *)

Requests == draining \o request_buffer

FollowInv ==
    /\ \A k \in Key : Subscribers(k) = {} =>
        /\ Call("create", k) \notin Elems(calls)
        /\ ClosedIn(Requests, CLIENTS, k) \/ Call("destroy", k) \in Elems(calls)
    /\ request_buffer # <<>> => "ClientUpdate" \in Elems(posted)

(* how the requests change: a push appends, an application takes the first *)
LEMMA RequestsChange ==
    ASSUME NEW S, NEW d \in Seq(S), NEW r \in Seq(S)
    PROVE  /\ d \o r \in Seq(S)
           /\ <<>> \o r = r /\ r \o <<>> = r
           /\ \A x \in S : d \o Append(r, x) = Append(d \o r, x)
           /\ d # <<>> => /\ d \o r # <<>>
                          /\ Head(d \o r) = Head(d)
                          /\ Tail(d \o r) = Tail(d) \o r
<1>1. d \o r \in Seq(S)
  OBVIOUS
<1>2. <<>> \o r = r /\ r \o <<>> = r
  OBVIOUS
<1>3. ASSUME NEW x \in S PROVE d \o Append(r, x) = Append(d \o r, x)
  OBVIOUS
<1>4. ASSUME d # <<>> PROVE d \o r # <<>> /\ Head(d \o r) = Head(d)
  BY <1>4
<1>5. ASSUME d # <<>> PROVE Tail(d \o r) = Tail(d) \o r
  BY <1>5
<1>. QED
  BY <1>1, <1>2, <1>3, <1>4, <1>5
LEMMA FollowStep == TypeOK /\ FollowInv /\ [Next]_vars => FollowInv'
<1>. SUFFICES ASSUME TypeOK, FollowInv, [Next]_vars
              PROVE  FollowInv'
  OBVIOUS
<1>. USE DEF TypeOK, ApiTypeOK, HookTypeOK
<1>1. ASSUME UNCHANGED hookVars, ServesEvents \/ ServesOthers \/ Network
      PROVE  FollowInv'
  <2>1. UNCHANGED <<Requests, CLIENTS, request_buffer, posted>>
    BY <1>1 DEF hookVars, Requests
  <2>2. ASSUME NEW k \in Key, (Subscribers(k) = {})'
        PROVE  /\ Call("create", k) \notin Elems(calls')
               /\ ClosedIn(Requests, CLIENTS, k) \/ Call("destroy", k) \in Elems(calls')
    <3>1. CallsFollow(k)
      BY <1>1, TaskCallsFollow DEF TaskTypes
    <3>2. Elems(calls) \subseteq Elems(calls')
      BY <1>1, CallsWait
    <3>. QED
      BY <2>2, <3>1, <3>2 DEF CallsFollow, FollowInv, Subscribers
  <2>. QED
    BY <2>1, <2>2 DEF FollowInv
<1>2. ASSUME UNCHANGED <<calls, captures, Requests, CLIENTS>>,
             request_buffer' # <<>> => "ClientUpdate" \in Elems(posted')
      PROVE  FollowInv'
  BY <1>2 DEF FollowInv, Subscribers
<1>3. ASSUME SignalRelease, UNCHANGED taskVars
      PROVE  FollowInv'
  <2>1. /\ calls # <<>> /\ Head(calls).op = "release" /\ calls' = Tail(calls)
        /\ posted' = Append(posted, "Release")
        /\ UNCHANGED <<captures, Requests, CLIENTS, request_buffer>>
    BY <1>3 DEF SignalRelease, taskVars, Requests
  <2>2. Elems(calls) = Elems(calls') \cup {Head(calls)} /\ \A k : Head(calls) # Call("destroy", k)
    BY <2>1, ElemsTail DEF Call
  <2>3. Elems(posted') = Elems(posted) \cup {"Release"}
    BY <2>1, ElemsPosted
  <2>. QED
    BY <2>1, <2>2, <2>3 DEF FollowInv, Subscribers
<1>4. ASSUME ClientUpdate, UNCHANGED taskVars
      PROVE  FollowInv'
  <2>1. /\ calls # <<>> /\ Head(calls) \in ClientUpdates /\ calls' = Tail(calls)
        /\ request_buffer' = Append(request_buffer, Head(calls))
        /\ posted' = Append(posted, "ClientUpdate")
        /\ UNCHANGED <<captures, draining, CLIENTS>>
    BY <1>4 DEF ClientUpdate, taskVars, Calls
  <2>2. Elems(calls) = Elems(calls') \cup {Head(calls)}
    BY <2>1, ElemsTail
  <2>3. "ClientUpdate" \in Elems(posted')
    BY <2>1, ElemsPosted
  <2>4. Requests' = Append(Requests, Head(calls)) /\ Requests \in Seq(ClientUpdates)
    <3>1. \A x \in ClientUpdates :
            draining \o Append(request_buffer, x) = Append(draining \o request_buffer, x)
      BY RequestsChange
    <3>. QED
      BY <2>1, <3>1, RequestsChange, Zenon DEF Requests
  <2>5. ASSUME NEW k \in Key, Subscribers(k) = {}
        PROVE  /\ Call("create", k) \notin Elems(calls')
               /\ ClosedIn(Requests', CLIENTS, k) \/ Call("destroy", k) \in Elems(calls')
    <3>1. Head(calls) # Call("create", k) /\ Call("create", k) \notin Elems(calls')
      BY <2>2, <2>5 DEF FollowInv
    <3>2. CASE ClosedIn(Requests, CLIENTS, k) \/ Head(calls) = Call("destroy", k)
      BY <2>1, <2>4, <3>1, <3>2, ClosedAppend
    <3>. QED
      BY <2>2, <2>5, <3>1, <3>2 DEF FollowInv
  <2>. QED
    BY <2>1, <2>3, <2>5 DEF FollowInv, Subscribers
<1>5. ASSUME GetRelease, UNCHANGED taskVars
      PROVE  FollowInv'
  <2>1. posted # <<>> /\ Head(posted) = "Release" /\ posted' = Tail(posted)
    BY <1>5 DEF GetRelease
  <2>2. Elems(posted) = Elems(posted') \cup {"Release"}
    BY <2>1, ElemsTail
  <2>3. "Release" # "ClientUpdate" /\ UNCHANGED <<calls, captures, Requests, CLIENTS, request_buffer>>
    BY <1>5 DEF GetRelease, taskVars, Requests
  <2>. QED
    BY <1>2, <2>2, <2>3 DEF FollowInv
<1>6. ASSUME GetClientUpdate, UNCHANGED taskVars
      PROVE  FollowInv'
  <2>1. Requests = request_buffer /\ Requests' = request_buffer
    BY <1>6, RequestsChange DEF GetClientUpdate, LoopIdle, Requests
  <2>. QED
    BY <1>2, <1>6, <2>1 DEF GetClientUpdate, taskVars
<1>7. ASSUME NEW op, Applying(op), UNCHANGED taskVars,
             \A k : ClosedIn(Requests, CLIENTS, k) => ClosedIn(Tail(Requests), CLIENTS', k)
      PROVE  FollowInv'
  <2>1. Requests' = Tail(Requests) /\ UNCHANGED <<calls, captures, request_buffer, posted>>
    <3>1. Tail(draining \o request_buffer) = Tail(draining) \o request_buffer
      BY <1>7, RequestsChange DEF Applying
    <3>. QED
      BY <1>7, <3>1 DEF Applying, Requests, taskVars
  <2>. QED
    BY <1>7, <2>1 DEF FollowInv, Subscribers
<1>8. ASSUME NEW op, Applying(op), NEW k, ClosedIn(Requests, CLIENTS, k)
      PROVE  /\ op = "create" => ClosedIn(Tail(Requests), CLIENTS \cup {Head(draining).key}, k)
             /\ op = "destroy" => ClosedIn(Tail(Requests), CLIENTS \ {Head(draining).key}, k)
             /\ op # "destroy" => ClosedIn(Tail(Requests), CLIENTS, k)
  <2>1. /\ Requests \in Seq(ClientUpdates) /\ Requests # <<>>
        /\ Head(Requests) = Head(draining) /\ Head(draining).op = op
    BY <1>8, RequestsChange DEF Applying, Requests
  <2>2. \A m \in ClientUpdates : m = Call(m.op, m.key)
    BY DEF ClientUpdates, Call
  <2>. QED
    BY <1>8, <2>1, <2>2, ClosedTail, Zenon
<1>9. ASSUME ApplyCreate, UNCHANGED taskVars
      PROVE  FollowInv'
  BY <1>7, <1>8, <1>9, Zenon DEF ApplyCreate
<1>10. ASSUME ApplyDestroy, UNCHANGED taskVars
       PROVE  FollowInv'
  BY <1>7, <1>8, <1>10, Zenon DEF ApplyDestroy
<1>11. ASSUME ApplyStartCapture, UNCHANGED taskVars
       PROVE  FollowInv'
  <2>1. Applying("start_capture") /\ UNCHANGED CLIENTS
    BY <1>11 DEF ApplyStartCapture
  <2>. QED
    BY <1>7, <1>8, <1>11, <2>1
<1>12. ASSUME ApplyCancelPending, UNCHANGED taskVars
       PROVE  FollowInv'
  <2>1. Applying("cancel_pending") /\ UNCHANGED CLIENTS
    BY <1>12 DEF ApplyCancelPending
  <2>. QED
    BY <1>7, <1>8, <1>12, <2>1
<1>13. ASSUME HookUser, UNCHANGED taskVars
       PROVE  FollowInv'
  <2>1. UNCHANGED <<calls, captures, Requests, CLIENTS, request_buffer, posted>>
    BY <1>13, Zenon DEF HookUser, MoveAcross, MoveWithin, HookInput, hookVars, taskVars, Requests
  <2>. QED
    BY <1>2, <2>1 DEF FollowInv
<1>14. CASE UNCHANGED vars
  BY <1>2, <1>14 DEF vars, hookVars, taskVars, Requests, FollowInv
<1>. QED
  BY <1>1, <1>3, <1>4, <1>5, <1>6, <1>9, <1>10, <1>11, <1>12, <1>13, <1>14
  DEF Next, HookApi, HookLoop
LEMMA UnsubscribedIsCleared ==
    ASSUME TypeOK, FollowInv, NEW k \in CLIENTS, Subscribers(k) = {}
    PROVE  ClearsPending(k) /\ ClearsActive(k)
<1>1. k \in Key /\ draining \in Seq(ClientUpdates) /\ request_buffer \in Seq(ClientUpdates)
  BY DEF TypeOK, HookTypeOK
<1>2. Elems(Requests) \subseteq Underway
  BY <1>1, ElemsConcat DEF Requests, Underway
<1>3. Call("destroy", k) \in Underway
  BY <1>1, <1>2 DEF FollowInv, ClosedIn, Underway
<1>. QED
  BY <1>3 DEF ClearsPending, ClearsActive

-----------------------------------------------------------------------------
(* The claims on the pending and the active barrier.  From the moment the     *)
(* hook thread sets PENDING_CLIENT, the BeginPending is the last event of the *)
(* channel, or the task waits for the Ack, or a message that clears it is     *)
(* under way.  Likewise for ACTIVE_CLIENT: after its Begin only input of the  *)
(* barrier is in the channel, and once the Begin is taken the task sends to   *)
(* its client or a message that clears it is under way.                       *)

PendingInv ==
    PENDING_CLIENT # None =>
        IF events # <<>> THEN events[Len(events)] = Signal(PENDING_CLIENT, "BeginPending")
        ELSE Tracked(PENDING_CLIENT) \/ ClearsPending(PENDING_CLIENT)

OwnedFrom(i, k) ==
    /\ \A j \in 1 .. Len(events) : j > i => events[j].ev = "Input" /\ events[j].key = k
    /\ IF i = 0 THEN Owned(k) \/ ClearsActive(k) ELSE events[i] = Signal(k, "Begin")

ActiveInv == ACTIVE_CLIENT # None => \E i \in 0 .. Len(events) : OwnedFrom(i, ACTIVE_CLIENT)

WinInv == TypeOK /\ BarrierStates /\ SendingHasClient /\ OneSubscriber /\ FollowInv

LEMMA PendingStep ==
    ASSUME Trigger = {}, WinInv, PendingInv, [Next]_vars
    PROVE  PendingInv'
<1>. USE DEF WinInv
<1>1. ASSUME UNCHANGED hookVars, ServesOthers \/ Network
      PROVE  PendingInv'
  <2>1. UNCHANGED <<events, PENDING_CLIENT>>
    BY <1>1, EventsKept DEF hookVars
  <2>2. ASSUME NEW k \in Key
        PROVE  Tracked(k) \/ ClearsPending(k) => Tracked(k)' \/ ClearsPending(k)'
    <3>1. HandsOver(k)
      BY <1>1, TaskHandsOver DEF TypeOK, TaskTypes
    <3>2. CallsPending(k)' => ClearsPending(k)'
      BY DEF CallsPending, ClearsPending, Releasing, Underway
    <3>3. ClearsPending(k) => ClearsPending(k)'
      BY <1>1, CallsWait, TaskKeepsClears
    <3>. QED
      BY <3>1, <3>2, <3>3 DEF HandsOver
  <2>. QED
    BY <2>1, <2>2 DEF PendingInv, TypeOK, HookTypeOK
<1>2. ASSUME UNCHANGED hookVars, ServesEvents
      PROVE  PendingInv'
  <2>1. SUFFICES ASSUME NEW k \in Key, k = PENDING_CLIENT, k # None
                 PROVE  IF events' # <<>> THEN events'[Len(events')] = Signal(k, "BeginPending")
                        ELSE Tracked(k)' \/ ClearsPending(k)'
    BY <1>2 DEF PendingInv, hookVars, TypeOK, HookTypeOK
  <2>2. /\ events # <<>> /\ events' = Tail(events)
        /\ (\E h \in Handle : NextEvent(h)) \/ NextEventUnsubscribed
    BY <1>2, Zenon DEF ServesEvents, NextFanned, NextEvent, NextEventUnsubscribed, OneSubscriber
  <2>3. events[Len(events)] = Signal(k, "BeginPending")
    BY <2>1, <2>2 DEF PendingInv
  <2>4. CASE events' # <<>>
    BY <2>2, <2>3, <2>4, TailFacts DEF TypeOK, TaskTypes
  <2>5. CASE events' = <<>>
    <3>1. Head(events).ev = "BeginPending" /\ Head(events).key = k
      BY <2>2, <2>3, <2>5, TailFacts DEF TypeOK, TaskTypes, Signal
    <3>2. ASSUME NEW h \in Handle, NextEvent(h)
          PROVE  Tracked(k)' \/ ClearsPending(k)'
      <4>1. Tracked(k)' \/ CallsPending(k)'
        BY <3>1, <3>2, CrossingTaken DEF TypeOK, TaskTypes
      <4>. QED
        BY <4>1 DEF CallsPending, ClearsPending, Releasing, Underway
    <3>3. ASSUME NextEventUnsubscribed
          PROVE  ClearsPending(k)'
      <4>1. ClearsPending(k)
        BY <2>1, <3>1, <3>3, UnsubscribedIsCleared DEF NextEventUnsubscribed, BarrierStates
      <4>. QED
        BY <1>2, <4>1, CallsWait, TaskKeepsClears
    <3>. QED
      BY <2>2, <2>5, <3>2, <3>3
  <2>. QED
    BY <2>4, <2>5
<1>3. ASSUME HookApi \/ HookLoop, UNCHANGED taskVars
      PROVE  PendingInv'
  <2>1. SUFFICES ASSUME NEW k \in Key, k = PENDING_CLIENT', k # None
                 PROVE  IF events' # <<>> THEN events'[Len(events')] = Signal(k, "BeginPending")
                        ELSE Tracked(k)' \/ ClearsPending(k)'
    <3>1. PENDING_CLIENT' \in Key \cup {None}
      BY <1>3, HookTypes DEF TypeOK, HookTypeOK
    <3>. QED
      BY <3>1 DEF PendingInv
  <2>2. PENDING_CLIENT = k /\ UNCHANGED events
    BY <1>3, <2>1
    DEF HookApi, HookLoop, SignalRelease, ClientUpdate, GetRelease, GetClientUpdate, ApplyCreate,
        ApplyDestroy, ApplyStartCapture, ApplyCancelPending
  <2>3. Tracked(k) => Tracked(k)'
    BY <1>3 DEF Tracked, keys_pressed, taskVars
  <2>4. ClearsPending(k) => ClearsPending(k)'
    BY <1>3, <2>1, HookKeepsClears
  <2>. QED
    BY <2>1, <2>2, <2>3, <2>4 DEF PendingInv
<1>4. ASSUME NEW k \in Key, MoveAcross(k)
      PROVE  PendingInv'
  <2>1. events' # <<>> /\ events'[Len(events')] = Signal(k, "BeginPending") /\ PENDING_CLIENT' = k
    BY <1>4, SignalTypes DEF MoveAcross, TypeOK, ApiTypeOK
  <2>. QED
    BY <2>1 DEF PendingInv
<1>5. ASSUME MoveWithin
      PROVE  PendingInv'
  BY <1>5 DEF MoveWithin, PendingInv
<1>6. ASSUME NEW i \in Input, HookInput(i)
      PROVE  PendingInv'
  BY <1>6 DEF HookInput, hookVars, PendingInv, BarrierStates
<1>7. CASE UNCHANGED vars
  <2>1. \A k : Tracked(k)' = Tracked(k) /\ ClearsPending(k)' = ClearsPending(k)
    BY <1>7
    DEF vars, hookVars, taskVars, Tracked, keys_pressed, ClearsPending, Releasing, Underway, Elems
  <2>. QED
    BY <1>7, <2>1 DEF vars, hookVars, PendingInv
<1>. QED
  BY <1>1, <1>2, <1>3, <1>4, <1>5, <1>6, <1>7 DEF Next, HookUser
(* With no release bind to type, and no triggers. *)
LEMMA ActiveStep ==
    ASSUME Trigger = {}, ~(ReleaseBind \subseteq Scancode), WinInv, ActiveInv, [Next]_vars
    PROVE  ActiveInv'
<1>. USE DEF WinInv
<1>0. events \in Seq(CaptureEvents) /\ ACTIVE_CLIENT \in Key \cup {None}
  BY DEF TypeOK, ApiTypeOK, HookTypeOK
<1>1. ASSUME UNCHANGED <<events, ACTIVE_CLIENT>>,
             \A k \in Key : k = ACTIVE_CLIENT =>
                (Owned(k) \/ ClearsActive(k) => Owned(k)' \/ ClearsActive(k)')
      PROVE  ActiveInv'
  BY <1>0, <1>1 DEF ActiveInv, OwnedFrom
<1>2. ASSUME UNCHANGED hookVars, ServesOthers \/ Network
      PROVE  ActiveInv'
  <2>1. UNCHANGED <<events, ACTIVE_CLIENT>>
    BY <1>2, EventsKept DEF hookVars
  <2>2. ASSUME NEW k \in Key
        PROVE  Owned(k) \/ ClearsActive(k) => Owned(k)' \/ ClearsActive(k)'
    <3>1. HandsOver(k)
      BY <1>2, TaskHandsOver DEF TypeOK, TaskTypes
    <3>2. CallsActive(k)' => ClearsActive(k)'
      BY DEF CallsActive, ClearsActive, Releasing, Underway
    <3>3. ClearsActive(k) => ClearsActive(k)'
      BY <1>2, CallsWait, TaskKeepsClears
    <3>. QED
      BY <3>1, <3>2, <3>3 DEF HandsOver
  <2>. QED
    BY <1>1, <2>1, <2>2
<1>3. ASSUME UNCHANGED hookVars, ServesEvents
      PROVE  ActiveInv'
  <2>1. SUFFICES ASSUME NEW k \in Key, k = ACTIVE_CLIENT, k # None
                 PROVE  \E i \in 0 .. Len(events') : OwnedFrom(i, k)'
    BY <1>0, <1>3 DEF ActiveInv, hookVars
  <2>2. /\ events # <<>> /\ events' = Tail(events)
        /\ (\E h \in Handle : NextEvent(h)) \/ NextEventUnsubscribed
    BY <1>3, Zenon DEF ServesEvents, NextFanned, NextEvent, NextEventUnsubscribed, OneSubscriber
  <2>3. PICK i \in 0 .. Len(events) : OwnedFrom(i, k)
    BY <2>1 DEF ActiveInv
  <2>4. ASSUME NEW n \in 0 .. Len(events), n = IF i = 0 THEN 0 ELSE i - 1,
               NEW j \in 1 .. Len(events'), j > n
        PROVE  events'[j].ev = "Input" /\ events'[j].key = k
    <3>1. j + 1 \in 1 .. Len(events) /\ j + 1 > i /\ events'[j] = events[j + 1]
      BY <2>2, <2>4, TailFacts DEF TypeOK, TaskTypes
    <3>. QED
      BY <2>3, <3>1 DEF OwnedFrom
  <2>5. CASE i > 1
    <3>1. i - 1 \in 1 .. Len(events') /\ events'[i - 1] = events[i]
      BY <2>2, <2>5, TailFacts DEF TypeOK, TaskTypes
    <3>2. events'[i - 1] = Signal(k, "Begin")
      BY <2>3, <2>5, <3>1 DEF OwnedFrom
    <3>3. \A j \in 1 .. Len(events') : j > i - 1 => events'[j].ev = "Input" /\ events'[j].key = k
      BY <2>4, <2>5
    <3>4. OwnedFrom(i - 1, k)'
      BY <2>5, <3>2, <3>3 DEF OwnedFrom
    <3>5. i - 1 \in 0 .. Len(events')
      BY <3>1
    <3>. QED
      BY <3>4, <3>5, Zenon
  <2>6. CASE i <= 1
    <3>1. /\ i = 0 => Owned(k) \/ ClearsActive(k)
          /\ IF i = 0 THEN Head(events).ev = "Input" /\ Head(events).key = k
             ELSE Head(events) = Signal(k, "Begin")
      BY <2>2, <2>3, <2>6, TailFacts DEF TypeOK, TaskTypes, OwnedFrom
    <3>2. ClearsActive(k) => ClearsActive(k)'
      BY <1>3, CallsWait, TaskKeepsClears
    <3>3. ASSUME NEW h \in Handle, NextEvent(h)
          PROVE  Owned(k)' \/ ClearsActive(k)'
      BY <2>6, <3>1, <3>2, <3>3, CaptureTaken DEF TypeOK, TaskTypes
    <3>4. ASSUME NextEventUnsubscribed
          PROVE  ClearsActive(k)'
      <4>1. Signal(k, "Begin").key = k
        BY DEF Signal
      <4>2. Head(events).key = k
        BY <3>1, <4>1
      <4>. QED
        BY <2>1, <3>2, <3>4, <4>2, UnsubscribedIsCleared DEF NextEventUnsubscribed, BarrierStates
    <3>5. Owned(k)' \/ ClearsActive(k)'
      BY <2>2, <3>3, <3>4
    <3>6. \A j \in 1 .. Len(events') : j > 0 => events'[j].ev = "Input" /\ events'[j].key = k
      BY <2>4, <2>6
    <3>7. OwnedFrom(0, k)' /\ 0 \in 0 .. Len(events')
      BY <2>2, <3>5, <3>6, TailFacts DEF TypeOK, TaskTypes, OwnedFrom
    <3>. QED
      BY <3>7
  <2>. QED
    BY <2>5, <2>6
<1>4. ASSUME HookApi \/ HookLoop, UNCHANGED taskVars, UNCHANGED <<events, ACTIVE_CLIENT>>
      PROVE  ActiveInv'
  <2>1. ASSUME NEW k \in Key, k = ACTIVE_CLIENT
        PROVE  Owned(k) \/ ClearsActive(k) => Owned(k)' \/ ClearsActive(k)'
    <3>1. Owned(k) => Owned(k)'
      BY <1>4 DEF Owned, taskVars
    <3>. QED
      BY <1>4, <2>1, <3>1, HookKeepsClears
  <2>. QED
    BY <1>1, <1>4, <2>1
<1>5. ASSUME ACTIVE_CLIENT' = None
      PROVE  ActiveInv'
  BY <1>5 DEF ActiveInv
<1>6. ASSUME ApplyStartCapture, UNCHANGED taskVars
      PROVE  ActiveInv'
  <2>1. CASE UNCHANGED <<events, ACTIVE_CLIENT>>
    BY <1>4, <1>6, <2>1 DEF HookLoop
  <2>2. ASSUME NEW k \in Key, ACTIVE_CLIENT' = k, events' = Append(events, Signal(k, "Begin"))
        PROVE  ActiveInv'
    <3>1. PICK n \in Nat \ {0} : n = Len(events') /\ events'[n] = Signal(k, "Begin")
      <4>1. /\ Len(events') = Len(events) + 1 /\ Len(events) \in Nat
            /\ events'[Len(events) + 1] = Signal(k, "Begin")
        BY <1>0, <2>2, SignalTypes
      <4>. QED
        BY <4>1
    <3>2. OwnedFrom(n, k)'
      BY <3>1 DEF OwnedFrom
    <3>. QED
      BY <2>2, <3>1, <3>2 DEF ActiveInv
  <2>3. Head(draining).key \in Key
    <3>1. Head(draining) \in ClientUpdates
      BY <1>6 DEF ApplyStartCapture, Applying, TypeOK, HookTypeOK
    <3>. QED
      BY <3>1 DEF ClientUpdates
  <2>. QED
    BY <1>6, <2>1, <2>2, <2>3 DEF ApplyStartCapture
<1>7. ASSUME HookApi \/ HookLoop, ~ApplyStartCapture
      PROVE  ACTIVE_CLIENT' = None \/ UNCHANGED <<events, ACTIVE_CLIENT>>
  BY <1>7
  DEF HookApi, HookLoop, SignalRelease, ClientUpdate, GetRelease, GetClientUpdate, ApplyCreate,
      ApplyDestroy, ApplyCancelPending
<1>8. ASSUME NEW x \in Input, HookInput(x), UNCHANGED taskVars
      PROVE  ActiveInv'
  <2>1. SUFFICES ASSUME NEW k \in Key, k = ACTIVE_CLIENT, k # None
                 PROVE  \E i \in 0 .. Len(events') : OwnedFrom(i, k)'
    BY <1>0, <1>8 DEF ActiveInv, HookInput, hookVars
  <2>2. PICK i \in 0 .. Len(events) : OwnedFrom(i, k)
    BY <2>1 DEF ActiveInv
  <2>3. /\ Len(events') = Len(events) + 1 /\ Len(events) \in Nat
        /\ \A j \in 1 .. Len(events) : events'[j] = events[j]
        /\ events'[Len(events) + 1] = InputEvent(k, x)
    <3>1. events' = Append(events, InputEvent(k, x)) /\ InputEvent(k, x) \in CaptureEvents
      BY <1>8, <2>1, InputTypes DEF HookInput
    <3>. QED
      BY <1>0, <3>1
  <2>4. InputEvent(k, x).ev = "Input" /\ InputEvent(k, x).key = k
    BY DEF InputEvent
  <2>5. Owned(k)' = Owned(k) /\ ClearsActive(k)' = ClearsActive(k)
    BY <1>8
    DEF HookInput, hookVars, taskVars, Owned, ClearsActive, Releasing, Underway
  <2>6. OwnedFrom(i, k)'
    <3>0. \A j \in 1 .. Len(events) : j > i => events[j].ev = "Input" /\ events[j].key = k
      BY <2>2 DEF OwnedFrom
    <3>1. ASSUME NEW j \in 1 .. Len(events'), j > i
          PROVE  events'[j].ev = "Input" /\ events'[j].key = k
      <4>1. CASE j = Len(events) + 1
        BY <2>3, <2>4, <4>1
      <4>2. CASE j \in 1 .. Len(events)
        BY <2>3, <3>0, <3>1, <4>2
      <4>3. j = Len(events) + 1 \/ j \in 1 .. Len(events)
        BY <2>3
      <4>. QED
        BY <4>1, <4>2, <4>3
    <3>2. i # 0 => events'[i] = events[i]
      BY <2>3
    <3>3. IF i = 0 THEN Owned(k)' \/ ClearsActive(k)' ELSE events'[i] = Signal(k, "Begin")
      BY <2>2, <2>5, <3>2 DEF OwnedFrom
    <3>. QED
      BY <3>1, <3>3 DEF OwnedFrom
  <2>7. i \in 0 .. Len(events')
    BY <2>3
  <2>. QED
    BY <2>6, <2>7
<1>9. CASE UNCHANGED vars
  <2>1. \A k : Owned(k)' = Owned(k) /\ ClearsActive(k)' = ClearsActive(k)
    BY <1>9 DEF vars, hookVars, taskVars, Owned, ClearsActive, Releasing, Underway
  <2>. QED
    BY <1>1, <1>9, <2>1 DEF vars, hookVars
<1>10. ASSUME (\E k \in Key : MoveAcross(k)) \/ MoveWithin
       PROVE  ACTIVE_CLIENT' = None
  BY <1>10 DEF MoveAcross, MoveWithin
<1>. QED
  BY <1>2, <1>3, <1>4, <1>5, <1>6, <1>7, <1>8, <1>9, <1>10 DEF Next, HookUser
-----------------------------------------------------------------------------
LEMMA WinInvHolds == ASSUME Trigger = {} PROVE Spec => []WinInv
<1>1. Init => OneSubscriber /\ FollowInv
  <2>1. Init => Elems(calls) = {} /\ Len(Requests) = 0 /\ Requests = <<>>
    BY ElemsFew DEF Init, HookInit, Requests
  <2>2. Init => OneSubscriber
    BY DEF Init, TaskInit, OneSubscriber, Handle
  <2>3. Init => FollowInv
    BY <2>1, ElemsFew DEF Init, HookInit, FollowInv, ClosedIn
  <2>. QED
    BY <2>2, <2>3
<1>2. TypeOK /\ OneSubscriber /\ [Next]_vars => OneSubscriber'
  BY SubscriberStep DEF Next, vars, TypeOK, TaskTypes
<1>. QED
  BY <1>1, <1>2, FollowStep, TypeCorrect, BarriersConsistent, NoGhostActive, PTL DEF Spec, WinInv

(* when everything is settled, no message is under way *)
LEMMA SettledClears ==
    ASSUME WinInv, Settled, NEW k
    PROVE  ~ClearsPending(k) /\ ~ClearsActive(k)
<1>1. Elems(calls) = {} /\ Elems(posted) = {} /\ Elems(draining) = {}
  BY ElemsFew DEF Settled
<1>2. Elems(request_buffer) = {}
  BY <1>1, ElemsFew DEF WinInv, FollowInv
<1>. QED
  BY <1>1, <1>2 DEF ClearsPending, ClearsActive, Releasing, Underway

(* For any number of clients and keys, any release bind and any capacity of   *)
(* the channels, and without triggers: a barrier that the hook thread holds   *)
(* pending once all messages are handled is the one whose Ack the task waits  *)
(* for, so the 500 ms timeout of pending_tick clears it, unless the task      *)
(* takes the release bind for held.                                           *)
THEOREM CrossingsTracked == ASSUME Trigger = {} PROVE Spec => []PendingIsTracked
<1>1. Init => PendingInv
  BY DEF Init, HookInit, PendingInv
<1>2. WinInv /\ PendingInv /\ [Next]_vars => PendingInv'
  BY PendingStep
<1>3. WinInv /\ PendingInv => PendingIsTracked
  BY SettledClears DEF PendingInv, PendingIsTracked, Settled, Tracked
<1>. QED
  BY <1>1, <1>2, <1>3, WinInvHolds, PTL DEF Spec

(* For any number of clients and keys and any capacity of the channels, with  *)
(* no triggers and a release bind that the keyboard lacks a key of: once all  *)
(* messages are handled, the hook thread swallows input only for the client   *)
(* that the task sends to.                                                    *)
THEOREM CapturesOwned ==
    ASSUME Trigger = {}, ~(ReleaseBind \subseteq Scancode)
    PROVE  Spec => []CaptureIsOwned
<1>1. Init => ActiveInv
  BY DEF Init, HookInit, ActiveInv
<1>2. WinInv /\ ActiveInv /\ [Next]_vars => ActiveInv'
  BY ActiveStep
<1>3. WinInv /\ ActiveInv => CaptureIsOwned
  <2>1. ASSUME WinInv, ActiveInv, Settled, ACTIVE_CLIENT # None
        PROVE  Owned(ACTIVE_CLIENT)
    <3>1. PICK i \in 0 .. 0 : OwnedFrom(i, ACTIVE_CLIENT)
      BY <2>1 DEF ActiveInv, Settled
    <3>2. Owned(ACTIVE_CLIENT) \/ ClearsActive(ACTIVE_CLIENT)
      BY <3>1 DEF OwnedFrom
    <3>. QED
      BY <2>1, <3>2, SettledClears
  <2>. QED
    BY <2>1 DEF CaptureIsOwned, Owned
<1>. QED
  BY <1>1, <1>2, <1>3, WinInvHolds, PTL DEF Spec
==============================================================================
