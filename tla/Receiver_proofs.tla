-------------------------- MODULE Receiver_proofs --------------------------
(***************************************************************************)
(* Proofs about module Receiver, for any number of peers, sessions, keys   *)
(* and trigger handles and any bounds on the queues.                       *)
(***************************************************************************)
EXTENDS Receiver, FiniteSetTheorems, SequenceTheorems, TLAPS

-----------------------------------------------------------------------------
\* What a request of the queue carries, by its kind (enum ProxyRequest).
LEMMA RequestFields ==
    ASSUME NEW r \in ProxyRequest
    PROVE  /\ r.t = "Input" => r.addr \in Addr /\ r.key \in Key \cup {NoKey}
           /\ r.t = "Remove" => r.addr \in Addr /\ r = Remove(r.addr)
BY DEF ProxyRequest, Input, Remove, Terminate, Reenable, InputEvent

\* Every request the listen task makes is one of ProxyRequest.
LEMMA RequestKinds ==
    /\ \A a \in Addr, e \in InputEvent : Input(a, e[1], e[2]) \in ProxyRequest
    /\ \A a \in Addr : Remove(a) \in ProxyRequest
    /\ Terminate \in ProxyRequest /\ Reenable \in ProxyRequest
BY DEF ProxyRequest

-----------------------------------------------------------------------------
(* Sessions and the registry. *)

(* A session the peer has not dialled has no supervisor. *)
SessionsInv ==
    /\ RegisteredIsSupervised
    /\ \A s \in Session : conn[s] = "free" => supervisor[s] = "none"

SessionTypes ==
    /\ conn \in [Session -> {"free", "open", "closed"}]
    /\ supervisor \in [Session -> {"none", "hello", "run", "end"}]
    /\ quic_conns \in [Addr -> Session \cup {NoSession}]

\* Every step that touches the sessions keeps their types and SessionsInv.
LEMMA SessionsStep ==
    ASSUME SessionTypes, SessionsInv, [Next]_vars
    PROVE  SessionTypes' /\ SessionsInv'
<1> USE DEF SessionTypes, SessionsInv, RegisteredIsSupervised
<1>0. \A s \in Session : s[1] \in Addr
  BY DEF Session
<1>1. ASSUME NEW s \in Session, PeerDials(s) PROVE SessionTypes' /\ SessionsInv'
  BY <1>0, <1>1 DEF PeerDials
<1>2. ASSUME NEW s \in Session, ConnectionCloses(s) PROVE SessionTypes' /\ SessionsInv'
  BY <1>0, <1>2 DEF ConnectionCloses
<1>3. ASSUME NEW s \in Session, HelloDone(s) PROVE SessionTypes' /\ SessionsInv'
  BY <1>0, <1>3 DEF HelloDone
<1>4. ASSUME NEW s \in Session, HelloFails(s) PROVE SessionTypes' /\ SessionsInv'
  BY <1>0, <1>4 DEF HelloFails, LocallyClosed
<1>5. ASSUME NEW s \in Session, supervisor[s] = "run", SupervisorEnds(s), UNCHANGED conn
      PROVE  SessionTypes' /\ SessionsInv'
  BY <1>0, <1>5 DEF SupervisorEnds
<1>6. ASSUME UNCHANGED listenVars PROVE SessionTypes' /\ SessionsInv'
  BY <1>6 DEF listenVars
<1>7. ASSUME NEW S, LocallyClosed(S), UNCHANGED <<supervisor, quic_conns>>
      PROVE  SessionTypes' /\ SessionsInv'
  BY <1>7 DEF LocallyClosed
<1>8. ASSUME UNCHANGED <<conn, supervisor, quic_conns>> PROVE SessionTypes' /\ SessionsInv'
  BY <1>8
<1>9. ASSUME NEW s \in Session, Arrival(s) PROVE SessionTypes' /\ SessionsInv'
  <2>1. ASSUME NEW f \in Frame, SupervisorRead(s, f) PROVE SessionTypes' /\ SessionsInv'
    <3>1. \/ SupervisorEnds(s) /\ UNCHANGED conn
          \/ UNCHANGED <<conn, supervisor, quic_conns>>
      BY <2>1 DEF SupervisorRead
    <3> QED
      BY <2>1, <3>1, <1>5, <1>8 DEF SupervisorRead
  <2>2. ASSUME NEW e \in InputEvent, ReadInput(s, e) PROVE SessionTypes' /\ SessionsInv'
    BY <2>2, <1>6 DEF ReadInput
  <2> QED
    BY <1>9, <1>3, <1>4, <2>1, <2>2 DEF Arrival
<1>10. ASSUME NEW s \in Session, SessionStep(s) PROVE SessionTypes' /\ SessionsInv'
  BY <1>10, <1>5, <1>8 DEF SessionStep, SupervisorLosesConnection, ReadersEnd
<1>11. CASE Wake
  BY <1>11, <1>7 DEF Wake
<1>12. CASE Sweep
  BY <1>12, <1>7 DEF Sweep
<1>13. CASE ListenStep
  BY <1>13, <1>6 DEF ListenStep, TakeEnter, TakeLeave, TakeAccept, TakeDisconnected,
                     TakeOther, TakeInput, TakeProxyEvent
<1>14. CASE RequestReenable \/ RequestTerminate \/ TerminateDone \/ EmulationTaskStep
            \/ \E a \in Addr : Age(a)
  BY <1>14, <1>6 DEF RequestReenable, RequestTerminate, TerminateDone, EmulationTaskStep, Age
<1>15. CASE UNCHANGED vars
  BY <1>15, <1>6 DEF vars
<1> QED
  BY <1>1, <1>2, <1>9, <1>10, <1>11, <1>12, <1>13, <1>14, <1>15 DEF Next

\* The sessions that quic_conns registers are supervised, whatever redials
\* overlap: HelloDone writes and QuicConnGuard clears an entry of its own
\* address only.
THEOREM RegistryIsSupervised == Spec => []RegisteredIsSupervised
<1>1. Init => SessionTypes /\ SessionsInv
  BY DEF Init, SessionTypes, SessionsInv, RegisteredIsSupervised
<1>2. SessionTypes /\ SessionsInv /\ [Next]_vars => SessionTypes' /\ SessionsInv'
  BY SessionsStep
<1>3. SessionsInv => RegisteredIsSupervised
  BY DEF SessionsInv
<1> QED
  BY <1>1, <1>2, <1>3, PTL DEF Spec

-----------------------------------------------------------------------------
(* Incoming peers and their triggers. *)

(* next_trigger_handle is fresh. *)
TriggersInv ==
    /\ OneTriggerPerPeer
    /\ next_trigger \in Nat
    /\ DOMAIN incoming \subseteq 0..(next_trigger - 1)

\* add_incoming, after remove_incoming of a set of handles that holds every
\* entry of the peer, keeps one handle per peer.
LEMMA ReplaceKeepsOne ==
    ASSUME TriggersInv, NEW i, NEW old \in SUBSET DOMAIN incoming, ReplaceIncoming(old, i),
           \A h \in old : incoming[h].addr = i.addr,
           \A h \in DOMAIN incoming \ old : incoming[h].addr # i.addr
    PROVE  TriggersInv'
<1> DEFINE D == (DOMAIN incoming \ old) \cup {next_trigger}
<1>1. /\ DOMAIN incoming' = D
      /\ incoming'[next_trigger] = i
      /\ \A h \in D \ {next_trigger} : incoming'[h] = incoming[h]
  BY DEF ReplaceIncoming
<1>2. /\ next_trigger \in Nat /\ next_trigger' = next_trigger + 1
      /\ next_trigger \notin DOMAIN incoming
  BY DEF TriggersInv, ReplaceIncoming
<1>3. next_trigger' \in Nat /\ DOMAIN incoming' \subseteq 0..(next_trigger' - 1)
  BY <1>1, <1>2 DEF TriggersInv
<1>4. triggers' = DOMAIN incoming'
  BY <1>1 DEF ReplaceIncoming, TriggersInv, OneTriggerPerPeer
<1>5. \A g, h \in DOMAIN incoming' : incoming'[g].addr = incoming'[h].addr => g = h
  BY <1>1, <1>2 DEF TriggersInv, OneTriggerPerPeer
<1>6. incoming_conns' = incoming_conns \cup {i.addr}
  BY DEF ReplaceIncoming
<1>7. incoming_conns = {incoming[h].addr : h \in DOMAIN incoming}
  BY DEF TriggersInv, OneTriggerPerPeer
<1>8. {incoming[h].addr : h \in DOMAIN incoming} \cup {i.addr}
        = {incoming'[h].addr : h \in DOMAIN incoming'}
  <2> SUFFICES ASSUME NEW x
               PROVE  (\E h \in DOMAIN incoming : x = incoming[h].addr) \/ x = i.addr
                        <=> \E h \in DOMAIN incoming' : x = incoming'[h].addr
    OBVIOUS
  <2> QED
    BY <1>1, <1>2
<1> HIDE DEF D
<1> QED
  BY <1>3, <1>4, <1>5, <1>6, <1>7, <1>8 DEF TriggersInv, OneTriggerPerPeer

\* Only an Enter changes the triggers.
LEMMA TriggersStep == TriggersInv /\ [Next]_vars => TriggersInv'
<1> SUFFICES ASSUME TriggersInv, [Next]_vars PROVE TriggersInv'
  OBVIOUS
<1>1. ASSUME UNCHANGED incomingVars PROVE TriggersInv'
  BY <1>1 DEF TriggersInv, OneTriggerPerPeer, incomingVars
<1>2. ASSUME NEW a \in Addr, NEW p \in Pos, TakeEnter(a, p) PROVE TriggersInv'
  <2> DEFINE i == [addr |-> a, pos |-> p, known |-> a \in fingerprints]
  <2>1. PeerEntered(i)
    BY <1>2 DEF TakeEnter
  <2> HIDE DEF i
  <2>2. CASE UNCHANGED incomingVars
    BY <2>2, <1>1
  <2>3. CASE i.addr \notin incoming_conns /\ ReplaceIncoming({}, i)
    <3>1. \A h \in DOMAIN incoming : incoming[h].addr # i.addr
      BY <2>3 DEF TriggersInv, OneTriggerPerPeer
    <3> QED
      BY <2>3, <3>1, ReplaceKeepsOne
  <2>4. ASSUME NEW h \in DOMAIN incoming, incoming[h].addr = i.addr, ReplaceIncoming({h}, i)
        PROVE  TriggersInv'
    <3>1. \A g \in DOMAIN incoming \ {h} : incoming[g].addr # i.addr
      BY <2>4 DEF TriggersInv, OneTriggerPerPeer
    <3> QED
      BY <2>4, <3>1, ReplaceKeepsOne
  <2> QED
    BY <2>1, <2>2, <2>3, <2>4 DEF PeerEntered
<1>3. ASSUME NEW s \in Session,
             PeerDials(s) \/ ConnectionCloses(s) \/ Arrival(s) \/ SessionStep(s)
      PROVE  TriggersInv'
  BY <1>1, <1>3 DEF PeerDials, ConnectionCloses, Arrival, SessionStep, HelloDone, HelloFails,
                    SupervisorRead, ReadInput, SupervisorLosesConnection, ReadersEnd, serviceVars
<1>4. CASE Wake \/ RequestReenable \/ RequestTerminate \/ Sweep \/ TerminateDone
           \/ EmulationTaskStep \/ \E a \in Addr : Age(a)
  BY <1>1, <1>4 DEF Wake, RequestReenable, RequestTerminate, Sweep, TerminateDone,
                    EmulationTaskStep, Age, serviceVars
<1>5. CASE ListenStep
  BY <1>1, <1>2, <1>5 DEF ListenStep, TakeLeave, TakeAccept, TakeDisconnected, TakeOther,
                          TakeInput, TakeProxyEvent, serviceVars
<1>6. CASE UNCHANGED vars
  BY <1>1, <1>6 DEF vars, serviceVars
<1> QED
  BY <1>3, <1>4, <1>5, <1>6 DEF Next

\* Every incoming peer has one trigger, for any number of peers and of
\* reconnections from other edges.
THEOREM TriggersAreOne == Spec => []OneTriggerPerPeer
<1>1. Init => TriggersInv
  BY DEF Init, TriggersInv, OneTriggerPerPeer
<1>2. TriggersInv => OneTriggerPerPeer
  BY DEF TriggersInv
<1> QED
  BY <1>1, <1>2, TriggersStep, PTL DEF Spec

-----------------------------------------------------------------------------
(* Keys pressed for a peer. *)

(* The queue q holds no input of a; its last word about a is a Remove. *)
InputAt(q, i, a) == q[i].t = "Input" /\ q[i].addr = a
Quiet(q, a) == \A i \in DOMAIN q : ~InputAt(q, i, a)
Ends(q, a) == \E i \in DOMAIN q : /\ q[i] = Remove(a)
                                  /\ \A j \in DOMAIN q : j > i => ~InputAt(q, j, a)

\* A request that is no input of a leaves the peer quiet or removed.
LEMMA AppendKeeps ==
    ASSUME NEW q \in Seq(ProxyRequest), NEW r \in ProxyRequest, NEW a,
           ~(r.t = "Input" /\ r.addr = a)
    PROVE  /\ Quiet(q, a) => Quiet(Append(q, r), a)
           /\ Ends(q, a) => Ends(Append(q, r), a)
<1>1. /\ DOMAIN Append(q, r) = 1..(Len(q) + 1) /\ DOMAIN q = 1..Len(q) /\ Len(q) \in Nat
      /\ \A i \in 1..Len(q) : Append(q, r)[i] = q[i]
      /\ Append(q, r)[Len(q) + 1] = r
  OBVIOUS
<1>2. ASSUME NEW i \in 1..(Len(q) + 1), i \notin 1..Len(q) PROVE i = Len(q) + 1
  BY <1>1, <1>2
<1> HIDE DEF Remove
<1> QED
  BY <1>1, <1>2 DEF Quiet, Ends, InputAt

\* A Remove that is sent last is the last word.
LEMMA RemoveEnds ==
    ASSUME NEW q \in Seq(ProxyRequest), NEW a \in Addr
    PROVE  Ends(Append(q, Remove(a)), a)
<1>1. /\ DOMAIN Append(q, Remove(a)) = 1..(Len(q) + 1) /\ Len(q) \in Nat
      /\ Append(q, Remove(a))[Len(q) + 1] = Remove(a)
  BY RequestKinds
<1> QED
  BY <1>1 DEF Ends

\* What is left of the queue after its first n requests.
LEMMA SuffixKeeps ==
    ASSUME NEW q \in Seq(ProxyRequest), NEW a, NEW n \in 1..Len(q)
    PROVE  /\ Quiet(q, a) => Quiet(SubSeq(q, n + 1, Len(q)), a)
           /\ Ends(q, a) => \/ Quiet(SubSeq(q, n + 1, Len(q)), a)
                            \/ Ends(SubSeq(q, n + 1, Len(q)), a)
           /\ Ends(q, a) /\ (\A i \in 1..n : q[i] # Remove(a))
                => Ends(SubSeq(q, n + 1, Len(q)), a)
<1> DEFINE rest == SubSeq(q, n + 1, Len(q))
<1>1. /\ DOMAIN rest = 1..(Len(q) - n) /\ DOMAIN q = 1..Len(q) /\ Len(q) \in Nat
      /\ \A i \in 1..(Len(q) - n) : rest[i] = q[i + n]
  OBVIOUS
<1> HIDE DEF rest
<1>2. Quiet(q, a) => Quiet(rest, a)
  BY <1>1 DEF Quiet, InputAt
<1>3. ASSUME NEW i \in DOMAIN q, q[i] = Remove(a),
             \A j \in DOMAIN q : j > i => ~InputAt(q, j, a)
      PROVE  IF i <= n THEN Quiet(rest, a) ELSE Ends(rest, a)
  <2>1. CASE i <= n
    BY <1>1, <1>3, <2>1 DEF Quiet, InputAt
  <2>2. CASE i > n
    <3>1. i - n \in DOMAIN rest /\ rest[i - n] = Remove(a)
      BY <1>1, <1>3, <2>2
    <3>2. \A j \in DOMAIN rest : j > i - n => ~InputAt(rest, j, a)
      BY <1>1, <1>3, <2>2 DEF InputAt
    <3> QED
      BY <3>1, <3>2, <2>2, <1>1 DEF Ends
  <2> QED
    BY <1>1, <2>1, <2>2
<1>4. /\ Ends(q, a) => Quiet(rest, a) \/ Ends(rest, a)
      /\ Ends(q, a) /\ (\A i \in 1..n : q[i] # Remove(a)) => Ends(rest, a)
  BY <1>1, <1>3 DEF Ends
<1> QED
  BY <1>2, <1>4 DEF rest

\* The same for one request.
LEMMA TailKeeps ==
    ASSUME NEW q \in Seq(ProxyRequest), NEW a, q # <<>>
    PROVE  /\ Tail(q) \in Seq(ProxyRequest) /\ Head(q) = q[1] /\ Head(q) \in ProxyRequest
           /\ Quiet(q, a) => Quiet(Tail(q), a) /\ ~InputAt(q, 1, a)
           /\ Ends(q, a) => Quiet(Tail(q), a) \/ Ends(Tail(q), a)
           /\ Ends(q, a) /\ q[1] # Remove(a) => Ends(Tail(q), a)
<1>1. /\ Tail(q) = SubSeq(q, 1 + 1, Len(q)) /\ 1 \in 1..Len(q) /\ 1 \in DOMAIN q
      /\ Head(q) = q[1] /\ Head(q) \in ProxyRequest
  OBVIOUS
<1>2. \A i \in 1..1 : i = 1
  OBVIOUS
<1>3. /\ Quiet(q, a) => Quiet(Tail(q), a)
      /\ Ends(q, a) => Quiet(Tail(q), a) \/ Ends(Tail(q), a)
      /\ Ends(q, a) /\ (\A i \in 1..1 : q[i] # Remove(a)) => Ends(Tail(q), a)
  BY <1>1, SuffixKeeps, Zenon
<1>4. Quiet(q, a) => ~InputAt(q, 1, a)
  BY <1>1 DEF Quiet
<1>5. Tail(q) \in Seq(ProxyRequest)
  OBVIOUS
<1>6. q[1] # Remove(a) => \A i \in 1..1 : q[i] # Remove(a)
  BY <1>2, Zenon
<1> QED
  BY <1>1, <1>3, <1>4, <1>5, <1>6, Zenon

-----------------------------------------------------------------------------
Watched(a) == \/ a \in last_response
              \/ pressed_keys[a] = {} /\ Quiet(request_rx, a)
              \/ Ends(request_rx, a)

KeyTypes ==
    /\ request_rx \in Seq(ProxyRequest)
    /\ pressed_keys \in [Addr -> SUBSET Key]
    /\ late \subseteq last_response /\ last_response \subseteq Addr

NothingPressed == pressed_keys = [a \in Addr |-> {}]

(* No key is pressed outside a session: that is why the requests that are  *)
(* taken and forgotten there may be Removes.                               *)
KeysInv ==
    /\ KeyTypes
    /\ phase \in {"new", "idle", "exited"} => NothingPressed
    /\ \A a \in Addr : Watched(a)

\* ListenTask learns of peers and queues nothing.
LEMMA NothingQueued ==
    ASSUME KeysInv, UNCHANGED <<request_rx, pressed_keys, phase>>,
           last_response \subseteq last_response', last_response' \subseteq Addr,
           late' \subseteq last_response'
    PROVE  KeysInv'
BY DEF KeysInv, KeyTypes, NothingPressed, Watched

\* ListenTask queues a request that is no input.
LEMMA RequestQueued ==
    ASSUME KeysInv, UNCHANGED <<pressed_keys, phase>>, NEW r \in ProxyRequest,
           r.t # "Input", request_rx' = Append(request_rx, r),
           last_response \subseteq last_response', last_response' \subseteq Addr,
           late' \subseteq last_response'
    PROVE  KeysInv'
<1>1. request_rx' \in Seq(ProxyRequest)
  BY DEF KeysInv, KeyTypes
<1>2. \A a \in Addr : Watched(a)'
  BY AppendKeeps DEF KeysInv, KeyTypes, Watched
<1> QED
  BY <1>1, <1>2 DEF KeysInv, KeyTypes, NothingPressed

\* Input is queued for a peer that is in last_response.
LEMMA InputQueued ==
    ASSUME KeysInv, NEW a \in Addr, NEW e \in InputEvent, TakeInput(a, e)
    PROVE  KeysInv'
<1>1. /\ UNCHANGED <<pressed_keys, phase>> /\ last_response' = last_response \cup {a}
      /\ late' \subseteq last_response' /\ last_response' \subseteq Addr
  BY DEF TakeInput, Heard, TaskKeeps, KeysInv, KeyTypes
<1>2. CASE request_rx' = request_rx
  BY <1>1, <1>2, NothingQueued
<1>3. CASE request_rx' = Append(request_rx, Input(a, e[1], e[2]))
  <2> DEFINE r == Input(a, e[1], e[2])
  <2>1. r \in ProxyRequest /\ r.addr = a
    BY RequestKinds DEF Input
  <2> HIDE DEF r
  <2>2. request_rx' \in Seq(ProxyRequest)
    BY <1>3, <2>1 DEF KeysInv, KeyTypes, r
  <2>3. ASSUME NEW b \in Addr PROVE Watched(b)'
    <3>1. CASE b = a
      BY <1>1, <3>1 DEF Watched
    <3>2. CASE b # a
      BY <1>1, <1>3, <2>1, <3>2, AppendKeeps DEF KeysInv, KeyTypes, Watched, r
    <3> QED
      BY <3>1, <3>2
  <2> QED
    BY <1>1, <2>2, <2>3 DEF KeysInv, KeyTypes, NothingPressed
<1> QED
  BY <1>2, <1>3 DEF TakeInput, ProxyConsume, Request

\* A peer that disconnects is removed.
LEMMA PeerRemoved ==
    ASSUME KeysInv, NEW a \in Addr, TakeDisconnected(a)
    PROVE  KeysInv'
<1>1. /\ UNCHANGED <<pressed_keys, phase>> /\ last_response' = last_response \ {a}
      /\ late' = late \ {a} /\ request_rx' = Append(request_rx, Remove(a))
  BY DEF TakeDisconnected, TaskKeeps, ProxyRemove, Request
<1>2. Remove(a) \in ProxyRequest /\ Remove(a).t # "Input"
  BY RequestKinds DEF Remove
<1>3. request_rx' \in Seq(ProxyRequest)
  BY <1>1, <1>2 DEF KeysInv, KeyTypes
<1>4. ASSUME NEW b \in Addr PROVE Watched(b)'
  <2>1. CASE b = a
    BY <1>1, <2>1, RemoveEnds DEF KeysInv, KeyTypes, Watched
  <2>2. CASE b # a
    BY <1>1, <1>2, <2>2, AppendKeeps DEF KeysInv, KeyTypes, Watched
  <2> QED
    BY <2>1, <2>2
<1> QED
  BY <1>1, <1>3, <1>4 DEF KeysInv, KeyTypes, NothingPressed

\* The sweep removes every peer that it forgets.
LEMMA PeersSwept ==
    ASSUME KeysInv, Sweep
    PROVE  KeysInv'
<1>1. late \subseteq Addr /\ request_rx \in Seq(ProxyRequest)
  BY DEF KeysInv, KeyTypes
<1>2. Cardinality(late) \in Nat
  BY <1>1, AddrAssumption, FS_Subset, FS_CardinalityType
<1>3. PICK q \in [1..Cardinality(late) -> late] :
        /\ \A a \in late : \E i \in DOMAIN q : q[i] = a
        /\ request_rx' = request_rx \o [i \in DOMAIN q |-> Remove(q[i])]
  BY DEF Sweep
<1> DEFINE n == Cardinality(late)
           m == Len(request_rx)
           removes == [i \in 1..n |-> Remove(q[i])]
<1>4. /\ removes \in Seq(ProxyRequest) /\ Len(removes) = n /\ DOMAIN q = 1..n
      /\ request_rx' = request_rx \o removes
  <2>1. \A i \in 1..n : Remove(q[i]) \in ProxyRequest
    BY <1>1, RequestKinds
  <2>2. removes \in [1..n -> ProxyRequest] /\ DOMAIN q = 1..n
    BY <2>1, <1>3
  <2>3. removes \in Seq(ProxyRequest) /\ Len(removes) = n
    <3> HIDE DEF removes
    <3> QED
      BY <2>2, <1>2
  <2> QED
    BY <1>3, <2>2, <2>3
<1>5. /\ request_rx' \in Seq(ProxyRequest) /\ m \in Nat /\ n \in Nat
      /\ DOMAIN request_rx' = 1..(m + n) /\ DOMAIN request_rx = 1..m
      /\ \A i \in 1..m : request_rx'[i] = request_rx[i]
      /\ \A i \in 1..(m + n) : i > m => /\ i - m \in 1..n
                                        /\ request_rx'[i] = Remove(q[i - m])
  <2> HIDE DEF removes
  <2>1. /\ request_rx' \in Seq(ProxyRequest) /\ m \in Nat /\ n \in Nat
        /\ Len(request_rx') = m + n /\ DOMAIN request_rx = 1..m
        /\ \A i \in 1..m : request_rx'[i] = request_rx[i]
        /\ \A i \in 1..(m + n) : i > m => request_rx'[i] = removes[i - m]
    BY <1>1, <1>2, <1>4, ConcatProperties
  <2>2. DOMAIN request_rx' = 1..(m + n)
    BY <2>1
  <2>3. \A i \in 1..(m + n) : i > m => i - m \in 1..n
    BY <2>1
  <2> QED
    BY <2>1, <2>2, <2>3 DEF removes
<1> HIDE DEF n, m, removes
<1>6. \A i \in DOMAIN request_rx', a \in Addr : i > m => ~InputAt(request_rx', i, a)
  BY <1>5 DEF InputAt, Remove
<1>7. /\ UNCHANGED <<pressed_keys, phase>> /\ late' = {}
      /\ last_response' = last_response \ late
  BY DEF Sweep, TaskKeeps
<1>8. ASSUME NEW a \in Addr PROVE Watched(a)'
  <2>1. CASE a \in late
    <3>1. PICK i \in 1..n : q[i] = a
      BY <1>3, <1>4, <2>1
    <3>2. m + i \in DOMAIN request_rx' /\ request_rx'[m + i] = Remove(a)
      BY <1>5, <3>1
    <3>3. \A j \in DOMAIN request_rx' : j > m + i => ~InputAt(request_rx', j, a)
      BY <1>5, <1>6, <3>1
    <3> QED
      BY <3>2, <3>3 DEF Watched, Ends
  <2>2. CASE a \notin late
    <3>1. Quiet(request_rx, a) => Quiet(request_rx', a)
      BY <1>5, <1>6 DEF Quiet, InputAt
    <3>2. Ends(request_rx, a) => Ends(request_rx', a)
      <4> SUFFICES ASSUME NEW i \in DOMAIN request_rx, request_rx[i] = Remove(a),
                          \A j \in DOMAIN request_rx : j > i => ~InputAt(request_rx, j, a)
                   PROVE  Ends(request_rx', a)
        BY DEF Ends
      <4>1. i \in DOMAIN request_rx' /\ request_rx'[i] = Remove(a)
        BY <1>5
      <4>2. \A j \in DOMAIN request_rx' : j > i => ~InputAt(request_rx', j, a)
        BY <1>5, <1>6 DEF InputAt
      <4> QED
        BY <4>1, <4>2 DEF Ends
    <3> QED
      BY <3>1, <3>2, <2>2, <1>7 DEF KeysInv, Watched
  <2> QED
    BY <2>1, <2>2
<1> QED
  BY <1>5, <1>7, <1>8 DEF KeysInv, KeyTypes, NothingPressed

\* EmulationTask takes a request: keys are pressed by input of their peer
\* only, and a Remove leaves none.
LEMMA RequestTaken ==
    ASSUME KeysInv, request_rx # <<>>, request_rx' = Tail(request_rx),
           UNCHANGED <<last_response, late>>, pressed_keys' \in [Addr -> SUBSET Key],
           phase' \in {"new", "idle", "exited"} => NothingPressed',
           \A a \in Addr : /\ InputAt(request_rx, 1, a) \/ pressed_keys'[a] \subseteq pressed_keys[a]
                           /\ request_rx[1] = Remove(a) => pressed_keys'[a] = {}
    PROVE  KeysInv'
<1>1. request_rx' \in Seq(ProxyRequest)
  BY TailKeeps DEF KeysInv, KeyTypes
<1>2. ASSUME NEW a \in Addr PROVE Watched(a)'
  <2>1. CASE a \in last_response
    BY <2>1 DEF Watched
  <2>2. CASE pressed_keys[a] = {} /\ Quiet(request_rx, a)
    <3>1. Quiet(request_rx', a) /\ ~InputAt(request_rx, 1, a)
      BY <2>2, TailKeeps DEF KeysInv, KeyTypes
    <3> QED
      BY <2>2, <3>1 DEF Watched
  <2>3. CASE Ends(request_rx, a)
    <3>1. /\ Quiet(request_rx', a) \/ Ends(request_rx', a)
          /\ request_rx[1] # Remove(a) => Ends(request_rx', a)
      BY <2>3, TailKeeps DEF KeysInv, KeyTypes
    <3> QED
      BY <3>1 DEF Watched
  <2> QED
    BY <2>1, <2>2, <2>3 DEF KeysInv, Watched
<1> QED
  BY <1>1, <1>2 DEF KeysInv, KeyTypes

\* Requests that EmulationTask forgets between two sessions.
LEMMA RequestsForgotten ==
    ASSUME KeysInv, CreateEmulation, UNCHANGED <<last_response, late>>
    PROVE  KeysInv'
<1>1. NothingPressed /\ UNCHANGED pressed_keys /\ phase' = "session"
  BY DEF KeysInv, CreateEmulation
<1>2. CASE request_rx' = request_rx
  BY <1>1, <1>2 DEF KeysInv, KeyTypes, NothingPressed, Watched
<1>3. CASE request_rx' = <<>>
  BY <1>1, <1>3 DEF KeysInv, KeyTypes, NothingPressed, Watched, Quiet
<1>4. ASSUME NEW i \in DOMAIN request_rx,
             request_rx' = SubSeq(request_rx, i + 1, Len(request_rx))
      PROVE  KeysInv'
  <2>1. request_rx \in Seq(ProxyRequest) /\ i \in 1..Len(request_rx)
    BY DEF KeysInv, KeyTypes
  <2>2. PICK n \in 1..Len(request_rx) :
          request_rx' = SubSeq(request_rx, n + 1, Len(request_rx))
    BY <1>4, <2>1
  <2>3. ASSUME NEW a \in Addr
        PROVE  /\ Quiet(request_rx, a) => Quiet(request_rx', a)
               /\ Ends(request_rx, a) => Quiet(request_rx', a) \/ Ends(request_rx', a)
    BY <2>1, <2>2, SuffixKeeps
  <2>4. ASSUME NEW a \in Addr PROVE Watched(a)'
    <3>1. Watched(a) /\ pressed_keys'[a] = {}
      BY <1>1 DEF KeysInv, NothingPressed
    <3> QED
      BY <3>1, <2>3 DEF Watched
  <2>5. request_rx' \in Seq(ProxyRequest)
    BY <2>1, <2>2
  <2> QED
    BY <1>1, <2>4, <2>5 DEF KeysInv, KeyTypes, NothingPressed
<1> QED
  BY <1>2, <1>3, <1>4 DEF CreateEmulation

\* Every step of EmulationTask keeps the keys watched.
LEMMA EmulationKeeps ==
    ASSUME KeysInv, EmulationStep, UNCHANGED <<last_response, late>>
    PROVE  KeysInv'
<1> DEFINE Nothing == [a \in Addr |-> {}]
<1>0. /\ request_rx \in Seq(ProxyRequest) /\ pressed_keys \in [Addr -> SUBSET Key]
      /\ request_rx # <<>> => Head(request_rx) = request_rx[1] /\ Head(request_rx) \in ProxyRequest
  BY DEF KeysInv, KeyTypes
<1>1. CASE CreateEmulation
  BY <1>1, RequestsForgotten
<1>2. CASE CreateEmulationFails
  BY <1>2 DEF CreateEmulationFails, KeysInv, KeyTypes, NothingPressed, Watched
<1>3. CASE WaitForTermination
  <2>1. NothingPressed /\ UNCHANGED pressed_keys
    BY <1>3 DEF WaitForTermination, KeysInv
  <2> QED
    BY <1>0, <1>3, <2>1, RequestTaken DEF WaitForTermination, NothingPressed
<1>4. CASE Idle
  <2>1. NothingPressed /\ UNCHANGED pressed_keys
    BY <1>4 DEF Idle, KeysInv
  <2> QED
    BY <1>0, <1>4, <2>1, RequestTaken DEF Idle, NothingPressed
<1>5. CASE SessionInput
  <2> DEFINE r == Head(request_rx)
  <2>1. r = request_rx[1] /\ r.t = "Input" /\ r.addr \in Addr /\ r.key \in Key \cup {NoKey}
    BY <1>0, <1>5, RequestFields DEF SessionInput
  <2>2. \A a \in Addr : request_rx[1] # Remove(a)
    BY <2>1 DEF Remove
  <2>3. PICK after \in SUBSET Key : pressed_keys' = Set(r.addr, after)
    <3>1. pressed_keys[r.addr] \subseteq Key
      BY <1>0, <2>1
    <3> QED
      BY <1>5, <2>1, <3>1 DEF SessionInput
  <2>4. pressed_keys' \in [Addr -> SUBSET Key]
    BY <1>0, <2>1, <2>3 DEF Set
  <2>5. \A a \in Addr : a # r.addr => pressed_keys'[a] = pressed_keys[a]
    BY <1>0, <2>1, <2>3 DEF Set
  <2>6. phase' \in {"session", "hung"} /\ request_rx # <<>> /\ request_rx' = Tail(request_rx)
    BY <1>5 DEF SessionInput
  <2> HIDE DEF r
  <2> QED
    BY <2>1, <2>2, <2>4, <2>5, <2>6, RequestTaken DEF InputAt
<1>6. CASE SessionFails
  <2>1. pressed_keys' = Nothing
    BY <1>6 DEF SessionFails
  <2> QED
    BY <1>0, <1>6, <2>1, RequestTaken DEF SessionFails, NothingPressed
<1>7. CASE SessionRemove
  <2> DEFINE b == Head(request_rx).addr
  <2>1. request_rx[1] = Remove(b) /\ b \in Addr
    BY <1>0, <1>7, RequestFields DEF SessionRemove
  <2>2. pressed_keys' = Set(b, {}) /\ phase' \in {"session", "hung"}
    BY <1>7 DEF SessionRemove
  <2>3. \A a \in Addr : request_rx[1] = Remove(a) => a = b
    BY <2>1 DEF Remove
  <2> HIDE DEF b
  <2>4. /\ pressed_keys' \in [Addr -> SUBSET Key] /\ pressed_keys'[b] = {}
        /\ \A a \in Addr : pressed_keys'[a] \subseteq pressed_keys[a]
    BY <1>0, <2>1, <2>2 DEF Set
  <2> QED
    BY <1>7, <2>2, <2>3, <2>4, RequestTaken DEF SessionRemove
<1>8. CASE SessionTerminate
  <2>1. \A a \in Addr : request_rx[1] # Remove(a)
    BY <1>0, <1>8 DEF SessionTerminate, Terminate, Remove
  <2>2. \/ phase' = "hung" /\ \E a \in created : pressed_keys' = Set(a, {})
        \/ pressed_keys' = Nothing
    BY <1>8 DEF SessionTerminate, EndSession
  <2>3. /\ pressed_keys' \in [Addr -> SUBSET Key]
        /\ \A a \in Addr : pressed_keys'[a] \subseteq pressed_keys[a]
    BY <1>0, <2>2 DEF Set
  <2> QED
    BY <1>8, <2>1, <2>2, <2>3, RequestTaken DEF SessionTerminate, NothingPressed
<1>9. CASE SessionReenable
  <2>1. \A a \in Addr : request_rx[1] # Remove(a)
    BY <1>0, <1>9 DEF SessionReenable, Reenable, Remove
  <2> QED
    BY <1>0, <1>9, <2>1, RequestTaken DEF SessionReenable, NothingPressed
<1> QED
  BY <1>1, <1>2, <1>3, <1>4, <1>5, <1>6, <1>7, <1>8, <1>9 DEF EmulationStep

LEMMA KeysStep == KeysInv /\ [Next]_vars => KeysInv'
<1> SUFFICES ASSUME KeysInv, [Next]_vars PROVE KeysInv'
  OBVIOUS
<1>1. ASSUME UNCHANGED <<taskVars, last_response, late>> PROVE KeysInv'
  BY <1>1, NothingQueued DEF taskVars, KeysInv, KeyTypes
<1>2. ASSUME NEW s \in Session,
             PeerDials(s) \/ ConnectionCloses(s) \/ Arrival(s) \/ SessionStep(s)
      PROVE  KeysInv'
  BY <1>1, <1>2 DEF PeerDials, ConnectionCloses, Arrival, SessionStep, HelloDone, HelloFails,
                    SupervisorRead, ReadInput, SupervisorLosesConnection, ReadersEnd, listenLocals
<1>3. CASE Wake \/ TerminateDone \/ UNCHANGED vars
  BY <1>1, <1>3 DEF Wake, TerminateDone, vars, listenLocals
<1>4. ASSUME NEW a \in Addr, Heard(a), UNCHANGED taskVars PROVE KeysInv'
  BY <1>4, NothingQueued DEF Heard, taskVars, KeysInv, KeyTypes
<1>5. ASSUME NEW a \in Addr, Age(a) PROVE KeysInv'
  BY <1>5, NothingQueued DEF Age, taskVars, KeysInv, KeyTypes
<1>6. CASE RequestReenable \/ RequestTerminate
  <2>1. Reenable \in ProxyRequest /\ Terminate \in ProxyRequest
    BY RequestKinds
  <2>2. Reenable.t # "Input" /\ Terminate.t # "Input"
    BY DEF Reenable, Terminate
  <2>3. PICK r \in ProxyRequest : r.t # "Input" /\ request_rx' = Append(request_rx, r)
    BY <1>6, <2>1, <2>2 DEF RequestReenable, RequestTerminate, Request
  <2>4. UNCHANGED <<pressed_keys, phase, last_response, late>>
    BY <1>6 DEF RequestReenable, RequestTerminate, TaskKeeps, listenLocals
  <2> QED
    BY <2>3, <2>4, RequestQueued DEF KeysInv, KeyTypes
<1>7. CASE Sweep
  BY <1>7, PeersSwept
<1>8. CASE EmulationTaskStep
  BY <1>8, EmulationKeeps DEF EmulationTaskStep, listenLocals
<1>9. CASE ListenStep
  <2>1. ASSUME NEW a \in Addr, TakeLeave(a) PROVE KeysInv'
    <3>1. Remove(a) \in ProxyRequest /\ Remove(a).t # "Input"
      BY RequestKinds DEF Remove
    <3>2. /\ request_rx' = Append(request_rx, Remove(a)) /\ UNCHANGED <<pressed_keys, phase>>
          /\ last_response' = last_response \cup {a} /\ late' = late \ {a}
      BY <2>1 DEF TakeLeave, ProxyRemove, Request, TaskKeeps, Heard
    <3> QED
      BY <3>1, <3>2, RequestQueued DEF KeysInv, KeyTypes
  <2>2. CASE TakeProxyEvent
    BY <2>2, NothingQueued DEF TakeProxyEvent, ProxyEvent, listenLocals, KeysInv, KeyTypes
  <2>3. ASSUME NEW a \in Addr, TakeAccept(a) PROVE KeysInv'
    BY <2>3, <1>1 DEF TakeAccept
  <2>4. ASSUME NEW a \in Addr, NEW p \in Pos, TakeEnter(a, p) PROVE KeysInv'
    BY <2>4, <1>4 DEF TakeEnter
  <2>5. ASSUME NEW a \in Addr, NEW f \in Frame, TakeOther(a, f) PROVE KeysInv'
    BY <2>5, <1>4 DEF TakeOther
  <2> QED
    BY <1>9, <2>1, <2>2, <2>3, <2>4, <2>5, InputQueued, PeerRemoved DEF ListenStep
<1> QED
  BY <1>2, <1>3, <1>5, <1>6, <1>7, <1>8, <1>9 DEF Next

LEMMA KeysInit == Init => KeysInv
BY DEF Init, TaskInit, KeysInv, KeyTypes, NothingPressed, Watched, Quiet

\* No key outlives the interest in its peer: whatever requests are queued,
\* forgotten or overtaken, a key that is pressed for a peer belongs to one that
\* the sweep watches or whose Remove is queued.
THEOREM KeysStayWatched == Spec => []KeysAreWatched
<1>1. KeysInv => KeysAreWatched
  BY DEF KeysInv, Watched, Quiet, Ends, InputAt, KeysAreWatched, IsInput
<1> QED
  BY KeysInit, KeysStep, <1>1, PTL DEF Spec

-----------------------------------------------------------------------------
(* The keys the operating system holds. *)

(* On macOS the repeat task posts the key-up, so that nothing is down that  *)
(* is not repeated; and awaiting that task is the only way to hang.         *)
StuckInv ==
    /\ phase # "hung" => NoStuckKey
    /\ Backend = "macos" => down \subseteq repeat
    /\ Backend # "macos" => phase # "hung"

\* A key-up, or the end of the handle, takes a key from those of one peer.
LEMMA PressedAfter ==
    ASSUME pressed_keys \in [Addr -> SUBSET Key], NEW a \in Addr, NEW keys \in SUBSET Key,
           pressed_keys' = Set(a, keys)
    PROVE  /\ Pressed \subseteq Pressed' \cup (pressed_keys[a] \ keys)
           /\ keys \subseteq Pressed'
<1>1. pressed_keys'[a] = keys /\ \A b \in Addr : b # a => pressed_keys'[b] = pressed_keys[b]
  BY DEF Set
<1> QED
  BY <1>1 DEF Pressed

\* Every step of EmulationTask keeps what is down among what is pressed.
LEMMA EmulationReleases ==
    ASSUME KeysInv, StuckInv, EmulationStep
    PROVE  StuckInv'
<1>0. /\ request_rx \in Seq(ProxyRequest) /\ pressed_keys \in [Addr -> SUBSET Key]
      /\ request_rx # <<>> => Head(request_rx) \in ProxyRequest
  BY DEF KeysInv, KeyTypes
<1>1. ASSUME UNCHANGED <<pressed_keys, down, repeat>>, phase # "hung", phase' # "hung"
      PROVE  StuckInv'
  BY <1>1 DEF StuckInv, NoStuckKey, Pressed
<1>2. CASE CreateEmulation \/ CreateEmulationFails \/ WaitForTermination
  BY <1>1, <1>2 DEF CreateEmulation, CreateEmulationFails, WaitForTermination
<1>3. CASE Idle \/ SessionReenable
  BY <1>1, <1>3 DEF Idle, SessionReenable
<1>4. CASE SessionInput
  <2> DEFINE r == Head(request_rx)
             keys == pressed_keys[r.addr]
             after == IF r.state = 1 THEN keys \cup {r.key} ELSE keys \ {r.key}
  <2>1. r.addr \in Addr /\ r.key \in Key \cup {NoKey} /\ keys \in SUBSET Key
    BY <1>0, <1>4, RequestFields DEF SessionInput
  <2>2. \/ UNCHANGED <<down, repeat, phase>> /\ pressed_keys' = Set(r.addr, keys)
        \/ CancelHangs /\ phase' = "hung" /\ UNCHANGED <<down, repeat>>
        \/ /\ r.key # NoKey /\ pressed_keys' = Set(r.addr, after) /\ phase' = phase
           /\ down' = BackendDown(r.key, r.state) /\ repeat' = BackendRepeat(r.key, r.state)
    BY <1>4 DEF SessionInput
  <2>3. phase = "session" /\ NoStuckKey
    BY <1>4 DEF SessionInput, StuckInv
  <2> HIDE DEF r
  <2>4. CASE UNCHANGED <<down, repeat, phase>> /\ pressed_keys' = Set(r.addr, keys)
    <3>1. pressed_keys' = pressed_keys
      BY <1>0, <2>1, <2>4 DEF Set
    <3> QED
      BY <1>1, <2>3, <2>4, <3>1
  <2>5. CASE CancelHangs /\ phase' = "hung" /\ UNCHANGED <<down, repeat>>
    BY <2>5 DEF CancelHangs, StuckInv
  <2>6. CASE /\ r.key # NoKey /\ pressed_keys' = Set(r.addr, after) /\ phase' = phase
             /\ down' = BackendDown(r.key, r.state) /\ repeat' = BackendRepeat(r.key, r.state)
    <3>1. after \in SUBSET Key
      BY <2>1, <2>6
    <3> HIDE DEF keys, after
    <3>2. Pressed \subseteq Pressed' \cup (keys \ after) /\ after \subseteq Pressed'
      BY <1>0, <2>1, <2>6, <3>1, PressedAfter DEF keys
    <3>3. CASE r.state = 1
      <4>1. r.key \in Pressed' /\ Pressed \subseteq Pressed'
        BY <3>2, <3>3 DEF after
      <4> QED
        BY <2>3, <2>6, <3>3, <4>1, BackendAssumption
        DEF StuckInv, NoStuckKey, BackendDown, BackendRepeat
    <3>4. CASE r.state # 1
      <4>1. Pressed \subseteq Pressed' \cup {r.key}
        BY <3>2, <3>4 DEF after
      <4> QED
        BY <2>3, <2>6, <3>4, <4>1, BackendAssumption
        DEF StuckInv, NoStuckKey, BackendDown, BackendRepeat
    <3> QED
      BY <3>3, <3>4
  <2> QED
    BY <2>2, <2>4, <2>5, <2>6
<1>5. CASE SessionFails
  BY <1>5 DEF SessionFails, StuckInv, NoStuckKey
<1>6. CASE SessionRemove
  <2> DEFINE a == Head(request_rx).addr
             keys == pressed_keys[a]
  <2>1. a \in Addr /\ keys \in SUBSET Key
    BY <1>0, <1>6, RequestFields DEF SessionRemove
  <2>2. /\ phase = "session" /\ NoStuckKey /\ pressed_keys' = Set(a, {})
        /\ \/ CancelHangs /\ phase' = "hung" /\ UNCHANGED <<down, repeat>>
           \/ phase' = phase /\ down' = ReleaseDown(keys) /\ repeat' = ReleaseRepeat(keys)
    BY <1>6 DEF SessionRemove, StuckInv
  <2>3. Pressed \subseteq Pressed' \cup keys
    BY <1>0, <2>1, <2>2, PressedAfter
  <2> HIDE DEF keys, a
  <2> QED
    BY <2>2, <2>3 DEF StuckInv, NoStuckKey, ReleaseDown, ReleaseRepeat, CancelHangs
<1>7. CASE SessionTerminate
  <2>1. CASE CancelHangs /\ Pressed # {}
    BY <1>7, <2>1 DEF SessionTerminate, EndSession, StuckInv, CancelHangs
  <2>2. CASE ~(CancelHangs /\ Pressed # {})
    BY <1>7, <2>2 DEF SessionTerminate, EndSession, StuckInv, NoStuckKey, ReleaseDown,
                      ReleaseRepeat
  <2> QED
    BY <2>1, <2>2
<1> QED
  BY <1>2, <1>3, <1>4, <1>5, <1>6, <1>7 DEF EmulationStep

\* Nothing but EmulationTask touches the keys.
LEMMA StuckStep == KeysInv /\ StuckInv /\ [Next]_vars => StuckInv'
<1> SUFFICES ASSUME KeysInv, StuckInv, [Next]_vars PROVE StuckInv'
  OBVIOUS
<1>1. ASSUME UNCHANGED <<phase, pressed_keys, down, repeat>> PROVE StuckInv'
  BY <1>1 DEF StuckInv, NoStuckKey, Pressed
<1>2. ASSUME NEW s \in Session,
             PeerDials(s) \/ ConnectionCloses(s) \/ Arrival(s) \/ SessionStep(s)
      PROVE  StuckInv'
  BY <1>1, <1>2 DEF PeerDials, ConnectionCloses, Arrival, SessionStep, HelloDone, HelloFails,
                    SupervisorRead, ReadInput, SupervisorLosesConnection, ReadersEnd, taskVars
<1>3. CASE Wake \/ TerminateDone \/ UNCHANGED vars \/ Sweep \/ RequestReenable \/ RequestTerminate
  BY <1>1, <1>3 DEF Wake, TerminateDone, vars, Sweep, RequestReenable, RequestTerminate,
                    TaskKeeps, taskVars
<1>4. ASSUME NEW a \in Addr, Age(a) PROVE StuckInv'
  BY <1>1, <1>4 DEF Age, taskVars
<1>5. CASE ListenStep
  <2>1. ASSUME NEW a \in Addr, NEW p \in Pos, TakeEnter(a, p) PROVE StuckInv'
    BY <1>1, <2>1 DEF TakeEnter, taskVars
  <2>2. ASSUME NEW a \in Addr, TakeLeave(a) \/ TakeDisconnected(a) PROVE StuckInv'
    BY <1>1, <2>2 DEF TakeLeave, TakeDisconnected, TaskKeeps
  <2>3. ASSUME NEW a \in Addr, TakeAccept(a) PROVE StuckInv'
    BY <1>1, <2>3 DEF TakeAccept, taskVars
  <2>4. ASSUME NEW a \in Addr, NEW f \in Frame, TakeOther(a, f) PROVE StuckInv'
    BY <1>1, <2>4 DEF TakeOther, taskVars
  <2>5. ASSUME NEW a \in Addr, NEW e \in InputEvent, TakeInput(a, e) PROVE StuckInv'
    BY <1>1, <2>5 DEF TakeInput, TaskKeeps
  <2>6. CASE TakeProxyEvent
    BY <1>1, <2>6 DEF TakeProxyEvent, ProxyEvent
  <2> QED
    BY <1>5, <2>1, <2>2, <2>3, <2>4, <2>5, <2>6 DEF ListenStep
<1>6. CASE EmulationTaskStep
  BY <1>6, EmulationReleases DEF EmulationTaskStep
<1> QED
  BY <1>2, <1>3, <1>4, <1>5, <1>6 DEF Next

\* The operating system holds or repeats no key that no peer holds, for any
\* number of peers that press and release the same keys, with every backend
\* but that of macOS.
THEOREM NoKeySticks ==
    ASSUME Backend # "macos"
    PROVE  Spec => []NoStuckKey
<1>1. Init => StuckInv
  BY DEF Init, TaskInit, StuckInv, NoStuckKey
<1>2. KeysInv /\ StuckInv => NoStuckKey
  BY DEF StuckInv
<1> QED
  BY <1>1, <1>2, KeysInit, KeysStep, StuckStep, PTL DEF Spec

\* With every backend, macOS included, the same holds until EmulationTask
\* awaits a repeat task that was cancelled before it was first polled.
THEOREM NoKeySticksUnlessHung == Spec => [](phase # "hung" => NoStuckKey)
<1>1. Init => StuckInv
  BY DEF Init, TaskInit, StuckInv, NoStuckKey
<1>2. KeysInv /\ StuckInv => (phase # "hung" => NoStuckKey)
  BY DEF StuckInv
<1> QED
  BY <1>1, <1>2, KeysInit, KeysStep, StuckStep, PTL DEF Spec
=============================================================================
