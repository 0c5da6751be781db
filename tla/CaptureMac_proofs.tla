-------------------------- MODULE CaptureMac_proofs --------------------------
(***************************************************************************)
(* Proofs about CaptureMac, for any number of barriers, clients, triggers  *)
(* and keys and any capacity of the event channel.  Those about the cursor *)
(* and the contract assume that Core Graphics calls succeed.               *)
(***************************************************************************)
EXTENDS CaptureMac, CaptureTask_proofs

(* the theorems about the contract, for the events of the tap *)
ContractProofs == INSTANCE CaptureContract_proofs
    WITH active <- current_key, pending <- pending_tap_key, out <- events

(* the call that the producer task is handling *)
LEMMA HandlingTypes ==
    ASSUME TapTypeOK, NEW op \in {"create", "destroy", "start_capture", "cancel_pending"},
           Handling(op)
    PROVE  Head(notify).key \in Key
<1>1. Head(notify) \in Calls \cup {TapDisabled}
  BY DEF Handling, TapTypeOK
<1>2. \A call \in Calls \cup {TapDisabled} :
        call.op \in {"create", "destroy", "start_capture", "cancel_pending"} => call.key \in Key
  BY DEF Calls, ClientUpdates, TapDisabled
<1>. QED
  BY <1>1, <1>2 DEF Handling

LEMMA ProducerTypes ==
    ASSUME ApiTypeOK, TapTypeOK, Producer
    PROVE  ApiTypeOK' /\ TapTypeOK'
<1>. USE DEF ApiTypeOK, TapTypeOK
<1>1. ASSUME NEW op, Handling(op)
      PROVE  /\ notify' \in Seq(Calls \cup {TapDisabled})
             /\ UNCHANGED <<calls, crossing, tap_enabled>>
  BY <1>1 DEF Handling
<1>2. CASE HandleCreate
  BY <1>1, <1>2, HandlingTypes DEF HandleCreate
<1>3. CASE HandleDestroy
  BY <1>1, <1>3 DEF HandleDestroy, EndCapture, show_cursor, ShowCursorFails
<1>4. CASE HandleRelease
  BY <1>1, <1>4 DEF HandleRelease, EndCapture, show_cursor, ShowCursorFails
<1>5. CASE HandleStartCapture
  <2>1. Head(notify).key \in Key
    BY <1>5, HandlingTypes DEF HandleStartCapture
  <2>2. CASE UNCHANGED events
    BY <1>1, <1>5, <2>1, <2>2 DEF HandleStartCapture, hide_cursor
  <2>3. CASE Room /\ events' = Append(events, Signal(Head(notify).key, "Begin"))
    BY <1>1, <1>5, <2>1, <2>3, AppendTypes, SignalTypes DEF HandleStartCapture, hide_cursor
  <2>. QED
    BY <1>5, <2>2, <2>3 DEF HandleStartCapture
<1>6. CASE HandleCancelPending
  <2>1. Head(notify).key \in Key
    BY <1>6, HandlingTypes DEF HandleCancelPending
  <2>. QED
    BY <1>1, <1>6, <2>1, AppendTypes, SignalTypes DEF HandleCancelPending
<1>7. CASE HandleTapDisabled
  BY <1>1, <1>7 DEF HandleTapDisabled, EndCapture, show_cursor, ShowCursorFails
<1>. QED
  BY <1>2, <1>3, <1>4, <1>5, <1>6, <1>7 DEF Producer

LEMMA TapTypes ==
    ASSUME ApiTypeOK, TapTypeOK, NotifyProducer \/ TapDisabledByUserInput \/ SwitchEnds \/ TapUser
    PROVE  ApiTypeOK' /\ TapTypeOK'
<1>. USE DEF ApiTypeOK, TapTypeOK, InCallback
<1>1. CASE NotifyProducer
  BY <1>1 DEF NotifyProducer
<1>2. CASE TapDisabledByUserInput
  <2>1. ASSUME NEW n \in 0 .. Len(notify)
        PROVE  SubSeq(notify, 1, n) \o <<TapDisabled>> \o SubSeq(notify, n + 1, Len(notify))
                  \in Seq(Calls \cup {TapDisabled})
    <3>1. /\ SubSeq(notify, 1, n) \in Seq(Calls \cup {TapDisabled})
          /\ SubSeq(notify, n + 1, Len(notify)) \in Seq(Calls \cup {TapDisabled})
          /\ <<TapDisabled>> \in Seq(Calls \cup {TapDisabled})
      OBVIOUS
    <3>. QED
      BY <3>1
  <2>2. notify' \in Seq(Calls \cup {TapDisabled})
    BY <1>2, <2>1 DEF TapDisabledByUserInput
  <2>3. hidden' \in Int /\ current_key' \in Key \cup {None}
    BY <1>2 DEF TapDisabledByUserInput, EndCapture, show_cursor
  <2>. QED
    BY <1>2, <2>2, <2>3, Zenon DEF TapDisabledByUserInput
<1>3. CASE SwitchEnds
  BY <1>3, AppendTypes, SignalTypes DEF SwitchEnds
<1>4. ASSUME NEW k \in Key, TapCross(k) \/ TapSwitch(k)
      PROVE  ApiTypeOK' /\ TapTypeOK'
  BY <1>4, AppendTypes, SignalTypes DEF TapCross, TapSwitch
<1>5. CASE TapPullBack
  BY <1>5, AppendTypes, SignalTypes DEF TapPullBack
<1>6. ASSUME NEW i \in Input, TapInput(i)
      PROVE  ApiTypeOK' /\ TapTypeOK'
  BY <1>6, AppendTypes, InputTypes DEF TapInput
<1>. QED
  BY <1>1, <1>2, <1>3, <1>4, <1>5, <1>6 DEF TapUser

(* Every variable of the capture task, the producer task, the tap thread and  *)
(* the channels keeps its type, the capacity of the event channel included.   *)
THEOREM TypeCorrect == Spec => []TypeOK
<1>1. Init => TypeOK
  <2>1. Init => ApiTypeOK /\ TapTypeOK
    BY EventCapAssumption DEF Init, TapInit, ApiTypeOK, TapTypeOK
  <2>2. Init => TaskTypeOK
    BY TaskInitTypes DEF Init
  <2>. QED
    BY <2>1, <2>2 DEF TypeOK
<1>2. TypeOK /\ [Next]_vars => TypeOK'
  <2>1. ASSUME TypeOK, UNCHANGED vars
        PROVE  TypeOK'
    BY <2>1 DEF vars, taskVars, tapVars, TypeOK, ApiTypeOK, TaskTypeOK, TapTypeOK
  <2>2. ASSUME TypeOK, ServesEvents \/ ServesOthers \/ Network, UNCHANGED tapVars
        PROVE  TypeOK'
    BY <2>2, ServesEventsTypes, ServesOthersTypes, NetworkTypes
    DEF TaskTypes, TypeOK, TapTypeOK, tapVars
  <2>. QED
    BY <2>1, <2>2, ProducerTypes, TapTypes, TaskKeepsTypes DEF Next, TypeOK
<1>. QED
  BY <1>1, <1>2, PTL DEF Spec

-----------------------------------------------------------------------------
LEMMA BarrierStep == TypeOK /\ BarrierStates /\ [Next]_vars => BarrierStates'
<1>. SUFFICES ASSUME TypeOK, BarrierStates, [Next]_vars
              PROVE  BarrierStates'
  OBVIOUS
<1>. USE DEF BarrierStates
<1>1. CASE UNCHANGED <<active_clients, current_key, pending_tap_key, crossing>>
  BY <1>1
<1>2. CASE NotifyProducer
  BY <1>1, <1>2 DEF NotifyProducer
<1>3. CASE Producer
  BY <1>3, NoneAssumption
  DEF Producer, Handling, Unlocked, HandleCreate, HandleDestroy, HandleRelease, HandleStartCapture,
      HandleCancelPending, HandleTapDisabled, EndCapture, ShowCursorFails
<1>4. CASE SwitchEnds \/ TapDisabledByUserInput
  BY <1>4, Zenon DEF SwitchEnds, TapDisabledByUserInput, EndCapture
<1>5. CASE TapUser
  BY <1>5 DEF TapUser, InCallback, Unlocked, TapCross, TapSwitch, TapPullBack, TapInput
<1>. QED
  BY <1>1, <1>2, <1>3, <1>4, <1>5 DEF Next, vars, tapVars

(* At most one barrier is pending, active or being switched to, and it        *)
(* exists: the tap callback and the producer task keep current_key and        *)
(* pending_key exclusive, whether or not Core Graphics calls succeed.         *)
THEOREM BarriersConsistent == Spec => []BarrierStates
<1>1. Init => BarrierStates
  BY DEF Init, TapInit, BarrierStates
<1>. QED
  BY <1>1, TypeCorrect, BarrierStep, PTL DEF Spec

-----------------------------------------------------------------------------
(* The cursor is hidden once while a client is entered and visible otherwise: *)
(* the producer task and the tap callback never end one capture twice.        *)
THEOREM CursorBalanced ==
    ASSUME CoreGraphicsFails = FALSE
    PROVE  Spec => []CursorFollowsCapture
<1>1. Init => CursorFollowsCapture
  BY DEF Init, TapInit, CursorFollowsCapture
<1>2. TypeOK /\ CursorFollowsCapture /\ [Next]_vars => CursorFollowsCapture'
  <2>. SUFFICES ASSUME TypeOK, CursorFollowsCapture, [Next]_vars
                PROVE  CursorFollowsCapture'
    OBVIOUS
  <2>. USE DEF CursorFollowsCapture
  <2>1. CASE UNCHANGED <<current_key, hidden>>
    BY <2>1
  <2>2. CASE Producer
    <3>1. CASE HandleStartCapture
      <4>1. Head(notify).key \in Key
        BY <3>1, HandlingTypes DEF HandleStartCapture, TypeOK
      <4>. QED
        BY <3>1, <4>1, NoneAssumption DEF HandleStartCapture, hide_cursor
    <3>2. CASE HandleDestroy
      <4>1. Head(notify).key \in Key
        BY <3>2, HandlingTypes DEF HandleDestroy, TypeOK
      <4>. QED
        BY <3>2, <4>1, NoneAssumption DEF HandleDestroy, EndCapture, show_cursor, ShowCursorFails
    <3>3. CASE HandleRelease \/ HandleTapDisabled
      BY <3>3 DEF HandleRelease, HandleTapDisabled, EndCapture, show_cursor, ShowCursorFails
    <3>. QED
      BY <2>1, <2>2, <3>1, <3>2, <3>3 DEF Producer, HandleCreate, HandleCancelPending
  <2>3. CASE TapDisabledByUserInput
    BY <2>3 DEF TapDisabledByUserInput, EndCapture, show_cursor
  <2>. QED
    BY <2>1, <2>2, <2>3
    DEF Next, vars, tapVars, NotifyProducer, SwitchEnds, TapUser, TapCross, TapSwitch, TapPullBack, TapInput
<1>. QED
  BY <1>1, <1>2, TypeCorrect, PTL DEF Spec

-----------------------------------------------------------------------------
(* Refinement.  A barrier switch is two steps of the contract: PullBack, then *)
(* Cross, which BarrierStates shows to be enabled.                            *)

LEMMA ContractStep ==
    ASSUME CoreGraphicsFails = FALSE
    PROVE  TypeOK /\ BarrierStates /\ [Next]_vars => [Contract!Next]_Contract!contractVars
<1>. SUFFICES ASSUME TypeOK, BarrierStates, [Next]_vars
              PROVE  [Contract!Next]_Contract!contractVars
  OBVIOUS
<1>1. ASSUME UNCHANGED <<current_key, pending_tap_key, events>>
      PROVE  UNCHANGED Contract!contractVars
  BY <1>1 DEF Contract!contractVars
<1>2. CASE ServesEvents /\ UNCHANGED tapVars
  BY <1>1, <1>2, EventsTaken DEF tapVars, Contract!Next, Contract!Take
<1>3. CASE (ServesOthers \/ Network) /\ UNCHANGED tapVars
  BY <1>1, <1>3, EventsKept DEF tapVars
<1>4. CASE NotifyProducer \/ HandleCreate
  BY <1>1, <1>4 DEF NotifyProducer, HandleCreate
<1>5. CASE HandleDestroy \/ HandleRelease \/ HandleTapDisabled \/ TapDisabledByUserInput
  BY <1>5, Zenon DEF HandleDestroy, HandleRelease, HandleTapDisabled, TapDisabledByUserInput, EndCapture,
              ShowCursorFails, Contract!Next, Contract!Withdraw
<1>6. CASE HandleStartCapture
  <2>1. Head(notify).key \in Key
    BY <1>6, HandlingTypes DEF HandleStartCapture, TypeOK
  <2>2. CASE pending_tap_key # Head(notify).key
    BY <1>1, <1>6, <2>2 DEF HandleStartCapture
  <2>3. CASE pending_tap_key = Head(notify).key
    <3>1. current_key = None
      BY <2>1, <2>3, NoneAssumption DEF BarrierStates
    <3>. QED
      BY <1>6, <2>1, <2>3, <3>1, NoneAssumption
      DEF HandleStartCapture, Contract!Next, Contract!Promote, Contract!Emit, Signal, Contract!Signal
  <2>. QED
    BY <2>2, <2>3
<1>7. CASE HandleCancelPending
  <2>1. Head(notify).key \in Key
    BY <1>7, HandlingTypes DEF HandleCancelPending, TypeOK
  <2>. QED
    BY <1>1, <1>7, <2>1, NoneAssumption
    DEF HandleCancelPending, Contract!Next, Contract!PullBack, Contract!Emit, Signal, Contract!Signal
<1>8. CASE SwitchEnds
  BY <1>8
  DEF SwitchEnds, BarrierStates, TypeOK, TapTypeOK, Contract!Next, Contract!Cross, Contract!Emit, Signal,
      Contract!Signal
<1>9. ASSUME NEW k \in Key, TapCross(k)
      PROVE  Contract!Next
  BY <1>9 DEF TapCross, Contract!Next, Contract!Cross, Contract!Emit, Signal, Contract!Signal
<1>10. ASSUME TapPullBack \/ \E k \in Key : TapSwitch(k)
       PROVE  Contract!Next
  BY <1>10
  DEF TapPullBack, TapSwitch, Contract!Next, Contract!PullBack, Contract!Emit, Signal, Contract!Signal
<1>11. ASSUME NEW i \in Input, TapInput(i)
       PROVE  Contract!Next
  BY <1>11
  DEF TapInput, Contract!Next, Contract!Forward, Contract!Emit, InputEvent, Contract!InputEvent
<1>12. CASE UNCHANGED vars
  BY <1>1, <1>12 DEF vars, tapVars
<1>. QED
  BY <1>2, <1>3, <1>4, <1>5, <1>6, <1>7, <1>8, <1>9, <1>10, <1>11, <1>12 DEF Next, Producer, TapUser

(* The producer task and the tap thread, driven by the capture task,          *)
(* implement the contract of a backend with the pending-capture handshake.    *)
THEOREM TapImplementsContract ==
    ASSUME CoreGraphicsFails = FALSE
    PROVE  Spec => ImplementsContract
<1>1. Init => Contract!Init
  BY DEF Init, TapInit, Contract!Init
<1>. QED
  BY <1>1, TypeCorrect, BarriersConsistent, ContractStep, PTL
  DEF Spec, ImplementsContract, Contract!Spec

(* Hence the events of the tap and of the producer task, which share one      *)
(* channel, are ordered as the capture task expects.                          *)
THEOREM TapEventsOrdered ==
    ASSUME CoreGraphicsFails = FALSE
    PROVE  Spec => []EventOrder
<1>. USE DEF Contract!Signal, ContractProofs!Signal, Contract!InputEvent, ContractProofs!InputEvent
<1>1. Contract!Init => ContractProofs!Init
  BY DEF Contract!Init, ContractProofs!Init
<1>2. [Contract!Next]_Contract!contractVars => [ContractProofs!Next]_ContractProofs!contractVars
  BY Zenon DEF Contract!contractVars, ContractProofs!contractVars, Contract!Next, ContractProofs!Next,
         Contract!Cross, ContractProofs!Cross, Contract!PullBack, ContractProofs!PullBack,
         Contract!Promote, ContractProofs!Promote, Contract!Forward, ContractProofs!Forward,
         Contract!Withdraw, ContractProofs!Withdraw, Contract!Take, ContractProofs!Take,
         Contract!Emit, ContractProofs!Emit
<1>3. ContractProofs!EventOrder => EventOrder
  BY DEF EventOrder, Contract!EventOrder, ContractProofs!EventOrder, Contract!Ordered,
         ContractProofs!Ordered, Contract!Follows, ContractProofs!Follows
<1>4. ContractProofs!Spec => []ContractProofs!EventOrder
  BY ContractProofs!StreamOrdered, NoneAssumption, PTL
<1>. QED
  BY <1>1, <1>2, <1>3, <1>4, TapImplementsContract, PTL
  DEF ImplementsContract, Contract!Spec, ContractProofs!Spec

-----------------------------------------------------------------------------
(* What is under way from the task to the producer task.  A message that      *)
(* clears a pending or an active barrier is not lost on the way, and neither  *)
(* is it when the tap thread puts its notice in between.                      *)

Message == Calls \cup {TapDisabled}

Underway == Elems(calls) \cup Elems(notify)

Releasing == Release \in Underway \/ TapDisabled \in Underway

ClearsPending(k) ==
    \/ Releasing
    \/ \E op \in {"destroy", "start_capture", "cancel_pending"} : Call(op, k) \in Underway

ClearsActive(k) == Releasing \/ Call("destroy", k) \in Underway

LEMMA ClearsGrow ==
    ASSUME Underway \subseteq Underway', NEW k
    PROVE  /\ ClearsPending(k) => ClearsPending(k)'
           /\ ClearsActive(k) => ClearsActive(k)'
  BY DEF ClearsPending, ClearsActive, Releasing

LEMMA MessageForm == \A m \in Message : m = Call(m.op, m.key)
<1>1. \A m \in [op : {"release"}, key : {None}] : m = Call(m.op, m.key)
  BY DEF Call
<1>2. TapDisabled = Call("EventTapDisabled", None)
  BY DEF TapDisabled, Call
<1>3. \A m \in ClientUpdates : m = Call(m.op, m.key)
  BY DEF ClientUpdates, Call
<1>4. \A op, k : Call(op, k).op = op /\ Call(op, k).key = k
  BY DEF Call
<1>. SUFFICES ASSUME NEW m \in Message PROVE m = Call(m.op, m.key)
  OBVIOUS
<1>5. CASE m \in ClientUpdates
  BY <1>3, <1>5
<1>6. CASE m \in [op : {"release"}, key : {None}]
  BY <1>1, <1>6
<1>7. CASE m = TapDisabled
  BY <1>2, <1>4, <1>7
<1>. QED
  BY <1>5, <1>6, <1>7 DEF Message, Calls

(* the tap thread's notice in the queue *)
Inserted(q, n, x, r) ==
    /\ Len(q) \in Nat /\ n \in 0 .. Len(q) /\ Len(r) = Len(q) + 1
    /\ \A i \in 1 .. n : r[i] = q[i]
    /\ r[n + 1] = x
    /\ \A i \in n + 1 .. Len(q) : r[i + 1] = q[i]

LEMMA ConcatFacts ==
    ASSUME NEW S, NEW s \in Seq(S), NEW t \in Seq(S)
    PROVE  /\ Len(s \o t) = Len(s) + Len(t)
           /\ \A i \in 1 .. Len(s) : (s \o t)[i] = s[i]
           /\ \A i \in 1 .. Len(t) : (s \o t)[Len(s) + i] = t[i]
<1>1. Len(s \o t) = Len(s) + Len(t) /\ Len(s) \in Nat /\ Len(t) \in Nat
  OBVIOUS
<1>2. \A i \in 1 .. Len(s) : (s \o t)[i] = s[i]
  OBVIOUS
<1>3. \A i \in 1 .. Len(t) : (s \o t)[Len(s) + i] = t[i]
  OBVIOUS
<1>. QED
  BY <1>1, <1>2, <1>3

LEMMA InsertFacts ==
    ASSUME NEW S, NEW q \in Seq(S), NEW x \in S, NEW n \in 0 .. Len(q)
    PROVE  Inserted(q, n, x, SubSeq(q, 1, n) \o <<x>> \o SubSeq(q, n + 1, Len(q)))
<1>. DEFINE a == SubSeq(q, 1, n)
            b == SubSeq(q, n + 1, Len(q))
            c == a \o <<x>>
            r == c \o b
<1>1. /\ a \in Seq(S) /\ Len(a) = n /\ \A i \in 1 .. n : a[i] = q[i]
      /\ Len(q) \in Nat
  OBVIOUS
<1>2. /\ b \in Seq(S) /\ Len(b) = Len(q) - n /\ \A i \in 1 .. Len(q) - n : b[i] = q[i + n]
  OBVIOUS
<1>. HIDE DEF a, b
<1>3. /\ c \in Seq(S) /\ Len(c) = n + 1 /\ c[n + 1] = x
      /\ \A i \in 1 .. n : c[i] = a[i]
  BY <1>1
<1>. HIDE DEF c
<1>. HIDE DEF r
<1>4. /\ Len(r) = Len(c) + Len(b)
      /\ \A i \in 1 .. Len(c) : r[i] = c[i]
      /\ \A i \in 1 .. Len(b) : r[Len(c) + i] = b[i]
  <2>1. c \in Seq(S) /\ b \in Seq(S)
    BY <1>2, <1>3
  <2>2. /\ Len(c \o b) = Len(c) + Len(b)
        /\ \A i \in 1 .. Len(c) : (c \o b)[i] = c[i]
        /\ \A i \in 1 .. Len(b) : (c \o b)[Len(c) + i] = b[i]
    BY <2>1, ConcatFacts
  <2>3. r = c \o b
    BY DEF r
  <2>. QED
    BY <2>2, <2>3
<1>5. Len(r) = Len(q) + 1 /\ r[n + 1] = x
  BY <1>1, <1>2, <1>3, <1>4
<1>6. ASSUME NEW i \in 1 .. n PROVE r[i] = q[i]
  BY <1>1, <1>3, <1>4
<1>7. ASSUME NEW i \in n + 1 .. Len(q) PROVE r[i + 1] = q[i]
  <2>1. i - n \in 1 .. Len(b) /\ Len(c) + (i - n) = i + 1 /\ i - n \in 1 .. Len(q) - n
        /\ (i - n) + n = i
    BY <1>1, <1>2, <1>3
  <2>2. r[Len(c) + (i - n)] = b[i - n] /\ b[i - n] = q[(i - n) + n]
    BY <1>2, <1>4, <2>1
  <2>. QED
    BY <2>1, <2>2
<1>8. Inserted(q, n, x, r)
  BY <1>1, <1>5, <1>6, <1>7 DEF Inserted
<1>. QED
  BY <1>8 DEF r, c, a, b

LEMMA ElemsInsert ==
    ASSUME NEW q, NEW x, NEW n, NEW r, Inserted(q, n, x, r)
    PROVE  Elems(q) \subseteq Elems(r)
<1>1. ASSUME NEW i \in 1 .. Len(q) PROVE \E j \in 1 .. Len(r) : r[j] = q[i]
  <2>1. CASE i <= n
    <3>1. i \in 1 .. n /\ i \in 1 .. Len(r)
      BY <2>1 DEF Inserted
    <3>. QED
      BY <3>1 DEF Inserted
  <2>2. CASE i > n
    <3>1. i + 1 \in 1 .. Len(r) /\ i \in n + 1 .. Len(q)
      BY <2>2 DEF Inserted
    <3>. QED
      BY <3>1 DEF Inserted
  <2>. QED
    BY <2>1, <2>2 DEF Inserted
<1>. QED
  BY <1>1 DEF Elems

LEMMA ClosedInsert ==
    ASSUME NEW q, NEW x, NEW n, NEW r, Inserted(q, n, x, r),
           NEW barriers, NEW k, x # Call("create", k), ClosedIn(q, barriers, k)
    PROVE  ClosedIn(r, barriers, k)
<1>1. ASSUME NEW i \in 1 .. Len(r), r[i] = Call("create", k)
      PROVE  \E j \in 1 .. Len(r) : j > i /\ r[j] = Call("destroy", k)
  <2>1. PICK h \in 1 .. Len(q) : q[h] = Call("create", k) /\ i = IF h <= n THEN h ELSE h + 1
    <3>1. CASE i <= n
      <4>1. i \in 1 .. n /\ i \in 1 .. Len(q)
        BY <3>1 DEF Inserted
      <4>2. r[i] = q[i]
        BY <4>1 DEF Inserted
      <4>3. q[i] = Call("create", k) /\ i <= n
        BY <1>1, <3>1, <4>2
      <4>. QED
        BY <4>1, <4>3
    <3>2. CASE i > n + 1
      <4>1. i - 1 \in n + 1 .. Len(q) /\ i - 1 \in 1 .. Len(q) /\ (i - 1) + 1 = i /\ i - 1 > n
        BY <3>2 DEF Inserted
      <4>2. r[(i - 1) + 1] = q[i - 1]
        BY <4>1 DEF Inserted
      <4>3. q[i - 1] = Call("create", k)
        BY <1>1, <4>1, <4>2
      <4>4. i = IF i - 1 <= n THEN i - 1 ELSE (i - 1) + 1
        BY <3>2 DEF Inserted
      <4>. QED
        BY <4>1, <4>3, <4>4, Zenon
    <3>3. i # n + 1
      BY <1>1 DEF Inserted
    <3>. QED
      BY <3>1, <3>2, <3>3 DEF Inserted
  <2>2. PICK j \in 1 .. Len(q) : j > h /\ q[j] = Call("destroy", k)
    BY <2>1 DEF ClosedIn
  <2>3. CASE j <= n
    <3>1. j \in 1 .. n /\ j \in 1 .. Len(r) /\ j > i
      BY <2>1, <2>2, <2>3 DEF Inserted
    <3>. QED
      BY <2>2, <3>1 DEF Inserted
  <2>4. CASE j > n
    <3>1. j + 1 \in 1 .. Len(r) /\ j \in n + 1 .. Len(q) /\ j + 1 > i
      BY <2>1, <2>2, <2>4 DEF Inserted
    <3>2. r[j + 1] = q[j]
      BY <3>1 DEF Inserted
    <3>. QED
      BY <2>2, <3>1, <3>2
  <2>. QED
    BY <2>3, <2>4 DEF Inserted
<1>. QED
  BY <1>1, ElemsInsert DEF ClosedIn
LEMMA NoticeInserted ==
    ASSUME TypeOK, TapDisabledByUserInput
    PROVE  \E n \in 0 .. Len(notify) : Inserted(notify, n, TapDisabled, notify')
<1>1. notify \in Seq(Message) /\ TapDisabled \in Message
  BY DEF TypeOK, TapTypeOK, Message
<1>2. PICK n \in 0 .. Len(notify) :
        notify' = SubSeq(notify, 1, n) \o <<TapDisabled>> \o SubSeq(notify, n + 1, Len(notify))
  BY Zenon DEF TapDisabledByUserInput
<1>3. Inserted(notify, n, TapDisabled,
               SubSeq(notify, 1, n) \o <<TapDisabled>> \o SubSeq(notify, n + 1, Len(notify)))
  BY <1>1, InsertFacts
<1>. QED
  BY <1>2, <1>3

(* What the backend's steps do to a message under way. *)
LEMMA BackendKeepsClears ==
    ASSUME CoreGraphicsFails = FALSE, TypeOK, NEW k \in Key,
           NotifyProducer \/ Producer \/ SwitchEnds \/ TapDisabledByUserInput
    PROVE  /\ ClearsPending(k) => ClearsPending(k)' \/ pending_tap_key' # k
           /\ ClearsActive(k) => ClearsActive(k)' \/ current_key' # k
<1>. USE DEF TypeOK, ApiTypeOK, TapTypeOK
<1>0. calls \in Seq(Calls) /\ notify \in Seq(Message)
  BY DEF Message
<1>1. CASE NotifyProducer
  <2>1. /\ calls # <<>> /\ calls' = Tail(calls) /\ notify' = Append(notify, Head(calls))
        /\ Head(calls) \in Message
    BY <1>1, <1>0 DEF NotifyProducer, Message
  <2>2. Elems(calls) = Elems(calls') \cup {Head(calls)}
    BY <1>0, <2>1, ElemsTail
  <2>3. Elems(notify') = Elems(notify) \cup {Head(calls)}
    BY <1>0, <2>1, ElemsAppend
  <2>. QED
    BY <2>2, <2>3, ClearsGrow DEF Underway
<1>2. CASE SwitchEnds
  BY <1>2, ClearsGrow DEF SwitchEnds, Underway
<1>3. CASE TapDisabledByUserInput
  <2>1. Elems(notify) \subseteq Elems(notify')
    BY <1>3, NoticeInserted, ElemsInsert
  <2>2. UNCHANGED calls
    BY <1>3 DEF TapDisabledByUserInput
  <2>. QED
    BY <2>1, <2>2, ClearsGrow DEF Underway
<1>4. ASSUME NEW op, Handling(op)
      PROVE  /\ Underway \subseteq Underway' \cup {Head(notify)}
             /\ Head(notify) = Call(op, Head(notify).key)
  <2>1. notify # <<>> /\ notify' = Tail(notify) /\ Head(notify).op = op /\ UNCHANGED calls
    BY <1>4 DEF Handling
  <2>2. Elems(notify) = Elems(notify') \cup {Head(notify)} /\ Head(notify) \in Message
    BY <1>0, <2>1, ElemsTail
  <2>. QED
    BY <2>1, <2>2, MessageForm DEF Underway
<1>5. ASSUME NEW op, Handling(op), op \notin {"release", "EventTapDisabled"}
      PROVE  /\ ClearsPending(k) =>
                \/ ClearsPending(k)'
                \/ op \in {"destroy", "start_capture", "cancel_pending"} /\ Head(notify).key = k
             /\ ClearsActive(k) => ClearsActive(k)' \/ (op = "destroy" /\ Head(notify).key = k)
  <2>1. \A o, l : Call(o, k) = Call(op, l) => o = op /\ l = k
    BY DEF Call
  <2>2. \A l : Call(op, l) # Release /\ Call(op, l) # TapDisabled
    BY <1>5 DEF Call, Release, TapDisabled
  <2>. QED
    BY <1>4, <1>5, <2>1, <2>2 DEF ClearsPending, ClearsActive, Releasing
<1>6. CASE HandleCreate
  BY <1>5, <1>6 DEF HandleCreate
<1>7. CASE HandleDestroy
  BY <1>5, <1>7, NoneAssumption DEF HandleDestroy, EndCapture, ShowCursorFails
<1>8. CASE HandleStartCapture
  BY <1>5, <1>8, NoneAssumption DEF HandleStartCapture
<1>9. CASE HandleCancelPending
  BY <1>5, <1>9, NoneAssumption DEF HandleCancelPending
<1>10. CASE HandleRelease \/ HandleTapDisabled
  BY <1>10, NoneAssumption DEF HandleRelease, HandleTapDisabled, EndCapture, ShowCursorFails
<1>. QED
  BY <1>1, <1>2, <1>3, <1>6, <1>7, <1>8, <1>9, <1>10 DEF Producer

-----------------------------------------------------------------------------
(* A barrier without subscriber exists only as long as its destruction is     *)
(* under way.                                                                 *)

FollowInv ==
    \A k \in Key : Subscribers(k) = {} =>
        /\ Call("create", k) \notin Elems(calls)
        /\ ClosedIn(notify, active_clients, k) \/ Call("destroy", k) \in Elems(calls)

LEMMA FollowStep ==
    ASSUME CoreGraphicsFails = FALSE
    PROVE  TypeOK /\ FollowInv /\ [Next]_vars => FollowInv'
<1>. SUFFICES ASSUME TypeOK, FollowInv, [Next]_vars
              PROVE  FollowInv'
  OBVIOUS
<1>. USE DEF TypeOK, ApiTypeOK, TapTypeOK
<1>0. calls \in Seq(Calls) /\ notify \in Seq(Message)
  BY DEF Message
<1>1. ASSUME UNCHANGED tapVars, ServesEvents \/ ServesOthers \/ Network
      PROVE  FollowInv'
  <2>1. ASSUME NEW k \in Key, (Subscribers(k) = {})'
        PROVE  /\ Call("create", k) \notin Elems(calls')
               /\ ClosedIn(notify, active_clients, k) \/ Call("destroy", k) \in Elems(calls')
    <3>1. CallsFollow(k)
      BY <1>1, TaskCallsFollow DEF TaskTypes
    <3>2. Elems(calls) \subseteq Elems(calls')
      BY <1>1, CallsWait
    <3>. QED
      BY <2>1, <3>1, <3>2 DEF CallsFollow, FollowInv, Subscribers
  <2>. QED
    BY <1>1, <2>1 DEF FollowInv, tapVars
<1>2. ASSUME UNCHANGED <<calls, captures>>,
             \A k \in Key : ClosedIn(notify, active_clients, k) => ClosedIn(notify', active_clients', k)
      PROVE  FollowInv'
  BY <1>2 DEF FollowInv, Subscribers
<1>3. ASSUME UNCHANGED <<calls, captures, notify, active_clients>>
      PROVE  FollowInv'
  BY <1>2, <1>3
<1>4. ASSUME NotifyProducer, UNCHANGED taskVars
      PROVE  FollowInv'
  <2>1. /\ calls # <<>> /\ calls' = Tail(calls) /\ notify' = Append(notify, Head(calls))
        /\ Head(calls) \in Message /\ UNCHANGED <<captures, active_clients>>
    BY <1>0, <1>4 DEF NotifyProducer, Message, taskVars
  <2>2. Elems(calls) = Elems(calls') \cup {Head(calls)}
    BY <1>0, <2>1, ElemsTail
  <2>3. ASSUME NEW k \in Key, Subscribers(k) = {}
        PROVE  /\ Call("create", k) \notin Elems(calls')
               /\ ClosedIn(notify', active_clients, k) \/ Call("destroy", k) \in Elems(calls')
    <3>1. Head(calls) # Call("create", k) /\ Call("create", k) \notin Elems(calls')
      BY <2>2, <2>3 DEF FollowInv
    <3>2. CASE ClosedIn(notify, active_clients, k) \/ Head(calls) = Call("destroy", k)
      BY <1>0, <2>1, <3>1, <3>2, ClosedAppend
    <3>. QED
      BY <2>2, <2>3, <3>1, <3>2 DEF FollowInv
  <2>. QED
    BY <2>1, <2>3 DEF FollowInv, Subscribers
<1>5. ASSUME TapDisabledByUserInput, UNCHANGED taskVars
      PROVE  FollowInv'
  <2>1. PICK n \in 0 .. Len(notify) : Inserted(notify, n, TapDisabled, notify')
    BY <1>5, NoticeInserted
  <2>2. \A k : TapDisabled # Call("create", k)
    BY DEF TapDisabled, Call
  <2>3. \A k : ClosedIn(notify, active_clients, k) => ClosedIn(notify', active_clients, k)
    BY <2>1, <2>2, ClosedInsert
  <2>4. UNCHANGED <<calls, captures, active_clients>>
    BY <1>5 DEF TapDisabledByUserInput, taskVars
  <2>. QED
    BY <1>2, <2>3, <2>4
<1>6. ASSUME NEW op, Handling(op), NEW k, ClosedIn(notify, active_clients, k)
      PROVE  /\ op = "create" => ClosedIn(notify', active_clients \cup {Head(notify).key}, k)
             /\ op = "destroy" => ClosedIn(notify', active_clients \ {Head(notify).key}, k)
             /\ op # "destroy" => ClosedIn(notify', active_clients, k)
  <2>1. notify # <<>> /\ notify' = Tail(notify) /\ Head(notify).op = op
    BY <1>6 DEF Handling
  <2>. QED
    BY <1>0, <1>6, <2>1, MessageForm, ClosedTail, Zenon
<1>7. ASSUME NEW op, Handling(op), UNCHANGED taskVars,
             \/ op = "create" /\ active_clients' = active_clients \cup {Head(notify).key}
             \/ op = "destroy" /\ active_clients' = active_clients \ {Head(notify).key}
             \/ op # "destroy" /\ UNCHANGED active_clients
      PROVE  FollowInv'
  <2>1. UNCHANGED <<calls, captures>>
    BY <1>7 DEF Handling, taskVars
  <2>2. ASSUME NEW k \in Key, ClosedIn(notify, active_clients, k)
        PROVE  ClosedIn(notify', active_clients', k)
    BY <1>6, <1>7, <2>2, Zenon
  <2>. QED
    BY <1>2, <2>1, <2>2
<1>8. ASSUME Producer, UNCHANGED taskVars
      PROVE  FollowInv'
  <2>1. CASE HandleCreate
    BY <1>7, <1>8, <2>1 DEF HandleCreate
  <2>2. CASE HandleDestroy
    BY <1>7, <1>8, <2>2 DEF HandleDestroy, ShowCursorFails
  <2>3. CASE HandleRelease
    BY <1>7, <1>8, <2>3 DEF HandleRelease, ShowCursorFails
  <2>4. CASE HandleStartCapture
    BY <1>7, <1>8, <2>4 DEF HandleStartCapture
  <2>5. CASE HandleCancelPending
    BY <1>7, <1>8, <2>5 DEF HandleCancelPending
  <2>6. CASE HandleTapDisabled
    BY <1>7, <1>8, <2>6 DEF HandleTapDisabled, ShowCursorFails
  <2>. QED
    BY <1>8, <2>1, <2>2, <2>3, <2>4, <2>5, <2>6 DEF Producer
<1>9. ASSUME SwitchEnds \/ TapUser, UNCHANGED taskVars
      PROVE  FollowInv'
  BY <1>3, <1>9
  DEF SwitchEnds, TapUser, TapCross, TapSwitch, TapPullBack, TapInput, InCallback, taskVars
<1>10. CASE UNCHANGED vars
  BY <1>3, <1>10 DEF vars, tapVars, taskVars
<1>. QED
  BY <1>1, <1>4, <1>5, <1>8, <1>9, <1>10 DEF Next
LEMMA UnsubscribedIsCleared ==
    ASSUME TypeOK, FollowInv, NEW k \in active_clients, Subscribers(k) = {}
    PROVE  ClearsPending(k) /\ ClearsActive(k)
<1>1. k \in Key
  BY DEF TypeOK, TapTypeOK
<1>2. Call("destroy", k) \in Underway
  BY <1>1 DEF FollowInv, ClosedIn, Underway
<1>. QED
  BY <1>2 DEF ClearsPending, ClearsActive

-----------------------------------------------------------------------------
(* The claims on the pending and the current barrier, as in the Windows       *)
(* backend: the BeginPending of a pending barrier is the last event of the    *)
(* channel, or the task waits for its Ack, or a message that clears it is     *)
(* under way; after the Begin of the current barrier only its input is in the *)
(* channel, and once the Begin is taken the task sends to its client or a     *)
(* message that clears it is under way.                                       *)

PendingInv ==
    pending_tap_key # None =>
        IF events # <<>> THEN events[Len(events)] = Signal(pending_tap_key, "BeginPending")
        ELSE Tracked(pending_tap_key) \/ ClearsPending(pending_tap_key)

OwnedFrom(i, k) ==
    /\ \A j \in 1 .. Len(events) : j > i => events[j].ev = "Input" /\ events[j].key = k
    /\ IF i = 0 THEN Owned(k) \/ ClearsActive(k) ELSE events[i] = Signal(k, "Begin")

ActiveInv == current_key # None => \E i \in 0 .. Len(events) : OwnedFrom(i, current_key)

MacInv == TypeOK /\ BarrierStates /\ SendingHasClient /\ OneSubscriber /\ FollowInv

(* a task step leaves the messages under way where they are *)
LEMMA TaskKeepsClears ==
    ASSUME ServesEvents \/ ServesOthers \/ Network, UNCHANGED tapVars, NEW k
    PROVE  /\ ClearsPending(k) => ClearsPending(k)'
           /\ ClearsActive(k) => ClearsActive(k)'
<1>1. Elems(calls) \subseteq Elems(calls')
  BY CallsWait
<1>2. UNCHANGED notify
  BY DEF tapVars
<1>. QED
  BY <1>1, <1>2, ClearsGrow DEF Underway

LEMMA PendingStep ==
    ASSUME CoreGraphicsFails = FALSE, Trigger = {}, MacInv, PendingInv, [Next]_vars
    PROVE  PendingInv'
<1>. USE DEF MacInv
<1>0. events \in Seq(CaptureEvents)
  BY DEF TypeOK, ApiTypeOK
<1>1. ASSUME UNCHANGED tapVars, ServesOthers \/ Network
      PROVE  PendingInv'
  <2>1. UNCHANGED <<events, pending_tap_key>>
    BY <1>1, EventsKept DEF tapVars
  <2>2. ASSUME NEW k \in Key
        PROVE  Tracked(k) \/ ClearsPending(k) => Tracked(k)' \/ ClearsPending(k)'
    <3>1. HandsOver(k)
      BY <1>1, TaskHandsOver DEF TypeOK, TaskTypes
    <3>2. CallsPending(k)' => ClearsPending(k)'
      BY DEF CallsPending, ClearsPending, Releasing, Underway
    <3>3. ClearsPending(k) => ClearsPending(k)'
      BY <1>1, TaskKeepsClears
    <3>. QED
      BY <3>1, <3>2, <3>3 DEF HandsOver
  <2>. QED
    BY <2>1, <2>2 DEF PendingInv, TypeOK, TapTypeOK
<1>2. ASSUME UNCHANGED tapVars, ServesEvents
      PROVE  PendingInv'
  <2>1. SUFFICES ASSUME NEW k \in Key, k = pending_tap_key, k # None
                 PROVE  IF events' # <<>> THEN events'[Len(events')] = Signal(k, "BeginPending")
                        ELSE Tracked(k)' \/ ClearsPending(k)'
    BY <1>2 DEF PendingInv, tapVars, TypeOK, TapTypeOK
  <2>2. /\ events # <<>> /\ events' = Tail(events)
        /\ (\E h \in Handle : NextEvent(h)) \/ NextEventUnsubscribed
    BY <1>2, Zenon DEF ServesEvents, NextFanned, NextEvent, NextEventUnsubscribed, OneSubscriber
  <2>3. events[Len(events)] = Signal(k, "BeginPending")
    BY <2>1, <2>2 DEF PendingInv
  <2>4. CASE events' # <<>>
    BY <2>2, <2>3, <2>4, TailFacts DEF TypeOK, TaskTypes
  <2>5. CASE events' = <<>>
    <3>1. Head(events).ev = "BeginPending" /\ Head(events).key = k
      BY <2>2, <2>3, <2>5, TailFacts DEF TypeOK, TaskTypes, Signal
    <3>2. ASSUME NEW h \in Handle, NextEvent(h)
          PROVE  Tracked(k)' \/ ClearsPending(k)'
      <4>1. Tracked(k)' \/ CallsPending(k)'
        BY <3>1, <3>2, CrossingTaken DEF TypeOK, TaskTypes
      <4>. QED
        BY <4>1 DEF CallsPending, ClearsPending, Releasing, Underway
    <3>3. ASSUME NextEventUnsubscribed
          PROVE  ClearsPending(k)'
      <4>1. ClearsPending(k)
        BY <2>1, <3>1, <3>3, UnsubscribedIsCleared DEF NextEventUnsubscribed, BarrierStates
      <4>. QED
        BY <1>2, <4>1, TaskKeepsClears
    <3>. QED
      BY <2>2, <2>5, <3>2, <3>3
  <2>. QED
    BY <2>4, <2>5
<1>3. ASSUME NotifyProducer \/ Producer \/ TapDisabledByUserInput, UNCHANGED taskVars
      PROVE  PendingInv'
  <2>1. SUFFICES ASSUME NEW k \in Key, k = pending_tap_key', k # None
                 PROVE  IF events' # <<>> THEN events'[Len(events')] = Signal(k, "BeginPending")
                        ELSE Tracked(k)' \/ ClearsPending(k)'
    <3>1. pending_tap_key' \in Key \cup {None}
      BY <1>3, ProducerTypes, TapTypes DEF TypeOK, TapTypeOK
    <3>. QED
      BY <3>1 DEF PendingInv
  <2>2. pending_tap_key = k /\ UNCHANGED events
    <3>1. CASE HandleStartCapture
      BY <2>1, <3>1, NoneAssumption, Zenon DEF HandleStartCapture, BarrierStates
    <3>. QED
      BY <1>3, <2>1, <3>1, Zenon
      DEF NotifyProducer, Producer, HandleCreate, HandleDestroy, HandleRelease,
          HandleCancelPending, HandleTapDisabled, ShowCursorFails, TapDisabledByUserInput
  <2>3. Tracked(k) => Tracked(k)'
    BY <1>3 DEF Tracked, keys_pressed, taskVars
  <2>4. ClearsPending(k) => ClearsPending(k)'
    BY <1>3, <2>1, BackendKeepsClears, Zenon
  <2>. QED
    BY <2>1, <2>2, <2>3, <2>4 DEF PendingInv
<1>4. ASSUME NEW k \in Key, pending_tap_key' = k, events' = Append(events, Signal(k, "BeginPending"))
      PROVE  PendingInv'
  <2>1. events' # <<>> /\ events'[Len(events')] = Signal(k, "BeginPending")
    BY <1>0, <1>4, SignalTypes
  <2>. QED
    BY <1>4, <2>1 DEF PendingInv
<1>5. CASE SwitchEnds
  BY <1>4, <1>5 DEF SwitchEnds, TypeOK, TapTypeOK
<1>6. ASSUME NEW k \in Key, TapCross(k)
      PROVE  PendingInv'
  BY <1>4, <1>6 DEF TapCross
<1>7. ASSUME TapPullBack \/ \E k \in Key : TapSwitch(k)
      PROVE  PendingInv'
  BY <1>7 DEF TapPullBack, TapSwitch, PendingInv
<1>8. ASSUME NEW i \in Input, TapInput(i)
      PROVE  PendingInv'
  BY <1>8 DEF TapInput, PendingInv, BarrierStates
<1>9. CASE UNCHANGED vars
  <2>1. \A k : Tracked(k)' = Tracked(k) /\ ClearsPending(k)' = ClearsPending(k)
    BY <1>9 DEF vars, tapVars, taskVars, Tracked, keys_pressed, ClearsPending, Releasing, Underway
  <2>. QED
    BY <1>9, <2>1 DEF vars, tapVars, PendingInv
<1>. QED
  BY <1>1, <1>2, <1>3, <1>5, <1>6, <1>7, <1>8, <1>9 DEF Next, TapUser
(* With no release bind to type, and no triggers. *)
LEMMA ActiveStep ==
    ASSUME CoreGraphicsFails = FALSE, Trigger = {}, ~(ReleaseBind \subseteq Scancode),
           MacInv, ActiveInv, [Next]_vars
    PROVE  ActiveInv'
<1>. USE DEF MacInv
<1>0. events \in Seq(CaptureEvents) /\ current_key \in Key \cup {None}
  BY DEF TypeOK, ApiTypeOK, TapTypeOK
<1>1. ASSUME UNCHANGED <<events, current_key>>,
             \A k \in Key : k = current_key =>
                (Owned(k) \/ ClearsActive(k) => Owned(k)' \/ ClearsActive(k)')
      PROVE  ActiveInv'
  BY <1>0, <1>1, Zenon DEF ActiveInv, OwnedFrom
<1>2. ASSUME UNCHANGED tapVars, ServesOthers \/ Network
      PROVE  ActiveInv'
  <2>1. UNCHANGED <<events, current_key>>
    BY <1>2, EventsKept DEF tapVars
  <2>2. ASSUME NEW k \in Key
        PROVE  Owned(k) \/ ClearsActive(k) => Owned(k)' \/ ClearsActive(k)'
    <3>1. HandsOver(k)
      BY <1>2, TaskHandsOver DEF TypeOK, TaskTypes
    <3>2. CallsActive(k)' => ClearsActive(k)'
      BY DEF CallsActive, ClearsActive, Releasing, Underway
    <3>3. ClearsActive(k) => ClearsActive(k)'
      BY <1>2, TaskKeepsClears
    <3>. QED
      BY <3>1, <3>2, <3>3 DEF HandsOver
  <2>. QED
    BY <1>1, <2>1, <2>2
<1>3. ASSUME UNCHANGED tapVars, ServesEvents
      PROVE  ActiveInv'
  <2>1. SUFFICES ASSUME NEW k \in Key, k = current_key, k # None
                 PROVE  \E i \in 0 .. Len(events') : OwnedFrom(i, k)'
    BY <1>0, <1>3 DEF ActiveInv, tapVars
  <2>2. /\ events # <<>> /\ events' = Tail(events)
        /\ (\E h \in Handle : NextEvent(h)) \/ NextEventUnsubscribed
    BY <1>3, Zenon DEF ServesEvents, NextFanned, NextEvent, NextEventUnsubscribed, OneSubscriber
  <2>3. PICK i \in 0 .. Len(events) : OwnedFrom(i, k)
    BY <2>1 DEF ActiveInv
  <2>. USE DEF TypeOK, TaskTypes
  <2>4. ASSUME NEW n \in 0 .. Len(events), n = IF i = 0 THEN 0 ELSE i - 1,
               NEW j \in 1 .. Len(events'), j > n
        PROVE  events'[j].ev = "Input" /\ events'[j].key = k
    <3>1. j + 1 \in 1 .. Len(events) /\ j + 1 > i /\ events'[j] = events[j + 1]
      BY <2>2, <2>4, TailFacts
    <3>. QED
      BY <2>3, <3>1 DEF OwnedFrom
  <2>5. CASE i > 1
    <3>1. i - 1 \in 1 .. Len(events') /\ events'[i - 1] = events[i]
      BY <2>2, <2>5, TailFacts
    <3>2. events'[i - 1] = Signal(k, "Begin")
      BY <2>3, <2>5, <3>1 DEF OwnedFrom
    <3>3. \A j \in 1 .. Len(events') : j > i - 1 => events'[j].ev = "Input" /\ events'[j].key = k
      BY <2>4, <2>5
    <3>4. OwnedFrom(i - 1, k)'
      BY <2>5, <3>2, <3>3 DEF OwnedFrom
    <3>5. i - 1 \in 0 .. Len(events')
      BY <3>1
    <3>. QED
      BY <3>4, <3>5, Zenon
  <2>6. CASE i <= 1
    <3>1. /\ i = 0 => Owned(k) \/ ClearsActive(k)
          /\ IF i = 0 THEN Head(events).ev = "Input" /\ Head(events).key = k
             ELSE Head(events) = Signal(k, "Begin")
      BY <2>2, <2>3, <2>6, TailFacts DEF OwnedFrom
    <3>2. ClearsActive(k) => ClearsActive(k)'
      BY <1>3, TaskKeepsClears
    <3>3. ASSUME NEW h \in Handle, NextEvent(h)
          PROVE  Owned(k)' \/ ClearsActive(k)'
      BY <2>6, <3>1, <3>2, <3>3, CaptureTaken
    <3>4. ASSUME NextEventUnsubscribed
          PROVE  ClearsActive(k)'
      <4>1. Signal(k, "Begin").key = k
        BY DEF Signal
      <4>2. Head(events).key = k
        BY <3>1, <4>1
      <4>. QED
        BY <2>1, <3>2, <3>4, <4>2, UnsubscribedIsCleared, Zenon DEF NextEventUnsubscribed, BarrierStates
    <3>5. Owned(k)' \/ ClearsActive(k)'
      BY <2>2, <3>3, <3>4
    <3>6. \A j \in 1 .. Len(events') : j > 0 => events'[j].ev = "Input" /\ events'[j].key = k
      BY <2>4, <2>6
    <3>7. OwnedFrom(0, k)' /\ 0 \in 0 .. Len(events')
      BY <2>2, <3>5, <3>6, TailFacts DEF OwnedFrom
    <3>. QED
      BY <3>7
  <2>. QED
    BY <2>5, <2>6
<1>4. ASSUME NotifyProducer \/ Producer \/ TapDisabledByUserInput, UNCHANGED taskVars,
             UNCHANGED <<events, current_key>>
      PROVE  ActiveInv'
  <2>1. ASSUME NEW k \in Key, k = current_key
        PROVE  Owned(k) \/ ClearsActive(k) => Owned(k)' \/ ClearsActive(k)'
    <3>1. Owned(k) => Owned(k)'
      BY <1>4 DEF Owned, taskVars
    <3>. QED
      BY <1>4, <2>1, <3>1, BackendKeepsClears, Zenon
  <2>. QED
    BY <1>1, <1>4, <2>1
<1>5. ASSUME current_key' = None
      PROVE  ActiveInv'
  BY <1>5 DEF ActiveInv
<1>6. ASSUME HandleStartCapture, UNCHANGED taskVars
      PROVE  ActiveInv'
  <2>1. CASE UNCHANGED <<events, current_key>>
    BY <1>4, <1>6, <2>1 DEF Producer
  <2>2. ASSUME NEW k \in Key, current_key' = k, events' = Append(events, Signal(k, "Begin"))
        PROVE  ActiveInv'
    <3>1. PICK n \in Nat \ {0} : n = Len(events') /\ events'[n] = Signal(k, "Begin")
      <4>1. /\ Len(events') = Len(events) + 1 /\ Len(events) \in Nat
            /\ events'[Len(events) + 1] = Signal(k, "Begin")
        BY <1>0, <2>2, SignalTypes
      <4>. QED
        BY <4>1
    <3>2. OwnedFrom(n, k)'
      BY <3>1 DEF OwnedFrom
    <3>. QED
      BY <2>2, <3>1, <3>2 DEF ActiveInv
  <2>3. Head(notify).key \in Key
    BY <1>6, HandlingTypes DEF HandleStartCapture, TypeOK
  <2>. QED
    BY <1>6, <2>1, <2>2, <2>3 DEF HandleStartCapture
<1>7. ASSUME NotifyProducer \/ Producer \/ TapDisabledByUserInput, ~HandleStartCapture
      PROVE  current_key' = None \/ UNCHANGED <<events, current_key>>
  <2>1. CASE HandleCancelPending
    <3>1. Head(notify).key \in Key
      BY <2>1, HandlingTypes DEF HandleCancelPending, TypeOK
    <3>. QED
      BY <2>1, <3>1, NoneAssumption, Zenon DEF HandleCancelPending, BarrierStates
  <2>. QED
    BY <1>7, <2>1, Zenon
    DEF NotifyProducer, Producer, HandleCreate, HandleDestroy, HandleRelease, HandleTapDisabled,
        EndCapture, ShowCursorFails, TapDisabledByUserInput
<1>8. ASSUME NEW x \in Input, TapInput(x), UNCHANGED taskVars
      PROVE  ActiveInv'
  <2>1. SUFFICES ASSUME NEW k \in Key, k = current_key, k # None
                 PROVE  \E i \in 0 .. Len(events') : OwnedFrom(i, k)'
    BY <1>0, <1>8 DEF ActiveInv, TapInput
  <2>2. PICK i \in 0 .. Len(events) : OwnedFrom(i, k)
    BY <2>1 DEF ActiveInv
  <2>3. /\ Len(events') = Len(events) + 1 /\ Len(events) \in Nat
        /\ \A j \in 1 .. Len(events) : events'[j] = events[j]
        /\ events'[Len(events) + 1] = InputEvent(k, x)
    <3>1. events' = Append(events, InputEvent(k, x)) /\ InputEvent(k, x) \in CaptureEvents
      BY <1>8, <2>1, InputTypes DEF TapInput
    <3>. QED
      BY <1>0, <3>1
  <2>4. InputEvent(k, x).ev = "Input" /\ InputEvent(k, x).key = k
    BY DEF InputEvent
  <2>5. Owned(k)' = Owned(k) /\ ClearsActive(k)' = ClearsActive(k)
    BY <1>8 DEF TapInput, InCallback, taskVars, Owned, ClearsActive, Releasing, Underway
  <2>6. OwnedFrom(i, k)'
    <3>0. \A j \in 1 .. Len(events) : j > i => events[j].ev = "Input" /\ events[j].key = k
      BY <2>2 DEF OwnedFrom
    <3>1. ASSUME NEW j \in 1 .. Len(events'), j > i
          PROVE  events'[j].ev = "Input" /\ events'[j].key = k
      <4>1. CASE j = Len(events) + 1
        BY <2>3, <2>4, <4>1
      <4>2. CASE j \in 1 .. Len(events)
        BY <2>3, <3>0, <3>1, <4>2
      <4>3. j = Len(events) + 1 \/ j \in 1 .. Len(events)
        BY <2>3
      <4>. QED
        BY <4>1, <4>2, <4>3
    <3>2. i # 0 => events'[i] = events[i]
      BY <2>3
    <3>3. IF i = 0 THEN Owned(k)' \/ ClearsActive(k)' ELSE events'[i] = Signal(k, "Begin")
      BY <2>2, <2>5, <3>2 DEF OwnedFrom
    <3>. QED
      BY <3>1, <3>3 DEF OwnedFrom
  <2>7. i \in 0 .. Len(events')
    BY <2>3
  <2>. QED
    BY <2>6, <2>7
<1>9. CASE UNCHANGED vars
  <2>1. \A k : Owned(k)' = Owned(k) /\ ClearsActive(k)' = ClearsActive(k)
    BY <1>9 DEF vars, tapVars, taskVars, Owned, ClearsActive, Releasing, Underway
  <2>. QED
    BY <1>1, <1>9, <2>1 DEF vars, tapVars
<1>10. ASSUME SwitchEnds \/ TapPullBack \/ \E k \in Key : TapCross(k) \/ TapSwitch(k)
       PROVE  current_key' = None
  BY <1>10 DEF SwitchEnds, TapPullBack, TapCross, TapSwitch, BarrierStates
<1>. QED
  BY <1>2, <1>3, <1>4, <1>5, <1>6, <1>7, <1>8, <1>9, <1>10 DEF Next, TapUser, Producer

-----------------------------------------------------------------------------
(* The ghost-active state is not reachable with this backend either. *)
THEOREM NoGhostActive == Spec => []SendingHasClient
<1>1. Init => SendingHasClient
  BY DEF Init, TaskInit, SendingHasClient
<1>2. SendingHasClient /\ [Next]_vars => SendingHasClient'
  BY TaskKeepsClient DEF Next, vars
<1>. QED
  BY <1>1, <1>2, PTL DEF Spec

LEMMA MacInvHolds ==
    ASSUME CoreGraphicsFails = FALSE, Trigger = {}
    PROVE  Spec => []MacInv
<1>1. Init => OneSubscriber /\ FollowInv
  <2>1. Init => OneSubscriber
    BY DEF Init, TaskInit, OneSubscriber, Handle
  <2>2. Init => FollowInv
    BY ElemsFew DEF Init, TapInit, FollowInv, ClosedIn
  <2>. QED
    BY <2>1, <2>2
<1>2. TypeOK /\ OneSubscriber /\ [Next]_vars => OneSubscriber'
  BY SubscriberStep DEF Next, vars, TypeOK, TaskTypes
<1>. QED
  BY <1>1, <1>2, FollowStep, TypeCorrect, BarriersConsistent, NoGhostActive, PTL DEF Spec, MacInv

(* when everything is settled, no message is under way *)
LEMMA SettledClears ==
    ASSUME Settled, NEW k
    PROVE  ~ClearsPending(k) /\ ~ClearsActive(k)
  BY ElemsFew DEF Settled, ClearsPending, ClearsActive, Releasing, Underway

(* For any number of clients and keys, any release bind and any capacity of   *)
(* the event channel, without triggers and as long as Core Graphics calls     *)
(* succeed: a barrier that is pending once all messages are handled is the    *)
(* one whose Ack the task waits for, also after the OS has disabled the tap,  *)
(* unless the task takes the release bind for held.                           *)
THEOREM CrossingsTracked ==
    ASSUME CoreGraphicsFails = FALSE, Trigger = {}
    PROVE  Spec => []PendingIsTracked
<1>1. Init => PendingInv
  BY DEF Init, TapInit, PendingInv
<1>2. MacInv /\ PendingInv /\ [Next]_vars => PendingInv'
  BY PendingStep, Zenon
<1>3. MacInv /\ PendingInv => PendingIsTracked
  BY SettledClears DEF PendingInv, PendingIsTracked, Settled, Tracked
<1>. QED
  BY <1>1, <1>2, <1>3, MacInvHolds, PTL DEF Spec

(* For any number of clients and keys and any capacity of the event channel,  *)
(* with no triggers, a release bind that the keyboard lacks a key of and Core *)
(* Graphics calls that succeed: once all messages are handled, the tap        *)
(* swallows input only for the client that the task sends to.                 *)
THEOREM CapturesOwned ==
    ASSUME CoreGraphicsFails = FALSE, Trigger = {}, ~(ReleaseBind \subseteq Scancode)
    PROVE  Spec => []CaptureIsOwned
<1>1. Init => ActiveInv
  BY DEF Init, TapInit, ActiveInv
<1>2. MacInv /\ ActiveInv /\ [Next]_vars => ActiveInv'
  BY ActiveStep, Zenon
<1>3. MacInv /\ ActiveInv => CaptureIsOwned
  <2>1. ASSUME MacInv, ActiveInv, Settled, current_key # None
        PROVE  Owned(current_key)
    <3>1. PICK i \in 0 .. 0 : OwnedFrom(i, current_key)
      BY <2>1 DEF ActiveInv, Settled
    <3>2. Owned(current_key) \/ ClearsActive(current_key)
      BY <3>1 DEF OwnedFrom
    <3>. QED
      BY <2>1, <3>2, SettledClears
  <2>. QED
    BY <2>1 DEF CaptureIsOwned, Owned
<1>. QED
  BY <1>1, <1>2, <1>3, MacInvHolds, PTL DEF Spec
==============================================================================
