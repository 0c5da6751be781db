----------------------- MODULE CaptureContract_proofs -----------------------
(***************************************************************************)
(* What follows from the backend contract alone, and so for every backend  *)
(* that implements it.                                                     *)
(***************************************************************************)
EXTENDS CaptureContract, TLAPS

(* the last event of the stream tells the state of the barriers *)
LastEventMatches ==
    out # <<>> =>
        /\ pending # None => out[Len(out)] = Signal(pending, "BeginPending")
        /\ active # None => out[Len(out)].key = active /\ out[Len(out)].ev \in {"Begin", "Input"}

StreamInv ==
    /\ TypeOK
    /\ active = None \/ pending = None
    /\ LastEventMatches
    /\ EventOrder

LEMMA AppendOrdered ==
    ASSUME NEW s \in Seq(CaptureEvents), NEW e \in CaptureEvents, Ordered(s),
           s # <<>> => Follows(s[Len(s)], e)
    PROVE  Ordered(Append(s, e))
<1>. SUFFICES ASSUME NEW i \in 1 .. Len(Append(s, e)) - 1
              PROVE  Follows(Append(s, e)[i], Append(s, e)[i + 1])
  BY DEF Ordered
<1>1. CASE i < Len(s)
  BY <1>1 DEF Ordered
<1>2. CASE i = Len(s)
  BY <1>2
<1>. QED
  BY <1>1, <1>2

LEMMA TailOrdered ==
    ASSUME NEW s \in Seq(CaptureEvents), s # <<>>, Ordered(s)
    PROVE  Ordered(Tail(s))
  BY DEF Ordered

LEMMA EventTypes ==
    /\ \A k \in Key, ev \in {"BeginPending", "CancelPending", "Begin"} : Signal(k, ev) \in CaptureEvents
    /\ \A k \in Key, i \in Input : InputEvent(k, i) \in CaptureEvents
  BY DEF Signal, InputEvent, CaptureEvents

LEMMA AppendLast ==
    ASSUME NEW s \in Seq(CaptureEvents), NEW e \in CaptureEvents
    PROVE  Append(s, e)[Len(Append(s, e))] = e
  OBVIOUS

LEMMA StreamStep == StreamInv /\ [Next]_contractVars => StreamInv'
<1>. SUFFICES ASSUME StreamInv, [Next]_contractVars
              PROVE  StreamInv'
  OBVIOUS
<1>. USE DEF StreamInv, TypeOK, EventOrder, LastEventMatches
<1>1. ASSUME NEW k \in Key, Cross(k)
      PROVE  StreamInv'
  <2>1. Signal(k, "BeginPending") \in CaptureEvents /\ Signal(k, "BeginPending").ev = "BeginPending"
    BY EventTypes DEF Signal
  <2>2. EventOrder' /\ out' \in Seq(CaptureEvents)
    BY <1>1, <2>1, AppendOrdered DEF Cross, Emit, Follows
  <2>. QED
    BY <1>1, <2>1, <2>2, AppendLast, NoneAssumption DEF Cross, Emit
<1>2. CASE PullBack
  <2>1. /\ Signal(pending, "CancelPending") \in CaptureEvents
        /\ Signal(pending, "CancelPending").ev = "CancelPending"
        /\ Signal(pending, "CancelPending").key = pending
    BY <1>2, EventTypes DEF PullBack, Signal
  <2>2. EventOrder' /\ out' \in Seq(CaptureEvents)
    BY <1>2, <2>1, AppendOrdered DEF PullBack, Emit, Follows
  <2>. QED
    BY <1>2, <2>1, <2>2, AppendLast DEF PullBack, Emit
<1>3. CASE Promote
  <2>1. /\ Signal(pending, "Begin") \in CaptureEvents
        /\ Signal(pending, "Begin").ev = "Begin"
        /\ Signal(pending, "Begin").key = pending
    BY <1>3, EventTypes DEF Promote, Signal
  <2>2. EventOrder' /\ out' \in Seq(CaptureEvents)
    BY <1>3, <2>1, AppendOrdered DEF Promote, Emit, Follows
  <2>. QED
    BY <1>3, <2>1, <2>2, AppendLast DEF Promote, Emit
<1>4. ASSUME NEW i \in Input, Forward(i)
      PROVE  StreamInv'
  BY <1>4, AppendOrdered, AppendLast, EventTypes DEF Forward, Emit, Follows, InputEvent
<1>5. CASE Withdraw
  BY <1>5 DEF Withdraw
<1>6. CASE Take
  <2>1. Ordered(Tail(out)) /\ Tail(out) \in Seq(CaptureEvents)
    BY <1>6, TailOrdered DEF Take
  <2>2. Tail(out) # <<>> => Tail(out)[Len(Tail(out))] = out[Len(out)]
    BY <1>6 DEF Take
  <2>. QED
    BY <1>6, <2>1, <2>2 DEF Take
<1>7. CASE UNCHANGED contractVars
  BY <1>7 DEF contractVars, Ordered, Follows
<1>. QED
  BY <1>1, <1>2, <1>3, <1>4, <1>5, <1>6, <1>7 DEF Next

(* The event stream of a backend that keeps the contract is always ordered. *)
THEOREM StreamOrdered == Spec => []EventOrder
<1>1. Init => StreamInv
  BY DEF Init, StreamInv, TypeOK, EventOrder, Ordered, LastEventMatches
<1>2. StreamInv => EventOrder
  BY DEF StreamInv
<1>. QED
  BY <1>1, <1>2, StreamStep, PTL DEF Spec
=============================================================================
