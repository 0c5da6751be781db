--------------------------- MODULE CaptureContract ---------------------------
(***************************************************************************)
(* What a capture backend with the pending-capture handshake promises to   *)
(* the capture task, whatever the task calls and whenever it calls it: at  *)
(* most one barrier is pending or active, a capture becomes active from    *)
(* the pending state of its own barrier only, and the event stream reports *)
(* every step but one: the backend may withdraw a pending or an active     *)
(* barrier without a word, on release, destroy or cancel_pending.          *)
(***************************************************************************)
EXTENDS CaptureTypes

VARIABLES
    active,    \* the barrier whose input is swallowed and reported, or None
    pending,   \* the barrier that was crossed and is not active yet, or None
    out        \* the event stream, up to what the task has taken

contractVars == <<active, pending, out>>

Emit(e) == out' = Append(out, e)

Init ==
    /\ active = None
    /\ pending = None
    /\ out = <<>>

(* the cursor crosses a barrier *)
Cross(k) ==
    /\ active = None
    /\ pending = None
    /\ pending' = k
    /\ Emit(Signal(k, "BeginPending"))
    /\ UNCHANGED active

(* the cursor is pulled back before the capture started *)
PullBack ==
    /\ pending # None
    /\ pending' = None
    /\ Emit(Signal(pending, "CancelPending"))
    /\ UNCHANGED active

(* start_capture for the barrier that is pending *)
Promote ==
    /\ pending # None
    /\ active' = pending
    /\ pending' = None
    /\ Emit(Signal(pending, "Begin"))

(* input of the user while a barrier is active *)
Forward(i) ==
    /\ active # None
    /\ Emit(InputEvent(active, i))
    /\ UNCHANGED <<active, pending>>

Withdraw ==
    /\ active' \in {active, None}
    /\ pending' \in {pending, None}
    /\ UNCHANGED out

(* the task takes an event *)
Take ==
    /\ out # <<>>
    /\ out' = Tail(out)
    /\ UNCHANGED <<active, pending>>

Next ==
    \/ \E k \in Key : Cross(k)
    \/ PullBack
    \/ Promote
    \/ \E i \in Input : Forward(i)
    \/ Withdraw
    \/ Take

Spec == Init /\ [][Next]_contractVars

-----------------------------------------------------------------------------
TypeOK ==
    /\ active \in Key \cup {None}
    /\ pending \in Key \cup {None}
    /\ out \in Seq(CaptureEvents)

(* the order in which two events may follow each other in the stream *)
Follows(a, b) ==
    \/ b.ev = "BeginPending"
    \/ b.ev \in {"CancelPending", "Begin"} /\ a = Signal(b.key, "BeginPending")
    \/ b.ev = "Input" /\ a.key = b.key /\ a.ev \in {"Begin", "Input"}

Ordered(s) == \A i \in 1 .. Len(s) - 1 : Follows(s[i], s[i + 1])

(* The task is told of a capture before it sees its input, and of a crossing  *)
(* before it is told of the capture: in the stream an Input of a barrier      *)
(* comes right after its Begin or another Input, and a Begin or CancelPending *)
(* right after the BeginPending of the same barrier.                          *)
EventOrder == Ordered(out)
==============================================================================
