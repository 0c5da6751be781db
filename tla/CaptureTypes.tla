---------------------------- MODULE CaptureTypes ----------------------------
(***************************************************************************)
(* The values that the capture task (src/src/capture.rs) and an OS capture *)
(* backend (src/input-capture/src) exchange: calls of trait Capture in one *)
(* direction, capture events in the other.                                 *)
(***************************************************************************)
EXTENDS Integers, Sequences

CONSTANTS
    Key,       \* BarrierKey: a screen edge, possibly of one monitor
    None,      \* Option::None
    Input      \* the input events a user can produce

ASSUME NoneAssumption == None \notin Key

(* trait Capture, without monitors() and terminate(), which change nothing *)
ClientUpdates == [op : {"create", "destroy", "start_capture", "cancel_pending"}, key : Key]

Calls == ClientUpdates \cup [op : {"release"}, key : {None}]

Call(op, k) == [op |-> op, key |-> k]

Release == [op |-> "release", key |-> None]

(* enum CaptureEvent, tagged with the key it was observed at; every event    *)
(* but Input carries no payload                                              *)
CaptureEvents == [key : Key, ev : {"BeginPending", "CancelPending", "Begin"}, input : {None}]
                    \cup [key : Key, ev : {"Input"}, input : Input]

Signal(k, ev) == [key |-> k, ev |-> ev, input |-> None]

InputEvent(k, i) == [key |-> k, ev |-> "Input", input |-> i]
=============================================================================
