----------------------------- MODULE CaptureApi -----------------------------
(***************************************************************************)
(* The interface between the capture task, one async task, and an OS       *)
(* capture backend, one or more OS threads:                                *)
(*                                                                         *)
(*   calls   the calls of trait Capture made by the handler that ran last, *)
(*           in program order, that have not reached the backend yet;      *)
(*   events  the bounded channel event_tx -> event_rx of the backend.      *)
(***************************************************************************)
EXTENDS CaptureTypes

CONSTANT EventCap   \* capacity of the event channel

ASSUME EventCapAssumption == EventCap \in Nat \ {0}

VARIABLES calls, events

(* the bounded channel accepts one more event *)
Room == Len(events) < EventCap

ApiTypeOK ==
    /\ calls \in Seq(Calls)
    /\ events \in Seq(CaptureEvents)
    /\ Len(events) <= EventCap
=============================================================================
