------------------------------ MODULE Handover ------------------------------
(***************************************************************************)
(* Two hosts that are each other's client, at facing edges: the capture    *)
(* task, the emulation task and the service of both, and the two           *)
(* connections between them.  Either user may push the cursor over the     *)
(* edge at any time.                                                       *)
(*                                                                         *)
(* The capture backend is the one of CaptureContract, its calls carried    *)
(* out in order; CaptureTask models the task in full, with its errors.     *)
(* Here sends succeed and nothing is lost, so that what remains is the     *)
(* order in which the tasks of the two hosts run.                          *)
(***************************************************************************)
EXTENDS Naturals, Sequences

CONSTANTS
    Host,         \* the two hosts
    MaxCrossings  \* bound on the crossings of both users

VARIABLES
    crossings,   \* the crossings so far
    hook,        \* per host: the barrier is free, pending or active
    cmds,        \* calls on their way to the backend
    evs,         \* events of the backend on their way to the capture task
    task,        \* CaptureTask.state; active_client is set when it is Sending
    trigger,     \* the EnterOnly capture of the peer: none, requested by the service, made
    capture_rq,  \* from the emulation task over the service to the capture task
    emulation_rq,\* from the capture task over the service to the emulation task
    enters,      \* frames to the peer's listener, on the connection of the host
    replies      \* frames of the peer's listener back to the host

hoVars == <<crossings, hook, cmds, evs, task, trigger, capture_rq, emulation_rq, enters,
            replies>>

Peer(h) == CHOOSE p \in Host : p # h

HoInit ==
    /\ crossings = 0
    /\ hook = [h \in Host |-> "free"]
    /\ task = [h \in Host |-> "Idle"]
    /\ trigger = [h \in Host |-> "none"]
    /\ cmds = [h \in Host |-> <<>>]
    /\ evs = [h \in Host |-> <<>>]
    /\ capture_rq = [h \in Host |-> <<>>]
    /\ emulation_rq = [h \in Host |-> <<>>]
    /\ enters = [h \in Host |-> <<>>]
    /\ replies = [h \in Host |-> <<>>]

Put(q, h, es) == [q EXCEPT ![h] = @ \o es]
Pop(q, h) == [q EXCEPT ![h] = Tail(@)]
Set(f, h, v) == [f EXCEPT ![h] = v]

-----------------------------------------------------------------------------
(* The service turns the events of one task into requests to the other; it      *)
(* takes them in order, so that its queue and the task's make one queue here.   *)

(* handle_capture_event: a CaptureBegin of an EnterOnly capture *)
OnCaptureBegin(h) == IF trigger[h] = "made" THEN <<"Release">> ELSE <<>>

(* mutated: an entered host keeps its own capture *)
OnReleaseNotifyNothing == <<>>

(* handle_emulation_event *)
OnReleaseNotify == <<"Release">>

(* handle_emulation_event: add_incoming for a peer that is not known yet *)
OnEntered(h) == IF trigger[h] = "none" THEN <<"Create">> ELSE <<>>

-----------------------------------------------------------------------------
(* the backend *)

Cross(h) ==
    /\ crossings < MaxCrossings
    /\ hook[h] = "free"
    /\ crossings' = crossings + 1
    /\ hook' = Set(hook, h, "pending")
    /\ evs' = Put(evs, h, <<"BeginPending">>)
    /\ UNCHANGED <<cmds, task, trigger, capture_rq, emulation_rq, enters, replies>>

(* start_capture promotes the pending barrier, cancel_pending frees it, release any *)
Backend(h) ==
    /\ cmds[h] # <<>>
    /\ cmds' = Pop(cmds, h)
    /\ LET cmd == Head(cmds[h])
           starts == cmd = "start_capture" /\ hook[h] = "pending"
           frees == cmd = "release" \/ (cmd = "cancel_pending" /\ hook[h] = "pending")
       IN /\ hook' = Set(hook, h, IF starts THEN "active" ELSE IF frees THEN "free" ELSE hook[h])
          /\ evs' = Put(evs, h, IF starts THEN <<"Begin">> ELSE <<>>)
    /\ UNCHANGED <<crossings, task, trigger, capture_rq, emulation_rq, enters, replies>>

-----------------------------------------------------------------------------
(* the capture task *)

TaskRuns(h) == cmds[h] = <<>>

(* release_capture: nothing to do when Idle; a pending crossing is cancelled  *)
(* without a word to the peer, an active capture ends with Leave              *)
release_capture(h) ==
    /\ cmds' = Put(cmds, h, CASE task[h] = "Idle" -> <<>>
                              [] task[h] = "Pending" -> <<"cancel_pending", "release">>
                              [] OTHER -> <<"release">>)
    /\ enters' = Put(enters, h, IF task[h] = "Sending" THEN <<"Leave">> ELSE <<>>)
    /\ task' = Set(task, h, "Idle")

(* An event goes to the EnterOnly capture of the peer, which the service answers *)
(* with a Leave to the peer, and to the Default capture, which enters the peer.  *)
handle_capture_event(h) ==
    /\ TaskRuns(h)
    /\ evs[h] # <<>>
    /\ evs' = Pop(evs, h)
    /\ LET begin == Head(evs[h]) = "Begin"
           promotion == begin /\ task[h] = "Pending"
       IN /\ emulation_rq' = Put(emulation_rq, h, OnCaptureBegin(h))
          /\ task' = Set(task, h, IF begin THEN "Sending" ELSE "Pending")
          /\ enters' = Put(enters, h, IF promotion THEN <<>> ELSE <<"Enter">>)
    /\ UNCHANGED <<crossings, hook, cmds, trigger, capture_rq, replies>>

(* conn.recv(): an Ack starts a pending capture, a Leave ends the capture *)
RecvReply(h) ==
    /\ TaskRuns(h)
    /\ replies[h] # <<>>
    /\ replies' = Pop(replies, h)
    /\ IF Head(replies[h]) = "Leave"
         THEN release_capture(h)
         ELSE /\ cmds' = Put(cmds, h, IF task[h] = "Pending" THEN <<"start_capture">> ELSE <<>>)
              /\ UNCHANGED <<task, enters>>
    /\ UNCHANGED <<crossings, hook, evs, trigger, capture_rq, emulation_rq>>

CaptureRequest(h) ==
    /\ TaskRuns(h)
    /\ capture_rq[h] # <<>>
    /\ capture_rq' = Pop(capture_rq, h)
    /\ IF Head(capture_rq[h]) = "Release"
         THEN release_capture(h) /\ UNCHANGED trigger
         ELSE trigger' = Set(trigger, h, "made") /\ UNCHANGED <<cmds, task, enters>>
    /\ UNCHANGED <<crossings, hook, evs, emulation_rq, replies>>

PendingTimeout(h) ==
    /\ TaskRuns(h)
    /\ task[h] = "Pending"
    /\ task' = Set(task, h, "Idle")
    /\ cmds' = Put(cmds, h, <<"cancel_pending">>)
    /\ UNCHANGED <<crossings, hook, evs, trigger, capture_rq, emulation_rq, enters, replies>>

-----------------------------------------------------------------------------
(* the emulation task of the host whose listener the peer has dialled *)

(* both frames are answered with Ack; Enter also releases this host's own capture *)
ListenMsg(h) ==
    /\ enters[Peer(h)] # <<>>
    /\ enters' = Pop(enters, Peer(h))
    /\ replies' = Put(replies, Peer(h), <<"Ack">>)
    /\ IF Head(enters[Peer(h)]) = "Enter"
         THEN /\ capture_rq' = Put(capture_rq, h, OnReleaseNotify \o OnEntered(h))
              /\ trigger' = Set(trigger, h, IF trigger[h] = "none" THEN "requested" ELSE trigger[h])
         ELSE UNCHANGED <<capture_rq, trigger>>
    /\ UNCHANGED <<crossings, hook, cmds, evs, task, emulation_rq>>

(* EmulationRequest::Release: Leave goes to the peer that controls this host *)
EmulationRequest(h) ==
    /\ emulation_rq[h] # <<>>
    /\ emulation_rq' = Pop(emulation_rq, h)
    /\ replies' = Put(replies, Peer(h), <<"Leave">>)
    /\ UNCHANGED <<crossings, hook, cmds, evs, task, trigger, capture_rq, enters>>


HoNext ==
    \E h \in Host :
        \/ Cross(h)
        \/ Backend(h)
        \/ handle_capture_event(h)
        \/ RecvReply(h)
        \/ CaptureRequest(h)
        \/ PendingTimeout(h)
        \/ ListenMsg(h)
        \/ EmulationRequest(h)

HoSpec == HoInit /\ [][HoNext]_hoVars

-----------------------------------------------------------------------------
(* nothing is under way, and nobody waits for an Ack *)
AtRest ==
    /\ \A q \in {cmds, evs, capture_rq, emulation_rq, enters, replies} :
          \A h \in Host : q[h] = <<>>
    /\ \A h \in Host : task[h] # "Pending"

(* Two users who push their cursors at each other do not lock each other out:  *)
(* however the Enters, Acks and Leaves of the two hosts cross, once they are   *)
(* handled at most one of the hosts has its mouse captured, because an Enter   *)
(* makes the emulation task release the capture of the host it enters          *)
(* (emulation.rs:303) whatever that capture is waiting for.                    *)
OneMaster == AtRest => \E h \in Host : \A m \in Host \ {h} : hook[m] # "active"

(* A host whose mouse is captured knows it: once everything is handled its     *)
(* capture task is sending input to the peer, so that a Leave, the release     *)
(* bind or the watchdog can end the capture, and the peer is ready to take     *)
(* the cursor back (its trigger at the edge exists).                           *)
MasterIsSending ==
    \A h \in Host : AtRest /\ hook[h] = "active" => task[h] = "Sending" /\ trigger[Peer(h)] = "made"
=============================================================================
