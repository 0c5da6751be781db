------------------------- MODULE MC_CaptureWinShapes -------------------------
(***************************************************************************)
(* Two shapes of CaptureWin for TLC, chosen in the initial state: a client *)
(* and an incoming peer's trigger on one barrier, with a keyboard that has *)
(* the release chord; and two clients with a barrier each.                 *)
(***************************************************************************)
EXTENDS Naturals, Sequences, FiniteSets, TLC

CONSTANTS None, ReleaseBind, EventCap, Backlog, NetCap, SendFailuresThreshold,
          CrossingStormThreshold, edge, peer, guest, esc, k1, k2, c1, c2

VARIABLES shape,
  calls, events, state, pending_handle, pending_key, active_client, captures, fan_event,
  fan_to, pressed_keys, failures, crossings, panicked, link, outbox, inbox, lost,
  CLIENTS, ACTIVE_CLIENT, PENDING_CLIENT, request_buffer, posted, draining

Inputs(S) == [scancode : S, pressed : BOOLEAN] \cup {[scancode |-> None, pressed |-> FALSE]}

NoOne == {}
OneKey == {edge}
OneClient == {peer}
OneTrigger == {guest}
Chord == {esc}
ChordInput == Inputs({esc})
Keys == {k1, k2}
Clients == {c1, c2}
Motion == Inputs({})

One == INSTANCE CaptureWin WITH Key <- OneKey, Client <- OneClient, Trigger <- OneTrigger,
                                Scancode <- Chord, Input <- ChordInput
Pair == INSTANCE CaptureWin WITH Key <- Keys, Client <- Clients, Trigger <- NoOne,
                                 Scancode <- NoOne, Input <- Motion

Init ==
  \/ shape = "one" /\ One!Init
  \/ shape = "pair" /\ Pair!Init

Next ==
  /\ UNCHANGED shape
  /\ \/ shape = "one" /\ One!Next
     \/ shape = "pair" /\ Pair!Next

Spec == Init /\ [][Next]_<<shape, One!vars>>

\* The two clients are interchangeable, and so are their barriers.
Symmetry == Permutations(Clients) \cup Permutations(Keys)

\* For two clients: one control frame in flight, and no report of the pong
\* watchdog.
QuietNetwork ==
  shape = "pair" =>
    /\ lost = {}
    /\ Cardinality({h \in Clients : inbox[h] # <<>>})
         + Cardinality({h \in Clients : outbox[h] # <<>>}) <= 1

\* A crossing the hook thread holds pending is tracked by the capture task,
\* through the release chord and with a trigger on the barrier, and with a
\* second client crossing meanwhile; and with two clients, input the hook
\* procedure captures is owned: the task is sending to the client of the
\* active barrier or about to release it.
CrossingIsTracked ==
  IF shape = "one" THEN One!PendingIsTracked
  ELSE Pair!PendingIsTracked /\ Pair!CaptureIsOwned
==============================================================================
