------------------------- MODULE EmulationBackends -------------------------
(***************************************************************************)
(* State that emulation backends keep between events, a machine of its own *)
(* for each of them: wlroots, whose requests queue up in the connection    *)
(* when the compositor does not read; libei, where a task of its own       *)
(* follows the devices and the connection; macOS, which counts clicks.     *)
(***************************************************************************)
EXTENDS Naturals, Sequences, SequencesExt, FiniteSets

CONSTANTS
  Handle,     \* emulation handles
  Device,     \* devices of an EI connection
  MaxUnsent,  \* bound on the requests waiting in the Wayland connection
  MaxTrail    \* bound on the pointer events of a behaviour

-----------------------------------------------------------------------------
(* wlroots *)
VARIABLES
  input_for_client,  \* handles with a virtual pointer and keyboard
  unsent,            \* requests written and not flushed
  full,              \* the socket takes nothing more
  last_flush_failed
wlVars == <<input_for_client, unsent, full, last_flush_failed>>

WlInit == input_for_client = {} /\ unsent = <<>> /\ full = FALSE /\ last_flush_failed = FALSE

\* Write r and flush: everything that waits, or nothing when the socket is full.
Flush(r) == unsent' = IF full THEN unsent \o r ELSE <<>>
Room == Len(unsent) < MaxUnsent

add_client(h) ==
  /\ Room /\ h \notin input_for_client
  /\ input_for_client' = input_for_client \cup {h} /\ Flush(<<"create">>)
  /\ UNCHANGED <<full, last_flush_failed>>

destroy_client(h) ==
  /\ Room /\ h \in input_for_client
  /\ input_for_client' = input_for_client \ {h} /\ Flush(<<"destroy">>)
  /\ UNCHANGED <<full, last_flush_failed>>

\* An event for an unknown handle, or when the flush owed from last time still
\* blocks, is discarded.
wl_consume(h) ==
  /\ Room
  /\ IF h \notin input_for_client \/ (last_flush_failed /\ full) THEN UNCHANGED wlVars
     ELSE /\ Flush(<<"event">>) /\ last_flush_failed' = full
          /\ UNCHANGED <<input_for_client, full>>

\* The compositor reads, or stops reading.
Compositor == full' = ~full /\ UNCHANGED <<input_for_client, unsent, last_flush_failed>>

WlNext == \/ \E h \in Handle : add_client(h) \/ destroy_client(h) \/ wl_consume(h)
          \/ Compositor

\* However long the compositor does not read, at most one input event waits in
\* the connection's buffer: sending more would overwhelm the buffer and break
\* the connection.
BacklogBounded == Len(SelectSeq(unsent, LAMBDA r : r = "event")) <= 1

-----------------------------------------------------------------------------
(* libei *)
VARIABLES
  devices,      \* the device of every capability, {} when there is none
  ei_task,      \* "reading", or "failed" for good
  libei_error, error,
  connected,    \* the EI connection
  answers       \* results of consume since the connection broke
eiVars == <<devices, ei_task, libei_error, error, connected, answers>>

Capability == {"pointer", "keyboard", "scroll", "button"}

EiInit ==
  /\ devices = [c \in Capability |-> {}] /\ ei_task = "reading"
  /\ libei_error = FALSE /\ error = FALSE /\ connected = TRUE /\ answers = <<>>

\* A device replaces the one that had its capabilities; one that is removed stays.
DeviceAdded(d, caps) ==
  /\ ei_task = "reading" /\ connected
  /\ devices' = [c \in Capability |-> IF c \in caps THEN {d} ELSE devices[c]]
  /\ UNCHANGED <<ei_task, libei_error, error, connected, answers>>

Break == connected /\ connected' = FALSE /\ UNCHANGED <<devices, ei_task, libei_error, error, answers>>

NoteError == libei_error' = TRUE /\ error' = TRUE

\* ei_event_handler fails: end of stream, a disconnect, an event that does not parse.
HandlerFails ==
  /\ ei_task = "reading" /\ ~connected
  /\ ei_task' = "failed" /\ NoteError
  /\ UNCHANGED <<devices, connected, answers>>

\* consume: the error that was noted, once; otherwise to the device, whose flush
\* fails on a broken connection.  The caller drops the backend after an error.
ei_consume(c) ==
  /\ "Err" \notin ToSet(answers) /\ Len(answers) < MaxUnsent
  /\ LET fails == (libei_error /\ error) \/ (~connected /\ devices[c] # {})
     IN  /\ error' = (error /\ ~libei_error)
         /\ answers' = IF connected THEN answers
                       ELSE Append(answers, IF fails THEN "Err" ELSE "Ok")
  /\ UNCHANGED <<devices, ei_task, libei_error, connected>>

EiNext == \/ \E d \in Device, caps \in SUBSET Capability \ {{}} : DeviceAdded(d, caps)
          \/ Break \/ HandlerFails
          \/ \E c \in Capability : ei_consume(c)

\* Once the reader has noticed that the connection is gone, its error waits for
\* the next event that is consumed, or an event has reported one: no event takes
\* the error away and succeeds, nor one for which there is no device.
FailureIsReported == ei_task = "failed" => (libei_error /\ error) \/ "Err" \in ToSet(answers)

-----------------------------------------------------------------------------
(* macOS clicks *)
VARIABLES
  pressed_buttons, previous_button, recent, button_click_state,
  trail   \* the presses since the pointer or the wheel last moved
clickVars == <<pressed_buttons, previous_button, recent, button_click_state, trail>>

ClickButton == {"LEFT", "RIGHT"}

ClickInit ==
  /\ pressed_buttons = {} /\ previous_button = {} /\ recent = FALSE
  /\ button_click_state = 0 /\ trail = <<>>

SameButton(b) == previous_button = {b} /\ recent

ButtonDown(b) ==
  /\ Len(trail) < MaxTrail
  /\ pressed_buttons' = pressed_buttons \cup {b}
  /\ button_click_state' = IF SameButton(b) THEN button_click_state + 1 ELSE 1
  /\ previous_button' = {b} /\ recent' = TRUE
  /\ trail' = Append(trail, <<b, recent>>)

ButtonUp(b) ==
  /\ pressed_buttons' = pressed_buttons \ {b}
  /\ UNCHANGED <<previous_button, recent, button_click_state, trail>>

\* Motion and scrolling end a sequence of clicks.
NotAButton ==
  /\ button_click_state' = 0 /\ trail' = <<>>
  /\ UNCHANGED <<pressed_buttons, previous_button, recent>>

\* DOUBLE_CLICK_INTERVAL passes.
Elapse == recent' = FALSE /\ UNCHANGED <<pressed_buttons, previous_button, button_click_state, trail>>

ClickNext == \/ \E b \in ClickButton : ButtonDown(b) \/ ButtonUp(b)
             \/ NotAButton \/ Elapse

\* The click count sent with a button is the length of the unbroken run of
\* presses of that button: same button, each within the interval of the one
\* before, the pointer still.
RunLength(t) ==
  CHOOSE n \in 1..Len(t) :
    /\ \A i \in (Len(t) - n + 1)..Len(t) :
         t[i][1] = t[Len(t)][1] /\ (i > Len(t) - n + 1 => t[i][2])
    /\ n = Len(t) \/ t[Len(t) - n][1] # t[Len(t)][1] \/ ~t[Len(t) - n + 1][2]
ClickCountIsRun == trail # <<>> => button_click_state = RunLength(trail)
=============================================================================
