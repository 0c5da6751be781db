---------------------------- MODULE DisplayWatch ----------------------------
(***************************************************************************)
(* How the Windows and macOS capture backends start and keep their list of *)
(* displays current.  Windows: the hook thread compares the generation of  *)
(* its list with a global counter that a hidden window increments on every *)
(* WM_DISPLAYCHANGE.  macOS: a callback on the tap thread's run loop queues *)
(* DisplayReconfigured for the task that owns the list.                    *)
(***************************************************************************)
EXTENDS Naturals, Sequences

CONSTANTS MaxChanges   \* bound on the changes of the display layout

VARIABLES
  os,         \* "windows" or "macos"
  layout,     \* the displays, as the number of changes so far
  thread,     \* "none", "spawned", "hooked", "loop", "ended"
  notices,    \* changes the operating system has yet to report to the backend
  generation, \* DISPLAY_RESOLUTION_GENERATION, or DisplayReconfigured events queued
  displays,   \* the backend's list: <<layout, generation>>
  monitors,   \* the list published on the watch channel
  missed      \* a change fell between the first enumeration and the registration
dwVars == <<os, layout, thread, notices, generation, displays, monitors, missed>>

\* A new hook thread has an empty list of generation 0; InputCaptureState::new
\* fills the list at once.
DisplaysAtStart == IF os = "macos" THEN <<layout, 0>> ELSE <<0, 0>>

DwInit ==
  /\ os \in {"windows", "macos"} /\ layout = 1 /\ thread = "none" /\ notices = 0
  /\ generation = (IF os = "windows" THEN 1 ELSE 0)
  /\ displays = <<0, 0>> /\ monitors = 0 /\ missed = FALSE

\* Enumerate, publish, spawn.
Start ==
  /\ thread \in {"none", "ended"}
  /\ thread' = "spawned" /\ monitors' = layout /\ displays' = DisplaysAtStart
  /\ notices' = 0 /\ missed' = FALSE
  /\ generation' = IF os = "windows" THEN generation ELSE 0
  /\ UNCHANGED <<os, layout>>

EventThread_new == os = "windows" /\ Start
MacOSInputCapture_new == os = "macos" /\ Start

\* The thread installs its hooks or its tap, and then the window or callback.
Hook == thread = "spawned" /\ thread' = "hooked"
        /\ UNCHANGED <<os, layout, notices, generation, displays, monitors, missed>>
Watch == thread = "hooked" /\ thread' = "loop"
         /\ UNCHANGED <<os, layout, notices, generation, displays, monitors, missed>>

\* Drop: the loop ends and the thread is joined.
Stop == thread = "loop" /\ thread' = "ended" /\ notices' = 0
        /\ UNCHANGED <<os, layout, generation, displays, monitors, missed>>

Change ==
  /\ layout < MaxChanges
  /\ layout' = layout + 1
  /\ notices' = IF thread = "loop" THEN notices + 1 ELSE notices
  /\ missed' = (missed \/ thread \in {"spawned", "hooked"})
  /\ UNCHANGED <<os, thread, generation, displays, monitors>>

Reported ==
  /\ thread = "loop" /\ notices > 0
  /\ notices' = notices - 1 /\ generation' = generation + 1
  /\ UNCHANGED <<os, layout, thread, displays, monitors, missed>>

window_proc == os = "windows" /\ Reported
display_reconfiguration_callback == os = "macos" /\ Reported

\* A mouse event on Windows: the hooks run inside the message loop only.
update_display_regions ==
  /\ os = "windows" /\ thread = "loop" /\ displays[2] # generation
  /\ displays' = <<layout, generation>> /\ monitors' = layout
  /\ UNCHANGED <<os, layout, thread, notices, generation, missed>>

\* The macOS task takes one DisplayReconfigured.
handle_reconfigured ==
  /\ os = "macos" /\ thread = "loop" /\ generation > 0
  /\ generation' = generation - 1
  /\ displays' = <<layout, 0>> /\ monitors' = layout
  /\ UNCHANGED <<os, layout, thread, notices, missed>>

DwNext == \/ EventThread_new \/ MacOSInputCapture_new \/ Hook \/ Watch \/ Stop \/ Change
          \/ window_proc \/ display_reconfiguration_callback
          \/ update_display_regions \/ handle_reconfigured

Caught == notices = 0 /\ IF os = "windows" THEN displays[2] = generation ELSE generation = 0

\* A running backend that has nothing left to hear about changes of the displays
\* uses and publishes the displays there are; on macOS unless a change came
\* before the callback was registered.
DisplaysAreCurrent ==
  thread = "loop" /\ Caught /\ (os = "macos" => ~missed) =>
    displays[1] = layout /\ monitors = layout

-----------------------------------------------------------------------------
(* The choice of a backend.  A candidate is <<name, result>>, its result    *)
(* "ok", "cancelled" (by the user) or "failed".                             *)

try_in_order(candidates) ==
  LET ends == {i \in DOMAIN candidates : candidates[i][2] \in {"ok", "cancelled"}}
  IN  IF ends = {} THEN "NoAvailableBackend"
      ELSE LET i == CHOOSE i \in ends : \A j \in ends : i <= j
           IN  IF candidates[i][2] = "ok" THEN candidates[i][1] ELSE "CancelledByUser"

\* A backend the user configured is the only one tried.
create(configured, candidates) ==
  IF configured = {} THEN try_in_order(candidates)
  ELSE LET i == CHOOSE i \in DOMAIN candidates : candidates[i][1] \in configured
       IN  IF candidates[i][2] = "ok" THEN candidates[i][1] ELSE "Error"

\* Declining the permission dialog of one backend never opens that of another,
\* and without a choice of the user's some backend is used if any works.
DeclinedIsFinal(candidates) ==
  LET declined == {i \in DOMAIN candidates : candidates[i][2] = "cancelled"}
      used == {i \in DOMAIN candidates : candidates[i][1] = create({}, candidates)}
  IN  /\ \A i \in used : candidates[i][2] = "ok" /\ \A j \in declined : i < j
      /\ declined = {} /\ (\E i \in DOMAIN candidates : candidates[i][2] = "ok") => used # {}
=============================================================================
