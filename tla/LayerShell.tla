----------------------------- MODULE LayerShell -----------------------------
(***************************************************************************)
(* The wayland (layer_shell) capture backend.  A barrier is a one pixel    *)
(* wide surface on an outer edge of an output: the pointer entering it is  *)
(* the Begin of a capture, for which pointer and keyboard are grabbed.     *)
(* The compositor sends output changes and input; destroying a surface     *)
(* takes effect there only later, so events about it still arrive.         *)
(***************************************************************************)
EXTENDS Displays, SequencesExt

CONSTANTS
  Global,      \* names of wl_output globals
  Layout,      \* geometries an output can have
  Key,         \* barrier keys <<position, monitor>>
  MaxGen,      \* bound on the batches of surfaces created
  MaxQueue     \* bound on pending_events

NoWindow == <<>>
NoRect == <<>>

VARIABLES
  outputs,           \* sequence of [global, info, pending_info, has_xdg_info]
  active_positions,  \* keys with a barrier
  active_windows,    \* set of windows <<key, global, gen>>
  focused,           \* the window entered last, or NoWindow
  pointer_lock,      \* the surface the pointer is locked to, or NoWindow
  scroll_discrete_pending,
  pending_events,    \* sequence of <<key, event>>
  monitors,          \* what monitors_tx holds
  gen,               \* how many batches of surfaces have been created
  over,              \* the surface the compositor last said the pointer entered
  gone,              \* surfaces just destroyed, which the compositor may still know
  begun,             \* key of the latest Begin
  stale,             \* an output was removed, and no Done has come since
  dead               \* an unwrap failed: the process has aborted

lsVars == <<outputs, active_positions, active_windows, focused, pointer_lock,
            scroll_discrete_pending, pending_events, monitors, gen, over, gone, begun, stale, dead>>

LsWindow == Key \X Global \X (1..MaxGen)

LsTypeOK ==
  /\ \A i \in DOMAIN outputs : outputs[i].global \in Global
  /\ active_positions \subseteq Key
  /\ active_windows \subseteq LsWindow
  /\ focused \in LsWindow \cup {NoWindow} /\ pointer_lock \in LsWindow \cup {NoWindow}
  /\ scroll_discrete_pending \in BOOLEAN /\ stale \in BOOLEAN /\ dead \in BOOLEAN
  /\ \A i \in DOMAIN pending_events : pending_events[i][1] \in Key

Known(outs) == SelectSeq(outs, LAMBDA o : o.info # NoRect)
Infos(outs) == [i \in DOMAIN Known(outs) |-> Known(outs)[i].info]

\* enumerate_monitors: the geometry stands for the whole MonitorInfo.
enumerate_monitors(outs) == Infos(outs)

LsInit ==
  /\ outputs = <<>> /\ active_positions = {} /\ active_windows = {}
  /\ focused = NoWindow /\ pointer_lock = NoWindow /\ scroll_discrete_pending = FALSE
  /\ pending_events = <<>> /\ monitors = enumerate_monitors(<<>>)
  /\ gen = 0 /\ over = NoWindow /\ gone = {}
  /\ begun = NoKey /\ stale = FALSE /\ dead = FALSE

\* The windows that add_client creates for the keys.
NewWindows(outs, keys, g) ==
  {<<k, Known(outs)[i].global, g>> : k \in keys, i \in DOMAIN Known(outs)}
    \cap UNION {{<<k, Known(outs)[i].global, g>> : i \in get_output_configuration(Infos(outs), k[1])} :
                  k \in keys}

\* A window goes when the last reference to it does, focused being one.
Dropped(windows, focus) ==
  (active_windows \cup ({focused} \ {NoWindow})) \ (windows \cup {focus})

-----------------------------------------------------------------------------
(* Outputs. *)

register_global(n) ==
  /\ \A i \in DOMAIN outputs : outputs[i].global # n
  /\ outputs' = Append(outputs, [global |-> n, info |-> NoRect, pending_info |-> NoRect,
                                 has_xdg_info |-> FALSE])
  /\ UNCHANGED <<active_positions, active_windows, focused, pointer_lock, scroll_discrete_pending,
                 pending_events, monitors, gen, over, gone, begun, stale, dead>>

deregister_global(n) ==
  /\ \E i \in DOMAIN outputs : outputs[i].global = n
  /\ outputs' = SelectSeq(outputs, LAMBDA o : o.global # n)
  /\ monitors' = enumerate_monitors(outputs')
  /\ stale' = TRUE
  /\ UNCHANGED <<active_positions, active_windows, focused, pointer_lock, scroll_discrete_pending,
                 pending_events, gen, over, gone, begun, dead>>

\* LogicalPosition and LogicalSize, which come together.
XdgOutput(i, r) ==
  /\ outputs' = [outputs EXCEPT ![i].pending_info = r, ![i].has_xdg_info = TRUE]
  /\ UNCHANGED <<active_positions, active_windows, focused, pointer_lock, scroll_discrete_pending,
                 pending_events, monitors, gen, over, gone, begun, stale, dead>>

\* All surfaces are made anew; the focused one lives on in `focused`.
update_windows(outs) ==
  /\ gen < MaxGen /\ gen' = gen + 1
  /\ active_windows' = NewWindows(outs, active_positions, gen + 1)

\* wl_output Done, after which the pending geometry holds.
update_output_info(i) ==
  IF outputs[i].has_xdg_info
  THEN /\ outputs' = [outputs EXCEPT ![i].info = outputs[i].pending_info]
       /\ update_windows(outputs')
       /\ gone' = Dropped(active_windows', focused)
       /\ monitors' = enumerate_monitors(outputs')
       /\ stale' = FALSE
       /\ UNCHANGED <<active_positions, focused, pointer_lock, scroll_discrete_pending,
                      pending_events, over, begun, dead>>
  ELSE UNCHANGED lsVars

-----------------------------------------------------------------------------
(* Requests. *)

add_client(k) ==
  /\ k \notin active_positions /\ gen < MaxGen
  /\ active_positions' = active_positions \cup {k}
  /\ active_windows' = active_windows \cup NewWindows(outputs, {k}, gen + 1)
  /\ gen' = gen + 1
  /\ UNCHANGED <<outputs, focused, pointer_lock, scroll_discrete_pending, pending_events, monitors,
                 over, gone, begun, stale, dead>>

OfKey(k) == {w \in active_windows : w[1] = k}

\* Whichever window has the focus, it is lost with any window of the key.
FocusAfterDelete(k) == IF OfKey(k) = {} THEN focused ELSE NoWindow

delete_client(k) ==
  /\ k \in active_positions
  /\ active_positions' = active_positions \ {k}
  /\ active_windows' = active_windows \ OfKey(k)
  /\ focused' = FocusAfterDelete(k)
  /\ gone' = Dropped(active_windows', focused')
  /\ UNCHANGED <<outputs, pointer_lock, scroll_discrete_pending, pending_events, monitors, gen,
                 over, begun, stale, dead>>

\* Without a focused window nothing is ungrabbed.
ungrab == pointer_lock' = IF focused = NoWindow THEN pointer_lock ELSE NoWindow

LsRelease ==
  /\ ungrab
  /\ UNCHANGED <<outputs, active_positions, active_windows, focused, scroll_discrete_pending,
                 pending_events, monitors, gen, over, gone, begun, stale, dead>>

\* poll_next hands out the oldest event.
LsPoll ==
  /\ pending_events # <<>>
  /\ pending_events' = Tail(pending_events)
  /\ UNCHANGED <<outputs, active_positions, active_windows, focused, pointer_lock,
                 scroll_discrete_pending, monitors, gen, over, gone, begun, stale, dead>>

-----------------------------------------------------------------------------
(* Input. *)

\* The pointer is locked, unless a lock is still in place.
grab(w) == pointer_lock' = IF pointer_lock = NoWindow THEN w ELSE pointer_lock

Enter(w) ==
  /\ over = NoWindow /\ w \in active_windows \cup gone \cup ({focused} \ {NoWindow})
  /\ over' = w
  /\ IF w \in active_windows
     THEN /\ Len(pending_events) < MaxQueue
          /\ focused' = w
          /\ grab(w)
          /\ pending_events' = Append(pending_events, <<w[1], "Begin">>)
          /\ begun' = w[1]
          /\ gone' = Dropped(active_windows, focused')
     ELSE UNCHANGED <<focused, pointer_lock, pending_events, begun, gone>>
  /\ UNCHANGED <<outputs, active_positions, active_windows, scroll_discrete_pending, monitors, gen,
                 stale, dead>>

Leave ==
  /\ over # NoWindow /\ over' = NoWindow
  /\ ungrab
  /\ UNCHANGED <<outputs, active_positions, active_windows, focused, scroll_discrete_pending,
                 pending_events, monitors, gen, gone, begun, stale, dead>>

Forward ==
  /\ Len(pending_events) < MaxQueue
  /\ pending_events' = Append(pending_events, <<focused[1], "Input">>)

\* Button, Axis and AxisValue120 unwrap the focused window.  An Axis that
\* follows an AxisValue120 is the same movement of the wheel, and is skipped.
PointerInput(kind) ==
  /\ over # NoWindow
  /\ IF focused = NoWindow
     THEN dead' = TRUE /\ UNCHANGED <<pending_events, scroll_discrete_pending>>
     ELSE /\ dead' = dead
          /\ IF kind = "Axis" /\ scroll_discrete_pending
             THEN UNCHANGED pending_events ELSE Forward
          /\ scroll_discrete_pending' = CASE kind = "AxisValue120" -> TRUE
                                          [] kind = "Axis" -> FALSE
                                          [] OTHER -> scroll_discrete_pending
  /\ UNCHANGED <<outputs, active_positions, active_windows, focused, pointer_lock, monitors, gen,
                 over, gone, begun, stale>>

\* Relative motion and keys are dropped without a focused window.
OtherInput ==
  /\ focused # NoWindow
  /\ Forward
  /\ UNCHANGED <<outputs, active_positions, active_windows, focused, pointer_lock,
                 scroll_discrete_pending, monitors, gen, over, gone, begun, stale, dead>>

\* The compositor has processed the destruction of the surfaces.
CompositorSync ==
  /\ gone # {} /\ over \notin gone
  /\ gone' = {}
  /\ UNCHANGED <<outputs, active_positions, active_windows, focused, pointer_lock,
                 scroll_discrete_pending, pending_events, monitors, gen, over, begun, stale, dead>>

LsNext ==
  /\ ~dead
  /\ \/ \E n \in Global : register_global(n) \/ deregister_global(n)
     \/ \E i \in DOMAIN outputs : update_output_info(i) \/ \E r \in Layout : XdgOutput(i, r)
     \/ \E k \in Key : add_client(k) \/ delete_client(k)
     \/ LsRelease \/ LsPoll \/ Leave \/ OtherInput \/ CompositorSync
     \/ \E w \in LsWindow : Enter(w)
     \/ \E kind \in {"Button", "Axis", "AxisValue120"} : PointerInput(kind)

-----------------------------------------------------------------------------
\* Input is forwarded only for a key that has a barrier, and only to the key
\* that the latest Begin announced.  This takes every re-creation of the
\* surfaces to leave the key of the focused one with a surface, so that
\* delete_client, which looks for surfaces of the key, takes the focus away.
FocusIsOwned ==
  focused # NoWindow => focused[1] \in active_positions /\ focused[1] = begun

\* The published monitors are the outputs whose geometry is known, whatever
\* the order of globals, geometry events and removals.
MonitorsAreCurrent == monitors = enumerate_monitors(outputs)

\* Every barrier key has exactly one surface on each outer edge on its side, as
\* long as no output was removed since the last Done (surfaces are not redone
\* on a removal).
SurfacesAreCurrent ==
  ~stale =>
    \A k \in Key :
      /\ \A w, v \in OfKey(k) : w[2] = v[2] => w = v
      /\ {w[2] : w \in OfKey(k)} =
           {w[2] : w \in NewWindows(outputs, {k} \cap active_positions, 1)}

\* While the pointer is on a surface of a barrier, that surface is the focused
\* one: the pointer handlers unwrap `focused`.
PointerHasFocus == over \in active_windows => focused = over
=============================================================================
