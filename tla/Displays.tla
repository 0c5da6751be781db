------------------------------ MODULE Displays ------------------------------
(***************************************************************************)
(* What each capture backend makes of the displays it is told of: the list *)
(* of monitors it publishes, the edges it puts barriers on, and the point  *)
(* at which it leaves the cursor.  Displays are the rectangles of          *)
(* Geometry, in the order in which the system enumerates them.  Strings    *)
(* that are compared but never taken apart are values, "" the empty one.   *)
(***************************************************************************)
EXTENDS Geometry, FiniteSets

opposite(pos) == CASE pos = "Left" -> "Right" [] pos = "Right" -> "Left"
                   [] pos = "Top" -> "Bottom" [] pos = "Bottom" -> "Top"

Vertical(pos) == pos \in {"Left", "Right"}

-----------------------------------------------------------------------------
(* Monitor lists.  A display is a record of what the system reports: rect,  *)
(* label (description, device id or vendor-product-serial), name (connector *)
(* or device name), num (its global name, index or display id), main (the   *)
(* system's flag) and, for Windows, attached and has_mode.                  *)

Origin(d) == <<d.rect.x, d.rect.y>>

build_stable_id_layer_shell(d, i) ==
  IF d.label # "" THEN <<"label", d.label>>
  ELSE IF d.name # "" THEN <<"name", d.name, Origin(d)>>
  ELSE <<"unknown", d.num>>

build_stable_id_libei(d, i) ==
  IF d.rect.w > 0 /\ d.rect.h > 0 THEN <<"zone", Origin(d)>>
  ELSE <<"unknown", i, Origin(d)>>

build_stable_id_macos(d, i) ==
  IF d.label = "" THEN <<"unknown", d.num>> ELSE <<"label", d.label>>

build_stable_id_windows(d, i) ==
  IF d.label # "" THEN <<"label", d.label>> ELSE <<"unknown", d.name>>

\* The first display at the origin, or the first one.
pick_primary(displays) ==
  LET at == {i \in DOMAIN displays : Origin(displays[i]) = <<0, 0>>}
  IN IF at = {} THEN {1} ELSE {CHOOSE i \in at : \A j \in at : i <= j}

\* Windows lists the devices that are attached to the desktop and have a mode.
enumerate_displays_inner(displays) ==
  SelectSeq(displays, LAMBDA d : d.attached /\ d.has_mode)

MonitorInfos(displays, Id(_, _), primary) ==
  [i \in DOMAIN displays |->
     [id |-> Id(displays[i], i), rect |-> displays[i].rect, primary |-> i \in primary]]

Main(displays) == {i \in DOMAIN displays : displays[i].main}

monitors_layer_shell(outputs) ==
  MonitorInfos(outputs, build_stable_id_layer_shell, pick_primary(outputs))

monitors_libei(zones) == MonitorInfos(zones, build_stable_id_libei, pick_primary(zones))

enumerate_monitors_for_ids(displays) ==
  MonitorInfos(displays, build_stable_id_macos, Main(displays))

monitors_windows(devices) ==
  LET displays == enumerate_displays_inner(devices)
  IN MonitorInfos(displays, build_stable_id_windows, Main(displays))

build_monitor_info_list(backend, reported) ==
  CASE backend = "layer_shell" -> monitors_layer_shell(reported)
    [] backend = "libei"       -> monitors_libei(reported)
    [] backend = "macos"       -> enumerate_monitors_for_ids(reported)
    [] backend = "windows"     -> monitors_windows(reported)

\* The bounds barriers are found with carry the ids that are published.
build_display_bounds(backend, reported) ==
  LET monitors == build_monitor_info_list(backend, reported)
  IN [i \in DOMAIN monitors |-> [rect |-> monitors[i].rect, monitor_id |-> monitors[i].id]]

-----------------------------------------------------------------------------
(* layer_shell: one surface per output whose edge no other output touches.  *)

get_edge(r, pos) ==
  CASE pos = "Left" -> r.x [] pos = "Right" -> r.x + r.w
    [] pos = "Top"  -> r.y [] pos = "Bottom" -> r.y + r.h

get_output_configuration(outputs, pos) ==
  {i \in DOMAIN outputs :
     \A j \in DOMAIN outputs : get_edge(outputs[j], opposite(pos)) # get_edge(outputs[i], pos)}

-----------------------------------------------------------------------------
(* libei: a barrier per registered key and region, whatever the monitor the *)
(* key names.  A line is <<x1, y1, x2, y2>>.                                *)

barrier_line(r, pos) ==
  CASE pos = "Left"   -> <<r.x, r.y, r.x, r.y + r.h - 1>>
    [] pos = "Right"  -> <<r.x + r.w, r.y, r.x + r.w, r.y + r.h - 1>>
    [] pos = "Top"    -> <<r.x, r.y, r.x + r.w - 1, r.y>>
    [] pos = "Bottom" -> <<r.x, r.y + r.h, r.x + r.w - 1, r.y + r.h>>

\* Barriers in the order in which they get their ids: next, next + 1, ...
select_barriers(regions, clients, next) ==
  [n \in 1..(Len(clients) * Len(regions)) |->
     LET key == clients[((n - 1) \div Len(regions)) + 1]
     IN [id |-> next + n - 1, key |-> key,
         line |-> barrier_line(regions[((n - 1) % Len(regions)) + 1], key[1])]]

Abs(n) == IF n < 0 THEN -n ELSE n

\* To the infinite line.  For a line of one point the quotient is 0/0, which
\* the cast to an integer makes 0.
distance_to_line(line, p) ==
  IF line[1] = line[3] /\ line[2] = line[4] THEN 0
  ELSE IF line[1] = line[3] THEN Abs(p[1] - line[1]) ELSE Abs(p[2] - line[2])

\* The first of the barriers the point is nearest to.
find_corresponding_client(barriers, p) ==
  LET nearest == {n \in DOMAIN barriers :
                    \A m \in DOMAIN barriers :
                      distance_to_line(barriers[n].line, p) <= distance_to_line(barriers[m].line, p)}
  IN barriers[CHOOSE n \in nearest : \A m \in nearest : n <= m]

\* Where release_capture asks for the cursor: one pixel off the barrier.
release_point(p, pos) ==
  CASE pos = "Left" -> <<p[1] + 1, p[2]>> [] pos = "Right" -> <<p[1] - 1, p[2]>>
    [] pos = "Top"  -> <<p[1], p[2] + 1>> [] pos = "Bottom" -> <<p[1], p[2] - 1>>

OnLine(p, line) ==
  line[1] <= p[1] /\ p[1] <= line[3] /\ line[2] <= p[2] /\ p[2] <= line[4]

-----------------------------------------------------------------------------
(* macOS: the cursor is warped to one pixel inside the display it came from. *)

compute_edge_point(d, prev, pos) ==
  CASE pos = "Left" -> <<d.x + 1, prev[2]>> [] pos = "Right" -> <<d.x + d.w - 1, prev[2]>>
    [] pos = "Top"  -> <<prev[1], d.y + 1>> [] pos = "Bottom" -> <<prev[1], d.y + d.h - 1>>

\* Where no display contains the point, one pixel towards the edge.
reset_cursor(displays, enter, pos) ==
  IF in_display_region(enter, displays)
  THEN compute_edge_point(displays[display_containing_idx(displays, enter)], enter, pos)
  ELSE release_point(enter, opposite(pos))

-----------------------------------------------------------------------------
(* The emulation backend of macOS moves the cursor itself. *)

\* The range of coordinates on a display, which ends before the far edge.
get_display_bounds(d) == <<d.x, d.y, d.x + d.w - 1, d.y + d.h - 1>>

\* A motion that leads to no display ends on the one it started from.
clamp_to_screen_space(displays, p, dx, dy) ==
  LET q == <<p[1] + dx, p[2] + dy>>
      on == IF in_display_region(q, displays) THEN q ELSE p
      b == get_display_bounds(displays[display_containing_idx(displays, on)])
  IN IF in_display_region(p, displays)
     THEN <<Clamp(q[1], b[1], b[3]), Clamp(q[2], b[2], b[4])>> ELSE p

-----------------------------------------------------------------------------
\* Whatever is plugged in, the layer_shell and libei backends call exactly one
\* monitor primary, and the one at the origin if there is one.
OnePrimary(backend, reported) ==
  LET monitors == build_monitor_info_list(backend, reported)
      primary == {i \in DOMAIN monitors : monitors[i].primary}
      at == {i \in DOMAIN monitors : <<monitors[i].rect.x, monitors[i].rect.y>> = <<0, 0>>}
  IN monitors # <<>> =>
       Cardinality(primary) = 1 /\ (at # {} => primary \subseteq at)

\* Unplugging a display leaves the ids of the others as they are: the barriers
\* that name them stay bound.  (Not so for a libei zone without a size, whose id
\* has its index in it.)
IdsSurviveUnplug(backend, reported) ==
  LET ids(list) == LET monitors == build_monitor_info_list(backend, list)
                   IN {<<monitors[i].rect, monitors[i].id>> : i \in DOMAIN monitors}
      without(k) == [i \in 1..(Len(reported) - 1) |-> reported[IF i < k THEN i ELSE i + 1]]
  IN (backend = "libei" =>
        \A i \in DOMAIN reported : reported[i].rect.w > 0 /\ reported[i].rect.h > 0)
       => \A k \in DOMAIN reported : ids(without(k)) \subseteq ids(reported)

\* The outermost outputs on a side always have a layer_shell surface there,
\* however the outputs are arranged: the pointer can leave the desktop.
SurfacesOnOuterEdges(outputs, pos) ==
  LET sign == IF pos \in {"Left", "Top"} THEN -1 ELSE 1
      outer == {i \in DOMAIN outputs :
                  \A j \in DOMAIN outputs :
                    sign * get_edge(outputs[j], pos) <= sign * get_edge(outputs[i], pos)}
  IN outer \subseteq get_output_configuration(outputs, pos)

\* A cursor that is on a barrier, reported without the id of the barrier, is
\* attributed to a key whose edge it is on.  (Regions of one pixel excepted:
\* their barrier is a point, at distance 0 from everywhere.)
CursorFindsItsBarrier(regions, clients, p) ==
  LET barriers == select_barriers(regions, clients, 1)
  IN /\ \A i \in DOMAIN regions : regions[i].w > 1 /\ regions[i].h > 1
     /\ \E n \in DOMAIN barriers : OnLine(p, barriers[n].line)
     => LET found == find_corresponding_client(barriers, p)
        IN \E i \in DOMAIN regions :
             LET line == barrier_line(regions[i], found.key[1])
             IN IF Vertical(found.key[1]) THEN p[1] = line[1] ELSE p[2] = line[2]

\* The cursor is released onto the region whose barrier it was on, off every
\* barrier of that side: it does not activate the capture again by itself.
ReleasedInside(r, pos, p) ==
  LET q == release_point(p, pos)
  IN r.w > 1 /\ r.h > 1 /\ OnLine(p, barrier_line(r, pos)) =>
       is_within_dp_region(q, r) /\ ~OnLine(q, barrier_line(r, pos))

\* macOS warps the cursor back onto the display it came from, so that the next
\* movement across the edge is seen to start on a display and to leave it.
WarpStaysOnDisplay(displays, enter, pos) ==
  (\A i \in DOMAIN displays : displays[i].w > 1 /\ displays[i].h > 1)
    /\ in_display_region(enter, displays) =>
    LET d == displays[display_containing_idx(displays, enter)]
    IN is_within_dp_region(reset_cursor(displays, enter, pos), d)

\* However far an emulated motion jumps, and across whatever gaps between the
\* displays, a cursor that was on a display is on one afterwards: the next
\* motion finds the display it starts from.
MotionStaysOnDisplay(displays, p, dx, dy) ==
  in_display_region(p, displays) =>
    in_display_region(clamp_to_screen_space(displays, p, dx, dy), displays)
=============================================================================
