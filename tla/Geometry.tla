------------------------------ MODULE Geometry ------------------------------
(***************************************************************************)
(* Barrier geometry, shared by the capture backends: which display a point *)
(* is on, which edge of the union of displays a movement of the cursor     *)
(* crosses, which registered barrier that is, and where the cursor is      *)
(* parked afterwards.  A point is <<x, y>>, a rectangle a record of its    *)
(* origin and size; displays are listed in the order of their enumeration, *)
(* and the first that contains a point counts.  Coordinates are integers   *)
(* (the code's are floats): all that is used of them is their order.       *)
(***************************************************************************)
EXTENDS Integers, Sequences

Unset == "None"   \* no position, no monitor
NoKey == <<>>    \* no barrier

Edges == {"Left", "Right", "Top", "Bottom"}
Rect == [x : Int, y : Int, w : Int, h : Int]
Point == Int \X Int

\* Half-open: the left and top edges belong to the display.
is_within_dp_boundary(p, d, pos) ==
  CASE pos = "Left"   -> d.x <= p[1]
    [] pos = "Right"  -> d.x + d.w > p[1]
    [] pos = "Top"    -> d.y <= p[2]
    [] pos = "Bottom" -> d.y + d.h > p[2]

is_within_dp_region(p, d) == \A pos \in Edges : is_within_dp_boundary(p, d, pos)

in_bounds(p, displays, pos) ==
  \E i \in DOMAIN displays : is_within_dp_boundary(p, displays[i], pos)

in_display_region(p, displays) ==
  \E i \in DOMAIN displays : is_within_dp_region(p, displays[i])

cursor_within(p, displays, pos) == in_display_region(p, displays) /\ in_bounds(p, displays, pos)

display_containing_idx(displays, p) ==
  CHOOSE i \in DOMAIN displays :
    /\ is_within_dp_region(p, displays[i])
    /\ \A j \in DOMAIN displays : j < i => ~is_within_dp_region(p, displays[j])

\* The edges of d that p is past.
Crosses(p, d) == {pos \in Edges : ~is_within_dp_boundary(p, d, pos)}

\* The motion points to the edge.
Towards(prev, curr, pos) ==
  CASE pos = "Left"   -> curr[1] - prev[1] < 0
    [] pos = "Right"  -> curr[1] - prev[1] > 0
    [] pos = "Top"    -> curr[2] - prev[2] < 0
    [] pos = "Bottom" -> curr[2] - prev[2] > 0


\* The edge through which the cursor left the displays; Unset for a movement
\* that stays on them, starts outside, or goes past two edges (a corner).
entered_barrier(prev, curr, displays) ==
  IF ~in_display_region(prev, displays) \/ in_display_region(curr, displays) THEN Unset
  ELSE LET crossed == Crosses(curr, displays[display_containing_idx(displays, prev)])
       IN IF \E pos \in Edges : crossed = {pos} /\ Towards(prev, curr, pos)
          THEN CHOOSE pos \in Edges : crossed = {pos} ELSE Unset

\* A DisplayBound is [rect |-> ..., monitor_id |-> ...]; a BarrierKey <<pos, monitor>>.
Rects(bounds) == [i \in DOMAIN bounds |-> bounds[i].rect]

\* The barrier of the display the cursor was on, else the one that names no monitor.
query_pure(prev, curr, bounds, clients) ==
  LET pos == entered_barrier(prev, curr, Rects(bounds))
      key == <<pos, bounds[display_containing_idx(Rects(bounds), prev)].monitor_id>>
  IN IF pos = Unset THEN NoKey
     ELSE IF key \in clients THEN key
     ELSE IF <<pos, Unset>> \in clients THEN <<pos, Unset>> ELSE NoKey

Clamp(v, low, high) == IF v < low THEN low ELSE IF v > high THEN high ELSE v

\* Where the cursor is parked: on the display it came from, one pixel inside.
clamp_to_display_bounds(displays, prev, p) ==
  IF ~in_display_region(prev, displays) THEN p
  ELSE LET d == displays[display_containing_idx(displays, prev)]
       IN <<Clamp(p[1], d.x, d.x + d.w - 1), Clamp(p[2], d.y, d.y + d.h - 1)>>

-----------------------------------------------------------------------------
\* The edge found is determined by where the cursor is, not by how it moved: a
\* movement off the displays is attributed to an edge exactly when it ends past
\* that edge, and only that edge, of the display it started on.  (The motion
\* always points to such an edge, so the check of its direction rejects nothing.)
EdgeIsGeometric(prev, curr, displays) ==
  \A pos \in Edges :
    entered_barrier(prev, curr, displays) = pos <=>
      /\ in_display_region(prev, displays) /\ ~in_display_region(curr, displays)
      /\ Crosses(curr, displays[display_containing_idx(displays, prev)]) = {pos}

\* The parked cursor is on the display it came from, so that the next movement
\* off the displays is detected again.
ParkedOnDisplay(prev, curr, displays) ==
  in_display_region(prev, displays) =>
    is_within_dp_region(clamp_to_display_bounds(displays, prev, curr),
                        displays[display_containing_idx(displays, prev)])

\* The barrier found is a registered one on the edge crossed, of the display
\* the cursor was on or of no display in particular, and none is overlooked.
BarrierIsRegistered(prev, curr, bounds, clients) ==
  LET pos == entered_barrier(prev, curr, Rects(bounds))
      key == query_pure(prev, curr, bounds, clients)
      own == bounds[display_containing_idx(Rects(bounds), prev)].monitor_id
  IN /\ key # NoKey => key \in clients /\ key[1] = pos /\ key[2] \in {own, Unset}
     /\ key = NoKey => pos = Unset \/ \A m \in {own, Unset} : <<pos, m>> \notin clients
=============================================================================
