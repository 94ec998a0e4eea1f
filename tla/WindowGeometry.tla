--------------------------- MODULE WindowGeometry ---------------------------
(* Where one window of the desktop may be, and how it is dragged, resized and  *)
(* snapped: the geometry gatekeeper of the window manager                      *)
(* (window_manager.py request_geometry), the mouse handlers of the window      *)
(* (os_window.py), its drag handler and its snap controller.  A snap found at  *)
(* the end of a drag is applied at once and told to the snap controller by a   *)
(* NORMAL event, which the controller hears on the bus worker.                 *)
(*                                                                             *)
(* No lock is held anywhere.  Each of the two threads goes through its handler *)
(* one access to the shared fields at a time, and the other may come between.  *)
EXTENDS Integers, Sequences

CONSTANTS
  PW, PH,            \* size of the workspace
  MinW, MinH,        \* smallest window (400 x 300)
  KeepX, KeepY,      \* pixels that must stay inside (100, 40)
  Jitter,            \* changes below it are dropped (2)
  Edge,              \* snap threshold (30)
  Points,            \* where the pointer may take the window, as [x, y] records
  Growth,            \* by how much an edge may be dragged
  Corners,           \* the corners dragged, as [left, top] records
  MaxSnaps,          \* bound on the SNAPPED events queued
  MaxHandlers        \* bound on the handlers run

ASSUME GeometryAssumption ==
  /\ PW \in Nat /\ PH \in Nat /\ MinW \in Nat \ {0} /\ MinH \in Nat \ {0}
  /\ KeepX \in Nat /\ KeepY \in Nat /\ Jitter \in Nat \ {0} /\ Edge \in Nat
  /\ KeepX <= MinW /\ KeepX <= PW - PW \div 2 /\ KeepY <= PH
  /\ Points \subseteq [x: Int, y: Int] /\ Growth \subseteq Int
  /\ Corners \subseteq [left: BOOLEAN, top: BOOLEAN]
  /\ MaxSnaps \in Nat /\ MaxHandlers \in Nat

Thread == {"ui", "bus"}

VARIABLES
  state,    \* SnapController.state
  slot,     \* SnapController.slot
  geom,     \* the window's geometry
  prev,     \* SnapController._prev_geometry
  applying, \* _is_applying_geometry
  mouse,    \* "up", "drag" after a press on the title bar, "resize" after one on an edge
  start,    \* _resize_start_geom
  snapped,  \* EVT_WINDOW_SNAPPED events on the bus queue
  doing,    \* of each thread: at, the next step of its handler, "rest" between two;
            \* want, the slot it is to write; box, the rectangle it is to set; and then,
            \* the step after the geometry is set
  begun,    \* handlers begun, up to MaxHandlers
  crossed,  \* history: two changes of state and slot have overlapped since the last whole one
  strayed   \* history: the geometry was last restored past the gatekeeper

geometryVars == <<state, slot, geom, prev, applying, mouse, start, snapped, doing,
                  begun, crossed, strayed>>

Rect == [x: Int, y: Int, w: Int, h: Int]
R(x, y, w, h) == [x |-> x, y |-> y, w |-> w, h |-> h]
Empty == R(0, 0, 0, 0)
Rest == [at |-> "rest", want |-> "normal", box |-> Empty, then |-> "rest"]

Tiles == {"half_left", "half_right", "quarter_tl", "quarter_tr"}
Slots == {"normal", "maximized"} \cup Tiles
Flush == {"maximized", "tiled"}

Larger(a, b) == IF a >= b THEN a ELSE b
Smaller(a, b) == IF a <= b THEN a ELSE b

\* Jitter protection: a change below the tolerance is no change.
Steady(new, old) == IF new - old < Jitter /\ old - new < Jitter THEN old ELSE new

\* Mutant: only the right edge of the workspace holds the window.
RequestedLoose(old, g) ==
  LET w == Larger(MinW, Smaller(g.w, PW))
      h == Larger(MinH, Smaller(g.h, PH))
  IN R(Steady(Smaller(g.x, PW - KeepX), old.x),
       Steady(Larger(0, Smaller(g.y, PH - KeepY)), old.y),
       Steady(w, old.w), Steady(h, old.h))

\* request_geometry, from the geometry the window has.
Requested(old, g) ==
  LET w == Larger(MinW, Smaller(g.w, PW))
      h == Larger(MinH, Smaller(g.h, PH))
      x == Larger(KeepX - w, Smaller(g.x, PW - KeepX))
      y == Larger(0, Smaller(g.y, PH - KeepY))
  IN R(Steady(x, old.x), Steady(y, old.y), Steady(w, old.w), Steady(h, old.h))

\* calculate_snap_geometry, and the rectangles of on_physics_snap.
SlotRect(s) ==
  CASE s = "maximized"  -> R(0, 0, PW, PH)
    [] s = "half_left"  -> R(0, 0, PW \div 2, PH)
    [] s = "half_right" -> R(PW \div 2, 0, PW \div 2, PH)
    [] s = "quarter_tl" -> R(0, 0, PW \div 2, PH \div 2)
    [] s = "quarter_tr" -> R(PW \div 2, 0, PW \div 2, PH \div 2)
    [] s = "normal"     -> Empty

\* detect_snap_zone, by the corner of the window.
ZoneOf(x, y) ==
  IF y < Edge THEN IF x < Edge THEN "quarter_tl"
                   ELSE IF x > PW - Edge THEN "quarter_tr" ELSE "maximized"
  ELSE IF x < Edge THEN "half_left"
  ELSE IF x > PW - Edge THEN "half_right" ELSE "normal"

StateOf(s) == IF s = "normal" THEN "normal" ELSE IF s = "maximized" THEN "maximized" ELSE "tiled"

-----------------------------------------------------------------------------
(* The steps of a handler *)

\* The steps that write the state or the slot, or come before one that does; and the others.
Writing == {"remember", "save", "slot", "state", "restore", "unslot", "drag", "drop"}
Step == Writing \cup {"rest", "back", "set", "bypass", "ask", "guard", "put", "unguard",
                      "zone", "tell", "grab"}

\* Thread t is at step s; it goes on to s, or to s with the rectangle g; what is not named stays.
At(t, s) == doing[t].at = s
Goes(h, s) == IF s = "rest" THEN Rest ELSE [h EXCEPT !.at = s]
GoTo(t, s) == doing' = [doing EXCEPT ![t] = Goes(@, s)]
Aim(t, s, g) == doing' = [doing EXCEPT ![t] = [@ EXCEPT !.at = s, !.box = g]]
Stay(fields) == UNCHANGED <<fields, mouse, start, begun, crossed>>

\* if self.state == NORMAL: the geometry is remembered; test and assignment are two steps.
Remember(t) ==
  /\ At(t, "remember")
  /\ GoTo(t, IF state = "normal" THEN "save" ELSE "slot")
  /\ Stay(<<state, slot, geom, prev, applying, snapped, strayed>>)

Save(t) ==
  /\ At(t, "save") /\ GoTo(t, "slot")
  /\ prev' = geom
  /\ Stay(<<state, slot, geom, applying, snapped, strayed>>)

\* Mutant: a restored window keeps its slot.
SlotKept(s) == IF s = "normal" THEN slot ELSE s
SlotOf(s) == s

\* The slot of snap_to_slot is written before the state, that of a restored window after it.
WriteSlot(t) ==
  /\ At(t, "slot") \/ At(t, "unslot")
  /\ slot' = SlotOf(doing[t].want)
  /\ GoTo(t, IF At(t, "slot") THEN "state" ELSE "back")
  /\ Stay(<<state, geom, prev, applying, snapped, strayed>>)

\* A snap without a rectangle, as most shortcuts ask for, ends here.
WriteState(t) ==
  /\ \/ At(t, "state") /\ state' = StateOf(doing[t].want)
        /\ GoTo(t, IF doing[t].box = Empty THEN "rest" ELSE "set")
     \/ At(t, "restore") /\ state' = "normal" /\ GoTo(t, "unslot")
     \/ At(t, "drop") /\ state' = "normal" /\ GoTo(t, "zone")
     \/ At(t, "drag") /\ state' = "dragging" /\ GoTo(t, "rest")
  /\ Stay(<<slot, geom, prev, applying, snapped, strayed>>)

\* The geometry that was remembered, if any, is to be set again.
PutBack(t) ==
  /\ At(t, "back")
  /\ IF prev.w > 0 /\ prev.h > 0
     THEN Aim(t, "set", prev)
     ELSE GoTo(t, doing[t].then)
  /\ Stay(<<state, slot, geom, prev, applying, snapped, strayed>>)

\* OSWindow.setGeometry asks the gatekeeper, but while a geometry is being applied, by
\* whichever thread, it takes what it is given.
SetGeometry(t) ==
  /\ At(t, "set") /\ GoTo(t, IF applying THEN "bypass" ELSE "ask")
  /\ Stay(<<state, slot, geom, prev, applying, snapped, strayed>>)

\* resizeEvent: a size that changes while no geometry is being applied is put to the
\* gatekeeper at once.
Resized(t, g, s) ==
  /\ geom' = g
  /\ IF ~applying /\ (g.w # geom.w \/ g.h # geom.h)
     THEN Aim(t, "ask", g)
     ELSE GoTo(t, s)

\* Qt itself keeps the minimum size.
Bypass(t) ==
  /\ At(t, "bypass")
  /\ Resized(t, [doing[t].box EXCEPT !.w = Larger(MinW, @), !.h = Larger(MinH, @)],
             doing[t].then)
  /\ strayed' = (doing[t].want = "normal")
  /\ Stay(<<state, slot, prev, applying, snapped>>)

\* request_geometry reads the geometry, and _apply_geometry sets the new one between two
\* writes of the flag.
Propose(t) ==
  /\ At(t, "ask")
  /\ Aim(t, "guard", Requested(geom, doing[t].box))
  /\ Stay(<<state, slot, geom, prev, applying, snapped, strayed>>)

Guard(t) ==
  /\ \/ At(t, "guard") /\ applying' = TRUE /\ GoTo(t, "put")
     \/ At(t, "unguard") /\ applying' = FALSE /\ GoTo(t, doing[t].then)
  /\ Stay(<<state, slot, geom, prev, snapped, strayed>>)

Put(t) ==
  /\ At(t, "put") /\ Resized(t, doing[t].box, "unguard") /\ strayed' = FALSE
  /\ Stay(<<state, slot, prev, applying, snapped>>)

\* on_release looks where the window is, has the snap applied, and tells of it.
Zone ==
  /\ At("ui", "zone")
  /\ LET zone == ZoneOf(geom.x, geom.y)
     IN doing' = [doing EXCEPT !["ui"] =
          IF zone = "normal" THEN Rest
          ELSE [at |-> "ask", want |-> zone, box |-> SlotRect(zone), then |-> "tell"]]
  /\ Stay(<<state, slot, geom, prev, applying, snapped, strayed>>)

Tell ==
  /\ At("ui", "tell") /\ GoTo("ui", "rest")
  /\ snapped' = Append(snapped, doing["ui"].want)
  /\ Stay(<<state, slot, geom, prev, applying, strayed>>)

-----------------------------------------------------------------------------
(* The handlers *)

\* A handler of t begins at step s for slot w with rectangle g, and goes on with n.
Begin(t, s, w, g, n) ==
  /\ At(t, "rest") /\ begun < MaxHandlers /\ begun' = begun + 1
  /\ doing' = [doing EXCEPT ![t] = [at |-> s, want |-> w, box |-> g, then |-> n]]
  /\ UNCHANGED <<state, slot, geom, prev, applying, strayed>>

\* snap_to_slot with a slot, with or without its rectangle; and with NORMAL.
Snap(t, s, rect) == Begin(t, "remember", s, rect, "rest")
Unsnap(t, n) == Begin(t, "restore", "normal", Empty, n)

\* Does t still have to write the state or the slot?
Changing(t) == doing[t].at \in Writing \/ doing[t].then = "drag"

\* A handler that writes both begins; one that writes the state alone begins.
Whole(t) == crossed' = \E u \in Thread \ {t} : Changing(u)
Part(t) == crossed' = (crossed \/ \E u \in Thread \ {t} : Changing(u))

\* launch_app: register, resize, move, show.
GeometryInit ==
  /\ state = "normal" /\ slot = "normal" /\ prev = Empty /\ start = Empty /\ applying = FALSE
  /\ \E p \in Points : geom = Requested(R(0, 0, MinW, MinH), R(p.x, p.y, MinW + 1, MinH + 1))
  /\ mouse = "up" /\ snapped = << >>
  /\ doing = [t \in Thread |-> Rest]
  /\ begun = 0 /\ crossed = FALSE /\ strayed = FALSE

\* A press on the title bar; a flush window is restored first.
PressTitle ==
  /\ mouse = "up" /\ mouse' = "drag"
  /\ IF state \in Flush THEN Unsnap("ui", "drag") /\ Whole("ui")
     ELSE Begin("ui", "drag", "normal", Empty, "rest") /\ Part("ui")
  /\ UNCHANGED <<start, snapped>>

\* mouseMoveEvent while dragging.
Drag ==
  /\ mouse = "drag" /\ state = "dragging"
  /\ \E p \in Points : Begin("ui", "ask", "normal", R(p.x, p.y, geom.w, geom.h), "rest")
  /\ UNCHANGED <<mouse, start, snapped, crossed>>

\* on_release: the drag ends and a snap may follow, at once for the geometry and through the
\* bus for the snap controller.  A drag a late snap has ended meanwhile is not ended again.
Release ==
  /\ mouse = "drag" /\ mouse' = "up"
  /\ IF state # "dragging"
     THEN At("ui", "rest") /\ UNCHANGED <<doing, state, slot, geom, prev, applying, begun, strayed, crossed>>
     ELSE /\ Len(snapped) < MaxSnaps
          /\ Begin("ui", "drop", "normal", Empty, "rest") /\ Part("ui")
  /\ UNCHANGED <<start, snapped>>

\* on_physics_snap on the bus worker.
LateSnap ==
  /\ snapped # << >> /\ snapped' = Tail(snapped)
  /\ Snap("bus", Head(snapped), SlotRect(Head(snapped))) /\ Whole("bus")
  /\ UNCHANGED <<mouse, start>>

\* A press on an edge or a corner; the geometry is read after the test of the state.
PressEdge ==
  /\ mouse = "up" /\ state \notin Flush
  /\ mouse' = "resize"
  /\ Begin("ui", "grab", "normal", Empty, "rest")
  /\ UNCHANGED <<start, snapped, crossed>>

Grab ==
  /\ At("ui", "grab") /\ GoTo("ui", "rest")
  /\ start' = geom
  /\ UNCHANGED <<state, slot, geom, prev, applying, mouse, snapped, begun, crossed, strayed>>

\* _do_resize sets the geometry past the gatekeeper: the right and bottom edges move, or the
\* left and top ones with the opposite corner in place.
Resize ==
  /\ mouse = "resize"
  /\ \E d \in Growth, e \in Growth, c \in Corners :
       LET w == Larger(MinW, start.w + d)
           h == Larger(MinH, start.h + e)
       IN Begin("ui", "guard", "normal",
                R(IF c.left THEN start.x + start.w - w ELSE start.x,
                  IF c.top THEN start.y + start.h - h ELSE start.y, w, h), "rest")
  /\ UNCHANGED <<mouse, start, snapped, crossed>>

\* mouseReleaseEvent after a resize hands the result to the gatekeeper.
ReleaseEdge ==
  /\ mouse = "resize" /\ mouse' = "up"
  /\ start' = Empty
  /\ Begin("ui", "ask", "normal", geom, "rest")
  /\ UNCHANGED <<snapped, crossed>>

\* toggle_maximize, by the button or a double click.
ToggleMaximize ==
  /\ mouse = "up"
  /\ IF state = "maximized" THEN Unsnap("ui", "rest") ELSE Snap("ui", "maximized", SlotRect("maximized"))
  /\ Whole("ui")
  /\ UNCHANGED <<mouse, start, snapped>>

\* Alt and an arrow, caught by the desktop's event filter, which gives no rectangle; Meta and
\* an arrow, caught by the window, which does and also restores.
Shortcut ==
  /\ \/ \E s \in {"half_left", "half_right", "maximized"} :
          Snap("ui", s, Empty) \/ Snap("ui", s, SlotRect(s))
     \/ Unsnap("ui", "rest")
  /\ Whole("ui")
  /\ UNCHANGED <<mouse, start, snapped>>

GeometryNext ==
  \/ PressTitle \/ Drag \/ Release \/ LateSnap \/ PressEdge \/ Resize \/ ReleaseEdge
  \/ ToggleMaximize \/ Shortcut
  \/ Zone \/ Tell \/ Grab
  \/ \E t \in Thread : \/ Remember(t) \/ Save(t) \/ WriteSlot(t) \/ WriteState(t) \/ PutBack(t)
                       \/ SetGeometry(t) \/ Bypass(t) \/ Propose(t) \/ Guard(t) \/ Put(t)

GeometrySpec == GeometryInit /\ [][GeometryNext]_geometryVars

-----------------------------------------------------------------------------
\* Nothing makes the window smaller than the smallest one.
GeometryTypeOK ==
  /\ state \in {"normal", "dragging"} \cup Flush /\ slot \in Slots
  /\ geom \in Rect /\ geom.w >= MinW /\ geom.h >= MinH
  /\ prev \in Rect /\ start \in Rect
  /\ mouse \in {"up", "drag", "resize"}
  /\ snapped \in Seq(Slots \ {"normal"})
  /\ begun \in Nat /\ applying \in BOOLEAN /\ crossed \in BOOLEAN /\ strayed \in BOOLEAN
  /\ doing \in [Thread -> [at: Step, want: Slots, box: Rect,
                        then: {"rest", "drag", "tell"}]]

\* Reachable up to the tolerance, which the position and the width may each use.
Within(g) ==
  /\ g.w >= MinW /\ g.h >= MinH
  /\ g.x + g.w > KeepX - 2 * Jitter /\ g.x < PW - KeepX + Jitter
  /\ g.y > - Jitter /\ g.y < PH - KeepY + Jitter

\* Between two events of the interface and while no edge is being dragged, the window can be
\* reached with the mouse: part of it and its title bar lie in the workspace, whatever was
\* requested, resized or snapped, also by two threads at once.  The exception is a geometry
\* restored past the gatekeeper.  window_manager.py request_geometry.
StaysReachable == At("ui", "rest") /\ mouse # "resize" /\ ~strayed => Within(geom)

\* When no handler is in the middle of a change, the slot and the state tell the same story
\* through drags, toggles, shortcuts and late snaps: a window between slots has the slot
\* "normal".  Two changes that overlapped may leave them apart, until the next undisturbed
\* snap or restoration puts them right.  snap_controller.py.
SlotTellsState ==
  ~crossed /\ (\A t \in Thread : ~Changing(t)) =>
    /\ state \in {"normal", "dragging"} => slot = "normal"
    /\ state \in Flush => StateOf(slot) = state

\* The window stays within reach of the mouse, and its slot tells its state.
GeometrySound == StaysReachable /\ SlotTellsState

\* "CENTRAL AUTHORITY: Validates and applies ALL geometry changes. This is the single
\* gatekeeper": once both threads are at rest and no edge is dragged the window can be reached.
GateIsSingle == (\A t \in Thread : At(t, "rest")) /\ mouse # "resize" => Within(geom)
=============================================================================
