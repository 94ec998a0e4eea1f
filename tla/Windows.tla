------------------------------ MODULE Windows -------------------------------
(* The windows of the desktop: the window manager (system/window_manager.py),  *)
(* the windows and their animations (os_window.py,                             *)
(* window_animation_controller.py, motion.py), and the taskbar the desktop     *)
(* keeps in step with them (desktop.py, taskbar_ui.py).  The window events are *)
(* HIGH, so every reaction to them runs inside the call that emits them; only  *)
(* animations and timers come later.                                           *)
(*                                                                             *)
(* "wm" holds what one handler hands on to the next; its field ok is FALSE   *)
(* when an exception has cut the handler short.  A window whose Qt object was  *)
(* deleted while the manager still lists it is a ghost: every call on it       *)
(* raises RuntimeError.                                                        *)
EXTENDS Integers, Sequences, FiniteSets, SequencesExt

CONSTANTS
  MaxLaunches,  \* bound on the windows ever opened
  Title,        \* application names
  NoWindow      \* the manager's _active when no window is

ASSUME WindowsAssumption == MaxLaunches \in Nat /\ NoWindow \notin 1 .. MaxLaunches

Win == 1 .. MaxLaunches      \* fresh uuids, numbered in the order of the launches
NoTitle == "none"            \* of a window not launched yet

VARIABLES
  wm,           \* the manager, the widgets and the taskbar: see Desk
  title,        \* title[w] the application of a launched window
  run,          \* run[w] of the content widget: "none", "new", "started", "stopped"
  start_due,    \* windows whose 50 ms start timer is running
  refresh_due,  \* the taskbar refresh 50 ms after a close is pending
  terminated    \* windows closed from the taskbar's menu (history)

windowVars == <<wm, title, run, start_due, refresh_due, terminated>>

Desk == [windows: Seq(Win),               \* the dict, in insertion order
         order: Seq(Win),                 \* _window_order
         ranks: Seq(Win),                 \* the windows by ascending z_index
         active: Win \cup {NoWindow},
         minimized: SUBSET Win, lit: SUBSET Win, shown: SUBSET Win, gone: SUBSET Win,
         anim: [Win -> {"idle", "minimize", "restore"}],
         tabs: SUBSET Win,                \* windows the taskbar shows
         ok: BOOLEAN]

\* What is left of a sequence when only the members of a set are kept.
Kept(q, ws) ==
  LET at == {i \in DOMAIN q : q[i] \in ws}
  IN [n \in 1..Cardinality(at) |->
        q[CHOOSE i \in at : Cardinality({k \in at : k <= i}) = n]]
Less(q, ws) == Kept(q, ToSet(q) \ ws)
OnTop(q, w) == Append(Less(q, {w}), w)

Known(s) == ToSet(s.windows)
Ghosts(s) == Known(s) \cap s.gone

\* update_state of the taskbar: the icons become what it is told.
Icons(s, windows) == [s EXCEPT !.tabs = windows]

\* _update_taskbar_apps: isVisible of a ghost raises, and the bus or Qt drops the exception.
TabsRefreshed(s) ==
  IF Ghosts(s) # {} THEN s ELSE Icons(s, Known(s) \cap (s.shown \cup s.minimized))

\* MotionController.restore_window shows the window at once, minimize_window hides it at the end.
FadesIn(s, w) == [s EXCEPT !.shown = @ \cup {w}, !.anim[w] = "restore"]
FadesOut(s, w) == [s EXCEPT !.anim[w] = "minimize"]

\* set_active_state of every window's focus manager.
LightsOnly(s, w) == [s EXCEPT !.active = w, !.lit = {w}]

\* The part of focus_window for a window that is not minimized: the loop that raises all
\* windows in z order stops at a ghost.
Raised(s, w) ==
  LET front == [s EXCEPT !.order = OnTop(@, w), !.ranks = OnTop(@, w)]
  IN IF Ghosts(s) # {} THEN [front EXCEPT !.ok = FALSE]
     ELSE TabsRefreshed(LightsOnly(front, w))

\* restore_window: the taskbar hears of it before the window shows itself again.
Restored(s, w) ==
  LET back == TabsRefreshed([s EXCEPT !.minimized = @ \ {w}])
  IN IF w \notin s.minimized THEN Raised(s, w)
     ELSE IF w \in s.gone THEN [s EXCEPT !.minimized = @ \ {w}, !.ok = FALSE]
     ELSE Raised(FadesIn(back, w), w)

\* Mutant: focusing does not look whether the window is minimized.
FocusedAsIs(s, w) ==
  IF w \notin Known(s) THEN s ELSE Raised(s, w)

\* focus_window
Focused(s, w) ==
  IF w \notin Known(s) THEN s
  ELSE Restored([s EXCEPT !.order = OnTop(@, w)], w)

\* cycle_windows: the last window of the order that is not minimized.
Cycled(s) ==
  LET open == Kept(s.order, Known(s) \ s.minimized)
  IN IF open = << >> THEN [s EXCEPT !.active = NoWindow] ELSE Focused(s, Last(open))

\* minimize_window, whose animation hides the window when it ends.
Minimized(s, w) ==
  LET flagged == [s EXCEPT !.minimized = @ \cup {w}]
      next    == IF s.active = w THEN Cycled([flagged EXCEPT !.active = NoWindow]) ELSE flagged
      told    == TabsRefreshed(next)
  IN IF w \notin Known(s) \ s.minimized THEN s
     ELSE IF ~ next.ok \/ w \in s.gone THEN next
     ELSE FadesOut(told, w)

\* _final_close, without a fade: the widgets are deleted with their animations and timers.
FinalClose(s, ws) ==
  [s EXCEPT !.gone = @ \cup ws, !.shown = @ \ ws, !.minimized = @ \ ws, !.lit = @ \ ws,
            !.anim = [v \in Win |-> IF v \in ws THEN "idle" ELSE @[v]]]

\* close_window with the _final_close its event sets off, of one window or of several in turn.
\* The label of a ghost raises when its title is read, after it left the dict.
Closed(s, ws) ==
  LET real == ws \ s.gone
  IN [FinalClose(s, real) EXCEPT
        !.windows = Less(@, ws), !.ranks = Less(@, ws), !.order = Less(@, real),
        !.active = IF @ \in real THEN NoWindow ELSE @, !.ok = real = ws]

\* register_window
Registered(s, w) ==
  Focused(TabsRefreshed([s EXCEPT !.windows = Append(@, w), !.ranks = Append(@, w)]), w)

WindowsInit ==
  /\ wm = [windows |-> << >>, order |-> << >>, ranks |-> << >>, active |-> NoWindow,
             minimized |-> {}, lit |-> {}, shown |-> {}, gone |-> {},
             anim |-> [w \in Win |-> "idle"], tabs |-> {}, ok |-> TRUE]
  /\ title = [w \in Win |-> NoTitle]
  /\ run = [w \in Win |-> "none"]
  /\ start_due = {} /\ refresh_due = FALSE /\ terminated = {}

\* An exception ends the handler and nothing more: the next one starts afresh.
Becomes(s) == wm' = [s EXCEPT !.ok = TRUE]

\* launch_app for an application that has a window: its window is focused.
LaunchAgain(w) ==
  /\ w \in Known(wm)
  /\ Becomes(Focused(wm, w))
  /\ UNCHANGED <<title, run, start_due, refresh_due, terminated>>

\* find_by_title
HasWindow(t) == \E v \in Known(wm) : title[v] = t

\* launch_app for one that has none: registered, focused, then shown, and started 50 ms later.
\* When focusing raises, what follows is skipped.
Launch(w, t) ==
  LET first == Registered(wm, w)
  IN /\ \A v \in Win : (run[v] = "none") <=> (v >= w)
     /\ ~ HasWindow(t)
     /\ title' = [title EXCEPT ![w] = t]
     /\ IF first.ok
        THEN /\ Becomes(TabsRefreshed([first EXCEPT !.shown = @ \cup {w}]))
             /\ start_due' = start_due \cup {w}
        ELSE Becomes(first) /\ UNCHANGED start_due
     /\ run' = [run EXCEPT ![w] = "new"]
     /\ UNCHANGED <<refresh_due, terminated>>

\* _trigger_start, unless the widget was deleted first.
StartTimer(w) ==
  /\ w \in start_due
  /\ start_due' = start_due \ {w}
  /\ run' = [run EXCEPT ![w] = IF w \in wm.gone \/ @ # "new" THEN @ ELSE "started"]
  /\ UNCHANGED <<wm, title, refresh_due, terminated>>

\* A press on the window, or the window chosen with Alt+Tab.
Focus(w) ==
  /\ w \in wm.shown \/ (Len(wm.windows) > 1 /\ w \in Known(wm))
  /\ Becomes(Focused(wm, w))
  /\ UNCHANGED <<title, run, start_due, refresh_due, terminated>>

\* The minimize button.
MinimizeButton(w) ==
  /\ w \in wm.shown
  /\ Becomes(Minimized(wm, w))
  /\ UNCHANGED <<title, run, start_due, refresh_due, terminated>>

\* The request handler of the application controller.
Request(s, what, w) ==
  CASE what = "minimize" -> Minimized(s, w)
    [] what = "close"    -> Closed(s, {w})
    [] what = "focus"    -> IF w \in Known(s) \cap s.minimized THEN Restored(s, w)
                            ELSE Focused(s, w)

\* _on_taskbar_app_clicked
TaskbarClick(w) ==
  /\ w \in wm.tabs
  /\ Becomes(IF wm.active = w /\ w \notin wm.minimized
             THEN Request(wm, "minimize", w) ELSE Request(wm, "focus", w))
  /\ UNCHANGED <<title, run, start_due, refresh_due, terminated>>

\* Mutant: the stop hook is not called.
StopsNone(ws) == run' = run

\* _final_close stops the content widget when it was started.
Stops(ws) == run' = [w \in Win |-> IF w \in ws /\ run[w] = "started" THEN "stopped" ELSE run[w]]

\* The close button, or REQ_WINDOW_CLOSE for any window the manager knows.
Close(w) ==
  /\ w \in Known(wm)
  /\ Becomes(Request(wm, "close", w))
  /\ Stops({w} \ wm.gone)
  /\ refresh_due' = (refresh_due \/ w \notin wm.gone)
  /\ UNCHANGED <<title, start_due, terminated>>

\* close_all at logout: every window in turn, until one raises.
UntilGhost(s) ==
  {w \in Known(s) : \E i \in DOMAIN s.windows :
     s.windows[i] = w /\ \A j \in 1..(i - 1) : s.windows[j] \notin s.gone}

CloseAll ==
  LET all == Closed(wm, UntilGhost(wm))
  IN /\ wm.windows # << >>
     /\ Becomes(IF all.ok THEN [all EXCEPT !.order = << >>, !.active = NoWindow] ELSE all)
     /\ Stops(UntilGhost(wm) \ wm.gone)
     /\ refresh_due' = (refresh_due \/ UntilGhost(wm) \ wm.gone # {})
     /\ UNCHANGED <<title, start_due, terminated>>

\* "Terminate Interface" of the taskbar's menu: QWidget.close deletes the window, and neither
\* the manager nor the content widget is told.
Terminate(w) ==
  /\ w \in wm.tabs /\ w \in Known(wm) \ wm.gone
  /\ Becomes([wm EXCEPT !.gone = @ \cup {w}, !.shown = @ \ {w}, !.anim[w] = "idle"])
  /\ terminated' = terminated \cup {w}
  /\ UNCHANGED <<title, run, start_due, refresh_due>>

AnimationEnds(w) ==
  /\ wm.anim[w] # "idle"
  /\ wm' = [wm EXCEPT !.anim[w] = "idle",
                          !.shown = IF wm.anim[w] = "minimize" THEN @ \ {w} ELSE @]
  /\ UNCHANGED <<title, run, start_due, refresh_due, terminated>>

\* The taskbar refresh 50 ms after a close.
RefreshTimer ==
  /\ refresh_due /\ refresh_due' = FALSE
  /\ Becomes(TabsRefreshed(wm))
  /\ UNCHANGED <<title, run, start_due, terminated>>

WindowsNext ==
  \/ \E w \in Win :
       \/ LaunchAgain(w) \/ (\E t \in Title : Launch(w, t)) \/ StartTimer(w) \/ Focus(w) \/ MinimizeButton(w)
       \/ TaskbarClick(w) \/ Close(w) \/ Terminate(w) \/ AnimationEnds(w)
  \/ CloseAll \/ RefreshTimer

WindowsSpec == WindowsInit /\ [][WindowsNext]_windowVars

-----------------------------------------------------------------------------
OrderIsFocusOrder ==
  /\ ToSet(wm.order) = Known(wm) /\ IsInjective(wm.order)
  /\ wm.ranks = wm.order

ActiveIsOnTop ==
  /\ wm.active # NoWindow => wm.active = Last(wm.order)
  /\ wm.lit \ wm.minimized = {wm.active} \ {NoWindow}

RestShows == \A w \in Known(wm) :
  wm.anim[w] = "idle" => ((w \in wm.shown) <=> (w \notin wm.minimized))

TabsAreWindows == ~ refresh_due => wm.tabs = Known(wm)

\* The manager, the widgets and the taskbar agree after every chain of focus, minimize, restore
\* and close events, whatever animation was cut short: the order of focus is the order of z, the
\* active window is its top and the one lit, a resting window is hidden exactly when it is
\* minimized, the taskbar lists the windows, and no application has two.  Terminate leaves a
\* ghost in the manager's table that breaks all of it, so this is claimed until then.
\* window_manager.py:80-250, window_animation_controller.py:40, desktop.py:915-1066.
WindowsAgree ==
  /\ wm \in Desk
  /\ terminated = {} =>
       /\ OrderIsFocusOrder /\ ActiveIsOnTop /\ RestShows /\ TabsAreWindows
       /\ \A v, w \in Known(wm) : title[v] = title[w] => v = w

\* An application whose window the manager closed is not left running: it was stopped if it
\* had started, and its start timer starts nothing afterwards.  os_window.py _final_close,
\* base_app.py _trigger_start.
ClosedAppsStop == \A w \in wm.gone \ terminated : run[w] # "started"

\* The manager, the widgets and the taskbar agree, and no application is left running.
WindowsSound == WindowsAgree /\ ClosedAppsStop
=============================================================================
