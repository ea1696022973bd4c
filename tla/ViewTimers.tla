----------------------------- MODULE ViewTimers -----------------------------
(***************************************************************************)
(* The two timers behind a view: the plugin's, which updates it, and that  *)
(* of a CanvasView, which draws it (a TextView has none).  GLib dispatches *)
(* the timeouts that are due in an iteration of the main loop one after    *)
(* the other, in the order in which they were attached, and counts the     *)
(* next interval from the time of that iteration: it never makes up for    *)
(* the calls that a busy or sleeping process missed.                       *)
(***************************************************************************)
EXTENDS Integers

CONSTANTS
  DrawInterval,     \* CanvasView::draw_interval
  UpdateInterval,   \* Plugin::update_interval
  DrawIterations,   \* CanvasView::draw_iterations
  MaxSleep          \* bound on the time between two iterations of the main loop

ASSUME TimersAssumption ==
  /\ DrawInterval \in Nat \ {0} /\ DrawIterations \in Nat \ {0} /\ MaxSleep \in Nat
  /\ UpdateInterval = DrawIterations * DrawInterval

VARIABLES
  left,      \* for each timer, the time until it is due
  first,     \* the timer that was attached first
  draws      \* draws_since_update of a BarView

timers == <<left, first, draws>>

Timers == {"update", "draw"}

TimersOK ==
  /\ "update" \in DOMAIN left /\ DOMAIN left \subseteq Timers
  /\ left["update"] \in 0 .. UpdateInterval
  /\ "draw" \in DOMAIN left => left["draw"] \in 0 .. DrawInterval
  /\ first \in Timers /\ draws \in Nat
--------------------------------------------------------------------------
\* Time passes until the next iteration.
Iterate ==
  /\ \A t \in DOMAIN left : left[t] > 0
  /\ \E e \in 1 .. MaxSleep :
       left' = [t \in DOMAIN left |-> IF left[t] > e THEN left[t] - e ELSE 0]
  /\ UNCHANGED <<first, draws>>

\* Timer t is dispatched and starts again.
Fire(t, interval) ==
  /\ t \in DOMAIN left /\ left[t] = 0
  /\ (\A other \in DOMAIN left : left[other] = 0) => t = first \/ DOMAIN left = {t}
  /\ left' = [left EXCEPT ![t] = interval]
  /\ UNCHANGED first

FireDraw == Fire("draw", DrawInterval) /\ draws' = draws + 1

(* Mutant: BarView::do_update does not reset the count. *)
MutFireUpdate == Fire("update", UpdateInterval) /\ UNCHANGED draws

FireUpdate == Fire("update", UpdateInterval) /\ draws' = 0

(* Mutant: the draw timer is not started with the view. *)
MutDisplay(canvas) ==
  left' = [t \in {"update"} |-> left[t]] /\ first' = "update" /\ draws' = 0

\* Another view is displayed, with a draw timer of its own if it has a canvas.
Display(canvas) ==
  /\ left' = [t \in {"update"} \cup (IF canvas THEN {"draw"} ELSE {}) |->
                IF t = "update" THEN left[t] ELSE DrawInterval]
  /\ first' = "update"
  /\ draws' = 0

\* The plugin displays its view before it starts its own timer, and updates at once.
TimersInit(canvas) ==
  /\ left = [t \in {"update"} \cup (IF canvas THEN {"draw"} ELSE {}) |->
               IF t = "update" THEN 0 ELSE DrawInterval]
  /\ first = "draw" /\ draws = 0

TimersNext == Iterate \/ FireDraw \/ FireUpdate \/ \E canvas \in BOOLEAN : Display(canvas)

TimersSpec == (\E canvas \in BOOLEAN : TimersInit(canvas)) /\ [][TimersNext]_timers
--------------------------------------------------------------------------
\* Whenever a view is drawn, at most draw_iterations draws came since its last update:
\* the time offset of a bar is at most 1, however late the main loop comes back.
OffsetAtMostOne ==
  "draw" \in DOMAIN left => (left["draw"] = 0 => draws <= DrawIterations)
==========================================================================
