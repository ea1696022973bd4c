--------------------------- MODULE ValueHistory ---------------------------
(***************************************************************************)
(* One ValueHistory object as the view drives it: ValueHistory::update is  *)
(* called at every tick of the plugin's timer, with the number of samples  *)
(* the canvas has room for at that moment.                                 *)
(***************************************************************************)
EXTENDS Histories

CONSTANTS
  Samples,         \* what Monitor::value() returns after a measurement
  Widths,          \* values of max_samples: the canvas can be resized
  WaitIterations   \* update_interval() of the monitor / Plugin::update_interval

ASSUME HistoryAssumption ==
  /\ Samples \subseteq Nat \cup {NaN}
  /\ Widths \subseteq Nat \ {0}
  /\ WaitIterations \in Nat

VARIABLES
  history,
  since     \* updates since the last measurement (observed, not in the code)

vars == <<history, since>>

TypeOK ==
  /\ history \in [values : Seq(Samples), max_value : Nat \cup {NaN},
                  max_count : Nat, waits_remaining : Int]
  /\ since \in Nat

Init == history = NewHistory /\ since = 0

Tick(n, m) ==
  /\ history' = Update(history, WaitIterations, n, m)
  /\ since' = IF Due(history) THEN 0 ELSE since + 1

Next == \E n \in Widths, m \in Samples : Tick(n, m)

Spec == Init /\ [][Next]_vars
--------------------------------------------------------------------------
\* The cached maximum is the largest sample kept, and its count is the number of
\* samples that large, however samples came and went: dropping a sample asks the
\* count whether a maximum is left, and recomputes nothing otherwise.  The only
\* way to lose the maximum is for it to become NaN.
PeakExact ==
  history.max_value # NaN =>
     /\ IsPeak(history.max_value, history.values)
     /\ history.max_count = Occurrences(history.values, history.max_value)

\* What get_max_value's comment says: the maximum of the points on the graph is always
\* known, so that the graph is scaled by it.
PeakKnown == IsPeak(history.max_value, history.values)

\* The countdown and the time waited always add up to the interval, so a sample
\* is never early, late or skipped when the canvas is resized meanwhile.
WaitsAddUp ==
  \/ history = NewHistory
  \/ /\ history.waits_remaining + since = WaitIterations
     /\ since < WaitIterations \/ since = 0

\* A measurement is taken exactly when the interval has passed.
SamplesOnTime ==
  [][(since' = 0) <=> (history = NewHistory \/ since + 1 >= WaitIterations)]_vars

\* The history implements the sliding window that a graph needs.
Window == INSTANCE SlidingWindow WITH window <- history.values,
                                      peak <- history.max_value
WindowSpec == Window!Spec
==========================================================================
