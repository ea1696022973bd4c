--------------------------- MODULE SlidingWindow ---------------------------
(***************************************************************************)
(* What a graph needs of its history, whatever the bookkeeping: a window   *)
(* of the newest samples, as wide as the canvas last allowed, and its peak,*)
(* the value the graph is scaled by.  The peak may become unknown (NaN),   *)
(* for good, but only because a sample that is no number was shown.        *)
(***************************************************************************)
EXTENDS Histories

CONSTANTS Samples, Widths
VARIABLES window, peak

Newest(samples, n) == SubSeq(samples, 1, IF Len(samples) > n THEN n ELSE Len(samples))

Init == window = <<>> /\ peak = 0

\* The peak follows the window.
Scaled ==
  \/ peak # NaN /\ peak' # NaN /\ IsPeak(peak', window')
  \/ peak' = NaN /\ (peak = NaN \/ \E i \in DOMAIN window' : window'[i] = NaN)

Sample(m, n) == window' = Newest(<<m>> \o window, n) /\ Scaled
Narrow(n) == window' = Newest(window, n) /\ Scaled

Next == \E n \in Widths : Narrow(n) \/ \E m \in Samples : Sample(m, n)

Spec == Init /\ [][Next]_<<window, peak>>
==========================================================================
