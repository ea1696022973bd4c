------------------------ MODULE ValueHistory_proofs ------------------------
(***************************************************************************)
(* ValueHistory for any samples, canvas widths and measuring interval: the *)
(* cached maximum is exact, samples are on time, and the history is a      *)
(* sliding window with its peak.                                           *)
(***************************************************************************)
EXTENDS ValueHistory, Foundations

\* The inductive invariant: types, the sound maximum, and the countdown.
IInv ==
  /\ history \in HistoryOf(Samples) /\ since \in Nat
  /\ SoundHistory(history)
  /\ WaitsAddUp

\* A tick is an update of the one history.
LEMMA TickSound ==
  ASSUME NEW h \in HistoryOf(Samples), SoundHistory(h), NEW n \in Widths, NEW m \in Samples
  PROVE  LET g == Update(h, WaitIterations, n, m)
             w == IF Due(h) THEN <<m>> \o h.values ELSE h.values
         IN  /\ g \in HistoryOf(Samples) /\ SoundHistory(g)
             /\ g.values = SubSeq(w, 1, IF Len(w) > n THEN n ELSE Len(w))
             /\ g.waits_remaining = IF Due(h) THEN WaitIterations
                                    ELSE h.waits_remaining - 1
             /\ h.max_value = NaN => g.max_value = NaN
             /\ g.max_value = NaN
                  => h.max_value = NaN \/ (g.values # <<>> /\ g.values[1] = NaN)
<1>1. Samples \in SUBSET Measurement /\ n \in Nat \ {0} /\ WaitIterations \in Int
  BY HistoryAssumption DEF Measurement
<1>2. GoodUpdate(Samples, h, WaitIterations, n, m)
  BY <1>1, UpdateSound
<1>3. QED BY <1>2 DEF GoodUpdate
--------------------------------------------------------------------------
\* A new history satisfies the invariant.
LEMMA InitIInv == Init => IInv
<1> SUFFICES ASSUME Init PROVE IInv
  OBVIOUS
<1>1. history = NewHistory /\ since = 0
  BY DEF Init
<1>2. history \in HistoryOf(Samples) /\ SoundHistory(history)
  BY <1>1, NewHistorySound
<1>3. QED BY <1>1, <1>2 DEF IInv, WaitsAddUp

\* Every tick keeps it, whatever is measured and whatever the canvas's width.
LEMMA NextIInv == IInv /\ [Next]_vars => IInv'
<1> SUFFICES ASSUME IInv, [Next]_vars PROVE IInv'
  OBVIOUS
<1>1. ASSUME NEW n \in Widths, NEW m \in Samples, Tick(n, m) PROVE IInv'
  <2>1. /\ history' \in HistoryOf(Samples) /\ SoundHistory(history')
        /\ history'.waits_remaining = IF Due(history) THEN WaitIterations
                                      ELSE history.waits_remaining - 1
    BY <1>1, TickSound DEF IInv, Tick
  <2>2. since' = (IF Due(history) THEN 0 ELSE since + 1) /\ since \in Nat
    BY <1>1 DEF Tick, IInv
  <2>3. history.waits_remaining \in Int /\ history'.waits_remaining \in Int
    BY <2>1 DEF IInv, HistoryOf
  <2>4. WaitIterations \in Nat
    BY HistoryAssumption
  <2>5. (history = NewHistory => history.waits_remaining = 0) /\ WaitsAddUp
    BY DEF NewHistory, IInv
  <2>6. Due(history) <=> history.waits_remaining - 1 <= 0
    BY DEF Due
  <2>7. /\ history'.waits_remaining + since' = WaitIterations
        /\ since' < WaitIterations \/ since' = 0
    BY <2>1, <2>2, <2>3, <2>4, <2>5, <2>6 DEF WaitsAddUp
  <2>8. QED BY <2>1, <2>2, <2>7 DEF IInv, WaitsAddUp
<1>2. CASE UNCHANGED vars
  BY <1>2 DEF vars, IInv, WaitsAddUp, SoundHistory
<1>3. QED BY <1>1, <1>2 DEF Next
--------------------------------------------------------------------------
\* The inductive invariant: the types, the exact peak, the waits that add up.
THEOREM Inductive == Spec => []IInv
BY InitIInv, NextIInv, PTL DEF Spec

\* The record of a history keeps its type: no field leaves its range.
THEOREM TypeCorrect == Spec => []TypeOK
<1>1. IInv => TypeOK
  BY DEF IInv, TypeOK, HistoryOf
<1>2. QED BY <1>1, Inductive, PTL

\* The scale of a graph is the largest sample it shows, for any sequence of samples
\* and resizes (value-history.cpp, get_max_value and update).
THEOREM PeakIsExact == Spec => []PeakExact
<1>1. IInv => PeakExact
  BY DEF IInv, PeakExact, SoundHistory
<1>2. QED BY <1>1, Inductive, PTL

\* Whatever its interval, a monitor is measured when the interval is over and never
\* in between (waits_remaining in ValueHistory::update).
THEOREM MeasuredOnTime == Spec => SamplesOnTime
<1>1. ASSUME IInv, [Next]_vars
      PROVE  [(since' = 0) <=> (history = NewHistory \/ since + 1 >= WaitIterations)]_vars
  <2>1. ASSUME NEW n \in Widths, NEW m \in Samples, Tick(n, m)
        PROVE  (since' = 0) <=> (history = NewHistory \/ since + 1 >= WaitIterations)
    <3>1. since' = (IF Due(history) THEN 0 ELSE since + 1) /\ since \in Nat
      BY <1>1, <2>1 DEF Tick, IInv
    <3>2. history.waits_remaining \in Int /\ WaitIterations \in Nat
      BY <1>1, HistoryAssumption DEF IInv, HistoryOf
    <3>3. (history = NewHistory => history.waits_remaining = 0) /\ WaitsAddUp
      BY <1>1 DEF NewHistory, IInv
    <3>4. QED BY <3>1, <3>2, <3>3 DEF Due, WaitsAddUp
  <2>2. QED BY <1>1, <2>1 DEF Next
<1>2. QED BY <1>1, Inductive, PTL DEF Spec, SamplesOnTime

\* The operators of SlidingWindow's own copy of Histories are those of Histories.
LEMMA WindowOperators ==
  /\ Window!NaN = NaN
  /\ \A p, v : Window!IsPeak(p, v) <=> IsPeak(p, v)
BY DEF Window!NaN, NaN, Window!IsPeak, IsPeak, Window!Numbers, Numbers

\* The deque with its counted maximum implements the window with its peak: no sample
\* is lost, kept too long or reordered, and the scale follows the window.
THEOREM ImplementsWindow == Spec => WindowSpec
<1>1. Init => Window!Init
  <2>1. Numbers(<<>>) = {}
    BY DEF Numbers
  <2>2. QED BY <2>1 DEF Init, Window!Init, NewHistory
<1>2. ASSUME IInv, IInv', [Next]_vars
      PROVE  [Window!Next]_<<history.values, history.max_value>>
  <2>1. ASSUME NEW n \in Widths, NEW m \in Samples, Tick(n, m)
        PROVE  Window!Next
    <3> DEFINE w == IF Due(history) THEN <<m>> \o history.values ELSE history.values
    <3>1. history' = Update(history, WaitIterations, n, m)
      BY <2>1 DEF Tick
    <3>2. /\ history'.values = SubSeq(w, 1, IF Len(w) > n THEN n ELSE Len(w))
          /\ history.max_value = NaN => history'.max_value = NaN
          /\ history'.max_value = NaN
               => history.max_value = NaN
                  \/ (history'.values # <<>> /\ history'.values[1] = NaN)
          /\ history \in HistoryOf(Samples) /\ history' \in HistoryOf(Samples)
          /\ SoundHistory(history')
      BY <1>2, <3>1, TickSound DEF IInv
    <3>3. history'.values = Window!Newest(w, n)
      BY <3>2 DEF Window!Newest
    <3>4. Window!Scaled
      <4> USE WindowOperators
      <4>1. CASE history'.max_value # NaN
        BY <4>1, <3>2 DEF Window!Scaled, SoundHistory
      <4>2. CASE history'.max_value = NaN /\ history.max_value = NaN
        BY <4>2 DEF Window!Scaled
      <4>3. CASE history'.max_value = NaN /\ history.max_value # NaN
        <5>1. history'.values # <<>> /\ history'.values[1] = NaN
          BY <4>3, <3>2
        <5>2. 1 \in DOMAIN history'.values
          <6>1. history'.values \in Seq(Samples)
            BY <3>2 DEF HistoryOf
          <6>2. QED BY <6>1, <5>1
        <5>3. QED BY <4>3, <5>1, <5>2 DEF Window!Scaled
      <4>4. QED BY <4>1, <4>2, <4>3
    <3>5. CASE Due(history)
      BY <3>3, <3>4, <3>5 DEF Window!Next, Window!Sample
    <3>6. CASE ~ Due(history)
      BY <3>3, <3>4, <3>6 DEF Window!Next, Window!Narrow
    <3>7. QED BY <3>5, <3>6
  <2>2. CASE UNCHANGED vars
    BY <2>2 DEF vars
  <2>3. QED BY <1>2, <2>1, <2>2 DEF Next
<1>3. QED BY <1>1, <1>2, Inductive, PTL DEF Spec, WindowSpec, Window!Spec
==========================================================================
