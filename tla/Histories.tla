---------------------------- MODULE Histories ----------------------------
(***************************************************************************)
(* Operators on one ValueHistory object (value-history.cpp): the samples   *)
(* of a graph, newest first, and the cached maximum that scales it.  A     *)
(* history is the record of the object's fields,                           *)
(*   [values, max_value, max_count, waits_remaining].                      *)
(* Samples are naturals, compared the way the code compares doubles.       *)
(***************************************************************************)
EXTENDS Integers, Sequences, FiniteSets

\* A sample that is not a number: DiskStatsMonitor::do_measure returns one when
\* the statistic is missing.  Monitor::measure() turns a negative sample into 0,
\* so -1 is free to stand for it.
NaN == -1

\* The comparisons a > b and a == b of doubles: false when either is NaN.
Exceeds(a, b) == a # NaN /\ b # NaN /\ a > b
Same(a, b) == a # NaN /\ a = b

\* std::count over a sequence.
Occurrences(values, m) == Cardinality({i \in DOMAIN values : Same(values[i], m)})

\* std::max_element of a non-empty sequence: NaN when the first element is NaN
\* (nothing compares greater than it), else the largest number.
MaxElement(values) ==
  IF values[1] = NaN
  THEN NaN
  ELSE CHOOSE m \in {values[i] : i \in DOMAIN values} :
         \A i \in DOMAIN values : values[i] <= m

NewHistory ==
  [values |-> <<>>, max_value |-> 0, max_count |-> 0, waits_remaining |-> 0]

(* Mutants: the samples enter at the wrong end. *)
MutPushBack(h, m) ==
  [h EXCEPT !.values = h.values \o <<m>>,
            !.max_value = IF Exceeds(m, h.max_value) THEN m ELSE h.max_value,
            !.max_count = IF Exceeds(m, h.max_value) THEN 1
                          ELSE IF Same(m, h.max_value) THEN h.max_count + 1
                          ELSE h.max_count]

\* The measurement m enters at the front: max_value and max_count follow it.
Push(h, m) ==
  [h EXCEPT !.values = <<m>> \o h.values,
            !.max_value = IF Exceeds(m, h.max_value) THEN m ELSE h.max_value,
            !.max_count = IF Exceeds(m, h.max_value) THEN 1
                          ELSE IF Same(m, h.max_value) THEN h.max_count + 1
                          ELSE h.max_count]

(* Mutants: the maximum outlives its last occurrence by one (max_count < 0); *)
(* the maximum is recomputed and its count is not.                           *)
MutPopLate(h) ==
  LET last == h.values[Len(h.values)]
      rest == SubSeq(h.values, 1, Len(h.values) - 1)
      left == IF Same(last, h.max_value) THEN h.max_count - 1 ELSE h.max_count
  IN  IF Same(last, h.max_value) /\ left < 0
      THEN [h EXCEPT !.values = rest, !.max_value = MaxElement(rest),
                     !.max_count = Occurrences(rest, MaxElement(rest))]
      ELSE [h EXCEPT !.values = rest, !.max_count = left]
MutPopNoCount(h) ==
  LET last == h.values[Len(h.values)]
      rest == SubSeq(h.values, 1, Len(h.values) - 1)
      left == IF Same(last, h.max_value) THEN h.max_count - 1 ELSE h.max_count
  IN  [h EXCEPT !.values = rest, !.max_count = left,
                !.max_value = IF Same(last, @) /\ left < 1 THEN MaxElement(rest) ELSE @]

\* One round of the trimming loop: the oldest sample leaves, and the maximum is
\* recomputed only when the last of its occurrences left.
PopBack(h) ==
  LET last == h.values[Len(h.values)]
      rest == SubSeq(h.values, 1, Len(h.values) - 1)
      left == IF Same(last, h.max_value) THEN h.max_count - 1 ELSE h.max_count
  IN  IF Same(last, h.max_value) /\ left < 1
      THEN [h EXCEPT !.values = rest,
                     !.max_value = MaxElement(rest),
                     !.max_count = Occurrences(rest, MaxElement(rest))]
      ELSE [h EXCEPT !.values = rest, !.max_count = left]

\* while (values.size() > max_samples) pop_back ...
Trim(h, max_samples) ==
  LET excess == IF Len(h.values) > max_samples THEN Len(h.values) - max_samples ELSE 0
      popped[k \in 0 .. excess] == IF k = 0 THEN h ELSE PopBack(popped[k - 1])
  IN  popped[excess]

\* Whether the next update measures: --waits_remaining <= 0.
Due(h) == h.waits_remaining - 1 <= 0

(* Mutant: waits_remaining is reset one too high. *)
MutUpdateLate(h, wait_iterations, max_samples, m) ==
  Trim(IF Due(h)
       THEN [Push(h, m) EXCEPT !.waits_remaining = wait_iterations + 1]
       ELSE [h EXCEPT !.waits_remaining = @ - 1],
       max_samples)

\* ValueHistory::update: m is what the monitor returns if it is asked.
Update(h, wait_iterations, max_samples, m) ==
  Trim(IF Due(h)
       THEN [Push(h, m) EXCEPT !.waits_remaining = wait_iterations]
       ELSE [h EXCEPT !.waits_remaining = @ - 1],
       max_samples)
--------------------------------------------------------------------------
\* The points a graph can show, and what get_max_value() promises of them.
Numbers(values) == {values[i] : i \in DOMAIN values} \ {NaN}
IsPeak(p, values) ==
  /\ \A x \in Numbers(values) : x <= p
  /\ Numbers(values) # {} => p \in Numbers(values)
==========================================================================
