-------------------------- MODULE GraphView_proofs --------------------------
(***************************************************************************)
(* A view, for any intervals, monitors, samples and canvas sizes: the      *)
(* draws that come between two updates are counted right, however late the *)
(* main loop comes back; and a graph that knows its own peak has room for  *)
(* all it shows, whatever monitors share its scale.                        *)
(***************************************************************************)
EXTENDS GraphView, Foundations

\* Draws are DrawInterval apart: those since the last update, and the time the draw
\* timer has counted, fit into the time the update timer has counted.
DrawsFit ==
  "draw" \in DOMAIN left =>
    draws * DrawInterval <= (UpdateInterval - left["update"]) + left["draw"]

TimersInv == TimersOK /\ DrawsFit
--------------------------------------------------------------------------
\* So many intervals in less than one more than n of them are n at most.
LEMMA Fits ==
  ASSUME NEW d \in Nat, NEW n \in Nat, NEW i \in Nat \ {0}, d * i < (n + 1) * i
  PROVE  d <= n
<1> SUFFICES ASSUME d > n PROVE FALSE
  OBVIOUS
<1> DEFINE k == d - (n + 1)
<1>1. k \in Nat /\ d = n + 1 + k
  OBVIOUS
<1> HIDE DEF k
<1>2. d * i = (n + 1) * i + k * i
  BY <1>1
<1>3. k * i >= 0
  BY <1>1
<1>4. QED BY <1>2, <1>3

\* The same for a time that is not more than the update interval.
LEMMA FitsUpdate ==
  ASSUME NEW d \in Nat, d * DrawInterval < UpdateInterval + DrawInterval
  PROVE  d <= DrawIterations /\ d * DrawInterval <= UpdateInterval
<1>1. /\ DrawInterval \in Nat \ {0} /\ DrawIterations \in Nat
      /\ UpdateInterval = DrawIterations * DrawInterval
  BY TimersAssumption
<1>2. (DrawIterations + 1) * DrawInterval = UpdateInterval + DrawInterval
  BY <1>1
<1>3. d <= DrawIterations
  BY <1>1, <1>2, Fits
<1> DEFINE k == DrawIterations - d
<1>4. k \in Nat /\ DrawIterations = d + k
  BY <1>1, <1>3
<1> HIDE DEF k
<1>5. UpdateInterval = d * DrawInterval + k * DrawInterval
  BY <1>1, <1>4
<1>6. k * DrawInterval >= 0
  BY <1>1, <1>4
<1>7. d * DrawInterval \in Int /\ k * DrawInterval \in Int
  BY <1>1, <1>4
<1>8. QED BY <1>3, <1>5, <1>6, <1>7

LEMMA TimersInitially ==
  ASSUME NEW canvas \in BOOLEAN, TimersInit(canvas) PROVE TimersInv
<1>1. DrawInterval \in Nat /\ UpdateInterval \in Nat
  BY TimersAssumption
<1>2. DOMAIN left = {"update"} \cup (IF canvas THEN {"draw"} ELSE {})
      /\ left["update"] = 0 /\ ("draw" \in DOMAIN left => left["draw"] = DrawInterval)
  BY DEF TimersInit
<1>3. draws = 0 /\ first \in Timers
  BY DEF TimersInit, Timers
<1>4. TimersOK
  BY <1>1, <1>2, <1>3 DEF TimersOK, Timers
<1>5. draws * DrawInterval = 0
  BY <1>1, <1>3
<1>6. QED BY <1>1, <1>2, <1>4, <1>5 DEF TimersInv, DrawsFit

LEMMA DisplayKeepsTimers ==
  ASSUME TimersInv, NEW canvas \in BOOLEAN, Display(canvas) PROVE TimersInv'
<1>1. DrawInterval \in Nat /\ UpdateInterval \in Nat
  BY TimersAssumption
<1>2. DOMAIN left' = {"update"} \cup (IF canvas THEN {"draw"} ELSE {})
      /\ left'["update"] = left["update"]
      /\ ("draw" \in DOMAIN left' => left'["draw"] = DrawInterval)
  BY DEF Display
<1>3. draws' = 0 /\ first' \in Timers
  BY DEF Display, Timers
<1>4. left["update"] \in 0 .. UpdateInterval
  BY DEF TimersInv, TimersOK
<1>5. TimersOK'
  BY <1>1, <1>2, <1>3, <1>4 DEF TimersOK, Timers
<1>6. draws' * DrawInterval = 0
  BY <1>1, <1>3
<1>7. QED BY <1>1, <1>2, <1>4, <1>5, <1>6 DEF TimersInv, DrawsFit

LEMMA FireDrawKeepsTimers ==
  ASSUME TimersInv, FireDraw PROVE TimersInv' /\ draws <= DrawIterations
<1>1. DrawInterval \in Nat \ {0} /\ UpdateInterval \in Nat
  BY TimersAssumption
<1>2. TimersOK /\ DrawsFit
  BY DEF TimersInv
<1>3. "draw" \in DOMAIN left /\ left["draw"] = 0 /\ first' = first /\ draws' = draws + 1
  BY DEF FireDraw, Fire
<1>4. /\ DOMAIN left' = DOMAIN left /\ left'["update"] = left["update"]
      /\ left'["draw"] = DrawInterval
  BY <1>2, <1>3 DEF FireDraw, Fire, TimersOK
<1>5. draws \in Nat /\ left["update"] \in 0 .. UpdateInterval
  BY <1>2 DEF TimersOK
<1>6. TimersOK'
  BY <1>1, <1>2, <1>3, <1>4 DEF TimersOK
<1>7. draws * DrawInterval <= UpdateInterval - left["update"]
      /\ draws * DrawInterval \in Nat
  BY <1>1, <1>2, <1>3, <1>5 DEF DrawsFit
<1>8. draws' * DrawInterval = draws * DrawInterval + DrawInterval
  BY <1>1, <1>3, <1>5
<1>9. DrawsFit'
  BY <1>1, <1>4, <1>5, <1>7, <1>8 DEF DrawsFit
<1>10. draws <= DrawIterations
  BY <1>1, <1>5, <1>7, FitsUpdate
<1>11. QED BY <1>6, <1>9, <1>10 DEF TimersInv

LEMMA FireUpdateKeepsTimers ==
  ASSUME TimersInv, FireUpdate PROVE TimersInv'
<1>1. DrawInterval \in Nat \ {0} /\ UpdateInterval \in Nat
  BY TimersAssumption
<1>2. TimersOK /\ draws' = 0 /\ first' = first
  BY DEF TimersInv, FireUpdate, Fire
<1>3. /\ DOMAIN left' = DOMAIN left /\ left'["update"] = UpdateInterval
      /\ "draw" \in DOMAIN left => left'["draw"] = left["draw"]
  BY <1>2 DEF FireUpdate, Fire, TimersOK
<1>4. TimersOK'
  BY <1>1, <1>2, <1>3 DEF TimersOK
<1>5. draws' * DrawInterval = 0
  BY <1>1, <1>2
<1>6. "draw" \in DOMAIN left' => left'["draw"] \in 0 .. DrawInterval
  BY <1>4 DEF TimersOK
<1>7. DrawsFit'
  BY <1>1, <1>3, <1>5, <1>6 DEF DrawsFit
<1>8. QED BY <1>4, <1>7 DEF TimersInv

\* The main loop may come back so late that both timers are overdue: the time that is
\* clipped then is not missed, as the draws before it fit into an update interval.
LEMMA IterateKeepsTimers ==
  ASSUME TimersInv, Iterate PROVE TimersInv'
<1>1. DrawInterval \in Nat \ {0} /\ UpdateInterval \in Nat /\ MaxSleep \in Nat
  BY TimersAssumption
<1>2. TimersOK /\ DrawsFit /\ draws' = draws /\ first' = first
  BY DEF TimersInv, Iterate
<1>3. PICK e \in 1 .. MaxSleep :
        left' = [t \in DOMAIN left |-> IF left[t] > e THEN left[t] - e ELSE 0]
  BY DEF Iterate
<1>4. /\ DOMAIN left' = DOMAIN left
      /\ \A t \in DOMAIN left :
           left[t] > 0 /\ left'[t] = IF left[t] > e THEN left[t] - e ELSE 0
  BY <1>3 DEF Iterate
<1> DEFINE u == left["update"]
           w == left["draw"]
           fitting == draws * DrawInterval
<1>5. u \in 0 .. UpdateInterval /\ u > 0 /\ left'["update"] = IF u > e THEN u - e ELSE 0
  BY <1>2, <1>4 DEF TimersOK
<1>6. "draw" \in DOMAIN left =>
        w \in 0 .. DrawInterval /\ left'["draw"] = IF w > e THEN w - e ELSE 0
  BY <1>2, <1>4 DEF TimersOK
<1>7. TimersOK'
  <2>1. left'["update"] \in 0 .. UpdateInterval
    BY <1>1, <1>5
  <2>2. "draw" \in DOMAIN left => left'["draw"] \in 0 .. DrawInterval
    BY <1>1, <1>6
  <2>3. QED BY <1>2, <1>4, <2>1, <2>2 DEF TimersOK
<1>8. ASSUME "draw" \in DOMAIN left
      PROVE  fitting <= (UpdateInterval - left'["update"]) + left'["draw"]
  <2>1. draws \in Nat /\ fitting \in Nat /\ fitting <= (UpdateInterval - u) + w
    BY <1>1, <1>2, <1>8 DEF TimersOK, DrawsFit
  <2>2. w \in 0 .. DrawInterval /\ left'["draw"] = IF w > e THEN w - e ELSE 0
    BY <1>6, <1>8
  <2> HIDE DEF fitting, u, w
  <2>3. CASE u > e
    BY <1>1, <1>5, <2>1, <2>2, <2>3
  <2>4. CASE ~ (u > e)
    <3>1. fitting < UpdateInterval + DrawInterval
      BY <1>1, <1>5, <2>1, <2>2
    <3>2. fitting <= UpdateInterval
      BY <2>1, <3>1, FitsUpdate DEF fitting
    <3>3. QED BY <1>1, <1>5, <2>1, <2>2, <2>4, <3>2
  <2>5. QED BY <1>5, <2>3, <2>4
<1>9. QED BY <1>2, <1>4, <1>7, <1>8 DEF TimersInv, DrawsFit

LEMMA TimersStep == ASSUME TimersInv, [TimersNext]_timers PROVE TimersInv'
<1>1. CASE Iterate BY <1>1, IterateKeepsTimers
<1>2. CASE FireDraw BY <1>2, FireDrawKeepsTimers
<1>3. CASE FireUpdate BY <1>3, FireUpdateKeepsTimers
<1>4. CASE \E canvas \in BOOLEAN : Display(canvas) BY <1>4, DisplayKeepsTimers
<1>5. CASE UNCHANGED timers
  BY <1>5 DEF timers, TimersInv, TimersOK, DrawsFit
<1>6. QED BY <1>1, <1>2, <1>3, <1>4, <1>5 DEF TimersNext

LEMMA TimersEnough == ASSUME TimersInv PROVE OffsetAtMostOne
<1> SUFFICES ASSUME "draw" \in DOMAIN left, left["draw"] = 0 PROVE draws <= DrawIterations
  BY DEF OffsetAtMostOne
<1>1. DrawInterval \in Nat \ {0} /\ UpdateInterval \in Nat
  BY TimersAssumption
<1>2. draws \in Nat /\ left["update"] \in 0 .. UpdateInterval
  BY DEF TimersInv, TimersOK
<1>3. draws * DrawInterval <= UpdateInterval - left["update"] /\ draws * DrawInterval \in Nat
  BY <1>1, <1>2 DEF TimersInv, DrawsFit
<1>4. QED BY <1>1, <1>2, <1>3, FitsUpdate
--------------------------------------------------------------------------
\* The view does to the timers only what ViewTimers says: its detailed specification
\* implements that of the timers.
LEMMA ViewStepsTimers == ASSUME [Next]_vars PROVE [TimersNext]_timers
<1>1. CASE MainLoop BY <1>1 DEF MainLoop, TimersNext
<1>2. CASE DrawLoop BY <1>2 DEF DrawLoop, TimersNext
<1>3. CASE Sleep BY <1>3 DEF Sleep, TimersNext
<1>4. CASE SwitchView BY <1>4 DEF SwitchView, TimersNext, HasCanvas
<1>5. CASE \E m \in Monitors : Attach(m) \/ Detach(m)
  BY <1>5 DEF Attach, Detach
<1>6. CASE Outside BY <1>6 DEF Outside
<1>7. CASE UNCHANGED vars BY <1>7 DEF vars, timers
<1>8. QED BY <1>1, <1>2, <1>3, <1>4, <1>5, <1>6, <1>7 DEF Next

\* GraphView is an implementation of the timers of ViewTimers: main_loop, draw_loop and
\* whatever displays a view do nothing else to them.
THEOREM ImplementsTimers == Spec => TimersSpec
<1>1. Init => \E canvas \in BOOLEAN : TimersInit(canvas)
  BY DEF Init, HasCanvas
<1>2. [Next]_vars => [TimersNext]_timers
  BY ViewStepsTimers
<1>3. QED BY <1>1, <1>2, PTL DEF Spec, TimersSpec

\* However the main loop is delayed and the view switched, a view is never drawn more than
\* draw_iterations times between two updates before the draw that is due
\* (BarView::do_draw_loop counts them as the time offset of its bars).
THEOREM OffsetIsAtMostOne == Spec => []OffsetAtMostOne
<1>1. (\E canvas \in BOOLEAN : TimersInit(canvas)) => TimersInv
  BY TimersInitially
<1>2. TimersInv /\ [TimersNext]_timers => TimersInv'
  BY TimersStep
<1>3. TimersInv => OffsetAtMostOne
  BY TimersEnough
<1>4. QED BY <1>1, <1>2, <1>3, ImplementsTimers, PTL DEF TimersSpec
--------------------------------------------------------------------------
(* The elements of the view. *)

\* A window's history is sound and fits the canvas, and what is on the screen is framed.
PictureOK(d, m) ==
  IF m \in Fixed THEN d.scale = Positive(Whole[m])
  ELSE d.peak # NaN => \A x \in Numbers(d.values) : x <= d.scale
WindowOK(g, m) ==
  /\ DOMAIN g = {"history", "remaining", "drawn"}
  /\ g.history \in HistoryOf(Measurement) /\ SoundHistory(g.history)
  /\ Len(g.history.values) <= Max(Rooms)
  /\ g.remaining \in 0 .. DrawIterations
  /\ g.drawn # None => PictureOK(g.drawn, m)

FlameOK(g) ==
  /\ DOMAIN g = {"lit", "value", "max", "refuel", "drawn"}
  /\ g.refuel \in 0 .. Max(Refuels)

GraphOK(k, g, m) ==
  /\ k \in Windows => WindowOK(g, m)
  /\ k = "flame" => FlameOK(g)

\* What is measured, and what is kept of it.
MonitorsOK ==
  /\ DOMAIN graphs \in SUBSET Monitors
  /\ DOMAIN load = DOMAIN graphs /\ DOMAIN value = DOMAIN graphs
  /\ \A m \in DOMAIN graphs : load[m] \in Samples[m] /\ value[m] \in Samples[m] \cup {0}
  /\ top \in [DOMAIN graphs -> Nat]

\* A fixed maximum is known, unless the monitor has to measure for it and did not: then
\* its graph has nothing to draw.
TopKnown(m, k, g, t) ==
  m \in Fixed => t = Whole[m] \/ (Rule[m] = "total" /\ (k \in Windows => g.remaining = 0))
TopsOK == \A m \in DOMAIN graphs : TopKnown(m, kind, graphs[m], top[m])

ElementsOK == \A m \in DOMAIN graphs : GraphOK(kind, graphs[m], m)

\* The inductive invariant.
ViewInv ==
  /\ TimersInv
  /\ DOMAIN left = IF HasCanvas(kind) THEN Timers ELSE {"update"}
  /\ kind \in Kinds /\ room \in Rooms
  /\ MonitorsOK /\ TopsOK
  /\ ElementsOK
--------------------------------------------------------------------------
\* A finite set of naturals has a maximum: it is the range of a sequence.
LEMMA MaxOfFinite ==
  ASSUME NEW S \in SUBSET Nat, IsFiniteSet(S), S # {}
  PROVE  Max(S) \in S /\ \A y \in S : y <= Max(S)
<1>1. PICK n \in Nat : ExistsBijection(1 .. n, S)
  BY FS_NatBijection
<1>2. PICK f \in [1 .. n -> S] : \A y \in S : \E i \in 1 .. n : f[i] = y
  BY <1>1, Zenon DEF ExistsBijection, Bijection, Injection, Surjection
<1>3. f \in Seq(Measurement) /\ DOMAIN f = 1 .. n /\ f # <<>>
  <2>1. S \subseteq Measurement
    BY DEF Measurement
  <2>2. f \in [1 .. n -> Measurement]
    BY <1>2, <2>1
  <2>3. PICK y \in S : TRUE
    OBVIOUS
  <2>4. \E i \in 1 .. n : f[i] = y
    BY <1>2
  <2>5. f \in Seq(Measurement)
    BY <2>2, SeqDef, Zenon
  <2>6. DOMAIN f = 1 .. n
    BY <2>2
  <2>7. f # <<>>
    BY <2>4, <2>6
  <2>8. QED BY <2>5, <2>6, <2>7
<1>4. \A i \in 1 .. n : f[i] \in Nat /\ f[i] # NaN
  <2> SUFFICES ASSUME NEW i \in 1 .. n PROVE f[i] \in Nat /\ f[i] # NaN
    OBVIOUS
  <2>1. f[i] \in S
    BY <1>2
  <2>2. f[i] \in Nat
    BY <2>1
  <2>3. QED BY <2>2 DEF NaN
<1>5. MaxElement(f) # NaN /\ MaxElement(f) \in Numbers(f) /\ IsPeak(MaxElement(f), f)
  BY <1>3, <1>4, MaxElementPeak
<1>6. Numbers(f) = S
  BY <1>2, <1>3, <1>4 DEF Numbers
<1>7. \E x \in S : \A y \in S : x >= y
  BY <1>5, <1>6 DEF IsPeak
<1>8. Max(S) \in S /\ \A y \in S : Max(S) >= y
  BY <1>7 DEF Max
<1>9. QED BY <1>8

\* The bounds the constants give.
LEMMA Bounds ==
  /\ Rooms \in SUBSET (Nat \ {0}) /\ Refuels \in SUBSET Nat
  /\ IsFiniteSet(Monitors)
  /\ Max(Rooms) \in Nat /\ \A x \in Rooms : x <= Max(Rooms)
  /\ Max(Refuels) \in Nat /\ \A x \in Refuels : x \in 0 .. Max(Refuels)
  /\ DrawIterations \in Nat \ {0}
  /\ \A m \in Monitors : Wait[m] \in Int /\ Whole[m] \in Nat /\ Samples[m] \subseteq Measurement
<1>1. /\ Rooms \in SUBSET (Nat \ {0}) /\ Refuels \in SUBSET Nat
      /\ IsFiniteSet(Monitors) /\ IsFiniteSet(Rooms) /\ IsFiniteSet(Refuels)
      /\ Rooms # {} /\ Refuels # {}
      /\ \A m \in Monitors : /\ Wait[m] \in Int /\ Whole[m] \in Nat
                             /\ Samples[m] \subseteq Measurement
  BY GraphAssumption DEF Measurement
<1>2. /\ Max(Rooms) \in Rooms /\ \A y \in Rooms : y <= Max(Rooms)
  BY <1>1, MaxOfFinite
<1>3. /\ Max(Refuels) \in Refuels /\ \A y \in Refuels : y <= Max(Refuels)
  BY <1>1, MaxOfFinite
<1>4. (\A x \in Rooms : x \in Nat) /\ (\A x \in Refuels : x \in Nat)
  BY <1>1
<1>5. Max(Rooms) \in Nat /\ Max(Refuels) \in Nat /\ \A x \in Refuels : x \in 0 .. Max(Refuels)
  BY <1>2, <1>3, <1>4
<1>6. QED BY <1>1, <1>2, <1>5, TimersAssumption

\* A monitor's new element is one, whatever type the view is of.
LEMMA NewGraphOK == ASSUME NEW k \in Kinds, NEW m PROVE GraphOK(k, NewGraph(k), m)
<1>1. CASE k \in Windows
  <2>1. /\ NewHistory \in HistoryOf(Measurement) /\ SoundHistory(NewHistory)
        /\ Len(NewHistory.values) = 0
    BY NewHistorySound DEF NewHistory
  <2>2. WindowOK(NewWindow, m)
    BY <2>1, Bounds DEF WindowOK, NewWindow
  <2>3. NewGraph(k) = NewWindow /\ k # "flame"
    BY <1>1 DEF NewGraph, Windows, Bars
  <2>4. QED BY <2>2, <2>3 DEF GraphOK
<1>2. CASE k = "flame"
  <2>1. FlameOK(NewFlame)
    BY Bounds DEF FlameOK, NewFlame
  <2>2. NewGraph(k) = NewFlame /\ k \notin Windows
    BY <1>2 DEF NewGraph, Windows, Bars
  <2>3. QED BY <2>1, <2>2 DEF GraphOK
<1>3. CASE k \notin Windows /\ k # "flame"
  BY <1>3 DEF GraphOK
<1>4. QED BY <1>1, <1>2, <1>3

\* The maximum of a new monitor, and of one whose view is another.
LEMMA NewTopKnown ==
  ASSUME NEW m \in Monitors, NEW k
  PROVE  NewTop(m) \in Nat /\ TopKnown(m, k, NewGraph(k), NewTop(m))
<1>1. NewTop(m) \in Nat
  BY Bounds DEF NewTop
<1>2. CASE k \in Windows
  <2>1. NewGraph(k).remaining = 0
    BY <1>2 DEF NewGraph, NewWindow, Windows, Bars
  <2>2. QED BY <1>1, <2>1 DEF TopKnown, NewTop
<1>3. CASE k \notin Windows
  BY <1>1, <1>3 DEF TopKnown, NewTop
<1>4. QED BY <1>2, <1>3
--------------------------------------------------------------------------
\* An update.

LEMMA WindowTick ==
  ASSUME NEW h \in HistoryOf(Measurement), SoundHistory(h),
         NEW wait \in Int, NEW n \in Rooms, NEW x \in Measurement
  PROVE  LET t == Update(h, wait, n, x)
         IN  /\ t \in HistoryOf(Measurement) /\ SoundHistory(t)
             /\ Len(t.values) <= Max(Rooms)
<1> DEFINE t == Update(h, wait, n, x)
           w == IF Due(h) THEN <<x>> \o h.values ELSE h.values
<1>1. n \in Nat \ {0} /\ n <= Max(Rooms) /\ Max(Rooms) \in Nat
  BY Bounds
<1>2. /\ t \in HistoryOf(Measurement) /\ SoundHistory(t)
      /\ t.values = SubSeq(w, 1, IF Len(w) > n THEN n ELSE Len(w))
  <2>1. GoodUpdate(Measurement, h, wait, n, x)
    BY <1>1, UpdateSound
  <2>2. QED BY <2>1 DEF GoodUpdate
<1> HIDE DEF t
<1>3. Len(t.values) <= Max(Rooms)
  <2>1. h.values \in Seq(Measurement)
    BY DEF HistoryOf
  <2>2. w \in Seq(Measurement) /\ Len(w) \in Nat
    BY <2>1
  <2> HIDE DEF w
  <2>3. Len(t.values) = IF Len(w) > n THEN n ELSE Len(w)
    BY <1>1, <1>2, <2>2
  <2>4. QED BY <1>1, <2>2, <2>3
<1>4. QED BY <1>2, <1>3 DEF t

LEMMA UpdatedWindowOK ==
  ASSUME NEW m \in Monitors, NEW g, WindowOK(g, m), room \in Rooms, load[m] \in Samples[m]
  PROVE  /\ WindowOK(UpdatedWindow(g, m), m)
         /\ ~ Due(g.history) => UpdatedWindow(g, m).remaining = g.remaining
<1> DEFINE h == Update(g.history, Wait[m], room, load[m])
           u == UpdatedWindow(g, m)
<1>1. g.history \in HistoryOf(Measurement) /\ SoundHistory(g.history)
  BY DEF WindowOK
<1>2. Wait[m] \in Int /\ load[m] \in Measurement
  BY Bounds
<1>3. /\ h \in HistoryOf(Measurement) /\ SoundHistory(h)
      /\ Len(h.values) <= Max(Rooms)
  BY <1>1, <1>2, WindowTick
<1>4. /\ DOMAIN u = {"history", "remaining", "drawn"}
      /\ u.history = h /\ u.drawn = g.drawn
      /\ u.remaining = IF Due(g.history) THEN DrawIterations ELSE g.remaining
  BY DEF UpdatedWindow, WindowOK
<1>5. g.remaining \in 0 .. DrawIterations /\ (g.drawn # None => PictureOK(g.drawn, m))
  BY DEF WindowOK
<1>6. u.remaining \in 0 .. DrawIterations
  BY <1>4, <1>5, Bounds
<1> HIDE DEF h, u
<1>7. WindowOK(u, m)
  BY <1>3, <1>4, <1>5, <1>6 DEF WindowOK
<1>8. QED BY <1>4, <1>7 DEF u

\* A measurement leaves a maximum, and the one that is fixed.
LEMMA NextTopKnown ==
  ASSUME NEW m \in Monitors, NEW val \in Measurement, top[m] \in Nat
  PROVE  /\ NextTop(m, val) \in Nat
         /\ m \in Fixed /\ (top[m] = Whole[m] \/ Rule[m] = "total") => NextTop(m, val) = Whole[m]
<1>1. Rule[m] \in {"constant", "total", "highest", "gradual"} /\ Whole[m] \in Nat
  BY GraphAssumption
<1>2. CASE Rule[m] = "constant"
  BY <1>2 DEF NextTop
<1>3. CASE Rule[m] = "total"
  BY <1>1, <1>3 DEF NextTop
<1>4. CASE Rule[m] = "highest"
  <2>1. NextTop(m, val) = IF m \notin Fixed /\ val > top[m] THEN val ELSE top[m]
    BY <1>4 DEF NextTop
  <2>2. CASE val = NaN
    BY <1>4, <2>1, <2>2 DEF NaN
  <2>3. CASE val \in Nat
    BY <1>4, <2>1, <2>3
  <2>4. QED BY <2>2, <2>3 DEF Measurement
<1>5. CASE Rule[m] = "gradual"
  <2>1. NextTop(m, val) = IF m \in Fixed \/ val = NaN THEN top[m] ELSE Follow(top[m], val, 1)
    BY <1>5 DEF NextTop
  <2>2. CASE m \in Fixed \/ val = NaN
    BY <1>5, <2>1, <2>2
  <2>3. CASE m \notin Fixed /\ val # NaN
    <3>1. val \in Nat
      BY <2>3 DEF Measurement
    <3>2. Follow(top[m], val, 1) \in Nat
      BY <3>1 DEF Follow
    <3>3. QED BY <2>1, <2>3, <3>2
  <2>4. QED BY <2>2, <2>3
<1>6. QED BY <1>1, <1>2, <1>3, <1>4, <1>5

\* measure() of the monitors keeps what is known of them.
LEMMA MeasureKeepsMonitors ==
  ASSUME MonitorsOK, Measure, UNCHANGED load, DOMAIN graphs' = DOMAIN graphs
  PROVE  MonitorsOK'
<1>1. /\ DOMAIN graphs \in SUBSET Monitors
      /\ DOMAIN load = DOMAIN graphs
      /\ \A m \in DOMAIN graphs : load[m] \in Samples[m] /\ value[m] \in Samples[m] \cup {0}
      /\ top \in [DOMAIN graphs -> Nat]
  BY DEF MonitorsOK
<1>2. DOMAIN value' = DOMAIN graphs
      /\ \A m \in DOMAIN graphs : value'[m] \in Samples[m] \cup {0}
  BY <1>1 DEF Measure
<1>3. \A m \in DOMAIN graphs : NextTop(m, load[m]) \in Nat
  BY <1>1, Bounds, NextTopKnown
<1>4. top' \in [DOMAIN graphs -> Nat]
  BY <1>1, <1>3 DEF Measure
<1>5. QED BY <1>1, <1>2, <1>4 DEF MonitorsOK

\* Every element the plugin asks measures, but for the histories that wait.
LEMMA UpdatedOK ==
  ASSUME ViewInv, Measure, NEW m \in DOMAIN graphs
  PROVE  GraphOK(kind, Updated(m), m) /\ TopKnown(m, kind, Updated(m), top'[m])
<1>1. /\ m \in Monitors /\ load[m] \in Samples[m] /\ room \in Rooms
      /\ GraphOK(kind, graphs[m], m) /\ kind \in Kinds
      /\ TopKnown(m, kind, graphs[m], top[m]) /\ top[m] \in Nat
  BY DEF ViewInv, MonitorsOK, ElementsOK, TopsOK
<1>2. top'[m] = IF Measures(m) THEN NextTop(m, load[m]) ELSE top[m]
  BY DEF Measure
<1>3. Measures(m) => TopKnown(m, kind, Updated(m), top'[m])
  <2>1. load[m] \in Measurement
    BY <1>1, Bounds
  <2>2. m \in Fixed => top[m] = Whole[m] \/ Rule[m] = "total"
    BY <1>1 DEF TopKnown
  <2>3. m \in Fixed => NextTop(m, load[m]) = Whole[m]
    BY <1>1, <2>1, <2>2, NextTopKnown
  <2>4. QED BY <1>2, <2>3 DEF TopKnown
<1>4. CASE kind \in Windows
  <2>1. WindowOK(graphs[m], m)
    BY <1>1, <1>4 DEF GraphOK
  <2>2. /\ WindowOK(UpdatedWindow(graphs[m], m), m)
        /\ ~ Due(graphs[m].history)
             => UpdatedWindow(graphs[m], m).remaining = graphs[m].remaining
    BY <1>1, <2>1, UpdatedWindowOK
  <2>3. Updated(m) = UpdatedWindow(graphs[m], m) /\ kind # "flame"
    BY <1>4 DEF Updated, Windows, Bars
  <2>4. ~ Measures(m) => TopKnown(m, kind, Updated(m), top'[m])
    BY <1>1, <1>2, <1>4, <2>2, <2>3 DEF Measures, TopKnown
  <2>5. QED BY <1>3, <2>2, <2>3, <2>4 DEF GraphOK
<1>5. CASE kind \notin Windows
  <2>1. Measures(m)
    BY <1>5 DEF Measures
  <2>2. kind = "flame" => FlameOK(Updated(m))
    <3> SUFFICES ASSUME kind = "flame" PROVE FlameOK(Updated(m))
      OBVIOUS
    <3>1. Updated(m) = UpdatedFlame(graphs[m], m) /\ FlameOK(graphs[m])
      BY <1>1, <1>5 DEF Updated, GraphOK, Bars
    <3>2. QED BY <3>1 DEF FlameOK, UpdatedFlame
  <2>3. QED BY <1>3, <1>5, <2>1, <2>2 DEF GraphOK
<1>6. QED BY <1>4, <1>5
--------------------------------------------------------------------------
\* A draw.

LEMMA ImageFinite ==
  ASSUME NEW S, IsFiniteSet(S), NEW T,
         NEW f \in [S -> T], \A y \in T : \E x \in S : f[x] = y
  PROVE  IsFiniteSet(T)
<1>1. f \in Surjection(S, T)
  BY DEF Surjection
<1>2. QED BY <1>1, FS_Surjection

\* The common scale of a window that has no maximum of its own is not below its peak.
LEMMA ScaleCovers ==
  ASSUME ViewInv, kind \in Windows, NEW m \in DOMAIN graphs, m \notin Fixed,
         graphs[m].history.max_value # NaN
  PROVE  /\ graphs[m].history.max_value \in Nat /\ Positive(Scale(m)) \in Nat
         /\ graphs[m].history.max_value <= Positive(Scale(m))
<1> DEFINE free == Peers(m) \ Fixed
           bound == Peers(m) \cap Fixed
           peaks == {Peak(other) : other \in free}
           normal == peaks \ {NaN}
           fixed == {top[other] : other \in bound}
<1>1. /\ DOMAIN graphs \in SUBSET Monitors /\ IsFiniteSet(Monitors)
      /\ \A p \in DOMAIN graphs : top[p] \in Nat
      /\ \A p \in DOMAIN graphs : WindowOK(graphs[p], p)
  BY Bounds DEF ViewInv, MonitorsOK, ElementsOK, GraphOK
<1>2. \A p \in DOMAIN graphs : Peak(p) = graphs[p].history.max_value
                             /\ Peak(p) \in Nat \cup {NaN}
  <2> SUFFICES ASSUME NEW p \in DOMAIN graphs
               PROVE  Peak(p) = graphs[p].history.max_value /\ Peak(p) \in Nat \cup {NaN}
    OBVIOUS
  <2>1. graphs[p].history \in HistoryOf(Measurement)
    BY <1>1 DEF WindowOK
  <2>2. graphs[p].history.max_value \in Nat \cup {NaN}
    BY <2>1 DEF HistoryOf
  <2>3. Peak(p) = graphs[p].history.max_value
    BY DEF Peak, Windows, Bars
  <2>4. QED BY <2>2, <2>3
<1>3. Peers(m) \subseteq DOMAIN graphs /\ m \in free
  BY DEF Peers
<1>4. IsFiniteSet(free) /\ IsFiniteSet(bound)
  <2>1. free \subseteq Monitors /\ bound \subseteq Monitors
    BY <1>1, <1>3
  <2>2. QED BY <1>1, <2>1, FS_Subset
<1>5. IsFiniteSet(peaks) /\ IsFiniteSet(fixed)
  <2> DEFINE peak == [p \in free |-> Peak(p)]
             tops == [p \in bound |-> top[p]]
  <2>1. peak \in [free -> peaks] /\ \A y \in peaks : \E p \in free : peak[p] = y
    OBVIOUS
  <2>2. tops \in [bound -> fixed] /\ \A y \in fixed : \E p \in bound : tops[p] = y
    OBVIOUS
  <2> HIDE DEF peak, tops, free, bound, peaks, fixed
  <2>3. QED BY <1>4, <2>1, <2>2, ImageFinite
<1>6. IsFiniteSet(normal)
  <2>1. normal \subseteq peaks
    OBVIOUS
  <2>2. QED BY <1>5, <2>1, FS_Subset
<1>7. normal \in SUBSET Nat /\ Peak(m) \in normal
  BY <1>2, <1>3
<1>8. fixed \cup {0} \in SUBSET Nat /\ IsFiniteSet(fixed \cup {0})
  BY <1>1, <1>3, <1>5, FS_AddElement
<1>9. Scale(m) = IF normal \subseteq {0} THEN Max(fixed \cup {0}) ELSE Max(normal)
  BY DEF Scale
<1>10. graphs[m].history.max_value = Peak(m) /\ Peak(m) \in Nat
  BY <1>2, <1>7
<1> HIDE DEF free, bound, peaks, normal, fixed
<1>11. CASE normal \subseteq {0}
  <2>1. Max(fixed \cup {0}) \in fixed \cup {0}
    BY <1>8, MaxOfFinite
  <2>2. Max(fixed \cup {0}) \in Nat /\ Scale(m) = Max(fixed \cup {0})
    BY <1>8, <1>9, <1>11, <2>1
  <2>3. Peak(m) = 0
    BY <1>7, <1>11
  <2>4. QED BY <1>10, <2>2, <2>3 DEF Positive, Tiny
<1>12. CASE ~ (normal \subseteq {0})
  <2>1. normal # {}
    BY <1>7
  <2>2. Max(normal) \in normal /\ \A y \in normal : y <= Max(normal)
    BY <1>6, <1>7, <2>1, MaxOfFinite
  <2>3. Max(normal) \in Nat /\ Scale(m) = Max(normal) /\ Peak(m) <= Max(normal)
    BY <1>7, <1>9, <1>12, <2>2
  <2>4. QED BY <1>10, <2>3 DEF Positive, Tiny
<1>13. QED BY <1>11, <1>12

LEMMA DrawnWindowOK ==
  ASSUME ViewInv, kind \in Windows, NEW m \in DOMAIN graphs
  PROVE  /\ WindowOK(DrawnWindow(graphs[m], m), m)
         /\ TopKnown(m, kind, DrawnWindow(graphs[m], m), top[m])
<1> DEFINE g == graphs[m]
           d == DrawnWindow(g, m)
           picture == Picture(g, m)
<1>1. WindowOK(g, m) /\ m \in Monitors /\ TopKnown(m, kind, g, top[m])
  BY DEF ViewInv, MonitorsOK, ElementsOK, GraphOK, TopsOK
<1>2. picture.values = g.history.values /\ picture.peak = g.history.max_value
      /\ picture.scale = Positive(IF m \in Fixed THEN top[m] ELSE Scale(m))
  BY DEF Picture
<1>3. CASE g.remaining <= 0
  BY <1>1, <1>3 DEF DrawnWindow
<1>4. CASE ~ (g.remaining <= 0)
  <2>1. PictureOK(picture, m)
    <3>1. CASE m \in Fixed
      <4>1. top[m] = Whole[m]
        BY <1>1, <1>4, <3>1 DEF TopKnown
      <4>2. QED BY <1>2, <3>1, <4>1 DEF PictureOK
    <3>2. CASE m \notin Fixed
      <4> SUFFICES ASSUME g.history.max_value # NaN, NEW x \in Numbers(g.history.values)
                   PROVE  x <= picture.scale
        BY <1>2, <3>2 DEF PictureOK
      <4>1. g.history.max_value \in Nat /\ picture.scale \in Nat
            /\ g.history.max_value <= picture.scale
        BY <1>2, <3>2, ScaleCovers
      <4>2. x <= g.history.max_value
        BY <1>1 DEF WindowOK, SoundHistory, IsPeak
      <4>3. x \in Nat
        <5>1. g.history.values \in Seq(Measurement)
          BY <1>1 DEF WindowOK, HistoryOf
        <5>2. PICK i \in DOMAIN g.history.values : x = g.history.values[i] /\ x # NaN
          BY DEF Numbers
        <5>3. x \in Measurement
          BY <5>1, <5>2
        <5>4. QED BY <5>2, <5>3 DEF Measurement
      <4> HIDE DEF g, picture
      <4>4. QED BY <4>1, <4>2, <4>3
    <3>3. QED BY <3>1, <3>2
  <2>2. /\ DOMAIN d = {"history", "remaining", "drawn"}
        /\ d.history = g.history /\ d.remaining = g.remaining - 1
        /\ d.drawn = picture \/ d.drawn = g.drawn
    BY <1>1, <1>4 DEF DrawnWindow, WindowOK
  <2>3. d.remaining \in 0 .. DrawIterations
    BY <1>1, <1>4, <2>2, Bounds DEF WindowOK
  <2>4. d.drawn # None => PictureOK(d.drawn, m)
    BY <1>1, <2>1, <2>2 DEF WindowOK
  <2>5. TopKnown(m, kind, d, top[m])
    BY <1>1, <1>4 DEF TopKnown
  <2> HIDE DEF d, g, picture
  <2>6. WindowOK(d, m)
    BY <1>1, <2>2, <2>3, <2>4 DEF WindowOK
  <2>7. QED BY <2>5, <2>6 DEF d, g
<1>5. QED BY <1>3, <1>4

LEMMA BurntOK ==
  ASSUME NEW g, NEW m, FlameOK(g), NEW refuel \in Refuels
  PROVE  FlameOK(Burnt(g, m, refuel))
<1>1. refuel \in 0 .. Max(Refuels) /\ Max(Refuels) \in Nat
  BY Bounds
<1>2. FlameOK(Fuelled(g, m, refuel))
  BY <1>1 DEF FlameOK, Fuelled
<1>3. QED BY <1>2 DEF Burnt

\* No draw is without an element of its kind: a text has no canvas to be drawn on.
LEMMA DrawnOK ==
  ASSUME ViewInv, NEW m \in DOMAIN graphs,
         NEW refuel \in IF kind = "flame" THEN Refuels ELSE {0}
  PROVE  GraphOK(kind, Drawn(m, refuel), m) /\ TopKnown(m, kind, Drawn(m, refuel), top[m])
<1>1. GraphOK(kind, graphs[m], m) /\ TopKnown(m, kind, graphs[m], top[m])
  BY DEF ViewInv, ElementsOK, TopsOK
<1>2. CASE kind \in Windows
  <2>1. /\ WindowOK(DrawnWindow(graphs[m], m), m)
        /\ TopKnown(m, kind, DrawnWindow(graphs[m], m), top[m])
    BY <1>2, DrawnWindowOK
  <2>2. Drawn(m, refuel) = DrawnWindow(graphs[m], m) /\ kind # "flame"
    BY <1>2 DEF Drawn, Windows, Bars
  <2>3. QED BY <2>1, <2>2 DEF GraphOK
<1>3. CASE kind \notin Windows
  <2>1. TopKnown(m, kind, Drawn(m, refuel), top[m])
    BY <1>1, <1>3 DEF TopKnown
  <2>2. kind = "flame" => FlameOK(Drawn(m, refuel))
    <3> SUFFICES ASSUME kind = "flame" PROVE FlameOK(Drawn(m, refuel))
      OBVIOUS
    <3>1. Drawn(m, refuel) = Burnt(graphs[m], m, refuel) /\ FlameOK(graphs[m])
      BY <1>1, <1>3 DEF Drawn, GraphOK, Bars
    <3>2. FlameOK(Burnt(graphs[m], m, refuel))
      BY <3>1, BurntOK
    <3>3. QED BY <3>1, <3>2
  <2>3. QED BY <1>3, <2>1, <2>2 DEF GraphOK
<1>4. QED BY <1>2, <1>3
--------------------------------------------------------------------------
\* The invariant holds at the start and after every step.

LEMMA ViewInitially == ASSUME Init PROVE ViewInv
<1>1. kind \in Kinds /\ room \in Rooms /\ TimersInit(HasCanvas(kind))
  BY DEF Init
<1>2. PICK ms \in SUBSET Monitors :
        /\ graphs = [m \in ms |-> NewGraph(kind)]
        /\ DOMAIN load = ms /\ \A m \in ms : load[m] \in Samples[m]
        /\ value = [m \in ms |-> 0] /\ top = [m \in ms |-> NewTop(m)]
  BY DEF Init, Attached
<1>3. TimersInv
  BY <1>1, TimersInitially DEF HasCanvas
<1>4. DOMAIN left = IF HasCanvas(kind) THEN Timers ELSE {"update"}
  BY <1>1 DEF TimersInit, Timers
<1>5. \A m \in ms : NewTop(m) \in Nat /\ TopKnown(m, kind, NewGraph(kind), NewTop(m))
  BY NewTopKnown
<1>6. MonitorsOK /\ TopsOK
  BY <1>2, <1>5 DEF MonitorsOK, TopsOK
<1>7. ElementsOK
  BY <1>1, <1>2, NewGraphOK DEF ElementsOK
<1>8. QED BY <1>1, <1>3, <1>4, <1>6, <1>7 DEF ViewInv

LEMMA MainLoopKeeps == ASSUME ViewInv, MainLoop PROVE ViewInv'
<1>1. /\ FireUpdate /\ Measure /\ graphs' = [m \in DOMAIN graphs |-> Updated(m)]
      /\ kind' = kind /\ load' = load /\ room' = room
  BY DEF MainLoop, outside
<1>2. DOMAIN graphs' = DOMAIN graphs
  BY <1>1
<1>3. TimersInv' /\ DOMAIN left' = DOMAIN left
  BY <1>1, FireUpdateKeepsTimers DEF ViewInv, FireUpdate, Fire
<1>4. MonitorsOK'
  BY <1>1, <1>2, MeasureKeepsMonitors DEF ViewInv
<1>5. \A m \in DOMAIN graphs : /\ GraphOK(kind, Updated(m), m)
                               /\ TopKnown(m, kind, Updated(m), top'[m])
  BY <1>1, UpdatedOK
<1>6. ElementsOK' /\ TopsOK'
  <2>1. \A m \in DOMAIN graphs : /\ GraphOK(kind', graphs'[m], m)
                                 /\ TopKnown(m, kind', graphs'[m], top'[m])
    BY <1>1, <1>5
  <2>2. QED BY <1>2, <2>1 DEF ElementsOK, TopsOK
<1>7. QED BY <1>1, <1>3, <1>4, <1>6 DEF ViewInv, HasCanvas

LEMMA DrawLoopKeeps == ASSUME ViewInv, DrawLoop PROVE ViewInv'
<1>1. /\ FireDraw
      /\ kind' = kind /\ value' = value /\ top' = top /\ load' = load /\ room' = room
  BY DEF DrawLoop, outside
<1>2. PICK refuels \in [DOMAIN graphs -> IF kind = "flame" THEN Refuels ELSE {0}] :
        graphs' = [m \in DOMAIN graphs |-> Drawn(m, refuels[m])]
  BY DEF DrawLoop
<1>3. DOMAIN graphs' = DOMAIN graphs
  BY <1>2
<1>4. TimersInv' /\ DOMAIN left' = DOMAIN left
  BY <1>1, FireDrawKeepsTimers DEF ViewInv, FireDraw, Fire
<1>5. MonitorsOK'
  BY <1>1, <1>3 DEF ViewInv, MonitorsOK
<1>6. \A m \in DOMAIN graphs : /\ GraphOK(kind, Drawn(m, refuels[m]), m)
                               /\ TopKnown(m, kind, Drawn(m, refuels[m]), top[m])
  BY <1>2, DrawnOK
<1>7. ElementsOK' /\ TopsOK'
  <2>1. \A m \in DOMAIN graphs : /\ GraphOK(kind', graphs'[m], m)
                                 /\ TopKnown(m, kind', graphs'[m], top'[m])
    BY <1>1, <1>2, <1>6
  <2>2. QED BY <1>3, <2>1 DEF ElementsOK, TopsOK
<1>8. QED BY <1>1, <1>4, <1>5, <1>7 DEF ViewInv, HasCanvas

LEMMA SleepKeeps == ASSUME ViewInv, Sleep PROVE ViewInv'
<1>1. TimersInv' /\ DOMAIN left' = DOMAIN left
  BY IterateKeepsTimers DEF ViewInv, Sleep, Iterate
<1>2. QED BY <1>1 DEF Sleep, outside, ViewInv, MonitorsOK, TopsOK, ElementsOK, HasCanvas

LEMMA SwitchViewKeeps == ASSUME ViewInv, SwitchView PROVE ViewInv'
<1>1. /\ kind' \in Kinds /\ graphs' = [m \in DOMAIN graphs |-> NewGraph(kind')]
      /\ Display(HasCanvas(kind'))
      /\ value' = value /\ top' = top /\ load' = load /\ room' = room
  BY DEF SwitchView, Attached
<1>2. TimersInv'
  BY <1>1, DisplayKeepsTimers DEF ViewInv, HasCanvas
<1>3. DOMAIN left' = IF HasCanvas(kind') THEN Timers ELSE {"update"}
  BY <1>1 DEF Display, Timers
<1>4. MonitorsOK'
  BY <1>1 DEF ViewInv, MonitorsOK
<1>5. ElementsOK'
  BY <1>1, NewGraphOK DEF ElementsOK
<1>6. TopsOK'
  <2> SUFFICES ASSUME NEW m \in DOMAIN graphs
               PROVE  TopKnown(m, kind', NewGraph(kind'), top[m])
    BY <1>1 DEF TopsOK
  <2>1. TopKnown(m, kind, graphs[m], top[m])
    BY DEF ViewInv, TopsOK
  <2>2. kind' \in Windows => NewGraph(kind').remaining = 0
    BY DEF NewGraph, NewWindow, Windows, Bars
  <2>3. QED BY <2>1, <2>2 DEF TopKnown
<1>7. QED BY <1>1, <1>2, <1>3, <1>4, <1>5, <1>6 DEF ViewInv, HasCanvas

\* A step that leaves the timers and the view's type alone.
LEMMA ElementsStep ==
  ASSUME ViewInv, MonitorsOK', TopsOK', ElementsOK', room' \in Rooms, UNCHANGED <<timers, kind>>
  PROVE  ViewInv'
<1>1. TimersInv'
  BY DEF ViewInv, timers, TimersInv, TimersOK, DrawsFit
<1>2. QED BY <1>1 DEF ViewInv, timers, HasCanvas

LEMMA AttachKeeps == ASSUME ViewInv, NEW m \in Monitors, Attach(m) PROVE ViewInv'
<1> DEFINE D == DOMAIN graphs \cup {m}
<1>1. PICK n \in Samples[m] : load' = [p \in D |-> IF p = m THEN n ELSE load[p]]
  BY DEF Attach
<1>2. /\ m \notin DOMAIN graphs
      /\ graphs' = [p \in D |-> IF p = m THEN NewGraph(kind) ELSE graphs[p]]
      /\ value' = [p \in D |-> IF p = m THEN 0 ELSE value[p]]
      /\ top' = [p \in D |-> IF p = m THEN NewTop(m) ELSE top[p]]
      /\ kind' = kind /\ room' = room /\ UNCHANGED timers
  BY DEF Attach
<1>3. /\ DOMAIN graphs \in SUBSET Monitors
      /\ \A p \in DOMAIN graphs : load[p] \in Samples[p] /\ value[p] \in Samples[p] \cup {0}
      /\ top \in [DOMAIN graphs -> Nat]
      /\ \A p \in DOMAIN graphs : /\ GraphOK(kind, graphs[p], p)
                                   /\ TopKnown(p, kind, graphs[p], top[p])
      /\ kind \in Kinds /\ room \in Rooms
  BY DEF ViewInv, MonitorsOK, ElementsOK, TopsOK
<1>4. NewTop(m) \in Nat /\ TopKnown(m, kind, NewGraph(kind), NewTop(m))
  BY NewTopKnown
<1>5. MonitorsOK'
  <2>1. \A p \in D : load'[p] \in Samples[p] /\ value'[p] \in Samples[p] \cup {0}
    BY <1>1, <1>2, <1>3
  <2>2. top' \in [D -> Nat]
    BY <1>2, <1>3, <1>4
  <2>3. QED BY <1>1, <1>2, <1>3, <2>1, <2>2 DEF MonitorsOK
<1>6. GraphOK(kind, NewGraph(kind), m)
  BY <1>3, NewGraphOK
<1>7. \A p \in D : GraphOK(kind', graphs'[p], p) /\ TopKnown(p, kind', graphs'[p], top'[p])
  BY <1>2, <1>3, <1>4, <1>6
<1>8. ElementsOK' /\ TopsOK'
  BY <1>2, <1>7 DEF ElementsOK, TopsOK
<1>9. QED BY <1>2, <1>3, <1>5, <1>8, ElementsStep

LEMMA DetachKeeps == ASSUME ViewInv, NEW m \in Monitors, Detach(m) PROVE ViewInv'
<1> DEFINE D == DOMAIN graphs \ {m}
<1>1. /\ graphs' = [p \in D |-> graphs[p]] /\ value' = [p \in D |-> value[p]]
      /\ top' = [p \in D |-> top[p]] /\ load' = [p \in D |-> load[p]]
      /\ kind' = kind /\ room' = room /\ UNCHANGED timers
  BY DEF Detach, Restrict
<1>2. DOMAIN graphs' = D
  BY <1>1
<1>3. MonitorsOK'
  BY <1>1, <1>2 DEF ViewInv, MonitorsOK
<1>4. ElementsOK' /\ TopsOK'
  BY <1>1, <1>2 DEF ViewInv, ElementsOK, TopsOK
<1>5. room' \in Rooms
  BY <1>1 DEF ViewInv
<1>6. QED BY <1>1, <1>3, <1>4, <1>5, ElementsStep

LEMMA OutsideKeeps == ASSUME ViewInv, Outside PROVE ViewInv'
<1>1. UNCHANGED <<timers, kind, graphs, value, top>>
  BY DEF Outside
<1>2. DOMAIN load' = DOMAIN graphs /\ \A m \in DOMAIN graphs : load'[m] \in Samples[m]
  BY DEF Outside, ViewInv, MonitorsOK
<1>3. room' \in Rooms
  BY DEF Outside, ViewInv
<1>4. MonitorsOK'
  BY <1>1, <1>2 DEF ViewInv, MonitorsOK
<1>5. ElementsOK' /\ TopsOK'
  BY <1>1 DEF ViewInv, ElementsOK, TopsOK
<1>6. QED BY <1>1, <1>3, <1>4, <1>5, ElementsStep

LEMMA ViewStep == ASSUME ViewInv, [Next]_vars PROVE ViewInv'
<1>1. CASE MainLoop BY <1>1, MainLoopKeeps
<1>2. CASE DrawLoop BY <1>2, DrawLoopKeeps
<1>3. CASE Sleep BY <1>3, SleepKeeps
<1>4. CASE SwitchView BY <1>4, SwitchViewKeeps
<1>5. CASE \E m \in Monitors : Attach(m) \/ Detach(m) BY <1>5, AttachKeeps, DetachKeeps
<1>6. CASE Outside BY <1>6, OutsideKeeps
<1>7. CASE UNCHANGED vars
  <2>1. UNCHANGED <<timers, kind, graphs, value, top, load, room>>
    BY <1>7 DEF vars, outside
  <2>2. MonitorsOK' /\ TopsOK' /\ ElementsOK' /\ room' \in Rooms
    BY <2>1 DEF ViewInv, MonitorsOK, TopsOK, ElementsOK
  <2>3. QED BY <2>1, <2>2, ElementsStep
<1>8. QED BY <1>1, <1>2, <1>3, <1>4, <1>5, <1>6, <1>7 DEF Next

LEMMA ViewAlways == Spec => []ViewInv
<1>1. Init => ViewInv
  BY ViewInitially
<1>2. ViewInv /\ [Next]_vars => ViewInv'
  BY ViewStep
<1>3. QED BY <1>1, <1>2, PTL DEF Spec

\* Timers, elements and monitors keep their types and counts, for any monitors, samples,
\* canvas sizes and intervals, while monitors come and go and the view is switched.
THEOREM TypeCorrect == Spec => []TypeOK
<1>1. ViewInv => TypeOK
  <2> SUFFICES ASSUME ViewInv PROVE TypeOK
    OBVIOUS
  <2>1. TimersOK /\ DOMAIN left = IF HasCanvas(kind) THEN Timers ELSE {"update"}
    BY DEF ViewInv, TimersInv
  <2>2. /\ DOMAIN graphs \subseteq Monitors
        /\ DOMAIN value = DOMAIN graphs /\ top \in [DOMAIN graphs -> Nat]
        /\ \A m \in DOMAIN graphs : value[m] \in Samples[m] \cup {0}
    BY DEF ViewInv, MonitorsOK
  <2>3. \A m \in DOMAIN graphs :
          /\ kind \in Windows => /\ graphs[m].remaining \in 0 .. DrawIterations
                                 /\ Len(graphs[m].history.values) <= Max(Rooms)
          /\ kind = "flame" => graphs[m].refuel \in 0 .. Max(Refuels)
    BY DEF ViewInv, ElementsOK, GraphOK, WindowOK, FlameOK
  <2>4. QED BY <2>1, <2>2, <2>3 DEF TypeOK
<1>2. QED BY <1>1, ViewAlways, PTL

\* What Curve::draw and ColumnGraph::draw put on the screen of a monitor without a fixed
\* maximum has room for all its numbers as long as its history knows its own peak, for any
\* number of monitors that share a scale, the ones that lost theirs to a NaN among them,
\* and however stale the picture has become; with a fixed maximum, that is its scale.
THEOREM AllFramed == Spec => []Framed
<1>1. ViewInv => Framed
  BY DEF ViewInv, ElementsOK, GraphOK, WindowOK, PictureOK, Framed
<1>2. QED BY <1>1, ViewAlways, PTL
==========================================================================
