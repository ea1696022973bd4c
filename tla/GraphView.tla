----------------------------- MODULE GraphView -----------------------------
(***************************************************************************)
(* The view of the plugin, of any of the six types, with the elements that *)
(* are attached to it: what an update does to an element, what a draw      *)
(* makes of it, and the common scale of the elements whose monitors are of *)
(* one type.  An element's "drawn" is what is on the screen: it is stale   *)
(* until the element is drawn again, and some elements rarely are.         *)
(*                                                                         *)
(* A sample is NaN or a natural other than Tiny, which stands for the      *)
(* 0.0000001 that replaces a maximum of 0.  A bar's level is in            *)
(* draw_iterations-ths.  Not here: load averages, whose maximum is a       *)
(* double, and files of which the changes are measured, not the numbers    *)
(* (module Meters has both).                                               *)
(***************************************************************************)
EXTENDS ViewTimers, Histories, Maxima, FiniteSetsExt, Functions

CONSTANTS
  Monitors,
  Type,          \* the class of a monitor
  Fixed,         \* the monitors whose maximum is fixed
  Rule,          \* what a monitor's maximum is
  Whole,         \* the maximum of a monitor that does not adapt it
  Wait,          \* update_interval() of a monitor / Plugin::update_interval
  Samples,       \* what a monitor can measure
  Kinds,         \* viewer types
  Rooms,         \* the samples a canvas has room for
  InOverlay,     \* the monitors with add_to_text_overlay
  Refuels,       \* values of a flame's next_refuel (5 .. 19 in the code)
  MaxAttached,   \* bound on the monitors at a time
  MaxChanges,    \* bound on what happens beside the timers
  None

Tiny == 1
Windows == {"curve", "column"}   \* the types that keep a history
Bars == {"bar", "vertical"}

ASSUME GraphAssumption ==
  /\ Kinds \subseteq Windows \cup Bars \cup {"flame", "text"}
  /\ Rooms \subseteq Nat \ {0} /\ Refuels \subseteq Nat
  /\ \A S \in {Monitors, Rooms, Refuels} : IsFiniteSet(S)
  /\ \A S \in {Rooms, Refuels} : S # {}
  /\ \A m \in Monitors :
       /\ Samples[m] \subseteq (Nat \ {Tiny}) \cup {NaN} /\ Samples[m] # {}
       /\ Rule[m] \in {"constant", "total", "highest", "gradual"}
       /\ Whole[m] \in Nat /\ Wait[m] \in Nat

VARIABLES
  kind,      \* the type of the view
  graphs,    \* the elements of the attached monitors
  load,      \* what each monitor would measure now
  value,     \* Monitor::value()
  top,       \* Monitor::max()
  room,      \* the samples the canvas has room for
  sync,      \* viewer_monitor_type_sync_enabled
  text,      \* viewer_text_overlay_enabled
  overlay,   \* the text overlay on the canvas
  tip,       \* the tooltip
  changes    \* what happened beside the timers

outside == <<load, room, sync, text, changes>>
vars == <<timers, kind, graphs, value, top, overlay, tip, outside>>
--------------------------------------------------------------------------
HasCanvas(k) == k # "text"
Positive(n) == IF n <= 0 THEN Tiny ELSE n

\* do_attach of each view; the colours are the subject of module Plugin.
NewWindow == [history |-> NewHistory, remaining |-> 0, drawn |-> None]
NewBar == [old |-> 0, new |-> 0, drawn |-> None]
NewFlame == [lit |-> FALSE, value |-> 0, max |-> 0, refuel |-> 0, drawn |-> None]
NewText == [drawn |-> None]
NewGraph(k) ==
  CASE k \in Windows -> NewWindow
    [] k \in Bars -> NewBar
    [] k = "flame" -> NewFlame
    [] k = "text" -> NewText

(* Update. *)

\* Whether the next update of monitor m's element measures.
Measures(m) == kind \in Windows => Due(graphs[m].history)

\* What do_measure() of a monitor that measures val makes of its maximum: that of a CPU is
\* 1; memory, swap and disk usage find the total; a sensor's is the highest value, that of
\* disk statistics, networks and files follows the values; a NaN is returned before.
NextTop(m, val) ==
  CASE Rule[m] = "constant" -> top[m]
    [] Rule[m] = "total" -> Whole[m]
    [] Rule[m] = "highest" -> IF m \notin Fixed /\ val > top[m] THEN val ELSE top[m]
    [] Rule[m] = "gradual" -> IF m \in Fixed \/ val = NaN THEN top[m] ELSE Follow(top[m], val, 1)

\* Monitor::measure() of every monitor whose element asks for it.
Measure ==
  /\ value' = [m \in DOMAIN graphs |-> IF Measures(m) THEN load[m] ELSE value[m]]
  /\ top' = [m \in DOMAIN graphs |-> IF Measures(m) THEN NextTop(m, load[m]) ELSE top[m]]

(* Mutant: the draws of a new sample are added to those that remain. *)
MutUpdatedWindow(graph, m) ==
  [graph EXCEPT !.history = Update(@, Wait[m], room, load[m]),
                !.remaining = IF Due(graph.history) THEN @ + DrawIterations ELSE @]

UpdatedWindow(graph, m) ==
  [graph EXCEPT !.history = Update(@, Wait[m], room, load[m]),
                !.remaining = IF Due(graph.history) THEN DrawIterations ELSE @]

UpdatedBar(graph, m) == [graph EXCEPT !.old = graph.new, !.new = value'[m]]
UpdatedFlame(graph, m) ==
  [graph EXCEPT !.lit = TRUE, !.value = value'[m], !.max = Positive(top'[m])]
UpdatedText(m) == [drawn |-> value'[m]]

Updated(m) ==
  CASE kind \in Windows -> UpdatedWindow(graphs[m], m)
    [] kind \in Bars -> UpdatedBar(graphs[m], m)
    [] kind = "flame" -> UpdatedFlame(graphs[m], m)
    [] kind = "text" -> UpdatedText(m)
--------------------------------------------------------------------------
(* Draw. *)

\* get_max_value() of monitor m's element.
BarPeak(m) == Positive(top[m])
Peak(m) ==
  CASE kind \in Windows -> graphs[m].history.max_value
    [] kind \in Bars -> BarPeak(m)
    [] kind = "flame" -> graphs[m].max

\* The elements that share a scale, "All the same" if types are not told apart.
Group(m) == IF sync THEN Type[m] ELSE None
Peers(m) == {other \in DOMAIN graphs : Group(other) = Group(m)}

(* Mutant: the maximum of the first element found stands for those of its type. *)
MutScale(m) ==
  LET normal == {Peak(other) : other \in Peers(m) \ Fixed} \ {NaN}
      fixed == {top[other] : other \in Peers(m) \cap Fixed}
  IN  IF normal \subseteq {0} THEN Max(fixed \cup {0}) ELSE Min(normal)

\* process_mon_maxes_text_overlay: the largest maximum of the group's elements whose
\* maximum is not fixed, but for those that are NaN; the largest fixed one if there are
\* none, or none above 0.
Scale(m) ==
  LET normal == {Peak(other) : other \in Peers(m) \ Fixed} \ {NaN}
      fixed == {top[other] : other \in Peers(m) \cap Fixed}
  IN  IF normal \subseteq {0} THEN Max(fixed \cup {0}) ELSE Max(normal)

\* Curve::draw, ColumnGraph::draw: a curve needs two points.
Enough(graph) == Len(graph.history.values) >= IF kind = "curve" THEN 2 ELSE 1
Picture(graph, m) ==
  [values |-> graph.history.values, room |-> room,
   scale |-> Positive(IF m \in Fixed THEN top[m] ELSE Scale(m)),
   peak |-> graph.history.max_value]   \* observed
DrawnWindow(graph, m) ==
  IF graph.remaining <= 0 THEN graph
  ELSE [graph EXCEPT !.remaining = @ - 1,
                     !.drawn = IF Enough(graph) THEN Picture(graph, m) ELSE @]

\* Bar::draw, between the old value and the new one.  Unlike a curve, a bar or flame is
\* drawn on the common scale even if its maximum is fixed ("not supposed to be scaled", says
\* canvas-view.cpp:182).  How many boxes int makes of a level that is NaN is undefined.
Level(old, new, n) ==
  IF NaN \in {old, new} THEN NaN ELSE old * (DrawIterations - n) + new * n
DrawnBar(graph, m) ==
  [graph EXCEPT !.drawn = [level |-> Level(graph.old, graph.new, draws),
                           scale |-> Positive(Scale(m))]]

(* Mutant: only a new fire is fuelled. *)
MutFuelled(graph, m, refuel) ==
  IF graph.drawn = None
  THEN [graph EXCEPT !.drawn = [value |-> graph.value, scale |-> Scale(m)],
                     !.refuel = refuel]
  ELSE graph

\* Flame::recompute_fuel: the fuel follows the value only now and then.
Fuelled(graph, m, refuel) ==
  IF graph.refuel <= 0
  THEN [graph EXCEPT !.drawn = [value |-> graph.value, scale |-> Scale(m)],
                     !.refuel = refuel]
  ELSE [graph EXCEPT !.refuel = @ - 1]

\* Flame::burn: not before the first update.
Burnt(graph, m, refuel) == IF graph.lit THEN Fuelled(graph, m, refuel) ELSE graph

Drawn(m, refuel) ==
  CASE kind \in Windows -> DrawnWindow(graphs[m], m)
    [] kind \in Bars -> DrawnBar(graphs[m], m)
    [] kind = "flame" -> Burnt(graphs[m], m, refuel)

\* The text overlay of each group: the scale and the values of the monitors to report.
Overlay ==
  IF ~ text THEN None
  ELSE {[values |-> [other \in Peers(m) \cap InOverlay |-> value[other]],
         max |-> IF Peers(m) \cap InOverlay = {} THEN None ELSE Scale(m)] :
          m \in DOMAIN graphs}
--------------------------------------------------------------------------
Attached(k, ms) == [m \in ms |-> NewGraph(k)]

\* Monitor::max() of a new monitor.
NewTop(m) == IF Rule[m] = "constant" \/ (m \in Fixed /\ Rule[m] # "total") THEN Whole[m] ELSE 0

Init ==
  /\ kind \in Kinds
  /\ \E ms \in SUBSET Monitors :
       /\ Cardinality(ms) = MaxAttached
       /\ graphs = Attached(kind, ms)
       /\ load \in {f \in [ms -> UNION {Samples[m] : m \in ms}] :
                      \A m \in ms : f[m] \in Samples[m]}
       /\ value = [m \in ms |-> 0] /\ top = [m \in ms |-> NewTop(m)]
  /\ room \in Rooms /\ sync = TRUE /\ text = FALSE
  /\ overlay = None /\ tip = <<>> /\ changes = 0
  /\ TimersInit(HasCanvas(kind))

\* Plugin::main_loop
MainLoop ==
  /\ FireUpdate
  /\ Measure
  /\ graphs' = [m \in DOMAIN graphs |-> Updated(m)]
  /\ tip' = [m \in DOMAIN graphs |-> value'[m]]
  /\ UNCHANGED <<kind, overlay, outside>>

\* CanvasView::draw_loop
DrawLoop ==
  /\ FireDraw
  /\ \E refuels \in [DOMAIN graphs -> IF kind = "flame" THEN Refuels ELSE {0}] :
       graphs' = [m \in DOMAIN graphs |-> Drawn(m, refuels[m])]
  /\ overlay' = Overlay
  /\ UNCHANGED <<kind, value, top, tip, outside>>

Sleep == Iterate /\ UNCHANGED <<kind, graphs, value, top, overlay, tip, outside>>

Happens == changes < MaxChanges /\ changes' = changes + 1

\* Plugin::viewer_type_listener, set_view: new elements for the monitors there are.
SwitchView ==
  /\ Happens
  /\ kind' \in Kinds \ {kind}
  /\ graphs' = Attached(kind', DOMAIN graphs)
  /\ Display(HasCanvas(kind'))
  /\ overlay' = None
  /\ UNCHANGED <<value, top, tip, load, room, sync, text>>

\* Plugin::add_monitor, remove_monitor
Attach(m) ==
  /\ Happens
  /\ m \notin DOMAIN graphs /\ Cardinality(DOMAIN graphs) < MaxAttached
  /\ LET With(f, new) == [p \in DOMAIN graphs \cup {m} |-> IF p = m THEN new ELSE f[p]]
     IN  /\ graphs' = With(graphs, NewGraph(kind)) /\ value' = With(value, 0)
         /\ top' = With(top, NewTop(m)) /\ \E n \in Samples[m] : load' = With(load, n)
  /\ UNCHANGED <<timers, kind, overlay, tip, room, sync, text>>
Detach(m) ==
  /\ Happens
  /\ m \in DOMAIN graphs
  /\ LET Others(f) == Restrict(f, DOMAIN graphs \ {m})
     IN  /\ graphs' = Others(graphs) /\ value' = Others(value)
         /\ top' = Others(top) /\ load' = Others(load)
  /\ UNCHANGED <<timers, kind, overlay, tip, room, sync, text>>

\* What is measured changes, the canvas is resized, an option is toggled.
Outside ==
  /\ Happens
  /\ \/ /\ \E m \in DOMAIN load : \E n \in Samples[m] : load' = [load EXCEPT ![m] = n]
        /\ UNCHANGED <<room, sync, text>>
     \/ room' \in Rooms /\ UNCHANGED <<load, sync, text>>
     \/ sync' = ~ sync /\ UNCHANGED <<load, room, text>>
     \/ text' = ~ text /\ UNCHANGED <<load, room, sync>>
  /\ UNCHANGED <<timers, kind, graphs, value, top, overlay, tip>>

Next ==
  \/ MainLoop
  \/ DrawLoop
  \/ Sleep
  \/ SwitchView
  \/ \E m \in Monitors : Attach(m) \/ Detach(m)
  \/ Outside

\* The main loop runs: it comes round again, and dispatches what is due.
Fairness == WF_vars(Sleep) /\ WF_vars(MainLoop) /\ WF_vars(DrawLoop)

Spec == Init /\ [][Next]_vars /\ Fairness
--------------------------------------------------------------------------
\* The timers have times within their intervals, elements belong to monitors of the view
\* and count within their bounds.
TypeOK ==
  /\ TimersOK /\ DOMAIN left = IF HasCanvas(kind) THEN Timers ELSE {"update"}
  /\ DOMAIN graphs \subseteq Monitors
  /\ \A m \in DOMAIN graphs :
       /\ kind \in Windows => /\ graphs[m].remaining \in 0 .. DrawIterations
                              /\ Len(graphs[m].history.values) <= Max(Rooms)
       /\ kind = "flame" => graphs[m].refuel \in 0 .. Max(Refuels)
  /\ DOMAIN value = DOMAIN graphs /\ top \in [DOMAIN graphs -> Nat]
  /\ \A m \in DOMAIN graphs : value[m] \in Samples[m] \cup {0}

\* A curve or column whose maximum is not fixed is drawn with room for all its numbers,
\* whatever elements come and go on its scale, as long as its history knows its own peak:
\* one that lost it to a NaN counts for nothing in the scale.  One whose maximum is fixed
\* is drawn on that, whatever the others need.
Framed ==
  kind \in Windows =>
    \A m \in DOMAIN graphs :
      LET d == graphs[m].drawn
      IN  d # None => IF m \in Fixed THEN d.scale = Positive(Whole[m])
                      ELSE d.peak # NaN => \A x \in Numbers(d.values) : x <= d.scale

\* Time and again every sample is drawn that a graph with enough of them took, although
\* graphs stop drawing themselves until there is a new one.
Undrawn(m) == graphs[m].remaining = DrawIterations /\ Enough(graphs[m])
SamplesDrawn == []<>(kind \in Windows => \A m \in DOMAIN graphs : ~ Undrawn(m))

\* Monitor m's element shows what m measures now, on the present scale and canvas.
UpToDate(m) ==
  LET graph == graphs[m]
  IN  CASE kind \in Windows -> graph.drawn = Picture(graph, m) /\ value[m] = load[m]
        [] kind \in Bars -> graph.drawn = [level |-> Level(load[m], load[m], 0),
                                           scale |-> Positive(Scale(m))]
        [] kind = "flame" -> graph.drawn = [value |-> load[m], scale |-> Scale(m)]
        [] kind = "text" -> graph.drawn = load[m]

\* The types that keep no scale of their own: under a steady load the maxima of their
\* monitors fall and rise for ever.
Adapting == kind \in Bars \cup {"flame"}

\* Once nothing but the timers happens any more (changes are bounded), all that is on the
\* screen comes to show what the monitors measure: curves, columns, texts and the tooltip
\* for good, the bars and flames and the overlay on a canvas of them time and again.
Settled ==
  /\ ~ Adapting => /\ \A m \in DOMAIN graphs : UpToDate(m)
                   /\ overlay = IF HasCanvas(kind) THEN Overlay ELSE None
  /\ tip = [m \in DOMAIN graphs |-> load[m]]
Converges ==
  /\ <>[]Settled
  /\ []<>(Adapting => overlay = Overlay)
  /\ \A m \in Monitors : []<>(Adapting /\ m \in DOMAIN graphs => UpToDate(m))
==========================================================================
