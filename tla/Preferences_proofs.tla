------------------------- MODULE Preferences_proofs -------------------------
(***************************************************************************)
(* For any monitors, colours and viewer types, and however many there are: *)
(* the rows of the preferences window are the plugin's monitors, these are *)
(* the ones that are not deleted, and a handler that waits for the chooser *)
(* dialog finds its monitor and its row where it left them.                *)
(***************************************************************************)
EXTENDS Preferences, Foundations

\* The plugin's list has no repetitions and holds what is not deleted.
ListOK ==
  /\ monitors \in Seq(Monitor) /\ IsInjective(monitors)
  /\ alive \subseteq Monitor /\ Range(monitors) = alive

\* A window that can be seen lists them, and so does one that is hidden; its selection
\* is a place in the list.
RowsOK ==
  /\ (rows = None /\ selected = 0) \/ rows = monitors
  /\ shown => rows = monitors
  /\ ~ up => rows = None /\ ~ shown /\ selected = 0
  /\ selected # 0 => selected \in DOMAIN monitors

\* What a handler that waits remembers.
Remembers(d) ==
  /\ up /\ rows = monitors
  /\ d.row # 0 => d.row \in DOMAIN monitors /\ monitors[d.row] = d.prev
DialogOK == dialog # None => dialog.gone \/ Remembers(dialog)

IInv == ListOK /\ RowsOK /\ DialogOK
--------------------------------------------------------------------------
LEMMA InitIInv == ASSUME Init PROVE IInv
<1>1. monitors = <<>> /\ alive = {} /\ rows = None /\ selected = 0 /\ ~ shown /\ dialog = None
  BY DEF Init
<1>2. ListOK
  BY <1>1 DEF ListOK, IsInjective, Range
<1>3. QED BY <1>1, <1>2 DEF IInv, RowsOK, DialogOK

\* The invariant mentions nothing else.
LEMMA Unseen ==
  ASSUME IInv, UNCHANGED <<up, monitors, alive, rows>>, dialog' \in {dialog, None},
         up \/ UNCHANGED <<shown, selected>>, rows = monitors \/ selected' = selected,
         shown' => shown, selected' # 0 => selected' \in DOMAIN monitors
  PROVE  IInv'
<1>1. ListOK' /\ RowsOK'
  BY DEF IInv, ListOK, RowsOK
<1>2. DialogOK'
  BY DEF IInv, DialogOK, Remembers
<1>3. QED BY <1>1, <1>2 DEF IInv

LEMMA AbandonedGone == Abandoned # None => Abandoned.gone
BY DEF Abandoned

LEMMA StartKeeps == ASSUME IInv, Start PROVE IInv'
<1>1. PICK m \in Monitor : monitors' = <<m>> /\ alive' = {m}
  BY DEF Start
<1>2. /\ ~ up /\ dialog = None /\ dialog' = dialog /\ up' = TRUE
      /\ rows' = rows /\ shown' = shown /\ selected' = selected
  BY DEF Start
<1>3. ListOK'
  BY <1>1 DEF ListOK, IsInjective, Range
<1>4. RowsOK'
  <2>1. rows = None /\ ~ shown /\ selected = 0
    BY <1>2 DEF IInv, RowsOK
  <2>2. QED BY <1>2, <2>1 DEF RowsOK
<1>5. QED BY <1>2, <1>3, <1>4 DEF IInv, DialogOK

\* A new window: a handler that waits has lost its own.
LEMMA ConfigureKeeps == ASSUME IInv, Configure PROVE IInv'
<1>1. /\ up /\ rows' = monitors /\ selected' = 0 /\ dialog' = Abandoned
      /\ up' = up /\ monitors' = monitors /\ alive' = alive
  BY DEF Configure
<1>2. ListOK' /\ RowsOK'
  BY <1>1 DEF IInv, ListOK, RowsOK
<1>3. dialog' # None => dialog'.gone
  BY <1>1, AbandonedGone
<1>4. QED BY <1>2, <1>3 DEF IInv, DialogOK

\* The monitors are deleted, and the window with them.
LEMMA EndKeeps ==
  ASSUME IInv, ~ up', monitors' = <<>>, alive' = {}, ~ shown', rows' = None, selected' = 0,
         dialog' # None => dialog'.gone
  PROVE  IInv'
<1>1. ListOK'
  BY DEF ListOK, IsInjective, Range
<1>2. QED BY <1>1 DEF IInv, RowsOK, DialogOK

\* The row and the plugin's monitor that are removed are the same.
LEMMA RemoveKeeps == ASSUME IInv, RemoveMonitor PROVE IInv'
<1>1. /\ up /\ shown /\ dialog = None /\ dialog' = dialog /\ selected # 0 /\ selected' = 0
      /\ alive' = alive \ {rows[selected]} /\ rows' = RemoveAt(rows, selected)
      /\ up' = up /\ shown' = shown
  BY DEF RemoveMonitor, Operable
<1>2. PICK k \in DOMAIN monitors :
        monitors[k] = rows[selected] /\ monitors' = RemoveAt(monitors, k)
  BY DEF RemoveMonitor
<1>3. rows = monitors /\ selected \in DOMAIN monitors
  BY <1>1 DEF IInv, RowsOK
<1>4. monitors \in Seq(Monitor) /\ IsInjective(monitors) /\ alive \subseteq Monitor
      /\ Range(monitors) = alive
  BY DEF IInv, ListOK
<1>5. k = selected
  BY <1>2, <1>3, <1>4 DEF IsInjective
<1>6. /\ RemoveAt(monitors, k) \in Seq(Monitor) /\ IsInjective(RemoveAt(monitors, k))
      /\ Range(RemoveAt(monitors, k)) = Range(monitors) \ {monitors[k]}
  BY <1>4, RemoveOne
<1>7. ListOK'
  BY <1>1, <1>2, <1>4, <1>6 DEF ListOK
<1>8. RowsOK'
  BY <1>1, <1>2, <1>3, <1>5 DEF RowsOK
<1>9. QED BY <1>1, <1>7, <1>8 DEF IInv, DialogOK

LEMMA PressKeeps == ASSUME IInv, PressAdd \/ PressChange PROVE IInv'
<1>1. /\ up /\ shown
      /\ UNCHANGED <<up, monitors, alive, shown, rows, selected>>
      /\ \/ dialog' = Waiting(0, None)
         \/ selected # 0 /\ dialog' = Waiting(selected, rows[selected])
  BY DEF PressAdd, PressChange, Operable
<1>2. rows = monitors /\ (selected # 0 => selected \in DOMAIN monitors)
  BY <1>1 DEF IInv, RowsOK
<1>3. \/ dialog'.row = 0
      \/ selected # 0 /\ dialog'.row = selected /\ dialog'.prev = monitors[selected]
  BY <1>1, <1>2 DEF Waiting
<1>4. DialogOK'
  BY <1>1, <1>2, <1>3 DEF DialogOK, Remembers
<1>5. QED BY <1>1, <1>4 DEF IInv, ListOK, RowsOK

LEMMA OkAddKeeps == ASSUME IInv, NEW mon \in Monitor, OkAdd(mon) PROVE IInv'
<1>1. /\ dialog # None /\ ~ dialog.gone /\ dialog' = None
      /\ mon \notin alive /\ alive' = alive \cup {mon}
      /\ monitors' = Append(monitors, mon) /\ rows' = Append(rows, mon)
      /\ selected' = Len(rows') /\ up' = up /\ shown' = shown
  BY DEF OkAdd
<1>2. rows = monitors
  BY <1>1 DEF IInv, DialogOK, Remembers
<1>3. monitors \in Seq(Monitor) /\ IsInjective(monitors) /\ alive \subseteq Monitor
      /\ Range(monitors) = alive
  BY DEF IInv, ListOK
<1>4. IsInjective(Append(monitors, mon))
      /\ Range(Append(monitors, mon)) = Range(monitors) \cup {mon}
  BY <1>1, <1>3, AppendFresh
<1>5. ListOK'
  BY <1>1, <1>3, <1>4 DEF ListOK
<1>6. selected' \in DOMAIN monitors'
  BY <1>1, <1>2, <1>3
<1>7. up
  BY <1>1 DEF IInv, DialogOK, Remembers
<1>8. RowsOK'
  BY <1>1, <1>2, <1>6, <1>7 DEF RowsOK
<1>9. QED BY <1>1, <1>5, <1>8 DEF IInv, DialogOK

\* The new monitor takes the place of the one that is remembered, in both lists.
LEMMA OkChangeKeeps == ASSUME IInv, NEW mon \in Monitor, OkChange(mon) PROVE IInv'
<1>1. /\ dialog # None /\ ~ dialog.gone /\ dialog.row # 0 /\ dialog' = None
      /\ mon \notin alive /\ alive' = (alive \cup {mon}) \ {dialog.prev}
      /\ rows' = [rows EXCEPT ![dialog.row] = mon]
      /\ up' = up /\ shown' = shown /\ selected' = selected
  BY DEF OkChange
<1>2. PICK k \in DOMAIN monitors :
        monitors[k] = dialog.prev /\ monitors' = Put(monitors, k, mon)
  BY DEF OkChange, Put
<1>3. /\ up /\ rows = monitors
      /\ dialog.row \in DOMAIN monitors /\ monitors[dialog.row] = dialog.prev
  BY <1>1 DEF IInv, DialogOK, Remembers
<1>4. monitors \in Seq(Monitor) /\ IsInjective(monitors) /\ alive \subseteq Monitor
      /\ Range(monitors) = alive
  BY DEF IInv, ListOK
<1>5. k = dialog.row
  BY <1>2, <1>3, <1>4 DEF IsInjective
<1>6. rows' = monitors'
  BY <1>1, <1>2, <1>3, <1>5 DEF Put
<1>7. /\ Put(monitors, k, mon) \in Seq(Monitor) /\ IsInjective(Put(monitors, k, mon))
      /\ Range(Put(monitors, k, mon)) = (Range(monitors) \ {monitors[k]}) \cup {mon}
  BY <1>1, <1>4, ReplaceOne
<1>8. dialog.prev \in alive
  BY <1>2, <1>4 DEF Range
<1>9. alive' = (Range(monitors) \ {monitors[k]}) \cup {mon}
  BY <1>1, <1>2, <1>4, <1>8
<1>10. ListOK'
  BY <1>1, <1>2, <1>4, <1>7, <1>8, <1>9 DEF ListOK
<1>11. DOMAIN monitors' = DOMAIN monitors
  BY <1>2 DEF Put
<1>12. RowsOK'
  BY <1>1, <1>3, <1>6, <1>11 DEF IInv, RowsOK
<1>13. QED BY <1>1, <1>10, <1>12 DEF IInv, DialogOK

LEMMA StepIInv == ASSUME IInv, [Next]_vars PROVE IInv'
<1>1. CASE Start BY <1>1, StartKeeps
<1>2. CASE Configure BY <1>2, ConfigureKeeps
<1>3. CASE FreeData
  BY <1>3, EndKeeps, AbandonedGone DEF FreeData
<1>4. CASE OkGone
  BY <1>4, EndKeeps DEF OkGone
<1>5. CASE RemoveMonitor BY <1>5, RemoveKeeps
<1>6. CASE PressAdd \/ PressChange BY <1>6, PressKeeps
<1>7. CASE \E m \in Monitor : OkAdd(m) \/ OkChange(m)
  BY <1>7, OkAddKeeps, OkChangeKeeps
<1>8. selected # 0 => selected \in DOMAIN monitors
  BY DEF IInv, RowsOK
<1>9. CASE Close \/ (\E t \in Graphs : SwitchViewer(t)) \/ (\E c \in Picked : Recolor(c))
  BY <1>8, <1>9, Unseen DEF Close, SwitchViewer, Recolor, Operable
<1>10. CASE Cancel
  BY <1>8, <1>10, Unseen DEF Cancel
<1>11. CASE \E i \in IF rows = None THEN {} ELSE DOMAIN rows : Select(i)
  <2>1. PICK i \in DOMAIN rows : Select(i)
    BY <1>11
  <2>2. up /\ shown /\ rows = monitors
    BY <2>1 DEF Select, Operable, IInv, RowsOK
  <2>3. QED BY <2>1, <2>2, Unseen DEF Select
<1>12. CASE UNCHANGED vars
  BY <1>8, <1>12, Unseen DEF vars
<1>13. QED
  BY <1>1, <1>2, <1>3, <1>4, <1>5, <1>6, <1>7, <1>9, <1>10, <1>11, <1>12 DEF Next

LEMMA Always == Spec => []IInv
<1>1. Init => IInv
  BY InitIInv
<1>2. IInv /\ [Next]_vars => IInv'
  BY StepIInv
<1>3. QED BY <1>1, <1>2, PTL DEF Spec
--------------------------------------------------------------------------
\* The rows of the preferences window are Plugin::monitors, for any number of monitors:
\* add, change and remove reach both, whatever happened while a dialog was up.
THEOREM ListShowsMonitors == Spec => []RowsAreMonitors
<1>1. IInv => RowsAreMonitors
  BY DEF IInv, RowsOK, RowsAreMonitors
<1>2. QED BY <1>1, Always, PTL

\* At every point where the main loop can run, the monitors that the timers reach through
\* the plugin's list, those of the rows, and the one that a waiting handler is to change
\* are not deleted; only a handler whose window has gone may hold one that is.
THEOREM AllAlive == Spec => []MonitorsAlive
<1>1. ASSUME IInv PROVE MonitorsAlive
  <2>1. Range(monitors) = alive /\ (rows # None => rows = monitors)
    BY <1>1 DEF IInv, ListOK, RowsOK
  <2>2. ASSUME dialog # None, ~ dialog.gone, dialog.row # 0 PROVE dialog.prev \in alive
    <3>1. dialog.row \in DOMAIN monitors /\ monitors[dialog.row] = dialog.prev
      BY <1>1, <2>2 DEF IInv, DialogOK, Remembers
    <3>2. QED BY <2>1, <3>1 DEF Range
  <2>3. QED BY <2>1, <2>2 DEF MonitorsAlive
<1>2. QED BY <1>1, Always, PTL

\* When the chooser dialog is answered, on_change_button_clicked goes on with a monitor
\* the plugin still has and the row that shows it, unless its window has gone.
THEOREM DialogRemembers == Spec => []DialogKnowsItsMonitor
<1>1. IInv => DialogKnowsItsMonitor
  <2> SUFFICES ASSUME IInv, dialog # None, ~ dialog.gone, dialog.row # 0
               PROVE  /\ dialog.prev \in Range(monitors)
                      /\ dialog.row \in DOMAIN rows /\ rows[dialog.row] = dialog.prev
    BY DEF DialogKnowsItsMonitor
  <2>1. Remembers(dialog)
    BY DEF IInv, DialogOK
  <2>2. QED BY <2>1 DEF Remembers, Range
<1>2. QED BY <1>1, Always, PTL

--------------------------------------------------------------------------
(* Types. *)

\* The colours and the places the window shows, and what a handler remembers.
ColorsOK ==
  /\ up \in BOOLEAN /\ shown \in BOOLEAN /\ viewer \in Graphs
  /\ color \in [Monitor -> Color] /\ buttons \in [Graphs -> Color]
  /\ next \in 0 .. Len(Palette) - 1
MemoryOK ==
  dialog = None \/ dialog \in [row : Nat, prev : Monitor \cup {None}, gone : BOOLEAN]

LEMMA ColorsTyped == \A c \in Range(Palette) \cup Picked \cup {Plain} : c \in Color
<1> SUFFICES ASSUME NEW c \in Range(Palette) \cup Picked \cup {Plain} PROVE c \in Color
  OBVIOUS
<1>1. c = [hue |-> c.hue, alpha |-> c.alpha]
  BY PreferencesAssumption
<1> DEFINE H == {d.hue : d \in Range(Palette) \cup Picked \cup {Plain}}
           A == {d.alpha : d \in Range(Palette) \cup Picked \cup {Plain}}
<1>2. c.hue \in H /\ c.alpha \in A
  OBVIOUS
<1>3. Color = [hue : H, alpha : A]
  BY DEF Color
<1> HIDE DEF H, A
<1>4. QED BY <1>1, <1>2, <1>3

\* The colours of new monitors, in turn.
LEMMA NextColor ==
  ASSUME next \in 0 .. Len(Palette) - 1
  PROVE  Palette[next + 1] \in Color /\ (next + 1) % Len(Palette) \in 0 .. Len(Palette) - 1
<1>1. Palette \in Seq(Range(Palette)) /\ Palette # <<>>
  BY PreferencesAssumption
<1>2. Len(Palette) \in Nat /\ Len(Palette) # 0 /\ DOMAIN Palette = 1 .. Len(Palette)
  BY <1>1, EmptySeq
<1>3. next + 1 \in DOMAIN Palette
  BY <1>2
<1>4. Palette[next + 1] \in Range(Palette)
  BY <1>3 DEF Range
<1>5. QED BY <1>2, <1>4, ColorsTyped

\* A view takes as many colours as it has monitors, and comes round to the first.
LEMMA RebuiltPlace ==
  ASSUME monitors \in Seq(Monitor), next \in 0 .. Len(Palette) - 1
  PROVE  \A views \in Nat : Rebuilt(views) \in 0 .. Len(Palette) - 1
<1>1. Len(Palette) \in Nat /\ Len(Palette) # 0
  BY PreferencesAssumption, EmptySeq
<1>2. SUFFICES ASSUME NEW views \in Nat PROVE Rebuilt(views) \in 0 .. Len(Palette) - 1
  OBVIOUS
<1> DEFINE k == next + views * Len(monitors)
<1>3. Len(monitors) \in Nat
  OBVIOUS
<1>4. \A a \in Nat, b \in Nat : a * b \in Nat
  OBVIOUS
<1>5. k \in Nat
  BY <1>1, <1>3, <1>4
<1> HIDE DEF k
<1>6. k % Len(Palette) \in 0 .. Len(Palette) - 1
  BY <1>1, <1>5
<1>7. QED BY <1>6 DEF Rebuilt, k

LEMMA ListenType ==
  ASSUME NEW bs \in [Graphs -> Color], NEW c \in Color
  PROVE  Listen(bs, c) \in [Graphs -> Color]
<1>1. ASSUME NEW b \in Color PROVE UpdateButton(b, c) \in Color
  BY DEF UpdateButton, Color
<1>2. QED BY <1>1 DEF Listen

\* The buttons of a new window have listened to each monitor's colour.
LEMMA NewButtonsType ==
  ASSUME monitors \in Seq(Monitor), color \in [Monitor -> Color]
  PROVE  NewButtons \in [Graphs -> Color]
<1> DEFINE n == Len(monitors)
           S == [Graphs -> Color]
           base == [t \in Graphs |-> Plain]
           step == [k \in 1 .. n |-> [bs \in S |-> Listen(bs, color[monitors[k]])]]
           Is(g) == g = [k \in 0 .. n |-> IF k = 0 THEN base
                                          ELSE Listen(g[k - 1], color[monitors[k]])]
           listed == CHOOSE g : Is(g)
<1>1. n \in Nat /\ \A k \in 1 .. n : color[monitors[k]] \in Color
  BY ElementOfSeq
<1>2. base \in S
  BY ColorsTyped
<1>3. NewButtons = listed[n]
  BY DEF NewButtons
<1> HIDE DEF n
<1>4. step \in [1 .. n -> [S -> S]]
  BY <1>1, ListenType
<1> HIDE DEF S, base
<1>5. PICK h : Iterates(h, n, S, base, step)
  <2> HIDE DEF step
  <2> QED BY <1>1, <1>2, <1>4, IterationExists
<1>6. \A k \in 0 .. n : k = 0 \/ (k \in 1 .. n /\ k - 1 \in 0 .. n /\ k # 0)
  BY <1>1
<1>7. \A k \in 0 .. n : h[k] = IF k = 0 THEN base ELSE Listen(h[k - 1], color[monitors[k]])
  BY <1>5, <1>6 DEF Iterates
<1>8. Is(h)
  BY <1>5, <1>7 DEF Iterates
<1>9. Is(listed)
  BY <1>8
<1> HIDE DEF listed
<1>10. listed[0] = base
       /\ \A k \in 0 .. n - 1 : listed[k + 1] = Listen(listed[k], color[monitors[k + 1]])
  <2>1. 0 \in 0 .. n /\ \A k \in 0 .. n - 1 : k + 1 \in 0 .. n /\ k + 1 # 0 /\ (k + 1) - 1 = k
    BY <1>1
  <2>2. \A k \in 0 .. n : listed[k] = IF k = 0 THEN base
                                      ELSE Listen(listed[k - 1], color[monitors[k]])
    BY <1>9
  <2>3. QED BY <2>1, <2>2
<1>11. ASSUME NEW k \in 0 .. n - 1, listed[k] \in S PROVE listed[k + 1] \in S
  <2>1. color[monitors[k + 1]] \in Color
    BY <1>1
  <2>2. QED BY <1>10, <1>11, <2>1, ListenType DEF S
<1>12. \A k \in 0 .. n : listed[k] \in S
  BY <1>1, <1>2, <1>10, <1>11, IterationIn
<1>13. QED BY <1>1, <1>3, <1>12 DEF S

\* The buttons after a row is selected, or none.
LEMMA SelectingType ==
  ASSUME NEW rs, NEW i, NEW bs \in [Graphs -> Color], i # 0 => rs[i] \in Monitor,
         color' \in [Monitor -> Color]
  PROVE  Selecting(rs, i, bs) \in [Graphs -> Color]
BY ListenType DEF Selecting

LEMMA ColorsKept ==
  ASSUME IInv, ColorsOK, MemoryOK, [Next]_vars
  PROVE  ColorsOK' /\ MemoryOK'
<1>1. /\ monitors \in Seq(Monitor)
      /\ shown => rows = monitors
      /\ selected # 0 => selected \in DOMAIN monitors
      /\ dialog # None /\ ~ dialog.gone => rows = monitors
  BY DEF IInv, ListOK, RowsOK, DialogOK, Remembers
<1>2. \A k \in DOMAIN monitors : monitors[k] \in Monitor /\ k \in Nat
  BY <1>1, ElementOfSeq
<1>3. Abandoned = None
      \/ Abandoned \in [row : Nat, prev : Monitor \cup {None}, gone : BOOLEAN]
  BY DEF MemoryOK, Abandoned
<1>4. Palette[next + 1] \in Color /\ (next + 1) % Len(Palette) \in 0 .. Len(Palette) - 1
  BY NextColor DEF ColorsOK
<1>16. \A views \in Nat : Rebuilt(views) \in 0 .. Len(Palette) - 1
  BY <1>1, RebuiltPlace DEF ColorsOK
<1>5. CASE Start
  <2>1. PICK m \in Monitor : color' = [color EXCEPT ![m] = Palette[next + 1]]
    BY <1>5 DEF Start
  <2>2. color' \in [Monitor -> Color]
    BY <1>4, <2>1 DEF ColorsOK
  <2>3. QED BY <1>4, <1>5, <2>2 DEF Start, ColorsOK, MemoryOK
<1>6. CASE Configure
  <2>1. next' \in 0 .. Len(Palette) - 1
    BY <1>6, <1>16 DEF Configure
  <2>2. QED BY <1>1, <1>3, <1>6, <2>1, NewButtonsType DEF Configure, ColorsOK, MemoryOK
<1>7. CASE FreeData \/ OkGone
  BY <1>3, <1>7 DEF FreeData, OkGone, ColorsOK, MemoryOK
<1>8. CASE Close \/ RemoveMonitor \/ Cancel
  BY <1>8 DEF Close, RemoveMonitor, Cancel, ColorsOK, MemoryOK
<1>17. CASE \E t \in Graphs : SwitchViewer(t)
  BY <1>16, <1>17 DEF SwitchViewer, ColorsOK, MemoryOK
<1>9. CASE PressAdd \/ PressChange
  <2>1. \/ dialog' = Waiting(0, None)
        \/ selected # 0 /\ shown /\ dialog' = Waiting(selected, rows[selected])
    BY <1>9 DEF PressAdd, PressChange, Operable
  <2>2. dialog' \in [row : Nat, prev : Monitor \cup {None}, gone : BOOLEAN]
    <3>1. \A i \in Nat, m \in Monitor \cup {None} :
            Waiting(i, m) \in [row : Nat, prev : Monitor \cup {None}, gone : BOOLEAN]
      BY DEF Waiting
    <3>2. CASE dialog' = Waiting(0, None)
      BY <3>1, <3>2
    <3>3. CASE selected # 0 /\ shown /\ dialog' = Waiting(selected, rows[selected])
      <4>1. selected \in Nat /\ rows[selected] \in Monitor
        BY <1>1, <1>2, <3>3
      <4>2. QED BY <3>1, <3>3, <4>1
    <3>4. QED BY <2>1, <3>2, <3>3
  <2>3. QED BY <1>9, <2>2 DEF PressAdd, PressChange, ColorsOK, MemoryOK
<1>10. CASE \E i \in IF rows = None THEN {} ELSE DOMAIN rows : Select(i)
  <2>1. PICK i \in DOMAIN rows : Select(i)
    BY <1>10
  <2>2. shown /\ rows = monitors /\ color' = color
    BY <1>1, <2>1 DEF Select, Operable
  <2>3. buttons' \in [Graphs -> Color]
    BY <1>2, <2>1, <2>2, SelectingType DEF Select, ColorsOK
  <2>4. QED BY <2>1, <2>3 DEF Select, ColorsOK, MemoryOK
<1>11. CASE \E c \in Picked : Recolor(c)
  <2>1. PICK c \in Picked : Recolor(c)
    BY <1>11
  <2>2. c \in Color
    BY ColorsTyped
  <2>3. QED BY <1>16, <2>1, <2>2 DEF Recolor, ColorsOK, MemoryOK
<1>12. CASE \E m \in Monitor : OkAdd(m)
  <2>1. PICK m \in Monitor : OkAdd(m)
    BY <1>12
  <2>2. rows = monitors /\ rows' = Append(monitors, m) /\ selected' = Len(rows')
    BY <1>1, <2>1 DEF OkAdd
  <2>3. rows'[selected'] \in Monitor
    BY <1>1, <2>2
  <2>4. color' \in [Monitor -> Color]
    BY <1>4, <2>1 DEF OkAdd, ColorsOK
  <2>5. buttons' \in [Graphs -> Color]
    BY <2>1, <2>3, <2>4, SelectingType DEF OkAdd, ColorsOK
  <2>6. QED BY <1>4, <2>1, <2>4, <2>5 DEF OkAdd, ColorsOK, MemoryOK
<1>13. CASE \E m \in Monitor : OkChange(m)
  <2>1. PICK m \in Monitor : OkChange(m)
    BY <1>13
  <2>2. dialog.prev \in Monitor
    BY <1>2, <2>1 DEF OkChange
  <2>3. color' \in [Monitor -> Color]
    BY <2>1, <2>2 DEF OkChange, ColorsOK
  <2>4. QED BY <1>4, <2>1, <2>3 DEF OkChange, ColorsOK, MemoryOK
<1>14. CASE UNCHANGED vars
  BY <1>14 DEF vars, ColorsOK, MemoryOK
<1>15. QED
  BY <1>5, <1>6, <1>7, <1>8, <1>9, <1>10, <1>11, <1>12, <1>13, <1>14,
     <1>17 DEF Next

\* The monitors, colours and places the window handles are what they are declared to be:
\* the selection is a row of the list and what a waiting handler remembers one as well.
THEOREM TypesKept == Spec => []TypeOK
<1>1. Init => ColorsOK /\ MemoryOK
  <2> SUFFICES ASSUME Init PROVE ColorsOK /\ MemoryOK
    OBVIOUS
  <2>1. Plain \in Color
    BY ColorsTyped
  <2>2. Len(Palette) \in Nat /\ Len(Palette) # 0
    BY PreferencesAssumption, EmptySeq
  <2>3. /\ color = [m \in Monitor |-> Plain] /\ buttons = [t \in Graphs |-> Plain]
        /\ next = 0 /\ viewer \in Graphs /\ up = FALSE /\ shown = FALSE /\ dialog = None
    BY DEF Init
  <2>4. color \in [Monitor -> Color] /\ buttons \in [Graphs -> Color]
    BY <2>1, <2>3
  <2>5. next \in 0 .. Len(Palette) - 1
    BY <2>2, <2>3
  <2>6. QED BY <2>3, <2>4, <2>5 DEF ColorsOK, MemoryOK
<1>2. IInv /\ ColorsOK /\ MemoryOK /\ [Next]_vars => ColorsOK' /\ MemoryOK'
  BY ColorsKept
<1>3. IInv /\ ColorsOK /\ MemoryOK => TypeOK
  <2> SUFFICES ASSUME IInv, ColorsOK, MemoryOK PROVE TypeOK
    OBVIOUS
  <2>1. (rows = None /\ selected = 0) \/ rows = monitors
    BY DEF IInv, RowsOK
  <2>2. monitors \in Seq(Monitor) /\ alive \subseteq Monitor
        /\ (selected # 0 => selected \in DOMAIN monitors)
    BY DEF IInv, ListOK, RowsOK
  <2>3. selected \in 0 .. Len(monitors)
    BY <2>2
  <2>4. QED BY <2>1, <2>2, <2>3 DEF ColorsOK, MemoryOK, TypeOK
<1>4. QED BY <1>1, <1>2, <1>3, Always, PTL DEF Spec
==========================================================================
