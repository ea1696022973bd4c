---------------------------- MODULE Preferences ----------------------------
(***************************************************************************)
(* The preferences window's list of monitors, and the chooser dialog that  *)
(* its Add and Change buttons run.  Gtk::Dialog::run is a main loop inside *)
(* the handler: until the user answers, the handler's locals (the monitor  *)
(* and the row to change) and its window wait, while timers fire and the   *)
(* panel may ask for the window again or free the plugin.  The dialog is   *)
(* modal, so the user does not reach the other windows.                    *)
(*                                                                         *)
(* Colours are pairs of a hue (red, green, blue) and an alpha: the window's*)
(* colour buttons take them from the selected monitor.                     *)
(***************************************************************************)
EXTENDS Naturals, Sequences, SequencesExt

CONSTANTS
  Monitor,     \* identities of Monitor objects (an address may be used again)
  Palette,     \* colours of new monitors, in turn
  Picked,      \* colours the user picks
  Graphs,      \* viewer types that have a colour button
  Plain,       \* what a colour button shows in a new window
  MaxMonitors, \* bound on the monitors in the list
  None

ASSUME PreferencesAssumption ==
  /\ None \notin Monitor /\ Palette # <<>> /\ Graphs # {}
  /\ Palette \in Seq(Range(Palette))
  /\ \A c \in Range(Palette) \cup Picked \cup {Plain} : c = [hue |-> c.hue, alpha |-> c.alpha]
  /\ MaxMonitors \in Nat \ {0}

VARIABLES
  up,        \* the plugin exists
  monitors,  \* Plugin::monitors
  alive,     \* the Monitor objects that are not deleted
  color,     \* the colour entry of a monitor's settings group
  next,      \* the plugin's next_color
  viewer,    \* the viewer type, whose colour button is visible
  shown,     \* the window is on the screen
  rows,      \* the monitors its list holds, None before the first window
  selected,  \* the selected row, 0 if none
  buttons,   \* the colours its colour buttons show
  dialog     \* the handler waiting for the chooser dialog, None if none

vars == <<up, monitors, alive, color, next, viewer, shown, rows, selected, buttons, dialog>>

\* A waiting handler: the row and the monitor it is to change (0 and None to add one),
\* and whether its window still exists.
Waiting(row, prev) == [row |-> row, prev |-> prev, gone |-> FALSE]
--------------------------------------------------------------------------
\* update_colorbutton_if_different: the alpha is set only where the hue is the same.
UpdateButton(button, c) ==
  IF button.hue # c.hue THEN [button EXCEPT !.hue = c.hue] ELSE c

\* monitor_color_listener
Listen(bs, c) == [t \in DOMAIN bs |-> UpdateButton(bs[t], c)]

\* on_selection_changed: the buttons take the colour of the selected monitor.
Selecting(rs, i, bs) == IF i = 0 THEN bs ELSE Listen(bs, color'[rs[i]])

\* A new window lists the monitors, selecting each as it is added, then none.
NewButtons ==
  LET listed[k \in 0 .. Len(monitors)] ==
        IF k = 0 THEN [t \in Graphs |-> Plain]
        ELSE Listen(listed[k - 1], color[monitors[k]])
  IN  listed[Len(monitors)]

\* Views that are built anew take a palette colour for every monitor they attach: it is
\* the default that the monitor's own colour is read with.
Rebuilt(views) == (next + views * Len(monitors)) % Len(Palette)

\* What happens to a waiting handler when the window it belongs to is destroyed.
Abandoned == IF dialog = None THEN None ELSE [dialog EXCEPT !.gone = TRUE]

(* Mutant: the windows take input while the dialog is up. *)
MutOperable == up /\ shown

\* The user reaches the preferences window.
Operable == up /\ shown /\ dialog = None
--------------------------------------------------------------------------
Init ==
  /\ up = FALSE /\ monitors = <<>> /\ alive = {} /\ color = [m \in Monitor |-> Plain]
  /\ next = 0 /\ viewer \in Graphs
  /\ shown = FALSE /\ rows = None /\ selected = 0
  /\ buttons = [t \in Graphs |-> Plain]
  /\ dialog = None

\* The panel starts the plugin; it has at least one monitor, each with a colour.
Start ==
  /\ ~ up /\ dialog = None
  /\ \E m \in Monitor :
       /\ monitors' = <<m>> /\ alive' = {m}
       /\ color' = [color EXCEPT ![m] = Palette[next + 1]]
  /\ next' = (next + 1) % Len(Palette)
  /\ up' = TRUE
  /\ UNCHANGED <<viewer, shown, rows, selected, buttons, dialog>>

\* "configure-plugin": a new window takes the place of the old one.  Where the viewer type
\* is not the one whose radio button is set in the window's description, setting the right
\* one builds the other view and then this one.
Configure ==
  /\ up
  /\ shown' = TRUE /\ rows' = monitors /\ selected' = 0 /\ buttons' = NewButtons
  /\ dialog' = Abandoned
  /\ \E views \in {0, 2} : next' = Rebuilt(views)
  /\ UNCHANGED <<up, monitors, alive, color, viewer>>

\* "free-data": the plugin deletes its monitors and its window.
FreeData ==
  /\ up
  /\ up' = FALSE /\ monitors' = <<>> /\ alive' = {}
  /\ shown' = FALSE /\ rows' = None /\ selected' = 0
  /\ dialog' = Abandoned
  /\ UNCHANGED <<color, next, viewer, buttons>>

Close ==
  /\ Operable /\ shown' = FALSE
  /\ UNCHANGED <<up, monitors, alive, color, next, viewer, rows, selected, buttons, dialog>>

Select(i) ==
  /\ Operable /\ i # selected
  /\ selected' = i /\ UNCHANGED color /\ buttons' = Selecting(rows, i, buttons)
  /\ UNCHANGED <<up, monitors, alive, next, viewer, shown, rows, dialog>>

SwitchViewer(t) ==
  /\ Operable /\ t # viewer /\ viewer' = t
  /\ next' = Rebuilt(1)
  /\ UNCHANGED <<up, monitors, alive, color, shown, rows, selected, buttons, dialog>>

\* on_monitor_colorbutton_set: the button the user sees shows what the user picked, and
\* the view is built anew to show it too.
Recolor(c) ==
  /\ Operable /\ selected # 0
  /\ buttons' = [buttons EXCEPT ![viewer] = c]
  /\ color' = [color EXCEPT ![rows[selected]] = c]
  /\ next' = Rebuilt(1)
  /\ UNCHANGED <<up, monitors, alive, viewer, shown, rows, selected, dialog>>

(* Mutant: the row that was removed stays selected. *)
MutStaySelected ==
  /\ Operable /\ selected # 0
  /\ LET mon == rows[selected]
     IN  /\ rows' = RemoveAt(rows, selected)
         /\ \E k \in DOMAIN monitors :
              monitors[k] = mon /\ monitors' = RemoveAt(monitors, k)
         /\ alive' = alive \ {mon}
  /\ UNCHANGED <<up, color, next, viewer, shown, selected, buttons, dialog>>

(* Mutant: the monitor stays in the plugin's list. *)
MutRemoveMonitor ==
  /\ Operable /\ selected # 0
  /\ LET mon == rows[selected]
     IN  /\ rows' = RemoveAt(rows, selected) /\ selected' = 0
         /\ alive' = alive \ {mon}
  /\ UNCHANGED <<up, monitors, color, next, viewer, shown, buttons, dialog>>

\* on_remove_button_clicked: the row goes first, and the selection with it.  A monitor is
\* in the plugin's list once, so list::remove takes one element out.
RemoveMonitor ==
  /\ Operable /\ selected # 0
  /\ LET mon == rows[selected]
     IN  /\ rows' = RemoveAt(rows, selected) /\ selected' = 0
         /\ \E k \in DOMAIN monitors :
              monitors[k] = mon /\ monitors' = RemoveAt(monitors, k)
         /\ alive' = alive \ {mon}
  /\ UNCHANGED <<up, color, next, viewer, shown, buttons, dialog>>

\* on_add_button_clicked and on_change_button_clicked, up to the dialog.
PressAdd ==
  /\ Operable /\ Len(monitors) < MaxMonitors /\ dialog' = Waiting(0, None)
  /\ UNCHANGED <<up, monitors, alive, color, next, viewer, shown, rows, selected, buttons>>

PressChange ==
  /\ Operable /\ selected # 0 /\ dialog' = Waiting(selected, rows[selected])
  /\ UNCHANGED <<up, monitors, alive, color, next, viewer, shown, rows, selected, buttons>>

\* The dialog is dismissed: the handler returns without a look at anything.
Cancel ==
  /\ dialog # None /\ dialog' = None
  /\ UNCHANGED <<up, monitors, alive, color, next, viewer, shown, rows, selected, buttons>>

\* The rest of on_add_button_clicked: the plugin takes the monitor, its view gives it a
\* colour, and the list selects its row.
OkAdd(mon) ==
  /\ dialog # None /\ ~ dialog.gone /\ dialog.row = 0 /\ dialog' = None
  /\ mon \notin alive /\ alive' = alive \cup {mon}
  /\ monitors' = Append(monitors, mon)
  /\ color' = [color EXCEPT ![mon] = Palette[next + 1]]
  /\ next' = (next + 1) % Len(Palette)
  /\ rows' = Append(rows, mon) /\ selected' = Len(rows')
  /\ buttons' = Selecting(rows', selected', buttons)
  /\ UNCHANGED <<up, viewer, shown>>

(* Mutant: the row keeps the monitor that was replaced. *)
MutOkChange(mon) ==
  /\ dialog # None /\ ~ dialog.gone /\ dialog.row # 0 /\ dialog' = None
  /\ mon \notin alive /\ alive' = (alive \cup {mon}) \ {dialog.prev}
  /\ \E k \in DOMAIN monitors :
       monitors[k] = dialog.prev /\ monitors' = [monitors EXCEPT ![k] = mon]
  /\ color' = [color EXCEPT ![mon] = color[dialog.prev]]
  /\ next' = (next + 1) % Len(Palette)
  /\ UNCHANGED <<up, viewer, shown, rows, selected, buttons>>

\* The rest of on_change_button_clicked: the new monitor takes the place and the
\* settings group, so the colour, of the one remembered (replace_monitor asserts that
\* the plugin still has it), and the row of the one remembered.  The view attaches it,
\* which takes a palette colour.
OkChange(mon) ==
  /\ dialog # None /\ ~ dialog.gone /\ dialog.row # 0 /\ dialog' = None
  /\ mon \notin alive /\ alive' = (alive \cup {mon}) \ {dialog.prev}
  /\ \E k \in DOMAIN monitors :
       monitors[k] = dialog.prev /\ monitors' = [monitors EXCEPT ![k] = mon]
  /\ color' = [color EXCEPT ![mon] = color[dialog.prev]]
  /\ next' = (next + 1) % Len(Palette)
  /\ rows' = [rows EXCEPT ![dialog.row] = mon]
  /\ UNCHANGED <<up, viewer, shown, selected, buttons>>

\* The window of the handler was destroyed while it waited: it reads freed memory.  Of
\* what may happen then, the model has the end of the process.
OkGone ==
  /\ dialog # None /\ dialog.gone /\ dialog' = None
  /\ up' = FALSE /\ monitors' = <<>> /\ alive' = {}
  /\ shown' = FALSE /\ rows' = None /\ selected' = 0
  /\ UNCHANGED <<color, next, viewer, buttons>>

Next ==
  \/ Start \/ Configure \/ FreeData \/ Close \/ RemoveMonitor
  \/ PressAdd \/ PressChange \/ Cancel \/ OkGone
  \/ \E i \in IF rows = None THEN {} ELSE DOMAIN rows : Select(i)
  \/ \E t \in Graphs : SwitchViewer(t)
  \/ \E c \in Picked : Recolor(c)
  \/ \E m \in Monitor : OkAdd(m) \/ OkChange(m)

Spec == Init /\ [][Next]_vars
--------------------------------------------------------------------------
Color == [hue : {c.hue : c \in Range(Palette) \cup Picked \cup {Plain}},
          alpha : {c.alpha : c \in Range(Palette) \cup Picked \cup {Plain}}]

\* Rows and the plugin's list hold monitors, the selection is a row or none, and a dialog
\* that is up remembers a row and the monitor it is to change.
TypeOK ==
  /\ up \in BOOLEAN /\ shown \in BOOLEAN
  /\ monitors \in Seq(Monitor) /\ alive \subseteq Monitor
  /\ color \in [Monitor -> Color] /\ buttons \in [Graphs -> Color]
  /\ next \in 0 .. Len(Palette) - 1 /\ viewer \in Graphs
  /\ \/ rows = None /\ selected = 0
     \/ rows \in Seq(Monitor) /\ selected \in 0 .. Len(rows)
  /\ dialog = None \/ dialog \in [row : Nat, prev : Monitor \cup {None}, gone : BOOLEAN]

\* The rows of the list are the monitors of the plugin, in its order: an answer of the
\* dialog, and a removal, reach the list and the plugin alike.
RowsAreMonitors == rows # None => rows = monitors

\* Whoever keeps a monitor across handlers keeps one that is not deleted: the plugin's
\* list, which the timers walk while the dialog is up as well and which forgets no monitor
\* that lives, the rows of the window's list, and the handler that waits to change a
\* monitor, unless the window it belongs to has gone.
MonitorsAlive ==
  /\ Range(monitors) = alive
  /\ rows # None => Range(rows) \subseteq alive
  /\ dialog # None /\ ~ dialog.gone /\ dialog.row # 0 => dialog.prev \in alive

\* When the user answers the dialog, what the handler that waits for it remembers (the
\* monitor, and the row that shows it) still holds, unless its window has gone:
\* replace_monitor's assertion succeeds and the row is the right one.
DialogKnowsItsMonitor ==
  dialog # None =>
    \/ dialog.gone
    \/ dialog.row = 0
    \/ /\ dialog.prev \in Range(monitors)
       /\ dialog.row \in DOMAIN rows /\ rows[dialog.row] = dialog.prev

\* The colour button that is visible shows the colour of the selected monitor, which
\* on_selection_changed has loaded to be applied.
ColorShown ==
  up /\ shown /\ selected # 0 => buttons[viewer] = color[rows[selected]]
==========================================================================
