------------------------------ MODULE Plugin ------------------------------
(***************************************************************************)
(* The Plugin object (plugin.cpp): the list of monitors, the view that     *)
(* draws them and the settings file that keeps them, driven by the panel   *)
(* (start, save, quit) and by the user through the preferences window.     *)
(* The GTK main loop runs one handler at a time, so a handler is one       *)
(* action.  But a handler writes the file several times, and the process   *)
(* can be killed between two of these writes, or find that it cannot write.*)
(***************************************************************************)
EXTENDS SettingsFile, FiniteSets, Functions

CONSTANTS
  Monitor,        \* identities of Monitor objects
  Config,         \* what a monitor can observe (its type and parameters)
  DefaultConfig,  \* the CpuUsageMonitor of an empty panel
  Color, Palette, \* colours; those get_fg_color hands out, in order
  Offered,        \* viewer types the user picks from
  Stored,         \* viewer types a settings file may hold at the first start
  WritesFail,     \* whether the settings directory can become read-only
  MaxGroups,      \* bound: how far the settings file may grow
  Freed, NoView, NoWindow

\* The types viewer_type_listener knows, and those whose view draws in colours.
GraphTypes == {"curve", "bar", "vbar", "column", "flame"}
KnownTypes == GraphTypes \cup {"text"}

ASSUME PluginAssumption ==
  /\ DefaultConfig \in Config /\ NoConfig \notin Config
  /\ NoColor \notin Color /\ Palette \in Seq(Color) /\ Palette # <<>>
  /\ Offered \subseteq KnownTypes /\ NoView \notin KnownTypes
  /\ NoWindow \notin KnownTypes
  /\ WritesFail \in BOOLEAN /\ MaxGroups \in Nat
  /\ Freed \notin [cfg : Config, dir : Nat]

VARIABLES
  up,            \* the plugin object exists
  monitors,      \* Plugin::monitors
  object,        \* the Monitor objects: [cfg, dir] while allocated, else Freed
  view,          \* [type, elements]; an element is [mon, color]
  viewer_type, next_color,
  button,        \* the active type button of the preferences window, once opened
  file,          \* the settings file
  writable,      \* xfce_panel_plugin_save_location finds a place to write to
  missed         \* some write was skipped (observed, not in the code)

process == <<up, monitors, object, view, viewer_type, next_color, button>>
vars == <<process, file, writable, missed>>

Object == [cfg : Config, dir : Nat]
Element == [mon : Monitor, color : Color \cup {NoColor}]
Type == KnownTypes \cup Stored
File == [viewer_type : Type, next_color : 0 .. Len(Palette) - 1,
         groups : Seq([dir : Nat, cfg : Config \cup {NoConfig},
                       color : Color \cup {NoColor}])]

TypeOK ==
  /\ up \in BOOLEAN
  /\ monitors \in Seq(Monitor)
  /\ object \in [Monitor -> Object \cup {Freed}]
  /\ view \in [type : KnownTypes \cup {NoView}, elements : Seq(Element)]
  /\ viewer_type \in Type
  /\ next_color \in 0 .. Len(Palette) - 1
  /\ button \in KnownTypes \cup {NoWindow}
  /\ file \in File
  /\ writable \in BOOLEAN /\ missed \in BOOLEAN
--------------------------------------------------------------------------
(***************************************************************************)
(* A handler threads the store: the next_color in memory, the file, and    *)
(* the contents the file had on the way.                                   *)
(***************************************************************************)
Store == [next_color |-> next_color, file |-> file, past |-> {file}, missed |-> missed]

\* Opening the writable file, changing it and closing it, which writes it.
Flush(s, f) ==
  IF writable THEN [s EXCEPT !.file = f, !.past = @ \cup {f}]
  ELSE [s EXCEPT !.missed = TRUE]

(* Mutant: the colours are not taken in turns. *)
MutNextColor(s) ==
  Flush([s EXCEPT !.next_color = @ + 1], [s.file EXCEPT !.next_color = s.next_color + 1])

\* get_fg_color: what it does to the store (the colour it returns is Palette's
\* entry at next_color).
NextColor(s) ==
  LET c == (s.next_color + 1) % Len(Palette)
  IN  Flush([s EXCEPT !.next_color = c], [s.file EXCEPT !.next_color = c])

(* Mutant: a colour that was not recorded is handed out and not saved. *)
MutUnsavedColor(s, type, dir) ==
  LET c == Palette[s.next_color + 1]
      t == NextColor(s)
  IN  IF type \notin GraphTypes THEN [store |-> s, color |-> NoColor]
      ELSE IF ColorOf(s.file, dir) # NoColor
      THEN [store |-> t, color |-> ColorOf(s.file, dir)]
      ELSE [store |-> t, color |-> c]

\* do_attach of a view: a graph takes the colour of its settings group, or the next
\* one, which is then saved.  The next colour is taken in both cases: it is the
\* default that reading the entry evaluates.
Attach(s, type, dir) ==
  LET c == Palette[s.next_color + 1]
      t == NextColor(s)
  IN  IF type \notin GraphTypes THEN [store |-> s, color |-> NoColor]
      ELSE IF ColorOf(s.file, dir) # NoColor
      THEN [store |-> t, color |-> ColorOf(s.file, dir)]
      ELSE [store |-> Flush(t, SaveColor(t.file, dir, c)), color |-> c]

\* A new view of the given type, to which each of the monitors is attached in turn.
AttachAll(s, type, mons, obj) ==
  LET step[k \in 0 .. Len(mons)] ==
        IF k = 0 THEN [store |-> s, color |-> NoColor]
        ELSE Attach(step[k - 1].store, type, obj[mons[k]].dir)
  IN  [store |-> step[Len(mons)].store,
       view |-> [type |-> type,
                 elements |-> [k \in 1 .. Len(mons) |-> [mon |-> mons[k],
                                                         color |-> step[k].color]]]]

\* add_monitor's last step: a view, if there is one, shows the monitor.
AttachOne(s, v, mon, dir) ==
  IF v.type = NoView THEN [store |-> s, view |-> v]
  ELSE LET a == Attach(s, v.type, dir)
       IN  [store |-> a.store,
            view |-> [v EXCEPT !.elements = Append(@, [mon |-> mon, color |-> a.color])]]

\* do_detach: the first element that shows the monitor leaves the view.
Detach(v, mon) ==
  IF v.type = NoView THEN v
  ELSE [v EXCEPT !.elements =
          RemoveAt(@, CHOOSE i \in DOMAIN @ :
                        /\ @[i].mon = mon
                        /\ \A j \in 1 .. i - 1 : @[j].mon # mon)]
--------------------------------------------------------------------------
(***************************************************************************)
(* The handlers.  Each is described by the state it leaves: a record of    *)
(* the store and of the fields of the plugin.                              *)
(***************************************************************************)
Empty == [type |-> NoView, elements |-> <<>>]
NoObject == [m \in Monitor |-> Freed]

\* The plugin as it is, but for the store.
Kept(s) == [store |-> s, monitors |-> monitors, object |-> object, view |-> view,
            viewer_type |-> viewer_type, button |-> button]

(* Mutant: a view that exists is never replaced unless it is forced to. *)
MutKeepView(r, type, force) ==
  IF type \in KnownTypes /\ (force \/ r.view.type = NoView)
  THEN LET a == AttachAll(r.store, type, r.monitors, r.object)
       IN  [r EXCEPT !.store = a.store, !.view = a.view, !.viewer_type = type]
  ELSE [r EXCEPT !.viewer_type = type]

\* viewer_type_listener, in the course of a handler that has got to r: builds a new view
\* if the type is not the current one's, or if forced to; a type it does not know is
\* recorded, and the view stays.
ViewerTypeListener(r, type, force) ==
  IF type \in KnownTypes /\ (force \/ r.view.type # type)
  THEN LET a == AttachAll(r.store, type, r.monitors, r.object)
       IN  [r EXCEPT !.store = a.store, !.view = a.view, !.viewer_type = type]
  ELSE [r EXCEPT !.viewer_type = type]

\* The constructor, given the objects load_monitors allocates: the default monitor,
\* which load_monitors makes if there is none to load, is saved by add_monitor.
Starting(ids) ==
  LET default == file.groups = <<>>
      loaded == IF default THEN << [cfg |-> DefaultConfig, dir |-> EmptyDir(file)] >>
                ELSE LoadMonitors(file)
      s == [Store EXCEPT !.next_color = file.next_color]
      t == IF default THEN Flush(s, SaveGroup(file, loaded[1].dir, DefaultConfig)) ELSE s
      obj == [m \in Monitor |->
                IF \E k \in DOMAIN ids : ids[k] = m
                THEN loaded[CHOOSE k \in DOMAIN ids : ids[k] = m] ELSE Freed]
      a == IF file.viewer_type \in KnownTypes
           THEN AttachAll(t, file.viewer_type, ids, obj)
           ELSE [store |-> t, view |-> Empty]
  IN  [store |-> a.store, monitors |-> ids, object |-> obj, view |-> a.view,
       viewer_type |-> file.viewer_type, button |-> NoWindow]

NumberToLoad == IF file.groups = <<>> THEN 1 ELSE Len(LoadMonitors(file))

(* Mutant: the view shows the monitor, and saves its colour, before it is saved. *)
MutAdding(mon, cfg) ==
  LET dir == EmptyDir(file)
      a == AttachOne(Store, view, mon, dir)
  IN  [store |-> Flush(a.store, SaveGroup(a.store.file, dir, cfg)),
       monitors |-> Append(monitors, mon),
       object |-> [object EXCEPT ![mon] = [cfg |-> cfg, dir |-> dir]],
       view |-> a.view, viewer_type |-> viewer_type, button |-> button]

\* add_monitor of a monitor that was never saved.
Adding(mon, cfg) ==
  LET dir == EmptyDir(file)
      a == AttachOne(Flush(Store, SaveGroup(file, dir, cfg)), view, mon, dir)
  IN  [store |-> a.store,
       monitors |-> Append(monitors, mon),
       object |-> [object EXCEPT ![mon] = [cfg |-> cfg, dir |-> dir]],
       view |-> a.view, viewer_type |-> viewer_type, button |-> button]

(* Mutant: the monitor's settings group stays in the file. *)
MutRemoving(i) ==
  LET mon == monitors[i]
  IN  [store |-> Store,
       monitors |-> RemoveAt(monitors, i),
       object |-> [object EXCEPT ![mon] = Freed],
       view |-> Detach(view, mon), viewer_type |-> viewer_type, button |-> button]

\* remove_monitor
Removing(i) ==
  LET mon == monitors[i]
  IN  [store |-> Flush(Store, DeleteGroup(file, object[mon].dir)),
       monitors |-> RemoveAt(monitors, i),
       object |-> [object EXCEPT ![mon] = Freed],
       view |-> Detach(view, mon), viewer_type |-> viewer_type, button |-> button]

(* Mutant: the previous monitor is deleted without being detached. *)
MutReplacing(i, mon, cfg) ==
  LET prev == monitors[i]
      dir == object[prev].dir
      a == AttachOne(Flush(Store, SaveGroup(file, dir, cfg)), view, mon, dir)
  IN  [store |-> a.store,
       monitors |-> [monitors EXCEPT ![i] = mon],
       object |-> [object EXCEPT ![mon] = [cfg |-> cfg, dir |-> dir], ![prev] = Freed],
       view |-> a.view, viewer_type |-> viewer_type, button |-> button]

\* replace_monitor: the new monitor takes over the place in the list and the settings
\* group, colour included, but is the last to be drawn.
Replacing(i, mon, cfg) ==
  LET prev == monitors[i]
      dir == object[prev].dir
      a == AttachOne(Flush(Store, SaveGroup(file, dir, cfg)), Detach(view, prev), mon, dir)
  IN  [store |-> a.store,
       monitors |-> [monitors EXCEPT ![i] = mon],
       object |-> [object EXCEPT ![mon] = [cfg |-> cfg, dir |-> dir], ![prev] = Freed],
       view |-> a.view, viewer_type |-> viewer_type, button |-> button]

\* The active type button changes from one to another: GTK tells the old one first, and
\* both call viewer_type_listener, but only the new one saves its type.
Switching(r, from, to) ==
  LET old == ViewerTypeListener(r, from, FALSE)
      s == Flush(old.store, [old.store.file EXCEPT !.viewer_type = to])
  IN  [ViewerTypeListener([old EXCEPT !.store = s], to, FALSE) EXCEPT !.button = to]

\* The preferences window opens with the curve button active, then switches to the
\* button of the plugin's type, if there is one.
OpeningPreferences ==
  LET r == [Kept(Store) EXCEPT !.button = "curve"]
  IN  IF viewer_type \in KnownTypes \ {"curve"} THEN Switching(r, "curve", viewer_type)
      ELSE ViewerTypeListener(r, viewer_type, FALSE)

\* A colour button: the colour is saved, and the view is rebuilt to read it.
Recoloring(i, c) ==
  ViewerTypeListener(Kept(Flush(Store, SaveColor(file, object[monitors[i]].dir, c))),
                     viewer_type, TRUE)

\* save_monitors
Saved == Flush(Store, SaveMonitors(file, [k \in DOMAIN monitors |-> object[monitors[k]]]))
--------------------------------------------------------------------------
Gone ==
  /\ up' = FALSE /\ monitors' = <<>> /\ object' = NoObject /\ view' = Empty
  /\ viewer_type' = "curve" /\ next_color' = 0 /\ button' = NoWindow

Returns(r) ==
  /\ up' = TRUE
  /\ monitors' = r.monitors /\ object' = r.object /\ view' = r.view
  /\ viewer_type' = r.viewer_type /\ next_color' = r.store.next_color
  /\ button' = r.button
  /\ file' = r.store.file /\ missed' = r.store.missed

\* The process dies at some point of the handler.
IsKilled(r) == Gone /\ file' \in r.store.past /\ missed' = r.store.missed

Handler(r) ==
  /\ Returns(r) \/ IsKilled(r)
  /\ Len(file'.groups) <= MaxGroups
  /\ UNCHANGED writable

Init ==
  /\ up = FALSE /\ monitors = <<>> /\ object = NoObject /\ view = Empty
  /\ viewer_type = "curve" /\ next_color = 0 /\ button = NoWindow
  /\ \E t \in Stored : file = [viewer_type |-> t, next_color |-> 0, groups |-> <<>>]
  /\ writable = TRUE /\ missed = FALSE

Start ==
  /\ ~ up /\ ~ LoadFaults(file)
  /\ \E ids \in Injection(1 .. NumberToLoad, Monitor) : Handler(Starting(ids))

OpenPreferences == up /\ Handler(OpeningPreferences)

\* What follows the user does in the preferences window (once closed, it takes no input).
WindowOpen == up /\ button # NoWindow

AddMonitor(cfg) ==
  /\ WindowOpen
  /\ \E mon \in Monitor : object[mon] = Freed /\ Handler(Adding(mon, cfg))

RemoveMonitor == WindowOpen /\ \E i \in DOMAIN monitors : Handler(Removing(i))

ReplaceMonitor(cfg) ==
  /\ WindowOpen
  /\ \E i \in DOMAIN monitors, mon \in Monitor :
       object[mon] = Freed /\ Handler(Replacing(i, mon, cfg))

ChooseViewer(type) ==
  WindowOpen /\ type # button /\ Handler(Switching(Kept(Store), button, type))

Recolor(c) ==
  /\ WindowOpen /\ viewer_type \in GraphTypes
  /\ \E i \in DOMAIN monitors : Handler(Recoloring(i, c))

\* The panel's "save" signal.
Save == up /\ Handler(Kept(Saved))

\* The panel's "free-data" signal: plugin_free deletes the plugin, which detaches the
\* monitors, drops the view, saves and deletes the monitors.
Quit ==
  /\ up /\ Gone
  /\ file' = Saved.file /\ missed' = Saved.missed
  /\ Len(file'.groups) <= MaxGroups
  /\ UNCHANGED writable

\* Nobody controls when the settings directory can be written to.
Toggle == WritesFail /\ writable' = ~ writable /\ UNCHANGED <<process, file, missed>>

Next ==
  \/ Start
  \/ OpenPreferences
  \/ \E cfg \in Config : AddMonitor(cfg) \/ ReplaceMonitor(cfg)
  \/ RemoveMonitor
  \/ \E type \in Offered : ChooseViewer(type)
  \/ \E c \in Color : Recolor(c)
  \/ Save
  \/ Quit
  \/ Toggle

Spec == Init /\ [][Next]_vars
--------------------------------------------------------------------------
\* The monitors that the elements of a view show, in order.
Shown(v) == [i \in DOMAIN v.elements |-> v.elements[i].mon]

\* No element of the view shows a deleted monitor, every monitor is shown once, and
\* no monitor object leaks: main_loop reads the monitors, and the view's timers the
\* elements, at any time between two handlers.
OneElementPerMonitor ==
  /\ IsInjective(monitors)
  /\ Range(monitors) = {m \in Monitor : object[m] # Freed}
  /\ view.type # NoView => IsInjective(Shown(view)) /\ Range(Shown(view)) = Range(monitors)

\* The file describes the running plugin at all times, so that a crash loses nothing:
\* the same monitors in the same order, each with a settings group of its own.
FileInStep ==
  up /\ ~ missed =>
    /\ Len(file.groups) = Len(monitors)
    /\ \A i \in DOMAIN monitors :
         /\ file.groups[i].dir = object[monitors[i]].dir
         /\ file.groups[i].cfg = object[monitors[i]].cfg
    /\ \A i, j \in DOMAIN monitors :
         object[monitors[i]].dir = object[monitors[j]].dir => i = j
    /\ file.viewer_type = viewer_type /\ file.next_color = next_color

\* A graph is drawn in the colour the preferences window shows for its monitor, the
\* one of its settings group, whichever way the monitor came to its place.
DrawnInItsColor ==
  ~ missed /\ view.type \in GraphTypes =>
    \A i \in DOMAIN view.elements :
      LET e == view.elements[i]
      IN  e.color # NoColor /\ e.color = ColorOf(file, object[e.mon].dir)

\* The view is the one the user chose last, which the preferences window shows, writes
\* failing or not.
ViewIsChosen ==
  up => /\ view.type = IF viewer_type \in KnownTypes THEN viewer_type ELSE NoView
        /\ viewer_type \in KnownTypes => button \in {viewer_type, NoWindow}

\* The plugin can always be started again, unless a write was skipped.
Startable == ~ up /\ ~ missed => ~ LoadFaults(file)

\* The list of monitors is durable (see MonitorBoard).
Board == INSTANCE MonitorBoard WITH
  shown <- up,
  lost <- missed,
  board <- IF up THEN [k \in DOMAIN monitors |-> object[monitors[k]].cfg]
           ELSE [k \in DOMAIN file.groups |-> file.groups[k].cfg]
BoardSpec == Board!Spec
==========================================================================
