# Hardware Monitor plugin: TLA+ models and proofs

The repository is a plugin of the Xfce panel, in C++ with gtkmm: it shows a list of
monitors (CPU, load, memory, swap, disk, network, temperature, fan, an arbitrary file)
as curves, bars, columns, flames or text. This directory holds TLA+ modules that model
its logic, TLC configurations that check them on small instances, and proofs that TLAPS
checks for every value of the constants. Paths such as `plugin.cpp:657` are relative to
the repository's own `src/`.

To check a run: `tlc -config MCPlugin.cfg MCPlugin.tla`. To check the proofs:
`tlapm Plugin_proofs.tla`.

## 1. The system

The process is the panel's (or a wrapper's), with one thread: the GLib main loop runs
one callback at a time. Concurrency is therefore the interleaving of callbacks: the
plugin's timer, a view's drawing timer, the panel's signals and the user's input. Two
things break the atomicity of a callback. A dialog runs a nested main loop, and the
callback goes on afterwards. And a callback opens, changes and closes the settings file
several times: the process can be killed between two of these, and each can fail.

| component | state | operations | interacts with |
|---|---|---|---|
| `Plugin` (plugin.cpp) | `monitors`, `view`, `viewer_type`, `next_color`, display options, `timer` | construct, destroy, `add_monitor`, `remove_monitor`, `replace_monitor`, `viewer_type_listener`, `get_fg_color`, `save_monitors`, `main_loop` | owns the view and the monitors; reads and writes the settings |
| settings file (XfceRc) | the default group and a group for each monitor, named by a number | read, write and delete, in one opening each | everything |
| `Monitor` and its kinds (monitor-impls.cpp) | previous counters, maximum, `settings_dir` | `measure`, `value`, `max`, `save`; `load_monitors` | kernel statistics, settings |
| `ValueHistory` | samples, cached maximum and its count, countdown | `update`, `get_max_value` | asks a monitor; asked by a curve or a column |
| views and `CanvasView` | an element for each monitor, a drawing timer | `attach`, `detach`, `update`, `draw_loop`, unified maxima, text overlay | hold `Monitor*`; read and write colours; ask the plugin's options |
| `FlameView` | fuel and a grid of bytes | `recompute_fuel`, `burn` | `rand()` |
| `PreferencesWindow` | type buttons, widgets of the options, rows with `Monitor*` | listeners, toggles, add, remove, change, colours | `Plugin`, settings, the chooser |
| interface names (static, in `NetworkLoadMonitor`) | a name for each interface type, and their defaults | `configure_interface_names`, edits, restore | settings, the chooser, every network monitor |
| `ChooseMonitorWindow` | the fields of a dialog | `run`: nested main loop, then constructs a monitor | `Plugin`, `NetworkLoadMonitor` |

What is hard here, and what makes each component right:

- *Plugin and views.* Every element of a view holds a pointer to a monitor, followed at
  every tick. On each path that deletes a monitor or builds a view anew, each monitor is
  shown exactly once and no deleted one at all.
- *Plugin and settings.* The file is written piecemeal. At every moment it must load, and
  describe the monitors the user sees; a kill loses at most the edit under way.
- *Preferences.* Type buttons toggle in pairs, and the window sets its own buttons when it
  opens, which runs their handlers. View, button and file have to agree afterwards.
- *ValueHistory.* A counted, cached maximum must be exact under any sequence of samples
  and resizes, since it scales the graph.
- *Options.* Each option has five copies: member, file, widget, the view, and the member that
  the next process reads. Handlers run one another, also while the window is being opened.
- *Chooser.* A dialog in a handler: whatever its nested main loop runs, the handler goes on
  with an iterator and a pointer it took before.
- *Views.* Two timers and a late main loop; a scale shared by elements that are measured,
  attached and drawn at different times.
- *Measurement.* Counters vanish, wrap, and restart; differences are unsigned; a maximum
  decays and rises.
- *Settings of a kind.* What `save` writes, `load_monitors` must read back the same, in a group
  in which another monitor left its entries; and the dialog must fill and construct the same.

`PROJECT.json` lists the hazards with their lines, and the properties that cover them.

## 2. Modules

| module | what it is |
|---|---|
| `Histories` | operators on one `ValueHistory` object: `Push`, `PopBack`, `Trim`, `Update`, and comparison with NaN |
| `SlidingWindow` | abstract: a window of the newest samples and its peak |
| `ValueHistory` | `Update` at each tick with any sample and width; implements `SlidingWindow` |
| `SettingsFile` | operators on the settings file: groups, colours, `EmptyDir`, `SaveMonitors`, `LoadMonitors` |
| `MonitorBoard` | abstract: a list of monitors that the user edits and that survives quits and crashes |
| `Plugin` | the plugin with its handlers; implements `MonitorBoard` |
| `MonitorSettings` | operators: what each kind of monitor saves in its group, and what `load_monitors` and its constructor make of a group |
| `Chooser` | one monitor through the chooser window, quits, kills and restarts; uses `MonitorSettings` |
| `Options` | the options of the default group and the interface names: plugin, file, windows, background |
| `Preferences` | the rows of the preferences window and the dialog that a handler waits for |
| `ViewTimers` | abstract: the measuring and the drawing timer in the GLib main loop |
| `Maxima` | operator: what a measurement makes of an adapted `max_value`; used by the next two |
| `GraphView` | a view of any type with its elements under the two timers; uses `Histories`, implements `ViewTimers` |
| `Meters` | one monitor of any kind, and the counters, files and sensors it measures |
| `MC*` | constants of the instances TLC checks |
| `Foundations` | lemmas on induction, lists without repetitions, and the operators of `Histories` |
| `ValueHistory_proofs`, `Plugin_proofs`, `GraphView_proofs`, `Preferences_proofs`, `Options_proofs`, `Chooser_proofs`, `Meters_proofs` | the theorems; those on the operators of `SettingsFile` and `MonitorSettings` are in `Plugin_proofs` and `Chooser_proofs` |

**ValueHistory.** A history is the record of the object's fields. Samples are naturals,
since the code only compares them, and -1 stands for NaN (`Monitor::measure` turns a
negative sample into 0). All comparisons go through `Exceeds` and `Same`, false for NaN as
in C++; `MaxElement` is `std::max_element`, which keeps a NaN that comes first. The variable
`since` observes how long ago a measurement was. A width is at least 1: a column graph asks
for `width / 2 + 1` samples, a curve for one more.

**Plugin.** A handler is described by the record it leaves (`Adding`, `Removing`,
`Replacing`, `Switching`, ...), which threads a `Store`: `next_color`, the file, and the set
`past` of contents the file had on the way. `Handler(r)` then either returns, or is killed:
the file is any of `past` and the process is gone. A kill between handlers leaves the file as
it was; it is a `Save` killed before its first write. What the
variables stand for: `monitors` is `Plugin::monitors`; `object` says which `Monitor` objects
are allocated, with kind and `settings_dir`; `view.elements` are the view's elements, `NoView`
the empty `view` pointer (a settings file that names an unknown type leaves it empty);
`button` is the active type button of the preferences window, `NoWindow` until it is first
opened; `missed` observes that a write has been skipped since the first start.

Details that are easy to miss, and are in the model:

- `get_fg_color` is an argument of `xfce_rc_read_int_entry`, so attaching advances and saves
  `next_color` even if the colour is there (`curve-view.cpp:191`).
- `replace_monitor` keeps the place in `monitors` and the group, but attaches at the end of
  the view.
- GTK tells the button that is switched off first. Its handler calls `viewer_type_listener`
  with its own type, so a change of type may build the old view once more and then the
  new one.
- The preferences window is described with the curve button active. Opening it for another
  type switches buttons, and builds the curve view and then the plugin's view anew.
- `load_monitors` gives the name of a group without a known type to the monitor before it;
  without one, it calls `back()` on an empty list (`LoadFaults`).
- The order of monitors is the order of groups in the file, so it is durable only because
  groups are made in the order of the list.

Abstractions: a monitor's kind and parameters are one value `cfg`, written whole by `save`;
the entries of a group are `cfg` and `color`; all writes of one opening of the file happen at
its close; a missing file is a file of defaults; the four graph views attach by the same
code. A preferences window that is closed is hidden and takes no input; the next opening
replaces it. Background, font, size and overlay settings are in `Options`.

**MonitorSettings and Chooser.** A monitor is a record of what its constructor keeps, a group a
function from entries to values. `Load` has one operator for each branch of `load_monitors`
(with the migration of deprecated network entries), `New*` one for each constructor, `Save*` one
for each `save`. A panel of the dialog is a record of its widgets; `Fill*` is what `run` sets
them to, from a group or not at all, `Accept*` the monitor it constructs. `AcceptCpu` hands over
its arguments in the order of the code, with C++'s conversions. `Printed` is a maximum through
a stream in the user's locale and back through one of the C locale: six digits, with an exponent from
1000000; grouped if the locale groups (`Grouped`), so that 1000 is read back as 1; and with the locale's
point (`DecimalComma`), so that 1234567, printed 1,23457e+06, is read back as 1.
`Change` saves over the old group, whose other entries stay.

`MonitorOf(kind)` is the set of monitors its constructor makes; its maxima fit an int, since two of
the kinds cast theirs to one. `Legible(g)` says what an older version may have left: a group that loads
as a monitor of its kind, a second time as the same one, with entries for the flags that the window and
`load_monitors` default differently. `OldGroups` must be legible, or empty. Selecting a generic
monitor's direction has no effect on a window that is not shown yet, so the first stays selected
(`FillGeneric`, `Unedited`). A disk statistics panel with nothing selected is accepted: the statistic is -1,
saved and loaded like any other, and the monitor's value NaN, until a dialog that is confirmed without an edit makes it
the first one (`FillDiskStats`, `Unedited`). An interface type must be selected. A sensor must be selected in the
model only (`Accepted`): the code does not check it and reads out of bounds.

**Options.** `opt` is what the plugin's members hold, `file` the default group, `lost` the options
whose last write was skipped, `window` the widgets, `painted` the background of the view. A
handler is a function on a `Store` of these; a handler that sets a widget calls that widget's
handler in turn, as GTK does. `names`, `stored`, `rows` are the interface names in use, in the
file and in the chooser window. Names are written together. A text entry is saved when the focus leaves it
(`preferences-window.cpp:884`); typing and that are one step here, so what is half typed is not seen.

**Preferences.** `rows` and `monitors` are lists of objects; `dialog` is the handler that waits
in the dialog, with the row and the monitor it took before. While the dialog is up no other
window takes input (it is modal), but the panel can free the plugin and the window with it:
then the handler returns into a window that is gone (`OkGone`), after which the code has no
defined behaviour and the model only stops using it. `MonitorsAlive` therefore speaks of the plugin's
list, of the rows, and of a handler whose window has not gone. Attaching a monitor takes the next colour, also
for a view that is built anew (`Rebuilt`). An iterator of a GTK list stays valid while its row
exists.

**ViewTimers and GraphView.** Time passes in `Sleep`, by any amount up to `MaxSleep`; an
iteration of the main loop dispatches what is due, in the order the timeouts were attached, and
re-arms each from the time of the iteration. So a late main loop does not make up for draws or
updates that it missed. `first` changes with the view: the plugin's timer is attached after the
first view's and before that of a view chosen later. `GraphView` adds the elements: a `ValueHistory`
for a curve or column (from `Histories`), old and new value for a bar, value and maximum for a
flame, and `drawn`, what was last drawn of it with which scale. `Scale` is
`process_mon_maxes_text_overlay`. `NextTop` is what a measurement makes of a monitor's maximum, by
`Rule`: constant (a CPU), the total that is found (memory, swap, disk usage), the highest value (sensors), or
adapted gradually (`Follow` in `Maxima`: disk statistics, networks, files). A sample may be NaN, as that
of a missing disk statistic; what a bar's boxes are then is undefined, and not in the model. Load averages, whose
maximum is a double, and files whose changes are measured are in `Meters` only. `Tiny` stands for 0.0000001. A view of text has no canvas
and no drawing timer.

**Meters.** `machine` is what the monitor reads, `previous` what it keeps of the last reading.
`slack` is auxiliary: how much the counter has moved beyond what was reported. A file's number is in `Parts`-ths of
one and may be negative; the maximum made of it is whole, as the code's guint64 is. CPU ticks are
subtracted modulo `Word`, as in 64 bits, and a difference that wrapped is `Word` as a double.
Values of doubles are thousandths where the code's are fractions (a load's maximum).

## 3. Runs

| run | instance | what it shows |
|---|---|---|
| `value_history` | samples NaN, 0, 1, 2; widths 1 to 4; interval 3 | the cached maximum and its count are exact, measurements on time, and the history is a sliding window |
| `plugin` | 3 monitor objects, 2 kinds, 3 colours (2 in the palette), a graph and a text view, up to 3 groups; an unknown type in the file possible; kills | view, monitors, file and button in step; colours as chosen; the plugin can always be started again; the list of monitors is durable (`BoardSpec`) |
| `plugin_fails` | 2 monitor objects, 1 kind, 1 colour, writes that begin and cease to fail in the middle of handlers | view, monitors and type button stay in step whatever becomes of the file |
| `settings` | all ten kinds, two settings of their own (one is what an untouched dialog shows, a disk without a statistic included), 2 edits, 3 groups of older versions; quits, kills and restarts | a monitor survives a save, a kill, and a dialog confirmed without an edit; it is the one chosen (`AsChosen`); deprecated entries are gone once the plugin runs (`Converted`) |
| `options` | one or two values of each option, two interface types, 2 changes, writes that fail; default groups empty, full, and of a later version | options in plugin, file, window and background agree; opening the window changes nothing; interface names agree |
| `preferences` | 2 monitors, 3 objects, 2 viewer types | rows and monitors agree, and a waiting handler finds its monitor |
| `view` | 2 of 3 monitors: one without its statistic (NaN), one that adapts its maximum and is measured at every other update, one with a fixed maximum; all five types; 2 draws for an update; 2 changes | see below |
| `meters` | every setting of every kind; counters 0 to 3, halves from -3/2 to 3/2 in files, a word of 7 bits | no value made up, a CPU's share at most 1, values on scale |
| `history_unplugged`, `settings_cpu`, `options_sync`, `preferences_color` | one property each | **violated**: the findings below |

*The properties of `view`.* `OffsetAtMostOne`: between two updates there are never more draws
than steps of a bar's animation, in either order of dispatch and with a late main loop; a bar
is not drawn beyond its new value. `Framed`: a curve or column without a fixed maximum is drawn with room
for every number it shows, if its history knows its peak. One whose cached maximum became NaN (finding 1) counts
for nothing in the common scale and may be drawn beyond its frame: the picture's `peak` tells the two apart.
`SamplesDrawn` (liveness): time and again every sample that was taken has been drawn, although a graph is not
drawn any more some draws after its own sample. `Converges` (liveness): when changes end, curves, columns,
texts and the tooltip come to show what the machine shows, for good, although elements are drawn only for a while
after their own samples. Bars and flames are drawn against `Monitor::max()`, which under a steady load never
rests: at a value of 20 it is 21, then 20, then cut to 19 and raised to 21 again. A flame also
takes fuel only now and then. Each of them, and their overlay, is up to date time and again.

*Why the bounds are enough.* A width of 4 holds two occurrences of a maximum, one of a lower
value and one NaN, and a resize may drop three samples at once. Three monitor objects allow two monitors
and a replacement, a removal from the middle, and a group name that is reused between two others;
two kinds tell an edit that happened from one that did not; a palette of two wraps. `MaxGroups`
bounds the file, so that a colour saved for no group cannot pile up. In `settings`, two edits let a
monitor inherit another kind's entries, with restarts in between; a maximum of 1234567 needs
seven digits. Two changes of options let one be written and another's write be skipped.
Two monitors in `view` share a scale or not, an adapted maximum meets a fixed one and one
that never saw a number, a room of 2 or 3 makes a history trim; two changes are a removal and an attachment, or a change of view
before and after. Counters up to 3 let a counter rise, restart and rise past the old value, and a
word of 7 bits is above the sums that the ticks reach, as 64 bits are. Monitors are
interchangeable, hence symmetry, which is used for safety only.

*Fairness.* `GraphView` assumes weak fairness of time passing and of the two dispatches:
the GLib main loop runs as long as the panel does, and a due timeout is dispatched. The user's
actions and the machine's are nobody's duty; `MaxChanges` bounds them, which is the "when changes
end" of `Converges`. Everything else is safety.

*Stopping.* Every run checks for deadlock: the plugin can always be started, saved or quit,
time passes, and a machine goes on.

**Findings.**

1. `value-history.cpp:36` says the maximum on the graph "is always known". A disk
   statistic the kernel does not report is NaN (`monitor-impls.cpp:1123`) and an unplugged
   disk reads 0. If a window's last maximum is dropped while NaN is the newest sample,
   `std::max_element` returns NaN, and no comparison ever changes the maximum again, although
   numbers are on the graph. Such a graph is scaled by the others alone (`Framed`). `PeakExact` and `SlidingWindow` therefore speak of the maximum as
   long as it is a number, and `SlidingWindow` says when alone it may stop being one.
2. `choose-monitor-window.cpp:981`: a CPU monitor's interval and flags are handed over in another
   order than its constructor takes them. The interval is not the user's (`IntervalAsChosen`).
3. `preferences-window.cpp:1191`: the option to share scales by type is saved as one entry
   and read as another (`SyncKept`).
4. `preferences-window.cpp:325`: the alpha of the colour button is set only if the hue did not
   change, so the button shows a colour that is not the selected monitor's (`ColorShown`).

Not a finding of a run, but met on the way: a comment (`canvas-view.cpp:182`) says that graphs whose maximum is
fixed are "not supposed to be scaled". Curves and columns are not; `Bar::draw` and `Flame::burn` are given the
common scale whether the maximum is fixed or not, and so are `DrawnBar` and `Fuelled`.

A limit of `Converted`: a comment (`choose-monitor-window.cpp:729`) relies on deprecated interface
entries having been updated when the window is filled. `load_monitors` updates them in the groups of
network monitors only, and no `save` deletes an entry. A group of a version up to 1.4.6 in which another
kind replaced the network monitor keeps them; when the user puts a network monitor back, the next start reads them
instead of the interface that was chosen. The old groups of `settings` have no such entries
(`NothingLeft`); `MCStaleGroups` in place of `MCOldGroups` shows it.

What the code does not keep is left out of the properties of `settings` by name, in the
comments there: `fixed_max` of a load average, the maximum of a temperature, a generic monitor's
direction when its dialog is confirmed without an edit, likewise that a disk has no statistic, and a fan, whose dialog shows a CPU's panel. In `meters`, `OnScale` lets a file's number be beyond its maximum by less than one, since the maximum is cut to
a whole number (0.5 gets 0), and leaves out the changes of a file's number, since the maximum follows the number; `CpuFraction` leaves out a monitor that
counts iowait while the kernel takes iowait ticks back; `NothingMadeUp` the first value after
the user renamed an interface.

## 4. Proofs

Assumptions are those of the modules: `HistoryAssumption` (samples are naturals or NaN, widths
are positive, the interval a natural), `PluginAssumption` (the palette is a non-empty
sequence of colours, the special values are distinct from the others, the user is offered
known types), `OptionsAssumption` (a default group of another version has values of an option's type; no
name or font is empty), `PreferencesAssumption` (colours are a hue and an alpha),
`SettingsAssumption` and `ChooserAssumption` (a sensor's maximum fits an int, what the user sets fits
the widgets, old groups are `Legible`), `TimersAssumption` and `GraphAssumption` (the measuring interval is the
drawing one times the draws of an animation, as 1000 ms is 10 times 100 ms; sets are finite,
samples natural or NaN), and
`MetersAssumption` (the word is larger than the counters' sums; None and NaN are no numbers).
TLC evaluates them in the runs.

*ValueHistory.* The inductive invariant is `IInv`: the record's types, `SoundHistory` (if the
maximum is a number then it is the peak and its count is exact) and `WaitsAddUp` (the countdown
and the time waited add up to the interval). `SoundHistory` is proved kept by `Push` and by `PopBack`, and so
by `Trim`, an induction on the samples in excess. The cardinalities behind the counts are in
`Foundations`. From `IInv`: `TypeCorrect`, `PeakIsExact`, `MeasuredOnTime`; and, with the shape of the
window after `Trim`, `ImplementsWindow`: every tick is a step of `SlidingWindow`.

*Plugin.* `TypeOK`, `OneElementPerMonitor` and `ViewIsChosen` are inductive together, with
neither of the last two inductive alone: a view that shows each monitor once is built from
`object` and `monitors`, whose types and injectivity are needed. `Good(r)` states the three of the record
a handler leaves; for each handler there is a lemma that `Good` holds of it (`AddingGood`,
`RemovingGood`, `ReplacingGood`, `SwitchingGood`, ...), and `HandlerKeeps` carries it over to
the next state, returned or killed. The theorems hold for any number of monitors, kinds,
colours and groups, and with writes that fail.

*Plugin and its file.* `FileInStep` is not inductive: a handler adds groups to the file in the middle,
and a kill leaves a file that no running plugin describes. `Recorded` says what holds of both: unless a write was
skipped, the groups have distinct names and each a type, and while the plugin runs they are, in order,
the list of monitors. `FileIInv` adds it and `DrawnInItsColor` to the invariant above. For each handler a lemma (`AddingRecords`,
`RemovingRecords`, ...) says that its record lists its monitors (`Written`) and that every file it had
on the way (`past`) lists either the old monitors or the new ones; from this `HandlerRecords` covers
the return and the kill between any two writes. `EmptyDir` is shown to find a name no group has.
`FileDescribesPlugin`, `GraphsInTheirColors` and `StartsAgain` follow, and `ListIsDurable`: a handler
that returns makes its edit of `MonitorBoard`, one that is killed makes it or does not, and
a start shows the list the file has, or the default monitor.

*GraphView.* First the timers: draws since the last update, times the drawing interval, are at
most the time since that update plus what is left until the next draw. That is inductive for
`ViewTimers`, and `ImplementsTimers` carries it over to `GraphView`: `OffsetIsAtMostOne`. Then the
elements: each history is a `SoundHistory` with a known maximum (by the lemmas on `Histories`), each
picture framed if its history knew its peak, each value a sample, each monitor's maximum a number, whatever
`NextTop` made of it; `Scale` over a finite group covers the maximum of each of its members that has
one. From these: `TypeCorrect` and `AllFramed`, for any monitors, samples (NaN included), sizes and intervals.

*Preferences.* The list is without repetitions; rows are the monitors whenever the window is shown
or a handler waits; and the row a waiting handler remembers has the monitor it remembers. The
three are inductive together, since removing a row is right only if it is the one of the
monitor that is removed. `ListShowsMonitors`, `AllAlive` (the list, the rows and the waiting handler hold no
deleted monitor), `DialogRemembers`; with the types of
the colours and of what a handler remembers (`ColorsOK`, `MemoryOK`), `TypesKept`.

*Options.* A handler is a composition of functions on a `Store`, so the proof is about these: `Sound(s)`
says that the options of a store have their types, agree with the file but for the lost ones, and that
the background is painted as they say. `Changed(s, k, v, p)` is what a handler that
saves one option leaves, and keeps `Sound`. `Refreshed(s, t)` is what opening the window may do in each of its
steps, the handlers of the widgets it sets included: the options stay, and of what would be read each is as it
was or the option in use. It is transitive, which gives `OpeningIsSilent`. Setting a font's check button saves
the font that its button shows, so the button must come first.
The interface names are apart (`NamesOK`). From the two, `IInv`: `TypesKept`, `OptionsAreSaved`,
`BackgroundIsChosen`, `WindowShowsOptions`, `NamesAgree`.

*Chooser.* First the operators: `Printed` is idempotent and, with neither grouping nor a decimal comma, near its argument; for
each kind, `Save` over any group leaves one that loads as `Restarted` of the monitor (`Save*Kept`, `SaveIs`), a
panel filled from a group is accepted as the monitor the group loads as (`FilledAlike`), and a
second restart changes nothing (`RestartSettles`). Then three invariants, each resting on the one before. `TInv`
pairs a monitor with a legible group of its kind: `TypesKept`. `KInv` adds `KillKeeps` and `Clean`, that
deprecated entries are there before the first start only: `SavesKeep`, `KillsKeep`,
`EntriesConverted`, `OkIsRestart`. `CInv` adds that both the monitor and its group, of which a kill leaves
the latter, show the last choice (`Shows`, `Remembered`): `ChosenIsKept`. Those from `KInv` on assume
`NothingLeft`, that no network monitor of an older version left entries to another kind:
section 3 says what happens otherwise. `ChosenIsKept` holds in every locale: the maximum is what was chosen or
what one printing leaves of it, and the six digits of it where the locale has neither groups nor a comma.

*Meters.* The invariant behind `NeverMadeUp` is that the slack is never less than what the next
measurement can report (`NetworkOwed`, `DiskOwed`, `FileOwed`): a counter that restarts is below
what was read of it, and the changes of a file's number add up in each of the three ways of counting
(`ChangesAddUp`). `AllOnScale` rests on the order of decay and rise in `Follow`, and on what the cut to a whole number takes
away at most (`FollowCovers`).
`NeverMoreThanWholly` first shows that no ticks but those of iowait are ever taken back
(`TicksGrow`), then what a difference of ticks is modulo the word and what a double makes of it
(`Wrapped`, `WrappedTwice`): the busy ticks, when their difference wraps, make at most one word,
and the iowait ticks, when theirs does, take exactly one word away.

*Not proved.* Liveness (`SamplesDrawn`, `Converges`) and what a recursive definition computes for every
input are beyond the prover, and model-checked only. All other properties of the passing
runs are theorems.

## 5. Plan

1. `Preferences` composed with `Plugin`: the nested main loop with the file and kills; then that the composition
   implements both, so that their theorems hold of it.
2. The fairness-free part of `Converges`: that a view at rest whose elements were all drawn shows
   the newest values.
3. The remaining signals of the panel (size, orientation), and a flame's bytes.

## 6. Not modelled

Reading `/proc`, libgtop and lm_sensors, and matching a regular expression; an empty file of
a generic monitor, which makes the code throw; pixels, canvas items and widget layout, the bytes of a
flame's parabola and their cooling; formatting of values, translation and tooltips' wording; a generic
monitor's unit texts; the About dialog; the upgrade script; registration with the panel, build and
packaging files. They keep no state the properties speak of. Thread interleavings do not exist in
this program.

Taken as given about the libraries: selecting a radio button deselects its group's others, telling
the deselected first; a modal dialog keeps input from the other windows; a timeout is re-armed from
the time it is dispatched; XfceRc writes a file at its close; one process for each item of the panel.
