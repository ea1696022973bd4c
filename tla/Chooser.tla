------------------------------ MODULE Chooser ------------------------------
(***************************************************************************)
(* The chooser window and one monitor of the plugin over its life: the user*)
(* adds it, changes it in the window (which is filled from the monitor's   *)
(* settings group), the plugin is stopped or killed and started again.     *)
(* Pressing OK is one step: what else can happen while the window is open  *)
(* is the subject of module Preferences.                                   *)
(*                                                                         *)
(* The state of the window that matters is the panel of the selected kind: *)
(* the widgets of the other kinds do not reach the monitor.                *)
(***************************************************************************)
EXTENDS MonitorSettings

CONSTANTS
  Offered,      \* the kinds of monitors the user chooses
  OwnChoices,   \* for each kind, what the user makes of the kind's own widgets
  Delays,       \* the seconds the user sets a refresh delay to
  Maxima,       \* the maxima the user sets, and those that are measured
  Tags,         \* the tags the user sets
  OldGroups,    \* the groups a plugin of this or an older version may have left
  MaxChanges,   \* bound: how often the user presses OK
  None

\* What a kind's own widgets can hold; -1 is a list with nothing selected.
OwnWidgets ==
  [Own EXCEPT
     !.cpu_usage = [one : BOOLEAN, no : Nat, low : BOOLEAN, iowait : BOOLEAN],
     !.disk_statistics = [disk_stats_device : Texts, disk_stats_stat : -1 .. NumStats - 1],
     !.network_load = [interface_type : -1 .. NumInterfaceTypes - 1,
                       interface_direction : -1 .. NumDirections - 1],
     !.temperature = [temperature_no : Int], !.fan_speed = [fan_no : Int]]

\* The entries that are read as flags, by the last branch of run() whatever the kind.
FlagsRead(g) ==
  \A key \in {"fixed_max", "include_low_priority", "include_iowait"} :
    Entry(g, key, FALSE) \in BOOLEAN

\* A group that a save wrote: it loads as a monitor, a second time as the same one, and
\* has the entries for which the window and load_monitors differ in their defaults.
Legible(g) ==
  /\ FlagsRead(g)
  /\ "type" \in DOMAIN g /\ g.type \in Kinds
  /\ Load(g) \in MonitorOf(g.type)
  /\ g.type # "load_average" => Restarted(Load(g)) = Load(g)
  /\ g.type \in {"memory_usage", "swap_usage", "disk_usage"} => "fixed_max" \in DOMAIN g
  /\ g.type = "disk_usage" => "mount_dir" \in DOMAIN g

ASSUME ChooserAssumption ==
  /\ Offered \subseteq Kinds
  /\ \A k \in Offered : OwnChoices[k] \subseteq OwnWidgets[k]
  /\ Delays \subseteq Seconds
  /\ Maxima \subseteq 0 .. Largest
  /\ Tags \subseteq Texts
  /\ \A g \in OldGroups \ {<<>>} : Legible(g)
  /\ MaxChanges \in Nat

VARIABLES
  group,        \* the entries of the monitor's group in the settings file
  mon,          \* the monitor, None while the plugin is not running
  chosen,       \* the panel whose OK made the monitor, None before (observed)
  changes       \* how often the user pressed OK

vars == <<group, mon, chosen, changes>>
--------------------------------------------------------------------------
(* The widgets.  A new window is constructed each time it is opened. *)

Panel(kind, own, delay, fixed, max, tag, overlay) ==
  [kind |-> kind, own |-> own, delay |-> delay, fixed |-> fixed, max |-> max,
   tag |-> tag, overlay |-> overlay]

\* The spin buttons of the refresh delays (seconds) and of the load's maximum.
LoadMax == 1000
Clamp(n, low, high) == IF n < low THEN low ELSE IF n > high THEN high ELSE n
Delay(milliseconds) == Clamp(milliseconds \div 1000, 1, 9999)

\* The widgets of a kind in a window that was not filled from a group: nothing is
\* selected in the lists (-1).
FreshOwn ==
  [cpu_usage |-> [one |-> FALSE, no |-> 1, low |-> FALSE, iowait |-> FALSE],
   memory_usage |-> [none |-> 0], swap_usage |-> [none |-> 0],
   load_average |-> [none |-> 0],
   disk_usage |-> [mount_dir |-> "/", show_free |-> FALSE],
   disk_statistics |-> [disk_stats_device |-> "", disk_stats_stat |-> -1],
   network_load |-> [interface_type |-> -1, interface_direction |-> -1],
   temperature |-> [temperature_no |-> -1], fan_speed |-> [fan_no |-> -1],
   generic |-> [file_path |-> "", value_from_contents |-> TRUE, regex |-> "",
                follow_change |-> FALSE, value_change_direction |-> 0,
                data_source_name |-> ""]]
Fresh(k) ==
  Panel(k, FreshOwn[k], Default[k] \div 1000,
        k \in {"cpu_usage", "memory_usage", "swap_usage", "disk_usage"}, 0, "", TRUE)

\* What the "default" button beside a refresh delay sets it to.
ButtonDelay(k) == Default[k] \div 1000
\* The fan's takes the default of another kind.
FanButtonDelay == Default.disk_statistics \div 1000
DefaultDelay(k) == IF k = "fan_speed" THEN FanButtonDelay ELSE ButtonDelay(k)

Interval(g, k) ==
  LET n == Entry(g, "update_interval", -1)
  IN  Delay(IF n = -1 THEN Default[k] ELSE n)

\* What run() sets of the widgets that every kind has; fixed_max is read with another
\* default for each kind, and the maximum only where there is a button for it.
Fill(g, k, own, fixed, max) ==
  Panel(k, own, Interval(g, k), fixed, max, Entry(g, "tag", ""),
        Entry(g, "add_to_text_overlay", TRUE))
Fixed(g, default) == Entry(g, "fixed_max", default)
MaxOf(g) == Entry(g, "max", 0)

\* run() with the group of a monitor to change, for each type.
FillMemory(g) == Fill(g, "memory_usage", FreshOwn.memory_usage, Fixed(g, TRUE), 0)
FillLoadAverage(g) ==
  Fill(g, "load_average", FreshOwn.load_average, Fixed(g, FALSE),
       Clamp(MaxOf(g), 0, LoadMax))
FillDiskUsage(g) ==
  Fill(g, "disk_usage", [mount_dir |-> Entry(g, "mount_dir", ""),
                         show_free |-> Entry(g, "show_free", FALSE)], Fixed(g, TRUE), 0)
FillDiskStats(g) ==
  LET stat == Entry(g, "disk_stats_stat", 0)
  IN  Fill(g, "disk_statistics",
           [disk_stats_device |-> Entry(g, "disk_stats_device", ""),
            disk_stats_stat |-> IF stat \in 0 .. NumStats - 1 THEN stat ELSE 0],
           Fixed(g, FALSE), MaxOf(g))
FillSwap(g) == Fill(g, "swap_usage", FreshOwn.swap_usage, Fixed(g, TRUE), 0)

(* Mutant: the direction is not selected in its list. *)
MutFillNetwork(g) ==
  LET type == Entry(g, "interface_type", 0)
  IN  Fill(g, "network_load",
           [interface_type |-> IF type \in 0 .. NumInterfaceTypes - 1 THEN type ELSE 0,
            interface_direction |-> -1], Fixed(g, FALSE), MaxOf(g))

FillNetwork(g) ==
  LET type == Entry(g, "interface_type", 0)
      direction == Entry(g, "interface_direction", 0)
  IN  Fill(g, "network_load",
           [interface_type |-> IF type \in 0 .. NumInterfaceTypes - 1 THEN type ELSE 0,
            interface_direction |->
              IF direction \in 0 .. NumDirections - 1 THEN direction ELSE 0],
           Fixed(g, FALSE), MaxOf(g))
FillTemperature(g) ==
  Fill(g, "temperature", [temperature_no |-> Entry(g, "temperature_no", 0)],
       Fixed(g, FALSE), MaxOf(g))
\* The direction's button is activated, which does nothing as long as the window is not
\* shown: the first direction stays selected.
FillGeneric(g) ==
  Fill(g, "generic",
       [file_path |-> Entry(g, "file_path", ""),
        value_from_contents |-> Entry(g, "value_from_contents", FALSE),
        regex |-> Entry(g, "regex", ""),
        follow_change |-> Entry(g, "follow_change", FALSE),
        value_change_direction |-> 0,
        data_source_name |-> Entry(g, "data_source_name", "")],
       Fixed(g, FALSE), MaxOf(g))
\* The last branch, taken for every other type: a fan's as well.
FillCpu(g) ==
  LET no == Entry(g, "cpu_no", AllCpus)
  IN  Fill(g, "cpu_usage",
           [one |-> no \in 0 .. MaxCpus - 1,
            no |-> IF no \in 0 .. MaxCpus - 1 THEN no + 1 ELSE 1,
            low |-> Entry(g, "include_low_priority", FALSE),
            iowait |-> Entry(g, "include_iowait", FALSE)], Fixed(g, TRUE), 0)

Filled(g) ==
  CASE g.type = "memory_usage" -> FillMemory(g)
    [] g.type = "load_average" -> FillLoadAverage(g)
    [] g.type = "disk_usage" -> FillDiskUsage(g)
    [] g.type = "disk_statistics" -> FillDiskStats(g)
    [] g.type = "swap_usage" -> FillSwap(g)
    [] g.type = "network_load" -> FillNetwork(g)
    [] g.type = "temperature" -> FillTemperature(g)
    [] g.type = "generic" -> FillGeneric(g)
    [] OTHER -> FillCpu(g)
--------------------------------------------------------------------------
(* The OK button: the monitor that is made of a panel. *)

\* What the user must have entered.  That a sensor is selected is not checked by the code,
\* which then reads out of bounds; nor that a statistic is, and the monitor has none.  A
\* file or directory that does not exist is accepted when the user insists.
Accepted(p) ==
  CASE p.kind = "network_load" -> p.own.interface_type # -1
    [] p.kind = "temperature" -> p.own.temperature_no \in DOMAIN SensorMax
    [] p.kind = "fan_speed" -> p.own.fan_no \in DOMAIN SensorMax
    [] p.kind = "generic" ->
         /\ p.own.data_source_name # ""
         /\ p.own.value_from_contents \/ p.own.regex # ""
    [] OTHER -> TRUE

\* The widgets that go to the constructor as they are.
Arguments(p) ==
  [interval |-> Milliseconds(p.delay), fixed |-> p.fixed, max |-> p.max, tag |-> p.tag,
   overlay |-> p.overlay]

\* C++ turns the arguments into the types of the parameters.
AsBool(n) == n # 0
AsInt(b) == IF b THEN 1 ELSE 0

\* The arguments of a CPU monitor come in another order than the constructor's
\* parameters: the interval, then the two flags.
AcceptCpu(p) ==
  NewCpu(IF p.own.one THEN p.own.no - 1 ELSE AllCpus, p.fixed, AsBool(Milliseconds(p.delay)),
         p.own.low, AsInt(p.own.iowait), p.tag, p.overlay)
AcceptMemory(p) == NewMemory(Arguments(p))
AcceptSwap(p) == NewSwap(Arguments(p))
AcceptLoadAverage(p) == NewLoadAverage(Arguments(p))
AcceptDiskUsage(p) == NewDiskUsage(p.own, Arguments(p))
AcceptDiskStats(p) == NewDiskStats(p.own, Arguments(p))

(* Mutant: a direction that is not selected is not taken for the first. *)
MutAcceptNetwork(p) == NewNetwork(p.own, Arguments(p))

AcceptNetwork(p) ==
  NewNetwork([p.own EXCEPT !.interface_direction = IF @ \in 1 .. 2 THEN @ ELSE 0],
             Arguments(p))
AcceptTemperature(p) == NewTemperature(p.own, Arguments(p))
AcceptFan(p) == NewFan(p.own, Arguments(p))
AcceptGeneric(p) == NewGeneric(p.own, Arguments(p))

\* What OK without an edit leaves of what a monitor observes: a generic one has the first
\* direction, a disk's without a statistic has the first.
Unedited(own) ==
  [key \in DOMAIN own |->
     IF key = "value_change_direction" \/ (key = "disk_stats_stat" /\ own[key] = -1)
     THEN 0 ELSE own[key]]

Accept(p) ==
  CASE p.kind = "cpu_usage" -> AcceptCpu(p)
    [] p.kind = "memory_usage" -> AcceptMemory(p)
    [] p.kind = "swap_usage" -> AcceptSwap(p)
    [] p.kind = "load_average" -> AcceptLoadAverage(p)
    [] p.kind = "disk_usage" -> AcceptDiskUsage(p)
    [] p.kind = "disk_statistics" -> AcceptDiskStats(p)
    [] p.kind = "network_load" -> AcceptNetwork(p)
    [] p.kind = "temperature" -> AcceptTemperature(p)
    [] p.kind = "fan_speed" -> AcceptFan(p)
    [] p.kind = "generic" -> AcceptGeneric(p)

\* The panels the user makes of a kind.
Edits(k) ==
  [kind : {k}, own : OwnChoices[k], delay : Delays \cup {DefaultDelay(k)}, fixed : BOOLEAN,
   max : Maxima, tag : Tags, overlay : {FALSE}]
--------------------------------------------------------------------------
Init ==
  /\ group \in OldGroups
  /\ mon = None /\ chosen = None /\ changes = 0

\* A plugin without monitors makes the default one and saves it.
Start ==
  /\ mon = None
  /\ IF group = <<>>
     THEN mon' = DefaultMonitor /\ group' = Save(group, DefaultMonitor)
     ELSE mon' = Load(group) /\ group' = Migrated(group)
  /\ UNCHANGED <<chosen, changes>>

\* The plugin's destructor saves its monitors; if the panel is killed, nothing does.
Stop ==
  /\ mon # None
  /\ group' \in {group, Save(group, mon)}
  /\ mon' = None
  /\ UNCHANGED <<chosen, changes>>

Press(p, g) ==
  /\ mon # None /\ changes < MaxChanges
  /\ Accepted(p)
  /\ mon' = Accept(p)
  /\ group' = Save(g, Accept(p))
  /\ changes' = changes + 1

\* "Change", with an edit, over the old monitor's group; or "Add", in a group of its own.
Change(p) == Press(p, group) /\ chosen' = p
Add(p) == Press(p, <<>>) /\ chosen' = p

\* "Change", and OK without an edit.
Keep == Press(Filled(group), group) /\ UNCHANGED chosen

\* A measurement raises the maximum of a monitor that has one to measure.
Measure ==
  /\ mon # None /\ mon.kind # "cpu_usage"
  /\ ~ mon.fixed \/ mon.kind \in {"memory_usage", "swap_usage", "disk_usage"}
  /\ \E n \in Maxima : mon' = [mon EXCEPT !.max = n]
  /\ UNCHANGED <<group, chosen, changes>>

Next ==
  \/ Start
  \/ Stop
  \/ \E k \in Offered : \E p \in Edits(k) : Change(p) \/ Add(p)
  \/ Keep
  \/ Measure

Spec == Init /\ [][Next]_vars
--------------------------------------------------------------------------
\* A monitor is one that its constructor makes, and its group loads as one of its kind.
TypeOK ==
  /\ group # <<>> => Legible(group)
  /\ mon # None => mon.kind \in Kinds /\ mon \in MonitorOf(mon.kind)
  /\ chosen # None => chosen.kind \in Offered /\ chosen \in Edits(chosen.kind)
  /\ changes \in 0 .. MaxChanges

\* A restart after a save gives back the monitor the user has, whichever monitors left
\* entries in its group before.  A load average is left out: it does not save that its
\* maximum is fixed.
SaveKeeps ==
  mon # None /\ mon.kind # "load_average" => Load(Save(group, mon)) = Restarted(mon)

\* So does a restart after the panel was killed at any other time.
KillKeeps ==
  mon # None /\ mon.kind # "load_average" => Load(group) = Restarted(mon)

\* The same number, to six digits.
Near(n, max) == n - max \in -(max \div 100000) .. max \div 100000

\* The monitor is the one chosen last, through any number of restarts and of OKs without
\* an edit.  Its maximum is the one chosen or, from the first restart on, what one printing
\* leaves of that: six digits of it, unless the locale groups digits or has a decimal comma.
\* What the code does not keep is left out: the flags and interval of a CPU's
\* (IntervalAsChosen), all of a fan's, what OK without an edit changes (Unedited), the
\* maximum of a temperature's and of a load average.
AsChosen ==
  mon # None /\ chosen # None /\ chosen.kind # "fan_speed" =>
    /\ mon.kind = chosen.kind /\ mon.tag = chosen.tag /\ mon.overlay = chosen.overlay
    /\ chosen.kind # "cpu_usage" =>
         /\ mon.own \in {Accept(chosen).own, Unedited(Accept(chosen).own)}
         /\ mon.interval = Milliseconds(chosen.delay)
    /\ chosen.kind # "load_average" => mon.fixed = chosen.fixed
    /\ chosen.kind \in {"disk_statistics", "network_load", "generic"} /\ chosen.fixed =>
         /\ mon.max \in {chosen.max, Printed(chosen.max)}
         /\ ~ Grouped /\ ~ DecimalComma => Near(mon.max, chosen.max)

\* "Change" and OK without an edit does what a restart does, but for the kinds named above
\* and a direction or a statistic that is not selected again (Unedited); also when the
\* group was left by an older version.
KeepIsRestart ==
  [][Keep /\ mon.kind \notin {"cpu_usage", "fan_speed", "load_average"}
       => mon' = [Restarted(mon) EXCEPT !.own = Unedited(@)]]_vars

\* The interval between updates is the one the user configured, for every kind.
IntervalAsChosen ==
  mon # None /\ chosen # None => mon.interval = Milliseconds(chosen.delay)

\* "By the time this code is reached, deprecated configuration will be updated": when the
\* window is filled from the group of a network monitor.
Converted ==
  mon # None /\ group.type = "network_load" => ~ Deprecated(group)

\* The groups for which that is so: those without entries that a network monitor of an
\* older version left to a monitor of another kind.
NothingLeft == \A g \in OldGroups \ {<<>>} : Deprecated(g) => g.type = "network_load"
==========================================================================
