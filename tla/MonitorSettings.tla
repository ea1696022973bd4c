-------------------------- MODULE MonitorSettings --------------------------
(***************************************************************************)
(* The settings group of one monitor, for the ten kinds of monitors: what  *)
(* a monitor saves, what load_monitors reads back, what the chooser window *)
(* shows of a group and which monitor its OK button makes.  A group is a   *)
(* function from the keys of its entries to their values; a monitor that   *)
(* takes the place of another saves over the entries of its predecessor.   *)
(*                                                                         *)
(* The entries that identify what is observed are the monitor's "own".     *)
(* Strings are members of small sets; the two names and two units of a     *)
(* generic monitor are one entry, data_source_name.                        *)
(***************************************************************************)
EXTENDS Integers, FiniteSets

CONSTANTS
  MaxCpus,      \* CpuUsageMonitor::max_no_cpus, GLIBTOP_NCPU
  SensorMax,    \* the maximum of each sensor: its own, or the default for its kind
  Grouped,      \* the user's locale sets digits in groups
  DecimalComma, \* and a comma before the fraction
  Texts         \* the names, paths, expressions and tags

Largest == 2147483647  \* of an int: disk statistics and network loads cast a maximum to one

ASSUME SettingsAssumption ==
  /\ MaxCpus \in Nat /\ {Grouped, DecimalComma} \subseteq BOOLEAN /\ {"", "/"} \subseteq Texts
  /\ DOMAIN SensorMax \subseteq Nat /\ \A n \in DOMAIN SensorMax : SensorMax[n] \in 0 .. Largest

\* update_interval_default of each kind, in milliseconds.
Default == [cpu_usage |-> 1000, memory_usage |-> 10000, swap_usage |-> 10000,
            load_average |-> 30000, disk_usage |-> 60000, disk_statistics |-> 1000,
            network_load |-> 1000, temperature |-> 20000, fan_speed |-> 20000,
            generic |-> 1000]
Kinds == DOMAIN Default
AllCpus == -1
NumStats == 17
NumInterfaceTypes == 8
NumDirections == 3
--------------------------------------------------------------------------
(* Entries. *)

\* xfce_rc_read_*_entry
Entry(g, key, default) == IF key \in DOMAIN g THEN g[key] ELSE default

\* xfce_rc_write_*_entry of several entries: the group's other entries stay.
Write(g, entries) ==
  [key \in DOMAIN g \cup DOMAIN entries |->
     IF key \in DOMAIN entries THEN entries[key] ELSE g[key]]

\* xfce_rc_delete_entry
Without(g, keys) == [key \in DOMAIN g \ keys |-> g[key]]

Rounded(n, unit) ==
  LET q == n \div unit
      r == 2 * (n % unit)
  IN  unit * (IF r > unit \/ (r = unit /\ q % 2 = 1) THEN q + 1 ELSE q)

\* A number with more digits than a double is printed with: six of them and an exponent,
\* "1.23457e+06".
SixDigits(n) ==
  Rounded(n, CHOOSE u \in {10, 100, 1000, 10000} :
               100000 <= n \div u /\ n \div u < 1000000)

\* Where the point is a comma, what follows it is not read back; there is none in "2e+06".
Powers == {1000000, 10000000, 100000000, 1000000000}
FirstDigit(n) == n \div (CHOOSE u \in Powers : n \div u \in 1 .. 9)
HasComma(n) == n \notin {FirstDigit(n) * u : u \in Powers}
Exponential(n) ==
  IF DecimalComma /\ HasComma(SixDigits(n)) THEN FirstDigit(SixDigits(n)) ELSE SixDigits(n)

\* A double printed by String::ucompose, in the user's locale and with six digits, and
\* read back by load_monitors, whose stream has the C locale: it stops at a comma, and
\* takes a point for that of a fraction, of which the model keeps the whole part.
Printed(n) ==
  IF n < 1000000
  THEN IF Grouped /\ n >= 1000 THEN n \div 1000 ELSE n
  ELSE Exponential(n)

\* The entries all the kinds read first: what load_monitors hands to a constructor.
Read(g, default) ==
  [interval |-> IF Entry(g, "update_interval", -1) = -1 THEN default
                ELSE g.update_interval,
   fixed |-> Entry(g, "fixed_max", FALSE), max |-> Entry(g, "max", 0),
   tag |-> Entry(g, "tag", ""), overlay |-> Entry(g, "add_to_text_overlay", TRUE)]

\* "Only save the max if it is a user-set fixed max, otherwise effectively reset it"
MaxToSave(m) == IF m.fixed THEN Printed(m.max) ELSE 0

\* The monitors of each kind; a disk's statistic may be -1, none, whose value is NaN.  The
\* window counts their intervals in seconds.
Own ==
  [cpu_usage |-> [cpu_no : {AllCpus} \cup 0 .. MaxCpus - 1,
                  include_low_priority : BOOLEAN, include_iowait : BOOLEAN],
   memory_usage |-> [none : {0}], swap_usage |-> [none : {0}], load_average |-> [none : {0}],
   disk_usage |-> [mount_dir : Texts, show_free : BOOLEAN],
   disk_statistics |-> [disk_stats_device : Texts, disk_stats_stat : -1 .. NumStats - 1],
   network_load |-> [interface_type : 0 .. NumInterfaceTypes - 1,
                     interface_direction : 0 .. NumDirections - 1],
   temperature |-> [temperature_no : DOMAIN SensorMax], fan_speed |-> [fan_no : DOMAIN SensorMax],
   generic |-> [file_path : Texts, value_from_contents : BOOLEAN, regex : Texts,
                follow_change : BOOLEAN, value_change_direction : 0 .. NumDirections - 1,
                data_source_name : Texts]]
Seconds == 1 .. 9999  \* of the window's spin buttons
Milliseconds(seconds) == 1000 * seconds
Intervals == {Milliseconds(seconds) : seconds \in Seconds}
MonitorOf(kind) ==
  [kind : {kind}, own : Own[kind], interval : IF kind = "cpu_usage" THEN Nat ELSE Intervals,
   fixed : BOOLEAN, max : 0 .. Largest, tag : Texts, overlay : BOOLEAN]

Monitor(kind, own, c, max) ==
  [kind |-> kind, own |-> own, interval |-> c.interval, fixed |-> c.fixed,
   max |-> max, tag |-> c.tag, overlay |-> c.overlay]
--------------------------------------------------------------------------
(* The constructors; c holds the arguments common to the kinds. *)

NewCpu(no, fixed, low, iowait, interval, tag, overlay) ==
  [kind |-> "cpu_usage",
   own |-> [cpu_no |-> IF no \in 0 .. MaxCpus - 1 THEN no ELSE AllCpus,
            include_low_priority |-> low, include_iowait |-> iowait],
   interval |-> interval, fixed |-> fixed, max |-> 1, tag |-> tag, overlay |-> overlay]
NewMemory(c) == Monitor("memory_usage", [none |-> 0], c, 0)
NewSwap(c) == Monitor("swap_usage", [none |-> 0], c, 0)
NewLoadAverage(c) == Monitor("load_average", [none |-> 0], c, c.max)
NewDiskUsage(own, c) == Monitor("disk_usage", own, c, 0)
NewDiskStats(own, c) == Monitor("disk_statistics", own, c, c.max)
NewNetwork(own, c) == Monitor("network_load", own, c, c.max)
\* The two kinds of sensors take the sensor's maximum, whatever they were given.
NewTemperature(own, c) == Monitor("temperature", own, c, SensorMax[own.temperature_no])
NewFan(own, c) == Monitor("fan_speed", own, c, SensorMax[own.fan_no])
NewGeneric(own, c) == Monitor("generic", own, c, c.max)

DefaultMonitor == NewCpu(AllCpus, TRUE, FALSE, FALSE, 1000, "", TRUE)
--------------------------------------------------------------------------
(* load_monitors, one branch for each kind. *)

LoadCpu(g) ==
  LET c == Read(g, Default.cpu_usage)
  IN  NewCpu(Entry(g, "cpu_no", AllCpus), c.fixed, Entry(g, "include_low_priority", FALSE),
             Entry(g, "include_iowait", FALSE), c.interval, c.tag, c.overlay)
LoadMemory(g) == NewMemory(Read(g, Default.memory_usage))
LoadSwap(g) == NewSwap(Read(g, Default.swap_usage))
LoadLoadAverage(g) == NewLoadAverage(Read(g, Default.load_average))
LoadDiskUsage(g) ==
  NewDiskUsage([mount_dir |-> Entry(g, "mount_dir", "/"),
                show_free |-> Entry(g, "show_free", FALSE)], Read(g, Default.disk_usage))
LoadDiskStats(g) ==
  NewDiskStats([disk_stats_device |-> Entry(g, "disk_stats_device", ""),
                disk_stats_stat |-> Entry(g, "disk_stats_stat", 0)],
               Read(g, Default.disk_statistics))

\* The interface type that the deprecated entries of versions up to 1.4.6 stand for.
Deprecated(g) == "interface_no" \in DOMAIN g
OldInterfaceType(g) ==
  LET inter == Entry(g, "interface", "eth0")
  IN  CASE inter = "eth" /\ g.interface_no \in 0 .. 2 -> g.interface_no
        [] inter = "ppp" -> 3
        [] inter = "slip" -> 4
        [] OTHER -> 5

LoadNetwork(g) ==
  LET direction == Entry(g, "interface_direction", 0)
  IN  NewNetwork([interface_type |-> IF Deprecated(g) THEN OldInterfaceType(g)
                                     ELSE Entry(g, "interface_type", 0),
                  interface_direction |->
                    IF direction \in 0 .. NumDirections - 1 THEN direction ELSE 0],
                 Read(g, Default.network_load))
LoadTemperature(g) ==
  NewTemperature([temperature_no |-> Entry(g, "temperature_no", 0)],
                 Read(g, Default.temperature))
LoadFan(g) == NewFan([fan_no |-> Entry(g, "fan_no", 0)], Read(g, Default.fan_speed))
LoadGeneric(g) ==
  LET direction == Entry(g, "value_change_direction", 0)
  IN  NewGeneric([file_path |-> Entry(g, "file_path", ""),
                  value_from_contents |-> Entry(g, "value_from_contents", FALSE),
                  regex |-> Entry(g, "regex", ""),
                  follow_change |-> Entry(g, "follow_change", FALSE),
                  value_change_direction |->
                    IF direction \in 0 .. NumDirections - 1 THEN direction ELSE 0,
                  data_source_name |-> Entry(g, "data_source_name", "")],
                 Read(g, Default.generic))

Load(g) ==
  CASE g.type = "cpu_usage" -> LoadCpu(g)
    [] g.type = "memory_usage" -> LoadMemory(g)
    [] g.type = "swap_usage" -> LoadSwap(g)
    [] g.type = "load_average" -> LoadLoadAverage(g)
    [] g.type = "disk_usage" -> LoadDiskUsage(g)
    [] g.type = "disk_statistics" -> LoadDiskStats(g)
    [] g.type = "network_load" -> LoadNetwork(g)
    [] g.type = "temperature" -> LoadTemperature(g)
    [] g.type = "fan_speed" -> LoadFan(g)
    [] g.type = "generic" -> LoadGeneric(g)

(* Mutant: the deprecated entries are read but not replaced. *)
MutMigrated(g) == g

\* The branch for network monitors also replaces the deprecated entries in the file.
Migrated(g) ==
  IF g.type = "network_load" /\ Deprecated(g)
  THEN Write(Without(g, {"interface_no", "interface"}),
             [interface_type |-> OldInterfaceType(g)])
  ELSE g
--------------------------------------------------------------------------
(* Monitor::save of each kind into group g. *)

SaveCpu(g, m) ==
  Write(g, [type |-> "cpu_usage", cpu_no |-> m.own.cpu_no,
            include_low_priority |-> m.own.include_low_priority,
            include_iowait |-> m.own.include_iowait, update_interval |-> m.interval,
            fixed_max |-> m.fixed, tag |-> m.tag, add_to_text_overlay |-> m.overlay])
SaveMemory(g, m) ==
  Write(g, [type |-> "memory_usage", update_interval |-> m.interval,
            fixed_max |-> m.fixed, tag |-> m.tag, add_to_text_overlay |-> m.overlay])
SaveSwap(g, m) ==
  Write(g, [type |-> "swap_usage", update_interval |-> m.interval,
            fixed_max |-> m.fixed, tag |-> m.tag, add_to_text_overlay |-> m.overlay])
\* The only kind that does not save fixed_max.
SaveLoadAverage(g, m) ==
  Write(g, [type |-> "load_average", update_interval |-> m.interval,
            max |-> MaxToSave(m), tag |-> m.tag, add_to_text_overlay |-> m.overlay])
SaveDiskUsage(g, m) ==
  Write(g, [type |-> "disk_usage", mount_dir |-> m.own.mount_dir,
            show_free |-> m.own.show_free, update_interval |-> m.interval,
            fixed_max |-> m.fixed, tag |-> m.tag, add_to_text_overlay |-> m.overlay])

(* Mutant: that the maximum is fixed is not saved, as for a load average. *)
MutSaveDiskStats(g, m) ==
  Write(g, [type |-> "disk_statistics", disk_stats_device |-> m.own.disk_stats_device,
            disk_stats_stat |-> m.own.disk_stats_stat,
            max |-> IF m.fixed THEN m.max ELSE 0, update_interval |-> m.interval, tag |-> m.tag,
            add_to_text_overlay |-> m.overlay])

\* Disk statistics and network loads save a whole number, cast to int.
SaveDiskStats(g, m) ==
  Write(g, [type |-> "disk_statistics", disk_stats_device |-> m.own.disk_stats_device,
            disk_stats_stat |-> m.own.disk_stats_stat, fixed_max |-> m.fixed,
            max |-> IF m.fixed THEN m.max ELSE 0, update_interval |-> m.interval,
            tag |-> m.tag, add_to_text_overlay |-> m.overlay])
SaveNetwork(g, m) ==
  Write(g, [type |-> "network_load", interface_type |-> m.own.interface_type,
            interface_direction |-> m.own.interface_direction, fixed_max |-> m.fixed,
            max |-> IF m.fixed THEN m.max ELSE 0, update_interval |-> m.interval,
            tag |-> m.tag, add_to_text_overlay |-> m.overlay])
SaveTemperature(g, m) ==
  Write(g, [type |-> "temperature", temperature_no |-> m.own.temperature_no,
            update_interval |-> m.interval, fixed_max |-> m.fixed,
            max |-> MaxToSave(m), tag |-> m.tag, add_to_text_overlay |-> m.overlay])
SaveFan(g, m) ==
  Write(g, [type |-> "fan_speed", fan_no |-> m.own.fan_no,
            update_interval |-> m.interval, fixed_max |-> m.fixed,
            max |-> MaxToSave(m), tag |-> m.tag, add_to_text_overlay |-> m.overlay])
SaveGeneric(g, m) ==
  Write(g, [type |-> "generic", file_path |-> m.own.file_path,
            value_from_contents |-> m.own.value_from_contents, regex |-> m.own.regex,
            follow_change |-> m.own.follow_change,
            value_change_direction |-> m.own.value_change_direction,
            data_source_name |-> m.own.data_source_name,
            update_interval |-> m.interval, fixed_max |-> m.fixed,
            max |-> MaxToSave(m), tag |-> m.tag, add_to_text_overlay |-> m.overlay])

Save(g, m) ==
  CASE m.kind = "cpu_usage" -> SaveCpu(g, m)
    [] m.kind = "memory_usage" -> SaveMemory(g, m)
    [] m.kind = "swap_usage" -> SaveSwap(g, m)
    [] m.kind = "load_average" -> SaveLoadAverage(g, m)
    [] m.kind = "disk_usage" -> SaveDiskUsage(g, m)
    [] m.kind = "disk_statistics" -> SaveDiskStats(g, m)
    [] m.kind = "network_load" -> SaveNetwork(g, m)
    [] m.kind = "temperature" -> SaveTemperature(g, m)
    [] m.kind = "fan_speed" -> SaveFan(g, m)
    [] m.kind = "generic" -> SaveGeneric(g, m)
--------------------------------------------------------------------------
(* What a restart is to leave of a monitor: all of it, but for a maximum that was  *)
(* measured, which starts again, and the digits of a fixed one that are not printed.*)
Restarted(m) ==
  [m EXCEPT !.max =
     CASE m.kind = "cpu_usage" -> 1
       [] m.kind = "temperature" -> SensorMax[m.own.temperature_no]
       [] m.kind = "fan_speed" -> SensorMax[m.own.fan_no]
       [] m.kind \in {"load_average", "generic"} -> MaxToSave(m)
       [] m.kind \in {"disk_statistics", "network_load"} -> IF m.fixed THEN m.max ELSE 0
       [] m.kind \in {"memory_usage", "swap_usage", "disk_usage"} -> 0]
==========================================================================
