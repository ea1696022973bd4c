------------------------------- MODULE Meters -------------------------------
(***************************************************************************)
(* One monitor of any of the ten kinds and the part of the machine that it *)
(* measures: do_measure() of each kind, between whatever happens to the    *)
(* counters, devices, files and sensors it reads.                          *)
(*                                                                         *)
(* A value is a natural or NaN; a CPU's is a fraction <<n, d>>, and a      *)
(* generic monitor's counts Parts-ths, as its file shows any number.       *)
(* "slack" is how much the counter that a monitor follows has moved beyond *)
(* what the monitor reported of it; the code does not have it.             *)
(***************************************************************************)
EXTENDS Integers, FiniteSets, FiniteSetsExt, Maxima

CONSTANTS
  Configs,    \* the monitors: kind, whether the maximum is fixed, and own settings
  Limit,      \* bound on what a counter, file or sensor shows
  Parts,      \* what a file shows is in Parts-ths of one; a maximum is whole
  Word,       \* 2^w: the CPU's ticks are subtracted in 64 bits
  None, NaN

ASSUME MetersAssumption ==
  /\ Limit \in Nat \ {0} /\ Word \in Nat /\ Word > 16 * Limit /\ Parts \in Nat \ {0}
  /\ {None, NaN} \cap (-2 * Limit .. 2 * Limit) = {}
  /\ \A c \in Configs : c.max \in Nat /\ (c.kind = "generic" =>
                                            c.dir \in {"positive", "negative", "both"})

VARIABLES
  config,     \* the monitor's settings
  machine,    \* what the monitor reads
  previous,   \* what it keeps of its last measurement, None if it has none
  value,      \* measured_value
  max,        \* max_value
  slack,      \* see above
  switched    \* an interface type was given another interface (observed)

vars == <<config, machine, previous, value, max, slack, switched>>

Shown == 0 .. Limit
Readings == - Limit .. Limit    \* what a file shows may be negative
Interfaces == {"eth0", "eth1"}
Ticks == {"user", "nice", "idle", "iowait"}
Sized == {"memory_usage", "swap_usage", "disk_usage"}
Sensed == {"temperature", "fan_speed"}
--------------------------------------------------------------------------
(* The measurements. *)

Total(ticks) == ticks["user"] + ticks["nice"] + ticks["idle"] + ticks["iowait"]

\* guint64 differences, and what a double makes of one that wrapped around: 2^w.
Minus(a, b) == (a - b) % Word
Double(n) == IF n > Word \div 2 THEN Word ELSE n

(* Mutant: the ticks that are not counted are left out of the total as well. *)
MutCpuValue ==
  LET Ago(t) == Minus(machine[t], previous[t])
      total == Minus(Total(machine), Total(previous))
      used == Double(Minus(total, Ago("idle")))
  IN  <<used, IF config.iowait THEN Double(total) ELSE Double(Minus(total, Ago("iowait")))>>

\* CpuUsageMonitor: the share of the ticks since the last measurement that was not idle,
\* less the nice and iowait ticks.  Without any ticks it is 0, as 0 / 0 is not > 0.
CpuValue ==
  LET Ago(t) == Minus(machine[t], previous[t])
      total == Minus(Total(machine), Total(previous))
      used == Double(Minus(total, Ago("idle")))
              - (IF config.low THEN 0 ELSE Double(Ago("nice")))
              - (IF config.iowait THEN 0 ELSE Double(Ago("iowait")))
  IN  IF used > 0 THEN <<used, Double(total)>> ELSE <<0, 1>>

\* Of the kinds that reduce their maximum gradually.
FollowUnlessFixed(val, parts) == IF config.fixed THEN max ELSE Follow(max, val, parts)

\* measure() makes 0 of a negative value.
AtLeastZero(val) == IF val < 0 THEN 0 ELSE val

\* A load average's is a double, in thousandths here, and 1 at least.
FollowLoad(val) ==
  LET kept == Max({(max * 999) \div 1000, 1000})
  IN  IF config.fixed THEN max
      ELSE IF 1000 * val > kept THEN 1050 * val ELSE kept

MeasureCpu ==
  /\ config.kind = "cpu_usage"
  /\ value' = CpuValue /\ previous' = machine
  /\ UNCHANGED <<max, slack>>

\* Swap, memory and disk usage: the total, which may change, is the maximum.
MeasureSized ==
  /\ config.kind \in Sized
  /\ max' = machine.total /\ value' = machine.used
  /\ UNCHANGED <<previous, slack>>

MeasureLoad ==
  /\ config.kind = "load_average"
  /\ max' = FollowLoad(machine)
  /\ value' = IF max' > 0 THEN machine ELSE 0
  /\ UNCHANGED <<previous, slack>>

MeasureSensor ==
  /\ config.kind \in Sensed
  /\ value' = IF machine = None THEN 0 ELSE machine
  /\ max' = IF ~ config.fixed /\ value' > max THEN value' ELSE max
  /\ UNCHANGED <<previous, slack>>

(* Mutant: that the interface was reset is not noticed. *)
MutNetworkValue(bytes) == IF previous = 0 THEN 0 ELSE bytes - previous

\* NetworkLoadMonitor: "No estimate initially", "Interface was reset".
NetworkValue(bytes) == IF previous = 0 \/ bytes < previous THEN 0 ELSE bytes - previous

\* libgtop knows no bytes of an interface that is not there.
MeasureNetwork ==
  /\ config.kind = "network_load"
  /\ LET bytes == machine.bytes[machine.name]
     IN  value' = NetworkValue(bytes) /\ previous' = bytes
  /\ max' = FollowUnlessFixed(value', 1)
  /\ slack' = IF switched THEN 0 ELSE slack - value'

\* DiskStatsMonitor: what is kept stays while the device is away.
MeasureDisk ==
  /\ config.kind = "disk_statistics"
  /\ IF machine = None
     THEN value' = 0 /\ UNCHANGED <<previous, max, slack>>
     ELSE IF config.missing
     THEN value' = NaN /\ UNCHANGED <<previous, max, slack>>
     ELSE /\ previous' = IF config.rate THEN machine ELSE previous
          /\ LET val == IF ~ config.rate THEN machine
                        ELSE IF previous = None THEN 0 ELSE machine - previous
             IN  /\ max' = FollowUnlessFixed(val, 1)
                 /\ value' = AtLeastZero(val)
          /\ slack' = IF config.rate THEN slack - value' ELSE slack

(* Mutant: a file that cannot be read counts as one that shows 0. *)
MutContents == IF machine.readable THEN machine.number ELSE 0

\* The number in the file, None if the file is not there, or cannot be read, or has none.
Contents == IF machine.readable THEN machine.number ELSE None

\* The change of the file's number as the user wants it, since it was last read.
Change(from, to) ==
  CASE config.dir = "positive" -> IF to > from THEN to - from ELSE 0
    [] config.dir = "negative" -> IF to < from THEN from - to ELSE 0
    [] config.dir = "both" -> IF to > from THEN to - from ELSE from - to

\* GenericMonitor; its maximum follows the number, not the change.
MeasureGeneric ==
  /\ config.kind = "generic"
  /\ IF Contents = None
     THEN value' = 0 /\ UNCHANGED <<previous, max, slack>>
     ELSE LET val == Contents
          IN  /\ max' = FollowUnlessFixed(val, Parts)
              /\ IF config.follow
                 THEN /\ value' = IF previous = None THEN 0 ELSE Change(previous, val)
                      /\ previous' = val
                      /\ slack' = slack - value'
                 ELSE value' = AtLeastZero(val) /\ UNCHANGED <<previous, slack>>

Measure ==
  /\ \/ MeasureCpu
     \/ MeasureSized
     \/ MeasureLoad
     \/ MeasureSensor
     \/ MeasureNetwork
     \/ MeasureDisk
     \/ MeasureGeneric
  /\ switched' = FALSE
  /\ UNCHANGED <<config, machine>>
--------------------------------------------------------------------------
(* The machine. *)

\* Ticks pass; those of iowait may be taken back by the kernel.
CpuRuns ==
  /\ config.kind = "cpu_usage"
  /\ \E t \in Ticks :
       \/ machine[t] < Limit /\ machine' = [machine EXCEPT ![t] = @ + 1]
                             /\ UNCHANGED switched
       \/ t = "iowait" /\ machine[t] > 0 /\ machine' = [machine EXCEPT ![t] = @ - 1]
                       /\ switched' = TRUE
  /\ UNCHANGED slack

SizeChanges ==
  /\ config.kind \in Sized
  /\ \E total \in Shown : \E used \in 0 .. total :
       machine' = [total |-> total, used |-> used]
  /\ UNCHANGED <<slack, switched>>

ReadingChanges ==
  /\ config.kind \in Sensed \cup {"load_average"}
  /\ machine' \in Shown \cup (IF config.kind \in Sensed THEN {None} ELSE {})
  /\ UNCHANGED <<slack, switched>>

\* The counter that is followed moves; the monitor is not late by more than a file's
\* number can change at once.
Move(n) == slack + n <= 2 * Limit /\ slack' = slack + n

\* Bytes come through an interface; it is reset, or its driver unloaded.
Traffic ==
  /\ config.kind = "network_load"
  /\ \E i \in Interfaces :
       \/ /\ machine.bytes[i] < Limit
          /\ machine' = [machine EXCEPT !.bytes[i] = @ + 1]
          /\ Move(IF i = machine.name THEN 1 ELSE 0)
       \/ /\ machine.bytes[i] > 0
          /\ machine' = [machine EXCEPT !.bytes[i] = 0]
          /\ UNCHANGED slack
  /\ UNCHANGED switched
\* The user gives the monitor's interface type the name of another interface: the next
\* value compares the two, and is not held against the monitor.
Rename ==
  /\ config.kind = "network_load"
  /\ \E i \in Interfaces \ {machine.name} : machine' = [machine EXCEPT !.name = i]
  /\ switched' = TRUE
  /\ UNCHANGED slack

\* The device works; it is pulled out, and plugged in with counters that start again.
DiskWorks ==
  /\ config.kind = "disk_statistics"
  /\ \/ /\ machine # None /\ machine < Limit
        /\ machine' = machine + 1
        /\ IF config.rate THEN Move(1) ELSE UNCHANGED slack
     \/ machine # None /\ machine' = None /\ UNCHANGED slack
     \/ machine = None /\ machine' = 0 /\ UNCHANGED slack
  /\ UNCHANGED switched

\* The file gets another number, or can no longer be read, or can again.
FileChanges ==
  /\ config.kind = "generic"
  /\ \/ \E n \in Readings :
          /\ machine' = [machine EXCEPT !.number = n]
          /\ Move(IF config.follow THEN Change(machine.number, n) ELSE 0)
     \/ machine' = [machine EXCEPT !.readable = ~ @] /\ UNCHANGED slack
  /\ UNCHANGED switched

Outside ==
  /\ \/ CpuRuns \/ SizeChanges \/ ReadingChanges \/ Traffic \/ Rename \/ DiskWorks
     \/ FileChanges
  /\ UNCHANGED <<config, previous, value, max>>

\* What a monitor of each kind finds, and what its constructor keeps.
Found ==
  CASE config.kind = "cpu_usage" -> [Ticks -> Shown]
    [] config.kind \in Sized -> {[total |-> n, used |-> 0] : n \in Shown}
    [] config.kind \in Sensed \cup {"load_average"} -> Shown
    [] config.kind = "network_load" ->
         [bytes : [Interfaces -> Shown], name : Interfaces]
    [] config.kind = "disk_statistics" -> Shown \cup {None}
    [] config.kind = "generic" -> [number : Readings, readable : BOOLEAN]
Kept ==
  CASE config.kind = "cpu_usage" -> [t \in Ticks |-> 0]
    [] config.kind = "network_load" -> 0
    [] OTHER -> None

Init ==
  /\ config \in Configs
  /\ machine \in Found
  /\ previous = Kept
  /\ value = IF config.kind = "cpu_usage" THEN <<0, 1>> ELSE 0
  /\ max = config.max
  /\ slack = 0 /\ switched = FALSE

Next == Measure \/ Outside

Spec == Init /\ [][Next]_vars
--------------------------------------------------------------------------
\* A value is a natural, of a CPU a fraction of naturals, of a disk perhaps NaN; what is
\* kept of a measurement is what was read, which a file may show negative.
TypeOK ==
  /\ config \in Configs /\ max \in Nat /\ slack \in Int /\ switched \in BOOLEAN
  /\ CASE config.kind = "cpu_usage" -> value \in Nat \X Nat /\ previous \in [Ticks -> Shown]
       [] config.kind = "disk_statistics" ->
            value \in Shown \cup {NaN} /\ previous \in Shown \cup {None}
       [] config.kind = "generic" ->
            value \in 0 .. 2 * Limit /\ previous \in Readings \cup {None}
       [] OTHER -> value \in Shown /\ previous \in Shown \cup {None}

\* A CPU is never used more than wholly, though the differences wrap around when the
\* kernel takes ticks of iowait back; except by a monitor that counts iowait as use.
CpuFraction ==
  config.kind = "cpu_usage" =>
    (config.iowait /\ switched) \/ LET v == CpuValue IN v[1] <= v[2] /\ v[2] > 0

\* All that a monitor of a network, a disk or a file's changes ever reported is not more
\* than what its counter moved: nothing is made up or told twice when an interface is
\* reset, a disk pulled out, or a file missing in between.
NothingMadeUp == slack >= 0

\* A value is on the scale of bars and flames, unless the user fixed the maximum; a
\* file's number, as the maximum is cut to a whole one, is beyond it by less than one. The
\* changes of a file's number are not meant: the maximum follows the number.
OnScale ==
  config.kind # "cpu_usage" /\ ~ config.fixed /\ value # NaN =>
    CASE config.kind = "load_average" -> 1000 * value <= max
      [] config.kind = "generic" -> config.follow \/ value < Parts * (max + 1)
      [] OTHER -> value <= max
==========================================================================
