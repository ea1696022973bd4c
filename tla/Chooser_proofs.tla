--------------------------- MODULE Chooser_proofs ---------------------------
(***************************************************************************)
(* One monitor through the chooser window, saves, kills and restarts, for  *)
(* any choices of the user and any groups that older versions left.        *)
(***************************************************************************)
EXTENDS Chooser, TLAPS

(* A maximum, printed.  Zenon writes numerals in unary: leaves with large ones are *)
(* for SMT alone.                                                                  *)

Units == {10, 100, 1000, 10000}
HasSix(n, u) == 100000 <= n \div u /\ n \div u < 1000000
Large(n) == n \in Int /\ 1000000 <= n /\ n <= Largest

\* A large int has six digits in front of one of the units, and is rounded to that.
LEMMA UnitIs ==
  ASSUME NEW n, Large(n)
  PROVE  \E u \in Units : HasSix(n, u) /\ SixDigits(n) = Rounded(n, u)
<1> DEFINE unit == CHOOSE u \in Units : HasSix(n, u)
<1>1. HasSix(n, 10) \/ HasSix(n, 100) \/ HasSix(n, 1000) \/ HasSix(n, 10000)
  BY SMT DEF HasSix, Large, Largest
<1>2. 10 \in Units /\ 100 \in Units /\ 1000 \in Units /\ 10000 \in Units
  BY SMT DEF Units
<1>3. unit \in Units /\ HasSix(n, unit)
  BY <1>1, <1>2, SMT
<1>4. SixDigits(n) = Rounded(n, unit)
  BY SMT DEF SixDigits, HasSix, Units
<1> HIDE DEF unit
<1>5. QED BY <1>3, <1>4

\* It also has a first digit.
LEMMA DigitIs ==
  ASSUME NEW n, Large(n)
  PROVE  FirstDigit(n) \in 1 .. 9
<1> DEFINE power == CHOOSE u \in Powers : n \div u \in 1 .. 9
<1>1. \/ n \div 1000000 \in 1 .. 9 \/ n \div 10000000 \in 1 .. 9
      \/ n \div 100000000 \in 1 .. 9 \/ n \div 1000000000 \in 1 .. 9
  BY SMT DEF Large, Largest
<1>2. /\ 1000000 \in Powers /\ 10000000 \in Powers /\ 100000000 \in Powers
      /\ 1000000000 \in Powers
  BY SMT DEF Powers
<1>3. n \div power \in 1 .. 9
  BY <1>1, <1>2, SMT
<1>4. QED BY <1>3, SMT DEF FirstDigit

\* Rounding moves a number by half a unit at most, to a multiple of the unit.
LEMMA RoundedIs ==
  ASSUME NEW n \in Nat, NEW u \in Units
  PROVE  /\ Rounded(n, u) = u * (n \div u) \/ Rounded(n, u) = u * (n \div u + 1)
         /\ 2 * (Rounded(n, u) - n) <= u /\ 2 * (n - Rounded(n, u)) <= u
<1>1. CASE u = 10
  BY <1>1, SMT DEF Rounded
<1>2. CASE u = 100
  BY <1>2, SMT DEF Rounded
<1>3. CASE u = 1000
  BY <1>3, SMT DEF Rounded
<1>4. CASE u = 10000
  BY <1>4, SMT DEF Rounded
<1>5. QED BY <1>1, <1>2, <1>3, <1>4, SMT DEF Units

\* A multiple of a unit, up to a million of them, is rounded to itself.
Million(x) == x \in Int /\ 100000 <= x /\ x <= 1000000
LEMMA RoundedStays ==
  ASSUME NEW x, Million(x), NEW p, p = 10 * x \/ p = 100 * x \/ p = 1000 * x \/ p = 10000 * x,
         NEW v \in Units, HasSix(p, v)
  PROVE  Rounded(p, v) = p
<1>1. CASE v = 10
  BY <1>1, SMT DEF Rounded, HasSix, Million
<1>2. CASE v = 100
  BY <1>2, SMT DEF Rounded, HasSix, Million
<1>3. CASE v = 1000
  BY <1>3, SMT DEF Rounded, HasSix, Million
<1>4. CASE v = 10000
  BY <1>4, SMT DEF Rounded, HasSix, Million
<1>5. QED BY <1>1, <1>2, <1>3, <1>4, SMT DEF Units

\* Six digits of a large number are another, of which they are all.
LEMMA SixLarge ==
  ASSUME NEW n, Large(n)
  PROVE  /\ Large(SixDigits(n)) /\ SixDigits(SixDigits(n)) = SixDigits(n)
         /\ \E u \in Units : /\ n \div u >= 100000
                             /\ 2 * (SixDigits(n) - n) <= u /\ 2 * (n - SixDigits(n)) <= u
<1>1. PICK u \in Units : HasSix(n, u) /\ SixDigits(n) = Rounded(n, u)
  BY UnitIs
<1> DEFINE p == Rounded(n, u)
           q == n \div u
<1>2. n \in Nat /\ u \in Int
  BY SMT DEF Large, Units
<1>3. q \in Int /\ Million(q) /\ Million(q + 1)
  BY <1>1, <1>2, SMT DEF HasSix, Units, Million
<1>4. (p = u * q \/ p = u * (q + 1)) /\ 2 * (p - n) <= u /\ 2 * (n - p) <= u
  BY <1>2, RoundedIs
<1> HIDE DEF p, q
<1>5. PICK x : Million(x) /\ p = u * x
  BY <1>3, <1>4
<1>6. p = 10 * x \/ p = 100 * x \/ p = 1000 * x \/ p = 10000 * x
  BY <1>5, SMT DEF Units, Million
<1>7. p \in Int /\ p >= 1000000
  BY <1>5, <1>6, SMT DEF Million
<1>8. p <= Largest
  BY <1>4, <1>5, <1>7, SMT DEF Units, Million, Large, Largest
<1>9. Large(p)
  BY <1>7, <1>8, SMT DEF Large
<1>10. PICK v \in Units : HasSix(p, v) /\ SixDigits(p) = Rounded(p, v)
  BY <1>9, UnitIs
<1>11. SixDigits(p) = p
  BY <1>5, <1>6, <1>10, RoundedStays, SMT
<1>12. q >= 100000
  BY <1>3, SMT DEF Million
<1>13. QED BY <1>1, <1>4, <1>9, <1>11, <1>12, SMT DEF p, q


LEMMA LargestType == Largest \in Nat
BY SMT DEF Largest

LEMMA LargestIsLarge == Largest >= 1000000
BY SMT DEF Largest

\* What is printed of a number is printed again as it is, in any locale.
LEMMA PrintedSettles ==
  ASSUME NEW n \in 0 .. Largest
  PROVE  Printed(n) \in 0 .. Largest /\ Printed(Printed(n)) = Printed(n)
<1>1. Largest \in Nat /\ Largest >= 1000000
  BY LargestType, LargestIsLarge
<1>2. Grouped \in BOOLEAN /\ DecimalComma \in BOOLEAN
  BY SettingsAssumption
<1>3. CASE n < 1000000
  <2>1. Printed(n) \in {n, n \div 1000} /\ (Grouped /\ n >= 1000 => Printed(n) = n \div 1000)
    BY <1>3, SMT DEF Printed
  <2>2. Printed(n) \in 0 .. Largest /\ Printed(n) < 1000000
    BY <1>1, <1>3, <2>1, SMT
  <2>3. Grouped => Printed(n) < 1000
    BY <1>1, <1>3, <2>1, SMT
  <2>4. Printed(Printed(n)) = Printed(n)
    BY <2>2, <2>3, SMT DEF Printed
  <2>5. QED BY <2>2, <2>4, SMT
<1>4. CASE n >= 1000000
  <2> DEFINE six == SixDigits(n)
  <2>1. Large(n)
    BY <1>1, <1>4, SMT DEF Large
  <2>2. Large(six) /\ SixDigits(six) = six
    BY <2>1, SixLarge
  <2>3. FirstDigit(six) \in 1 .. 9
    BY <2>2, DigitIs
  <2>4. ~ (n < 1000000)
    BY <2>1, SMT DEF Large
  <2>5. Printed(n) = IF DecimalComma /\ HasComma(six) THEN FirstDigit(six) ELSE six
    BY <2>4 DEF Printed, Exponential
  <2>6. CASE DecimalComma /\ HasComma(six)
    <3>1. Printed(n) \in 1 .. 9
      BY <2>3, <2>5, <2>6
    <3>2. Printed(Printed(n)) = Printed(n)
      BY <3>1, SMT DEF Printed
    <3>3. QED BY <1>1, <3>1, <3>2, SMT
  <2>7. CASE ~ (DecimalComma /\ HasComma(six))
    <3>1. Printed(n) = six
      BY <2>5, <2>7
    <3>2. ~ (six < 1000000) /\ six \in 0 .. Largest
      BY <2>2, SMT DEF Large
    <3>3. Printed(six) = six
      BY <2>2, <2>7, <3>2 DEF Printed, Exponential
    <3>4. QED BY <3>1, <3>2, <3>3
  <2>8. QED BY <2>6, <2>7
<1>5. QED BY <1>1, <1>3, <1>4, SMT

\* Six digits are as close as a hundred-thousandth, if no digits are grouped and the point
\* is none but a point.
LEMMA PrintedClose ==
  ASSUME NEW n \in 0 .. Largest, ~ Grouped, ~ DecimalComma
  PROVE  Printed(n) - n \in -(n \div 100000) .. n \div 100000
<1>1. Largest \in Nat
  BY LargestType
<1>2. CASE n < 1000000
  BY <1>1, <1>2, SMT DEF Printed
<1>3. CASE n >= 1000000
  <2> DEFINE p == SixDigits(n)
  <2>1. Large(n) /\ ~ (n < 1000000)
    BY <1>1, <1>3, SMT DEF Large
  <2>2. Printed(n) = p
    BY <2>1 DEF Printed, Exponential
  <2>3. Large(p)
    BY <2>1, SixLarge, SMT
  <2>4. PICK u \in Units : n \div u >= 100000 /\ 2 * (p - n) <= u /\ 2 * (n - p) <= u
    BY <2>1, SixLarge, SMT
  <2> HIDE DEF p
  <2>5. n \div 100000 >= u
    BY <2>4, SMT DEF Units
  <2>6. p - n \in -(n \div 100000) .. n \div 100000
    BY <2>3, <2>4, <2>5, SMT DEF Large, Units
  <2>7. QED BY <2>2, <2>6
<1>4. QED BY <1>1, <1>2, <1>3, SMT

--------------------------------------------------------------------------
(* What is made of a kind. *)

LEMMA LoadKinds ==
  ASSUME NEW g
  PROVE  /\ g.type = "cpu_usage" => Load(g) = LoadCpu(g)
         /\ g.type = "memory_usage" => Load(g) = LoadMemory(g)
         /\ g.type = "swap_usage" => Load(g) = LoadSwap(g)
         /\ g.type = "load_average" => Load(g) = LoadLoadAverage(g)
         /\ g.type = "disk_usage" => Load(g) = LoadDiskUsage(g)
         /\ g.type = "disk_statistics" => Load(g) = LoadDiskStats(g)
         /\ g.type = "network_load" => Load(g) = LoadNetwork(g)
         /\ g.type = "temperature" => Load(g) = LoadTemperature(g)
         /\ g.type = "fan_speed" => Load(g) = LoadFan(g)
         /\ g.type = "generic" => Load(g) = LoadGeneric(g)
BY DEF Load

LEMMA SaveKinds ==
  ASSUME NEW g, NEW m
  PROVE  /\ m.kind = "cpu_usage" => Save(g, m) = SaveCpu(g, m)
         /\ m.kind = "memory_usage" => Save(g, m) = SaveMemory(g, m)
         /\ m.kind = "swap_usage" => Save(g, m) = SaveSwap(g, m)
         /\ m.kind = "load_average" => Save(g, m) = SaveLoadAverage(g, m)
         /\ m.kind = "disk_usage" => Save(g, m) = SaveDiskUsage(g, m)
         /\ m.kind = "disk_statistics" => Save(g, m) = SaveDiskStats(g, m)
         /\ m.kind = "network_load" => Save(g, m) = SaveNetwork(g, m)
         /\ m.kind = "temperature" => Save(g, m) = SaveTemperature(g, m)
         /\ m.kind = "fan_speed" => Save(g, m) = SaveFan(g, m)
         /\ m.kind = "generic" => Save(g, m) = SaveGeneric(g, m)
BY DEF Save

LEMMA AcceptKinds ==
  ASSUME NEW p
  PROVE  /\ p.kind = "cpu_usage" => Accept(p) = AcceptCpu(p)
         /\ p.kind = "memory_usage" => Accept(p) = AcceptMemory(p)
         /\ p.kind = "swap_usage" => Accept(p) = AcceptSwap(p)
         /\ p.kind = "load_average" => Accept(p) = AcceptLoadAverage(p)
         /\ p.kind = "disk_usage" => Accept(p) = AcceptDiskUsage(p)
         /\ p.kind = "disk_statistics" => Accept(p) = AcceptDiskStats(p)
         /\ p.kind = "network_load" => Accept(p) = AcceptNetwork(p)
         /\ p.kind = "temperature" => Accept(p) = AcceptTemperature(p)
         /\ p.kind = "fan_speed" => Accept(p) = AcceptFan(p)
         /\ p.kind = "generic" => Accept(p) = AcceptGeneric(p)
BY DEF Accept

\* A monitor but for its maximum.
WithMax(m, n) == [m EXCEPT !.max = n]

LEMMA RestartedKinds ==
  ASSUME NEW m
  PROVE  /\ m.kind = "cpu_usage" => Restarted(m) = WithMax(m, 1)
         /\ m.kind = "memory_usage" => Restarted(m) = WithMax(m, 0)
         /\ m.kind = "swap_usage" => Restarted(m) = WithMax(m, 0)
         /\ m.kind = "load_average" => Restarted(m) = WithMax(m, MaxToSave(m))
         /\ m.kind = "disk_usage" => Restarted(m) = WithMax(m, 0)
         /\ m.kind = "disk_statistics" =>
              Restarted(m) = WithMax(m, IF m.fixed THEN m.max ELSE 0)
         /\ m.kind = "network_load" =>
              Restarted(m) = WithMax(m, IF m.fixed THEN m.max ELSE 0)
         /\ m.kind = "temperature" =>
              Restarted(m) = WithMax(m, SensorMax[m.own.temperature_no])
         /\ m.kind = "fan_speed" => Restarted(m) = WithMax(m, SensorMax[m.own.fan_no])
         /\ m.kind = "generic" => Restarted(m) = WithMax(m, MaxToSave(m))
BY DEF Restarted, WithMax


\* An entry of a group.
Holds(g, key, x) == key \in DOMAIN g /\ g[key] = x

LEMMA IntervalsNat == Intervals \subseteq Nat
<1>1. SUFFICES ASSUME NEW n \in Intervals PROVE n \in Nat
  OBVIOUS
<1>2. PICK seconds \in Seconds : n = 1000 * seconds
  BY SMT DEF Intervals, Milliseconds
<1>3. seconds \in Nat
  BY SMT DEF Seconds
<1>4. QED BY <1>2, <1>3, SMT

\* The fields of a monitor.
LEMMA MonitorFields ==
  ASSUME NEW kind, NEW m \in MonitorOf(kind)
  PROVE  /\ m.kind = kind /\ m.own \in Own[kind] /\ m.interval \in Int /\ m.interval # -1
         /\ kind # "cpu_usage" => m.interval \in Intervals
         /\ m.fixed \in BOOLEAN /\ m.max \in 0 .. Largest /\ m.tag \in Texts
         /\ m.overlay \in BOOLEAN
         /\ m = [kind |-> kind, own |-> m.own, interval |-> m.interval, fixed |-> m.fixed,
                 max |-> m.max, tag |-> m.tag, overlay |-> m.overlay]
<1>1. /\ m.kind = kind /\ m.own \in Own[kind] /\ m.fixed \in BOOLEAN
      /\ m.max \in 0 .. Largest /\ m.tag \in Texts /\ m.overlay \in BOOLEAN
      /\ m.interval \in (IF kind = "cpu_usage" THEN Nat ELSE Intervals)
      /\ m = [kind |-> kind, own |-> m.own, interval |-> m.interval, fixed |-> m.fixed,
              max |-> m.max, tag |-> m.tag, overlay |-> m.overlay]
  BY DEF MonitorOf
<1>2. m.interval \in Nat /\ (kind # "cpu_usage" => m.interval \in Intervals)
  BY <1>1, IntervalsNat
<1>3. m.interval \in Int /\ m.interval # -1
  BY <1>2
<1>4. QED BY <1>1, <1>2, <1>3

\* What a save must leave: the group loads as what a restart is to give.
Kept(g, m) ==
  LET s == Save(g, m)
  IN  /\ Holds(s, "type", m.kind)
      /\ Load(s) = Restarted(m)
      /\ "fixed_max" \in DOMAIN s
      /\ m.kind = "disk_usage" => "mount_dir" \in DOMAIN s
      /\ Deprecated(s) <=> Deprecated(g)

\* The fields of a monitor's own.
LEMMA OwnFields ==
  ASSUME NEW own
  PROVE  /\ own \in Own["cpu_usage"] =>
              /\ own = [cpu_no |-> own.cpu_no,
                       include_low_priority |-> own.include_low_priority,
                       include_iowait |-> own.include_iowait]
              /\ own.cpu_no \in {AllCpus} \cup 0 .. MaxCpus - 1
              /\ own.include_low_priority \in BOOLEAN /\ own.include_iowait \in BOOLEAN
         /\ own \in Own["memory_usage"] =>
              own = [none |-> 0]
         /\ own \in Own["swap_usage"] =>
              own = [none |-> 0]
         /\ own \in Own["load_average"] =>
              own = [none |-> 0]
         /\ own \in Own["disk_usage"] =>
              /\ own = [mount_dir |-> own.mount_dir, show_free |-> own.show_free]
              /\ own.mount_dir \in Texts /\ own.show_free \in BOOLEAN
         /\ own \in Own["disk_statistics"] =>
              /\ own = [disk_stats_device |-> own.disk_stats_device,
                       disk_stats_stat |-> own.disk_stats_stat]
              /\ own.disk_stats_device \in Texts
              /\ own.disk_stats_stat \in -1 .. NumStats - 1
         /\ own \in Own["network_load"] =>
              /\ own = [interface_type |-> own.interface_type,
                       interface_direction |-> own.interface_direction]
              /\ own.interface_type \in 0 .. NumInterfaceTypes - 1
              /\ own.interface_direction \in 0 .. NumDirections - 1
         /\ own \in Own["temperature"] =>
              /\ own = [temperature_no |-> own.temperature_no]
              /\ own.temperature_no \in DOMAIN SensorMax
         /\ own \in Own["fan_speed"] =>
              /\ own = [fan_no |-> own.fan_no]
              /\ own.fan_no \in DOMAIN SensorMax
         /\ own \in Own["generic"] =>
              /\ own = [file_path |-> own.file_path,
                       value_from_contents |-> own.value_from_contents,
                       regex |-> own.regex, follow_change |-> own.follow_change,
                       value_change_direction |-> own.value_change_direction,
                       data_source_name |-> own.data_source_name]
              /\ own.file_path \in Texts /\ own.value_from_contents \in BOOLEAN
              /\ own.regex \in Texts /\ own.follow_change \in BOOLEAN
              /\ own.value_change_direction \in 0 .. NumDirections - 1
              /\ own.data_source_name \in Texts
BY DEF Own

LEMMA SaveCpuKept ==
  ASSUME NEW g, NEW m \in MonitorOf("cpu_usage")
  PROVE  Kept(g, m)
<1> DEFINE s == SaveCpu(g, m)
<1>1. /\ Holds(s, "type", "cpu_usage") /\ Holds(s, "cpu_no", m.own.cpu_no)
      /\ Holds(s, "include_low_priority", m.own.include_low_priority)
      /\ Holds(s, "include_iowait", m.own.include_iowait)
      /\ Holds(s, "update_interval", m.interval) /\ Holds(s, "fixed_max", m.fixed)
      /\ Holds(s, "tag", m.tag) /\ Holds(s, "add_to_text_overlay", m.overlay)
  BY DEF SaveCpu, Write, Holds
<1>2. Deprecated(s) <=> Deprecated(g)
  BY DEF SaveCpu, Write, Deprecated
<1>3. Save(g, m) = s
  BY MonitorFields, SaveKinds
<1> HIDE DEF s
<1>4. m.own = [cpu_no |-> m.own.cpu_no,
             include_low_priority |-> m.own.include_low_priority,
             include_iowait |-> m.own.include_iowait]
  BY MonitorFields, OwnFields
<1>5. Read(s, Default.cpu_usage) =
      [interval |-> m.interval, fixed |-> m.fixed,
       max |-> Entry(s, "max", 0), tag |-> m.tag, overlay |-> m.overlay]
  BY <1>1, MonitorFields DEF Read, Holds, Entry
<1>6. Load(s) =
      [kind |-> "cpu_usage", own |-> m.own, interval |-> m.interval,
       fixed |-> m.fixed, max |-> 1, tag |-> m.tag, overlay |-> m.overlay]
  <2>1. Load(s) = LoadCpu(s)
    BY <1>1, LoadKinds DEF Holds
  <2>2. m.own.cpu_no = IF m.own.cpu_no \in 0 .. MaxCpus - 1 THEN m.own.cpu_no ELSE AllCpus
    BY MonitorFields, OwnFields
  <2>3. QED BY <1>1, <1>4, <1>5, <2>1, <2>2 DEF LoadCpu, NewCpu, Monitor, Holds, Entry
<1>7. Restarted(m) = [m EXCEPT !.max = 1]
  BY MonitorFields, RestartedKinds DEF WithMax
<1>8. QED BY <1>1, <1>2, <1>3, <1>6, <1>7, MonitorFields DEF Kept, Holds

LEMMA SaveMemoryKept ==
  ASSUME NEW g, NEW m \in MonitorOf("memory_usage")
  PROVE  Kept(g, m)
<1> DEFINE s == SaveMemory(g, m)
<1>1. /\ Holds(s, "type", "memory_usage") /\ Holds(s, "update_interval", m.interval)
      /\ Holds(s, "fixed_max", m.fixed) /\ Holds(s, "tag", m.tag)
      /\ Holds(s, "add_to_text_overlay", m.overlay)
  BY DEF SaveMemory, Write, Holds
<1>2. Deprecated(s) <=> Deprecated(g)
  BY DEF SaveMemory, Write, Deprecated
<1>3. Save(g, m) = s
  BY MonitorFields, SaveKinds
<1> HIDE DEF s
<1>4. m.own = [none |-> 0]
  BY MonitorFields, OwnFields
<1>5. Read(s, Default.memory_usage) =
      [interval |-> m.interval, fixed |-> m.fixed,
       max |-> Entry(s, "max", 0), tag |-> m.tag, overlay |-> m.overlay]
  BY <1>1, MonitorFields DEF Read, Holds, Entry
<1>6. Load(s) =
      [kind |-> "memory_usage", own |-> m.own, interval |-> m.interval,
       fixed |-> m.fixed, max |-> 0, tag |-> m.tag, overlay |-> m.overlay]
  <2>1. Load(s) = LoadMemory(s)
    BY <1>1, LoadKinds DEF Holds
  <2>2. QED BY <1>1, <1>4, <1>5, <2>1 DEF LoadMemory, NewMemory, Monitor, Holds, Entry
<1>7. Restarted(m) = [m EXCEPT !.max = 0]
  BY MonitorFields, RestartedKinds DEF WithMax
<1>8. QED BY <1>1, <1>2, <1>3, <1>6, <1>7, MonitorFields DEF Kept, Holds

LEMMA SaveSwapKept ==
  ASSUME NEW g, NEW m \in MonitorOf("swap_usage")
  PROVE  Kept(g, m)
<1> DEFINE s == SaveSwap(g, m)
<1>1. /\ Holds(s, "type", "swap_usage") /\ Holds(s, "update_interval", m.interval)
      /\ Holds(s, "fixed_max", m.fixed) /\ Holds(s, "tag", m.tag)
      /\ Holds(s, "add_to_text_overlay", m.overlay)
  BY DEF SaveSwap, Write, Holds
<1>2. Deprecated(s) <=> Deprecated(g)
  BY DEF SaveSwap, Write, Deprecated
<1>3. Save(g, m) = s
  BY MonitorFields, SaveKinds
<1> HIDE DEF s
<1>4. m.own = [none |-> 0]
  BY MonitorFields, OwnFields
<1>5. Read(s, Default.swap_usage) =
      [interval |-> m.interval, fixed |-> m.fixed,
       max |-> Entry(s, "max", 0), tag |-> m.tag, overlay |-> m.overlay]
  BY <1>1, MonitorFields DEF Read, Holds, Entry
<1>6. Load(s) =
      [kind |-> "swap_usage", own |-> m.own, interval |-> m.interval,
       fixed |-> m.fixed, max |-> 0, tag |-> m.tag, overlay |-> m.overlay]
  <2>1. Load(s) = LoadSwap(s)
    BY <1>1, LoadKinds DEF Holds
  <2>2. QED BY <1>1, <1>4, <1>5, <2>1 DEF LoadSwap, NewSwap, Monitor, Holds, Entry
<1>7. Restarted(m) = [m EXCEPT !.max = 0]
  BY MonitorFields, RestartedKinds DEF WithMax
<1>8. QED BY <1>1, <1>2, <1>3, <1>6, <1>7, MonitorFields DEF Kept, Holds

LEMMA SaveDiskUsageKept ==
  ASSUME NEW g, NEW m \in MonitorOf("disk_usage")
  PROVE  Kept(g, m)
<1> DEFINE s == SaveDiskUsage(g, m)
<1>1. /\ Holds(s, "type", "disk_usage") /\ Holds(s, "mount_dir", m.own.mount_dir)
      /\ Holds(s, "show_free", m.own.show_free)
      /\ Holds(s, "update_interval", m.interval) /\ Holds(s, "fixed_max", m.fixed)
      /\ Holds(s, "tag", m.tag) /\ Holds(s, "add_to_text_overlay", m.overlay)
  BY DEF SaveDiskUsage, Write, Holds
<1>2. Deprecated(s) <=> Deprecated(g)
  BY DEF SaveDiskUsage, Write, Deprecated
<1>3. Save(g, m) = s
  BY MonitorFields, SaveKinds
<1> HIDE DEF s
<1>4. m.own = [mount_dir |-> m.own.mount_dir, show_free |-> m.own.show_free]
  BY MonitorFields, OwnFields
<1>5. Read(s, Default.disk_usage) =
      [interval |-> m.interval, fixed |-> m.fixed,
       max |-> Entry(s, "max", 0), tag |-> m.tag, overlay |-> m.overlay]
  BY <1>1, MonitorFields DEF Read, Holds, Entry
<1>6. Load(s) =
      [kind |-> "disk_usage", own |-> m.own, interval |-> m.interval,
       fixed |-> m.fixed, max |-> 0, tag |-> m.tag, overlay |-> m.overlay]
  <2>1. Load(s) = LoadDiskUsage(s)
    BY <1>1, LoadKinds DEF Holds
  <2>2. QED BY <1>1, <1>4, <1>5, <2>1 DEF LoadDiskUsage, NewDiskUsage, Monitor, Holds, Entry
<1>7. Restarted(m) = [m EXCEPT !.max = 0]
  BY MonitorFields, RestartedKinds DEF WithMax
<1>8. QED BY <1>1, <1>2, <1>3, <1>6, <1>7, MonitorFields DEF Kept, Holds

LEMMA SaveDiskStatsKept ==
  ASSUME NEW g, NEW m \in MonitorOf("disk_statistics")
  PROVE  Kept(g, m)
<1> DEFINE s == SaveDiskStats(g, m)
<1>1. /\ Holds(s, "type", "disk_statistics")
      /\ Holds(s, "disk_stats_device", m.own.disk_stats_device)
      /\ Holds(s, "disk_stats_stat", m.own.disk_stats_stat)
      /\ Holds(s, "update_interval", m.interval) /\ Holds(s, "fixed_max", m.fixed)
      /\ Holds(s, "tag", m.tag) /\ Holds(s, "add_to_text_overlay", m.overlay)
      /\ Holds(s, "max", IF m.fixed THEN m.max ELSE 0)
  BY DEF SaveDiskStats, Write, Holds
<1>2. Deprecated(s) <=> Deprecated(g)
  BY DEF SaveDiskStats, Write, Deprecated
<1>3. Save(g, m) = s
  BY MonitorFields, SaveKinds
<1> HIDE DEF s
<1>4. m.own = [disk_stats_device |-> m.own.disk_stats_device,
             disk_stats_stat |-> m.own.disk_stats_stat]
  BY MonitorFields, OwnFields
<1>5. Read(s, Default.disk_statistics) =
      [interval |-> m.interval,
       fixed |-> m.fixed, max |-> IF m.fixed THEN m.max ELSE 0, tag |-> m.tag,
       overlay |-> m.overlay]
  BY <1>1, MonitorFields DEF Read, Holds, Entry
<1>6. Load(s) =
      [kind |-> "disk_statistics", own |-> m.own,
       interval |-> m.interval, fixed |-> m.fixed, max |-> IF m.fixed THEN m.max ELSE 0,
       tag |-> m.tag, overlay |-> m.overlay]
  <2>1. Load(s) = LoadDiskStats(s)
    BY <1>1, LoadKinds DEF Holds
  <2>2. QED BY <1>1, <1>4, <1>5, <2>1 DEF LoadDiskStats, NewDiskStats, Monitor, Holds, Entry
<1>7. Restarted(m) = [m EXCEPT !.max = IF m.fixed THEN m.max ELSE 0]
  BY MonitorFields, RestartedKinds DEF WithMax
<1>8. QED BY <1>1, <1>2, <1>3, <1>6, <1>7, MonitorFields DEF Kept, Holds

LEMMA SaveTemperatureKept ==
  ASSUME NEW g, NEW m \in MonitorOf("temperature")
  PROVE  Kept(g, m)
<1> DEFINE s == SaveTemperature(g, m)
<1>1. /\ Holds(s, "type", "temperature")
      /\ Holds(s, "temperature_no", m.own.temperature_no)
      /\ Holds(s, "update_interval", m.interval) /\ Holds(s, "fixed_max", m.fixed)
      /\ Holds(s, "tag", m.tag) /\ Holds(s, "add_to_text_overlay", m.overlay)
      /\ Holds(s, "max", MaxToSave(m))
  BY DEF SaveTemperature, Write, Holds
<1>2. Deprecated(s) <=> Deprecated(g)
  BY DEF SaveTemperature, Write, Deprecated
<1>3. Save(g, m) = s
  BY MonitorFields, SaveKinds
<1> HIDE DEF s
<1>4. m.own = [temperature_no |-> m.own.temperature_no]
  BY MonitorFields, OwnFields
<1>5. Read(s, Default.temperature) =
      [interval |-> m.interval, fixed |-> m.fixed,
       max |-> MaxToSave(m), tag |-> m.tag, overlay |-> m.overlay]
  BY <1>1, MonitorFields DEF Read, Holds, Entry
<1>6. Load(s) =
      [kind |-> "temperature", own |-> m.own, interval |-> m.interval,
       fixed |-> m.fixed, max |-> SensorMax[m.own.temperature_no], tag |-> m.tag,
       overlay |-> m.overlay]
  <2>1. Load(s) = LoadTemperature(s)
    BY <1>1, LoadKinds DEF Holds
  <2>2. QED BY <1>1, <1>4, <1>5, <2>1 DEF LoadTemperature, NewTemperature, Monitor, Holds, Entry
<1>7. Restarted(m) = [m EXCEPT !.max = SensorMax[m.own.temperature_no]]
  BY MonitorFields, RestartedKinds DEF WithMax
<1>8. QED BY <1>1, <1>2, <1>3, <1>6, <1>7, MonitorFields DEF Kept, Holds

LEMMA SaveFanKept ==
  ASSUME NEW g, NEW m \in MonitorOf("fan_speed")
  PROVE  Kept(g, m)
<1> DEFINE s == SaveFan(g, m)
<1>1. /\ Holds(s, "type", "fan_speed") /\ Holds(s, "fan_no", m.own.fan_no)
      /\ Holds(s, "update_interval", m.interval) /\ Holds(s, "fixed_max", m.fixed)
      /\ Holds(s, "tag", m.tag) /\ Holds(s, "add_to_text_overlay", m.overlay)
      /\ Holds(s, "max", MaxToSave(m))
  BY DEF SaveFan, Write, Holds
<1>2. Deprecated(s) <=> Deprecated(g)
  BY DEF SaveFan, Write, Deprecated
<1>3. Save(g, m) = s
  BY MonitorFields, SaveKinds
<1> HIDE DEF s
<1>4. m.own = [fan_no |-> m.own.fan_no]
  BY MonitorFields, OwnFields
<1>5. Read(s, Default.fan_speed) =
      [interval |-> m.interval, fixed |-> m.fixed,
       max |-> MaxToSave(m), tag |-> m.tag, overlay |-> m.overlay]
  BY <1>1, MonitorFields DEF Read, Holds, Entry
<1>6. Load(s) =
      [kind |-> "fan_speed", own |-> m.own, interval |-> m.interval,
       fixed |-> m.fixed, max |-> SensorMax[m.own.fan_no], tag |-> m.tag,
       overlay |-> m.overlay]
  <2>1. Load(s) = LoadFan(s)
    BY <1>1, LoadKinds DEF Holds
  <2>2. QED BY <1>1, <1>4, <1>5, <2>1 DEF LoadFan, NewFan, Monitor, Holds, Entry
<1>7. Restarted(m) = [m EXCEPT !.max = SensorMax[m.own.fan_no]]
  BY MonitorFields, RestartedKinds DEF WithMax
<1>8. QED BY <1>1, <1>2, <1>3, <1>6, <1>7, MonitorFields DEF Kept, Holds

LEMMA SaveGenericKept ==
  ASSUME NEW g, NEW m \in MonitorOf("generic")
  PROVE  Kept(g, m)
<1> DEFINE s == SaveGeneric(g, m)
<1>1. /\ Holds(s, "type", "generic") /\ Holds(s, "file_path", m.own.file_path)
      /\ Holds(s, "value_from_contents", m.own.value_from_contents)
      /\ Holds(s, "regex", m.own.regex)
      /\ Holds(s, "follow_change", m.own.follow_change)
      /\ Holds(s, "value_change_direction", m.own.value_change_direction)
      /\ Holds(s, "data_source_name", m.own.data_source_name)
      /\ Holds(s, "update_interval", m.interval) /\ Holds(s, "fixed_max", m.fixed)
      /\ Holds(s, "tag", m.tag) /\ Holds(s, "add_to_text_overlay", m.overlay)
      /\ Holds(s, "max", MaxToSave(m))
  BY DEF SaveGeneric, Write, Holds
<1>2. Deprecated(s) <=> Deprecated(g)
  BY DEF SaveGeneric, Write, Deprecated
<1>3. Save(g, m) = s
  BY MonitorFields, SaveKinds
<1> HIDE DEF s
<1>4. m.own = [file_path |-> m.own.file_path,
             value_from_contents |-> m.own.value_from_contents, regex |-> m.own.regex,
             follow_change |-> m.own.follow_change,
             value_change_direction |-> m.own.value_change_direction,
             data_source_name |-> m.own.data_source_name]
  BY MonitorFields, OwnFields
<1>5. Read(s, Default.generic) =
      [interval |-> m.interval, fixed |-> m.fixed,
       max |-> MaxToSave(m), tag |-> m.tag, overlay |-> m.overlay]
  BY <1>1, MonitorFields DEF Read, Holds, Entry
<1>6. Load(s) =
      [kind |-> "generic", own |-> m.own, interval |-> m.interval,
       fixed |-> m.fixed, max |-> MaxToSave(m), tag |-> m.tag, overlay |-> m.overlay]
  <2>1. Load(s) = LoadGeneric(s)
    BY <1>1, LoadKinds DEF Holds
  <2>2. m.own.value_change_direction \in 0 .. NumDirections - 1
    BY MonitorFields, OwnFields
  <2>3. QED BY <1>1, <1>4, <1>5, <2>1, <2>2
           DEF LoadGeneric, NewGeneric, Monitor, Holds, Entry
<1>7. Restarted(m) = [m EXCEPT !.max = MaxToSave(m)]
  BY MonitorFields, RestartedKinds DEF WithMax
<1>8. QED BY <1>1, <1>2, <1>3, <1>6, <1>7, MonitorFields DEF Kept, Holds


\* A load average does not save that its maximum is fixed: an entry there is stays.
LEMMA SaveLoadAverageLeaves ==
  ASSUME NEW g, NEW m \in MonitorOf("load_average")
  PROVE  LET s == Save(g, m)
         IN  /\ Holds(s, "type", "load_average") /\ (Deprecated(s) <=> Deprecated(g))
             /\ Load(s) = [Restarted(m) EXCEPT !.fixed = Entry(g, "fixed_max", FALSE)]
<1> DEFINE s == SaveLoadAverage(g, m)
<1>1. /\ Holds(s, "type", "load_average") /\ Holds(s, "update_interval", m.interval)
      /\ Holds(s, "max", MaxToSave(m)) /\ Holds(s, "tag", m.tag)
      /\ Holds(s, "add_to_text_overlay", m.overlay)
  BY DEF SaveLoadAverage, Write, Holds
<1>2. /\ Deprecated(s) <=> Deprecated(g)
      /\ Entry(s, "fixed_max", FALSE) = Entry(g, "fixed_max", FALSE)
  BY DEF SaveLoadAverage, Write, Deprecated, Entry
<1>3. Save(g, m) = s
  BY MonitorFields, SaveKinds
<1> HIDE DEF s
<1>4. m.own = [none |-> 0]
  BY MonitorFields, OwnFields
<1>5. Read(s, Default.load_average) =
      [interval |-> m.interval, fixed |-> Entry(g, "fixed_max", FALSE),
       max |-> MaxToSave(m), tag |-> m.tag, overlay |-> m.overlay]
  <2>1. /\ Entry(s, "update_interval", -1) = m.interval /\ s.update_interval = m.interval
        /\ Entry(s, "max", 0) = MaxToSave(m) /\ Entry(s, "tag", "") = m.tag
        /\ Entry(s, "add_to_text_overlay", TRUE) = m.overlay /\ m.interval # -1
    BY <1>1, MonitorFields DEF Holds, Entry
  <2>2. QED BY <1>2, <2>1 DEF Read
<1>6. Load(s) =
      [kind |-> "load_average", own |-> m.own, interval |-> m.interval,
       fixed |-> Entry(g, "fixed_max", FALSE), max |-> MaxToSave(m), tag |-> m.tag,
       overlay |-> m.overlay]
  <2>1. Load(s) = LoadLoadAverage(s)
    BY <1>1, LoadKinds DEF Holds
  <2>2. QED BY <1>4, <1>5, <2>1 DEF LoadLoadAverage, NewLoadAverage, Monitor
<1>7. Restarted(m) = [m EXCEPT !.max = MaxToSave(m)]
  BY MonitorFields, RestartedKinds DEF WithMax
<1>8. m = [kind |-> "load_average", own |-> m.own, interval |-> m.interval,
           fixed |-> m.fixed, max |-> m.max, tag |-> m.tag, overlay |-> m.overlay]
  BY MonitorFields
<1>9. Load(s) = [Restarted(m) EXCEPT !.fixed = Entry(g, "fixed_max", FALSE)]
  <2>1. Restarted(m) = [kind |-> "load_average", own |-> m.own, interval |-> m.interval,
                        fixed |-> m.fixed, max |-> MaxToSave(m), tag |-> m.tag,
                        overlay |-> m.overlay]
    BY <1>7, <1>8
  <2>2. ASSUME NEW r, NEW max, NEW fixed,
               r = [kind |-> "load_average", own |-> m.own, interval |-> m.interval,
                    fixed |-> m.fixed, max |-> max, tag |-> m.tag, overlay |-> m.overlay]
        PROVE  [r EXCEPT !.fixed = fixed] =
               [kind |-> "load_average", own |-> m.own, interval |-> m.interval,
                fixed |-> fixed, max |-> max, tag |-> m.tag, overlay |-> m.overlay]
    BY <2>2
  <2>3. QED BY <1>6, <2>1, <2>2
<1>10. QED BY <1>1, <1>2, <1>3, <1>9

\* What load_monitors makes of a network monitor saved over deprecated entries.
LEMMA SaveNetworkLeaves ==
  ASSUME NEW g, NEW m \in MonitorOf("network_load")
  PROVE  LET s == Save(g, m)
         IN  /\ Holds(s, "type", "network_load") /\ (Deprecated(s) <=> Deprecated(g))
             /\ ~ Deprecated(g) => Load(s) = Restarted(m)
             /\ Deprecated(g) =>
                  Load(s) = [Restarted(m) EXCEPT !.own =
                               [@ EXCEPT !.interface_type = OldInterfaceType(s)]]
<1> DEFINE s == SaveNetwork(g, m)
           type == IF Deprecated(s) THEN OldInterfaceType(s) ELSE m.own.interface_type
<1>1. /\ Holds(s, "type", "network_load")
      /\ Holds(s, "interface_type", m.own.interface_type)
      /\ Holds(s, "interface_direction", m.own.interface_direction)
      /\ Holds(s, "update_interval", m.interval) /\ Holds(s, "fixed_max", m.fixed)
      /\ Holds(s, "tag", m.tag) /\ Holds(s, "add_to_text_overlay", m.overlay)
      /\ Holds(s, "max", IF m.fixed THEN m.max ELSE 0)
  BY DEF SaveNetwork, Write, Holds
<1>2. Deprecated(s) <=> Deprecated(g)
  BY DEF SaveNetwork, Write, Deprecated
<1>3. Save(g, m) = s
  BY MonitorFields, SaveKinds
<1> HIDE DEF s
<1>4. /\ m.own = [interface_type |-> m.own.interface_type,
                  interface_direction |-> m.own.interface_direction]
      /\ m.own.interface_direction \in 0 .. NumDirections - 1
  BY MonitorFields, OwnFields
<1>5. Read(s, Default.network_load) =
      [interval |-> m.interval,
       fixed |-> m.fixed, max |-> IF m.fixed THEN m.max ELSE 0, tag |-> m.tag,
       overlay |-> m.overlay]
  BY <1>1, MonitorFields DEF Read, Holds, Entry
<1>6. Load(s) =
      [kind |-> "network_load",
       own |-> [interface_type |-> type, interface_direction |-> m.own.interface_direction],
       interval |-> m.interval, fixed |-> m.fixed, max |-> IF m.fixed THEN m.max ELSE 0,
       tag |-> m.tag, overlay |-> m.overlay]
  <2>1. Load(s) = LoadNetwork(s)
    BY <1>1, LoadKinds DEF Holds
  <2>2. /\ Entry(s, "interface_type", 0) = m.own.interface_type
        /\ Entry(s, "interface_direction", 0) = m.own.interface_direction
    BY <1>1 DEF Holds, Entry
  <2>3. QED BY <1>4, <1>5, <2>1, <2>2 DEF LoadNetwork, NewNetwork, Monitor
<1>7. Restarted(m) = [m EXCEPT !.max = IF m.fixed THEN m.max ELSE 0]
  BY MonitorFields, RestartedKinds DEF WithMax
<1>8. m = [kind |-> "network_load", own |-> m.own, interval |-> m.interval,
           fixed |-> m.fixed, max |-> m.max, tag |-> m.tag, overlay |-> m.overlay]
  BY MonitorFields
<1>9. ~ Deprecated(g) => Load(s) = Restarted(m)
  BY <1>2, <1>4, <1>6, <1>7, <1>8
<1>10. Deprecated(g) =>
         Load(s) = [Restarted(m) EXCEPT !.own =
                      [@ EXCEPT !.interface_type = OldInterfaceType(s)]]
  <2> DEFINE old == OldInterfaceType(s)
             max == IF m.fixed THEN m.max ELSE 0
  <2>1. Restarted(m) = [kind |-> "network_load", own |-> m.own, interval |-> m.interval,
                        fixed |-> m.fixed, max |-> max, tag |-> m.tag,
                        overlay |-> m.overlay]
    BY <1>7, <1>8
  <2>2. [m.own EXCEPT !.interface_type = old] =
        [interface_type |-> old, interface_direction |-> m.own.interface_direction]
    BY <1>4
  <2>3. Deprecated(g) =>
          Load(s) = [kind |-> "network_load", own |-> [m.own EXCEPT !.interface_type = old],
                     interval |-> m.interval, fixed |-> m.fixed, max |-> max, tag |-> m.tag,
                     overlay |-> m.overlay]
    BY <1>2, <1>6, <2>2
  <2> HIDE DEF old, max
  <2>4. QED BY <2>1, <2>3 DEF old
<1>11. QED BY <1>1, <1>2, <1>3, <1>9, <1>10


LEMMA KindsAre ==
  Kinds = {"cpu_usage", "memory_usage", "swap_usage", "load_average", "disk_usage",
           "disk_statistics", "network_load", "temperature", "fan_speed", "generic"}
BY DEF Kinds, Default

LEMMA MaxToSaveIs ==
  ASSUME NEW m, m.fixed \in BOOLEAN, m.max \in 0 .. Largest
  PROVE  MaxToSave(m) \in 0 .. Largest /\ (m.fixed => MaxToSave(m) = Printed(m.max))
<1>1. Printed(m.max) \in 0 .. Largest /\ 0 \in 0 .. Largest
  BY PrintedSettles, LargestType
<1>2. QED BY <1>1 DEF MaxToSave

LEMMA WithMaxIs ==
  ASSUME NEW kind, NEW m \in MonitorOf(kind), NEW n
  PROVE  /\ WithMax(m, n).kind = kind /\ WithMax(m, n).own = m.own
         /\ WithMax(m, n).interval = m.interval /\ WithMax(m, n).fixed = m.fixed
         /\ WithMax(m, n).tag = m.tag /\ WithMax(m, n).overlay = m.overlay
         /\ WithMax(m, n).max = n /\ \A x : WithMax(WithMax(m, n), x) = WithMax(m, x)
         /\ n \in 0 .. Largest => WithMax(m, n) \in MonitorOf(kind)
         /\ WithMax(m, m.max) = m
BY DEF WithMax, MonitorOf

\* A restart changes nothing but the maximum, and a second one not even that.
LEMMA RestartSettles ==
  ASSUME NEW kind \in Kinds, NEW m \in MonitorOf(kind)
  PROVE  \E n \in 0 .. Largest :
           /\ Restarted(m) = WithMax(m, n) /\ Restarted(WithMax(m, n)) = WithMax(m, n)
           /\ kind \notin {"cpu_usage", "temperature", "fan_speed"} /\ ~ m.fixed => n = 0
           /\ kind \in {"memory_usage", "swap_usage", "disk_usage"} => n = 0
           /\ kind \in {"load_average", "generic"} /\ m.fixed => n = Printed(m.max)
           /\ kind \in {"disk_statistics", "network_load"} /\ m.fixed => n = m.max
<1> DEFINE n == Restarted(m).max
<1>1. /\ m.kind = kind /\ m.fixed \in BOOLEAN /\ m.max \in 0 .. Largest
      /\ m.own \in Own[kind] /\ 0 \in 0 .. Largest /\ 1 \in 0 .. Largest
  <2>1. Largest \in Nat /\ 1 <= Largest
    BY SMT DEF Largest
  <2>2. QED BY <2>1, MonitorFields
<1>2. /\ \A x : WithMax(m, x).kind = kind /\ WithMax(m, x).fixed = m.fixed
                /\ WithMax(m, x).own = m.own /\ WithMax(m, x).max = x
      /\ \A x, y : WithMax(WithMax(m, x), y) = WithMax(m, y)
  BY WithMaxIs
<1>3. CASE kind = "cpu_usage"
  <2>1. Restarted(m) = WithMax(m, 1) /\ Restarted(WithMax(m, 1)) = WithMax(WithMax(m, 1), 1)
    BY <1>1, <1>2, <1>3, RestartedKinds
  <2>2. QED BY <1>1, <1>2, <1>3, <2>1
<1>4. CASE kind \in {"memory_usage", "swap_usage", "disk_usage"}
  <2>1. Restarted(m) = WithMax(m, 0) /\ Restarted(WithMax(m, 0)) = WithMax(WithMax(m, 0), 0)
    BY <1>1, <1>2, <1>4, RestartedKinds
  <2>2. QED BY <1>1, <1>2, <1>4, <2>1
<1>5. CASE kind \in {"load_average", "generic"}
  <2> DEFINE x == MaxToSave(m)
             y == MaxToSave(WithMax(m, x))
  <2>1. Restarted(m) = WithMax(m, x) /\ Restarted(WithMax(m, x)) = WithMax(WithMax(m, x), y)
    BY <1>1, <1>2, <1>5, RestartedKinds
  <2>2. /\ x \in 0 .. Largest /\ (~ m.fixed => x = 0 /\ y = 0)
        /\ m.fixed => x = Printed(m.max) /\ y = Printed(x)
    BY <1>1, <1>2, MaxToSaveIs DEF MaxToSave
  <2>3. y = x
    BY <1>1, <2>2, PrintedSettles
  <2> HIDE DEF x, y
  <2>4. QED BY <1>1, <1>2, <1>5, <2>1, <2>2, <2>3
<1>6. CASE kind \in {"disk_statistics", "network_load"}
  <2> DEFINE x == IF m.fixed THEN m.max ELSE 0
  <2>1. Restarted(m) = WithMax(m, x) /\ Restarted(WithMax(m, x)) = WithMax(WithMax(m, x), x)
    BY <1>1, <1>2, <1>6, RestartedKinds
  <2>2. QED BY <1>1, <1>2, <1>6, <2>1
<1>7. CASE kind \in {"temperature", "fan_speed"}
  <2> DEFINE no == IF kind = "temperature" THEN m.own.temperature_no ELSE m.own.fan_no
  <2>1. Restarted(m) = WithMax(m, SensorMax[no]) /\
        Restarted(WithMax(m, SensorMax[no])) = WithMax(WithMax(m, SensorMax[no]), SensorMax[no])
    BY <1>1, <1>2, <1>7, RestartedKinds
  <2>2. no \in DOMAIN SensorMax
    BY <1>1, <1>7, OwnFields
  <2>3. SensorMax[no] \in 0 .. Largest
    BY <2>2, SettingsAssumption
  <2> HIDE DEF no
  <2>4. QED BY <1>2, <1>7, <2>1, <2>3
<1>8. QED BY <1>3, <1>4, <1>5, <1>6, <1>7, KindsAre

\* What is measured of a maximum that is not fixed is lost in a restart.
LEMMA MeasuredIsLost ==
  ASSUME NEW kind \in Kinds, NEW m \in MonitorOf(kind), NEW n \in 0 .. Largest,
         kind # "cpu_usage",
         ~ m.fixed \/ kind \in {"memory_usage", "swap_usage", "disk_usage"}
  PROVE  Restarted(WithMax(m, n)) = Restarted(m)
<1>1. m.kind = kind /\ m.fixed \in BOOLEAN
  BY MonitorFields
<1>2. /\ WithMax(m, n).kind = kind /\ WithMax(m, n).fixed = m.fixed
      /\ WithMax(m, n).own = m.own /\ \A y : WithMax(WithMax(m, n), y) = WithMax(m, y)
  BY WithMaxIs
<1>3. CASE kind \in {"memory_usage", "swap_usage", "disk_usage"}
  BY <1>1, <1>2, <1>3, RestartedKinds
<1>4. CASE kind \in {"load_average", "generic"} /\ ~ m.fixed
  <2>1. MaxToSave(m) = 0 /\ MaxToSave(WithMax(m, n)) = 0
    BY <1>2, <1>4 DEF MaxToSave
  <2>2. QED BY <1>1, <1>2, <1>4, <2>1, RestartedKinds
<1>5. CASE kind \in {"disk_statistics", "network_load"} /\ ~ m.fixed
  BY <1>1, <1>2, <1>5, RestartedKinds
<1>6. CASE kind \in {"temperature", "fan_speed"}
  BY <1>1, <1>2, <1>6, RestartedKinds
<1>7. QED BY <1>3, <1>4, <1>5, <1>6, KindsAre

--------------------------------------------------------------------------
(* A group that is saved over. *)

\* Every kind reads these entries the same way.
LEMMA LoadCommon ==
  ASSUME NEW g, g.type \in Kinds
  PROVE  /\ Load(g).kind = g.type /\ Load(g).fixed = Entry(g, "fixed_max", FALSE)
         /\ Load(g).tag = Entry(g, "tag", "")
         /\ Load(g).overlay = Entry(g, "add_to_text_overlay", TRUE)
         /\ Load(g).interval = IF Entry(g, "update_interval", -1) = -1 THEN Default[g.type]
                               ELSE g.update_interval
<1> DEFINE c == Read(g, Default[g.type])
<1>1. /\ c.interval = IF Entry(g, "update_interval", -1) = -1 THEN Default[g.type]
                      ELSE g.update_interval
      /\ c.fixed = Entry(g, "fixed_max", FALSE) /\ c.tag = Entry(g, "tag", "")
      /\ c.overlay = Entry(g, "add_to_text_overlay", TRUE)
  BY DEF Read
<1> HIDE DEF c
<1>2. SUFFICES /\ Load(g).kind = g.type /\ Load(g).fixed = c.fixed /\ Load(g).tag = c.tag
               /\ Load(g).overlay = c.overlay /\ Load(g).interval = c.interval
  BY <1>1
<1>3. ASSUME NEW own, NEW max, Load(g) = Monitor(g.type, own, c, max)
      PROVE  /\ Load(g).kind = g.type /\ Load(g).fixed = c.fixed /\ Load(g).tag = c.tag
             /\ Load(g).overlay = c.overlay /\ Load(g).interval = c.interval
  BY <1>3 DEF Monitor
<1>4. CASE g.type = "cpu_usage"
  <2>1. c = Read(g, Default.cpu_usage) /\ Load(g) = LoadCpu(g)
    BY <1>4, LoadKinds DEF c
  <2>2. QED BY <1>4, <2>1 DEF LoadCpu, NewCpu
<1>5. CASE g.type = "memory_usage"
  <2>1. c = Read(g, Default.memory_usage) /\ Load(g) = LoadMemory(g)
    BY <1>5, LoadKinds DEF c
  <2>2. QED BY <1>3, <1>5, <2>1 DEF LoadMemory, NewMemory
<1>6. CASE g.type = "swap_usage"
  <2>1. c = Read(g, Default.swap_usage) /\ Load(g) = LoadSwap(g)
    BY <1>6, LoadKinds DEF c
  <2>2. QED BY <1>3, <1>6, <2>1 DEF LoadSwap, NewSwap
<1>7. CASE g.type = "load_average"
  <2>1. c = Read(g, Default.load_average) /\ Load(g) = LoadLoadAverage(g)
    BY <1>7, LoadKinds DEF c
  <2>2. QED BY <1>3, <1>7, <2>1 DEF LoadLoadAverage, NewLoadAverage
<1>8. CASE g.type = "disk_usage"
  <2>1. c = Read(g, Default.disk_usage) /\ Load(g) = LoadDiskUsage(g)
    BY <1>8, LoadKinds DEF c
  <2>2. QED BY <1>3, <1>8, <2>1 DEF LoadDiskUsage, NewDiskUsage
<1>9. CASE g.type = "disk_statistics"
  <2>1. c = Read(g, Default.disk_statistics) /\ Load(g) = LoadDiskStats(g)
    BY <1>9, LoadKinds DEF c
  <2>2. QED BY <1>3, <1>9, <2>1 DEF LoadDiskStats, NewDiskStats
<1>10. CASE g.type = "network_load"
  <2>1. c = Read(g, Default.network_load) /\ Load(g) = LoadNetwork(g)
    BY <1>10, LoadKinds DEF c
  <2>2. QED BY <1>3, <1>10, <2>1 DEF LoadNetwork, NewNetwork
<1>11. CASE g.type = "temperature"
  <2>1. c = Read(g, Default.temperature) /\ Load(g) = LoadTemperature(g)
    BY <1>11, LoadKinds DEF c
  <2>2. QED BY <1>3, <1>11, <2>1 DEF LoadTemperature, NewTemperature
<1>12. CASE g.type = "fan_speed"
  <2>1. c = Read(g, Default.fan_speed) /\ Load(g) = LoadFan(g)
    BY <1>12, LoadKinds DEF c
  <2>2. QED BY <1>3, <1>12, <2>1 DEF LoadFan, NewFan
<1>13. CASE g.type = "generic"
  <2>1. c = Read(g, Default.generic) /\ Load(g) = LoadGeneric(g)
    BY <1>13, LoadKinds DEF c
  <2>2. QED BY <1>3, <1>13, <2>1 DEF LoadGeneric, NewGeneric
<1>14. QED BY <1>4, <1>5, <1>6, <1>7, <1>8, <1>9, <1>10, <1>11, <1>12, <1>13, KindsAre

\* What a write leaves of a flag.
Flag(g, key) == Entry(g, key, FALSE)
LEMMA WriteFlag ==
  ASSUME NEW g, NEW entries, NEW key, Flag(g, key) \in BOOLEAN,
         key \in DOMAIN entries => entries[key] \in BOOLEAN
  PROVE  Flag(Write(g, entries), key) \in BOOLEAN
BY DEF Entry, Write, Flag

LEMMA FlagsAre ==
  ASSUME NEW g
  PROVE  FlagsRead(g) <=> /\ Flag(g, "fixed_max") \in BOOLEAN
                          /\ Flag(g, "include_low_priority") \in BOOLEAN
                          /\ Flag(g, "include_iowait") \in BOOLEAN
BY DEF FlagsRead, Flag

LEMMA NothingRead == FlagsRead(<<>>) /\ ~ Deprecated(<<>>)
BY DEF FlagsRead, Entry, Deprecated

\* A save leaves the flags flags.
LEMMA SaveFlags ==
  ASSUME NEW kind \in Kinds, NEW m \in MonitorOf(kind), NEW g, FlagsRead(g)
  PROVE  FlagsRead(Save(g, m))
<1>1. ASSUME NEW entries, Save(g, m) = Write(g, entries),
             "fixed_max" \in DOMAIN entries => entries["fixed_max"] \in BOOLEAN,
             "include_low_priority" \in DOMAIN entries =>
               entries["include_low_priority"] \in BOOLEAN,
             "include_iowait" \in DOMAIN entries => entries["include_iowait"] \in BOOLEAN
      PROVE  FlagsRead(Save(g, m))
  <2>1. /\ Flag(g, "fixed_max") \in BOOLEAN
        /\ Flag(g, "include_low_priority") \in BOOLEAN
        /\ Flag(g, "include_iowait") \in BOOLEAN
    BY FlagsAre
  <2>2. Flag(Write(g, entries), "fixed_max") \in BOOLEAN
    BY <1>1, <2>1, WriteFlag
  <2>3. Flag(Write(g, entries), "include_low_priority") \in BOOLEAN
    BY <1>1, <2>1, WriteFlag
  <2>4. Flag(Write(g, entries), "include_iowait") \in BOOLEAN
    BY <1>1, <2>1, WriteFlag
  <2>5. QED BY <1>1, <2>2, <2>3, <2>4, FlagsAre
<1>2. m.kind = kind /\ m.fixed \in BOOLEAN
  BY MonitorFields
<1>3. CASE kind = "cpu_usage"
  <2>1. m.own.include_low_priority \in BOOLEAN /\ m.own.include_iowait \in BOOLEAN
    BY <1>3, MonitorFields, OwnFields
  <2>2. Save(g, m) = SaveCpu(g, m)
    BY <1>2, <1>3, SaveKinds
  <2>3. QED BY <1>1, <1>2, <2>1, <2>2 DEF SaveCpu
<1>4. CASE kind = "memory_usage"
  BY <1>1, <1>2, <1>4, SaveKinds DEF SaveMemory
<1>5. CASE kind = "swap_usage"
  BY <1>1, <1>2, <1>5, SaveKinds DEF SaveSwap
<1>6. CASE kind = "load_average"
  BY <1>1, <1>2, <1>6, SaveKinds DEF SaveLoadAverage
<1>7. CASE kind = "disk_usage"
  BY <1>1, <1>2, <1>7, SaveKinds DEF SaveDiskUsage
<1>8. CASE kind = "disk_statistics"
  BY <1>1, <1>2, <1>8, SaveKinds DEF SaveDiskStats
<1>9. CASE kind = "network_load"
  BY <1>1, <1>2, <1>9, SaveKinds DEF SaveNetwork
<1>10. CASE kind = "temperature"
  BY <1>1, <1>2, <1>10, SaveKinds DEF SaveTemperature
<1>11. CASE kind = "fan_speed"
  BY <1>1, <1>2, <1>11, SaveKinds DEF SaveFan
<1>12. CASE kind = "generic"
  <2>1. Save(g, m) = SaveGeneric(g, m)
    BY <1>2, <1>12, SaveKinds
  <2>2. QED BY <1>1, <1>2, <2>1 DEF SaveGeneric
<1>13. QED BY <1>3, <1>4, <1>5, <1>6, <1>7, <1>8, <1>9, <1>10, <1>11, <1>12, KindsAre

LEMMA OldInterfaceTypeIs ==
  ASSUME NEW g
  PROVE  OldInterfaceType(g) \in 0 .. NumInterfaceTypes - 1
BY DEF OldInterfaceType, NumInterfaceTypes

\* Over whatever was in the group, a save leaves a group that can be read, and that a
\* restart loads as it should: unless a load average saves that its maximum is fixed, or
\* entries of an old network monitor are left.
LEMMA SaveIsLegible ==
  ASSUME NEW kind \in Kinds, NEW m \in MonitorOf(kind), NEW g, FlagsRead(g)
  PROVE  LET s == Save(g, m)
         IN  /\ Legible(s) /\ s.type = kind /\ (Deprecated(s) <=> Deprecated(g))
             /\ kind = "cpu_usage" => "fixed_max" \in DOMAIN s
             /\ kind # "load_average" /\ (kind = "network_load" => ~ Deprecated(g)) =>
                  Load(s) = Restarted(m)
             /\ kind = "load_average" =>
                  Load(s) = [Restarted(m) EXCEPT !.fixed = Entry(g, "fixed_max", FALSE)]
<1> DEFINE s == Save(g, m)
<1>1. m.kind = kind /\ FlagsRead(s)
  BY MonitorFields, SaveFlags
<1>2. PICK n \in 0 .. Largest :
        Restarted(m) = WithMax(m, n) /\ Restarted(WithMax(m, n)) = WithMax(m, n)
  BY RestartSettles
<1>3. WithMax(m, n) \in MonitorOf(kind)
  BY WithMaxIs
<1>4. CASE kind \notin {"load_average", "network_load"}
  <2>1. Kept(g, m)
    BY <1>4, KindsAre, SaveCpuKept, SaveMemoryKept, SaveSwapKept, SaveDiskUsageKept,
       SaveDiskStatsKept, SaveTemperatureKept, SaveFanKept, SaveGenericKept
  <2>2. /\ "type" \in DOMAIN s /\ s.type = kind /\ Load(s) = WithMax(m, n)
        /\ "fixed_max" \in DOMAIN s /\ (kind = "disk_usage" => "mount_dir" \in DOMAIN s)
        /\ Deprecated(s) <=> Deprecated(g)
    BY <1>1, <1>2, <2>1 DEF Kept, Holds
  <2> HIDE DEF s
  <2>3. Legible(s)
    BY <1>1, <1>2, <1>3, <2>2 DEF Legible
  <2>4. QED BY <1>2, <1>4, <2>2, <2>3 DEF s
<1>5. CASE kind = "load_average"
  <2>1. /\ Holds(s, "type", kind) /\ (Deprecated(s) <=> Deprecated(g))
        /\ Load(s) = [Restarted(m) EXCEPT !.fixed = Entry(g, "fixed_max", FALSE)]
    BY <1>5, SaveLoadAverageLeaves
  <2> HIDE DEF s
  <2>2. [WithMax(m, n) EXCEPT !.fixed = Entry(g, "fixed_max", FALSE)] \in MonitorOf(kind)
    <3>1. Entry(g, "fixed_max", FALSE) \in BOOLEAN
      BY DEF FlagsRead
    <3>2. QED BY <1>3, <3>1 DEF MonitorOf
  <2>3. Load(s) \in MonitorOf(kind)
    BY <1>2, <2>1, <2>2
  <2>4. Legible(s) /\ s.type = kind
    BY <1>1, <1>5, <2>1, <2>3 DEF Legible, Holds
  <2>5. QED BY <1>5, <2>1, <2>4 DEF s
<1>6. CASE kind = "network_load"
  <2> DEFINE old == [m.own EXCEPT !.interface_type = OldInterfaceType(s)]
  <2>1. /\ Holds(s, "type", kind) /\ (Deprecated(s) <=> Deprecated(g))
        /\ ~ Deprecated(g) => Load(s) = Restarted(m)
        /\ Deprecated(g) => Load(s) = [Restarted(m) EXCEPT !.own =
                                [@ EXCEPT !.interface_type = OldInterfaceType(s)]]
    BY <1>6, SaveNetworkLeaves
  <2> HIDE DEF s
  <2>2. old \in Own[kind]
    <3>1. m.own \in Own["network_load"]
      BY <1>6, MonitorFields
    <3>2. QED BY <1>6, <3>1, OldInterfaceTypeIs DEF Own
  <2>3. Deprecated(g) => Load(s) = [WithMax(m, n) EXCEPT !.own = old]
    BY <1>2, <2>1, WithMaxIs
  <2> HIDE DEF old
  <2>4. [WithMax(m, n) EXCEPT !.own = old] \in MonitorOf(kind)
    BY <1>3, <2>2 DEF MonitorOf
  <2>5. Restarted([WithMax(m, n) EXCEPT !.own = old]) = [WithMax(m, n) EXCEPT !.own = old]
    <3> DEFINE w == WithMax(m, n)
               r == [w EXCEPT !.own = old]
               max == IF w.fixed THEN w.max ELSE 0
    <3>1. w.kind = kind /\ Restarted(w) = w
      BY <1>1, <1>2, WithMaxIs
    <3>2. w = [kind |-> w.kind, own |-> w.own, interval |-> w.interval, fixed |-> w.fixed,
               max |-> w.max, tag |-> w.tag, overlay |-> w.overlay]
      BY <1>3, MonitorFields
    <3> HIDE DEF w
    <3>3. w.max = max
      <4>1. Restarted(w) = WithMax(w, max)
        BY <1>6, <3>1, RestartedKinds
      <4>2. QED BY <3>1, <3>2, <4>1 DEF WithMax
    <3>4. r.kind = kind /\ r.fixed = w.fixed /\ r.max = w.max
      BY <3>1, <3>2
    <3>5. Restarted(r) = [r EXCEPT !.max = max]
      BY <1>6, <3>4, RestartedKinds DEF WithMax
    <3>6. [r EXCEPT !.max = w.max] = r
      BY <3>2
    <3>7. QED BY <3>3, <3>5, <3>6 DEF w
  <2>6. /\ Load(s) \in MonitorOf(kind) /\ Restarted(Load(s)) = Load(s)
    BY <1>2, <1>3, <2>1, <2>3, <2>4, <2>5
  <2>7. Legible(s) /\ s.type = kind
    BY <1>1, <1>6, <2>1, <2>6 DEF Legible, Holds
  <2>8. QED BY <1>6, <2>1, <2>7 DEF s
<1>7. QED BY <1>4, <1>5, <1>6


\* load_monitors reads the same monitor from the entries that it replaces and from those
\* it puts in their place.
LEMMA MigratedAlike ==
  ASSUME NEW g, Legible(g)
  PROVE  /\ Legible(Migrated(g)) /\ Migrated(g).type = g.type
         /\ Load(Migrated(g)) = Load(g)
         /\ Deprecated(Migrated(g)) => Deprecated(g) /\ g.type # "network_load"
         /\ "fixed_max" \in DOMAIN g => "fixed_max" \in DOMAIN Migrated(g)
<1> DEFINE w == Migrated(g)
           old == [interface_type |-> OldInterfaceType(g)]
<1>1. CASE ~ (g.type = "network_load" /\ Deprecated(g))
  BY <1>1 DEF Migrated
<1>2. CASE g.type = "network_load" /\ Deprecated(g)
  <2>1. w = Write(Without(g, {"interface_no", "interface"}), old)
    BY <1>2 DEF Migrated
  <2>2. "type" \in DOMAIN g
    BY DEF Legible
  <2>3. /\ \A key : key \notin {"interface_no", "interface", "interface_type"} =>
             (key \in DOMAIN w <=> key \in DOMAIN g) /\ (key \in DOMAIN g => w[key] = g[key])
        /\ "interface_no" \notin DOMAIN w
        /\ "interface_type" \in DOMAIN w /\ w.interface_type = OldInterfaceType(g)
    BY <2>1 DEF Write, Without
  <2> HIDE DEF w
  <2>4. /\ "type" \in DOMAIN w /\ w.type = "network_load" /\ ~ Deprecated(w)
        /\ "fixed_max" \in DOMAIN g => "fixed_max" \in DOMAIN w
    BY <1>2, <2>2, <2>3 DEF Deprecated
  <2>5. Load(w) = LoadNetwork(w) /\ Load(g) = LoadNetwork(g)
    BY <1>2, <2>4, LoadKinds
  <2>6. Read(w, Default.network_load) = Read(g, Default.network_load)
    <3>1. /\ Entry(w, "update_interval", -1) = Entry(g, "update_interval", -1)
          /\ Entry(w, "fixed_max", FALSE) = Entry(g, "fixed_max", FALSE)
          /\ Entry(w, "max", 0) = Entry(g, "max", 0)
          /\ Entry(w, "tag", "") = Entry(g, "tag", "")
          /\ Entry(w, "add_to_text_overlay", TRUE) = Entry(g, "add_to_text_overlay", TRUE)
      BY <2>3 DEF Entry
    <3>2. Entry(g, "update_interval", -1) # -1 => w.update_interval = g.update_interval
      BY <2>3 DEF Entry
    <3>3. QED BY <3>1, <3>2 DEF Read
  <2>7. /\ Entry(w, "interface_direction", 0) = Entry(g, "interface_direction", 0)
        /\ Entry(w, "interface_type", 0) = OldInterfaceType(g)
    BY <2>3 DEF Entry
  <2>8. Load(w) = Load(g)
    BY <1>2, <2>4, <2>5, <2>6, <2>7 DEF LoadNetwork
  <2>9. Legible(w)
    <3>1. FlagsRead(w)
      BY <2>3 DEF Legible, FlagsRead, Entry
    <3>2. QED BY <1>2, <2>4, <2>8, <3>1 DEF Legible
  <2>10. QED BY <1>2, <2>4, <2>8, <2>9 DEF w
<1>3. QED BY <1>1, <1>2

LEMMA DefaultMonitorIs ==
  DefaultMonitor \in MonitorOf("cpu_usage") /\ Restarted(DefaultMonitor) = DefaultMonitor
<1> DEFINE all == [cpu_no |-> AllCpus, include_low_priority |-> FALSE,
                   include_iowait |-> FALSE]
           second == 1000
           tag == ""
<1>1. DefaultMonitor = [kind |-> "cpu_usage", own |-> all, interval |-> second,
                        fixed |-> TRUE, max |-> 1, tag |-> tag, overlay |-> TRUE]
  BY DEF DefaultMonitor, NewCpu
<1>2. tag \in Texts /\ 1 \in 0 .. Largest /\ second \in Nat
  <2>1. Largest \in Nat /\ 1 <= Largest
    BY SMT DEF Largest
  <2>2. 1 \in 0 .. Largest /\ second \in Nat
    BY <2>1, SMT
  <2>3. {"", "/"} \subseteq Texts
    BY SettingsAssumption
  <2>4. tag \in Texts
    BY <2>3
  <2>5. QED BY <2>2, <2>4
<1>3. all \in Own["cpu_usage"]
  BY DEF Own
<1> HIDE DEF all, second, tag
<1>4. DefaultMonitor \in MonitorOf("cpu_usage")
  BY <1>1, <1>2, <1>3 DEF MonitorOf
<1>5. Restarted(DefaultMonitor) = DefaultMonitor
  <2>1. DefaultMonitor.kind = "cpu_usage" /\ DefaultMonitor.max = 1
    BY <1>1
  <2>2. QED BY <1>4, <2>1, RestartedKinds, WithMaxIs
<1>6. QED BY <1>4, <1>5
--------------------------------------------------------------------------
(* Panels. *)

LEMMA DelayIs ==
  ASSUME NEW n \in Nat
  PROVE  Delay(n) \in Seconds /\ (n \in Intervals => Milliseconds(Delay(n)) = n)
<1>1. Delay(n) \in Seconds
  BY SMT DEF Delay, Clamp, Seconds
<1>2. ASSUME n \in Intervals PROVE Milliseconds(Delay(n)) = n
  <2>1. PICK seconds \in Seconds : n = 1000 * seconds
    BY <1>2, SMT DEF Intervals, Milliseconds
  <2>2. seconds \in Nat /\ 1 <= seconds /\ seconds <= 9999
    BY SMT DEF Seconds
  <2>3. n \div 1000 = seconds
    BY <2>1, <2>2, SMT
  <2>4. QED BY <2>1, <2>2, <2>3, SMT DEF Delay, Clamp, Milliseconds
<1>3. QED BY <1>1, <1>2

LEMMA MillisecondsAre ==
  ASSUME NEW seconds \in Seconds
  PROVE  Milliseconds(seconds) \in Intervals
BY DEF Intervals

\* A panel of a kind: the maximum of a kind that has none is not read.
IsPanel(p, k) ==
  /\ p.kind = k /\ p.own \in OwnWidgets[k] /\ p.delay \in Seconds
  /\ p.fixed \in BOOLEAN /\ p.tag \in Texts /\ p.overlay \in BOOLEAN
  /\ k \in {"load_average", "disk_statistics", "network_load", "generic"} =>
       p.max \in 0 .. Largest


LEMMA ChoicesAre ==
  /\ Offered \subseteq Kinds /\ Delays \subseteq Seconds /\ Maxima \subseteq 0 .. Largest
  /\ Tags \subseteq Texts /\ MaxChanges \in Nat
  /\ \A g \in OldGroups : g # <<>> => Legible(g)
BY Zenon, ChooserAssumption

LEMMA DefaultDelayIs ==
  ASSUME NEW k \in Kinds
  PROVE  DefaultDelay(k) \in Seconds
<1> DEFINE defaults == {1000, 10000, 20000, 30000, 60000}
<1>1. /\ Default["cpu_usage"] = 1000 /\ Default["memory_usage"] = 10000
      /\ Default["swap_usage"] = 10000 /\ Default["load_average"] = 30000
      /\ Default["disk_usage"] = 60000 /\ Default["disk_statistics"] = 1000
      /\ Default["network_load"] = 1000 /\ Default["temperature"] = 20000
      /\ Default["fan_speed"] = 20000 /\ Default["generic"] = 1000
  BY SMT DEF Default
<1>2. Default[k] \in defaults /\ Default["disk_statistics"] \in defaults
  BY <1>1, KindsAre, SMT
<1>3. ASSUME NEW n \in defaults PROVE n \div 1000 \in Seconds
  BY SMT DEF Seconds
<1> HIDE DEF defaults
<1>4. ButtonDelay(k) \in Seconds
  BY <1>2, <1>3, SMT DEF ButtonDelay
<1>5. FanButtonDelay \in Seconds
  BY <1>2, <1>3, SMT DEF FanButtonDelay
<1>6. QED BY <1>4, <1>5 DEF DefaultDelay

\* What the user makes of the window is a panel of its kind.
LEMMA EditsArePanels ==
  ASSUME NEW k \in Offered, NEW p \in Edits(k)
  PROVE  IsPanel(p, k) /\ p.overlay = FALSE
<1>1. /\ p.kind = k /\ p.own \in OwnChoices[k] /\ p.delay \in Delays \cup {DefaultDelay(k)}
      /\ p.fixed \in BOOLEAN /\ p.max \in Maxima /\ p.tag \in Tags /\ p.overlay = FALSE
  BY DEF Edits
<1>2. k \in Kinds /\ OwnChoices[k] \subseteq OwnWidgets[k]
  BY ChooserAssumption
<1>3. p.delay \in Seconds
  <2>1. Delays \subseteq Seconds
    BY ChoicesAre
  <2>2. QED BY <1>1, <1>2, <2>1, DefaultDelayIs
<1>4. p.max \in 0 .. Largest /\ p.tag \in Texts
  <2>1. Maxima \subseteq 0 .. Largest /\ Tags \subseteq Texts
    BY ChoicesAre
  <2>2. QED BY <1>1, <2>1
<1>5. QED BY <1>1, <1>2, <1>3, <1>4 DEF IsPanel

LEMMA WidgetsOf ==
  /\ OwnWidgets["cpu_usage"] = [one : BOOLEAN, no : Nat, low : BOOLEAN, iowait : BOOLEAN]
  /\ OwnWidgets["disk_statistics"] =
       [disk_stats_device : Texts, disk_stats_stat : -1 .. NumStats - 1]
  /\ OwnWidgets["network_load"] = [interface_type : -1 .. NumInterfaceTypes - 1,
                                   interface_direction : -1 .. NumDirections - 1]
  /\ OwnWidgets["temperature"] = [temperature_no : Int]
  /\ OwnWidgets["fan_speed"] = [fan_no : Int]
  /\ \A k \in {"memory_usage", "swap_usage", "load_average", "disk_usage", "generic"} :
       OwnWidgets[k] = Own[k]
<1>1. OwnWidgets["cpu_usage"] = [one : BOOLEAN, no : Nat, low : BOOLEAN, iowait : BOOLEAN]
  BY DEF OwnWidgets, Own
<1>2. /\ OwnWidgets["disk_statistics"] =
           [disk_stats_device : Texts, disk_stats_stat : -1 .. NumStats - 1]
      /\ OwnWidgets["network_load"] = [interface_type : -1 .. NumInterfaceTypes - 1,
                                       interface_direction : -1 .. NumDirections - 1]
  BY DEF OwnWidgets, Own
<1>3. /\ OwnWidgets["temperature"] = [temperature_no : Int]
      /\ OwnWidgets["fan_speed"] = [fan_no : Int]
  BY DEF OwnWidgets, Own
<1>4. /\ OwnWidgets["memory_usage"] = Own["memory_usage"]
      /\ OwnWidgets["swap_usage"] = Own["swap_usage"]
      /\ OwnWidgets["load_average"] = Own["load_average"]
      /\ OwnWidgets["disk_usage"] = Own["disk_usage"]
      /\ OwnWidgets["generic"] = Own["generic"]
  BY DEF OwnWidgets, Own
<1>5. QED BY <1>1, <1>2, <1>3, <1>4, Zenon

\* The monitor that a constructor makes of the arguments of a kind other than a CPU's.
LEMMA MadeOf ==
  ASSUME NEW kind, kind # "cpu_usage", NEW own \in Own[kind], NEW c, NEW max \in 0 .. Largest,
         c.interval \in Intervals, c.fixed \in BOOLEAN, c.tag \in Texts, c.overlay \in BOOLEAN
  PROVE  Monitor(kind, own, c, max) \in MonitorOf(kind)
BY DEF Monitor, MonitorOf

\* OK makes a monitor of an accepted panel.
LEMMA AcceptedIsMonitor ==
  ASSUME NEW kind \in Kinds, NEW p, IsPanel(p, kind), Accepted(p)
  PROVE  Accept(p) \in MonitorOf(kind)
<1> DEFINE c == Arguments(p)
<1>1. /\ c.interval \in Intervals /\ c.fixed \in BOOLEAN /\ c.tag \in Texts
      /\ c.overlay \in BOOLEAN /\ c.max = p.max
  <2>1. Milliseconds(p.delay) \in Intervals
    BY MillisecondsAre DEF IsPanel
  <2>2. QED BY <2>1 DEF IsPanel, Arguments
<1>2. p.kind = kind /\ p.own \in OwnWidgets[kind] /\ Largest \in Nat
  BY LargestType DEF IsPanel
<1>3. ASSUME NEW own \in Own[kind], NEW max \in 0 .. Largest, kind # "cpu_usage",
             Accept(p) = Monitor(kind, own, c, max)
      PROVE  Accept(p) \in MonitorOf(kind)
  BY <1>1, <1>3, MadeOf
<1> HIDE DEF c
<1>4. CASE kind = "cpu_usage"
  <2> DEFINE no == IF p.own.one THEN p.own.no - 1 ELSE AllCpus
             own == [cpu_no |-> IF no \in 0 .. MaxCpus - 1 THEN no ELSE AllCpus,
                     include_low_priority |-> AsBool(Milliseconds(p.delay)),
                     include_iowait |-> p.own.low]
             interval == AsInt(p.own.iowait)
  <2>1. Accept(p) = [kind |-> "cpu_usage", own |-> own, interval |-> interval,
                     fixed |-> p.fixed, max |-> 1, tag |-> p.tag, overlay |-> p.overlay]
    BY <1>2, <1>4, AcceptKinds DEF AcceptCpu, NewCpu
  <2>2. p.own.low \in BOOLEAN /\ p.own.iowait \in BOOLEAN
    BY <1>2, <1>4, WidgetsOf
  <2>3. own \in Own["cpu_usage"]
    BY <2>2 DEF Own, AsBool
  <2>4. interval \in Nat
    BY <2>2 DEF AsInt
  <2>5. 1 \in 0 .. Largest
    <3>1. 1 <= Largest
      BY SMT DEF Largest
    <3>2. QED BY <1>2, <3>1, SMT
  <2>6. p.fixed \in BOOLEAN /\ p.tag \in Texts /\ p.overlay \in BOOLEAN
    BY DEF IsPanel
  <2> HIDE DEF own, interval
  <2>7. QED BY <1>4, <2>1, <2>3, <2>4, <2>5, <2>6 DEF MonitorOf
<1>5. CASE kind \in {"memory_usage", "swap_usage", "load_average", "disk_usage"}
  <2>1. /\ p.own \in Own[kind] /\ 0 \in 0 .. Largest
        /\ kind = "load_average" => p.max \in 0 .. Largest
    BY <1>2, <1>5, WidgetsOf DEF IsPanel
  <2>2. kind # "disk_usage" => p.own = [none |-> 0]
    BY <1>5, <2>1, OwnFields
  <2>3. CASE kind = "memory_usage"
    BY <1>2, <1>3, <2>1, <2>2, <2>3, AcceptKinds DEF AcceptMemory, NewMemory, c
  <2>4. CASE kind = "swap_usage"
    BY <1>2, <1>3, <2>1, <2>2, <2>4, AcceptKinds DEF AcceptSwap, NewSwap, c
  <2>5. CASE kind = "load_average"
    BY <1>1, <1>2, <1>3, <2>1, <2>2, <2>5, AcceptKinds
       DEF AcceptLoadAverage, NewLoadAverage, c
  <2>6. CASE kind = "disk_usage"
    BY <1>2, <1>3, <2>1, <2>6, AcceptKinds DEF AcceptDiskUsage, NewDiskUsage, c
  <2>7. QED BY <1>5, <2>3, <2>4, <2>5, <2>6
<1>6. CASE kind = "disk_statistics"
  <2>1. p.max \in 0 .. Largest
    BY <1>2, <1>6 DEF IsPanel
  <2>2. p.own \in Own["disk_statistics"]
    BY <1>2, <1>6, WidgetsOf DEF Own
  <2>3. QED BY <1>1, <1>2, <1>3, <1>6, <2>1, <2>2, AcceptKinds
            DEF AcceptDiskStats, NewDiskStats, c
<1>7. CASE kind = "network_load"
  <2> DEFINE own == [p.own EXCEPT !.interface_direction = IF @ \in 1 .. 2 THEN @ ELSE 0]
  <2>1. p.own.interface_type # -1 /\ p.max \in 0 .. Largest
    BY <1>2, <1>7 DEF Accepted, IsPanel
  <2>2. own \in Own["network_load"]
    BY <1>2, <1>7, <2>1, WidgetsOf DEF Own, NumInterfaceTypes, NumDirections
  <2>3. Accept(p) = Monitor(kind, own, c, c.max)
    BY <1>2, <1>7, AcceptKinds DEF AcceptNetwork, NewNetwork, c
  <2> HIDE DEF own
  <2>4. QED BY <1>1, <1>3, <1>7, <2>1, <2>2, <2>3
<1>8. CASE kind \in {"temperature", "fan_speed"}
  <2> DEFINE no == IF kind = "temperature" THEN p.own.temperature_no ELSE p.own.fan_no
  <2>1. no \in DOMAIN SensorMax
    BY <1>2, <1>8 DEF Accepted
  <2>2. SensorMax[no] \in 0 .. Largest
    BY <2>1, SettingsAssumption
  <2>3. p.own \in Own[kind]
    <3>1. CASE kind = "temperature"
      BY <1>2, <2>1, <3>1, WidgetsOf DEF Own
    <3>2. CASE kind = "fan_speed"
      BY <1>2, <2>1, <3>2, WidgetsOf DEF Own
    <3>3. QED BY <1>8, <3>1, <3>2
  <2>4. Accept(p) = Monitor(kind, p.own, c, SensorMax[no])
    BY <1>2, <1>8, AcceptKinds
       DEF AcceptTemperature, NewTemperature, AcceptFan, NewFan, c
  <2> HIDE DEF no
  <2>5. QED BY <1>3, <1>8, <2>2, <2>3, <2>4
<1>9. CASE kind = "generic"
  <2>1. p.own \in Own[kind] /\ p.max \in 0 .. Largest
    BY <1>2, <1>9, WidgetsOf DEF IsPanel
  <2>2. QED BY <1>1, <1>2, <1>3, <1>9, <2>1, AcceptKinds
            DEF AcceptGeneric, NewGeneric, c
<1>10. QED BY <1>4, <1>5, <1>6, <1>7, <1>8, <1>9, KindsAre

--------------------------------------------------------------------------
(* A window filled from a group. *)

\* What run() reads of every kind is what load_monitors reads.
LEMMA FillIs ==
  ASSUME NEW g, Legible(g), NEW k \in Kinds, NEW own, NEW fixed, NEW max
  PROVE  LET p == Fill(g, k, own, fixed, max)
         IN  /\ p.kind = k /\ p.own = own /\ p.fixed = fixed /\ p.max = max
             /\ p.tag = Load(g).tag /\ p.overlay = Load(g).overlay
             /\ p.tag \in Texts /\ p.overlay \in BOOLEAN /\ p.delay \in Seconds
             /\ k = g.type /\ k # "cpu_usage" => Milliseconds(p.delay) = Load(g).interval
<1> DEFINE p == Fill(g, k, own, fixed, max)
           n == Entry(g, "update_interval", -1)
<1>1. /\ p.kind = k /\ p.own = own /\ p.fixed = fixed /\ p.max = max
      /\ p.tag = Entry(g, "tag", "") /\ p.overlay = Entry(g, "add_to_text_overlay", TRUE)
      /\ p.delay = Interval(g, k)
  BY DEF Fill, Panel
<1>2. g.type \in Kinds /\ Load(g) \in MonitorOf(g.type)
  BY DEF Legible
<1> HIDE DEF p
<1>3. p.tag = Load(g).tag /\ p.overlay = Load(g).overlay
  BY <1>1, <1>2, LoadCommon
<1>4. /\ Load(g).tag \in Texts /\ Load(g).overlay \in BOOLEAN /\ Load(g).interval \in Nat
      /\ g.type # "cpu_usage" => Load(g).interval \in Intervals
  BY <1>2, IntervalsNat, MonitorFields DEF MonitorOf
<1>5. /\ n = -1 => Interval(g, k) = Delay(Default[k])
      /\ n = -1 => Load(g).interval = Default[g.type]
      /\ n # -1 => Interval(g, k) = Delay(Load(g).interval)
  <2>1. n # -1 => g.update_interval = n
    BY DEF Entry
  <2>2. QED BY <1>2, <2>1, LoadCommon DEF Interval
<1>6. Default[k] \in Nat
  BY SMT, KindsAre DEF Default
<1>7. p.delay \in Seconds
  BY <1>1, <1>4, <1>5, <1>6, DelayIs
<1>8. k = g.type /\ k # "cpu_usage" => Milliseconds(p.delay) = Load(g).interval
  BY <1>1, <1>4, <1>5, DelayIs
<1>9. QED BY <1>1, <1>3, <1>4, <1>7, <1>8 DEF p

LEMMA FixedIs ==
  ASSUME NEW g, Legible(g)
  PROVE  /\ Fixed(g, FALSE) = Load(g).fixed /\ Fixed(g, TRUE) \in BOOLEAN
         /\ Fixed(g, FALSE) \in BOOLEAN
         /\ "fixed_max" \in DOMAIN g => Fixed(g, TRUE) = Load(g).fixed
<1>1. g.type \in Kinds /\ Flag(g, "fixed_max") \in BOOLEAN
  BY FlagsAre DEF Legible
<1>2. Load(g).fixed = Flag(g, "fixed_max")
  BY <1>1, LoadCommon DEF Flag
<1>3. Fixed(g, FALSE) = Flag(g, "fixed_max")
  BY DEF Fixed, Flag
<1>4. IF "fixed_max" \in DOMAIN g THEN Fixed(g, TRUE) = Flag(g, "fixed_max")
      ELSE Fixed(g, TRUE) = TRUE
  BY DEF Fixed, Flag, Entry
<1>5. QED BY <1>1, <1>2, <1>3, <1>4

\* OK makes of the arguments that are filled in what load_monitors makes of the group.
LEMMA MadeAlike ==
  ASSUME NEW kind, NEW m \in MonitorOf(kind), NEW p, NEW own,
         Milliseconds(p.delay) = m.interval, p.fixed = m.fixed, p.tag = m.tag,
         p.overlay = m.overlay
  PROVE  Monitor(kind, own, Arguments(p), m.max) = [m EXCEPT !.own = own]
<1>1. m = [kind |-> kind, own |-> m.own, interval |-> m.interval, fixed |-> m.fixed,
           max |-> m.max, tag |-> m.tag, overlay |-> m.overlay]
  BY MonitorFields
<1>2. [m EXCEPT !.own = own] =
        [kind |-> kind, own |-> own, interval |-> m.interval, fixed |-> m.fixed,
         max |-> m.max, tag |-> m.tag, overlay |-> m.overlay]
  BY <1>1
<1>3. QED BY <1>2 DEF Monitor, Arguments


LEMMA FilledKinds ==
  ASSUME NEW g
  PROVE  /\ g.type = "memory_usage" => Filled(g) = FillMemory(g)
         /\ g.type = "swap_usage" => Filled(g) = FillSwap(g)
         /\ g.type = "load_average" => Filled(g) = FillLoadAverage(g)
         /\ g.type = "disk_usage" => Filled(g) = FillDiskUsage(g)
         /\ g.type = "disk_statistics" => Filled(g) = FillDiskStats(g)
         /\ g.type = "network_load" => Filled(g) = FillNetwork(g)
         /\ g.type = "temperature" => Filled(g) = FillTemperature(g)
         /\ g.type = "generic" => Filled(g) = FillGeneric(g)
         /\ g.type \in {"cpu_usage", "fan_speed"} => Filled(g) = FillCpu(g)
BY DEF Filled

\* What identifies what a monitor observes, and its maximum, as load_monitors reads them.
LEMMA LoadOwn ==
  ASSUME NEW g
  PROVE  /\ g.type \in {"memory_usage", "swap_usage", "load_average"} =>
              Load(g).own = [none |-> 0]
         /\ g.type \in {"memory_usage", "swap_usage", "disk_usage"} => Load(g).max = 0
         /\ g.type \in {"load_average", "disk_statistics", "network_load", "generic"} =>
              Load(g).max = MaxOf(g)
         /\ g.type = "disk_usage" =>
              Load(g).own = [mount_dir |-> Entry(g, "mount_dir", "/"),
                             show_free |-> Flag(g, "show_free")]
         /\ g.type = "disk_statistics" =>
              Load(g).own = [disk_stats_device |-> Entry(g, "disk_stats_device", ""),
                             disk_stats_stat |-> Entry(g, "disk_stats_stat", 0)]
         /\ g.type = "network_load" /\ ~ Deprecated(g) =>
              LET direction == Entry(g, "interface_direction", 0)
              IN  Load(g).own = [interface_type |-> Entry(g, "interface_type", 0),
                                 interface_direction |->
                                   IF direction \in 0 .. NumDirections - 1
                                   THEN direction ELSE 0]
         /\ g.type = "temperature" =>
              /\ Load(g).own = [temperature_no |-> Entry(g, "temperature_no", 0)]
              /\ Load(g).max = SensorMax[Entry(g, "temperature_no", 0)]
<1>1. ASSUME NEW kind, NEW own, NEW c, NEW max, Load(g) = Monitor(kind, own, c, max)
      PROVE  Load(g).own = own /\ Load(g).max = max
  BY <1>1 DEF Monitor
<1>2. ASSUME NEW default PROVE Read(g, default).max = MaxOf(g)
  BY DEF Read, MaxOf
<1>3. g.type = "memory_usage" => Load(g).own = [none |-> 0] /\ Load(g).max = 0
  BY <1>1, LoadKinds DEF LoadMemory, NewMemory
<1>4. g.type = "swap_usage" => Load(g).own = [none |-> 0] /\ Load(g).max = 0
  BY <1>1, LoadKinds DEF LoadSwap, NewSwap
<1>5. g.type = "load_average" => Load(g).own = [none |-> 0] /\ Load(g).max = MaxOf(g)
  BY <1>1, <1>2, LoadKinds DEF LoadLoadAverage, NewLoadAverage
<1>6. g.type = "disk_usage" =>
        /\ Load(g).own = [mount_dir |-> Entry(g, "mount_dir", "/"),
                          show_free |-> Flag(g, "show_free")]
        /\ Load(g).max = 0
  BY <1>1, LoadKinds DEF LoadDiskUsage, NewDiskUsage, Flag
<1>7. g.type = "disk_statistics" =>
        /\ Load(g).own = [disk_stats_device |-> Entry(g, "disk_stats_device", ""),
                          disk_stats_stat |-> Entry(g, "disk_stats_stat", 0)]
        /\ Load(g).max = MaxOf(g)
  <2> SUFFICES ASSUME g.type = "disk_statistics"
               PROVE  /\ Load(g).own =
                           [disk_stats_device |-> Entry(g, "disk_stats_device", ""),
                            disk_stats_stat |-> Entry(g, "disk_stats_stat", 0)]
                      /\ Load(g).max = MaxOf(g)
    OBVIOUS
  <2> DEFINE own == [disk_stats_device |-> Entry(g, "disk_stats_device", ""),
                     disk_stats_stat |-> Entry(g, "disk_stats_stat", 0)]
             c == Read(g, Default.disk_statistics)
  <2>1. Load(g) = Monitor("disk_statistics", own, c, c.max)
    BY LoadKinds, Zenon DEF LoadDiskStats, NewDiskStats
  <2>2. QED BY <1>1, <1>2, <2>1, Zenon
<1>8. g.type = "network_load" /\ ~ Deprecated(g) =>
        LET direction == Entry(g, "interface_direction", 0)
        IN  Load(g).own = [interface_type |-> Entry(g, "interface_type", 0),
                           interface_direction |->
                             IF direction \in 0 .. NumDirections - 1 THEN direction ELSE 0]
  BY <1>1, LoadKinds DEF LoadNetwork, NewNetwork
<1>9. g.type = "network_load" => Load(g).max = MaxOf(g)
  <2> DEFINE c == Read(g, Default.network_load)
  <2>1. g.type = "network_load" => \E own : Load(g) = Monitor("network_load", own, c, c.max)
    BY LoadKinds DEF LoadNetwork, NewNetwork
  <2> HIDE DEF c
  <2>2. QED BY <1>1, <1>2, <2>1 DEF c
<1>10. g.type = "generic" => Load(g).max = MaxOf(g)
  <2> DEFINE c == Read(g, Default.generic)
  <2>1. g.type = "generic" => \E own : Load(g) = Monitor("generic", own, c, c.max)
    BY LoadKinds DEF LoadGeneric, NewGeneric
  <2> HIDE DEF c
  <2>2. QED BY <1>1, <1>2, <2>1 DEF c
<1>11. g.type = "temperature" =>
        /\ Load(g).own = [temperature_no |-> Entry(g, "temperature_no", 0)]
        /\ Load(g).max = SensorMax[Entry(g, "temperature_no", 0)]
  <2> DEFINE own == [temperature_no |-> Entry(g, "temperature_no", 0)]
  <2>1. g.type = "temperature" =>
          Load(g) = Monitor("temperature", own, Read(g, Default.temperature),
                            SensorMax[own.temperature_no])
    BY LoadKinds DEF LoadTemperature, NewTemperature
  <2>2. own.temperature_no = Entry(g, "temperature_no", 0)
    OBVIOUS
  <2> HIDE DEF own
  <2>3. QED BY <1>1, <2>1, <2>2 DEF own
<1>12. QED BY <1>3, <1>4, <1>5, <1>6, <1>7, <1>8, <1>9, <1>10, <1>11


LEMMA OwnAreWidgets ==
  ASSUME NEW k \in Kinds, k # "cpu_usage", NEW own \in Own[k]
  PROVE  /\ own \in OwnWidgets[k]
         /\ k \notin {"generic", "disk_statistics"} => Unedited(own) = own
<1>1. DOMAIN SensorMax \subseteq Int
  <2>1. DOMAIN SensorMax \subseteq Nat
    BY Zenon, SettingsAssumption
  <2>2. QED BY <2>1
<1>2. CASE k \in {"memory_usage", "swap_usage", "load_average", "disk_usage", "generic"}
  <2>1. own \in OwnWidgets[k]
    BY <1>2, WidgetsOf
  <2>2. CASE k \in {"memory_usage", "swap_usage", "load_average"}
    <3>1. own = [none |-> 0]
      BY <2>2, OwnFields
    <3>2. QED BY <2>1, <3>1 DEF Unedited
  <2>3. CASE k = "disk_usage"
    <3>1. own = [mount_dir |-> own.mount_dir, show_free |-> own.show_free]
      BY <2>3, OwnFields
    <3>2. Unedited(own) = own
      BY <3>1 DEF Unedited
    <3>3. QED BY <2>1, <3>2
  <2>4. QED BY <1>2, <2>1, <2>2, <2>3
<1>3. CASE k = "disk_statistics"
  BY <1>3, WidgetsOf DEF Own
<1>4. CASE k = "network_load"
  <2>1. own \in [interface_type : 0 .. NumInterfaceTypes - 1,
                 interface_direction : 0 .. NumDirections - 1]
    BY <1>4 DEF Own
  <2>2. own \in OwnWidgets[k]
    BY <1>4, <2>1, WidgetsOf DEF NumInterfaceTypes, NumDirections
  <2>3. QED BY <1>4, <2>1, <2>2 DEF Unedited
<1>5. CASE k = "temperature"
  <2>1. own \in [temperature_no : DOMAIN SensorMax]
    BY <1>5 DEF Own
  <2>2. own \in OwnWidgets[k]
    BY <1>1, <1>5, <2>1, WidgetsOf
  <2>3. QED BY <1>5, <2>1, <2>2 DEF Unedited
<1>6. CASE k = "fan_speed"
  <2>1. own \in [fan_no : DOMAIN SensorMax]
    BY <1>6 DEF Own
  <2>2. own \in OwnWidgets[k]
    BY <1>1, <1>6, <2>1, WidgetsOf
  <2>3. QED BY <1>6, <2>1, <2>2 DEF Unedited
<1>7. QED BY <1>2, <1>3, <1>4, <1>5, <1>6, KindsAre

\* A generic monitor gets the first direction.
LEMMA UneditedGeneric ==
  ASSUME NEW own,
         DOMAIN own = {"file_path", "value_from_contents", "regex", "follow_change",
                       "value_change_direction", "data_source_name"}
  PROVE  Unedited(own) = [file_path |-> own["file_path"],
                          value_from_contents |-> own["value_from_contents"],
                          regex |-> own["regex"], follow_change |-> own["follow_change"],
                          value_change_direction |-> 0,
                          data_source_name |-> own["data_source_name"]]
BY DEF Unedited

\* OK without an edit makes the monitor that load_monitors would, but for a generic
\* one's direction and a statistic that is not selected: for the seven kinds whose panels are filled with all of the monitor.
LEMMA FilledAlike ==
  ASSUME NEW g, Legible(g), NEW k, k = g.type, NEW m, m = Load(g), NEW p, p = Filled(g),
         k \notin {"cpu_usage", "fan_speed", "load_average"},
         k = "network_load" => ~ Deprecated(g)
  PROVE  Accept(p) = [m EXCEPT !.own = Unedited(m.own)] /\ IsPanel(p, k)
<1>1. k \in Kinds /\ m \in MonitorOf(k) /\ k # "cpu_usage"
  BY DEF Legible
<1>2. m.own \in Own[k] /\ m.fixed \in BOOLEAN /\ m.max \in 0 .. Largest
  BY <1>1, MonitorFields
<1>3. /\ k \in {"memory_usage", "swap_usage", "disk_usage"} => Fixed(g, TRUE) = m.fixed
      /\ Fixed(g, FALSE) = m.fixed
  BY FixedIs DEF Legible
<1>4. ASSUME NEW own \in OwnWidgets[k], NEW fixed, NEW max, p = Fill(g, k, own, fixed, max),
             fixed = m.fixed,
             Accept(p) = Monitor(k, Unedited(m.own), Arguments(p), m.max),
             k \in {"load_average", "disk_statistics", "network_load", "generic"} =>
               max = m.max
      PROVE  Accept(p) = [m EXCEPT !.own = Unedited(m.own)] /\ IsPanel(p, k)
  <2>1. /\ p.kind = k /\ p.own = own /\ p.fixed = fixed /\ p.max = max
        /\ p.tag = m.tag /\ p.overlay = m.overlay
        /\ p.tag \in Texts /\ p.overlay \in BOOLEAN /\ p.delay \in Seconds
        /\ Milliseconds(p.delay) = m.interval
    BY <1>1, <1>4, FillIs
  <2>2. IsPanel(p, k)
    BY <1>2, <1>4, <2>1 DEF IsPanel
  <2>3. Accept(p) = [m EXCEPT !.own = Unedited(m.own)]
    BY <1>1, <1>4, <2>1, MadeAlike
  <2>4. QED BY <2>2, <2>3
<1>5. ASSUME NEW own, NEW fixed, NEW max, p = Fill(g, k, own, fixed, max)
      PROVE  p.kind = k /\ p.own = own /\ Arguments(p).max = max
  <2>1. p.kind = k /\ p.own = own /\ p.max = max
    BY <1>1, <1>5, FillIs
  <2>2. QED BY <2>1 DEF Arguments
<1>6. k \notin {"generic", "disk_statistics"} =>
        m.own \in OwnWidgets[k] /\ Unedited(m.own) = m.own
  BY <1>1, <1>2, OwnAreWidgets
<1>7. CASE k \in {"memory_usage", "swap_usage"}
  <2> k \notin {"generic", "disk_statistics"}
    BY <1>7
  <2>1. m.own = [none |-> 0] /\ m.max = 0
    BY <1>7, LoadOwn
  <2>2. p = Fill(g, k, m.own, Fixed(g, TRUE), 0)
    BY <1>7, <2>1, FilledKinds DEF FillMemory, FillSwap, FreshOwn
  <2>3. Accept(p) = Monitor(k, m.own, Arguments(p), 0)
    <3>1. p.kind = k
      BY <1>5, <2>2
    <3>2. CASE k = "memory_usage"
      BY <2>1, <3>1, <3>2, AcceptKinds DEF AcceptMemory, NewMemory
    <3>3. CASE k = "swap_usage"
      BY <2>1, <3>1, <3>3, AcceptKinds DEF AcceptSwap, NewSwap
    <3>4. QED BY <1>7, <3>2, <3>3
  <2>4. Fixed(g, TRUE) = m.fixed
    BY <1>3, <1>7
  <2>5. QED BY <1>4, <1>6, <1>7, <2>1, <2>2, <2>3, <2>4
<1>8. CASE k = "disk_usage"
  <2>1. m.own = [mount_dir |-> Entry(g, "mount_dir", "/"), show_free |-> Flag(g, "show_free")]
        /\ m.max = 0
    BY <1>8, LoadOwn
  <2>2. Entry(g, "mount_dir", "") = Entry(g, "mount_dir", "/")
    BY <1>8 DEF Legible, Entry
  <2>3. p = Fill(g, k, m.own, Fixed(g, TRUE), 0)
    BY <1>8, <2>1, <2>2, FilledKinds DEF FillDiskUsage, Flag
  <2>4. Accept(p) = Monitor(k, m.own, Arguments(p), 0)
    <3>1. p.kind = "disk_usage" /\ p.own = m.own
      BY <1>5, <1>8, <2>3
    <3>2. QED BY <1>8, <3>1, AcceptKinds DEF AcceptDiskUsage, NewDiskUsage
  <2>5. QED BY <1>3, <1>4, <1>6, <1>8, <2>1, <2>3, <2>4
<1>9. CASE k = "disk_statistics"
  <2> DEFINE device == Entry(g, "disk_stats_device", "")
             stat == Entry(g, "disk_stats_stat", 0)
  <2>1. /\ m.own = [disk_stats_device |-> device, disk_stats_stat |-> stat]
        /\ m.max = MaxOf(g)
    BY <1>9, LoadOwn
  <2> HIDE DEF device, stat
  <2>2. stat \in -1 .. NumStats - 1
    <3>1. m.own.disk_stats_stat \in -1 .. NumStats - 1
      BY <1>2, <1>9, OwnFields, Zenon
    <3>2. QED BY <2>1, <3>1
  <2> DEFINE own == [disk_stats_device |-> device,
                     disk_stats_stat |-> IF stat \in 0 .. NumStats - 1 THEN stat ELSE 0]
  <2>3. own = Unedited(m.own)
    <3>1. stat \in 0 .. NumStats - 1 <=> stat # -1
      BY <2>2, SMT DEF NumStats
    <3>2. QED BY <2>1, <3>1 DEF Unedited
  <2>4. p = Fill(g, k, own, Fixed(g, FALSE), m.max)
    <3>1. p = FillDiskStats(g)
      BY <1>9, FilledKinds
    <3>2. QED BY <1>9, <2>1, <3>1 DEF FillDiskStats, device, stat
  <2>5. own \in OwnWidgets[k]
    <3>1. device \in Texts
      <4>1. m.own.disk_stats_device \in Texts
        BY <1>2, <1>9, OwnFields, Zenon
      <4>2. QED BY <2>1, <4>1
    <3>2. (IF stat \in 0 .. NumStats - 1 THEN stat ELSE 0) \in -1 .. NumStats - 1
      BY <2>2, SMT DEF NumStats
    <3>3. QED BY <1>9, <3>1, <3>2, WidgetsOf
  <2> HIDE DEF own
  <2>6. Accept(p) = Monitor(k, Unedited(m.own), Arguments(p), m.max)
    <3>1. p.kind = "disk_statistics" /\ p.own = own /\ Arguments(p).max = m.max
      BY <1>5, <1>9, <2>4
    <3>2. QED BY <1>9, <2>3, <3>1, AcceptKinds DEF AcceptDiskStats, NewDiskStats
  <2>7. Fixed(g, FALSE) = m.fixed
    BY <1>3, <1>9
  <2>8. QED BY <1>4, <2>4, <2>5, <2>6, <2>7
<1>10. CASE k = "network_load"
  <2> DEFINE d == Entry(g, "interface_direction", 0)
             direction == IF d \in 0 .. NumDirections - 1 THEN d ELSE 0
  <2>1. /\ m.own = [interface_type |-> Entry(g, "interface_type", 0),
                    interface_direction |-> direction]
        /\ m.max = MaxOf(g)
    BY <1>10, LoadOwn
  <2>2. Entry(g, "interface_type", 0) \in 0 .. NumInterfaceTypes - 1
    BY <1>2, <1>10, <2>1, OwnFields
  <2>3. p = Fill(g, k, m.own, Fixed(g, FALSE), m.max)
    BY <1>10, <2>1, <2>2, FilledKinds DEF FillNetwork
  <2>4. direction \in 0 .. 2
    BY DEF NumDirections
  <2> HIDE DEF direction
  <2>5. [m.own EXCEPT !.interface_direction = IF @ \in 1 .. 2 THEN @ ELSE 0] = m.own
    BY <2>1, <2>4
  <2>6. Accept(p) = Monitor(k, m.own, Arguments(p), m.max)
    <3>1. p.kind = "network_load" /\ p.own = m.own /\ Arguments(p).max = m.max
      BY <1>5, <1>10, <2>3
    <3>2. QED BY <1>10, <2>5, <3>1, AcceptKinds DEF AcceptNetwork, NewNetwork
  <2>7. QED BY <1>3, <1>4, <1>6, <1>10, <2>3, <2>6
<1>11. CASE k = "temperature"
  <2>1. /\ m.own = [temperature_no |-> Entry(g, "temperature_no", 0)]
        /\ m.max = SensorMax[Entry(g, "temperature_no", 0)]
    BY <1>11, LoadOwn
  <2>2. p = Fill(g, k, m.own, Fixed(g, FALSE), MaxOf(g))
    BY <1>11, <2>1, FilledKinds DEF FillTemperature
  <2>3. m.max = SensorMax[m.own.temperature_no]
    BY <2>1
  <2>4. p.kind = "temperature" /\ p.own = m.own
    BY <1>5, <1>11, <2>2
  <2>5. Accept(p) = Monitor(k, m.own, Arguments(p), m.max)
    BY <1>11, <2>3, <2>4, AcceptKinds DEF AcceptTemperature, NewTemperature
  <2>6. QED BY <1>3, <1>4, <1>6, <1>11, <2>2, <2>5
<1>12. CASE k = "generic"
  <2> DEFINE d == Entry(g, "value_change_direction", 0)
             own == [file_path |-> Entry(g, "file_path", ""),
                     value_from_contents |-> Flag(g, "value_from_contents"),
                     regex |-> Entry(g, "regex", ""),
                     follow_change |-> Flag(g, "follow_change"),
                     value_change_direction |->
                       IF d \in 0 .. NumDirections - 1 THEN d ELSE 0,
                     data_source_name |-> Entry(g, "data_source_name", "")]
             first == [file_path |-> Entry(g, "file_path", ""),
                       value_from_contents |-> Flag(g, "value_from_contents"),
                       regex |-> Entry(g, "regex", ""),
                       follow_change |-> Flag(g, "follow_change"),
                       value_change_direction |-> 0,
                       data_source_name |-> Entry(g, "data_source_name", "")]
             c == Read(g, Default.generic)
  <2>1. m = Monitor("generic", own, c, c.max)
    BY <1>12, LoadKinds DEF LoadGeneric, NewGeneric, Flag
  <2>2. Unedited(own) = first
    <3>1. /\ DOMAIN own = {"file_path", "value_from_contents", "regex", "follow_change",
                           "value_change_direction", "data_source_name"}
          /\ own["file_path"] = Entry(g, "file_path", "")
          /\ own["value_from_contents"] = Flag(g, "value_from_contents")
          /\ own["regex"] = Entry(g, "regex", "")
          /\ own["follow_change"] = Flag(g, "follow_change")
          /\ own["data_source_name"] = Entry(g, "data_source_name", "")
      OBVIOUS
    <3> HIDE DEF own
    <3>2. QED BY <3>1, UneditedGeneric
  <2>3. p = Fill(g, k, first, Fixed(g, FALSE), MaxOf(g))
    BY <1>12, FilledKinds DEF FillGeneric, Flag
  <2> HIDE DEF own, first, c
  <2>4. m.own = own /\ m.max = MaxOf(g)
    <3>1. m.own = own
      BY <2>1 DEF Monitor
    <3>2. QED BY <1>12, <3>1, LoadOwn
  <2>5. Accept(p) = Monitor(k, first, Arguments(p), m.max)
    BY <1>5, <1>12, <2>3, <2>4, AcceptKinds DEF AcceptGeneric, NewGeneric
  <2>6. first \in OwnWidgets[k]
    <3>1. m.own \in Own["generic"]
      BY <1>2, <1>12
    <3>2. Unedited(m.own) \in Own["generic"]
      BY <3>1 DEF Unedited, Own, NumDirections
    <3>3. QED BY <1>12, <2>2, <2>4, <3>2, WidgetsOf
  <2>7. QED BY <1>3, <1>4, <1>12, <2>2, <2>3, <2>4, <2>5, <2>6
<1>13. QED BY <1>1, <1>7, <1>8, <1>9, <1>10, <1>11, <1>12, KindsAre


\* What OK hands on, whatever the kind.
LEMMA AcceptCommon ==
  ASSUME NEW p, p.kind \in Kinds
  PROVE  /\ Accept(p).kind = p.kind /\ Accept(p).fixed = p.fixed
         /\ Accept(p).tag = p.tag /\ Accept(p).overlay = p.overlay
         /\ p.kind # "cpu_usage" => Accept(p).interval = Milliseconds(p.delay)
         /\ p.kind \in {"load_average", "disk_statistics", "network_load", "generic"} =>
              Accept(p).max = p.max
         /\ p.kind = "load_average" => Accept(p).own = [none |-> 0]
<1> DEFINE c == Arguments(p)
<1>1. /\ c.interval = Milliseconds(p.delay) /\ c.fixed = p.fixed /\ c.tag = p.tag
      /\ c.overlay = p.overlay /\ c.max = p.max
  BY DEF Arguments
<1> HIDE DEF c
<1>2. ASSUME NEW own, NEW max, Accept(p) = Monitor(p.kind, own, c, max)
      PROVE  /\ Accept(p).kind = p.kind /\ Accept(p).fixed = p.fixed
             /\ Accept(p).tag = p.tag /\ Accept(p).overlay = p.overlay
             /\ Accept(p).interval = Milliseconds(p.delay)
             /\ Accept(p).max = max /\ Accept(p).own = own
  BY <1>1, <1>2 DEF Monitor
<1>3. CASE p.kind = "cpu_usage"
  BY <1>3, AcceptKinds DEF AcceptCpu, NewCpu
<1>4. CASE p.kind = "memory_usage"
  BY <1>2, <1>4, AcceptKinds DEF AcceptMemory, NewMemory, c
<1>5. CASE p.kind = "swap_usage"
  BY <1>2, <1>5, AcceptKinds DEF AcceptSwap, NewSwap, c
<1>6. CASE p.kind = "load_average"
  BY <1>1, <1>2, <1>6, AcceptKinds DEF AcceptLoadAverage, NewLoadAverage, c
<1>7. CASE p.kind = "disk_usage"
  BY <1>2, <1>7, AcceptKinds DEF AcceptDiskUsage, NewDiskUsage, c
<1>8. CASE p.kind = "disk_statistics"
  BY <1>1, <1>2, <1>8, AcceptKinds DEF AcceptDiskStats, NewDiskStats, c
<1>9. CASE p.kind = "network_load"
  <2> DEFINE own == [p.own EXCEPT !.interface_direction = IF @ \in 1 .. 2 THEN @ ELSE 0]
  <2>1. Accept(p) = Monitor(p.kind, own, c, c.max)
    BY <1>9, AcceptKinds DEF AcceptNetwork, NewNetwork, c
  <2> HIDE DEF own
  <2>2. QED BY <1>1, <1>2, <1>9, <2>1
<1>10. CASE p.kind = "temperature"
  BY <1>2, <1>10, AcceptKinds DEF AcceptTemperature, NewTemperature, c
<1>11. CASE p.kind = "fan_speed"
  BY <1>2, <1>11, AcceptKinds DEF AcceptFan, NewFan, c
<1>12. CASE p.kind = "generic"
  BY <1>1, <1>2, <1>12, AcceptKinds DEF AcceptGeneric, NewGeneric, c
<1>13. QED BY <1>3, <1>4, <1>5, <1>6, <1>7, <1>8, <1>9, <1>10, <1>11, <1>12, KindsAre

\* The kind of the panel that is filled: a fan's group fills a CPU's.
PanelKind(g) == IF g.type = "fan_speed" THEN "cpu_usage" ELSE g.type

\* What is filled in of the groups whose panel is not all of the monitor.
LEMMA FilledIsPanel ==
  ASSUME NEW g, Legible(g), NEW p, p = Filled(g)
  PROVE  /\ IsPanel(p, PanelKind(g)) /\ p.tag = Load(g).tag /\ p.overlay = Load(g).overlay
         /\ g.type = "load_average" => Milliseconds(p.delay) = Load(g).interval
         /\ g.type = "cpu_usage" /\ "fixed_max" \in DOMAIN g => p.fixed = Load(g).fixed
<1> DEFINE k == PanelKind(g)
           m == Load(g)
<1>1. /\ g.type \in Kinds /\ m \in MonitorOf(g.type) /\ k \in Kinds
      /\ m.own \in Own[g.type] /\ m.max \in 0 .. Largest
  BY KindsAre, MonitorFields DEF Legible, PanelKind
<1>2. ASSUME NEW own \in OwnWidgets[k], NEW fixed \in BOOLEAN, NEW max,
             p = Fill(g, k, own, fixed, max),
             k \in {"load_average", "disk_statistics", "network_load", "generic"} =>
               max \in 0 .. Largest
      PROVE  /\ IsPanel(p, k) /\ p.tag = m.tag /\ p.overlay = m.overlay /\ p.fixed = fixed
             /\ k = g.type /\ k # "cpu_usage" => Milliseconds(p.delay) = m.interval
  <2>1. /\ p.kind = k /\ p.own = own /\ p.fixed = fixed /\ p.max = max
        /\ p.tag = m.tag /\ p.overlay = m.overlay
        /\ p.tag \in Texts /\ p.overlay \in BOOLEAN /\ p.delay \in Seconds
        /\ k = g.type /\ k # "cpu_usage" => Milliseconds(p.delay) = m.interval
    BY <1>1, <1>2, FillIs
  <2>2. IsPanel(p, k)
    BY <1>2, <2>1 DEF IsPanel
  <2>3. QED BY <2>1, <2>2
<1>3. /\ Fixed(g, TRUE) \in BOOLEAN /\ Fixed(g, FALSE) \in BOOLEAN
      /\ "fixed_max" \in DOMAIN g => Fixed(g, TRUE) = m.fixed
  BY FixedIs
<1> HIDE DEF m, k
<1>4. CASE g.type \in {"cpu_usage", "fan_speed"}
  <2> DEFINE no == Entry(g, "cpu_no", AllCpus)
             one == no \in 0 .. MaxCpus - 1
             number == IF one THEN no + 1 ELSE 1
             own == [one |-> one, no |-> number, low |-> Flag(g, "include_low_priority"),
                     iowait |-> Flag(g, "include_iowait")]
  <2>1. p = Fill(g, "cpu_usage", own, Fixed(g, TRUE), 0)
    BY <1>4, FilledKinds DEF FillCpu, Flag
  <2>2. number \in Nat
    <3>1. MaxCpus \in Nat
      BY SettingsAssumption
    <3>2. QED BY <3>1
  <2>3. Flag(g, "include_low_priority") \in BOOLEAN /\ Flag(g, "include_iowait") \in BOOLEAN
    BY FlagsAre DEF Legible
  <2>4. one \in BOOLEAN
    OBVIOUS
  <2> HIDE DEF one, number
  <2>5. own \in OwnWidgets["cpu_usage"]
    BY <2>2, <2>3, <2>4, WidgetsOf
  <2>6. k = "cpu_usage"
    BY <1>4 DEF k, PanelKind
  <2> HIDE DEF own
  <2>7. QED BY <1>2, <1>3, <1>4, <2>1, <2>5, <2>6 DEF k, m
<1>5. CASE g.type = "load_average"
  <2> DEFINE max == Clamp(MaxOf(g), 0, LoadMax)
             fixed == Fixed(g, FALSE)
  <2>1. p = Fill(g, "load_average", [none |-> 0], fixed, max)
    <3>1. p = FillLoadAverage(g)
      BY <1>5, FilledKinds
    <3>2. FreshOwn.load_average = [none |-> 0]
      BY DEF FreshOwn
    <3>3. QED BY <3>1, <3>2 DEF FillLoadAverage
  <2>2. MaxOf(g) \in 0 .. Largest
    BY <1>1, <1>5, LoadOwn DEF m
  <2>3. max \in 0 .. Largest
    <3>1. Largest \in Nat /\ LoadMax \in Nat /\ LoadMax <= Largest
      BY SMT DEF Largest, LoadMax
    <3>2. QED BY <2>2, <3>1, SMT DEF Clamp
  <2>4. [none |-> 0] \in OwnWidgets["load_average"] /\ k = "load_average"
    BY <1>5, WidgetsOf DEF Own, k, PanelKind
  <2>5. fixed \in BOOLEAN
    BY <1>3
  <2> HIDE DEF max, fixed
  <2>6. /\ IsPanel(p, k) /\ p.tag = m.tag /\ p.overlay = m.overlay
        /\ Milliseconds(p.delay) = m.interval
    BY <1>2, <1>5, <2>1, <2>3, <2>4, <2>5
  <2>7. QED BY <1>5, <2>6 DEF k, m
<1>6. CASE g.type = "network_load"
  <2> DEFINE own == [interface_type |->
                       IF Entry(g, "interface_type", 0) \in 0 .. NumInterfaceTypes - 1
                       THEN Entry(g, "interface_type", 0) ELSE 0,
                     interface_direction |->
                       IF Entry(g, "interface_direction", 0) \in 0 .. NumDirections - 1
                       THEN Entry(g, "interface_direction", 0) ELSE 0]
  <2>1. p = Fill(g, "network_load", own, Fixed(g, FALSE), MaxOf(g))
    BY <1>6, FilledKinds DEF FillNetwork
  <2>2. own \in OwnWidgets["network_load"] /\ k = "network_load"
    BY <1>6, WidgetsOf DEF k, PanelKind, NumInterfaceTypes, NumDirections
  <2>3. MaxOf(g) \in 0 .. Largest
    BY <1>1, <1>6, LoadOwn DEF m
  <2> HIDE DEF own
  <2>4. IsPanel(p, k) /\ p.tag = m.tag /\ p.overlay = m.overlay
    BY <1>2, <1>3, <2>1, <2>2, <2>3
  <2>5. QED BY <1>6, <2>4 DEF k, m
<1>7. CASE g.type \notin {"cpu_usage", "fan_speed", "load_average", "network_load"}
  <2>1. k = g.type
    BY <1>7 DEF k, PanelKind
  <2>2. IsPanel(p, k)
    BY <1>7, <2>1, FilledAlike
  <2>3. \E own, fixed, max : p = Fill(g, k, own, fixed, max)
    <3>1. CASE k \in {"memory_usage", "swap_usage", "disk_usage"}
      BY <2>1, <3>1, FilledKinds DEF FillMemory, FillSwap, FillDiskUsage
    <3>2. CASE k \in {"disk_statistics", "temperature", "generic"}
      BY <2>1, <3>2, FilledKinds DEF FillDiskStats, FillTemperature, FillGeneric
    <3>3. QED BY <1>1, <1>7, <2>1, <3>1, <3>2, KindsAre
  <2>4. p.tag = m.tag /\ p.overlay = m.overlay
    BY <1>1, <2>3, FillIs DEF m
  <2>5. QED BY <1>7, <2>2, <2>4 DEF k, m
<1>8. QED BY <1>4, <1>5, <1>6, <1>7

--------------------------------------------------------------------------
(* The monitor and its group. *)

\* The group a save leaves is the monitor's; a monitor that runs has one.
Paired(g, m) ==
  /\ g # <<>> => Legible(g)
  /\ m # None => m.kind \in Kinds /\ m \in MonitorOf(m.kind) /\ g # <<>> /\ g.type = m.kind

LEMMA NothingIsNotLegible == ~ Legible(<<>>)
BY DEF Legible

LEMMA SaveIs ==
  ASSUME NEW kind \in Kinds, NEW m \in MonitorOf(kind), NEW g, g # <<>> => Legible(g)
  PROVE  LET s == Save(g, m)
         IN  /\ Paired(s, m) /\ s # <<>> /\ s.type = kind /\ m.kind = kind
             /\ Deprecated(s) <=> Deprecated(g)
             /\ kind = "cpu_usage" => "fixed_max" \in DOMAIN s
             /\ kind # "load_average" /\ (kind = "network_load" => ~ Deprecated(g)) =>
                  Load(s) = Restarted(m)
             /\ kind = "load_average" =>
                  Load(s) = [Restarted(m) EXCEPT !.fixed = Entry(g, "fixed_max", FALSE)]
<1>1. FlagsRead(g)
  BY NothingRead DEF Legible
<1>2. m.kind = kind
  BY MonitorFields
<1> DEFINE s == Save(g, m)
<1>3. /\ Legible(s) /\ s.type = kind /\ (Deprecated(s) <=> Deprecated(g))
      /\ kind = "cpu_usage" => "fixed_max" \in DOMAIN s
      /\ kind # "load_average" /\ (kind = "network_load" => ~ Deprecated(g)) =>
           Load(s) = Restarted(m)
      /\ kind = "load_average" =>
           Load(s) = [Restarted(m) EXCEPT !.fixed = Entry(g, "fixed_max", FALSE)]
  BY <1>1, SaveIsLegible, ZenonT(30)
<1> HIDE DEF s
<1>4. Paired(s, m) /\ s # <<>>
  BY <1>2, <1>3, NothingIsNotLegible DEF Paired
<1>5. QED BY <1>2, <1>3, <1>4, Zenon DEF s

LEMMA PressIs ==
  ASSUME NEW kind \in Kinds, NEW p, IsPanel(p, kind), Accepted(p), NEW g,
         g # <<>> => Legible(g)
  PROVE  Accept(p) \in MonitorOf(kind) /\ Paired(Save(g, Accept(p)), Accept(p))
BY AcceptedIsMonitor, SaveIs

\* The panels of the two ways to press OK.
LEMMA ChosenIsPanel ==
  ASSUME NEW k \in Offered, NEW p \in Edits(k)
  PROVE  k \in Kinds /\ IsPanel(p, k) /\ p.kind = k
BY EditsArePanels, ChoicesAre DEF IsPanel

LEMMA FilledKind ==
  ASSUME NEW g, Legible(g)
  PROVE  PanelKind(g) \in Kinds /\ IsPanel(Filled(g), PanelKind(g))
BY FilledIsPanel, KindsAre DEF Legible, PanelKind

TInv ==
  /\ Paired(group, mon)
  /\ chosen # None => chosen.kind \in Offered /\ chosen \in Edits(chosen.kind)
  /\ changes \in 0 .. MaxChanges

LEMMA StartIs ==
  ASSUME Paired(group, mon), Start
  PROVE  /\ group' # <<>> /\ Legible(group') /\ mon' \in MonitorOf(group'.type)
         /\ mon'.kind = group'.type /\ group'.type \in Kinds
         /\ group # <<>> => /\ mon' = Load(group) /\ Load(group') = mon'
                            /\ group'.type = group.type
                            /\ Deprecated(group') =>
                                 Deprecated(group) /\ group.type # "network_load"
                            /\ "fixed_max" \in DOMAIN group => "fixed_max" \in DOMAIN group'
         /\ group = <<>> => /\ Load(group') = Restarted(mon') /\ mon'.kind = "cpu_usage"
                            /\ ~ Deprecated(group')
<1>1. CASE group = <<>>
  <2>1. mon' = DefaultMonitor /\ group' = Save(group, DefaultMonitor)
    BY <1>1 DEF Start
  <2>2. DefaultMonitor \in MonitorOf("cpu_usage") /\ "cpu_usage" \in Kinds
    BY DefaultMonitorIs, KindsAre
  <2>3. /\ Paired(group', DefaultMonitor) /\ group' # <<>> /\ group'.type = "cpu_usage"
        /\ DefaultMonitor.kind = "cpu_usage" /\ Load(group') = Restarted(DefaultMonitor)
        /\ Deprecated(group') <=> Deprecated(group)
    BY <1>1, <2>1, <2>2, SaveIs
  <2>4. QED BY <1>1, <2>1, <2>2, <2>3, NothingRead DEF Paired
<1>2. CASE group # <<>>
  <2>1. mon' = Load(group) /\ group' = Migrated(group)
    BY <1>2 DEF Start
  <2>2. Legible(group) /\ group.type \in Kinds /\ Load(group) \in MonitorOf(group.type)
    BY <1>2 DEF Paired, Legible
  <2>3. /\ Legible(group') /\ group'.type = group.type /\ Load(group') = Load(group)
        /\ Deprecated(group') => Deprecated(group) /\ group.type # "network_load"
        /\ "fixed_max" \in DOMAIN group => "fixed_max" \in DOMAIN group'
    BY <2>1, <2>2, MigratedAlike
  <2>4. mon'.kind = group'.type
    BY <2>1, <2>2, <2>3, MonitorFields
  <2>5. QED BY <1>2, <2>1, <2>2, <2>3, <2>4, NothingIsNotLegible
<1>3. QED BY <1>1, <1>2

LEMMA MeasureIs ==
  ASSUME Paired(group, mon), Measure
  PROVE  /\ mon # None /\ mon.kind \in Kinds /\ mon \in MonitorOf(mon.kind)
         /\ mon.kind # "cpu_usage"
         /\ ~ mon.fixed \/ mon.kind \in {"memory_usage", "swap_usage", "disk_usage"}
         /\ \E n \in 0 .. Largest : /\ mon' = WithMax(mon, n) /\ mon'.kind = mon.kind
                                    /\ mon' \in MonitorOf(mon.kind)
<1>1. mon # None /\ mon.kind \in Kinds /\ mon \in MonitorOf(mon.kind)
  BY DEF Measure, Paired
<1>2. Maxima \subseteq 0 .. Largest
  BY ChoicesAre
<1>3. PICK n \in Maxima : mon' = WithMax(mon, n)
  BY DEF Measure, WithMax
<1>4. QED BY <1>1, <1>2, <1>3, WithMaxIs DEF Measure

\* The monitor is always one that its constructor makes, whose group loads.
LEMMA TypesInductive ==
  (Init => TInv) /\ (TInv /\ [Next]_vars => TInv')
<1>1. Init => TInv
  <2> SUFFICES ASSUME Init PROVE TInv
    OBVIOUS
  <2>1. group # <<>> => Legible(group)
    BY ChoicesAre DEF Init
  <2>2. changes \in 0 .. MaxChanges
    BY ChoicesAre DEF Init
  <2>3. QED BY <2>1, <2>2 DEF Init, TInv, Paired
<1>2. TInv /\ [Next]_vars => TInv'
  <2> SUFFICES ASSUME TInv, [Next]_vars PROVE TInv'
    OBVIOUS
  <2>1. /\ group # <<>> => Legible(group)
        /\ mon # None => /\ mon.kind \in Kinds /\ mon \in MonitorOf(mon.kind)
                         /\ group # <<>> /\ group.type = mon.kind
    BY DEF TInv, Paired
  <2>2. MaxChanges \in Nat
    BY ChoicesAre
  <2>3. CASE Start
    <3>1. Paired(group', mon')
      BY <2>3, StartIs DEF TInv, Paired
    <3>2. QED BY <2>3, <3>1 DEF TInv, Start
  <2>4. CASE Stop
    <3>1. mon # None /\ mon' = None /\ group' \in {group, Save(group, mon)}
      BY <2>4 DEF Stop
    <3>2. group' # <<>> => Legible(group')
      BY <2>1, <3>1, SaveIs DEF Paired
    <3>3. QED BY <2>4, <3>1, <3>2 DEF TInv, Paired, Stop
  <2>5. ASSUME NEW p, NEW g, g # <<>> => Legible(g), NEW kind \in Kinds, IsPanel(p, kind),
               Press(p, g)
        PROVE  Paired(group', mon') /\ changes' \in 0 .. MaxChanges
    <3>1. Accepted(p) /\ mon' = Accept(p) /\ group' = Save(g, Accept(p))
      BY <2>5 DEF Press
    <3>2. Paired(group', mon')
      BY <2>5, <3>1, PressIs
    <3>3. changes' \in 0 .. MaxChanges
      BY <2>2, <2>5 DEF Press, TInv
    <3>4. QED BY <3>2, <3>3
  <2>6. ASSUME NEW k \in Offered, NEW p \in Edits(k), Change(p) \/ Add(p) PROVE TInv'
    <3>1. k \in Kinds /\ IsPanel(p, k) /\ p.kind = k
      BY ChosenIsPanel
    <3>2. chosen' = p /\ (Press(p, group) \/ Press(p, <<>>))
      BY <2>6 DEF Change, Add
    <3>3. Paired(group', mon') /\ changes' \in 0 .. MaxChanges
      BY <2>1, <2>5, <3>1, <3>2
    <3>4. QED BY <3>1, <3>2, <3>3 DEF TInv
  <2>7. CASE Keep
    <3>1. Press(Filled(group), group) /\ chosen' = chosen
      BY <2>7 DEF Keep
    <3>2. Legible(group)
      BY <2>1, <3>1 DEF Press
    <3>3. Paired(group', mon') /\ changes' \in 0 .. MaxChanges
      BY <2>5, <3>1, <3>2, FilledKind
    <3>4. QED BY <3>1, <3>3 DEF TInv
  <2>8. CASE Measure
    <3>1. Paired(group', mon')
      BY <2>1, <2>8, MeasureIs DEF TInv, Paired, Measure
    <3>2. QED BY <2>8, <3>1 DEF TInv, Measure
  <2>9. CASE UNCHANGED vars
    BY <2>9 DEF vars, TInv, Paired
  <2>10. QED BY <2>3, <2>4, <2>6, <2>7, <2>8, <2>9 DEF Next
<1>3. QED BY <1>1, <1>2

\* Through any number of edits, kills, restarts and measurements, over the entries of
\* whatever monitors were in the group before, the group loads as a monitor of its kind
\* and the monitor is one that its constructor makes.
THEOREM TypesKept == Spec => []TypeOK
<1>1. TInv => TypeOK
  BY DEF TInv, Paired, TypeOK
<1>2. QED BY <1>1, TypesInductive, PTL DEF Spec


(* Restarts.  The entries of an old network monitor must not be left to others. *)

\* Deprecated entries are there until the first start at most.
Clean == Deprecated(group) => mon = None /\ chosen = None /\ group.type = "network_load"
KInv == TInv /\ Clean /\ KillKeeps

\* What OK saves is what a restart makes of it.
LEMMA PressKeeps ==
  ASSUME NEW kind \in Kinds, NEW p, IsPanel(p, kind), Accepted(p), NEW g,
         g # <<>> => Legible(g), ~ Deprecated(g)
  PROVE  LET m == Accept(p)
             s == Save(g, m)
         IN  /\ m \in MonitorOf(kind) /\ m.kind = kind /\ s # <<>> /\ ~ Deprecated(s)
             /\ kind = "cpu_usage" => "fixed_max" \in DOMAIN s
             /\ kind # "load_average" => Load(s) = Restarted(m)
             /\ kind = "load_average" =>
                  Load(s) = [Restarted(m) EXCEPT !.fixed = Entry(g, "fixed_max", FALSE)]
<1>1. Accept(p) \in MonitorOf(kind)
  BY AcceptedIsMonitor
<1>2. QED BY <1>1, SaveIs, Zenon

LEMMA RestartsInductive ==
  ASSUME NothingLeft
  PROVE  (Init => KInv) /\ (KInv /\ [Next]_vars => KInv')
<1>1. Init => KInv
  <2> SUFFICES ASSUME Init PROVE KInv
    OBVIOUS
  <2>1. TInv
    BY TypesInductive
  <2>2. Clean
    BY NothingRead DEF Init, Clean, NothingLeft
  <2>3. QED BY <2>1, <2>2 DEF KInv, KillKeeps, Init
<1>2. KInv /\ [Next]_vars => KInv'
  <2> SUFFICES ASSUME KInv, [Next]_vars PROVE KInv'
    OBVIOUS
  <2>1. TInv' /\ Paired(group, mon)
    BY TypesInductive DEF KInv, TInv
  <2>2. /\ group # <<>> => Legible(group)
        /\ mon # None => /\ mon.kind \in Kinds /\ mon \in MonitorOf(mon.kind)
                         /\ group # <<>> /\ group.type = mon.kind /\ ~ Deprecated(group)
    BY <2>1 DEF Paired, KInv, Clean
  <2>3. CASE Start
    <3>1. ~ Deprecated(group')
      BY <2>1, <2>3, StartIs DEF KInv, Clean
    <3>2. mon'.kind # "load_average" => Load(group') = Restarted(mon')
      BY <2>1, <2>3, StartIs DEF Legible
    <3>3. QED BY <2>1, <3>1, <3>2 DEF KInv, Clean, KillKeeps
  <2>4. CASE Stop
    <3>1. mon # None /\ mon' = None /\ group' \in {group, Save(group, mon)}
      BY <2>4 DEF Stop
    <3>2. ~ Deprecated(group')
      BY <2>2, <3>1, SaveIs
    <3>3. QED BY <2>1, <3>1, <3>2 DEF KInv, Clean, KillKeeps
  <2>5. ASSUME NEW p, NEW g, g # <<>> => Legible(g), ~ Deprecated(g), NEW kind \in Kinds,
               IsPanel(p, kind), Press(p, g)
        PROVE  KInv'
    <3>1. Accepted(p) /\ mon' = Accept(p) /\ group' = Save(g, Accept(p))
      BY <2>5 DEF Press
    <3>2. /\ ~ Deprecated(group')
          /\ mon'.kind # "load_average" => Load(group') = Restarted(mon')
      BY <2>5, <3>1, PressKeeps
    <3>3. QED BY <2>1, <3>2 DEF KInv, Clean, KillKeeps
  <2>6. ASSUME NEW k \in Offered, NEW p \in Edits(k), Change(p) \/ Add(p) PROVE KInv'
    <3>1. k \in Kinds /\ IsPanel(p, k)
      BY ChosenIsPanel
    <3>2. Press(p, group) \/ Press(p, <<>>)
      BY <2>6 DEF Change, Add
    <3>3. QED BY <2>2, <2>5, <3>1, <3>2, NothingRead DEF Press
  <2>7. CASE Keep
    <3>1. Press(Filled(group), group)
      BY <2>7 DEF Keep
    <3>2. QED BY <2>2, <2>5, <3>1, FilledKind DEF Press
  <2>8. CASE Measure
    <3>1. group' = group /\ ~ Deprecated(group)
      BY <2>2, <2>8 DEF Measure
    <3>2. mon'.kind = mon.kind /\ Restarted(mon') = Restarted(mon) /\ mon # None
      BY <2>1, <2>8, MeasureIs, MeasuredIsLost
    <3>3. QED BY <2>1, <3>1, <3>2 DEF KInv, Clean, KillKeeps
  <2>9. CASE UNCHANGED vars
    BY <2>1, <2>9 DEF vars, KInv, Clean, KillKeeps
  <2>10. QED BY <2>3, <2>4, <2>6, <2>7, <2>8, <2>9 DEF Next
<1>3. QED BY <1>1, <1>2

\* A save, whenever it comes, leaves a group that load_monitors turns back into the
\* monitor the user has.
THEOREM SavesKeep ==
  ASSUME NothingLeft
  PROVE  Spec => []SaveKeeps
<1>1. KInv => SaveKeeps
  <2> SUFFICES ASSUME KInv, mon # None, mon.kind # "load_average"
               PROVE  Load(Save(group, mon)) = Restarted(mon)
    BY DEF SaveKeeps
  <2>1. /\ mon.kind \in Kinds /\ mon \in MonitorOf(mon.kind) /\ ~ Deprecated(group)
        /\ group # <<>> => Legible(group)
    BY DEF KInv, TInv, Paired, Clean
  <2>2. QED BY <2>1, SaveIs
<1>2. QED BY <1>1, RestartsInductive, PTL DEF Spec

\* So does what the last OK, or the last stop, saved, when the panel is killed.
THEOREM KillsKeep ==
  ASSUME NothingLeft
  PROVE  Spec => []KillKeeps
<1>1. KInv => KillKeeps
  BY DEF KInv
<1>2. QED BY <1>1, RestartsInductive, PTL DEF Spec

\* Where no network monitor of an older version left entries to a monitor of another
\* kind, no network monitor has any: what the comment in the window's code relies on.
THEOREM EntriesConverted ==
  ASSUME NothingLeft
  PROVE  Spec => []Converted
<1>1. KInv => Converted
  BY DEF KInv, Clean, Converted
<1>2. QED BY <1>1, RestartsInductive, PTL DEF Spec

\* OK without an edit does what a restart does, but for a generic monitor's direction and
\* the statistic of a disk's that has none.
THEOREM OkIsRestart ==
  ASSUME NothingLeft
  PROVE  Spec => KeepIsRestart
<1>1. ASSUME KInv, Keep, mon.kind \notin {"cpu_usage", "fan_speed", "load_average"}
      PROVE  mon' = [Restarted(mon) EXCEPT !.own = Unedited(@)]
  <2>1. mon # None /\ mon' = Accept(Filled(group))
    BY <1>1 DEF Keep, Press
  <2>2. /\ Legible(group) /\ group.type = mon.kind /\ ~ Deprecated(group)
        /\ Load(group) = Restarted(mon)
    BY <1>1, <2>1 DEF KInv, TInv, Paired, Clean, KillKeeps
  <2>3. Accept(Filled(group)) = [Load(group) EXCEPT !.own = Unedited(Load(group).own)]
    BY <1>1, <2>2, FilledAlike
  <2>4. QED BY <2>1, <2>2, <2>3
<1>2. KInv /\ [Next]_vars =>
        [Keep /\ mon.kind \notin {"cpu_usage", "fan_speed", "load_average"} =>
           mon' = [Restarted(mon) EXCEPT !.own = Unedited(@)]]_vars
  BY <1>1
<1>3. QED BY <1>2, RestartsInductive, PTL DEF Spec, KeepIsRestart

--------------------------------------------------------------------------
(* The monitor the user chose. *)

\* A monitor that shows what panel p asked for, as far as the code keeps it.
Shows(m, p) ==
  /\ m.kind = p.kind /\ m.tag = p.tag /\ m.overlay = p.overlay
  /\ p.kind # "cpu_usage" =>
       /\ m.own \in {Accept(p).own, Unedited(Accept(p).own)}
       /\ m.interval = Milliseconds(p.delay)
  /\ p.kind # "load_average" => m.fixed = p.fixed
  /\ p.kind \in {"disk_statistics", "network_load", "generic"} /\ p.fixed =>
       m.max \in {p.max, Printed(p.max)}

\* Both the monitor m and its group g show the last choice p: a kill leaves one of them.
Remembered(g, m, p) ==
  p # None /\ p.kind # "fan_speed" =>
    /\ g # <<>> /\ Shows(Load(g), p)
    /\ m # None => Shows(m, p)
    /\ p.kind = "cpu_usage" => "fixed_max" \in DOMAIN g
CInv == KInv /\ Remembered(group, mon, chosen)

LEMMA UneditedStays ==
  ASSUME NEW own
  PROVE  Unedited(Unedited(own)) = Unedited(own)
BY DEF Unedited

\* A restart loses no more than digits of a maximum, and those once.
LEMMA RestartShows ==
  ASSUME NEW kind \in Kinds, NEW m \in MonitorOf(kind), NEW p, Shows(m, p),
         p.max \in 0 .. Largest
  PROVE  Shows(Restarted(m), p)
<1>1. PICK n \in 0 .. Largest :
        /\ Restarted(m) = WithMax(m, n)
        /\ kind \in {"load_average", "generic"} /\ m.fixed => n = Printed(m.max)
        /\ kind \in {"disk_statistics", "network_load"} /\ m.fixed => n = m.max
  BY RestartSettles
<1>2. /\ WithMax(m, n).kind = kind /\ WithMax(m, n).own = m.own
      /\ WithMax(m, n).interval = m.interval /\ WithMax(m, n).fixed = m.fixed
      /\ WithMax(m, n).tag = m.tag /\ WithMax(m, n).overlay = m.overlay
      /\ WithMax(m, n).max = n /\ m.kind = kind
  BY WithMaxIs, MonitorFields
<1>3. Printed(Printed(p.max)) = Printed(p.max)
  BY PrintedSettles
<1>4. kind \in {"disk_statistics", "network_load", "generic"} /\ p.fixed =>
        n \in {p.max, Printed(p.max)}
  BY <1>1, <1>2, <1>3 DEF Shows
<1>5. QED BY <1>1, <1>2, <1>4 DEF Shows

\* Nothing is asked of a load average that is not saved.
LEMMA AnyFixedShows ==
  ASSUME NEW m \in MonitorOf("load_average"), NEW p, Shows(m, p), NEW fixed
  PROVE  Shows([m EXCEPT !.fixed = fixed], p)
<1> DEFINE w == [m EXCEPT !.fixed = fixed]
<1>1. m = [kind |-> "load_average", own |-> m.own, interval |-> m.interval,
           fixed |-> m.fixed, max |-> m.max, tag |-> m.tag, overlay |-> m.overlay]
  BY MonitorFields
<1>2. /\ w.kind = m.kind /\ w.own = m.own /\ w.interval = m.interval /\ w.tag = m.tag
      /\ w.overlay = m.overlay /\ w.max = m.max /\ m.kind = "load_average"
  BY <1>1
<1> HIDE DEF w
<1>3. Shows(w, p)
  BY <1>2 DEF Shows
<1>4. QED BY <1>3 DEF w

\* The group that a save leaves shows what the monitor does.
LEMMA SaveShows ==
  ASSUME NEW kind \in Kinds, NEW m \in MonitorOf(kind), NEW g, g # <<>> => Legible(g),
         ~ Deprecated(g), NEW p, Shows(m, p), p.max \in 0 .. Largest
  PROVE  LET s == Save(g, m)
         IN  /\ s # <<>> /\ Shows(Load(s), p)
             /\ p.kind = "cpu_usage" => "fixed_max" \in DOMAIN s
<1> DEFINE s == Save(g, m)
           fixed == Entry(g, "fixed_max", FALSE)
<1>1. /\ s # <<>> /\ m.kind = kind /\ (kind = "cpu_usage" => "fixed_max" \in DOMAIN s)
      /\ kind # "load_average" => Load(s) = Restarted(m)
      /\ kind = "load_average" => Load(s) = [Restarted(m) EXCEPT !.fixed = fixed]
  BY SaveIs, Zenon
<1>2. Shows(Restarted(m), p) /\ p.kind = kind
  <2>1. p.kind = kind
    BY <1>1 DEF Shows
  <2>2. QED BY <2>1, RestartShows, Zenon
<1>3. Restarted(m) \in MonitorOf(kind)
  <2>1. PICK n \in 0 .. Largest : Restarted(m) = WithMax(m, n)
    BY RestartSettles, Zenon
  <2>2. QED BY <2>1, WithMaxIs
<1> HIDE DEF s, fixed
<1>4. CASE kind # "load_average"
  BY <1>1, <1>2, <1>4, Zenon DEF s
<1>5. CASE kind = "load_average"
  <2>1. Shows([Restarted(m) EXCEPT !.fixed = fixed], p)
    BY <1>2, <1>3, <1>5, AnyFixedShows
  <2>2. QED BY <1>1, <1>2, <1>5, <2>1, Zenon DEF s
<1>6. QED BY <1>4, <1>5, Zenon

\* OK shows what its panel asks for.
LEMMA AcceptShows ==
  ASSUME NEW p, p.kind \in Kinds
  PROVE  Shows(Accept(p), p)
BY AcceptCommon DEF Shows

\* OK without an edit loses nothing of it, of a monitor that is not a fan's.
LEMMA KeepShows ==
  ASSUME NEW g, Legible(g), ~ Deprecated(g), NEW p, p.kind # "fan_speed",
         Shows(Load(g), p), p.kind = "cpu_usage" => "fixed_max" \in DOMAIN g
  PROVE  Shows(Accept(Filled(g)), p)
<1> DEFINE q == Filled(g)
           m == Load(g)
           w == Accept(q)
<1>1. g.type \in Kinds /\ m \in MonitorOf(g.type) /\ p.kind = g.type /\ g.type # "fan_speed"
  BY LoadCommon DEF Legible, Shows
<1>2. /\ IsPanel(q, g.type) /\ q.kind = g.type /\ q.tag = m.tag /\ q.overlay = m.overlay
      /\ g.type = "load_average" => Milliseconds(q.delay) = m.interval
      /\ g.type = "cpu_usage" => q.fixed = m.fixed
  BY <1>1, FilledIsPanel DEF PanelKind, IsPanel
<1>3. /\ w.kind = q.kind /\ w.fixed = q.fixed /\ w.tag = q.tag /\ w.overlay = q.overlay
      /\ q.kind # "cpu_usage" => w.interval = Milliseconds(q.delay)
      /\ q.kind = "load_average" => w.own = [none |-> 0]
  BY <1>1, <1>2, AcceptCommon
<1>4. g.type \notin {"cpu_usage", "load_average"} =>
        w = [m EXCEPT !.own = Unedited(m.own)]
  BY <1>1, FilledAlike
<1>5. m = [kind |-> g.type, own |-> m.own, interval |-> m.interval, fixed |-> m.fixed,
           max |-> m.max, tag |-> m.tag, overlay |-> m.overlay]
  BY <1>1, MonitorFields
<1>6. g.type = "load_average" => Accept(p).own = [none |-> 0]
  BY <1>1, AcceptCommon
<1> HIDE DEF m, q, w
<1>7. Shows(m, p)
  BY DEF m
<1>8. CASE g.type = "cpu_usage"
  BY <1>1, <1>2, <1>3, <1>7, <1>8 DEF Shows, w, q
<1>9. CASE g.type = "load_average"
  BY <1>1, <1>2, <1>3, <1>6, <1>7, <1>9 DEF Shows, w, q
<1>10. CASE g.type \notin {"cpu_usage", "load_average"}
  <2>1. /\ w.kind = m.kind /\ w.own = Unedited(m.own) /\ w.interval = m.interval
        /\ w.fixed = m.fixed /\ w.max = m.max /\ w.tag = m.tag /\ w.overlay = m.overlay
    BY <1>4, <1>5, <1>10
  <2>2. p.kind # "cpu_usage" => w.own \in {Accept(p).own, Unedited(Accept(p).own)}
    BY <1>7, <2>1, UneditedStays DEF Shows
  <2>3. Shows(w, p)
    BY <1>7, <2>1, <2>2 DEF Shows
  <2>4. QED BY <2>3 DEF w, q
<1>11. QED BY <1>8, <1>9, <1>10

\* The maximum that a panel of the user asks for is one that an int holds.
LEMMA ChosenMaxIs ==
  ASSUME NEW k \in Offered, NEW p \in Edits(k)
  PROVE  p.max \in 0 .. Largest /\ k \in Kinds /\ p.kind = k
<1>1. p.max \in Maxima
  BY DEF Edits
<1>2. QED BY <1>1, ChoicesAre, ChosenIsPanel

\* A measured maximum is not a chosen one.
LEMMA MeasureShows ==
  ASSUME Paired(group, mon), Measure, NEW p, Shows(mon, p)
  PROVE  Shows(mon', p)
<1>1. PICK n \in 0 .. Largest : mon' = WithMax(mon, n)
  BY MeasureIs
<1>2. mon \in MonitorOf(mon.kind)
      /\ (~ mon.fixed \/ mon.kind \in {"memory_usage", "swap_usage", "disk_usage"})
  BY MeasureIs
<1>3. /\ mon'.kind = mon.kind /\ mon'.own = mon.own /\ mon'.interval = mon.interval
      /\ mon'.fixed = mon.fixed /\ mon'.tag = mon.tag /\ mon'.overlay = mon.overlay
  BY <1>1, <1>2, WithMaxIs
<1>4. QED BY <1>2, <1>3 DEF Shows

LEMMA ChoiceInductive ==
  ASSUME NothingLeft
  PROVE  (Init => CInv) /\ (CInv /\ [Next]_vars => CInv')
<1>1. Init => CInv
  BY RestartsInductive DEF Init, CInv, Remembered
<1>2. CInv /\ [Next]_vars => CInv'
  <2> SUFFICES ASSUME CInv, [Next]_vars PROVE CInv'
    OBVIOUS
  <2>1. KInv' /\ Paired(group, mon) /\ Remembered(group, mon, chosen)
    BY RestartsInductive DEF CInv, KInv, TInv
  <2>2. /\ group # <<>> => Legible(group)
        /\ mon # None => /\ mon.kind \in Kinds /\ mon \in MonitorOf(mon.kind)
                         /\ group # <<>> /\ group.type = mon.kind /\ ~ Deprecated(group)
    BY <2>1 DEF Paired, CInv, KInv, Clean
  <2>3. chosen # None => chosen.max \in 0 .. Largest /\ chosen.kind \in Kinds
    BY ChosenMaxIs DEF CInv, KInv, TInv
  <2> SUFFICES Remembered(group', mon', chosen')
    BY <2>1 DEF CInv
  <2>5. CASE Start
    <3>1. chosen' = chosen
      BY <2>5 DEF Start
    <3> SUFFICES ASSUME chosen # None, chosen.kind # "fan_speed"
                 PROVE  Remembered(group', mon', chosen)
      BY <3>1 DEF Remembered
    <3>3. group # <<>> /\ Shows(Load(group), chosen)
          /\ (chosen.kind = "cpu_usage" => "fixed_max" \in DOMAIN group)
      BY <2>1 DEF Remembered
    <3>4. /\ mon' = Load(group) /\ Load(group') = mon' /\ group' # <<>>
          /\ "fixed_max" \in DOMAIN group => "fixed_max" \in DOMAIN group'
      BY <2>1, <2>5, <3>3, StartIs
    <3>5. QED BY <3>3, <3>4 DEF Remembered
  <2>6. CASE Stop
    <3>1. mon # None /\ mon' = None /\ group' \in {group, Save(group, mon)}
          /\ chosen' = chosen
      BY <2>6 DEF Stop
    <3> SUFFICES ASSUME chosen # None, chosen.kind # "fan_speed", group' = Save(group, mon)
                 PROVE  Remembered(group', mon', chosen)
      BY <2>1, <3>1 DEF Remembered
    <3>3. Shows(mon, chosen)
      BY <2>1, <3>1 DEF Remembered
    <3>4. /\ group' # <<>> /\ Shows(Load(group'), chosen)
          /\ chosen.kind = "cpu_usage" => "fixed_max" \in DOMAIN group'
      BY <2>2, <2>3, <3>1, <3>3, SaveShows
    <3>5. QED BY <3>1, <3>4 DEF Remembered
  \* OK, with panel q over group g; p is what the user chose, now or before.
  <2>7. ASSUME NEW q, NEW g, g # <<>> => Legible(g), ~ Deprecated(g), NEW kind \in Kinds,
               IsPanel(q, kind), Press(q, g), NEW p, Shows(Accept(q), p),
               p.max \in 0 .. Largest
        PROVE  Remembered(group', mon', p)
    <3>1. Accepted(q) /\ mon' = Accept(q) /\ group' = Save(g, Accept(q))
      BY <2>7 DEF Press
    <3>2. Accept(q) \in MonitorOf(kind)
      BY <2>7, <3>1, AcceptedIsMonitor
    <3>3. /\ group' # <<>> /\ Shows(Load(group'), p)
          /\ p.kind = "cpu_usage" => "fixed_max" \in DOMAIN group'
      BY <2>7, <3>1, <3>2, SaveShows
    <3>4. QED BY <2>7, <3>1, <3>3 DEF Remembered
  <2>8. ASSUME NEW k \in Offered, NEW p \in Edits(k), Change(p) \/ Add(p)
        PROVE  Remembered(group', mon', chosen')
    <3>1. k \in Kinds /\ IsPanel(p, k) /\ p.kind = k /\ p.max \in 0 .. Largest
      BY ChosenIsPanel, ChosenMaxIs
    <3>2. chosen' = p /\ (Press(p, group) \/ Press(p, <<>>)) /\ mon # None
      BY <2>8 DEF Change, Add, Press
    <3>3. Shows(Accept(p), p)
      BY <3>1, AcceptShows
    <3>4. Remembered(group', mon', p)
      BY <2>2, <2>7, <3>1, <3>2, <3>3, NothingRead
    <3>5. QED BY <3>2, <3>4
  <2>9. CASE Keep
    <3>1. Press(Filled(group), group) /\ chosen' = chosen /\ mon # None
      BY <2>9 DEF Keep, Press
    <3> SUFFICES ASSUME chosen # None, chosen.kind # "fan_speed"
                 PROVE  Remembered(group', mon', chosen)
      BY <3>1 DEF Remembered
    <3>3. Shows(Load(group), chosen)
          /\ (chosen.kind = "cpu_usage" => "fixed_max" \in DOMAIN group)
      BY <2>1 DEF Remembered
    <3>4. Shows(Accept(Filled(group)), chosen)
      BY <2>2, <3>1, <3>3, KeepShows
    <3>5. PanelKind(group) \in Kinds /\ IsPanel(Filled(group), PanelKind(group))
      BY <2>2, <3>1, FilledKind
    <3>6. QED BY <2>2, <2>3, <2>7, <3>1, <3>4, <3>5
  <2>10. CASE Measure
    <3>1. group' = group /\ chosen' = chosen /\ mon # None
      BY <2>10 DEF Measure
    <3>2. Shows(mon, chosen) => Shows(mon', chosen)
      BY <2>1, <2>10, MeasureShows
    <3>3. QED BY <2>1, <3>1, <3>2 DEF Remembered
  <2>11. CASE UNCHANGED vars
    BY <2>1, <2>11 DEF vars
  <2>12. QED BY <2>5, <2>6, <2>8, <2>9, <2>10, <2>11 DEF Next
<1>3. QED BY <1>1, <1>2

\* The monitor is the one the user chose last, through restarts, kills, measurements and
\* OKs without an edit; its maximum is the one chosen or what one printing leaves of it, in
\* any locale, which is six digits of it where numbers have no groups and no comma.
THEOREM ChosenIsKept ==
  ASSUME NothingLeft
  PROVE  Spec => []AsChosen
<1>1. CInv => AsChosen
  <2> SUFFICES ASSUME CInv, mon # None, chosen # None, chosen.kind # "fan_speed"
               PROVE  AsChosen
    BY Zenon DEF AsChosen
  <2>1. Shows(mon, chosen)
    BY DEF CInv, Remembered
  <2>2. chosen.max \in 0 .. Largest
    BY ChosenMaxIs DEF CInv, KInv, TInv
  <2>3. ~ Grouped /\ ~ DecimalComma => Near(Printed(chosen.max), chosen.max)
    BY <2>2, PrintedClose DEF Near
  <2>4. Near(chosen.max, chosen.max)
    BY <2>2, LargestType, SMT DEF Near
  <2>5. chosen.kind \in {"disk_statistics", "network_load", "generic"} /\ chosen.fixed =>
          /\ mon.max \in {chosen.max, Printed(chosen.max)}
          /\ ~ Grouped /\ ~ DecimalComma => Near(mon.max, chosen.max)
    BY <2>1, <2>3, <2>4 DEF Shows
  <2>6. /\ mon.kind = chosen.kind /\ mon.tag = chosen.tag /\ mon.overlay = chosen.overlay
        /\ chosen.kind # "cpu_usage" =>
             /\ mon.own \in {Accept(chosen).own, Unedited(Accept(chosen).own)}
             /\ mon.interval = Milliseconds(chosen.delay)
        /\ chosen.kind # "load_average" => mon.fixed = chosen.fixed
    BY <2>1 DEF Shows
  <2>7. QED BY <2>5, <2>6, Zenon DEF AsChosen
<1>2. QED BY <1>1, ChoiceInductive, PTL DEF Spec
=============================================================================
