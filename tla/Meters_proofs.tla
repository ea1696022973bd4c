---------------------------- MODULE Meters_proofs ----------------------------
(***************************************************************************)
(* For any counters, files and sensors: a monitor's value is a number of   *)
(* its kind, is on the scale of its maximum, and no change is reported     *)
(* that its counter did not make.                                          *)
(***************************************************************************)
EXTENDS Meters, TLAPS

\* What each kind of monitor reads.
MachineOK ==
  /\ config.kind = "cpu_usage" => machine \in [Ticks -> Shown]
  /\ config.kind \in Sized => /\ machine.total \in Shown /\ machine.used \in Shown
                              /\ machine.used <= machine.total
  /\ config.kind = "load_average" => machine \in Shown
  /\ config.kind \in Sensed => machine \in Shown \cup {None}
  /\ config.kind = "network_load" =>
       machine \in [bytes : [Interfaces -> Shown], name : Interfaces]
  /\ config.kind = "disk_statistics" => machine \in Shown \cup {None}
  /\ config.kind = "generic" => machine \in [number : Readings, readable : BOOLEAN]

\* What it keeps and what it makes of it.
KeptOK ==
  /\ config.kind = "cpu_usage" => previous \in [Ticks -> Shown]
  /\ config.kind = "network_load" => previous \in Shown
  /\ config.kind = "generic" => previous \in Readings \cup {None}
  /\ config.kind \notin {"cpu_usage", "generic"} => previous \in Shown \cup {None}
ValueOK ==
  /\ config.kind = "cpu_usage" => value \in Nat \X Nat
  /\ config.kind = "disk_statistics" => value \in Shown \cup {NaN}
  /\ config.kind = "generic" => value \in 0 .. 2 * Limit
  /\ config.kind \notin {"cpu_usage", "disk_statistics", "generic"} => value \in Shown

\* The slack is never less than what the next measurement can report: what the counter
\* has moved since the last one.
NetworkOwed ==
  config.kind = "network_load" /\ ~ switched /\ previous # 0
    => machine.bytes[machine.name] - previous <= slack
DiskOwed ==
  config.kind = "disk_statistics" /\ config.rate /\ machine # None /\ previous # None
    => machine - previous <= slack
FileOwed ==
  config.kind = "generic" /\ config.follow /\ previous # None
    => Change(previous, machine.number) <= slack
OwedOK == slack \in Nat /\ NetworkOwed /\ DiskOwed /\ FileOwed

IInv ==
  /\ config \in Configs /\ max \in Nat /\ switched \in BOOLEAN
  /\ MachineOK /\ KeptOK /\ ValueOK /\ OwedOK /\ OnScale
--------------------------------------------------------------------------
LEMMA Numbers ==
  /\ Limit \in Nat \ {0} /\ Word \in Nat \ {0} /\ Parts \in Nat \ {0} /\ Shown \subseteq Nat
  /\ None \notin Shown /\ NaN \notin Shown
  /\ Readings \subseteq Int /\ None \notin Readings /\ NaN \notin Readings
  /\ NaN \notin 0 .. 2 * Limit
  /\ \A x, y \in Shown : x - y # NaN
<1>1. Limit \in Nat \ {0} /\ Word \in Nat \ {0} /\ Parts \in Nat \ {0}
  BY MetersAssumption
<1>2. \A x \in -2 * Limit .. 2 * Limit : x # None /\ x # NaN
  BY MetersAssumption
<1>3. /\ \A x, y \in Shown : x \in -2 * Limit .. 2 * Limit /\ x - y \in -2 * Limit .. 2 * Limit
      /\ \A x \in Readings : x \in -2 * Limit .. 2 * Limit
      /\ \A x \in 0 .. 2 * Limit : x \in -2 * Limit .. 2 * Limit
  BY <1>1 DEF Shown, Readings
<1>4. QED BY <1>1, <1>2, <1>3 DEF Shown, Readings

\* The changes of a number add up: none of the three ways to count them sees more in a
\* step than in its parts.
LEMMA ChangesAddUp ==
  ASSUME config \in Configs, config.kind = "generic",
         NEW a \in Int, NEW b \in Int, NEW c \in Int
  PROVE  /\ Change(a, b) \in Nat /\ Change(a, a) = 0
         /\ Change(a, c) <= Change(a, b) + Change(b, c)
<1>1. config.dir \in {"positive", "negative", "both"}
  BY MetersAssumption
<1>2. CASE config.dir = "positive"
  BY <1>2 DEF Change
<1>3. CASE config.dir = "negative"
  BY <1>3 DEF Change
<1>4. CASE config.dir = "both"
  BY <1>4 DEF Change
<1>5. QED BY <1>1, <1>2, <1>3, <1>4

\* A maximum that follows values is below them by less than one whole.
LEMMA FollowCovers ==
  ASSUME NEW m \in Nat, NEW val \in Int, NEW parts \in Nat \ {0}
  PROVE  Follow(m, val, parts) \in Nat /\ val < parts * (Follow(m, val, parts) + 1)
<1> DEFINE kept == IF val = 0 THEN m ELSE (m * 999) \div 1000
           n == parts * kept
           hundred == 100 * parts
           raised == (val * 105) \div hundred
<1>1. kept \in Nat
  OBVIOUS
<1>2. Follow(m, val, parts) = IF val > n THEN raised ELSE kept
  BY DEF Follow
<1> HIDE DEF kept
<1>3. n \in Nat /\ parts * (kept + 1) = n + parts
  BY <1>1
<1>4. CASE val > n
  <2>1. hundred \in Nat \ {0} /\ val * 105 \in Nat
    BY <1>3, <1>4
  <2>2. raised \in Int /\ hundred * raised <= val * 105 /\ val * 105 < hundred * (raised + 1)
    <3> DEFINE v == val * 105
    <3>1. v \in Nat /\ raised = v \div hundred
      BY <2>1
    <3> HIDE DEF v, hundred
    <3>2. v \div hundred \in Int /\ v % hundred \in 0 .. hundred - 1
          /\ v = hundred * (v \div hundred) + (v % hundred)
      BY <2>1, <3>1
    <3>3. hundred * (v \div hundred + 1) = hundred * (v \div hundred) + hundred
      BY <2>1, <3>2
    <3>4. QED BY <2>1, <3>1, <3>2, <3>3 DEF v
  <2> DEFINE w == parts * (raised + 1)
  <2>3. hundred * (raised + 1) = 100 * w /\ w \in Int
    BY <2>2
  <2>4. val < w
    <3> HIDE DEF w, raised, hundred
    <3>1. val * 105 < 100 * w
      BY <2>2, <2>3
    <3>2. QED BY <1>3, <1>4, <2>3, <3>1
  <2>5. raised \in Nat
    <3>1. CASE raised >= 0 BY <2>2, <3>1
    <3>2. CASE raised + 1 <= 0
      <4>1. w <= 0
        BY <2>2, <3>2
      <4>2. QED BY <1>3, <1>4, <2>3, <2>4, <4>1
    <3>3. QED BY <2>2, <3>1, <3>2
  <2>6. QED BY <1>2, <1>4, <2>4, <2>5
<1>5. CASE ~ val > n
  BY <1>1, <1>2, <1>3, <1>5
<1>6. QED BY <1>4, <1>5

\* One that follows whole values is not below them at all.
LEMMA FollowCoversWhole ==
  ASSUME NEW m \in Nat, NEW val \in Int
  PROVE  Follow(m, val, 1) \in Nat /\ val <= Follow(m, val, 1)
<1> DEFINE f == Follow(m, val, 1)
<1>1. 1 \in Nat \ {0}
  OBVIOUS
<1>2. f \in Nat /\ val < 1 * (f + 1)
  BY <1>1, FollowCovers, Zenon
<1> HIDE DEF f
<1>3. val <= f
  BY <1>2
<1>4. QED BY <1>2, <1>3 DEF f

LEMMA FollowLoadCovers ==
  ASSUME max \in Nat, NEW val \in Nat, ~ config.fixed
  PROVE  FollowLoad(val) \in Nat /\ 1000 * val <= FollowLoad(val)
<1> DEFINE low == (max * 999) \div 1000
           kept == Max({low, 1000})
<1>1. low \in Nat
  OBVIOUS
<1> HIDE DEF low
<1>2. \E x \in {low, 1000} : \A y \in {low, 1000} : x >= y
  BY <1>1
<1>3. kept \in {low, 1000}
  BY <1>2 DEF Max
<1>4. kept \in Nat
  BY <1>1, <1>3
<1>5. FollowLoad(val) = IF 1000 * val > kept THEN 1050 * val ELSE kept
  BY DEF FollowLoad, low
<1> HIDE DEF kept
<1>6. QED BY <1>4, <1>5
--------------------------------------------------------------------------
\* The share of a CPU is a fraction of naturals.
LEMMA CpuValueType ==
  ASSUME machine \in [Ticks -> Shown], previous \in [Ticks -> Shown]
  PROVE  CpuValue \in Nat \X Nat
<1> DEFINE total == Minus(Total(machine), Total(previous))
           Ago(t) == Minus(machine[t], previous[t])
           used == Double(Minus(total, Ago("idle")))
              - (IF config.low THEN 0 ELSE Double(Ago("nice")))
              - (IF config.iowait THEN 0 ELSE Double(Ago("iowait")))
<1>1. \A n, d \in Int : Minus(n, d) \in Nat /\ Double(Minus(n, d)) \in Nat
  BY Numbers DEF Minus, Double
<1>2. \A t \in Ticks : machine[t] \in Nat /\ previous[t] \in Nat
  BY Numbers
<1>3. Total(machine) \in Int /\ Total(previous) \in Int
  BY <1>2 DEF Total, Ticks
<1>4. \A t \in Ticks : Ago(t) \in Nat /\ Double(Ago(t)) \in Nat
  BY <1>1, <1>2
<1>5. total \in Nat /\ Double(total) \in Nat
  BY <1>1, <1>3
<1>6. Double(Minus(total, Ago("idle"))) \in Nat
  BY <1>1, <1>4, <1>5 DEF Ticks
<1>7. used \in Int
  BY <1>4, <1>6 DEF Ticks
<1>8. CpuValue = IF used > 0 THEN <<used, Double(total)>> ELSE <<0, 1>>
  BY DEF CpuValue
<1> HIDE DEF used, total
<1>9. QED BY <1>5, <1>7, <1>8

\* What a measurement has to leave.
LEMMA Measured ==
  ASSUME IInv, UNCHANGED <<config, machine>>, max' \in Nat, switched' = FALSE,
         KeptOK', ValueOK', OwedOK', OnScale'
  PROVE  IInv'
BY DEF IInv, MachineOK

\* A new value is on the scale.
LEMMA Scaled ==
  ASSUME config' = config, config.kind \notin {"load_average", "generic"},
         config.fixed \/ value' = NaN \/ value' <= max'
  PROVE  OnScale'
BY DEF OnScale
LEMMA ScaledFile ==
  ASSUME config' = config, config.kind = "generic",
         config.fixed \/ config.follow \/ value' < Parts * (max' + 1)
  PROVE  OnScale'
BY DEF OnScale

LEMMA MeasureCpuKeeps ==
  ASSUME IInv, MeasureCpu, switched' = FALSE, UNCHANGED <<config, machine>> PROVE IInv'
<1>1. /\ config.kind = "cpu_usage" /\ value' = CpuValue /\ previous' = machine
      /\ max' = max /\ slack' = slack
  BY DEF MeasureCpu
<1>2. machine \in [Ticks -> Shown] /\ previous \in [Ticks -> Shown]
  BY <1>1 DEF IInv, MachineOK, KeptOK
<1>3. KeptOK' /\ OwedOK' /\ OnScale'
  BY <1>1, <1>2 DEF IInv, KeptOK, OwedOK, NetworkOwed, DiskOwed, FileOwed, OnScale
<1>4. ValueOK'
  BY <1>1, <1>2, CpuValueType DEF ValueOK
<1>5. max' \in Nat
  BY <1>1 DEF IInv
<1>6. QED BY <1>3, <1>4, <1>5, Measured

LEMMA MeasureSizedKeeps ==
  ASSUME IInv, MeasureSized, switched' = FALSE, UNCHANGED <<config, machine>> PROVE IInv'
<1>1. /\ config.kind \in Sized /\ max' = machine.total /\ value' = machine.used
      /\ previous' = previous /\ slack' = slack
  BY DEF MeasureSized
<1>2. /\ config.kind \notin {"cpu_usage", "load_average", "network_load",
                             "disk_statistics", "generic"}
  BY <1>1 DEF Sized
<1>3. machine.total \in Shown /\ machine.used \in Shown /\ machine.used <= machine.total
  BY <1>1 DEF IInv, MachineOK
<1>4. KeptOK' /\ OwedOK'
  BY <1>1, <1>2 DEF IInv, KeptOK, OwedOK, NetworkOwed, DiskOwed, FileOwed
<1>5. ValueOK' /\ max' \in Nat
  BY <1>1, <1>2, <1>3, Numbers DEF ValueOK
<1>6. OnScale'
  BY <1>1, <1>2, <1>3, Numbers, Scaled
<1>7. QED BY <1>4, <1>5, <1>6, Measured

LEMMA MeasureLoadKeeps ==
  ASSUME IInv, MeasureLoad, switched' = FALSE, UNCHANGED <<config, machine>> PROVE IInv'
<1>1. /\ config.kind = "load_average" /\ max' = FollowLoad(machine)
      /\ value' = IF max' > 0 THEN machine ELSE 0
      /\ previous' = previous /\ slack' = slack
  BY DEF MeasureLoad
<1>2. machine \in Shown /\ machine \in Nat /\ 0 \in Shown /\ max \in Nat
  BY <1>1, Numbers DEF IInv, MachineOK, Shown
<1>3. KeptOK' /\ OwedOK'
  BY <1>1 DEF IInv, KeptOK, OwedOK, NetworkOwed, DiskOwed, FileOwed
<1>4. ValueOK'
  BY <1>1, <1>2 DEF ValueOK
<1>5. CASE config.fixed
  <2>1. max' = max
    BY <1>1, <1>5 DEF FollowLoad
  <2>2. OnScale'
    BY <1>1, <1>5 DEF OnScale
  <2>3. QED BY <1>2, <1>3, <1>4, <2>1, <2>2, Measured
<1>6. CASE ~ config.fixed
  <2>1. max' \in Nat /\ 1000 * machine <= max'
    BY <1>1, <1>2, <1>6, FollowLoadCovers
  <2>2. 1000 * value' <= max'
    BY <1>1, <1>2, <2>1
  <2>3. OnScale'
    BY <1>1, <2>2 DEF OnScale
  <2>4. QED BY <1>3, <1>4, <2>1, <2>3, Measured
<1>7. QED BY <1>5, <1>6

LEMMA MeasureSensorKeeps ==
  ASSUME IInv, MeasureSensor, switched' = FALSE, UNCHANGED <<config, machine>> PROVE IInv'
<1>1. /\ config.kind \in Sensed /\ value' = IF machine = None THEN 0 ELSE machine
      /\ max' = IF ~ config.fixed /\ value' > max THEN value' ELSE max
      /\ previous' = previous /\ slack' = slack
  BY DEF MeasureSensor
<1>2. /\ config.kind \notin {"cpu_usage", "load_average", "network_load",
                             "disk_statistics", "generic"}
  BY <1>1 DEF Sensed
<1>3. value' \in Shown /\ value' \in Nat /\ max \in Nat
  BY <1>1, Numbers DEF IInv, MachineOK, Shown
<1>4. KeptOK' /\ OwedOK'
  BY <1>1, <1>2 DEF IInv, KeptOK, OwedOK, NetworkOwed, DiskOwed, FileOwed
<1>5. ValueOK' /\ max' \in Nat
  BY <1>1, <1>2, <1>3 DEF ValueOK
<1>6. config.fixed \/ value' <= max'
  <2>1. CASE config.fixed BY <2>1
  <2>2. CASE ~ config.fixed
    <3>1. max' = IF value' > max THEN value' ELSE max
      BY <1>1, <2>2
    <3>2. QED BY <1>3, <3>1
  <2>3. QED BY <2>1, <2>2
<1>7. OnScale'
  <2>1. config.kind \notin {"load_average", "generic"} /\ config' = config
    BY <1>2
  <2>2. QED BY <1>6, <2>1, Scaled, Zenon
<1>8. QED BY <1>4, <1>5, <1>7, Measured

\* What a network reports is what was owed, or nothing.
LEMMA MeasureNetworkKeeps ==
  ASSUME IInv, MeasureNetwork, switched' = FALSE, UNCHANGED <<config, machine>> PROVE IInv'
<1> DEFINE bytes == machine.bytes[machine.name]
<1>1. /\ config.kind = "network_load" /\ value' = NetworkValue(bytes) /\ previous' = bytes
      /\ max' = FollowUnlessFixed(value', 1)
      /\ slack' = IF switched THEN 0 ELSE slack - value'
  BY DEF MeasureNetwork
<1>2. bytes \in Shown /\ previous \in Shown /\ max \in Nat /\ slack \in Nat
  BY <1>1 DEF IInv, MachineOK, KeptOK, OwedOK
<1>3. ~ switched /\ previous # 0 => bytes - previous <= slack
  BY <1>1 DEF IInv, OwedOK, NetworkOwed
<1> HIDE DEF bytes
<1>4. value' \in Shown /\ value' \in Nat /\ value' # NaN
  BY <1>1, <1>2, Numbers DEF NetworkValue, Shown
<1>5. slack' \in Nat
  BY <1>1, <1>2, <1>3, <1>4, Numbers DEF NetworkValue, Shown
<1>6. OwedOK'
  <2>1. (machine.bytes[machine.name])' = bytes
    BY DEF bytes
  <2>2. NetworkOwed'
    BY <1>1, <1>2, <1>5, <2>1, Numbers DEF NetworkOwed, Shown
  <2>3. QED BY <1>1, <1>5, <2>2 DEF OwedOK, DiskOwed, FileOwed
<1>7. KeptOK' /\ ValueOK'
  BY <1>1, <1>2, <1>4 DEF KeptOK, ValueOK
<1>8. max' \in Nat /\ (~ config.fixed => value' <= max')
  <2>1. Follow(max, value', 1) \in Nat /\ value' <= Follow(max, value', 1)
    <3>1. max \in Nat /\ value' \in Int
      BY <1>2, <1>4
    <3>2. QED BY <3>1, FollowCoversWhole, Zenon
  <2>2. QED BY <1>1, <1>2, <2>1 DEF FollowUnlessFixed
<1>9. OnScale'
  BY <1>1, <1>4, <1>8 DEF OnScale
<1>10. QED BY <1>6, <1>7, <1>8, <1>9, Measured

LEMMA MeasureDiskKeeps ==
  ASSUME IInv, MeasureDisk, switched' = FALSE, UNCHANGED <<config, machine>> PROVE IInv'
<1>1. config.kind = "disk_statistics" /\ previous \in Shown \cup {None} /\ max \in Nat
      /\ machine \in Shown \cup {None} /\ slack \in Nat /\ 0 \in Shown
  BY Numbers DEF MeasureDisk, IInv, MachineOK, KeptOK, OwedOK, Shown
<1>2. config.rate /\ machine # None /\ previous # None => machine - previous <= slack
  BY <1>1 DEF IInv, OwedOK, DiskOwed
<1>3. CASE machine = None \/ config.missing
  <2>1. value' \in {0, NaN} /\ previous' = previous /\ max' = max /\ slack' = slack
    BY <1>3 DEF MeasureDisk
  <2>2. KeptOK' /\ ValueOK' /\ OwedOK'
    BY <1>1, <1>2, <2>1 DEF KeptOK, ValueOK, OwedOK, NetworkOwed, DiskOwed, FileOwed
  <2>3. OnScale'
    <3>1. value' = NaN \/ value' <= max'
      BY <1>1, <2>1
    <3>2. config.kind \notin {"load_average", "generic"} /\ config' = config
      BY <1>1
    <3>3. QED BY <3>1, <3>2, Scaled, Zenon
  <2>4. QED BY <1>1, <2>1, <2>2, <2>3, Measured
<1>4. CASE machine # None /\ ~ config.missing
  <2> DEFINE val == IF ~ config.rate THEN machine
                    ELSE IF previous = None THEN 0 ELSE machine - previous
  <2>1. /\ previous' = IF config.rate THEN machine ELSE previous
        /\ max' = FollowUnlessFixed(val, 1)
        /\ value' = IF val < 0 THEN 0 ELSE val
        /\ slack' = IF config.rate THEN slack - value' ELSE slack
    BY <1>4 DEF MeasureDisk, AtLeastZero
  <2>2. machine \in Shown /\ machine \in Nat
    BY <1>1, <1>4, Numbers
  <2>3. previous # None => previous \in Shown /\ previous \in Nat
    BY <1>1, Numbers
  <2>4. val \in Int /\ val # NaN /\ val <= Limit
    <3>1. CASE ~ config.rate
      BY <2>2, <3>1, Numbers DEF Shown
    <3>2. CASE config.rate /\ previous = None
      BY <1>1, <3>2, Numbers DEF Shown
    <3>3. CASE config.rate /\ previous # None
      <4>1. machine - previous \in Int /\ machine - previous # NaN
        BY <2>2, <2>3, <3>3, Numbers
      <4>2. machine - previous <= Limit
        BY <2>2, <2>3, <3>3, Numbers DEF Shown
      <4>3. QED BY <3>3, <4>1, <4>2
    <3>4. QED BY <3>1, <3>2, <3>3
  <2>5. config.rate => val <= slack
    BY <1>1, <1>2, <1>4, <2>2, <2>3
  <2> HIDE DEF val
  <2>6. value' \in Shown /\ value' \in Nat /\ slack' \in Nat
    BY <1>1, <2>1, <2>4, <2>5, Numbers DEF Shown
  <2>7. max' \in Nat /\ (~ config.fixed => val <= max')
    BY <1>1, <2>1, <2>4, FollowCoversWhole DEF FollowUnlessFixed
  <2>8. OnScale'
    BY <1>1, <2>1, <2>4, <2>6, <2>7 DEF OnScale
  <2>9. DiskOwed'
    BY <1>1, <1>2, <1>4, <2>1, <2>2, <2>3, <2>6 DEF DiskOwed
  <2>10. KeptOK' /\ ValueOK' /\ OwedOK'
    BY <1>1, <2>1, <2>2, <2>6, <2>9 DEF KeptOK, ValueOK, OwedOK, NetworkOwed, FileOwed
  <2>11. QED BY <2>7, <2>8, <2>10, Measured
<1>5. QED BY <1>3, <1>4

\* What is owed after a step, in terms of the settings, which no step changes.
LEMMA FileOwedNext ==
  ASSUME config' = config, NEW p, NEW n, previous' = p, machine'.number = n,
         config.follow /\ p # None => Change(p, n) <= slack'
  PROVE  FileOwed'
BY DEF FileOwed, Change

LEMMA ChangeInRange ==
  ASSUME config \in Configs, config.kind = "generic", NEW a \in Readings, NEW b \in Readings
  PROVE  Change(a, b) \in 0 .. 2 * Limit
<1>1. /\ a \in Int /\ b \in Int /\ Limit \in Nat
      /\ - Limit <= a /\ a <= Limit /\ - Limit <= b /\ b <= Limit
  BY Numbers DEF Readings
<1>2. config.dir \in {"positive", "negative", "both"}
  BY MetersAssumption
<1>3. CASE config.dir = "positive"
  BY <1>1, <1>3 DEF Change
<1>4. CASE config.dir = "negative"
  BY <1>1, <1>4 DEF Change
<1>5. CASE config.dir = "both"
  BY <1>1, <1>5 DEF Change
<1>6. QED BY <1>2, <1>3, <1>4, <1>5

LEMMA MeasureGenericKeeps ==
  ASSUME IInv, MeasureGeneric, switched' = FALSE, UNCHANGED <<config, machine>> PROVE IInv'
<1> DEFINE val == machine.number
<1>1. /\ config.kind = "generic" /\ config \in Configs
      /\ previous \in Readings \cup {None} /\ max \in Nat
      /\ val \in Readings /\ val \in Int /\ val # NaN /\ val # None
      /\ slack \in Nat /\ 0 \in 0 .. 2 * Limit
  <2>1. config.kind = "generic" /\ config \in Configs
    BY DEF MeasureGeneric, IInv
  <2>2. previous \in Readings \cup {None} /\ max \in Nat /\ val \in Readings /\ slack \in Nat
    BY <2>1 DEF IInv, MachineOK, KeptOK, OwedOK
  <2>3. val \in Int /\ val # NaN /\ val # None /\ 0 \in 0 .. 2 * Limit
    <3>1. val # None /\ val # NaN
      BY <2>2, Numbers, Zenon
    <3>2. val \in Int
      BY <2>2, Numbers, Zenon
    <3>3. 0 \in 0 .. 2 * Limit
      BY Numbers
    <3>4. QED BY <3>1, <3>2, <3>3, Zenon
  <2>4. QED BY <2>1, <2>2, <2>3
<1>2. config.follow /\ previous # None => Change(previous, val) <= slack
  BY <1>1 DEF IInv, OwedOK, FileOwed
<1>3. config.kind \notin {"cpu_usage", "load_average", "network_load", "disk_statistics"}
      /\ config' = config /\ machine'.number = val
  BY <1>1
<1>4. /\ FollowUnlessFixed(val, Parts) \in Nat
      /\ config.fixed \/ val < Parts * (FollowUnlessFixed(val, Parts) + 1)
  <2>1. /\ Follow(max, val, Parts) \in Nat
        /\ val < Parts * (Follow(max, val, Parts) + 1)
    BY <1>1, Numbers, FollowCovers
  <2>2. QED BY <1>1, <2>1 DEF FollowUnlessFixed
<1>5. \A n \in Nat : 0 < Parts * (n + 1)
  BY Numbers
<1>6. CASE Contents = None \/ ~ config.follow
  <2>1. /\ previous' = previous /\ slack' = slack
        /\ \/ value' = 0 /\ max' = max
           \/ value' = (IF val < 0 THEN 0 ELSE val) /\ max' = FollowUnlessFixed(val, Parts)
    BY <1>6, <1>1 DEF MeasureGeneric, Contents, AtLeastZero
  <2>2. max' \in Nat /\ (config.fixed \/ value' < Parts * (max' + 1))
    <3>1. CASE value' = 0 /\ max' = max
      BY <1>1, <1>5, <3>1
    <3>2. CASE value' = (IF val < 0 THEN 0 ELSE val) /\ max' = FollowUnlessFixed(val, Parts)
      <4>1. CASE val < 0
        BY <1>4, <1>5, <3>2, <4>1
      <4>2. CASE ~ val < 0
        <5>1. value' = val
          BY <3>2, <4>2
        <5>2. QED BY <1>4, <3>2, <5>1
      <4>3. QED BY <4>1, <4>2
    <3>3. QED BY <2>1, <3>1, <3>2
  <2>3. value' \in 0 .. 2 * Limit
    <3>1. val <= Limit /\ Limit \in Nat
      BY <1>1, Numbers DEF Readings
    <3>2. QED BY <1>1, <2>1, <3>1
  <2>4. FileOwed'
    BY <1>2, <1>3, <2>1, FileOwedNext
  <2>5. KeptOK' /\ ValueOK' /\ OwedOK'
    BY <1>1, <1>3, <2>1, <2>3, <2>4 DEF KeptOK, ValueOK, OwedOK, NetworkOwed, DiskOwed
  <2>6. OnScale'
    BY <1>1, <1>3, <2>2, ScaledFile
  <2>7. QED BY <2>2, <2>5, <2>6, Measured
<1>7. CASE Contents # None /\ config.follow
  <2>1. /\ previous' = val /\ slack' = slack - value' /\ max' = FollowUnlessFixed(val, Parts)
        /\ value' = IF previous = None THEN 0 ELSE Change(previous, val)
    BY <1>7 DEF MeasureGeneric, Contents
  <2>2. value' \in 0 .. 2 * Limit
    BY <1>1, <2>1, ChangeInRange
  <2>3. value' \in Nat
    BY <2>2, Numbers
  <2>4. slack' \in Nat
    BY <1>1, <1>2, <1>7, <2>1, <2>3
  <2>5. Change(val, val) = 0
    BY <1>1, ChangesAddUp
  <2>6. FileOwed'
    BY <1>3, <2>1, <2>4, <2>5, FileOwedNext
  <2>7. KeptOK' /\ ValueOK' /\ OwedOK'
    BY <1>1, <1>3, <2>1, <2>2, <2>4, <2>6 DEF KeptOK, ValueOK, OwedOK, NetworkOwed, DiskOwed
  <2>8. OnScale'
    BY <1>1, <1>3, <1>7, ScaledFile
  <2>9. QED BY <1>4, <2>1, <2>7, <2>8, Measured
<1>8. QED BY <1>6, <1>7

LEMMA MeasureKeeps == ASSUME IInv, Measure PROVE IInv'
<1>1. switched' = FALSE /\ config' = config /\ machine' = machine
  BY DEF Measure
<1>2. CASE MeasureCpu BY <1>1, <1>2, MeasureCpuKeeps
<1>3. CASE MeasureSized BY <1>1, <1>3, MeasureSizedKeeps
<1>4. CASE MeasureLoad BY <1>1, <1>4, MeasureLoadKeeps
<1>5. CASE MeasureSensor BY <1>1, <1>5, MeasureSensorKeeps
<1>6. CASE MeasureNetwork BY <1>1, <1>6, MeasureNetworkKeeps
<1>7. CASE MeasureDisk BY <1>1, <1>7, MeasureDiskKeeps
<1>8. CASE MeasureGeneric BY <1>1, <1>8, MeasureGenericKeeps
<1>9. QED BY <1>2, <1>3, <1>4, <1>5, <1>6, <1>7, <1>8 DEF Measure
--------------------------------------------------------------------------
\* What the machine's steps have to leave.
LEMMA Happened ==
  ASSUME IInv, UNCHANGED <<config, previous, value, max>>, switched' \in BOOLEAN,
         MachineOK', OwedOK'
  PROVE  IInv'
<1>1. KeptOK' /\ ValueOK' /\ OnScale'
  BY DEF IInv, KeptOK, ValueOK, OnScale
<1>2. QED BY <1>1 DEF IInv

LEMMA CpuRunsKeeps ==
  ASSUME IInv, CpuRuns, UNCHANGED <<config, previous, value, max>> PROVE IInv'
<1>1. config.kind = "cpu_usage" /\ slack' = slack /\ machine \in [Ticks -> Shown]
      /\ switched \in BOOLEAN
  BY DEF CpuRuns, IInv, MachineOK
<1>2. PICK t \in Ticks :
        \/ machine[t] < Limit /\ machine' = [machine EXCEPT ![t] = @ + 1] /\ switched' = switched
        \/ machine[t] > 0 /\ machine' = [machine EXCEPT ![t] = @ - 1] /\ switched' = TRUE
  BY DEF CpuRuns
<1>3. machine[t] \in 0 .. Limit /\ Limit \in Nat
  BY <1>1, Numbers DEF Shown
<1>4. (machine[t] < Limit => machine[t] + 1 \in Shown)
      /\ (machine[t] > 0 => machine[t] - 1 \in Shown)
  BY <1>3 DEF Shown
<1>5. machine' \in [Ticks -> Shown]
  BY <1>1, <1>2, <1>4
<1>6. MachineOK'
  BY <1>1, <1>5 DEF MachineOK, Sized, Sensed
<1>7. OwedOK'
  BY <1>1 DEF IInv, OwedOK, NetworkOwed, DiskOwed, FileOwed
<1>8. switched' \in BOOLEAN
  BY <1>1, <1>2
<1>9. QED BY <1>6, <1>7, <1>8, Happened

LEMMA ReadingsKeep ==
  ASSUME IInv, SizeChanges \/ ReadingChanges, UNCHANGED <<config, previous, value, max>>
  PROVE  IInv'
<1>1. config.kind \in Sized \cup Sensed \cup {"load_average"}
      /\ slack' = slack /\ switched' = switched
  BY DEF SizeChanges, ReadingChanges
<1>2. config.kind \notin {"cpu_usage", "network_load", "disk_statistics", "generic"}
  BY <1>1 DEF Sized, Sensed
<1>3. config.kind \in Sized =>
        machine'.total \in Shown /\ machine'.used \in Shown /\ machine'.used <= machine'.total
  <2> SUFFICES ASSUME config.kind \in Sized
               PROVE  machine'.total \in Shown /\ machine'.used \in Shown
                      /\ machine'.used <= machine'.total
    OBVIOUS
  <2>1. SizeChanges
    BY DEF ReadingChanges, Sized, Sensed
  <2>2. PICK total \in Shown :
          \E used \in 0 .. total : machine' = [total |-> total, used |-> used]
    BY <2>1 DEF SizeChanges
  <2>3. PICK used \in 0 .. total : machine' = [total |-> total, used |-> used]
    BY <2>2
  <2>4. used \in Shown /\ used <= total
    BY Numbers DEF Shown
  <2>5. QED BY <2>3, <2>4
<1>4. /\ config.kind = "load_average" => machine' \in Shown
      /\ config.kind \in Sensed => machine' \in Shown \cup {None}
  BY DEF SizeChanges, ReadingChanges, Sized, Sensed
<1>5. MachineOK'
  BY <1>2, <1>3, <1>4 DEF MachineOK
<1>6. OwedOK'
  BY <1>1, <1>2 DEF IInv, OwedOK, NetworkOwed, DiskOwed, FileOwed
<1>7. switched' \in BOOLEAN
  BY <1>1 DEF IInv
<1>8. QED BY <1>5, <1>6, <1>7, Happened

\* An interface that is not the monitor's counts for nothing; one that is reset is below
\* what was read of it.
LEMMA NetworkKeeps ==
  ASSUME IInv, Traffic \/ Rename, UNCHANGED <<config, previous, value, max>>
  PROVE  IInv'
<1>1. /\ config.kind = "network_load" /\ previous \in Shown /\ slack \in Nat
      /\ machine \in [bytes : [Interfaces -> Shown], name : Interfaces]
      /\ switched \in BOOLEAN
  BY DEF Traffic, Rename, IInv, MachineOK, KeptOK, OwedOK
<1>2. ~ switched /\ previous # 0 => machine.bytes[machine.name] - previous <= slack
  BY <1>1 DEF IInv, OwedOK, NetworkOwed
<1>3. previous \in Nat /\ \A i \in Interfaces : machine.bytes[i] \in 0 .. Limit
  BY <1>1, Numbers DEF Shown
<1>4. CASE Traffic
  <2>1. PICK i \in Interfaces :
          \/ /\ machine.bytes[i] < Limit
             /\ machine' = [machine EXCEPT !.bytes[i] = @ + 1]
             /\ Move(IF i = machine.name THEN 1 ELSE 0)
          \/ /\ machine.bytes[i] > 0
             /\ machine' = [machine EXCEPT !.bytes[i] = 0]
             /\ slack' = slack
    BY <1>4 DEF Traffic
  <2>2. switched' = switched
    BY <1>4 DEF Traffic
  <2>3. PICK b \in Shown : /\ machine' = [machine EXCEPT !.bytes[i] = b]
                           /\ \/ b = 0 /\ slack' = slack
                              \/ b = machine.bytes[i] + 1
                                 /\ slack' = slack + (IF i = machine.name THEN 1 ELSE 0)
    <3>1. machine.bytes[i] \in 0 .. Limit /\ Limit \in Nat
      BY <1>3, Numbers
    <3>2. CASE machine.bytes[i] < Limit /\ machine' = [machine EXCEPT !.bytes[i] = @ + 1]
               /\ Move(IF i = machine.name THEN 1 ELSE 0)
      <4>1. machine.bytes[i] + 1 \in Shown
        BY <3>1, <3>2 DEF Shown
      <4>2. QED BY <3>2, <4>1 DEF Move
    <3>3. CASE machine' = [machine EXCEPT !.bytes[i] = 0] /\ slack' = slack
      <4>1. 0 \in Shown
        BY <3>1 DEF Shown
      <4>2. QED BY <3>3, <4>1
    <3>4. QED BY <2>1, <3>2, <3>3
  <2>4. /\ machine'.name = machine.name /\ machine'.bytes[i] = b
        /\ \A j \in Interfaces \ {i} : machine'.bytes[j] = machine.bytes[j]
        /\ machine' \in [bytes : [Interfaces -> Shown], name : Interfaces]
    BY <1>1, <2>3
  <2>5. slack' \in Nat
    BY <1>1, <2>3
  <2>6. NetworkOwed'
    <3> SUFFICES ASSUME ~ switched, previous # 0
                 PROVE  machine'.bytes[machine.name] - previous <= slack'
      BY <2>2, <2>4 DEF NetworkOwed
    <3>1. machine.name \in Interfaces /\ machine.bytes[machine.name] - previous <= slack
          /\ machine.bytes[machine.name] \in Nat
      BY <1>1, <1>2, <1>3
    <3>2. CASE i = machine.name
      BY <1>1, <1>3, <2>3, <2>4, <3>1, <3>2
    <3>3. CASE i # machine.name
      BY <1>1, <1>3, <2>3, <2>4, <3>1, <3>3
    <3>4. QED BY <3>2, <3>3
  <2>7. OwedOK'
    BY <1>1, <2>5, <2>6 DEF OwedOK, DiskOwed, FileOwed
  <2>8. MachineOK'
    BY <1>1, <2>4 DEF MachineOK, Sized, Sensed
  <2>9. QED BY <1>1, <2>2, <2>7, <2>8, Happened
<1>5. CASE Rename
  <2>1. PICK i \in Interfaces : machine' = [machine EXCEPT !.name = i]
    BY <1>5 DEF Rename
  <2>2. switched' = TRUE /\ slack' = slack
    BY <1>5 DEF Rename
  <2>3. machine' \in [bytes : [Interfaces -> Shown], name : Interfaces]
    BY <1>1, <2>1
  <2>4. MachineOK'
    BY <1>1, <2>3 DEF MachineOK, Sized, Sensed
  <2>5. OwedOK'
    BY <1>1, <2>2 DEF OwedOK, NetworkOwed, DiskOwed, FileOwed
  <2>6. QED BY <2>2, <2>4, <2>5, Happened
<1>6. QED BY <1>4, <1>5

\* A disk that comes back starts to count at 0, below what was read of it.
LEMMA DiskWorksKeeps ==
  ASSUME IInv, DiskWorks, UNCHANGED <<config, previous, value, max>> PROVE IInv'
<1>1. /\ config.kind = "disk_statistics" /\ switched' = switched /\ switched \in BOOLEAN
      /\ machine \in Shown \cup {None} /\ previous \in Shown \cup {None} /\ slack \in Nat
  BY DEF DiskWorks, IInv, MachineOK, KeptOK, OwedOK
<1>2. config.rate /\ machine # None /\ previous # None => machine - previous <= slack
  BY <1>1 DEF IInv, OwedOK, DiskOwed
<1>3. previous # None => previous \in Nat
  BY <1>1, Numbers
<1>4. CASE machine # None /\ machine < Limit /\ machine' = machine + 1
           /\ (IF config.rate THEN Move(1) ELSE slack' = slack)
  <2>1. machine \in 0 .. Limit /\ Limit \in Nat
    BY <1>1, <1>4, Numbers DEF Shown
  <2>2. machine' \in Shown
    BY <1>4, <2>1 DEF Shown
  <2>3. MachineOK'
    BY <1>1, <2>2 DEF MachineOK, Sized, Sensed
  <2>4. OwedOK'
    <3>1. CASE config.rate
      <4>1. slack' = slack + 1
        BY <1>4, <3>1 DEF Move
      <4>2. DiskOwed'
        BY <1>1, <1>2, <1>3, <1>4, <2>1, <4>1 DEF DiskOwed
      <4>3. QED BY <1>1, <4>1, <4>2 DEF OwedOK, NetworkOwed, FileOwed
    <3>2. CASE ~ config.rate
      BY <1>1, <1>4, <3>2 DEF OwedOK, NetworkOwed, DiskOwed, FileOwed
    <3>3. QED BY <3>1, <3>2
  <2>5. QED BY <1>1, <2>3, <2>4, Happened
<1>5. CASE machine' \in {None, 0} /\ slack' = slack
  <2>1. 0 \in Shown
    BY Numbers DEF Shown
  <2>2. MachineOK'
    BY <1>1, <1>5, <2>1 DEF MachineOK, Sized, Sensed
  <2>3. DiskOwed'
    BY <1>1, <1>3, <1>5 DEF DiskOwed
  <2>4. OwedOK'
    BY <1>1, <1>5, <2>3 DEF OwedOK, NetworkOwed, FileOwed
  <2>5. QED BY <1>1, <2>2, <2>4, Happened
<1>6. QED BY <1>4, <1>5 DEF DiskWorks

\* The number that the file shows moves by at least the change that is counted of it.
LEMMA FileChangesKeep ==
  ASSUME IInv, FileChanges, UNCHANGED <<config, previous, value, max>> PROVE IInv'
<1>1. /\ config.kind = "generic" /\ config \in Configs /\ config' = config
      /\ machine \in [number : Readings, readable : BOOLEAN]
      /\ previous' = previous /\ previous \in Readings \cup {None} /\ slack \in Nat
      /\ switched' = switched /\ switched \in BOOLEAN
  BY DEF FileChanges, IInv, MachineOK, KeptOK, OwedOK
<1>2. config.follow /\ previous # None => Change(previous, machine.number) <= slack
  BY <1>1 DEF IInv, OwedOK, FileOwed
<1>3. CASE \E n \in Readings :
             /\ machine' = [machine EXCEPT !.number = n]
             /\ Move(IF config.follow THEN Change(machine.number, n) ELSE 0)
  <2>1. PICK n \in Readings :
          /\ machine' = [machine EXCEPT !.number = n]
          /\ Move(IF config.follow THEN Change(machine.number, n) ELSE 0)
    BY <1>3
  <2>2. machine' \in [number : Readings, readable : BOOLEAN] /\ machine'.number = n
    BY <1>1, <2>1
  <2>3. machine.number \in Int /\ n \in Int /\ (previous # None => previous \in Int)
    BY <1>1, Numbers
  <2>4. slack' \in Nat /\ FileOwed'
    <3>1. CASE config.follow
      <4>1. Change(machine.number, n) \in Nat
        BY <1>1, <2>3, ChangesAddUp
      <4>2. slack' = slack + Change(machine.number, n)
        BY <2>1, <3>1 DEF Move
      <4>3. slack' \in Nat
        BY <1>1, <4>1, <4>2
      <4>4. previous # None => Change(previous, n) <= slack'
        <5> SUFFICES ASSUME previous # None PROVE Change(previous, n) <= slack'
          OBVIOUS
        <5>1. /\ Change(previous, machine.number) \in Nat /\ Change(previous, n) \in Nat
              /\ Change(previous, n)
                   <= Change(previous, machine.number) + Change(machine.number, n)
          BY <1>1, <2>3, ChangesAddUp
        <5>2. Change(previous, machine.number) <= slack
          BY <1>2, <3>1
        <5>3. QED BY <1>1, <4>1, <4>2, <5>1, <5>2
      <4>5. FileOwed'
        BY <1>1, <2>2, <4>4, FileOwedNext
      <4>6. QED BY <4>3, <4>5
    <3>2. CASE ~ config.follow
      <4>1. slack' = slack + 0
        BY <2>1, <3>2 DEF Move
      <4>2. slack' \in Nat /\ FileOwed'
        BY <1>1, <3>2, <4>1 DEF FileOwed
      <4>3. QED BY <4>2
    <3>3. QED BY <3>1, <3>2
  <2>5. OwedOK'
    BY <1>1, <2>4 DEF OwedOK, NetworkOwed, DiskOwed
  <2>6. MachineOK'
    BY <1>1, <2>2 DEF MachineOK, Sized, Sensed
  <2>7. QED BY <1>1, <2>5, <2>6, Happened
<1>4. CASE machine' = [machine EXCEPT !.readable = ~ @] /\ slack' = slack
  <2>1. machine' \in [number : Readings, readable : BOOLEAN]
        /\ machine'.number = machine.number
    BY <1>1, <1>4
  <2>2. FileOwed'
    BY <1>1, <1>2, <1>4, <2>1, FileOwedNext
  <2>3. OwedOK'
    BY <1>1, <1>4, <2>2 DEF OwedOK, NetworkOwed, DiskOwed
  <2>4. MachineOK'
    BY <1>1, <2>1 DEF MachineOK, Sized, Sensed
  <2>5. QED BY <1>1, <2>3, <2>4, Happened
<1>5. QED BY <1>3, <1>4 DEF FileChanges

LEMMA OutsideKeeps == ASSUME IInv, Outside PROVE IInv'
<1>1. UNCHANGED <<config, previous, value, max>>
  BY DEF Outside
<1>2. CASE CpuRuns BY <1>1, <1>2, CpuRunsKeeps
<1>3. CASE SizeChanges \/ ReadingChanges BY <1>1, <1>3, ReadingsKeep
<1>4. CASE Traffic \/ Rename BY <1>1, <1>4, NetworkKeeps
<1>5. CASE DiskWorks BY <1>1, <1>5, DiskWorksKeeps
<1>6. CASE FileChanges BY <1>1, <1>6, FileChangesKeep
<1>7. QED BY <1>2, <1>3, <1>4, <1>5, <1>6 DEF Outside
--------------------------------------------------------------------------
\* What a constructor leaves: nothing measured, nothing owed.
LEMMA InitIInv == Init => IInv
<1> SUFFICES ASSUME Init PROVE IInv
  OBVIOUS
<1>1. /\ config \in Configs /\ machine \in Found /\ previous = Kept /\ max = config.max
      /\ value = (IF config.kind = "cpu_usage" THEN <<0, 1>> ELSE 0)
      /\ slack = 0 /\ switched = FALSE
  BY DEF Init
<1>2. max \in Nat
  BY <1>1, MetersAssumption
<1>3. 0 \in Shown /\ 0 \in 0 .. 2 * Limit /\ \A n \in Shown : n \in Nat
  BY Numbers DEF Shown
<1>4. MachineOK
  BY <1>1, <1>3 DEF Found, MachineOK, Sized, Sensed
<1>5. /\ config.kind = "cpu_usage" => previous = [t \in Ticks |-> 0]
      /\ config.kind = "network_load" => previous = 0
      /\ config.kind \notin {"cpu_usage", "network_load"} => previous = None
  BY <1>1 DEF Kept
<1>6. [t \in Ticks |-> 0] \in [Ticks -> Shown]
  BY <1>3
<1>7. KeptOK /\ ValueOK
  BY <1>1, <1>3, <1>5, <1>6 DEF KeptOK, ValueOK
<1>8. OwedOK
  BY <1>1, <1>5 DEF OwedOK, NetworkOwed, DiskOwed, FileOwed
<1>9. OnScale
  <2>1. 0 < Parts * (max + 1) /\ 1000 * 0 <= max
    BY <1>2, Numbers
  <2>2. QED BY <1>1, <1>2, <2>1 DEF OnScale
<1>10. QED BY <1>1, <1>2, <1>4, <1>7, <1>8, <1>9 DEF IInv

LEMMA StepIInv == IInv /\ [Next]_vars => IInv'
<1>1. ASSUME IInv, Measure PROVE IInv'
  BY <1>1, MeasureKeeps
<1>2. ASSUME IInv, Outside PROVE IInv'
  BY <1>2, OutsideKeeps
<1>3. ASSUME IInv, UNCHANGED vars PROVE IInv'
  <2>1. UNCHANGED <<config, machine, previous, value, max, slack, switched>>
    BY <1>3 DEF vars
  <2>2. MachineOK'
    BY <1>3, <2>1 DEF IInv, MachineOK
  <2>3. OwedOK'
    BY <1>3, <2>1, FileOwedNext DEF IInv, OwedOK, NetworkOwed, DiskOwed, FileOwed
  <2>4. switched' \in BOOLEAN
    BY <1>3, <2>1 DEF IInv
  <2>5. QED BY <1>3, <2>1, <2>2, <2>3, <2>4, Happened
<1>4. QED BY <1>1, <1>2, <1>3 DEF Next

LEMMA Always == Spec => []IInv
BY InitIInv, StepIInv, PTL DEF Spec

\* Whatever a monitor reads, its value is a number of its kind and what it keeps is what
\* it read; the code has no check of either.
THEOREM TypeCorrect == Spec => []TypeOK
<1>1. IInv => TypeOK
  <2> SUFFICES ASSUME IInv PROVE TypeOK
    OBVIOUS
  <2>1. config \in Configs /\ max \in Nat /\ slack \in Int /\ switched \in BOOLEAN
    BY DEF IInv, OwedOK
  <2>2. KeptOK /\ ValueOK
    BY DEF IInv
  <2>3. CASE config.kind = "cpu_usage"
    BY <2>1, <2>2, <2>3 DEF KeptOK, ValueOK, TypeOK
  <2>4. CASE config.kind = "disk_statistics"
    BY <2>1, <2>2, <2>4 DEF KeptOK, ValueOK, TypeOK
  <2>5. CASE config.kind = "generic"
    BY <2>1, <2>2, <2>5 DEF KeptOK, ValueOK, TypeOK
  <2>6. CASE config.kind \notin {"cpu_usage", "disk_statistics", "generic"}
    BY <2>1, <2>2, <2>6 DEF KeptOK, ValueOK, TypeOK
  <2>7. QED BY <2>3, <2>4, <2>5, <2>6
<1>2. QED BY <1>1, Always, PTL

\* However often an interface is reset, a disk is pulled out, or a file is missing, the
\* changes that a monitor reports never exceed those of its counter.
THEOREM NeverMadeUp == Spec => []NothingMadeUp
<1>1. IInv => NothingMadeUp
  BY DEF IInv, OwedOK, NothingMadeUp
<1>2. QED BY <1>1, Always, PTL

\* A maximum that the monitor follows never falls behind its value, in whichever order
\* they rise, fall, and go missing: not at all where values are whole, and by less than
\* one where a file shows fractions or negative numbers.
THEOREM AllOnScale == Spec => []OnScale
<1>1. IInv => OnScale
  BY DEF IInv
<1>2. QED BY <1>1, Always, PTL

--------------------------------------------------------------------------
\* Only the iowait ticks are ever taken back, and then that is noted.
TicksGrow ==
  config.kind = "cpu_usage" =>
    /\ \A t \in Ticks \ {"iowait"} : previous[t] <= machine[t]
    /\ ~ switched => previous["iowait"] <= machine["iowait"]

\* Differences of counters in a word, and what a double makes of one that is negative.
LEMMA Wrapped ==
  ASSUME NEW a \in Int, NEW b \in Int, a - b <= 4 * Limit, - 4 * Limit <= a - b
  PROVE  /\ a >= b => Minus(a, b) = a - b /\ Double(Minus(a, b)) = a - b
         /\ a < b => Minus(a, b) = a - b + Word /\ Double(Minus(a, b)) = Word
<1> DEFINE x == a - b
<1>1. x \in Int /\ Word \in Nat \ {0} /\ Limit \in Nat /\ Word > 16 * Limit
  BY MetersAssumption
<1>2. Minus(a, b) = x % Word
  BY DEF Minus
<1>3. CASE x >= 0
  <2>1. x < Word
    BY <1>1
  <2>2. x % Word = x
    BY <1>1, <1>3, <2>1
  <2>3. Double(x) = x
    BY <1>1 DEF Double
  <2>4. QED BY <1>2, <1>3, <2>2, <2>3
<1>4. CASE x < 0
  <2>1. - Word < x
    BY <1>1
  <2>2. x % Word = x + Word
    BY <1>1, <1>4, <2>1
  <2>3. Double(x + Word) = Word
    BY <1>1, <2>1 DEF Double
  <2>4. QED BY <1>2, <1>4, <2>2, <2>3
<1>5. QED BY <1>1, <1>3, <1>4

\* The difference of a difference that has wrapped already.
LEMMA WrappedTwice ==
  ASSUME NEW d \in Int, NEW i \in Nat, NEW t,
         - Limit <= d, d <= 4 * Limit, i <= Limit, d < 0 \/ i <= d + Limit,
         t = IF d >= 0 THEN d ELSE d + Word
  PROVE  Double(Minus(t, i)) = IF d >= i THEN d - i ELSE Word
<1>1. Word \in Nat \ {0} /\ Limit \in Nat /\ Word > 16 * Limit
  BY MetersAssumption
<1>2. CASE d >= 0
  BY <1>1, <1>2, Wrapped
<1>3. CASE d < 0
  <2> DEFINE x == t - i
  <2>1. 0 <= x /\ x < Word /\ x \in Int
    BY <1>1, <1>3
  <2>2. Minus(t, i) = x
    BY <1>1, <2>1 DEF Minus
  <2>3. Double(x) = Word
    BY <1>1, <1>3 DEF Double
  <2>4. QED BY <1>1, <1>3, <2>2, <2>3
<1>4. QED BY <1>2, <1>3

\* The difference of two counts of one tick.
LEMMA TickDifference ==
  ASSUME NEW a \in 0 .. Limit, NEW b \in 0 .. Limit
  PROVE  /\ a - b >= 0 => Minus(a, b) = a - b /\ Double(Minus(a, b)) = a - b
         /\ a - b < 0 => Double(Minus(a, b)) = Word
<1>1. a \in Int /\ b \in Int /\ a - b <= 4 * Limit /\ - 4 * Limit <= a - b
  BY MetersAssumption
<1>2. QED BY <1>1, Wrapped

LEMMA WhollyUsed == IInv /\ TicksGrow => CpuFraction
<1> SUFFICES ASSUME IInv, TicksGrow, config.kind = "cpu_usage", ~ (config.iowait /\ switched)
             PROVE  CpuValue[1] <= CpuValue[2] /\ CpuValue[2] > 0
  BY DEF CpuFraction
<1> DEFINE d(t) == machine[t] - previous[t]
           total == Minus(Total(machine), Total(previous))
           sum == Total(machine) - Total(previous)
           busy == Double(Minus(total, Minus(machine["idle"], previous["idle"])))
           nice == Double(Minus(machine["nice"], previous["nice"]))
           iowait == Double(Minus(machine["iowait"], previous["iowait"]))
           used == busy - (IF config.low THEN 0 ELSE nice) - (IF config.iowait THEN 0 ELSE iowait)
<1>1. Word \in Nat \ {0} /\ Limit \in Nat /\ Word > 16 * Limit
  BY MetersAssumption
<1>2. \A t \in Ticks : machine[t] \in 0 .. Limit /\ previous[t] \in 0 .. Limit
  BY DEF IInv, MachineOK, KeptOK, Shown
<1>3. /\ d("user") \in 0 .. Limit /\ d("nice") \in 0 .. Limit /\ d("idle") \in 0 .. Limit
      /\ d("iowait") \in - Limit .. Limit /\ (config.iowait => d("iowait") >= 0)
  BY <1>1, <1>2 DEF TicksGrow, Ticks
<1>4. /\ Total(machine) \in Int /\ Total(previous) \in Int
      /\ sum = d("user") + d("nice") + d("idle") + d("iowait")
  BY <1>2 DEF Total, Ticks
<1>5. /\ sum >= 0 => total = sum /\ Double(total) = sum
      /\ sum < 0 => total = sum + Word /\ Double(total) = Word
  <2>1. - 4 * Limit <= sum /\ sum <= 4 * Limit
    BY <1>1, <1>3, <1>4
  <2>2. (sum >= 0 <=> Total(machine) >= Total(previous))
        /\ (sum < 0 <=> Total(machine) < Total(previous))
    BY <1>4
  <2>3. /\ Total(machine) >= Total(previous)
             => total = sum /\ Double(total) = sum
        /\ Total(machine) < Total(previous)
             => total = sum + Word /\ Double(total) = Word
    BY ONLY <1>4, <2>1, Wrapped
  <2>4. QED BY <2>2, <2>3
<1>6. nice = d("nice")
  <2>1. machine["nice"] \in 0 .. Limit /\ previous["nice"] \in 0 .. Limit
    BY <1>2 DEF Ticks
  <2>2. machine["nice"] - previous["nice"] >= 0
    BY <1>3, <1>1
  <2>3. QED BY <1>1, <2>1, <2>2, TickDifference
<1>7. /\ Minus(machine["idle"], previous["idle"]) = d("idle")
      /\ (d("iowait") >= 0 => iowait = d("iowait"))
      /\ (d("iowait") < 0 => iowait = Word)
  <2>1. /\ machine["idle"] \in 0 .. Limit /\ previous["idle"] \in 0 .. Limit
        /\ machine["iowait"] \in 0 .. Limit /\ previous["iowait"] \in 0 .. Limit
    BY <1>2 DEF Ticks
  <2>2. machine["idle"] - previous["idle"] >= 0
    BY <1>3, <1>1
  <2>3. Minus(machine["idle"], previous["idle"]) = machine["idle"] - previous["idle"]
    BY <1>1, <2>1, <2>2, TickDifference
  <2>4. /\ d("iowait") >= 0 => iowait = d("iowait")
        /\ d("iowait") < 0 => iowait = Word
    BY <1>1, <2>1, TickDifference
  <2>5. QED BY <2>3, <2>4
<1>8. busy = IF sum >= d("idle") THEN sum - d("idle") ELSE Word
  <2>1. sum \in Int /\ d("idle") \in Nat /\ d("idle") <= Limit
    BY <1>1, <1>3, <1>4
  <2>2. - Limit <= sum /\ sum <= 4 * Limit /\ (sum < 0 \/ d("idle") <= sum + Limit)
    BY <1>1, <1>3, <1>4
  <2>3. total = IF sum >= 0 THEN sum ELSE sum + Word
    BY <2>1, <1>5
  <2>4. Double(Minus(total, d("idle"))) = IF sum >= d("idle") THEN sum - d("idle") ELSE Word
    BY ONLY <2>1, <2>2, <2>3, WrappedTwice
  <2>5. QED BY <1>7, <2>4
<1>9. CpuValue = IF used > 0 THEN <<used, Double(total)>> ELSE <<0, 1>>
  BY DEF CpuValue
<1> HIDE DEF d, total, sum, busy, nice, iowait
<1>10. used > 0 => used <= Double(total) /\ Double(total) > 0
  <2>1. CASE d("iowait") >= 0
    BY <1>1, <1>3, <1>4, <1>5, <1>6, <1>7, <1>8, <2>1
  <2>2. CASE d("iowait") < 0
    <3>1. ~ config.iowait /\ iowait = Word
      BY <1>3, <1>7, <2>2
    <3>2. busy <= Word /\ busy \in Int
      BY <1>1, <1>3, <1>4, <1>8
    <3>3. ~ used > 0
      BY <1>1, <1>3, <1>6, <1>7, <3>1, <3>2
    <3>4. QED BY <3>3
  <2>3. QED BY <1>3, <2>1, <2>2
<1> HIDE DEF used
<1>11. QED BY <1>9, <1>10

LEMMA TicksGrowStep == IInv /\ TicksGrow /\ [Next]_vars => TicksGrow'
<1> SUFFICES ASSUME IInv, TicksGrow, [Next]_vars, config'.kind = "cpu_usage"
             PROVE  /\ \A t \in Ticks \ {"iowait"} : previous'[t] <= machine'[t]
                    /\ ~ switched' => previous'["iowait"] <= machine'["iowait"]
  BY DEF TicksGrow
<1>1. config' = config /\ config.kind = "cpu_usage"
  BY DEF Next, Measure, Outside, vars
<1>2. /\ \A t \in Ticks : machine[t] \in Nat /\ previous[t] \in Nat
      /\ machine \in [Ticks -> Shown]
  BY <1>1, Numbers DEF IInv, MachineOK, KeptOK
<1>3. /\ \A t \in Ticks \ {"iowait"} : previous[t] <= machine[t]
      /\ ~ switched => previous["iowait"] <= machine["iowait"]
  BY <1>1 DEF TicksGrow
<1>4. CASE Measure
  <2>1. MeasureCpu /\ machine' = machine
    BY <1>1, <1>4 DEF Measure, MeasureSized, MeasureLoad, MeasureSensor, MeasureNetwork,
                      MeasureDisk, MeasureGeneric, Sized, Sensed
  <2>2. previous' = machine'
    BY <2>1 DEF MeasureCpu
  <2>3. QED BY <1>2, <2>1, <2>2 DEF Ticks
<1>5. CASE Outside
  <2>1. CpuRuns /\ previous' = previous
    BY <1>1, <1>5 DEF Outside, SizeChanges, ReadingChanges, Traffic, Rename, DiskWorks,
                      FileChanges, Sized, Sensed
  <2>2. PICK t \in Ticks :
          \/ machine' = [machine EXCEPT ![t] = @ + 1] /\ switched' = switched
          \/ t = "iowait" /\ machine' = [machine EXCEPT ![t] = @ - 1] /\ switched' = TRUE
    BY <2>1 DEF CpuRuns
  <2>3. QED BY <1>2, <1>3, <2>1, <2>2 DEF Ticks
<1>6. CASE UNCHANGED vars
  BY <1>3, <1>6 DEF vars
<1>7. QED BY <1>4, <1>5, <1>6 DEF Next

\* A CPU is never used more than wholly although the differences of its ticks wrap, in the
\* dividend and in the divisor, when the kernel takes iowait ticks back.
THEOREM NeverMoreThanWholly == Spec => []CpuFraction
<1>1. Init => TicksGrow
  <2> SUFFICES ASSUME Init, config.kind = "cpu_usage"
               PROVE  \A t \in Ticks : previous[t] <= machine[t]
    BY DEF TicksGrow, Ticks
  <2>1. machine \in [Ticks -> Shown] /\ previous = [t \in Ticks |-> 0]
    BY InitIInv DEF Init, Kept, IInv, MachineOK
  <2>2. \A t \in Ticks : machine[t] \in Nat /\ previous[t] = 0
    BY <2>1, Numbers
  <2>3. QED BY <2>2
<1>2. QED BY <1>1, Always, TicksGrowStep, WhollyUsed, PTL DEF Spec
==========================================================================
