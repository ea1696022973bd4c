------------------------------ MODULE MCMeters ------------------------------
(* Meters over every setting of every kind, with counters up to 3, halves   *)
(* in files, from -3 to 3 of them, and a word of seven bits for the ticks.  *)
EXTENDS Meters

MCConfigs ==
  {[kind |-> "cpu_usage", fixed |-> TRUE, max |-> 1, low |-> l, iowait |-> i] :
     l \in BOOLEAN, i \in BOOLEAN}
  \cup {[kind |-> k, fixed |-> FALSE, max |-> 0] : k \in Sized}
  \cup {[kind |-> k, fixed |-> f, max |-> 2] :
          k \in Sensed \cup {"load_average", "network_load"}, f \in BOOLEAN}
  \cup {[kind |-> "disk_statistics", fixed |-> f, max |-> 0, rate |-> r, missing |-> m] :
          f \in BOOLEAN, r \in BOOLEAN, m \in BOOLEAN}
  \cup {[kind |-> "generic", fixed |-> f, max |-> 0, follow |-> c, dir |-> d] :
          f \in BOOLEAN, c \in BOOLEAN, d \in {"positive", "negative", "both"}}
==========================================================================
