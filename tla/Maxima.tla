------------------------------- MODULE Maxima -------------------------------
(* max_value of the monitors that adapt it to what they measure: disk       *)
(* statistics, network load, and the numbers of generic monitors.           *)
EXTENDS Integers

(* Mutant: the maximum is reduced after it was raised. *)
MutFollow(m, val, parts) ==
  LET raised == IF val > parts * m THEN (val * 105) \div (100 * parts) ELSE m
  IN  IF val = 0 THEN raised ELSE (raised * 999) \div 1000

\* The maximum m, a whole number, is reduced by a thousandth unless the value is 0, and
\* raised beyond the value, in parts-ths, by a twentieth; a guint64 is made of it each time.
Follow(m, val, parts) ==
  LET kept == IF val = 0 THEN m ELSE (m * 999) \div 1000
  IN  IF val > parts * kept THEN (val * 105) \div (100 * parts) ELSE kept
=============================================================================
