-------------------------- MODULE MCValueHistory --------------------------
(* ValueHistory over three sample values, one of them no number, a canvas  *)
(* with room for one to four samples, and a measurement every third tick.  *)
(* MCUnplugged: a statistic the kernel lacks (NaN), of a disk that comes   *)
(* and goes (0 while it is unplugged).                                     *)
EXTENDS ValueHistory

MCSamples == {NaN, 0, 1, 2}
MCUnplugged == {NaN, 0}
MCWidths == 1 .. 4
==========================================================================
