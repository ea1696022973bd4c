----------------------------- MODULE MCPlugin -----------------------------
(* Plugin with up to three monitor objects, two things to observe, two     *)
(* colours to hand out and one more to choose, a graph and a text view, and*)
(* a settings file that may name a viewer type the plugin does not know.   *)
EXTENDS Plugin, TLC

CONSTANTS m1, m2, m3, cpu, load, red, green, blue

MCMonitor == {m1, m2, m3}
MCConfig == {cpu, load}
MCColor == {red, green, blue}
MCPalette == <<red, green>>
MCOffered == {"curve", "text"}
MCStored == {"curve", "unknown"}

MCTwoMonitors == {m1, m2}
MCTwoSymmetry == Permutations(MCTwoMonitors)
MCOneConfig == {cpu}
MCOneColor == {red}
MCOnePalette == <<red>>
MCSymmetry == Permutations(MCMonitor)
==========================================================================
