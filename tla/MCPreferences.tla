--------------------------- MODULE MCPreferences ---------------------------
(* Preferences with up to two monitors, three monitor objects, the hues and *)
(* alphas of two of the plugin's colours and two viewer types.              *)
EXTENDS Preferences, TLC

CONSTANTS m1, m2, m3

MCMonitor == {m1, m2, m3}
MCPlain == [hue |-> "black", alpha |-> 255]
MCPalette == <<[hue |-> "green", alpha |-> 176], [hue |-> "sand", alpha |-> 208]>>
MCPicked == {[hue |-> "red", alpha |-> 255]}
MCGraphs == {"curve", "bar"}
MCSymmetry == Permutations(MCMonitor)
==========================================================================
