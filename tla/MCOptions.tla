----------------------------- MODULE MCOptions -----------------------------
(* Options with one or two values of each, two interface types, and the     *)
(* default groups of a new plugin, one with everything set and one of a     *)
(* later version, with a position this one does not have.                   *)
EXTENDS Options

MCFonts == {"mono"}
MCColors == {"red"}
MCTexts == {"%M"}
MCSizes == {0, 9}
MCPositions == {6}
MCTypes == 0 .. 1
MCDefaultName == [t \in MCTypes |-> IF t = 0 THEN "eth0" ELSE "eth1"]
MCNames == {"lan"}
MCFull ==
  [viewer_size |-> 32, viewer_font |-> "mono", background_color |-> "red",
   use_background_color |-> TRUE, viewer_text_overlay_enabled |-> TRUE,
   viewer_text_overlay_font |-> "serif", viewer_monitor_type_sync_enabled |-> FALSE]
MCStored == {<<>>, MCFull, [viewer_text_overlay_position |-> 7]}
==========================================================================
