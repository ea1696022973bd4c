--------------------------- MODULE MonitorBoard ---------------------------
(***************************************************************************)
(* What the user of the plugin relies on: a list of monitors which the     *)
(* user edits while the plugin is on the panel, and which stays as it was  *)
(* left when the plugin goes away, by a quit or by a crash, and returns.   *)
(* An edit that is cut short by a crash has happened or has not.           *)
(* All this only as long as the settings can be written.                   *)
(***************************************************************************)
EXTENDS Naturals, Sequences, SequencesExt

CONSTANTS Config, DefaultConfig
VARIABLES
  shown,     \* the plugin is on the panel
  board,     \* the monitors, in order
  lost       \* a write of the settings has failed

Init == ~ shown /\ board = <<>> /\ ~ lost

\* Opening an empty board puts the default monitor on it.
Opened == IF board = <<>> THEN <<DefaultConfig>> ELSE board

Edit ==
  \/ \E cfg \in Config : board' = Append(board, cfg)
  \/ \E i \in DOMAIN board : board' = RemoveAt(board, i)
  \/ \E i \in DOMAIN board, cfg \in Config : board' = [board EXCEPT ![i] = cfg]

Next ==
  \/ ~ shown /\ board' \in {board, Opened} /\ (shown' => board' = Opened)
  \/ shown /\ (Edit \/ board' = board)

Spec == Init /\ [][lost' \/ Next]_<<shown, board>>
==========================================================================
