----------------------------- MODULE MCChooser -----------------------------
(* Chooser with two settings of each kind's own widgets, a new plugin and   *)
(* two settings files of older versions.                                    *)
EXTENDS Chooser

MCSensorMax == [n \in 0 .. 1 |-> IF n = 0 THEN 40 ELSE 95]
MCKinds == Kinds
MCCpu == {"cpu_usage"}
MCDelays == {7}
MCMaxima == {40, 1234567}
MCTags == {"a"}

MCGeneric == [file_path |-> "a", value_from_contents |-> FALSE, regex |-> "r",
              follow_change |-> TRUE, value_change_direction |-> 2,
              data_source_name |-> "a"]
MCOwn ==
  [cpu_usage |-> {[one |-> TRUE, no |-> 2, low |-> FALSE, iowait |-> TRUE]},
   memory_usage |-> {}, swap_usage |-> {}, load_average |-> {},
   disk_usage |-> {[mount_dir |-> "a", show_free |-> TRUE]},
   disk_statistics |-> {[disk_stats_device |-> "a", disk_stats_stat |-> 3]},
   network_load |-> {[interface_type |-> 5, interface_direction |-> -1],
                     [interface_type |-> 0, interface_direction |-> 2]},
   temperature |-> {[temperature_no |-> 1]}, fan_speed |-> {[fan_no |-> 1]},
   generic |-> {MCGeneric, [MCGeneric EXCEPT !.value_from_contents = TRUE, !.regex = ""]}]
MCOwnChoices == [k \in Kinds |-> MCOwn[k] \cup {FreshOwn[k]}]
MCTexts == {"", "/", "a", "r"}

MCOldGroups ==
  {<<>>,
   [type |-> "network_load", interface_no |-> 1, interface |-> "eth",
    interface_direction |-> 7, fixed_max |-> TRUE, max |-> 40],
   [type |-> "generic", file_path |-> "a", regex |-> "r", data_source_name |-> "a",
    value_change_direction |-> 9, max |-> 40, fixed_max |-> TRUE]}

\* A network monitor of an older version, in whose place a memory's was put.
MCStaleGroups ==
  {[type |-> "memory_usage", interface_no |-> 1, interface |-> "eth", fixed_max |-> TRUE]}
==========================================================================
