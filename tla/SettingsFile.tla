--------------------------- MODULE SettingsFile ---------------------------
(***************************************************************************)
(* The settings file of one plugin instance, as far as the list of         *)
(* monitors goes: the default group holds the viewer type and next_color,  *)
(* and each monitor has a group named by a number, its settings_dir.  The  *)
(* groups are kept in the order they were created in (XfceRc), which is    *)
(* the order load_monitors reads them in.  A missing file reads as one     *)
(* that holds the defaults and no groups.                                  *)
(***************************************************************************)
EXTENDS Integers, Sequences, SequencesExt

CONSTANTS
  NoConfig,     \* the "type" of a group without one
  NoColor       \* a group without a "color" entry, a viewer without colours

HasGroup(f, dir) == \E i \in DOMAIN f.groups : f.groups[i].dir = dir

\* xfce_rc_has_entry / xfce_rc_read_int_entry on "color" in group dir.
ColorOf(f, dir) ==
  IF HasGroup(f, dir)
  THEN f.groups[CHOOSE i \in DOMAIN f.groups : f.groups[i].dir = dir].color
  ELSE NoColor

\* Monitor::save of a monitor cfg: the group's other entries stay.
SaveGroup(f, dir, cfg) ==
  [f EXCEPT !.groups =
     IF HasGroup(f, dir)
     THEN [i \in DOMAIN f.groups |-> IF f.groups[i].dir = dir
                                     THEN [f.groups[i] EXCEPT !.cfg = cfg]
                                     ELSE f.groups[i]]
     ELSE Append(f.groups, [dir |-> dir, cfg |-> cfg, color |-> NoColor])]

\* Writing "color" into group dir, which may come to exist by it.
SaveColor(f, dir, color) ==
  [f EXCEPT !.groups =
     IF HasGroup(f, dir)
     THEN [i \in DOMAIN f.groups |-> IF f.groups[i].dir = dir
                                     THEN [f.groups[i] EXCEPT !.color = color]
                                     ELSE f.groups[i]]
     ELSE Append(f.groups, [dir |-> dir, cfg |-> NoConfig, color |-> color])]

\* xfce_rc_delete_group, if the group exists.
DeleteGroup(f, dir) ==
  IF HasGroup(f, dir)
  THEN [f EXCEPT !.groups =
          RemoveAt(@, CHOOSE i \in DOMAIN f.groups : f.groups[i].dir = dir)]
  ELSE f

(* Mutant: the groups are counted, not looked up. *)
MutCountedDir(f) == Len(f.groups) + 1

\* find_empty_monitor_dir: the first number that names no group.
EmptyDir(f) ==
  CHOOSE c \in 1 .. Len(f.groups) + 1 :
    /\ ~ HasGroup(f, c)
    /\ \A d \in 1 .. c - 1 : HasGroup(f, d)

\* save_monitors: each of the monitors, in order, in one open file.
SaveMonitors(f, mons) ==
  LET saved[k \in 0 .. Len(mons)] ==
        IF k = 0 THEN f ELSE SaveGroup(saved[k - 1], mons[k].dir, mons[k].cfg)
  IN  saved[Len(mons)]

\* load_monitors reads a group of unknown type: no monitor is created, and the
\* group's name goes to the last monitor created.  If there is none yet, the
\* process dies (back() of an empty list).
LoadFaults(f) == f.groups # <<>> /\ f.groups[1].cfg = NoConfig

LoadMonitors(f) ==
  LET g == f.groups
      loaded[k \in 0 .. Len(g)] ==
        IF k = 0 THEN <<>>
        ELSE IF g[k].cfg # NoConfig
        THEN Append(loaded[k - 1], [cfg |-> g[k].cfg, dir |-> g[k].dir])
        ELSE [loaded[k - 1] EXCEPT ![Len(loaded[k - 1])].dir = g[k].dir]
  IN  loaded[Len(g)]
==========================================================================
