--------------------------- MODULE Plugin_proofs ---------------------------
(***************************************************************************)
(* For any monitors, colours, viewer types and settings, writes failing or *)
(* not and the process dying anywhere:                                     *)
(*  - the plugin's state keeps its types, each allocated monitor is in the *)
(*    list once and shown once, and the view is the chosen one (IInv);     *)
(*  - the settings file describes the plugin except where it recorded that *)
(*    a write was skipped, monitors are drawn in the colours of their      *)
(*    groups, and a plugin that starts again finds its monitors (FileIInv);*)
(*  - the list of monitors is durable: the plugin implements MonitorBoard. *)
(* The first part is about the operators of SettingsFile.                  *)
(***************************************************************************)
EXTENDS Plugin, Foundations, FiniteSetTheorems

\* Groups whose "type" is in C and whose "color" is in P, and a file of them.
GroupOf(C, P) == [dir : Nat, cfg : C \cup {NoConfig}, color : P \cup {NoColor}]
FileOf(V, N, C, P) == [viewer_type : V, next_color : N, groups : Seq(GroupOf(C, P))]
--------------------------------------------------------------------------
\* Reading the colour of a group, or of no group.
LEMMA ColorOfType ==
  ASSUME NEW V, NEW N, NEW C, NEW P, NEW f \in FileOf(V, N, C, P), NEW dir
  PROVE  ColorOf(f, dir) \in P \cup {NoColor}
<1>1. f.groups \in Seq(GroupOf(C, P))
  BY DEF FileOf
<1>2. \A i \in DOMAIN f.groups : f.groups[i] \in GroupOf(C, P)
  BY <1>1
<1>3. CASE HasGroup(f, dir)
  <2> DEFINE i == CHOOSE i \in DOMAIN f.groups : f.groups[i].dir = dir
  <2>1. i \in DOMAIN f.groups
    BY <1>3 DEF HasGroup
  <2>2. ColorOf(f, dir) = f.groups[i].color
    BY <1>3 DEF ColorOf
  <2> HIDE DEF i
  <2>3. f.groups[i] \in GroupOf(C, P)
    BY <1>2, <2>1
  <2>4. QED BY <2>2, <2>3 DEF GroupOf
<1>4. QED BY <1>3 DEF ColorOf

\* Replacing the groups of a file by groups leaves a file.
LEMMA FileFields ==
  ASSUME NEW V, NEW N, NEW C, NEW P, NEW f \in FileOf(V, N, C, P),
         NEW g \in Seq(GroupOf(C, P))
  PROVE  [f EXCEPT !.groups = g] \in FileOf(V, N, C, P)
BY DEF FileOf

\* Saving a monitor leaves a file, whether its group was there or not.
LEMMA SaveGroupType ==
  ASSUME NEW V, NEW N, NEW C, NEW P, NEW f \in FileOf(V, N, C, P),
         NEW dir \in Nat, NEW cfg \in C
  PROVE  SaveGroup(f, dir, cfg) \in FileOf(V, N, C, P)
<1>1. f.groups \in Seq(GroupOf(C, P))
  BY DEF FileOf
<1>2. CASE HasGroup(f, dir)
  <2> DEFINE g == [i \in DOMAIN f.groups |-> IF f.groups[i].dir = dir
                                     THEN [f.groups[i] EXCEPT !.cfg = cfg]
                                     ELSE f.groups[i]]
  <2>1. \A x \in GroupOf(C, P) : [x EXCEPT !.cfg = cfg] \in GroupOf(C, P)
    BY DEF GroupOf
  <2>2. Len(f.groups) \in Nat /\ DOMAIN f.groups = 1 .. Len(f.groups)
        /\ \A i \in 1 .. Len(f.groups) : f.groups[i] \in GroupOf(C, P)
    BY <1>1
  <2>3. g \in [1 .. Len(f.groups) -> GroupOf(C, P)]
    BY <2>1, <2>2
  <2>4. g \in Seq(GroupOf(C, P))
    BY <2>2, <2>3, SeqDef
  <2>5. SaveGroup(f, dir, cfg) = [f EXCEPT !.groups = g]
    BY <1>2 DEF SaveGroup
  <2> HIDE DEF g
  <2>6. QED BY <2>4, <2>5, FileFields
<1>3. CASE ~ HasGroup(f, dir)
  <2> DEFINE x == [dir |-> dir, cfg |-> cfg, color |-> NoColor]
  <2>1. x \in GroupOf(C, P)
    BY DEF GroupOf
  <2>2. SaveGroup(f, dir, cfg) = [f EXCEPT !.groups = Append(f.groups, x)]
    BY <1>3 DEF SaveGroup
  <2> HIDE DEF x
  <2> DEFINE g == Append(f.groups, x)
  <2>3. g \in Seq(GroupOf(C, P))
    BY <1>1, <2>1
  <2> HIDE DEF g
  <2>4. [f EXCEPT !.groups = g] \in FileOf(V, N, C, P)
    BY <2>3, FileFields
  <2>5. QED BY <2>2, <2>4 DEF g
<1>4. QED BY <1>2, <1>3

\* Saving a colour leaves a file, whether its group was there or not.
LEMMA SaveColorType ==
  ASSUME NEW V, NEW N, NEW C, NEW P, NEW f \in FileOf(V, N, C, P),
         NEW dir \in Nat, NEW color \in P
  PROVE  SaveColor(f, dir, color) \in FileOf(V, N, C, P)
<1>1. f.groups \in Seq(GroupOf(C, P))
  BY DEF FileOf
<1>2. CASE HasGroup(f, dir)
  <2> DEFINE g == [i \in DOMAIN f.groups |-> IF f.groups[i].dir = dir
                                     THEN [f.groups[i] EXCEPT !.color = color]
                                     ELSE f.groups[i]]
  <2>1. \A x \in GroupOf(C, P) : [x EXCEPT !.color = color] \in GroupOf(C, P)
    BY DEF GroupOf
  <2>2. Len(f.groups) \in Nat /\ DOMAIN f.groups = 1 .. Len(f.groups)
        /\ \A i \in 1 .. Len(f.groups) : f.groups[i] \in GroupOf(C, P)
    BY <1>1
  <2>3. g \in [1 .. Len(f.groups) -> GroupOf(C, P)]
    BY <2>1, <2>2
  <2>4. g \in Seq(GroupOf(C, P))
    BY <2>2, <2>3, SeqDef
  <2>5. SaveColor(f, dir, color) = [f EXCEPT !.groups = g]
    BY <1>2 DEF SaveColor
  <2> HIDE DEF g
  <2>6. QED BY <2>4, <2>5, FileFields
<1>3. CASE ~ HasGroup(f, dir)
  <2> DEFINE x == [dir |-> dir, cfg |-> NoConfig, color |-> color]
  <2>1. x \in GroupOf(C, P)
    BY DEF GroupOf
  <2>2. SaveColor(f, dir, color) = [f EXCEPT !.groups = Append(f.groups, x)]
    BY <1>3 DEF SaveColor
  <2> HIDE DEF x
  <2> DEFINE g == Append(f.groups, x)
  <2>3. g \in Seq(GroupOf(C, P))
    BY <1>1, <2>1
  <2> HIDE DEF g
  <2>4. [f EXCEPT !.groups = g] \in FileOf(V, N, C, P)
    BY <2>3, FileFields
  <2>5. QED BY <2>2, <2>4 DEF g
<1>4. QED BY <1>2, <1>3

\* Deleting a group leaves a file, whether it was there or not.
LEMMA DeleteGroupType ==
  ASSUME NEW V, NEW N, NEW C, NEW P, NEW f \in FileOf(V, N, C, P), NEW dir
  PROVE  DeleteGroup(f, dir) \in FileOf(V, N, C, P)
<1> DEFINE i == CHOOSE i \in DOMAIN f.groups : f.groups[i].dir = dir
<1>1. f.groups \in Seq(GroupOf(C, P))
  BY DEF FileOf
<1>2. CASE HasGroup(f, dir)
  <2>1. i \in DOMAIN f.groups
    BY <1>2 DEF HasGroup
  <2>2. DeleteGroup(f, dir) = [f EXCEPT !.groups = RemoveAt(f.groups, i)]
    BY <1>2 DEF DeleteGroup
  <2> HIDE DEF i
  <2>3. i \in 1 .. Len(f.groups)
    BY <1>1, <2>1
  <2>4. RemoveAt(f.groups, i) \in Seq(GroupOf(C, P))
    BY <1>1, <2>3, RemoveAtProperties
  <2>5. QED BY <2>2, <2>4, FileFields
<1>3. QED BY <1>2 DEF DeleteGroup

\* The files that save_monitors goes through.
Saving(saved, f, mons) ==
  /\ SaveMonitors(f, mons) = saved[Len(mons)] /\ saved[0] = f
  /\ \A k \in 0 .. Len(mons) - 1 :
       saved[k + 1] = SaveGroup(saved[k], mons[k + 1].dir, mons[k + 1].cfg)

\* save_monitors writes each monitor's group in turn.
LEMMA SaveMonitorsSteps ==
  ASSUME NEW V, NEW N, NEW C, NEW P, NEW f \in FileOf(V, N, C, P),
         NEW mons \in Seq([cfg : C, dir : Nat])
  PROVE  \E saved : Saving(saved, f, mons)
<1> DEFINE n == Len(mons)
           S == FileOf(V, N, C, P)
           step == [k \in 1 .. n |-> [x \in S |-> SaveGroup(x, mons[k].dir, mons[k].cfg)]]
           Is(g) == g = [k \in 0 .. n |-> IF k = 0 THEN f
                                   ELSE SaveGroup(g[k - 1], mons[k].dir, mons[k].cfg)]
           saved == CHOOSE g : Is(g)
<1>1. n \in Nat /\ \A k \in 1 .. n : mons[k].dir \in Nat /\ mons[k].cfg \in C
  <2>1. n \in Nat
    OBVIOUS
  <2>2. \A k \in 1 .. n : mons[k] \in [cfg : C, dir : Nat]
    BY ElementOfSeq
  <2>3. QED BY <2>1, <2>2
<1> HIDE DEF n, S
<1>2. \A k \in 1 .. n, x \in S : SaveGroup(x, mons[k].dir, mons[k].cfg) \in S
  BY <1>1, SaveGroupType DEF S
<1>3. step \in [1 .. n -> [S -> S]]
  BY <1>2
<1>4. f \in S
  BY DEF S
<1>5. PICK h : Iterates(h, n, S, f, step)
  <2> HIDE DEF step
  <2> QED BY <1>1, <1>3, <1>4, IterationExists
<1>6. \A k \in 0 .. n : k = 0 \/ (k \in 1 .. n /\ k - 1 \in 0 .. n /\ k # 0)
  BY <1>1
<1>7. \A k \in 0 .. n : h[k] = IF k = 0 THEN f ELSE SaveGroup(h[k - 1], mons[k].dir, mons[k].cfg)
  BY <1>5, <1>6 DEF Iterates
<1>8. Is(h)
  BY <1>5, <1>7 DEF Iterates
<1>9. Is(saved)
  BY <1>8
<1>10. SaveMonitors(f, mons) = saved[n]
  BY DEF SaveMonitors, n
<1>11. saved[0] = f /\ \A k \in 0 .. n - 1 : saved[k + 1]
                                = SaveGroup(saved[k], mons[k + 1].dir, mons[k + 1].cfg)
  <2> HIDE DEF saved
  <2>1. 0 \in 0 .. n /\ \A k \in 0 .. n - 1 : k + 1 \in 0 .. n /\ k + 1 # 0 /\ (k + 1) - 1 = k
    BY <1>1
  <2>2. \A k \in 0 .. n : saved[k] = IF k = 0 THEN f
                                     ELSE SaveGroup(saved[k - 1], mons[k].dir, mons[k].cfg)
    BY <1>9
  <2>3. QED BY <2>1, <2>2
<1>12. QED
  <2> HIDE DEF saved
  <2> QED BY <1>10, <1>11 DEF n, Saving

\* Each of the monitors of a list has a configuration and a settings directory.
LEMMA MonitorsOf ==
  ASSUME NEW C, NEW mons \in Seq([cfg : C, dir : Nat])
  PROVE  /\ Len(mons) \in Nat
         /\ \A k \in 1 .. Len(mons) : mons[k].dir \in Nat /\ mons[k].cfg \in C
<1>1. \A k \in 1 .. Len(mons) : mons[k] \in [cfg : C, dir : Nat]
  BY ElementOfSeq
<1>2. QED BY <1>1

\* save_monitors leaves a file.
LEMMA SaveMonitorsType ==
  ASSUME NEW V, NEW N, NEW C, NEW P, NEW f \in FileOf(V, N, C, P),
         NEW mons \in Seq([cfg : C, dir : Nat])
  PROVE  SaveMonitors(f, mons) \in FileOf(V, N, C, P)
<1> DEFINE n == Len(mons)
           S == FileOf(V, N, C, P)
<1>0. PICK saved : Saving(saved, f, mons)
  BY SaveMonitorsSteps
<1>1. /\ SaveMonitors(f, mons) = saved[n] /\ saved[0] = f
      /\ \A k \in 0 .. n - 1 :
           saved[k + 1] = SaveGroup(saved[k], mons[k + 1].dir, mons[k + 1].cfg)
  BY <1>0 DEF Saving
<1>2. n \in Nat /\ \A k \in 0 .. n - 1 : mons[k + 1].dir \in Nat /\ mons[k + 1].cfg \in C
  BY MonitorsOf
<1> HIDE DEF n
<1>3. ASSUME NEW k \in 0 .. n - 1, saved[k] \in S PROVE saved[k + 1] \in S
  BY <1>1, <1>2, <1>3, SaveGroupType
<1>4. \A k \in 0 .. n : saved[k] \in S
  <2> HIDE DEF S
  <2>1. saved[0] \in S
    BY <1>1 DEF S
  <2>2. QED BY <1>2, <1>3, <2>1, IterationIn
<1>5. QED BY <1>1, <1>2, <1>4

\* What load_monitors has read after one more group.
Reading(read, group) ==
  IF group.cfg # NoConfig THEN Append(read, [cfg |-> group.cfg, dir |-> group.dir])
  ELSE [read EXCEPT ![Len(read)].dir = group.dir]

\* The lists of monitors, of those in O, that load_monitors goes through.
Loading(loaded, f, O) ==
  /\ LoadMonitors(f) = loaded[Len(f.groups)] /\ loaded[0] = <<>>
  /\ \A k \in 0 .. Len(f.groups) - 1 : loaded[k + 1] = Reading(loaded[k], f.groups[k + 1])
  /\ \A k \in 0 .. Len(f.groups) : loaded[k] \in Seq(O)

\* load_monitors reads the groups in turn.
LEMMA LoadMonitorsSteps ==
  ASSUME NEW V, NEW N, NEW C, NEW P, NEW f \in FileOf(V, N, C, P)
  PROVE  \E loaded : Loading(loaded, f, [cfg : C, dir : Nat])
<1> DEFINE g == f.groups
           n == Len(g)
           S == Seq([cfg : C, dir : Nat])
           Read(x, k) == IF g[k].cfg # NoConfig
                         THEN Append(x, [cfg |-> g[k].cfg, dir |-> g[k].dir])
                         ELSE [x EXCEPT ![Len(x)].dir = g[k].dir]
           step == [k \in 1 .. n |-> [x \in S |-> Read(x, k)]]
           Is(h) == h = [k \in 0 .. n |->
                           IF k = 0 THEN <<>>
                           ELSE IF g[k].cfg # NoConfig
                           THEN Append(h[k - 1], [cfg |-> g[k].cfg, dir |-> g[k].dir])
                           ELSE [h[k - 1] EXCEPT ![Len(h[k - 1])].dir = g[k].dir]]
           loaded == CHOOSE h : Is(h)
<1>1. n \in Nat /\ \A k \in 1 .. n : g[k].dir \in Nat /\ g[k].cfg \in C \cup {NoConfig}
  <2>1. g \in Seq(GroupOf(C, P))
    BY DEF FileOf
  <2>2. n \in Nat
    BY <2>1
  <2>3. \A k \in 1 .. n : g[k] \in GroupOf(C, P)
    BY <2>1, ElementOfSeq
  <2>4. QED BY <2>2, <2>3 DEF GroupOf
<1>2. LoadMonitors(f) = loaded[n]
  BY DEF LoadMonitors
<1> HIDE DEF n, g
<1>3. \A k \in 1 .. n, x \in S : Read(x, k) \in S
  <2> SUFFICES ASSUME NEW k \in 1 .. n, NEW x \in S PROVE Read(x, k) \in S
    OBVIOUS
  <2>1. CASE g[k].cfg # NoConfig
    <3>1. [cfg |-> g[k].cfg, dir |-> g[k].dir] \in [cfg : C, dir : Nat]
      BY <1>1, <2>1
    <3>2. QED BY <2>1, <3>1
  <2>2. CASE g[k].cfg = NoConfig
    <3> DEFINE d == g[k].dir
               y == [x EXCEPT ![Len(x)].dir = d]
    <3>1. d \in Nat
      BY <1>1
    <3> HIDE DEF d
    <3>2. Len(x) \in Nat /\ x \in [1 .. Len(x) -> [cfg : C, dir : Nat]]
      <4> HIDE DEF Read, step, Is
      <4> QED BY LenProperties
    <3>3. y \in [1 .. Len(x) -> [cfg : C, dir : Nat]]
      BY <3>1, <3>2
    <3>4. y \in S
      BY <3>2, <3>3, SeqDef
    <3>5. QED BY <2>2, <3>4 DEF d
  <2>3. QED BY <2>1, <2>2
<1>4. <<>> \in S
  OBVIOUS
<1> HIDE DEF S
<1>5. step \in [1 .. n -> [S -> S]]
  BY <1>3
<1>6. PICK h : Iterates(h, n, S, <<>>, step)
  <2> HIDE DEF step
  <2> QED BY <1>1, <1>4, <1>5, IterationExists
<1>7. Is(h)
  <2>1. \A k \in 0 .. n : k = 0 \/ (k \in 1 .. n /\ k - 1 \in 0 .. n /\ k # 0)
    BY <1>1
  <2>2. \A k \in 1 .. n : h[k] = Read(h[k - 1], k)
    <3> HIDE DEF Read, step
    <3>1. \A k \in 1 .. n : k - 1 \in 0 .. n /\ h[k] = step[k][h[k - 1]] /\ h[k - 1] \in S
      BY <1>1, <1>6 DEF Iterates
    <3>2. \A k \in 1 .. n, x \in S : step[k][x] = Read(x, k)
      BY DEF step
    <3>3. QED BY <3>1, <3>2
  <2>3. h[0] = <<>> /\ h \in [0 .. n -> S]
    BY <1>6 DEF Iterates
  <2> HIDE DEF step
  <2>4. \A k \in 0 .. n : h[k] = IF k = 0 THEN <<>> ELSE Read(h[k - 1], k)
    BY <2>1, <2>2, <2>3
  <2>5. QED BY <2>3, <2>4
<1>8. Is(loaded)
  <2> HIDE DEF Is
  <2> QED BY <1>7
<1>9. loaded[0] = <<>> /\ \A k \in 0 .. n - 1 : loaded[k + 1] = Read(loaded[k], k + 1)
  <2> HIDE DEF loaded
  <2>1. 0 \in 0 .. n /\ \A k \in 0 .. n - 1 : k + 1 \in 0 .. n /\ k + 1 # 0 /\ (k + 1) - 1 = k
    BY <1>1
  <2>2. \A k \in 0 .. n : loaded[k] = IF k = 0 THEN <<>> ELSE Read(loaded[k - 1], k)
    BY <1>8
  <2> HIDE DEF Read, Is
  <2>3. QED BY <2>1, <2>2
<1>10. \A k \in 0 .. n : loaded[k] \in S
  <2> HIDE DEF loaded, Read
  <2>1. \A k \in 0 .. n - 1 : k + 1 \in 1 .. n
    BY <1>1
  <2>2. \A k \in 0 .. n - 1 : loaded[k] \in S => loaded[k + 1] \in S
    BY <1>3, <1>9, <2>1
  <2>3. QED BY <1>1, <1>4, <1>9, <2>2, IterationIn
<1>11. QED
  <2> HIDE DEF loaded
  <2>1. \A k \in 0 .. n - 1 : loaded[k + 1] = Reading(loaded[k], g[k + 1])
    BY <1>9 DEF Reading
  <2>2. QED BY <1>2, <1>9, <1>10, <2>1 DEF S, n, g, Loading

\* load_monitors returns monitors with a settings directory each.
LEMMA LoadMonitorsType ==
  ASSUME NEW V, NEW N, NEW C, NEW P, NEW f \in FileOf(V, N, C, P)
  PROVE  LoadMonitors(f) \in Seq([cfg : C, dir : Nat])
<1>1. Len(f.groups) \in 0 .. Len(f.groups)
  BY DEF FileOf
<1>2. PICK loaded : Loading(loaded, f, [cfg : C, dir : Nat])
  BY LoadMonitorsSteps
<1>3. QED BY <1>1, <1>2 DEF Loading

\* find_empty_monitor_dir finds a number, and one that names no group: n groups
\* cannot use up n + 1 numbers.
LEMMA EmptyDirIsFree ==
  ASSUME NEW V, NEW N, NEW C, NEW P, NEW f \in FileOf(V, N, C, P)
  PROVE  /\ EmptyDir(f) \in 1 .. Len(f.groups) + 1
         /\ ~ HasGroup(f, EmptyDir(f))
         /\ \A d \in 1 .. EmptyDir(f) - 1 : HasGroup(f, d)
<1> DEFINE g == f.groups
           n == Len(g)
           Used == {g[i].dir : i \in 1 .. n}
           Free == {c \in 1 .. n + 1 : ~ HasGroup(f, c)}
<1>1. n \in Nat /\ DOMAIN g = 1 .. n
  <2>1. g \in Seq(GroupOf(C, P))
    BY DEF FileOf
  <2>2. QED BY <2>1
<1>2. \A c : HasGroup(f, c) <=> c \in Used
  BY <1>1 DEF HasGroup
<1> HIDE DEF n, g
<1>3. IsFiniteSet(Used) /\ Cardinality(Used) <= n
  <2>1. IsFiniteSet(1 .. n) /\ Cardinality(1 .. n) = n
    BY <1>1, FS_Interval
  <2> DEFINE dirs == [i \in 1 .. n |-> g[i].dir]
  <2>2. dirs \in Surjection(1 .. n, Used)
    BY DEF Surjection
  <2> HIDE DEF dirs
  <2>3. QED BY <2>1, <2>2, FS_Surjection
<1>4. Free # {}
  <2> SUFFICES ASSUME Free = {} PROVE FALSE
    OBVIOUS
  <2>1. 1 .. n + 1 \subseteq Used
    BY <1>2
  <2>2. IsFiniteSet(1 .. n + 1) /\ Cardinality(1 .. n + 1) = n + 1
    BY <1>1, FS_Interval
  <2>3. Cardinality(1 .. n + 1) <= Cardinality(Used) /\ Cardinality(Used) \in Nat
    BY <1>3, <2>1, FS_Subset, FS_CardinalityType
  <2> HIDE DEF Used, Free
  <2>4. QED BY <1>1, <1>3, <2>2, <2>3
<1>5. Free \in SUBSET Nat
  BY <1>1
<1>6. PICK c \in Free : \A d \in Free : c <= d
  BY <1>4, <1>5, LeastNat
<1>7. c \in 1 .. n + 1 /\ ~ HasGroup(f, c) /\ \A d \in 1 .. c - 1 : HasGroup(f, d)
  <2>1. c \in 1 .. n + 1 /\ ~ HasGroup(f, c)
    OBVIOUS
  <2>2. \A d \in 1 .. c - 1 : d \in 1 .. n + 1 /\ ~ (c <= d)
    BY <1>1, <2>1
  <2>3. QED BY <1>6, <2>1, <2>2
<1>8. QED BY <1>7 DEF EmptyDir, n, g

--------------------------------------------------------------------------
\* What the groups say of the monitors, and a list that loads as it was saved.
Listed(f) == [i \in DOMAIN f.groups |-> [cfg |-> f.groups[i].cfg, dir |-> f.groups[i].dir]]
Distinct(L) == \A i, j \in DOMAIN L : L[i].dir = L[j].dir => i = j
Sound(L) == Distinct(L) /\ \A i \in DOMAIN L : L[i].cfg # NoConfig

\* The groups of a file, and what is listed of them.
LEMMA Groups ==
  ASSUME NEW V, NEW N, NEW C, NEW P, NEW f \in FileOf(V, N, C, P)
  PROVE  /\ Len(f.groups) \in Nat /\ DOMAIN f.groups = 1 .. Len(f.groups)
         /\ f.groups \in Seq(GroupOf(C, P))
         /\ \A i \in DOMAIN f.groups : f.groups[i] \in GroupOf(C, P)
         /\ DOMAIN Listed(f) = DOMAIN f.groups
         /\ \A i \in DOMAIN f.groups : /\ Listed(f)[i].cfg = f.groups[i].cfg
                                       /\ Listed(f)[i].dir = f.groups[i].dir
                                       /\ Listed(f)[i] \in [cfg : C \cup {NoConfig}, dir : Nat]
         /\ \A dir : HasGroup(f, dir) <=> \E i \in DOMAIN Listed(f) : Listed(f)[i].dir = dir
<1>1. f.groups \in Seq(GroupOf(C, P))
  BY DEF FileOf
<1>2. Len(f.groups) \in Nat /\ DOMAIN f.groups = 1 .. Len(f.groups)
      /\ \A i \in DOMAIN f.groups : f.groups[i] \in GroupOf(C, P)
  BY <1>1, ElementOfSeq
<1>3. DOMAIN Listed(f) = DOMAIN f.groups
      /\ \A i \in DOMAIN f.groups : Listed(f)[i] = [cfg |-> f.groups[i].cfg,
                                                    dir |-> f.groups[i].dir]
  BY DEF Listed
<1>4. \A i \in DOMAIN f.groups :
        f.groups[i].cfg \in C \cup {NoConfig} /\ f.groups[i].dir \in Nat
  BY <1>2 DEF GroupOf
<1>5. ASSUME NEW i \in DOMAIN f.groups
      PROVE  /\ Listed(f)[i].cfg = f.groups[i].cfg /\ Listed(f)[i].dir = f.groups[i].dir
             /\ Listed(f)[i] \in [cfg : C \cup {NoConfig}, dir : Nat]
  <2> DEFINE c == f.groups[i].cfg
             d == f.groups[i].dir
             x == [cfg |-> c, dir |-> d]
  <2>1. c \in C \cup {NoConfig} /\ d \in Nat /\ Listed(f)[i] = x
    BY <1>3, <1>4
  <2> HIDE DEF c, d
  <2>2. x.cfg = c /\ x.dir = d /\ x \in [cfg : C \cup {NoConfig}, dir : Nat]
    BY <2>1
  <2>3. QED BY <2>1, <2>2 DEF c, d
<1>6. ASSUME NEW dir
      PROVE  HasGroup(f, dir) <=> \E i \in DOMAIN Listed(f) : Listed(f)[i].dir = dir
  BY <1>3, <1>5 DEF HasGroup
<1>7. QED BY <1>1, <1>2, <1>3, <1>5, <1>6

\* What is listed is a list, as long as the groups.
LEMMA ListedType ==
  ASSUME NEW V, NEW N, NEW C, NEW P, NEW f \in FileOf(V, N, C, P)
  PROVE  /\ Listed(f) \in Seq([cfg : C \cup {NoConfig}, dir : Nat])
         /\ Len(Listed(f)) = Len(f.groups)
<1> DEFINE n == Len(f.groups)
           O == [cfg : C \cup {NoConfig}, dir : Nat]
<1>1. n \in Nat /\ DOMAIN Listed(f) = 1 .. n /\ \A i \in 1 .. n : Listed(f)[i] \in O
  BY Groups
<1>2. Listed(f) = [i \in 1 .. n |-> Listed(f)[i]]
  BY <1>1 DEF Listed
<1> HIDE DEF n, O
<1>3. Listed(f) \in [1 .. n -> O]
  BY <1>1, <1>2
<1>4. Listed(f) \in Seq(O)
  BY <1>1, <1>3, SeqDef
<1>5. Len(Listed(f)) = n
  BY <1>1, <1>4, LenProperties
<1>6. QED BY <1>4, <1>5 DEF n, O

\* A list of monitors is the one of a file if it agrees with it at each place.
LEMMA ListedEqual ==
  ASSUME NEW V, NEW N, NEW C, NEW P, NEW f \in FileOf(V, N, C, P),
         NEW g \in FileOf(V, N, C, P), Len(g.groups) = Len(f.groups),
         \A i \in DOMAIN f.groups : /\ g.groups[i].cfg = f.groups[i].cfg
                                    /\ g.groups[i].dir = f.groups[i].dir
  PROVE  Listed(g) = Listed(f)
<1>1. DOMAIN g.groups = DOMAIN f.groups
  BY Groups
<1>2. QED BY <1>1 DEF Listed

\* The colour of a group whose name no other group has, and of no group.
LEMMA ColorAt ==
  ASSUME NEW V, NEW N, NEW C, NEW P, NEW f \in FileOf(V, N, C, P), Distinct(Listed(f))
  PROVE  /\ \A i \in DOMAIN f.groups : ColorOf(f, f.groups[i].dir) = f.groups[i].color
         /\ \A dir : ~ HasGroup(f, dir) => ColorOf(f, dir) = NoColor
<1>1. ASSUME NEW i \in DOMAIN f.groups
      PROVE  ColorOf(f, f.groups[i].dir) = f.groups[i].color
  <2> DEFINE dir == f.groups[i].dir
             c == CHOOSE k \in DOMAIN f.groups : f.groups[k].dir = dir
  <2>1. HasGroup(f, dir)
    BY DEF HasGroup
  <2>2. c \in DOMAIN f.groups /\ f.groups[c].dir = dir
    OBVIOUS
  <2>3. ColorOf(f, dir) = f.groups[c].color
    BY <2>1 DEF ColorOf
  <2> HIDE DEF c
  <2>4. c = i
    BY <2>2, Groups DEF Distinct
  <2>5. QED BY <2>3, <2>4
<1>2. \A dir : ~ HasGroup(f, dir) => ColorOf(f, dir) = NoColor
  BY DEF ColorOf
<1>3. QED BY <1>1, <1>2

\* A colour is found again in another file where a group of the name has it.
LEMMA ColorCarried ==
  ASSUME NEW V, NEW N, NEW C, NEW P, NEW f \in FileOf(V, N, C, P),
         NEW g \in FileOf(V, N, C, P), Distinct(Listed(f)), Distinct(Listed(g)), NEW dir,
         \A i \in DOMAIN f.groups : f.groups[i].dir = dir =>
           \E j \in DOMAIN g.groups : /\ g.groups[j].dir = dir
                                      /\ g.groups[j].color = f.groups[i].color,
         ColorOf(f, dir) # NoColor
  PROVE  ColorOf(g, dir) = ColorOf(f, dir)
<1>1. HasGroup(f, dir)
  BY ColorAt
<1>2. PICK i \in DOMAIN f.groups : f.groups[i].dir = dir
  BY <1>1 DEF HasGroup
<1>3. PICK j \in DOMAIN g.groups : /\ g.groups[j].dir = dir
                                   /\ g.groups[j].color = f.groups[i].color
  BY <1>2
<1>4. ColorOf(f, dir) = f.groups[i].color
  BY <1>2, ColorAt
<1>5. ColorOf(g, dir) = g.groups[j].color
  BY <1>3, ColorAt
<1>6. QED BY <1>3, <1>4, <1>5

\* Saving a colour in a group that is there: it is the group's, the others keep theirs, and
\* nothing is lost or moved.
LEMMA SaveColorKeeps ==
  ASSUME NEW V, NEW N, NEW C, NEW P, NEW f \in FileOf(V, N, C, P), Distinct(Listed(f)),
         NEW dir \in Nat, HasGroup(f, dir), NEW color \in P
  PROVE  LET g == SaveColor(f, dir, color)
         IN  /\ Listed(g) = Listed(f)
             /\ g.viewer_type = f.viewer_type /\ g.next_color = f.next_color
             /\ ColorOf(g, dir) = color
             /\ \A d : d # dir /\ ColorOf(f, d) # NoColor => ColorOf(g, d) = ColorOf(f, d)
<1> DEFINE g == SaveColor(f, dir, color)
<1>1. g \in FileOf(V, N, C, P)
  BY SaveColorType
<1>2. g = [f EXCEPT !.groups =
             [i \in DOMAIN f.groups |-> IF f.groups[i].dir = dir
                                        THEN [f.groups[i] EXCEPT !.color = color]
                                        ELSE f.groups[i]]]
  BY DEF SaveColor
<1> HIDE DEF g
<1>3. g.viewer_type = f.viewer_type /\ g.next_color = f.next_color
      /\ g.groups = [i \in DOMAIN f.groups |-> IF f.groups[i].dir = dir
                                               THEN [f.groups[i] EXCEPT !.color = color]
                                               ELSE f.groups[i]]
  BY <1>2 DEF FileOf
<1>4. \A i \in DOMAIN f.groups :
        /\ g.groups[i].cfg = f.groups[i].cfg /\ g.groups[i].dir = f.groups[i].dir
        /\ g.groups[i].color = IF f.groups[i].dir = dir THEN color ELSE f.groups[i].color
  BY <1>3, Groups DEF GroupOf
<1>5. DOMAIN g.groups = DOMAIN f.groups
  BY <1>3
<1>6. Len(g.groups) = Len(f.groups)
  BY <1>1, <1>5, Groups
<1>7. Listed(g) = Listed(f)
  BY <1>1, <1>4, <1>6, ListedEqual
<1>8. ColorOf(g, dir) = color
  <2>1. PICK i \in DOMAIN f.groups : f.groups[i].dir = dir
    BY DEF HasGroup
  <2>2. g.groups[i].dir = dir /\ g.groups[i].color = color
    BY <1>4, <2>1
  <2>3. QED BY <1>1, <1>5, <1>7, <2>2, ColorAt
<1>9. ASSUME NEW d, d # dir, ColorOf(f, d) # NoColor PROVE ColorOf(g, d) = ColorOf(f, d)
  BY <1>1, <1>4, <1>5, <1>7, <1>9, ColorCarried
<1>10. QED BY <1>3, <1>7, <1>8, <1>9 DEF g


\* Saving a monitor in a group that is there: its entry changes, the colours stay.
LEMMA SaveGroupChanges ==
  ASSUME NEW V, NEW N, NEW C, NEW P, NEW f \in FileOf(V, N, C, P), Distinct(Listed(f)),
         NEW k \in DOMAIN f.groups, NEW cfg \in C
  PROVE  LET g == SaveGroup(f, f.groups[k].dir, cfg)
         IN  /\ Listed(g) = Put(Listed(f), k, [cfg |-> cfg, dir |-> f.groups[k].dir])
             /\ g.viewer_type = f.viewer_type /\ g.next_color = f.next_color
             /\ Distinct(Listed(g))
             /\ \A d : ColorOf(f, d) # NoColor => ColorOf(g, d) = ColorOf(f, d)
<1> DEFINE dir == f.groups[k].dir
           g == SaveGroup(f, dir, cfg)
           L == Put(Listed(f), k, [cfg |-> cfg, dir |-> dir])
<1>0. dir \in Nat /\ HasGroup(f, dir)
  BY Groups DEF HasGroup, GroupOf
<1>1. g \in FileOf(V, N, C, P)
  BY <1>0, SaveGroupType
<1>2. g = [f EXCEPT !.groups =
             [i \in DOMAIN f.groups |-> IF f.groups[i].dir = dir
                                        THEN [f.groups[i] EXCEPT !.cfg = cfg]
                                        ELSE f.groups[i]]]
  BY <1>0 DEF SaveGroup
<1> HIDE DEF g
<1>3. g.viewer_type = f.viewer_type /\ g.next_color = f.next_color
      /\ g.groups = [i \in DOMAIN f.groups |-> IF f.groups[i].dir = dir
                                               THEN [f.groups[i] EXCEPT !.cfg = cfg]
                                               ELSE f.groups[i]]
  BY <1>2 DEF FileOf
<1>4. \A i \in DOMAIN f.groups : f.groups[i].dir = dir <=> i = k
  BY Groups DEF Distinct
<1>5. \A i \in DOMAIN f.groups :
        /\ g.groups[i].cfg = IF i = k THEN cfg ELSE f.groups[i].cfg
        /\ g.groups[i].dir = f.groups[i].dir
        /\ g.groups[i].color = f.groups[i].color
  BY <1>3, <1>4, Groups DEF GroupOf
<1>6. DOMAIN g.groups = DOMAIN f.groups
  BY <1>3
<1>7. Listed(g) = L
  <2>1. Listed(f) = [i \in DOMAIN f.groups |-> [cfg |-> f.groups[i].cfg,
                                                dir |-> f.groups[i].dir]]
    BY DEF Listed
  <2>2. Listed(g) = [i \in DOMAIN f.groups |-> [cfg |-> g.groups[i].cfg,
                                                dir |-> g.groups[i].dir]]
    BY <1>6 DEF Listed
  <2>3. \A i \in DOMAIN f.groups :
          [cfg |-> g.groups[i].cfg, dir |-> g.groups[i].dir]
            = IF i = k THEN [cfg |-> cfg, dir |-> dir]
              ELSE [cfg |-> f.groups[i].cfg, dir |-> f.groups[i].dir]
    BY <1>5
  <2>4. L = [i \in DOMAIN f.groups |-> IF i = k THEN [cfg |-> cfg, dir |-> dir]
                                       ELSE [cfg |-> f.groups[i].cfg, dir |-> f.groups[i].dir]]
    BY <2>1 DEF Put
  <2>5. QED BY <2>2, <2>3, <2>4
<1> HIDE DEF L
<1>8. Distinct(Listed(g))
  <2>1. DOMAIN Listed(g) = DOMAIN f.groups /\ DOMAIN Listed(f) = DOMAIN f.groups
    BY <1>1, <1>6, Groups
  <2>2. \A i \in DOMAIN f.groups : Listed(g)[i].dir = Listed(f)[i].dir
    BY <1>1, <1>5, <1>6, Groups
  <2>3. QED BY <2>1, <2>2 DEF Distinct
<1>9. ASSUME NEW d, ColorOf(f, d) # NoColor PROVE ColorOf(g, d) = ColorOf(f, d)
  BY <1>1, <1>5, <1>6, <1>8, <1>9, ColorCarried
<1>10. QED BY <1>3, <1>7, <1>8, <1>9 DEF g, L

\* Saving a monitor in a new group: it comes last, without a colour.
LEMMA SaveGroupAppends ==
  ASSUME NEW V, NEW N, NEW C, NEW P, NEW f \in FileOf(V, N, C, P), Distinct(Listed(f)),
         NEW dir \in Nat, ~ HasGroup(f, dir), NEW cfg \in C
  PROVE  LET g == SaveGroup(f, dir, cfg)
         IN  /\ Listed(g) = Append(Listed(f), [cfg |-> cfg, dir |-> dir])
             /\ g.viewer_type = f.viewer_type /\ g.next_color = f.next_color
             /\ Distinct(Listed(g))
             /\ \A d : ColorOf(f, d) # NoColor => ColorOf(g, d) = ColorOf(f, d)
<1> DEFINE g == SaveGroup(f, dir, cfg)
           new == [dir |-> dir, cfg |-> cfg, color |-> NoColor]
           n == Len(f.groups)
<1>1. g \in FileOf(V, N, C, P)
  BY SaveGroupType
<1>2. g = [f EXCEPT !.groups = Append(f.groups, new)]
  BY DEF SaveGroup
<1> HIDE DEF g
<1>3. g.viewer_type = f.viewer_type /\ g.next_color = f.next_color
      /\ g.groups = Append(f.groups, new)
  BY <1>2 DEF FileOf
<1>4. /\ n \in Nat /\ DOMAIN f.groups = 1 .. n /\ DOMAIN g.groups = 1 .. n + 1
      /\ Len(g.groups) = n + 1
      /\ g.groups[n + 1] = new /\ \A i \in 1 .. n : g.groups[i] = f.groups[i]
  BY <1>3, Groups
<1> HIDE DEF n
<1>5. \A i \in 1 .. n + 1 : i = n + 1 \/ i \in 1 .. n
  BY <1>4
<1>6. /\ DOMAIN Listed(g) = 1 .. n + 1 /\ DOMAIN Listed(f) = 1 .. n
      /\ Listed(g)[n + 1].dir = dir
      /\ \A i \in 1 .. n : Listed(g)[i].dir = Listed(f)[i].dir /\ Listed(f)[i].dir # dir
  <2>1. \A i \in 1 .. n : i \in 1 .. n + 1
    BY <1>4
  <2>2. n + 1 \in 1 .. n + 1
    BY <1>4
  <2>3. DOMAIN Listed(g) = 1 .. n + 1 /\ DOMAIN Listed(f) = 1 .. n
    BY <1>1, <1>4, Groups
  <2>4. Listed(g)[n + 1].dir = dir
    BY <1>1, <1>4, <2>2, Groups
  <2>5. \A i \in 1 .. n : Listed(g)[i].dir = Listed(f)[i].dir
    <3> SUFFICES ASSUME NEW i \in 1 .. n PROVE Listed(g)[i].dir = Listed(f)[i].dir
      OBVIOUS
    <3>1. g.groups[i] = f.groups[i] /\ i \in DOMAIN f.groups /\ i \in DOMAIN g.groups
      BY <1>4, <2>1
    <3>2. Listed(g)[i].dir = g.groups[i].dir
      BY <1>1, <3>1, Groups
    <3>3. Listed(f)[i].dir = f.groups[i].dir
      BY <3>1, Groups
    <3>4. QED BY <3>1, <3>2, <3>3
  <2>6. \A i \in 1 .. n : Listed(f)[i].dir # dir
    BY <2>3, Groups
  <2>7. QED BY <2>3, <2>4, <2>5, <2>6
<1>7. Listed(g) = Append(Listed(f), [cfg |-> cfg, dir |-> dir])
  <2> DEFINE x == [cfg |-> cfg, dir |-> dir]
             L == Listed(f)
             M == [i \in 1 .. n + 1 |-> IF i = n + 1 THEN x ELSE L[i]]
             O == [cfg : C \cup {NoConfig}, dir : Nat]
  <2>1. L \in Seq(O) /\ Len(L) = n
    BY ListedType DEF n
  <2>2. x \in O
    OBVIOUS
  <2> HIDE DEF x, L, O
  <2>3. Append(L, x) = M
    BY <2>1, <2>2, AppendIs
  <2>4. Listed(g) = [i \in 1 .. n + 1 |-> [cfg |-> g.groups[i].cfg, dir |-> g.groups[i].dir]]
    BY <1>4 DEF Listed
  <2>5. \A i \in 1 .. n + 1 : [cfg |-> g.groups[i].cfg, dir |-> g.groups[i].dir]
                                 = IF i = n + 1 THEN x ELSE L[i]
    <3>1. [cfg |-> new.cfg, dir |-> new.dir] = x
      BY DEF x
    <3>2. \A i \in 1 .. n : L[i] = [cfg |-> f.groups[i].cfg, dir |-> f.groups[i].dir]
      BY <1>4 DEF L, Listed
    <3>3. QED BY <1>4, <1>5, <3>1, <3>2
  <2>6. QED BY <2>3, <2>4, <2>5 DEF L, x
<1>8. Distinct(Listed(g))
  <2>1. \A i, j \in 1 .. n : Listed(f)[i].dir = Listed(f)[j].dir => i = j
    BY <1>6 DEF Distinct
  <2>2. QED BY <1>5, <1>6, <2>1 DEF Distinct
<1>9. ASSUME NEW d, ColorOf(f, d) # NoColor PROVE ColorOf(g, d) = ColorOf(f, d)
  <2>1. \A i \in DOMAIN f.groups : i \in DOMAIN g.groups /\ g.groups[i] = f.groups[i]
    BY <1>4
  <2>2. QED BY <1>1, <1>8, <1>9, <2>1, ColorCarried
<1>10. QED BY <1>3, <1>7, <1>8, <1>9 DEF g


\* Deleting a monitor's group: the others stay, in their order and with their colours.
LEMMA DeleteGroupRemoves ==
  ASSUME NEW V, NEW N, NEW C, NEW P, NEW f \in FileOf(V, N, C, P), Distinct(Listed(f)),
         NEW k \in DOMAIN f.groups
  PROVE  LET g == DeleteGroup(f, f.groups[k].dir)
         IN  /\ Listed(g) = RemoveAt(Listed(f), k)
             /\ g.viewer_type = f.viewer_type /\ g.next_color = f.next_color
             /\ Distinct(Listed(g))
             /\ \A d : d # f.groups[k].dir /\ ColorOf(f, d) # NoColor
                         => ColorOf(g, d) = ColorOf(f, d)
<1> DEFINE dir == f.groups[k].dir
           g == DeleteGroup(f, dir)
           c == CHOOSE i \in DOMAIN f.groups : f.groups[i].dir = dir
           n == Len(f.groups)
           O == [cfg : C \cup {NoConfig}, dir : Nat]
           L == Listed(f)
           R == RemoveAt(L, k)
           At(i) == IF i < k THEN i ELSE i + 1
<1>1. g \in FileOf(V, N, C, P)
  BY DeleteGroupType
<1>2. c = k
  <2>1. c \in DOMAIN f.groups /\ f.groups[c].dir = dir
    OBVIOUS
  <2> HIDE DEF c
  <2>2. QED BY <2>1, Groups DEF Distinct
<1>3. g = [f EXCEPT !.groups = RemoveAt(f.groups, k)]
  <2>1. HasGroup(f, dir)
    BY DEF HasGroup
  <2>2. QED BY <1>2, <2>1 DEF DeleteGroup
<1> HIDE DEF g, c
<1>4. g.viewer_type = f.viewer_type /\ g.next_color = f.next_color
      /\ g.groups = RemoveAt(f.groups, k)
  BY <1>3 DEF FileOf
<1>5. n \in Nat /\ DOMAIN f.groups = 1 .. n /\ k \in 1 .. n
  BY Groups
<1>6. Len(g.groups) = n - 1 /\ DOMAIN g.groups = 1 .. n - 1
      /\ \A i \in 1 .. n - 1 : g.groups[i] = f.groups[At(i)]
  <2>1. Len(g.groups) = n - 1
        /\ \A i \in 1 .. n - 1 : g.groups[i] = IF i < k THEN f.groups[i] ELSE f.groups[i + 1]
    <3>1. f.groups \in Seq(GroupOf(C, P)) /\ k \in 1 .. Len(f.groups)
      BY <1>5, Groups
    <3> HIDE DEF n
    <3>2. /\ Len(RemoveAt(f.groups, k)) = Len(f.groups) - 1
          /\ \A i \in 1 .. Len(f.groups) - 1 :
               RemoveAt(f.groups, k)[i] = IF i < k THEN f.groups[i] ELSE f.groups[i + 1]
      BY <3>1, RemoveAtProperties
    <3>3. QED BY <1>4, <3>2 DEF n
  <2>2. DOMAIN g.groups = 1 .. n - 1
    BY <1>1, <2>1, Groups
  <2>3. QED BY <2>1, <2>2
<1>7. L \in Seq(O) /\ Len(L) = n
  BY ListedType
<1>8. R \in Seq(O) /\ Len(R) = n - 1 /\ \A i \in 1 .. n - 1 : R[i] = L[At(i)]
  <2> HIDE DEF L, O, n
  <2>1. R \in Seq(O) /\ Len(R) = n - 1
        /\ \A i \in 1 .. n - 1 : R[i] = IF i < k THEN L[i] ELSE L[i + 1]
    BY <1>5, <1>7, RemoveAtProperties
  <2>2. QED BY <2>1
<1> HIDE DEF n
<1>9. \A i \in 1 .. n - 1 : At(i) \in 1 .. n /\ At(i) # k
  BY <1>5
<1>10. \A i, j \in 1 .. n - 1 : At(i) = At(j) => i = j
  BY <1>5
<1>11. \A i \in 1 .. n : i # k => \E j \in 1 .. n - 1 : At(j) = i
  <2> SUFFICES ASSUME NEW i \in 1 .. n, i # k PROVE \E j \in 1 .. n - 1 : At(j) = i
    OBVIOUS
  <2>1. CASE i < k
    BY <1>5, <2>1
  <2>2. CASE i > k
    <3>1. i - 1 \in 1 .. n - 1 /\ At(i - 1) = i
      BY <1>5, <2>2
    <3>2. QED BY <3>1
  <2>3. QED BY <1>5, <2>1, <2>2
<1> HIDE DEF At, R, L, O
<1>12. Listed(g) = R
  <2>1. Listed(g) \in Seq(O) /\ Len(Listed(g)) = n - 1
    BY <1>1, <1>6, ListedType DEF O
  <2>2. ASSUME NEW i \in 1 .. n - 1 PROVE Listed(g)[i] = R[i]
    <3>1. Listed(g)[i] = [cfg |-> f.groups[At(i)].cfg, dir |-> f.groups[At(i)].dir]
      BY <1>6 DEF Listed
    <3>2. L[At(i)] = [cfg |-> f.groups[At(i)].cfg, dir |-> f.groups[At(i)].dir]
      BY <1>5, <1>9 DEF Listed, L
    <3>3. QED BY <1>8, <3>1, <3>2
  <2>3. QED BY <1>8, <2>1, <2>2, SeqEqual
<1>13. Distinct(Listed(g))
  <2>1. DOMAIN Listed(g) = 1 .. n - 1 /\ DOMAIN L = 1 .. n
        /\ \A i \in 1 .. n - 1 : Listed(g)[i].dir = L[At(i)].dir
    BY <1>1, <1>5, <1>6, <1>8, <1>12, Groups DEF L
  <2>2. QED BY <1>9, <1>10, <2>1 DEF Distinct, L
<1>14. ASSUME NEW d, d # dir, ColorOf(f, d) # NoColor PROVE ColorOf(g, d) = ColorOf(f, d)
  <2>1. ASSUME NEW i \in DOMAIN f.groups, f.groups[i].dir = d
        PROVE  \E j \in DOMAIN g.groups : /\ g.groups[j].dir = d
                                          /\ g.groups[j].color = f.groups[i].color
    <3>1. PICK j \in 1 .. n - 1 : At(j) = i
      BY <1>5, <1>11, <1>14, <2>1
    <3>2. QED BY <1>6, <2>1, <3>1
  <2>2. QED BY <1>1, <1>13, <1>14, <2>1, ColorCarried
<1>15. QED BY <1>4, <1>12, <1>13, <1>14 DEF g, L, R


\* Saving what a group says already.
LEMMA SaveGroupSame ==
  ASSUME NEW V, NEW N, NEW C, NEW P, NEW f \in FileOf(V, N, C, P), Distinct(Listed(f)),
         NEW k \in DOMAIN f.groups
  PROVE  SaveGroup(f, f.groups[k].dir, f.groups[k].cfg) = f
<1> DEFINE dir == f.groups[k].dir
           cfg == f.groups[k].cfg
           g == [i \in DOMAIN f.groups |-> IF f.groups[i].dir = dir
                                           THEN [f.groups[i] EXCEPT !.cfg = cfg]
                                           ELSE f.groups[i]]
<1>1. HasGroup(f, dir)
  BY DEF HasGroup
<1>2. SaveGroup(f, dir, cfg) = [f EXCEPT !.groups = g]
  BY <1>1 DEF SaveGroup
<1>3. \A i \in DOMAIN f.groups : f.groups[i].dir = dir => f.groups[i].cfg = cfg
  BY Groups DEF Distinct
<1>4. \A x \in GroupOf(C, P) : [x EXCEPT !.cfg = x.cfg] = x
  BY DEF GroupOf
<1>5. \A i \in DOMAIN f.groups : g[i] = f.groups[i]
  BY <1>3, <1>4, Groups
<1>6. f.groups = [i \in DOMAIN f.groups |-> f.groups[i]]
  BY Groups
<1>7. g = f.groups
  BY <1>5, <1>6
<1> HIDE DEF g
<1>8. [f EXCEPT !.groups = f.groups] = f
  BY DEF FileOf
<1>9. QED BY <1>2, <1>7, <1>8

\* save_monitors writes a file that lists the monitors already as it is.
LEMMA SaveMonitorsSame ==
  ASSUME NEW V, NEW N, NEW C, NEW P, NEW f \in FileOf(V, N, C, P), Distinct(Listed(f)),
         Listed(f) \in Seq([cfg : C, dir : Nat])
  PROVE  SaveMonitors(f, Listed(f)) = f
<1> DEFINE n == Len(Listed(f))
<1>1. PICK saved : Saving(saved, f, Listed(f))
  BY SaveMonitorsSteps
<1>2. n \in Nat /\ n = Len(f.groups) /\ DOMAIN f.groups = 1 .. n
  BY ListedType, Groups
<1> DEFINE T == {f}
<1>3. ASSUME NEW k \in 0 .. n - 1, saved[k] \in T PROVE saved[k + 1] \in T
  <2>1. k + 1 \in DOMAIN f.groups
    BY <1>2
  <2>2. Listed(f)[k + 1].dir = f.groups[k + 1].dir /\ Listed(f)[k + 1].cfg = f.groups[k + 1].cfg
    BY <2>1, Groups
  <2>3. saved[k + 1] = SaveGroup(f, f.groups[k + 1].dir, f.groups[k + 1].cfg)
    BY <1>1, <1>3, <2>2 DEF Saving
  <2>4. QED BY <2>1, <2>3, SaveGroupSame
<1>4. SaveMonitors(f, Listed(f)) = saved[n] /\ saved[0] = f
  BY <1>1 DEF Saving
<1> HIDE DEF n
<1>5. \A k \in 0 .. n : saved[k] \in T
  <2>1. saved[0] \in T
    BY <1>4
  <2> HIDE DEF T
  <2>2. QED BY <1>2, <1>3, <2>1, IterationIn
<1>6. n \in 0 .. n
  BY <1>2
<1>7. QED BY <1>4, <1>5, <1>6

\* load_monitors reads back what is listed, when each group has a configuration.
LEMMA LoadMonitorsSame ==
  ASSUME NEW V, NEW N, NEW C, NEW P, NEW f \in FileOf(V, N, C, P), Sound(Listed(f))
  PROVE  LoadMonitors(f) = Listed(f)
<1> DEFINE n == Len(f.groups)
           L == Listed(f)
           O == [cfg : C, dir : Nat]
           First(k) == [i \in 1 .. k |-> L[i]]
<1>1. PICK loaded : Loading(loaded, f, O)
  BY LoadMonitorsSteps
<1>2. /\ n \in Nat /\ L \in Seq([cfg : C \cup {NoConfig}, dir : Nat]) /\ Len(L) = n
      /\ DOMAIN f.groups = 1 .. n /\ DOMAIN L = 1 .. n
  BY ListedType, Groups
<1>3. \A i \in 1 .. n : L[i] = [cfg |-> f.groups[i].cfg, dir |-> f.groups[i].dir]
                        /\ f.groups[i].cfg # NoConfig
  BY <1>2, Groups DEF Listed, Sound
<1>4. /\ LoadMonitors(f) = loaded[n] /\ loaded[0] = <<>>
      /\ \A k \in 0 .. n - 1 : loaded[k + 1] = Reading(loaded[k], f.groups[k + 1])
      /\ \A k \in 0 .. n : loaded[k] \in Seq(O)
  BY <1>1 DEF Loading
<1> DEFINE P0 == {k \in 0 .. n : loaded[k] = First(k)}
<1>5. 0 \in P0
  <2>1. First(0) = <<>>
    OBVIOUS
  <2>2. QED BY <1>2, <1>4, <2>1
<1> HIDE DEF n, L, O
<1>6. \A k \in 0 .. n - 1 : k \in P0 => k + 1 \in P0
  <2> SUFFICES ASSUME NEW k \in 0 .. n - 1, loaded[k] = First(k)
               PROVE  loaded[k + 1] = First(k + 1)
    <3>1. \A k \in 0 .. n - 1 : k + 1 \in 0 .. n
      BY <1>2
    <3> HIDE DEF First
    <3>2. QED BY <3>1
  <2>1. k + 1 \in 1 .. n /\ k \in 0 .. n /\ k \in Nat
    BY <1>2
  <2>2. loaded[k + 1] = Append(loaded[k], L[k + 1])
    BY <1>3, <1>4, <2>1 DEF Reading
  <2>3. loaded[k] \in Seq(O) /\ Len(loaded[k]) = k /\ loaded[k + 1] \in Seq(O)
    <3>1. loaded[k] \in Seq(O) /\ loaded[k + 1] \in Seq(O)
      <4>1. \A j \in 0 .. n : loaded[j] \in Seq(O)
        BY <1>4
      <4>2. k \in 0 .. n /\ k + 1 \in 0 .. n
        BY <1>2
      <4> HIDE DEF P0, First
      <4>3. QED BY <4>1, <4>2
    <3>2. DOMAIN loaded[k] = 1 .. k
      OBVIOUS
    <3>3. QED BY <2>1, <3>1, <3>2, LenProperties
  <2>4. loaded[k + 1] = [i \in 1 .. k + 1 |-> IF i = k + 1 THEN L[k + 1] ELSE loaded[k][i]]
    <3> DEFINE T == O \cup {L[k + 1]}
    <3>1. loaded[k] \in Seq(T) /\ L[k + 1] \in T
      BY <2>3
    <3> HIDE DEF T
    <3>2. QED BY <2>2, <2>3, <3>1, AppendIs
  <2>5. \A i \in 1 .. k + 1 : i = k + 1 \/ i \in 1 .. k
    BY <2>1
  <2>6. \A i \in 1 .. k : loaded[k][i] = L[i]
    OBVIOUS
  <2>7. QED BY <2>4, <2>5, <2>6
<1>7. 0 .. n \subseteq P0
  <2> HIDE DEF P0
  <2> QED BY <1>2, <1>5, <1>6, InductionUpTo
<1>8. LoadMonitors(f) = First(n)
  BY <1>2, <1>4, <1>7
<1>9. First(n) = L
  BY <1>2, LenProperties
<1>10. QED BY <1>8, <1>9 DEF L
--------------------------------------------------------------------------
(* The state of the plugin. *)

StoreT == [next_color : 0 .. Len(Palette) - 1, file : File, past : SUBSET File,
           missed : BOOLEAN]
ViewT == [type : KnownTypes \cup {NoView}, elements : Seq(Element)]

\* A view shows each of the monitors once.
Shows(v, mons) ==
  v.type # NoView => IsInjective(Shown(v)) /\ Range(Shown(v)) = Range(mons)

IInv == TypeOK /\ OneElementPerMonitor /\ ViewIsChosen

\* What a handler has to leave for the invariant to hold whether it returns or dies.
ResultT == [store : StoreT, monitors : Seq(Monitor),
            object : [Monitor -> Object \cup {Freed}], view : ViewT,
            viewer_type : Type, button : KnownTypes \cup {NoWindow}]
Fit(r) ==
  /\ r \in ResultT
  /\ IsInjective(r.monitors)
  /\ Range(r.monitors) = {m \in Monitor : r.object[m] # Freed}
  /\ Shows(r.view, r.monitors)
  /\ r.view.type = IF r.viewer_type \in KnownTypes THEN r.viewer_type ELSE NoView
ButtonShows(r) == r.viewer_type \in KnownTypes => r.button \in {r.viewer_type, NoWindow}
Good(r) == Fit(r) /\ ButtonShows(r)
--------------------------------------------------------------------------
\* Objects that are allocated and freed.

\* One object is allocated and another one freed.
Swapped(ob, new, x, old, freed) == [ob EXCEPT ![new] = x, ![old] = freed]
Allocated(M, ob, freed) == {m \in M : ob[m] # freed}

\* The new one takes the old one's place among the allocated objects.
LEMMA SwappedObjects ==
  ASSUME NEW M, NEW O, NEW freed, freed \notin O, NEW ob \in [M -> O \cup {freed}],
         NEW new \in M, NEW old \in M, new # old, NEW x \in O
  PROVE  /\ Swapped(ob, new, x, old, freed) \in [M -> O \cup {freed}]
         /\ Allocated(M, Swapped(ob, new, x, old, freed), freed)
              = (Allocated(M, ob, freed) \ {old}) \cup {new}
<1> DEFINE s == Swapped(ob, new, x, old, freed)
<1>1. s = [m \in M |-> IF m = old THEN freed ELSE IF m = new THEN x ELSE ob[m]]
  BY DEF Swapped
<1> HIDE DEF s
<1>2. s \in [M -> O \cup {freed}]
  BY <1>1
<1>3. \A m \in M : s[m] # freed <=> (m # old /\ (m = new \/ ob[m] # freed))
  BY <1>1
<1>4. Allocated(M, s, freed) = (Allocated(M, ob, freed) \ {old}) \cup {new}
  BY <1>3 DEF Allocated
<1>5. QED BY <1>2, <1>4 DEF s

--------------------------------------------------------------------------
\* The store.

\* File is the shape of file that the lemmas above are about.
LEMMA FileShape == File = FileOf(Type, 0 .. Len(Palette) - 1, Config, Color)
BY DEF File, FileOf, GroupOf

\* get_fg_color has a colour to hand out.
LEMMA PaletteHasColors ==
  /\ Len(Palette) \in Nat \ {0}
  /\ \A c \in 0 .. Len(Palette) - 1 : Palette[c + 1] \in Color
<1>1. Palette \in Seq(Color) /\ Palette # <<>>
  BY PluginAssumption
<1>2. Len(Palette) \in Nat /\ Len(Palette) # 0
  BY <1>1
<1>3. \A c \in 0 .. Len(Palette) - 1 : c + 1 \in 1 .. Len(Palette)
  BY <1>2
<1>4. QED BY <1>1, <1>2, <1>3, ElementOfSeq

\* A handler starts from a well-formed store.
LEMMA StoreType ==
  ASSUME TypeOK
  PROVE  Store \in StoreT
BY DEF TypeOK, Store, StoreT

\* A write of the settings file, skipped or not, leaves a store.
LEMMA FlushType ==
  ASSUME NEW s \in StoreT, NEW f \in File
  PROVE  Flush(s, f) \in StoreT
<1>1. [s EXCEPT !.file = f, !.past = s.past \cup {f}] \in StoreT
  BY DEF StoreT
<1>2. [s EXCEPT !.missed = TRUE] \in StoreT
  BY DEF StoreT
<1>3. QED BY <1>1, <1>2 DEF Flush

\* get_fg_color keeps next_color within the palette, in memory and in the file.
LEMMA NextColorType ==
  ASSUME NEW s \in StoreT
  PROVE  NextColor(s) \in StoreT
<1> DEFINE c == (s.next_color + 1) % Len(Palette)
           f == [s.file EXCEPT !.next_color = c]
           t == [s EXCEPT !.next_color = c]
<1>1. c \in 0 .. Len(Palette) - 1
  <2>1. s.next_color \in 0 .. Len(Palette) - 1
    BY DEF StoreT
  <2>2. QED BY <2>1, PaletteHasColors
<1> HIDE DEF c
<1>2. t \in StoreT
  BY <1>1 DEF StoreT
<1>3. f \in File
  <2>1. s.file \in File
    BY DEF StoreT
  <2>2. QED BY <1>1, <2>1 DEF File
<1>4. NextColor(s) = Flush(t, f)
  BY DEF NextColor, c
<1> HIDE DEF t, f
<1>5. QED BY <1>2, <1>3, <1>4, FlushType

\* A viewer's colour is one of the palette, or one the settings file holds.
LEMMA AttachType ==
  ASSUME NEW s \in StoreT, NEW type, NEW dir \in Nat
  PROVE  Attach(s, type, dir) \in [store : StoreT, color : Color \cup {NoColor}]
<1> DEFINE c == Palette[s.next_color + 1]
           t == NextColor(s)
<1>1. s.next_color \in 0 .. Len(Palette) - 1 /\ s.file \in File
  BY DEF StoreT
<1>2. c \in Color
  BY <1>1, PaletteHasColors
<1>3. t \in StoreT
  BY NextColorType
<1>4. ColorOf(s.file, dir) \in Color \cup {NoColor}
  BY <1>1, FileShape, ColorOfType
<1>5. SaveColor(t.file, dir, c) \in File
  <2>1. t.file \in File
    BY <1>3 DEF StoreT
  <2> HIDE DEF t, c
  <2>2. QED BY <1>2, <2>1, FileShape, SaveColorType
<1> HIDE DEF t, c
<1>6. Flush(t, SaveColor(t.file, dir, c)) \in StoreT
  BY <1>3, <1>5, FlushType
<1>7. Attach(s, type, dir) =
        IF type \notin GraphTypes THEN [store |-> s, color |-> NoColor]
        ELSE IF ColorOf(s.file, dir) # NoColor
        THEN [store |-> t, color |-> ColorOf(s.file, dir)]
        ELSE [store |-> Flush(t, SaveColor(t.file, dir, c)), color |-> c]
  BY DEF Attach, t, c
<1>8. QED BY <1>2, <1>3, <1>4, <1>6, <1>7

\* Each of the monitors has a settings directory.
Located(obj, mons) == \A k \in DOMAIN mons : obj[mons[k]].dir \in Nat

\* The stores and colours that the attaching of all the monitors goes through.
Attaching(made, s, type, mons, obj) ==
  /\ made[0] = [store |-> s, color |-> NoColor]
  /\ \A k \in 0 .. Len(mons) - 1 :
       made[k + 1] = Attach(made[k].store, type, obj[mons[k + 1]].dir)
  /\ \A k \in 0 .. Len(mons) : made[k] \in [store : StoreT, color : Color \cup {NoColor}]
  /\ AttachAll(s, type, mons, obj) =
       [store |-> made[Len(mons)].store,
        view |-> [type |-> type,
                  elements |-> [k \in 1 .. Len(mons) |-> [mon |-> mons[k],
                                                          color |-> made[k].color]]]]

\* A new view attaches the monitors in turn.
LEMMA AttachAllSteps ==
  ASSUME NEW s \in StoreT, NEW type \in KnownTypes, NEW mons \in Seq(Monitor), NEW obj,
         Located(obj, mons)
  PROVE  \E made : Attaching(made, s, type, mons, obj)
<1> DEFINE n == Len(mons)
           S == [store : StoreT, color : Color \cup {NoColor}]
           base == [store |-> s, color |-> NoColor]
           One(x, k) == Attach(x.store, type, obj[mons[k]].dir)
           step == [k \in 1 .. n |-> [x \in S |-> One(x, k)]]
           Is(g) == g = [k \in 0 .. n |->
                          IF k = 0 THEN base
                          ELSE Attach(g[k - 1].store, type, obj[mons[k]].dir)]
           made == CHOOSE g : Is(g)
           elements == [k \in 1 .. n |-> [mon |-> mons[k], color |-> made[k].color]]
<1>1. n \in Nat /\ DOMAIN mons = 1 .. n /\ \A k \in 1 .. n : mons[k] \in Monitor
  BY LenProperties, ElementOfSeq
<1>2. AttachAll(s, type, mons, obj) =
        [store |-> made[n].store, view |-> [type |-> type, elements |-> elements]]
  BY DEF AttachAll
<1> HIDE DEF n
<1>3. \A k \in 1 .. n, x \in S : One(x, k) \in S
  BY <1>1, AttachType DEF Located
<1>4. base \in S
  OBVIOUS
<1> HIDE DEF S, base
<1>5. step \in [1 .. n -> [S -> S]]
  <2> HIDE DEF One
  <2> QED BY <1>3
<1>6. PICK h : Iterates(h, n, S, base, step)
  <2> HIDE DEF step
  <2> QED BY <1>1, <1>4, <1>5, IterationExists
<1>7. Is(h)
  <2>1. \A k \in 0 .. n : k = 0 \/ (k \in 1 .. n /\ k # 0)
    BY <1>1
  <2>2. \A k \in 1 .. n : h[k] = One(h[k - 1], k)
    <3> HIDE DEF One, step
    <3>1. \A k \in 1 .. n : k - 1 \in 0 .. n /\ h[k] = step[k][h[k - 1]] /\ h[k - 1] \in S
      BY <1>1, <1>6 DEF Iterates
    <3>2. \A k \in 1 .. n, x \in S : step[k][x] = One(x, k)
      BY DEF step
    <3>3. QED BY <3>1, <3>2
  <2>3. h[0] = base /\ h \in [0 .. n -> S]
    BY <1>6 DEF Iterates
  <2> HIDE DEF step
  <2>4. \A k \in 0 .. n : h[k] = IF k = 0 THEN base ELSE One(h[k - 1], k)
    BY <2>1, <2>2, <2>3
  <2>5. QED BY <2>3, <2>4
<1>8. Is(made)
  <2> HIDE DEF Is
  <2> QED BY <1>7
<1>9. made[0] = base /\ \A k \in 0 .. n - 1 : made[k + 1] = One(made[k], k + 1)
  <2> HIDE DEF made
  <2>1. 0 \in 0 .. n /\ \A k \in 0 .. n - 1 : k + 1 \in 0 .. n /\ k + 1 # 0 /\ (k + 1) - 1 = k
    BY <1>1
  <2>2. \A k \in 0 .. n : made[k] = IF k = 0 THEN base ELSE One(made[k - 1], k)
    BY <1>8
  <2> HIDE DEF One, Is
  <2>3. QED BY <2>1, <2>2
<1>10. \A k \in 0 .. n : made[k] \in S
  <2> HIDE DEF made, One
  <2>1. \A k \in 0 .. n - 1 : k + 1 \in 1 .. n
    BY <1>1
  <2>2. \A k \in 0 .. n - 1 : made[k] \in S => made[k + 1] \in S
    BY <1>3, <1>9, <2>1
  <2>3. QED BY <1>1, <1>4, <1>9, <2>2, IterationIn
<1>11. QED
  <2> HIDE DEF made
  <2>1. AttachAll(s, type, mons, obj) =
          [store |-> made[n].store, view |-> [type |-> type, elements |-> elements]]
    BY <1>2
  <2>2. QED BY <1>9, <1>10, <2>1 DEF Attaching, S, base, n

\* A new view shows the monitors it is made for, in their order.
LEMMA AttachAllType ==
  ASSUME NEW s \in StoreT, NEW type \in KnownTypes, NEW mons \in Seq(Monitor), NEW obj,
         Located(obj, mons)
  PROVE  /\ AttachAll(s, type, mons, obj).store \in StoreT
         /\ AttachAll(s, type, mons, obj).view \in ViewT
         /\ AttachAll(s, type, mons, obj).view.type = type
         /\ Shown(AttachAll(s, type, mons, obj).view) = mons
<1> DEFINE n == Len(mons)
           S == [store : StoreT, color : Color \cup {NoColor}]
<1>0. PICK made : Attaching(made, s, type, mons, obj)
  BY AttachAllSteps
<1> DEFINE elements == [k \in 1 .. n |-> [mon |-> mons[k], color |-> made[k].color]]
<1>1. n \in Nat /\ DOMAIN mons = 1 .. n /\ \A k \in 1 .. n : mons[k] \in Monitor
  BY LenProperties, ElementOfSeq
<1>2. AttachAll(s, type, mons, obj) =
        [store |-> made[n].store, view |-> [type |-> type, elements |-> elements]]
  BY <1>0 DEF Attaching
<1>10. \A k \in 0 .. n : made[k] \in S
  BY <1>0 DEF Attaching
<1> HIDE DEF n, S
<1>11. n \in 0 .. n /\ \A k \in 1 .. n : k \in 0 .. n
  BY <1>1
<1>12. made[n].store \in StoreT /\ \A k \in 1 .. n : made[k].color \in Color \cup {NoColor}
  BY <1>10, <1>11 DEF S
<1>13. elements \in [1 .. n -> Element]
  BY <1>1, <1>12 DEF Element
<1>14. DOMAIN elements = 1 .. n /\ \A k \in 1 .. n : elements[k].mon = mons[k]
  OBVIOUS
<1> HIDE DEF elements
<1>15. elements \in Seq(Element)
  BY <1>1, <1>13, SeqDef
<1>16. [type |-> type, elements |-> elements] \in ViewT
  BY <1>15 DEF ViewT
<1>17. Shown([type |-> type, elements |-> elements]) = mons
  <2>1. Shown([type |-> type, elements |-> elements]) = [i \in 1 .. n |-> mons[i]]
    BY <1>14 DEF Shown
  <2>2. mons = [i \in 1 .. n |-> mons[i]]
    BY <1>1, LenProperties
  <2>3. QED BY <2>1, <2>2
<1>18. QED BY <1>2, <1>12, <1>16, <1>17

\* The monitors a view shows are a list as long as its elements.
LEMMA ShownType ==
  ASSUME NEW v \in ViewT
  PROVE  /\ Shown(v) \in Seq(Monitor) /\ Len(Shown(v)) = Len(v.elements)
         /\ \A i \in DOMAIN v.elements : Shown(v)[i] = v.elements[i].mon
<1> DEFINE e == v.elements
           n == Len(e)
<1>1. e \in Seq(Element)
  BY DEF ViewT
<1>2. n \in Nat /\ DOMAIN e = 1 .. n /\ \A i \in 1 .. n : e[i] \in Element
  BY <1>1, ElementOfSeq
<1>3. Shown(v) = [i \in 1 .. n |-> e[i].mon]
  BY <1>2 DEF Shown
<1> HIDE DEF e, n
<1>4. Shown(v) \in [1 .. n -> Monitor]
  BY <1>2, <1>3 DEF Element
<1>5. Shown(v) \in Seq(Monitor)
  BY <1>2, <1>4, SeqDef
<1>6. Len(Shown(v)) = n
  BY <1>2, <1>4, <1>5, LenProperties
<1>7. QED BY <1>2, <1>3, <1>5, <1>6 DEF e, n

\* A view, if there is one, shows the new monitor last.
LEMMA AttachOneType ==
  ASSUME NEW s \in StoreT, NEW v \in ViewT, NEW mon \in Monitor, NEW dir \in Nat
  PROVE  /\ AttachOne(s, v, mon, dir).store \in StoreT
         /\ AttachOne(s, v, mon, dir).view \in ViewT
         /\ AttachOne(s, v, mon, dir).view.type = v.type
         /\ v.type # NoView =>
              Shown(AttachOne(s, v, mon, dir).view) = Append(Shown(v), mon)
<1>1. CASE v.type = NoView
  BY <1>1 DEF AttachOne
<1>2. CASE v.type # NoView
  <2> DEFINE a == Attach(s, v.type, dir)
             x == [mon |-> mon, color |-> a.color]
             e == Append(v.elements, x)
             w == [v EXCEPT !.elements = e]
  <2>1. AttachOne(s, v, mon, dir) = [store |-> a.store, view |-> w]
    BY <1>2 DEF AttachOne
  <2>2. a \in [store : StoreT, color : Color \cup {NoColor}]
    BY AttachType
  <2>3. v.elements \in Seq(Element)
    BY DEF ViewT
  <2> HIDE DEF a
  <2>4. x \in Element /\ x.mon = mon
    BY <2>2 DEF Element
  <2> HIDE DEF x
  <2>5. e \in Seq(Element) /\ Len(e) = Len(v.elements) + 1 /\ e[Len(v.elements) + 1] = x
        /\ \A i \in 1 .. Len(v.elements) : e[i] = v.elements[i]
    BY <2>3, <2>4
  <2>6. Len(v.elements) \in Nat /\ DOMAIN v.elements = 1 .. Len(v.elements)
    BY <2>3
  <2> HIDE DEF e
  <2>7. w \in ViewT /\ w.type = v.type /\ w.elements = e
    BY <2>5 DEF ViewT
  <2> HIDE DEF w
  <2>8. Shown(w) = Append(Shown(v), mon)
    <3> DEFINE n == Len(v.elements)
               p == Shown(w)
               q == Append(Shown(v), mon)
    <3>1. p \in Seq(Monitor) /\ Len(p) = n + 1 /\ \A i \in 1 .. n + 1 : p[i] = e[i].mon
      <4>1. DOMAIN e = 1 .. n + 1
        BY <2>5
      <4>2. QED BY <2>5, <2>7, <4>1, ShownType
    <3>2. Shown(v) \in Seq(Monitor) /\ Len(Shown(v)) = n
          /\ \A i \in 1 .. n : Shown(v)[i] = v.elements[i].mon
      BY <2>6, ShownType
    <3>3. q \in Seq(Monitor) /\ Len(q) = n + 1 /\ q[n + 1] = mon
          /\ \A i \in 1 .. n : q[i] = Shown(v)[i]
      BY <3>2
    <3> HIDE DEF p, q, n
    <3>4. n \in Nat /\ \A i \in 1 .. n + 1 : i = n + 1 \/ i \in 1 .. n
      BY <2>6 DEF n
    <3>5. \A i \in 1 .. n + 1 : p[i] = q[i]
      <4>1. p[n + 1] = q[n + 1]
        BY <2>4, <2>5, <3>1, <3>3, <3>4 DEF n
      <4>2. \A i \in 1 .. n : i \in 1 .. n + 1
        BY <3>4
      <4>3. \A i \in 1 .. n : p[i] = q[i]
        BY <2>5, <3>1, <3>2, <3>3, <4>2 DEF n
      <4>4. QED BY <3>4, <4>1, <4>3
    <3>6. p = q
      BY <3>1, <3>3, <3>5, SeqEqual
    <3>7. QED BY <3>6 DEF p, q
  <2>9. QED BY <2>1, <2>2, <2>7, <2>8
<1>3. QED BY <1>1, <1>2

\* The monitor leaves the view, and the others stay.
LEMMA DetachType ==
  ASSUME NEW v \in ViewT, NEW mon \in Monitor,
         v.type # NoView => IsInjective(Shown(v)) /\ mon \in Range(Shown(v))
  PROVE  /\ Detach(v, mon) \in ViewT /\ Detach(v, mon).type = v.type
         /\ v.type # NoView => /\ IsInjective(Shown(Detach(v, mon)))
                               /\ Range(Shown(Detach(v, mon))) = Range(Shown(v)) \ {mon}
         /\ \A k \in DOMAIN Detach(v, mon).elements :
              \E j \in DOMAIN v.elements : Detach(v, mon).elements[k] = v.elements[j]
<1>1. CASE v.type = NoView
  BY <1>1 DEF Detach
<1>2. CASE v.type # NoView
  <2> DEFINE n == Len(v.elements)
             First(i) == v.elements[i].mon = mon
                         /\ \A j \in 1 .. i - 1 : v.elements[j].mon # mon
             i == CHOOSE i \in DOMAIN v.elements : First(i)
             e == RemoveAt(v.elements, i)
             w == [v EXCEPT !.elements = e]
             p == Shown(v)
  <2>1. v.elements \in Seq(Element)
    BY DEF ViewT
  <2>2. n \in Nat /\ DOMAIN v.elements = 1 .. n
    BY <2>1
  <2>3. p \in Seq(Monitor) /\ DOMAIN p = 1 .. n /\ \A j \in 1 .. n : p[j] = v.elements[j].mon
    BY <2>2, ShownType
  <2>4. Detach(v, mon) = w
    BY <1>2 DEF Detach
  <2> HIDE DEF n, p
  <2>5. PICK j \in 1 .. n : p[j] = mon
    BY <1>2, <2>3 DEF Range, p
  <2>6. First(j)
    <3>1. \A k \in 1 .. j - 1 : k \in 1 .. n /\ k # j
      BY <2>2
    <3>2. \A k \in 1 .. j - 1 : p[k] # mon
      BY <1>2, <2>3, <2>5, <3>1 DEF IsInjective, p
    <3>3. QED BY <2>3, <2>5, <3>1, <3>2
  <2>7. i \in 1 .. n /\ First(i)
    BY <2>2, <2>6
  <2>8. p[i] = mon
    BY <2>3, <2>7
  <2> HIDE DEF i, First
  <2>9. e \in Seq(Element) /\ Len(e) = n - 1
        /\ \A k \in 1 .. n - 1 : e[k] = IF k < i THEN v.elements[k] ELSE v.elements[k + 1]
    BY <2>1, <2>7, RemoveAtProperties DEF n
  <2> HIDE DEF e
  <2>10. w \in ViewT /\ w.type = v.type /\ w.elements = e
    BY <2>9 DEF ViewT
  <2> HIDE DEF w
  <2>11. Shown(w) = RemoveAt(p, i)
    <3> DEFINE q == Shown(w)
               r == RemoveAt(p, i)
    <3>1. DOMAIN e = 1 .. n - 1
      BY <2>9
    <3>2. q \in Seq(Monitor) /\ Len(q) = n - 1 /\ \A k \in 1 .. n - 1 : q[k] = e[k].mon
      BY <2>9, <2>10, <3>1, ShownType
    <3>3. Len(p) = n /\ Len(p) \in Nat
      BY <2>3, <2>2
    <3>4. r \in Seq(Monitor) /\ Len(r) = n - 1
          /\ \A k \in 1 .. n - 1 : r[k] = IF k < i THEN p[k] ELSE p[k + 1]
      BY <2>3, <2>7, <3>3, RemoveAtProperties
    <3> HIDE DEF q, r
    <3>5. \A k \in 1 .. n - 1 : k \in 1 .. n /\ k + 1 \in 1 .. n
      BY <2>2
    <3>6. \A k \in 1 .. n - 1 : q[k] = r[k]
      BY <2>3, <2>9, <3>2, <3>4, <3>5
    <3>7. q = r
      BY <3>2, <3>4, <3>6, SeqEqual
    <3>8. QED BY <3>7 DEF q, r
  <2>12. IsInjective(p) /\ i \in DOMAIN p
    BY <1>2, <2>3, <2>7 DEF p
  <2>13. IsInjective(RemoveAt(p, i)) /\ Range(RemoveAt(p, i)) = Range(p) \ {mon}
    BY <2>3, <2>8, <2>12, RemoveOne
  <2>14. ASSUME NEW k \in DOMAIN e PROVE \E x \in DOMAIN v.elements : e[k] = v.elements[x]
    <3>1. k \in 1 .. n - 1 /\ k \in 1 .. n /\ k + 1 \in 1 .. n
      BY <2>2, <2>9
    <3>2. QED BY <2>2, <2>9, <3>1
  <2>15. QED BY <2>4, <2>10, <2>11, <2>13, <2>14 DEF p
<1>3. QED BY <1>1, <1>2

--------------------------------------------------------------------------
\* The handlers.

\* What the invariant says while the plugin runs.
LEMMA Running ==
  ASSUME IInv, up
  PROVE  /\ Store \in StoreT /\ file \in File
         /\ monitors \in Seq(Monitor) /\ IsInjective(monitors)
         /\ object \in [Monitor -> Object \cup {Freed}]
         /\ Range(monitors) = {m \in Monitor : object[m] # Freed}
         /\ \A k \in DOMAIN monitors : /\ monitors[k] \in Monitor
                                       /\ object[monitors[k]] \in Object
         /\ view \in ViewT /\ Shows(view, monitors) /\ viewer_type \in Type
         /\ view.type = IF viewer_type \in KnownTypes THEN viewer_type ELSE NoView
         /\ button \in KnownTypes \cup {NoWindow}
         /\ viewer_type \in KnownTypes => button \in {viewer_type, NoWindow}
<1>1. Store \in StoreT
  BY StoreType DEF IInv
<1>2. /\ monitors \in Seq(Monitor) /\ object \in [Monitor -> Object \cup {Freed}]
      /\ file \in File /\ viewer_type \in Type /\ button \in KnownTypes \cup {NoWindow}
  BY DEF IInv, TypeOK
<1>3. view \in ViewT
  BY DEF IInv, TypeOK, ViewT
<1>4. IsInjective(monitors) /\ Range(monitors) = {m \in Monitor : object[m] # Freed}
      /\ Shows(view, monitors)
  BY DEF IInv, OneElementPerMonitor, Shows
<1>5. \A k \in DOMAIN monitors : /\ monitors[k] \in Monitor
                                 /\ object[monitors[k]] \in Object
  <2> SUFFICES ASSUME NEW k \in DOMAIN monitors
               PROVE  monitors[k] \in Monitor /\ object[monitors[k]] \in Object
    OBVIOUS
  <2>1. monitors[k] \in Range(monitors)
    BY DEF Range
  <2>2. monitors[k] \in Monitor /\ object[monitors[k]] # Freed
    BY <1>4, <2>1
  <2>3. QED BY <1>2, <2>2
<1>6. QED BY <1>1, <1>2, <1>3, <1>4, <1>5 DEF IInv, ViewIsChosen

\* find_empty_monitor_dir gives a number, and Monitor::save leaves a file.
LEMMA EmptyDirType ==
  ASSUME NEW f \in File
  PROVE  EmptyDir(f) \in Nat
<1>1. EmptyDir(f) \in 1 .. Len(f.groups) + 1
  BY FileShape, EmptyDirIsFree
<1>2. Len(f.groups) \in Nat
  BY DEF File
<1>3. QED BY <1>1, <1>2

\* Writing a file with one more group saved leaves a store.
LEMMA SaveGroupFlush ==
  ASSUME NEW s \in StoreT, NEW f \in File, NEW dir \in Nat, NEW cfg \in Config
  PROVE  Flush(s, SaveGroup(f, dir, cfg)) \in StoreT
BY FileShape, SaveGroupType, FlushType

\* add_monitor: the monitor is new to the list, and is shown last.
LEMMA AddingGood ==
  ASSUME IInv, up, NEW mon \in Monitor, object[mon] = Freed, NEW cfg \in Config
  PROVE  Good(Adding(mon, cfg))
<1> DEFINE dir == EmptyDir(file)
           s == Flush(Store, SaveGroup(file, dir, cfg))
           a == AttachOne(s, view, mon, dir)
           ms == Append(monitors, mon)
           ob == [object EXCEPT ![mon] = [cfg |-> cfg, dir |-> dir]]
           r == [store |-> a.store, monitors |-> ms, object |-> ob, view |-> a.view,
                 viewer_type |-> viewer_type, button |-> button]
<1>1. Adding(mon, cfg) = r
  BY DEF Adding
<1>2. dir \in Nat
  BY Running, EmptyDirType
<1> HIDE DEF dir
<1>3. s \in StoreT
  BY <1>2, Running, SaveGroupFlush
<1> HIDE DEF s
<1>4. mon \notin Range(monitors)
  BY Running
<1>5. /\ a.store \in StoreT /\ a.view \in ViewT /\ a.view.type = view.type
      /\ view.type # NoView => Shown(a.view) = Append(Shown(view), mon)
  BY <1>2, <1>3, Running, AttachOneType
<1> HIDE DEF a
<1>6. ms \in Seq(Monitor) /\ IsInjective(ms) /\ Range(ms) = Range(monitors) \cup {mon}
  <2>1. ms \in Seq(Monitor)
    BY Running
  <2>2. QED BY <1>4, <2>1, Running, AppendFresh
<1> HIDE DEF ms
<1>7. [cfg |-> cfg, dir |-> dir] \in Object /\ Freed \notin Object
  BY <1>2, PluginAssumption DEF Object
<1>8. ob \in [Monitor -> Object \cup {Freed}]
      /\ {m \in Monitor : ob[m] # Freed} = Range(monitors) \cup {mon}
  BY <1>7, Running
<1> HIDE DEF ob
<1>9. Shows(a.view, ms)
  <2> SUFFICES ASSUME a.view.type # NoView
               PROVE  IsInjective(Shown(a.view)) /\ Range(Shown(a.view)) = Range(ms)
    BY DEF Shows
  <2>1. IsInjective(Shown(view)) /\ Range(Shown(view)) = Range(monitors)
        /\ Shown(view) \in Seq(Monitor)
    BY <1>5, Running, ShownType DEF Shows
  <2>2. IsInjective(Append(Shown(view), mon))
        /\ Range(Append(Shown(view), mon)) = Range(monitors) \cup {mon}
    BY <1>4, <2>1, AppendFresh
  <2>3. QED BY <1>5, <1>6, <2>2
<1>10. Good(r)
  BY <1>5, <1>6, <1>8, <1>9, Running DEF Good, Fit, ButtonShows, ResultT
<1>11. QED BY <1>1, <1>10

\* remove_monitor: the monitor leaves the view, the list and the heap.
LEMMA RemovingGood ==
  ASSUME IInv, up, NEW i \in DOMAIN monitors
  PROVE  Good(Removing(i))
<1> DEFINE mon == monitors[i]
           s == Flush(Store, DeleteGroup(file, object[mon].dir))
           ms == RemoveAt(monitors, i)
           ob == [object EXCEPT ![mon] = Freed]
           w == Detach(view, mon)
           r == [store |-> s, monitors |-> ms, object |-> ob, view |-> w,
                 viewer_type |-> viewer_type, button |-> button]
<1>1. Removing(i) = r
  BY DEF Removing
<1>2. mon \in Monitor /\ mon \in Range(monitors)
  BY Running DEF Range
<1>3. s \in StoreT
  <2> DEFINE f == DeleteGroup(file, object[mon].dir)
  <2>1. f \in File
    BY Running, FileShape, DeleteGroupType
  <2> HIDE DEF f
  <2>2. Flush(Store, f) \in StoreT
    BY <2>1, Running, FlushType
  <2>3. QED BY <2>2 DEF f
<1>4. ms \in Seq(Monitor) /\ IsInjective(ms) /\ Range(ms) = Range(monitors) \ {mon}
  BY Running, RemoveOne
<1> HIDE DEF s, ms, mon
<1>5. ob \in [Monitor -> Object \cup {Freed}]
      /\ {m \in Monitor : ob[m] # Freed} = Range(monitors) \ {mon}
  BY <1>2, Running
<1>6. view \in ViewT
      /\ (view.type # NoView => IsInjective(Shown(view)) /\ mon \in Range(Shown(view)))
  BY <1>2, Running DEF Shows
<1>7. /\ w \in ViewT /\ w.type = view.type
      /\ view.type # NoView => /\ IsInjective(Shown(w))
                               /\ Range(Shown(w)) = Range(Shown(view)) \ {mon}
  BY <1>2, <1>6, DetachType
<1> HIDE DEF ob, w
<1>8. Shows(w, ms)
  BY <1>4, <1>7, Running DEF Shows
<1>9. Good(r)
  BY <1>3, <1>4, <1>5, <1>7, <1>8, Running DEF Good, Fit, ButtonShows, ResultT
<1>10. QED BY <1>1, <1>9

\* replace_monitor: the new monitor is in the previous one's place everywhere.
LEMMA ReplacingGood ==
  ASSUME IInv, up, NEW i \in DOMAIN monitors, NEW mon \in Monitor, object[mon] = Freed,
         NEW cfg \in Config
  PROVE  Good(Replacing(i, mon, cfg))
<1> DEFINE prev == monitors[i]
           dir == object[prev].dir
           s == Flush(Store, SaveGroup(file, dir, cfg))
           v == Detach(view, prev)
           a == AttachOne(s, v, mon, dir)
           ms == Put(monitors, i, mon)
           ob == [object EXCEPT ![mon] = [cfg |-> cfg, dir |-> dir], ![prev] = Freed]
           r == [store |-> a.store, monitors |-> ms, object |-> ob, view |-> a.view,
                 viewer_type |-> viewer_type, button |-> button]
<1>1. Replacing(i, mon, cfg) = r
  BY DEF Replacing, Put
<1>2. prev \in Monitor /\ prev \in Range(monitors) /\ dir \in Nat
  BY Running DEF Range, Object
<1>3. mon \notin Range(monitors) /\ mon # prev
  BY <1>2, Running
<1> HIDE DEF dir
<1>4. s \in StoreT
  BY <1>2, Running, SaveGroupFlush
<1>5. ms \in Seq(Monitor) /\ IsInjective(ms)
      /\ Range(ms) = (Range(monitors) \ {prev}) \cup {mon}
  <2>1. monitors \in Seq(Monitor) /\ IsInjective(monitors)
    BY Running
  <2> HIDE DEF prev
  <2>2. mon \in Monitor /\ mon \notin Range(monitors)
    BY <1>3
  <2>3. QED BY <2>1, <2>2, ReplaceOne DEF prev
<1> HIDE DEF s, ms, prev
<1>6. [cfg |-> cfg, dir |-> dir] \in Object /\ Freed \notin Object
  BY <1>2, PluginAssumption DEF Object
<1>7. ob \in [Monitor -> Object \cup {Freed}]
      /\ {m \in Monitor : ob[m] # Freed} = (Range(monitors) \ {prev}) \cup {mon}
  <2> DEFINE fresh == [cfg |-> cfg, dir |-> dir]
  <2>1. ob = Swapped(object, mon, fresh, prev, Freed)
    BY DEF Swapped
  <2>2. fresh \in Object /\ Freed \notin Object
    BY <1>6
  <2>3. object \in [Monitor -> Object \cup {Freed}] /\ prev \in Monitor /\ prev # mon
    BY <1>2, <1>3, Running
  <2>4. Allocated(Monitor, object, Freed) = Range(monitors)
    BY Running DEF Allocated
  <2> HIDE DEF ob, fresh
  <2>5. /\ ob \in [Monitor -> Object \cup {Freed}]
        /\ Allocated(Monitor, ob, Freed) = (Range(monitors) \ {prev}) \cup {mon}
    BY <2>1, <2>2, <2>3, <2>4, SwappedObjects
  <2>6. QED BY <2>5 DEF Allocated
<1>8. view \in ViewT
      /\ (view.type # NoView => IsInjective(Shown(view)) /\ prev \in Range(Shown(view)))
  BY <1>2, Running DEF Shows
<1>9. /\ v \in ViewT /\ v.type = view.type
      /\ view.type # NoView => /\ IsInjective(Shown(v))
                               /\ Range(Shown(v)) = Range(Shown(view)) \ {prev}
  BY <1>2, <1>8, DetachType
<1> HIDE DEF ob, v
<1>10. /\ a.store \in StoreT /\ a.view \in ViewT /\ a.view.type = view.type
       /\ view.type # NoView => Shown(a.view) = Append(Shown(v), mon)
  BY <1>2, <1>4, <1>9, AttachOneType
<1> HIDE DEF a
<1>11. Shows(a.view, ms)
  <2> SUFFICES ASSUME a.view.type # NoView
               PROVE  IsInjective(Shown(a.view)) /\ Range(Shown(a.view)) = Range(ms)
    BY DEF Shows
  <2>1. IsInjective(Shown(v)) /\ Range(Shown(v)) = Range(monitors) \ {prev}
        /\ Shown(v) \in Seq(Monitor)
    BY <1>9, <1>10, Running, ShownType DEF Shows
  <2>2. IsInjective(Append(Shown(v), mon))
        /\ Range(Append(Shown(v), mon)) = (Range(monitors) \ {prev}) \cup {mon}
    BY <1>3, <2>1, AppendFresh
  <2>3. QED BY <1>5, <1>10, <2>2
<1>12. Good(r)
  BY <1>5, <1>7, <1>10, <1>11, Running DEF Good, Fit, ButtonShows, ResultT
<1>13. QED BY <1>1, <1>12

\* A handler can go on from a new store, a new view or a new button.
LEMMA ResultFields ==
  ASSUME NEW r \in ResultT
  PROVE  /\ \A s \in StoreT :
              /\ [r EXCEPT !.store = s] \in ResultT
              /\ [r EXCEPT !.store = s].store = s
              /\ [r EXCEPT !.store = s].monitors = r.monitors
              /\ [r EXCEPT !.store = s].object = r.object
              /\ [r EXCEPT !.store = s].view = r.view
              /\ [r EXCEPT !.store = s].viewer_type = r.viewer_type
              /\ [r EXCEPT !.store = s].button = r.button
         /\ \A b \in KnownTypes :
              /\ [r EXCEPT !.button = b] \in ResultT
              /\ [r EXCEPT !.button = b].store = r.store
              /\ [r EXCEPT !.button = b].monitors = r.monitors
              /\ [r EXCEPT !.button = b].object = r.object
              /\ [r EXCEPT !.button = b].view = r.view
              /\ [r EXCEPT !.button = b].viewer_type = r.viewer_type
              /\ [r EXCEPT !.button = b].button = b
BY DEF ResultT

\* What viewer_type_listener makes of a handler when it builds a new view.
WithView(r, s, v, t) == [r EXCEPT !.store = s, !.view = v, !.viewer_type = t]

\* A handler can go on from a rebuilt view.
LEMMA ResultView ==
  ASSUME NEW r \in ResultT, NEW s \in StoreT, NEW v \in ViewT, NEW t \in Type
  PROVE  /\ WithView(r, s, v, t) \in ResultT
         /\ WithView(r, s, v, t).view = v
         /\ WithView(r, s, v, t).viewer_type = t
         /\ WithView(r, s, v, t).monitors = r.monitors
         /\ WithView(r, s, v, t).object = r.object
         /\ WithView(r, s, v, t).button = r.button
BY DEF ResultT, WithView

\* A rebuilt view, or the one that was there.
LEMMA ViewerTypeListenerFit ==
  ASSUME NEW r, Fit(r), NEW type \in Type, type \in KnownTypes \/ type = r.viewer_type,
         NEW force \in BOOLEAN
  PROVE  /\ Fit(ViewerTypeListener(r, type, force))
         /\ ViewerTypeListener(r, type, force).viewer_type = type
         /\ ViewerTypeListener(r, type, force).button = r.button
<1> DEFINE a == AttachAll(r.store, type, r.monitors, r.object)
           q == ViewerTypeListener(r, type, force)
<1>0. /\ r \in ResultT /\ r.store \in StoreT /\ r.monitors \in Seq(Monitor)
      /\ r.view \in ViewT /\ r.object \in [Monitor -> Object \cup {Freed}]
      /\ IsInjective(r.monitors) /\ Range(r.monitors) = {m \in Monitor : r.object[m] # Freed}
      /\ Shows(r.view, r.monitors)
      /\ r.view.type = IF r.viewer_type \in KnownTypes THEN r.viewer_type ELSE NoView
  BY DEF Fit, ResultT
<1>1. CASE type \in KnownTypes /\ (force \/ r.view.type # type)
  <2> DEFINE p == WithView(r, a.store, a.view, type)
  <2>1. q = p
    BY <1>1 DEF ViewerTypeListener, WithView
  <2>2. Located(r.object, r.monitors)
    <3>1. \A k \in DOMAIN r.monitors : r.monitors[k] \in Range(r.monitors)
      BY DEF Range
    <3>2. \A m \in Range(r.monitors) : r.object[m] \in Object
      BY <1>0
    <3>3. QED BY <3>1, <3>2 DEF Located, Object
  <2>3. a.store \in StoreT /\ a.view \in ViewT /\ a.view.type = type
        /\ Shown(a.view) = r.monitors
    BY <1>0, <1>1, <2>2, AttachAllType
  <2> HIDE DEF a
  <2>4. /\ p \in ResultT /\ p.view = a.view /\ p.viewer_type = type
        /\ p.monitors = r.monitors /\ p.object = r.object /\ p.button = r.button
    BY <1>0, <2>3, ResultView
  <2> HIDE DEF p, q
  <2>5. Shows(a.view, r.monitors)
    BY <1>0, <2>3 DEF Shows
  <2>6. Fit(p)
    BY <1>0, <1>1, <2>3, <2>4, <2>5 DEF Fit
  <2>7. QED BY <2>1, <2>4, <2>6 DEF q
<1>2. CASE ~ (type \in KnownTypes /\ (force \/ r.view.type # type))
  <2> DEFINE p == [r EXCEPT !.viewer_type = type]
  <2>1. q = p
    BY <1>2 DEF ViewerTypeListener
  <2>2. /\ p \in ResultT /\ p.view = r.view /\ p.viewer_type = type
        /\ p.monitors = r.monitors /\ p.object = r.object /\ p.button = r.button
    BY <1>0 DEF ResultT
  <2> HIDE DEF p, q
  <2>3. r.view.type = IF type \in KnownTypes THEN type ELSE NoView
    BY <1>0, <1>2
  <2>4. Fit(p)
    BY <1>0, <2>2, <2>3 DEF Fit
  <2>5. QED BY <2>1, <2>2, <2>4 DEF q
<1>3. QED BY <1>1, <1>2

\* A handler of the running plugin starts from a state that fits.
LEMMA KeptFit ==
  ASSUME IInv, up, NEW s \in StoreT
  PROVE  /\ Fit(Kept(s)) /\ Kept(s) \in ResultT /\ Kept(s).button = button
         /\ Kept(s).viewer_type = viewer_type /\ Kept(s).store = s
<1> DEFINE r == [store |-> s, monitors |-> monitors, object |-> object, view |-> view,
                 viewer_type |-> viewer_type, button |-> button]
<1>1. Fit(r) /\ r \in ResultT
  BY Running DEF Fit, ResultT
<1>2. QED BY <1>1 DEF Kept

\* The radio buttons of the preferences window: the view follows the new one.
LEMMA SwitchingGood ==
  ASSUME NEW r, Fit(r), NEW from \in KnownTypes, NEW to \in KnownTypes
  PROVE  Good(Switching(r, from, to))
<1> DEFINE old == ViewerTypeListener(r, from, FALSE)
           f == [old.store.file EXCEPT !.viewer_type = to]
           s == Flush(old.store, f)
           p == [old EXCEPT !.store = s]
           new == ViewerTypeListener(p, to, FALSE)
           q == [new EXCEPT !.button = to]
<1>1. Switching(r, from, to) = q
  BY DEF Switching
<1>2. from \in Type /\ to \in Type
  BY DEF Type
<1>3. Fit(old)
  BY <1>2, ViewerTypeListenerFit
<1> HIDE DEF old
<1>4. old \in ResultT /\ old.store \in StoreT /\ old.store.file \in File
  BY <1>3 DEF Fit, ResultT, StoreT
<1>5. f \in File
  BY <1>2, <1>4 DEF File
<1> HIDE DEF f
<1>6. s \in StoreT
  BY <1>4, <1>5, FlushType
<1> HIDE DEF s
<1>7. Fit(p)
  <2>1. /\ p \in ResultT /\ p.monitors = old.monitors /\ p.object = old.object
        /\ p.view = old.view /\ p.viewer_type = old.viewer_type
    BY <1>4, <1>6, ResultFields
  <2> HIDE DEF p
  <2>2. QED BY <1>3, <2>1 DEF Fit
<1> HIDE DEF p
<1>8. Fit(new) /\ new.viewer_type = to
  BY <1>2, <1>7, ViewerTypeListenerFit
<1> HIDE DEF new
<1>9. /\ q \in ResultT /\ q.monitors = new.monitors /\ q.object = new.object
      /\ q.view = new.view /\ q.viewer_type = new.viewer_type /\ q.button = to
  BY <1>8, ResultFields DEF Fit
<1> HIDE DEF q
<1>10. Good(q)
  BY <1>8, <1>9 DEF Good, Fit, ButtonShows
<1>11. QED BY <1>1, <1>10

\* Opening the preferences window: the view may be built anew, and is the same.
LEMMA OpeningPreferencesGood ==
  ASSUME IInv, up
  PROVE  Good(OpeningPreferences)
<1> DEFINE k == Kept(Store)
           r == [k EXCEPT !.button = "curve"]
<1>1. "curve" \in KnownTypes /\ viewer_type \in Type
  BY Running DEF KnownTypes, GraphTypes
<1>2. Fit(k) /\ k.viewer_type = viewer_type
  BY KeptFit, Running
<1> HIDE DEF k
<1>3. /\ r \in ResultT /\ r.monitors = k.monitors /\ r.object = k.object
      /\ r.view = k.view /\ r.viewer_type = viewer_type /\ r.button = "curve"
  BY <1>1, <1>2, ResultFields DEF Fit
<1>4. OpeningPreferences =
        IF viewer_type \in KnownTypes \ {"curve"} THEN Switching(r, "curve", viewer_type)
        ELSE ViewerTypeListener(r, viewer_type, FALSE)
  BY DEF OpeningPreferences, k
<1> HIDE DEF r
<1>5. Fit(r)
  BY <1>2, <1>3 DEF Fit
<1>6. CASE viewer_type \in KnownTypes \ {"curve"}
  BY <1>1, <1>4, <1>5, <1>6, SwitchingGood
<1>7. CASE viewer_type \notin KnownTypes \ {"curve"}
  <2> DEFINE q == ViewerTypeListener(r, viewer_type, FALSE)
  <2>0. viewer_type = r.viewer_type /\ FALSE \in BOOLEAN
    BY <1>3
  <2>1. Fit(q) /\ q.viewer_type = viewer_type /\ q.button = "curve"
    BY <1>1, <1>3, <1>5, <2>0, ViewerTypeListenerFit
  <2> HIDE DEF q
  <2>2. Good(q)
    BY <1>7, <2>1 DEF Good, ButtonShows
  <2>3. QED BY <1>4, <1>7, <2>2 DEF q
<1>8. QED BY <1>6, <1>7

\* Another type button: the view is of its type, and the window shows it.
LEMMA ChoosingViewerGood ==
  ASSUME IInv, up, button # NoWindow, NEW type \in Offered
  PROVE  Good(Switching(Kept(Store), button, type))
<1>1. type \in KnownTypes /\ button \in KnownTypes
  BY PluginAssumption, Running
<1>2. Fit(Kept(Store))
  BY KeptFit, Running
<1>3. QED BY <1>1, <1>2, SwitchingGood

\* A colour button: the view is rebuilt with the same monitors.
LEMMA RecoloringGood ==
  ASSUME IInv, up, viewer_type \in GraphTypes, NEW i \in DOMAIN monitors, NEW c \in Color
  PROVE  Good(Recoloring(i, c))
<1> DEFINE f == SaveColor(file, object[monitors[i]].dir, c)
           s == Flush(Store, f)
           r == Kept(s)
           q == ViewerTypeListener(r, viewer_type, TRUE)
<1>1. viewer_type \in KnownTypes /\ viewer_type \in Type
  BY Running DEF KnownTypes
<1>2. object[monitors[i]].dir \in Nat
  BY Running DEF Object
<1>3. f \in File
  BY <1>2, Running, FileShape, SaveColorType
<1> HIDE DEF f
<1>4. s \in StoreT
  BY <1>3, Running, FlushType
<1>5. Recoloring(i, c) = q
  BY DEF Recoloring, f
<1> HIDE DEF s
<1>6. Fit(r) /\ r.button = button
  BY <1>4, KeptFit
<1> HIDE DEF r
<1>7. Fit(q) /\ q.viewer_type = viewer_type /\ q.button = button
  BY <1>1, <1>6, ViewerTypeListenerFit
<1> HIDE DEF q
<1>8. Good(q)
  BY <1>7, Running DEF Good, ButtonShows
<1>9. QED BY <1>5, <1>8

\* save_monitors leaves a store.
LEMMA SavedType ==
  ASSUME IInv, up
  PROVE  Saved \in StoreT
<1> DEFINE n == Len(monitors)
           mons == [k \in DOMAIN monitors |-> object[monitors[k]]]
           f == SaveMonitors(file, mons)
<1>1. n \in Nat /\ DOMAIN monitors = 1 .. n
  BY Running
<1> HIDE DEF n
<1>2. mons \in [1 .. n -> Object]
  <2>1. \A k \in DOMAIN monitors : object[monitors[k]] \in Object
    BY Running
  <2>2. QED BY <1>1, <2>1
<1> HIDE DEF mons
<1>3. mons \in Seq(Object)
  BY <1>1, <1>2, SeqDef
<1>4. f \in File
  BY <1>3, Running, FileShape, SaveMonitorsType DEF Object
<1> HIDE DEF f
<1>5. Flush(Store, f) \in StoreT
  BY <1>4, Running, FlushType
<1>6. QED BY <1>5 DEF Saved, f, mons

\* The save signal: only the settings file changes.
LEMMA SaveGood ==
  ASSUME IInv, up
  PROVE  Good(Kept(Saved))
<1> DEFINE r == Kept(Saved)
<1>1. Fit(r) /\ r.button = button /\ r.viewer_type = viewer_type
  BY SavedType, KeptFit
<1> HIDE DEF r
<1>2. Good(r)
  BY <1>1, Running DEF Good, ButtonShows
<1>3. QED BY <1>2 DEF r

\* The constructor makes an object for each monitor it loads, and shows it.
LEMMA StartingGood ==
  ASSUME IInv, NEW ids \in Injection(1 .. NumberToLoad, Monitor)
  PROVE  Good(Starting(ids))
<1> DEFINE default == file.groups = <<>>
           first == [cfg |-> DefaultConfig, dir |-> EmptyDir(file)]
           loaded == IF default THEN << first >> ELSE LoadMonitors(file)
           s == [Store EXCEPT !.next_color = file.next_color]
           t == IF default THEN Flush(s, SaveGroup(file, loaded[1].dir, DefaultConfig))
                ELSE s
           at(m) == CHOOSE k \in DOMAIN ids : ids[k] = m
           obj == [m \in Monitor |-> IF \E k \in DOMAIN ids : ids[k] = m
                                     THEN loaded[CHOOSE k \in DOMAIN ids : ids[k] = m]
                                     ELSE Freed]
           type == file.viewer_type
           all == AttachAll(t, type, ids, obj)
           a == IF type \in KnownTypes THEN all ELSE [store |-> t, view |-> Empty]
           r == [store |-> a.store, monitors |-> ids, object |-> obj, view |-> a.view,
                 viewer_type |-> type, button |-> NoWindow]
           n == NumberToLoad
<1>1. Starting(ids) = r
  BY DEF Starting
<1>2. file \in File /\ Store \in StoreT
  BY StoreType DEF IInv, TypeOK
<1>3. first \in Object
  BY <1>2, EmptyDirType, PluginAssumption DEF Object
<1>4. loaded \in Seq(Object) /\ Len(loaded) = n
  <2>1. CASE default
    <3> HIDE DEF first
    <3>1. << first >> \in Seq(Object) /\ Len(<< first >>) = 1
      BY <1>3
    <3>2. QED BY <2>1, <3>1 DEF NumberToLoad
  <2>2. CASE ~ default
    <3>1. LoadMonitors(file) \in Seq(Object)
      BY <1>2, FileShape, LoadMonitorsType DEF Object
    <3>2. QED BY <2>2, <3>1 DEF NumberToLoad
  <2>3. QED BY <2>1, <2>2
<1>5. n \in Nat /\ \A k \in 1 .. n : loaded[k] \in Object
  BY <1>4, LenProperties, ElementOfSeq
<1>6. s \in StoreT
  <2>1. file.next_color \in 0 .. Len(Palette) - 1
    BY <1>2 DEF File
  <2>2. QED BY <1>2, <2>1 DEF StoreT
<1>7. t \in StoreT
  <2>1. CASE default
    <3>1. loaded[1].dir \in Nat
      BY <1>3, <2>1 DEF Object
    <3> HIDE DEF loaded, s
    <3>2. QED BY <1>2, <1>6, <2>1, <3>1, SaveGroupFlush, PluginAssumption
  <2>2. CASE ~ default
    BY <1>6, <2>2
  <2>3. QED BY <2>1, <2>2
<1>8. ids \in [1 .. n -> Monitor] /\ IsInjective(ids)
  BY DEF Injection
<1> HIDE DEF n, t, loaded, default
<1>9. ids \in Seq(Monitor) /\ DOMAIN ids = 1 .. n
  BY <1>5, <1>8, SeqDef
<1>10. \A m \in Range(ids) : at(m) \in 1 .. n /\ ids[at(m)] = m
  BY <1>9 DEF Range
<1>11. /\ obj \in [Monitor -> Object \cup {Freed}]
       /\ Range(ids) = {m \in Monitor : obj[m] # Freed}
       /\ \A k \in 1 .. n : obj[ids[k]] \in Object
  <2>1. \A m \in Monitor : m \in Range(ids) => obj[m] \in Object
    <3>1. \A m \in Monitor : m \in Range(ids) => obj[m] = loaded[at(m)]
      BY DEF Range
    <3> HIDE DEF obj, at
    <3>2. QED BY <1>5, <1>10, <3>1
  <2>2. \A m \in Monitor : m \notin Range(ids) => obj[m] = Freed
    BY DEF Range
  <2>3. obj = [m \in Monitor |-> obj[m]]
    OBVIOUS
  <2> HIDE DEF obj
  <2>4. obj \in [Monitor -> Object \cup {Freed}]
    BY <2>1, <2>2, <2>3
  <2>5. Freed \notin Object
    BY PluginAssumption DEF Object
  <2>6. \A k \in 1 .. n : ids[k] \in Range(ids) /\ ids[k] \in Monitor
    BY <1>8, <1>9 DEF Range
  <2>7. Range(ids) \subseteq Monitor
    BY <1>8 DEF Range
  <2>8. QED BY <2>1, <2>2, <2>4, <2>5, <2>6, <2>7
<1> HIDE DEF obj, at
<1>12. /\ a.store \in StoreT /\ a.view \in ViewT /\ Shows(a.view, ids)
       /\ a.view.type = IF type \in KnownTypes THEN type ELSE NoView
  <2>1. CASE type \in KnownTypes
    <3>1. \A k \in DOMAIN ids : obj[ids[k]].dir \in Nat
      BY <1>9, <1>11 DEF Object
    <3>2. Located(obj, ids)
      BY <3>1 DEF Located
    <3>3. all.store \in StoreT /\ all.view \in ViewT /\ all.view.type = type
          /\ Shown(all.view) = ids
      BY <1>7, <1>9, <2>1, <3>2, AttachAllType
    <3> HIDE DEF all
    <3>4. Shows(all.view, ids)
      BY <1>8, <3>3 DEF Shows
    <3>5. a = all
      BY <2>1
    <3>6. QED BY <2>1, <3>3, <3>4, <3>5
  <2>2. CASE type \notin KnownTypes
    <3> HIDE DEF all
    <3>1. Empty \in ViewT /\ Empty.type = NoView
      BY DEF Empty, ViewT
    <3>2. a.store = t /\ a.view = Empty
      BY <2>2
    <3>3. Shows(Empty, ids)
      BY <3>1 DEF Shows
    <3>4. QED BY <1>7, <2>2, <3>1, <3>2, <3>3
  <2>3. QED BY <2>1, <2>2
<1>13. type \in Type
  BY <1>2 DEF File
<1> HIDE DEF a
<1>14. Good(r)
  BY <1>8, <1>9, <1>11, <1>12, <1>13 DEF Good, Fit, ButtonShows, ResultT
<1>15. QED BY <1>1, <1>14

\* The plugin is gone, by a quit or by a crash, and has left a file.
LEMMA GoneKeeps ==
  ASSUME Gone, file' \in File, missed' \in BOOLEAN, writable' \in BOOLEAN
  PROVE  IInv'
<1>1. /\ ~ up' /\ monitors' = <<>> /\ view' = Empty /\ viewer_type' = "curve"
      /\ next_color' = 0 /\ object' = NoObject /\ up' \in BOOLEAN
      /\ button' = NoWindow
  BY DEF Gone
<1>2. NoObject \in [Monitor -> Object \cup {Freed}] /\ \A m \in Monitor : NoObject[m] = Freed
  BY DEF NoObject
<1>3. Empty \in [type : KnownTypes \cup {NoView}, elements : Seq(Element)]
      /\ Empty.type = NoView
  BY DEF Empty
<1>4. "curve" \in Type /\ 0 \in 0 .. Len(Palette) - 1
  BY PaletteHasColors DEF Type, KnownTypes, GraphTypes
<1>5. <<>> \in Seq(Monitor) /\ IsInjective(<<>>) /\ Range(<<>>) = {}
  BY DEF IsInjective, Range
<1>6. TypeOK'
  BY <1>1, <1>2, <1>3, <1>4, <1>5 DEF TypeOK
<1>7. OneElementPerMonitor'
  BY <1>1, <1>2, <1>3, <1>5 DEF OneElementPerMonitor
<1>8. ViewIsChosen'
  BY <1>1 DEF ViewIsChosen
<1>9. QED BY <1>6, <1>7, <1>8 DEF IInv

\* A handler that leaves a good state keeps the invariant, dying on the way or not.
LEMMA HandlerKeeps ==
  ASSUME NEW r, Good(r), Handler(r), writable \in BOOLEAN
  PROVE  IInv'
<1>1. writable' \in BOOLEAN /\ (Returns(r) \/ IsKilled(r))
  BY DEF Handler
<1>2. r.store.next_color \in 0 .. Len(Palette) - 1 /\ r.store.file \in File
      /\ r.store.past \subseteq File /\ r.store.missed \in BOOLEAN
  BY DEF Good, Fit, ResultT, StoreT
<1>3. CASE IsKilled(r)
  <2>1. Gone /\ file' \in File /\ missed' \in BOOLEAN
    BY <1>2, <1>3 DEF IsKilled
  <2>2. QED BY <1>1, <2>1, GoneKeeps
<1>4. CASE Returns(r)
  <2>1. /\ up' = TRUE
        /\ monitors' = r.monitors /\ object' = r.object /\ view' = r.view
        /\ viewer_type' = r.viewer_type /\ next_color' = r.store.next_color
        /\ button' = r.button
        /\ file' = r.store.file /\ missed' = r.store.missed
    BY <1>4 DEF Returns
  <2>2. TypeOK'
    BY <1>1, <1>2, <2>1 DEF Good, Fit, ResultT, TypeOK, ViewT
  <2>3. OneElementPerMonitor'
    BY <2>1 DEF Good, Fit, OneElementPerMonitor, Shows, Shown
  <2>4. ViewIsChosen'
    BY <2>1 DEF Good, Fit, ButtonShows, ViewIsChosen
  <2>5. QED BY <2>2, <2>3, <2>4 DEF IInv
<1>5. QED BY <1>1, <1>3, <1>4
--------------------------------------------------------------------------
\* The initial states satisfy the invariant.
LEMMA InitIInv == Init => IInv
<1> SUFFICES ASSUME Init PROVE IInv
  OBVIOUS
<1>1. PICK t \in Stored : file = [viewer_type |-> t, next_color |-> 0, groups |-> <<>>]
  BY DEF Init
<1>2. 0 \in 0 .. Len(Palette) - 1 /\ t \in Type /\ "curve" \in Type
  BY PaletteHasColors DEF Type, KnownTypes, GraphTypes
<1>3. file \in File
  BY <1>1, <1>2 DEF File
<1>4. NoObject \in [Monitor -> Object \cup {Freed}] /\ \A m \in Monitor : NoObject[m] = Freed
  BY DEF NoObject
<1>5. Empty \in [type : KnownTypes \cup {NoView}, elements : Seq(Element)]
      /\ Empty.type = NoView
  BY DEF Empty
<1>6. <<>> \in Seq(Monitor) /\ IsInjective(<<>>) /\ Range(<<>>) = {}
  BY DEF IsInjective, Range
<1>7. TypeOK
  BY <1>2, <1>3, <1>4, <1>5, <1>6 DEF Init, TypeOK
<1>8. OneElementPerMonitor
  BY <1>4, <1>5, <1>6 DEF Init, OneElementPerMonitor
<1>9. ViewIsChosen
  BY DEF Init, ViewIsChosen
<1>10. QED BY <1>7, <1>8, <1>9 DEF IInv

\* Every action keeps the invariant.
LEMMA NextIInv == IInv /\ [Next]_vars => IInv'
<1> SUFFICES ASSUME IInv, [Next]_vars PROVE IInv'
  OBVIOUS
<1>1. writable \in BOOLEAN
  BY DEF IInv, TypeOK
<1>2. CASE Start
  BY <1>1, <1>2, StartingGood, HandlerKeeps DEF Start
<1>0. CASE OpenPreferences
  BY <1>0, <1>1, OpeningPreferencesGood, HandlerKeeps DEF OpenPreferences
<1>3. ASSUME NEW cfg \in Config, AddMonitor(cfg) PROVE IInv'
  BY <1>1, <1>3, AddingGood, HandlerKeeps DEF AddMonitor, WindowOpen
<1>4. ASSUME NEW cfg \in Config, ReplaceMonitor(cfg) PROVE IInv'
  BY <1>1, <1>4, ReplacingGood, HandlerKeeps DEF ReplaceMonitor, WindowOpen
<1>5. CASE RemoveMonitor
  BY <1>1, <1>5, RemovingGood, HandlerKeeps DEF RemoveMonitor, WindowOpen
<1>6. ASSUME NEW type \in Offered, ChooseViewer(type) PROVE IInv'
  BY <1>1, <1>6, ChoosingViewerGood, HandlerKeeps DEF ChooseViewer, WindowOpen
<1>7. ASSUME NEW c \in Color, Recolor(c) PROVE IInv'
  BY <1>1, <1>7, RecoloringGood, HandlerKeeps DEF Recolor, WindowOpen
<1>8. CASE Save
  BY <1>1, <1>8, SaveGood, HandlerKeeps DEF Save
<1>9. CASE Quit
  <2>1. Saved.file \in File /\ Saved.missed \in BOOLEAN
    BY <1>9, SavedType DEF StoreT, Quit
  <2>2. Gone /\ file' \in File /\ missed' \in BOOLEAN /\ writable' \in BOOLEAN
    BY <1>1, <1>9, <2>1 DEF Quit
  <2>3. QED BY <2>2, GoneKeeps
<1>10. CASE Toggle
  <2>1. writable' \in BOOLEAN
    BY <1>1, <1>10 DEF Toggle
  <2>2. UNCHANGED <<process, file, missed>>
    BY <1>10 DEF Toggle
  <2>3. QED BY <2>1, <2>2 DEF IInv, TypeOK, OneElementPerMonitor, ViewIsChosen, Shown, process
<1>11. CASE UNCHANGED vars
  BY <1>11 DEF vars, process, IInv, TypeOK, OneElementPerMonitor, ViewIsChosen, Shown
<1>12. QED BY <1>0, <1>2, <1>3, <1>4, <1>5, <1>6, <1>7, <1>8, <1>9, <1>10, <1>11 DEF Next

\* The three invariants hold together, whatever the constants.
THEOREM Inductive == Spec => []IInv
BY InitIInv, NextIInv, PTL DEF Spec

\* The plugin's state and the settings file keep their types.
THEOREM TypeCorrect == Spec => []TypeOK
<1>1. IInv => TypeOK
  BY DEF IInv
<1>2. QED BY <1>1, Inductive, PTL

\* Between two handlers no element of the view shows a deleted monitor, each monitor is
\* shown once and no Monitor object leaks, even if the settings cannot be written.
THEOREM EachMonitorShownOnce == Spec => []OneElementPerMonitor
<1>1. IInv => OneElementPerMonitor
  BY DEF IInv
<1>2. QED BY <1>1, Inductive, PTL

\* The view is of the type the user chose last.
THEOREM ChosenViewShown == Spec => []ViewIsChosen
<1>1. IInv => ViewIsChosen
  BY DEF IInv
<1>2. QED BY <1>1, Inductive, PTL

--------------------------------------------------------------------------
(***************************************************************************)
(* The settings file, as long as no write is skipped.  A handler that      *)
(* draws may change next_color and give groups colours, once for all; the  *)
(* monitors listed are as they were, in each of the files it goes through. *)
(***************************************************************************)
Follows(s, t) ==
  /\ s.missed => t.missed
  /\ ~ t.missed =>
       /\ Listed(t.file) = Listed(s.file)
       /\ t.file.viewer_type = s.file.viewer_type
       /\ s.next_color = s.file.next_color => t.next_color = t.file.next_color
       /\ \A d : ColorOf(s.file, d) # NoColor => ColorOf(t.file, d) = ColorOf(s.file, d)
       /\ \A f \in t.past : f \in s.past \/ Listed(f) = Listed(s.file)

LEMMA FollowsItself ==
  ASSUME NEW s
  PROVE  Follows(s, s)
BY DEF Follows

LEMMA FollowsOn ==
  ASSUME NEW s \in StoreT, NEW t \in StoreT, NEW u \in StoreT, Follows(s, t), Follows(t, u)
  PROVE  Follows(s, u)
<1>1. s.missed => u.missed
  BY DEF Follows
<1>2. ASSUME ~ u.missed
      PROVE  /\ Listed(u.file) = Listed(s.file)
             /\ u.file.viewer_type = s.file.viewer_type
             /\ s.next_color = s.file.next_color => u.next_color = u.file.next_color
             /\ \A d : ColorOf(s.file, d) # NoColor => ColorOf(u.file, d) = ColorOf(s.file, d)
             /\ \A f \in u.past : f \in s.past \/ Listed(f) = Listed(s.file)
  <2>1. ~ t.missed
    BY <1>2 DEF Follows
  <2>2. QED BY <1>2, <2>1 DEF Follows
<1>3. QED BY <1>1, <1>2 DEF Follows

\* A write that is not skipped.
LEMMA FlushWrites ==
  ASSUME NEW s \in StoreT, NEW f \in File
  PROVE  /\ Flush(s, f).next_color = s.next_color
         /\ s.missed => Flush(s, f).missed
         /\ ~ Flush(s, f).missed => /\ ~ s.missed /\ Flush(s, f).file = f
                                    /\ Flush(s, f).past = s.past \cup {f}
<1>1. CASE writable
  <2>1. Flush(s, f) = [s EXCEPT !.file = f, !.past = s.past \cup {f}]
    BY <1>1 DEF Flush
  <2>2. QED BY <2>1 DEF StoreT
<1>2. CASE ~ writable
  <2>1. Flush(s, f) = [s EXCEPT !.missed = TRUE]
    BY <1>2 DEF Flush
  <2>2. QED BY <2>1 DEF StoreT
<1>3. QED BY <1>1, <1>2

\* Two files with the same groups.
LEMMA SameGroups ==
  ASSUME NEW f, NEW g, g.groups = f.groups
  PROVE  Listed(g) = Listed(f) /\ \A d : ColorOf(g, d) = ColorOf(f, d)
BY DEF Listed, ColorOf, HasGroup

\* get_fg_color saves the next colour that it keeps in memory.
LEMMA NextColorFollows ==
  ASSUME NEW s \in StoreT
  PROVE  Follows(s, NextColor(s))
<1> DEFINE c == (s.next_color + 1) % Len(Palette)
           f == [s.file EXCEPT !.next_color = c]
           t == [s EXCEPT !.next_color = c]
           u == NextColor(s)
<1>1. c \in 0 .. Len(Palette) - 1
  <2>1. s.next_color \in 0 .. Len(Palette) - 1
    BY DEF StoreT
  <2>2. QED BY <2>1, PaletteHasColors
<1>2. u = Flush(t, f)
  BY DEF NextColor
<1> HIDE DEF c, u
<1>3. t \in StoreT /\ t.file = s.file /\ t.past = s.past /\ t.missed = s.missed
      /\ t.next_color = c
  BY <1>1 DEF StoreT
<1>4. f \in File /\ f.groups = s.file.groups /\ f.viewer_type = s.file.viewer_type
      /\ f.next_color = c
  <2>1. s.file \in File
    BY DEF StoreT
  <2>2. QED BY <1>1, <2>1 DEF File
<1> HIDE DEF t, f
<1>5. Listed(f) = Listed(s.file) /\ \A d : ColorOf(f, d) = ColorOf(s.file, d)
  BY <1>4, SameGroups
<1>6. /\ u.next_color = c /\ (s.missed => u.missed)
      /\ ~ u.missed => u.file = f /\ u.past = s.past \cup {f}
  BY <1>2, <1>3, <1>4, FlushWrites
<1>7. Follows(s, u)
  BY <1>4, <1>5, <1>6 DEF Follows
<1>8. QED BY <1>7 DEF u

\* do_attach: a graph has the colour of its monitor's group after it, and a group that has
\* a colour keeps it.
LEMMA AttachFollows ==
  ASSUME NEW s \in StoreT, NEW type, NEW dir \in Nat,
         ~ s.missed => Distinct(Listed(s.file)) /\ HasGroup(s.file, dir)
  PROVE  LET a == Attach(s, type, dir)
         IN  /\ Follows(s, a.store)
             /\ type \in GraphTypes /\ ~ a.store.missed =>
                  a.color # NoColor /\ a.color = ColorOf(a.store.file, dir)
<1> DEFINE a == Attach(s, type, dir)
           c == Palette[s.next_color + 1]
           t == NextColor(s)
           f == SaveColor(t.file, dir, c)
           u == Flush(t, f)
<1>1. CASE type \notin GraphTypes
  <2>1. a = [store |-> s, color |-> NoColor]
    BY <1>1 DEF Attach
  <2>2. QED BY <1>1, <2>1, FollowsItself
<1>2. Follows(s, t) /\ t \in StoreT
  BY NextColorFollows, NextColorType
<1>3. CASE type \in GraphTypes /\ ColorOf(s.file, dir) # NoColor
  <2>1. a = [store |-> t, color |-> ColorOf(s.file, dir)]
    BY <1>3 DEF Attach
  <2> HIDE DEF t
  <2>2. ~ t.missed => ColorOf(t.file, dir) = ColorOf(s.file, dir)
    BY <1>2, <1>3 DEF Follows
  <2>3. QED BY <1>2, <1>3, <2>1, <2>2
<1>4. CASE type \in GraphTypes /\ ColorOf(s.file, dir) = NoColor
  <2>1. a = [store |-> u, color |-> c]
    BY <1>4 DEF Attach
  <2>2. c \in Color /\ c # NoColor
    <3>1. s.next_color \in 0 .. Len(Palette) - 1
      BY DEF StoreT
    <3>2. QED BY <3>1, PaletteHasColors, PluginAssumption
  <2>3. t.file \in File
    BY <1>2 DEF StoreT
  <2> HIDE DEF t, c
  <2>4. f \in File
    BY <2>2, <2>3, FileShape, SaveColorType
  <2>5. /\ u.next_color = t.next_color /\ (t.missed => u.missed)
        /\ ~ u.missed => ~ t.missed /\ u.file = f /\ u.past = t.past \cup {f}
    BY <1>2, <2>4, FlushWrites
  <2> HIDE DEF u
  <2>6. ASSUME ~ u.missed
        PROVE  /\ Listed(f) = Listed(t.file)
               /\ f.viewer_type = t.file.viewer_type /\ f.next_color = t.file.next_color
               /\ ColorOf(f, dir) = c
               /\ \A d : d # dir /\ ColorOf(t.file, d) # NoColor
                           => ColorOf(f, d) = ColorOf(t.file, d)
    <3>1. ~ t.missed /\ ~ s.missed
      BY <1>2, <2>5, <2>6 DEF Follows
    <3>2. Listed(t.file) = Listed(s.file) /\ Distinct(Listed(t.file))
      BY <1>2, <3>1 DEF Follows
    <3>3. HasGroup(t.file, dir)
      <4>1. s.file \in File
        BY DEF StoreT
      <4>2. \E i \in DOMAIN Listed(s.file) : Listed(s.file)[i].dir = dir
        BY <3>1, <4>1, FileShape, Groups
      <4>3. QED BY <2>3, <3>2, <4>2, FileShape, Groups
    <3>4. QED BY <2>2, <2>3, <3>2, <3>3, FileShape, SaveColorKeeps
  <2>7. ASSUME ~ u.missed
        PROVE  /\ Listed(f) = Listed(s.file) /\ f.viewer_type = s.file.viewer_type
               /\ s.next_color = s.file.next_color => u.next_color = f.next_color
               /\ \A d : ColorOf(s.file, d) # NoColor => ColorOf(f, d) = ColorOf(s.file, d)
               /\ \A g \in u.past : g \in s.past \/ Listed(g) = Listed(s.file)
    <3>1. ~ t.missed
      BY <2>5, <2>7
    <3>2. \A d : ColorOf(s.file, d) # NoColor => d # dir
      BY <1>4
    <3>3. QED BY <1>2, <2>5, <2>6, <2>7, <3>1, <3>2 DEF Follows
  <2>8. Follows(s, u)
    BY <1>2, <2>5, <2>7 DEF Follows
  <2>9. QED BY <1>4, <2>1, <2>2, <2>5, <2>6, <2>8
<1>5. QED BY <1>1, <1>3, <1>4


\* A group of one of the files is in the other one, if they list the same.
LEMMA HasGroupFollows ==
  ASSUME NEW s \in StoreT, NEW t \in StoreT, Follows(s, t), ~ t.missed, NEW dir,
         Distinct(Listed(s.file)), HasGroup(s.file, dir)
  PROVE  ~ s.missed /\ Distinct(Listed(t.file)) /\ HasGroup(t.file, dir)
<1>1. s.file \in File /\ t.file \in File
  BY DEF StoreT
<1>2. ~ s.missed /\ Listed(t.file) = Listed(s.file)
  BY DEF Follows
<1>3. \E i \in DOMAIN Listed(s.file) : Listed(s.file)[i].dir = dir
  BY <1>1, FileShape, Groups
<1>4. QED BY <1>1, <1>2, <1>3, FileShape, Groups

\* Each graph of a view is drawn in the colour of its monitor's group.
Drawn(v, f, obj) ==
  \A i \in DOMAIN v.elements :
    /\ v.elements[i].color # NoColor
    /\ v.elements[i].color = ColorOf(f, obj[v.elements[i].mon].dir)

LEMMA DrawnFollows ==
  ASSUME NEW s \in StoreT, NEW t \in StoreT, Follows(s, t), ~ t.missed,
         NEW v, NEW obj, Drawn(v, s.file, obj)
  PROVE  Drawn(v, t.file, obj)
BY DEF Follows, Drawn

\* Attaching the monitors one by one gives groups colours, and they stay.
LEMMA AttachingFollows ==
  ASSUME NEW s \in StoreT, NEW type \in KnownTypes, NEW mons \in Seq(Monitor), NEW obj,
         Located(obj, mons), NEW made, Attaching(made, s, type, mons, obj),
         ~ s.missed => /\ Distinct(Listed(s.file))
                       /\ \A k \in DOMAIN mons : HasGroup(s.file, obj[mons[k]].dir)
  PROVE  /\ \A k \in 0 .. Len(mons) : made[k].store \in StoreT /\ Follows(s, made[k].store)
         /\ \A k \in 0 .. Len(mons) - 1 :
              /\ Follows(made[k].store, made[k + 1].store)
              /\ type \in GraphTypes /\ ~ made[k + 1].store.missed =>
                   /\ made[k + 1].color # NoColor
                   /\ made[k + 1].color = ColorOf(made[k + 1].store.file,
                                                  obj[mons[k + 1]].dir)
<1> DEFINE n == Len(mons)
           Dir(k) == obj[mons[k]].dir
           S == {x \in [store : StoreT, color : Color \cup {NoColor}] : Follows(s, x.store)}
           One(x, a, k) ==
             /\ Follows(x.store, a.store)
             /\ type \in GraphTypes /\ ~ a.store.missed =>
                  a.color # NoColor /\ a.color = ColorOf(a.store.file, Dir(k))
<1>1. n \in Nat /\ DOMAIN mons = 1 .. n
  BY LenProperties
<1>2. /\ made[0] = [store |-> s, color |-> NoColor]
      /\ \A k \in 0 .. n - 1 : made[k + 1] = Attach(made[k].store, type, Dir(k + 1))
  BY DEF Attaching
<1>3. \A k \in 1 .. n : Dir(k) \in Nat
  BY <1>1 DEF Located
<1> HIDE DEF n, Dir
<1>4. ASSUME NEW k \in 0 .. n - 1, NEW x \in S
      PROVE  LET a == Attach(x.store, type, Dir(k + 1))
             IN  a \in S /\ One(x, a, k + 1)
  <2> DEFINE dir == Dir(k + 1)
             a == Attach(x.store, type, dir)
  <2>1. k + 1 \in 1 .. n
    BY <1>1
  <2>2. dir \in Nat /\ x.store \in StoreT /\ Follows(s, x.store)
    BY <1>3, <2>1
  <2>3. ~ s.missed => Distinct(Listed(s.file)) /\ HasGroup(s.file, dir)
    BY <1>1, <2>1 DEF Dir
  <2> HIDE DEF dir
  <2>4. ~ x.store.missed => ~ s.missed
    BY <2>2 DEF Follows
  <2>5. ~ x.store.missed => Distinct(Listed(x.store.file)) /\ HasGroup(x.store.file, dir)
    BY <2>2, <2>3, <2>4, HasGroupFollows
  <2>6. a \in [store : StoreT, color : Color \cup {NoColor}]
    BY <2>2, AttachType
  <2>7. One(x, a, k + 1)
    BY <2>2, <2>5, AttachFollows DEF dir
  <2> HIDE DEF a
  <2>8. Follows(s, a.store)
    BY <2>2, <2>6, <2>7, FollowsOn
  <2>9. QED BY <2>6, <2>7, <2>8 DEF a, dir
<1>5. made[0] \in S
  BY <1>2, FollowsItself
<1>6. \A k \in 0 .. n : made[k] \in S
  <2> HIDE DEF S, One
  <2>1. \A k \in 0 .. n - 1 : made[k] \in S => made[k + 1] \in S
    BY <1>2, <1>4
  <2>2. QED BY <1>1, <1>5, <2>1, IterationIn
<1>7. \A k \in 0 .. n - 1 : k \in 0 .. n
  BY <1>1
<1>8. \A k \in 0 .. n - 1 : One(made[k], made[k + 1], k + 1)
  <2> HIDE DEF S, One
  <2> QED BY <1>2, <1>4, <1>6, <1>7
<1>9. QED BY <1>6, <1>8 DEF n, Dir

\* A new view draws each monitor in the colour of its group.
LEMMA AttachAllFollows ==
  ASSUME NEW s \in StoreT, NEW type \in KnownTypes, NEW mons \in Seq(Monitor), NEW obj,
         Located(obj, mons),
         ~ s.missed => /\ Distinct(Listed(s.file))
                       /\ \A k \in DOMAIN mons : HasGroup(s.file, obj[mons[k]].dir)
  PROVE  LET a == AttachAll(s, type, mons, obj)
         IN  /\ Follows(s, a.store)
             /\ type \in GraphTypes /\ ~ a.store.missed => Drawn(a.view, a.store.file, obj)
<1> DEFINE a == AttachAll(s, type, mons, obj)
           n == Len(mons)
           elements(m) == [k \in 1 .. n |-> [mon |-> mons[k], color |-> m[k].color]]
<1>1. PICK made : Attaching(made, s, type, mons, obj)
  BY AttachAllSteps
<1>2. n \in Nat
  BY LenProperties
<1>3. a = [store |-> made[n].store, view |-> [type |-> type, elements |-> elements(made)]]
  BY <1>1 DEF Attaching
<1>4. /\ \A k \in 0 .. n : made[k].store \in StoreT /\ Follows(s, made[k].store)
      /\ \A k \in 0 .. n - 1 :
           /\ Follows(made[k].store, made[k + 1].store)
           /\ type \in GraphTypes /\ ~ made[k + 1].store.missed =>
                /\ made[k + 1].color # NoColor
                /\ made[k + 1].color = ColorOf(made[k + 1].store.file, obj[mons[k + 1]].dir)
  BY <1>1, AttachingFollows
<1> HIDE DEF a, n, elements
<1>5. n \in 0 .. n /\ \A k \in 0 .. n - 1 : k \in 0 .. n /\ k + 1 \in 0 .. n
  BY <1>2
<1>6. Follows(s, made[n].store)
  BY <1>4, <1>5
<1>7. ASSUME NEW k \in 1 .. n, type \in GraphTypes, ~ made[n].store.missed
      PROVE  /\ made[k].color # NoColor
             /\ made[k].color = ColorOf(made[n].store.file, obj[mons[k]].dir)
  <2> DEFINE P == {j \in 0 .. n : j >= k => Follows(made[k].store, made[j].store)}
  <2>1. k \in Nat /\ 0 < k /\ k \in 0 .. n /\ k - 1 \in 0 .. n - 1 /\ (k - 1) + 1 = k
    BY <1>2
  <2>2. 0 \in P
    BY <1>2, <2>1
  <2>3. ASSUME NEW j \in 0 .. n - 1, j \in P PROVE j + 1 \in P
    <3>1. CASE j >= k
      BY <1>4, <1>5, <2>1, <2>3, <3>1, FollowsOn
    <3>2. CASE j + 1 = k
      BY <1>5, <3>2, FollowsItself
    <3>3. CASE j + 1 < k
      BY <1>5, <2>1, <3>3
    <3>4. QED BY <2>1, <3>1, <3>2, <3>3
  <2>4. n \in P
    <3> HIDE DEF P
    <3> QED BY <1>2, <1>5, <2>2, <2>3, InductionUpTo
  <2>5. Follows(made[k].store, made[n].store)
    BY <1>2, <2>4
  <2>6. ~ made[k].store.missed
    BY <1>7, <2>5 DEF Follows
  <2>7. made[k].color # NoColor /\ made[k].color = ColorOf(made[k].store.file, obj[mons[k]].dir)
    BY <1>4, <1>7, <2>1, <2>6
  <2>8. QED BY <1>7, <2>5, <2>7 DEF Follows
<1>8. /\ DOMAIN elements(made) = 1 .. n
      /\ \A k \in 1 .. n : elements(made)[k].mon = mons[k]
                           /\ elements(made)[k].color = made[k].color
  BY DEF elements
<1>9. type \in GraphTypes /\ ~ a.store.missed => Drawn(a.view, a.store.file, obj)
  <2>1. a.store = made[n].store /\ a.view.elements = elements(made)
    BY <1>3
  <2> SUFFICES ASSUME type \in GraphTypes, ~ made[n].store.missed
               PROVE  Drawn(a.view, made[n].store.file, obj)
    BY <2>1
  <2>2. ASSUME NEW k \in 1 .. n
        PROVE  /\ elements(made)[k].color # NoColor
               /\ elements(made)[k].color
                    = ColorOf(made[n].store.file, obj[elements(made)[k].mon].dir)
    BY <1>7, <1>8
  <2>3. QED BY <1>8, <2>1, <2>2 DEF Drawn
<1>10. QED BY <1>3, <1>6, <1>9 DEF a


\* The objects of the monitors, in order: what save_monitors saves.
Listing(mons, obj) == [k \in DOMAIN mons |-> obj[mons[k]]]

LEMMA ListingPlaces ==
  ASSUME NEW M, NEW mons \in Seq(M), NEW obj
  PROVE  /\ Len(mons) \in Nat /\ Listing(mons, obj) = [k \in 1 .. Len(mons) |-> obj[mons[k]]]
         /\ \A k \in 1 .. Len(mons) : Listing(mons, obj)[k] = obj[mons[k]]
BY LenProperties DEF Listing

LEMMA ListingType ==
  ASSUME NEW M, NEW Q, NEW mons \in Seq(M), NEW obj \in [M -> Q]
  PROVE  Listing(mons, obj) \in Seq(Q) /\ Len(Listing(mons, obj)) = Len(mons)
<1> DEFINE n == Len(mons)
           L == Listing(mons, obj)
<1>1. n \in Nat /\ \A k \in 1 .. n : mons[k] \in M
  BY LenProperties, ElementOfSeq
<1>2. L = [k \in 1 .. n |-> obj[mons[k]]]
  BY ListingPlaces
<1> HIDE DEF n, L
<1>3. L \in [1 .. n -> Q]
  BY <1>1, <1>2
<1>4. L \in Seq(Q)
  BY <1>1, <1>3, SeqDef
<1>5. Len(L) = n
  BY <1>1, <1>3, <1>4, LenProperties
<1>6. QED BY <1>4, <1>5 DEF n, L

\* What the model keeps of a Monitor object.
Slot == Object \cup {Freed}

\* A new object at the end of the list.
LEMMA ListingAppend ==
  ASSUME NEW mons \in Seq(Monitor), NEW obj \in [Monitor -> Slot], NEW mon \in Monitor,
         mon \notin Range(mons), NEW x \in Slot
  PROVE  Listing(Append(mons, mon), [obj EXCEPT ![mon] = x]) = Append(Listing(mons, obj), x)
<1> DEFINE n == Len(mons)
           ob == [obj EXCEPT ![mon] = x]
           ms == Append(mons, mon)
           L == Listing(ms, ob)
           R == Append(Listing(mons, obj), x)
<1>1. n \in Nat /\ DOMAIN mons = 1 .. n /\ \A k \in 1 .. n : mons[k] \in Monitor /\ mons[k] # mon
  BY LenProperties, ElementOfSeq DEF Range
<1>2. ob \in [Monitor -> Slot] /\ ob[mon] = x /\ \A m \in Monitor : m # mon => ob[m] = obj[m]
  OBVIOUS
<1> HIDE DEF n, ob
<1>3. /\ ms \in Seq(Monitor) /\ Len(ms) = n + 1 /\ ms[n + 1] = mon
      /\ \A k \in 1 .. n : ms[k] = mons[k]
  BY <1>1 DEF n
<1> HIDE DEF ms
<1>4. L \in Seq(Slot) /\ Len(L) = n + 1 /\ \A k \in 1 .. n + 1 : L[k] = ob[ms[k]]
  BY <1>2, <1>3, ListingType, ListingPlaces
<1>5. /\ Listing(mons, obj) \in Seq(Slot) /\ Len(Listing(mons, obj)) = n
      /\ \A k \in 1 .. n : Listing(mons, obj)[k] = obj[mons[k]]
  BY ListingType, ListingPlaces DEF n
<1>6. R \in Seq(Slot) /\ Len(R) = n + 1 /\ R[n + 1] = x /\ \A k \in 1 .. n : R[k] = obj[mons[k]]
  BY <1>5
<1> HIDE DEF L, R
<1>7. ASSUME NEW k \in 1 .. n + 1 PROVE L[k] = R[k]
  <2>1. CASE k = n + 1
    BY <1>2, <1>3, <1>4, <1>6, <2>1
  <2>2. CASE k \in 1 .. n
    BY <1>1, <1>2, <1>3, <1>4, <1>6, <2>2
  <2>3. QED BY <1>1, <2>1, <2>2
<1>8. L = R
  BY <1>4, <1>6, <1>7, SeqEqual
<1>9. QED BY <1>8 DEF L, R, ms, ob

\* The object at place i goes.
LEMMA ListingRemove ==
  ASSUME NEW mons \in Seq(Monitor), IsInjective(mons), NEW obj \in [Monitor -> Slot],
         NEW i \in DOMAIN mons, NEW x \in Slot
  PROVE  Listing(RemoveAt(mons, i), [obj EXCEPT ![mons[i]] = x])
           = RemoveAt(Listing(mons, obj), i)
<1> DEFINE n == Len(mons)
           ob == [obj EXCEPT ![mons[i]] = x]
           ms == RemoveAt(mons, i)
           L == Listing(ms, ob)
           R == RemoveAt(Listing(mons, obj), i)
           At(k) == IF k < i THEN k ELSE k + 1
<1>1. /\ n \in Nat /\ DOMAIN mons = 1 .. n /\ i \in 1 .. n
      /\ \A k \in 1 .. n : mons[k] \in Monitor /\ (mons[k] = mons[i] => k = i)
  BY LenProperties, ElementOfSeq DEF IsInjective
<1>2. ob \in [Monitor -> Slot] /\ \A m \in Monitor : m # mons[i] => ob[m] = obj[m]
  BY <1>1
<1> HIDE DEF ob
<1>3. ms \in Seq(Monitor) /\ Len(ms) = n - 1 /\ \A k \in 1 .. n - 1 : ms[k] = mons[At(k)]
  BY <1>1, RemoveAtProperties
<1>5. /\ Listing(mons, obj) \in Seq(Slot) /\ Len(Listing(mons, obj)) = n
      /\ \A k \in 1 .. n : Listing(mons, obj)[k] = obj[mons[k]]
  BY ListingType, ListingPlaces
<1> HIDE DEF n, ms
<1>4. L \in Seq(Slot) /\ Len(L) = n - 1 /\ \A k \in 1 .. n - 1 : L[k] = ob[ms[k]]
  BY <1>2, <1>3, ListingType, ListingPlaces
<1>6. R \in Seq(Slot) /\ Len(R) = n - 1
      /\ \A k \in 1 .. n - 1 : R[k] = Listing(mons, obj)[At(k)]
  BY <1>1, <1>5, RemoveAtProperties
<1>7. \A k \in 1 .. n - 1 : At(k) \in 1 .. n /\ At(k) # i
  BY <1>1
<1> HIDE DEF L, R, At
<1>8. \A k \in 1 .. n - 1 : L[k] = R[k]
  BY <1>1, <1>2, <1>3, <1>4, <1>5, <1>6, <1>7
<1>9. L = R
  BY <1>4, <1>6, <1>8, SeqEqual
<1>10. QED BY <1>9 DEF L, R, ms, ob

\* Another object at place i.
LEMMA ListingReplace ==
  ASSUME NEW mons \in Seq(Monitor), IsInjective(mons), NEW obj \in [Monitor -> Slot],
         NEW i \in DOMAIN mons, NEW mon \in Monitor, mon \notin Range(mons),
         NEW x \in Slot, NEW y \in Slot
  PROVE  Listing(Put(mons, i, mon), Swapped(obj, mon, x, mons[i], y))
           = Put(Listing(mons, obj), i, x)
<1> DEFINE n == Len(mons)
           ob == Swapped(obj, mon, x, mons[i], y)
           ms == Put(mons, i, mon)
<1>1. /\ n \in Nat /\ DOMAIN mons = 1 .. n /\ i \in 1 .. n
      /\ \A k \in 1 .. n : /\ mons[k] \in Monitor /\ mons[k] # mon
                           /\ (mons[k] = mons[i] => k = i)
  BY LenProperties, ElementOfSeq DEF IsInjective, Range
<1>2. ob = [m \in Monitor |-> IF m = mons[i] THEN y ELSE IF m = mon THEN x ELSE obj[m]]
  BY DEF Swapped
<1> HIDE DEF ob, n
<1>3. ob[mon] = x /\ \A m \in Monitor : m # mon /\ m # mons[i] => ob[m] = obj[m]
  BY <1>1, <1>2
<1>4. ms = [k \in 1 .. n |-> IF k = i THEN mon ELSE mons[k]]
  BY <1>1 DEF Put
<1> HIDE DEF ms
<1>5. Listing(ms, ob) = [k \in 1 .. n |-> ob[ms[k]]]
  BY <1>4 DEF Listing
<1>6. \A k \in 1 .. n : ob[ms[k]] = IF k = i THEN x ELSE obj[mons[k]]
  BY <1>1, <1>3, <1>4
<1>7. Put(Listing(mons, obj), i, x) = [k \in 1 .. n |-> IF k = i THEN x ELSE obj[mons[k]]]
  BY <1>1 DEF Listing, Put
<1>8. QED BY <1>5, <1>6, <1>7 DEF ms, ob

\* A view that a monitor leaves draws the others as before.
LEMMA DrawnDetach ==
  ASSUME NEW v \in ViewT, v.type # NoView, IsInjective(Shown(v)),
         NEW mon \in Range(Shown(v)), mon \in Monitor,
         NEW f, NEW g, NEW obj, NEW ob, Drawn(v, f, obj),
         \A m \in Range(Shown(v)) \ {mon} :
           /\ ob[m].dir = obj[m].dir
           /\ ColorOf(f, obj[m].dir) # NoColor => ColorOf(g, obj[m].dir) = ColorOf(f, obj[m].dir)
  PROVE  Drawn(Detach(v, mon), g, ob)
<1> DEFINE w == Detach(v, mon)
<1>1. /\ w \in ViewT /\ Range(Shown(w)) = Range(Shown(v)) \ {mon}
      /\ \A k \in DOMAIN w.elements : \E j \in DOMAIN v.elements : w.elements[k] = v.elements[j]
  BY DetachType
<1> HIDE DEF w
<1>2. ASSUME NEW k \in DOMAIN w.elements
      PROVE  /\ w.elements[k].color # NoColor
             /\ w.elements[k].color = ColorOf(g, ob[w.elements[k].mon].dir)
  <2> DEFINE m == w.elements[k].mon
  <2>1. m \in Range(Shown(w))
    BY DEF Shown, Range
  <2>2. PICK j \in DOMAIN v.elements : w.elements[k] = v.elements[j]
    BY <1>1
  <2>3. w.elements[k].color # NoColor /\ w.elements[k].color = ColorOf(f, obj[m].dir)
    BY <2>2 DEF Drawn
  <2> HIDE DEF m
  <2>4. ob[m].dir = obj[m].dir
        /\ (ColorOf(f, obj[m].dir) # NoColor => ColorOf(g, obj[m].dir) = ColorOf(f, obj[m].dir))
    BY <1>1, <2>1
  <2>5. QED BY <2>3, <2>4 DEF m
<1>3. QED BY <1>2 DEF Drawn, w

\* A view that a monitor joins draws it, too, in the colour of its group.
LEMMA AttachOneFollows ==
  ASSUME NEW s \in StoreT, NEW v \in ViewT, NEW mon \in Monitor, NEW obj,
         obj[mon].dir \in Nat,
         ~ s.missed => Distinct(Listed(s.file)) /\ HasGroup(s.file, obj[mon].dir),
         v.type \in GraphTypes /\ ~ s.missed => Drawn(v, s.file, obj)
  PROVE  LET a == AttachOne(s, v, mon, obj[mon].dir)
         IN  /\ Follows(s, a.store)
             /\ v.type \in GraphTypes /\ ~ a.store.missed => Drawn(a.view, a.store.file, obj)
<1> DEFINE dir == obj[mon].dir
           a == AttachOne(s, v, mon, dir)
<1>1. CASE v.type = NoView
  <2>1. a.store = s /\ v.type \notin GraphTypes
    BY <1>1, PluginAssumption DEF AttachOne, KnownTypes
  <2>2. QED BY <2>1, FollowsItself
<1>2. CASE v.type # NoView
  <2> DEFINE b == Attach(s, v.type, dir)
             x == [mon |-> mon, color |-> b.color]
             e == Append(v.elements, x)
             n == Len(v.elements)
  <2>1. a.store = b.store /\ a.view = [v EXCEPT !.elements = e]
    BY <1>2 DEF AttachOne
  <2>2. b \in [store : StoreT, color : Color \cup {NoColor}]
    BY AttachType
  <2>3. /\ Follows(s, b.store)
        /\ v.type \in GraphTypes /\ ~ b.store.missed =>
             b.color # NoColor /\ b.color = ColorOf(b.store.file, dir)
    BY AttachFollows
  <2> HIDE DEF a, b, dir
  <2>4. v.elements \in Seq(Element) /\ x \in Element
    BY <2>2 DEF ViewT, Element
  <2>5. a.view.elements = e
    BY <2>1 DEF ViewT
  <2>6. /\ n \in Nat /\ DOMAIN e = 1 .. n + 1 /\ e[n + 1] = x
        /\ DOMAIN v.elements = 1 .. n /\ \A i \in 1 .. n : e[i] = v.elements[i]
    BY <2>4
  <2> HIDE DEF e, n
  <2>7. ASSUME v.type \in GraphTypes, ~ b.store.missed PROVE Drawn(a.view, b.store.file, obj)
    <3>1. Drawn(v, b.store.file, obj)
      <4>1. ~ s.missed
        BY <2>3, <2>7 DEF Follows
      <4>2. QED BY <2>2, <2>3, <2>7, <4>1, DrawnFollows
    <3>2. ASSUME NEW i \in DOMAIN e
          PROVE  e[i].color # NoColor /\ e[i].color = ColorOf(b.store.file, obj[e[i].mon].dir)
      <4>1. CASE i = n + 1
        BY <2>3, <2>6, <2>7, <4>1 DEF dir
      <4>2. CASE i \in 1 .. n
        BY <2>6, <3>1, <4>2 DEF Drawn
      <4>3. QED BY <2>6, <4>1, <4>2
    <3>3. QED BY <2>5, <3>2 DEF Drawn
  <2>8. QED BY <2>1, <2>3, <2>7 DEF a, dir
<1>3. QED BY <1>1, <1>2


--------------------------------------------------------------------------
(***************************************************************************)
(* What a handler leaves when none of its writes is skipped: a file that   *)
(* lists the plugin's monitors and names its viewer type, a view that      *)
(* draws them in the colours of the file, and, on the way, files that list *)
(* the monitors before or after it.                                        *)
(***************************************************************************)
Written(r, L) ==
  ~ r.store.missed =>
    /\ ~ missed
    /\ Listed(r.store.file) = L /\ L = Listing(r.monitors, r.object) /\ Sound(L)
    /\ r.store.next_color = r.store.file.next_color
    /\ \A f \in r.store.past : Listed(f) \in {Listed(file), L}
Coloured(r) ==
  ~ r.store.missed /\ r.view.type \in GraphTypes => Drawn(r.view, r.store.file, r.object)
TypeSaved(r) == ~ r.store.missed => r.store.file.viewer_type = r.viewer_type

Records(r, L) == Written(r, L) /\ Coloured(r) /\ TypeSaved(r)

\* Between two handlers, the file is the plugin's.
Recorded ==
  ~ missed =>
    /\ Sound(Listed(file))
    /\ up => /\ Listed(file) = Listing(monitors, object)
             /\ file.viewer_type = viewer_type /\ file.next_color = next_color

LEMMA WrittenFollows ==
  ASSUME NEW r, NEW q, NEW L, Written(r, L), Follows(r.store, q.store),
         q.monitors = r.monitors, q.object = r.object
  PROVE  Written(q, L)
<1> SUFFICES ASSUME ~ q.store.missed
             PROVE  /\ ~ missed
                    /\ Listed(q.store.file) = L /\ L = Listing(q.monitors, q.object)
                    /\ Sound(L) /\ q.store.next_color = q.store.file.next_color
                    /\ \A f \in q.store.past : Listed(f) \in {Listed(file), L}
  BY DEF Written
<1>1. /\ ~ r.store.missed
      /\ Listed(q.store.file) = Listed(r.store.file)
      /\ r.store.next_color = r.store.file.next_color =>
           q.store.next_color = q.store.file.next_color
      /\ \A f \in q.store.past : f \in r.store.past \/ Listed(f) = Listed(r.store.file)
  BY DEF Follows
<1>2. /\ ~ missed
      /\ Listed(r.store.file) = L /\ L = Listing(r.monitors, r.object) /\ Sound(L)
      /\ r.store.next_color = r.store.file.next_color
      /\ \A f \in r.store.past : Listed(f) \in {Listed(file), L}
  BY <1>1 DEF Written
<1>3. QED BY <1>1, <1>2

\* The monitors of a handler are allocated, and have settings directories.
LEMMA FitObjects ==
  ASSUME NEW r, Fit(r)
  PROVE  /\ Located(r.object, r.monitors)
         /\ \A k \in DOMAIN r.monitors : r.object[r.monitors[k]] \in Object
<1>1. /\ r.object \in [Monitor -> Object \cup {Freed}]
      /\ Range(r.monitors) = {m \in Monitor : r.object[m] # Freed}
  BY DEF Fit, ResultT
<1>2. \A k \in DOMAIN r.monitors : r.monitors[k] \in Range(r.monitors)
  BY DEF Range
<1>3. \A m \in Range(r.monitors) : r.object[m] \in Object
  BY <1>1
<1>4. QED BY <1>2, <1>3 DEF Located, Object

\* If the file lists the monitors, each of them has a group.
LEMMA WrittenGroups ==
  ASSUME NEW r, r.store \in StoreT, NEW L, Written(r, L), ~ r.store.missed
  PROVE  /\ Distinct(Listed(r.store.file))
         /\ \A k \in DOMAIN r.monitors :
              HasGroup(r.store.file, r.object[r.monitors[k]].dir)
<1>1. r.store.file \in File
  BY DEF StoreT
<1>2. ASSUME NEW k \in DOMAIN r.monitors
      PROVE  HasGroup(r.store.file, r.object[r.monitors[k]].dir)
  <2>1. Listed(r.store.file) = Listing(r.monitors, r.object)
    BY DEF Written
  <2>2. k \in DOMAIN Listed(r.store.file)
        /\ Listed(r.store.file)[k].dir = r.object[r.monitors[k]].dir
    BY <2>1 DEF Listing
  <2>3. QED BY <1>1, <2>2, FileShape, Groups
<1>3. QED BY <1>2 DEF Written, Sound

\* viewer_type_listener: a new view saves colours only, and has those of the file.
LEMMA ViewerTypeListenerWritten ==
  ASSUME NEW r, Fit(r), NEW L, Written(r, L),
         NEW type \in Type, type \in KnownTypes \/ type = r.viewer_type, NEW force \in BOOLEAN
  PROVE  LET q == ViewerTypeListener(r, type, force)
         IN  /\ Follows(r.store, q.store) /\ Written(q, L)
             /\ (force \/ Coloured(r)) => Coloured(q)
<1> DEFINE a == AttachAll(r.store, type, r.monitors, r.object)
           q == ViewerTypeListener(r, type, force)
<1>0. /\ r \in ResultT /\ r.store \in StoreT /\ r.monitors \in Seq(Monitor)
      /\ r.view.type = IF r.viewer_type \in KnownTypes THEN r.viewer_type ELSE NoView
  BY DEF Fit, ResultT
<1>1. CASE type \in KnownTypes /\ (force \/ r.view.type # type)
  <2> DEFINE p == WithView(r, a.store, a.view, type)
  <2>1. q = p
    BY <1>1 DEF ViewerTypeListener, WithView
  <2>2. /\ Located(r.object, r.monitors)
        /\ ~ r.store.missed =>
             /\ Distinct(Listed(r.store.file))
             /\ \A k \in DOMAIN r.monitors :
                  HasGroup(r.store.file, r.object[r.monitors[k]].dir)
    BY <1>0, FitObjects, WrittenGroups
  <2>3. /\ Follows(r.store, a.store)
        /\ type \in GraphTypes /\ ~ a.store.missed => Drawn(a.view, a.store.file, r.object)
    BY <1>0, <1>1, <2>2, AttachAllFollows
  <2>4. a.view.type = type
    BY <1>0, <1>1, <2>2, AttachAllType
  <2> HIDE DEF a
  <2>5. /\ p.store = a.store /\ p.view = a.view
        /\ p.monitors = r.monitors /\ p.object = r.object
    BY <1>0 DEF ResultT, WithView
  <2> HIDE DEF p, q
  <2>6. Follows(r.store, p.store) /\ Written(p, L)
    BY <2>3, <2>5, WrittenFollows
  <2>7. Coloured(p)
    BY <2>3, <2>4, <2>5 DEF Coloured
  <2>8. QED BY <2>1, <2>6, <2>7 DEF q
<1>2. CASE ~ (type \in KnownTypes /\ (force \/ r.view.type # type))
  <2> DEFINE p == [r EXCEPT !.viewer_type = type]
  <2>1. q = p
    BY <1>2 DEF ViewerTypeListener
  <2>2. /\ p.store = r.store /\ p.view = r.view
        /\ p.monitors = r.monitors /\ p.object = r.object
    BY <1>0 DEF ResultT
  <2> HIDE DEF p, q
  <2>3. Follows(r.store, p.store)
    BY <2>2, FollowsItself
  <2>4. Written(p, L)
    BY <2>2, <2>3, WrittenFollows
  <2>5. force \/ Coloured(r) => Coloured(p)
    <3>1. CASE force
      <4>1. r.view.type = NoView
        BY <1>0, <1>2, <3>1
      <4>2. NoView \notin GraphTypes
        BY PluginAssumption DEF KnownTypes
      <4>3. QED BY <2>2, <4>1, <4>2 DEF Coloured
    <3>2. CASE Coloured(r)
      BY <2>2, <3>2 DEF Coloured
    <3>3. QED BY <3>1, <3>2
  <2>6. QED BY <2>1, <2>3, <2>4, <2>5 DEF q
<1>3. QED BY <1>1, <1>2


\* The invariant, for what a handler starts from.
LEMMA KeptRecords ==
  ASSUME IInv, Recorded, DrawnInItsColor, up
  PROVE  Records(Kept(Store), Listed(file))
<1> DEFINE r == Kept(Store)
<1>1. /\ r.store.file = file /\ r.store.missed = missed /\ r.store.next_color = next_color
      /\ r.store.past = {file} /\ r.monitors = monitors /\ r.object = object
      /\ r.view = view /\ r.viewer_type = viewer_type
  BY DEF Kept, Store
<1> HIDE DEF r
<1>2. Written(r, Listed(file))
  BY <1>1 DEF Written, Recorded
<1>3. Coloured(r)
  BY <1>1 DEF Coloured, Drawn, DrawnInItsColor
<1>4. TypeSaved(r)
  BY <1>1 DEF TypeSaved, Recorded
<1>5. QED BY <1>2, <1>3, <1>4 DEF Records, r

\* A change of the viewer type, in a file on which a handler goes on.
LEMMA TypeFlush ==
  ASSUME NEW r, Fit(r), NEW L, Written(r, L), Coloured(r), NEW to \in Type
  PROVE  LET s == Flush(r.store, [r.store.file EXCEPT !.viewer_type = to])
             p == [r EXCEPT !.store = s]
         IN  /\ Fit(p) /\ Written(p, L) /\ Coloured(p) /\ p.store = s
             /\ p.viewer_type = r.viewer_type /\ p.button = r.button
             /\ ~ s.missed => s.file.viewer_type = to
<1> DEFINE f == [r.store.file EXCEPT !.viewer_type = to]
           s == Flush(r.store, f)
           p == [r EXCEPT !.store = s]
<1>1. r \in ResultT /\ r.store \in StoreT /\ r.store.file \in File
  BY DEF Fit, ResultT, StoreT
<1>2. f \in File /\ f.viewer_type = to /\ f.groups = r.store.file.groups
      /\ f.next_color = r.store.file.next_color
  BY <1>1 DEF File
<1> HIDE DEF f
<1>3. /\ s \in StoreT /\ s.next_color = r.store.next_color
      /\ ~ s.missed => ~ r.store.missed /\ s.file = f /\ s.past = r.store.past \cup {f}
  BY <1>1, <1>2, FlushType, FlushWrites
<1>4. Listed(f) = Listed(r.store.file) /\ \A d : ColorOf(f, d) = ColorOf(r.store.file, d)
  BY <1>2, SameGroups
<1> HIDE DEF s
<1>5. /\ p \in ResultT /\ p.store = s /\ p.monitors = r.monitors /\ p.object = r.object
      /\ p.view = r.view /\ p.viewer_type = r.viewer_type /\ p.button = r.button
  BY <1>1, <1>3, ResultFields
<1> HIDE DEF p
<1>6. Fit(p)
  BY <1>5 DEF Fit
<1>7. Written(p, L)
  <2> SUFFICES ASSUME ~ s.missed PROVE Written(p, L)
    BY <1>5 DEF Written
  <2>1. ~ r.store.missed
    BY <1>3
  <2>2. \A g \in s.past : g \in r.store.past \/ Listed(g) = Listed(r.store.file)
    BY <1>3, <1>4
  <2>3. QED BY <1>2, <1>3, <1>4, <1>5, <2>1, <2>2 DEF Written
<1>8. Coloured(p)
  <2> SUFFICES ASSUME ~ s.missed, r.view.type \in GraphTypes PROVE Drawn(r.view, f, r.object)
    BY <1>3, <1>5 DEF Coloured
  <2>1. Drawn(r.view, r.store.file, r.object)
    BY <1>3 DEF Coloured
  <2>2. QED BY <1>4, <2>1 DEF Drawn
<1>9. QED BY <1>2, <1>3, <1>5, <1>6, <1>7, <1>8 DEF p, s, f

\* The radio buttons: the last type saved is the one of the view that stays.
LEMMA SwitchingRecords ==
  ASSUME NEW r, Fit(r), NEW L, Written(r, L), Coloured(r),
         NEW from \in KnownTypes, NEW to \in KnownTypes
  PROVE  Records(Switching(r, from, to), L)
<1> DEFINE old == ViewerTypeListener(r, from, FALSE)
           f == [old.store.file EXCEPT !.viewer_type = to]
           s == Flush(old.store, f)
           p == [old EXCEPT !.store = s]
           new == ViewerTypeListener(p, to, FALSE)
           q == [new EXCEPT !.button = to]
<1>1. Switching(r, from, to) = q
  BY DEF Switching
<1>2. from \in Type /\ to \in Type /\ FALSE \in BOOLEAN
  BY DEF Type
<1>3. Fit(old) /\ Written(old, L) /\ Coloured(old)
  BY <1>2, ViewerTypeListenerFit, ViewerTypeListenerWritten
<1> HIDE DEF old
<1>4. /\ Fit(p) /\ Written(p, L) /\ Coloured(p) /\ p.store = s
      /\ ~ s.missed => s.file.viewer_type = to
  BY <1>2, <1>3, TypeFlush
<1> HIDE DEF p, s
<1>5. /\ Fit(new) /\ Written(new, L) /\ Coloured(new) /\ new.viewer_type = to
      /\ Follows(p.store, new.store)
  BY <1>2, <1>4, ViewerTypeListenerFit, ViewerTypeListenerWritten
<1> HIDE DEF new
<1>6. /\ q.store = new.store /\ q.monitors = new.monitors /\ q.object = new.object
      /\ q.view = new.view /\ q.viewer_type = to
  BY <1>5, ResultFields DEF Fit
<1> HIDE DEF q
<1>7. TypeSaved(q)
  BY <1>4, <1>5, <1>6 DEF TypeSaved, Follows
<1>8. Written(q, L) /\ Coloured(q)
  BY <1>5, <1>6 DEF Written, Coloured
<1>9. QED BY <1>1, <1>7, <1>8 DEF Records

\* Opening the preferences window leaves the list of monitors alone.
LEMMA OpeningPreferencesRecords ==
  ASSUME IInv, Recorded, DrawnInItsColor, up
  PROVE  Records(OpeningPreferences, Listed(file))
<1> DEFINE k == Kept(Store)
           r == [k EXCEPT !.button = "curve"]
           L == Listed(file)
<1>1. "curve" \in KnownTypes /\ viewer_type \in Type /\ FALSE \in BOOLEAN
  BY Running DEF KnownTypes, GraphTypes
<1>2. Fit(k) /\ k.viewer_type = viewer_type /\ Records(k, L)
  BY KeptFit, Running, KeptRecords
<1> HIDE DEF k, L
<1>3. /\ r \in ResultT /\ r.monitors = k.monitors /\ r.object = k.object
      /\ r.view = k.view /\ r.viewer_type = viewer_type /\ r.store = k.store
  BY <1>1, <1>2, ResultFields DEF Fit
<1>4. OpeningPreferences =
        IF viewer_type \in KnownTypes \ {"curve"} THEN Switching(r, "curve", viewer_type)
        ELSE ViewerTypeListener(r, viewer_type, FALSE)
  BY DEF OpeningPreferences, k
<1> HIDE DEF r
<1>5. Fit(r)
  BY <1>2, <1>3 DEF Fit
<1>6. Written(r, L) /\ Coloured(r) /\ TypeSaved(r)
  BY <1>2, <1>3 DEF Records, Written, Coloured, TypeSaved
<1>7. CASE viewer_type \in KnownTypes \ {"curve"}
  BY <1>1, <1>4, <1>5, <1>6, <1>7, SwitchingRecords DEF L
<1>8. CASE viewer_type \notin KnownTypes \ {"curve"}
  <2> DEFINE q == ViewerTypeListener(r, viewer_type, FALSE)
  <2>1. /\ Follows(r.store, q.store) /\ Written(q, L) /\ Coloured(q)
        /\ q.viewer_type = viewer_type
    BY <1>1, <1>3, <1>5, <1>6, ViewerTypeListenerFit, ViewerTypeListenerWritten
  <2> HIDE DEF q
  <2>2. TypeSaved(q)
    BY <1>3, <1>6, <2>1 DEF TypeSaved, Follows
  <2>3. QED BY <1>4, <1>8, <2>1, <2>2 DEF Records, q, L
<1>9. QED BY <1>7, <1>8


\* The entries of the file are those of the monitors.
LEMMA Entries ==
  ASSUME IInv, Recorded, up, ~ missed
  PROVE  /\ Sound(Listed(file)) /\ Listed(file) = Listing(monitors, object)
         /\ file.viewer_type = viewer_type /\ file.next_color = next_color
         /\ DOMAIN file.groups = DOMAIN monitors
         /\ \A i \in DOMAIN monitors :
              /\ file.groups[i].dir = object[monitors[i]].dir
              /\ file.groups[i].cfg = object[monitors[i]].cfg
              /\ HasGroup(file, object[monitors[i]].dir)
         /\ \A i \in DOMAIN monitors, m \in Range(monitors) :
              m # monitors[i] => object[m].dir # object[monitors[i]].dir
<1> DEFINE L == Listed(file)
<1>1. /\ Sound(L) /\ L = Listing(monitors, object)
      /\ file.viewer_type = viewer_type /\ file.next_color = next_color
  BY DEF Recorded
<1>2. /\ DOMAIN L = DOMAIN file.groups
      /\ \A i \in DOMAIN file.groups : /\ L[i].cfg = file.groups[i].cfg
                                       /\ L[i].dir = file.groups[i].dir
      /\ \A dir : HasGroup(file, dir) <=> \E i \in DOMAIN L : L[i].dir = dir
  BY Running, FileShape, Groups
<1> HIDE DEF L
<1>3. DOMAIN L = DOMAIN monitors /\ \A i \in DOMAIN monitors : L[i] = object[monitors[i]]
  BY <1>1 DEF Listing
<1>4. ASSUME NEW i \in DOMAIN monitors, NEW m \in Range(monitors), m # monitors[i]
      PROVE  object[m].dir # object[monitors[i]].dir
  <2>1. PICK j \in DOMAIN monitors : monitors[j] = m
    BY DEF Range
  <2>2. i # j
    BY <1>4, <2>1
  <2>3. L[i].dir # L[j].dir
    BY <1>1, <1>3, <2>2 DEF Sound, Distinct
  <2>4. QED BY <1>3, <2>1, <2>3
<1>5. QED BY <1>1, <1>2, <1>3, <1>4 DEF L

\* What most handlers leave.
After(s, ms, ob, v) == [store |-> s, monitors |-> ms, object |-> ob, view |-> v,
                        viewer_type |-> viewer_type, button |-> button]

\* One write that keeps viewer_type and next_color.
LEMMA AfterWrite ==
  ASSUME IInv, Recorded, up, NEW f \in File, NEW ms, NEW ob, NEW v, NEW L,
         ~ missed => /\ Listed(f) = L /\ L = Listing(ms, ob) /\ Sound(L)
                     /\ f.viewer_type = file.viewer_type /\ f.next_color = file.next_color
  PROVE  LET r == After(Flush(Store, f), ms, ob, v)
         IN  /\ Flush(Store, f) \in StoreT /\ Written(r, L) /\ TypeSaved(r)
             /\ (~ missed /\ v.type \in GraphTypes => Drawn(v, f, ob)) => Coloured(r)
             /\ ~ r.store.missed => ~ missed
<1> DEFINE s == Flush(Store, f)
           r == After(s, ms, ob, v)
<1>1. /\ s \in StoreT /\ s.next_color = Store.next_color
      /\ ~ s.missed => ~ Store.missed /\ s.file = f /\ s.past = Store.past \cup {f}
  BY Running, FlushType, FlushWrites
<1>2. Store.next_color = next_color /\ Store.past = {file} /\ Store.missed = missed
  BY DEF Store
<1> HIDE DEF s
<1>3. /\ r.store = s /\ r.monitors = ms /\ r.object = ob /\ r.view = v
      /\ r.viewer_type = viewer_type
  BY DEF After
<1> HIDE DEF r
<1>4. ~ s.missed => ~ missed
  BY <1>1, <1>2
<1>5. ASSUME ~ s.missed
      PROVE  /\ Listed(s.file) = L /\ L = Listing(ms, ob) /\ Sound(L)
             /\ s.next_color = s.file.next_color /\ s.file.viewer_type = viewer_type
             /\ \A g \in s.past : Listed(g) \in {Listed(file), L}
  <2>1. ~ missed /\ s.file = f /\ s.past = {file, f} /\ s.next_color = next_color
    BY <1>1, <1>2, <1>5
  <2>2. file.viewer_type = viewer_type /\ file.next_color = next_color
    BY <2>1, Entries
  <2>3. QED BY <2>1, <2>2
<1>6. Written(r, L) /\ TypeSaved(r)
  BY <1>3, <1>4, <1>5 DEF Written, TypeSaved
<1>7. ASSUME ~ missed /\ v.type \in GraphTypes => Drawn(v, f, ob) PROVE Coloured(r)
  BY <1>1, <1>3, <1>4, <1>7 DEF Coloured
<1>8. QED BY <1>1, <1>3, <1>4, <1>6, <1>7 DEF r, s

\* The view, if there is one, shows a monitor of the list last.
LEMMA AttachOneRecords ==
  ASSUME NEW s \in StoreT, NEW v \in ViewT, NEW mon \in Monitor, NEW ms, NEW ob, NEW L,
         mon \in Range(ms), ob[mon].dir \in Nat, Records(After(s, ms, ob, v), L)
  PROVE  LET a == AttachOne(s, v, mon, ob[mon].dir)
         IN  Records(After(a.store, ms, ob, a.view), L)
<1> DEFINE a == AttachOne(s, v, mon, ob[mon].dir)
           r == After(s, ms, ob, v)
           q == After(a.store, ms, ob, a.view)
<1>1. /\ r.store = s /\ r.monitors = ms /\ r.object = ob /\ r.view = v
      /\ r.viewer_type = viewer_type
  BY DEF After
<1>2. /\ q.store = a.store /\ q.monitors = ms /\ q.object = ob /\ q.view = a.view
      /\ q.viewer_type = viewer_type
  BY DEF After
<1>3. Written(r, L) /\ Coloured(r) /\ TypeSaved(r)
  BY DEF Records
<1> HIDE DEF r, q
<1>4. ~ s.missed => Distinct(Listed(s.file)) /\ HasGroup(s.file, ob[mon].dir)
  <2>1. PICK k \in DOMAIN ms : ms[k] = mon
    BY DEF Range
  <2>2. QED BY <1>1, <1>3, <2>1, WrittenGroups
<1>5. v.type \in GraphTypes /\ ~ s.missed => Drawn(v, s.file, ob)
  BY <1>1, <1>3 DEF Coloured
<1>6. /\ Follows(s, a.store)
      /\ v.type \in GraphTypes /\ ~ a.store.missed => Drawn(a.view, a.store.file, ob)
  BY <1>4, <1>5, AttachOneFollows
<1>7. a.view.type = v.type
  BY AttachOneType
<1> HIDE DEF a
<1>8. Written(q, L)
  BY <1>1, <1>2, <1>3, <1>6, WrittenFollows
<1>9. Coloured(q)
  BY <1>2, <1>6, <1>7 DEF Coloured
<1>10. TypeSaved(q)
  BY <1>1, <1>2, <1>3, <1>6 DEF TypeSaved, Follows
<1>11. QED BY <1>8, <1>9, <1>10 DEF Records, q, a


\* A view draws the monitors of the list.
LEMMA Drawing ==
  ASSUME IInv, DrawnInItsColor, up, ~ missed, view.type \in GraphTypes
  PROVE  /\ view \in ViewT /\ view.type # NoView /\ IsInjective(Shown(view))
         /\ Range(Shown(view)) = Range(monitors) /\ Drawn(view, file, object)
         /\ \A k \in DOMAIN view.elements : view.elements[k].mon \in Range(monitors)
<1>1. view \in ViewT /\ Shows(view, monitors)
  BY Running
<1>2. view.type # NoView
  BY PluginAssumption DEF KnownTypes
<1>3. IsInjective(Shown(view)) /\ Range(Shown(view)) = Range(monitors)
  BY <1>1, <1>2 DEF Shows
<1>4. Drawn(view, file, object)
  BY DEF DrawnInItsColor, Drawn
<1>5. \A k \in DOMAIN view.elements : view.elements[k].mon \in Range(Shown(view))
  BY DEF Shown, Range
<1>6. QED BY <1>1, <1>2, <1>3, <1>4, <1>5

\* Monitors whose directories differ are a sound list.
LEMMA SoundListing ==
  ASSUME NEW r, Fit(r), Distinct(Listing(r.monitors, r.object))
  PROVE  Sound(Listing(r.monitors, r.object))
<1>1. \A k \in DOMAIN r.monitors : r.object[r.monitors[k]] \in Object
  BY FitObjects
<1>2. NoConfig \notin Config
  BY PluginAssumption
<1>3. QED BY <1>1, <1>2 DEF Sound, Listing, Object

\* add_monitor: the file lists the monitor last, under a name of its own.
LEMMA AddingRecords ==
  ASSUME IInv, Recorded, DrawnInItsColor, up,
         NEW mon \in Monitor, object[mon] = Freed, NEW cfg \in Config
  PROVE  Records(Adding(mon, cfg), Append(Listed(file), [cfg |-> cfg, dir |-> EmptyDir(file)]))
<1> DEFINE dir == EmptyDir(file)
           x == [cfg |-> cfg, dir |-> dir]
           f == SaveGroup(file, dir, cfg)
           s == Flush(Store, f)
           a == AttachOne(s, view, mon, dir)
           ms == Append(monitors, mon)
           ob == [object EXCEPT ![mon] = x]
           L == Append(Listed(file), x)
           q == After(a.store, ms, ob, a.view)
<1>1. Adding(mon, cfg) = q
  BY DEF Adding, After
<1>2. file \in File /\ dir \in Nat /\ ~ HasGroup(file, dir)
  BY Running, EmptyDirType, FileShape, EmptyDirIsFree
<1>3. f \in File
  BY <1>2, FileShape, SaveGroupType
<1>4. /\ object \in [Monitor -> Object \cup {Freed}] /\ monitors \in Seq(Monitor)
      /\ mon \notin Range(monitors) /\ Range(monitors) \subseteq Monitor
  BY Running
<1>5. mon \in Range(ms)
  <2>1. Len(monitors) + 1 \in DOMAIN ms /\ ms[Len(monitors) + 1] = mon
    BY <1>4
  <2>2. QED BY <2>1 DEF Range
<1>6. Fit(q) /\ q.monitors = ms /\ q.object = ob
  BY <1>1, AddingGood DEF Good, After
<1> HIDE DEF dir
<1>7. x \in Object
  BY <1>2 DEF Object
<1> HIDE DEF x
<1>8. ob[mon] = x /\ \A m \in Monitor : m # mon => ob[m] = object[m]
  BY <1>4
<1>9. ob[mon].dir = dir
  BY <1>8 DEF x
<1> HIDE DEF f, q, s
<1>10. Listing(ms, ob) = Append(Listing(monitors, object), x)
  <2>1. object \in [Monitor -> Slot] /\ x \in Slot
    BY <1>4, <1>7 DEF Slot
  <2>2. QED BY <1>4, <2>1, ListingAppend
<1> HIDE DEF ob, ms
<1>11. ASSUME ~ missed
       PROVE  /\ Listed(f) = L /\ L = Listing(ms, ob) /\ Sound(L)
              /\ f.viewer_type = file.viewer_type /\ f.next_color = file.next_color
              /\ \A d : ColorOf(file, d) # NoColor => ColorOf(f, d) = ColorOf(file, d)
  <2>1. Distinct(Listed(file)) /\ Listed(file) = Listing(monitors, object)
    BY <1>11, Entries DEF Sound
  <2>2. /\ Listed(f) = L /\ Distinct(Listed(f))
        /\ f.viewer_type = file.viewer_type /\ f.next_color = file.next_color
        /\ \A d : ColorOf(file, d) # NoColor => ColorOf(f, d) = ColorOf(file, d)
    BY <1>2, <2>1, FileShape, SaveGroupAppends DEF f, x
  <2>3. L = Listing(ms, ob)
    BY <1>10, <2>1
  <2>4. Sound(L)
    BY <1>6, <2>2, <2>3, SoundListing
  <2>5. QED BY <2>2, <2>3, <2>4
<1> HIDE DEF L
<1>12. ASSUME ~ missed, view.type \in GraphTypes PROVE Drawn(view, f, ob)
  <2>1. Drawn(view, file, object)
        /\ \A k \in DOMAIN view.elements : view.elements[k].mon \in Range(monitors)
    BY <1>12, Drawing
  <2>2. \A m \in Range(monitors) : ob[m] = object[m]
    BY <1>4, <1>8
  <2>3. \A d : ColorOf(file, d) # NoColor => ColorOf(f, d) = ColorOf(file, d)
    BY <1>11, <1>12
  <2>4. QED BY <2>1, <2>2, <2>3 DEF Drawn
<1>13. s \in StoreT /\ Records(After(s, ms, ob, view), L)
  BY <1>3, <1>11, <1>12, AfterWrite DEF Records, s
<1>14. Records(q, L)
  <2>1. view \in ViewT
    BY Running
  <2>2. QED BY <1>2, <1>5, <1>9, <1>13, <2>1, AttachOneRecords DEF q
<1>15. QED BY <1>1, <1>14 DEF L, x, dir

\* remove_monitor: the file no longer lists the monitor.
LEMMA RemovingRecords ==
  ASSUME IInv, Recorded, DrawnInItsColor, up, NEW i \in DOMAIN monitors
  PROVE  Records(Removing(i), RemoveAt(Listed(file), i))
<1> DEFINE mon == monitors[i]
           f == DeleteGroup(file, object[mon].dir)
           ms == RemoveAt(monitors, i)
           ob == [object EXCEPT ![mon] = Freed]
           w == Detach(view, mon)
           L == RemoveAt(Listed(file), i)
           q == After(Flush(Store, f), ms, ob, w)
<1>1. Removing(i) = q
  BY DEF Removing, After
<1>2. /\ object \in [Monitor -> Object \cup {Freed}] /\ monitors \in Seq(Monitor)
      /\ IsInjective(monitors) /\ mon \in Range(monitors) /\ Range(monitors) \subseteq Monitor
  BY Running DEF Range
<1>3. f \in File
  BY Running, FileShape, DeleteGroupType
<1>4. Fit(q) /\ q.monitors = ms /\ q.object = ob
  BY <1>1, RemovingGood DEF Good, After
<1>5. Listing(ms, ob) = RemoveAt(Listing(monitors, object), i)
  BY <1>2, ListingRemove DEF Slot
<1>6. \A m \in Monitor : m # mon => ob[m] = object[m]
  BY <1>2
<1> HIDE DEF ob, ms, mon, q
<1>7. ASSUME ~ missed
      PROVE  /\ Listed(f) = L /\ L = Listing(ms, ob) /\ Sound(L)
             /\ f.viewer_type = file.viewer_type /\ f.next_color = file.next_color
             /\ \A d : d # object[mon].dir /\ ColorOf(file, d) # NoColor
                         => ColorOf(f, d) = ColorOf(file, d)
  <2>1. /\ Distinct(Listed(file)) /\ Listed(file) = Listing(monitors, object)
        /\ i \in DOMAIN file.groups /\ file.groups[i].dir = object[mon].dir
    BY <1>7, Entries DEF Sound, mon
  <2>2. /\ Listed(f) = L /\ Distinct(Listed(f))
        /\ f.viewer_type = file.viewer_type /\ f.next_color = file.next_color
        /\ \A d : d # object[mon].dir /\ ColorOf(file, d) # NoColor
                    => ColorOf(f, d) = ColorOf(file, d)
    BY <2>1, Running, FileShape, DeleteGroupRemoves
  <2>3. L = Listing(ms, ob)
    BY <1>5, <2>1
  <2>4. Sound(L)
    BY <1>4, <2>2, <2>3, SoundListing
  <2>5. QED BY <2>2, <2>3, <2>4
<1> HIDE DEF L, f
<1>8. ASSUME ~ missed, view.type \in GraphTypes PROVE Drawn(w, f, ob)
  <2>1. /\ view \in ViewT /\ view.type # NoView /\ IsInjective(Shown(view))
        /\ Range(Shown(view)) = Range(monitors) /\ Drawn(view, file, object)
    BY <1>8, Drawing
  <2>2. ASSUME NEW m \in Range(Shown(view)) \ {mon}
        PROVE  /\ ob[m].dir = object[m].dir
               /\ ColorOf(file, object[m].dir) # NoColor
                    => ColorOf(f, object[m].dir) = ColorOf(file, object[m].dir)
    <3>1. ob[m] = object[m] /\ m \in Range(monitors) /\ m # mon
      BY <1>2, <1>6, <2>1
    <3>2. object[m].dir # object[mon].dir
      BY <1>8, <3>1, Entries DEF mon
    <3>3. QED BY <1>7, <1>8, <3>1, <3>2
  <2>3. mon \in Range(Shown(view)) /\ mon \in Monitor
    BY <1>2, <2>1
  <2>4. QED BY <2>1, <2>2, <2>3, DrawnDetach
<1>9. ~ missed /\ w.type \in GraphTypes => Drawn(w, f, ob)
  <2>1. w.type = view.type
    <3>1. view.type # NoView => IsInjective(Shown(view)) /\ mon \in Range(Shown(view))
      BY <1>2, Running DEF Shows
    <3>2. QED BY <1>2, <3>1, Running, DetachType
  <2>2. QED BY <1>8, <2>1
<1>10. Records(q, L)
  BY <1>3, <1>7, <1>9, AfterWrite DEF Records, q
<1>11. QED BY <1>1, <1>10 DEF L


\* replace_monitor: the new monitor has the entry, and the colour, of the previous one.
LEMMA ReplacingRecords ==
  ASSUME IInv, Recorded, DrawnInItsColor, up,
         NEW i \in DOMAIN monitors, NEW mon \in Monitor, object[mon] = Freed, NEW cfg \in Config
  PROVE  Records(Replacing(i, mon, cfg),
                 Put(Listing(monitors, object), i,
                     [cfg |-> cfg, dir |-> object[monitors[i]].dir]))
<1> DEFINE prev == monitors[i]
           dir == object[prev].dir
           x == [cfg |-> cfg, dir |-> dir]
           f == SaveGroup(file, dir, cfg)
           s == Flush(Store, f)
           v == Detach(view, prev)
           a == AttachOne(s, v, mon, dir)
           ms == Put(monitors, i, mon)
           ob == [object EXCEPT ![mon] = x, ![prev] = Freed]
           L == Put(Listing(monitors, object), i, x)
           q == After(a.store, ms, ob, a.view)
<1>1. Replacing(i, mon, cfg) = q
  BY DEF Replacing, After, Put
<1>2. /\ object \in [Monitor -> Object \cup {Freed}] /\ monitors \in Seq(Monitor)
      /\ IsInjective(monitors) /\ mon \notin Range(monitors)
      /\ prev \in Range(monitors) /\ Range(monitors) \subseteq Monitor
      /\ file \in File
  BY Running DEF Range
<1>3. dir \in Nat
  BY Running DEF Object
<1>4. mon \in Range(ms)
  BY <1>2 DEF Range, Put
<1>5. Fit(q) /\ q.monitors = ms /\ q.object = ob
  BY <1>1, ReplacingGood DEF Good, After
<1> HIDE DEF dir
<1>6. x \in Object
  BY <1>3 DEF Object
<1>7. x.dir = dir
  OBVIOUS
<1> HIDE DEF x
<1>8. Listing(ms, ob) = L
  <2>1. object \in [Monitor -> Slot] /\ x \in Slot /\ Freed \in Slot
    BY <1>2, <1>6 DEF Slot
  <2> HIDE DEF prev
  <2>2. ob = Swapped(object, mon, x, monitors[i], Freed)
    BY DEF prev, Swapped
  <2> HIDE DEF ob
  <2>3. QED BY <1>2, <2>1, <2>2, ListingReplace
<1>9. f \in File
  BY <1>2, <1>3, FileShape, SaveGroupType
<1> HIDE DEF f, q, s, ms, prev
<1>10. ob[mon] = x /\ \A m \in Monitor : m # mon /\ m # prev => ob[m] = object[m]
  <2>1. mon # prev
    BY <1>2
  <2>2. QED BY <1>2, <2>1
<1> HIDE DEF ob, L
<1>11. ASSUME ~ missed
       PROVE  /\ Listed(f) = L /\ L = Listing(ms, ob) /\ Sound(L)
              /\ f.viewer_type = file.viewer_type /\ f.next_color = file.next_color
              /\ \A d : ColorOf(file, d) # NoColor => ColorOf(f, d) = ColorOf(file, d)
  <2>1. /\ Distinct(Listed(file)) /\ Listed(file) = Listing(monitors, object)
        /\ i \in DOMAIN file.groups /\ file.groups[i].dir = dir
    BY <1>11, Entries DEF Sound, dir, prev
  <2>2. /\ Listed(f) = L /\ Distinct(Listed(f))
        /\ f.viewer_type = file.viewer_type /\ f.next_color = file.next_color
        /\ \A d : ColorOf(file, d) # NoColor => ColorOf(f, d) = ColorOf(file, d)
    <3> DEFINE g == SaveGroup(file, file.groups[i].dir, cfg)
    <3>1. /\ Listed(g) = Put(Listed(file), i, [cfg |-> cfg, dir |-> file.groups[i].dir])
          /\ Distinct(Listed(g))
          /\ g.viewer_type = file.viewer_type /\ g.next_color = file.next_color
          /\ \A d : ColorOf(file, d) # NoColor => ColorOf(g, d) = ColorOf(file, d)
      BY <1>2, <2>1, FileShape, SaveGroupChanges
    <3>2. g = f
      BY <2>1 DEF f
    <3> HIDE DEF g
    <3>3. QED BY <2>1, <3>1, <3>2 DEF x, L
  <2>3. Sound(L)
    BY <1>5, <1>8, <2>2, SoundListing
  <2>4. QED BY <1>8, <2>2, <2>3
<1>12. v \in ViewT /\ v.type = view.type
  <2>1. view.type # NoView => IsInjective(Shown(view)) /\ prev \in Range(Shown(view))
    BY <1>2, Running DEF Shows
  <2>2. QED BY <1>2, <2>1, Running, DetachType
<1>13. ASSUME ~ missed, view.type \in GraphTypes PROVE Drawn(v, f, ob)
  <2>1. /\ view \in ViewT /\ view.type # NoView /\ IsInjective(Shown(view))
        /\ Range(Shown(view)) = Range(monitors) /\ Drawn(view, file, object)
    BY <1>13, Drawing
  <2>2. ASSUME NEW m \in Range(Shown(view)) \ {prev}
        PROVE  /\ ob[m].dir = object[m].dir
               /\ ColorOf(file, object[m].dir) # NoColor
                    => ColorOf(f, object[m].dir) = ColorOf(file, object[m].dir)
    <3>1. m \in Monitor /\ m # mon /\ m # prev
      BY <1>2, <2>1
    <3>2. ob[m] = object[m]
      BY <1>10, <3>1
    <3>3. QED BY <1>11, <1>13, <3>2
  <2>3. prev \in Range(Shown(view)) /\ prev \in Monitor
    BY <1>2, <2>1
  <2>4. QED BY <2>1, <2>2, <2>3, DrawnDetach
<1>14. ~ missed /\ v.type \in GraphTypes => Drawn(v, f, ob)
  BY <1>12, <1>13
<1> HIDE DEF v
<1>15. s \in StoreT /\ Records(After(s, ms, ob, v), L)
  BY <1>9, <1>11, <1>14, AfterWrite DEF Records, s
<1>16. ob[mon].dir = dir
  BY <1>7, <1>10
<1>17. Records(q, L)
  BY <1>3, <1>4, <1>12, <1>15, <1>16, AttachOneRecords DEF q
<1>18. QED BY <1>1, <1>17 DEF L, x, dir, prev

\* A colour button leaves the list alone, and the view has the new colour.
LEMMA RecoloringRecords ==
  ASSUME IInv, Recorded, up, viewer_type \in GraphTypes,
         NEW i \in DOMAIN monitors, NEW c \in Color
  PROVE  Records(Recoloring(i, c), Listed(file))
<1> DEFINE dir == object[monitors[i]].dir
           f == SaveColor(file, dir, c)
           s == Flush(Store, f)
           r == Kept(s)
           L == Listed(file)
           q == ViewerTypeListener(r, viewer_type, TRUE)
<1>1. viewer_type \in KnownTypes /\ viewer_type \in Type /\ TRUE \in BOOLEAN
  BY Running DEF KnownTypes
<1>2. dir \in Nat /\ file \in File
  BY Running DEF Object
<1>3. f \in File
  BY <1>2, FileShape, SaveColorType
<1>4. ASSUME ~ missed
      PROVE  /\ Listed(f) = L /\ L = Listing(monitors, object) /\ Sound(L)
             /\ f.viewer_type = file.viewer_type /\ f.next_color = file.next_color
  <2>1. Sound(L) /\ L = Listing(monitors, object) /\ HasGroup(file, dir)
    BY <1>4, Entries
  <2>2. QED BY <1>2, <2>1, FileShape, SaveColorKeeps DEF Sound
<1>5. Recoloring(i, c) = q
  BY DEF Recoloring
<1> HIDE DEF f, L
<1>6. r = After(s, monitors, object, view)
  BY DEF Kept, After
<1>7. s \in StoreT /\ Written(r, L) /\ TypeSaved(r)
  BY <1>3, <1>4, <1>6, AfterWrite
<1> HIDE DEF s
<1>8. Fit(r) /\ r.viewer_type = viewer_type
  BY <1>7, KeptFit
<1> HIDE DEF r
<1>9. Follows(r.store, q.store) /\ Written(q, L) /\ Coloured(q)
  BY <1>1, <1>7, <1>8, ViewerTypeListenerWritten
<1>10. q.viewer_type = viewer_type
  BY <1>1, <1>8, ViewerTypeListenerFit
<1> HIDE DEF q
<1>11. TypeSaved(q)
  BY <1>7, <1>8, <1>9, <1>10 DEF TypeSaved, Follows
<1>12. QED BY <1>5, <1>9, <1>11 DEF Records, L

\* save_monitors writes the file as it was.
LEMMA SavedSame ==
  ASSUME IInv, Recorded, up
  PROVE  /\ Saved \in StoreT
         /\ ~ Saved.missed => ~ missed /\ Saved.file = file /\ Saved.past = {file}
         /\ Saved.next_color = next_color
<1> DEFINE f == SaveMonitors(file, Listing(monitors, object))
<1>1. Saved = Flush(Store, f)
  BY DEF Saved, Listing
<1>2. Listing(monitors, object) \in Seq(Object)
  <2> DEFINE n == Len(monitors)
  <2>1. monitors \in Seq(Monitor) /\ n \in Nat /\ DOMAIN monitors = 1 .. n
    BY Running
  <2>2. Listing(monitors, object) \in [1 .. n -> Object]
    BY <2>1, Running DEF Listing
  <2>3. QED BY <2>1, <2>2, SeqDef
<1>3. f \in File
  BY <1>2, Running, FileShape, SaveMonitorsType DEF Object
<1>4. ~ missed => f = file
  <2> SUFFICES ASSUME ~ missed PROVE f = file
    OBVIOUS
  <2>1. Distinct(Listed(file)) /\ Listed(file) = Listing(monitors, object)
    BY Entries DEF Sound
  <2>2. QED BY <1>2, <2>1, Running, FileShape, SaveMonitorsSame DEF Object
<1> HIDE DEF f
<1>5. /\ Saved.next_color = Store.next_color
      /\ ~ Saved.missed => ~ Store.missed /\ Saved.file = f /\ Saved.past = Store.past \cup {f}
  BY <1>1, <1>3, Running, FlushWrites
<1>6. Store.next_color = next_color /\ Store.past = {file} /\ Store.missed = missed
  BY DEF Store
<1>7. QED BY <1>4, <1>5, <1>6, SavedType

LEMMA SaveRecords ==
  ASSUME IInv, Recorded, DrawnInItsColor, up
  PROVE  Records(Kept(Saved), Listed(file))
<1> DEFINE r == Kept(Saved)
<1>1. /\ r.store = Saved /\ r.monitors = monitors /\ r.object = object
      /\ r.view = view /\ r.viewer_type = viewer_type
  BY DEF Kept
<1> HIDE DEF r
<1>2. Written(r, Listed(file))
  BY <1>1, SavedSame DEF Written, Recorded
<1>3. Coloured(r)
  BY <1>1, SavedSame DEF Coloured, Drawn, DrawnInItsColor
<1>4. TypeSaved(r)
  BY <1>1, SavedSame DEF TypeSaved, Recorded
<1>5. QED BY <1>2, <1>3, <1>4 DEF Records, r


\* What the constructor loads, if the file is sound: the default monitor, or what the file
\* lists.
Loaded(f) ==
  IF f.groups = <<>> THEN << [cfg |-> DefaultConfig, dir |-> EmptyDir(f)] >> ELSE Listed(f)

\* The file that the constructor draws from.
LEMMA StartingFile ==
  ASSUME IInv, Recorded
  PROVE  LET s == [Store EXCEPT !.next_color = file.next_color]
             t == IF file.groups = <<>>
                  THEN Flush(s, SaveGroup(file, EmptyDir(file), DefaultConfig)) ELSE s
         IN  /\ t \in StoreT
             /\ ~ t.missed =>
                  /\ ~ missed /\ Listed(t.file) = Loaded(file) /\ Distinct(Loaded(file))
                  /\ t.next_color = t.file.next_color
                  /\ t.file.viewer_type = file.viewer_type
                  /\ \A f \in t.past : Listed(f) \in {Listed(file), Loaded(file)}
<1> DEFINE s == [Store EXCEPT !.next_color = file.next_color]
           dir == EmptyDir(file)
           f == SaveGroup(file, dir, DefaultConfig)
           t == IF file.groups = <<>> THEN Flush(s, f) ELSE s
           first == [cfg |-> DefaultConfig, dir |-> dir]
<1>1. file \in File /\ Store \in StoreT
  BY StoreType DEF IInv, TypeOK
<1>2. /\ s \in StoreT /\ s.next_color = file.next_color /\ s.file = file /\ s.past = {file}
      /\ s.missed = missed
  <2>1. file.next_color \in 0 .. Len(Palette) - 1
    BY <1>1 DEF File
  <2>2. QED BY <1>1, <2>1 DEF StoreT, Store
<1> HIDE DEF s
<1>3. CASE file.groups = <<>>
  <2>1. Listed(file) = <<>>
    BY <1>3 DEF Listed
  <2>2. Distinct(Listed(file))
    BY <2>1 DEF Distinct
  <2>3. dir \in Nat /\ ~ HasGroup(file, dir) /\ DefaultConfig \in Config
    BY <1>1, EmptyDirType, FileShape, EmptyDirIsFree, PluginAssumption
  <2> HIDE DEF dir
  <2>4. /\ f \in File /\ Listed(f) = Append(Listed(file), first) /\ Distinct(Listed(f))
        /\ f.viewer_type = file.viewer_type /\ f.next_color = file.next_color
    BY <1>1, <2>2, <2>3, FileShape, SaveGroupType, SaveGroupAppends
  <2> HIDE DEF f, first
  <2>5. Loaded(file) = Listed(f)
    BY <1>3, <2>1, <2>4 DEF Loaded, first, dir
  <2>6. t = Flush(s, f)
    BY <1>3
  <2>7. /\ t \in StoreT /\ t.next_color = s.next_color
        /\ ~ t.missed => ~ s.missed /\ t.file = f /\ t.past = s.past \cup {f}
    BY <1>2, <2>4, <2>6, FlushType, FlushWrites
  <2> HIDE DEF t
  <2>8. /\ t \in StoreT
        /\ ~ t.missed =>
             /\ ~ missed /\ Listed(t.file) = Loaded(file) /\ Distinct(Loaded(file))
             /\ t.next_color = t.file.next_color
             /\ t.file.viewer_type = file.viewer_type
             /\ \A g \in t.past : Listed(g) \in {Listed(file), Loaded(file)}
    BY <1>2, <2>4, <2>5, <2>7
  <2>9. QED BY <2>8 DEF t, f, dir, s
<1>4. CASE file.groups # <<>>
  <2>1. t = s
    BY <1>4
  <2>2. Loaded(file) = Listed(file)
    BY <1>4 DEF Loaded
  <2>3. ~ missed => Distinct(Listed(file))
    BY DEF Recorded, Sound
  <2> HIDE DEF t
  <2>4. QED BY <1>2, <2>1, <2>2, <2>3 DEF t, s
<1>5. QED BY <1>3, <1>4

\* The objects of the constructor are those it loads, in their order.
LEMMA StartingObjects ==
  ASSUME IInv, Recorded, ~ missed, NEW ids \in Injection(1 .. NumberToLoad, Monitor)
  PROVE  Listing(ids, Starting(ids).object) = Loaded(file)
<1> DEFINE default == file.groups = <<>>
           loaded == IF default THEN << [cfg |-> DefaultConfig, dir |-> EmptyDir(file)] >>
                     ELSE LoadMonitors(file)
           at(m) == CHOOSE k \in DOMAIN ids : ids[k] = m
           obj == [m \in Monitor |-> IF \E k \in DOMAIN ids : ids[k] = m
                                     THEN loaded[at(m)] ELSE Freed]
           n == NumberToLoad
<1>1. file \in File
  BY DEF IInv, TypeOK
<1>2. Starting(ids).object = obj
  BY DEF Starting
<1>3. loaded = Loaded(file)
  <2>1. Sound(Listed(file))
    BY DEF Recorded
  <2>2. LoadMonitors(file) = Listed(file)
    BY <1>1, <2>1, FileShape, LoadMonitorsSame
  <2>3. QED BY <2>2 DEF Loaded
<1>4. DOMAIN loaded = 1 .. n /\ loaded = [k \in 1 .. n |-> loaded[k]]
  <2>1. CASE default
    BY <2>1 DEF NumberToLoad
  <2>2. CASE ~ default
    <3>1. LoadMonitors(file) \in Seq([cfg : Config, dir : Nat])
      BY <1>1, FileShape, LoadMonitorsType
    <3>2. loaded = LoadMonitors(file) /\ n = Len(loaded)
      BY <2>2 DEF NumberToLoad
    <3> HIDE DEF loaded
    <3>3. QED BY <3>1, <3>2, LenProperties
  <2>3. QED BY <2>1, <2>2
<1>5. ids \in [1 .. n -> Monitor] /\ IsInjective(ids)
  BY DEF Injection
<1> HIDE DEF n, loaded
<1>6. \A k \in 1 .. n : obj[ids[k]] = loaded[k]
  <2> SUFFICES ASSUME NEW k \in 1 .. n PROVE obj[ids[k]] = loaded[k]
    OBVIOUS
  <2>1. at(ids[k]) \in 1 .. n /\ ids[at(ids[k])] = ids[k]
    BY <1>5
  <2>2. at(ids[k]) = k
    BY <1>5, <2>1 DEF IsInjective
  <2>3. obj[ids[k]] = loaded[at(ids[k])]
    BY <1>5
  <2>4. QED BY <2>2, <2>3
<1> HIDE DEF obj
<1>7. Listing(ids, obj) = [k \in 1 .. n |-> obj[ids[k]]]
  BY <1>5 DEF Listing
<1>8. QED BY <1>2, <1>3, <1>4, <1>6, <1>7

\* The constructor: the file lists what the plugin shows.
LEMMA StartingRecords ==
  ASSUME IInv, Recorded, NEW ids \in Injection(1 .. NumberToLoad, Monitor)
  PROVE  Records(Starting(ids), Loaded(file))
<1> DEFINE default == file.groups = <<>>
           first == [cfg |-> DefaultConfig, dir |-> EmptyDir(file)]
           s == [Store EXCEPT !.next_color = file.next_color]
           t == IF default THEN Flush(s, SaveGroup(file, EmptyDir(file), DefaultConfig))
                ELSE s
           q == Starting(ids)
           obj == q.object
           type == file.viewer_type
           all == AttachAll(t, type, ids, obj)
           L == Loaded(file)
           r == After(t, ids, obj, Empty)
<1>1. Fit(q) /\ q.monitors = ids /\ q.viewer_type = type
  BY StartingGood DEF Good, Starting
<1>2. /\ q.store = IF type \in KnownTypes THEN all.store ELSE t
      /\ q.view = IF type \in KnownTypes THEN all.view ELSE Empty
  <2>1. default => << first >>[1].dir = EmptyDir(file)
    OBVIOUS
  <2>2. QED BY <2>1 DEF Starting
<1>3. /\ t \in StoreT
      /\ ~ t.missed =>
           /\ ~ missed /\ Listed(t.file) = L /\ Distinct(L)
           /\ t.next_color = t.file.next_color /\ t.file.viewer_type = type
           /\ \A f \in t.past : Listed(f) \in {Listed(file), L}
  BY StartingFile
<1> HIDE DEF t, q
<1>4. ~ missed => Listing(ids, obj) = L
  BY StartingObjects DEF q
<1> HIDE DEF L, obj
<1>5. /\ r.store = t /\ r.monitors = ids /\ r.object = obj
  BY DEF After
<1> HIDE DEF r
<1>6. Written(r, L)
  <2>1. ~ t.missed => Sound(L)
    BY <1>1, <1>3, <1>4, SoundListing DEF obj
  <2>2. QED BY <1>3, <1>4, <1>5, <2>1 DEF Written
<1>7. CASE type \in KnownTypes
  <2>1. ids \in Seq(Monitor) /\ Located(obj, ids)
    BY <1>1, FitObjects DEF Fit, ResultT, obj
  <2>2. ~ t.missed => /\ Distinct(Listed(t.file))
                      /\ \A k \in DOMAIN ids : HasGroup(t.file, obj[ids[k]].dir)
    BY <1>3, <1>5, <1>6, WrittenGroups
  <2>3. /\ Follows(t, all.store)
        /\ type \in GraphTypes /\ ~ all.store.missed => Drawn(all.view, all.store.file, obj)
    BY <1>3, <1>7, <2>1, <2>2, AttachAllFollows
  <2>4. all.view.type = type
    BY <1>3, <1>7, <2>1, AttachAllType
  <2> HIDE DEF all
  <2>5. q.store = all.store /\ q.view = all.view
    BY <1>2, <1>7
  <2>6. Written(q, L)
    BY <1>1, <1>5, <1>6, <2>3, <2>5, WrittenFollows DEF obj
  <2>7. Coloured(q)
    BY <2>3, <2>4, <2>5 DEF Coloured, obj
  <2>8. TypeSaved(q)
    BY <1>1, <1>3, <2>3, <2>5 DEF TypeSaved, Follows
  <2>9. QED BY <2>6, <2>7, <2>8 DEF Records, q, L
<1>8. CASE type \notin KnownTypes
  <2>1. q.store = t /\ q.view = Empty
    BY <1>2, <1>8
  <2>2. Written(q, L)
    BY <1>1, <1>5, <1>6, <2>1 DEF Written, obj
  <2>3. Coloured(q)
    <3>1. Empty.type \notin GraphTypes
      BY PluginAssumption DEF Empty, KnownTypes
    <3>2. QED BY <2>1, <3>1 DEF Coloured
  <2>4. TypeSaved(q)
    BY <1>1, <1>3, <2>1 DEF TypeSaved
  <2>5. QED BY <2>2, <2>3, <2>4 DEF Records, q, L
<1>9. QED BY <1>7, <1>8


\* Another type button leaves the list of monitors alone.
LEMMA ChoosingViewerRecords ==
  ASSUME IInv, Recorded, DrawnInItsColor, up, button # NoWindow, NEW type \in Offered
  PROVE  Records(Switching(Kept(Store), button, type), Listed(file))
<1>1. type \in KnownTypes /\ button \in KnownTypes
  BY PluginAssumption, Running
<1>2. Fit(Kept(Store))
  BY KeptFit, Running
<1>3. Written(Kept(Store), Listed(file)) /\ Coloured(Kept(Store))
  BY KeptRecords DEF Records
<1>4. QED BY <1>1, <1>2, <1>3, SwitchingRecords


\* A handler, whether it returns or dies, leaves a file that lists the monitors before or
\* after it, and after it if it returns.
LEMMA HandlerRecords ==
  ASSUME NEW r, NEW L, Records(r, L), Recorded, Handler(r)
  PROVE  /\ Recorded' /\ DrawnInItsColor'
         /\ ~ missed' => /\ ~ missed /\ Listed(file') \in {Listed(file), L}
                         /\ up' => Listed(file') = L
<1> USE DEF Records
<1>1. CASE IsKilled(r)
  <2>1. ~ up' /\ view' = Empty /\ file' \in r.store.past /\ missed' = r.store.missed
    BY <1>1 DEF IsKilled, Gone
  <2>2. ASSUME ~ missed'
        PROVE  ~ missed /\ Listed(file') \in {Listed(file), L} /\ Sound(Listed(file'))
    <3>1. ~ missed /\ Listed(file') \in {Listed(file), L} /\ Sound(L)
      BY <2>1, <2>2 DEF Written
    <3>2. QED BY <3>1 DEF Recorded
  <2>3. Empty.type \notin GraphTypes
    BY PluginAssumption DEF Empty, KnownTypes
  <2>4. DrawnInItsColor'
    BY <2>1, <2>3 DEF DrawnInItsColor
  <2>5. Recorded'
    BY <2>1, <2>2 DEF Recorded
  <2>6. QED BY <2>1, <2>2, <2>4, <2>5
<1>2. CASE Returns(r)
  <2>1. /\ monitors' = r.monitors /\ object' = r.object /\ view' = r.view
        /\ viewer_type' = r.viewer_type /\ next_color' = r.store.next_color
        /\ file' = r.store.file /\ missed' = r.store.missed
    BY <1>2 DEF Returns
  <2>2. ASSUME ~ missed'
        PROVE  ~ missed /\ Listed(file') = L /\ L = Listing(monitors', object') /\ Sound(L)
               /\ file'.viewer_type = viewer_type' /\ file'.next_color = next_color'
    BY <2>1, <2>2 DEF Written, TypeSaved
  <2>3. Recorded'
    BY <2>2 DEF Recorded
  <2>4. DrawnInItsColor'
    BY <2>1 DEF Coloured, Drawn, DrawnInItsColor
  <2>5. QED BY <2>2, <2>3, <2>4
<1>3. QED BY <1>1, <1>2 DEF Handler

--------------------------------------------------------------------------
\* A step of the plugin keeps a file that lists the monitors, unless a write is skipped.
FileIInv == IInv /\ Recorded /\ DrawnInItsColor

\* A plugin that quits leaves the file as it was.
LEMMA QuitRecords ==
  ASSUME FileIInv, Quit
  PROVE  /\ Recorded' /\ DrawnInItsColor'
         /\ ~ missed' => ~ missed /\ file' = file
<1>1. /\ up /\ ~ up' /\ view' = Empty /\ file' = Saved.file /\ missed' = Saved.missed
  BY DEF Quit, Gone
<1>2. ~ missed' => ~ missed /\ file' = file
  BY <1>1, SavedSame DEF FileIInv
<1>3. Empty.type \notin GraphTypes
  BY PluginAssumption DEF Empty, KnownTypes
<1>4. DrawnInItsColor'
  BY <1>1, <1>3 DEF DrawnInItsColor
<1>5. Recorded'
  BY <1>1, <1>2 DEF Recorded, FileIInv
<1>6. QED BY <1>2, <1>4, <1>5

\* In the initial states the file has no groups.
LEMMA InitFileIInv == Init => FileIInv
<1> SUFFICES ASSUME Init PROVE FileIInv
  OBVIOUS
<1>1. IInv
  BY InitIInv
<1>2. file.groups = <<>> /\ ~ up /\ view = Empty
  BY DEF Init
<1>3. Listed(file) = <<>>
  BY <1>2 DEF Listed
<1>4. Recorded
  BY <1>2, <1>3 DEF Recorded, Sound, Distinct
<1>5. Empty.type \notin GraphTypes
  BY PluginAssumption DEF Empty, KnownTypes
<1>6. DrawnInItsColor
  BY <1>2, <1>5 DEF DrawnInItsColor
<1>7. QED BY <1>1, <1>4, <1>6 DEF FileIInv

\* Every action keeps it.
LEMMA NextFileIInv == FileIInv /\ [Next]_vars => FileIInv'
<1> SUFFICES ASSUME FileIInv, [Next]_vars PROVE FileIInv'
  OBVIOUS
<1>0. IInv /\ Recorded /\ DrawnInItsColor
  BY DEF FileIInv
<1>1. IInv'
  BY <1>0, NextIInv
<1> SUFFICES Recorded' /\ DrawnInItsColor'
  BY <1>1 DEF FileIInv
<1>2. CASE Start
  BY <1>0, <1>2, StartingRecords, HandlerRecords DEF Start
<1>3. CASE OpenPreferences
  BY <1>0, <1>3, OpeningPreferencesRecords, HandlerRecords DEF OpenPreferences
<1>4. ASSUME NEW cfg \in Config, AddMonitor(cfg) PROVE Recorded' /\ DrawnInItsColor'
  BY <1>0, <1>4, AddingRecords, HandlerRecords DEF AddMonitor, WindowOpen
<1>5. ASSUME NEW cfg \in Config, ReplaceMonitor(cfg) PROVE Recorded' /\ DrawnInItsColor'
  BY <1>0, <1>5, ReplacingRecords, HandlerRecords DEF ReplaceMonitor, WindowOpen
<1>6. CASE RemoveMonitor
  BY <1>0, <1>6, RemovingRecords, HandlerRecords DEF RemoveMonitor, WindowOpen
<1>7. ASSUME NEW type \in Offered, ChooseViewer(type) PROVE Recorded' /\ DrawnInItsColor'
  BY <1>0, <1>7, ChoosingViewerRecords, HandlerRecords DEF ChooseViewer, WindowOpen
<1>8. ASSUME NEW c \in Color, Recolor(c) PROVE Recorded' /\ DrawnInItsColor'
  BY <1>0, <1>8, RecoloringRecords, HandlerRecords DEF Recolor, WindowOpen
<1>9. CASE Save
  BY <1>0, <1>9, SaveRecords, HandlerRecords DEF Save
<1>10. CASE Quit
  BY <1>10, QuitRecords
<1>11. CASE Toggle
  BY <1>0, <1>11 DEF Toggle, process, Recorded, DrawnInItsColor
<1>12. CASE UNCHANGED vars
  BY <1>0, <1>12 DEF vars, process, Recorded, DrawnInItsColor
<1>13. QED BY <1>2, <1>3, <1>4, <1>5, <1>6, <1>7, <1>8, <1>9, <1>10, <1>11, <1>12 DEF Next

\* The two together hold always.
THEOREM FileInductive == Spec => []FileIInv
BY InitFileIInv, NextFileIInv, PTL DEF Spec

\* As long as no write is skipped, the file is the running plugin's: its monitors in their
\* order, each in a group of its own, its viewer type and its next colour.
THEOREM FileDescribesPlugin == Spec => []FileInStep
<1>1. FileIInv => FileInStep
  <2> SUFFICES ASSUME FileIInv, up, ~ missed PROVE FileInStep
    BY DEF FileInStep
  <2>1. /\ DOMAIN file.groups = DOMAIN monitors
        /\ file.viewer_type = viewer_type /\ file.next_color = next_color
        /\ \A i \in DOMAIN monitors :
             /\ file.groups[i].dir = object[monitors[i]].dir
             /\ file.groups[i].cfg = object[monitors[i]].cfg
    BY Entries DEF FileIInv
  <2>2. Len(file.groups) = Len(monitors)
    <3>1. file.groups \in Seq(GroupOf(Config, Color)) /\ monitors \in Seq(Monitor)
      BY Running, FileShape, Groups DEF FileIInv
    <3>2. QED BY <2>1, <3>1, LenProperties
  <2>3. ASSUME NEW i \in DOMAIN monitors, NEW j \in DOMAIN monitors, i # j
        PROVE  object[monitors[i]].dir # object[monitors[j]].dir
    <3>1. monitors[i] # monitors[j] /\ monitors[i] \in Range(monitors)
      BY <2>3, Running DEF FileIInv, IsInjective, Range
    <3>2. QED BY <3>1, Entries DEF FileIInv
  <2>4. QED BY <2>1, <2>2, <2>3 DEF FileInStep
<1>2. QED BY <1>1, FileInductive, PTL

\* As long as no write is skipped, each graph is drawn in the colour that the file holds, and
\* the preferences window shows, for its monitor.
THEOREM GraphsInTheirColors == Spec => []DrawnInItsColor
<1>1. FileIInv => DrawnInItsColor
  BY DEF FileIInv
<1>2. QED BY <1>1, FileInductive, PTL

\* As long as no write is skipped, the plugin can be started again: the file of a plugin that
\* quit, or died anywhere, does not bring load_monitors down.
THEOREM StartsAgain == Spec => []Startable
<1>1. FileIInv => Startable
  <2> SUFFICES ASSUME FileIInv, ~ missed PROVE ~ LoadFaults(file)
    BY DEF Startable
  <2>1. Sound(Listed(file)) /\ file \in File
    BY DEF FileIInv, Recorded, IInv, TypeOK
  <2>2. file.groups # <<>> => 1 \in DOMAIN file.groups
    <3>1. file.groups \in Seq(GroupOf(Config, Color))
      BY <2>1, FileShape, Groups
    <3>2. QED BY <3>1
  <2>3. \A i \in DOMAIN file.groups : file.groups[i].cfg # NoConfig
    BY <2>1, FileShape, Groups DEF Sound
  <2>4. QED BY <2>2, <2>3 DEF LoadFaults
<1>2. QED BY <1>1, FileInductive, PTL


--------------------------------------------------------------------------
(***************************************************************************)
(* The list of monitors is durable: the plugin implements MonitorBoard.    *)
(***************************************************************************)

\* What is observed, in the order of a list.
Cfgs(L) == [k \in DOMAIN L |-> L[k].cfg]

\* The board of MonitorBoard.
BoardOf(u, mons, obj, f) ==
  IF u THEN [k \in DOMAIN mons |-> obj[mons[k]].cfg]
  ELSE [k \in DOMAIN f.groups |-> f.groups[k].cfg]
BoardNow == BoardOf(up, monitors, object, file)

\* The board is what the file lists, if the file lists what the plugin shows.
LEMMA BoardListed ==
  ASSUME NEW u, NEW mons, NEW obj, NEW f, u => Listed(f) = Listing(mons, obj)
  PROVE  BoardOf(u, mons, obj, f) = Cfgs(Listed(f))
<1>1. CASE u
  <2>1. DOMAIN Listing(mons, obj) = DOMAIN mons
        /\ \A k \in DOMAIN mons : Listing(mons, obj)[k] = obj[mons[k]]
    BY DEF Listing
  <2>2. QED BY <1>1, <2>1 DEF BoardOf, Cfgs
<1>2. CASE ~ u
  <2>1. DOMAIN Listed(f) = DOMAIN f.groups
        /\ \A k \in DOMAIN f.groups : Listed(f)[k].cfg = f.groups[k].cfg
    BY DEF Listed
  <2>2. QED BY <1>2, <2>1 DEF BoardOf, Cfgs
<1>3. QED BY <1>1, <1>2

\* What one more, one less and another entry does to what is observed.
Entry == [cfg : Config \cup {NoConfig}, dir : Nat]

LEMMA CfgsType ==
  ASSUME NEW L \in Seq(Entry)
  PROVE  /\ Cfgs(L) \in Seq(Config \cup {NoConfig}) /\ Len(Cfgs(L)) = Len(L)
         /\ Len(L) \in Nat /\ \A k \in 1 .. Len(L) : Cfgs(L)[k] = L[k].cfg
<1> DEFINE n == Len(L)
           s == Cfgs(L)
<1>1. n \in Nat /\ DOMAIN L = 1 .. n /\ \A k \in 1 .. n : L[k].cfg \in Config \cup {NoConfig}
  <2>1. n \in Nat /\ DOMAIN L = 1 .. n /\ \A k \in 1 .. n : L[k] \in Entry
    BY LenProperties, ElementOfSeq
  <2>2. QED BY <2>1 DEF Entry
<1>2. s = [k \in 1 .. n |-> L[k].cfg]
  BY <1>1 DEF Cfgs
<1> HIDE DEF n, s
<1>3. s \in [1 .. n -> Config \cup {NoConfig}]
  BY <1>1, <1>2
<1>4. s \in Seq(Config \cup {NoConfig})
  BY <1>1, <1>3, SeqDef
<1>5. Len(s) = n
  BY <1>1, <1>3, <1>4, LenProperties
<1>6. QED BY <1>1, <1>2, <1>4, <1>5 DEF n, s

LEMMA CfgsAppend ==
  ASSUME NEW L \in Seq(Entry), NEW x \in Entry
  PROVE  Cfgs(Append(L, x)) = Append(Cfgs(L), x.cfg)
<1> DEFINE n == Len(L)
           M == Append(L, x)
           p == Cfgs(M)
           q == Append(Cfgs(L), x.cfg)
           C == Config \cup {NoConfig}
<1>1. M \in Seq(Entry) /\ Len(M) = n + 1 /\ M[n + 1] = x /\ \A k \in 1 .. n : M[k] = L[k]
  OBVIOUS
<1>2. /\ Cfgs(L) \in Seq(C) /\ Len(Cfgs(L)) = n /\ n \in Nat
      /\ \A k \in 1 .. n : Cfgs(L)[k] = L[k].cfg
  BY CfgsType
<1>3. x.cfg \in C
  BY DEF Entry
<1> HIDE DEF n, M, C
<1>4. p \in Seq(C) /\ Len(p) = n + 1 /\ \A k \in 1 .. n + 1 : p[k] = M[k].cfg
  BY <1>1, CfgsType DEF C
<1>5. q \in Seq(C) /\ Len(q) = n + 1 /\ q[n + 1] = x.cfg /\ \A k \in 1 .. n : q[k] = L[k].cfg
  BY <1>2, <1>3
<1> HIDE DEF p, q
<1>6. ASSUME NEW k \in 1 .. n + 1 PROVE p[k] = q[k]
  <2>1. CASE k = n + 1
    BY <1>1, <1>4, <1>5, <2>1
  <2>2. CASE k \in 1 .. n
    BY <1>1, <1>4, <1>5, <2>2
  <2>3. QED BY <1>2, <2>1, <2>2
<1>7. p = q
  BY <1>4, <1>5, <1>6, SeqEqual
<1>8. QED BY <1>7 DEF p, q, M

LEMMA CfgsRemove ==
  ASSUME NEW L \in Seq(Entry), NEW i \in 1 .. Len(L)
  PROVE  Cfgs(RemoveAt(L, i)) = RemoveAt(Cfgs(L), i)
<1> DEFINE n == Len(L)
           M == RemoveAt(L, i)
           p == Cfgs(M)
           q == RemoveAt(Cfgs(L), i)
           C == Config \cup {NoConfig}
           At(k) == IF k < i THEN k ELSE k + 1
<1>1. M \in Seq(Entry) /\ Len(M) = n - 1 /\ \A k \in 1 .. n - 1 : M[k] = L[At(k)]
  BY RemoveAtProperties
<1>2. /\ Cfgs(L) \in Seq(C) /\ Len(Cfgs(L)) = n /\ n \in Nat /\ i \in 1 .. n
      /\ \A k \in 1 .. n : Cfgs(L)[k] = L[k].cfg
  BY CfgsType
<1> HIDE DEF n, M, C
<1>3. p \in Seq(C) /\ Len(p) = n - 1 /\ \A k \in 1 .. n - 1 : p[k] = M[k].cfg
  BY <1>1, CfgsType DEF C
<1>4. q \in Seq(C) /\ Len(q) = n - 1 /\ \A k \in 1 .. n - 1 : q[k] = Cfgs(L)[At(k)]
  BY <1>2, RemoveAtProperties
<1>5. \A k \in 1 .. n - 1 : At(k) \in 1 .. n
  BY <1>2
<1> HIDE DEF p, q, At
<1>6. \A k \in 1 .. n - 1 : p[k] = q[k]
  BY <1>1, <1>2, <1>3, <1>4, <1>5
<1>7. p = q
  BY <1>3, <1>4, <1>6, SeqEqual
<1>8. QED BY <1>7 DEF p, q, M

LEMMA CfgsReplace ==
  ASSUME NEW L, NEW i \in DOMAIN L, NEW x
  PROVE  Cfgs(Put(L, i, x)) = Put(Cfgs(L), i, x.cfg)
BY DEF Cfgs, Put

\* The operators of MonitorBoard's own copy of SequencesExt are those of SequencesExt.
LEMMA BoardOperators == \A s, i : Board!RemoveAt(s, i) = RemoveAt(s, i)
BY DEF Board!RemoveAt, RemoveAt


\* The steps of MonitorBoard.
LEMMA BoardKept == ASSUME up, BoardNow' = BoardNow PROVE Board!Next
BY DEF Board!Next, BoardNow, BoardOf

LEMMA BoardAppends ==
  ASSUME up, NEW cfg \in Config, BoardNow' = Append(BoardNow, cfg)
  PROVE  Board!Next
<1>1. Board!Edit
  BY DEF Board!Edit, BoardNow, BoardOf
<1>2. QED BY <1>1 DEF Board!Next

LEMMA BoardRemoves ==
  ASSUME up, NEW i \in DOMAIN BoardNow, BoardNow' = RemoveAt(BoardNow, i)
  PROVE  Board!Next
<1>1. Board!Edit
  BY BoardOperators DEF Board!Edit, BoardNow, BoardOf
<1>2. QED BY <1>1 DEF Board!Next

LEMMA BoardReplaces ==
  ASSUME up, NEW i \in DOMAIN BoardNow, NEW cfg \in Config,
         BoardNow' = Put(BoardNow, i, cfg)
  PROVE  Board!Next
<1>1. Board!Edit
  BY DEF Board!Edit, BoardNow, BoardOf, Put
<1>2. QED BY <1>1 DEF Board!Next

LEMMA BoardOpens ==
  ASSUME ~ up, BoardNow' \in {BoardNow, IF BoardNow = <<>> THEN <<DefaultConfig>> ELSE BoardNow},
         up' => BoardNow' = IF BoardNow = <<>> THEN <<DefaultConfig>> ELSE BoardNow
  PROVE  Board!Next
BY DEF Board!Next, Board!Opened, BoardNow, BoardOf

\* Before and after a step that skips no write, the board is what the file lists.
LEMMA BoardSteps ==
  ASSUME FileIInv, FileIInv', ~ missed, ~ missed'
  PROVE  /\ BoardNow = Cfgs(Listed(file)) /\ BoardNow' = Cfgs(Listed(file'))
         /\ Listed(file) \in Seq(Entry)
         /\ up => Len(Listed(file)) = Len(monitors) /\ DOMAIN BoardNow = DOMAIN monitors
<1>1. (up => Listed(file) = Listing(monitors, object))
      /\ (up' => Listed(file') = Listing(monitors', object'))
  BY DEF FileIInv, Recorded
<1>2. BoardNow = Cfgs(Listed(file))
  BY <1>1, BoardListed DEF BoardNow
<1>3. BoardNow' = Cfgs(Listed(file'))
  BY <1>1, BoardListed DEF BoardNow
<1>4. file \in File
  BY DEF FileIInv, IInv, TypeOK
<1>5. Listed(file) \in Seq(Entry)
  BY <1>4, FileShape, ListedType DEF Entry
<1>6. ASSUME up PROVE Len(Listed(file)) = Len(monitors) /\ DOMAIN BoardNow = DOMAIN monitors
  <2>1. DOMAIN Listed(file) = DOMAIN monitors
    BY <1>1, <1>6 DEF Listing
  <2>2. monitors \in Seq(Monitor)
    BY DEF FileIInv, IInv, TypeOK
  <2>3. QED BY <1>2, <1>5, <2>1, <2>2, LenProperties DEF Cfgs
<1>7. QED BY <1>2, <1>3, <1>5, <1>6

\* What a step of the plugin does to the board.
LEMMA BoardStep ==
  ASSUME FileIInv, FileIInv', Next, ~ missed'
  PROVE  Board!Next \/ (up' = up /\ BoardNow' = BoardNow)
<1> DEFINE L == Listed(file)
           Became(K) == ~ missed /\ Listed(file') \in {L, K} /\ (up' => Listed(file') = K)
<1>0. IInv /\ Recorded /\ DrawnInItsColor
  BY DEF FileIInv
<1>1. ASSUME ~ missed
      PROVE  /\ BoardNow = Cfgs(L) /\ BoardNow' = Cfgs(Listed(file')) /\ L \in Seq(Entry)
             /\ up => Len(L) = Len(monitors) /\ DOMAIN BoardNow = DOMAIN monitors
  BY <1>1, BoardSteps
<1>2. ASSUME up, Became(L) PROVE Board!Next
  BY <1>1, <1>2, BoardKept
<1> HIDE DEF L
<1>3. CASE Start
  <2>1. PICK ids \in Injection(1 .. NumberToLoad, Monitor) : Handler(Starting(ids))
    BY <1>3 DEF Start
  <2>2. Became(Loaded(file))
    BY <1>0, <2>1, StartingRecords, HandlerRecords DEF L
  <2>3. Cfgs(Loaded(file)) = IF Cfgs(L) = <<>> THEN <<DefaultConfig>> ELSE Cfgs(L)
    <3>1. CASE file.groups = <<>>
      <4>1. Cfgs(L) = <<>>
        BY <3>1 DEF L, Listed, Cfgs
      <4>2. Cfgs(Loaded(file)) = <<DefaultConfig>>
        BY <3>1 DEF Loaded, Cfgs
      <4>3. QED BY <4>1, <4>2
    <3>2. CASE file.groups # <<>>
      <4>1. Loaded(file) = L
        BY <3>2 DEF Loaded, L
      <4>2. file.groups \in Seq(GroupOf(Config, Color))
        BY <1>0, FileShape, Groups DEF IInv, TypeOK
      <4>3. 1 \in DOMAIN file.groups
        BY <3>2, <4>2
      <4>4. 1 \in DOMAIN Cfgs(L)
        BY <4>3 DEF Cfgs, L, Listed
      <4>5. Cfgs(L) # <<>>
        BY <4>4
      <4>6. QED BY <4>1, <4>5
    <3>3. QED BY <3>1, <3>2
  <2>4. ~ up
    BY <1>3 DEF Start
  <2>5. QED BY <1>1, <2>2, <2>3, <2>4, BoardOpens
<1>4. CASE OpenPreferences
  BY <1>0, <1>2, <1>4, OpeningPreferencesRecords, HandlerRecords DEF OpenPreferences, L
<1>5. ASSUME NEW cfg \in Config, AddMonitor(cfg) PROVE Board!Next
  <2> DEFINE x == [cfg |-> cfg, dir |-> EmptyDir(file)]
  <2>1. up /\ Became(Append(L, x))
    BY <1>0, <1>5, AddingRecords, HandlerRecords DEF AddMonitor, WindowOpen, L
  <2>2. x \in Entry /\ x.cfg = cfg
    BY <1>0, EmptyDirType DEF Entry, IInv, TypeOK
  <2> HIDE DEF x
  <2>3. Cfgs(Append(L, x)) = Append(Cfgs(L), cfg)
    BY <1>1, <2>1, <2>2, CfgsAppend
  <2>4. QED BY <1>1, <2>1, <2>3, BoardKept, BoardAppends
<1>6. ASSUME NEW cfg \in Config, ReplaceMonitor(cfg) PROVE Board!Next
  <2>1. PICK i \in DOMAIN monitors, mon \in Monitor :
          object[mon] = Freed /\ Handler(Replacing(i, mon, cfg))
    BY <1>6 DEF ReplaceMonitor
  <2> DEFINE x == [cfg |-> cfg, dir |-> object[monitors[i]].dir]
             K == Put(Listing(monitors, object), i, x)
  <2>2. up
    BY <1>6 DEF ReplaceMonitor, WindowOpen
  <2>3. Records(Replacing(i, mon, cfg), K)
    BY <1>0, <2>1, <2>2, ReplacingRecords
  <2>4. Became(K)
    BY <1>0, <2>1, <2>3, HandlerRecords DEF L
  <2>5. x.cfg = cfg
    OBVIOUS
  <2> HIDE DEF x
  <2>6. K = Put(L, i, x)
    BY <1>0, <2>2, <2>4 DEF Recorded, L
  <2> HIDE DEF K
  <2>7. i \in DOMAIN L /\ i \in DOMAIN BoardNow
    <3>1. L \in Seq(Entry) /\ Len(L) = Len(monitors) /\ DOMAIN BoardNow = DOMAIN monitors
      BY <1>1, <2>2, <2>4
    <3>2. monitors \in Seq(Monitor)
      BY <1>0 DEF IInv, TypeOK
    <3>3. QED BY <3>1, <3>2, LenProperties
  <2>8. Cfgs(K) = Put(Cfgs(L), i, cfg)
    BY <2>5, <2>6, <2>7, CfgsReplace
  <2>9. QED BY <1>1, <2>2, <2>4, <2>7, <2>8, BoardKept, BoardReplaces
<1>7. CASE RemoveMonitor
  <2>1. PICK i \in DOMAIN monitors : Handler(Removing(i))
    BY <1>7 DEF RemoveMonitor
  <2>2. up
    BY <1>7 DEF RemoveMonitor, WindowOpen
  <2>3. Became(RemoveAt(L, i))
    BY <1>0, <2>1, <2>2, RemovingRecords, HandlerRecords DEF L
  <2>4. L \in Seq(Entry) /\ i \in 1 .. Len(L) /\ i \in DOMAIN BoardNow
    <3>1. monitors \in Seq(Monitor)
      BY <1>0 DEF IInv, TypeOK
    <3>2. QED BY <1>1, <2>2, <2>3, <3>1, LenProperties
  <2>5. Cfgs(RemoveAt(L, i)) = RemoveAt(Cfgs(L), i)
    BY <2>4, CfgsRemove
  <2>6. QED BY <1>1, <2>2, <2>3, <2>4, <2>5, BoardKept, BoardRemoves
<1>8. ASSUME NEW type \in Offered, ChooseViewer(type) PROVE Board!Next
  BY <1>0, <1>2, <1>8, ChoosingViewerRecords, HandlerRecords DEF ChooseViewer, WindowOpen, L
<1>9. ASSUME NEW c \in Color, Recolor(c) PROVE Board!Next
  BY <1>0, <1>2, <1>9, RecoloringRecords, HandlerRecords DEF Recolor, WindowOpen, L
<1>10. CASE Save
  BY <1>0, <1>2, <1>10, SaveRecords, HandlerRecords DEF Save, L
<1>11. CASE Quit
  <2>1. up /\ Became(L)
    BY <1>11, QuitRecords DEF Quit, L
  <2>2. QED BY <1>2, <2>1
<1>12. CASE Toggle
  BY <1>12 DEF Toggle, process, BoardNow
<1>13. QED BY <1>3, <1>4, <1>5, <1>6, <1>7, <1>8, <1>9, <1>10, <1>11, <1>12 DEF Next

\* The plugin and its settings file, with its crashes and restarts, implement the list of
\* monitors that the user relies on, as long as no write is skipped.
THEOREM ListIsDurable == Spec => BoardSpec
<1>1. Init => Board!Init
  <2>1. Init => file.groups = <<>>
    BY DEF Init
  <2>2. QED BY <2>1 DEF Init, Board!Init
<1>2. ASSUME FileIInv, FileIInv', [Next]_vars
      PROVE  [missed' \/ Board!Next]_<<up, IF up THEN [k \in DOMAIN monitors |->
                                                          object[monitors[k]].cfg]
                                           ELSE [k \in DOMAIN file.groups |->
                                                   file.groups[k].cfg]>>
  <2>1. CASE missed'
    BY <2>1
  <2>2. CASE Next /\ ~ missed'
    <3>1. Board!Next \/ (up' = up /\ BoardNow' = BoardNow)
      BY <1>2, <2>2, BoardStep
    <3>2. QED BY <3>1 DEF BoardNow, BoardOf
  <2>3. CASE UNCHANGED vars
    BY <2>3 DEF vars, process
  <2>4. QED BY <1>2, <2>1, <2>2, <2>3
<1>3. QED BY <1>1, <1>2, FileInductive, PTL DEF Spec, BoardSpec, Board!Spec
==========================================================================
