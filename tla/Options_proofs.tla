--------------------------- MODULE Options_proofs ---------------------------
(***************************************************************************)
(* For any fonts, colours, texts and interface names, whatever an earlier  *)
(* plugin stored and however writes fail: the options of the plugin, its   *)
(* file, the background of its view, the preferences window and the        *)
(* chooser's list of interface names agree.                                *)
(***************************************************************************)
EXTENDS Options, TLAPS

\* Option values the handlers can be given, one for each option.
Typed(o) ==
  /\ o = [k \in Option |-> o[k]]
  /\ \A k \in Option : Storable(k, o[k])
  /\ o.viewer_text_overlay_position \in 0 .. 6

\* What the default group holds can be read.
Readable(f) ==
  /\ DOMAIN f = Entries
  /\ \A k \in Option : f[k] = None \/ Storable(k, f[k])

\* The option is read from the file as it is in memory.
Agrees(s, k) == ReadOption(s.file, k) = s.opt[k]
Background(o) == IF o.use_background_color THEN o.background_color ELSE None

\* A store as the handlers thread it, of a plugin that runs.
StoreOf(s) ==
  [opt |-> s.opt, painted |-> s.painted, there |-> s.there, file |-> s.file, lost |-> s.lost]
Sound(s) ==
  /\ s = StoreOf(s)
  /\ Typed(s.opt) /\ Readable(s.file) /\ s.there \in BOOLEAN /\ s.lost \subseteq Option
  /\ \A k \in Option \ (s.lost \cup {Sync}) : Agrees(s, k)
  /\ s.painted = Background(s.opt)

\* The widgets show the options o, and the font buttons show some font.
AFont(x) == x # "" /\ x # None
ShowsAll(w, o) ==
  /\ DOMAIN w = DOMAIN Widgets(o)
  /\ \A k \in Option : w[k] = Widgets(o)[k]
  /\ w.viewer_font => w.font = o.viewer_font
  /\ w.viewer_text_overlay_font => w.overlay_font = o.viewer_text_overlay_font
  /\ AFont(w.font) /\ AFont(w.overlay_font)

\* A plugin that does not run has nothing open and paints nothing.
OptionsOK ==
  /\ up \in BOOLEAN /\ writable \in BOOLEAN /\ there \in BOOLEAN /\ lost \subseteq Option
  /\ Readable(file) /\ Typed(opt)
  /\ up => Sound(Store)
  /\ ~ up => window = None /\ rows = None
  /\ window # None => ShowsAll(window, opt)

NamesOK ==
  /\ configured \in BOOLEAN /\ missed \in BOOLEAN
  /\ DOMAIN names = Types /\ DOMAIN stored = Types
  /\ rows = None \/ DOMAIN rows = Types
  /\ ~ missed =>
       /\ \A t \in Types : stored[t] # ""
       /\ configured => stored = names /\ \A t \in Types : names[t] # ""
       /\ rows # None => configured /\ rows = names

IInv == OptionsOK /\ NamesOK

--------------------------------------------------------------------------
(* The constants. *)

LEMMA OptionIs ==
  Option = {"viewer_size", "viewer_font", "background_color", "use_background_color",
            "viewer_text_overlay_enabled", "viewer_text_overlay_format_string",
            "viewer_text_overlay_separator", "viewer_text_overlay_font",
            "viewer_text_overlay_color", "viewer_text_overlay_position",
            "viewer_monitor_type_sync_enabled"}
BY DEF Option, Default

\* Each option is written to an entry; only that of the shared scales is not its own.
LEMMA WrittenIs ==
  /\ \A k \in Option : Written(k) \in Entries /\ k \in Entries
  /\ \A k \in Option : k # Sync => Written(k) = k
  /\ Written(Sync) \notin Option /\ Sync \in Option
BY OptionIs DEF Written, Sync, Entries

\* The sizes of the scale, and the numbers that stand for them.
LEMMA TableIs ==
  /\ DOMAIN PixelSizeTable = 1 .. 10
  /\ \A i \in 0 .. 9 : SizeScaleToPixels(i) \in Range(PixelSizeTable)
  /\ \A p \in Range(PixelSizeTable) : p \in Nat /\ \E i \in 0 .. 9 : p = SizeScaleToPixels(i)
<1>1. DOMAIN PixelSizeTable = 1 .. 10
  BY DEF PixelSizeTable
<1>2. \A i \in 0 .. 9 : i + 1 \in DOMAIN PixelSizeTable
  BY <1>1
<1>3. \A i \in 0 .. 9 : SizeScaleToPixels(i) \in Range(PixelSizeTable)
  BY <1>2 DEF SizeScaleToPixels, Range
<1>4. ASSUME NEW p \in Range(PixelSizeTable) PROVE \E i \in 0 .. 9 : p = SizeScaleToPixels(i)
  <2>1. PICK j \in 1 .. 10 : p = PixelSizeTable[j]
    BY <1>1 DEF Range
  <2>2. j - 1 \in 0 .. 9 /\ p = SizeScaleToPixels(j - 1)
    BY <2>1 DEF SizeScaleToPixels
  <2>3. QED BY <2>2
<1>5. \A i \in 0 .. 9 : SizeScaleToPixels(i) \in Nat
  BY DEF SizeScaleToPixels, PixelSizeTable
<1>6. QED BY <1>1, <1>3, <1>4, <1>5

\* The position of a size of the scale is its own: no other is as near.
LEMMA ScaleRoundTrip ==
  ASSUME NEW i \in 0 .. 9
  PROVE  PixelsToSizeScale(SizeScaleToPixels(i)) = i
<1> DEFINE p == SizeScaleToPixels(i)
<1>1. \A j \in 0 .. 9 : SizeScaleToPixels(j) \in Nat
  BY DEF SizeScaleToPixels, PixelSizeTable
<1>2. \A j \in 0 .. 9 : SizeScaleToPixels(j) = p => j = i
  BY DEF SizeScaleToPixels, PixelSizeTable
<1>3. Distance(i, p) = 0
  BY <1>1 DEF Distance
<1>4. \A j \in 0 .. 9 : j # i => Distance(j, p) \in Nat /\ Distance(j, p) > 0
  BY <1>1, <1>2 DEF Distance
<1> HIDE DEF p
<1> DEFINE Nearest(x) == \A j \in 0 .. 9 : \/ Distance(x, p) < Distance(j, p)
                                           \/ Distance(x, p) = Distance(j, p) /\ x <= j
<1>5. Nearest(i)
  BY <1>3, <1>4
<1>6. \A x \in 0 .. 9 : Nearest(x) => x = i
  BY <1>3, <1>4
<1>7. PixelsToSizeScale(p) = CHOOSE x \in 0 .. 9 : Nearest(x)
  BY DEF PixelsToSizeScale
<1> HIDE DEF Nearest
<1>8. QED BY <1>5, <1>6, <1>7 DEF p

\* None is no value, and no font is blank.
LEMMA NoneIs ==
  /\ \A x \in Fonts \cup Colors \cup Texts \cup {InitialFont} : x # None
  /\ "" # None /\ \A k \in Option : Default[k] # None
  /\ \A n \in Nat : n # None
  /\ \A b \in BOOLEAN : b # None
<1>1. "viewer_font" \in Option /\ Default["viewer_font"] = ""
  BY OptionIs DEF Default
<1>2. QED BY <1>1, OptionsAssumption

LEMMA DefaultTyped == Typed(Default)
<1>1. Default = [k \in Option |-> Default[k]]
  BY DEF Option, Default
<1>2. 96 = SizeScaleToPixels(3)
  BY DEF SizeScaleToPixels, PixelSizeTable
<1>3. 96 \in Range(PixelSizeTable)
  BY <1>2, TableIs
<1>4. ASSUME NEW k \in Option PROVE Storable(k, Default[k])
  <2>1. /\ Default["use_background_color"] = FALSE
        /\ Default["viewer_text_overlay_enabled"] = FALSE /\ Default[Sync] = TRUE
    BY DEF Default, Sync
  <2>2. k \in {"use_background_color", "viewer_text_overlay_enabled", Sync}
          => Default[k] \in BOOLEAN
    BY <2>1, Zenon
  <2>3. k = "viewer_size" => Default[k] = 96
    BY DEF Default
  <2>4. QED BY <1>3, <2>2, <2>3, NoneIs DEF Storable
<1>5. Default.viewer_text_overlay_position = 0
  BY DEF Default
<1>6. QED BY <1>1, <1>4, <1>5 DEF Typed

--------------------------------------------------------------------------
(* One option changes: in memory, and in the file if that can be written. *)

WrittenTo(f, k, v) == IF writable THEN [f EXCEPT ![Written(k)] = v] ELSE f
LostBy(l, k) == IF writable THEN l \ {k} ELSE l \cup {k}
Set(o, k, v) == [o EXCEPT ![k] = v]
Changed(s, k, v, p) ==
  [opt |-> Set(s.opt, k, v), painted |-> p, there |-> IF writable THEN TRUE ELSE s.there,
   file |-> WrittenTo(s.file, k, v), lost |-> LostBy(s.lost, k)]

\* A value that option k can be given.
Fits(k, v) == Storable(k, v) /\ (k = "viewer_text_overlay_position" => v \in 0 .. 6)

LEMMA SetIs ==
  ASSUME NEW o, DOMAIN o = Option, NEW k \in Option, NEW v
  PROVE  /\ Set(o, k, v) = [j \in Option |-> IF j = k THEN v ELSE o[j]]
         /\ Set(o, k, v)[k] = v /\ \A j \in Option : j # k => Set(o, k, v)[j] = o[j]
BY DEF Set

LEMMA SetAt ==
  ASSUME NEW o, DOMAIN o = Option, NEW k \in Option, NEW v
  PROVE  Set(o, k, v)[k] = v /\ \A j \in Option : j # k => Set(o, k, v)[j] = o[j]
BY DEF Set

\* An option that has the value already.
LEMMA SetSame ==
  ASSUME NEW o, Typed(o), NEW k \in Option
  PROVE  Set(o, k, o[k]) = o
<1>1. o = [j \in Option |-> o[j]]
  BY DEF Typed
<1>2. DOMAIN o = Option
  BY <1>1
<1>3. Set(o, k, o[k]) = [j \in Option |-> o[j]]
  BY <1>2, SetIs
<1>4. QED BY <1>1, <1>3

LEMMA SetTyped ==
  ASSUME NEW o, Typed(o), NEW k \in Option, NEW v, Fits(k, v)
  PROVE  Typed(Set(o, k, v))
<1> DEFINE t == Set(o, k, v)
<1>1. o = [j \in Option |-> o[j]] /\ \A j \in Option : Storable(j, o[j])
      /\ o["viewer_text_overlay_position"] \in 0 .. 6
  BY DEF Typed
<1>2. DOMAIN o = Option
  BY <1>1
<1>3. t = [j \in Option |-> IF j = k THEN v ELSE o[j]]
      /\ t[k] = v /\ \A j \in Option : j # k => t[j] = o[j]
  BY <1>2, SetIs
<1> HIDE DEF t
<1>4. t = [j \in Option |-> t[j]]
  BY <1>3
<1>5. \A j \in Option : Storable(j, t[j])
  BY <1>1, <1>3 DEF Fits
<1>6. "viewer_text_overlay_position" \in Option
  BY OptionIs
<1>7. t["viewer_text_overlay_position"] \in 0 .. 6
  BY <1>1, <1>3, <1>6 DEF Fits
<1>8. Typed(t)
  BY <1>4, <1>5, <1>7 DEF Typed
<1>9. QED BY <1>8 DEF t

LEMMA TypedFits == ASSUME NEW o, Typed(o), NEW k \in Option PROVE Fits(k, o[k])
BY DEF Typed, Fits

\* A value that fits is read as it was written.
LEMMA ReadBack ==
  ASSUME NEW f, NEW k, NEW v, f[k] = v, Fits(k, v)
  PROVE  ReadOption(f, k) = v
BY DEF ReadOption, Fits, Storable, Position

\* The entries that options are read from, after a write.
LEMMA WrittenToIs ==
  ASSUME NEW f, Readable(f), NEW k \in Option, NEW v, Storable(k, v)
  PROVE  /\ Readable(WrittenTo(f, k, v))
         /\ \A j \in Option :
              WrittenTo(f, k, v)[j] = IF writable /\ j = k /\ k # Sync THEN v ELSE f[j]
<1> DEFINE t == WrittenTo(f, k, v)
<1>1. DOMAIN f = Entries /\ \A j \in Option : f[j] = None \/ Storable(j, f[j])
  BY DEF Readable
<1>2. DOMAIN t = Entries
  BY <1>1 DEF WrittenTo
<1>3. ASSUME NEW j \in Option
      PROVE  t[j] = IF writable /\ j = k /\ k # Sync THEN v ELSE f[j]
  <2>1. j \in Entries
    BY WrittenIs
  <2>2. t[j] = IF writable /\ j = Written(k) THEN v ELSE f[j]
    BY <1>1, <2>1 DEF WrittenTo
  <2>3. j = Written(k) <=> j = k /\ k # Sync
    BY WrittenIs
  <2>4. QED BY <2>2, <2>3
<1> HIDE DEF t
<1>4. \A j \in Option : t[j] = None \/ Storable(j, t[j])
  BY <1>1, <1>3
<1>5. Readable(t)
  BY <1>2, <1>4 DEF Readable
<1>6. QED BY <1>3, <1>5 DEF t

\* The change keeps a store sound, if the view is painted to it.
LEMMA ChangedSound ==
  ASSUME NEW s, Sound(s), NEW k \in Option, NEW v, Fits(k, v),
         NEW p, p = Background(Set(s.opt, k, v))
  PROVE  Sound(Changed(s, k, v, p))
<1> DEFINE t == Changed(s, k, v, p)
<1>1. /\ t = StoreOf(t) /\ t.opt = Set(s.opt, k, v) /\ t.painted = p
      /\ t.there \in {TRUE, s.there} /\ t.file = WrittenTo(s.file, k, v)
      /\ t.lost = LostBy(s.lost, k)
  BY DEF Changed, StoreOf
<1>2. /\ Typed(s.opt) /\ Readable(s.file) /\ s.there \in BOOLEAN /\ s.lost \subseteq Option
      /\ \A j \in Option \ (s.lost \cup {Sync}) : ReadOption(s.file, j) = s.opt[j]
  BY DEF Sound, Agrees
<1>3. Storable(k, v) /\ DOMAIN s.opt = Option
  BY <1>2 DEF Fits, Typed
<1> HIDE DEF t
<1>4. Typed(t.opt) /\ Readable(t.file) /\ t.lost \subseteq Option
  BY <1>1, <1>2, <1>3, SetTyped, WrittenToIs DEF LostBy
<1>5. t.there \in BOOLEAN
  BY <1>1, <1>2
<1>6. ASSUME NEW j \in Option \ (t.lost \cup {Sync}) PROVE Agrees(t, j)
  <2>1. CASE j = k
    <3>1. writable
      BY <1>1, <1>6, <2>1 DEF LostBy
    <3>2. t.file[j] = v /\ t.opt[j] = v
      BY <1>1, <1>2, <1>3, <1>6, <2>1, <3>1, SetIs, WrittenToIs
    <3>3. QED BY <2>1, <3>2, ReadBack DEF Agrees
  <2>2. CASE j # k
    <3>1. j \notin s.lost
      BY <1>1, <1>6, <2>2 DEF LostBy
    <3>2. t.file[j] = s.file[j] /\ t.opt[j] = s.opt[j]
      BY <1>1, <1>2, <1>3, <1>6, <2>2, SetIs, WrittenToIs
    <3>3. ReadOption(t.file, j) = ReadOption(s.file, j)
      BY <3>2 DEF ReadOption
    <3>4. QED BY <1>2, <1>6, <3>1, <3>2, <3>3 DEF Agrees
  <2>3. QED BY <2>1, <2>2
<1>7. Sound(t)
  BY <1>1, <1>4, <1>5, <1>6 DEF Sound
<1>8. QED BY <1>7 DEF t

--------------------------------------------------------------------------
(* The handlers of the widgets each change one option. *)

LEMMA SaveIs ==
  ASSUME NEW s, s = StoreOf(s), NEW k, NEW v
  PROVE  Save(s, k, v) = Changed(s, k, v, s.painted)
<1> DEFINE t == [s EXCEPT !.opt[k] = v]
<1>1. t = [opt |-> Set(s.opt, k, v), painted |-> s.painted, there |-> s.there,
           file |-> s.file, lost |-> s.lost]
  BY DEF StoreOf, Set
<1>2. Save(s, k, v) = Write(t, k, v)
  BY DEF Save
<1> HIDE DEF t
<1>3. Write(t, k, v) = Changed(s, k, v, s.painted)
  BY <1>1 DEF Write, Changed, WrittenTo, LostBy
<1>4. QED BY <1>2, <1>3

LEMMA ToggleUseIs ==
  ASSUME NEW s, s = StoreOf(s), NEW on
  PROVE  ToggleUse(s, on) =
           Changed(s, "use_background_color", on,
                   IF on THEN s.opt.background_color ELSE None)
<1> DEFINE p == IF on THEN s.opt.background_color ELSE None
           t == ListenUse(s, on)
           x == [s EXCEPT !.painted = p]
<1>1. t = [opt |-> Set(s.opt, "use_background_color", on), painted |-> p,
           there |-> s.there, file |-> s.file, lost |-> s.lost]
  <2>1. t = [x EXCEPT !.opt.use_background_color = on]
    BY DEF ListenUse
  <2>2. x = [opt |-> s.opt, painted |-> p, there |-> s.there, file |-> s.file,
             lost |-> s.lost]
    BY DEF StoreOf
  <2> HIDE DEF x, t, p
  <2>3. QED BY <2>1, <2>2 DEF Set
<1>2. ToggleUse(s, on) = Write(t, "use_background_color", on)
  BY DEF ToggleUse
<1> HIDE DEF t
<1>3. Write(t, "use_background_color", on) = Changed(s, "use_background_color", on, p)
  BY <1>1 DEF Write, Changed, WrittenTo, LostBy
<1>4. QED BY <1>2, <1>3

LEMMA RecolorIs ==
  ASSUME NEW s, s = StoreOf(s), NEW c
  PROVE  ListenColor(Write(s, "background_color", c), c) =
           Changed(s, "background_color", c,
                   IF s.opt.use_background_color THEN c ELSE s.painted)
<1> DEFINE t == Write(s, "background_color", c)
<1>1. t = [opt |-> s.opt, painted |-> s.painted, there |-> IF writable THEN TRUE ELSE s.there,
           file |-> WrittenTo(s.file, "background_color", c),
           lost |-> LostBy(s.lost, "background_color")]
  BY DEF StoreOf, Write, WrittenTo, LostBy
<1> HIDE DEF t
<1>2. ListenColor(t, c) =
        Changed(s, "background_color", c, IF s.opt.use_background_color THEN c ELSE s.painted)
  <2> DEFINE p == IF s.opt.use_background_color THEN c ELSE s.painted
             x == [t EXCEPT !.painted = p]
  <2>0. t = StoreOf(t) /\ t.opt = s.opt
    BY <1>1 DEF StoreOf
  <2>1. ListenColor(t, c) = [x EXCEPT !.opt.background_color = c]
    BY <1>1 DEF ListenColor
  <2>2. x = [opt |-> t.opt, painted |-> p, there |-> t.there, file |-> t.file, lost |-> t.lost]
    BY <2>0 DEF StoreOf
  <2> HIDE DEF x, p
  <2>3. ListenColor(t, c) = [opt |-> Set(s.opt, "background_color", c), painted |-> p,
                             there |-> t.there, file |-> t.file, lost |-> t.lost]
    BY <2>0, <2>1, <2>2 DEF Set
  <2>4. QED BY <1>1, <2>3 DEF Changed, p
<1>3. QED BY <1>2 DEF t

\* The scale's handler makes no further change: the scale shows the size already.
LEMMA MoveIs ==
  ASSUME NEW s, s = StoreOf(s), NEW i, NEW p, p = SizeScaleToPixels(i)
  PROVE  ListenSize(Save(s, "viewer_size", p), i, p) = Changed(s, "viewer_size", p, s.painted)
<1> DEFINE t == Changed(s, "viewer_size", p, s.painted)
<1>1. Save(s, "viewer_size", p) = t
  BY SaveIs
<1>2. ListenSize(t, i, p) = [t EXCEPT !.opt.viewer_size = p]
  BY DEF ListenSize
<1>3. Set(Set(s.opt, "viewer_size", p), "viewer_size", p) = Set(s.opt, "viewer_size", p)
  BY DEF Set
<1>4. [t EXCEPT !.opt.viewer_size = p] = t
  <2> DEFINE o == Set(s.opt, "viewer_size", p)
  <2>1. t = [opt |-> o, painted |-> t.painted, there |-> t.there, file |-> t.file,
             lost |-> t.lost]
    BY DEF Changed
  <2>2. [o EXCEPT !.viewer_size = p] = o
    BY <1>3 DEF Set
  <2> HIDE DEF t, o
  <2>3. QED BY <2>1, <2>2
<1>5. QED BY <1>1, <1>2, <1>4
--------------------------------------------------------------------------
(* The preferences window is opened: the options are saved as they are. *)

Refreshed(s, t) ==
  /\ Sound(t) /\ t.opt = s.opt
  /\ \A k \in Option : \/ ReadOption(t.file, k) = ReadOption(s.file, k)
                       \/ k # Sync /\ ReadOption(t.file, k) = s.opt[k]

LEMMA RefreshedSelf == ASSUME NEW s, Sound(s) PROVE Refreshed(s, s)
BY DEF Refreshed

LEMMA RefreshedTwice ==
  ASSUME NEW s, NEW t, NEW u, Refreshed(s, t), Refreshed(t, u)
  PROVE  Refreshed(s, u)
BY DEF Refreshed

LEMMA RefreshOne ==
  ASSUME NEW s, Sound(s), NEW k \in Option, NEW v, v = s.opt[k], NEW p, p = s.painted
  PROVE  Refreshed(s, Changed(s, k, v, p))
<1> DEFINE t == Changed(s, k, v, p)
<1>1. Typed(s.opt) /\ Readable(s.file) /\ s.painted = Background(s.opt)
  BY DEF Sound
<1>2. Set(s.opt, k, v) = s.opt /\ Fits(k, v)
  BY <1>1, SetSame, TypedFits
<1>3. Sound(t)
  BY <1>1, <1>2, ChangedSound
<1>4. t.opt = s.opt /\ t.file = WrittenTo(s.file, k, v)
  BY <1>2 DEF Changed
<1> HIDE DEF t
<1>5. ASSUME NEW j \in Option
      PROVE  \/ ReadOption(t.file, j) = ReadOption(s.file, j)
             \/ j # Sync /\ ReadOption(t.file, j) = s.opt[j]
  <2>1. t.file[j] = IF writable /\ j = k /\ k # Sync THEN v ELSE s.file[j]
    BY <1>1, <1>2, <1>4, WrittenToIs DEF Fits
  <2>2. CASE writable /\ j = k /\ k # Sync
    BY <1>2, <2>1, <2>2, ReadBack
  <2>3. CASE ~ (writable /\ j = k /\ k # Sync)
    BY <2>1, <2>3 DEF ReadOption
  <2>4. QED BY <2>2, <2>3
<1>6. Refreshed(s, t)
  BY <1>3, <1>4, <1>5 DEF Refreshed
<1>7. QED BY <1>6 DEF t


LEMMA SoundParts ==
  ASSUME NEW s, Sound(s)
  PROVE  /\ s = StoreOf(s) /\ Typed(s.opt) /\ s.painted = Background(s.opt)
         /\ s.opt.use_background_color \in BOOLEAN
         /\ s.opt.viewer_text_overlay_enabled \in BOOLEAN /\ s.opt[Sync] \in BOOLEAN
         /\ s.opt.viewer_size \in Range(PixelSizeTable)
<1>1. s = StoreOf(s) /\ Typed(s.opt) /\ s.painted = Background(s.opt)
  BY DEF Sound
<1>2. \A k \in Option : Storable(k, s.opt[k])
  BY <1>1 DEF Typed
<1>3. /\ Storable("use_background_color", s.opt["use_background_color"])
      /\ Storable("viewer_text_overlay_enabled", s.opt["viewer_text_overlay_enabled"])
      /\ Storable(Sync, s.opt[Sync])
      /\ Storable("viewer_size", s.opt["viewer_size"])
  BY <1>2, OptionIs, WrittenIs
<1>4. QED BY <1>1, <1>3 DEF Storable

\* The background's listeners are told what they know.
LEMMA ListenersKnow ==
  ASSUME NEW s, Sound(s)
  PROVE  /\ ListenColor(s, s.opt.background_color) = s
         /\ ListenUse(s, s.opt.use_background_color) = s
<1> DEFINE c == s.opt.background_color
           on == s.opt.use_background_color
           o == s.opt
<1>1. s = [opt |-> o, painted |-> s.painted, there |-> s.there, file |-> s.file,
           lost |-> s.lost]
      /\ s.painted = IF on THEN c ELSE None
  BY SoundParts DEF StoreOf, Background
<1>2. Set(o, "background_color", c) = o /\ Set(o, "use_background_color", on) = o
  BY SoundParts, SetSame, OptionIs
<1>3. [s EXCEPT !.painted = s.painted] = s
  BY <1>1
<1>4. ListenColor(s, c) = s
  <2>1. ListenColor(s, c) = [[s EXCEPT !.painted = s.painted] EXCEPT !.opt.background_color = c]
    BY <1>1 DEF ListenColor
  <2>2. ListenColor(s, c) = [s EXCEPT !.opt.background_color = c]
    BY <1>3, <2>1
  <2>3. [o EXCEPT !.background_color = c] = o
    BY <1>2 DEF Set
  <2> HIDE DEF o, c
  <2>4. [s EXCEPT !.opt.background_color = c] = s
    BY <1>1, <2>3
  <2>5. QED BY <2>2, <2>4
<1>5. ListenUse(s, on) = s
  <2>1. ListenUse(s, on) = [[s EXCEPT !.painted = s.painted] EXCEPT !.opt.use_background_color = on]
    BY <1>1 DEF ListenUse
  <2>2. ListenUse(s, on) = [s EXCEPT !.opt.use_background_color = on]
    BY <1>3, <2>1
  <2>3. [o EXCEPT !.use_background_color = on] = o
    BY <1>2 DEF Set
  <2> HIDE DEF o, on
  <2>4. [s EXCEPT !.opt.use_background_color = on] = s
    BY <1>1, <2>3
  <2>5. QED BY <2>2, <2>4
<1>6. QED BY <1>4, <1>5

LEMMA SaveRefreshes ==
  ASSUME NEW s, Sound(s), NEW k \in Option, NEW v, v = s.opt[k]
  PROVE  Refreshed(s, Save(s, k, v))
BY SoundParts, SaveIs, RefreshOne

LEMMA ToggleRefreshes ==
  ASSUME NEW s, Sound(s), NEW on, on = s.opt.use_background_color
  PROVE  Refreshed(s, ToggleUse(s, on))
<1>1. s.painted = IF on THEN s.opt.background_color ELSE None
  BY SoundParts DEF Background
<1>2. ToggleUse(s, on) = Changed(s, "use_background_color", on, s.painted)
  BY <1>1, SoundParts, ToggleUseIs
<1>3. QED BY <1>2, RefreshOne, OptionIs

LEMMA FontRefreshes ==
  ASSUME NEW s, Sound(s), NEW k \in Option, NEW v, v = s.opt[k]
  PROVE  Refreshed(s, ListenFont(s, k, v))
BY SaveRefreshes, RefreshedSelf DEF ListenFont

\* The scale moves from its first place to that of the size, and saves it.
LEMMA SizeRefreshes ==
  ASSUME NEW s, Sound(s), NEW size, size = s.opt.viewer_size
  PROVE  Refreshed(s, ListenSize(s, 0, size))
<1> DEFINE j == PixelsToSizeScale(size)
           t == IF SizeScaleToPixels(0) # size /\ j # 0
                THEN Save(s, "viewer_size", SizeScaleToPixels(j)) ELSE s
<1>1. SizeScaleToPixels(j) = size
  <2>1. PICK i \in 0 .. 9 : size = SizeScaleToPixels(i)
    BY SoundParts, TableIs
  <2>2. QED BY <2>1, ScaleRoundTrip
<1>2. "viewer_size" \in Option /\ size = s.opt["viewer_size"]
  BY OptionIs
<1> HIDE DEF j
<1>3. Refreshed(s, t)
  BY <1>1, <1>2, SaveRefreshes, RefreshedSelf
<1>4. ListenSize(s, 0, size) = [t EXCEPT !.opt.viewer_size = size]
  BY DEF ListenSize, j
<1> HIDE DEF t
<1>5. t = StoreOf(t) /\ t.opt = s.opt /\ Typed(t.opt)
  BY <1>3, SoundParts DEF Refreshed
<1>6. [t EXCEPT !.opt.viewer_size = size] = t
  <2> DEFINE o == t.opt
  <2>1. t = [opt |-> o, painted |-> t.painted, there |-> t.there, file |-> t.file,
             lost |-> t.lost]
    BY <1>5 DEF StoreOf
  <2>2. Set(o, "viewer_size", size) = o
    BY <1>2, <1>5, SetSame
  <2>3. [o EXCEPT !.viewer_size = size] = o
    BY <2>2 DEF Set
  <2> HIDE DEF o
  <2>4. QED BY <2>1, <2>3
<1>7. QED BY <1>3, <1>4, <1>6


LEMMA OpeningRefreshes ==
  ASSUME NEW s0, Sound(s0)
  PROVE  Refreshed(s0, Opening(s0))
<1> DEFINE o  == s0.opt
           s1 == ListenColor(s0, o.background_color)
           s2 == IF o.use_background_color THEN ToggleUse(s1, TRUE) ELSE s1
           t2 == ListenUse(s2, o.use_background_color)
           s3 == ListenSize(t2, 0, o.viewer_size)
           s4 == ListenFont(s3, "viewer_font", o.viewer_font)
           s5 == IF o.viewer_text_overlay_enabled
                 THEN Save(s4, "viewer_text_overlay_enabled", TRUE) ELSE s4
           s6 == ListenFont(s5, "viewer_text_overlay_font", o.viewer_text_overlay_font)
           s7 == Save(s6, "viewer_text_overlay_position", o.viewer_text_overlay_position)
           s8 == IF o[Sync] THEN s7 ELSE Save(s7, Sync, FALSE)
           On(t) == Sound(t) /\ t.opt = o
<1>0. Opening(s0) = ToggleUse(s8, o.use_background_color)
  BY DEF Opening
<1>1. /\ o.use_background_color \in BOOLEAN
      /\ o.viewer_text_overlay_enabled \in BOOLEAN /\ o[Sync] \in BOOLEAN
  BY SoundParts
<1>2. /\ "viewer_font" \in Option /\ "viewer_text_overlay_enabled" \in Option
      /\ "viewer_text_overlay_font" \in Option
      /\ "viewer_text_overlay_position" \in Option /\ Sync \in Option
  BY OptionIs, WrittenIs
<1>3. \A t, u : Refreshed(t, u) /\ On(t) => On(u)
  BY DEF Refreshed
<1>4. On(s0) /\ Refreshed(s0, s1)
  BY ListenersKnow, RefreshedSelf
<1>5. On(s1)
  BY <1>3, <1>4
<1> HIDE DEF s1
<1>6. Refreshed(s1, s2)
  BY <1>1, <1>5, ToggleRefreshes, RefreshedSelf
<1>7. On(s2)
  BY <1>3, <1>5, <1>6
<1> HIDE DEF s2
<1>8. Refreshed(s2, t2)
  BY <1>7, ListenersKnow, RefreshedSelf
<1>9. On(t2)
  BY <1>3, <1>7, <1>8
<1> HIDE DEF t2
<1>10. Refreshed(t2, s3)
  BY <1>9, SizeRefreshes
<1>11. On(s3)
  BY <1>3, <1>9, <1>10
<1> HIDE DEF s3
<1>12. Refreshed(s3, s4)
  BY <1>2, <1>11, FontRefreshes
<1>13. On(s4)
  BY <1>3, <1>11, <1>12
<1> HIDE DEF s4
<1>14. Refreshed(s4, s5)
  BY <1>1, <1>2, <1>13, SaveRefreshes, RefreshedSelf
<1>15. On(s5)
  BY <1>3, <1>13, <1>14
<1> HIDE DEF s5
<1>16. Refreshed(s5, s6)
  BY <1>2, <1>15, FontRefreshes
<1>17. On(s6)
  BY <1>3, <1>15, <1>16
<1> HIDE DEF s6
<1>18. Refreshed(s6, s7)
  BY <1>2, <1>17, SaveRefreshes
<1>19. On(s7)
  BY <1>3, <1>17, <1>18
<1> HIDE DEF s7
<1>20. Refreshed(s7, s8)
  BY <1>1, <1>2, <1>19, SaveRefreshes, RefreshedSelf
<1>21. On(s8)
  BY <1>3, <1>19, <1>20
<1> HIDE DEF s8
<1>22. Refreshed(s8, Opening(s0))
  BY <1>0, <1>21, ToggleRefreshes
<1> HIDE DEF On
<1>23. QED
  <2>1. Refreshed(s0, s2)
    BY <1>4, <1>6, RefreshedTwice
  <2>2. Refreshed(s0, s3)
    BY <2>1, <1>8, <1>10, RefreshedTwice
  <2>3. Refreshed(s0, s5)
    BY <2>2, <1>12, <1>14, RefreshedTwice
  <2>4. Refreshed(s0, s7)
    BY <2>3, <1>16, <1>18, RefreshedTwice
  <2>5. QED BY <2>4, <1>20, <1>22, RefreshedTwice
--------------------------------------------------------------------------
(* The store is the state a handler starts from and leaves. *)

LEMMA StoreFields ==
  /\ Store.opt = opt /\ Store.painted = painted /\ Store.there = there
  /\ Store.file = file /\ Store.lost = lost /\ Store = StoreOf(Store)
BY DEF Store, StoreOf

\* A sound store that a handler leaves is the store of the next state.
LEMMA BecomesStore ==
  ASSUME NEW s, s = StoreOf(s), Becomes(s)
  PROVE  Store' = s /\ opt' = s.opt /\ file' = s.file /\ lost' = s.lost
<1>1. /\ opt' = s.opt /\ painted' = s.painted /\ there' = s.there
      /\ file' = s.file /\ lost' = s.lost
  BY DEF Becomes
<1>2. Store' = StoreOf(s)
  BY <1>1 DEF Store, StoreOf
<1>3. QED BY <1>1, <1>2

--------------------------------------------------------------------------
(* The widgets follow the options. *)

Fontlike == {"viewer_font", "viewer_text_overlay_font"}
FontButton(k, b) ==
  \/ k = "viewer_font" /\ b = "font"
  \/ k = "viewer_text_overlay_font" /\ b = "overlay_font"

LEMMA WidgetDomain ==
  ASSUME NEW o
  PROVE  DOMAIN Widgets(o) = Option \cup {"font", "overlay_font"}
BY OptionIs DEF Widgets

LEMMA WidgetSize ==
  ASSUME NEW o
  PROVE  Widgets(o)["viewer_size"] = PixelsToSizeScale(o["viewer_size"])
BY DEF Widgets

LEMMA WidgetFont ==
  ASSUME NEW o, NEW k \in Fontlike
  PROVE  Widgets(o)[k] = (o[k] # "")
<1>1. Widgets(o)["viewer_font"] = (o["viewer_font"] # "")
  BY DEF Widgets
<1>2. Widgets(o)["viewer_text_overlay_font"] = (o["viewer_text_overlay_font"] # "")
  BY DEF Widgets
<1>3. QED BY <1>1, <1>2 DEF Fontlike

LEMMA WidgetPlain ==
  ASSUME NEW o, NEW k \in Option, k # "viewer_size", k \notin Fontlike
  PROVE  Widgets(o)[k] = o[k]
<1>1. /\ Widgets(o)["background_color"] = o["background_color"]
      /\ Widgets(o)["use_background_color"] = o["use_background_color"]
      /\ Widgets(o)["viewer_text_overlay_enabled"] = o["viewer_text_overlay_enabled"]
      /\ Widgets(o)["viewer_text_overlay_format_string"]
           = o["viewer_text_overlay_format_string"]
      /\ Widgets(o)["viewer_text_overlay_separator"] = o["viewer_text_overlay_separator"]
      /\ Widgets(o)["viewer_text_overlay_color"] = o["viewer_text_overlay_color"]
      /\ Widgets(o)["viewer_text_overlay_position"] = o["viewer_text_overlay_position"]
      /\ Widgets(o)["viewer_monitor_type_sync_enabled"] = o["viewer_monitor_type_sync_enabled"]
  BY DEF Widgets
<1>2. QED BY <1>1, OptionIs DEF Fontlike

LEMMA FontButtonIs ==
  ASSUME NEW k, NEW b, FontButton(k, b)
  PROVE  k \in Fontlike /\ k \in Option /\ b \notin Option /\ b \in {"font", "overlay_font"}
BY OptionIs DEF FontButton, Fontlike

LEMMA FontsAreOptions == \A k \in Fontlike : k \in Option
BY OptionIs DEF Fontlike

\* A widget shows its own option only.
LEMMA OtherWidgets ==
  ASSUME NEW o, DOMAIN o = Option, NEW k \in Option, NEW v, NEW j \in Option, j # k
  PROVE  Widgets(Set(o, k, v))[j] = Widgets(o)[j]
<1>1. Set(o, k, v)[j] = o[j]
  BY SetIs
<1>2. CASE j = "viewer_size"
  BY <1>1, <1>2, WidgetSize
<1>3. CASE j \in Fontlike
  <2>1. /\ Widgets(o)[j] = (o[j] # "")
        /\ Widgets(Set(o, k, v))[j] = (Set(o, k, v)[j] # "")
    BY <1>3, WidgetFont
  <2>2. QED BY <1>1, <2>1
<1>4. CASE j # "viewer_size" /\ j \notin Fontlike
  BY <1>1, <1>4, WidgetPlain
<1>5. QED BY <1>2, <1>3, <1>4

\* The widget of an option other than a font is set, and the option with it.
LEMMA ShowsPlain ==
  ASSUME NEW w, NEW o, ShowsAll(w, o), DOMAIN o = Option,
         NEW k \in Option \ Fontlike, NEW v, NEW x, x = Widgets(Set(o, k, v))[k]
  PROVE  ShowsAll([w EXCEPT ![k] = x], Set(o, k, v))
<1> DEFINE u == [w EXCEPT ![k] = x]
           n == Set(o, k, v)
<1>1. /\ DOMAIN w = DOMAIN Widgets(o) /\ \A j \in Option : w[j] = Widgets(o)[j]
      /\ w["viewer_font"] => w["font"] = o["viewer_font"]
      /\ w["viewer_text_overlay_font"] => w["overlay_font"] = o["viewer_text_overlay_font"]
      /\ AFont(w["font"]) /\ AFont(w["overlay_font"])
  BY DEF ShowsAll
<1>2. DOMAIN w = Option \cup {"font", "overlay_font"}
  BY <1>1, WidgetDomain
<1>3. u[k] = x /\ \A j \in DOMAIN w : j # k => u[j] = w[j]
  BY <1>2
<1>4. /\ "viewer_font" \in Option /\ "viewer_text_overlay_font" \in Option
      /\ k # "viewer_font" /\ k # "viewer_text_overlay_font"
      /\ k # "font" /\ k # "overlay_font"
  BY OptionIs DEF Fontlike
<1>5. n["viewer_font"] = o["viewer_font"]
      /\ n["viewer_text_overlay_font"] = o["viewer_text_overlay_font"]
  BY <1>4, SetIs
<1>6. DOMAIN u = DOMAIN Widgets(n)
  BY <1>2, WidgetDomain
<1>7. \A j \in Option : u[j] = Widgets(n)[j]
  BY <1>1, <1>2, <1>3, OtherWidgets
<1> HIDE DEF u, n
<1>8. /\ u["viewer_font"] = w["viewer_font"] /\ u["font"] = w["font"]
      /\ u["viewer_text_overlay_font"] = w["viewer_text_overlay_font"]
      /\ u["overlay_font"] = w["overlay_font"]
  BY <1>2, <1>3, <1>4
<1>9. ShowsAll(u, n)
  BY <1>1, <1>5, <1>6, <1>7, <1>8 DEF ShowsAll
<1>10. QED BY <1>9 DEF u, n

\* A font button is set, and the font if it is used.
LEMMA ShowsFont ==
  ASSUME NEW w, NEW o, ShowsAll(w, o), DOMAIN o = Option,
         NEW k \in Option, NEW b, FontButton(k, b), NEW font, AFont(font)
  PROVE  ShowsAll([w EXCEPT ![b] = font], IF w[k] THEN Set(o, k, font) ELSE o)
<1> DEFINE u == [w EXCEPT ![b] = font]
           n == IF w[k] THEN Set(o, k, font) ELSE o
<1>1. /\ DOMAIN w = DOMAIN Widgets(o) /\ \A j \in Option : w[j] = Widgets(o)[j]
      /\ w["viewer_font"] => w["font"] = o["viewer_font"]
      /\ w["viewer_text_overlay_font"] => w["overlay_font"] = o["viewer_text_overlay_font"]
      /\ AFont(w["font"]) /\ AFont(w["overlay_font"])
  BY DEF ShowsAll
<1>2. DOMAIN w = Option \cup {"font", "overlay_font"} /\ b \in DOMAIN w /\ b \notin Option
  BY <1>1, WidgetDomain, FontButtonIs, OptionIs
<1>3. u[b] = font /\ DOMAIN u = DOMAIN w /\ \A j \in DOMAIN w : j # b => u[j] = w[j]
  BY <1>2
<1> HIDE DEF u
<1>4. \A j \in Option : u[j] = w[j]
  BY <1>2, <1>3
<1>5. k \in Fontlike
  BY DEF FontButton, Fontlike
<1>6. /\ Set(o, k, font)[k] = font
      /\ \A j \in Option : j # k => Set(o, k, font)[j] = o[j]
  BY SetAt
<1>7. ASSUME NEW j \in Option PROVE Widgets(n)[j] = Widgets(o)[j]
  <2>1. CASE ~ w[k]
    BY <2>1
  <2>2. CASE w[k] /\ j # k
    BY <2>2, OtherWidgets
  <2>3. CASE w[k] /\ j = k
    <3>1. n = Set(o, k, font)
      BY <2>3
    <3>2. Widgets(n)[k] = (n[k] # "") /\ Widgets(o)[k] = (o[k] # "")
      BY <1>5, WidgetFont
    <3>3. n[k] = font
      BY <3>1, <1>6
    <3>4. o[k] # ""
      BY <1>1, <2>3, <3>2
    <3>5. QED BY <2>3, <3>2, <3>3, <3>4 DEF AFont
  <2>4. QED BY <2>1, <2>2, <2>3
<1>8. \A j \in Option : j # k => n[j] = o[j]
  BY <1>6
<1>9. w[k] => n[k] = font
  BY <1>6
<1> HIDE DEF n
<1>10. "viewer_font" \in Option /\ "viewer_text_overlay_font" \in Option
  BY OptionIs
<1>11. /\ u["viewer_font"] => u["font"] = n["viewer_font"]
       /\ u["viewer_text_overlay_font"] => u["overlay_font"] = n["viewer_text_overlay_font"]
       /\ AFont(u["font"]) /\ AFont(u["overlay_font"])
  <2>1. CASE k = "viewer_font" /\ b = "font"
    BY <1>1, <1>2, <1>3, <1>4, <1>8, <1>9, <1>10, <2>1
  <2>2. CASE k = "viewer_text_overlay_font" /\ b = "overlay_font"
    BY <1>1, <1>2, <1>3, <1>4, <1>8, <1>9, <1>10, <2>2
  <2>3. QED BY <2>1, <2>2 DEF FontButton
<1>12. DOMAIN u = DOMAIN Widgets(n)
  BY <1>2, <1>3, WidgetDomain
<1>13. ShowsAll(u, n)
  BY <1>1, <1>4, <1>7, <1>11, <1>12 DEF ShowsAll
<1>14. QED BY <1>13 DEF u, n

\* The check button of a font is set, and the font with it.
LEMMA ShowsUse ==
  ASSUME NEW w, NEW o, ShowsAll(w, o), DOMAIN o = Option,
         NEW k \in Option, NEW b, FontButton(k, b), NEW on \in BOOLEAN
  PROVE  ShowsAll([w EXCEPT ![k] = on], Set(o, k, IF on THEN w[b] ELSE ""))
<1> DEFINE font == IF on THEN w[b] ELSE ""
           u == [w EXCEPT ![k] = on]
           n == Set(o, k, font)
<1>1. (font # "") = on
  BY DEF ShowsAll, FontButton, AFont
<1>2. on => font = w[b]
  OBVIOUS
<1> HIDE DEF font
<1>3. /\ DOMAIN w = DOMAIN Widgets(o) /\ \A j \in Option : w[j] = Widgets(o)[j]
      /\ w["viewer_font"] => w["font"] = o["viewer_font"]
      /\ w["viewer_text_overlay_font"] => w["overlay_font"] = o["viewer_text_overlay_font"]
      /\ AFont(w["font"]) /\ AFont(w["overlay_font"])
  BY DEF ShowsAll
<1>4. DOMAIN w = Option \cup {"font", "overlay_font"} /\ b \in DOMAIN w /\ b \notin Option
      /\ "viewer_font" \in Option /\ "viewer_text_overlay_font" \in Option
  BY <1>3, WidgetDomain, FontButtonIs, OptionIs
<1>5. u[k] = on /\ DOMAIN u = DOMAIN w /\ \A j \in DOMAIN w : j # k => u[j] = w[j]
  BY <1>4
<1>6. n[k] = font /\ \A j \in Option : j # k => n[j] = o[j]
  BY SetIs
<1>7. \A j \in Option : j # k => Widgets(n)[j] = Widgets(o)[j]
  BY OtherWidgets
<1>8. Widgets(n)[k] = (n[k] # "")
  BY WidgetFont, FontButtonIs
<1>9. DOMAIN u = DOMAIN Widgets(n)
  BY <1>4, WidgetDomain
<1> HIDE DEF u, n
<1>10. \A j \in Option : u[j] = Widgets(n)[j]
  <2>1. Widgets(n)[k] = on
    BY <1>6, <1>8, <1>1
  <2>2. QED BY <1>3, <1>4, <1>5, <1>7, <2>1
<1>11. /\ u["viewer_font"] => u["font"] = n["viewer_font"]
       /\ u["viewer_text_overlay_font"] => u["overlay_font"] = n["viewer_text_overlay_font"]
       /\ AFont(u["font"]) /\ AFont(u["overlay_font"])
  <2>1. CASE k = "viewer_font" /\ b = "font"
    BY <1>3, <1>4, <1>5, <1>6, <1>2, <2>1
  <2>2. CASE k = "viewer_text_overlay_font" /\ b = "overlay_font"
    BY <1>3, <1>4, <1>5, <1>6, <1>2, <2>2
  <2>3. QED BY <2>1, <2>2 DEF FontButton
<1>12. ShowsAll(u, n)
  BY <1>3, <1>9, <1>10, <1>11 DEF ShowsAll
<1>13. QED BY <1>12 DEF u, n, font


\* A new window.
LEMMA ShowsNew ==
  ASSUME NEW o, Typed(o)
  PROVE  ShowsAll(Widgets(o), o)
<1>1. Storable("viewer_font", o["viewer_font"])
      /\ Storable("viewer_text_overlay_font", o["viewer_text_overlay_font"])
  BY OptionIs DEF Typed
<1>2. AFont(InitialFont)
  BY OptionsAssumption DEF AFont
<1>3. /\ Widgets(o)["viewer_font"] => o["viewer_font"] # ""
      /\ Widgets(o)["viewer_text_overlay_font"] => o["viewer_text_overlay_font"] # ""
  BY DEF Widgets
<1>4. /\ Widgets(o)["font"] = IF o["viewer_font"] = "" THEN InitialFont ELSE o["viewer_font"]
      /\ Widgets(o)["overlay_font"] = IF o["viewer_text_overlay_font"] = "" THEN InitialFont
                                      ELSE o["viewer_text_overlay_font"]
  BY DEF Widgets
<1>5. AFont(Widgets(o)["font"]) /\ AFont(Widgets(o)["overlay_font"])
  BY <1>1, <1>2, <1>4 DEF AFont, Storable
<1>6. QED BY <1>3, <1>4, <1>5 DEF ShowsAll
--------------------------------------------------------------------------
(* The options are kept. *)

\* The user operates a widget of an open window.
LEMMA OperatedKeeps ==
  ASSUME OptionsOK, NEW s, NEW widget, NEW w, Operated(s, widget, w),
         Sound(s), ShowsAll([window EXCEPT ![widget] = w], s.opt)
  PROVE  OptionsOK'
<1>1. /\ window # None /\ rows = None /\ window' = [window EXCEPT ![widget] = w]
      /\ Becomes(s) /\ UNCHANGED <<up, rows, writable>>
  BY DEF Operated
<1>2. up /\ up' /\ up' \in BOOLEAN /\ writable' \in BOOLEAN
  BY <1>1 DEF OptionsOK
<1>3. s = StoreOf(s) /\ Typed(s.opt) /\ Readable(s.file) /\ s.there \in BOOLEAN
      /\ s.lost \subseteq Option
  BY DEF Sound
<1>4. Store' = s /\ opt' = s.opt /\ file' = s.file /\ lost' = s.lost
  BY <1>1, <1>3, BecomesStore
<1>5. there' = s.there
  BY <1>1 DEF Becomes
<1>6. Typed(opt)' /\ Readable(file)' /\ Sound(Store)' /\ ShowsAll(window, opt)'
  BY <1>1, <1>3, <1>4 DEF Typed, Readable, Sound, StoreOf, Agrees, Background, ShowsAll
<1>7. QED BY <1>2, <1>3, <1>4, <1>5, <1>6 DEF OptionsOK

\* It changes an option other than a font.
LEMMA PlainKeeps ==
  ASSUME OptionsOK, NEW k \in Option \ Fontlike, NEW v, Fits(k, v),
         NEW p, p = Background(Set(opt, k, v)), NEW w, w = Widgets(Set(opt, k, v))[k],
         Operated(Changed(Store, k, v, p), k, w)
  PROVE  OptionsOK'
<1> DEFINE s == Changed(Store, k, v, p)
<1>1. window # None
  BY DEF Operated
<1>2. Sound(Store) /\ ShowsAll(window, opt) /\ DOMAIN opt = Option
  BY <1>1 DEF OptionsOK, Typed
<1>3. Sound(s)
  BY <1>2, StoreFields, ChangedSound
<1>4. ShowsAll([window EXCEPT ![k] = w], Set(opt, k, v))
  BY <1>2, ShowsPlain
<1>5. s.opt = Set(opt, k, v)
  BY StoreFields DEF Changed
<1> HIDE DEF s
<1>6. ShowsAll([window EXCEPT ![k] = w], s.opt)
  BY <1>4, <1>5
<1>7. Operated(s, k, w)
  BY DEF s
<1>8. QED BY <1>3, <1>6, <1>7, OperatedKeeps

\* An option that its widget shows as it is.
LEMMA EntryKeeps ==
  ASSUME OptionsOK, NEW k \in Option \ Fontlike, NEW v, Fits(k, v), SaveEntry(k, v),
         k \notin {"viewer_size", "background_color", "use_background_color"}
  PROVE  OptionsOK'
<1>1. window # None
  BY DEF SaveEntry, Operated
<1>2. DOMAIN opt = Option /\ painted = Background(opt)
  BY <1>1, StoreFields DEF OptionsOK, Typed, Sound
<1>3. "background_color" \in Option /\ "use_background_color" \in Option
  BY OptionIs
<1>4. Set(opt, k, v)["background_color"] = opt["background_color"]
      /\ Set(opt, k, v)["use_background_color"] = opt["use_background_color"]
      /\ Set(opt, k, v)[k] = v
  BY <1>2, <1>3, SetIs
<1>5. painted = Background(Set(opt, k, v))
  BY <1>2, <1>4 DEF Background
<1>6. v = Widgets(Set(opt, k, v))[k]
  BY <1>4, WidgetPlain
<1>7. Operated(Changed(Store, k, v, painted), k, v)
  BY SaveIs, StoreFields DEF SaveEntry
<1>8. QED BY <1>5, <1>6, <1>7, PlainKeeps


LEMMA RunningStore ==
  ASSUME OptionsOK, up
  PROVE  Sound(Store) /\ Typed(opt) /\ DOMAIN opt = Option /\ painted = Background(opt)
BY StoreFields DEF OptionsOK, Typed, Sound

\* The background, its use and the size.
LEMMA BackgroundKeeps ==
  ASSUME OptionsOK, NEW c \in Colors, SetBackgroundColor(c)
  PROVE  OptionsOK'
<1> DEFINE k == "background_color"
           p == IF opt.use_background_color THEN c ELSE painted
<1>1. window # None
  BY DEF SetBackgroundColor, Operated
<1>2. DOMAIN opt = Option /\ painted = Background(opt)
  BY <1>1, RunningStore DEF OptionsOK
<1>3. k \in Option \ Fontlike /\ "use_background_color" \in Option /\ k # "viewer_size"
  BY OptionIs DEF Fontlike
<1>4. c # None
  BY NoneIs
<1>5. Fits(k, c)
  BY <1>4 DEF Fits, Storable, Sync
<1>6. Set(opt, k, c)[k] = c
      /\ Set(opt, k, c)["use_background_color"] = opt["use_background_color"]
  BY <1>2, <1>3, SetIs
<1>7. p = Background(Set(opt, k, c))
  BY <1>2, <1>6 DEF Background
<1>8. c = Widgets(Set(opt, k, c))[k]
  BY <1>3, <1>6, WidgetPlain
<1>9. Operated(Changed(Store, k, c, p), k, c)
  BY RecolorIs, StoreFields DEF SetBackgroundColor
<1> HIDE DEF k, p
<1>10. QED BY <1>3, <1>5, <1>7, <1>8, <1>9, PlainKeeps

LEMMA UseKeeps ==
  ASSUME OptionsOK, NEW on \in BOOLEAN, ToggleUseBackground(on)
  PROVE  OptionsOK'
<1> DEFINE k == "use_background_color"
           p == IF on THEN opt.background_color ELSE None
<1>1. window # None
  BY DEF ToggleUseBackground, Operated
<1>2. DOMAIN opt = Option
  BY <1>1, RunningStore DEF OptionsOK
<1>3. k \in Option \ Fontlike /\ "background_color" \in Option /\ k # "viewer_size"
  BY OptionIs DEF Fontlike
<1>4. on # None
  BY NoneIs
<1>5. Fits(k, on)
  BY <1>4 DEF Fits, Storable
<1>6. Set(opt, k, on)[k] = on
      /\ Set(opt, k, on)["background_color"] = opt["background_color"]
  BY <1>2, <1>3, SetIs
<1>7. p = Background(Set(opt, k, on))
  BY <1>6 DEF Background
<1>8. on = Widgets(Set(opt, k, on))[k]
  BY <1>3, <1>6, WidgetPlain
<1>9. Operated(Changed(Store, k, on, p), k, on)
  BY ToggleUseIs, StoreFields DEF ToggleUseBackground
<1> HIDE DEF k, p
<1>10. QED BY <1>3, <1>5, <1>7, <1>8, <1>9, PlainKeeps

LEMMA ScaleKeeps ==
  ASSUME OptionsOK, NEW i \in Sizes, MoveSizeScale(i)
  PROVE  OptionsOK'
<1> DEFINE k == "viewer_size"
           p == SizeScaleToPixels(i)
<1>1. window # None
  BY DEF MoveSizeScale, Operated
<1>2. DOMAIN opt = Option /\ painted = Background(opt)
  BY <1>1, RunningStore DEF OptionsOK
<1>3. k \in Option \ Fontlike /\ "background_color" \in Option
      /\ "use_background_color" \in Option
  BY OptionIs DEF Fontlike
<1>4. i \in 0 .. 9
  BY OptionsAssumption
<1>5. p \in Range(PixelSizeTable) /\ p \in Nat
  BY <1>4, TableIs
<1>6. Fits(k, p)
  BY <1>5, NoneIs DEF Fits, Storable, Sync
<1>7. Set(opt, k, p)[k] = p
      /\ Set(opt, k, p)["background_color"] = opt["background_color"]
      /\ Set(opt, k, p)["use_background_color"] = opt["use_background_color"]
  BY <1>2, <1>3, SetIs
<1>8. painted = Background(Set(opt, k, p))
  BY <1>2, <1>7 DEF Background
<1>9. i = Widgets(Set(opt, k, p))[k]
  BY <1>4, <1>7, WidgetSize, ScaleRoundTrip
<1>10. Operated(Changed(Store, k, p, painted), k, i)
  BY MoveIs, StoreFields DEF MoveSizeScale
<1> HIDE DEF k, p
<1>11. QED BY <1>3, <1>6, <1>8, <1>9, <1>10, PlainKeeps

\* A font of the store is changed.
LEMMA FontSound ==
  ASSUME OptionsOK, up, NEW k \in Fontlike, NEW v, v # None
  PROVE  /\ Sound(Save(Store, k, v)) /\ Save(Store, k, v).opt = Set(opt, k, v)
         /\ DOMAIN opt = Option
<1>1. Sound(Store) /\ DOMAIN opt = Option /\ painted = Background(opt)
  BY RunningStore
<1>2. k \in Option /\ k # "background_color" /\ k # "use_background_color"
      /\ "background_color" \in Option /\ "use_background_color" \in Option
  BY OptionIs DEF Fontlike
<1>3. Fits(k, v)
  BY DEF Fits, Storable, Sync, Fontlike
<1>4. Set(opt, k, v)["background_color"] = opt["background_color"]
      /\ Set(opt, k, v)["use_background_color"] = opt["use_background_color"]
  BY <1>1, <1>2, SetAt
<1>5. painted = Background(Set(opt, k, v))
  BY <1>1, <1>4 DEF Background
<1>6. Save(Store, k, v) = Changed(Store, k, v, painted)
  BY SaveIs, StoreFields
<1>7. Sound(Changed(Store, k, v, painted))
  BY <1>1, <1>2, <1>3, <1>5, StoreFields, ChangedSound
<1>8. Changed(Store, k, v, painted).opt = Set(opt, k, v)
  BY StoreFields DEF Changed
<1>9. QED BY <1>1, <1>6, <1>7, <1>8

LEMMA FontKeeps ==
  ASSUME OptionsOK, NEW k, NEW b, FontButton(k, b), NEW font \in Fonts, SetFont(k, b, font)
  PROVE  OptionsOK'
<1> DEFINE s == IF window[k] THEN Save(Store, k, font) ELSE Store
<1>1. window # None /\ Operated(s, b, font)
  BY DEF SetFont, Operated
<1>2. up /\ ShowsAll(window, opt)
  BY <1>1 DEF OptionsOK
<1>3. AFont(font) /\ font # None
  BY OptionsAssumption DEF AFont
<1>4. k \in Fontlike /\ k \in Option
  BY FontButtonIs
<1>5. /\ Sound(Save(Store, k, font)) /\ Save(Store, k, font).opt = Set(opt, k, font)
      /\ DOMAIN opt = Option
  BY <1>2, <1>3, <1>4, FontSound
<1>6. Sound(Store) /\ Store.opt = opt
  BY <1>2, RunningStore, StoreFields
<1>7. Sound(s) /\ s.opt = IF window[k] THEN Set(opt, k, font) ELSE opt
  BY <1>5, <1>6
<1> HIDE DEF s
<1>8. ShowsAll([window EXCEPT ![b] = font], s.opt)
  BY <1>2, <1>3, <1>4, <1>5, <1>7, ShowsFont
<1>9. QED BY <1>1, <1>7, <1>8, OperatedKeeps

LEMMA UseFontKeeps ==
  ASSUME OptionsOK, NEW k, NEW b, FontButton(k, b), NEW on \in BOOLEAN, ToggleFont(k, b, on)
  PROVE  OptionsOK'
<1> DEFINE font == IF on THEN window[b] ELSE ""
           s == Save(Store, k, font)
<1>1. window # None /\ Operated(s, k, on)
  BY DEF ToggleFont, Operated
<1>2. up /\ ShowsAll(window, opt)
  BY <1>1 DEF OptionsOK
<1>3. font # None
  BY <1>2, NoneIs DEF ShowsAll, AFont, FontButton
<1>4. k \in Fontlike /\ k \in Option
  BY FontButtonIs
<1>5. Sound(s) /\ s.opt = Set(opt, k, font) /\ DOMAIN opt = Option
  <2> HIDE DEF font
  <2> QED BY <1>2, <1>3, <1>4, FontSound
<1>6. ShowsAll([window EXCEPT ![k] = on], Set(opt, k, font))
  BY <1>2, <1>4, <1>5, ShowsUse
<1> HIDE DEF s
<1>7. ShowsAll([window EXCEPT ![k] = on], s.opt)
  BY <1>5, <1>6
<1>8. QED BY <1>1, <1>5, <1>7, OperatedKeeps


LEMMA ChangeKeeps ==
  ASSUME OptionsOK, ChangeOption
  PROVE  OptionsOK'
<1>1. CASE \E c \in Colors : SetBackgroundColor(c)
  BY <1>1, BackgroundKeeps
<1>2. CASE \E on \in BOOLEAN : ToggleUseBackground(on)
  BY <1>2, UseKeeps
<1>3. CASE \E i \in Sizes : MoveSizeScale(i)
  BY <1>3, ScaleKeeps
<1>4. FontButton("viewer_font", "font")
      /\ FontButton("viewer_text_overlay_font", "overlay_font")
  BY DEF FontButton
<1>5. CASE \E font \in Fonts : \/ SetFont("viewer_font", "font", font)
                               \/ SetFont("viewer_text_overlay_font", "overlay_font", font)
  BY <1>4, <1>5, FontKeeps
<1>6. CASE \E on \in BOOLEAN : \/ ToggleFont("viewer_font", "font", on)
                               \/ ToggleFont("viewer_text_overlay_font", "overlay_font", on)
  BY <1>4, <1>6, UseFontKeeps
<1>7. CASE \E on \in BOOLEAN : SaveEntry("viewer_text_overlay_enabled", on)
  <2> DEFINE k == "viewer_text_overlay_enabled"
  <2>1. PICK on \in BOOLEAN : SaveEntry(k, on)
    BY <1>7
  <2>2. Fits(k, on)
    BY NoneIs DEF Fits, Storable
  <2>3. k \in Option \ Fontlike
        /\ k \notin {"viewer_size", "background_color", "use_background_color"}
    BY OptionIs DEF Fontlike
  <2> HIDE DEF k
  <2>4. QED BY <2>1, <2>2, <2>3, EntryKeeps
<1>8. CASE \E text \in Texts : \/ SaveEntry("viewer_text_overlay_format_string", text)
                               \/ SaveEntry("viewer_text_overlay_separator", text)
  <2>1. PICK k \in {"viewer_text_overlay_format_string", "viewer_text_overlay_separator"},
             text \in Texts : SaveEntry(k, text)
    BY <1>8
  <2>2. Fits(k, text)
    BY NoneIs DEF Fits, Storable, Sync
  <2>3. k \in Option \ Fontlike
        /\ k \notin {"viewer_size", "background_color", "use_background_color"}
    BY OptionIs DEF Fontlike
  <2>4. QED BY <2>1, <2>2, <2>3, EntryKeeps
<1>9. CASE \E c \in Colors : SaveEntry("viewer_text_overlay_color", c)
  <2> DEFINE k == "viewer_text_overlay_color"
  <2>1. PICK c \in Colors : SaveEntry(k, c)
    BY <1>9
  <2>2. Fits(k, c)
    BY NoneIs DEF Fits, Storable, Sync
  <2>3. k \in Option \ Fontlike
        /\ k \notin {"viewer_size", "background_color", "use_background_color"}
    BY OptionIs DEF Fontlike
  <2> HIDE DEF k
  <2>4. QED BY <2>1, <2>2, <2>3, EntryKeeps
<1>10. CASE \E p \in Positions : SaveEntry("viewer_text_overlay_position", p)
  <2> DEFINE k == "viewer_text_overlay_position"
  <2>1. PICK p \in Positions : SaveEntry(k, p)
    BY <1>10
  <2>2. p \in 0 .. 6 /\ p # None
    <3>1. p \in 0 .. 6
      BY OptionsAssumption
    <3>2. p \in Nat
      BY <3>1
    <3>3. QED BY <3>1, <3>2, NoneIs, Zenon
  <2>3. Fits(k, p)
    BY <2>2 DEF Fits, Storable, Sync
  <2>4. k \in Option \ Fontlike
        /\ k \notin {"viewer_size", "background_color", "use_background_color"}
    BY OptionIs DEF Fontlike
  <2> HIDE DEF k
  <2>5. QED BY <2>1, <2>3, <2>4, EntryKeeps
<1>11. CASE \E on \in BOOLEAN : SaveEntry(Sync, on)
  <2>1. PICK on \in BOOLEAN : SaveEntry(Sync, on)
    BY <1>11
  <2>2. Fits(Sync, on)
    BY NoneIs DEF Fits, Storable, Sync
  <2>3. Sync \in Option \ Fontlike
        /\ Sync \notin {"viewer_size", "background_color", "use_background_color"}
    BY OptionIs DEF Fontlike, Sync
  <2>4. QED BY <2>1, <2>2, <2>3, EntryKeeps
<1>12. QED
  BY <1>1, <1>2, <1>3, <1>5, <1>6, <1>7, <1>8, <1>9, <1>10, <1>11 DEF ChangeOption

\* The window is opened.
LEMMA OpenKeeps ==
  ASSUME OptionsOK, OpenWindow
  PROVE  OptionsOK'
<1> DEFINE s == Opening(Store)
<1>1. /\ up /\ rows = None /\ Becomes(s) /\ window' = Widgets(opt)
      /\ UNCHANGED <<up, rows, writable>>
  BY DEF OpenWindow
<1>2. Sound(Store) /\ Typed(opt) /\ Store.opt = opt
  BY <1>1, RunningStore, StoreFields
<1>3. Sound(s) /\ s.opt = opt
  BY <1>2, OpeningRefreshes DEF Refreshed
<1> HIDE DEF s
<1>4. s = StoreOf(s) /\ Readable(s.file) /\ s.there \in BOOLEAN /\ s.lost \subseteq Option
  BY <1>3 DEF Sound
<1>5. Store' = s /\ opt' = opt /\ file' = s.file /\ lost' = s.lost /\ there' = s.there
  BY <1>1, <1>3, <1>4, BecomesStore DEF Becomes
<1>6. ShowsAll(window', opt')
  BY <1>1, <1>2, <1>5, ShowsNew
<1>7. Typed(opt)' /\ Readable(file)' /\ Sound(Store)' /\ ShowsAll(window, opt)'
  BY <1>2, <1>3, <1>4, <1>5, <1>6
     DEF Typed, Readable, Sound, StoreOf, Agrees, Background, ShowsAll
<1>8. QED BY <1>1, <1>4, <1>5, <1>7 DEF OptionsOK


\* The options stay as they are; the settings file may come to exist.
LEMMA StoreKept ==
  ASSUME OptionsOK, UNCHANGED <<up, opt, painted, file, lost>>, there' \in BOOLEAN,
         writable' \in BOOLEAN, window' \in {window, None}, ~ up => rows' = None
  PROVE  OptionsOK'
<1>1. Typed(opt)' /\ Readable(file)'
  BY DEF OptionsOK, Typed, Readable
<1>2. ASSUME up PROVE Sound(Store)'
  <2>1. Sound(Store)
    BY <1>2 DEF OptionsOK
  <2>2. /\ Store'.opt = Store.opt /\ Store'.painted = Store.painted
        /\ Store'.there = there' /\ Store'.file = Store.file /\ Store'.lost = Store.lost
        /\ Store' = StoreOf(Store')
    BY DEF Store, StoreOf
  <2>3. QED BY <2>1, <2>2 DEF Sound, Agrees
<1>3. window' # None => ShowsAll(window, opt)'
  BY DEF OptionsOK, ShowsAll
<1>4. QED BY <1>1, <1>2, <1>3 DEF OptionsOK

LEMMA ReadTyped ==
  ASSUME NEW f, Readable(f)
  PROVE  /\ Typed(ReadOptions(f))
         /\ \A k \in Option : ReadOption(f, k) = ReadOptions(f)[k]
<1> DEFINE o == ReadOptions(f)
<1>1. o = [k \in Option |-> o[k]] /\ \A k \in Option : o[k] = ReadOption(f, k)
  BY DEF ReadOptions
<1> HIDE DEF o
<1>2. ASSUME NEW k \in Option PROVE Storable(k, o[k])
  <2> DEFINE v == IF f[k] = None THEN Default[k] ELSE f[k]
  <2>1. Storable(k, v)
    BY DefaultTyped DEF Readable, Typed
  <2>2. CASE k = "viewer_text_overlay_position"
    <3>1. o[k] \in 0 .. 6
      BY <1>1, <2>2 DEF ReadOption, Position
    <3>2. o[k] \in Nat
      BY <3>1
    <3>3. o[k] # None
      BY <3>2, NoneIs, Zenon
    <3>4. QED BY <2>2, <3>3 DEF Storable, Sync
  <2>3. CASE k # "viewer_text_overlay_position"
    <3>1. o[k] = v
      BY <1>1, <2>3 DEF ReadOption
    <3>2. QED BY <2>1, <3>1
  <2>4. QED BY <2>2, <2>3
<1>3. o["viewer_text_overlay_position"] \in 0 .. 6
  <2>1. "viewer_text_overlay_position" \in Option
    BY OptionIs
  <2>2. QED BY <1>1, <2>1 DEF ReadOption, Position
<1>4. Typed(o)
  BY <1>1, <1>2, <1>3 DEF Typed
<1>5. QED BY <1>1, <1>4 DEF o

\* The constructor.
LEMMA StartKeeps ==
  ASSUME OptionsOK, Start
  PROVE  OptionsOK'
<1>1. /\ ~ up /\ up' = TRUE /\ opt' = ReadOptions(file)
      /\ painted' = Background(opt') /\ there' = (there \/ writable)
      /\ UNCHANGED <<window, rows, file, writable, lost>>
  BY DEF Start, Background
<1>2. Readable(file) /\ window = None /\ writable \in BOOLEAN /\ there \in BOOLEAN
      /\ lost \subseteq Option
  BY <1>1 DEF OptionsOK
<1>3. Typed(opt') /\ \A k \in Option : ReadOption(file, k) = opt'[k]
  BY <1>1, <1>2, ReadTyped
<1>4. /\ Store'.opt = opt' /\ Store'.painted = painted' /\ Store'.there = there'
      /\ Store'.file = file' /\ Store'.lost = lost' /\ Store' = StoreOf(Store')
  BY DEF Store, StoreOf
<1>5. Sound(Store')
  BY <1>1, <1>2, <1>3, <1>4 DEF Sound, Agrees
<1>6. Sound(Store)' /\ Typed(opt)' /\ Readable(file)'
  BY <1>1, <1>2, <1>3, <1>5 DEF Sound, Typed, Readable, StoreOf, Agrees, Background
<1>7. QED BY <1>1, <1>2, <1>6 DEF OptionsOK

LEMMA StopKeeps ==
  ASSUME OptionsOK, Stop
  PROVE  OptionsOK'
<1>1. /\ up' = FALSE /\ opt' = Default /\ window' = None /\ rows' = None /\ lost' = {}
      /\ UNCHANGED <<there, file, writable>>
  BY DEF Stop, Stopped
<1>2. Typed(opt)' /\ Readable(file)'
  BY <1>1, DefaultTyped DEF OptionsOK, Typed, Readable
<1>3. QED BY <1>1, <1>2 DEF OptionsOK

\* A new view is painted as the old one was.
LEMMA SwitchKeeps ==
  ASSUME OptionsOK, SwitchView
  PROVE  OptionsOK'
<1>1. /\ up /\ UNCHANGED <<up, opt, window, rows, there, file, writable, lost>>
      /\ painted' = ListenColor([Store EXCEPT !.painted = None], opt.background_color).painted
  BY DEF SwitchView
<1>2. painted = Background(opt)
  BY <1>1, RunningStore
<1>3. painted' = IF opt.use_background_color THEN opt.background_color ELSE None
  BY <1>1 DEF ListenColor, Store
<1>4. painted' = painted
  BY <1>2, <1>3 DEF Background
<1>5. QED BY <1>1, <1>4, StoreKept DEF OptionsOK

\* The steps about interface names, and those that close a window or change nothing else.
LEMMA NamesKeepOptions ==
  ASSUME OptionsOK,
         \/ CloseWindow \/ Measure \/ OpenChooser \/ CloseChooser \/ RestoreNames \/ Toggle
         \/ \E t \in Types, n \in Names : EditName(t, n)
         \/ UNCHANGED vars
  PROVE  OptionsOK'
<1>1. /\ up \in BOOLEAN /\ there \in BOOLEAN /\ writable \in BOOLEAN
      /\ (~ up => window = None /\ rows = None)
  BY DEF OptionsOK
<1>2. CASE CloseWindow \/ CloseChooser \/ Measure
  BY <1>1, <1>2, StoreKept DEF CloseWindow, CloseChooser, Measure
<1>3. CASE OpenChooser
  BY <1>1, <1>3, StoreKept DEF OpenChooser
<1>4. CASE RestoreNames \/ \E t \in Types, n \in Names : EditName(t, n)
  BY <1>1, <1>4, StoreKept DEF RestoreNames, EditName, Renamed
<1>5. CASE Toggle
  BY <1>1, <1>5, StoreKept DEF Toggle, process
<1>6. CASE UNCHANGED vars
  BY <1>1, <1>6, StoreKept DEF vars, process
<1>7. QED BY <1>2, <1>3, <1>4, <1>5, <1>6

--------------------------------------------------------------------------
(* The interface names. *)

\* What configure_interface_names leaves, whether or not it could read and save.
LEMMA ConfigureIs ==
  ASSUME NamesOK
  PROVE  /\ DOMAIN Configure.names = Types /\ DOMAIN Configure.stored = Types
         /\ (configured \in BOOLEAN /\ writable \in BOOLEAN => Configure.configured \in BOOLEAN)
         /\ Configure.missed \in BOOLEAN
         /\ ~ Configure.missed =>
              /\ ~ missed /\ Configure.configured
              /\ Configure.stored = Configure.names
              /\ \A t \in Types : Configure.names[t] # ""
              /\ configured => Configure.names = names
<1> DEFINE blank == {t \in Types : stored[t] = None}
           read == [t \in Types |-> IF t \in blank THEN DefaultName[t] ELSE stored[t]]
           done == blank = {} \/ writable
<1>1. CASE configured \/ ~ there
  <2>1. Configure = [names |-> names, configured |-> configured, stored |-> stored,
                     missed |-> missed \/ ~ configured]
    BY <1>1 DEF Configure
  <2>2. QED BY <2>1 DEF NamesOK
<1>2. CASE ~ (configured \/ ~ there)
  <2>1. Configure = [names |-> read, configured |-> done,
                     stored |-> IF done THEN read ELSE stored, missed |-> missed \/ ~ done]
    BY <1>2 DEF Configure
  <2>2. ~ missed => \A t \in Types : read[t] # ""
    BY OptionsAssumption DEF NamesOK
  <2>3. DOMAIN read = Types /\ done \in BOOLEAN
    OBVIOUS
  <2> HIDE DEF read, done
  <2>4. QED BY <1>2, <2>1, <2>2, <2>3 DEF NamesOK
<1>3. QED BY <1>1, <1>2

\* A monitor measures or the chooser window is opened.
LEMMA SettleKeeps ==
  ASSUME NamesOK, writable \in BOOLEAN, Settle(Configure), rows' \in {rows, names'}
  PROVE  NamesOK'
<1>1. /\ names' = Configure.names /\ configured' = Configure.configured
      /\ stored' = Configure.stored /\ missed' = Configure.missed
  BY DEF Settle
<1>2. /\ configured \in BOOLEAN
      /\ rows = None \/ DOMAIN rows = Types
      /\ ~ missed /\ rows # None => configured /\ rows = names
  BY DEF NamesOK
<1>3. /\ DOMAIN names' = Types /\ DOMAIN stored' = Types
      /\ configured' \in BOOLEAN /\ missed' \in BOOLEAN
      /\ ~ missed' => /\ ~ missed /\ configured' /\ stored' = names'
                      /\ \A t \in Types : names'[t] # ""
                      /\ configured => names' = names
  BY <1>1, <1>2, ConfigureIs
<1>4. rows' = None \/ DOMAIN rows' = Types
  BY <1>2, <1>3
<1>5. ~ missed' /\ rows' # None => configured' /\ rows' = names'
  BY <1>2, <1>3
<1>6. ~ missed' => \A t \in Types : stored'[t] # ""
  BY <1>3
<1>7. QED BY <1>3, <1>4, <1>5, <1>6 DEF NamesOK

\* The user renames an interface, or restores all names.
LEMMA RenameKeeps ==
  ASSUME NamesOK, writable \in BOOLEAN, configured' = configured, rows # None,
         NEW new, Renamed(new), DOMAIN new = Types, DOMAIN rows' = Types,
         ~ missed /\ writable => rows' = new /\ \A t \in Types : new[t] # ""
  PROVE  NamesOK'
<1>1. /\ names' = new /\ stored' = IF writable THEN new ELSE stored
      /\ missed' = (missed \/ ~ writable)
  BY DEF Renamed
<1>2. ~ missed' => ~ missed /\ writable
  BY <1>1
<1>3. ~ missed' => configured
  BY <1>2 DEF NamesOK
<1>4. configured' \in BOOLEAN /\ missed' \in BOOLEAN /\ DOMAIN stored' = Types
  BY <1>1 DEF NamesOK
<1>5. QED BY <1>1, <1>2, <1>3, <1>4 DEF NamesOK

LEMMA EditKeeps ==
  ASSUME NamesOK, writable \in BOOLEAN, NEW t \in Types, NEW n \in Names, EditName(t, n)
  PROVE  NamesOK'
<1> DEFINE new == [names EXCEPT ![t] = n]
<1>1. /\ rows # None /\ rows' = [rows EXCEPT ![t] = n] /\ Renamed(new)
      /\ configured' = configured
  BY DEF EditName
<1>2. DOMAIN names = Types /\ DOMAIN rows = Types
  BY <1>1 DEF NamesOK
<1>3. ~ missed => rows = names /\ \A j \in Types : names[j] # ""
  BY <1>1 DEF NamesOK
<1>4. n # ""
  BY OptionsAssumption
<1>5. DOMAIN new = Types /\ \A j \in Types : new[j] = IF j = t THEN n ELSE names[j]
  BY <1>2
<1>6. DOMAIN rows' = Types
  BY <1>1, <1>2
<1>7. ~ missed => rows' = new
  BY <1>1, <1>3
<1>8. ~ missed => \A j \in Types : new[j] # ""
  BY <1>3, <1>4, <1>5
<1> HIDE DEF new
<1>9. QED BY <1>1, <1>5, <1>6, <1>7, <1>8, RenameKeeps

LEMMA RestoreKeeps ==
  ASSUME NamesOK, writable \in BOOLEAN, RestoreNames
  PROVE  NamesOK'
<1> DEFINE new == IF writable THEN DefaultName ELSE names
<1>1. rows # None /\ rows' = DefaultName /\ Renamed(new) /\ configured' = configured
  BY DEF RestoreNames
<1>2. DOMAIN new = Types /\ DOMAIN rows' = Types
  BY <1>1, OptionsAssumption DEF NamesOK
<1>3. writable => rows' = new /\ \A t \in Types : new[t] # ""
  BY <1>1, OptionsAssumption
<1> HIDE DEF new
<1>4. QED BY <1>1, <1>2, <1>3, RenameKeeps

LEMMA StopNames ==
  ASSUME NamesOK, Stop
  PROVE  NamesOK'
<1>1. /\ names' = NoNames /\ configured' = FALSE /\ rows' = None
      /\ UNCHANGED <<stored, missed>>
  BY DEF Stop, Stopped
<1>2. DOMAIN NoNames = Types
  BY DEF NoNames
<1>3. QED BY <1>1, <1>2 DEF NamesOK

LEMMA NamesUnchanged ==
  ASSUME NamesOK, UNCHANGED <<names, configured, stored, missed>>, rows' \in {rows, None}
  PROVE  NamesOK'
BY DEF NamesOK

--------------------------------------------------------------------------
(* The invariant. *)

LEMMA InitIInv == ASSUME Init PROVE IInv
<1>1. PICK f \in Stored :
        /\ file = [k \in Entries |-> IF k \in DOMAIN f THEN f[k] ELSE None]
        /\ there = (f # <<>>)
  BY DEF Init
<1>2. /\ up = FALSE /\ opt = Default /\ window = None /\ rows = None
      /\ names = NoNames /\ configured = FALSE
      /\ stored = [t \in Types |-> None] /\ writable \in {TRUE, ~ WritesFail}
      /\ lost = {} /\ missed = FALSE
  BY DEF Init
<1>3. \A k \in DOMAIN f \cap Option : Storable(k, f[k])
  BY OptionsAssumption
<1>4. Readable(file)
  <2>1. DOMAIN file = Entries
    BY <1>1
  <2>2. \A k \in Option : file[k] = None \/ Storable(k, file[k])
    BY <1>1, <1>3, WrittenIs
  <2>3. QED BY <2>1, <2>2 DEF Readable
<1>5. there \in BOOLEAN /\ writable \in BOOLEAN
  BY <1>1, <1>2, OptionsAssumption
<1>6. OptionsOK
  BY <1>2, <1>4, <1>5, DefaultTyped DEF OptionsOK
<1>7. \A t \in Types : stored[t] # ""
  BY <1>2, NoneIs
<1>8. NamesOK
  BY <1>2, <1>7 DEF NamesOK, NoNames
<1>9. QED BY <1>6, <1>8 DEF IInv

LEMMA StepOptions == ASSUME OptionsOK, [Next]_vars PROVE OptionsOK'
<1>1. CASE Start BY <1>1, StartKeeps
<1>2. CASE Stop BY <1>2, StopKeeps
<1>3. CASE SwitchView BY <1>3, SwitchKeeps
<1>4. CASE OpenWindow BY <1>4, OpenKeeps
<1>5. CASE ChangeOption BY <1>5, ChangeKeeps
<1>6. CASE \/ CloseWindow \/ Measure \/ OpenChooser \/ CloseChooser \/ RestoreNames \/ Toggle
           \/ \E t \in Types, n \in Names : EditName(t, n)
           \/ UNCHANGED vars
  BY <1>6, NamesKeepOptions
<1>7. QED BY <1>1, <1>2, <1>3, <1>4, <1>5, <1>6 DEF Next

\* The handlers of the options leave the names alone.
LEMMA ChangeIsOfOptions ==
  ASSUME ChangeOption
  PROVE  UNCHANGED <<names, configured, rows, stored, missed>>
<1>1. ASSUME NEW s, NEW widget, NEW w, Operated(s, widget, w)
      PROVE  UNCHANGED <<names, configured, rows, stored, missed>>
  BY <1>1 DEF Operated
<1>2. QED
  BY <1>1 DEF ChangeOption, SetBackgroundColor, ToggleUseBackground, MoveSizeScale, SetFont,
              ToggleFont, SaveEntry

LEMMA StepNames == ASSUME NamesOK, writable \in BOOLEAN, [Next]_vars PROVE NamesOK'
<1>1. CASE Start \/ SwitchView \/ OpenWindow \/ CloseWindow
  BY <1>1, NamesUnchanged DEF Start, SwitchView, OpenWindow, CloseWindow
<1>2. CASE Stop BY <1>2, StopNames
<1>3. CASE ChangeOption BY <1>3, ChangeIsOfOptions, NamesUnchanged
<1>4. CASE Measure BY <1>4, SettleKeeps DEF Measure
<1>5. CASE OpenChooser BY <1>5, SettleKeeps DEF OpenChooser
<1>6. CASE CloseChooser BY <1>6, NamesUnchanged DEF CloseChooser
<1>7. CASE RestoreNames BY <1>7, RestoreKeeps
<1>8. CASE \E t \in Types, n \in Names : EditName(t, n) BY <1>8, EditKeeps
<1>9. CASE Toggle \/ UNCHANGED vars
  BY <1>9, NamesUnchanged DEF Toggle, process, vars
<1>10. QED
  BY <1>1, <1>2, <1>3, <1>4, <1>5, <1>6, <1>7, <1>8, <1>9 DEF Next

LEMMA StepIInv == ASSUME IInv, [Next]_vars PROVE IInv'
<1>1. OptionsOK /\ NamesOK /\ writable \in BOOLEAN
  BY DEF IInv, OptionsOK
<1>2. QED BY <1>1, StepOptions, StepNames DEF IInv

LEMMA Always == Spec => []IInv
<1>1. Init => IInv
  BY InitIInv
<1>2. IInv /\ [Next]_vars => IInv'
  BY StepIInv
<1>3. QED BY <1>1, <1>2, PTL DEF Spec
--------------------------------------------------------------------------
\* Options, entries, widgets and names keep their domains, the size is one of the scale's
\* and the position one of the overlay's, whatever the settings file was found to hold.
THEOREM TypesKept == Spec => []TypeOK
<1>1. IInv => TypeOK
  <2> SUFFICES ASSUME IInv PROVE TypeOK
    OBVIOUS
  <2>1. /\ up \in BOOLEAN /\ writable \in BOOLEAN /\ there \in BOOLEAN /\ lost \subseteq Option
        /\ Readable(file) /\ Typed(opt)
        /\ window # None => DOMAIN window = DOMAIN Widgets(opt)
    BY DEF IInv, OptionsOK, ShowsAll
  <2>2. DOMAIN opt = Option /\ DOMAIN file = Entries
        /\ opt.viewer_text_overlay_position \in 0 .. 6
    BY <2>1 DEF Typed, Readable
  <2>3. opt["viewer_size"] \in Range(PixelSizeTable)
    BY <2>1, OptionIs DEF Typed, Storable
  <2>4. QED BY <2>1, <2>2, <2>3 DEF TypeOK, IInv, NamesOK
<1>2. QED BY <1>1, Always, PTL

\* A plugin started again has the options this one has, but for those whose last change
\* could not be written: for every way the handlers of the preferences window call one
\* another, the entries they save are the ones the constructor reads, save for the
\* sharing of scales.
THEOREM OptionsAreSaved == Spec => []InStep
<1>1. IInv => InStep
  BY StoreFields DEF IInv, OptionsOK, Sound, Agrees, InStep
<1>2. QED BY <1>1, Always, PTL

\* The background of the view is the user's choice after any of the listeners, a new
\* window or a new view.
THEOREM BackgroundIsChosen == Spec => []PaintedAsChosen
<1>1. IInv => PaintedAsChosen
  BY StoreFields DEF IInv, OptionsOK, Sound, Background, PaintedAsChosen
<1>2. QED BY <1>1, Always, PTL

\* The preferences window shows the options in use, and a font button in use the font.
THEOREM WindowShowsOptions == Spec => []WindowShows
<1>1. IInv => WindowShows
  BY DEF IInv, OptionsOK, ShowsAll, Shows, WindowShows
<1>2. QED BY <1>1, Always, PTL

\* Unless an interface name could not be read or written, those in use, those of the
\* file and those the chooser window shows are the same.
THEOREM NamesAgree == Spec => []NamesInStep
<1>1. IInv => NamesInStep
  BY DEF IInv, NamesOK, NamesInStep
<1>2. QED BY <1>1, Always, PTL

\* Opening the preferences window, which sets its widgets and so runs the handlers that
\* save options, changes no option and nothing that would be read again.
THEOREM OpeningIsSilent == Spec => OpenIsSilent
<1> DEFINE Silent == window = None /\ window' # None =>
                       /\ opt' = opt
                       /\ \A k \in Option \ lost : ReadOption(file', k) = ReadOption(file, k)
<1>1. IInv /\ [Next]_vars => [Silent]_vars
  <2> SUFFICES ASSUME IInv, Next, window = None, window' # None PROVE Silent
    OBVIOUS
  <2>1. OpenWindow
    BY DEF Next, Start, Stop, Stopped, SwitchView, CloseWindow, ChangeOption, Measure,
           OpenChooser, CloseChooser, RestoreNames, Toggle, process, EditName
  <2>2. up /\ Becomes(Opening(Store)) /\ OptionsOK
    BY <2>1 DEF OpenWindow, IInv
  <2>3. Sound(Store) /\ Refreshed(Store, Opening(Store))
    BY <2>2, RunningStore, OpeningRefreshes
  <2>4. opt' = Opening(Store).opt /\ file' = Opening(Store).file
    BY <2>2 DEF Becomes
  <2>5. opt' = opt
    BY <2>3, <2>4, StoreFields DEF Refreshed
  <2>6. ASSUME NEW k \in Option \ lost PROVE ReadOption(file', k) = ReadOption(file, k)
    <3>1. \/ ReadOption(file', k) = ReadOption(file, k)
          \/ k # Sync /\ ReadOption(file', k) = opt[k]
      BY <2>3, <2>4, StoreFields DEF Refreshed
    <3>2. k # Sync => ReadOption(file, k) = opt[k]
      BY <2>3, <2>6, StoreFields DEF Sound, Agrees
    <3>3. QED BY <3>1, <3>2
  <2>7. QED BY <2>5, <2>6
<1>2. QED BY <1>1, Always, PTL DEF Spec, OpenIsSilent
==========================================================================
