------------------------------ MODULE Options ------------------------------
(***************************************************************************)
(* What the plugin keeps in the default group of its settings file beside  *)
(* the viewer type: the options of the view, which the preferences window  *)
(* shows and changes, and the interface names of the network monitors,     *)
(* which the chooser window's advanced list shows and changes.             *)
(*                                                                         *)
(* The window has no state of its own in the code but its widgets, and a   *)
(* widget that is set by the program calls the same handler as one set by  *)
(* the user: opening the window saves options.                             *)
(***************************************************************************)
EXTENDS Naturals, Sequences, Functions

CONSTANTS
  Fonts, Colors, Texts, Sizes, Positions,  \* what the user sets the widgets to
  InitialFont,    \* what a font button shows that was not set
  Types,          \* interface types
  DefaultName,    \* their default names
  Names,          \* the names the user gives
  Stored,         \* what the default groups of earlier plugins hold
  WritesFail,     \* whether the settings directory can become read-only
  MaxChanges,     \* bound: how often the user changes something
  None

PixelSizeTable == <<32, 48, 64, 96, 128, 192, 256, 384, 512, 1024>>
\* The size the scale stands for, and its position nearest to a size.
SizeScaleToPixels(i) == PixelSizeTable[i + 1]
Distance(i, pixels) ==
  LET p == SizeScaleToPixels(i) IN IF p > pixels THEN p - pixels ELSE pixels - p
PixelsToSizeScale(pixels) ==
  CHOOSE i \in 0 .. 9 :
    \A j \in 0 .. 9 : \/ Distance(i, pixels) < Distance(j, pixels)
                      \/ Distance(i, pixels) = Distance(j, pixels) /\ i <= j

\* The constructor's defaults, by the name of the entry that is read.
Default ==
  [viewer_size |-> 96, viewer_font |-> "", background_color |-> "black",
   use_background_color |-> FALSE, viewer_text_overlay_enabled |-> FALSE,
   viewer_text_overlay_format_string |-> "%a %m", viewer_text_overlay_separator |-> " ",
   viewer_text_overlay_font |-> "", viewer_text_overlay_color |-> "black",
   viewer_text_overlay_position |-> 0, viewer_monitor_type_sync_enabled |-> TRUE]
Option == DOMAIN Default
Sync == "viewer_monitor_type_sync_enabled"
\* The entry that a change of an option is written to.
Written(k) == IF k = Sync THEN "monitor_type_sync_enabled" ELSE k
Entries == Option \cup {Written(Sync)}

\* What a plugin saves under an option's name, or its default.
Storable(k, v) ==
  /\ v # None
  /\ k = "viewer_size" => v \in Range(PixelSizeTable)
  /\ k \in {"use_background_color", "viewer_text_overlay_enabled", Sync} => v \in BOOLEAN

ASSUME OptionsAssumption ==
  /\ Sizes \subseteq 0 .. 9 /\ Positions \subseteq 0 .. 6
  /\ "" \notin Fonts /\ InitialFont # "" /\ "" \notin Names
  /\ DOMAIN DefaultName = Types /\ \A t \in Types : DefaultName[t] # ""
  /\ None \notin Nat \cup BOOLEAN /\ \A k \in Option : None # Default[k]
  /\ None \notin Fonts \cup Colors \cup Texts \cup {InitialFont}
  /\ \A f \in Stored : \A k \in DOMAIN f \cap Option : Storable(k, f[k])
  /\ WritesFail \in BOOLEAN /\ MaxChanges \in Nat

VARIABLES
  up,           \* the plugin runs
  opt,          \* its options
  painted,      \* the background colour of its view, None if the panel's
  window,       \* the widgets of the preferences window, None when it is not open
  names,        \* interface_type_names
  configured,   \* interface_names_configured
  rows,         \* the names the chooser window shows, None when it is not open
  there, file, stored,  \* is there a settings file, its entries and interface names
  writable,     \* xfce_panel_plugin_save_location finds a place to write to
  lost,         \* the options whose last change was not written (observed)
  missed,       \* interface names could not be read or written (observed)
  changes       \* how often the user changed something

process == <<up, opt, painted, window, names, configured, rows>>
vars == <<process, there, file, stored, writable, lost, missed, changes>>

(* Mutant: an unknown position is kept. *)
MutPosition(p) == p

\* set_viewer_text_overlay_position takes top_left for a position there is not.
Position(p) == IF p \in 0 .. 6 THEN p ELSE 0
\* What the constructor reads an option to be.
ReadOption(f, k) ==
  LET v == IF f[k] = None THEN Default[k] ELSE f[k]
  IN  IF k = "viewer_text_overlay_position" THEN Position(v) ELSE v
ReadOptions(f) == [k \in Option |-> ReadOption(f, k)]
--------------------------------------------------------------------------
(* A handler threads the options, the background, the file and what it skipped. *)
Store == [opt |-> opt, painted |-> painted, there |-> there, file |-> file, lost |-> lost]

Write(s, k, v) ==
  IF writable THEN [s EXCEPT !.there = TRUE, !.file[Written(k)] = v, !.lost = @ \ {k}]
  ELSE [s EXCEPT !.lost = @ \cup {k}]

(* Mutant: an option is saved and not set. *)
MutSave(s, k, v) == Write(s, k, v)

Save(s, k, v) == Write([s EXCEPT !.opt[k] = v], k, v)

(* Mutant: the colour is painted whether or not it is used. *)
MutListenColor(s, c) == [s EXCEPT !.painted = c, !.opt.background_color = c]

\* background_color_listener and use_background_color_listener of the plugin.
ListenColor(s, c) ==
  [s EXCEPT !.painted = IF s.opt.use_background_color THEN c ELSE @,
            !.opt.background_color = c]
ListenUse(s, on) ==
  [s EXCEPT !.painted = IF on THEN s.opt.background_color ELSE None,
            !.opt.use_background_color = on]

\* on_background_color_radiobutton_toggled
ToggleUse(s, on) == Write(ListenUse(s, on), "use_background_color", on)

\* size_listener, given what the scale shows: moving the scale calls its handler, which
\* saves the size it now stands for.
ListenSize(s, scale, size) ==
  LET i == PixelsToSizeScale(size)
      moved == IF SizeScaleToPixels(scale) # size /\ i # scale
               THEN Save(s, "viewer_size", SizeScaleToPixels(i)) ELSE s
  IN  [moved EXCEPT !.opt.viewer_size = size]

(* Mutant: the check button is set before the font button. *)
MutListenFont(s, k, font) == IF font = "" THEN s ELSE Save(s, k, InitialFont)

\* font_listener in a new window: setting the check button calls its handler, which
\* saves the font that the font button was set to before.
ListenFont(s, k, font) == IF font = "" THEN s ELSE Save(s, k, font)

\* The widgets show the options.  A font button that is not used shows any font.
Widgets(o) ==
  [background_color |-> o.background_color, use_background_color |-> o.use_background_color,
   viewer_size |-> PixelsToSizeScale(o.viewer_size),
   viewer_font |-> o.viewer_font # "",
   font |-> IF o.viewer_font = "" THEN InitialFont ELSE o.viewer_font,
   viewer_text_overlay_enabled |-> o.viewer_text_overlay_enabled,
   viewer_text_overlay_format_string |-> o.viewer_text_overlay_format_string,
   viewer_text_overlay_separator |-> o.viewer_text_overlay_separator,
   viewer_text_overlay_font |-> o.viewer_text_overlay_font # "",
   overlay_font |-> IF o.viewer_text_overlay_font = "" THEN InitialFont
                    ELSE o.viewer_text_overlay_font,
   viewer_text_overlay_color |-> o.viewer_text_overlay_color,
   viewer_text_overlay_position |-> o.viewer_text_overlay_position,
   viewer_monitor_type_sync_enabled |-> o.viewer_monitor_type_sync_enabled]

\* PreferencesWindow's constructor: a widget whose value it changes calls its handler.
\* In a new window the panel's background is selected, the size is the smallest, the
\* check buttons are off but that of the shared scales.
Opening(s0) ==
  LET o  == s0.opt
      s1 == ListenColor(s0, o.background_color)
      s2 == IF o.use_background_color THEN ToggleUse(s1, TRUE) ELSE s1
      s3 == ListenSize(ListenUse(s2, o.use_background_color), 0, o.viewer_size)
      s4 == ListenFont(s3, "viewer_font", o.viewer_font)
      s5 == IF o.viewer_text_overlay_enabled
            THEN Save(s4, "viewer_text_overlay_enabled", TRUE) ELSE s4
      s6 == ListenFont(s5, "viewer_text_overlay_font", o.viewer_text_overlay_font)
      s7 == Save(s6, "viewer_text_overlay_position", o.viewer_text_overlay_position)
      s8 == IF o[Sync] THEN s7 ELSE Save(s7, Sync, FALSE)
  IN  ToggleUse(s8, o.use_background_color)
--------------------------------------------------------------------------
(* The interface names. *)

\* configure_interface_names, given the names in memory: what they become, whether
\* that is settled, and what is written.  A name without an entry takes its default,
\* which is then saved; when it cannot be saved, the names are read again next time.
Configure ==
  LET blank == {t \in Types : stored[t] = None}
      read  == [t \in Types |-> IF t \in blank THEN DefaultName[t] ELSE stored[t]]
      done  == blank = {} \/ writable
  IN  IF configured \/ ~ there
      THEN [names |-> names, configured |-> configured, stored |-> stored,
            missed |-> missed \/ ~ configured]
      ELSE [names |-> read, configured |-> done,
            stored |-> IF done THEN read ELSE stored, missed |-> missed \/ ~ done]

Settle(r) ==
  /\ names' = r.names /\ configured' = r.configured
  /\ stored' = r.stored /\ missed' = r.missed

\* set_interface_name and save_interfaces, when there is a place to save to.
Renamed(new) ==
  /\ names' = new
  /\ stored' = IF writable THEN new ELSE stored
  /\ there' = (there \/ writable)
  /\ missed' = (missed \/ ~ writable)
--------------------------------------------------------------------------
Becomes(s) ==
  /\ opt' = s.opt /\ painted' = s.painted
  /\ there' = s.there /\ file' = s.file /\ lost' = s.lost

NoNames == [t \in Types |-> ""]
Stopped ==
  /\ up' = FALSE /\ opt' = Default /\ painted' = None /\ window' = None
  /\ names' = NoNames /\ configured' = FALSE /\ rows' = None /\ lost' = {}

Init ==
  /\ up = FALSE /\ opt = Default /\ painted = None /\ window = None
  /\ names = NoNames /\ configured = FALSE /\ rows = None
  /\ \E f \in Stored :
       /\ file = [k \in Entries |-> IF k \in DOMAIN f THEN f[k] ELSE None]
       /\ there = (f # <<>>)
  /\ stored = [t \in Types |-> None]
  /\ writable \in {TRUE, ~ WritesFail} /\ lost = {} /\ missed = FALSE /\ changes = 0

\* The constructor reads the options and makes a view, which is painted if the colour is
\* used; the first monitor it adds creates the file.
Start ==
  /\ ~ up /\ up' = TRUE
  /\ LET o == ReadOptions(file)
     IN  /\ opt' = o
         /\ painted' = IF o.use_background_color THEN o.background_color ELSE None
  /\ there' = (there \/ writable)
  /\ UNCHANGED <<window, names, configured, rows, file, stored, writable, lost, missed, changes>>

\* Quit or killed: each handler below writes an option's entry at most once.
Stop ==
  /\ up /\ Stopped
  /\ UNCHANGED <<there, file, stored, writable, missed, changes>>

\* set_view: the new view has no background until the plugin sets it.
SwitchView ==
  /\ up
  /\ painted' = ListenColor([Store EXCEPT !.painted = None], opt.background_color).painted
  /\ UNCHANGED <<up, opt, window, names, configured, rows, there, file, stored, writable,
                 lost, missed, changes>>

\* The window is made anew each time the panel asks for it.
OpenWindow ==
  /\ up /\ rows = None
  /\ Becomes(Opening(Store)) /\ window' = Widgets(opt)
  /\ UNCHANGED <<up, names, configured, rows, stored, writable, missed, changes>>

CloseWindow ==
  /\ window # None /\ rows = None /\ window' = None
  /\ UNCHANGED <<up, opt, painted, names, configured, rows, there, file, stored, writable,
                 lost, missed, changes>>

\* The user operates a widget: it shows w, and its handler does s to the store.
Operated(s, widget, w) ==
  /\ window # None /\ rows = None /\ window[widget] # w /\ changes < MaxChanges
  /\ window' = [window EXCEPT ![widget] = w]
  /\ Becomes(s)
  /\ changes' = changes + 1
  /\ UNCHANGED <<up, names, configured, rows, stored, writable, missed>>

SetBackgroundColor(c) ==
  Operated(ListenColor(Write(Store, "background_color", c), c), "background_color", c)

ToggleUseBackground(on) ==
  Operated(ToggleUse(Store, on), "use_background_color", on)

MoveSizeScale(i) ==
  Operated(ListenSize(Save(Store, "viewer_size", SizeScaleToPixels(i)), i,
                      SizeScaleToPixels(i)), "viewer_size", i)

(* Mutant: a font that is not used is saved as well. *)
MutSetFont(k, button, font) == Operated(Save(Store, k, font), button, font)

\* The font buttons: of the text view and of the text overlay.
SetFont(k, button, font) ==
  Operated(IF window[k] THEN Save(Store, k, font) ELSE Store, button, font)
ToggleFont(k, button, on) ==
  Operated(Save(Store, k, IF on THEN window[button] ELSE ""), k, on)

SaveEntry(k, v) == Operated(Save(Store, k, v), k, v)

ChangeOption ==
  /\ window # None
  /\ \/ \E c \in Colors : SetBackgroundColor(c)
     \/ \E on \in BOOLEAN : ToggleUseBackground(on)
     \/ \E i \in Sizes : MoveSizeScale(i)
     \/ \E font \in Fonts : \/ SetFont("viewer_font", "font", font)
                            \/ SetFont("viewer_text_overlay_font", "overlay_font", font)
     \/ \E on \in BOOLEAN : \/ ToggleFont("viewer_font", "font", on)
                            \/ ToggleFont("viewer_text_overlay_font", "overlay_font", on)
     \/ \E on \in BOOLEAN : SaveEntry("viewer_text_overlay_enabled", on)
     \/ \E text \in Texts : \/ SaveEntry("viewer_text_overlay_format_string", text)
                            \/ SaveEntry("viewer_text_overlay_separator", text)
     \/ \E c \in Colors : SaveEntry("viewer_text_overlay_color", c)
     \/ \E p \in Positions : SaveEntry("viewer_text_overlay_position", p)
     \/ \E on \in BOOLEAN : SaveEntry(Sync, on)

\* A network monitor measures, or the chooser window is opened.
Measure ==
  /\ up /\ Settle(Configure)
  /\ UNCHANGED <<up, opt, painted, window, rows, there, file, writable, lost, changes>>

OpenChooser ==
  /\ window # None /\ rows = None
  /\ Settle(Configure) /\ rows' = names'
  /\ UNCHANGED <<up, opt, painted, window, there, file, writable, lost, changes>>

CloseChooser ==
  /\ rows # None /\ rows' = None
  /\ UNCHANGED <<up, opt, painted, window, names, configured, there, file, stored, writable,
                 lost, missed, changes>>

\* on_network_interface_name_edited, if the user confirms a name that no interface has.
EditName(t, n) ==
  /\ rows # None /\ changes < MaxChanges
  /\ rows' = [rows EXCEPT ![t] = n]
  /\ Renamed([names EXCEPT ![t] = n])
  /\ changes' = changes + 1
  /\ UNCHANGED <<up, opt, painted, window, configured, file, writable, lost>>

(* Mutant: the names in use are not restored. *)
MutRestoreNames ==
  /\ rows # None /\ changes < MaxChanges
  /\ rows' = DefaultName
  /\ Renamed(names)
  /\ changes' = changes + 1
  /\ UNCHANGED <<up, opt, painted, window, configured, file, writable, lost>>

\* ..._restore_defaults_button_clicked: the list is reset even if the names are not.
RestoreNames ==
  /\ rows # None /\ changes < MaxChanges
  /\ rows' = DefaultName
  /\ Renamed(IF writable THEN DefaultName ELSE names)
  /\ changes' = changes + 1
  /\ UNCHANGED <<up, opt, painted, window, configured, file, writable, lost>>

\* Nobody controls when the settings directory can be written to.
Toggle ==
  /\ WritesFail /\ writable' = ~ writable
  /\ UNCHANGED <<process, there, file, stored, lost, missed, changes>>

Next ==
  \/ Start \/ Stop \/ SwitchView \/ OpenWindow \/ CloseWindow \/ ChangeOption
  \/ Measure \/ OpenChooser \/ CloseChooser \/ RestoreNames \/ Toggle
  \/ \E t \in Types, n \in Names : EditName(t, n)

Spec == Init /\ [][Next]_vars
--------------------------------------------------------------------------
(* The option a widget other than the font buttons shows. *)
Shows(k) == window[k] = Widgets(opt)[k]

\* Options, entries and widgets keep their domains; a size is one of the scale's, a position
\* one of the overlay's.
TypeOK ==
  /\ up \in BOOLEAN /\ configured \in BOOLEAN /\ there \in BOOLEAN
  /\ writable \in BOOLEAN /\ missed \in BOOLEAN
  /\ DOMAIN opt = Option /\ DOMAIN file = Entries /\ lost \subseteq Option
  /\ opt.viewer_text_overlay_position \in 0 .. 6
  /\ opt.viewer_size \in Range(PixelSizeTable)
  /\ window = None \/ DOMAIN window = DOMAIN Widgets(opt)
  /\ DOMAIN names = Types /\ DOMAIN stored = Types
  /\ rows = None \/ DOMAIN rows = Types

\* A plugin started again has the options this one has, but for those whose change was
\* not written: the handlers of the preferences window, some called while it is being
\* opened and some by one another, agree with what the constructor reads.  The sharing
\* of scales is left to SyncKept.
InStep == up => \A k \in Option \ (lost \cup {Sync}) : ReadOption(file, k) = opt[k]

\* The same of the option to share scales among monitors of a type, which
\* save_monitor_type_sync_enabled saves.
SyncKept == up /\ Sync \notin lost => ReadOption(file, Sync) = opt[Sync]

\* The view has the background the user chose, whichever of the colour, its use and the
\* view (a new one is not painted) changed last.
PaintedAsChosen ==
  up => painted = IF opt.use_background_color THEN opt.background_color ELSE None

\* The preferences window shows the options that are in use, and a font button that is
\* used the font in use, though options reach it through the constructor only.
WindowShows ==
  window # None =>
    /\ \A k \in Option : Shows(k)
    /\ window.viewer_font => window.font = opt.viewer_font
    /\ window.viewer_text_overlay_font => window.overlay_font = opt.viewer_text_overlay_font

\* Opening the window changes no option and nothing of what would be read again, though
\* it runs the handlers that save options (font_listener's comment is about one that it
\* would overwrite).
OpenIsSilent ==
  [][window = None /\ window' # None =>
       /\ opt' = opt
       /\ \A k \in Option \ lost : ReadOption(file', k) = ReadOption(file, k)]_vars

\* Unless some write was skipped, the interface names in use are those of the file and
\* those the chooser window shows, and none is blank once they are settled.
NamesInStep ==
  ~ missed => /\ configured => stored = names /\ \A t \in Types : names[t] # ""
              /\ rows # None => rows = names
==========================================================================
