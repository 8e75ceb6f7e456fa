------------------------------ MODULE Desktop ------------------------------
(***************************************************************************)
(* The pins of the dock and their file, the launcher, the toast and the    *)
(* night light of aurora-shell.c.  All of it runs on the one GTK main      *)
(* loop; what comes between two callbacks is the user, a timer, the Store  *)
(* installing an application, a save that fails, and the next session.     *)
(***************************************************************************)
EXTENDS Integers, Sequences

CONSTANTS
  App,   \* applications, named by their cleaned Exec line
  Foot   \* the terminal, the pin of a first run

ASSUME FootAssumption == Foot \in App

VARIABLES
  installed,  \* the .desktop entries on the disk
  apps,       \* g_apps: the entries of the last scan
  fresh,      \* the tiles of the launcher point into the present g_apps
  match,      \* the applications whose name matches the search box
  visible,    \* the launcher is on the screen
  menu,       \* the menu of a tile, or NoMenu
  pins,       \* g_pins
  pinbox,     \* the buttons in g_pinbox, by the exec they point to
  file,       \* ~/.config/aurora/pins
  lost,       \* history: the last save of the pins failed
  toast,      \* g_toast is on the screen, and g_toast_timer (0: none)
  timers,     \* the toast_hide timers GLib has pending
  night,      \* g_night_on
  overlay,    \* g_nightlight is on the screen
  button      \* "on" of the Night Light button in the control center

launcherVars == <<installed, apps, fresh, match, visible>>
pinVars      == <<pins, pinbox, file, lost>>
toastVars    == <<toast, timers>>
nightVars    == <<night, overlay, button>>
vars == <<launcherVars, menu, pinVars, toastVars, nightVars>>

NoMenu == [kind |-> "none"]

\* Mutant: an empty file is taken for a first run.
LoadEmptyAsFirstRun(f) == IF f.there /\ f.pins # <<>> THEN f.pins ELSE <<Foot>>

\* load_pins
Load(f) == IF f.there THEN f.pins ELSE <<Foot>>

\* is_pinned
IsPinned(e) == \E i \in DOMAIN pins : pins[i] = e

\* main, on a fresh shell: scan, load, build; everything else is hidden.
Init ==
  /\ installed = {Foot} /\ file = [there |-> FALSE, pins |-> <<>>]
  /\ apps = installed /\ fresh = TRUE /\ match = App /\ visible = FALSE
  /\ pins = Load(file) /\ pinbox = pins /\ lost = FALSE /\ menu = NoMenu
  /\ toast = [shown |-> FALSE, timer |-> 0] /\ timers = {}
  /\ night = FALSE /\ overlay = FALSE /\ button = FALSE

NewSession ==
  /\ apps' = installed /\ fresh' = TRUE /\ match' = App /\ visible' = FALSE
  /\ pins' = Load(file) /\ pinbox' = pins' /\ lost' = FALSE /\ menu' = NoMenu
  /\ toast' = [shown |-> FALSE, timer |-> 0] /\ timers' = {}
  /\ night' = FALSE /\ overlay' = FALSE /\ button' = FALSE
  /\ UNCHANGED <<installed, file>>

-----------------------------------------------------------------------------
(* The toast: one label, one timer; the id of a new timer is another one.  *)

NextId == IF toast.timer = 1 THEN 2 ELSE 1

\* Mutant: the timer of the toast before is left to run.
AuroraToastKeepsTimer ==
  /\ toast' = [shown |-> TRUE, timer |-> NextId]
  /\ timers' = timers \cup {NextId}

\* aurora_toast
AuroraToast ==
  /\ toast' = [shown |-> TRUE, timer |-> NextId]
  /\ timers' = (timers \ {toast.timer}) \cup {NextId}

ToastHide(t) ==
  /\ t \in timers /\ timers' = timers \ {t}
  /\ toast' = [shown |-> FALSE, timer |-> 0]
  /\ UNCHANGED <<launcherVars, menu, pinVars, nightVars>>

\* Everything that only toasts: am_persist says one thing, waits for the root
\* service with the main loop stopped, and says another.
Say == AuroraToast /\ UNCHANGED <<launcherVars, menu, pinVars, nightVars>>

-----------------------------------------------------------------------------
(* Night light: two switches for one overlay.                              *)

\* nightlight_apply
NightlightApply == overlay' = night'

Night ==
  /\ NightlightApply /\ AuroraToast
  /\ menu = NoMenu /\ UNCHANGED <<launcherVars, menu, pinVars>>

\* on_cc_toggle: the button flips its own "on" and sets the light to that.
CcToggle == button' = ~button /\ night' = button' /\ Night

\* ctx_night: the light flips; the button keeps what it was.
CtxNight == night' = ~night /\ UNCHANGED button /\ Night

-----------------------------------------------------------------------------
(* Pins.                                                                   *)

\* save_pins: the file is replaced as a whole, or not at all; nobody looks.
SavePins ==
  \/ file' = [there |-> TRUE, pins |-> pins'] /\ lost' = FALSE
  \/ file' = file /\ lost' = TRUE

\* rebuild_pinbox: the buttons are made anew from g_pins.
RebuildPinbox == pinbox' = pins'

Without(s, i) == [j \in 1..(Len(s) - 1) |-> IF j < i THEN s[j] ELSE s[j + 1]]

\* unpin_exec: the first pin of e goes; its callers name one that is pinned.
UnpinExec(e) ==
  /\ \E i \in DOMAIN pins :
       /\ pins[i] = e /\ \A j \in 1..(i - 1) : pins[j] # e
       /\ pins' = Without(pins, i)
  /\ SavePins /\ RebuildPinbox

\* pin_app, which looks for itself whether e is pinned and then only toasts.
PinApp(e) ==
  /\ ~IsPinned(e) /\ pins' = Append(pins, e)
  /\ SavePins /\ RebuildPinbox

\* pin_btn_press: a right click on a pin takes it away.
PinBtnPress(e) ==
  /\ menu = NoMenu /\ \E i \in DOMAIN pinbox : pinbox[i] = e
  /\ UnpinExec(e)
  /\ UNCHANGED <<launcherVars, menu, toastVars, nightVars>>

-----------------------------------------------------------------------------
(* The launcher.                                                           *)

\* Whoever installs or removes an application does not tell the shell.
Install(a) ==
  /\ installed' = IF a \in installed THEN installed \ {a} ELSE installed \cup {a}
  /\ UNCHANGED <<apps, fresh, match, visible, menu, pinVars, toastVars, nightVars>>

\* Mutant: the list is scanned, the tiles are left as they were.
LauncherShownKeepsTiles ==
  apps' = installed /\ fresh' = FALSE /\ match' = App

\* launcher_shown: scan_apps frees the list, populate_launcher the tiles.
LauncherShown ==
  apps' = installed /\ fresh' = TRUE /\ match' = App

\* toggle(g_launcher): "show" runs launcher_shown.
LauncherBtn ==
  /\ menu = NoMenu /\ visible' = ~visible
  /\ IF visible THEN UNCHANGED <<apps, fresh, match>> ELSE LauncherShown
  /\ UNCHANGED <<installed, menu, pinVars, toastVars, nightVars>>

\* Escape, or a click on a tile: the program is started and the launcher hides.
LauncherHide ==
  /\ menu = NoMenu /\ visible /\ visible' = FALSE
  /\ UNCHANGED <<installed, apps, fresh, match, menu, pinVars, toastVars, nightVars>>

Search(m) ==
  /\ menu = NoMenu /\ visible /\ match' = m
  /\ UNCHANGED <<installed, apps, fresh, visible, menu, pinVars, toastVars, nightVars>>

\* launcher_item_press: the menu keeps a pointer to the App of the tile.
LauncherItemPress(a) ==
  /\ menu = NoMenu /\ visible /\ a \in apps \cap match
  /\ menu' = [kind |-> "app", a |-> a, says |-> IF IsPinned(a) THEN "Unpin" ELSE "Pin"]
  /\ UNCHANGED <<launcherVars, pinVars, toastVars, nightVars>>

MenuClosed ==
  /\ menu # NoMenu /\ menu' = NoMenu
  /\ UNCHANGED <<launcherVars, pinVars, toastVars, nightVars>>

\* launcher_pin_toggle looks again.
LauncherPinToggle ==
  /\ menu # NoMenu /\ menu' = NoMenu
  /\ \/ IsPinned(menu.a) /\ UnpinExec(menu.a) /\ UNCHANGED toastVars
     \/ PinApp(menu.a) /\ AuroraToast
  /\ UNCHANGED <<launcherVars, nightVars>>

Next ==
  \/ NewSession \/ Say \/ CcToggle \/ CtxNight
  \/ LauncherBtn \/ LauncherHide \/ MenuClosed \/ LauncherPinToggle
  \/ \E t \in timers : ToastHide(t)
  \/ \E a \in App : PinBtnPress(a) \/ Install(a) \/ LauncherItemPress(a)
  \/ \E m \in SUBSET App : Search(m)

Spec == Init /\ [][Next]_vars

-----------------------------------------------------------------------------
(* Properties.                                                             *)

\* Every variable has its type.
TypeOK ==
  /\ installed \subseteq App /\ apps \subseteq App /\ match \subseteq App
  /\ fresh \in BOOLEAN /\ visible \in BOOLEAN
  /\ menu \in {NoMenu} \cup [kind : {"app"}, a : App, says : {"Pin", "Unpin"}]
  /\ pins \in Seq(App) /\ pinbox \in Seq(App)
  /\ file \in [there : BOOLEAN, pins : Seq(App)] /\ lost \in BOOLEAN
  /\ toast \in [shown : BOOLEAN, timer : 0..2] /\ timers \subseteq 1..2
  /\ night \in BOOLEAN /\ overlay \in BOOLEAN /\ button \in BOOLEAN

\* The buttons in the dock are exactly the pins, none points to a pin that was
\* freed, and, unless the last save failed, a session that starts now has the
\* same pins in the same order - no pin at all included (load_pins, save_pins).
PinsAgree == pinbox = pins /\ (~lost => Load(file) = pins)

\* No application is pinned twice, in this session or after the next start,
\* whatever entries share a command line (is_pinned).
PinnedOnce ==
  /\ \A i, j \in DOMAIN pins : pins[i] = pins[j] => i = j
  /\ \A i, j \in DOMAIN file.pins : file.pins[i] = file.pins[j] => i = j

\* No tile, and no menu of a tile, points to an App that scan_apps has freed,
\* and the menu still offers the contrary of what the application is: both
\* rest on no rescan and no unpinning happening while a menu is open.
LauncherPointersLive ==
  /\ fresh
  /\ menu # NoMenu => menu.a \in apps /\ (menu.says = "Unpin" <=> IsPinned(menu.a))

\* A toast on the screen has exactly one timer to come, its own: it is never
\* hidden by the timer of the toast before, nor left without one.
ToastHasItsTimer == timers = IF toast.shown THEN {toast.timer} ELSE {}

\* The overlay is on exactly while the night light is, whichever of the two
\* switches was used last.
OverlayMeansNight == overlay <=> night

=============================================================================
