------------------------------ MODULE Taskbar ------------------------------
(***************************************************************************)
(* The running windows in the dock of aurora-shell.c: the compositor       *)
(* announces windows over wlr-foreign-toplevel-management, the shell keeps *)
(* one Toplevel and one chip for each.  Events arrive in order but late: a *)
(* window the shell still shows may be gone.  The GTK menu of a chip keeps *)
(* a plain pointer to the Toplevel it was opened for.                      *)
(***************************************************************************)
EXTENDS Integers, Sequences

CONSTANTS
  Window,   \* windows of one session
  MaxWire   \* events under way to the shell (bounds the model)

ASSUME MaxWireAssumption == MaxWire \in Nat \ {0, 1}

VARIABLES
  real,   \* what the compositor has done with each window
  owed,   \* windows with a change the compositor has not closed with "done"
  wire,   \* the events under way, oldest first
  tl,     \* the Toplevel of each window
  sep,    \* g_docksep is visible
  menu,   \* the open menu of a chip, or NoMenu
  asked,  \* windows the user has asked to close
  up      \* the shell runs

vars == <<real, owed, wire, tl, sep, menu, asked, up>>

Field  == {"title", "app_id", "active"}
Unborn == [st |-> "unborn", title |-> FALSE, app_id |-> FALSE, active |-> FALSE]
NoTop  == [at |-> "none", title |-> FALSE, app_id |-> FALSE, active |-> FALSE,
           chip |-> "parked", class |-> FALSE]
NewTop == [NoTop EXCEPT !.at = "live"]
NoMenu == [kind |-> "none"]

Event(w, ev, on) == [w |-> w, ev |-> ev, on |-> on]
Room == Len(wire) < MaxWire
Send(e)  == wire' = IF up THEN Append(wire, e) ELSE wire
Open(w)  == real[w].st = "open"
Named(r) == r.title \/ r.app_id
Shown(w) == tl[w].chip = "shown"

Init ==
  /\ real = [w \in Window |-> Unborn] /\ owed = {} /\ wire = <<>>
  /\ tl = [w \in Window |-> NoTop] /\ sep = FALSE
  /\ menu = NoMenu /\ asked = {} /\ up = TRUE

-----------------------------------------------------------------------------
(* The compositor (labwc; the shell sees only its events).                 *)

Map(w) ==
  /\ real[w].st = "unborn" /\ Room
  /\ real' = [real EXCEPT ![w].st = "open"]
  /\ owed' = owed \cup {w}
  /\ Send(Event(w, "toplevel", FALSE))
  /\ UNCHANGED <<tl, sep, menu, asked, up>>

\* A title or an app id comes or goes, the window gets or loses the focus.
Change(w, f) ==
  /\ Open(w) /\ Room
  /\ real' = [real EXCEPT ![w][f] = ~@]
  /\ owed' = owed \cup {w}
  /\ Send(Event(w, f, real'[w][f]))
  /\ UNCHANGED <<tl, sep, menu, asked, up>>

Done(w) ==
  /\ w \in owed /\ Room
  /\ owed' = owed \ {w}
  /\ Send(Event(w, "done", FALSE))
  /\ UNCHANGED <<real, tl, sep, menu, asked, up>>

Close(w) ==
  /\ Open(w) /\ Room
  /\ real' = [real EXCEPT ![w] = [Unborn EXCEPT !.st = "gone"]]
  /\ owed' = owed \ {w} /\ asked' = asked \ {w}
  /\ Send(Event(w, "closed", FALSE))
  /\ UNCHANGED <<tl, sep, menu, up>>

-----------------------------------------------------------------------------
(* The listeners of the shell.                                             *)

\* dock_sep_sync: some child of g_taskbar is visible.
AnyChip(tops) == \E w \in Window : tops[w].chip = "shown"

\* update_task_button: a button without a name stays parked or is hidden; one
\* with a name is packed once, carries the style of the focus, and is shown.
Updated(r) ==
  IF Named(r) THEN [r EXCEPT !.chip = "shown", !.class = r.active]
  ELSE [r EXCEPT !.chip = IF @ = "shown" THEN "hidden" ELSE @]

Receive(ev) ==
  /\ up /\ wire # <<>> /\ Head(wire).ev \in ev
  /\ wire' = Tail(wire)
  /\ UNCHANGED <<real, owed, asked, up>>

\* g_new0 may return the memory of a Toplevel freed before: the Toplevel an
\* open menu points to, if it is gone, may now be this one.
FtlNew ==
  LET w == Head(wire).w IN
  /\ Receive({"toplevel"})
  /\ tl' = [tl EXCEPT ![w] = NewTop]
  /\ menu' = IF menu # NoMenu /\ tl[menu.w].at = "freed"
             THEN [menu EXCEPT !.later = @ \cup {w}] ELSE menu
  /\ UNCHANGED sep

FtlName ==
  LET e == Head(wire) IN
  /\ Receive({"title", "app_id"})
  /\ tl' = [tl EXCEPT ![e.w] = Updated([@ EXCEPT ![e.ev] = e.on])]
  /\ sep' = AnyChip(tl')
  /\ UNCHANGED menu

\* ftl_state waits for "done".
FtlState ==
  LET e == Head(wire) IN
  /\ Receive({"active"})
  /\ tl' = [tl EXCEPT ![e.w].active = e.on]
  /\ UNCHANGED <<sep, menu>>

\* Mutant: "done" is ignored like "parent".
FtlDoneIgnored ==
  /\ Receive({"done"})
  /\ UNCHANGED <<tl, sep, menu>>

FtlDone ==
  /\ Receive({"done"})
  /\ tl' = [tl EXCEPT ![Head(wire).w] = Updated(@)]
  /\ sep' = AnyChip(tl')
  /\ UNCHANGED menu

\* Mutant: the divider is not looked at when a chip goes.
FtlClosedNoSync ==
  /\ Receive({"closed"})
  /\ tl' = [tl EXCEPT ![Head(wire).w] = [NoTop EXCEPT !.at = "freed"]]
  /\ UNCHANGED <<sep, menu>>

\* Mutant: the button is kept when its Toplevel is freed.
FtlClosedKeepsButton ==
  /\ Receive({"closed"})
  /\ tl' = [tl EXCEPT ![Head(wire).w].at = "freed"]
  /\ UNCHANGED <<sep, menu>>

\* An open menu of the chip stays open.
FtlClosed ==
  /\ Receive({"closed"})
  /\ tl' = [tl EXCEPT ![Head(wire).w] = [NoTop EXCEPT !.at = "freed"]]
  /\ sep' = AnyChip(tl')
  /\ UNCHANGED menu

Deliver == FtlNew \/ FtlName \/ FtlState \/ FtlDone \/ FtlClosed

-----------------------------------------------------------------------------
(* The user.  An open menu has the grab: a click elsewhere closes it.      *)

Clickable(w) == up /\ menu = NoMenu /\ Shown(w)

\* on_task_clicked: the compositor gives the window, if it is there, the focus.
TaskClicked(w) == Clickable(w) /\ ~real[w].active /\ Change(w, "active")

TaskPress(w) ==
  /\ Clickable(w)
  /\ menu' = [kind |-> "task", w |-> w, later |-> {}]
  /\ UNCHANGED <<real, owed, wire, tl, sep, asked, up>>

MenuClosed ==
  /\ menu # NoMenu /\ menu' = NoMenu
  /\ UNCHANGED <<real, owed, wire, tl, sep, asked, up>>

\* What the close request of task_quit reaches: the handle of the Toplevel;
\* if that was freed, whatever its memory holds now, or nothing.
Reached ==
  IF tl[menu.w].at = "live" THEN {menu.w}
  ELSE {w \in menu.later : tl[w].at = "live"}

TaskQuit ==
  /\ up /\ menu # NoMenu /\ menu' = NoMenu
  /\ \/ \E w \in Reached : asked' = asked \cup ({w} \cap {v \in Window : Open(v)})
     \/ Reached # {menu.w} /\ asked' = asked
  /\ UNCHANGED <<real, owed, wire, tl, sep, up>>

\* ... or the freed memory is no pointer any more, and the shell dies.
TaskQuitCrash ==
  /\ up /\ menu # NoMenu /\ tl[menu.w].at = "freed"
  /\ up' = FALSE /\ menu' = NoMenu
  /\ tl' = [w \in Window |-> NoTop] /\ sep' = FALSE /\ wire' = <<>>
  /\ UNCHANGED <<real, owed, asked>>

\* The session ends and another begins; nothing is kept.
NewSession ==
  /\ real' = [w \in Window |-> Unborn] /\ owed' = {} /\ wire' = <<>>
  /\ tl' = [w \in Window |-> NoTop] /\ sep' = FALSE
  /\ menu' = NoMenu /\ asked' = {} /\ up' = TRUE

Next ==
  \/ Deliver \/ MenuClosed \/ TaskQuit \/ TaskQuitCrash \/ NewSession
  \/ \E w \in Window :
       \/ Map(w) \/ Done(w) \/ Close(w) \/ TaskClicked(w) \/ TaskPress(w)
       \/ \E f \in Field : Change(w, f)

\* The main loop of the shell reads the events it is sent.
Fairness == WF_vars(Deliver)

Spec == Init /\ [][Next]_vars /\ Fairness

-----------------------------------------------------------------------------
(* Properties.                                                             *)

EventSet == [w : Window, ev : Field \cup {"toplevel", "done", "closed"}, on : BOOLEAN]
RealSet  == [st : {"unborn", "open", "gone"}, title : BOOLEAN, app_id : BOOLEAN,
             active : BOOLEAN]
TopSet   == [at : {"none", "live", "freed"}, title : BOOLEAN, app_id : BOOLEAN,
             active : BOOLEAN, chip : {"parked", "hidden", "shown"}, class : BOOLEAN]
MenuSet  == {NoMenu} \cup [kind : {"task"}, w : Window, later : SUBSET Window]

\* Every variable has its type.
TypeOK ==
  /\ real \in [Window -> RealSet] /\ owed \subseteq Window
  /\ wire \in Seq(EventSet) /\ Len(wire) <= MaxWire
  /\ tl \in [Window -> TopSet] /\ sep \in BOOLEAN
  /\ menu \in MenuSet /\ asked \subseteq Window /\ up \in BOOLEAN

Settled(w) == up /\ w \notin owed /\ \A i \in DOMAIN wire : wire[i].w # w

\* Once the shell has read all there is to read about a window, its chip is
\* shown exactly if the window is open and has a name, and is marked exactly if
\* the window has the focus (update_task_button and the listeners around it).
ChipsMirrorWindows ==
  \A w \in Window : Settled(w) =>
    /\ Shown(w) <=> Open(w) /\ Named(real[w])
    /\ Shown(w) => (tl[w].class <=> real[w].active)

\* The events under way never name a Toplevel that was not announced or has been
\* freed, and a chip on the screen always has its Toplevel: the data of every
\* listener and of every button is live (ftl_new, ftl_closed).
NoDanglingToplevel ==
  /\ \A i \in DOMAIN wire : wire[i].ev # "toplevel" =>
       \/ tl[wire[i].w].at = "live"
       \/ \E j \in 1..(i - 1) : wire[j].w = wire[i].w /\ wire[j].ev = "toplevel"
  /\ \A w \in Window : Shown(w) => tl[w].at = "live"

\* The divider between the pins and the windows is there exactly when a chip is,
\* however the last chip came to go (dock_sep_sync).
DividerMeansChips == sep <=> AnyChip(tl)

\* aurora-shell.c:916-917: "Quit asks the toplevel to close via the protocol."
\* The window asked is the one whose chip was pressed.
QuitAsksItsWindow == [][\A w \in asked' \ asked : w = menu.w]_vars

=============================================================================
