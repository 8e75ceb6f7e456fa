-------------------------- MODULE Taskbar_proofs --------------------------
(***************************************************************************)
(* Safety of Taskbar for every set of windows and any number of events on  *)
(* the way.                                                                *)
(***************************************************************************)
EXTENDS Taskbar, SequenceTheorems, TLAPS

(***************************************************************************)
(* The inductive invariant.  The first part is the order of the events on  *)
(* the way: "toplevel" comes first and "closed" last, a change is followed *)
(* by a "done" or is still owed one, and the last change of a field says   *)
(* what the field is.  The second part is what the shell knows of a window *)
(* at each stage of its life, given what is on the way about it.           *)
(***************************************************************************)
EventIn == DOMAIN wire
Any(w)  == \E i \in EventIn : wire[i].w = w
Has(w, evs) == \E i \in EventIn : wire[i].w = w /\ wire[i].ev \in evs

AnnouncedFirst == \A i \in EventIn : wire[i].ev = "toplevel" =>
  /\ tl[wire[i].w].at = "none"
  /\ \A j \in EventIn : wire[j].w = wire[i].w => i <= j

Announced == \A i \in EventIn : wire[i].ev # "toplevel" =>
  \/ tl[wire[i].w].at = "live"
  \/ \E j \in EventIn : j < i /\ wire[j].w = wire[i].w /\ wire[j].ev = "toplevel"

ClosedLast == \A i \in EventIn : wire[i].ev = "closed" =>
  /\ real[wire[i].w].st = "gone"
  /\ \A j \in EventIn : wire[j].w = wire[i].w => j <= i

Closing == {"done", "closed"}

Owing == \A i \in EventIn : wire[i].ev \in Field =>
  \/ wire[i].w \in owed
  \/ \E j \in EventIn : i < j /\ wire[j].w = wire[i].w /\ wire[j].ev \in Closing

LastTrue == \A i \in EventIn :
  /\ wire[i].ev \in Field /\ real[wire[i].w].st = "open"
  /\ \A j \in EventIn : i < j /\ wire[j].w = wire[i].w => wire[j].ev # wire[i].ev
  => wire[i].on = real[wire[i].w][wire[i].ev]

EventInv == AnnouncedFirst /\ Announced /\ ClosedLast /\ Owing /\ LastTrue

Blank(r) == r.chip = "parked" /\ \A f \in Field : r[f] = FALSE

Known(w) ==
  /\ real[w].st = "unborn" => tl[w].at = "none" /\ ~Any(w) /\ w \notin owed
  /\ real[w].st = "gone" => w \notin owed /\ (tl[w].at = "freed" \/ Has(w, {"closed"}))
  /\ real[w].st = "open" => tl[w].at = "live" \/ Has(w, {"toplevel"})
  /\ tl[w].at = "freed" => real[w].st = "gone" /\ ~Any(w)
  /\ tl[w].at = "live" => (Shown(w) <=> Named(tl[w]))
  /\ tl[w].at # "live" => Blank(tl[w])
  /\ Shown(w) /\ tl[w].class # tl[w].active => w \in owed \/ Has(w, Closing)
  /\ real[w].st # "gone" => \A f \in Field : ~Has(w, {f}) => tl[w][f] = real[w][f]

WindowInv == up => \A w \in Window : Known(w)
DownInv   == ~up => wire = <<>> /\ \A w \in Window : tl[w] = NoTop

IInv == TypeOK /\ DividerMeansChips /\ EventInv /\ WindowInv /\ DownInv

-----------------------------------------------------------------------------
(* Records and sequences.                                                  *)

LEMMA WireType ==
  ASSUME TypeOK
  PROVE  /\ wire \in Seq(EventSet) /\ Len(wire) \in Nat /\ EventIn = 1..Len(wire)
         /\ \A i \in EventIn : wire[i] \in EventSet /\ i \in Nat
<1>1. wire \in Seq(EventSet)
  BY DEF TypeOK
<1> QED
  BY <1>1, LenProperties, ElementOfSeq DEF EventIn

LEMMA EventFields ==
  \A e \in EventSet : e.w \in Window /\ e.ev \in Field \cup {"toplevel", "done", "closed"}
                      /\ e.on \in BOOLEAN
  BY DEF EventSet

LEMMA NewTops ==
  /\ NoTop \in TopSet /\ NewTop \in TopSet /\ [NoTop EXCEPT !.at = "freed"] \in TopSet
  /\ NoTop.at = "none" /\ NewTop.at = "live" /\ [NoTop EXCEPT !.at = "freed"].at = "freed"
  /\ Blank(NoTop) /\ Blank(NewTop) /\ Blank([NoTop EXCEPT !.at = "freed"])
<1>1. /\ NoTop \in TopSet /\ NoTop.at = "none" /\ NoTop.chip = "parked"
      /\ \A f \in Field : NoTop[f] = FALSE
  BY DEF NoTop, TopSet, Field
<1>2. ASSUME NEW x \in {"none", "live", "freed"}
      PROVE  LET r == [NoTop EXCEPT !.at = x]
             IN  /\ r \in TopSet /\ r.at = x /\ r.chip = "parked"
                 /\ \A f \in Field : r[f] = FALSE
  BY <1>1 DEF TopSet, Field
<1>3. Blank(NoTop)
  BY <1>1 DEF Blank
<1>4. NewTop \in TopSet /\ NewTop.at = "live" /\ Blank(NewTop)
  BY <1>2 DEF NewTop, Blank
<1>5. LET r == [NoTop EXCEPT !.at = "freed"]
      IN  r \in TopSet /\ r.at = "freed" /\ Blank(r)
  BY <1>2 DEF Blank
<1> QED
  BY <1>1, <1>3, <1>4, <1>5

\* What update_task_button does to a Toplevel.
LEMMA Updating ==
  ASSUME NEW r \in TopSet
  PROVE  /\ Updated(r) \in TopSet /\ Updated(r).at = r.at
         /\ \A f \in Field : Updated(r)[f] = r[f]
         /\ Updated(r).chip = "shown" <=> Named(r)
         /\ Named(r) => Updated(r).class = Updated(r).active
  BY DEF Updated, TopSet, Field, Named

\* What a title, an app id or the focus does to it.
LEMMA Setting ==
  ASSUME NEW r \in TopSet, NEW f \in Field, NEW b \in BOOLEAN
  PROVE  LET s == [r EXCEPT ![f] = b]
         IN  /\ s \in TopSet /\ s.at = r.at /\ s.chip = r.chip /\ s[f] = b
             /\ \A g \in Field : g # f => s[g] = r[g]
<1>1. CASE f = "title"
  BY <1>1 DEF TopSet, Field
<1>2. CASE f = "app_id"
  BY <1>2 DEF TopSet, Field
<1>3. CASE f = "active"
  BY <1>3 DEF TopSet, Field
<1> QED
  BY <1>1, <1>2, <1>3 DEF Field

LEMMA RealSetting ==
  ASSUME NEW r \in RealSet, NEW f \in Field, NEW b \in BOOLEAN
  PROVE  LET s == [r EXCEPT ![f] = b]
         IN  s \in RealSet /\ s.st = r.st /\ s[f] = b /\ \A g \in Field : g # f => s[g] = r[g]
<1>1. CASE f = "title"
  BY <1>1 DEF RealSet, Field
<1>2. CASE f = "app_id"
  BY <1>2 DEF RealSet, Field
<1>3. CASE f = "active"
  BY <1>3 DEF RealSet, Field
<1> QED
  BY <1>1, <1>2, <1>3 DEF Field

\* An event is sent while the shell runs: it is the last one on the way.
Last == Len(wire) + 1
Joined(e) ==
  /\ \A i \in EventIn : i \in EventIn' /\ wire'[i] = wire[i] /\ i < Last /\ i \in Nat
  /\ Last \in EventIn' /\ wire'[Last] = e /\ Last \in Nat
  /\ \A i \in EventIn' : i \in EventIn \/ i = Last

LEMMA Sending ==
  ASSUME TypeOK, up, Room, NEW e \in EventSet, Send(e)
  PROVE  /\ wire' \in Seq(EventSet) /\ Len(wire') <= MaxWire
         /\ Joined(e)
<1>1. wire \in Seq(EventSet) /\ Len(wire) \in Nat /\ EventIn = 1..Len(wire)
  BY WireType
<1>2. /\ wire' \in Seq(EventSet) /\ Len(wire') = Len(wire) + 1
      /\ \A i \in 1..Len(wire) : wire'[i] = wire[i]
      /\ wire'[Len(wire) + 1] = e
  BY <1>1, AppendProperties DEF Send
<1>3. EventIn' = 1..Last
  BY <1>2, LenProperties DEF EventIn, Last
<1>4. Len(wire') <= MaxWire
  BY <1>1, <1>2, MaxWireAssumption DEF Room
<1>5. Last \in Nat /\ Last \in 1..Last
  BY <1>1 DEF Last
<1>6. \A i \in 1..Len(wire) : i \in 1..Last /\ i < Last /\ i \in Nat
  BY <1>1 DEF Last
<1>7. \A i \in 1..Last : i \in 1..Len(wire) \/ i = Last
  BY <1>1 DEF Last
<1> QED
  BY <1>1, <1>2, <1>3, <1>4, <1>5, <1>6, <1>7 DEF Joined, Last

\* The first event is read: the others move up.
Shifted ==
  /\ 1 \in EventIn
  /\ \A i \in EventIn' : i \in Nat /\ i + 1 \in EventIn /\ wire'[i] = wire[i + 1]
  /\ \A i \in EventIn : i \in Nat /\ (i = 1 \/ (i - 1 \in EventIn' /\ wire'[i - 1] = wire[i]))

LEMMA Reading ==
  ASSUME TypeOK, NEW ev, Receive(ev)
  PROVE  /\ wire' \in Seq(EventSet) /\ Len(wire') <= MaxWire
         /\ Shifted /\ Head(wire) = wire[1] /\ wire[1] \in EventSet /\ wire[1].ev \in ev
         /\ up /\ UNCHANGED <<real, owed, asked, up>>
<1>1. wire \in Seq(EventSet) /\ Len(wire) \in Nat /\ EventIn = 1..Len(wire) /\ wire # <<>>
  BY WireType DEF Receive
<1>2. /\ Tail(wire) \in Seq(EventSet) /\ Len(Tail(wire)) = Len(wire) - 1
      /\ Head(wire) = wire[1] /\ Head(wire) \in EventSet
      /\ \A i \in 1..Len(Tail(wire)) : Tail(wire)[i] = wire[i + 1]
  BY <1>1, HeadTailProperties
<1>3. Len(wire) >= 1
  BY <1>1, EmptySeq
<1>4. wire' = Tail(wire)
  BY DEF Receive
<1>5. EventIn' = 1..(Len(wire) - 1)
  BY <1>2, <1>4, LenProperties DEF EventIn
<1>6. Shifted
  <2>1. 1 \in EventIn
    BY <1>1, <1>3
  <2>2. \A i \in EventIn' : i \in Nat /\ i + 1 \in EventIn /\ wire'[i] = wire[i + 1]
    BY <1>1, <1>2, <1>4, <1>5
  <2>3. \A i \in EventIn : i \in Nat /\ (i = 1 \/ (i - 1 \in EventIn' /\ wire'[i - 1] = wire[i]))
    <3> SUFFICES ASSUME NEW i \in EventIn, i # 1
                 PROVE  i - 1 \in EventIn' /\ wire'[i - 1] = wire[i]
      BY <1>1
    <3>1. i - 1 \in 1..(Len(wire) - 1) /\ (i - 1) + 1 = i
      BY <1>1
    <3> QED
      BY <1>2, <1>4, <1>5, <3>1
  <2> QED
    BY <2>1, <2>2, <2>3 DEF Shifted
<1>7. Len(wire') <= MaxWire
  BY <1>1, <1>2, <1>4, MaxWireAssumption DEF TypeOK
<1> QED
  BY <1>1, <1>2, <1>4, <1>6, <1>7 DEF Receive

\* The divider is set by whoever changes a chip.
LEMMA Divider ==
  ASSUME sep' = AnyChip(tl')
  PROVE  DividerMeansChips'
  BY DEF DividerMeansChips

(* While the shell is down nothing is on the way and nothing is shown.     *)
LEMMA Down ==
  ASSUME ~up', wire' = <<>>, \A w \in Window : tl'[w] = NoTop
  PROVE  EventInv' /\ WindowInv' /\ DownInv'
<1>1. EventIn' = {}
  BY EmptySeq DEF EventIn
<1> QED
  BY <1>1 DEF EventInv, AnnouncedFirst, Announced, ClosedLast, Owing, LastTrue, WindowInv, DownInv

-----------------------------------------------------------------------------
(* The compositor, while the shell runs.  w is the window the event e is   *)
(* about; the others are as they were.                                     *)

SameTops == UNCHANGED <<tl, sep, menu, up>>

\* The other windows: an event about w is not an event about them.
LEMMA OthersSend ==
  ASSUME IInv, up, SameTops, NEW w \in Window, NEW e \in EventSet, e.w = w, Joined(e),
         \A v \in Window : v # w => real'[v] = real[v] /\ (v \in owed' <=> v \in owed)
  PROVE  \A v \in Window : v # w => Known(v)'
<1> SUFFICES ASSUME NEW v \in Window, v # w PROVE Known(v)'
  OBVIOUS
<1>1. Known(v)
  BY DEF IInv, WindowInv
<1>2. Any(v)' <=> Any(v)
  BY DEF Any, Joined
<1>3. \A evs : Has(v, evs)' <=> Has(v, evs)
  BY DEF Has, Joined
<1>4. real'[v] = real[v] /\ (v \in owed' <=> v \in owed) /\ tl'[v] = tl[v]
  BY DEF SameTops
<1> QED
  BY <1>1, <1>2, <1>3, <1>4 DEF Known, Shown

LEMMA MapStep ==
  ASSUME IInv, up, NEW w \in Window, Map(w)
  PROVE  TypeOK' /\ EventInv' /\ WindowInv'
<1> DEFINE e == Event(w, "toplevel", FALSE)
<1>1. /\ real[w].st = "unborn" /\ Room /\ Send(e) /\ SameTops /\ owed' = owed \cup {w}
      /\ real' = [real EXCEPT ![w].st = "open"] /\ asked' = asked
  BY DEF Map, SameTops
<1>2. e \in EventSet /\ e.w = w /\ e.ev = "toplevel"
  BY DEF Event, EventSet
<1> HIDE DEF e
<1>3. wire' \in Seq(EventSet) /\ Len(wire') <= MaxWire /\ Joined(e)
  BY <1>1, <1>2, Sending DEF IInv
<1>4. /\ real' \in [Window -> RealSet] /\ real'[w].st = "open"
      /\ \A f \in Field : real'[w][f] = real[w][f]
      /\ \A v \in Window : v # w => real'[v] = real[v]
  BY <1>1 DEF IInv, TypeOK, RealSet, Field
<1>5. Known(w) /\ tl[w].at = "none" /\ ~Any(w) /\ tl'[w] = tl[w]
  BY <1>1 DEF IInv, WindowInv, Known, SameTops
<1>6. TypeOK'
  BY <1>1, <1>3, <1>4 DEF IInv, TypeOK, SameTops
<1>7. Known(w)'
  <2>1. Has(w, {"toplevel"})' /\ w \in owed'
    BY <1>1, <1>2, <1>3 DEF Has, Joined
  <2>2. \A f \in Field : ~Has(w, {f})
    BY <1>5 DEF Has, Any
  <2>3. \A f \in Field : tl'[w][f] = real'[w][f]
    BY <1>1, <1>4, <1>5, <2>2 DEF Known
  <2>4. tl'[w].at = "none" /\ Blank(tl'[w])
    BY <1>5 DEF Known
  <2> QED
    BY <1>4, <2>1, <2>3, <2>4 DEF Known, Shown, Blank
<1>8. WindowInv'
  BY <1>1, <1>2, <1>3, <1>4, <1>7, OthersSend DEF WindowInv
<1>9. \A i \in EventIn : wire[i].w # w
  BY <1>5 DEF Any
<1>10. UNCHANGED tl
  BY <1>1 DEF SameTops
<1>11. AnnouncedFirst'
  <2> SUFFICES ASSUME NEW i \in EventIn', wire'[i].ev = "toplevel"
               PROVE  /\ tl[wire'[i].w].at = "none"
                      /\ \A j \in EventIn' : wire'[j].w = wire'[i].w => i <= j
    BY <1>10 DEF AnnouncedFirst
  <2>1. CASE i = Last
    <3>1. \A j \in EventIn' : wire'[j].w = w => j = Last
      BY <1>3, <1>9 DEF Joined
    <3> QED
      BY <1>2, <1>3, <1>5, <2>1, <3>1 DEF Joined
  <2>2. CASE i \in EventIn
    BY <1>3, <2>2 DEF AnnouncedFirst, IInv, EventInv, Joined
  <2> QED
    BY <1>3, <2>1, <2>2 DEF Joined
<1>12. Announced'
  BY <1>2, <1>3, <1>10 DEF Announced, IInv, EventInv, Joined
<1>13. ClosedLast'
  <2>1. \A i \in EventIn : wire[i].w \in Window
    BY WireType, EventFields DEF IInv
  <2>2. \A i \in EventIn' : wire'[i].ev = "closed" => i \in EventIn
    BY <1>2, <1>3 DEF Joined
  <2>3. \A i \in EventIn : wire[i].ev = "closed" =>
          real'[wire[i].w].st = "gone" /\ \A j \in EventIn : wire[j].w = wire[i].w => j <= i
    BY <1>4, <1>9, <2>1 DEF ClosedLast, IInv, EventInv
  <2> QED
    BY <1>2, <1>3, <1>9, <2>2, <2>3 DEF ClosedLast, Joined
<1>14. Owing'
  BY <1>1, <1>2, <1>3 DEF Owing, IInv, EventInv, Joined, Field
<1>15. LastTrue'
  <2>1. \A i \in EventIn : wire[i].w \in Window
    BY WireType, EventFields DEF IInv
  <2> SUFFICES ASSUME NEW i \in EventIn', wire'[i].ev \in Field, real'[wire'[i].w].st = "open",
                      \A j \in EventIn' : i < j /\ wire'[j].w = wire'[i].w => wire'[j].ev # wire'[i].ev
               PROVE  wire'[i].on = real'[wire'[i].w][wire'[i].ev]
    BY DEF LastTrue
  <2>2. i \in EventIn /\ wire'[i] = wire[i] /\ wire[i].w # w
    BY <1>2, <1>3, <1>9 DEF Joined, Field
  <2>3. real'[wire[i].w] = real[wire[i].w]
    BY <1>4, <2>1, <2>2
  <2>4. \A j \in EventIn : i < j /\ wire[j].w = wire[i].w => wire[j].ev # wire[i].ev
    BY <1>3, <2>2 DEF Joined
  <2> QED
    BY <2>2, <2>3, <2>4 DEF LastTrue, IInv, EventInv
<1> QED
  BY <1>6, <1>8, <1>11, <1>12, <1>13, <1>14, <1>15 DEF EventInv

LEMMA ChangeStep ==
  ASSUME IInv, up, NEW w \in Window, NEW f \in Field, Change(w, f)
  PROVE  TypeOK' /\ EventInv' /\ WindowInv'
<1> DEFINE b == real'[w][f]
           e == Event(w, f, b)
<1>1. /\ real[w].st = "open" /\ Room /\ Send(e) /\ SameTops /\ owed' = owed \cup {w}
      /\ real' = [real EXCEPT ![w] = [real[w] EXCEPT ![f] = ~real[w][f]]] /\ asked' = asked
  BY DEF Change, SameTops, Open
<1>2. real[w] \in RealSet /\ (~real[w][f]) \in BOOLEAN
  <2>1. real[w] \in RealSet
    BY DEF IInv, TypeOK
  <2> QED
    BY <2>1
<1>3. /\ real' \in [Window -> RealSet] /\ real'[w].st = "open" /\ b \in BOOLEAN
      /\ \A g \in Field : g # f => real'[w][g] = real[w][g]
      /\ \A v \in Window : v # w => real'[v] = real[v]
  <2>1. PICK c \in BOOLEAN : real' = [real EXCEPT ![w] = [real[w] EXCEPT ![f] = c]]
    BY <1>1, <1>2
  <2> DEFINE s == [real[w] EXCEPT ![f] = c]
  <2>2. /\ s \in RealSet /\ s.st = real[w].st /\ s[f] = c
        /\ \A g \in Field : g # f => s[g] = real[w][g]
    BY <1>2, RealSetting
  <2> HIDE DEF s
  <2>3. /\ real' \in [Window -> RealSet] /\ real'[w] = s
        /\ \A v \in Window : v # w => real'[v] = real[v]
    BY <2>1, <2>2 DEF IInv, TypeOK, s
  <2> QED
    BY <1>1, <2>2, <2>3
<1> HIDE DEF b
<1>4. e \in EventSet /\ e.w = w /\ e.ev = f /\ e.on = b
  BY <1>3 DEF Event, EventSet
<1> HIDE DEF e
<1>5. wire' \in Seq(EventSet) /\ Len(wire') <= MaxWire /\ Joined(e)
  BY <1>1, <1>4, Sending DEF IInv
<1>6. Known(w) /\ tl'[w] = tl[w] /\ UNCHANGED tl
  BY <1>1 DEF IInv, WindowInv, SameTops
<1>7. TypeOK'
  BY <1>1, <1>3, <1>5 DEF IInv, TypeOK, SameTops
<1>8. Known(w)'
  <2>1. w \in owed' /\ Any(w)' /\ Has(w, {f})'
    BY <1>1, <1>4, <1>5 DEF Any, Has, Joined
  <2>2. \A evs : Has(w, evs) => Has(w, evs)'
    BY <1>5 DEF Has, Joined
  <2>3. ASSUME NEW g \in Field, ~Has(w, {g})' PROVE tl'[w][g] = real'[w][g]
    BY <1>1, <1>3, <1>6, <2>1, <2>2, <2>3 DEF Known
  <2>4. tl[w].at # "freed" /\ (tl[w].at = "live" \/ Has(w, {"toplevel"}))
    BY <1>1, <1>6 DEF Known
  <2> QED
    BY <1>3, <1>6, <2>1, <2>2, <2>3, <2>4 DEF Known, Shown
<1>9. WindowInv'
  BY <1>1, <1>3, <1>4, <1>5, <1>8, OthersSend DEF WindowInv
<1>10. f # "toplevel" /\ f # "closed" /\ f \notin Closing
  BY DEF Field, Closing
<1>11. \A i \in EventIn : wire[i].w \in Window
  BY WireType, EventFields DEF IInv
<1>12. AnnouncedFirst'
  BY <1>4, <1>5, <1>6, <1>10 DEF AnnouncedFirst, IInv, EventInv, Joined
<1>13. Announced'
  <2>1. ASSUME NEW i \in EventIn', wire'[i].ev # "toplevel"
        PROVE  \/ tl[wire'[i].w].at = "live"
               \/ \E j \in EventIn' : j < i /\ wire'[j].w = wire'[i].w /\ wire'[j].ev = "toplevel"
    <3>1. CASE i \in EventIn
      BY <1>5, <2>1, <3>1 DEF Announced, IInv, EventInv, Joined
    <3>2. CASE i = Last
      <4>1. tl[w].at = "live" \/ Has(w, {"toplevel"})
        BY <1>1, <1>6 DEF Known
      <4>2. wire'[i].w = w
        BY <1>4, <1>5, <3>2 DEF Joined
      <4> QED
        BY <1>5, <3>2, <4>1, <4>2 DEF Has, Joined
    <3> QED
      BY <1>5, <3>1, <3>2 DEF Joined
  <2> QED
    BY <1>6, <2>1 DEF Announced
<1>14. ClosedLast'
  <2>1. \A i \in EventIn : wire[i].ev = "closed" => wire[i].w # w
    BY <1>1 DEF ClosedLast, IInv, EventInv
  <2> QED
    BY <1>3, <1>4, <1>5, <1>10, <1>11, <2>1 DEF ClosedLast, IInv, EventInv, Joined
<1>15. Owing'
  BY <1>1, <1>4, <1>5 DEF Owing, IInv, EventInv, Joined
<1>16. LastTrue'
  <2> SUFFICES ASSUME NEW i \in EventIn', wire'[i].ev \in Field, real'[wire'[i].w].st = "open",
                      \A j \in EventIn' : i < j /\ wire'[j].w = wire'[i].w => wire'[j].ev # wire'[i].ev
               PROVE  wire'[i].on = real'[wire'[i].w][wire'[i].ev]
    BY DEF LastTrue
  <2>1. CASE i = Last
    BY <1>4, <1>5, <2>1 DEF Joined, b
  <2>2. CASE i \in EventIn
    <3>1. wire'[i] = wire[i] /\ wire[i].w \in Window /\ i < Last
      BY <1>5, <1>11, <2>2 DEF Joined
    <3>2. wire[i].w = w => wire[i].ev # f
      BY <1>4, <1>5, <3>1 DEF Joined
    <3>3. /\ real[wire[i].w].st = "open"
          /\ real'[wire[i].w][wire[i].ev] = real[wire[i].w][wire[i].ev]
      BY <1>1, <1>3, <3>1, <3>2
    <3> QED
      BY <1>5, <2>2, <3>1, <3>3 DEF LastTrue, IInv, EventInv, Joined
  <2> QED
    BY <1>5, <2>1, <2>2 DEF Joined
<1> QED
  BY <1>7, <1>9, <1>12, <1>13, <1>14, <1>15, <1>16 DEF EventInv

LEMMA DoneStep ==
  ASSUME IInv, up, NEW w \in Window, Done(w)
  PROVE  TypeOK' /\ EventInv' /\ WindowInv'
<1> DEFINE e == Event(w, "done", FALSE)
<1>1. /\ w \in owed /\ Room /\ Send(e) /\ SameTops /\ owed' = owed \ {w}
      /\ UNCHANGED <<real, tl, asked>>
  BY DEF Done, SameTops
<1>2. e \in EventSet /\ e.w = w /\ e.ev = "done"
  BY DEF Event, EventSet
<1> HIDE DEF e
<1>3. wire' \in Seq(EventSet) /\ Len(wire') <= MaxWire /\ Joined(e)
  BY <1>1, <1>2, Sending DEF IInv
<1>4. Known(w) /\ real[w].st = "open"
  BY <1>1 DEF IInv, WindowInv, Known, TypeOK, RealSet
<1>5. TypeOK'
  BY <1>1, <1>3 DEF IInv, TypeOK, SameTops
<1>6. Known(w)'
  <2>1. Has(w, Closing)'
    BY <1>2, <1>3 DEF Has, Joined, Closing
  <2>2. \A evs : Has(w, evs) => Has(w, evs)'
    BY <1>3 DEF Has, Joined
  <2>3. tl[w].at # "freed" /\ (tl[w].at = "live" \/ Has(w, {"toplevel"}))
    BY <1>4 DEF Known
  <2> QED
    BY <1>1, <1>4, <2>1, <2>2, <2>3 DEF Known, Shown
<1>7. WindowInv'
  BY <1>1, <1>2, <1>3, <1>6, OthersSend DEF WindowInv
<1>8. AnnouncedFirst'
  BY <1>1, <1>2, <1>3 DEF AnnouncedFirst, IInv, EventInv, Joined
<1>9. Announced'
  <2> SUFFICES ASSUME NEW i \in EventIn', wire'[i].ev # "toplevel"
               PROVE  \/ tl[wire'[i].w].at = "live"
                      \/ \E j \in EventIn' : j < i /\ wire'[j].w = wire'[i].w /\ wire'[j].ev = "toplevel"
    BY <1>1 DEF Announced
  <2>1. CASE i \in EventIn
    BY <1>3, <2>1 DEF Announced, IInv, EventInv, Joined
  <2>2. CASE i = Last
    <3>1. tl[w].at = "live" \/ Has(w, {"toplevel"})
      BY <1>4 DEF Known
    <3>2. wire'[i].w = w
      BY <1>2, <1>3, <2>2 DEF Joined
    <3> QED
      BY <1>3, <2>2, <3>1, <3>2 DEF Has, Joined
  <2> QED
    BY <1>3, <2>1, <2>2 DEF Joined
<1>10. ClosedLast'
  <2>1. \A i \in EventIn : wire[i].ev = "closed" => wire[i].w # w
    BY <1>4 DEF ClosedLast, IInv, EventInv
  <2> QED
    BY <1>1, <1>2, <1>3, <2>1 DEF ClosedLast, IInv, EventInv, Joined
<1>11. Owing'
  BY <1>1, <1>2, <1>3 DEF Owing, IInv, EventInv, Joined, Field, Closing
<1>12. LastTrue'
  <2> SUFFICES ASSUME NEW i \in EventIn', wire'[i].ev \in Field, real[wire'[i].w].st = "open",
                      \A j \in EventIn' : i < j /\ wire'[j].w = wire'[i].w => wire'[j].ev # wire'[i].ev
               PROVE  wire'[i].on = real[wire'[i].w][wire'[i].ev]
    BY <1>1 DEF LastTrue
  <2>1. i \in EventIn /\ wire'[i] = wire[i]
    BY <1>2, <1>3 DEF Joined, Field
  <2>2. \A j \in EventIn : i < j /\ wire[j].w = wire[i].w => wire[j].ev # wire[i].ev
    BY <1>3, <2>1 DEF Joined
  <2> QED
    BY <2>1, <2>2 DEF LastTrue, IInv, EventInv
<1> QED
  BY <1>5, <1>7, <1>8, <1>9, <1>10, <1>11, <1>12 DEF EventInv

LEMMA CloseStep ==
  ASSUME IInv, up, NEW w \in Window, Close(w)
  PROVE  TypeOK' /\ EventInv' /\ WindowInv'
<1> DEFINE e == Event(w, "closed", FALSE)
<1>1. /\ real[w].st = "open" /\ Room /\ Send(e) /\ SameTops /\ UNCHANGED tl
      /\ owed' = owed \ {w} /\ asked' = asked \ {w}
      /\ real' = [real EXCEPT ![w] = [Unborn EXCEPT !.st = "gone"]]
  BY DEF Close, SameTops, Open
<1>2. e \in EventSet /\ e.w = w /\ e.ev = "closed"
  BY DEF Event, EventSet
<1> HIDE DEF e
<1>3. wire' \in Seq(EventSet) /\ Len(wire') <= MaxWire /\ Joined(e)
  BY <1>1, <1>2, Sending DEF IInv
<1>4. /\ real' \in [Window -> RealSet] /\ real'[w].st = "gone"
      /\ \A v \in Window : v # w => real'[v] = real[v]
  <2> DEFINE g == [Unborn EXCEPT !.st = "gone"]
  <2>1. g \in RealSet /\ g.st = "gone"
    BY DEF Unborn, RealSet
  <2> HIDE DEF g
  <2> QED
    BY <1>1, <2>1 DEF IInv, TypeOK, g
<1>5. Known(w)
  BY DEF IInv, WindowInv
<1>6. TypeOK'
  BY <1>1, <1>3, <1>4 DEF IInv, TypeOK, SameTops
<1>7. Known(w)'
  <2>1. Has(w, {"closed"})' /\ Has(w, Closing)'
    BY <1>2, <1>3 DEF Has, Joined, Closing
  <2>2. tl[w].at # "freed"
    BY <1>1, <1>5 DEF Known
  <2> QED
    BY <1>1, <1>4, <1>5, <2>1, <2>2 DEF Known, Shown
<1>8. WindowInv'
  BY <1>1, <1>2, <1>3, <1>4, <1>7, OthersSend DEF WindowInv
<1>9. \A i \in EventIn : wire[i].w \in Window
  BY WireType, EventFields DEF IInv
<1>10. \A i \in EventIn : wire[i].ev = "closed" => wire[i].w # w
  BY <1>1 DEF ClosedLast, IInv, EventInv
<1>11. AnnouncedFirst'
  BY <1>1, <1>2, <1>3 DEF AnnouncedFirst, IInv, EventInv, Joined
<1>12. Announced'
  <2> SUFFICES ASSUME NEW i \in EventIn', wire'[i].ev # "toplevel"
               PROVE  \/ tl[wire'[i].w].at = "live"
                      \/ \E j \in EventIn' : j < i /\ wire'[j].w = wire'[i].w /\ wire'[j].ev = "toplevel"
    BY <1>1 DEF Announced
  <2>1. CASE i \in EventIn
    BY <1>3, <2>1 DEF Announced, IInv, EventInv, Joined
  <2>2. CASE i = Last
    <3>1. tl[w].at = "live" \/ Has(w, {"toplevel"})
      BY <1>1, <1>5 DEF Known
    <3>2. wire'[i].w = w
      BY <1>2, <1>3, <2>2 DEF Joined
    <3> QED
      BY <1>3, <2>2, <3>1, <3>2 DEF Has, Joined
  <2> QED
    BY <1>3, <2>1, <2>2 DEF Joined
<1>13. ClosedLast'
  <2> SUFFICES ASSUME NEW i \in EventIn', wire'[i].ev = "closed"
               PROVE  /\ real'[wire'[i].w].st = "gone"
                      /\ \A j \in EventIn' : wire'[j].w = wire'[i].w => j <= i
    BY DEF ClosedLast
  <2>1. CASE i \in EventIn
    <3>1. wire'[i] = wire[i] /\ wire[i].w # w
      BY <1>3, <1>10, <2>1 DEF Joined
    <3>2. real'[wire[i].w].st = "gone"
      BY <1>4, <1>9, <2>1, <3>1 DEF ClosedLast, IInv, EventInv
    <3> QED
      BY <1>2, <1>3, <2>1, <3>1, <3>2 DEF ClosedLast, IInv, EventInv, Joined
  <2>2. CASE i = Last
    <3>1. \A j \in EventIn' : j <= Last
      BY <1>3 DEF Joined
    <3> QED
      BY <1>2, <1>3, <1>4, <2>2, <3>1 DEF Joined
  <2> QED
    BY <1>3, <2>1, <2>2 DEF Joined
<1>14. Owing'
  BY <1>1, <1>2, <1>3 DEF Owing, IInv, EventInv, Joined, Field, Closing
<1>15. LastTrue'
  <2> SUFFICES ASSUME NEW i \in EventIn', wire'[i].ev \in Field, real'[wire'[i].w].st = "open",
                      \A j \in EventIn' : i < j /\ wire'[j].w = wire'[i].w => wire'[j].ev # wire'[i].ev
               PROVE  wire'[i].on = real'[wire'[i].w][wire'[i].ev]
    BY DEF LastTrue
  <2>1. i \in EventIn /\ wire'[i] = wire[i]
    BY <1>2, <1>3 DEF Joined, Field
  <2>2. real'[wire[i].w] = real[wire[i].w]
    BY <1>4, <1>9, <2>1
  <2>3. \A j \in EventIn : i < j /\ wire[j].w = wire[i].w => wire[j].ev # wire[i].ev
    BY <1>3, <2>1 DEF Joined
  <2> QED
    BY <2>1, <2>2, <2>3 DEF LastTrue, IInv, EventInv
<1> QED
  BY <1>6, <1>8, <1>11, <1>12, <1>13, <1>14, <1>15 DEF EventInv

-----------------------------------------------------------------------------
(* The listeners.  The event read is about w; only its Toplevel changes.   *)

\* The order of what is left on the way, once w, if there is more about it,
\* has a Toplevel.
LEMMA EventsRead ==
  ASSUME TypeOK, EventInv, Shifted, UNCHANGED <<real, owed>>, NEW w \in Window, wire[1].w = w,
         \A v \in Window : v # w => tl'[v] = tl[v],
         Any(w)' => tl'[w].at = "live"
  PROVE  EventInv'
<1>1. \A i \in EventIn : wire[i].w \in Window /\ i \in Nat
  BY WireType, EventFields
<1>2. /\ 1 \in EventIn
      /\ \A i \in EventIn' : i \in Nat /\ i + 1 \in EventIn /\ wire'[i] = wire[i + 1]
      /\ \A i \in EventIn : i = 1 \/ (i - 1 \in EventIn' /\ wire'[i - 1] = wire[i])
  BY DEF Shifted
<1>3. AnnouncedFirst'
  <2> SUFFICES ASSUME NEW i \in EventIn', wire'[i].ev = "toplevel"
               PROVE  /\ tl'[wire'[i].w].at = "none"
                      /\ \A j \in EventIn' : wire'[j].w = wire'[i].w => i <= j
    BY DEF AnnouncedFirst
  <2>1. i + 1 \in EventIn /\ wire'[i] = wire[i + 1] /\ i \in Nat
    BY <1>2
  <2>2. /\ tl[wire[i + 1].w].at = "none"
        /\ \A j \in EventIn : wire[j].w = wire[i + 1].w => i + 1 <= j
    BY <2>1 DEF EventInv, AnnouncedFirst
  <2>3. wire[i + 1].w # w /\ wire[i + 1].w \in Window
    <3>1. 1 \in EventIn => ~(i + 1 <= 1) \/ i + 1 = 1
      BY <2>1
    <3>2. ~(i + 1 <= 1)
      <4>1. EventIn' \subseteq Nat /\ i >= 1
        BY <1>2, LenProperties, WireType, <2>1 DEF EventIn
      <4> QED
        BY <4>1
    <3> QED
      BY <1>1, <1>2, <2>1, <2>2, <3>2
  <2>4. \A j \in EventIn' : wire'[j].w = wire'[i].w => i <= j
    BY <1>2, <2>1, <2>2
  <2> QED
    BY <2>1, <2>2, <2>3, <2>4
<1>4. Announced'
  <2> SUFFICES ASSUME NEW i \in EventIn', wire'[i].ev # "toplevel"
               PROVE  \/ tl'[wire'[i].w].at = "live"
                      \/ \E j \in EventIn' : j < i /\ wire'[j].w = wire'[i].w /\ wire'[j].ev = "toplevel"
    BY DEF Announced
  <2>1. i + 1 \in EventIn /\ wire'[i] = wire[i + 1] /\ i \in Nat /\ wire[i + 1].w \in Window
    BY <1>1, <1>2
  <2>2. CASE wire[i + 1].w = w
    BY <2>1, <2>2 DEF Any
  <2>3. CASE wire[i + 1].w # w
    <3>1. CASE tl[wire[i + 1].w].at = "live"
      BY <2>1, <2>3, <3>1
    <3>2. CASE tl[wire[i + 1].w].at # "live"
      <4>1. PICK j \in EventIn : j < i + 1 /\ wire[j].w = wire[i + 1].w /\ wire[j].ev = "toplevel"
        BY <2>1, <3>2 DEF EventInv, Announced
      <4>2. j - 1 \in EventIn' /\ wire'[j - 1] = wire[j] /\ j - 1 < i
        BY <1>1, <1>2, <2>1, <2>3, <4>1
      <4> QED
        BY <2>1, <4>1, <4>2
    <3> QED
      BY <3>1, <3>2
  <2> QED
    BY <2>2, <2>3
<1>5. ClosedLast'
  <2> SUFFICES ASSUME NEW i \in EventIn', wire'[i].ev = "closed"
               PROVE  /\ real[wire'[i].w].st = "gone"
                      /\ \A j \in EventIn' : wire'[j].w = wire'[i].w => j <= i
    BY DEF ClosedLast
  <2>1. i + 1 \in EventIn /\ wire'[i] = wire[i + 1] /\ i \in Nat
    BY <1>2
  <2>2. /\ real[wire[i + 1].w].st = "gone"
        /\ \A j \in EventIn : wire[j].w = wire[i + 1].w => j <= i + 1
    BY <2>1 DEF EventInv, ClosedLast
  <2>3. \A j \in EventIn' : wire'[j].w = wire'[i].w => j <= i
    BY <1>2, <2>1, <2>2
  <2> QED
    BY <2>1, <2>2, <2>3
<1>6. Owing'
  <2> SUFFICES ASSUME NEW i \in EventIn', wire'[i].ev \in Field
               PROVE  \/ wire'[i].w \in owed
                      \/ \E j \in EventIn' : i < j /\ wire'[j].w = wire'[i].w /\ wire'[j].ev \in Closing
    BY DEF Owing
  <2>1. i + 1 \in EventIn /\ wire'[i] = wire[i + 1] /\ i \in Nat
    BY <1>2
  <2>2. CASE wire[i + 1].w \in owed
    BY <2>1, <2>2
  <2>3. CASE wire[i + 1].w \notin owed
    <3>1. PICK j \in EventIn : i + 1 < j /\ wire[j].w = wire[i + 1].w /\ wire[j].ev \in Closing
      BY <2>1, <2>3 DEF EventInv, Owing
    <3>2. j - 1 \in EventIn' /\ wire'[j - 1] = wire[j] /\ i < j - 1
      BY <1>1, <1>2, <2>1, <3>1
    <3> QED
      BY <2>1, <3>1, <3>2
  <2> QED
    BY <2>2, <2>3
<1>7. LastTrue'
  <2> SUFFICES ASSUME NEW i \in EventIn', wire'[i].ev \in Field, real[wire'[i].w].st = "open",
                      \A j \in EventIn' : i < j /\ wire'[j].w = wire'[i].w => wire'[j].ev # wire'[i].ev
               PROVE  wire'[i].on = real[wire'[i].w][wire'[i].ev]
    BY DEF LastTrue
  <2>1. i + 1 \in EventIn /\ wire'[i] = wire[i + 1] /\ i \in Nat
    BY <1>2
  <2>2. ASSUME NEW j \in EventIn, i + 1 < j, wire[j].w = wire[i + 1].w
        PROVE  wire[j].ev # wire[i + 1].ev
    <3>1. j - 1 \in EventIn' /\ wire'[j - 1] = wire[j] /\ i < j - 1
      BY <1>1, <1>2, <2>1, <2>2
    <3> QED
      BY <2>1, <2>2, <3>1
  <2> QED
    BY <2>1, <2>2 DEF EventInv, LastTrue
<1> QED
  BY <1>3, <1>4, <1>5, <1>6, <1>7 DEF EventInv

\* What is left on the way about each window.
LEMMA LeftOnTheWay ==
  ASSUME TypeOK, Shifted
  PROVE  /\ \A v \in Window : Any(v)' => Any(v)
         /\ \A v \in Window : \A evs : Has(v, evs)' => Has(v, evs)
         /\ \A v \in Window : \A evs :
              Has(v, evs) /\ (wire[1].w # v \/ wire[1].ev \notin evs) => Has(v, evs)'
         /\ \A v \in Window : wire[1].w # v /\ Any(v) => Any(v)'
  BY DEF Shifted, Any, Has

LEMMA OthersRead ==
  ASSUME IInv, up, Shifted, UNCHANGED <<real, owed>>, NEW w \in Window, wire[1].w = w,
         \A v \in Window : v # w => tl'[v] = tl[v]
  PROVE  \A v \in Window : v # w => Known(v)'
<1> SUFFICES ASSUME NEW v \in Window, v # w PROVE Known(v)'
  OBVIOUS
<1>1. Known(v)
  BY DEF IInv, WindowInv
<1>2. (Any(v)' <=> Any(v)) /\ \A evs : Has(v, evs)' <=> Has(v, evs)
  BY LeftOnTheWay DEF IInv
<1> QED
  BY <1>1, <1>2 DEF Known, Shown

\* An event other than "toplevel" finds its Toplevel.
LEMMA HeadLive ==
  ASSUME TypeOK, EventInv, 1 \in EventIn, wire[1].ev # "toplevel"
  PROVE  tl[wire[1].w].at = "live"
<1>1. \A j \in EventIn : ~(j < 1)
  BY WireType
<1> QED
  BY <1>1 DEF EventInv, Announced

\* What a listener must show: the Toplevel it leaves is known for what it is.
LEMMA Read ==
  ASSUME IInv, NEW ev, Receive(ev), NEW w \in Window, wire[1].w = w,
         NEW t \in TopSet, tl' = [tl EXCEPT ![w] = t],
         Any(w)' => t.at = "live",
         Known(w)', DividerMeansChips', menu' \in MenuSet, sep' \in BOOLEAN
  PROVE  IInv'
<1>1. /\ wire' \in Seq(EventSet) /\ Len(wire') <= MaxWire /\ Shifted
      /\ up /\ UNCHANGED <<real, owed, asked, up>>
  BY Reading DEF IInv
<1>2. /\ tl' \in [Window -> TopSet] /\ tl'[w] = t
      /\ \A v \in Window : v # w => tl'[v] = tl[v]
  BY DEF IInv, TypeOK
<1>3. TypeOK'
  BY <1>1, <1>2 DEF IInv, TypeOK
<1>4. EventInv'
  BY <1>1, <1>2, EventsRead DEF IInv
<1>5. WindowInv'
  BY <1>1, <1>2, OthersRead DEF WindowInv
<1>6. DownInv'
  BY <1>1 DEF DownInv
<1> QED
  BY <1>3, <1>4, <1>5, <1>6 DEF IInv

LEMMA DeliverStep ==
  ASSUME IInv, Deliver
  PROVE  IInv'
<1>1. PICK ev : Receive(ev) /\ ev \subseteq Field \cup {"toplevel", "done", "closed"}
  BY DEF Deliver, FtlNew, FtlName, FtlState, FtlDone, FtlClosed, Field
<1>2. /\ Shifted /\ Head(wire) = wire[1] /\ wire[1] \in EventSet
      /\ up /\ UNCHANGED <<real, owed, asked, up>>
  BY <1>1, Reading DEF IInv
<1>3. 1 \in EventIn /\ wire[1].w \in Window /\ wire[1].on \in BOOLEAN
  BY <1>2, EventFields DEF Shifted
<1>w. PICK w \in Window : wire[1].w = w
  BY <1>3
<1>4. Known(w) /\ Any(w) /\ tl[w] \in TopSet /\ TypeOK /\ EventInv /\ DividerMeansChips
  BY <1>2, <1>3, <1>w DEF IInv, WindowInv, Any, TypeOK
<1>5. real[w].st # "unborn" /\ tl[w].at # "freed"
  BY <1>4 DEF Known
<1>6. wire[1].ev # "toplevel" => tl[w].at = "live"
  BY <1>3, <1>w, <1>4, HeadLive
<1>7. /\ \A evs : Has(w, evs)' => Has(w, evs)
      /\ \A evs : Has(w, evs) /\ wire[1].ev \notin evs => Has(w, evs)'
  BY <1>2, <1>3, <1>w, <1>4, LeftOnTheWay
<1>8. menu \in MenuSet /\ sep \in BOOLEAN /\ tl \in [Window -> TopSet]
  BY <1>4 DEF TypeOK
<1>9. ASSUME sep' = AnyChip(tl') PROVE DividerMeansChips' /\ sep' \in BOOLEAN
  BY <1>9, Zenon DEF DividerMeansChips, AnyChip
<1>10. CASE FtlNew
  <2>e. Receive({"toplevel"}) /\ wire[1].ev = "toplevel"
    <3>1. Receive({"toplevel"})
      BY <1>10 DEF FtlNew
    <3> QED
      BY <1>4, <3>1, Reading
  <2>1. /\ Receive({"toplevel"}) /\ wire[1].ev = "toplevel" /\ sep' = sep
        /\ tl' = [tl EXCEPT ![w] = NewTop]
        /\ menu' = IF menu # NoMenu /\ tl[menu.w].at = "freed"
                   THEN [menu EXCEPT !.later = @ \cup {w}] ELSE menu
    BY <2>e, <1>2, <1>10, <1>w DEF FtlNew
  <2>2. tl[w].at = "none" /\ Blank(tl[w])
    BY <1>3, <1>4, <1>5, <2>1, <1>w DEF EventInv, AnnouncedFirst, Known
  <2>3. tl'[w] = NewTop /\ NewTop \in TopSet /\ NewTop.at = "live" /\ Blank(NewTop)
    BY <1>3, <1>8, <2>1, NewTops
  <2>4. Known(w)'
    <3>1. ~Shown(w)' /\ ~Named(tl'[w])
      BY <2>3 DEF Shown, Blank, Named, Field
    <3>2. real[w].st = "gone" => w \notin owed /\ Has(w, {"closed"})'
      BY <1>4, <1>5, <1>7, <2>1 DEF Known
    <3>3. ASSUME NEW f \in Field, real[w].st # "gone", ~Has(w, {f})' PROVE tl'[w][f] = real[w][f]
      <4>1. ~Has(w, {f})
        BY <1>7, <2>1, <3>3 DEF Field
      <4> QED
        BY <1>4, <2>2, <2>3, <3>3, <4>1 DEF Known, Blank
    <3> QED
      BY <1>2, <1>5, <2>3, <3>1, <3>2, <3>3 DEF Known
  <2>5. DividerMeansChips'
    BY <1>3, <1>4, <1>8, <2>1, <2>2, <2>3 DEF DividerMeansChips, AnyChip, Blank
  <2>6. menu' \in MenuSet
    <3>1. CASE menu # NoMenu /\ tl[menu.w].at = "freed"
      <4>1. menu \in [kind : {"task"}, w : Window, later : SUBSET Window]
        BY <1>8, <3>1 DEF MenuSet
      <4>2. [menu EXCEPT !.later = @ \cup {w}] \in [kind : {"task"}, w : Window, later : SUBSET Window]
        BY <1>3, <4>1
      <4> QED
        BY <2>1, <3>1, <4>2 DEF MenuSet
    <3>2. CASE ~(menu # NoMenu /\ tl[menu.w].at = "freed")
      BY <1>8, <2>1, <3>2
    <3> QED
      BY <3>1, <3>2
  <2> QED
    BY <1>3, <1>8, <2>1, <2>3, <2>4, <2>5, <2>6, Read, <1>w
<1>11. CASE FtlName
  <2>f. PICK f \in {"title", "app_id"} : wire[1].ev = f
    BY <1>2, <1>11, Reading DEF FtlName, IInv
  <2>r. PICK r : r = [tl[w] EXCEPT ![f] = wire[1].on]
    OBVIOUS
  <2>t. PICK t : t = Updated(r)
    OBVIOUS
  <2>1. /\ Receive({"title", "app_id"})
        /\ tl' = [tl EXCEPT ![w] = t] /\ sep' = AnyChip(tl') /\ menu' = menu
    BY <1>2, <1>11, <1>w, <2>f, <2>r, <2>t DEF FtlName
  <2>2. /\ r \in TopSet /\ r.at = tl[w].at /\ r[f] = wire[1].on
        /\ \A g \in Field : g # f => r[g] = tl[w][g]
    BY <1>3, <1>4, <2>r, Setting DEF Field
  <2>3. /\ t \in TopSet /\ t.at = r.at /\ \A g \in Field : t[g] = r[g]
        /\ (t.chip = "shown" <=> Named(r)) /\ (Named(r) => t.class = t.active)
    BY <2>2, <2>t, Updating
  <2>4. tl'[w] = t /\ t.at = "live" /\ (Named(t) <=> Named(r)) /\ f \in Field /\ f \notin {"closed"}
    BY <1>3, <1>6, <1>8, <2>f, <2>1, <2>2, <2>3 DEF Named, Field
  <2>5. Known(w)'
    <3>1. (Shown(w)' <=> Named(tl'[w])) /\ (Shown(w)' => tl'[w].class = tl'[w].active)
      BY <2>3, <2>4 DEF Shown
    <3>2. real[w].st = "gone" => w \notin owed /\ Has(w, {"closed"})'
      BY <1>4, <1>5, <1>7, <2>f DEF Known
    <3>3. ASSUME NEW g \in Field, real[w].st # "gone", ~Has(w, {g})' PROVE tl'[w][g] = real[w][g]
      <4>1. CASE g # f
        <5>1. ~Has(w, {g})
          BY <1>7, <2>f, <3>3, <4>1
        <5> QED
          BY <1>4, <2>2, <2>3, <2>4, <3>3, <4>1, <5>1 DEF Known
      <4>2. CASE g = f
        <5>1. \A j \in EventIn : 1 < j /\ wire[j].w = w => wire[j].ev # f
          BY <1>2, <3>3, <4>2 DEF Has, Shifted
        <5>2. real[w].st = "open"
          BY <1>3, <1>4, <1>5, <3>3 DEF TypeOK, RealSet
        <5>3. wire[1].on = real[w][f]
          BY <1>3, <1>4, <1>w, <2>f, <2>4, <5>1, <5>2 DEF EventInv, LastTrue
        <5> QED
          BY <2>2, <2>3, <2>4, <4>2, <5>3
      <4> QED
        BY <4>1, <4>2
    <3> QED
      BY <1>2, <1>5, <2>4, <3>1, <3>2, <3>3 DEF Known
  <2>6. DividerMeansChips' /\ sep' \in BOOLEAN
    BY <1>9, <2>1
  <2> QED
    BY <1>3, <1>8, <2>1, <2>3, <2>4, <2>5, <2>6, Read, <1>w
<1>12. CASE FtlState
  <2>t. PICK t : t = [tl[w] EXCEPT !["active"] = wire[1].on]
    OBVIOUS
  <2>e. Receive({"active"}) /\ wire[1].ev = "active"
    <3>1. Receive({"active"})
      BY <1>12 DEF FtlState
    <3> QED
      BY <1>4, <3>1, Reading
  <2>1. /\ Receive({"active"}) /\ wire[1].ev = "active"
        /\ tl' = [tl EXCEPT ![w] = t] /\ sep' = sep /\ menu' = menu
    BY <2>e, <1>2, <1>12, <2>t, <1>w DEF FtlState
  <2>3. /\ t \in TopSet /\ t.at = tl[w].at /\ t.chip = tl[w].chip /\ t["active"] = wire[1].on
        /\ \A g \in Field : g # "active" => t[g] = tl[w][g]
    BY <1>3, <1>4, <2>t, Setting DEF Field
  <2>4. tl'[w] = t /\ t.at = "live" /\ (Named(t) <=> Named(tl[w]))
    BY <1>3, <1>6, <1>8, <2>1, <2>3 DEF Named, Field
  <2>5. Known(w)'
    <3>1. (Shown(w)' <=> Named(tl'[w]))
      BY <1>4, <1>6, <2>1, <2>3, <2>4 DEF Shown, Known
    <3>2. real[w].st = "gone" => w \notin owed /\ Has(w, {"closed"})'
      BY <1>4, <1>5, <1>7, <2>1 DEF Known
    <3>3. w \in owed \/ Has(w, Closing)'
      <4>1. CASE w \notin owed
        <5>1. PICK j \in EventIn : 1 < j /\ wire[j].w = w /\ wire[j].ev \in Closing
          BY <1>3, <1>4, <2>1, <4>1, <1>w DEF EventInv, Owing, Field
        <5> QED
          BY <1>2, <5>1 DEF Has, Shifted
      <4> QED
        BY <4>1
    <3>4. ASSUME NEW g \in Field, real[w].st # "gone", ~Has(w, {g})' PROVE tl'[w][g] = real[w][g]
      <4>1. CASE g # "active"
        <5>1. ~Has(w, {g})
          BY <1>7, <2>1, <3>4, <4>1
        <5> QED
          BY <1>4, <2>3, <2>4, <3>4, <4>1, <5>1 DEF Known
      <4>2. CASE g = "active"
        <5>1. \A j \in EventIn : 1 < j /\ wire[j].w = w => wire[j].ev # "active"
          BY <1>2, <3>4, <4>2 DEF Has, Shifted
        <5>2. real[w].st = "open"
          BY <1>3, <1>4, <1>5, <3>4 DEF TypeOK, RealSet
        <5>3. wire[1].on = real[w]["active"]
          BY <1>3, <1>4, <2>1, <4>2, <5>1, <5>2, <1>w DEF EventInv, LastTrue
        <5> QED
          BY <2>3, <2>4, <4>2, <5>3
      <4> QED
        BY <4>1, <4>2
    <3> QED
      BY <1>2, <1>5, <2>4, <3>1, <3>2, <3>3, <3>4 DEF Known
  <2>6. DividerMeansChips'
    BY <1>3, <1>4, <1>8, <2>1, <2>3, <2>4 DEF DividerMeansChips, AnyChip
  <2> QED
    BY <1>3, <1>8, <2>1, <2>3, <2>4, <2>5, <2>6, Read, <1>w
<1>13. CASE FtlDone
  <2>t. PICK t : t = Updated(tl[w])
    OBVIOUS
  <2>e. Receive({"done"}) /\ wire[1].ev = "done"
    <3>1. Receive({"done"})
      BY <1>13 DEF FtlDone
    <3> QED
      BY <1>4, <3>1, Reading
  <2>1. /\ Receive({"done"}) /\ wire[1].ev = "done"
        /\ tl' = [tl EXCEPT ![w] = t] /\ sep' = AnyChip(tl') /\ menu' = menu
    BY <2>e, <1>2, <1>13, <2>t, <1>w DEF FtlDone
  <2>2. /\ t \in TopSet /\ t.at = tl[w].at /\ \A g \in Field : t[g] = tl[w][g]
        /\ (t.chip = "shown" <=> Named(tl[w])) /\ (Named(tl[w]) => t.class = t.active)
    BY <1>4, <2>t, Updating
  <2>3. tl'[w] = t /\ t.at = "live" /\ (Named(t) <=> Named(tl[w]))
    BY <1>3, <1>6, <1>8, <2>1, <2>2 DEF Named, Field
  <2>4. Known(w)'
    <3>1. (Shown(w)' <=> Named(tl'[w])) /\ (Shown(w)' => tl'[w].class = tl'[w].active)
      BY <2>2, <2>3 DEF Shown
    <3>2. real[w].st = "gone" => w \notin owed /\ Has(w, {"closed"})'
      BY <1>4, <1>5, <1>7, <2>1 DEF Known
    <3>3. ASSUME NEW g \in Field, real[w].st # "gone", ~Has(w, {g})' PROVE tl'[w][g] = real[w][g]
      <4>1. ~Has(w, {g})
        BY <1>7, <2>1, <3>3 DEF Field
      <4> QED
        BY <1>4, <2>2, <2>3, <3>3, <4>1 DEF Known
    <3> QED
      BY <1>2, <1>5, <2>3, <3>1, <3>2, <3>3 DEF Known
  <2>5. DividerMeansChips' /\ sep' \in BOOLEAN
    BY <1>9, <2>1
  <2> QED
    BY <1>3, <1>8, <2>1, <2>2, <2>3, <2>4, <2>5, Read, <1>w
<1>14. CASE FtlClosed
  <2>t. PICK t : t = [NoTop EXCEPT !.at = "freed"]
    OBVIOUS
  <2>e. Receive({"closed"}) /\ wire[1].ev = "closed"
    <3>1. Receive({"closed"})
      BY <1>14 DEF FtlClosed
    <3> QED
      BY <1>4, <3>1, Reading
  <2>1. /\ Receive({"closed"}) /\ wire[1].ev = "closed"
        /\ tl' = [tl EXCEPT ![w] = t] /\ sep' = AnyChip(tl') /\ menu' = menu
    BY <2>e, <1>2, <1>14, <2>t, <1>w DEF FtlClosed
  <2>2. t \in TopSet /\ t.at = "freed" /\ Blank(t)
    BY <2>t, NewTops
  <2>3. tl'[w] = t
    BY <1>3, <1>8, <2>1
  <2>4. real[w].st = "gone" /\ \A j \in EventIn : wire[j].w = w => j <= 1
    BY <1>3, <1>4, <2>1, <1>w DEF EventInv, ClosedLast
  <2>5. ~Any(w)'
    <3>1. \A i \in EventIn' : i >= 1 /\ i \in Nat
      <4>1. Len(wire') \in Nat /\ EventIn' = 1..Len(wire')
        BY <1>1, Reading, LenProperties DEF IInv, EventIn
      <4> QED
        BY <4>1
    <3> QED
      BY <1>2, <2>4, <3>1 DEF Any, Shifted
  <2>6. Known(w)'
    <3>1. ~Shown(w)' /\ w \notin owed
      BY <1>4, <2>2, <2>3, <2>4 DEF Shown, Blank, Known
    <3> QED
      BY <1>2, <2>2, <2>3, <2>4, <2>5, <3>1 DEF Known
  <2>7. DividerMeansChips' /\ sep' \in BOOLEAN
    BY <1>9, <2>1
  <2> QED
    BY <1>3, <1>8, <2>1, <2>2, <2>5, <2>6, <2>7, Read, <1>w
<1> QED
  BY <1>10, <1>11, <1>12, <1>13, <1>14 DEF Deliver

-----------------------------------------------------------------------------
(* The other steps.                                                        *)

\* What the compositor does while the shell is down is not sent to anybody.
LEMMA DownSteps ==
  ASSUME IInv, ~up, NEW w \in Window,
         Map(w) \/ Done(w) \/ Close(w) \/ \E f \in Field : Change(w, f)
  PROVE  TypeOK' /\ EventInv' /\ WindowInv' /\ DownInv'
<1>1. /\ UNCHANGED <<wire, tl, sep, menu, up>> /\ owed' \subseteq Window /\ asked' \subseteq Window
  BY DEF IInv, TypeOK, Map, Done, Close, Change, Send
<1>2. real' \in [Window -> RealSet]
  <2>1. CASE Map(w)
    BY <2>1 DEF IInv, TypeOK, Map, RealSet
  <2>2. CASE Done(w)
    BY <2>2 DEF IInv, TypeOK, Done
  <2>3. CASE Close(w)
    <3>1. [Unborn EXCEPT !.st = "gone"] \in RealSet
      BY DEF Unborn, RealSet
    <3> QED
      BY <2>3, <3>1 DEF IInv, TypeOK, Close
  <2>4. CASE \E f \in Field : Change(w, f)
    <3>1. PICK f \in Field : real' = [real EXCEPT ![w] = [real[w] EXCEPT ![f] = ~real[w][f]]]
      BY <2>4 DEF Change
    <3>2. real[w] \in RealSet /\ real \in [Window -> RealSet]
      BY DEF IInv, TypeOK
    <3>3. PICK c \in BOOLEAN : real' = [real EXCEPT ![w] = [real[w] EXCEPT ![f] = c]]
      BY <3>1
    <3>4. PICK r : r = [real[w] EXCEPT ![f] = c]
      OBVIOUS
    <3>5. r \in RealSet
      BY <3>2, <3>4, RealSetting
    <3> QED
      BY <3>2, <3>3, <3>4, <3>5
  <2> QED
    BY <2>1, <2>2, <2>3, <2>4
<1>3. TypeOK'
  BY <1>1, <1>2 DEF IInv, TypeOK
<1>4. ~up' /\ wire' = <<>> /\ \A v \in Window : tl'[v] = NoTop
  BY <1>1 DEF IInv, DownInv
<1> QED
  BY <1>3, <1>4, Down

LEMMA CompositorStep ==
  ASSUME IInv, NEW w \in Window,
         Map(w) \/ Done(w) \/ Close(w) \/ \E f \in Field : Change(w, f)
  PROVE  IInv'
<1>1. UNCHANGED <<tl, sep, up>>
  BY DEF Map, Done, Close, Change
<1>2. DividerMeansChips'
  BY <1>1 DEF IInv, DividerMeansChips, AnyChip
<1>3. CASE up
  <2>1. TypeOK' /\ EventInv' /\ WindowInv'
    BY <1>3, MapStep, DoneStep, CloseStep, ChangeStep
  <2> QED
    BY <1>1, <1>2, <1>3, <2>1 DEF IInv, DownInv
<1>4. CASE ~up
  BY <1>2, <1>4, DownSteps DEF IInv
<1> QED
  BY <1>3, <1>4

\* A menu opens or closes, or the compositor is asked to close a window.
LEMMA Same ==
  ASSUME IInv, UNCHANGED <<real, owed, wire, tl, sep, up>>,
         menu' \in MenuSet, asked' \subseteq Window
  PROVE  IInv'
<1>1. TypeOK' /\ DividerMeansChips' /\ DownInv'
  BY DEF IInv, TypeOK, DividerMeansChips, AnyChip, DownInv
<1>2. EventInv'
  BY DEF IInv, EventInv, AnnouncedFirst, Announced, ClosedLast, Owing, LastTrue, EventIn
<1>3. WindowInv'
  BY DEF IInv, WindowInv, Known, Any, Has, EventIn, Shown, Blank
<1> QED
  BY <1>1, <1>2, <1>3 DEF IInv

\* A shell that starts, or one that has died.
LEMMA Fresh ==
  ASSUME real' \in [Window -> RealSet], owed' \subseteq Window, asked' \subseteq Window,
         menu' = NoMenu, up' \in BOOLEAN, sep' = FALSE, wire' = <<>>,
         tl' = [w \in Window |-> NoTop],
         up' => real' = [w \in Window |-> Unborn] /\ owed' = {}
  PROVE  IInv'
<1>1. wire' \in Seq(EventSet) /\ Len(wire') <= MaxWire /\ EventIn' = {}
  <2>1. Len(wire') = 0 /\ wire' \in Seq(EventSet) /\ EventIn' = {}
    BY EmptySeq DEF EventIn
  <2> QED
    BY <2>1, MaxWireAssumption
<1>2. NoTop \in TopSet /\ NoTop.at = "none" /\ NoTop.chip = "parked" /\ Blank(NoTop)
  BY NewTops DEF Blank
<1>3. TypeOK'
  BY <1>1, <1>2 DEF TypeOK, MenuSet
<1>4. DividerMeansChips'
  BY <1>2 DEF DividerMeansChips, AnyChip
<1>5. EventInv'
  BY <1>1 DEF EventInv, AnnouncedFirst, Announced, ClosedLast, Owing, LastTrue
<1>6. ASSUME up', NEW w \in Window PROVE Known(w)'
  <2>1. real'[w] = Unborn /\ tl'[w] = NoTop /\ w \notin owed' /\ ~Any(w)'
    BY <1>1, <1>6 DEF Any
  <2>2. Unborn.st = "unborn" /\ \A f \in Field : Unborn[f] = FALSE
    BY DEF Unborn, Field
  <2> QED
    BY <1>2, <2>1, <2>2 DEF Known, Shown, Blank
<1> QED
  BY <1>3, <1>4, <1>5, <1>6 DEF IInv, WindowInv, DownInv

LEMMA Initially == Init => IInv
<1> SUFFICES ASSUME Init PROVE IInv  OBVIOUS
<1>1. wire \in Seq(EventSet) /\ Len(wire) <= MaxWire /\ EventIn = {}
  <2>1. Len(wire) = 0 /\ wire \in Seq(EventSet) /\ EventIn = {}
    BY EmptySeq DEF EventIn, Init
  <2> QED
    BY <2>1, MaxWireAssumption
<1>2. NoTop \in TopSet /\ NoTop.at = "none" /\ NoTop.chip = "parked" /\ Blank(NoTop)
  BY NewTops DEF Blank
<1>3. Unborn \in RealSet /\ Unborn.st = "unborn" /\ \A f \in Field : Unborn[f] = FALSE
  BY DEF Unborn, RealSet, Field
<1>4. TypeOK
  BY <1>1, <1>2, <1>3 DEF TypeOK, MenuSet, Init
<1>5. DividerMeansChips
  BY <1>2 DEF DividerMeansChips, AnyChip, Init
<1>6. EventInv
  BY <1>1 DEF EventInv, AnnouncedFirst, Announced, ClosedLast, Owing, LastTrue
<1>7. ASSUME NEW w \in Window PROVE Known(w)
  <2>1. real[w] = Unborn /\ tl[w] = NoTop /\ w \notin owed /\ ~Any(w)
    BY <1>1 DEF Any, Init
  <2> QED
    BY <1>2, <1>3, <2>1 DEF Known, Shown, Blank
<1> QED
  BY <1>4, <1>5, <1>6, <1>7 DEF IInv, WindowInv, DownInv, Init

LEMMA Consecution == IInv /\ [Next]_vars => IInv'
<1> SUFFICES ASSUME IInv, [Next]_vars PROVE IInv'
  OBVIOUS
<1>1. CASE Deliver
  BY <1>1, DeliverStep
<1>2. CASE \E w \in Window : Map(w) \/ Done(w) \/ Close(w) \/ \E f \in Field : Change(w, f)
  BY <1>2, CompositorStep
<1>3. CASE \E w \in Window : TaskClicked(w)
  BY <1>3, CompositorStep DEF TaskClicked, Field
<1>4. CASE MenuClosed \/ \E w \in Window : TaskPress(w)
  <2>1. /\ UNCHANGED <<real, owed, wire, tl, sep, up, asked>> /\ menu' \in MenuSet
    BY <1>4 DEF MenuClosed, TaskPress, MenuSet
  <2> QED
    BY <2>1, Same DEF IInv, TypeOK
<1>5. CASE TaskQuit
  <2>1. /\ UNCHANGED <<real, owed, wire, tl, sep, up>> /\ menu' \in MenuSet /\ asked' \subseteq Window
    BY <1>5 DEF TaskQuit, MenuSet, IInv, TypeOK
  <2> QED
    BY <2>1, Same
<1>6. CASE TaskQuitCrash
  BY <1>6, Fresh DEF TaskQuitCrash, IInv, TypeOK
<1>7. CASE NewSession
  <2>1. Unborn \in RealSet
    BY DEF Unborn, RealSet
  <2> QED
    BY <1>7, <2>1, Fresh DEF NewSession
<1>8. CASE UNCHANGED vars
  BY <1>8, Same DEF vars, IInv, TypeOK
<1> QED
  BY <1>1, <1>2, <1>3, <1>4, <1>5, <1>6, <1>7, <1>8 DEF Next

-----------------------------------------------------------------------------
(* The theorems.                                                           *)

\* IInv holds throughout.
THEOREM Invariant == Spec => []IInv
  BY Initially, Consecution, PTL DEF Spec

\* Every variable of the taskbar has its type.
THEOREM TypeCorrect == Spec => []TypeOK
  BY Invariant, PTL DEF IInv

\* The divider is shown exactly when a chip is (dock_sep_sync).
THEOREM DividerIsRight == Spec => []DividerMeansChips
  BY Invariant, PTL DEF IInv

\* No listener and no chip has a freed Toplevel (ftl_new, ftl_closed).
THEOREM NothingDangles == Spec => []NoDanglingToplevel
<1>1. IInv => NoDanglingToplevel
  <2> SUFFICES ASSUME IInv PROVE NoDanglingToplevel
    OBVIOUS
  <2>1. wire \in Seq(EventSet) /\ Len(wire) \in Nat /\ EventIn = 1..Len(wire)
    BY WireType DEF IInv
  <2>2. ASSUME NEW i \in DOMAIN wire, wire[i].ev # "toplevel", tl[wire[i].w].at # "live"
        PROVE  \E j \in 1..(i - 1) : wire[j].w = wire[i].w /\ wire[j].ev = "toplevel"
    <3>1. PICK j \in EventIn : j < i /\ wire[j].w = wire[i].w /\ wire[j].ev = "toplevel"
      BY <2>2 DEF IInv, EventInv, Announced, EventIn
    <3>2. j \in 1..(i - 1)
      BY <2>1, <3>1 DEF EventIn
    <3> QED
      BY <3>1, <3>2
  <2>3. ASSUME NEW w \in Window, Shown(w) PROVE tl[w].at = "live"
    BY <2>3 DEF IInv, WindowInv, DownInv, Known, Blank, Shown, NoTop
  <2> QED
    BY <2>2, <2>3 DEF NoDanglingToplevel
<1> QED
  BY <1>1, Invariant, PTL

\* Once all there is to read about a window is read, its chip shows what the
\* window is (the listeners and update_task_button), however many windows there
\* are and in whatever order their events came.
THEOREM ChipsAreRight == Spec => []ChipsMirrorWindows
<1>1. IInv => ChipsMirrorWindows
  <2> SUFFICES ASSUME IInv, NEW w \in Window, Settled(w)
               PROVE  /\ Shown(w) <=> Open(w) /\ Named(real[w])
                      /\ Shown(w) => (tl[w].class <=> real[w].active)
    BY DEF ChipsMirrorWindows
  <2>1. Known(w) /\ ~Any(w) /\ w \notin owed /\ \A evs : ~Has(w, evs)
    BY DEF IInv, WindowInv, Settled, Any, Has, EventIn
  <2>2. real[w].st \in {"unborn", "open", "gone"} /\ tl[w] \in TopSet /\ real[w] \in RealSet
    BY DEF IInv, TypeOK, RealSet
  <2>3. CASE real[w].st = "open"
    <3>1. tl[w].at = "live" /\ \A f \in Field : tl[w][f] = real[w][f]
      BY <2>1, <2>3 DEF Known
    <3>2. tl[w].title = real[w].title /\ tl[w].app_id = real[w].app_id /\ tl[w].active = real[w].active
      BY <3>1 DEF Field
    <3>3. Shown(w) => tl[w].class = tl[w].active
      BY <2>1 DEF Known
    <3> QED
      BY <2>1, <2>3, <3>1, <3>2, <3>3 DEF Known, Open, Named
  <2>4. CASE real[w].st # "open"
    <3>1. tl[w].at # "live"
      BY <2>1, <2>2, <2>4 DEF Known
    <3> QED
      BY <2>1, <2>4, <3>1 DEF Known, Open, Shown, Blank
  <2> QED
    BY <2>3, <2>4
<1> QED
  BY <1>1, Invariant, PTL

=============================================================================
