-------------------------- MODULE Desktop_proofs --------------------------
(***************************************************************************)
(* Safety of Desktop for every set of applications and any number of pins. *)
(***************************************************************************)
EXTENDS Desktop, SequenceTheorems, TLAPS

IInv ==
  /\ TypeOK /\ PinsAgree /\ PinnedOnce /\ LauncherPointersLive
  /\ ToastHasItsTimer /\ OverlayMeansNight

Distinct(s) == \A i, j \in DOMAIN s : s[i] = s[j] => i = j
MenuSet == {NoMenu} \cup [kind : {"app"}, a : App, says : {"Pin", "Unpin"}]

-----------------------------------------------------------------------------
(* Sequences of pins.                                                      *)

LEMMA EmptyPins == <<>> \in Seq(App) /\ Distinct(<<>>)
  BY EmptySeq DEF Distinct

LEMMA FootPin == <<Foot>> \in Seq(App) /\ Distinct(<<Foot>>)
<1>1. <<Foot>> \in Seq(App) /\ DOMAIN <<Foot>> = 1..1
  BY FootAssumption
<1> QED
  BY <1>1 DEF Distinct

LEMMA WithoutPins ==
  ASSUME NEW s \in Seq(App), Distinct(s), NEW i \in DOMAIN s
  PROVE  Without(s, i) \in Seq(App) /\ Distinct(Without(s, i))
<1> DEFINE w == Without(s, i)
<1>1. Len(s) \in Nat /\ DOMAIN s = 1..Len(s) /\ i \in 1..Len(s) /\ Len(s) - 1 \in Nat
  BY LenProperties
<1>2. \A j \in 1..(Len(s) - 1) : j \in DOMAIN s /\ j + 1 \in DOMAIN s
  BY <1>1
<1>3. \A j \in DOMAIN s : s[j] \in App
  BY ElementOfSeq, <1>1
<1>4. w \in [1..(Len(s) - 1) -> App]
  BY <1>2, <1>3 DEF Without
<1>5. w \in Seq(App)
  <2>1. w \in UNION {[1..n -> App] : n \in Nat}
    BY <1>1, <1>4
  <2> QED
    BY <2>1, SeqDef
<1>6. Distinct(w)
  <2> SUFFICES ASSUME NEW j \in 1..(Len(s) - 1), NEW k \in 1..(Len(s) - 1), w[j] = w[k]
               PROVE  j = k
    BY <1>4 DEF Distinct
  <2> DEFINE of(n) == IF n < i THEN n ELSE n + 1
  <2>1. w[j] = s[of(j)] /\ w[k] = s[of(k)]
    BY DEF Without
  <2>2. of(j) \in DOMAIN s /\ of(k) \in DOMAIN s
    BY <1>2
  <2>3. of(j) = of(k)
    <3> HIDE DEF of
    <3> QED
      BY <2>1, <2>2 DEF Distinct
  <2> QED
    BY <1>1, <2>3
<1> QED
  BY <1>5, <1>6

LEMMA AppendPin ==
  ASSUME NEW s \in Seq(App), Distinct(s), NEW e \in App, \A i \in DOMAIN s : s[i] # e
  PROVE  Append(s, e) \in Seq(App) /\ Distinct(Append(s, e))
<1> DEFINE t == Append(s, e)
<1>1. /\ t \in Seq(App) /\ Len(t) = Len(s) + 1 /\ t[Len(s) + 1] = e
      /\ \A i \in 1..Len(s) : t[i] = s[i]
  BY AppendProperties
<1>2. Len(s) \in Nat /\ DOMAIN s = 1..Len(s) /\ DOMAIN t = 1..(Len(s) + 1)
  BY <1>1, LenProperties
<1> HIDE DEF t
<1>3. \A i \in DOMAIN t : i \in DOMAIN s \/ i = Len(s) + 1
  BY <1>2
<1> QED
  BY <1>1, <1>2, <1>3 DEF Distinct, t

-----------------------------------------------------------------------------
(* What the steps share.                                                   *)

FileSet == [there : BOOLEAN, pins : Seq(App)]

\* What a shell that starts now reads is a list of pins without repetition.
LEMMA Loading ==
  ASSUME NEW f \in FileSet, Distinct(f.pins)
  PROVE  Load(f) \in Seq(App) /\ Distinct(Load(f))
  BY FootPin DEF Load, FileSet

LEMMA Saving ==
  ASSUME TypeOK, PinnedOnce, pins' \in Seq(App), Distinct(pins'), SavePins, RebuildPinbox
  PROVE  /\ file' \in FileSet /\ Distinct(file'.pins) /\ lost' \in BOOLEAN
         /\ pinbox' = pins' /\ (~lost' => Load(file') = pins')
<1>1. CASE file' = [there |-> TRUE, pins |-> pins'] /\ lost' = FALSE
  BY <1>1 DEF RebuildPinbox, Load, FileSet
<1>2. CASE file' = file /\ lost' = TRUE
  BY <1>2 DEF RebuildPinbox, TypeOK, PinnedOnce, FileSet, Distinct
<1> QED
  BY <1>1, <1>2 DEF SavePins

\* A change of the pins, saved, keeps all that is said of them.
LEMMA Repinning ==
  ASSUME TypeOK, PinnedOnce, pins' \in Seq(App), Distinct(pins'), SavePins, RebuildPinbox
  PROVE  /\ pinbox' \in Seq(App) /\ file' \in FileSet /\ lost' \in BOOLEAN
         /\ PinsAgree' /\ PinnedOnce'
<1>1. /\ file' \in FileSet /\ Distinct(file'.pins) /\ lost' \in BOOLEAN
      /\ pinbox' = pins' /\ (~lost' => Load(file') = pins')
  BY Saving
<1>2. PinsAgree'
  BY <1>1 DEF PinsAgree, Load
<1> QED
  BY <1>1, <1>2 DEF PinnedOnce, Distinct

LEMMA Unpinning ==
  ASSUME TypeOK, PinnedOnce, NEW e, UnpinExec(e)
  PROVE  /\ pins' \in Seq(App) /\ pinbox' \in Seq(App) /\ file' \in FileSet /\ lost' \in BOOLEAN
         /\ PinsAgree' /\ PinnedOnce'
<1>1. PICK i \in DOMAIN pins : pins' = Without(pins, i)
  BY DEF UnpinExec
<1>2. pins \in Seq(App) /\ Distinct(pins)
  BY DEF TypeOK, PinnedOnce, Distinct
<1>3. pins' \in Seq(App) /\ Distinct(pins')
  BY <1>1, <1>2, WithoutPins
<1> QED
  BY <1>3, Repinning DEF UnpinExec

LEMMA Pinning ==
  ASSUME TypeOK, PinnedOnce, NEW e \in App, PinApp(e)
  PROVE  /\ pins' \in Seq(App) /\ pinbox' \in Seq(App) /\ file' \in FileSet /\ lost' \in BOOLEAN
         /\ PinsAgree' /\ PinnedOnce'
<1>1. pins \in Seq(App) /\ Distinct(pins) /\ \A i \in DOMAIN pins : pins[i] # e
  BY DEF TypeOK, PinnedOnce, Distinct, PinApp, IsPinned
<1>2. pins' \in Seq(App) /\ Distinct(pins')
  BY <1>1, AppendPin DEF PinApp
<1> QED
  BY <1>2, Repinning DEF PinApp

ToastOK == toast \in [shown : BOOLEAN, timer : 0..2] /\ timers \subseteq 1..2

\* A new toast takes the place of the one before, timer and all.
LEMMA Toasting ==
  ASSUME ToastOK, ToastHasItsTimer, AuroraToast
  PROVE  ToastOK' /\ ToastHasItsTimer'
<1>1. NextId \in 1..2
  BY DEF NextId
<1>2. /\ toast' \in [shown : BOOLEAN, timer : 0..2]
      /\ toast'.shown = TRUE /\ toast'.timer = NextId
  BY <1>1 DEF AuroraToast
<1>3. timers' = {NextId}
  BY DEF AuroraToast, ToastHasItsTimer
<1> QED
  BY <1>1, <1>2, <1>3 DEF ToastOK, ToastHasItsTimer

-----------------------------------------------------------------------------
LEMMA Initially == Init => IInv
<1> SUFFICES ASSUME Init PROVE IInv  OBVIOUS
<1>1. pins = <<Foot>> /\ pinbox = <<Foot>> /\ file = [there |-> FALSE, pins |-> <<>>]
  BY DEF Init, Load
<1>2. file \in FileSet /\ file.pins = <<>>
  BY <1>1, EmptyPins DEF FileSet
<1>3. toast = [shown |-> FALSE, timer |-> 0] /\ timers = {}
  BY DEF Init
<1>4. toast \in [shown : BOOLEAN, timer : 0..2] /\ ToastHasItsTimer
  BY <1>3 DEF ToastHasItsTimer
<1>5. TypeOK
  BY <1>1, <1>2, <1>3, <1>4, FootPin, FootAssumption DEF Init, TypeOK, FileSet
<1>6. PinsAgree /\ PinnedOnce
  BY <1>1, <1>2, FootPin, EmptyPins DEF PinsAgree, PinnedOnce, Distinct, Load
<1> QED
  BY <1>4, <1>5, <1>6 DEF IInv, LauncherPointersLive, OverlayMeansNight, Init

LEMMA Consecution == IInv /\ [Next]_vars => IInv'
<1> SUFFICES ASSUME IInv, [Next]_vars PROVE IInv'
  OBVIOUS
<1> USE DEF vars, launcherVars, pinVars, toastVars, nightVars
<1> DEFINE Pinned == PinsAgree' /\ PinnedOnce'
<1>1. TypeOK /\ PinnedOnce /\ ToastOK /\ ToastHasItsTimer
  BY DEF IInv, TypeOK, ToastOK
<1>2. ASSUME UNCHANGED pinVars PROVE Pinned
  BY <1>2 DEF IInv, PinsAgree, PinnedOnce, Load
<1>3. ASSUME UNCHANGED toastVars PROVE ToastOK' /\ ToastHasItsTimer'
  BY <1>1, <1>3 DEF ToastOK, ToastHasItsTimer
<1>4. ASSUME UNCHANGED nightVars PROVE OverlayMeansNight'
  BY <1>4 DEF IInv, OverlayMeansNight
<1>5. ASSUME menu' = NoMenu, fresh' = TRUE PROVE LauncherPointersLive'
  BY <1>5 DEF LauncherPointersLive
<1>6. CASE NewSession
  <2>1. file \in FileSet /\ Distinct(file.pins)
    BY <1>1 DEF TypeOK, PinnedOnce, Distinct, FileSet
  <2>2. pins' \in Seq(App) /\ Distinct(pins') /\ pinbox' = pins' /\ pins' = Load(file) /\ file' = file
    BY <1>6, <2>1, Loading DEF NewSession
  <2>3. Pinned
    BY <2>1, <2>2 DEF PinsAgree, PinnedOnce, Distinct, Load
  <2>4. toast' \in [shown : BOOLEAN, timer : 0..2] /\ timers' = {} /\ ToastHasItsTimer'
    BY <1>6 DEF NewSession, ToastHasItsTimer
  <2>5. TypeOK'
    BY <1>1, <1>6, <2>1, <2>2, <2>4 DEF TypeOK, NewSession, FileSet
  <2> QED
    BY <1>5, <1>6, <2>3, <2>4, <2>5 DEF IInv, NewSession, OverlayMeansNight
<1>7. CASE Say
  <2>1. ToastOK' /\ ToastHasItsTimer'
    BY <1>1, <1>7, Toasting DEF Say
  <2> QED
    BY <1>2, <1>4, <1>7, <2>1 DEF Say, IInv, TypeOK, ToastOK, LauncherPointersLive, IsPinned
<1>8. CASE CcToggle \/ CtxNight
  <2>1. Night /\ night' \in BOOLEAN /\ button' \in BOOLEAN
    BY <1>1, <1>8 DEF CcToggle, CtxNight, TypeOK
  <2>2. ToastOK' /\ ToastHasItsTimer'
    BY <1>1, <2>1, Toasting DEF Night
  <2> QED
    BY <1>2, <2>1, <2>2 DEF Night, NightlightApply, IInv, TypeOK, ToastOK, LauncherPointersLive, IsPinned, OverlayMeansNight
<1>9. CASE \E t \in timers : ToastHide(t)
  <2>1. PICK t \in timers : ToastHide(t)
    BY <1>9
  <2>2. toast' \in [shown : BOOLEAN, timer : 0..2] /\ toast'.shown = FALSE
    BY <2>1 DEF ToastHide
  <2>3. timers = {toast.timer} /\ timers' = {}
    BY <1>1, <2>1 DEF ToastHasItsTimer, ToastHide
  <2>4. ToastOK' /\ ToastHasItsTimer'
    BY <2>2, <2>3 DEF ToastOK, ToastHasItsTimer
  <2> QED
    BY <1>2, <1>4, <2>1, <2>4 DEF ToastHide, IInv, TypeOK, ToastOK, LauncherPointersLive, IsPinned
<1>10. CASE \E a \in App : Install(a)
  BY <1>2, <1>3, <1>4, <1>10 DEF Install, IInv, TypeOK, LauncherPointersLive, IsPinned
<1>11. CASE LauncherBtn \/ LauncherHide \/ MenuClosed \/ \E m \in SUBSET App : Search(m)
  <2>1. UNCHANGED <<pinVars, toastVars, nightVars, installed>> /\ menu' = NoMenu
    BY <1>11 DEF LauncherBtn, LauncherHide, MenuClosed, Search
  <2>2. apps' \subseteq App /\ match' \subseteq App /\ visible' \in BOOLEAN /\ fresh' = TRUE
    BY <1>1, <1>11 DEF LauncherBtn, LauncherShown, LauncherHide, MenuClosed, Search, TypeOK, IInv, LauncherPointersLive
  <2> QED
    BY <1>2, <1>3, <1>4, <1>5, <2>1, <2>2 DEF IInv, TypeOK
<1>12. CASE \E a \in App : LauncherItemPress(a)
  <2>1. PICK a \in App : LauncherItemPress(a)
    BY <1>12
  <2>2. /\ menu' \in MenuSet /\ menu'.a = a /\ a \in apps
        /\ menu'.says = "Unpin" <=> IsPinned(a)
    BY <2>1 DEF LauncherItemPress, MenuSet
  <2>3. LauncherPointersLive'
    BY <2>1, <2>2 DEF IInv, LauncherPointersLive, LauncherItemPress, IsPinned
  <2> QED
    BY <1>2, <1>3, <1>4, <2>1, <2>2, <2>3 DEF LauncherItemPress, IInv, TypeOK, MenuSet
<1>13. CASE \E a \in App : PinBtnPress(a)
  <2>1. PICK a \in App : PinBtnPress(a)
    BY <1>13
  <2>2. /\ pins' \in Seq(App) /\ pinbox' \in Seq(App) /\ file' \in FileSet /\ lost' \in BOOLEAN
        /\ Pinned
    BY <1>1, <2>1, Unpinning DEF PinBtnPress
  <2> HIDE DEF Pinned
  <2>3. menu' = NoMenu /\ fresh' = TRUE /\ UNCHANGED <<launcherVars, toastVars, nightVars>>
    BY <2>1 DEF PinBtnPress, IInv, LauncherPointersLive
  <2> QED
    BY <1>3, <1>4, <1>5, <2>2, <2>3 DEF IInv, TypeOK, FileSet, Pinned
<1>14. CASE LauncherPinToggle
  <2>1. menu.a \in App
    BY <1>1, <1>14 DEF LauncherPinToggle, TypeOK
  <2>2. /\ pins' \in Seq(App) /\ pinbox' \in Seq(App) /\ file' \in FileSet /\ lost' \in BOOLEAN
        /\ Pinned
    BY <1>1, <1>14, <2>1, Unpinning, Pinning DEF LauncherPinToggle
  <2> HIDE DEF Pinned
  <2>3. ToastOK' /\ ToastHasItsTimer'
    BY <1>1, <1>3, <1>14, Toasting DEF LauncherPinToggle
  <2>4. menu' = NoMenu /\ fresh' = TRUE /\ UNCHANGED <<launcherVars, nightVars>>
    BY <1>14 DEF LauncherPinToggle, IInv, LauncherPointersLive
  <2> QED
    BY <1>4, <1>5, <2>2, <2>3, <2>4 DEF IInv, TypeOK, FileSet, ToastOK, Pinned
<1>15. CASE UNCHANGED vars
  BY <1>2, <1>3, <1>4, <1>15 DEF IInv, TypeOK, LauncherPointersLive, IsPinned
<1> QED
  BY <1>6, <1>7, <1>8, <1>9, <1>10, <1>11, <1>12, <1>13, <1>14, <1>15 DEF Next

-----------------------------------------------------------------------------
(* The theorems.                                                           *)

\* IInv holds throughout.
THEOREM Invariant == Spec => []IInv
  BY Initially, Consecution, PTL DEF Spec

\* Every variable of the desktop has its type.
THEOREM TypeCorrect == Spec => []TypeOK
  BY Invariant, PTL DEF IInv

\* The dock shows the pins, and the next session has the same ones unless a
\* save failed (load_pins, save_pins, rebuild_pinbox).
THEOREM PinsSurvive == Spec => []PinsAgree
  BY Invariant, PTL DEF IInv

\* No application is pinned twice (is_pinned before pin_app).
THEOREM NoPinTwice == Spec => []PinnedOnce
  BY Invariant, PTL DEF IInv

\* No tile or menu of a tile points to a freed App (launcher_shown).
THEOREM NoStaleTile == Spec => []LauncherPointersLive
  BY Invariant, PTL DEF IInv

\* A toast has its own timer and no other (aurora_toast, toast_hide).
THEOREM OneToastTimer == Spec => []ToastHasItsTimer
  BY Invariant, PTL DEF IInv

\* The overlay follows the night light (nightlight_apply and its two callers).
THEOREM NightIsShown == Spec => []OverlayMeansNight
  BY Invariant, PTL DEF IInv

=============================================================================
