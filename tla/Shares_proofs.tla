--------------------------- MODULE Shares_proofs ---------------------------
(***************************************************************************)
(* Safety of Shares for every set of processes, windows, shares and        *)
(* directories, and every backlog.                                         *)
(***************************************************************************)
EXTENDS Shares, SequenceTheorems, TLAPS

(***************************************************************************)
(* The inductive invariant: one request is served at a time; what a request*)
(* in each of its phases may rely on; the one directory that may be empty  *)
(* while a mount or an unmount is under way; and when the list of a        *)
(* process's last window is allowed to lag.                                *)
(***************************************************************************)
OneServed == \A p, q \in Process : InService(p) /\ InService(q) => p = q

PageInv == \A p \in Process : page[p] = NoPage \/ (page[p] \in Window /\ ProcessOf[page[p]] = p)

Phase(p) ==
  Busy(p) =>
    \/ call[p].op \in {"list", "power"} /\ call[p].at \in {"send", "waiting", "read"} \cup Answer
    \/ /\ call[p].op = "unmount" /\ call[p].on \in Target
       /\ call[p].at \in {"send", "waiting", "read", "unmounted"} \cup Answer
       /\ call[p].at = "unmounted" => ~Mounted(call[p].on)
    \/ /\ call[p].op = "mount" /\ call[p].on \in Share
       /\ call[p].at \in {"made", "failed"} =>
            ~Mounted(TargetOf[call[p].on]) /\ TargetOf[call[p].on] \in dirs
       /\ call[p].at = "mounted" => Mounted(TargetOf[call[p].on])
       /\ call[p].at # "unmounted"

PhaseInv == \A p \in Process : Phase(p)

Making(p, t)   == Doing(p, "mount", {"made", "failed"}) /\ t = TargetOf[call[p].on]
Clearing(p, t) == Doing(p, "unmount", {"unmounted"}) /\ t = call[p].on

DirsInv ==
  ~left => \A t \in dirs : Mounted(t) \/ \E p \in Process : Making(p, t) \/ Clearing(p, t)

List(p) ==
  page[p] \in open /\ ~missed[p] =>
    \/ Doing(p, "list", {"ok"}) /\ got[p] = Listed
    \/ Busy(p) /\ call[p].op = "list" /\ call[p].at # "ok"
    \/ Doing(p, "mount", {"mounted", "ok", "null"})
    \/ Busy(p) /\ call[p].op = "unmount"
    \/ ~(Busy(p) /\ call[p].op = "list") /\ rows[page[p]] = Listed

ListInv == \A p \in Process : List(p)

IInv == TypeOK /\ PageInv /\ OneMountEach /\ OneServed /\ PhaseInv /\ DirsInv /\ ListInv

-----------------------------------------------------------------------------
(* Requests.                                                               *)

At == {"send", "waiting"} \cup Served \cup Answer

LEMMA CallsAreCalls == \A c \in CallSet : c # NoCall
  BY DEF CallSet, NoCall

LEMMA BusyCall == ASSUME TypeOK, NEW p \in Process, Busy(p) PROVE call[p] \in CallSet
  BY DEF TypeOK, Busy

(* Nothing but one process's request changes. *)
Only(p) ==
  /\ call' \in [Process -> CallSet \cup {NoCall}]
  /\ \A q \in Process : q # p => call'[q] = call[q]

(* A request goes on: only its phase changes. *)
LEMMA Going ==
  ASSUME TypeOK, NEW p \in Process, NEW here, NEW next \in At, To(p, here, next)
  PROVE  /\ Only(p)
         /\ Busy(p) /\ call[p] \in CallSet /\ call[p].at = here
         /\ Busy(p)' /\ call'[p] \in CallSet
         /\ call'[p].op = call[p].op /\ call'[p].on = call[p].on /\ call'[p].at = next
<1>1. call[p] \in CallSet /\ call[p].at = here /\ Busy(p)
  BY BusyCall DEF To
<1>2. call \in [Process -> CallSet \cup {NoCall}]
  BY DEF TypeOK
<1> DEFINE c == [call[p] EXCEPT !.at = next]
<1>3. call' = [call EXCEPT ![p] = c]
  BY DEF To
<1>4. c \in CallSet /\ c.op = call[p].op /\ c.on = call[p].on /\ c.at = next
  BY <1>1 DEF CallSet, At
<1> HIDE DEF c
<1>5. call'[p] = c /\ Only(p)
  BY <1>2, <1>3, <1>4 DEF Only
<1> QED
  BY <1>1, <1>4, <1>5, CallsAreCalls DEF Busy

(* A request begins. *)
LEMMA Beginning ==
  ASSUME TypeOK, NEW p \in Process, NEW op \in {"list", "unmount", "mount", "power"},
         NEW on \in Share \cup Target \cup {"all", "reboot"}, Begin(p, op, on)
  PROVE  /\ Only(p) /\ Busy(p)'
         /\ call'[p].op = op /\ call'[p].on = on /\ call'[p].at = "send"
<1> DEFINE c == [op |-> op, on |-> on, at |-> "send"]
<1>1. c \in CallSet /\ c.op = op /\ c.on = on /\ c.at = "send"
  BY DEF CallSet
<1>2. call' = [call EXCEPT ![p] = c] /\ call \in [Process -> CallSet \cup {NoCall}]
  BY DEF Begin, TypeOK
<1> HIDE DEF c
<1>3. call'[p] = c /\ Only(p)
  BY <1>1, <1>2 DEF Only
<1> QED
  BY <1>1, <1>3, CallsAreCalls DEF Busy

(* A request is over. *)
LEMMA Ending ==
  ASSUME TypeOK, NEW p \in Process, Over(p)
  PROVE  Only(p) /\ call'[p] = NoCall /\ ~Busy(p)'
  BY DEF Over, Only, TypeOK, Busy

-----------------------------------------------------------------------------
(* What a step of one process leaves alone.                                *)

LEMMA SameList == ASSUME mounts' = mounts PROVE Listed' = Listed
  BY DEF Listed, Mounted, Top

(* Nothing under /media changes, and the process was not in the middle of  *)
(* a mount or an unmount.                                                  *)
LEMMA Quiet ==
  ASSUME IInv, NEW p \in Process, UNCHANGED <<diskVars, left>>, Only(p), Phase(p)',
         ~Doing(p, "mount", {"made", "failed"}), ~Doing(p, "unmount", {"unmounted"}),
         InService(p)' => InService(p) \/ \A q \in Process : ~InService(q)
  PROVE  OneMountEach' /\ OneServed' /\ PhaseInv' /\ DirsInv'
<1> USE DEF diskVars
<1>1. OneMountEach'
  BY DEF IInv, OneMountEach, Mounted
<1>2. OneServed'
  BY DEF IInv, OneServed, InService, Busy, Only
<1>3. ASSUME NEW q \in Process, q # p PROVE Phase(q)'
  BY <1>3 DEF IInv, PhaseInv, Phase, Busy, Mounted, Only
<1>4. PhaseInv'
  BY <1>3 DEF PhaseInv
<1>5. ASSUME ~left', NEW t \in dirs' PROVE Mounted(t)' \/ \E q \in Process : (Making(q, t) \/ Clearing(q, t))'
  <2>1. ~left /\ t \in dirs
    BY <1>5
  <2>2. CASE Mounted(t)
    BY <2>2 DEF Mounted
  <2>3. CASE ~Mounted(t)
    <3>1. PICK q \in Process : Making(q, t) \/ Clearing(q, t)
      BY <2>1, <2>3 DEF IInv, DirsInv
    <3>2. q # p
      BY <3>1 DEF Making, Clearing
    <3>3. (Making(q, t) \/ Clearing(q, t))'
      BY <3>1, <3>2 DEF Making, Clearing, Doing, Busy, Only
    <3> QED
      BY <3>3
  <2> QED
    BY <2>2, <2>3
<1>6. DirsInv'
  BY <1>5 DEF DirsInv
<1> QED
  BY <1>1, <1>2, <1>4, <1>6

(* The lists of the other processes stay as current as they were. *)
LEMMA ListsKept ==
  ASSUME IInv, NEW p \in Process, mounts' = mounts, Only(p), List(p)',
         \A q \in Process : q # p =>
           /\ page'[q] = page[q] /\ got'[q] = got[q] /\ missed'[q] = missed[q]
           /\ page[q] \in open' => page[q] \in open /\ rows'[page[q]] = rows[page[q]]
  PROVE  ListInv'
<1>1. Listed' = Listed
  BY SameList
<1>2. ASSUME NEW q \in Process, q # p PROVE List(q)'
  <2>1. List(q) /\ call'[q] = call[q]
    BY <1>2 DEF IInv, ListInv, Only
  <2> QED
    BY <1>1, <1>2, <2>1 DEF List, Doing, Busy
<1> QED
  BY <1>2 DEF ListInv

(* Only the request of the process and what is said of it change. *)
LEMMA Calm ==
  ASSUME IInv, NEW p \in Process, UNCHANGED <<appVars, up, diskVars, missed, left>>, Only(p),
         Phase(p)', List(p)',
         ~Doing(p, "mount", {"made", "failed"}), ~Doing(p, "unmount", {"unmounted"}),
         InService(p)' => InService(p) \/ \A q \in Process : ~InService(q)
  PROVE  IInv'
<1> USE DEF appVars, diskVars
<1>1. OneMountEach' /\ OneServed' /\ PhaseInv' /\ DirsInv'
  BY Quiet
<1>2. ListInv'
  BY ListsKept
<1>3. TypeOK' /\ PageInv'
  BY DEF IInv, TypeOK, PageInv, Only
<1> QED
  BY <1>1, <1>2, <1>3 DEF IInv

-----------------------------------------------------------------------------
LEMMA Initially == Init => IInv
<1> SUFFICES ASSUME Init PROVE IInv  OBVIOUS
<1>1. TypeOK
  <2>1. mounts \in [Target -> Seq(Share)]
    BY EmptySeq, Zenon DEF Init
  <2>2. missed \in [Process -> BOOLEAN] /\ up \in BOOLEAN /\ left \in BOOLEAN
    BY DEF Init
  <2> QED
    BY <2>1, <2>2 DEF Init, TypeOK
<1>2. OneMountEach
  BY EmptySeq DEF Init, OneMountEach, Mounted
<1>3. PageInv /\ OneServed /\ PhaseInv /\ DirsInv
  BY DEF Init, PageInv, OneServed, InService, PhaseInv, Phase, DirsInv, Busy
<1>4. ListInv
  BY DEF Init, ListInv, List
<1> QED
  BY <1>1, <1>2, <1>3, <1>4 DEF IInv

-----------------------------------------------------------------------------
(* The buttons and windows; nothing under /media changes.                  *)

LEMMA Pressing ==
  ASSUME IInv, NEW w \in Window, NEW op \in {"list", "unmount", "mount", "power"},
         NEW on \in Share \cup Target \cup {"all", "reboot"}, Press(w, op, on),
         op = "unmount" => on \in Target, op = "mount" => on \in Share
  PROVE  IInv'
<1> DEFINE p == ProcessOf[w]
<1>1. p \in Process
  BY ProcessOfAssumption
<1>2. ~Busy(p) /\ Begin(p, op, on) /\ UNCHANGED <<appVars, up, diskVars, missed, left>>
  BY DEF Press
<1> HIDE DEF p
<1>3. /\ Only(p) /\ Busy(p)'
      /\ call'[p].op = op /\ call'[p].on = on /\ call'[p].at = "send"
  BY <1>1, <1>2, Beginning DEF IInv
<1>4. Phase(p)'
  BY <1>3 DEF Phase
<1>5. List(p)'
  <2>1. List(p) /\ Listed' = Listed
    BY <1>1, <1>2, SameList DEF IInv, ListInv, diskVars
  <2> QED
    BY <1>2, <1>3, <2>1 DEF List, Doing, appVars
<1>6. ~InService(p)'
  BY <1>3 DEF InService, Served
<1> QED
  BY <1>1, <1>2, <1>3, <1>4, <1>5, <1>6, Calm DEF Doing

LEMMA Buttons ==
  ASSUME IInv, NEW w \in Window,
         NetRefresh(w) \/ ShareDisconnect(w) \/ ShareConnect(w) \/ PwRestart(w)
  PROVE  IInv'
<1>1. CASE NetRefresh(w)
  BY <1>1, Pressing DEF NetRefresh
<1>2. CASE ShareDisconnect(w)
  <2>1. PICK r \in rows[w] : Press(w, "unmount", r[1])
    BY <1>2 DEF ShareDisconnect
  <2>2. r[1] \in Target
    BY <2>1 DEF IInv, TypeOK
  <2> QED
    BY <2>1, <2>2, Pressing
<1>3. CASE ShareConnect(w)
  BY <1>3, Pressing DEF ShareConnect
<1>4. CASE PwRestart(w)
  BY <1>4, Pressing DEF PwRestart
<1> QED
  BY <1>1, <1>2, <1>3, <1>4

LEMMA Windows ==
  ASSUME IInv, NEW w \in Window, Activate(w) \/ CloseWindow(w)
  PROVE  IInv'
<1> USE DEF appVars, diskVars
<1> DEFINE p == ProcessOf[w]
<1>1. p \in Process
  BY ProcessOfAssumption
<1>2. \A q \in Process : q # p => page[q] # w
  BY ProcessOfAssumption DEF IInv, PageInv
<1>3. CASE Activate(w)
  <2>1. /\ w \notin open /\ ~Busy(p) /\ open' = open \cup {w}
        /\ page' = [page EXCEPT ![p] = w] /\ rows' = [rows EXCEPT ![w] = {}]
        /\ Begin(p, "list", "all") /\ UNCHANGED <<got, up, diskVars, missed, left>>
    BY <1>3 DEF Activate
  <2>2. ProcessOf[w] = p
    OBVIOUS
  <2> HIDE DEF p
  <2>3. /\ Only(p) /\ Busy(p)'
        /\ call'[p].op = "list" /\ call'[p].on = "all" /\ call'[p].at = "send"
    BY <1>1, <2>1, Beginning DEF IInv
  <2>4. TypeOK' /\ PageInv'
    BY <1>1, <2>1, <2>2, <2>3 DEF IInv, TypeOK, PageInv, Only
  <2>5. Phase(p)' /\ ~InService(p)'
    BY <2>3 DEF Phase, InService, Served
  <2>6. OneMountEach' /\ OneServed' /\ PhaseInv' /\ DirsInv'
    BY <1>1, <2>1, <2>3, <2>5, Quiet DEF Doing
  <2>7. List(p)'
    BY <2>3 DEF List
  <2>8. \A q \in Process : q # p =>
          /\ page'[q] = page[q]
          /\ page[q] \in open' => page[q] \in open /\ rows'[page[q]] = rows[page[q]]
    BY <1>1, <1>2, <2>1 DEF IInv, TypeOK
  <2>9. ListInv'
    BY <1>1, <2>1, <2>3, <2>7, <2>8, ListsKept
  <2> QED
    BY <2>4, <2>6, <2>9 DEF IInv
<1>4. CASE CloseWindow(w)
  <2>1. /\ w \in open /\ ~Busy(p) /\ open' = open \ {w} /\ rows' = [rows EXCEPT ![w] = {}]
        /\ page' = (IF Own(p) = {w} THEN [page EXCEPT ![p] = NoPage] ELSE page)
        /\ UNCHANGED <<got, call, up, diskVars, missed, left>>
    BY <1>4 DEF CloseWindow
  <2> HIDE DEF p
  <2>2. Only(p) /\ ~Busy(p)'
    BY <2>1 DEF IInv, TypeOK, Only, Busy
  <2>3. page' \in [Process -> Window \cup {NoPage}] /\ rows' \in [Window -> SUBSET (Target \X Share)]
    BY <1>1, <2>1 DEF IInv, TypeOK
  <2>4. TypeOK'
    BY <2>1, <2>2, <2>3 DEF IInv, TypeOK
  <2>5. \A q \in Process : page'[q] = page[q] \/ page'[q] = NoPage
    BY <1>1, <2>1 DEF IInv, TypeOK
  <2>6. PageInv'
    BY <2>5 DEF IInv, PageInv
  <2>7. OneMountEach' /\ OneServed' /\ PhaseInv' /\ DirsInv'
    <3>1. Phase(p)' /\ ~InService(p)'
      BY <2>2 DEF Phase, InService
    <3> QED
      BY <1>1, <2>1, <2>2, <3>1, Quiet DEF Doing
  <2>8. List(p)'
    <3>1. List(p) /\ Listed' = Listed
      BY <1>1, <2>1, SameList DEF IInv, ListInv
    <3>2. ASSUME page'[p] \in open' PROVE page'[p] = page[p] /\ page[p] \in open /\ rows'[page[p]] = rows[page[p]]
      <4>1. page'[p] \in Window
        BY <2>4, <3>2 DEF TypeOK
      <4>2. page'[p] # NoPage /\ page'[p] # w /\ page'[p] \in open
        BY <2>1, <3>2, <4>1, ProcessOfAssumption
      <4> QED
        BY <2>1, <2>5, <4>1, <4>2, <1>1 DEF IInv, TypeOK
    <3> QED
      BY <2>1, <3>1, <3>2 DEF List, Doing, Busy
  <2>9. \A q \in Process : q # p =>
          /\ page'[q] = page[q]
          /\ page[q] \in open' => page[q] \in open /\ rows'[page[q]] = rows[page[q]]
    BY <1>1, <1>2, <2>1 DEF IInv, TypeOK
  <2>10. ListInv'
    BY <1>1, <2>1, <2>2, <2>8, <2>9, ListsKept
  <2> QED
    BY <2>4, <2>6, <2>7, <2>10 DEF IInv
<1> QED
  BY <1>3, <1>4

LEMMA Crash == ASSUME IInv, NEW p \in Process, UseAfterFree(p) PROVE IInv'
<1>1. /\ call[p].op \in {"list", "mount"} /\ call[p].at \in {"send"} \cup Answer
      /\ open' = open \ Own(p) /\ page' = [page EXCEPT ![p] = NoPage]
      /\ rows' = [w \in Window |-> IF ProcessOf[w] = p THEN {} ELSE rows[w]]
      /\ got' = [got EXCEPT ![p] = {}] /\ Over(p)
      /\ UNCHANGED <<up, diskVars, missed, left>>
  BY DEF UseAfterFree
<1>2. Only(p) /\ ~Busy(p)'
  BY <1>1, Ending DEF IInv
<1>3. TypeOK'
  BY <1>1, <1>2 DEF IInv, TypeOK, Only, Own, diskVars
<1>4. PageInv'
  BY <1>1 DEF IInv, TypeOK, PageInv
<1>5. OneMountEach' /\ OneServed' /\ PhaseInv' /\ DirsInv'
  <2>1. Phase(p)' /\ ~InService(p)'
    BY <1>2 DEF Phase, InService
  <2> QED
    BY <1>1, <1>2, <2>1, Quiet DEF Doing, Answer
<1>6. List(p)'
  <2>1. page'[p] \notin open'
    BY <1>1, ProcessOfAssumption DEF IInv, TypeOK
  <2> QED
    BY <2>1 DEF List
<1>7. ASSUME NEW q \in Process, q # p
      PROVE  /\ page'[q] = page[q] /\ got'[q] = got[q]
             /\ page[q] \in open' => page[q] \in open /\ rows'[page[q]] = rows[page[q]]
  <2>1. page'[q] = page[q] /\ got'[q] = got[q]
    BY <1>1, <1>7 DEF IInv, TypeOK
  <2>2. ASSUME page[q] \in open' PROVE page[q] \in open /\ rows'[page[q]] = rows[page[q]]
    <3>1. page[q] \in open /\ page[q] \in Window
      BY <1>1, <2>2 DEF IInv, TypeOK
    <3>2. ProcessOf[page[q]] = q
      BY <3>1, ProcessOfAssumption DEF IInv, PageInv
    <3> QED
      BY <1>1, <1>7, <3>1, <3>2
  <2> QED
    BY <2>1, <2>2
<1>8. ListInv'
  <2>1. mounts' = mounts /\ missed' = missed
    BY <1>1 DEF diskVars
  <2> QED
    BY <1>2, <1>6, <1>7, <2>1, ListsKept
<1> QED
  BY <1>3, <1>4, <1>5, <1>8 DEF IInv

-----------------------------------------------------------------------------
(* The handlers of Settings.                                               *)

(* A handler goes on or ends: the process is told what it missed, and may  *)
(* begin another request.                                                  *)
LEMMA Handled ==
  ASSUME IInv, NEW p \in Process, NEW op, NEW m \in BOOLEAN, Doing(p, op, Answer),
         UNCHANGED <<appVars, up, diskVars, left>>, missed' = [missed EXCEPT ![p] = m], Only(p),
         Phase(p)', List(p)', ~InService(p)'
  PROVE  IInv'
<1> USE DEF appVars, diskVars
<1>1. OneMountEach' /\ OneServed' /\ PhaseInv' /\ DirsInv'
  BY Quiet DEF Doing, Answer
<1>2. \A q \in Process : q # p => missed'[q] = missed[q]
  BY DEF IInv, TypeOK
<1>3. ListInv'
  BY <1>2, ListsKept
<1>4. missed' \in [Process -> BOOLEAN]
  BY DEF IInv, TypeOK
<1>5. TypeOK' /\ PageInv'
  BY <1>4 DEF IInv, TypeOK, PageInv, Only
<1> QED
  BY <1>1, <1>3, <1>5 DEF IInv

LEMMA Handlers ==
  ASSUME IInv, NEW p \in Process,
         Send(p) \/ Fill(p) \/ Disconnected(p) \/ Connected(p) \/ Powered(p)
  PROVE  IInv'
<1> USE DEF appVars, diskVars
<1>0. TypeOK /\ Phase(p) /\ List(p) /\ missed[p] \in BOOLEAN
  BY DEF IInv, PhaseInv, ListInv, TypeOK
<1>1. CASE Send(p)
  <2>1. PICK next \in {"waiting", "null"} : To(p, "send", next)
    BY <1>1 DEF Send
  <2>2. UNCHANGED <<appVars, up, diskVars, missed, left>>
    BY <1>1 DEF Send
  <2>3. next \in At
    BY DEF At, Answer
  <2>4. /\ Only(p) /\ Busy(p) /\ call[p].at = "send" /\ Busy(p)'
        /\ call'[p].op = call[p].op /\ call'[p].on = call[p].on /\ call'[p].at = next
    BY <1>0, <2>1, <2>3, Going
  <2>5. Phase(p)' /\ ~InService(p)'
    BY <1>0, <2>4 DEF Phase, InService, Served, Answer
  <2>6. List(p)'
    BY <1>0, <2>2, <2>4, SameList DEF List, Doing
  <2> QED
    BY <2>2, <2>4, <2>5, <2>6, Calm DEF Doing
<1>2. CASE Fill(p)
  <2>1. /\ Doing(p, "list", Answer) /\ Over(p)
        /\ rows' = (IF page[p] \in open
                    THEN [rows EXCEPT ![page[p]] = IF call[p].at = "ok" THEN got[p] ELSE {}]
                    ELSE rows)
        /\ got' = [got EXCEPT ![p] = {}]
        /\ missed' = [missed EXCEPT ![p] = @ \/ call[p].at # "ok"]
        /\ UNCHANGED <<open, page, up, diskVars, left>>
    BY <1>2 DEF Fill
  <2>2. Only(p) /\ ~Busy(p)'
    BY <1>0, <2>1, Ending
  <2>3. missed' \in [Process -> BOOLEAN]
    BY <1>0, <2>1 DEF TypeOK
  <2>4. rows' \in [Window -> SUBSET (Target \X Share)] /\ got' \in [Process -> SUBSET (Target \X Share)]
    BY <1>0, <2>1 DEF TypeOK
  <2>5. TypeOK' /\ PageInv'
    BY <2>1, <2>2, <2>3, <2>4 DEF IInv, TypeOK, PageInv, Only
  <2>6. OneMountEach' /\ OneServed' /\ PhaseInv' /\ DirsInv'
    <3>1. Phase(p)' /\ ~InService(p)'
      BY <2>2 DEF Phase, InService
    <3> QED
      BY <2>1, <2>2, <3>1, Quiet DEF Doing, Answer
  <2>7. List(p)'
    <3>1. ASSUME page[p] \in open, ~missed'[p] PROVE rows'[page[p]] = Listed
      <4>1. ~missed[p] /\ call[p].at = "ok"
        BY <1>0, <2>1, <3>1 DEF TypeOK
      <4>2. got[p] = Listed
        BY <1>0, <2>1, <3>1, <4>1 DEF List, Doing
      <4>3. page[p] \in Window
        BY <1>0, <3>1 DEF TypeOK
      <4> QED
        BY <1>0, <2>1, <3>1, <4>1, <4>2, <4>3 DEF TypeOK
    <3> QED
      BY <2>1, <2>2, <3>1, SameList DEF List
  <2>8. \A q \in Process : q # p =>
          /\ got'[q] = got[q] /\ missed'[q] = missed[q]
          /\ page[q] \in open => rows'[page[q]] = rows[page[q]]
    <3>1. ASSUME NEW q \in Process, q # p, page[q] \in open PROVE rows'[page[q]] = rows[page[q]]
      <4>1. page[q] \in Window /\ ProcessOf[page[q]] = q
        BY <1>0, <3>1, ProcessOfAssumption DEF IInv, TypeOK, PageInv
      <4>2. page[p] \in open => page[p] # page[q]
        BY <1>0, <3>1, <4>1, ProcessOfAssumption DEF IInv, TypeOK, PageInv
      <4> QED
        BY <1>0, <2>1, <4>1, <4>2 DEF TypeOK
    <3> QED
      BY <1>0, <2>1, <3>1 DEF TypeOK
  <2>9. ListInv'
    BY <2>1, <2>2, <2>7, <2>8, ListsKept
  <2> QED
    BY <2>5, <2>6, <2>9 DEF IInv
<1>3. CASE Disconnected(p)
  <2>1. Doing(p, "unmount", Answer) /\ UNCHANGED <<appVars, up, diskVars, missed, left>>
    BY <1>3 DEF Disconnected
  <2>2. Only(p) /\ Busy(p)' /\ call'[p].op = "list" /\ call'[p].on = "all" /\ call'[p].at = "send"
    BY <1>0, <1>3, Beginning DEF Disconnected
  <2>3. Phase(p)' /\ List(p)' /\ ~InService(p)'
    BY <2>2 DEF Phase, List, InService, Served
  <2> QED
    BY <2>1, <2>2, <2>3, Calm DEF Doing, Answer
<1>4. CASE Connected(p)
  <2>1. /\ Doing(p, "mount", Answer) /\ UNCHANGED <<appVars, up, diskVars, left>>
        /\ missed' = [missed EXCEPT ![p] = missed[p] \/ call[p].at = "null"]
    BY <1>4 DEF Connected
  <2>2. \/ Busy(p)' /\ call'[p].op = "list" /\ call'[p].on = "all" /\ call'[p].at = "send"
        \/ ~Busy(p)' /\ call[p].at # "ok"
    BY <1>0, <1>4, Beginning, Ending DEF Connected
  <2>3. Only(p)
    BY <1>0, <1>4, Beginning, Ending DEF Connected
  <2>4. Phase(p)' /\ ~InService(p)'
    BY <2>2 DEF Phase, InService, Served
  <2>5. List(p)'
    <3>1. CASE Busy(p)' /\ call'[p].op = "list" /\ call'[p].at = "send"
      BY <3>1 DEF List
    <3>2. CASE ~Busy(p)' /\ call[p].at # "ok"
      <4>1. missed'[p] = (missed[p] \/ call[p].at = "null")
        BY <1>0, <2>1 DEF TypeOK
      <4>2. ASSUME page[p] \in open, ~missed[p], call[p].at # "null" PROVE rows[page[p]] = Listed
        BY <1>0, <2>1, <3>2, <4>2 DEF List, Doing, Answer
      <4> QED
        BY <2>1, <3>2, <4>1, <4>2, SameList DEF List
    <3> QED
      BY <2>2, <3>1, <3>2
  <2>6. (missed[p] \/ call[p].at = "null") \in BOOLEAN
    OBVIOUS
  <2> QED
    BY <2>1, <2>3, <2>4, <2>5, <2>6, Handled
<1>5. CASE Powered(p)
  <2>1. Doing(p, "power", Answer) /\ UNCHANGED <<appVars, up, diskVars, missed, left>>
    BY <1>5 DEF Powered
  <2>2. Only(p) /\ ~Busy(p)'
    BY <1>0, <1>5, Ending DEF Powered
  <2>3. Phase(p)' /\ ~InService(p)'
    BY <2>2 DEF Phase, InService
  <2>4. List(p)'
    BY <1>0, <2>1, <2>2, SameList DEF List, Doing
  <2> QED
    BY <2>1, <2>2, <2>3, <2>4, Calm DEF Doing
<1> QED
  BY <1>1, <1>2, <1>3, <1>4, <1>5

-----------------------------------------------------------------------------
(* The root service.                                                       *)

(* The request that is served is the only one that is.                     *)
LEMMA Alone ==
  ASSUME IInv, NEW p \in Process, InService(p)
  PROVE  /\ \A q \in Process : q # p => ~InService(q)
         /\ ~left => \A t \in dirs : Mounted(t) \/ Making(p, t) \/ Clearing(p, t)
<1>1. \A q \in Process : q # p => ~InService(q)
  BY DEF IInv, OneServed
<1>2. ASSUME ~left, NEW t \in dirs PROVE Mounted(t) \/ Making(p, t) \/ Clearing(p, t)
  <2>1. CASE ~Mounted(t)
    <3>1. PICK q \in Process : Making(q, t) \/ Clearing(q, t)
      BY <1>2, <2>1 DEF IInv, DirsInv
    <3>2. InService(q)
      BY <3>1 DEF Making, Clearing, Doing, InService, Served
    <3> QED
      BY <1>1, <3>1, <3>2
  <2> QED
    BY <2>1
<1> QED
  BY <1>1, <1>2

(* Whatever its step does to /media, the others only wait.                 *)
LEMMA OthersWait ==
  ASSUME IInv, NEW p \in Process, InService(p), Only(p), Phase(p)'
  PROVE  OneServed' /\ PhaseInv'
<1>1. ASSUME NEW q \in Process, q # p PROVE Phase(q)' /\ ~InService(q)'
  <2>1. ~InService(q) /\ Phase(q) /\ call'[q] = call[q]
    BY <1>1, Alone DEF IInv, PhaseInv, Only
  <2> QED
    BY <2>1 DEF Phase, InService, Served, Busy, Answer
<1> QED
  BY <1>1 DEF OneServed, PhaseInv

(* The lists of the others are excused once something is mounted or not.   *)
LEMMA OthersMiss ==
  ASSUME IInv, NEW p \in Process, Others(p), List(p)'
  PROVE  ListInv' /\ missed' \in [Process -> BOOLEAN]
<1>1. ASSUME NEW q \in Process, q # p PROVE missed'[q]
  BY <1>1 DEF Others
<1>2. ListInv'
  BY <1>1 DEF ListInv, List
<1>3. missed' \in [Process -> BOOLEAN]
  BY DEF Others, IInv, TypeOK
<1> QED
  BY <1>2, <1>3

LEMMA Beginnings ==
  ASSUME IInv, NEW p \in Process, Accept(p) \/ MountReported(p) \/ Power(p)
  PROVE  IInv'
<1>0. TypeOK /\ Phase(p) /\ List(p)
  BY DEF IInv, PhaseInv, ListInv
<1>1. CASE Accept(p)
  <2>1. To(p, "waiting", "read") /\ \A q \in Process : ~InService(q)
    BY <1>1 DEF Accept
  <2>2. UNCHANGED <<appVars, up, diskVars, missed, left>>
    BY <1>1 DEF Accept
  <2>3. /\ Only(p) /\ Busy(p) /\ call[p].at = "waiting" /\ Busy(p)'
        /\ call'[p].op = call[p].op /\ call'[p].on = call[p].on /\ call'[p].at = "read"
    BY <1>0, <2>1, Going DEF At, Served
  <2>4. Phase(p)'
    BY <1>0, <2>3 DEF Phase, Answer
  <2>5. List(p)'
    BY <1>0, <2>2, <2>3, SameList DEF List, Doing, appVars, diskVars
  <2> QED
    BY <2>1, <2>2, <2>3, <2>4, <2>5, Calm DEF Doing
<1>2. CASE MountReported(p)
  <2>1. To(p, "mounted", "ok") /\ UNCHANGED <<appVars, up, diskVars, missed, left>>
    BY <1>2 DEF MountReported
  <2>2. /\ Only(p) /\ Busy(p) /\ call[p].at = "mounted" /\ Busy(p)'
        /\ call'[p].op = call[p].op /\ call'[p].on = call[p].on /\ call'[p].at = "ok"
    BY <1>0, <2>1, Going DEF At, Answer
  <2>3. call[p].op = "mount"
    BY <1>0, <2>2 DEF Phase, Answer
  <2>4. Phase(p)' /\ ~InService(p)'
    BY <1>0, <2>2, <2>3 DEF Phase, InService, Served
  <2>5. List(p)'
    BY <2>2, <2>3 DEF List, Doing
  <2> QED
    BY <2>1, <2>2, <2>4, <2>5, Calm DEF Doing
<1>3. CASE Power(p)
  <2>1. /\ Doing(p, "power", {"read"}) /\ To(p, "read", "ok")
        /\ UNCHANGED <<appVars, up, diskVars, missed, left>>
    BY <1>3 DEF Power
  <2>2. /\ Only(p) /\ Busy(p) /\ call[p].at = "read" /\ Busy(p)'
        /\ call'[p].op = call[p].op /\ call'[p].on = call[p].on /\ call'[p].at = "ok"
    BY <1>0, <2>1, Going DEF At, Answer
  <2>3. Phase(p)' /\ ~InService(p)'
    BY <1>0, <2>1, <2>2 DEF Phase, InService, Served, Doing, Answer
  <2>4. List(p)'
    BY <1>0, <2>1, <2>2, SameList DEF List, Doing, appVars, diskVars
  <2> QED
    BY <2>1, <2>2, <2>3, <2>4, Calm DEF Doing
<1> QED
  BY <1>1, <1>2, <1>3

LEMMA Listing == ASSUME IInv, NEW p \in Process, ListRead(p) PROVE IInv'
<1> USE DEF appVars, diskVars
<1>0. TypeOK /\ Phase(p)
  BY DEF IInv, PhaseInv
<1>1. /\ Doing(p, "list", {"read"}) /\ To(p, "read", "ok")
      /\ got' = [got EXCEPT ![p] = Listed] /\ missed' = [missed EXCEPT ![p] = FALSE]
      /\ UNCHANGED <<open, page, rows, up, diskVars, left>>
  BY DEF ListRead
<1>2. /\ Only(p) /\ Busy(p) /\ call[p].at = "read" /\ Busy(p)'
      /\ call'[p].op = call[p].op /\ call'[p].on = call[p].on /\ call'[p].at = "ok"
  BY <1>0, <1>1, Going DEF At, Answer
<1>3. Listed \in SUBSET (Target \X Share)
  BY DEF Listed
<1>4. got' \in [Process -> SUBSET (Target \X Share)] /\ got'[p] = Listed
  BY <1>0, <1>1, <1>3 DEF TypeOK
<1>5. missed' \in [Process -> BOOLEAN]
  BY <1>0, <1>1 DEF TypeOK
<1>6. TypeOK' /\ PageInv'
  BY <1>1, <1>2, <1>4, <1>5 DEF IInv, TypeOK, PageInv, Only
<1>7. OneMountEach' /\ OneServed' /\ PhaseInv' /\ DirsInv'
  <2>1. Phase(p)' /\ ~InService(p)'
    BY <1>0, <1>1, <1>2 DEF Phase, InService, Served, Doing, Answer
  <2> QED
    BY <1>1, <1>2, <2>1, Quiet DEF Doing
<1>8. List(p)'
  BY <1>1, <1>2, <1>4, SameList DEF List, Doing
<1>9. \A q \in Process : q # p => got'[q] = got[q] /\ missed'[q] = missed[q]
  BY <1>0, <1>1 DEF TypeOK
<1>10. ListInv'
  BY <1>1, <1>2, <1>8, <1>9, ListsKept
<1> QED
  BY <1>6, <1>7, <1>10 DEF IInv

(* A directory is given up, or its being there is excused. *)
LEMMA Rmdirs ==
  ASSUME TypeOK, NEW t, Rmdir(t)
  PROVE  dirs' \subseteq dirs /\ dirs \subseteq dirs' \cup {t} /\ left' \in BOOLEAN
         /\ (~left' => ~left /\ t \notin dirs')
<1>1. CASE dirs' = dirs \ {t} /\ UNCHANGED left
  <2>1. left' \in BOOLEAN
    BY <1>1 DEF TypeOK
  <2> QED
    BY <1>1, <2>1
<1>2. CASE left' = TRUE /\ UNCHANGED dirs
  BY <1>2
<1> QED
  BY <1>1, <1>2 DEF Rmdir

LEMMA Mounting ==
  ASSUME IInv, NEW p \in Process, MountBegin(p) \/ MountRun(p) \/ MountFailed(p)
  PROVE  IInv'
<1> USE DEF appVars, diskVars
<1> DEFINE T == TargetOf[call[p].on]
<1>0. TypeOK /\ OneMountEach /\ PageInv /\ Phase(p) /\ List(p)
  BY DEF IInv, PhaseInv, ListInv
<1>1. call[p].op = "mount" /\ Busy(p) /\ call[p].at \in {"read", "made", "failed"}
  BY <1>0 DEF MountBegin, MountRun, MountFailed, Doing, To, Phase, Answer
<1>2. InService(p) /\ call[p].on \in Share /\ T \in Target
  BY <1>0, <1>1, TargetOfAssumption DEF Phase, InService, Served
<1>3. /\ \A q \in Process : q # p => ~InService(q)
      /\ ~left => \A t \in dirs : Mounted(t) \/ Making(p, t)
  BY <1>1, <1>2, Alone DEF Clearing, Doing
<1>4. CASE MountBegin(p)
  <2>1. PICK next \in {"error", "ok", "made"} :
          /\ To(p, "read", next)
          /\ next = "made" => ~Mounted(T)
          /\ dirs' = IF next = "made" THEN dirs \cup {T} ELSE dirs
    BY <1>4 DEF MountBegin
  <2>2. UNCHANGED <<appVars, up, mounts, missed, left>>
    BY <1>4 DEF MountBegin
  <2>3. next \in At
    BY DEF At, Answer, Served
  <2>4. /\ Only(p) /\ call[p].at = "read" /\ Busy(p)'
        /\ call'[p].op = call[p].op /\ call'[p].on = call[p].on /\ call'[p].at = next
    BY <1>0, <2>1, <2>3, Going
  <2>5. T' = T
    BY <2>4
  <2> HIDE DEF T
  <2>6. dirs' \subseteq Target /\ dirs \subseteq dirs'
    BY <1>0, <1>2, <2>1 DEF TypeOK
  <2>7. TypeOK' /\ PageInv' /\ OneMountEach'
    BY <1>0, <2>2, <2>4, <2>6 DEF TypeOK, PageInv, OneMountEach, Mounted, Only
  <2>8. next = "made" => T \in dirs' /\ ~Mounted(T)'
    BY <2>1, <2>2, <2>5 DEF Mounted
  <2>9. Phase(p)'
    BY <1>1, <1>2, <2>4, <2>5, <2>8 DEF Phase, T, Mounted
  <2>10. DirsInv'
    <3>1. ~left => \A t \in dirs : Mounted(t)'
      BY <1>3, <2>2, <2>4 DEF Making, Doing, Mounted
    <3>2. next = "made" => Making(p, T)'
      BY <1>1, <2>4, <2>5 DEF Making, Doing, T
    <3>3. left' = left /\ dirs' \subseteq dirs \cup {T} /\ (next # "made" => dirs' = dirs)
      BY <2>1, <2>2
    <3>4. ASSUME ~left', NEW t \in dirs' PROVE Mounted(t)' \/ Making(p, t)'
      <4>1. CASE t \in dirs
        BY <3>1, <3>3, <3>4, <4>1
      <4>2. CASE t \notin dirs
        <5>1. t = T /\ next = "made"
          BY <3>3, <3>4, <4>2
        <5>2. Making(p, t)' <=> Making(p, T)'
          BY <2>5, <5>1 DEF Making
        <5> QED
          BY <3>2, <5>1, <5>2
      <4> QED
        BY <4>1, <4>2
    <3> QED
      BY <3>4 DEF DirsInv
  <2>11. List(p)'
    BY <1>0, <1>1, <2>1, <2>2, <2>4, SameList DEF List, Doing
  <2>12. OneServed' /\ PhaseInv' /\ ListInv'
    BY <1>2, <2>2, <2>4, <2>9, <2>11, OthersWait, ListsKept
  <2> QED
    BY <2>7, <2>10, <2>12 DEF IInv
<1>5. CASE MountRun(p)
  <2>1. PICK next \in {"mounted", "failed"} :
          /\ To(p, "made", next)
          /\ next = "mounted" => Others(p)
          /\ next = "failed" => missed' = missed
          /\ mounts' = IF next = "mounted"
                       THEN [mounts EXCEPT ![T] = Append(@, call[p].on)] ELSE mounts
    BY <1>5 DEF MountRun
  <2>2. UNCHANGED <<appVars, up, dirs, left>>
    BY <1>5 DEF MountRun
  <2>3. next \in At
    BY DEF At, Served
  <2>4. /\ Only(p) /\ call[p].at = "made" /\ Busy(p)'
        /\ call'[p].op = call[p].op /\ call'[p].on = call[p].on /\ call'[p].at = next
    BY <1>0, <2>1, <2>3, Going
  <2>5. mounts[T] = <<>> /\ T \in dirs
    BY <1>0, <1>1, <2>4 DEF Phase, Mounted
  <2>6. mounts[T] \in Seq(Share)
    BY <1>0, <1>2 DEF TypeOK
  <2>7. /\ Append(mounts[T], call[p].on) \in Seq(Share)
        /\ Len(Append(mounts[T], call[p].on)) = 1 /\ Append(mounts[T], call[p].on) # <<>>
    BY <1>2, <2>5, <2>6, EmptySeq, AppendProperties
  <2>8. T' = T
    BY <2>4
  <2> HIDE DEF T
  <2>9. /\ mounts' \in [Target -> Seq(Share)]
        /\ \A t \in Target : t # T => mounts'[t] = mounts[t]
        /\ next = "mounted" => Len(mounts'[T]) = 1 /\ mounts'[T] # <<>>
        /\ next = "failed" => mounts'[T] = <<>> /\ mounts' = mounts
    BY <1>0, <1>2, <2>1, <2>5, <2>7 DEF TypeOK
  <2>10. OneMountEach'
    <3>1. Len(mounts'[T]) <= 1
      BY <2>1, <2>9, EmptySeq
    <3> QED
      BY <1>0, <2>2, <2>5, <2>9, <3>1 DEF OneMountEach, Mounted
  <2>11. Phase(p)'
    BY <1>1, <1>2, <2>1, <2>2, <2>4, <2>5, <2>8, <2>9 DEF Phase, T, Mounted
  <2>12. DirsInv'
    <3>1. ASSUME ~left, NEW t \in dirs, t # T PROVE Mounted(t)'
      <4>1. Mounted(t) /\ t \in Target
        BY <1>0, <1>3, <3>1 DEF Making, T, TypeOK
      <4> QED
        BY <2>9, <3>1, <4>1 DEF Mounted
    <3>2. next = "failed" => Making(p, T)'
      BY <1>1, <2>4, <2>8 DEF Making, Doing, T
    <3>3. next = "mounted" => Mounted(T)'
      BY <2>8, <2>9 DEF Mounted
    <3> QED
      BY <2>1, <2>2, <2>8, <3>1, <3>2, <3>3 DEF DirsInv, Making, Clearing, Mounted
  <2>13. ListInv' /\ missed' \in [Process -> BOOLEAN]
    <3>1. CASE next = "mounted"
      <4>1. List(p)'
        BY <1>1, <2>4, <3>1 DEF List, Doing
      <4> QED
        BY <2>1, <3>1, <4>1, OthersMiss
    <3>2. CASE next = "failed"
      <4>1. mounts' = mounts /\ missed' = missed
        BY <2>1, <2>9, <3>2
      <4>2. List(p)'
        BY <1>0, <1>1, <2>2, <2>4, <3>2, <4>1, SameList DEF List, Doing
      <4>3. ListInv'
        BY <2>2, <2>4, <4>1, <4>2, ListsKept
      <4> QED
        BY <1>0, <4>1, <4>3 DEF TypeOK
    <3> QED
      BY <3>1, <3>2
  <2>14. TypeOK' /\ PageInv'
    BY <1>0, <2>2, <2>4, <2>9, <2>13 DEF TypeOK, PageInv, Only
  <2>15. OneServed' /\ PhaseInv'
    BY <1>2, <2>4, <2>11, OthersWait
  <2> QED
    BY <2>10, <2>12, <2>13, <2>14, <2>15 DEF IInv
<1>6. CASE MountFailed(p)
  <2>1. /\ To(p, "failed", "error") /\ Rmdir(T)
        /\ UNCHANGED <<appVars, up, mounts, missed>>
    BY <1>6 DEF MountFailed
  <2>2. /\ Only(p) /\ call[p].at = "failed" /\ Busy(p)'
        /\ call'[p].op = call[p].op /\ call'[p].on = call[p].on /\ call'[p].at = "error"
    BY <1>0, <2>1, Going DEF At, Answer
  <2>3. ~Mounted(T)
    BY <1>0, <1>1, <2>2 DEF Phase
  <2>4. dirs' \subseteq dirs /\ dirs \subseteq dirs' \cup {T} /\ left' \in BOOLEAN
        /\ (~left' => ~left /\ T \notin dirs')
    BY <1>0, <2>1, Rmdirs
  <2>6. \A t \in dirs : Making(p, t) => t = T
    BY DEF Making
  <2> HIDE DEF T
  <2>7. TypeOK' /\ PageInv' /\ OneMountEach'
    BY <1>0, <2>1, <2>2, <2>3, <2>4 DEF TypeOK, PageInv, OneMountEach, Mounted, Only
  <2>8. Phase(p)'
    BY <1>1, <1>2, <2>2 DEF Phase, Answer
  <2>9. DirsInv'
    BY <1>3, <2>1, <2>4, <2>6 DEF DirsInv, Mounted
  <2>10. List(p)'
    BY <1>0, <1>1, <2>1, <2>2, SameList DEF List, Doing
  <2>11. OneServed' /\ PhaseInv' /\ ListInv'
    BY <1>2, <2>1, <2>2, <2>8, <2>10, OthersWait, ListsKept
  <2> QED
    BY <2>7, <2>9, <2>11 DEF IInv
<1> QED
  BY <1>4, <1>5, <1>6

LEMMA AtMostOne ==
  ASSUME NEW S, NEW s \in Seq(S), Len(s) <= 1, s # <<>>
  PROVE  Len(s) = 1
<1>1. Len(s) \in Nat /\ Len(s) # 0
  BY EmptySeq
<1> QED
  BY <1>1

LEMMA Unmounting ==
  ASSUME IInv, NEW p \in Process, UnmountRun(p) \/ UnmountRmdir(p)
  PROVE  IInv'
<1> USE DEF appVars, diskVars
<1> DEFINE T == call[p].on
<1>0. TypeOK /\ OneMountEach /\ PageInv /\ Phase(p) /\ List(p)
  BY DEF IInv, PhaseInv, ListInv
<1>1. call[p].op = "unmount" /\ Busy(p) /\ call[p].at \in {"read", "unmounted"}
  BY <1>0 DEF UnmountRun, UnmountRmdir, Doing, To, Phase, Answer
<1>2. InService(p) /\ T \in Target
  BY <1>0, <1>1 DEF Phase, InService, Served
<1>3. /\ \A q \in Process : q # p => ~InService(q)
      /\ ~left => \A t \in dirs : Mounted(t) \/ Clearing(p, t)
  BY <1>1, <1>2, Alone DEF Making, Doing
<1>4. CASE UnmountRun(p)
  <2> DEFINE rest == SubSeq(mounts[T], 1, Len(mounts[T]) - 1)
  <2>1. PICK next \in {"error", "unmounted"} :
          /\ To(p, "read", next)
          /\ next = "unmounted" => Others(p) /\ Mounted(T)
          /\ next = "error" => missed' = missed
          /\ mounts' = IF next = "unmounted" THEN [mounts EXCEPT ![T] = rest] ELSE mounts
    BY <1>4 DEF UnmountRun
  <2>2. UNCHANGED <<appVars, up, dirs, left>>
    BY <1>4 DEF UnmountRun
  <2>3. next \in At
    BY DEF At, Served, Answer
  <2>4. /\ Only(p) /\ call[p].at = "read" /\ Busy(p)'
        /\ call'[p].op = call[p].op /\ call'[p].on = call[p].on /\ call'[p].at = next
    BY <1>0, <2>1, <2>3, Going
  <2>5. mounts[T] \in Seq(Share) /\ Len(mounts[T]) <= 1
    BY <1>0, <1>2 DEF TypeOK, OneMountEach
  <2>6. ASSUME next = "unmounted" PROVE rest = <<>>
    <3>1. Len(mounts[T]) = 1
      <4>1. mounts[T] # <<>>
        BY <2>1, <2>6 DEF Mounted
      <4> QED
        BY <2>5, <4>1, AtMostOne
    <3>2. rest = SubSeq(mounts[T], 1, 0)
      BY <3>1
    <3> QED
      BY <2>5, <3>2, SubSeqEmpty
  <2>7. T' = T
    BY <2>4
  <2> HIDE DEF rest, T
  <2>8. /\ mounts' \in [Target -> Seq(Share)]
        /\ \A t \in Target : t # T => mounts'[t] = mounts[t]
        /\ next = "unmounted" => mounts'[T] = <<>>
        /\ next = "error" => mounts' = mounts
    BY <1>0, <1>2, <2>1, <2>6, EmptySeq DEF TypeOK
  <2>9. \A t \in Target : mounts'[t] = mounts[t] \/ mounts'[t] = <<>>
    BY <1>2, <2>1, <2>8
  <2>10. OneMountEach'
    BY <1>0, <2>2, <2>9, EmptySeq DEF OneMountEach, Mounted
  <2>11. Phase(p)'
    BY <1>1, <1>2, <2>1, <2>4, <2>7, <2>8 DEF Phase, Mounted, Answer, T
  <2>12. DirsInv'
    <3>1. ASSUME ~left, NEW t \in dirs PROVE Mounted(t)
      BY <1>3, <2>4, <3>1 DEF Clearing, Doing
    <3>2. ASSUME ~left, NEW t \in dirs, t # T \/ next = "error" PROVE Mounted(t)'
      BY <1>0, <2>8, <3>1, <3>2 DEF Mounted, TypeOK
    <3>3. next = "unmounted" => Clearing(p, T)'
      BY <1>1, <2>4, <2>7 DEF Clearing, Doing, T
    <3> QED
      BY <2>1, <2>2, <2>7, <3>2, <3>3 DEF DirsInv, Making, Clearing, Mounted
  <2>13. List(p)'
    BY <1>1, <2>4 DEF List
  <2>14. ListInv' /\ missed' \in [Process -> BOOLEAN]
    <3>1. CASE next = "unmounted"
      BY <2>1, <2>13, <3>1, OthersMiss
    <3>2. CASE next = "error"
      BY <1>0, <2>1, <2>2, <2>4, <2>8, <2>13, <3>2, ListsKept DEF TypeOK
    <3> QED
      BY <3>1, <3>2
  <2>15. TypeOK' /\ PageInv'
    BY <1>0, <2>2, <2>4, <2>8, <2>14 DEF TypeOK, PageInv, Only
  <2>16. OneServed' /\ PhaseInv'
    BY <1>2, <2>4, <2>11, OthersWait
  <2> QED
    BY <2>10, <2>12, <2>14, <2>15, <2>16 DEF IInv
<1>5. CASE UnmountRmdir(p)
  <2>1. To(p, "unmounted", "ok") /\ UNCHANGED <<appVars, up, mounts, missed>>
    BY <1>5 DEF UnmountRmdir
  <2>2. /\ Only(p) /\ call[p].at = "unmounted" /\ Busy(p)'
        /\ call'[p].op = call[p].op /\ call'[p].on = call[p].on /\ call'[p].at = "ok"
    BY <1>0, <2>1, Going DEF At, Answer
  <2>3. ~Mounted(T)
    BY <1>0, <1>1, <2>2 DEF Phase, Answer
  <2>4. dirs' \subseteq dirs /\ dirs \subseteq dirs' \cup {T} /\ left' \in BOOLEAN
        /\ (~left' => ~left /\ T \notin dirs')
    <3>1. Rmdir(T)
      BY <1>5, <2>3 DEF UnmountRmdir
    <3> QED
      BY <1>0, <3>1, Rmdirs
  <2>5. \A t \in dirs : Clearing(p, t) => t = T
    BY DEF Clearing
  <2> HIDE DEF T
  <2>6. TypeOK' /\ PageInv' /\ OneMountEach'
    BY <1>0, <2>1, <2>2, <2>3, <2>4 DEF TypeOK, PageInv, OneMountEach, Mounted, Only
  <2>7. Phase(p)'
    BY <1>1, <1>2, <2>2 DEF Phase, Answer, T
  <2>8. DirsInv'
    BY <1>3, <2>1, <2>4, <2>5 DEF DirsInv, Mounted
  <2>9. List(p)'
    BY <1>1, <2>2 DEF List
  <2>10. OneServed' /\ PhaseInv' /\ ListInv'
    BY <1>2, <2>1, <2>2, <2>7, <2>9, OthersWait, ListsKept
  <2> QED
    BY <2>6, <2>8, <2>10 DEF IInv
<1> QED
  BY <1>4, <1>5

LEMMA Faults == ASSUME IInv, Die \/ Restart \/ Reboot PROVE IInv'
<1> USE DEF appVars, diskVars
<1>1. CASE Die
  <2> DEFINE lost(q) == InService(q) \/ q \in Waiting
  <2>1. /\ call' = [q \in Process |-> IF lost(q) THEN [call[q] EXCEPT !.at = "null"] ELSE call[q]]
        /\ left' = (left \/ \E q \in Process : InService(q))
        /\ up' = FALSE /\ UNCHANGED <<appVars, diskVars, missed>>
    BY <1>1 DEF Die
  <2>2. ASSUME NEW q \in Process
        PROVE  /\ call'[q] \in CallSet \cup {NoCall}
               /\ lost(q) => /\ Busy(q) /\ Busy(q)' /\ call'[q].op = call[q].op
                             /\ call'[q].on = call[q].on /\ call'[q].at = "null"
               /\ ~lost(q) => call'[q] = call[q] /\ ~InService(q) /\ ~InService(q)'
    <3>1. CASE lost(q)
      <4> DEFINE c == [call[q] EXCEPT !.at = "null"]
      <4>1. Busy(q)
        BY <3>1 DEF InService, Waiting
      <4>2. call[q] \in CallSet
        BY <4>1, BusyCall DEF IInv
      <4>3. c \in CallSet /\ c.op = call[q].op /\ c.on = call[q].on /\ c.at = "null"
        BY <4>2 DEF CallSet, Answer
      <4>4. call'[q] = c
        BY <2>1, <3>1
      <4> QED
        BY <3>1, <4>1, <4>3, <4>4, CallsAreCalls DEF Busy
    <3>2. CASE ~lost(q)
      BY <2>1, <3>2 DEF IInv, TypeOK, InService, Busy
    <3> QED
      BY <3>1, <3>2
  <2>3. call' \in [Process -> CallSet \cup {NoCall}]
    BY <2>1, <2>2
  <2>4. left' \in BOOLEAN
    BY <2>1
  <2>5. TypeOK' /\ PageInv' /\ OneMountEach'
    BY <2>1, <2>3, <2>4 DEF IInv, TypeOK, PageInv, OneMountEach, Mounted
  <2>6. ASSUME NEW q \in Process PROVE ~InService(q)' /\ Phase(q)' /\ List(q)'
    <3>1. Phase(q) /\ List(q)
      BY DEF IInv, PhaseInv, ListInv
    <3>2. CASE lost(q)
      <4>1. call[q].at \in {"waiting"} \cup Served
        BY <3>2 DEF InService, Waiting
      <4> HIDE DEF lost
      <4>2. Phase(q)' /\ ~InService(q)'
        BY <2>2, <3>1, <3>2 DEF Phase, InService, Served, Answer
      <4>3. List(q)'
        BY <2>1, <2>2, <3>1, <3>2, <4>1, SameList DEF List, Doing, Served
      <4> QED
        BY <4>2, <4>3
    <3>3. CASE ~lost(q)
      <4> HIDE DEF lost
      <4> QED
        BY <2>1, <2>2, <3>1, <3>3, SameList DEF Phase, List, Doing, Busy, Mounted
    <3> QED
      BY <3>2, <3>3
  <2>7. DirsInv'
    <3>1. ASSUME ~left' PROVE \A t \in dirs : Mounted(t)
      <4>1. ~left /\ \A q \in Process : ~InService(q)
        BY <2>1, <3>1
      <4> QED
        BY <4>1 DEF IInv, DirsInv, Making, Clearing, Doing, InService, Served
    <3> QED
      BY <2>1, <3>1 DEF DirsInv, Mounted
  <2> QED
    BY <2>5, <2>6, <2>7 DEF IInv, OneServed, PhaseInv, ListInv
<1>2. CASE Restart
  <2>1. UNCHANGED <<appVars, call, diskVars, missed, left>> /\ up' = TRUE
    BY <1>2 DEF Restart
  <2>2. TypeOK' /\ PageInv' /\ OneMountEach'
    BY <2>1 DEF IInv, TypeOK, PageInv, OneMountEach, Mounted
  <2>3. OneServed' /\ PhaseInv' /\ DirsInv'
    BY <2>1 DEF IInv, OneServed, PhaseInv, Phase, DirsInv, Making, Clearing, Doing, InService, Busy, Mounted
  <2>4. ListInv'
    BY <2>1, SameList DEF IInv, ListInv, List, Doing, Busy
  <2> QED
    BY <2>2, <2>3, <2>4 DEF IInv
<1>3. CASE Reboot
  <2>1. mounts' \in [Target -> Seq(Share)] /\ missed' \in [Process -> BOOLEAN]
    BY <1>3, EmptySeq, Zenon DEF Reboot
  <2>2. left' \in BOOLEAN /\ up' \in BOOLEAN
    BY <1>3 DEF Reboot
  <2>3. TypeOK'
    BY <1>3, <2>1, <2>2 DEF Reboot, IInv, TypeOK
  <2>4. OneMountEach'
    <3>1. \A t \in Target : mounts'[t] = <<>>
      BY <1>3 DEF Reboot
    <3> QED
      BY <3>1, EmptySeq DEF OneMountEach, Mounted
  <2>5. PageInv' /\ OneServed' /\ PhaseInv' /\ DirsInv' /\ ListInv'
    BY <1>3 DEF Reboot, PageInv, OneServed, InService, PhaseInv, Phase, DirsInv, ListInv, List, Busy
  <2> QED
    BY <2>3, <2>4, <2>5 DEF IInv
<1> QED
  BY <1>1, <1>2, <1>3

LEMMA Inductive == IInv /\ [Next]_vars => IInv'
<1> SUFFICES ASSUME IInv, [Next]_vars PROVE IInv'  OBVIOUS
<1>1. ASSUME NEW p \in Process, Handler(p) PROVE IInv'
  BY <1>1, Handlers, Crash DEF Handler
<1>2. ASSUME NEW p \in Process, Service(p) PROVE IInv'
  BY <1>2, Beginnings, Listing, Mounting, Unmounting DEF Service
<1>3. CASE Die \/ Restart \/ Reboot
  BY <1>3, Faults
<1>4. ASSUME NEW w \in Window, Activate(w) \/ CloseWindow(w) PROVE IInv'
  BY <1>4, Windows
<1>5. ASSUME NEW w \in Window,
             NetRefresh(w) \/ ShareDisconnect(w) \/ ShareConnect(w) \/ PwRestart(w)
      PROVE IInv'
  BY <1>5, Buttons
<1>6. CASE UNCHANGED vars
  <2> USE DEF vars, appVars, diskVars
  <2>1. TypeOK' /\ PageInv' /\ OneMountEach'
    BY <1>6 DEF IInv, TypeOK, PageInv, OneMountEach, Mounted
  <2>2. OneServed' /\ PhaseInv' /\ DirsInv'
    BY <1>6 DEF IInv, OneServed, PhaseInv, Phase, DirsInv, Making, Clearing, Doing, InService, Busy, Mounted
  <2>3. ListInv'
    BY <1>6, SameList DEF IInv, ListInv, List, Doing, Busy
  <2> QED
    BY <2>1, <2>2, <2>3 DEF IInv
<1> QED
  BY <1>1, <1>2, <1>3, <1>4, <1>5, <1>6 DEF Next

(* The inductive invariant holds in every state of every behaviour. *)
THEOREM Invariant == Spec => []IInv
  BY Initially, Inductive, PTL DEF Spec

(* Every variable keeps its type, for any number of processes and windows. *)
THEOREM TypeCorrect == Spec => []TypeOK
<1>1. IInv => TypeOK
  BY DEF IInv
<1> QED
  BY <1>1, Invariant, PTL

(* mount_share never mounts a drive over another, and every drive has its   *)
(* directory, whatever names the shares are given and however many          *)
(* processes ask: the service looks and mounts within one request.          *)
THEOREM NoMountOverAnother == Spec => []OneMountEach
<1>1. IInv => OneMountEach
  BY DEF IInv
<1> QED
  BY <1>1, Invariant, PTL

(* No failed or finished request leaves an empty directory in /media, unless*)
(* the service died in one, the machine went down or rmdir failed.          *)
THEOREM DirectoriesAreDrives == Spec => []NoEmptyDirectories
<1>1. IInv => NoEmptyDirectories
  BY DEF IInv, DirsInv, NoEmptyDirectories, Making, Clearing, Doing, InService, Served
<1> QED
  BY <1>1, Invariant, PTL

(* The window a process opened last is up to date between two of its        *)
(* requests, unless an answer was lost or another process changed something.*)
THEOREM ListIsCurrent == Spec => []LastWindowListsMounts
<1>1. IInv => LastWindowListsMounts
  BY DEF IInv, ListInv, List, LastWindowListsMounts, Doing
<1> QED
  BY <1>1, Invariant, PTL
=============================================================================
