------------------------------ MODULE Shares ------------------------------
(***************************************************************************)
(* Network drives: the Network page of aurora-settings.c and the root      *)
(* service that mounts them under /media (shell/aurorad.py).  Starting     *)
(* Settings again opens another window in the process there is if the      *)
(* session has a bus, as shell/aurora-session gives it, and starts another *)
(* process if it has none, as with the wrapper that                        *)
(* scripts/13-aurora-desktop.sh writes in its place.  A process has one    *)
(* blocking main loop; its page and its form live in static variables, of  *)
(* which it has one.                                                       *)
(***************************************************************************)
EXTENDS Integers, Sequences, FiniteSets

CONSTANTS
  Process,    \* processes of Settings
  Window,     \* the windows they may open
  ProcessOf,  \* the process that a window belongs to
  Share,      \* //host/share
  Target,     \* directories under /media
  TargetOf,   \* _safe_mount_name, which may map two shares to one name
  Backlog     \* connections kept for HTTPServer until it accepts them

NoPage == "no page"

ASSUME ProcessOfAssumption == ProcessOf \in [Window -> Process] /\ NoPage \notin Window
ASSUME TargetOfAssumption == TargetOf \in [Share -> Target]
ASSUME BacklogAssumption == Backlog \in Nat \ {0}

VARIABLES
  open,    \* the windows on the screen
  page,    \* per process, the window whose page g_net_page is, or NoPage
  rows,    \* the drives each window lists
  got,     \* per process, the list it was answered and has not shown yet
  call,    \* per process, the request its main loop waits for, or NoCall
  up,      \* the root service accepts connections
  mounts,  \* what is mounted on each directory, the topmost last
  dirs,    \* the directories under /media
  missed,  \* history: since its list was read, an answer to the process was
           \* lost or another process mounted or unmounted something
  left     \* history: the service died in a request, the machine went down,
           \* or a directory could not be removed and nobody was told

appVars  == <<open, page, rows, got>>
diskVars == <<mounts, dirs>>
vars == <<appVars, call, up, diskVars, missed, left>>

NoCall  == [op |-> "none"]
Busy(p) == call[p] # NoCall
Own(p)  == {w \in open : ProcessOf[w] = p}
Answer  == {"ok", "error", "null"}
Served  == {"read", "made", "mounted", "failed", "unmounted"}

Doing(p, op, phases) == Busy(p) /\ call[p].op = op /\ call[p].at \in phases
InService(p) == Busy(p) /\ call[p].at \in Served
Waiting == {p \in Process : Busy(p) /\ call[p].at = "waiting"}
Mounted(t) == mounts[t] # <<>>

\* list_shares
Top(t) == mounts[t][Len(mounts[t])]
Listed == {r \in Target \X Share : Mounted(r[1]) /\ Top(r[1]) = r[2]}

Init ==
  /\ open = {} /\ page = [p \in Process |-> NoPage] /\ rows = [w \in Window |-> {}]
  /\ got = [p \in Process |-> {}] /\ call = [p \in Process |-> NoCall] /\ up \in BOOLEAN
  /\ mounts = [t \in Target |-> <<>>] /\ dirs = {}
  /\ missed = [p \in Process |-> FALSE] /\ left = FALSE

-----------------------------------------------------------------------------
(* The buttons.  While a request is out the main loop does nothing else.   *)

Begin(p, op, on) == call' = [call EXCEPT ![p] = [op |-> op, on |-> on, at |-> "send"]]
Over(p) == call' = [call EXCEPT ![p] = NoCall]
Press(w, op, on) ==
  /\ w \in open /\ ~Busy(ProcessOf[w]) /\ Begin(ProcessOf[w], op, on)
  /\ UNCHANGED <<appVars, up, diskVars, missed, left>>

\* activate: every start of the program opens a window, whose page and form
\* take the place of those its process had.
Activate(w) ==
  /\ w \notin open /\ ~Busy(ProcessOf[w])
  /\ open' = open \cup {w} /\ page' = [page EXCEPT ![ProcessOf[w]] = w]
  /\ rows' = [rows EXCEPT ![w] = {}]
  /\ Begin(ProcessOf[w], "list", "all")
  /\ UNCHANGED <<got, up, diskVars, missed, left>>

\* A closed window takes its page along; g_net_page still points to it, until
\* the process ends with its last window.
CloseWindow(w) ==
  LET p == ProcessOf[w] IN
  /\ w \in open /\ ~Busy(p)
  /\ open' = open \ {w} /\ rows' = [rows EXCEPT ![w] = {}]
  /\ page' = IF Own(p) = {w} THEN [page EXCEPT ![p] = NoPage] ELSE page
  /\ UNCHANGED <<got, call, up, diskVars, missed, left>>

NetRefresh(w) == Press(w, "list", "all")
ShareDisconnect(w) == \E r \in rows[w] : Press(w, "unmount", r[1])

\* What is sent is the text in the form of the process's last window.
ShareConnect(w) == \E s \in Share : Press(w, "mount", s)

\* pw_restart, pw_shutdown
PwRestart(w) == Press(w, "power", "reboot")

\* A handler that, before its request or after it, uses g_net_page or the form
\* of a closed window may crash, and its process with it.
UseAfterFree(p) ==
  /\ Busy(p) /\ call[p].op \in {"list", "mount"} /\ call[p].at \in {"send"} \cup Answer
  /\ page[p] \notin open
  /\ open' = open \ Own(p) /\ page' = [page EXCEPT ![p] = NoPage]
  /\ rows' = [w \in Window |-> IF ProcessOf[w] = p THEN {} ELSE rows[w]]
  /\ got' = [got EXCEPT ![p] = {}] /\ Over(p)
  /\ UNCHANGED <<up, diskVars, missed, left>>

-----------------------------------------------------------------------------
(* The request, and the rest of the handler once it is answered.           *)

To(p, here, next) ==
  Busy(p) /\ call[p].at = here /\ call' = [call EXCEPT ![p].at = next]

\* sysd_send: the kernel takes the connection while it has room for it; a
\* process it does not take waits, and may be told in the end.
Send(p) ==
  LET room == Cardinality(Waiting) < Backlog IN
  /\ \/ up /\ room /\ To(p, "send", "waiting")
     \/ ~(up /\ room) /\ To(p, "send", "null")
  /\ UNCHANGED <<appVars, up, diskVars, missed, left>>

\* HTTPServer serves one connection at a time.
Accept(p) ==
  /\ \A q \in Process : ~InService(q)
  /\ To(p, "waiting", "read")
  /\ UNCHANGED <<appVars, up, diskVars, missed, left>>

\* The end of net_refresh: net_fill lists what was answered, or "none".
Fill(p) ==
  /\ Doing(p, "list", Answer) /\ Over(p)
  /\ rows' = IF page[p] \in open
             THEN [rows EXCEPT ![page[p]] = IF call[p].at = "ok" THEN got[p] ELSE {}]
             ELSE rows
  /\ got' = [got EXCEPT ![p] = {}]
  /\ missed' = [missed EXCEPT ![p] = @ \/ call[p].at # "ok"]
  /\ UNCHANGED <<open, page, up, diskVars, left>>

\* Mutant: the page is left as it was.
DisconnectedNoRefresh(p) ==
  /\ Doing(p, "unmount", Answer) /\ Over(p)
  /\ UNCHANGED <<appVars, up, diskVars, missed, left>>

\* The end of share_disconnect: refresh, whatever was answered.
Disconnected(p) ==
  /\ Doing(p, "unmount", Answer) /\ Begin(p, "list", "all")
  /\ UNCHANGED <<appVars, up, diskVars, missed, left>>

\* The end of share_connect: refresh only if the answer says ok.
Connected(p) ==
  /\ Doing(p, "mount", Answer)
  /\ IF call[p].at = "ok" THEN Begin(p, "list", "all") ELSE Over(p)
  /\ missed' = [missed EXCEPT ![p] = @ \/ call[p].at = "null"]
  /\ UNCHANGED <<appVars, up, diskVars, left>>

\* The end of pw_restart: without an answer it tries systemctl, which the user
\* may not.
Powered(p) ==
  /\ Doing(p, "power", Answer) /\ Over(p)
  /\ UNCHANGED <<appVars, up, diskVars, missed, left>>

-----------------------------------------------------------------------------
(* The root service.                                                       *)

Others(p) == missed' = [q \in Process |-> missed[q] \/ q # p]

\* Mutant: what is mounted already is not looked for.
MountUnchecked(p) ==
  /\ Doing(p, "mount", {"read"})
  /\ \/ To(p, "read", "error") /\ UNCHANGED dirs
     \/ To(p, "read", "made") /\ dirs' = dirs \cup {TargetOf[call[p].on]}
  /\ UNCHANGED <<appVars, up, mounts, missed, left>>

\* mount_share up to makedirs: the name is not resolved, its directory is a
\* mount point already, or the directory is made.
MountBegin(p) ==
  /\ Doing(p, "mount", {"read"})
  /\ \/ To(p, "read", "error") /\ UNCHANGED dirs
     \/ To(p, "read", "ok") /\ Mounted(TargetOf[call[p].on]) /\ UNCHANGED dirs
     \/ /\ To(p, "read", "made") /\ ~Mounted(TargetOf[call[p].on])
        /\ dirs' = dirs \cup {TargetOf[call[p].on]}
  /\ UNCHANGED <<appVars, up, mounts, missed, left>>

\* mount; a drive that is mounted is not reported yet.
MountRun(p) ==
  /\ Doing(p, "mount", {"made"})
  /\ \/ /\ To(p, "made", "mounted") /\ Others(p)
        /\ mounts' = [mounts EXCEPT ![TargetOf[call[p].on]] = Append(@, call[p].on)]
     \/ To(p, "made", "failed") /\ UNCHANGED <<mounts, missed>>
  /\ UNCHANGED <<appVars, up, dirs, left>>

MountReported(p) ==
  To(p, "mounted", "ok") /\ UNCHANGED <<appVars, up, diskVars, missed, left>>

\* The directory is removed, or cannot be and the error is passed over.
Rmdir(t) ==
  \/ dirs' = dirs \ {t} /\ UNCHANGED left
  \/ left' = TRUE /\ UNCHANGED dirs

\* Mutant: the directory of a mount that failed is kept.
MountFailedKeepsDir(p) ==
  To(p, "failed", "error") /\ UNCHANGED <<appVars, up, diskVars, missed, left>>

\* A mount that failed gives its directory up.
MountFailed(p) ==
  /\ To(p, "failed", "error") /\ Rmdir(TargetOf[call[p].on])
  /\ UNCHANGED <<appVars, up, mounts, missed>>

\* unmount_share: umount fails (in use, not mounted) or not.
UnmountRun(p) ==
  /\ Doing(p, "unmount", {"read"})
  /\ \/ To(p, "read", "error") /\ UNCHANGED <<mounts, missed>>
     \/ /\ To(p, "read", "unmounted") /\ Mounted(call[p].on) /\ Others(p)
        /\ mounts' = [mounts EXCEPT ![call[p].on] = SubSeq(@, 1, Len(@) - 1)]
  /\ UNCHANGED <<appVars, up, dirs, left>>

\* A directory with another mount on it is not removed.
UnmountRmdir(p) ==
  /\ To(p, "unmounted", "ok")
  /\ IF Mounted(call[p].on) THEN UNCHANGED <<dirs, left>> ELSE Rmdir(call[p].on)
  /\ UNCHANGED <<appVars, up, mounts, missed>>

\* GET /system/shares
ListRead(p) ==
  /\ Doing(p, "list", {"read"}) /\ To(p, "read", "ok")
  /\ got' = [got EXCEPT ![p] = Listed] /\ missed' = [missed EXCEPT ![p] = FALSE]
  /\ UNCHANGED <<open, page, rows, up, diskVars, left>>

\* POST /system/power
Power(p) ==
  /\ Doing(p, "power", {"read"}) /\ To(p, "read", "ok")
  /\ UNCHANGED <<appVars, up, diskVars, missed, left>>

\* The service dies, in a request or not, and every connection with it;
\* systemd starts it again.
Die ==
  /\ up /\ up' = FALSE
  /\ call' = [p \in Process |->
                IF InService(p) \/ p \in Waiting THEN [call[p] EXCEPT !.at = "null"]
                                                ELSE call[p]]
  /\ left' = (left \/ \E p \in Process : InService(p))
  /\ UNCHANGED <<appVars, diskVars, missed>>

Restart == ~up /\ up' = TRUE /\ UNCHANGED <<appVars, call, diskVars, missed, left>>

\* Mounts do not survive a reboot, their directories do.
Reboot ==
  /\ open' = {} /\ page' = [p \in Process |-> NoPage] /\ rows' = [w \in Window |-> {}]
  /\ got' = [p \in Process |-> {}] /\ call' = [p \in Process |-> NoCall]
  /\ mounts' = [t \in Target |-> <<>>] /\ missed' = [p \in Process |-> FALSE]
  /\ up' \in BOOLEAN /\ left' = (left \/ dirs # {}) /\ UNCHANGED dirs

Handler(p) == Send(p) \/ Fill(p) \/ Disconnected(p) \/ Connected(p) \/ Powered(p) \/ UseAfterFree(p)
Service(p) ==
  \/ Accept(p) \/ MountBegin(p) \/ MountRun(p) \/ MountReported(p) \/ MountFailed(p)
  \/ UnmountRun(p) \/ UnmountRmdir(p) \/ ListRead(p) \/ Power(p)

Next ==
  \/ Die \/ Restart \/ Reboot
  \/ \E p \in Process : Handler(p) \/ Service(p)
  \/ \E w \in Window :
       \/ Activate(w) \/ CloseWindow(w) \/ NetRefresh(w)
       \/ ShareDisconnect(w) \/ ShareConnect(w) \/ PwRestart(w)

Spec == Init /\ [][Next]_vars

-----------------------------------------------------------------------------
(* Properties.                                                             *)

CallSet == [op : {"list", "unmount", "mount", "power"},
            on : Share \cup Target \cup {"all", "reboot"},
            at : {"send", "waiting"} \cup Served \cup Answer]

\* Every variable has its type.
TypeOK ==
  /\ open \subseteq Window /\ page \in [Process -> Window \cup {NoPage}]
  /\ rows \in [Window -> SUBSET (Target \X Share)]
  /\ got \in [Process -> SUBSET (Target \X Share)]
  /\ call \in [Process -> CallSet \cup {NoCall}] /\ up \in BOOLEAN
  /\ mounts \in [Target -> Seq(Share)] /\ dirs \subseteq Target
  /\ missed \in [Process -> BOOLEAN] /\ left \in BOOLEAN

\* No share is mounted over another, though two may have one name and several
\* processes ask for them, and every mount has its directory (mount_share looks
\* in /proc/mounts first).
OneMountEach == \A t \in Target : Len(mounts[t]) <= 1 /\ (Mounted(t) => t \in dirs)

\* Unless the service died in a request, the machine went down or a directory
\* could not be removed, /media holds the directories of the mounted drives and
\* no others whenever no request is being served, however many of them failed.
NoEmptyDirectories ==
  ~left /\ (\A p \in Process : ~InService(p)) => \A t \in dirs : Mounted(t)

\* Between two requests of a process its window opened last lists what is
\* mounted, unless, since that list was read, an answer was lost or another
\* process mounted or unmounted something.
LastWindowListsMounts ==
  \A p \in Process : ~Busy(p) /\ page[p] \in open /\ ~missed[p] => rows[page[p]] = Listed

=============================================================================
