------------------------------- MODULE Store -------------------------------
(***************************************************************************)
(* Installing and removing applications: the single-threaded session       *)
(* service of shell/aurorad.py that unpacks them under ~/Applications, the *)
(* cards of the Daybreak Store in aurora-shell.c with one worker thread    *)
(* per click, and the command shell/daybreak in any number of terminals.   *)
(* Requests wait in the backlog of the listening socket, which is short,   *)
(* and are served in the order they came, whether or not their sender      *)
(* still waits.                                                            *)
(***************************************************************************)
EXTENDS Naturals, Sequences

CONSTANTS
  App,          \* identifiers in the catalog
  Deb,          \* those whose address leads to a Debian package
  Terminal,     \* where somebody may type daybreak
  Backlog,      \* connections kept for HTTPServer until it accepts them (listen(5))
  MaxRestarts,  \* how often the service or the session may end (bounds the model)
  MaxWaits      \* how often a command may give up (bounds the model)

ASSUME DebAssumption      == Deb \subseteq App
ASSUME TerminalAssumption == Terminal \cap {"card", "nobody"} = {}
ASSUME BacklogAssumption  == Backlog \in Nat \ {0}
ASSUME BoundsAssumption   == MaxRestarts \in Nat /\ MaxWaits \in Nat

VARIABLES
  dest,       \* what is at ~/Applications/<id>
  entry,      \* what aurora-store-<id>.desktop is good for
  unfinished, \* history: a request that changed the app was cut off, failed, or
              \* ignored that it could not remove something
  ignored,    \* the request being served has passed over such an error
  work,       \* what the request has in /tmp
  queue,      \* connections the kernel took, the head is being served
  at,         \* the next step of the service
  service,    \* the process
  card,       \* the button of each card; "Open" is app->installed
  reply,      \* "connecting", or handed to store_apply_result and not applied yet
  cli,        \* the command running in each terminal
  restarts, waits

diskVars   == <<dest, entry, unfinished, ignored>>
clientVars == <<card, reply, cli>>
vars == <<diskVars, work, queue, at, service, clientVars, restarts, waits>>

Tree == {"absent", "part", "part with AppRun", "image", "deb", "no program"}
HasAppRun == {"part with AppRun", "image"}
Whole(a)  == IF a \in Deb THEN "deb" ELSE "image"
Usable(a) == dest[a] = Whole(a)

\* _installed_store_ids: a directory is there.
Listed(a) == dest[a] # "absent"

\* store_is_installed, when the cards are built.
NewCard(a) == IF dest[a] \in HasAppRun THEN "Open" ELSE "Get"

Request == [op : {"install", "remove", "list"}, app : App,
            from : Terminal \cup {"card", "nobody"}]
Prompt  == [at |-> "prompt"]
Calling == {"start", "decided"}
Command == [at : Calling \cup {"list", "wait"}, op : {"install", "remove"}, app : App]
FromCard(a) == [op |-> "install", app |-> a, from |-> "card"]

\* A first session on a home directory that may come from an earlier one.
Init ==
  /\ \E old \in SUBSET App :
       /\ dest = [a \in App |-> IF a \in old THEN Whole(a) ELSE "absent"]
       /\ entry = [a \in App |-> IF a \in old THEN "starts" ELSE "none"]
  /\ unfinished = [a \in App |-> FALSE] /\ ignored = FALSE
  /\ work = "nothing" /\ queue = <<>> /\ at = "idle" /\ service = "starting"
  /\ card = [a \in App |-> NewCard(a)] /\ reply = [a \in App |-> "none"]
  /\ cli = [t \in Terminal |-> Prompt]
  /\ restarts = 0 /\ waits = 0

-----------------------------------------------------------------------------
(* The service: store_install, _install_deb, store_remove, store_catalog.  *)

Req == Head(queue)
this == Req.app
Step(here, next) == at = here /\ at' = next

Accept ==
  /\ queue # <<>> /\ Req.op # "list"
  /\ Step("idle", IF Req.op = "install" THEN "fetch" ELSE "clear")
  /\ UNCHANGED <<diskVars, work, queue, clientVars>>

\* _resolve_url, urlopen, copyfileobj; a short body is not noticed here.
Download ==
  /\ Step("fetch", "unpack") /\ work' = "archive"
  /\ UNCHANGED <<diskVars, queue, clientVars>>

\* Mutant: the old installation is cleared before the new one is unpacked.
UnpackLater ==
  /\ Step("unpack", "clear")
  /\ UNCHANGED <<diskVars, work, queue, clientVars>>

\* --appimage-extract into the work directory; the data.tar of a package
\* stays in memory, decompressed when it is zstd.
Unpack ==
  /\ Step("unpack", "clear")
  /\ work' = IF this \in Deb THEN work ELSE "tree"
  /\ UNCHANGED <<diskVars, queue, clientVars>>

\* rmtree: where it is half way, or where it stops at what cannot be removed.
Torn(tree) == {tree} \cup (IF tree = "absent" THEN {} ELSE {"part"})
                     \cup (IF tree \in HasAppRun THEN {"part with AppRun"} ELSE {})

Clear ==
  /\ Step("clear", "cleared")
  /\ \E tree \in Torn(dest[this]) : dest' = [dest EXCEPT ![this] = tree]
  /\ unfinished' = [unfinished EXCEPT ![this] = TRUE]
  /\ UNCHANGED <<entry, ignored, work, queue, clientVars>>

\* The tree is gone, or its errors were ignored; _install_deb then makes the
\* directory where there is none.
Cleared ==
  /\ Step("cleared", IF Req.op = "remove" THEN "drop" ELSE "fill")
  /\ \E left \in {"absent", dest[this]} :
       /\ dest' = [dest EXCEPT ![this] = IF Req.op = "install" /\ this \in Deb
                                           THEN "part" ELSE left]
       /\ ignored' = (left # "absent")
  /\ UNCHANGED <<entry, unfinished, work, queue, clientVars>>

\* shutil.move copies from one file system to another, and into a directory that is
\* still there; extractall.
Fill ==
  /\ Step("fill", "filled")
  /\ \E tree \in IF this \in Deb THEN {"part"}
               ELSE IF ignored THEN {dest[this]} ELSE {"part", "part with AppRun"} :
       dest' = [dest EXCEPT ![this] = tree]
  /\ UNCHANGED <<entry, unfinished, ignored, work, queue, clientVars>>

\* The tree is there, with what starts it or without; or it is inside the old
\* one.  A package's lies over what was left, and may be started by that.
Filled ==
  /\ Step("filled", "look")
  /\ \E tree \in IF ignored /\ this \notin Deb THEN {dest[this]} ELSE {"no program", Whole(this)} :
       dest' = [dest EXCEPT ![this] = tree]
  /\ UNCHANGED <<entry, unfinished, ignored, work, queue, clientVars>>

\* Mutant: no look for AppRun.
LookAway ==
  /\ Step("look", "entry")
  /\ UNCHANGED <<diskVars, work, queue, clientVars>>

\* AppRun exists; _dest_desktop finds a program it can name.
CanStart(a) == dest[a] \in IF a \in Deb THEN {"deb"} ELSE HasAppRun

Look ==
  /\ Step("look", IF CanStart(this) THEN "entry" ELSE "failed")
  /\ UNCHANGED <<diskVars, work, queue, clientVars>>

\* open(..., "w") empties the entry, close writes it.
OpenEntry ==
  /\ Step("entry", "writing")
  /\ entry' = [entry EXCEPT ![this] = "empty"]
  /\ UNCHANGED <<dest, unfinished, ignored, work, queue, clientVars>>

WriteEntry ==
  /\ Step("writing", "done")
  /\ entry' = [entry EXCEPT ![this] = "starts"]
  /\ unfinished' = [unfinished EXCEPT ![this] = ignored]
  /\ UNCHANGED <<dest, ignored, work, queue, clientVars>>

\* Mutant: the entry is never removed.
LeaveEntry ==
  /\ Step("drop", "done")
  /\ unfinished' = [unfinished EXCEPT ![this] = ignored]
  /\ UNCHANGED <<dest, entry, ignored, work, queue, clientVars>>

\* The end of store_remove, which ignores a failure and answers ok in any case.
DropEntry ==
  /\ Step("drop", "done")
  /\ \E left \in {"none", entry[this]} :
       /\ entry' = [entry EXCEPT ![this] = left]
       /\ ignored' = (ignored \/ left # "none")
  /\ unfinished' = [unfinished EXCEPT ![this] = ignored']
  /\ UNCHANGED <<dest, work, queue, clientVars>>

\* Mutant: what failed is tried again from the start.
FailAgain ==
  /\ \E here \in {"fetch", "unpack", "fill", "filled", "entry", "writing"} :
       Step(here, "fetch")
  /\ UNCHANGED <<diskVars, work, queue, clientVars>>

\* No address, no network, a damaged archive, a full disk.
Fail ==
  /\ \E here \in {"fetch", "unpack", "fill", "filled", "entry", "writing"} :
       Step(here, "failed")
  /\ UNCHANGED <<diskVars, work, queue, clientVars>>

\* finally, then the answer, which reaches whoever still waits for it.
Answer ==
  /\ at \in {"done", "failed"} /\ at' = "idle" /\ work' = "nothing" /\ ignored' = FALSE
  /\ queue' = Tail(queue)
  /\ reply' = IF Req.from # "card" THEN reply
              ELSE [reply EXCEPT ![this] = IF at = "done" THEN "ok" ELSE "error"]
  /\ cli' = IF Req.from \in Terminal THEN [cli EXCEPT ![Req.from] = Prompt] ELSE cli
  /\ UNCHANGED <<dest, entry, unfinished, card>>

\* The catalog as it is now; "is already installed" ends daybreak install.
AnswerList ==
  /\ at = "idle" /\ queue # <<>> /\ Req.op = "list"
  /\ queue' = Tail(queue)
  /\ cli' = IF Req.from \notin Terminal THEN cli
            ELSE [cli EXCEPT ![Req.from] =
                    IF @.op = "install" /\ Listed(this) THEN Prompt
                    ELSE [@ EXCEPT !.at = "decided"]]
  /\ UNCHANGED <<diskVars, at, work, card, reply>>

Serve ==
  /\ \/ Accept \/ Download \/ Unpack \/ Clear \/ Cleared \/ Fill \/ Filled \/ Look
     \/ OpenEntry \/ WriteEntry \/ DropEntry \/ Fail \/ Answer \/ AnswerList
  /\ UNCHANGED <<service, restarts, waits>>

-----------------------------------------------------------------------------
(* The cards.  A connection is taken while there is room in the backlog.   *)
(* If the service is gone, or the backlog full for as long as connect()    *)
(* tries, there is none, which reads as an error once that is applied.     *)

Slots == Backlog + IF at = "idle" THEN 0 ELSE 1
Room  == service = "up" /\ Len(queue) < Slots

\* store_get_click starts a store_worker.
ClickGet(a) ==
  /\ card[a] \in {"Get", "Retry"}
  /\ card' = [card EXCEPT ![a] = "Installing"] /\ reply' = [reply EXCEPT ![a] = "connecting"]
  /\ UNCHANGED <<diskVars, work, queue, at, service, cli, restarts, waits>>

Connect(a) ==
  /\ reply[a] = "connecting"
  /\ \/ Room /\ queue' = Append(queue, FromCard(a)) /\ reply' = [reply EXCEPT ![a] = "none"]
     \/ ~Room /\ UNCHANGED queue /\ reply' = [reply EXCEPT ![a] = "error"]
  /\ UNCHANGED <<diskVars, work, at, service, card, cli, restarts, waits>>

\* The program is started and the window hidden; the card stays.
ClickOpen(a) == card[a] = "Open" /\ UNCHANGED vars

\* store_apply_result
ApplyResult(a) ==
  /\ reply[a] \in {"ok", "error"} /\ reply' = [reply EXCEPT ![a] = "none"]
  /\ card' = [card EXCEPT ![a] = IF reply[a] = "ok" THEN "Open" ELSE "Retry"]
  /\ UNCHANGED <<diskVars, work, queue, at, service, cli, restarts, waits>>

-----------------------------------------------------------------------------
(* shell/daybreak install <app> and remove <app>.                          *)

\* It asks for the catalog first, and then, if all is well, for what was typed.
Type(t, op, a) ==
  /\ cli[t] = Prompt
  /\ cli' = [cli EXCEPT ![t] = [at |-> "start", op |-> op, app |-> a]]
  /\ UNCHANGED <<diskVars, work, queue, at, service, card, reply, restarts, waits>>

Sent(t) == [op |-> IF cli[t].at = "start" THEN "list" ELSE cli[t].op,
            app |-> cli[t].app, from |-> t]

Call(t) ==
  /\ cli[t].at \in Calling
  /\ \/ /\ Room /\ queue' = Append(queue, Sent(t))
        /\ cli' = [cli EXCEPT ![t].at = IF @ = "start" THEN "list" ELSE "wait"]
     \/ ~Room /\ cli' = [cli EXCEPT ![t] = Prompt] /\ UNCHANGED queue
  /\ UNCHANGED <<diskVars, work, at, service, card, reply, restarts, waits>>

\* Mutant: an answer to a card finds the card of the next session.
NotOrphaned(gone) ==
  [i \in DOMAIN queue |-> IF queue[i].from \in gone \ {"card"}
                          THEN [queue[i] EXCEPT !.from = "nobody"] ELSE queue[i]]

\* Nobody waits any more, the request is served all the same.
Orphaned(gone) ==
  [i \in DOMAIN queue |-> IF queue[i].from \in gone
                          THEN [queue[i] EXCEPT !.from = "nobody"] ELSE queue[i]]

\* 600 s without an answer, or Ctrl-C: the request stays.
GiveUp(t) ==
  /\ cli[t] # Prompt /\ waits < MaxWaits
  /\ waits' = waits + 1
  /\ cli' = [cli EXCEPT ![t] = Prompt] /\ queue' = Orphaned({t})
  /\ UNCHANGED <<diskVars, work, at, service, card, reply, restarts>>

-----------------------------------------------------------------------------
(* Processes come and go.                                                  *)

ServiceStarts ==
  /\ service = "starting" /\ service' = "up"
  /\ UNCHANGED <<diskVars, work, queue, at, clientVars, restarts, waits>>

\* Mutant: the workers hear nothing of it.
ServiceDiesSilently ==
  /\ service = "up" /\ service' = "dead"
  /\ restarts < MaxRestarts /\ restarts' = restarts + 1
  /\ queue' = <<>> /\ at' = "idle" /\ work' = "nothing" /\ ignored' = FALSE
  /\ cli' = [t \in Terminal |-> IF cli[t].at \in Calling THEN cli[t] ELSE Prompt]
  /\ UNCHANGED <<dest, entry, unfinished, card, reply, waits>>

\* Whoever waits reads an empty answer, which is an error; nothing starts the
\* service again in this session.
ServiceDies ==
  /\ service = "up" /\ service' = "dead"
  /\ restarts < MaxRestarts /\ restarts' = restarts + 1
  /\ queue' = <<>> /\ at' = "idle" /\ work' = "nothing" /\ ignored' = FALSE
  /\ cli' = [t \in Terminal |-> IF cli[t].at \in Calling THEN cli[t] ELSE Prompt]
  /\ reply' = [a \in App |-> IF card[a] = "Installing" /\ reply[a] = "none"
                             THEN "error" ELSE reply[a]]
  /\ UNCHANGED <<dest, entry, unfinished, card, waits>>

\* The compositor is gone, with the shell and the terminals; agetty logs in
\* again.  A service that survived keeps the port and its backlog.
NewSession ==
  /\ restarts < MaxRestarts /\ restarts' = restarts + 1
  /\ service' = IF service = "up" THEN "up" ELSE "starting"
  /\ queue' = Orphaned(Terminal \cup {"card"})
  /\ card' = [a \in App |-> NewCard(a)] /\ reply' = [a \in App |-> "none"]
  /\ cli' = [t \in Terminal |-> Prompt]
  /\ UNCHANGED <<diskVars, work, at, waits>>

Next ==
  \/ Serve
  \/ \E a \in App : ClickGet(a) \/ Connect(a) \/ ClickOpen(a) \/ ApplyResult(a)
  \/ \E t \in Terminal : \/ \E op \in {"install", "remove"}, a \in App : Type(t, op, a)
                         \/ Call(t) \/ GiveUp(t)
  \/ ServiceStarts \/ ServiceDies \/ NewSession

\* A handler goes on to its end, idle callbacks run, and connect() ends: Linux gives
\* up after its retries of a SYN that a full backlog does not take.
Fairness ==
  /\ WF_vars(Serve)
  /\ \A a \in App : WF_vars(Connect(a)) /\ WF_vars(ApplyResult(a))
  /\ \A t \in Terminal : WF_vars(Call(t))

Spec == Init /\ [][Next]_vars /\ Fairness

-----------------------------------------------------------------------------
(* Properties.                                                             *)

TypeOK ==
  /\ dest \in [App -> Tree] /\ entry \in [App -> {"none", "empty", "starts"}]
  /\ unfinished \in [App -> BOOLEAN] /\ ignored \in BOOLEAN
  /\ work \in {"nothing", "archive", "tree"}
  /\ queue \in Seq(Request) /\ Len(queue) <= Slots
  /\ at \in {"idle", "fetch", "unpack", "clear", "cleared", "fill", "filled", "look",
             "entry", "writing", "drop", "done", "failed"}
  /\ service \in {"starting", "up", "dead"}
  /\ card \in [App -> {"Get", "Installing", "Open", "Retry"}]
  /\ reply \in [App -> {"none", "connecting", "ok", "error"}]
  /\ cli \in [Terminal -> Command \cup {Prompt}]
  /\ restarts \in 0..MaxRestarts /\ waits \in 0..MaxWaits

\* A card is grey exactly while its one request is sent, queued, served or answered
\* and not applied: no click is lost, none is sent twice, and a result never
\* reaches a card that has moved on (store_worker, store_apply_result).
Pending(a) == {i \in DOMAIN queue : queue[i] = FromCard(a)}
GreyMeansPending ==
  \A a \in App :
    /\ card[a] # "Installing" => Pending(a) = {} /\ reply[a] = "none"
    /\ card[a] = "Installing" =>
         IF reply[a] # "none" THEN Pending(a) = {} ELSE \E i \in DOMAIN queue : Pending(a) = {i}

\* Between requests that finished, the launcher has an entry for an app exactly
\* when a complete tree that it can start is there, and no tree means no entry:
\* for retries, re-installs and removals in any order, from card or terminal, as
\* long as no error of a removal was ignored.
EntryMatchesTree ==
  \A a \in App : ~unfinished[a] =>
    \/ Usable(a) /\ entry[a] = "starts"
    \/ dest[a] = "absent" /\ entry[a] = "none"

\* "ok" to an install means an entry and something it can start, which is the whole
\* new tree unless an error in removing the old one was ignored; "ok" to a removal,
\* that the tree and the entry are gone, unless an error was ignored (store_install, store_remove).
AnswersAreTrue ==
  at = "done" =>
    IF Req.op = "install"
    THEN entry[this] = "starts" /\ CanStart(this) /\ (Usable(this) \/ ignored)
    ELSE (dest[this] = "absent" /\ entry[this] = "none") \/ ignored

\* A download that fails or cannot be unpacked leaves the installed image alone.
OldImageSurvives ==
  [][\A a \in App \ Deb : dest[a] = "image" /\ dest'[a] # "image"
       => Req.op = "remove" \/ work = "tree"]_vars

\* The backlog is served in the order it came.  Once the kernel took the connection
\* of a card, no click, command, abandoned request or session puts it back, and
\* every step of the service brings its answer closer, so that it comes after a
\* number of steps that is known then, at most those of a full backlog.
StepsOf(here) == CASE here = "idle"    -> 11 [] here = "fetch"   -> 10
                   [] here = "unpack"  ->  9 [] here = "clear"   ->  8
                   [] here = "cleared" ->  7 [] here = "fill"    ->  6
                   [] here = "filled"  ->  5 [] here = "look"    ->  4
                   [] here = "entry"   ->  3 [] here \in {"writing", "drop"}  -> 2
                   [] here \in {"done", "failed"} -> 1
StepsTo(i, here) == 11 * (i - 1) + StepsOf(here)
ServedInTurn ==
  [][\A a \in App : \A i \in Pending(a) :
       \/ reply'[a] # "none" \/ card'[a] # "Installing"
       \/ \E j \in Pending(a)' :
            IF Serve THEN StepsTo(j, at') < StepsTo(i, at)
                     ELSE StepsTo(j, at') = StepsTo(i, at)]_vars

\* Every click and every command comes to an end, even when the service dies.
EveryRequestEnds ==
  /\ \A a \in App : card[a] = "Installing" ~> card[a] # "Installing"
  /\ \A t \in Terminal : cli[t] # Prompt ~> cli[t] = Prompt

=============================================================================
