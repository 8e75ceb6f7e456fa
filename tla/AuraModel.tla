----------------------------- MODULE AuraModel -----------------------------
(***************************************************************************)
(* "Set up Aura": the thread of shell/aurorad.py that downloads the        *)
(* language model into /opt/aura/models, and the window of aurora-shell.c  *)
(* that starts it and polls the dictionary AURA.  The service answers one  *)
(* request at a time and may die; the session may be replaced while a      *)
(* download goes on; the connection may end before the body does.          *)
(***************************************************************************)
EXTENDS Integers

CONSTANTS
  Thread,      \* identities a _aura_download thread may get
  Blocks,      \* length of the model file, in chunks of r.read(1 << 20)
  MaxRestarts  \* how often the service or the session may die (bounds the model)

ASSUME BlocksAssumption   == Blocks \in Nat \ {0}
ASSUME RestartsAssumption == MaxRestarts \in Nat

VARIABLES
  job,       \* the dictionary AURA
  pc,        \* the next step of each download thread
  sized,     \* the response of each thread has a Content-Length
  part,      \* length of the .part file, or Absent
  model,     \* length of the .gguf file, or Absent
  checked,   \* who waits for the aura_setup_start that has made its check
  up,        \* the service accepts connections
  restarts,  \* how often something has died
  go,        \* g_aura_go is sensitive
  text,      \* g_aura_st
  polling,   \* g_aura_timer
  cut        \* history: some body ended before its length

threadVars == <<pc, sized, part, model, cut>>
windowVars == <<go, text, polling>>
vars == <<job, threadVars, checked, up, restarts, windowVars>>

Absent  == -1
Length  == {Absent} \cup 0..Blocks
Present == model # Absent
IdleJob == [running |-> FALSE, pct |-> 0, done |-> FALSE, error |-> FALSE]
Alive(t) == pc[t] # "none"

Init ==
  /\ model \in {Absent, Blocks} /\ part = Absent
  /\ job = IdleJob
  /\ pc = [t \in Thread |-> "none"] /\ sized = [t \in Thread |-> FALSE]
  /\ checked = "nobody" /\ up \in BOOLEAN /\ restarts = 0
  /\ go = TRUE /\ text = "not open" /\ polling = FALSE
  /\ cut = FALSE

-----------------------------------------------------------------------------
(* _aura_download.                                                         *)

Step(t, here, next) == pc[t] = here /\ pc' = [pc EXCEPT ![t] = next]

\* makedirs, urlopen, open(tmp, "wb")
Connect(t) ==
  /\ Step(t, "connect", "read")
  /\ part' = 0
  /\ \E known \in BOOLEAN : sized' = [sized EXCEPT ![t] = known]
  /\ UNCHANGED <<job, model, cut>>

ReadChunk(t) ==
  /\ Step(t, "read", "read")
  /\ part < Blocks
  /\ part' = part + 1
  /\ job' = IF sized[t] THEN [job EXCEPT !.pct = (part' * 100) \div Blocks] ELSE job
  /\ UNCHANGED <<sized, model, cut>>

\* Mutant: the end of the body is not looked for, a full buffer is.
EndOfBodyAnywhere(t) ==
  /\ Step(t, "read", "replace")
  /\ UNCHANGED <<job, sized, part, model, cut>>

\* r.read(n) returns b"" at the end of the body, and when the connection is
\* closed early: neither raises.
EndOfBody(t) ==
  /\ Step(t, "read", "replace")
  /\ cut' = (cut \/ part < Blocks)
  /\ UNCHANGED <<job, sized, part, model>>

\* Mutant: the file keeps its .part name.
LeavePart(t) ==
  Step(t, "replace", "report") /\ UNCHANGED <<job, sized, part, model, cut>>

\* os.replace(tmp, dest), then aura-llm-launch is spawned.
Replace(t) ==
  /\ Step(t, "replace", "report")
  /\ model' = part /\ part' = Absent
  /\ UNCHANGED <<job, sized, cut>>

Succeed(t) ==
  /\ Step(t, "report", "release")
  /\ job' = [job EXCEPT !.done = TRUE, !.pct = 100]
  /\ UNCHANGED <<sized, part, model, cut>>

\* No route, 60 s without a byte, a reset, a full disk, no process for
\* aura-llm-launch: except removes the .part file, whoever left it.
Fail(t) ==
  /\ \E here \in {"connect", "read", "replace", "report"} : Step(t, here, "error")
  /\ part' = Absent
  /\ UNCHANGED <<job, sized, model, cut>>

ReportError(t) ==
  /\ Step(t, "error", "release")
  /\ job' = [job EXCEPT !.error = TRUE]
  /\ UNCHANGED <<sized, part, model, cut>>

\* Mutant: finally only after a success.
ReleaseSucceeded(t) ==
  /\ Step(t, "release", "none")
  /\ job' = [job EXCEPT !.running = ~job.done]
  /\ UNCHANGED <<sized, part, model, cut>>

Release(t) ==
  /\ Step(t, "release", "none")
  /\ job' = [job EXCEPT !.running = FALSE]
  /\ UNCHANGED <<sized, part, model, cut>>

DownloadThread(t) ==
  /\ \/ Connect(t) \/ ReadChunk(t) \/ EndOfBody(t) \/ Replace(t)
     \/ Succeed(t) \/ Fail(t) \/ ReportError(t) \/ Release(t)
  /\ UNCHANGED <<checked, up, restarts, windowVars>>

-----------------------------------------------------------------------------
(* Restarts.                                                               *)

\* systemd starts the service again: AURA and the threads are gone.
Die ==
  /\ up /\ restarts < MaxRestarts
  /\ up' = FALSE /\ restarts' = restarts + 1
  /\ job' = IdleJob /\ pc' = [t \in Thread |-> "none"]
  /\ UNCHANGED <<sized, part, model, cut>>

\* A request that ends with an empty body reads as "started".
Started == go' = FALSE /\ text' = "starting" /\ polling' = TRUE

ServiceDies ==
  /\ Die
  /\ checked' = "nobody"
  /\ IF checked = "window" THEN Started ELSE UNCHANGED windowVars

ServiceStarts ==
  /\ ~up /\ up' = TRUE
  /\ UNCHANGED <<job, threadVars, checked, restarts, windowVars>>

\* agetty logs in again after the compositor or the shell is gone; the
\* service does not notice.
NewSession ==
  /\ restarts < MaxRestarts /\ restarts' = restarts + 1
  /\ checked' = IF checked = "nobody" THEN "nobody" ELSE "nobody alive"
  /\ go' = TRUE /\ text' = "not open" /\ polling' = FALSE
  /\ UNCHANGED <<job, threadVars, up>>

-----------------------------------------------------------------------------
(* The window.  The shell is one thread, blocked while it waits: a request *)
(* is a step unless the service takes two, and nothing else is clicked.    *)

Free == checked = "nobody"

\* am_aura_setup: the first time, and later to reflect the current state.
OpenSetup ==
  /\ Free
  /\ IF up /\ Present
     THEN text' = "already" /\ go' = FALSE
     ELSE text' = (IF text = "not open" THEN "ready to download" ELSE text) /\ UNCHANGED go
  /\ UNCHANGED <<polling, checked, threadVars, job, up, restarts>>

\* aura_go, and the first half of aura_setup_start.
DownloadClicked ==
  /\ Free /\ go /\ text # "not open"
  /\ \/ /\ ~up /\ Started
        /\ UNCHANGED <<checked, threadVars, job, up, restarts>>
     \/ /\ Die /\ Started
        /\ UNCHANGED checked
     \/ /\ up /\ Present /\ text' = "already"
        /\ UNCHANGED <<go, polling, checked, threadVars, job, up, restarts>>
     \/ /\ up /\ ~Present /\ checked' = "window"
        /\ UNCHANGED <<windowVars, threadVars, job, up, restarts>>

\* Mutant: the flag is not looked at.
SetupUnlocked(t) ==
  /\ ~Free /\ checked' = "nobody"
  /\ ~Alive(t)
  /\ job' = [IdleJob EXCEPT !.running = TRUE]
  /\ pc' = [pc EXCEPT ![t] = "connect"]
  /\ IF checked = "window" THEN Started ELSE UNCHANGED windowVars
  /\ UNCHANGED <<sized, part, model, cut, up, restarts>>

\* The second half, under AURA_LOCK.
SetupLocked(t) ==
  /\ ~Free /\ checked' = "nobody"
  /\ \/ /\ job.running
        /\ text' = IF checked = "window" THEN "in progress" ELSE text
        /\ UNCHANGED <<job, pc, go, polling>>
     \/ /\ ~job.running /\ ~Alive(t)
        /\ job' = [IdleJob EXCEPT !.running = TRUE]
        /\ pc' = [pc EXCEPT ![t] = "connect"]
        /\ IF checked = "window" THEN Started ELSE UNCHANGED windowVars
  /\ UNCHANGED <<sized, part, model, cut, up, restarts>>

\* Mutant: the button stays grey after a failure.
PollErrorStaysGrey == job.error /\ text' = "failed" /\ polling' = FALSE /\ UNCHANGED go
PollError == job.error /\ text' = "failed" /\ polling' = FALSE /\ go' = TRUE

\* Mutant: the timer goes on.
PollDoneAgain == ~job.error /\ job.done /\ text' = "ready" /\ UNCHANGED <<go, polling>>
PollDone == ~job.error /\ job.done /\ text' = "ready" /\ polling' = FALSE /\ UNCHANGED go

PollStage == ~job.error /\ ~job.done /\ text' = "downloading" /\ UNCHANGED <<go, polling>>

\* aura_poll without an answer goes on; with an empty one it shows 0%.
Poll ==
  /\ polling /\ Free
  /\ \/ /\ up /\ (PollError \/ PollDone \/ PollStage)
        /\ UNCHANGED <<threadVars, job, up, restarts>>
     \/ ~up /\ UNCHANGED <<windowVars, threadVars, job, up, restarts>>
     \/ Die /\ text' = "downloading" /\ UNCHANGED <<go, polling>>
  /\ UNCHANGED checked

-----------------------------------------------------------------------------
Next ==
  \/ \E t \in Thread : DownloadThread(t) \/ SetupLocked(t)
  \/ ServiceDies \/ ServiceStarts \/ NewSession
  \/ OpenSetup \/ DownloadClicked \/ Poll

\* Reads time out, so every thread gets on; timers fire; systemd restarts.
Fairness == /\ \A t \in Thread : WF_vars(DownloadThread(t))
            /\ WF_vars(\E t \in Thread : SetupLocked(t))
            /\ WF_vars(Poll) /\ WF_vars(ServiceStarts)

Spec == Init /\ [][Next]_vars /\ Fairness

-----------------------------------------------------------------------------
(* Properties.                                                             *)

TypeOK ==
  /\ job \in [running : BOOLEAN, pct : 0..100, done : BOOLEAN, error : BOOLEAN]
  /\ pc \in [Thread -> {"none", "connect", "read", "replace", "report", "error", "release"}]
  /\ sized \in [Thread -> BOOLEAN]
  /\ part \in Length /\ model \in Length
  /\ checked \in {"nobody", "window", "nobody alive"}
  /\ {up, go, polling, cut} \subseteq BOOLEAN /\ restarts \in 0..MaxRestarts
  /\ text \in {"not open", "ready to download", "starting", "in progress", "downloading",
               "failed", "ready", "already"}

\* Two threads would write the same .part file: AURA["running"] admits one,
\* across service restarts and sessions that do not know of each other.
OneDownload ==
  \A t, u \in Thread : Alive(t) /\ Alive(u) => t = u /\ job.running

\* What counts as the model (any *.gguf) is whole, whatever crashed, failed or
\* was retried on the way, as long as no body ended early.
WholeUnlessCut == Present => model = Blocks \/ cut

\* "Aura is ready" and "already set up" are shown only with a model in place.
ReadyMeansPresent == text \in {"ready", "already"} \/ job.done => Present

\* A grey Download button has a reason: the window waits for an outcome that
\* gives it back, or there is nothing left to download.
GreyHasReason == ~go => polling \/ text \in {"ready", "already"}

\* The window that watches a download shows how it ended, unless the service
\* dies and forgets it.
Forgotten == ~job.running /\ ~job.done /\ ~job.error
OutcomeIsShown == polling /\ job.running ~> ~polling \/ Forgotten

\* AURA keeps the same contract as INSTALL: one outcome per run, and every
\* run ends and lets the next one start.
DownloadContract == INSTANCE BackgroundJob
  WITH Target <- {"model"}, NoTarget <- "model", latest <- "model",
       running <- job.running, done <- job.done, error <- job.error
KeepsDownloadContract == DownloadContract!Spec

\* AURA["running"] is never left behind: it stands for a thread that is there,
\* and only the end of that thread or the death of the service clears it.
FlagHasItsThread == job.running <=> \E t \in Thread : Alive(t)

\* How many steps a thread has still to take at most, with n chunks written.
StepsLeft(step, n) ==
  CASE step = "none"    -> 0 [] step = "release" -> 1 [] step = "error"   -> 2
    [] step = "report"  -> 3 [] step = "replace" -> 4
    [] step = "read"    -> 5 + (Blocks - n)
    [] step = "connect" -> 6 + Blocks

\* Every step of a download brings it closer to the finally clause and to its
\* end, and nothing else takes it back: no second click, no new session.
DownloadsAdvance ==
  [][\A t \in Thread : Alive(t) =>
       IF DownloadThread(t)
       THEN StepsLeft(pc'[t], part') < StepsLeft(pc[t], part)
       ELSE \/ StepsLeft(pc'[t], part') = StepsLeft(pc[t], part)
            \/ pc'[t] = "none"]_vars

-----------------------------------------------------------------------------
(* What the repository says and the code does not keep.                    *)

\* aurorad.py:671: "Aura downloads a ~1.0 GB model on demand; aura-llm-launch
\* then serves it."  A body that ends early is put in place as the model.
DoneMeansWhole == job.done => model = Blocks

=============================================================================
