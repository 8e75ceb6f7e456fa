----------------------------- MODULE AuraPanel -----------------------------
(***************************************************************************)
(* Asking Aura: the panel and the day card of aurora-shell.c, their worker *)
(* threads, and /ask of the session service (shell/aurorad.py and          *)
(* shell/aura_llm.py), which serves one connection at a time and is not    *)
(* restarted within a session.  A question about power is answered with    *)
(* two buttons; each pair has a timer that frees what the buttons use.     *)
(***************************************************************************)
EXTENDS Integers, Sequences

CONSTANTS
  Ask,   \* questions typed in one session (bounds the model)
  Day,   \* openings of the widgets whose worker may run at a time
  Tries, \* how often a day_worker asks (5)
  Backlog \* connections kept for HTTPServer until it accepts them (listen(5))

ASSUME AskDayAssumption == Ask \cap Day = {}
ASSUME TriesAssumption  == Tries \in Nat \ {0}
ASSUME BacklogAssumption == Backlog \in Nat \ {0}

VARIABLES
  entry,    \* the entry is sensitive
  kind,     \* what each question is to the service
  text,     \* the bubble of each answer
  ticker,   \* the aura_wait_tick timer of each bubble runs
  row,      \* the Power off / Cancel row of each answer, or what it was settled with
  confirm,  \* the AuraConfirm of the row is allocated, its timer to come
  powered,  \* questions whose button called power_action
  conn,     \* the thread of each question or opening
  tries,    \* how often each day_worker has asked
  up,       \* the session service: starting, up or dead
  queue,    \* connections it has not accepted
  serving,  \* the request it handles, or Nobody
  ran       \* history: questions for which an executor has run

Req == Ask \cup Day

panelVars   == <<entry, kind, text, ticker, row, confirm, powered>>
serviceVars == <<up, queue, serving, ran>>
vars == <<panelVars, conn, tries, serviceVars>>

\* "shortcut": a pattern of /ask matches, whether or not the words ask for an
\* action; "cued": none does, but action_allowed; "plain": neither; "refused":
\* only spaces, or an accent, of which g_strescape makes invalid JSON.
Kind     == {"power", "shortcut", "cued", "plain", "refused"}

\* What comes back.  "noted": with the notes of what was called; "echoed": so, and
\* the arguments of a call, sent back among the actions, read as a confirmation.
Reply    == {"waking", "warming", "unreadable", "refused", "confirm", "answer",
             "noted", "echoed"}
Settled  == {"going", "cancelled", "expired"}
Thinking == {"thinking", "thinking 5s"}
Phase    == {"read", "model", "ran", "called"}
Nobody   == [phase |-> "none"]
Wait     == {"none", "start", "queued", "sleep"}

Init ==
  /\ entry = TRUE /\ kind = [n \in Ask |-> "plain"]
  /\ text = [n \in Ask |-> "unused"] /\ ticker = [n \in Ask |-> FALSE]
  /\ row = [n \in Ask |-> "none"] /\ confirm = [n \in Ask |-> FALSE] /\ powered = {}
  /\ conn = [r \in Req |-> "none"]
  /\ tries = [d \in Day |-> 0]
  /\ up = "starting" /\ queue = <<>> /\ serving = Nobody /\ ran = {}

-----------------------------------------------------------------------------
(* The connection of a worker to the service.                              *)

Goto(r, here, next) == conn[r] = here /\ conn' = [conn EXCEPT ![r] = next]

\* aurorad_send: nothing is returned if nobody listens (aura_reply_text: "waking"),
\* or if the backlog is full for as long as connect() tries.
Connect(r) ==
  /\ \/ /\ up = "up" /\ Len(queue) < Backlog
        /\ Goto(r, "start", "queued") /\ queue' = Append(queue, r)
     \/ /\ ~(up = "up" /\ Len(queue) < Backlog)
        /\ Goto(r, "start", "waking") /\ UNCHANGED queue
  /\ UNCHANGED <<panelVars, tries, up, serving, ran>>

Accept ==
  /\ up = "up" /\ serving = Nobody /\ queue # <<>>
  /\ serving' = [of |-> Head(queue), phase |-> "read"]
  /\ queue' = Tail(queue)
  /\ UNCHANGED <<panelVars, conn, tries, up, ran>>

\* The handler sends its answer and returns to the loop of the server.
Send(reply) ==
  /\ Goto(serving.of, "queued", reply) /\ serving' = Nobody
  /\ UNCHANGED <<panelVars, tries, up, queue, ran>>

\* An executor runs; its note is not sent yet.
Execute(phase) ==
  /\ ran' = ran \cup ({serving.of} \cap Ask) /\ serving' = [serving EXCEPT !.phase = phase]
  /\ UNCHANGED <<panelVars, conn, tries, up, queue>>

GoOn(phase) ==
  /\ serving' = [serving EXCEPT !.phase = phase]
  /\ UNCHANGED <<panelVars, conn, tries, up, queue, ran>>

\* The question of a day_worker asks for a summary "of my system": a cue.
KindOf(r) == IF r \in Ask THEN kind[r] ELSE "cued"

\* do_POST and the shortcuts of /ask, in their order.  An executor that raises
\* there ends the connection.
Read ==
  /\ serving.phase = "read"
  /\ LET k == KindOf(serving.of) IN
     \/ k = "refused" /\ Send("refused")
     \/ k = "power" /\ Send("confirm")
     \/ k = "shortcut" /\ (Execute("ran") \/ Send("unreadable"))
     \/ k \in {"cued", "plain"} /\ GoOn("model")

\* aura_llm.ask: the model fails or answers badly (heuristic_fallback), answers,
\* or calls a tool, which counts only if action_allowed finds a cue; route()
\* notes an executor that raises.  A name no dictionary takes ends the connection.
Model ==
  /\ serving.phase = "model"
  /\ \/ Send("warming") \/ Send("answer") \/ Send("unreadable")
     \/ KindOf(serving.of) = "cued" /\ (Execute("called") \/ GoOn("called"))

\* Mutant: a bad reply is replaced even if an action has run.
TellFallback ==
  \/ serving.phase \in {"ran", "called"} /\ (Send("noted") \/ Send("warming"))
  \/ serving.phase = "called" /\ (Send("echoed") \/ Send("unreadable"))

\* What ran is told: the note outlives a reply that _reply_is_bad.  validate_call
\* looks at the names of arguments only: with their values the reply of a model's
\* call may hold a "confirm" for the panel, or text that cannot be encoded.
Tell ==
  \/ serving.phase \in {"ran", "called"} /\ Send("noted")
  \/ serving.phase = "called" /\ (Send("echoed") \/ Send("unreadable"))

\* Mutant: the end of the stream is not noticed, the worker reads on.
DieUnnoticed ==
  /\ up = "up" /\ up' = "dead" /\ queue' = <<>> /\ serving' = Nobody
  /\ UNCHANGED <<panelVars, conn, tries, ran>>

\* The service dies: every connection it holds ends with an empty body.
Die ==
  /\ up = "up" /\ up' = "dead" /\ queue' = <<>> /\ serving' = Nobody
  /\ conn' = [r \in Req |-> IF conn[r] = "queued" THEN "unreadable" ELSE conn[r]]
  /\ UNCHANGED <<panelVars, tries, ran>>

-----------------------------------------------------------------------------
(* The panel.                                                              *)

\* Mutant: the entry stays sensitive while Aura thinks.
AuraSubmitOpen(n, k) ==
  /\ entry /\ text[n] = "unused"
  /\ kind' = [kind EXCEPT ![n] = k] /\ text' = [text EXCEPT ![n] = "thinking"]
  /\ ticker' = [ticker EXCEPT ![n] = TRUE]
  /\ Goto(n, "none", "start")
  /\ UNCHANGED <<entry, row, confirm, powered, tries, serviceVars>>

\* aura_submit
AuraSubmit(n, k) ==
  /\ entry /\ text[n] = "unused"
  /\ kind' = [kind EXCEPT ![n] = k] /\ text' = [text EXCEPT ![n] = "thinking"]
  /\ ticker' = [ticker EXCEPT ![n] = TRUE] /\ entry' = FALSE
  /\ Goto(n, "none", "start")
  /\ UNCHANGED <<row, confirm, powered, tries, serviceVars>>

\* aura_wait_tick
Tick(n) ==
  /\ ticker[n] /\ text' = [text EXCEPT ![n] = "thinking 5s"]
  /\ UNCHANGED <<entry, kind, ticker, row, confirm, powered, conn, tries, serviceVars>>

\* aura_worker looks for "confirm" anywhere in the body.
Asks(reply) == reply \in {"confirm", "echoed"}

\* Mutant: the answer is shown and the ticker left to run.
AuraApplyResultTicking(n) ==
  /\ conn[n] \in Reply /\ Goto(n, conn[n], "none")
  /\ text' = [text EXCEPT ![n] = conn[n]] /\ entry' = TRUE
  /\ row' = [row EXCEPT ![n] = IF Asks(conn[n]) THEN "live" ELSE @]
  /\ confirm' = [confirm EXCEPT ![n] = Asks(conn[n])]
  /\ UNCHANGED <<kind, ticker, powered, tries, serviceVars>>

\* The end of aura_worker, and aura_apply_result on the main loop.
AuraApplyResult(n) ==
  /\ conn[n] \in Reply /\ Goto(n, conn[n], "none")
  /\ ticker' = [ticker EXCEPT ![n] = FALSE]
  /\ text' = [text EXCEPT ![n] = conn[n]] /\ entry' = TRUE
  /\ row' = [row EXCEPT ![n] = IF Asks(conn[n]) THEN "live" ELSE @]
  /\ confirm' = [confirm EXCEPT ![n] = Asks(conn[n])]
  /\ UNCHANGED <<kind, powered, tries, serviceVars>>

\* aura_confirm_settle: the row goes grey and the note is appended to the bubble.
Settle(n, note) == row' = IF row[n] = "live" THEN [row EXCEPT ![n] = note] ELSE row

\* Mutant: the row is not settled before the power action.
OnAuraConfirmOkUnsettled(n) ==
  /\ row[n] = "live" /\ UNCHANGED row
  /\ powered' = powered \cup {n}
  /\ UNCHANGED <<entry, kind, text, ticker, confirm, conn, tries, serviceVars>>

\* on_aura_confirm_ok; power_action asks the root service.
OnAuraConfirmOk(n) ==
  /\ row[n] = "live" /\ Settle(n, "going")
  /\ powered' = powered \cup {n}
  /\ UNCHANGED <<entry, kind, text, ticker, confirm, conn, tries, serviceVars>>

OnAuraConfirmCancel(n) ==
  /\ row[n] = "live" /\ Settle(n, "cancelled")
  /\ UNCHANGED <<entry, kind, text, ticker, confirm, powered, conn, tries, serviceVars>>

\* Mutant: the timer frees the struct of a row that can still be clicked.
AuraConfirmExpireOnlyFrees(n) ==
  /\ confirm[n] /\ confirm' = [confirm EXCEPT ![n] = FALSE]
  /\ UNCHANGED <<entry, kind, text, ticker, row, powered, conn, tries, serviceVars>>

\* aura_confirm_expire
AuraConfirmExpire(n) ==
  /\ confirm[n] /\ confirm' = [confirm EXCEPT ![n] = FALSE]
  /\ Settle(n, "expired")
  /\ UNCHANGED <<entry, kind, text, ticker, powered, conn, tries, serviceVars>>

-----------------------------------------------------------------------------
(* The day card.                                                           *)

\* on_widgets_btn, ctx_widgets: every opening starts a worker.
OpenWidgets(d) ==
  /\ Goto(d, "none", "start") /\ tries' = [tries EXCEPT ![d] = 1]
  /\ UNCHANGED <<panelVars, serviceVars>>

\* "warming up" and "waking up" are asked again, and so is what the model says if
\* it has these words or "offline" in it; other failures are shown.
Again    == {"warming", "waking"}
MayAgain == Again \cup {"answer", "noted", "echoed"}

\* day_worker sleeps after every such answer, the last included.
DaySleep(d) ==
  /\ conn[d] \in MayAgain /\ Goto(d, conn[d], "sleep")
  /\ UNCHANGED <<panelVars, tries, serviceVars>>

\* Mutant: the loop has no end.
DayWakeForever(d) ==
  /\ Goto(d, "sleep", "start")
  /\ UNCHANGED <<panelVars, tries, serviceVars>>

DayWake(d) ==
  /\ tries[d] < Tries /\ Goto(d, "sleep", "start")
  /\ tries' = [tries EXCEPT ![d] = @ + 1]
  /\ UNCHANGED <<panelVars, serviceVars>>

\* day_apply puts the last answer on the card, whatever it is; of several workers
\* the last to end is shown.
DayApply(d) ==
  /\ \/ conn[d] \in Reply \ Again /\ Goto(d, conn[d], "none")
     \/ tries[d] = Tries /\ Goto(d, "sleep", "none")
  /\ tries' = [tries EXCEPT ![d] = 0]
  /\ UNCHANGED <<panelVars, serviceVars>>

NewSession ==
  /\ entry' = TRUE /\ kind' = [n \in Ask |-> "plain"]
  /\ text' = [n \in Ask |-> "unused"] /\ ticker' = [n \in Ask |-> FALSE]
  /\ row' = [n \in Ask |-> "none"] /\ confirm' = [n \in Ask |-> FALSE] /\ powered' = {}
  /\ conn' = [r \in Req |-> "none"]
  /\ tries' = [d \in Day |-> 0]
  /\ up' = "starting" /\ queue' = <<>> /\ serving' = Nobody /\ ran' = {}

\* autostart runs the service and the shell together, each once.
Listen ==
  /\ up = "starting" /\ up' = "up"
  /\ UNCHANGED <<panelVars, conn, tries, queue, serving, ran>>

\* What the single thread of HTTPServer does for its connections.
Handle == Accept \/ Read \/ Model \/ Tell

Service == Listen \/ Handle
DayWorker(d) == DaySleep(d) \/ DayWake(d) \/ DayApply(d)

Next ==
  \/ Service \/ Die \/ NewSession
  \/ \E r \in Req : Connect(r)
  \/ \E n \in Ask :
       \/ \E k \in Kind : AuraSubmit(n, k)
       \/ Tick(n) \/ AuraApplyResult(n)
       \/ OnAuraConfirmOk(n) \/ OnAuraConfirmCancel(n) \/ AuraConfirmExpire(n)
  \/ \E d \in Day : OpenWidgets(d) \/ DayWorker(d)

\* Threads are scheduled, a sleep ends, the main loop runs its idle calls, and
\* no handler runs for ever: the one long wait, for the model, ends after 90 s.
Fairness ==
  /\ WF_vars(Service)
  /\ \A r \in Req : WF_vars(Connect(r))
  /\ \A n \in Ask : WF_vars(AuraApplyResult(n)) /\ WF_vars(AuraConfirmExpire(n))
  /\ \A d \in Day : WF_vars(DayWorker(d))

Spec == Init /\ [][Next]_vars /\ Fairness

-----------------------------------------------------------------------------
(* Properties.                                                             *)

\* Every variable has its type.
TypeOK ==
  /\ entry \in BOOLEAN /\ kind \in [Ask -> Kind]
  /\ text \in [Ask -> {"unused"} \cup Thinking \cup Reply]
  /\ ticker \in [Ask -> BOOLEAN] /\ row \in [Ask -> {"none", "live"} \cup Settled]
  /\ confirm \in [Ask -> BOOLEAN] /\ powered \subseteq Ask
  /\ conn \in [Req -> Wait \cup Reply]
  /\ tries \in [Day -> 0..Tries]
  /\ up \in {"starting", "up", "dead"} /\ queue \in Seq(Req) /\ Len(queue) <= Backlog
  /\ serving \in {Nobody} \cup [of : Req, phase : Phase]
  /\ ran \subseteq Ask

\* The entry can be used exactly while no question is on its way, so two
\* questions never wait at the same time and their answers cannot be mixed up
\* (aura_submit, aura_apply_result).
OneQuestion ==
  /\ entry <=> \A n \in Ask : conn[n] = "none"
  /\ \A m, n \in Ask : conn[m] # "none" /\ conn[n] # "none" => m = n

\* A bubble says "Thinking" exactly while its thread runs: no tick comes after
\* the answer to cover it (aura_wait_stop before the text is set).
ThinkingMeansPending ==
  \A n \in Ask : (text[n] \in Thinking <=> conn[n] # "none") /\ (ticker[n] <=> conn[n] # "none")

\* Power goes off exactly for a question whose own button was pressed, once, and
\* what its bubble says of it - going, cancelled, expired - is what was done.  The
\* button comes with a question about power, or with a call of the model's whose
\* arguments read like one (the strstr of aura_worker).
PowerNeedsItsButton ==
  \A n \in Ask :
    /\ n \in powered <=> row[n] = "going"
    /\ row[n] # "none" => \/ kind[n] = "power" /\ text[n] = "confirm"
                          \/ kind[n] = "cued" /\ text[n] = "echoed"

\* Buttons that can be pressed have their AuraConfirm: the timer that frees it
\* settles the row first, in whatever order the rows were answered.
ButtonsHaveTheirStruct == \A n \in Ask : row[n] = "live" => confirm[n]

\* An action that ran is told in its answer, even if the model's own words were
\* thrown away or the answer comes with buttons; untold it stays only if no answer
\* could be read at all.
RanIsSaid == \A n \in ran : text[n] \in Thinking \cup {"noted", "echoed", "unreadable"}

\* Where the service holds the connection of r: 0 is the one it handles, i the
\* i-th of its backlog.
Places(r) ==
  {i \in 0..Len(queue) :
     IF i = 0 THEN serving # Nobody /\ serving.of = r ELSE queue[i] = r}

\* How many steps the one handler takes at most until it answers the place.
StepsOf(phase) == CASE phase = "none"  -> 0 [] phase \in {"ran", "called"} -> 1
                    [] phase = "model" -> 2 [] phase = "read" -> 3
StepsTo(i, phase) == 4 * i + StepsOf(phase)

\* A thread whose connection was taken is held by the service in exactly one of
\* the places there are, and what is held is waited for: no such question is
\* forgotten, or answered to nobody (the accept loop of HTTPServer, its backlog,
\* and what its death leaves).
WaitersAreHeld ==
  \A r \in Req : IF conn[r] = "queued"
                 THEN \E i \in 0..Backlog : Places(r) = {i}
                 ELSE Places(r) = {}

\* No question that was taken is overtaken: each step of the handlers brings every
\* thread that waits closer to its answer, and nothing else, a new question included, takes
\* it back (one handler at a time, the backlog in order).
AnsweredInTurn ==
  [][\A r \in Req : \A i \in Places(r) :
       \/ conn'[r] # "queued"
       \/ \E j \in Places(r)' :
            IF Handle
            THEN StepsTo(j, serving'.phase) < StepsTo(i, serving.phase)
            ELSE StepsTo(j, serving'.phase) = StepsTo(i, serving.phase)]_vars

\* Every question is answered, also when the service is not there, dies, or the
\* model never comes; the entry is then usable again (OneQuestion).
EveryQuestionAnswered == \A n \in Ask : text[n] \in Thinking ~> text[n] \notin Thinking

\* Every worker of the day card ends, whatever it is answered.
DayEnds == \A d \in Day : conn[d] # "none" ~> conn[d] = "none"

=============================================================================
