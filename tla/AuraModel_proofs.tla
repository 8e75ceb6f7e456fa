-------------------------- MODULE AuraModel_proofs --------------------------
(***************************************************************************)
(* Proofs about "Set up Aura" (AuraModel) for every number of threads,     *)
(* every length of the model file and every number of restarts.            *)
(***************************************************************************)
EXTENDS AuraModel, TLAPS

Phase == {"none", "connect", "read", "replace", "report", "error", "release"}

\* A thread that has opened the .part file still has it, and has put it in
\* place when it says so; it reports before it lets go of the flag.
PhasesAgree ==
  \A t \in Thread :
    /\ pc[t] \in {"read", "replace"} => part # Absent
    /\ pc[t] = "replace" => (part = Blocks \/ cut)
    /\ pc[t] = "report" => Present
    /\ pc[t] \in Phase \ {"none", "release"} => ~job.done /\ ~job.error
    /\ pc[t] = "release" => job.done \/ job.error

\* The shell is blocked from its click on Download to the answer.
WaitsWithItsButton == checked = "window" => go

IInv ==
  /\ TypeOK
  /\ OneDownload
  /\ WholeUnlessCut
  /\ ReadyMeansPresent
  /\ GreyHasReason
  /\ PhasesAgree
  /\ WaitsWithItsButton

-----------------------------------------------------------------------------
\* AURA["pct"] of a download whose length is known.
LEMMA Percentage ==
  ASSUME NEW n \in 0..Blocks
  PROVE  (n * 100) \div Blocks \in 0..100
<1> DEFINE q == (n * 100) \div Blocks
           r == (n * 100) % Blocks
<1>1. Blocks \in Nat /\ Blocks > 0  BY BlocksAssumption
<1>2. q \in Int /\ r \in 0..(Blocks - 1) /\ n * 100 = Blocks * q + r
  BY <1>1
<1>3. q >= 0
  BY <1>1
<1>4. q <= 100
  <2>1. SUFFICES ASSUME q >= 101 PROVE FALSE  BY <1>2
  <2>2. Blocks * q >= Blocks * 101  BY <1>1, <1>2, <2>1
  <2>3. n * 100 <= Blocks * 100  BY <1>1
  <2> QED BY <1>1, <1>2, <2>2, <2>3
<1> QED BY <1>2, <1>3, <1>4

LEMMA OneMore == \A n \in 0..MaxRestarts : n < MaxRestarts => n + 1 \in 0..MaxRestarts
BY RestartsAssumption

Job == [running : BOOLEAN, pct : 0..100, done : BOOLEAN, error : BOOLEAN]

(* What each assignment to the dictionary leaves alone. *)
Like(k, j) == k \in Job /\ k.running = j.running /\ k.done = j.done /\ k.error = j.error

LEMMA JobUpdates ==
  ASSUME NEW j \in Job
  PROVE  /\ \A p \in 0..100 : Like([j EXCEPT !.pct = p], j)
         /\ [j EXCEPT !.done = TRUE, !.pct = 100] \in Job
         /\ [j EXCEPT !.done = TRUE, !.pct = 100].running = j.running
         /\ [j EXCEPT !.done = TRUE, !.pct = 100].done = TRUE
         /\ [j EXCEPT !.done = TRUE, !.pct = 100].error = j.error
         /\ [j EXCEPT !.error = TRUE] \in Job
         /\ [j EXCEPT !.error = TRUE].running = j.running
         /\ [j EXCEPT !.error = TRUE].done = j.done
         /\ [j EXCEPT !.error = TRUE].error = TRUE
         /\ [j EXCEPT !.running = FALSE] \in Job
         /\ [j EXCEPT !.running = FALSE].running = FALSE
         /\ [j EXCEPT !.running = FALSE].done = j.done
         /\ [j EXCEPT !.running = FALSE].error = j.error
<1>1. \A p \in 0..100 : Like([j EXCEPT !.pct = p], j)
  BY DEF Job, Like
<1>2. /\ [j EXCEPT !.done = TRUE, !.pct = 100] \in Job
      /\ [j EXCEPT !.done = TRUE, !.pct = 100].running = j.running
      /\ [j EXCEPT !.done = TRUE, !.pct = 100].done = TRUE
      /\ [j EXCEPT !.done = TRUE, !.pct = 100].error = j.error
  <2> DEFINE k == [j EXCEPT !.done = TRUE]
  <2>1. k \in Job /\ k.running = j.running /\ k.done = TRUE /\ k.error = j.error
    BY DEF Job
  <2>2. \A i \in Job : LET l == [i EXCEPT !.pct = 100]
                       IN  l \in Job /\ l.running = i.running /\ l.done = i.done /\ l.error = i.error
    BY DEF Job
  <2> HIDE DEF k
  <2>3. LET l == [k EXCEPT !.pct = 100]
        IN  l \in Job /\ l.running = j.running /\ l.done = TRUE /\ l.error = j.error
    BY <2>1, <2>2
  <2> QED BY <2>3 DEF k
<1>3. /\ [j EXCEPT !.error = TRUE] \in Job
      /\ [j EXCEPT !.error = TRUE].running = j.running
      /\ [j EXCEPT !.error = TRUE].done = j.done
      /\ [j EXCEPT !.error = TRUE].error = TRUE
  BY DEF Job
<1>4. /\ [j EXCEPT !.running = FALSE] \in Job
      /\ [j EXCEPT !.running = FALSE].running = FALSE
      /\ [j EXCEPT !.running = FALSE].done = j.done
      /\ [j EXCEPT !.running = FALSE].error = j.error
  BY DEF Job
<1> QED BY <1>1, <1>2, <1>3, <1>4

LEMMA FreshJobs ==
  /\ IdleJob \in Job
  /\ IdleJob.running = FALSE /\ IdleJob.done = FALSE /\ IdleJob.error = FALSE
  /\ [IdleJob EXCEPT !.running = TRUE] \in Job
  /\ [IdleJob EXCEPT !.running = TRUE].running = TRUE
  /\ [IdleJob EXCEPT !.running = TRUE].done = FALSE
  /\ [IdleJob EXCEPT !.running = TRUE].error = FALSE
<1>1. /\ IdleJob \in Job
      /\ IdleJob.running = FALSE /\ IdleJob.done = FALSE /\ IdleJob.error = FALSE
  BY DEF Job, IdleJob
<1>2. /\ [IdleJob EXCEPT !.running = TRUE] \in Job
      /\ [IdleJob EXCEPT !.running = TRUE].running = TRUE
      /\ [IdleJob EXCEPT !.running = TRUE].done = FALSE
      /\ [IdleJob EXCEPT !.running = TRUE].error = FALSE
  <2>1. \A j \in Job : LET k == [j EXCEPT !.running = TRUE]
                       IN  k \in Job /\ k.running = TRUE /\ k.done = j.done /\ k.error = j.error
    BY DEF Job
  <2> QED BY <1>1, <2>1
<1> QED BY <1>1, <1>2

(* A thread that moves is the only one and holds the flag. *)
LEMMA Moving ==
  ASSUME TypeOK, OneDownload, NEW t \in Thread, NEW here \in Phase \ {"none"}, NEW next \in Phase,
         Step(t, here, next)
  PROVE  /\ pc[t] = here /\ job.running
         /\ pc' \in [Thread -> Phase] /\ pc'[t] = next
         /\ \A u \in Thread \ {t} : pc[u] = "none" /\ pc'[u] = "none"
<1>1. pc[t] = here /\ job.running
  BY DEF Step, OneDownload, Alive
<1>2. pc \in [Thread -> Phase] /\ pc' = [pc EXCEPT ![t] = next]
  BY DEF Step, TypeOK, Phase
<1>3. \A u \in Thread \ {t} : pc[u] = "none"
  BY <1>1 DEF OneDownload, Alive
<1> QED BY <1>1, <1>2, <1>3

LEMMA Initially == Init => IInv
<1> SUFFICES ASSUME Init PROVE IInv  OBVIOUS
<1>0. 0 \in 0..MaxRestarts /\ Blocks \in 0..Blocks
  BY BlocksAssumption, RestartsAssumption
<1> USE DEF Init
<1>1. TypeOK
  <2>1. restarts \in 0..MaxRestarts  BY <1>0
  <2>2. part \in Length /\ model \in Length  BY <1>0 DEF Length
  <2>3. job \in Job  BY FreshJobs
  <2> QED BY <2>1, <2>2, <2>3 DEF TypeOK, Job
<1>2. OneDownload /\ WholeUnlessCut /\ ReadyMeansPresent /\ GreyHasReason
  BY FreshJobs DEF OneDownload, Alive, WholeUnlessCut, ReadyMeansPresent, GreyHasReason, Present
<1>3. PhasesAgree /\ WaitsWithItsButton
  BY DEF PhasesAgree, WaitsWithItsButton, Phase
<1> QED BY <1>1, <1>2, <1>3 DEF IInv

-----------------------------------------------------------------------------
(* The download thread.                                                    *)

(* It suffices that the thread finds the state its next phase asks for. *)
LEMMA Advancing ==
  ASSUME IInv, NEW t \in Thread, NEW here \in Phase \ {"none"}, NEW next \in Phase,
         Step(t, here, next),
         UNCHANGED <<checked, up, restarts, windowVars>>,
         sized' \in [Thread -> BOOLEAN], part' \in Length, model' \in Length, cut' \in BOOLEAN,
         job' \in Job,
         job'.running \/ next = "none",
         Present => Present', job'.done => Present', WholeUnlessCut',
         next \in {"read", "replace"} => part' # Absent,
         next = "replace" => (part' = Blocks \/ cut'),
         next = "report" => Present',
         next \in Phase \ {"none", "release"} => ~job'.done /\ ~job'.error,
         next = "release" => job'.done \/ job'.error
  PROVE  IInv'
<1>1. /\ pc' \in [Thread -> Phase] /\ pc'[t] = next
      /\ \A u \in Thread \ {t} : pc'[u] = "none"
  BY Moving DEF IInv
<1>2. UNCHANGED <<checked, up, restarts, go, text, polling>>
  BY DEF windowVars
<1>3. TypeOK'
  BY <1>1, <1>2 DEF IInv, TypeOK, Phase, Job
<1>4. OneDownload'
  BY <1>1 DEF OneDownload, Alive
<1>5. ReadyMeansPresent'
  BY <1>2 DEF IInv, ReadyMeansPresent
<1>6. PhasesAgree'
  BY <1>1 DEF PhasesAgree, Phase
<1>7. GreyHasReason' /\ WaitsWithItsButton'
  BY <1>2 DEF IInv, GreyHasReason, WaitsWithItsButton
<1> QED BY <1>3, <1>4, <1>5, <1>6, <1>7 DEF IInv

LEMMA Downloading ==
  ASSUME IInv, NEW t \in Thread, DownloadThread(t)
  PROVE  IInv'
<1> USE DEF IInv
<1>0. /\ sized \in [Thread -> BOOLEAN] /\ job \in Job /\ cut \in BOOLEAN
      /\ part \in Length /\ model \in Length /\ Blocks \in Nat \ {0}
      /\ UNCHANGED <<checked, up, restarts, windowVars>>
      /\ job.done => Present
  BY BlocksAssumption DEF TypeOK, Job, DownloadThread, ReadyMeansPresent
<1>1. CASE Connect(t)
  <2>1. Step(t, "connect", "read") /\ part' = 0 /\ UNCHANGED <<job, model, cut>>
    BY <1>1 DEF Connect
  <2>2. job.running /\ ~job.done /\ ~job.error
    BY <2>1, Moving DEF Phase, PhasesAgree
  <2>3. sized' \in [Thread -> BOOLEAN] /\ part' \in Length /\ part' # Absent
    BY <1>0, <1>1 DEF Connect, Length, Absent
  <2> QED BY <1>0, <2>1, <2>2, <2>3, Advancing DEF Phase, WholeUnlessCut, Present
<1>2. CASE ReadChunk(t)
  <2>1. Step(t, "read", "read") /\ part < Blocks /\ part' = part + 1 /\ UNCHANGED <<sized, model, cut>>
    BY <1>2 DEF ReadChunk
  <2>2. job.running /\ ~job.done /\ ~job.error /\ part # Absent
    BY <2>1, Moving DEF Phase, PhasesAgree
  <2>3. part' \in 0..Blocks /\ part' \in Length /\ part' # Absent
    BY <1>0, <2>1, <2>2 DEF Length, Absent
  <2>4. Like(job', job)
    <3>1. \A p \in 0..100 : Like([job EXCEPT !.pct = p], job)
      BY <1>0, JobUpdates
    <3> QED BY <1>0, <1>2, <2>3, <3>1, Percentage DEF ReadChunk, Like
  <2> QED BY <1>0, <2>1, <2>2, <2>3, <2>4, Advancing DEF Phase, WholeUnlessCut, Present, Like
<1>3. CASE EndOfBody(t)
  <2>1. /\ Step(t, "read", "replace") /\ cut' = (cut \/ part < Blocks)
        /\ UNCHANGED <<job, sized, part, model>>
    BY <1>3 DEF EndOfBody
  <2>2. job.running /\ ~job.done /\ ~job.error /\ part # Absent
    BY <2>1, Moving DEF Phase, PhasesAgree
  <2>3. part = Blocks \/ part < Blocks
    BY <1>0, <2>2 DEF Length, Absent
  <2>4. cut' \in BOOLEAN /\ (part = Blocks \/ cut') /\ (cut => cut')
    BY <1>0, <2>1, <2>3
  <2> QED BY <1>0, <2>1, <2>2, <2>4, Advancing DEF Phase, WholeUnlessCut, Present
<1>4. CASE Replace(t)
  <2>1. /\ Step(t, "replace", "report") /\ model' = part /\ part' = Absent
        /\ UNCHANGED <<job, sized, cut>>
    BY <1>4 DEF Replace
  <2>2. /\ job.running /\ ~job.done /\ ~job.error /\ part # Absent
        /\ (part = Blocks \/ cut)
    BY <2>1, Moving DEF Phase, PhasesAgree
  <2> QED BY <1>0, <2>1, <2>2, Advancing DEF Phase, WholeUnlessCut, Present, Length
<1>5. CASE Succeed(t)
  <2>1. /\ Step(t, "report", "release") /\ job' = [job EXCEPT !.done = TRUE, !.pct = 100]
        /\ UNCHANGED <<sized, part, model, cut>>
    BY <1>5 DEF Succeed
  <2>2. job.running /\ Present
    BY <2>1, Moving DEF Phase, PhasesAgree
  <2>3. job' \in Job /\ job'.running /\ job'.done
    <3> DEFINE k == [job EXCEPT !.done = TRUE, !.pct = 100]
    <3>1. k \in Job /\ k.running = job.running /\ k.done = TRUE
      BY <1>0, JobUpdates
    <3> HIDE DEF k
    <3>2. job' = k
      BY <2>1 DEF k
    <3> QED BY <2>2, <3>1, <3>2
  <2> QED BY <1>0, <2>1, <2>2, <2>3, Advancing DEF Phase, WholeUnlessCut, Present
<1>6. CASE Fail(t)
  <2>1. PICK here \in {"connect", "read", "replace", "report"} : Step(t, here, "error")
    BY <1>6 DEF Fail
  <2>2. part' = Absent /\ UNCHANGED <<job, sized, model, cut>>
    BY <1>6 DEF Fail
  <2>3. job.running /\ ~job.done /\ ~job.error
    BY <2>1, Moving DEF Phase, PhasesAgree
  <2> QED BY <1>0, <2>1, <2>2, <2>3, Advancing DEF Phase, WholeUnlessCut, Present, Length
<1>7. CASE ReportError(t)
  <2>1. /\ Step(t, "error", "release") /\ job' = [job EXCEPT !.error = TRUE]
        /\ UNCHANGED <<sized, part, model, cut>>
    BY <1>7 DEF ReportError
  <2>2. job.running
    BY <2>1, Moving DEF Phase
  <2>3. job' \in Job /\ job'.running /\ job'.error /\ job'.done = job.done
    BY <1>0, <2>1, <2>2, JobUpdates
  <2> QED BY <1>0, <2>1, <2>3, Advancing DEF Phase, WholeUnlessCut, Present
<1>8. CASE Release(t)
  <2>1. /\ Step(t, "release", "none") /\ job' = [job EXCEPT !.running = FALSE]
        /\ UNCHANGED <<sized, part, model, cut>>
    BY <1>8 DEF Release
  <2>2. job' \in Job /\ job'.done = job.done
    BY <1>0, <2>1, JobUpdates
  <2> QED BY <1>0, <2>1, <2>2, Advancing DEF Phase, WholeUnlessCut, Present
<1> QED BY <1>1, <1>2, <1>3, <1>4, <1>5, <1>6, <1>7, <1>8 DEF DownloadThread

-----------------------------------------------------------------------------
(* Restarts and the window.                                                *)

\* Nothing of the download is touched.
LEMMA Watching ==
  ASSUME IInv, UNCHANGED <<job, threadVars>>,
         TypeOK', ReadyMeansPresent', GreyHasReason', WaitsWithItsButton'
  PROVE  IInv'
BY DEF IInv, OneDownload, Alive, WholeUnlessCut, PhasesAgree, Present, threadVars

\* The service forgets everything; only what the window shows remains to be seen.
LEMMA Dying ==
  ASSUME IInv, Die,
         go' \in BOOLEAN, polling' \in BOOLEAN,
         text' \in {text, "starting", "downloading"},
         checked' \in {"nobody", checked},
         ~go' => polling' \/ (~go /\ text' = text /\ polling' = polling),
         checked' = "window" => go'
  PROVE  IInv'
<1> USE DEF IInv, Die
<1>1. TypeOK'
  <2>1. restarts' \in 0..MaxRestarts  BY OneMore DEF TypeOK
  <2>2. job' \in Job  BY FreshJobs
  <2> QED BY <2>1, <2>2 DEF TypeOK, Job
<1>2. OneDownload' /\ PhasesAgree'
  BY DEF OneDownload, Alive, PhasesAgree, Phase
<1>3. WholeUnlessCut' /\ ReadyMeansPresent'
  BY FreshJobs DEF WholeUnlessCut, ReadyMeansPresent, Present
<1>4. GreyHasReason' /\ WaitsWithItsButton'
  BY DEF GreyHasReason, WaitsWithItsButton, TypeOK
<1> QED BY <1>1, <1>2, <1>3, <1>4

LEMMA Restarting ==
  ASSUME IInv, ServiceDies \/ ServiceStarts \/ NewSession
  PROVE  IInv'
<1> USE DEF IInv
<1>1. CASE ServiceDies
  <2>1. checked = "window" => go
    BY DEF WaitsWithItsButton
  <2>2. CASE checked = "window"
    BY <1>1, <2>2, Dying DEF ServiceDies, Started
  <2>3. CASE checked # "window"
    BY <1>1, <2>3, Dying DEF ServiceDies, windowVars, TypeOK
  <2> QED BY <2>2, <2>3
<1>2. CASE ServiceStarts
  <2>1. TypeOK'
    BY <1>2 DEF ServiceStarts, TypeOK, threadVars, windowVars
  <2>2. ReadyMeansPresent' /\ GreyHasReason' /\ WaitsWithItsButton'
    BY <1>2 DEF ServiceStarts, ReadyMeansPresent, GreyHasReason, WaitsWithItsButton, Present,
       threadVars, windowVars
  <2> QED BY <1>2, <2>1, <2>2, Watching DEF ServiceStarts
<1>3. CASE NewSession
  <2>1. TypeOK'
    <3>1. restarts' \in 0..MaxRestarts  BY <1>3, OneMore DEF NewSession, TypeOK
    <3> QED BY <1>3, <3>1 DEF NewSession, TypeOK, threadVars
  <2>2. ReadyMeansPresent' /\ GreyHasReason' /\ WaitsWithItsButton'
    BY <1>3 DEF NewSession, ReadyMeansPresent, GreyHasReason, WaitsWithItsButton, Present,
       threadVars
  <2> QED BY <1>3, <2>1, <2>2, Watching DEF NewSession
<1> QED BY <1>1, <1>2, <1>3

LEMMA Opening == ASSUME IInv, OpenSetup PROVE IInv'
<1> USE DEF IInv, OpenSetup
<1>1. TypeOK'
  BY DEF TypeOK, threadVars
<1>2. ReadyMeansPresent' /\ GreyHasReason' /\ WaitsWithItsButton'
  BY DEF ReadyMeansPresent, GreyHasReason, WaitsWithItsButton, Free, Present, threadVars
<1> QED BY <1>1, <1>2, Watching

LEMMA Clicking == ASSUME IInv, DownloadClicked PROVE IInv'
<1> USE DEF IInv, DownloadClicked
<1>1. CASE Die
  <2>1. Started /\ UNCHANGED checked
    BY <1>1 DEF Die, Present, threadVars
  <2> QED BY <1>1, <2>1, Dying DEF Started, Free, TypeOK
<1>2. CASE ~Die
  <2>1. TypeOK'
    BY <1>2 DEF TypeOK, threadVars, windowVars, Started
  <2>2. ReadyMeansPresent' /\ GreyHasReason' /\ WaitsWithItsButton'
    BY <1>2 DEF ReadyMeansPresent, GreyHasReason, WaitsWithItsButton, Free, Present, threadVars,
       windowVars, Started
  <2> QED BY <1>2, <2>1, <2>2, Watching
<1> QED BY <1>1, <1>2

LEMMA Locking ==
  ASSUME IInv, NEW t \in Thread, SetupLocked(t)
  PROVE  IInv'
<1> USE DEF IInv, SetupLocked
<1>1. CASE job.running
  <2>1. TypeOK'
    BY <1>1 DEF TypeOK
  <2>2. /\ UNCHANGED <<job, go, polling, model>> /\ checked' = "nobody"
        /\ \/ checked # "window" /\ UNCHANGED text
           \/ go /\ text' = "in progress"
    BY <1>1 DEF WaitsWithItsButton
  <2>3. ReadyMeansPresent' /\ GreyHasReason' /\ WaitsWithItsButton'
    BY <2>2 DEF ReadyMeansPresent, GreyHasReason, WaitsWithItsButton, Present
  <2> QED BY <1>1, <2>1, <2>2, <2>3, Watching DEF threadVars
<1>2. CASE ~job.running
  <2>1. \A u \in Thread : pc[u] = "none"
    BY <1>2 DEF OneDownload, Alive
  <2>2. /\ pc' \in [Thread -> Phase] /\ pc'[t] = "connect"
        /\ \A u \in Thread \ {t} : pc'[u] = "none"
    BY <1>2, <2>1 DEF TypeOK, Phase
  <2>3. job' \in Job /\ job'.running /\ ~job'.done /\ ~job'.error
    BY <1>2, FreshJobs
  <2>4. UNCHANGED <<sized, part, model, cut, up, restarts>>
    OBVIOUS
  <2>5. \/ go' = FALSE /\ text' = "starting" /\ polling' = TRUE
        \/ checked # "window" /\ UNCHANGED <<go, text, polling>>
    BY <1>2 DEF Started, windowVars
  <2> HIDE DEF SetupLocked
  <2>6. TypeOK'
    <3>1. go' \in BOOLEAN /\ polling' \in BOOLEAN /\ checked' = "nobody"
      BY <2>5 DEF TypeOK, SetupLocked
    <3> QED BY <2>2, <2>3, <2>4, <2>5, <3>1 DEF TypeOK, Phase, Job
  <2>7. OneDownload' /\ PhasesAgree'
    BY <2>2, <2>3 DEF OneDownload, Alive, PhasesAgree, Phase
  <2>8. WholeUnlessCut' /\ ReadyMeansPresent'
    BY <2>3, <2>4, <2>5 DEF WholeUnlessCut, ReadyMeansPresent, Present
  <2>9. GreyHasReason' /\ WaitsWithItsButton'
    BY <2>5 DEF GreyHasReason, WaitsWithItsButton, SetupLocked
  <2> QED BY <2>6, <2>7, <2>8, <2>9
<1> QED BY <1>1, <1>2

LEMMA Polling == ASSUME IInv, Poll PROVE IInv'
<1> USE DEF IInv, Poll
<1>1. CASE Die /\ text' = "downloading" /\ UNCHANGED <<go, polling>>
  BY <1>1, Dying DEF Free, TypeOK
<1>2. CASE up /\ (PollError \/ PollDone \/ PollStage) /\ UNCHANGED <<threadVars, job, up, restarts>>
  <2>1. TypeOK'
    BY <1>2 DEF TypeOK, threadVars, PollError, PollDone, PollStage
  <2>2. ReadyMeansPresent' /\ GreyHasReason' /\ WaitsWithItsButton'
    BY <1>2 DEF ReadyMeansPresent, GreyHasReason, WaitsWithItsButton, Free, Present, threadVars,
       PollError, PollDone, PollStage
  <2> QED BY <1>2, <2>1, <2>2, Watching
<1>3. CASE UNCHANGED <<windowVars, threadVars, job, up, restarts>>
  <2>1. TypeOK'
    BY <1>3 DEF TypeOK, threadVars, windowVars
  <2>2. ReadyMeansPresent' /\ GreyHasReason' /\ WaitsWithItsButton'
    BY <1>3 DEF ReadyMeansPresent, GreyHasReason, WaitsWithItsButton, Free, Present, threadVars,
       windowVars
  <2> QED BY <1>3, <2>1, <2>2, Watching
<1> QED BY <1>1, <1>2, <1>3

LEMMA Consecution == IInv /\ [Next]_vars => IInv'
<1> SUFFICES ASSUME IInv, [Next]_vars PROVE IInv'  OBVIOUS
<1>1. CASE \E t \in Thread : DownloadThread(t)  BY <1>1, Downloading
<1>2. CASE \E t \in Thread : SetupLocked(t)  BY <1>2, Locking
<1>3. CASE ServiceDies \/ ServiceStarts \/ NewSession  BY <1>3, Restarting
<1>4. CASE OpenSetup  BY <1>4, Opening
<1>5. CASE DownloadClicked  BY <1>5, Clicking
<1>6. CASE Poll  BY <1>6, Polling
<1>7. CASE UNCHANGED vars
  BY <1>7 DEF vars, threadVars, windowVars, IInv, TypeOK, OneDownload, Alive, WholeUnlessCut,
     ReadyMeansPresent, GreyHasReason, PhasesAgree, WaitsWithItsButton, Present
<1> QED BY <1>1, <1>2, <1>3, <1>4, <1>5, <1>6, <1>7 DEF Next

-----------------------------------------------------------------------------
(* The theorems.                                                           *)

\* The inductive invariant: the threads, the dictionary, the two files and the
\* window agree with each other in every reachable state.
THEOREM Invariant == Spec => []IInv
<1> QED BY Initially, Consecution, PTL DEF Spec

\* Every variable keeps its type; the percentage stays between 0 and 100.
THEOREM TypeCorrect == Spec => []TypeOK
<1> QED BY Invariant, PTL DEF IInv

\* However often the service dies or the session is replaced, no two threads
\* write the .part file.
THEOREM OneWriter == Spec => []OneDownload
<1> QED BY Invariant, PTL DEF IInv

\* The file the service takes for the model is whole, unless a body ended
\* before its length.
THEOREM ModelIsWhole == Spec => []WholeUnlessCut
<1> QED BY Invariant, PTL DEF IInv

\* "Aura is ready" is shown only with a model in place.
THEOREM ReadyIsTrue == Spec => []ReadyMeansPresent
<1> QED BY Invariant, PTL DEF IInv

\* The Download button is grey only while an outcome is awaited or once there
\* is nothing left to download.
THEOREM GreyIsExplained == Spec => []GreyHasReason
<1> QED BY Invariant, PTL DEF IInv

-----------------------------------------------------------------------------
(* AURA keeps the contract of BackgroundJob, its fairness aside.           *)

LEMMA ContractStarts == Init => DownloadContract!Init
BY FreshJobs DEF Init, DownloadContract!Init

LEMMA ContractStep == IInv /\ [Next]_vars => [DownloadContract!Next]_(DownloadContract!vars)
<1> SUFFICES ASSUME IInv, [Next]_vars
             PROVE  \/ DownloadContract!Next
                    \/ UNCHANGED <<job.running, job.done, job.error>>
  BY DEF DownloadContract!vars
<1> USE DEF IInv
<1>0. /\ job \in Job /\ part \in Length
      /\ job.running \in BOOLEAN /\ job.done \in BOOLEAN /\ job.error \in BOOLEAN
  BY DEF TypeOK, Job
<1>1. ASSUME Die PROVE DownloadContract!Next
  BY <1>1, FreshJobs DEF Die, DownloadContract!Next, DownloadContract!Restart
<1>2. ASSUME NEW t \in Thread, DownloadThread(t)
      PROVE  DownloadContract!Next \/ UNCHANGED <<job.running, job.done, job.error>>
  <2>1. CASE ReadChunk(t)
    <3>1. \A p \in 0..100 : Like([job EXCEPT !.pct = p], job)
      BY <1>0, JobUpdates
    <3>2. Step(t, "read", "read") /\ part < Blocks /\ part' = part + 1
      BY <2>1 DEF ReadChunk
    <3>3. part # Absent
      BY <3>2, Moving DEF PhasesAgree, Phase
    <3>4. part' \in 0..Blocks
      BY <1>0, <3>2, <3>3, BlocksAssumption DEF Length, Absent
    <3> QED BY <2>1, <3>1, <3>4, Percentage DEF ReadChunk, Like
  <2>2. CASE Succeed(t)
    <3>1. job.running /\ ~job.done /\ ~job.error
      BY <2>2, Moving DEF Succeed, PhasesAgree, Phase
    <3> DEFINE k == [job EXCEPT !.done = TRUE, !.pct = 100]
    <3>2. k.running = job.running /\ k.done = TRUE /\ k.error = job.error
      BY <1>0, JobUpdates
    <3> HIDE DEF k
    <3>3. job' = k
      BY <2>2 DEF Succeed, k
    <3>4. DownloadContract!Report(TRUE)
      BY <1>0, <3>1, <3>2, <3>3 DEF DownloadContract!Report
    <3> QED BY <3>4 DEF DownloadContract!Next
  <2>3. CASE ReportError(t)
    <3>1. job.running /\ ~job.done /\ ~job.error
      BY <2>3, Moving DEF ReportError, PhasesAgree, Phase
    <3> DEFINE k == [job EXCEPT !.error = TRUE]
    <3>2. k.running = job.running /\ k.done = job.done /\ k.error = TRUE
      BY <1>0, JobUpdates
    <3> HIDE DEF k
    <3>3. job' = k
      BY <2>3 DEF ReportError, k
    <3>4. DownloadContract!Report(FALSE)
      BY <1>0, <3>1, <3>2, <3>3 DEF DownloadContract!Report
    <3> QED BY <3>4 DEF DownloadContract!Next
  <2>4. CASE Release(t)
    <3>1. job.running /\ (job.done \/ job.error)
      BY <2>4, Moving DEF Release, PhasesAgree, Phase
    <3> DEFINE k == [job EXCEPT !.running = FALSE]
    <3>2. k.running = FALSE /\ k.done = job.done /\ k.error = job.error
      BY <1>0, JobUpdates
    <3> HIDE DEF k
    <3>3. job' = k
      BY <2>4 DEF Release, k
    <3>4. DownloadContract!Release
      BY <3>1, <3>2, <3>3 DEF DownloadContract!Release
    <3> QED BY <3>4 DEF DownloadContract!Next
  <2>5. CASE Connect(t) \/ EndOfBody(t) \/ Replace(t) \/ Fail(t)
    BY <2>5 DEF Connect, EndOfBody, Replace, Fail
  <2> QED BY <1>2, <2>1, <2>2, <2>3, <2>4, <2>5 DEF DownloadThread
<1>3. ASSUME NEW t \in Thread, SetupLocked(t)
      PROVE  DownloadContract!Next \/ UNCHANGED <<job.running, job.done, job.error>>
  <2>1. CASE ~job.running /\ job' = [IdleJob EXCEPT !.running = TRUE]
    <3>1. DownloadContract!Start("model")
      BY <2>1, FreshJobs DEF DownloadContract!Start
    <3> QED BY <3>1 DEF DownloadContract!Next
  <2>2. CASE UNCHANGED job
    BY <2>2
  <2> QED BY <1>3, <2>1, <2>2 DEF SetupLocked
<1>4. CASE ServiceDies
  BY <1>1, <1>4 DEF ServiceDies
<1>5. CASE DownloadClicked \/ Poll
  <2>1. Die \/ UNCHANGED job
    BY <1>5 DEF DownloadClicked, Poll
  <2> QED BY <1>1, <2>1
<1>6. CASE ServiceStarts \/ NewSession \/ OpenSetup
  BY <1>6 DEF ServiceStarts, NewSession, OpenSetup
<1>7. CASE UNCHANGED vars
  BY <1>7 DEF vars
<1> QED BY <1>2, <1>3, <1>4, <1>5, <1>6, <1>7 DEF Next

\* Every run of the download starts once, reports exactly one outcome while it
\* holds the flag, and lets go of the flag afterwards: the safety part of
\* KeepsDownloadContract.
THEOREM ContractIsKept ==
  Spec => DownloadContract!Init /\ [][DownloadContract!Next]_(DownloadContract!vars)
<1> QED BY Invariant, ContractStarts, ContractStep, PTL DEF Spec

-----------------------------------------------------------------------------
(* Every download ends. *)

LEMMA StepNumbers ==
  /\ StepsLeft("none", part) = 0 /\ StepsLeft("release", part) = 1
  /\ StepsLeft("error", part) = 2 /\ StepsLeft("report", part) = 3
  /\ StepsLeft("replace", part) = 4
  /\ StepsLeft("read", part) = 5 + (Blocks - part)
  /\ StepsLeft("connect", part) = 6 + Blocks
BY DEF StepsLeft

LEMMA StepNumbersThen ==
  /\ StepsLeft("none", part') = 0 /\ StepsLeft("release", part') = 1
  /\ StepsLeft("error", part') = 2 /\ StepsLeft("report", part') = 3
  /\ StepsLeft("replace", part') = 4
  /\ StepsLeft("read", part') = 5 + (Blocks - part')
BY DEF StepsLeft

LEMMA ThreadGetsOn ==
  ASSUME IInv, NEW t \in Thread, DownloadThread(t)
  PROVE  StepsLeft(pc'[t], part') < StepsLeft(pc[t], part)
<1>1. /\ Blocks \in Nat /\ Blocks > 0 /\ pc \in [Thread -> Phase]
      /\ pc[t] = "read" => part \in 0..Blocks
  <2>1. Blocks \in Nat /\ Blocks > 0
    BY BlocksAssumption
  <2>2. pc \in [Thread -> Phase] /\ part \in Length
    BY DEF IInv, TypeOK, Phase
  <2>3. pc[t] = "read" => part # Absent
    BY DEF IInv, PhasesAgree
  <2> QED
    BY <2>1, <2>2, <2>3 DEF Length
<1> USE <1>1, StepNumbers, StepNumbersThen DEF Step
<1>2. CASE Connect(t)
  <2>1. pc[t] = "connect" /\ pc'[t] = "read" /\ part' = 0
    BY <1>2 DEF Connect
  <2> QED
    BY <2>1
<1>3. CASE ReadChunk(t)
  <2>1. pc[t] = "read" /\ pc'[t] = "read" /\ part' = part + 1
    BY <1>3 DEF ReadChunk
  <2> QED
    BY <2>1
<1>4. CASE EndOfBody(t)
  <2>1. pc[t] = "read" /\ pc'[t] = "replace"
    BY <1>4 DEF EndOfBody
  <2> QED
    BY <2>1
<1>5. CASE Replace(t) \/ Succeed(t) \/ ReportError(t) \/ Release(t)
  <2>1. <<pc[t], pc'[t]>> \in {<<"replace", "report">>, <<"report", "release">>,
                               <<"error", "release">>, <<"release", "none">>}
    BY <1>5 DEF Replace, Succeed, ReportError, Release
  <2> QED
    BY <2>1
<1>6. CASE Fail(t)
  <2>1. pc[t] \in {"connect", "read", "replace", "report"} /\ pc'[t] = "error"
    BY <1>6 DEF Fail
  <2> QED
    BY <2>1
<1> QED
  BY <1>2, <1>3, <1>4, <1>5, <1>6 DEF DownloadThread

\* What a step that is none of this thread's does to it.
LEMMA ThreadLeftAlone ==
  ASSUME IInv, [Next]_vars, NEW t \in Thread, Alive(t), ~DownloadThread(t)
  PROVE  \/ pc'[t] = "none"
         \/ pc' = pc /\ part' = part
<1>1. job.running /\ \A u \in Thread : Alive(u) => u = t
  BY DEF IInv, OneDownload
<1>2. ASSUME NEW u \in Thread, DownloadThread(u) PROVE FALSE
  <2>1. Alive(u)
    BY <1>2 DEF DownloadThread, Connect, ReadChunk, EndOfBody, Replace, Succeed, Fail, ReportError,
                Release, Step, Alive
  <2> QED
    BY <1>1, <1>2, <2>1
<1>3. ASSUME NEW u \in Thread, SetupLocked(u) PROVE pc' = pc /\ part' = part
  BY <1>1, <1>3 DEF SetupLocked
<1>4. CASE Die
  BY <1>4 DEF Die
<1>5. CASE /\ ~Die
          /\ \/ ServiceDies \/ ServiceStarts \/ NewSession \/ OpenSetup \/ DownloadClicked
             \/ Poll \/ UNCHANGED vars
  BY <1>5 DEF ServiceDies, ServiceStarts, NewSession, OpenSetup, DownloadClicked, Poll, vars,
              threadVars
<1> QED
  BY <1>2, <1>3, <1>4, <1>5 DEF Next

LEMMA FlagKept == IInv /\ FlagHasItsThread /\ [Next]_vars => FlagHasItsThread'
<1> SUFFICES ASSUME IInv, FlagHasItsThread, [Next]_vars PROVE FlagHasItsThread'
  OBVIOUS
<1>1. \A t \in Thread : Alive(t)' => job'.running
  BY Consecution DEF IInv, OneDownload
<1>2. ASSUME job'.running PROVE \E t \in Thread : Alive(t)'
  <2>1. pc \in [Thread -> Phase] /\ job \in Job
    BY DEF IInv, TypeOK, Phase, Job
  <2>2. ASSUME NEW t \in Thread, DownloadThread(t) PROVE Alive(t)'
    <3>1. CASE Release(t)
      BY <1>2, <2>1, <3>1, JobUpdates DEF Release
    <3>2. CASE ~Release(t)
      BY <2>1, <2>2, <3>2 DEF DownloadThread, Connect, ReadChunk, EndOfBody, Replace, Succeed, Fail,
                              ReportError, Step, Alive
    <3> QED
      BY <3>1, <3>2
  <2>3. ASSUME NEW t \in Thread, SetupLocked(t) PROVE \E u \in Thread : Alive(u)'
    <3>1. CASE job.running
      BY <2>3, <3>1 DEF SetupLocked, FlagHasItsThread, Alive
    <3>2. CASE ~job.running
      BY <2>1, <2>3, <3>2 DEF SetupLocked, Alive
    <3> QED
      BY <3>1, <3>2
  <2>4. CASE Die
    BY <1>2, <2>4, FreshJobs DEF Die
  <2>5. CASE /\ ~Die
          /\ \/ ServiceDies \/ ServiceStarts \/ NewSession \/ OpenSetup \/ DownloadClicked
             \/ Poll \/ UNCHANGED vars
    <3>1. UNCHANGED <<job, pc>>
      BY <2>5 DEF ServiceDies, ServiceStarts, NewSession, OpenSetup, DownloadClicked, Poll, vars,
                  threadVars
    <3> QED
      BY <1>2, <3>1 DEF FlagHasItsThread, Alive
  <2> QED
    BY <2>2, <2>3, <2>4, <2>5 DEF Next
<1> QED
  BY <1>1, <1>2 DEF FlagHasItsThread

(* The flag is never left behind without a thread that will clear it: the    *)
(* service answers "already downloading" only to what is downloading.        *)
THEOREM NoFlagIsLeft == Spec => []FlagHasItsThread
<1>1. Init => FlagHasItsThread
  BY FreshJobs DEF Init, FlagHasItsThread, Alive
<1>2. Spec => []IInv
  BY Invariant
<1> QED
  BY <1>1, <1>2, FlagKept, PTL DEF Spec

(* A download is over after as many steps as the file has chunks and its     *)
(* thread has statements, whatever fails: each step leaves it fewer.         *)
THEOREM DownloadsGetOn == Spec => DownloadsAdvance
<1>1. IInv /\ [Next]_vars =>
        [\A t \in Thread : Alive(t) =>
           IF DownloadThread(t)
           THEN StepsLeft(pc'[t], part') < StepsLeft(pc[t], part)
           ELSE \/ StepsLeft(pc'[t], part') = StepsLeft(pc[t], part)
                \/ pc'[t] = "none"]_vars
  BY ThreadGetsOn, ThreadLeftAlone
<1> QED
  BY <1>1, Invariant, PTL DEF Spec, DownloadsAdvance

=============================================================================
