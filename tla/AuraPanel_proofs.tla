------------------------- MODULE AuraPanel_proofs -------------------------
(***************************************************************************)
(* Safety of AuraPanel for any number of questions, of day workers and of  *)
(* their tries.                                                            *)
(***************************************************************************)
EXTENDS AuraPanel, SequenceTheorems, TLAPS

(***************************************************************************)
(* The inductive invariant adds to the properties what links the panel to  *)
(* the service: the connections the service holds are those of threads     *)
(* that wait for it, each once (QueueInv); an answer under way that will   *)
(* bring buttons is to a question about power, or to one for which a call  *)
(* of the model's was allowed; and a question whose action has run is      *)
(* either being told so or has been (BubbleInv).                           *)
(***************************************************************************)
QueueInv ==
  /\ \A i \in DOMAIN queue : conn[queue[i]] = "queued"
  /\ \A i, j \in DOMAIN queue : queue[i] = queue[j] => i = j
  /\ serving # Nobody =>
       conn[serving.of] = "queued" /\ \A i \in DOMAIN queue : queue[i] # serving.of

Handling(n) == serving # Nobody /\ serving.of = n /\ conn[n] = "queued"
Telling(n)  == Handling(n) /\ serving.phase \in {"ran", "called"}
Calling(n)  == serving # Nobody /\ serving.of = n /\ serving.phase = "called"

Told == {"noted", "echoed", "unreadable"}

Bubble(n) ==
  /\ text[n] \in Thinking <=> conn[n] # "none"
  /\ ticker[n] <=> conn[n] # "none"
  /\ n \in powered <=> row[n] = "going"
  /\ row[n] # "none" => \/ kind[n] = "power" /\ text[n] = "confirm"
                        \/ kind[n] = "cued" /\ text[n] = "echoed"
  /\ row[n] = "live" => confirm[n]
  /\ conn[n] = "confirm" => kind[n] = "power"
  /\ conn[n] = "echoed" => kind[n] = "cued"
  /\ Calling(n) => kind[n] = "cued"
  /\ n \in ran =>
       /\ text[n] \in Thinking \cup Told
       /\ conn[n] # "none" => conn[n] \in Told \/ Telling(n)

BubbleInv == \A n \in Ask : Bubble(n)

IInv == TypeOK /\ OneQuestion /\ BubbleInv /\ QueueInv

-----------------------------------------------------------------------------
(* Threads and the values their connections have.                          *)

LEMMA AskOrDay == /\ \A n \in Ask : n \in Req /\ n \notin Day
                  /\ \A d \in Day : d \in Req /\ d \notin Ask
  BY AskDayAssumption DEF Req

LEMMA WaitOrReply ==
  /\ "none" \notin Reply /\ "queued" \notin Reply /\ "start" \notin Reply /\ "sleep" \notin Reply
  /\ Thinking \cap Reply = {}
  /\ \A x \in Reply : x \notin {"unused", "none"} \cup Thinking
  BY DEF Reply, Thinking

LEMMA Serving ==
  ASSUME TypeOK, serving # Nobody
  PROVE  serving.of \in Req /\ serving.phase \in Phase
         /\ serving \in [of : Req, phase : Phase]
  BY DEF TypeOK

LEMMA NobodyServed == \A s \in [of : Req, phase : Phase] : s # Nobody
<1> SUFFICES ASSUME NEW s \in [of : Req, phase : Phase], s = Nobody PROVE FALSE
  OBVIOUS
<1>1. s.phase \in Phase /\ s.phase = "none"
  BY DEF Nobody
<1> QED
  BY <1>1 DEF Phase

LEMMA Queued == ASSUME TypeOK PROVE \A i \in DOMAIN queue : queue[i] \in Req
<1>1. queue \in Seq(Req)
  BY DEF TypeOK
<1> QED
  BY <1>1, ElementOfSeq, LenProperties

\* A thread goes from one place to another; whether it is out stays the same.
LEMMA Moving ==
  ASSUME TypeOK, NEW r \in Req, NEW here, NEW next \in Wait \cup Reply, Goto(r, here, next)
  PROVE  /\ conn[r] = here /\ conn' \in [Req -> Wait \cup Reply] /\ conn'[r] = next
         /\ \A q \in Req : q # r => conn'[q] = conn[q]
  BY DEF TypeOK, Goto

\* The questions that are out are the same as before.
LEMMA SameOut ==
  ASSUME OneQuestion, UNCHANGED entry,
         \A n \in Ask : conn'[n] = "none" <=> conn[n] = "none"
  PROVE  OneQuestion'
  BY DEF OneQuestion

\* Nothing that a bubble depends on has changed.
LEMMA SameBubbles ==
  ASSUME BubbleInv, UNCHANGED <<panelVars, ran, serving>>,
         \A n \in Ask : conn'[n] = conn[n]
  PROVE  BubbleInv'
  BY DEF BubbleInv, Bubble, Handling, Telling, Calling, panelVars

-----------------------------------------------------------------------------
LEMMA Starting == Init => IInv
<1> SUFFICES ASSUME Init PROVE IInv  OBVIOUS
<1>1. queue \in Seq(Req) /\ DOMAIN queue = {} /\ Len(queue) <= Backlog
  BY EmptySeq, BacklogAssumption DEF Init
<1>2. TypeOK
  BY <1>1, TriesAssumption DEF Init, TypeOK, Kind, Wait
<1>3. OneQuestion /\ BubbleInv
  BY AskOrDay DEF Init, OneQuestion, BubbleInv, Bubble, Handling, Telling, Calling, Thinking
<1>4. QueueInv
  BY <1>1 DEF Init, QueueInv
<1> QED
  BY <1>2, <1>3, <1>4 DEF IInv

-----------------------------------------------------------------------------
(* The service.                                                            *)

LEMMA Connecting ==
  ASSUME IInv, NEW r \in Req, Connect(r)
  PROVE  IInv'
<1>1. PICK next \in {"queued", "waking"} :
        /\ Goto(r, "start", next)
        /\ queue' = IF next = "queued" THEN Append(queue, r) ELSE queue
        /\ next = "queued" => Len(queue) < Backlog
  BY DEF Connect
<1>2. UNCHANGED <<panelVars, tries, up, serving, ran>>
  BY DEF Connect
<1>3. /\ conn[r] = "start" /\ conn' \in [Req -> Wait \cup Reply] /\ conn'[r] = next
      /\ \A q \in Req : q # r => conn'[q] = conn[q]
  BY <1>1, Moving DEF IInv, Wait, Reply
<1>4. queue \in Seq(Req) /\ Len(queue) \in Nat /\ DOMAIN queue = 1..Len(queue)
  BY LenProperties DEF IInv, TypeOK
<1>5. \A i \in DOMAIN queue : queue[i] \in Req /\ queue[i] # r
  BY <1>3, Queued DEF IInv, QueueInv
<1>6. /\ queue' \in Seq(Req) /\ Len(queue') <= Backlog
      /\ \A i \in DOMAIN queue' :
           \/ i \in DOMAIN queue /\ queue'[i] = queue[i]
           \/ i = Len(queue) + 1 /\ queue'[i] = r /\ next = "queued"
  <2>1. CASE next = "queued"
    <3>1. /\ queue' \in Seq(Req) /\ Len(queue') = Len(queue) + 1
          /\ \A i \in 1..Len(queue) : queue'[i] = queue[i]
          /\ queue'[Len(queue) + 1] = r
      BY <1>1, <1>4, <2>1, AppendProperties
    <3>2. DOMAIN queue' = 1..(Len(queue) + 1)
      BY <3>1, LenProperties
    <3>3. \A i \in DOMAIN queue' : i \in 1..Len(queue) \/ i = Len(queue) + 1
      BY <1>4, <3>2
    <3>4. Len(queue') <= Backlog
      BY <1>1, <1>4, <2>1, <3>1, BacklogAssumption
    <3> QED
      BY <1>4, <2>1, <3>1, <3>3, <3>4
  <2>2. CASE next = "waking"
    BY <1>1, <1>4, <2>2 DEF IInv, TypeOK
  <2> QED
    BY <2>1, <2>2
<1>7. TypeOK'
  BY <1>2, <1>3, <1>6 DEF IInv, TypeOK, panelVars
<1>8. OneQuestion'
  BY <1>2, <1>3, AskOrDay, SameOut DEF IInv, panelVars
<1>9. BubbleInv'
  <2> SUFFICES ASSUME NEW n \in Ask PROVE Bubble(n)'
    BY DEF BubbleInv
  <2>1. Bubble(n)
    BY DEF IInv, BubbleInv
  <2>2. CASE n # r
    BY <1>2, <1>3, <2>1, <2>2, AskOrDay DEF Bubble, Handling, Telling, Calling, panelVars
  <2>3. CASE n = r
    <3>1. conn'[n] \notin {"none", "confirm", "echoed"} /\ n \notin ran
      BY <1>3, <2>1, <2>3 DEF Bubble, Handling, Telling, Told
    <3> QED
      BY <1>2, <1>3, <2>1, <2>3, <3>1 DEF Bubble, Calling, panelVars
  <2> QED
    BY <2>2, <2>3
<1>10. QueueInv'
  <2>1. \A i \in DOMAIN queue' : conn'[queue'[i]] = "queued"
    BY <1>3, <1>5, <1>6 DEF IInv, QueueInv
  <2>2. \A i, j \in DOMAIN queue' : queue'[i] = queue'[j] => i = j
    BY <1>5, <1>6 DEF IInv, QueueInv
  <2>3. ASSUME serving' # Nobody
        PROVE  conn'[serving'.of] = "queued" /\ \A i \in DOMAIN queue' : queue'[i] # serving'.of
    <3>1. serving' = serving /\ serving.of \in Req /\ conn[serving.of] = "queued" /\ serving.of # r
      BY <1>2, <1>3, <2>3, Serving DEF IInv, QueueInv
    <3> QED
      BY <1>3, <1>6, <2>3, <3>1 DEF IInv, QueueInv
  <2> QED
    BY <2>1, <2>2, <2>3 DEF QueueInv
<1> QED
  BY <1>7, <1>8, <1>9, <1>10 DEF IInv

LEMMA Accepting ==
  ASSUME IInv, Accept
  PROVE  IInv'
<1>1. /\ queue \in Seq(Req) /\ queue # <<>>
      /\ Len(queue) \in Nat /\ DOMAIN queue = 1..Len(queue)
  BY LenProperties DEF IInv, TypeOK, Accept
<1>2. /\ Head(queue) \in Req /\ Tail(queue) \in Seq(Req)
      /\ Len(Tail(queue)) = Len(queue) - 1 /\ Len(queue) >= 1
      /\ Head(queue) = queue[1] /\ \A i \in 1..Len(Tail(queue)) : Tail(queue)[i] = queue[i + 1]
  BY <1>1, HeadTailProperties, EmptySeq
<1>3. DOMAIN Tail(queue) = 1..(Len(queue) - 1)
  BY <1>2, LenProperties
<1>4. \A i \in DOMAIN queue' : i + 1 \in DOMAIN queue /\ queue'[i] = queue[i + 1] /\ i + 1 # 1
  BY <1>1, <1>2, <1>3 DEF Accept
<1>5. UNCHANGED <<panelVars, conn, tries, up, ran>> /\ serving = Nobody
  BY DEF Accept
<1>6. serving' = [of |-> Head(queue), phase |-> "read"] /\ queue' = Tail(queue)
  BY DEF Accept
<1>7. serving'.of = queue[1] /\ serving'.phase = "read" /\ 1 \in DOMAIN queue
  BY <1>1, <1>2, <1>6
<1>8. TypeOK'
  <2>1. Len(queue') \in Nat /\ Len(queue') <= Backlog
    BY <1>1, <1>2, <1>6, BacklogAssumption DEF IInv, TypeOK
  <2>2. serving' \in [of : Req, phase : Phase]
    BY <1>2, <1>6 DEF Phase
  <2> QED
    BY <1>2, <1>5, <1>6, <2>1, <2>2 DEF IInv, TypeOK, panelVars
<1>9. OneQuestion'
  BY <1>5, SameOut DEF IInv, panelVars
<1>10. BubbleInv'
  BY <1>5, <1>7 DEF IInv, BubbleInv, Bubble, Handling, Telling, Calling, panelVars
<1>11. QueueInv'
  <2>1. \A i, j \in DOMAIN queue' : queue'[i] = queue'[j] => i = j
    <3> SUFFICES ASSUME NEW i \in DOMAIN queue', NEW j \in DOMAIN queue', queue'[i] = queue'[j]
                 PROVE  i = j
      OBVIOUS
    <3>1. i + 1 = j + 1
      BY <1>4 DEF IInv, QueueInv
    <3>2. i \in Nat /\ j \in Nat
      BY <1>1, <1>3, <1>6
    <3> QED
      BY <3>1, <3>2
  <2>2. \A i \in DOMAIN queue' : conn'[queue'[i]] = "queued" /\ queue'[i] # serving'.of
    BY <1>4, <1>5, <1>7 DEF IInv, QueueInv
  <2>3. conn'[serving'.of] = "queued"
    BY <1>5, <1>7 DEF IInv, QueueInv
  <2> QED
    BY <2>1, <2>2, <2>3 DEF QueueInv
<1> QED
  BY <1>8, <1>9, <1>10, <1>11 DEF IInv

(* An answer is sent.  "confirm" answers only a question about power,      *)
(* "echoed" what follows a call, and an action that ran is told.           *)
LEMMA Sending ==
  ASSUME IInv, serving # Nobody, NEW reply \in Reply, Send(reply),
         reply = "confirm" => KindOf(serving.of) = "power",
         reply = "echoed" => serving.phase = "called",
         serving.phase \in {"ran", "called"} => reply \in Told
  PROVE  IInv'
<1> DEFINE r == serving.of
<1>1. r \in Req
  BY Serving DEF IInv
<1>2. /\ conn[r] = "queued" /\ conn' \in [Req -> Wait \cup Reply] /\ conn'[r] = reply
      /\ \A q \in Req : q # r => conn'[q] = conn[q]
  BY <1>1, Moving DEF IInv, Send
<1>3. UNCHANGED <<panelVars, tries, up, queue, ran>> /\ serving' = Nobody
  BY DEF Send
<1> HIDE DEF r
<1>4. TypeOK'
  BY <1>2, <1>3 DEF IInv, TypeOK, panelVars
<1>5. OneQuestion'
  BY <1>2, <1>3, AskOrDay, WaitOrReply, SameOut DEF IInv, panelVars
<1>6. BubbleInv'
  <2> SUFFICES ASSUME NEW n \in Ask PROVE Bubble(n)'
    BY DEF BubbleInv
  <2>1. Bubble(n) /\ n \in Req
    BY AskOrDay DEF IInv, BubbleInv
  <2>2. CASE n # r
    <3>1. conn'[n] = conn[n] /\ ~Telling(n) /\ ~Calling(n)'
      BY <1>2, <1>3, <2>1, <2>2 DEF Handling, Telling, Calling, r
    <3> QED
      BY <1>3, <2>1, <3>1 DEF Bubble, panelVars
  <2>3. CASE n = r
    <3>1. reply = "confirm" => kind[n] = "power"
      BY <2>3 DEF KindOf, r
    <3>2. n \in ran => reply \in Told
      BY <1>2, <2>1, <2>3 DEF Bubble, Handling, Telling, Told, r
    <3>3. reply = "echoed" => kind[n] = "cued"
      BY <2>1, <2>3 DEF Bubble, Calling, r
    <3>4. ~Calling(n)'
      BY <1>3 DEF Calling
    <3> QED
      BY <1>2, <1>3, <2>1, <2>3, <3>1, <3>2, <3>3, <3>4, WaitOrReply DEF Bubble, panelVars
  <2> QED
    BY <2>2, <2>3
<1>7. QueueInv'
  <2>1. \A i \in DOMAIN queue : queue[i] \in Req /\ queue[i] # r
    BY Queued DEF IInv, QueueInv, r
  <2> QED
    BY <1>2, <1>3, <2>1 DEF IInv, QueueInv
<1> QED
  BY <1>4, <1>5, <1>6, <1>7 DEF IInv

\* The handler goes on to another phase, an executor having run or not.
LEMMA GoingOn ==
  ASSUME IInv, serving # Nobody, NEW phase \in Phase, Execute(phase) \/ GoOn(phase),
         serving.phase \notin {"ran", "called"},
         phase = "called" => KindOf(serving.of) = "cued",
         phase \in {"ran", "called"} \/ GoOn(phase)
  PROVE  IInv'
<1>1. /\ serving' \in [of : Req, phase : Phase]
      /\ serving'.of = serving.of /\ serving'.phase = phase
  BY Serving DEF IInv, Execute, GoOn
<1>2. /\ UNCHANGED <<panelVars, conn, tries, up, queue>>
      /\ \/ ran' = ran
         \/ ran' = ran \cup ({serving.of} \cap Ask) /\ phase \in {"ran", "called"}
  BY DEF Execute, GoOn
<1>3. serving' # Nobody
  BY <1>1, NobodyServed
<1>4. TypeOK'
  BY <1>1, <1>2 DEF IInv, TypeOK, panelVars
<1>5. OneQuestion'
  BY <1>2, SameOut DEF IInv, panelVars
<1>6. BubbleInv'
  <2> SUFFICES ASSUME NEW n \in Ask PROVE Bubble(n)'
    BY DEF BubbleInv
  <2>1. Bubble(n)
    BY DEF IInv, BubbleInv
  <2>2. CASE n # serving.of
    <3>1. (n \in ran' <=> n \in ran) /\ ~Telling(n) /\ ~Calling(n)'
      BY <1>1, <1>2, <2>2 DEF Handling, Telling, Calling
    <3> QED
      BY <1>2, <2>1, <3>1 DEF Bubble, panelVars
  <2>3. CASE n = serving.of
    <3>1. conn[n] = "queued" /\ text[n] \in Thinking
      BY <2>1, <2>3 DEF Bubble, IInv, QueueInv
    <3>2. n \in ran' => Telling(n)'
      BY <1>1, <1>2, <1>3, <2>1, <2>3, <3>1 DEF Bubble, Handling, Telling, Told
    <3>3. Calling(n)' => kind[n] = "cued"
      BY <1>1, <2>3 DEF Calling, KindOf
    <3> QED
      BY <1>2, <2>1, <3>1, <3>2, <3>3 DEF Bubble, panelVars
  <2> QED
    BY <2>2, <2>3
<1>7. QueueInv'
  BY <1>1, <1>2 DEF IInv, QueueInv
<1> QED
  BY <1>4, <1>5, <1>6, <1>7 DEF IInv

LEMMA Answering ==
  ASSUME IInv, Read \/ Model \/ Tell
  PROVE  IInv'
<1>1. serving # Nobody
  <2>1. serving.phase \in Phase
    BY DEF Read, Model, Tell, Phase
  <2> QED
    BY <2>1 DEF Nobody, Phase
<1>2. CASE Read
  <2>1. serving.phase = "read"
    BY <1>2 DEF Read
  <2>2. \/ \E reply \in {"refused", "unreadable"} : Send(reply)
        \/ Send("confirm") /\ KindOf(serving.of) = "power"
        \/ Execute("ran") \/ GoOn("model")
    BY <1>2 DEF Read
  <2>3. CASE \E reply \in {"refused", "unreadable"} : Send(reply)
    BY <1>1, <2>1, <2>3, Sending DEF Reply
  <2>4. CASE Send("confirm") /\ KindOf(serving.of) = "power"
    BY <1>1, <2>1, <2>4, Sending DEF Reply
  <2>5. CASE Execute("ran")
    BY <1>1, <2>1, <2>5, GoingOn DEF Phase
  <2>6. CASE GoOn("model")
    BY <1>1, <2>1, <2>6, GoingOn DEF Phase
  <2> QED
    BY <2>2, <2>3, <2>4, <2>5, <2>6
<1>3. CASE Model
  <2>1. serving.phase = "model"
    BY <1>3 DEF Model
  <2>2. CASE \E reply \in {"warming", "answer", "unreadable"} : Send(reply)
    BY <1>1, <2>1, <2>2, Sending DEF Reply
  <2>3. CASE KindOf(serving.of) = "cued" /\ (Execute("called") \/ GoOn("called"))
    BY <1>1, <2>1, <2>3, GoingOn DEF Phase
  <2> QED
    BY <1>3, <2>2, <2>3 DEF Model
<1>4. CASE Tell
  BY <1>1, <1>4, Sending DEF Tell, Reply, Told
<1> QED
  BY <1>2, <1>3, <1>4

LEMMA Dying ==
  ASSUME IInv, Die
  PROVE  IInv'
<1>1. /\ UNCHANGED <<panelVars, tries, ran>>
      /\ up' = "dead" /\ queue' = <<>> /\ serving' = Nobody
      /\ conn' = [r \in Req |-> IF conn[r] = "queued" THEN "unreadable" ELSE conn[r]]
  BY DEF Die
<1>2. queue' \in Seq(Req) /\ DOMAIN queue' = {} /\ Len(queue') <= Backlog
  BY <1>1, EmptySeq, BacklogAssumption
<1>3. conn' \in [Req -> Wait \cup Reply]
  BY <1>1 DEF IInv, TypeOK, Reply
<1>4. TypeOK'
  BY <1>1, <1>2, <1>3 DEF IInv, TypeOK, panelVars
<1>5. \A n \in Ask : conn'[n] = IF conn[n] = "queued" THEN "unreadable" ELSE conn[n]
  BY <1>1, AskOrDay
<1>6. OneQuestion'
  BY <1>1, <1>5, SameOut DEF IInv, panelVars
<1>7. BubbleInv'
  <2> SUFFICES ASSUME NEW n \in Ask PROVE Bubble(n)'
    BY DEF BubbleInv
  <2>1. Bubble(n)
    BY DEF IInv, BubbleInv
  <2> QED
    BY <1>1, <1>5, <2>1 DEF Bubble, Handling, Telling, Calling, Told, panelVars
<1>8. QueueInv'
  BY <1>1, <1>2 DEF QueueInv
<1> QED
  BY <1>4, <1>6, <1>7, <1>8 DEF IInv

-----------------------------------------------------------------------------
(* The panel.                                                              *)

\* A thread the service does not hold goes elsewhere.
LEMMA QueueKept ==
  ASSUME TypeOK, QueueInv, UNCHANGED <<queue, serving>>, NEW r \in Req, conn[r] # "queued",
         \A q \in Req : q # r => conn'[q] = conn[q]
  PROVE  QueueInv'
<1>1. \A i \in DOMAIN queue : queue[i] \in Req /\ queue[i] # r
  BY Queued DEF QueueInv
<1>2. serving # Nobody => serving.of \in Req /\ serving.of # r
  BY Serving DEF QueueInv
<1> QED
  BY <1>1, <1>2 DEF QueueInv

LEMMA Submitting ==
  ASSUME IInv, NEW n \in Ask, NEW k \in Kind, AuraSubmit(n, k)
  PROVE  IInv'
<1>1. /\ conn[n] = "none" /\ conn' \in [Req -> Wait \cup Reply] /\ conn'[n] = "start"
      /\ \A q \in Req : q # n => conn'[q] = conn[q]
  BY Moving, AskOrDay DEF IInv, AuraSubmit, Wait
<1>2. UNCHANGED <<row, confirm, powered, tries, serviceVars>> /\ entry /\ ~entry'
  BY DEF AuraSubmit
<1>3. /\ kind' \in [Ask -> Kind] /\ kind'[n] = k
      /\ text'[n] = "thinking" /\ ticker'[n] = TRUE
      /\ \A m \in Ask : m # n => kind'[m] = kind[m] /\ text'[m] = text[m] /\ ticker'[m] = ticker[m]
  BY DEF AuraSubmit, IInv, TypeOK
<1>4. TypeOK'
  BY <1>1, <1>2, <1>3 DEF IInv, TypeOK, AuraSubmit, serviceVars, Thinking
<1>5. OneQuestion'
  BY <1>1, <1>2, AskOrDay DEF IInv, OneQuestion
<1>6. BubbleInv'
  <2> SUFFICES ASSUME NEW m \in Ask PROVE Bubble(m)'
    BY DEF BubbleInv
  <2>1. Bubble(m) /\ m \in Req
    BY AskOrDay DEF IInv, BubbleInv
  <2>2. CASE m # n
    BY <1>1, <1>2, <1>3, <2>1, <2>2 DEF Bubble, Handling, Telling, Calling, serviceVars
  <2>3. CASE m = n
    <3>1. text[n] = "unused" /\ text[n] \notin Thinking
      BY DEF AuraSubmit, Thinking
    <3>2. n \notin powered /\ row[n] = "none" /\ n \notin ran
      BY <2>1, <2>3, <3>1 DEF Bubble, Told
    <3>3. ~Calling(n)'
      BY <1>1, <1>2 DEF IInv, QueueInv, Calling, serviceVars
    <3> QED
      BY <1>1, <1>2, <1>3, <2>3, <3>2, <3>3 DEF Bubble, serviceVars, Thinking
  <2> QED
    BY <2>2, <2>3
<1>7. QueueInv'
  BY <1>1, <1>2, QueueKept, AskOrDay DEF IInv, serviceVars
<1> QED
  BY <1>4, <1>5, <1>6, <1>7 DEF IInv

LEMMA Applying ==
  ASSUME IInv, NEW n \in Ask, AuraApplyResult(n)
  PROVE  IInv'
<1>1. /\ conn[n] \in Reply /\ conn' \in [Req -> Wait \cup Reply] /\ conn'[n] = "none"
      /\ \A q \in Req : q # n => conn'[q] = conn[q]
  BY Moving, AskOrDay DEF IInv, AuraApplyResult, Wait
<1>2. conn[n] # "none" /\ conn[n] # "queued"
  BY <1>1, WaitOrReply
<1>3. UNCHANGED <<kind, powered, tries, serviceVars>> /\ entry' = TRUE
  BY DEF AuraApplyResult
<1>4. /\ text'[n] = conn[n] /\ ticker'[n] = FALSE
      /\ row'[n] = (IF Asks(conn[n]) THEN "live" ELSE row[n])
      /\ confirm'[n] = Asks(conn[n])
      /\ \A m \in Ask : m # n => /\ text'[m] = text[m] /\ ticker'[m] = ticker[m]
                                 /\ row'[m] = row[m] /\ confirm'[m] = confirm[m]
  BY DEF AuraApplyResult, IInv, TypeOK
<1>5. TypeOK'
  <2>1. /\ text' \in [Ask -> {"unused"} \cup Thinking \cup Reply]
        /\ ticker' \in [Ask -> BOOLEAN] /\ row' \in [Ask -> {"none", "live"} \cup Settled]
        /\ confirm' \in [Ask -> BOOLEAN]
    BY <1>1 DEF AuraApplyResult, IInv, TypeOK, Asks
  <2> QED
    BY <1>1, <1>3, <2>1 DEF IInv, TypeOK, serviceVars
<1>6. OneQuestion'
  BY <1>1, <1>2, <1>3, AskOrDay DEF IInv, OneQuestion
<1>7. BubbleInv'
  <2> SUFFICES ASSUME NEW m \in Ask PROVE Bubble(m)'
    BY DEF BubbleInv
  <2>1. Bubble(m) /\ m \in Req
    BY AskOrDay DEF IInv, BubbleInv
  <2>2. CASE m # n
    BY <1>1, <1>3, <1>4, <2>1, <2>2 DEF Bubble, Handling, Telling, Calling, serviceVars
  <2>3. CASE m = n
    <3>1. text[n] \in Thinking /\ n \notin powered /\ row[n] = "none"
      BY <1>2, <2>1, <2>3 DEF Bubble, Thinking
    <3>2. n \in ran => conn[n] \in Told
      BY <1>2, <2>1, <2>3 DEF Bubble, Handling, Telling
    <3>3. text'[n] \notin Thinking
      BY <1>1, <1>4, WaitOrReply
    <3>4. Asks(conn[n]) => \/ kind[n] = "power" /\ conn[n] = "confirm"
                           \/ kind[n] = "cued" /\ conn[n] = "echoed"
      BY <2>1, <2>3 DEF Bubble, Asks
    <3>5. Calling(n)' => kind[n] = "cued"
      BY <1>3, <2>1, <2>3 DEF Bubble, Calling, serviceVars
    <3>6. row'[n] # "none" => row'[n] = "live" /\ Asks(conn[n]) /\ confirm'[n]
      BY <1>4, <3>1
    <3> QED
      BY <1>1, <1>3, <1>4, <2>3, <3>1, <3>2, <3>3, <3>4, <3>5, <3>6 DEF Bubble, serviceVars
  <2> QED
    BY <2>2, <2>3
<1>8. QueueInv'
  BY <1>1, <1>2, <1>3, QueueKept, AskOrDay DEF IInv, serviceVars
<1> QED
  BY <1>5, <1>6, <1>7, <1>8 DEF IInv

LEMMA Ticking ==
  ASSUME IInv, NEW n \in Ask, Tick(n)
  PROVE  IInv'
<1>1. /\ ticker[n] /\ text' = [text EXCEPT ![n] = "thinking 5s"]
      /\ UNCHANGED <<entry, kind, ticker, row, confirm, powered, conn, tries, serviceVars>>
  BY DEF Tick
<1>2. TypeOK'
  BY <1>1 DEF IInv, TypeOK, serviceVars, Thinking
<1>3. OneQuestion'
  BY <1>1 DEF IInv, OneQuestion
<1>4. BubbleInv'
  <2> SUFFICES ASSUME NEW m \in Ask PROVE Bubble(m)'
    BY DEF BubbleInv
  <2>1. Bubble(m)
    BY DEF IInv, BubbleInv
  <2>2. CASE m # n
    <3>1. text'[m] = text[m]
      BY <1>1, <2>2 DEF IInv, TypeOK
    <3> QED
      BY <1>1, <2>1, <3>1 DEF Bubble, Handling, Telling, Calling, serviceVars
  <2>3. CASE m = n
    <3>1. text'[n] = "thinking 5s" /\ conn[n] # "none" /\ text[n] \in Thinking
      BY <1>1, <2>1, <2>3 DEF IInv, TypeOK, Bubble
    <3> QED
      BY <1>1, <2>1, <2>3, <3>1 DEF Bubble, Handling, Telling, Calling, serviceVars, Thinking
  <2> QED
    BY <2>2, <2>3
<1>5. QueueInv'
  BY <1>1 DEF IInv, QueueInv, serviceVars
<1> QED
  BY <1>2, <1>3, <1>4, <1>5 DEF IInv

(* A button of a row, or its timer: the row, if it is live, says how it    *)
(* was settled.                                                            *)
LEMMA Settling ==
  ASSUME IInv, NEW n \in Ask, NEW note \in Settled, Settle(n, note),
         UNCHANGED <<entry, kind, text, ticker, conn, tries, serviceVars>>,
         powered' = (IF note = "going" THEN powered \cup {n} ELSE powered),
         note = "going" => row[n] = "live",
         confirm' \in [Ask -> BOOLEAN],
         \A m \in Ask : m # n => confirm'[m] = confirm[m]
  PROVE  IInv'
<1>1. /\ row' \in [Ask -> {"none", "live"} \cup Settled]
      /\ \A m \in Ask : m # n => row'[m] = row[m]
      /\ row[n] = "live" => row'[n] = note
      /\ row[n] # "live" => row'[n] = row[n]
  <2>1. CASE row[n] = "live"
    <3>1. row' = [row EXCEPT ![n] = note]
      BY <2>1 DEF Settle
    <3> QED
      BY <2>1, <3>1 DEF IInv, TypeOK
  <2>2. CASE row[n] # "live"
    BY <2>2 DEF Settle, IInv, TypeOK
  <2> QED
    BY <2>1, <2>2
<1>2. TypeOK'
  BY <1>1 DEF IInv, TypeOK, serviceVars
<1>3. OneQuestion'
  BY DEF IInv, OneQuestion
<1>4. BubbleInv'
  <2> SUFFICES ASSUME NEW m \in Ask PROVE Bubble(m)'
    BY DEF BubbleInv
  <2>1. Bubble(m)
    BY DEF IInv, BubbleInv
  <2>2. CASE m # n
    BY <1>1, <2>1, <2>2 DEF Bubble, Handling, Telling, Calling, serviceVars
  <2>3. CASE m = n /\ row[n] = "live"
    <3>1. n \notin powered /\ row'[n] = note /\ note # "live" /\ note # "none"
      BY <1>1, <2>1, <2>3 DEF Bubble, Settled
    <3>2. n \in powered' <=> row'[n] = "going"
      BY <3>1
    <3> QED
      BY <2>1, <2>3, <3>1, <3>2 DEF Bubble, Handling, Telling, Calling, serviceVars
  <2>4. CASE m = n /\ row[n] # "live"
    BY <1>1, <2>1, <2>4 DEF Bubble, Handling, Telling, Calling, serviceVars
  <2> QED
    BY <2>2, <2>3, <2>4
<1>5. QueueInv'
  BY DEF IInv, QueueInv, serviceVars
<1> QED
  BY <1>2, <1>3, <1>4, <1>5 DEF IInv

LEMMA Buttons ==
  ASSUME IInv, NEW n \in Ask,
         OnAuraConfirmOk(n) \/ OnAuraConfirmCancel(n) \/ AuraConfirmExpire(n)
  PROVE  IInv'
<1>1. confirm \in [Ask -> BOOLEAN]
  BY DEF IInv, TypeOK
<1>2. CASE OnAuraConfirmOk(n)
  BY <1>1, <1>2, Settling DEF OnAuraConfirmOk, Settled
<1>3. CASE OnAuraConfirmCancel(n)
  BY <1>1, <1>3, Settling DEF OnAuraConfirmCancel, Settled
<1>4. CASE AuraConfirmExpire(n)
  BY <1>1, <1>4, Settling DEF AuraConfirmExpire, Settled
<1> QED
  BY <1>2, <1>3, <1>4

-----------------------------------------------------------------------------
(* The day card, and what touches neither.                                 *)

LEMMA Days ==
  ASSUME IInv, NEW d \in Day, OpenWidgets(d) \/ DayWorker(d)
  PROVE  IInv'
<1>1. UNCHANGED <<panelVars, serviceVars>>
  BY DEF OpenWidgets, DayWorker, DaySleep, DayWake, DayApply
<1>2. TypeOK /\ d \in Req /\ 0 \in 0..Tries /\ 1 \in 0..Tries
  BY TriesAssumption, AskOrDay DEF IInv
<1>3. /\ conn[d] # "queued" /\ conn' \in [Req -> Wait \cup Reply]
      /\ \A q \in Req : q # d => conn'[q] = conn[q]
  <2>1. PICK here \in {"none", "sleep"} \cup Reply, next \in {"none", "start", "sleep"} :
          Goto(d, here, next)
    BY DEF OpenWidgets, DayWorker, DaySleep, DayWake, DayApply, Again, MayAgain, Reply
  <2>2. here # "queued" /\ next \in Wait \cup Reply
    BY WaitOrReply DEF Wait
  <2> QED
    BY <1>2, <2>1, <2>2, Moving
<1>4. tries' \in [Day -> 0..Tries]
  <2>1. tries \in [Day -> 0..Tries]
    BY <1>2 DEF TypeOK
  <2>2. CASE OpenWidgets(d)
    BY <1>2, <2>1, <2>2 DEF OpenWidgets
  <2>3. CASE DaySleep(d)
    BY <2>1, <2>3 DEF DaySleep
  <2>4. CASE DayWake(d)
    <3>1. tries[d] \in 0..Tries /\ tries[d] < Tries
      BY <2>1, <2>4 DEF DayWake
    <3>2. tries[d] + 1 \in 0..Tries
      BY <3>1, TriesAssumption
    <3> QED
      BY <2>1, <2>4, <3>2 DEF DayWake
  <2>5. CASE DayApply(d)
    BY <1>2, <2>1, <2>5 DEF DayApply
  <2> QED
    BY <2>2, <2>3, <2>4, <2>5 DEF DayWorker
<1>5. TypeOK'
  BY <1>1, <1>3, <1>4 DEF IInv, TypeOK, panelVars, serviceVars
<1>6. \A n \in Ask : conn'[n] = conn[n]
  BY <1>3, AskOrDay
<1>7. OneQuestion'
  BY <1>1, <1>6, SameOut DEF IInv, panelVars
<1>8. BubbleInv'
  BY <1>1, <1>6, SameBubbles DEF IInv, serviceVars
<1>9. QueueInv'
  BY <1>1, <1>3, QueueKept, AskOrDay DEF IInv, serviceVars
<1> QED
  BY <1>5, <1>7, <1>8, <1>9 DEF IInv

LEMMA Listening ==
  ASSUME IInv, Listen
  PROVE  IInv'
<1>1. UNCHANGED <<panelVars, conn, tries, queue, serving, ran>> /\ up' = "up"
  BY DEF Listen
<1>2. TypeOK' /\ OneQuestion' /\ QueueInv'
  BY <1>1 DEF IInv, TypeOK, OneQuestion, QueueInv, panelVars
<1>3. BubbleInv'
  BY <1>1, SameBubbles DEF IInv
<1> QED
  BY <1>2, <1>3 DEF IInv

LEMMA Stuttering ==
  ASSUME IInv, UNCHANGED vars
  PROVE  IInv'
<1> USE DEF vars, panelVars, serviceVars
<1>1. TypeOK' /\ OneQuestion' /\ QueueInv'
  BY DEF IInv, TypeOK, OneQuestion, QueueInv
<1>2. BubbleInv'
  BY SameBubbles DEF IInv
<1> QED
  BY <1>1, <1>2 DEF IInv

LEMMA StartingAgain == NewSession => IInv'
<1> SUFFICES ASSUME NewSession PROVE IInv'  OBVIOUS
<1>1. queue' \in Seq(Req) /\ DOMAIN queue' = {} /\ Len(queue') <= Backlog
  BY EmptySeq, BacklogAssumption DEF NewSession
<1>2. TypeOK'
  BY <1>1, TriesAssumption DEF NewSession, TypeOK, Kind, Wait
<1>3. OneQuestion' /\ BubbleInv'
  BY AskOrDay DEF NewSession, OneQuestion, BubbleInv, Bubble, Handling, Telling, Calling, Thinking
<1>4. QueueInv'
  BY <1>1 DEF NewSession, QueueInv
<1> QED
  BY <1>2, <1>3, <1>4 DEF IInv

LEMMA Consecution == IInv /\ [Next]_vars => IInv'
<1> SUFFICES ASSUME IInv, [Next]_vars PROVE IInv'
  OBVIOUS
<1>1. CASE Service
  BY <1>1, Listening, Accepting, Answering DEF Service, Handle
<1>2. CASE Die
  BY <1>2, Dying
<1>3. CASE NewSession
  BY <1>3, StartingAgain
<1>4. CASE \E r \in Req : Connect(r)
  BY <1>4, Connecting
<1>5. CASE \E n \in Ask : \E k \in Kind : AuraSubmit(n, k)
  BY <1>5, Submitting
<1>6. CASE \E n \in Ask : Tick(n) \/ AuraApplyResult(n)
  BY <1>6, Ticking, Applying
<1>7. CASE \E n \in Ask : OnAuraConfirmOk(n) \/ OnAuraConfirmCancel(n) \/ AuraConfirmExpire(n)
  BY <1>7, Buttons
<1>8. CASE \E d \in Day : OpenWidgets(d) \/ DayWorker(d)
  BY <1>8, Days
<1>9. CASE UNCHANGED vars
  BY <1>9, Stuttering
<1> QED
  BY <1>1, <1>2, <1>3, <1>4, <1>5, <1>6, <1>7, <1>8, <1>9 DEF Next

-----------------------------------------------------------------------------
(* The theorems.                                                           *)

\* IInv holds throughout.
THEOREM Invariant == Spec => []IInv
  BY Starting, Consecution, PTL DEF Spec

\* Every variable of the panel and of the service has its type.
THEOREM TypeCorrect == Spec => []TypeOK
  BY Invariant, PTL DEF IInv

\* No two questions wait at a time, however many are asked (aura_submit).
THEOREM OneAtATime == Spec => []OneQuestion
  BY Invariant, PTL DEF IInv

\* "Thinking" is said of exactly the questions that wait (aura_wait_stop).
THEOREM ThinkingIsTrue == Spec => []ThinkingMeansPending
<1>1. IInv => ThinkingMeansPending
  BY DEF IInv, BubbleInv, Bubble, ThinkingMeansPending
<1> QED
  BY <1>1, Invariant, PTL

\* Nothing is powered off but by the button of its own row, and a row comes only
\* with a question about power or with a call of the model's that was allowed:
\* its arguments, sent back, may read like a confirmation (aura_worker).
THEOREM PowerIsAsked == Spec => []PowerNeedsItsButton
<1>1. IInv => PowerNeedsItsButton
  BY DEF IInv, BubbleInv, Bubble, PowerNeedsItsButton
<1> QED
  BY <1>1, Invariant, PTL

\* No button of a live row uses a freed AuraConfirm (aura_confirm_expire).
THEOREM LiveButtons == Spec => []ButtonsHaveTheirStruct
<1>1. IInv => ButtonsHaveTheirStruct
  BY DEF IInv, BubbleInv, Bubble, ButtonsHaveTheirStruct
<1> QED
  BY <1>1, Invariant, PTL

\* What an executor did is not hidden by a later answer (the notes of /ask).
THEOREM ActionsAreTold == Spec => []RanIsSaid
<1>1. IInv => RanIsSaid
  BY DEF IInv, TypeOK, BubbleInv, Bubble, Told, RanIsSaid
<1> QED
  BY <1>1, Invariant, PTL

-----------------------------------------------------------------------------
(***************************************************************************)
(* Waiting.  QueueInv says that what the service holds is waited for;      *)
(* HeldInv adds the converse.  It is inductive because a thread begins to  *)
(* wait only by joining the backlog (Joining), and no step takes a thread  *)
(* that still waits out of the service (Keeping).                          *)
(***************************************************************************)
HeldInv == \A r \in Req : conn[r] = "queued" => Places(r) # {}

\* The handling of one request brings the others closer to theirs.
Closer(i, j) == StepsTo(j, serving'.phase) < StepsTo(i, serving.phase)
AsFar(i, j)  == StepsTo(j, serving'.phase) = StepsTo(i, serving.phase)

LEMMA Phases ==
  /\ StepsOf("none") = 0 /\ StepsOf("ran") = 1 /\ StepsOf("called") = 1
  /\ StepsOf("model") = 2 /\ StepsOf("read") = 3
  BY DEF StepsOf

LEMMA PlaceIs ==
  ASSUME TypeOK, NEW r, NEW i
  PROVE  i \in Places(r) <=> \/ i = 0 /\ serving # Nobody /\ serving.of = r
                             \/ i \in DOMAIN queue /\ queue[i] = r
<1>1. queue \in Seq(Req) /\ Len(queue) \in Nat /\ DOMAIN queue = 1..Len(queue)
  BY LenProperties DEF TypeOK
<1> QED
  BY <1>1 DEF Places

LEMMA PlaceWillBe ==
  ASSUME TypeOK', NEW r, NEW i
  PROVE  i \in Places(r)' <=> \/ i = 0 /\ serving' # Nobody /\ serving'.of = r
                              \/ i \in DOMAIN queue' /\ queue'[i] = r
<1>1. queue' \in Seq(Req) /\ Len(queue') \in Nat /\ DOMAIN queue' = 1..Len(queue')
  BY LenProperties DEF TypeOK
<1> QED
  BY <1>1 DEF Places

\* A connection has one place, and its thread waits.
LEMMA OnePlace ==
  ASSUME IInv, NEW r \in Req, NEW i \in Places(r)
  PROVE  conn[r] = "queued" /\ i \in Nat /\ \A j \in Places(r) : j = i
<1>1. TypeOK
  BY DEF IInv
<1>2. \A j \in Places(r) : \/ j = 0 /\ serving # Nobody /\ serving.of = r
                           \/ j \in DOMAIN queue /\ queue[j] = r
  BY <1>1, PlaceIs
<1>3. conn[r] = "queued" /\ \A j \in Places(r) : j = i
  BY <1>2 DEF IInv, QueueInv
<1> QED
  BY <1>3 DEF Places

\* A step of a handler changes who is served or in which phase.
LEMMA HandleMoves ==
  ASSUME TypeOK, Handle
  PROVE  serving' # serving
<1>1. CASE Accept
  <2>1. serving' = [of |-> Head(queue), phase |-> "read"] /\ serving = Nobody
    BY <1>1 DEF Accept
  <2>2. serving'.phase = "read" /\ serving.phase = "none"
    BY <2>1 DEF Nobody
  <2> QED
    BY <2>2
<1>2. CASE Read \/ Model \/ Tell
  <2>1. serving.phase \in Phase
    BY <1>2 DEF Read, Model, Tell, Phase
  <2>2. serving # Nobody
    BY <2>1 DEF Nobody, Phase
  <2>3. CASE serving' = Nobody
    BY <2>2, <2>3
  <2>4. CASE serving' # Nobody
    <3>1. \/ serving.phase = "read" /\ serving' = [serving EXCEPT !.phase = "model"]
          \/ serving.phase = "read" /\ serving' = [serving EXCEPT !.phase = "ran"]
          \/ serving.phase = "model" /\ serving' = [serving EXCEPT !.phase = "called"]
      BY <1>2, <2>4 DEF Read, Model, Tell, Send, Execute, GoOn
    <3>2. serving \in [of : Req, phase : Phase]
      BY <2>2, Serving
    <3> QED
      BY <3>1, <3>2
  <2> QED
    BY <2>3, <2>4
<1> QED
  BY <1>1, <1>2 DEF Handle

\* A new connection goes to the end of the backlog.
LEMMA Joining ==
  ASSUME IInv, NEW q \in Req, Connect(q)
  PROVE  /\ \A r \in Req : \A i \in Places(r) : i \in Places(r)' /\ AsFar(i, i)
         /\ conn'[q] = "queued" => Places(q)' # {}
         /\ \A r \in Req : r # q => conn'[r] = conn[r]
<1>1. TypeOK /\ TypeOK'
  BY Connecting DEF IInv
<1>2. serving' = serving /\ queue \in Seq(Req) /\ Len(queue) \in Nat
      /\ DOMAIN queue = 1..Len(queue)
  BY <1>1, LenProperties DEF Connect, TypeOK
<1>3. CASE up = "up" /\ Len(queue) < Backlog
  <2>1. queue' = Append(queue, q) /\ Goto(q, "start", "queued")
    BY <1>3 DEF Connect
  <2>2. /\ Len(queue') = Len(queue) + 1
        /\ \A i \in 1..Len(queue) : queue'[i] = queue[i]
        /\ queue'[Len(queue) + 1] = q /\ DOMAIN queue' = 1..(Len(queue) + 1)
    BY <1>2, <2>1, AppendProperties, LenProperties
  <2>3. Len(queue) + 1 \in DOMAIN queue' /\ \A i \in DOMAIN queue : i \in DOMAIN queue'
    BY <1>2, <2>2
  <2>4. \A r \in Req : \A i \in Places(r) : i \in Places(r)'
    BY <1>1, <1>2, <2>2, <2>3, PlaceIs, PlaceWillBe
  <2>5. Len(queue) + 1 \in Places(q)'
    BY <1>1, <2>2, <2>3, PlaceWillBe
  <2>6. \A r \in Req : r # q => conn'[r] = conn[r]
    BY <1>1, <2>1 DEF Goto, TypeOK
  <2> QED
    BY <1>2, <2>4, <2>5, <2>6 DEF AsFar
<1>4. CASE ~(up = "up" /\ Len(queue) < Backlog)
  <2>1. UNCHANGED queue /\ Goto(q, "start", "waking")
    BY <1>4 DEF Connect
  <2>2. conn'[q] # "queued" /\ \A r \in Req : r # q => conn'[r] = conn[r]
    BY <1>1, <2>1 DEF Goto, TypeOK
  <2> QED
    BY <1>2, <2>1, <2>2 DEF AsFar, Places
<1> QED
  BY <1>3, <1>4

\* The head of the backlog is served, the others move up.
LEMMA MovingUp ==
  ASSUME IInv, Accept, NEW r \in Req, NEW i \in Places(r)
  PROVE  \E j \in Places(r)' : Closer(i, j)
<1>1. TypeOK /\ TypeOK'
  BY Accepting DEF IInv
<1>2. /\ queue \in Seq(Req) /\ queue # <<>>
      /\ Len(queue) \in Nat /\ DOMAIN queue = 1..Len(queue)
  BY <1>1, LenProperties DEF TypeOK, Accept
<1>3. /\ Tail(queue) \in Seq(Req) /\ Len(Tail(queue)) = Len(queue) - 1
      /\ Head(queue) = queue[1] /\ \A k \in 1..Len(Tail(queue)) : Tail(queue)[k] = queue[k + 1]
  BY <1>2, HeadTailProperties, EmptySeq
<1>4. DOMAIN queue' = 1..(Len(queue) - 1) /\ \A k \in DOMAIN queue' : queue'[k] = queue[k + 1]
  BY <1>3, LenProperties DEF Accept
<1>5. serving = Nobody /\ serving' = [of |-> Head(queue), phase |-> "read"]
  BY DEF Accept
<1>6. serving.phase = "none" /\ serving'.phase = "read" /\ serving'.of = queue[1]
      /\ serving' # Nobody
  BY <1>3, <1>5 DEF Nobody
<1>7. i \in 1..Len(queue) /\ queue[i] = r
  BY <1>1, <1>2, <1>5, PlaceIs
<1>8. i - 1 \in Places(r)'
  <2>1. CASE i = 1
    BY <1>1, <1>6, <1>7, <2>1, PlaceWillBe
  <2>2. CASE i # 1
    <3>1. i - 1 \in DOMAIN queue' /\ queue'[i - 1] = queue[i]
      BY <1>2, <1>4, <1>7, <2>2
    <3> QED
      BY <1>1, <1>7, <3>1, PlaceWillBe
  <2> QED
    BY <2>1, <2>2
<1>9. Closer(i, i - 1)
  BY <1>2, <1>6, <1>7, Phases DEF Closer, StepsTo
<1> QED
  BY <1>8, <1>9

\* A handler goes on or answers; the others keep their places.
LEMMA Progressing ==
  ASSUME IInv, Read \/ Model \/ Tell, NEW r \in Req, NEW i \in Places(r)
  PROVE  conn'[r] # "queued" \/ \E j \in Places(r)' : Closer(i, j)
<1>1. TypeOK /\ TypeOK'
  BY Answering DEF IInv
<1>2. serving.phase \in Phase /\ serving # Nobody
  <2>1. serving.phase \in Phase
    BY DEF Read, Model, Tell, Phase
  <2> QED
    BY <2>1 DEF Nobody, Phase
<1>3. serving \in [of : Req, phase : Phase] /\ i \in Nat
  BY <1>1, <1>2, Serving, OnePlace
<1>4. \/ \E reply \in Reply : Send(reply)
      \/ /\ UNCHANGED queue
         /\ \/ serving.phase = "read" /\ serving' = [serving EXCEPT !.phase = "model"]
            \/ serving.phase = "read" /\ serving' = [serving EXCEPT !.phase = "ran"]
            \/ serving.phase = "model" /\ serving' = [serving EXCEPT !.phase = "called"]
  <2>1. CASE Read
    BY <2>1 DEF Read, Execute, GoOn, Reply
  <2>2. CASE Model
    BY <2>2 DEF Model, Execute, GoOn, Reply
  <2>3. CASE Tell
    BY <2>3 DEF Tell, Reply
  <2> QED
    BY <2>1, <2>2, <2>3
<1>5. CASE \E reply \in Reply : Send(reply)
  <2>1. PICK reply \in Reply : Send(reply)
    BY <1>5
  <2>2. serving' = Nobody /\ UNCHANGED queue /\ serving'.phase = "none"
    BY <2>1 DEF Send, Nobody
  <2>3. CASE serving.of = r
    <3>1. conn'[r] = reply
      BY <1>1, <2>1, <2>3 DEF Send, Goto, TypeOK
    <3> QED
      BY <3>1, WaitOrReply
  <2>4. CASE serving.of # r
    <3>1. i \in DOMAIN queue /\ queue[i] = r
      BY <1>1, <2>4, PlaceIs
    <3>2. i \in Places(r)'
      BY <1>1, <2>2, <3>1, PlaceWillBe
    <3>3. Closer(i, i)
      <4>1. StepsOf(serving'.phase) = 0 /\ StepsOf(serving.phase) \in 1..3
        BY <1>2, <2>2, Phases DEF Phase
      <4> QED
        BY <1>3, <4>1 DEF Closer, StepsTo
    <3> QED
      BY <3>2, <3>3
  <2> QED
    BY <2>3, <2>4
<1>6. CASE /\ UNCHANGED queue
           /\ \/ serving.phase = "read" /\ serving' = [serving EXCEPT !.phase = "model"]
              \/ serving.phase = "read" /\ serving' = [serving EXCEPT !.phase = "ran"]
              \/ serving.phase = "model" /\ serving' = [serving EXCEPT !.phase = "called"]
  <2>1. /\ serving' \in [of : Req, phase : Phase] /\ serving'.of = serving.of
        /\ \/ serving.phase = "read" /\ serving'.phase = "model"
           \/ serving.phase = "read" /\ serving'.phase = "ran"
           \/ serving.phase = "model" /\ serving'.phase = "called"
    BY <1>3, <1>6 DEF Phase
  <2>2. serving' # Nobody
    BY <2>1, NobodyServed
  <2>3. i \in Places(r)'
    BY <1>1, <1>6, <2>1, <2>2, PlaceIs, PlaceWillBe
  <2>4. StepsOf(serving'.phase) \in 0..3 /\ StepsOf(serving.phase) \in 0..3
        /\ StepsOf(serving'.phase) < StepsOf(serving.phase)
    BY <2>1, Phases
  <2>5. Closer(i, i)
    BY <1>3, <2>4 DEF Closer, StepsTo
  <2> QED
    BY <2>3, <2>5
<1> QED
  BY <1>4, <1>5, <1>6

\* The panel and the day card touch neither the backlog nor the handler, and
\* nobody joins it but by connecting.
LEMMA Elsewhere ==
  ASSUME IInv, UNCHANGED <<queue, serving>>
  PROVE  \A r \in Req : Places(r)' = Places(r) /\ \A i \in Places(r) : AsFar(i, i)
  BY DEF Places, AsFar

\* A step of the panel or of a day worker.
PanelOrDay ==
  \/ \E n \in Ask :
       \/ \E k \in Kind : AuraSubmit(n, k)
       \/ Tick(n) \/ AuraApplyResult(n)
       \/ OnAuraConfirmOk(n) \/ OnAuraConfirmCancel(n) \/ AuraConfirmExpire(n)
  \/ \E d \in Day : OpenWidgets(d) \/ DayWorker(d)

LEMMA PanelOrDayKeeps ==
  ASSUME IInv, PanelOrDay
  PROVE  UNCHANGED <<queue, serving>> /\ \A r \in Req : conn'[r] = "queued" => conn[r] = "queued"
<1>1. conn \in [Req -> Wait \cup Reply]
  BY DEF IInv, TypeOK
<1>2. UNCHANGED <<queue, serving>>
  BY DEF PanelOrDay, serviceVars, AuraSubmit, Tick, AuraApplyResult, OnAuraConfirmOk,
         OnAuraConfirmCancel, AuraConfirmExpire, OpenWidgets, DayWorker, DaySleep, DayWake, DayApply
<1>3. \/ UNCHANGED conn
      \/ \E r \in Req, next \in {"none", "start", "sleep"} : conn' = [conn EXCEPT ![r] = next]
  BY AskOrDay
     DEF PanelOrDay, AuraSubmit, Tick, AuraApplyResult, OnAuraConfirmOk,
         OnAuraConfirmCancel, AuraConfirmExpire, OpenWidgets, DayWorker, DaySleep, DayWake, DayApply, Goto
<1> QED
  BY <1>1, <1>2, <1>3

\* What a step does to those who wait.
LEMMA Keeping ==
  ASSUME IInv, [Next]_vars, NEW r \in Req, NEW i \in Places(r)
  PROVE  \/ conn'[r] # "queued"
         \/ \E j \in Places(r)' : IF Handle THEN Closer(i, j) ELSE AsFar(i, j)
<1> USE DEF IInv
<1>1. CASE Handle
  BY <1>1, MovingUp, Progressing DEF Handle
<1>2. CASE Die \/ NewSession
  <2>1. conn'[r] # "queued"
    BY <1>2 DEF Die, NewSession
  <2> QED
    BY <2>1
<1>3. CASE \E q \in Req : Connect(q)
  <2>1. serving' = serving
    BY <1>3 DEF Connect
  <2>2. ~Handle
    BY <2>1, HandleMoves
  <2> QED
    BY <1>3, <2>2, Joining
<1>4. CASE Listen \/ PanelOrDay \/ UNCHANGED vars
  <2>1. UNCHANGED <<queue, serving>>
    BY <1>4, PanelOrDayKeeps DEF Listen, vars, serviceVars
  <2>2. ~Handle
    BY <2>1, HandleMoves
  <2> QED
    BY <2>1, <2>2, Elsewhere
<1> QED
  BY <1>1, <1>2, <1>3, <1>4 DEF Next, Service, PanelOrDay

\* Who waits after a step waited before it, or has just connected.
LEMMA Beginning ==
  ASSUME IInv, [Next]_vars, NEW r \in Req, conn'[r] = "queued"
  PROVE  conn[r] = "queued" \/ Connect(r)
<1>1. conn \in [Req -> Wait \cup Reply]
  BY DEF IInv, TypeOK
<1>2. CASE Die \/ NewSession
  BY <1>1, <1>2 DEF Die, NewSession
<1>3. CASE \E q \in Req : Connect(q)
  BY <1>3, Joining
<1>4. CASE Accept \/ Listen \/ UNCHANGED vars
  BY <1>4 DEF Accept, Listen, vars
<1>5. CASE Read \/ Model \/ Tell
  <2>1. \/ UNCHANGED conn \/ \E reply \in Reply : Send(reply)
    BY <1>5 DEF Read, Model, Tell, Execute, GoOn, Reply
  <2>2. \/ UNCHANGED conn
        \/ \E reply \in Reply : conn' = [conn EXCEPT ![serving.of] = reply]
    BY <2>1 DEF Send, Goto
  <2> QED
    BY <1>1, <2>2, WaitOrReply
<1>6. CASE PanelOrDay
  BY <1>6, PanelOrDayKeeps
<1> QED
  BY <1>2, <1>3, <1>4, <1>5, <1>6 DEF Next, Service, Handle, PanelOrDay

LEMMA StillHeld == IInv /\ HeldInv /\ [Next]_vars => HeldInv'
<1> SUFFICES ASSUME IInv, HeldInv, [Next]_vars, NEW r \in Req, conn'[r] = "queued"
             PROVE  Places(r)' # {}
  BY DEF HeldInv
<1>1. CASE conn[r] = "queued"
  <2>1. PICK i : i \in Places(r)
    BY <1>1 DEF HeldInv
  <2>2. \E j \in Places(r)' : TRUE
    BY <2>1, Keeping
  <2> QED
    BY <2>2
<1>2. CASE Connect(r)
  BY <1>2, Joining
<1> QED
  BY <1>1, <1>2, Beginning

\* No connection that the kernel took is lost and none is answered to nobody, for
\* any number of questions and day workers and any backlog; a thread that finds
\* the backlog full is not held, it is told that nobody listens.
THEOREM NobodyIsForgotten == Spec => []WaitersAreHeld
<1>1. Init => HeldInv
  BY DEF Init, HeldInv
<1>2. Spec => []HeldInv
  BY <1>1, StillHeld, Invariant, PTL DEF Spec
<1>3. IInv /\ HeldInv => WaitersAreHeld
  <2> SUFFICES ASSUME IInv, HeldInv, NEW r \in Req
               PROVE  IF conn[r] = "queued" THEN \E i \in 0..Backlog : Places(r) = {i}
                                            ELSE Places(r) = {}
    BY DEF WaitersAreHeld
  <2>1. CASE conn[r] = "queued"
    <3>1. PICK i : i \in Places(r)
      BY <2>1 DEF HeldInv
    <3>2. Places(r) = {i}
      BY <3>1, OnePlace
    <3>3. i \in 0..Len(queue)
      BY <3>1 DEF Places
    <3>4. Len(queue) \in Nat /\ Len(queue) <= Backlog
      BY LenProperties DEF IInv, TypeOK
    <3>5. i \in 0..Backlog
      BY <3>3, <3>4, BacklogAssumption
    <3> QED
      BY <2>1, <3>2, <3>5
  <2>2. CASE conn[r] # "queued"
    <3>1. Places(r) = {}
      BY <2>2, OnePlace
    <3> QED
      BY <2>2, <3>1
  <2> QED
    BY <2>1, <2>2
<1> QED
  BY <1>2, <1>3, Invariant, PTL

\* No question whose connection the kernel took is overtaken, and each step of a
\* handler brings every answer closer: how many steps there are is known then.
THEOREM NobodyIsOvertaken == Spec => AnsweredInTurn
<1>1. IInv /\ [Next]_vars =>
        [\A r \in Req : \A i \in Places(r) :
           \/ conn'[r] # "queued"
           \/ \E j \in Places(r)' :
                IF Handle THEN StepsTo(j, serving'.phase) < StepsTo(i, serving.phase)
                          ELSE StepsTo(j, serving'.phase) = StepsTo(i, serving.phase)]_vars
  BY Keeping DEF Closer, AsFar
<1> QED
  BY <1>1, Invariant, PTL DEF Spec, AnsweredInTurn

=============================================================================
