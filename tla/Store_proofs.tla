--------------------------- MODULE Store_proofs ---------------------------
(***************************************************************************)
(* Safety of Store for every catalog, number of terminals and backlog.     *)
(***************************************************************************)
EXTENDS Store, SequenceTheorems, TLAPS

(***************************************************************************)
(* The inductive invariant: what each step of the service may rely on.     *)
(* Between the clearing of a tree and the end of the request the app       *)
(* counts as unfinished; an image is cleared by an install only with its   *)
(* replacement at hand; an entry is written only for what it can start;    *)
(* what is not as it should be then is so because an error was ignored.    *)
(***************************************************************************)
Installing == {"fetch", "unpack", "fill", "filled", "look", "entry", "writing"}
Changing   == {"cleared", "fill", "filled", "look", "entry", "writing", "drop"}

ServiceInv ==
  /\ at # "idle" => queue # <<>> /\ Req.op # "list"
  /\ at \in Installing => Req.op = "install"
  /\ at \in Changing => unfinished[this]
  /\ at = "drop" => Req.op = "remove" /\ (dest[this] = "absent" \/ ignored)
  /\ at = "look" /\ CanStart(this) => Usable(this) \/ ignored
  /\ at \in {"entry", "writing"} => CanStart(this) /\ (Usable(this) \/ ignored)
  /\ at \in {"clear", "cleared", "fill", "filled"} /\ Req.op = "install" /\ this \notin Deb
       => work = "tree"

(***************************************************************************)
(* Who waits: every request that is not abandoned has a sender in the      *)
(* matching state, and no sender has two.                                  *)
(***************************************************************************)
SenderInv ==
  /\ \A i \in 1..Len(queue) :
       /\ queue[i].from \in Terminal =>
            cli[queue[i].from] \in Command
            /\ cli[queue[i].from].at = IF queue[i].op = "list" THEN "list" ELSE "wait"
       /\ queue[i].from = "card" =>
            /\ queue[i].op = "install"
            /\ card[queue[i].app] = "Installing" /\ reply[queue[i].app] = "none"
  /\ \A i, j \in 1..Len(queue) :
       /\ queue[i].from = queue[j].from /\ queue[i].from # "nobody"
       /\ queue[i].from = "card" => queue[i].app = queue[j].app
       => i = j

CardInv ==
  \A a \in App :
    /\ reply[a] # "none" => card[a] = "Installing"
    /\ card[a] = "Installing" /\ reply[a] = "none" =>
         \E i \in 1..Len(queue) : queue[i] = FromCard(a)

IInv == TypeOK /\ ServiceInv /\ SenderInv /\ CardInv /\ EntryMatchesTree /\ AnswersAreTrue

-----------------------------------------------------------------------------
LEMMA Initially == Init => IInv
<1> SUFFICES ASSUME Init PROVE IInv  OBVIOUS
<1>1. TypeOK
  <2>1. queue \in Seq(Request) /\ Len(queue) <= Slots
    BY BacklogAssumption, EmptySeq DEF Init, Slots
  <2>2. /\ dest \in [App -> Tree] /\ entry \in [App -> {"none", "empty", "starts"}]
        /\ card \in [App -> {"Get", "Installing", "Open", "Retry"}]
    BY DEF Init, Tree, Whole, NewCard
  <2>3. ignored \in BOOLEAN /\ unfinished \in [App -> BOOLEAN]
    BY DEF Init
  <2> QED BY <2>1, <2>2, <2>3, BoundsAssumption DEF Init, TypeOK
<1>2. ServiceInv /\ SenderInv /\ CardInv /\ EntryMatchesTree /\ AnswersAreTrue
  BY DEF Init, NewCard, SenderInv, CardInv, ServiceInv, Installing, Changing, EntryMatchesTree, AnswersAreTrue, Usable, CanStart
<1> QED BY <1>1, <1>2 DEF IInv

(* The request being served, and what is left behind it, are requests. *)
LEMMA HeadIsRequest ==
  ASSUME TypeOK, queue # <<>>
  PROVE  Req \in Request /\ this \in App /\ Tail(queue) \in Seq(Request)
<1>1. queue \in Seq(Request)
  BY DEF TypeOK
<1>2. Req \in Request /\ Tail(queue) \in Seq(Request)
  BY <1>1, HeadTailProperties DEF Req
<1> QED BY <1>2 DEF this, Request

LEMMA RequestFields ==
  ASSUME NEW op \in {"install", "remove", "list"}, NEW a \in App,
         NEW c \in Terminal \cup {"card", "nobody"}
  PROVE  [op |-> op, app |-> a, from |-> c] \in Request
  BY DEF Request

(* Senders come and go behind the head of the queue. *)
LEMMA AppendKeepsHead ==
  ASSUME TypeOK, NEW r \in Request, queue' = Append(queue, r)
  PROVE  queue' \in Seq(Request) /\ (queue # <<>> => queue' # <<>> /\ Req' = Req)
  BY AppendProperties, HeadTailAppend DEF TypeOK, Req

LEMMA OrphanedKeepsHead ==
  ASSUME TypeOK, NEW gone, queue' = Orphaned(gone)
  PROVE  /\ queue' \in Seq(Request)
         /\ queue # <<>> => queue' # <<>> /\ Req'.op = Req.op /\ this' = this
<1>1. queue \in Seq(Request)
  BY DEF TypeOK
<1>2. \A r \in Request : [r EXCEPT !.from = "nobody"] \in Request
                         /\ [r EXCEPT !.from = "nobody"].op = r.op
                         /\ [r EXCEPT !.from = "nobody"].app = r.app
  BY DEF Request
<1>3. DOMAIN queue = 1..Len(queue) /\ Len(queue) \in Nat /\ \A i \in 1..Len(queue) : queue[i] \in Request
  BY <1>1
<1>4. Orphaned(gone) \in [1..Len(queue) -> Request]
  BY <1>2, <1>3 DEF Orphaned
<1>5. queue' \in Seq(Request) /\ Len(queue') = Len(queue)
  BY <1>3, <1>4
<1>6. ASSUME queue # <<>> PROVE queue' # <<>> /\ Req'.op = Req.op /\ this' = this
  <2>1. 1 \in 1..Len(queue) /\ queue' # <<>>
    BY <1>1, <1>3, <1>5, <1>6
  <2>2. queue'[1].op = queue[1].op /\ queue'[1].app = queue[1].app
    BY <1>2, <1>3, <2>1 DEF Orphaned
  <2>3. Head(queue) = queue[1] /\ Head(queue') = queue'[1]
    BY <1>1, <1>5, <1>6, <2>1
  <2> QED BY <2>1, <2>2, <2>3 DEF Req, this
<1> QED BY <1>5, <1>6

(* A step that leaves the disk and the work alone, and the request as it was. *)
LEMMA BystanderStep ==
  ASSUME ServiceInv, EntryMatchesTree, AnswersAreTrue,
         UNCHANGED <<diskVars, work, at>>,
         queue # <<>> => queue' # <<>> /\ Req'.op = Req.op /\ this' = this
  PROVE  ServiceInv' /\ EntryMatchesTree' /\ AnswersAreTrue'
<1>1. CASE at = "idle"
  BY <1>1 DEF ServiceInv, EntryMatchesTree, AnswersAreTrue, diskVars, Usable, CanStart, Installing, Changing
<1>2. CASE at # "idle"
  <2>1. queue # <<>> /\ queue' # <<>> /\ Req'.op = Req.op /\ this' = this
    BY <1>2 DEF ServiceInv
  <2> QED BY <2>1 DEF ServiceInv, EntryMatchesTree, AnswersAreTrue, diskVars, Usable, CanStart
<1> QED BY <1>1, <1>2

-----------------------------------------------------------------------------
(* Types. *)

(* What a command sends, and where it is then. *)
LEMMA CallSends ==
  ASSUME TypeOK, NEW t \in Terminal, Call(t)
  PROVE  /\ cli[t] \in Command /\ Sent(t) \in Request /\ Sent(t).from = t
         /\ cli[t].at \in Calling
         /\ UNCHANGED <<diskVars, work, at, service, card, reply, restarts, waits>>
         /\ \/ /\ Room /\ queue' = Append(queue, Sent(t))
               /\ cli' \in [Terminal -> Command \cup {Prompt}] /\ cli'[t] \in Command
               /\ cli'[t].at = IF Sent(t).op = "list" THEN "list" ELSE "wait"
               /\ \A u \in Terminal : u # t => cli'[u] = cli[u]
            \/ UNCHANGED queue /\ cli' = [cli EXCEPT ![t] = Prompt]
<1> DEFINE next == IF cli[t].at = "start" THEN "list" ELSE "wait"
           c == [cli[t] EXCEPT !.at = next]
<1>1. cli[t] \in Command /\ cli[t].at \in Calling
  BY DEF Call, Prompt, Calling, TypeOK
<1>2. /\ c \in Command /\ c.at = next
      /\ cli[t].app \in App /\ cli[t].op \in {"install", "remove"}
  BY <1>1 DEF Command
<1>3. Sent(t) \in Request /\ Sent(t).from = t /\ next = IF Sent(t).op = "list" THEN "list" ELSE "wait"
  BY <1>2, RequestFields DEF Sent
<1>4. UNCHANGED <<diskVars, work, at, service, card, reply, restarts, waits>>
  BY DEF Call
<1>5. CASE Room /\ queue' = Append(queue, Sent(t)) /\ cli' = [cli EXCEPT ![t] = c]
  <2>1. /\ cli' \in [Terminal -> Command \cup {Prompt}] /\ cli'[t] = c
        /\ \A u \in Terminal : u # t => cli'[u] = cli[u]
    <3> HIDE DEF c
    <3> QED BY <1>2, <1>5 DEF TypeOK
  <2> QED BY <1>1, <1>2, <1>3, <1>4, <1>5, <2>1
<1>6. CASE UNCHANGED queue /\ cli' = [cli EXCEPT ![t] = Prompt]
  BY <1>1, <1>3, <1>4, <1>6
<1> QED BY <1>5, <1>6 DEF Call

(* No more connections are kept than the kernel keeps. *)
LEMMA FitsKept ==
  ASSUME TypeOK, ServiceInv, [Next]_vars
  PROVE  Len(queue') <= Slots'
<1>1. queue \in Seq(Request) /\ Len(queue) \in Nat /\ Len(queue) <= Slots
      /\ Slots \in {Backlog, Backlog + 1} /\ Backlog \in Nat
  BY BacklogAssumption DEF TypeOK, Slots
<1>2. ASSUME UNCHANGED at, UNCHANGED queue PROVE Len(queue') <= Slots'
  BY <1>1, <1>2 DEF Slots
<1>3. ASSUME UNCHANGED at, NEW r \in Request, Room, queue' = Append(queue, r)
      PROVE  Len(queue') <= Slots'
  <2>1. Len(queue') = Len(queue) + 1 /\ Slots' = Slots
    BY <1>1, <1>3, AppendProperties DEF Slots
  <2> QED BY <1>1, <1>3, <2>1 DEF Room
<1>4. ASSUME UNCHANGED at, NEW gone, queue' = Orphaned(gone) PROVE Len(queue') <= Slots'
  <2>1. DOMAIN queue = 1..Len(queue)
    BY <1>1
  <2>2. \A r \in Request : [r EXCEPT !.from = "nobody"] \in Request
    BY DEF Request
  <2>3. queue' \in [1..Len(queue) -> Request]
    BY <1>1, <1>4, <2>1, <2>2 DEF Orphaned
  <2>4. Len(queue') = Len(queue)
    BY <1>1, <2>3
  <2> QED BY <1>1, <1>4, <2>4 DEF Slots
<1>5. CASE Answer \/ AnswerList
  <2>1. queue # <<>> /\ queue' = Tail(queue) /\ at' = "idle"
    BY <1>5 DEF Answer, AnswerList, ServiceInv
  <2>2. Len(queue') = Len(queue) - 1
    BY <1>1, <2>1, HeadTailProperties
  <2> QED BY <1>1, <2>1, <2>2 DEF Slots
<1>6. CASE Serve /\ ~(Answer \/ AnswerList)
  <2>1. queue' = queue /\ at' # "idle"
    BY <1>6 DEF Serve, Accept, Download, Unpack, Clear, Cleared, Fill, Filled, Look,
                OpenEntry, WriteEntry, DropEntry, Fail, Step
  <2> QED BY <1>1, <2>1 DEF Slots
<1>7. ASSUME NEW a \in App, ClickGet(a) \/ Connect(a) \/ ClickOpen(a) \/ ApplyResult(a)
      PROVE  Len(queue') <= Slots'
  <2>1. FromCard(a) \in Request
    BY RequestFields DEF FromCard
  <2> QED BY <1>2, <1>3, <1>7, <2>1 DEF ClickGet, Connect, ClickOpen, ApplyResult, vars
<1>8. ASSUME NEW t \in Terminal, Call(t) PROVE Len(queue') <= Slots'
  BY <1>2, <1>3, <1>8, CallSends
<1>9. CASE \/ \E t \in Terminal : GiveUp(t) \/ \E op \in {"install", "remove"}, a \in App : Type(t, op, a)
           \/ ServiceStarts \/ NewSession \/ UNCHANGED vars
  BY <1>2, <1>4, <1>9 DEF GiveUp, Type, ServiceStarts, NewSession, vars
<1>10. CASE ServiceDies
  BY <1>1, <1>10, EmptySeq DEF ServiceDies, Slots
<1> QED BY <1>5, <1>6, <1>7, <1>8, <1>9, <1>10 DEF Next

LEMMA TypesKept ==
  ASSUME TypeOK, ServiceInv, SenderInv, [Next]_vars
  PROVE  TypeOK'
<1>0. Len(queue') <= Slots'
  BY FitsKept
<1> USE <1>0 DEF TypeOK
<1>1. CASE Serve
  <2>1. queue # <<>>
    BY <1>1 DEF Serve, ServiceInv, Accept, Download, Unpack, Clear, Cleared, Fill, Filled, Look,
                OpenEntry, WriteEntry, DropEntry, Fail, Answer, AnswerList, Step
  <2>2. this \in App /\ Req \in Request /\ Tail(queue) \in Seq(Request)
    BY <2>1, HeadIsRequest
  <2>3. /\ [dest EXCEPT ![this] = "part"] \in [App -> Tree]
        /\ \A tree \in Tree : [dest EXCEPT ![this] = tree] \in [App -> Tree]
    BY <2>2 DEF Tree
  <2>s. UNCHANGED <<service, restarts, waits>>
    BY <1>1 DEF Serve
  <2>4. CASE Accept \/ Download \/ Unpack \/ Look \/ Fail
    BY <2>4, <2>s DEF Accept, Download, Unpack, Look, Fail, Step, diskVars, clientVars
  <2>5. CASE Clear
    <3>1. \A tree \in Torn(dest[this]) : tree \in Tree
      BY <2>2 DEF Torn, Tree, HasAppRun
    <3> QED BY <2>2, <2>3, <2>5, <2>s, <3>1 DEF Clear, Step, clientVars
  <2>6. CASE Cleared \/ Fill \/ Filled
    <3>1. dest' \in [App -> Tree]
      BY <2>2, <2>6 DEF Cleared, Fill, Filled, Tree, Whole
    <3>2. at' \in {"drop", "fill", "filled", "look"} /\ ignored' \in BOOLEAN
      BY <2>6 DEF Cleared, Fill, Filled, Step
    <3> QED BY <2>6, <2>s, <3>1, <3>2 DEF Cleared, Fill, Filled, clientVars
  <2>7. CASE OpenEntry \/ WriteEntry \/ DropEntry
    <3>1. ignored' \in BOOLEAN
      BY <2>7 DEF OpenEntry, WriteEntry, DropEntry
    <3> QED BY <2>2, <2>7, <2>s, <3>1 DEF OpenEntry, WriteEntry, DropEntry, Step, clientVars
  <2>8. CASE Answer
    <3>1. reply' \in [App -> {"none", "connecting", "ok", "error"}]
      BY <2>2, <2>8 DEF Answer
    <3>2. cli' \in [Terminal -> Command \cup {Prompt}]
      BY <2>2, <2>8 DEF Answer
    <3> QED BY <2>2, <2>8, <2>s, <3>1, <3>2 DEF Answer, diskVars
  <2>9. CASE AnswerList
    <3>1. \A c \in Command : [c EXCEPT !.at = "decided"] \in Command
      BY DEF Command, Calling
    <3>2. Req.from \in Terminal => cli[Req.from] \in Command
      <4>1. 1 \in 1..Len(queue) /\ Req = queue[1]
        BY <2>1 DEF Req
      <4> QED BY <4>1 DEF SenderInv
    <3>3. cli' \in [Terminal -> Command \cup {Prompt}]
      BY <2>9, <3>1, <3>2 DEF AnswerList
    <3> QED BY <2>2, <2>9, <2>s, <3>3 DEF AnswerList, diskVars
  <2> QED BY <1>1, <2>4, <2>5, <2>6, <2>7, <2>8, <2>9 DEF Serve
<1>2. ASSUME NEW a \in App, ClickGet(a) \/ Connect(a) \/ ClickOpen(a) \/ ApplyResult(a)
      PROVE  TypeOK'
  <2>1. FromCard(a) \in Request
    BY RequestFields DEF FromCard
  <2>2. Append(queue, FromCard(a)) \in Seq(Request)
    BY <2>1, AppendProperties
  <2>3. CASE ClickGet(a)
    <3>1. /\ card' \in [App -> {"Get", "Installing", "Open", "Retry"}]
          /\ reply' \in [App -> {"none", "connecting", "ok", "error"}]
      BY <2>3 DEF ClickGet
    <3> QED BY <2>3, <3>1 DEF ClickGet, diskVars
  <2>4. CASE Connect(a)
    <3>1. reply' \in [App -> {"none", "connecting", "ok", "error"}]
      BY <2>4 DEF Connect
    <3>2. queue' \in Seq(Request)
      BY <2>2, <2>4 DEF Connect
    <3> QED BY <2>4, <3>1, <3>2 DEF Connect, diskVars
  <2>5. CASE ApplyResult(a)
    <3>1. /\ card' \in [App -> {"Get", "Installing", "Open", "Retry"}]
          /\ reply' \in [App -> {"none", "connecting", "ok", "error"}]
      BY <2>5 DEF ApplyResult
    <3> QED BY <2>5, <3>1 DEF ApplyResult, diskVars
  <2>6. CASE ClickOpen(a)
    BY <2>6 DEF ClickOpen, diskVars, clientVars, vars
  <2> QED BY <1>2, <2>3, <2>4, <2>5, <2>6
<1>3. ASSUME NEW t \in Terminal, NEW op \in {"install", "remove"}, NEW a \in App, Type(t, op, a)
      PROVE TypeOK'
  <2>1. [at |-> "start", op |-> op, app |-> a] \in Command
    BY DEF Command, Calling
  <2> QED BY <1>3, <2>1 DEF Type, diskVars
<1>4. ASSUME NEW t \in Terminal, Call(t) PROVE TypeOK'
  <2>1. cli' \in [Terminal -> Command \cup {Prompt}]
    BY <1>4, CallSends
  <2>2. queue' \in Seq(Request)
    BY <1>4, CallSends, AppendProperties
  <2> QED BY <1>4, <2>1, <2>2 DEF Call, diskVars
<1>5. ASSUME NEW t \in Terminal, GiveUp(t) PROVE TypeOK'
  <2>1. queue' \in Seq(Request)
    BY <1>5, OrphanedKeepsHead DEF GiveUp
  <2> QED BY <1>5, <2>1, BoundsAssumption DEF GiveUp, diskVars
<1>6. CASE ServiceStarts
  BY <1>6 DEF ServiceStarts, diskVars, clientVars
<1>7. CASE ServiceDies
  <2>1. cli' \in [Terminal -> Command \cup {Prompt}] /\ ignored' \in BOOLEAN
    BY <1>7 DEF ServiceDies
  <2>2. restarts' \in 0..MaxRestarts
    BY <1>7, BoundsAssumption DEF ServiceDies
  <2>3. reply' \in [App -> {"none", "connecting", "ok", "error"}] /\ queue' \in Seq(Request)
    BY <1>7, EmptySeq DEF ServiceDies
  <2> QED BY <1>7, <2>1, <2>2, <2>3 DEF ServiceDies
<1>8. CASE NewSession
  <2>1. queue' \in Seq(Request)
    BY <1>8, OrphanedKeepsHead DEF NewSession
  <2> QED BY <1>8, <2>1, BoundsAssumption DEF NewSession, NewCard, diskVars
<1>9. CASE UNCHANGED vars
  BY <1>9 DEF vars, diskVars, clientVars
<1> QED BY <1>1, <1>2, <1>3, <1>4, <1>5, <1>6, <1>7, <1>8, <1>9 DEF Next

-----------------------------------------------------------------------------
(* The service. *)

(* One step of a request: only the app of the request changes. *)
LEMMA ServingKept ==
  ASSUME TypeOK, ServiceInv, EntryMatchesTree, AnswersAreTrue, Serve
  PROVE  ServiceInv' /\ EntryMatchesTree' /\ AnswersAreTrue'
<1> USE DEF Step
<1> DEFINE Inv == ServiceInv /\ EntryMatchesTree /\ AnswersAreTrue
<1>1. queue # <<>>
  BY DEF Serve, ServiceInv, Accept, Download, Unpack, Clear, Cleared, Fill, Filled, Look,
         OpenEntry, WriteEntry, DropEntry, Fail, Answer, AnswerList
<1>2. this \in App /\ Req.op \in {"install", "remove", "list"}
  BY <1>1, HeadIsRequest DEF Request
<1>3. dest \in [App -> Tree] /\ entry \in [App -> {"none", "empty", "starts"}]
      /\ unfinished \in [App -> BOOLEAN]
  BY DEF TypeOK
<1>4. CASE Accept \/ Download \/ Unpack \/ Look \/ Fail
  <2>1. UNCHANGED <<diskVars, queue>> /\ Req' = Req /\ this' = this
    BY <1>4 DEF Accept, Download, Unpack, Look, Fail, Req, this
  <2>2. EntryMatchesTree'
    BY <2>1 DEF EntryMatchesTree, diskVars, Usable, CanStart
  <2>3. AnswersAreTrue'
    BY <1>4, <2>1 DEF Accept, Download, Unpack, Look, Fail, AnswersAreTrue
  <2>4. ServiceInv'
    <3> USE <1>1, <1>2, <2>1 DEF ServiceInv, Installing, Changing, diskVars, Usable, CanStart
    <3>1. CASE Accept  BY <3>1 DEF Accept
    <3>2. CASE Download  BY <3>2 DEF Download
    <3>3. CASE Unpack  BY <3>3 DEF Unpack
    <3>4. CASE Look  BY <3>4 DEF Look
    <3>5. CASE Fail  BY <3>5 DEF Fail
    <3> QED BY <1>4, <3>1, <3>2, <3>3, <3>4, <3>5
  <2> QED BY <2>2, <2>3, <2>4
<1>5. CASE Clear \/ Cleared \/ Fill \/ Filled
  <2>1. UNCHANGED <<queue, entry>> /\ Req' = Req /\ this' = this
    BY <1>5 DEF Clear, Cleared, Fill, Filled, Req, this
  <2>2. /\ \A a \in App \ {this} : dest'[a] = dest[a] /\ unfinished'[a] = unfinished[a]
        /\ unfinished'[this]
    BY <1>2, <1>3, <1>5 DEF Clear, Cleared, Fill, Filled, ServiceInv, Changing
  <2>3. EntryMatchesTree'
    BY <1>2, <2>1, <2>2 DEF EntryMatchesTree, Usable
  <2>4. AnswersAreTrue'
    BY <1>5 DEF Clear, Cleared, Fill, Filled, AnswersAreTrue
  <2>5. ServiceInv'
    <3> USE <1>1, <1>2, <1>3, <2>1, <2>2 DEF ServiceInv, Installing, Changing, Usable, CanStart
    <3>1. CASE Clear  BY <3>1 DEF Clear
    <3>2. CASE Cleared  BY <3>2 DEF Cleared
    <3>3. CASE Fill  BY <3>3 DEF Fill
    <3>4. CASE Filled
      <4>1. /\ at' = "look" /\ UNCHANGED <<ignored, work>> /\ Req.op = "install"
            /\ ignored \/ dest'[this] \in {"no program", Whole(this)}
        BY <3>4 DEF Filled
      <4>2. CanStart(this)' => Usable(this)' \/ ignored'
        BY <4>1 DEF Whole, HasAppRun
      <4> QED BY <4>1, <4>2
    <3> QED BY <1>5, <3>1, <3>2, <3>3, <3>4
  <2> QED BY <2>3, <2>4, <2>5
<1>6. CASE OpenEntry \/ WriteEntry \/ DropEntry
  <2>1. UNCHANGED <<queue, dest, work>> /\ Req' = Req /\ this' = this
    BY <1>6 DEF OpenEntry, WriteEntry, DropEntry, Req, this
  <2>2. \A a \in App \ {this} : entry'[a] = entry[a] /\ unfinished'[a] = unfinished[a]
    BY <1>3, <1>6 DEF OpenEntry, WriteEntry, DropEntry
  <2>3. CASE OpenEntry
    <3>1. /\ unfinished'[this] /\ at' = "writing" /\ Req.op = "install" /\ ignored' = ignored
          /\ CanStart(this)' /\ (Usable(this)' \/ ignored')
      BY <1>2, <2>1, <2>3 DEF OpenEntry, ServiceInv, Installing, Changing, Usable, CanStart
    <3> QED BY <1>1, <1>2, <2>1, <2>2, <3>1
            DEF ServiceInv, EntryMatchesTree, AnswersAreTrue, Installing, Changing, Usable, CanStart
  <2>4. CASE WriteEntry
    <3>1. /\ CanStart(this)' /\ (Usable(this)' \/ ignored') /\ ignored' = ignored
          /\ entry'[this] = "starts" /\ at' = "done" /\ Req.op = "install"
          /\ unfinished'[this] = ignored
      BY <1>2, <1>3, <2>1, <2>4 DEF WriteEntry, ServiceInv, Installing, Changing, Usable, CanStart
    <3> QED BY <1>1, <1>2, <2>1, <2>2, <3>1
            DEF ServiceInv, EntryMatchesTree, AnswersAreTrue, Installing, Changing, Usable, CanStart
  <2>5. CASE DropEntry
    <3>1. /\ (dest'[this] = "absent" /\ entry'[this] = "none") \/ ignored'
          /\ at' = "done" /\ Req.op = "remove" /\ unfinished'[this] = ignored'
      BY <1>2, <1>3, <2>1, <2>5 DEF DropEntry, ServiceInv
    <3> QED BY <1>1, <1>2, <2>1, <2>2, <3>1
            DEF ServiceInv, EntryMatchesTree, AnswersAreTrue, Installing, Changing, Usable, CanStart
  <2> QED BY <1>6, <2>3, <2>4, <2>5
<1>7. CASE Answer \/ AnswerList
  <2>1. UNCHANGED <<dest, entry, unfinished>> /\ at' = "idle"
    BY <1>7 DEF Answer, AnswerList, diskVars
  <2> QED BY <2>1 DEF ServiceInv, EntryMatchesTree, AnswersAreTrue, diskVars, Usable, CanStart,
                      Installing, Changing
<1> QED BY <1>4, <1>5, <1>6, <1>7 DEF Serve

(* Senders, sessions and deaths leave what is on the disk alone. *)
LEMMA ServiceKept ==
  ASSUME TypeOK, ServiceInv, SenderInv, EntryMatchesTree, AnswersAreTrue, [Next]_vars
  PROVE  ServiceInv' /\ EntryMatchesTree' /\ AnswersAreTrue'
<1>1. CASE Serve
  BY <1>1, ServingKept
<1>2. ASSUME UNCHANGED <<diskVars, work, at>>, NEW r \in Request,
             queue' = queue \/ queue' = Append(queue, r)
      PROVE  ServiceInv' /\ EntryMatchesTree' /\ AnswersAreTrue'
  <2>1. queue # <<>> => queue' # <<>> /\ Req' = Req
    BY <1>2, AppendKeepsHead DEF Req
  <2> QED BY <1>2, <2>1, BystanderStep DEF this
<1>3. ASSUME UNCHANGED <<diskVars, work, at>>, queue' = queue
      PROVE  ServiceInv' /\ EntryMatchesTree' /\ AnswersAreTrue'
  BY <1>3, BystanderStep DEF Req, this
<1>4. ASSUME UNCHANGED <<diskVars, work, at>>, NEW gone, queue' = Orphaned(gone)
      PROVE  ServiceInv' /\ EntryMatchesTree' /\ AnswersAreTrue'
  BY <1>4, OrphanedKeepsHead, BystanderStep
<1>5. ASSUME NEW a \in App, ClickGet(a) \/ Connect(a) \/ ClickOpen(a) \/ ApplyResult(a)
      PROVE  ServiceInv' /\ EntryMatchesTree' /\ AnswersAreTrue'
  <2>1. FromCard(a) \in Request
    BY RequestFields DEF FromCard
  <2>2. /\ UNCHANGED <<diskVars, work, at>>
        /\ queue' = queue \/ queue' = Append(queue, FromCard(a))
    BY <1>5 DEF ClickGet, Connect, ClickOpen, ApplyResult, vars
  <2> QED BY <1>2, <2>1, <2>2
<1>6. ASSUME NEW t \in Terminal, NEW op \in {"install", "remove"}, NEW a \in App, Type(t, op, a)
      PROVE  ServiceInv' /\ EntryMatchesTree' /\ AnswersAreTrue'
  BY <1>3, <1>6 DEF Type
<1>7. ASSUME NEW t \in Terminal, Call(t)
      PROVE  ServiceInv' /\ EntryMatchesTree' /\ AnswersAreTrue'
  BY <1>2, <1>3, <1>7, CallSends
<1>8. ASSUME NEW t \in Terminal, GiveUp(t)
      PROVE  ServiceInv' /\ EntryMatchesTree' /\ AnswersAreTrue'
  BY <1>4, <1>8 DEF GiveUp
<1>9. CASE NewSession
  BY <1>4, <1>9 DEF NewSession
<1>10. CASE ServiceDies
  <2>1. UNCHANGED <<dest, entry, unfinished>> /\ at' = "idle"
    BY <1>10 DEF ServiceDies
  <2> QED BY <2>1 DEF ServiceInv, EntryMatchesTree, AnswersAreTrue, diskVars, Usable, CanStart,
                      Installing, Changing
<1>11. CASE ServiceStarts \/ UNCHANGED vars
  BY <1>3, <1>11 DEF ServiceStarts, vars
<1> QED BY <1>1, <1>5, <1>6, <1>7, <1>8, <1>9, <1>10, <1>11 DEF Next

-----------------------------------------------------------------------------
(* The senders. *)

LEMMA Queued ==
  ASSUME TypeOK
  PROVE  /\ Len(queue) \in Nat /\ queue \in Seq(Request)
         /\ \A i \in 1..Len(queue) : /\ queue[i] \in Request /\ queue[i].app \in App
                                     /\ queue[i].from \in Terminal \cup {"card", "nobody"}
<1>1. queue \in Seq(Request)
  BY DEF TypeOK
<1>2. Len(queue) \in Nat /\ \A i \in 1..Len(queue) : queue[i] \in Request
  BY <1>1
<1>3. \A q \in Request : q.app \in App /\ q.from \in Terminal \cup {"card", "nobody"}
  BY DEF Request
<1> QED BY <1>1, <1>2, <1>3

(* The head is answered. *)
LEMMA AnswerKeepsSenders ==
  ASSUME TypeOK, ServiceInv, SenderInv, CardInv, Answer \/ AnswerList
  PROVE  SenderInv' /\ CardInv'
<1> USE Queued, TerminalAssumption
<1>1. queue # <<>> /\ queue' = Tail(queue)
  BY DEF Answer, AnswerList, ServiceInv
<1>2. /\ Len(queue') \in Nat /\ Len(queue') = Len(queue) - 1
      /\ \A i \in 1..Len(queue') : queue'[i] = queue[i + 1] /\ i + 1 \in 1..Len(queue)
      /\ 1 \in 1..Len(queue) /\ Req = queue[1]
  BY <1>1 DEF Req
<1>3. \A i \in 1..Len(queue') :
        ~(queue'[i].from = Req.from /\ Req.from # "nobody" /\ (Req.from = "card" => queue'[i].app = this))
  BY <1>2 DEF SenderInv, this
<1>4. /\ card' = card
      /\ \A t \in Terminal : Req.from # t => cli'[t] = cli[t]
      /\ \A a \in App : ~(Req.from = "card" /\ this = a) => reply'[a] = reply[a]
  BY DEF Answer, AnswerList, TypeOK
<1>5. SenderInv'
  <2>1. ASSUME NEW i \in 1..Len(queue')
        PROVE  /\ queue'[i].from \in Terminal => cli'[queue'[i].from] \in Command
                    /\ cli'[queue'[i].from].at = IF queue'[i].op = "list" THEN "list" ELSE "wait"
               /\ queue'[i].from = "card" =>
                    /\ queue'[i].op = "install"
                    /\ card'[queue'[i].app] = "Installing" /\ reply'[queue'[i].app] = "none"
    <3>1. queue'[i] = queue[i + 1] /\ i + 1 \in 1..Len(queue)
      BY <1>2
    <3>2. queue'[i].from \in Terminal => cli'[queue'[i].from] = cli[queue'[i].from]
      BY <1>3, <1>4, <2>1
    <3>3. queue'[i].from = "card" => reply'[queue'[i].app] = reply[queue'[i].app]
      BY <1>3, <1>4, <2>1, <3>1
    <3> QED BY <1>4, <3>1, <3>2, <3>3 DEF SenderInv
  <2>2. ASSUME NEW i \in 1..Len(queue'), NEW j \in 1..Len(queue'),
               queue'[i].from = queue'[j].from, queue'[i].from # "nobody",
               queue'[i].from = "card" => queue'[i].app = queue'[j].app
        PROVE  i = j
    BY <1>2, <2>2 DEF SenderInv
  <2> QED BY <2>1, <2>2 DEF SenderInv
<1>6. ASSUME NEW a \in App
      PROVE  /\ reply'[a] # "none" => card'[a] = "Installing"
             /\ card'[a] = "Installing" /\ reply'[a] = "none" =>
                  \E i \in 1..Len(queue') : queue'[i] = FromCard(a)
  <2>1. CASE Req.from = "card" /\ this = a
    <3>1. card[a] = "Installing"
      BY <1>2, <2>1 DEF SenderInv, this
    <3>2. Req.op = "install"
      BY <1>2, <2>1 DEF SenderInv
    <3>3. reply'[a] # "none"
      BY <2>1, <3>2 DEF Answer, AnswerList, TypeOK
    <3> QED BY <1>4, <3>1, <3>3
  <2>2. CASE ~(Req.from = "card" /\ this = a)
    <3>1. reply'[a] = reply[a]
      BY <1>4, <2>2
    <3>2. ASSUME card[a] = "Installing", reply[a] = "none"
          PROVE  \E i \in 1..Len(queue') : queue'[i] = FromCard(a)
      <4>1. PICK i \in 1..Len(queue) : queue[i] = FromCard(a)
        BY <3>2 DEF CardInv
      <4>2. i # 1
        BY <1>2, <2>2, <4>1 DEF FromCard, this
      <4>3. i - 1 \in 1..Len(queue') /\ (i - 1) + 1 = i
        BY <1>2, <4>1, <4>2
      <4> QED BY <1>2, <4>1, <4>3
    <3> QED BY <1>4, <3>1, <3>2 DEF CardInv
  <2> QED BY <2>1, <2>2
<1> QED BY <1>5, <1>6 DEF CardInv

(* A sender without a request sends one. *)
LEMMA AppendKeepsSenders ==
  ASSUME TypeOK, SenderInv, CardInv, NEW r \in Request, queue' = Append(queue, r),
         \A i \in 1..Len(queue) :
           ~(queue[i].from = r.from /\ (r.from = "card" => queue[i].app = r.app)),
         r.from \in Terminal => cli'[r.from] \in Command
           /\ cli'[r.from].at = IF r.op = "list" THEN "list" ELSE "wait",
         r.from = "card" => /\ r = FromCard(r.app)
                            /\ card'[r.app] = "Installing" /\ reply'[r.app] = "none",
         r.from \in Terminal \cup {"card"},
         \A t \in Terminal : t # r.from => cli'[t] = cli[t],
         \A a \in App : \/ r.from = "card" /\ a = r.app
                        \/ card'[a] = card[a] /\ reply'[a] = reply[a]
  PROVE  SenderInv' /\ CardInv'
<1> USE Queued, TerminalAssumption
<1> DEFINE n == Len(queue)
<1>1. /\ n \in Nat /\ Len(queue') = n + 1 /\ queue'[n + 1] = r
      /\ \A i \in 1..n : queue'[i] = queue[i]
      /\ \A i \in 1..(n + 1) : i \in 1..n \/ i = n + 1
  OBVIOUS
<1> HIDE DEF n
<1>2. \A i \in 1..n : queue[i].from \in Terminal \cup {"card", "nobody"} /\ queue[i].app \in App
  BY DEF n
<1>3. \A i \in 1..n : /\ queue[i].from \in Terminal => cli'[queue[i].from] = cli[queue[i].from]
                     /\ queue[i].from = "card" => card'[queue[i].app] = card[queue[i].app]
                                                 /\ reply'[queue[i].app] = reply[queue[i].app]
  BY <1>2 DEF n
<1>4. SenderInv'
  <2>1. ASSUME NEW i \in 1..(n + 1)
        PROVE  /\ queue'[i].from \in Terminal => cli'[queue'[i].from] \in Command
                    /\ cli'[queue'[i].from].at = IF queue'[i].op = "list" THEN "list" ELSE "wait"
               /\ queue'[i].from = "card" =>
                    /\ queue'[i].op = "install"
                    /\ card'[queue'[i].app] = "Installing" /\ reply'[queue'[i].app] = "none"
    <3>1. CASE i \in 1..n
      BY <1>1, <1>3, <3>1 DEF SenderInv, n
    <3>2. CASE i = n + 1
      <4>1. r.from = "card" => r.op = "install"
        BY DEF FromCard
      <4> QED BY <1>1, <3>2, <4>1
    <3> QED BY <1>1, <3>1, <3>2
  <2>2. ASSUME NEW i \in 1..(n + 1), NEW j \in 1..(n + 1),
               queue'[i].from = queue'[j].from, queue'[i].from # "nobody",
               queue'[i].from = "card" => queue'[i].app = queue'[j].app
        PROVE  i = j
    <3>1. CASE i \in 1..n /\ j \in 1..n
      BY <1>1, <2>2, <3>1 DEF SenderInv, n
    <3>2. CASE i = n + 1 /\ j \in 1..n
      BY <1>1, <2>2, <3>2 DEF n
    <3>3. CASE i \in 1..n /\ j = n + 1
      BY <1>1, <2>2, <3>3 DEF n
    <3> QED BY <1>1, <3>1, <3>2, <3>3
  <2> QED BY <1>1, <2>1, <2>2 DEF SenderInv
<1>5. ASSUME NEW a \in App
      PROVE  /\ reply'[a] # "none" => card'[a] = "Installing"
             /\ card'[a] = "Installing" /\ reply'[a] = "none" =>
                  \E i \in 1..Len(queue') : queue'[i] = FromCard(a)
  <2>1. CASE r.from = "card" /\ a = r.app
    <3>1. n + 1 \in 1..Len(queue') /\ queue'[n + 1] = FromCard(a)
      BY <1>1, <2>1
    <3> QED BY <2>1, <3>1
  <2>2. CASE card'[a] = card[a] /\ reply'[a] = reply[a]
    <3>1. ASSUME card[a] = "Installing", reply[a] = "none"
          PROVE  \E i \in 1..Len(queue') : queue'[i] = FromCard(a)
      <4>1. PICK i \in 1..n : queue[i] = FromCard(a)
        BY <3>1 DEF CardInv, n
      <4>2. i \in 1..Len(queue') /\ queue'[i] = FromCard(a)
        BY <1>1, <4>1
      <4> QED BY <4>2
    <3> QED BY <2>2, <3>1 DEF CardInv
  <2> QED BY <2>1, <2>2
<1> QED BY <1>4, <1>5 DEF CardInv

(* A sender is gone. *)
LEMMA OrphanedKeepsSenders ==
  ASSUME TypeOK, SenderInv, NEW gone, queue' = Orphaned(gone),
         \A t \in Terminal : t \in gone \/ cli'[t] = cli[t],
         "card" \in gone \/ UNCHANGED <<card, reply>>
  PROVE  SenderInv'
<1> USE Queued, TerminalAssumption
<1>1. DOMAIN queue = 1..Len(queue) /\ Len(queue') = Len(queue)
  <2>1. \A q \in Request : [q EXCEPT !.from = "nobody"] \in Request
    BY DEF Request
  <2>2. DOMAIN queue = 1..Len(queue) /\ \A i \in 1..Len(queue) : queue[i] \in Request
    OBVIOUS
  <2>3. Orphaned(gone) \in [1..Len(queue) -> Request]
    BY <2>1, <2>2 DEF Orphaned
  <2> QED BY <2>2, <2>3
<1>2. ASSUME NEW i \in 1..Len(queue)
      PROVE  queue'[i].from = "nobody" \/ (queue'[i] = queue[i] /\ queue[i].from \notin gone)
  <2>1. CASE queue[i].from \in gone
    <3>1. queue'[i] = [queue[i] EXCEPT !.from = "nobody"]
      BY <1>1, <2>1 DEF Orphaned
    <3>2. \A q \in Request : [q EXCEPT !.from = "nobody"].from = "nobody"
      BY DEF Request
    <3> QED BY <3>1, <3>2
  <2>2. CASE queue[i].from \notin gone
    BY <1>1, <2>2 DEF Orphaned
  <2> QED BY <2>1, <2>2
<1>3. \A i \in 1..Len(queue') : \/ queue'[i].from = "nobody"
                                \/ queue'[i] = queue[i] /\ queue[i].from \notin gone
  BY <1>1, <1>2
<1> QED BY <1>1, <1>3 DEF SenderInv

LEMMA SendersKept ==
  ASSUME TypeOK, ServiceInv, SenderInv, CardInv, [Next]_vars
  PROVE  SenderInv' /\ CardInv'
<1> USE TerminalAssumption
<1>1. CASE Serve
  <2>1. CASE Answer \/ AnswerList
    BY <2>1, AnswerKeepsSenders
  <2>2. CASE ~(Answer \/ AnswerList)
    <3>1. UNCHANGED <<queue, clientVars>>
      BY <1>1, <2>2 DEF Serve, Accept, Download, Unpack, Clear, Cleared, Fill, Filled, Look,
                        OpenEntry, WriteEntry, DropEntry, Fail
    <3> QED BY <3>1 DEF clientVars, SenderInv, CardInv
  <2> QED BY <2>1, <2>2
<1>2. ASSUME NEW a \in App, ClickGet(a) PROVE SenderInv' /\ CardInv'
  <2>1. card[a] # "Installing" /\ UNCHANGED <<cli, queue>>
    BY <1>2 DEF ClickGet
  <2>2. /\ card'[a] = "Installing" /\ reply'[a] = "connecting"
        /\ \A b \in App : b # a => card'[b] = card[b] /\ reply'[b] = reply[b]
    BY <1>2 DEF ClickGet, TypeOK
  <2>3. \A i \in 1..Len(queue) : queue[i].from = "card" => queue[i].app # a
    BY <2>1 DEF SenderInv
  <2>4. SenderInv'
    BY <2>1, <2>2, <2>3, Queued DEF SenderInv
  <2> QED BY <2>1, <2>2, <2>4 DEF CardInv
<1>10. ASSUME NEW a \in App, Connect(a) PROVE SenderInv' /\ CardInv'
  <2>1. reply[a] = "connecting" /\ card[a] = "Installing" /\ UNCHANGED <<cli, card>>
    BY <1>10 DEF Connect, CardInv
  <2>2. \A i \in 1..Len(queue) : queue[i].from = "card" => queue[i].app # a
    BY <2>1 DEF SenderInv
  <2>3. CASE queue' = Append(queue, FromCard(a)) /\ reply' = [reply EXCEPT ![a] = "none"]
    <3>1. reply'[a] = "none" /\ \A b \in App : b # a => reply'[b] = reply[b]
      BY <2>3 DEF TypeOK
    <3>2. FromCard(a) \in Request /\ FromCard(a).from = "card" /\ FromCard(a).app = a
      BY RequestFields DEF FromCard
    <3> QED BY <2>1, <2>2, <2>3, <3>1, <3>2, AppendKeepsSenders
  <2>4. CASE UNCHANGED queue /\ reply' = [reply EXCEPT ![a] = "error"]
    <3>1. reply'[a] = "error" /\ \A b \in App : b # a => reply'[b] = reply[b]
      BY <2>4 DEF TypeOK
    <3>2. SenderInv'
      BY <2>1, <2>2, <2>4, <3>1, Queued DEF SenderInv
    <3> QED BY <2>1, <2>4, <3>1, <3>2 DEF CardInv
  <2> QED BY <1>10, <2>3, <2>4 DEF Connect
<1>3. ASSUME NEW a \in App, ApplyResult(a) PROVE SenderInv' /\ CardInv'
  <2>1. reply[a] # "none" /\ UNCHANGED <<queue, cli>>
    BY <1>3 DEF ApplyResult
  <2>2. /\ reply'[a] = "none" /\ card'[a] # "Installing"
        /\ \A b \in App : b # a => card'[b] = card[b] /\ reply'[b] = reply[b]
    BY <1>3 DEF ApplyResult, TypeOK
  <2>3. \A i \in 1..Len(queue) : queue[i].from = "card" => queue[i].app # a
    BY <2>1 DEF SenderInv
  <2>4. SenderInv'
    BY <2>1, <2>2, <2>3, Queued DEF SenderInv
  <2> QED BY <2>1, <2>2, <2>4 DEF CardInv
<1>4. ASSUME NEW t \in Terminal, NEW op \in {"install", "remove"}, NEW a \in App, Type(t, op, a)
      PROVE SenderInv' /\ CardInv'
  <2>1. \A i \in 1..Len(queue) : queue[i].from # t
    <3>1. cli[t] = Prompt /\ Prompt \notin Command
      BY <1>4 DEF Type, Prompt, Command, Calling
    <3> QED BY <3>1 DEF SenderInv
  <2>2. UNCHANGED <<queue, card, reply>> /\ \A u \in Terminal : u # t => cli'[u] = cli[u]
    BY <1>4 DEF Type, TypeOK
  <2> QED BY <2>1, <2>2 DEF SenderInv, CardInv
<1>5. ASSUME NEW t \in Terminal, Call(t) PROVE SenderInv' /\ CardInv'
  <2>1. cli[t].at \in Calling /\ UNCHANGED <<card, reply>>
    BY <1>5, CallSends
  <2>2. \A i \in 1..Len(queue) : queue[i].from # t
    BY <2>1 DEF SenderInv, Calling
  <2>3. CASE /\ queue' = Append(queue, Sent(t)) /\ cli'[t] \in Command
             /\ cli'[t].at = IF Sent(t).op = "list" THEN "list" ELSE "wait"
             /\ \A u \in Terminal : u # t => cli'[u] = cli[u]
    <3>1. Sent(t) \in Request /\ Sent(t).from = t
      BY <1>5, CallSends
    <3> QED BY <2>1, <2>2, <2>3, <3>1, AppendKeepsSenders
  <2>4. CASE UNCHANGED queue /\ cli' = [cli EXCEPT ![t] = Prompt]
    <3>1. \A u \in Terminal : u # t => cli'[u] = cli[u]
      BY <2>4 DEF TypeOK
    <3> QED BY <2>1, <2>2, <2>4, <3>1 DEF SenderInv, CardInv
  <2> QED BY <1>5, <2>3, <2>4, CallSends
<1>6. ASSUME NEW t \in Terminal, GiveUp(t) PROVE SenderInv' /\ CardInv'
  <2>1. queue' = Orphaned({t}) /\ UNCHANGED <<card, reply>>
        /\ \A u \in Terminal : u # t => cli'[u] = cli[u]
    BY <1>6 DEF GiveUp, TypeOK
  <2>2. SenderInv'
    BY <2>1, OrphanedKeepsSenders
  <2>3. ASSUME NEW a \in App, NEW i \in 1..Len(queue), queue[i] = FromCard(a)
        PROVE  i \in 1..Len(queue') /\ queue'[i] = FromCard(a)
    <3>1. FromCard(a).from \notin {t}
      BY DEF FromCard
    <3>2. i \in DOMAIN queue /\ DOMAIN queue = 1..Len(queue)
      BY Queued
    <3>3. queue'[i] = queue[i] /\ Len(queue') = Len(queue)
      BY <2>1, <2>3, <3>1, <3>2, Queued DEF Orphaned
    <3> QED BY <2>3, <3>3
  <2>4. CardInv'
    BY <2>1, <2>3 DEF CardInv
  <2> QED BY <2>2, <2>4
<1>7. CASE NewSession
  <2>1. SenderInv'
    BY <1>7, OrphanedKeepsSenders DEF NewSession
  <2>2. CardInv'
    BY <1>7 DEF NewSession, CardInv, NewCard
  <2> QED BY <2>1, <2>2
<1>8. CASE ServiceDies
  <2>1. queue' = <<>> /\ card' = card
        /\ reply' = [a \in App |-> IF card[a] = "Installing" /\ reply[a] = "none"
                                   THEN "error" ELSE reply[a]]
    BY <1>8 DEF ServiceDies
  <2> QED BY <2>1 DEF SenderInv, CardInv
<1>9. CASE ServiceStarts \/ UNCHANGED vars \/ (\E a \in App : ClickOpen(a))
  BY <1>9 DEF ServiceStarts, ClickOpen, vars, clientVars, SenderInv, CardInv
<1> QED BY <1>1, <1>2, <1>3, <1>4, <1>5, <1>6, <1>7, <1>8, <1>9, <1>10 DEF Next

-----------------------------------------------------------------------------
(* The invariant holds, for any catalog, terminals, backlog and bounds. *)
THEOREM Invariant == Spec => []IInv
<1>1. IInv /\ [Next]_vars => IInv'
  BY TypesKept, ServiceKept, SendersKept DEF IInv
<1> QED BY Initially, <1>1, PTL DEF Spec

(* Every variable keeps its type. *)
THEOREM TypeCorrect == Spec => []TypeOK
<1>1. IInv => TypeOK
  BY DEF IInv
<1> QED BY Invariant, <1>1, PTL

(* A grey card has exactly one request or result outstanding, others none: no
   answer reaches a card that did not ask (store_worker, store_apply_result). *)
THEOREM OneRequestPerClick == Spec => []GreyMeansPending
<1>1. ASSUME IInv, NEW a \in App
      PROVE  /\ card[a] # "Installing" => Pending(a) = {} /\ reply[a] = "none"
             /\ card[a] = "Installing" =>
                  IF reply[a] # "none" THEN Pending(a) = {}
                                       ELSE \E i \in DOMAIN queue : Pending(a) = {i}
  <2>1. DOMAIN queue = 1..Len(queue) /\ FromCard(a).from = "card" /\ FromCard(a).app = a
    BY <1>1, Queued DEF IInv, FromCard
  <2>2. \A i \in 1..Len(queue) : queue[i] = FromCard(a) =>
          card[a] = "Installing" /\ reply[a] = "none"
    BY <1>1, <2>1 DEF IInv, SenderInv
  <2>3. \A i, j \in 1..Len(queue) : queue[i] = FromCard(a) /\ queue[j] = FromCard(a) => i = j
    BY <1>1, <2>1 DEF IInv, SenderInv
  <2>4. card[a] # "Installing" => reply[a] = "none"
    BY <1>1 DEF IInv, CardInv
  <2>5. card[a] = "Installing" /\ reply[a] = "none" => \E i \in DOMAIN queue : Pending(a) = {i}
    <3>1. SUFFICES ASSUME card[a] = "Installing", reply[a] = "none"
                   PROVE  \E i \in DOMAIN queue : Pending(a) = {i}
      OBVIOUS
    <3>2. PICK i \in 1..Len(queue) : queue[i] = FromCard(a)
      BY <1>1, <3>1 DEF IInv, CardInv
    <3>3. Pending(a) = {i}
      BY <2>1, <2>3, <3>2 DEF Pending
    <3> QED BY <2>1, <3>3
  <2> QED BY <2>1, <2>2, <2>4, <2>5 DEF Pending
<1>2. IInv => GreyMeansPending
  BY <1>1 DEF GreyMeansPending
<1> QED BY Invariant, <1>2, PTL

(* Once requests have finished, and none of them has ignored an error, an entry
   of the launcher and a complete tree go together (store_install, _install_deb,
   store_remove). *)
THEOREM EntriesMatchTrees == Spec => []EntryMatchesTree
<1>1. IInv => EntryMatchesTree
  BY DEF IInv
<1> QED BY Invariant, <1>1, PTL

(* An "ok" to an install always means an entry that can start something; that
   it is the new tree, and whole, or that a removal left nothing, it means
   unless an error of rmtree or of the removal of the entry was ignored. *)
THEOREM TrueAnswers == Spec => []AnswersAreTrue
<1>1. IInv => AnswersAreTrue
  BY DEF IInv
<1> QED BY Invariant, <1>1, PTL

(* An installed image is only given up for a replacement that has been
   unpacked, or on removal (store_install clears after --appimage-extract). *)
THEOREM ImagesSurvive == Spec => OldImageSurvives
<1>1. IInv /\ [Next]_vars =>
        [\A a \in App \ Deb : dest[a] = "image" /\ dest'[a] # "image"
           => Req.op = "remove" \/ work = "tree"]_vars
  <2>1. SUFFICES ASSUME IInv, Next, NEW a \in App \ Deb, dest[a] = "image", dest'[a] # "image"
                 PROVE  Req.op = "remove" \/ work = "tree"
    OBVIOUS
  <2>2. CASE Clear \/ Cleared \/ Fill \/ Filled
    <3>1. queue # <<>> /\ Req.op \in {"install", "remove"} /\ this = a
      <4>1. queue # <<>> /\ Req.op # "list"
        BY <2>1, <2>2 DEF IInv, ServiceInv, Clear, Cleared, Fill, Filled, Step
      <4>2. Req.op \in {"install", "remove", "list"} /\ this \in App
        BY <2>1, <4>1, HeadIsRequest DEF IInv, Request
      <4>3. this = a
        BY <2>1, <2>2, <4>2 DEF IInv, TypeOK, Clear, Cleared, Fill, Filled
      <4> QED BY <4>1, <4>2, <4>3
    <3> QED BY <2>1, <2>2, <3>1 DEF IInv, ServiceInv, Clear, Cleared, Fill, Filled, Step
  <2>3. CASE ~(Clear \/ Cleared \/ Fill \/ Filled)
    <3>1. dest' = dest
      BY <2>1, <2>3 DEF Next, Serve, Accept, Download, Unpack, Look, OpenEntry, WriteEntry,
           DropEntry, Fail, Answer, AnswerList, ClickGet, Connect, ClickOpen, ApplyResult, Type, Call,
           GiveUp, ServiceStarts, ServiceDies, NewSession, diskVars, vars
    <3> QED BY <2>1, <3>1
  <2> QED BY <2>2, <2>3
<1> QED BY Invariant, <1>1, PTL DEF Spec, OldImageSurvives

-----------------------------------------------------------------------------
(* How long a request of a card may wait. *)

LEMMA Phases ==
  /\ StepsOf("idle") = 11 /\ StepsOf("fetch") = 10 /\ StepsOf("unpack") = 9
  /\ StepsOf("clear") = 8 /\ StepsOf("cleared") = 7 /\ StepsOf("fill") = 6
  /\ StepsOf("filled") = 5 /\ StepsOf("look") = 4 /\ StepsOf("entry") = 3
  /\ StepsOf("writing") = 2 /\ StepsOf("drop") = 2
  /\ StepsOf("done") = 1 /\ StepsOf("failed") = 1
  BY DEF StepsOf

(* Each step of the service leads to a later one of the same request. *)
LEMMA ServingAdvances ==
  ASSUME Serve, ~Answer, ~AnswerList
  PROVE  /\ UNCHANGED <<queue, card, reply>>
         /\ StepsOf(at) \in Nat /\ StepsOf(at') \in Nat /\ StepsOf(at') < StepsOf(at)
<1> USE Phases DEF Serve, Step, clientVars
<1>1. CASE Accept  BY <1>1 DEF Accept
<1>2. CASE Download  BY <1>2 DEF Download
<1>3. CASE Unpack  BY <1>3 DEF Unpack
<1>4. CASE Clear  BY <1>4 DEF Clear
<1>5. CASE Cleared
  <2>1. at = "cleared" /\ at' \in {"drop", "fill"} /\ UNCHANGED <<queue, clientVars>>
    BY <1>5 DEF Cleared
  <2> QED BY <2>1
<1>6. CASE Fill
  <2>1. at = "fill" /\ at' = "filled" /\ UNCHANGED <<queue, clientVars>>
    BY <1>6 DEF Fill
  <2> QED BY <2>1
<1>7. CASE Filled
  <2>1. at = "filled" /\ at' = "look" /\ UNCHANGED <<queue, clientVars>>
    BY <1>7 DEF Filled
  <2> QED BY <2>1
<1>8. CASE Look
  <2>1. at = "look" /\ at' \in {"failed", "entry"} /\ UNCHANGED <<queue, clientVars>>
    BY <1>8 DEF Look
  <2> QED BY <2>1
<1>9. CASE OpenEntry  BY <1>9 DEF OpenEntry
<1>10. CASE WriteEntry  BY <1>10 DEF WriteEntry
<1>11. CASE DropEntry  BY <1>11 DEF DropEntry
<1>12. CASE Fail  BY <1>12 DEF Fail
<1> QED BY <1>1, <1>2, <1>3, <1>4, <1>5, <1>6, <1>7, <1>8, <1>9, <1>10, <1>11, <1>12

(* An answer takes the head, and the rest moves up. *)
LEMMA AnswerAdvances ==
  ASSUME IInv, Answer \/ AnswerList, NEW a \in App, NEW i \in Pending(a), reply'[a] = "none"
  PROVE  /\ i - 1 \in Pending(a)'
         /\ StepsTo(i - 1, at') < StepsTo(i, at)
<1>1. queue \in Seq(Request) /\ i \in 1..Len(queue) /\ queue[i] = FromCard(a)
  BY DEF IInv, TypeOK, Pending
<1>2. queue # <<>> /\ queue' = Tail(queue) /\ Req = queue[1]
  <2>1. queue # <<>> /\ queue' = Tail(queue)
    BY DEF Answer, AnswerList, IInv, ServiceInv
  <2> QED BY <1>1, <2>1 DEF Req
<1>3. i # 1
  <2>1. SUFFICES ASSUME i = 1 PROVE FALSE  OBVIOUS
  <2>2. Req.op = "install" /\ Req.from = "card" /\ this = a
    BY <1>1, <1>2, <2>1 DEF FromCard, this
  <2>3. Answer
    BY <2>2 DEF AnswerList
  <2>4. reply'[a] \in {"ok", "error"}
    BY <2>2, <2>3 DEF Answer, IInv, TypeOK
  <2> QED BY <2>4
<1>4. i - 1 \in 1..Len(queue') /\ queue'[i - 1] = queue[i] /\ queue' \in Seq(Request)
  BY <1>1, <1>2, <1>3
<1>5. i - 1 \in Pending(a)'
  BY <1>1, <1>4 DEF Pending
<1>6. StepsOf(at') = 11 /\ StepsOf(at) \in Nat /\ StepsOf(at) >= 1
  BY Phases DEF Answer, AnswerList
<1>7. StepsTo(i - 1, at') < StepsTo(i, at)
  <2> DEFINE m == StepsOf(at)
             n == StepsOf(at')
  <2>1. i \in Int /\ m \in Nat /\ m >= 1 /\ n = 11
    BY <1>1, <1>6
  <2> HIDE DEF m, n
  <2>2. 11 * ((i - 1) - 1) + n < 11 * (i - 1) + m
    BY <2>1
  <2> QED BY <2>2 DEF StepsTo, m, n
<1> QED BY <1>5, <1>7

(* Whoever comes stands behind, and whoever leaves keeps his place. *)
LEMMA OthersWait ==
  ASSUME IInv, Next, ~Serve, NEW a \in App, NEW i \in Pending(a),
         reply'[a] = "none", card'[a] = "Installing"
  PROVE  i \in Pending(a)' /\ at' = at
<1> USE TerminalAssumption
<1>1. queue \in Seq(Request) /\ i \in 1..Len(queue) /\ queue[i] = FromCard(a)
      /\ DOMAIN queue = 1..Len(queue)
  BY DEF IInv, TypeOK, Pending
<1>2. card[a] = "Installing" /\ reply[a] = "none"
  BY <1>1 DEF IInv, SenderInv, FromCard
<1>3. ASSUME at' = at, queue' = queue \/ (\E r \in Request : queue' = Append(queue, r))
      PROVE  i \in Pending(a)' /\ at' = at
  <2>1. i \in 1..Len(queue') /\ queue'[i] = queue[i] /\ queue' \in Seq(Request)
    BY <1>1, <1>3
  <2> QED BY <1>1, <1>3, <2>1 DEF Pending
<1>4. ASSUME at' = at, NEW gone, "card" \notin gone, queue' = Orphaned(gone)
      PROVE  i \in Pending(a)' /\ at' = at
  <2>1. i \in DOMAIN queue' /\ queue'[i] = queue[i]
    BY <1>1, <1>4 DEF Orphaned, FromCard
  <2> QED BY <1>1, <1>4, <2>1 DEF Pending
<1>5. ASSUME NEW b \in App, ClickGet(b) \/ Connect(b) \/ ClickOpen(b) \/ ApplyResult(b)
      PROVE  i \in Pending(a)' /\ at' = at
  <2>1. FromCard(b) \in Request
    BY RequestFields DEF FromCard
  <2> QED BY <1>3, <1>5, <2>1 DEF ClickGet, Connect, ClickOpen, ApplyResult, vars
<1>6. ASSUME NEW t \in Terminal, NEW op \in {"install", "remove"}, NEW b \in App,
             Type(t, op, b)
      PROVE  i \in Pending(a)' /\ at' = at
  BY <1>3, <1>6 DEF Type
<1>7. ASSUME NEW t \in Terminal, GiveUp(t) PROVE i \in Pending(a)' /\ at' = at
  <2>1. at' = at /\ "card" \notin {t} /\ queue' = Orphaned({t})
    BY <1>7 DEF GiveUp
  <2> QED BY <1>4, <2>1
<1>8. CASE ServiceStarts
  BY <1>3, <1>8 DEF ServiceStarts
<1>9. ~ServiceDies
  BY <1>2 DEF ServiceDies
<1>10. ~NewSession
  BY DEF NewSession, NewCard
<1>11. ASSUME NEW t \in Terminal, Call(t) PROVE i \in Pending(a)' /\ at' = at
  BY <1>3, <1>11, CallSends DEF IInv
<1> QED BY <1>5, <1>6, <1>7, <1>8, <1>9, <1>10, <1>11 DEF Next

(* No card whose connection the kernel took is overtaken, whatever the backlog,
   and each step of the service brings its answer closer (store_worker waits for
   the one answer to its one request).  A card that finds the backlog full has no
   place yet: it is given one, or an error. *)
THEOREM NobodyOvertakes == Spec => ServedInTurn
<1>1. ASSUME IInv, Next, NEW a \in App, NEW i \in Pending(a),
             reply'[a] = "none", card'[a] = "Installing"
      PROVE  \E j \in Pending(a)' : IF Serve THEN StepsTo(j, at') < StepsTo(i, at)
                                             ELSE StepsTo(j, at') = StepsTo(i, at)
  <2>1. CASE Serve /\ (Answer \/ AnswerList)
    BY <1>1, <2>1, AnswerAdvances
  <2>2. CASE Serve /\ ~Answer /\ ~AnswerList
    <3> DEFINE m == StepsOf(at)
               n == StepsOf(at')
    <3>1. i \in Pending(a)' /\ i \in Int
      <4>1. queue' = queue /\ queue \in Seq(Request)
        BY <1>1, <2>2, ServingAdvances DEF IInv, TypeOK
      <4> QED BY <1>1, <4>1 DEF Pending
    <3>2. m \in Nat /\ n \in Nat /\ n < m
      BY <2>2, ServingAdvances
    <3> HIDE DEF m, n
    <3>3. 11 * (i - 1) + n < 11 * (i - 1) + m
      BY <3>1, <3>2
    <3>4. StepsTo(i, at') < StepsTo(i, at)
      BY <3>3 DEF StepsTo, m, n
    <3> QED BY <2>2, <3>1, <3>4
  <2>3. CASE ~Serve
    BY <1>1, <2>3, OthersWait
  <2> QED BY <2>1, <2>2, <2>3
<1>2. IInv /\ [Next]_vars =>
        [\A a \in App : \A i \in Pending(a) :
           \/ reply'[a] # "none" \/ card'[a] # "Installing"
           \/ \E j \in Pending(a)' :
                IF Serve THEN StepsTo(j, at') < StepsTo(i, at)
                         ELSE StepsTo(j, at') = StepsTo(i, at)]_vars
  BY <1>1
<1> QED BY Invariant, <1>2, PTL DEF Spec, ServedInTurn
=============================================================================
