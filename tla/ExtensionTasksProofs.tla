------------------------ MODULE ExtensionTasksProofs ------------------------
(***************************************************************************)
(* Theorems about ExtensionTasks, for any number of tasks and keys, any    *)
(* capacity of the channel and however much the children print.  A step    *)
(* of one task leaves what is the others' alone, but for the claims.       *)
(***************************************************************************)
EXTENDS ExtensionTasks, SequenceTheorems, TLAPS

\* A claim is held under the claimant's key.
ClaimsAreOwn ==
  \A k \in Keys : singletons[k] # NoTask => KeyOf[singletons[k]] = k

\* Where the page is, and where its request or its answer.
PageFits(t) ==
  /\ page[t] = "idle" => stream[t] = "none"
  /\ page[t] = "posting" => stream[t] \in {"starting", "open"}
  /\ page[t] = "reading" => stream[t] = "open"
  /\ t \in terminalSeen => page[t] \in Settled

\* Before its child is spawned, a task has no lines and no events.
Fresh(t) ==
  /\ stream[t] \in {"none", "starting", "refused"} => pump[t] = "none"
  /\ pump[t] \in {"none", "prepare"} =>
       /\ sent[t] = <<>> /\ chan[t] = <<>> /\ out[t] = <<>>
       /\ said[t] = 0 /\ child[t] = "none"

EndsWell(q) == q # <<>> /\ Terminal(q[Len(q)])

\* A pump that is over has left a terminal event, and only then goes over.
AnswerComing(t) ==
  /\ pump[t] = "send" => (pending[t].next # "select" <=> Terminal(pending[t].event))
  /\ stream[t] = "open" /\ pump[t] \in {"kill", "done"} =>
       t \in terminalSeen \/ EndsWell(chan[t])

\* Event e can be the k-th of its stream.
InPlace(e, k) == (e.kind = "log" => e.n = k) /\ (e.kind = "result" => e.n = k - 1)

\* What a child in state c, that logged n times, printed after its first b events.
OutAt(c, o, n, b) ==
  /\ c = "booting" => o = <<>> /\ n = 0 /\ b = 0
  /\ c = "ready" => n = 0 /\ b = 0 /\ Len(o) = 1 /\ o[1] \in InitLines
  /\ c = "running" => Len(o) + b = n /\ \A i \in 1..Len(o) : o[i].kind = "log"
  /\ c = "answered" => \E i \in 1..Len(o) : Terminal(o[i])
  /\ \A i \in 1..Len(o) : o[i] \in InitLines => Len(o) = 1
  /\ \A i \in 1..Len(o) : (\A j \in 1..i-1 : ~Terminal(o[j])) => InPlace(o[i], b + i)

SentAt(s) ==
  \A i \in 1..Len(s) : InPlace(s[i], i) /\ (Terminal(s[i]) => i = Len(s))

\* The events s given out, those in the channel q, the pump p, the event r it
\* sends, and the child behind it.
FlowAt(p, r, s, q, c, o, n) ==
  /\ q # <<>> \/ p \in {"prepare", "select", "send"} =>
       \A i \in 1..Len(s) : ~Terminal(s[i])
  /\ \A i \in 1..Len(q) :
       /\ InPlace(q[i], Len(s) + i)
       /\ Terminal(q[i]) => i = Len(q) /\ p \in {"kill", "done"}
  /\ p = "send" => InPlace(r.event, Len(s) + Len(q) + 1)
  /\ p = "select" => OutAt(c, o, n, Len(s) + Len(q))
  /\ p = "send" /\ r.next = "select" => OutAt(c, o, n, Len(s) + Len(q) + 1)

SentInPlace(t) == SentAt(sent[t])

\* From the page back to the child, as long as the stream is open.
Flow(t) ==
  stream[t] = "open" =>
    FlowAt(pump[t], pending[t], sent[t], chan[t], child[t], out[t], said[t])

InvOf(t) ==
  /\ PageFits(t) /\ page[t] # "cutOff" /\ Fresh(t) /\ AnswerComing(t)
  /\ SentInPlace(t) /\ Flow(t)

IInv ==
  /\ TypeOK /\ ClaimsAreOwn /\ ClaimsFollowStreams
  /\ \A t \in Tasks : InvOf(t)

-----------------------------------------------------------------------------
(* Types.                                                                  *)

LEMMA TypeInit == Init => TypeOK
<1> SUFFICES ASSUME Init PROVE TypeOK
  OBVIOUS
<1>1. Idle \in [event : Events, next : {"select", "kill", "done"}]
  BY DEF Idle, HostError, Events
<1>2. Len(<<>>) <= Capacity
  BY TasksAssumption
<1>3. QED
  BY <1>1, <1>2 DEF Init, TypeOK, PageStates, StreamStates, PumpPcs, ChildStates

\* What a channel hands on is an event, and a queue keeps its elements.
LEMMA Queues ==
  ASSUME NEW S, NEW q \in Seq(S), q # <<>>
  PROVE  Head(q) \in S /\ Tail(q) \in Seq(S) /\ Len(Tail(q)) = Len(q) - 1
  BY HeadTailProperties

LEMMA TypeRequest ==
  ASSUME TypeOK, NEW t \in Tasks, Post(t) \/ RequestSteps(t)
  PROVE  TypeOK'
<1>1. CASE Post(t)
  BY <1>1 DEF Post, TypeOK, PageStates, StreamStates, hostVars, pumpVars, childVars
<1>2. CASE Refuse(t)
  BY <1>2 DEF Refuse, TypeOK, PageStates, Settled, StreamStates, hostVars, pumpVars, childVars
<1>3. CASE StartAccepted(t)
  BY <1>3 DEF StartAccepted, TypeOK, StreamStates, PumpPcs, pageVars, childVars
<1>4. QED
  BY <1>1, <1>2, <1>3 DEF RequestSteps, StartRefused, StartConflicts

LEMMA TypePump ==
  ASSUME TypeOK, NEW t \in Tasks, PumpSteps(t)
  PROVE  TypeOK'
<1> USE DEF pageVars, streamVars, hostVars, pumpVars, childVars
<1>0. HostError \in Events /\ Idle \in [event : Events, next : {"select", "kill", "done"}]
  BY DEF Idle, HostError, Events
<1>1. ASSUME NEW e \in Events, NEW n \in {"select", "kill", "done"}, SendNext(t, e, n)
      PROVE  /\ pump' \in [Tasks -> PumpPcs]
             /\ pending' \in [Tasks -> [event : Events, next : {"select", "kill", "done"}]]
  BY <1>1 DEF SendNext, TypeOK, PumpPcs
<1>2. ASSUME Unread(t) PROVE out' \in [Tasks -> Seq(Lines)]
  BY <1>2 DEF Unread, TypeOK
<1>3. ASSUME NEW K, Reads(t, K), out' = [out EXCEPT ![t] = Tail(@)]
      PROVE  out' \in [Tasks -> Seq(Lines)] /\ Head(out[t]) \in Lines
  BY <1>3, Queues DEF Reads, TypeOK
<1>4. CASE PrepareFails(t)
  BY <1>0, <1>1, <1>4 DEF PrepareFails, TypeOK
<1>5. CASE SpawnChild(t)
  BY <1>5 DEF SpawnChild, TypeOK, PumpPcs, ChildStates
<1>6. CASE InitUnwritten(t)
  BY <1>0, <1>1, <1>6 DEF InitUnwritten, TypeOK, ChildStates
<1>7. CASE Send(t)
  <2>1. pending[t] \in [event : Events, next : {"select", "kill", "done"}]
    BY DEF TypeOK
  <2>2. pump' \in [Tasks -> PumpPcs] /\ pending' \in [Tasks -> [event : Events, next : {"select", "kill", "done"}]]
    BY <1>0, <1>7, <2>1 DEF Send, TypeOK, PumpPcs
  <2>3. chan' \in [Tasks -> Seq(Events)] /\ \A u \in Tasks : Len(chan'[u]) <= Capacity
    <3>1. CASE chan' = chan
      BY <3>1 DEF TypeOK
    <3>2. CASE HasRoom(t) /\ chan' = [chan EXCEPT ![t] = Append(@, pending[t].event)]
      <4>1. /\ chan[t] \in Seq(Events) /\ Len(chan[t]) \in Nat
            /\ Append(chan[t], pending[t].event) \in Seq(Events)
            /\ Len(Append(chan[t], pending[t].event)) = Len(chan[t]) + 1
        BY <2>1, AppendProperties DEF TypeOK
      <4>2. Len(chan[t]) + 1 <= Capacity
        BY <3>2, <4>1, TasksAssumption DEF HasRoom
      <4>3. QED BY <3>2, <4>1, <4>2 DEF TypeOK
    <3>3. QED BY <1>7, <3>1, <3>2 DEF Send
  <2>4. QED BY <1>7, <2>2, <2>3 DEF Send, TypeOK
<1>8. CASE Kill(t)
  BY <1>2, <1>8 DEF Kill, TypeOK, PumpPcs, ChildStates
<1>9. CASE SeesCancel(t)
  BY <1>0, <1>1, <1>2, <1>9 DEF SeesCancel, AfterCancel, TypeOK, ChildStates
<1>10. CASE ReadsInitOk(t)
  BY <1>3, <1>10 DEF ReadsInitOk, TypeOK, ChildStates
<1>11. CASE ReadsInitErr(t)
  BY <1>0, <1>1, <1>2, <1>11 DEF ReadsInitErr, TypeOK, ChildStates
<1>12. CASE ReadsLog(t)
  <2>1. Head(out[t]) \in Events /\ out' \in [Tasks -> Seq(Lines)]
    BY <1>3, <1>12 DEF ReadsLog, Reads, Lines, InitLines, Events
  <2>2. QED BY <1>1, <1>12, <2>1 DEF ReadsLog, TypeOK
<1>13. CASE ReadsAnswer(t)
  <2>1. Head(out[t]) \in Events /\ out' \in [Tasks -> Seq(Lines)]
    BY <1>3, <1>13 DEF ReadsAnswer, Reads, Lines, InitLines, Events
  <2>2. QED BY <1>1, <1>13, <2>1 DEF ReadsAnswer, AfterAnswer, TypeOK
<1>14. CASE SeesExit(t)
  BY <1>0, <1>14 DEF SeesExit, AfterExit, TypeOK, PumpPcs
<1>15. QED
  BY <1>4, <1>5, <1>6, <1>7, <1>8, <1>9, <1>10, <1>11, <1>12, <1>13, <1>14 DEF PumpSteps

LEMMA TypeChild ==
  ASSUME TypeOK, NEW t \in Tasks, ChildSteps(t)
  PROVE  TypeOK'
<1> USE DEF pageVars, streamVars, hostVars, pumpVars
<1>1. ASSUME NEW l \in Lines, Prints(t, l) PROVE out' \in [Tasks -> Seq(Lines)]
  BY <1>1, AppendProperties DEF Prints, TypeOK
<1>2. CASE ChildInit(t)
  BY <1>1, <1>2 DEF ChildInit, TypeOK, ChildStates, Lines
<1>3. CASE ChildLogs(t)
  <2>1. said[t] \in Nat /\ said[t] + 1 \in Nat
    BY DEF TypeOK
  <2>2. Log(said[t] + 1) \in Lines
    BY <2>1 DEF Log, Lines, Events
  <2>3. QED BY <1>1, <1>3, <2>1, <2>2 DEF ChildLogs, TypeOK
<1>4. CASE ChildAnswers(t)
  <2>1. \A k \in {"result", "error"} : [kind |-> k, n |-> said[t]] \in Lines
    BY DEF TypeOK, Lines, Events
  <2>2. QED BY <1>1, <1>4, <2>1 DEF ChildAnswers, TypeOK, ChildStates
<1>5. CASE ChildDies(t)
  BY <1>5 DEF ChildDies, TypeOK, ChildStates
<1>6. QED BY <1>2, <1>3, <1>4, <1>5 DEF ChildSteps

LEMMA TypeStream ==
  ASSUME TypeOK, NEW t \in Tasks, StreamSteps(t) \/ PageAborts(t) \/ CancelArrives(t)
  PROVE  TypeOK'
<1> USE DEF pageVars, streamVars, hostVars, pumpVars, childVars
<1>1. CASE ReadsStarted(t)
  BY <1>1 DEF ReadsStarted, TypeOK, PageStates
<1>2. CASE StreamYields(t)
  <2>1. Head(chan[t]) \in Events /\ Tail(chan[t]) \in Seq(Events)
        /\ Len(Tail(chan[t])) = Len(chan[t]) - 1 /\ Len(chan[t]) \in Nat
    BY <1>2, Queues DEF StreamYields, TypeOK
  <2>2. Append(sent[t], Head(chan[t])) \in Seq(Events)
    BY <2>1, AppendProperties DEF TypeOK
  <2>3. chan' \in [Tasks -> Seq(Events)] /\ \A u \in Tasks : Len(chan'[u]) <= Capacity
    BY <1>2, <2>1, TasksAssumption DEF StreamYields, TypeOK
  <2>4. sent' \in [Tasks -> Seq(Events)] /\ terminalSeen' \subseteq Tasks
    BY <1>2, <2>2 DEF StreamYields, TypeOK
  <2>5. page' \in [Tasks -> PageStates]
    BY <1>2 DEF StreamYields, TypeOK, PageStates, Settled
  <2>6. QED BY <1>2, <2>3, <2>4, <2>5 DEF StreamYields, TypeOK
<1>3. ASSUME DropStream(t), page' \in [Tasks -> PageStates] PROVE TypeOK'
  <2>1. singletons' \in [Keys -> Tasks \cup {NoTask}]
    BY <1>3 DEF DropStream, Released, TypeOK
  <2>2. chan' \in [Tasks -> Seq(Events)] /\ \A u \in Tasks : Len(chan'[u]) <= Capacity
    <3>1. <<>> \in Seq(Events) /\ Len(<<>>) <= Capacity BY TasksAssumption
    <3>2. QED BY <1>3, <3>1 DEF DropStream, TypeOK
  <2>3. QED
    BY <1>3, <2>1, <2>2 DEF DropStream, Unregistered, TypeOK, StreamStates
<1>4. CASE StreamEnds(t)
  BY <1>3, <1>4 DEF StreamEnds, TypeOK, PageStates, Settled
<1>5. CASE StreamAbandoned(t)
  BY <1>3, <1>5 DEF StreamAbandoned, TypeOK
<1>6. CASE PageAborts(t)
  BY <1>6 DEF PageAborts, TypeOK, PageStates, Settled
<1>7. CASE CancelArrives(t)
  BY <1>7 DEF CancelArrives, TypeOK
<1>8. QED BY <1>1, <1>2, <1>4, <1>5, <1>6, <1>7 DEF StreamSteps

LEMMA TypeNext == ASSUME TypeOK, [Next]_vars PROVE TypeOK'
<1>1. CASE UNCHANGED vars
  BY <1>1 DEF vars, pageVars, streamVars, hostVars, pumpVars, childVars, TypeOK
<1>2. QED
  BY <1>1, TypeRequest, TypePump, TypeChild, TypeStream DEF Next

-----------------------------------------------------------------------------
(* Claims.                                                                 *)

LEMMA ClaimsInit == Init => ClaimsFollowStreams /\ ClaimsAreOwn
  BY TasksAssumption DEF Init, ClaimsFollowStreams, ClaimsAreOwn

LEMMA ClaimsNext ==
  ASSUME TypeOK, ClaimsFollowStreams, ClaimsAreOwn, \A t \in Tasks : PageFits(t), [Next]_vars
  PROVE  ClaimsFollowStreams' /\ ClaimsAreOwn'
<1> USE DEF pageVars, streamVars, hostVars, pumpVars, childVars
<1>1. CASE UNCHANGED <<stream, singletons>>
  BY <1>1 DEF ClaimsFollowStreams, ClaimsAreOwn
<1>2. ASSUME NEW t \in Tasks, Post(t) \/ Refuse(t), stream[t] # "open"
      PROVE  ClaimsFollowStreams' /\ ClaimsAreOwn'
  BY <1>2 DEF Post, Refuse, TypeOK, ClaimsFollowStreams, ClaimsAreOwn
<1>3. ASSUME NEW t \in Tasks, StartAccepted(t) PROVE ClaimsFollowStreams' /\ ClaimsAreOwn'
  <2>1. KeyOf \in [Tasks -> Keys \cup {NoKey}] /\ NoKey \notin Keys /\ NoTask \notin Tasks
    BY TasksAssumption
  <2>2. ClaimsAreOwn'
    BY <1>3, <2>1 DEF StartAccepted, TypeOK, ClaimsAreOwn
  <2>3. ASSUME NEW u \in Tasks, KeyOf[u] # NoKey
        PROVE  stream'[u] = "open" <=> singletons'[KeyOf[u]] = u
    <3>1. KeyOf[u] \in Keys BY <2>1, <2>3
    <3>2. CASE u = t
      BY <1>3, <3>1, <3>2 DEF StartAccepted, TypeOK
    <3>3. CASE u # t /\ KeyOf[u] = KeyOf[t]
      <4>1. singletons[KeyOf[u]] = NoTask
        BY <1>3, <2>3, <3>3 DEF StartAccepted, KeyTaken
      <4>2. stream[u] # "open" BY <2>1, <2>3, <4>1 DEF ClaimsFollowStreams
      <4>3. QED BY <1>3, <3>1, <3>3, <4>2 DEF StartAccepted, TypeOK
    <3>4. CASE u # t /\ KeyOf[u] # KeyOf[t]
      BY <1>3, <2>3, <3>1, <3>4 DEF StartAccepted, TypeOK, ClaimsFollowStreams
    <3>5. QED BY <3>2, <3>3, <3>4
  <2>4. QED BY <2>2, <2>3 DEF ClaimsFollowStreams
<1>4. ASSUME NEW t \in Tasks, DropStream(t) PROVE ClaimsFollowStreams' /\ ClaimsAreOwn'
  <2>1. KeyOf \in [Tasks -> Keys \cup {NoKey}] /\ NoTask \notin Tasks
    BY TasksAssumption
  <2>2. ClaimsAreOwn'
    BY <1>4 DEF DropStream, Released, ClaimsAreOwn
  <2>3. ASSUME NEW u \in Tasks, KeyOf[u] # NoKey
        PROVE  stream'[u] = "open" <=> singletons'[KeyOf[u]] = u
    <3>1. KeyOf[u] \in Keys BY <2>1, <2>3
    <3>2. singletons'[KeyOf[u]]
            = IF singletons[KeyOf[u]] = t THEN NoTask ELSE singletons[KeyOf[u]]
      BY <1>4, <3>1 DEF DropStream, Released
    <3>3. CASE u = t
      BY <1>4, <2>1, <3>2, <3>3 DEF DropStream, TypeOK
    <3>4. CASE u # t
      BY <1>4, <2>1, <2>3, <3>2, <3>4 DEF DropStream, TypeOK, ClaimsFollowStreams
    <3>5. QED BY <3>3, <3>4
  <2>4. QED BY <2>2, <2>3 DEF ClaimsFollowStreams
<1>5. ASSUME NEW t \in Tasks, PumpSteps(t) \/ ChildSteps(t)
      PROVE  UNCHANGED <<stream, singletons>>
  BY <1>5
  DEF PumpSteps, PrepareFails, SpawnChild, InitUnwritten, Send, Kill, SeesCancel,
      ReadsInitOk, ReadsInitErr, ReadsLog, ReadsAnswer, SeesExit,
      ChildSteps, ChildInit, ChildLogs, ChildAnswers, ChildDies
<1>6. ASSUME NEW t \in Tasks, ReadsStarted(t) \/ StreamYields(t) \/ PageAborts(t) \/ CancelArrives(t)
      PROVE  UNCHANGED <<stream, singletons>>
  BY <1>6 DEF ReadsStarted, StreamYields, PageAborts, CancelArrives
<1>7. ASSUME NEW t \in Tasks, StreamEnds(t) \/ StreamAbandoned(t) PROVE DropStream(t)
  BY <1>7 DEF StreamEnds, StreamAbandoned
<1>8. CASE UNCHANGED vars
  BY <1>1, <1>8 DEF vars
<1>9. QED
  BY <1>1, <1>2, <1>3, <1>4, <1>5, <1>6, <1>7, <1>8
  DEF Next, RequestSteps, StartRefused, StartConflicts, StreamSteps, Post, PageFits

-----------------------------------------------------------------------------
(* A step of one task and the others.                                      *)

StepOf(t) ==
  \/ Post(t) \/ RequestSteps(t) \/ PumpSteps(t) \/ ChildSteps(t) \/ StreamSteps(t)
  \/ PageAborts(t) \/ CancelArrives(t)

SameAt(u) ==
  /\ page'[u] = page[u] /\ stream'[u] = stream[u] /\ sent'[u] = sent[u]
  /\ (u \in terminalSeen') = (u \in terminalSeen)
  /\ pump'[u] = pump[u] /\ pending'[u] = pending[u] /\ chan'[u] = chan[u]
  /\ child'[u] = child[u] /\ out'[u] = out[u] /\ said'[u] = said[u]

LEMMA OthersSame ==
  ASSUME TypeOK, NEW t \in Tasks, NEW u \in Tasks, u # t, StepOf(t)
  PROVE  SameAt(u)
<1> USE DEF pageVars, streamVars, hostVars, pumpVars, childVars
<1>1. CASE Post(t) \/ RequestSteps(t)
  BY <1>1 DEF Post, RequestSteps, StartRefused, StartConflicts, Refuse, StartAccepted,
              TypeOK, SameAt
<1>2. CASE PumpSteps(t)
  <2>1. CASE PrepareFails(t) \/ SpawnChild(t) \/ InitUnwritten(t) \/ Send(t) \/ Kill(t)
    BY <2>1 DEF PrepareFails, SpawnChild, InitUnwritten, Send, Kill, SendNext, Unread,
                TypeOK, SameAt
  <2>2. CASE SeesCancel(t) \/ ReadsInitOk(t) \/ ReadsInitErr(t)
    BY <2>2 DEF SeesCancel, ReadsInitOk, ReadsInitErr, SendNext, Unread, TypeOK, SameAt
  <2>3. CASE ReadsLog(t) \/ ReadsAnswer(t) \/ SeesExit(t)
    BY <2>3 DEF ReadsLog, ReadsAnswer, SeesExit, SendNext, TypeOK, SameAt
  <2>4. QED BY <1>2, <2>1, <2>2, <2>3 DEF PumpSteps
<1>3. CASE ChildSteps(t)
  BY <1>3 DEF ChildSteps, ChildInit, ChildLogs, ChildAnswers, ChildDies, Prints, TypeOK, SameAt
<1>4. CASE StreamSteps(t)
  BY <1>4 DEF StreamSteps, ReadsStarted, StreamYields, StreamEnds, StreamAbandoned, DropStream,
              TypeOK, SameAt
<1>5. CASE PageAborts(t) \/ CancelArrives(t)
  BY <1>5 DEF PageAborts, CancelArrives, TypeOK, SameAt
<1>6. QED BY <1>1, <1>2, <1>3, <1>4, <1>5 DEF StepOf

LEMMA SameKeeps ==
  ASSUME NEW u \in Tasks, InvOf(u), SameAt(u)
  PROVE  InvOf(u)'
<1>1. PageFits(u)' /\ (page[u] # "cutOff")' /\ Fresh(u)' /\ AnswerComing(u)'
  BY DEF InvOf, PageFits, Fresh, AnswerComing, SameAt
<1>2. SentInPlace(u)' /\ Flow(u)'
  BY DEF InvOf, SentInPlace, Flow, SameAt
<1>3. QED BY <1>1, <1>2 DEF InvOf

-----------------------------------------------------------------------------
(* The queues between child and page.                                      *)

Sendings == [event : Events, next : {"select", "kill", "done"}]

\* A log that is read was the first of what the child printed.
LEMMA OutRead ==
  ASSUME NEW c, NEW o \in Seq(Lines), NEW n \in Nat, NEW b \in Nat,
         OutAt(c, o, n, b), o # <<>>, Head(o).kind = "log"
  PROVE  OutAt(c, Tail(o), n, b + 1)
<1> DEFINE u == Tail(o)
<1>1. /\ Head(o) = o[1] /\ Len(o) \in Nat /\ Len(o) >= 1 /\ Len(u) = Len(o) - 1
      /\ \A i \in 1..Len(u) : u[i] = o[i + 1]
  BY HeadTailProperties
<1> HIDE DEF u
<1>2. ~Terminal(o[1]) /\ o[1] \notin InitLines
  BY <1>1 DEF Terminal, InitLines
<1>3. c \notin {"booting", "ready"}
  BY <1>1, <1>2 DEF OutAt
<1>4. ASSUME c = "running"
      PROVE  Len(u) + (b + 1) = n /\ \A i \in 1..Len(u) : u[i].kind = "log"
  <2>1. Len(o) + b = n /\ \A i \in 1..Len(o) : o[i].kind = "log"
    BY <1>4 DEF OutAt
  <2>2. Len(u) + (b + 1) = n BY <1>1, <2>1
  <2>3. \A i \in 1..Len(u) : i + 1 \in 1..Len(o) BY <1>1
  <2>4. QED BY <1>1, <2>1, <2>2, <2>3
<1>5. ASSUME c = "answered" PROVE \E i \in 1..Len(u) : Terminal(u[i])
  <2>1. PICK i \in 1..Len(o) : Terminal(o[i])
    BY <1>5 DEF OutAt
  <2>2. i - 1 \in 1..Len(u) /\ u[i - 1] = o[i]
    BY <1>1, <1>2, <2>1
  <2>3. QED BY <2>1, <2>2
<1>6. \A i \in 1..Len(u) : u[i] \notin InitLines
  <2>1. TAKE i \in 1..Len(u)
  <2>2. i + 1 \in 1..Len(o) /\ Len(o) # 1 /\ u[i] = o[i + 1] BY <1>1
  <2>3. QED BY <2>2 DEF OutAt
<1>7. ASSUME NEW i \in 1..Len(u), \A j \in 1..i-1 : ~Terminal(u[j])
      PROVE  InPlace(u[i], (b + 1) + i)
  <2>1. i + 1 \in 1..Len(o) /\ u[i] = o[i + 1] /\ b + (i + 1) = (b + 1) + i
    BY <1>1
  <2>2. \A j \in 1..(i + 1)-1 : ~Terminal(o[j])
    <3>1. TAKE j \in 1..(i + 1)-1
    <3>2. CASE j = 1 BY <1>2, <3>2
    <3>3. CASE j # 1
      <4>1. j - 1 \in 1..i-1 /\ j - 1 \in 1..Len(u) /\ (j - 1) + 1 = j
        BY <1>1, <3>3
      <4>2. u[j - 1] = o[j] BY <1>1, <4>1
      <4>3. QED BY <1>7, <4>1, <4>2
    <3>4. QED BY <3>2, <3>3
  <2>3. InPlace(o[i + 1], b + (i + 1))
    BY <2>1, <2>2 DEF OutAt
  <2>4. QED BY <2>1, <2>3
<1>8. QED
  BY <1>3, <1>4, <1>5, <1>6, <1>7 DEF OutAt, u

\* What follows the answer to init was printed by a child that runs its task.
LEMMA OutInit ==
  ASSUME NEW c \in ChildStates, NEW o \in Seq(Lines), NEW n \in Nat, NEW b \in Nat,
         OutAt(c, o, n, b), o # <<>>, Head(o) \in InitLines
  PROVE  OutAt(IF c = "ready" THEN "running" ELSE c, Tail(o), n, b)
<1>1. Head(o) = o[1] /\ Len(o) \in Nat /\ Len(o) >= 1 /\ Len(Tail(o)) = Len(o) - 1
  BY HeadTailProperties
<1>2. Len(o) = 1
  BY <1>1 DEF OutAt
<1>3. c \notin {"booting", "running", "answered"}
  BY <1>1, <1>2 DEF OutAt, Terminal, InitLines
<1>4. Len(Tail(o)) = 0 /\ \A i : i \notin 1..0
  BY <1>1, <1>2
<1>5. c = "ready" \/ c \notin {"booting", "ready", "running", "answered"}
  BY <1>3
<1>6. c = "ready" => 0 + b = n
  BY DEF OutAt
<1>7. QED
  BY <1>4, <1>5, <1>6 DEF OutAt

\* The child dies, or prints one line more.
LEMMA OutDead ==
  ASSUME NEW c, NEW o, NEW n, NEW b, OutAt(c, o, n, b)
  PROVE  OutAt("dead", o, n, b)
  BY DEF OutAt

LEMMA OutBoot ==
  ASSUME NEW o, NEW n, NEW b, NEW l \in InitLines, OutAt("booting", o, n, b)
  PROVE  OutAt("ready", Append(o, l), n, b)
<1>1. o = <<>> /\ n = 0 /\ b = 0
  BY DEF OutAt
<1>2. Append(o, l) = <<l>>
  BY <1>1
<1>3. Len(<<l>>) = 1 /\ <<l>>[1] = l
  OBVIOUS
<1>4. InPlace(l, 1)
  BY DEF InPlace, InitLines
<1>5. QED BY <1>1, <1>2, <1>3, <1>4 DEF OutAt

LEMMA OutPrints ==
  ASSUME NEW c, NEW o \in Seq(Lines), NEW n \in Nat, NEW b \in Nat, OutAt(c, o, n, b),
         NEW l \in Lines, NEW d, NEW m \in Nat,
         \/ /\ c \in {"running", "answered"} /\ d = c
            /\ l = Log(n + 1) /\ m = n + 1
         \/ /\ c = "running" /\ d = "answered" /\ m = n
            /\ l.kind \in {"result", "error"} /\ l.n = n
  PROVE  OutAt(d, Append(o, l), m, b)
<1> DEFINE u == Append(o, l)
<1>1. /\ Len(o) \in Nat /\ Len(u) = Len(o) + 1 /\ u[Len(o) + 1] = l
      /\ \A i \in 1..Len(o) : u[i] = o[i]
  BY AppendProperties
<1> HIDE DEF u
<1>2. l \notin InitLines /\ c \notin {"booting", "ready", "dead"} /\ d \in {"running", "answered"}
  BY DEF Log, InitLines
<1>3. \A i \in 1..Len(o) : o[i] \notin InitLines
  <2>1. TAKE i \in 1..Len(o)
  <2>2. CASE c = "running" BY <2>2 DEF OutAt, InitLines
  <2>3. CASE c = "answered"
    <3>1. PICK j \in 1..Len(o) : Terminal(o[j]) BY <2>3 DEF OutAt
    <3>2. ASSUME o[i] \in InitLines PROVE FALSE
      <4>1. Len(o) = 1 BY <3>2 DEF OutAt
      <4>2. i = j BY <1>1, <4>1
      <4>3. QED BY <3>1, <3>2, <4>2 DEF Terminal, InitLines
    <3>3. QED BY <3>2
  <2>4. QED BY <2>2, <2>3
<1>4. \A i \in 1..Len(u) : u[i] \notin InitLines
  BY <1>1, <1>2, <1>3
<1>5. d = "running" => Len(u) + b = m /\ \A i \in 1..Len(u) : u[i].kind = "log"
  BY <1>1 DEF OutAt, Log
<1>6. d = "answered" => \E i \in 1..Len(u) : Terminal(u[i])
  <2>1. CASE c = "answered" BY <1>1, <2>1 DEF OutAt
  <2>2. CASE c = "running" /\ d = "answered"
    <3>1. Terminal(l) BY <2>2 DEF Terminal
    <3>2. Len(o) + 1 \in 1..Len(u) BY <1>1
    <3>3. QED BY <1>1, <3>1, <3>2
  <2>3. QED BY <2>1, <2>2
<1>7. ASSUME NEW i \in 1..Len(u), \A j \in 1..i-1 : ~Terminal(u[j])
      PROVE  InPlace(u[i], b + i)
  <2>1. CASE i \in 1..Len(o)
    <3>1. \A j \in 1..i-1 : ~Terminal(o[j]) BY <1>1, <1>7, <2>1
    <3>2. QED BY <1>1, <2>1, <3>1 DEF OutAt
  <2>2. CASE i = Len(o) + 1
    <3>1. CASE c = "running"
      <4>1. Len(o) + b = n BY <3>1 DEF OutAt
      <4>2. b + i = n + 1 BY <1>1, <2>2, <4>1
      <4>3. u[i] = l BY <1>1, <2>2
      <4>4. InPlace(l, n + 1) BY DEF InPlace, Log
      <4>5. QED BY <4>2, <4>3, <4>4
    <3>2. CASE c = "answered"
      <4>1. PICK j \in 1..Len(o) : Terminal(o[j]) BY <3>2 DEF OutAt
      <4>2. j \in 1..i-1 /\ u[j] = o[j] BY <1>1, <2>2, <4>1
      <4>3. QED BY <1>7, <4>1, <4>2
    <3>3. QED BY <3>1, <3>2
  <2>3. QED BY <1>1, <2>1, <2>2
<1>8. QED
  BY <1>2, <1>4, <1>5, <1>6, <1>7 DEF OutAt, u

\* The pump puts the event it holds behind the others.
LEMMA FlowSend ==
  ASSUME NEW r \in Sendings, NEW s \in Seq(Events), NEW q \in Seq(Events),
         NEW c, NEW o, NEW n, FlowAt("send", r, s, q, c, o, n),
         r.next # "select" <=> Terminal(r.event)
  PROVE  FlowAt(r.next, Idle, s, Append(q, r.event), c, o, n)
<1> DEFINE v == Append(q, r.event)
<1>0. Len(s) \in Nat /\ Len(q) \in Nat /\ r.event \in Events /\ r.next \in {"select", "kill", "done"}
  BY DEF Sendings
<1>1. /\ Len(v) = Len(q) + 1 /\ v[Len(q) + 1] = r.event
      /\ \A i \in 1..Len(q) : v[i] = q[i]
  BY <1>0, AppendProperties
<1> HIDE DEF v
<1>2. \A i \in 1..Len(s) : ~Terminal(s[i])
  BY DEF FlowAt
<1>3. \A i \in 1..Len(q) : InPlace(q[i], Len(s) + i) /\ ~Terminal(q[i])
  BY DEF FlowAt
<1>4. InPlace(r.event, Len(s) + Len(q) + 1)
  BY DEF FlowAt
<1>5. ASSUME NEW i \in 1..Len(v)
      PROVE  InPlace(v[i], Len(s) + i) /\ (Terminal(v[i]) => i = Len(v) /\ r.next \in {"kill", "done"})
  <2>1. CASE i \in 1..Len(q) BY <1>1, <1>3, <2>1
  <2>2. CASE i = Len(q) + 1
    <3>1. Len(s) + i = Len(s) + Len(q) + 1 BY <1>0, <2>2
    <3>2. InPlace(v[i], Len(s) + i) BY <1>1, <1>4, <2>2, <3>1
    <3>3. QED BY <1>0, <1>1, <2>2, <3>2
  <2>3. QED BY <1>0, <1>1, <2>1, <2>2
<1>6. r.next = "select" => OutAt(c, o, n, Len(s) + Len(v))
  <2>1. Len(s) + Len(v) = Len(s) + Len(q) + 1 BY <1>0, <1>1
  <2>2. QED BY <2>1 DEF FlowAt
<1>7. QED
  BY <1>0, <1>2, <1>5, <1>6 DEF FlowAt, v

\* The page takes the first of the events in the channel.
LEMMA FlowYields ==
  ASSUME NEW p, NEW r, NEW s \in Seq(Events), NEW q \in Seq(Events), q # <<>>,
         NEW c, NEW o, NEW n, FlowAt(p, r, s, q, c, o, n), SentAt(s)
  PROVE  /\ FlowAt(p, r, Append(s, Head(q)), Tail(q), c, o, n)
         /\ SentAt(Append(s, Head(q)))
<1> DEFINE w == Append(s, Head(q))
           v == Tail(q)
<1>0. /\ Len(s) \in Nat /\ Len(q) \in Nat /\ Len(q) >= 1 /\ Head(q) = q[1] /\ Head(q) \in Events
      /\ Len(v) = Len(q) - 1 /\ v \in Seq(Events) /\ \A i \in 1..Len(v) : v[i] = q[i + 1]
  BY HeadTailProperties
<1>1. Len(w) = Len(s) + 1 /\ w[Len(s) + 1] = q[1] /\ \A i \in 1..Len(s) : w[i] = s[i]
  BY <1>0, AppendProperties
<1> HIDE DEF w, v
<1>2. \A i \in 1..Len(s) : ~Terminal(s[i])
  BY DEF FlowAt
<1>3. 1 \in 1..Len(q) BY <1>0
<1>4. InPlace(q[1], Len(s) + 1) /\ (Terminal(q[1]) => 1 = Len(q) /\ p \in {"kill", "done"})
  BY <1>3 DEF FlowAt
<1>5. SentAt(w)
  <2>1. SUFFICES ASSUME NEW i \in 1..Len(w)
                 PROVE  InPlace(w[i], i) /\ (Terminal(w[i]) => i = Len(w))
    BY DEF SentAt
  <2>2. CASE i \in 1..Len(s) BY <1>1, <1>2, <2>2 DEF SentAt
  <2>3. CASE i = Len(s) + 1 BY <1>1, <1>4, <2>3
  <2>4. QED BY <1>0, <1>1, <2>2, <2>3
<1>6. v # <<>> \/ p \in {"prepare", "select", "send"} => \A i \in 1..Len(w) : ~Terminal(w[i])
  <2>1. ASSUME v # <<>> \/ p \in {"prepare", "select", "send"} PROVE ~Terminal(q[1])
    <3>1. CASE v # <<>>
      <4>1. Len(v) # 0 BY <1>0, <3>1
      <4>2. QED BY <1>0, <1>4, <4>1
    <3>2. CASE p \in {"prepare", "select", "send"} BY <1>4, <3>2
    <3>3. QED BY <2>1, <3>1, <3>2
  <2>2. ASSUME ~Terminal(q[1]), NEW i \in 1..Len(w) PROVE ~Terminal(w[i])
    <3>1. i \in 1..Len(s) \/ i = Len(s) + 1 BY <1>0, <1>1
    <3>2. QED BY <1>1, <1>2, <2>2, <3>1
  <2>3. QED BY <2>1, <2>2
<1>7. ASSUME NEW i \in 1..Len(v)
      PROVE  InPlace(v[i], Len(w) + i) /\ (Terminal(v[i]) => i = Len(v) /\ p \in {"kill", "done"})
  <2>1. i + 1 \in 1..Len(q) /\ v[i] = q[i + 1] /\ Len(s) + (i + 1) = Len(w) + i
        /\ (i + 1 = Len(q) => i = Len(v))
    BY <1>0, <1>1
  <2>2. InPlace(q[i + 1], Len(s) + (i + 1))
        /\ (Terminal(q[i + 1]) => i + 1 = Len(q) /\ p \in {"kill", "done"})
    BY <2>1 DEF FlowAt
  <2>3. QED BY <2>1, <2>2
<1>8. Len(w) + Len(v) = Len(s) + Len(q)
  BY <1>0, <1>1
<1>9. /\ p = "send" => InPlace(r.event, Len(w) + Len(v) + 1)
      /\ p = "select" => OutAt(c, o, n, Len(w) + Len(v))
      /\ p = "send" /\ r.next = "select" => OutAt(c, o, n, Len(w) + Len(v) + 1)
  BY <1>8 DEF FlowAt
<1>10. QED
  BY <1>5, <1>6, <1>7, <1>9 DEF FlowAt, w, v

\* The pump takes a line off the child's output to send it on.
LEMMA FlowReads ==
  ASSUME NEW r, NEW s \in Seq(Events), NEW q \in Seq(Events), NEW c,
         NEW o \in Seq(Lines), NEW n \in Nat, FlowAt("select", r, s, q, c, o, n), o # <<>>,
         NEW x, x.event = Head(o),
         \/ x.next = "select" /\ Head(o).kind = "log"
         \/ x.next = "kill" /\ Head(o).kind \in {"result", "error"}
  PROVE  FlowAt("send", x, s, q, c, Tail(o), n)
<1> DEFINE b == Len(s) + Len(q)
<1>0. b \in Nat /\ Head(o) = o[1] /\ Len(o) \in Nat /\ Len(o) >= 1
  BY HeadTailProperties
<1>1. OutAt(c, o, n, b)
  BY DEF FlowAt
<1> HIDE DEF b
<1>2. 1 \in 1..Len(o) /\ \A j \in 1..1-1 : ~Terminal(o[j])
  BY <1>0
<1>3. InPlace(o[1], b + 1)
  BY <1>1, <1>2 DEF OutAt
<1>4. x.next = "select" => OutAt(c, Tail(o), n, b + 1)
  BY <1>0, <1>1, OutRead
<1>5. QED
  BY <1>0, <1>3, <1>4 DEF FlowAt, b

\* What changes only behind the pump, or behind a pump that reads no more.
LEMMA FlowBehind ==
  ASSUME NEW p, NEW r, NEW s \in Seq(Events), NEW q \in Seq(Events), NEW c, NEW o, NEW n,
         FlowAt(p, r, s, q, c, o, n), NEW d, NEW u, NEW m,
         \A b \in Nat : OutAt(c, o, n, b) => OutAt(d, u, m, b)
  PROVE  FlowAt(p, r, s, q, d, u, m)
<1>1. Len(s) + Len(q) \in Nat /\ Len(s) + Len(q) + 1 \in Nat
  OBVIOUS
<1>2. QED BY <1>1 DEF FlowAt

LEMMA FlowOver ==
  ASSUME NEW p, NEW r, NEW s, NEW q, NEW c, NEW o, NEW n, FlowAt(p, r, s, q, c, o, n),
         NEW y, NEW x, NEW d, NEW u, NEW m,
         \/ p = "kill" /\ y = "done"
         \/ /\ p \in {"prepare", "select"} /\ y = "send"
            /\ x.event = HostError /\ x.next \in {"kill", "done"}
  PROVE  FlowAt(y, x, s, q, d, u, m)
  BY DEF FlowAt, InPlace, HostError

\* The last event of a channel.
LEMMA EndAppend ==
  ASSUME NEW q \in Seq(Events), NEW e \in Events, Terminal(e)
  PROVE  EndsWell(Append(q, e))
<1>1. Len(q) \in Nat /\ Len(Append(q, e)) = Len(q) + 1 /\ Append(q, e)[Len(q) + 1] = e
  BY AppendProperties
<1>2. Append(q, e) # <<>>
  BY <1>1
<1>3. QED BY <1>1, <1>2 DEF EndsWell

LEMMA EndTail ==
  ASSUME NEW q \in Seq(Events), EndsWell(q), ~Terminal(Head(q))
  PROVE  EndsWell(Tail(q))
<1>1. /\ q # <<>> /\ Terminal(q[Len(q)]) /\ Len(q) \in Nat /\ Len(q) >= 1 /\ Head(q) = q[1]
      /\ Len(Tail(q)) = Len(q) - 1 /\ \A i \in 1..Len(Tail(q)) : Tail(q)[i] = q[i + 1]
  BY HeadTailProperties DEF EndsWell
<1>2. Len(q) # 1
  BY <1>1
<1>3. Tail(q) # <<>> /\ Len(Tail(q)) \in 1..Len(Tail(q)) /\ Len(Tail(q)) + 1 = Len(q)
  BY <1>1, <1>2
<1>4. Tail(q)[Len(Tail(q))] = q[Len(q)]
  BY <1>1, <1>3
<1>5. QED BY <1>1, <1>3, <1>4 DEF EndsWell

-----------------------------------------------------------------------------
(* A step of a task and the task itself.                                   *)

LEMMA OwnInit == Init => \A t \in Tasks : InvOf(t)
<1> SUFFICES ASSUME Init, NEW t \in Tasks PROVE InvOf(t)
  OBVIOUS
<1>1. /\ page[t] = "idle" /\ stream[t] = "none" /\ pump[t] = "none" /\ child[t] = "none"
      /\ sent[t] = <<>> /\ chan[t] = <<>> /\ out[t] = <<>> /\ said[t] = 0
      /\ t \notin terminalSeen
  BY DEF Init
<1>2. SentInPlace(t)
  BY <1>1 DEF SentInPlace, SentAt
<1>3. QED BY <1>1, <1>2 DEF InvOf, PageFits, Fresh, AnswerComing, Flow

\* A stream without events, whose pump has not begun to read.
LEMMA FlowEmpty ==
  ASSUME NEW r, NEW c, NEW p, p = "prepare" \/ (p = "select" /\ c = "booting")
  PROVE  FlowAt(p, r, <<>>, <<>>, c, <<>>, 0)
  BY DEF FlowAt, OutAt

LEMMA OwnRequest ==
  ASSUME TypeOK, NEW t \in Tasks, InvOf(t), Post(t) \/ RequestSteps(t)
  PROVE  InvOf(t)'
<1> USE DEF pageVars, streamVars, hostVars, pumpVars, childVars
<1>1. CASE Post(t) \/ (Refuse(t) /\ stream[t] = "starting")
  <2>1. /\ UNCHANGED <<sent, terminalSeen, pump, pending, chan, child, out, said>>
        /\ stream[t] \in {"none", "starting"} /\ stream'[t] \in {"starting", "refused"}
        /\ \/ page[t] = "idle" /\ page'[t] = "posting" /\ stream'[t] = "starting"
           \/ page[t] = "posting" /\ page'[t] = "rejected"
           \/ page[t] \notin {"idle", "posting"} /\ page'[t] = page[t]
    BY <1>1 DEF Post, Refuse, TypeOK, InvOf, PageFits
  <2>2. PageFits(t)' /\ (page[t] # "cutOff")'
    BY <2>1 DEF InvOf, PageFits, Settled
  <2>3. Fresh(t)' /\ AnswerComing(t)' /\ Flow(t)' /\ SentInPlace(t)'
    BY <2>1 DEF InvOf, Fresh, AnswerComing, Flow, SentInPlace
  <2>4. QED BY <2>2, <2>3 DEF InvOf
<1>2. CASE StartAccepted(t)
  <2>1. /\ UNCHANGED <<page, sent, terminalSeen, pending, chan, child, out, said>>
        /\ stream[t] = "starting" /\ stream'[t] = "open" /\ pump'[t] = "prepare"
    BY <1>2 DEF StartAccepted, TypeOK
  <2>2. sent[t] = <<>> /\ chan[t] = <<>> /\ out[t] = <<>> /\ said[t] = 0 /\ child[t] = "none"
    BY <2>1 DEF InvOf, Fresh
  <2>3. PageFits(t)' /\ (page[t] # "cutOff")'
    BY <2>1 DEF InvOf, PageFits, Settled
  <2>4. Fresh(t)' /\ AnswerComing(t)'
    BY <2>1, <2>2 DEF Fresh, AnswerComing
  <2>5. Flow(t)'
    BY <2>1, <2>2, FlowEmpty DEF Flow
  <2>6. SentInPlace(t)'
    BY <2>1 DEF InvOf, SentInPlace
  <2>7. QED BY <2>3, <2>4, <2>5, <2>6 DEF InvOf
<1>3. CASE StartRefused(t) \/ StartConflicts(t)
  BY <1>1, <1>3 DEF StartRefused, StartConflicts
<1>4. QED
  BY <1>1, <1>2, <1>3 DEF RequestSteps

\* What a step leaves alone that neither the request nor the page takes.
LEMMA PumpFrame ==
  ASSUME NEW t \in Tasks, InvOf(t), UNCHANGED <<page, stream, sent, terminalSeen>>
  PROVE  PageFits(t)' /\ (page[t] # "cutOff")' /\ SentInPlace(t)'
  BY DEF InvOf, PageFits, SentInPlace

\* A terminal event is sent out of any place.
LEMMA SendsHostError ==
  ASSUME TypeOK, NEW t \in Tasks, InvOf(t), pump[t] \in {"prepare", "select"},
         UNCHANGED <<page, stream, sent, terminalSeen, chan>>,
         pump'[t] = "send", NEW n \in {"kill", "done"},
         pending'[t] = [event |-> HostError, next |-> n]
  PROVE  InvOf(t)'
<1>1. PageFits(t)' /\ (page[t] # "cutOff")' /\ SentInPlace(t)'
  BY PumpFrame
<1>2. Fresh(t)' /\ AnswerComing(t)'
  BY DEF InvOf, Fresh, AnswerComing, HostError, Terminal
<1>3. pending'[t].event = HostError /\ pending'[t].next \in {"kill", "done"}
  OBVIOUS
<1>4. Flow(t)'
  BY <1>3, FlowOver DEF InvOf, Flow
<1>5. QED BY <1>1, <1>2, <1>4 DEF InvOf

LEMMA OwnPump ==
  ASSUME TypeOK, NEW t \in Tasks, InvOf(t), PumpSteps(t)
  PROVE  InvOf(t)'
<1> USE DEF pageVars, streamVars, hostVars, pumpVars, childVars
<1>0. /\ sent[t] \in Seq(Events) /\ chan[t] \in Seq(Events) /\ out[t] \in Seq(Lines)
      /\ pending[t] \in Sendings /\ child[t] \in ChildStates /\ said[t] \in Nat
  BY DEF TypeOK, Sendings
<1>1. CASE PrepareFails(t) \/ InitUnwritten(t) \/ SeesCancel(t) \/ ReadsInitErr(t) \/ SeesExit(t)
  <2>1. /\ UNCHANGED <<page, stream, sent, terminalSeen, chan>>
        /\ pump[t] \in {"prepare", "select"} /\ pump'[t] = "send"
        /\ \E n \in {"kill", "done"} : pending'[t] = [event |-> HostError, next |-> n]
    BY <1>1 DEF PrepareFails, InitUnwritten, SeesCancel, ReadsInitErr, SeesExit, SendNext,
                Reads, AfterExit, TypeOK
  <2>2. QED BY <2>1, SendsHostError
<1>2. CASE SpawnChild(t)
  <2>1. /\ UNCHANGED <<page, stream, sent, terminalSeen, chan, pending, out, said>>
        /\ pump[t] = "prepare" /\ pump'[t] = "select" /\ child'[t] = "booting"
    BY <1>2 DEF SpawnChild, TypeOK
  <2>2. sent[t] = <<>> /\ chan[t] = <<>> /\ out[t] = <<>> /\ said[t] = 0
    BY <2>1 DEF InvOf, Fresh
  <2>3. Fresh(t)' /\ AnswerComing(t)'
    BY <2>1 DEF InvOf, Fresh, AnswerComing
  <2>4. Flow(t)'
    BY <2>1, <2>2, FlowEmpty DEF Flow
  <2>5. QED BY <2>1, <2>3, <2>4, PumpFrame DEF InvOf
<1>3. CASE Send(t)
  <2>1. /\ UNCHANGED <<page, stream, sent, terminalSeen, child, out, said>>
        /\ pump[t] = "send" /\ pump'[t] = pending[t].next /\ pending'[t] = Idle
        /\ pending[t].event \in Events /\ pending[t].next \in {"select", "kill", "done"}
    BY <1>0, <1>3 DEF Send, TypeOK, Sendings
  <2>2. Fresh(t)'
    BY <2>1 DEF InvOf, Fresh
  <2>3. CASE stream[t] # "open" /\ chan' = chan
    BY <2>1, <2>2, <2>3, PumpFrame DEF InvOf, AnswerComing, Flow
  <2>4. CASE stream[t] = "open" /\ chan'[t] = Append(chan[t], pending[t].event)
    <3>1. pending[t].next # "select" <=> Terminal(pending[t].event)
      BY <2>1 DEF InvOf, AnswerComing
    <3>2. AnswerComing(t)'
      BY <1>0, <2>1, <2>4, <3>1, EndAppend DEF AnswerComing
    <3>3. FlowAt("send", pending[t], sent[t], chan[t], child[t], out[t], said[t])
      BY <2>1, <2>4 DEF InvOf, Flow
    <3>4. FlowAt(pending[t].next, Idle, sent[t], Append(chan[t], pending[t].event),
                 child[t], out[t], said[t])
      BY <1>0, <3>1, <3>3, FlowSend
    <3>5. Flow(t)'
      BY <2>1, <2>4, <3>4 DEF Flow
    <3>6. QED BY <2>1, <2>2, <3>2, <3>5, PumpFrame DEF InvOf
  <2>5. QED BY <1>3, <2>3, <2>4 DEF Send, TypeOK
<1>4. CASE Kill(t)
  <2>1. /\ UNCHANGED <<page, stream, sent, terminalSeen, chan, pending>>
        /\ pump[t] = "kill" /\ pump'[t] = "done"
    BY <1>4 DEF Kill, TypeOK
  <2>2. Fresh(t)' /\ AnswerComing(t)'
    BY <2>1 DEF InvOf, Fresh, AnswerComing
  <2>3. Flow(t)'
    BY <2>1, FlowOver DEF InvOf, Flow
  <2>4. QED BY <2>1, <2>2, <2>3, PumpFrame DEF InvOf
<1>5. CASE ReadsInitOk(t)
  <2>1. /\ UNCHANGED <<page, stream, sent, terminalSeen, chan, pending, said, pump>>
        /\ child'[t] = (IF child[t] = "ready" THEN "running" ELSE child[t])
        /\ pump[t] = "select" /\ out[t] # <<>> /\ out'[t] = Tail(out[t])
        /\ Head(out[t]).kind = "initOk"
    BY <1>5 DEF ReadsInitOk, Reads, TypeOK
  <2>2. Head(out[t]) \in InitLines
    <3>1. Head(out[t]) \in Lines BY <1>0, <2>1, Queues
    <3>2. QED BY <2>1, <3>1 DEF Lines, InitLines, Events
  <2>3. \A b \in Nat : OutAt(child[t], out[t], said[t], b)
                         => OutAt(child'[t], out'[t], said'[t], b)
    BY <1>0, <2>1, <2>2, OutInit
  <2>4. Flow(t)'
    BY <1>0, <2>1, <2>3, FlowBehind DEF InvOf, Flow
  <2>5. Fresh(t)' /\ AnswerComing(t)'
    BY <2>1 DEF InvOf, Fresh, AnswerComing
  <2>6. QED BY <2>1, <2>4, <2>5, PumpFrame DEF InvOf
<1>6. CASE ReadsLog(t) \/ ReadsAnswer(t)
  <2>1. /\ UNCHANGED <<page, stream, sent, terminalSeen, chan, said, child>>
        /\ pump[t] = "select" /\ pump'[t] = "send" /\ out[t] # <<>>
        /\ out'[t] = Tail(out[t]) /\ pending'[t].event = Head(out[t])
        /\ \/ pending'[t].next = "select" /\ Head(out[t]).kind = "log"
           \/ pending'[t].next = "kill" /\ Head(out[t]).kind \in {"result", "error"}
    BY <1>6 DEF ReadsLog, ReadsAnswer, AfterAnswer, SendNext, Reads, TypeOK
  <2>2. Fresh(t)' /\ AnswerComing(t)'
    BY <2>1 DEF InvOf, Fresh, AnswerComing, Terminal
  <2>3. Flow(t)'
    <3> SUFFICES ASSUME stream[t] = "open" PROVE Flow(t)'
      BY <2>1 DEF Flow
    <3>1. FlowAt("select", pending[t], sent[t], chan[t], child[t], out[t], said[t])
      BY <2>1 DEF InvOf, Flow
    <3>2. FlowAt("send", pending'[t], sent[t], chan[t], child[t], Tail(out[t]), said[t])
      BY <1>0, <2>1, <3>1, FlowReads
    <3>3. QED BY <2>1, <3>2 DEF Flow
  <2>4. QED BY <2>1, <2>2, <2>3, PumpFrame DEF InvOf
<1>7. QED
  BY <1>1, <1>2, <1>3, <1>4, <1>5, <1>6 DEF PumpSteps

LEMMA OwnChild ==
  ASSUME TypeOK, NEW t \in Tasks, InvOf(t), ChildSteps(t)
  PROVE  InvOf(t)'
<1> USE DEF pageVars, streamVars, hostVars, pumpVars, childVars
<1>0. /\ sent[t] \in Seq(Events) /\ chan[t] \in Seq(Events) /\ out[t] \in Seq(Lines)
      /\ child[t] \in ChildStates /\ said[t] \in Nat
  BY DEF TypeOK
<1>1. /\ UNCHANGED <<page, stream, sent, terminalSeen, chan, pump, pending>>
      /\ child[t] # "none"
  BY DEF ChildSteps, ChildInit, ChildLogs, ChildAnswers, ChildDies, Alive
<1>2. Fresh(t)' /\ AnswerComing(t)'
  BY <1>1 DEF InvOf, Fresh, AnswerComing
<1>3. \A b \in Nat : OutAt(child[t], out[t], said[t], b)
                       => OutAt(child'[t], out'[t], said'[t], b)
  <2> SUFFICES ASSUME NEW b \in Nat, OutAt(child[t], out[t], said[t], b)
               PROVE  OutAt(child'[t], out'[t], said'[t], b)
    OBVIOUS
  <2>1. CASE ChildInit(t)
    <3>1. /\ child[t] = "booting" /\ child'[t] = "ready" /\ said' = said
          /\ \E l \in InitLines : out'[t] = Append(out[t], l)
      BY <2>1 DEF ChildInit, Prints, TypeOK
    <3>2. QED BY <3>1, OutBoot
  <2>2. CASE ChildLogs(t)
    <3>1. /\ child[t] \in {"running", "answered"} /\ child' = child
          /\ said'[t] = said[t] + 1 /\ out'[t] = Append(out[t], Log(said[t] + 1))
      BY <2>2 DEF ChildLogs, Prints, TypeOK
    <3>2. said[t] + 1 \in Nat /\ Log(said[t] + 1) \in Lines
      BY <1>0 DEF Log, Lines, Events
    <3>3. OutAt(child[t], Append(out[t], Log(said[t] + 1)), said[t] + 1, b)
      BY <1>0, <3>1, <3>2, OutPrints
    <3>4. QED BY <3>1, <3>3
  <2>3. CASE ChildAnswers(t)
    <3>1. /\ child[t] = "running" /\ child'[t] = "answered" /\ said' = said
          /\ \E k \in {"result", "error"} : out'[t] = Append(out[t], [kind |-> k, n |-> said[t]])
      BY <2>3 DEF ChildAnswers, Prints, TypeOK
    <3>2. PICK k \in {"result", "error"} : out'[t] = Append(out[t], [kind |-> k, n |-> said[t]])
      BY <3>1
    <3> DEFINE l == [kind |-> k, n |-> said[t]]
    <3>3. l \in Lines /\ l.kind \in {"result", "error"} /\ l.n = said[t]
      BY <1>0 DEF Lines, Events
    <3> HIDE DEF l
    <3>4. OutAt("answered", Append(out[t], l), said[t], b)
      BY <1>0, <3>1, <3>3, OutPrints
    <3>5. QED BY <3>1, <3>2, <3>4 DEF l
  <2>4. CASE ChildDies(t)
    <3>1. child'[t] = "dead" /\ out' = out /\ said' = said
      BY <2>4 DEF ChildDies, TypeOK
    <3>2. QED BY <3>1, OutDead
  <2>5. QED BY <2>1, <2>2, <2>3, <2>4 DEF ChildSteps
<1>4. Flow(t)'
  BY <1>0, <1>1, <1>3, FlowBehind DEF InvOf, Flow
<1>5. QED BY <1>1, <1>2, <1>4, PumpFrame DEF InvOf

LEMMA OwnStream ==
  ASSUME TypeOK, NEW t \in Tasks, InvOf(t), StreamSteps(t) \/ PageAborts(t) \/ CancelArrives(t)
  PROVE  InvOf(t)'
<1> USE DEF pageVars, streamVars, hostVars, pumpVars, childVars
<1>0. /\ sent[t] \in Seq(Events) /\ chan[t] \in Seq(Events) /\ page[t] \in PageStates
      /\ pump[t] \in PumpPcs
  BY DEF TypeOK
<1>1. CASE ReadsStarted(t) \/ PageAborts(t) \/ CancelArrives(t)
  <2>1. /\ UNCHANGED <<stream, sent, terminalSeen, pump, pending, chan, child, out, said>>
        /\ \/ page' = page
           \/ page[t] = "posting" /\ stream[t] = "open" /\ page'[t] = "reading"
           \/ page[t] \in {"posting", "reading"} /\ page'[t] = "aborted"
    BY <1>1 DEF ReadsStarted, PageAborts, CancelArrives, TypeOK
  <2>2. PageFits(t)' /\ (page[t] # "cutOff")'
    BY <2>1 DEF InvOf, PageFits, Settled
  <2>3. Fresh(t)' /\ AnswerComing(t)' /\ SentInPlace(t)' /\ Flow(t)'
    BY <2>1 DEF InvOf, Fresh, AnswerComing, SentInPlace, Flow
  <2>4. QED BY <2>2, <2>3 DEF InvOf
<1>2. CASE StreamYields(t)
  <2>1. /\ UNCHANGED <<stream, pump, pending, child, out, said>>
        /\ stream[t] = "open" /\ chan[t] # <<>> /\ page[t] # "posting"
        /\ chan'[t] = Tail(chan[t]) /\ sent'[t] = Append(sent[t], Head(chan[t]))
        /\ t \in terminalSeen' <=> t \in terminalSeen \/ Terminal(Head(chan[t]))
        /\ \/ page'[t] = page[t] /\ (page[t] # "reading" \/ ~Terminal(Head(chan[t])))
           \/ page'[t] \in {"resolved", "rejected"}
    BY <1>2 DEF StreamYields, TypeOK
  <2>2. PageFits(t)' /\ (page[t] # "cutOff")'
    BY <1>0, <2>1 DEF InvOf, PageFits, PageStates, Settled
  <2>3. Fresh(t)'
    BY <2>1 DEF InvOf, Fresh
  <2>4. AnswerComing(t)'
    BY <1>0, <2>1, EndTail DEF InvOf, AnswerComing
  <2>5. SentInPlace(t)' /\ Flow(t)'
    <3>1. /\ FlowAt(pump[t], pending[t], Append(sent[t], Head(chan[t])), Tail(chan[t]),
                    child[t], out[t], said[t])
          /\ SentAt(Append(sent[t], Head(chan[t])))
      BY <1>0, <2>1, FlowYields DEF InvOf, Flow, SentInPlace
    <3>2. QED BY <2>1, <3>1 DEF SentInPlace, Flow
  <2>6. QED BY <2>2, <2>3, <2>4, <2>5 DEF InvOf
<1>3. CASE StreamEnds(t) \/ StreamAbandoned(t)
  <2>1. /\ UNCHANGED <<sent, terminalSeen, pump, pending, child, out, said>>
        /\ stream[t] = "open" /\ stream'[t] = "closed" /\ chan'[t] = <<>>
        /\ \/ page'[t] = page[t] /\ page[t] \notin {"posting", "reading"}
           \/ page'[t] = "cutOff" /\ page[t] = "reading" /\ pump[t] = "done" /\ chan[t] = <<>>
    BY <1>3 DEF StreamEnds, StreamAbandoned, DropStream, TypeOK
  <2>2. page'[t] # "cutOff"
    <3>1. page[t] # "reading" \/ pump[t] # "done" \/ chan[t] # <<>>
      BY <2>1 DEF InvOf, PageFits, AnswerComing, EndsWell, Settled
    <3>2. QED BY <2>1, <3>1 DEF InvOf
  <2>3. PageFits(t)'
    BY <2>1, <2>2 DEF InvOf, PageFits
  <2>4. Fresh(t)' /\ AnswerComing(t)' /\ SentInPlace(t)' /\ Flow(t)'
    BY <2>1 DEF InvOf, Fresh, AnswerComing, SentInPlace, Flow
  <2>5. QED BY <2>2, <2>3, <2>4 DEF InvOf
<1>4. QED BY <1>1, <1>2, <1>3 DEF StreamSteps

-----------------------------------------------------------------------------
(* The theorems.                                                           *)

LEMMA InvariantInit == Init => IInv
  BY TypeInit, ClaimsInit, OwnInit DEF IInv

LEMMA InvariantNext == ASSUME IInv, [Next]_vars PROVE IInv'
<1>1. TypeOK' BY TypeNext DEF IInv
<1>2. ClaimsFollowStreams' /\ ClaimsAreOwn'
  BY ClaimsNext DEF IInv, InvOf
<1>3. CASE UNCHANGED vars
  <2>1. \A u \in Tasks : SameAt(u)
    BY <1>3 DEF vars, pageVars, streamVars, pumpVars, childVars, SameAt
  <2>2. \A u \in Tasks : InvOf(u)' BY <2>1, SameKeeps DEF IInv
  <2>3. QED BY <1>1, <1>2, <2>2 DEF IInv
<1>4. ASSUME NEW t \in Tasks, StepOf(t) PROVE \A u \in Tasks : InvOf(u)'
  <2>1. TAKE u \in Tasks
  <2>2. TypeOK /\ InvOf(u) BY DEF IInv
  <2>3. CASE u = t
    BY <1>4, <2>2, <2>3, OwnRequest, OwnPump, OwnChild, OwnStream DEF StepOf
  <2>4. CASE u # t
    BY <1>4, <2>2, <2>4, OthersSame, SameKeeps
  <2>5. QED BY <2>3, <2>4
<1>5. QED
  BY <1>1, <1>2, <1>3, <1>4 DEF Next, StepOf, IInv

LEMMA Invariant == Spec => []IInv
  BY InvariantInit, InvariantNext, PTL DEF Spec

\* Whatever the tasks do, the state keeps its shape, and no channel holds more
\* than it may.
THEOREM TypeCorrect == Spec => []TypeOK
<1>1. IInv => TypeOK BY DEF IInv
<1>2. QED BY <1>1, Invariant, PTL

\* claim_singleton and release_singletons_for_task: a claim lasts as long as the
\* stream of the task that made it, and no two streams share one.
THEOREM ClaimsCorrect == Spec => []ClaimsFollowStreams
<1>1. IInv => ClaimsFollowStreams BY DEF IInv
<1>2. QED BY <1>1, Invariant, PTL

\* pump_worker leaves its loop with a terminal event sent, and the page reads it
\* before the stream ends.
THEOREM AlwaysAnswered == Spec => []NeverCutOff
<1>1. IInv => NeverCutOff BY DEF IInv, InvOf, NeverCutOff
<1>2. QED BY <1>1, Invariant, PTL

\* From the child's output over the channel to the stream, no event is lost,
\* doubled or overtaken, and nothing comes after the answer.
THEOREM InOrder == Spec => []EventsInOrder
<1>1. IInv => EventsInOrder
  BY DEF IInv, InvOf, SentInPlace, SentAt, InPlace, EventsInOrder
<1>2. QED BY <1>1, Invariant, PTL
=============================================================================
