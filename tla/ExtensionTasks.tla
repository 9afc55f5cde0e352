--------------------------- MODULE ExtensionTasks ---------------------------
(***************************************************************************)
(* The tasks of extensions (src-tauri/src/extension_task_sse.rs,           *)
(* extension_runtime.rs; packages/extension-sdk/src/sdk-source.ts,         *)
(* packages/extension-host): a page starts a task over HTTP and reads its  *)
(* events from the response; behind it a pump passes on what a child       *)
(* process prints, over a bounded channel.  A task may claim a key that    *)
(* only one at a time may hold.                                            *)
(***************************************************************************)
EXTENDS Integers, Sequences

CONSTANTS
  Tasks, NoTask,
  Keys, NoKey,
  KeyOf,       \* the singletonKey of each task, or none
  Capacity,    \* of the channel; 64 in the code
  MaxLogs      \* bound: how often the child of each task logs

ASSUME TasksAssumption ==
  /\ NoTask \notin Tasks /\ NoKey \notin Keys
  /\ KeyOf \in [Tasks -> Keys \cup {NoKey}]
  /\ Capacity \in Nat \ {0} /\ MaxLogs \in [Tasks -> Nat]

\* What a child prints and what a page reads.  A log is numbered, and an answer
\* bears the number of the logs before it.
Log(n) == [kind |-> "log", n |-> n]
HostError == [kind |-> "error", n |-> 0]
InitLines == [kind : {"initOk", "initErr"}, n : {0}]
Events == [kind : {"log", "result", "error"}, n : Nat]
Lines == InitLines \cup Events
Idle == [event |-> HostError, next |-> "done"]
Terminal(e) == e.kind \in {"result", "error"}

VARIABLES
  page,        \* the promise of spawnWorker, in the page
  cancelSent,  \* the request to cancel is under way
  stream,      \* the handler of the request, then the stream of its response
  sent,        \* history: the events the stream has given out
  terminalSeen,
  tasks,       \* the ids in ExtensionRuntimeState.tasks
  cancelled,   \* the tasks whose cancel sender is used or dropped
  singletons,  \* claim key -> owner
  pump,        \* run_extension_task_internal and pump_worker
  pending,     \* the event being sent, and what follows; Idle otherwise
  chan,        \* the channel of events
  child,       \* the process
  out,         \* what it printed and nobody read
  said         \* how many logs it printed

pageVars == <<page, cancelSent>>
streamVars == <<stream, sent, terminalSeen>>
hostVars == <<tasks, cancelled, singletons>>
pumpVars == <<pump, pending>>
childVars == <<child, out, said>>
vars == <<pageVars, streamVars, hostVars, pumpVars, chan, childVars>>

Settled == {"resolved", "rejected", "aborted", "cutOff"}
PageStates == {"idle", "posting", "reading"} \cup Settled
StreamStates == {"none", "starting", "refused", "open", "closed"}
PumpPcs == {"none", "prepare", "select", "send", "kill", "done"}
ChildStates == {"none", "booting", "ready", "running", "answered", "dead"}
Alive == ChildStates \ {"none", "dead"}

\* The state has the shape the code gives it, and the channel its limit.
TypeOK ==
  /\ page \in [Tasks -> PageStates]
  /\ cancelSent \in [Tasks -> BOOLEAN]
  /\ stream \in [Tasks -> StreamStates]
  /\ sent \in [Tasks -> Seq(Events)]
  /\ terminalSeen \subseteq Tasks /\ tasks \subseteq Tasks /\ cancelled \subseteq Tasks
  /\ singletons \in [Keys -> Tasks \cup {NoTask}]
  /\ pump \in [Tasks -> PumpPcs]
  /\ pending \in [Tasks -> [event : Events, next : {"select", "kill", "done"}]]
  /\ chan \in [Tasks -> Seq(Events)]
  /\ \A t \in Tasks : Len(chan[t]) <= Capacity
  /\ child \in [Tasks -> ChildStates]
  /\ out \in [Tasks -> Seq(Lines)]
  /\ said \in [Tasks -> Nat]

Init ==
  /\ page = [t \in Tasks |-> "idle"]
  /\ cancelSent = [t \in Tasks |-> FALSE]
  /\ stream = [t \in Tasks |-> "none"]
  /\ sent = [t \in Tasks |-> <<>>]
  /\ terminalSeen = {} /\ tasks = {} /\ cancelled = {}
  /\ singletons = [k \in Keys |-> NoTask]
  /\ pump = [t \in Tasks |-> "none"]
  /\ pending = [t \in Tasks |-> Idle]
  /\ chan = [t \in Tasks |-> <<>>]
  /\ child = [t \in Tasks |-> "none"]
  /\ out = [t \in Tasks |-> <<>>]
  /\ said = [t \in Tasks |-> 0]

-----------------------------------------------------------------------------
(* The request (start_task_handler).                                       *)

\* spawnWorker posts; the handler checks the token and reads the extension's row.
Post(t) ==
  /\ page[t] = "idle"
  /\ page' = [page EXCEPT ![t] = "posting"]
  /\ stream' = [stream EXCEPT ![t] = "starting"]
  /\ UNCHANGED <<cancelSent, sent, terminalSeen, hostVars, pumpVars, chan, childVars>>

\* Another status than 200 rejects the promise.
Refuse(t) ==
  /\ stream' = [stream EXCEPT ![t] = "refused"]
  /\ page' = [page EXCEPT ![t] = IF @ = "posting" THEN "rejected" ELSE @]
  /\ UNCHANGED <<cancelSent, sent, terminalSeen, hostVars, pumpVars, chan, childVars>>

\* No such extension, disabled, no worker; or the page is gone, and the handler
\* is dropped where it waits.
StartRefused(t) == stream[t] = "starting" /\ Refuse(t)

\* claim_singleton finds the key taken
KeyTaken(t) == KeyOf[t] # NoKey /\ singletons[KeyOf[t]] # NoTask

StartConflicts(t) == stream[t] = "starting" /\ KeyTaken(t) /\ Refuse(t)

\* claim_singleton, register_task and the pump's start, with no await between.
StartAccepted(t) ==
  /\ stream[t] = "starting" /\ ~KeyTaken(t)
  /\ singletons' = [k \in Keys |-> IF k = KeyOf[t] THEN t ELSE singletons[k]]
  /\ tasks' = tasks \cup {t}
  /\ stream' = [stream EXCEPT ![t] = "open"]
  /\ pump' = [pump EXCEPT ![t] = "prepare"]
  /\ UNCHANGED <<pageVars, sent, terminalSeen, cancelled, pending, chan, childVars>>

-----------------------------------------------------------------------------
(* The pump.  terminal_sent is still false wherever its loop begins anew:  *)
(* what sends a terminal event breaks out of it.                           *)

SendNext(t, e, next) ==
  /\ pump' = [pump EXCEPT ![t] = "send"]
  /\ pending' = [pending EXCEPT ![t] = [event |-> e, next |-> next]]

\* One of the preparations fails: database, directories, bundle, hosts, spawn.
PrepareFails(t) ==
  /\ pump[t] = "prepare"
  /\ SendNext(t, HostError, "done")
  /\ UNCHANGED <<pageVars, streamVars, hostVars, chan, childVars>>

\* The database is prepared, the child spawned, its init written.
SpawnChild(t) ==
  /\ pump[t] = "prepare"
  /\ pump' = [pump EXCEPT ![t] = "select"]
  /\ child' = [child EXCEPT ![t] = "booting"]
  /\ UNCHANGED <<pageVars, streamVars, hostVars, pending, chan, out, said>>

\* The child is spawned, but its stdin is closed already.
InitUnwritten(t) ==
  /\ pump[t] = "prepare"
  /\ SendNext(t, HostError, "kill")
  /\ child' = [child EXCEPT ![t] = "dead"]
  /\ UNCHANGED <<pageVars, streamVars, hostVars, chan, out, said>>

HasRoom(t) == Len(chan[t]) < Capacity

\* event_tx.send returns: the event is in the channel, or nobody receives.
Send(t) ==
  /\ pump[t] = "send"
  /\ \/ stream[t] # "open" /\ chan' = chan
     \/ /\ stream[t] = "open" /\ HasRoom(t)
        /\ chan' = [chan EXCEPT ![t] = Append(@, pending[t].event)]
  /\ pump' = [pump EXCEPT ![t] = pending[t].next]
  /\ pending' = [pending EXCEPT ![t] = Idle]
  /\ UNCHANGED <<pageVars, streamVars, hostVars, childVars>>

\* What the child printed and the pump will not read.
Unread(t) == out' = [out EXCEPT ![t] = <<>>]

\* child.kill() after the answer was passed on, and the pump returns.
Kill(t) ==
  /\ pump[t] = "kill"
  /\ child' = [child EXCEPT ![t] = "dead"]
  /\ pump' = [pump EXCEPT ![t] = "done"]
  /\ Unread(t)
  /\ UNCHANGED <<pageVars, streamVars, hostVars, pending, chan, said>>

\* Variant: a cancelled child is left to itself.
LeftRunning(t) == child[t]

AfterCancel(t) == "dead"

\* The select is biased: a cancel, or a dropped sender, comes before any line.
SeesCancel(t) ==
  /\ pump[t] = "select" /\ t \in cancelled
  /\ child' = [child EXCEPT ![t] = AfterCancel(t)]
  /\ SendNext(t, HostError, "done")
  /\ Unread(t)
  /\ UNCHANGED <<pageVars, streamVars, hostVars, chan, said>>

Reads(t, kinds) ==
  /\ pump[t] = "select" /\ t \notin cancelled
  /\ out[t] # <<>> /\ Head(out[t]).kind \in kinds

\* init is answered: runTask is written.
ReadsInitOk(t) ==
  /\ Reads(t, {"initOk"})
  /\ child' = [child EXCEPT ![t] = IF @ = "ready" THEN "running" ELSE @]
  /\ out' = [out EXCEPT ![t] = Tail(@)]
  /\ UNCHANGED <<pageVars, streamVars, hostVars, pumpVars, chan, said>>

\* init failed, or runTask cannot be written.
ReadsInitErr(t) ==
  /\ \/ Reads(t, {"initErr"})
     \/ Reads(t, {"initOk"}) /\ child[t] = "dead"
  /\ child' = [child EXCEPT ![t] = "dead"]
  /\ SendNext(t, HostError, "done")
  /\ Unread(t)
  /\ UNCHANGED <<pageVars, streamVars, hostVars, chan, said>>

\* forward_notification
ReadsLog(t) ==
  /\ Reads(t, {"log"})
  /\ out' = [out EXCEPT ![t] = Tail(@)]
  /\ SendNext(t, Head(out[t]), "select")
  /\ UNCHANGED <<pageVars, streamVars, hostVars, chan, child, said>>

\* Variant: the loop goes on after the answer.
AfterAnswerOn == "select"

AfterAnswer == "kill"

ReadsAnswer(t) ==
  /\ Reads(t, {"result", "error"})
  /\ out' = [out EXCEPT ![t] = Tail(@)]
  /\ SendNext(t, Head(out[t]), AfterAnswer)
  /\ UNCHANGED <<pageVars, streamVars, hostVars, chan, child, said>>

\* Variants: the end of a process is not seen; it is seen, and nothing sent.
ExitUnseen(t) == FALSE
AfterExitNothing == "done"

\* Terminated comes after all that was printed.
ExitSeen(t) == child[t] = "dead" /\ out[t] = <<>>

AfterExit == "send"

SeesExit(t) ==
  /\ pump[t] = "select" /\ t \notin cancelled /\ ExitSeen(t)
  /\ pump' = [pump EXCEPT ![t] = AfterExit]
  /\ pending' = [pending EXCEPT ![t] = [event |-> HostError, next |-> "done"]]
  /\ UNCHANGED <<pageVars, streamVars, hostVars, chan, childVars>>

-----------------------------------------------------------------------------
(* The child (packages/extension-host) and the extension's handler in it.  *)

Prints(t, line) == out' = [out EXCEPT ![t] = Append(@, line)]

ChildInit(t) ==
  /\ child[t] = "booting"
  /\ child' = [child EXCEPT ![t] = "ready"]
  /\ \E line \in InitLines : Prints(t, line)
  /\ UNCHANGED <<pageVars, streamVars, hostVars, pumpVars, chan, said>>

\* host.log, which what the handler left behind may still call after its answer.
ChildLogs(t) ==
  /\ child[t] \in {"running", "answered"} /\ said[t] < MaxLogs[t]
  /\ said' = [said EXCEPT ![t] = @ + 1]
  /\ Prints(t, Log(said[t] + 1))
  /\ UNCHANGED <<pageVars, streamVars, hostVars, pumpVars, chan, child>>

ChildAnswers(t) ==
  /\ child[t] = "running"
  /\ child' = [child EXCEPT ![t] = "answered"]
  /\ \E k \in {"result", "error"} : Prints(t, [kind |-> k, n |-> said[t]])
  /\ UNCHANGED <<pageVars, streamVars, hostVars, pumpVars, chan, said>>

\* It crashes, or exits.
ChildDies(t) ==
  /\ child[t] \in Alive
  /\ child' = [child EXCEPT ![t] = "dead"]
  /\ UNCHANGED <<pageVars, streamVars, hostVars, pumpVars, chan, out, said>>

-----------------------------------------------------------------------------
(* The stream of the response, and the page that reads it.                 *)

\* The first event, "started", with the id.
ReadsStarted(t) ==
  /\ page[t] = "posting" /\ stream[t] = "open"
  /\ page' = [page EXCEPT ![t] = "reading"]
  /\ UNCHANGED <<cancelSent, streamVars, hostVars, pumpVars, chan, childVars>>

\* The next event leaves the channel for the page, if the page still reads.
StreamYields(t) ==
  /\ stream[t] = "open" /\ chan[t] # <<>> /\ page[t] # "posting"
  /\ chan' = [chan EXCEPT ![t] = Tail(@)]
  /\ sent' = [sent EXCEPT ![t] = Append(@, Head(chan[t]))]
  /\ terminalSeen' = IF Terminal(Head(chan[t])) THEN terminalSeen \cup {t} ELSE terminalSeen
  /\ page' = [page EXCEPT ![t] =
                IF @ # "reading" \/ ~Terminal(Head(chan[t])) THEN @
                ELSE IF Head(chan[t]).kind = "result" THEN "resolved" ELSE "rejected"]
  /\ UNCHANGED <<cancelSent, stream, hostVars, pumpVars, childVars>>

\* Variants: the claim is left; the id is left once a terminal event is seen.
ReleasedNone(t) == singletons
UnregisteredSome(t) == IF t \in terminalSeen THEN tasks ELSE tasks \ {t}

\* release_singletons_for_task, unregister_task
Released(t) == [k \in Keys |-> IF singletons[k] = t THEN NoTask ELSE singletons[k]]
Unregistered(t) == tasks \ {t}

\* The receiver and the guard are dropped.  Whether the guard cancels or only
\* unregisters, the sender is gone from the map, and the pump's end of it resolves.
DropStream(t) ==
  /\ stream' = [stream EXCEPT ![t] = "closed"]
  /\ chan' = [chan EXCEPT ![t] = <<>>]
  /\ tasks' = Unregistered(t)
  /\ cancelled' = cancelled \cup (tasks \ tasks')
  /\ singletons' = Released(t)
  /\ UNCHANGED <<cancelSent, sent, terminalSeen, pumpVars, childVars>>

\* The pump is gone and the channel empty.
StreamEnds(t) ==
  /\ stream[t] = "open" /\ chan[t] = <<>> /\ pump[t] = "done"
  /\ page[t] # "posting"
  /\ page' = [page EXCEPT ![t] = IF @ = "reading" THEN "cutOff" ELSE @]
  /\ DropStream(t)

\* The server finds the connection closed.
StreamAbandoned(t) ==
  /\ stream[t] = "open" /\ page[t] = "aborted"
  /\ page' = page
  /\ DropStream(t)

\* The page closes, or calls cancel(), which also posts a request if the id is known.
PageAborts(t) ==
  /\ page[t] \in {"posting", "reading"}
  /\ page' = [page EXCEPT ![t] = "aborted"]
  /\ \E sends \in {FALSE, page[t] = "reading"} :
       cancelSent' = [cancelSent EXCEPT ![t] = sends]
  /\ UNCHANGED <<streamVars, hostVars, pumpVars, chan, childVars>>

\* cancel_task_by_id
CancelArrives(t) ==
  /\ cancelSent[t]
  /\ cancelSent' = [cancelSent EXCEPT ![t] = FALSE]
  /\ tasks' = tasks \ {t}
  /\ cancelled' = cancelled \cup (tasks \cap {t})
  /\ UNCHANGED <<page, streamVars, singletons, pumpVars, chan, childVars>>

-----------------------------------------------------------------------------
RequestSteps(t) == StartRefused(t) \/ StartConflicts(t) \/ StartAccepted(t)

PumpSteps(t) ==
  \/ PrepareFails(t) \/ SpawnChild(t) \/ InitUnwritten(t) \/ Send(t) \/ Kill(t)
  \/ SeesCancel(t) \/ ReadsInitOk(t) \/ ReadsInitErr(t) \/ ReadsLog(t)
  \/ ReadsAnswer(t) \/ SeesExit(t)

ChildSteps(t) == ChildInit(t) \/ ChildLogs(t) \/ ChildAnswers(t) \/ ChildDies(t)

StreamSteps(t) ==
  ReadsStarted(t) \/ StreamYields(t) \/ StreamEnds(t) \/ StreamAbandoned(t)

Next ==
  \E t \in Tasks :
    \/ Post(t) \/ RequestSteps(t) \/ PumpSteps(t) \/ ChildSteps(t) \/ StreamSteps(t)
    \/ PageAborts(t) \/ CancelArrives(t)

Spec == Init /\ [][Next]_vars

\* The server runs its tasks, and the page reads.  Nothing is asked of the child.
FairSpec ==
  /\ Spec
  /\ \A t \in Tasks : /\ WF_vars(RequestSteps(t))
                      /\ WF_vars(PumpSteps(t))
                      /\ WF_vars(StreamSteps(t))

-----------------------------------------------------------------------------
(* What should be true of it.                                              *)

\* "single-flight": a key is held by the task whose stream is open and by no
\* other, so that whatever becomes of page, pump and child, it is free again.
ClaimsFollowStreams ==
  \A t \in Tasks :
    KeyOf[t] # NoKey => (stream[t] = "open" <=> singletons[KeyOf[t]] = t)

\* The page gets the logs in order, none missing before a result, and nothing
\* after a result or an error.
EventsInOrder ==
  \A t \in Tasks : \A i \in 1..Len(sent[t]) :
    /\ sent[t][i].kind = "log" => sent[t][i].n = i
    /\ Terminal(sent[t][i]) => i = Len(sent[t])
    /\ sent[t][i].kind = "result" => sent[t][i].n = i - 1

\* No page is left with "worker.spawn stream ended without result".
NeverCutOff == \A t \in Tasks : page[t] # "cutOff"

\* "cancel to avoid leaking a Deno child" (the guard): once the page is done,
\* with or without an answer, so are the child, its pump and its entries.
NoLeakedChild ==
  \A t \in Tasks :
    page[t] \in Settled ~>
      /\ stream[t] \in {"refused", "closed"} /\ pump[t] \in {"none", "done"}
      /\ child[t] \notin Alive /\ t \notin tasks

\* The end of the child, whatever its cause, reaches the page that waits.
DeathIsReported ==
  \A t \in Tasks : child[t] = "dead" /\ page[t] = "reading" ~> page[t] \in Settled

=============================================================================
