-------------------------------- MODULE Topic --------------------------------
(***************************************************************************)
(* One topic of one xmqd node (xmqd/topic.go), with the goroutines that    *)
(* call it and the Raft front end through which its calls go               *)
(* (xmqd/xmq_cluster.go):                                                  *)
(*                                                                         *)
(*   - callers (protocol and HTTP handlers, XMQD.Exit), each with one call *)
(*     in progress: PutMessage, PutMessages, GetChannel,                   *)
(*     DeleteExistingChannel, Pause, UnPause, Empty, Close and             *)
(*     XMQD.DeleteExistingTopic;                                           *)
(*   - the topic's messagePump;                                            *)
(*   - the goroutine in which Raft applies the log (XMQCluster.Apply), the *)
(*     only one that writes Topic.Channels and the only one that takes     *)
(*     the write side of Topic.RWMutex.                                    *)
(*                                                                         *)
(* Raft is a library: a command of the leader is appended to the log, the  *)
(* log is applied in order, one command at a time, and the call waits for  *)
(* the answer without a limit (the timeout of raft.Apply bounds the        *)
(* enqueueing only).  Leadership may be lost, or given up by XMQD.Exit,    *)
(* at any moment; a waiting call may then be told of an error whether or   *)
(* not its command is still applied.                                       *)
(***************************************************************************)
EXTENDS Integers, Sequences, FiniteSets

CONSTANTS Callers,          \* goroutines that make calls
          Msgs,             \* messages that may be published, once each
          Names,            \* channel names
          MemQueueSize,     \* capacity of memoryMsgChan
          DiskMayFail,      \* whether a write to the backend may fail
          Workloads,        \* what the callers may do
          MaxObjects,       \* bound: channel objects made for one name
          Apply,            \* the goroutine that applies the log
          Nobody            \* a command whose caller no longer waits


AllOps == {"PutMessage", "PutMessages", "GetChannel", "DeleteChannel",
           "Pause", "UnPause", "Empty", "DeleteTopic", "Close"}

\* What the callers do in a behaviour: which calls ("StepDown" lets the node
\* lose its leadership), for which channels, with how many messages.
WorkloadType == [calls : SUBSET (AllOps \cup {"StepDown"}),
                 names : SUBSET Names, msgs : Nat, ephemeral : BOOLEAN]

ASSUME TopicAssumption ==
    /\ MemQueueSize \in Nat
    /\ DiskMayFail \in BOOLEAN
    /\ Workloads \subseteq WorkloadType
    /\ MaxObjects \in Nat
    /\ Apply \notin Callers
    /\ Nobody \notin Callers \cup {Apply}
    /\ IsFiniteSet(Names)

VARIABLES
    workload,           \* never changes
    memoryMsgChan,      \* messages in memory
    backend,            \* messages on disk
    backendOpen,        \* FALSE after backend.Close or backend.Delete
    Channels,           \* map name -> number of its object, 0 when absent
    made,               \* objects made so far for each name
    ExitFlag, Paused,   \* the flags of Topic
    ctxDone,            \* ctxCancel has been called
    stored,             \* the topic is in XMQCluster.topics
    deleter,            \* the sync.Once that runs deleteCallback has fired
    readers,            \* callers inside RLock, and
    leaked,             \* read locks that nobody will release
    writer,             \* "none", "pending" (new readers wait) or "held"
    leader,             \* r.State() = raft.Leader
    log,                \* commands appended and not yet applied
    reply,              \* what each waiting goroutine was answered
    call,               \* the call each caller is in
    startChan,          \* a token is in startChan
    pumpPC, pumpMsg,    \* messagePump and the message in its hand
    chans, left,        \* its list of channels, and those yet to be served
    reading,            \* its memoryMsgChan and backendChan are not nil
    applyPC, command,   \* the goroutine that applies the log
    crashed,            \* the process died of a fatal error in sync
    issued, accepted,   \* messages given to Put; messages queued by it
    done,               \* messages the pump has finished with
    handed,             \* the channel objects each message was handed to
    known,              \* channel objects GetChannel has returned
    due                 \* known channels when a message began to be published

queueVars == <<memoryMsgChan, backend, backendOpen>>
mapVars == <<Channels, made>>
exitVars == <<ExitFlag, ctxDone, stored, deleter>>
lockVars == <<readers, leaked, writer>>
raftVars == <<leader, log, reply>>
pumpVars == <<startChan, pumpPC, pumpMsg, chans, left, reading>>
applyVars == <<applyPC, command>>
histVars == <<issued, accepted, done, handed, known, due>>

vars == <<workload, queueVars, mapVars, exitVars, Paused, lockVars, raftVars,
          call, pumpVars, applyVars, crashed, histVars>>

Ops == workload.calls

Ephemeral == workload.ephemeral     \* the topic's name ends in #ephemeral

NoName == "none"

\* A channel object is its name and a number: two NewChannel commands for one
\* name make two objects.  Number 0 is a nil pointer.
NoChannel == <<NoName, 0>>

\* A caller: where it is, the channel it asked for, the messages it has yet
\* to queue and the TopicUpdates it has yet to make.
Call(pc, op, chan, ms) ==
    [pc |-> pc, op |-> op, chan |-> chan, batch |-> ms, todo |-> 2]

Idle == Call("idle", "none", NoChannel, {})

\* A command of the log.
Entry(cmd, name, val, from) ==
    [cmd |-> cmd, name |-> name, val |-> val, from |-> from]

NoEntry == Entry("Count", NoName, FALSE, Nobody)

\* ClusterNewTopic has just stored the topic; its messagePump runs and the
\* goroutine that applied NewTopic has yet to call Start.
Init ==
    /\ workload \in Workloads
    /\ memoryMsgChan = {} /\ backend = {} /\ backendOpen = TRUE
    /\ Channels = [n \in Names |-> 0] /\ made = [n \in Names |-> 0]
    /\ ExitFlag = FALSE /\ Paused = FALSE /\ ctxDone = FALSE
    /\ stored = TRUE /\ deleter = FALSE
    /\ readers = {} /\ leaked = 0 /\ writer = "none"
    /\ leader = TRUE /\ log = <<>>
    /\ reply = [g \in Callers \cup {Apply} |-> "none"]
    /\ call = [c \in Callers |-> Idle]
    /\ startChan = FALSE
    /\ pumpPC = "starting" /\ pumpMsg = {} /\ chans = <<>> /\ left = <<>>
    /\ reading = FALSE
    /\ applyPC = "start" /\ command = NoEntry
    /\ crashed = FALSE
    /\ issued = {} /\ accepted = {} /\ done = {}
    /\ handed = [m \in Msgs |-> <<>>]
    /\ known = {} /\ due = [m \in Msgs |-> {}]

-----------------------------------------------------------------------------
(* Topic.RWMutex.  A writer that has announced itself keeps new readers    *)
(* out; unlocking a mutex that is not locked kills the process.            *)

RLockFree == writer = "none"

WriterMayEnter == readers = {} /\ leaked = 0

Unlock ==
    /\ crashed' = (writer = "none")
    /\ writer' = "none"

-----------------------------------------------------------------------------
(* The calls that go through Raft.  On a node that is not the leader they  *)
(* return an error at once; on the leader the goroutine waits for its      *)
(* command to be applied.                                                  *)

Goto(c, label) == call' = [call EXCEPT ![c].pc = label]

Return(c) == call' = [call EXCEPT ![c] = Idle]

\* cluster.NewChannel, TopicUpdate, DeleteChannel and DeleteTopic.
Submitted(cmd, name, val, from) ==
    /\ leader
    /\ log' = Append(log, Entry(cmd, name, val, from))
    /\ UNCHANGED <<leader, reply>>

Refused == ~leader /\ UNCHANGED raftVars

\* future.Error() and future.Response() return to the caller.
Answered(g) ==
    /\ reply[g] # "none"
    /\ reply' = [reply EXCEPT ![g] = "none"]
    /\ UNCHANGED <<leader, log>>

-----------------------------------------------------------------------------
(* Topic.PutMessage and Topic.PutMessages, under RLock from the first step *)
(* to the last.  A call that finds ExitFlag set changes nothing.           *)

CallPut(c, op, ms) ==
    /\ call[c].pc = "idle" /\ op \in Ops \cap {"PutMessage", "PutMessages"}
    /\ op = "PutMessage" => Cardinality(ms) = 1
    /\ ms # {} /\ ms \cap issued = {}
    /\ Cardinality(issued \cup ms) <= workload.msgs
    /\ RLockFree /\ ~ExitFlag
    /\ readers' = readers \cup {c}
    /\ call' = [call EXCEPT ![c] = Call("put", op, NoChannel, ms)]
    /\ issued' = issued \cup ms
    /\ due' = [m \in Msgs |-> IF m \in ms THEN known ELSE due[m]]
    /\ UNCHANGED <<queueVars, mapVars, exitVars, Paused, leaked, writer,
                   raftVars, pumpVars, applyVars, crashed, accepted, done,
                   handed, known>>

MemoryHasRoom == Cardinality(memoryMsgChan) < MemQueueSize

\* Variant: a full memory queue loses the message.
put_NoBackend(m) ==
    /\ memoryMsgChan' = IF MemoryHasRoom THEN memoryMsgChan \cup {m}
                                         ELSE memoryMsgChan
    /\ accepted' = accepted \cup {m}
    /\ UNCHANGED backend

\* Topic.put when it returns nil.  The backend of an ephemeral topic forgets
\* what it is given.
put(m) ==
    \/ /\ MemoryHasRoom
       /\ memoryMsgChan' = memoryMsgChan \cup {m}
       /\ accepted' = accepted \cup {m}
       /\ UNCHANGED backend
    \/ /\ ~MemoryHasRoom /\ ~Ephemeral /\ backendOpen
       /\ backend' = backend \cup {m}
       /\ accepted' = accepted \cup {m}
       /\ UNCHANGED memoryMsgChan
    \/ /\ ~MemoryHasRoom /\ Ephemeral
       /\ UNCHANGED <<memoryMsgChan, backend, accepted>>

Put(c, m) ==
    /\ call[c].pc = "put" /\ m \in call[c].batch
    /\ put(m)
    /\ call' = [call EXCEPT ![c].batch = @ \ {m},
                            ![c].pc = IF call[c].batch = {m} THEN "update"
                                                             ELSE "put"]
    /\ UNCHANGED <<backendOpen, mapVars, exitVars, Paused, lockVars, raftVars,
                   pumpVars, applyVars, crashed, issued, done, handed, known,
                   due>>

\* The backend reports an error.  PutMessage returns it; PutMessages first
\* accounts for the messages of the batch that it has queued.
PutFails(c) ==
    /\ call[c].pc = "put"
    /\ ~MemoryHasRoom /\ ~Ephemeral
    /\ backendOpen => DiskMayFail
    /\ IF call[c].op = "PutMessage"
          THEN Return(c) /\ readers' = readers \ {c}
          ELSE /\ call' = [call EXCEPT ![c].batch = {}, ![c].pc = "update"]
               /\ UNCHANGED readers
    /\ UNCHANGED <<queueVars, mapVars, exitVars, Paused, leaked, writer,
                   raftVars, pumpVars, applyVars, crashed, histVars>>

\* Variant: one TopicUpdate too many.
PutUpdate_OneMore(c) ==
    /\ call[c].pc = "update"
    /\ \/ /\ Submitted("Count", NoName, FALSE, c)
          /\ call' = [call EXCEPT ![c].todo = @ - 1, ![c].pc = "updateWait"]
       \/ /\ Refused
          /\ call' = [call EXCEPT ![c].todo = @ - 1]
    /\ UNCHANGED <<queueVars, mapVars, exitVars, Paused, lockVars, pumpVars,
                   applyVars, crashed, histVars>>

\* cluster.TopicUpdate of MessageCount and of MessageBytes.
PutUpdate(c) ==
    /\ call[c].pc = "update" /\ call[c].todo > 0
    /\ \/ /\ Submitted("Count", NoName, FALSE, c)
          /\ call' = [call EXCEPT ![c].todo = @ - 1, ![c].pc = "updateWait"]
       \/ /\ Refused
          /\ call' = [call EXCEPT ![c].todo = @ - 1]
    /\ UNCHANGED <<queueVars, mapVars, exitVars, Paused, lockVars, pumpVars,
                   applyVars, crashed, histVars>>

PutUpdated(c) ==
    /\ call[c].pc = "updateWait"
    /\ Answered(c)
    /\ Goto(c, "update")
    /\ UNCHANGED <<queueVars, mapVars, exitVars, Paused, lockVars, pumpVars,
                   applyVars, crashed, histVars>>

PutReturns(c) ==
    /\ call[c].pc = "update" /\ call[c].todo = 0
    /\ readers' = readers \ {c}
    /\ Return(c)
    /\ UNCHANGED <<queueVars, mapVars, exitVars, Paused, leaked, writer,
                   raftVars, pumpVars, applyVars, crashed, histVars>>

-----------------------------------------------------------------------------
(* Topic.GetChannel and Topic.getOrCreateChannel.                          *)

\* Variant: a channel that was already there is not announced to the pump.
CallGetChannel_OnlyNew(c, n) ==
    /\ call[c].pc = "idle" /\ "GetChannel" \in Ops
    /\ Channels[n] = 0 => made[n] < MaxObjects
    /\ RLockFree
    /\ IF Channels[n] # 0
          THEN known' = known \cup {<<n, Channels[n]>>} /\ UNCHANGED call
          ELSE /\ call' = [call EXCEPT ![c] =
                              Call("getApply", "GetChannel", <<n, 0>>, {})]
               /\ UNCHANGED known
    /\ UNCHANGED <<queueVars, mapVars, exitVars, Paused, lockVars, raftVars,
                   pumpVars, applyVars, crashed, issued, accepted, done,
                   handed, due>>

CallGetChannel(c, n) ==
    /\ call[c].pc = "idle" /\ "GetChannel" \in Ops
    /\ Channels[n] = 0 => made[n] < MaxObjects
    /\ RLockFree
    /\ call' = [call EXCEPT ![c] =
                   Call(IF Channels[n] # 0 THEN "getRead" ELSE "getApply",
                        "GetChannel", <<n, 0>>, {})]
    /\ UNCHANGED <<queueVars, mapVars, exitVars, Paused, lockVars, raftVars,
                   pumpVars, applyVars, crashed, histVars>>

\* cluster.NewChannel.  When it fails, getOrCreateChannel returns nil and true,
\* so GetChannel tells the pump all the same before it returns nil.
GetApply(c) ==
    /\ call[c].pc = "getApply"
    /\ \/ /\ Submitted("NewChannel", call[c].chan[1], FALSE, c)
          /\ Goto(c, "getWait")
       \/ Refused /\ Goto(c, "notify")
    /\ UNCHANGED <<queueVars, mapVars, exitVars, Paused, lockVars, pumpVars,
                   applyVars, crashed, histVars>>

GetAnswered(c) ==
    /\ call[c].pc = "getWait"
    /\ Answered(c)
    /\ Goto(c, IF reply[c] = "ok" THEN "getCheck" ELSE "notify")
    /\ UNCHANGED <<queueVars, mapVars, exitVars, Paused, lockVars, pumpVars,
                   applyVars, crashed, histVars>>

\* This RLock is not released when the channel is gone again; nil is returned,
\* and the pump told.
GetCheck(c) ==
    /\ call[c].pc = "getCheck"
    /\ RLockFree
    /\ IF Channels[call[c].chan[1]] # 0
          THEN Goto(c, "getRead") /\ UNCHANGED leaked
          ELSE Goto(c, "notify") /\ leaked' = leaked + 1
    /\ UNCHANGED <<queueVars, mapVars, exitVars, Paused, readers, writer,
                   raftVars, pumpVars, applyVars, crashed, histVars>>

\* return t.Channels[channelName], read without the lock.
GetRead(c) ==
    /\ call[c].pc = "getRead"
    /\ LET n == call[c].chan[1]
       IN  call' = [call EXCEPT ![c].chan = <<n, Channels[n]>>,
                                ![c].pc = "notify"]
    /\ UNCHANGED <<queueVars, mapVars, exitVars, Paused, lockVars, raftVars,
                   pumpVars, applyVars, crashed, histVars>>

-----------------------------------------------------------------------------
(* Topic.DeleteExistingChannel.  Nothing locks the mutex it unlocks: the   *)
(* process dies, unless the goroutine that applies the log happens to be   *)
(* locking it, which then loses its lock.                                  *)

CallDeleteChannel(c, n) ==
    /\ call[c].pc = "idle" /\ "DeleteChannel" \in Ops
    /\ Submitted("DeleteChannel", n, FALSE, c)
    /\ call' = [call EXCEPT ![c] =
                   Call("deleteWait", "DeleteChannel", <<n, 0>>, {})]
    /\ UNCHANGED <<queueVars, mapVars, exitVars, Paused, lockVars, pumpVars,
                   applyVars, crashed, histVars>>

DeleteAnswered(c) ==
    /\ call[c].pc = "deleteWait"
    /\ Answered(c)
    /\ IF reply[c] = "ok" THEN Goto(c, "deleteUnlock") ELSE Return(c)
    /\ UNCHANGED <<queueVars, mapVars, exitVars, Paused, lockVars, pumpVars,
                   applyVars, crashed, histVars>>

LastOfEphemeral == Ephemeral /\ \A n \in Names : Channels[n] = 0

DeleteUnlock(c) ==
    /\ call[c].pc = "deleteUnlock"
    /\ Unlock
    /\ Goto(c, IF LastOfEphemeral THEN "notifyLast" ELSE "notify")
    /\ UNCHANGED <<queueVars, mapVars, exitVars, Paused, readers, leaked,
                   raftVars, pumpVars, applyVars, histVars>>

-----------------------------------------------------------------------------
(* The end of GetChannel and DeleteExistingChannel: a send on              *)
(* channelUpdateChan, which the pump receives at once or between two       *)
(* messages, given up when the topic exits.                                *)

PumpReceives(then) ==
    /\ pumpPC \in {"starting", "select"}
    /\ pumpPC' = IF pumpPC = "select" THEN then ELSE "starting"
    /\ UNCHANGED <<startChan, pumpMsg, chans, left, reading>>

TopicExited == ctxDone /\ UNCHANGED pumpVars

\* Variant: the send does not end when the topic exits.
Notified_IgnoresExit == PumpReceives("reload")

Notified == PumpReceives("reload") \/ TopicExited

NotifyChannel(c) ==
    /\ call[c].pc = "notify"
    /\ Notified
    /\ Return(c)
    /\ known' = IF call[c].chan[2] = 0 THEN known
                                       ELSE known \cup {call[c].chan}
    /\ UNCHANGED <<queueVars, mapVars, exitVars, Paused, lockVars, raftVars,
                   applyVars, crashed, issued, accepted, done, handed, due>>

\* The last channel of an ephemeral topic is gone: deleteCallback, once.
NotifyLast(c) ==
    /\ call[c].pc = "notifyLast"
    /\ Notified
    /\ Return(c)
    /\ deleter' = TRUE
    /\ IF deleter
          THEN UNCHANGED raftVars
          ELSE Submitted("DeleteTopic", NoName, FALSE, Nobody) \/ Refused
    /\ UNCHANGED <<queueVars, mapVars, ExitFlag, ctxDone, stored, Paused,
                   lockVars, applyVars, crashed, histVars>>

-----------------------------------------------------------------------------
(* Topic.doPause, Topic.Empty, and XMQD.DeleteExistingTopic.               *)

CallPause(c, op) ==
    /\ call[c].pc = "idle" /\ op \in Ops \cap {"Pause", "UnPause"}
    /\ Paused' = (op = "Pause")
    /\ call' = [call EXCEPT ![c] = Call("pauseUpdate", op, NoChannel, {})]
    /\ UNCHANGED <<queueVars, mapVars, exitVars, lockVars, raftVars, pumpVars,
                   applyVars, crashed, histVars>>

PauseUpdate(c) ==
    /\ call[c].pc = "pauseUpdate"
    /\ \/ Submitted("Paused", NoName, Paused, c) /\ Goto(c, "pauseWait")
       \/ Refused /\ Goto(c, "pauseNotify")
    /\ UNCHANGED <<queueVars, mapVars, exitVars, Paused, lockVars, pumpVars,
                   applyVars, crashed, histVars>>

PauseUpdated(c) ==
    /\ call[c].pc = "pauseWait"
    /\ Answered(c)
    /\ Goto(c, "pauseNotify")
    /\ UNCHANGED <<queueVars, mapVars, exitVars, Paused, lockVars, pumpVars,
                   applyVars, crashed, histVars>>

\* Variant: the send on pauseChan is given up when the pump is busy.
PauseNotified_NonBlocking ==
    PumpReceives("repause") \/ UNCHANGED pumpVars

PauseNotified == PumpReceives("repause") \/ TopicExited

PauseNotify(c) ==
    /\ call[c].pc = "pauseNotify"
    /\ PauseNotified
    /\ Return(c)
    /\ UNCHANGED <<queueVars, mapVars, exitVars, Paused, lockVars, raftVars,
                   applyVars, crashed, histVars>>

CallEmpty(c) ==
    /\ call[c].pc = "idle" /\ "Empty" \in Ops
    /\ call' = [call EXCEPT ![c] = Call("empty", "Empty", NoChannel, {})]
    /\ UNCHANGED <<queueVars, mapVars, exitVars, Paused, lockVars, raftVars,
                   pumpVars, applyVars, crashed, histVars>>

\* One turn of the loop of Topic.Empty takes a message out of memory.
DropOne ==
    \E m \in memoryMsgChan :
        /\ memoryMsgChan' = memoryMsgChan \ {m}
        /\ accepted' = accepted \ {m}

EmptyMemory(c) ==
    /\ call[c].pc = "empty"
    /\ DropOne
    /\ UNCHANGED <<backend, backendOpen, mapVars, exitVars, Paused, lockVars,
                   raftVars, call, pumpVars, applyVars, crashed, issued, done,
                   handed, known, due>>

EmptyBackend(c) ==
    /\ call[c].pc = "empty" /\ memoryMsgChan = {}
    /\ backend' = IF backendOpen THEN {} ELSE backend
    /\ accepted' = accepted \ (backend \ backend')
    /\ Return(c)
    /\ UNCHANGED <<memoryMsgChan, backendOpen, mapVars, exitVars, Paused,
                   lockVars, raftVars, pumpVars, applyVars, crashed, issued,
                   done, handed, known, due>>

CallDeleteTopic(c) ==
    /\ call[c].pc = "idle" /\ "DeleteTopic" \in Ops
    /\ Submitted("DeleteTopic", NoName, FALSE, c)
    /\ call' = [call EXCEPT ![c] =
                   Call("topicWait", "DeleteTopic", NoChannel, {})]
    /\ UNCHANGED <<queueVars, mapVars, exitVars, Paused, lockVars, pumpVars,
                   applyVars, crashed, histVars>>

DeleteTopicAnswered(c) ==
    /\ call[c].pc = "topicWait"
    /\ Answered(c)
    /\ Return(c)
    /\ UNCHANGED <<queueVars, mapVars, exitVars, Paused, lockVars, pumpVars,
                   applyVars, crashed, histVars>>

-----------------------------------------------------------------------------
(* Topic.Close, called by XMQD.Exit after it has shut Raft down:           *)
(* TopicUpdate is refused, and the pump is waited for.                     *)

CallClose(c) ==
    /\ call[c].pc = "idle" /\ "Close" \in Ops
    /\ ~leader /\ stored /\ ~ExitFlag
    /\ ExitFlag' = TRUE
    /\ call' = [call EXCEPT ![c] = Call("closeCancel", "Close", NoChannel, {})]
    /\ UNCHANGED <<queueVars, mapVars, ctxDone, stored, deleter, Paused,
                   lockVars, raftVars, pumpVars, applyVars, crashed, histVars>>

CloseCancel(c) ==
    /\ call[c].pc = "closeCancel"
    /\ ctxDone' = TRUE
    /\ Goto(c, "closeWait")
    /\ UNCHANGED <<queueVars, mapVars, ExitFlag, stored, deleter, Paused,
                   lockVars, raftVars, pumpVars, applyVars, crashed, histVars>>

\* Variant: exit does not wait for messagePump.
PumpGone_Assumed == TRUE

PumpGone == pumpPC = "exited"

CloseWait(c) ==
    /\ call[c].pc = "closeWait"
    /\ PumpGone
    /\ Goto(c, "closeChannels")
    /\ UNCHANGED <<queueVars, mapVars, exitVars, Paused, lockVars, raftVars,
                   pumpVars, applyVars, crashed, histVars>>

\* The channels are closed under RLock.
CloseChannels(c) ==
    /\ call[c].pc = "closeChannels"
    /\ RLockFree
    /\ Goto(c, "closeFlush")
    /\ UNCHANGED <<queueVars, mapVars, exitVars, Paused, lockVars, raftVars,
                   pumpVars, applyVars, crashed, histVars>>

CloseFlush(c) ==
    /\ call[c].pc = "closeFlush"
    /\ \E m \in memoryMsgChan :
          /\ memoryMsgChan' = memoryMsgChan \ {m}
          /\ \/ /\ ~Ephemeral /\ backendOpen
                /\ backend' = backend \cup {m} /\ UNCHANGED accepted
             \/ /\ ~Ephemeral /\ backendOpen => DiskMayFail
                /\ accepted' = accepted \ {m} /\ UNCHANGED backend
    /\ UNCHANGED <<backendOpen, mapVars, exitVars, Paused, lockVars, raftVars,
                   call, pumpVars, applyVars, crashed, issued, done, handed,
                   known, due>>

CloseBackend(c) ==
    /\ call[c].pc = "closeFlush" /\ memoryMsgChan = {}
    /\ backendOpen' = FALSE
    /\ Return(c)
    /\ UNCHANGED <<memoryMsgChan, backend, mapVars, exitVars, Paused,
                   lockVars, raftVars, pumpVars, applyVars, crashed, histVars>>

-----------------------------------------------------------------------------
(* Topic.messagePump.                                                      *)

Orders(S) == {s \in [1..Cardinality(S) -> S] :
                 \A i, j \in DOMAIN s : s[i] = s[j] => i = j}

Current == {<<n, Channels[n]>> : n \in {k \in Names : Channels[k] # 0}}

PumpStart ==
    /\ pumpPC = "starting" /\ startChan
    /\ startChan' = FALSE
    /\ pumpPC' = "reload"
    /\ UNCHANGED <<queueVars, mapVars, exitVars, Paused, lockVars, raftVars,
                   call, pumpMsg, chans, left, reading, applyVars, crashed,
                   histVars>>

\* Variant: the list is not cut to length zero before it is filled.
ReloadedChans_Appended(s) == chans' = chans \o s

ReloadedChans(s) == chans' = s

PumpReload ==
    /\ pumpPC = "reload"
    /\ RLockFree
    /\ \E s \in Orders(Current) : ReloadedChans(s)
    /\ reading' = (chans' # <<>> /\ ~Paused)
    /\ pumpPC' = "select"
    /\ UNCHANGED <<queueVars, mapVars, exitVars, Paused, lockVars, raftVars,
                   call, startChan, pumpMsg, left, applyVars, crashed,
                   histVars>>

\* Variant: a pump that was paused does not pick its queues up again.
Resumed_Never == reading /\ ~Paused

Resumed == chans # <<>> /\ ~Paused

PumpRepause ==
    /\ pumpPC = "repause"
    /\ reading' = Resumed
    /\ pumpPC' = "select"
    /\ UNCHANGED <<queueVars, mapVars, exitVars, Paused, lockVars, raftVars,
                   call, startChan, pumpMsg, chans, left, applyVars, crashed,
                   histVars>>

PumpReceive(m) ==
    /\ pumpPC = "select" /\ reading
    /\ \/ /\ m \in memoryMsgChan
          /\ memoryMsgChan' = memoryMsgChan \ {m} /\ UNCHANGED backend
       \/ /\ m \in backend
          /\ backend' = backend \ {m} /\ UNCHANGED memoryMsgChan
    /\ pumpMsg' = {m} /\ left' = chans
    /\ pumpPC' = "deliver"
    /\ UNCHANGED <<backendOpen, mapVars, exitVars, Paused, lockVars, raftVars,
                   call, startChan, chans, reading, applyVars, crashed,
                   histVars>>

\* channel.PutMessage or PutMessageDeferred; its error is logged.
PumpDeliver(m) ==
    /\ pumpPC = "deliver" /\ m \in pumpMsg /\ left # <<>>
    /\ handed' = [handed EXCEPT ![m] = Append(@, Head(left))]
    /\ left' = Tail(left)
    /\ UNCHANGED <<queueVars, mapVars, exitVars, Paused, lockVars, raftVars,
                   call, startChan, pumpPC, pumpMsg, chans, reading,
                   applyVars, crashed, issued, accepted, done, known, due>>

PumpNext ==
    /\ pumpPC = "deliver" /\ left = <<>>
    /\ done' = done \cup pumpMsg
    /\ pumpMsg' = {}
    /\ pumpPC' = "select"
    /\ UNCHANGED <<queueVars, mapVars, exitVars, Paused, lockVars, raftVars,
                   call, startChan, chans, left, reading, applyVars, crashed,
                   issued, accepted, handed, known, due>>

PumpExit ==
    /\ pumpPC \in {"starting", "select"} /\ ctxDone
    /\ pumpPC' = "exited"
    /\ UNCHANGED <<queueVars, mapVars, exitVars, Paused, lockVars, raftVars,
                   call, startChan, pumpMsg, chans, left, reading, applyVars,
                   crashed, histVars>>

-----------------------------------------------------------------------------
(* The goroutine that applies the log: XMQCluster.Apply.                   *)

Respond(from, what) ==
    reply' = IF from = Nobody THEN reply
                              ELSE [reply EXCEPT ![from] = what]

\* The end of ClusterNewTopic.
ApplyStart ==
    /\ applyPC = "start"
    /\ startChan' = TRUE
    /\ applyPC' = "idle"
    /\ UNCHANGED <<queueVars, mapVars, exitVars, Paused, lockVars, raftVars,
                   call, pumpPC, pumpMsg, chans, left, reading, command,
                   crashed, histVars>>

NextCommand(cmds) ==
    /\ applyPC = "idle" /\ log # <<>>
    /\ Head(log).cmd \in cmds

\* ClusterTopicUpdate.
ApplyTopicUpdate ==
    /\ NextCommand({"Count", "Paused", "ExitFlag"}) /\ stored
    /\ Paused' = IF Head(log).cmd = "Paused" THEN Head(log).val ELSE Paused
    /\ ExitFlag' = IF Head(log).cmd = "ExitFlag" THEN Head(log).val
                                                 ELSE ExitFlag
    /\ log' = Tail(log)
    /\ Respond(Head(log).from, "ok")
    /\ UNCHANGED <<queueVars, mapVars, ctxDone, stored, deleter, lockVars,
                   leader, call, pumpVars, applyVars, crashed, histVars>>

\* Every command for a topic that is not in the map fails.
ApplyRefused ==
    /\ applyPC = "idle" /\ log # <<>> /\ ~stored
    /\ log' = Tail(log)
    /\ Respond(Head(log).from, "err")
    /\ UNCHANGED <<queueVars, mapVars, exitVars, Paused, lockVars, leader,
                   call, pumpVars, applyVars, crashed, histVars>>

\* ClusterNewChannel and ClusterDeleteChannel up to t.Lock().
ApplyLock ==
    /\ NextCommand({"NewChannel", "DeleteChannel"}) /\ stored
    /\ command' = Head(log)
    /\ log' = Tail(log)
    /\ writer' = "pending"
    /\ applyPC' = "lock"
    /\ UNCHANGED <<queueVars, mapVars, exitVars, Paused, readers, leaked,
                   leader, reply, call, pumpVars, crashed, histVars>>

ApplyAcquire ==
    /\ applyPC = "lock"
    /\ WriterMayEnter
    /\ writer' = IF writer = "pending" THEN "held" ELSE "none"
    /\ applyPC' = "section"
    /\ UNCHANGED <<queueVars, mapVars, exitVars, Paused, readers, leaked,
                   raftVars, call, pumpVars, command, crashed, histVars>>

Finished(what) ==
    /\ Respond(command.from, what)
    /\ command' = NoEntry
    /\ applyPC' = "idle"

ApplyNewChannel ==
    /\ applyPC = "section" /\ command.cmd = "NewChannel"
    /\ made' = [made EXCEPT ![command.name] = @ + 1]
    /\ Channels' = [Channels EXCEPT ![command.name] = made'[command.name]]
    /\ Unlock
    /\ Finished("ok")
    /\ UNCHANGED <<queueVars, exitVars, Paused, readers, leaked, leader, log,
                   call, pumpVars, histVars>>

ApplyDeleteChannel ==
    /\ applyPC = "section" /\ command.cmd = "DeleteChannel"
    /\ Channels' = [Channels EXCEPT ![command.name] = 0]
    /\ Unlock
    /\ Finished("ok")
    /\ UNCHANGED <<queueVars, made, exitVars, Paused, readers, leaked, leader,
                   log, call, pumpVars, histVars>>

\* ClusterDeleteTopic calls Topic.exit(true) in this goroutine.  On the
\* leader its TopicUpdate waits for a command that only this goroutine could
\* apply.  A topic that is exiting already is only taken out of the map.
ApplyDeleteTopic ==
    /\ NextCommand({"DeleteTopic"}) /\ stored
    /\ \/ /\ ExitFlag
          /\ stored' = FALSE
          /\ log' = Tail(log)
          /\ Respond(Head(log).from, "ok")
          /\ UNCHANGED <<ExitFlag, leader, applyVars>>
       \/ /\ ~ExitFlag
          /\ ExitFlag' = TRUE
          /\ command' = Head(log)
          /\ log' = IF leader
                       THEN Append(Tail(log),
                                   Entry("ExitFlag", NoName, TRUE, Apply))
                       ELSE Tail(log)
          /\ applyPC' = IF leader THEN "selfWait" ELSE "exitCancel"
          /\ UNCHANGED <<stored, leader, reply>>
    /\ UNCHANGED <<queueVars, mapVars, ctxDone, deleter, Paused, lockVars,
                   call, pumpVars, crashed, histVars>>

ApplySelfAnswered ==
    /\ applyPC = "selfWait"
    /\ Answered(Apply)
    /\ applyPC' = "exitCancel"
    /\ UNCHANGED <<queueVars, mapVars, exitVars, Paused, lockVars, call,
                   pumpVars, command, crashed, histVars>>

ApplyExitCancel ==
    /\ applyPC = "exitCancel"
    /\ ctxDone' = TRUE
    /\ applyPC' = "exitWait"
    /\ UNCHANGED <<queueVars, mapVars, ExitFlag, stored, deleter, Paused,
                   lockVars, raftVars, call, pumpVars, command, crashed,
                   histVars>>

ApplyExitLock ==
    /\ applyPC = "exitWait"
    /\ PumpGone
    /\ writer' = "pending"
    /\ applyPC' = "exitLock"
    /\ UNCHANGED <<queueVars, mapVars, exitVars, Paused, readers, leaked,
                   raftVars, call, pumpVars, command, crashed, histVars>>

\* Under the lock cluster.DeleteChannel is called for every channel.  A node
\* that has come this far is not the leader: every call is refused and every
\* channel stays.
ApplyExitChannels ==
    /\ applyPC = "exitLock"
    /\ WriterMayEnter /\ ~leader
    /\ Unlock
    /\ applyPC' = "exitEmpty"
    /\ UNCHANGED <<queueVars, mapVars, exitVars, Paused, readers, leaked,
                   raftVars, call, pumpVars, command, histVars>>

ApplyExitMemory ==
    /\ applyPC = "exitEmpty"
    /\ DropOne
    /\ UNCHANGED <<backend, backendOpen, mapVars, exitVars, Paused, lockVars,
                   raftVars, call, pumpVars, applyVars, crashed, issued, done,
                   handed, known, due>>

\* backend.Empty, backend.Delete, and topics.Delete in ClusterDeleteTopic.
ApplyExitBackend ==
    /\ applyPC = "exitEmpty" /\ memoryMsgChan = {}
    /\ backend' = {} /\ backendOpen' = FALSE
    /\ accepted' = accepted \ backend
    /\ stored' = FALSE
    /\ Finished("ok")
    /\ UNCHANGED <<memoryMsgChan, mapVars, ExitFlag, ctxDone, deleter, Paused,
                   lockVars, leader, log, call, pumpVars, crashed, issued,
                   done, handed, known, due>>

-----------------------------------------------------------------------------
(* Raft.                                                                   *)

LoseLeadership ==
    /\ leader /\ {"StepDown", "Close"} \cap Ops # {}
    /\ leader' = FALSE
    /\ UNCHANGED <<queueVars, mapVars, exitVars, Paused, lockVars, log, reply,
                   call, pumpVars, applyVars, crashed, histVars>>

\* A call is told that leadership was lost or that Raft is shut down; its
\* command may be lost, or be applied all the same.
Abandon(i) ==
    /\ ~leader
    /\ i \in DOMAIN log /\ log[i].from # Nobody
    /\ reply' = [reply EXCEPT ![log[i].from] = "err"]
    /\ \/ log' = [log EXCEPT ![i].from = Nobody]
       \/ log' = SubSeq(log, 1, i - 1) \o SubSeq(log, i + 1, Len(log))
    /\ UNCHANGED <<queueVars, mapVars, exitVars, Paused, lockVars, leader,
                   call, pumpVars, applyVars, crashed, histVars>>

-----------------------------------------------------------------------------

CallerCalls(c) ==
    \/ \E op \in {"PutMessage", "PutMessages"}, ms \in SUBSET Msgs :
          CallPut(c, op, ms)
    \/ \E n \in workload.names : CallGetChannel(c, n)
    \/ \E n \in workload.names : CallDeleteChannel(c, n)
    \/ \E op \in {"Pause", "UnPause"} : CallPause(c, op)
    \/ CallEmpty(c)
    \/ CallDeleteTopic(c)
    \/ CallClose(c)

CallerGoesOn(c) ==
    \/ \E m \in Msgs : Put(c, m)
    \/ PutFails(c) \/ PutUpdate(c) \/ PutUpdated(c) \/ PutReturns(c)
    \/ GetApply(c) \/ GetAnswered(c) \/ GetCheck(c) \/ GetRead(c)
    \/ DeleteAnswered(c) \/ DeleteUnlock(c)
    \/ NotifyChannel(c) \/ NotifyLast(c)
    \/ PauseUpdate(c) \/ PauseUpdated(c) \/ PauseNotify(c)
    \/ EmptyMemory(c) \/ EmptyBackend(c)
    \/ DeleteTopicAnswered(c)
    \/ CloseCancel(c) \/ CloseWait(c) \/ CloseChannels(c) \/ CloseFlush(c)
    \/ CloseBackend(c)

PumpStep ==
    \/ PumpStart \/ PumpReload \/ PumpRepause \/ PumpNext \/ PumpExit
    \/ \E m \in Msgs : PumpReceive(m) \/ PumpDeliver(m)

ApplyStep ==
    \/ ApplyStart \/ ApplyTopicUpdate \/ ApplyRefused
    \/ ApplyLock \/ ApplyAcquire \/ ApplyNewChannel \/ ApplyDeleteChannel
    \/ ApplyDeleteTopic \/ ApplySelfAnswered \/ ApplyExitCancel
    \/ ApplyExitLock \/ ApplyExitChannels \/ ApplyExitMemory
    \/ ApplyExitBackend

RaftStep == LoseLeadership \/ \E i \in DOMAIN log : Abandon(i)

Next ==
    /\ ~crashed /\ UNCHANGED workload
    /\ \/ \E c \in Callers : CallerCalls(c) \/ CallerGoesOn(c)
       \/ PumpStep
       \/ ApplyStep
       \/ RaftStep

Spec == Init /\ [][Next]_vars

\* The cases of the pump's select: a caller's send, or what the pump takes by
\* itself.
SelectSend(c) == NotifyChannel(c) \/ NotifyLast(c) \/ PauseNotify(c)

SelectTake == PumpExit \/ \E m \in Msgs : PumpReceive(m)

Alive(A) == ~crashed /\ A /\ UNCHANGED workload

\* A goroutine that can take a step of a call, of the pump or of the log takes
\* it; a select with several ready cases picks each of them time and again.
FairSpec ==
    /\ Spec
    /\ \A c \in Callers : /\ WF_vars(Alive(CallerGoesOn(c)))
                          /\ SF_vars(Alive(SelectSend(c)))
    /\ WF_vars(Alive(PumpStep))
    /\ SF_vars(Alive(SelectTake))
    /\ WF_vars(Alive(ApplyStep))

-----------------------------------------------------------------------------
(* Properties.                                                             *)

CallLabels == {"idle", "put", "update", "updateWait", "getApply", "getWait",
               "getCheck", "getRead", "deleteWait", "deleteUnlock", "notify",
               "notifyLast", "pauseUpdate", "pauseWait", "pauseNotify",
               "empty", "topicWait", "closeCancel", "closeWait",
               "closeChannels", "closeFlush"}

Objects == Names \X (Nat \ {0})

\* Where a call has a channel's name in its hand.
NamedLabels == {"getApply", "getWait", "getCheck", "getRead", "deleteWait",
                "deleteUnlock", "notify", "notifyLast"}

EntryType ==
    [cmd : {"NewChannel", "DeleteChannel"}, name : Names, val : BOOLEAN,
     from : Callers \cup {Apply, Nobody}]
    \cup
    [cmd : {"Count", "Paused", "DeleteTopic"}, name : {NoName},
     val : BOOLEAN, from : Callers \cup {Apply, Nobody}]
    \cup
    [cmd : {"ExitFlag"}, name : {NoName}, val : {TRUE},
     from : Callers \cup {Apply, Nobody}]

CallType ==
    [pc : CallLabels, op : AllOps \cup {"none"},
     chan : (Names \cup {NoName}) \X Nat, batch : SUBSET Msgs, todo : 0..2]

QueueOK == /\ memoryMsgChan \subseteq Msgs /\ backend \subseteq Msgs
           /\ backendOpen \in BOOLEAN

MapOK == Channels \in [Names -> Nat] /\ made \in [Names -> Nat]

ExitOK == /\ ExitFlag \in BOOLEAN /\ ctxDone \in BOOLEAN
          /\ stored \in BOOLEAN /\ deleter \in BOOLEAN

LockOK == /\ readers \subseteq Callers /\ leaked \in Nat
          /\ writer \in {"none", "pending", "held"}

RaftOK == /\ leader \in BOOLEAN /\ log \in Seq(EntryType)
          /\ reply \in [Callers \cup {Apply} -> {"none", "ok", "err"}]

CallOK == /\ call \in [Callers -> CallType]
          /\ \A c \in Callers :
                call[c].pc \in NamedLabels => call[c].chan[1] \in Names

PumpOK == /\ startChan \in BOOLEAN
          /\ pumpPC \in {"starting", "reload", "repause", "select", "deliver",
                         "exited"}
          /\ pumpMsg \subseteq Msgs
          /\ chans \in Seq(Objects) /\ left \in Seq(Objects)
          /\ reading \in BOOLEAN

ApplyOK == /\ applyPC \in {"start", "idle", "lock", "section", "selfWait",
                           "exitCancel", "exitWait", "exitLock", "exitEmpty"}
           /\ command \in EntryType

HistOK == /\ issued \subseteq Msgs /\ accepted \subseteq Msgs
          /\ done \subseteq Msgs
          /\ handed \in [Msgs -> Seq(Objects)]
          /\ known \subseteq Objects
          /\ due \in [Msgs -> SUBSET Objects]

\* Every variable has its type, the one type invariant of the module: what
\* topic.go and xmq_cluster.go may store in the fields modelled here.
TypeOK ==
    /\ workload \in Workloads
    /\ QueueOK /\ MapOK /\ ExitOK /\ Paused \in BOOLEAN /\ LockOK /\ RaftOK
    /\ CallOK /\ PumpOK /\ ApplyOK /\ crashed \in BOOLEAN /\ HistOK

\* A message that Topic.put has queued is in memory, on disk, in the pump's
\* hand or finished with, in exactly one of them, whatever Empty, flush and
\* the pump take out of the queues at the same time.
Custody ==
    /\ accepted \subseteq memoryMsgChan \cup backend \cup pumpMsg \cup done
    /\ memoryMsgChan \cap (backend \cup pumpMsg \cup done) = {}
    /\ backend \cap (pumpMsg \cup done) = {}
    /\ pumpMsg \cap done = {}

\* The channel update that ends GetChannel does what it is for: a message
\* whose PutMessage began after GetChannel had returned a channel has been
\* handed to that channel when the pump is done with the message, unless the
\* channel is no longer in the map.
ReachesChannel ==
    \A m \in done : \A o \in due[m] :
        Channels[o[1]] = o[2] => \E i \in DOMAIN handed[m] : handed[m][i] = o

\* No channel object is handed the same message twice by messagePump.
HandedOnce ==
    \A m \in Msgs : \A i, j \in DOMAIN handed[m] :
        handed[m][i] = handed[m][j] => i = j

Pausing(c) == call[c].pc \in {"pauseUpdate", "pauseWait", "pauseNotify"}

\* Pause and UnPause may overlap, and the flag travels through the log: when
\* all of them have returned on the leader, a pump at its select reads the
\* queues exactly if it has channels and the topic is not paused.
PauseSettles ==
    leader /\ pumpPC = "select" /\ (\A c \in Callers : ~Pausing(c))
        => reading = (chans # <<>> /\ ~Paused)

\* Once exit has closed the backend no channel is handed a message: exit
\* waits for messagePump before it closes or deletes.
QuietAfterExit == [][~backendOpen => UNCHANGED handed]_vars

\* What holds a call for ever: a reader of the mutex waits for the log while
\* the goroutine that applies the log waits for the mutex; that goroutine
\* waits for a command of its own; a read lock was never released; the
\* process has died.
Stuck ==
    \/ crashed
    \/ applyPC = "selfWait"
    \/ /\ applyPC \in {"lock", "exitLock"}
       /\ \/ leaked > 0
          \/ \E c \in readers :
                call[c].pc = "updateWait" /\ reply[c] = "none"

\* Every call returns, unless it runs into one of those.
CallsReturn ==
    \A c \in Callers :
        (call[c].pc # "idle") ~> (call[c].pc = "idle" \/ Stuck)

\* On the leader a queued message does not stay for ever in a topic that has
\* a channel, is not paused and is not exiting.
MessagesFlow ==
    \A m \in Msgs :
        (m \in accepted) ~> (\/ m \in done \/ m \notin accepted
                             \/ Paused \/ ExitFlag \/ Current = {}
                             \/ ~leader \/ Stuck)

\* "avoid blocking Pause() or GetChannel()" (topic.go:221): no GetChannel
\* waits for a publisher that waits for it in turn.
GetChannelNotBlocked ==
    ~ /\ applyPC = "lock" /\ command.cmd = "NewChannel"
      /\ \E c \in readers : call[c].pc = "updateWait" /\ reply[c] = "none"
=============================================================================
