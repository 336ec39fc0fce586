------------------------------- MODULE Channel -------------------------------
(***************************************************************************)
(* The custody of messages inside one xmqd channel (xmqd/channel.go), with *)
(* the goroutines that call it: the topic's messagePump (PutMessage,       *)
(* PutMessageDeferred), for every client the protocol's messagePump        *)
(* (StartInFlightTimeout) and IOLoop (FIN, REQ, TOUCH, SUB and the end of  *)
(* the connection), the queueScanWorker, and the administrative calls      *)
(* (Empty, Close, Delete).  One action is one critical section: everything *)
(* between two lock operations, channel operations or atomic operations    *)
(* that another goroutine can observe.                                     *)
(*                                                                         *)
(* A message object (a *Message) is a pair <<id, generation>>: writing a   *)
(* message to the backend keeps the id only, and reading it back           *)
(* allocates a new object for the same id.                                 *)
(*                                                                         *)
(* Time is abstracted: any entry of a priority queue may be the expired    *)
(* root.  The in-flight heap is a bag of objects; InFlightPqueue is the    *)
(* model of its array.                                                     *)
(***************************************************************************)
EXTENDS Integers, Sequences, FiniteSets

CONSTANTS Clients,              \* the consumers that may subscribe
          Msgs,                 \* the ids of the messages the topic hands over
          Deferred,             \* those published with a delay (DPUB)
          Gens,                 \* bound: objects alive for one id
          NoObj, NoClient,      \* nil pointer, empty client id
          MemQueueSize,         \* capacity of memoryMsgChan
          ReadyCount,           \* RDY of every client
          MaxChannelConsumers,  \* 0 means unlimited
          Sampled,              \* clients that asked for a sample_rate
          Ephemeral,            \* whether the channel is #ephemeral
          Ops,                  \* commands the clients make use of
          AdminOps,             \* administrative calls that may be made
          MaxEntries            \* bound: heap entries of one object

Objs == Msgs \X Gens

ID(o) == o[1]

ObjsOf(m) == {o \in Objs : ID(o) = m}

Commands == {"FIN", "REQ", "DREQ", "TOUCH"}     \* DREQ: REQ with a timeout

ASSUME ChannelAssumption ==
    /\ Deferred \subseteq Msgs
    /\ Gens # {}
    /\ NoObj \notin Objs
    /\ NoClient \notin Clients
    /\ MemQueueSize \in Nat
    /\ ReadyCount \in Nat
    /\ MaxChannelConsumers \in Nat
    /\ Sampled \subseteq Clients
    /\ Ephemeral \in BOOLEAN
    /\ Ops \subseteq Commands
    /\ AdminOps \subseteq {"Empty", "Close", "Delete"}
    /\ MaxEntries \in Nat \ {0}

VARIABLES
    memoryMsgChan,      \* Seq(Objs), the buffered Go channel
    backend,            \* copies of each id in the disk queue
    inFlightMessages,   \* map id -> object
    inFlightPQ,         \* entries of each object in the heap
    index,              \* Message.index: "zero" (Go's zero value, never
                        \* pushed), "none" (-1), "at" (an entry of its own),
                        \* "stale" (a position in a heap thrown away by Empty)
    clientID,           \* Message.clientID
    deferredMessages,   \* map id -> object
    deferredPQ,         \* objects in the deferred heap
    clients,            \* the keys of Channel.clients
    exitFlag,           \* Channel.ExitFlag
    deleter,            \* the sync.Once that runs deleteCallback has fired
    inFlightCount,      \* clientV2.InFlightCount
    sub,                \* SUB progress of each client
    sent,               \* ids that were written to each client
    pumpPC, pumpObj,    \* the protocol messagePump of each client
    ioPC, ioOp, ioObj,  \* the command in progress in each client's IOLoop
    scanPC, scanObj,    \* the queueScanWorker busy with this channel, and
    scanClient,         \* the msg.clientID it has read
    topic,              \* the topic's messagePump inside PutMessageDeferred
    emptyPC, exitPC,    \* progress of Empty and of exit
    fate,               \* history: "new", "live", "done" (finished, emptied
                        \* or dropped on purpose)
    panicked            \* an index out of range took the process down

qVars      == <<memoryMsgChan, backend>>
flightVars == <<inFlightMessages, inFlightPQ, index, clientID>>
deferVars  == <<deferredMessages, deferredPQ>>
subVars    == <<clients, sub, deleter>>
exitVars   == <<exitFlag, emptyPC, exitPC>>
pumpVars   == <<pumpPC, pumpObj>>
ioVars     == <<ioPC, ioOp, ioObj>>
scanVars   == <<scanPC, scanObj, scanClient>>
procVars   == <<pumpVars, ioVars, scanVars, topic>>
vars == <<qVars, flightVars, deferVars, subVars, exitVars, procVars,
          inFlightCount, sent, fate, panicked>>

(* The type invariant, by groups of variables.  An object in a map has the *)
(* id it is filed under, and a goroutine has an object in its hand exactly *)
(* while its program counter says so.                                      *)

QueueOK ==
    /\ memoryMsgChan \in Seq(Objs)
    /\ backend \in [Msgs -> Nat]

FlightOK ==
    /\ inFlightMessages \in [Msgs -> Objs \cup {NoObj}]
    /\ \A m \in Msgs : inFlightMessages[m] \in ObjsOf(m) \cup {NoObj}
    /\ inFlightPQ \in [Objs -> Nat]
    /\ index \in [Objs -> {"zero", "none", "at", "stale"}]
    /\ clientID \in [Objs -> Clients \cup {NoClient}]

DeferOK ==
    /\ deferredMessages \in [Msgs -> Objs \cup {NoObj}]
    /\ \A m \in Msgs : deferredMessages[m] \in ObjsOf(m) \cup {NoObj}
    /\ deferredPQ \subseteq Objs

SubOK ==
    /\ clients \subseteq Clients
    /\ sub \in [Clients -> {"new", "adding", "added", "subscribed", "closing",
                            "gone"}]
    /\ deleter \in BOOLEAN

ExitOK ==
    /\ exitFlag \in BOOLEAN
    /\ emptyPC \in {"idle", "deferred", "clients", "drain"}
    /\ exitPC \in {"idle", "closing", "flush_mem", "flush_inflight",
                   "flush_deferred", "closed", "deleting", "emptying",
                   "deleted"}
    /\ ~exitFlag <=> exitPC = "idle"

PumpOK ==
    /\ pumpPC \in [Clients -> {"off", "idle", "received", "pushed", "tracked",
                               "exited"}]
    /\ pumpObj \in [Clients -> Objs \cup {NoObj}]
    /\ \A c \in Clients : pumpPC[c] \in {"received", "pushed", "tracked"}
                            <=> pumpObj[c] # NoObj

IoOK ==
    /\ ioPC \in [Clients -> {"idle", "popped", "removed", "repushed",
                             "deferring", "settling"}]
    /\ ioOp \in [Clients -> Commands]
    /\ ioObj \in [Clients -> Objs \cup {NoObj}]
    /\ \A c \in Clients : ioPC[c] \notin {"idle", "settling"}
                            <=> ioObj[c] # NoObj

ScanOK ==
    /\ scanPC \in {"idle", "shifted", "owned", "timedout", "putting",
                   "dshifted", "dpopped"}
    /\ scanObj \in Objs \cup {NoObj}
    /\ scanPC # "idle" <=> scanObj # NoObj
    /\ scanClient \in Clients \cup {NoClient}

HistoryOK ==
    /\ topic \in Objs \cup {NoObj}
    /\ inFlightCount \in [Clients -> Int]
    /\ sent \in [Clients -> SUBSET Msgs]
    /\ fate \in [Msgs -> {"new", "live", "done"}]
    /\ panicked \in BOOLEAN

TypeOK ==
    /\ QueueOK /\ FlightOK /\ DeferOK /\ SubOK /\ ExitOK
    /\ PumpOK /\ IoOK /\ ScanOK /\ HistoryOK

Init ==
    /\ memoryMsgChan = <<>>
    /\ backend = [m \in Msgs |-> 0]
    /\ inFlightMessages = [m \in Msgs |-> NoObj]
    /\ inFlightPQ = [o \in Objs |-> 0]
    /\ index = [o \in Objs |-> "zero"]
    /\ clientID = [o \in Objs |-> NoClient]
    /\ deferredMessages = [m \in Msgs |-> NoObj]
    /\ deferredPQ = {}
    /\ clients = {}
    /\ exitFlag = FALSE
    /\ deleter = FALSE
    /\ inFlightCount = [c \in Clients |-> 0]
    /\ sub = [c \in Clients |-> "new"]
    /\ sent = [c \in Clients |-> {}]
    /\ pumpPC = [c \in Clients |-> "off"]
    /\ pumpObj = [c \in Clients |-> NoObj]
    /\ ioPC = [c \in Clients |-> "idle"]
    /\ ioOp = [c \in Clients |-> "FIN"]
    /\ ioObj = [c \in Clients |-> NoObj]
    /\ scanPC = "idle"
    /\ scanObj = NoObj
    /\ scanClient = NoClient
    /\ topic = NoObj
    /\ emptyPC = "idle"
    /\ exitPC = "idle"
    /\ fate = [m \in Msgs |-> "new"]
    /\ panicked = FALSE

-----------------------------------------------------------------------------
(* Locks.  exitMutex is held for writing during the whole of exit, and for *)
(* reading during a scan, an AddClient and the short sections of the other *)
(* callers; Channel.RWMutex is held for writing during Empty.              *)

ExitMutexReadable == exitPC \in {"idle", "closed", "deleted"}

ExitMutexWritable ==
    /\ ExitMutexReadable
    /\ scanPC = "idle"
    /\ \A c \in Clients : sub[c] # "adding"

ChannelLockFree == emptyPC = "idle"

-----------------------------------------------------------------------------
(* Objects *)

Referenced(o) ==
    \/ \E i \in DOMAIN memoryMsgChan : memoryMsgChan[i] = o
    \/ inFlightMessages[ID(o)] = o
    \/ inFlightPQ[o] > 0
    \/ deferredMessages[ID(o)] = o
    \/ o \in deferredPQ
    \/ \E c \in Clients : pumpObj[c] = o \/ ioObj[c] = o
    \/ scanObj = o
    \/ topic = o

\* NewMessage and decodeMessage: an object nothing refers to, with the zero
\* value in its bookkeeping fields.
Allocated(o) ==
    /\ ~Referenced(o)
    /\ index' = [index EXCEPT ![o] = "zero"]
    /\ clientID' = [clientID EXCEPT ![o] = NoClient]

Stored(m) == [fate EXCEPT ![m] = IF @ = "new" THEN "live" ELSE @]

\* put: the memory channel while it has room, else the backend.  The dummy
\* backend of an ephemeral channel drops what it is given.
put(o) ==
    IF Len(memoryMsgChan) < MemQueueSize
    THEN /\ memoryMsgChan' = Append(memoryMsgChan, o)
         /\ fate' = Stored(ID(o))
         /\ UNCHANGED backend
    ELSE /\ IF Ephemeral
            THEN /\ fate' = [fate EXCEPT ![ID(o)] = "done"]
                 /\ UNCHANGED backend
            ELSE /\ fate' = Stored(ID(o))
                 /\ backend' = [backend EXCEPT ![ID(o)] = @ + 1]
         /\ UNCHANGED memoryMsgChan

-----------------------------------------------------------------------------
(* The in-flight heap *)

\* A heap operation moves entries, and the move sets the index of the object
\* that is moved: a second entry of an object whose index is -1 may be found
\* again this way.
Moved(pq, ix) == SUBSET {y \in Objs : ix[y] = "none" /\ pq[y] > 0}

Reindexed(ix, S) == [y \in Objs |-> IF y \in S THEN "at" ELSE ix[y]]

addToInFlightPQ(o) ==
    \E S \in Moved(inFlightPQ, index) :
        /\ inFlightPQ' = [inFlightPQ EXCEPT ![o] = @ + 1]
        /\ index' = [Reindexed(index, S) EXCEPT ![o] = "at"]

\* Variant: the index is not set to -1 and still names a position.
HeapRemove_KeepsIndex(x) ==
    /\ inFlightPQ[x] > 0
    /\ inFlightPQ' = [inFlightPQ EXCEPT ![x] = @ - 1]
    /\ index' = [index EXCEPT ![x] = "stale"]

\* Pop or Remove of an entry of x
HeapRemove(x) ==
    /\ inFlightPQ[x] > 0
    /\ \E S \in Moved([inFlightPQ EXCEPT ![x] = @ - 1], index) :
        /\ inFlightPQ' = [inFlightPQ EXCEPT ![x] = @ - 1]
        /\ index' = [Reindexed(index, S) EXCEPT ![x] = "none"]

\* removeFromInFlightPQ tests for index -1 only.  A zero or stale index
\* removes whatever entry is at that position, or is out of range.
removeFromInFlightPQ(o) ==
    \/ /\ index[o] = "none"
       /\ UNCHANGED <<inFlightPQ, index, panicked>>
    \/ /\ index[o] = "at"
       /\ HeapRemove(o)
       /\ UNCHANGED panicked
    \/ /\ index[o] \in {"zero", "stale"}
       /\ \E x \in Objs : HeapRemove(x)
       /\ UNCHANGED panicked
    \/ /\ \/ index[o] = "stale"
          \/ index[o] = "zero" /\ \A x \in Objs : inFlightPQ[x] = 0
       /\ panicked' = TRUE
       /\ UNCHANGED <<inFlightPQ, index>>

-----------------------------------------------------------------------------
(* The maps.  A pop or a push that finds no message, another owner or a    *)
(* duplicate id returns an error.                                          *)

InFlightOwner(c, m) ==
    /\ inFlightMessages[m] # NoObj
    /\ clientID[inFlightMessages[m]] = c

\* Variant: any client may take it.
popInFlightMessage_AnyOwner(c, m) ==
    /\ inFlightMessages[m] # NoObj
    /\ inFlightMessages' = [inFlightMessages EXCEPT ![m] = NoObj]

popInFlightMessage(c, m) ==
    /\ InFlightOwner(c, m)
    /\ inFlightMessages' = [inFlightMessages EXCEPT ![m] = NoObj]

pushInFlightMessage(o) ==
    /\ inFlightMessages[ID(o)] = NoObj
    /\ inFlightMessages' = [inFlightMessages EXCEPT ![ID(o)] = o]

pushDeferredMessage(o) ==
    /\ deferredMessages[ID(o)] = NoObj
    /\ deferredMessages' = [deferredMessages EXCEPT ![ID(o)] = o]

-----------------------------------------------------------------------------
(* The topic's messagePump.  Topic.exit waits for it before it closes the  *)
(* channel, so it makes no call once Close has begun; a delete does not    *)
(* wait.                                                                   *)

TopicPumpRunning ==
    exitPC \in {"idle", "deleting", "emptying", "deleted"}

PutMessage(m) ==
    /\ topic = NoObj /\ TopicPumpRunning /\ ExitMutexReadable
    /\ m \notin Deferred /\ fate[m] = "new"
    /\ \/ /\ exitFlag
          /\ fate' = [fate EXCEPT ![m] = "done"]
          /\ UNCHANGED <<qVars, index, clientID>>
       \/ /\ ~exitFlag
          /\ \E o \in ObjsOf(m) : Allocated(o) /\ put(o)
    /\ UNCHANGED <<inFlightMessages, inFlightPQ, deferVars, subVars,
                   exitVars, procVars, inFlightCount, sent, panicked>>

\* PutMessageDeferred looks neither at the exit flag nor at the error of
\* StartDeferredTimeout.
PutMessageDeferred(m) ==
    /\ topic = NoObj /\ TopicPumpRunning
    /\ m \in Deferred /\ fate[m] = "new"
    /\ \E o \in ObjsOf(m) :
        Allocated(o) /\ pushDeferredMessage(o) /\ topic' = o
    /\ fate' = [fate EXCEPT ![m] = "live"]
    /\ UNCHANGED <<qVars, inFlightMessages, inFlightPQ, deferredPQ, subVars,
                   exitVars, pumpVars, ioVars, scanVars, inFlightCount, sent,
                   panicked>>

\* Variant: the heap is forgotten.
TopicAddToDeferredPQ_Skipped ==
    /\ topic # NoObj
    /\ topic' = NoObj
    /\ UNCHANGED <<qVars, flightVars, deferVars, subVars, exitVars, pumpVars,
                   ioVars, scanVars, inFlightCount, sent, fate, panicked>>

TopicAddToDeferredPQ ==
    /\ topic # NoObj
    /\ deferredPQ' = deferredPQ \cup {topic}
    /\ topic' = NoObj
    /\ UNCHANGED <<qVars, flightVars, deferredMessages, subVars, exitVars,
                   pumpVars, ioVars, scanVars, inFlightCount, sent, fate,
                   panicked>>

-----------------------------------------------------------------------------
(* The messagePump of a client's connection *)

IsReadyForMessages(c) == ReadyCount > 0 /\ inFlightCount[c] < ReadyCount

PumpGoto(c, pc, o) ==
    /\ pumpPC' = [pumpPC EXCEPT ![c] = pc]
    /\ pumpObj' = [pumpObj EXCEPT ![c] = o]

\* A sampled client may drop what it receives.
Sample(c, m) ==
    /\ c \in Sampled
    /\ fate' = [fate EXCEPT ![m] = "done"]
    /\ UNCHANGED pumpVars

PumpReceiveMem(c) ==
    /\ pumpPC[c] = "idle" /\ IsReadyForMessages(c)
    /\ memoryMsgChan # <<>>
    /\ LET o == Head(memoryMsgChan) IN
        /\ inFlightPQ[o] < MaxEntries
        /\ \/ Sample(c, ID(o))
           \/ /\ PumpGoto(c, "received", o)
              /\ UNCHANGED fate
    /\ memoryMsgChan' = Tail(memoryMsgChan)
    /\ UNCHANGED <<backend, flightVars, deferVars, subVars, exitVars, ioVars,
                   scanVars, topic, inFlightCount, sent, panicked>>

\* Variant: reads a backend that has nothing left.
PumpReceiveBackend_Unguarded(c, m) ==
    /\ pumpPC[c] = "idle" /\ IsReadyForMessages(c)
    /\ backend' = [backend EXCEPT ![m] = @ - 1]
    /\ UNCHANGED <<memoryMsgChan, flightVars, deferVars, subVars, exitVars,
                   procVars, inFlightCount, sent, fate, panicked>>

\* Reading the backend decodes a new object.
PumpReceiveBackend(c, m) ==
    /\ pumpPC[c] = "idle" /\ IsReadyForMessages(c)
    /\ backend[m] > 0 /\ exitPC \notin {"closed", "deleted"}
    /\ backend' = [backend EXCEPT ![m] = @ - 1]
    /\ \/ Sample(c, m) /\ UNCHANGED <<index, clientID>>
       \/ \E o \in ObjsOf(m) :
            /\ Allocated(o)
            /\ PumpGoto(c, "received", o)
            /\ UNCHANGED fate
    /\ UNCHANGED <<memoryMsgChan, inFlightMessages, inFlightPQ, deferVars,
                   subVars, exitVars, ioVars, scanVars, topic, inFlightCount,
                   sent, panicked>>

\* StartInFlightTimeout, first lock.  Its error is ignored: the message is
\* sent all the same.
PumpPush(c) ==
    /\ pumpPC[c] = "received"
    /\ LET o == pumpObj[c] IN
        /\ clientID' = [clientID EXCEPT ![o] = c]
        /\ \/ /\ pushInFlightMessage(o)
              /\ PumpGoto(c, "pushed", pumpObj[c])
           \/ /\ inFlightMessages[ID(o)] # NoObj
              /\ PumpGoto(c, "tracked", pumpObj[c])
              /\ UNCHANGED inFlightMessages
    /\ UNCHANGED <<qVars, inFlightPQ, index, deferVars, subVars, exitVars,
                   ioVars, scanVars, topic, inFlightCount, sent, fate,
                   panicked>>

\* Variant: the message is tracked in the map only.
PumpAddToPQ_Skipped(c) ==
    /\ pumpPC[c] = "pushed"
    /\ PumpGoto(c, "tracked", pumpObj[c])
    /\ UNCHANGED <<qVars, flightVars, deferVars, subVars, exitVars, ioVars,
                   scanVars, topic, inFlightCount, sent, fate, panicked>>

\* StartInFlightTimeout, second lock
PumpAddToPQ(c) ==
    /\ pumpPC[c] = "pushed"
    /\ addToInFlightPQ(pumpObj[c])
    /\ PumpGoto(c, "tracked", pumpObj[c])
    /\ UNCHANGED <<qVars, inFlightMessages, clientID, deferVars, subVars,
                   exitVars, ioVars, scanVars, topic, inFlightCount, sent,
                   fate, panicked>>

\* SendingMessage and SendMessage; a failed write ends the pump.
PumpSend(c) ==
    /\ pumpPC[c] = "tracked"
    /\ inFlightCount' = [inFlightCount EXCEPT ![c] = @ + 1]
    /\ \/ /\ sent' = [sent EXCEPT ![c] = @ \cup {ID(pumpObj[c])}]
          /\ PumpGoto(c, "idle", NoObj)
       \/ /\ PumpGoto(c, "exited", NoObj)
          /\ UNCHANGED sent
    /\ UNCHANGED <<qVars, flightVars, deferVars, subVars, exitVars, ioVars,
                   scanVars, topic, fate, panicked>>

PumpExit(c) ==
    /\ pumpPC[c] = "idle" /\ sub[c] \in {"closing", "gone"}
    /\ PumpGoto(c, "exited", pumpObj[c])
    /\ UNCHANGED <<qVars, flightVars, deferVars, subVars, exitVars, ioVars,
                   scanVars, topic, inFlightCount, sent, fate, panicked>>

-----------------------------------------------------------------------------
(* The IOLoop of a client's connection: FIN, REQ and TOUCH of a message it *)
(* was sent.  A pop that fails is answered with an error and changes       *)
(* nothing.                                                                *)

IOBecomes(c, pc, op, o) ==
    /\ ioPC' = [ioPC EXCEPT ![c] = pc]
    /\ ioOp' = [ioOp EXCEPT ![c] = op]
    /\ ioObj' = [ioObj EXCEPT ![c] = o]

IOGoto(c, pc) == IOBecomes(c, pc, ioOp[c], ioObj[c])

IODone(c) == IOBecomes(c, "idle", "FIN", NoObj)

\* The command is done with its message but for the client's counter.
IOSettling(c) == IOBecomes(c, "settling", "FIN", NoObj)

IOPop(c, m, op) ==
    /\ ioPC[c] = "idle" /\ sub[c] = "subscribed" /\ m \in sent[c]
    /\ popInFlightMessage(c, m)
    /\ IOBecomes(c, "popped", op, inFlightMessages[m])
    /\ fate' = IF op = "FIN" THEN [fate EXCEPT ![m] = "done"] ELSE fate
    /\ UNCHANGED <<qVars, inFlightPQ, index, clientID, deferVars, subVars,
                   exitVars, pumpVars, scanVars, topic, inFlightCount, sent,
                   panicked>>

IORemovePQ(c) ==
    /\ ioPC[c] = "popped"
    /\ removeFromInFlightPQ(ioObj[c])
    /\ IF ioOp[c] = "FIN" THEN IOSettling(c) ELSE IOGoto(c, "removed")
    /\ UNCHANGED <<qVars, inFlightMessages, clientID, deferVars, subVars,
                   exitVars, pumpVars, scanVars, topic, inFlightCount, sent,
                   fate>>

\* REQ 0: when the channel is exiting the message is dropped with an error,
\* and the client's counter is left alone.
IORequeue(c) ==
    /\ ioPC[c] = "removed" /\ ioOp[c] = "REQ" /\ ExitMutexReadable
    /\ \/ exitFlag /\ IODone(c) /\ UNCHANGED <<qVars, fate>>
       \/ ~exitFlag /\ IOSettling(c) /\ put(ioObj[c])
    /\ UNCHANGED <<flightVars, deferVars, subVars, exitVars, pumpVars,
                   scanVars, topic, inFlightCount, sent, panicked>>

\* REQ with a timeout: StartDeferredTimeout, first lock
IODefer(c) ==
    /\ ioPC[c] = "removed" /\ ioOp[c] = "DREQ"
    /\ \/ pushDeferredMessage(ioObj[c]) /\ IOGoto(c, "deferring")
       \/ /\ deferredMessages[ID(ioObj[c])] # NoObj
          /\ IODone(c)
          /\ UNCHANGED deferredMessages
    /\ UNCHANGED <<qVars, flightVars, deferredPQ, subVars, exitVars,
                   pumpVars, scanVars, topic, inFlightCount, sent, fate,
                   panicked>>

\* Variant: the heap is forgotten.
IOAddToDeferredPQ_Skipped(c) ==
    /\ ioPC[c] = "deferring"
    /\ IOSettling(c)
    /\ UNCHANGED <<qVars, flightVars, deferVars, subVars, exitVars, pumpVars,
                   scanVars, topic, inFlightCount, sent, fate, panicked>>

\* StartDeferredTimeout, second lock
IOAddToDeferredPQ(c) ==
    /\ ioPC[c] = "deferring"
    /\ deferredPQ' = deferredPQ \cup {ioObj[c]}
    /\ IOSettling(c)
    /\ UNCHANGED <<qVars, flightVars, deferredMessages, subVars, exitVars,
                   pumpVars, scanVars, topic, inFlightCount, sent, fate,
                   panicked>>

\* TOUCH: back into the map ...
IOTouchPush(c) ==
    /\ ioPC[c] = "removed" /\ ioOp[c] = "TOUCH"
    /\ \/ pushInFlightMessage(ioObj[c]) /\ IOGoto(c, "repushed")
       \/ /\ inFlightMessages[ID(ioObj[c])] # NoObj
          /\ IODone(c)
          /\ UNCHANGED inFlightMessages
    /\ UNCHANGED <<qVars, inFlightPQ, index, clientID, deferVars, subVars,
                   exitVars, pumpVars, scanVars, topic, inFlightCount, sent,
                   fate, panicked>>

\* ... and into the heap
IOTouchAddToPQ(c) ==
    /\ ioPC[c] = "repushed"
    /\ inFlightPQ[ioObj[c]] < MaxEntries
    /\ addToInFlightPQ(ioObj[c])
    /\ IODone(c)
    /\ UNCHANGED <<qVars, inFlightMessages, clientID, deferVars, subVars,
                   exitVars, pumpVars, scanVars, topic, inFlightCount, sent,
                   fate, panicked>>

\* FinishedMessage and RequeuedMessage
IOSettle(c) ==
    /\ ioPC[c] = "settling"
    /\ inFlightCount' = [inFlightCount EXCEPT ![c] = @ - 1]
    /\ IODone(c)
    /\ UNCHANGED <<qVars, flightVars, deferVars, subVars, exitVars, pumpVars,
                   scanVars, topic, sent, fate, panicked>>

-----------------------------------------------------------------------------
(* queueScanWorker: processInFlightQueue, then processDeferredQueue.  The  *)
(* scan loop waits for the answer of every channel it handed out, so one   *)
(* worker at a time is busy with this channel; exitMutex is held from      *)
(* "shifted" to the return.                                                *)

ScanMayStart == scanPC = "idle" /\ ExitMutexReadable /\ ~exitFlag

ScanGoto(pc, o, c) == scanPC' = pc /\ scanObj' = o /\ scanClient' = c

ScanShift(o) ==
    /\ ScanMayStart
    /\ HeapRemove(o)
    /\ ScanGoto("shifted", o, NoClient)
    /\ UNCHANGED <<qVars, inFlightMessages, clientID, deferVars, subVars,
                   exitVars, pumpVars, ioVars, topic, inFlightCount, sent,
                   fate, panicked>>

\* msg.clientID is read without a lock, after the heap's was released.
ScanReadOwner ==
    /\ scanPC = "shifted"
    /\ ScanGoto("owned", scanObj, clientID[scanObj])
    /\ UNCHANGED <<qVars, flightVars, deferVars, subVars, exitVars, pumpVars,
                   ioVars, topic, inFlightCount, sent, fate, panicked>>

\* The object that goes on is the shifted one, not the one the map held.
ScanPop ==
    /\ scanPC = "owned"
    /\ \/ /\ popInFlightMessage(scanClient, ID(scanObj))
          /\ ScanGoto("timedout", scanObj, NoClient)
       \/ /\ ~InFlightOwner(scanClient, ID(scanObj))
          /\ ScanGoto("idle", NoObj, NoClient)
          /\ UNCHANGED inFlightMessages
    /\ UNCHANGED <<qVars, inFlightPQ, index, clientID, deferVars, subVars,
                   exitVars, pumpVars, ioVars, topic, inFlightCount, sent,
                   fate, panicked>>

\* Variant: the client's counter is left alone, and a message whose client
\* has left is not put back.
ScanTimedOut_ClientGone ==
    /\ scanPC = "timedout" /\ ChannelLockFree
    /\ IF clientID[scanObj] \in clients
       THEN ScanGoto("putting", scanObj, NoClient)
       ELSE ScanGoto("idle", NoObj, NoClient)
    /\ UNCHANGED <<qVars, flightVars, deferVars, subVars, exitVars, pumpVars,
                   ioVars, topic, inFlightCount, sent, fate, panicked>>

\* TimedOutMessage of a client that is still there
ScanTimedOut ==
    /\ scanPC = "timedout" /\ ChannelLockFree
    /\ inFlightCount' = [c \in Clients |->
            IF c = clientID[scanObj] /\ c \in clients
            THEN inFlightCount[c] - 1
            ELSE inFlightCount[c]]
    /\ ScanGoto("putting", scanObj, NoClient)
    /\ UNCHANGED <<qVars, flightVars, deferVars, subVars, exitVars, pumpVars,
                   ioVars, topic, sent, fate, panicked>>

ScanPut ==
    /\ scanPC \in {"putting", "dpopped"}
    /\ put(scanObj)
    /\ ScanGoto("idle", NoObj, NoClient)
    /\ UNCHANGED <<flightVars, deferVars, subVars, exitVars, pumpVars,
                   ioVars, topic, inFlightCount, sent, panicked>>

ScanShiftDeferred(o) ==
    /\ ScanMayStart
    /\ o \in deferredPQ
    /\ deferredPQ' = deferredPQ \ {o}
    /\ ScanGoto("dshifted", o, NoClient)
    /\ UNCHANGED <<qVars, flightVars, deferredMessages, subVars, exitVars,
                   pumpVars, ioVars, topic, inFlightCount, sent, fate,
                   panicked>>

ScanPopDeferred ==
    /\ scanPC = "dshifted"
    /\ LET m == ID(scanObj) IN
        \/ /\ deferredMessages[m] # NoObj
           /\ deferredMessages' = [deferredMessages EXCEPT ![m] = NoObj]
           /\ ScanGoto("dpopped", scanObj, NoClient)
        \/ /\ deferredMessages[m] = NoObj
           /\ ScanGoto("idle", NoObj, NoClient)
           /\ UNCHANGED deferredMessages
    /\ UNCHANGED <<qVars, flightVars, deferredPQ, subVars, exitVars,
                   pumpVars, ioVars, topic, inFlightCount, sent, fate,
                   panicked>>

-----------------------------------------------------------------------------
(* Subscription *)

ConsumersFull ==
    MaxChannelConsumers # 0 /\ Cardinality(clients) >= MaxChannelConsumers

\* AddClient up to the unlock of the read lock; a refusal is fatal for the
\* connection.
AddClientCheck(c) ==
    /\ sub[c] = "new" /\ ExitMutexReadable /\ (exitFlag \/ ChannelLockFree)
    /\ sub' = [sub EXCEPT ![c] =
                IF exitFlag \/ ConsumersFull THEN "gone" ELSE "adding"]
    /\ UNCHANGED <<qVars, flightVars, deferVars, clients, deleter, exitVars,
                   procVars, inFlightCount, sent, fate, panicked>>

AddClientInsert(c) ==
    /\ sub[c] = "adding" /\ ChannelLockFree
    /\ clients' = clients \cup {c}
    /\ sub' = [sub EXCEPT ![c] = "added"]
    /\ UNCHANGED <<qVars, flightVars, deferVars, deleter, exitVars, procVars,
                   inFlightCount, sent, fate, panicked>>

\* SUB after AddClient.  On an ephemeral channel that has begun to exit SUB
\* gives up on this channel (RemoveClient does nothing there); otherwise it
\* hands the channel to the connection's messagePump.
SUB(c) ==
    /\ sub[c] = "added"
    /\ IF Ephemeral /\ exitFlag
       THEN /\ ExitMutexReadable
            /\ sub' = [sub EXCEPT ![c] = "gone"]
            /\ UNCHANGED pumpVars
       ELSE /\ sub' = [sub EXCEPT ![c] = "subscribed"]
            /\ PumpGoto(c, "idle", NoObj)
    /\ UNCHANGED <<qVars, flightVars, deferVars, clients, deleter, exitVars,
                   ioVars, scanVars, topic, inFlightCount, sent, fate,
                   panicked>>

\* The connection fails or is closed: IOLoop leaves its loop and closes
\* ExitChan.
Disconnect(c) ==
    /\ sub[c] = "subscribed" /\ ioPC[c] = "idle"
    /\ sub' = [sub EXCEPT ![c] = "closing"]
    /\ UNCHANGED <<qVars, flightVars, deferVars, clients, deleter, exitVars,
                   procVars, inFlightCount, sent, fate, panicked>>

RemoveClient(c) ==
    /\ sub[c] = "closing" /\ ExitMutexReadable
    /\ sub' = [sub EXCEPT ![c] = "gone"]
    /\ \/ exitFlag /\ UNCHANGED <<clients, deleter>>
       \/ /\ ~exitFlag /\ ChannelLockFree
          /\ clients' = clients \ {c}
          /\ deleter' = (deleter \/ (clients' = {} /\ Ephemeral))
    /\ UNCHANGED <<qVars, flightVars, deferVars, exitVars, procVars,
                   inFlightCount, sent, fate, panicked>>

-----------------------------------------------------------------------------
(* Empty.  Channel.RWMutex is held from the first step to the last, the    *)
(* heap and map mutexes for one step each.                                 *)

Discarded(S) == [m \in Msgs |-> IF m \in S THEN "done" ELSE fate[m]]

InMap(map) == {m \in Msgs : map[m] # NoObj}

\* Variant: the heap is reset and the map is not.
EmptyInFlight_KeepsMap(exit) ==
    /\ ChannelLockFree
    /\ fate' = Discarded(InMap(inFlightMessages))
    /\ inFlightPQ' = [o \in Objs |-> 0]
    /\ emptyPC' = "deferred"
    /\ exitPC' = exit
    /\ UNCHANGED <<qVars, inFlightMessages, index, clientID, deferVars,
                   subVars, exitFlag, procVars, inFlightCount, sent,
                   panicked>>

\* initPQ, in-flight half: the old heap is dropped with the positions that
\* its messages still record.
EmptyInFlight(exit) ==
    /\ ChannelLockFree
    /\ fate' = Discarded(InMap(inFlightMessages))
    /\ inFlightMessages' = [m \in Msgs |-> NoObj]
    /\ inFlightPQ' = [o \in Objs |-> 0]
    /\ index' = [o \in Objs |-> IF index[o] = "at" THEN "stale" ELSE index[o]]
    /\ emptyPC' = "deferred"
    /\ exitPC' = exit
    /\ UNCHANGED <<qVars, clientID, deferVars, subVars, exitFlag, procVars,
                   inFlightCount, sent, panicked>>

Empty ==
    /\ "Empty" \in AdminOps
    /\ EmptyInFlight(exitPC)

\* initPQ, deferred half
EmptyDeferred ==
    /\ emptyPC = "deferred"
    /\ fate' = Discarded(InMap(deferredMessages))
    /\ deferredMessages' = [m \in Msgs |-> NoObj]
    /\ deferredPQ' = {}
    /\ emptyPC' = "clients"
    /\ UNCHANGED <<exitPC, qVars, flightVars, subVars, exitFlag, procVars,
                   inFlightCount, sent, panicked>>

\* clientV2.Empty of every client
EmptyClients ==
    /\ emptyPC = "clients"
    /\ inFlightCount' = [c \in Clients |->
                            IF c \in clients THEN 0 ELSE inFlightCount[c]]
    /\ emptyPC' = "drain"
    /\ UNCHANGED <<exitPC, qVars, flightVars, deferVars, subVars, exitFlag,
                   procVars, sent, fate, panicked>>

EmptyDrain ==
    /\ emptyPC = "drain" /\ memoryMsgChan # <<>>
    /\ fate' = Discarded({ID(Head(memoryMsgChan))})
    /\ memoryMsgChan' = Tail(memoryMsgChan)
    /\ UNCHANGED <<backend, flightVars, deferVars, subVars, exitVars,
                   procVars, inFlightCount, sent, panicked>>

\* backend.Empty, and for a deleted channel backend.Delete
EmptyBackend ==
    /\ emptyPC = "drain" /\ memoryMsgChan = <<>>
    /\ fate' = Discarded({m \in Msgs : backend[m] > 0})
    /\ backend' = [m \in Msgs |-> 0]
    /\ emptyPC' = "idle"
    /\ exitPC' = IF exitPC = "emptying" THEN "deleted" ELSE exitPC
    /\ UNCHANGED <<memoryMsgChan, flightVars, deferVars, subVars, exitFlag,
                   procVars, inFlightCount, sent, panicked>>

-----------------------------------------------------------------------------
(* exit, which holds exitMutex to its end.  Closing the connections of the *)
(* clients only makes them fail, which Disconnect allows at any time.      *)

BeginExit(pc) ==
    /\ exitPC = "idle" /\ ExitMutexWritable
    /\ exitFlag' = TRUE
    /\ exitPC' = pc
    /\ UNCHANGED <<qVars, flightVars, deferVars, subVars, emptyPC, procVars,
                   inFlightCount, sent, fate, panicked>>

Close ==
    /\ "Close" \in AdminOps /\ topic = NoObj
    /\ BeginExit("closing")

\* By request, or by the deleteCallback of an ephemeral channel
Delete ==
    /\ "Delete" \in AdminOps \/ deleter
    /\ BeginExit("deleting")

DeleteEmpties ==
    /\ exitPC = "deleting"
    /\ EmptyInFlight("emptying")

CloseClients ==
    /\ exitPC = "closing" /\ ChannelLockFree
    /\ exitPC' = "flush_mem"
    /\ UNCHANGED <<qVars, flightVars, deferVars, subVars, exitFlag, emptyPC,
                   procVars, inFlightCount, sent, fate, panicked>>

Written(S) == [m \in Msgs |->
                IF m \in S /\ ~Ephemeral THEN backend[m] + 1 ELSE backend[m]]

FlushMem ==
    /\ exitPC = "flush_mem"
    /\ \/ /\ memoryMsgChan # <<>>
          /\ backend' = Written({ID(Head(memoryMsgChan))})
          /\ memoryMsgChan' = Tail(memoryMsgChan)
          /\ UNCHANGED exitPC
       \/ /\ memoryMsgChan = <<>>
          /\ exitPC' = "flush_inflight"
          /\ UNCHANGED qVars
    /\ UNCHANGED <<flightVars, deferVars, subVars, exitFlag, emptyPC,
                   procVars, inFlightCount, sent, fate, panicked>>

\* Variant: what is in flight is left to the clients that have it.
FlushInFlight_Skipped ==
    /\ exitPC = "flush_inflight"
    /\ exitPC' = "flush_deferred"
    /\ UNCHANGED <<qVars, flightVars, deferVars, subVars, exitFlag, emptyPC,
                   procVars, inFlightCount, sent, fate, panicked>>

FlushInFlight ==
    /\ exitPC = "flush_inflight"
    /\ backend' = Written(InMap(inFlightMessages))
    /\ exitPC' = "flush_deferred"
    /\ UNCHANGED <<memoryMsgChan, flightVars, deferVars, subVars, exitFlag,
                   emptyPC, procVars, inFlightCount, sent, fate, panicked>>

FlushDeferred ==
    /\ exitPC = "flush_deferred"
    /\ backend' = Written(InMap(deferredMessages))
    /\ exitPC' = "closed"
    /\ UNCHANGED <<memoryMsgChan, flightVars, deferVars, subVars, exitFlag,
                   emptyPC, procVars, inFlightCount, sent, fate, panicked>>

-----------------------------------------------------------------------------
(* The specification *)

TopicNext ==
    \/ \E m \in Msgs : PutMessage(m) \/ PutMessageDeferred(m)
    \/ TopicAddToDeferredPQ

PumpNext(c) ==
    \/ PumpReceiveMem(c)
    \/ \E m \in Msgs : PumpReceiveBackend(c, m)
    \/ PumpPush(c) \/ PumpAddToPQ(c) \/ PumpSend(c) \/ PumpExit(c)

IOStep(c) ==
    \/ IORemovePQ(c) \/ IORequeue(c) \/ IODefer(c) \/ IOAddToDeferredPQ(c)
    \/ IOTouchPush(c) \/ IOTouchAddToPQ(c) \/ IOSettle(c)

IONext(c) ==
    \/ \E m \in Msgs, op \in Ops : IOPop(c, m, op)
    \/ IOStep(c)

ScanStep ==
    ScanReadOwner \/ ScanPop \/ ScanTimedOut \/ ScanPut \/ ScanPopDeferred

ScanNext == (\E o \in Objs : ScanShift(o) \/ ScanShiftDeferred(o)) \/ ScanStep

SubNext(c) ==
    \/ AddClientCheck(c) \/ AddClientInsert(c) \/ SUB(c)
    \/ Disconnect(c) \/ RemoveClient(c)

AdminNext ==
    \/ Empty \/ EmptyDeferred \/ EmptyClients \/ EmptyDrain \/ EmptyBackend
    \/ Close \/ CloseClients \/ FlushMem \/ FlushInFlight \/ FlushDeferred
    \/ Delete \/ DeleteEmpties

Next ==
    /\ ~panicked
    /\ \/ TopicNext
       \/ \E c \in Clients : PumpNext(c) \/ IONext(c) \/ SubNext(c)
       \/ ScanNext
       \/ AdminNext

Spec == Init /\ [][Next]_vars

\* Fairness of the goroutines: each one that is past a lock it needs goes on.
\* ScanShift and ScanShiftDeferred are strongly fair because every entry
\* expires (TOUCH is capped by MaxMsgTimeout) and a scan runs every
\* QueueScanInterval.  Nothing is assumed of clients or of the connections.
Fairness ==
    /\ WF_vars(~panicked /\ TopicAddToDeferredPQ)
    /\ \A c \in Clients :
        /\ WF_vars(~panicked /\ (PumpPush(c) \/ PumpAddToPQ(c) \/ PumpSend(c)))
        /\ WF_vars(~panicked /\ IOStep(c))
    /\ WF_vars(~panicked /\ ScanStep)
    /\ \A o \in Objs : /\ SF_vars(~panicked /\ ScanShift(o))
                       /\ SF_vars(~panicked /\ ScanShiftDeferred(o))

FairSpec == Spec /\ Fairness

-----------------------------------------------------------------------------
(* Custody: where a message is.  A message in the middle of a REQ, DREQ or *)
(* TOUCH is in the hand of the client's IOLoop; a timed-out message, until *)
(* it is put, in that of the scan worker.                                  *)

InMem(m) == \E i \in DOMAIN memoryMsgChan : ID(memoryMsgChan[i]) = m

OnDisk(m) == backend[m] > 0

InFlight(m) == inFlightMessages[m] # NoObj

InDeferred(m) == deferredMessages[m] # NoObj

PumpHolds(c, m) == pumpPC[c] = "received" /\ ID(pumpObj[c]) = m

InPump(m) == \E c \in Clients : PumpHolds(c, m)

IOHolds(c, m) ==
    /\ ioPC[c] \in {"popped", "removed"} /\ ioOp[c] # "FIN"
    /\ ID(ioObj[c]) = m

InIO(m) == \E c \in Clients : IOHolds(c, m)

InScan(m) == scanPC \in {"timedout", "putting", "dpopped"} /\ ID(scanObj) = m

Held(m) == \/ InMem(m) \/ OnDisk(m) \/ InFlight(m) \/ InDeferred(m)
           \/ InPump(m) \/ InIO(m) \/ InScan(m)

\* Each place holds the message at most once ...
MemOnce(m) == \A i, j \in DOMAIN memoryMsgChan :
    ID(memoryMsgChan[i]) = m /\ ID(memoryMsgChan[j]) = m => i = j

DiskOnce(m) == backend[m] <= 1

PumpOnce(m) ==
    \A c, d \in Clients : PumpHolds(c, m) /\ PumpHolds(d, m) => c = d

IOOnce(m) == \A c, d \in Clients : IOHolds(c, m) /\ IOHolds(d, m) => c = d

HeldOnce(m) == MemOnce(m) /\ DiskOnce(m) /\ PumpOnce(m) /\ IOOnce(m)

\* ... and no two places do.
HeldInOnePlace(m) ==
    /\ InMem(m) => ~(OnDisk(m) \/ InFlight(m) \/ InDeferred(m)
                        \/ InPump(m) \/ InIO(m) \/ InScan(m))
    /\ OnDisk(m) => ~(InFlight(m) \/ InDeferred(m) \/ InPump(m) \/ InIO(m)
                        \/ InScan(m))
    /\ InFlight(m) => ~(InDeferred(m) \/ InPump(m) \/ InIO(m) \/ InScan(m))
    /\ InDeferred(m) => ~(InPump(m) \/ InIO(m) \/ InScan(m))
    /\ InPump(m) => ~(InIO(m) \/ InScan(m))
    /\ InIO(m) => ~InScan(m)

\* Until the channel exits, no message is in two places: not queued and in
\* flight, not in flight and deferred, not in the hands of two goroutines
\* (a client's command racing the timeout of the same message).
AtMostOneHolder ==
    ~exitFlag => \A m \in Msgs : HeldOnce(m) /\ HeldInOnePlace(m)

\* Until the channel exits, a message that was accepted and neither finished,
\* emptied nor dropped by a sample rate is somewhere: no interleaving of
\* FIN, REQ, TOUCH, timeout, disconnection and Empty loses one.
LiveMessageHeld ==
    ~exitFlag => \A m \in Msgs : fate[m] = "live" => Held(m)

\* Until the channel exits, a message that was finished or discarded is
\* nowhere, so it is never delivered again.
FinishedNeverReturns ==
    ~exitFlag => \A m \in Msgs : fate[m] # "live" => ~Held(m)

\* The three together: until the channel exits, a message is held by one
\* queue, map or goroutine, once, exactly as long as it is live.
MessagesKept == AtMostOneHolder /\ LiveMessageHeld /\ FinishedNeverReturns

-----------------------------------------------------------------------------
(* Close *)

\* No goroutine of a client has a message that is in no queue and no map.
HandsEmpty == \A m \in Msgs : ~InPump(m) /\ ~InIO(m)

\* A channel that is closed while no goroutine of a client is between two
\* places with a message has every live message in the backend, once: flush
\* forgets none and writes none twice.
QuietCloseSaves ==
    [](exitFlag => HandsEmpty) =>
        [](exitPC = "closed" /\ ~Ephemeral =>
               \A m \in Msgs : fate[m] = "live" => backend[m] = 1)

-----------------------------------------------------------------------------
(* The life of a message, as the clients see it *)

Stage(m) ==
    CASE InFlight(m)   -> "flight"
      [] InIO(m)       -> "command"
      [] InDeferred(m) -> "deferred"
      [] InMem(m) \/ OnDisk(m) \/ InPump(m) \/ InScan(m) -> "queued"
      [] ~Held(m)      -> "lost"

\* A message that is somewhere although it is done, or was never published,
\* has no place in MessageLife, and neither has a lost one.
Place(m) ==
    IF fate[m] = "live" THEN Stage(m)
    ELSE IF Held(m) THEN "astray" ELSE fate[m]

\* A FIN that took the message is still at work on the heap.
FINHolds(c, m) ==
    ioPC[c] = "popped" /\ ioOp[c] = "FIN" /\ ID(ioObj[c]) = m

Owner(m) ==
    {c \in Clients : InFlightOwner(c, m) \/ IOHolds(c, m) \/ FINHolds(c, m)}

Life == INSTANCE MessageLife
            WITH place <- [m \in Msgs |-> Place(m)],
                 owner <- [m \in Msgs |-> Owner(m)],
                 open <- ~exitFlag

\* Until the channel exits, every message goes through the stages of
\* MessageLife and no others: only the client it was delivered to can finish,
\* requeue, defer or touch it, a TOUCH leaves it with that client, and what is
\* done or lost has no way back.
ImplementsMessageLife == Life!MSpec

-----------------------------------------------------------------------------
(* Timeouts *)

\* The second half of a push is still to come, or the scan worker has the
\* entry in its hand.
Tracking(o) ==
    \/ \E c \in Clients : pumpPC[c] = "pushed" /\ pumpObj[c] = o
    \/ \E c \in Clients : ioPC[c] = "repushed" /\ ioObj[c] = o
    \/ scanPC \in {"shifted", "owned"} /\ scanObj = o

\* Every message in the in-flight map has an entry in the timeout heap, or a
\* goroutine is about to give it one: it will be requeued if its client stays
\* silent.
InFlightTimesOut ==
    \A m \in Msgs :
        LET o == inFlightMessages[m] IN
        o # NoObj => inFlightPQ[o] > 0 \/ Tracking(o)

\* The same for the deferred map.
DeferredTimesOut ==
    \A m \in Msgs :
        LET o == deferredMessages[m] IN
        o # NoObj => \/ o \in deferredPQ
                     \/ topic = o
                     \/ \E c \in Clients :
                            ioPC[c] = "deferring" /\ ioObj[c] = o
                     \/ scanPC = "dshifted" /\ scanObj = o

\* No heap operation is handed an index out of range, which would take the
\* process down.
NoPanic == ~panicked

-----------------------------------------------------------------------------
(* Flow control *)

\* Updates of InFlightCount that goroutines still have to make: a decrement
\* for a message that a command of c or a timeout took out of the map, the
\* increment for one its pump has just put there
PendingDecrements(c) ==
    (IF ioPC[c] \in {"idle", "repushed"} THEN 0 ELSE 1)
    + (IF scanPC = "timedout" /\ clientID[scanObj] = c THEN 1 ELSE 0)

PendingIncrements(c) == IF pumpPC[c] \in {"pushed", "tracked"} THEN 1 ELSE 0

\* InFlightCount, which RDY is compared with, is the number of messages the
\* client has in flight, give or take the updates that are under way: it
\* never drifts, so a client is neither starved nor flooded.
CountExact ==
    ~exitFlag => \A c \in clients :
        inFlightCount[c] = Cardinality({m \in Msgs : InFlightOwner(c, m)})
                           + PendingDecrements(c) - PendingIncrements(c)

-----------------------------------------------------------------------------
(* Progress *)

\* A message does not stay in flight for ever: it is finished, requeued,
\* touched or timed out.
EventuallyLeavesFlight ==
    \A m \in Msgs : inFlightMessages[m] # NoObj
                        ~> (inFlightMessages[m] = NoObj \/ exitFlag)

\* A deferred message is put back into the queue.
EventuallyUndeferred ==
    \A m \in Msgs : deferredMessages[m] # NoObj
                        ~> (deferredMessages[m] = NoObj \/ exitFlag)

=============================================================================
