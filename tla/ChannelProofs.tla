--------------------------- MODULE ChannelProofs ---------------------------
(* Type correctness of Channel, where its messages are and who moves them,  *)
(* and what Close saves, for every set of clients, messages and objects.    *)
EXTENDS Channel, TLAPS

(***************************************************************************)
(* Helpers keep the type of what they change.                              *)
(***************************************************************************)

\* An object carries the id of a message.
LEMMA IDType == \A o \in Objs : ID(o) \in Msgs
BY DEF Objs, ID

\* What the assumption says of the constants, in one place.
LEMMA Constants ==
    /\ NoObj \notin Objs /\ NoClient \notin Clients
    /\ Sampled \subseteq Clients /\ Ops \subseteq Commands
    /\ MemQueueSize \in Nat /\ Ephemeral \in BOOLEAN
BY ChannelAssumption

\* PumpGoto keeps the pump's type when the object matches the counter.
LEMMA PumpGotoType ==
    ASSUME PumpOK, NEW c \in Clients, NEW o \in Objs \cup {NoObj},
           NEW pc \in {"off", "idle", "received", "pushed", "tracked",
                       "exited"},
           pc \in {"received", "pushed", "tracked"} <=> o # NoObj,
           PumpGoto(c, pc, o)
    PROVE  PumpOK'
BY DEF PumpOK, PumpGoto

\* IOBecomes keeps the IOLoop's type when the object matches the counter.
LEMMA IOBecomesType ==
    ASSUME IoOK, NEW c \in Clients, NEW o \in Objs \cup {NoObj},
           NEW pc \in {"idle", "popped", "removed", "repushed", "deferring",
                       "settling"},
           NEW op \in Commands,
           pc \notin {"idle", "settling"} <=> o # NoObj,
           IOBecomes(c, pc, op, o)
    PROVE  IoOK'
BY DEF IoOK, IOBecomes

\* So do IODone and IOSettling, which drop the object ...
LEMMA IODoneType ==
    ASSUME IoOK, NEW c \in Clients, IODone(c) \/ IOSettling(c)
    PROVE  IoOK'
<1>1. "FIN" \in Commands
  BY DEF Commands
<1> QED
  BY <1>1, IOBecomesType DEF IODone, IOSettling

\* ... and IOGoto, which keeps it.
LEMMA IOGotoType ==
    ASSUME IoOK, NEW c \in Clients, ioObj[c] # NoObj,
           NEW pc \in {"popped", "removed", "repushed", "deferring"},
           IOGoto(c, pc)
    PROVE  IoOK'
<1>1. ioOp[c] \in Commands /\ ioObj[c] \in Objs \cup {NoObj}
  BY DEF IoOK
<1> QED
  BY <1>1, IOBecomesType DEF IOGoto

\* Stored is a function from messages to fates.
LEMMA StoredType ==
    ASSUME fate \in [Msgs -> {"new", "live", "done"}], NEW m \in Msgs
    PROVE  Stored(m) \in [Msgs -> {"new", "live", "done"}]
BY DEF Stored

\* put keeps the queues and the fates well typed.
LEMMA PutType ==
    ASSUME QueueOK, fate \in [Msgs -> {"new", "live", "done"}],
           NEW o \in Objs, put(o)
    PROVE  QueueOK' /\ fate' \in [Msgs -> {"new", "live", "done"}]
<1>1. ID(o) \in Msgs
  BY IDType
<1>2. CASE Len(memoryMsgChan) < MemQueueSize
  <2>1. /\ memoryMsgChan' = Append(memoryMsgChan, o)
        /\ fate' = Stored(ID(o)) /\ backend' = backend
    BY <1>2 DEF put
  <2>2. memoryMsgChan' \in Seq(Objs)
    BY <2>1 DEF QueueOK
  <2> QED
    BY <1>1, <2>1, <2>2, StoredType DEF QueueOK
<1>3. CASE ~(Len(memoryMsgChan) < MemQueueSize) /\ Ephemeral
  BY <1>1, <1>3 DEF put, QueueOK
<1>4. CASE ~(Len(memoryMsgChan) < MemQueueSize) /\ ~Ephemeral
  <2>1. /\ backend' = [backend EXCEPT ![ID(o)] = @ + 1]
        /\ fate' = Stored(ID(o)) /\ memoryMsgChan' = memoryMsgChan
    BY <1>4 DEF put
  <2>2. backend' \in [Msgs -> Nat]
    BY <1>1, <2>1 DEF QueueOK
  <2> QED
    BY <1>1, <2>1, <2>2, StoredType DEF QueueOK
<1> QED
  BY <1>2, <1>3, <1>4

\* A push files an object under its own id in the in-flight map ...
LEMMA PushFlightType ==
    ASSUME FlightOK, NEW o \in Objs, pushInFlightMessage(o)
    PROVE  /\ inFlightMessages' \in [Msgs -> Objs \cup {NoObj}]
           /\ \A m \in Msgs : inFlightMessages'[m] \in ObjsOf(m) \cup {NoObj}
BY IDType DEF FlightOK, pushInFlightMessage, ObjsOf

\* ... and in the deferred map.
LEMMA PushDeferredType ==
    ASSUME DeferOK, NEW o \in Objs, pushDeferredMessage(o)
    PROVE  /\ deferredMessages' \in [Msgs -> Objs \cup {NoObj}]
           /\ \A m \in Msgs : deferredMessages'[m] \in ObjsOf(m) \cup {NoObj}
BY IDType DEF DeferOK, pushDeferredMessage, ObjsOf

\* A heap push keeps the heap's type ...
LEMMA AddToPQType ==
    ASSUME FlightOK, NEW o \in Objs, addToInFlightPQ(o)
    PROVE  /\ inFlightPQ' \in [Objs -> Nat]
           /\ index' \in [Objs -> {"zero", "none", "at", "stale"}]
BY DEF FlightOK, addToInFlightPQ, Reindexed

\* ... a pop or remove does ...
LEMMA HeapRemoveType ==
    ASSUME FlightOK, NEW o \in Objs, HeapRemove(o)
    PROVE  /\ inFlightPQ' \in [Objs -> Nat]
           /\ index' \in [Objs -> {"zero", "none", "at", "stale"}]
BY DEF FlightOK, HeapRemove, Reindexed

\* ... and removeFromInFlightPQ, whichever entry its index names.
LEMMA RemoveFromPQType ==
    ASSUME FlightOK, panicked \in BOOLEAN, NEW o \in Objs,
           removeFromInFlightPQ(o)
    PROVE  /\ inFlightPQ' \in [Objs -> Nat]
           /\ index' \in [Objs -> {"zero", "none", "at", "stale"}]
           /\ panicked' \in BOOLEAN
<1>1. CASE \E x \in Objs : HeapRemove(x) /\ UNCHANGED panicked
  BY <1>1, HeapRemoveType
<1>2. CASE /\ UNCHANGED <<inFlightPQ, index>>
           /\ UNCHANGED panicked \/ panicked' = TRUE
  BY <1>2 DEF FlightOK
<1> QED
  BY <1>1, <1>2 DEF removeFromInFlightPQ

\* A new object has well-typed bookkeeping fields.
LEMMA AllocatedType ==
    ASSUME FlightOK, NEW o \in Objs, Allocated(o)
    PROVE  /\ index' \in [Objs -> {"zero", "none", "at", "stale"}]
           /\ clientID' \in [Objs -> Clients \cup {NoClient}]
BY DEF FlightOK, Allocated

(***************************************************************************)
(* The type invariant.                                                     *)
(***************************************************************************)

\* The initial state is well typed.
LEMMA TypeInit == Init => TypeOK
<1> SUFFICES ASSUME Init PROVE TypeOK
  OBVIOUS
<1> USE Constants DEF Init
<1>1. QueueOK
  BY DEF QueueOK
<1>2. FlightOK
  BY DEF FlightOK
<1>3. DeferOK
  BY DEF DeferOK
<1>4. SubOK /\ ExitOK
  BY DEF SubOK, ExitOK
<1>5. PumpOK
  BY DEF PumpOK
<1>6. IoOK
  BY DEF IoOK, Commands
<1>7. ScanOK
  BY DEF ScanOK
<1>8. HistoryOK
  <2>1. fate \in [Msgs -> {"new", "live", "done"}] /\ topic \in Objs \cup {NoObj}
    OBVIOUS
  <2>2. inFlightCount \in [Clients -> Int]
    OBVIOUS
  <2>3. sent \in [Clients -> SUBSET Msgs]
    OBVIOUS
  <2> QED
    BY <2>1, <2>2, <2>3 DEF HistoryOK
<1> QED
  BY <1>1, <1>2, <1>3, <1>4, <1>5, <1>6, <1>7, <1>8 DEF TypeOK

\* PutMessage keeps TypeOK.
LEMMA TypePutMessage ==
    ASSUME TypeOK, NEW m \in Msgs, PutMessage(m)
    PROVE  TypeOK'
<1> USE Constants, IDType
<1>1. CASE exitFlag
  <2>1. /\ fate' = [fate EXCEPT ![m] = "done"]
        /\ UNCHANGED <<qVars, index, clientID>>
    BY <1>1 DEF PutMessage
  <2>2. HistoryOK'
    BY <2>1 DEF TypeOK, HistoryOK, PutMessage, procVars
  <2>3. QueueOK' /\ FlightOK'
    BY <2>1 DEF TypeOK, QueueOK, FlightOK, PutMessage, qVars
  <2>4. DeferOK' /\ SubOK' /\ ExitOK' /\ PumpOK' /\ IoOK' /\ ScanOK'
    BY DEF TypeOK, DeferOK, SubOK, ExitOK, PumpOK, IoOK, ScanOK, qVars, flightVars, deferVars,
       subVars, exitVars, procVars, pumpVars, ioVars, scanVars,
       PutMessage
  <2> QED
    BY <2>2, <2>3, <2>4 DEF TypeOK
<1>2. CASE ~exitFlag
  <2>1. PICK o \in ObjsOf(m) : Allocated(o) /\ put(o)
    BY <1>2 DEF PutMessage
  <2>2. o \in Objs
    BY DEF ObjsOf
  <2>3. QueueOK' /\ fate' \in [Msgs -> {"new", "live", "done"}]
    BY <2>1, <2>2, PutType DEF TypeOK, HistoryOK
  <2>4. HistoryOK'
    BY <2>3 DEF TypeOK, HistoryOK, PutMessage, procVars
  <2>5. FlightOK'
    BY <2>1, <2>2, AllocatedType DEF TypeOK, FlightOK, PutMessage
  <2>6. DeferOK' /\ SubOK' /\ ExitOK' /\ PumpOK' /\ IoOK' /\ ScanOK'
    BY DEF TypeOK, DeferOK, SubOK, ExitOK, PumpOK, IoOK, ScanOK, qVars, flightVars, deferVars,
       subVars, exitVars, procVars, pumpVars, ioVars, scanVars,
       PutMessage
  <2> QED
    BY <2>3, <2>4, <2>5, <2>6 DEF TypeOK
<1> QED
  BY <1>1, <1>2

\* PutMessageDeferred keeps TypeOK.
LEMMA TypePutMessageDeferred ==
    ASSUME TypeOK, NEW m \in Msgs, PutMessageDeferred(m)
    PROVE  TypeOK'
<1> USE Constants, IDType
<1>1. FlightOK'
  BY DEF TypeOK, FlightOK, ObjsOf, PutMessageDeferred, Allocated,
      pushDeferredMessage
<1>2. DeferOK'
  BY DEF TypeOK, DeferOK, ObjsOf, PutMessageDeferred, Allocated,
      pushDeferredMessage
<1>3. HistoryOK'
  BY DEF TypeOK, HistoryOK, PutMessageDeferred, Allocated,
      pushDeferredMessage, ObjsOf
<1>4. QueueOK' /\ SubOK' /\ ExitOK' /\ PumpOK' /\ IoOK' /\ ScanOK'
  BY DEF TypeOK, QueueOK, SubOK, ExitOK, PumpOK, IoOK, ScanOK, qVars,
      subVars, exitVars, pumpVars, ioVars, scanVars, PutMessageDeferred
<1> QED
  BY <1>1, <1>2, <1>3, <1>4 DEF TypeOK

\* TopicAddToDeferredPQ keeps TypeOK.
LEMMA TypeTopicAddToDeferredPQ ==
    ASSUME TypeOK, TopicAddToDeferredPQ
    PROVE  TypeOK'
<1> USE Constants, IDType
<1>1. DeferOK'
  BY DEF TypeOK, DeferOK, HistoryOK, TopicAddToDeferredPQ
<1>2. HistoryOK'
  BY DEF TypeOK, HistoryOK, TopicAddToDeferredPQ
<1>3. /\ QueueOK' /\ FlightOK' /\ SubOK' /\ ExitOK' /\ PumpOK'
      /\ IoOK' /\ ScanOK'
  BY DEF TypeOK, QueueOK, FlightOK, SubOK, ExitOK, PumpOK, IoOK, ScanOK,
      qVars, flightVars, subVars, exitVars, pumpVars, ioVars, scanVars,
      TopicAddToDeferredPQ
<1> QED
  BY <1>1, <1>2, <1>3 DEF TypeOK

\* PumpReceiveMem keeps TypeOK.
LEMMA TypePumpReceiveMem ==
    ASSUME TypeOK, NEW c \in Clients, PumpReceiveMem(c)
    PROVE  TypeOK'
<1> USE Constants, IDType
<1>1. QueueOK'
  BY DEF TypeOK, QueueOK, PumpReceiveMem, Sample, PumpGoto
<1>2. PumpOK'
  <2>1. memoryMsgChan \in Seq(Objs) /\ memoryMsgChan # <<>>
    BY DEF TypeOK, QueueOK, PumpReceiveMem
  <2>2. Head(memoryMsgChan) \in Objs
    BY <2>1
  <2>3. CASE UNCHANGED pumpVars
    BY <2>3 DEF TypeOK, PumpOK, pumpVars
  <2>4. CASE PumpGoto(c, "received", Head(memoryMsgChan))
    BY <2>2, <2>4, PumpGotoType DEF TypeOK
  <2> QED
    BY <2>3, <2>4 DEF PumpReceiveMem, Sample
<1>3. HistoryOK'
  BY DEF TypeOK, HistoryOK, PumpReceiveMem, Sample, PumpGoto
<1>4. FlightOK' /\ DeferOK' /\ SubOK' /\ ExitOK' /\ IoOK' /\ ScanOK'
  BY DEF TypeOK, FlightOK, DeferOK, SubOK, ExitOK, IoOK, ScanOK, flightVars,
      deferVars, subVars, exitVars, ioVars, scanVars, PumpReceiveMem
<1> QED
  BY <1>1, <1>2, <1>3, <1>4 DEF TypeOK

\* PumpReceiveBackend keeps TypeOK.
LEMMA TypePumpReceiveBackend ==
    ASSUME TypeOK, NEW c \in Clients, NEW m \in Msgs, PumpReceiveBackend(c, m)
    PROVE  TypeOK'
<1> USE Constants, IDType
<1>1. QueueOK'
  BY DEF TypeOK, QueueOK, PumpReceiveBackend, Sample, Allocated, PumpGoto,
      ObjsOf
<1>2. FlightOK'
  <2>1. CASE UNCHANGED <<index, clientID>>
    BY <2>1 DEF TypeOK, FlightOK, PumpReceiveBackend
  <2>2. ASSUME NEW o \in Objs, Allocated(o) PROVE FlightOK'
    BY <2>2, AllocatedType DEF TypeOK, FlightOK, PumpReceiveBackend
  <2> QED
    BY <2>1, <2>2 DEF PumpReceiveBackend, ObjsOf
<1>3. PumpOK'
  <2>1. CASE UNCHANGED pumpVars
    BY <2>1 DEF TypeOK, PumpOK, pumpVars
  <2>2. ASSUME NEW o \in Objs, PumpGoto(c, "received", o) PROVE PumpOK'
    BY <2>2, PumpGotoType DEF TypeOK
  <2> QED
    BY <2>1, <2>2 DEF PumpReceiveBackend, Sample, ObjsOf
<1>4. HistoryOK'
  BY DEF TypeOK, HistoryOK, PumpReceiveBackend, Sample, Allocated, PumpGoto,
      ObjsOf
<1>5. DeferOK' /\ SubOK' /\ ExitOK' /\ IoOK' /\ ScanOK'
  BY DEF TypeOK, DeferOK, SubOK, ExitOK, IoOK, ScanOK, deferVars, subVars,
      exitVars, ioVars, scanVars, PumpReceiveBackend
<1> QED
  BY <1>1, <1>2, <1>3, <1>4, <1>5 DEF TypeOK

\* PumpPush keeps TypeOK.
LEMMA TypePumpPush ==
    ASSUME TypeOK, NEW c \in Clients, PumpPush(c)
    PROVE  TypeOK'
<1> USE Constants, IDType
<1>1. FlightOK'
  <2>1. pumpObj[c] \in Objs
    BY DEF TypeOK, PumpOK, PumpPush
  <2>2. clientID' \in [Objs -> Clients \cup {NoClient}]
    BY <2>1 DEF TypeOK, FlightOK, PumpPush
  <2>3. CASE pushInFlightMessage(pumpObj[c])
    BY <2>1, <2>2, <2>3, PushFlightType DEF TypeOK, FlightOK, PumpPush
  <2>4. CASE UNCHANGED inFlightMessages
    BY <2>2, <2>4 DEF TypeOK, FlightOK, PumpPush
  <2> QED
    BY <2>3, <2>4 DEF PumpPush
<1>2. PumpOK'
  <2>1. pumpObj[c] \in Objs
    BY DEF TypeOK, PumpOK, PumpPush
  <2>2. PICK pc \in {"pushed", "tracked"} : PumpGoto(c, pc, pumpObj[c])
    BY DEF PumpPush
  <2> QED
    BY <2>1, <2>2, PumpGotoType DEF TypeOK
<1>3. /\ QueueOK' /\ DeferOK' /\ SubOK' /\ ExitOK' /\ IoOK'
      /\ ScanOK' /\ HistoryOK'
  BY DEF TypeOK, QueueOK, DeferOK, SubOK, ExitOK, IoOK, ScanOK, HistoryOK,
      qVars, deferVars, subVars, exitVars, ioVars, scanVars, PumpPush
<1> QED
  BY <1>1, <1>2, <1>3 DEF TypeOK

\* PumpAddToPQ keeps TypeOK.
LEMMA TypePumpAddToPQ ==
    ASSUME TypeOK, NEW c \in Clients, PumpAddToPQ(c)
    PROVE  TypeOK'
<1> USE Constants, IDType
<1>1. FlightOK'
  <2>1. pumpObj[c] \in Objs
    BY DEF TypeOK, PumpOK, PumpAddToPQ
  <2> QED
    BY <2>1, AddToPQType DEF TypeOK, FlightOK, PumpAddToPQ
<1>2. PumpOK'
  <2>1. pumpObj[c] \in Objs
    BY DEF TypeOK, PumpOK, PumpAddToPQ
  <2> QED
    BY <2>1, PumpGotoType DEF TypeOK, PumpAddToPQ
<1>3. /\ QueueOK' /\ DeferOK' /\ SubOK' /\ ExitOK' /\ IoOK'
      /\ ScanOK' /\ HistoryOK'
  BY DEF TypeOK, QueueOK, DeferOK, SubOK, ExitOK, IoOK, ScanOK, HistoryOK,
      qVars, deferVars, subVars, exitVars, ioVars, scanVars, PumpAddToPQ
<1> QED
  BY <1>1, <1>2, <1>3 DEF TypeOK

\* PumpSend keeps TypeOK.
LEMMA TypePumpSend ==
    ASSUME TypeOK, NEW c \in Clients, PumpSend(c)
    PROVE  TypeOK'
<1> USE Constants, IDType
<1>1. PumpOK'
  <2>1. PICK pc \in {"idle", "exited"} : PumpGoto(c, pc, NoObj)
    BY DEF PumpSend
  <2> QED
    BY <2>1, PumpGotoType DEF TypeOK
<1>2. HistoryOK'
  <2>1. pumpObj[c] \in Objs
    BY DEF TypeOK, PumpOK, PumpSend
  <2>2. sent' \in [Clients -> SUBSET Msgs]
    BY <2>1 DEF TypeOK, HistoryOK, PumpSend
  <2>3. inFlightCount' \in [Clients -> Int]
    BY DEF TypeOK, HistoryOK, PumpSend
  <2> QED
    BY <2>2, <2>3 DEF TypeOK, HistoryOK, PumpSend
<1>3. /\ QueueOK' /\ FlightOK' /\ DeferOK' /\ SubOK' /\ ExitOK'
      /\ IoOK' /\ ScanOK'
  BY DEF TypeOK, QueueOK, FlightOK, DeferOK, SubOK, ExitOK, IoOK, ScanOK,
      qVars, flightVars, deferVars, subVars, exitVars, ioVars, scanVars,
      PumpSend
<1> QED
  BY <1>1, <1>2, <1>3 DEF TypeOK

\* PumpExit keeps TypeOK.
LEMMA TypePumpExit ==
    ASSUME TypeOK, NEW c \in Clients, PumpExit(c)
    PROVE  TypeOK'
<1> USE Constants, IDType
<1>1. PumpOK'
  BY DEF TypeOK, PumpOK, PumpExit, PumpGoto
<1>2. /\ QueueOK' /\ FlightOK' /\ DeferOK' /\ SubOK' /\ ExitOK'
      /\ IoOK' /\ ScanOK' /\ HistoryOK'
  BY DEF TypeOK, QueueOK, FlightOK, DeferOK, SubOK, ExitOK, IoOK, ScanOK,
      HistoryOK, qVars, flightVars, deferVars, subVars, exitVars, ioVars,
      scanVars, PumpExit
<1> QED
  BY <1>1, <1>2 DEF TypeOK

\* IOPop keeps TypeOK.
LEMMA TypeIOPop ==
    ASSUME TypeOK, NEW c \in Clients, NEW m \in Msgs, NEW op \in Ops,
           IOPop(c, m, op)
    PROVE  TypeOK'
<1> USE Constants, IDType
<1>1. FlightOK'
  BY DEF TypeOK, FlightOK, ObjsOf, IOPop, popInFlightMessage, InFlightOwner,
      IOBecomes
<1>2. IoOK'
  <2>1. inFlightMessages[m] \in Objs /\ op \in Commands
    BY DEF TypeOK, FlightOK, IOPop, popInFlightMessage, InFlightOwner
  <2> QED
    BY <2>1, IOBecomesType DEF TypeOK, IOPop
<1>3. HistoryOK'
  BY DEF TypeOK, HistoryOK, IOPop, popInFlightMessage, InFlightOwner,
      IOBecomes
<1>4. QueueOK' /\ DeferOK' /\ SubOK' /\ ExitOK' /\ PumpOK' /\ ScanOK'
  BY DEF TypeOK, QueueOK, DeferOK, SubOK, ExitOK, PumpOK, ScanOK, qVars,
      deferVars, subVars, exitVars, pumpVars, scanVars, IOPop
<1> QED
  BY <1>1, <1>2, <1>3, <1>4 DEF TypeOK

\* IORemovePQ keeps TypeOK.
LEMMA TypeIORemovePQ ==
    ASSUME TypeOK, NEW c \in Clients, IORemovePQ(c)
    PROVE  TypeOK'
<1> USE Constants, IDType
<1>1. FlightOK'
  <2>1. ioObj[c] \in Objs
    BY DEF TypeOK, IoOK, IORemovePQ
  <2> QED
    BY <2>1, RemoveFromPQType DEF TypeOK, FlightOK, HistoryOK, IORemovePQ
<1>2. IoOK'
  <2>1. ioObj[c] \in Objs
    BY DEF TypeOK, IoOK, IORemovePQ
  <2>2. CASE IODone(c) \/ IOSettling(c)
    BY <2>2, IODoneType DEF TypeOK
  <2>3. CASE IOGoto(c, "removed")
    BY <2>1, <2>3, IOGotoType DEF TypeOK
  <2> QED
    BY <2>2, <2>3 DEF IORemovePQ
<1>3. HistoryOK'
  <2>1. ioObj[c] \in Objs
    BY DEF TypeOK, IoOK, IORemovePQ
  <2> QED
    BY <2>1, RemoveFromPQType DEF TypeOK, HistoryOK, IORemovePQ
<1>4. QueueOK' /\ DeferOK' /\ SubOK' /\ ExitOK' /\ PumpOK' /\ ScanOK'
  BY DEF TypeOK, QueueOK, DeferOK, SubOK, ExitOK, PumpOK, ScanOK, qVars,
      deferVars, subVars, exitVars, pumpVars, scanVars, IORemovePQ
<1> QED
  BY <1>1, <1>2, <1>3, <1>4 DEF TypeOK

\* IORequeue keeps TypeOK.
LEMMA TypeIORequeue ==
    ASSUME TypeOK, NEW c \in Clients, IORequeue(c)
    PROVE  TypeOK'
<1> USE Constants, IDType
<1>1. QueueOK'
  <2>1. ioObj[c] \in Objs
    BY DEF TypeOK, IoOK, IORequeue
  <2>2. CASE put(ioObj[c])
    BY <2>1, <2>2, PutType DEF TypeOK, HistoryOK
  <2>3. CASE UNCHANGED <<qVars, fate>>
    BY <2>3 DEF TypeOK, QueueOK, qVars
  <2> QED
    BY <2>2, <2>3 DEF IORequeue
<1>2. IoOK'
  BY IODoneType DEF TypeOK, IORequeue
<1>3. HistoryOK'
  <2>1. ioObj[c] \in Objs
    BY DEF TypeOK, IoOK, IORequeue
  <2>2. fate' \in [Msgs -> {"new", "live", "done"}]
    <3>1. CASE put(ioObj[c])
      BY <2>1, <3>1, PutType DEF TypeOK, HistoryOK
    <3>2. CASE UNCHANGED <<qVars, fate>>
      BY <3>2 DEF TypeOK, HistoryOK
    <3> QED
      BY <3>1, <3>2 DEF IORequeue
  <2> QED
    BY <2>2 DEF TypeOK, HistoryOK, IORequeue
<1>4. FlightOK' /\ DeferOK' /\ SubOK' /\ ExitOK' /\ PumpOK' /\ ScanOK'
  BY DEF TypeOK, FlightOK, DeferOK, SubOK, ExitOK, PumpOK, ScanOK, qVars,
      flightVars, deferVars, subVars, exitVars, pumpVars, scanVars, IORequeue
<1> QED
  BY <1>1, <1>2, <1>3, <1>4 DEF TypeOK

\* IODefer keeps TypeOK.
LEMMA TypeIODefer ==
    ASSUME TypeOK, NEW c \in Clients, IODefer(c)
    PROVE  TypeOK'
<1> USE Constants, IDType
<1>1. DeferOK'
  <2>1. ioObj[c] \in Objs
    BY DEF TypeOK, IoOK, IODefer
  <2>2. CASE pushDeferredMessage(ioObj[c])
    BY <2>1, <2>2, PushDeferredType DEF TypeOK, DeferOK, IODefer
  <2>3. CASE UNCHANGED deferredMessages
    BY <2>3 DEF TypeOK, DeferOK, IODefer
  <2> QED
    BY <2>2, <2>3 DEF IODefer
<1>2. IoOK'
  <2>1. ioObj[c] \in Objs
    BY DEF TypeOK, IoOK, IODefer
  <2>2. CASE IODone(c) \/ IOSettling(c)
    BY <2>2, IODoneType DEF TypeOK
  <2>3. CASE IOGoto(c, "deferring")
    BY <2>1, <2>3, IOGotoType DEF TypeOK
  <2> QED
    BY <2>2, <2>3 DEF IODefer
<1>3. /\ QueueOK' /\ FlightOK' /\ SubOK' /\ ExitOK' /\ PumpOK'
      /\ ScanOK' /\ HistoryOK'
  BY DEF TypeOK, QueueOK, FlightOK, SubOK, ExitOK, PumpOK, ScanOK, HistoryOK,
      qVars, flightVars, subVars, exitVars, pumpVars, scanVars, IODefer
<1> QED
  BY <1>1, <1>2, <1>3 DEF TypeOK

\* IOAddToDeferredPQ keeps TypeOK.
LEMMA TypeIOAddToDeferredPQ ==
    ASSUME TypeOK, NEW c \in Clients, IOAddToDeferredPQ(c)
    PROVE  TypeOK'
<1> USE Constants, IDType
<1>1. DeferOK'
  BY DEF TypeOK, DeferOK, IoOK, IOAddToDeferredPQ
<1>2. IoOK'
  BY IODoneType DEF TypeOK, IOAddToDeferredPQ
<1>3. /\ QueueOK' /\ FlightOK' /\ SubOK' /\ ExitOK' /\ PumpOK'
      /\ ScanOK' /\ HistoryOK'
  BY DEF TypeOK, QueueOK, FlightOK, SubOK, ExitOK, PumpOK, ScanOK, HistoryOK,
      qVars, flightVars, subVars, exitVars, pumpVars, scanVars,
      IOAddToDeferredPQ
<1> QED
  BY <1>1, <1>2, <1>3 DEF TypeOK

\* IOTouchPush keeps TypeOK.
LEMMA TypeIOTouchPush ==
    ASSUME TypeOK, NEW c \in Clients, IOTouchPush(c)
    PROVE  TypeOK'
<1> USE Constants, IDType
<1>1. FlightOK'
  <2>1. ioObj[c] \in Objs
    BY DEF TypeOK, IoOK, IOTouchPush
  <2>2. CASE pushInFlightMessage(ioObj[c])
    BY <2>1, <2>2, PushFlightType DEF TypeOK, FlightOK, IOTouchPush
  <2>3. CASE UNCHANGED inFlightMessages
    BY <2>3 DEF TypeOK, FlightOK, IOTouchPush
  <2> QED
    BY <2>2, <2>3 DEF IOTouchPush
<1>2. IoOK'
  <2>1. ioObj[c] \in Objs
    BY DEF TypeOK, IoOK, IOTouchPush
  <2>2. CASE IODone(c) \/ IOSettling(c)
    BY <2>2, IODoneType DEF TypeOK
  <2>3. CASE IOGoto(c, "repushed")
    BY <2>1, <2>3, IOGotoType DEF TypeOK
  <2> QED
    BY <2>2, <2>3 DEF IOTouchPush
<1>3. /\ QueueOK' /\ DeferOK' /\ SubOK' /\ ExitOK' /\ PumpOK'
      /\ ScanOK' /\ HistoryOK'
  BY DEF TypeOK, QueueOK, DeferOK, SubOK, ExitOK, PumpOK, ScanOK, HistoryOK,
      qVars, deferVars, subVars, exitVars, pumpVars, scanVars, IOTouchPush
<1> QED
  BY <1>1, <1>2, <1>3 DEF TypeOK

\* IOTouchAddToPQ keeps TypeOK.
LEMMA TypeIOTouchAddToPQ ==
    ASSUME TypeOK, NEW c \in Clients, IOTouchAddToPQ(c)
    PROVE  TypeOK'
<1> USE Constants, IDType
<1>1. FlightOK'
  <2>1. ioObj[c] \in Objs
    BY DEF TypeOK, IoOK, IOTouchAddToPQ
  <2> QED
    BY <2>1, AddToPQType DEF TypeOK, FlightOK, IOTouchAddToPQ
<1>2. IoOK'
  BY IODoneType DEF TypeOK, IOTouchAddToPQ
<1>3. /\ QueueOK' /\ DeferOK' /\ SubOK' /\ ExitOK' /\ PumpOK'
      /\ ScanOK' /\ HistoryOK'
  BY DEF TypeOK, QueueOK, DeferOK, SubOK, ExitOK, PumpOK, ScanOK, HistoryOK,
      qVars, deferVars, subVars, exitVars, pumpVars, scanVars, IOTouchAddToPQ
<1> QED
  BY <1>1, <1>2, <1>3 DEF TypeOK

\* IOSettle keeps TypeOK.
LEMMA TypeIOSettle ==
    ASSUME TypeOK, NEW c \in Clients, IOSettle(c)
    PROVE  TypeOK'
<1> USE Constants, IDType
<1>1. IoOK'
  BY IODoneType DEF TypeOK, IOSettle
<1>2. HistoryOK'
  BY DEF TypeOK, HistoryOK, IOSettle, IODone, IOBecomes
<1>3. /\ QueueOK' /\ FlightOK' /\ DeferOK' /\ SubOK' /\ ExitOK'
      /\ PumpOK' /\ ScanOK'
  BY DEF TypeOK, QueueOK, FlightOK, DeferOK, SubOK, ExitOK, PumpOK, ScanOK,
      qVars, flightVars, deferVars, subVars, exitVars, pumpVars, scanVars,
      IOSettle
<1> QED
  BY <1>1, <1>2, <1>3 DEF TypeOK

\* ScanShift keeps TypeOK.
LEMMA TypeScanShift ==
    ASSUME TypeOK, NEW o \in Objs, ScanShift(o)
    PROVE  TypeOK'
<1> USE Constants, IDType
<1>1. FlightOK'
  BY HeapRemoveType DEF TypeOK, FlightOK, ScanShift
<1>2. ScanOK'
  BY DEF TypeOK, ScanOK, ScanShift, HeapRemove, Reindexed, ScanGoto
<1>3. /\ QueueOK' /\ DeferOK' /\ SubOK' /\ ExitOK' /\ PumpOK'
      /\ IoOK' /\ HistoryOK'
  BY DEF TypeOK, QueueOK, DeferOK, SubOK, ExitOK, PumpOK, IoOK, HistoryOK,
      qVars, deferVars, subVars, exitVars, pumpVars, ioVars, ScanShift
<1> QED
  BY <1>1, <1>2, <1>3 DEF TypeOK

\* ScanReadOwner keeps TypeOK.
LEMMA TypeScanReadOwner ==
    ASSUME TypeOK, ScanReadOwner
    PROVE  TypeOK'
<1> USE Constants, IDType
<1>1. ScanOK'
  BY DEF TypeOK, ScanOK, FlightOK, ScanReadOwner, ScanGoto
<1>2. /\ QueueOK' /\ FlightOK' /\ DeferOK' /\ SubOK' /\ ExitOK'
      /\ PumpOK' /\ IoOK' /\ HistoryOK'
  BY DEF TypeOK, QueueOK, FlightOK, DeferOK, SubOK, ExitOK, PumpOK, IoOK,
      HistoryOK, qVars, flightVars, deferVars, subVars, exitVars, pumpVars,
      ioVars, ScanReadOwner
<1> QED
  BY <1>1, <1>2 DEF TypeOK

\* ScanPop keeps TypeOK.
LEMMA TypeScanPop ==
    ASSUME TypeOK, ScanPop
    PROVE  TypeOK'
<1> USE Constants, IDType
<1>1. FlightOK'
  BY DEF TypeOK, FlightOK, ObjsOf, ScanPop, popInFlightMessage, ScanGoto
<1>2. ScanOK'
  BY DEF TypeOK, ScanOK, ScanPop, popInFlightMessage, ScanGoto
<1>3. /\ QueueOK' /\ DeferOK' /\ SubOK' /\ ExitOK' /\ PumpOK'
      /\ IoOK' /\ HistoryOK'
  BY DEF TypeOK, QueueOK, DeferOK, SubOK, ExitOK, PumpOK, IoOK, HistoryOK,
      qVars, deferVars, subVars, exitVars, pumpVars, ioVars, ScanPop
<1> QED
  BY <1>1, <1>2, <1>3 DEF TypeOK

\* ScanTimedOut keeps TypeOK.
LEMMA TypeScanTimedOut ==
    ASSUME TypeOK, ScanTimedOut
    PROVE  TypeOK'
<1> USE Constants, IDType
<1>1. ScanOK'
  BY DEF TypeOK, ScanOK, ScanTimedOut, ScanGoto
<1>2. HistoryOK'
  BY DEF TypeOK, HistoryOK, ScanTimedOut, ScanGoto
<1>3. /\ QueueOK' /\ FlightOK' /\ DeferOK' /\ SubOK' /\ ExitOK'
      /\ PumpOK' /\ IoOK'
  BY DEF TypeOK, QueueOK, FlightOK, DeferOK, SubOK, ExitOK, PumpOK, IoOK,
      qVars, flightVars, deferVars, subVars, exitVars, pumpVars, ioVars,
      ScanTimedOut
<1> QED
  BY <1>1, <1>2, <1>3 DEF TypeOK

\* ScanPut keeps TypeOK.
LEMMA TypeScanPut ==
    ASSUME TypeOK, ScanPut
    PROVE  TypeOK'
<1> USE Constants, IDType
<1>1. QueueOK'
  <2>1. scanObj \in Objs
    BY DEF TypeOK, ScanOK, ScanPut
  <2> QED
    BY <2>1, PutType DEF TypeOK, HistoryOK, ScanPut
<1>2. ScanOK'
  BY DEF TypeOK, ScanOK, ScanPut, put, Stored, ScanGoto
<1>3. HistoryOK'
  <2>1. scanObj \in Objs
    BY DEF TypeOK, ScanOK, ScanPut
  <2>2. fate' \in [Msgs -> {"new", "live", "done"}]
    BY <2>1, PutType DEF TypeOK, HistoryOK, ScanPut
  <2> QED
    BY <2>2 DEF TypeOK, HistoryOK, ScanPut
<1>4. FlightOK' /\ DeferOK' /\ SubOK' /\ ExitOK' /\ PumpOK' /\ IoOK'
  BY DEF TypeOK, FlightOK, DeferOK, SubOK, ExitOK, PumpOK, IoOK, flightVars,
      deferVars, subVars, exitVars, pumpVars, ioVars, ScanPut
<1> QED
  BY <1>1, <1>2, <1>3, <1>4 DEF TypeOK

\* ScanShiftDeferred keeps TypeOK.
LEMMA TypeScanShiftDeferred ==
    ASSUME TypeOK, NEW o \in Objs, ScanShiftDeferred(o)
    PROVE  TypeOK'
<1> USE Constants, IDType
<1>1. DeferOK'
  BY DEF TypeOK, DeferOK, ObjsOf, ScanShiftDeferred, ScanGoto
<1>2. ScanOK'
  BY DEF TypeOK, ScanOK, ScanShiftDeferred, ScanGoto
<1>3. /\ QueueOK' /\ FlightOK' /\ SubOK' /\ ExitOK' /\ PumpOK'
      /\ IoOK' /\ HistoryOK'
  BY DEF TypeOK, QueueOK, FlightOK, SubOK, ExitOK, PumpOK, IoOK, HistoryOK,
      qVars, flightVars, subVars, exitVars, pumpVars, ioVars,
      ScanShiftDeferred
<1> QED
  BY <1>1, <1>2, <1>3 DEF TypeOK

\* ScanPopDeferred keeps TypeOK.
LEMMA TypeScanPopDeferred ==
    ASSUME TypeOK, ScanPopDeferred
    PROVE  TypeOK'
<1> USE Constants, IDType
<1>1. DeferOK'
  BY DEF TypeOK, DeferOK, ObjsOf, ScanPopDeferred, ScanGoto
<1>2. ScanOK'
  BY DEF TypeOK, ScanOK, ScanPopDeferred, ScanGoto
<1>3. /\ QueueOK' /\ FlightOK' /\ SubOK' /\ ExitOK' /\ PumpOK'
      /\ IoOK' /\ HistoryOK'
  BY DEF TypeOK, QueueOK, FlightOK, SubOK, ExitOK, PumpOK, IoOK, HistoryOK,
      qVars, flightVars, subVars, exitVars, pumpVars, ioVars, ScanPopDeferred
<1> QED
  BY <1>1, <1>2, <1>3 DEF TypeOK

\* AddClientCheck keeps TypeOK.
LEMMA TypeAddClientCheck ==
    ASSUME TypeOK, NEW c \in Clients, AddClientCheck(c)
    PROVE  TypeOK'
<1> USE Constants, IDType
<1>1. SubOK'
  BY DEF TypeOK, SubOK, AddClientCheck
<1>2. /\ QueueOK' /\ FlightOK' /\ DeferOK' /\ ExitOK' /\ PumpOK'
      /\ IoOK' /\ ScanOK' /\ HistoryOK'
  BY DEF TypeOK, QueueOK, FlightOK, DeferOK, ExitOK, PumpOK, IoOK, ScanOK,
      HistoryOK, qVars, flightVars, deferVars, exitVars, procVars, pumpVars,
      ioVars, scanVars, AddClientCheck
<1> QED
  BY <1>1, <1>2 DEF TypeOK

\* AddClientInsert keeps TypeOK.
LEMMA TypeAddClientInsert ==
    ASSUME TypeOK, NEW c \in Clients, AddClientInsert(c)
    PROVE  TypeOK'
<1> USE Constants, IDType
<1>1. SubOK'
  BY DEF TypeOK, SubOK, AddClientInsert
<1>2. /\ QueueOK' /\ FlightOK' /\ DeferOK' /\ ExitOK' /\ PumpOK'
      /\ IoOK' /\ ScanOK' /\ HistoryOK'
  BY DEF TypeOK, QueueOK, FlightOK, DeferOK, ExitOK, PumpOK, IoOK, ScanOK,
      HistoryOK, qVars, flightVars, deferVars, exitVars, procVars, pumpVars,
      ioVars, scanVars, AddClientInsert
<1> QED
  BY <1>1, <1>2 DEF TypeOK

\* SUB keeps TypeOK.
LEMMA TypeSUB ==
    ASSUME TypeOK, NEW c \in Clients, SUB(c)
    PROVE  TypeOK'
<1> USE Constants, IDType
<1>1. SubOK'
  BY DEF TypeOK, SubOK, SUB, PumpGoto
<1>2. PumpOK'
  <2>1. CASE UNCHANGED pumpVars
    BY <2>1 DEF TypeOK, PumpOK, pumpVars
  <2>2. CASE PumpGoto(c, "idle", NoObj)
    BY <2>2, PumpGotoType DEF TypeOK
  <2> QED
    BY <2>1, <2>2 DEF SUB
<1>3. /\ QueueOK' /\ FlightOK' /\ DeferOK' /\ ExitOK' /\ IoOK'
      /\ ScanOK' /\ HistoryOK'
  BY DEF TypeOK, QueueOK, FlightOK, DeferOK, ExitOK, IoOK, ScanOK, HistoryOK,
      qVars, flightVars, deferVars, exitVars, pumpVars, ioVars, scanVars, SUB
<1> QED
  BY <1>1, <1>2, <1>3 DEF TypeOK

\* Disconnect keeps TypeOK.
LEMMA TypeDisconnect ==
    ASSUME TypeOK, NEW c \in Clients, Disconnect(c)
    PROVE  TypeOK'
<1> USE Constants, IDType
<1>1. SubOK'
  BY DEF TypeOK, SubOK, Disconnect
<1>2. /\ QueueOK' /\ FlightOK' /\ DeferOK' /\ ExitOK' /\ PumpOK'
      /\ IoOK' /\ ScanOK' /\ HistoryOK'
  BY DEF TypeOK, QueueOK, FlightOK, DeferOK, ExitOK, PumpOK, IoOK, ScanOK,
      HistoryOK, qVars, flightVars, deferVars, exitVars, procVars, pumpVars,
      ioVars, scanVars, Disconnect
<1> QED
  BY <1>1, <1>2 DEF TypeOK

\* RemoveClient keeps TypeOK.
LEMMA TypeRemoveClient ==
    ASSUME TypeOK, NEW c \in Clients, RemoveClient(c)
    PROVE  TypeOK'
<1> USE Constants, IDType
<1>1. SubOK'
  BY DEF TypeOK, SubOK, RemoveClient
<1>2. /\ QueueOK' /\ FlightOK' /\ DeferOK' /\ ExitOK' /\ PumpOK'
      /\ IoOK' /\ ScanOK' /\ HistoryOK'
  BY DEF TypeOK, QueueOK, FlightOK, DeferOK, ExitOK, PumpOK, IoOK, ScanOK,
      HistoryOK, qVars, flightVars, deferVars, exitVars, procVars, pumpVars,
      ioVars, scanVars, RemoveClient
<1> QED
  BY <1>1, <1>2 DEF TypeOK

\* Empty keeps TypeOK.
LEMMA TypeEmpty ==
    ASSUME TypeOK, Empty
    PROVE  TypeOK'
<1> USE Constants, IDType
<1>1. FlightOK'
  BY DEF TypeOK, FlightOK, ObjsOf, Empty, EmptyInFlight, Discarded
<1>2. ExitOK'
  BY DEF TypeOK, ExitOK, Empty, EmptyInFlight, Discarded
<1>3. HistoryOK'
  BY DEF TypeOK, HistoryOK, procVars, Empty, EmptyInFlight, Discarded
<1>4. QueueOK' /\ DeferOK' /\ SubOK' /\ PumpOK' /\ IoOK' /\ ScanOK'
  BY DEF TypeOK, QueueOK, DeferOK, SubOK, PumpOK, IoOK, ScanOK, qVars,
      deferVars, subVars, procVars, pumpVars, ioVars, scanVars, Empty,
      EmptyInFlight
<1> QED
  BY <1>1, <1>2, <1>3, <1>4 DEF TypeOK

\* EmptyDeferred keeps TypeOK.
LEMMA TypeEmptyDeferred ==
    ASSUME TypeOK, EmptyDeferred
    PROVE  TypeOK'
<1> USE Constants, IDType
<1>1. DeferOK'
  BY DEF TypeOK, DeferOK, ObjsOf, EmptyDeferred, Discarded
<1>2. ExitOK'
  BY DEF TypeOK, ExitOK, EmptyDeferred, Discarded
<1>3. HistoryOK'
  BY DEF TypeOK, HistoryOK, procVars, EmptyDeferred, Discarded
<1>4. QueueOK' /\ FlightOK' /\ SubOK' /\ PumpOK' /\ IoOK' /\ ScanOK'
  BY DEF TypeOK, QueueOK, FlightOK, SubOK, PumpOK, IoOK, ScanOK, qVars,
      flightVars, subVars, procVars, pumpVars, ioVars, scanVars,
      EmptyDeferred
<1> QED
  BY <1>1, <1>2, <1>3, <1>4 DEF TypeOK

\* EmptyClients keeps TypeOK.
LEMMA TypeEmptyClients ==
    ASSUME TypeOK, EmptyClients
    PROVE  TypeOK'
<1> USE Constants, IDType
<1>1. ExitOK'
  BY DEF TypeOK, ExitOK, EmptyClients
<1>2. HistoryOK'
  BY DEF TypeOK, HistoryOK, procVars, EmptyClients
<1>3. /\ QueueOK' /\ FlightOK' /\ DeferOK' /\ SubOK' /\ PumpOK'
      /\ IoOK' /\ ScanOK'
  BY DEF TypeOK, QueueOK, FlightOK, DeferOK, SubOK, PumpOK, IoOK, ScanOK,
      qVars, flightVars, deferVars, subVars, procVars, pumpVars, ioVars,
      scanVars, EmptyClients
<1> QED
  BY <1>1, <1>2, <1>3 DEF TypeOK

\* EmptyDrain keeps TypeOK.
LEMMA TypeEmptyDrain ==
    ASSUME TypeOK, EmptyDrain
    PROVE  TypeOK'
<1> USE Constants, IDType
<1>1. QueueOK'
  BY DEF TypeOK, QueueOK, EmptyDrain, Discarded
<1>2. HistoryOK'
  BY DEF TypeOK, HistoryOK, procVars, EmptyDrain, Discarded
<1>3. /\ FlightOK' /\ DeferOK' /\ SubOK' /\ ExitOK' /\ PumpOK'
      /\ IoOK' /\ ScanOK'
  BY DEF TypeOK, FlightOK, DeferOK, SubOK, ExitOK, PumpOK, IoOK, ScanOK,
      flightVars, deferVars, subVars, exitVars, procVars, pumpVars, ioVars,
      scanVars, EmptyDrain
<1> QED
  BY <1>1, <1>2, <1>3 DEF TypeOK

\* EmptyBackend keeps TypeOK.
LEMMA TypeEmptyBackend ==
    ASSUME TypeOK, EmptyBackend
    PROVE  TypeOK'
<1> USE Constants, IDType
<1>1. QueueOK'
  BY DEF TypeOK, QueueOK, EmptyBackend, Discarded
<1>2. ExitOK'
  BY DEF TypeOK, ExitOK, EmptyBackend, Discarded
<1>3. HistoryOK'
  BY DEF TypeOK, HistoryOK, procVars, EmptyBackend, Discarded
<1>4. FlightOK' /\ DeferOK' /\ SubOK' /\ PumpOK' /\ IoOK' /\ ScanOK'
  BY DEF TypeOK, FlightOK, DeferOK, SubOK, PumpOK, IoOK, ScanOK, flightVars,
      deferVars, subVars, procVars, pumpVars, ioVars, scanVars, EmptyBackend
<1> QED
  BY <1>1, <1>2, <1>3, <1>4 DEF TypeOK

\* Close keeps TypeOK.
LEMMA TypeClose ==
    ASSUME TypeOK, Close
    PROVE  TypeOK'
<1> USE Constants, IDType
<1>1. ExitOK'
  BY DEF TypeOK, ExitOK, Close, BeginExit
<1>2. /\ QueueOK' /\ FlightOK' /\ DeferOK' /\ SubOK' /\ PumpOK'
      /\ IoOK' /\ ScanOK' /\ HistoryOK'
  BY DEF TypeOK, QueueOK, FlightOK, DeferOK, SubOK, PumpOK, IoOK, ScanOK,
      HistoryOK, qVars, flightVars, deferVars, subVars, procVars, pumpVars,
      ioVars, scanVars, Close, BeginExit
<1> QED
  BY <1>1, <1>2 DEF TypeOK

\* CloseClients keeps TypeOK.
LEMMA TypeCloseClients ==
    ASSUME TypeOK, CloseClients
    PROVE  TypeOK'
<1> USE Constants, IDType
<1>1. ExitOK'
  BY DEF TypeOK, ExitOK, CloseClients
<1>2. /\ QueueOK' /\ FlightOK' /\ DeferOK' /\ SubOK' /\ PumpOK'
      /\ IoOK' /\ ScanOK' /\ HistoryOK'
  BY DEF TypeOK, QueueOK, FlightOK, DeferOK, SubOK, PumpOK, IoOK, ScanOK,
      HistoryOK, qVars, flightVars, deferVars, subVars, procVars, pumpVars,
      ioVars, scanVars, CloseClients
<1> QED
  BY <1>1, <1>2 DEF TypeOK

\* FlushMem keeps TypeOK.
LEMMA TypeFlushMem ==
    ASSUME TypeOK, FlushMem
    PROVE  TypeOK'
<1> USE Constants, IDType
<1>1. QueueOK'
  <2>1. CASE memoryMsgChan # <<>>
    <3>1. Head(memoryMsgChan) \in Objs /\ Tail(memoryMsgChan) \in Seq(Objs)
      BY <2>1 DEF TypeOK, QueueOK
    <3>2. backend' \in [Msgs -> Nat]
      BY <2>1, <3>1 DEF TypeOK, QueueOK, FlushMem, Written
    <3> QED
      BY <2>1, <3>1, <3>2 DEF QueueOK, FlushMem
  <2>2. CASE memoryMsgChan = <<>>
    BY <2>2 DEF TypeOK, QueueOK, FlushMem, qVars
  <2> QED
    BY <2>1, <2>2
<1>2. ExitOK'
  BY DEF TypeOK, ExitOK, FlushMem, Written
<1>3. /\ FlightOK' /\ DeferOK' /\ SubOK' /\ PumpOK' /\ IoOK'
      /\ ScanOK' /\ HistoryOK'
  BY DEF TypeOK, FlightOK, DeferOK, SubOK, PumpOK, IoOK, ScanOK, HistoryOK,
      qVars, flightVars, deferVars, subVars, procVars, pumpVars, ioVars,
      scanVars, FlushMem
<1> QED
  BY <1>1, <1>2, <1>3 DEF TypeOK

\* FlushInFlight keeps TypeOK.
LEMMA TypeFlushInFlight ==
    ASSUME TypeOK, FlushInFlight
    PROVE  TypeOK'
<1> USE Constants, IDType
<1>1. QueueOK'
  BY DEF TypeOK, QueueOK, FlushInFlight, Written
<1>2. ExitOK'
  BY DEF TypeOK, ExitOK, FlushInFlight, Written
<1>3. /\ FlightOK' /\ DeferOK' /\ SubOK' /\ PumpOK' /\ IoOK'
      /\ ScanOK' /\ HistoryOK'
  BY DEF TypeOK, FlightOK, DeferOK, SubOK, PumpOK, IoOK, ScanOK, HistoryOK,
      flightVars, deferVars, subVars, procVars, pumpVars, ioVars, scanVars,
      FlushInFlight
<1> QED
  BY <1>1, <1>2, <1>3 DEF TypeOK

\* FlushDeferred keeps TypeOK.
LEMMA TypeFlushDeferred ==
    ASSUME TypeOK, FlushDeferred
    PROVE  TypeOK'
<1> USE Constants, IDType
<1>1. QueueOK'
  BY DEF TypeOK, QueueOK, FlushDeferred, Written
<1>2. ExitOK'
  BY DEF TypeOK, ExitOK, FlushDeferred, Written
<1>3. /\ FlightOK' /\ DeferOK' /\ SubOK' /\ PumpOK' /\ IoOK'
      /\ ScanOK' /\ HistoryOK'
  BY DEF TypeOK, FlightOK, DeferOK, SubOK, PumpOK, IoOK, ScanOK, HistoryOK,
      flightVars, deferVars, subVars, procVars, pumpVars, ioVars, scanVars,
      FlushDeferred
<1> QED
  BY <1>1, <1>2, <1>3 DEF TypeOK

\* Delete keeps TypeOK.
LEMMA TypeDelete ==
    ASSUME TypeOK, Delete
    PROVE  TypeOK'
<1> USE Constants, IDType
<1>1. ExitOK'
  BY DEF TypeOK, ExitOK, Delete, BeginExit
<1>2. /\ QueueOK' /\ FlightOK' /\ DeferOK' /\ SubOK' /\ PumpOK'
      /\ IoOK' /\ ScanOK' /\ HistoryOK'
  BY DEF TypeOK, QueueOK, FlightOK, DeferOK, SubOK, PumpOK, IoOK, ScanOK,
      HistoryOK, qVars, flightVars, deferVars, subVars, procVars, pumpVars,
      ioVars, scanVars, Delete, BeginExit
<1> QED
  BY <1>1, <1>2 DEF TypeOK

\* DeleteEmpties keeps TypeOK.
LEMMA TypeDeleteEmpties ==
    ASSUME TypeOK, DeleteEmpties
    PROVE  TypeOK'
<1> USE Constants, IDType
<1>1. FlightOK'
  BY DEF TypeOK, FlightOK, ObjsOf, DeleteEmpties, EmptyInFlight, Discarded
<1>2. ExitOK'
  BY DEF TypeOK, ExitOK, DeleteEmpties, EmptyInFlight, Discarded
<1>3. HistoryOK'
  BY DEF TypeOK, HistoryOK, procVars, DeleteEmpties, EmptyInFlight, Discarded
<1>4. QueueOK' /\ DeferOK' /\ SubOK' /\ PumpOK' /\ IoOK' /\ ScanOK'
  BY DEF TypeOK, QueueOK, DeferOK, SubOK, PumpOK, IoOK, ScanOK, qVars,
      deferVars, subVars, procVars, pumpVars, ioVars, scanVars,
      DeleteEmpties, EmptyInFlight
<1> QED
  BY <1>1, <1>2, <1>3, <1>4 DEF TypeOK

\* Every step keeps every variable's type.
LEMMA TypeStep == TypeOK /\ [Next]_vars => TypeOK'
<1> SUFFICES ASSUME TypeOK, [Next]_vars PROVE TypeOK'
  OBVIOUS
<1>1. CASE UNCHANGED vars
  BY <1>1 DEF vars, qVars, flightVars, deferVars, subVars, exitVars, procVars,
       pumpVars, ioVars, scanVars, TypeOK, QueueOK, FlightOK, DeferOK, SubOK,
       ExitOK, PumpOK, IoOK, ScanOK, HistoryOK
<1>2. CASE Next
  BY <1>2, TypePutMessage, TypePutMessageDeferred, TypeTopicAddToDeferredPQ,
      TypePumpReceiveMem, TypePumpReceiveBackend, TypePumpPush,
      TypePumpAddToPQ, TypePumpSend, TypePumpExit, TypeIOPop, TypeIORemovePQ,
      TypeIORequeue, TypeIODefer, TypeIOAddToDeferredPQ, TypeIOTouchPush,
      TypeIOTouchAddToPQ, TypeIOSettle, TypeScanShift, TypeScanReadOwner,
      TypeScanPop, TypeScanTimedOut, TypeScanPut, TypeScanShiftDeferred,
      TypeScanPopDeferred, TypeAddClientCheck, TypeAddClientInsert, TypeSUB,
      TypeDisconnect, TypeRemoveClient, TypeEmpty, TypeEmptyDeferred,
      TypeEmptyClients, TypeEmptyDrain, TypeEmptyBackend, TypeClose,
      TypeCloseClients, TypeFlushMem, TypeFlushInFlight, TypeFlushDeferred,
      TypeDelete, TypeDeleteEmpties
  DEF Next, TopicNext, PumpNext, IONext, IOStep, SubNext, ScanNext, ScanStep,
      AdminNext
<1> QED
  BY <1>1, <1>2

\* Every variable keeps its type, an object in a map is filed under its own
\* id, and a goroutine has an object in its hand exactly while its program
\* counter says so.
THEOREM TypeCorrect == Spec => []TypeOK
BY TypeInit, TypeStep, PTL DEF Spec

(***************************************************************************)
(* A channel neither duplicates nor loses a message.  AtMostOneHolder,     *)
(* LiveMessageHeld and FinishedNeverReturns are three readings of one      *)
(* invariant, CustodyInv, which is inductive together with TypeOK and      *)
(* PumpOffUntilSub.  An action either moves no message (lemma Neutral), or *)
(* moves one message from one place to another and leaves the others where *)
(* they are (Same), or discards what is in one place.                      *)
(***************************************************************************)

\* m is held once, in one place, exactly while it is live.
Custody(m) ==
    HeldOnce(m) /\ HeldInOnePlace(m) /\ (fate[m] = "live" <=> Held(m))

CustodyInv == ~exitFlag => \A m \in Msgs : Custody(m)

\* SUB hands the channel to a pump that holds nothing yet: without this, its
\* step could drop a message from the pump's hand.
PumpOffUntilSub ==
    \A c \in Clients :
        sub[c] \in {"new", "adding", "added"} => pumpPC[c] = "off"

(***************************************************************************)
(* What a step that leaves a variable alone leaves alone.                  *)
(***************************************************************************)

\* The memory channel.
LEMMA MemFrame ==
    ASSUME UNCHANGED memoryMsgChan
    PROVE  \A n \in Msgs : /\ InMem(n)' <=> InMem(n)
                           /\ MemOnce(n)' <=> MemOnce(n)
BY DEF InMem, MemOnce

\* The backend.
LEMMA DiskFrame ==
    ASSUME UNCHANGED backend
    PROVE  \A n \in Msgs : /\ OnDisk(n)' <=> OnDisk(n)
                           /\ DiskOnce(n)' <=> DiskOnce(n)
BY DEF OnDisk, DiskOnce

\* The in-flight map.
LEMMA FlightFrame ==
    ASSUME UNCHANGED inFlightMessages
    PROVE  \A n \in Msgs : InFlight(n)' <=> InFlight(n)
BY DEF InFlight

\* The deferred map.
LEMMA DeferredFrame ==
    ASSUME UNCHANGED deferredMessages
    PROVE  \A n \in Msgs : InDeferred(n)' <=> InDeferred(n)
BY DEF InDeferred

\* The hands of the pumps.
LEMMA PumpFrame ==
    ASSUME \A c \in Clients : \A n \in Msgs :
                PumpHolds(c, n)' <=> PumpHolds(c, n)
    PROVE  \A n \in Msgs : /\ InPump(n)' <=> InPump(n)
                           /\ PumpOnce(n)' <=> PumpOnce(n)
BY DEF InPump, PumpOnce

\* The hands of the IOLoops.
LEMMA IOFrame ==
    ASSUME \A c \in Clients : \A n \in Msgs : IOHolds(c, n)' <=> IOHolds(c, n)
    PROVE  \A n \in Msgs : /\ InIO(n)' <=> InIO(n)
                           /\ IOOnce(n)' <=> IOOnce(n)
BY DEF InIO, IOOnce

\* The hand of the scan worker.
LEMMA ScanFrame ==
    ASSUME UNCHANGED scanVars
    PROVE  \A n \in Msgs : InScan(n)' <=> InScan(n)
BY DEF InScan, scanVars

(***************************************************************************)
(* What the moves do to each place.                                        *)
(***************************************************************************)

\* Sending to memoryMsgChan adds the message at its end.
LEMMA MemAppend ==
    ASSUME memoryMsgChan \in Seq(Objs), NEW o \in Objs,
           memoryMsgChan' = Append(memoryMsgChan, o)
    PROVE  /\ \A n \in Msgs : InMem(n)' <=> InMem(n) \/ n = ID(o)
           /\ \A n \in Msgs : MemOnce(n) /\ ~InMem(ID(o)) => MemOnce(n)'
<1>1. /\ DOMAIN memoryMsgChan = 1..Len(memoryMsgChan)
      /\ Len(memoryMsgChan) \in Nat
      /\ DOMAIN memoryMsgChan' = 1..(Len(memoryMsgChan) + 1)
      /\ \A i \in 1..Len(memoryMsgChan) : memoryMsgChan'[i] = memoryMsgChan[i]
      /\ memoryMsgChan'[Len(memoryMsgChan) + 1] = o
  OBVIOUS
<1>2. ASSUME NEW n \in Msgs PROVE InMem(n)' <=> InMem(n) \/ n = ID(o)
  BY <1>1 DEF InMem
<1>3. ASSUME NEW n \in Msgs, MemOnce(n), ~InMem(ID(o)) PROVE MemOnce(n)'
  BY <1>1, <1>3 DEF InMem, MemOnce
<1> QED
  BY <1>2, <1>3

\* Receiving from memoryMsgChan takes the only copy of the head away.
LEMMA MemTail ==
    ASSUME memoryMsgChan \in Seq(Objs), memoryMsgChan # <<>>,
           memoryMsgChan' = Tail(memoryMsgChan),
           NEW m \in Msgs, m = ID(Head(memoryMsgChan))
    PROVE  /\ InMem(m)
           /\ \A n \in Msgs : n # m => (InMem(n)' <=> InMem(n))
           /\ MemOnce(m) => ~InMem(m)'
           /\ \A n \in Msgs : MemOnce(n) => MemOnce(n)'
<1> DEFINE L == Len(memoryMsgChan)
<1>1. /\ L \in Nat /\ L >= 1
      /\ DOMAIN memoryMsgChan = 1..L
      /\ DOMAIN memoryMsgChan' = 1..(L - 1)
      /\ \A i \in 1..(L - 1) : memoryMsgChan'[i] = memoryMsgChan[i + 1]
      /\ Head(memoryMsgChan) = memoryMsgChan[1]
  OBVIOUS
<1>2. InMem(m)
  BY <1>1 DEF InMem
<1>3. ASSUME NEW n \in Msgs, n # m PROVE InMem(n)' <=> InMem(n)
  <2>1. ASSUME NEW i \in 1..L, ID(memoryMsgChan[i]) = n
        PROVE  i - 1 \in 1..(L - 1) /\ ID(memoryMsgChan'[i - 1]) = n
    BY <1>1, <1>3, <2>1
  <2>2. ASSUME NEW i \in 1..(L - 1), ID(memoryMsgChan'[i]) = n
        PROVE  i + 1 \in 1..L /\ ID(memoryMsgChan[i + 1]) = n
    BY <1>1, <2>2
  <2> QED
    BY <1>1, <2>1, <2>2 DEF InMem
<1>4. ASSUME MemOnce(m), NEW i \in 1..(L - 1), ID(memoryMsgChan'[i]) = m
      PROVE  FALSE
  <2>1. i + 1 \in 1..L /\ ID(memoryMsgChan[i + 1]) = m /\ 1 \in 1..L
    BY <1>1, <1>4
  <2>2. i + 1 = 1
    BY <1>1, <1>4, <2>1 DEF MemOnce
  <2> QED
    BY <2>2
<1>5. ASSUME NEW n \in Msgs, MemOnce(n) PROVE MemOnce(n)'
  BY <1>1, <1>5 DEF MemOnce
<1>6. MemOnce(m) => ~InMem(m)'
  BY <1>1, <1>4 DEF InMem
<1> QED
  BY <1>2, <1>3, <1>5, <1>6

\* A pump that received an object has its message in hand ...
LEMMA PumpTake ==
    ASSUME PumpOK, NEW c \in Clients, NEW o \in Objs, pumpPC[c] = "idle",
           PumpGoto(c, "received", o)
    PROVE  /\ \A n \in Msgs : InPump(n)' <=> InPump(n) \/ n = ID(o)
           /\ \A n \in Msgs : PumpOnce(n) /\ ~InPump(ID(o)) => PumpOnce(n)'
<1>1. \A n \in Msgs : ~PumpHolds(c, n) /\ (PumpHolds(c, n)' <=> n = ID(o))
  BY DEF PumpOK, PumpGoto, PumpHolds
<1>2. \A d \in Clients \ {c} : \A n \in Msgs :
            PumpHolds(d, n)' <=> PumpHolds(d, n)
  BY DEF PumpOK, PumpGoto, PumpHolds
<1> QED
  BY <1>1, <1>2, IDType DEF InPump, PumpOnce

\* ... and lets go of it at the next step.
LEMMA PumpRelease ==
    ASSUME PumpOK, NEW c \in Clients, NEW pc, NEW o, NEW m \in Msgs,
           m = ID(pumpObj[c]), pc # "received",
           pumpPC[c] = "received", PumpGoto(c, pc, o)
    PROVE  /\ InPump(m)
           /\ \A n \in Msgs : n # m => (InPump(n)' <=> InPump(n))
           /\ PumpOnce(m) => ~InPump(m)'
           /\ \A n \in Msgs : PumpOnce(n) => PumpOnce(n)'
<1>1. \A n \in Msgs : /\ PumpHolds(c, n) <=> n = m
                      /\ ~PumpHolds(c, n)'
  BY DEF PumpOK, PumpGoto, PumpHolds
<1>2. \A d \in Clients \ {c} : \A n \in Msgs :
            PumpHolds(d, n)' <=> PumpHolds(d, n)
  BY DEF PumpOK, PumpGoto, PumpHolds
<1> QED
  BY <1>1, <1>2 DEF InPump, PumpOnce

\* A command other than FIN takes the message it popped in hand ...
LEMMA IOTake ==
    ASSUME IoOK, NEW c \in Clients, NEW o \in Objs, NEW op \in Commands,
           ioPC[c] = "idle", IOBecomes(c, "popped", op, o)
    PROVE  /\ \A n \in Msgs : InIO(n)' <=> InIO(n) \/ (n = ID(o) /\ op # "FIN")
           /\ \A n \in Msgs : IOOnce(n) /\ ~InIO(ID(o)) => IOOnce(n)'
<1>1. \A n \in Msgs : /\ ~IOHolds(c, n)
                      /\ IOHolds(c, n)' <=> (n = ID(o) /\ op # "FIN")
  BY DEF IoOK, IOBecomes, IOHolds
<1>2. \A d \in Clients \ {c} : \A n \in Msgs : IOHolds(d, n)' <=> IOHolds(d, n)
  BY DEF IoOK, IOBecomes, IOHolds
<1> QED
  BY <1>1, <1>2, IDType DEF InIO, IOOnce

\* ... and lets go of it when it puts, defers or pushes it again.
LEMMA IORelease ==
    ASSUME IoOK, NEW c \in Clients, NEW pc, NEW op, NEW o, NEW m \in Msgs,
           m = ID(ioObj[c]),
           pc \notin {"popped", "removed"},
           ioPC[c] = "removed", ioOp[c] # "FIN", IOBecomes(c, pc, op, o)
    PROVE  /\ InIO(m)
           /\ \A n \in Msgs : n # m => (InIO(n)' <=> InIO(n))
           /\ IOOnce(m) => ~InIO(m)'
           /\ \A n \in Msgs : IOOnce(n) => IOOnce(n)'
<1>1. \A n \in Msgs : (IOHolds(c, n) <=> n = m) /\ ~IOHolds(c, n)'
  BY DEF IoOK, IOBecomes, IOHolds
<1>2. \A d \in Clients \ {c} : \A n \in Msgs : IOHolds(d, n)' <=> IOHolds(d, n)
  BY DEF IoOK, IOBecomes, IOHolds
<1> QED
  BY <1>1, <1>2 DEF InIO, IOOnce

\* A message that is put is live.
LEMMA StoredFate ==
    ASSUME fate \in [Msgs -> {"new", "live", "done"}], NEW m \in Msgs,
           fate[m] # "done"
    PROVE  /\ Stored(m)[m] = "live"
           /\ \A n \in Msgs : n # m => Stored(m)[n] = fate[n]
BY DEF Stored

\* put adds a message that is in neither queue to exactly one of them, or
\* drops it when the channel is ephemeral and full.
LEMMA PutEffect ==
    ASSUME QueueOK, fate \in [Msgs -> {"new", "live", "done"}],
           NEW o \in Objs, put(o), ~InMem(ID(o)), ~OnDisk(ID(o)),
           fate[ID(o)] # "done"
    PROVE  /\ \A n \in Msgs : n # ID(o) =>
                /\ InMem(n)' <=> InMem(n)
                /\ OnDisk(n)' <=> OnDisk(n)
                /\ fate'[n] = fate[n]
           /\ \A n \in Msgs : (MemOnce(n) => MemOnce(n)')
                                /\ (DiskOnce(n) => DiskOnce(n)')
           /\ ~(InMem(ID(o))' /\ OnDisk(ID(o))')
           /\ fate'[ID(o)] = "live" <=> InMem(ID(o))' \/ OnDisk(ID(o))'
<1>1. ID(o) \in Msgs
  BY IDType
<1>2. CASE Len(memoryMsgChan) < MemQueueSize
  <2>1. /\ memoryMsgChan' = Append(memoryMsgChan, o)
        /\ fate' = Stored(ID(o)) /\ UNCHANGED backend
    BY <1>2 DEF put
  <2>2. memoryMsgChan \in Seq(Objs)
    BY DEF QueueOK
  <2> QED
    BY <1>1, <2>1, <2>2, MemAppend, DiskFrame, StoredFate
<1>3. CASE ~(Len(memoryMsgChan) < MemQueueSize) /\ Ephemeral
  <2>1. /\ UNCHANGED <<memoryMsgChan, backend>>
        /\ fate' = [fate EXCEPT ![ID(o)] = "done"]
    BY <1>3 DEF put
  <2>2. fate'[ID(o)] = "done" /\ \A n \in Msgs : n # ID(o) => fate'[n] = fate[n]
    BY <1>1, <2>1
  <2> QED
    BY <1>1, <2>1, <2>2, MemFrame, DiskFrame
<1>4. CASE ~(Len(memoryMsgChan) < MemQueueSize) /\ ~Ephemeral
  <2>1. /\ backend' = [backend EXCEPT ![ID(o)] = @ + 1]
        /\ fate' = Stored(ID(o)) /\ UNCHANGED memoryMsgChan
    BY <1>4 DEF put
  <2>2. backend \in [Msgs -> Nat]
    BY DEF QueueOK
  <2>3. OnDisk(ID(o))'
    BY <1>1, <2>1, <2>2 DEF OnDisk
  <2>4. \A n \in Msgs : n # ID(o) => backend'[n] = backend[n]
    BY <1>1, <2>1, <2>2
  <2>5. DiskOnce(ID(o))'
    BY <1>1, <2>1, <2>2 DEF OnDisk, DiskOnce
  <2>6. \A n \in Msgs : n # ID(o) => /\ OnDisk(n)' <=> OnDisk(n)
                                     /\ DiskOnce(n)' <=> DiskOnce(n)
    BY <2>4 DEF OnDisk, DiskOnce
  <2> QED
    BY <1>1, <2>1, <2>3, <2>5, <2>6, MemFrame, StoredFate
<1> QED
  BY <1>2, <1>3, <1>4
\* A step leaves n where it is.
Same(n) ==
    /\ InMem(n)' <=> InMem(n)
    /\ OnDisk(n)' <=> OnDisk(n)
    /\ InFlight(n)' <=> InFlight(n)
    /\ InDeferred(n)' <=> InDeferred(n)
    /\ InPump(n)' <=> InPump(n)
    /\ InIO(n)' <=> InIO(n)
    /\ InScan(n)' <=> InScan(n)
    /\ fate'[n] = fate[n]

StillOnce(n) == HeldOnce(n) => HeldOnce(n)'

\* A message that stays where it is stays in custody.
LEMMA SameCustody ==
    ASSUME NEW n \in Msgs, Custody(n), Same(n), StillOnce(n)
    PROVE  Custody(n)'
<1>1. /\ HeldOnce(n)'
      /\ Held(n)' <=> Held(n)
  BY DEF Custody, Same, StillOnce, Held
<1>2. HeldInOnePlace(n)'
  BY DEF Custody, Same, HeldInOnePlace
<1> QED
  BY <1>1, <1>2 DEF Custody, Same

\* Pumps that do nothing hold what they held.
LEMMA PumpUnchanged ==
    ASSUME UNCHANGED pumpVars
    PROVE  \A c \in Clients : \A n \in Msgs : PumpHolds(c, n)' <=> PumpHolds(c, n)
BY DEF PumpHolds, pumpVars

\* IOLoops that do nothing hold what they held.
LEMMA IOUnchanged ==
    ASSUME UNCHANGED ioVars
    PROVE  \A c \in Clients : \A n \in Msgs : IOHolds(c, n)' <=> IOHolds(c, n)
BY DEF IOHolds, ioVars

\* A step that moves no message keeps all of them in custody.
LEMMA Neutral ==
    ASSUME CustodyInv, UNCHANGED exitFlag,
           UNCHANGED <<memoryMsgChan, backend, inFlightMessages,
                       deferredMessages, fate>>,
           \A c \in Clients : \A n \in Msgs : PumpHolds(c, n)' <=> PumpHolds(c, n),
           \A c \in Clients : \A n \in Msgs : IOHolds(c, n)' <=> IOHolds(c, n),
           \A n \in Msgs : InScan(n)' <=> InScan(n)
    PROVE  CustodyInv'
<1>3. \A n \in Msgs : /\ InFlight(n)' <=> InFlight(n)
                      /\ InDeferred(n)' <=> InDeferred(n)
  BY FlightFrame, DeferredFrame
<1>4. \A n \in Msgs : Same(n) /\ StillOnce(n)
  BY MemFrame, DiskFrame, <1>3, PumpFrame, IOFrame DEF Same, StillOnce, HeldOnce
<1> QED
  BY <1>4, SameCustody DEF CustodyInv
(***************************************************************************)
(* The actions, one lemma for each.  First those that move no message.     *)
(***************************************************************************)

\* TopicAddToDeferredPQ moves no message.
LEMMA CustodyTopicAddToDeferredPQ ==
    ASSUME TypeOK, CustodyInv, TopicAddToDeferredPQ
    PROVE  CustodyInv'
<1>1. UNCHANGED <<exitFlag, memoryMsgChan, backend, inFlightMessages,
                  deferredMessages, fate, pumpVars, ioVars, scanVars>>
  BY DEF TopicAddToDeferredPQ, qVars, flightVars, deferVars, exitVars,
      procVars
<1> QED
  BY <1>1, PumpUnchanged, IOUnchanged, ScanFrame, Neutral

\* EmptyClients moves no message.
LEMMA CustodyEmptyClients ==
    ASSUME TypeOK, CustodyInv, EmptyClients
    PROVE  CustodyInv'
<1>1. UNCHANGED <<exitFlag, memoryMsgChan, backend, inFlightMessages,
                  deferredMessages, fate, pumpVars, ioVars, scanVars>>
  BY DEF EmptyClients, qVars, flightVars, deferVars, exitVars, procVars
<1> QED
  BY <1>1, PumpUnchanged, IOUnchanged, ScanFrame, Neutral

\* AddClientCheck moves no message.
LEMMA CustodyAddClientCheck ==
    ASSUME TypeOK, CustodyInv, NEW c \in Clients, AddClientCheck(c)
    PROVE  CustodyInv'
<1>1. UNCHANGED <<exitFlag, memoryMsgChan, backend, inFlightMessages,
                  deferredMessages, fate, pumpVars, ioVars, scanVars>>
  BY DEF AddClientCheck, qVars, flightVars, deferVars, exitVars, procVars
<1> QED
  BY <1>1, PumpUnchanged, IOUnchanged, ScanFrame, Neutral

\* AddClientInsert moves no message.
LEMMA CustodyAddClientInsert ==
    ASSUME TypeOK, CustodyInv, NEW c \in Clients, AddClientInsert(c)
    PROVE  CustodyInv'
<1>1. UNCHANGED <<exitFlag, memoryMsgChan, backend, inFlightMessages,
                  deferredMessages, fate, pumpVars, ioVars, scanVars>>
  BY DEF AddClientInsert, qVars, flightVars, deferVars, exitVars, procVars
<1> QED
  BY <1>1, PumpUnchanged, IOUnchanged, ScanFrame, Neutral

\* Disconnect moves no message.
LEMMA CustodyDisconnect ==
    ASSUME TypeOK, CustodyInv, NEW c \in Clients, Disconnect(c)
    PROVE  CustodyInv'
<1>1. UNCHANGED <<exitFlag, memoryMsgChan, backend, inFlightMessages,
                  deferredMessages, fate, pumpVars, ioVars, scanVars>>
  BY DEF Disconnect, qVars, flightVars, deferVars, exitVars, procVars
<1> QED
  BY <1>1, PumpUnchanged, IOUnchanged, ScanFrame, Neutral

\* RemoveClient moves no message.
LEMMA CustodyRemoveClient ==
    ASSUME TypeOK, CustodyInv, NEW c \in Clients, RemoveClient(c)
    PROVE  CustodyInv'
<1>1. UNCHANGED <<exitFlag, memoryMsgChan, backend, inFlightMessages,
                  deferredMessages, fate, pumpVars, ioVars, scanVars>>
  BY DEF RemoveClient, qVars, flightVars, deferVars, exitVars, procVars
<1> QED
  BY <1>1, PumpUnchanged, IOUnchanged, ScanFrame, Neutral

\* PumpAddToPQ moves no message.
LEMMA CustodyPumpAddToPQ ==
    ASSUME TypeOK, CustodyInv, NEW c \in Clients, PumpAddToPQ(c)
    PROVE  CustodyInv'
<1>1. UNCHANGED <<exitFlag, memoryMsgChan, backend, inFlightMessages,
                  deferredMessages, fate, ioVars, scanVars>>
  BY DEF PumpAddToPQ, PumpGoto, qVars, flightVars, deferVars, exitVars,
      procVars
<1>2. \A d \in Clients : \A n \in Msgs :
            PumpHolds(d, n)' <=> PumpHolds(d, n)
  BY DEF PumpAddToPQ, PumpGoto, TypeOK, PumpOK, PumpHolds
<1> QED
  BY <1>1, <1>2, IOUnchanged, ScanFrame, Neutral

\* PumpSend moves no message.
LEMMA CustodyPumpSend ==
    ASSUME TypeOK, CustodyInv, NEW c \in Clients, PumpSend(c)
    PROVE  CustodyInv'
<1>1. UNCHANGED <<exitFlag, memoryMsgChan, backend, inFlightMessages,
                  deferredMessages, fate, ioVars, scanVars>>
  BY DEF PumpSend, PumpGoto, qVars, flightVars, deferVars, exitVars, procVars
<1>2. \A d \in Clients : \A n \in Msgs :
            PumpHolds(d, n)' <=> PumpHolds(d, n)
  BY DEF PumpSend, PumpGoto, TypeOK, PumpOK, PumpHolds
<1> QED
  BY <1>1, <1>2, IOUnchanged, ScanFrame, Neutral

\* PumpExit moves no message.
LEMMA CustodyPumpExit ==
    ASSUME TypeOK, CustodyInv, NEW c \in Clients, PumpExit(c)
    PROVE  CustodyInv'
<1>1. UNCHANGED <<exitFlag, memoryMsgChan, backend, inFlightMessages,
                  deferredMessages, fate, ioVars, scanVars>>
  BY DEF PumpExit, PumpGoto, qVars, flightVars, deferVars, exitVars, procVars
<1>2. \A d \in Clients : \A n \in Msgs :
            PumpHolds(d, n)' <=> PumpHolds(d, n)
  BY DEF PumpExit, PumpGoto, TypeOK, PumpOK, PumpHolds
<1> QED
  BY <1>1, <1>2, IOUnchanged, ScanFrame, Neutral

\* IORemovePQ moves no message.
LEMMA CustodyIORemovePQ ==
    ASSUME TypeOK, CustodyInv, NEW c \in Clients, IORemovePQ(c)
    PROVE  CustodyInv'
<1>1. UNCHANGED <<exitFlag, memoryMsgChan, backend, inFlightMessages,
                  deferredMessages, fate, pumpVars, scanVars>>
  BY DEF IORemovePQ, IOGoto, IOSettling, IOBecomes, qVars, flightVars,
      deferVars, exitVars, procVars
<1>2. \A d \in Clients : \A n \in Msgs :
            IOHolds(d, n)' <=> IOHolds(d, n)
  BY DEF IORemovePQ, IOGoto, IOSettling, IOBecomes, TypeOK, IoOK, IOHolds
<1> QED
  BY <1>1, PumpUnchanged, <1>2, ScanFrame, Neutral

\* IOAddToDeferredPQ moves no message.
LEMMA CustodyIOAddToDeferredPQ ==
    ASSUME TypeOK, CustodyInv, NEW c \in Clients, IOAddToDeferredPQ(c)
    PROVE  CustodyInv'
<1>1. UNCHANGED <<exitFlag, memoryMsgChan, backend, inFlightMessages,
                  deferredMessages, fate, pumpVars, scanVars>>
  BY DEF IOAddToDeferredPQ, IOSettling, IOBecomes, qVars, flightVars,
      deferVars, exitVars, procVars
<1>2. \A d \in Clients : \A n \in Msgs :
            IOHolds(d, n)' <=> IOHolds(d, n)
  BY DEF IOAddToDeferredPQ, IOSettling, IOBecomes, TypeOK, IoOK, IOHolds
<1> QED
  BY <1>1, PumpUnchanged, <1>2, ScanFrame, Neutral

\* IOTouchAddToPQ moves no message.
LEMMA CustodyIOTouchAddToPQ ==
    ASSUME TypeOK, CustodyInv, NEW c \in Clients, IOTouchAddToPQ(c)
    PROVE  CustodyInv'
<1>1. UNCHANGED <<exitFlag, memoryMsgChan, backend, inFlightMessages,
                  deferredMessages, fate, pumpVars, scanVars>>
  BY DEF IOTouchAddToPQ, IODone, IOBecomes, qVars, flightVars, deferVars,
      exitVars, procVars
<1>2. \A d \in Clients : \A n \in Msgs :
            IOHolds(d, n)' <=> IOHolds(d, n)
  BY DEF IOTouchAddToPQ, IODone, IOBecomes, TypeOK, IoOK, IOHolds
<1> QED
  BY <1>1, PumpUnchanged, <1>2, ScanFrame, Neutral

\* IOSettle moves no message.
LEMMA CustodyIOSettle ==
    ASSUME TypeOK, CustodyInv, NEW c \in Clients, IOSettle(c)
    PROVE  CustodyInv'
<1>1. UNCHANGED <<exitFlag, memoryMsgChan, backend, inFlightMessages,
                  deferredMessages, fate, pumpVars, scanVars>>
  BY DEF IOSettle, IODone, IOBecomes, qVars, flightVars, deferVars, exitVars,
      procVars
<1>2. \A d \in Clients : \A n \in Msgs :
            IOHolds(d, n)' <=> IOHolds(d, n)
  BY DEF IOSettle, IODone, IOBecomes, TypeOK, IoOK, IOHolds
<1> QED
  BY <1>1, PumpUnchanged, <1>2, ScanFrame, Neutral

\* ScanShift moves no message.
LEMMA CustodyScanShift ==
    ASSUME TypeOK, CustodyInv, NEW o \in Objs, ScanShift(o)
    PROVE  CustodyInv'
<1>1. UNCHANGED <<exitFlag, memoryMsgChan, backend, inFlightMessages,
                  deferredMessages, fate, pumpVars, ioVars>>
  BY DEF ScanShift, ScanMayStart, ScanGoto, qVars, flightVars, deferVars,
      exitVars, procVars
<1>2. \A n \in Msgs : InScan(n)' <=> InScan(n)
  BY DEF ScanShift, ScanMayStart, ScanGoto, TypeOK, ScanOK, InScan
<1> QED
  BY <1>1, PumpUnchanged, IOUnchanged, <1>2, Neutral

\* ScanShiftDeferred moves no message.
LEMMA CustodyScanShiftDeferred ==
    ASSUME TypeOK, CustodyInv, NEW o \in Objs, ScanShiftDeferred(o)
    PROVE  CustodyInv'
<1>1. UNCHANGED <<exitFlag, memoryMsgChan, backend, inFlightMessages,
                  deferredMessages, fate, pumpVars, ioVars>>
  BY DEF ScanShiftDeferred, ScanMayStart, ScanGoto, qVars, flightVars,
      deferVars, exitVars, procVars
<1>2. \A n \in Msgs : InScan(n)' <=> InScan(n)
  BY DEF ScanShiftDeferred, ScanMayStart, ScanGoto, TypeOK, ScanOK, InScan
<1> QED
  BY <1>1, PumpUnchanged, IOUnchanged, <1>2, Neutral

\* ScanReadOwner moves no message.
LEMMA CustodyScanReadOwner ==
    ASSUME TypeOK, CustodyInv, ScanReadOwner
    PROVE  CustodyInv'
<1>1. UNCHANGED <<exitFlag, memoryMsgChan, backend, inFlightMessages,
                  deferredMessages, fate, pumpVars, ioVars>>
  BY DEF ScanReadOwner, ScanGoto, qVars, flightVars, deferVars, exitVars,
      procVars
<1>2. \A n \in Msgs : InScan(n)' <=> InScan(n)
  BY DEF ScanReadOwner, ScanGoto, TypeOK, ScanOK, InScan
<1> QED
  BY <1>1, PumpUnchanged, IOUnchanged, <1>2, Neutral

\* ScanTimedOut moves no message.
LEMMA CustodyScanTimedOut ==
    ASSUME TypeOK, CustodyInv, ScanTimedOut
    PROVE  CustodyInv'
<1>1. UNCHANGED <<exitFlag, memoryMsgChan, backend, inFlightMessages,
                  deferredMessages, fate, pumpVars, ioVars>>
  BY DEF ScanTimedOut, ScanGoto, qVars, flightVars, deferVars, exitVars,
      procVars
<1>2. \A n \in Msgs : InScan(n)' <=> InScan(n)
  BY DEF ScanTimedOut, ScanGoto, TypeOK, ScanOK, InScan
<1> QED
  BY <1>1, PumpUnchanged, IOUnchanged, <1>2, Neutral

(***************************************************************************)
(* The actions that move one message.                                      *)
(***************************************************************************)

\* PumpPush: the pump's hand -> the in-flight map
LEMMA CustodyPumpPush ==
    ASSUME TypeOK, CustodyInv, NEW c \in Clients, PumpPush(c)
    PROVE  CustodyInv'
<1>1. UNCHANGED <<exitFlag, memoryMsgChan, backend, deferredMessages,
                  ioVars, scanVars, fate>>
  BY DEF PumpPush, qVars, flightVars, deferVars, exitVars, procVars
<1>2. SUFFICES ASSUME ~exitFlag PROVE \A n \in Msgs : Custody(n)'
  BY <1>1 DEF CustodyInv
<1>3. \A n \in Msgs : Custody(n)
  BY <1>2 DEF CustodyInv
<1>4. PICK m \in Msgs : /\ m = ID(pumpObj[c]) /\ pumpObj[c] \in Objs
                         /\ pumpPC[c] = "received"
  BY IDType DEF PumpPush, TypeOK, PumpOK
<1>5. /\ InPump(m)
      /\ \A n \in Msgs : n # m => (InPump(n)' <=> InPump(n))
      /\ PumpOnce(m) => ~InPump(m)'
      /\ \A n \in Msgs : PumpOnce(n) => PumpOnce(n)'
  <2>1. PICK pc : PumpGoto(c, pc, pumpObj[c]) /\ pc # "received"
    BY DEF PumpPush
  <2> QED
    BY <1>4, <2>1, PumpRelease DEF TypeOK
<1>6. ~InFlight(m)
  BY <1>3, <1>5 DEF Custody, HeldInOnePlace
<1>7. inFlightMessages' = [inFlightMessages EXCEPT ![m] = pumpObj[c]]
  BY <1>4, <1>6 DEF PumpPush, pushInFlightMessage, InFlight
<1>8. InFlight(m)' /\ \A n \in Msgs : n # m => (InFlight(n)' <=> InFlight(n))
  BY <1>4, <1>7, Constants DEF InFlight, TypeOK, FlightOK
<1>9. \A n \in Msgs :
        /\ (InMem(n)' <=> InMem(n)) /\ (MemOnce(n)' <=> MemOnce(n))
        /\ (OnDisk(n)' <=> OnDisk(n)) /\ (DiskOnce(n)' <=> DiskOnce(n))
        /\ (InDeferred(n)' <=> InDeferred(n)) /\ (InIO(n)' <=> InIO(n))
        /\ (IOOnce(n)' <=> IOOnce(n)) /\ (InScan(n)' <=> InScan(n))
  BY <1>1, MemFrame, DiskFrame, DeferredFrame, IOFrame, ScanFrame,
     IOUnchanged
<1>10. \A n \in Msgs : n # m => Same(n)
  BY <1>1, <1>5, <1>6, <1>7, <1>8, <1>9 DEF Same
<1>11. \A n \in Msgs : StillOnce(n)
  BY <1>1, <1>3, <1>5, <1>6, <1>7, <1>8, <1>9
  DEF StillOnce, HeldOnce, Custody
<1>12. Custody(m)'
  BY <1>1, <1>3, <1>4, <1>5, <1>6, <1>7, <1>8, <1>9
  DEF Custody, HeldOnce, HeldInOnePlace, Held
<1> QED
  BY <1>3, <1>10, <1>11, <1>12, SameCustody

\* IOTouchPush: the IOLoop's hand -> the in-flight map
LEMMA CustodyIOTouchPush ==
    ASSUME TypeOK, CustodyInv, NEW c \in Clients, IOTouchPush(c)
    PROVE  CustodyInv'
<1>1. UNCHANGED <<exitFlag, memoryMsgChan, backend, deferredMessages,
                  pumpVars, scanVars, fate>>
  BY DEF IOTouchPush, qVars, flightVars, deferVars, exitVars, procVars
<1>2. SUFFICES ASSUME ~exitFlag PROVE \A n \in Msgs : Custody(n)'
  BY <1>1 DEF CustodyInv
<1>3. \A n \in Msgs : Custody(n)
  BY <1>2 DEF CustodyInv
<1>4. PICK m \in Msgs : /\ m = ID(ioObj[c]) /\ ioObj[c] \in Objs
                         /\ ioPC[c] = "removed" /\ ioOp[c] # "FIN"
  BY IDType DEF IOTouchPush, TypeOK, IoOK
<1>5. /\ InIO(m)
      /\ \A n \in Msgs : n # m => (InIO(n)' <=> InIO(n))
      /\ IOOnce(m) => ~InIO(m)'
      /\ \A n \in Msgs : IOOnce(n) => IOOnce(n)'
  <2>1. PICK pc, op, o : /\ IOBecomes(c, pc, op, o)
                         /\ pc \notin {"popped", "removed"}
    BY DEF IOTouchPush, IOGoto, IODone
  <2> QED
    BY <1>4, <2>1, IORelease DEF TypeOK
<1>6. ~InFlight(m)
  BY <1>3, <1>5 DEF Custody, HeldInOnePlace
<1>7. inFlightMessages' = [inFlightMessages EXCEPT ![m] = ioObj[c]]
  BY <1>4, <1>6 DEF IOTouchPush, pushInFlightMessage, InFlight
<1>8. InFlight(m)' /\ \A n \in Msgs : n # m => (InFlight(n)' <=> InFlight(n))
  BY <1>4, <1>7, Constants DEF InFlight, TypeOK, FlightOK
<1>9. \A n \in Msgs :
        /\ (InMem(n)' <=> InMem(n)) /\ (MemOnce(n)' <=> MemOnce(n))
        /\ (OnDisk(n)' <=> OnDisk(n)) /\ (DiskOnce(n)' <=> DiskOnce(n))
        /\ (InDeferred(n)' <=> InDeferred(n)) /\ (InPump(n)' <=> InPump(n))
        /\ (PumpOnce(n)' <=> PumpOnce(n)) /\ (InScan(n)' <=> InScan(n))
  BY <1>1, MemFrame, DiskFrame, DeferredFrame, PumpFrame, ScanFrame,
     PumpUnchanged
<1>10. \A n \in Msgs : n # m => Same(n)
  BY <1>1, <1>5, <1>6, <1>7, <1>8, <1>9 DEF Same
<1>11. \A n \in Msgs : StillOnce(n)
  BY <1>1, <1>3, <1>5, <1>6, <1>7, <1>8, <1>9
  DEF StillOnce, HeldOnce, Custody
<1>12. Custody(m)'
  BY <1>1, <1>3, <1>4, <1>5, <1>6, <1>7, <1>8, <1>9
  DEF Custody, HeldOnce, HeldInOnePlace, Held
<1> QED
  BY <1>3, <1>10, <1>11, <1>12, SameCustody

\* IODefer: the IOLoop's hand -> the deferred map
LEMMA CustodyIODefer ==
    ASSUME TypeOK, CustodyInv, NEW c \in Clients, IODefer(c)
    PROVE  CustodyInv'
<1>1. UNCHANGED <<exitFlag, memoryMsgChan, backend, inFlightMessages,
                  pumpVars, scanVars, fate>>
  BY DEF IODefer, qVars, flightVars, deferVars, exitVars, procVars
<1>2. SUFFICES ASSUME ~exitFlag PROVE \A n \in Msgs : Custody(n)'
  BY <1>1 DEF CustodyInv
<1>3. \A n \in Msgs : Custody(n)
  BY <1>2 DEF CustodyInv
<1>4. PICK m \in Msgs : /\ m = ID(ioObj[c]) /\ ioObj[c] \in Objs
                         /\ ioPC[c] = "removed" /\ ioOp[c] # "FIN"
  BY IDType DEF IODefer, TypeOK, IoOK
<1>5. /\ InIO(m)
      /\ \A n \in Msgs : n # m => (InIO(n)' <=> InIO(n))
      /\ IOOnce(m) => ~InIO(m)'
      /\ \A n \in Msgs : IOOnce(n) => IOOnce(n)'
  <2>1. PICK pc, op, o : /\ IOBecomes(c, pc, op, o)
                         /\ pc \notin {"popped", "removed"}
    BY DEF IODefer, IOGoto, IODone
  <2> QED
    BY <1>4, <2>1, IORelease DEF TypeOK
<1>6. ~InDeferred(m)
  BY <1>3, <1>5 DEF Custody, HeldInOnePlace
<1>7. deferredMessages' = [deferredMessages EXCEPT ![m] = ioObj[c]]
  BY <1>4, <1>6 DEF IODefer, pushDeferredMessage, InDeferred
<1>8. InDeferred(m)' /\ \A n \in Msgs : n # m => (InDeferred(n)' <=> InDeferred(n))
  BY <1>4, <1>7, Constants DEF InDeferred, TypeOK, DeferOK
<1>9. \A n \in Msgs :
        /\ (InMem(n)' <=> InMem(n)) /\ (MemOnce(n)' <=> MemOnce(n))
        /\ (OnDisk(n)' <=> OnDisk(n)) /\ (DiskOnce(n)' <=> DiskOnce(n))
        /\ (InFlight(n)' <=> InFlight(n)) /\ (InPump(n)' <=> InPump(n))
        /\ (PumpOnce(n)' <=> PumpOnce(n)) /\ (InScan(n)' <=> InScan(n))
  BY <1>1, MemFrame, DiskFrame, FlightFrame, PumpFrame, ScanFrame,
     PumpUnchanged
<1>10. \A n \in Msgs : n # m => Same(n)
  BY <1>1, <1>5, <1>6, <1>7, <1>8, <1>9 DEF Same
<1>11. \A n \in Msgs : StillOnce(n)
  BY <1>1, <1>3, <1>5, <1>6, <1>7, <1>8, <1>9
  DEF StillOnce, HeldOnce, Custody
<1>12. Custody(m)'
  BY <1>1, <1>3, <1>4, <1>5, <1>6, <1>7, <1>8, <1>9
  DEF Custody, HeldOnce, HeldInOnePlace, Held
<1> QED
  BY <1>3, <1>10, <1>11, <1>12, SameCustody

\* IORequeue: the IOLoop's hand -> a queue
LEMMA CustodyIORequeue ==
    ASSUME TypeOK, CustodyInv, NEW c \in Clients, IORequeue(c)
    PROVE  CustodyInv'
<1>1. UNCHANGED <<exitFlag, inFlightMessages, deferredMessages, pumpVars,
                  scanVars>>
  BY DEF IORequeue, qVars, flightVars, deferVars, exitVars, procVars
<1>2. SUFFICES ASSUME ~exitFlag PROVE \A n \in Msgs : Custody(n)'
  BY <1>1 DEF CustodyInv
<1>3. \A n \in Msgs : Custody(n)
  BY <1>2 DEF CustodyInv
<1>4. PICK m \in Msgs : /\ m = ID(ioObj[c]) /\ ioObj[c] \in Objs
                         /\ ioPC[c] = "removed" /\ ioOp[c] # "FIN"
  BY IDType DEF IORequeue, TypeOK, IoOK
<1>5. /\ InIO(m)
      /\ \A n \in Msgs : n # m => (InIO(n)' <=> InIO(n))
      /\ IOOnce(m) => ~InIO(m)'
      /\ \A n \in Msgs : IOOnce(n) => IOOnce(n)'
  <2>1. PICK pc, op, o : /\ IOBecomes(c, pc, op, o)
                         /\ pc \notin {"popped", "removed"}
    BY DEF IORequeue, IODone, IOSettling
  <2> QED
    BY <1>4, <2>1, IORelease DEF TypeOK
<1>6. ~InMem(m) /\ ~OnDisk(m) /\ fate[m] # "done"
  BY <1>3, <1>5 DEF Custody, HeldInOnePlace, Held
<1>7. PICK o \in Objs : o = ioObj[c] /\ ID(o) = m /\ put(o)
  BY <1>2, <1>4 DEF IORequeue
<1>8. /\ \A n \in Msgs : n # m => /\ InMem(n)' <=> InMem(n)
                                  /\ OnDisk(n)' <=> OnDisk(n)
                                  /\ fate'[n] = fate[n]
      /\ \A n \in Msgs : /\ MemOnce(n) => MemOnce(n)'
                         /\ DiskOnce(n) => DiskOnce(n)'
      /\ ~(InMem(m)' /\ OnDisk(m)')
      /\ fate'[m] = "live" <=> InMem(m)' \/ OnDisk(m)'
  BY <1>6, <1>7, PutEffect DEF TypeOK, HistoryOK
<1>9. \A n \in Msgs :
        /\ (InFlight(n)' <=> InFlight(n)) /\ (InDeferred(n)' <=> InDeferred(n))
        /\ (InPump(n)' <=> InPump(n)) /\ (PumpOnce(n)' <=> PumpOnce(n))
        /\ (InScan(n)' <=> InScan(n))
  BY <1>1, FlightFrame, DeferredFrame, PumpFrame, ScanFrame, PumpUnchanged
<1>10. \A n \in Msgs : n # m => Same(n)
  BY <1>1, <1>5, <1>6, <1>7, <1>8, <1>9 DEF Same
<1>11. \A n \in Msgs : StillOnce(n)
  BY <1>1, <1>3, <1>5, <1>6, <1>7, <1>8, <1>9
  DEF StillOnce, HeldOnce, Custody
<1>12. Custody(m)'
  BY <1>1, <1>3, <1>4, <1>5, <1>6, <1>7, <1>8, <1>9
  DEF Custody, HeldOnce, HeldInOnePlace, Held
<1> QED
  BY <1>3, <1>10, <1>11, <1>12, SameCustody

\* ScanPut: the scan worker's hand -> a queue
LEMMA CustodyScanPut ==
    ASSUME TypeOK, CustodyInv, ScanPut
    PROVE  CustodyInv'
<1>1. UNCHANGED <<exitFlag, inFlightMessages, deferredMessages, pumpVars,
                  ioVars>>
  BY DEF ScanPut, qVars, flightVars, deferVars, exitVars, procVars
<1>2. SUFFICES ASSUME ~exitFlag PROVE \A n \in Msgs : Custody(n)'
  BY <1>1 DEF CustodyInv
<1>3. \A n \in Msgs : Custody(n)
  BY <1>2 DEF CustodyInv
<1>4. PICK m \in Msgs : /\ m = ID(scanObj) /\ scanObj \in Objs
                         /\ scanPC \in {"putting", "dpopped"}
  BY IDType DEF ScanPut, TypeOK, ScanOK
<1>5. /\ InScan(m)
      /\ \A n \in Msgs : n # m => ~InScan(n)
      /\ \A n \in Msgs : ~InScan(n)'
  BY <1>4 DEF ScanPut, ScanGoto, InScan
<1>6. ~InMem(m) /\ ~OnDisk(m) /\ fate[m] # "done"
  BY <1>3, <1>5 DEF Custody, HeldInOnePlace, Held
<1>7. PICK o \in Objs : o = scanObj /\ ID(o) = m /\ put(o)
  BY <1>4 DEF ScanPut
<1>8. /\ \A n \in Msgs : n # m => /\ InMem(n)' <=> InMem(n)
                                  /\ OnDisk(n)' <=> OnDisk(n)
                                  /\ fate'[n] = fate[n]
      /\ \A n \in Msgs : /\ MemOnce(n) => MemOnce(n)'
                         /\ DiskOnce(n) => DiskOnce(n)'
      /\ ~(InMem(m)' /\ OnDisk(m)')
      /\ fate'[m] = "live" <=> InMem(m)' \/ OnDisk(m)'
  BY <1>6, <1>7, PutEffect DEF TypeOK, HistoryOK
<1>9. \A n \in Msgs :
        /\ (InFlight(n)' <=> InFlight(n)) /\ (InDeferred(n)' <=> InDeferred(n))
        /\ (InPump(n)' <=> InPump(n)) /\ (PumpOnce(n)' <=> PumpOnce(n))
        /\ (InIO(n)' <=> InIO(n)) /\ (IOOnce(n)' <=> IOOnce(n))
  BY <1>1, FlightFrame, DeferredFrame, PumpFrame, IOFrame, PumpUnchanged,
     IOUnchanged
<1>10. \A n \in Msgs : n # m => Same(n)
  BY <1>1, <1>5, <1>6, <1>7, <1>8, <1>9 DEF Same
<1>11. \A n \in Msgs : StillOnce(n)
  BY <1>1, <1>3, <1>5, <1>6, <1>7, <1>8, <1>9
  DEF StillOnce, HeldOnce, Custody
<1>12. Custody(m)'
  BY <1>1, <1>3, <1>4, <1>5, <1>6, <1>7, <1>8, <1>9
  DEF Custody, HeldOnce, HeldInOnePlace, Held
<1> QED
  BY <1>3, <1>10, <1>11, <1>12, SameCustody

\* PutMessage: the topic -> a queue
LEMMA CustodyPutMessage ==
    ASSUME TypeOK, CustodyInv, NEW m \in Msgs, PutMessage(m)
    PROVE  CustodyInv'
<1>1. UNCHANGED <<exitFlag, inFlightMessages, deferredMessages, pumpVars,
                  ioVars, scanVars>>
  BY DEF PutMessage, qVars, flightVars, deferVars, exitVars, procVars
<1>2. SUFFICES ASSUME ~exitFlag PROVE \A n \in Msgs : Custody(n)'
  BY <1>1 DEF CustodyInv
<1>3. \A n \in Msgs : Custody(n)
  BY <1>2 DEF CustodyInv
<1>4. fate[m] = "new"
  BY DEF PutMessage
<1>5. ~InMem(m) /\ ~OnDisk(m) /\ fate[m] # "done"
  BY <1>3, <1>4 DEF Custody, Held
<1>6. PICK o \in Objs : ID(o) = m /\ put(o)
  BY <1>2 DEF PutMessage, ObjsOf
<1>7. /\ \A n \in Msgs : n # m => /\ InMem(n)' <=> InMem(n)
                                  /\ OnDisk(n)' <=> OnDisk(n)
                                  /\ fate'[n] = fate[n]
      /\ \A n \in Msgs : /\ MemOnce(n) => MemOnce(n)'
                         /\ DiskOnce(n) => DiskOnce(n)'
      /\ ~(InMem(m)' /\ OnDisk(m)')
      /\ fate'[m] = "live" <=> InMem(m)' \/ OnDisk(m)'
  BY <1>5, <1>6, PutEffect DEF TypeOK, HistoryOK
<1>8. \A n \in Msgs :
        /\ (InFlight(n)' <=> InFlight(n)) /\ (InDeferred(n)' <=> InDeferred(n))
        /\ (InPump(n)' <=> InPump(n)) /\ (PumpOnce(n)' <=> PumpOnce(n))
        /\ (InIO(n)' <=> InIO(n)) /\ (IOOnce(n)' <=> IOOnce(n))
        /\ (InScan(n)' <=> InScan(n))
  BY <1>1, FlightFrame, DeferredFrame, PumpFrame, IOFrame, ScanFrame,
     PumpUnchanged, IOUnchanged
<1>9. \A n \in Msgs : n # m => Same(n)
  BY <1>1, <1>5, <1>6, <1>7, <1>8 DEF Same
<1>10. \A n \in Msgs : StillOnce(n)
  BY <1>1, <1>3, <1>5, <1>6, <1>7, <1>8
  DEF StillOnce, HeldOnce, Custody
<1>11. Custody(m)'
  BY <1>1, <1>3, <1>4, <1>5, <1>6, <1>7, <1>8
  DEF Custody, HeldOnce, HeldInOnePlace, Held
<1> QED
  BY <1>3, <1>9, <1>10, <1>11, SameCustody

\* PutMessageDeferred: the topic -> the deferred map
LEMMA CustodyPutMessageDeferred ==
    ASSUME TypeOK, CustodyInv, NEW m \in Msgs, PutMessageDeferred(m)
    PROVE  CustodyInv'
<1>1. UNCHANGED <<exitFlag, memoryMsgChan, backend, inFlightMessages,
                  pumpVars, ioVars, scanVars>>
  BY DEF PutMessageDeferred, qVars, flightVars, deferVars, exitVars, procVars
<1>2. SUFFICES ASSUME ~exitFlag PROVE \A n \in Msgs : Custody(n)'
  BY <1>1 DEF CustodyInv
<1>3. \A n \in Msgs : Custody(n)
  BY <1>2 DEF CustodyInv
<1>4. fate[m] = "new" /\ fate' = [fate EXCEPT ![m] = "live"]
  BY DEF PutMessageDeferred
<1>5. fate'[m] = "live" /\ \A n \in Msgs : n # m => fate'[n] = fate[n]
  BY <1>4 DEF TypeOK, HistoryOK
<1>6. PICK o \in Objs : deferredMessages' = [deferredMessages EXCEPT ![m] = o]
  BY DEF PutMessageDeferred, pushDeferredMessage, ObjsOf
<1>7. InDeferred(m)' /\ \A n \in Msgs : n # m => (InDeferred(n)' <=> InDeferred(n))
  BY <1>6, Constants DEF InDeferred, TypeOK, DeferOK
<1>8. \A n \in Msgs :
        /\ (InMem(n)' <=> InMem(n)) /\ (MemOnce(n)' <=> MemOnce(n))
        /\ (OnDisk(n)' <=> OnDisk(n)) /\ (DiskOnce(n)' <=> DiskOnce(n))
        /\ (InFlight(n)' <=> InFlight(n)) /\ (InPump(n)' <=> InPump(n))
        /\ (PumpOnce(n)' <=> PumpOnce(n)) /\ (InIO(n)' <=> InIO(n))
        /\ (IOOnce(n)' <=> IOOnce(n)) /\ (InScan(n)' <=> InScan(n))
  BY <1>1, MemFrame, DiskFrame, FlightFrame, PumpFrame, IOFrame,
     ScanFrame, PumpUnchanged, IOUnchanged
<1>9. \A n \in Msgs : n # m => Same(n)
  BY <1>1, <1>5, <1>6, <1>7, <1>8 DEF Same
<1>10. \A n \in Msgs : StillOnce(n)
  BY <1>1, <1>3, <1>5, <1>6, <1>7, <1>8
  DEF StillOnce, HeldOnce, Custody
<1>11. Custody(m)'
  BY <1>1, <1>3, <1>4, <1>5, <1>6, <1>7, <1>8
  DEF Custody, HeldOnce, HeldInOnePlace, Held
<1> QED
  BY <1>3, <1>9, <1>10, <1>11, SameCustody

\* PumpReceiveMem: memoryMsgChan -> the pump's hand, or dropped by the sample rate
LEMMA CustodyPumpReceiveMem ==
    ASSUME TypeOK, CustodyInv, NEW c \in Clients, PumpReceiveMem(c)
    PROVE  CustodyInv'
<1>1. UNCHANGED <<exitFlag, backend, inFlightMessages, deferredMessages,
                  ioVars, scanVars>>
  BY DEF PumpReceiveMem, qVars, flightVars, deferVars, exitVars, procVars
<1>2. SUFFICES ASSUME ~exitFlag PROVE \A n \in Msgs : Custody(n)'
  BY <1>1 DEF CustodyInv
<1>3. \A n \in Msgs : Custody(n)
  BY <1>2 DEF CustodyInv
<1>4. PICK m \in Msgs : m = ID(Head(memoryMsgChan))
  BY IDType DEF PumpReceiveMem, TypeOK, QueueOK
<1>5. /\ InMem(m)
      /\ \A n \in Msgs : n # m => (InMem(n)' <=> InMem(n))
      /\ MemOnce(m) => ~InMem(m)'
      /\ \A n \in Msgs : MemOnce(n) => MemOnce(n)'
  BY <1>4, MemTail DEF PumpReceiveMem, TypeOK, QueueOK
<1>6. ~InPump(m)
  BY <1>3, <1>5 DEF Custody, HeldInOnePlace
<1>7. /\ \A n \in Msgs : PumpOnce(n) => PumpOnce(n)'
      /\ \A n \in Msgs : n # m => /\ InPump(n)' <=> InPump(n)
                                  /\ fate'[n] = fate[n]
      /\ \/ InPump(m)' /\ fate'[m] = fate[m]
         \/ ~InPump(m)' /\ fate'[m] = "done"
  <2>1. CASE Sample(c, m)
    <3>1. fate'[m] = "done" /\ \A n \in Msgs : n # m => fate'[n] = fate[n]
      BY <2>1 DEF Sample, TypeOK, HistoryOK
    <3>2. UNCHANGED pumpVars
      BY <2>1 DEF Sample
    <3> QED
      BY <1>6, <3>1, <3>2, PumpFrame, PumpUnchanged
  <2>2. CASE PumpGoto(c, "received", Head(memoryMsgChan)) /\ UNCHANGED fate
    <3>1. PICK o \in Objs : o = Head(memoryMsgChan)
      BY DEF PumpReceiveMem, TypeOK, QueueOK
    <3>2. pumpPC[c] = "idle"
      BY DEF PumpReceiveMem
    <3> QED
      BY <1>4, <1>6, <2>2, <3>1, <3>2, PumpTake DEF TypeOK
  <2> QED
    BY <1>4, <2>1, <2>2 DEF PumpReceiveMem
<1>8. \A n \in Msgs :
        /\ (OnDisk(n)' <=> OnDisk(n)) /\ (DiskOnce(n)' <=> DiskOnce(n))
        /\ (InFlight(n)' <=> InFlight(n)) /\ (InDeferred(n)' <=> InDeferred(n))
        /\ (InIO(n)' <=> InIO(n)) /\ (IOOnce(n)' <=> IOOnce(n))
        /\ (InScan(n)' <=> InScan(n))
  BY <1>1, DiskFrame, FlightFrame, DeferredFrame, IOFrame, ScanFrame,
     IOUnchanged
<1>9. \A n \in Msgs : n # m => Same(n)
  BY <1>1, <1>5, <1>6, <1>7, <1>8 DEF Same
<1>10. \A n \in Msgs : StillOnce(n)
  BY <1>1, <1>3, <1>5, <1>6, <1>7, <1>8
  DEF StillOnce, HeldOnce, Custody
<1>11. Custody(m)'
  BY <1>1, <1>3, <1>4, <1>5, <1>6, <1>7, <1>8
  DEF Custody, HeldOnce, HeldInOnePlace, Held
<1> QED
  BY <1>3, <1>9, <1>10, <1>11, SameCustody

\* PumpReceiveBackend: the backend -> the pump's hand, or dropped by the sample rate
LEMMA CustodyPumpReceiveBackend ==
    ASSUME TypeOK, CustodyInv, NEW c \in Clients, NEW m \in Msgs, PumpReceiveBackend(c, m)
    PROVE  CustodyInv'
<1>1. UNCHANGED <<exitFlag, memoryMsgChan, inFlightMessages,
                  deferredMessages, ioVars, scanVars>>
  BY DEF PumpReceiveBackend, qVars, flightVars, deferVars, exitVars, procVars
<1>2. SUFFICES ASSUME ~exitFlag PROVE \A n \in Msgs : Custody(n)'
  BY <1>1 DEF CustodyInv
<1>3. \A n \in Msgs : Custody(n)
  BY <1>2 DEF CustodyInv
<1>4. /\ backend[m] > 0 /\ backend' = [backend EXCEPT ![m] = @ - 1]
      /\ backend \in [Msgs -> Nat] /\ pumpPC[c] = "idle"
  BY DEF PumpReceiveBackend, TypeOK, QueueOK
<1>5. /\ OnDisk(m)
      /\ \A n \in Msgs : n # m => /\ OnDisk(n)' <=> OnDisk(n)
                                  /\ DiskOnce(n)' <=> DiskOnce(n)
      /\ DiskOnce(m) => ~OnDisk(m)' /\ DiskOnce(m)'
  <2>1. \A n \in Msgs : n # m => backend'[n] = backend[n]
    BY <1>4
  <2>2. backend'[m] = backend[m] - 1 /\ backend[m] \in Nat
    BY <1>4
  <2> QED
    BY <1>4, <2>1, <2>2 DEF OnDisk, DiskOnce
<1>6. ~InPump(m)
  BY <1>3, <1>5 DEF Custody, HeldInOnePlace
<1>7. /\ \A n \in Msgs : PumpOnce(n) => PumpOnce(n)'
      /\ \A n \in Msgs : n # m => /\ InPump(n)' <=> InPump(n)
                                  /\ fate'[n] = fate[n]
      /\ \/ InPump(m)' /\ fate'[m] = fate[m]
         \/ ~InPump(m)' /\ fate'[m] = "done"
  <2>1. CASE Sample(c, m)
    <3>1. fate'[m] = "done" /\ \A n \in Msgs : n # m => fate'[n] = fate[n]
      BY <2>1 DEF Sample, TypeOK, HistoryOK
    <3>2. UNCHANGED pumpVars
      BY <2>1 DEF Sample
    <3> QED
      BY <1>6, <3>1, <3>2, PumpFrame, PumpUnchanged
  <2>2. CASE \E o \in ObjsOf(m) : PumpGoto(c, "received", o) /\ UNCHANGED fate
    <3>1. PICK o \in Objs : ID(o) = m /\ PumpGoto(c, "received", o)
      BY <2>2 DEF ObjsOf
    <3> QED
      BY <1>4, <1>6, <2>2, <3>1, PumpTake DEF TypeOK
  <2> QED
    BY <2>1, <2>2 DEF PumpReceiveBackend
<1>8. \A n \in Msgs :
        /\ (InMem(n)' <=> InMem(n)) /\ (MemOnce(n)' <=> MemOnce(n))
        /\ (InFlight(n)' <=> InFlight(n)) /\ (InDeferred(n)' <=> InDeferred(n))
        /\ (InIO(n)' <=> InIO(n)) /\ (IOOnce(n)' <=> IOOnce(n))
        /\ (InScan(n)' <=> InScan(n))
  BY <1>1, MemFrame, FlightFrame, DeferredFrame, IOFrame, ScanFrame,
     IOUnchanged
<1>9. \A n \in Msgs : n # m => Same(n)
  BY <1>1, <1>5, <1>6, <1>7, <1>8 DEF Same
<1>10. \A n \in Msgs : StillOnce(n)
  BY <1>1, <1>3, <1>5, <1>6, <1>7, <1>8
  DEF StillOnce, HeldOnce, Custody
<1>11. Custody(m)'
  BY <1>1, <1>3, <1>4, <1>5, <1>6, <1>7, <1>8
  DEF Custody, HeldOnce, HeldInOnePlace, Held
<1> QED
  BY <1>3, <1>9, <1>10, <1>11, SameCustody

\* IOPop: the in-flight map -> the IOLoop's hand, or finished
LEMMA CustodyIOPop ==
    ASSUME TypeOK, CustodyInv, NEW c \in Clients, NEW m \in Msgs, NEW op \in Ops, IOPop(c, m, op)
    PROVE  CustodyInv'
<1>1. UNCHANGED <<exitFlag, memoryMsgChan, backend, deferredMessages,
                  pumpVars, scanVars>>
  BY DEF IOPop, qVars, flightVars, deferVars, exitVars, procVars
<1>2. SUFFICES ASSUME ~exitFlag PROVE \A n \in Msgs : Custody(n)'
  BY <1>1 DEF CustodyInv
<1>3. \A n \in Msgs : Custody(n)
  BY <1>2 DEF CustodyInv
<1>4. PICK o \in Objs : /\ o = inFlightMessages[m] /\ ID(o) = m
                         /\ IOBecomes(c, "popped", op, o) /\ ioPC[c] = "idle"
  BY DEF IOPop, popInFlightMessage, InFlightOwner, TypeOK, FlightOK, ObjsOf
<1>5. /\ InFlight(m) /\ ~InFlight(m)'
      /\ \A n \in Msgs : n # m => (InFlight(n)' <=> InFlight(n))
  BY DEF popInFlightMessage, InFlightOwner, InFlight, TypeOK, FlightOK, IOPop
<1>6. ~InIO(m)
  BY <1>3, <1>5 DEF Custody, HeldInOnePlace
<1>7. /\ \A n \in Msgs : InIO(n)' <=> InIO(n) \/ (n = m /\ op # "FIN")
      /\ \A n \in Msgs : IOOnce(n) => IOOnce(n)'
  BY <1>4, <1>6, IOTake, Constants DEF TypeOK
<1>8. /\ fate'[m] = IF op = "FIN" THEN "done" ELSE fate[m]
      /\ \A n \in Msgs : n # m => fate'[n] = fate[n]
  BY DEF IOPop, TypeOK, HistoryOK
<1>9. \A n \in Msgs :
        /\ (InMem(n)' <=> InMem(n)) /\ (MemOnce(n)' <=> MemOnce(n))
        /\ (OnDisk(n)' <=> OnDisk(n)) /\ (DiskOnce(n)' <=> DiskOnce(n))
        /\ (InDeferred(n)' <=> InDeferred(n)) /\ (InPump(n)' <=> InPump(n))
        /\ (PumpOnce(n)' <=> PumpOnce(n)) /\ (InScan(n)' <=> InScan(n))
  BY <1>1, MemFrame, DiskFrame, DeferredFrame, PumpFrame, ScanFrame,
     PumpUnchanged
<1>10. \A n \in Msgs : n # m => Same(n)
  BY <1>1, <1>5, <1>6, <1>7, <1>8, <1>9 DEF Same
<1>11. \A n \in Msgs : StillOnce(n)
  BY <1>1, <1>3, <1>5, <1>6, <1>7, <1>8, <1>9
  DEF StillOnce, HeldOnce, Custody
<1>12. Custody(m)'
  BY <1>1, <1>3, <1>4, <1>5, <1>6, <1>7, <1>8, <1>9
  DEF Custody, HeldOnce, HeldInOnePlace, Held
<1> QED
  BY <1>3, <1>10, <1>11, <1>12, SameCustody

\* ScanPop: the in-flight map -> the scan worker's hand
LEMMA CustodyScanPop ==
    ASSUME TypeOK, CustodyInv, ScanPop
    PROVE  CustodyInv'
<1>1. UNCHANGED <<exitFlag, memoryMsgChan, backend, deferredMessages,
                  pumpVars, ioVars, fate>>
  BY DEF ScanPop, qVars, flightVars, deferVars, exitVars, procVars
<1>2. SUFFICES ASSUME ~exitFlag PROVE \A n \in Msgs : Custody(n)'
  BY <1>1 DEF CustodyInv
<1>3. \A n \in Msgs : Custody(n)
  BY <1>2 DEF CustodyInv
<1>4. PICK m \in Msgs : m = ID(scanObj) /\ scanObj \in Objs /\ scanPC = "owned"
  BY IDType DEF ScanPop, TypeOK, ScanOK
<1>5. \A n \in Msgs : ~InScan(n)
  BY <1>4 DEF InScan
<1>6. \/ /\ InFlight(m) /\ ~InFlight(m)'
         /\ \A n \in Msgs : n # m => (InFlight(n)' <=> InFlight(n))
         /\ \A n \in Msgs : InScan(n)' <=> n = m
      \/ /\ \A n \in Msgs : InFlight(n)' <=> InFlight(n)
         /\ \A n \in Msgs : ~InScan(n)'
  <2>1. CASE /\ popInFlightMessage(scanClient, m)
             /\ ScanGoto("timedout", scanObj, NoClient)
    <3>1. \A n \in Msgs : InScan(n)' <=> n = m
      BY <1>4, <2>1 DEF ScanGoto, InScan
    <3> QED
      BY <2>1, <3>1
      DEF popInFlightMessage, InFlightOwner, InFlight, TypeOK, FlightOK
  <2>2. CASE ScanGoto("idle", NoObj, NoClient) /\ UNCHANGED inFlightMessages
    BY <2>2 DEF ScanGoto, InScan, InFlight
  <2> QED
    BY <1>4, <2>1, <2>2 DEF ScanPop
<1>7. \A n \in Msgs :
        /\ (InMem(n)' <=> InMem(n)) /\ (MemOnce(n)' <=> MemOnce(n))
        /\ (OnDisk(n)' <=> OnDisk(n)) /\ (DiskOnce(n)' <=> DiskOnce(n))
        /\ (InDeferred(n)' <=> InDeferred(n)) /\ (InPump(n)' <=> InPump(n))
        /\ (PumpOnce(n)' <=> PumpOnce(n)) /\ (InIO(n)' <=> InIO(n))
        /\ (IOOnce(n)' <=> IOOnce(n))
  BY <1>1, MemFrame, DiskFrame, DeferredFrame, PumpFrame, IOFrame,
     PumpUnchanged, IOUnchanged
<1>8. \A n \in Msgs : n # m => Same(n)
  BY <1>1, <1>5, <1>6, <1>7 DEF Same
<1>9. \A n \in Msgs : StillOnce(n)
  BY <1>1, <1>3, <1>5, <1>6, <1>7
  DEF StillOnce, HeldOnce, Custody
<1>10. Custody(m)'
  BY <1>1, <1>3, <1>4, <1>5, <1>6, <1>7
  DEF Custody, HeldOnce, HeldInOnePlace, Held
<1> QED
  BY <1>3, <1>8, <1>9, <1>10, SameCustody

\* ScanPopDeferred: the deferred map -> the scan worker's hand
LEMMA CustodyScanPopDeferred ==
    ASSUME TypeOK, CustodyInv, ScanPopDeferred
    PROVE  CustodyInv'
<1>1. UNCHANGED <<exitFlag, memoryMsgChan, backend, inFlightMessages,
                  pumpVars, ioVars, fate>>
  BY DEF ScanPopDeferred, qVars, flightVars, deferVars, exitVars, procVars
<1>2. SUFFICES ASSUME ~exitFlag PROVE \A n \in Msgs : Custody(n)'
  BY <1>1 DEF CustodyInv
<1>3. \A n \in Msgs : Custody(n)
  BY <1>2 DEF CustodyInv
<1>4. PICK m \in Msgs : m = ID(scanObj) /\ scanObj \in Objs /\ scanPC = "dshifted"
  BY IDType DEF ScanPopDeferred, TypeOK, ScanOK
<1>5. \A n \in Msgs : ~InScan(n)
  BY <1>4 DEF InScan
<1>6. \/ /\ InDeferred(m) /\ ~InDeferred(m)'
         /\ \A n \in Msgs : n # m => (InDeferred(n)' <=> InDeferred(n))
         /\ \A n \in Msgs : InScan(n)' <=> n = m
      \/ /\ \A n \in Msgs : InDeferred(n)' <=> InDeferred(n)
         /\ \A n \in Msgs : ~InScan(n)'
  <2>1. CASE /\ deferredMessages[m] # NoObj
             /\ deferredMessages' = [deferredMessages EXCEPT ![m] = NoObj]
             /\ ScanGoto("dpopped", scanObj, NoClient)
    <3>1. \A n \in Msgs : InScan(n)' <=> n = m
      BY <1>4, <2>1 DEF ScanGoto, InScan
    <3> QED
      BY <2>1, <3>1 DEF InDeferred, TypeOK, DeferOK
  <2>2. CASE ScanGoto("idle", NoObj, NoClient) /\ UNCHANGED deferredMessages
    BY <2>2 DEF ScanGoto, InScan, InDeferred
  <2> QED
    BY <1>4, <2>1, <2>2 DEF ScanPopDeferred
<1>7. \A n \in Msgs :
        /\ (InMem(n)' <=> InMem(n)) /\ (MemOnce(n)' <=> MemOnce(n))
        /\ (OnDisk(n)' <=> OnDisk(n)) /\ (DiskOnce(n)' <=> DiskOnce(n))
        /\ (InFlight(n)' <=> InFlight(n)) /\ (InPump(n)' <=> InPump(n))
        /\ (PumpOnce(n)' <=> PumpOnce(n)) /\ (InIO(n)' <=> InIO(n))
        /\ (IOOnce(n)' <=> IOOnce(n))
  BY <1>1, MemFrame, DiskFrame, FlightFrame, PumpFrame, IOFrame,
     PumpUnchanged, IOUnchanged
<1>8. \A n \in Msgs : n # m => Same(n)
  BY <1>1, <1>5, <1>6, <1>7 DEF Same
<1>9. \A n \in Msgs : StillOnce(n)
  BY <1>1, <1>3, <1>5, <1>6, <1>7
  DEF StillOnce, HeldOnce, Custody
<1>10. Custody(m)'
  BY <1>1, <1>3, <1>4, <1>5, <1>6, <1>7
  DEF Custody, HeldOnce, HeldInOnePlace, Held
<1> QED
  BY <1>3, <1>8, <1>9, <1>10, SameCustody

\* EmptyDrain: memoryMsgChan -> discarded
LEMMA CustodyEmptyDrain ==
    ASSUME TypeOK, CustodyInv, EmptyDrain
    PROVE  CustodyInv'
<1>1. UNCHANGED <<exitFlag, backend, inFlightMessages, deferredMessages,
                  pumpVars, ioVars, scanVars>>
  BY DEF EmptyDrain, qVars, flightVars, deferVars, exitVars, procVars
<1>2. SUFFICES ASSUME ~exitFlag PROVE \A n \in Msgs : Custody(n)'
  BY <1>1 DEF CustodyInv
<1>3. \A n \in Msgs : Custody(n)
  BY <1>2 DEF CustodyInv
<1>4. PICK m \in Msgs : m = ID(Head(memoryMsgChan))
  BY IDType DEF EmptyDrain, TypeOK, QueueOK
<1>5. /\ InMem(m)
      /\ \A n \in Msgs : n # m => (InMem(n)' <=> InMem(n))
      /\ MemOnce(m) => ~InMem(m)'
      /\ \A n \in Msgs : MemOnce(n) => MemOnce(n)'
  BY <1>4, MemTail DEF EmptyDrain, TypeOK, QueueOK
<1>6. fate'[m] = "done" /\ \A n \in Msgs : n # m => fate'[n] = fate[n]
  BY <1>4 DEF EmptyDrain, Discarded
<1>7. \A n \in Msgs :
        /\ (OnDisk(n)' <=> OnDisk(n)) /\ (DiskOnce(n)' <=> DiskOnce(n))
        /\ (InFlight(n)' <=> InFlight(n)) /\ (InDeferred(n)' <=> InDeferred(n))
        /\ (InPump(n)' <=> InPump(n)) /\ (PumpOnce(n)' <=> PumpOnce(n))
        /\ (InIO(n)' <=> InIO(n)) /\ (IOOnce(n)' <=> IOOnce(n))
        /\ (InScan(n)' <=> InScan(n))
  BY <1>1, DiskFrame, FlightFrame, DeferredFrame, PumpFrame, IOFrame,
     ScanFrame, PumpUnchanged, IOUnchanged
<1>8. \A n \in Msgs : n # m => Same(n)
  BY <1>1, <1>5, <1>6, <1>7 DEF Same
<1>9. \A n \in Msgs : StillOnce(n)
  BY <1>1, <1>3, <1>5, <1>6, <1>7
  DEF StillOnce, HeldOnce, Custody
<1>10. Custody(m)'
  BY <1>1, <1>3, <1>4, <1>5, <1>6, <1>7
  DEF Custody, HeldOnce, HeldInOnePlace, Held
<1> QED
  BY <1>3, <1>8, <1>9, <1>10, SameCustody

(***************************************************************************)
(* The actions that discard all that is in one place.                      *)
(***************************************************************************)

\* EmptyInFlight: the in-flight map -> discarded
LEMMA CustodyEmptyInFlight ==
    ASSUME TypeOK, CustodyInv, NEW exit, EmptyInFlight(exit)
    PROVE  CustodyInv'
<1>1. UNCHANGED <<exitFlag, memoryMsgChan, backend, deferredMessages,
                  pumpVars, ioVars, scanVars>>
  BY DEF EmptyInFlight, qVars, flightVars, deferVars, exitVars, procVars
<1>2. SUFFICES ASSUME ~exitFlag, NEW n \in Msgs PROVE Custody(n)'
  BY <1>1 DEF CustodyInv
<1>3. Custody(n)
  BY <1>2 DEF CustodyInv
<1>4. ~InFlight(n)' /\ fate'[n] = IF InFlight(n) THEN "done" ELSE fate[n]
  BY DEF EmptyInFlight, Discarded, InMap, InFlight
<1>5. /\ (InMem(n)' <=> InMem(n)) /\ (MemOnce(n)' <=> MemOnce(n))
      /\ (OnDisk(n)' <=> OnDisk(n)) /\ (DiskOnce(n)' <=> DiskOnce(n))
      /\ (InDeferred(n)' <=> InDeferred(n)) /\ (InPump(n)' <=> InPump(n))
      /\ (PumpOnce(n)' <=> PumpOnce(n)) /\ (InIO(n)' <=> InIO(n))
      /\ (IOOnce(n)' <=> IOOnce(n)) /\ (InScan(n)' <=> InScan(n))
  BY <1>1, MemFrame, DiskFrame, DeferredFrame, PumpFrame, IOFrame,
     ScanFrame, PumpUnchanged, IOUnchanged
<1> QED
  BY <1>3, <1>4, <1>5
  DEF Custody, HeldOnce, HeldInOnePlace, Held

\* EmptyDeferred: the deferred map -> discarded
LEMMA CustodyEmptyDeferred ==
    ASSUME TypeOK, CustodyInv, EmptyDeferred
    PROVE  CustodyInv'
<1>1. UNCHANGED <<exitFlag, memoryMsgChan, backend, inFlightMessages,
                  pumpVars, ioVars, scanVars>>
  BY DEF EmptyDeferred, qVars, flightVars, deferVars, exitVars, procVars
<1>2. SUFFICES ASSUME ~exitFlag, NEW n \in Msgs PROVE Custody(n)'
  BY <1>1 DEF CustodyInv
<1>3. Custody(n)
  BY <1>2 DEF CustodyInv
<1>4. ~InDeferred(n)' /\ fate'[n] = IF InDeferred(n) THEN "done" ELSE fate[n]
  BY DEF EmptyDeferred, Discarded, InMap, InDeferred
<1>5. /\ (InMem(n)' <=> InMem(n)) /\ (MemOnce(n)' <=> MemOnce(n))
      /\ (OnDisk(n)' <=> OnDisk(n)) /\ (DiskOnce(n)' <=> DiskOnce(n))
      /\ (InFlight(n)' <=> InFlight(n)) /\ (InPump(n)' <=> InPump(n))
      /\ (PumpOnce(n)' <=> PumpOnce(n)) /\ (InIO(n)' <=> InIO(n))
      /\ (IOOnce(n)' <=> IOOnce(n)) /\ (InScan(n)' <=> InScan(n))
  BY <1>1, MemFrame, DiskFrame, FlightFrame, PumpFrame, IOFrame,
     ScanFrame, PumpUnchanged, IOUnchanged
<1> QED
  BY <1>3, <1>4, <1>5
  DEF Custody, HeldOnce, HeldInOnePlace, Held

\* EmptyBackend: the backend -> discarded
LEMMA CustodyEmptyBackend ==
    ASSUME TypeOK, CustodyInv, EmptyBackend
    PROVE  CustodyInv'
<1>1. UNCHANGED <<exitFlag, memoryMsgChan, inFlightMessages,
                  deferredMessages, pumpVars, ioVars, scanVars>>
  BY DEF EmptyBackend, qVars, flightVars, deferVars, exitVars, procVars
<1>2. SUFFICES ASSUME ~exitFlag, NEW n \in Msgs PROVE Custody(n)'
  BY <1>1 DEF CustodyInv
<1>3. Custody(n)
  BY <1>2 DEF CustodyInv
<1>4. /\ ~OnDisk(n)' /\ DiskOnce(n)'
      /\ fate'[n] = IF OnDisk(n) THEN "done" ELSE fate[n]
  BY DEF EmptyBackend, Discarded, OnDisk, DiskOnce
<1>5. /\ (InMem(n)' <=> InMem(n)) /\ (MemOnce(n)' <=> MemOnce(n))
      /\ (InFlight(n)' <=> InFlight(n)) /\ (InDeferred(n)' <=> InDeferred(n))
      /\ (InPump(n)' <=> InPump(n)) /\ (PumpOnce(n)' <=> PumpOnce(n))
      /\ (InIO(n)' <=> InIO(n)) /\ (IOOnce(n)' <=> IOOnce(n))
      /\ (InScan(n)' <=> InScan(n))
  BY <1>1, MemFrame, FlightFrame, DeferredFrame, PumpFrame, IOFrame,
     ScanFrame, PumpUnchanged, IOUnchanged
<1> QED
  BY <1>3, <1>4, <1>5
  DEF Custody, HeldOnce, HeldInOnePlace, Held

(***************************************************************************)
(* SUB, exit and the induction.                                            *)
(***************************************************************************)

\* No pump runs before its client's SUB is done.
LEMMA PumpOffStep ==
    ASSUME TypeOK, PumpOffUntilSub, [Next]_vars
    PROVE  PumpOffUntilSub'
<1> DEFINE Early == {"new", "adding", "added"}
<1>1. ASSUME NEW c \in Clients, \E pc, o : PumpGoto(c, pc, o),
             pumpPC[c] # "off", UNCHANGED sub
      PROVE  PumpOffUntilSub'
  BY <1>1 DEF PumpOffUntilSub, PumpGoto, TypeOK, PumpOK
<1>2. ASSUME NEW c \in Clients, UNCHANGED pumpPC, NEW st,
             sub' = [sub EXCEPT ![c] = st], sub[c] \in Early \/ st \notin Early
      PROVE  PumpOffUntilSub'
  BY <1>2 DEF PumpOffUntilSub, TypeOK, SubOK
<1>3. ASSUME UNCHANGED <<pumpPC, sub>>
      PROVE  PumpOffUntilSub'
  BY <1>3 DEF PumpOffUntilSub
<1>4. ASSUME NEW c \in Clients, SUB(c)
      PROVE  PumpOffUntilSub'
  <2>1. sub'[c] \notin Early
    BY <1>4 DEF SUB, TypeOK, SubOK
  <2>2. \A d \in Clients \ {c} : sub'[d] = sub[d] /\ pumpPC'[d] = pumpPC[d]
    BY <1>4 DEF SUB, PumpGoto, pumpVars, TypeOK, SubOK, PumpOK
  <2> QED
    BY <2>1, <2>2 DEF PumpOffUntilSub
<1>5. ASSUME NEW c \in Clients, AddClientCheck(c) \/ AddClientInsert(c)
      PROVE  PumpOffUntilSub'
  <2>1. UNCHANGED pumpPC /\ sub[c] \in Early
    BY <1>5 DEF AddClientCheck, AddClientInsert, procVars, pumpVars
  <2>2. \E st : sub' = [sub EXCEPT ![c] = st]
    BY <1>5 DEF AddClientCheck, AddClientInsert
  <2> QED
    BY <1>2, <2>1, <2>2
<1>6. ASSUME NEW c \in Clients, Disconnect(c) \/ RemoveClient(c)
      PROVE  PumpOffUntilSub'
  <2>1. UNCHANGED pumpPC
    BY <1>6 DEF Disconnect, RemoveClient, procVars, pumpVars
  <2>2. \/ sub' = [sub EXCEPT ![c] = "closing"]
        \/ sub' = [sub EXCEPT ![c] = "gone"]
    BY <1>6 DEF Disconnect, RemoveClient
  <2> QED
    BY <1>2, <2>1, <2>2
<1>7. ASSUME NEW c \in Clients, PumpNext(c)
      PROVE  PumpOffUntilSub'
  <2>1. UNCHANGED sub /\ pumpPC[c] # "off"
    BY <1>7
    DEF PumpNext, PumpReceiveMem, PumpReceiveBackend, PumpPush, PumpAddToPQ,
        PumpSend, PumpExit, subVars
  <2>2. UNCHANGED pumpPC \/ \E pc, o : PumpGoto(c, pc, o)
    BY <1>7
    DEF PumpNext, PumpReceiveMem, PumpReceiveBackend, PumpPush, PumpAddToPQ,
        PumpSend, PumpExit, Sample, pumpVars
  <2> QED
    BY <1>1, <1>3, <2>1, <2>2
<1>8. ASSUME NEW c \in Clients, IONext(c)
      PROVE  PumpOffUntilSub'
  <2>1. UNCHANGED <<pumpPC, sub>>
    BY <1>8
    DEF IONext, IOStep, IOPop, IORemovePQ, IORequeue, IODefer,
        IOAddToDeferredPQ, IOTouchPush, IOTouchAddToPQ, IOSettle, pumpVars,
        subVars
  <2> QED
    BY <1>3, <2>1
<1>9. ASSUME TopicNext \/ ScanNext
      PROVE  PumpOffUntilSub'
  <2>1. UNCHANGED <<pumpPC, sub>>
    BY <1>9
    DEF TopicNext, PutMessage, PutMessageDeferred, TopicAddToDeferredPQ,
        ScanNext, ScanStep, ScanShift, ScanReadOwner, ScanPop, ScanTimedOut,
        ScanPut, ScanShiftDeferred, ScanPopDeferred, procVars, pumpVars,
        subVars
  <2> QED
    BY <1>3, <2>1
<1>10. ASSUME AdminNext
       PROVE  PumpOffUntilSub'
  <2>1. UNCHANGED <<pumpPC, sub>>
    BY <1>10
    DEF AdminNext, Empty, EmptyInFlight, EmptyDeferred, EmptyClients,
        EmptyDrain, EmptyBackend, Close, BeginExit, CloseClients, FlushMem,
        FlushInFlight, FlushDeferred, Delete, DeleteEmpties, procVars,
        pumpVars, subVars
  <2> QED
    BY <1>3, <2>1
<1>11. CASE UNCHANGED vars
  BY <1>3, <1>11 DEF vars, subVars, procVars, pumpVars
<1> QED
  BY <1>4, <1>5, <1>6, <1>7, <1>8, <1>9, <1>10, <1>11 DEF Next, SubNext

\* The pump that SUB starts was off and held nothing.
LEMMA CustodySUB ==
    ASSUME TypeOK, CustodyInv, PumpOffUntilSub, NEW c \in Clients, SUB(c)
    PROVE  CustodyInv'
<1>1. UNCHANGED <<exitFlag, memoryMsgChan, backend, inFlightMessages,
                  deferredMessages, fate, ioVars, scanVars>>
  BY DEF SUB, qVars, flightVars, deferVars, exitVars
<1>2. \A d \in Clients : \A n \in Msgs : PumpHolds(d, n)' <=> PumpHolds(d, n)
  BY DEF SUB, PumpGoto, PumpHolds, PumpOffUntilSub, pumpVars, TypeOK, PumpOK
<1> QED
  BY <1>1, <1>2, IOUnchanged, ScanFrame, Neutral

\* Once exitFlag is set CustodyInv asks for nothing.
LEMMA CustodyExit ==
    ASSUME TypeOK, CustodyInv,
           \/ Close \/ Delete \/ DeleteEmpties \/ CloseClients
           \/ FlushMem \/ FlushInFlight \/ FlushDeferred
    PROVE  CustodyInv'
<1>1. exitFlag'
  BY DEF Close, Delete, BeginExit, DeleteEmpties, EmptyInFlight, CloseClients,
      FlushMem, FlushInFlight, FlushDeferred, TypeOK, ExitOK
<1> QED
  BY <1>1 DEF CustodyInv

\* Nothing is held at first.
LEMMA CustodyInit == Init => CustodyInv /\ PumpOffUntilSub
<1> SUFFICES ASSUME Init, NEW m \in Msgs PROVE Custody(m) /\ PumpOffUntilSub
  BY DEF CustodyInv, Init, PumpOffUntilSub
<1>1. ~InMem(m) /\ MemOnce(m)
  BY DEF Init, InMem, MemOnce
<1>2. ~OnDisk(m) /\ DiskOnce(m) /\ ~InFlight(m) /\ ~InDeferred(m)
  BY DEF Init, OnDisk, DiskOnce, InFlight, InDeferred
<1>3. ~InPump(m) /\ PumpOnce(m) /\ ~InIO(m) /\ IOOnce(m) /\ ~InScan(m)
  BY DEF Init, InPump, PumpOnce, PumpHolds, InIO, IOOnce, IOHolds, InScan
<1>4. fate[m] # "live" /\ PumpOffUntilSub
  BY DEF Init, PumpOffUntilSub
<1> QED
  BY <1>1, <1>2, <1>3, <1>4 DEF Custody, HeldOnce, HeldInOnePlace, Held

\* Every step keeps every message in custody.
LEMMA CustodyStep ==
    ASSUME TypeOK, CustodyInv, PumpOffUntilSub, [Next]_vars
    PROVE  CustodyInv'
<1>1. CASE TopicNext
  BY <1>1, CustodyPutMessage, CustodyPutMessageDeferred,
     CustodyTopicAddToDeferredPQ
  DEF TopicNext
<1>2. ASSUME NEW c \in Clients, PumpNext(c) PROVE CustodyInv'
  BY <1>2, CustodyPumpReceiveMem, CustodyPumpReceiveBackend,
     CustodyPumpPush, CustodyPumpAddToPQ, CustodyPumpSend, CustodyPumpExit
  DEF PumpNext
<1>3. ASSUME NEW c \in Clients, IONext(c) PROVE CustodyInv'
  BY <1>3, CustodyIOPop, CustodyIORemovePQ, CustodyIORequeue, CustodyIODefer,
     CustodyIOAddToDeferredPQ, CustodyIOTouchPush, CustodyIOTouchAddToPQ,
     CustodyIOSettle
  DEF IONext, IOStep
<1>4. ASSUME NEW c \in Clients, SubNext(c) PROVE CustodyInv'
  BY <1>4, CustodyAddClientCheck, CustodyAddClientInsert, CustodySUB,
     CustodyDisconnect, CustodyRemoveClient
  DEF SubNext
<1>5. CASE ScanNext
  BY <1>5, CustodyScanShift, CustodyScanShiftDeferred, CustodyScanReadOwner,
     CustodyScanPop, CustodyScanTimedOut, CustodyScanPut,
     CustodyScanPopDeferred
  DEF ScanNext, ScanStep
<1>6. CASE AdminNext
  BY <1>6, CustodyEmptyInFlight, CustodyEmptyDeferred, CustodyEmptyClients,
     CustodyEmptyDrain, CustodyEmptyBackend, CustodyExit
  DEF AdminNext, Empty
<1>7. CASE UNCHANGED vars
  BY <1>7, Neutral, PumpUnchanged, IOUnchanged, ScanFrame
  DEF vars, qVars, flightVars, deferVars, exitVars, procVars
<1> QED
  BY <1>1, <1>2, <1>3, <1>4, <1>5, <1>6, <1>7 DEF Next

\* The inductive invariant: TypeOK, custody, and no pump before SUB.
LEMMA CustodyAlways == Spec => [](CustodyInv /\ PumpOffUntilSub)
<1>1. Init => CustodyInv /\ PumpOffUntilSub
  BY CustodyInit
<1>2. /\ TypeOK /\ CustodyInv /\ PumpOffUntilSub /\ [Next]_vars
      => (CustodyInv /\ PumpOffUntilSub)'
  BY CustodyStep, PumpOffStep
<1> QED
  BY <1>1, <1>2, TypeCorrect, PTL DEF Spec

\* Until the channel exits no message is in two places, none that was accepted
\* is lost before it is finished, emptied or sampled away, and none comes back
\* afterwards, whatever the interleaving of pumps, IOLoops, scan worker, topic
\* and Empty.
THEOREM KeepsMessages == Spec => []MessagesKept
<1>1. CustodyInv => AtMostOneHolder
  BY DEF CustodyInv, Custody, AtMostOneHolder
<1>2. CustodyInv => LiveMessageHeld
  BY DEF CustodyInv, Custody, LiveMessageHeld
<1>3. CustodyInv => FinishedNeverReturns
  BY DEF CustodyInv, Custody, FinishedNeverReturns
<1>4. CustodyInv => MessagesKept
  BY <1>1, <1>2, <1>3 DEF MessagesKept
<1> QED
  BY <1>4, CustodyAlways, PTL

(***************************************************************************)
(* The life of a message.  Custody tells how Place and Owner read the      *)
(* state, before a step and after it.                                      *)
(***************************************************************************)

\* A FIN that is not done with its message is alone with it.
Finished(n) ==
    /\ \A c \in Clients : FINHolds(c, n) => fate[n] = "done"
    /\ \A c, d \in Clients : FINHolds(c, n) /\ FINHolds(d, n) => c = d

\* What Place and Owner are of a message in custody.
Legible(n) ==
    /\ fate[n] # "live" => Place(n) = fate[n]
    /\ fate[n] = "new" => Owner(n) = {}
    /\ fate[n] = "done" => Owner(n) = {c \in Clients : FINHolds(c, n)}
    /\ InFlight(n) => Place(n) = "flight"
    /\ \A c \in Clients :
        /\ InFlightOwner(c, n) => Place(n) = "flight" /\ Owner(n) = {c}
        /\ IOHolds(c, n) => Place(n) = "command" /\ Owner(n) = {c}
    /\ InDeferred(n) => Place(n) = "deferred" /\ Owner(n) = {}
    /\ fate[n] = "live" /\ ~InFlight(n) /\ ~InIO(n) /\ ~InDeferred(n)
        => Place(n) = "queued" /\ Owner(n) = {}

\* Custody makes Place and Owner legible, before a step ...
LEMMA Reads == \A n \in Msgs : Custody(n) /\ Finished(n) => Legible(n)
<1> SUFFICES ASSUME NEW n \in Msgs, Custody(n), Finished(n) PROVE Legible(n)
  OBVIOUS
<1>1. \A c \in Clients : /\ InFlightOwner(c, n) => InFlight(n)
                         /\ IOHolds(c, n) => InIO(n)
  BY DEF InFlightOwner, InFlight, InIO
<1>2. /\ fate[n] = "live" <=> Held(n)
      /\ InFlight(n) => ~InDeferred(n) /\ ~InIO(n)
      /\ InDeferred(n) => ~InIO(n)
      /\ IOOnce(n)
  BY DEF Custody, HeldInOnePlace, HeldOnce
<1>3. CASE fate[n] # "live"
  <2>1. Place(n) = fate[n]
    BY <1>2, <1>3 DEF Place
  <2>2. ~InFlight(n) /\ ~InIO(n) /\ ~InDeferred(n)
    BY <1>2, <1>3 DEF Held
  <2> QED
    BY <1>1, <1>3, <2>1, <2>2 DEF Owner, Legible, Finished
<1>4. CASE fate[n] = "live"
  <2> \A c \in Clients : ~FINHolds(c, n)
    BY <1>4 DEF Finished
  <2>1. Place(n) = Stage(n) /\ Held(n)
    BY <1>2, <1>4 DEF Place
  <2>2. CASE InFlight(n)
    <3>1. Stage(n) = "flight"
      BY <1>2, <2>1, <2>2 DEF Stage, HeldInOnePlace, Custody
    <3>2. \A c, d \in Clients : InFlightOwner(c, n) /\ InFlightOwner(d, n) => c = d
      BY DEF InFlightOwner
    <3>3. \A c \in Clients : InFlightOwner(c, n) => Owner(n) = {c}
      BY <1>1, <1>2, <2>2, <3>2 DEF Owner
    <3> QED
      BY <1>1, <1>2, <1>4, <2>1, <2>2, <3>1, <3>3 DEF Legible
  <2>3. CASE InIO(n)
    <3>1. Stage(n) = "command"
      BY <1>2, <2>1, <2>3 DEF Stage, HeldInOnePlace, Custody
    <3>2. \A c \in Clients : IOHolds(c, n) => Owner(n) = {c}
      BY <1>1, <1>2, <2>3 DEF Owner, IOOnce
    <3> QED
      BY <1>1, <1>2, <1>4, <2>1, <2>3, <3>1, <3>2 DEF Legible
  <2>4. CASE InDeferred(n)
    <3>1. Stage(n) = "deferred"
      BY <1>2, <2>1, <2>4 DEF Stage, HeldInOnePlace, Custody
    <3>2. Owner(n) = {}
      BY <1>1, <1>2, <2>4 DEF Owner
    <3> QED
      BY <1>1, <1>2, <1>4, <2>1, <2>4, <3>1, <3>2 DEF Legible
  <2>5. CASE ~InFlight(n) /\ ~InIO(n) /\ ~InDeferred(n)
    <3>1. Stage(n) = "queued"
      BY <2>1, <2>5 DEF Stage, Held
    <3>2. Owner(n) = {}
      BY <1>1, <2>5 DEF Owner
    <3> QED
      BY <1>1, <1>4, <2>1, <2>5, <3>1, <3>2 DEF Legible
  <2> QED
    BY <2>2, <2>3, <2>4, <2>5
<1> QED
  BY <1>3, <1>4

\* ... and after it.
LEMMA ReadsNext == \A n \in Msgs : Custody(n)' /\ Finished(n)' => Legible(n)'
<1>1. (\A n \in Msgs : Custody(n) /\ Finished(n) => Legible(n))'
  BY Reads, PTL
<1> QED
  BY <1>1

\* What a command holds, and may file again, is its client's.
CommandOwner ==
    \A c \in Clients : ioPC[c] \in {"popped", "removed"} /\ ioOp[c] # "FIN" =>
        clientID[ioObj[c]] = c

\* A step of a channel that stays open, of which custody is known.
StillOpen ==
    /\ TypeOK
    /\ ~exitFlag /\ ~exitFlag'
    /\ \A n \in Msgs : Custody(n) /\ Custody(n)' /\ Finished(n) /\ Finished(n)'
    /\ CommandOwner

LifeVars == <<[m \in Msgs |-> Place(m)], [m \in Msgs |-> Owner(m)], ~exitFlag>>

\* Whoever has n in flight keeps it.
FlightKept(n) ==
    /\ inFlightMessages'[n] = inFlightMessages[n]
    /\ inFlightMessages[n] # NoObj =>
        clientID'[inFlightMessages[n]] = clientID[inFlightMessages[n]]

\* What the command of c has in its hand stays there.
SameHand(c, n) ==
    /\ IOHolds(c, n)' <=> IOHolds(c, n)
    /\ FINHolds(c, n)' <=> FINHolds(c, n)

\* Nothing that a client could know of n changes.
Stay(n) ==
    /\ fate'[n] = fate[n]
    /\ FlightKept(n)
    /\ InDeferred(n)' <=> InDeferred(n)
    /\ \A c \in Clients : SameHand(c, n)

Kept(n) == Place(n)' = Place(n) /\ Owner(n)' = Owner(n)

\* The hands of the commands stay as they are ...
LEMMA HandsUnchanged ==
    ASSUME UNCHANGED ioVars
    PROVE  \A c \in Clients : \A n \in Msgs : SameHand(c, n)
BY DEF SameHand, IOHolds, FINHolds, ioVars

\* ... and who holds none still holds none.
LEMMA NoHand ==
    ASSUME NEW n \in Msgs, \A c \in Clients : SameHand(c, n)
    PROVE  InIO(n)' <=> InIO(n)
BY DEF SameHand, InIO

\* A message that stays keeps its place and its owner.
LEMMA StayKeeps ==
    ASSUME StillOpen, NEW n \in Msgs, Stay(n)
    PROVE  Kept(n)
<1>1. Legible(n) /\ Legible(n)'
  BY Reads, ReadsNext DEF StillOpen
<1>2. /\ InFlight(n)' <=> InFlight(n)
      /\ InIO(n)' <=> InIO(n)
      /\ \A c \in Clients : InFlightOwner(c, n)' <=> InFlightOwner(c, n)
  BY NoHand DEF Stay, FlightKept, InFlight, InFlightOwner
<1>3. Owner(n)' = Owner(n)
  BY <1>2 DEF Stay, SameHand, Owner
<1>4. Place(n)' = Place(n)
  <2>1. CASE fate[n] # "live"
    BY <1>1, <2>1 DEF Legible, Stay
  <2>2. CASE fate[n] = "live" /\ InFlight(n)
    BY <1>1, <1>2, <2>2 DEF Legible
  <2>3. CASE fate[n] = "live" /\ InIO(n)
    BY <1>1, <1>2, <2>3 DEF Legible, InIO, Stay, SameHand
  <2>4. CASE fate[n] = "live" /\ InDeferred(n)
    BY <1>1, <2>4 DEF Legible, Stay
  <2>5. CASE fate[n] = "live" /\ ~InFlight(n) /\ ~InIO(n) /\ ~InDeferred(n)
    BY <1>1, <1>2, <2>5 DEF Legible, Stay
  <2> QED
    BY <2>1, <2>2, <2>3, <2>4, <2>5
<1> QED
  BY <1>3, <1>4 DEF Kept

\* No FIN takes n.
NoFIN(n) == \A c \in Clients : FINHolds(c, n)' => FINHolds(c, n)

\* A message that is done without a FIN is nobody's.
LEMMA DoneUnowned ==
    ASSUME StillOpen, NEW n \in Msgs, fate[n] # "done", fate'[n] = "done",
           NoFIN(n)
    PROVE  Place(n)' = "done" /\ Owner(n)' = {}
<1>1. \A c \in Clients : ~FINHolds(c, n)'
  BY DEF StillOpen, Finished, NoFIN
<1> QED
  BY <1>1, ReadsNext DEF StillOpen, Legible

\* A step that only one message notices moves it in MessageLife.
LEMMA OneMoves ==
    ASSUME StillOpen, NEW m \in Msgs, NEW p, NEW S,
           \A n \in Msgs : n # m => Stay(n), Place(m)' = p, Owner(m)' = S
    PROVE  Life!Moves(m, p, S)
<1>1. \A n \in Msgs : n # m => Kept(n)
  BY StayKeeps
<1>2. /\ [n \in Msgs |-> Place(n)]'
            = [[n \in Msgs |-> Place(n)] EXCEPT ![m] = p]
      /\ [n \in Msgs |-> Owner(n)]'
            = [[n \in Msgs |-> Owner(n)] EXCEPT ![m] = S]
  BY <1>1 DEF Kept
<1> QED
  BY <1>2 DEF Life!Moves, StillOpen

\* A step that no message notices is none in MessageLife.
LEMMA NoneMoves ==
    ASSUME StillOpen, \A n \in Msgs : Stay(n)
    PROVE  UNCHANGED LifeVars
<1>1. \A n \in Msgs : Kept(n)
  BY StayKeeps
<1> QED
  BY <1>1 DEF LifeVars, Kept, StillOpen

\* No message notices a step that leaves the maps, the owners and the hands
\* of the commands alone.
LEMMA Unnoticed ==
    ASSUME StillOpen,
           UNCHANGED <<fate, inFlightMessages, deferredMessages, clientID>>,
           \A c \in Clients : \A n \in Msgs : SameHand(c, n)
    PROVE  UNCHANGED LifeVars
BY NoneMoves DEF Stay, FlightKept, InDeferred

\* Messages that are discarded where Empty can find them are discarded in
\* MessageLife.
LEMMA SomeEmptied ==
    ASSUME StillOpen, NEW S \in SUBSET Msgs, fate' = Discarded(S),
           \A n \in S : Held(n) /\ ~InIO(n), \A n \in Msgs \ S : Stay(n),
           UNCHANGED ioVars
    PROVE  Life!Empty(S)
<1>1. ASSUME NEW n \in S
      PROVE  /\ Place(n) \in {"queued", "deferred", "flight"}
             /\ Place(n)' = "done" /\ Owner(n)' = {}
  <2>1. Legible(n) /\ Legible(n)'
    BY Reads, ReadsNext DEF StillOpen
  <2>2. fate[n] = "live" /\ fate'[n] = "done"
    BY <1>1 DEF StillOpen, Custody, Discarded
  <2>3. Place(n)' = "done" /\ Owner(n)' = {}
    BY <2>2, HandsUnchanged, DoneUnowned DEF NoFIN, SameHand
  <2> QED
    BY <1>1, <2>1, <2>2, <2>3 DEF Legible
<1>2. \A n \in Msgs \ S : Kept(n)
  BY StayKeeps
<1>3. /\ [n \in Msgs |-> Place(n)]'
            = [n \in Msgs |-> IF n \in S THEN "done" ELSE Place(n)]
      /\ [n \in Msgs |-> Owner(n)]'
            = [n \in Msgs |-> IF n \in S THEN {} ELSE Owner(n)]
  BY <1>1, <1>2 DEF Kept
<1> QED
  BY <1>1, <1>3 DEF Life!Empty, StillOpen

(***************************************************************************)
(* The steps.  First those that no message notices.                        *)
(***************************************************************************)

\* A step that works on a heap, a counter or a subscription.
LEMMA LifeUnnoticed ==
    ASSUME StillOpen,
           \/ TopicAddToDeferredPQ \/ EmptyClients
           \/ ScanReadOwner \/ ScanTimedOut
           \/ \E o \in Objs : ScanShift(o) \/ ScanShiftDeferred(o)
           \/ \E c \in Clients : \/ PumpAddToPQ(c) \/ PumpSend(c) \/ PumpExit(c)
                                 \/ SubNext(c)
    PROVE  UNCHANGED LifeVars
<1>1. UNCHANGED <<fate, inFlightMessages, deferredMessages, clientID, ioVars>>
  BY DEF TopicAddToDeferredPQ, EmptyClients, ScanReadOwner, ScanTimedOut,
         ScanShift, ScanShiftDeferred, PumpAddToPQ, PumpSend, PumpExit,
         SubNext, AddClientCheck, AddClientInsert, SUB, Disconnect,
         RemoveClient, flightVars, deferVars, procVars
<1> QED
  BY <1>1, HandsUnchanged, Unnoticed

\* A command that goes on without passing its message to anybody.
LEMMA LifeIOUnnoticed ==
    ASSUME StillOpen, NEW c \in Clients,
           IOAddToDeferredPQ(c) \/ IOTouchAddToPQ(c) \/ IOSettle(c)
    PROVE  UNCHANGED LifeVars
<1>1. UNCHANGED <<fate, inFlightMessages, deferredMessages, clientID>>
  BY DEF IOAddToDeferredPQ, IOTouchAddToPQ, IOSettle, flightVars, deferVars
<1>2. \A d \in Clients : \A n \in Msgs : SameHand(d, n)
  BY DEF IOAddToDeferredPQ, IOTouchAddToPQ, IOSettle, IODone, IOSettling,
         IOBecomes, TypeOK, IoOK, SameHand, IOHolds, FINHolds, StillOpen
<1> QED
  BY <1>1, <1>2, Unnoticed

(***************************************************************************)
(* The steps that move one message.                                        *)
(***************************************************************************)

\* A new object takes nobody's message away.
LEMMA AllocatedKeeps ==
    ASSUME TypeOK, NEW o \in Objs, Allocated(o), UNCHANGED inFlightMessages
    PROVE  \A n \in Msgs : FlightKept(n)
<1> SUFFICES ASSUME NEW n \in Msgs, inFlightMessages[n] # NoObj
             PROVE  clientID'[inFlightMessages[n]] = clientID[inFlightMessages[n]]
  BY DEF FlightKept
<1>1. inFlightMessages[n] \in Objs /\ ID(inFlightMessages[n]) = n
  BY DEF TypeOK, FlightOK, ObjsOf
<1>2. inFlightMessages[n] # o
  BY <1>1 DEF Allocated, Referenced
<1> QED
  BY <1>1, <1>2 DEF Allocated, TypeOK, FlightOK

\* put makes its message live, or drops it when the channel is ephemeral.
LEMMA PutSettles ==
    ASSUME TypeOK, NEW o \in Objs, put(o), fate[ID(o)] # "done"
    PROVE  /\ \/ fate'[ID(o)] = "live"
              \/ Ephemeral /\ fate'[ID(o)] = "done"
           /\ \A n \in Msgs : n # ID(o) => fate'[n] = fate[n]
<1>1. ID(o) \in Msgs /\ fate \in [Msgs -> {"new", "live", "done"}]
  BY IDType DEF TypeOK, HistoryOK
<1>2. CASE fate' = Stored(ID(o))
  BY <1>1, <1>2, StoredFate
<1>3. CASE Ephemeral /\ fate' = [fate EXCEPT ![ID(o)] = "done"]
  BY <1>1, <1>3
<1> QED
  BY <1>2, <1>3 DEF put

\* A message that is put from nowhere or from a hand waits in MessageLife.
LEMMA PutWaits ==
    ASSUME StillOpen, NEW o \in Objs, put(o), fate[ID(o)] # "done",
           \A n \in Msgs : FlightKept(n) /\ (InDeferred(n)' <=> InDeferred(n)),
           ~InFlight(ID(o)), ~InDeferred(ID(o)), ~InIO(ID(o))',
           NoFIN(ID(o)),
           \A n \in Msgs : n # ID(o) => \A c \in Clients : SameHand(c, n)
    PROVE  /\ Life!Waits(ID(o))
           /\ \/ Place(ID(o))' = "queued" /\ Owner(ID(o))' = {}
              \/ Ephemeral /\ Place(ID(o))' = "done" /\ Owner(ID(o))' = {}
<1>1. ID(o) \in Msgs
  BY IDType
<1>2. Legible(ID(o))'
  BY <1>1, ReadsNext DEF StillOpen
<1>3. /\ \/ fate'[ID(o)] = "live"
         \/ Ephemeral /\ fate'[ID(o)] = "done"
      /\ \A n \in Msgs : n # ID(o) => fate'[n] = fate[n]
  BY PutSettles DEF StillOpen
<1>4. \A n \in Msgs : n # ID(o) => Stay(n)
  BY <1>3 DEF Stay
<1>5. ~InFlight(ID(o))' /\ ~InDeferred(ID(o))'
  BY <1>1 DEF FlightKept, InFlight
<1>6. \/ Place(ID(o))' = "queued" /\ Owner(ID(o))' = {}
      \/ Ephemeral /\ Place(ID(o))' = "done" /\ Owner(ID(o))' = {}
  BY <1>1, <1>2, <1>3, <1>5, DoneUnowned DEF Legible
<1> QED
  BY <1>1, <1>4, <1>6, OneMoves DEF Life!Waits

\* PutMessage publishes.
LEMMA LifePutMessage ==
    ASSUME StillOpen, NEW m \in Msgs, PutMessage(m)
    PROVE  Life!Publish(m)
<1>1. PICK o \in Objs : ID(o) = m /\ Allocated(o) /\ put(o)
  BY DEF PutMessage, StillOpen, ObjsOf
<1>2. /\ fate[m] = "new" /\ m \notin Deferred
      /\ UNCHANGED <<inFlightMessages, deferredMessages, ioVars>>
  BY DEF PutMessage, deferVars, procVars
<1>3. Place(m) = "new" /\ ~InFlight(m) /\ ~InDeferred(m) /\ ~InIO(m)
  BY <1>2, Reads DEF StillOpen, Legible, Custody, Held
<1>4. /\ \A n \in Msgs : FlightKept(n) /\ (InDeferred(n)' <=> InDeferred(n))
      /\ \A c \in Clients : \A n \in Msgs : SameHand(c, n)
  BY <1>1, <1>2, AllocatedKeeps, DeferredFrame, HandsUnchanged DEF StillOpen
<1>5. ~InIO(m)' /\ NoFIN(m)
  BY <1>3, <1>4, NoHand DEF NoFIN, SameHand
<1>6. Life!Waits(m)
  BY <1>1, <1>2, <1>3, <1>4, <1>5, PutWaits
<1> QED
  BY <1>2, <1>3, <1>6 DEF Life!Publish

\* PutMessageDeferred publishes with a delay.
LEMMA LifePutMessageDeferred ==
    ASSUME StillOpen, NEW m \in Msgs, PutMessageDeferred(m)
    PROVE  Life!Publish(m)
<1>1. PICK o \in Objs : ID(o) = m /\ Allocated(o) /\ pushDeferredMessage(o)
  BY DEF PutMessageDeferred, ObjsOf
<1>2. /\ fate[m] = "new" /\ m \in Deferred
      /\ fate' = [fate EXCEPT ![m] = "live"]
      /\ UNCHANGED <<inFlightMessages, ioVars>>
  BY DEF PutMessageDeferred
<1>3. Place(m) = "new" /\ Legible(m)'
  BY <1>2, Reads, ReadsNext DEF StillOpen, Legible
<1>4. /\ InDeferred(m)'
      /\ \A n \in Msgs : n # m => (InDeferred(n)' <=> InDeferred(n))
  BY <1>1, Constants DEF pushDeferredMessage, InDeferred, StillOpen, TypeOK, DeferOK
<1>5. \A n \in Msgs : n # m => Stay(n)
  BY <1>1, <1>2, <1>4, AllocatedKeeps, HandsUnchanged
  DEF Stay, StillOpen, TypeOK, HistoryOK
<1>6. Life!Moves(m, "deferred", {})
  BY <1>3, <1>4, <1>5, OneMoves DEF Legible
<1> QED
  BY <1>2, <1>3, <1>6 DEF Life!Publish

\* A message that a sampled client throws away is dropped in MessageLife.
LEMMA SampleDrops ==
    ASSUME StillOpen, NEW c \in Clients, NEW m \in Msgs, Sample(c, m),
           InMem(m) \/ OnDisk(m),
           UNCHANGED <<inFlightMessages, deferredMessages, clientID, ioVars>>
    PROVE  Life!Drop(m)
<1>1. fate' = [fate EXCEPT ![m] = "done"]
  BY DEF Sample
<1>2. Place(m) = "queued"
  BY Reads DEF StillOpen, Legible, Custody, Held, HeldInOnePlace
<1>3. Place(m)' = "done" /\ Owner(m)' = {}
  <2>1. fate[m] # "done" /\ fate'[m] = "done"
    BY <1>1 DEF StillOpen, Custody, Held, TypeOK, HistoryOK
  <2> QED
    BY <2>1, HandsUnchanged, DoneUnowned DEF NoFIN, SameHand
<1>4. \A n \in Msgs : n # m => Stay(n)
  BY <1>1, HandsUnchanged DEF Stay, FlightKept, InDeferred, StillOpen, TypeOK, HistoryOK
<1> QED
  BY <1>2, <1>3, <1>4, OneMoves DEF Life!Drop

\* A pump that receives a message leaves it waiting, or drops it.
LEMMA LifePumpReceiveMem ==
    ASSUME StillOpen, NEW c \in Clients, PumpReceiveMem(c)
    PROVE  UNCHANGED LifeVars \/ \E m \in Msgs : Life!Drop(m)
<1>1. /\ memoryMsgChan # <<>> /\ memoryMsgChan \in Seq(Objs)
      /\ Head(memoryMsgChan) \in Objs
      /\ UNCHANGED <<inFlightMessages, deferredMessages, clientID, ioVars>>
  BY DEF PumpReceiveMem, flightVars, deferVars, StillOpen, TypeOK, QueueOK
<1>2. PICK m \in Msgs : m = ID(Head(memoryMsgChan))
  BY <1>1, IDType
<1>3. InMem(m)
  BY <1>1, <1>2 DEF InMem
<1>4. CASE Sample(c, m)
  BY <1>1, <1>3, <1>4, SampleDrops
<1>5. CASE UNCHANGED fate
  BY <1>1, <1>5, HandsUnchanged, Unnoticed
<1> QED
  BY <1>2, <1>4, <1>5 DEF PumpReceiveMem

\* The same from the backend.
LEMMA LifePumpReceiveBackend ==
    ASSUME StillOpen, NEW c \in Clients, NEW m \in Msgs, PumpReceiveBackend(c, m)
    PROVE  UNCHANGED LifeVars \/ Life!Drop(m)
<1>1. /\ OnDisk(m)
      /\ UNCHANGED <<inFlightMessages, deferredMessages, ioVars>>
  BY DEF PumpReceiveBackend, OnDisk, deferVars
<1>2. CASE Sample(c, m) /\ UNCHANGED clientID
  BY <1>1, <1>2, SampleDrops
<1>3. ASSUME NEW o \in Objs, Allocated(o), UNCHANGED fate
      PROVE  UNCHANGED LifeVars
  BY <1>1, <1>3, AllocatedKeeps, DeferredFrame, HandsUnchanged, NoneMoves
  DEF Stay, StillOpen
<1> QED
  BY <1>2, <1>3 DEF PumpReceiveBackend, ObjsOf

\* StartInFlightTimeout delivers.
LEMMA LifePumpPush ==
    ASSUME StillOpen, NEW c \in Clients, PumpPush(c)
    PROVE  \E m \in Msgs : Life!Deliver(m, c)
<1>1. PICK m \in Msgs : /\ m = ID(pumpObj[c]) /\ pumpObj[c] \in Objs
                         /\ pumpPC[c] = "received"
  BY IDType DEF PumpPush, StillOpen, TypeOK, PumpOK
<1>2. UNCHANGED <<fate, deferredMessages, ioVars>>
  BY DEF PumpPush, deferVars
<1>3. InPump(m)
  BY <1>1 DEF InPump, PumpHolds
<1>4. Place(m) = "queued" /\ ~InFlight(m)
  BY <1>3, Reads DEF StillOpen, Legible, Custody, Held, HeldInOnePlace
<1>5. /\ inFlightMessages' = [inFlightMessages EXCEPT ![m] = pumpObj[c]]
      /\ clientID' = [clientID EXCEPT ![pumpObj[c]] = c]
  BY <1>1, <1>4 DEF PumpPush, pushInFlightMessage, InFlight
<1>6. InFlightOwner(c, m)'
  BY <1>1, <1>5, Constants DEF InFlightOwner, StillOpen, TypeOK, FlightOK
<1>7. ASSUME NEW n \in Msgs, n # m PROVE FlightKept(n)
  <2>1. inFlightMessages[n] # NoObj => inFlightMessages[n] # pumpObj[c]
    BY <1>1, <1>7 DEF StillOpen, TypeOK, FlightOK, ObjsOf
  <2> QED
    BY <1>1, <1>5, <1>7, <2>1 DEF FlightKept, StillOpen, TypeOK, FlightOK
<1>8. \A n \in Msgs : n # m => Stay(n)
  BY <1>2, <1>7, HandsUnchanged DEF Stay, InDeferred
<1>9. Place(m)' = "flight" /\ Owner(m)' = {c}
  BY <1>6, ReadsNext DEF StillOpen, Legible
<1> QED
  BY <1>4, <1>8, <1>9, OneMoves DEF Life!Deliver

\* FIN finishes; REQ and TOUCH take the message back.
LEMMA LifeIOPop ==
    ASSUME StillOpen, NEW c \in Clients, NEW m \in Msgs, NEW op \in Ops,
           IOPop(c, m, op)
    PROVE  Life!Finish(m, c) \/ Life!Take(m, c)
<1>1. PICK o \in Objs : /\ o = inFlightMessages[m] /\ ID(o) = m
                         /\ IOBecomes(c, "popped", op, o) /\ ioPC[c] = "idle"
  BY DEF IOPop, popInFlightMessage, InFlightOwner, StillOpen, TypeOK,
         FlightOK, ObjsOf
<1>2. /\ InFlightOwner(c, m)
      /\ inFlightMessages' = [inFlightMessages EXCEPT ![m] = NoObj]
      /\ UNCHANGED <<clientID, deferredMessages>>
      /\ fate' = IF op = "FIN" THEN [fate EXCEPT ![m] = "done"] ELSE fate
  BY DEF IOPop, popInFlightMessage, deferVars
<1>3. Place(m) = "flight" /\ Owner(m) = {c}
  BY <1>2, Reads DEF StillOpen, Legible
<1>4. /\ \A d \in Clients : \A n \in Msgs : n # m => SameHand(d, n)
      /\ op # "FIN" => IOHolds(c, m)'
      /\ op = "FIN" => FINHolds(c, m)'
  BY <1>1, Constants
  DEF StillOpen, TypeOK, IoOK, IOBecomes, SameHand, IOHolds, FINHolds
<1>5. \A n \in Msgs : n # m => Stay(n)
  BY <1>2, <1>4
  DEF Stay, FlightKept, InDeferred, StillOpen, TypeOK, FlightOK, HistoryOK
<1>6. CASE op = "FIN"
  <2>1. fate'[m] = "done"
    BY <1>2, <1>6 DEF StillOpen, TypeOK, HistoryOK
  <2>2. \A d \in Clients : FINHolds(d, m)' <=> d = c
    BY <1>4, <1>6 DEF StillOpen, Finished
  <2>3. Place(m)' = "done" /\ Owner(m)' = {c}
    BY <2>1, <2>2, ReadsNext DEF StillOpen, Legible
  <2> QED
    BY <1>3, <1>5, <2>3, OneMoves DEF Life!Finish
<1>7. CASE op # "FIN"
  <2>1. Place(m)' = "command" /\ Owner(m)' = {c}
    BY <1>4, <1>7, ReadsNext DEF StillOpen, Legible
  <2> QED
    BY <1>3, <1>5, <2>1, OneMoves DEF Life!Take
<1> QED
  BY <1>6, <1>7

\* The heap's turn: FIN is done with its message, the others go on.
LEMMA LifeIORemovePQ ==
    ASSUME StillOpen, NEW c \in Clients, IORemovePQ(c)
    PROVE  UNCHANGED LifeVars \/ \E m \in Msgs : Life!Settle(m, c)
<1>1. /\ ioPC[c] = "popped" /\ ioObj[c] \in Objs
      /\ UNCHANGED <<fate, inFlightMessages, deferredMessages, clientID>>
  BY DEF IORemovePQ, deferVars, StillOpen, TypeOK, IoOK
<1>2. CASE ioOp[c] # "FIN"
  <2>1. \A d \in Clients : \A n \in Msgs : SameHand(d, n)
    BY <1>2 DEF IORemovePQ, IOGoto, IOBecomes, TypeOK, IoOK, SameHand,
                IOHolds, FINHolds, StillOpen
  <2> QED
    BY <1>1, <2>1, Unnoticed
<1>3. CASE ioOp[c] = "FIN"
  <2>1. PICK m \in Msgs : m = ID(ioObj[c])
    BY <1>1, IDType
  <2>2. IOBecomes(c, "settling", "FIN", NoObj)
    BY <1>3 DEF IORemovePQ, IOSettling
  <2>3. /\ FINHolds(c, m) /\ ~FINHolds(c, m)'
        /\ \A d \in Clients : d # c => SameHand(d, m)
        /\ \A n \in Msgs : n # m => \A d \in Clients : SameHand(d, n)
    BY <1>1, <1>3, <2>1, <2>2
    DEF IOBecomes, TypeOK, IoOK, SameHand, IOHolds, FINHolds, StillOpen
  <2>4. fate[m] = "done" /\ \A d \in Clients : FINHolds(d, m) => d = c
    BY <2>3 DEF StillOpen, Finished
  <2>5. Place(m) = "done" /\ Owner(m) = {c}
    BY <2>3, <2>4, Reads DEF StillOpen, Legible
  <2>6. \A d \in Clients : ~FINHolds(d, m)'
    BY <2>3, <2>4 DEF SameHand
  <2>7. Place(m)' = "done" /\ Owner(m)' = {}
    BY <1>1, <2>4, <2>6, ReadsNext DEF StillOpen, Legible
  <2>8. \A n \in Msgs : n # m => Stay(n)
    BY <1>1, <2>3, DeferredFrame DEF Stay, FlightKept
  <2> QED
    BY <2>5, <2>7, <2>8, OneMoves DEF Life!Settle
<1> QED
  BY <1>2, <1>3

\* What a command that lets go of its message leaves behind.
LEMMA CommandGoes ==
    ASSUME StillOpen, NEW c \in Clients, ioPC[c] = "removed",
           ioOp[c] \in Commands \ {"FIN"},
           NEW pc \in {"idle", "settling", "deferring", "repushed"}, NEW op,
           NEW x, IOBecomes(c, pc, op, x)
    PROVE  \E m \in Msgs :
             /\ ioObj[c] \in Objs /\ ID(ioObj[c]) = m /\ clientID[ioObj[c]] = c
             /\ fate[m] = "live"
             /\ Place(m) = "command" /\ Owner(m) = {c}
             /\ ~InFlight(m) /\ ~InDeferred(m) /\ ~InIO(m)' /\ NoFIN(m)
             /\ \A n \in Msgs : n # m => \A d \in Clients : SameHand(d, n)
<1>1. PICK m \in Msgs : ioObj[c] \in Objs /\ m = ID(ioObj[c])
  BY IDType DEF StillOpen, TypeOK, IoOK
<1>2. IOHolds(c, m) /\ InIO(m)
  BY <1>1 DEF IOHolds, InIO
<1>3. Place(m) = "command" /\ Owner(m) = {c}
  BY <1>2, Reads DEF StillOpen, Legible
<1>4. fate[m] = "live" /\ ~InFlight(m) /\ ~InDeferred(m) /\ IOOnce(m)
  BY <1>2 DEF StillOpen, Custody, Held, HeldInOnePlace, HeldOnce
<1>5. clientID[ioObj[c]] = c
  BY DEF StillOpen, CommandOwner
<1>6. /\ \A n \in Msgs : n # m => \A d \in Clients : SameHand(d, n)
      /\ \A d \in Clients : d # c => SameHand(d, m)
      /\ ~IOHolds(c, m)' /\ ~FINHolds(c, m)'
  BY <1>1
  DEF StillOpen, TypeOK, IoOK, IOBecomes, SameHand, IOHolds, FINHolds
<1>7. ~InIO(m)'
  BY <1>2, <1>4, <1>6 DEF InIO, IOOnce, SameHand
<1>8. NoFIN(m)
  BY <1>6 DEF NoFIN, SameHand
<1> QED
  BY <1>1, <1>3, <1>4, <1>5, <1>6, <1>7, <1>8

\* REQ 0 requeues.
LEMMA LifeIORequeue ==
    ASSUME StillOpen, NEW c \in Clients, IORequeue(c)
    PROVE  \E m \in Msgs : Life!Requeue(m, c)
<1>1. /\ ioPC[c] = "removed" /\ ioOp[c] \in Commands \ {"FIN"}
      /\ IOBecomes(c, "settling", "FIN", NoObj) /\ put(ioObj[c])
      /\ UNCHANGED <<inFlightMessages, deferredMessages, clientID>>
  BY DEF IORequeue, IOSettling, StillOpen, Commands, flightVars, deferVars
<1>2. PICK m \in Msgs :
             /\ ioObj[c] \in Objs /\ ID(ioObj[c]) = m /\ clientID[ioObj[c]] = c
             /\ fate[m] = "live"
             /\ Place(m) = "command" /\ Owner(m) = {c}
             /\ ~InFlight(m) /\ ~InDeferred(m) /\ ~InIO(m)' /\ NoFIN(m)
             /\ \A n \in Msgs : n # m => \A d \in Clients : SameHand(d, n)
  BY <1>1, CommandGoes
<1>3. \A n \in Msgs : FlightKept(n) /\ (InDeferred(n)' <=> InDeferred(n))
  BY <1>1, DeferredFrame DEF FlightKept
<1>4. Life!Waits(m)
  BY <1>1, <1>2, <1>3, PutWaits
<1> QED
  BY <1>2, <1>4 DEF Life!Requeue

\* REQ with a timeout defers.
LEMMA LifeIODefer ==
    ASSUME StillOpen, NEW c \in Clients, IODefer(c)
    PROVE  \E m \in Msgs : Life!Defer(m, c)
<1>1. /\ ioPC[c] = "removed" /\ ioOp[c] \in Commands \ {"FIN"}
      /\ UNCHANGED <<fate, inFlightMessages, clientID>>
  BY DEF IODefer, Commands, flightVars
<1>2. PICK pc, op, x : /\ pc \in {"idle", "settling", "deferring", "repushed"}
                       /\ IOBecomes(c, pc, op, x)
  BY DEF IODefer, IODone, IOGoto
<1>3. PICK m \in Msgs :
             /\ ioObj[c] \in Objs /\ ID(ioObj[c]) = m /\ clientID[ioObj[c]] = c
             /\ fate[m] = "live"
             /\ Place(m) = "command" /\ Owner(m) = {c}
             /\ ~InFlight(m) /\ ~InDeferred(m) /\ ~InIO(m)' /\ NoFIN(m)
             /\ \A n \in Msgs : n # m => \A d \in Clients : SameHand(d, n)
  BY <1>1, <1>2, CommandGoes
<1>4. deferredMessages' = [deferredMessages EXCEPT ![m] = ioObj[c]]
  BY <1>3 DEF IODefer, pushDeferredMessage, InDeferred
<1>5. /\ InDeferred(m)'
      /\ \A n \in Msgs : n # m => (InDeferred(n)' <=> InDeferred(n))
  BY <1>3, <1>4, Constants DEF InDeferred, StillOpen, TypeOK, DeferOK
<1>6. \A n \in Msgs : n # m => Stay(n)
  BY <1>1, <1>3, <1>5 DEF Stay, FlightKept
<1>7. Place(m)' = "deferred" /\ Owner(m)' = {}
  BY <1>5, ReadsNext DEF StillOpen, Legible
<1> QED
  BY <1>3, <1>6, <1>7, OneMoves DEF Life!Defer

\* TOUCH gives the message back to its client.
LEMMA LifeIOTouchPush ==
    ASSUME StillOpen, NEW c \in Clients, IOTouchPush(c)
    PROVE  \E m \in Msgs : Life!Touch(m, c)
<1>1. /\ ioPC[c] = "removed" /\ ioOp[c] \in Commands \ {"FIN"}
      /\ UNCHANGED <<fate, deferredMessages, clientID>>
  BY DEF IOTouchPush, Commands, deferVars
<1>2. PICK pc, op, x : /\ pc \in {"idle", "settling", "deferring", "repushed"}
                       /\ IOBecomes(c, pc, op, x)
  BY DEF IOTouchPush, IODone, IOGoto
<1>3. PICK m \in Msgs :
             /\ ioObj[c] \in Objs /\ ID(ioObj[c]) = m /\ clientID[ioObj[c]] = c
             /\ fate[m] = "live"
             /\ Place(m) = "command" /\ Owner(m) = {c}
             /\ ~InFlight(m) /\ ~InDeferred(m) /\ ~InIO(m)' /\ NoFIN(m)
             /\ \A n \in Msgs : n # m => \A d \in Clients : SameHand(d, n)
  BY <1>1, <1>2, CommandGoes
<1>4. inFlightMessages' = [inFlightMessages EXCEPT ![m] = ioObj[c]]
  BY <1>3 DEF IOTouchPush, pushInFlightMessage, InFlight
<1>5. /\ InFlightOwner(c, m)'
      /\ \A n \in Msgs : n # m => FlightKept(n)
  BY <1>1, <1>3, <1>4, Constants
  DEF InFlightOwner, FlightKept, StillOpen, TypeOK, FlightOK
<1>6. \A n \in Msgs : n # m => Stay(n)
  BY <1>1, <1>3, <1>5, DeferredFrame DEF Stay
<1>7. Place(m)' = "flight" /\ Owner(m)' = {c}
  BY <1>5, ReadsNext DEF StillOpen, Legible
<1> QED
  BY <1>3, <1>6, <1>7, OneMoves DEF Life!Touch

\* A timeout makes a message in flight wait again.
LEMMA LifeScanPop ==
    ASSUME StillOpen, ScanPop
    PROVE  UNCHANGED LifeVars \/ \E m \in Msgs : Life!TimeOut(m)
<1>1. PICK m \in Msgs : m = ID(scanObj) /\ scanObj \in Objs /\ scanPC = "owned"
  BY IDType DEF ScanPop, StillOpen, TypeOK, ScanOK
<1>2. UNCHANGED <<fate, deferredMessages, clientID, ioVars>>
  BY DEF ScanPop, deferVars
<1>3. CASE UNCHANGED inFlightMessages
  BY <1>2, <1>3, HandsUnchanged, Unnoticed
<1>4. CASE /\ InFlightOwner(scanClient, m)
           /\ inFlightMessages' = [inFlightMessages EXCEPT ![m] = NoObj]
  <2>1. InFlight(m)
    BY <1>4 DEF InFlight, InFlightOwner
  <2>2. Place(m) = "flight"
    BY <2>1, Reads DEF StillOpen, Legible
  <2>3. fate[m] = "live" /\ ~InDeferred(m) /\ ~InIO(m)
    BY <2>1 DEF StillOpen, Custody, Held, HeldInOnePlace
  <2>4. ~InFlight(m)' /\ \A n \in Msgs : n # m => FlightKept(n)
    BY <1>2, <1>4 DEF InFlight, FlightKept, StillOpen, TypeOK, FlightOK
  <2>5. fate'[m] = "live" /\ ~InDeferred(m)' /\ ~InIO(m)'
    BY <1>2, <2>3, DeferredFrame, HandsUnchanged, NoHand
  <2>6. Place(m)' = "queued" /\ Owner(m)' = {}
    BY <2>4, <2>5, ReadsNext DEF StillOpen, Legible
  <2>7. \A n \in Msgs : n # m => Stay(n)
    BY <1>2, <2>4, DeferredFrame, HandsUnchanged DEF Stay
  <2> QED
    BY <2>2, <2>6, <2>7, OneMoves DEF Life!TimeOut
<1> QED
  BY <1>1, <1>3, <1>4 DEF ScanPop, popInFlightMessage

\* The end of a delay makes a message wait.
LEMMA LifeScanPopDeferred ==
    ASSUME StillOpen, ScanPopDeferred
    PROVE  UNCHANGED LifeVars \/ \E m \in Msgs : Life!TimeOut(m)
<1>1. PICK m \in Msgs : m = ID(scanObj) /\ scanObj \in Objs
  BY IDType DEF ScanPopDeferred, StillOpen, TypeOK, ScanOK
<1>2. UNCHANGED <<fate, inFlightMessages, clientID, ioVars>>
  BY DEF ScanPopDeferred, flightVars
<1>3. CASE UNCHANGED deferredMessages
  BY <1>2, <1>3, HandsUnchanged, Unnoticed
<1>4. CASE /\ deferredMessages[m] # NoObj
           /\ deferredMessages' = [deferredMessages EXCEPT ![m] = NoObj]
  <2>1. InDeferred(m)
    BY <1>4 DEF InDeferred
  <2>2. Place(m) = "deferred"
    BY <2>1, Reads DEF StillOpen, Legible
  <2>3. fate[m] = "live" /\ ~InFlight(m) /\ ~InIO(m)
    BY <2>1 DEF StillOpen, Custody, Held, HeldInOnePlace
  <2>4. /\ ~InDeferred(m)'
        /\ \A n \in Msgs : n # m => (InDeferred(n)' <=> InDeferred(n))
    BY <1>4 DEF InDeferred, StillOpen, TypeOK, DeferOK
  <2>5. fate'[m] = "live" /\ ~InFlight(m)' /\ ~InIO(m)'
    BY <1>2, <2>3, FlightFrame, HandsUnchanged, NoHand
  <2>6. Place(m)' = "queued" /\ Owner(m)' = {}
    BY <2>4, <2>5, ReadsNext DEF StillOpen, Legible
  <2>7. \A n \in Msgs : n # m => Stay(n)
    BY <1>2, <2>4, HandsUnchanged DEF Stay, FlightKept
  <2> QED
    BY <2>2, <2>6, <2>7, OneMoves DEF Life!TimeOut
<1> QED
  BY <1>1, <1>3, <1>4 DEF ScanPopDeferred

\* A message that timed out goes on waiting, or has no room.
LEMMA LifeScanPut ==
    ASSUME StillOpen, ScanPut
    PROVE  UNCHANGED LifeVars \/ \E m \in Msgs : Life!Drop(m)
<1>1. PICK m \in Msgs : m = ID(scanObj) /\ scanObj \in Objs
  BY IDType DEF ScanPut, StillOpen, TypeOK, ScanOK
<1>2. /\ put(scanObj)
      /\ UNCHANGED <<inFlightMessages, deferredMessages, clientID, ioVars>>
  BY DEF ScanPut, flightVars, deferVars
<1>3. InScan(m)
  BY <1>1 DEF InScan, ScanPut
<1>4. /\ fate[m] = "live" /\ ~InFlight(m) /\ ~InDeferred(m) /\ ~InIO(m)
      /\ Place(m) = "queued" /\ Owner(m) = {}
  BY <1>3, Reads DEF StillOpen, Custody, Held, HeldInOnePlace, Legible
<1>5. /\ \A n \in Msgs : FlightKept(n) /\ (InDeferred(n)' <=> InDeferred(n))
      /\ \A c \in Clients : \A n \in Msgs : SameHand(c, n)
  BY <1>2, DeferredFrame, HandsUnchanged DEF FlightKept
<1>6. \A n \in Msgs : n # m => fate'[n] = fate[n]
  BY <1>1, <1>2, <1>4, PutSettles DEF StillOpen
<1>7. \A n \in Msgs : n # m => Stay(n)
  BY <1>5, <1>6 DEF Stay
<1>8. CASE fate'[m] = "live"
  BY <1>4, <1>5, <1>7, <1>8, NoneMoves DEF Stay
<1>9. CASE fate'[m] = "done"
  <2>1. Place(m)' = "done" /\ Owner(m)' = {}
    BY <1>4, <1>5, <1>9, DoneUnowned DEF NoFIN, SameHand
  <2> QED
    BY <1>4, <1>7, <2>1, OneMoves DEF Life!Drop
<1> QED
  BY <1>1, <1>2, <1>4, <1>8, <1>9, PutSettles DEF StillOpen

(***************************************************************************)
(* Empty, which may discard several messages in one step.                  *)
(***************************************************************************)

\* The in-flight half of initPQ.
LEMMA LifeEmptyInFlight ==
    ASSUME StillOpen, NEW pc, EmptyInFlight(pc)
    PROVE  \E S \in SUBSET Msgs : Life!Empty(S)
<1> DEFINE S == InMap(inFlightMessages)
<1>1. /\ S \in SUBSET Msgs /\ fate' = Discarded(S)
      /\ inFlightMessages' = [n \in Msgs |-> NoObj]
      /\ UNCHANGED <<clientID, deferredMessages, ioVars>>
  BY DEF EmptyInFlight, InMap, deferVars, procVars
<1>2. \A n \in S : Held(n) /\ ~InIO(n)
  BY DEF InMap, InFlight, Held, StillOpen, Custody, HeldInOnePlace
<1>3. \A n \in Msgs \ S : Stay(n)
  BY <1>1, DeferredFrame, HandsUnchanged DEF InMap, Stay, FlightKept, Discarded
<1>4. Life!Empty(S)
  BY <1>1, <1>2, <1>3, SomeEmptied
<1> QED
  BY <1>1, <1>4

\* The deferred half of initPQ.
LEMMA LifeEmptyDeferred ==
    ASSUME StillOpen, EmptyDeferred
    PROVE  \E S \in SUBSET Msgs : Life!Empty(S)
<1> DEFINE S == InMap(deferredMessages)
<1>1. /\ S \in SUBSET Msgs /\ fate' = Discarded(S)
      /\ deferredMessages' = [n \in Msgs |-> NoObj]
      /\ UNCHANGED <<clientID, inFlightMessages, ioVars>>
  BY DEF EmptyDeferred, InMap, flightVars, procVars
<1>2. \A n \in S : Held(n) /\ ~InIO(n)
  BY DEF InMap, InDeferred, Held, StillOpen, Custody, HeldInOnePlace
<1>3. \A n \in Msgs \ S : Stay(n)
  BY <1>1, HandsUnchanged DEF InMap, Stay, FlightKept, Discarded, InDeferred
<1>4. Life!Empty(S)
  BY <1>1, <1>2, <1>3, SomeEmptied
<1> QED
  BY <1>1, <1>4

\* One message that is drained from the memory channel.
LEMMA LifeEmptyDrain ==
    ASSUME StillOpen, EmptyDrain
    PROVE  \E S \in SUBSET Msgs : Life!Empty(S)
<1> DEFINE S == {ID(Head(memoryMsgChan))}
<1>1. /\ memoryMsgChan # <<>> /\ memoryMsgChan \in Seq(Objs)
      /\ Head(memoryMsgChan) \in Objs
  BY DEF EmptyDrain, StillOpen, TypeOK, QueueOK
<1>2. /\ S \in SUBSET Msgs /\ fate' = Discarded(S)
      /\ UNCHANGED <<clientID, inFlightMessages, deferredMessages, ioVars>>
  BY <1>1, IDType DEF EmptyDrain, flightVars, deferVars, procVars
<1>3. InMem(ID(Head(memoryMsgChan)))
  BY <1>1 DEF InMem
<1>4. \A n \in S : Held(n) /\ ~InIO(n)
  BY <1>2, <1>3 DEF Held, StillOpen, Custody, HeldInOnePlace
<1>5. \A n \in Msgs \ S : Stay(n)
  BY <1>2, HandsUnchanged DEF Stay, FlightKept, Discarded, InDeferred
<1>6. Life!Empty(S)
  BY <1>2, <1>4, <1>5, SomeEmptied
<1> QED
  BY <1>2, <1>6

\* All that the backend has.
LEMMA LifeEmptyBackend ==
    ASSUME StillOpen, EmptyBackend
    PROVE  \E S \in SUBSET Msgs : Life!Empty(S)
<1> DEFINE S == {m \in Msgs : backend[m] > 0}
<1>1. /\ S \in SUBSET Msgs /\ fate' = Discarded(S)
      /\ UNCHANGED <<clientID, inFlightMessages, deferredMessages, ioVars>>
  BY DEF EmptyBackend, flightVars, deferVars, procVars
<1>2. \A n \in S : Held(n) /\ ~InIO(n)
  BY DEF OnDisk, Held, StillOpen, Custody, HeldInOnePlace
<1>3. \A n \in Msgs \ S : Stay(n)
  BY <1>1, HandsUnchanged DEF Stay, FlightKept, Discarded, InDeferred
<1>4. Life!Empty(S)
  BY <1>1, <1>2, <1>3, SomeEmptied
<1> QED
  BY <1>1, <1>4

(***************************************************************************)
(* The invariant, and the refinement.                                      *)
(***************************************************************************)

CommandInv == ~exitFlag => CommandOwner /\ \A n \in Msgs : Finished(n)

\* Only exit and the end of its Empty change exitPC, and only Close and Delete
\* set the flag.
LEMMA ExitSteps ==
    ASSUME [Next]_vars
    PROVE  \/ UNCHANGED <<exitFlag, exitPC>>
           \/ Close \/ Delete \/ DeleteEmpties \/ CloseClients
           \/ FlushMem \/ FlushInFlight \/ FlushDeferred \/ EmptyBackend
<1>1. CASE TopicNext
  BY <1>1 DEF TopicNext, PutMessage, PutMessageDeferred,
      TopicAddToDeferredPQ, exitVars
<1>2. ASSUME NEW c \in Clients, PumpNext(c) PROVE UNCHANGED <<exitFlag, exitPC>>
  BY <1>2 DEF PumpNext, PumpReceiveMem, PumpReceiveBackend, PumpPush,
      PumpAddToPQ, PumpSend, PumpExit, exitVars
<1>3. ASSUME NEW c \in Clients, IONext(c) PROVE UNCHANGED <<exitFlag, exitPC>>
  BY <1>3 DEF IONext, IOStep, IOPop, IORemovePQ, IORequeue, IODefer,
      IOAddToDeferredPQ, IOTouchPush, IOTouchAddToPQ, IOSettle, exitVars
<1>4. ASSUME NEW c \in Clients, SubNext(c) PROVE UNCHANGED <<exitFlag, exitPC>>
  BY <1>4 DEF SubNext, AddClientCheck, AddClientInsert, SUB, Disconnect,
      RemoveClient, exitVars
<1>5. CASE ScanNext
  BY <1>5 DEF ScanNext, ScanStep, ScanShift, ScanShiftDeferred,
      ScanReadOwner, ScanPop, ScanTimedOut, ScanPut, ScanPopDeferred, exitVars
<1>6. CASE Empty \/ EmptyDeferred \/ EmptyClients \/ EmptyDrain
  BY <1>6 DEF Empty, EmptyInFlight, EmptyDeferred, EmptyClients, EmptyDrain,
      exitVars
<1>7. CASE UNCHANGED vars
  BY <1>7 DEF vars, exitVars
<1> QED
  BY <1>1, <1>2, <1>3, <1>4, <1>5, <1>6, <1>7 DEF Next, AdminNext

\* exit is never undone.
LEMMA ExitStays ==
    ASSUME TypeOK, [Next]_vars, exitFlag PROVE exitFlag'
<1>1. CASE UNCHANGED exitFlag
  BY <1>1 DEF TypeOK, ExitOK
<1>2. CASE Close \/ Delete
  BY <1>2 DEF Close, Delete, BeginExit
<1>3. CASE \/ DeleteEmpties \/ CloseClients \/ FlushMem \/ FlushInFlight
           \/ FlushDeferred \/ EmptyBackend
  BY <1>1, <1>3 DEF DeleteEmpties, EmptyInFlight, CloseClients, FlushMem,
      FlushInFlight, FlushDeferred, EmptyBackend
<1> QED
  BY <1>1, <1>2, <1>3, ExitSteps

\* The step of a pump that marks a message as its client's marks none that
\* a command holds, and neither does a new object.
LEMMA CommandKept ==
    ASSUME TypeOK, CommandOwner, UNCHANGED ioVars,
           \A c \in Clients : ioPC[c] \in {"popped", "removed"} /\ ioOp[c] # "FIN"
              => clientID'[ioObj[c]] = clientID[ioObj[c]]
    PROVE  CommandOwner'
BY DEF CommandOwner, ioVars

LEMMA CommandAllocated ==
    ASSUME TypeOK, CommandOwner, UNCHANGED ioVars, NEW o \in Objs, Allocated(o)
    PROVE  CommandOwner'
<1>1. \A c \in Clients : ioObj[c] # o
  BY DEF Allocated, Referenced
<1>2. \A c \in Clients : ioPC[c] \in {"popped", "removed"} => ioObj[c] \in Objs
  BY DEF TypeOK, IoOK
<1>3. \A p \in Objs : p # o => clientID'[p] = clientID[p]
  BY DEF Allocated, TypeOK, FlightOK
<1> QED
  BY <1>1, <1>2, <1>3, CommandKept

\* A step of a command leaves it the owner of what it holds.
LEMMA CommandIO ==
    ASSUME TypeOK, CommandOwner, NEW c \in Clients, IONext(c)
    PROVE  CommandOwner'
<1>1. UNCHANGED clientID
  BY DEF IONext, IOStep, IOPop, IORemovePQ, IORequeue, IODefer,
         IOAddToDeferredPQ, IOTouchPush, IOTouchAddToPQ, IOSettle, flightVars
<1>2. ASSUME NEW pc, NEW op, NEW o, IOBecomes(c, pc, op, o),
             pc \in {"popped", "removed"} /\ op # "FIN" => clientID[o] = c
      PROVE  CommandOwner'
  BY <1>1, <1>2 DEF IOBecomes, CommandOwner, TypeOK, IoOK
<1>3. ASSUME NEW m \in Msgs, NEW op \in Ops, IOPop(c, m, op)
      PROVE  CommandOwner'
  BY <1>2, <1>3 DEF IOPop, popInFlightMessage, InFlightOwner
<1>4. CASE IORemovePQ(c)
  <2>1. CASE ioOp[c] = "FIN"
    BY <1>2, <1>4, <2>1 DEF IORemovePQ, IOSettling
  <2>2. CASE ioOp[c] # "FIN"
    BY <1>2, <1>4, <2>2 DEF IORemovePQ, IOGoto, CommandOwner
  <2> QED
    BY <2>1, <2>2
<1>5. CASE \/ IORequeue(c) \/ IODefer(c) \/ IOAddToDeferredPQ(c)
           \/ IOTouchPush(c) \/ IOTouchAddToPQ(c) \/ IOSettle(c)
  BY <1>2, <1>5
  DEF IORequeue, IODefer, IOAddToDeferredPQ, IOTouchPush, IOTouchAddToPQ,
      IOSettle, IODone, IOSettling, IOGoto
<1> QED
  BY <1>3, <1>4, <1>5 DEF IONext, IOStep

\* A pump pushes what no command holds.
LEMMA CommandPumpPush ==
    ASSUME TypeOK, CommandOwner, \A n \in Msgs : Custody(n),
           NEW c \in Clients, PumpPush(c)
    PROVE  CommandOwner'
<1>1. /\ pumpPC[c] = "received" /\ UNCHANGED ioVars
      /\ clientID' = [clientID EXCEPT ![pumpObj[c]] = c]
      /\ pumpObj[c] \in Objs
  BY DEF PumpPush, TypeOK, PumpOK
<1>2. ASSUME NEW d \in Clients, ioPC[d] \in {"popped", "removed"},
             ioOp[d] # "FIN"
      PROVE  clientID'[ioObj[d]] = clientID[ioObj[d]]
  <2>1. ioObj[d] \in Objs
    BY <1>2 DEF TypeOK, IoOK
  <2>2. PICK m \in Msgs : m = ID(ioObj[d])
    BY <2>1, IDType
  <2>3. InIO(m)
    BY <1>2, <2>2 DEF InIO, IOHolds
  <2>4. ~InPump(m)
    BY <2>3 DEF Custody, HeldInOnePlace
  <2>5. pumpObj[c] # ioObj[d]
    BY <1>1, <2>2, <2>4 DEF InPump, PumpHolds
  <2> QED
    BY <1>1, <2>1, <2>5 DEF TypeOK, FlightOK
<1> QED
  BY <1>1, <1>2, CommandKept

\* Every step leaves the commands the owners of what they hold.
LEMMA CommandOwnerStep ==
    ASSUME TypeOK, CustodyInv, CommandInv, [Next]_vars, ~exitFlag'
    PROVE  CommandOwner'
<1>1. CommandOwner /\ \A n \in Msgs : Custody(n)
  BY ExitStays DEF CommandInv, CustodyInv
<1>2. ASSUME UNCHANGED <<ioVars, clientID>> PROVE CommandOwner'
  BY <1>1, <1>2, CommandKept
<1>3. CASE TopicNext
  <2>1. ASSUME NEW m \in Msgs, PutMessage(m) PROVE CommandOwner'
    BY <1>1, <1>2, <2>1, CommandAllocated DEF PutMessage, procVars, ObjsOf
  <2>2. ASSUME NEW m \in Msgs, PutMessageDeferred(m) PROVE CommandOwner'
    BY <1>1, <2>2, CommandAllocated DEF PutMessageDeferred, ObjsOf
  <2>3. CASE TopicAddToDeferredPQ
    BY <1>2, <2>3 DEF TopicAddToDeferredPQ, flightVars
  <2> QED
    BY <1>3, <2>1, <2>2, <2>3 DEF TopicNext
<1>4. ASSUME NEW c \in Clients, PumpNext(c) PROVE CommandOwner'
  <2>1. ASSUME NEW m \in Msgs, PumpReceiveBackend(c, m) PROVE CommandOwner'
    BY <1>1, <1>2, <2>1, CommandAllocated DEF PumpReceiveBackend, ObjsOf
  <2>2. CASE PumpPush(c)
    BY <1>1, <2>2, CommandPumpPush
  <2>3. CASE \/ PumpReceiveMem(c) \/ PumpAddToPQ(c)
             \/ PumpSend(c) \/ PumpExit(c)
    BY <1>2, <2>3 DEF PumpReceiveMem, PumpAddToPQ, PumpSend, PumpExit, flightVars
  <2> QED
    BY <1>4, <2>1, <2>2, <2>3 DEF PumpNext
<1>5. ASSUME NEW c \in Clients, IONext(c) PROVE CommandOwner'
  BY <1>1, <1>5, CommandIO
<1>6. ASSUME NEW c \in Clients, SubNext(c) PROVE CommandOwner'
  BY <1>2, <1>6 DEF SubNext, AddClientCheck, AddClientInsert, SUB, Disconnect,
      RemoveClient, flightVars, procVars
<1>7. CASE ScanNext
  BY <1>2, <1>7 DEF ScanNext, ScanStep, ScanShift, ScanShiftDeferred,
      ScanReadOwner, ScanPop, ScanTimedOut, ScanPut, ScanPopDeferred, flightVars
<1>8. CASE AdminNext
  BY <1>2, <1>8 DEF AdminNext, Empty, EmptyInFlight, EmptyDeferred,
      EmptyClients, EmptyDrain, EmptyBackend, Close, BeginExit, CloseClients,
      FlushMem, FlushInFlight, FlushDeferred, Delete, DeleteEmpties,
      flightVars, procVars
<1>9. CASE UNCHANGED vars
  BY <1>2, <1>9 DEF vars, flightVars, procVars
<1> QED
  BY <1>3, <1>4, <1>5, <1>6, <1>7, <1>8, <1>9 DEF Next

\* put does not bring back a message that is done, ...
LEMMA PutDone ==
    ASSUME TypeOK, NEW o \in Objs, put(o), NEW n \in Msgs, fate[n] = "done"
    PROVE  fate'[n] = "done"
BY DEF put, Stored, TypeOK, HistoryOK

\* ... nor does any other step.
LEMMA DoneStays ==
    ASSUME TypeOK, [Next]_vars, NEW n \in Msgs, fate[n] = "done"
    PROVE  fate'[n] = "done"
<1>1. CASE UNCHANGED fate
  BY <1>1
<1>2. ASSUME NEW m \in Msgs, fate' = [fate EXCEPT ![m] = "done"]
      PROVE  fate'[n] = "done"
  BY <1>2 DEF TypeOK, HistoryOK
<1>3. ASSUME NEW S, fate' = Discarded(S) PROVE fate'[n] = "done"
  BY <1>3 DEF Discarded
<1>4. CASE TopicNext
  <2>1. ASSUME NEW m \in Msgs, PutMessage(m) PROVE fate'[n] = "done"
    BY <1>2, <2>1, PutDone DEF PutMessage, ObjsOf
  <2>2. ASSUME NEW m \in Msgs, PutMessageDeferred(m) PROVE fate'[n] = "done"
    BY <2>2 DEF PutMessageDeferred, TypeOK, HistoryOK
  <2> QED
    BY <1>1, <1>4, <2>1, <2>2 DEF TopicNext, TopicAddToDeferredPQ
<1>5. ASSUME NEW c \in Clients, PumpNext(c) PROVE fate'[n] = "done"
  <2>1. CASE PumpReceiveMem(c)
    <3>1. ID(Head(memoryMsgChan)) \in Msgs
      BY <2>1, IDType DEF PumpReceiveMem, TypeOK, QueueOK
    <3> QED
      BY <1>1, <1>2, <2>1, <3>1 DEF PumpReceiveMem, Sample
  <2> QED
    BY <1>1, <1>2, <1>5, <2>1
    DEF PumpNext, PumpReceiveBackend, Sample, PumpPush, PumpAddToPQ,
        PumpSend, PumpExit
<1>6. ASSUME NEW c \in Clients, IONext(c) PROVE fate'[n] = "done"
  <2>1. CASE IORequeue(c)
    <3>1. ioObj[c] \in Objs
      BY <2>1 DEF IORequeue, TypeOK, IoOK
    <3> QED
      BY <1>1, <2>1, <3>1, PutDone DEF IORequeue
  <2> QED
    BY <1>1, <1>2, <1>6, <2>1
    DEF IONext, IOStep, IOPop, IORemovePQ, IODefer, IOAddToDeferredPQ,
        IOTouchPush, IOTouchAddToPQ, IOSettle
<1>7. ASSUME NEW c \in Clients, SubNext(c) PROVE fate'[n] = "done"
  BY <1>1, <1>7 DEF SubNext, AddClientCheck, AddClientInsert, SUB, Disconnect,
      RemoveClient
<1>8. CASE ScanNext
  <2>1. CASE ScanPut
    <3>1. scanObj \in Objs
      BY <2>1 DEF ScanPut, TypeOK, ScanOK
    <3> QED
      BY <2>1, <3>1, PutDone DEF ScanPut
  <2> QED
    BY <1>1, <1>8, <2>1
    DEF ScanNext, ScanStep, ScanShift, ScanShiftDeferred, ScanReadOwner,
        ScanPop, ScanTimedOut, ScanPopDeferred
<1>9. CASE AdminNext
  BY <1>1, <1>3, <1>9
  DEF AdminNext, Empty, EmptyInFlight, EmptyDeferred, EmptyClients,
      EmptyDrain, EmptyBackend, Close, BeginExit, CloseClients, FlushMem,
      FlushInFlight, FlushDeferred, Delete, DeleteEmpties
<1>10. CASE UNCHANGED vars
  BY <1>1, <1>10 DEF vars
<1> QED
  BY <1>4, <1>5, <1>6, <1>7, <1>8, <1>9, <1>10 DEF Next

\* Only FIN takes a message for good.
LEMMA OnlyFINTakes ==
    ASSUME TypeOK, [Next]_vars
    PROVE  \/ \A n \in Msgs : NoFIN(n)
           \/ \E c \in Clients, m \in Msgs : IOPop(c, m, "FIN")
<1>1. ASSUME UNCHANGED ioVars PROVE \A n \in Msgs : NoFIN(n)
  BY <1>1, HandsUnchanged DEF NoFIN, SameHand
<1>2. CASE TopicNext
  BY <1>1, <1>2 DEF TopicNext, PutMessage, PutMessageDeferred,
      TopicAddToDeferredPQ, procVars
<1>3. ASSUME NEW c \in Clients, PumpNext(c) PROVE \A n \in Msgs : NoFIN(n)
  BY <1>1, <1>3 DEF PumpNext, PumpReceiveMem, PumpReceiveBackend, PumpPush,
      PumpAddToPQ, PumpSend, PumpExit
<1>4. ASSUME NEW c \in Clients, IONext(c),
             ~\E m \in Msgs : IOPop(c, m, "FIN")
      PROVE  \A n \in Msgs : NoFIN(n)
  <2>1. PICK pc, op, o : /\ IOBecomes(c, pc, op, o)
                         /\ pc # "popped" \/ op # "FIN"
    BY <1>4 DEF IONext, IOStep, IOPop, IORemovePQ, IORequeue, IODefer,
        IOAddToDeferredPQ, IOTouchPush, IOTouchAddToPQ, IOSettle, IODone,
        IOSettling, IOGoto
  <2> QED
    BY <2>1 DEF IOBecomes, NoFIN, FINHolds, TypeOK, IoOK
<1>5. ASSUME NEW c \in Clients, SubNext(c) PROVE \A n \in Msgs : NoFIN(n)
  BY <1>1, <1>5 DEF SubNext, AddClientCheck, AddClientInsert, SUB, Disconnect,
      RemoveClient, procVars
<1>6. CASE ScanNext
  BY <1>1, <1>6 DEF ScanNext, ScanStep, ScanShift, ScanShiftDeferred,
      ScanReadOwner, ScanPop, ScanTimedOut, ScanPut, ScanPopDeferred
<1>7. CASE AdminNext
  BY <1>1, <1>7 DEF AdminNext, Empty, EmptyInFlight, EmptyDeferred,
      EmptyClients, EmptyDrain, EmptyBackend, Close, BeginExit, CloseClients,
      FlushMem, FlushInFlight, FlushDeferred, Delete, DeleteEmpties, procVars
<1>8. CASE UNCHANGED vars
  BY <1>1, <1>8 DEF vars, procVars
<1> QED
  BY <1>2, <1>3, <1>4, <1>5, <1>6, <1>7, <1>8 DEF Next

\* A message that a FIN has taken is done, and no other FIN takes it.
LEMMA FinishedStep ==
    ASSUME TypeOK, CustodyInv, CommandInv, [Next]_vars, ~exitFlag',
           NEW n \in Msgs
    PROVE  Finished(n)'
<1>1. Finished(n) /\ Custody(n)
  BY ExitStays DEF CommandInv, CustodyInv
<1>2. CASE NoFIN(n)
  BY <1>1, <1>2, DoneStays DEF Finished, NoFIN
<1>3. ASSUME NEW c \in Clients, NEW m \in Msgs, IOPop(c, m, "FIN")
      PROVE  Finished(n)'
  <2>1. /\ inFlightMessages[m] \in ObjsOf(m) /\ InFlight(m)
        /\ IOBecomes(c, "popped", "FIN", inFlightMessages[m])
        /\ fate'[m] = "done"
    BY <1>3 DEF IOPop, popInFlightMessage, InFlightOwner, InFlight, TypeOK,
                FlightOK, HistoryOK
  <2>2. CASE n # m
    <3>1. NoFIN(n)
      BY <2>1, <2>2 DEF NoFIN, FINHolds, IOBecomes, ObjsOf, TypeOK, IoOK
    <3> QED
      BY <1>2, <3>1
  <2>3. CASE n = m
    <3>1. \A d \in Clients : ~FINHolds(d, n)
      BY <1>1, <2>1, <2>3 DEF Custody, Held, Finished
    <3>2. \A d \in Clients : FINHolds(d, n)' => d = c
      BY <2>1, <3>1 DEF FINHolds, IOBecomes, TypeOK, IoOK
    <3> QED
      BY <2>1, <2>3, <3>2 DEF Finished
  <2> QED
    BY <2>2, <2>3
<1> QED
  BY <1>2, <1>3, OnlyFINTakes

\* The invariant that MessageLife needs beside custody.
LEMMA CommandStep ==
    ASSUME TypeOK, CustodyInv, CommandInv, [Next]_vars
    PROVE  CommandInv'
BY CommandOwnerStep, FinishedStep DEF CommandInv

\* At first every message is new.
LEMMA LifeInit == Init => Life!MInit
<1> SUFFICES ASSUME Init PROVE Life!MInit
  OBVIOUS
<1>1. ~exitFlag /\ \A n \in Msgs : Custody(n)
  BY CustodyInit DEF CustodyInv, Init
<1>2. \A n \in Msgs : Place(n) = "new" /\ Owner(n) = {}
  BY <1>1, Reads DEF Legible, Finished, FINHolds, Init
<1> QED
  BY <1>1, <1>2 DEF Life!MInit

\* A step that leaves the channel open.
LEMMA LifeOpenStep ==
    ASSUME StillOpen, [Next]_vars
    PROVE  Life!MNext \/ UNCHANGED LifeVars
<1>1. CASE TopicNext
  BY <1>1, LifePutMessage, LifePutMessageDeferred, LifeUnnoticed
  DEF TopicNext, Life!MNext
<1>2. ASSUME NEW c \in Clients, PumpNext(c)
      PROVE  Life!MNext \/ UNCHANGED LifeVars
  BY <1>2, LifePumpReceiveMem, LifePumpReceiveBackend, LifePumpPush,
     LifeUnnoticed
  DEF PumpNext, Life!MNext
<1>3. ASSUME NEW c \in Clients, IONext(c)
      PROVE  Life!MNext \/ UNCHANGED LifeVars
  BY <1>3, LifeIOPop, LifeIORequeue, LifeIODefer, LifeIOTouchPush,
     LifeIORemovePQ, LifeIOUnnoticed
  DEF IONext, IOStep, Life!MNext
<1>4. ASSUME NEW c \in Clients, SubNext(c) PROVE UNCHANGED LifeVars
  BY <1>4, LifeUnnoticed
<1>5. CASE ScanNext
  BY <1>5, LifeScanPop, LifeScanPopDeferred, LifeScanPut, LifeUnnoticed
  DEF ScanNext, ScanStep, Life!MNext
<1>6. CASE AdminNext
  <2>1. CASE Empty \/ EmptyDeferred \/ EmptyDrain \/ EmptyBackend \/ DeleteEmpties
    BY <2>1, LifeEmptyInFlight, LifeEmptyDeferred, LifeEmptyDrain,
       LifeEmptyBackend
    DEF Empty, DeleteEmpties, Life!MNext
  <2>2. CASE EmptyClients
    BY <2>2, LifeUnnoticed
  <2>3. CASE \/ Close \/ CloseClients \/ FlushMem \/ FlushInFlight
             \/ FlushDeferred \/ Delete
    BY <2>3 DEF Close, Delete, BeginExit, CloseClients, FlushMem,
        FlushInFlight, FlushDeferred, StillOpen, TypeOK, ExitOK
  <2> QED
    BY <1>6, <2>1, <2>2, <2>3 DEF AdminNext
<1>7. CASE UNCHANGED vars
  BY <1>7, HandsUnchanged, Unnoticed DEF vars, flightVars, deferVars, procVars
<1> QED
  BY <1>1, <1>2, <1>3, <1>4, <1>5, <1>6, <1>7 DEF Next

\* The step that closes the channel moves nothing.
LEMMA LifeClose ==
    ASSUME TypeOK, [Next]_vars, ~exitFlag, exitFlag'
    PROVE  Life!Close
<1>1. Close \/ Delete
  BY ExitSteps DEF DeleteEmpties, EmptyInFlight, CloseClients, FlushMem,
      FlushInFlight, FlushDeferred, EmptyBackend
<1>2. UNCHANGED <<qVars, flightVars, deferVars, procVars, fate>>
  BY <1>1 DEF Close, Delete, BeginExit
<1>3. \A n \in Msgs : Place(n)' = Place(n) /\ Owner(n)' = Owner(n)
  BY <1>2 DEF Place, Stage, Owner, Held, InMem, OnDisk, InFlight, InDeferred,
      InPump, PumpHolds, InIO, IOHolds, FINHolds, InScan, InFlightOwner, ID, qVars,
      flightVars, deferVars, procVars, pumpVars, ioVars, scanVars
<1> QED
  BY <1>3 DEF Life!Close

\* Every step of the channel is one of MessageLife, or none.
LEMMA LifeStep ==
    ASSUME TypeOK, CustodyInv, CustodyInv', CommandInv, CommandInv', [Next]_vars
    PROVE  Life!MNext \/ UNCHANGED LifeVars
<1>1. CASE exitFlag
  BY <1>1, ExitStays DEF Life!Closed, Life!MNext
<1>2. CASE ~exitFlag /\ exitFlag'
  BY <1>2, LifeClose DEF Life!MNext
<1>3. CASE ~exitFlag /\ ~exitFlag'
  <2>1. StillOpen
    BY <1>3 DEF StillOpen, CustodyInv, CommandInv
  <2> QED
    BY <2>1, LifeOpenStep
<1> QED
  BY <1>1, <1>2, <1>3

\* The channel implements MessageLife: with any number of clients, messages
\* and objects, whatever the interleaving, until it exits a message is moved
\* only by those whom the protocol entitles to move it.
THEOREM LifeImplemented == Spec => ImplementsMessageLife
<1>1. Init => CommandInv /\ Life!MInit
  BY LifeInit DEF Init, CommandInv, CommandOwner, Finished, FINHolds
<1>2. TypeOK /\ CustodyInv /\ CommandInv /\ [Next]_vars => CommandInv'
  BY CommandStep
<1>3. /\ TypeOK /\ CustodyInv /\ CustodyInv' /\ CommandInv /\ CommandInv'
      /\ [Next]_vars
      => [Life!MNext]_(Life!mvars)
  BY LifeStep DEF Life!mvars, LifeVars
<1> QED
  BY <1>1, <1>2, <1>3, TypeCorrect, CustodyAlways, PTL
  DEF Spec, ImplementsMessageLife, Life!MSpec

(***************************************************************************)
(* Close.  While no client's goroutine has a message in its hand, flush    *)
(* walks the places in turn, and a live message is either in the backend,  *)
(* once, or in one of the places that flush has yet to come to.            *)
(***************************************************************************)

Closing == {"closing", "flush_mem", "flush_inflight", "flush_deferred",
            "closed"}

\* The maps stay as they are: what flush has passed counts no more.
FlightLeft(m) ==
    /\ exitPC \in {"closing", "flush_mem", "flush_inflight"}
    /\ InFlight(m)

DeferredLeft(m) == exitPC # "closed" /\ InDeferred(m)

Saved(m) ==
    /\ MemOnce(m)
    /\ InMem(m) => ~FlightLeft(m) /\ ~DeferredLeft(m)
    /\ FlightLeft(m) => ~DeferredLeft(m)
    /\ backend[m] =
        IF InMem(m) \/ FlightLeft(m) \/ DeferredLeft(m) THEN 0 ELSE 1

\* Neither the topic nor the scan worker comes back once Close has begun, and
\* flush leaves the memory channel empty for good.
CloseCalm ==
    exitPC \in Closing =>
        /\ topic = NoObj /\ scanPC = "idle"
        /\ exitPC \in {"closing", "flush_mem"} \/ memoryMsgChan = <<>>

AllSaved == \A m \in Msgs : fate[m] = "live" => Saved(m)

CloseInv == exitPC \in Closing /\ ~Ephemeral => CloseCalm /\ AllSaved

\* A step of a channel that is being closed, or is closed.
CloseStep ==
    /\ TypeOK
    /\ exitPC \in Closing /\ CloseCalm
    /\ HandsEmpty /\ HandsEmpty'

\* m is saved after the step if it was before.
Safe(m) ==
    fate'[m] = "live" =>
        /\ fate[m] = "live" /\ backend'[m] = backend[m]
        /\ InMem(m)' <=> InMem(m)
        /\ MemOnce(m) => MemOnce(m)'
        /\ InFlight(m)' <=> InFlight(m)
        /\ InDeferred(m)' <=> InDeferred(m)

\* A step that flush does not take, and that leaves every message as safe as
\* it was.
LEMMA SafeSaved ==
    ASSUME CloseStep, UNCHANGED <<exitPC, topic, scanPC>>,
           UNCHANGED memoryMsgChan
              \/ (memoryMsgChan # <<>> /\ exitPC \in {"closing", "flush_mem"})
              \/ memoryMsgChan' = <<>>,
           \A m \in Msgs : Safe(m)
    PROVE  CloseCalm' /\ (AllSaved => AllSaved')
<1>1. CloseCalm'
  BY DEF CloseStep, CloseCalm
<1>2. ASSUME AllSaved, NEW m \in Msgs, fate'[m] = "live" PROVE Saved(m)'
  <2>1. Saved(m) /\ Safe(m)
    BY <1>2 DEF AllSaved, Safe
  <2>2. /\ FlightLeft(m)' <=> FlightLeft(m)
        /\ DeferredLeft(m)' <=> DeferredLeft(m)
    BY <1>2, <2>1 DEF Safe, FlightLeft, DeferredLeft
  <2> QED
    BY <1>2, <2>1, <2>2 DEF Safe, Saved
<1> QED
  BY <1>1, <1>2 DEF AllSaved

\* The steps that move no message.
LEMMA CloseStill ==
    ASSUME CloseStep,
           \/ EmptyClients
           \/ \E c \in Clients :
                \/ PumpAddToPQ(c) \/ PumpSend(c) \/ PumpExit(c) \/ SubNext(c)
                \/ IORemovePQ(c) \/ IOAddToDeferredPQ(c) \/ IOTouchAddToPQ(c)
                \/ IOSettle(c)
           \/ UNCHANGED vars
    PROVE  CloseCalm' /\ (AllSaved => AllSaved')
<1>1. UNCHANGED <<fate, memoryMsgChan, backend, inFlightMessages,
                  deferredMessages, exitPC, topic, scanPC>>
  BY DEF EmptyClients, PumpAddToPQ, PumpSend, PumpExit, SubNext,
         AddClientCheck, AddClientInsert, SUB, Disconnect, RemoveClient,
         IORemovePQ, IOAddToDeferredPQ, IOTouchAddToPQ, IOSettle, vars, qVars,
         flightVars, deferVars, exitVars, procVars, scanVars
<1>2. \A m \in Msgs : Safe(m)
  BY <1>1, MemFrame, FlightFrame, DeferredFrame DEF Safe
<1> QED
  BY <1>1, <1>2, SafeSaved

\* The steps nobody can take any more: the topic's, the scan worker's, those
\* of a goroutine with a message in its hand, and a second exit.
LEMMA CloseNever ==
    ASSUME CloseStep,
           \/ TopicNext \/ ScanNext \/ Close \/ Delete \/ DeleteEmpties
           \/ \E c \in Clients : PumpPush(c) \/ IORequeue(c) \/ IODefer(c)
                                 \/ IOTouchPush(c)
    PROVE  FALSE
<1>1. exitFlag /\ topic = NoObj /\ scanPC = "idle"
  BY DEF CloseStep, CloseCalm, Closing, TypeOK, ExitOK
<1>2. ~TopicNext
  BY <1>1 DEF TopicNext, PutMessage, PutMessageDeferred, TopicAddToDeferredPQ,
              TopicPumpRunning, CloseStep, Closing
<1>3. ~ScanNext
  BY <1>1 DEF ScanNext, ScanStep, ScanShift, ScanShiftDeferred, ScanMayStart,
              ScanReadOwner, ScanPop, ScanTimedOut, ScanPut, ScanPopDeferred
<1>4. ~Close /\ ~Delete /\ ~DeleteEmpties
  BY DEF Close, Delete, BeginExit, DeleteEmpties, CloseStep, Closing
<1>5. ASSUME NEW c \in Clients, PumpPush(c) PROVE FALSE
  <2>1. pumpPC[c] = "received" /\ ID(pumpObj[c]) \in Msgs
    BY <1>5, IDType DEF PumpPush, CloseStep, TypeOK, PumpOK
  <2> QED
    BY <2>1 DEF CloseStep, HandsEmpty, InPump, PumpHolds
<1>6. ASSUME NEW c \in Clients, IORequeue(c) \/ IODefer(c) \/ IOTouchPush(c)
      PROVE  FALSE
  <2>1. ioPC[c] = "removed" /\ ioOp[c] # "FIN" /\ ID(ioObj[c]) \in Msgs
    BY <1>6, IDType
    DEF IORequeue, IODefer, IOTouchPush, CloseStep, TypeOK, IoOK
  <2> QED
    BY <2>1 DEF CloseStep, HandsEmpty, InIO, IOHolds
<1> QED
  BY <1>2, <1>3, <1>4, <1>5, <1>6

\* A pump can receive a message only to throw it away.
LEMMA CloseReceiveMem ==
    ASSUME CloseStep, NEW c \in Clients, PumpReceiveMem(c)
    PROVE  CloseCalm' /\ (AllSaved => AllSaved')
<1>1. /\ memoryMsgChan # <<>> /\ memoryMsgChan \in Seq(Objs)
      /\ Head(memoryMsgChan) \in Objs /\ memoryMsgChan' = Tail(memoryMsgChan)
      /\ UNCHANGED <<backend, inFlightMessages, deferredMessages, exitPC,
                     topic, scanPC>>
  BY DEF PumpReceiveMem, flightVars, deferVars, exitVars, scanVars, CloseStep,
         TypeOK, QueueOK
<1>2. PICK m \in Msgs : m = ID(Head(memoryMsgChan))
  BY <1>1, IDType
<1>3. /\ \A n \in Msgs : n # m => (InMem(n)' <=> InMem(n))
      /\ \A n \in Msgs : MemOnce(n) => MemOnce(n)'
  BY <1>1, <1>2, MemTail
<1>4. ~PumpGoto(c, "received", Head(memoryMsgChan))
  <2>1. SUFFICES ASSUME PumpGoto(c, "received", Head(memoryMsgChan))
                 PROVE  FALSE
    OBVIOUS
  <2>2. PumpHolds(c, m)'
    BY <1>2, <2>1 DEF PumpGoto, PumpHolds, CloseStep, TypeOK, PumpOK
  <2> QED
    BY <2>2 DEF CloseStep, HandsEmpty, InPump
<1>5. fate' = [fate EXCEPT ![m] = "done"]
  BY <1>2, <1>4 DEF PumpReceiveMem, Sample
<1>6. \A n \in Msgs : Safe(n)
  BY <1>1, <1>3, <1>5, FlightFrame, DeferredFrame
  DEF Safe, CloseStep, TypeOK, HistoryOK
<1> QED
  BY <1>1, <1>6, SafeSaved DEF CloseStep, CloseCalm

\* The same from the backend.
LEMMA CloseReceiveBackend ==
    ASSUME CloseStep, NEW c \in Clients, NEW m \in Msgs,
           PumpReceiveBackend(c, m)
    PROVE  CloseCalm' /\ (AllSaved => AllSaved')
<1>1. /\ backend' = [backend EXCEPT ![m] = @ - 1]
      /\ UNCHANGED <<memoryMsgChan, inFlightMessages, deferredMessages,
                     exitPC, topic, scanPC>>
  BY DEF PumpReceiveBackend, deferVars, exitVars, scanVars
<1>2. ASSUME NEW o \in ObjsOf(m), PumpGoto(c, "received", o) PROVE FALSE
  <2>1. PumpHolds(c, m)'
    BY <1>2 DEF PumpGoto, PumpHolds, ObjsOf, CloseStep, TypeOK, PumpOK
  <2> QED
    BY <2>1 DEF CloseStep, HandsEmpty, InPump
<1>3. fate' = [fate EXCEPT ![m] = "done"]
  BY <1>2 DEF PumpReceiveBackend, Sample
<1>4. \A n \in Msgs : Safe(n)
  BY <1>1, <1>3, MemFrame, FlightFrame, DeferredFrame
  DEF Safe, CloseStep, TypeOK, HistoryOK, QueueOK
<1> QED
  BY <1>1, <1>4, SafeSaved

\* A client can still finish what it has in flight.
LEMMA CloseIOPop ==
    ASSUME CloseStep, NEW c \in Clients, NEW m \in Msgs, NEW op \in Ops,
           IOPop(c, m, op)
    PROVE  CloseCalm' /\ (AllSaved => AllSaved')
<1>1. /\ inFlightMessages' = [inFlightMessages EXCEPT ![m] = NoObj]
      /\ inFlightMessages[m] \in ObjsOf(m)
      /\ UNCHANGED <<memoryMsgChan, backend, deferredMessages, exitPC, topic,
                     scanPC>>
  BY DEF IOPop, popInFlightMessage, InFlightOwner, qVars, deferVars, exitVars,
         scanVars, CloseStep, TypeOK, FlightOK
<1>2. op = "FIN"
  <2>1. op # "FIN" => IOHolds(c, m)'
    BY <1>1 DEF IOPop, IOBecomes, IOHolds, ObjsOf, CloseStep, TypeOK, IoOK
  <2> QED
    BY <2>1 DEF CloseStep, HandsEmpty, InIO
<1>3. fate' = [fate EXCEPT ![m] = "done"]
  BY <1>2 DEF IOPop
<1>4. \A n \in Msgs : n # m => (InFlight(n)' <=> InFlight(n))
  BY <1>1 DEF InFlight, CloseStep, TypeOK, FlightOK
<1>5. \A n \in Msgs : Safe(n)
  BY <1>1, <1>3, <1>4, MemFrame, DeferredFrame
  DEF Safe, CloseStep, TypeOK, HistoryOK
<1> QED
  BY <1>1, <1>5, SafeSaved

\* An Empty that was under way, or that comes later, discards what it takes.
LEMMA CloseEmpty ==
    ASSUME CloseStep, Empty \/ EmptyDeferred \/ EmptyDrain \/ EmptyBackend
    PROVE  CloseCalm' /\ (AllSaved => AllSaved')
<1>1. CASE Empty
  <2>1. UNCHANGED <<memoryMsgChan, backend, deferredMessages, exitPC, topic,
                    scanPC>>
    BY <1>1 DEF Empty, EmptyInFlight, qVars, deferVars, procVars, scanVars
  <2>2. \A m \in Msgs : /\ InFlight(m) => fate'[m] = "done"
                        /\ ~InFlight(m) => fate'[m] = fate[m]
                        /\ ~InFlight(m)'
    BY <1>1 DEF Empty, EmptyInFlight, Discarded, InMap, InFlight
  <2>3. \A m \in Msgs : Safe(m)
    BY <2>1, <2>2, MemFrame, DeferredFrame DEF Safe
  <2> QED
    BY <2>1, <2>3, SafeSaved
<1>2. CASE EmptyDeferred
  <2>1. UNCHANGED <<memoryMsgChan, backend, inFlightMessages, exitPC, topic,
                    scanPC>>
    BY <1>2 DEF EmptyDeferred, qVars, flightVars, procVars, scanVars
  <2>2. \A m \in Msgs : /\ InDeferred(m) => fate'[m] = "done"
                        /\ ~InDeferred(m) => fate'[m] = fate[m]
                        /\ ~InDeferred(m)'
    BY <1>2 DEF EmptyDeferred, Discarded, InMap, InDeferred
  <2>3. \A m \in Msgs : Safe(m)
    BY <2>1, <2>2, MemFrame, FlightFrame DEF Safe
  <2> QED
    BY <2>1, <2>3, SafeSaved
<1>3. CASE EmptyDrain
  <2>1. /\ memoryMsgChan # <<>> /\ memoryMsgChan \in Seq(Objs)
        /\ Head(memoryMsgChan) \in Objs /\ memoryMsgChan' = Tail(memoryMsgChan)
        /\ UNCHANGED <<backend, inFlightMessages, deferredMessages, exitPC,
                       topic, scanPC>>
    BY <1>3 DEF EmptyDrain, flightVars, deferVars, exitVars, procVars,
                scanVars, CloseStep, TypeOK, QueueOK
  <2>2. PICK m \in Msgs : m = ID(Head(memoryMsgChan))
    BY <2>1, IDType
  <2>3. /\ \A n \in Msgs : n # m => (InMem(n)' <=> InMem(n))
        /\ \A n \in Msgs : MemOnce(n) => MemOnce(n)'
    BY <2>1, <2>2, MemTail
  <2>4. \A n \in Msgs : fate'[n] = IF n = m THEN "done" ELSE fate[n]
    BY <1>3, <2>2 DEF EmptyDrain, Discarded
  <2>5. \A n \in Msgs : Safe(n)
    BY <2>1, <2>3, <2>4, FlightFrame, DeferredFrame DEF Safe
  <2> QED
    BY <2>1, <2>5, SafeSaved DEF CloseStep, CloseCalm
<1>4. CASE EmptyBackend
  <2>1. UNCHANGED <<memoryMsgChan, inFlightMessages, deferredMessages, exitPC,
                    topic, scanPC>>
    BY <1>4 DEF EmptyBackend, flightVars, deferVars, procVars, scanVars,
                CloseStep, Closing
  <2>2. \A m \in Msgs : fate'[m] = "live" =>
            fate[m] = "live" /\ backend[m] = 0 /\ backend'[m] = 0
    BY <1>4 DEF EmptyBackend, Discarded, CloseStep, TypeOK, QueueOK
  <2>3. \A m \in Msgs : Safe(m)
    BY <2>1, <2>2, MemFrame, FlightFrame, DeferredFrame DEF Safe
  <2> QED
    BY <2>1, <2>3, SafeSaved
<1> QED
  BY <1>1, <1>2, <1>3, <1>4

\* The steps of flush.
LEMMA CloseClientsSaves ==
    ASSUME CloseStep, CloseClients
    PROVE  CloseCalm' /\ (AllSaved => AllSaved')
<1>1. /\ exitPC = "closing" /\ exitPC' = "flush_mem"
      /\ UNCHANGED <<fate, memoryMsgChan, backend, inFlightMessages,
                     deferredMessages, topic, scanPC>>
  BY DEF CloseClients, qVars, flightVars, deferVars, procVars, scanVars
<1>2. \A m \in Msgs : Saved(m) => Saved(m)'
  BY <1>1, MemFrame, FlightFrame, DeferredFrame
  DEF Saved, FlightLeft, DeferredLeft
<1> QED
  BY <1>1, <1>2 DEF CloseStep, CloseCalm, Closing, AllSaved

\* The memory channel, one message at a time.
LEMMA FlushMemSaves ==
    ASSUME CloseStep, FlushMem, ~Ephemeral
    PROVE  CloseCalm' /\ (AllSaved => AllSaved')
<1>1. /\ exitPC = "flush_mem"
      /\ UNCHANGED <<fate, inFlightMessages, deferredMessages, topic, scanPC>>
  BY DEF FlushMem, flightVars, deferVars, procVars, scanVars
<1>2. CASE memoryMsgChan # <<>>
  <2>1. /\ memoryMsgChan \in Seq(Objs) /\ Head(memoryMsgChan) \in Objs
        /\ memoryMsgChan' = Tail(memoryMsgChan) /\ UNCHANGED exitPC
    BY <1>2 DEF FlushMem, CloseStep, TypeOK, QueueOK
  <2>2. PICK m \in Msgs : m = ID(Head(memoryMsgChan))
    BY <2>1, IDType
  <2>3. /\ InMem(m)
        /\ \A n \in Msgs : n # m => (InMem(n)' <=> InMem(n))
        /\ MemOnce(m) => ~InMem(m)'
        /\ \A n \in Msgs : MemOnce(n) => MemOnce(n)'
    BY <1>2, <2>1, <2>2, MemTail
  <2>4. \A n \in Msgs : backend'[n] = IF n = m THEN backend[n] + 1 ELSE backend[n]
    BY <1>2, <2>2 DEF FlushMem, Written
  <2>5. \A n \in Msgs : /\ FlightLeft(n)' <=> FlightLeft(n)
                        /\ DeferredLeft(n)' <=> DeferredLeft(n)
    BY <1>1, <2>1, FlightFrame, DeferredFrame DEF FlightLeft, DeferredLeft
  <2>6. ASSUME NEW n \in Msgs, Saved(n) PROVE Saved(n)'
    <3>1. CASE n = m
      BY <2>3, <2>4, <2>5, <2>6, <3>1 DEF Saved
    <3>2. CASE n # m
      BY <2>3, <2>4, <2>5, <2>6, <3>2 DEF Saved
    <3> QED
      BY <3>1, <3>2
  <2> QED
    BY <1>1, <2>1, <2>6 DEF CloseStep, CloseCalm, AllSaved
<1>3. CASE memoryMsgChan = <<>>
  <2>1. exitPC' = "flush_inflight" /\ UNCHANGED <<memoryMsgChan, backend>>
    BY <1>3 DEF FlushMem, qVars
  <2>2. \A m \in Msgs : Saved(m) => Saved(m)'
    BY <1>1, <2>1, MemFrame, FlightFrame, DeferredFrame
    DEF Saved, FlightLeft, DeferredLeft
  <2> QED
    BY <1>1, <1>3, <2>1, <2>2 DEF CloseStep, CloseCalm, Closing, AllSaved
<1> QED
  BY <1>2, <1>3

\* The in-flight map.
LEMMA FlushInFlightSaves ==
    ASSUME CloseStep, FlushInFlight, ~Ephemeral
    PROVE  CloseCalm' /\ (AllSaved => AllSaved')
<1>1. /\ exitPC = "flush_inflight" /\ exitPC' = "flush_deferred"
      /\ UNCHANGED <<fate, memoryMsgChan, inFlightMessages, deferredMessages,
                     topic, scanPC>>
  BY DEF FlushInFlight, flightVars, deferVars, procVars, scanVars
<1>2. memoryMsgChan = <<>>
  BY <1>1 DEF CloseStep, CloseCalm
<1>3. \A m \in Msgs : ~InMem(m) /\ ~InMem(m)'
  BY <1>1, <1>2, MemFrame DEF InMem
<1>4. \A m \in Msgs :
        /\ FlightLeft(m) <=> InFlight(m)
        /\ ~FlightLeft(m)'
        /\ DeferredLeft(m)' <=> DeferredLeft(m)
        /\ backend'[m] = IF InFlight(m) THEN backend[m] + 1 ELSE backend[m]
  BY <1>1, DeferredFrame
  DEF FlightLeft, DeferredLeft, FlushInFlight, Written, InMap, InFlight
<1>5. \A m \in Msgs : Saved(m) => Saved(m)'
  BY <1>1, <1>3, <1>4, MemFrame DEF Saved
<1> QED
  BY <1>1, <1>2, <1>5 DEF CloseStep, CloseCalm, Closing, AllSaved

\* The deferred map.
LEMMA FlushDeferredSaves ==
    ASSUME CloseStep, FlushDeferred, ~Ephemeral
    PROVE  CloseCalm' /\ (AllSaved => AllSaved')
<1>1. /\ exitPC = "flush_deferred" /\ exitPC' = "closed"
      /\ UNCHANGED <<fate, memoryMsgChan, inFlightMessages, deferredMessages,
                     topic, scanPC>>
  BY DEF FlushDeferred, flightVars, deferVars, procVars, scanVars
<1>2. memoryMsgChan = <<>>
  BY <1>1 DEF CloseStep, CloseCalm
<1>3. \A m \in Msgs : ~InMem(m) /\ ~InMem(m)'
  BY <1>1, <1>2, MemFrame DEF InMem
<1>4. \A m \in Msgs :
        /\ ~FlightLeft(m) /\ ~FlightLeft(m)'
        /\ DeferredLeft(m) <=> InDeferred(m)
        /\ ~DeferredLeft(m)'
        /\ backend'[m] = IF InDeferred(m) THEN backend[m] + 1 ELSE backend[m]
  BY <1>1
  DEF FlightLeft, DeferredLeft, FlushDeferred, Written, InMap, InDeferred
<1>5. \A m \in Msgs : Saved(m) => Saved(m)'
  BY <1>1, <1>3, <1>4, MemFrame DEF Saved
<1> QED
  BY <1>1, <1>2, <1>5 DEF CloseStep, CloseCalm, Closing, AllSaved

\* When Close begins, custody says where every live message is.
LEMMA CloseBegins ==
    ASSUME TypeOK, CustodyInv, Close, HandsEmpty'
    PROVE  CloseCalm' /\ AllSaved'
<1>1. /\ exitPC' = "closing" /\ topic' = NoObj /\ scanPC' = "idle"
      /\ scanPC = "idle" /\ ~exitFlag
      /\ UNCHANGED <<fate, memoryMsgChan, backend, inFlightMessages,
                     deferredMessages, pumpVars, ioVars>>
  BY DEF Close, BeginExit, ExitMutexWritable, TypeOK, ExitOK, qVars,
         flightVars, deferVars, procVars, scanVars
<1>2. ASSUME NEW m \in Msgs, fate'[m] = "live" PROVE Saved(m)'
  <2>1. Custody(m) /\ Held(m)
    BY <1>1, <1>2 DEF CustodyInv, Custody
  <2>2. ~InPump(m) /\ ~InIO(m) /\ ~InScan(m)
    BY <1>1, PumpUnchanged, PumpFrame, IOUnchanged, IOFrame
    DEF HandsEmpty, InScan
  <2>3. /\ FlightLeft(m)' <=> InFlight(m)
        /\ DeferredLeft(m)' <=> InDeferred(m)
        /\ InMem(m)' <=> InMem(m)
        /\ MemOnce(m)' /\ DiskOnce(m)
    BY <1>1, <2>1, MemFrame, FlightFrame, DeferredFrame
    DEF FlightLeft, DeferredLeft, Custody, HeldOnce
  <2>4. backend'[m] = IF OnDisk(m) THEN 1 ELSE 0
    BY <1>1, <2>3 DEF OnDisk, DiskOnce, TypeOK, QueueOK
  <2>5. /\ InMem(m) \/ OnDisk(m) \/ InFlight(m) \/ InDeferred(m)
        /\ InMem(m) => ~OnDisk(m) /\ ~InFlight(m) /\ ~InDeferred(m)
        /\ OnDisk(m) => ~InFlight(m) /\ ~InDeferred(m)
        /\ InFlight(m) => ~InDeferred(m)
    BY <2>1, <2>2 DEF Held, Custody, HeldInOnePlace
  <2> QED
    BY <2>3, <2>4, <2>5 DEF Saved
<1> QED
  BY <1>1, <1>2 DEF CloseCalm, AllSaved

\* While the hands of the clients' goroutines are empty, every step leaves
\* every live message saved.
LEMMA CloseInvStep ==
    ASSUME TypeOK, CustodyInv, CloseInv, [Next]_vars,
           exitFlag => HandsEmpty, (exitFlag => HandsEmpty)'
    PROVE  CloseInv'
<1> SUFFICES ASSUME ~Ephemeral, exitPC' \in Closing
             PROVE  CloseCalm' /\ AllSaved'
  BY DEF CloseInv
<1>1. exitFlag' /\ HandsEmpty'
  <2>1. TypeOK'
    BY TypeStep
  <2> QED
    BY <2>1 DEF TypeOK, ExitOK, Closing
<1>2. CASE exitPC \notin Closing
  <2>1. Close
    BY <1>2, ExitSteps
    DEF Delete, BeginExit, DeleteEmpties, EmptyInFlight, CloseClients,
        FlushMem, FlushInFlight, FlushDeferred, EmptyBackend, Closing
  <2> QED
    BY <1>1, <2>1, CloseBegins
<1>3. CASE exitPC \in Closing
  <2>1. CloseStep /\ AllSaved
    BY <1>1, <1>3 DEF CloseStep, CloseInv, Closing, TypeOK, ExitOK
  <2>2. ASSUME NEW c \in Clients, PumpNext(c) PROVE CloseCalm' /\ AllSaved'
    BY <2>1, <2>2, CloseReceiveMem, CloseReceiveBackend, CloseNever, CloseStill
    DEF PumpNext
  <2>3. ASSUME NEW c \in Clients, IONext(c) PROVE CloseCalm' /\ AllSaved'
    BY <2>1, <2>3, CloseIOPop, CloseNever, CloseStill DEF IONext, IOStep
  <2>4. ASSUME NEW c \in Clients, SubNext(c) PROVE CloseCalm' /\ AllSaved'
    BY <2>1, <2>4, CloseStill
  <2>5. ~TopicNext /\ ~ScanNext
    BY <2>1, CloseNever
  <2>6. CASE AdminNext
    BY <2>1, <2>6, CloseEmpty, CloseNever, CloseStill, CloseClientsSaves,
       FlushMemSaves, FlushInFlightSaves, FlushDeferredSaves
    DEF AdminNext
  <2>7. CASE UNCHANGED vars
    BY <2>1, <2>7, CloseStill
  <2> QED
    BY <2>2, <2>3, <2>4, <2>5, <2>6, <2>7 DEF Next
<1> QED
  BY <1>2, <1>3

\* A channel that is closed while the hands of the clients' goroutines are
\* empty has every live message in the backend, once, whatever else happens
\* during the flush.
THEOREM QuietCloseKeepsAll == Spec => QuietCloseSaves
<1> DEFINE Quiet == exitFlag => HandsEmpty
           Backed == exitPC = "closed" /\ ~Ephemeral =>
                      \A m \in Msgs : fate[m] = "live" => backend[m] = 1
<1>1. Init => CloseInv
  BY DEF Init, CloseInv, Closing
<1>2. /\ TypeOK /\ CustodyInv /\ CloseInv /\ [Next]_vars /\ Quiet /\ Quiet'
      => CloseInv'
  BY CloseInvStep
<1>3. CloseInv => Backed
  BY DEF CloseInv, Closing, CloseCalm, AllSaved, Saved, FlightLeft,
         DeferredLeft, InMem
<1> QED
  BY <1>1, <1>2, <1>3, TypeCorrect, CustodyAlways, PTL
  DEF Spec, QuietCloseSaves
=============================================================================
