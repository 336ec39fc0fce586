------------------------ MODULE ChannelTimeoutProofs ------------------------
(***************************************************************************)
(* The timeouts and the counts of a channel.                               *)
(*                                                                         *)
(* A deferred message always has its deadline (DeferredHasDeadline).  The  *)
(* other three invariants fail for an object read back from the backend,   *)
(* whose index is 0 though it is not in the heap, and after Empty, which   *)
(* leaves objects with positions in a heap that is gone.  They are proved  *)
(* for as long as neither happens, which is what Calm says, and then for   *)
(* the channels where neither can happen.  The argument has three layers:  *)
(* ObjectInv, that a message has one object and that what a command pops   *)
(* was in the heap; TimedInv, that the scan worker that has taken an       *)
(* object out of the heap will find its owner unless it was added again;   *)
(* and CountInv, with every pending update of a count attributed.          *)
(***************************************************************************)
EXTENDS ChannelProofs, FiniteSetTheorems

(***************************************************************************)
(* The deferred map.                                                       *)
(***************************************************************************)

\* o will be taken out of the deferred map: it is in the heap, somebody is
\* about to put it there, or the scan worker has just taken it out.
Expiring(o) ==
    \/ o \in deferredPQ
    \/ topic = o
    \/ \E c \in Clients : ioPC[c] = "deferring" /\ ioObj[c] = o
    \/ scanPC = "dshifted" /\ scanObj = o

\* A step that puts nothing into the map and takes no deadline away.
LEMMA DeferredKept ==
    ASSUME DeferredTimesOut,
           \A m \in Msgs :
              deferredMessages'[m] \in {deferredMessages[m], NoObj},
           \A o : Expiring(o) => Expiring(o)'
    PROVE  DeferredTimesOut'
<1>1. ASSUME NEW m \in Msgs, NEW o, deferredMessages'[m] = o, o # NoObj
      PROVE  Expiring(o)'
  BY <1>1 DEF DeferredTimesOut, Expiring
<1> QED
  BY <1>1 DEF DeferredTimesOut, Expiring

\* An IOLoop that is not about to defer takes no deadline away.
LEMMA ExpiringIO ==
    ASSUME TypeOK, NEW c \in Clients, ioPC[c] # "deferring",
           NEW pc, NEW op, NEW obj, IOBecomes(c, pc, op, obj),
           UNCHANGED <<deferVars, topic, scanVars>>
    PROVE  \A o : Expiring(o) => Expiring(o)'
<1>1. \A d \in Clients : d # c => ioPC'[d] = ioPC[d] /\ ioObj'[d] = ioObj[d]
  BY DEF IOBecomes, TypeOK, IoOK
<1> QED
  BY <1>1 DEF Expiring, deferVars, scanVars

\* Every step keeps a deadline for every deferred message.
LEMMA DeferredStep ==
    ASSUME TypeOK, DeferredTimesOut, [Next]_vars
    PROVE  DeferredTimesOut'
<1>1. ASSUME UNCHANGED <<deferVars, topic, scanVars, ioVars>>
      PROVE  DeferredTimesOut'
  BY <1>1 DEF DeferredTimesOut, deferVars, scanVars, ioVars
<1>2. CASE TopicNext
  <2>1. ASSUME NEW m \in Msgs, PutMessage(m) PROVE DeferredTimesOut'
    BY <1>1, <2>1 DEF PutMessage, procVars
  <2>2. ASSUME NEW m \in Msgs, PutMessageDeferred(m) PROVE DeferredTimesOut'
    <3>1. PICK o \in ObjsOf(m) : pushDeferredMessage(o) /\ topic' = o
      BY <2>2 DEF PutMessageDeferred
    <3>2. ID(o) = m /\ topic = NoObj /\ UNCHANGED <<deferredPQ, ioVars, scanVars>>
      BY <2>2 DEF PutMessageDeferred, ObjsOf
    <3>3. deferredMessages' = [deferredMessages EXCEPT ![m] = o]
      BY <3>1, <3>2 DEF pushDeferredMessage
    <3> QED
      BY <3>1, <3>2, <3>3 DEF DeferredTimesOut, ioVars, scanVars, TypeOK, DeferOK
  <2>3. CASE TopicAddToDeferredPQ
    <3>1. /\ UNCHANGED <<deferredMessages, ioVars, scanVars>>
          /\ deferredPQ' = deferredPQ \cup {topic}
      BY <2>3 DEF TopicAddToDeferredPQ
    <3> QED
      BY <3>1 DEF DeferredTimesOut, ioVars, scanVars
  <2> QED
    BY <1>2, <2>1, <2>2, <2>3 DEF TopicNext
<1>3. ASSUME NEW c \in Clients, PumpNext(c) PROVE DeferredTimesOut'
  BY <1>1, <1>3
  DEF PumpNext, PumpReceiveMem, PumpReceiveBackend, PumpPush, PumpAddToPQ,
      PumpSend, PumpExit
<1>4. ASSUME NEW c \in Clients, IONext(c) PROVE DeferredTimesOut'
  <2>1. ASSUME ioPC[c] # "deferring", \E pc, op, o : IOBecomes(c, pc, op, o),
               UNCHANGED <<deferVars, topic, scanVars>>
        PROVE  DeferredTimesOut'
    BY <2>1, ExpiringIO, DeferredKept DEF deferVars
  <2>2. ASSUME NEW m \in Msgs, NEW op \in Ops, IOPop(c, m, op)
        PROVE  DeferredTimesOut'
    BY <2>1, <2>2 DEF IOPop
  <2>3. CASE IORemovePQ(c) \/ IORequeue(c) \/ IOTouchPush(c)
               \/ IOTouchAddToPQ(c) \/ IOSettle(c)
    BY <2>1, <2>3
    DEF IORemovePQ, IORequeue, IOTouchPush, IOTouchAddToPQ, IOSettle, IODone,
        IOSettling, IOGoto
  <2>4. CASE IODefer(c)
    <3>1. /\ ioPC[c] = "removed" /\ ioObj[c] \in Objs
          /\ UNCHANGED <<deferredPQ, topic, scanVars>>
      BY <2>4 DEF IODefer, TypeOK, IoOK
    <3>2. ASSUME UNCHANGED deferredMessages, IODone(c) PROVE DeferredTimesOut'
      BY <2>1, <3>1, <3>2 DEF IODone, deferVars
    <3>3. ASSUME pushDeferredMessage(ioObj[c]), IOGoto(c, "deferring")
          PROVE  DeferredTimesOut'
      <4>1. ID(ioObj[c]) \in Msgs
        BY <3>1, IDType
      <4>2. /\ deferredMessages' =
                  [deferredMessages EXCEPT ![ID(ioObj[c])] = ioObj[c]]
            /\ ioPC' = [ioPC EXCEPT ![c] = "deferring"] /\ ioObj' = ioObj
        BY <3>3 DEF pushDeferredMessage, IOGoto, IOBecomes, TypeOK, IoOK
      <4> QED
        BY <3>1, <4>1, <4>2
        DEF DeferredTimesOut, scanVars, TypeOK, DeferOK, IoOK
    <3> QED
      BY <2>4, <3>2, <3>3 DEF IODefer
  <2>5. CASE IOAddToDeferredPQ(c)
    <3>1. /\ deferredPQ' = deferredPQ \cup {ioObj[c]}
          /\ UNCHANGED <<deferredMessages, topic, scanVars>>
          /\ \A d \in Clients : d # c =>
                ioPC'[d] = ioPC[d] /\ ioObj'[d] = ioObj[d]
      BY <2>5 DEF IOAddToDeferredPQ, IOSettling, IOBecomes, TypeOK, IoOK
    <3> QED
      BY <3>1 DEF DeferredTimesOut, scanVars
  <2> QED
    BY <1>4, <2>2, <2>3, <2>4, <2>5 DEF IONext, IOStep
<1>5. ASSUME NEW c \in Clients, SubNext(c) PROVE DeferredTimesOut'
  BY <1>1, <1>5
  DEF SubNext, AddClientCheck, AddClientInsert, SUB, Disconnect, RemoveClient,
      procVars
<1>6. CASE ScanNext
  <2>1. ASSUME scanPC # "dshifted", UNCHANGED <<deferVars, topic, ioVars>>
        PROVE  DeferredTimesOut'
    BY <2>1 DEF DeferredTimesOut, deferVars, ioVars
  <2>2. ASSUME NEW o \in Objs, ScanShift(o) PROVE DeferredTimesOut'
    BY <2>1, <2>2 DEF ScanShift, ScanMayStart
  <2>3. CASE ScanReadOwner \/ ScanPop \/ ScanTimedOut \/ ScanPut
    BY <2>1, <2>3 DEF ScanReadOwner, ScanPop, ScanTimedOut, ScanPut
  <2>4. ASSUME NEW o \in Objs, ScanShiftDeferred(o) PROVE DeferredTimesOut'
    BY <2>4
    DEF ScanShiftDeferred, ScanMayStart, ScanGoto, DeferredTimesOut, ioVars
  <2>5. CASE ScanPopDeferred
    <3>1. /\ scanObj \in Objs /\ scanPC = "dshifted" /\ ID(scanObj) \in Msgs
          /\ UNCHANGED <<deferredPQ, topic, ioVars>>
      BY <2>5, IDType DEF ScanPopDeferred, TypeOK, ScanOK
    <3>2. /\ deferredMessages'[ID(scanObj)] = NoObj
          /\ \A m \in Msgs \ {ID(scanObj)} :
                deferredMessages'[m] = deferredMessages[m]
      BY <2>5, <3>1 DEF ScanPopDeferred, TypeOK, DeferOK
    <3>3. \A m \in Msgs \ {ID(scanObj)} : deferredMessages[m] # scanObj
      BY <3>1, Constants DEF TypeOK, DeferOK, ObjsOf
    <3> QED
      BY <3>1, <3>2, <3>3 DEF DeferredTimesOut, ioVars
  <2> QED
    BY <1>6, <2>2, <2>3, <2>4, <2>5 DEF ScanNext, ScanStep
<1>7. CASE AdminNext
  <2>1. CASE EmptyDeferred
    BY <2>1 DEF EmptyDeferred, DeferredTimesOut
  <2>2. CASE ~EmptyDeferred
    BY <1>1, <1>7, <2>2
    DEF AdminNext, Empty, EmptyInFlight, EmptyClients, EmptyDrain,
        EmptyBackend, Close, BeginExit, CloseClients, FlushMem, FlushInFlight,
        FlushDeferred, Delete, DeleteEmpties, procVars
  <2> QED
    BY <2>1, <2>2
<1>8. CASE UNCHANGED vars
  BY <1>1, <1>8 DEF vars, procVars
<1> QED
  BY <1>2, <1>3, <1>4, <1>5, <1>6, <1>7, <1>8 DEF Next

\* Every message in the deferred map has an entry in the deferred heap, or a
\* goroutine has it in hand to put it there or to take it out of the map: no
\* interleaving of DPUB, REQ, the scan and Empty leaves one behind for ever.
THEOREM DeferredHasDeadline == Spec => []DeferredTimesOut
<1>1. Init => DeferredTimesOut
  BY DEF Init, DeferredTimesOut
<1>2. TypeOK /\ DeferredTimesOut /\ [Next]_vars => DeferredTimesOut'
  BY DeferredStep
<1> QED
  BY <1>1, <1>2, TypeCorrect, PTL DEF Spec

(***************************************************************************)
(* Message objects, as long as none is read back from the backend and      *)
(* Empty does not run.  Both make an object whose index is not -1 although *)
(* it is not in the heap, and removeFromInFlightPQ tests for -1 only.      *)
(***************************************************************************)

\* The channel works from memory and is not being emptied.  Once it exits
\* nothing more is asked.
Calm == ~exitFlag => emptyPC = "idle" /\ \A m \in Msgs : backend[m] = 0

\* Nothing refers to a message that was not put yet, and nobody has seen it.
FreshUnseen ==
    \A m \in Msgs : fate[m] = "new" =>
        /\ \A o \in ObjsOf(m) : ~Referenced(o)
        /\ \A c \in Clients : m \notin sent[c]

\* All references to a message are to one object.
OneObject ==
    \A o, p \in Objs : Referenced(o) /\ Referenced(p) /\ ID(o) = ID(p) => o = p

\* An object that was never in the heap was sent to nobody.
ZeroUnsent ==
    \A o \in Objs : Referenced(o) /\ index[o] = "zero" =>
        \A c \in Clients : ID(o) \notin sent[c]

NotStale == \A o \in Objs : index[o] # "stale"

\* An object that a command has popped, or that a pump is about to send, was
\* in the heap; a FIN has ended the life of its message.
HandIndexed ==
    \A c \in Clients :
        /\ ioPC[c] = "popped" => index[ioObj[c]] # "zero"
        /\ ioPC[c] = "popped" /\ ioOp[c] = "FIN" => fate[ID(ioObj[c])] = "done"
        /\ pumpPC[c] = "tracked" => index[pumpObj[c]] # "zero"

ObjectInv == FreshUnseen /\ OneObject /\ ZeroUnsent /\ NotStale /\ HandIndexed

\* What a step of a calm channel may rely on.
Working ==
    /\ TypeOK /\ ~exitFlag /\ ~panicked /\ emptyPC = "idle"
    /\ \A m \in Msgs : backend[m] = 0 /\ Custody(m)

\* The ways to refer to an object, one by one.
InQueue(o) == \E i \in DOMAIN memoryMsgChan : memoryMsgChan[i] = o

InHand(o) == \/ \E c \in Clients : pumpObj[c] = o \/ ioObj[c] = o
             \/ scanObj = o \/ topic = o

\* Referenced, by places, before ...
LEMMA ReferencedBy ==
    \A o : Referenced(o) <=>
        \/ InQueue(o)
        \/ inFlightMessages[ID(o)] = o \/ inFlightPQ[o] > 0
        \/ deferredMessages[ID(o)] = o \/ o \in deferredPQ
        \/ InHand(o)
BY DEF Referenced, InQueue, InHand

\* ... and after a step.
LEMMA ReferencedByNext ==
    \A o : Referenced(o)' <=>
        \/ InQueue(o)'
        \/ inFlightMessages'[ID(o)] = o \/ inFlightPQ'[o] > 0
        \/ deferredMessages'[ID(o)] = o \/ o \in deferredPQ'
        \/ InHand(o)'
BY DEF Referenced, InQueue, InHand, ID

\* Receiving from memoryMsgChan takes its head; ...
LEMMA QueueTail ==
    ASSUME memoryMsgChan \in Seq(Objs), memoryMsgChan # <<>>,
           memoryMsgChan' = Tail(memoryMsgChan)
    PROVE  /\ Head(memoryMsgChan) \in Objs /\ InQueue(Head(memoryMsgChan))
           /\ \A o : InQueue(o)' => InQueue(o)
<1>1. /\ Len(memoryMsgChan) \in Nat /\ Len(memoryMsgChan) >= 1
      /\ DOMAIN memoryMsgChan = 1..Len(memoryMsgChan)
      /\ DOMAIN memoryMsgChan' = 1..(Len(memoryMsgChan) - 1)
      /\ \A i \in 1..(Len(memoryMsgChan) - 1) :
            memoryMsgChan'[i] = memoryMsgChan[i + 1]
      /\ Head(memoryMsgChan) = memoryMsgChan[1]
      /\ memoryMsgChan[1] \in Objs
  OBVIOUS
<1>2. InQueue(Head(memoryMsgChan))
  BY <1>1 DEF InQueue
<1>3. ASSUME NEW o, InQueue(o)' PROVE InQueue(o)
  <2>1. PICK i \in 1..(Len(memoryMsgChan) - 1) : memoryMsgChan'[i] = o
    BY <1>1, <1>3 DEF InQueue
  <2>2. i + 1 \in 1..Len(memoryMsgChan) /\ memoryMsgChan[i + 1] = o
    BY <1>1, <2>1
  <2> QED
    BY <1>1, <2>2 DEF InQueue
<1> QED
  BY <1>1, <1>2, <1>3

\* put adds at most its message, ...
LEMMA QueuePut ==
    ASSUME memoryMsgChan \in Seq(Objs), NEW p \in Objs, put(p)
    PROVE  \A o : InQueue(o)' => InQueue(o) \/ o = p
<1>1. ASSUME memoryMsgChan' = Append(memoryMsgChan, p), NEW o, InQueue(o)'
      PROVE  InQueue(o) \/ o = p
  <2>1. /\ DOMAIN memoryMsgChan = 1..Len(memoryMsgChan)
        /\ DOMAIN memoryMsgChan' = 1..(Len(memoryMsgChan) + 1)
        /\ \A i \in 1..Len(memoryMsgChan) : memoryMsgChan'[i] = memoryMsgChan[i]
        /\ memoryMsgChan'[Len(memoryMsgChan) + 1] = p
        /\ Len(memoryMsgChan) \in Nat
    BY <1>1
  <2> QED
    BY <1>1, <2>1 DEF InQueue
<1>2. ASSUME UNCHANGED memoryMsgChan PROVE \A o : InQueue(o)' => InQueue(o)
  BY <1>2 DEF InQueue
<1> QED
  BY <1>1, <1>2 DEF put

\* ... and other steps add nothing.
LEMMA QueueSame ==
    ASSUME UNCHANGED memoryMsgChan PROVE \A o : InQueue(o)' => InQueue(o)
BY DEF InQueue

\* Whoever holds an object refers to it.
LEMMA HandsRefer ==
    ASSUME TypeOK
    PROVE  /\ \A c \in Clients : pumpObj[c] # NoObj =>
                 pumpObj[c] \in Objs /\ Referenced(pumpObj[c])
           /\ \A c \in Clients : ioObj[c] # NoObj =>
                 ioObj[c] \in Objs /\ Referenced(ioObj[c])
           /\ scanObj # NoObj => scanObj \in Objs /\ Referenced(scanObj)
           /\ \A m \in Msgs : inFlightMessages[m] # NoObj =>
                 /\ inFlightMessages[m] \in Objs /\ ID(inFlightMessages[m]) = m
                 /\ Referenced(inFlightMessages[m])
BY DEF TypeOK, PumpOK, IoOK, ScanOK, FlightOK, ObjsOf, Referenced

\* What the heap operations do to the index of an object: it is never zero or
\* stale unless it was.
IndexKept ==
    \A o \in Objs : Referenced(o) /\ index'[o] \in {"zero", "stale"} =>
                        index'[o] = index[o]

\* A push leaves an entry for its object and touches no other's count; ...
LEMMA AddIndex ==
    ASSUME TypeOK, NEW o \in Objs, addToInFlightPQ(o)
    PROVE  /\ \A p \in Objs : index'[p] \in {"zero", "stale"} => index'[p] = index[p]
           /\ index'[o] = "at"
           /\ inFlightPQ'[o] > 0
           /\ \A p \in Objs : p # o => inFlightPQ'[p] = inFlightPQ[p]
BY DEF addToInFlightPQ, Moved, Reindexed, TypeOK, FlightOK

\* ... a removal takes one away, and adds none.
LEMMA RemoveIndex ==
    ASSUME TypeOK, NEW o \in Objs, HeapRemove(o)
    PROVE  /\ \A p \in Objs : index'[p] \in {"zero", "stale"} => index'[p] = index[p]
           /\ \A p \in Objs : p # o => inFlightPQ'[p] = inFlightPQ[p]
           /\ \A p \in Objs : inFlightPQ'[p] > 0 => inFlightPQ[p] > 0
           /\ inFlightPQ[o] > 0
BY DEF HeapRemove, Moved, Reindexed, TypeOK, FlightOK

\* A step that makes no new reference.
LEMMA ObjectsKept ==
    ASSUME TypeOK, FreshUnseen, OneObject, ZeroUnsent,
           \A o \in Objs : Referenced(o)' => Referenced(o),
           \A m \in Msgs : fate'[m] = "new" => fate[m] = "new",
           IndexKept, UNCHANGED sent
    PROVE  (FreshUnseen /\ OneObject /\ ZeroUnsent)'
<1>1. \A m \in Msgs : ObjsOf(m) \subseteq Objs
  BY DEF ObjsOf
<1>2. FreshUnseen'
  BY <1>1 DEF FreshUnseen, ObjsOf, ID, Objs
<1>3. OneObject'
  BY DEF OneObject, ID, Objs
<1>4. ZeroUnsent'
  BY DEF ZeroUnsent, IndexKept, ID, Objs
<1> QED
  BY <1>2, <1>3, <1>4

\* A step that allocates the object of a new message.
LEMMA ObjectsMade ==
    ASSUME TypeOK, FreshUnseen, OneObject, ZeroUnsent,
           NEW m \in Msgs, NEW p \in ObjsOf(m), fate[m] = "new",
           fate'[m] # "new",
           \A n \in Msgs : fate'[n] = "new" => fate[n] = "new",
           \A o \in Objs : Referenced(o)' => Referenced(o) \/ o = p,
           \A o \in Objs : o # p => index'[o] = index[o],
           UNCHANGED sent
    PROVE  (FreshUnseen /\ OneObject /\ ZeroUnsent)'
<1>1. p \in Objs /\ ID(p) = m /\ \A o \in Objs : ID(o) = m => ~Referenced(o)
  BY DEF ObjsOf, FreshUnseen
<1>2. FreshUnseen'
  BY <1>1 DEF FreshUnseen, ObjsOf, ID, Objs
<1>3. OneObject'
  BY <1>1 DEF OneObject, ID, Objs
<1>4. ZeroUnsent'
  BY <1>1 DEF ZeroUnsent, FreshUnseen, ID, Objs
<1> QED
  BY <1>2, <1>3, <1>4

\* The indexes in the hands, when no hand takes a new object.
LEMMA HandsKept ==
    ASSUME TypeOK, NotStale, HandIndexed, IndexKept,
           \A o \in Objs : index'[o] # "stale",
           \A m \in Msgs : fate[m] = "done" => fate'[m] = "done",
           \A c \in Clients : ioPC'[c] = "popped" =>
              /\ ioPC[c] = "popped" /\ ioObj'[c] = ioObj[c]
              /\ ioOp'[c] = ioOp[c],
           \A c \in Clients : pumpPC'[c] = "tracked" =>
              pumpPC[c] = "tracked" /\ pumpObj'[c] = pumpObj[c]
    PROVE  NotStale' /\ HandIndexed'
<1>1. NotStale'
  BY DEF NotStale
<1>2. ASSUME NEW c \in Clients, ioPC'[c] = "popped"
      PROVE  /\ index'[ioObj'[c]] # "zero"
             /\ ioOp'[c] = "FIN" => fate'[ID(ioObj'[c])] = "done"
  <2>1. ioObj[c] \in Objs /\ Referenced(ioObj[c]) /\ ID(ioObj[c]) \in Msgs
    BY <1>2, HandsRefer, IDType DEF TypeOK, IoOK
  <2> QED
    BY <1>2, <2>1 DEF HandIndexed, IndexKept
<1>3. ASSUME NEW c \in Clients, pumpPC'[c] = "tracked"
      PROVE  index'[pumpObj'[c]] # "zero"
  <2>1. pumpObj[c] \in Objs /\ Referenced(pumpObj[c])
    BY <1>3, HandsRefer DEF TypeOK, PumpOK
  <2> QED
    BY <1>3, <2>1 DEF HandIndexed, IndexKept
<1> QED
  BY <1>1, <1>2, <1>3 DEF HandIndexed, ID

\* put lets no message become new, and ends no end.
LEMMA PutFate ==
    ASSUME TypeOK, NEW p \in Objs, put(p)
    PROVE  \A n \in Msgs : /\ fate'[n] = "new" => fate[n] = "new"
                           /\ fate[n] = "done" => fate'[n] = "done"
                           /\ fate'[ID(p)] # "new"
<1>1. ID(p) \in Msgs
  BY IDType
<1> QED
  BY <1>1 DEF put, Stored, TypeOK, HistoryOK

\* No administrative step leaves the channel calm.
LEMMA AdminEnds ==
    ASSUME Working, AdminNext, ~exitFlag', emptyPC' = "idle"
    PROVE  FALSE
<1>1. exitPC = "idle"
  BY DEF Working, TypeOK, ExitOK
<1> QED
  BY <1>1
  DEF Working, AdminNext, Empty, EmptyInFlight, EmptyDeferred, EmptyClients,
      EmptyDrain, EmptyBackend, Close, BeginExit, CloseClients, FlushMem,
      FlushInFlight, FlushDeferred, Delete, DeleteEmpties

\* In a calm channel a message in somebody's hand is in no map.
LEMMA HandNotFiled ==
    ASSUME Working, HandIndexed
    PROVE  /\ \A c \in Clients : pumpPC[c] = "received" =>
                inFlightMessages[ID(pumpObj[c])] = NoObj
           /\ \A c \in Clients : ioPC[c] = "popped" =>
                inFlightMessages[ID(ioObj[c])] = NoObj
           /\ \A c \in Clients : ioPC[c] = "removed" /\ ioOp[c] # "FIN" =>
                /\ inFlightMessages[ID(ioObj[c])] = NoObj
                /\ deferredMessages[ID(ioObj[c])] = NoObj
<1>1. \A m \in Msgs : Custody(m)
  BY DEF Working
<1>2. ASSUME NEW c \in Clients, pumpPC[c] = "received"
      PROVE  inFlightMessages[ID(pumpObj[c])] = NoObj
  <2>1. ID(pumpObj[c]) \in Msgs
    BY <1>2, IDType DEF Working, TypeOK, PumpOK
  <2>2. InPump(ID(pumpObj[c]))
    BY <1>2 DEF InPump, PumpHolds
  <2> QED
    BY <1>1, <2>1, <2>2 DEF Custody, HeldInOnePlace, InFlight
<1>3. ASSUME NEW c \in Clients, ioPC[c] \in {"popped", "removed"}
      PROVE  ID(ioObj[c]) \in Msgs
  BY <1>3, IDType DEF Working, TypeOK, IoOK
<1>4. ASSUME NEW c \in Clients, ioPC[c] \in {"popped", "removed"}, ioOp[c] # "FIN"
      PROVE  /\ inFlightMessages[ID(ioObj[c])] = NoObj
             /\ deferredMessages[ID(ioObj[c])] = NoObj
  <2>1. InIO(ID(ioObj[c]))
    BY <1>4 DEF InIO, IOHolds
  <2> QED
    BY <1>1, <1>3, <1>4, <2>1
    DEF Custody, HeldInOnePlace, InFlight, InDeferred
<1>5. ASSUME NEW c \in Clients, ioPC[c] = "popped", ioOp[c] = "FIN"
      PROVE  inFlightMessages[ID(ioObj[c])] = NoObj
  <2>1. fate[ID(ioObj[c])] # "live"
    BY <1>5 DEF HandIndexed
  <2> QED
    BY <1>1, <1>3, <1>5, <2>1 DEF Custody, Held, InFlight
<1> QED
  BY <1>2, <1>4, <1>5

(***************************************************************************)
(* The steps keep ObjectInv.                                               *)
(***************************************************************************)

\* A step that makes no reference, sends nothing and gives nobody an object
\* to index.
LEMMA ObjectsRest ==
    ASSUME TypeOK, ObjectInv, IndexKept,
           \A o \in Objs : Referenced(o)' => Referenced(o),
           \A o \in Objs : index'[o] # "stale",
           \A m \in Msgs : /\ fate'[m] = "new" => fate[m] = "new"
                           /\ fate[m] = "done" => fate'[m] = "done",
           \A c \in Clients : ioPC'[c] = "popped" =>
              /\ ioPC[c] = "popped" /\ ioObj'[c] = ioObj[c]
              /\ ioOp'[c] = ioOp[c],
           \A c \in Clients : pumpPC'[c] = "tracked" =>
              pumpPC[c] = "tracked" /\ pumpObj'[c] = pumpObj[c],
           UNCHANGED sent
    PROVE  ObjectInv'
BY ObjectsKept, HandsKept DEF ObjectInv

\* The topic's messagePump: the object of a new message is the first.
LEMMA ObjectTopic ==
    ASSUME Working, ObjectInv, TopicNext
    PROVE  ObjectInv'
<1> USE DEF Working
<1>1. ASSUME NEW m \in Msgs, PutMessage(m) PROVE ObjectInv'
  <2>1. PICK p \in ObjsOf(m) : Allocated(p) /\ put(p)
    BY <1>1 DEF PutMessage
  <2>2. /\ p \in Objs /\ ID(p) = m /\ fate[m] = "new" /\ ~Referenced(p)
        /\ UNCHANGED <<inFlightMessages, inFlightPQ, deferVars, procVars, sent>>
        /\ index' = [index EXCEPT ![p] = "zero"]
    BY <1>1, <2>1 DEF PutMessage, ObjsOf, Allocated
  <2>3. \A o : InQueue(o)' => InQueue(o) \/ o = p
    BY <2>1, <2>2, QueuePut DEF TypeOK, QueueOK
  <2>4. \A o \in Objs : Referenced(o)' => Referenced(o) \/ o = p
    BY <2>2, <2>3, ReferencedBy, ReferencedByNext
    DEF deferVars, procVars, pumpVars, ioVars, scanVars, InHand
  <2>5. \A n \in Msgs : /\ fate'[n] = "new" => fate[n] = "new"
                        /\ fate[n] = "done" => fate'[n] = "done"
                        /\ fate'[m] # "new"
    BY <2>1, <2>2, PutFate
  <2>6. (FreshUnseen /\ OneObject /\ ZeroUnsent)'
    BY <2>2, <2>4, <2>5, ObjectsMade DEF ObjectInv, TypeOK, FlightOK
  <2>7. IndexKept /\ \A o \in Objs : index'[o] # "stale"
    BY <2>2 DEF IndexKept, ObjectInv, NotStale, TypeOK, FlightOK
  <2>8. NotStale' /\ HandIndexed'
    BY <2>2, <2>5, <2>7, HandsKept DEF ObjectInv, procVars, pumpVars, ioVars
  <2> QED
    BY <2>6, <2>8 DEF ObjectInv
<1>2. ASSUME NEW m \in Msgs, PutMessageDeferred(m) PROVE ObjectInv'
  <2>1. PICK p \in ObjsOf(m) : Allocated(p) /\ pushDeferredMessage(p) /\ topic' = p
    BY <1>2 DEF PutMessageDeferred
  <2>2. /\ p \in Objs /\ ID(p) = m /\ fate[m] = "new" /\ ~Referenced(p)
        /\ UNCHANGED <<qVars, inFlightMessages, inFlightPQ, deferredPQ,
                       pumpVars, ioVars, scanVars, sent>>
        /\ index' = [index EXCEPT ![p] = "zero"]
        /\ fate' = [fate EXCEPT ![m] = "live"]
        /\ deferredMessages' = [deferredMessages EXCEPT ![m] = p]
    BY <1>2, <2>1 DEF PutMessageDeferred, ObjsOf, Allocated, pushDeferredMessage
  <2>3. \A o : InQueue(o)' => InQueue(o)
    BY <2>2, QueueSame DEF qVars
  <2>4. \A o \in Objs : deferredMessages'[ID(o)] = o =>
            deferredMessages[ID(o)] = o \/ o = p
    BY <2>2, IDType DEF TypeOK, DeferOK
  <2>5. \A o \in Objs : Referenced(o)' => Referenced(o) \/ o = p
    BY <2>1, <2>2, <2>3, <2>4, ReferencedBy, ReferencedByNext
    DEF pumpVars, ioVars, scanVars, InHand
  <2>6. \A n \in Msgs : /\ fate'[n] = "new" => fate[n] = "new"
                        /\ fate[n] = "done" => fate'[n] = "done"
                        /\ fate'[m] # "new"
    BY <2>2 DEF TypeOK, HistoryOK
  <2>7. (FreshUnseen /\ OneObject /\ ZeroUnsent)'
    BY <2>2, <2>5, <2>6, ObjectsMade DEF ObjectInv, TypeOK, FlightOK
  <2>8. IndexKept /\ \A o \in Objs : index'[o] # "stale"
    BY <2>2 DEF IndexKept, ObjectInv, NotStale, TypeOK, FlightOK
  <2>9. NotStale' /\ HandIndexed'
    BY <2>2, <2>6, <2>8, HandsKept DEF ObjectInv, pumpVars, ioVars
  <2> QED
    BY <2>7, <2>9 DEF ObjectInv
<1>3. CASE TopicAddToDeferredPQ
  <2>1. /\ UNCHANGED <<qVars, flightVars, deferredMessages, pumpVars, ioVars,
                       scanVars, sent, fate>>
        /\ deferredPQ' = deferredPQ \cup {topic} /\ topic' = NoObj
    BY <1>3 DEF TopicAddToDeferredPQ
  <2>2. \A o \in Objs : Referenced(o)' => Referenced(o)
    BY <2>1, QueueSame, ReferencedBy, ReferencedByNext, Constants
    DEF qVars, flightVars, pumpVars, ioVars, scanVars, InHand
  <2>3. IndexKept /\ \A o \in Objs : index'[o] # "stale"
    BY <2>1 DEF IndexKept, ObjectInv, NotStale, flightVars
  <2> QED
    BY <2>1, <2>2, <2>3, ObjectsRest DEF pumpVars, ioVars
<1> QED
  BY <1>1, <1>2, <1>3 DEF TopicNext

\* A client's messagePump: nothing comes from the backend, and an object is
\* sent only after it was in the heap.
LEMMA ObjectPump ==
    ASSUME Working, ObjectInv, NEW c \in Clients, PumpNext(c)
    PROVE  ObjectInv'
<1> USE DEF Working
<1>1. ASSUME UNCHANGED index
      PROVE  IndexKept /\ \A o \in Objs : index'[o] # "stale"
  BY <1>1 DEF IndexKept, ObjectInv, NotStale
<1>2. CASE PumpReceiveMem(c)
  <2>1. /\ memoryMsgChan # <<>> /\ memoryMsgChan' = Tail(memoryMsgChan)
        /\ UNCHANGED <<flightVars, deferVars, ioVars, scanVars, topic, sent>>
        /\ pumpPC[c] = "idle"
    BY <1>2 DEF PumpReceiveMem
  <2>2. \A o : InQueue(o)' => InQueue(o)
    BY <2>1, QueueTail DEF TypeOK, QueueOK
  <2>3. Head(memoryMsgChan) \in Objs /\ InQueue(Head(memoryMsgChan))
    BY <2>1, QueueTail DEF TypeOK, QueueOK
  <2>4. \/ UNCHANGED pumpVars
        \/ PumpGoto(c, "received", Head(memoryMsgChan))
    BY <1>2 DEF PumpReceiveMem, Sample
  <2>5. \A d \in Clients : /\ pumpObj'[d] \in {pumpObj[d], Head(memoryMsgChan)}
                           /\ pumpPC'[d] = "tracked" =>
                                pumpPC[d] = "tracked" /\ pumpObj'[d] = pumpObj[d]
    BY <2>1, <2>4 DEF pumpVars, PumpGoto, TypeOK, PumpOK
  <2>6. \A o \in Objs : Referenced(o)' => Referenced(o)
    BY <2>1, <2>2, <2>3, <2>5, ReferencedBy, ReferencedByNext
    DEF flightVars, deferVars, ioVars, scanVars, InHand
  <2>7. ID(Head(memoryMsgChan)) \in Msgs
    BY <2>3, IDType
  <2>8. \A m \in Msgs : /\ fate'[m] = "new" => fate[m] = "new"
                        /\ fate[m] = "done" => fate'[m] = "done"
    BY <1>2, <2>7 DEF PumpReceiveMem, Sample, TypeOK, HistoryOK
  <2> QED
    BY <1>1, <2>1, <2>5, <2>6, <2>8, ObjectsRest DEF flightVars, ioVars
<1>3. ASSUME NEW m \in Msgs, PumpReceiveBackend(c, m) PROVE FALSE
  BY <1>3 DEF PumpReceiveBackend
<1>4. CASE PumpPush(c)
  <2>1. /\ pumpPC[c] = "received" /\ pumpObj[c] \in Objs
        /\ ID(pumpObj[c]) \in Msgs
        /\ inFlightMessages[ID(pumpObj[c])] = NoObj
        /\ UNCHANGED <<qVars, inFlightPQ, index, deferVars, ioVars, scanVars,
                       topic, sent, fate>>
    BY <1>4, IDType, HandNotFiled DEF PumpPush, ObjectInv, TypeOK, PumpOK
  <2>2. /\ inFlightMessages' =
              [inFlightMessages EXCEPT ![ID(pumpObj[c])] = pumpObj[c]]
        /\ PumpGoto(c, "pushed", pumpObj[c])
    BY <1>4, <2>1 DEF PumpPush, pushInFlightMessage
  <2>3. \A d \in Clients : /\ pumpObj'[d] = pumpObj[d]
                           /\ pumpPC'[d] = "tracked" => pumpPC[d] = "tracked"
    BY <2>2 DEF PumpGoto, TypeOK, PumpOK
  <2>4. \A o \in Objs : inFlightMessages'[ID(o)] = o =>
            inFlightMessages[ID(o)] = o \/ o = pumpObj[c]
    BY <2>1, <2>2, IDType DEF TypeOK, FlightOK
  <2>5. \A o \in Objs : Referenced(o)' => Referenced(o)
    BY <2>1, <2>3, <2>4, QueueSame, ReferencedBy, ReferencedByNext
    DEF qVars, deferVars, ioVars, scanVars, InHand
  <2> QED
    BY <1>1, <2>1, <2>3, <2>5, ObjectsRest DEF ioVars
<1>5. CASE PumpAddToPQ(c)
  <2>1. /\ pumpPC[c] = "pushed" /\ pumpObj[c] \in Objs
        /\ addToInFlightPQ(pumpObj[c]) /\ PumpGoto(c, "tracked", pumpObj[c])
        /\ UNCHANGED <<qVars, inFlightMessages, deferVars, ioVars, scanVars,
                       topic, sent, fate>>
    BY <1>5 DEF PumpAddToPQ, TypeOK, PumpOK
  <2>2. /\ \A o \in Objs : index'[o] \in {"zero", "stale"} => index'[o] = index[o]
        /\ index'[pumpObj[c]] = "at"
        /\ \A o \in Objs : o # pumpObj[c] => inFlightPQ'[o] = inFlightPQ[o]
    BY <2>1, AddIndex
  <2>3. /\ \A d \in Clients : pumpObj'[d] = pumpObj[d]
        /\ \A d \in Clients : d # c => pumpPC'[d] = pumpPC[d]
    BY <2>1 DEF PumpGoto, TypeOK, PumpOK
  <2>4. \A o \in Objs : Referenced(o)' => Referenced(o)
    BY <2>1, <2>2, <2>3, QueueSame, ReferencedBy, ReferencedByNext
    DEF qVars, deferVars, ioVars, scanVars, InHand
  <2>5. IndexKept /\ \A o \in Objs : index'[o] # "stale"
    BY <2>2 DEF IndexKept, ObjectInv, NotStale
  <2>6. (FreshUnseen /\ OneObject /\ ZeroUnsent)'
    BY <2>1, <2>4, <2>5, ObjectsKept DEF ObjectInv
  <2>7. ASSUME NEW d \in Clients, pumpPC'[d] = "tracked"
        PROVE  index'[pumpObj'[d]] # "zero"
    <3>1. CASE d = c
      BY <2>2, <2>3, <3>1
    <3>2. CASE d # c
      <4>1. pumpPC[d] = "tracked" /\ pumpObj[d] \in Objs
        BY <2>3, <2>7, <3>2 DEF TypeOK, PumpOK
      <4> QED
        BY <2>2, <2>3, <4>1 DEF ObjectInv, HandIndexed
    <3> QED
      BY <3>1, <3>2
  <2>8. ASSUME NEW d \in Clients, ioPC'[d] = "popped"
        PROVE  /\ index'[ioObj'[d]] # "zero"
               /\ ioOp'[d] = "FIN" => fate'[ID(ioObj'[d])] = "done"
    <3>1. ioPC[d] = "popped" /\ ioObj[d] \in Objs
      BY <2>1, <2>8 DEF ioVars, TypeOK, IoOK
    <3> QED
      BY <2>1, <2>2, <3>1 DEF ioVars, ObjectInv, HandIndexed
  <2> QED
    BY <2>5, <2>6, <2>7, <2>8 DEF ObjectInv, NotStale, HandIndexed, ID
<1>6. CASE PumpSend(c)
  <2>1. /\ pumpPC[c] = "tracked" /\ pumpObj[c] \in Objs
        /\ ID(pumpObj[c]) \in Msgs /\ Referenced(pumpObj[c])
        /\ index[pumpObj[c]] # "zero"
        /\ UNCHANGED <<qVars, flightVars, deferVars, ioVars, scanVars, topic,
                       fate>>
    BY <1>6, IDType, HandsRefer
    DEF PumpSend, TypeOK, PumpOK, ObjectInv, HandIndexed
  <2>2. \A d \in Clients : sent'[d] \subseteq sent[d] \cup {ID(pumpObj[c])}
    BY <1>6 DEF PumpSend, TypeOK, HistoryOK
  <2>3. \A d \in Clients : /\ pumpObj'[d] \in {pumpObj[d], NoObj}
                           /\ pumpPC'[d] = "tracked" =>
                                pumpPC[d] = "tracked" /\ pumpObj'[d] = pumpObj[d]
    BY <1>6 DEF PumpSend, PumpGoto, TypeOK, PumpOK
  <2>4. \A o \in Objs : Referenced(o)' => Referenced(o)
    BY <2>1, <2>3, QueueSame, ReferencedBy, ReferencedByNext, Constants
    DEF qVars, flightVars, deferVars, ioVars, scanVars, InHand
  <2>5. fate[ID(pumpObj[c])] # "new"
    BY <2>1 DEF ObjectInv, FreshUnseen, ObjsOf
  <2>6. FreshUnseen'
    BY <2>1, <2>2, <2>4, <2>5 DEF ObjectInv, FreshUnseen, ObjsOf, ID, Objs
  <2>7. OneObject'
    BY <2>4 DEF ObjectInv, OneObject, ID, Objs
  <2>8. ZeroUnsent'
    <3> SUFFICES ASSUME NEW o \in Objs, Referenced(o), index[o] = "zero",
                        NEW d \in Clients
                 PROVE  ID(o) \notin sent'[d]
      BY <2>1, <2>4 DEF ZeroUnsent, flightVars, ID, Objs
    <3>1. ID(o) # ID(pumpObj[c])
      BY <2>1 DEF ObjectInv, OneObject
    <3> QED
      BY <2>2, <3>1 DEF ObjectInv, ZeroUnsent
  <2>9. NotStale' /\ HandIndexed'
    BY <1>1, <2>1, <2>3, HandsKept DEF flightVars, ioVars, ObjectInv
  <2> QED
    BY <2>6, <2>7, <2>8, <2>9 DEF ObjectInv
<1>7. CASE PumpExit(c)
  <2>1. /\ UNCHANGED <<qVars, flightVars, deferVars, ioVars, scanVars, topic,
                       fate, sent>>
        /\ \A d \in Clients : /\ pumpObj'[d] = pumpObj[d]
                              /\ pumpPC'[d] = "tracked" => pumpPC[d] = "tracked"
    BY <1>7 DEF PumpExit, PumpGoto, TypeOK, PumpOK
  <2>2. \A o \in Objs : Referenced(o)' => Referenced(o)
    BY <2>1, QueueSame, ReferencedBy, ReferencedByNext
    DEF qVars, flightVars, deferVars, ioVars, scanVars, InHand
  <2> QED
    BY <1>1, <2>1, <2>2, ObjectsRest DEF flightVars, ioVars
<1> QED
  BY <1>2, <1>3, <1>4, <1>5, <1>6, <1>7 DEF PumpNext

\* In a calm channel removeFromInFlightPQ takes out an entry of its own
\* argument, or none.
LEMMA RemovesOwn ==
    ASSUME Working, ObjectInv, NEW c \in Clients, ioPC[c] = "popped",
           removeFromInFlightPQ(ioObj[c])
    PROVE  /\ ioObj[c] \in Objs
           /\ ~panicked'
           /\ UNCHANGED <<inFlightPQ, index>> \/ HeapRemove(ioObj[c])
<1>1. ioObj[c] \in Objs
  BY DEF Working, TypeOK, IoOK
<1>2. index[ioObj[c]] \notin {"zero", "stale"}
  BY <1>1 DEF ObjectInv, HandIndexed, NotStale
<1> QED
  BY <1>1, <1>2 DEF removeFromInFlightPQ, Working

\* A client's IOLoop: what it pops was sent to it, and so was in the heap.
LEMMA ObjectIO ==
    ASSUME Working, ObjectInv, NEW c \in Clients, IONext(c)
    PROVE  ObjectInv'
<1> USE DEF Working
<1>1. ASSUME NEW pc, NEW op, NEW obj, IOBecomes(c, pc, op, obj)
      PROVE  /\ \A d \in Clients : d # c =>
                  /\ ioPC'[d] = ioPC[d] /\ ioOp'[d] = ioOp[d]
                  /\ ioObj'[d] = ioObj[d]
             /\ ioPC'[c] = pc /\ ioOp'[c] = op /\ ioObj'[c] = obj
  BY <1>1 DEF IOBecomes, TypeOK, IoOK
<1>2. ASSUME UNCHANGED index
      PROVE  IndexKept /\ \A o \in Objs : index'[o] # "stale"
  BY <1>2 DEF IndexKept, ObjectInv, NotStale
<1>3. \A d \in Clients : \A o \in Objs : ioObj[d] = o => Referenced(o)
  BY DEF Referenced
\* A step that pops nothing, and whose fate and references are settled.
<1>4. ASSUME NEW pc, NEW op, NEW obj \in {ioObj[c], NoObj}, pc # "popped",
             IOBecomes(c, pc, op, obj), IndexKept,
             \A o \in Objs : index'[o] # "stale",
             \A o \in Objs : InQueue(o)' => Referenced(o),
             \A o \in Objs : inFlightMessages'[ID(o)] = o => Referenced(o),
             \A o \in Objs : inFlightPQ'[o] > 0 => Referenced(o),
             \A o \in Objs : deferredMessages'[ID(o)] = o => Referenced(o),
             \A o \in Objs : o \in deferredPQ' => Referenced(o),
             \A m \in Msgs : /\ fate'[m] = "new" => fate[m] = "new"
                             /\ fate[m] = "done" => fate'[m] = "done",
             UNCHANGED <<pumpVars, scanVars, topic, sent>>
      PROVE  ObjectInv'
  <2>1. \A o \in Objs : InHand(o)' => InHand(o)
    BY <1>1, <1>4, Constants DEF InHand, pumpVars, scanVars
  <2>2. \A o \in Objs : Referenced(o)' => Referenced(o)
    BY <1>4, <2>1, ReferencedBy, ReferencedByNext
  <2>3. \A d \in Clients : ioPC'[d] = "popped" =>
            ioPC[d] = "popped" /\ ioObj'[d] = ioObj[d] /\ ioOp'[d] = ioOp[d]
    BY <1>1, <1>4
  <2> QED
    BY <1>4, <2>2, <2>3, ObjectsRest DEF pumpVars
<1>5. /\ \A o \in Objs : InQueue(o) => Referenced(o)
      /\ \A o \in Objs : inFlightMessages[ID(o)] = o => Referenced(o)
      /\ \A o \in Objs : inFlightPQ[o] > 0 => Referenced(o)
      /\ \A o \in Objs : deferredMessages[ID(o)] = o => Referenced(o)
      /\ \A o \in Objs : o \in deferredPQ => Referenced(o)
  BY ReferencedBy
<1>6. ASSUME UNCHANGED memoryMsgChan
      PROVE  \A o \in Objs : InQueue(o)' => Referenced(o)
  BY <1>5, <1>6, QueueSame
<1>7. ASSUME NEW m \in Msgs, NEW op \in Ops, IOPop(c, m, op) PROVE ObjectInv'
  <2>1. /\ m \in sent[c] /\ inFlightMessages[m] # NoObj
        /\ inFlightMessages' = [inFlightMessages EXCEPT ![m] = NoObj]
        /\ IOBecomes(c, "popped", op, inFlightMessages[m])
        /\ UNCHANGED <<qVars, inFlightPQ, index, deferVars, pumpVars, scanVars,
                       topic, sent>>
        /\ fate' = IF op = "FIN" THEN [fate EXCEPT ![m] = "done"] ELSE fate
    BY <1>7 DEF IOPop, popInFlightMessage, InFlightOwner
  <2>2. /\ inFlightMessages[m] \in Objs /\ ID(inFlightMessages[m]) = m
        /\ Referenced(inFlightMessages[m])
    BY <2>1, HandsRefer
  <2>3. \A o \in Objs : inFlightMessages'[ID(o)] = o => inFlightMessages[ID(o)] = o
    BY <2>1, IDType, Constants DEF TypeOK, FlightOK
  <2>4. \A o \in Objs : InHand(o)' => InHand(o) \/ o = inFlightMessages[m]
    BY <1>1, <2>1 DEF InHand, pumpVars, scanVars
  <2>5. \A o \in Objs : Referenced(o)' => Referenced(o)
    BY <2>1, <2>2, <2>3, <2>4, QueueSame, ReferencedBy, ReferencedByNext
    DEF qVars, deferVars
  <2>6. \A n \in Msgs : /\ fate'[n] = "new" => fate[n] = "new"
                        /\ fate[n] = "done" => fate'[n] = "done"
    BY <2>1 DEF TypeOK, HistoryOK
  <2>7. (FreshUnseen /\ OneObject /\ ZeroUnsent)'
    BY <1>2, <2>1, <2>5, <2>6, ObjectsKept DEF ObjectInv
  <2>8. index[inFlightMessages[m]] # "zero"
    BY <2>1, <2>2 DEF ObjectInv, ZeroUnsent
  <2>9. ASSUME NEW d \in Clients, ioPC'[d] = "popped"
        PROVE  /\ index'[ioObj'[d]] # "zero"
               /\ ioOp'[d] = "FIN" => fate'[ID(ioObj'[d])] = "done"
    <3>1. CASE d = c
      BY <1>1, <2>1, <2>2, <2>8, <3>1 DEF TypeOK, HistoryOK
    <3>2. CASE d # c
      <4>1. /\ ioPC[d] = "popped" /\ ioObj'[d] = ioObj[d] /\ ioOp'[d] = ioOp[d]
            /\ ID(ioObj[d]) \in Msgs
        BY <1>1, <2>1, <2>9, <3>2, IDType DEF TypeOK, IoOK
      <4> QED
        BY <2>1, <2>6, <4>1 DEF ObjectInv, HandIndexed
    <3> QED
      BY <3>1, <3>2
  <2>10. \A d \in Clients : pumpPC'[d] = "tracked" => index'[pumpObj'[d]] # "zero"
    BY <2>1 DEF ObjectInv, HandIndexed, pumpVars
  <2> QED
    BY <2>1, <2>7, <2>9, <2>10 DEF ObjectInv, NotStale, HandIndexed, ID
<1>8. CASE IORemovePQ(c)
  <2>1. /\ ioPC[c] = "popped" /\ removeFromInFlightPQ(ioObj[c])
        /\ UNCHANGED <<qVars, inFlightMessages, deferVars, pumpVars, scanVars,
                       topic, sent, fate>>
        /\ IOSettling(c) \/ IOGoto(c, "removed")
    BY <1>8 DEF IORemovePQ
  <2>2. /\ ioObj[c] \in Objs
        /\ UNCHANGED <<inFlightPQ, index>> \/ HeapRemove(ioObj[c])
    BY <2>1, RemovesOwn
  <2>3. /\ \A o \in Objs : index'[o] \in {"zero", "stale"} => index'[o] = index[o]
        /\ \A o \in Objs : inFlightPQ'[o] > 0 => inFlightPQ[o] > 0
    BY <2>2, RemoveIndex
  <2>4. IndexKept /\ \A o \in Objs : index'[o] # "stale"
    BY <2>3 DEF IndexKept, ObjectInv, NotStale
  <2> QED
    BY <1>4, <1>5, <1>6, <2>1, <2>3, <2>4
    DEF qVars, deferVars, IOSettling, IOGoto
<1>9. CASE IORequeue(c)
  <2>1. /\ IOSettling(c) /\ put(ioObj[c]) /\ ioObj[c] \in Objs
        /\ UNCHANGED <<flightVars, deferVars, pumpVars, scanVars, topic, sent>>
    BY <1>9 DEF IORequeue, TypeOK, IoOK
  <2>2. \A o \in Objs : InQueue(o)' => Referenced(o)
    BY <1>3, <1>5, <2>1, QueuePut DEF TypeOK, QueueOK
  <2>3. \A m \in Msgs : /\ fate'[m] = "new" => fate[m] = "new"
                        /\ fate[m] = "done" => fate'[m] = "done"
    BY <2>1, PutFate
  <2> QED
    BY <1>2, <1>4, <1>5, <2>1, <2>2, <2>3 DEF flightVars, deferVars, IOSettling
<1>10. CASE IODefer(c)
  <2>1. /\ UNCHANGED <<qVars, flightVars, deferredPQ, pumpVars, scanVars, topic,
                       sent, fate>>
        /\ ioObj[c] \in Objs /\ ID(ioObj[c]) \in Msgs
        /\ IOGoto(c, "deferring") \/ IODone(c)
    BY <1>10, IDType DEF IODefer, TypeOK, IoOK
  <2>2. \/ UNCHANGED deferredMessages
        \/ deferredMessages' =
              [deferredMessages EXCEPT ![ID(ioObj[c])] = ioObj[c]]
    BY <1>10 DEF IODefer, pushDeferredMessage
  <2>3. \A o \in Objs : deferredMessages'[ID(o)] = o => Referenced(o)
    BY <1>3, <1>5, <2>1, <2>2, IDType DEF TypeOK, DeferOK
  <2> QED
    BY <1>2, <1>4, <1>5, <1>6, <2>1, <2>3 DEF qVars, flightVars, IOGoto, IODone
<1>11. CASE IOAddToDeferredPQ(c)
  <2>1. /\ UNCHANGED <<qVars, flightVars, deferredMessages, pumpVars, scanVars,
                       topic, sent, fate>>
        /\ deferredPQ' = deferredPQ \cup {ioObj[c]} /\ IOSettling(c)
    BY <1>11 DEF IOAddToDeferredPQ
  <2> QED
    BY <1>2, <1>3, <1>4, <1>5, <1>6, <2>1 DEF qVars, flightVars, IOSettling
<1>12. CASE IOTouchPush(c)
  <2>1. /\ UNCHANGED <<qVars, inFlightPQ, index, deferVars, pumpVars, scanVars,
                       topic, sent, fate>>
        /\ ioObj[c] \in Objs /\ ID(ioObj[c]) \in Msgs
        /\ IOGoto(c, "repushed") \/ IODone(c)
    BY <1>12, IDType DEF IOTouchPush, TypeOK, IoOK
  <2>2. \/ UNCHANGED inFlightMessages
        \/ inFlightMessages' =
              [inFlightMessages EXCEPT ![ID(ioObj[c])] = ioObj[c]]
    BY <1>12 DEF IOTouchPush, pushInFlightMessage
  <2>3. \A o \in Objs : inFlightMessages'[ID(o)] = o => Referenced(o)
    BY <1>3, <1>5, <2>1, <2>2, IDType DEF TypeOK, FlightOK
  <2> QED
    BY <1>2, <1>4, <1>5, <1>6, <2>1, <2>3 DEF qVars, deferVars, IOGoto, IODone
<1>13. CASE IOTouchAddToPQ(c)
  <2>1. /\ UNCHANGED <<qVars, inFlightMessages, deferVars, pumpVars, scanVars,
                       topic, sent, fate>>
        /\ ioObj[c] \in Objs /\ addToInFlightPQ(ioObj[c]) /\ IODone(c)
    BY <1>13 DEF IOTouchAddToPQ, TypeOK, IoOK
  <2>2. /\ \A o \in Objs : index'[o] \in {"zero", "stale"} => index'[o] = index[o]
        /\ \A o \in Objs : o # ioObj[c] => inFlightPQ'[o] = inFlightPQ[o]
    BY <2>1, AddIndex
  <2>3. IndexKept /\ \A o \in Objs : index'[o] # "stale"
    BY <2>2 DEF IndexKept, ObjectInv, NotStale
  <2>4. \A o \in Objs : inFlightPQ'[o] > 0 => Referenced(o)
    BY <1>3, <1>5, <2>2
  <2> QED
    BY <1>4, <1>5, <1>6, <2>1, <2>3, <2>4 DEF qVars, deferVars, IODone
<1>14. CASE IOSettle(c)
  <2>1. /\ UNCHANGED <<qVars, flightVars, deferVars, pumpVars, scanVars, topic,
                       sent, fate>>
        /\ IODone(c)
    BY <1>14 DEF IOSettle
  <2> QED
    BY <1>2, <1>4, <1>5, <1>6, <2>1 DEF qVars, flightVars, deferVars, IODone
<1> QED
  BY <1>7, <1>8, <1>9, <1>10, <1>11, <1>12, <1>13, <1>14 DEF IONext, IOStep

\* The scan worker: it takes what it refers to from the heaps.
LEMMA ObjectScan ==
    ASSUME Working, ObjectInv, ScanNext
    PROVE  ObjectInv'
<1> USE DEF Working
<1>1. ASSUME UNCHANGED index
      PROVE  IndexKept /\ \A o \in Objs : index'[o] # "stale"
  BY <1>1 DEF IndexKept, ObjectInv, NotStale
<1>2. /\ \A o \in Objs : InQueue(o) => Referenced(o)
      /\ \A o \in Objs : inFlightMessages[ID(o)] = o => Referenced(o)
      /\ \A o \in Objs : inFlightPQ[o] > 0 => Referenced(o)
      /\ \A o \in Objs : deferredMessages[ID(o)] = o => Referenced(o)
      /\ \A o \in Objs : o \in deferredPQ => Referenced(o)
      /\ \A o \in Objs : scanObj = o => Referenced(o)
  BY ReferencedBy DEF InHand
\* A step whose fate and references are settled.
<1>3. ASSUME NEW pc, NEW obj, NEW cl, ScanGoto(pc, obj, cl), IndexKept,
             obj \in Objs => Referenced(obj),
             \A o \in Objs : index'[o] # "stale",
             \A o \in Objs : InQueue(o)' => Referenced(o),
             \A o \in Objs : inFlightMessages'[ID(o)] = o => Referenced(o),
             \A o \in Objs : inFlightPQ'[o] > 0 => Referenced(o),
             \A o \in Objs : deferredMessages'[ID(o)] = o => Referenced(o),
             \A o \in Objs : o \in deferredPQ' => Referenced(o),
             \A m \in Msgs : /\ fate'[m] = "new" => fate[m] = "new"
                             /\ fate[m] = "done" => fate'[m] = "done",
             UNCHANGED <<pumpVars, ioVars, topic, sent>>
      PROVE  ObjectInv'
  <2>1. \A o \in Objs : InHand(o)' => InHand(o) \/ o = obj
    BY <1>3 DEF InHand, pumpVars, ioVars, ScanGoto
  <2>2. \A o \in Objs : Referenced(o)' => Referenced(o)
    BY <1>3, <2>1, ReferencedBy, ReferencedByNext
  <2> QED
    BY <1>3, <2>2, ObjectsRest DEF pumpVars, ioVars
<1>4. ASSUME UNCHANGED memoryMsgChan
      PROVE  \A o \in Objs : InQueue(o)' => Referenced(o)
  BY <1>2, <1>4, QueueSame
<1>5. ASSUME NEW x \in Objs, ScanShift(x) PROVE ObjectInv'
  <2>1. /\ HeapRemove(x) /\ ScanGoto("shifted", x, NoClient)
        /\ UNCHANGED <<qVars, inFlightMessages, deferVars, pumpVars, ioVars,
                       topic, sent, fate>>
    BY <1>5 DEF ScanShift
  <2>2. /\ \A o \in Objs : index'[o] \in {"zero", "stale"} => index'[o] = index[o]
        /\ \A o \in Objs : inFlightPQ'[o] > 0 => inFlightPQ[o] > 0
        /\ inFlightPQ[x] > 0
    BY <2>1, RemoveIndex
  <2>3. IndexKept /\ \A o \in Objs : index'[o] # "stale"
    BY <2>2 DEF IndexKept, ObjectInv, NotStale
  <2> QED
    BY <1>2, <1>3, <1>4, <2>1, <2>2, <2>3 DEF qVars, deferVars
<1>6. CASE ScanReadOwner
  <2>1. /\ UNCHANGED <<qVars, flightVars, deferVars, pumpVars, ioVars, topic,
                       sent, fate>>
        /\ ScanGoto("owned", scanObj, clientID[scanObj])
    BY <1>6 DEF ScanReadOwner
  <2> QED
    BY <1>1, <1>2, <1>3, <1>4, <2>1 DEF qVars, flightVars, deferVars
<1>7. CASE ScanPop
  <2>1. /\ UNCHANGED <<qVars, inFlightPQ, index, deferVars, pumpVars, ioVars,
                       topic, sent, fate>>
        /\ scanObj \in Objs /\ ID(scanObj) \in Msgs
        /\ ScanGoto("timedout", scanObj, NoClient) \/ ScanGoto("idle", NoObj, NoClient)
    BY <1>7, IDType DEF ScanPop, TypeOK, ScanOK
  <2>2. \/ UNCHANGED inFlightMessages
        \/ inFlightMessages' = [inFlightMessages EXCEPT ![ID(scanObj)] = NoObj]
    BY <1>7 DEF ScanPop, popInFlightMessage
  <2>3. \A o \in Objs : inFlightMessages'[ID(o)] = o => Referenced(o)
    BY <1>2, <2>1, <2>2, IDType, Constants DEF TypeOK, FlightOK
  <2> QED
    BY <1>1, <1>2, <1>3, <1>4, <2>1, <2>3, Constants DEF qVars, deferVars
<1>8. CASE ScanTimedOut
  <2>1. /\ UNCHANGED <<qVars, flightVars, deferVars, pumpVars, ioVars, topic,
                       sent, fate>>
        /\ ScanGoto("putting", scanObj, NoClient)
    BY <1>8 DEF ScanTimedOut
  <2> QED
    BY <1>1, <1>2, <1>3, <1>4, <2>1 DEF qVars, flightVars, deferVars
<1>9. CASE ScanPut
  <2>1. /\ UNCHANGED <<flightVars, deferVars, pumpVars, ioVars, topic, sent>>
        /\ put(scanObj) /\ scanObj \in Objs /\ ScanGoto("idle", NoObj, NoClient)
    BY <1>9 DEF ScanPut, TypeOK, ScanOK
  <2>2. \A o \in Objs : InQueue(o)' => Referenced(o)
    BY <1>2, <2>1, QueuePut DEF TypeOK, QueueOK
  <2>3. \A m \in Msgs : /\ fate'[m] = "new" => fate[m] = "new"
                        /\ fate[m] = "done" => fate'[m] = "done"
    BY <2>1, PutFate
  <2> QED
    BY <1>1, <1>2, <1>3, <2>1, <2>2, <2>3, Constants DEF flightVars, deferVars
<1>10. ASSUME NEW x \in Objs, ScanShiftDeferred(x) PROVE ObjectInv'
  <2>1. /\ UNCHANGED <<qVars, flightVars, deferredMessages, pumpVars, ioVars,
                       topic, sent, fate>>
        /\ x \in deferredPQ /\ deferredPQ' = deferredPQ \ {x}
        /\ ScanGoto("dshifted", x, NoClient)
    BY <1>10 DEF ScanShiftDeferred
  <2> QED
    BY <1>1, <1>2, <1>3, <1>4, <2>1 DEF qVars, flightVars
<1>11. CASE ScanPopDeferred
  <2>1. /\ UNCHANGED <<qVars, flightVars, deferredPQ, pumpVars, ioVars, topic,
                       sent, fate>>
        /\ scanObj \in Objs /\ ID(scanObj) \in Msgs
        /\ ScanGoto("dpopped", scanObj, NoClient) \/ ScanGoto("idle", NoObj, NoClient)
    BY <1>11, IDType DEF ScanPopDeferred, TypeOK, ScanOK
  <2>2. \/ UNCHANGED deferredMessages
        \/ deferredMessages' = [deferredMessages EXCEPT ![ID(scanObj)] = NoObj]
    BY <1>11 DEF ScanPopDeferred
  <2>3. \A o \in Objs : deferredMessages'[ID(o)] = o => Referenced(o)
    BY <1>2, <2>1, <2>2, IDType, Constants DEF TypeOK, DeferOK
  <2> QED
    BY <1>1, <1>2, <1>3, <1>4, <2>1, <2>3, Constants DEF qVars, flightVars
<1> QED
  BY <1>5, <1>6, <1>7, <1>8, <1>9, <1>10, <1>11 DEF ScanNext, ScanStep

\* Subscriptions touch no object.
LEMMA ObjectSub ==
    ASSUME Working, ObjectInv, NEW c \in Clients, SubNext(c), PumpOffUntilSub
    PROVE  ObjectInv'
<1> USE DEF Working
<1>1. /\ UNCHANGED <<qVars, flightVars, deferVars, ioVars, scanVars, topic,
                     sent, fate>>
      /\ UNCHANGED pumpVars \/ (PumpGoto(c, "idle", NoObj) /\ pumpPC[c] = "off")
  BY DEF SubNext, AddClientCheck, AddClientInsert, SUB, Disconnect,
      RemoveClient, procVars, PumpOffUntilSub
<1>2. \A d \in Clients : /\ pumpObj'[d] \in {pumpObj[d], NoObj}
                         /\ pumpPC'[d] = "tracked" =>
                              pumpPC[d] = "tracked" /\ pumpObj'[d] = pumpObj[d]
  BY <1>1 DEF pumpVars, PumpGoto, TypeOK, PumpOK
<1>3. \A o \in Objs : Referenced(o)' => Referenced(o)
  BY <1>1, <1>2, QueueSame, ReferencedBy, ReferencedByNext, Constants
  DEF qVars, flightVars, deferVars, ioVars, scanVars, InHand
<1>4. IndexKept /\ \A o \in Objs : index'[o] # "stale"
  BY <1>1 DEF IndexKept, ObjectInv, NotStale, flightVars
<1> QED
  BY <1>1, <1>2, <1>3, <1>4, ObjectsRest DEF flightVars, ioVars

(***************************************************************************)
(* The in-flight map.                                                      *)
(***************************************************************************)

\* o is in the heap, or somebody who has filed it is about to add it.
Timed(o) ==
    \/ inFlightPQ[o] > 0
    \/ \E c \in Clients : pumpPC[c] = "pushed" /\ pumpObj[c] = o
    \/ \E c \in Clients : ioPC[c] = "repushed" /\ ioObj[c] = o

\* The scan worker has taken o from the heap and will find its owner: had the
\* owner changed since it was read, the new one would have added it again.
ScanHas(o) ==
    /\ scanObj = o
    /\ scanPC = "shifted" \/ (scanPC = "owned" /\ clientID[o] = scanClient)

TimedInv ==
    \A m \in Msgs : \A o \in Objs :
        inFlightMessages[m] = o => Timed(o) \/ ScanHas(o)

\* What is filed after a step has its timeout if it is new there and timed, or
\* if it was there and the step takes no timeout away.
LEMMA TimedKept ==
    ASSUME TimedInv,
           \A m \in Msgs : \A o \in Objs : inFlightMessages'[m] = o =>
              \/ Timed(o)'
              \/ /\ inFlightMessages[m] = o
                 /\ Timed(o) => Timed(o)'
                 /\ ScanHas(o) => ScanHas(o)' \/ Timed(o)'
    PROVE  TimedInv'
<1>1. ASSUME NEW m \in Msgs, NEW o \in Objs, inFlightMessages'[m] = o
      PROVE  Timed(o)' \/ ScanHas(o)'
  BY <1>1 DEF TimedInv
<1> QED
  BY <1>1 DEF TimedInv, Objs

\* A step that only looks at other things.
LEMMA TimedSame ==
    ASSUME TimedInv, UNCHANGED <<inFlightMessages, inFlightPQ, clientID, scanVars>>,
           \A c \in Clients : pumpPC[c] = "pushed" =>
              pumpPC'[c] = "pushed" /\ pumpObj'[c] = pumpObj[c],
           \A c \in Clients : ioPC[c] = "repushed" =>
              ioPC'[c] = "repushed" /\ ioObj'[c] = ioObj[c]
    PROVE  TimedInv'
BY DEF TimedInv, Timed, ScanHas, scanVars

\* The topic's messagePump allocates objects that are in no map.
LEMMA TimedTopic ==
    ASSUME Working, ObjectInv, TimedInv, TopicNext
    PROVE  TimedInv'
<1> USE DEF Working
<1>1. /\ UNCHANGED <<inFlightMessages, inFlightPQ, pumpVars, ioVars, scanVars>>
      /\ \A o \in Objs : Referenced(o) => clientID'[o] = clientID[o]
  BY DEF TopicNext, PutMessage, PutMessageDeferred, TopicAddToDeferredPQ,
      Allocated, flightVars, procVars, TypeOK, FlightOK
<1>2. \A m \in Msgs : \A o \in Objs : inFlightMessages[m] = o =>
          clientID'[o] = clientID[o]
  BY <1>1, HandsRefer, Constants
<1> QED
  BY <1>1, <1>2, TimedKept DEF Timed, ScanHas, pumpVars, ioVars, scanVars

\* The messagePump of a client files, then adds to the heap.
LEMMA TimedPump ==
    ASSUME Working, ObjectInv, TimedInv, NEW c \in Clients, PumpNext(c)
    PROVE  TimedInv'
<1> USE DEF Working
<1>1. ASSUME NEW pc, NEW obj, PumpGoto(c, pc, obj)
      PROVE  /\ \A d \in Clients : d # c =>
                  pumpPC'[d] = pumpPC[d] /\ pumpObj'[d] = pumpObj[d]
             /\ pumpPC'[c] = pc /\ pumpObj'[c] = obj
  BY <1>1 DEF PumpGoto, TypeOK, PumpOK
<1>2. CASE PumpReceiveMem(c) \/ PumpSend(c) \/ PumpExit(c)
  <2>1. /\ UNCHANGED <<flightVars, ioVars, scanVars>> /\ pumpPC[c] # "pushed"
        /\ UNCHANGED pumpVars \/ \E pc, obj : PumpGoto(c, pc, obj)
    BY <1>2 DEF PumpReceiveMem, Sample, PumpSend, PumpExit
  <2> QED
    BY <1>1, <2>1, TimedSame DEF flightVars, pumpVars, ioVars
<1>3. ASSUME NEW m \in Msgs, PumpReceiveBackend(c, m) PROVE FALSE
  BY <1>3 DEF PumpReceiveBackend
<1>4. CASE PumpPush(c)
  <2> DEFINE o == pumpObj[c]
  <2>1. /\ pumpPC[c] = "received" /\ o \in Objs /\ ID(o) \in Msgs
        /\ inFlightMessages[ID(o)] = NoObj
        /\ UNCHANGED <<inFlightPQ, ioVars, scanVars>>
        /\ clientID' = [clientID EXCEPT ![o] = c]
    BY <1>4, IDType, HandNotFiled DEF PumpPush, ObjectInv, TypeOK, PumpOK
  <2>2. /\ inFlightMessages' = [inFlightMessages EXCEPT ![ID(o)] = o]
        /\ PumpGoto(c, "pushed", o)
    BY <1>4, <2>1 DEF PumpPush, pushInFlightMessage
  <2>3. \A x : Timed(x) \/ x = o => Timed(x)'
    BY <1>1, <2>1, <2>2 DEF Timed, ioVars
  <2>4. ASSUME NEW m \in Msgs, NEW x \in Objs, inFlightMessages'[m] = x, x # o
        PROVE  inFlightMessages[m] = x /\ clientID'[x] = clientID[x]
    BY <2>1, <2>2, <2>4 DEF TypeOK, FlightOK
  <2> QED
    BY <2>1, <2>3, <2>4, TimedKept DEF ScanHas, scanVars
<1>5. CASE PumpAddToPQ(c)
  <2>1. /\ pumpPC[c] = "pushed" /\ pumpObj[c] \in Objs
        /\ addToInFlightPQ(pumpObj[c]) /\ PumpGoto(c, "tracked", pumpObj[c])
        /\ UNCHANGED <<inFlightMessages, clientID, ioVars, scanVars>>
    BY <1>5 DEF PumpAddToPQ, TypeOK, PumpOK
  <2>2. /\ inFlightPQ'[pumpObj[c]] > 0
        /\ \A p \in Objs : p # pumpObj[c] => inFlightPQ'[p] = inFlightPQ[p]
    BY <2>1, AddIndex
  <2>3. \A p \in Objs : Timed(p) => Timed(p)'
    BY <1>1, <2>1, <2>2 DEF Timed, ioVars
  <2> QED
    BY <2>1, <2>3, TimedKept DEF ScanHas, scanVars
<1> QED
  BY <1>2, <1>3, <1>4, <1>5 DEF PumpNext

\* A command takes a message out of the map before it takes it out of the
\* heap, and TOUCH puts it back in the same order.
LEMMA TimedIO ==
    ASSUME Working, ObjectInv, TimedInv, NEW c \in Clients, IONext(c)
    PROVE  TimedInv' /\ ~panicked'
<1> USE DEF Working
<1>1. ASSUME NEW pc, NEW op, NEW obj, IOBecomes(c, pc, op, obj)
      PROVE  /\ \A d \in Clients : d # c =>
                  ioPC'[d] = ioPC[d] /\ ioObj'[d] = ioObj[d]
             /\ ioPC'[c] = pc /\ ioObj'[c] = obj
  BY <1>1 DEF IOBecomes, TypeOK, IoOK
<1>2. CASE IORequeue(c) \/ IODefer(c) \/ IOAddToDeferredPQ(c) \/ IOSettle(c)
  <2>1. /\ UNCHANGED <<flightVars, pumpVars, scanVars, panicked>>
        /\ ioPC[c] # "repushed" /\ \E pc, op, obj : IOBecomes(c, pc, op, obj)
    BY <1>2
    DEF IORequeue, IODefer, IOAddToDeferredPQ, IOSettle, IOGoto, IODone,
        IOSettling
  <2> QED
    BY <1>1, <2>1, TimedSame DEF flightVars, pumpVars
<1>3. ASSUME NEW m \in Msgs, NEW op \in Ops, IOPop(c, m, op)
      PROVE  TimedInv' /\ ~panicked'
  <2>1. /\ ioPC[c] = "idle" /\ IOBecomes(c, "popped", op, inFlightMessages[m])
        /\ inFlightMessages' = [inFlightMessages EXCEPT ![m] = NoObj]
        /\ UNCHANGED <<inFlightPQ, clientID, pumpVars, scanVars, panicked>>
    BY <1>3 DEF IOPop, popInFlightMessage
  <2>2. \A p : Timed(p) => Timed(p)'
    BY <1>1, <2>1 DEF Timed, pumpVars
  <2>3. \A n \in Msgs : \A o \in Objs :
            inFlightMessages'[n] = o => inFlightMessages[n] = o
    BY <2>1, Constants DEF TypeOK, FlightOK
  <2> QED
    BY <2>1, <2>2, <2>3, TimedKept DEF ScanHas, scanVars
<1>4. CASE IORemovePQ(c)
  <2>1. /\ ioPC[c] = "popped" /\ removeFromInFlightPQ(ioObj[c])
        /\ UNCHANGED <<inFlightMessages, clientID, pumpVars, scanVars>>
        /\ IOSettling(c) \/ IOGoto(c, "removed")
    BY <1>4 DEF IORemovePQ
  <2>2. /\ ioObj[c] \in Objs /\ ~panicked'
        /\ UNCHANGED <<inFlightPQ, index>> \/ HeapRemove(ioObj[c])
    BY <2>1, RemovesOwn
  <2>3. \A p \in Objs : p # ioObj[c] => inFlightPQ'[p] = inFlightPQ[p]
    BY <2>2, RemoveIndex
  <2>4. \A p \in Objs : p # ioObj[c] => (Timed(p) => Timed(p)')
    BY <1>1, <2>1, <2>3 DEF Timed, pumpVars, IOSettling, IOGoto
  <2>5. \A m \in Msgs : \A o \in Objs :
            inFlightMessages[m] = o => o # ioObj[c]
    BY <2>1, HandsRefer, HandNotFiled, Constants DEF ObjectInv
  <2> QED
    BY <2>1, <2>2, <2>4, <2>5, TimedKept DEF ScanHas, scanVars
<1>5. CASE IOTouchPush(c)
  <2>1. /\ ioPC[c] = "removed" /\ ioOp[c] = "TOUCH" /\ ioObj[c] \in Objs
        /\ ID(ioObj[c]) \in Msgs /\ inFlightMessages[ID(ioObj[c])] = NoObj
        /\ UNCHANGED <<inFlightPQ, clientID, pumpVars, scanVars, panicked>>
    BY <1>5, IDType, HandNotFiled DEF IOTouchPush, ObjectInv, TypeOK, IoOK
  <2>2. /\ inFlightMessages' =
              [inFlightMessages EXCEPT ![ID(ioObj[c])] = ioObj[c]]
        /\ IOGoto(c, "repushed")
    BY <1>5, <2>1 DEF IOTouchPush, pushInFlightMessage
  <2>3. \A p : Timed(p) \/ p = ioObj[c] => Timed(p)'
    BY <1>1, <2>1, <2>2 DEF Timed, pumpVars, IOGoto
  <2>4. ASSUME NEW m \in Msgs, NEW p \in Objs, inFlightMessages'[m] = p,
               p # ioObj[c]
        PROVE  inFlightMessages[m] = p
    BY <2>1, <2>2, <2>4 DEF TypeOK, FlightOK
  <2> QED
    BY <2>1, <2>3, <2>4, TimedKept DEF ScanHas, scanVars
<1>6. CASE IOTouchAddToPQ(c)
  <2>1. /\ ioPC[c] = "repushed" /\ ioObj[c] \in Objs /\ IODone(c)
        /\ addToInFlightPQ(ioObj[c])
        /\ UNCHANGED <<inFlightMessages, clientID, pumpVars, scanVars, panicked>>
    BY <1>6 DEF IOTouchAddToPQ, TypeOK, IoOK
  <2>2. /\ inFlightPQ'[ioObj[c]] > 0
        /\ \A p \in Objs : p # ioObj[c] => inFlightPQ'[p] = inFlightPQ[p]
    BY <2>1, AddIndex
  <2>3. \A p \in Objs : Timed(p) => Timed(p)'
    BY <1>1, <2>1, <2>2 DEF Timed, pumpVars, IODone
  <2> QED
    BY <2>1, <2>3, TimedKept DEF ScanHas, scanVars
<1> QED
  BY <1>2, <1>3, <1>4, <1>5, <1>6 DEF IONext, IOStep

\* The scan worker takes an entry from the heap, and then the message out of
\* the map unless its owner has changed meanwhile.
LEMMA TimedScan ==
    ASSUME Working, ObjectInv, TimedInv, ScanNext
    PROVE  TimedInv'
<1> USE DEF Working
<1>1. ASSUME scanPC \notin {"shifted", "owned"},
             UNCHANGED <<flightVars, pumpVars, ioVars>>
      PROVE  TimedInv'
  BY <1>1 DEF TimedInv, Timed, ScanHas, flightVars, pumpVars, ioVars
<1>2. CASE ScanTimedOut \/ ScanPut \/ ScanPopDeferred
  BY <1>1, <1>2 DEF ScanTimedOut, ScanPut, ScanPopDeferred
<1>3. ASSUME NEW x \in Objs, ScanShiftDeferred(x) PROVE TimedInv'
  BY <1>1, <1>3 DEF ScanShiftDeferred, ScanMayStart
<1>4. ASSUME NEW x \in Objs, ScanShift(x) PROVE TimedInv'
  <2>1. /\ HeapRemove(x) /\ scanPC = "idle"
        /\ scanPC' = "shifted" /\ scanObj' = x
        /\ UNCHANGED <<inFlightMessages, clientID, pumpVars, ioVars>>
    BY <1>4 DEF ScanShift, ScanMayStart, ScanGoto
  <2>2. \A p \in Objs : p # x => inFlightPQ'[p] = inFlightPQ[p]
    BY <2>1, RemoveIndex
  <2>3. \A p \in Objs : p # x => (Timed(p) => Timed(p)')
    BY <2>1, <2>2 DEF Timed, pumpVars, ioVars
  <2>4. \A p : ~ScanHas(p)
    BY <2>1 DEF ScanHas
  <2>5. \A p : p = x => ScanHas(p)'
    BY <2>1 DEF ScanHas
  <2>6. \A m \in Msgs : \A p \in Objs : inFlightMessages[m] = p =>
            Timed(p)' \/ ScanHas(p)'
    BY <2>3, <2>4, <2>5 DEF TimedInv
  <2> QED
    BY <2>1, <2>6 DEF TimedInv, Objs
<1>5. CASE ScanReadOwner
  <2>1. /\ scanPC = "shifted" /\ scanPC' = "owned" /\ scanObj' = scanObj
        /\ scanClient' = clientID[scanObj]
        /\ UNCHANGED <<flightVars, pumpVars, ioVars>>
    BY <1>5 DEF ScanReadOwner, ScanGoto
  <2> QED
    BY <2>1 DEF TimedInv, Timed, ScanHas, flightVars, pumpVars, ioVars
<1>6. CASE ScanPop
  <2>1. /\ scanPC = "owned" /\ scanObj \in Objs /\ ID(scanObj) \in Msgs
        /\ UNCHANGED <<inFlightPQ, clientID, pumpVars, ioVars>>
    BY <1>6, IDType DEF ScanPop, TypeOK, ScanOK
  <2>2. \A m \in Msgs : m # ID(scanObj) =>
            /\ inFlightMessages'[m] = inFlightMessages[m]
            /\ inFlightMessages[m] # scanObj
    <3>1. \A m \in Msgs : m # ID(scanObj) =>
              inFlightMessages'[m] = inFlightMessages[m]
      BY <1>6, <2>1 DEF ScanPop, popInFlightMessage, TypeOK, FlightOK
    <3> QED
      BY <2>1, <3>1, HandsRefer, Constants
  <2>3. \/ inFlightMessages'[ID(scanObj)] = NoObj
        \/ /\ UNCHANGED inFlightMessages
           /\ clientID[inFlightMessages[ID(scanObj)]] # scanClient
    BY <1>6, <2>1
    DEF ScanPop, popInFlightMessage, InFlightOwner, TypeOK, FlightOK
  <2>4. \A p : Timed(p)' <=> Timed(p)
    BY <2>1 DEF Timed, pumpVars, ioVars
  <2>5. ASSUME NEW m \in Msgs, NEW o \in Objs, inFlightMessages'[m] = o
        PROVE  inFlightMessages[m] = o /\ ~ScanHas(o)
    BY <2>1, <2>2, <2>3, <2>5, Constants DEF ScanHas
  <2> QED
    BY <2>4, <2>5, TimedKept
<1> QED
  BY <1>2, <1>3, <1>4, <1>5, <1>6 DEF ScanNext, ScanStep

\* Subscriptions leave the map and the heap alone.
LEMMA TimedSub ==
    ASSUME Working, TimedInv, NEW c \in Clients, SubNext(c), PumpOffUntilSub
    PROVE  TimedInv'
<1> USE DEF Working
<1>1. /\ UNCHANGED <<flightVars, ioVars, scanVars>>
      /\ UNCHANGED pumpVars \/ (PumpGoto(c, "idle", NoObj) /\ pumpPC[c] = "off")
  BY DEF SubNext, AddClientCheck, AddClientInsert, SUB, Disconnect,
      RemoveClient, procVars, PumpOffUntilSub
<1>2. \A d \in Clients : pumpPC[d] = "pushed" =>
          pumpPC'[d] = "pushed" /\ pumpObj'[d] = pumpObj[d]
  BY <1>1 DEF pumpVars, PumpGoto, TypeOK, PumpOK
<1> QED
  BY <1>1, <1>2, TimedSame DEF flightVars, ioVars

(***************************************************************************)
(* InFlightCount.                                                          *)
(***************************************************************************)

\* The messages c has in flight.
Owned(c) == {m \in Msgs : InFlightOwner(c, m)}

\* A client is added with a clean slate.
Early(c) == sub[c] \in {"new", "adding", "added"}

EarlyInv ==
    \A c \in Clients :
        /\ Early(c) => /\ ioPC[c] = "idle" /\ inFlightCount[c] = 0
                       /\ \A o \in Objs : clientID[o] # c
        /\ sub[c] \in {"new", "adding"} => c \notin clients

Counted(c) ==
    /\ IsFiniteSet(Owned(c))
    /\ inFlightCount[c] = Cardinality(Owned(c))
                          + PendingDecrements(c) - PendingIncrements(c)

CountInv == EarlyInv /\ CommandOwner /\ \A c \in clients : Counted(c)

\* The pending decrements, by who makes them.
IOPending(c) == IF ioPC[c] \in {"idle", "repushed"} THEN 0 ELSE 1
ScanPending(c) == IF scanPC = "timedout" /\ clientID[scanObj] = c THEN 1 ELSE 0

\* A step that changes nothing the count of c is made of.
LEMMA CountedSame ==
    ASSUME NEW c, Counted(c), Owned(c)' = Owned(c),
           inFlightCount'[c] = inFlightCount[c],
           IOPending(c)' = IOPending(c), ScanPending(c)' = ScanPending(c),
           PendingIncrements(c)' = PendingIncrements(c)
    PROVE  Counted(c)'
<1>1. /\ PendingDecrements(c) = IOPending(c) + ScanPending(c)
      /\ PendingDecrements(c)' = IOPending(c)' + ScanPending(c)'
  BY DEF PendingDecrements, IOPending, ScanPending
<1> QED
  BY <1>1 DEF Counted

\* A step that moves one from the count of c to what is pending, or back.
LEMMA CountedMove ==
    ASSUME NEW c, Counted(c), inFlightCount[c] \in Int, NEW m,
           \/ Owned(c)' = Owned(c)
           \/ Owned(c)' = Owned(c) \cup {m} /\ m \notin Owned(c)
           \/ Owned(c)' = Owned(c) \ {m} /\ m \in Owned(c),
           inFlightCount'[c] - (IF Owned(c)' = Owned(c) THEN 0
                                ELSE IF m \in Owned(c) THEN -1 ELSE 1)
              - IOPending(c)' - ScanPending(c)' + PendingIncrements(c)'
            = inFlightCount[c] - IOPending(c) - ScanPending(c) + PendingIncrements(c),
           inFlightCount'[c] \in Int
    PROVE  Counted(c)'
<1>1. /\ PendingDecrements(c) = IOPending(c) + ScanPending(c)
      /\ PendingDecrements(c)' = IOPending(c)' + ScanPending(c)'
      /\ PendingIncrements(c) \in Int /\ PendingIncrements(c)' \in Int
      /\ IOPending(c) \in Int /\ IOPending(c)' \in Int
      /\ ScanPending(c) \in Int /\ ScanPending(c)' \in Int
  BY DEF PendingDecrements, PendingIncrements, IOPending, ScanPending
<1>2. IsFiniteSet(Owned(c)) /\ Cardinality(Owned(c)) \in Nat
  BY FS_CardinalityType DEF Counted
<1>3. CASE Owned(c)' = Owned(c)
  BY <1>1, <1>2, <1>3 DEF Counted
<1>4. CASE Owned(c)' = Owned(c) \cup {m} /\ m \notin Owned(c)
  <2>1. /\ IsFiniteSet(Owned(c)') /\ Owned(c)' # Owned(c)
        /\ Cardinality(Owned(c)') = Cardinality(Owned(c)) + 1
    BY <1>2, <1>4, FS_AddElement
  <2> QED
    BY <1>1, <1>2, <1>4, <2>1 DEF Counted
<1>5. CASE Owned(c)' = Owned(c) \ {m} /\ m \in Owned(c)
  <2>1. /\ IsFiniteSet(Owned(c)') /\ Owned(c)' # Owned(c)
        /\ Cardinality(Owned(c)') = Cardinality(Owned(c)) - 1
    BY <1>2, <1>5, FS_RemoveElement
  <2> QED
    BY <1>1, <1>2, <1>5, <2>1 DEF Counted
<1> QED
  BY <1>3, <1>4, <1>5

\* What a client owns while the map and the owners of what is in it stay, ...
LEMMA OwnedSame ==
    ASSUME UNCHANGED inFlightMessages,
           \A m \in Msgs : inFlightMessages[m] # NoObj =>
              clientID'[inFlightMessages[m]] = clientID[inFlightMessages[m]]
    PROVE  \A c : Owned(c)' = Owned(c)
BY DEF Owned, InFlightOwner

\* ... when a message is taken out of the map, ...
LEMMA OwnedLess ==
    ASSUME TypeOK, NEW m \in Msgs, NEW c, InFlightOwner(c, m), UNCHANGED clientID,
           inFlightMessages' = [inFlightMessages EXCEPT ![m] = NoObj]
    PROVE  /\ m \in Owned(c) /\ Owned(c)' = Owned(c) \ {m}
           /\ \A d : d # c => Owned(d)' = Owned(d)
<1>1. /\ inFlightMessages'[m] = NoObj
      /\ \A n \in Msgs : n # m => inFlightMessages'[n] = inFlightMessages[n]
  BY DEF TypeOK, FlightOK
<1> QED
  BY <1>1 DEF Owned, InFlightOwner

\* ... and when one is put into it.
LEMMA OwnedMore ==
    ASSUME TypeOK, NEW o \in Objs, NEW c \in Clients,
           inFlightMessages[ID(o)] = NoObj,
           inFlightMessages' = [inFlightMessages EXCEPT ![ID(o)] = o],
           clientID'[o] = c,
           \A p \in Objs : p # o => clientID'[p] = clientID[p]
    PROVE  /\ ID(o) \notin Owned(c) /\ Owned(c)' = Owned(c) \cup {ID(o)}
           /\ \A d : d # c => Owned(d)' = Owned(d)
<1>1. ID(o) \in Msgs /\ o # NoObj
  BY IDType, Constants
<1>2. /\ inFlightMessages'[ID(o)] = o
      /\ \A n \in Msgs : n # ID(o) => inFlightMessages'[n] = inFlightMessages[n]
  BY <1>1 DEF TypeOK, FlightOK
<1>3. \A n \in Msgs : n # ID(o) /\ inFlightMessages[n] # NoObj =>
          clientID'[inFlightMessages[n]] = clientID[inFlightMessages[n]]
  BY HandsRefer
<1>4. \A d : ID(o) \notin Owned(d)
  BY DEF Owned, InFlightOwner
<1>5. \A d : \A n \in Msgs : n # ID(o) => (n \in Owned(d)' <=> n \in Owned(d))
  BY <1>2, <1>3 DEF Owned, InFlightOwner
<1>6. \A d : ID(o) \in Owned(d)' <=> d = c
  BY <1>1, <1>2 DEF Owned, InFlightOwner
<1>7. \A d : Owned(d) \subseteq Msgs /\ Owned(d)' \subseteq Msgs
  BY DEF Owned
<1>8. Owned(c)' = Owned(c) \cup {ID(o)}
  <2>1. \A n : n \in Owned(c)' <=> n \in Owned(c) \cup {ID(o)}
    BY <1>5, <1>6, <1>7
  <2> QED
    BY <2>1
<1>9. ASSUME NEW d, d # c PROVE Owned(d)' = Owned(d)
  <2>1. \A n : n \in Owned(d)' <=> n \in Owned(d)
    BY <1>4, <1>5, <1>6, <1>7, <1>9
  <2> QED
    BY <2>1
<1> QED
  BY <1>4, <1>8, <1>9

\* Steps that leave subscriptions alone, count nothing for a client that has
\* none yet and give it no message keep it clean.
LEMMA EarlyKept ==
    ASSUME EarlyInv, UNCHANGED <<sub, clients>>,
           \A c \in Clients : Early(c) =>
              ioPC'[c] = ioPC[c] /\ inFlightCount'[c] = inFlightCount[c],
           \A c \in Clients : Early(c) =>
              \A o \in Objs : clientID'[o] = c => clientID[o] = c
    PROVE  EarlyInv'
<1>1. ASSUME NEW c \in Clients, Early(c)
      PROVE  /\ ioPC'[c] = "idle" /\ inFlightCount'[c] = 0
             /\ \A o \in Objs : clientID'[o] # c
  BY <1>1 DEF EarlyInv
<1>2. \A c \in Clients : sub'[c] \in {"new", "adding"} => c \notin clients'
  BY DEF EarlyInv
<1>3. \A c : Early(c)' <=> Early(c)
  BY DEF Early
<1> QED
  BY <1>1, <1>2, <1>3 DEF EarlyInv, Objs

\* Steps that start no command and give what a command holds to no one else.
LEMMA CommandOwnerKept ==
    ASSUME CommandOwner,
           \A c \in Clients : ioPC'[c] \in {"popped", "removed"} /\ ioOp'[c] # "FIN" =>
              /\ ioPC[c] \in {"popped", "removed"} /\ ioOp[c] # "FIN"
              /\ ioObj'[c] = ioObj[c] /\ clientID'[ioObj[c]] = clientID[ioObj[c]]
    PROVE  CommandOwner'
BY DEF CommandOwner

\* The topic's messagePump counts nothing.
LEMMA CountTopic ==
    ASSUME Working, ObjectInv, CountInv, TopicNext
    PROVE  CountInv'
<1> USE DEF Working
<1>1. /\ UNCHANGED <<inFlightMessages, subVars, pumpVars, ioVars, scanVars,
                     inFlightCount>>
      /\ \A o \in Objs : clientID'[o] \in {clientID[o], NoClient}
      /\ \A o \in Objs : Referenced(o) => clientID'[o] = clientID[o]
  BY DEF TopicNext, PutMessage, PutMessageDeferred, TopicAddToDeferredPQ,
      Allocated, flightVars, procVars, TypeOK, FlightOK
<1>2. \A c : Owned(c)' = Owned(c)
  BY <1>1, HandsRefer, OwnedSame
<1>3. EarlyInv'
  BY <1>1, EarlyKept, Constants DEF CountInv, subVars, ioVars
<1>4. CommandOwner'
  BY <1>1, HandsRefer, CommandOwnerKept DEF CountInv, ioVars, TypeOK, IoOK
<1>5. ASSUME NEW c \in clients PROVE Counted(c)'
  <2>1. ScanPending(c)' = ScanPending(c)
    BY <1>1, HandsRefer DEF ScanPending, scanVars, TypeOK, ScanOK
  <2>2. /\ IOPending(c)' = IOPending(c)
        /\ PendingIncrements(c)' = PendingIncrements(c)
    BY <1>1 DEF IOPending, PendingIncrements, pumpVars, ioVars
  <2> QED
    BY <1>1, <1>2, <2>1, <2>2, CountedSame DEF CountInv
<1> QED
  BY <1>1, <1>3, <1>4, <1>5 DEF CountInv, subVars

\* The messagePump of a client files a message and then counts it.
LEMMA CountPump ==
    ASSUME Working, ObjectInv, CountInv, PumpOffUntilSub,
           NEW c \in Clients, PumpNext(c)
    PROVE  CountInv'
<1> USE DEF Working
<1>1. ASSUME NEW pc, NEW obj, PumpGoto(c, pc, obj)
      PROVE  /\ \A d \in Clients : d # c =>
                  pumpPC'[d] = pumpPC[d] /\ pumpObj'[d] = pumpObj[d]
             /\ pumpPC'[c] = pc /\ pumpObj'[c] = obj
  BY <1>1 DEF PumpGoto, TypeOK, PumpOK
<1>2. ~Early(c) /\ \A d \in clients : d \in Clients
  BY DEF Early, PumpOffUntilSub, PumpNext, PumpReceiveMem, PumpReceiveBackend,
      PumpPush, PumpAddToPQ, PumpSend, PumpExit, TypeOK, SubOK
<1>3. CASE PumpReceiveMem(c) \/ PumpAddToPQ(c) \/ PumpExit(c)
  <2>1. /\ UNCHANGED <<inFlightMessages, clientID, subVars, ioVars, scanVars,
                       inFlightCount>>
        /\ UNCHANGED pumpVars \/ \E pc, obj : PumpGoto(c, pc, obj)
    BY <1>3 DEF PumpReceiveMem, Sample, PumpAddToPQ, PumpExit, flightVars
  <2>2. EarlyInv' /\ CommandOwner'
    BY <2>1, EarlyKept, CommandOwnerKept DEF CountInv, subVars, ioVars
  <2>3. \A d \in Clients : PendingIncrements(d)' = PendingIncrements(d)
    BY <1>1, <1>3, <2>1
    DEF PumpReceiveMem, Sample, PumpAddToPQ, PumpExit, PendingIncrements, pumpVars
  <2>4. \A d : /\ Owned(d)' = Owned(d) /\ IOPending(d)' = IOPending(d)
               /\ ScanPending(d)' = ScanPending(d)
    BY <2>1, OwnedSame DEF IOPending, ScanPending, ioVars, scanVars
  <2> QED
    BY <1>2, <2>1, <2>2, <2>3, <2>4, CountedSame DEF CountInv, subVars
<1>4. ASSUME NEW m \in Msgs, PumpReceiveBackend(c, m) PROVE FALSE
  BY <1>4 DEF PumpReceiveBackend
<1>5. CASE PumpPush(c)
  <2> DEFINE o == pumpObj[c]
  <2>1. /\ pumpPC[c] = "received" /\ o \in Objs /\ ID(o) \in Msgs
        /\ inFlightMessages[ID(o)] = NoObj
        /\ UNCHANGED <<subVars, ioVars, scanVars, inFlightCount>>
        /\ clientID' = [clientID EXCEPT ![o] = c]
    BY <1>5, IDType, HandNotFiled DEF PumpPush, ObjectInv, TypeOK, PumpOK
  <2>2. /\ inFlightMessages' = [inFlightMessages EXCEPT ![ID(o)] = o]
        /\ PumpGoto(c, "pushed", o)
    BY <1>5, <2>1 DEF PumpPush, pushInFlightMessage
  <2>3. /\ clientID'[o] = c
        /\ \A p \in Objs : p # o => clientID'[p] = clientID[p]
    BY <2>1 DEF TypeOK, FlightOK
  <2>4. InPump(ID(o)) /\ Custody(ID(o))
    BY <2>1 DEF InPump, PumpHolds
  <2>5. /\ ID(o) \notin Owned(c) /\ Owned(c)' = Owned(c) \cup {ID(o)}
        /\ \A d : d # c => Owned(d)' = Owned(d)
    BY <2>1, <2>2, <2>3, OwnedMore
  <2>6. EarlyInv'
    BY <1>2, <2>1, <2>3, EarlyKept DEF CountInv, subVars, ioVars
  <2>7. \A d \in Clients : ioPC[d] \in {"popped", "removed"} /\ ioOp[d] # "FIN" =>
            ioObj[d] \in Objs /\ ioObj[d] # o
    BY <2>4 DEF Custody, HeldInOnePlace, InIO, IOHolds, TypeOK, IoOK
  <2>8. CommandOwner'
    BY <2>1, <2>3, <2>7, CommandOwnerKept DEF CountInv, ioVars
  <2>9. scanPC = "timedout" => scanObj \in Objs /\ scanObj # o
    BY <2>4 DEF Custody, HeldInOnePlace, InScan, TypeOK, ScanOK
  <2>10. \A d \in Clients : /\ IOPending(d)' = IOPending(d)
                            /\ ScanPending(d)' = ScanPending(d)
    BY <2>1, <2>3, <2>9 DEF IOPending, ScanPending, ioVars, scanVars
  <2>11. ASSUME NEW d \in clients PROVE Counted(d)'
    <3>1. CASE d = c
      <4>1. PendingIncrements(c) = 0 /\ PendingIncrements(c)' = 1
        BY <1>1, <2>1, <2>2 DEF PendingIncrements
      <4>2. /\ IOPending(c) \in Int /\ ScanPending(c) \in Int
            /\ inFlightCount[c] \in Int /\ inFlightCount' = inFlightCount
        BY <2>1 DEF IOPending, ScanPending, TypeOK, HistoryOK
      <4> QED
        BY <2>5, <2>10, <2>11, <3>1, <4>1, <4>2, CountedMove DEF CountInv
    <3>2. CASE d # c
      <4>1. PendingIncrements(d)' = PendingIncrements(d)
        BY <1>1, <1>2, <2>2, <2>11, <3>2 DEF PendingIncrements
      <4> QED
        BY <1>2, <2>1, <2>5, <2>10, <2>11, <3>2, <4>1, CountedSame DEF CountInv
    <3> QED
      BY <3>1, <3>2
  <2> QED
    BY <2>1, <2>6, <2>8, <2>11 DEF CountInv, subVars
<1>6. CASE PumpSend(c)
  <2>1. /\ pumpPC[c] = "tracked" /\ inFlightCount[c] \in Int
        /\ UNCHANGED <<flightVars, subVars, ioVars, scanVars>>
        /\ inFlightCount'[c] = inFlightCount[c] + 1
        /\ \A d \in Clients : d # c => inFlightCount'[d] = inFlightCount[d]
        /\ \E pc \in {"idle", "exited"} : PumpGoto(c, pc, NoObj)
    BY <1>6 DEF PumpSend, TypeOK, HistoryOK
  <2>2. EarlyInv' /\ CommandOwner'
    BY <1>2, <2>1, EarlyKept, CommandOwnerKept
    DEF CountInv, subVars, ioVars, flightVars
  <2>3. \A d : /\ Owned(d)' = Owned(d) /\ IOPending(d)' = IOPending(d)
               /\ ScanPending(d)' = ScanPending(d)
    BY <2>1, OwnedSame DEF IOPending, ScanPending, ioVars, scanVars, flightVars
  <2>4. ASSUME NEW d \in clients PROVE Counted(d)'
    <3>1. CASE d = c
      <4>1. /\ PendingIncrements(c) = 1 /\ PendingIncrements(c)' = 0
            /\ IOPending(c) \in Int /\ ScanPending(c) \in Int
        BY <1>1, <2>1 DEF PendingIncrements, IOPending, ScanPending
      <4> QED
        BY <2>1, <2>3, <2>4, <3>1, <4>1, CountedMove DEF CountInv
    <3>2. CASE d # c
      <4>1. PendingIncrements(d)' = PendingIncrements(d)
        BY <1>1, <1>2, <2>1, <2>4, <3>2 DEF PendingIncrements
      <4> QED
        BY <1>2, <2>1, <2>3, <2>4, <3>2, <4>1, CountedSame DEF CountInv
    <3> QED
      BY <3>1, <3>2
  <2> QED
    BY <2>1, <2>2, <2>4 DEF CountInv, subVars
<1> QED
  BY <1>3, <1>4, <1>5, <1>6 DEF PumpNext

\* A command takes a message from what its client owns, and counts it last;
\* TOUCH gives it back.
LEMMA CountIO ==
    ASSUME Working, ObjectInv, CountInv, NEW c \in Clients, IONext(c)
    PROVE  CountInv'
<1> USE DEF Working
<1>1. ASSUME NEW pc, NEW op, NEW obj, IOBecomes(c, pc, op, obj)
      PROVE  /\ \A d \in Clients : d # c =>
                  /\ ioPC'[d] = ioPC[d] /\ ioOp'[d] = ioOp[d]
                  /\ ioObj'[d] = ioObj[d]
             /\ ioPC'[c] = pc /\ ioOp'[c] = op /\ ioObj'[c] = obj
  BY <1>1 DEF IOBecomes, TypeOK, IoOK
<1>2. ~Early(c)
  BY DEF Early, CountInv, EarlyInv, IONext, IOStep, IOPop, IORemovePQ,
      IORequeue, IODefer, IOAddToDeferredPQ, IOTouchPush, IOTouchAddToPQ,
      IOSettle
<1>3. \A d \in clients : d \in Clients
  BY DEF TypeOK, SubOK
\* Once what its client owns and has pending is known, the other clients
\* follow.
<1>4. ASSUME NEW pc, NEW op, NEW obj, IOBecomes(c, pc, op, obj),
             UNCHANGED <<clientID, subVars, pumpVars, scanVars>>,
             pc \in {"popped", "removed"} /\ op # "FIN" => clientID[obj] = c,
             \A d : d # c => Owned(d)' = Owned(d),
             \A d \in Clients : d # c => inFlightCount'[d] = inFlightCount[d],
             c \in clients => Counted(c)'
      PROVE  CountInv'
  <2>1. EarlyInv'
    <3>1. \A d \in Clients : Early(d) =>
              ioPC'[d] = ioPC[d] /\ inFlightCount'[d] = inFlightCount[d]
      BY <1>1, <1>2, <1>4
    <3> QED
      BY <1>4, <3>1, EarlyKept DEF CountInv, subVars
  <2>2. CommandOwner'
    BY <1>1, <1>4 DEF CountInv, CommandOwner
  <2>3. ASSUME NEW d \in clients, d # c PROVE Counted(d)'
    <3>1. /\ IOPending(d)' = IOPending(d) /\ ScanPending(d)' = ScanPending(d)
          /\ PendingIncrements(d)' = PendingIncrements(d)
      BY <1>1, <1>3, <1>4, <2>3
      DEF IOPending, ScanPending, PendingIncrements, pumpVars, scanVars
    <3> QED
      BY <1>3, <1>4, <2>3, <3>1, CountedSame DEF CountInv
  <2> QED
    BY <1>4, <2>1, <2>2, <2>3 DEF CountInv, subVars
<1>5. ASSUME UNCHANGED <<clientID, pumpVars, scanVars>>
      PROVE  /\ ScanPending(c)' = ScanPending(c) /\ ScanPending(c) \in Int
             /\ PendingIncrements(c)' = PendingIncrements(c)
             /\ PendingIncrements(c) \in Int
             /\ inFlightCount[c] \in Int
  BY <1>5
  DEF ScanPending, PendingIncrements, pumpVars, scanVars, TypeOK, HistoryOK
<1>6. ASSUME NEW m \in Msgs, NEW op \in Ops, IOPop(c, m, op) PROVE CountInv'
  <2>1. /\ InFlightOwner(c, m) /\ ioPC[c] = "idle"
        /\ IOBecomes(c, "popped", op, inFlightMessages[m])
        /\ inFlightMessages' = [inFlightMessages EXCEPT ![m] = NoObj]
        /\ UNCHANGED <<clientID, subVars, pumpVars, scanVars, inFlightCount>>
    BY <1>6 DEF IOPop, popInFlightMessage
  <2>2. /\ m \in Owned(c) /\ Owned(c)' = Owned(c) \ {m}
        /\ \A d : d # c => Owned(d)' = Owned(d)
    BY <2>1, OwnedLess
  <2>3. IOPending(c) = 0 /\ IOPending(c)' = 1
    BY <1>1, <2>1 DEF IOPending
  <2>4. c \in clients => Counted(c)'
    BY <1>5, <2>1, <2>2, <2>3, CountedMove DEF CountInv
  <2> QED
    BY <1>4, <2>1, <2>2, <2>4 DEF InFlightOwner
<1>7. CASE IOTouchPush(c)
  <2>1. /\ ioPC[c] = "removed" /\ ioOp[c] = "TOUCH" /\ ioObj[c] \in Objs
        /\ inFlightMessages[ID(ioObj[c])] = NoObj
        /\ clientID[ioObj[c]] = c
        /\ UNCHANGED <<clientID, subVars, pumpVars, scanVars, inFlightCount>>
    BY <1>7, HandNotFiled
    DEF IOTouchPush, ObjectInv, CountInv, CommandOwner, TypeOK, IoOK
  <2>2. /\ inFlightMessages' =
              [inFlightMessages EXCEPT ![ID(ioObj[c])] = ioObj[c]]
        /\ IOGoto(c, "repushed")
    BY <1>7, <2>1 DEF IOTouchPush, pushInFlightMessage
  <2>3. /\ ID(ioObj[c]) \notin Owned(c)
        /\ Owned(c)' = Owned(c) \cup {ID(ioObj[c])}
        /\ \A d : d # c => Owned(d)' = Owned(d)
    BY <2>1, <2>2, OwnedMore
  <2>4. IOPending(c) = 1 /\ IOPending(c)' = 0
    BY <1>1, <2>1, <2>2 DEF IOPending, IOGoto
  <2>5. c \in clients => Counted(c)'
    BY <1>5, <2>1, <2>3, <2>4, CountedMove DEF CountInv
  <2> QED
    BY <1>4, <2>1, <2>2, <2>3, <2>5 DEF IOGoto
<1>8. CASE IORemovePQ(c) \/ IORequeue(c) \/ IODefer(c) \/ IOAddToDeferredPQ(c)
             \/ IOTouchAddToPQ(c)
  <2>1. /\ UNCHANGED <<inFlightMessages, clientID, subVars, pumpVars, scanVars,
                       inFlightCount>>
        /\ \/ /\ ioPC[c] \notin {"idle", "repushed"}
              /\ \/ IOSettling(c) \/ IOGoto(c, "deferring")
                 \/ IOGoto(c, "removed") /\ ioPC[c] = "popped"
           \/ ioPC[c] = "repushed" /\ IODone(c)
    BY <1>8, HandNotFiled
    DEF IORemovePQ, IORequeue, IODefer, IOAddToDeferredPQ, IOTouchAddToPQ,
        flightVars, ObjectInv
  <2>2. IOPending(c)' = IOPending(c)
    BY <1>1, <2>1 DEF IOPending, IOSettling, IOGoto, IODone
  <2>3. \A d : Owned(d)' = Owned(d)
    BY <2>1, OwnedSame
  <2>4. c \in clients => Counted(c)'
    BY <1>5, <2>1, <2>2, <2>3, CountedSame DEF CountInv
  <2> QED
    BY <1>4, <2>1, <2>3, <2>4
    DEF IOSettling, IOGoto, IODone, CountInv, CommandOwner
<1>9. CASE IOSettle(c)
  <2>1. /\ UNCHANGED <<flightVars, subVars, pumpVars, scanVars>>
        /\ ioPC[c] = "settling" /\ IODone(c)
        /\ inFlightCount'[c] = inFlightCount[c] - 1
        /\ \A d \in Clients : d # c => inFlightCount'[d] = inFlightCount[d]
    BY <1>9 DEF IOSettle, TypeOK, HistoryOK
  <2>2. IOPending(c) = 1 /\ IOPending(c)' = 0
    BY <1>1, <2>1 DEF IOPending, IODone
  <2>3. \A d : Owned(d)' = Owned(d)
    BY <2>1, OwnedSame DEF flightVars
  <2>4. c \in clients => Counted(c)'
    BY <1>5, <2>1, <2>2, <2>3, CountedMove DEF CountInv, flightVars
  <2> QED
    BY <1>4, <2>1, <2>3, <2>4 DEF IODone, flightVars
<1> QED
  BY <1>6, <1>7, <1>8, <1>9 DEF IONext, IOStep

\* A timeout takes a message from what its client owns, and counts it for the
\* client it took it from: the object in the map is the one that was shifted.
LEMMA CountScan ==
    ASSUME Working, ObjectInv, CountInv, ScanNext
    PROVE  CountInv'
<1> USE DEF Working
<1>1. UNCHANGED <<clientID, subVars, pumpVars, ioVars>>
  BY DEF ScanNext, ScanStep, ScanShift, ScanShiftDeferred, ScanReadOwner,
      ScanPop, ScanTimedOut, ScanPut, ScanPopDeferred, flightVars
<1>2. \A d \in clients : d \in Clients
  BY DEF TypeOK, SubOK
<1>3. CommandOwner'
  BY <1>1, CommandOwnerKept DEF CountInv, ioVars
<1>4. \A c : /\ IOPending(c)' = IOPending(c) /\ IOPending(c) \in Int
             /\ PendingIncrements(c)' = PendingIncrements(c)
             /\ PendingIncrements(c) \in Int
  BY <1>1 DEF IOPending, PendingIncrements, pumpVars, ioVars
<1>5. ASSUME UNCHANGED inFlightCount PROVE EarlyInv'
  BY <1>1, <1>5, EarlyKept DEF CountInv, subVars, ioVars
<1>6. ASSUME UNCHANGED <<inFlightMessages, inFlightCount>>,
             scanPC # "timedout", scanPC' # "timedout"
      PROVE  CountInv'
  <2>1. \A c : Owned(c)' = Owned(c)
    BY <1>1, <1>6, OwnedSame
  <2>2. \A c : ScanPending(c)' = ScanPending(c)
    BY <1>6 DEF ScanPending
  <2> QED
    BY <1>1, <1>3, <1>4, <1>5, <1>6, <2>1, <2>2, CountedSame
    DEF CountInv, subVars
<1>7. ASSUME NEW x \in Objs, ScanShift(x) \/ ScanShiftDeferred(x) PROVE CountInv'
  BY <1>6, <1>7
  DEF ScanShift, ScanShiftDeferred, ScanMayStart, ScanGoto, flightVars
<1>8. CASE ScanReadOwner \/ ScanPut \/ ScanPopDeferred
  BY <1>6, <1>8 DEF ScanReadOwner, ScanPut, ScanPopDeferred, ScanGoto, flightVars
<1>9. CASE ScanPop
  <2>1. CASE ~InFlightOwner(scanClient, ID(scanObj))
    BY <1>6, <1>9, <2>1 DEF ScanPop, popInFlightMessage, ScanGoto
  <2>2. CASE InFlightOwner(scanClient, ID(scanObj))
    <3>1. /\ scanPC = "owned" /\ scanObj \in Objs /\ ID(scanObj) \in Msgs
          /\ inFlightMessages' = [inFlightMessages EXCEPT ![ID(scanObj)] = NoObj]
          /\ scanPC' = "timedout" /\ scanObj' = scanObj
          /\ UNCHANGED <<clientID, inFlightCount>>
      BY <1>9, <2>2, IDType DEF ScanPop, popInFlightMessage, ScanGoto, TypeOK, ScanOK
    <3>2. clientID[scanObj] = scanClient
      <4>1. /\ inFlightMessages[ID(scanObj)] \in Objs
            /\ Referenced(inFlightMessages[ID(scanObj)])
            /\ ID(inFlightMessages[ID(scanObj)]) = ID(scanObj)
        BY <2>2, <3>1, HandsRefer DEF InFlightOwner
      <4>2. Referenced(scanObj)
        BY <3>1, HandsRefer, Constants
      <4>3. inFlightMessages[ID(scanObj)] = scanObj
        BY <3>1, <4>1, <4>2 DEF ObjectInv, OneObject
      <4> QED
        BY <2>2, <4>3 DEF InFlightOwner
    <3>3. PICK m, k : m \in Msgs /\ m = ID(scanObj) /\ k = scanClient
      BY <3>1
    <3>5. /\ m \in Owned(k) /\ Owned(k)' = Owned(k) \ {m}
          /\ \A d : d # k => Owned(d)' = Owned(d)
      BY <2>2, <3>1, <3>3, OwnedLess
    <3>4. ASSUME NEW d \in clients PROVE Counted(d)'
      <4>1. CASE d = k
        <5>1. ScanPending(d) = 0 /\ ScanPending(d)' = 1
          BY <3>1, <3>2, <3>3, <4>1 DEF ScanPending
        <5>2. inFlightCount[d] \in Int /\ inFlightCount'[d] = inFlightCount[d]
          BY <1>2, <3>1, <3>4 DEF TypeOK, HistoryOK
        <5> QED
          BY <1>4, <3>5, <3>4, <4>1, <5>1, <5>2, CountedMove DEF CountInv
      <4>2. CASE d # k
        <5>1. ScanPending(d)' = ScanPending(d)
          BY <3>1, <3>2, <3>3, <4>2 DEF ScanPending
        <5> QED
          BY <1>4, <3>1, <3>5, <3>4, <4>2, <5>1, CountedSame DEF CountInv
      <4> QED
        BY <4>1, <4>2
    <3> QED
      BY <1>1, <1>3, <1>5, <3>1, <3>4 DEF CountInv, subVars
  <2> QED
    BY <2>1, <2>2
<1>10. CASE ScanTimedOut
  <2>1. /\ scanPC = "timedout" /\ scanPC' = "putting" /\ scanObj \in Objs
        /\ UNCHANGED inFlightMessages
        /\ inFlightCount' = [c \in Clients |->
              IF c = clientID[scanObj] /\ c \in clients
              THEN inFlightCount[c] - 1 ELSE inFlightCount[c]]
    BY <1>10 DEF ScanTimedOut, ScanGoto, flightVars, TypeOK, ScanOK
  <2>2. \A c : Owned(c)' = Owned(c)
    BY <1>1, <2>1, OwnedSame
  <2>3. EarlyInv'
    <3>1. \A c \in Clients : Early(c) => inFlightCount'[c] = inFlightCount[c]
      BY <2>1 DEF CountInv, EarlyInv
    <3> QED
      BY <1>1, <3>1, EarlyKept DEF CountInv, subVars, ioVars
  <2>4. ASSUME NEW d \in clients PROVE Counted(d)'
    <3>1. d \in Clients /\ inFlightCount[d] \in Int
      BY <1>2, <2>4 DEF TypeOK, HistoryOK
    <3>2. CASE d = clientID[scanObj]
      <4>1. ScanPending(d) = 1 /\ ScanPending(d)' = 0
        BY <2>1, <3>2 DEF ScanPending
      <4>2. inFlightCount'[d] = inFlightCount[d] - 1
        BY <2>1, <2>4, <3>1, <3>2
      <4> QED
        BY <1>4, <2>2, <2>4, <3>1, <4>1, <4>2, CountedMove DEF CountInv
    <3>3. CASE d # clientID[scanObj]
      <4>1. ScanPending(d)' = ScanPending(d) /\ inFlightCount'[d] = inFlightCount[d]
        BY <2>1, <3>1, <3>3 DEF ScanPending
      <4> QED
        BY <1>4, <2>2, <2>4, <4>1, CountedSame DEF CountInv
    <3> QED
      BY <3>2, <3>3
  <2> QED
    BY <1>1, <1>3, <2>3, <2>4 DEF CountInv, subVars
<1> QED
  BY <1>7, <1>8, <1>9, <1>10 DEF ScanNext, ScanStep

\* A client is added with nothing to count.
LEMMA CountSub ==
    ASSUME Working, CountInv, PumpOffUntilSub, NEW c \in Clients, SubNext(c)
    PROVE  CountInv'
<1> USE DEF Working
<1>1. UNCHANGED <<flightVars, ioVars, scanVars, inFlightCount>>
  BY DEF SubNext, AddClientCheck, AddClientInsert, SUB, Disconnect,
      RemoveClient, procVars
<1>2. /\ \A d \in Clients : d # c => sub'[d] = sub[d]
      /\ Early(c)' => Early(c)
      /\ sub'[c] \in {"new", "adding"} => sub[c] = "new" /\ UNCHANGED clients
      /\ clients' \subseteq clients \/ (sub[c] = "adding" /\ clients' = clients \cup {c})
  BY DEF SubNext, AddClientCheck, AddClientInsert, SUB, Disconnect,
      RemoveClient, Early, TypeOK, SubOK
<1>3. EarlyInv'
  <2>1. ASSUME NEW d \in Clients, Early(d)'
        PROVE  /\ ioPC'[d] = "idle" /\ inFlightCount'[d] = 0
               /\ \A o \in Objs : clientID'[o] # d
    <3>1. Early(d)
      BY <1>2, <2>1 DEF Early
    <3> QED
      BY <1>1, <3>1 DEF CountInv, EarlyInv, flightVars, ioVars
  <2>2. \A d \in Clients : sub'[d] \in {"new", "adding"} => d \notin clients'
    BY <1>2 DEF CountInv, EarlyInv
  <2> QED
    BY <2>1, <2>2 DEF EarlyInv, Objs
<1>4. CommandOwner'
  BY <1>1, CommandOwnerKept DEF CountInv, flightVars, ioVars
<1>5. \A d : /\ Owned(d)' = Owned(d) /\ IOPending(d)' = IOPending(d)
             /\ ScanPending(d)' = ScanPending(d)
  BY <1>1, OwnedSame DEF IOPending, ScanPending, flightVars, ioVars, scanVars
<1>6. \A d \in Clients : PendingIncrements(d)' = PendingIncrements(d)
  BY DEF SubNext, AddClientCheck, AddClientInsert, SUB, Disconnect,
      RemoveClient, procVars, pumpVars, PumpGoto, PumpOffUntilSub,
      PendingIncrements, TypeOK, PumpOK
<1>7. Early(c) => Counted(c)
  <2> SUFFICES ASSUME Early(c) PROVE Counted(c)
    OBVIOUS
  <2>1. /\ ioPC[c] = "idle" /\ inFlightCount[c] = 0 /\ pumpPC[c] = "off"
        /\ \A o \in Objs : clientID[o] # c
    BY DEF Early, CountInv, EarlyInv, PumpOffUntilSub
  <2>2. Owned(c) = {}
    BY <2>1, HandsRefer DEF Owned, InFlightOwner
  <2>3. PendingDecrements(c) = 0 /\ PendingIncrements(c) = 0
    BY <2>1 DEF PendingDecrements, PendingIncrements, TypeOK, ScanOK
  <2> QED
    BY <2>1, <2>2, <2>3, FS_EmptySet DEF Counted
<1>8. ASSUME NEW d \in clients' PROVE Counted(d)'
  <2>1. Counted(d) /\ d \in Clients
    BY <1>2, <1>7, <1>8 DEF CountInv, Early, TypeOK, SubOK
  <2> QED
    BY <1>1, <1>5, <1>6, <2>1, CountedSame
<1> QED
  BY <1>3, <1>4, <1>8 DEF CountInv

(***************************************************************************)
(* The induction.                                                          *)
(***************************************************************************)

CalmInv == ~exitFlag => ObjectInv /\ TimedInv /\ CountInv /\ ~panicked

\* An empty channel without clients refers to nothing and counts nothing.
LEMMA CalmInit == Init => CalmInv
<1> SUFFICES ASSUME Init
             PROVE  ObjectInv /\ TimedInv /\ CountInv /\ ~panicked
  BY DEF CalmInv
<1>1. \A o \in Objs : ~Referenced(o)
  <2> SUFFICES ASSUME NEW o \in Objs PROVE ~Referenced(o)
    OBVIOUS
  <2>1. o # NoObj /\ ID(o) \in Msgs
    BY Constants, IDType
  <2>2. ~InQueue(o) /\ ~InHand(o)
    BY <2>1 DEF Init, InQueue, InHand
  <2>3. /\ inFlightMessages[ID(o)] = NoObj /\ deferredMessages[ID(o)] = NoObj
        /\ inFlightPQ[o] = 0 /\ o \notin deferredPQ
    BY <2>1 DEF Init
  <2> QED
    BY <2>1, <2>2, <2>3, ReferencedBy
<1>2. ObjectInv
  <2>1. FreshUnseen
    BY <1>1 DEF FreshUnseen, ObjsOf, Init
  <2>2. OneObject /\ ZeroUnsent
    BY <1>1 DEF OneObject, ZeroUnsent
  <2>3. NotStale /\ HandIndexed
    BY DEF NotStale, HandIndexed, Init
  <2> QED
    BY <2>1, <2>2, <2>3 DEF ObjectInv
<1>3. TimedInv
  BY Constants DEF TimedInv, Init
<1>4. CountInv
  BY Constants DEF CountInv, EarlyInv, Early, CommandOwner, Init
<1>5. ~panicked
  BY DEF Init
<1> QED
  BY <1>2, <1>3, <1>4, <1>5

\* Only the removal from the heap can panic.
LEMMA PanicKept ==
    ASSUME ~panicked,
           \/ TopicNext \/ ScanNext
           \/ \E c \in Clients : PumpNext(c) \/ SubNext(c)
    PROVE  ~panicked'
<1>1. CASE TopicNext
  BY <1>1 DEF TopicNext, PutMessage, PutMessageDeferred, TopicAddToDeferredPQ
<1>2. ASSUME NEW c \in Clients, PumpNext(c) PROVE ~panicked'
  BY <1>2 DEF PumpNext, PumpReceiveMem, PumpReceiveBackend, PumpPush,
      PumpAddToPQ, PumpSend, PumpExit
<1>3. ASSUME NEW c \in Clients, SubNext(c) PROVE ~panicked'
  BY <1>3 DEF SubNext, AddClientCheck, AddClientInsert, SUB, Disconnect,
      RemoveClient
<1>4. CASE ScanNext
  BY <1>4 DEF ScanNext, ScanStep, ScanShift, ScanShiftDeferred,
      ScanReadOwner, ScanPop, ScanTimedOut, ScanPut, ScanPopDeferred
<1> QED
  BY <1>1, <1>2, <1>3, <1>4

\* A step that leaves everything alone.
LEMMA CalmStutter ==
    ASSUME TypeOK, ObjectInv, TimedInv, CountInv, ~panicked, UNCHANGED vars
    PROVE  (ObjectInv /\ TimedInv /\ CountInv /\ ~panicked)'
<1> USE DEF vars, qVars, flightVars, deferVars, subVars, exitVars, procVars,
            pumpVars, ioVars, scanVars
<1>1. \A o : Referenced(o)' <=> Referenced(o)
  BY DEF Referenced, ID
<1>2. (FreshUnseen /\ OneObject /\ ZeroUnsent)'
  BY <1>1, ObjectsKept DEF ObjectInv, IndexKept
<1>3. (NotStale /\ HandIndexed)'
  BY DEF ObjectInv, NotStale, HandIndexed, Objs, ID
<1>4. TimedInv'
  BY TimedSame
<1>5. EarlyInv'
  BY EarlyKept DEF CountInv
<1>6. CommandOwner'
  BY CommandOwnerKept DEF CountInv
<1>7. ASSUME NEW c \in clients PROVE Counted(c)'
  <2>1. /\ IOPending(c)' = IOPending(c) /\ ScanPending(c)' = ScanPending(c)
        /\ PendingIncrements(c)' = PendingIncrements(c)
    BY DEF IOPending, ScanPending, PendingIncrements
  <2>2. Owned(c)' = Owned(c)
    BY OwnedSame
  <2> QED
    BY <1>7, <2>1, <2>2, CountedSame DEF CountInv
<1> QED
  BY <1>2, <1>3, <1>4, <1>5, <1>6, <1>7 DEF ObjectInv, CountInv

\* Every step of a channel that stays calm keeps the invariant.
LEMMA CalmStep ==
    ASSUME TypeOK, CustodyInv, PumpOffUntilSub, Calm, Calm', CalmInv,
           [Next]_vars
    PROVE  CalmInv'
<1> SUFFICES ASSUME ~exitFlag'
             PROVE  (ObjectInv /\ TimedInv /\ CountInv /\ ~panicked)'
  BY DEF CalmInv
<1>1. ~exitFlag
  BY ExitStays
<1>2. Working /\ ObjectInv /\ TimedInv /\ CountInv
  BY <1>1 DEF Working, CustodyInv, Calm, CalmInv
<1>3. CASE TopicNext
  BY <1>2, <1>3, ObjectTopic, TimedTopic, CountTopic, PanicKept DEF Working
<1>4. ASSUME NEW c \in Clients, PumpNext(c)
      PROVE  (ObjectInv /\ TimedInv /\ CountInv /\ ~panicked)'
  BY <1>2, <1>4, ObjectPump, TimedPump, CountPump, PanicKept DEF Working
<1>5. ASSUME NEW c \in Clients, IONext(c)
      PROVE  (ObjectInv /\ TimedInv /\ CountInv /\ ~panicked)'
  BY <1>2, <1>5, ObjectIO, TimedIO, CountIO
<1>6. ASSUME NEW c \in Clients, SubNext(c)
      PROVE  (ObjectInv /\ TimedInv /\ CountInv /\ ~panicked)'
  BY <1>2, <1>6, ObjectSub, TimedSub, CountSub, PanicKept DEF Working
<1>7. CASE ScanNext
  BY <1>2, <1>7, ObjectScan, TimedScan, CountScan, PanicKept DEF Working
<1>8. CASE AdminNext
  BY <1>2, <1>8, AdminEnds DEF Calm
<1>9. CASE UNCHANGED vars
  BY <1>2, <1>9, CalmStutter DEF Working
<1> QED
  BY <1>3, <1>4, <1>5, <1>6, <1>7, <1>8, <1>9 DEF Next

\* The invariant holds for as long as the channel is calm.
LEMMA CalmAlways == Spec /\ []Calm => []CalmInv
<1>1. /\ TypeOK /\ CustodyInv /\ PumpOffUntilSub /\ Calm /\ Calm' /\ CalmInv
      /\ [Next]_vars
      => CalmInv'
  BY CalmStep
<1> QED
  BY <1>1, CalmInit, TypeCorrect, CustodyAlways, PTL DEF Spec

\* While the channel works from memory and is not emptied, every message in
\* the in-flight map has an entry in the timeout heap or is about to get one:
\* whatever the interleaving of pumps, commands and scan worker, a message
\* whose client stays silent is requeued.
THEOREM InFlightHasTimeout ==
    Spec /\ []Calm => [](~exitFlag => InFlightTimesOut)
<1>1. ASSUME TypeOK, CalmInv, ~exitFlag PROVE InFlightTimesOut
  <2> SUFFICES ASSUME NEW m \in Msgs, inFlightMessages[m] # NoObj
               PROVE  \/ inFlightPQ[inFlightMessages[m]] > 0
                      \/ Tracking(inFlightMessages[m])
    BY DEF InFlightTimesOut
  <2>1. inFlightMessages[m] \in Objs
    BY <1>1 DEF TypeOK, FlightOK
  <2>2. Timed(inFlightMessages[m]) \/ ScanHas(inFlightMessages[m])
    BY <1>1, <2>1 DEF CalmInv, TimedInv
  <2> QED
    BY <2>2 DEF Timed, ScanHas, Tracking
<1> QED
  BY <1>1, CalmAlways, TypeCorrect, PTL

\* While the channel works from memory and is not emptied, no command removes
\* from the heap by an index that is out of range.
THEOREM CalmNeverPanics == Spec /\ []Calm => [](~exitFlag => NoPanic)
<1>1. CalmInv => (~exitFlag => NoPanic)
  BY DEF CalmInv, NoPanic
<1> QED
  BY <1>1, CalmAlways, PTL

\* While the channel works from memory and is not emptied, InFlightCount is
\* the number of messages the client has in flight, up to the updates under
\* way.
THEOREM CalmCountExact == Spec /\ []Calm => []CountExact
<1>1. CalmInv => CountExact
  BY DEF CalmInv, CountInv, Counted, Owned, CountExact
<1> QED
  BY <1>1, CalmAlways, PTL

(***************************************************************************)
(* Channels that are calm.  One whose memory queue has room for every      *)
(* message and that nobody empties never leaves memory: the queue holds no *)
(* message twice, so a message that is put finds it short of full.         *)
(***************************************************************************)

RoomForAll ==
    /\ IsFiniteSet(Msgs)
    /\ Ephemeral \/ Cardinality(Msgs) <= MemQueueSize

\* While a message is not in memoryMsgChan, the queue is shorter than the
\* number of messages.
LEMMA QueueShort ==
    ASSUME TypeOK, IsFiniteSet(Msgs), NEW m \in Msgs, ~InMem(m),
           \A n \in Msgs : MemOnce(n)
    PROVE  Len(memoryMsgChan) < Cardinality(Msgs)
<1> DEFINE D == 1..Len(memoryMsgChan)
           T == Msgs \ {m}
           f == [i \in D |-> ID(memoryMsgChan[i])]
<1>1. /\ Len(memoryMsgChan) \in Nat /\ DOMAIN memoryMsgChan = D
      /\ \A i \in D : memoryMsgChan[i] \in Objs
  BY DEF TypeOK, QueueOK
<1>2. \A i \in D : ID(memoryMsgChan[i]) \in T
  BY <1>1, IDType DEF InMem
<1>3. \A i, j \in D : ID(memoryMsgChan[i]) = ID(memoryMsgChan[j]) => i = j
  BY <1>1, <1>2 DEF MemOnce
<1>4. f \in Injection(D, T)
  BY <1>2, <1>3, Zenon DEF Injection, IsInjective
<1>5. IsFiniteSet(T) /\ Cardinality(T) = Cardinality(Msgs) - 1
  BY FS_RemoveElement
<1>6. Cardinality(D) <= Cardinality(T)
  BY <1>4, <1>5, FS_Injection
<1>7. Cardinality(D) = Len(memoryMsgChan)
  BY <1>1, FS_Interval
<1>8. Cardinality(Msgs) \in Nat
  BY FS_CardinalityType
<1> QED
  BY <1>1, <1>5, <1>6, <1>7, <1>8

\* So put never uses the backend, ...
LEMMA PutStaysInMemory ==
    ASSUME RoomForAll, Working, NEW o \in Objs, ~InMem(ID(o)), put(o)
    PROVE  UNCHANGED backend
<1>1. CASE Ephemeral
  BY <1>1 DEF put
<1>2. CASE ~Ephemeral
  <2>1. ID(o) \in Msgs /\ \A n \in Msgs : MemOnce(n)
    BY IDType DEF Working, Custody, HeldOnce
  <2>2. Len(memoryMsgChan) < Cardinality(Msgs)
    BY <2>1, QueueShort DEF RoomForAll, Working
  <2>3. Len(memoryMsgChan) \in Nat /\ Cardinality(Msgs) \in Nat
    BY FS_CardinalityType DEF RoomForAll, Working, TypeOK, QueueOK
  <2>4. Len(memoryMsgChan) < MemQueueSize
    BY <1>2, <2>2, <2>3, Constants DEF RoomForAll
  <2> QED
    BY <2>4 DEF put
<1> QED
  BY <1>1, <1>2

\* ... and a step changes neither the backend nor emptyPC.
LEMMA StaysCalm ==
    ASSUME RoomForAll, "Empty" \notin AdminOps, TypeOK, CustodyInv, Calm,
           [Next]_vars
    PROVE  Calm'
<1> SUFFICES ASSUME ~exitFlag' PROVE emptyPC' = "idle" /\ \A m \in Msgs : backend'[m] = 0
  BY DEF Calm
<1>1. ~exitFlag /\ exitPC = "idle"
  BY ExitStays DEF TypeOK, ExitOK
<1>2. emptyPC = "idle" /\ \A m \in Msgs : backend[m] = 0 /\ Custody(m)
  BY <1>1 DEF Calm, CustodyInv
<1>3. ASSUME UNCHANGED <<backend, emptyPC>>
      PROVE  emptyPC' = "idle" /\ \A m \in Msgs : backend'[m] = 0
  BY <1>2, <1>3
<1>4. ASSUME NEW o \in Objs, ~panicked, ~InMem(ID(o)), put(o), UNCHANGED emptyPC
      PROVE  emptyPC' = "idle" /\ \A m \in Msgs : backend'[m] = 0
  BY <1>1, <1>2, <1>3, <1>4, PutStaysInMemory DEF Working
<1>5. ASSUME ~panicked, TopicNext
      PROVE  emptyPC' = "idle" /\ \A m \in Msgs : backend'[m] = 0
  <2>1. ASSUME NEW m \in Msgs, PutMessage(m)
        PROVE  emptyPC' = "idle" /\ \A n \in Msgs : backend'[n] = 0
    <3>1. PICK o \in ObjsOf(m) : put(o)
      BY <1>1, <2>1 DEF PutMessage
    <3>2. o \in Objs /\ ID(o) = m
      BY DEF ObjsOf
    <3>3. fate[m] = "new" /\ UNCHANGED emptyPC
      BY <2>1 DEF PutMessage, exitVars
    <3>4. ~InMem(m)
      BY <1>2, <3>3 DEF Custody, Held
    <3> QED
      BY <1>4, <1>5, <3>1, <3>2, <3>3, <3>4
  <2>2. ASSUME NEW m \in Msgs, PutMessageDeferred(m) PROVE UNCHANGED <<backend, emptyPC>>
    BY <2>2 DEF PutMessageDeferred, qVars, exitVars
  <2>3. CASE TopicAddToDeferredPQ
    BY <1>3, <2>3 DEF TopicAddToDeferredPQ, qVars, exitVars
  <2> QED
    BY <1>3, <1>5, <2>1, <2>2, <2>3 DEF TopicNext
<1>6. ASSUME NEW c \in Clients, PumpNext(c) PROVE UNCHANGED <<backend, emptyPC>>
  <2>1. ASSUME NEW m \in Msgs, PumpReceiveBackend(c, m) PROVE FALSE
    BY <1>2, <2>1 DEF PumpReceiveBackend
  <2> QED
    BY <1>6, <2>1 DEF PumpNext, PumpReceiveMem, PumpPush, PumpAddToPQ,
        PumpSend, PumpExit, qVars, exitVars
<1>7. ASSUME NEW c \in Clients, ~panicked, IONext(c)
      PROVE  emptyPC' = "idle" /\ \A m \in Msgs : backend'[m] = 0
  <2>1. CASE IORequeue(c)
    <3>1. /\ ioPC[c] = "removed" /\ ioOp[c] = "REQ" /\ put(ioObj[c])
          /\ UNCHANGED emptyPC
      BY <1>1, <2>1 DEF IORequeue, exitVars
    <3>2. ioObj[c] \in Objs /\ ID(ioObj[c]) \in Msgs
      BY <3>1, IDType DEF TypeOK, IoOK
    <3>3. InIO(ID(ioObj[c]))
      BY <3>1 DEF InIO, IOHolds
    <3>4. ~InMem(ID(ioObj[c]))
      BY <1>2, <3>2, <3>3 DEF Custody, HeldInOnePlace
    <3> QED
      BY <1>4, <1>7, <3>1, <3>2, <3>4
  <2>2. CASE ~IORequeue(c)
    BY <1>3, <1>7, <2>2 DEF IONext, IOStep, IOPop, IORemovePQ, IODefer,
        IOAddToDeferredPQ, IOTouchPush, IOTouchAddToPQ, IOSettle, qVars, exitVars
  <2> QED
    BY <2>1, <2>2
<1>8. ASSUME NEW c \in Clients, SubNext(c) PROVE UNCHANGED <<backend, emptyPC>>
  BY <1>8 DEF SubNext, AddClientCheck, AddClientInsert, SUB, Disconnect,
      RemoveClient, qVars, exitVars
<1>9. ASSUME ~panicked, ScanNext
      PROVE  emptyPC' = "idle" /\ \A m \in Msgs : backend'[m] = 0
  <2>1. CASE ScanPut
    <3>1. /\ scanPC \in {"putting", "dpopped"} /\ put(scanObj)
          /\ UNCHANGED emptyPC
      BY <2>1 DEF ScanPut, exitVars
    <3>2. scanObj \in Objs /\ ID(scanObj) \in Msgs
      BY <3>1, IDType DEF TypeOK, ScanOK
    <3>3. InScan(ID(scanObj))
      BY <3>1 DEF InScan
    <3>4. ~InMem(ID(scanObj))
      BY <1>2, <3>2, <3>3 DEF Custody, HeldInOnePlace
    <3> QED
      BY <1>4, <1>9, <3>1, <3>2, <3>4
  <2>2. CASE ~ScanPut
    BY <1>3, <1>9, <2>2 DEF ScanNext, ScanStep, ScanShift, ScanShiftDeferred,
        ScanReadOwner, ScanPop, ScanTimedOut, ScanPopDeferred, qVars, exitVars
  <2> QED
    BY <2>1, <2>2
<1>10. CASE AdminNext
  BY <1>1, <1>2, <1>10 DEF AdminNext, Empty, EmptyInFlight, EmptyDeferred,
      EmptyClients, EmptyDrain, EmptyBackend, Close, BeginExit, CloseClients,
      FlushMem, FlushInFlight, FlushDeferred, Delete, DeleteEmpties
<1>11. CASE UNCHANGED vars
  BY <1>3, <1>11 DEF vars, qVars, exitVars
<1> QED
  BY <1>3, <1>5, <1>6, <1>7, <1>8, <1>9, <1>10, <1>11 DEF Next

\* A channel with room for every message that nobody empties stays calm.
THEOREM RoomyIsCalm ==
    ASSUME RoomForAll, "Empty" \notin AdminOps PROVE Spec => []Calm
<1>1. Init => Calm
  BY DEF Init, Calm
<1>2. TypeOK /\ CustodyInv /\ Calm /\ [Next]_vars => Calm'
  BY StaysCalm
<1> QED
  BY <1>1, <1>2, TypeCorrect, CustodyAlways, PTL DEF Spec

\* A channel that is not ephemeral and that nobody closes or deletes does not
\* exit.
Undisturbed == AdminOps = {} /\ ~Ephemeral

\* The callback that deletes a channel is an ephemeral channel's alone.
LEMMA NeverExits == ASSUME Undisturbed PROVE Spec => []~exitFlag
<1> DEFINE Inv == ~exitFlag /\ ~deleter
<1>1. Init => Inv
  BY DEF Init
<1>2. TypeOK /\ Inv /\ [Next]_vars => Inv'
  <2> SUFFICES ASSUME TypeOK, Inv, [Next]_vars PROVE Inv'
    OBVIOUS
  <2>1. exitPC = "idle"
    BY DEF TypeOK, ExitOK
  <2>2. CASE TopicNext
    BY <2>2 DEF TopicNext, PutMessage, PutMessageDeferred,
        TopicAddToDeferredPQ, exitVars, subVars
  <2>3. ASSUME NEW c \in Clients, PumpNext(c) PROVE Inv'
    BY <2>3 DEF PumpNext, PumpReceiveMem, PumpReceiveBackend, PumpPush,
        PumpAddToPQ, PumpSend, PumpExit, exitVars, subVars
  <2>4. ASSUME NEW c \in Clients, IONext(c) PROVE Inv'
    BY <2>4 DEF IONext, IOStep, IOPop, IORemovePQ, IORequeue, IODefer,
        IOAddToDeferredPQ, IOTouchPush, IOTouchAddToPQ, IOSettle, exitVars,
        subVars
  <2>5. ASSUME NEW c \in Clients, SubNext(c) PROVE Inv'
    <3>1. ASSUME RemoveClient(c) PROVE ~deleter' /\ ~exitFlag'
      <4>1. ~deleter'
        BY <3>1, Zenon DEF Undisturbed, RemoveClient
      <4>2. UNCHANGED exitFlag
        BY <3>1 DEF RemoveClient, exitVars
      <4> QED
        BY <4>1, <4>2
    <3>2. CASE RemoveClient(c)
      BY <3>1, <3>2
    <3>3. CASE ~RemoveClient(c)
      BY <2>5, <3>3 DEF SubNext, AddClientCheck, AddClientInsert, SUB,
          Disconnect, exitVars
    <3> QED
      BY <3>2, <3>3
  <2>6. CASE ScanNext
    BY <2>6 DEF ScanNext, ScanStep, ScanShift, ScanShiftDeferred,
        ScanReadOwner, ScanPop, ScanTimedOut, ScanPut, ScanPopDeferred,
        exitVars, subVars
  <2>7. CASE AdminNext
    BY <2>1, <2>7 DEF Undisturbed, AdminNext, Empty, EmptyInFlight,
        EmptyDeferred, EmptyClients, EmptyDrain, EmptyBackend, Close,
        BeginExit, CloseClients, FlushMem, FlushInFlight, FlushDeferred,
        Delete, DeleteEmpties, exitVars, subVars
  <2>8. CASE UNCHANGED vars
    BY <2>8 DEF vars, exitVars, subVars
  <2> QED
    BY <2>2, <2>3, <2>4, <2>5, <2>6, <2>7, <2>8 DEF Next
<1> QED
  BY <1>1, <1>2, TypeCorrect, PTL DEF Spec

\* A channel with room for every message that nobody empties counts exactly,
\* ephemeral or not, closed and deleted or not: the property of the run on
\* the ephemeral channel, for any number of clients and messages.
THEOREM RoomyCountExact ==
    ASSUME RoomForAll, "Empty" \notin AdminOps PROVE Spec => []CountExact
BY RoomyIsCalm, CalmCountExact, PTL

\* A channel with room for every message, in which only its clients and its
\* timeouts act, gives every message in flight its timeout and never panics:
\* the invariants of the run on messages, for any number of clients and
\* messages.
THEOREM RoomyChannel ==
    ASSUME RoomForAll, Undisturbed
    PROVE  Spec => [](InFlightTimesOut /\ NoPanic)
<1>1. "Empty" \notin AdminOps
  BY DEF Undisturbed
<1>2. Spec => []Calm
  BY <1>1, RoomyIsCalm
<1>3. Spec => []~exitFlag
  BY NeverExits
<1> QED
  BY <1>2, <1>3, InFlightHasTimeout, CalmNeverPanics, PTL
=============================================================================
