------------------------- MODULE TopicDeliveryProofs -------------------------
(* Where the messages of Topic are and which channels they are handed to,   *)
(* for any callers, messages, channel names, workloads and capacities.      *)
EXTENDS TopicProofs

(***************************************************************************)
(* The inductive invariants.                                               *)
(***************************************************************************)

Held == memoryMsgChan \cup backend \cup pumpMsg \cup done

\* Custody holds, and so will it after the next Put: what a publisher has yet
\* to queue is nowhere else, nor with another publisher, and messages are
\* known before they are anywhere.  The pump has a message only while it
\* delivers.
CustodyInv ==
    /\ Custody
    /\ Held \subseteq issued
    /\ \A c \in Callers :
          /\ call[c].batch \subseteq issued
          /\ call[c].batch \cap Held = {}
          /\ \A d \in Callers : d # c => call[c].batch \cap call[d].batch = {}
    /\ pumpPC # "deliver" => pumpMsg = {}

Distinct(s) == \A i, j \in 1..Len(s) : s[i] = s[j] => i = j

\* While the pump delivers, what it has handed out and what is left make up
\* its list, which names every channel once.
HandedInv ==
    /\ Distinct(chans)
    /\ \A m \in Msgs : m \notin pumpMsg \cup done => handed[m] = <<>>
    /\ \A m, k \in pumpMsg : m = k
    /\ \A m \in pumpMsg :
          /\ Len(handed[m]) + Len(left) = Len(chans)
          /\ \A i \in 1..Len(handed[m]) : handed[m][i] = chans[i]
          /\ \A i \in 1..Len(left) : left[i] = chans[Len(handed[m]) + i]
    /\ \A m \in done : Distinct(handed[m])

\* The goroutine that cancels the topic's context has set ExitFlag before, and
\* nothing clears it.
ExitInv ==
    /\ ctxDone => ExitFlag
    /\ \A c \in Callers : call[c].pc = "closeCancel" => ExitFlag
    /\ applyPC \in {"selfWait", "exitCancel"} => ExitFlag

\* An object that was replaced or removed does not come back.
MadeInv ==
    /\ \A n \in Names : Channels[n] <= made[n]
    /\ \A c \in Callers : call[c].chan[1] \in Names =>
                              call[c].chan[2] <= made[call[c].chan[1]]
    /\ \A o \in known : o[2] <= made[o[1]]
    /\ \A m \in Msgs : due[m] \subseteq known

In(o, s) == \E i \in 1..Len(s) : s[i] = o

\* The pump has the channel in its list or will reload it before it receives
\* another message.
Seen(o) ==
    Channels[o[1]] = o[2] =>
        In(o, chans) \/ pumpPC \in {"starting", "reload", "exited"}

SeenInv ==
    /\ ~ctxDone => \A o \in known : Seen(o)
    /\ \A m \in Msgs : \A o \in due[m] : Seen(o)
    /\ ReachesChannel

(***************************************************************************)
(* Which steps concern the messages.                                       *)
(***************************************************************************)

\* Only messagePump takes messages in its hand, reloads its list and hands out.
LEMMA OnlyPumpHands ==
    ASSUME \/ \E c \in Callers : CallerCalls(c) \/ CallerGoesOn(c)
           \/ ApplyStep \/ RaftStep
    PROVE  UNCHANGED <<pumpMsg, chans, left, done, handed>>
<1>1. ASSUME NEW c \in Callers, CallerCalls(c)
      PROVE  UNCHANGED <<pumpMsg, chans, left, done, handed>>
  BY <1>1 DEF CallerCalls, CallPut, CallGetChannel, CallDeleteChannel,
     CallPause, CallEmpty, CallDeleteTopic, CallClose, pumpVars, histVars
<1>2. ASSUME NEW c \in Callers, CallerGoesOn(c)
      PROVE  UNCHANGED <<pumpMsg, chans, left, done, handed>>
  BY <1>2 DEF CallerGoesOn, Put, PutFails, PutUpdate, PutUpdated, PutReturns,
     GetApply, GetAnswered, GetCheck, GetRead, DeleteAnswered, DeleteUnlock,
     NotifyChannel, NotifyLast, PauseUpdate, PauseUpdated, PauseNotify,
     EmptyMemory, EmptyBackend, DeleteTopicAnswered, CloseCancel, CloseWait,
     CloseChannels, CloseFlush, CloseBackend, Notified, PauseNotified,
     PumpReceives, TopicExited, pumpVars, histVars
<1>3. CASE ApplyStep
  BY <1>3 DEF ApplyStep, ApplyStart, ApplyTopicUpdate, ApplyRefused,
     ApplyLock, ApplyAcquire, ApplyNewChannel, ApplyDeleteChannel,
     ApplyDeleteTopic, ApplySelfAnswered, ApplyExitCancel, ApplyExitLock,
     ApplyExitChannels, ApplyExitMemory, ApplyExitBackend, pumpVars, histVars
<1>4. CASE RaftStep
  BY <1>4 DEF RaftStep, LoseLeadership, Abandon, pumpVars, histVars
<1> QED
  BY <1>1, <1>2, <1>3, <1>4

\* What the steps of a call do to its fields.  A return ...
LEMMA ReturnShape ==
    ASSUME CallOK, NEW c \in Callers, Return(c)
    PROVE  \A d \in Callers :
              /\ call'[d].batch \subseteq call[d].batch
              /\ call'[d].pc \in {"idle", call[d].pc}
              /\ call'[d].chan = call[d].chan \/ call'[d].chan[2] = 0
BY DEF CallOK, CallType, Return, Idle, Call, NoChannel

\* A move to another label.
LEMMA GotoShape ==
    ASSUME CallOK, NEW c \in Callers, NEW l, Goto(c, l)
    PROVE  \A d \in Callers :
              /\ call'[d].batch \subseteq call[d].batch
              /\ call'[d].pc \in {l, call[d].pc}
              /\ call'[d].chan = call[d].chan
BY DEF CallOK, CallType, Goto

\* A TopicUpdate of a publisher.
LEMMA CountDownShape ==
    ASSUME CallOK, NEW c \in Callers,
           \/ call' = [call EXCEPT ![c].todo = @ - 1, ![c].pc = "updateWait"]
           \/ call' = [call EXCEPT ![c].todo = @ - 1]
    PROVE  \A d \in Callers :
              /\ call'[d].batch \subseteq call[d].batch
              /\ call'[d].pc \in {"updateWait", call[d].pc}
              /\ call'[d].chan = call[d].chan
<1>1. CASE call' = [call EXCEPT ![c].todo = @ - 1, ![c].pc = "updateWait"]
  BY <1>1 DEF CallOK, CallType
<1>2. CASE call' = [call EXCEPT ![c].todo = @ - 1]
  BY <1>2 DEF CallOK, CallType
<1> QED
  BY <1>1, <1>2

(***************************************************************************)
(* Custody.                                                                *)
(***************************************************************************)

\* A step that moves no message keeps CustodyInv, if no publisher's batch
\* grows and the pump does not stop delivering.
LEMMA CustodyFrame ==
    ASSUME CustodyInv,
           UNCHANGED <<memoryMsgChan, backend, pumpMsg, issued, accepted, done>>,
           \A c \in Callers : call'[c].batch \subseteq call[c].batch,
           pumpPC = "deliver" => pumpPC' = "deliver"
    PROVE  CustodyInv'
<1>1. Custody' /\ Held' = Held /\ Held' \subseteq issued'
  BY DEF CustodyInv, Custody, Held
<1>2. ASSUME NEW c \in Callers
      PROVE  /\ call'[c].batch \subseteq issued'
             /\ call'[c].batch \cap Held' = {}
             /\ \A d \in Callers :
                    d # c => call'[c].batch \cap call'[d].batch = {}
  BY <1>1 DEF CustodyInv
<1>3. pumpPC' # "deliver" => pumpMsg' = {}
  BY DEF CustodyInv
<1> QED
  BY <1>1, <1>2, <1>3 DEF CustodyInv

\* The same when messages leave the queues for good.
LEMMA CustodyDrop ==
    ASSUME CustodyInv, UNCHANGED <<pumpMsg, pumpPC, issued, done>>,
           memoryMsgChan' \subseteq memoryMsgChan, backend' \subseteq backend,
           accepted' \subseteq accepted,
           accepted' \cap (memoryMsgChan \ memoryMsgChan') = {},
           accepted' \cap (backend \ backend') = {},
           \A c \in Callers : call'[c].batch \subseteq call[c].batch
    PROVE  CustodyInv'
<1>1. Custody'
  BY DEF CustodyInv, Custody
<1>2. Held' \subseteq Held /\ Held' \subseteq issued'
  BY DEF CustodyInv, Held
<1>3. ASSUME NEW c \in Callers
      PROVE  /\ call'[c].batch \subseteq issued'
             /\ call'[c].batch \cap Held' = {}
             /\ \A d \in Callers :
                    d # c => call'[c].batch \cap call'[d].batch = {}
  BY <1>2 DEF CustodyInv
<1> QED
  BY <1>1, <1>2, <1>3 DEF CustodyInv

\* The actions of publishers keep CustodyInv.
LEMMA PutCustody ==
    ASSUME TypeOK, CustodyInv,
           NEW c \in Callers,
           \/ \E op \in {"PutMessage", "PutMessages"}, ms \in SUBSET Msgs :
                 CallPut(c, op, ms)
           \/ \E m \in Msgs : Put(c, m)
           \/ PutFails(c)
           \/ PutUpdate(c)
           \/ PutUpdated(c)
           \/ PutReturns(c)
    PROVE  CustodyInv'
<1>1. ASSUME NEW op \in {"PutMessage", "PutMessages"}, NEW ms \in SUBSET Msgs,
            CallPut(c, op, ms)
     PROVE  CustodyInv'
  <2>1. /\ Custody' /\ Held' = Held
        /\ issued' = issued \cup ms /\ ms \cap issued = {}
    BY <1>1 DEF CallPut, CustodyInv, Custody, Held, queueVars, pumpVars
  <2>2. /\ call'[c].batch = ms
        /\ \A d \in Callers : d # c => call'[d] = call[d]
    BY <1>1 DEF CallPut, TypeOK, CallOK, Call
  <2>3. ASSUME NEW b \in Callers
        PROVE  /\ call'[b].batch \subseteq issued'
               /\ call'[b].batch \cap Held' = {}
               /\ \A d \in Callers :
                      d # b => call'[b].batch \cap call'[d].batch = {}
    BY <2>1, <2>2 DEF CustodyInv
  <2>4. pumpPC' # "deliver" => pumpMsg' = {}
    BY <1>1 DEF CallPut, CustodyInv, pumpVars
  <2> QED
    BY <2>1, <2>3, <2>4 DEF CustodyInv
<1>2. ASSUME NEW m \in Msgs, Put(c, m)
     PROVE  CustodyInv'
  <2>1. /\ m \in call[c].batch /\ m \in issued /\ m \notin Held
        /\ UNCHANGED <<pumpMsg, pumpPC, issued, done>>
    BY <1>2 DEF Put, CustodyInv, pumpVars
  <2>2. Custody' /\ Held' \subseteq Held \cup {m}
    BY <1>2, <2>1 DEF Put, put, CustodyInv, Custody, Held
  <2>3. /\ call'[c].batch = call[c].batch \ {m}
        /\ \A d \in Callers : d # c => call'[d] = call[d]
    BY <1>2 DEF Put, TypeOK, CallOK, CallType
  <2>4. \A d \in Callers : /\ call'[d].batch \subseteq call[d].batch
                           /\ m \notin call'[d].batch
    BY <2>1, <2>3 DEF CustodyInv
  <2>5. ASSUME NEW b \in Callers
        PROVE  /\ call'[b].batch \subseteq issued'
               /\ call'[b].batch \cap Held' = {}
               /\ \A d \in Callers :
                      d # b => call'[b].batch \cap call'[d].batch = {}
    BY <2>1, <2>2, <2>4 DEF CustodyInv
  <2>6. Held' \subseteq issued' /\ (pumpPC' # "deliver" => pumpMsg' = {})
    BY <2>1, <2>2 DEF CustodyInv
  <2> QED
    BY <2>2, <2>5, <2>6 DEF CustodyInv
<1>3. CASE PutFails(c)
  <2>1. /\ UNCHANGED <<memoryMsgChan, backend, pumpMsg, issued, accepted, done>>
        /\ pumpPC = "deliver" => pumpPC' = "deliver"
    BY <1>3 DEF PutFails, queueVars, pumpVars, histVars
  <2>2. CASE call[c].op = "PutMessage"
    BY <1>3, <2>1, <2>2, ReturnShape, CustodyFrame DEF TypeOK, PutFails
  <2>3. CASE call[c].op # "PutMessage"
    <3>1. \A d \in Callers : call'[d].batch \subseteq call[d].batch
      BY <1>3, <2>3 DEF PutFails, TypeOK, CallOK, CallType
    <3> QED
      BY <2>1, <3>1, CustodyFrame
  <2> QED
    BY <2>2, <2>3
<1>4. CASE PutUpdate(c)
  <2>1. /\ UNCHANGED <<memoryMsgChan, backend, pumpMsg, issued, accepted, done>>
        /\ pumpPC = "deliver" => pumpPC' = "deliver"
    BY <1>4 DEF PutUpdate, queueVars, pumpVars, histVars
  <2> QED
    BY <1>4, <2>1, CountDownShape, CustodyFrame DEF TypeOK, PutUpdate
<1>5. CASE PutUpdated(c)
  <2>1. /\ UNCHANGED <<memoryMsgChan, backend, pumpMsg, issued, accepted, done>>
        /\ pumpPC = "deliver" => pumpPC' = "deliver"
    BY <1>5 DEF PutUpdated, queueVars, pumpVars, histVars
  <2>2. \A d \in Callers : call'[d].batch \subseteq call[d].batch
    BY <1>5 DEF PutUpdated, TypeOK, CallOK, CallType, Goto, Return, Idle, Call
  <2> QED
    BY <2>1, <2>2, CustodyFrame
<1>6. CASE PutReturns(c)
  <2>1. /\ UNCHANGED <<memoryMsgChan, backend, pumpMsg, issued, accepted, done>>
        /\ pumpPC = "deliver" => pumpPC' = "deliver"
    BY <1>6 DEF PutReturns, queueVars, pumpVars, histVars
  <2>2. \A d \in Callers : call'[d].batch \subseteq call[d].batch
    BY <1>6 DEF PutReturns, TypeOK, CallOK, CallType, Goto, Return, Idle, Call
  <2> QED
    BY <2>1, <2>2, CustodyFrame
<1> QED
  BY <1>1, <1>2, <1>3, <1>4, <1>5, <1>6

\* The actions of GetChannel and its like keep CustodyInv.
LEMMA ChannelCustody ==
    ASSUME TypeOK, CustodyInv,
           NEW c \in Callers,
           \/ \E n \in workload.names : CallGetChannel(c, n)
           \/ GetApply(c)
           \/ GetAnswered(c)
           \/ GetCheck(c)
           \/ GetRead(c)
           \/ \E n \in workload.names : CallDeleteChannel(c, n)
           \/ DeleteAnswered(c)
           \/ DeleteUnlock(c)
           \/ NotifyChannel(c)
           \/ NotifyLast(c)
    PROVE  CustodyInv'
<1>1. ASSUME NEW n \in workload.names, CallGetChannel(c, n)
     PROVE  CustodyInv'
  <2>1. /\ UNCHANGED <<memoryMsgChan, backend, pumpMsg, issued, accepted, done>>
        /\ pumpPC = "deliver" => pumpPC' = "deliver"
    BY <1>1 DEF CallGetChannel, queueVars, pumpVars, histVars
  <2>2. \A d \in Callers : call'[d].batch \subseteq call[d].batch
    BY <1>1 DEF CallGetChannel, TypeOK, CallOK, CallType, Goto, Return, Idle,
       Call
  <2> QED
    BY <2>1, <2>2, CustodyFrame
<1>2. CASE GetApply(c)
  <2>1. /\ UNCHANGED <<memoryMsgChan, backend, pumpMsg, issued, accepted, done>>
        /\ pumpPC = "deliver" => pumpPC' = "deliver"
    BY <1>2 DEF GetApply, queueVars, pumpVars, histVars
  <2> QED
    BY <1>2, <2>1, GotoShape, CustodyFrame DEF TypeOK, GetApply
<1>3. CASE GetAnswered(c)
  <2>1. /\ UNCHANGED <<memoryMsgChan, backend, pumpMsg, issued, accepted, done>>
        /\ pumpPC = "deliver" => pumpPC' = "deliver"
    BY <1>3 DEF GetAnswered, queueVars, pumpVars, histVars
  <2>2. \A d \in Callers : call'[d].batch \subseteq call[d].batch
    BY <1>3 DEF GetAnswered, TypeOK, CallOK, CallType, Goto
  <2> QED
    BY <2>1, <2>2, CustodyFrame
<1>4. CASE GetCheck(c)
  <2>1. /\ UNCHANGED <<memoryMsgChan, backend, pumpMsg, issued, accepted, done>>
        /\ pumpPC = "deliver" => pumpPC' = "deliver"
    BY <1>4 DEF GetCheck, queueVars, pumpVars, histVars
  <2>2. \A d \in Callers : call'[d].batch \subseteq call[d].batch
    BY <1>4 DEF GetCheck, TypeOK, CallOK, CallType, Goto
  <2> QED
    BY <2>1, <2>2, CustodyFrame
<1>5. CASE GetRead(c)
  <2>1. /\ UNCHANGED <<memoryMsgChan, backend, pumpMsg, issued, accepted, done>>
        /\ pumpPC = "deliver" => pumpPC' = "deliver"
    BY <1>5 DEF GetRead, queueVars, pumpVars, histVars
  <2>2. \A d \in Callers : call'[d].batch \subseteq call[d].batch
    BY <1>5 DEF GetRead, TypeOK, CallOK, CallType, Goto, Return, Idle, Call
  <2> QED
    BY <2>1, <2>2, CustodyFrame
<1>6. ASSUME NEW n \in workload.names, CallDeleteChannel(c, n)
     PROVE  CustodyInv'
  <2>1. /\ UNCHANGED <<memoryMsgChan, backend, pumpMsg, issued, accepted, done>>
        /\ pumpPC = "deliver" => pumpPC' = "deliver"
    BY <1>6 DEF CallDeleteChannel, queueVars, pumpVars, histVars
  <2>2. \A d \in Callers : call'[d].batch \subseteq call[d].batch
    BY <1>6 DEF CallDeleteChannel, TypeOK, CallOK, CallType, Goto, Return,
       Idle, Call
  <2> QED
    BY <2>1, <2>2, CustodyFrame
<1>7. CASE DeleteAnswered(c)
  <2>1. /\ UNCHANGED <<memoryMsgChan, backend, pumpMsg, issued, accepted, done>>
        /\ pumpPC = "deliver" => pumpPC' = "deliver"
    BY <1>7 DEF DeleteAnswered, queueVars, pumpVars, histVars
  <2>2. \A d \in Callers : call'[d].batch \subseteq call[d].batch
    BY <1>7 DEF DeleteAnswered, TypeOK, CallOK, CallType, Goto, Return, Idle,
       Call
  <2> QED
    BY <2>1, <2>2, CustodyFrame
<1>8. CASE DeleteUnlock(c)
  <2>1. /\ UNCHANGED <<memoryMsgChan, backend, pumpMsg, issued, accepted, done>>
        /\ pumpPC = "deliver" => pumpPC' = "deliver"
    BY <1>8 DEF DeleteUnlock, queueVars, pumpVars, histVars
  <2>2. \A d \in Callers : call'[d].batch \subseteq call[d].batch
    BY <1>8 DEF DeleteUnlock, TypeOK, CallOK, CallType, Goto, Return, Idle,
       Call
  <2> QED
    BY <2>1, <2>2, CustodyFrame
<1>9. CASE NotifyChannel(c)
  <2>1. /\ UNCHANGED <<memoryMsgChan, backend, pumpMsg, issued, accepted, done>>
        /\ pumpPC = "deliver" => pumpPC' = "deliver"
    BY <1>9 DEF NotifyChannel, Notified, PumpReceives, TopicExited, queueVars,
       pumpVars, histVars
  <2>2. \A d \in Callers : call'[d].batch \subseteq call[d].batch
    BY <1>9 DEF NotifyChannel, TypeOK, CallOK, CallType, Goto, Return, Idle,
       Call
  <2> QED
    BY <2>1, <2>2, CustodyFrame
<1>10. CASE NotifyLast(c)
  <2>1. /\ UNCHANGED <<memoryMsgChan, backend, pumpMsg, issued, accepted, done>>
        /\ pumpPC = "deliver" => pumpPC' = "deliver"
    BY <1>10 DEF NotifyLast, Notified, PumpReceives, TopicExited, queueVars,
       pumpVars, histVars
  <2>2. \A d \in Callers : call'[d].batch \subseteq call[d].batch
    BY <1>10 DEF NotifyLast, TypeOK, CallOK, CallType, Goto, Return, Idle,
       Call
  <2> QED
    BY <2>1, <2>2, CustodyFrame
<1> QED
  BY <1>1, <1>2, <1>3, <1>4, <1>5, <1>6, <1>7, <1>8, <1>9, <1>10

\* The actions of Pause, Empty and DeleteTopic keep CustodyInv.
LEMMA AdminCustody ==
    ASSUME TypeOK, CustodyInv,
           NEW c \in Callers,
           \/ \E op \in {"Pause", "UnPause"} : CallPause(c, op)
           \/ PauseUpdate(c)
           \/ PauseUpdated(c)
           \/ PauseNotify(c)
           \/ CallEmpty(c)
           \/ EmptyMemory(c)
           \/ EmptyBackend(c)
           \/ CallDeleteTopic(c)
           \/ DeleteTopicAnswered(c)
    PROVE  CustodyInv'
<1>1. ASSUME NEW op \in {"Pause", "UnPause"}, CallPause(c, op)
     PROVE  CustodyInv'
  <2>1. /\ UNCHANGED <<memoryMsgChan, backend, pumpMsg, issued, accepted, done>>
        /\ pumpPC = "deliver" => pumpPC' = "deliver"
    BY <1>1 DEF CallPause, queueVars, pumpVars, histVars
  <2>2. \A d \in Callers : call'[d].batch \subseteq call[d].batch
    BY <1>1 DEF CallPause, TypeOK, CallOK, CallType, Goto, Return, Idle, Call
  <2> QED
    BY <2>1, <2>2, CustodyFrame
<1>2. CASE PauseUpdate(c)
  <2>1. /\ UNCHANGED <<memoryMsgChan, backend, pumpMsg, issued, accepted, done>>
        /\ pumpPC = "deliver" => pumpPC' = "deliver"
    BY <1>2 DEF PauseUpdate, queueVars, pumpVars, histVars
  <2>2. \A d \in Callers : call'[d].batch \subseteq call[d].batch
    BY <1>2 DEF PauseUpdate, TypeOK, CallOK, CallType, Goto, Return, Idle,
       Call
  <2> QED
    BY <2>1, <2>2, CustodyFrame
<1>3. CASE PauseUpdated(c)
  <2>1. /\ UNCHANGED <<memoryMsgChan, backend, pumpMsg, issued, accepted, done>>
        /\ pumpPC = "deliver" => pumpPC' = "deliver"
    BY <1>3 DEF PauseUpdated, queueVars, pumpVars, histVars
  <2>2. \A d \in Callers : call'[d].batch \subseteq call[d].batch
    BY <1>3 DEF PauseUpdated, TypeOK, CallOK, CallType, Goto, Return, Idle,
       Call
  <2> QED
    BY <2>1, <2>2, CustodyFrame
<1>4. CASE PauseNotify(c)
  <2>1. /\ UNCHANGED <<memoryMsgChan, backend, pumpMsg, issued, accepted, done>>
        /\ pumpPC = "deliver" => pumpPC' = "deliver"
    BY <1>4 DEF PauseNotify, PauseNotified, PumpReceives, TopicExited,
       queueVars, pumpVars, histVars
  <2>2. \A d \in Callers : call'[d].batch \subseteq call[d].batch
    BY <1>4 DEF PauseNotify, TypeOK, CallOK, CallType, Goto, Return, Idle,
       Call
  <2> QED
    BY <2>1, <2>2, CustodyFrame
<1>5. CASE CallEmpty(c)
  <2>1. /\ UNCHANGED <<memoryMsgChan, backend, pumpMsg, issued, accepted, done>>
        /\ pumpPC = "deliver" => pumpPC' = "deliver"
    BY <1>5 DEF CallEmpty, queueVars, pumpVars, histVars
  <2>2. \A d \in Callers : call'[d].batch \subseteq call[d].batch
    BY <1>5 DEF CallEmpty, TypeOK, CallOK, CallType, Goto, Return, Idle, Call
  <2> QED
    BY <2>1, <2>2, CustodyFrame
<1>6. CASE EmptyMemory(c)
  <2>1. UNCHANGED <<backend, call, pumpMsg, pumpPC, issued, done>>
    BY <1>6 DEF EmptyMemory, pumpVars
  <2>2. PICK m \in memoryMsgChan : /\ memoryMsgChan' = memoryMsgChan \ {m}
                                   /\ accepted' = accepted \ {m}
    BY <1>6 DEF EmptyMemory, DropOne
  <2> QED
    BY <2>1, <2>2, CustodyDrop
<1>7. CASE EmptyBackend(c)
  <2>1. /\ UNCHANGED <<memoryMsgChan, pumpMsg, pumpPC, issued, done>>
        /\ backend' \subseteq backend
        /\ accepted' = accepted \ (backend \ backend')
    BY <1>7 DEF EmptyBackend, pumpVars
  <2>2. \A d \in Callers : call'[d].batch \subseteq call[d].batch
    BY <1>7 DEF EmptyBackend, TypeOK, CallOK, Return, Idle, Call
  <2> QED
    BY <2>1, <2>2, CustodyDrop
<1>8. CASE CallDeleteTopic(c)
  <2>1. /\ UNCHANGED <<memoryMsgChan, backend, pumpMsg, issued, accepted, done>>
        /\ pumpPC = "deliver" => pumpPC' = "deliver"
    BY <1>8 DEF CallDeleteTopic, queueVars, pumpVars, histVars
  <2>2. \A d \in Callers : call'[d].batch \subseteq call[d].batch
    BY <1>8 DEF CallDeleteTopic, TypeOK, CallOK, CallType, Goto, Return, Idle,
       Call
  <2> QED
    BY <2>1, <2>2, CustodyFrame
<1>9. CASE DeleteTopicAnswered(c)
  <2>1. /\ UNCHANGED <<memoryMsgChan, backend, pumpMsg, issued, accepted, done>>
        /\ pumpPC = "deliver" => pumpPC' = "deliver"
    BY <1>9 DEF DeleteTopicAnswered, queueVars, pumpVars, histVars
  <2>2. \A d \in Callers : call'[d].batch \subseteq call[d].batch
    BY <1>9 DEF DeleteTopicAnswered, TypeOK, CallOK, CallType, Goto, Return,
       Idle, Call
  <2> QED
    BY <2>1, <2>2, CustodyFrame
<1> QED
  BY <1>1, <1>2, <1>3, <1>4, <1>5, <1>6, <1>7, <1>8, <1>9

\* The actions of Close keep CustodyInv.
LEMMA CloseCustody ==
    ASSUME TypeOK, CustodyInv,
           NEW c \in Callers,
           \/ CallClose(c)
           \/ CloseCancel(c)
           \/ CloseWait(c)
           \/ CloseChannels(c)
           \/ CloseFlush(c)
           \/ CloseBackend(c)
    PROVE  CustodyInv'
<1>1. CASE CallClose(c)
  <2>1. /\ UNCHANGED <<memoryMsgChan, backend, pumpMsg, issued, accepted, done>>
        /\ pumpPC = "deliver" => pumpPC' = "deliver"
    BY <1>1 DEF CallClose, queueVars, pumpVars, histVars
  <2>2. \A d \in Callers : call'[d].batch \subseteq call[d].batch
    BY <1>1 DEF CallClose, TypeOK, CallOK, CallType, Goto, Return, Idle, Call
  <2> QED
    BY <2>1, <2>2, CustodyFrame
<1>2. CASE CloseCancel(c)
  <2>1. /\ UNCHANGED <<memoryMsgChan, backend, pumpMsg, issued, accepted, done>>
        /\ pumpPC = "deliver" => pumpPC' = "deliver"
    BY <1>2 DEF CloseCancel, queueVars, pumpVars, histVars
  <2>2. \A d \in Callers : call'[d].batch \subseteq call[d].batch
    BY <1>2 DEF CloseCancel, TypeOK, CallOK, CallType, Goto, Return, Idle,
       Call
  <2> QED
    BY <2>1, <2>2, CustodyFrame
<1>3. CASE CloseWait(c)
  <2>1. /\ UNCHANGED <<memoryMsgChan, backend, pumpMsg, issued, accepted, done>>
        /\ pumpPC = "deliver" => pumpPC' = "deliver"
    BY <1>3 DEF CloseWait, queueVars, pumpVars, histVars
  <2>2. \A d \in Callers : call'[d].batch \subseteq call[d].batch
    BY <1>3 DEF CloseWait, TypeOK, CallOK, CallType, Goto, Return, Idle, Call
  <2> QED
    BY <2>1, <2>2, CustodyFrame
<1>4. CASE CloseChannels(c)
  <2>1. /\ UNCHANGED <<memoryMsgChan, backend, pumpMsg, issued, accepted, done>>
        /\ pumpPC = "deliver" => pumpPC' = "deliver"
    BY <1>4 DEF CloseChannels, queueVars, pumpVars, histVars
  <2>2. \A d \in Callers : call'[d].batch \subseteq call[d].batch
    BY <1>4 DEF CloseChannels, TypeOK, CallOK, CallType, Goto, Return, Idle,
       Call
  <2> QED
    BY <2>1, <2>2, CustodyFrame
<1>5. CASE CloseFlush(c)
  <2>1. UNCHANGED <<call, pumpMsg, pumpPC, issued, done>>
    BY <1>5 DEF CloseFlush, pumpVars
  <2>2. PICK m \in memoryMsgChan :
          /\ memoryMsgChan' = memoryMsgChan \ {m}
          /\ \/ backend' = backend \cup {m} /\ accepted' = accepted
             \/ accepted' = accepted \ {m} /\ backend' = backend
    BY <1>5 DEF CloseFlush
  <2>3. CASE accepted' = accepted \ {m} /\ backend' = backend
    BY <2>1, <2>2, <2>3, CustodyDrop
  <2>4. CASE backend' = backend \cup {m} /\ accepted' = accepted
    <3>1. Custody' /\ Held' = Held
      BY <2>1, <2>2, <2>4 DEF CustodyInv, Custody, Held
    <3> QED
      BY <2>1, <3>1 DEF CustodyInv
  <2> QED
    BY <2>2, <2>3, <2>4
<1>6. CASE CloseBackend(c)
  <2>1. /\ UNCHANGED <<memoryMsgChan, backend, pumpMsg, issued, accepted, done>>
        /\ pumpPC = "deliver" => pumpPC' = "deliver"
    BY <1>6 DEF CloseBackend, queueVars, pumpVars, histVars
  <2>2. \A d \in Callers : call'[d].batch \subseteq call[d].batch
    BY <1>6 DEF CloseBackend, TypeOK, CallOK, CallType, Goto, Return, Idle,
       Call
  <2> QED
    BY <2>1, <2>2, CustodyFrame
<1> QED
  BY <1>1, <1>2, <1>3, <1>4, <1>5, <1>6

\* The actions of messagePump keep CustodyInv.
LEMMA PumpCustody ==
    ASSUME TypeOK, CustodyInv,
           \/ PumpStart
           \/ PumpReload
           \/ PumpRepause
           \/ \E m \in Msgs : PumpReceive(m)
           \/ \E m \in Msgs : PumpDeliver(m)
           \/ PumpNext
           \/ PumpExit
    PROVE  CustodyInv'
<1>1. CASE PumpStart
  BY <1>1, CustodyFrame DEF PumpStart, queueVars, pumpVars, histVars
<1>2. CASE PumpReload
  BY <1>2, CustodyFrame DEF PumpReload, queueVars, pumpVars, histVars
<1>3. CASE PumpRepause
  BY <1>3, CustodyFrame DEF PumpRepause, queueVars, pumpVars, histVars
<1>4. ASSUME NEW m \in Msgs, PumpReceive(m)
     PROVE  CustodyInv'
  <2>1. /\ pumpMsg = {} /\ pumpMsg' = {m} /\ pumpPC' = "deliver"
        /\ UNCHANGED <<call, issued, accepted, done>>
    BY <1>4 DEF PumpReceive, CustodyInv, histVars
  <2>2. Custody' /\ Held' = Held
    BY <1>4, <2>1 DEF PumpReceive, CustodyInv, Custody, Held
  <2> QED
    BY <2>1, <2>2 DEF CustodyInv
<1>5. ASSUME NEW m \in Msgs, PumpDeliver(m)
     PROVE  CustodyInv'
  BY <1>5, CustodyFrame DEF PumpDeliver, queueVars, pumpVars, histVars
<1>6. CASE PumpNext
  <2>1. /\ done' = done \cup pumpMsg /\ pumpMsg' = {}
        /\ UNCHANGED <<memoryMsgChan, backend, call, issued, accepted>>
    BY <1>6 DEF PumpNext, queueVars
  <2>2. Custody' /\ Held' = Held
    BY <2>1 DEF CustodyInv, Custody, Held
  <2> QED
    BY <2>1, <2>2 DEF CustodyInv
<1>7. CASE PumpExit
  BY <1>7, CustodyFrame DEF PumpExit, queueVars, pumpVars, histVars
<1> QED
  BY <1>1, <1>2, <1>3, <1>4, <1>5, <1>6, <1>7

\* The actions of XMQCluster.Apply keep CustodyInv.
LEMMA ApplyCustody ==
    ASSUME TypeOK, CustodyInv,
           \/ ApplyStart
           \/ ApplyTopicUpdate
           \/ ApplyRefused
           \/ ApplyLock
           \/ ApplyAcquire
           \/ ApplyNewChannel
           \/ ApplyDeleteChannel
           \/ ApplyDeleteTopic
           \/ ApplySelfAnswered
           \/ ApplyExitCancel
           \/ ApplyExitLock
           \/ ApplyExitChannels
           \/ ApplyExitMemory
           \/ ApplyExitBackend
    PROVE  CustodyInv'
<1>1. CASE ApplyStart
  BY <1>1, CustodyFrame DEF ApplyStart, queueVars, pumpVars, histVars
<1>2. CASE ApplyTopicUpdate
  BY <1>2, CustodyFrame DEF ApplyTopicUpdate, queueVars, pumpVars, histVars
<1>3. CASE ApplyRefused
  BY <1>3, CustodyFrame DEF ApplyRefused, queueVars, pumpVars, histVars
<1>4. CASE ApplyLock
  BY <1>4, CustodyFrame DEF ApplyLock, queueVars, pumpVars, histVars
<1>5. CASE ApplyAcquire
  BY <1>5, CustodyFrame DEF ApplyAcquire, queueVars, pumpVars, histVars
<1>6. CASE ApplyNewChannel
  BY <1>6, CustodyFrame DEF ApplyNewChannel, queueVars, pumpVars, histVars
<1>7. CASE ApplyDeleteChannel
  BY <1>7, CustodyFrame DEF ApplyDeleteChannel, queueVars, pumpVars, histVars
<1>8. CASE ApplyDeleteTopic
  BY <1>8, CustodyFrame DEF ApplyDeleteTopic, queueVars, pumpVars, histVars
<1>9. CASE ApplySelfAnswered
  BY <1>9, CustodyFrame DEF ApplySelfAnswered, queueVars, pumpVars, histVars
<1>10. CASE ApplyExitCancel
  BY <1>10, CustodyFrame DEF ApplyExitCancel, queueVars, pumpVars, histVars
<1>11. CASE ApplyExitLock
  BY <1>11, CustodyFrame DEF ApplyExitLock, queueVars, pumpVars, histVars
<1>12. CASE ApplyExitChannels
  BY <1>12, CustodyFrame DEF ApplyExitChannels, queueVars, pumpVars, histVars
<1>13. CASE ApplyExitMemory
  <2>1. UNCHANGED <<backend, call, pumpMsg, pumpPC, issued, done>>
    BY <1>13 DEF ApplyExitMemory, pumpVars
  <2>2. PICK m \in memoryMsgChan : /\ memoryMsgChan' = memoryMsgChan \ {m}
                                   /\ accepted' = accepted \ {m}
    BY <1>13 DEF ApplyExitMemory, DropOne
  <2> QED
    BY <2>1, <2>2, CustodyDrop
<1>14. CASE ApplyExitBackend
  <2>1. /\ UNCHANGED <<memoryMsgChan, call, pumpMsg, pumpPC, issued, done>>
        /\ backend' = {} /\ accepted' = accepted \ backend
    BY <1>14 DEF ApplyExitBackend, pumpVars
  <2> QED
    BY <2>1, CustodyDrop
<1> QED
  BY <1>1, <1>2, <1>3, <1>4, <1>5, <1>6, <1>7, <1>8, <1>9, <1>10, <1>11,
     <1>12, <1>13, <1>14

\* The actions of Raft keep CustodyInv.
LEMMA RaftCustody ==
    ASSUME TypeOK, CustodyInv,
           \/ LoseLeadership
           \/ \E i \in DOMAIN log : Abandon(i)
    PROVE  CustodyInv'
<1>1. CASE LoseLeadership
  BY <1>1, CustodyFrame DEF LoseLeadership, queueVars, pumpVars, histVars
<1>2. ASSUME NEW i \in DOMAIN log, Abandon(i)
     PROVE  CustodyInv'
  BY <1>2, CustodyFrame DEF Abandon, queueVars, pumpVars, histVars
<1> QED
  BY <1>1, <1>2

\* No message is anywhere at first.
LEMMA CustodyInit == Init => CustodyInv
<1> SUFFICES ASSUME Init PROVE CustodyInv
  OBVIOUS
<1>1. /\ memoryMsgChan = {} /\ backend = {} /\ pumpMsg = {} /\ done = {}
      /\ issued = {} /\ accepted = {}
      /\ \A c \in Callers : call[c].batch = {}
  BY DEF Init, Idle, Call
<1> QED
  BY <1>1 DEF CustodyInv, Custody, Held

\* Every step keeps CustodyInv.
LEMMA CustodyStep == TypeOK /\ CustodyInv /\ [Next]_vars => CustodyInv'
<1> SUFFICES ASSUME TypeOK, CustodyInv, [Next]_vars PROVE CustodyInv'
  OBVIOUS
<1>1. ASSUME NEW c \in Callers, CallerCalls(c) \/ CallerGoesOn(c)
      PROVE  CustodyInv'
  BY <1>1, PutCustody, ChannelCustody, AdminCustody, CloseCustody
  DEF CallerCalls, CallerGoesOn
<1>2. CASE PumpStep
  BY <1>2, PumpCustody DEF PumpStep
<1>3. CASE ApplyStep
  BY <1>3, ApplyCustody DEF ApplyStep
<1>4. CASE RaftStep
  BY <1>4, RaftCustody DEF RaftStep
<1>5. CASE UNCHANGED vars
  BY <1>5, CustodyFrame DEF vars, queueVars, pumpVars, histVars
<1> QED
  BY <1>1, <1>2, <1>3, <1>4, <1>5 DEF Next

\* CustodyInv holds in every state.
LEMMA CustodyAlways == Spec => [](TypeOK /\ CustodyInv)
<1>1. Init => TypeOK /\ CustodyInv
  BY TypeInit, CustodyInit
<1>2. TypeOK /\ CustodyInv /\ [Next]_vars => (TypeOK /\ CustodyInv)'
  BY TypeStep, CustodyStep
<1> QED
  BY <1>1, <1>2, PTL DEF Spec

\* A message that Topic.put has queued is in exactly one place until Empty,
\* Close or the deletion of the topic gives it up, however publishers, the
\* pump and exit interleave.
THEOREM TopicCustody == Spec => []Custody
<1>1. CustodyInv => Custody
  BY DEF CustodyInv
<1> QED
  BY <1>1, CustodyAlways, PTL

(***************************************************************************)
(* What the pump hands out.                                                *)
(***************************************************************************)

\* A list that PumpReload may take names no channel twice.
LEMMA OrdersDistinct ==
    ASSUME MapOK, NEW s \in Orders(Current)
    PROVE  s \in Seq(Objects) /\ Distinct(s)
<1>1. Cardinality(Current) \in Nat
  BY CurrentType, FS_CardinalityType
<1>2. s \in Seq(Objects) /\ DOMAIN s = 1..Len(s)
  BY <1>1, OrdersType
<1>3. \A i, j \in DOMAIN s : s[i] = s[j] => i = j
  BY DEF Orders
<1> QED
  BY <1>2, <1>3 DEF Distinct

\* A step that does not touch what the pump has handed out.
LEMMA HandedFrame ==
    ASSUME HandedInv, UNCHANGED <<pumpMsg, chans, left, done, handed>>
    PROVE  HandedInv'
BY DEF HandedInv, Distinct

\* The actions of messagePump keep HandedInv.
LEMMA PumpHanded ==
    ASSUME TypeOK, CustodyInv, HandedInv,
           \/ PumpStart \/ PumpReload \/ PumpRepause \/ PumpNext \/ PumpExit
           \/ \E m \in Msgs : PumpReceive(m) \/ PumpDeliver(m)
    PROVE  HandedInv'
<1>1. CASE PumpStart \/ PumpRepause \/ PumpExit
  BY <1>1, HandedFrame DEF PumpStart, PumpRepause, PumpExit, histVars
<1>2. CASE PumpReload
  <2>1. pumpMsg = {} /\ UNCHANGED <<pumpMsg, done, handed>>
    BY <1>2 DEF PumpReload, CustodyInv, histVars
  <2>2. Distinct(chans')
    BY <1>2, OrdersDistinct DEF PumpReload, ReloadedChans, TypeOK
  <2> QED
    BY <2>1, <2>2 DEF HandedInv, Distinct
<1>3. ASSUME NEW m \in Msgs, PumpReceive(m) PROVE HandedInv'
  <2>1. /\ pumpMsg = {} /\ pumpMsg' = {m} /\ left' = chans
        /\ UNCHANGED <<chans, done, handed>>
    BY <1>3 DEF PumpReceive, CustodyInv, histVars
  <2>2. m \notin done
    BY <1>3 DEF PumpReceive, CustodyInv, Custody
  <2>3. handed[m] = <<>>
    BY <2>1, <2>2 DEF HandedInv
  <2>4. /\ Len(handed[m]) = 0 /\ chans \in Seq(Objects)
        /\ Len(chans) \in Nat
    BY <2>3 DEF TypeOK, PumpOK
  <2>5. /\ Len(handed'[m]) + Len(left') = Len(chans')
        /\ \A i \in 1..Len(handed'[m]) : handed'[m][i] = chans'[i]
        /\ \A i \in 1..Len(left') : left'[i] = chans'[Len(handed'[m]) + i]
    BY <2>1, <2>4
  <2> QED
    BY <2>1, <2>2, <2>5 DEF HandedInv, Distinct
<1>4. ASSUME NEW m \in Msgs, PumpDeliver(m) PROVE HandedInv'
  <2>1. /\ m \in pumpMsg /\ left # <<>>
        /\ handed' = [handed EXCEPT ![m] = Append(@, Head(left))]
        /\ left' = Tail(left) /\ UNCHANGED <<pumpMsg, chans, done>>
    BY <1>4 DEF PumpDeliver
  <2>2. /\ handed[m] \in Seq(Objects) /\ left \in Seq(Objects)
        /\ chans \in Seq(Objects)
        /\ handed'[m] = Append(handed[m], left[1])
        /\ \A k \in Msgs : k # m => handed'[k] = handed[k]
    BY <2>1 DEF TypeOK, HistOK, PumpOK
  <2>3. /\ Len(left) \in Nat \ {0} /\ Len(handed[m]) \in Nat
        /\ Len(left') = Len(left) - 1
        /\ Len(handed'[m]) = Len(handed[m]) + 1
        /\ \A i \in 1..Len(left') : left'[i] = left[i + 1]
        /\ \A i \in 1..Len(handed[m]) : handed'[m][i] = handed[m][i]
        /\ handed'[m][Len(handed[m]) + 1] = left[1]
    BY <2>1, <2>2
  <2>4. /\ Len(handed[m]) + Len(left) = Len(chans)
        /\ \A i \in 1..Len(handed[m]) : handed[m][i] = chans[i]
        /\ \A i \in 1..Len(left) : left[i] = chans[Len(handed[m]) + i]
    BY <2>1 DEF HandedInv
  <2>5. /\ Len(handed'[m]) + Len(left') = Len(chans')
        /\ \A i \in 1..Len(handed'[m]) : handed'[m][i] = chans'[i]
    <3>1. Len(handed'[m]) + Len(left') = Len(chans')
      BY <2>1, <2>3, <2>4
    <3>2. left[1] = chans[Len(handed[m]) + 1]
      BY <2>3, <2>4
    <3>3. ASSUME NEW i \in 1..Len(handed'[m]) PROVE handed'[m][i] = chans[i]
      <4>1. CASE i = Len(handed[m]) + 1
        BY <2>3, <3>2, <4>1
      <4>2. CASE i # Len(handed[m]) + 1
        <5>1. i \in 1..Len(handed[m])
          BY <2>3, <4>2
        <5> QED
          BY <2>3, <2>4, <5>1
      <4> QED
        BY <4>1, <4>2
    <3> QED
      BY <2>1, <3>1, <3>3
  <2>6. ASSUME NEW i \in 1..Len(left')
        PROVE  left'[i] = chans'[Len(handed'[m]) + i]
    <3>1. i + 1 \in 1..Len(left) /\ left'[i] = left[i + 1]
      BY <2>3
    <3>2. left[i + 1] = chans[Len(handed[m]) + (i + 1)]
      BY <2>4, <3>1
    <3>3. i \in Nat /\ Len(handed'[m]) = Len(handed[m]) + 1
      BY <2>3
    <3>4. \A h, k \in Nat : h + (k + 1) = (h + 1) + k
      OBVIOUS
    <3>5. Len(handed[m]) + (i + 1) = Len(handed'[m]) + i
      BY <2>3, <3>3, <3>4
    <3> QED
      BY <2>1, <3>1, <3>2, <3>5
  <2>7. m \notin done
    BY <2>1 DEF CustodyInv, Custody
  <2>8. \A k \in Msgs : k \notin pumpMsg' \cup done' => handed'[k] = <<>>
    BY <2>1, <2>2 DEF HandedInv
  <2>9. \A k \in done' : Distinct(handed'[k])
    BY <2>1, <2>2, <2>7 DEF HandedInv, TypeOK, HistOK
  <2>10. \A k \in pumpMsg' : k = m
    BY <2>1 DEF HandedInv
  <2>11. Distinct(chans')
    BY <2>1 DEF HandedInv
  <2> QED
    BY <2>1, <2>5, <2>6, <2>8, <2>9, <2>10, <2>11, SMTT(20) DEF HandedInv, Distinct
<1>5. CASE PumpNext
  <2>1. /\ done' = done \cup pumpMsg /\ pumpMsg' = {}
        /\ UNCHANGED <<chans, handed>>
    BY <1>5 DEF PumpNext
  <2>2. ASSUME NEW m \in pumpMsg PROVE Distinct(handed[m])
    <3>1. /\ Len(handed[m]) \in Nat /\ Len(left) \in Nat /\ Len(chans) \in Nat
      BY DEF TypeOK, HistOK, PumpOK
    <3>2. /\ Len(handed[m]) + Len(left) = Len(chans)
          /\ \A i \in 1..Len(handed[m]) : handed[m][i] = chans[i]
          /\ \A i, j \in 1..Len(chans) : chans[i] = chans[j] => i = j
      BY DEF HandedInv, Distinct
    <3> QED
      BY <3>1, <3>2, SMTT(20) DEF Distinct
  <2> QED
    BY <2>1, <2>2 DEF HandedInv, Distinct
<1> QED
  BY <1>1, <1>2, <1>3, <1>4, <1>5

\* Nothing has been handed out at first.
LEMMA HandedInit == Init => HandedInv
BY DEF Init, HandedInv, Distinct

\* Every step keeps HandedInv.
LEMMA HandedStep ==
    TypeOK /\ CustodyInv /\ HandedInv /\ [Next]_vars => HandedInv'
<1> SUFFICES ASSUME TypeOK, CustodyInv, HandedInv, [Next]_vars
             PROVE  HandedInv'
  OBVIOUS
<1>1. ASSUME NEW c \in Callers, CallerCalls(c) \/ CallerGoesOn(c)
      PROVE  HandedInv'
  BY <1>1, OnlyPumpHands, HandedFrame
<1>2. CASE PumpStep
  BY <1>2, PumpHanded DEF PumpStep
<1>3. CASE ApplyStep \/ RaftStep
  BY <1>3, OnlyPumpHands, HandedFrame
<1>4. CASE UNCHANGED vars
  BY <1>4, HandedFrame DEF vars, pumpVars, histVars
<1> QED
  BY <1>1, <1>2, <1>3, <1>4 DEF Next

\* HandedInv holds in every state.
LEMMA HandedAlways == Spec => [](TypeOK /\ CustodyInv /\ HandedInv)
<1> QED
  BY HandedInit, HandedStep, CustodyAlways, PTL DEF Spec

\* messagePump hands no message to the same channel object twice, whatever
\* GetChannel and DeleteExistingChannel do to the map in the meantime.
THEOREM TopicHandsOnce == Spec => []HandedOnce
<1>1. TypeOK /\ CustodyInv /\ HandedInv => HandedOnce
  <2> SUFFICES ASSUME TypeOK, CustodyInv, HandedInv, NEW m \in Msgs
               PROVE  Distinct(handed[m]) /\ DOMAIN handed[m] = 1..Len(handed[m])
    BY DEF HandedOnce, Distinct
  <2>1. handed[m] \in Seq(Objects)
    BY DEF TypeOK, HistOK
  <2>2. CASE m \in pumpMsg
    <3>1. /\ Len(handed[m]) \in Nat /\ Len(left) \in Nat /\ Len(chans) \in Nat
      BY <2>1 DEF TypeOK, PumpOK
    <3>2. /\ Len(handed[m]) + Len(left) = Len(chans)
          /\ \A i \in 1..Len(handed[m]) : handed[m][i] = chans[i]
          /\ \A i, j \in 1..Len(chans) : chans[i] = chans[j] => i = j
      BY <2>2 DEF HandedInv, Distinct
    <3> QED
      BY <2>1, <3>1, <3>2, SMTT(20) DEF Distinct
  <2>3. CASE m \in done
    BY <2>1, <2>3 DEF HandedInv
  <2>4. CASE m \notin pumpMsg \cup done
    BY <2>1, <2>4 DEF HandedInv, Distinct
  <2> QED
    BY <2>2, <2>3, <2>4
<1> QED
  BY <1>1, HandedAlways, PTL

(***************************************************************************)
(* Which channels a message reaches.                                       *)
(***************************************************************************)

ReachInv == ExitInv /\ MadeInv /\ SeenInv

Loading == {"starting", "reload", "exited"}

\* ExitFlag is not cleared, and is set before the context is cancelled.
LEMMA ExitFrame ==
    ASSUME ExitInv, ExitFlag => ExitFlag', ctxDone' => ctxDone \/ ExitFlag,
           applyPC' \in {"selfWait", "exitCancel"} =>
               applyPC \in {"selfWait", "exitCancel"} \/ ExitFlag',
           \A c \in Callers : call'[c].pc = "closeCancel" =>
               call[c].pc = "closeCancel" \/ ExitFlag'
    PROVE  ExitInv'
BY DEF ExitInv

\* No channel comes or goes and no call reads one.
LEMMA MadeFrame ==
    ASSUME TypeOK, MadeInv, UNCHANGED <<Channels, made, known, due>>,
           \A c \in Callers :
               call'[c].chan = call[c].chan \/ call'[c].chan[2] = 0
    PROVE  MadeInv'
<1>1. ASSUME NEW c \in Callers, call'[c].chan[1] \in Names
      PROVE  call'[c].chan[2] <= made[call'[c].chan[1]]
  <2>1. CASE call'[c].chan = call[c].chan
    BY <1>1, <2>1 DEF MadeInv
  <2>2. CASE call'[c].chan[2] = 0
    BY <1>1, <2>2 DEF TypeOK, MapOK
  <2> QED
    BY <2>1, <2>2
<1> QED
  BY <1>1 DEF MadeInv

\* The pump's list and the map stay, and the pump does not stop reloading.
LEMMA SeenFrame ==
    ASSUME SeenInv, UNCHANGED <<Channels, known, due, chans, done, handed>>,
           ctxDone => ctxDone',
           pumpPC \in Loading => pumpPC' \in Loading
    PROVE  SeenInv'
<1>1. ASSUME NEW o, Seen(o) PROVE Seen(o)'
  BY <1>1 DEF Seen, In, Loading
<1>2. ReachesChannel'
  BY DEF SeenInv, ReachesChannel
<1> QED
  BY <1>1, <1>2 DEF SeenInv

\* A channel goes and its name may get a new object: nothing that was missing
\* becomes due.
LEMMA SeenFewer ==
    ASSUME TypeOK, SeenInv, MadeInv,
           UNCHANGED <<known, due, chans, pumpPC, ctxDone, done, handed>>,
           \A o \in known : Channels'[o[1]] = o[2] => Channels[o[1]] = o[2]
    PROVE  SeenInv'
<1>1. ASSUME NEW o \in known, Seen(o) PROVE Seen(o)'
  BY <1>1 DEF Seen, In
<1>2. \A m \in Msgs : due[m] \subseteq known
  BY DEF MadeInv
<1>3. ReachesChannel'
  <2> SUFFICES ASSUME NEW m \in done, NEW o \in due[m],
                      Channels'[o[1]] = o[2]
               PROVE  \E i \in DOMAIN handed[m] : handed[m][i] = o
    BY DEF ReachesChannel
  <2>1. m \in Msgs /\ o \in known
    BY <1>2 DEF TypeOK, HistOK
  <2> QED
    BY <2>1 DEF SeenInv, ReachesChannel
<1>4. (~ctxDone => \A o \in known : Seen(o))'
  BY <1>1 DEF SeenInv
<1>5. (\A m \in Msgs : \A o \in due[m] : Seen(o))'
  BY <1>1, <1>2 DEF SeenInv
<1> QED
  BY <1>3, <1>4, <1>5 DEF SeenInv

\* A list that PumpReload may take names every channel of the map.
LEMMA OrdersOnto ==
    ASSUME MapOK, NEW s \in Orders(Current)
    PROVE  \A o \in Current : In(o, s)
<1>1. IsFiniteSet(Current) /\ Cardinality(Current) \in Nat
  BY CurrentType, FS_CardinalityType
<1>2. s \in Injection(1..Cardinality(Current), Current)
  BY DEF Orders, Injection, IsInjective
<1>3. IsFiniteSet(1..Cardinality(Current))
  BY <1>1, FS_Interval
<1>4. Cardinality(1..Cardinality(Current)) = Cardinality(Current)
  BY <1>1, FS_Interval
<1>5. s \in Surjection(1..Cardinality(Current), Current)
  BY <1>1, <1>2, <1>3, <1>4, FS_Injection, FS_Surjection
<1>6. s \in Seq(Objects) /\ 1..Cardinality(Current) = 1..Len(s)
  BY <1>1, OrdersType DEF Orders
<1> QED
  BY <1>5, <1>6 DEF Surjection, In

\* The actions of publishers keep ReachInv.
LEMMA PutReach ==
    ASSUME TypeOK, CustodyInv, ExitInv, MadeInv, SeenInv,
           NEW c \in Callers,
           \/ \E op \in {"PutMessage", "PutMessages"}, ms \in SUBSET Msgs :
                 CallPut(c, op, ms)
           \/ \E m \in Msgs : Put(c, m)
           \/ PutFails(c)
           \/ PutUpdate(c)
           \/ PutUpdated(c)
           \/ PutReturns(c)
    PROVE  ExitInv' /\ MadeInv' /\ SeenInv'
<1>1. ASSUME NEW op \in {"PutMessage", "PutMessages"}, NEW ms \in SUBSET Msgs,
            CallPut(c, op, ms)
     PROVE  ExitInv' /\ MadeInv' /\ SeenInv'
  <2>1. /\ UNCHANGED <<Channels, made, known, exitVars, applyPC, chans, pumpPC,
                      done, handed>>
        /\ ~ExitFlag /\ ms \cap issued = {}
        /\ due' = [m \in Msgs |-> IF m \in ms THEN known ELSE due[m]]
    BY <1>1 DEF CallPut, mapVars, applyVars, pumpVars
  <2>2. \A d \in Callers : /\ call'[d].pc \in {"put", call[d].pc}
                           /\ call'[d].chan \in {NoChannel, call[d].chan}
    BY <1>1 DEF CallPut, TypeOK, CallOK, CallType, Call
  <2>3. ExitInv'
    BY <2>1, <2>2, ExitFrame DEF exitVars
  <2>4. MadeInv'
    <3>1. ASSUME NEW d \in Callers, call'[d].chan[1] \in Names
          PROVE  call'[d].chan[2] <= made[call'[d].chan[1]]
      BY <2>2, <3>1 DEF MadeInv, NoChannel, TypeOK, MapOK
    <3> QED
      BY <2>1, <3>1 DEF MadeInv
  <2>5. ~ctxDone /\ \A o \in known : Seen(o)
    BY <2>1 DEF ExitInv, SeenInv
  <2>6. ASSUME NEW o, Seen(o) PROVE Seen(o)'
    BY <2>1, <2>6 DEF Seen, In
  <2>7. \A m \in done : due'[m] = due[m]
    BY <2>1 DEF CustodyInv, Held, TypeOK, HistOK
  <2>8. ReachesChannel'
    BY <2>1, <2>7 DEF ReachesChannel, SeenInv
  <2> QED
    BY <2>1, <2>3, <2>4, <2>5, <2>6, <2>8 DEF SeenInv
<1>2. ASSUME NEW m \in Msgs, Put(c, m)
     PROVE  ExitInv' /\ MadeInv' /\ SeenInv'
  <2>1. /\ UNCHANGED <<Channels, made, known, due, chans, done, handed>>
        /\ pumpPC \in Loading => pumpPC' \in Loading
    BY <1>2 DEF Put, Loading, mapVars, pumpVars, histVars
  <2>2. /\ ExitFlag => ExitFlag'
        /\ ctxDone => ctxDone'
        /\ ctxDone' => ctxDone \/ ExitFlag
        /\ applyPC' \in {"selfWait", "exitCancel"} =>
              applyPC \in {"selfWait", "exitCancel"} \/ ExitFlag'
    BY <1>2 DEF Put, exitVars, applyVars
  <2>3. \A d \in Callers :
          /\ call'[d].pc = "closeCancel" =>
                call[d].pc = "closeCancel" \/ ExitFlag'
          /\ call'[d].chan = call[d].chan \/ call'[d].chan[2] = 0
    BY <1>2 DEF Put, TypeOK, CallOK, CallType, Call
  <2> QED
    BY <2>1, <2>2, <2>3, ExitFrame, MadeFrame, SeenFrame
<1>3. CASE PutFails(c)
  <2>1. /\ UNCHANGED <<Channels, made, known, due, chans, done, handed>>
        /\ pumpPC \in Loading => pumpPC' \in Loading
    BY <1>3 DEF PutFails, Loading, mapVars, pumpVars, histVars
  <2>2. /\ ExitFlag => ExitFlag'
        /\ ctxDone => ctxDone'
        /\ ctxDone' => ctxDone \/ ExitFlag
        /\ applyPC' \in {"selfWait", "exitCancel"} =>
              applyPC \in {"selfWait", "exitCancel"} \/ ExitFlag'
    BY <1>3 DEF PutFails, exitVars, applyVars
  <2>3. \A d \in Callers :
          /\ call'[d].pc = "closeCancel" =>
                call[d].pc = "closeCancel" \/ ExitFlag'
          /\ call'[d].chan = call[d].chan \/ call'[d].chan[2] = 0
    <3>1. CASE call[c].op = "PutMessage"
      BY <1>3, <3>1, ReturnShape DEF PutFails, TypeOK
    <3>2. CASE call[c].op # "PutMessage"
      BY <1>3, <3>2 DEF PutFails, TypeOK, CallOK, CallType
    <3> QED
      BY <3>1, <3>2
  <2> QED
    BY <2>1, <2>2, <2>3, ExitFrame, MadeFrame, SeenFrame
<1>4. CASE PutUpdate(c)
  <2>1. /\ UNCHANGED <<Channels, made, known, due, chans, done, handed>>
        /\ pumpPC \in Loading => pumpPC' \in Loading
    BY <1>4 DEF PutUpdate, Loading, mapVars, pumpVars, histVars
  <2>2. /\ ExitFlag => ExitFlag'
        /\ ctxDone => ctxDone'
        /\ ctxDone' => ctxDone \/ ExitFlag
        /\ applyPC' \in {"selfWait", "exitCancel"} =>
              applyPC \in {"selfWait", "exitCancel"} \/ ExitFlag'
    BY <1>4 DEF PutUpdate, exitVars, applyVars
  <2>3. \A d \in Callers :
          /\ call'[d].pc = "closeCancel" =>
                call[d].pc = "closeCancel" \/ ExitFlag'
          /\ call'[d].chan = call[d].chan \/ call'[d].chan[2] = 0
    BY <1>4, CountDownShape DEF PutUpdate, TypeOK
  <2> QED
    BY <2>1, <2>2, <2>3, ExitFrame, MadeFrame, SeenFrame
<1>5. CASE PutUpdated(c)
  <2>1. /\ UNCHANGED <<Channels, made, known, due, chans, done, handed>>
        /\ pumpPC \in Loading => pumpPC' \in Loading
    BY <1>5 DEF PutUpdated, Loading, mapVars, pumpVars, histVars
  <2>2. /\ ExitFlag => ExitFlag'
        /\ ctxDone => ctxDone'
        /\ ctxDone' => ctxDone \/ ExitFlag
        /\ applyPC' \in {"selfWait", "exitCancel"} =>
              applyPC \in {"selfWait", "exitCancel"} \/ ExitFlag'
    BY <1>5 DEF PutUpdated, exitVars, applyVars
  <2>3. \A d \in Callers :
          /\ call'[d].pc = "closeCancel" =>
                call[d].pc = "closeCancel" \/ ExitFlag'
          /\ call'[d].chan = call[d].chan \/ call'[d].chan[2] = 0
    BY <1>5, GotoShape DEF PutUpdated, TypeOK
  <2> QED
    BY <2>1, <2>2, <2>3, ExitFrame, MadeFrame, SeenFrame
<1>6. CASE PutReturns(c)
  <2>1. /\ UNCHANGED <<Channels, made, known, due, chans, done, handed>>
        /\ pumpPC \in Loading => pumpPC' \in Loading
    BY <1>6 DEF PutReturns, Loading, mapVars, pumpVars, histVars
  <2>2. /\ ExitFlag => ExitFlag'
        /\ ctxDone => ctxDone'
        /\ ctxDone' => ctxDone \/ ExitFlag
        /\ applyPC' \in {"selfWait", "exitCancel"} =>
              applyPC \in {"selfWait", "exitCancel"} \/ ExitFlag'
    BY <1>6 DEF PutReturns, exitVars, applyVars
  <2>3. \A d \in Callers :
          /\ call'[d].pc = "closeCancel" =>
                call[d].pc = "closeCancel" \/ ExitFlag'
          /\ call'[d].chan = call[d].chan \/ call'[d].chan[2] = 0
    BY <1>6, ReturnShape DEF PutReturns, TypeOK
  <2> QED
    BY <2>1, <2>2, <2>3, ExitFrame, MadeFrame, SeenFrame
<1> QED
  BY <1>1, <1>2, <1>3, <1>4, <1>5, <1>6

\* The actions of GetChannel and its like keep ReachInv.
LEMMA ChannelReach ==
    ASSUME TypeOK, ExitInv, MadeInv, SeenInv,
           NEW c \in Callers,
           \/ \E n \in workload.names : CallGetChannel(c, n)
           \/ GetApply(c)
           \/ GetAnswered(c)
           \/ GetCheck(c)
           \/ GetRead(c)
           \/ \E n \in workload.names : CallDeleteChannel(c, n)
           \/ DeleteAnswered(c)
           \/ DeleteUnlock(c)
           \/ NotifyChannel(c)
           \/ NotifyLast(c)
    PROVE  ExitInv' /\ MadeInv' /\ SeenInv'
<1>1. ASSUME NEW n \in workload.names, CallGetChannel(c, n)
     PROVE  ExitInv' /\ MadeInv' /\ SeenInv'
  <2>1. /\ UNCHANGED <<Channels, made, known, due, chans, done, handed>>
        /\ pumpPC \in Loading => pumpPC' \in Loading
    BY <1>1 DEF CallGetChannel, Loading, mapVars, pumpVars, histVars
  <2>2. /\ ExitFlag => ExitFlag'
        /\ ctxDone => ctxDone'
        /\ ctxDone' => ctxDone \/ ExitFlag
        /\ applyPC' \in {"selfWait", "exitCancel"} =>
              applyPC \in {"selfWait", "exitCancel"} \/ ExitFlag'
    BY <1>1 DEF CallGetChannel, exitVars, applyVars
  <2>3. \A d \in Callers :
          /\ call'[d].pc = "closeCancel" =>
                call[d].pc = "closeCancel" \/ ExitFlag'
          /\ call'[d].chan = call[d].chan \/ call'[d].chan[2] = 0
    BY <1>1 DEF CallGetChannel, TypeOK, CallOK, CallType, Call
  <2> QED
    BY <2>1, <2>2, <2>3, ExitFrame, MadeFrame, SeenFrame
<1>2. CASE GetApply(c)
  <2>1. /\ UNCHANGED <<Channels, made, known, due, chans, done, handed>>
        /\ UNCHANGED <<pumpPC, applyPC, ExitFlag, ctxDone>>
    BY <1>2 DEF GetApply, mapVars, exitVars, pumpVars, applyVars, histVars
  <2>2. \A d \in Callers : /\ call'[d].pc \in {"getWait", "notify", call[d].pc}
                           /\ call'[d].chan = call[d].chan
    BY <1>2, GotoShape DEF GetApply, TypeOK
  <2> QED
    BY <2>1, <2>2, ExitFrame, MadeFrame, SeenFrame
<1>3. CASE GetAnswered(c)
  <2>1. /\ UNCHANGED <<Channels, made, known, due, chans, done, handed>>
        /\ pumpPC \in Loading => pumpPC' \in Loading
    BY <1>3 DEF GetAnswered, Loading, mapVars, pumpVars, histVars
  <2>2. /\ ExitFlag => ExitFlag'
        /\ ctxDone => ctxDone'
        /\ ctxDone' => ctxDone \/ ExitFlag
        /\ applyPC' \in {"selfWait", "exitCancel"} =>
              applyPC \in {"selfWait", "exitCancel"} \/ ExitFlag'
    BY <1>3 DEF GetAnswered, exitVars, applyVars
  <2>3. \A d \in Callers :
          /\ call'[d].pc = "closeCancel" =>
                call[d].pc = "closeCancel" \/ ExitFlag'
          /\ call'[d].chan = call[d].chan \/ call'[d].chan[2] = 0
    BY <1>3, GotoShape DEF GetAnswered, TypeOK
  <2> QED
    BY <2>1, <2>2, <2>3, ExitFrame, MadeFrame, SeenFrame
<1>4. CASE GetCheck(c)
  <2>1. /\ UNCHANGED <<Channels, made, known, due, chans, done, handed>>
        /\ pumpPC \in Loading => pumpPC' \in Loading
    BY <1>4 DEF GetCheck, Loading, mapVars, pumpVars, histVars
  <2>2. /\ ExitFlag => ExitFlag'
        /\ ctxDone => ctxDone'
        /\ ctxDone' => ctxDone \/ ExitFlag
        /\ applyPC' \in {"selfWait", "exitCancel"} =>
              applyPC \in {"selfWait", "exitCancel"} \/ ExitFlag'
    BY <1>4 DEF GetCheck, exitVars, applyVars
  <2>3. \A d \in Callers :
          /\ call'[d].pc = "closeCancel" =>
                call[d].pc = "closeCancel" \/ ExitFlag'
          /\ call'[d].chan = call[d].chan \/ call'[d].chan[2] = 0
    BY <1>4, GotoShape DEF GetCheck, TypeOK
  <2> QED
    BY <2>1, <2>2, <2>3, ExitFrame, MadeFrame, SeenFrame
<1>5. CASE GetRead(c)
  <2>1. UNCHANGED <<Channels, made, known, due, exitVars, applyPC, chans,
                   pumpPC, done, handed>>
    BY <1>5 DEF GetRead, mapVars, applyVars, pumpVars, histVars
  <2>2. /\ call[c].pc = "getRead"
        /\ call' = [call EXCEPT ![c].chan = <<call[c].chan[1],
                                              Channels[call[c].chan[1]]>>,
                                ![c].pc = "notify"]
    BY <1>5 DEF GetRead
  <2>3. /\ \A d \in Callers : call'[d].pc \in {"notify", call[d].pc}
        /\ \A d \in Callers : d # c => call'[d] = call[d]
        /\ call'[c].chan = <<call[c].chan[1], Channels[call[c].chan[1]]>>
    BY <2>2 DEF TypeOK, CallOK, CallType
  <2>4. ExitInv'
    BY <2>1, <2>3, ExitFrame DEF exitVars
  <2>5. MadeInv'
    <3>1. ASSUME NEW d \in Callers, call'[d].chan[1] \in Names
          PROVE  call'[d].chan[2] <= made[call'[d].chan[1]]
      BY <2>3, <3>1 DEF MadeInv
    <3> QED
      BY <2>1, <3>1 DEF MadeInv
  <2>6. SeenInv'
    BY <2>1, SeenFrame DEF exitVars
  <2> QED
    BY <2>4, <2>5, <2>6
<1>6. ASSUME NEW n \in workload.names, CallDeleteChannel(c, n)
     PROVE  ExitInv' /\ MadeInv' /\ SeenInv'
  <2>1. /\ UNCHANGED <<Channels, made, known, due, chans, done, handed>>
        /\ pumpPC \in Loading => pumpPC' \in Loading
    BY <1>6 DEF CallDeleteChannel, Loading, mapVars, pumpVars, histVars
  <2>2. /\ ExitFlag => ExitFlag'
        /\ ctxDone => ctxDone'
        /\ ctxDone' => ctxDone \/ ExitFlag
        /\ applyPC' \in {"selfWait", "exitCancel"} =>
              applyPC \in {"selfWait", "exitCancel"} \/ ExitFlag'
    BY <1>6 DEF CallDeleteChannel, exitVars, applyVars
  <2>3. \A d \in Callers :
          /\ call'[d].pc = "closeCancel" =>
                call[d].pc = "closeCancel" \/ ExitFlag'
          /\ call'[d].chan = call[d].chan \/ call'[d].chan[2] = 0
    BY <1>6 DEF CallDeleteChannel, TypeOK, CallOK, CallType, Call
  <2> QED
    BY <2>1, <2>2, <2>3, ExitFrame, MadeFrame, SeenFrame
<1>7. CASE DeleteAnswered(c)
  <2>1. /\ UNCHANGED <<Channels, made, known, due, chans, done, handed>>
        /\ pumpPC \in Loading => pumpPC' \in Loading
    BY <1>7 DEF DeleteAnswered, Loading, mapVars, pumpVars, histVars
  <2>2. /\ ExitFlag => ExitFlag'
        /\ ctxDone => ctxDone'
        /\ ctxDone' => ctxDone \/ ExitFlag
        /\ applyPC' \in {"selfWait", "exitCancel"} =>
              applyPC \in {"selfWait", "exitCancel"} \/ ExitFlag'
    BY <1>7 DEF DeleteAnswered, exitVars, applyVars
  <2>3. \A d \in Callers :
          /\ call'[d].pc = "closeCancel" =>
                call[d].pc = "closeCancel" \/ ExitFlag'
          /\ call'[d].chan = call[d].chan \/ call'[d].chan[2] = 0
    BY <1>7, GotoShape, ReturnShape DEF DeleteAnswered, TypeOK
  <2> QED
    BY <2>1, <2>2, <2>3, ExitFrame, MadeFrame, SeenFrame
<1>8. CASE DeleteUnlock(c)
  <2>1. /\ UNCHANGED <<Channels, made, known, due, chans, done, handed>>
        /\ pumpPC \in Loading => pumpPC' \in Loading
    BY <1>8 DEF DeleteUnlock, Loading, mapVars, pumpVars, histVars
  <2>2. /\ ExitFlag => ExitFlag'
        /\ ctxDone => ctxDone'
        /\ ctxDone' => ctxDone \/ ExitFlag
        /\ applyPC' \in {"selfWait", "exitCancel"} =>
              applyPC \in {"selfWait", "exitCancel"} \/ ExitFlag'
    BY <1>8 DEF DeleteUnlock, exitVars, applyVars
  <2>3. \A d \in Callers :
          /\ call'[d].pc = "closeCancel" =>
                call[d].pc = "closeCancel" \/ ExitFlag'
          /\ call'[d].chan = call[d].chan \/ call'[d].chan[2] = 0
    BY <1>8, GotoShape DEF DeleteUnlock, TypeOK
  <2> QED
    BY <2>1, <2>2, <2>3, ExitFrame, MadeFrame, SeenFrame
<1>9. CASE NotifyChannel(c)
  <2>1. /\ UNCHANGED <<Channels, made, due, exitVars, applyPC, chans, done,
                      handed>>
        /\ call[c].pc = "notify" /\ Return(c)
    BY <1>9 DEF NotifyChannel, Notified, PumpReceives, TopicExited, mapVars,
       applyVars, pumpVars
  <2>2. known' \subseteq known \cup {call[c].chan}
    BY <1>9 DEF NotifyChannel
  <2>3. /\ pumpPC \in Loading => pumpPC' \in Loading
        /\ pumpPC' \in Loading \/ ctxDone
    BY <1>9 DEF NotifyChannel, Notified, PumpReceives, TopicExited, pumpVars,
       Loading
  <2>4. ExitInv'
    BY <2>1, ReturnShape, ExitFrame DEF exitVars, TypeOK
  <2>5. MadeInv'
    <3>1. ASSUME NEW d \in Callers, call'[d].chan[1] \in Names
          PROVE  call'[d].chan[2] <= made[call'[d].chan[1]]
      <4>1. CASE call'[d].chan = call[d].chan
        BY <3>1, <4>1 DEF MadeInv
      <4>2. CASE call'[d].chan[2] = 0
        BY <3>1, <4>2 DEF TypeOK, MapOK
      <4> QED
        BY <2>1, <4>1, <4>2, ReturnShape DEF TypeOK
    <3>2. call[c].chan[2] <= made[call[c].chan[1]]
      BY <2>1 DEF TypeOK, CallOK, NamedLabels, MadeInv
    <3>3. known \subseteq known'
      BY <1>9 DEF NotifyChannel
    <3> QED
      BY <2>1, <2>2, <3>1, <3>2, <3>3 DEF MadeInv
  <2>6. ASSUME NEW o, Seen(o) PROVE Seen(o)'
    BY <2>1, <2>3, <2>6 DEF Seen, In, Loading
  <2>7. ASSUME pumpPC' \in Loading, NEW o PROVE Seen(o)'
    BY <2>7 DEF Seen, Loading
  <2>8. ReachesChannel'
    BY <2>1 DEF ReachesChannel, SeenInv
  <2>9. (~ctxDone => \A o \in known : Seen(o))'
    BY <2>1, <2>3, <2>7 DEF exitVars
  <2> QED
    BY <2>1, <2>4, <2>5, <2>6, <2>8, <2>9 DEF SeenInv
<1>10. CASE NotifyLast(c)
  <2>1. /\ UNCHANGED <<Channels, made, known, due, chans, done, handed>>
        /\ pumpPC \in Loading => pumpPC' \in Loading
    BY <1>10 DEF NotifyLast, Notified, PumpReceives, TopicExited, Loading,
       mapVars, pumpVars, histVars
  <2>2. /\ ExitFlag => ExitFlag'
        /\ ctxDone => ctxDone'
        /\ ctxDone' => ctxDone \/ ExitFlag
        /\ applyPC' \in {"selfWait", "exitCancel"} =>
              applyPC \in {"selfWait", "exitCancel"} \/ ExitFlag'
    BY <1>10 DEF NotifyLast, Notified, PumpReceives, TopicExited, exitVars,
       applyVars
  <2>3. \A d \in Callers :
          /\ call'[d].pc = "closeCancel" =>
                call[d].pc = "closeCancel" \/ ExitFlag'
          /\ call'[d].chan = call[d].chan \/ call'[d].chan[2] = 0
    BY <1>10, ReturnShape DEF NotifyLast, TypeOK
  <2> QED
    BY <2>1, <2>2, <2>3, ExitFrame, MadeFrame, SeenFrame
<1> QED
  BY <1>1, <1>2, <1>3, <1>4, <1>5, <1>6, <1>7, <1>8, <1>9, <1>10

\* The actions of Pause, Empty and DeleteTopic keep ReachInv.
LEMMA AdminReach ==
    ASSUME TypeOK, ExitInv, MadeInv, SeenInv,
           NEW c \in Callers,
           \/ \E op \in {"Pause", "UnPause"} : CallPause(c, op)
           \/ PauseUpdate(c)
           \/ PauseUpdated(c)
           \/ PauseNotify(c)
           \/ CallEmpty(c)
           \/ EmptyMemory(c)
           \/ EmptyBackend(c)
           \/ CallDeleteTopic(c)
           \/ DeleteTopicAnswered(c)
    PROVE  ExitInv' /\ MadeInv' /\ SeenInv'
<1>1. ASSUME NEW op \in {"Pause", "UnPause"}, CallPause(c, op)
     PROVE  ExitInv' /\ MadeInv' /\ SeenInv'
  <2>1. /\ UNCHANGED <<Channels, made, known, due, chans, done, handed>>
        /\ pumpPC \in Loading => pumpPC' \in Loading
    BY <1>1 DEF CallPause, Loading, mapVars, pumpVars, histVars
  <2>2. /\ ExitFlag => ExitFlag'
        /\ ctxDone => ctxDone'
        /\ ctxDone' => ctxDone \/ ExitFlag
        /\ applyPC' \in {"selfWait", "exitCancel"} =>
              applyPC \in {"selfWait", "exitCancel"} \/ ExitFlag'
    BY <1>1 DEF CallPause, exitVars, applyVars
  <2>3. \A d \in Callers :
          /\ call'[d].pc = "closeCancel" =>
                call[d].pc = "closeCancel" \/ ExitFlag'
          /\ call'[d].chan = call[d].chan \/ call'[d].chan[2] = 0
    BY <1>1 DEF CallPause, TypeOK, CallOK, CallType, Call, NoChannel
  <2> QED
    BY <2>1, <2>2, <2>3, ExitFrame, MadeFrame, SeenFrame
<1>2. CASE PauseUpdate(c)
  <2>1. /\ UNCHANGED <<Channels, made, known, due, chans, done, handed>>
        /\ pumpPC \in Loading => pumpPC' \in Loading
    BY <1>2 DEF PauseUpdate, Loading, mapVars, pumpVars, histVars
  <2>2. /\ ExitFlag => ExitFlag'
        /\ ctxDone => ctxDone'
        /\ ctxDone' => ctxDone \/ ExitFlag
        /\ applyPC' \in {"selfWait", "exitCancel"} =>
              applyPC \in {"selfWait", "exitCancel"} \/ ExitFlag'
    BY <1>2 DEF PauseUpdate, exitVars, applyVars
  <2>3. \A d \in Callers :
          /\ call'[d].pc = "closeCancel" =>
                call[d].pc = "closeCancel" \/ ExitFlag'
          /\ call'[d].chan = call[d].chan \/ call'[d].chan[2] = 0
    BY <1>2, GotoShape DEF PauseUpdate, TypeOK
  <2> QED
    BY <2>1, <2>2, <2>3, ExitFrame, MadeFrame, SeenFrame
<1>3. CASE PauseUpdated(c)
  <2>1. /\ UNCHANGED <<Channels, made, known, due, chans, done, handed>>
        /\ pumpPC \in Loading => pumpPC' \in Loading
    BY <1>3 DEF PauseUpdated, Loading, mapVars, pumpVars, histVars
  <2>2. /\ ExitFlag => ExitFlag'
        /\ ctxDone => ctxDone'
        /\ ctxDone' => ctxDone \/ ExitFlag
        /\ applyPC' \in {"selfWait", "exitCancel"} =>
              applyPC \in {"selfWait", "exitCancel"} \/ ExitFlag'
    BY <1>3 DEF PauseUpdated, exitVars, applyVars
  <2>3. \A d \in Callers :
          /\ call'[d].pc = "closeCancel" =>
                call[d].pc = "closeCancel" \/ ExitFlag'
          /\ call'[d].chan = call[d].chan \/ call'[d].chan[2] = 0
    BY <1>3, GotoShape DEF PauseUpdated, TypeOK
  <2> QED
    BY <2>1, <2>2, <2>3, ExitFrame, MadeFrame, SeenFrame
<1>4. CASE PauseNotify(c)
  <2>1. /\ UNCHANGED <<Channels, made, known, due, chans, done, handed>>
        /\ pumpPC \in Loading => pumpPC' \in Loading
    BY <1>4 DEF PauseNotify, PauseNotified, PumpReceives, TopicExited,
       Loading, mapVars, pumpVars, histVars
  <2>2. /\ ExitFlag => ExitFlag'
        /\ ctxDone => ctxDone'
        /\ ctxDone' => ctxDone \/ ExitFlag
        /\ applyPC' \in {"selfWait", "exitCancel"} =>
              applyPC \in {"selfWait", "exitCancel"} \/ ExitFlag'
    BY <1>4 DEF PauseNotify, PauseNotified, PumpReceives, TopicExited,
       exitVars, applyVars
  <2>3. \A d \in Callers :
          /\ call'[d].pc = "closeCancel" =>
                call[d].pc = "closeCancel" \/ ExitFlag'
          /\ call'[d].chan = call[d].chan \/ call'[d].chan[2] = 0
    BY <1>4, ReturnShape DEF PauseNotify, TypeOK
  <2> QED
    BY <2>1, <2>2, <2>3, ExitFrame, MadeFrame, SeenFrame
<1>5. CASE CallEmpty(c)
  <2>1. /\ UNCHANGED <<Channels, made, known, due, chans, done, handed>>
        /\ pumpPC \in Loading => pumpPC' \in Loading
    BY <1>5 DEF CallEmpty, Loading, mapVars, pumpVars, histVars
  <2>2. /\ ExitFlag => ExitFlag'
        /\ ctxDone => ctxDone'
        /\ ctxDone' => ctxDone \/ ExitFlag
        /\ applyPC' \in {"selfWait", "exitCancel"} =>
              applyPC \in {"selfWait", "exitCancel"} \/ ExitFlag'
    BY <1>5 DEF CallEmpty, exitVars, applyVars
  <2>3. \A d \in Callers :
          /\ call'[d].pc = "closeCancel" =>
                call[d].pc = "closeCancel" \/ ExitFlag'
          /\ call'[d].chan = call[d].chan \/ call'[d].chan[2] = 0
    BY <1>5 DEF CallEmpty, TypeOK, CallOK, CallType, Call, NoChannel
  <2> QED
    BY <2>1, <2>2, <2>3, ExitFrame, MadeFrame, SeenFrame
<1>6. CASE EmptyMemory(c)
  <2>1. /\ UNCHANGED <<Channels, made, known, due, chans, done, handed>>
        /\ pumpPC \in Loading => pumpPC' \in Loading
    BY <1>6 DEF EmptyMemory, Loading, mapVars, pumpVars, histVars
  <2>2. /\ ExitFlag => ExitFlag'
        /\ ctxDone => ctxDone'
        /\ ctxDone' => ctxDone \/ ExitFlag
        /\ applyPC' \in {"selfWait", "exitCancel"} =>
              applyPC \in {"selfWait", "exitCancel"} \/ ExitFlag'
    BY <1>6 DEF EmptyMemory, exitVars, applyVars
  <2> QED
    BY <1>6, <2>1, <2>2, ExitFrame, MadeFrame, SeenFrame DEF EmptyMemory
<1>7. CASE EmptyBackend(c)
  <2>1. /\ UNCHANGED <<Channels, made, known, due, chans, done, handed>>
        /\ pumpPC \in Loading => pumpPC' \in Loading
    BY <1>7 DEF EmptyBackend, Loading, mapVars, pumpVars, histVars
  <2>2. /\ ExitFlag => ExitFlag'
        /\ ctxDone => ctxDone'
        /\ ctxDone' => ctxDone \/ ExitFlag
        /\ applyPC' \in {"selfWait", "exitCancel"} =>
              applyPC \in {"selfWait", "exitCancel"} \/ ExitFlag'
    BY <1>7 DEF EmptyBackend, exitVars, applyVars
  <2>3. \A d \in Callers :
          /\ call'[d].pc = "closeCancel" =>
                call[d].pc = "closeCancel" \/ ExitFlag'
          /\ call'[d].chan = call[d].chan \/ call'[d].chan[2] = 0
    BY <1>7, ReturnShape DEF EmptyBackend, TypeOK
  <2> QED
    BY <2>1, <2>2, <2>3, ExitFrame, MadeFrame, SeenFrame
<1>8. CASE CallDeleteTopic(c)
  <2>1. /\ UNCHANGED <<Channels, made, known, due, chans, done, handed>>
        /\ pumpPC \in Loading => pumpPC' \in Loading
    BY <1>8 DEF CallDeleteTopic, Loading, mapVars, pumpVars, histVars
  <2>2. /\ ExitFlag => ExitFlag'
        /\ ctxDone => ctxDone'
        /\ ctxDone' => ctxDone \/ ExitFlag
        /\ applyPC' \in {"selfWait", "exitCancel"} =>
              applyPC \in {"selfWait", "exitCancel"} \/ ExitFlag'
    BY <1>8 DEF CallDeleteTopic, exitVars, applyVars
  <2>3. \A d \in Callers :
          /\ call'[d].pc = "closeCancel" =>
                call[d].pc = "closeCancel" \/ ExitFlag'
          /\ call'[d].chan = call[d].chan \/ call'[d].chan[2] = 0
    BY <1>8 DEF CallDeleteTopic, TypeOK, CallOK, CallType, Call, NoChannel
  <2> QED
    BY <2>1, <2>2, <2>3, ExitFrame, MadeFrame, SeenFrame
<1>9. CASE DeleteTopicAnswered(c)
  <2>1. /\ UNCHANGED <<Channels, made, known, due, chans, done, handed>>
        /\ pumpPC \in Loading => pumpPC' \in Loading
    BY <1>9 DEF DeleteTopicAnswered, Loading, mapVars, pumpVars, histVars
  <2>2. /\ ExitFlag => ExitFlag'
        /\ ctxDone => ctxDone'
        /\ ctxDone' => ctxDone \/ ExitFlag
        /\ applyPC' \in {"selfWait", "exitCancel"} =>
              applyPC \in {"selfWait", "exitCancel"} \/ ExitFlag'
    BY <1>9 DEF DeleteTopicAnswered, exitVars, applyVars
  <2>3. \A d \in Callers :
          /\ call'[d].pc = "closeCancel" =>
                call[d].pc = "closeCancel" \/ ExitFlag'
          /\ call'[d].chan = call[d].chan \/ call'[d].chan[2] = 0
    BY <1>9, ReturnShape DEF DeleteTopicAnswered, TypeOK
  <2> QED
    BY <2>1, <2>2, <2>3, ExitFrame, MadeFrame, SeenFrame
<1> QED
  BY <1>1, <1>2, <1>3, <1>4, <1>5, <1>6, <1>7, <1>8, <1>9

\* The actions of Close keep ReachInv.
LEMMA CloseReach ==
    ASSUME TypeOK, ExitInv, MadeInv, SeenInv,
           NEW c \in Callers,
           \/ CallClose(c)
           \/ CloseCancel(c)
           \/ CloseWait(c)
           \/ CloseChannels(c)
           \/ CloseFlush(c)
           \/ CloseBackend(c)
    PROVE  ExitInv' /\ MadeInv' /\ SeenInv'
<1>1. CASE CallClose(c)
  <2>1. /\ UNCHANGED <<Channels, made, known, due, chans, done, handed>>
        /\ pumpPC \in Loading => pumpPC' \in Loading
    BY <1>1 DEF CallClose, Loading, mapVars, pumpVars, histVars
  <2>2. /\ ExitFlag => ExitFlag'
        /\ ctxDone => ctxDone'
        /\ ctxDone' => ctxDone \/ ExitFlag
        /\ applyPC' \in {"selfWait", "exitCancel"} =>
              applyPC \in {"selfWait", "exitCancel"} \/ ExitFlag'
    BY <1>1 DEF CallClose, exitVars, applyVars
  <2>3. \A d \in Callers :
          /\ call'[d].pc = "closeCancel" =>
                call[d].pc = "closeCancel" \/ ExitFlag'
          /\ call'[d].chan = call[d].chan \/ call'[d].chan[2] = 0
    BY <1>1 DEF CallClose, TypeOK, CallOK, CallType, Call, NoChannel
  <2> QED
    BY <2>1, <2>2, <2>3, ExitFrame, MadeFrame, SeenFrame
<1>2. CASE CloseCancel(c)
  <2>1. /\ UNCHANGED <<Channels, made, known, due, chans, done, handed>>
        /\ pumpPC \in Loading => pumpPC' \in Loading
    BY <1>2 DEF CloseCancel, Loading, mapVars, pumpVars, histVars
  <2>2. /\ ExitFlag => ExitFlag'
        /\ ctxDone => ctxDone'
        /\ ctxDone' => ctxDone \/ ExitFlag
        /\ applyPC' \in {"selfWait", "exitCancel"} =>
              applyPC \in {"selfWait", "exitCancel"} \/ ExitFlag'
    BY <1>2 DEF CloseCancel, exitVars, applyVars, ExitInv
  <2>3. \A d \in Callers :
          /\ call'[d].pc = "closeCancel" =>
                call[d].pc = "closeCancel" \/ ExitFlag'
          /\ call'[d].chan = call[d].chan \/ call'[d].chan[2] = 0
    BY <1>2, GotoShape DEF CloseCancel, TypeOK
  <2> QED
    BY <2>1, <2>2, <2>3, ExitFrame, MadeFrame, SeenFrame
<1>3. CASE CloseWait(c)
  <2>1. /\ UNCHANGED <<Channels, made, known, due, chans, done, handed>>
        /\ pumpPC \in Loading => pumpPC' \in Loading
    BY <1>3 DEF CloseWait, Loading, mapVars, pumpVars, histVars
  <2>2. /\ ExitFlag => ExitFlag'
        /\ ctxDone => ctxDone'
        /\ ctxDone' => ctxDone \/ ExitFlag
        /\ applyPC' \in {"selfWait", "exitCancel"} =>
              applyPC \in {"selfWait", "exitCancel"} \/ ExitFlag'
    BY <1>3 DEF CloseWait, exitVars, applyVars
  <2>3. \A d \in Callers :
          /\ call'[d].pc = "closeCancel" =>
                call[d].pc = "closeCancel" \/ ExitFlag'
          /\ call'[d].chan = call[d].chan \/ call'[d].chan[2] = 0
    BY <1>3, GotoShape DEF CloseWait, TypeOK
  <2> QED
    BY <2>1, <2>2, <2>3, ExitFrame, MadeFrame, SeenFrame
<1>4. CASE CloseChannels(c)
  <2>1. /\ UNCHANGED <<Channels, made, known, due, chans, done, handed>>
        /\ pumpPC \in Loading => pumpPC' \in Loading
    BY <1>4 DEF CloseChannels, Loading, mapVars, pumpVars, histVars
  <2>2. /\ ExitFlag => ExitFlag'
        /\ ctxDone => ctxDone'
        /\ ctxDone' => ctxDone \/ ExitFlag
        /\ applyPC' \in {"selfWait", "exitCancel"} =>
              applyPC \in {"selfWait", "exitCancel"} \/ ExitFlag'
    BY <1>4 DEF CloseChannels, exitVars, applyVars
  <2>3. \A d \in Callers :
          /\ call'[d].pc = "closeCancel" =>
                call[d].pc = "closeCancel" \/ ExitFlag'
          /\ call'[d].chan = call[d].chan \/ call'[d].chan[2] = 0
    BY <1>4, GotoShape DEF CloseChannels, TypeOK
  <2> QED
    BY <2>1, <2>2, <2>3, ExitFrame, MadeFrame, SeenFrame
<1>5. CASE CloseFlush(c)
  <2>1. /\ UNCHANGED <<Channels, made, known, due, chans, done, handed>>
        /\ pumpPC \in Loading => pumpPC' \in Loading
    BY <1>5 DEF CloseFlush, Loading, mapVars, pumpVars, histVars
  <2>2. /\ ExitFlag => ExitFlag'
        /\ ctxDone => ctxDone'
        /\ ctxDone' => ctxDone \/ ExitFlag
        /\ applyPC' \in {"selfWait", "exitCancel"} =>
              applyPC \in {"selfWait", "exitCancel"} \/ ExitFlag'
    BY <1>5 DEF CloseFlush, exitVars, applyVars
  <2> QED
    BY <1>5, <2>1, <2>2, ExitFrame, MadeFrame, SeenFrame DEF CloseFlush
<1>6. CASE CloseBackend(c)
  <2>1. /\ UNCHANGED <<Channels, made, known, due, chans, done, handed>>
        /\ pumpPC \in Loading => pumpPC' \in Loading
    BY <1>6 DEF CloseBackend, Loading, mapVars, pumpVars, histVars
  <2>2. /\ ExitFlag => ExitFlag'
        /\ ctxDone => ctxDone'
        /\ ctxDone' => ctxDone \/ ExitFlag
        /\ applyPC' \in {"selfWait", "exitCancel"} =>
              applyPC \in {"selfWait", "exitCancel"} \/ ExitFlag'
    BY <1>6 DEF CloseBackend, exitVars, applyVars
  <2>3. \A d \in Callers :
          /\ call'[d].pc = "closeCancel" =>
                call[d].pc = "closeCancel" \/ ExitFlag'
          /\ call'[d].chan = call[d].chan \/ call'[d].chan[2] = 0
    BY <1>6, ReturnShape DEF CloseBackend, TypeOK
  <2> QED
    BY <2>1, <2>2, <2>3, ExitFrame, MadeFrame, SeenFrame
<1> QED
  BY <1>1, <1>2, <1>3, <1>4, <1>5, <1>6

\* The actions of messagePump keep ReachInv.
LEMMA PumpReach ==
    ASSUME TypeOK, CustodyInv, HandedInv, ExitInv, MadeInv,
           SeenInv,
           \/ PumpStart
           \/ PumpReload
           \/ PumpRepause
           \/ \E m \in Msgs : PumpReceive(m)
           \/ \E m \in Msgs : PumpDeliver(m)
           \/ PumpNext
           \/ PumpExit
    PROVE  ExitInv' /\ MadeInv' /\ SeenInv'
<1>1. CASE PumpStart
  <2>1. /\ UNCHANGED <<Channels, made, known, due, chans, done, handed>>
        /\ pumpPC \in Loading => pumpPC' \in Loading
    BY <1>1 DEF PumpStart, Loading, mapVars, pumpVars, histVars
  <2>2. /\ ExitFlag => ExitFlag'
        /\ ctxDone => ctxDone'
        /\ ctxDone' => ctxDone \/ ExitFlag
        /\ applyPC' \in {"selfWait", "exitCancel"} =>
              applyPC \in {"selfWait", "exitCancel"} \/ ExitFlag'
    BY <1>1 DEF PumpStart, exitVars, applyVars
  <2> QED
    BY <1>1, <2>1, <2>2, ExitFrame, MadeFrame, SeenFrame DEF PumpStart
<1>2. CASE PumpReload
  <2>1. /\ UNCHANGED <<Channels, made, known, due, exitVars, applyPC, call, done,
                      handed>>
        /\ chans' \in Orders(Current)
    BY <1>2 DEF PumpReload, ReloadedChans, mapVars, applyVars, histVars
  <2>2. ExitInv' /\ MadeInv'
    BY <2>1, ExitFrame, MadeFrame DEF exitVars
  <2>3. \A o \in Current : In(o, chans')
    BY <2>1, OrdersOnto DEF TypeOK
  <2>4. ASSUME NEW o \in Objects PROVE Seen(o)'
    <3>1. Channels[o[1]] = o[2] => o \in Current
      BY DEF Current, Objects
    <3> QED
      BY <2>1, <2>3, <3>1 DEF Seen
  <2>5. ReachesChannel'
    BY <2>1 DEF ReachesChannel, SeenInv
  <2>6. known \subseteq Objects /\ \A m \in Msgs : due[m] \subseteq Objects
    BY DEF TypeOK, HistOK
  <2> QED
    BY <2>1, <2>2, <2>4, <2>5, <2>6 DEF SeenInv
<1>3. CASE PumpRepause
  <2>1. /\ UNCHANGED <<Channels, made, known, due, chans, done, handed>>
        /\ pumpPC \in Loading => pumpPC' \in Loading
    BY <1>3 DEF PumpRepause, Loading, mapVars, pumpVars, histVars
  <2>2. /\ ExitFlag => ExitFlag'
        /\ ctxDone => ctxDone'
        /\ ctxDone' => ctxDone \/ ExitFlag
        /\ applyPC' \in {"selfWait", "exitCancel"} =>
              applyPC \in {"selfWait", "exitCancel"} \/ ExitFlag'
    BY <1>3 DEF PumpRepause, exitVars, applyVars
  <2> QED
    BY <1>3, <2>1, <2>2, ExitFrame, MadeFrame, SeenFrame DEF PumpRepause
<1>4. ASSUME NEW m \in Msgs, PumpReceive(m)
     PROVE  ExitInv' /\ MadeInv' /\ SeenInv'
  <2>1. /\ UNCHANGED <<Channels, made, known, due, chans, done, handed>>
        /\ pumpPC \in Loading => pumpPC' \in Loading
    BY <1>4 DEF PumpReceive, Loading, mapVars, pumpVars, histVars
  <2>2. /\ ExitFlag => ExitFlag'
        /\ ctxDone => ctxDone'
        /\ ctxDone' => ctxDone \/ ExitFlag
        /\ applyPC' \in {"selfWait", "exitCancel"} =>
              applyPC \in {"selfWait", "exitCancel"} \/ ExitFlag'
    BY <1>4 DEF PumpReceive, exitVars, applyVars
  <2> QED
    BY <1>4, <2>1, <2>2, ExitFrame, MadeFrame, SeenFrame DEF PumpReceive
<1>5. ASSUME NEW m \in Msgs, PumpDeliver(m)
     PROVE  ExitInv' /\ MadeInv' /\ SeenInv'
  <2>1. /\ UNCHANGED <<Channels, made, known, due, exitVars, applyPC, call,
                      chans, pumpPC, done>>
        /\ m \in pumpMsg
        /\ handed' = [handed EXCEPT ![m] = Append(@, Head(left))]
    BY <1>5 DEF PumpDeliver, mapVars, applyVars
  <2>2. ExitInv' /\ MadeInv'
    BY <2>1, ExitFrame, MadeFrame DEF exitVars
  <2>3. \A k \in done : handed'[k] = handed[k]
    BY <2>1 DEF CustodyInv, Custody, TypeOK, HistOK
  <2>4. ReachesChannel'
    BY <2>1, <2>3 DEF ReachesChannel, SeenInv
  <2>5. ASSUME NEW o, Seen(o) PROVE Seen(o)'
    BY <2>1, <2>5 DEF Seen, In
  <2> QED
    BY <2>1, <2>2, <2>4, <2>5 DEF SeenInv, exitVars
<1>6. CASE PumpNext
  <2>1. /\ UNCHANGED <<Channels, made, known, due, exitVars, applyPC, call,
                      chans, handed>>
        /\ pumpPC = "deliver" /\ left = <<>>
        /\ done' = done \cup pumpMsg
    BY <1>6 DEF PumpNext, mapVars, applyVars
  <2>2. ExitInv' /\ MadeInv'
    BY <2>1, ExitFrame, MadeFrame DEF exitVars
  <2>3. ASSUME NEW o, Seen(o) PROVE Seen(o)'
    BY <2>1, <2>3 DEF Seen, In
  <2>4. ASSUME NEW m \in pumpMsg, NEW o \in due[m], Channels[o[1]] = o[2]
        PROVE  \E i \in DOMAIN handed[m] : handed[m][i] = o
    <3>1. m \in Msgs /\ handed[m] \in Seq(Objects) /\ Len(left) = 0
      BY <2>1 DEF TypeOK, PumpOK, HistOK
    <3>2. In(o, chans)
      BY <2>1, <2>4, <3>1 DEF SeenInv, Seen
    <3>3. PICK i \in 1..Len(chans) : chans[i] = o
      BY <3>2 DEF In
    <3>4. /\ Len(handed[m]) + Len(left) = Len(chans)
          /\ \A j \in 1..Len(handed[m]) : handed[m][j] = chans[j]
      BY DEF HandedInv
    <3>5. Len(handed[m]) \in Nat /\ DOMAIN handed[m] = 1..Len(handed[m])
      BY <3>1
    <3>6. Len(handed[m]) = Len(chans)
      BY <3>1, <3>4, <3>5
    <3> QED
      BY <3>3, <3>4, <3>5, <3>6
  <2>5. ReachesChannel'
    BY <2>1, <2>4 DEF ReachesChannel, SeenInv
  <2> QED
    BY <2>1, <2>2, <2>3, <2>5 DEF SeenInv, exitVars
<1>7. CASE PumpExit
  <2>1. /\ UNCHANGED <<Channels, made, known, due, chans, done, handed>>
        /\ pumpPC \in Loading => pumpPC' \in Loading
    BY <1>7 DEF PumpExit, Loading, mapVars, pumpVars, histVars
  <2>2. /\ ExitFlag => ExitFlag'
        /\ ctxDone => ctxDone'
        /\ ctxDone' => ctxDone \/ ExitFlag
        /\ applyPC' \in {"selfWait", "exitCancel"} =>
              applyPC \in {"selfWait", "exitCancel"} \/ ExitFlag'
    BY <1>7 DEF PumpExit, exitVars, applyVars
  <2> QED
    BY <1>7, <2>1, <2>2, ExitFrame, MadeFrame, SeenFrame DEF PumpExit
<1> QED
  BY <1>1, <1>2, <1>3, <1>4, <1>5, <1>6, <1>7

\* The actions of XMQCluster.Apply keep ReachInv.
LEMMA ApplyReach ==
    ASSUME TypeOK, ExitInv, MadeInv, SeenInv,
           \/ ApplyStart
           \/ ApplyTopicUpdate
           \/ ApplyRefused
           \/ ApplyLock
           \/ ApplyAcquire
           \/ ApplyNewChannel
           \/ ApplyDeleteChannel
           \/ ApplyDeleteTopic
           \/ ApplySelfAnswered
           \/ ApplyExitCancel
           \/ ApplyExitLock
           \/ ApplyExitChannels
           \/ ApplyExitMemory
           \/ ApplyExitBackend
    PROVE  ExitInv' /\ MadeInv' /\ SeenInv'
<1>1. CASE ApplyStart
  <2>1. /\ UNCHANGED <<Channels, made, known, due, chans, done, handed>>
        /\ pumpPC \in Loading => pumpPC' \in Loading
    BY <1>1 DEF ApplyStart, Loading, mapVars, pumpVars, histVars
  <2>2. /\ ExitFlag => ExitFlag'
        /\ ctxDone => ctxDone'
        /\ ctxDone' => ctxDone \/ ExitFlag
        /\ applyPC' \in {"selfWait", "exitCancel"} =>
              applyPC \in {"selfWait", "exitCancel"} \/ ExitFlag'
    BY <1>1 DEF ApplyStart, exitVars, applyVars
  <2> QED
    BY <1>1, <2>1, <2>2, ExitFrame, MadeFrame, SeenFrame DEF ApplyStart
<1>2. CASE ApplyTopicUpdate
  <2>1. /\ UNCHANGED <<Channels, made, known, due, chans, done, handed>>
        /\ pumpPC \in Loading => pumpPC' \in Loading
    BY <1>2 DEF ApplyTopicUpdate, Loading, mapVars, pumpVars, histVars
  <2>2. /\ ExitFlag => ExitFlag'
        /\ ctxDone => ctxDone'
        /\ ctxDone' => ctxDone \/ ExitFlag
        /\ applyPC' \in {"selfWait", "exitCancel"} =>
              applyPC \in {"selfWait", "exitCancel"} \/ ExitFlag'
    BY <1>2, HeadType, EntryFields DEF ApplyTopicUpdate, exitVars, applyVars,
       NextCommand, TypeOK
  <2> QED
    BY <1>2, <2>1, <2>2, ExitFrame, MadeFrame, SeenFrame DEF ApplyTopicUpdate
<1>3. CASE ApplyRefused
  <2>1. /\ UNCHANGED <<Channels, made, known, due, chans, done, handed>>
        /\ pumpPC \in Loading => pumpPC' \in Loading
    BY <1>3 DEF ApplyRefused, Loading, mapVars, pumpVars, histVars
  <2>2. /\ ExitFlag => ExitFlag'
        /\ ctxDone => ctxDone'
        /\ ctxDone' => ctxDone \/ ExitFlag
        /\ applyPC' \in {"selfWait", "exitCancel"} =>
              applyPC \in {"selfWait", "exitCancel"} \/ ExitFlag'
    BY <1>3 DEF ApplyRefused, exitVars, applyVars
  <2> QED
    BY <1>3, <2>1, <2>2, ExitFrame, MadeFrame, SeenFrame DEF ApplyRefused
<1>4. CASE ApplyLock
  <2>1. /\ UNCHANGED <<Channels, made, known, due, chans, done, handed>>
        /\ pumpPC \in Loading => pumpPC' \in Loading
    BY <1>4 DEF ApplyLock, Loading, mapVars, pumpVars, histVars
  <2>2. /\ ExitFlag => ExitFlag'
        /\ ctxDone => ctxDone'
        /\ ctxDone' => ctxDone \/ ExitFlag
        /\ applyPC' \in {"selfWait", "exitCancel"} =>
              applyPC \in {"selfWait", "exitCancel"} \/ ExitFlag'
    BY <1>4 DEF ApplyLock, exitVars, applyVars, NextCommand
  <2> QED
    BY <1>4, <2>1, <2>2, ExitFrame, MadeFrame, SeenFrame DEF ApplyLock
<1>5. CASE ApplyAcquire
  <2>1. /\ UNCHANGED <<Channels, made, known, due, chans, done, handed>>
        /\ pumpPC \in Loading => pumpPC' \in Loading
    BY <1>5 DEF ApplyAcquire, Loading, mapVars, pumpVars, histVars
  <2>2. /\ ExitFlag => ExitFlag'
        /\ ctxDone => ctxDone'
        /\ ctxDone' => ctxDone \/ ExitFlag
        /\ applyPC' \in {"selfWait", "exitCancel"} =>
              applyPC \in {"selfWait", "exitCancel"} \/ ExitFlag'
    BY <1>5 DEF ApplyAcquire, exitVars, applyVars
  <2> QED
    BY <1>5, <2>1, <2>2, ExitFrame, MadeFrame, SeenFrame DEF ApplyAcquire
<1>6. CASE ApplyNewChannel
  <2>1. /\ UNCHANGED <<known, due, exitVars, call, chans, pumpPC, done, handed>>
        /\ applyPC' = "idle"
        /\ command.cmd = "NewChannel"
        /\ made' = [made EXCEPT ![command.name] = @ + 1]
        /\ Channels' = [Channels EXCEPT ![command.name] = made'[command.name]]
    BY <1>6 DEF ApplyNewChannel, Finished, pumpVars, histVars
  <2>2. /\ command.name \in Names /\ MapOK
        /\ known \subseteq Objects
    BY <2>1, CommandType DEF TypeOK, HistOK
  <2>3. /\ made'[command.name] = made[command.name] + 1
        /\ Channels'[command.name] = made[command.name] + 1
        /\ \A n \in Names : n # command.name =>
              made'[n] = made[n] /\ Channels'[n] = Channels[n]
    BY <2>1, <2>2 DEF MapOK
  <2>4. \A n \in Names : /\ made[n] \in Nat /\ made'[n] \in Nat
                         /\ made[n] <= made'[n]
    BY <2>2, <2>3 DEF MapOK
  <2>5. ExitInv'
    BY <2>1, ExitFrame DEF exitVars
  <2>6. MadeInv'
    <3>1. \A n \in Names : Channels'[n] <= made'[n]
      BY <2>2, <2>3 DEF MadeInv, MapOK
    <3>2. ASSUME NEW d \in Callers, call[d].chan[1] \in Names
          PROVE  call[d].chan[2] <= made'[call[d].chan[1]]
      <4>1. call[d].chan[2] \in Nat
        BY DEF TypeOK, CallOK, CallType
      <4>2. call[d].chan[2] <= made[call[d].chan[1]]
        BY <3>2 DEF MadeInv
      <4> QED
        BY <2>4, <3>2, <4>1, <4>2
    <3>3. ASSUME NEW o \in known PROVE o[2] <= made'[o[1]]
      <4>1. o[1] \in Names /\ o[2] \in Nat
        BY <2>2 DEF Objects
      <4>2. o[2] <= made[o[1]]
        BY DEF MadeInv
      <4> QED
        BY <2>4, <4>1, <4>2
    <3> QED
      BY <2>1, <3>1, <3>2, <3>3 DEF MadeInv
  <2>7. ASSUME NEW o \in known, Channels'[o[1]] = o[2]
        PROVE  Channels[o[1]] = o[2]
    <3>1. o[1] \in Names /\ o[2] \in Nat /\ o[2] <= made[o[1]]
      BY <2>2 DEF Objects, MadeInv
    <3> QED
      BY <2>3, <2>4, <2>7, <3>1
  <2>8. SeenInv'
    BY <2>1, <2>7, SeenFewer DEF exitVars
  <2> QED
    BY <2>5, <2>6, <2>8
<1>7. CASE ApplyDeleteChannel
  <2>1. /\ UNCHANGED <<made, known, due, exitVars, call, chans, pumpPC, done,
                      handed>>
        /\ applyPC' = "idle"
        /\ Channels' = [Channels EXCEPT ![command.name] = 0]
    BY <1>7 DEF ApplyDeleteChannel, Finished, pumpVars, histVars
  <2>2. \A n \in Names : Channels'[n] \in {0, Channels[n]}
    BY <2>1 DEF TypeOK, MapOK
  <2>3. ExitInv'
    BY <2>1, ExitFrame DEF exitVars
  <2>4. \A n \in Names : Channels'[n] <= made[n]
    BY <2>2 DEF MadeInv, TypeOK, MapOK
  <2>5. MadeInv'
    BY <2>1, <2>4 DEF MadeInv
  <2>6. \A o \in known : Channels'[o[1]] = o[2] => Channels[o[1]] = o[2]
    <3>1. \A o \in known : o[1] \in Names /\ o[2] \in Nat \ {0}
      BY DEF TypeOK, HistOK, Objects
    <3> QED
      BY <2>2, <3>1
  <2>7. SeenInv'
    BY <2>1, <2>6, SeenFewer DEF exitVars
  <2> QED
    BY <2>3, <2>5, <2>7
<1>8. CASE ApplyDeleteTopic
  <2>1. /\ UNCHANGED <<Channels, made, known, due, chans, done, handed>>
        /\ UNCHANGED <<pumpPC, ctxDone, call>>
    BY <1>8 DEF ApplyDeleteTopic, mapVars, pumpVars, histVars
  <2>2. ExitFlag'
    <3>1. CASE ExitFlag
      <4>1. ExitFlag' = ExitFlag
        BY <1>8, <3>1 DEF ApplyDeleteTopic
      <4> QED
        BY <3>1, <4>1
    <3>2. CASE ~ExitFlag
      BY <1>8, <3>2 DEF ApplyDeleteTopic
    <3> QED
      BY <3>1, <3>2
  <2> QED
    BY <2>1, <2>2, ExitFrame, MadeFrame, SeenFrame
<1>9. CASE ApplySelfAnswered
  <2>1. /\ UNCHANGED <<Channels, made, known, due, chans, done, handed>>
        /\ pumpPC \in Loading => pumpPC' \in Loading
    BY <1>9 DEF ApplySelfAnswered, Loading, mapVars, pumpVars, histVars
  <2>2. /\ ExitFlag => ExitFlag'
        /\ ctxDone => ctxDone'
        /\ ctxDone' => ctxDone \/ ExitFlag
        /\ applyPC' \in {"selfWait", "exitCancel"} =>
              applyPC \in {"selfWait", "exitCancel"} \/ ExitFlag'
    BY <1>9 DEF ApplySelfAnswered, exitVars, applyVars
  <2> QED
    BY <1>9, <2>1, <2>2, ExitFrame, MadeFrame, SeenFrame DEF ApplySelfAnswered
<1>10. CASE ApplyExitCancel
  <2>1. /\ UNCHANGED <<Channels, made, known, due, chans, done, handed>>
        /\ pumpPC \in Loading => pumpPC' \in Loading
    BY <1>10 DEF ApplyExitCancel, Loading, mapVars, pumpVars, histVars
  <2>2. /\ ExitFlag => ExitFlag'
        /\ ctxDone => ctxDone'
        /\ ctxDone' => ctxDone \/ ExitFlag
        /\ applyPC' \in {"selfWait", "exitCancel"} =>
              applyPC \in {"selfWait", "exitCancel"} \/ ExitFlag'
    BY <1>10 DEF ApplyExitCancel, exitVars, applyVars, ExitInv
  <2> QED
    BY <1>10, <2>1, <2>2, ExitFrame, MadeFrame, SeenFrame DEF ApplyExitCancel
<1>11. CASE ApplyExitLock
  <2>1. /\ UNCHANGED <<Channels, made, known, due, chans, done, handed>>
        /\ pumpPC \in Loading => pumpPC' \in Loading
    BY <1>11 DEF ApplyExitLock, Loading, mapVars, pumpVars, histVars
  <2>2. /\ ExitFlag => ExitFlag'
        /\ ctxDone => ctxDone'
        /\ ctxDone' => ctxDone \/ ExitFlag
        /\ applyPC' \in {"selfWait", "exitCancel"} =>
              applyPC \in {"selfWait", "exitCancel"} \/ ExitFlag'
    BY <1>11 DEF ApplyExitLock, exitVars, applyVars
  <2> QED
    BY <1>11, <2>1, <2>2, ExitFrame, MadeFrame, SeenFrame DEF ApplyExitLock
<1>12. CASE ApplyExitChannels
  <2>1. /\ UNCHANGED <<Channels, made, known, due, chans, done, handed>>
        /\ pumpPC \in Loading => pumpPC' \in Loading
    BY <1>12 DEF ApplyExitChannels, Loading, mapVars, pumpVars, histVars
  <2>2. /\ ExitFlag => ExitFlag'
        /\ ctxDone => ctxDone'
        /\ ctxDone' => ctxDone \/ ExitFlag
        /\ applyPC' \in {"selfWait", "exitCancel"} =>
              applyPC \in {"selfWait", "exitCancel"} \/ ExitFlag'
    BY <1>12 DEF ApplyExitChannels, exitVars, applyVars
  <2> QED
    BY <1>12, <2>1, <2>2, ExitFrame, MadeFrame, SeenFrame DEF
       ApplyExitChannels
<1>13. CASE ApplyExitMemory
  <2>1. /\ UNCHANGED <<Channels, made, known, due, chans, done, handed>>
        /\ pumpPC \in Loading => pumpPC' \in Loading
    BY <1>13 DEF ApplyExitMemory, Loading, mapVars, pumpVars, histVars
  <2>2. /\ ExitFlag => ExitFlag'
        /\ ctxDone => ctxDone'
        /\ ctxDone' => ctxDone \/ ExitFlag
        /\ applyPC' \in {"selfWait", "exitCancel"} =>
              applyPC \in {"selfWait", "exitCancel"} \/ ExitFlag'
    BY <1>13 DEF ApplyExitMemory, exitVars, applyVars
  <2> QED
    BY <1>13, <2>1, <2>2, ExitFrame, MadeFrame, SeenFrame DEF ApplyExitMemory
<1>14. CASE ApplyExitBackend
  <2>1. /\ UNCHANGED <<Channels, made, known, due, chans, done, handed>>
        /\ pumpPC \in Loading => pumpPC' \in Loading
    BY <1>14 DEF ApplyExitBackend, Loading, mapVars, pumpVars, histVars
  <2>2. /\ ExitFlag => ExitFlag'
        /\ ctxDone => ctxDone'
        /\ ctxDone' => ctxDone \/ ExitFlag
        /\ applyPC' \in {"selfWait", "exitCancel"} =>
              applyPC \in {"selfWait", "exitCancel"} \/ ExitFlag'
    BY <1>14 DEF ApplyExitBackend, exitVars, applyVars, Finished
  <2> QED
    BY <1>14, <2>1, <2>2, ExitFrame, MadeFrame, SeenFrame DEF ApplyExitBackend
<1> QED
  BY <1>1, <1>2, <1>3, <1>4, <1>5, <1>6, <1>7, <1>8, <1>9, <1>10, <1>11,
     <1>12, <1>13, <1>14

\* The actions of Raft keep ReachInv.
LEMMA RaftReach ==
    ASSUME TypeOK, ExitInv, MadeInv, SeenInv,
           \/ LoseLeadership
           \/ \E i \in DOMAIN log : Abandon(i)
    PROVE  ExitInv' /\ MadeInv' /\ SeenInv'
<1>1. CASE LoseLeadership
  <2>1. /\ UNCHANGED <<Channels, made, known, due, chans, done, handed>>
        /\ pumpPC \in Loading => pumpPC' \in Loading
    BY <1>1 DEF LoseLeadership, Loading, mapVars, pumpVars, histVars
  <2>2. /\ ExitFlag => ExitFlag'
        /\ ctxDone => ctxDone'
        /\ ctxDone' => ctxDone \/ ExitFlag
        /\ applyPC' \in {"selfWait", "exitCancel"} =>
              applyPC \in {"selfWait", "exitCancel"} \/ ExitFlag'
    BY <1>1 DEF LoseLeadership, exitVars, applyVars
  <2> QED
    BY <1>1, <2>1, <2>2, ExitFrame, MadeFrame, SeenFrame DEF LoseLeadership
<1>2. ASSUME NEW i \in DOMAIN log, Abandon(i)
     PROVE  ExitInv' /\ MadeInv' /\ SeenInv'
  <2>1. /\ UNCHANGED <<Channels, made, known, due, chans, done, handed>>
        /\ pumpPC \in Loading => pumpPC' \in Loading
    BY <1>2 DEF Abandon, Loading, mapVars, pumpVars, histVars
  <2>2. /\ ExitFlag => ExitFlag'
        /\ ctxDone => ctxDone'
        /\ ctxDone' => ctxDone \/ ExitFlag
        /\ applyPC' \in {"selfWait", "exitCancel"} =>
              applyPC \in {"selfWait", "exitCancel"} \/ ExitFlag'
    BY <1>2 DEF Abandon, exitVars, applyVars
  <2> QED
    BY <1>2, <2>1, <2>2, ExitFrame, MadeFrame, SeenFrame DEF Abandon
<1> QED
  BY <1>1, <1>2

\* No channel is known at first.
LEMMA ReachInit == Init => ReachInv
<1> SUFFICES ASSUME Init PROVE ReachInv
  OBVIOUS
<1>1. ExitInv
  BY DEF Init, ExitInv, Idle, Call
<1>2. MadeInv
  BY DEF Init, MadeInv, Idle, Call, NoChannel
<1>3. SeenInv
  BY DEF Init, SeenInv, ReachesChannel
<1> QED
  BY <1>1, <1>2, <1>3 DEF ReachInv

\* Every step keeps ReachInv.
LEMMA ReachStep ==
    TypeOK /\ CustodyInv /\ HandedInv /\ ReachInv /\ [Next]_vars => ReachInv'
<1> SUFFICES ASSUME TypeOK, CustodyInv, HandedInv, ExitInv, MadeInv, SeenInv,
                    [Next]_vars
             PROVE  ExitInv' /\ MadeInv' /\ SeenInv'
  BY DEF ReachInv
<1>1. ASSUME NEW c \in Callers, CallerCalls(c) \/ CallerGoesOn(c),
             UNCHANGED workload
      PROVE  ExitInv' /\ MadeInv' /\ SeenInv'
  BY <1>1, PutReach, ChannelReach, AdminReach, CloseReach
  DEF CallerCalls, CallerGoesOn
<1>2. CASE PumpStep
  BY <1>2, PumpReach DEF PumpStep
<1>3. CASE ApplyStep
  BY <1>3, ApplyReach DEF ApplyStep
<1>4. CASE RaftStep
  BY <1>4, RaftReach DEF RaftStep
<1>5. CASE UNCHANGED vars
  BY <1>5, ExitFrame, MadeFrame, SeenFrame
  DEF vars, exitVars, mapVars, pumpVars, applyVars, histVars
<1> QED
  BY <1>1, <1>2, <1>3, <1>4, <1>5 DEF Next

\* A message whose PutMessage began after GetChannel had returned a channel is
\* handed to that channel before the pump is done with it, unless the channel
\* has been removed or replaced: the channel update that ends GetChannel is
\* never overtaken by a message.
THEOREM TopicReachesChannels == Spec => []ReachesChannel
<1>1. ReachInv => ReachesChannel
  BY DEF ReachInv, SeenInv
<1> QED
  BY <1>1, ReachInit, ReachStep, HandedAlways, PTL DEF Spec
=============================================================================
