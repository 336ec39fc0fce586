----------------------------- MODULE TopicProofs -----------------------------
(* Type correctness of Topic, and what its exit and its pauses promise, for *)
(* any callers, messages, channel names, workloads and capacities.          *)
EXTENDS Topic, FiniteSetTheorems, FunctionTheorems,
        SequenceTheorems, TLAPS

(***************************************************************************)
(* What a step leaves alone keeps its type.                                *)
(***************************************************************************)

\* Each part of TypeOK depends on its own variables only.
LEMMA Frames ==
    ASSUME TypeOK
    PROVE  /\ UNCHANGED workload => workload' \in Workloads
           /\ UNCHANGED queueVars => QueueOK'
           /\ UNCHANGED mapVars => MapOK'
           /\ UNCHANGED exitVars => ExitOK'
           /\ UNCHANGED Paused => Paused' \in BOOLEAN
           /\ UNCHANGED lockVars => LockOK'
           /\ UNCHANGED raftVars => RaftOK'
           /\ UNCHANGED call => CallOK'
           /\ UNCHANGED pumpVars => PumpOK'
           /\ UNCHANGED applyVars => ApplyOK'
           /\ UNCHANGED crashed => crashed' \in BOOLEAN
           /\ UNCHANGED histVars => HistOK'
<1>1. /\ UNCHANGED workload => workload' \in Workloads
      /\ UNCHANGED queueVars => QueueOK'
      /\ UNCHANGED mapVars => MapOK'
      /\ UNCHANGED exitVars => ExitOK'
  BY DEF TypeOK, QueueOK, MapOK, ExitOK, queueVars, mapVars, exitVars
<1>2. /\ UNCHANGED Paused => Paused' \in BOOLEAN
      /\ UNCHANGED lockVars => LockOK'
      /\ UNCHANGED raftVars => RaftOK'
      /\ UNCHANGED call => CallOK'
  BY DEF TypeOK, LockOK, RaftOK, CallOK, lockVars, raftVars
<1>3. /\ UNCHANGED pumpVars => PumpOK'
      /\ UNCHANGED applyVars => ApplyOK'
      /\ UNCHANGED crashed => crashed' \in BOOLEAN
      /\ UNCHANGED histVars => HistOK'
  BY DEF TypeOK, PumpOK, ApplyOK, HistOK, pumpVars, applyVars, histVars
<1> QED
  BY <1>1, <1>2, <1>3

(***************************************************************************)
(* The helpers the actions are built from.                                 *)
(***************************************************************************)

\* A call moves to a label, with a channel's name where the label needs one.
LEMMA GotoType ==
    ASSUME CallOK, NEW c \in Callers, NEW l \in CallLabels, Goto(c, l),
           l \in NamedLabels => call[c].chan[1] \in Names
    PROVE  CallOK'
BY SMTT(20) DEF CallOK, CallType, Goto

\* A call returns.
LEMMA ReturnType ==
    ASSUME CallOK, NEW c \in Callers, Return(c)
    PROVE  CallOK'
<1>1. /\ Idle \in CallType
      /\ Idle.pc \notin NamedLabels
  BY DEF Idle, Call, CallType, CallLabels, NamedLabels, NoChannel, NoName
<1> QED
  BY <1>1 DEF CallOK, Return

\* A call goes on with a smaller batch ...
LEMMA AdvanceType ==
    ASSUME CallOK, NEW c \in Callers, NEW l \in CallLabels,
           l \notin NamedLabels, NEW ms \in SUBSET Msgs,
           call' = [call EXCEPT ![c].batch = ms, ![c].pc = l]
    PROVE  CallOK'
<1>1. ASSUME NEW r \in CallType
      PROVE  [r EXCEPT !.batch = ms, !.pc = l] \in CallType
  BY DEF CallType
<1>2. call' = [call EXCEPT ![c] = [call[c] EXCEPT !.batch = ms, !.pc = l]]
  BY DEF CallOK
<1>3. [call[c] EXCEPT !.batch = ms, !.pc = l] \in CallType
  BY <1>1 DEF CallOK
<1>4. [call[c] EXCEPT !.batch = ms, !.pc = l].pc \notin NamedLabels
  BY DEF CallOK, CallType
<1> QED
  BY <1>2, <1>3, <1>4 DEF CallOK

\* ... or with the channel it has read, ...
LEMMA ReadType ==
    ASSUME CallOK, NEW c \in Callers, NEW o \in Names \X Nat,
           call' = [call EXCEPT ![c].chan = o, ![c].pc = "notify"]
    PROVE  CallOK'
<1>1. ASSUME NEW r \in CallType
      PROVE  /\ [r EXCEPT !.chan = o, !.pc = "notify"] \in CallType
             /\ [r EXCEPT !.chan = o, !.pc = "notify"].chan[1] \in Names
  BY DEF CallType, CallLabels
<1>2. call' = [call EXCEPT ![c] = [call[c] EXCEPT !.chan = o, !.pc = "notify"]]
  BY DEF CallOK
<1>3. call[c] \in CallType
  BY DEF CallOK
<1> QED
  BY <1>1, <1>2, <1>3 DEF CallOK

\* ... or with one TopicUpdate less to make.
LEMMA CountDownType ==
    ASSUME CallOK, NEW c \in Callers, NEW k \in 0..2, call[c].pc = "update",
           k = call[c].todo - 1,
           \/ call' = [call EXCEPT ![c].todo = @ - 1, ![c].pc = "updateWait"]
           \/ call' = [call EXCEPT ![c].todo = @ - 1]
    PROVE  CallOK'
<1>1. "updateWait" \in CallLabels \ NamedLabels
  BY DEF CallLabels, NamedLabels
<1> QED
  BY <1>1 DEF CallOK, CallType

\* The names a workload mentions are names of channels.
LEMMA WorkloadNames ==
    ASSUME TypeOK
    PROVE  workload.names \subseteq Names
BY TopicAssumption DEF TypeOK, WorkloadType

\* The commands that the calls submit.
LEMMA EntryTypes ==
    /\ NoEntry \in EntryType
    /\ \A g \in Callers \cup {Apply, Nobody} :
          /\ Entry("Count", NoName, FALSE, g) \in EntryType
          /\ Entry("ExitFlag", NoName, TRUE, g) \in EntryType
          /\ Entry("DeleteTopic", NoName, FALSE, g) \in EntryType
          /\ \A b \in BOOLEAN : Entry("Paused", NoName, b, g) \in EntryType
          /\ \A n \in Names :
                /\ Entry("NewChannel", n, FALSE, g) \in EntryType
                /\ Entry("DeleteChannel", n, FALSE, g) \in EntryType
BY DEF NoEntry, Entry, EntryType, NoName

\* A submitted command goes to the end of the log.
LEMMA SubmittedType ==
    ASSUME RaftOK, NEW cmd, NEW name, NEW val, NEW from,
           Entry(cmd, name, val, from) \in EntryType,
           Submitted(cmd, name, val, from)
    PROVE  RaftOK'
BY DEF RaftOK, Submitted

\* An answer is taken.
LEMMA AnsweredType ==
    ASSUME RaftOK, NEW g \in Callers \cup {Apply}, Answered(g)
    PROVE  RaftOK'
BY DEF RaftOK, Answered

\* An answer is given.
LEMMA RespondType ==
    ASSUME reply \in [Callers \cup {Apply} -> {"none", "ok", "err"}],
           NEW from \in Callers \cup {Apply, Nobody},
           NEW what \in {"ok", "err"}, Respond(from, what)
    PROVE  reply' \in [Callers \cup {Apply} -> {"none", "ok", "err"}]
BY DEF Respond

\* The fields of a command.
LEMMA EntryFields ==
    ASSUME NEW e \in EntryType
    PROVE  /\ e.val \in BOOLEAN
           /\ e.from \in Callers \cup {Apply, Nobody}
           /\ e.cmd \in {"NewChannel", "DeleteChannel"} => e.name \in Names
           /\ e.cmd = "ExitFlag" => e.val = TRUE
BY DEF EntryType

\* The command at the head of the log.
LEMMA HeadType ==
    ASSUME RaftOK, log # <<>>
    PROVE  /\ Head(log) \in EntryType
           /\ Head(log).val \in BOOLEAN
           /\ Head(log).from \in Callers \cup {Apply, Nobody}
           /\ Tail(log) \in Seq(EntryType)
<1>1. Head(log) \in EntryType /\ Tail(log) \in Seq(EntryType)
  BY DEF RaftOK
<1> QED
  BY <1>1, EntryFields

\* The command in the hand of the goroutine that applies the log.
LEMMA CommandType ==
    ASSUME ApplyOK
    PROVE  /\ command.from \in Callers \cup {Apply, Nobody}
           /\ command.cmd \in {"NewChannel", "DeleteChannel"}
                => command.name \in Names
BY EntryFields DEF ApplyOK

\* The log grows.
LEMMA AppendType ==
    ASSUME NEW s \in Seq(EntryType), NEW e \in EntryType
    PROVE  Append(s, e) \in Seq(EntryType)
OBVIOUS

\* The mutex is unlocked.
LEMMA UnlockType ==
    ASSUME LockOK, Unlock, UNCHANGED <<readers, leaked>>
    PROVE  LockOK' /\ crashed' \in BOOLEAN
BY DEF LockOK, Unlock

\* The pump receives from a caller, or the caller gives up.
LEMMA NotifiedType ==
    ASSUME PumpOK, Notified \/ PauseNotified
    PROVE  PumpOK'
<1>1. CASE \E l \in {"reload", "repause"} : PumpReceives(l)
  BY <1>1 DEF PumpOK, PumpReceives
<1>2. CASE TopicExited
  BY <1>2 DEF PumpOK, TopicExited, pumpVars
<1> QED
  BY <1>1, <1>2 DEF Notified, PauseNotified

\* The channels of the map are finitely many objects.
LEMMA CurrentType ==
    ASSUME MapOK
    PROVE  Current \subseteq Objects /\ IsFiniteSet(Current)
<1> DEFINE present == {k \in Names : Channels[k] # 0}
           object == [n \in present |-> <<n, Channels[n]>>]
<1>1. IsFiniteSet(present)
  BY FS_Subset, TopicAssumption
<1>2. object \in Surjection(present, Current)
  BY DEF Surjection, Current
<1>3. IsFiniteSet(Current)
  BY <1>1, <1>2, FS_Surjection
<1> QED
  BY <1>3 DEF Current, MapOK, Objects

\* A list of the channels is a sequence of objects.
LEMMA OrdersType ==
    ASSUME MapOK, NEW s \in Orders(Current)
    PROVE  s \in Seq(Objects)
<1>1. Cardinality(Current) \in Nat
  BY CurrentType, FS_CardinalityType
<1> QED
  BY <1>1, CurrentType DEF Orders

\* A command disappears from the log, or its caller no longer waits for it.
LEMMA AbandonType ==
    ASSUME RaftOK, NEW i \in DOMAIN log, Abandon(i)
    PROVE  RaftOK'
<1>1. /\ i \in 1..Len(log) /\ log \in Seq(EntryType)
      /\ log[i] \in EntryType /\ Len(log) \in Nat
  BY DEF RaftOK
<1>2. reply' \in [Callers \cup {Apply} -> {"none", "ok", "err"}]
  BY <1>1, EntryFields DEF RaftOK, Abandon
<1>3. CASE log' = [log EXCEPT ![i].from = Nobody]
  <2>1. [log[i] EXCEPT !.from = Nobody] \in EntryType
    BY <1>1 DEF EntryType
  <2>2. log' = [log EXCEPT ![i] = [log[i] EXCEPT !.from = Nobody]]
    BY <1>3
  <2>3. log' \in Seq(EntryType)
    BY <1>1, <2>1, <2>2
  <2> QED
    BY <1>2, <2>3 DEF RaftOK, Abandon
<1>4. CASE log' = SubSeq(log, 1, i - 1) \o SubSeq(log, i + 1, Len(log))
  <2>1. SubSeq(log, 1, i - 1) \in Seq(EntryType)
    BY <1>1, SubSeqProperties
  <2>2. SubSeq(log, i + 1, Len(log)) \in Seq(EntryType)
    BY <1>1, SubSeqProperties
  <2>3. log' \in Seq(EntryType)
    BY <1>4, <2>1, <2>2, ConcatProperties
  <2> QED
    BY <1>2, <2>3 DEF RaftOK, Abandon
<1> QED
  BY <1>3, <1>4 DEF Abandon

(***************************************************************************)
(* The actions.                                                            *)
(***************************************************************************)

\* The actions of publishers keep every variable in its type.
LEMMA PutActionsType ==
    ASSUME TypeOK, UNCHANGED workload,
           NEW c \in Callers,
           \/ \E op \in {"PutMessage", "PutMessages"}, ms \in SUBSET Msgs :
                 CallPut(c, op, ms)
           \/ \E m \in Msgs : Put(c, m)
           \/ PutFails(c)
           \/ PutUpdate(c)
           \/ PutUpdated(c)
           \/ PutReturns(c)
    PROVE  TypeOK'
<1>1. ASSUME NEW op \in {"PutMessage", "PutMessages"}, NEW ms \in SUBSET Msgs,
            CallPut(c, op, ms)
     PROVE  TypeOK'
  <2>1. /\ QueueOK' /\ MapOK' /\ ExitOK' /\ Paused' \in BOOLEAN /\ RaftOK'
        /\ PumpOK' /\ ApplyOK' /\ crashed' \in BOOLEAN
    BY <1>1, Frames DEF CallPut
  <2>2. LockOK'
    BY <1>1 DEF TypeOK, LockOK, CallPut
  <2>3. CallOK'
    BY <1>1 DEF TypeOK, CallOK, CallPut, CallType, Call, NamedLabels,
       CallLabels, AllOps, NoChannel
  <2>4. HistOK'
    BY <1>1 DEF TypeOK, HistOK, CallPut
  <2> QED
    BY <2>1, <2>2, <2>3, <2>4, Frames DEF TypeOK
<1>2. ASSUME NEW m \in Msgs, Put(c, m)
     PROVE  TypeOK'
  <2>1. /\ MapOK' /\ ExitOK' /\ Paused' \in BOOLEAN /\ LockOK' /\ RaftOK'
        /\ PumpOK' /\ ApplyOK' /\ crashed' \in BOOLEAN
    BY <1>2, Frames DEF Put
  <2>2. QueueOK'
    BY <1>2 DEF TypeOK, QueueOK, Put, put
  <2>3. CallOK'
    <3>1. call[c].batch \ {m} \in SUBSET Msgs
      BY DEF TypeOK, CallOK, CallType
    <3>2. \A l \in {"put", "update"} : l \in CallLabels \ NamedLabels
      BY DEF CallLabels, NamedLabels
    <3>3. PICK l \in {"put", "update"} :
            call' = [call EXCEPT ![c].batch = call[c].batch \ {m}, ![c].pc = l]
      BY <1>2 DEF Put, TypeOK, CallOK, CallType
    <3> QED
      BY <3>1, <3>2, <3>3, AdvanceType DEF TypeOK
  <2>4. HistOK'
    BY <1>2 DEF TypeOK, HistOK, Put, put
  <2> QED
    BY <2>1, <2>2, <2>3, <2>4, Frames DEF TypeOK
<1>3. CASE PutFails(c)
  <2>1. /\ QueueOK' /\ MapOK' /\ ExitOK' /\ Paused' \in BOOLEAN /\ RaftOK'
        /\ PumpOK' /\ ApplyOK' /\ crashed' \in BOOLEAN /\ HistOK'
    BY <1>3, Frames DEF PutFails
  <2>2. LockOK'
    BY <1>3 DEF TypeOK, LockOK, PutFails
  <2>3. CallOK'
    <3>1. CASE call[c].op = "PutMessage"
      BY <1>3, <3>1, ReturnType DEF TypeOK, PutFails
    <3>2. CASE call[c].op # "PutMessage"
      BY <1>3, <3>2
      DEF PutFails, TypeOK, CallOK, CallType, CallLabels, NamedLabels
    <3> QED
      BY <3>1, <3>2
  <2> QED
    BY <2>1, <2>2, <2>3, Frames DEF TypeOK
<1>4. CASE PutUpdate(c)
  <2>1. /\ QueueOK' /\ MapOK' /\ ExitOK' /\ Paused' \in BOOLEAN /\ LockOK'
        /\ PumpOK' /\ ApplyOK' /\ crashed' \in BOOLEAN /\ HistOK'
    BY <1>4, Frames DEF PutUpdate
  <2>2. RaftOK'
    BY <1>4, SubmittedType, EntryTypes DEF TypeOK, RaftOK, PutUpdate, Refused,
       raftVars
  <2>3. CallOK'
    <3>1. call[c].todo - 1 \in 0..2 /\ call[c].pc = "update"
      BY <1>4 DEF TypeOK, CallOK, CallType, PutUpdate
    <3> QED
      BY <1>4, <3>1, CountDownType DEF TypeOK, PutUpdate
  <2> QED
    BY <2>1, <2>2, <2>3, Frames DEF TypeOK
<1>5. CASE PutUpdated(c)
  <2>1. /\ QueueOK' /\ MapOK' /\ ExitOK' /\ Paused' \in BOOLEAN /\ LockOK'
        /\ PumpOK' /\ ApplyOK' /\ crashed' \in BOOLEAN /\ HistOK'
    BY <1>5, Frames DEF PutUpdated
  <2>2. RaftOK'
    BY <1>5, AnsweredType DEF TypeOK, RaftOK, PutUpdated
  <2>3. CallOK'
    BY <1>5, GotoType DEF TypeOK, CallOK, PutUpdated, CallLabels, NamedLabels
  <2> QED
    BY <2>1, <2>2, <2>3, Frames DEF TypeOK
<1>6. CASE PutReturns(c)
  <2>1. /\ QueueOK' /\ MapOK' /\ ExitOK' /\ Paused' \in BOOLEAN /\ RaftOK'
        /\ PumpOK' /\ ApplyOK' /\ crashed' \in BOOLEAN /\ HistOK'
    BY <1>6, Frames DEF PutReturns
  <2>2. LockOK'
    BY <1>6 DEF TypeOK, LockOK, PutReturns
  <2>3. CallOK'
    BY <1>6, ReturnType DEF TypeOK, CallOK, PutReturns
  <2> QED
    BY <2>1, <2>2, <2>3, Frames DEF TypeOK
<1> QED
  BY <1>1, <1>2, <1>3, <1>4, <1>5, <1>6

\* The actions of GetChannel and its like keep every variable in its type.
LEMMA ChannelActionsType ==
    ASSUME TypeOK, UNCHANGED workload,
           NEW c \in Callers,
           \/ \E n \in workload.names : CallGetChannel(c, n)
           \/ GetApply(c)
           \/ GetAnswered(c)
           \/ GetCheck(c)
           \/ GetRead(c)
           \/ \E n \in workload.names : CallDeleteChannel(c, n)
           \/ DeleteAnswered(c)
           \/ DeleteUnlock(c)
           \/ NotifyChannel(c)
           \/ NotifyLast(c)
    PROVE  TypeOK'
<1>1. ASSUME NEW n \in workload.names, CallGetChannel(c, n)
     PROVE  TypeOK'
  <2>1. /\ QueueOK' /\ MapOK' /\ ExitOK' /\ Paused' \in BOOLEAN /\ LockOK'
        /\ RaftOK' /\ PumpOK' /\ ApplyOK' /\ crashed' \in BOOLEAN /\ HistOK'
    BY <1>1, Frames DEF CallGetChannel
  <2>2. CallOK'
    BY <1>1, WorkloadNames DEF TypeOK, CallOK, CallGetChannel, CallType, Call,
       NamedLabels, CallLabels, AllOps
  <2> QED
    BY <2>1, <2>2, Frames DEF TypeOK
<1>2. CASE GetApply(c)
  <2>1. /\ QueueOK' /\ MapOK' /\ ExitOK' /\ Paused' \in BOOLEAN /\ LockOK'
        /\ PumpOK' /\ ApplyOK' /\ crashed' \in BOOLEAN /\ HistOK'
    BY <1>2, Frames DEF GetApply
  <2>2. RaftOK'
    <3>1. call[c].chan[1] \in Names
      BY <1>2 DEF TypeOK, CallOK, GetApply, NamedLabels
    <3> QED
      BY <1>2, <3>1, SubmittedType, EntryTypes
      DEF TypeOK, RaftOK, GetApply, Refused, raftVars
  <2>3. CallOK'
    BY <1>2, GotoType DEF TypeOK, CallOK, GetApply, CallLabels,
       NamedLabels
  <2> QED
    BY <2>1, <2>2, <2>3, Frames DEF TypeOK
<1>3. CASE GetAnswered(c)
  <2>1. /\ QueueOK' /\ MapOK' /\ ExitOK' /\ Paused' \in BOOLEAN /\ LockOK'
        /\ PumpOK' /\ ApplyOK' /\ crashed' \in BOOLEAN /\ HistOK'
    BY <1>3, Frames DEF GetAnswered
  <2>2. RaftOK'
    BY <1>3, AnsweredType DEF TypeOK, RaftOK, GetAnswered
  <2>3. CallOK'
    BY <1>3, GotoType DEF TypeOK, CallOK, GetAnswered, CallLabels,
       NamedLabels
  <2> QED
    BY <2>1, <2>2, <2>3, Frames DEF TypeOK
<1>4. CASE GetCheck(c)
  <2>1. /\ QueueOK' /\ MapOK' /\ ExitOK' /\ Paused' \in BOOLEAN /\ RaftOK'
        /\ PumpOK' /\ ApplyOK' /\ crashed' \in BOOLEAN /\ HistOK'
    BY <1>4, Frames DEF GetCheck
  <2>2. LockOK'
    BY <1>4 DEF TypeOK, LockOK, GetCheck
  <2>3. CallOK'
    BY <1>4, GotoType DEF TypeOK, CallOK, GetCheck, CallLabels,
       NamedLabels
  <2> QED
    BY <2>1, <2>2, <2>3, Frames DEF TypeOK
<1>5. CASE GetRead(c)
  <2>1. /\ QueueOK' /\ MapOK' /\ ExitOK' /\ Paused' \in BOOLEAN /\ LockOK'
        /\ RaftOK' /\ PumpOK' /\ ApplyOK' /\ crashed' \in BOOLEAN /\ HistOK'
    BY <1>5, Frames DEF GetRead
  <2>2. CallOK'
    <3> DEFINE n == call[c].chan[1]
               o == <<n, Channels[n]>>
    <3>1. o \in Names \X Nat
      BY <1>5 DEF TypeOK, CallOK, GetRead, MapOK, NamedLabels
    <3>2. call' = [call EXCEPT ![c].chan = o, ![c].pc = "notify"]
      BY <1>5 DEF GetRead
    <3> HIDE DEF o
    <3> QED
      BY <3>1, <3>2, ReadType DEF TypeOK
  <2> QED
    BY <2>1, <2>2, Frames DEF TypeOK
<1>6. ASSUME NEW n \in workload.names, CallDeleteChannel(c, n)
     PROVE  TypeOK'
  <2>1. /\ QueueOK' /\ MapOK' /\ ExitOK' /\ Paused' \in BOOLEAN /\ LockOK'
        /\ PumpOK' /\ ApplyOK' /\ crashed' \in BOOLEAN /\ HistOK'
    BY <1>6, Frames DEF CallDeleteChannel
  <2>2. RaftOK'
    BY <1>6, SubmittedType, EntryTypes, WorkloadNames DEF TypeOK, RaftOK,
       CallDeleteChannel
  <2>3. CallOK'
    BY <1>6, WorkloadNames DEF TypeOK, CallOK, CallDeleteChannel, CallType,
       Call, NamedLabels, CallLabels, AllOps
  <2> QED
    BY <2>1, <2>2, <2>3, Frames DEF TypeOK
<1>7. CASE DeleteAnswered(c)
  <2>1. /\ QueueOK' /\ MapOK' /\ ExitOK' /\ Paused' \in BOOLEAN /\ LockOK'
        /\ PumpOK' /\ ApplyOK' /\ crashed' \in BOOLEAN /\ HistOK'
    BY <1>7, Frames DEF DeleteAnswered
  <2>2. RaftOK'
    BY <1>7, AnsweredType DEF TypeOK, RaftOK, DeleteAnswered
  <2>3. CallOK'
    BY <1>7, ReturnType, GotoType DEF TypeOK, CallOK, DeleteAnswered,
       CallLabels, NamedLabels
  <2> QED
    BY <2>1, <2>2, <2>3, Frames DEF TypeOK
<1>8. CASE DeleteUnlock(c)
  <2>1. /\ QueueOK' /\ MapOK' /\ ExitOK' /\ Paused' \in BOOLEAN /\ RaftOK'
        /\ PumpOK' /\ ApplyOK' /\ HistOK'
    BY <1>8, Frames DEF DeleteUnlock
  <2>2. LockOK'
    BY <1>8, UnlockType DEF TypeOK, LockOK, DeleteUnlock
  <2>3. CallOK'
    BY <1>8, GotoType DEF TypeOK, CallOK, DeleteUnlock, CallLabels,
       NamedLabels
  <2>4. crashed' \in BOOLEAN
    BY <1>8, UnlockType DEF TypeOK, DeleteUnlock
  <2> QED
    BY <2>1, <2>2, <2>3, <2>4, Frames DEF TypeOK
<1>9. CASE NotifyChannel(c)
  <2>1. /\ QueueOK' /\ MapOK' /\ ExitOK' /\ Paused' \in BOOLEAN /\ LockOK'
        /\ RaftOK' /\ ApplyOK' /\ crashed' \in BOOLEAN
    BY <1>9, Frames DEF NotifyChannel
  <2>2. CallOK'
    BY <1>9, ReturnType DEF TypeOK, CallOK, NotifyChannel
  <2>3. PumpOK'
    BY <1>9, NotifiedType DEF TypeOK, PumpOK, NotifyChannel
  <2>4. HistOK'
    BY <1>9 DEF TypeOK, HistOK, NotifyChannel, CallOK, CallType, NamedLabels,
       Objects
  <2> QED
    BY <2>1, <2>2, <2>3, <2>4, Frames DEF TypeOK
<1>10. CASE NotifyLast(c)
  <2>1. /\ QueueOK' /\ MapOK' /\ Paused' \in BOOLEAN /\ LockOK' /\ ApplyOK'
        /\ crashed' \in BOOLEAN /\ HistOK'
    BY <1>10, Frames DEF NotifyLast
  <2>2. ExitOK'
    BY <1>10 DEF TypeOK, ExitOK, NotifyLast
  <2>3. RaftOK'
    BY <1>10, SubmittedType, EntryTypes DEF TypeOK, RaftOK, NotifyLast,
       Refused, raftVars
  <2>4. CallOK'
    BY <1>10, ReturnType DEF TypeOK, CallOK, NotifyLast
  <2>5. PumpOK'
    BY <1>10, NotifiedType DEF TypeOK, PumpOK, NotifyLast
  <2> QED
    BY <2>1, <2>2, <2>3, <2>4, <2>5, Frames DEF TypeOK
<1> QED
  BY <1>1, <1>2, <1>3, <1>4, <1>5, <1>6, <1>7, <1>8, <1>9, <1>10

\* The actions of Pause, Empty and DeleteTopic keep every variable in its type.
LEMMA AdminActionsType ==
    ASSUME TypeOK, UNCHANGED workload,
           NEW c \in Callers,
           \/ \E op \in {"Pause", "UnPause"} : CallPause(c, op)
           \/ PauseUpdate(c)
           \/ PauseUpdated(c)
           \/ PauseNotify(c)
           \/ CallEmpty(c)
           \/ EmptyMemory(c)
           \/ EmptyBackend(c)
           \/ CallDeleteTopic(c)
           \/ DeleteTopicAnswered(c)
    PROVE  TypeOK'
<1>1. ASSUME NEW op \in {"Pause", "UnPause"}, CallPause(c, op)
     PROVE  TypeOK'
  <2>1. /\ QueueOK' /\ MapOK' /\ ExitOK' /\ LockOK' /\ RaftOK' /\ PumpOK'
        /\ ApplyOK' /\ crashed' \in BOOLEAN /\ HistOK'
    BY <1>1, Frames DEF CallPause
  <2>2. Paused' \in BOOLEAN
    BY <1>1 DEF TypeOK, CallPause
  <2>3. CallOK'
    BY <1>1 DEF TypeOK, CallOK, CallPause, CallType, Call, NamedLabels,
       CallLabels, AllOps, NoChannel
  <2> QED
    BY <2>1, <2>2, <2>3, Frames DEF TypeOK
<1>2. CASE PauseUpdate(c)
  <2>1. /\ QueueOK' /\ MapOK' /\ ExitOK' /\ Paused' \in BOOLEAN /\ LockOK'
        /\ PumpOK' /\ ApplyOK' /\ crashed' \in BOOLEAN /\ HistOK'
    BY <1>2, Frames DEF PauseUpdate
  <2>2. RaftOK'
    BY <1>2, SubmittedType, EntryTypes DEF TypeOK, RaftOK, PauseUpdate,
       Refused, raftVars
  <2>3. CallOK'
    BY <1>2, GotoType DEF TypeOK, CallOK, PauseUpdate, CallLabels, NamedLabels
  <2> QED
    BY <2>1, <2>2, <2>3, Frames DEF TypeOK
<1>3. CASE PauseUpdated(c)
  <2>1. /\ QueueOK' /\ MapOK' /\ ExitOK' /\ Paused' \in BOOLEAN /\ LockOK'
        /\ PumpOK' /\ ApplyOK' /\ crashed' \in BOOLEAN /\ HistOK'
    BY <1>3, Frames DEF PauseUpdated
  <2>2. RaftOK'
    BY <1>3, AnsweredType DEF TypeOK, RaftOK, PauseUpdated
  <2>3. CallOK'
    BY <1>3, GotoType DEF TypeOK, CallOK, PauseUpdated, CallLabels,
       NamedLabels
  <2> QED
    BY <2>1, <2>2, <2>3, Frames DEF TypeOK
<1>4. CASE PauseNotify(c)
  <2>1. /\ QueueOK' /\ MapOK' /\ ExitOK' /\ Paused' \in BOOLEAN /\ LockOK'
        /\ RaftOK' /\ ApplyOK' /\ crashed' \in BOOLEAN /\ HistOK'
    BY <1>4, Frames DEF PauseNotify
  <2>2. CallOK'
    BY <1>4, ReturnType DEF TypeOK, CallOK, PauseNotify
  <2>3. PumpOK'
    BY <1>4, NotifiedType DEF TypeOK, PumpOK, PauseNotify
  <2> QED
    BY <2>1, <2>2, <2>3, Frames DEF TypeOK
<1>5. CASE CallEmpty(c)
  <2>1. /\ QueueOK' /\ MapOK' /\ ExitOK' /\ Paused' \in BOOLEAN /\ LockOK'
        /\ RaftOK' /\ PumpOK' /\ ApplyOK' /\ crashed' \in BOOLEAN /\ HistOK'
    BY <1>5, Frames DEF CallEmpty
  <2>2. CallOK'
    BY <1>5 DEF TypeOK, CallOK, CallEmpty, CallType, Call, NamedLabels,
       CallLabels, AllOps, NoChannel
  <2> QED
    BY <2>1, <2>2, Frames DEF TypeOK
<1>6. CASE EmptyMemory(c)
  <2>1. /\ MapOK' /\ ExitOK' /\ Paused' \in BOOLEAN /\ LockOK' /\ RaftOK'
        /\ CallOK' /\ PumpOK' /\ ApplyOK' /\ crashed' \in BOOLEAN
    BY <1>6, Frames DEF EmptyMemory
  <2>2. QueueOK'
    BY <1>6 DEF TypeOK, QueueOK, EmptyMemory, DropOne
  <2>3. HistOK'
    BY <1>6 DEF TypeOK, HistOK, EmptyMemory, DropOne
  <2> QED
    BY <2>1, <2>2, <2>3, Frames DEF TypeOK
<1>7. CASE EmptyBackend(c)
  <2>1. /\ MapOK' /\ ExitOK' /\ Paused' \in BOOLEAN /\ LockOK' /\ RaftOK'
        /\ PumpOK' /\ ApplyOK' /\ crashed' \in BOOLEAN
    BY <1>7, Frames DEF EmptyBackend
  <2>2. QueueOK'
    BY <1>7 DEF TypeOK, QueueOK, EmptyBackend
  <2>3. CallOK'
    BY <1>7, ReturnType DEF TypeOK, CallOK, EmptyBackend
  <2>4. HistOK'
    BY <1>7 DEF TypeOK, HistOK, EmptyBackend
  <2> QED
    BY <2>1, <2>2, <2>3, <2>4, Frames DEF TypeOK
<1>8. CASE CallDeleteTopic(c)
  <2>1. /\ QueueOK' /\ MapOK' /\ ExitOK' /\ Paused' \in BOOLEAN /\ LockOK'
        /\ PumpOK' /\ ApplyOK' /\ crashed' \in BOOLEAN /\ HistOK'
    BY <1>8, Frames DEF CallDeleteTopic
  <2>2. RaftOK'
    BY <1>8, SubmittedType, EntryTypes DEF TypeOK, RaftOK, CallDeleteTopic
  <2>3. CallOK'
    BY <1>8 DEF TypeOK, CallOK, CallDeleteTopic, CallType, Call, NamedLabels,
       CallLabels, AllOps, NoChannel
  <2> QED
    BY <2>1, <2>2, <2>3, Frames DEF TypeOK
<1>9. CASE DeleteTopicAnswered(c)
  <2>1. /\ QueueOK' /\ MapOK' /\ ExitOK' /\ Paused' \in BOOLEAN /\ LockOK'
        /\ PumpOK' /\ ApplyOK' /\ crashed' \in BOOLEAN /\ HistOK'
    BY <1>9, Frames DEF DeleteTopicAnswered
  <2>2. RaftOK'
    BY <1>9, AnsweredType DEF TypeOK, RaftOK, DeleteTopicAnswered
  <2>3. CallOK'
    BY <1>9, ReturnType DEF TypeOK, CallOK, DeleteTopicAnswered
  <2> QED
    BY <2>1, <2>2, <2>3, Frames DEF TypeOK
<1> QED
  BY <1>1, <1>2, <1>3, <1>4, <1>5, <1>6, <1>7, <1>8, <1>9

\* The actions of Close keep every variable in its type.
LEMMA CloseActionsType ==
    ASSUME TypeOK, UNCHANGED workload,
           NEW c \in Callers,
           \/ CallClose(c)
           \/ CloseCancel(c)
           \/ CloseWait(c)
           \/ CloseChannels(c)
           \/ CloseFlush(c)
           \/ CloseBackend(c)
    PROVE  TypeOK'
<1>1. CASE CallClose(c)
  <2>1. /\ QueueOK' /\ MapOK' /\ Paused' \in BOOLEAN /\ LockOK' /\ RaftOK'
        /\ PumpOK' /\ ApplyOK' /\ crashed' \in BOOLEAN /\ HistOK'
    BY <1>1, Frames DEF CallClose
  <2>2. ExitOK'
    BY <1>1 DEF TypeOK, ExitOK, CallClose
  <2>3. CallOK'
    BY <1>1 DEF TypeOK, CallOK, CallClose, CallType, Call, NamedLabels,
       CallLabels, AllOps, NoChannel
  <2> QED
    BY <2>1, <2>2, <2>3, Frames DEF TypeOK
<1>2. CASE CloseCancel(c)
  <2>1. /\ QueueOK' /\ MapOK' /\ Paused' \in BOOLEAN /\ LockOK' /\ RaftOK'
        /\ PumpOK' /\ ApplyOK' /\ crashed' \in BOOLEAN /\ HistOK'
    BY <1>2, Frames DEF CloseCancel
  <2>2. ExitOK'
    BY <1>2 DEF TypeOK, ExitOK, CloseCancel
  <2>3. CallOK'
    BY <1>2, GotoType DEF TypeOK, CallOK, CloseCancel, CallLabels, NamedLabels
  <2> QED
    BY <2>1, <2>2, <2>3, Frames DEF TypeOK
<1>3. CASE CloseWait(c)
  <2>1. /\ QueueOK' /\ MapOK' /\ ExitOK' /\ Paused' \in BOOLEAN /\ LockOK'
        /\ RaftOK' /\ PumpOK' /\ ApplyOK' /\ crashed' \in BOOLEAN /\ HistOK'
    BY <1>3, Frames DEF CloseWait
  <2>2. CallOK'
    BY <1>3, GotoType DEF TypeOK, CallOK, CloseWait, CallLabels, NamedLabels
  <2> QED
    BY <2>1, <2>2, Frames DEF TypeOK
<1>4. CASE CloseChannels(c)
  <2>1. /\ QueueOK' /\ MapOK' /\ ExitOK' /\ Paused' \in BOOLEAN /\ LockOK'
        /\ RaftOK' /\ PumpOK' /\ ApplyOK' /\ crashed' \in BOOLEAN /\ HistOK'
    BY <1>4, Frames DEF CloseChannels
  <2>2. CallOK'
    BY <1>4, GotoType DEF TypeOK, CallOK, CloseChannels, CallLabels,
       NamedLabels
  <2> QED
    BY <2>1, <2>2, Frames DEF TypeOK
<1>5. CASE CloseFlush(c)
  <2>1. /\ MapOK' /\ ExitOK' /\ Paused' \in BOOLEAN /\ LockOK' /\ RaftOK'
        /\ CallOK' /\ PumpOK' /\ ApplyOK' /\ crashed' \in BOOLEAN
    BY <1>5, Frames DEF CloseFlush
  <2>2. QueueOK'
    BY <1>5 DEF TypeOK, QueueOK, CloseFlush
  <2>3. HistOK'
    BY <1>5 DEF TypeOK, HistOK, CloseFlush
  <2> QED
    BY <2>1, <2>2, <2>3, Frames DEF TypeOK
<1>6. CASE CloseBackend(c)
  <2>1. /\ MapOK' /\ ExitOK' /\ Paused' \in BOOLEAN /\ LockOK' /\ RaftOK'
        /\ PumpOK' /\ ApplyOK' /\ crashed' \in BOOLEAN /\ HistOK'
    BY <1>6, Frames DEF CloseBackend
  <2>2. QueueOK'
    BY <1>6 DEF TypeOK, QueueOK, CloseBackend
  <2>3. CallOK'
    BY <1>6, ReturnType DEF TypeOK, CallOK, CloseBackend
  <2> QED
    BY <2>1, <2>2, <2>3, Frames DEF TypeOK
<1> QED
  BY <1>1, <1>2, <1>3, <1>4, <1>5, <1>6

\* The actions of messagePump keep every variable in its type.
LEMMA PumpActionsType ==
    ASSUME TypeOK, UNCHANGED workload,
           \/ PumpStart
           \/ PumpReload
           \/ PumpRepause
           \/ \E m \in Msgs : PumpReceive(m)
           \/ \E m \in Msgs : PumpDeliver(m)
           \/ PumpNext
           \/ PumpExit
    PROVE  TypeOK'
<1>1. CASE PumpStart
  <2>1. /\ QueueOK' /\ MapOK' /\ ExitOK' /\ Paused' \in BOOLEAN /\ LockOK'
        /\ RaftOK' /\ CallOK' /\ ApplyOK' /\ crashed' \in BOOLEAN /\ HistOK'
    BY <1>1, Frames DEF PumpStart
  <2>2. PumpOK'
    BY <1>1 DEF TypeOK, PumpOK, PumpStart
  <2> QED
    BY <2>1, <2>2, Frames DEF TypeOK
<1>2. CASE PumpReload
  <2>1. /\ QueueOK' /\ MapOK' /\ ExitOK' /\ Paused' \in BOOLEAN /\ LockOK'
        /\ RaftOK' /\ CallOK' /\ ApplyOK' /\ crashed' \in BOOLEAN /\ HistOK'
    BY <1>2, Frames DEF PumpReload
  <2>2. PumpOK'
    BY <1>2, OrdersType DEF TypeOK, PumpOK, PumpReload, ReloadedChans
  <2> QED
    BY <2>1, <2>2, Frames DEF TypeOK
<1>3. CASE PumpRepause
  <2>1. /\ QueueOK' /\ MapOK' /\ ExitOK' /\ Paused' \in BOOLEAN /\ LockOK'
        /\ RaftOK' /\ CallOK' /\ ApplyOK' /\ crashed' \in BOOLEAN /\ HistOK'
    BY <1>3, Frames DEF PumpRepause
  <2>2. PumpOK'
    BY <1>3 DEF TypeOK, PumpOK, PumpRepause, Resumed
  <2> QED
    BY <2>1, <2>2, Frames DEF TypeOK
<1>4. ASSUME NEW m \in Msgs, PumpReceive(m)
     PROVE  TypeOK'
  <2>1. /\ MapOK' /\ ExitOK' /\ Paused' \in BOOLEAN /\ LockOK' /\ RaftOK'
        /\ CallOK' /\ ApplyOK' /\ crashed' \in BOOLEAN /\ HistOK'
    BY <1>4, Frames DEF PumpReceive
  <2>2. QueueOK'
    BY <1>4 DEF TypeOK, QueueOK, PumpReceive
  <2>3. PumpOK'
    BY <1>4 DEF TypeOK, PumpOK, PumpReceive
  <2> QED
    BY <2>1, <2>2, <2>3, Frames DEF TypeOK
<1>5. ASSUME NEW m \in Msgs, PumpDeliver(m)
     PROVE  TypeOK'
  <2>1. /\ QueueOK' /\ MapOK' /\ ExitOK' /\ Paused' \in BOOLEAN /\ LockOK'
        /\ RaftOK' /\ CallOK' /\ ApplyOK' /\ crashed' \in BOOLEAN
    BY <1>5, Frames DEF PumpDeliver
  <2>2. PumpOK'
    BY <1>5 DEF TypeOK, PumpOK, PumpDeliver
  <2>3. HistOK'
    BY <1>5 DEF TypeOK, HistOK, PumpDeliver, PumpOK
  <2> QED
    BY <2>1, <2>2, <2>3, Frames DEF TypeOK
<1>6. CASE PumpNext
  <2>1. /\ QueueOK' /\ MapOK' /\ ExitOK' /\ Paused' \in BOOLEAN /\ LockOK'
        /\ RaftOK' /\ CallOK' /\ ApplyOK' /\ crashed' \in BOOLEAN
    BY <1>6, Frames DEF PumpNext
  <2>2. PumpOK'
    BY <1>6 DEF TypeOK, PumpOK, PumpNext
  <2>3. HistOK'
    BY <1>6 DEF TypeOK, HistOK, PumpNext, PumpOK
  <2> QED
    BY <2>1, <2>2, <2>3, Frames DEF TypeOK
<1>7. CASE PumpExit
  <2>1. /\ QueueOK' /\ MapOK' /\ ExitOK' /\ Paused' \in BOOLEAN /\ LockOK'
        /\ RaftOK' /\ CallOK' /\ ApplyOK' /\ crashed' \in BOOLEAN /\ HistOK'
    BY <1>7, Frames DEF PumpExit
  <2>2. PumpOK'
    BY <1>7 DEF TypeOK, PumpOK, PumpExit
  <2> QED
    BY <2>1, <2>2, Frames DEF TypeOK
<1> QED
  BY <1>1, <1>2, <1>3, <1>4, <1>5, <1>6, <1>7

\* The actions of XMQCluster.Apply keep every variable in its type.
LEMMA ApplyActionsType ==
    ASSUME TypeOK, UNCHANGED workload,
           \/ ApplyStart
           \/ ApplyTopicUpdate
           \/ ApplyRefused
           \/ ApplyLock
           \/ ApplyAcquire
           \/ ApplyNewChannel
           \/ ApplyDeleteChannel
           \/ ApplyDeleteTopic
           \/ ApplySelfAnswered
           \/ ApplyExitCancel
           \/ ApplyExitLock
           \/ ApplyExitChannels
           \/ ApplyExitMemory
           \/ ApplyExitBackend
    PROVE  TypeOK'
<1>1. CASE ApplyStart
  <2>1. /\ QueueOK' /\ MapOK' /\ ExitOK' /\ Paused' \in BOOLEAN /\ LockOK'
        /\ RaftOK' /\ CallOK' /\ crashed' \in BOOLEAN /\ HistOK'
    BY <1>1, Frames DEF ApplyStart
  <2>2. PumpOK'
    BY <1>1 DEF TypeOK, PumpOK, ApplyStart
  <2>3. ApplyOK'
    BY <1>1 DEF TypeOK, ApplyOK, ApplyStart
  <2> QED
    BY <2>1, <2>2, <2>3, Frames DEF TypeOK
<1>2. CASE ApplyTopicUpdate
  <2>1. /\ QueueOK' /\ MapOK' /\ LockOK' /\ CallOK' /\ PumpOK' /\ ApplyOK'
        /\ crashed' \in BOOLEAN /\ HistOK'
    BY <1>2, Frames DEF ApplyTopicUpdate
  <2>2. ExitOK'
    BY <1>2, HeadType DEF TypeOK, ExitOK, ApplyTopicUpdate, NextCommand
  <2>3. Paused' \in BOOLEAN
    BY <1>2, HeadType DEF TypeOK, ApplyTopicUpdate, NextCommand
  <2>4. RaftOK'
    BY <1>2, HeadType, RespondType DEF TypeOK, RaftOK, ApplyTopicUpdate,
       NextCommand
  <2> QED
    BY <2>1, <2>2, <2>3, <2>4, Frames DEF TypeOK
<1>3. CASE ApplyRefused
  <2>1. /\ QueueOK' /\ MapOK' /\ ExitOK' /\ Paused' \in BOOLEAN /\ LockOK'
        /\ CallOK' /\ PumpOK' /\ ApplyOK' /\ crashed' \in BOOLEAN /\ HistOK'
    BY <1>3, Frames DEF ApplyRefused
  <2>2. RaftOK'
    BY <1>3, HeadType, RespondType DEF TypeOK, RaftOK, ApplyRefused
  <2> QED
    BY <2>1, <2>2, Frames DEF TypeOK
<1>4. CASE ApplyLock
  <2>1. /\ QueueOK' /\ MapOK' /\ ExitOK' /\ Paused' \in BOOLEAN /\ CallOK'
        /\ PumpOK' /\ crashed' \in BOOLEAN /\ HistOK'
    BY <1>4, Frames DEF ApplyLock
  <2>2. LockOK'
    BY <1>4 DEF TypeOK, LockOK, ApplyLock
  <2>3. RaftOK'
    BY <1>4, HeadType DEF TypeOK, RaftOK, ApplyLock, NextCommand
  <2>4. ApplyOK'
    BY <1>4, HeadType DEF TypeOK, ApplyOK, ApplyLock, NextCommand
  <2> QED
    BY <2>1, <2>2, <2>3, <2>4, Frames DEF TypeOK
<1>5. CASE ApplyAcquire
  <2>1. /\ QueueOK' /\ MapOK' /\ ExitOK' /\ Paused' \in BOOLEAN /\ RaftOK'
        /\ CallOK' /\ PumpOK' /\ crashed' \in BOOLEAN /\ HistOK'
    BY <1>5, Frames DEF ApplyAcquire
  <2>2. LockOK'
    BY <1>5 DEF TypeOK, LockOK, ApplyAcquire
  <2>3. ApplyOK'
    BY <1>5 DEF TypeOK, ApplyOK, ApplyAcquire
  <2> QED
    BY <2>1, <2>2, <2>3, Frames DEF TypeOK
<1>6. CASE ApplyNewChannel
  <2>1. /\ QueueOK' /\ ExitOK' /\ Paused' \in BOOLEAN /\ CallOK' /\ PumpOK'
        /\ HistOK'
    BY <1>6, Frames DEF ApplyNewChannel
  <2>2. MapOK'
    BY <1>6, CommandType DEF TypeOK, MapOK, ApplyNewChannel
  <2>3. LockOK'
    BY <1>6, UnlockType DEF TypeOK, LockOK, ApplyNewChannel
  <2>4. RaftOK'
    BY <1>6, CommandType, RespondType DEF TypeOK, RaftOK, ApplyNewChannel,
       Finished
  <2>5. ApplyOK'
    BY <1>6, EntryTypes DEF TypeOK, ApplyOK, ApplyNewChannel, Finished,
       NoEntry
  <2>6. crashed' \in BOOLEAN
    BY <1>6, UnlockType DEF TypeOK, ApplyNewChannel
  <2> QED
    BY <2>1, <2>2, <2>3, <2>4, <2>5, <2>6, Frames DEF TypeOK
<1>7. CASE ApplyDeleteChannel
  <2>1. /\ QueueOK' /\ ExitOK' /\ Paused' \in BOOLEAN /\ CallOK' /\ PumpOK'
        /\ HistOK'
    BY <1>7, Frames DEF ApplyDeleteChannel
  <2>2. MapOK'
    BY <1>7 DEF TypeOK, MapOK, ApplyDeleteChannel
  <2>3. LockOK'
    BY <1>7, UnlockType DEF TypeOK, LockOK, ApplyDeleteChannel
  <2>4. RaftOK'
    BY <1>7, CommandType, RespondType DEF TypeOK, RaftOK, ApplyDeleteChannel,
       Finished
  <2>5. ApplyOK'
    BY <1>7, EntryTypes DEF TypeOK, ApplyOK, ApplyDeleteChannel, Finished,
       NoEntry
  <2>6. crashed' \in BOOLEAN
    BY <1>7, UnlockType DEF TypeOK, ApplyDeleteChannel
  <2> QED
    BY <2>1, <2>2, <2>3, <2>4, <2>5, <2>6, Frames DEF TypeOK
<1>8. CASE ApplyDeleteTopic
  <2>1. /\ QueueOK' /\ MapOK' /\ Paused' \in BOOLEAN /\ LockOK' /\ CallOK'
        /\ PumpOK' /\ crashed' \in BOOLEAN /\ HistOK'
    BY <1>8, Frames DEF ApplyDeleteTopic
  <2>2. ExitOK'
    BY <1>8 DEF TypeOK, ExitOK, ApplyDeleteTopic
  <2>3. RaftOK'
    <3>1. log # <<>> /\ RaftOK
      BY <1>8 DEF TypeOK, ApplyDeleteTopic, NextCommand
    <3>2. CASE ExitFlag
      BY <1>8, <3>1, <3>2, HeadType, RespondType DEF RaftOK, ApplyDeleteTopic
    <3>3. CASE ~ExitFlag
      <4>1. Entry("ExitFlag", NoName, TRUE, Apply) \in EntryType
        BY EntryTypes
      <4>2. Tail(log) \in Seq(EntryType)
        BY <3>1, HeadType
      <4>3. Append(Tail(log), Entry("ExitFlag", NoName, TRUE, Apply))
              \in Seq(EntryType)
        BY <4>1, <4>2, AppendType
      <4> QED
        BY <1>8, <3>1, <3>3, <4>2, <4>3 DEF RaftOK, ApplyDeleteTopic
    <3> QED
      BY <3>2, <3>3
  <2>4. ApplyOK'
    BY <1>8, HeadType DEF TypeOK, ApplyOK, ApplyDeleteTopic, NextCommand,
       applyVars
  <2> QED
    BY <2>1, <2>2, <2>3, <2>4, Frames DEF TypeOK
<1>9. CASE ApplySelfAnswered
  <2>1. /\ QueueOK' /\ MapOK' /\ ExitOK' /\ Paused' \in BOOLEAN /\ LockOK'
        /\ CallOK' /\ PumpOK' /\ crashed' \in BOOLEAN /\ HistOK'
    BY <1>9, Frames DEF ApplySelfAnswered
  <2>2. RaftOK'
    BY <1>9, AnsweredType DEF TypeOK, RaftOK, ApplySelfAnswered
  <2>3. ApplyOK'
    BY <1>9 DEF TypeOK, ApplyOK, ApplySelfAnswered
  <2> QED
    BY <2>1, <2>2, <2>3, Frames DEF TypeOK
<1>10. CASE ApplyExitCancel
  <2>1. /\ QueueOK' /\ MapOK' /\ Paused' \in BOOLEAN /\ LockOK' /\ RaftOK'
        /\ CallOK' /\ PumpOK' /\ crashed' \in BOOLEAN /\ HistOK'
    BY <1>10, Frames DEF ApplyExitCancel
  <2>2. ExitOK'
    BY <1>10 DEF TypeOK, ExitOK, ApplyExitCancel
  <2>3. ApplyOK'
    BY <1>10 DEF TypeOK, ApplyOK, ApplyExitCancel
  <2> QED
    BY <2>1, <2>2, <2>3, Frames DEF TypeOK
<1>11. CASE ApplyExitLock
  <2>1. /\ QueueOK' /\ MapOK' /\ ExitOK' /\ Paused' \in BOOLEAN /\ RaftOK'
        /\ CallOK' /\ PumpOK' /\ crashed' \in BOOLEAN /\ HistOK'
    BY <1>11, Frames DEF ApplyExitLock
  <2>2. LockOK'
    BY <1>11 DEF TypeOK, LockOK, ApplyExitLock
  <2>3. ApplyOK'
    BY <1>11 DEF TypeOK, ApplyOK, ApplyExitLock
  <2> QED
    BY <2>1, <2>2, <2>3, Frames DEF TypeOK
<1>12. CASE ApplyExitChannels
  <2>1. /\ QueueOK' /\ MapOK' /\ ExitOK' /\ Paused' \in BOOLEAN /\ RaftOK'
        /\ CallOK' /\ PumpOK' /\ HistOK'
    BY <1>12, Frames DEF ApplyExitChannels
  <2>2. LockOK'
    BY <1>12, UnlockType DEF TypeOK, LockOK, ApplyExitChannels
  <2>3. ApplyOK'
    BY <1>12 DEF TypeOK, ApplyOK, ApplyExitChannels
  <2>4. crashed' \in BOOLEAN
    BY <1>12, UnlockType DEF TypeOK, ApplyExitChannels
  <2> QED
    BY <2>1, <2>2, <2>3, <2>4, Frames DEF TypeOK
<1>13. CASE ApplyExitMemory
  <2>1. /\ MapOK' /\ ExitOK' /\ Paused' \in BOOLEAN /\ LockOK' /\ RaftOK'
        /\ CallOK' /\ PumpOK' /\ ApplyOK' /\ crashed' \in BOOLEAN
    BY <1>13, Frames DEF ApplyExitMemory
  <2>2. QueueOK'
    BY <1>13 DEF TypeOK, QueueOK, ApplyExitMemory, DropOne
  <2>3. HistOK'
    BY <1>13 DEF TypeOK, HistOK, ApplyExitMemory, DropOne
  <2> QED
    BY <2>1, <2>2, <2>3, Frames DEF TypeOK
<1>14. CASE ApplyExitBackend
  <2>1. /\ MapOK' /\ Paused' \in BOOLEAN /\ LockOK' /\ CallOK' /\ PumpOK'
        /\ crashed' \in BOOLEAN
    BY <1>14, Frames DEF ApplyExitBackend
  <2>2. QueueOK'
    BY <1>14 DEF TypeOK, QueueOK, ApplyExitBackend
  <2>3. ExitOK'
    BY <1>14 DEF TypeOK, ExitOK, ApplyExitBackend
  <2>4. RaftOK'
    BY <1>14, CommandType, RespondType DEF TypeOK, RaftOK, ApplyExitBackend,
       Finished
  <2>5. ApplyOK'
    BY <1>14, EntryTypes DEF TypeOK, ApplyOK, ApplyExitBackend, Finished,
       NoEntry
  <2>6. HistOK'
    BY <1>14 DEF TypeOK, HistOK, ApplyExitBackend
  <2> QED
    BY <2>1, <2>2, <2>3, <2>4, <2>5, <2>6, Frames DEF TypeOK
<1> QED
  BY <1>1, <1>2, <1>3, <1>4, <1>5, <1>6, <1>7, <1>8, <1>9, <1>10, <1>11,
     <1>12, <1>13, <1>14

\* The actions of Raft keep every variable in its type.
LEMMA RaftActionsType ==
    ASSUME TypeOK, UNCHANGED workload,
           \/ LoseLeadership
           \/ \E i \in DOMAIN log : Abandon(i)
    PROVE  TypeOK'
<1>1. CASE LoseLeadership
  <2>1. /\ QueueOK' /\ MapOK' /\ ExitOK' /\ Paused' \in BOOLEAN /\ LockOK'
        /\ CallOK' /\ PumpOK' /\ ApplyOK' /\ crashed' \in BOOLEAN /\ HistOK'
    BY <1>1, Frames DEF LoseLeadership
  <2>2. RaftOK'
    BY <1>1 DEF TypeOK, RaftOK, LoseLeadership
  <2> QED
    BY <2>1, <2>2, Frames DEF TypeOK
<1>2. ASSUME NEW i \in DOMAIN log, Abandon(i)
     PROVE  TypeOK'
  <2>1. /\ QueueOK' /\ MapOK' /\ ExitOK' /\ Paused' \in BOOLEAN /\ LockOK'
        /\ CallOK' /\ PumpOK' /\ ApplyOK' /\ crashed' \in BOOLEAN /\ HistOK'
    BY <1>2, Frames DEF Abandon
  <2>2. RaftOK'
    BY <1>2, AbandonType DEF TypeOK, RaftOK, Abandon
  <2> QED
    BY <2>1, <2>2, Frames DEF TypeOK
<1> QED
  BY <1>1, <1>2

(***************************************************************************)
(* Type correctness.                                                       *)
(***************************************************************************)

\* The initial state is well typed.
LEMMA TypeInit == Init => TypeOK
<1> SUFFICES ASSUME Init PROVE TypeOK
  OBVIOUS
<1>1. Idle \in CallType /\ Idle.pc \notin NamedLabels
  BY DEF Idle, Call, CallType, CallLabels, NamedLabels, NoChannel, NoName
<1>2. QueueOK /\ MapOK /\ ExitOK /\ LockOK
  BY DEF Init, QueueOK, MapOK, ExitOK, LockOK
<1>3. RaftOK /\ PumpOK
  <2>1. /\ leader \in BOOLEAN /\ log \in Seq(EntryType)
        /\ chans \in Seq(Objects) /\ left \in Seq(Objects)
    BY DEF Init
  <2>2. reply \in [Callers \cup {Apply} -> {"none", "ok", "err"}]
    BY DEF Init
  <2> QED
    BY <2>1, <2>2 DEF Init, RaftOK, PumpOK
<1>4. CallOK
  BY <1>1 DEF Init, CallOK
<1>5. ApplyOK /\ HistOK
  BY EntryTypes DEF Init, ApplyOK, HistOK
<1> QED
  BY <1>2, <1>3, <1>4, <1>5 DEF Init, TypeOK

\* Every step keeps TypeOK.
LEMMA TypeStep == TypeOK /\ [Next]_vars => TypeOK'
<1> SUFFICES ASSUME TypeOK, [Next]_vars PROVE TypeOK'
  OBVIOUS
<1>1. ASSUME UNCHANGED workload, NEW c \in Callers,
             CallerCalls(c) \/ CallerGoesOn(c)
      PROVE  TypeOK'
  BY <1>1, PutActionsType, ChannelActionsType, AdminActionsType,
     CloseActionsType DEF CallerCalls, CallerGoesOn
<1>2. ASSUME UNCHANGED workload, PumpStep PROVE TypeOK'
  BY <1>2, PumpActionsType DEF PumpStep
<1>3. ASSUME UNCHANGED workload, ApplyStep PROVE TypeOK'
  BY <1>3, ApplyActionsType DEF ApplyStep
<1>4. ASSUME UNCHANGED workload, RaftStep PROVE TypeOK'
  BY <1>4, RaftActionsType DEF RaftStep
<1>5. CASE UNCHANGED vars
  BY <1>5, Frames DEF vars, TypeOK
<1> QED
  BY <1>1, <1>2, <1>3, <1>4, <1>5 DEF Next

\* Every variable of the topic keeps its type; in particular a call that works
\* on a channel has its name, and a command names a channel exactly if it needs
\* one.
THEOREM TopicTypeCorrect == Spec => []TypeOK
BY TypeInit, TypeStep, PTL DEF Spec

(***************************************************************************)
(* What a step of a caller does to its own place, to the log and to the    *)
(* pump.                                                                   *)
(***************************************************************************)

WaitLabels == {"updateWait", "getWait", "deleteWait", "pauseWait", "topicWait"}

PauseLabels == {"pauseUpdate", "pauseWait", "pauseNotify"}

\* Caller c goes to a label, the others stay where they are.
Moves(c, l) ==
    \A d \in Callers : call'[d].pc = IF d = c THEN l ELSE call[d].pc

\* The pump goes on, or receives a pause or a channel update.
PumpServes ==
    /\ UNCHANGED <<chans, reading>>
    /\ pumpPC' = pumpPC \/ (pumpPC \in {"starting", "select"}
                              /\ pumpPC' \in {"starting", "reload", "repause"})

\* Close is not called on the leader and goes on to the channels only after
\* the pump is gone; a pause ends when the pump has received it, or when the
\* topic exits.
Orderly(c, l) ==
    /\ l = "closeCancel" => ~leader
    /\ l \in {"closeChannels", "closeFlush"} =>
          call[c].pc \in {"closeChannels", "closeFlush"} \/ pumpPC = "exited"
    /\ call[c].pc \in PauseLabels =>
          l \in PauseLabels \/ pumpPC' \notin {"select", "deliver"} \/ ctxDone

\* The ways to assign to call: a label, ...
LEMMA MovesGoto ==
    ASSUME CallOK, NEW c \in Callers, NEW l, Goto(c, l) PROVE Moves(c, l)
BY DEF CallOK, CallType, Goto, Moves

\* ... a return, ...
LEMMA MovesReturn ==
    ASSUME CallOK, NEW c \in Callers, Return(c) PROVE Moves(c, "idle")
BY DEF CallOK, CallType, Return, Moves, Idle, Call

\* ... or a new call.
LEMMA MovesCall ==
    ASSUME CallOK, NEW c \in Callers, NEW l, NEW op, NEW chan, NEW ms,
           call' = [call EXCEPT ![c] = Call(l, op, chan, ms)]
    PROVE  Moves(c, l)
BY DEF CallOK, Moves, Call

\* A step of a caller that leaves the log alone.
QuietCaller(c) ==
    /\ UNCHANGED raftVars
    /\ call[c].pc \notin WaitLabels
    /\ \E l : l \notin WaitLabels /\ Moves(c, l) /\ Orderly(c, l)

\* A caller submits a command and waits for it, ...
Submits(c) ==
    /\ call[c].pc \notin WaitLabels
    /\ \E cmd, name, val, l :
          /\ Submitted(cmd, name, val, c) /\ Moves(c, l) /\ Orderly(c, l)
          /\ l \in WaitLabels /\ (cmd = "Paused" <=> l = "pauseWait")

\* ... submits one and does not wait, ...
Posts(c) ==
    /\ call[c].pc = "notifyLast" /\ Moves(c, "idle")
    /\ Submitted("DeleteTopic", NoName, FALSE, Nobody)

\* ... or is answered.
HasAnswer(c) ==
    /\ call[c].pc \in WaitLabels /\ Answered(c)
    /\ \E l : l \notin WaitLabels /\ Moves(c, l) /\ Orderly(c, l)

\* How a step shows itself as the first ...
LEMMA ItIsQuiet ==
    ASSUME NEW c, UNCHANGED raftVars, call[c].pc \notin WaitLabels,
           NEW l, l \notin WaitLabels, Moves(c, l), Orderly(c, l)
    PROVE  QuietCaller(c)
BY DEF QuietCaller

\* ... or as the second.
LEMMA ItSubmits ==
    ASSUME NEW c, call[c].pc \notin WaitLabels, NEW cmd, NEW name, NEW val,
           NEW l \in WaitLabels, Submitted(cmd, name, val, c), Moves(c, l),
           cmd = "Paused" <=> l = "pauseWait", Orderly(c, l)
    PROVE  Submits(c)
BY DEF Submits

\* Publishers.
LEMMA PutMoves ==
    ASSUME TypeOK, NEW c \in Callers,
           \/ \E op \in {"PutMessage", "PutMessages"}, ms \in SUBSET Msgs :
                 CallPut(c, op, ms)
           \/ \E m \in Msgs : Put(c, m)
           \/ PutFails(c) \/ PutUpdate(c) \/ PutUpdated(c) \/ PutReturns(c)
    PROVE  QuietCaller(c) \/ Submits(c) \/ HasAnswer(c)
<1> USE DEF WaitLabels, Orderly, PauseLabels
<1>0. CallOK
  BY DEF TypeOK
<1>1. ASSUME NEW op, NEW ms, CallPut(c, op, ms) PROVE QuietCaller(c)
  BY <1>0, <1>1, MovesCall DEF CallPut, QuietCaller
<1>2. ASSUME NEW m \in Msgs, Put(c, m) PROVE QuietCaller(c)
  <2>1. \E l \in {"put", "update"} : Moves(c, l)
    BY <1>0, <1>2 DEF Put, CallOK, CallType, Moves
  <2> QED
    BY <1>2, <2>1 DEF Put, QuietCaller
<1>3. CASE PutFails(c)
  <2>1. CASE call[c].op = "PutMessage"
    BY <1>0, <1>3, <2>1, MovesReturn DEF PutFails, QuietCaller
  <2>2. CASE call[c].op # "PutMessage"
    <3>1. Moves(c, "update")
      BY <1>0, <1>3, <2>2 DEF PutFails, CallOK, CallType, Moves
    <3> QED
      BY <1>3, <3>1 DEF PutFails, QuietCaller
  <2> QED
    BY <2>1, <2>2
<1>4. CASE PutUpdate(c)
  <2>1. ASSUME call' = [call EXCEPT ![c].todo = @ - 1, ![c].pc = "updateWait"]
        PROVE  Moves(c, "updateWait")
    BY <1>0, <2>1 DEF CallOK, CallType, Moves
  <2>2. ASSUME call' = [call EXCEPT ![c].todo = @ - 1]
        PROVE  Moves(c, "update")
    BY <1>0, <1>4, <2>2 DEF CallOK, CallType, Moves, PutUpdate
  <2>3. CASE Submitted("Count", NoName, FALSE, c)
    <3>1. Moves(c, "updateWait")
      BY <1>4, <2>1, <2>3 DEF PutUpdate, Submitted, Refused
    <3> QED
      BY <1>4, <2>3, <3>1, ItSubmits DEF PutUpdate
  <2>4. CASE Refused
    BY <1>4, <2>2, <2>4 DEF PutUpdate, QuietCaller, Submitted, Refused
  <2> QED
    BY <1>4, <2>3, <2>4 DEF PutUpdate
<1>5. CASE PutUpdated(c)
  BY <1>0, <1>5, MovesGoto DEF PutUpdated, HasAnswer
<1>6. CASE PutReturns(c)
  BY <1>0, <1>6, MovesReturn DEF PutReturns, QuietCaller
<1> QED
  BY <1>1, <1>2, <1>3, <1>4, <1>5, <1>6

\* GetChannel and DeleteExistingChannel.
LEMMA ChannelMoves ==
    ASSUME TypeOK, NEW c \in Callers,
           \/ \E n \in workload.names :
                 CallGetChannel(c, n) \/ CallDeleteChannel(c, n)
           \/ GetApply(c) \/ GetAnswered(c) \/ GetCheck(c) \/ GetRead(c)
           \/ DeleteAnswered(c) \/ DeleteUnlock(c)
           \/ NotifyChannel(c) \/ NotifyLast(c)
    PROVE  QuietCaller(c) \/ Submits(c) \/ Posts(c) \/ HasAnswer(c)
<1> USE DEF WaitLabels, Orderly, PauseLabels
<1>0. CallOK
  BY DEF TypeOK
<1>1. ASSUME NEW n, CallGetChannel(c, n) PROVE QuietCaller(c)
  <2>1. PICK l \in {"getRead", "getApply"} :
            call' = [call EXCEPT ![c] = Call(l, "GetChannel", <<n, 0>>, {})]
    BY <1>1 DEF CallGetChannel
  <2>2. Moves(c, l)
    BY <1>0, <2>1, MovesCall
  <2>3. UNCHANGED raftVars /\ call[c].pc = "idle" /\ l \notin WaitLabels
    BY <1>1 DEF CallGetChannel
  <2> QED
    BY <2>2, <2>3, ItIsQuiet
<1>2. ASSUME NEW n, CallDeleteChannel(c, n) PROVE Submits(c)
  <2>1. Moves(c, "deleteWait")
    BY <1>0, <1>2, MovesCall DEF CallDeleteChannel
  <2> QED
    BY <1>2, <2>1, ItSubmits DEF CallDeleteChannel
<1>3. CASE GetApply(c)
  <2>1. CASE Submitted("NewChannel", call[c].chan[1], FALSE, c)
    <3>1. Moves(c, "getWait")
      BY <1>0, <1>3, <2>1, MovesGoto DEF GetApply, Submitted, Refused
    <3> QED
      BY <1>3, <2>1, <3>1, ItSubmits DEF GetApply
  <2>2. CASE Refused
    BY <1>0, <1>3, <2>2, MovesGoto
    DEF GetApply, QuietCaller, Submitted, Refused
  <2> QED
    BY <1>3, <2>1, <2>2 DEF GetApply
<1>4. CASE GetAnswered(c)
  BY <1>0, <1>4, MovesGoto DEF GetAnswered, HasAnswer
<1>5. CASE GetCheck(c)
  BY <1>0, <1>5, MovesGoto DEF GetCheck, QuietCaller
<1>6. CASE GetRead(c)
  <2>1. Moves(c, "notify")
    BY <1>0, <1>6 DEF GetRead, CallOK, CallType, Moves
  <2> QED
    BY <1>6, <2>1 DEF GetRead, QuietCaller
<1>7. CASE DeleteAnswered(c)
  BY <1>0, <1>7, MovesGoto, MovesReturn DEF DeleteAnswered, HasAnswer
<1>8. CASE DeleteUnlock(c)
  BY <1>0, <1>8, MovesGoto DEF DeleteUnlock, QuietCaller
<1>9. CASE NotifyChannel(c)
  BY <1>0, <1>9, MovesReturn DEF NotifyChannel, QuietCaller
<1>10. CASE NotifyLast(c)
  BY <1>0, <1>10, MovesReturn DEF NotifyLast, QuietCaller, Posts, Refused
<1> QED
  BY <1>1, <1>2, <1>3, <1>4, <1>5, <1>6, <1>7, <1>8, <1>9, <1>10

\* Pause, UnPause, Empty, DeleteExistingTopic and Close.
LEMMA AdminMoves ==
    ASSUME TypeOK, NEW c \in Callers,
           \/ \E op \in {"Pause", "UnPause"} : CallPause(c, op)
           \/ PauseUpdate(c) \/ PauseUpdated(c) \/ PauseNotify(c)
           \/ CallEmpty(c) \/ EmptyMemory(c) \/ EmptyBackend(c)
           \/ CallDeleteTopic(c) \/ DeleteTopicAnswered(c)
           \/ CallClose(c) \/ CloseCancel(c) \/ CloseWait(c)
           \/ CloseChannels(c) \/ CloseFlush(c) \/ CloseBackend(c)
    PROVE  QuietCaller(c) \/ Submits(c) \/ HasAnswer(c)
<1> USE DEF WaitLabels, Orderly, PauseLabels
<1>0. CallOK
  BY DEF TypeOK
<1>1. ASSUME NEW op, CallPause(c, op) PROVE QuietCaller(c)
  BY <1>0, <1>1, MovesCall DEF CallPause, QuietCaller
<1>2. CASE PauseUpdate(c)
  <2>1. CASE Submitted("Paused", NoName, Paused, c)
    <3>1. Moves(c, "pauseWait")
      BY <1>0, <1>2, <2>1, MovesGoto DEF PauseUpdate, Submitted, Refused
    <3> QED
      BY <1>2, <2>1, <3>1, ItSubmits DEF PauseUpdate
  <2>2. CASE Refused
    BY <1>0, <1>2, <2>2, MovesGoto
    DEF PauseUpdate, QuietCaller, Submitted, Refused
  <2> QED
    BY <1>2, <2>1, <2>2 DEF PauseUpdate
<1>3. CASE PauseUpdated(c)
  BY <1>0, <1>3, MovesGoto DEF PauseUpdated, HasAnswer
<1>4. CASE PauseNotify(c)
  <2>1. Moves(c, "idle")
    BY <1>0, <1>4, MovesReturn DEF PauseNotify
  <2>2. pumpPC' \notin {"select", "deliver"} \/ ctxDone
    BY <1>4 DEF PauseNotify, PauseNotified, PumpReceives, TopicExited
  <2> QED
    BY <1>4, <2>1, <2>2, ItIsQuiet DEF PauseNotify
<1>5. CASE CallEmpty(c)
  BY <1>0, <1>5, MovesCall DEF CallEmpty, QuietCaller
<1>6. CASE EmptyMemory(c) \/ CloseFlush(c)
  <2>1. Moves(c, call[c].pc)
    BY <1>6 DEF EmptyMemory, CloseFlush, Moves
  <2> QED
    BY <1>6, <2>1 DEF EmptyMemory, CloseFlush, QuietCaller
<1>7. CASE EmptyBackend(c) \/ CloseBackend(c)
  BY <1>0, <1>7, MovesReturn DEF EmptyBackend, CloseBackend, QuietCaller
<1>8. CASE CallDeleteTopic(c)
  <2>1. Moves(c, "topicWait")
    BY <1>0, <1>8, MovesCall DEF CallDeleteTopic
  <2> QED
    BY <1>8, <2>1, ItSubmits DEF CallDeleteTopic
<1>9. CASE DeleteTopicAnswered(c)
  BY <1>0, <1>9, MovesReturn DEF DeleteTopicAnswered, HasAnswer
<1>10. CASE CallClose(c)
  BY <1>0, <1>10, MovesCall DEF CallClose, QuietCaller
<1>11. CASE CloseCancel(c) \/ CloseWait(c) \/ CloseChannels(c)
  BY <1>0, <1>11, MovesGoto
  DEF CloseCancel, CloseWait, CloseChannels, PumpGone, QuietCaller
<1> QED
  BY <1>1, <1>2, <1>3, <1>4, <1>5, <1>6, <1>7, <1>8, <1>9, <1>10, <1>11

\* Every step of a caller is one of the four, and none of the goroutine that
\* applies the log.
LEMMA CallerMoves ==
    ASSUME TypeOK, NEW c \in Callers, CallerCalls(c) \/ CallerGoesOn(c)
    PROVE  /\ QuietCaller(c) \/ Submits(c) \/ Posts(c) \/ HasAnswer(c)
           /\ UNCHANGED applyVars
<1>1. QuietCaller(c) \/ Submits(c) \/ Posts(c) \/ HasAnswer(c)
  BY PutMoves, ChannelMoves, AdminMoves DEF CallerCalls, CallerGoesOn
<1>2. CASE CallerCalls(c)
  BY <1>1, <1>2 DEF CallerCalls, CallPut, CallGetChannel, CallDeleteChannel,
     CallPause, CallEmpty, CallDeleteTopic, CallClose, applyVars
<1>3. CASE CallerGoesOn(c)
  BY <1>1, <1>3 DEF CallerGoesOn, Put, PutFails, PutUpdate, PutUpdated, PutReturns,
     GetApply, GetAnswered, GetCheck, GetRead, DeleteAnswered, DeleteUnlock,
     NotifyChannel, NotifyLast, PauseUpdate, PauseUpdated, PauseNotify,
     EmptyMemory, EmptyBackend, DeleteTopicAnswered, CloseCancel, CloseWait,
     CloseChannels, CloseFlush, CloseBackend, applyVars
<1> QED
  BY <1>1, <1>2, <1>3

(***************************************************************************)
(* Commands and answers.  Every command of the log that somebody waits for *)
(* has a goroutine of its own that does, and that was not answered yet.    *)
(***************************************************************************)

Goroutines == Callers \cup {Apply}

\* The goroutines that wait for an answer.
Waiting == {c \in Callers : call[c].pc \in WaitLabels}
              \cup (IF applyPC = "selfWait" THEN {Apply} ELSE {})

Unanswered(g) == g \in Waiting /\ reply[g] = "none"

AskedInv ==
    /\ \A g \in Goroutines : g \notin Waiting => reply[g] = "none"
    /\ \A i \in 1..Len(log) : log[i].from # Nobody => Unanswered(log[i].from)
    /\ \A i, j \in 1..Len(log) :
          log[i].from = log[j].from /\ log[i].from # Nobody => i = j
    /\ command.from # Nobody => command.from # Apply /\ Unanswered(command.from)
    /\ \A i \in 1..Len(log) :
          log[i].from = command.from => command.from = Nobody

\* Who may be named in a command.
LEMMA Named ==
    ASSUME TypeOK
    PROVE  /\ Apply \notin Callers /\ Nobody \notin Goroutines
           /\ Len(log) \in Nat /\ Waiting \subseteq Goroutines
           /\ command.from \in Goroutines \cup {Nobody}
           /\ reply \in [Goroutines -> {"none", "ok", "err"}]
           /\ \A i \in 1..Len(log) :
                 log[i] \in EntryType /\ log[i].from \in Goroutines \cup {Nobody}
<1>1. Apply \notin Callers /\ Nobody \notin Goroutines
  BY TopicAssumption DEF Goroutines
<1>2. log \in Seq(EntryType) /\ reply \in [Goroutines -> {"none", "ok", "err"}]
  BY DEF TypeOK, RaftOK, Goroutines
<1>3. command.from \in Goroutines \cup {Nobody}
  BY CommandType DEF TypeOK, Goroutines
<1>4. ASSUME NEW i \in 1..Len(log)
      PROVE  log[i] \in EntryType /\ log[i].from \in Goroutines \cup {Nobody}
  <2>1. log[i] \in EntryType
    BY <1>2
  <2> QED
    BY <2>1, EntryFields DEF Goroutines
<1>5. Waiting \subseteq Goroutines
  BY DEF Waiting, Goroutines
<1> QED
  BY <1>1, <1>2, <1>3, <1>4, <1>5

\* How a step of a caller changes who waits.
LEMMA CallerWaits ==
    ASSUME NEW c \in Callers, NEW l, Moves(c, l), UNCHANGED applyPC,
           Apply \notin Callers
    PROVE  Waiting' = IF l \in WaitLabels THEN Waiting \cup {c}
                                          ELSE Waiting \ {c}
<1>1. \A d \in Callers :
          call'[d].pc \in WaitLabels <=>
              IF d = c THEN l \in WaitLabels ELSE call[d].pc \in WaitLabels
  BY DEF Moves
<1>2. c # Apply
  OBVIOUS
<1> QED
  BY <1>1, <1>2 DEF Waiting

\* Nothing is asked or answered.
LEMMA AskedSame ==
    ASSUME AskedInv, Waiting' = Waiting, UNCHANGED <<reply, log, command>>
    PROVE  AskedInv'
BY DEF AskedInv, Unanswered, Goroutines

\* A goroutine submits a command and waits, or nobody waits for it.
LEMMA AskedSubmit ==
    ASSUME TypeOK, AskedInv, NEW e, log' = Append(log, e),
           UNCHANGED <<reply, command>>, e.from \in Goroutines \cup {Nobody},
           \/ e.from = Nobody /\ Waiting' = Waiting
           \/ /\ e.from \in Goroutines \ Waiting
              /\ Waiting' = Waiting \cup {e.from}
    PROVE  AskedInv'
<1> DEFINE n == Len(log)
<1>1. /\ Len(log') = n + 1 /\ n \in Nat
      /\ \A i \in 1..n : log'[i] = log[i]
      /\ log'[n + 1] = e
  BY Named DEF TypeOK, RaftOK
<1>2. Nobody \notin Goroutines
  BY Named
<1>3. \A g : Unanswered(g) => g \in Waiting' /\ reply'[g] = "none"
  BY DEF Unanswered
<1>4. e.from # Nobody => /\ e.from \in Waiting' /\ reply'[e.from] = "none"
                         /\ ~Unanswered(e.from)
  BY <1>2 DEF AskedInv, Unanswered
<1>5. \A i \in 1..n : log'[i].from # Nobody =>
          Unanswered(log'[i].from) /\ log'[i].from # e.from
  BY <1>1, <1>4 DEF AskedInv
<1>6. \A g \in Goroutines : g \notin Waiting' => reply'[g] = "none"
  BY DEF AskedInv
<1>7. \A i \in 1..(n + 1) : log'[i].from # Nobody =>
          log'[i].from \in Waiting' /\ reply'[log'[i].from] = "none"
  BY <1>1, <1>3, <1>4, <1>5
<1>8. ASSUME NEW i \in 1..(n + 1), NEW j \in 1..(n + 1),
             log'[i].from = log'[j].from, log'[i].from # Nobody
      PROVE  i = j
  <2>1. CASE i \in 1..n /\ j \in 1..n
    BY <1>1, <1>8, <2>1 DEF AskedInv
  <2>2. CASE ~(i \in 1..n /\ j \in 1..n)
    BY <1>1, <1>5, <1>8, <2>2
  <2> QED
    BY <2>1, <2>2
<1>9. command'.from # Nobody => command'.from # Apply /\ Unanswered(command.from)
  BY DEF AskedInv
<1>10. ASSUME NEW i \in 1..(n + 1), log'[i].from = command'.from,
              command'.from # Nobody
       PROVE  FALSE
  <2>1. Unanswered(command.from) /\ command.from # e.from
    BY <1>4, <1>9, <1>10
  <2> QED
    BY <1>1, <1>10, <2>1 DEF AskedInv
<1>11. command'.from # Nobody =>
          command'.from \in Waiting' /\ reply'[command'.from] = "none"
  BY <1>3, <1>9
<1> QED
  BY <1>1, <1>6, <1>7, <1>8, <1>9, <1>10, <1>11 DEF AskedInv, Goroutines, Unanswered

\* A goroutine takes its answer: no command of it is left.
LEMMA AskedAnswer ==
    ASSUME TypeOK, AskedInv, NEW g \in Goroutines, Answered(g),
           Waiting' = Waiting \ {g}, UNCHANGED command
    PROVE  AskedInv'
<1>1. /\ reply[g] # "none" /\ log' = log
      /\ \A h \in Goroutines : reply'[h] = IF h = g THEN "none" ELSE reply[h]
  BY Named DEF Answered
<1>2. \A h \in Goroutines : Unanswered(h) => Unanswered(h)'
  BY <1>1 DEF Unanswered
<1> QED
  BY <1>1, <1>2, Named DEF AskedInv, Goroutines

\* Commands leave the log, and whoever waited for one that no goroutine waits
\* for any longer was answered.
LEMMA AskedLess ==
    ASSUME TypeOK, AskedInv, NEW f, Waiting' = Waiting,
           Len(log') \in Nat,
           \A i \in 1..Len(log') :
              f[i] \in 1..Len(log) /\ log'[i].from \in {log[f[i]].from, Nobody},
           \A i, j \in 1..Len(log') : f[i] = f[j] => i = j,
           command'.from # Nobody =>
              /\ command'.from \in Goroutines /\ command'.from # Apply
              /\ Unanswered(command'.from)
              /\ \A i \in 1..Len(log') : log'[i].from # command'.from,
           \A g \in Goroutines : Unanswered(g) =>
              \/ reply'[g] = reply[g]
              \/ /\ g # command'.from
                 /\ \A i \in 1..Len(log') : log'[i].from # g,
           \A g \in Goroutines : ~Unanswered(g) => reply'[g] = reply[g]
    PROVE  AskedInv'
<1>1. Nobody \notin Goroutines
  BY Named
<1>2. \A g \in Goroutines : g \notin Waiting' => reply'[g] = "none"
  BY DEF AskedInv, Unanswered
<1>3. ASSUME NEW i \in 1..Len(log'), log'[i].from # Nobody
      PROVE  /\ log'[i].from \in Goroutines /\ log'[i].from = log[f[i]].from
             /\ log'[i].from \in Waiting' /\ reply'[log'[i].from] = "none"
  <2>1. f[i] \in 1..Len(log) /\ log'[i].from = log[f[i]].from
    BY <1>3
  <2>2. log[f[i]].from \in Goroutines /\ Unanswered(log[f[i]].from)
    BY <1>3, <2>1, Named DEF AskedInv
  <2> QED
    BY <1>3, <2>1, <2>2 DEF Unanswered
<1>4. ASSUME NEW i \in 1..Len(log'), NEW j \in 1..Len(log'),
             log'[i].from = log'[j].from, log'[i].from # Nobody
      PROVE  i = j
  <2>1. f[i] \in 1..Len(log) /\ f[j] \in 1..Len(log)
    OBVIOUS
  <2>2. log[f[i]].from = log[f[j]].from /\ log[f[i]].from # Nobody
    BY <1>3, <1>4
  <2>3. f[i] = f[j]
    BY <2>1, <2>2 DEF AskedInv
  <2> QED
    BY <2>3
<1>5. command'.from # Nobody =>
         /\ command'.from # Apply
         /\ command'.from \in Waiting' /\ reply'[command'.from] = "none"
  BY DEF Unanswered
<1> QED
  BY <1>2, <1>3, <1>4, <1>5 DEF AskedInv, Unanswered, Goroutines

\* Taking the head off the log.
LEMMA LogTail ==
    ASSUME TypeOK, log # <<>>
    PROVE  /\ Len(log) \in Nat /\ Len(log) >= 1 /\ Head(log) = log[1]
           /\ Len(Tail(log)) = Len(log) - 1
           /\ \A i \in 1..(Len(log) - 1) : Tail(log)[i] = log[i + 1]
           /\ Tail(log) \in Seq(EntryType)
BY DEF TypeOK, RaftOK

\* The goroutine that applies the log asks for something, takes a command or
\* answers one.
LEMMA ApplyAsked ==
    ASSUME TypeOK, AskedInv, ApplyStep
    PROVE  AskedInv'
<1>0. /\ TypeOK /\ Apply \notin Callers /\ Nobody \notin Goroutines
      /\ Apply \in Goroutines
  BY Named DEF Goroutines
<1>1. ASSUME UNCHANGED call, applyPC = "selfWait" <=> applyPC' = "selfWait"
      PROVE  Waiting' = Waiting
  BY <1>1 DEF Waiting
<1>2. ASSUME NEW what, log # <<>>, log' = Tail(log),
             Respond(Head(log).from, what), UNCHANGED <<command, applyPC, call>>
      PROVE  AskedInv'
  <2> DEFINE f == [i \in 1..Len(log') |-> i + 1]
  <2>1. Waiting' = Waiting
    BY <1>1, <1>2
  <2>2. /\ Len(log') \in Nat
        /\ \A i \in 1..Len(log') : /\ f[i] \in 1..Len(log) /\ f[i] # 1
                                   /\ log'[i] = log[f[i]]
        /\ \A i, j \in 1..Len(log') : f[i] = f[j] => i = j
        /\ 1 \in 1..Len(log) /\ Head(log) = log[1]
    BY <1>2, LogTail
  <2>3. /\ command'.from # Nobody =>
              /\ command'.from \in Goroutines /\ command'.from # Apply
              /\ Unanswered(command'.from)
        /\ command'.from # Nobody =>
              \A i \in 1..Len(log) : log[i].from # command'.from
    BY <1>2, Named DEF AskedInv
  <2>4. \A g \in Goroutines : g # log[1].from => reply'[g] = reply[g]
    BY <1>2, <2>2, Named DEF Respond
  <2>5. log[1].from # Nobody => Unanswered(log[1].from)
    BY <2>2 DEF AskedInv
  <2>6. ASSUME log[1].from # Nobody
        PROVE  /\ log[1].from # command'.from
               /\ \A i \in 1..Len(log') : log'[i].from # log[1].from
    BY <2>2, <2>3, <2>6 DEF AskedInv
  <2>7. \A g \in Goroutines : ~Unanswered(g) => reply'[g] = reply[g]
    BY <1>0, <2>4, <2>5
  <2>8. \A g \in Goroutines : Unanswered(g) =>
            \/ reply'[g] = reply[g]
            \/ /\ g # command'.from
               /\ \A i \in 1..Len(log') : log'[i].from # g
    BY <1>0, <2>4, <2>6
  <2>9. \A i \in 1..Len(log') :
            f[i] \in 1..Len(log) /\ log'[i].from \in {log[f[i]].from, Nobody}
    BY <2>2
  <2>10. command'.from # Nobody =>
              /\ command'.from \in Goroutines /\ command'.from # Apply
              /\ Unanswered(command'.from)
              /\ \A i \in 1..Len(log') : log'[i].from # command'.from
    BY <2>2, <2>3
  <2>11. Len(log') \in Nat /\ \A i, j \in 1..Len(log') : f[i] = f[j] => i = j
    BY <2>2
  <2> HIDE DEF f
  <2> QED
    BY <1>0, <2>1, <2>7, <2>8, <2>9, <2>10, <2>11, AskedLess
<1>3. ASSUME applyPC = "idle", log # <<>>, log' = Tail(log),
             command' = Head(log), applyPC' # "selfWait", UNCHANGED <<reply, call>>
      PROVE  AskedInv'
  <2> DEFINE f == [i \in 1..Len(log') |-> i + 1]
  <2>1. Waiting' = Waiting /\ Apply \notin Waiting
    BY <1>0, <1>1, <1>3 DEF Waiting
  <2>2. /\ Len(log') \in Nat
        /\ \A i \in 1..Len(log') : /\ f[i] \in 1..Len(log) /\ f[i] # 1
                                   /\ log'[i] = log[f[i]]
        /\ \A i, j \in 1..Len(log') : f[i] = f[j] => i = j
        /\ 1 \in 1..Len(log) /\ command' = log[1]
    BY <1>3, LogTail
  <2>3. log[1].from # Nobody =>
            /\ log[1].from \in Goroutines /\ Unanswered(log[1].from)
            /\ \A i \in 1..Len(log') : log'[i].from # log[1].from
    BY <2>2, Named DEF AskedInv
  <2>4. command'.from # Nobody =>
              /\ command'.from \in Goroutines /\ command'.from # Apply
              /\ Unanswered(command'.from)
              /\ \A i \in 1..Len(log') : log'[i].from # command'.from
    BY <2>1, <2>2, <2>3 DEF Unanswered
  <2>5. \A i \in 1..Len(log') :
            f[i] \in 1..Len(log) /\ log'[i].from \in {log[f[i]].from, Nobody}
    BY <2>2
  <2>6. \A g \in Goroutines : reply'[g] = reply[g]
    BY <1>3
  <2>7. Len(log') \in Nat /\ \A i, j \in 1..Len(log') : f[i] = f[j] => i = j
    BY <2>2
  <2> HIDE DEF f
  <2> QED
    BY <1>0, <2>1, <2>4, <2>5, <2>6, <2>7, AskedLess
<1>4. ASSUME NEW what, Finished(what), applyPC # "selfWait",
             UNCHANGED <<log, call>>
      PROVE  AskedInv'
  <2> DEFINE f == [i \in 1..Len(log') |-> i]
  <2>1. Waiting' = Waiting /\ command'.from = Nobody
    BY <1>1, <1>4 DEF Finished, NoEntry, Entry
  <2>2. /\ Len(log') \in Nat
        /\ \A i \in 1..Len(log') : f[i] \in 1..Len(log) /\ log'[i] = log[f[i]]
        /\ \A i, j \in 1..Len(log') : f[i] = f[j] => i = j
    BY <1>4, Named
  <2>3. \A g \in Goroutines : g # command.from => reply'[g] = reply[g]
    BY <1>4, Named DEF Finished, Respond
  <2>4. command.from # Nobody =>
            /\ Unanswered(command.from)
            /\ \A i \in 1..Len(log') : log'[i].from # command.from
    BY <1>4 DEF AskedInv
  <2>5. \A g \in Goroutines : ~Unanswered(g) => reply'[g] = reply[g]
    BY <1>0, <2>3, <2>4
  <2>6. \A g \in Goroutines : Unanswered(g) =>
            \/ reply'[g] = reply[g]
            \/ /\ g # command'.from
               /\ \A i \in 1..Len(log') : log'[i].from # g
    BY <1>0, <2>1, <2>3, <2>4
  <2>7. \A i \in 1..Len(log') :
            f[i] \in 1..Len(log) /\ log'[i].from \in {log[f[i]].from, Nobody}
    BY <2>2
  <2>8. Len(log') \in Nat /\ \A i, j \in 1..Len(log') : f[i] = f[j] => i = j
    BY <2>2
  <2> HIDE DEF f
  <2> QED
    BY <1>0, <2>1, <2>5, <2>6, <2>7, <2>8, AskedLess
<1>5. ASSUME UNCHANGED <<raftVars, command, call>>,
             applyPC # "selfWait", applyPC' # "selfWait"
      PROVE  AskedInv'
  BY <1>1, <1>5, AskedSame DEF raftVars
<1>6. ASSUME applyPC = "idle", log # <<>>, applyPC' = "selfWait",
             log' = Append(Tail(log), Entry("ExitFlag", NoName, TRUE, Apply)),
             command' = Head(log), UNCHANGED <<reply, call>>
      PROVE  AskedInv'
  <2> DEFINE n == Len(log)
  <2>1. Waiting' = Waiting \cup {Apply} /\ Apply \notin Waiting
    BY <1>0, <1>6 DEF Waiting
  <2>2. /\ n \in Nat \ {0} /\ Len(log') = n /\ command' = log[1]
        /\ \A i \in 1..(n - 1) : log'[i] = log[i + 1] /\ i + 1 \in 1..n
        /\ log'[n].from = Apply /\ 1 \in 1..n
    BY <1>6, LogTail DEF Entry
  <2>3. \A i \in 1..n : log[i].from # Apply
    BY <1>0, <2>1 DEF AskedInv, Unanswered
  <2>4. \A g \in Goroutines : g \notin Waiting' => reply'[g] = "none"
    BY <1>6, <2>1 DEF AskedInv
  <2>5. \A i \in 1..n : log'[i].from # Nobody =>
            log'[i].from \in Waiting' /\ reply'[log'[i].from] = "none"
    <3>1. \A i \in 1..(n - 1) : log'[i].from # Nobody => Unanswered(log'[i].from)
      BY <2>2 DEF AskedInv
    <3>2. reply'[Apply] = "none" /\ Apply \in Waiting'
      BY <1>0, <1>6, <2>1 DEF AskedInv
    <3>3. \A i \in 1..n : i \in 1..(n - 1) \/ i = n
      BY <2>2
    <3>4. \A i \in 1..(n - 1) : log'[i].from # Nobody =>
              log'[i].from \in Waiting' /\ reply'[log'[i].from] = "none"
      BY <1>6, <2>1, <3>1 DEF Unanswered
    <3> QED
      BY <2>2, <3>2, <3>3, <3>4
  <2>6. ASSUME NEW i \in 1..n, NEW j \in 1..n,
               log'[i].from = log'[j].from, log'[i].from # Nobody
        PROVE  i = j
    <3>1. CASE i # n /\ j # n
      <4>1. /\ i + 1 \in 1..n /\ j + 1 \in 1..n
            /\ log[i + 1].from = log[j + 1].from /\ log[i + 1].from # Nobody
        BY <2>2, <2>6, <3>1
      <4> QED
        BY <2>2, <4>1 DEF AskedInv
    <3>2. CASE i = n \/ j = n
      <4>1. \A k \in 1..n : k # n => log'[k].from # Apply
        BY <2>2, <2>3
      <4> QED
        BY <2>2, <2>6, <3>2, <4>1
    <3> QED
      BY <3>1, <3>2
  <2>7. command'.from # Nobody =>
            /\ command'.from # Apply /\ command'.from \in Waiting'
            /\ reply'[command'.from] = "none"
    BY <1>6, <2>1, <2>2, <2>3 DEF AskedInv, Unanswered
  <2>8. ASSUME NEW i \in 1..n, log'[i].from = command'.from,
               command'.from # Nobody
        PROVE  FALSE
    <3>1. i # n
      BY <2>2, <2>3, <2>8
    <3>2. i + 1 \in 1..n /\ i + 1 # 1 /\ log[i + 1].from = log[1].from
      BY <2>2, <2>8, <3>1
    <3> QED
      BY <2>2, <2>8, <3>2 DEF AskedInv
  <2> QED
    BY <2>2, <2>4, <2>5, <2>6, <2>7, <2>8 DEF AskedInv, Unanswered, Goroutines
<1>7. CASE ApplyStart
  BY <1>5, <1>7 DEF ApplyStart
<1>8. CASE ApplyTopicUpdate
  BY <1>2, <1>8 DEF ApplyTopicUpdate, NextCommand, applyVars
<1>9. CASE ApplyRefused
  BY <1>2, <1>9 DEF ApplyRefused, applyVars
<1>10. CASE ApplyLock
  BY <1>3, <1>10 DEF ApplyLock, NextCommand
<1>11. CASE ApplyAcquire \/ ApplyExitCancel \/ ApplyExitLock
              \/ ApplyExitChannels \/ ApplyExitMemory
  BY <1>5, <1>11 DEF ApplyAcquire, ApplyExitCancel, ApplyExitLock,
     ApplyExitChannels, ApplyExitMemory, applyVars
<1>12. CASE ApplyNewChannel \/ ApplyDeleteChannel \/ ApplyExitBackend
  BY <1>4, <1>12 DEF ApplyNewChannel, ApplyDeleteChannel, ApplyExitBackend
<1>13. CASE ApplyDeleteTopic
  <2>1. CASE ExitFlag
    BY <1>2, <1>13, <2>1 DEF ApplyDeleteTopic, NextCommand, applyVars
  <2>2. CASE ~ExitFlag /\ leader
    BY <1>6, <1>13, <2>2 DEF ApplyDeleteTopic, NextCommand
  <2>3. CASE ~ExitFlag /\ ~leader
    BY <1>3, <1>13, <2>3 DEF ApplyDeleteTopic, NextCommand
  <2> QED
    BY <2>1, <2>2, <2>3
<1>14. CASE ApplySelfAnswered
  <2>1. Waiting' = Waiting \ {Apply}
    BY <1>0, <1>14 DEF ApplySelfAnswered, Waiting
  <2> QED
    BY <1>0, <1>14, <2>1, AskedAnswer DEF ApplySelfAnswered
<1> QED
  BY <1>7, <1>8, <1>9, <1>10, <1>11, <1>12, <1>13, <1>14 DEF ApplyStep

\* A call is told of an error; its command leaves the log or has no caller.
LEMMA AbandonAsked ==
    ASSUME TypeOK, AskedInv, NEW k \in DOMAIN log, Abandon(k)
    PROVE  AskedInv'
<1> DEFINE n == Len(log)
<1>1. /\ n \in Nat /\ k \in 1..n /\ log \in Seq(EntryType)
      /\ log[k].from # Nobody /\ log[k].from \in Goroutines
  BY Named DEF TypeOK, RaftOK, Abandon
<1>2. Waiting' = Waiting /\ command' = command
  BY DEF Abandon, Waiting, applyVars
<1>3. PICK f : /\ Len(log') \in Nat
               /\ \A i \in 1..Len(log') :
                     /\ f[i] \in 1..n
                     /\ log'[i].from \in {log[f[i]].from, Nobody}
                     /\ log'[i].from # log[k].from
               /\ \A i, j \in 1..Len(log') : f[i] = f[j] => i = j
  <2>1. CASE log' = [log EXCEPT ![k].from = Nobody]
    <3> DEFINE f == [i \in 1..n |-> i]
    <3>1. /\ Len(log') = n
          /\ \A i \in 1..n : log'[i].from = IF i = k THEN Nobody ELSE log[i].from
      BY <1>1, <2>1 DEF EntryType
    <3>2. \A i \in 1..n : i # k => log[i].from # log[k].from
      BY <1>1 DEF AskedInv
    <3>3. \A i \in 1..Len(log') :
             /\ f[i] \in 1..n
             /\ log'[i].from \in {log[f[i]].from, Nobody}
             /\ log'[i].from # log[k].from
      BY <1>1, <3>1, <3>2
    <3>4. \A i, j \in 1..Len(log') : f[i] = f[j] => i = j
      BY <3>1
    <3> HIDE DEF f
    <3> QED
      BY <1>1, <3>1, <3>3, <3>4
  <2>2. CASE log' = SubSeq(log, 1, k - 1) \o SubSeq(log, k + 1, Len(log))
    <3> DEFINE f == [i \in 1..(n - 1) |-> IF i < k THEN i ELSE i + 1]
    <3>1. /\ Len(log') = n - 1
          /\ \A i \in 1..(n - 1) : log'[i] = log[IF i < k THEN i ELSE i + 1]
      <4> DEFINE a == SubSeq(log, 1, k - 1)
                 b == SubSeq(log, k + 1, n)
      <4>1. /\ a \in Seq(EntryType) /\ Len(a) = k - 1
            /\ \A i \in 1..(k - 1) : a[i] = log[i]
        BY <1>1, SubSeqProperties
      <4>2. /\ b \in Seq(EntryType) /\ Len(b) = n - k
            /\ \A i \in 1..(n - k) : b[i] = log[k + i]
        BY <1>1, SubSeqProperties
      <4> HIDE DEF a, b
      <4>3. /\ Len(log') = Len(a) + Len(b)
            /\ \A i \in 1..(Len(a) + Len(b)) :
                  log'[i] = IF i <= Len(a) THEN a[i] ELSE b[i - Len(a)]
        BY <2>2, <4>1, <4>2, ConcatProperties DEF a, b
      <4>4. Len(log') = n - 1
        BY <1>1, <4>1, <4>2, <4>3
      <4>5. ASSUME NEW i \in 1..(n - 1)
            PROVE  log'[i] = log[IF i < k THEN i ELSE i + 1]
        <5>0. i \in 1..(Len(a) + Len(b)) /\ Len(a) = k - 1
          BY <1>1, <4>1, <4>2
        <5>1. log'[i] = IF i <= k - 1 THEN a[i] ELSE b[i - (k - 1)]
          BY <4>3, <5>0
        <5>2. CASE i < k
          BY <1>1, <4>1, <5>1, <5>2
        <5>3. CASE ~(i < k)
          <6>1. i - (k - 1) \in 1..(n - k) /\ k + (i - (k - 1)) = i + 1
            BY <1>1, <5>3
          <6>2. log'[i] = b[i - (k - 1)]
            BY <1>1, <5>1, <5>3
          <6> QED
            BY <4>2, <5>3, <6>1, <6>2
        <5> QED
          BY <5>2, <5>3
      <4> QED
        BY <4>4, <4>5
    <3>2. \A i \in 1..n : i # k => log[i].from # log[k].from
      BY <1>1 DEF AskedInv
    <3>3. \A i \in 1..(n - 1) :
             f[i] \in 1..n /\ f[i] # k /\ log'[i] = log[f[i]]
      BY <1>1, <3>1
    <3>4. \A i, j \in 1..(n - 1) : f[i] = f[j] => i = j
      BY <1>1
    <3> HIDE DEF f
    <3>5. Len(log') \in Nat
      BY <1>1, <3>1
    <3>6. \A i \in 1..Len(log') :
             /\ f[i] \in 1..n
             /\ log'[i].from \in {log[f[i]].from, Nobody}
             /\ log'[i].from # log[k].from
      BY <3>1, <3>2, <3>3
    <3>7. \A i, j \in 1..Len(log') : f[i] = f[j] => i = j
      BY <3>1, <3>4
    <3> QED
      BY <3>5, <3>6, <3>7
  <2> QED
    BY <2>1, <2>2 DEF Abandon
<1>4. \A g \in Goroutines : reply'[g] = IF g = log[k].from THEN "err" ELSE reply[g]
  BY <1>1, Named DEF Abandon
<1>5. Unanswered(log[k].from) /\ log[k].from # command.from
  BY <1>1 DEF AskedInv
<1>6. command'.from # Nobody =>
         /\ command'.from \in Goroutines /\ command'.from # Apply
         /\ Unanswered(command'.from)
         /\ \A i \in 1..Len(log') : log'[i].from # command'.from
  BY <1>2, <1>3, Named DEF AskedInv
<1>7. \A g \in Goroutines : ~Unanswered(g) => reply'[g] = reply[g]
  BY <1>4, <1>5
<1>8. \A g \in Goroutines : Unanswered(g) =>
          \/ reply'[g] = reply[g]
          \/ /\ g # command'.from
             /\ \A i \in 1..Len(log') : log'[i].from # g
  BY <1>2, <1>3, <1>4, <1>5
<1>9. \A i \in 1..Len(log') :
          f[i] \in 1..Len(log) /\ log'[i].from \in {log[f[i]].from, Nobody}
  BY <1>3
<1>10. Len(log') \in Nat /\ \A i, j \in 1..Len(log') : f[i] = f[j] => i = j
  BY <1>3
<1> QED
  BY <1>2, <1>6, <1>7, <1>8, <1>9, <1>10, AskedLess

\* Every step keeps commands and waiting goroutines in step.
LEMMA AskedStep == TypeOK /\ AskedInv /\ [Next]_vars => AskedInv'
<1> SUFFICES ASSUME TypeOK, AskedInv, [Next]_vars PROVE AskedInv'
  OBVIOUS
<1>0. Apply \notin Callers /\ Nobody \notin Goroutines /\ Callers \subseteq Goroutines
  BY Named DEF Goroutines
<1>1. ASSUME NEW c \in Callers, CallerCalls(c) \/ CallerGoesOn(c)
      PROVE  AskedInv'
  <2>1. UNCHANGED <<applyPC, command>>
    BY <1>1, CallerMoves DEF applyVars
  <2>2. c \in Waiting <=> call[c].pc \in WaitLabels
    BY <1>0 DEF Waiting
  <2>3. CASE QuietCaller(c)
    <3>1. Waiting' = Waiting \ {c}
      BY <1>0, <2>1, <2>3, CallerWaits DEF QuietCaller
    <3>2. Waiting' = Waiting
      BY <2>2, <2>3, <3>1 DEF QuietCaller
    <3> QED
      BY <2>1, <2>3, <3>2, AskedSame DEF QuietCaller, raftVars
  <2>4. CASE Submits(c)
    <3>1. PICK cmd, name, val, l :
              /\ Submitted(cmd, name, val, c) /\ Moves(c, l) /\ l \in WaitLabels
      BY <2>4 DEF Submits
    <3>2. Waiting' = Waiting \cup {c} /\ c \notin Waiting
      BY <1>0, <2>1, <2>2, <2>4, <3>1, CallerWaits DEF Submits
    <3> DEFINE e == Entry(cmd, name, val, c)
    <3>3. log' = Append(log, e) /\ UNCHANGED reply /\ e.from = c
      BY <3>1 DEF Submitted, Entry
    <3> HIDE DEF e
    <3> QED
      BY <1>0, <2>1, <3>2, <3>3, AskedSubmit
  <2>5. CASE Posts(c)
    <3>1. Waiting' = Waiting
      BY <1>0, <2>1, <2>2, <2>5, CallerWaits DEF Posts, WaitLabels
    <3> DEFINE e == Entry("DeleteTopic", NoName, FALSE, Nobody)
    <3>2. log' = Append(log, e) /\ UNCHANGED reply /\ e.from = Nobody
      BY <2>5 DEF Posts, Submitted, Entry
    <3> HIDE DEF e
    <3> QED
      BY <1>0, <2>1, <3>1, <3>2, AskedSubmit
  <2>6. CASE HasAnswer(c)
    <3>1. Waiting' = Waiting \ {c}
      BY <1>0, <2>1, <2>6, CallerWaits DEF HasAnswer
    <3> QED
      BY <1>0, <2>1, <2>6, <3>1, AskedAnswer DEF HasAnswer
  <2> QED
    BY <1>1, <2>3, <2>4, <2>5, <2>6, CallerMoves
<1>2. ASSUME UNCHANGED <<raftVars, call, applyVars>> PROVE AskedInv'
  BY <1>2, AskedSame DEF raftVars, applyVars, Waiting
<1>3. CASE PumpStep
  BY <1>2, <1>3 DEF PumpStep, PumpStart, PumpReload, PumpRepause, PumpReceive,
     PumpDeliver, PumpNext, PumpExit
<1>4. CASE LoseLeadership
  BY <1>4, AskedSame DEF LoseLeadership, Waiting, applyVars
<1>5. CASE UNCHANGED vars
  BY <1>2, <1>5 DEF vars
<1> QED
  BY <1>1, <1>3, <1>4, <1>5, ApplyAsked, AbandonAsked DEF Next, RaftStep

\* At first nobody asks.
LEMMA AskedInit == Init => AskedInv
<1> SUFFICES ASSUME Init PROVE AskedInv
  OBVIOUS
<1>1. Waiting = {}
  BY DEF Init, Waiting, WaitLabels, Idle, Call
<1>2. Len(log) = 0 /\ command.from = Nobody
  BY DEF Init, NoEntry, Entry
<1>3. \A g \in Goroutines : reply[g] = "none"
  BY DEF Init, Goroutines
<1> QED
  BY <1>1, <1>2, <1>3 DEF AskedInv

\* A command of the log that names a goroutine finds it waiting for that one
\* command and not answered yet, whatever was abandoned before: no answer is
\* given twice, and none reaches a later call.
THEOREM AnswersFindTheirCalls == Spec => []AskedInv
BY AskedInit, AskedStep, TopicTypeCorrect, PTL DEF Spec

(***************************************************************************)
(* What a step of a caller does to the pump and to the topic.              *)
(***************************************************************************)

CallerLeaves(c) ==
    /\ PumpServes
    /\ UNCHANGED <<leader, handed>>
    /\ ctxDone' = ctxDone \/ call[c].pc = "closeCancel"
    /\ backendOpen' = backendOpen \/ call[c].pc = "closeFlush"
    /\ Paused' = Paused \/ call'[c].pc \in PauseLabels

\* Only Close cancels the context and closes the backend, only a call of
\* Pause or UnPause writes the flag, and the pump is only sent updates.
LEMMA CallerLeavesRest ==
    ASSUME TypeOK, NEW c \in Callers, CallerCalls(c) \/ CallerGoesOn(c)
    PROVE  CallerLeaves(c)
<1> USE DEF CallerLeaves, PumpServes
<1>0. CallOK
  BY DEF TypeOK
<1>1. ASSUME UNCHANGED <<pumpVars, leader, handed, ctxDone, backendOpen, Paused>>
      PROVE  CallerLeaves(c)
  BY <1>1 DEF pumpVars
<1>2. ASSUME NEW op, NEW ms, CallPut(c, op, ms) PROVE CallerLeaves(c)
  BY <1>1, <1>2 DEF CallPut, queueVars, exitVars, raftVars
<1>3. ASSUME NEW n, CallGetChannel(c, n) \/ CallDeleteChannel(c, n)
      PROVE  CallerLeaves(c)
  BY <1>1, <1>3 DEF CallGetChannel, CallDeleteChannel, Submitted, queueVars,
     exitVars, raftVars, histVars
<1>4. ASSUME NEW op, CallPause(c, op) PROVE CallerLeaves(c)
  <2>1. call'[c].pc = "pauseUpdate"
    BY <1>0, <1>4 DEF CallPause, CallOK, Call
  <2> QED
    BY <1>4, <2>1 DEF CallPause, PauseLabels, queueVars, exitVars, raftVars,
       histVars, pumpVars
<1>5. CASE CallEmpty(c) \/ CallDeleteTopic(c) \/ CallClose(c)
  BY <1>1, <1>5 DEF CallEmpty, CallDeleteTopic, CallClose, Submitted, queueVars,
     exitVars, raftVars, histVars
<1>6. ASSUME NEW m, Put(c, m) PROVE CallerLeaves(c)
  BY <1>1, <1>6 DEF Put, exitVars, raftVars
<1>7. CASE PutFails(c) \/ PutUpdate(c) \/ PutUpdated(c) \/ PutReturns(c)
  BY <1>1, <1>7 DEF PutFails, PutUpdate, PutUpdated, PutReturns, Submitted,
     Refused, Answered, queueVars, exitVars, raftVars, histVars
<1>8. CASE GetApply(c) \/ GetAnswered(c) \/ GetCheck(c) \/ GetRead(c)
  BY <1>1, <1>8 DEF GetApply, GetAnswered, GetCheck, GetRead, Submitted,
     Refused, Answered, queueVars, exitVars, raftVars, histVars
<1>9. CASE DeleteAnswered(c) \/ DeleteUnlock(c) \/ DeleteTopicAnswered(c)
  BY <1>1, <1>9 DEF DeleteAnswered, DeleteUnlock, DeleteTopicAnswered, Answered,
     queueVars, exitVars, raftVars, histVars
<1>10. CASE NotifyChannel(c) \/ NotifyLast(c) \/ PauseNotify(c)
  <2>1. PumpServes
    BY <1>10 DEF NotifyChannel, NotifyLast, PauseNotify, Notified,
       PauseNotified, PumpReceives, TopicExited, pumpVars
  <2> QED
    BY <1>10, <2>1 DEF NotifyChannel, NotifyLast, PauseNotify, Submitted,
       Refused, queueVars, exitVars, raftVars, histVars
<1>11. CASE PauseUpdate(c) \/ PauseUpdated(c)
  BY <1>1, <1>11 DEF PauseUpdate, PauseUpdated, Submitted, Refused, Answered,
     queueVars, exitVars, raftVars, histVars
<1>12. CASE EmptyMemory(c) \/ EmptyBackend(c)
  BY <1>1, <1>12 DEF EmptyMemory, EmptyBackend, exitVars, raftVars
<1>13. CASE CloseCancel(c) \/ CloseBackend(c)
  BY <1>13 DEF CloseCancel, CloseBackend, queueVars, exitVars, raftVars,
     histVars, pumpVars
<1>14. CASE CloseWait(c) \/ CloseChannels(c) \/ CloseFlush(c)
  BY <1>1, <1>14 DEF CloseWait, CloseChannels, CloseFlush, queueVars, exitVars,
     raftVars, histVars
<1> QED
  BY <1>2, <1>3, <1>4, <1>5, <1>6, <1>7, <1>8, <1>9, <1>10, <1>11, <1>12, <1>13, <1>14
  DEF CallerCalls, CallerGoesOn

\* Where a caller that moves comes to.
LEMMA CallerPlace ==
    ASSUME TypeOK, NEW c \in Callers, CallerCalls(c) \/ CallerGoesOn(c)
    PROVE  \E l : Moves(c, l) /\ Orderly(c, l)
<1>1. CASE Posts(c)
  BY <1>1 DEF Posts, Orderly, PauseLabels
<1> QED
  BY <1>1, CallerMoves DEF QuietCaller, Submits, HasAnswer

(***************************************************************************)
(* Exit.  Whoever closes or deletes the backend has waited for the pump.   *)
(***************************************************************************)

QuietInv ==
    /\ ~backendOpen => pumpPC = "exited"
    /\ \A c \in Callers :
          call[c].pc \in {"closeChannels", "closeFlush"} => pumpPC = "exited"
    /\ applyPC \in {"exitLock", "exitEmpty"} => pumpPC = "exited"

LEMMA QuietStep == TypeOK /\ QuietInv /\ [Next]_vars => QuietInv'
<1> SUFFICES ASSUME TypeOK, QuietInv, [Next]_vars PROVE QuietInv'
  OBVIOUS
<1>1. ASSUME NEW c \in Callers, CallerCalls(c) \/ CallerGoesOn(c)
      PROVE  QuietInv'
  <2>1. CallerLeaves(c) /\ UNCHANGED applyPC
    BY <1>1, CallerLeavesRest, CallerMoves DEF applyVars
  <2>2. PICK l : Moves(c, l) /\ Orderly(c, l)
    BY <1>1, CallerPlace
  <2>3. pumpPC = "exited" => pumpPC' = "exited"
    BY <2>1 DEF CallerLeaves, PumpServes
  <2>4. ~backendOpen' => pumpPC' = "exited"
    BY <2>1, <2>3 DEF CallerLeaves, QuietInv
  <2>5. ASSUME NEW d \in Callers, call'[d].pc \in {"closeChannels", "closeFlush"}
        PROVE  pumpPC' = "exited"
    BY <2>2, <2>3, <2>5 DEF Moves, Orderly, QuietInv
  <2> QED
    BY <2>1, <2>3, <2>4, <2>5 DEF QuietInv
<1>2. ASSUME UNCHANGED <<call, applyPC, backendOpen>>,
             pumpPC = "exited" => pumpPC' = "exited"
      PROVE  QuietInv'
  BY <1>2 DEF QuietInv
<1>3. CASE PumpStep
  BY <1>2, <1>3 DEF PumpStep, PumpStart, PumpReload, PumpRepause, PumpReceive,
     PumpDeliver, PumpNext, PumpExit, queueVars, applyVars
<1>4. CASE ApplyStep
  <2>1. ASSUME UNCHANGED <<call, pumpPC, backendOpen>>,
               applyPC' \in {"exitLock", "exitEmpty"} =>
                  applyPC \in {"exitLock", "exitEmpty"} \/ pumpPC = "exited"
        PROVE  QuietInv'
    BY <2>1 DEF QuietInv
  <2>2. CASE ApplyStart \/ ApplyTopicUpdate \/ ApplyRefused \/ ApplyLock
                \/ ApplyAcquire
    BY <2>1, <2>2 DEF ApplyStart, ApplyTopicUpdate, ApplyRefused, ApplyLock,
       ApplyAcquire, queueVars, applyVars, pumpVars
  <2>3. CASE ApplyNewChannel \/ ApplyDeleteChannel \/ ApplyDeleteTopic
                \/ ApplySelfAnswered \/ ApplyExitCancel
    BY <2>1, <2>3 DEF ApplyNewChannel, ApplyDeleteChannel, ApplyDeleteTopic,
       Finished, ApplySelfAnswered, ApplyExitCancel, queueVars, applyVars, pumpVars
  <2>4. CASE ApplyExitLock \/ ApplyExitChannels \/ ApplyExitMemory
    BY <2>1, <2>4 DEF ApplyExitLock, PumpGone, ApplyExitChannels,
       ApplyExitMemory, queueVars, applyVars, pumpVars
  <2>5. CASE ApplyExitBackend
    BY <2>5 DEF ApplyExitBackend, Finished, QuietInv, pumpVars
  <2> QED
    BY <1>4, <2>2, <2>3, <2>4, <2>5 DEF ApplyStep
<1>5. CASE RaftStep
  BY <1>2, <1>5 DEF RaftStep, LoseLeadership, Abandon, queueVars, applyVars, pumpVars
<1>6. CASE UNCHANGED vars
  BY <1>2, <1>6 DEF vars, queueVars, applyVars, pumpVars
<1> QED
  BY <1>1, <1>3, <1>4, <1>5, <1>6 DEF Next

\* Only the pump hands a message on, and not when it is gone.
LEMMA ExitedHands ==
    ASSUME TypeOK, QuietInv, [Next]_vars, ~backendOpen
    PROVE  UNCHANGED handed
<1>1. pumpPC = "exited"
  BY DEF QuietInv
<1>2. CASE PumpStep
  BY <1>1, <1>2 DEF PumpStep, PumpStart, PumpReload, PumpRepause, PumpReceive,
     PumpDeliver, PumpNext, PumpExit, histVars
<1>3. CASE ApplyStep
  BY <1>3 DEF ApplyStep, ApplyStart, ApplyTopicUpdate, ApplyRefused, ApplyLock,
     ApplyAcquire, ApplyNewChannel, ApplyDeleteChannel, ApplyDeleteTopic,
     ApplySelfAnswered, ApplyExitCancel, ApplyExitLock, ApplyExitChannels,
     ApplyExitMemory, ApplyExitBackend, histVars
<1>4. CASE RaftStep
  BY <1>4 DEF RaftStep, LoseLeadership, Abandon, histVars
<1>5. ASSUME NEW c \in Callers, CallerCalls(c) \/ CallerGoesOn(c)
      PROVE  UNCHANGED handed
  BY <1>5, CallerLeavesRest DEF CallerLeaves
<1> QED
  BY <1>2, <1>3, <1>4, <1>5 DEF Next, vars, histVars

\* Topic.exit waits for messagePump before it closes or deletes the backend,
\* on the way of Close as on the way of a DeleteTopic command: whatever the
\* callers do meanwhile, no channel is handed a message afterwards.
THEOREM NothingHandedAfterExit == Spec => QuietAfterExit
<1>1. Init => QuietInv
  BY DEF Init, QuietInv, Idle, Call
<1>2. TypeOK /\ QuietInv /\ [Next]_vars => [~backendOpen => UNCHANGED handed]_vars
  BY ExitedHands
<1> QED
  BY <1>1, <1>2, QuietStep, TopicTypeCorrect, PTL DEF Spec, QuietAfterExit

(***************************************************************************)
(* Pause.  On the leader the topic does not exit, for its exit would wait  *)
(* for a command that only the waiting goroutine could apply; so a pause   *)
(* ends only when the pump has received it.  A command that writes the     *)
(* flag is in the log only while the call that submitted it waits.         *)
(***************************************************************************)

NobodyPausing == \A c \in Callers : ~Pausing(c)

\* The leader's topic is not exiting.
LeaderStays ==
    /\ ~ctxDone /\ applyPC # "exitCancel" /\ reply[Apply] = "none"
    /\ \A c \in Callers : call[c].pc # "closeCancel"

\* A command that writes the flag belongs to a call that is still pausing.
PausedAsked ==
    \A i \in 1..Len(log) : log[i].cmd = "Paused" =>
        log[i].from \in Callers /\ call[log[i].from].pc = "pauseWait"

\* What the pump reads is what the flag and its channels say.
Settled ==
    pumpPC \in {"select", "deliver"} /\ NobodyPausing =>
        reading = (chans # <<>> /\ ~Paused)

LeaderInv == leader => LeaderStays /\ PausedAsked /\ Settled

\* Who is pausing does not depend on how it is written.
LEMMA PausingLabels == \A c \in Callers : Pausing(c) <=> call[c].pc \in PauseLabels
BY DEF Pausing, PauseLabels

\* A step of a caller keeps the leader's topic as it is.
LEMMA CallerLeader ==
    ASSUME TypeOK, AskedInv, LeaderInv, leader, NEW c \in Callers,
           CallerCalls(c) \/ CallerGoesOn(c)
    PROVE  LeaderInv'
<1>0. /\ LeaderStays /\ PausedAsked /\ Settled
      /\ Apply \notin Callers /\ Nobody \notin Callers
      /\ Len(log) \in Nat /\ log \in Seq(EntryType)
      /\ reply \in [Goroutines -> {"none", "ok", "err"}] /\ Callers \subseteq Goroutines
  BY Named DEF LeaderInv, Goroutines, TypeOK, RaftOK
<1>1. CallerLeaves(c) /\ UNCHANGED <<applyPC, command>>
  BY CallerLeavesRest, CallerMoves DEF applyVars
<1>2. PICK l : Moves(c, l) /\ Orderly(c, l)
  BY CallerPlace
<1>3. /\ \A d \in Callers : d # c => call'[d].pc = call[d].pc
      /\ call'[c].pc = l
  BY <1>2 DEF Moves
<1>4. ~ctxDone' /\ applyPC' # "exitCancel"
  BY <1>0, <1>1 DEF CallerLeaves, LeaderStays
<1>5. \A d \in Callers : call'[d].pc # "closeCancel"
  BY <1>0, <1>2, <1>3 DEF LeaderStays, Orderly
<1>6. reply'[Apply] = "none"
  <2>1. UNCHANGED reply \/ Answered(c)
    BY CallerMoves DEF QuietCaller, Submits, Posts, HasAnswer, Submitted, raftVars
  <2> QED
    BY <1>0, <2>1 DEF Answered, LeaderStays, Goroutines
<1>7. PausedAsked'
  <2>1. ASSUME UNCHANGED log,
               \A i \in 1..Len(log) : log[i].from # c \/ log[i].cmd # "Paused"
        PROVE  PausedAsked'
    BY <1>0, <1>3, <2>1 DEF PausedAsked
  <2>2. CASE QuietCaller(c)
    <3>1. call[c].pc # "pauseWait" /\ UNCHANGED log
      BY <2>2 DEF QuietCaller, WaitLabels, raftVars
    <3> QED
      BY <1>0, <2>1, <3>1 DEF PausedAsked
  <2>3. CASE HasAnswer(c)
    <3>1. reply[c] # "none" /\ UNCHANGED log
      BY <2>3 DEF HasAnswer, Answered
    <3>2. \A i \in 1..Len(log) : log[i].from # c
      BY <1>0, <3>1 DEF AskedInv, Unanswered
    <3> QED
      BY <2>1, <3>1, <3>2
  <2>4. ASSUME NEW e, log' = Append(log, e), call[c].pc # "pauseWait",
               e.cmd = "Paused" => e.from = c /\ call'[c].pc = "pauseWait"
        PROVE  PausedAsked'
    <3>1. /\ Len(log') = Len(log) + 1 /\ log'[Len(log) + 1] = e
          /\ \A i \in 1..Len(log) : log'[i] = log[i]
      BY <1>0, <2>4
    <3>2. ASSUME NEW i \in 1..Len(log'), log'[i].cmd = "Paused"
          PROVE  log'[i].from \in Callers /\ call'[log'[i].from].pc = "pauseWait"
      <4>1. CASE i = Len(log) + 1
        BY <2>4, <3>1, <3>2, <4>1
      <4>2. CASE i # Len(log) + 1
        <5>1. i \in 1..Len(log)
          BY <1>0, <3>1, <4>2
        <5> QED
          BY <1>0, <1>3, <2>4, <3>1, <3>2, <5>1 DEF PausedAsked
      <4> QED
        BY <4>1, <4>2
    <3> QED
      BY <3>2 DEF PausedAsked
  <2>5. CASE Submits(c)
    <3>1. PICK cmd, name, val, k :
              /\ Submitted(cmd, name, val, c) /\ Moves(c, k)
              /\ cmd = "Paused" <=> k = "pauseWait"
      BY <2>5 DEF Submits
    <3> DEFINE e == Entry(cmd, name, val, c)
    <3>2. /\ log' = Append(log, e) /\ e.from = c
          /\ e.cmd = "Paused" => call'[c].pc = "pauseWait"
      BY <3>1 DEF Submitted, Entry, Moves
    <3>3. call[c].pc # "pauseWait"
      BY <2>5 DEF Submits, WaitLabels
    <3> HIDE DEF e
    <3> QED
      BY <2>4, <3>2, <3>3
  <2>6. CASE Posts(c)
    <3> DEFINE e == Entry("DeleteTopic", NoName, FALSE, Nobody)
    <3>1. log' = Append(log, e) /\ e.cmd # "Paused" /\ call[c].pc # "pauseWait"
      BY <2>6 DEF Posts, Submitted, Entry
    <3> HIDE DEF e
    <3> QED
      BY <2>4, <3>1
  <2> QED
    BY <2>2, <2>3, <2>5, <2>6, CallerMoves
<1>8. Settled'
  <2> SUFFICES ASSUME pumpPC' \in {"select", "deliver"},
                      \A d \in Callers : call'[d].pc \notin PauseLabels
               PROVE  reading' = (chans' # <<>> /\ ~Paused')
    BY DEF Settled, NobodyPausing, Pausing, PauseLabels
  <2>1. pumpPC \in {"select", "deliver"} /\ UNCHANGED <<chans, reading, Paused>>
    BY <1>1 DEF CallerLeaves, PumpServes
  <2>2. \A d \in Callers : call[d].pc \notin PauseLabels
    BY <1>0, <1>2, <1>3 DEF Orderly, LeaderStays
  <2> QED
    BY <1>0, <2>1, <2>2, PausingLabels DEF Settled, NobodyPausing
<1> QED
  BY <1>1, <1>4, <1>5, <1>6, <1>7, <1>8 DEF LeaderInv, LeaderStays

\* The pump's own steps: it enters its select with what the flag says.
LEMMA PumpLeader ==
    ASSUME TypeOK, LeaderInv, leader, PumpStep
    PROVE  LeaderInv'
<1>2. UNCHANGED <<leader, log, reply, call, applyPC, ctxDone, Paused>>
  BY DEF PumpStep, PumpStart, PumpReload, PumpRepause, PumpReceive,
     PumpDeliver, PumpNext, PumpExit, raftVars, applyVars, exitVars
<1>3. LeaderStays' /\ PausedAsked'
  BY <1>2 DEF LeaderInv, LeaderStays, PausedAsked
<1>4. NobodyPausing' = NobodyPausing
  BY <1>2 DEF NobodyPausing, Pausing
<1>5. Settled'
  <2>1. CASE PumpReload
    BY <2>1 DEF PumpReload, Settled
  <2>2. CASE PumpRepause
    BY <2>2 DEF PumpRepause, Resumed, Settled
  <2>3. CASE PumpStart \/ PumpExit
    BY <2>3 DEF PumpStart, PumpExit, Settled
  <2>4. ASSUME UNCHANGED <<chans, reading>>, pumpPC \in {"select", "deliver"}
        PROVE  Settled'
    BY <1>2, <1>4, <2>4 DEF LeaderInv, Settled
  <2>5. CASE PumpNext \/ \E m \in Msgs : PumpReceive(m) \/ PumpDeliver(m)
    BY <2>4, <2>5 DEF PumpNext, PumpReceive, PumpDeliver
  <2> QED
    BY <2>1, <2>2, <2>3, <2>5 DEF PumpStep
<1> QED
  BY <1>3, <1>5 DEF LeaderInv

\* The goroutine that applies the log.
LEMMA ApplyLeader ==
    ASSUME TypeOK, AskedInv, LeaderInv, leader, ApplyStep
    PROVE  LeaderInv'
<1>0. /\ LeaderStays /\ PausedAsked /\ Settled /\ Apply \in Goroutines
      /\ Apply \notin Callers /\ Nobody # Apply
      /\ reply \in [Goroutines -> {"none", "ok", "err"}]
  BY Named, TopicAssumption DEF LeaderInv, Goroutines
<1>1. UNCHANGED <<call, pumpPC, chans, reading>>
  BY DEF ApplyStep, ApplyStart, ApplyTopicUpdate, ApplyRefused, ApplyLock,
     ApplyAcquire, ApplyNewChannel, ApplyDeleteChannel, ApplyDeleteTopic,
     ApplySelfAnswered, ApplyExitCancel, ApplyExitLock, ApplyExitChannels,
     ApplyExitMemory, ApplyExitBackend, pumpVars
<1>2. NobodyPausing' = NobodyPausing
  BY <1>1 DEF NobodyPausing, Pausing
<1>3. ASSUME ~ctxDone', applyPC' # "exitCancel", reply'[Apply] = "none",
             PausedAsked', UNCHANGED Paused \/ ~NobodyPausing
      PROVE  LeaderInv'
  <2>1. Settled'
    BY <1>0, <1>1, <1>2, <1>3 DEF Settled
  <2> QED
    BY <1>0, <1>1, <1>3, <2>1 DEF LeaderInv, LeaderStays
<1>4. ASSUME UNCHANGED log PROVE PausedAsked'
  BY <1>0, <1>1, <1>4 DEF PausedAsked
<1>5. ASSUME log # <<>>, log' = Tail(log) PROVE PausedAsked'
  <2>1. \A i \in 1..Len(log') : i + 1 \in 1..Len(log) /\ log'[i] = log[i + 1]
    BY <1>5, LogTail
  <2> QED
    BY <1>0, <1>1, <2>1 DEF PausedAsked
<1>6. ASSUME NEW from, NEW what, from # Apply, Respond(from, what)
      PROVE  reply'[Apply] = "none"
  BY <1>0, <1>6 DEF Respond, LeaderStays
<1>7. ASSUME applyPC = "idle", log # <<>> PROVE Head(log).from # Apply
  <2>1. 1 \in 1..Len(log) /\ Head(log) = log[1]
    BY <1>7, LogTail
  <2>2. Apply \notin Waiting
    BY <1>0, <1>7 DEF Waiting
  <2> QED
    BY <1>0, <2>1, <2>2 DEF AskedInv, Unanswered
<1>8. command.from # Apply
  BY <1>0 DEF AskedInv
<1>9. CASE ApplyStart \/ ApplyAcquire \/ ApplyExitLock \/ ApplyExitChannels
              \/ ApplyExitMemory
  <2>1. UNCHANGED <<log, reply, ctxDone, Paused>> /\ applyPC' # "exitCancel"
    BY <1>0, <1>9 DEF ApplyStart, ApplyAcquire, ApplyExitLock, ApplyExitChannels,
       ApplyExitMemory, raftVars, applyVars, exitVars
  <2> QED
    BY <1>0, <1>3, <1>4, <2>1 DEF LeaderStays
<1>10. CASE ApplyNewChannel \/ ApplyDeleteChannel \/ ApplyExitBackend
  <2>1. /\ UNCHANGED <<log, ctxDone, Paused>> /\ applyPC' # "exitCancel"
        /\ Respond(command.from, "ok")
    BY <1>10 DEF ApplyNewChannel, ApplyDeleteChannel, ApplyExitBackend,
       Finished, exitVars
  <2> QED
    BY <1>0, <1>3, <1>4, <1>6, <1>8, <2>1 DEF LeaderStays
<1>11. CASE ApplyTopicUpdate
  <2>1. /\ applyPC = "idle" /\ log # <<>> /\ log' = Tail(log)
        /\ Respond(Head(log).from, "ok") /\ UNCHANGED <<ctxDone, applyPC>>
        /\ Head(log).cmd # "Paused" => UNCHANGED Paused
    BY <1>11 DEF ApplyTopicUpdate, NextCommand, applyVars
  <2>2. Head(log).cmd = "Paused" => ~NobodyPausing
    BY <1>0, <2>1, LogTail DEF PausedAsked, NobodyPausing, Pausing
  <2> QED
    BY <1>0, <1>3, <1>5, <1>6, <1>7, <2>1, <2>2 DEF LeaderStays
<1>12. CASE ApplyRefused
  <2>1. /\ applyPC = "idle" /\ log # <<>> /\ log' = Tail(log)
        /\ Respond(Head(log).from, "err") /\ UNCHANGED <<ctxDone, applyPC, Paused>>
    BY <1>12 DEF ApplyRefused, exitVars, applyVars
  <2> QED
    BY <1>0, <1>3, <1>5, <1>6, <1>7, <2>1 DEF LeaderStays
<1>13. CASE ApplyLock
  <2>1. /\ log # <<>> /\ log' = Tail(log) /\ applyPC' = "lock"
        /\ UNCHANGED <<ctxDone, reply, Paused>>
    BY <1>13 DEF ApplyLock, NextCommand, exitVars
  <2> QED
    BY <1>0, <1>3, <1>5, <2>1 DEF LeaderStays
<1>14. CASE ApplyDeleteTopic
  <2>1. applyPC = "idle" /\ log # <<>> /\ UNCHANGED <<ctxDone, Paused>>
    BY <1>14 DEF ApplyDeleteTopic, NextCommand
  <2>2. CASE ExitFlag
    <3>1. log' = Tail(log) /\ Respond(Head(log).from, "ok") /\ UNCHANGED applyPC
      BY <1>14, <2>2 DEF ApplyDeleteTopic, applyVars
    <3> QED
      BY <1>0, <1>3, <1>5, <1>6, <1>7, <2>1, <3>1 DEF LeaderStays
  <2>3. CASE ~ExitFlag
    <3> DEFINE e == Entry("ExitFlag", NoName, TRUE, Apply)
    <3>1. /\ log' = Append(Tail(log), e) /\ applyPC' = "selfWait"
          /\ e.cmd = "ExitFlag" /\ UNCHANGED reply
      BY <1>14, <2>3 DEF ApplyDeleteTopic, Entry
    <3> HIDE DEF e
    <3> DEFINE t == Tail(log)
    <3>2. /\ t \in Seq(EntryType) /\ Len(t) \in Nat /\ Len(t) + 1 = Len(log)
          /\ \A i \in 1..Len(t) : i + 1 \in 1..Len(log) /\ t[i] = log[i + 1]
      BY <2>1, LogTail
    <3>3. log' = Append(t, e)
      BY <3>1
    <3> HIDE DEF t
    <3>4. /\ Len(log') = Len(t) + 1 /\ log'[Len(t) + 1] = e
          /\ \A i \in 1..Len(t) : log'[i] = t[i]
      BY <3>2, <3>3
    <3>5. ASSUME NEW i \in 1..Len(log'), log'[i].cmd = "Paused"
          PROVE  log'[i].from \in Callers /\ call'[log'[i].from].pc = "pauseWait"
      <4>1. i # Len(t) + 1
        BY <3>1, <3>4, <3>5
      <4>2. i \in 1..Len(t)
        BY <3>2, <3>4, <4>1
      <4> QED
        BY <1>0, <1>1, <3>2, <3>4, <3>5, <4>2 DEF PausedAsked
    <3>6. PausedAsked'
      BY <3>5 DEF PausedAsked
    <3> QED
      BY <1>0, <1>3, <2>1, <3>1, <3>6 DEF LeaderStays
  <2> QED
    BY <2>2, <2>3
<1>15. CASE ApplySelfAnswered \/ ApplyExitCancel
  BY <1>0, <1>15 DEF ApplySelfAnswered, ApplyExitCancel, Answered, LeaderStays
<1> QED
  BY <1>9, <1>10, <1>11, <1>12, <1>13, <1>14, <1>15 DEF ApplyStep

\* Leadership is not regained, and on the leader every step keeps the rest.
LEMMA LeaderStep == TypeOK /\ AskedInv /\ LeaderInv /\ [Next]_vars => LeaderInv'
<1> SUFFICES ASSUME TypeOK, AskedInv, LeaderInv, [Next]_vars, leader'
             PROVE  LeaderInv'
  BY DEF LeaderInv
<1>1. ASSUME NEW c \in Callers, CallerCalls(c) \/ CallerGoesOn(c)
      PROVE  LeaderInv'
  <2>1. leader
    BY <1>1, CallerLeavesRest DEF CallerLeaves
  <2> QED
    BY <1>1, <2>1, CallerLeader
<1>2. CASE PumpStep
  <2>1. leader
    BY <1>2 DEF PumpStep, PumpStart, PumpReload, PumpRepause, PumpReceive,
       PumpDeliver, PumpNext, PumpExit, raftVars
  <2> QED
    BY <1>2, <2>1, PumpLeader
<1>3. CASE ApplyStep
  <2>1. leader
    BY <1>3 DEF ApplyStep, ApplyStart, ApplyTopicUpdate, ApplyRefused, ApplyLock,
       ApplyAcquire, ApplyNewChannel, ApplyDeleteChannel, ApplyDeleteTopic,
       ApplySelfAnswered, Answered, ApplyExitCancel, ApplyExitLock,
       ApplyExitChannels, ApplyExitMemory, ApplyExitBackend, raftVars
  <2> QED
    BY <1>3, <2>1, ApplyLeader
<1>4. CASE RaftStep
  BY <1>4 DEF RaftStep, LoseLeadership, Abandon
<1>5. CASE UNCHANGED vars
  BY <1>5 DEF vars, raftVars, exitVars, pumpVars, applyVars, LeaderInv,
     LeaderStays, PausedAsked, Settled, NobodyPausing, Pausing
<1> QED
  BY <1>1, <1>2, <1>3, <1>4, <1>5 DEF Next

\* Pause and UnPause write the flag, send it through the log and then tell
\* the pump, and any number of them may overlap: on the leader, once all have
\* returned, a pump at its select reads its queues exactly if it has channels
\* and the flag is not set.
THEOREM PauseTakesEffect == Spec => []PauseSettles
<1>1. Init => LeaderInv
  <2> SUFFICES ASSUME Init PROVE LeaderInv
    OBVIOUS
  <2>1. Len(log) = 0 /\ reply[Apply] = "none" /\ pumpPC = "starting"
    BY DEF Init
  <2>2. \A c \in Callers : call[c].pc = "idle"
    BY DEF Init, Idle, Call
  <2>3. ~ctxDone /\ applyPC = "start"
    BY DEF Init
  <2> QED
    BY <2>1, <2>2, <2>3 DEF LeaderInv, LeaderStays, PausedAsked, Settled
<1>2. LeaderInv => PauseSettles
  BY DEF LeaderInv, Settled, PauseSettles, NobodyPausing
<1> QED
  BY <1>1, <1>2, AnswersFindTheirCalls, LeaderStep, TopicTypeCorrect, PTL DEF Spec
=============================================================================
