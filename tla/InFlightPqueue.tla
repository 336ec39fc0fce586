---------------------------- MODULE InFlightPqueue ----------------------------
(***************************************************************************)
(* The array heap of xmqd/in_flight_pqueue.go, loop iteration by loop      *)
(* iteration, with the position that every Message records of itself.      *)
(* Calls run under inFlightMutex, so one is in progress at a time.         *)
(* Channel uses this heap as a bag: a message is pushed after it was       *)
(* removed or for the first time.                                          *)
(***************************************************************************)
EXTENDS Integers, Sequences

CONSTANTS Items,            \* the messages
          Pris,             \* deadlines
          NoItem,           \* nil
          InitialCap,       \* newInFlightPqueue(capacity)
          ShrinkAbove       \* Pop gives memory back above this capacity (25)

ASSUME PqueueAssumption ==
    /\ NoItem \notin Items
    /\ Pris \subseteq Int
    /\ InitialCap \in Nat \ {0}
    /\ ShrinkAbove \in Nat \ {0}

VARIABLES pq,       \* the slice; position i of the code is pq[i + 1]
          capacity,
          pri,      \* Message.pri
          index,    \* Message.index
          pc,       \* the loop or the epilogue the call is in
          pos,      \* i or j of that loop
          hole,     \* the position Remove was called with
          request,  \* the call in progress
          result    \* what the last call returned

vars == <<pq, capacity, pri, index, pc, pos, hole, request, result>>

NoRequest == [op |-> "none"]

Requests == {NoRequest}
                \cup [op : {"push", "remove"}, item : Items]
                \cup [op : {"shift"}, max : Pris]

\* The type invariant.  A capacity of zero could never be doubled, and the
\* loops stay inside the slice.
TypeOK ==
    /\ pq \in Seq(Items)
    /\ capacity \in Nat \ {0}
    /\ pri \in [Items -> Pris]
    /\ index \in [Items -> Nat \cup {-1}]
    /\ pc \in {"idle", "start", "up", "down", "finish"}
    /\ pos \in Nat
    /\ hole \in Nat
    /\ request \in Requests
    /\ result \in Items \cup {NoItem}
    /\ (pc = "idle") <=> (request = NoRequest)
    /\ pc \in {"up", "down"} => pos < Len(pq)

Init ==
    /\ pq = <<>>
    /\ capacity = InitialCap
    /\ pri \in [Items -> Pris]
    /\ index = [x \in Items |-> 0]
    /\ pc = "idle"
    /\ pos = 0
    /\ hole = 0
    /\ request = NoRequest
    /\ result = NoItem

At(i) == pq[i + 1]

\* Variant: one of the two positions is forgotten.
Swap_OneIndex(i, j) ==
    /\ pq' = [pq EXCEPT ![i + 1] = At(j), ![j + 1] = At(i)]
    /\ index' = [index EXCEPT ![At(j)] = i]

Swap(i, j) ==
    /\ pq' = [pq EXCEPT ![i + 1] = At(j), ![j + 1] = At(i)]
    /\ index' = [index EXCEPT ![At(j)] = i, ![At(i)] = j]

\* (j - 1) / 2, which Go rounds towards zero
Parent(j) == IF j = 0 THEN 0 ELSE (j - 1) \div 2

\* The last position up or down may touch: a shift and a removal have moved
\* the item they return behind it
Bound == IF request.op = "push" THEN Len(pq) ELSE Len(pq) - 1

(***************************************************************************)
(* A call begins                                                           *)
(***************************************************************************)

\* Variant: reallocates one item too late.
Grown_Late(n) == IF n > capacity THEN 2 * capacity ELSE capacity

\* The slice is reallocated when the new item does not fit
Grown(n) == IF n + 1 > capacity THEN 2 * capacity ELSE capacity

Push(x, p) ==
    /\ pc = "idle" /\ \A i \in 1..Len(pq) : pq[i] # x
    /\ capacity' = Grown(Len(pq))
    /\ pq' = Append(pq, x)
    /\ pri' = [pri EXCEPT ![x] = p]
    /\ index' = [index EXCEPT ![x] = Len(pq)]
    /\ request' = [op |-> "push", item |-> x]
    /\ pc' = "up" /\ pos' = Len(pq)
    /\ UNCHANGED <<hole, result>>

Call(r) ==
    /\ pc = "idle"
    /\ request' = r
    /\ pc' = "start"
    /\ UNCHANGED <<pq, capacity, pri, index, pos, hole, result>>

\* Only an item that is in the heap is removed.  Channel models the caller
\* whose item never was in it and records a position all the same.
CallRemove(x) ==
    /\ \E i \in 1..Len(pq) : pq[i] = x
    /\ Call([op |-> "remove", item |-> x])

CallPeekAndShift(max) == Call([op |-> "shift", max |-> max])

(***************************************************************************)
(* The bodies                                                              *)
(***************************************************************************)

Return(x) ==
    /\ result' = x
    /\ request' = NoRequest
    /\ pc' = "idle" /\ pos' = 0 /\ hole' = 0

\* Variant: an item due exactly now is left for the next scan.
Due_Strict(x) == pri[x] < request.max

Due(x) == pri[x] <= request.max

PeekAndShiftNothing ==
    /\ pc = "start" /\ request.op = "shift"
    /\ Len(pq) > 0 => ~Due(At(0))
    /\ Return(NoItem)
    /\ UNCHANGED <<pq, capacity, pri, index>>

Pop ==
    /\ pc = "start" /\ request.op = "shift"
    /\ Len(pq) > 0 /\ Due(At(0))
    /\ Swap(0, Len(pq) - 1)
    /\ pc' = "down" /\ pos' = 0
    /\ UNCHANGED <<capacity, pri, hole, request, result>>

\* Remove is called with the position that the item records
Remove ==
    /\ pc = "start" /\ request.op = "remove"
    /\ LET i == index[request.item] IN
       /\ hole' = i /\ pos' = i
       /\ IF i = Len(pq) - 1
          THEN pc' = "finish" /\ UNCHANGED <<pq, index>>
          ELSE pc' = "down" /\ Swap(i, Len(pq) - 1)
    /\ UNCHANGED <<capacity, pri, request, result>>

(***************************************************************************)
(* One iteration of up and down                                            *)
(***************************************************************************)

UpStops(j) ==
    LET i == Parent(j) IN i # j => pri[At(j)] >= pri[At(i)]

UpSwap ==
    /\ pc = "up" /\ ~UpStops(pos)
    /\ Swap(Parent(pos), pos)
    /\ pos' = Parent(pos)
    /\ UNCHANGED <<capacity, pri, pc, hole, request, result>>

\* Push has nothing left to do after up
UpBreak ==
    /\ pc = "up" /\ UpStops(pos)
    /\ IF request.op = "push"
       THEN Return(result)
       ELSE pc' = "finish" /\ UNCHANGED <<pos, hole, request, result>>
    /\ UNCHANGED <<pq, capacity, pri, index>>

\* The right child if it is inside the bound and not later than the left one
SmallerChild(i) ==
    LET j1 == 2 * i + 1  j2 == j1 + 1 IN
    IF j2 < Bound /\ pri[At(j1)] >= pri[At(j2)] THEN j2 ELSE j1

DownStops(i) ==
    2 * i + 1 < Bound => pri[At(SmallerChild(i))] >= pri[At(i)]

DownSwap ==
    /\ pc = "down" /\ ~DownStops(pos)
    /\ Swap(pos, SmallerChild(pos))
    /\ pos' = SmallerChild(pos)
    /\ UNCHANGED <<capacity, pri, pc, hole, request, result>>

\* Variant: Remove does not call up.
DownBreak_NoUp ==
    /\ pc = "down" /\ DownStops(pos)
    /\ pc' = "finish"
    /\ pos' = IF request.op = "remove" THEN hole ELSE pos
    /\ UNCHANGED <<pq, capacity, pri, index, hole, request, result>>

\* Remove goes on with up, from the position it was called with
DownBreak ==
    /\ pc = "down" /\ DownStops(pos)
    /\ pc' = IF request.op = "remove" THEN "up" ELSE "finish"
    /\ pos' = IF request.op = "remove" THEN hole ELSE pos
    /\ UNCHANGED <<pq, capacity, pri, index, hole, request, result>>

\* Variant: the slice is cut to the items that are left.
Shrunk_ToFit(n) == n - 1

\* Pop reallocates a large slice that is less than half full
Shrunk(n) ==
    IF n < capacity \div 2 /\ capacity > ShrinkAbove
    THEN capacity \div 2 ELSE capacity

\* The common epilogue of Pop and Remove
Finish ==
    /\ pc = "finish"
    /\ LET n == Len(pq)  x == At(n - 1) IN
       /\ capacity' = IF request.op = "shift" THEN Shrunk(n) ELSE capacity
       /\ index' = [index EXCEPT ![x] = -1]
       /\ pq' = SubSeq(pq, 1, n - 1)
       /\ Return(x)
    /\ UNCHANGED pri

Begin ==
    \/ \E x \in Items, p \in Pris : Push(x, p)
    \/ \E x \in Items : CallRemove(x)
    \/ \E max \in Pris : CallPeekAndShift(max)

Step == \/ PeekAndShiftNothing \/ Pop \/ Remove
        \/ UpSwap \/ UpBreak \/ DownSwap \/ DownBreak \/ Finish

Next == Begin \/ Step

Spec == Init /\ [][Next]_vars

(***************************************************************************)
(* Properties                                                              *)
(***************************************************************************)

\* In the middle of any call, every item of the slice records the position it
\* is at, and stands there once: Remove(msg.index) takes out msg.
IndexNamesPosition ==
    \A i \in 1..Len(pq) : index[pq[i]] = i - 1

\* Between calls no item is due before its parent, wherever the last removal
\* was.
HeapOrdered ==
    pc = "idle" => \A j \in 1..(Len(pq) - 1) : pri[At(Parent(j))] <= pri[At(j)]

\* Doubling and halving never leave a slice that its items do not fit in, so
\* no reslice or make is out of range.
CapSuffices == Len(pq) <= capacity

\* The heap implements the priority queue its callers think of.  A push takes
\* effect when the item is in the slice, a shift or a removal when the slice
\* is cut.
Content == {pq[i] : i \in 1..Len(pq)}

AbstractRequest == IF request.op = "push" THEN NoRequest ELSE request

Abstract == INSTANCE PriorityQueue
                WITH content <- Content, deadline <- pri,
                     request <- AbstractRequest

ImplementsPriorityQueue == Abstract!ASpec
=============================================================================
