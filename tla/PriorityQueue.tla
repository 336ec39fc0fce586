---------------------------- MODULE PriorityQueue ----------------------------
(***************************************************************************)
(* What the timeout heaps promise their callers: a set of items with       *)
(* deadlines.  A shift returns the earliest item if it is due and nothing  *)
(* otherwise; a removal takes out the item it was asked for.               *)
(***************************************************************************)
EXTENDS Integers

CONSTANTS Items, Pris, NoItem

VARIABLES content,      \* the items in the queue
          deadline,     \* Message.pri
          request,      \* the call in progress
          result        \* what the last call returned

NoRequest == [op |-> "none"]

AInit ==
    /\ content = {}
    /\ deadline \in [Items -> Pris]
    /\ request = NoRequest
    /\ result = NoItem

APush(x, p) ==
    /\ request = NoRequest /\ x \notin content
    /\ content' = content \cup {x}
    /\ deadline' = [deadline EXCEPT ![x] = p]
    /\ UNCHANGED <<request, result>>

ARequest(r) ==
    /\ request = NoRequest
    /\ request' = r
    /\ UNCHANGED <<content, deadline, result>>

AReturn(x) ==
    /\ request' = NoRequest
    /\ result' = x
    /\ content' = content \ {x}
    /\ UNCHANGED deadline

\* The earliest item, if its deadline has passed
AShift ==
    /\ request.op = "shift"
    /\ \/ \E x \in content :
            /\ deadline[x] <= request.max
            /\ \A y \in content : deadline[x] <= deadline[y]
            /\ AReturn(x)
       \/ /\ \A y \in content : deadline[y] > request.max
          /\ AReturn(NoItem)

ARemove ==
    /\ request.op = "remove"
    /\ AReturn(request.item)

ANext ==
    \/ \E x \in Items, p \in Pris : APush(x, p)
    \/ \E max \in Pris : ARequest([op |-> "shift", max |-> max])
    \/ \E x \in content : ARequest([op |-> "remove", item |-> x])
    \/ AShift
    \/ ARemove

ASpec == AInit /\ [][ANext]_<<content, deadline, request, result>>
=============================================================================
