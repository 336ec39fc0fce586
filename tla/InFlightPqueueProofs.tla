------------------------ MODULE InFlightPqueueProofs ------------------------
(***************************************************************************)
(* The heap is right for any number of items and any deadlines: recorded   *)
(* positions are exact, the order holds between calls, and the whole       *)
(* implements PriorityQueue.                                               *)
(***************************************************************************)
EXTENDS InFlightPqueue, TLAPS, WellFoundedInduction

(***************************************************************************)
(* The inductive invariant                                                 *)
(***************************************************************************)

\* The deadlines along the slice
Deadlines == [k \in 0..(Len(pq) - 1) |-> pri[At(k)]]

\* The first n of the deadlines f are a heap
Heap(f, n) == \A k \in 1..(n - 1) : f[Parent(k)] <= f[k]

\* ... except that position j may be earlier than its parent.  What is below
\* j is not earlier than the parent of j.
UpOrder(f, n, j) ==
    \A k \in 1..(n - 1) :
        /\ k # j => f[Parent(k)] <= f[k]
        /\ Parent(k) = j /\ j > 0 => f[Parent(j)] <= f[k]

\* ... except that position i may be later than its children and, if it is
\* the position h where the item was put, earlier than its parent.
DownOrder(f, n, i, h) ==
    \A k \in 1..(n - 1) :
        /\ Parent(k) # i /\ (k = i => i # h) => f[Parent(k)] <= f[k]
        /\ Parent(k) = i /\ i > 0 => f[Parent(i)] <= f[k]

\* Which loop belongs to which call, and where it may be
ControlInv ==
    /\ pc = "start" => request.op \in {"shift", "remove"} /\ hole = 0
    /\ pc = "idle" => hole = 0
    /\ pc = "start" /\ request.op = "remove" =>
            \E i \in 1..Len(pq) : pq[i] = request.item
    /\ pc = "up" => request.op \in {"push", "remove"} /\ pos < Bound
    /\ pc = "down" => /\ request.op \in {"shift", "remove"}
                      /\ Len(pq) > 0
                      /\ request.op = "shift" => hole = 0
                      /\ request.op = "remove" => pos < Bound
    /\ pc = "finish" => request.op \in {"shift", "remove"} /\ Len(pq) > 0
    /\ request.op = "remove" /\ pc \in {"up", "down"} => hole < Bound

\* What the call will return stands behind the heap
ReturnInv ==
    /\ request.op = "remove" /\ pc \in {"down", "up", "finish"} =>
            At(Len(pq) - 1) = request.item
    /\ request.op = "shift" /\ pc \in {"down", "finish"} =>
            /\ Due(At(Len(pq) - 1))
            /\ \A k \in 0..(Len(pq) - 1) :
                    Deadlines[Len(pq) - 1] <= Deadlines[k]

\* The heap order, except around the position a loop is at
OrderInv ==
    /\ pc \in {"idle", "start"} => Heap(Deadlines, Len(pq))
    /\ pc = "finish" => Heap(Deadlines, Len(pq) - 1)
    /\ pc = "up" => UpOrder(Deadlines, Bound, pos)
    /\ pc = "down" => DownOrder(Deadlines, Bound, pos, hole)

PqueueInv == /\ TypeOK /\ IndexNamesPosition /\ CapSuffices
             /\ ControlInv /\ ReturnInv /\ OrderInv

(***************************************************************************)
(* Arithmetic of the tree                                                  *)
(***************************************************************************)

\* The parent of a position precedes it, and is the parent of two positions.
LEMMA ParentFacts ==
    /\ Parent(0) = 0
    /\ \A j \in Nat : Parent(j) \in Nat /\ Parent(j) <= j
    /\ \A j \in Nat : j > 0 => /\ Parent(j) < j
                               /\ j = 2 * Parent(j) + 1 \/ j = 2 * Parent(j) + 2
    /\ \A i \in Nat : Parent(2 * i + 1) = i /\ Parent(2 * i + 2) = i
BY DEF Parent

\* A parent is at a smaller position.
LEMMA ParentBelow ==
    \A n \in Nat : \A k \in 1..n : Parent(k) \in 0..(n - 1)
BY DEF Parent

LEMMA ParentIn ==
    \A n \in Nat : \A k \in 1..(n - 1) : Parent(k) \in 0..(n - 1) /\ Parent(k) < k
BY DEF Parent

\* A position is one of the two children of its parent.
LEMMA ParentChildren ==
    \A k \in Nat, i \in Nat :
        k > 0 /\ Parent(k) = i => k = 2 * i + 1 \/ k = 2 * i + 2
BY DEF Parent

\* A set of naturals that is not empty has a least element.
LEMMA LeastElement ==
    ASSUME NEW T, T \subseteq Nat, T # {}
    PROVE  \E x \in T : \A y \in T : x <= y
<1>1. PICK x \in T : \A y \in T : ~ (<<y, x>> \in OpToRel(<, Nat))
  BY NatLessThanWellFounded, WFMin, Zenon
<1>2. \A y \in T : ~(y < x)
  BY <1>1 DEF OpToRel
<1> QED
  BY <1>2

\* In a heap nothing is earlier than the root.
LEMMA RootIsEarliest ==
    ASSUME NEW n \in Nat, NEW f, \A k \in 0..(n - 1) : f[k] \in Int,
           \A k \in 1..(n - 1) : f[Parent(k)] <= f[k]
    PROVE  \A k \in 0..(n - 1) : f[0] <= f[k]
<1> DEFINE T == {k \in 0..(n - 1) : ~(f[0] <= f[k])}
<1>1. SUFFICES ASSUME T # {} PROVE FALSE
  OBVIOUS
<1>0. T \subseteq Nat
  OBVIOUS
<1>2. PICK x \in T : \A y \in T : x <= y
  <2> HIDE DEF T
  <2> QED BY <1>1, <1>0, LeastElement, Zenon
<1>3. x # 0 /\ x \in 0..(n - 1)
  BY <1>2
<1>4. Parent(x) \in 0..(n - 1) /\ Parent(x) < x
  BY <1>3, ParentFacts
<1>5. Parent(x) \notin T
  BY <1>2, <1>4
<1> HIDE DEF T
<1>6. f[0] <= f[Parent(x)]
  BY <1>4, <1>5 DEF T
<1>7. f[Parent(x)] <= f[x]
  BY <1>3
<1>8. f[0] \in Int /\ f[x] \in Int /\ f[Parent(x)] \in Int
  BY <1>3, <1>4
<1>9. ~(f[0] <= f[x])
  BY <1>2 DEF T
<1> QED
  BY <1>6, <1>7, <1>8, <1>9

\* Moving an item up keeps the order with the exception one level higher.
LEMMA UpSwapOrder ==
    ASSUME NEW n \in Nat, NEW f, NEW g, NEW j \in 1..(n - 1),
           \A k \in 0..(n - 1) : f[k] \in Int,
           UpOrder(f, n, j), f[j] < f[Parent(j)],
           \A k \in 0..(n - 1) : g[k] = IF k = Parent(j) THEN f[j]
                                        ELSE IF k = j THEN f[Parent(j)] ELSE f[k]
    PROVE  UpOrder(g, n, Parent(j))
<1> DEFINE i == Parent(j)
<1>1. i \in 0..(n - 1) /\ i < j
  BY ParentFacts, ParentBelow
<1>2. SUFFICES ASSUME NEW k \in 1..(n - 1)
               PROVE  /\ k # i => g[Parent(k)] <= g[k]
                      /\ Parent(k) = i /\ i > 0 => g[Parent(i)] <= g[k]
  BY DEF UpOrder
<1>3. Parent(k) \in 0..(n - 1) /\ Parent(k) < k
  BY ParentIn
<1>4. i > 0 => Parent(i) \in 0..(n - 1) /\ Parent(i) < i
  BY <1>1, ParentFacts, ParentBelow
<1>5. /\ k # j => f[Parent(k)] <= f[k]
      /\ Parent(k) = j => f[i] <= f[k]
      /\ i > 0 => f[Parent(i)] <= f[i]
  BY <1>1 DEF UpOrder
<1> HIDE DEF i
<1>6. \A l \in 0..(n - 1) : g[l] = IF l = i THEN f[j]
                                   ELSE IF l = j THEN f[i] ELSE f[l]
  BY DEF i
<1>7. k = j => Parent(k) = i
  BY DEF i
<1>8. f[j] < f[i]
  BY DEF i
<1>9. k # i => g[Parent(k)] <= g[k]
  BY <1>1, <1>3, <1>5, <1>6, <1>7, <1>8
<1>10. Parent(k) = i /\ i > 0 => g[Parent(i)] <= g[k]
  BY <1>1, <1>3, <1>4, <1>5, <1>6, <1>7, <1>8
<1> QED
  BY <1>9, <1>10

\* Moving an item down, in exchange for its earlier child, keeps the order
\* with the exception one level lower.
LEMMA DownSwapOrder ==
    ASSUME NEW n \in Nat, NEW f, NEW g, NEW i \in 0..(n - 1), NEW h \in Nat,
           NEW c \in 1..(n - 1), Parent(c) = i,
           \A k \in 0..(n - 1) : f[k] \in Int,
           DownOrder(f, n, i, h), f[c] < f[i],
           \A k \in 1..(n - 1) : Parent(k) = i => f[c] <= f[k],
           \A k \in 0..(n - 1) : g[k] = IF k = i THEN f[c]
                                        ELSE IF k = c THEN f[i] ELSE f[k]
    PROVE  DownOrder(g, n, c, h)
<1>1. i < c
  BY ParentFacts
<1>2. SUFFICES ASSUME NEW k \in 1..(n - 1)
               PROVE  /\ Parent(k) # c /\ (k = c => c # h) => g[Parent(k)] <= g[k]
                      /\ Parent(k) = c /\ c > 0 => g[Parent(c)] <= g[k]
  BY DEF DownOrder
<1>3. Parent(k) \in 0..(n - 1) /\ Parent(k) < k
  BY ParentIn
<1>4. /\ Parent(k) # i /\ (k = i => i # h) => f[Parent(k)] <= f[k]
      /\ i > 0 => f[Parent(i)] <= f[c]
  BY DEF DownOrder
<1>5. Parent(k) = c => g[Parent(c)] <= g[k]
  BY <1>1, <1>3, <1>4
<1>6. ASSUME Parent(k) # c PROVE g[Parent(k)] <= g[k]
  <2>1. CASE k = i
    <3>1. i > 0 /\ g[k] = f[c] /\ g[Parent(k)] = f[Parent(i)]
      BY <1>1, <1>3, <2>1
    <3> QED
      BY <1>4, <3>1
  <2>2. CASE k = c
    BY <1>1, <1>3, <2>2
  <2>3. CASE k # i /\ k # c
    BY <1>3, <1>4, <1>6, <2>3
  <2> QED
    BY <2>1, <2>2, <2>3
<1> QED
  BY <1>5, <1>6

\* When the item need not go further down, only the edge above the position
\* where it was put may still be wrong.
LEMMA DownBreakOrder ==
    ASSUME NEW n \in Nat, NEW f, NEW i \in Nat, NEW h \in Nat,
           \A k \in 0..(n - 1) : f[k] \in Int,
           DownOrder(f, n, i, h),
           \A k \in 1..(n - 1) : Parent(k) = i => f[i] <= f[k]
    PROVE  UpOrder(f, n, h)
<1>1. SUFFICES ASSUME NEW k \in 1..(n - 1)
               PROVE  /\ k # h => f[Parent(k)] <= f[k]
                      /\ Parent(k) = h /\ h > 0 => f[Parent(h)] <= f[k]
  BY DEF UpOrder
<1>2. Parent(k) \in 0..(n - 1) /\ Parent(k) < k
  BY ParentFacts, ParentBelow, SMTT(20)
<1>3. k # h => f[Parent(k)] <= f[k]
  BY <1>2 DEF DownOrder
<1>4. ASSUME Parent(k) = h, h > 0 PROVE f[Parent(h)] <= f[k]
  <2>1. CASE i = h
    BY <1>4, <2>1 DEF DownOrder
  <2>2. CASE i # h
    <3>1. h \in 1..(n - 1) /\ Parent(h) \in 0..(n - 1)
      BY <1>2, <1>4, ParentBelow
    <3>2. f[Parent(h)] <= f[h]
      BY <2>2, <3>1 DEF DownOrder
    <3>3. f[h] <= f[k]
      BY <1>2, <1>3, <1>4
    <3> QED
      BY <1>4, <1>2, <3>1, <3>2, <3>3
  <2> QED
    BY <2>1, <2>2
<1> QED
  BY <1>3, <1>4

\* Putting the last item of a heap at position i breaks the order only there.
LEMMA RemoveSwapOrder ==
    ASSUME NEW n \in Nat, NEW f, NEW g, NEW i \in 0..(n - 1),
           Heap(f, n), \A k \in 0..(n - 1) : f[k] \in Int,
           \A k \in 0..(n - 1) : g[k] = IF k = i THEN f[n - 1]
                                        ELSE IF k = n - 1 THEN f[i] ELSE f[k]
    PROVE  DownOrder(g, n - 1, i, i)
<1>1. SUFFICES ASSUME NEW k \in 1..(n - 2)
               PROVE  /\ Parent(k) # i /\ k # i => g[Parent(k)] <= g[k]
                      /\ Parent(k) = i /\ i > 0 => g[Parent(i)] <= g[k]
  BY DEF DownOrder
<1>2. k \in 1..(n - 1) /\ Parent(k) \in 0..(n - 1) /\ Parent(k) < k
  BY ParentFacts, ParentBelow, SMTT(20)
<1>3. f[Parent(k)] <= f[k]
  BY <1>2 DEF Heap
<1>4. ASSUME Parent(k) # i, k # i PROVE g[Parent(k)] <= g[k]
  <2>1. g[k] = f[k]
    BY <1>2, <1>4
  <2>2. g[Parent(k)] = f[Parent(k)]
    BY <1>2, <1>4
  <2> QED
    BY <1>3, <2>1, <2>2
<1>5. ASSUME Parent(k) = i, i > 0 PROVE g[Parent(i)] <= g[k]
  <2>1. Parent(i) \in 0..(n - 1) /\ Parent(i) < i /\ i \in 1..(n - 1)
    BY <1>5, ParentFacts, ParentBelow
  <2>2. f[Parent(i)] <= f[i] /\ f[i] <= f[k]
    BY <1>3, <1>5, <2>1 DEF Heap
  <2>3. g[Parent(i)] = f[Parent(i)] /\ g[k] = f[k]
    BY <1>2, <1>5, <2>1
  <2>4. f[Parent(i)] \in Int /\ f[i] \in Int /\ f[k] \in Int
    BY <1>2, <2>1
  <2> QED
    BY <2>2, <2>3, <2>4
<1> QED
  BY <1>4, <1>5

(***************************************************************************)
(* The invariant is inductive                                              *)
(***************************************************************************)

\* What a swap does to the slice, and that the positions stay recorded.
LEMMA SwapFacts ==
    ASSUME TypeOK, IndexNamesPosition, NEW i \in Nat, NEW j \in Nat,
           i < Len(pq), j < Len(pq), Swap(i, j)
    PROVE  /\ pq' \in Seq(Items) /\ Len(pq') = Len(pq)
           /\ \A k \in 0..(Len(pq) - 1) :
                pq'[k + 1] = IF k = i THEN pq[j + 1]
                             ELSE IF k = j THEN pq[i + 1] ELSE pq[k + 1]
           /\ index' \in [Items -> Nat \cup {-1}]
           /\ IndexNamesPosition'
<1>1. /\ pq \in Seq(Items) /\ pq[i + 1] \in Items /\ pq[j + 1] \in Items
      /\ index \in [Items -> Nat \cup {-1}]
  BY DEF TypeOK
<1>2. pq' \in Seq(Items) /\ Len(pq') = Len(pq)
  BY <1>1 DEF Swap, At
<1>3. \A k \in 1..Len(pq) :
        pq'[k] = IF k = j + 1 THEN pq[i + 1]
                 ELSE IF k = i + 1 THEN pq[j + 1] ELSE pq[k]
  BY <1>1 DEF Swap, At
<1>4. index' \in [Items -> Nat \cup {-1}]
  BY <1>1 DEF Swap, At
<1>5. ASSUME NEW k \in 1..Len(pq) PROVE index'[pq'[k]] = k - 1
  <2>1. \A l \in 1..Len(pq) : pq[l] \in Items /\ index[pq[l]] = l - 1
    BY <1>1 DEF IndexNamesPosition
  <2>2. \A x \in Items : index'[x] = IF x = pq[i + 1] THEN j
                             ELSE IF x = pq[j + 1] THEN i ELSE index[x]
    BY <1>1 DEF Swap, At
  <2> QED
    BY <1>1, <1>3, <2>1, <2>2, SMTT(20)
<1> QED
  BY <1>2, <1>3, <1>4, <1>5 DEF IndexNamesPosition

\* Every position of the slice holds an item with an integer deadline.
LEMMA PositionTypes ==
    ASSUME TypeOK
    PROVE  /\ pq \in Seq(Items) /\ Len(pq) \in Nat
           /\ \A k \in 0..(Len(pq) - 1) :
                /\ pq[k + 1] \in Items
                /\ Deadlines[k] = pri[pq[k + 1]]
                /\ Deadlines[k] \in Int
<1>1. pq \in Seq(Items) /\ pri \in [Items -> Pris] /\ Pris \subseteq Int
  BY PqueueAssumption DEF TypeOK
<1>2. \A k \in 1..Len(pq) : pq[k] \in Items
  BY <1>1
<1>3. \A x \in Items : pri[x] \in Int
  BY <1>1
<1>4. Len(pq) \in Nat
  BY <1>1
<1>5. ASSUME NEW k \in 0..(Len(pq) - 1)
      PROVE  /\ pq[k + 1] \in Items
             /\ Deadlines[k] = pri[pq[k + 1]]
             /\ Deadlines[k] \in Int
  <2>1. k + 1 \in 1..Len(pq)
    BY <1>4
  <2>2. Deadlines[k] = pri[pq[k + 1]]
    BY DEF Deadlines, At
  <2> QED
    BY <1>2, <1>3, <2>1, <2>2
<1> QED
  BY <1>1, <1>4, <1>5

\* An empty slice satisfies the invariant.
LEMMA InitPqueue == Init => PqueueInv
BY PqueueAssumption
DEF Init, PqueueInv, TypeOK, IndexNamesPosition, CapSuffices, ControlInv,
    ReturnInv, OrderInv, NoRequest, Requests, Heap

\* Push: the new item is the one exception to the order.
LEMMA PushStep ==
    ASSUME PqueueInv, NEW x \in Items, NEW p \in Pris, Push(x, p)
    PROVE  PqueueInv'
<1> USE DEF PqueueInv
<1>1. /\ pq \in Seq(Items) /\ Len(pq) \in Nat /\ pc = "idle"
      /\ pri \in [Items -> Pris] /\ index \in [Items -> Nat \cup {-1}]
      /\ \A k \in 1..Len(pq) : pq[k] \in Items /\ pq[k] # x
  BY DEF TypeOK, Push
<1>2. /\ pq' \in Seq(Items) /\ Len(pq') = Len(pq) + 1 /\ pq'[Len(pq) + 1] = x
      /\ \A k \in 1..Len(pq) : pq'[k] = pq[k]
  BY <1>1 DEF Push
<1>3. request' = [op |-> "push", item |-> x] /\ pc' = "up" /\ pos' = Len(pq)
  BY DEF Push
<1>4. request' \in Requests /\ request' # NoRequest /\ request'.op = "push"
  BY <1>3 DEF Requests, NoRequest
<1>5. capacity' \in Nat \ {0} /\ Len(pq') <= capacity'
  BY <1>2 DEF TypeOK, CapSuffices, Push, Grown
<1>6. TypeOK'
  BY <1>1, <1>2, <1>3, <1>4, <1>5 DEF TypeOK, Push
<1>7. IndexNamesPosition'
  BY <1>1, <1>2 DEF IndexNamesPosition, Push
<1>8. ControlInv' /\ ReturnInv'
  BY <1>1, <1>2, <1>3, <1>4 DEF ControlInv, ReturnInv, Bound
<1>9. OrderInv'
  <2>1. Bound' = Len(pq) + 1
    BY <1>2, <1>4 DEF Bound
  <2>2. \A k \in 0..(Len(pq) - 1) : Deadlines'[k] = Deadlines[k]
    BY <1>1, <1>2 DEF Deadlines, At, Push
  <2>3. \A k \in 1..Len(pq) : Parent(k) \in 0..(Len(pq) - 1)
    BY <1>1, ParentBelow
  <2>4. UpOrder(Deadlines', Len(pq) + 1, Len(pq))
    BY <1>1, <2>2, <2>3, SMTT(20) DEF OrderInv, Heap, UpOrder
  <2> QED
    BY <1>3, <2>1, <2>4 DEF OrderInv
<1> QED
  BY <1>5, <1>6, <1>7, <1>8, <1>9 DEF CapSuffices

\* The start of a shift or a removal changes nothing.
LEMMA CallStep ==
    ASSUME PqueueInv,
           \/ \E x \in Items : CallRemove(x)
           \/ \E max \in Pris : CallPeekAndShift(max)
    PROVE  PqueueInv'
<1> USE DEF PqueueInv
<1>1. PICK r \in [op : {"remove"}, item : Items] \cup [op : {"shift"}, max : Pris] :
        /\ Call(r)
        /\ r.op = "remove" => \E i \in 1..Len(pq) : pq[i] = r.item
  <2>1. CASE \E x \in Items : CallRemove(x)
    <3>1. PICK x \in Items : CallRemove(x)
      BY <2>1
    <3> QED
      BY <3>1 DEF CallRemove
  <2>2. CASE \E max \in Pris : CallPeekAndShift(max)
    <3>1. PICK max \in Pris : CallPeekAndShift(max)
      BY <2>2
    <3> QED
      BY <3>1 DEF CallPeekAndShift
  <2> QED
    BY <2>1, <2>2
<1>2. r \in Requests /\ r.op \in {"remove", "shift"} /\ r # NoRequest
  BY <1>1 DEF Requests, NoRequest
<1>3. /\ pc = "idle" /\ pc' = "start" /\ request' = r
      /\ UNCHANGED <<pq, capacity, pri, index, pos, hole, result>>
  BY <1>1 DEF Call
<1>4. TypeOK'
  BY <1>2, <1>3 DEF TypeOK
<1>5. IndexNamesPosition' /\ CapSuffices'
  BY <1>3 DEF IndexNamesPosition, CapSuffices
<1>6. ControlInv' /\ ReturnInv'
  BY <1>1, <1>2, <1>3 DEF ControlInv, ReturnInv
<1>7. Deadlines' = Deadlines
  BY <1>3 DEF Deadlines, At
<1>8. OrderInv'
  BY <1>3, <1>7 DEF OrderInv
<1> QED
  BY <1>4, <1>5, <1>6, <1>8

\* PeekAndShift with nothing due changes nothing.
LEMMA NothingStep == ASSUME PqueueInv, PeekAndShiftNothing PROVE PqueueInv'
<1> USE DEF PqueueInv
<1>1. /\ pc = "start" /\ pc' = "idle" /\ request' = NoRequest
      /\ pos' = 0 /\ hole' = 0 /\ result' = NoItem
      /\ UNCHANGED <<pq, capacity, pri, index>>
  BY DEF PeekAndShiftNothing, Return
<1>2. TypeOK'
  BY <1>1 DEF TypeOK, Requests
<1>3. IndexNamesPosition' /\ CapSuffices'
  BY <1>1 DEF IndexNamesPosition, CapSuffices
<1>4. ControlInv' /\ ReturnInv'
  BY <1>1 DEF ControlInv, ReturnInv, NoRequest
<1>5. Deadlines' = Deadlines
  BY <1>1 DEF Deadlines, At
<1>6. OrderInv'
  BY <1>1, <1>5 DEF OrderInv
<1> QED
  BY <1>2, <1>3, <1>4, <1>6

\* A swap exchanges two deadlines.
LEMMA SwapDeadlines ==
    ASSUME TypeOK, IndexNamesPosition, NEW i \in Nat, NEW j \in Nat,
           i < Len(pq), j < Len(pq), Swap(i, j), UNCHANGED pri
    PROVE  \A k \in 0..(Len(pq) - 1) :
                Deadlines'[k] = IF k = i THEN Deadlines[j]
                                ELSE IF k = j THEN Deadlines[i] ELSE Deadlines[k]
<1>1. Len(pq') = Len(pq) /\ Len(pq) \in Nat
  BY SwapFacts, PositionTypes
<1>2. \A k \in 0..(Len(pq) - 1) : Deadlines'[k] = pri[pq'[k + 1]]
  BY <1>1 DEF Deadlines, At
<1>3. \A k \in 0..(Len(pq) - 1) :
                pq'[k + 1] = IF k = i THEN pq[j + 1]
                             ELSE IF k = j THEN pq[i + 1] ELSE pq[k + 1]
  BY SwapFacts
<1>4. \A k \in 0..(Len(pq) - 1) : Deadlines[k] = pri[pq[k + 1]]
  BY PositionTypes
<1>5. i \in 0..(Len(pq) - 1) /\ j \in 0..(Len(pq) - 1)
  BY <1>1
<1> QED
  BY <1>2, <1>3, <1>4, <1>5

\* Pop: the root, which is the earliest, goes behind the heap.
LEMMA PopStep == ASSUME PqueueInv, Pop PROVE PqueueInv'
<1> USE DEF PqueueInv
<1>1. /\ pc = "start" /\ request.op = "shift" /\ Len(pq) > 0 /\ Due(At(0))
      /\ Swap(0, Len(pq) - 1) /\ pc' = "down" /\ pos' = 0
      /\ UNCHANGED <<capacity, pri, hole, request, result>>
  BY DEF Pop
<1>2. Len(pq) \in Nat /\ Len(pq) - 1 \in Nat
  BY <1>1, PositionTypes
<1>3. /\ pq' \in Seq(Items) /\ Len(pq') = Len(pq)
      /\ \A k \in 0..(Len(pq) - 1) :
           pq'[k + 1] = IF k = 0 THEN pq[Len(pq) - 1 + 1]
                        ELSE IF k = Len(pq) - 1 THEN pq[0 + 1] ELSE pq[k + 1]
      /\ index' \in [Items -> Nat \cup {-1}]
      /\ IndexNamesPosition'
  BY <1>1, <1>2, SwapFacts
<1>4. \A k \in 0..(Len(pq) - 1) :
         Deadlines'[k] = IF k = 0 THEN Deadlines[Len(pq) - 1]
                         ELSE IF k = Len(pq) - 1 THEN Deadlines[0] ELSE Deadlines[k]
  BY <1>1, <1>2, SwapDeadlines
<1>5. hole = 0 /\ hole' = 0 /\ Heap(Deadlines, Len(pq))
  BY <1>1 DEF ControlInv, OrderInv
<1>6. TypeOK' /\ CapSuffices'
  BY <1>1, <1>2, <1>3 DEF TypeOK, CapSuffices
<1>7. ControlInv'
  BY <1>1, <1>2, <1>3, <1>5 DEF ControlInv, Bound
<1>8. ReturnInv'
  <2>1. \A k \in 0..(Len(pq) - 1) : Deadlines[k] \in Int
    BY PositionTypes
  <2>2. \A k \in 0..(Len(pq) - 1) : Deadlines[0] <= Deadlines[k]
    BY <1>2, <1>5, <2>1, RootIsEarliest DEF Heap
  <2>3. \A k \in 0..(Len(pq) - 1) : Deadlines'[Len(pq) - 1] <= Deadlines'[k]
    BY <1>2, <1>4, <2>1, <2>2
  <2>4. pq'[Len(pq)] = pq[1]
    <3>1. PICK n \in Nat : n = Len(pq) /\ n - 1 \in 0..(n - 1) /\ n - 1 + 1 = n
      BY <1>2
    <3>2. pq'[n - 1 + 1] = IF n - 1 = 0 THEN pq[n - 1 + 1] ELSE pq[0 + 1]
      BY <1>3, <3>1
    <3> QED
      BY <3>1, <3>2
  <2>5. Due(At(Len(pq) - 1))'
    BY <1>1, <1>2, <1>3, <2>4 DEF Due, At
  <2> QED
    BY <1>1, <1>3, <2>3, <2>5 DEF ReturnInv
<1>9. OrderInv'
  <2>1. \A k \in 0..(Len(pq) - 1) : Deadlines[k] \in Int
    BY PositionTypes
  <2>2. DownOrder(Deadlines', Len(pq) - 1, 0, 0)
    <3>1. 0 \in 0..(Len(pq) - 1)
      BY <1>2
    <3> QED
      BY <1>2, <1>4, <1>5, <2>1, <3>1, RemoveSwapOrder
  <2>3. Bound' = Len(pq) - 1
    BY <1>1, <1>3 DEF Bound
  <2> QED
    BY <1>1, <1>5, <2>2, <2>3 DEF OrderInv
<1> QED
  BY <1>3, <1>6, <1>7, <1>8, <1>9

\* Remove: the item at its recorded position goes behind the heap.
LEMMA RemoveStep == ASSUME PqueueInv, Remove PROVE PqueueInv'
<1> USE DEF PqueueInv
<1>1. /\ pc = "start" /\ request.op = "remove"
      /\ UNCHANGED <<capacity, pri, request, result>>
  BY DEF Remove
<1>2. PICK i \in Nat : /\ i = index[request.item] /\ i < Len(pq)
                       /\ pq[i + 1] = request.item
  <2>1. PICK k \in 1..Len(pq) : pq[k] = request.item
    BY <1>1 DEF ControlInv
  <2>2. index[request.item] = k - 1
    BY <2>1 DEF IndexNamesPosition
  <2>3. Len(pq) \in Nat
    BY PositionTypes
  <2> QED
    BY <2>1, <2>2, <2>3
<1>3. PICK n \in Nat : n = Len(pq) /\ n > 0 /\ n - 1 \in Nat /\ n - 1 + 1 = n
  <2>1. Len(pq) \in Nat
    BY PositionTypes
  <2> QED
    BY <1>2, <2>1
<1>4. hole' = i /\ pos' = i /\ request # NoRequest
  BY <1>1, <1>2 DEF Remove, NoRequest
<1>5. \A k \in 0..(n - 1) : Deadlines[k] \in Int
  BY <1>3, PositionTypes
<1>6. Heap(Deadlines, n)
  BY <1>1, <1>3 DEF OrderInv
<1>7. CASE i = n - 1
  <2>1. pc' = "finish" /\ UNCHANGED <<pq, index>>
    BY <1>2, <1>3, <1>7 DEF Remove
  <2>2. TypeOK' /\ IndexNamesPosition' /\ CapSuffices'
    BY <1>1, <1>4, <2>1 DEF TypeOK, IndexNamesPosition, CapSuffices
  <2>3. ControlInv'
    BY <1>1, <1>3, <2>1 DEF ControlInv
  <2>4. ReturnInv'
    BY <1>1, <1>2, <1>3, <1>7, <2>1 DEF ReturnInv, At
  <2>5. Deadlines' = Deadlines
    BY <1>1, <2>1 DEF Deadlines, At
  <2>6. OrderInv'
    BY <1>3, <1>6, <2>1, <2>5 DEF OrderInv, Heap
  <2> QED
    BY <2>2, <2>3, <2>4, <2>6
<1>8. CASE i # n - 1
  <2>1. pc' = "down" /\ Swap(i, n - 1) /\ i < n - 1
    BY <1>2, <1>3, <1>8 DEF Remove
  <2>2. /\ pq' \in Seq(Items) /\ Len(pq') = n
        /\ \A k \in 0..(n - 1) :
             pq'[k + 1] = IF k = i THEN pq[n - 1 + 1]
                          ELSE IF k = n - 1 THEN pq[i + 1] ELSE pq[k + 1]
        /\ index' \in [Items -> Nat \cup {-1}]
        /\ IndexNamesPosition'
    BY <1>2, <1>3, <2>1, SwapFacts
  <2>3. \A k \in 0..(n - 1) :
           Deadlines'[k] = IF k = i THEN Deadlines[n - 1]
                           ELSE IF k = n - 1 THEN Deadlines[i] ELSE Deadlines[k]
    BY <1>1, <1>2, <1>3, <2>1, SwapDeadlines, SMTT(20)
  <2>4. TypeOK' /\ CapSuffices'
    BY <1>1, <1>2, <1>3, <1>4, <2>1, <2>2 DEF TypeOK, CapSuffices
  <2>5. Bound' = n - 1
    BY <1>1, <2>2 DEF Bound
  <2>6. ControlInv'
    BY <1>1, <1>3, <1>4, <2>1, <2>2, <2>5 DEF ControlInv
  <2>7. ReturnInv'
    <3>1. pq'[n - 1 + 1] = pq[i + 1]
      BY <1>3, <2>1, <2>2
    <3> QED
      BY <1>1, <1>2, <1>3, <2>1, <2>2, <3>1 DEF ReturnInv, At
  <2>8. i \in 0..(n - 1)
    BY <2>1
  <2>9. DownOrder(Deadlines', n - 1, i, i)
    BY <1>5, <1>6, <2>3, <2>8, RemoveSwapOrder
  <2>10. OrderInv'
    BY <1>4, <2>1, <2>5, <2>9 DEF OrderInv
  <2> QED
    BY <2>2, <2>4, <2>6, <2>7, <2>10
<1> QED
  BY <1>7, <1>8

\* One iteration of up.
LEMMA UpSwapStep == ASSUME PqueueInv, UpSwap PROVE PqueueInv'
<1> USE DEF PqueueInv
<1>1. /\ pc = "up" /\ ~UpStops(pos) /\ Swap(Parent(pos), pos)
      /\ pos' = Parent(pos)
      /\ UNCHANGED <<capacity, pri, pc, hole, request, result>>
  BY DEF UpSwap
<1>2. PICK n \in Nat : n = Len(pq)
  BY PositionTypes
<1>3. PICK b \in Nat : /\ b = Bound /\ b <= n
                       /\ request.op = "remove" => b = n - 1
                       /\ request.op = "push" => b = n
  BY <1>1, <1>2 DEF Bound, ControlInv, TypeOK
<1>4. PICK j \in Nat : j = pos /\ j < b
  BY <1>1, <1>3 DEF TypeOK, ControlInv
<1>5. PICK i \in Nat : i = Parent(j) /\ i < j
  BY <1>1, <1>4, ParentFacts DEF UpStops
<1>6. /\ pq' \in Seq(Items) /\ Len(pq') = n
      /\ \A k \in 0..(n - 1) :
           pq'[k + 1] = IF k = i THEN pq[j + 1]
                        ELSE IF k = j THEN pq[i + 1] ELSE pq[k + 1]
      /\ index' \in [Items -> Nat \cup {-1}]
      /\ IndexNamesPosition'
  BY <1>1, <1>2, <1>3, <1>4, <1>5, SwapFacts
<1>7. \A k \in 0..(n - 1) :
         Deadlines'[k] = IF k = i THEN Deadlines[j]
                         ELSE IF k = j THEN Deadlines[i] ELSE Deadlines[k]
  BY <1>1, <1>2, <1>3, <1>4, <1>5, SwapDeadlines
<1>8. TypeOK' /\ CapSuffices'
  BY <1>1, <1>2, <1>3, <1>4, <1>5, <1>6 DEF TypeOK, CapSuffices
<1>9. Bound' = b
  BY <1>1, <1>2, <1>3, <1>6 DEF Bound
<1>10. ControlInv'
  BY <1>1, <1>2, <1>3, <1>4, <1>5, <1>6, <1>9 DEF ControlInv
<1>11. ReturnInv'
  <2>1. request.op \in {"push", "remove"}
    BY <1>1 DEF ControlInv
  <2>2. request.op = "remove" => pq'[n - 1 + 1] = pq[n - 1 + 1]
    BY <1>3, <1>4, <1>5, <1>6
  <2> QED
    BY <1>1, <1>2, <1>6, <2>1, <2>2 DEF ReturnInv, At
<1>12. OrderInv'
  <2>1. \A k \in 0..(b - 1) : Deadlines[k] \in Int
    BY <1>2, <1>3, PositionTypes
  <2>2. UpOrder(Deadlines, b, j)
    BY <1>1, <1>3, <1>4 DEF OrderInv
  <2>3. pri[pq[j + 1]] < pri[pq[i + 1]]
    <3>1. Deadlines[j] = pri[pq[j + 1]] /\ Deadlines[i] = pri[pq[i + 1]]
      BY <1>2, <1>3, <1>4, <1>5, PositionTypes
    <3> QED
      BY <1>1, <1>4, <1>5, <1>3, <2>1, <3>1 DEF UpStops, At
  <2>4. Deadlines[j] < Deadlines[i]
    BY <1>2, <1>3, <1>4, <1>5, <2>3, PositionTypes, SMTT(20)
  <2>5. \A k \in 0..(b - 1) :
           Deadlines'[k] = IF k = Parent(j) THEN Deadlines[j]
                           ELSE IF k = j THEN Deadlines[Parent(j)] ELSE Deadlines[k]
    BY <1>3, <1>5, <1>7
  <2>6. j \in 1..(b - 1)
    BY <1>4, <1>5
  <2>7. UpOrder(Deadlines', b, Parent(j))
    BY <1>5, <2>1, <2>2, <2>4, <2>5, <2>6, UpSwapOrder
  <2> QED
    BY <1>1, <1>4, <1>9, <2>7 DEF OrderInv
<1> QED
  BY <1>6, <1>8, <1>10, <1>11, <1>12

\* The end of up restores the order.
LEMMA UpBreakStep == ASSUME PqueueInv, UpBreak PROVE PqueueInv'
<1> USE DEF PqueueInv
<1>1. /\ pc = "up" /\ UpStops(pos) /\ UNCHANGED <<pq, capacity, pri, index>>
      /\ request.op = "push" => Return(result)
      /\ request.op # "push" =>
            pc' = "finish" /\ UNCHANGED <<pos, hole, request, result>>
  BY DEF UpBreak
<1>2. PICK n \in Nat : n = Len(pq)
  BY PositionTypes
<1>3. PICK b \in Nat : /\ b = Bound /\ b <= n
                       /\ request.op = "remove" => b = n - 1
                       /\ request.op = "push" => b = n
  BY <1>1, <1>2 DEF Bound, ControlInv, TypeOK
<1>4. PICK j \in Nat : j = pos /\ j < b
  BY <1>1, <1>3 DEF TypeOK, ControlInv
<1>5. Deadlines' = Deadlines
  BY <1>1 DEF Deadlines, At
<1>6. Heap(Deadlines, b)
  <2>1. \A k \in 0..(b - 1) : Deadlines[k] = pri[pq[k + 1]] /\ Deadlines[k] \in Int
    BY <1>2, <1>3, PositionTypes
  <2>2. UpOrder(Deadlines, b, j)
    BY <1>1, <1>3, <1>4 DEF OrderInv
  <2>3. j > 0 => Deadlines[Parent(j)] <= Deadlines[j]
    <3>1. j > 0 => Parent(j) \in 0..(b - 1) /\ Parent(j) # j
      BY <1>4, ParentFacts
    <3> QED
      BY <1>1, <1>4, <2>1, <3>1 DEF UpStops, At
  <2> QED
    BY <2>2, <2>3 DEF UpOrder, Heap
<1>7. IndexNamesPosition' /\ CapSuffices'
  BY <1>1 DEF IndexNamesPosition, CapSuffices
<1>8. CASE request.op = "push"
  <2>1. /\ pc' = "idle" /\ request' = NoRequest /\ pos' = 0 /\ hole' = 0
        /\ result' = result
    BY <1>1, <1>8 DEF Return
  <2>2. TypeOK'
    BY <1>1, <2>1 DEF TypeOK, Requests
  <2>3. ControlInv' /\ ReturnInv'
    BY <2>1 DEF ControlInv, ReturnInv, NoRequest
  <2>4. OrderInv'
    BY <1>1, <1>2, <1>3, <1>5, <1>6, <1>8, <2>1 DEF OrderInv
  <2> QED
    BY <1>7, <2>2, <2>3, <2>4
<1>9. CASE request.op = "remove"
  <2>1. pc' = "finish" /\ UNCHANGED <<pos, hole, request, result>>
    BY <1>1, <1>9
  <2>2. TypeOK'
    BY <1>1, <2>1 DEF TypeOK
  <2>3. ControlInv' /\ ReturnInv'
    BY <1>1, <1>2, <1>3, <1>4, <1>9, <2>1 DEF ControlInv, ReturnInv, At
  <2>4. OrderInv'
    BY <1>1, <1>2, <1>3, <1>5, <1>6, <1>9, <2>1 DEF OrderInv
  <2> QED
    BY <1>7, <2>2, <2>3, <2>4
<1> QED
  BY <1>1, <1>8, <1>9 DEF ControlInv

\* The child that down looks at is a child, and no child is earlier.
LEMMA SmallerChildFacts ==
    ASSUME TypeOK, NEW i \in Nat, NEW b \in Nat, b = Bound, b <= Len(pq),
           2 * i + 1 < b
    PROVE  /\ SmallerChild(i) \in 1..(b - 1)
           /\ Parent(SmallerChild(i)) = i
           /\ \A k \in 1..(b - 1) :
                Parent(k) = i => Deadlines[SmallerChild(i)] <= Deadlines[k]
<1>1. /\ SmallerChild(i) \in {2 * i + 1, 2 * i + 2}
      /\ SmallerChild(i) = 2 * i + 2 =>
            2 * i + 2 < b /\ pri[At(2 * i + 1)] >= pri[At(2 * i + 2)]
      /\ SmallerChild(i) = 2 * i + 1 =>
            ~(2 * i + 2 < b /\ pri[At(2 * i + 1)] >= pri[At(2 * i + 2)])
  BY DEF SmallerChild
<1>2. SmallerChild(i) \in 1..(b - 1)
  BY <1>1
<1>3. Parent(SmallerChild(i)) = i
  BY <1>1, ParentFacts
<1>4. ASSUME NEW k \in 1..(b - 1), Parent(k) = i
      PROVE  Deadlines[SmallerChild(i)] <= Deadlines[k]
  <2>1. k = 2 * i + 1 \/ k = 2 * i + 2
    BY <1>4, ParentChildren
  <2>2. Len(pq) \in Nat
    BY PositionTypes
  <2>3. \A l \in 0..(b - 1) : Deadlines[l] = pri[At(l)] /\ Deadlines[l] \in Int
    BY <2>2, PositionTypes DEF At
  <2>4. CASE SmallerChild(i) = k
    BY <1>2, <2>3, <2>4
  <2>5. CASE SmallerChild(i) # k
    <3>1. pri[At(SmallerChild(i))] <= pri[At(k)]
      <4>1. 2 * i + 1 \in 0..(b - 1)
        OBVIOUS
      <4>2. CASE k = 2 * i + 1
        BY <1>1, <2>3, <2>5, <4>1, <4>2
      <4>3. CASE k = 2 * i + 2
        BY <1>1, <1>4, <2>3, <2>5, <4>1, <4>3
      <4> QED
        BY <2>1, <4>2, <4>3
    <3>2. k \in 0..(b - 1) /\ SmallerChild(i) \in 0..(b - 1)
      BY <1>2
    <3> QED
      BY <2>3, <3>1, <3>2
  <2> QED
    BY <2>4, <2>5
<1> QED
  BY <1>2, <1>3, <1>4

\* One iteration of down.
LEMMA DownSwapStep == ASSUME PqueueInv, DownSwap PROVE PqueueInv'
<1> USE DEF PqueueInv
<1>1. /\ pc = "down" /\ ~DownStops(pos) /\ Swap(pos, SmallerChild(pos))
      /\ pos' = SmallerChild(pos)
      /\ UNCHANGED <<capacity, pri, pc, hole, request, result>>
      /\ request.op \in {"shift", "remove"} /\ Len(pq) > 0
  BY DEF DownSwap, ControlInv
<1>2. PICK n \in Nat : n = Len(pq) /\ n > 0
  BY <1>1, PositionTypes
<1>3. PICK b \in Nat : b = Bound /\ b = n - 1
  BY <1>1, <1>2, SMTT(20) DEF Bound
<1>4. PICK i \in Nat : i = pos /\ 2 * i + 1 < b
  BY <1>1, <1>3 DEF TypeOK, DownStops
<1>5. PICK c \in 1..(b - 1) :
         /\ c = SmallerChild(i) /\ Parent(c) = i
         /\ \A k \in 1..(b - 1) : Parent(k) = i => Deadlines[c] <= Deadlines[k]
  BY <1>2, <1>3, <1>4, SmallerChildFacts, SMTT(20)
<1>6. /\ pq' \in Seq(Items) /\ Len(pq') = n
      /\ \A k \in 0..(n - 1) :
           pq'[k + 1] = IF k = i THEN pq[c + 1]
                        ELSE IF k = c THEN pq[i + 1] ELSE pq[k + 1]
      /\ index' \in [Items -> Nat \cup {-1}]
      /\ IndexNamesPosition'
  BY <1>1, <1>2, <1>3, <1>4, <1>5, SwapFacts
<1>7. \A k \in 0..(n - 1) :
         Deadlines'[k] = IF k = i THEN Deadlines[c]
                         ELSE IF k = c THEN Deadlines[i] ELSE Deadlines[k]
  BY <1>1, <1>2, <1>3, <1>4, <1>5, SwapDeadlines
<1>8. TypeOK' /\ CapSuffices'
  BY <1>1, <1>2, <1>3, <1>4, <1>5, <1>6 DEF TypeOK, CapSuffices
<1>9. Bound' = b
  BY <1>1, <1>2, <1>3, <1>6 DEF Bound
<1>10. ControlInv'
  BY <1>1, <1>2, <1>3, <1>4, <1>5, <1>6, <1>9 DEF ControlInv
<1>11. \A k \in 0..(n - 1) : Deadlines[k] = pri[pq[k + 1]] /\ Deadlines[k] \in Int
  BY <1>2, PositionTypes
<1>12. ReturnInv'
  <2>1. pq'[n] = pq[n]
    <3>1. PICK l \in 0..(n - 1) : l # i /\ l # c /\ l + 1 = n
      BY <1>2, <1>3, <1>4, <1>5
    <3> QED
      BY <1>6, <3>1
  <2>2. ASSUME request.op = "shift"
        PROVE  \A k \in 0..(n - 1) : Deadlines'[n - 1] <= Deadlines'[k]
    <3>1. \A k \in 0..(n - 1) : Deadlines[n - 1] <= Deadlines[k]
      BY <1>1, <1>2, <2>2 DEF ReturnInv
    <3>2. Deadlines'[n - 1] = Deadlines[n - 1]
      BY <1>2, <1>3, <1>4, <1>5, <1>7
    <3>3. i \in 0..(n - 1) /\ c \in 0..(n - 1)
      BY <1>3, <1>4, <1>5
    <3> QED
      BY <1>7, <3>1, <3>2, <3>3
  <2>3. At(Len(pq) - 1) = pq[n] /\ At(Len(pq) - 1)' = pq[n]
    BY <1>2, <1>6, <2>1 DEF At
  <2>4. request.op = "shift" => pri[pq[n]] <= request.max
    BY <1>1, <2>3 DEF ReturnInv, Due
  <2>5. request.op = "remove" => pq[n] = request.item
    BY <1>1, <2>3 DEF ReturnInv
  <2> QED
    BY <1>1, <1>6, <2>2, <2>3, <2>4, <2>5 DEF ReturnInv, Due
<1>13. OrderInv'
  <2>1. \A k \in 0..(b - 1) : Deadlines[k] \in Int
    BY <1>3, <1>11
  <2>2. DownOrder(Deadlines, b, i, hole)
    BY <1>1, <1>3, <1>4 DEF OrderInv
  <2>3. Deadlines[c] < Deadlines[i]
    <3>1. ~(pri[At(c)] >= pri[At(i)])
      BY <1>1, <1>3, <1>4, <1>5 DEF DownStops
    <3>2. i \in 0..(n - 1) /\ c \in 0..(n - 1)
      BY <1>3, <1>4, <1>5
    <3> QED
      BY <1>11, <3>1, <3>2 DEF At
  <2>4. \A k \in 0..(b - 1) :
           Deadlines'[k] = IF k = i THEN Deadlines[c]
                           ELSE IF k = c THEN Deadlines[i] ELSE Deadlines[k]
    BY <1>3, <1>7
  <2>5. i \in 0..(b - 1) /\ hole \in Nat
    BY <1>4 DEF TypeOK
  <2>6. DownOrder(Deadlines', b, c, hole)
    BY <1>5, <2>1, <2>2, <2>3, <2>4, <2>5, DownSwapOrder
  <2> QED
    BY <1>1, <1>4, <1>5, <1>9, <2>6 DEF OrderInv
<1> QED
  BY <1>6, <1>8, <1>10, <1>12, <1>13

\* The end of down leaves at most the edge above the hole.
LEMMA DownBreakStep == ASSUME PqueueInv, DownBreak PROVE PqueueInv'
<1> USE DEF PqueueInv
<1>1. /\ pc = "down" /\ DownStops(pos)
      /\ pc' = IF request.op = "remove" THEN "up" ELSE "finish"
      /\ pos' = IF request.op = "remove" THEN hole ELSE pos
      /\ UNCHANGED <<pq, capacity, pri, index, hole, request, result>>
      /\ request.op \in {"shift", "remove"} /\ Len(pq) > 0
  BY DEF DownBreak, ControlInv
<1>2. PICK n \in Nat : n = Len(pq) /\ n > 0
  BY <1>1, PositionTypes
<1>3. PICK b \in Nat : b = Bound /\ b = n - 1
  <2>1. request.op # "push"
    BY <1>1
  <2> QED
    BY <1>2, <2>1 DEF Bound
<1>4. PICK i \in Nat : i = pos
  BY DEF TypeOK
<1>5. Deadlines' = Deadlines /\ Bound' = b
  BY <1>1, <1>3 DEF Deadlines, At, Bound
<1>6. \A k \in 0..(n - 1) : Deadlines[k] = pri[pq[k + 1]] /\ Deadlines[k] \in Int
  BY <1>2, PositionTypes
<1>7. \A k \in 1..(b - 1) : Parent(k) = i => Deadlines[i] <= Deadlines[k]
  <2>1. SUFFICES ASSUME NEW k \in 1..(b - 1), Parent(k) = i
                 PROVE  Deadlines[i] <= Deadlines[k]
    OBVIOUS
  <2>2. 2 * i + 1 < b
    BY <2>1, ParentChildren
  <2>3. /\ SmallerChild(i) \in 1..(b - 1)
        /\ Deadlines[SmallerChild(i)] <= Deadlines[k]
    BY <1>2, <1>3, <2>1, <2>2, SmallerChildFacts
  <2>4. pri[At(SmallerChild(i))] >= pri[At(i)]
    BY <1>1, <1>3, <1>4, <2>2 DEF DownStops
  <2>5. i \in 0..(n - 1) /\ SmallerChild(i) \in 0..(n - 1) /\ k \in 0..(n - 1)
    BY <1>3, <2>2, <2>3
  <2> QED
    BY <1>6, <2>3, <2>4, <2>5 DEF At
<1>8. UpOrder(Deadlines, b, hole)
  <2>1. DownOrder(Deadlines, b, i, hole) /\ hole \in Nat
    BY <1>1, <1>3, <1>4 DEF OrderInv, TypeOK
  <2>2. \A k \in 0..(b - 1) : Deadlines[k] \in Int
    BY <1>3, <1>6
  <2> QED
    BY <1>7, <2>1, <2>2, DownBreakOrder
<1>9. IndexNamesPosition' /\ CapSuffices'
  BY <1>1 DEF IndexNamesPosition, CapSuffices
<1>10. ControlInv'
  BY <1>1, <1>2, <1>3, <1>5 DEF ControlInv
<1>11. TypeOK'
  BY <1>1, <1>2, <1>3 DEF TypeOK, ControlInv
<1>12. ReturnInv'
  BY <1>1, <1>5 DEF ReturnInv, At, Due
<1>13. OrderInv'
  <2>1. CASE request.op = "remove"
    BY <1>1, <1>5, <1>8, <2>1 DEF OrderInv
  <2>2. CASE request.op = "shift"
    <3>1. hole = 0
      BY <1>1, <2>2 DEF ControlInv
    <3>2. Heap(Deadlines, b)
      BY <1>8, <3>1 DEF UpOrder, Heap
    <3> QED
      BY <1>1, <1>2, <1>3, <1>5, <2>2, <3>2 DEF OrderInv
  <2> QED
    BY <1>1, <2>1, <2>2
<1> QED
  BY <1>9, <1>10, <1>11, <1>12, <1>13

\* Cutting the slice keeps the order.
LEMMA FinishStep == ASSUME PqueueInv, Finish PROVE PqueueInv'
<1> USE DEF PqueueInv
<1>1. /\ pc = "finish" /\ UNCHANGED pri
      /\ request.op \in {"shift", "remove"} /\ Len(pq) > 0
  BY DEF Finish, ControlInv
<1>2. PICK n \in Nat : n = Len(pq) /\ n > 0 /\ n - 1 \in Nat
  <2>1. Len(pq) \in Nat
    BY PositionTypes
  <2> QED
    BY <1>1, <2>1
<1>3. PICK x \in Items : x = At(n - 1) /\ x = pq[n]
  BY <1>2, PositionTypes DEF At
<1>4. /\ capacity' = IF request.op = "shift" THEN Shrunk(n) ELSE capacity
      /\ index' = [index EXCEPT ![x] = -1]
      /\ pq' = SubSeq(pq, 1, n - 1)
      /\ result' = x /\ request' = NoRequest /\ pc' = "idle"
      /\ pos' = 0 /\ hole' = 0
  BY <1>2, <1>3 DEF Finish, Return
<1>5. /\ pq' \in Seq(Items) /\ Len(pq') = n - 1
      /\ \A k \in 1..(n - 1) : pq'[k] = pq[k]
  BY <1>2, <1>4 DEF TypeOK
<1>6. capacity' \in Nat \ {0} /\ n - 1 <= capacity'
  BY <1>2, <1>4, PqueueAssumption DEF TypeOK, CapSuffices, Shrunk
<1>7. TypeOK' /\ CapSuffices'
  BY <1>1, <1>3, <1>4, <1>5, <1>6 DEF TypeOK, CapSuffices, Requests
<1>8. IndexNamesPosition'
  <2>1. \A k \in 1..n : pq[k] \in Items /\ index[pq[k]] = k - 1
    BY <1>2 DEF TypeOK, IndexNamesPosition
  <2>a. n \in 1..n
    BY <1>2
  <2>b. \A k \in 1..(n - 1) : pq[k] # x
    BY <1>2, <1>3, <2>1, <2>a
  <2>2. \A k \in 1..(n - 1) : index'[pq[k]] = k - 1
    <3>1. index \in [Items -> Nat \cup {-1}]
      BY DEF TypeOK
    <3>2. \A y \in Items : y # x => index'[y] = index[y]
      BY <1>4, <3>1
    <3> QED
      BY <1>2, <2>1, <2>b, <3>2
  <2> QED
    BY <1>5, <2>2 DEF IndexNamesPosition
<1>9. ControlInv' /\ ReturnInv'
  BY <1>4 DEF ControlInv, ReturnInv, NoRequest
<1>10. OrderInv'
  <2>1. Heap(Deadlines, n - 1)
    BY <1>1, <1>2 DEF OrderInv
  <2>2. \A k \in 0..(n - 2) : Deadlines'[k] = Deadlines[k]
    BY <1>1, <1>2, <1>5 DEF Deadlines, At
  <2>3. \A k \in 1..(n - 2) : Parent(k) \in 0..(n - 2)
    BY <1>2 DEF Parent
  <2>4. Heap(Deadlines', n - 1)
    BY <1>2, <2>1, <2>2, <2>3, SMTT(20) DEF Heap
  <2> QED
    BY <1>4, <1>5, <2>4 DEF OrderInv
<1> QED
  BY <1>7, <1>8, <1>9, <1>10

\* Every step preserves the invariant.
LEMMA NextPqueue == PqueueInv /\ [Next]_vars => PqueueInv'
<1> SUFFICES ASSUME PqueueInv, [Next]_vars PROVE PqueueInv'
  OBVIOUS
<1>1. CASE \E x \in Items, p \in Pris : Push(x, p)
  BY <1>1, PushStep
<1>2. CASE \/ \E x \in Items : CallRemove(x)
           \/ \E max \in Pris : CallPeekAndShift(max)
  BY <1>2, CallStep
<1>3. CASE Step
  BY <1>3, NothingStep, PopStep, RemoveStep, UpSwapStep, UpBreakStep,
     DownSwapStep, DownBreakStep, FinishStep DEF Step
<1>4. CASE UNCHANGED vars
  BY <1>4 DEF vars, PqueueInv, TypeOK, IndexNamesPosition, CapSuffices,
              ControlInv, ReturnInv, OrderInv, Deadlines, At, Bound, Due
<1> QED
  BY <1>1, <1>2, <1>3, <1>4 DEF Next, Begin

\* PqueueInv holds in every state.
THEOREM PqueueCorrect == Spec => []PqueueInv
<1> QED
  BY InitPqueue, NextPqueue, PTL DEF Spec

\* Every message of the in-flight heap records its own position, in the
\* middle of any Push, Pop, Remove or PeekAndShift, so that Remove(msg.index)
\* removes msg.
THEOREM PositionsExact == Spec => []IndexNamesPosition
<1>1. PqueueInv => IndexNamesPosition
  BY DEF PqueueInv
<1> QED
  BY <1>1, PqueueCorrect, PTL

\* Type correctness: the array never holds anything but items, an operation
\* in progress has exactly one request, and an idle heap none.
THEOREM TypeCorrect == Spec => []TypeOK
BY PqueueCorrect, PTL DEF PqueueInv

\* Between calls the slice is a heap.
THEOREM OrderKept == Spec => []HeapOrdered
<1>1. PqueueInv => HeapOrdered
  <2> SUFFICES ASSUME PqueueInv, pc = "idle", NEW j \in 1..(Len(pq) - 1)
               PROVE  pri[At(Parent(j))] <= pri[At(j)]
    BY DEF HeapOrdered
  <2>1. Len(pq) \in Nat
    BY PositionTypes DEF PqueueInv
  <2>2. Parent(j) \in 0..(Len(pq) - 1) /\ j \in 0..(Len(pq) - 1)
    BY <2>1 DEF Parent
  <2>3. Deadlines[Parent(j)] <= Deadlines[j]
    BY DEF PqueueInv, OrderInv, Heap
  <2> QED
    BY <2>2, <2>3 DEF Deadlines
<1> QED
  BY <1>1, PqueueCorrect, PTL

\* Growing and shrinking the slice never leaves it shorter than its items.
THEOREM CapacityKept == Spec => []CapSuffices
<1>1. PqueueInv => CapSuffices
  BY DEF PqueueInv
<1> QED
  BY <1>1, PqueueCorrect, PTL

(***************************************************************************)
(* The heap implements PriorityQueue                                       *)
(***************************************************************************)

\* A swap changes nothing a caller can see.
LEMMA SwapContent ==
    ASSUME TypeOK, IndexNamesPosition, NEW i \in Nat, NEW j \in Nat,
           i < Len(pq), j < Len(pq), Swap(i, j)
    PROVE  Content' = Content
<1>1. PICK n \in Nat : n = Len(pq) /\ n = Len(pq')
  BY SwapFacts, PositionTypes
<1>2. \A k \in 0..(n - 1) :
        pq'[k + 1] = IF k = i THEN pq[j + 1]
                     ELSE IF k = j THEN pq[i + 1] ELSE pq[k + 1]
  BY <1>1, SwapFacts
<1>3. \A k \in 1..n : \E l \in 1..n : pq'[k] = pq[l]
  <2> TAKE k \in 1..n
  <2>1. PICK m \in 0..(n - 1) : m + 1 = k
    OBVIOUS
  <2>2. i + 1 \in 1..n /\ j + 1 \in 1..n
    BY <1>1
  <2> QED
    BY <1>2, <2>1, <2>2
<1>4. \A k \in 1..n : \E l \in 1..n : pq[k] = pq'[l]
  <2> TAKE k \in 1..n
  <2>1. PICK m \in 0..(n - 1) : m + 1 = k
    OBVIOUS
  <2>2. i + 1 \in 1..n /\ j + 1 \in 1..n /\ i \in 0..(n - 1) /\ j \in 0..(n - 1)
    BY <1>1
  <2>3. CASE m = i
    BY <1>2, <2>1, <2>2, <2>3
  <2>4. CASE m = j /\ m # i
    BY <1>2, <2>1, <2>2, <2>4
  <2>5. CASE m # i /\ m # j
    BY <1>2, <2>1, <2>5
  <2> QED
    BY <2>3, <2>4, <2>5
<1>5. Content = {pq[k] : k \in 1..n} /\ Content' = {pq'[k] : k \in 1..n}
  BY <1>1 DEF Content
<1>6. \A x : x \in Content => x \in Content'
  BY <1>4, <1>5
<1>7. \A x : x \in Content' => x \in Content
  BY <1>3, <1>5
<1> QED
  BY <1>6, <1>7

\* An empty slice is an empty queue.
LEMMA InitRefines == Init => Abstract!AInit
BY DEF Init, Abstract!AInit, Content, AbstractRequest, NoRequest, Abstract!NoRequest

\* Push is the abstract push.
LEMMA PushRefines ==
    ASSUME PqueueInv, NEW x \in Items, NEW p \in Pris, Push(x, p)
    PROVE  Abstract!APush(x, p)
<1>1. /\ pq \in Seq(Items) /\ Len(pq) \in Nat /\ pc = "idle"
      /\ request = NoRequest
  BY DEF PqueueInv, TypeOK, Push
<1>2. Content' = Content \cup {x} /\ x \notin Content
  <2>1. Len(pq') = Len(pq) + 1 /\ pq'[Len(pq) + 1] = x
    BY <1>1 DEF Push
  <2>2. \A k \in 1..Len(pq) : pq'[k] = pq[k] /\ pq[k] # x
    BY <1>1 DEF Push
  <2>3. 1..(Len(pq) + 1) = (1..Len(pq)) \cup {Len(pq) + 1}
    BY <1>1
  <2> QED
    BY <2>1, <2>2, <2>3 DEF Content
<1>3. AbstractRequest = NoRequest /\ AbstractRequest' = NoRequest
  BY <1>1 DEF AbstractRequest, NoRequest, Push
<1> QED
  BY <1>2, <1>3 DEF Abstract!APush, Push, NoRequest, Abstract!NoRequest

\* The start of a call is the abstract request.
LEMMA CallRefines ==
    ASSUME PqueueInv
    PROVE  /\ \A max \in Pris : CallPeekAndShift(max) =>
                    Abstract!ARequest([op |-> "shift", max |-> max])
           /\ \A x \in Items : CallRemove(x) =>
                    /\ x \in Content
                    /\ Abstract!ARequest([op |-> "remove", item |-> x])
<1>1. pc = "idle" => request = NoRequest
  BY DEF PqueueInv, TypeOK
<1>2. ASSUME NEW r, Call(r), r.op # "push" PROVE Abstract!ARequest(r)
  <2>1. AbstractRequest = NoRequest /\ AbstractRequest' = r
    BY <1>1, <1>2 DEF Call, AbstractRequest, NoRequest
  <2>2. Content' = Content
    BY <1>2 DEF Call, Content
  <2> QED
    BY <1>2, <2>1, <2>2 DEF Call, Abstract!ARequest, NoRequest, Abstract!NoRequest
<1> QED
  BY <1>2 DEF CallRemove, CallPeekAndShift, Content

\* PeekAndShift returns nothing only when nothing is due.
LEMMA NothingRefines ==
    ASSUME PqueueInv, PeekAndShiftNothing PROVE Abstract!AShift
<1>1. TypeOK /\ Len(pq) \in Nat
  BY PositionTypes DEF PqueueInv
<1>2. /\ pc = "start" /\ request.op = "shift" /\ request.max \in Int
      /\ Len(pq) > 0 => ~Due(At(0))
      /\ request' = NoRequest /\ result' = NoItem
      /\ UNCHANGED <<pq, capacity, pri, index>>
  BY <1>1, PqueueAssumption DEF PeekAndShiftNothing, Return, TypeOK, Requests, NoRequest
<1>3. \A k \in 0..(Len(pq) - 1) : Deadlines[0] <= Deadlines[k]
  BY <1>1, <1>2, PositionTypes, RootIsEarliest DEF PqueueInv, OrderInv, Heap
<1>4. \A k \in 0..(Len(pq) - 1) :
            /\ Deadlines[k] \in Int /\ Deadlines[k] = pri[pq[k + 1]]
            /\ pq[k + 1] \in Items
  BY <1>1, PositionTypes
<1>5. \A k \in 0..(Len(pq) - 1) : pri[pq[k + 1]] > request.max
  <2>1. SUFFICES ASSUME NEW k \in 0..(Len(pq) - 1)
                 PROVE  pri[pq[k + 1]] > request.max
    OBVIOUS
  <2>2. Len(pq) > 0 /\ 0 \in 0..(Len(pq) - 1) /\ At(0) = pq[0 + 1]
    BY <1>1 DEF At
  <2>3. ~(pri[pq[0 + 1]] <= request.max)
    BY <1>2, <2>2 DEF Due
  <2>4. /\ Deadlines[0] = pri[pq[0 + 1]] /\ Deadlines[0] \in Int
        /\ Deadlines[k] = pri[pq[k + 1]] /\ Deadlines[k] \in Int
    BY <1>4, <2>2
  <2>5. Deadlines[0] <= Deadlines[k]
    BY <1>3
  <2> QED
    BY <1>2, <2>3, <2>4, <2>5
<1>6. \A y \in Content : pri[y] > request.max /\ y \in Items
  <2>1. SUFFICES ASSUME NEW l \in 1..Len(pq)
                 PROVE  pri[pq[l]] > request.max /\ pq[l] \in Items
    BY DEF Content
  <2>2. PICK k \in 0..(Len(pq) - 1) : k + 1 = l
    BY <1>1
  <2> QED
    BY <1>4, <1>5, <2>2
<1>7. AbstractRequest = request /\ AbstractRequest' = NoRequest
  BY <1>2 DEF AbstractRequest, NoRequest
<1>8. Content' = Content \ {NoItem}
  BY <1>2, <1>6, PqueueAssumption DEF Content
<1> QED
  BY <1>2, <1>6, <1>7, <1>8
  DEF Abstract!AShift, Abstract!AReturn, NoRequest, Abstract!NoRequest

\* Pop returns an earliest due item, Remove the item asked for.
LEMMA FinishRefines ==
    ASSUME PqueueInv, Finish PROVE Abstract!AShift \/ Abstract!ARemove
<1>1. PICK n \in Nat : n = Len(pq) /\ n > 0
  <2>1. Len(pq) \in Nat /\ Len(pq) > 0
    BY PositionTypes DEF PqueueInv, Finish, ControlInv
  <2> QED
    BY <2>1
<1>2. PICK x \in Items : x = At(n - 1) /\ x = pq[n]
  BY <1>1, PositionTypes DEF At, PqueueInv
<1>3. /\ pc = "finish" /\ request.op \in {"shift", "remove"} /\ UNCHANGED pri
      /\ pq' = SubSeq(pq, 1, n - 1) /\ result' = x /\ request' = NoRequest
  BY <1>1, <1>2 DEF Finish, Return, PqueueInv, ControlInv
<1>4. /\ pq \in Seq(Items) /\ Len(pq') = n - 1
      /\ \A k \in 1..(n - 1) : pq'[k] = pq[k]
  BY <1>1, <1>3 DEF TypeOK, PqueueInv
<1>5. Content' = Content \ {x} /\ x \in Content
  <2>1. \A k \in 1..n : index[pq[k]] = k - 1
    BY <1>1 DEF PqueueInv, IndexNamesPosition
  <2>2. n \in 1..n /\ 1..n = (1..(n - 1)) \cup {n}
    BY <1>1
  <2>3. \A k \in 1..(n - 1) : pq[k] # x
    BY <1>1, <1>2, <2>1, <2>2
  <2> QED
    BY <1>1, <1>2, <1>4, <2>2, <2>3 DEF Content
<1>6. AbstractRequest = request /\ AbstractRequest' = NoRequest
  BY <1>3 DEF AbstractRequest, NoRequest
<1>7. Abstract!AReturn(x)
  BY <1>3, <1>5, <1>6 DEF Abstract!AReturn, NoRequest, Abstract!NoRequest
<1>8. CASE request.op = "remove"
  <2>1. x = request.item
    BY <1>1, <1>2, <1>3, <1>8 DEF PqueueInv, ReturnInv
  <2> QED
    BY <1>6, <1>7, <1>8, <2>1 DEF Abstract!ARemove
<1>9. CASE request.op = "shift"
  <2>1. pri[x] <= request.max
    BY <1>1, <1>2, <1>3, <1>9 DEF PqueueInv, ReturnInv, Due
  <2>2. \A k \in 0..(n - 1) : Deadlines[n - 1] <= Deadlines[k]
    BY <1>1, <1>3, <1>9 DEF PqueueInv, ReturnInv
  <2>3. \A k \in 0..(n - 1) : Deadlines[k] = pri[pq[k + 1]]
    BY <1>1, PositionTypes DEF PqueueInv
  <2>4. \A y \in Content : pri[x] <= pri[y]
    <3>1. SUFFICES ASSUME NEW l \in 1..n PROVE pri[x] <= pri[pq[l]]
      BY <1>1 DEF Content
    <3>2. PICK k \in 0..(n - 1) : k + 1 = l
      OBVIOUS
    <3>3. n - 1 \in 0..(n - 1) /\ n - 1 + 1 = n
      BY <1>1
    <3> QED
      BY <1>2, <2>2, <2>3, <3>2, <3>3
  <2> QED
    BY <1>5, <1>6, <1>7, <1>9, <2>1, <2>4 DEF Abstract!AShift
<1> QED
  BY <1>3, <1>8, <1>9

\* What a caller can see
AbstractVars == <<Content, pri, AbstractRequest, result>>

\* The swaps are invisible to callers.
LEMMA SwapsStutter ==
    ASSUME PqueueInv, Pop \/ Remove \/ UpSwap \/ DownSwap
    PROVE  UNCHANGED AbstractVars
<1> USE DEF PqueueInv
<1>1. UNCHANGED <<pri, request, result>>
  BY DEF Pop, Remove, UpSwap, DownSwap
<1>2. UNCHANGED AbstractRequest
  BY <1>1 DEF AbstractRequest
<1>3. PICK n \in Nat : n = Len(pq)
  BY PositionTypes
<1>4. CASE Pop
  <2>1. Swap(0, n - 1) /\ n > 0
    BY <1>3, <1>4 DEF Pop
  <2>2. n - 1 \in Nat
    BY <2>1
  <2> QED
    BY <1>1, <1>2, <1>3, <2>1, <2>2, SwapContent DEF AbstractVars
<1>5. CASE Remove
  <2>1. PICK k \in 1..n : pq[k] = request.item
    BY <1>3, <1>5 DEF Remove, ControlInv
  <2>2. index[request.item] = k - 1
    BY <1>3, <2>1 DEF IndexNamesPosition
  <2>3. k - 1 \in Nat /\ n - 1 \in Nat /\ k - 1 < n /\ n - 1 < n
    OBVIOUS
  <2>4. Swap(k - 1, n - 1) \/ UNCHANGED pq
    BY <1>3, <1>5, <2>2 DEF Remove
  <2>5. CASE UNCHANGED pq
    BY <1>1, <1>2, <2>5 DEF AbstractVars, Content
  <2>6. CASE Swap(k - 1, n - 1)
    BY <1>1, <1>2, <1>3, <2>3, <2>6, SwapContent DEF AbstractVars
  <2> QED
    BY <2>4, <2>5, <2>6
<1>6. CASE UpSwap
  <2>1. Swap(Parent(pos), pos) /\ pos \in Nat /\ pos < n
    BY <1>3, <1>6 DEF UpSwap, TypeOK
  <2>2. Parent(pos) \in Nat /\ Parent(pos) < n
    BY <2>1, ParentFacts
  <2> QED
    BY <1>1, <1>2, <1>3, <2>1, <2>2, SwapContent DEF AbstractVars
<1>7. CASE DownSwap
  <2>1. Swap(pos, SmallerChild(pos)) /\ pos \in Nat /\ pos < n
    BY <1>3, <1>7 DEF DownSwap, TypeOK
  <2>2. request.op # "push" /\ ~DownStops(pos)
    BY <1>7 DEF DownSwap, ControlInv
  <2>3. 2 * pos + 1 < n - 1 /\ Bound = n - 1
    BY <1>3, <2>2 DEF DownStops, Bound
  <2>4. SmallerChild(pos) \in Nat /\ SmallerChild(pos) < n
    BY <2>1, <2>3 DEF SmallerChild
  <2> QED
    BY <1>1, <1>2, <1>3, <2>1, <2>4, SwapContent DEF AbstractVars
<1> QED
  BY <1>4, <1>5, <1>6, <1>7

\* The ends of the loops are invisible to callers.
LEMMA BreaksStutter ==
    ASSUME PqueueInv, UpBreak \/ DownBreak
    PROVE  UNCHANGED AbstractVars
<1>1. UNCHANGED <<pq, pri, result>>
  BY DEF UpBreak, DownBreak, Return
<1>2. UNCHANGED AbstractRequest
  BY DEF UpBreak, DownBreak, Return, AbstractRequest, NoRequest
<1> QED
  BY <1>1, <1>2 DEF AbstractVars, Content

\* Every step of the heap is a step of the queue or a stutter.
LEMMA NextRefines ==
    ASSUME PqueueInv, [Next]_vars
    PROVE  [Abstract!ANext]_AbstractVars
<1>1. CASE \E x \in Items, p \in Pris : Push(x, p)
  BY <1>1, PushRefines DEF Abstract!ANext
<1>2. CASE \E x \in Items : CallRemove(x)
  BY <1>2, CallRefines DEF Abstract!ANext
<1>3. CASE \E max \in Pris : CallPeekAndShift(max)
  BY <1>3, CallRefines DEF Abstract!ANext
<1>4. CASE PeekAndShiftNothing \/ Finish
  BY <1>4, NothingRefines, FinishRefines DEF Abstract!ANext
<1>5. CASE Pop \/ Remove \/ UpSwap \/ DownSwap
  BY <1>5, SwapsStutter
<1>6. CASE UpBreak \/ DownBreak
  BY <1>6, BreaksStutter
<1>7. CASE UNCHANGED vars
  BY <1>7 DEF vars, AbstractVars, Content, AbstractRequest
<1> QED
  BY <1>1, <1>2, <1>3, <1>4, <1>5, <1>6, <1>7 DEF Next, Begin, Step

\* The array heap of in_flight_pqueue.go implements the priority queue: a
\* shift returns an earliest item if one is due, a removal the item it was
\* asked for, and no other item comes or goes.
THEOREM HeapImplements == Spec => ImplementsPriorityQueue
<1> QED
  BY InitRefines, NextRefines, PqueueCorrect, PTL
  DEF Spec, ImplementsPriorityQueue, Abstract!ASpec, AbstractVars
=============================================================================
