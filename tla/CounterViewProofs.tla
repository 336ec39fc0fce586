-------------------------- MODULE CounterViewProofs --------------------------
(***************************************************************************)
(* Proofs about the counter page: its safety properties, for any choice of *)
(* intervals, step sizes, bounds and number texts that the assumption of   *)
(* CounterView allows.                                                     *)
(***************************************************************************)
EXTENDS CounterView, TLAPS

\* The visible elements of sp spell the number c.
Spelled(sp, c) ==
    LET text == Text(c \div Scale)
    IN  /\ Len(text) <= Len(sp)
        /\ \A i \in DOMAIN sp : sp[i].visible <=> i <= Len(text)
        /\ \A i \in DOMAIN text : sp[i].digit = text[i]

\* The display lies between its first answer and the last one; it only moves
\* while a page is shown and behind.
BoundInv ==
    /\ lastNum <= MaxNum
    /\ currentNum <= lastNum * Scale
    /\ animating => shown /\ currentNum # -1 /\ currentNum < lastNum * Scale

\* A page that is not shown has nothing pending of its own.
QuietInv == ~shown => ~polling /\ orphans = 0 /\ gets = 0

\* Only a view that left an orphan behind can still poll.
LeftInv == \A k \in DOMAIN left : left[k].timers > 0 => left[k].orphaned

\* The digits, and when they may be behind.
DigitsInv == shown /\ currentNum # -1 => Spelled(spans, currentNum)
BehindInv == shown /\ currentNum # -1 /\ currentNum < lastNum * Scale
                => animating \/ failed

CounterInv == /\ TypeOK /\ BoundInv /\ QuietInv /\ LoopsConserved
              /\ DigitsInv /\ BehindInv /\ LeftInv /\ GraphFollowsInterval

-----------------------------------------------------------------------------
(* Arithmetic of the display *)

\* A quotient of naturals is a natural.
LEMMA DivNat == \A a \in Nat : \A b \in Nat \ {0} : a \div b \in Nat
OBVIOUS

\* The whole part of a scaled number is at most the number it is below.
LEMMA DivBound ==
    ASSUME NEW c \in Nat, NEW s \in Nat \ {0}, NEW m \in Nat, c <= m * s
    PROVE  c \div s \in 0..m
<1>1. c \div s <= m
  OBVIOUS
<1> QED
  BY <1>1, DivNat

\* Scaling keeps the order.
LEMMA ScaleMono ==
    ASSUME NEW a \in Nat, NEW b \in Nat, NEW s \in Nat \ {0}
    PROVE  /\ a * s \in Nat
           /\ a <= b => a * s <= b * s
           /\ a < b => a * s < b * s
OBVIOUS

\* One frame moves the display forward, and not past its target.
LEMMA SteppedFacts ==
    ASSUME NEW c \in Nat, NEW d \in Nat, NEW to \in Nat, c <= to * Scale
    PROVE  /\ Stepped(c, d, to) \in Nat
           /\ c <= Stepped(c, d, to) /\ Stepped(c, d, to) <= to * Scale
<1>1. to * Scale \in Nat
  BY CounterAssumption
<1> QED
  BY <1>1 DEF Stepped

\* writeCounts makes the visible digits spell the number, whatever the
\* elements showed before.
LEMMA WriteFacts ==
    ASSUME NEW old \in Seq(Spans), NEW c \in Nat, c <= MaxNum * Scale
    PROVE  WriteCounts(old, c) \in Seq(Spans) /\ Spelled(WriteCounts(old, c), c)
<1> DEFINE text == Text(c \div Scale)
           len == IF Len(old) > Len(text) THEN Len(old) ELSE Len(text)
           new == WriteCounts(old, c)
<1>1. text \in Seq(Digits)
  BY DivBound, CounterAssumption
<1>2. new = [i \in 1..len |-> IF i <= Len(text)
                              THEN [digit |-> text[i], visible |-> TRUE]
                              ELSE [digit |-> old[i].digit, visible |-> FALSE]]
  BY DEF WriteCounts
<1> HIDE DEF text, new
<1>3. len \in Nat /\ Len(text) <= len /\ Len(text) \in Nat
  BY <1>1
<1>4. new \in Seq(Spans)
  <2>1. \A i \in 1..len : new[i] \in Spans
    <3> SUFFICES ASSUME NEW i \in 1..len PROVE new[i] \in Spans
      OBVIOUS
    <3>1. CASE i <= Len(text)
      <4>1. text[i] \in Digits
        BY <1>1, <3>1, <1>3
      <4> QED
        BY <4>1, <3>1, <1>2 DEF Spans
    <3>2. CASE ~(i <= Len(text))
      <4>1. i \in 1..Len(old)
        BY <3>2, <1>3
      <4>2. old[i] \in Spans
        BY <4>1
      <4>3. old[i].digit \in Digits
        BY <4>2 DEF Spans
      <4> QED
        BY <4>3, <3>2, <1>2 DEF Spans
    <3> QED
      BY <3>1, <3>2
  <2>2. new \in [1..len -> Spans]
    <3> HIDE DEF len
    <3> QED
      BY <2>1, <1>2
  <2> HIDE DEF len
  <2> QED
    BY <2>2, <1>3
<1>5. Len(new) = len /\ DOMAIN new = 1..len
  BY <1>2, <1>3, <1>4
<1>6. \A i \in DOMAIN new : new[i].visible <=> i <= Len(text)
  BY <1>2, <1>5
<1>7. \A i \in DOMAIN text : new[i].digit = text[i]
  BY <1>1, <1>2, <1>3
<1> QED
  BY <1>3, <1>4, <1>5, <1>6, <1>7 DEF Spelled, text, new

-----------------------------------------------------------------------------
(* The types *)

\* The graph that a view remembers or draws is one of an interval, or none.
LEMMA GraphTypes ==
    /\ \A i \in Intervals \cup {Off} : GraphOf(i) \in Intervals \cup {Null}
    /\ \A u, src \in Intervals \cup {Null} :
          /\ Remembered(u, src) \in Intervals \cup {Null}
          /\ Refreshed(u, src) \in Intervals \cup {Null}
BY DEF GraphOf, Remembered, Refreshed

\* The wait between polls stays in its range.
LEMMA WaitTypes ==
    ASSUME TypeOK
    PROVE  {FirstInterval, TargetInterval, NextWait}
              \subseteq Waits
<1>1. /\ FirstInterval \in Nat /\ TargetInterval \in Nat /\ IntervalStep \in Nat \ {0}
      /\ FirstInterval < TargetInterval
  BY CounterAssumption
<1>2. wait \in Waits
  BY DEF TypeOK
<1>3. NextWait \in Waits
  BY <1>1, <1>2 DEF NextWait, Waits
<1> QED
  BY <1>1, <1>3 DEF Waits

LEMMA StartTypes ==
    ASSUME TypeOK, NEW src \in Intervals \cup {Null}, Start(src)
    PROVE  /\ polling' = FALSE /\ animating' = FALSE /\ failed' = FALSE
           /\ delta' \in Nat /\ currentNum' = -1 /\ lastNum' = 0
           /\ wait' \in Waits
           /\ graphUrl' \in Intervals \cup {Null}
BY WaitTypes DEF Start

LEMMA LoopTypes ==
    ASSUME TypeOK, gets > 0,
           NEW w \in Waits, StartLoop(w)
    PROVE  /\ polling' = TRUE /\ orphans' \in Nat /\ gets' \in Nat
           /\ wait' \in Waits
BY DEF TypeOK, StartLoop

\* A frame of a page that follows the answers keeps the types, moves forward
\* and leaves the digits right.
LEMMA FrameFacts ==
    ASSUME TypeOK, NEW d \in Nat, NEW to \in Nat, to <= MaxNum,
           currentNum # -1, currentNum <= to * Scale, DisplayFrame(d, to)
    PROVE  /\ currentNum' \in Nat /\ currentNum <= currentNum'
           /\ currentNum' <= to * Scale
           /\ spans' \in Seq(Spans) /\ Spelled(spans', currentNum')
           /\ animating' \in BOOLEAN
           /\ animating' <=> currentNum' < to * Scale
<1>1. currentNum \in Nat
  BY DEF TypeOK
<1>2. /\ currentNum' \in Nat /\ currentNum <= currentNum'
      /\ currentNum' <= to * Scale
  BY <1>1, SteppedFacts DEF DisplayFrame
<1>3. currentNum' <= MaxNum * Scale
  <2>1. to * Scale <= MaxNum * Scale /\ to * Scale \in Nat /\ MaxNum * Scale \in Nat
    BY ScaleMono, CounterAssumption
  <2> QED
    BY <1>2, <2>1
<1>4. spans' = WriteCounts(spans, currentNum')
  BY DEF DisplayFrame
<1>5. spans \in Seq(Spans)
  BY DEF TypeOK
<1>6. spans' \in Seq(Spans) /\ Spelled(spans', currentNum')
  BY <1>2, <1>3, <1>4, <1>5, WriteFacts
<1>7. animating' = (currentNum' < to * Scale)
  BY DEF DisplayFrame
<1>8. animating' \in BOOLEAN
  BY <1>7
<1>9. animating' <=> currentNum' < to * Scale
  BY <1>7
<1> QED
  BY <1>2, <1>6, <1>8, <1>9

\* What an answer does to the number, by its three cases.
LEMMA AnswerFacts ==
    ASSUME TypeOK, BoundInv, NEW num \in 0..MaxNum, NEW message \in BOOLEAN,
           Answer(num, message)
    PROVE  /\ currentNum' \in Nat /\ currentNum <= currentNum'
           /\ lastNum' \in 0..MaxNum
           /\ currentNum # -1 => lastNum <= lastNum'
           /\ currentNum' <= lastNum' * Scale
           /\ delta' \in Nat /\ animating' \in BOOLEAN
           /\ spans' \in Seq(Spans)
           /\ animating' => currentNum' < lastNum' * Scale
           /\ DigitsInv => Spelled(spans', currentNum')
           /\ BehindInv /\ currentNum' < lastNum' * Scale => animating' \/ failed
<1> DEFINE Goal == /\ currentNum' \in Nat /\ currentNum <= currentNum'
                   /\ lastNum' \in 0..MaxNum
                   /\ currentNum # -1 => lastNum <= lastNum'
                   /\ currentNum' <= lastNum' * Scale
                   /\ delta' \in Nat /\ animating' \in BOOLEAN
                   /\ spans' \in Seq(Spans)
                   /\ animating' => currentNum' < lastNum' * Scale
                   /\ DigitsInv => Spelled(spans', currentNum')
                   /\ BehindInv /\ currentNum' < lastNum' * Scale => animating' \/ failed
<1>t. /\ currentNum \in Nat \cup {-1} /\ lastNum \in Nat /\ delta \in Nat
      /\ animating \in BOOLEAN /\ spans \in Seq(Spans) /\ MaxNum \in Nat
      /\ wait \in Nat \ {0} /\ Scale \in Nat \ {0} /\ num \in Nat /\ num <= MaxNum
      /\ shown /\ lastNum <= MaxNum /\ currentNum <= lastNum * Scale
      /\ animating => currentNum # -1 /\ currentNum < lastNum * Scale
  BY CounterAssumption DEF TypeOK, Waits, BoundInv, Answer
<1>1. CASE /\ Seeds
           /\ currentNum' = num * Scale /\ lastNum' = num
           /\ spans' = WriteCounts(spans, num * Scale)
           /\ UNCHANGED <<delta, animating>>
  <2>1. num * Scale \in Nat /\ num * Scale <= MaxNum * Scale
    BY <1>t, ScaleMono
  <2>2. spans' \in Seq(Spans) /\ Spelled(spans', currentNum')
    BY <1>1, <1>t, <2>1, WriteFacts
  <2>3. currentNum = -1 /\ ~animating
    BY <1>1, <1>t DEF Seeds
  <2> QED
    BY <1>1, <1>t, <2>1, <2>2, <2>3
<1>2. CASE /\ Grows(num)
           /\ delta' = ((num - lastNum) * Scale) \div wait
           /\ lastNum' = num
           /\ IF animating THEN UNCHANGED <<currentNum, spans, animating>>
                           ELSE DisplayFrame(delta', num)
  <2>1. currentNum \in Nat /\ currentNum # -1 /\ lastNum < num
    BY <1>2, <1>t DEF Grows, Seeds
  <2>2. lastNum * Scale < num * Scale /\ lastNum * Scale \in Nat /\ num * Scale \in Nat
    BY <1>t, <2>1, ScaleMono
  <2>3. delta' \in Nat
    <3>1. num - lastNum \in Nat
      BY <1>t, <2>1
    <3>2. (num - lastNum) * Scale \in Nat
      BY <3>1, <1>t, ScaleMono
    <3> QED
      BY <1>2, <1>t, <3>2, DivNat
  <2>4. CASE animating
    <3>1. UNCHANGED <<currentNum, spans, animating>>
      BY <1>2, <2>4
    <3>2. DigitsInv => Spelled(spans', currentNum')
      BY <3>1, <2>1, <1>t DEF DigitsInv
    <3> QED
      BY <1>2, <1>t, <2>1, <2>2, <2>3, <2>4, <3>1, <3>2
  <2>5. CASE ~animating
    <3>1. DisplayFrame(delta', num)
      BY <1>2, <2>5
    <3>2. currentNum <= num * Scale
      BY <1>t, <2>1, <2>2
    <3>3. /\ currentNum' \in Nat /\ currentNum <= currentNum'
          /\ currentNum' <= num * Scale
          /\ spans' \in Seq(Spans) /\ Spelled(spans', currentNum')
          /\ animating' \in BOOLEAN
          /\ animating' <=> currentNum' < num * Scale
      BY <1>t, <2>1, <2>3, <3>1, <3>2, FrameFacts
    <3> QED
      BY <1>2, <1>t, <2>1, <2>3, <3>3
  <2> QED
    BY <2>4, <2>5
<1>3. CASE ~Seeds /\ UNCHANGED <<delta, currentNum, lastNum, spans, animating>>
  <2>1. currentNum \in Nat /\ currentNum # -1
    BY <1>3, <1>t DEF Seeds
  <2>2. DigitsInv => Spelled(spans', currentNum')
    BY <1>3, <2>1, <1>t DEF DigitsInv
  <2>3. BehindInv /\ currentNum' < lastNum' * Scale => animating' \/ failed
    BY <1>3, <2>1, <1>t DEF BehindInv
  <2> QED
    BY <1>3, <1>t, <2>1, <2>2, <2>3
<1> QED
  BY <1>1, <1>2, <1>3 DEF Answer

LEMMA EmptySeqs == <<>> \in Seq(Spans) /\ <<>> \in Seq(LeftViews)
OBVIOUS

LEMMA InitType == Init => TypeOK
<1>1. FirstInterval \in Waits
  BY CounterAssumption DEF Waits
<1> SUFFICES ASSUME Init PROVE TypeOK
  OBVIOUS
<1>2. spans \in Seq(Spans) /\ left \in Seq(LeftViews)
  BY EmptySeqs DEF Init
<1> QED
  BY <1>1, <1>2 DEF Init, TypeOK

LEMMA ShowType == ASSUME TypeOK, Show PROVE TypeOK'
<1>1. GraphOf(interval) \in Intervals \cup {Null}
  BY GraphTypes DEF TypeOK
<1>2. /\ polling' = FALSE /\ animating' = FALSE /\ failed' = FALSE
      /\ delta' \in Nat /\ currentNum' = -1 /\ lastNum' = 0
      /\ wait' \in Waits
      /\ graphUrl' \in Intervals \cup {Null}
  BY StartTypes DEF Show
<1>3. spans' \in Seq(Spans)
  BY EmptySeqs DEF Show
<1> QED
  BY <1>1, <1>2, <1>3 DEF TypeOK, Show

LEMMA RemoveType == ASSUME TypeOK, Remove PROVE TypeOK'
<1> DEFINE v == [url |-> graphUrl, timers |-> orphans, gets |-> gets,
                 orphaned |-> orphans > 0]
<1>1. v \in LeftViews
  BY DEF TypeOK, LeftViews
<1>2. left' \in Seq(LeftViews)
  <2>1. left \in Seq(LeftViews) /\ left' = Append(left, v)
    BY DEF TypeOK, Remove
  <2> HIDE DEF v
  <2> QED
    BY <1>1, <2>1
<1>3. spans' \in Seq(Spans)
  BY EmptySeqs DEF Remove
<1> QED
  BY <1>2, <1>3 DEF TypeOK, Remove, histVars

LEMMA GraphIntervalType ==
    ASSUME TypeOK, NEW i \in Intervals \cup {Off}, GraphInterval(i) PROVE TypeOK'
<1>1. GraphOf(i) \in Intervals \cup {Null}
  BY GraphTypes
<1>2. CASE shown
  <2>1. /\ polling' = FALSE /\ animating' = FALSE /\ failed' = FALSE
        /\ delta' \in Nat /\ currentNum' = -1 /\ lastNum' = 0
        /\ wait' \in Waits
        /\ graphUrl' \in Intervals \cup {Null}
    BY <1>1, <1>2, StartTypes DEF GraphInterval
  <2>2. spans' \in Seq(Spans)
    BY <1>2, EmptySeqs DEF GraphInterval
  <2>3. overlaps' \in Nat
    BY <1>2 DEF TypeOK, GraphInterval
  <2>4. /\ interval' = i /\ changes' = changes + 1 /\ gets' = gets + 1
        /\ img' = GraphOf(i) /\ banner' = "none"
        /\ orphans' = orphans /\ left' = left
    BY <1>2 DEF GraphInterval
  <2>5. shown' \in BOOLEAN /\ polling' \in BOOLEAN /\ animating' \in BOOLEAN
        /\ failed' \in BOOLEAN
    BY <1>2, <2>1 DEF GraphInterval
  <2>6. /\ interval' \in Intervals \cup {Off} /\ changes' \in Nat /\ gets' \in Nat
        /\ orphans' \in Nat /\ left' \in Seq(LeftViews)
    BY <2>4 DEF TypeOK
  <2> QED
    BY <1>1, <2>1, <2>2, <2>3, <2>4, <2>5, <2>6 DEF TypeOK
<1>3. CASE ~shown
  BY <1>3 DEF TypeOK, GraphInterval, timerVars, countVars, pageVars
<1> QED
  BY <1>2, <1>3

LEMMA PollType == ASSUME TypeOK, Poll \/ PollOrphan PROVE TypeOK'
<1>1. graphUrl' \in Intervals \cup {Null} /\ img' \in Intervals \cup {Null}
  BY GraphTypes DEF TypeOK, Poll, PollOrphan, UpdateStats
<1>2. gets' \in Nat
  BY DEF TypeOK, Poll, PollOrphan, UpdateStats
<1>3. CASE Poll
  BY <1>1, <1>2, <1>3 DEF TypeOK, Poll, countVars, histVars
<1>4. CASE PollOrphan
  BY <1>1, <1>2, <1>4 DEF TypeOK, PollOrphan, countVars, histVars
<1> QED
  BY <1>3, <1>4

LEMMA AnswerType ==
    ASSUME TypeOK, BoundInv, NEW num \in 0..MaxNum, NEW message \in BOOLEAN,
           Answer(num, message)
    PROVE  TypeOK'
<1>1. /\ currentNum' \in Nat /\ lastNum' \in Nat /\ delta' \in Nat
      /\ animating' \in BOOLEAN /\ spans' \in Seq(Spans)
  BY AnswerFacts, CounterAssumption
<1>2. /\ polling' = TRUE /\ orphans' \in Nat /\ gets' \in Nat
      /\ wait' \in Waits
  BY WaitTypes, LoopTypes DEF Answer
<1>3. banner' \in {"none", "warning", "error"}
  BY DEF Answer
<1> QED
  BY <1>1, <1>2, <1>3 DEF TypeOK, Answer, histVars

LEMMA FailType == ASSUME TypeOK, Fail PROVE TypeOK'
<1>1. /\ polling' = TRUE /\ orphans' \in Nat /\ gets' \in Nat
      /\ wait' \in Waits
  BY WaitTypes, LoopTypes DEF Fail
<1> QED
  BY <1>1 DEF TypeOK, Fail, histVars

\* A frame of the timer.
LEMMA TimerFrame ==
    ASSUME TypeOK, BoundInv, Frame
    PROVE  /\ currentNum' \in Nat /\ currentNum <= currentNum'
           /\ currentNum' <= lastNum * Scale
           /\ spans' \in Seq(Spans) /\ Spelled(spans', currentNum')
           /\ animating' \in BOOLEAN
           /\ animating' <=> currentNum' < lastNum * Scale
<1>1. /\ delta \in Nat /\ lastNum \in Nat /\ lastNum <= MaxNum /\ currentNum # -1
      /\ currentNum <= lastNum * Scale
  BY DEF TypeOK, BoundInv, Frame
<1>2. DisplayFrame(delta, lastNum)
  BY DEF Frame
<1> QED
  BY <1>1, <1>2, FrameFacts

LEMMA FrameType == ASSUME TypeOK, BoundInv, Frame PROVE TypeOK'
<1>1. currentNum' \in Nat /\ spans' \in Seq(Spans) /\ animating' \in BOOLEAN
  BY TimerFrame
<1> QED
  BY <1>1 DEF TypeOK, Frame, pageVars, histVars

\* What a timer of a removed view leaves of it.
LEMMA LeftPollFacts ==
    ASSUME TypeOK, NEW k \in 1..MaxVisits, LeftPoll(k)
    PROVE  /\ k \in DOMAIN left /\ left[k] \in LeftViews /\ left[k].timers > 0
           /\ left' = [left EXCEPT ![k] =
                 [url |-> Remembered(left[k].url, img), timers |-> left[k].timers - 1,
                  gets |-> left[k].gets + 1, orphaned |-> left[k].orphaned]]
           /\ left' \in Seq(LeftViews)
<1>1. k \in DOMAIN left /\ left[k] \in LeftViews /\ left[k].timers > 0
  BY DEF TypeOK, LeftPoll
<1> DEFINE v == [url |-> Remembered(left[k].url, img), timers |-> left[k].timers - 1,
                 gets |-> left[k].gets + 1, orphaned |-> left[k].orphaned]
<1>2. left' = [left EXCEPT ![k] = v]
  BY <1>1 DEF LeftPoll
<1>3. v \in LeftViews
  BY <1>1, GraphTypes DEF TypeOK, LeftViews
<1>4. left \in Seq(LeftViews)
  BY DEF TypeOK
<1> HIDE DEF v
<1>5. left' \in Seq(LeftViews)
  BY <1>1, <1>2, <1>3, <1>4
<1> QED
  BY <1>1, <1>2, <1>5 DEF v

LEMMA OneLess ==
    \A r \in LeftViews :
        [r EXCEPT !.gets = @ - 1] =
        [url |-> r.url, timers |-> r.timers, gets |-> r.gets - 1, orphaned |-> r.orphaned]
BY DEF LeftViews

LEMMA LeftAnswerFacts ==
    ASSUME TypeOK, NEW k \in 1..MaxVisits, LeftAnswer(k)
    PROVE  /\ k \in DOMAIN left /\ left[k] \in LeftViews
           /\ left' = [left EXCEPT ![k] =
                 [url |-> left[k].url, timers |-> left[k].timers,
                  gets |-> left[k].gets - 1, orphaned |-> left[k].orphaned]]
           /\ left' \in Seq(LeftViews)
<1>1. k \in DOMAIN left /\ left[k] \in LeftViews /\ left[k].gets > 0
  BY DEF TypeOK, LeftAnswer
<1> DEFINE v == [url |-> left[k].url, timers |-> left[k].timers,
                 gets |-> left[k].gets - 1, orphaned |-> left[k].orphaned]
<1>2. left' = [left EXCEPT ![k] = v]
  <2>1. left' = [left EXCEPT ![k] = [left[k] EXCEPT !.gets = @ - 1]]
    BY <1>1 DEF LeftAnswer
  <2>2. [left[k] EXCEPT !.gets = @ - 1] = v
    BY <1>1, OneLess
  <2> QED
    BY <2>1, <2>2
<1>3. v \in LeftViews
  BY <1>1 DEF LeftViews
<1>4. left \in Seq(LeftViews)
  BY DEF TypeOK
<1> HIDE DEF v
<1>5. left' \in Seq(LeftViews)
  BY <1>1, <1>2, <1>3, <1>4
<1> QED
  BY <1>1, <1>2, <1>5 DEF v

LEMMA LeftType ==
    ASSUME TypeOK, NEW k \in 1..MaxVisits, LeftPoll(k) \/ LeftAnswer(k)
    PROVE  TypeOK'
<1>1. left' \in Seq(LeftViews)
  BY LeftPollFacts, LeftAnswerFacts
<1>2. img' \in Intervals \cup {Null}
  <2>1. CASE LeftPoll(k)
    <3>1. left[k].url \in Intervals \cup {Null}
      BY <2>1, LeftPollFacts DEF LeftViews
    <3> QED
      BY <2>1, <3>1, GraphTypes DEF TypeOK, LeftPoll
  <2>2. CASE LeftAnswer(k)
    BY <2>2 DEF TypeOK, LeftAnswer, pageVars
  <2> QED
    BY <2>1, <2>2
<1> QED
  BY <1>1, <1>2 DEF TypeOK, LeftPoll, LeftAnswer, timerVars, countVars,
                    pageVars, histVars

-----------------------------------------------------------------------------
(* One lemma per action: the rest of the invariant *)

\* The parts of the invariant an action may disturb.
Parts == /\ BoundInv /\ QuietInv /\ LoopsConserved /\ DigitsInv /\ BehindInv
         /\ LeftInv /\ GraphFollowsInterval

LEMMA InitParts == Init => Parts
<1> SUFFICES ASSUME Init PROVE Parts
  OBVIOUS
<1>1. BoundInv
  BY CounterAssumption DEF Init, BoundInv
<1>2. LeftInv
  BY DEF Init, LeftInv
<1> QED
  BY <1>1, <1>2 DEF Init, Parts, QuietInv, LoopsConserved, DigitsInv, BehindInv,
                    GraphFollowsInterval

\* A page that starts again has no number yet.
LEMMA StartParts ==
    ASSUME TypeOK, NEW src, Start(src)
    PROVE  BoundInv' /\ DigitsInv' /\ BehindInv'
<1>1. animating' = FALSE /\ currentNum' = -1 /\ lastNum' = 0
  BY DEF Start
<1> QED
  BY <1>1, CounterAssumption DEF BoundInv, DigitsInv, BehindInv

LEMMA ShowParts == ASSUME CounterInv, Show PROVE Parts'
<1>1. BoundInv' /\ DigitsInv' /\ BehindInv'
  BY StartParts DEF CounterInv, Show
<1>2. QuietInv' /\ LoopsConserved'
  BY DEF Show, Start, QuietInv, LoopsConserved, Loops
<1>3. LeftInv'
  BY DEF CounterInv, Show, LeftInv
<1>4. GraphFollowsInterval'
  BY DEF Show, Start, GraphFollowsInterval, GraphOf
<1> QED
  BY <1>1, <1>2, <1>3, <1>4 DEF Parts

LEMMA RemoveParts == ASSUME CounterInv, Remove PROVE Parts'
<1>1. BoundInv'
  BY DEF CounterInv, BoundInv, Remove
<1>2. /\ QuietInv' /\ LoopsConserved' /\ DigitsInv' /\ BehindInv'
      /\ GraphFollowsInterval'
  BY DEF Remove, QuietInv, LoopsConserved, DigitsInv, BehindInv, GraphFollowsInterval
<1>3. LeftInv'
  <2> DEFINE v == [url |-> graphUrl, timers |-> orphans, gets |-> gets,
                   orphaned |-> orphans > 0]
  <2>1. left \in Seq(LeftViews) /\ left' = Append(left, v)
    BY DEF CounterInv, TypeOK, Remove
  <2>0. v \in LeftViews
    BY DEF CounterInv, TypeOK, LeftViews
  <2>2. \A k \in DOMAIN left' : left'[k] = v \/ (k \in DOMAIN left /\ left'[k] = left[k])
    <3> HIDE DEF v
    <3> QED
      BY <2>0, <2>1
  <2>3. v.timers > 0 => v.orphaned
    OBVIOUS
  <2> HIDE DEF v
  <2> QED
    BY <2>2, <2>3 DEF CounterInv, LeftInv
<1> QED
  BY <1>1, <1>2, <1>3 DEF Parts

LEMMA GraphIntervalParts ==
    ASSUME CounterInv, NEW i \in Intervals \cup {Off}, GraphInterval(i) PROVE Parts'
<1>1. CASE shown
  <2>1. /\ Start(GraphOf(i)) /\ gets' = gets + 1 /\ orphans' = orphans
        /\ overlaps' = (IF polling THEN overlaps ELSE overlaps + 1)
        /\ shown' = shown /\ left' = left /\ img' = GraphOf(i) /\ interval' = i
    BY <1>1 DEF GraphInterval
  <2>2. BoundInv' /\ DigitsInv' /\ BehindInv'
    BY <2>1, StartParts DEF CounterInv
  <2>3. polling' = FALSE /\ graphUrl' = GraphOf(i)
    BY <2>1 DEF Start
  <2>4. QuietInv' /\ LeftInv'
    BY <1>1, <2>1 DEF CounterInv, QuietInv, LeftInv
  <2>5. LoopsConserved'
    <3>1. gets \in Nat /\ orphans \in Nat /\ overlaps \in Nat
      BY DEF CounterInv, TypeOK
    <3> QED
      BY <1>1, <2>1, <2>3, <3>1 DEF CounterInv, LoopsConserved, Loops
  <2>6. GraphFollowsInterval'
    BY <2>1, <2>3 DEF GraphFollowsInterval, GraphOf
  <2> QED
    BY <2>2, <2>4, <2>5, <2>6 DEF Parts
<1>2. CASE ~shown
  <2>1. UNCHANGED <<shown, timerVars, countVars, pageVars, left, overlaps>>
    BY <1>2 DEF GraphInterval
  <2>2. BoundInv' /\ QuietInv' /\ LeftInv'
    BY <2>1 DEF CounterInv, BoundInv, QuietInv, LeftInv, timerVars, countVars
  <2> QED
    BY <1>2, <2>1, <2>2 DEF Parts, LoopsConserved, DigitsInv, BehindInv,
                            GraphFollowsInterval
<1> QED
  BY <1>1, <1>2

\* A page whose graph is right refreshes it with the same graph.
LEMMA RefreshKeeps ==
    ASSUME NEW u, u \in {Null, interval}, interval # Null
    PROVE  /\ Remembered(u, GraphOf(interval)) \in {Null, interval}
           /\ (interval = Off => u = Null \/ GraphOf(interval) = Null)
           /\ Refreshed(u, GraphOf(interval)) = GraphOf(interval)
BY DEF Remembered, Refreshed, GraphOf

LEMMA PollParts == ASSUME CounterInv, Poll \/ PollOrphan PROVE Parts'
<1>0. /\ shown' = shown /\ interval' = interval /\ left' = left
      /\ UNCHANGED <<animating, countVars, overlaps>>
  BY DEF Poll, PollOrphan, histVars
<1>t. /\ polling \in BOOLEAN /\ orphans \in Nat /\ gets \in Nat /\ overlaps \in Nat
      /\ interval \in Intervals \cup {Off}
  BY DEF CounterInv, TypeOK
<1>1. BoundInv' /\ DigitsInv' /\ BehindInv' /\ LeftInv'
  BY <1>0 DEF CounterInv, BoundInv, DigitsInv, BehindInv, LeftInv, countVars
<1>2. shown
  BY <1>t DEF CounterInv, QuietInv, Poll, PollOrphan
<1>3. QuietInv'
  BY <1>0, <1>2 DEF QuietInv
<1>4. LoopsConserved'
  <2>1. gets' = gets + 1
    BY DEF Poll, PollOrphan, UpdateStats
  <2>2. Loops = 1 + overlaps
    BY <1>2 DEF CounterInv, LoopsConserved
  <2>3. CASE Poll
    BY <1>0, <1>t, <2>1, <2>2, <2>3 DEF LoopsConserved, Loops, Poll
  <2>4. CASE PollOrphan
    BY <1>0, <1>t, <2>1, <2>2, <2>4 DEF LoopsConserved, Loops, PollOrphan
  <2> QED
    BY <2>3, <2>4
<1>5. GraphFollowsInterval'
  <2> SUFFICES ASSUME \A k \in DOMAIN left :
                         left[k].orphaned => left[k].url \in {Null, interval}
               PROVE  img' = GraphOf(interval) /\ graphUrl' \in {Null, interval}
    BY <1>0 DEF GraphFollowsInterval
  <2>1. img = GraphOf(interval) /\ graphUrl \in {Null, interval}
    BY <1>2 DEF CounterInv, GraphFollowsInterval
  <2>2. img' = Refreshed(graphUrl, img) /\ graphUrl' = Remembered(graphUrl, img)
    BY DEF Poll, PollOrphan, UpdateStats
  <2>3. interval # Null
    BY <1>t, CounterAssumption
  <2> QED
    BY <2>1, <2>2, <2>3, RefreshKeeps
<1> QED
  BY <1>1, <1>3, <1>4, <1>5 DEF Parts

\* An answer and a failure end a request and set a timer.
LEMMA LoopStep ==
    ASSUME TypeOK, LoopsConserved, shown, gets > 0, NEW w, StartLoop(w),
           shown' = shown, overlaps' = overlaps
    PROVE  LoopsConserved'
<1>1. polling \in BOOLEAN /\ orphans \in Nat /\ gets \in Nat /\ overlaps \in Nat
  BY DEF TypeOK
<1> QED
  BY <1>1 DEF LoopsConserved, Loops, StartLoop

LEMMA AnswerParts ==
    ASSUME CounterInv, NEW num \in 0..MaxNum, NEW message \in BOOLEAN,
           Answer(num, message)
    PROVE  Parts'
<1>0. /\ shown /\ gets > 0 /\ StartLoop(NextWait)
      /\ UNCHANGED <<interval, shown, graphUrl, img, left, failed, overlaps>>
  BY DEF Answer, histVars
<1>t. TypeOK /\ BoundInv /\ DigitsInv /\ BehindInv
  BY DEF CounterInv
<1>a. /\ currentNum' \in Nat /\ lastNum' \in 0..MaxNum
      /\ currentNum' <= lastNum' * Scale
      /\ animating' => currentNum' < lastNum' * Scale
      /\ Spelled(spans', currentNum')
      /\ currentNum' < lastNum' * Scale => animating' \/ failed
  BY <1>t, AnswerFacts
<1>1. BoundInv'
  BY <1>0, <1>a, CounterAssumption DEF BoundInv
<1>2. DigitsInv' /\ BehindInv'
  BY <1>0, <1>a DEF DigitsInv, BehindInv
<1>3. QuietInv' /\ LeftInv' /\ GraphFollowsInterval'
  BY <1>0 DEF CounterInv, QuietInv, LeftInv, GraphFollowsInterval
<1>4. LoopsConserved'
  BY <1>0, <1>t, LoopStep DEF CounterInv
<1> QED
  BY <1>1, <1>2, <1>3, <1>4 DEF Parts

LEMMA FailParts == ASSUME CounterInv, Fail PROVE Parts'
<1>0. /\ shown /\ gets > 0 /\ StartLoop(TargetInterval)
      /\ animating' = FALSE /\ failed' = TRUE
      /\ UNCHANGED <<interval, shown, currentNum, lastNum, graphUrl, img, spans, left,
                     overlaps>>
  BY DEF Fail, histVars
<1>1. BoundInv' /\ DigitsInv' /\ BehindInv'
  BY <1>0 DEF CounterInv, BoundInv, DigitsInv, BehindInv
<1>2. QuietInv' /\ LeftInv' /\ GraphFollowsInterval'
  BY <1>0 DEF CounterInv, QuietInv, LeftInv, GraphFollowsInterval
<1>3. LoopsConserved'
  BY <1>0, LoopStep DEF CounterInv
<1> QED
  BY <1>1, <1>2, <1>3 DEF Parts

LEMMA FrameParts == ASSUME CounterInv, Frame PROVE Parts'
<1>0. /\ animating /\ lastNum' = lastNum
      /\ UNCHANGED <<interval, shown, polling, orphans, gets, failed, graphUrl, img,
                     left, overlaps>>
  BY DEF Frame, pageVars, histVars
<1>a. /\ currentNum' \in Nat /\ currentNum' <= lastNum * Scale
      /\ Spelled(spans', currentNum')
      /\ animating' <=> currentNum' < lastNum * Scale
  BY TimerFrame DEF CounterInv
<1>1. shown
  BY <1>0 DEF CounterInv, BoundInv
<1>2. BoundInv'
  BY <1>0, <1>1, <1>a DEF CounterInv, BoundInv
<1>3. DigitsInv' /\ BehindInv'
  BY <1>0, <1>1, <1>a DEF DigitsInv, BehindInv
<1>4. QuietInv' /\ LeftInv' /\ GraphFollowsInterval' /\ LoopsConserved'
  BY <1>0 DEF CounterInv, QuietInv, LeftInv, GraphFollowsInterval, LoopsConserved, Loops
<1> QED
  BY <1>2, <1>3, <1>4 DEF Parts

LEMMA LeftPollParts ==
    ASSUME CounterInv, NEW k \in 1..MaxVisits, LeftPoll(k) PROVE Parts'
<1>0. UNCHANGED <<interval, shown, timerVars, countVars, graphUrl, overlaps>>
  BY DEF LeftPoll, histVars
<1>t. TypeOK /\ LeftInv
  BY DEF CounterInv
<1>a. /\ k \in DOMAIN left /\ left[k] \in LeftViews /\ left[k].timers > 0
      /\ left' = [left EXCEPT ![k] =
            [url |-> Remembered(left[k].url, img), timers |-> left[k].timers - 1,
             gets |-> left[k].gets + 1, orphaned |-> left[k].orphaned]]
  BY <1>t, LeftPollFacts
<1>b. left[k].orphaned
  BY <1>t, <1>a DEF LeftInv
<1>c. /\ DOMAIN left' = DOMAIN left
      /\ left'[k].orphaned = left[k].orphaned
      /\ left'[k].url = Remembered(left[k].url, img)
      /\ \A j \in DOMAIN left : j # k => left'[j] = left[j]
  BY <1>a
<1>1. BoundInv' /\ QuietInv' /\ LoopsConserved' /\ DigitsInv' /\ BehindInv'
  BY <1>0 DEF CounterInv, BoundInv, QuietInv, LoopsConserved, Loops, DigitsInv,
              BehindInv, timerVars, countVars
<1>2. LeftInv'
  BY <1>t, <1>b, <1>c DEF LeftInv
<1>3. GraphFollowsInterval'
  <2> SUFFICES ASSUME shown, \A j \in DOMAIN left' :
                         left'[j].orphaned => left'[j].url \in {Null, interval}
               PROVE  img' = GraphOf(interval) /\ graphUrl \in {Null, interval}
    BY <1>0 DEF GraphFollowsInterval
  <2>1. Remembered(left[k].url, img) \in {Null, interval}
    BY <1>a, <1>b, <1>c
  <2>2. left[k].url \in {Null, interval}
    BY <2>1 DEF Remembered
  <2>3. \A j \in DOMAIN left : left[j].orphaned => left[j].url \in {Null, interval}
    BY <1>c, <2>2
  <2>4. img = GraphOf(interval) /\ graphUrl \in {Null, interval}
    BY <2>3 DEF CounterInv, GraphFollowsInterval
  <2>5. interval # Null
    BY <1>t, CounterAssumption DEF TypeOK
  <2>6. img' = Refreshed(left[k].url, img)
    BY DEF LeftPoll
  <2> QED
    BY <2>2, <2>4, <2>5, <2>6, RefreshKeeps
<1> QED
  BY <1>1, <1>2, <1>3 DEF Parts

LEMMA LeftAnswerParts ==
    ASSUME CounterInv, NEW k \in 1..MaxVisits, LeftAnswer(k) PROVE Parts'
<1>0. UNCHANGED <<interval, shown, timerVars, countVars, pageVars, overlaps>>
  BY DEF LeftAnswer, histVars
<1>t. TypeOK /\ LeftInv
  BY DEF CounterInv
<1>a. /\ k \in DOMAIN left
      /\ left' = [left EXCEPT ![k] =
            [url |-> left[k].url, timers |-> left[k].timers,
             gets |-> left[k].gets - 1, orphaned |-> left[k].orphaned]]
  BY <1>t, LeftAnswerFacts
<1>b. /\ DOMAIN left' = DOMAIN left
      /\ \A j \in DOMAIN left : /\ left'[j].orphaned = left[j].orphaned
                                /\ left'[j].url = left[j].url
                                /\ left'[j].timers = left[j].timers
  BY <1>a
<1>1. BoundInv' /\ QuietInv' /\ LoopsConserved' /\ DigitsInv' /\ BehindInv'
  BY <1>0 DEF CounterInv, BoundInv, QuietInv, LoopsConserved, Loops, DigitsInv,
              BehindInv, timerVars, countVars
<1>2. LeftInv'
  BY <1>t, <1>b DEF LeftInv
<1>3. GraphFollowsInterval'
  BY <1>0, <1>b DEF CounterInv, GraphFollowsInterval, pageVars
<1> QED
  BY <1>1, <1>2, <1>3 DEF Parts

-----------------------------------------------------------------------------
(* The invariant, and what follows from it *)

LEMMA NextInv == ASSUME CounterInv, [Next]_vars PROVE CounterInv'
<1>t. TypeOK /\ BoundInv
  BY DEF CounterInv
<1> SUFFICES TypeOK' /\ Parts'
  BY DEF CounterInv, Parts
<1>1. CASE Show
  BY <1>1, <1>t, ShowType, ShowParts
<1>2. CASE Remove
  BY <1>2, <1>t, RemoveType, RemoveParts
<1>3. CASE \E i \in Intervals \cup {Off} : GraphInterval(i)
  BY <1>3, <1>t, GraphIntervalType, GraphIntervalParts
<1>4. CASE Poll \/ PollOrphan
  BY <1>4, <1>t, PollType, PollParts
<1>5. CASE \E num \in 0..MaxNum, m \in BOOLEAN : Answer(num, m)
  BY <1>5, <1>t, AnswerType, AnswerParts
<1>6. CASE Fail
  BY <1>6, <1>t, FailType, FailParts
<1>7. CASE Frame
  BY <1>7, <1>t, FrameType, FrameParts
<1>8. CASE \E k \in 1..MaxVisits : LeftPoll(k)
  BY <1>8, <1>t, LeftType, LeftPollParts
<1>9. CASE \E k \in 1..MaxVisits : LeftAnswer(k)
  BY <1>9, <1>t, LeftType, LeftAnswerParts
<1>10. CASE UNCHANGED vars
  <2>1. TypeOK'
    BY <1>10, <1>t DEF TypeOK, vars, timerVars, countVars, pageVars, histVars
  <2>2. BoundInv' /\ QuietInv' /\ LoopsConserved' /\ DigitsInv' /\ BehindInv'
    BY <1>10 DEF CounterInv, BoundInv, QuietInv, LoopsConserved, Loops, DigitsInv,
                 BehindInv, vars, timerVars, countVars, histVars
  <2>3. LeftInv' /\ GraphFollowsInterval'
    BY <1>10 DEF CounterInv, LeftInv, GraphFollowsInterval, vars, pageVars
  <2> QED
    BY <2>1, <2>2, <2>3 DEF Parts
<1> QED
  BY <1>1, <1>2, <1>3, <1>4, <1>5, <1>6, <1>7, <1>8, <1>9, <1>10 DEF Next

\* The inductive invariant of the counter page.
THEOREM CounterCorrect == Spec => []CounterInv
<1>1. Init => CounterInv
  BY InitType, InitParts DEF CounterInv, Parts
<1> QED
  BY <1>1, NextInv, PTL DEF Spec

\* Type correctness; the wait between polls never exceeds its range.
THEOREM CounterTypes == Spec => []TypeOK
<1>1. CounterInv => TypeOK
  BY DEF CounterInv
<1> QED
  BY <1>1, CounterCorrect, PTL

\* The poll loops of counter.js are conserved: none is lost by an answer or an
\* error, and one is added exactly by a change of interval that finds a
\* request in flight.
THEOREM LoopsKept == Spec => []LoopsConserved
<1>1. CounterInv => LoopsConserved
  BY DEF CounterInv
<1> QED
  BY <1>1, CounterCorrect, PTL

\* The digits on the page follow the answers, for any step sizes and texts.
THEOREM DisplayRight == Spec => []DisplayTracksAnswers
<1>1. CounterInv => DisplayTracksAnswers
  BY DEF CounterInv, DisplayTracksAnswers, DigitsInv, Spelled, BehindInv, BoundInv
<1> QED
  BY <1>1, CounterCorrect, PTL

\* The graph is the one of the chosen interval, unless an orphan of a removed
\* view remembers another.
THEOREM GraphRight == Spec => []GraphFollowsInterval
<1>1. CounterInv => GraphFollowsInterval
  BY DEF CounterInv
<1> QED
  BY <1>1, CounterCorrect, PTL

\* No step makes the number run back, in whatever order answers arrive.
LEMMA NextMonotone ==
    ASSUME CounterInv, [Next]_vars, shown, shown', currentNum # -1, currentNum' # -1
    PROVE  currentNum' >= currentNum /\ lastNum' >= lastNum
<1>t. /\ TypeOK /\ BoundInv /\ currentNum \in Nat \cup {-1} /\ lastNum \in Nat
  BY DEF CounterInv, TypeOK
<1>1. CASE \E num \in 0..MaxNum, m \in BOOLEAN : Answer(num, m)
  <2> PICK num \in 0..MaxNum, m \in BOOLEAN : Answer(num, m)
    BY <1>1
  <2>1. currentNum' \in Nat /\ currentNum <= currentNum' /\ lastNum' \in 0..MaxNum
        /\ lastNum <= lastNum'
    BY <1>t, AnswerFacts
  <2> QED
    BY <1>t, <2>1, CounterAssumption
<1>2. CASE Frame
  <2>1. currentNum' \in Nat /\ currentNum <= currentNum' /\ lastNum' = lastNum
    BY <1>2, <1>t, TimerFrame DEF Frame
  <2> QED
    BY <1>t, <2>1
<1>3. CASE Show
  BY <1>3 DEF Show
<1>4. CASE \E i \in Intervals \cup {Off} : GraphInterval(i)
  BY <1>4 DEF GraphInterval, Start
<1>5. CASE \/ Remove \/ Poll \/ PollOrphan \/ Fail
           \/ \E k \in 1..MaxVisits : LeftPoll(k)
           \/ \E k \in 1..MaxVisits : LeftAnswer(k)
           \/ UNCHANGED vars
  <2>1. currentNum' = currentNum /\ lastNum' = lastNum
    BY <1>5 DEF Remove, Poll, PollOrphan, Fail, LeftPoll, LeftAnswer, vars, countVars
  <2> QED
    BY <1>t, <2>1
<1> QED
  BY <1>1, <1>2, <1>3, <1>4, <1>5 DEF Next

\* Between two starts of the page the number never runs back.
THEOREM CountMonotone == Spec => CountNeverRunsBack
<1>1. CounterInv /\ [Next]_vars =>
        [shown /\ shown' /\ currentNum' # -1 /\ currentNum # -1
            => currentNum' >= currentNum /\ lastNum' >= lastNum]_vars
  BY NextMonotone
<1> QED
  BY <1>1, CounterCorrect, PTL DEF Spec, CountNeverRunsBack
=============================================================================
