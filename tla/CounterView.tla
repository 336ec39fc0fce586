----------------------------- MODULE CounterView -----------------------------
(***************************************************************************)
(* The message counter page of xmqadmin (views/counter.js): a view that    *)
(* polls /api/counter, animates the number it shows towards the last       *)
(* answer, and refreshes a graph.  JavaScript runs one handler at a time,  *)
(* so every handler is one action; what interleaves is the order in which  *)
(* timers fire, requests are answered and the user acts.                   *)
(*                                                                         *)
(* One CounterView exists per visit of the page.  The state of the visit   *)
(* on screen is kept in variables named after the fields of the object; a  *)
(* view that was removed keeps, in "left", only what can still act: timers *)
(* that remove() did not cancel, requests not yet answered, and graphUrl.  *)
(*                                                                         *)
(* Timers carry no identity here.  "polling" says that the timer           *)
(* this.poller names is pending; "orphans" counts pending poll timers that *)
(* no field names any more, because startLoop overwrote this.poller.       *)
(* Counts are scaled by Scale so that the fraction each frame adds is an   *)
(* integer.                                                                *)
(***************************************************************************)
EXTENDS Integers, Sequences

CONSTANTS Intervals,        \* the choices of graph_interval that draw a graph
          Off,              \* the choice "off"
          Null,             \* JavaScript's null
          FirstInterval,    \* this.interval after start: 100 ms
          IntervalStep,     \* what each answer adds to it: 1000 ms
          TargetInterval,   \* targetPollInterval, and the wait after an error
          Scale,            \* fractions of a message told apart
          Digits,           \* the characters of a number
          Text(_),          \* the characters that toString makes of a number
          MaxNum,           \* bound: largest sum a poll reports
          MaxVisits,        \* bound: times the page is opened
          MaxChanges        \* bound: times graph_interval is changed

\* Off and Null are no interval; the poll interval is below its target at the
\* start and does not meet it exactly; every frame's fraction is whole.
ASSUME CounterAssumption ==
    /\ Off \notin Intervals /\ Null \notin Intervals \cup {Off}
    /\ {FirstInterval, IntervalStep, TargetInterval, Scale} \subseteq Nat \ {0}
    /\ FirstInterval < TargetInterval
    /\ \A w \in FirstInterval..(TargetInterval + IntervalStep - 1) :
          Scale % w = 0
    /\ \A n \in 0..MaxNum : Text(n) \in Seq(Digits)
    /\ MaxNum \in Nat /\ MaxVisits \in Nat /\ MaxChanges \in Nat

VARIABLES
    interval,       \* AppState's graph_interval
    shown,          \* whether the counter page is on screen
    polling,        \* the timer named by this.poller is pending
    orphans,        \* pending poll timers of this view that nothing names
    gets,           \* unanswered requests of this view
    animating,      \* this.animator is set and its timer pending
    delta,          \* this.delta, scaled
    currentNum,     \* this.currentNum, scaled; -1 before the first answer
    lastNum,        \* this.lastNum
    wait,           \* this.interval
    graphUrl,       \* this.graphUrl, as the interval it asks for, or Null
    img,            \* the src of #big_graph, likewise; Null: no such element
    spans,          \* the elements .number: digit and whether it is visible
    banner,         \* which of #warning and #error is visible
    left,           \* the removed views, oldest first
    failed,         \* history: a poll failed since the last start
    overlaps,       \* history: changes of interval that met no named timer
    changes         \* number of changes of interval, for the bound

timerVars == <<polling, orphans, gets, animating>>
countVars == <<delta, currentNum, lastNum, wait, spans, failed>>
pageVars  == <<graphUrl, img, banner>>
histVars  == <<overlaps, changes>>
vars == <<interval, shown, timerVars, countVars, pageVars, left, histVars>>

-----------------------------------------------------------------------------
\* The number of loops that poll for the view on screen.
Loops == (IF polling THEN 1 ELSE 0) + orphans + gets

\* writeCounts: fill the digits that exist, add the ones that are missing,
\* hide the ones that are too many.
WriteCounts(old, c) ==
    LET text == Text(c \div Scale)
        len  == IF Len(old) > Len(text) THEN Len(old) ELSE Len(text)
    IN  [i \in 1..len |->
            IF i <= Len(text) THEN [digit |-> text[i], visible |-> TRUE]
                              ELSE [digit |-> old[i].digit, visible |-> FALSE]]

\* What counter.hbs draws of the graph (graph_active in getRenderCtx).
GraphOf(i) == IF i = Off THEN Null ELSE i

\* The tail of updateStats: a view whose graphUrl is u refreshes the element
\* #big_graph of the page, whoever drew it, with the url it remembers.
Remembered(u, src) == IF src # Null /\ u = Null THEN src ELSE u
Refreshed(u, src) == IF src = Null THEN Null ELSE Remembered(u, src)

\* updateStats of the view on screen: one more request, and the graph.
UpdateStats ==
    /\ gets' = gets + 1
    /\ graphUrl' = Remembered(graphUrl, img)
    /\ img' = Refreshed(graphUrl, img)

\* Variant: graphUrl is not forgotten.
Start_KeepsUrl(src) ==
    /\ polling' = FALSE /\ animating' = FALSE
    /\ delta' = 0 /\ currentNum' = -1 /\ lastNum' = 0 /\ wait' = FirstInterval
    /\ graphUrl' = graphUrl /\ failed' = FALSE

\* start, when the page draws src: the fields are reset, the first request
\* is sent.  The timers the fields named are forgotten, not cancelled.
Start(src) ==
    /\ polling' = FALSE
    /\ animating' = FALSE
    /\ delta' = 0
    /\ currentNum' = -1
    /\ lastNum' = 0
    /\ wait' = FirstInterval
    /\ graphUrl' = src
    /\ failed' = FALSE

\* startLoop: a timer this.poller still named becomes an orphan.
StartLoop(w) ==
    /\ wait' = w
    /\ polling' = TRUE
    /\ orphans' = IF polling THEN orphans + 1 ELSE orphans
    /\ gets' = gets - 1

\* Variant: the step is not limited.
Stepped_Unbounded(c, d, to) == c + d

\* displayFrame: one step of the animation from c towards to.
Stepped(c, d, to) == IF c + d < to * Scale THEN c + d ELSE to * Scale

\* Variant: the timer of the next frame is not set.
DisplayFrame_Once(d, to) ==
    /\ currentNum' = Stepped(currentNum, d, to)
    /\ spans' = WriteCounts(spans, currentNum')
    /\ animating' = FALSE

DisplayFrame(d, to) ==
    /\ currentNum' = Stepped(currentNum, d, to)
    /\ spans' = WriteCounts(spans, currentNum')
    /\ animating' = (currentNum' < to * Scale)

-----------------------------------------------------------------------------
Init ==
    /\ interval \in Intervals \cup {Off}
    /\ shown = FALSE
    /\ polling = FALSE /\ orphans = 0 /\ gets = 0 /\ animating = FALSE
    /\ delta = 0 /\ currentNum = -1 /\ lastNum = 0 /\ wait = FirstInterval
    /\ graphUrl = Null /\ img = Null /\ spans = <<>> /\ banner = "none"
    /\ left = <<>> /\ failed = FALSE /\ overlaps = 0 /\ changes = 0

\* The page is opened: initialize calls start while the page has no graph
\* yet, then AppView renders the view.
Show ==
    /\ ~shown /\ Len(left) < MaxVisits
    /\ shown' = TRUE
    /\ Start(Null)
    /\ orphans' = 0
    /\ gets' = 1
    /\ img' = GraphOf(interval)
    /\ spans' = <<>>
    /\ banner' = "none"
    /\ overlaps' = 0
    /\ UNCHANGED <<interval, left, changes>>

\* remove: the two named timers are cancelled, the element leaves the page.
Remove ==
    /\ shown
    /\ shown' = FALSE
    /\ left' = Append(left, [url |-> graphUrl, timers |-> orphans, gets |-> gets,
                             orphaned |-> orphans > 0])
    /\ polling' = FALSE /\ animating' = FALSE
    /\ orphans' = 0 /\ gets' = 0
    /\ img' = Null /\ spans' = <<>> /\ banner' = "none"
    /\ UNCHANGED <<interval, delta, currentNum, lastNum, wait, graphUrl,
                   failed, histVars>>

\* The user picks i: AppState changes, and the listener of a view on screen
\* cancels the named timers, renders and starts again.
GraphInterval(i) ==
    /\ i # interval /\ changes < MaxChanges
    /\ interval' = i
    /\ changes' = changes + 1
    /\ IF shown
       THEN /\ Start(GraphOf(i))
            /\ gets' = gets + 1
            /\ img' = GraphOf(i)
            /\ spans' = <<>>
            /\ banner' = "none"
            /\ overlaps' = IF polling THEN overlaps ELSE overlaps + 1
            /\ UNCHANGED <<shown, orphans, left>>
       ELSE UNCHANGED <<shown, timerVars, countVars, pageVars, left, overlaps>>

\* A poll timer fires: the named one, or an orphan.
Poll ==
    /\ polling
    /\ polling' = FALSE
    /\ UpdateStats
    /\ UNCHANGED <<interval, shown, orphans, animating, countVars, banner,
                   left, histVars>>

PollOrphan ==
    /\ orphans > 0
    /\ orphans' = orphans - 1
    /\ UpdateStats
    /\ UNCHANGED <<interval, shown, polling, animating, countVars, banner,
                   left, histVars>>

\* Whether an answer num seeds the display, or moves its target.
Seeds == currentNum = -1

\* Variant: any other answer moves the target.
Grows_Any(num) == ~Seeds /\ num # lastNum

Grows(num) == ~Seeds /\ num > lastNum

\* Variant: the wait grows for ever.
NextWait_Unbounded == wait + IntervalStep

\* The wait after an answer.
NextWait == IF wait < TargetInterval THEN wait + IntervalStep ELSE wait

\* An answer arrives with the sum num of the nodes' message counts.  It may
\* be older than one already applied, or smaller because a node is gone.
Answer(num, message) ==
    /\ shown /\ gets > 0
    /\ \/ /\ Seeds
          /\ currentNum' = num * Scale
          /\ lastNum' = num
          /\ spans' = WriteCounts(spans, num * Scale)
          /\ UNCHANGED <<delta, animating>>
       \/ /\ Grows(num)
          /\ delta' = ((num - lastNum) * Scale) \div wait
          /\ lastNum' = num
          /\ IF animating THEN UNCHANGED <<currentNum, spans, animating>>
                          ELSE DisplayFrame(delta', num)
       \/ /\ ~Seeds /\ ~Grows(num)
          /\ UNCHANGED <<delta, currentNum, lastNum, spans, animating>>
    /\ StartLoop(NextWait)
    /\ banner' = IF message THEN "warning" ELSE "none"
    /\ UNCHANGED <<interval, shown, graphUrl, img, left, failed, histVars>>

\* Variant: a failed poll is not repeated.
Fail_GivesUp ==
    /\ shown /\ gets > 0
    /\ animating' = FALSE
    /\ gets' = gets - 1
    /\ banner' = "error"
    /\ failed' = TRUE
    /\ UNCHANGED <<interval, shown, polling, orphans, delta, currentNum, lastNum,
                   wait, graphUrl, img, spans, left, histVars>>

\* The request fails, or is not answered within the 20 s of ajax_setup.js.
Fail ==
    /\ shown /\ gets > 0
    /\ animating' = FALSE
    /\ StartLoop(TargetInterval)
    /\ banner' = "error"
    /\ failed' = TRUE
    /\ UNCHANGED <<interval, shown, delta, currentNum, lastNum, graphUrl, img,
                   spans, left, histVars>>

\* The animation timer fires.
Frame ==
    /\ animating
    /\ DisplayFrame(delta, lastNum)
    /\ UNCHANGED <<interval, shown, polling, orphans, gets, delta, lastNum, wait,
                   failed, pageVars, left, histVars>>

\* A poll timer of a removed view fires: updateStats runs all the same.
LeftPoll(k) ==
    /\ k \in DOMAIN left /\ left[k].timers > 0
    /\ left' = [left EXCEPT ![k] =
                   [url |-> Remembered(@.url, img), timers |-> @.timers - 1,
                    gets |-> @.gets + 1, orphaned |-> @.orphaned]]
    /\ img' = Refreshed(left[k].url, img)
    /\ UNCHANGED <<interval, shown, timerVars, countVars, graphUrl, banner,
                   histVars>>

\* Variant: the handlers do not ask whether the view was removed.
LeftAnswer_Loops(k) ==
    /\ k \in DOMAIN left /\ left[k].gets > 0
    /\ left' = [left EXCEPT ![k].gets = @ - 1, ![k].timers = @ + 1]
    /\ UNCHANGED <<interval, shown, timerVars, countVars, pageVars, histVars>>

\* A request of a removed view ends, well or not: both handlers return.
LeftAnswer(k) ==
    /\ k \in DOMAIN left /\ left[k].gets > 0
    /\ left' = [left EXCEPT ![k].gets = @ - 1]
    /\ UNCHANGED <<interval, shown, timerVars, countVars, pageVars, histVars>>

AnyAnswer == Fail \/ \E num \in 0..MaxNum, m \in BOOLEAN : Answer(num, m)
LeftStep == \E k \in 1..MaxVisits : LeftPoll(k) \/ LeftAnswer(k)

Next ==
    \/ Show
    \/ Remove
    \/ \E i \in Intervals \cup {Off} : GraphInterval(i)
    \/ Poll
    \/ PollOrphan
    \/ \E num \in 0..MaxNum, m \in BOOLEAN : Answer(num, m)
    \/ Fail
    \/ Frame
    \/ \E k \in 1..MaxVisits : LeftPoll(k)
    \/ \E k \in 1..MaxVisits : LeftAnswer(k)

Spec == Init /\ [][Next]_vars

\* The browser fires the timers that are due and ends every request, at the
\* latest by its 20 s timeout; the user need not do anything.
FairSpec ==
    /\ Spec
    /\ WF_vars(Poll) /\ WF_vars(PollOrphan) /\ WF_vars(AnyAnswer)
    /\ WF_vars(Frame) /\ WF_vars(LeftStep)

-----------------------------------------------------------------------------
Spans == [digit : Digits, visible : BOOLEAN]
LeftViews == [url : Intervals \cup {Null}, timers : Nat, gets : Nat,
              orphaned : BOOLEAN]
Waits == FirstInterval..(TargetInterval + IntervalStep - 1)

\* The types of the variables; the wait between polls stays between its first
\* value and the first multiple of the step at or beyond the target.
TypeOK ==
    /\ interval \in Intervals \cup {Off}
    /\ shown \in BOOLEAN /\ polling \in BOOLEAN /\ animating \in BOOLEAN
    /\ orphans \in Nat /\ gets \in Nat
    /\ delta \in Nat /\ currentNum \in Nat \cup {-1} /\ lastNum \in Nat
    /\ wait \in Waits
    /\ graphUrl \in Intervals \cup {Null} /\ img \in Intervals \cup {Null}
    /\ spans \in Seq(Spans)
    /\ banner \in {"none", "warning", "error"}
    /\ left \in Seq(LeftViews)
    /\ failed \in BOOLEAN /\ overlaps \in Nat /\ changes \in Nat

\* The loops of a view on screen are conserved: start begins one, every answer
\* and every failure continues the one it ends, and a loop is added exactly
\* when the interval changes while no named timer is pending, because the
\* request in flight is not cancelled and its answer calls startLoop too.
LoopsConserved == shown => Loops = 1 + overlaps

\* What the page shows follows the answers.  The visible digits spell the whole
\* part of currentNum, however many digits earlier numbers left behind.  The
\* number never runs ahead of the answers, and it is behind them only while
\* the animation runs, unless a failed poll has stopped the animation (fail
\* clears the animator, and only a larger answer starts it again).
DisplayTracksAnswers ==
    shown /\ currentNum # -1 =>
        /\ LET text == Text(currentNum \div Scale)
           IN  /\ Len(text) <= Len(spans)
               /\ \A i \in DOMAIN spans : spans[i].visible <=> i <= Len(text)
               /\ \A i \in DOMAIN text : spans[i].digit = text[i]
        /\ currentNum <= lastNum * Scale
        /\ animating => currentNum < lastNum * Scale
        /\ currentNum < lastNum * Scale => animating \/ failed

\* The graph on screen is the one of the chosen interval, as long as no removed
\* view left an orphan timer behind with the url of another interval.
GraphFollowsInterval ==
    shown /\ (\A k \in DOMAIN left :
                 left[k].orphaned => left[k].url \in {Null, interval}) =>
        /\ img = GraphOf(interval)
        /\ graphUrl \in {Null, interval}

\* Between two starts the number on screen never runs back, although answers
\* may arrive out of order and the sum of the nodes may fall.
CountNeverRunsBack ==
    [][shown /\ shown' /\ currentNum' # -1 /\ currentNum # -1
          => currentNum' >= currentNum /\ lastNum' >= lastNum]_vars

\* The animation reaches the last answer, unless a poll fails, the interval
\* changes or the page is left before.
DisplayCatchesUp ==
    (shown /\ currentNum # -1 /\ currentNum < lastNum * Scale)
        ~> (~shown \/ failed \/ currentNum = -1 \/ currentNum = lastNum * Scale)

\* A removed view falls silent: its orphan timers fire at most once and its
\* requests end, and neither starts anything again.
RemovedFallsSilent ==
    \A k \in 1..MaxVisits :
        k \in DOMAIN left ~>
            k \in DOMAIN left /\ left[k].timers = 0 /\ left[k].gets = 0
=============================================================================
