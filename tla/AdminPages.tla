----------------------------- MODULE AdminPages -----------------------------
(***************************************************************************)
(* The pages of the xmqadmin front end (main.js, router.js, app_state.js,  *)
(* views/*.js, models/*.js): a Backbone application in one browser tab.    *)
(* A handler of JavaScript runs to its end, so each is one action; the     *)
(* answers of the requests it sent, the clicks of the user and the browser *)
(* (Back, reload) come in any order.                                       *)
(*                                                                         *)
(* views is AppView.subviews without the header: every view shown since    *)
(* the page was loaded.  showView removes the previous view from the page  *)
(* and never from that list, so a removed view can still be answered.      *)
(* The content of a view's element is reduced to what the properties tell  *)
(* apart: spinner, page or error, whether a warning, the buttons of an     *)
(* administrator and the links of listed items are there, for which        *)
(* graph_interval it was drawn, and what a cell of class "rate" holds.     *)
(***************************************************************************)
EXTENDS Naturals, Sequences

CONSTANTS TopicNames, ChannelNames, NodeNames,
          None,           \* no such part of the URL, no entry, no dialog
          Intervals,      \* the values of graph_interval that draw graphs
          Off,            \* the value "off"
          Default,        \* "2h", the initial value of graph_interval
          GraphEnabled,   \* GRAPH_ENABLED of index.html
          IsAdmin,        \* IS_ADMIN of index.html
          LookupHosts,    \* index.html names hosts of xmqlookupd
          MaxViews,       \* bound: views shown after one load
          MaxChanges,     \* bound: changes of graph_interval
          MaxLoads,       \* bound: loads of the page
          MaxCalls        \* bound: commands sent

ASSUME PagesAssumption ==
    /\ Default \in Intervals /\ Off \notin Intervals
    /\ None \notin Intervals \cup {Off} \cup TopicNames \cup ChannelNames
                     \cup NodeNames
    /\ {GraphEnabled, IsAdmin, LookupHosts} \subseteq BOOLEAN
    /\ {MaxViews, MaxChanges, MaxLoads, MaxCalls} \subseteq Nat

VARIABLES
    location,     \* the path of the URL
    query,        \* its parameter t, or None
    interval,     \* AppState's graph_interval
    stored,       \* localStorage's graph_interval, or None
    header,       \* the interval the header was drawn for
    views,        \* AppView.subviews after the header; the last is currentView
    dialog,       \* the open bootbox.confirm, or None
    calls,        \* commands sent to xmqadmin and not answered
    agreed,       \* history: the commands the user was asked about and confirmed
    changes, loads, sent    \* counters for the bounds

urlVars  == <<location, query>>
setVars  == <<interval, stored, header, changes>>
callVars == <<dialog, calls, agreed, sent>>
vars == <<urlVars, setVars, views, callVars, loads>>

AllIntervals == Intervals \cup {Off}
Kinds == {"topics", "topic", "channel", "lookup", "nodes", "node", "counter"}

\* The paths the router knows; a and b are the parts in parentheses.
Locations ==
    [route : {"topics", "lookup", "counter"}, a : {None}, b : {None}]
        \cup [route : {"topic"}, a : TopicNames, b : ChannelNames \cup {None}]
        \cup [route : {"nodes"}, a : NodeNames \cup {None}, b : {None}]

Commands == [op : {"delete", "action", "tombstone", "create"},
             a : TopicNames \cup {None}, b : ChannelNames \cup NodeNames \cup {None},
             from : Kinds]

\* Every view but these asks for its data when it is created; every view but
\* LookupView draws itself again when graph_interval changes.
Fetches(kind) == kind # "counter"

\* Variant: a view forgets to listen.
Listens_NotNode(kind) == kind \notin {"lookup", "node"}

Listens(kind) == kind # "lookup"

\* The pages whose data is a model: its attributes are part of every drawing.
HasModel(kind) == kind \in {"topic", "channel", "node"}
HasButtons(kind) == kind \in {"topic", "channel", "lookup"}
HasRates(kind) == kind \in {"topics", "topic", "channel"}

\* The template has something an administrator can act on: the pages of a
\* topic and of a channel nobody produces, and the lookup page without hosts,
\* show a notice instead.
Actionable(v) == IF v.kind = "lookup" THEN LookupHosts ELSE v.listed

-----------------------------------------------------------------------------
\* Router: the event a path triggers, and with it the view AppView creates.
KindOf(loc) ==
    CASE loc.route = "topic" -> IF loc.b # None THEN "channel" ELSE "topic"
      [] loc.route = "nodes" -> IF loc.a # None THEN "node" ELSE "nodes"
      [] OTHER -> loc.route

\* render: the template of the view applied to getRenderCtx(data), that is to
\* the interval, the attributes of the model and what the caller adds.
\* What a page lists (the producers of a topic or channel, topics, inactive
\* topics) is redrawn with it: it is in the model or the collection.
Render(v, i, message, isAdmin) ==
    LET page == v.template = "page"
    IN  [v EXCEPT !.el =
          IF v.removed THEN @ ELSE
          [what     |-> v.template,
           warning  |-> page /\ (message \/ (HasModel(v.kind) /\ v.message)),
           buttons  |-> page /\ HasButtons(v.kind) /\ (isAdmin \/ v.isAdmin)
                            /\ Actionable(v),
           items    |-> page /\ v.listed /\ Actionable(v),
           alert    |-> page /\ (message \/ (HasModel(v.kind) /\ v.message)),
           interval |-> i,
           rate     |-> IF page /\ HasRates(v.kind) /\ v.listed /\ GraphEnabled
                           /\ i # Off
                        THEN "empty" ELSE "none",
           asks     |-> 0,
           threw    |-> FALSE]]

\* initialize of the views and appendSubview: the request is sent and the
\* spinner (for the counter: its page) is drawn.  The models of TopicView and
\* ChannelView carry isAdmin.
NewView(loc, i) ==
    LET kind == KindOf(loc)
        v == [kind |-> kind, a |-> loc.a, b |-> loc.b,
              template |-> IF Fetches(kind) THEN "spinner" ELSE "page",
              fetch |-> IF Fetches(kind) THEN "pending" ELSE "done",
              message |-> FALSE, listed |-> FALSE,
              isAdmin |-> IsAdmin /\ kind \in {"topic", "channel"},
              removed |-> FALSE, redrawn |-> FALSE, el |-> None]
    IN  Render(v, i, FALSE, FALSE)

\* The view on the page.
Live == views[Len(views)]

\* Variant: the current view is not removed.
ShowView_Keeps(loc) == views' = Append(views, NewView(loc, interval))

\* showView: the current view is removed, the new one appended.
ShowView(loc) ==
    views' = Append([views EXCEPT ![Len(views)].removed = TRUE],
                    NewView(loc, interval))

\* Variant: there is no default.
Chosen_NoDefault(t, kept) == IF t # None THEN t ELSE kept

\* AppState.initialize: the query, then what was stored, then the default.
\* Only a value other than the default is a change, and is stored.
Chosen(t, kept) ==
    IF t # None THEN t
    ELSE IF kept # None THEN kept
    ELSE IF GraphEnabled THEN Default ELSE Off

\* Variant: the listener that stores is registered after the value is set.
Kept_Late(i, kept) == kept

Kept(i, kept) == IF i # Default THEN i ELSE kept

\* main.js: the page is loaded at loc?t: AppState, AppView with its header,
\* and the view of the path.  Whatever the previous page was waiting for is
\* gone with it.
Load(loc, t) ==
    /\ loads < MaxLoads
    /\ loads' = loads + 1
    /\ location' = loc /\ query' = t
    /\ interval' = Chosen(t, stored)
    /\ stored' = Kept(interval', stored)
    /\ header' = interval'
    /\ views' = <<NewView(loc, interval')>>
    /\ dialog' = None /\ calls' = {} /\ agreed' = {}
    /\ UNCHANGED <<changes, sent>>

Init ==
    /\ location \in Locations
    /\ query \in {None} \cup AllIntervals
    /\ \E kept \in {None} \cup AllIntervals :
          /\ interval = Chosen(query, kept)
          /\ stored = Kept(interval, kept)
    /\ header = interval
    /\ views = <<NewView(location, interval)>>
    /\ dialog = None /\ calls = {} /\ agreed = {}
    /\ changes = 0 /\ loads = 1 /\ sent = 0

-----------------------------------------------------------------------------
\* onLinkClick, and Back or Forward: Backbone ignores the path it is at.
Navigate(loc) ==
    /\ loc # location /\ Len(views) < MaxViews
    /\ location' = loc /\ query' = None
    /\ ShowView(loc)
    /\ UNCHANGED <<setVars, callVars, loads>>

\* 'view:ready': AppView asks graphite for every rate cell of the page,
\* whichever view triggered the event.
Asked(v) ==
    LET n == IF v.el.rate = "none" THEN 0 ELSE v.el.asks + 1
    IN  [v EXCEPT !.el = [v.el EXCEPT !.asks = n]]

\* Variant: nobody listens.
ViewReady_Deaf(vs) == vs

ViewReady(vs) == [vs EXCEPT ![Len(vs)] = Asked(@)]

\* The done handlers: model, template, drawing, event.
Fetched(v, message, listed) ==
    [v EXCEPT !.fetch = "done", !.template = "page", !.message = message,
              !.listed = listed]

FetchDone(k, message, listed) ==
    /\ k \in DOMAIN views /\ views[k].fetch = "pending"
    /\ views' = ViewReady([views EXCEPT ![k] =
                              Render(Fetched(@, message, listed), interval,
                                     message, IsAdmin)])
    /\ UNCHANGED <<urlVars, setVars, callVars, loads>>

\* Variant: there is no fail handler.
ViewError_None(el) == el

\* handleViewError writes into the element, and leaves the template alone.
ViewError(el) ==
    [el EXCEPT !.what = "error", !.warning = FALSE, !.buttons = FALSE,
               !.items = FALSE, !.alert = TRUE, !.rate = "none", !.asks = 0,
               !.threw = FALSE]

Failed(v) == [v EXCEPT !.fetch = "failed", !.el = ViewError(@)]

FetchFail(k) ==
    /\ k \in DOMAIN views /\ views[k].fetch = "pending"
    /\ views' = ViewReady([views EXCEPT ![k] = Failed(@)])
    /\ UNCHANGED <<urlVars, setVars, callVars, loads>>

\* formatRate, and the handlers around it.  An empty list of series makes it
\* throw, so the cell stays as it is; a null value is divided like zero; the
\* cell of a failed request reads ERROR.
FormatRate(data, old) ==
    CASE data \in {"value", "nullValue"} -> "number"
      [] data \in {"nullSeries", "nullPoint", "negative"} -> "N/A"
      [] data = "noSeries" -> old
      [] data = "failed" -> "ERROR"

\* An answer of graphite for a cell that is still on the page.  Cells that
\* were drawn over are no longer in the document, and their answers void.
Rated(v, data) ==
    [v EXCEPT !.el = [v.el EXCEPT !.asks = v.el.asks - 1,
                                  !.rate = FormatRate(data, v.el.rate),
                                  !.threw = @ \/ data = "noSeries"]]

RateAnswer(data) ==
    /\ Live.el.asks > 0
    /\ views' = [views EXCEPT ![Len(views)] = Rated(@, data)]
    /\ UNCHANGED <<urlVars, setVars, callVars, loads>>

\* The listener of a view for change:graph_interval: the view is drawn again,
\* without the data of the first drawing.
Redrawn(v, i) ==
    IF v.removed \/ ~Listens(v.kind) THEN v
    ELSE [Render(v, i, FALSE, FALSE) EXCEPT !.redrawn = (v.fetch # "pending")]

\* onGraphIntervalClick: a new value is stored, and the header and the views
\* that listen are drawn again.
GraphInterval(i) ==
    /\ GraphEnabled /\ i # interval /\ changes < MaxChanges
    /\ interval' = i /\ stored' = i /\ header' = i
    /\ changes' = changes + 1
    /\ views' = [k \in DOMAIN views |-> Redrawn(views[k], i)]
    /\ UNCHANGED <<urlVars, callVars, loads>>

-----------------------------------------------------------------------------
\* The command that a click on the page of view v would send.
CommandOf(v, op, a, b) ==
    [op |-> op, a |-> IF v.kind \in {"topic", "channel"} THEN v.a ELSE a,
     b |-> IF v.kind = "channel" THEN v.b
           ELSE IF v.kind = "node" THEN v.a
           ELSE IF op = "tombstone" THEN b ELSE None,
     from |-> v.kind]

\* The clicks that open a dialog: topicAction and channelAction on the buttons
\* of an administrator, onTombstoneClick on the link of a listed producer or
\* topic.
TopicAction(op) ==
    op \in {"delete", "action"} /\ Live.kind = "topic" /\ Live.el.buttons
ChannelAction(op) ==
    op \in {"delete", "action"} /\ Live.kind = "channel" /\ Live.el.buttons
TombstoneClick(op) ==
    op = "tombstone" /\ Live.kind \in {"topic", "node"} /\ Live.el.items

\* The user is asked first.  The callback keeps the view, and takes the target
\* from its model when it runs.
Ask(op, a, b) ==
    /\ dialog = None /\ sent < MaxCalls
    /\ Live.el.what = "page"
    /\ TopicAction(op) \/ ChannelAction(op) \/ TombstoneClick(op)
    /\ dialog' = [view |-> Len(views), op |-> op, a |-> a, b |-> b,
                  text |-> CommandOf(Live, op, a, b)]
    /\ UNCHANGED <<urlVars, setVars, views, calls, agreed, sent, loads>>

\* Variant: the callback asks the page which view it shows.
Target_Live(d) == CommandOf(Live, d.op, d.a, d.b)

Target(d) == CommandOf(views[d.view], d.op, d.a, d.b)

Confirm ==
    /\ dialog # None
    /\ dialog' = None
    /\ calls' = calls \cup {[id |-> sent, command |-> Target(dialog)]}
    /\ agreed' = agreed \cup {dialog.text}
    /\ sent' = sent + 1
    /\ UNCHANGED <<urlVars, setVars, views, loads>>

Dismiss ==
    /\ dialog # None
    /\ dialog' = None
    /\ UNCHANGED <<urlVars, setVars, views, calls, agreed, sent, loads>>

\* onCreateTopicChannel, onDeleteTopic, onDeleteChannel of LookupView: sent
\* without a question.
LookupCall(op, a, b) ==
    /\ sent < MaxCalls
    /\ Live.kind = "lookup" /\ Live.el.what = "page"
    /\ IF op = "create" THEN Live.el.buttons /\ (a # None \/ b # None)
                        ELSE Live.el.items /\ a # None
    /\ calls' = calls \cup {[id |-> sent, command |->
                               [op |-> op, a |-> a, b |-> b, from |-> "lookup"]]}
    /\ sent' = sent + 1
    /\ UNCHANGED <<urlVars, setVars, views, dialog, agreed, loads>>

Deletes(c, kind) == c.command.op = "delete" /\ c.command.from = kind

\* The command succeeded: the page is loaded again, or, after a deletion on
\* the page of what was deleted, the page above it.
CallDone(c) ==
    /\ c \in calls
    /\ IF Deletes(c, "topic")
       THEN Load([route |-> "topics", a |-> None, b |-> None], None)
       ELSE IF Deletes(c, "channel")
       THEN Load([route |-> "topic", a |-> c.command.a, b |-> None], None)
       ELSE Load(location, query)

Alerted(v) == [v EXCEPT !.el = [@ EXCEPT !.alert = TRUE, !.warning = FALSE]]

\* The command failed: handleAJAXError writes into #error of the page, which
\* a spinner does not have.  The deletion of a topic has no fail handler.
CallFail(c) ==
    /\ c \in calls
    /\ calls' = calls \ {c}
    /\ IF Live.el.what # "spinner" /\ ~Deletes(c, "topic")
       THEN views' = [views EXCEPT ![Len(views)] = Alerted(@)]
       ELSE UNCHANGED views
    /\ UNCHANGED <<urlVars, setVars, dialog, agreed, sent, loads>>

RateData == {"value", "nullValue", "nullSeries", "nullPoint", "negative",
             "noSeries", "failed"}

FetchEnds == \E k \in 1..MaxViews :
                FetchFail(k) \/ \E m, l \in BOOLEAN : FetchDone(k, m, l)
RateEnds == \E data \in RateData : RateAnswer(data)

Next ==
    \/ \E loc \in Locations : Navigate(loc)
    \/ Load(location, query)
    \/ \E k \in 1..MaxViews : FetchFail(k)
    \/ \E k \in 1..MaxViews, m, l \in BOOLEAN : FetchDone(k, m, l)
    \/ RateEnds
    \/ \E i \in AllIntervals : GraphInterval(i)
    \/ \E op \in {"delete", "action", "tombstone"}, a \in TopicNames,
          b \in NodeNames : Ask(op, a, b)
    \/ Confirm
    \/ Dismiss
    \/ \E op \in {"delete", "create"}, a \in TopicNames \cup {None},
          b \in ChannelNames \cup {None} : LookupCall(op, a, b)
    \/ \E c \in calls : CallDone(c)
    \/ \E c \in calls : CallFail(c)

Spec == Init /\ [][Next]_vars

\* Every request ends, at the latest by the 20 s timeout of ajax_setup.js.
FairSpec == Spec /\ WF_vars(FetchEnds) /\ WF_vars(RateEnds)

-----------------------------------------------------------------------------
Elements == [what : {"spinner", "page", "error"}, warning : BOOLEAN,
             buttons : BOOLEAN, items : BOOLEAN, alert : BOOLEAN,
             interval : AllIntervals,
             rate : {"none", "empty", "number", "N/A", "ERROR"},
             asks : Nat, threw : BOOLEAN]
Views == [kind : Kinds,
          a : TopicNames \cup NodeNames \cup {None}, b : ChannelNames \cup {None},
          template : {"spinner", "page"}, fetch : {"pending", "done", "failed"},
          message : BOOLEAN, listed : BOOLEAN, isAdmin : BOOLEAN, removed : BOOLEAN,
          redrawn : BOOLEAN, el : Elements]

\* The types of the variables.
TypeOK ==
    /\ location \in Locations /\ query \in AllIntervals \cup {None}
    /\ interval \in AllIntervals /\ stored \in AllIntervals \cup {None}
    /\ header \in AllIntervals
    /\ views \in Seq(Views) /\ Len(views) > 0
    /\ dialog = None \/ /\ dialog.view \in DOMAIN views
                        /\ dialog.text \in Commands
    /\ \A c \in calls : c.command \in Commands
    /\ agreed \subseteq Commands
    /\ changes \in Nat /\ loads \in Nat /\ sent \in Nat

\* Exactly the view created last is on the page, and it is the one the router
\* makes of the URL, whatever was answered to views left before.
PageIsLocation ==
    /\ \A k \in DOMAIN views : views[k].removed <=> k # Len(views)
    /\ Live.kind = KindOf(location) /\ Live.a = location.a /\ Live.b = location.b

\* What is on the page is complete and of the chosen interval, after any order
\* of answers and changes: the header and every page with graphs are drawn for
\* the current graph_interval; where the page has something to act on (a topic
\* or channel with producers, hosts of xmqlookupd) an administrator, and nobody
\* else, has the buttons, and where it has not nobody has them; and the warning
\* of an answer that became a model stays, unless a failed command took its
\* place.
PageComplete ==
    /\ header = interval
    /\ Live.el.what # "error" /\ Live.kind # "lookup" => Live.el.interval = interval
    /\ Live.el.what = "page" =>
          /\ Live.kind \in {"topic", "channel"} =>
                Live.el.buttons = (IsAdmin /\ Live.listed)
          /\ Live.kind = "lookup" => Live.el.buttons = (IsAdmin /\ LookupHosts)
          /\ HasModel(Live.kind) /\ Live.message => Live.el.warning \/ Live.el.alert

\* A spinner turns only while the data is on its way.  The exception is a view
\* whose request failed and that a change of graph_interval drew again with
\* the template it still has: its spinner never ends.
SpinnerMeansLoading ==
    Live.el.what = "spinner" =>
        Live.fetch = "pending" \/ (Live.fetch = "failed" /\ Live.redrawn)

\* The interval in use is the one the next load without a query will use,
\* unless it is the default, which AppState.initialize does not store.
IntervalRemembered == stored = interval \/ interval = Default

\* A command that needs a confirmation is sent for exactly what the user was
\* asked about, even when the page has changed under the open dialog.
CallsConfirmed ==
    \A c \in calls : c.command.from # "lookup" => c.command \in agreed

\* What leaves a rate cell empty for good is one of two things only.  A change
\* of graph_interval drew the page again: that drawing triggers no 'view:ready',
\* and its cells stay empty until an answer to another view happens to trigger
\* it.  Or graphite answered with an empty list of series, formatRate threw, and
\* no other question about the cell is on its way.  In every other case, a view
\* answered late or first included, the cell is filled in.
RatesFill ==
    (Live.el.rate = "empty" /\ ~Live.redrawn)
        ~> \/ Live.el.rate # "empty" \/ Live.redrawn
           \/ Live.el.threw /\ Live.el.asks = 0
=============================================================================
