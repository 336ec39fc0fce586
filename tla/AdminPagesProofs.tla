-------------------------- MODULE AdminPagesProofs --------------------------
(***************************************************************************)
(* Proofs about the pages of xmqadmin: their safety properties, for any    *)
(* names, intervals, settings and bounds.                                  *)
(***************************************************************************)
EXTENDS AdminPages, TLAPS

\* What no answer, drawing or click changes of a view.
Same(v, w) == /\ w.kind = v.kind /\ w.a = v.a /\ w.b = v.b
              /\ w.removed = v.removed /\ w.isAdmin = v.isAdmin

\* A view is about what its path names.
NamesInv(v) ==
    /\ v.kind \in {"topic", "channel"} => v.a \in TopicNames
    /\ v.kind = "channel" => v.b \in ChannelNames
    /\ v.kind = "node" => v.a \in NodeNames
    /\ v.isAdmin = (IsAdmin /\ v.kind \in {"topic", "channel"})

\* What is drawn of a view on the page agrees with its data.
DrawnInv(v) ==
    /\ v.template = "page" <=> v.fetch = "done"
    /\ v.el.what \in {v.template, "error"}
    /\ v.el.what = "error" => v.fetch = "failed"
    /\ v.el.what = "spinner" =>
          v.fetch = "pending" \/ (v.fetch = "failed" /\ v.redrawn)
    /\ v.el.what = "page" =>
          /\ HasButtons(v.kind) => v.el.buttons = (IsAdmin /\ Actionable(v))
          /\ HasModel(v.kind) /\ v.message => v.el.warning \/ v.el.alert

\* And is drawn for the interval i.
FreshInv(v, i) == v.el.what # "error" /\ v.kind # "lookup" => v.el.interval = i

ViewsInv ==
    \A k \in DOMAIN views :
        /\ NamesInv(views[k])
        /\ ~views[k].removed => DrawnInv(views[k]) /\ FreshInv(views[k], interval)

\* A command names what the page that sent it is about.
CommandInv(c) == c.from = "channel" => c.a \in TopicNames

\* An open dialog asks about the command its callback will send.
DialogInv ==
    dialog # None =>
        /\ dialog.view \in DOMAIN views
        /\ dialog.text = CommandOf(views[dialog.view], dialog.op, dialog.a, dialog.b)
        /\ dialog.text \in Commands /\ CommandInv(dialog.text)

CallsInv == \A c \in calls : CommandInv(c.command)

PagesInv == /\ TypeOK /\ ViewsInv /\ DialogInv /\ CallsInv /\ CallsConfirmed
            /\ PageIsLocation /\ IntervalRemembered /\ header = interval

-----------------------------------------------------------------------------
(* Drawing *)

\* The element that render makes.
Drawn(v, i, message, isAdmin) ==
    LET page == v.template = "page"
    IN  [what     |-> v.template,
         warning  |-> page /\ (message \/ (HasModel(v.kind) /\ v.message)),
         buttons  |-> page /\ HasButtons(v.kind) /\ (isAdmin \/ v.isAdmin)
                          /\ Actionable(v),
         items    |-> page /\ v.listed /\ Actionable(v),
         alert    |-> page /\ (message \/ (HasModel(v.kind) /\ v.message)),
         interval |-> i,
         rate     |-> IF page /\ HasRates(v.kind) /\ v.listed /\ GraphEnabled
                         /\ i # Off
                      THEN "empty" ELSE "none",
         asks     |-> 0,
         threw    |-> FALSE]

LEMMA DrawnType ==
    ASSUME NEW v, v.template \in {"spinner", "page"}, NEW i \in AllIntervals,
           NEW message \in BOOLEAN, NEW isAdmin \in BOOLEAN
    PROVE  Drawn(v, i, message, isAdmin) \in Elements
BY DEF Drawn, Elements

LEMMA RenderIs ==
    ASSUME NEW v, NEW i, NEW message, NEW isAdmin
    PROVE  Render(v, i, message, isAdmin) =
              [v EXCEPT !.el = IF v.removed THEN @ ELSE Drawn(v, i, message, isAdmin)]
BY DEF Render, Drawn

\* The view before its first drawing.
Fresh(loc) ==
    LET kind == KindOf(loc)
    IN  [kind |-> kind, a |-> loc.a, b |-> loc.b,
         template |-> IF Fetches(kind) THEN "spinner" ELSE "page",
         fetch |-> IF Fetches(kind) THEN "pending" ELSE "done",
         message |-> FALSE, listed |-> FALSE,
         isAdmin |-> IsAdmin /\ kind \in {"topic", "channel"},
         removed |-> FALSE, redrawn |-> FALSE, el |-> None]

LEMMA KindOfType ==
    ASSUME NEW loc \in Locations
    PROVE  /\ KindOf(loc) \in Kinds
           /\ loc.a \in TopicNames \cup NodeNames \cup {None}
           /\ loc.b \in ChannelNames \cup {None}
           /\ KindOf(loc) \in {"topic", "channel"} => loc.a \in TopicNames
           /\ KindOf(loc) = "channel" => loc.b \in ChannelNames
           /\ KindOf(loc) = "node" => loc.a \in NodeNames
<1>1. CASE loc \in [route : {"topics", "lookup", "counter"}, a : {None}, b : {None}]
  BY <1>1 DEF KindOf, Kinds
<1>2. CASE loc \in [route : {"topic"}, a : TopicNames, b : ChannelNames \cup {None}]
  BY <1>2 DEF KindOf, Kinds
<1>3. CASE loc \in [route : {"nodes"}, a : NodeNames \cup {None}, b : {None}]
  BY <1>3 DEF KindOf, Kinds
<1> QED
  BY <1>1, <1>2, <1>3 DEF Locations

\* A new view is of its path, on the page, and drawn for the interval.
LEMMA NewViewFacts ==
    ASSUME NEW loc \in Locations, NEW i \in AllIntervals
    PROVE  /\ NewView(loc, i) \in Views
           /\ NewView(loc, i).kind = KindOf(loc)
           /\ NewView(loc, i).a = loc.a /\ NewView(loc, i).b = loc.b
           /\ NewView(loc, i).removed = FALSE
           /\ NamesInv(NewView(loc, i))
           /\ DrawnInv(NewView(loc, i)) /\ FreshInv(NewView(loc, i), i)
<1> DEFINE k == KindOf(loc)
           t == IF Fetches(k) THEN "spinner" ELSE "page"
           f == IF Fetches(k) THEN "pending" ELSE "done"
           e == Drawn(Fresh(loc), i, FALSE, FALSE)
           v == [kind |-> k, a |-> loc.a, b |-> loc.b, template |-> t, fetch |-> f,
                 message |-> FALSE, listed |-> FALSE,
                 isAdmin |-> IsAdmin /\ k \in {"topic", "channel"},
                 removed |-> FALSE, redrawn |-> FALSE, el |-> e]
<1>1. NewView(loc, i) = v
  <2>1. NewView(loc, i) = Render(Fresh(loc), i, FALSE, FALSE)
    BY DEF NewView, Fresh
  <2>2. Fresh(loc).removed = FALSE
    BY DEF Fresh
  <2>3. NewView(loc, i) = [Fresh(loc) EXCEPT !.el = e]
    <3> HIDE DEF e
    <3>1. NewView(loc, i) = [Fresh(loc) EXCEPT !.el = IF Fresh(loc).removed THEN @ ELSE
                                Drawn(Fresh(loc), i, FALSE, FALSE)]
      BY <2>1, RenderIs
    <3> QED
      BY <2>2, <3>1 DEF e
  <2> HIDE DEF e
  <2> QED
    BY <2>3 DEF Fresh
<1>2. /\ k \in Kinds
      /\ loc.a \in TopicNames \cup NodeNames \cup {None}
      /\ loc.b \in ChannelNames \cup {None}
      /\ k \in {"topic", "channel"} => loc.a \in TopicNames
      /\ k = "channel" => loc.b \in ChannelNames
      /\ k = "node" => loc.a \in NodeNames
  BY KindOfType
<1>3. e \in Elements
  <2>1. Fresh(loc).template \in {"spinner", "page"}
    BY DEF Fresh
  <2> QED
    BY <2>1 DEF Drawn, Elements
<1>4. e.what = t /\ e.interval = i /\ (t = "page" => k = "counter")
  BY DEF Drawn, Fresh, Fetches
<1> HIDE DEF k, e
<1>5. v \in Views
  BY <1>2, <1>3, PagesAssumption DEF Views
<1>6. NamesInv(v)
  BY <1>2 DEF NamesInv
<1>7. DrawnInv(v)
  BY <1>4 DEF DrawnInv, HasButtons, HasModel
<1>8. FreshInv(v, i)
  BY <1>4 DEF FreshInv
<1> QED
  BY <1>1, <1>5, <1>6, <1>7, <1>8 DEF k

-----------------------------------------------------------------------------
(* What the handlers make of one view *)

\* An element is a record; its parts, for the provers.
LEMMA ElementParts ==
    ASSUME NEW e \in Elements
    PROVE  /\ e.what \in {"spinner", "page", "error"} /\ e.warning \in BOOLEAN
           /\ e.buttons \in BOOLEAN /\ e.alert \in BOOLEAN /\ e.interval \in AllIntervals
           /\ e.rate \in {"none", "empty", "number", "N/A", "ERROR"}
           /\ e.asks \in Nat /\ e.items \in BOOLEAN /\ e.threw \in BOOLEAN
BY DEF Elements

LEMMA ViewParts ==
    ASSUME NEW v \in Views
    PROVE  /\ v.kind \in Kinds /\ v.template \in {"spinner", "page"}
           /\ v.fetch \in {"pending", "done", "failed"} /\ v.message \in BOOLEAN
           /\ v.isAdmin \in BOOLEAN /\ v.removed \in BOOLEAN /\ v.redrawn \in BOOLEAN
           /\ v.listed \in BOOLEAN /\ v.el \in Elements
BY DEF Views

\* Whether the buttons have something to act on depends on the kind of the
\* page and on what it lists.
LEMMA ActionableType == ASSUME NEW v \in Views PROVE Actionable(v) \in BOOLEAN
BY ViewParts, PagesAssumption DEF Actionable

LEMMA ActionableSame ==
    \A v, w : w.kind = v.kind /\ w.listed = v.listed => Actionable(w) = Actionable(v)
BY DEF Actionable

\* A view with another element.
LEMMA WithElement ==
    ASSUME NEW v \in Views, NEW e \in Elements
    PROVE  /\ [v EXCEPT !.el = e] \in Views
           /\ [v EXCEPT !.el = e].el = e
           /\ [v EXCEPT !.el = e].template = v.template
           /\ [v EXCEPT !.el = e].fetch = v.fetch
           /\ [v EXCEPT !.el = e].message = v.message
           /\ [v EXCEPT !.el = e].listed = v.listed
           /\ [v EXCEPT !.el = e].redrawn = v.redrawn
           /\ Same(v, [v EXCEPT !.el = e])
BY DEF Views, Same

LEMMA WithRedrawn ==
    ASSUME NEW v \in Views, NEW r \in BOOLEAN
    PROVE  /\ [v EXCEPT !.redrawn = r] \in Views
           /\ [v EXCEPT !.redrawn = r].el = v.el
           /\ [v EXCEPT !.redrawn = r].template = v.template
           /\ [v EXCEPT !.redrawn = r].fetch = v.fetch
           /\ [v EXCEPT !.redrawn = r].message = v.message
           /\ [v EXCEPT !.redrawn = r].listed = v.listed
           /\ [v EXCEPT !.redrawn = r].redrawn = r
           /\ Same(v, [v EXCEPT !.redrawn = r])
BY DEF Views, Same

LEMMA WithRemoved ==
    ASSUME NEW v \in Views
    PROVE  /\ [v EXCEPT !.removed = TRUE] \in Views
           /\ [v EXCEPT !.removed = TRUE].removed = TRUE
           /\ [v EXCEPT !.removed = TRUE].kind = v.kind
           /\ [v EXCEPT !.removed = TRUE].a = v.a
           /\ [v EXCEPT !.removed = TRUE].b = v.b
           /\ [v EXCEPT !.removed = TRUE].isAdmin = v.isAdmin
BY DEF Views

LEMMA FetchedFacts ==
    ASSUME NEW v \in Views, NEW message \in BOOLEAN, NEW listed \in BOOLEAN
    PROVE  LET f == Fetched(v, message, listed)
           IN  /\ f \in Views /\ Same(v, f)
               /\ f.template = "page" /\ f.fetch = "done" /\ f.message = message
BY DEF Views, Same, Fetched

\* Names do not change.
LEMMA SameNames == \A v, w : Same(v, w) /\ NamesInv(v) => NamesInv(w)
BY DEF Same, NamesInv

\* render keeps a view that was removed as it is on the page.
LEMMA RenderFacts ==
    ASSUME NEW v \in Views, NEW i \in AllIntervals, NEW message \in BOOLEAN,
           NEW isAdmin \in BOOLEAN
    PROVE  LET w == Render(v, i, message, isAdmin)
           IN  /\ w \in Views /\ Same(v, w)
               /\ w.template = v.template /\ w.fetch = v.fetch
               /\ w.message = v.message /\ w.redrawn = v.redrawn
               /\ w.listed = v.listed
               /\ ~v.removed => w.el = Drawn(v, i, message, isAdmin)
<1> DEFINE e == IF v.removed THEN v.el ELSE Drawn(v, i, message, isAdmin)
<1>1. Render(v, i, message, isAdmin) = [v EXCEPT !.el = e]
  BY RenderIs
<1>2. e \in Elements
  BY DrawnType, ViewParts
<1>3. ~v.removed => e = Drawn(v, i, message, isAdmin)
  OBVIOUS
<1> HIDE DEF e
<1> QED
  BY <1>1, <1>2, <1>3, WithElement

\* A drawing shows the template, for the interval; a page has its buttons and
\* the warning of its model.
LEMMA DrawnFacts ==
    ASSUME NEW v, NEW i, NEW message \in BOOLEAN, NEW isAdmin \in BOOLEAN
    PROVE  LET e == Drawn(v, i, message, isAdmin)
           IN  /\ e.what = v.template /\ e.interval = i
               /\ v.template = "page" =>
                     /\ HasButtons(v.kind) =>
                           e.buttons = ((isAdmin \/ v.isAdmin) /\ Actionable(v))
                     /\ HasModel(v.kind) /\ v.message => e.warning
BY DEF Drawn

-----------------------------------------------------------------------------
\* What a handler must keep of a view on the page drawn for i.
Good(v, i) == /\ v \in Views /\ NamesInv(v)
              /\ ~v.removed => DrawnInv(v) /\ FreshInv(v, i)

\* A change of the element that leaves what it shows alone.
LEMMA GoodElement ==
    ASSUME NEW v, NEW i, Good(v, i), NEW e \in Elements,
           e.what = v.el.what, e.buttons = v.el.buttons, e.interval = v.el.interval,
           (v.el.warning \/ v.el.alert) => (e.warning \/ e.alert)
    PROVE  Good([v EXCEPT !.el = e], i) /\ Same(v, [v EXCEPT !.el = e])
<1> DEFINE w == [v EXCEPT !.el = e]
<1>0. v \in Views
  BY DEF Good
<1>1. /\ w \in Views /\ w.el = e /\ w.template = v.template /\ w.fetch = v.fetch
      /\ w.message = v.message /\ w.redrawn = v.redrawn /\ Same(v, w)
      /\ w.listed = v.listed
  BY <1>0, WithElement
<1> HIDE DEF w
<1>2. NamesInv(w)
  BY <1>1, SameNames DEF Good
<1>3. ASSUME ~w.removed PROVE DrawnInv(w) /\ FreshInv(w, i)
  <2>1. DrawnInv(v) /\ FreshInv(v, i)
    BY <1>1, <1>3 DEF Good, Same
  <2>2. w.kind = v.kind /\ Actionable(w) = Actionable(v)
    BY <1>1, ActionableSame DEF Same
  <2> QED
    BY <1>1, <2>1, <2>2 DEF DrawnInv, FreshInv
<1> QED
  BY <1>1, <1>2, <1>3 DEF Good, w

\* An element with other fields.
LEMMA AsksElement ==
    ASSUME NEW e \in Elements, NEW n \in Nat
    PROVE  LET x == [e EXCEPT !.asks = n]
           IN  x \in Elements /\ x.what = e.what /\ x.buttons = e.buttons
               /\ x.interval = e.interval /\ x.warning = e.warning /\ x.alert = e.alert
BY DEF Elements

LEMMA AskedGood ==
    ASSUME NEW v, NEW i, Good(v, i) PROVE Good(Asked(v), i) /\ Same(v, Asked(v))
<1>1. v \in Views /\ v.el \in Elements /\ v.el.asks \in Nat
  BY ViewParts, ElementParts DEF Good
<1> DEFINE n == IF v.el.rate = "none" THEN 0 ELSE v.el.asks + 1
           e == [v.el EXCEPT !.asks = n]
<1>2. n \in Nat
  BY <1>1
<1>3. Asked(v) = [v EXCEPT !.el = e]
  BY DEF Asked
<1> HIDE DEF n
<1>4. /\ e \in Elements /\ e.what = v.el.what /\ e.buttons = v.el.buttons
      /\ e.interval = v.el.interval /\ e.warning = v.el.warning /\ e.alert = v.el.alert
  BY <1>1, <1>2, AsksElement
<1> HIDE DEF e
<1> QED
  BY <1>3, <1>4, GoodElement

LEMMA RatedGood ==
    ASSUME NEW v, NEW i, Good(v, i), NEW data \in RateData, v.el.asks > 0
    PROVE  Good(Rated(v, data), i) /\ Same(v, Rated(v, data))
<1>1. v \in Views /\ v.el \in Elements
  BY ViewParts DEF Good
<1> DEFINE e == [v.el EXCEPT !.asks = v.el.asks - 1, !.rate = FormatRate(data, v.el.rate),
                             !.threw = @ \/ data = "noSeries"]
<1>2. FormatRate(data, v.el.rate) \in {"none", "empty", "number", "N/A", "ERROR"}
  BY <1>1, ElementParts DEF FormatRate, RateData
<1>3. v.el.asks - 1 \in Nat
  BY <1>1, ElementParts
<1>4. /\ e \in Elements /\ e.what = v.el.what /\ e.buttons = v.el.buttons
      /\ e.interval = v.el.interval /\ e.warning = v.el.warning /\ e.alert = v.el.alert
  BY <1>1, <1>2, <1>3 DEF Elements
<1>5. Rated(v, data) = [v EXCEPT !.el = e]
  BY DEF Rated
<1> HIDE DEF e
<1> QED
  BY <1>4, <1>5, GoodElement

LEMMA AlertedGood ==
    ASSUME NEW v, NEW i, Good(v, i)
    PROVE  Good(Alerted(v), i) /\ Same(v, Alerted(v))
<1>1. v \in Views /\ v.el \in Elements
  BY ViewParts DEF Good
<1> DEFINE e == [v.el EXCEPT !.alert = TRUE, !.warning = FALSE]
<1>2. /\ e \in Elements /\ e.what = v.el.what /\ e.buttons = v.el.buttons
      /\ e.interval = v.el.interval /\ e.alert
  BY <1>1 DEF Elements
<1>3. Alerted(v) = [v EXCEPT !.el = e]
  BY DEF Alerted
<1> HIDE DEF e
<1> QED
  BY <1>2, <1>3, GoodElement

\* The fail handler of a fetch.
LEMMA FailedGood ==
    ASSUME NEW v, NEW i, Good(v, i), v.fetch = "pending"
    PROVE  Good(Failed(v), i) /\ Same(v, Failed(v))
<1>1. v \in Views /\ v.el \in Elements
  BY ViewParts DEF Good
<1> DEFINE e == ViewError(v.el)
           w == Failed(v)
<1>2. e \in Elements /\ e.what = "error"
  BY <1>1 DEF ViewError, Elements
<1>3. w = [v EXCEPT !.fetch = "failed", !.el = e]
  BY DEF Failed
<1> HIDE DEF e
<1>4. /\ w \in Views /\ Same(v, w) /\ w.fetch = "failed" /\ w.el = e
      /\ w.template = v.template
  BY <1>1, <1>2, <1>3 DEF Views, Same
<1> HIDE DEF w
<1>5. NamesInv(w)
  BY <1>4, SameNames DEF Good
<1>6. ASSUME ~w.removed PROVE DrawnInv(w) /\ FreshInv(w, i)
  <2>1. DrawnInv(v)
    BY <1>4, <1>6 DEF Good, Same
  <2>2. v.template # "page" /\ v.template \in {"spinner", "page"}
    BY <2>1, <1>1, ViewParts DEF DrawnInv
  <2> QED
    BY <1>2, <1>4, <2>2 DEF DrawnInv, FreshInv
<1> QED
  BY <1>4, <1>5, <1>6 DEF Good, w

\* The done handler of a fetch.
LEMMA FetchedGood ==
    ASSUME NEW v, NEW i \in AllIntervals, Good(v, i), NEW message \in BOOLEAN,
           NEW listed \in BOOLEAN
    PROVE  LET w == Render(Fetched(v, message, listed), i, message, IsAdmin)
           IN  Good(w, i) /\ Same(v, w)
<1> DEFINE f == Fetched(v, message, listed)
           w == Render(f, i, message, IsAdmin)
           e == Drawn(f, i, message, IsAdmin)
<1>0. v \in Views /\ IsAdmin \in BOOLEAN
  BY PagesAssumption DEF Good
<1>1. /\ f \in Views /\ f.template = "page" /\ f.fetch = "done" /\ f.message = message
      /\ Same(v, f)
  BY <1>0, FetchedFacts
<1> HIDE DEF f
<1>2. /\ w \in Views /\ Same(f, w) /\ w.template = "page" /\ w.fetch = "done"
      /\ w.message = message /\ w.listed = f.listed
      /\ ~f.removed => w.el = e
  BY <1>0, <1>1, RenderFacts
<1>3. /\ e.what = "page" /\ e.interval = i
      /\ HasButtons(f.kind) => e.buttons = ((IsAdmin \/ f.isAdmin) /\ Actionable(f))
      /\ HasModel(f.kind) /\ f.message => e.warning
  BY <1>0, <1>1, DrawnFacts
<1> HIDE DEF w, e
<1>4. Same(v, w)
  BY <1>1, <1>2 DEF Same
<1>5. NamesInv(w)
  BY <1>4, SameNames DEF Good
<1>6. ASSUME ~w.removed PROVE DrawnInv(w) /\ FreshInv(w, i)
  <2>1. w.el = e /\ w.kind = f.kind /\ Actionable(w) = Actionable(f)
    BY <1>2, <1>6, ActionableSame DEF Same
  <2>2. (IsAdmin \/ f.isAdmin) = IsAdmin
    BY <1>0, <1>1 DEF Good, NamesInv, Same
  <2> QED
    BY <1>1, <1>2, <1>3, <2>1, <2>2 DEF DrawnInv, FreshInv
<1> QED
  BY <1>2, <1>4, <1>5, <1>6 DEF Good, w, f

\* The listener for the interval.
LEMMA RedrawnGood ==
    ASSUME NEW v, NEW i, NEW j \in AllIntervals, Good(v, i)
    PROVE  Good(Redrawn(v, j), j) /\ Same(v, Redrawn(v, j))
<1>0. v \in Views /\ NamesInv(v)
  BY DEF Good
<1>1. CASE v.removed \/ ~Listens(v.kind)
  <2>1. Redrawn(v, j) = v
    BY <1>1 DEF Redrawn
  <2>2. ~v.removed => DrawnInv(v) /\ FreshInv(v, j)
    BY <1>1 DEF Good, FreshInv, Listens
  <2>3. Same(v, v)
    BY DEF Same
  <2> QED
    BY <1>0, <2>1, <2>2, <2>3 DEF Good
<1>2. CASE ~(v.removed \/ ~Listens(v.kind))
  <2> DEFINE r == Render(v, j, FALSE, FALSE)
             b == (v.fetch # "pending")
             w == [r EXCEPT !.redrawn = b]
             e == Drawn(v, j, FALSE, FALSE)
  <2>1. Redrawn(v, j) = w
    BY <1>2 DEF Redrawn
  <2>2. /\ r \in Views /\ Same(v, r) /\ r.template = v.template /\ r.fetch = v.fetch
        /\ r.message = v.message /\ r.listed = v.listed
        /\ ~v.removed => r.el = e
    BY <1>0, RenderFacts
  <2>3. b \in BOOLEAN
    OBVIOUS
  <2>4. /\ e.what = v.template /\ e.interval = j
        /\ v.template = "page" =>
              /\ HasButtons(v.kind) => (e.buttons <=> v.isAdmin /\ Actionable(v))
              /\ HasModel(v.kind) /\ v.message => e.warning
    BY DEF Drawn
  <2> HIDE DEF r, e
  <2>5. /\ w \in Views /\ w.el = r.el /\ w.template = r.template /\ w.fetch = r.fetch
        /\ w.message = r.message /\ w.redrawn = b /\ Same(r, w)
        /\ w.listed = r.listed
    <3> HIDE DEF b
    <3> QED
      BY <2>2, <2>3, WithRedrawn
  <2> HIDE DEF w
  <2>6. Same(v, w)
    BY <2>2, <2>5 DEF Same
  <2>7. NamesInv(w)
    BY <1>0, <2>6, SameNames
  <2>8. /\ DrawnInv(v) /\ w.el = e /\ w.kind = v.kind
        /\ Actionable(w) = Actionable(v)
    BY <1>2, <2>2, <2>5, <2>6, ActionableSame DEF Good, Same
  <2>9. v.template \in {"spinner", "page"} /\ v.fetch \in {"pending", "done", "failed"}
    BY <1>0, ViewParts
  <2>10. HasButtons(v.kind) /\ v.kind # "lookup" => v.isAdmin = IsAdmin
    <3>1. IsAdmin \in BOOLEAN
      BY PagesAssumption
    <3> QED
      BY <1>0, <3>1 DEF HasButtons, NamesInv
  <2>11. v.kind # "lookup"
    BY <1>2 DEF Listens
  <2>12. DrawnInv(w)
    <3>1. w.template = "page" <=> w.fetch = "done"
      BY <2>2, <2>5, <2>8 DEF DrawnInv
    <3>2. w.el.what = w.template
      BY <2>2, <2>4, <2>5, <2>8
    <3>3. w.el.what = "spinner" => w.fetch = "pending" \/ (w.fetch = "failed" /\ w.redrawn)
      BY <2>2, <2>5, <2>9, <3>1, <3>2
    <3>4. w.el.what = "page" =>
             /\ HasButtons(w.kind) => w.el.buttons = (IsAdmin /\ Actionable(w))
             /\ HasModel(w.kind) /\ w.message => w.el.warning \/ w.el.alert
      <4> SUFFICES ASSUME w.el.what = "page"
                   PROVE  /\ HasButtons(w.kind) =>
                                w.el.buttons = (IsAdmin /\ Actionable(w))
                          /\ HasModel(w.kind) /\ w.message => w.el.warning \/ w.el.alert
        OBVIOUS
      <4>1. v.template = "page"
        BY <2>2, <2>5, <3>2
      <4>2. ASSUME HasButtons(v.kind) PROVE e.buttons = (IsAdmin /\ Actionable(v))
        <5>1. e.buttons <=> IsAdmin /\ Actionable(v)
          BY <2>4, <2>10, <2>11, <4>1, <4>2
        <5>2. e.buttons \in BOOLEAN
          BY DEF e, Drawn
        <5> QED
          BY <5>1, <5>2
      <4>3. HasModel(v.kind) /\ v.message => e.warning
        BY <2>4, <4>1
      <4> QED
        BY <2>2, <2>5, <2>8, <4>2, <4>3
    <3>5. w.el.what # "error"
      BY <2>2, <2>5, <2>9, <3>2
    <3> QED
      BY <3>1, <3>2, <3>3, <3>4, <3>5 DEF DrawnInv
  <2>13. FreshInv(w, j)
    BY <2>4, <2>8 DEF FreshInv
  <2> QED
    BY <2>1, <2>5, <2>6, <2>7, <2>12, <2>13 DEF Good
<1> QED
  BY <1>1, <1>2

-----------------------------------------------------------------------------
(* The list of views *)

\* The types of everything but the views and the dialog.
RestOK ==
    /\ location \in Locations /\ query \in AllIntervals \cup {None}
    /\ interval \in AllIntervals /\ stored \in AllIntervals \cup {None}
    /\ header \in AllIntervals
    /\ \A c \in calls : c.command \in Commands
    /\ agreed \subseteq Commands
    /\ changes \in Nat /\ loads \in Nat /\ sent \in Nat

\* The views, by their parts.
AllGood ==
    /\ views \in Seq(Views) /\ Len(views) > 0
    /\ \A k \in DOMAIN views : Good(views[k], interval)

LEMMA PartsOfInv ==
    PagesInv <=> /\ RestOK /\ AllGood /\ DialogInv /\ CallsInv /\ CallsConfirmed
                 /\ PageIsLocation /\ IntervalRemembered /\ header = interval
<1>1. TypeOK => RestOK /\ views \in Seq(Views) /\ Len(views) > 0
  BY DEF TypeOK, RestOK
<1>2. RestOK /\ views \in Seq(Views) /\ Len(views) > 0 /\ DialogInv => TypeOK
  BY DEF TypeOK, RestOK, DialogInv
<1>3. views \in Seq(Views) => \A k \in DOMAIN views : views[k] \in Views
  OBVIOUS
<1>4. views \in Seq(Views) => (ViewsInv <=> \A k \in DOMAIN views : Good(views[k], interval))
  BY <1>3 DEF ViewsInv, Good
<1> QED
  BY <1>1, <1>2, <1>4 DEF PagesInv, AllGood

\* The same parts, after a step.
LEMMA ComposeNext ==
    ASSUME RestOK', AllGood', DialogInv', CallsInv', CallsConfirmed', PageIsLocation',
           IntervalRemembered', header' = interval'
    PROVE  PagesInv'
<1>1. TypeOK'
  BY DEF TypeOK, RestOK, DialogInv, AllGood
<1>2. ViewsInv'
  BY DEF ViewsInv, AllGood, Good
<1> QED
  BY <1>1, <1>2 DEF PagesInv

\* The command of a view does not change with what is drawn of it.
LEMMA SameCommand ==
    ASSUME NEW v, NEW w, Same(v, w), NEW op, NEW a, NEW b
    PROVE  CommandOf(w, op, a, b) = CommandOf(v, op, a, b)
BY DEF Same, CommandOf

\* A step that changes what is drawn of the views, and not which views there
\* are.
LEMMA KeptViews ==
    ASSUME AllGood, DialogInv, PageIsLocation,
           views' \in Seq(Views), DOMAIN views' = DOMAIN views, Len(views') = Len(views),
           \A k \in DOMAIN views : Good(views'[k], interval') /\ Same(views[k], views'[k]),
           location' = location, dialog' = dialog
    PROVE  AllGood' /\ DialogInv' /\ PageIsLocation'
<1>1. AllGood'
  BY DEF AllGood
<1>2. DialogInv'
  <2> SUFFICES ASSUME dialog # None
               PROVE  /\ dialog.view \in DOMAIN views'
                      /\ dialog.text = CommandOf(views'[dialog.view], dialog.op, dialog.a,
                                                 dialog.b)
                      /\ dialog.text \in Commands /\ CommandInv(dialog.text)
    BY DEF DialogInv
  <2>1. Same(views[dialog.view], views'[dialog.view])
    BY DEF DialogInv
  <2> QED
    BY <2>1, SameCommand DEF DialogInv
<1>3. PageIsLocation'
  <2>1. Len(views) \in DOMAIN views
    BY DEF AllGood
  <2>2. Same(Live, views'[Len(views)]) /\ Live' = views'[Len(views)]
    BY <2>1 DEF Live
  <2>3. \A k \in DOMAIN views : views'[k].removed = views[k].removed
    BY DEF Same
  <2> QED
    BY <2>2, <2>3 DEF PageIsLocation, Same
<1> QED
  BY <1>1, <1>2, <1>3

\* A sequence with one element changed.
LEMMA SeqExcept ==
    ASSUME NEW us \in Seq(Views), NEW k \in DOMAIN us, NEW x \in Views
    PROVE  /\ [us EXCEPT ![k] = x] \in Seq(Views)
           /\ DOMAIN [us EXCEPT ![k] = x] = DOMAIN us
           /\ Len([us EXCEPT ![k] = x]) = Len(us)
OBVIOUS

\* One view changes.
LEMMA OneView ==
    ASSUME AllGood, NEW k \in DOMAIN views, NEW w, Good(w, interval), Same(views[k], w),
           NEW vs, vs = [views EXCEPT ![k] = w]
    PROVE  /\ vs \in Seq(Views) /\ DOMAIN vs = DOMAIN views /\ Len(vs) = Len(views)
           /\ \A j \in DOMAIN views : Good(vs[j], interval) /\ Same(views[j], vs[j])
<1>1. views \in Seq(Views) /\ w \in Views
  BY DEF AllGood, Good
<1>2. vs \in Seq(Views) /\ DOMAIN vs = DOMAIN views /\ Len(vs) = Len(views)
  BY <1>1
<1>3. \A j \in DOMAIN views : vs[j] = (IF j = k THEN w ELSE views[j])
  BY <1>1
<1>4. \A j \in DOMAIN views : Same(views[j], views[j])
  BY DEF Same
<1> QED
  BY <1>2, <1>3, <1>4 DEF AllGood

\* One view changes, and the page is asked for its rates.
LEMMA OneViewReady ==
    ASSUME AllGood, NEW k \in DOMAIN views, NEW w, Good(w, interval), Same(views[k], w),
           NEW vs, vs = ViewReady([views EXCEPT ![k] = w])
    PROVE  /\ vs \in Seq(Views) /\ DOMAIN vs = DOMAIN views /\ Len(vs) = Len(views)
           /\ \A j \in DOMAIN views : Good(vs[j], interval) /\ Same(views[j], vs[j])
<1> DEFINE us == [views EXCEPT ![k] = w]
<1>1. /\ us \in Seq(Views) /\ DOMAIN us = DOMAIN views /\ Len(us) = Len(views)
      /\ \A j \in DOMAIN views : Good(us[j], interval) /\ Same(views[j], us[j])
  BY OneView
<1>2. vs = [us EXCEPT ![Len(us)] = Asked(us[Len(us)])]
  BY DEF ViewReady
<1> HIDE DEF us
<1>3. Len(us) \in DOMAIN views /\ Len(us) \in DOMAIN us
  BY <1>1 DEF AllGood
<1>4. Good(Asked(us[Len(us)]), interval) /\ Same(us[Len(us)], Asked(us[Len(us)]))
  BY <1>1, <1>3, AskedGood
<1> DEFINE x == Asked(us[Len(us)])
<1>5. x \in Views
  BY <1>4 DEF Good
<1> HIDE DEF x
<1>6. vs = [us EXCEPT ![Len(us)] = x]
  BY <1>2 DEF x
<1>7. vs \in Seq(Views) /\ DOMAIN vs = DOMAIN views /\ Len(vs) = Len(views)
  <2>1. us \in Seq(Views) /\ Len(us) \in DOMAIN us
    BY <1>1, <1>3
  <2>2. /\ [us EXCEPT ![Len(us)] = x] \in Seq(Views)
        /\ DOMAIN [us EXCEPT ![Len(us)] = x] = DOMAIN us
        /\ Len([us EXCEPT ![Len(us)] = x]) = Len(us)
    BY <2>1, <1>5, SeqExcept
  <2> QED
    BY <2>2, <1>1, <1>6
<1>8. \A j \in DOMAIN views : vs[j] = (IF j = Len(us) THEN x ELSE us[j])
  BY <1>1, <1>6
<1>9. Good(x, interval) /\ Same(us[Len(us)], x)
  BY <1>4 DEF x
<1>10. \A j \in DOMAIN views : Good(vs[j], interval)
  BY <1>1, <1>8, <1>9
<1>11. \A j \in DOMAIN views : Same(views[j], vs[j])
  <2> SUFFICES ASSUME NEW j \in DOMAIN views PROVE Same(views[j], vs[j])
    OBVIOUS
  <2>1. Same(views[j], us[j])
    BY <1>1
  <2>2. CASE j = Len(us)
    <3>1. vs[j] = x /\ Same(us[j], x)
      BY <1>8, <1>9, <2>2
    <3> QED
      BY <2>1, <3>1 DEF Same
  <2>3. CASE j # Len(us)
    BY <1>8, <2>1, <2>3
  <2> QED
    BY <2>2, <2>3
<1> QED
  BY <1>7, <1>10, <1>11

-----------------------------------------------------------------------------
(* One lemma per action *)

LEMMA ChosenType ==
    ASSUME NEW t \in AllIntervals \cup {None}, NEW kept \in AllIntervals \cup {None}
    PROVE  /\ Chosen(t, kept) \in AllIntervals
           /\ \A i \in AllIntervals : Kept(i, kept) \in AllIntervals \cup {None}
           /\ \A i \in AllIntervals : Kept(i, kept) = i \/ i = Default
BY PagesAssumption DEF Chosen, Kept, AllIntervals

\* The list of views of a page that was just loaded.
FirstOK(vs, loc, i) ==
    /\ vs \in Seq(Views) /\ Len(vs) = 1 /\ DOMAIN vs = {1}
    /\ \A k \in DOMAIN vs : Good(vs[k], i) /\ vs[k].removed = FALSE
    /\ vs[1].kind = KindOf(loc) /\ vs[1].a = loc.a /\ vs[1].b = loc.b

LEMMA FirstView ==
    ASSUME NEW loc \in Locations, NEW i \in AllIntervals
    PROVE  FirstOK(<<NewView(loc, i)>>, loc, i)
<1> DEFINE v == NewView(loc, i)
           vs == <<v>>
<1>1. /\ v \in Views /\ v.kind = KindOf(loc) /\ v.a = loc.a /\ v.b = loc.b
      /\ v.removed = FALSE /\ Good(v, i)
  BY NewViewFacts DEF Good
<1> HIDE DEF v
<1>2. vs \in Seq(Views) /\ Len(vs) = 1 /\ DOMAIN vs = {1} /\ vs[1] = v
  BY <1>1
<1> HIDE DEF vs
<1>3. FirstOK(vs, loc, i)
  BY <1>1, <1>2 DEF FirstOK
<1> QED
  BY <1>3 DEF vs, v

LEMMA InitInv == Init => PagesInv
<1> SUFFICES ASSUME Init PROVE PagesInv
  OBVIOUS
<1>1. PICK kept \in {None} \cup AllIntervals :
         interval = Chosen(query, kept) /\ stored = Kept(interval, kept)
  BY DEF Init
<1>2. location \in Locations /\ query \in AllIntervals \cup {None}
  BY DEF Init
<1>3. interval \in AllIntervals /\ stored \in AllIntervals \cup {None} /\ IntervalRemembered
  BY <1>1, <1>2, ChosenType DEF IntervalRemembered
<1>4. /\ views \in Seq(Views) /\ Len(views) = 1 /\ DOMAIN views = {1}
      /\ \A k \in DOMAIN views : Good(views[k], interval) /\ views[k].removed = FALSE
      /\ views[1].kind = KindOf(location) /\ views[1].a = location.a
      /\ views[1].b = location.b
  <2>1. views = <<NewView(location, interval)>>
    BY DEF Init
  <2>2. FirstOK(<<NewView(location, interval)>>, location, interval)
    BY <1>1, <1>2, <1>3, FirstView
  <2> QED
    BY <2>1, <2>2 DEF FirstOK
<1>5. RestOK
  BY <1>2, <1>3 DEF Init, RestOK
<1>6. AllGood
  BY <1>4 DEF AllGood
<1>7. PageIsLocation
  BY <1>4 DEF PageIsLocation, Live
<1>8. DialogInv /\ CallsInv /\ CallsConfirmed /\ header = interval
  BY DEF Init, DialogInv, CallsInv, CallsConfirmed
<1> QED
  BY <1>3, <1>5, <1>6, <1>7, <1>8, PartsOfInv

LEMMA LoadInv ==
    ASSUME PagesInv, NEW loc \in Locations, NEW t \in AllIntervals \cup {None}, Load(loc, t)
    PROVE  PagesInv'
<1>0. RestOK
  BY PartsOfInv
<1>1. interval' \in AllIntervals /\ stored' \in AllIntervals \cup {None}
      /\ IntervalRemembered'
  BY <1>0, ChosenType DEF RestOK, Load, IntervalRemembered
<1>4. /\ views' \in Seq(Views) /\ Len(views') = 1 /\ DOMAIN views' = {1}
      /\ \A k \in DOMAIN views' : Good(views'[k], interval') /\ views'[k].removed = FALSE
      /\ views'[1].kind = KindOf(loc) /\ views'[1].a = loc.a
      /\ views'[1].b = loc.b
  <2>1. views' = <<NewView(loc, interval')>>
    BY DEF Load
  <2>2. FirstOK(<<NewView(loc, interval')>>, loc, interval')
    BY <1>1, FirstView
  <2> QED
    BY <2>1, <2>2 DEF FirstOK
<1>5. RestOK'
  BY <1>0, <1>1 DEF Load, RestOK
<1>6. AllGood'
  BY <1>4 DEF AllGood
<1>7. PageIsLocation'
  BY <1>4 DEF PageIsLocation, Live, Load
<1>8. DialogInv' /\ CallsInv' /\ CallsConfirmed' /\ header' = interval'
  BY DEF Load, DialogInv, CallsInv, CallsConfirmed
<1> QED
  BY <1>1, <1>5, <1>6, <1>7, <1>8, ComposeNext

LEMMA NavigateInv ==
    ASSUME PagesInv, NEW loc \in Locations, Navigate(loc) PROVE PagesInv'
<1>0. /\ RestOK /\ AllGood /\ DialogInv /\ CallsInv /\ CallsConfirmed
      /\ PageIsLocation /\ IntervalRemembered /\ header = interval
  BY PartsOfInv
<1>1. /\ location' = loc /\ query' = None /\ interval' = interval /\ stored' = stored
      /\ header' = header /\ changes' = changes /\ dialog' = dialog /\ calls' = calls
      /\ agreed' = agreed /\ sent' = sent /\ loads' = loads
  BY DEF Navigate, setVars, callVars
<1> DEFINE n == Len(views)
           old == [views[n] EXCEPT !.removed = TRUE]
           us == [views EXCEPT ![n] = old]
           v == NewView(loc, interval)
<1>2. views' = Append(us, v)
  BY DEF Navigate, ShowView
<1>3. /\ v \in Views /\ v.kind = KindOf(loc) /\ v.a = loc.a /\ v.b = loc.b
      /\ v.removed = FALSE /\ Good(v, interval)
  BY <1>0, NewViewFacts DEF Good, RestOK
<1>4. views \in Seq(Views) /\ n \in Nat /\ n > 0 /\ n \in DOMAIN views
      /\ Good(views[n], interval) /\ views[n] \in Views
  BY <1>0 DEF AllGood, Good
<1>5. /\ old \in Views /\ old.removed = TRUE /\ old.kind = views[n].kind
      /\ old.a = views[n].a /\ old.b = views[n].b /\ old.isAdmin = views[n].isAdmin
  BY <1>4, WithRemoved
<1> HIDE DEF v, old
<1>6. us \in Seq(Views) /\ Len(us) = n /\ DOMAIN us = DOMAIN views
  BY <1>4, <1>5
<1>7. \A k \in DOMAIN views : us[k] = (IF k = n THEN old ELSE views[k])
  BY <1>4
<1> HIDE DEF us
<1>8. /\ views' \in Seq(Views) /\ Len(views') = n + 1 /\ views'[n + 1] = v
      /\ DOMAIN views' = 1..(n + 1) /\ DOMAIN views = 1..n
      /\ \A k \in DOMAIN views : views'[k] = us[k]
  BY <1>2, <1>3, <1>4, <1>6
<1> HIDE DEF n
<1>9. \A k \in DOMAIN views : views'[k] = (IF k = n THEN old ELSE views[k])
  BY <1>7, <1>8
<1>10. Good(old, interval)
  BY <1>4, <1>5 DEF Good, NamesInv
<1>11. \A k \in DOMAIN views' : k = n + 1 \/ k \in DOMAIN views
  BY <1>4, <1>8
<1>12. AllGood'
  <2>1. \A k \in DOMAIN views' : Good(views'[k], interval)
    BY <1>0, <1>3, <1>8, <1>9, <1>10, <1>11 DEF AllGood
  <2> QED
    BY <1>1, <1>4, <1>8, <2>1 DEF AllGood
<1>13. PageIsLocation'
  <2>1. Live' = v
    BY <1>8 DEF Live
  <2>2. ASSUME NEW k \in DOMAIN views' PROVE views'[k].removed <=> k # n + 1
    <3>1. CASE k = n + 1
      BY <3>1, <1>3, <1>8
    <3>2. CASE k \in DOMAIN views
      <4>1. k # n + 1
        BY <3>2, <1>4, <1>8
      <4>2. views[k].removed <=> k # n
        BY <3>2, <1>0 DEF PageIsLocation, n
      <4> QED
        BY <3>2, <4>1, <4>2, <1>5, <1>9
    <3> QED
      BY <3>1, <3>2, <1>11
  <2> QED
    BY <1>1, <1>3, <1>8, <2>1, <2>2 DEF PageIsLocation
<1>14. DialogInv'
  <2> SUFFICES ASSUME dialog # None
               PROVE  /\ dialog.view \in DOMAIN views'
                      /\ dialog.text = CommandOf(views'[dialog.view], dialog.op, dialog.a,
                                                 dialog.b)
                      /\ dialog.text \in Commands /\ CommandInv(dialog.text)
    BY <1>1 DEF DialogInv
  <2>1. /\ dialog.view \in DOMAIN views
        /\ dialog.text = CommandOf(views[dialog.view], dialog.op, dialog.a, dialog.b)
        /\ dialog.text \in Commands /\ CommandInv(dialog.text)
    BY <1>0 DEF DialogInv
  <2>2. /\ views'[dialog.view].kind = views[dialog.view].kind
        /\ views'[dialog.view].a = views[dialog.view].a
        /\ views'[dialog.view].b = views[dialog.view].b
    BY <2>1, <1>5, <1>9
  <2>3. dialog.view \in DOMAIN views'
    BY <2>1, <1>4, <1>8
  <2> QED
    BY <2>1, <2>2, <2>3 DEF CommandOf
<1>15. RestOK' /\ CallsInv' /\ CallsConfirmed' /\ IntervalRemembered' /\ header' = interval'
  BY <1>0, <1>1 DEF RestOK, CallsInv, CallsConfirmed, IntervalRemembered
<1> QED
  BY <1>12, <1>13, <1>14, <1>15, ComposeNext

\* A step after which the views are as KeptViews wants them, and nothing else
\* but perhaps the open calls has changed.
LEMMA ViewStep ==
    ASSUME PagesInv, views' \in Seq(Views), DOMAIN views' = DOMAIN views,
           Len(views') = Len(views),
           \A k \in DOMAIN views : Good(views'[k], interval) /\ Same(views[k], views'[k]),
           UNCHANGED <<urlVars, setVars, dialog, agreed, sent, loads>>, calls' \subseteq calls
    PROVE  PagesInv'
<1>0. /\ RestOK /\ AllGood /\ DialogInv /\ CallsInv /\ CallsConfirmed
      /\ PageIsLocation /\ IntervalRemembered /\ header = interval
  BY PartsOfInv
<1>1. /\ location' = location /\ query' = query /\ interval' = interval
      /\ stored' = stored /\ header' = header /\ changes' = changes
      /\ dialog' = dialog /\ agreed' = agreed /\ sent' = sent /\ loads' = loads
  BY DEF urlVars, setVars
<1>2. AllGood' /\ DialogInv' /\ PageIsLocation'
  BY <1>0, <1>1, KeptViews
<1>3. RestOK' /\ CallsInv' /\ CallsConfirmed' /\ IntervalRemembered' /\ header' = interval'
  BY <1>0, <1>1 DEF RestOK, CallsInv, CallsConfirmed, IntervalRemembered
<1> QED
  BY <1>2, <1>3, ComposeNext

LEMMA FetchDoneInv ==
    ASSUME PagesInv, NEW k, NEW message \in BOOLEAN, NEW listed \in BOOLEAN,
           FetchDone(k, message, listed)
    PROVE  PagesInv'
<1>0. AllGood /\ RestOK
  BY PartsOfInv
<1>1. k \in DOMAIN views /\ Good(views[k], interval) /\ interval \in AllIntervals
  BY <1>0 DEF FetchDone, AllGood, RestOK
<1> DEFINE w == Render(Fetched(views[k], message, listed), interval, message, IsAdmin)
<1>2. Good(w, interval) /\ Same(views[k], w)
  BY <1>1, FetchedGood
<1>3. views' = ViewReady([views EXCEPT ![k] = w])
  BY DEF FetchDone
<1>4. UNCHANGED <<urlVars, setVars, dialog, agreed, sent, loads>> /\ calls' \subseteq calls
  BY DEF FetchDone, callVars
<1> HIDE DEF w
<1> QED
  BY <1>0, <1>1, <1>2, <1>3, <1>4, OneViewReady, ViewStep

LEMMA FetchFailInv == ASSUME PagesInv, NEW k, FetchFail(k) PROVE PagesInv'
<1>0. AllGood
  BY PartsOfInv
<1>1. k \in DOMAIN views /\ Good(views[k], interval) /\ views[k].fetch = "pending"
  BY <1>0 DEF FetchFail, AllGood
<1> DEFINE w == Failed(views[k])
<1>2. Good(w, interval) /\ Same(views[k], w)
  BY <1>1, FailedGood
<1>3. views' = ViewReady([views EXCEPT ![k] = w])
  BY DEF FetchFail
<1>4. UNCHANGED <<urlVars, setVars, dialog, agreed, sent, loads>> /\ calls' \subseteq calls
  BY DEF FetchFail, callVars
<1> HIDE DEF w
<1> QED
  BY <1>0, <1>1, <1>2, <1>3, <1>4, OneViewReady, ViewStep

LEMMA RateAnswerInv ==
    ASSUME PagesInv, NEW data \in RateData, RateAnswer(data) PROVE PagesInv'
<1>0. AllGood
  BY PartsOfInv
<1> DEFINE k == Len(views)
           w == Rated(views[k], data)
<1>1. k \in DOMAIN views /\ Good(views[k], interval) /\ views[k].el.asks > 0
  BY <1>0 DEF RateAnswer, AllGood, Live
<1>2. Good(w, interval) /\ Same(views[k], w)
  BY <1>1, RatedGood
<1>3. views' = [views EXCEPT ![k] = w]
  BY DEF RateAnswer
<1>4. UNCHANGED <<urlVars, setVars, dialog, agreed, sent, loads>> /\ calls' \subseteq calls
  BY DEF RateAnswer, callVars
<1> HIDE DEF w, k
<1> QED
  BY <1>0, <1>1, <1>2, <1>3, <1>4, OneView, ViewStep

LEMMA CallFailInv == ASSUME PagesInv, NEW c \in calls, CallFail(c) PROVE PagesInv'
<1>0. AllGood
  BY PartsOfInv
<1>4. UNCHANGED <<urlVars, setVars, dialog, agreed, sent, loads>> /\ calls' \subseteq calls
  BY DEF CallFail
<1>5. CASE Live.el.what # "spinner" /\ ~Deletes(c, "topic")
  <2> DEFINE k == Len(views)
             w == Alerted(views[k])
  <2>1. k \in DOMAIN views /\ Good(views[k], interval)
    BY <1>0 DEF AllGood
  <2>2. Good(w, interval) /\ Same(views[k], w)
    BY <2>1, AlertedGood
  <2>3. views' = [views EXCEPT ![k] = w]
    BY <1>5 DEF CallFail
  <2> HIDE DEF w, k
  <2> QED
    BY <1>0, <1>4, <2>1, <2>2, <2>3, OneView, ViewStep
<1>6. CASE ~(Live.el.what # "spinner" /\ ~Deletes(c, "topic"))
  <2>1. views' = views
    BY <1>6 DEF CallFail
  <2>2. \A k \in DOMAIN views : Good(views[k], interval) /\ Same(views[k], views[k])
    BY <1>0 DEF AllGood, Same
  <2> QED
    BY <1>0, <1>4, <2>1, <2>2, ViewStep DEF AllGood
<1> QED
  BY <1>5, <1>6

LEMMA GraphIntervalInv ==
    ASSUME PagesInv, NEW i \in AllIntervals, GraphInterval(i) PROVE PagesInv'
<1>0. /\ RestOK /\ AllGood /\ DialogInv /\ CallsInv /\ CallsConfirmed
      /\ PageIsLocation
  BY PartsOfInv
<1>1. /\ interval' = i /\ stored' = i /\ header' = i /\ changes' = changes + 1
      /\ location' = location /\ query' = query /\ dialog' = dialog /\ calls' = calls
      /\ agreed' = agreed /\ sent' = sent /\ loads' = loads
      /\ views' = [k \in DOMAIN views |-> Redrawn(views[k], i)]
  BY DEF GraphInterval, urlVars, callVars
<1>2. \A k \in DOMAIN views : views'[k] = Redrawn(views[k], i)
  BY <1>1
<1>3. \A k \in DOMAIN views : Good(views'[k], i) /\ Same(views[k], views'[k])
  BY <1>0, <1>2, RedrawnGood DEF AllGood
<1>4. views' \in Seq(Views) /\ DOMAIN views' = DOMAIN views /\ Len(views') = Len(views)
  <2>1. \A k \in DOMAIN views : views'[k] \in Views
    BY <1>3 DEF Good
  <2>2. views \in Seq(Views) /\ DOMAIN views = 1..Len(views) /\ Len(views) \in Nat
    BY <1>0 DEF AllGood
  <2>3. views' \in [1..Len(views) -> Views]
    BY <1>1, <2>1, <2>2
  <2> QED
    BY <2>2, <2>3
<1>5. AllGood' /\ DialogInv' /\ PageIsLocation'
  BY <1>0, <1>1, <1>3, <1>4, KeptViews
<1>6. RestOK' /\ CallsInv' /\ CallsConfirmed' /\ IntervalRemembered' /\ header' = interval'
  BY <1>0, <1>1 DEF RestOK, CallsInv, CallsConfirmed, IntervalRemembered
<1> QED
  BY <1>5, <1>6, ComposeNext

-----------------------------------------------------------------------------
(* Dialogs and commands *)

\* The command a click on a good view sends is about what the view shows.
LEMMA CommandType ==
    ASSUME NEW v, NEW i, Good(v, i), NEW op \in {"delete", "action", "tombstone"},
           NEW a \in TopicNames, NEW b \in NodeNames
    PROVE  CommandOf(v, op, a, b) \in Commands /\ CommandInv(CommandOf(v, op, a, b))
<1>1. v.kind \in Kinds /\ NamesInv(v)
  BY ViewParts DEF Good
<1> DEFINE x == IF v.kind \in {"topic", "channel"} THEN v.a ELSE a
           y == IF v.kind = "channel" THEN v.b
                ELSE IF v.kind = "node" THEN v.a
                ELSE IF op = "tombstone" THEN b ELSE None
<1>2. CommandOf(v, op, a, b) = [op |-> op, a |-> x, b |-> y, from |-> v.kind]
  BY DEF CommandOf
<1>3. x \in TopicNames /\ y \in ChannelNames \cup NodeNames \cup {None}
  BY <1>1 DEF NamesInv
<1> HIDE DEF x, y
<1> QED
  BY <1>1, <1>2, <1>3 DEF Commands, CommandInv

\* The steps that leave the URL, the settings and the views alone.
LEMMA DialogStep ==
    ASSUME PagesInv, UNCHANGED <<urlVars, setVars, views, loads>>, sent' \in Nat,
           DialogInv', CallsInv', CallsConfirmed', agreed' \subseteq Commands,
           \A c \in calls' : c.command \in Commands
    PROVE  PagesInv'
<1>0. /\ RestOK /\ AllGood /\ PageIsLocation /\ IntervalRemembered /\ header = interval
  BY PartsOfInv
<1>1. /\ location' = location /\ query' = query /\ interval' = interval
      /\ stored' = stored /\ header' = header /\ changes' = changes
      /\ views' = views /\ loads' = loads
  BY DEF urlVars, setVars
<1>2. RestOK' /\ IntervalRemembered' /\ header' = interval'
  BY <1>0, <1>1 DEF RestOK, IntervalRemembered
<1>3. AllGood' /\ PageIsLocation'
  BY <1>0, <1>1 DEF AllGood, PageIsLocation, Live
<1> QED
  BY <1>2, <1>3, ComposeNext

LEMMA AskInv ==
    ASSUME PagesInv, NEW op \in {"delete", "action", "tombstone"}, NEW a \in TopicNames,
           NEW b \in NodeNames, Ask(op, a, b)
    PROVE  PagesInv'
<1>0. RestOK /\ AllGood /\ CallsInv /\ CallsConfirmed
  BY PartsOfInv
<1> DEFINE n == Len(views)
           x == CommandOf(views[n], op, a, b)
           d == [view |-> n, op |-> op, a |-> a, b |-> b, text |-> x]
<1>1. /\ dialog' = d /\ UNCHANGED <<urlVars, setVars, views, loads>>
      /\ calls' = calls /\ agreed' = agreed /\ sent' = sent /\ views' = views
  BY DEF Ask, Live
<1>2. n \in DOMAIN views /\ Good(views[n], interval)
  BY <1>0 DEF AllGood
<1>3. x \in Commands /\ CommandInv(x)
  BY <1>2, CommandType
<1>4. x = CommandOf(views[n], op, a, b)
  OBVIOUS
<1> HIDE DEF n, x
<1>5. d.view = n /\ d.op = op /\ d.a = a /\ d.b = b /\ d.text = x
  OBVIOUS
<1> HIDE DEF d
<1>6. DialogInv'
  BY <1>1, <1>2, <1>3, <1>4, <1>5 DEF DialogInv
<1>7. CallsInv' /\ CallsConfirmed'
  BY <1>0, <1>1 DEF CallsInv, CallsConfirmed
<1>8. sent' \in Nat /\ agreed' \subseteq Commands /\ \A c \in calls' : c.command \in Commands
  BY <1>0, <1>1 DEF RestOK
<1> QED
  BY <1>1, <1>6, <1>7, <1>8, DialogStep

LEMMA ConfirmInv == ASSUME PagesInv, Confirm PROVE PagesInv'
<1>0. RestOK /\ DialogInv /\ CallsInv /\ CallsConfirmed
  BY PartsOfInv
<1> DEFINE t == Target(dialog)
           x == [id |-> sent, command |-> t]
<1>1. t = dialog.text /\ t \in Commands /\ CommandInv(t)
  BY <1>0 DEF Confirm, DialogInv, Target
<1>2. /\ dialog' = None /\ UNCHANGED <<urlVars, setVars, views, loads>>
      /\ calls' = calls \cup {x} /\ agreed' = agreed \cup {t} /\ sent' = sent + 1
  BY <1>1 DEF Confirm
<1> HIDE DEF t
<1>3. x.command = t
  OBVIOUS
<1> HIDE DEF x
<1>4. DialogInv'
  BY <1>2 DEF DialogInv
<1>5. CallsInv' /\ CallsConfirmed'
  BY <1>0, <1>1, <1>2, <1>3 DEF CallsInv, CallsConfirmed
<1>6. sent' \in Nat /\ agreed' \subseteq Commands /\ \A c \in calls' : c.command \in Commands
  BY <1>0, <1>1, <1>2, <1>3 DEF RestOK
<1> QED
  BY <1>2, <1>4, <1>5, <1>6, DialogStep

LEMMA DismissInv == ASSUME PagesInv, Dismiss PROVE PagesInv'
<1>0. RestOK /\ DialogInv /\ CallsInv /\ CallsConfirmed
  BY PartsOfInv
<1>1. /\ dialog' = None /\ UNCHANGED <<urlVars, setVars, views, loads>>
      /\ calls' = calls /\ agreed' = agreed /\ sent' = sent
  BY DEF Dismiss
<1>2. DialogInv' /\ CallsInv' /\ CallsConfirmed'
  BY <1>0, <1>1 DEF DialogInv, CallsInv, CallsConfirmed
<1>3. sent' \in Nat /\ agreed' \subseteq Commands /\ \A c \in calls' : c.command \in Commands
  BY <1>0, <1>1 DEF RestOK
<1> QED
  BY <1>1, <1>2, <1>3, DialogStep

LEMMA LookupCallInv ==
    ASSUME PagesInv, NEW op \in {"delete", "create"}, NEW a \in TopicNames \cup {None},
           NEW b \in ChannelNames \cup {None}, LookupCall(op, a, b)
    PROVE  PagesInv'
<1>0. RestOK /\ DialogInv /\ CallsInv /\ CallsConfirmed
  BY PartsOfInv
<1> DEFINE t == [op |-> op, a |-> a, b |-> b, from |-> "lookup"]
           x == [id |-> sent, command |-> t]
<1>1. t \in Commands /\ CommandInv(t) /\ t.from = "lookup"
  BY DEF Commands, CommandInv, Kinds
<1>2. /\ dialog' = dialog /\ UNCHANGED <<urlVars, setVars, views, loads>> /\ views' = views
      /\ calls' = calls \cup {x} /\ agreed' = agreed /\ sent' = sent + 1
  BY DEF LookupCall
<1> HIDE DEF t
<1>3. x.command = t
  OBVIOUS
<1> HIDE DEF x
<1>4. DialogInv'
  BY <1>0, <1>2 DEF DialogInv
<1>5. CallsInv' /\ CallsConfirmed'
  BY <1>0, <1>1, <1>2, <1>3 DEF CallsInv, CallsConfirmed
<1>6. sent' \in Nat /\ agreed' \subseteq Commands /\ \A c \in calls' : c.command \in Commands
  BY <1>0, <1>1, <1>2, <1>3 DEF RestOK
<1> QED
  BY <1>2, <1>4, <1>5, <1>6, DialogStep

\* After a command the page is loaded again, at a path of the router.
LEMMA CallDoneInv == ASSUME PagesInv, NEW c \in calls, CallDone(c) PROVE PagesInv'
<1>0. location \in Locations /\ query \in AllIntervals \cup {None} /\ CommandInv(c.command)
  BY PartsOfInv DEF RestOK, CallsInv
<1>1. CASE Deletes(c, "topic")
  <2>1. [route |-> "topics", a |-> None, b |-> None] \in Locations
    BY DEF Locations
  <2>2. Load([route |-> "topics", a |-> None, b |-> None], None)
    BY <1>1 DEF CallDone
  <2> QED
    BY <2>1, <2>2, LoadInv
<1>2. CASE ~Deletes(c, "topic") /\ Deletes(c, "channel")
  <2>1. c.command.a \in TopicNames
    BY <1>0, <1>2 DEF Deletes, CommandInv
  <2>2. [route |-> "topic", a |-> c.command.a, b |-> None] \in Locations
    BY <2>1 DEF Locations
  <2>3. Load([route |-> "topic", a |-> c.command.a, b |-> None], None)
    BY <1>2 DEF CallDone
  <2> QED
    BY <2>2, <2>3, LoadInv
<1>3. CASE ~Deletes(c, "topic") /\ ~Deletes(c, "channel")
  <2>1. Load(location, query)
    BY <1>3 DEF CallDone
  <2> QED
    BY <1>0, <2>1, LoadInv
<1> QED
  BY <1>1, <1>2, <1>3

-----------------------------------------------------------------------------
(* The theorems *)

LEMMA StutterInv == ASSUME PagesInv, UNCHANGED vars PROVE PagesInv'
<1>1. /\ UNCHANGED <<urlVars, setVars, views, loads>> /\ dialog' = dialog /\ calls' = calls
      /\ agreed' = agreed /\ sent' = sent /\ views' = views
  BY DEF vars, callVars
<1>2. RestOK /\ DialogInv /\ CallsInv /\ CallsConfirmed
  BY PartsOfInv
<1>3. DialogInv' /\ CallsInv' /\ CallsConfirmed'
  BY <1>1, <1>2 DEF DialogInv, CallsInv, CallsConfirmed
<1>4. sent' \in Nat /\ agreed' \subseteq Commands /\ \A c \in calls' : c.command \in Commands
  BY <1>1, <1>2 DEF RestOK
<1> QED
  BY <1>1, <1>3, <1>4, DialogStep

LEMMA NextInv == ASSUME PagesInv, [Next]_vars PROVE PagesInv'
<1>0. location \in Locations /\ query \in AllIntervals \cup {None}
  BY PartsOfInv DEF RestOK
<1>1. ASSUME NEW loc \in Locations, Navigate(loc) PROVE PagesInv'
  BY <1>1, NavigateInv
<1>2. CASE Load(location, query)
  BY <1>0, <1>2, LoadInv
<1>3. ASSUME NEW k \in 1..MaxViews, FetchFail(k) PROVE PagesInv'
  BY <1>3, FetchFailInv
<1>4. ASSUME NEW k \in 1..MaxViews, NEW m \in BOOLEAN, NEW l \in BOOLEAN,
             FetchDone(k, m, l)
      PROVE  PagesInv'
  BY <1>4, FetchDoneInv
<1>5. CASE RateEnds
  <2>1. PICK data \in RateData : RateAnswer(data)
    BY <1>5 DEF RateEnds
  <2> QED
    BY <2>1, RateAnswerInv
<1>6. ASSUME NEW i \in AllIntervals, GraphInterval(i) PROVE PagesInv'
  BY <1>6, GraphIntervalInv
<1>7. ASSUME NEW op \in {"delete", "action", "tombstone"}, NEW a \in TopicNames,
             NEW b \in NodeNames, Ask(op, a, b)
      PROVE  PagesInv'
  BY <1>7, AskInv
<1>8. CASE Confirm
  BY <1>8, ConfirmInv
<1>9. CASE Dismiss
  BY <1>9, DismissInv
<1>10. ASSUME NEW op \in {"delete", "create"}, NEW a \in TopicNames \cup {None},
              NEW b \in ChannelNames \cup {None}, LookupCall(op, a, b)
       PROVE  PagesInv'
  BY <1>10, LookupCallInv
<1>11. ASSUME NEW c \in calls, CallDone(c) PROVE PagesInv'
  BY <1>11, CallDoneInv
<1>12. ASSUME NEW c \in calls, CallFail(c) PROVE PagesInv'
  BY <1>12, CallFailInv
<1>13. CASE UNCHANGED vars
  BY <1>13, StutterInv
<1> QED
  BY <1>1, <1>2, <1>3, <1>4, <1>5, <1>6, <1>7, <1>8, <1>9, <1>10, <1>11, <1>12, <1>13
  DEF Next

\* The inductive invariant of the pages (views/*.js, app_state.js, router.js).
THEOREM PagesCorrect == Spec => []PagesInv
<1>1. Init => PagesInv
  BY InitInv
<1>2. PagesInv /\ [Next]_vars => PagesInv'
  BY NextInv
<1> QED
  BY <1>1, <1>2, PTL DEF Spec

\* The variables of the front end keep their types.
THEOREM PageTypes == Spec => []TypeOK
<1>1. PagesInv => TypeOK
  BY DEF PagesInv
<1> QED
  BY <1>1, PagesCorrect, PTL

\* The page shows the view of the URL and no other, in spite of the late
\* answers to views that AppView.showView removed.
THEOREM PageRight == Spec => []PageIsLocation
<1>1. PagesInv => PageIsLocation
  BY DEF PagesInv
<1> QED
  BY <1>1, PagesCorrect, PTL

\* The view on the page is drawn from its data for the current interval.
LEMMA LiveGood == PagesInv => DrawnInv(Live) /\ FreshInv(Live, interval)
<1> SUFFICES ASSUME PagesInv PROVE DrawnInv(Live) /\ FreshInv(Live, interval)
  OBVIOUS
<1>1. AllGood /\ PageIsLocation
  BY PartsOfInv
<1>2. Len(views) \in DOMAIN views
  BY <1>1 DEF AllGood
<1>3. ~views[Len(views)].removed
  BY <1>1, <1>2 DEF PageIsLocation
<1> QED
  BY <1>1, <1>2, <1>3 DEF AllGood, Good, Live

\* Every drawing is complete: interval, buttons and warnings survive the
\* redrawings of BaseView.render without the data of the first one, and the
\* buttons are there exactly for an administrator whose page has something to
\* act on.
THEOREM PageAlwaysComplete == Spec => []PageComplete
<1>1. PagesInv => header = interval
  BY DEF PagesInv
<1>2. PagesInv => PageComplete
  BY <1>1, LiveGood DEF PageComplete, DrawnInv, FreshInv, HasButtons, Actionable
<1> QED
  BY <1>2, PagesCorrect, PTL

\* A spinner is waiting, or BaseView.handleViewError was drawn over.
THEOREM SpinnerRight == Spec => []SpinnerMeansLoading
<1>1. PagesInv => SpinnerMeansLoading
  BY LiveGood DEF SpinnerMeansLoading, DrawnInv
<1> QED
  BY <1>1, PagesCorrect, PTL

\* AppState stores every interval but the default.
THEOREM IntervalKept == Spec => []IntervalRemembered
<1>1. PagesInv => IntervalRemembered
  BY DEF PagesInv
<1> QED
  BY <1>1, PagesCorrect, PTL

\* The callbacks of bootbox.confirm send what the user was asked about.
THEOREM CallsRight == Spec => []CallsConfirmed
<1>1. PagesInv => CallsConfirmed
  BY DEF PagesInv
<1> QED
  BY <1>1, PagesCorrect, PTL
=============================================================================
