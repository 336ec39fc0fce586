---------------------------- MODULE AdminHelpers ----------------------------
(***************************************************************************)
(* The pure functions of the xmqadmin front end: the template helpers that *)
(* name graphite series (lib/handlebars_helpers.js), the one that prints a *)
(* duration, and the parse functions of the models and collections.        *)
(*                                                                         *)
(* A graph shows something only when the target the browser computes reads *)
(* the keys that xmqd sends and the statsd daemon stores.  The two sides   *)
(* are written by different programs from the same options, so the module  *)
(* has both, and compares the set of stored series a target matches with   *)
(* the set the graph is about.                                             *)
(*                                                                         *)
(* A text is a sequence of tokens: one per character where characters are  *)
(* told apart (".", ":", "#", "[", "%s", "*"), one per word elsewhere.     *)
(***************************************************************************)
EXTENDS Integers, FiniteSets, SequencesExt

CONSTANTS Apps,        \* settings: prefix, counterFormat, gaugeFormat, and the
                       \* topics that exist
          Nodes,       \* the xmqd instances: addr and port
          Channels,    \* the channels of every topic
          Quantiles,   \* the latency quantiles of xmqd, in thousandths
          Graphs,      \* graph helper calls: typ, node, ns1, ns2, key
          Peers,       \* rows of a table: addr, port, hostname, client
          Durations,   \* nanoseconds, scaled like the units below
          Us, Ms, Sec, Minute, Hour,
          None

\* The units divide each other, as the real ones do, and the smallest is more
\* than the nanosecond.
ASSUME HelpersAssumption ==
    /\ {Us, Ms, Sec, Minute, Hour} \subseteq Nat /\ Durations \subseteq Nat
    /\ 1 < Us /\ Us < Ms /\ Ms < Sec /\ Sec < Minute /\ Minute < Hour
    /\ Ms % Us = 0 /\ Sec % Ms = 0 /\ Minute % Sec = 0 /\ Hour % Minute = 0

\* The rows hold texts, and a port is a number.
ASSUME PeersAssumption ==
    \A p \in Peers :
        /\ {p.addr, p.port, p.hostname, p.client} \subseteq Seq(STRING)
        /\ ~Contains(p.port, ":")

VARIABLES app,       \* the settings of AppState that the helpers read
          call,      \* the call of a helper or of a parse function
          result     \* what it returns; None before

vars == <<app, call, result>>

-----------------------------------------------------------------------------
\* Replaces every token old of s by the text new.
Replace(s, old, new) ==
    FlattenSeq([i \in DOMAIN s |-> IF s[i] = old THEN new ELSE <<s[i]>>])

\* An empty format makes every key empty.
formatStatsdKey(type, key) ==
    Replace(IF type = "counter" THEN app.counterFormat ELSE app.gaugeFormat,
            "%s", key)

HostKey(host) == Replace(Replace(host, ".", <<"_">>), ":", <<"_">>)

\* prefix.substring(prefix.length, 1): the arguments come out swapped, so this
\* is everything but the first character, and never just the last one unless
\* the prefix has two.
statsdPrefix(host) ==
    LET p == Replace(app.prefix, "%s", HostKey(host))
    IN  IF SubSeq(p, 2, Len(p)) = <<".">> THEN p ELSE Append(p, ".")

Counters == {<<"requeue_count">>, <<"timeout_count">>, <<"message_count">>,
             <<"gc_runs">>}

metricType(key) == IF key \in Counters THEN "counter" ELSE "gauge"

genColorList(typ, key) ==
    CASE typ = "node" -> <<"red", "green", "blue", "purple">>
      [] typ = "counter" -> <<"green">>
      [] typ \in {"topic", "channel"}
            /\ key \in {<<"depth">>, <<"deferred_count">>} -> <<"red">>
      [] OTHER -> <<"blue">>

\* Variant: the name is used as it is.
sanitizeGraphiteKey_Raw(s) == s

\* Blanks and slashes are no characters of names; "#" is the one that goes.
sanitizeGraphiteKey(s) == SelectSeq(s, LAMBDA c : c \notin {"#", "[", "]"})

\* A call of a graphite function around a text.
Apply(open, text, close) == <<open>> \o text \o <<close>>

TopicKey(topic) == <<"topic", ".">> \o topic \o <<".">>
ChannelKey(topic, channel) ==
    TopicKey(topic) \o <<"channel", ".">> \o channel \o <<".">>

\* quantile * 100, printed: 990 is 99, and 999 is 99.9.
Percent(q) ==
    IF q % 10 = 0 THEN <<ToString(q \div 10)>>
    ELSE <<ToString(q \div 10), ".", ToString(q % 10)>>

\* The targets of typ e2e: one for each percentile of the record e.
latencyTargets(e, node, prefix, key) ==
    LET base == IF e.channel # <<>> THEN ChannelKey(e.topic, e.channel)
                                    ELSE TopicKey(e.topic)
        t(q) == prefix \o base \o key \o <<"_">> \o Percent(q)
        all(q) == IF node = <<"*">> THEN Apply("averageSeries(", t(q), ")")
                                    ELSE t(q)
    IN  [i \in DOMAIN e.percentiles |->
            Apply("scale(", formatStatsdKey(metricType(key), all(e.percentiles[i])),
                  ",0.000001)")]

genTargets(typ, node, ns1, ns2, key) ==
    LET prefix == statsdPrefix(IF node = <<>> THEN <<"*">> ELSE node)
        format(text) == formatStatsdKey(metricType(key), text)
        sum(text) == <<Apply("sumSeries(", format(prefix \o text), ")")>>
        mem == prefix \o <<"mem", ".">> \o key
    IN  CASE typ = "topic" -> sum(TopicKey(sanitizeGraphiteKey(ns1)) \o key)
          [] typ = "channel" ->
                sum(ChannelKey(sanitizeGraphiteKey(ns1), sanitizeGraphiteKey(ns2)) \o key)
          [] typ = "node" ->
                <<format(IF key = <<"gc_runs">>
                         THEN Apply("movingAverage(", mem, ",45)") ELSE mem)>>
          [] typ = "e2e" -> latencyTargets(ns1, node, prefix, key)
          [] typ = "counter" -> sum(ChannelKey(<<"*">>, <<"*">>) \o key)

\* sparkline: the mean over STATSD_INTERVAL of every target.
sparkline(c) ==
    LET targets == genTargets(c.typ, c.node, c.ns1, c.ns2, c.key)
    IN  [colorList |-> genColorList(c.typ, c.key),
         target |-> [i \in DOMAIN targets |->
                       Apply("summarize(", targets[i], ",interval,avg)")]]

\* large_graph: the same, and a counter is scaled to a rate per second.
large_graph(c) ==
    LET targets == genTargets(c.typ, c.node, c.ns1, c.ns2, c.key)
        scaled(t) == IF metricType(c.key) = "counter"
                     THEN Apply("scale(", t, ",1/interval)") ELSE t
    IN  [colorList |-> genColorList(c.typ, c.key),
         target |-> [i \in DOMAIN targets |->
                       Apply("summarize(", scaled(targets[i]), ",interval,avg)")]]

\* rate: the first target of message_count; AppView fetches it.
rate(c) ==
    [colorList |-> <<>>,
     target |-> <<genTargets(c.typ, c.node, c.ns1, c.ns2, <<"message_count">>)[1]>>]

-----------------------------------------------------------------------------
\* round(num / unit, 2), in hundredths; Math.round rounds half up.
roundHundredths(num, unit) == (200 * num + unit) \div (2 * unit)

\* Variant: an hour of minutes is left in.
nanotohuman_NoHours(n) ==
    LET rest == n % Minute
        unit == IF rest >= Sec THEN Sec ELSE IF rest >= Ms THEN Ms
                ELSE IF rest >= Us THEN Us ELSE 1
    IN  [h |-> n \div Hour, m |-> n \div Minute, unit |-> unit,
         v |-> roundHundredths(rest, unit)]

\* The branch for nanoseconds assigns s where the others append to it, and so
\* drops the hours and the minutes.
nanotohuman(n) ==
    LET inHour == n % Hour
        rest   == inHour % Minute
        unit   == IF rest >= Sec THEN Sec ELSE IF rest >= Ms THEN Ms
                  ELSE IF rest >= Us THEN Us ELSE 1
    IN  [h |-> IF unit = 1 THEN 0 ELSE n \div Hour,
         m |-> IF unit = 1 THEN 0 ELSE inHour \div Minute,
         unit |-> unit, v |-> roundHundredths(rest, unit)]

\* The value a reader takes from the text, in hundredths of a nanosecond.
ReadBack(r) == 100 * (r.h * Hour + r.m * Minute) + r.v * r.unit

-----------------------------------------------------------------------------
\* The position of the last ":", where split and pop cut an address.
LastColon(s) == SelectLastInSeq(s, LAMBDA c : c = ":")
Port(s) == SubSeq(s, LastColon(s) + 1, Len(s))
Address(s) == SubSeq(s, 1, LastColon(s) - 1)

toLowerCase(s) == [i \in DOMAIN s |-> IF s[i] = "H" THEN "h" ELSE s[i]]

\* The first label of a host name: hostname.split('.')[0].
ShortHostname(s) ==
    IF Contains(s, ".") THEN SubSeq(s, 1, SelectInSeq(s, LAMBDA c : c = ".") - 1)
                        ELSE s

\* Topic.parse and Channel.parse, of one node.
parseNode(node, hostname) ==
    [show_broadcast_address |-> toLowerCase(hostname) # toLowerCase(Address(node)),
     hostname_port |-> hostname \o <<":">> \o Port(node)]

\* Channel.parse, of one client.
parseClient(clientId, hostname, remote) ==
    [show_client_id |-> toLowerCase(clientId) \notin
                           {toLowerCase(ShortHostname(hostname)), toLowerCase(hostname)},
     hostname_port |-> hostname \o <<":">> \o Port(remote)]

\* Variant: an IPv6 address is not put in brackets.
broadcastAddressHttp_Plain(addr, port) == addr \o <<":">> \o port

\* Nodes.parse, of one node.
broadcastAddressHttp(addr, port) ==
    (IF Contains(addr, ":") THEN <<"[">> \o addr \o <<"]">> ELSE addr)
        \o <<":">> \o port

-----------------------------------------------------------------------------
\* The other side.  net.JoinHostPort makes the name of a node of its address.
JoinHostPort(addr, port) ==
    IF Contains(addr, ":") THEN <<"[">> \o addr \o <<"]", ":">> \o port
                           ELSE addr \o <<":">> \o port

NodeName(n) == JoinHostPort(n.addr, n.port)

\* The prefix xmqd makes of its option: it looks at the last character.
xmqdPrefix(n) ==
    LET p == Replace(app.prefix, "%s", HostKey(NodeName(n)))
    IN  IF app.prefix = <<>> \/ Last(p) = "." THEN p ELSE Append(p, ".")

\* What a statsd daemon stores a key as: without special characters, in its
\* format for the type; an empty format stands for no formatting.
Stored(key) ==
    LET name == SelectSeq(key.text, LAMBDA c : c \notin {"#", "[", "]"})
        fmt  == IF key.type = "counter" THEN app.counterFormat ELSE app.gaugeFormat
    IN  IF fmt = <<>> THEN name ELSE Replace(fmt, "%s", name)

TopicMetrics == {<<"message_count">>, <<"depth">>}
ChannelMetrics == TopicMetrics \cup {<<"in_flight_count">>, <<"requeue_count">>}
MemMetrics == {<<"heap_objects">>, <<"heap_idle", "_bytes">>,
               <<"heap_in_use", "_bytes">>, <<"heap_released", "_bytes">>,
               <<"next_gc", "_bytes">>, <<"gc_pause_", "usec_100">>,
               <<"gc_pause_", "usec_99">>, <<"gc_pause_", "usec_95">>, <<"gc_runs">>}
Latency == <<"e2e_processing_latency">>

\* %.0f of quantile * 100.
Rounded(q) == <<ToString((q + 5) \div 10)>>

\* statsdLoop: the series a node n pushes about one topic, and about itself.
\* The record says what the series is; text and type are what is sent.
topicStats(n, t) ==
    LET send(c, metric, q, suffix) ==
            [node |-> n, topic |-> t, channel |-> c, metric |-> metric, quantile |-> q,
             type |-> metricType(metric),
             text |-> xmqdPrefix(n) \o (IF c = <<>> THEN TopicKey(t) ELSE ChannelKey(t, c))
                        \o metric \o suffix]
    IN  {send(<<>>, m, 0, <<>>) : m \in TopicMetrics}
          \cup {send(c, m, 0, <<>>) : c \in Channels, m \in ChannelMetrics}
          \cup {send(c, Latency, q, <<"_">> \o Rounded(q)) :
                   c \in Channels \cup {<<>>}, q \in Quantiles}

memStats(n) ==
    {[node |-> n, topic |-> None, channel |-> None, metric |-> m, quantile |-> 0,
      type |-> metricType(m), text |-> xmqdPrefix(n) \o <<"mem", ".">> \o m]
        : m \in MemMetrics}

Series == UNION {memStats(n) \cup UNION {topicStats(n, t) : t \in app.topics}
                    : n \in Nodes}

-----------------------------------------------------------------------------
\* Graphite: a target is a path inside function calls; the parts of a path
\* between dots are matched one by one, and a "*" stands for any text in one.
Opens == {"sumSeries(", "movingAverage(", "averageSeries(", "scale(", "summarize("}

Path(target) ==
    LET k == CHOOSE d \in 0..Len(target) :
                /\ \A i \in 1..d : target[i] \in Opens
                /\ d = Len(target) \/ target[d + 1] \notin Opens
    IN  SubSeq(target, k + 1, Len(target) - k)

Parts(text) ==
    LET cuts == {0, Len(text) + 1} \cup {i \in DOMAIN text : text[i] = "."}
        cut(k) == CHOOSE c \in cuts : Cardinality({d \in cuts : d < c}) = k
    IN  [k \in 1..(Cardinality(cuts) - 1) |-> SubSeq(text, cut(k - 1) + 1, cut(k) - 1)]

PartMatches(pattern, part) ==
    \/ pattern = part
    \/ \E i \in DOMAIN pattern :
          /\ pattern[i] = "*" /\ Len(part) >= Len(pattern)
          /\ SubSeq(pattern, 1, i - 1) = SubSeq(part, 1, i - 1)
          /\ LET rest == Len(pattern) - i
             IN  SubSeq(pattern, i + 1, Len(pattern))
                    = SubSeq(part, Len(part) - rest + 1, Len(part))

Matches(pattern, text) ==
    LET ps == Parts(pattern)
        ts == Parts(text)
    IN  Len(ps) = Len(ts) /\ \A k \in DOMAIN ps : PartMatches(ps[k], ts[k])

\* The series the result of a graph helper reads.
Matched == {s \in Series : \E i \in DOMAIN result.target :
                              Matches(Path(result.target[i]), Stored(s))}

\* The series a graph is about.
OnNode(c, s) == c.node \in {<<>>, <<"*">>} \/ c.node = NodeName(s.node)

Wanted(c) ==
    {s \in Series :
        /\ OnNode(c, s)
        /\ CASE c.typ = "topic" ->
                  s.topic = c.ns1 /\ s.channel = <<>> /\ s.metric = c.key
             [] c.typ = "channel" ->
                  s.topic = c.ns1 /\ s.channel = c.ns2 /\ s.metric = c.key
             [] c.typ = "node" -> s.topic = None /\ PartMatches(c.key, s.metric)
             [] c.typ = "e2e" ->
                  /\ s.topic = c.ns1.topic /\ s.channel = c.ns1.channel
                  /\ s.metric = c.key /\ s.quantile \in Range(c.ns1.percentiles)
             [] c.typ = "counter" ->
                  s.topic # None /\ s.channel # <<>> /\ s.metric = c.key}

-----------------------------------------------------------------------------
\* The templates draw graphs of topics that exist, and a rate of topics only.
Calls ==
    [helper : {"sparkline", "large_graph"},
     arg : {g \in Graphs : CASE g.typ \in {"topic", "channel"} -> g.ns1 \in app.topics
                             [] g.typ = "e2e" -> g.ns1.topic \in app.topics
                             [] OTHER -> TRUE}]
        \cup [helper : {"rate"},
              arg : {g \in Graphs : g.typ = "topic" /\ g.ns1 \in app.topics}]
        \cup [helper : {"nanotohuman"}, arg : [n : Durations]]
        \cup [helper : {"parse"}, arg : Peers]

Init == app \in Apps /\ call \in Calls /\ result = None

Answer(c) ==
    CASE c.helper = "sparkline" -> sparkline(c.arg)
      [] c.helper = "large_graph" -> large_graph(c.arg)
      [] c.helper = "rate" -> rate(c.arg)
      [] c.helper = "nanotohuman" -> nanotohuman(c.arg.n)
      [] c.helper = "parse" ->
            LET name == JoinHostPort(c.arg.addr, c.arg.port)
            IN  [node |-> parseNode(name, c.arg.hostname),
                 client |-> parseClient(c.arg.client, c.arg.hostname, name),
                 link |-> broadcastAddressHttp(c.arg.addr, c.arg.port)]

\* A template or a model evaluates the call.
Evaluate ==
    /\ result = None
    /\ result' = Answer(call)
    /\ UNCHANGED <<app, call>>

Next == Evaluate

Spec == Init /\ [][Next]_vars

-----------------------------------------------------------------------------
IsGraph == result # None /\ call.helper \in {"sparkline", "large_graph", "rate"}

\* A graph of helper rate is about message_count, whatever the call.
About == IF call.helper = "rate" THEN [call.arg EXCEPT !.key = <<"message_count">>]
                                 ELSE call.arg

\* The settings and calls for which a target reads nothing, or less than it
\* should: an empty format; a prefix that is empty or, after the host is filled
\* in, longer than two characters and ends in a dot; a function called inside
\* the format (gc_runs, and latencies of all nodes); a graph of
\* one node, when the prefix does not name the host, or the host has an IPv6
\* address, whose brackets statsd drops; latencies of an ephemeral topic or
\* channel, whose "#" is left in, or of a quantile that is no whole percent;
\* the counter page, when the name of a topic has a dot.
Astray(c) ==
    LET fmt == IF metricType(c.key) = "counter" THEN app.counterFormat ELSE app.gaugeFormat
        p   == app.prefix
    IN  \/ fmt = <<>>
        \/ p = <<>> \/ (Last(p) = "." /\ Len(p) # 2)
        \/ fmt # <<"%s">> /\ (\/ c.typ = "node" /\ c.key = <<"gc_runs">>
                              \/ c.typ = "e2e" /\ c.node = <<"*">>)
        \/ c.node \notin {<<>>, <<"*">>} /\ (~Contains(p, "%s") \/ Contains(c.node, "["))
        \/ /\ c.typ = "e2e"
           /\ \/ Contains(c.ns1.topic, "#") \/ Contains(c.ns1.channel, "#")
              \/ \E i \in DOMAIN c.ns1.percentiles : c.ns1.percentiles[i] % 10 # 0
        \/ c.typ = "counter" /\ \E t \in app.topics : Contains(t, ".")

\* The browser and xmqd, which build their keys apart, agree: a graph reads
\* exactly the stored series it is about, over every node when it asks for
\* all, and it fails to in exactly the cases Astray names; and the series of a
\* graph of one node have a colour each.
GraphsReadTheirSeries ==
    IsGraph =>
        /\ Matched = Wanted(About) <=> ~Astray(About)
        /\ About.typ = "node" /\ call.helper # "rate" /\ ~Astray(About) =>
              Cardinality(Matched) <= Len(result.colorList)

\* A printed duration reads back to within half a hundredth of its unit, for
\* every length, unless whole minutes or hours are followed by less than a
\* microsecond: then they are lost, and exactly one hour prints as 0ns.
DurationReadsBack ==
    (result # None /\ call.helper = "nanotohuman") =>
        LET n   == call.arg.n
            off == ReadBack(result) - 100 * n
        IN  IF n >= Minute /\ n % Minute < Us
            THEN ReadBack(result) = 100 * (n % Minute)
            ELSE -result.unit <= 2 * off /\ 2 * off <= result.unit

\* The link of the page of nodes names the node as the API does, and the page
\* of a topic takes the port and the host back out of that name, for IPv6
\* addresses too; the broadcast address is shown unless it only repeats the
\* host name, and the client id unless it repeats the host name or its label.
AddressesReadBack ==
    (result # None /\ call.helper = "parse") =>
        LET p == call.arg
        IN  /\ result.link = JoinHostPort(p.addr, p.port)
            /\ result.node.hostname_port = p.hostname \o <<":">> \o p.port
            /\ result.client.hostname_port = p.hostname \o <<":">> \o p.port
            /\ ~Contains(p.addr, ":") =>
                  (result.node.show_broadcast_address
                      <=> toLowerCase(p.hostname) # toLowerCase(p.addr))
            /\ result.client.show_client_id =>
                  p.client # p.hostname /\ p.client # ShortHostname(p.hostname)

\* What the options of xmqadmin promise: an empty format for no formatting, and
\* a prefix that need only match the one of xmqd.  The graph of a topic reads
\* its series under every such setting.
StatsdOptionsHonoured ==
    IsGraph /\ call.arg.typ = "topic" /\ ~Contains(call.arg.node, "[")
        => Matched = Wanted(About)
=============================================================================
