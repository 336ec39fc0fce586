--------------------------- MODULE MCAdminHelpers ---------------------------
(* Instances of AdminHelpers for TLC *)
EXTENDS AdminHelpers

\* The texts of the instance.
Plain == <<"t">>
Ephemeral == <<"t", "#", "ephemeral">>
Dotted == <<"t", ".", "u">>
Channel == <<"c">>
V4 == [addr |-> <<"h", ".", "d">>, port |-> <<"4151">>]
V6 == [addr |-> <<"f", ":", "1">>, port |-> <<"4151">>]

MCNodes == {V4, V6}
MCChannels == {Channel}
MCQuantiles == {500, 990, 999}

\* The defaults are "xmq.%s", "stats.counters.%s.count" and "stats.gauges.%s".
CounterFormat == <<"stats", ".", "counters", ".", "%s", ".", "count">>
GaugeFormat == <<"stats", ".", "gauges", ".", "%s">>
MCApps == [prefix : {<<"x", ".", "%s">>, <<"x", ".", "%s", ".">>, <<"x", ".">>,
                     <<"x">>, <<>>},
           counterFormat : {CounterFormat, <<"%s">>, <<>>},
           gaugeFormat : {GaugeFormat, <<"%s">>, <<>>},
           topics : {{Plain, Ephemeral}, {Plain, Dotted}}]
MCOptions == [prefix : {<<"x", ".", "%s">>, <<"x", ".", "%s", ".">>},
              counterFormat : {CounterFormat, <<>>},
              gaugeFormat : {GaugeFormat, <<>>},
              topics : {{Plain, Ephemeral}}]

NodeNames == {<<>>, <<"*">>, JoinHostPort(V4.addr, V4.port),
              JoinHostPort(V6.addr, V6.port)}

MCGraphs ==
    [typ : {"topic"}, node : NodeNames, ns1 : {Plain, Ephemeral, Dotted}, ns2 : {<<>>},
     key : TopicMetrics]
      \cup [typ : {"channel"}, node : NodeNames, ns1 : {Plain}, ns2 : MCChannels,
            key : {<<"in_flight_count">>, <<"requeue_count">>}]
      \cup [typ : {"node"}, node : {JoinHostPort(V4.addr, V4.port)}, ns1 : {<<>>},
            ns2 : {<<>>}, key : {<<"*", "_bytes">>, <<"gc_pause_", "*">>, <<"gc_runs">>}]
      \cup [typ : {"counter"}, node : {<<"*">>}, ns1 : {<<>>}, ns2 : {<<>>},
            key : {<<"message_count">>}]
      \cup [typ : {"e2e"}, node : NodeNames, ns2 : {<<>>}, key : {Latency},
            ns1 : [topic : {Plain, Ephemeral}, channel : {<<>>, Channel},
                   percentiles : {<<990>>, <<990, 500>>, <<990, 999>>}]]

MCPeers == [addr : {V4.addr, V6.addr, <<"h">>}, port : {<<"4151">>, <<"1">>},
            hostname : {<<"h", ".", "d">>, <<"H", ".", "d">>, <<"h">>, <<"g">>},
            client : {<<"h">>, <<"H">>, <<"h", ".", "d">>, <<"g", ".", "d">>}]

\* Every length up to a little more than an hour of the scaled units.
MCDurations == 0..1400
=============================================================================
