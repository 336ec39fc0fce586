------------------------- MODULE AdminHelpersProofs -------------------------
(* The durations and the addresses that the xmqadmin pages print, for every *)
(* length, every unit and every text.                                       *)
EXTENDS AdminHelpers, SequenceTheorems, TLAPS

(***************************************************************************)
(* Division by a positive number.                                          *)
(***************************************************************************)

\* Quotient and remainder.
LEMMA Division ==
    ASSUME NEW a \in Nat, NEW b \in Nat \ {0}
    PROVE  /\ a \div b \in Nat /\ a % b \in 0..(b - 1)
           /\ a = b * (a \div b) + (a % b)
<1>1. a \div b \in Int /\ a \div b >= 0
  OBVIOUS
<1>2. a % b \in 0..(b - 1)
  OBVIOUS
<1>3. a = b * (a \div b) + (a % b)
  OBVIOUS
<1> QED
  BY <1>1, <1>2, <1>3

\* The remainder is the only number below b that differs by a multiple of b.
LEMMA Remainders ==
    ASSUME NEW b \in Nat \ {0}, NEW p \in Int, NEW q \in Int,
           NEW r \in 0..(b - 1), NEW s \in 0..(b - 1), b * p + r = b * q + s
    PROVE  r = s
<1>1. ASSUME NEW x \in Int, NEW y \in Int, x < y PROVE b * x + b <= b * y
  <2>1. b * (y - x) >= b
    BY <1>1
  <2>2. b * (y - x) = b * y - b * x
    OBVIOUS
  <2>3. b * x \in Int /\ b * y \in Int
    OBVIOUS
  <2> QED
    BY <2>1, <2>2, <2>3
<1>2. b * p \in Int /\ b * q \in Int
  OBVIOUS
<1>3. ~(p < q)
  BY <1>1, <1>2
<1>4. ~(q < p)
  BY <1>1, <1>2
<1> QED
  BY <1>2, <1>3, <1>4

\* The remainder of the remainder, when the divisors divide each other.
LEMMA RemainderOfRemainder ==
    ASSUME NEW a \in Nat, NEW b \in Nat \ {0}, NEW c \in Nat \ {0}, b % c = 0
    PROVE  (a % b) % c = a % c
<1> DEFINE q == a \div b
           k == b \div c
           i == (a % b) \div c
           j == a \div c
           r == (a % b) % c
           s == a % c
<1>1. q \in Nat /\ a % b \in Nat /\ a = b * q + (a % b)
  BY Division
<1>2. k \in Nat /\ b = c * k
  BY Division
<1>3. i \in Nat /\ r \in 0..(c - 1) /\ a % b = c * i + r
  BY <1>1, Division
<1>4. j \in Nat /\ s \in 0..(c - 1) /\ a = c * j + s
  BY Division
<1> HIDE DEF q, k, i, j, r, s
<1>5. (c * k) * q = c * (k * q) /\ k * q \in Nat
  BY <1>1, <1>2
<1>6. c * (k * q) + c * i = c * (k * q + i) /\ k * q + i \in Nat
  BY <1>3, <1>5
<1>7. /\ c * (k * q) \in Int /\ c * i \in Int
      /\ c * j \in Int /\ c * (k * q + i) \in Int
  BY <1>3, <1>4, <1>5, <1>6
<1>8. a = c * (k * q) + (c * i + r)
  BY <1>1, <1>2, <1>3, <1>5
<1>9. c * (k * q + i) + r = c * j + s
  BY <1>3, <1>4, <1>6, <1>7, <1>8
<1>10. r = s
  <2> DEFINE m == k * q + i
  <2>1. m \in Int /\ j \in Int /\ c * m + r = c * j + s
    BY <1>4, <1>6, <1>9
  <2> HIDE DEF m
  <2> QED
    BY <1>3, <1>4, <2>1, Remainders
<1> QED
  BY <1>10 DEF r, s

\* A division by a greater number.
LEMMA SmallDivision ==
    ASSUME NEW a \in Nat, NEW b \in Nat \ {0}, a < b
    PROVE  a \div b = 0 /\ a % b = a
<1> DEFINE q == a \div b
           r == a % b
<1>1. q \in Nat /\ r \in 0..(b - 1) /\ a = b * q + r
  BY Division
<1> HIDE DEF q, r
<1>2. q > 0 => b * q >= b
  BY <1>1
<1>3. q = 0 /\ b * q = 0
  <2>1. b * q \in Nat
    BY <1>1
  <2>2. q = 0
    BY <1>1, <1>2, <2>1
  <2> QED
    BY <2>2
<1> QED
  BY <1>1, <1>3 DEF q, r

(***************************************************************************)
(* Durations.                                                              *)
(***************************************************************************)

\* Math.round leaves out at most half of the unit.
LEMMA RoundHalf ==
    ASSUME NEW x \in Nat, NEW u \in Nat \ {0}
    PROVE  LET v == roundHundredths(x, u)
           IN  /\ v \in Nat
               /\ -u <= 2 * (v * u - 100 * x) /\ 2 * (v * u - 100 * x) <= u
<1> DEFINE v == roundHundredths(x, u)
           a == 200 * x + u
           d == 2 * u
           r == a % d
<1>1. a \in Nat /\ d \in Nat \ {0} /\ v = a \div d
  BY DEF roundHundredths
<1>2. v \in Nat /\ r \in 0..(d - 1) /\ a = d * v + r
  <2> HIDE DEF a, d
  <2> QED
    BY <1>1, Division DEF r
<1> HIDE DEF v, r
<1>3. d * v = 2 * (v * u) /\ v * u \in Nat
  BY <1>2
<1>4. 2 * (v * u - 100 * x) = u - r
  BY <1>2, <1>3
<1> QED
  BY <1>2, <1>4 DEF v

\* The text of nanotohuman, read back.
LEMMA HumanDuration ==
    ASSUME NEW n \in Nat
    PROVE  LET res == nanotohuman(n)
               off == ReadBack(res) - 100 * n
           IN  IF n >= Minute /\ n % Minute < Us
               THEN ReadBack(res) = 100 * (n % Minute)
               ELSE -res.unit <= 2 * off /\ 2 * off <= res.unit
<1>0. /\ Us \in Nat /\ Ms \in Nat /\ Sec \in Nat
      /\ Minute \in Nat \ {0} /\ Hour \in Nat \ {0}
      /\ 1 < Us /\ Us < Ms /\ Ms < Sec /\ Sec < Minute /\ Minute < Hour
      /\ Hour % Minute = 0
  BY HelpersAssumption
<1> DEFINE inHour == n % Hour
           rest == n % Minute
           unit == IF rest >= Sec THEN Sec ELSE IF rest >= Ms THEN Ms
                   ELSE IF rest >= Us THEN Us ELSE 1
           hours == n \div Hour
           minutes == inHour \div Minute
           v == roundHundredths(rest, unit)
           lost == rest < Us
           h == IF lost THEN 0 ELSE hours
           m == IF lost THEN 0 ELSE minutes
           res == nanotohuman(n)
<1>1. /\ hours \in Nat /\ inHour \in Nat /\ n = Hour * hours + inHour
      /\ minutes \in Nat /\ inHour = Minute * minutes + rest
      /\ rest \in 0..(Minute - 1)
  <2>1. hours \in Nat /\ inHour \in Nat /\ n = Hour * hours + inHour
    <3>1. hours \in Nat /\ inHour \in 0..(Hour - 1) /\ n = Hour * hours + inHour
      BY <1>0, Division
    <3> HIDE DEF hours, inHour
    <3> QED
      BY <1>0, <3>1
  <2>2. minutes \in Nat /\ inHour = Minute * minutes + (inHour % Minute)
    BY <1>0, <2>1, Division
  <2>3. inHour % Minute = rest
    BY <1>0, RemainderOfRemainder
  <2>4. rest \in 0..(Minute - 1)
    BY <1>0, Division
  <2> QED
    BY <2>1, <2>2, <2>3, <2>4
<1>2. inHour % Minute = rest
  BY <1>0, RemainderOfRemainder
<1>3. unit \in Nat \ {0} /\ (unit = 1 <=> lost)
  <2>1. rest \in Int
    BY <1>1
  <2> HIDE DEF rest
  <2> QED
    BY <1>0, <2>1
<1>4. res = [h |-> h, m |-> m, unit |-> unit, v |-> v]
  <2>1. res = [h |-> IF unit = 1 THEN 0 ELSE hours,
               m |-> IF unit = 1 THEN 0 ELSE minutes, unit |-> unit, v |-> v]
    BY <1>2 DEF nanotohuman
  <2> QED
    BY <1>3, <2>1
<1>5. /\ v \in Nat /\ v * unit \in Nat
      /\ -unit <= 2 * (v * unit - 100 * rest)
      /\ 2 * (v * unit - 100 * rest) <= unit
  <2>1. rest \in Nat
    BY <1>1
  <2> HIDE DEF unit, rest
  <2>2. /\ v \in Nat
        /\ -unit <= 2 * (v * unit - 100 * rest)
        /\ 2 * (v * unit - 100 * rest) <= unit
    BY <1>3, <2>1, RoundHalf
  <2> HIDE DEF v
  <2> QED
    BY <1>3, <2>2
<1>6. ReadBack(res) = 100 * (h * Hour + m * Minute) + v * unit
  BY <1>4 DEF ReadBack
<1>7. res.unit = unit
  BY <1>4
<1>8. lost /\ n < Minute => hours = 0 /\ minutes = 0
  <2> SUFFICES ASSUME n < Minute PROVE hours = 0 /\ minutes = 0
    OBVIOUS
  <2>1. n < Hour
    BY <1>0
  <2>2. hours = 0 /\ inHour = n
    BY <1>0, <2>1, SmallDivision
  <2>3. n \div Minute = 0
    BY <1>0, SmallDivision
  <2> QED
    BY <2>2, <2>3
<1> HIDE DEF inHour, rest, unit, hours, minutes, v, res
<1>9. CASE lost /\ n >= Minute
  <2>1. unit = 1
    BY <1>3, <1>9
  <2>2. v * unit = v
    BY <1>5, <2>1
  <2>3. v = 100 * rest
    BY <1>1, <1>5, <2>1, <2>2
  <2>4. ReadBack(res) = 100 * rest
    BY <1>0, <1>5, <1>6, <1>9, <2>2, <2>3
  <2> QED
    BY <1>9, <2>4 DEF rest, res
<1>10. CASE ~(lost /\ n >= Minute)
  <2>1. h * Hour + m * Minute + rest = n
    <3>1. CASE lost
      <4>1. hours = 0 /\ minutes = 0
        BY <1>0, <1>8, <1>10, <3>1
      <4>2. rest = n
        BY <1>0, <1>1, <4>1
      <4> QED
        BY <1>0, <3>1, <4>2
    <3>2. CASE ~lost
      <4>1. Hour * hours = hours * Hour /\ Minute * minutes = minutes * Minute
        BY <1>0, <1>1
      <4>2. hours * Hour \in Nat /\ minutes * Minute \in Nat
        BY <1>0, <1>1
      <4> QED
        BY <1>1, <3>2, <4>1, <4>2
    <3> QED
      BY <3>1, <3>2
  <2>2. h * Hour + m * Minute \in Nat
    <3>1. h \in Nat /\ m \in Nat
      BY <1>1
    <3> HIDE DEF h, m
    <3>2. h * Hour \in Nat /\ m * Minute \in Nat
      BY <1>0, <3>1
    <3> QED
      BY <3>2
  <2>3. ReadBack(res) - 100 * n = v * unit - 100 * rest
    BY <1>1, <1>5, <1>6, <2>1, <2>2
  <2> QED
    BY <1>5, <1>7, <1>10, <2>3 DEF rest, res
<1> QED
  BY <1>9, <1>10

(***************************************************************************)
(* Addresses.                                                              *)
(***************************************************************************)

\* The tokens of a text; the provers do not know that literals are strings.
Token == STRING \cup {":", "[", "]"}

Text == Seq(Token)

\* A name is cut at the colon before its port.
LEMMA CutAtPort ==
    ASSUME NEW s \in Text, NEW t \in Text, ~Contains(t, ":")
    PROVE  LET name == s \o <<":">> \o t
           IN  Port(name) = t /\ Address(name) = s
<1> DEFINE name == s \o <<":">> \o t
           n == Len(s) + 1
<1>1. /\ name \in Text /\ Len(name) = n + Len(t) /\ n \in Nat /\ Len(t) \in Nat
      /\ \A i \in 1..Len(s) : name[i] = s[i]
      /\ name[n] = ":"
      /\ \A i \in 1..Len(t) : name[n + i] = t[i]
  <2> DEFINE a == s \o <<":">>
  <2>1. /\ a \in Text /\ Len(a) = n /\ a[n] = ":" /\ n \in Nat /\ Len(t) \in Nat
        /\ \A i \in 1..Len(s) : a[i] = s[i]
    BY DEF Text, Token
  <2>2. 1..Len(s) \subseteq 1..n /\ n \in 1..n
    BY DEF Text
  <2> HIDE DEF a
  <2>3. /\ a \o t \in Text /\ Len(a \o t) = n + Len(t)
        /\ \A i \in 1..n : (a \o t)[i] = a[i]
        /\ \A i \in 1..Len(t) : (a \o t)[n + i] = t[i]
    <3>1. \A i \in 1..(n + Len(t)) :
              (a \o t)[i] = IF i <= n THEN a[i] ELSE t[i - n]
      BY <2>1, ConcatProperties DEF Text
    <3>2. a \o t \in Text /\ Len(a \o t) = Len(a) + Len(t)
      BY <2>1 DEF Text
    <3>3. \A i \in 1..n : (a \o t)[i] = a[i]
      BY <2>1, <3>1
    <3>4. ASSUME NEW i \in 1..Len(t) PROVE (a \o t)[n + i] = t[i]
      <4>1. n + i \in 1..(n + Len(t)) /\ ~(n + i <= n) /\ (n + i) - n = i
        BY <2>1
      <4> QED
        BY <3>1, <4>1
    <3> QED
      BY <2>1, <3>2, <3>3, <3>4
  <2>4. name = a \o t
    BY DEF a
  <2> HIDE DEF name
  <2> QED
    BY <2>1, <2>2, <2>3, <2>4
<1> HIDE DEF name
<1>2. LastColon(name) = n
  <2> DEFINE I == {i \in 1..Len(name) : name[i] = ":"}
  <2>1. n \in I
    BY <1>1
  <2>2. ASSUME NEW i \in I PROVE n >= i
    <3>1. CASE i > n
      <4>1. i - n \in 1..Len(t) /\ n + (i - n) = i
        BY <1>1, <3>1
      <4>2. t[i - n] = ":"
        BY <1>1, <4>1
      <4> QED
        BY <4>1, <4>2 DEF Contains
    <3> QED
      BY <1>1, <3>1
  <2>3. \A k \in I : (\A i \in I : k >= i) => k = n
    BY <1>1, <2>1, <2>2
  <2>4. LastColon(name) = Max(I)
    BY <2>1 DEF LastColon, SelectLastInSeq
  <2> HIDE DEF I
  <2> QED
    BY <2>1, <2>2, <2>3, <2>4 DEF Max
<1>3. Port(name) = t
  <2> DEFINE u == SubSeq(name, n + 1, Len(name))
  <2>1. u \in Text /\ Len(u) = Len(t) /\ \A i \in 1..Len(t) : u[i] = name[n + i]
    BY <1>1 DEF Text
  <2>2. u = t
    BY <1>1, <2>1, SeqEqual DEF Text
  <2> QED
    BY <1>2, <2>2 DEF Port
<1>4. Address(name) = s
  <2> DEFINE u == SubSeq(name, 1, n - 1)
  <2>1. u \in Text /\ Len(u) = Len(s) /\ \A i \in 1..Len(s) : u[i] = name[i]
    BY <1>1 DEF Text
  <2>2. u = s
    BY <1>1, <2>1, SeqEqual DEF Text
  <2> QED
    BY <1>2, <2>2 DEF Address
<1> QED
  BY <1>3, <1>4 DEF name

\* The two programs make one name of an address and a port, and the last
\* colon of it is the one before the port.
LEMMA NodeNames ==
    ASSUME NEW addr \in Text, NEW port \in Text, ~Contains(port, ":")
    PROVE  LET name == JoinHostPort(addr, port)
           IN  /\ broadcastAddressHttp(addr, port) = name
               /\ Port(name) = port
               /\ ~Contains(addr, ":") => Address(name) = addr
<1>1. CASE ~Contains(addr, ":")
  BY <1>1, CutAtPort DEF JoinHostPort, broadcastAddressHttp
<1>2. CASE Contains(addr, ":")
  <2> DEFINE open == <<"[">> \o addr
             host == open \o <<"]">>
             name == host \o <<":">> \o port
  <2>1. open \in Text
    BY DEF Text, Token
  <2>2. host \in Text
    <3> HIDE DEF open
    <3> QED
      BY <2>1 DEF Text, Token
  <2>3. broadcastAddressHttp(addr, port) = name
    BY <1>2 DEF broadcastAddressHttp
  <2>4. JoinHostPort(addr, port) = open \o <<"]", ":">> \o port
    BY <1>2 DEF JoinHostPort
  <2>5. open \o <<"]", ":">> = host \o <<":">>
    <3> DEFINE x == <<"]">>
               y == <<":">>
    <3>1. x \in Text /\ y \in Text
      BY DEF Text, Token
    <3>2. <<"]", ":">> = x \o y
      OBVIOUS
    <3> HIDE DEF open, x, y
    <3>3. (open \o x) \o y = open \o (x \o y)
      BY <2>1, <3>1, ConcatAssociative, SMTT(20) DEF Text
    <3> QED
      BY <3>2, <3>3 DEF x, y
  <2>6. JoinHostPort(addr, port) = name
    BY <2>4, <2>5
  <2> HIDE DEF host
  <2>7. Port(name) = port
    BY <2>2, CutAtPort
  <2> HIDE DEF name
  <2> QED
    BY <1>2, <2>3, <2>6, <2>7
<1> QED
  BY <1>1, <1>2

(***************************************************************************)
(* The invariants.                                                         *)
(***************************************************************************)

\* A result is the answer to the call.
AnswerInv == call \in Calls /\ (result = None \/ result = Answer(call))

LEMMA AnswerStep == AnswerInv /\ [Next]_vars => AnswerInv'
<1> SUFFICES ASSUME AnswerInv, [Next]_vars PROVE AnswerInv'
  OBVIOUS
<1>1. UNCHANGED <<app, call>>
  BY DEF Next, Evaluate, vars
<1>2. call' \in Calls'
  BY <1>1 DEF AnswerInv, Calls
<1>3. result' = None \/ result' = Answer(call)
  BY DEF AnswerInv, Next, Evaluate, vars
<1>4. Answer(call)' = Answer(call)
  BY <1>1 DEF Answer, sparkline, large_graph, rate, genTargets, latencyTargets,
     statsdPrefix, formatStatsdKey
<1> QED
  BY <1>2, <1>3, <1>4 DEF AnswerInv

LEMMA AnswerAlways == Spec => []AnswerInv
<1>1. Init => AnswerInv
  BY DEF Init, AnswerInv
<1> QED
  BY <1>1, AnswerStep, PTL DEF Spec

\* What nanotohuman prints, for every duration and for any units that divide
\* each other: right to half a hundredth of the unit, or without its hours and
\* minutes when less than a microsecond follows them.
THEOREM DurationsRead == Spec => []DurationReadsBack
<1>1. ASSUME AnswerInv PROVE DurationReadsBack
  <2> SUFFICES ASSUME result # None, call.helper = "nanotohuman"
               PROVE  LET n   == call.arg.n
                          off == ReadBack(result) - 100 * n
                      IN  IF n >= Minute /\ n % Minute < Us
                          THEN ReadBack(result) = 100 * (n % Minute)
                          ELSE -result.unit <= 2 * off /\ 2 * off <= result.unit
    BY DEF DurationReadsBack
  <2>1. call.arg.n \in Nat
    <3>1. call \in [helper : {"nanotohuman"}, arg : [n : Durations]]
      BY <1>1 DEF AnswerInv, Calls
    <3> QED
      BY <3>1, HelpersAssumption
  <2>2. result = nanotohuman(call.arg.n)
    BY <1>1 DEF AnswerInv, Answer
  <2> QED
    BY <2>1, <2>2, HumanDuration
<1> QED
  BY <1>1, AnswerAlways, PTL

\* The names of nodes: for every address, IPv6 or not, the page of nodes links
\* to the node the API names, and the pages of topics and channels cut the
\* port, and the host, back out.
THEOREM AddressesRead == Spec => []AddressesReadBack
<1>1. ASSUME AnswerInv PROVE AddressesReadBack
  <2> SUFFICES ASSUME result # None, call.helper = "parse"
               PROVE  AddressesReadBack
    BY DEF AddressesReadBack
  <2> DEFINE p == call.arg
             name == JoinHostPort(p.addr, p.port)
  <2>1. p \in Peers
    <3>1. call \in [helper : {"parse"}, arg : Peers]
      BY <1>1 DEF AnswerInv, Calls
    <3> QED
      BY <3>1
  <2>2. /\ p.addr \in Text /\ p.port \in Text /\ p.hostname \in Text
        /\ p.client \in Text /\ ~Contains(p.port, ":")
    <3>1. ASSUME NEW s \in Seq(STRING) PROVE s \in Text
      BY DEF Text, Token
    <3> QED
      BY <2>1, <3>1, PeersAssumption
  <2>3. result = [node |-> parseNode(name, p.hostname),
                  client |-> parseClient(p.client, p.hostname, name),
                  link |-> broadcastAddressHttp(p.addr, p.port)]
    BY <1>1 DEF AnswerInv, Answer
  <2>4. /\ broadcastAddressHttp(p.addr, p.port) = name
        /\ Port(name) = p.port
        /\ ~Contains(p.addr, ":") => Address(name) = p.addr
    BY <2>2, NodeNames
  <2> HIDE DEF p
  <2>5. result.link = name
    BY <2>3, <2>4
  <2> HIDE DEF name
  <2> DEFINE place == p.hostname \o <<":">> \o p.port
             differs == toLowerCase(p.hostname) # toLowerCase(Address(name))
             shown == toLowerCase(p.client) \notin
                         {toLowerCase(ShortHostname(p.hostname)),
                          toLowerCase(p.hostname)}
  <2>6. result.node = [show_broadcast_address |-> differs, hostname_port |-> place]
    BY <2>3, <2>4 DEF parseNode
  <2>7. result.client = [show_client_id |-> shown, hostname_port |-> place]
    BY <2>3, <2>4 DEF parseClient
  <2>8. result.node.hostname_port = place /\ result.client.hostname_port = place
    <3> HIDE DEF place, differs, shown
    <3> QED
      BY <2>6, <2>7
  <2>9. result.node.show_broadcast_address = differs
    <3> HIDE DEF place, differs
    <3> QED
      BY <2>6
  <2>10. result.client.show_client_id = shown
    <3> HIDE DEF place, shown
    <3> QED
      BY <2>7
  <2>11. shown => p.client # p.hostname /\ p.client # ShortHostname(p.hostname)
    OBVIOUS
  <2>12. ~Contains(p.addr, ":") =>
            (differs <=> toLowerCase(p.hostname) # toLowerCase(p.addr))
    BY <2>4
  <2> HIDE DEF differs, shown
  <2> QED
    BY <2>5, <2>8, <2>9, <2>10, <2>11, <2>12 DEF AddressesReadBack, p, name
<1> QED
  BY <1>1, AnswerAlways, PTL
=============================================================================
