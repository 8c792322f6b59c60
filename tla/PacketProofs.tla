------------------------------ MODULE PacketProofs ------------------------------
(***************************************************************************)
(* What packet_handler makes of a packet, proved for every set of           *)
(* conversations, of own addresses and of frame lengths.                    *)
(***************************************************************************)
EXTENDS Packet, ListLemmas, WellFoundedInduction

(* Minima *)

\* What is well founded has a lowest element.
LEMMA LowestIn ==
  ASSUME NEW R, NEW D, IsWellFoundedOn(R, D), NEW S, S \subseteq D, S # {}
  PROVE  \E m \in S : \A k \in S : ~ (<<k, m>> \in R)
BY WFMin, Zenon

\* The order of the numbers, as a relation.
LEMMA Smaller == \E R : IsWellFoundedOn(R, Nat) /\ (\A x, y \in Nat : x < y => <<x, y>> \in R)
<1>1. \A x, y \in Nat : x < y => <<x, y>> \in OpToRel(<, Nat)
  BY DEF OpToRel
<1> QED
  BY <1>1, NatLessThanWellFounded, Zenon

\* A set of numbers has a least one.
LEMMA Least ==
  ASSUME NEW S, S \subseteq Nat, S # {}
  PROVE  \E m \in S : \A k \in S : m <= k
<1>1. PICK R : IsWellFoundedOn(R, Nat) /\ (\A x, y \in Nat : x < y => <<x, y>> \in R)
  BY Smaller, Zenon
<1>2. IsWellFoundedOn(R, Nat)
  BY <1>1
<1>3. \E m \in S : \A k \in S : ~ (<<k, m>> \in R)
  BY <1>2, LowestIn, Zenon
<1>4. PICK m \in S : \A k \in S : ~ (<<k, m>> \in R)
  BY <1>3
<1>5. ASSUME NEW k \in S PROVE  m <= k
  <2>1. k \in Nat /\ m \in Nat
    OBVIOUS
  <2>2. ~ (<<k, m>> \in R)
    BY <1>4
  <2>3. ~ (k < m)
    BY <2>1, <2>2, <1>1
  <2> QED
    BY <2>1, <2>3
<1> QED
  BY <1>5

\* Min, where there is one.
LEMMA MinIs ==
  ASSUME NEW S, S \subseteq Nat, S # {}
  PROVE  Min(S) \in S /\ \A k \in S : Min(S) <= k
<1>1. \E m \in S : \A k \in S : m <= k
  BY Least
<1> QED
  BY <1>1 DEF Min

-----------------------------------------------------------------------------
(* Frames *)

\* What a frame can be.
LEMMA FrameParts ==
  ASSUME conv \in Conversations, NEW f \in Frames
  PROVE  /\ f.ihl \in Int /\ f.doff \in Int /\ f.pad \in Int /\ f.hello \in Int
         /\ f.from \in Ends /\ f.later \in BOOLEAN
         /\ f.text = <<>> \/ f.text \in Texts
         /\ f.hello # 0 \/ f.text # <<>> =>
              f.ihl = 20 /\ f.doff = 20 /\ f.pad = 0 /\ ~ f.later /\ conv.proto = TCP
         /\ f.hello # 0 => f.text = <<>>
<1>1. Pads \subseteq Int
  BY PacketAssumption
<1>2. CASE f \in Shapes
  <2>1. f.ihl \in {16, 20, 24} /\ f.doff \in {16, 20, 32} /\ f.pad \in Pads /\ f.hello = 0
    BY <1>2 DEF Shapes
  <2>2. f.later \in BOOLEAN /\ f.from \in Ends /\ f.text = <<>>
    BY <1>2 DEF Shapes
  <2>3. f.pad \in Int
    BY <1>1, <2>1
  <2>4. f.ihl \in Int /\ f.doff \in Int /\ f.hello \in Int
    BY <2>1, SMT
  <2>5. ~ (f.hello # 0 \/ f.text # <<>>)
    BY <2>1, <2>2
  <2> QED
    BY <2>2, <2>3, <2>5, <2>4
<1>3. CASE conv.proto = TCP /\ f \in Openings
  <2>1. CASE f = [Plain EXCEPT !.syn = TRUE, !.ack = FALSE]
    BY <1>3, <2>1 DEF Plain, Ends
  <2>2. CASE f = [Plain EXCEPT !.syn = TRUE, !.from = "b"]
    BY <1>3, <2>2 DEF Plain, Ends
  <2> QED
    BY <1>3, <2>1, <2>2 DEF Openings
<1>4. CASE conv.proto = TCP /\ f \in Segments
  <2>1. CASE f \in {[Plain EXCEPT !.text = t] : t \in Texts}
    <3>1. PICK t \in Texts : f = [Plain EXCEPT !.text = t]
      BY <2>1
    <3> HIDE DEF Segments
    <3> QED
      BY <1>4, <3>1 DEF Plain, Ends
  <2>2. CASE f \in {[Plain EXCEPT !.hello = n] : n \in Cuts}
    <3>1. PICK n \in Cuts : f = [Plain EXCEPT !.hello = n]
      BY <2>2
    <3>2. n \in Int
      BY DEF Cuts
    <3> HIDE DEF Segments
    <3> QED
      BY <1>4, <3>1, <3>2 DEF Plain, Ends
  <2> QED
    BY <1>4, <2>1, <2>2 DEF Segments
<1> QED
  BY <1>2, <1>3, <1>4 DEF Frames

\* Where the headers of an accepted frame are: the transport's is where it is on
\* the wire.
LEMMA WhereHeadersAre ==
  ASSUME conv \in Conversations, NEW f \in Frames, Accepted(f)
  PROVE  /\ L4At(f) = Real(f) /\ L4At(f) \in Int
         /\ HeaderLen \in Int /\ PayloadAt(f) \in Int /\ CapLen(f) \in Int
         /\ PayloadAt(f) <= CapLen(f)
         /\ CapLen(f) = L4At(f) + (IF conv.proto = TCP THEN f.doff ELSE HeaderLen)
                          + 3 * Len(f.text) + f.hello + f.pad
         /\ Len(f.text) \in Nat
<1> USE FrameParts
<1>1. conv.link \in {"EN10MB", "SLL", "SLL2", "RAW"} /\ conv.type \in {"IP", "IPV6"}
  BY DEF Accepted, LinkIsRead, NetworkIsRead, LinkHeader, FixedHeader
<1>2. L3At[conv.link] \in Int
  BY <1>1 DEF L3At
<1>3. L4At(f) = Real(f) /\ L4At(f) \in Int
  BY <1>1, <1>2 DEF L4At, Real, FixedHeader
<1>4. HeaderLen \in Int
  BY DEF HeaderLen, PortHeader, TCP, UDP, SCTP, ICMP, ICMP6
<1>5. /\ PayloadAt(f) = L4At(f) + (IF conv.proto = TCP THEN f.doff ELSE HeaderLen)
      /\ PayloadAt(f) \in Int
  BY <1>3, <1>4 DEF PayloadAt
<1>6. Len(f.text) \in Nat
  <2>1. conv.text \in Seq(STRING)
    BY PacketAssumption
  <2>2. f.text \in Seq(STRING)
    <3>1. CASE f.text = <<>>
      BY <3>1
    <3>2. CASE f.text \in Texts
      <4>1. PICK i, j \in 1 .. Len(conv.text) : f.text = SubSeq(conv.text, i, j)
        BY <3>2 DEF Texts
      <4> QED
        BY <2>1, <4>1
    <3> QED
      BY <3>1, <3>2
  <2> QED
    BY <2>2
<1>7. CapLen(f) = L4At(f) + (IF conv.proto = TCP THEN f.doff ELSE HeaderLen)
                          + 3 * Len(f.text) + f.hello + f.pad
  BY <1>3 DEF CapLen
<1>8. CapLen(f) \in Int
  BY <1>3, <1>4, <1>6, <1>7
<1>9. PayloadAt(f) <= CapLen(f)
  <2>1. TransportIsRead(f)
    BY DEF Accepted
  <2>2. CASE conv.proto = TCP
    BY <2>1, <2>2, <1>8, <1>5 DEF TransportIsRead
  <2>3. CASE conv.proto # TCP
    BY <2>1, <2>3, <1>8, <1>5 DEF TransportIsRead
  <2> QED
    BY <2>2, <2>3
<1> QED
  BY <1>3, <1>4, <1>5, <1>6, <1>7, <1>8, <1>9

-----------------------------------------------------------------------------
(* What the packet is accounted to *)

\* Only a later fragment has ports that are not its conversation's.
LEMMA PortsAreOwn ==
  ASSUME conv \in Conversations, NEW f \in Frames, Accepted(f)
  PROVE  Ports(f) = conv.ports \/ f.later
<1>1. L4At(f) = Real(f)
  BY WhereHeadersAre
<1>2. conv.proto \in {TCP, UDP, SCTP} \/ conv.ports = [end \in Ends |-> 0]
  BY PacketAssumption
<1> QED
  BY <1>1, <1>2 DEF Ports

\* The rules of classify_flow give a class, whichever of them is the first.
LEMMA FlowHasClass ==
  ASSUME NEW k, NEW sni, NEW hst
  PROVE  ClassifyFlow(k, sni, hst) # NoClass
<1> DEFINE rules == Rules(k, sni, hst)
           open == {i \in DOMAIN rules : rules[i][1]}
<1>1. DOMAIN rules = 1 .. 10
  BY DEF Rules
<1>2. 10 \in open
  <2>1. rules[10][1]
    BY DEF Rules
  <2> HIDE DEF rules
  <2> QED
    BY <1>1, <2>1
<1>3. open \subseteq Nat
  BY <1>1
<1>4. \A i \in open : rules[i][2] # NoClass
  <2>1. SUFFICES ASSUME NEW i \in 1 .. 10, rules[i][1]
                 PROVE  rules[i][2] # NoClass
    BY <1>1
  <2>2. ByEarlyPort(k) # NoClass => rules[1][2] # NoClass
    BY DEF Rules
  <2>3. rules[1][1] => ByEarlyPort(k) # NoClass
    BY DEF Rules
  <2>4. rules[2][2] # NoClass /\ rules[3][2] # NoClass /\ rules[4][2] # NoClass
    BY DEF Rules, NoClass
  <2>5. rules[5][2] # NoClass /\ rules[6][2] # NoClass /\ rules[7][2] # NoClass
    BY DEF Rules, NoClass
  <2>6. rules[8][2] # NoClass /\ rules[10][2] # NoClass
    BY DEF Rules, NoClass
  <2>7. rules[9][1] => ByPort(k) # NoClass
    BY DEF Rules
  <2>8. ByPort(k) # NoClass => rules[9][2] # NoClass
    BY DEF Rules
  <2> HIDE DEF rules
  <2> QED
    BY <2>1, <2>2, <2>3, <2>4, <2>5, <2>6, <2>7, <2>8
<1>5. ClassifyFlow(k, sni, hst) = rules[Min(open)][2]
  BY DEF ClassifyFlow
<1> HIDE DEF rules, open
<1>6. Min(open) \in open
  BY <1>2, <1>3, MinIs
<1> QED
  BY <1>4, <1>5, <1>6

\* What the handler goes on with has a class.
LEMMA HasClass ==
  ASSUME NEW k, NEW type, NEW sni, NEW hst, k.proto \in Handled
  PROVE  ClassTag(k, type, sni, hst) # NoClass
<1>1. CASE k.proto \in {ICMP, ICMP6}
  <2>1. \A t \in DOMAIN IcmpTypes : IcmpTypes[t] # NoClass
    BY DEF IcmpTypes, NoClass
  <2>2. \A t \in DOMAIN Icmp6Types : Icmp6Types[t] # NoClass
    BY DEF Icmp6Types, NoClass
  <2>3. ClassTag(k, type, sni, hst) = ByIcmp(k.proto, type)
    BY <1>1 DEF ClassTag
  <2>4. ByIcmp(k.proto, type) # NoClass
    BY <2>1, <2>2 DEF ByIcmp, NoClass
  <2> QED
    BY <2>3, <2>4
<1>2. CASE k.proto \in {TCP, UDP}
  BY <1>2, FlowHasClass DEF ClassTag, TCP, UDP, ICMP, ICMP6
<1>3. CASE k.proto \notin {ICMP, ICMP6, TCP, UDP}
  <2>1. k.proto \in {2, 47, 50, 51, 89, 103, 112, SCTP}
    BY <1>3 DEF Handled, PortHeader, ByProto
  <2>2. ClassTag(k, type, sni, hst) = ByProto[k.proto]
    BY <1>3 DEF ClassTag
  <2> QED
    BY <2>1, <2>2 DEF ByProto, SCTP, NoClass
<1> QED
  BY <1>1, <1>2, <1>3

-----------------------------------------------------------------------------
(* The call *)

\* What flow_table_touch is called with.
LEMMA TouchIs ==
  ASSUME conv \in Conversations, NEW f \in Frames, Accepted(f), NEW c, c = Touch(f)
  PROVE  /\ c.from \in Ends
         /\ c.key = Key(c.from, conv.ports) \/ c.later
         /\ c.class # NoClass
         /\ c.dir \in {"in", "out", "internal", "transit"}
<1> DEFINE k == Key(f.from, Ports(f))
<1>1. /\ c.from = f.from /\ c.later = f.later /\ c.key = k /\ c.dir = Direction(k)
      /\ c.class = ClassTag(k, conv.icmp[f.from], Sni(f), HostOf(f))
      /\ c.sni = Sni(f)
  BY DEF Touch
<1>2. c.from \in Ends
  BY <1>1, FrameParts
<1>3. c.key = Key(c.from, conv.ports) \/ c.later
  BY <1>1, PortsAreOwn
<1>4. c.class # NoClass
  <2>1. conv.proto \in Handled
    BY DEF Accepted, TransportIsRead
  <2>2. k.proto = conv.proto
    BY DEF Key
  <2> HIDE DEF k
  <2> QED
    BY <1>1, <2>1, <2>2, HasClass
<1>5. c.dir \in {"in", "out", "internal", "transit"}
  BY <1>1 DEF Direction
<1> HIDE DEF k
<1> QED
  BY <1>2, <1>3, <1>4, <1>5

\* What is known of the last call.
CallInv ==
  /\ conv \in Conversations
  /\ localIps \in {OwnAddrs, {}}
  /\ misled \in BOOLEAN
  /\ Called => call.class # NoClass /\ call.dir \in {"in", "out", "internal", "transit"}
  /\ OwnKey

LEMMA CallsBegin == Init => CallInv
BY DEF Init, CallInv, Called, OwnKey

LEMMA CallsStep == CallInv /\ [Next]_vars => CallInv'
<1> SUFFICES ASSUME CallInv, [Next]_vars
             PROVE  CallInv'
  OBVIOUS
<1>1. CASE Next
  <2>1. PICK f \in Frames : Packet(f)
    BY <1>1 DEF Next
  <2>2. conv \in Conversations /\ Accepted(f)
    BY <2>1 DEF CallInv, Packet
  <2>3. PICK c : c = Touch(f)
    OBVIOUS
  <2>4. conv' = conv /\ localIps' = localIps /\ call' = c
    BY <2>1, <2>3 DEF Packet
  <2>5. /\ c.from \in Ends
        /\ c.key = Key(c.from, conv.ports) \/ c.later
        /\ c.class # NoClass
        /\ c.dir \in {"in", "out", "internal", "transit"}
    BY <2>2, <2>3, TouchIs
  <2>6. misled' \in BOOLEAN
    BY <2>1 DEF CallInv, Packet
  <2>7. (conv \in Conversations /\ localIps \in {OwnAddrs, {}})'
    BY <2>4 DEF CallInv
  <2>8. (call.class # NoClass /\ call.dir \in {"in", "out", "internal", "transit"})'
    BY <2>4, <2>5
  <2>9. OwnKey'
    BY <2>4, <2>5 DEF OwnKey, Key
  <2> QED
    BY <2>6, <2>7, <2>8, <2>9 DEF CallInv
<1>2. CASE UNCHANGED vars
  BY <1>2 DEF vars, CallInv, Called, OwnKey, Key
<1> QED
  BY <1>1, <1>2

\* What is known of the last call stays known, from one packet to the next.
THEOREM CallsCorrect == Spec => []CallInv
BY CallsBegin, CallsStep, PTL DEF Spec

\* A packet is accounted to its own conversation, options or not; but for the later
\* fragments of a datagram.
THEOREM KeyCorrect == Spec => []OwnKey
<1>1. CallInv => OwnKey
  BY DEF CallInv
<1> QED
  BY <1>1, CallsCorrect, PTL

-----------------------------------------------------------------------------
(* The two directions *)

\* The class and the direction of what comes from an end and has no name.
Unnamed(e) ==
  [class |-> ClassTag(Key(e, conv.ports), conv.icmp[e], NoName, NoName),
   dir |-> Direction(Key(e, conv.ports))]

\* What was told of an end is what every packet without a name tells of it.
ToldInv ==
  /\ told = [e \in Ends |-> told[e]]
  /\ \A e \in Ends : told[e] = Nothing \/ told[e] = Unnamed(e)

\* The two keys of a conversation have the same ports, and so the same class by
\* their ports.
LEMMA SamePorts ==
  ASSUME NEW ports, NEW p
  PROVE  HasPort(Key("a", ports), p) <=> HasPort(Key("b", ports), p)
BY DEF HasPort, Key, Other

LEMMA SameByPort ==
  ASSUME NEW ports
  PROVE  /\ ByPort(Key("a", ports)) = ByPort(Key("b", ports))
         /\ \A set : HasAny(Key("a", ports), set) <=> HasAny(Key("b", ports), set)
<1> DEFINE matched(k) == {i \in DOMAIN PortRules : HasPort(k, PortRules[i][1])}
<1>1. matched(Key("a", ports)) = matched(Key("b", ports))
  BY SamePorts
<1>2. \A k : ByPort(k) = IF matched(k) = {} THEN NoClass ELSE PortRules[Min(matched(k))][2]
  BY DEF ByPort
<1> HIDE DEF matched
<1>3. ByPort(Key("a", ports)) = ByPort(Key("b", ports))
  BY <1>1, <1>2
<1>4. \A set : HasAny(Key("a", ports), set) <=> HasAny(Key("b", ports), set)
  BY SamePorts DEF HasAny
<1> QED
  BY <1>3, <1>4

\* Without names, and not to a group, both have one class.
LEMMA SameClass ==
  ASSUME conv \in Conversations, conv.proto \notin {ICMP, ICMP6}, conv.addr["b"] \notin Multicast
  PROVE  Unnamed("a").class = Unnamed("b").class
<1>1. PICK ka : ka = Key("a", conv.ports)
  OBVIOUS
<1>2. PICK kb : kb = Key("b", conv.ports)
  OBVIOUS
<1>3. ka.proto = conv.proto /\ kb.proto = conv.proto
  BY <1>1, <1>2 DEF Key
<1>4. ka.dst \notin Multicast /\ kb.dst \notin Multicast
  BY <1>1, <1>2, PacketAssumption DEF Key, Other
<1>5. ByPort(ka) = ByPort(kb) /\ \A set : HasAny(ka, set) <=> HasAny(kb, set)
  BY <1>1, <1>2, SameByPort
<1>6. ByEarlyPort(ka) = ByEarlyPort(kb)
  BY <1>5 DEF ByEarlyPort
<1>7. ClassifyFlow(ka, NoName, NoName) = ClassifyFlow(kb, NoName, NoName)
  <2> DEFINE ra == Rules(ka, NoName, NoName)
             rb == Rules(kb, NoName, NoName)
             opena == {i \in DOMAIN ra : ra[i][1]}
             openb == {i \in DOMAIN rb : rb[i][1]}
  <2>1. DOMAIN ra = 1 .. 10 /\ DOMAIN rb = 1 .. 10
    BY DEF Rules
  <2>2. \A i \in 1 .. 10 : ra[i][2] = rb[i][2]
    <3>1. ra[1][2] = rb[1][2] /\ ra[2][2] = rb[2][2] /\ ra[3][2] = rb[3][2]
      BY <1>6 DEF Rules
    <3>2. ra[4][2] = rb[4][2] /\ ra[5][2] = rb[5][2] /\ ra[6][2] = rb[6][2] /\ ra[7][2] = rb[7][2]
      BY DEF Rules
    <3>3. ra[8][2] = rb[8][2] /\ ra[9][2] = rb[9][2] /\ ra[10][2] = rb[10][2]
      BY <1>5 DEF Rules
    <3> HIDE DEF ra, rb
    <3> QED
      BY <3>1, <3>2, <3>3
  <2>3. \A i \in 1 .. 10 : ra[i][1] <=> rb[i][1]
    <3>1. (ra[1][1] <=> rb[1][1]) /\ (ra[9][1] <=> rb[9][1])
      BY <1>5, <1>6 DEF Rules
    <3>2. (ra[2][1] <=> rb[2][1]) /\ (ra[7][1] <=> rb[7][1]) /\ (ra[8][1] <=> rb[8][1])
      BY <1>3, <1>5 DEF Rules
    <3>3. (ra[3][1] <=> rb[3][1]) /\ (ra[4][1] <=> rb[4][1]) /\ (ra[6][1] <=> rb[6][1])
      BY DEF Rules
    <3>4. (ra[5][1] <=> rb[5][1]) /\ (ra[10][1] <=> rb[10][1])
      BY <1>4 DEF Rules
    <3> HIDE DEF ra, rb
    <3> QED
      BY <3>1, <3>2, <3>3, <3>4
  <2>4. /\ ClassifyFlow(ka, NoName, NoName) = ra[Min(opena)][2]
        /\ ClassifyFlow(kb, NoName, NoName) = rb[Min(openb)][2]
    BY DEF ClassifyFlow
  <2>5. 10 \in opena
    <3>1. ra[10][1]
      BY DEF Rules
    <3> HIDE DEF ra
    <3> QED
      BY <2>1, <3>1
  <2> HIDE DEF ra, rb
  <2>6. opena = openb /\ opena \subseteq 1 .. 10
    BY <2>1, <2>3
  <2> HIDE DEF opena, openb
  <2>7. opena \subseteq Nat
    BY <2>6
  <2>8. Min(opena) \in opena
    BY <2>5, <2>7, MinIs
  <2> QED
    BY <2>2, <2>4, <2>6, <2>8
<1>8. ClassTag(ka, conv.icmp["a"], NoName, NoName) = ClassTag(kb, conv.icmp["b"], NoName, NoName)
  BY <1>3, <1>7 DEF ClassTag
<1> QED
  BY <1>1, <1>2, <1>8 DEF Unnamed

\* Their directions are opposite.
LEMMA OppositeDirections == Unnamed("a").dir = Mirror[Unnamed("b").dir]
<1>1. PICK x : x = conv.addr["a"]
  OBVIOUS
<1>2. PICK y : y = conv.addr["b"]
  OBVIOUS
<1>3. /\ Key("a", conv.ports).src = x /\ Key("a", conv.ports).dst = y
      /\ Key("b", conv.ports).src = y /\ Key("b", conv.ports).dst = x
  BY <1>1, <1>2 DEF Key, Other
<1>4. /\ Unnamed("a").dir = Direction(Key("a", conv.ports))
      /\ Unnamed("b").dir = Direction(Key("b", conv.ports))
  BY DEF Unnamed
<1>5. CASE x \in localIps /\ y \in localIps
  BY <1>3, <1>4, <1>5 DEF Direction, Mirror
<1>6. CASE x \in localIps /\ y \notin localIps
  BY <1>3, <1>4, <1>6 DEF Direction, Mirror
<1>7. CASE x \notin localIps /\ y \in localIps
  BY <1>3, <1>4, <1>7 DEF Direction, Mirror
<1>8. CASE x \notin localIps /\ y \notin localIps
  BY <1>3, <1>4, <1>8 DEF Direction, Mirror
<1> QED
  BY <1>5, <1>6, <1>7, <1>8

LEMMA ToldStep == CallInv /\ ToldInv /\ [Next]_vars => ToldInv'
<1> SUFFICES ASSUME CallInv, ToldInv, [Next]_vars
             PROVE  ToldInv'
  OBVIOUS
<1>1. ASSUME conv' = conv, localIps' = localIps
      PROVE  \A e \in Ends : Unnamed(e)' = Unnamed(e)
  BY <1>1 DEF Unnamed, Direction, Key
<1>2. CASE Next
  <2>1. PICK f \in Frames : Packet(f)
    BY <1>2 DEF Next
  <2>2. conv \in Conversations /\ Accepted(f) /\ conv' = conv /\ localIps' = localIps
    BY <2>1 DEF CallInv, Packet
  <2>3. f.from \in Ends /\ call'.sni = Sni(f)
    <3>1. Touch(f).sni = Sni(f)
      BY DEF Touch
    <3> QED
      BY <2>1, <2>2, <3>1, FrameParts DEF Packet
  <2>4. CASE Sni(f) = NoName /\ HostOf(f) = NoName /\ ~ f.later
    <3>1. PICK u : u = Unnamed(f.from)
      OBVIOUS
    <3>2. Touch(f).class = u.class /\ Touch(f).dir = u.dir
      <4>1. Ports(f) = conv.ports
        BY <2>2, <2>4, PortsAreOwn
      <4> QED
        BY <2>4, <3>1, <4>1 DEF Touch, Unnamed
    <3>3. u = [class |-> u.class, dir |-> u.dir]
      BY <3>1 DEF Unnamed
    <3>4. told' = [told EXCEPT ![f.from] = u]
      BY <2>1, <2>3, <2>4, <3>2, <3>3 DEF Packet
    <3>5. PICK t : t = told'
      OBVIOUS
    <3>6. t = [e \in Ends |-> t[e]] /\ \A e \in Ends : t[e] = IF e = f.from THEN u ELSE told[e]
      BY <2>3, <3>4, <3>5 DEF ToldInv
    <3> QED
      BY <1>1, <2>2, <3>1, <3>5, <3>6 DEF ToldInv
  <2>5. CASE ~ (Sni(f) = NoName /\ HostOf(f) = NoName /\ ~ f.later)
    <3>1. told' = told
      BY <2>1, <2>3, <2>5 DEF Packet
    <3> QED
      BY <1>1, <2>2, <3>1 DEF ToldInv
  <2> QED
    BY <2>4, <2>5
<1>3. CASE UNCHANGED vars
  BY <1>1, <1>3 DEF vars, ToldInv
<1> QED
  BY <1>2, <1>3

\* Without a name to tell them apart, the two directions of a conversation have
\* one class, whichever side is the server, and opposite directions.
THEOREM DirectionsCorrect == Spec => []BothWaysAlike
<1>1. Init => ToldInv
  BY DEF Init, ToldInv
<1>2. CallInv /\ ToldInv => BothWaysAlike
  <2> SUFFICES ASSUME CallInv, ToldInv, told["a"] # Nothing, told["b"] # Nothing
               PROVE  /\ conv.proto \in {ICMP, ICMP6} \/ conv.addr["b"] \in Multicast
                           \/ told["a"].class = told["b"].class
                      /\ told["a"].dir = Mirror[told["b"].dir]
    BY DEF BothWaysAlike
  <2>1. told["a"] = Unnamed("a") /\ told["b"] = Unnamed("b")
    BY DEF ToldInv, Ends
  <2>2. conv \in Conversations
    BY DEF CallInv
  <2> QED
    BY <2>1, <2>2, SameClass, OppositeDirections
<1> QED
  BY <1>1, <1>2, CallsCorrect, ToldStep, PTL DEF Spec

-----------------------------------------------------------------------------
(* Needles in a text *)

\* What texts and needles are made of.
Pieces == STRING \union {"CR", "LF", "Ho", "st:"}

\* The needles, piece by piece.
LEMMA ThreeOf ==
  ASSUME NEW a, NEW b, NEW c
  PROVE  <<a>> \o <<b, c>> = <<a, b, c>>
<1>1. PICK S : S = {a, b, c}
  OBVIOUS
<1>2. a \in S /\ b \in S /\ c \in S
  BY <1>1
<1>3. PICK p : p = <<a>>
  OBVIOUS
<1>4. PICK h : h = <<b, c>>
  OBVIOUS
<1>5. p \in Seq(S) /\ Len(p) = 1 /\ p[1] = a
  BY <1>2, <1>3
<1>6. h \in Seq(S) /\ Len(h) = 2 /\ h[1] = b /\ h[2] = c
  BY <1>2, <1>4
<1>7. PICK u : u = p \o h
  OBVIOUS
<1>8. u \in Seq(S) /\ Len(u) = 3 /\ u[1] = a /\ u[2] = b /\ u[3] = c
  BY <1>5, <1>6, <1>7, ConcatProperties
<1>9. u = <<a, b, c>>
  BY <1>8
<1> QED
  BY <1>3, <1>4, <1>7, <1>9

LEMMA FourOf ==
  ASSUME NEW a, NEW b, NEW c, NEW d
  PROVE  <<a, b>> \o <<c, d>> = <<a, b, c, d>>
<1>1. PICK S : S = {a, b, c, d}
  OBVIOUS
<1>2. a \in S /\ b \in S /\ c \in S /\ d \in S
  BY <1>1
<1>3. PICK p : p = <<a, b>>
  OBVIOUS
<1>4. PICK h : h = <<c, d>>
  OBVIOUS
<1>5. p \in Seq(S) /\ Len(p) = 2 /\ p[1] = a /\ p[2] = b
  BY <1>2, <1>3
<1>6. h \in Seq(S) /\ Len(h) = 2 /\ h[1] = c /\ h[2] = d
  BY <1>2, <1>4
<1>7. PICK u : u = p \o h
  OBVIOUS
<1>8. u \in Seq(S) /\ Len(u) = 4 /\ u[1] = a /\ u[2] = b /\ u[3] = c /\ u[4] = d
  BY <1>5, <1>6, <1>7, ConcatProperties
<1>9. u = <<a, b, c, d>>
  BY <1>8
<1> QED
  BY <1>3, <1>4, <1>7, <1>9

LEMMA Needles ==
  /\ Header = <<"Ho", "st:">>
  /\ HostLine = <<"LF", "Ho", "st:">>
  /\ <<"CR", "LF">> \o Header = <<"CR", "LF", "Ho", "st:">>
  /\ <<"LF">> \o Header = HostLine
<1>1. Header = <<"Ho", "st:">>
  BY DEF Header
<1>2. <<"LF">> \o Header = <<"LF", "Ho", "st:">>
  BY <1>1, ThreeOf
<1>3. <<"CR", "LF">> \o Header = <<"CR", "LF", "Ho", "st:">>
  BY <1>1, FourOf
<1> QED
  BY <1>1, <1>2, <1>3 DEF HostLine

\* A part of two, three or four pieces.
LEMMA TwoAt ==
  ASSUME NEW S, NEW s \in Seq(S), NEW n \in Seq(S), Len(n) = 2, NEW k \in 1 .. Len(s) - 1
  PROVE  SubSeq(s, k, k + 1) = n <=>
           s[k] = n[1] /\ s[k + 1] = n[2]
<1>1. k \in Int /\ 1 <= k /\ k + 1 <= Len(s)
  OBVIOUS
<1>2. PICK u : u = SubSeq(s, k, k + 1)
  OBVIOUS
<1>3. /\ u \in Seq(S) /\ Len(u) = 2
      /\ u[1] = s[k] /\ u[2] = s[k + 1]
  BY <1>1, <1>2
<1>4. ASSUME u[1] = n[1] /\ u[2] = n[2]
      PROVE  u = n
  <2>1. \A i \in 1 .. 2 : u[i] = n[i]
    BY <1>3, <1>4
  <2> QED
    BY <1>3, <2>1, SeqEqual
<1> QED
  BY <1>2, <1>3, <1>4

LEMMA ThreeAt ==
  ASSUME NEW S, NEW s \in Seq(S), NEW n \in Seq(S), Len(n) = 3, NEW k \in 1 .. Len(s) - 2
  PROVE  SubSeq(s, k, k + 2) = n <=>
           s[k] = n[1] /\ s[k + 1] = n[2] /\ s[k + 2] = n[3]
<1>1. k \in Int /\ 1 <= k /\ k + 2 <= Len(s)
  OBVIOUS
<1>2. PICK u : u = SubSeq(s, k, k + 2)
  OBVIOUS
<1>3. /\ u \in Seq(S) /\ Len(u) = 3
      /\ u[1] = s[k] /\ u[2] = s[k + 1] /\ u[3] = s[k + 2]
  BY <1>1, <1>2
<1>4. ASSUME u[1] = n[1] /\ u[2] = n[2] /\ u[3] = n[3]
      PROVE  u = n
  <2>1. \A i \in 1 .. 3 : u[i] = n[i]
    BY <1>3, <1>4
  <2> QED
    BY <1>3, <2>1, SeqEqual
<1> QED
  BY <1>2, <1>3, <1>4

LEMMA FourAt ==
  ASSUME NEW S, NEW s \in Seq(S), NEW n \in Seq(S), Len(n) = 4, NEW k \in 1 .. Len(s) - 3
  PROVE  SubSeq(s, k, k + 3) = n <=>
           s[k] = n[1] /\ s[k + 1] = n[2] /\ s[k + 2] = n[3] /\ s[k + 3] = n[4]
<1>1. k \in Int /\ 1 <= k /\ k + 3 <= Len(s)
  OBVIOUS
<1>2. PICK u : u = SubSeq(s, k, k + 3)
  OBVIOUS
<1>3. /\ u \in Seq(S) /\ Len(u) = 4
      /\ u[1] = s[k] /\ u[2] = s[k + 1] /\ u[3] = s[k + 2] /\ u[4] = s[k + 3]
  BY <1>1, <1>2
<1>4. ASSUME u[1] = n[1] /\ u[2] = n[2] /\ u[3] = n[3] /\ u[4] = n[4]
      PROVE  u = n
  <2>1. \A i \in 1 .. 4 : u[i] = n[i]
    BY <1>3, <1>4
  <2> QED
    BY <1>3, <2>1, SeqEqual
<1> QED
  BY <1>2, <1>3, <1>4

\* Find gives the first place of the needle, or 0 if it has none.
LEMMA FindIs ==
  ASSUME NEW S, NEW s \in Seq(S), NEW n \in Seq(S), NEW at, at = Find(s, n)
  PROVE  /\ at # 0 => at \in 1 .. Len(s) - Len(n) + 1 /\ SubSeq(s, at, at + Len(n) - 1) = n
         /\ \A k \in 1 .. Len(s) - Len(n) + 1 :
              SubSeq(s, k, k + Len(n) - 1) = n => at # 0 /\ at <= k
<1> DEFINE places == {i \in 1 .. Len(s) - Len(n) + 1 : SubSeq(s, i, i + Len(n) - 1) = n}
<1>1. places \subseteq Nat /\ 0 \notin places
  OBVIOUS
<1>2. at = IF places = {} THEN 0 ELSE Min(places)
  BY DEF Find
<1>3. ASSUME places # {}
      PROVE  at \in places /\ at # 0 /\ \A k \in places : at <= k
  <2> HIDE DEF places
  <2>1. Min(places) \in places /\ \A k \in places : Min(places) <= k
    BY <1>1, <1>3, MinIs
  <2> QED
    BY <1>1, <1>2, <1>3, <2>1
<1>4. at # 0 => at \in places
  <2> HIDE DEF places
  <2> QED
    BY <1>2, <1>3
<1>5. \A k \in places : at # 0 /\ at <= k
  <2> HIDE DEF places
  <2> QED
    BY <1>3
<1> QED
  BY <1>4, <1>5

\* The needle with the whole line end before it, and a place where it is.
WholeNeedle == <<"CR", "LF">> \o Header
WholeAt(s, k) == s[k] = "CR" /\ s[k + 1] = "LF" /\ s[k + 2] = "Ho" /\ s[k + 3] = "st:"

\* Where the three needles are found.
LEMMA WhereBare ==
  ASSUME NEW s \in Seq(Pieces), NEW at, at = Find(s, Header)
  PROVE  /\ at # 0 => /\ at \in 1 .. Len(s) - 1
                      /\ s[at] = "Ho" /\ s[at + 1] = "st:"
         /\ \A k \in 1 .. Len(s) - 1 :
              s[k] = "Ho" /\ s[k + 1] = "st:" => at # 0 /\ at <= k
<1>1. PICK n : n = <<"Ho", "st:">>
  OBVIOUS
<1>2. n = Header
  BY <1>1, Needles
<1>3. n \in Seq(Pieces) /\ Len(n) = 2 /\ n[1] = "Ho" /\ n[2] = "st:"
  BY <1>1 DEF Pieces
<1>4. /\ at # 0 => at \in 1 .. Len(s) - Len(n) + 1 /\ SubSeq(s, at, at + Len(n) - 1) = n
      /\ \A k \in 1 .. Len(s) - Len(n) + 1 :
           SubSeq(s, k, k + Len(n) - 1) = n => at # 0 /\ at <= k
  <2>1. at = Find(s, n)
    BY <1>2
  <2> QED
    BY <1>3, <2>1, FindIs
<1>5. Len(s) \in Nat
  OBVIOUS
<1>6. \A k \in 1 .. Len(s) - 1 : SubSeq(s, k, k + Len(n) - 1) = n <=>
        s[k] = "Ho" /\ s[k + 1] = "st:"
  <2> SUFFICES ASSUME NEW k \in 1 .. Len(s) - 1
               PROVE  SubSeq(s, k, k + Len(n) - 1) = n <=>
                        s[k] = "Ho" /\ s[k + 1] = "st:"
    OBVIOUS
  <2>1. k + Len(n) - 1 = k + 1
    BY <1>3, <1>5
  <2>2. SubSeq(s, k, k + 1) = n <=> s[k] = "Ho" /\ s[k + 1] = "st:"
    <3>1. s \in Seq(Pieces)
      OBVIOUS
    <3>2. SubSeq(s, k, k + 1) = n <=> s[k] = n[1] /\ s[k + 1] = n[2]
      BY <1>3, <3>1, TwoAt
    <3> QED
      BY <1>3, <3>2
  <2> QED
    BY <2>1, <2>2
<1>7. Len(s) - Len(n) + 1 = Len(s) - 1
  BY <1>3, <1>5
<1>8. at # 0 => at \in 1 .. Len(s) - 1
  BY <1>4, <1>7
<1> QED
  BY <1>4, <1>6, <1>7, <1>8

LEMMA WhereLine ==
  ASSUME NEW s \in Seq(Pieces), NEW at, at = Find(s, HostLine)
  PROVE  /\ at # 0 => /\ at \in 1 .. Len(s) - 2
                      /\ s[at] = "LF" /\ s[at + 1] = "Ho" /\ s[at + 2] = "st:"
         /\ \A k \in 1 .. Len(s) - 2 :
              s[k] = "LF" /\ s[k + 1] = "Ho" /\ s[k + 2] = "st:" => at # 0 /\ at <= k
<1>1. PICK n : n = <<"LF", "Ho", "st:">>
  OBVIOUS
<1>2. n = HostLine
  BY <1>1, Needles
<1>3. n \in Seq(Pieces) /\ Len(n) = 3 /\ n[1] = "LF" /\ n[2] = "Ho" /\ n[3] = "st:"
  BY <1>1 DEF Pieces
<1>4. /\ at # 0 => at \in 1 .. Len(s) - Len(n) + 1 /\ SubSeq(s, at, at + Len(n) - 1) = n
      /\ \A k \in 1 .. Len(s) - Len(n) + 1 :
           SubSeq(s, k, k + Len(n) - 1) = n => at # 0 /\ at <= k
  <2>1. at = Find(s, n)
    BY <1>2
  <2> QED
    BY <1>3, <2>1, FindIs
<1>5. Len(s) \in Nat
  OBVIOUS
<1>6. \A k \in 1 .. Len(s) - 2 : SubSeq(s, k, k + Len(n) - 1) = n <=>
        s[k] = "LF" /\ s[k + 1] = "Ho" /\ s[k + 2] = "st:"
  <2> SUFFICES ASSUME NEW k \in 1 .. Len(s) - 2
               PROVE  SubSeq(s, k, k + Len(n) - 1) = n <=>
                        s[k] = "LF" /\ s[k + 1] = "Ho" /\ s[k + 2] = "st:"
    OBVIOUS
  <2>1. k + Len(n) - 1 = k + 2
    BY <1>3, <1>5
  <2>2. SubSeq(s, k, k + 2) = n <=> s[k] = "LF" /\ s[k + 1] = "Ho" /\ s[k + 2] = "st:"
    <3>1. s \in Seq(Pieces)
      OBVIOUS
    <3>2. SubSeq(s, k, k + 2) = n <=> s[k] = n[1] /\ s[k + 1] = n[2] /\ s[k + 2] = n[3]
      BY <1>3, <3>1, ThreeAt
    <3> QED
      BY <1>3, <3>2
  <2> QED
    BY <2>1, <2>2
<1>7. Len(s) - Len(n) + 1 = Len(s) - 2
  BY <1>3, <1>5
<1>8. at # 0 => at \in 1 .. Len(s) - 2
  BY <1>4, <1>7
<1> QED
  BY <1>4, <1>6, <1>7, <1>8

LEMMA WhereWhole ==
  ASSUME NEW s \in Seq(Pieces), NEW at, at = Find(s, WholeNeedle)
  PROVE  /\ at # 0 => /\ at \in 1 .. Len(s) - 3
                      /\ s[at] = "CR" /\ s[at + 1] = "LF" /\ s[at + 2] = "Ho" /\ s[at + 3] = "st:"
         /\ \A k \in 1 .. Len(s) - 3 :
              s[k] = "CR" /\ s[k + 1] = "LF" /\ s[k + 2] = "Ho" /\ s[k + 3] = "st:" =>
                at # 0 /\ at <= k
<1>1. PICK n : n = <<"CR", "LF", "Ho", "st:">>
  OBVIOUS
<1>2. n = WholeNeedle
  BY <1>1, Needles DEF WholeNeedle
<1>3. n \in Seq(Pieces) /\ Len(n) = 4 /\ n[1] = "CR" /\ n[2] = "LF" /\ n[3] = "Ho" /\ n[4] = "st:"
  BY <1>1 DEF Pieces
<1>4. /\ at # 0 => at \in 1 .. Len(s) - Len(n) + 1 /\ SubSeq(s, at, at + Len(n) - 1) = n
      /\ \A k \in 1 .. Len(s) - Len(n) + 1 :
           SubSeq(s, k, k + Len(n) - 1) = n => at # 0 /\ at <= k
  <2>1. at = Find(s, n)
    BY <1>2
  <2> QED
    BY <1>3, <2>1, FindIs
<1>5. Len(s) \in Nat
  OBVIOUS
<1>6. \A k \in 1 .. Len(s) - 3 : SubSeq(s, k, k + Len(n) - 1) = n <=>
        s[k] = "CR" /\ s[k + 1] = "LF" /\ s[k + 2] = "Ho" /\ s[k + 3] = "st:"
  <2> SUFFICES ASSUME NEW k \in 1 .. Len(s) - 3
               PROVE  SubSeq(s, k, k + Len(n) - 1) = n <=>
                        s[k] = "CR" /\ s[k + 1] = "LF" /\ s[k + 2] = "Ho" /\ s[k + 3] = "st:"
    OBVIOUS
  <2>1. k + Len(n) - 1 = k + 3
    BY <1>3, <1>5
  <2>2. SubSeq(s, k, k + 3) = n <=>
          s[k] = "CR" /\ s[k + 1] = "LF" /\ s[k + 2] = "Ho" /\ s[k + 3] = "st:"
    <3>1. s \in Seq(Pieces)
      OBVIOUS
    <3>2. SubSeq(s, k, k + 3) = n <=>
            s[k] = n[1] /\ s[k + 1] = n[2] /\ s[k + 2] = n[3] /\ s[k + 3] = n[4]
      BY <1>3, <3>1, FourAt
    <3> QED
      BY <1>3, <3>2
  <2> QED
    BY <2>1, <2>2
<1>7. Len(s) - Len(n) + 1 = Len(s) - 3
  BY <1>3, <1>5
<1>8. at # 0 => at \in 1 .. Len(s) - 3
  BY <1>4, <1>7
<1> QED
  BY <1>4, <1>6, <1>7, <1>8

LEMMA WholeIs ==
  ASSUME NEW s \in Seq(Pieces), NEW at, at = Find(s, WholeNeedle)
  PROVE  /\ at # 0 => at \in 1 .. Len(s) - 3 /\ WholeAt(s, at)
         /\ \A k \in 1 .. Len(s) - 3 : WholeAt(s, k) => at # 0 /\ at <= k
BY WhereWhole DEF WholeAt

\* A host comes from a text that has a Host.
LEMMA HostNeedsHeader ==
  ASSUME NEW s \in Seq(Pieces), ExtractHost(s) # <<>>
  PROVE  Find(s, Header) # 0
<1>1. PICK line : line = Find(s, WholeNeedle)
  OBVIOUS
<1>2. PICK part : part = Find(s, HostLine)
  OBVIOUS
<1>3. PICK bare : bare = Find(s, Header)
  OBVIOUS
<1>4. line # 0 \/ part # 0 \/ bare # 0
  BY <1>1, <1>2, <1>3, Needles DEF ExtractHost, ValueAt, WholeNeedle
<1>5. line # 0 => line \in 1 .. Len(s) - 3 /\ s[line + 2] = "Ho" /\ s[line + 3] = "st:"
  BY <1>1, WhereWhole
<1>6. part # 0 => part \in 1 .. Len(s) - 2 /\ s[part + 1] = "Ho" /\ s[part + 2] = "st:"
  BY <1>2, WhereLine
<1>7. \A k \in 1 .. Len(s) - 1 : s[k] = "Ho" /\ s[k + 1] = "st:" => bare # 0
  BY <1>3, WhereBare
<1>8. Len(s) \in Nat
  OBVIOUS
<1>9. CASE line # 0
  <2>1. line + 2 \in 1 .. Len(s) - 1 /\ (line + 2) + 1 = line + 3
    BY <1>5, <1>8, <1>9
  <2>2. bare # 0
    BY <1>5, <1>7, <1>9, <2>1
  <2> QED
    BY <1>3, <2>2
<1>10. CASE part # 0
  <2>1. part + 1 \in 1 .. Len(s) - 1 /\ (part + 1) + 1 = part + 2
    BY <1>6, <1>8, <1>10
  <2>2. bare # 0
    BY <1>6, <1>7, <1>10, <2>1
  <2> QED
    BY <1>3, <2>2
<1> QED
  BY <1>3, <1>4, <1>9, <1>10

-----------------------------------------------------------------------------
(* The value *)

\* What is the least, or the greatest, is the minimum, or the maximum.
LEMMA MinEq ==
  ASSUME NEW S, S \subseteq Int, NEW m \in S, \A k \in S : m <= k
  PROVE  Min(S) = m
<1>1. \E x \in S : \A y \in S : x <= y
  <2>1. \A y \in S : m <= y
    BY SMT
  <2> QED
    BY <2>1
<1>2. PICK c : c = Min(S)
  OBVIOUS
<1>3. c \in S /\ \A y \in S : c <= y
  BY <1>1, <1>2 DEF Min
<1>4. c \in Int /\ m \in Int /\ c <= m /\ m <= c
  BY <1>3
<1>5. c = m
  BY <1>4
<1> QED
  BY <1>2, <1>5

LEMMA MaxEq ==
  ASSUME NEW S, S \subseteq Int, NEW m \in S, \A k \in S : k <= m
  PROVE  Max(S) = m
<1>1. \E x \in S : \A y \in S : x >= y
  <2>1. \A y \in S : m >= y
    BY SMT
  <2> QED
    BY <2>1
<1>2. PICK c : c = Max(S)
  OBVIOUS
<1>3. c \in S /\ \A y \in S : c >= y
  BY <1>1, <1>2 DEF Max
<1>4. c \in Int /\ m \in Int /\ c <= m /\ m <= c
  BY <1>3
<1>5. c = m
  BY <1>4
<1> QED
  BY <1>2, <1>5

\* A name at from..to, with blanks before it from at, and after it up to the end
\* of the line, e.
Ordered(n, at, from, to, e) == 1 <= at /\ at <= from /\ from <= to + 1 /\ to < e /\ e <= n
Blank(text, at, from, to, e) ==
  \A k \in (at .. from - 1) \union (to + 1 .. e - 1) : text[k] = "SP"
Named(text, from, to) ==
  /\ \A k \in from .. to : text[k] \notin {"CR", "LF"}
  /\ from <= to => text[from] # "SP" /\ text[to] # "SP"

\* The value of a line that is all there.
LEMMA ValueOfLine ==
  ASSUME NEW s \in Seq(Pieces), NEW at \in Int, NEW from \in Int, NEW to \in Int, NEW e \in Int,
         Ordered(Len(s), at, from, to, e), Blank(s, at, from, to, e), Named(s, from, to),
         s[e] = "CR"
  PROVE  Value(s, at) = IF e - from < HostPieces /\ from <= to THEN SubSeq(s, from, to) ELSE <<>>
<1> USE DEF Ordered, Blank, Named
<1> DEFINE starts == {i \in at .. Len(s) : s[i] # "SP"}
           first == IF starts = {} THEN Len(s) + 1 ELSE Min(starts)
           stops == {i \in first .. Len(s) : s[i] \in {"CR", "LF"}}
           last == IF stops = {} THEN Len(s) ELSE Min(stops) - 1
           letters == {i \in first .. last : s[i] # "SP"}
<1>1. Value(s, at) =
        IF Fits(last - first + 1) /\ letters # {} THEN SubSeq(s, first, Max(letters)) ELSE <<>>
  BY DEF Value
<1>2. Len(s) \in Nat
  OBVIOUS
<1>3. starts \subseteq Int
  BY <1>2
<1>4. CASE from <= to
  <2>1. from \in starts /\ \A k \in starts : from <= k
    BY <1>2, <1>4
  <2>2. first = from
    <3> HIDE DEF starts
    <3> QED
      BY <1>3, <2>1, MinEq
  <2>3. e \in stops /\ \A k \in stops : e <= k
    <3> HIDE DEF first
    <3>1. \A k \in from .. e - 1 : s[k] \notin {"CR", "LF"}
      BY <1>4
    <3> QED
      BY <1>2, <1>4, <2>2, <3>1
  <2>4. stops \subseteq Int
    <3> HIDE DEF first
    <3> QED
      BY <1>2, <2>2
  <2>5. last = e - 1
    <3>1. Min(stops) = e
      <4> HIDE DEF stops
      <4> QED
        BY <2>3, <2>4, MinEq
    <3> HIDE DEF stops
    <3> QED
      BY <2>3, <3>1
  <2>6. to \in letters /\ (\A k \in letters : k <= to) /\ letters \subseteq Int
    <3> HIDE DEF first, last
    <3> QED
      BY <1>4, <2>2, <2>5
  <2>7. Max(letters) = to
    <3> HIDE DEF letters
    <3> QED
      BY <2>6, MaxEq
  <2>8. Fits(last - first + 1) <=> e - from < HostPieces
    <3> HIDE DEF first, last
    <3>1. last - first + 1 = e - from
      BY <2>2, <2>5
    <3> QED
      BY <3>1 DEF Fits
  <2> HIDE DEF first, last, letters
  <2> QED
    BY <1>1, <1>4, <2>2, <2>6, <2>7, <2>8
<1>5. CASE ~ (from <= to)
  <2>1. e \in starts /\ \A k \in starts : e <= k
    <3>1. \A k \in at .. e - 1 : s[k] = "SP"
      BY <1>5
    <3> QED
      BY <1>2, <3>1
  <2>2. first = e
    <3> HIDE DEF starts
    <3> QED
      BY <1>3, <2>1, MinEq
  <2>3. e \in stops /\ (\A k \in stops : e <= k) /\ stops \subseteq Int
    <3> HIDE DEF first
    <3> QED
      BY <1>2, <2>2
  <2>4. last = e - 1
    <3>1. Min(stops) = e
      <4> HIDE DEF stops
      <4> QED
        BY <2>3, MinEq
    <3> HIDE DEF stops
    <3> QED
      BY <2>3, <3>1
  <2>5. letters = {}
    <3> HIDE DEF first, last
    <3> QED
      BY <2>2, <2>4
  <2> HIDE DEF letters
  <2> QED
    BY <1>1, <1>5, <2>5
<1> QED
  BY <1>4, <1>5

\* The name at from..to of a line that ends at e.
NameAt(text, from, to, e) ==
  IF e - from < HostPieces /\ from <= to THEN SubSeq(text, from, to) ELSE <<>>

\* A line that has an end in a part of the text has its own there.
LEMMA EndIsThere ==
  ASSUME NEW text, NEW line \in Int, NEW from \in Int, NEW to \in Int, NEW e \in Int,
         text[line] = "LF", text[line + 1] = "Ho", text[line + 2] = "st:",
         Blank(text, line + 3, from, to, e), Named(text, from, to),
         NEW x \in Int, line <= x, text[x] = "CR"
  PROVE  e <= x
<1>1. \A k \in from .. to : text[k] # "CR"
  BY DEF Named
<1>2. \A k \in (line + 3 .. from - 1) \union (to + 1 .. e - 1) : text[k] # "CR"
  BY DEF Blank
<1>3. x # line /\ x # line + 1 /\ x # line + 2
  OBVIOUS
<1>4. SUFFICES ASSUME x < e
               PROVE  FALSE
  OBVIOUS
<1>5. x \in line + 3 .. e - 1
  BY <1>3, <1>4
<1>6. x \in (line + 3 .. from - 1) \union (to + 1 .. e - 1) \/ x \in from .. to
  BY <1>5
<1> QED
  BY <1>1, <1>2, <1>6

\* A part of a text, piece by piece.
LEMMA PartOf ==
  ASSUME NEW S, NEW text \in Seq(S), NEW i \in Int, NEW j \in Int,
         1 <= i, i <= j, j <= Len(text), NEW s, s = SubSeq(text, i, j)
  PROVE  /\ s \in Seq(S) /\ Len(s) = j - i + 1
         /\ \A k \in 1 .. j - i + 1 : s[k] = text[k + i - 1]
OBVIOUS

\* The first whole needle of a part that begins before the line, and does not end
\* in its needle, is the line's.
LEMMA WholeOfPart ==
  ASSUME NEW text \in Seq(Pieces), NEW line \in Int, line = Find(text, HostLine),
         NEW i \in Int, NEW j \in Int, 1 <= i, i < line, line + 2 <= j, j <= Len(text),
         text[line - 1] = "CR"
  PROVE  Find(SubSeq(text, i, j), WholeNeedle) = line - i
<1>1. line # 0
  OBVIOUS
<1>2. PICK s : s = SubSeq(text, i, j)
  OBVIOUS
<1>3. /\ s \in Seq(Pieces) /\ Len(s) = j - i + 1
      /\ \A k \in 1 .. j - i + 1 : s[k] = text[k + i - 1]
  BY <1>2, PartOf
<1>4. PICK at : at = Find(text, HostLine)
  OBVIOUS
<1>5. /\ text[line] = "LF" /\ text[line + 1] = "Ho" /\ text[line + 2] = "st:"
      /\ \A k \in 1 .. Len(text) - 2 :
           text[k] = "LF" /\ text[k + 1] = "Ho" /\ text[k + 2] = "st:" => line <= k
  <2>1. /\ at # 0 => /\ at \in 1 .. Len(text) - 2
                     /\ text[at] = "LF" /\ text[at + 1] = "Ho" /\ text[at + 2] = "st:"
        /\ \A k \in 1 .. Len(text) - 2 :
             text[k] = "LF" /\ text[k + 1] = "Ho" /\ text[k + 2] = "st:" => at # 0 /\ at <= k
    BY <1>4, WhereLine
  <2>2. at = line
    BY <1>4
  <2> QED
    BY <1>1, <2>1, <2>2
<1>6. PICK w : w = Find(s, WholeNeedle)
  OBVIOUS
<1>7. /\ w # 0 => w \in 1 .. (j - i + 1) - 3 /\ WholeAt(s, w)
      /\ \A k \in 1 .. (j - i + 1) - 3 : WholeAt(s, k) => w # 0 /\ w <= k
  <2>1. s \in Seq(Pieces)
    BY <1>3
  <2>2. /\ w # 0 => w \in 1 .. Len(s) - 3 /\ WholeAt(s, w)
        /\ \A k \in 1 .. Len(s) - 3 : WholeAt(s, k) => w # 0 /\ w <= k
    BY <1>6, <2>1, WholeIs
  <2>3. Len(s) = j - i + 1
    BY <1>3
  <2> QED
    BY <2>2, <2>3
<1>8. PICK d \in Int : d = line - i
  OBVIOUS
<1>9. w # 0 /\ w <= d
  <2>1. d \in 1 .. (j - i + 1) - 3
    BY <1>8
  <2>2. d \in 1 .. j - i + 1 /\ d + i - 1 = line - 1
    BY <1>8
  <2>3. d + 1 \in 1 .. j - i + 1 /\ (d + 1) + i - 1 = line
    <3>1. d + 1 \in 1 .. j - i + 1
      BY <2>1
    <3>2. (d + 1) + i - 1 = line
      BY <1>8
    <3> QED
      BY <3>1, <3>2
  <2>4. d + 2 \in 1 .. j - i + 1 /\ (d + 2) + i - 1 = line + 1
    BY <1>8
  <2>5. d + 3 \in 1 .. j - i + 1 /\ (d + 3) + i - 1 = line + 2
    BY <1>8
  <2>6. s[d] = "CR" /\ s[d + 1] = "LF" /\ s[d + 2] = "Ho" /\ s[d + 3] = "st:"
    BY <1>3, <1>5, <2>2, <2>3, <2>4, <2>5
  <2>7. WholeAt(s, d)
    BY <2>6 DEF WholeAt
  <2> QED
    BY <1>7, <2>1, <2>7
<1>10. line <= w + i
  <2>1. w \in 1 .. (j - i + 1) - 3 /\ s[w + 1] = "LF" /\ s[w + 2] = "Ho" /\ s[w + 3] = "st:"
    BY <1>7, <1>9 DEF WholeAt
  <2>2. /\ w + 1 \in 1 .. j - i + 1 /\ (w + 1) + i - 1 = w + i
        /\ w + 2 \in 1 .. j - i + 1 /\ (w + 2) + i - 1 = (w + i) + 1
        /\ w + 3 \in 1 .. j - i + 1 /\ (w + 3) + i - 1 = (w + i) + 2
    BY <2>1
  <2>3. text[w + i] = "LF" /\ text[(w + i) + 1] = "Ho" /\ text[(w + i) + 2] = "st:"
    BY <1>3, <2>1, <2>2
  <2>4. w + i \in 1 .. Len(text) - 2
    <3>1. Len(text) \in Nat
      OBVIOUS
    <3> QED
      BY <2>1, <3>1
  <2> QED
    BY <1>5, <2>3, <2>4
<1>11. w \in Int
  BY <1>7, <1>9
<1>12. w = line - i
  BY <1>8, <1>9, <1>10, <1>11
<1> QED
  BY <1>2, <1>6, <1>12

\* The value of a part that holds the line is that of the text.
LEMMA ValueOfPart ==
  ASSUME NEW text \in Seq(Pieces), NEW line \in Int, NEW i \in Int, NEW j \in Int,
         1 <= i, i < line, j <= Len(text), NEW from \in Int, NEW to \in Int, NEW e \in Int,
         Ordered(j, line + 3, from, to, e), Blank(text, line + 3, from, to, e),
         Named(text, from, to),
         text[line - 1] = "CR", text[e] = "CR"
  PROVE  Value(SubSeq(text, i, j), line - i + 4) = NameAt(text, from, to, e)
<1>1. line + 3 <= from /\ from <= to + 1 /\ to < e /\ e <= j
  BY DEF Ordered
<1>2. PICK s : s = SubSeq(text, i, j)
  OBVIOUS
<1>3. /\ s \in Seq(Pieces) /\ Len(s) = j - i + 1
      /\ \A k \in 1 .. j - i + 1 : s[k] = text[k + i - 1]
  <2>1. i <= j
    BY <1>1
  <2> QED
    BY <1>2, <2>1, PartOf
<1>4. PICK at \in Int : at = line - i + 4
  OBVIOUS
<1>5. PICK fr \in Int : fr = from - i + 1
  OBVIOUS
<1>6. PICK tt \in Int : tt = to - i + 1
  OBVIOUS
<1>7. PICK ee \in Int : ee = e - i + 1
  OBVIOUS
<1>8. /\ 1 <= at /\ at <= fr /\ fr <= tt + 1 /\ tt < ee /\ ee <= j - i + 1
      /\ (fr <= tt <=> from <= to) /\ ee - fr = e - from
  BY <1>1, <1>4, <1>5, <1>6, <1>7
<1>9. ASSUME NEW k \in Int, at <= k, k <= ee
      PROVE  s[k] = text[k + i - 1]
  <2>1. k \in 1 .. j - i + 1
    BY <1>8, <1>9
  <2> QED
    BY <1>3, <2>1
<1>10. Blank(s, at, fr, tt, ee)
  <2> SUFFICES ASSUME NEW k \in (at .. fr - 1) \union (tt + 1 .. ee - 1)
               PROVE  s[k] = "SP"
    BY DEF Blank
  <2>1. k \in Int /\ at <= k /\ k <= ee
    BY <1>8
  <2>2. k + i - 1 \in (line + 3 .. from - 1) \union (to + 1 .. e - 1)
    BY <1>4, <1>5, <1>6, <1>7
  <2>3. text[k + i - 1] = "SP"
    BY <2>2 DEF Blank
  <2> QED
    BY <1>9, <2>1, <2>3
<1>11. \A k \in fr .. tt : s[k] \notin {"CR", "LF"}
  <2> SUFFICES ASSUME NEW k \in fr .. tt
               PROVE  s[k] \notin {"CR", "LF"}
    OBVIOUS
  <2>1. k \in Int /\ at <= k /\ k <= ee
    BY <1>8
  <2>2. k + i - 1 \in from .. to
    BY <1>5, <1>6
  <2>3. text[k + i - 1] \notin {"CR", "LF"}
    BY <2>2 DEF Named
  <2> QED
    BY <1>9, <2>1, <2>3
<1>12. fr <= tt => s[fr] # "SP" /\ s[tt] # "SP"
  <2> SUFFICES ASSUME fr <= tt
               PROVE  s[fr] # "SP" /\ s[tt] # "SP"
    OBVIOUS
  <2>1. at <= fr /\ fr <= ee /\ fr + i - 1 = from /\ at <= tt /\ tt <= ee /\ tt + i - 1 = to
    BY <1>5, <1>6, <1>8
  <2>2. text[from] # "SP" /\ text[to] # "SP"
    BY <1>8 DEF Named
  <2>3. s[fr] = text[from] /\ s[tt] = text[to]
    BY <1>9, <2>1
  <2> QED
    BY <2>2, <2>3
<1>13. Named(s, fr, tt)
  BY <1>11, <1>12 DEF Named
<1>14. s[ee] = "CR"
  <2>1. at <= ee /\ ee + i - 1 = e
    BY <1>7, <1>8
  <2>2. s[ee] = text[e]
    BY <1>9, <2>1
  <2> QED
    BY <2>2
<1>15. s \in Seq(Pieces)
  BY <1>3
<1>16. Ordered(Len(s), at, fr, tt, ee)
  BY <1>3, <1>8 DEF Ordered
<1>17. Value(s, at) = IF ee - fr < HostPieces /\ fr <= tt THEN SubSeq(s, fr, tt) ELSE <<>>
  BY <1>15, <1>16, <1>10, <1>13, <1>14, ValueOfLine
<1>18. ASSUME from <= to
       PROVE  SubSeq(s, fr, tt) = SubSeq(text, from, to)
  <2>1. PICK u : u = SubSeq(s, fr, tt)
    OBVIOUS
  <2>2. PICK v : v = SubSeq(text, from, to)
    OBVIOUS
  <2>3. 1 <= fr /\ fr <= tt /\ tt <= Len(s) /\ 1 <= from /\ to <= Len(text)
    <3>1. Len(text) \in Nat
      OBVIOUS
    <3>2. Len(s) = j - i + 1
      BY <1>3
    <3>3. fr <= tt /\ tt <= Len(s) /\ 1 <= fr
      BY <1>8, <1>18, <3>2
    <3> QED
      BY <1>1, <3>1, <3>3
  <2>4. 1 <= fr /\ fr <= tt /\ tt <= Len(s)
    BY <2>3
  <2>5. 1 <= from /\ from <= to /\ to <= Len(text)
    BY <1>18, <2>3
  <2>6. /\ u \in Seq(Pieces) /\ Len(u) = tt - fr + 1
        /\ \A k \in 1 .. tt - fr + 1 : u[k] = s[k + fr - 1]
    BY <1>15, <2>1, <2>4, PartOf
  <2>7. /\ v \in Seq(Pieces) /\ Len(v) = to - from + 1
        /\ \A k \in 1 .. to - from + 1 : v[k] = text[k + from - 1]
    BY <2>2, <2>5, PartOf
  <2>8. tt - fr + 1 = to - from + 1
    BY <1>5, <1>6
  <2>9. \A k \in 1 .. to - from + 1 : u[k] = v[k]
    <3> SUFFICES ASSUME NEW k \in 1 .. to - from + 1
                 PROVE  u[k] = v[k]
      OBVIOUS
    <3>1. /\ k + fr - 1 \in Int /\ at <= k + fr - 1 /\ k + fr - 1 <= ee
          /\ (k + fr - 1) + i - 1 = k + from - 1
      BY <1>5, <1>6, <1>8
    <3>2. s[k + fr - 1] = text[k + from - 1]
      BY <1>9, <3>1
    <3> QED
      BY <2>6, <2>7, <2>8, <3>2
  <2>10. Len(u) = Len(v) /\ \A k \in 1 .. Len(u) : u[k] = v[k]
    BY <2>6, <2>7, <2>8, <2>9
  <2>11. u = v
    BY <2>6, <2>7, <2>10, SeqEqual
  <2> QED
    BY <2>1, <2>2, <2>11
<1> QED
  BY <1>2, <1>4, <1>8, <1>17, <1>18 DEF NameAt

\* A part of a text that holds the Host line, the end of the line before it and
\* its own, has the host of the line.
LEMMA HostOfPart ==
  ASSUME NEW text \in Seq(Pieces), NEW line \in Int, line = Find(text, HostLine),
         NEW i \in Int, NEW j \in Int, 1 <= i, i < line, j <= Len(text),
         NEW x \in Int, line <= x, x <= j, text[x] = "CR",
         NEW from \in Int, NEW to \in Int, NEW e \in Int,
         Ordered(Len(text), line + 3, from, to, e), Blank(text, line + 3, from, to, e),
         Named(text, from, to), text[line - 1] = "CR", text[e] = "CR"
  PROVE  ExtractHost(SubSeq(text, i, j)) = NameAt(text, from, to, e)
<1>1. text[line] = "LF" /\ text[line + 1] = "Ho" /\ text[line + 2] = "st:"
  <2>1. line # 0
    OBVIOUS
  <2> QED
    BY <2>1, WhereLine, Zenon
<1>2. e <= j
  <2>1. e <= x
    BY <1>1, EndIsThere
  <2> QED
    BY <2>1
<1>3. Ordered(j, line + 3, from, to, e) /\ line + 2 <= j /\ text[line - 1] = "CR"
  BY <1>2 DEF Ordered
<1>4. Find(SubSeq(text, i, j), WholeNeedle) = line - i
  BY <1>3, WholeOfPart
<1>5. Value(SubSeq(text, i, j), line - i + 4) = NameAt(text, from, to, e)
  <2>1. 1 <= i /\ i < line /\ j <= Len(text)
    OBVIOUS
  <2>2. Blank(text, line + 3, from, to, e) /\ Named(text, from, to)
    OBVIOUS
  <2>3. text[line - 1] = "CR" /\ text[e] = "CR"
    OBVIOUS
  <2> QED
    BY <1>3, <2>1, <2>2, <2>3, ValueOfPart, SMTT(60)
<1>6. PICK s : s = SubSeq(text, i, j)
  OBVIOUS
<1>7. ValueAt(s) = line - i + 4 /\ line - i + 4 # 0
  <2>1. line - i # 0 /\ line - i + 4 # 0
    OBVIOUS
  <2> QED
    BY <1>4, <1>6, <2>1 DEF ValueAt, WholeNeedle
<1>8. ExtractHost(s) = Value(s, line - i + 4)
  BY <1>7 DEF ExtractHost
<1> QED
  BY <1>5, <1>6, <1>8

-----------------------------------------------------------------------------
(* The host *)

\* Max, where there is one.
LEMMA MaxIs ==
  ASSUME NEW a \in Int, NEW b \in Int, NEW S, S \subseteq a .. b, S # {}
  PROVE  Max(S) \in S /\ \A k \in S : k <= Max(S)
<1>1. PICK T : T = {b - k : k \in S}
  OBVIOUS
<1>2. T \subseteq Nat /\ T # {}
  <2>1. \A k \in S : b - k \in Nat
    OBVIOUS
  <2>2. T # {}
    BY <1>1
  <2> QED
    BY <1>1, <2>1, <2>2
<1>3. PICK t \in T : \A u \in T : t <= u
  BY <1>2, Least
<1>4. PICK m \in S : t = b - m
  BY <1>1, <1>3
<1>5. \A k \in S : m >= k
  <2> SUFFICES ASSUME NEW k \in S
               PROVE  m >= k
    OBVIOUS
  <2>1. b - k \in T /\ k \in Int /\ m \in Int
    BY <1>1
  <2>2. b - m <= b - k
    BY <1>3, <1>4, <2>1
  <2> QED
    BY <2>1, <2>2
<1>6. Max(S) \in S /\ \A k \in S : Max(S) >= k
  BY <1>5 DEF Max
<1>7. \A k \in S : k \in Int
  OBVIOUS
<1> QED
  BY <1>6, <1>7

\* A value is of the pieces of its text, and fits.
LEMMA ValueFits ==
  ASSUME NEW S, NEW s \in Seq(S), NEW at \in Int, 1 <= at
  PROVE  Value(s, at) \in Seq(S) /\ Len(Value(s, at)) < HostPieces
<1> DEFINE starts == {i \in at .. Len(s) : s[i] # "SP"}
           first == IF starts = {} THEN Len(s) + 1 ELSE Min(starts)
           stops == {i \in first .. Len(s) : s[i] \in {"CR", "LF"}}
           last == IF stops = {} THEN Len(s) ELSE Min(stops) - 1
           letters == {i \in first .. last : s[i] # "SP"}
<1>1. Value(s, at) =
        IF Fits(last - first + 1) /\ letters # {} THEN SubSeq(s, first, Max(letters)) ELSE <<>>
  BY DEF Value
<1>2. Len(s) \in Nat /\ HostPieces \in Nat /\ 0 < HostPieces
  BY PayloadAssumption
<1>3. first \in Int /\ 1 <= first
  <2>1. starts \subseteq Nat /\ \A k \in starts : k \in Int /\ 1 <= k
    BY <1>2
  <2> HIDE DEF starts
  <2>2. CASE starts = {}
    BY <1>2, <2>2
  <2>3. CASE starts # {}
    <3>1. Min(starts) \in starts
      BY <2>1, <2>3, MinIs
    <3>2. PICK m : m = Min(starts)
      OBVIOUS
    <3>3. m \in Int /\ 1 <= m
      BY <2>1, <3>1, <3>2
    <3>4. first = m
      BY <2>3, <3>2
    <3> QED
      BY <1>2, <3>3, <3>4
  <2> QED
    BY <2>2, <2>3
<1> HIDE DEF first
<1>4. last \in Int /\ last <= Len(s)
  <2>1. stops \subseteq Nat /\ \A k \in stops : k \in Int /\ k <= Len(s)
    BY <1>2, <1>3
  <2> HIDE DEF stops
  <2>2. CASE stops = {}
    BY <1>2, <2>2
  <2>3. CASE stops # {}
    <3>1. Min(stops) \in stops
      BY <2>1, <2>3, MinIs
    <3>2. PICK m : m = Min(stops)
      OBVIOUS
    <3>3. m \in Int /\ m <= Len(s)
      BY <2>1, <3>1, <3>2
    <3>4. last = m - 1
      BY <2>3, <3>2
    <3> QED
      BY <1>2, <3>3, <3>4
  <2> QED
    BY <2>2, <2>3
<1> HIDE DEF last
<1>5. CASE Fits(last - first + 1) /\ letters # {}
  <2>1. letters \subseteq first .. last
    OBVIOUS
  <2> HIDE DEF letters
  <2>2. PICK m : m = Max(letters)
    OBVIOUS
  <2>3. m \in first .. last
    BY <1>3, <1>4, <1>5, <2>1, <2>2, MaxIs
  <2>4. m \in Int /\ 1 <= first /\ first <= m /\ m <= Len(s)
    BY <1>3, <1>4, <1>2, <2>3
  <2>5. PICK u : u = SubSeq(s, first, m)
    OBVIOUS
  <2>6. u \in Seq(S) /\ Len(u) = m - first + 1
    BY <1>3, <2>4, <2>5, PartOf
  <2>7. m - first + 1 < HostPieces
    <3>1. last - first + 1 < HostPieces
      BY <1>5 DEF Fits
    <3> QED
      BY <1>2, <1>3, <1>4, <2>3, <3>1
  <2>8. Value(s, at) = u
    BY <1>1, <1>5, <2>2, <2>5
  <2> QED
    BY <2>6, <2>7, <2>8
<1>6. CASE ~ (Fits(last - first + 1) /\ letters # {})
  <2>1. PICK v \in Seq(S) : v = <<>> /\ Len(v) = 0
    BY EmptySeq
  <2> HIDE DEF letters
  <2>2. Value(s, at) = v
    BY <1>1, <1>6, <2>1
  <2> QED
    BY <1>2, <2>1, <2>2
<1> QED
  BY <1>5, <1>6

\* A host is of the pieces of its text, and fits.
LEMMA HostFits ==
  ASSUME NEW S, NEW s \in Seq(S), s \in Seq(Pieces)
  PROVE  ExtractHost(s) \in Seq(S) /\ Len(ExtractHost(s)) < HostPieces
<1>1. CASE ValueAt(s) = 0
  <2>1. PICK v \in Seq(S) : v = <<>> /\ Len(v) = 0
    BY EmptySeq
  <2>2. ExtractHost(s) = v
    BY <1>1, <2>1 DEF ExtractHost
  <2> QED
    BY <2>1, <2>2, PayloadAssumption
<1>2. CASE ValueAt(s) # 0
  <2>1. PICK at : at = ValueAt(s)
    OBVIOUS
  <2>2. at \in Int /\ 1 <= at
    <3>1. PICK line : line = Find(s, WholeNeedle)
      OBVIOUS
    <3>2. PICK part : part = Find(s, HostLine)
      OBVIOUS
    <3>3. PICK bare : bare = Find(s, Header)
      OBVIOUS
    <3>4. at = IF line # 0 THEN line + 4 ELSE IF part # 0 THEN part + 3
               ELSE IF bare # 0 THEN bare + 2 ELSE 0
      BY <2>1, <3>1, <3>2, <3>3, Needles DEF ValueAt, WholeNeedle
    <3>5. line # 0 => line \in 1 .. Len(s) - 3
      BY <3>1, WholeIs
    <3>6. part # 0 => part \in 1 .. Len(s) - 2
      BY <3>2, WhereLine
    <3>7. bare # 0 => bare \in 1 .. Len(s) - 1
      BY <3>3, WhereBare
    <3> QED
      BY <1>2, <2>1, <3>4, <3>5, <3>6, <3>7
  <2>3. ExtractHost(s) = Value(s, at)
    BY <1>2, <2>1 DEF ExtractHost
  <2> QED
    BY <2>2, <2>3, ValueFits
<1> QED
  BY <1>1, <1>2

\* What a frame has of the text.
LEMMA TextOfFrame ==
  ASSUME conv \in Conversations, NEW f \in Frames
  PROVE  f.text \in Seq(Pieces) /\ f.text \in Seq(PieceSet)
<1>1. conv.text \in Seq(STRING)
  BY PacketAssumption
<1>2. conv.text \in Seq(Pieces)
  BY <1>1 DEF Pieces
<1>3. conv.text \in Seq(PieceSet)
  <2>1. PICK t : t = conv.text
    OBVIOUS
  <2>2. t \in Seq(STRING) /\ PieceSet = {t[i] : i \in DOMAIN t}
    BY <1>1, <2>1 DEF PieceSet
  <2>3. DOMAIN t = 1 .. Len(t) /\ Len(t) \in Nat /\ t \in [1 .. Len(t) -> PieceSet]
    BY <2>2
  <2>4. t \in Seq(PieceSet)
    BY <2>3, ListOf
  <2> QED
    BY <2>1, <2>4
<1>4. CASE f.text = <<>>
  BY <1>4
<1>5. CASE f.text \in Texts
  <2>1. PICK i, j \in 1 .. Len(conv.text) : f.text = SubSeq(conv.text, i, j)
    BY <1>5 DEF Texts
  <2> QED
    BY <1>2, <1>3, <2>1
<1> QED
  BY <1>4, <1>5, FrameParts

\* What a segment that holds the line gives is the host of the conversation.
LEMMA HostOfSegment ==
  ASSUME conv \in Conversations, NEW f \in Frames, HoldsLine(f), HostOf(f) # NoName
  PROVE  HostOf(f) = conv.host
<1>1. PICK text : text = conv.text
  OBVIOUS
<1>2. text \in Seq(Pieces)
  <2>1. conv.text \in Seq(STRING)
    BY PacketAssumption
  <2> QED
    BY <1>1, <2>1 DEF Pieces
<1>3. PICK line : line = Find(text, HostLine)
  OBVIOUS
<1>4. PICK i, j \in 1 .. Len(text) :
        f.text = SubSeq(text, i, j) /\ i < line /\ \E x \in line .. j : text[x] = "CR"
  BY <1>1, <1>3, Zenon DEF HoldsLine, LineAt
<1>5. PICK x \in line .. j : text[x] = "CR"
  BY <1>4
<1>6. line \in Int /\ line # 0
  <2>1. line # 0 => line \in 1 .. Len(text) - 2
    BY <1>2, <1>3, WhereLine
  <2>2. CASE line = 0
    BY <1>4, <2>2
  <2> QED
    BY <2>1, <2>2
<1>7. PICK from, to, e \in 1 .. Len(text) : HostStands(conv, from, to, e)
  BY <1>1, <1>3, <1>6, PacketAssumption
<1>8. /\ text[line - 1] = "CR" /\ text[e] = "CR"
      /\ Ordered(Len(text), line + 3, from, to, e)
      /\ conv.host = IF e - from < HostPieces THEN SubSeq(text, from, to) ELSE NoName
  BY <1>1, <1>3, <1>6, <1>7 DEF HostStands, Ordered
<1>9. Blank(text, line + 3, from, to, e) /\ Named(text, from, to)
  BY <1>1, <1>3, <1>7 DEF HostStands, Blank, Named
<1>10. from \in Int /\ to \in Int /\ e \in Int /\ i \in Int /\ j \in Int /\ x \in Int
       /\ 1 <= i /\ j <= Len(text) /\ line <= x /\ x <= j /\ i < line
  BY <1>2, <1>4, <1>5, <1>6, <1>7
<1>11. ExtractHost(SubSeq(text, i, j)) = NameAt(text, from, to, e)
  BY <1>2, <1>3, <1>5, <1>6, <1>8, <1>9, <1>10, HostOfPart
<1>12. HostOf(f) = NameAt(text, from, to, e)
  BY <1>4, <1>11 DEF HostOf
<1> QED
  BY <1>8, <1>12 DEF NameAt, NoName

\* What is known of the host that is kept.
HostInv == host \in Seq(PieceSet) /\ Len(host) < HostPieces /\ HostIsOwn

LEMMA HostBegins == Init => HostInv
<1> SUFFICES ASSUME Init
             PROVE  HostInv
  OBVIOUS
<1>1. PICK v \in Seq(PieceSet) : v = <<>> /\ Len(v) = 0
  BY EmptySeq
<1>2. host = v /\ host = NoName
  BY <1>1 DEF Init, NoName
<1> QED
  BY <1>1, <1>2, PayloadAssumption DEF HostInv, HostIsOwn

LEMMA HostStep == CallInv /\ HostInv /\ [Next]_vars => HostInv'
<1> SUFFICES ASSUME CallInv, HostInv, [Next]_vars
             PROVE  HostInv'
  OBVIOUS
<1>1. CASE Next
  <2>1. PICK f \in Frames : Packet(f)
    BY <1>1 DEF Next
  <2>2. conv \in Conversations /\ conv' = conv /\ misled \in BOOLEAN
    BY <2>1 DEF CallInv, Packet
  <2>3. PieceSet' = PieceSet
    BY <2>2 DEF PieceSet
  <2>4. /\ host' = IF host = NoName THEN HostOf(f) ELSE host
        /\ misled' = (misled \/ (HasHost(f) /\ ~ HoldsLine(f)))
    BY <2>1 DEF Packet
  <2>5. CASE host # NoName
    <3>1. host' = host
      BY <2>4, <2>5
    <3>2. misled => misled'
      BY <2>4
    <3> QED
      BY <2>2, <2>3, <2>5, <3>1, <3>2 DEF HostInv, HostIsOwn
  <2>6. CASE host = NoName /\ HostOf(f) = NoName
    <3>1. host' = host
      BY <2>4, <2>6
    <3> QED
      BY <2>3, <2>6, <3>1 DEF HostInv, HostIsOwn
  <2>7. CASE host = NoName /\ HostOf(f) # NoName
    <3>1. f.text \in Seq(Pieces) /\ f.text \in Seq(PieceSet)
      BY <2>2, TextOfFrame
    <3>2. PICK h : h = HostOf(f)
      OBVIOUS
    <3>3. h = ExtractHost(f.text) /\ h # <<>>
      BY <2>7, <3>2 DEF HostOf, NoName
    <3>4. h \in Seq(PieceSet) /\ Len(h) < HostPieces
      BY <3>1, <3>3, HostFits
    <3>5. HasHost(f)
      BY <3>1, <3>3, HostNeedsHeader DEF HasHost
    <3>6. h = conv.host \/ misled'
      <4>1. CASE HoldsLine(f)
        BY <2>2, <2>7, <3>2, <4>1, HostOfSegment
      <4>2. CASE ~ HoldsLine(f)
        BY <2>4, <3>5, <4>2
      <4> QED
        BY <4>1, <4>2
    <3>7. host' = h
      BY <2>4, <2>7, <3>2
    <3> QED
      BY <2>2, <2>3, <3>4, <3>6, <3>7 DEF HostInv, HostIsOwn
  <2> QED
    BY <2>5, <2>6, <2>7
<1>2. CASE UNCHANGED vars
  BY <1>2 DEF vars, HostInv, HostIsOwn, PieceSet
<1> QED
  BY <1>1, <1>2

\* However the request is cut up, repeated and reordered, the host its flow keeps
\* is that of its Host line; but for segments that hold only a part of the line.
THEOREM HostCorrect == Spec => []HostIsOwn
<1>1. HostInv => HostIsOwn
  BY DEF HostInv
<1> QED
  BY <1>1, CallsCorrect, HostBegins, HostStep, PTL DEF Spec

\* Whatever comes, the call has a class and a direction, and the host that is kept
\* fits its field.
THEOREM PacketTypes == Spec => []TypeOK
<1>1. CallInv /\ HostInv => TypeOK
  BY DEF CallInv, HostInv, TypeOK
<1> QED
  BY <1>1, CallsCorrect, HostBegins, HostStep, PTL DEF Spec
=============================================================================
