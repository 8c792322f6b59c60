--------------------------------- MODULE Packet ---------------------------------
(***************************************************************************)
(* packet_handler in main.c, up to its call of flow_table_touch: one        *)
(* conversation as the capture sees it, its packets cut short, fragmented,  *)
(* repeated and reordered, and what the agent makes of each of them.  Who   *)
(* the packet belongs to is the matter of Attribution.                      *)
(***************************************************************************)
EXTENDS Classes, Payload

CONSTANTS
  Conversations,  \* link type, ethertype, protocol, addresses, ports, payload
  OwnAddrs,       \* addresses of the interfaces
  Junk,           \* what is found where the ports are not
  Pads            \* bytes a frame has more than its headers, or less if negative

\* The opener of a conversation, and the other end.
Ends == {"a", "b"}
Other(end) == IF end = "a" THEN "b" ELSE "a"

VARIABLES
  conv,      \* the conversation
  localIps,  \* g_app.local_ips
  call,      \* what flow_table_touch was called with last
  told,      \* class and direction of the last packet without a name, by source
  host,      \* the host of the opener's entry in the table
  misled     \* history: a segment had a Host, but not all of the Host line

vars == <<conv, localIps, call, told, host, misled>>

NoCall == [from |-> "-"]
Nothing == [class |-> NoClass, dir |-> "-"]

\* local_ip_list_load keeps all addresses of the interfaces, once each; it may
\* fail, and the agent goes on with none.
Init ==
  /\ conv \in Conversations
  /\ localIps \in {OwnAddrs, {}}
  /\ call = NoCall
  /\ told = [end \in Ends |-> Nothing]
  /\ host = NoName
  /\ misled = FALSE

-----------------------------------------------------------------------------
(* Frames: the shape of the headers, where it varies, and the payload, a part *)
(* of the opener's text or the first bytes of its ClientHello.                *)

Plain == [ihl |-> 20, doff |-> 20, later |-> FALSE, syn |-> FALSE, ack |-> TRUE,
          pad |-> 0, text |-> <<>>, hello |-> 0, from |-> "a"]

\* Bare headers, some of which no packet should have; a later fragment of a
\* datagram has none of the transport's, and any flags in their place.
Shapes ==
  {f \in [ihl : {16, 20, 24}, doff : {16, 20, 32}, later : BOOLEAN, syn : BOOLEAN, ack : BOOLEAN,
          pad : Pads, text : {<<>>}, hello : {0}, from : Ends] :
     f.later \/ (~ f.syn /\ f.ack)}

\* The handshake: the opener sends a SYN, the other end SYN and ACK.
Openings ==
  {[Plain EXCEPT !.syn = TRUE, !.ack = FALSE], [Plain EXCEPT !.syn = TRUE, !.from = "b"]}

\* A ClientHello has a session id, cipher suites and compression methods of the
\* lengths sid, cs and comp, and extensions that it says are extLen bytes; an
\* extension is ln bytes of a list of names, each of a type (nt) and a length (nln).
Number(n) == <<n \div 256, n % 256>>
Bytes(n, byte) == [k \in 1 .. n |-> byte]
Fit(s, n) == [k \in 1 .. n |-> IF k \in DOMAIN s THEN s[k] ELSE 0]
NameBytes(name) == <<name.nt>> \o Number(name.nln) \o Bytes(name.nln, name.letter)
ListBytes(names) == FlattenSeq([j \in DOMAIN names |-> NameBytes(names[j])])
ExtBytes(x) ==
  Number(x.typ) \o Number(x.ln) \o Fit(Number(x.ln) \o ListBytes(x.names), x.ln)
HelloBytes(h) ==
  <<h.sid>> \o Bytes(h.sid, 7) \o Number(h.cs) \o Bytes(h.cs, 7) \o <<h.comp>> \o Bytes(h.comp, 7)
    \o Number(h.extLen) \o FlattenSeq([i \in DOMAIN h.exts |-> ExtBytes(h.exts[i])])

Texts == {SubSeq(conv.text, i, j) : i, j \in 1 .. Len(conv.text)}
Cuts == {8} \union Fixed .. Fixed + Len(HelloBytes(conv.hello))
Segments ==
  {[Plain EXCEPT !.text = t] : t \in Texts} \union {[Plain EXCEPT !.hello = n] : n \in Cuts}

Frames == Shapes \union (IF conv.proto = TCP THEN Openings \union Segments ELSE {})

-----------------------------------------------------------------------------
(* Headers *)

\* parse_l2_offset: the bytes it reads, and where the network header is.
LinkHeader == [EN10MB |-> 14, SLL |-> 16, SLL2 |-> 20, RAW |-> 1]
L3At == [EN10MB |-> 14, SLL |-> 16, SLL2 |-> 20, RAW |-> 0]

FixedHeader == [IP |-> 20, IPV6 |-> 40]

\* Where the transport header is said to be.
\* (Mutant: the options are forgotten.)
L4AtFixed(f) == L3At[conv.link] + FixedHeader[conv.type]
L4At(f) == L3At[conv.link] + (IF conv.type = "IP" THEN f.ihl ELSE FixedHeader["IPV6"])

\* The part of the transport header that must be there, and all of it.
PortHeader ==
  [p \in {TCP, UDP, SCTP, ICMP, ICMP6} |-> CASE p = TCP -> 20 [] p = SCTP -> 12 [] OTHER -> 8]
Handled == DOMAIN PortHeader \union DOMAIN ByProto
HeaderLen == IF conv.proto \in DOMAIN PortHeader THEN PortHeader[conv.proto] ELSE 0
PayloadAt(f) == L4At(f) + (IF conv.proto = TCP THEN f.doff ELSE HeaderLen)

\* The frame as it is on the wire, and the bytes captured of it.
Real(f) == L3At[conv.link] + (IF conv.type = "IP" THEN f.ihl ELSE 40)
CapLen(f) ==
  Real(f) + (IF conv.proto = TCP THEN f.doff ELSE HeaderLen)
    + 3 * Len(f.text) + f.hello + f.pad

\* The early returns of packet_handler.
LinkIsRead(f) == conv.link \in DOMAIN LinkHeader /\ CapLen(f) >= LinkHeader[conv.link]
NetworkIsRead(f) ==
  /\ conv.type \in DOMAIN FixedHeader
  /\ CapLen(f) >= L3At[conv.link] + FixedHeader[conv.type]
  /\ conv.type = "IP" => f.ihl >= 20 /\ CapLen(f) >= L4At(f)
TransportIsRead(f) ==
  /\ conv.proto \in Handled
  /\ CapLen(f) >= L4At(f) + HeaderLen
  /\ conv.proto = TCP => f.doff >= 20 /\ CapLen(f) >= PayloadAt(f)
Accepted(f) == LinkIsRead(f) /\ NetworkIsRead(f) /\ TransportIsRead(f)

-----------------------------------------------------------------------------
(* What the packet is accounted to *)

Key(end, ports) ==
  [src |-> conv.addr[end], dst |-> conv.addr[Other(end)],
   sport |-> ports[end], dport |-> ports[Other(end)], proto |-> conv.proto]

\* The ports are wherever the header is said to be.
Ports(f) ==
  IF conv.proto \notin {TCP, UDP, SCTP} THEN [end \in Ends |-> 0]
  ELSE IF f.later \/ L4At(f) # Real(f) THEN Junk
  ELSE conv.ports

\* The names: only TCP is searched, and on port 443 only for SNI.
HasPayload(f) == conv.proto = TCP /\ CapLen(f) > PayloadAt(f)
Sni(f) ==
  IF HasPayload(f) /\ HasPort(Key(f.from, Ports(f)), 443) /\ f.hello > 0
    THEN ExtractSni(SubSeq(HelloBytes(conv.hello), 1, f.hello - Fixed), f.hello) ELSE NoName
HostOf(f) == IF HasPayload(f) THEN ExtractHost(f.text) ELSE NoName

\* detect_direction
Direction(k) ==
  IF k.src \in localIps THEN IF k.dst \in localIps THEN "internal" ELSE "out"
  ELSE IF k.dst \in localIps THEN "in" ELSE "transit"

\* A SYN without an ACK, and every packet that is not TCP.
NewConnection(f) == conv.proto = TCP => f.syn /\ ~ f.ack

Touch(f) ==
  LET k == Key(f.from, Ports(f))
      sni == Sni(f)
  IN  [from |-> f.from, later |-> f.later, key |-> k, dir |-> Direction(k),
       class |-> ClassTag(k, conv.icmp[f.from], sni, HostOf(f)),
       sni |-> sni, hello |-> f.hello, conn |-> NewConnection(f)]

\* The Host line of the opener's text, and whether a segment holds it, with the
\* ends of the line before and of its own.
HostLine == <<"LF">> \o Header
LineAt == Find(conv.text, HostLine)
HoldsLine(f) ==
  \E i, j \in 1 .. Len(conv.text) :
    /\ f.text = SubSeq(conv.text, i, j)
    /\ i < LineAt
    /\ \E e \in LineAt .. j : conv.text[e] = "CR"
HasHost(f) == Find(f.text, Header) # 0

Packet(f) ==
  /\ Accepted(f)
  /\ call' = Touch(f)
  /\ told' = IF call'.sni = NoName /\ HostOf(f) = NoName /\ ~ f.later
               THEN [told EXCEPT ![f.from] = [class |-> call'.class, dir |-> call'.dir]]
               ELSE told
  /\ host' = IF host = NoName THEN HostOf(f) ELSE host
  /\ misled' = (misled \/ (HasHost(f) /\ ~ HoldsLine(f)))
  /\ UNCHANGED <<conv, localIps>>

Next == \E f \in Frames : Packet(f)

Spec == Init /\ [][Next]_vars

-----------------------------------------------------------------------------
(* What is known of the conversations *)

\* The Host line, which comes after a whole line end, has its name at from..to,
\* with blanks around it, and ends at e.
HostStands(c, from, to, e) ==
  LET at == Find(c.text, HostLine)
  IN  /\ at > 1 /\ c.text[at - 1] = "CR"
      /\ at + 3 <= from /\ from <= to + 1 /\ to < e /\ e <= Len(c.text)
      /\ \A k \in (at + 3 .. from - 1) \union (to + 1 .. e - 1) : c.text[k] = "SP"
      /\ \A k \in from .. to : c.text[k] \notin {"CR", "LF"}
      /\ from <= to => c.text[from] # "SP" /\ c.text[to] # "SP"
      /\ c.text[e] = "CR"
      /\ c.host = IF e - from < HostPieces THEN SubSeq(c.text, from, to) ELSE NoName

\* Packets come from hosts, not from groups, and what has no ports has none;
\* host says what the texts hold.
ASSUME PacketAssumption ==
  /\ Pads \subseteq Int
  /\ \A c \in Conversations :
       /\ c.addr["a"] \notin Multicast
       /\ c.proto \in {TCP, UDP, SCTP} \/ c.ports = [end \in Ends |-> 0]
       /\ c.text \in Seq(STRING)
       /\ Find(c.text, HostLine) # 0 =>
            \E from, to, e \in 1 .. Len(c.text) : HostStands(c, from, to, e)

-----------------------------------------------------------------------------
(* Properties *)

Called == call # NoCall

PieceSet == {conv.text[i] : i \in DOMAIN conv.text}
TypeOK ==
  /\ conv \in Conversations
  /\ localIps \in {OwnAddrs, {}}
  /\ misled \in BOOLEAN
  /\ host \in Seq(PieceSet) /\ Len(host) < HostPieces
  /\ Called => /\ call.class # NoClass
               /\ call.dir \in {"in", "out", "internal", "transit"}

\* A packet is accounted to its own conversation, in its own direction, options
\* or not; but for the later fragments of a datagram, which have no ports and
\* are accounted to what is found in their place.
OwnKey == Called => call.key = Key(call.from, conv.ports) \/ call.later

\* Without a name to tell them apart, the two directions of a conversation have
\* one class, whichever side is the server, and opposite directions.
Mirror == [in |-> "out", out |-> "in", internal |-> "internal", transit |-> "transit"]
BothWaysAlike ==
  told["a"] # Nothing /\ told["b"] # Nothing =>
    /\ conv.proto \in {ICMP, ICMP6} \/ conv.addr["b"] \in Multicast
         \/ told["a"].class = told["b"].class
    /\ told["a"].dir = Mirror[told["b"].dir]

\* However the request is cut up, repeated and reordered, the host its flow
\* keeps is that of its Host line, and not that of another header or of the
\* body; but for segments that hold a Host, and only a part of the line.
HostIsOwn == host # NoName => host = conv.host \/ misled

\* What a ClientHello says, whatever its bytes: its names are those of type
\* host_name that fit, in a server_name extension, up to the first name that is
\* too long for its extension and the first extension too long for extLen.
ExtEnd(h, i) == MapThenSumSet(LAMBDA k : 4 + h.exts[k].ln, 1 .. i)
NameEnd(x, j) == 2 + MapThenSumSet(LAMBDA k : 3 + x.names[k].nln, 1 .. j)
Names(h) ==
  {n \in UNION {{i} \X DOMAIN h.exts[i].names : i \in DOMAIN h.exts} :
     LET x == h.exts[n[1]]
         name == x.names[n[2]]
     IN  /\ ExtEnd(h, n[1]) <= h.extLen
         /\ x.typ = 0 /\ NameEnd(x, n[2]) <= x.ln
         /\ name.nt = 0 /\ name.nln \in 1 .. OutSz - 1}
FirstName(h) ==
  IF Names(h) = {} THEN NoName
  ELSE LET first == CHOOSE n \in Names(h) :
             \A m \in Names(h) : n[1] < m[1] \/ (n[1] = m[1] /\ n[2] <= m[2])
           name == h.exts[first[1]].names[first[2]]
       IN  Bytes(name.nln, name.letter)
Whole(h) == Fixed + 1 + h.sid + 2 + h.cs + 1 + h.comp + 2 + h.extLen

\* A segment with all of a ClientHello gives its first name; one that holds less
\* of it, and one whose lengths do not fit into one another, gives no other name
\* and none that is cut.
SniIsWhole ==
  Called /\ call.hello > 0 /\ HasPort(call.key, 443) =>
    call.sni = IF call.hello >= Whole(conv.hello) THEN FirstName(conv.hello) ELSE NoName
=============================================================================
