-------------------------------- MODULE MCPacket --------------------------------
(* Conversations of each kind the handler tells apart, on every link type.    *)
EXTENDS Packet

\* A request whose X-Forwarded-Host comes before its Host, with a Host in the
\* body; one with blanks around the name; one with a name that is too long.
Forwarded == <<"get", "CR", "LF", "x-for-", "Ho", "st:", "SP", "else", "CR", "LF", "Ho", "st:",
               "SP", "www", "com", "CR", "LF", "CR", "LF", "Ho", "st:", "body">>
Blanks == <<"get", "CR", "LF", "Ho", "st:", "www", "com", "SP", "CR", "LF">>
TooLong == <<"get", "CR", "LF", "Ho", "st:", "www", "com", "org", "net", "CR", "LF">>

\* ClientHellos of two extensions: one of another type, and server names of
\* which one is empty, just short enough, one letter too long, of another type,
\* or longer than its extension.  The extensions may be said to be longer or
\* shorter than they are.
Name(nt, n, letter) == [nt |-> nt, nln |-> n, letter |-> letter]
Ext(typ, ln, names) == [typ |-> typ, ln |-> ln, names |-> names]
SomeExts ==
  {Ext(10, 6, <<Name(0, 1, 1)>>), Ext(0, 1, <<>>), Ext(0, 12, <<Name(0, 0, 2), Name(0, 3, 3)>>),
   Ext(0, 15, <<Name(0, 4, 4), Name(0, 2, 5), Name(0, 1, 6)>>), Ext(0, 6, <<Name(0, 2, 8)>>),
   Ext(0, 11, <<Name(1, 2, 9), Name(0, 1, 10)>>)}
Sum(exts) == MapThenSumSet(LAMBDA i : 4 + exts[i].ln, DOMAIN exts)
Hello(exts, extLen) == [sid |-> 2, cs |-> 4, comp |-> 1, exts |-> exts, extLen |-> extLen]
GoodHello == Hello(<<Ext(10, 2, <<>>), Ext(0, 8, <<Name(0, 3, 1)>>)>>, 18)
Pairs == {<<x, Ext(0, 12, <<Name(0, 0, 2), Name(0, 3, 3)>>)>> : x \in SomeExts}
SomeHellos ==
  {Hello(exts, Sum(exts)) : exts \in Pairs}
    \union {Hello(exts, Sum(exts) + more) : exts \in {p \in Pairs : p[1].typ = 10}, more \in {-1, 1}}

Of(link, type, proto, addr, ports, text, value) ==
  [link |-> link, type |-> type, proto |-> proto, text |-> text, host |-> value,
   hello |-> GoodHello, icmp |-> [a |-> 8, b |-> 0],
   addr |-> [a |-> addr[1], b |-> addr[2]], ports |-> [a |-> ports[1], b |-> ports[2]]]

Web == Of("EN10MB", "IP", TCP, <<"r1", "h1">>, <<40000, 80>>, Forwarded, <<"www", "com">>)
Tls == Of("SLL", "IPV6", TCP, <<"h1", "r1">>, <<40000, 443>>, <<>>, <<>>)
Bare(link, type, proto, addr, ports) ==
  Of(link, type, proto, addr, ports, <<>>, <<>>)

SomeConversations ==
  {Web, Tls,
   [Web EXCEPT !.text = Blanks, !.ports.b = 5432, !.link = "RAW"],
   [Web EXCEPT !.text = TooLong, !.host = <<>>, !.link = "SLL2"],
   Bare("EN10MB", "other", TCP, <<"h1", "r1">>, <<40000, 22>>),
   Bare("RAW", "other", UDP, <<"h1", "r1">>, <<40000, 22>>),
   Bare("other", "IP", UDP, <<"h1", "r1">>, <<40000, 22>>),
   Bare("SLL2", "IP", UDP, <<"r1", "h1">>, <<5353, 443>>),
   Bare("EN10MB", "IP", UDP, <<"h1", "m1">>, <<40000, 1900>>),
   Bare("SLL", "IP", UDP, <<"h1", "h2">>, <<51820, 443>>),
   Bare("EN10MB", "IPV6", ICMP6, <<"h1", "m1">>, <<0, 0>>),
   Bare("EN10MB", "IP", ICMP, <<"h1", "r1">>, <<0, 0>>),
   Bare("RAW", "IPV6", SCTP, <<"r1", "r2">>, <<5000, 5001>>),
   Bare("SLL", "IP", 47, <<"h1", "r1">>, <<0, 0>>),
   Bare("SLL", "IP", 4, <<"h1", "r1">>, <<0, 0>>)}
    \union {[Tls EXCEPT !.hello = h] : h \in SomeHellos}
SomeJunk == [a |-> 53, b |-> 1]
SomePads == {-31, -9, -1, 0, 6}
=============================================================================
