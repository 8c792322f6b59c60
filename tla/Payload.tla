-------------------------------- MODULE Payload --------------------------------
(***************************************************************************)
(* parser.c: the name in a TLS ClientHello and in an HTTP request, looked   *)
(* for in one TCP segment at a time, whatever part of the message it holds. *)
(*                                                                          *)
(* Text is a sequence of pieces: "CR", "LF", "SP" (blank or tab), "Ho" and   *)
(* "st:" in any case, and others of at least three letters each, so that    *)
(* what holds a name is never too short to be looked at.                    *)
(***************************************************************************)
EXTENDS Integers, FiniteSetsExt, SequencesExt

CONSTANTS
  OutSz,      \* sizeof(sni), in bytes
  HostPieces  \* pieces of text that are too long for host

ASSUME PayloadAssumption == OutSz \in Nat \ {0} /\ HostPieces \in Nat \ {0}

-----------------------------------------------------------------------------
(* HTTP *)

\* memcasestr_n: where the needle is first found, 0 if it is not.
Find(text, needle) ==
  LET at == {i \in 1 .. Len(text) - Len(needle) + 1 :
               SubSeq(text, i, i + Len(needle) - 1) = needle}
  IN  IF at = {} THEN 0 ELSE Min(at)

Header == <<"Ho", "st:">>

\* The three needles of parser_extract_http_host, and where what it found ends.
\* (Mutant: the last needle only.)
AnyValueAt(text) == IF Find(text, Header) = 0 THEN 0 ELSE Find(text, Header) + 2
ValueAt(text) ==
  LET line == Find(text, <<"CR", "LF">> \o Header)
      part == Find(text, <<"LF">> \o Header)
      bare == Find(text, Header)
  IN  IF line # 0 THEN line + 4 ELSE IF part # 0 THEN part + 3
      ELSE IF bare # 0 THEN bare + 2 ELSE 0

\* n >= out_sz is refused.  (Mutant: the end of the string has no room.)
FitsUnended(n) == n <= HostPieces
Fits(n) == n < HostPieces

\* Blanks are skipped, then everything to the end of the line, or of the
\* segment, is taken, without the blanks at its end.
Value(text, at) ==
  LET starts == {i \in at .. Len(text) : text[i] # "SP"}
      from == IF starts = {} THEN Len(text) + 1 ELSE Min(starts)
      stops == {i \in from .. Len(text) : text[i] \in {"CR", "LF"}}
      to == IF stops = {} THEN Len(text) ELSE Min(stops) - 1
      letters == {i \in from .. to : text[i] # "SP"}
  IN  IF Fits(to - from + 1) /\ letters # {} THEN SubSeq(text, from, Max(letters)) ELSE <<>>

ExtractHost(text) == IF ValueAt(text) = 0 THEN <<>> ELSE Value(text, ValueAt(text))

-----------------------------------------------------------------------------
(* TLS: a ClientHello of which len bytes were captured; s holds those that    *)
(* come after the random, the first of them at offset Fixed.                  *)

Fixed == 9 + 2 + 32

\* payload[p], and two of them as a number.  What lies behind the captured bytes
\* is not the message's; a zero stands for it.
Byte(s, p) == IF p < Fixed + Len(s) THEN s[p - Fixed + 1] ELSE 0
Two(s, p) == 256 * Byte(s, p) + Byte(s, p + 1)

\* Where the parts are, as the lengths before them say: of the session id, the
\* cipher suites, the compression methods and the extensions.
SidAt == Fixed + 1
CsAt(s) == SidAt + Byte(s, SidAt - 1) + 2
CompAt(s) == CsAt(s) + Two(s, CsAt(s) - 2) + 1
ExtsAt(s) == CompAt(s) + Byte(s, CompAt(s) - 1) + 2
ExtsEnd(s) == ExtsAt(s) + Two(s, ExtsAt(s) - 2)

\* The tests on the way to the extensions.
\* (Mutant: the extensions may be cut.)
CutReadable(s, len) == Fixed <= len /\ ExtsAt(s) <= len
Readable(s, len) ==
  /\ 9 <= len /\ Fixed <= len
  /\ SidAt <= len /\ CsAt(s) - 2 <= len
  /\ CsAt(s) <= len /\ CompAt(s) - 1 <= len
  /\ CompAt(s) <= len /\ ExtsAt(s) - 2 <= len
  /\ ExtsAt(s) <= len /\ ExtsEnd(s) <= len

\* The loop over the names of an extension, from start to end: the first host
\* name that fits, if none before it is longer than the extension.
NameIn(s, start, end) ==
  LET from[q \in start .. end] ==
        LET nln == Two(s, q + 1)
            next == q + 3 + nln
        IN  IF q + 3 > end \/ next > end THEN <<>>
            ELSE IF Byte(s, q) = 0 /\ nln \in 1 .. OutSz - 1
              THEN [k \in 1 .. nln |-> Byte(s, q + 2 + k)]
            ELSE from[next]
  IN  from[start]

\* The loop over the extensions: the first server_name that has a name, if none
\* before it is longer than all of them.
NameInExts(s, start, end) ==
  LET from[ex \in start .. end] ==
        LET next == ex + 4 + Two(s, ex + 2)
            isNames == Two(s, ex) = 0 /\ ex + 6 <= next
            name == IF isNames THEN NameIn(s, ex + 6, next) ELSE <<>>
        IN  IF ex + 4 > end \/ next > end THEN <<>>
            ELSE IF name # <<>> THEN name
            ELSE from[next]
  IN  from[start]

\* parser_extract_tls_sni
ExtractSni(s, len) ==
  IF Readable(s, len) THEN NameInExts(s, ExtsAt(s), ExtsEnd(s)) ELSE <<>>
=============================================================================
