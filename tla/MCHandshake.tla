----------------------------- MODULE MCHandshake -----------------------------
(***************************************************************************)
(* Instances of Handshake for TLC: the texts foreign programs send, and    *)
(* the reference definitions the digests are held against.                 *)
(***************************************************************************)
EXTENDS Handshake, Digest

Letters(n) == [k \in 1..n |-> 64 + 5 * k]
ToyGUID == <<50, 53>>
ToyId == <<99, 108>>
ToyGenerated == <<99, 112>>
Seeds == {<<0, 0, 0, 0>>, <<255, 255, 255, 255>>, <<3, 240, 63, 129>>}

\* Some hash of five bytes: as of the 20 of SHA-1, two are left for the last group of
\* base64.
ToyCompress(blocks) ==
  LET bytes == FlattenSeq(blocks)
      Mix(i) == FoldLeft(LAMBDA v, b : (v * 31 + b + 7 * i) % 65521, i, bytes)
  IN  [i \in 1..5 |-> (Mix(i) \div 16) % 256]

\* wsAcceptKey, computed once for the keys of the instance.
AllKeys == {base64Encode(s) : s \in Seeds}
Table == [key \in AllKeys \cup {Letters(n) : n \in 1..14} |-> wsAcceptKey(key)]
TableOrKey(key) == IF key \in DOMAIN Table THEN Table[key] ELSE wsAcceptKey(key)

-----------------------------------------------------------------------------
(* Requests.                                                               *)

Whole(lines) == <<RequestLine>> \o CRLF \o FlattenSeq(lines) \o CRLF
Good == Line(Upgrade, <<WebSocket>>)
KeyLine(n) == Line(SecWebSocketKey, Letters(n))
X == 88

UpgradeLines ==
  {<<>>, Good, Line(Upgrade, <<>>), Line(Upgrade, <<Filler>>),
   <<Upgrade + 100, COLON, WebSocket>> \o CRLF,
   <<Upgrade, COLON, TAB, SP, WebSocket>> \o CRLF,
   <<X>> \o Good, Line(Upgrade, <<Filler>>) \o Good, Good \o Line(Upgrade, <<Filler>>),
   Line(X, <<Upgrade, COLON, WebSocket>>) \o Good, <<CR>> \o Good, <<LF>> \o Good}
KeyLines ==
  {<<>>, Line(SecWebSocketKey, <<SP>>)} \cup {KeyLine(n) : n \in 1..14}
UserLines ==
  {<<>>} \cup {Line(UserId, v) : v \in
     {<<>>, <<X>>, <<TAB>>, <<LF>>, <<X, LF, 127, X>>, <<127, LF>>,
      <<X, X, X>>, <<X, X, X, X>>, <<LF, X, X, X, X>>}}

Headers ==
  {Whole(<<u, KeyLine(4)>>) : u \in UpgradeLines} \cup
  {Whole(<<k, Good>>) : k \in KeyLines} \cup
  {Whole(<<Good, u, KeyLine(4)>>) : u \in UserLines} \cup
  {Line(Filler, <<>>) \o Whole(<<Good, KeyLine(4)>>), <<Filler>> \o Whole(<<Good>>)}

\* Texts around the limit.
Long(n) == LET short == Whole(<<Good, KeyLine(1)>>) IN
           SubSeq(short, 1, 3) \o Line(X, [k \in 1..n - Len(short) - 5 |-> Filler])
           \o SubSeq(short, 4, Len(short))
LongHeaders == {Long(n) : n \in Limit - 1..Limit + 3}

Cut == LET t == Whole(<<Good, KeyLine(2)>>) IN {SubSeq(t, 1, n) : n \in 0..Len(t) - 1}

Said(texts, tails) == {[headers |-> h, tail |-> t] : h \in texts, t \in tails}
Tails == {<<>>, <<Frame>>, <<Frame, Frame>>}
AllRequests == Said(Headers, Tails) \cup Said(LongHeaders, {<<Frame>>}) \cup Said(Cut, {<<>>})

-----------------------------------------------------------------------------
(* Responses.                                                              *)

Answer(status, lines) == <<status>> \o CRLF \o FlattenSeq(lines) \o CRLF
Genuine(key) ==
  {Response(key), Answer(Status101, <<Line(SecWebSocketAccept, AcceptKey(key))>>),
   Answer(Status101, <<<<SecWebSocketAccept + 100, COLON>> \o AcceptKey(key) \o CRLF, Good>>)}
Stale(key) ==
  {Response(k) : k \in AllKeys \ {key}} \cup
  {Answer(Filler, <<Line(SecWebSocketAccept, AcceptKey(key))>>),
   Answer(Status101, <<Good>>), Answer(Status101, <<Line(SecWebSocketAccept, key)>>),
   Answer(Status101, <<Line(X, <<SecWebSocketAccept, COLON>> \o AcceptKey(key))>>)}
AllResponses(key) == Said(Genuine(key) \cup Stale(key), Tails)

-----------------------------------------------------------------------------
(* References.                                                             *)

\* The blocks of a message as the standard has them: the message, a one bit, as few
\* zeros as are needed, and the length in bits.
Padded(blocks, msg) ==
  LET text == FlattenSeq(blocks)
      n == Len(text)
  IN  /\ \A b \in DOMAIN blocks : Len(blocks[b]) = BlockLen
      /\ n - BlockLen < Len(msg) + 1 + LengthLen /\ n >= Len(msg) + 1 + LengthLen
      /\ \A k \in 1..n - LengthLen :
           text[k] = IF k <= Len(msg) THEN msg[k] ELSE IF k = Len(msg) + 1 THEN 128 ELSE 0
      /\ FoldLeft(LAMBDA v, b : v * 256 + b, 0, SubSeq(text, n - LengthLen + 1, n))
           = 8 * Len(msg)

\* Base64 by bits: six of them a character, the last ones filled up with zeros, and
\* the text with pad characters.
Bits(data) == [k \in 1..8 * Len(data) |->
                 (data[(k + 7) \div 8] \div 2 ^ (7 - ((k - 1) % 8))) % 2]
Sextets(data) ==
  LET bits == Bits(data) \o <<0, 0, 0, 0, 0>> IN
  [c \in 1..(8 * Len(data) + 5) \div 6 |->
     FoldLeft(LAMBDA v, b : 2 * v + b, 0, SubSeq(bits, 6 * c - 5, 6 * c))]
IsBase64(text, data) ==
  LET chars == Sextets(data) IN
  /\ Len(text) % 4 = 0 /\ Len(text) - Len(chars) \in 0..3
  /\ \A k \in DOMAIN text : text[k] = IF k <= Len(chars) THEN table(chars[k]) ELSE PAD

\* Both hash functions get the blocks of the standard, for keys that end anywhere in
\* a block, although one of them pads a buffer that is used again and again.
PaddedRight ==
  pc["server"] = "open" =>
    LET msg == extractHeader(buf["server"], SecWebSocketKey) \o GUID IN
    Padded(final(update(SHA1, msg)), msg) /\ Padded(sha256(msg), msg)

\* The keys and the accept keys are base64, of whatever number of bytes.
Base64Right ==
  /\ pc["client"] = "headers" => \E s \in Seeds : IsBase64(wsKey, s)
  /\ pc["server"] = "open" =>
       LET key == extractHeader(buf["server"], SecWebSocketKey) IN
       \A n \in 1..Len(key) : IsBase64(base64Encode(SubSeq(key, 1, n)), SubSeq(key, 1, n))
=============================================================================
