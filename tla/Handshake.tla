------------------------------ MODULE Handshake ------------------------------
(***************************************************************************)
(* The opening of a connection: WSClient::connect at one end and           *)
(* WSServer::accept at the other, each reading the other's text with       *)
(* recvHttpHeaders, and the first frames, which may follow at once.  One   *)
(* of the two ends may be a foreign program that sends other texts, never  *)
(* ends its headers, or closes.                                            *)
(*                                                                         *)
(* A text is a sequence of characters.  Those below 256 are ASCII codes;   *)
(* a number above stands for a whole word of the text: a header name, the  *)
(* request line, a status, a frame.  Every one of them is one recv().      *)
(***************************************************************************)
EXTENDS Integers, Sequences, FiniteSetsExt

CONSTANTS
  Limit,         \* 8192: the length up to which recvHttpHeaders reads on
  MaxUserId,     \* 128
  Keys,          \* the keys generateWSKey may give
  AcceptKey(_),  \* wsAcceptKey
  ClientId,      \* the userId of the C++ client
  GeneratedId,   \* "cpp-" and the time
  Requests,      \* what foreign clients send: headers and what follows them
  Responses(_),  \* what foreign servers answer to a key
  MaxFrames      \* bound: frames sent after the handshake

Char == Nat
CR == 13
LF == 10
TAB == 9
SP == 32
COLON == 58
CRLF == <<CR, LF>>

RequestLine == 256    \* GET, WS_PATH and HTTP/1.1
Status101 == 257      \* HTTP/1.1 101 and a phrase
WebSocket == 258
Frame == 259
Filler == 260         \* any text without an end of line
Host == 300
Upgrade == 301
Connection == 302
SecWebSocketKey == 303
SecWebSocketVersion == 304
SecWebSocketAccept == 305
UserId == 306

Text == Seq(Char)
Message == [headers: Text, tail: Text]

ASSUME LimitAssumption == Limit \in Nat /\ MaxUserId \in Nat \ {0} /\ MaxFrames \in Nat
ASSUME TextAssumption ==
  /\ Keys \subseteq Text /\ ClientId \in Text /\ GeneratedId \in Text
  /\ Requests \subseteq Message
ASSUME KeyAssumption == \A key \in Keys : Responses(key) \subseteq Message

\* A value that a header line carries as it is.
Plain(value) == value # <<>> /\ \A k \in 1..Len(value) : value[k] \notin {CR, LF, TAB, SP}

\* Keys and their answers are base64, the client's name is "cpp-client-" and the time.
ASSUME PlainAssumption ==
  Plain(ClientId) /\ \A key \in Keys : Plain(key) /\ AcceptKey(key) \in Text /\ Plain(AcceptKey(key))

Sides == {"client", "server"}
Other(s) == IF s = "client" THEN "server" ELSE "client"

VARIABLES
  pc,      \* per end: "start" or "listen", then "headers", "check", and "open"
           \* or "failed"; "foreign", then "said", for a foreign program
  net,     \* per end: what is on its way to it
  sent,    \* per end: everything that was ever sent to it (history)
  buf,     \* per end: the text recvHttpHeaders has read
  gone,    \* the ends that were closed
  wsKey,   \* the key of the client
  userId   \* the user of the session

vars == <<pc, net, sent, buf, gone, wsKey, userId>>

PCs == {"start", "listen", "headers", "check", "open", "failed", "foreign", "said"}

\* recvHttpHeaders holds at most one character more than the limit.
TypeOK ==
  /\ pc \in [Sides -> PCs]
  /\ net \in [Sides -> Text] /\ sent \in [Sides -> Text] /\ buf \in [Sides -> Text]
  /\ \A s \in Sides : Len(buf[s]) <= Limit + 1
  /\ gone \in [Sides -> BOOLEAN]
  /\ wsKey \in Text /\ userId \in Text

Init ==
  /\ \/ pc = [client |-> "start", server |-> "listen"]
     \/ pc = [client |-> "foreign", server |-> "listen"]
     \/ pc = [client |-> "start", server |-> "foreign"]
  /\ net = [s \in Sides |-> <<>>]
  /\ sent = [s \in Sides |-> <<>>]
  /\ buf = [s \in Sides |-> <<>>]
  /\ gone = [s \in Sides |-> FALSE]
  /\ wsKey = <<>> /\ userId = <<>>

Goto(s, l) == pc' = [pc EXCEPT ![s] = l]

\* A failing path: hws_close, and no socket is returned.
Fail(s) ==
  /\ Goto(s, "failed")
  /\ gone' = [gone EXCEPT ![s] = TRUE]

\* sendAll to the end s.
SendTo(s, text) ==
  /\ net' = [net EXCEPT ![s] = @ \o text]
  /\ sent' = [sent EXCEPT ![s] = @ \o text]

-----------------------------------------------------------------------------
(* extractHeader                                                           *)

tolower(c) == IF c \in 65..90 THEN c + 32 ELSE IF c \in 300..306 THEN c + 100 ELSE c

\* The first index from p on at which pattern is found in either case, or 0.
Find(text, pattern, p) ==
  LET Hit(k) == \A j \in DOMAIN pattern : tolower(text[k + j - 1]) = tolower(pattern[j])
      hits == {k \in p..Len(text) - Len(pattern) + 1 : Hit(k)}
  IN  IF hits = {} THEN 0 ELSE Min(hits)

\* The first index from p on that is no blank.
SkipBlanks(text, p) ==
  Min({k \in p..Len(text) : text[k] \notin {SP, TAB}} \cup {Len(text) + 1})

\* Mutation: the name is found behind any other text.
searchAnywhere(name) == <<name, COLON>>

search(name) == CRLF \o <<name, COLON>>

\* The value that starts at index from and ends with the line.
ValueFrom(text, from) ==
  LET end == Find(text, CRLF, from) IN
  SubSeq(text, from, IF end = 0 THEN Len(text) ELSE end - 1)

extractHeader(text, name) ==
  LET found == Find(text, search(name), 1) IN
  IF found = 0 THEN <<>>
  ELSE ValueFrom(text, SkipBlanks(text, found + Len(search(name))))

-----------------------------------------------------------------------------
(* recvHttpHeaders                                                         *)

Terminated(t) == Len(t) >= 4 /\ SubSeq(t, Len(t) - 3, Len(t)) = CRLF \o CRLF

\* Mutation: one character more.
TooLongOffByOne(t) == Len(t) > Limit + 1

TooLong(t) == Len(t) > Limit

\* ::recv(sock, &ch, 1, 0) and buf += ch
Recv(s) ==
  /\ buf' = [buf EXCEPT ![s] = Append(@, Head(net[s]))]
  /\ net' = [net EXCEPT ![s] = Tail(@)]

\* Mutation: the end of the stream is taken for a pause, and recv() called again.
EndedByError(s) == FALSE

\* recv() returns 0 or -1: the other end was closed, and what it sent has been
\* read or was thrown away by a reset.
Ended(s) == gone[Other(s)]

\* Mutation: recv() takes all that is there, and the end is looked for in it.
ReadHeadersAhead(s) ==
  /\ pc[s] = "headers" /\ net[s] # <<>>
  /\ buf' = [buf EXCEPT ![s] = @ \o net[s]]
  /\ net' = [net EXCEPT ![s] = <<>>]
  /\ Find(buf'[s], CRLF \o CRLF, 1) # 0 /\ Goto(s, "check")
  /\ UNCHANGED <<sent, gone, wsKey, userId>>

ReadHeaders(s) ==
  /\ pc[s] = "headers"
  /\ \/ /\ net[s] # <<>>
        /\ Recv(s)
        /\ \/ Terminated(buf'[s]) /\ Goto(s, "check") /\ UNCHANGED gone
           \/ ~Terminated(buf'[s]) /\ TooLong(buf'[s]) /\ Fail(s)
           \/ ~Terminated(buf'[s]) /\ ~TooLong(buf'[s]) /\ UNCHANGED <<pc, gone>>
     \/ Ended(s) /\ Fail(s) /\ UNCHANGED <<buf, net>>
  /\ UNCHANGED <<sent, wsKey, userId>>

-----------------------------------------------------------------------------
(* WSServer::accept                                                        *)

\* ::accept() returns when a client has connected.
Accept ==
  /\ pc["server"] = "listen"
  /\ pc["client"] # "start" /\ (pc["client"] = "failed" => gone["client"])
  /\ Goto("server", "headers")
  /\ UNCHANGED <<net, sent, buf, gone, wsKey, userId>>

ServerAgrees(text) ==
  /\ SubSeq(text, 1, 3) = <<RequestLine>> \o CRLF
  /\ extractHeader(text, Upgrade) = <<WebSocket>>
  /\ extractHeader(text, SecWebSocketKey) # <<>>

iscntrl(c) == c < 32 \/ c = 127

\* "cpp-" and the time.
ASSUME GeneratedAssumption ==
  /\ GeneratedId # <<>> /\ Len(GeneratedId) <= MaxUserId
  /\ \A k \in 1..Len(GeneratedId) : ~iscntrl(GeneratedId[k])

\* What std::remove_if leaves of a text.
Cleaned(value) ==
  LET clean[k \in 0..Len(value)] ==
        IF k = 0 THEN <<>>
        ELSE IF iscntrl(value[k]) THEN clean[k - 1] ELSE Append(clean[k - 1], value[k])
  IN  clean[Len(value)]

Shortened(value) == IF Len(value) > MaxUserId THEN SubSeq(value, 1, MaxUserId) ELSE value

\* Mutation: an empty userId is replaced before it is cleaned.
SessionUserEarly(value) == Shortened(Cleaned(IF value = <<>> THEN GeneratedId ELSE value))

SessionUser(value) ==
  LET short == Shortened(Cleaned(value)) IN IF short = <<>> THEN GeneratedId ELSE short

Line(name, value) == <<name, COLON, SP>> \o value \o CRLF

\* Mutation: no empty line after the headers.
ResponseUnended(key) ==
  <<Status101>> \o CRLF \o Line(SecWebSocketAccept, AcceptKey(key))

\* Mutation: the key is sent back as it came.
ResponseUnhashed(key) ==
  <<Status101>> \o CRLF \o Line(Upgrade, <<WebSocket>>) \o Line(Connection, <<Upgrade>>)
  \o Line(SecWebSocketAccept, key) \o CRLF

Response(key) ==
  <<Status101>> \o CRLF \o Line(Upgrade, <<WebSocket>>) \o Line(Connection, <<Upgrade>>)
  \o Line(SecWebSocketAccept, AcceptKey(key)) \o CRLF

\* The 101 response cannot be sent any more when the client is gone.
ServerAccept ==
  /\ pc["server"] = "check"
  /\ LET text == buf["server"] IN
     \/ ~ServerAgrees(text) /\ Fail("server") /\ UNCHANGED <<net, sent, userId>>
     \/ /\ ServerAgrees(text)
        /\ userId' = SessionUser(extractHeader(text, UserId))
        /\ \/ /\ SendTo("client", Response(extractHeader(text, SecWebSocketKey)))
              /\ Goto("server", "open")
              /\ UNCHANGED gone
           \/ gone["client"] /\ Fail("server") /\ UNCHANGED <<net, sent>>
  /\ UNCHANGED <<buf, wsKey>>

-----------------------------------------------------------------------------
(* WSClient::connect                                                       *)

\* No socket, no address for the host, or nobody listens there: there is no
\* connection that the other end could see closed.
ConnectFails ==
  /\ pc["client"] = "start"
  /\ Goto("client", "failed")
  /\ UNCHANGED <<net, sent, buf, gone, wsKey, userId>>

Request(key) ==
  <<RequestLine>> \o CRLF \o Line(Host, <<Filler>>) \o Line(Upgrade, <<WebSocket>>)
  \o Line(Connection, <<Upgrade>>) \o Line(SecWebSocketKey, key)
  \o Line(SecWebSocketVersion, <<Filler>>) \o Line(UserId, ClientId) \o CRLF

\* The request; sendAll fails when the server is gone.
ClientRequest ==
  /\ pc["client"] = "start"
  /\ wsKey' \in Keys
  /\ \/ SendTo("server", Request(wsKey')) /\ Goto("client", "headers") /\ UNCHANGED gone
     \/ gone["server"] /\ Fail("client") /\ UNCHANGED <<net, sent>>
  /\ UNCHANGED <<buf, userId>>

\* Mutation: any switch of protocols is good enough.
ClientAgreesUnkeyed(text) == Head(text) = Status101

ClientAgrees(text) ==
  /\ Head(text) = Status101
  /\ extractHeader(text, SecWebSocketAccept) = AcceptKey(wsKey)

ClientCheck ==
  /\ pc["client"] = "check"
  /\ \/ ClientAgrees(buf["client"]) /\ Goto("client", "open") /\ UNCHANGED gone
     \/ ~ClientAgrees(buf["client"]) /\ Fail("client")
  /\ UNCHANGED <<net, sent, buf, wsKey, userId>>

-----------------------------------------------------------------------------
(* What follows the handshake, and foreign programs.                       *)

Frames(text) == Len(SelectSeq(text, LAMBDA c : c = Frame))

\* A session's first frames: the server's before the client has read the headers.
SendFrame(s) ==
  /\ pc[s] = "open" /\ Frames(sent[Other(s)]) < MaxFrames
  /\ SendTo(Other(s), <<Frame>>)
  /\ UNCHANGED <<pc, buf, gone, wsKey, userId>>

ForeignSend(s) ==
  /\ pc[s] = "foreign" /\ ~gone[s]
  /\ s = "server" => pc["client"] \notin {"start", "failed"}
  /\ \E m \in IF s = "client" THEN Requests ELSE Responses(wsKey) :
       SendTo(Other(s), m.headers \o m.tail)
  /\ Goto(s, "said")
  /\ UNCHANGED <<buf, gone, wsKey, userId>>

\* Headers that go on.
ForeignMore(s) ==
  /\ pc[s] = "said" /\ ~gone[s]
  /\ pc[Other(s)] = "headers" /\ net[Other(s)] = <<>>
  /\ SendTo(Other(s), <<Filler>>)
  /\ UNCHANGED <<pc, buf, gone, wsKey, userId>>

ForeignClose(s) ==
  /\ pc[s] \in {"foreign", "said"} /\ ~gone[s]
  /\ gone' = [gone EXCEPT ![s] = TRUE]
  /\ UNCHANGED <<pc, net, sent, buf, wsKey, userId>>

Foreign(s) == ForeignSend(s) \/ ForeignMore(s) \/ ForeignClose(s)

-----------------------------------------------------------------------------
Client == ConnectFails \/ ClientRequest \/ ReadHeaders("client") \/ ClientCheck
Server == Accept \/ ReadHeaders("server") \/ ServerAccept

Next == \/ Client \/ Server
        \/ \E s \in Sides : SendFrame(s) \/ Foreign(s)

Spec == Init /\ [][Next]_vars

\* Both ends run; a foreign program that is waited for goes on sending, or closes.
FairSpec ==
  /\ Spec
  /\ WF_vars(Client) /\ WF_vars(Server)
  /\ \A s \in Sides :
       WF_vars(pc[Other(s)] = "headers" /\ (ForeignMore(s) \/ ForeignClose(s)))

-----------------------------------------------------------------------------
(* Properties.                                                             *)

\* recvHttpHeaders takes the header block and nothing after it: the frames that the
\* other end sent right behind its headers are still there for wsRecvFrame, all of
\* them and in order.
HeadersExact ==
  \A s \in Sides :
    /\ sent[s] = buf[s] \o net[s]
    /\ pc[s] \in {"check", "open"} =>
         /\ Terminated(buf[s])
         /\ \A n \in 0..Len(buf[s]) - 1 : ~Terminated(SubSeq(buf[s], 1, n))

\* The value of the first line with that name, line by line: a line starts behind the
\* end of another one.
HeaderOf(text, name) ==
  LET ends == {k \in 1..Len(text) - 1 : SubSeq(text, k, k + 1) = CRLF}
      LineAt(k) == SubSeq(text, k + 2, Min({e \in ends : e > k}) - 1)
      mine == {k \in ends \ {Max(ends)} :
                 LET l == LineAt(k) IN
                 Len(l) >= 2 /\ tolower(l[1]) = tolower(name) /\ l[2] = COLON}
      value == LET l == LineAt(Min(mine)) IN SubSeq(l, 3, Len(l))
      blank == {n \in 0..Len(value) : \A k \in 1..n : value[k] \in {SP, TAB}}
  IN  IF mine = {} THEN <<>> ELSE SubSeq(value, Max(blank) + 1, Len(value))

\* extractHeader finds what a reader of the lines finds: the first line of that
\* name in either case, its value without leading blanks, never the middle of another
\* line.
ExtractsLine ==
  \A s \in Sides : pc[s] = "check" =>
    \A name \in {Upgrade, SecWebSocketKey, SecWebSocketAccept, UserId} :
      extractHeader(buf[s], name) = HeaderOf(buf[s], name)

\* The client is connected only to a server that answered its own request: a C++
\* server that took over its key, or another one whose 101 has a line with the answer
\* to that key.
AnswersOwnKey ==
  pc["client"] = "open" =>
    \/ pc["server"] = "open" /\ extractHeader(buf["server"], SecWebSocketKey) = wsKey
    \/ /\ pc["server"] = "said" /\ Head(buf["client"]) = Status101
       /\ HeaderOf(buf["client"], SecWebSocketAccept) = AcceptKey(wsKey)

\* The two ends of this code never refuse each other: accept() agrees to every request
\* that connect() writes, under the name in it, and connect() to the response.
Interoperates ==
  pc["client"] \notin {"foreign", "said"} /\ pc["server"] \notin {"foreign", "said"} =>
    /\ pc["server"] = "check" => ServerAgrees(buf["server"])
    /\ pc["server"] = "open" => userId = SessionUser(ClientId)
    /\ pc["client"] = "check" => ClientAgrees(buf["client"])

\* A session has a user, whatever the request said: one that is not empty, not too
\* long for the log, and breaks no line of it.
UserIdUsable ==
  pc["server"] = "open" =>
    /\ userId # <<>>
    /\ Len(userId) <= MaxUserId
    /\ \A k \in 1..Len(userId) : ~iscntrl(userId[k])

\* Neither end waits for headers for ever, as long as the other one goes on sending
\* or closes: a text without an end runs into the limit.
HeadersEnd == \A s \in Sides : pc[s] = "headers" ~> pc[s] # "headers"

\* A C++ client that got its request out to a C++ server is connected: each end
\* accepts what the other one writes.
Connects ==
  pc["client"] = "headers" /\ pc["server"] \notin {"foreign", "said"}
    ~> pc["client"] = "open" /\ pc["server"] = "open"
=============================================================================
