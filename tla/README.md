# hello-websocket: TLA+ models, checks and proofs

`hello-websocket` implements one binary protocol over WebSocket (`PROTOCOL.md`) in twelve
languages, each with a server, a client and a codec. This directory holds TLA+
specifications of the C++ implementation, the one that brings its own WebSocket layer and
its own threads, with TLC configurations that check them on small instances and TLAPS
proofs for all instances. The C++ implementation is the scope; of the rest of the repository
the protocol documents were read for what they promise.

Run everything from this directory:

    tlc -workers 2 -config <run>.cfg <module>      # the table of runs names both
    tlapm <module>                                 # the eight *Proof.tla modules

## The system

### Parts, state and operations

| part | code | state | operations |
|---|---|---|---|
| server process | `ws_server.cpp` `main`, `ws.hpp` `WSServer` | listening socket, descriptor table | listen, accept with the HTTP upgrade in the same thread, start a handler |
| server session | `ws_server.cpp` `handleClient` | `active`, `lastPongTs`, `sendMutex`, `clientLanguage`, five threads | receive and answer a message, send PING (1 s), TIME_NOTIFICATION (5 s), KISS_REQUEST (5 s), check the time-out (every 5 s, 60 s), clean up |
| client | `ws_client.cpp`, `ws.hpp` `WSClient` | attempt, `ws.sock`, `active`, `sendMutex`, `randomId`, two threads | connect (three attempts), handshake, HELLO, answer PING and KISS_REQUEST, send RANDOM_NUMBER (5 s), farewell, close |
| framing | `ws.hpp` `wsRecvFrame`, `wsSend*` | the message being reassembled | read a frame, answer control frames, refuse forbidden frames |
| codec | `codec.hpp` | reader position | encode and decode thirteen kinds of messages |
| UTF-8 check | `codec.hpp` `isValidUtf8` | index | accept or reject a text |
| opening handshake | `ws.hpp` `WSServer::accept`, `WSClient::connect`, `recvHttpHeaders`, `extractHeader` | header text read so far, key, `userId` | read headers, look fields up, accept or refuse, check the answer |
| hashes | `ws.hpp` `SHA1`, `base64Encode`, `wsAcceptKey`, `codec.hpp` `SHA256` | block buffer | pure functions |
| other helpers | time formatting, hexadecimal text, log | none | formatting |

A client and a server interact through a TCP connection only. Inside a server session the
threads interact through `active` (an atomic flag nobody waits on), `sendMutex`,
`lastPongTs` and the socket descriptor, which all of them use and the handler closes.
Sessions interact through what a process shares: descriptor numbers, which the kernel
reuses as soon as they are closed, and signals.

### What is hard here

* A frame takes more than one `send()` when the buffer is full; several threads send.
* `close()` of a descriptor that other threads still use: on POSIX it neither wakes a
  blocked `send()` nor keeps the number from being reused.
* `active` is tested and acted upon in separate steps.
* The handler must join four threads, any of which may be blocked on its client.
* Connections end by DISCONNECT, close frame, illegal frame, undecodable payload, FIN, RST,
  time-out or failed send, in any thread and at any moment.
* Fragments, control frames between fragments, three length forms, limits.
* Headers are read one byte at a time, with frames right behind them, up to a limit.
* Lengths and counts from the wire; signed numbers in unsigned halves; UTF-8 boundaries.

`PROJECT.json` lists these hazards with their lines and the properties that watch them.

## Modules

| module | models |
|---|---|
| `SessionLifecycle` | abstract: none, connecting, active, ending, removed; an active session ends only for a reason (time-out, disconnect, dropped) |
| `CppServer` | the server process, all its sessions and the kernel beneath them |
| `CppClient` | the client process |
| `Heartbeat` | PING, PONG and the time-out of one session, with explicit time |
| `WsFrame` | reading frames, and the headers of written ones |
| `Codec` | encoding and decoding of messages |
| `Utf8` | `isValidUtf8` |
| `Handshake` | the opening of a connection, from both ends |
| `Digest` | padding and buffering of the hashes, base64, `wsAcceptKey` |
| `MC*` | constants for TLC; `MCHandshake` joins `Handshake` with `Digest`, whose `wsAcceptKey` it uses, and holds the definitions the digests are compared with |
| `*Proof` | theorems about the module they extend; `RoundTripProof` extends `CodecProof` |

### CppServer

One action is one step that other threads can observe. `Accept`, `ReadRequest` and
`Respond` are the accept loop (`WSServer::accept`; the handshake is done by the accepting
thread, so one connection at a time is in it). For a session `c`, `pc[c]` gives the control
state of its threads: `recv` runs `Loop`, `Receive`, `Eof`, `Drop`, `Cleanup`, `Close`,
`Join`; a task (`ping`, `time`, `kiss`) runs `Wake`, then the send, then `Fail` if it
failed; `timeout` runs `CheckTimeout`, `Expire`, `Shutdown`, the last two apart because
`active = false` and `hws_shutdown` are two statements. A send is `LockAndTest` (the mutex,
then `active`), `CallSend` (the descriptor number is resolved to a connection), `CopyPart`
(the kernel takes one of the `FrameParts` parts) and `SendError`. Replies to WebSocket
control frames enter the send without the mutex, as in `wsRecvFrame`.

The kernel is part of the model: `fds` maps descriptor numbers to connections and the
lowest free number is given out; `out` and `in` are bounded buffers; `shut` is a local
shutdown; `peer` the client's end (open, FIN, RST). `CloseWakes` tells whether `close()`
fails a send in progress (Windows) or not (POSIX), `SigPipe` whether EPIPE kills the
process. The clients are unconstrained: they connect, send any input of `Inputs`, read,
close and reset whenever they like. `age` is the time since the last PONG, cut off just above
`Timeout`.

The refinement mapping to `SessionLifecycle` computes `Phase(c)` from the control state and
`Reason(c)` from what the client did.

### CppClient

`Connect` (the socket), `Dial` (name and connection), `Handshake`, `Retry` are the attempts; `Loop`, `Receive`, `Eof`, `Cleanup`,
`Join`, `SendCloseFrame`, `Close` the rest of `tryConnect`; `Wake` and `Fail` the loop of
`randomThread`; sending is as in the server. `wire` is everything ever sent, so that order
and completeness can be stated; `unread` is what still fills the buffer.

### Heartbeat

Threads may oversleep by `Jitter`; a client that answers (`answers`, fixed at the start) does
so within `Delay`. `now` is real time and `offset` the error of `system_clock`, which `nowMs`
reads: the clock may be put forward and back at any time and any number of times, and is never
more than `Forward` ahead or `Back` behind (`Spread` is their sum). An answering client is
safe when interval, jitter, delay and `Spread` together stay within the time-out (`Generous`);
a silent one may stay `Spread` longer.

### Handshake, Digest

Each end is `WSClient::connect` or `WSServer::accept` of this code, or (one of the two) a
foreign program that sends any text of `Requests` or `Responses`, goes on without end, or
closes. `recvHttpHeaders` is one action per `recv()` of one character; a word whose
letters nothing looks at (a header name, the request line, a frame) is one character.
`sent[s]` is all that was ever sent to end `s`, `net[s]` what it has not read yet and `buf[s]`
what it has, so that what the headers took and what they left can be compared. `extractHeader`
works on the whole text as the code does: the first place where the name stands at the
start of a line, with the blanks behind the colon skipped. The upgrade decision, the cleaning
and cutting of `userId` and the comparison of the accept key are in `check`. A send that
fails, and SIGPIPE, belong to `CppServer!Respond` and `CppClient!Handshake`.

`Digest` keeps the buffer `data`, `datalen` and `bitlen` of `SHA1` with the bytes a block leaves
behind, and the single pass of `SHA256`. The compression rounds are a parameter: any
function of the sequence of blocks.

### WsFrame, Codec, Utf8

`WsFrame` and `Codec` scale the sizes down: the boundaries 126, 2^16, 2^63 and 1 MiB, and
the byte and word sizes, are constants. A payload is the number of its frame. `Codec` reads
one field per step, with the checks of `ByteReader` in their order. `Utf8` keeps real byte
values and takes one round of the loop per step.

## Runs

Runs that pass:

| run | module | bounds | shows |
|---|---|---|---|
| `server_session` | `MCCppServer` | 1 connection, 1 task, an input of every class, 2 messages, POSIX, any client | types; one sender at a time; the binary frames of a session never mixed with each other; refinement of `SessionLifecycle`; an overdue session closes its connection, also when the client reads nothing; if the client reads, a handler that leaves its loop returns |
| `server_descriptors` | `MCCppServer` | 2 connections, 2 descriptors, no tasks, SIGPIPE, a `close()` that wakes senders | a handler's descriptor is its own until it closes it; no refused handshake, failed answer or ended session leaves a descriptor open |
| `client_session` | `MCCppClient` | every input, 2 messages, 2 random numbers, SIGPIPE | HELLO first; ids and pongs in order; whole frames; nobody sends on a closed socket; no socket or thread is left behind; the client exits when the server closes |
| `heartbeat` | `Heartbeat` | 15 time units, a clock up to 1 ahead or behind | a client that answers is not timed out; a silent session is gone one check after the limit, plus the error of the clock |
| `frames_server` | `MCWsFrame` | 4 frames at every boundary | exactly the forbidden frames are refused, and the control frames that do not fit beside waiting fragments; messages whole, of the right size; replies in order |
| `codec` | `MCCodec` | all types, boundary values; arbitrary payloads of up to 6 or 11 bytes | decoding inverts encoding, also with bytes behind the last field inside the payload, cut messages are refused; the reader stays in bounds, counts are believed only if they fit |
| `utf8_texts` | `MCUtf8` | 4 bytes out of 26 edge bytes | exactly the well-formed texts are accepted, none is over-read |
| `handshake` | `MCHandshake` | both C++ ends, and each with foreign texts: headers in odd case, order and number, at the limit, cut, endless, with up to 2 frames behind them | the headers are taken exactly and reading them ends; `extractHeader` finds the line a reference definition finds; a name is never empty; a client is answered with its own key; the two C++ ends never refuse each other and in the end are connected; padding and base64 agree with their definitions |

Runs that show where the code and what is written about it disagree (`PROJECT.json` quotes
the lines):

| run | what happens |
|---|---|
| `server_stale_send` | a frame is sent to the connection that got the descriptor number of its own session |
| `server_sigpipe` | a reset by one client ends all sessions |
| `server_control_reply` | a WebSocket pong lands inside a binary frame |
| `server_blocked_join` | on POSIX `close()` does not unblock a sender: when the handler leaves its loop before the time-out has shut the socket down, it never returns |

Two descriptor numbers and two connections suffice for a number to be reused by another
session; two frame parts for a frame to be split; one part of buffer space less than two
frames for a sender to block; two messages for a reply to meet the next request. The three
tasks run the same loop; one of them and the receive loop are two senders, and the theorem
`Exclusion` covers any number. `server_session` has one input of each class the receive loop
tells apart: HELLO, ECHO_REQUEST, RANDOM_NUMBER and misdirected types are answered like an
unknown one, up to the name of the answer; KISS_RESPONSE, ERROR and a WebSocket pong
change nothing; an illegal frame ends the loop like a close frame, without the reply. The
theorems are for all inputs. `Timeout` 0 or 1 makes a session
overdue after one or two ticks. Deadlock is not checked, because a process that ended, a
session that is over or a decoder that is done may stop. The interesting waits are stated as
liveness instead. Symmetry of connections is used in `server_descriptors`, a safety run.

### Fairness

Threads that can run do run (weak fairness of the steps of each thread, a fair scheduler
and a mutex that is free long enough to be taken), time passes, and a kernel answers data
for a closed socket with a reset. Nothing is assumed of clients in `FairSpec`. `ReadersReleased`
has as its premise that an open client reads (`Readers`); without it `server_blocked_join`
shows what happens. `TimeoutCloses` has no premise. For the
client, `ClosingSpec` assumes that the server closes every connection in the end, read or
not; the client itself never gives up a connection. In the handshake both ends go on
reading what is there, and a foreign end that owes the rest of its headers sends it or
closes. One that stays silent and open does block `recvHttpHeaders`, and with it the accept
loop: the code has no time-out there, and `HeadersEnd` claims nothing for that case.

### Differences from the documents that no run shows

They follow from one or two lines and are in the models as the code has them:

* `timeoutThread` clears `active` and then calls `hws_shutdown` (`ws_server.cpp:122`). If the
  handler closes the socket in between, the shutdown reaches nobody, or the connection that
  was given the number. The first leaves a sender blocked on a client that does not read, so the
  session stays, against `PROTOCOL.md:237`; it is another way into what `server_blocked_join` shows.
  The second ends a session of somebody else: with `SigPipe` off, one descriptor number, two
  connections and no tasks, TLC finds `SessionEndsForCause` violated that way.
* The sum that keeps a message within 1 MiB is formed for control frames too (`ws.hpp:349`): a ping
  or close between fragments that nearly fill the limit ends the session, although RFC 6455
  allows it there (`Crowded` in `WsFrame`).
* A length written in a longer form than it needs, and a close frame with a body of one byte, are
  accepted, although RFC 6455 forbids both; `Forbidden` leaves them out.
* Bytes behind the last field of a message that its header counts as payload are ignored;
  `PROTOCOL.md:40` speaks only of bytes behind the frame.
* The client clears `active` before it sends DISCONNECT (`ws_client.cpp:176`), and `sendFrame`
  sends nothing then; `PLAN.md:417` asks for it.
* Every PONG refreshes `lastPongTs`, read from `system_clock` (`ws_server.cpp:184`);
  `PROTOCOL.md:205` speaks of a matching PONG and of monotonic time. `NoFalseTimeout`
  and `RemovedInTime` hence count what the clock can be off by.
* Of the codes of `PROTOCOL.md:214` only ERR_DECODE and ERR_UNKNOWN_MSG_TYPE are ever sent
  (`ws_server.cpp:142`), and no close frame carries 1002 (`PROTOCOL.md:223`). Which of
  the two it is, is read off the text of the exception.
* A client that names no user is given `cpp-` and the time (`ws.hpp:478`); `PROTOCOL.md:192`
  says the session id.

## Proofs

| theorem | statement | argument |
|---|---|---|
| `CppServerProof!TypeCorrect` | `TypeOK` | inductive by itself |
| `CppServerProof!Exclusion` | `SendExclusive` | `MutexHeld`: a thread inside `sendFrame`'s send holds the mutex |
| `CppServerProof!NothingLeaks` | `NoDescriptorLeak` | `Descriptors`: a descriptor in use is the one its owner holds |
| `CppServerProof!Ownership` | `OwnDescriptor` | `Descriptors`: a descriptor in use leads to a session that has not closed it or to the connection in the handshake, which holds that number, and the other way round |
| `CppServerProof!WholeFrames` | `BinaryContiguous` | `OpenFrame`: the frame a session has begun on a connection belongs to the thread that holds the session's mutex, or nothing more is written to it |
| `CppServerProof!Refinement` | `Spec => LifecycleSpec`, for one connection and without SIGPIPE | `Cause`: a thread whose send failed, a socket that was shut down and a loop that was left all have a lowered flag or a lost client behind them |
| `CppClientProof!TypeCorrect` | `TypeOK` | with `Control`, which says which frame is under way where |
| `CppClientProof!Resources` | `NoUseAfterClose` | `Control`: which socket and which thread there is at each place of `tryConnect` |
| `CppClientProof!NothingLeft` | `Released` | `Control` |
| `CppClientProof!Greeting` | `HelloFirst` | `Wire`: as long as nothing was sent the client is before or inside the send of HELLO, or its connection was reset |
| `CppClientProof!WholeFrames` | `BinaryContiguous` | `OpenFrame`: a frame that was begun belongs to the thread that holds the mutex, or the connection was reset |
| `CppClientProof!RandomOrder` | `RandomIdsInOrder` | `Wire`: the ids sent whole are exactly those below `randomId` |
| `CppClientProof!PongOrder` | `PongsInOrder` | `Queue` and `Pongs`: PINGs answered, in hand and waiting follow each other without a gap |
| `HeartbeatProof!Removal` | `RemovedInTime` | `Checked`: at the last check the PONG was not overdue by the clock of the moment, which differs by at most `Spread` from the one it was stamped with |
| `HeartbeatProof!NoFalseRemoval` | `NoFalseTimeout` | `Waiting` and `Fresh`: the last PONG is at most one interval, its jitter and the delay old, and the two readings of the clock differ by at most `Spread` more |
| `WsFrameProof!LengthRoundTrip` | a written length is read back | case split on the three forms |
| `WsFrameProof!TypeCorrect` | `TypeOK`, which bounds message sizes | inductive by itself, since `Refused` checks the sum |
| `WsFrameProof!Reassembly` | `MessagesWhole` | `Pending`: what was reassembled so far is the beginning of the message that follows the last one delivered |
| `WsFrameProof!Sizes` | `SizesRight` | `Waiting`: the frames held are all those of the open message, and their lengths add up to `size` |
| `WsFrameProof!Refusals` | `RefusedExactly` | `Waiting`; lemma `Judged`: the checks of `wsRecvFrame`, on what it holds, come to what `Forbidden` and `Crowded` say of the stream |
| `WsFrameProof!Answers` | `RepliesMatch` | the frames that ask for an answer are counted (lemma `AskedCount`), each step adds one or none |
| `Utf8Proof!InBounds` | `NoOverread` | the index stays within the text, and the cut-off test bounds what one round reads |
| `Utf8Proof!Validates` | `AcceptsWellFormed` | `Visited`: the text up to the index is a sequence of rows of the table; `Forced`: such a sequence can be cut in one way only, so a text that is well-formed has a cut at the index |
| `CodecProof!TypeCorrect` | `TypeOK` | with `Framed`: the reader runs on the payload that `decodeFrame` cut out |
| `CodecProof!Bounds` | `InBounds` | `IInv` = `TypeOK`, `Framed`, `InBounds` |
| `CodecProof!Counts` | `CountsFit`, an action property | `IInv` |
| `RoundTripProof!RoundTrips` | `RoundTrip` | `Track`: what is left of the payload is, up to its end or a cut, what was written for the values not yet returned |
| `HandshakeProof!HeadersTaken` | `HeadersExact` | `Conserved`: read and unread text together are what was sent; `Read`: while headers are read no beginning of them is complete |
| `HandshakeProof!TypeCorrect` | `TypeOK`, with at most `Limit + 1` characters held | `Read` |
| `HandshakeProof!ConnectedMeansAccepted` | a connected client has an open or foreign server that has answered | `Ends`: a client hears nothing before its server is open |
| `HandshakeProof!LinesExtracted` | `ExtractsLine` | lemma `Extracts`: in every text with an end of headers `extractHeader` returns what a reader of its lines does |
| `HandshakeProof!UserNamed` | `UserIdUsable` | what `Cleaned` leaves of a text has no control characters, and `Shortened` leaves the beginning of that |
| `HandshakeProof!EndsAgree` | `Interoperates` | `Talk`: all that was sent is the request, or the response, and perhaps frames behind it; so the headers that were taken are exactly the request, or the response |
| `HandshakeProof!OwnKeyAnswered` | `AnswersOwnKey` | `Extracts` on the headers that the client took |

### Inductive invariants

`Inv` of `CppServerProof` is the conjunction of `TypeOK`, `Started`, `Answering` (what the
receive loop is sending while it sends), `MutexHeld`, `JoinBeforeReturn` (a handler that is done has joined its
threads) and `Descriptors`;
`SendExclusive` and `OwnDescriptor` say nothing about who holds the mutex or about the
connection in the handshake, so neither is inductive alone. Most steps move one thread from
one control state to another; `MayMove` says once when such a step keeps the invariant
(lemma `Move`), and the actions are shown to be of that form. `Wires`, proved on top of `Inv`,
adds what was written: `OpenFrame`, `Origin` (every part on a connection comes from a session
that has started) and `Accepted`; most steps write nothing, and `Stable` says once when such a
step keeps it. `BinaryContiguous` speaks of each session for itself, since a descriptor number
used after its `close()` may bring the frames of two sessions onto one connection.

`CppClientProof` strengthens in three layers, each proved with the ones below it: `Control`
(places, mutex, socket), `Wire` (what was sent) and `Pongs` (what was received and not answered
yet).

`WsFrameProof` has `Assembling` and `Waiting`: between two frames `pieces` and `size` are a function
of the stream read so far. `SizesRight` looks only at messages that were returned and
`RefusedExactly` only at the last frame, so they say too little of what is being held.

`CodecProof` has `IInv` for the reader on any bytes, and `RoundTripProof` has `Track` on top of it for
the frame of a message. `RoundTrip` speaks of the end only. `Track` says of every step between where the reader
stands in the message: at a field (`FieldsAt`), at a key of a map or at the value after it (`MapAt`,
`ValAt`), at the status or at the list of an ECHO_RESPONSE (`HeadAt`, `ListAt`), and that `out` holds
what stands before that place. `Left` ties this to the bytes: those not read yet agree with the
encoding of all that is still to come, as far as both go, and that encoding ends where the
complete payload does. So a read either finds the whole field, and `NumberBack`, `IntStep` or `StringStep` say that it
returns what was written, or it is refused (`LeftShort`), and a count that covers more than is
there is refused at once (`CountRefused`). What the writer puts out for maps and lists is a nested
fold; `PlainMessage` and `ListMessage` unfold it once into a flat sequence of written fields.

`HandshakeProof` has `IInv`, the conjunction of `StreamType`, `Conserved`, `Ends` and `Read` for both
ends; the limit is tested after the end of the headers, hence the one character more. `Talk`
is proved on top of it. What the two ends make of each other's texts rests on lemmas about
texts that are written line by line: `Carries` says which value stands in the first line with a
name, `CarriesNew` and `CarriesKept` what one more line does to
it, and `FirstText` that a stream has only one beginning that is complete as headers and
has no complete beginning itself, which is what `recvHttpHeaders` takes.

`Refinement` is stated for a connection that is alone in its process, for every input, every
set of background senders, every bound and both kinds of `close()`. With several connections
it is false, and this is what `server_stale_send` and the time-out above are about: a
descriptor number used after its `close()` reaches another session. With SIGPIPE
`server_sigpipe` refutes it. `SessionMove` says once when a step of a thread leaves the
session as it is or ends it for a reason (lemma `SessionMoves`); the accept loop, the clients and the time are
treated apart (lemma `OutsideStep`).

### Assumptions

They are named in the modules, and TLC evaluates them on the instances: bounds are natural
numbers, `NoConn` is no connection, descriptors are natural numbers, intervals are positive,
the length boundaries are ordered and the largest message is below 2^63, a frame writes its
length in one of the three forms (`FormAssumption`; lemma `SendersEncode` shows it of the
senders here), the input of a decoder is a sequence of bytes (`InputAssumption`), one that is called the frame of a
message is that (`MadeAssumption`: the message has the types of its fields, texts are valid
UTF-8, and lengths, counts and the payload fit a `uint32_t`, which the writer takes for granted
when it casts them), keys, their
answers and the client's name hold no blank or line end (`PlainAssumption`: base64, and
`cpp-client-` with the time), the name made up for a client without one is usable
(`GeneratedAssumption`). The theorems of `HandshakeProof` state one more as a hypothesis, because
it is about infinitely many texts: `wsAcceptKey` makes a text of a text.

Induction over the naturals is used through the well-foundedness of `<` (lemma `NatInd` where
it is needed): the set of counterexamples, if not empty, has a least element. What
recursive functions over sequences return is proved in this way, one position at a time.

### Only model-checked

* All liveness properties: they rest on fairness and `ENABLED`.
* `PaddedRight` and `Base64Right`: they compare the outcome of a fold over the whole input with
  a closed form that is cut into blocks and bits by division, and there the arithmetic is out
  of the provers' reach.

## Not modelled

* The rounds of SHA-1 and SHA-256: tables and bit operations without control flow, which a
  comparison with published digests checks better. Everything around them is in `Digest`.
* `WSServer::listen` and `close`, which run once before and after everything else; `nowISO`, the
  hexadecimal text of `hashNumber` and the log, which only format;
  `wsSendClose`, which has no caller.
* Masking is a flag of a frame; XOR with a key is its own inverse.
* Client and server composed over one connection after the handshake. Each is checked
  against a peer that may send any message of the protocol, stop, close or reset at any
  time, which includes what the other program does; what the two say to each other is
  then a matter of the order on one stream, which the client's and the framing properties
  state. The handshake, where the two ends depend on each other's texts, is composed.
* Containers, build scripts and dependency automation run other programs. Tests were read,
  not modelled.
* The implementations in other languages are outside the scope. They share the protocol and
  not the structure: `SessionLifecycle` is what they would be held against.
