# A verification of gommtls

gommtls is a client for mmtls, the TLS-like protocol of the WeChat servers.
This directory holds TLA+ models of its code, the TLC configurations that check
them, and proofs checked by TLAPS. Every definition follows the Go source in
`mmtls/` and `cmd/`; the servers and the network are modelled only as far as
the client can tell.

## 1. The system

| component | source | state it keeps | operations | status |
|---|---|---|---|---|
| long link | `mmtls/mmtls.go` | `conn`, `status`, ephemeral keys, `handshakeHasher`, `serverSeqNum`, `clientSeqNum`, `Session` | `Handshake`, `Noop`, `Close` | modelled |
| short link | `mmtls/mmtls_short.go` | the same without a lasting connection, and `packetReader`, the response being read | `Handshake`, `Request` (`Close` does nothing: `conn` is never assigned) | modelled |
| messages, records, keys | `crypto.go`, `record.go`, `client_hello.go`, `server_hello.go`, `signature.go`, `server_finish.go`, `client_finish.go` | none | serialize, parse, encrypt, decrypt, key derivation | modelled: as terms, and their layouts as bytes |
| session store | `session.go`, `session_ticket.go`, `utility.go` | the session files | `Save`, `LoadSession` | modelled |
| client program | `cmd/main.go` | one client of each kind, a goroutine | start, heartbeat every 30 s, one request, saves | modelled |
| packet parser | `mmtls/parser.go`, `cmd/parser/main.go` | none | split a capture into records and describe them | modelled, without formatting |
| HTTP helper | `utils/http_util.go` | none | hands bytes to `net/http` | left out |
| constants | `mmtls/const.go` | none | data | partly, those that are told apart |

How they interact:

* The long link owns one TCP connection. `Handshake` dials it while `conn` is
  nil, sends a ClientHello (ECDHE, or with the second ticket of a session) and
  reads, in this order, ServerHello, Signature, NewSessionTicket and
  ServerFinish; it answers with ClientFinish, derives the application key and
  sets `status`. `Noop` seals a heartbeat with that key and reads one record.
* The short link dials a connection for every exchange and posts one HTTP body.
  `Handshake` gets a session that way; `Request` makes sure there is one
  (`ensureSession`), then posts a hello with the first ticket, and extensions,
  data and abort sealed with an early-data key, and reads four records back.
* Both clients hash every handshake message into `handshakeHasher`, number
  records with two counters that are both key to the AES-GCM nonce, and replace
  `Session` in the middle of a handshake.
* `main` loads a session file for each, starts the long link's heartbeat in a
  goroutine, makes one short-link request, and saves the sessions. An error
  anywhere is a panic of the whole process; `Close` may run while the goroutine
  is inside `Noop`.

What is hard here: steps of one handshake that fail after others have already
changed the client; retries on a stream that still holds records of the attempt
before; counters that must agree at both ends and never repeat under one key;
keys that depend on the exact order of hashing; a connection lost, or closed
from another goroutine, between any two of these steps; responses that are cut,
stale or refused. `PROJECT.json` lists each such hazard at its line with the
properties that watch over it. Some of these behaviours no property forbids, because
the code has them by design and nothing in the repository says otherwise: a call that
waits for a server that stays silent, a refused ticket that is offered again and
again, a session lost when the program ends while it saves, the zeros behind a record that
is cut. There the properties say what follows and what does not; the notes in
`PROJECT.json` say so.

What makes each component correct:

* long link: both ends hold the same key when `Handshake` returns nil; their
  counters agree; no (key, nonce) pair is sealed with twice; `Noop` returns nil
  only on the answer to that very Noop; nothing succeeds after a failure; what
  the server sends correctly is not refused; calls return.
* short link: a Request returns the answer to itself; nonces do not repeat; the
  session is one the server issued and has proved; connections are closed;
  the server's good answer is not refused; calls return and do not panic.
* session store: what is loaded is what was saved, or an error; never a session
  nobody issued, wherever the file was cut.
* client program: whatever ends the process, the files hold nothing or a session
  that has worked; a dead long link does not go unnoticed.
* packet parser: the records printed are those that were sent, wherever the
  capture ends, each described as its writer meant it; a sealed payload is never
  taken for a message; it terminates.

## 2. Modules

| module | models |
|---|---|
| `Wire` | messages, keys and records as terms, what opens and what parses; the records of a server's handshake |
| `SecureLink` | the abstract specification of the long link: keys offered and agreed, beats and replies |
| `LongLink` | `MMTLSClient`: the client, the server and the connection; its properties; the refinement of `SecureLink` |
| `MCLongLink` | the fault sets of the TLC instances of `LongLink` |
| `SecureRequest` | the abstract specification of the short link: sessions issued and adopted, requests and their answers |
| `ShortLink` | `MMTLSClientShort`: the client, the server and one HTTP exchange at a time; its properties; the refinement of `SecureRequest` |
| `MCShortLink` | the fault sets of the TLC instances of `ShortLink` |
| `Bytes` | byte strings, and the reads of `bytes.Reader`, `io` and `utility.go`: which fail, which pad, which do not look |
| `SessionFile` | sessions and tickets as bytes: `Save`, `LoadSession`, `session_ticket.go` |
| `Octets` | `SessionFile` with bytes of 256 values, as `App` and the proofs take them |
| `App` | `cmd/main.go`: the process, its goroutine, its two session files, over several starts |
| `MCApp` | the ticket counts of the TLC instances of `App` |
| `Records` | records and messages as bytes, with 16-bit lengths: `record.go`, `client_hello.go`, `server_hello.go`, `client_finish.go`, the parts `packHttp` builds |
| `Parser` | `ParseRecords`, every message parser of `parser.go`, and `cmd/parser` |
| `MCParser` | the records captures are made of |
| `WireProofs` | typing lemmas about the operators of `Wire` |
| `LongLinkProofs` | types and nonces of `LongLink`; the handshake over several attempts: which flight answers which hello; keys and sessions |
| `LongLinkStream` | the order of beats, pushes and answers on the stream; the refinement of `SecureLink`; the counters of both ends; nothing good is refused |
| `ShortLinkProofs` | the invariants and action properties of `ShortLink`; one exchange after the other; the refinement of `SecureRequest`; what happens to an intact answer |
| `SessionFileProofs` | what `LoadSession` makes of what `Save` wrote, whole or cut |
| `AppProofs` | the invariants of `App` |
| `ParserProofs` | the lengths in `Records`; the walk of `Parser` over a capture; what the client takes from a ServerHello |
| `ParserMessages` | every message is described as its writer wrote it |

Two chains share no state. `Wire` gives terms to the links, where what matters
is who knows which key; `Bytes`, `SessionFile` and `Records` give bytes to `App`
and `Parser`, where what matters is what a read does when bytes are missing. What
the byte level says of a cut response, `ShortLink` takes over as a form of a
message: `garbled` when the parser refuses it, `badpoint` when it accepts a
padded ServerHello (`Cut`; run `parser` checks which of the two it is, byte by
byte, in `HelloRead`).

### Cryptography as terms (`Wire`)

A message is its kind, the fresh randomness in it (`id`), what its parser makes
of it (`form`), and, for tickets, how many and whose. A transcript is the
sequence of messages fed to the hash. Every derived value (traffic keys,
pre-shared keys, HMACs, the signature) is the triple of a label, a secret and a
transcript: two such triples are equal exactly when the byte strings are, hash
collisions aside. `record.decrypt` succeeds under the key and the sequence
number the record was sealed with (`Opens`). PSK_ACCESS and PSK_REFRESH come
from the same secret and transcript, in the same place, and are one term. The
two keys of a `trafficKeyPair` (client to server, server to client) are one term
too; `NoNonceReuse` looks only at what the client seals. HKDF asked for at most
56 bytes never fails, so the `return nil` of `mmtls.go:92-94` is not reachable.

### State and actions of `LongLink`

The variables carry the names of the fields of `MMTLSClient`
(`conn`, `status`, `serverSeqNum`, `clientSeqNum`, `session`); `transcript` is
the content of `handshakeHasher`; `pc` is the point a call stands at;
`trafficKey` is the local variable of `Handshake` and carries `comKey` as its
secret; `up`, `c2s` and `s2c` are the TCP connection; `srv*`, `flights` and
`answered` the server; and the variables commented "history" only record.

A call is cut at every read and write, where another goroutine's `Close`, the
server or the network can come between. Up to the next such point everything
the code does is one action: hashing, counting, deriving keys, the assignment of
`Session`. Each read of `Handshake` is an action (`ReadServerHello`,
`ReadSignature`, `ReadNewSessionTicket`, `ReadServerFinish`), with one disjunct
for each way out in the source; `ReadFails` is the error of the read itself.
`SendClientFinish` includes the end of `Handshake`, which reads and writes
nothing more of the connection: the write, the application key, `status`.

Things the model keeps because the code does them: the connection is never
dialled again; a retry resets the hash and the counters but not the stream;
ServerHello is hashed and counted before it is parsed; the counter of a write
moves even when the write fails; an unparsable ServerFinish is a success that
counts nothing; `Close` leaves `conn` and `status` as they are; a record that is
no noop answer leaves `serverSeqNum` behind; a key share off the curve panics.

The server answers a hello with the four records, one fault at most among them;
it may accept a new hello in the middle of a handshake or drop the connection;
it drops it when a record makes no sense; it may push data of its own. The
network may break at any time, losing what is on its way. TCP neither reorders
nor duplicates, so the model does not either.

### State and actions of `ShortLink`

As above, with `packetReader` the records of the response still to be read,
`post` and `reply` the HTTP exchange, `conn` its connection, and `call` the
public call in progress (`Handshake` also runs inside `Request`). Building and
posting a request is one action (`SendHello`, `SendRequest`), reading the
response is another, and every record of the body is an action of its own,
although nothing can come between these: their errors differ. So do the ways a
hello is not posted: without a connection (`NotDialled`), or with one that
`Handshake` closes by hand (`WriteFails`) and `Request` by its `defer` (`PostFails`).
The network may lose the connection before the response (`ConnectionLost`), cut
a good response anywhere, inside a record too (`ResponseCut`: `io.Copy`'s error
is dropped and `readRecord` accepts a short read), or deliver an earlier
response in place of the answer (`StaleResponse`). The server may answer any
post with an alert, which stands for an expired ticket as well.

### Bytes: `Bytes`, `SessionFile`, `Records`

A read takes the rest of the input and returns an error flag, a value and the
new rest. `ReadFull` is all or nothing; `Read` is that of `bytes.Reader` into a
buffer of zeros: an error only at the end of the input, else as many bytes as
there are and zeros for the others; `ReadByte` is the code's, whose error is
dropped; `Skip` is `Seek`, which goes past the end. A structure is a sequence of
fields, each with the read the code uses for it (`Scan`), so that the difference
between `readU16LenData`, `io.ReadFull` and `r.Read` is kept where the source
makes it. Loops are recursive functions (`Repeat`). A length written in two bytes
is cut off there (`U16`, `BigEndian`), and `serialize` copies as much of the
payload as its buffer holds, or panics when the buffer is shorter than a header.

### State and actions of `App`

`pc` is where `main` stands, `mem` the `Session` of each client, `beating` and
`link` the goroutine and its connection, `disk` the bytes of the two files;
`issued` is the servers' and `proved` records the sessions a handshake or a Request
has succeeded with. A call of a link is one step with every outcome: the links'
own modules check what happens inside. Saving is two steps, `Open`, which truncates
the file, and `Write`, which may write a part only (`MaxCuts`); either may fail,
and `main` goes on. Every error is a panic of the process (`Ends`), and so is a
failing Noop, wherever `main` stands (`NoopFails`); a signal ends it as well
(`Stopped`). `LinkDies` stands for whatever makes the next Noop fail: the
connection, a push, a closed server. `Offer` empties the age field of the ticket
it sends, in the session itself, as `newPskZeroHello` does through its pointer,
so that what is saved differs from what was issued; the comparison with `proved`
is made without that field. `Genuine` is the server's view of the ticket offered:
the bytes of one it has issued.

The program can meet a ticket its server no longer accepts. Then `Request` fails,
the process panics before it saves, and the next start loads the same ticket: it
restarts for ever until somebody deletes the file. Nothing in the repository
promises otherwise, so no property forbids it.

### State and actions of `Parser`

`sent` is a capture as its writers meant it, `input` its bytes, the last record
cut anywhere; `rest` and `records` are the reader and the result of
`ParseRecords`; `outcome` is how the command ends. `ParseRecord` is one round of
the loop with the whole description of the record, `EndOfInput` its exit. A description is
a name and the raw values below it in order. The writers are those of `Records`,
translated from the client's code and independent of the parsers; the server's
messages are external and written as the client reads them. `Warning: partial parse`
(`cmd/parser/main.go:63`) is never printed: `readRecord` has no error but those
of an input that ends, which `ParseRecords` does not return.

### Left out on purpose

Formatting, logging and hexadecimal input (`FormatRecords`, `truncateHex`, the
names of types and suites, `CleanHexString`; that an input without digits has an
error message of its own); `newSessionTicket.export`, which nothing calls; what
`net/http` makes of a response (`utils/http_util.go`; `main` ignores the result);
the random URL of the HTTP request (its error is one of `NotDialled` and `PostFails`); in the
links, the age field of a ticket, which `App` has; wrap-around of the 32-bit
counters, four thousand million records away on one link; a data race between
`Close` and `Handshake` on the field `conn` itself (`Close` is atomic here). A
sealed record left over on the stream and read as a ServerHello is always
refused: its four length bytes would have to match by chance. `Wire` does
not limit the length of a record; `ParserProofs` says from which length on that
matters.

## 3. Runs

| run | bounds | distinct states | shows |
|---|---|---|---|
| `longlink` | 2 attempts, 2 Noops, 1 push, 0 or 2 tickets, all faults but an unparsable finish | 33,576 | `TypeOK`, `InStep`, `NoopAnswered`, `FailStop`, `CleanRecordsAccepted` |
| `longlink_faults` | 3 attempts, 2 Noops, 1 push, every fault, fairness | 370,470 | `KeyAgreement`, `NoNonceReuse`, `SessionCoherent`, refinement of `SecureLink`, `CallsReturn` |
| `longlink_finish` | 1 attempt, 1 Noop | violation | `InStep` fails when a finish does not parse |
| `shortlink` | 2 handshakes, 2 requests, 0 or 1 ticket, every fault | 1,113,151 | `TypeOK`, `ResponseMatches`, `NoNonceReuse`, `SessionCoherent`, `VerifiedStatus`, `ConnectionsClosed`, `IntactAccepted`, `RequestKeepsSession`, refinement of `SecureRequest` |
| `shortlink_live` | 1 handshake, 2 requests, every fault, fairness | 36,072 | `CallsReturn` |
| `shortlink_tickets` | 1 handshake, 2 requests, no hello off the curve | violation | `TicketToSend` fails without tickets |
| `shortlink_unverified` | the same | violation | `VerifiedSession` fails after a refused finish |
| `shortlink_cut` | the same | violation | `NoPanic` fails on a response cut inside the ServerHello |
| `app` | 3 starts, 1 write cut short, 2 tickets on the long link, 0 or 1 on the short one, fairness | 69,207 | `TypeOK`, `SavedIsProved`, `LoadedKeysWhole`, `DeadLinkEnds` |
| `app_cut` | the same | violation | `LoadedTicketsSaved` fails on a file cut inside its last ticket |
| `parser` | 1 or 2 records of 17 kinds, the last cut at every byte, fairness | 48,770 | `RecordsAsSent`, `DescribedAsWritten`, `HelloRead`, `Ends` |
| `parser_large` | 1 record, bytes of 32 values, payloads of 1018, 1024 and 1030 bytes | violation | `RecordsAsSent` fails when a length does not fit in two bytes |

Why these bounds are enough. Three attempts on one connection let records of
two earlier attempts meet a third; two Noops and one push let a push stand
before, between and after the answers; zero and two tickets take both branches
of the hello. On the short link two handshakes and two requests let a stale
response of either kind meet either call, and a failed handshake precede a
request. Every start with no session and with a loaded one is explored. Nothing
in the code depends on larger counts: the counters are compared only for
equality, and a ticket count only with zero or one.

A process of `App` reads a file at its start and writes it at most once, so three
starts let a session be issued, be offered from the file and be saved aged, and be
loaded once more; the one cut may fall on any of their writes, at every byte of the
file. Keys and tickets are two bytes, since the reads do not depend on how many
there are; none of these bytes is zero, so that a padded value always differs from a
whole one. In `parser` every pair of kinds meets, which is all that a walk
by declared lengths can tell apart, and the cut goes through every field of every
message. Bytes have 256 values, except in `parser_large`: with 32 the
boundary of a length lies at 1024 instead of 65536, and `ParserProofs` proves it
for every base.

`MaxHandshakes`, `MaxNoops`, `MaxRequests`, `MaxPushes`, `MaxStarts`, `MaxCuts`
and `MaxRecords` are the only bounds, each in the guard of the action that starts
the thing it counts (`MaxRecords` in `Init`). `CHECK_DEADLOCK FALSE` stands in every
configuration since a caller that has made its last call, a process that has
panicked and a parser that has printed stop.

Fairness of the links (`FairSpec`): weak fairness of `Continues`, a call in progress
that can take its next step takes it, which the Go scheduler gives a running
goroutine; and of `ServerReacts`, the server deals with a record that has reached it.
Nothing forces a call to be made, a connection to be closed or broken, or a
push. Without a reacting server calls may hang for ever: the reads have no
deadline. So `CallsReturn` says that there is no state in which client and
server wait for each other. In `App`, `main` goes on when it can, and the
goroutine beats every 30 seconds, so that it meets a dead link sooner or later;
nobody is forced to start or stop the program, and no link has to die. `Parser` is a
loop that runs on.

Each property of a passing run has a mutant in `PROJECT.json`: a plausible slip
in one mapped definition (`(mutant: ...)` in the modules) under which TLC finds
the property violated.

## 4. Findings

1. `mmtls.go:272`: an unparsable ServerFinish is returned as success. The
   handshake completes with the server unverified and `serverSeqNum` one behind;
   no answer to a Noop opens (`longlink_finish`).
2. `mmtls_short.go:321`: a handshake answered with no tickets completes. The
   `Request` that made it goes on and panics on `tickets[0]` (`shortlink_tickets`),
   and so does any later one, which does not handshake again because `status` is 1.
3. `mmtls_short.go:179`: the session is replaced before the ServerFinish is
   verified; after a refused handshake the next `Request` uses that session
   (`shortlink_unverified`).
4. `server_hello.go:85`: the nil that `elliptic.Unmarshal` returns for a point off
   the curve is not looked at. A handshake response that a lost connection cuts
   inside the ServerHello is padded with zeros and parsed, and `Handshake` panics
   in `ScalarMult` (`shortlink_cut`).
5. `session_ticket.go:41`: a session file cut inside its last ticket loads without
   an error, with a ticket padded with zeros (`app_cut`). Keys and counts are safe:
   a file cut earlier is refused, or has no tickets (`LoadedKeysWhole`).
6. `record.go:72` and `:98`: lengths are kept in 16 bits. A request with
   65536 bytes or more in its record loses all but the remainder without an error; between
   65531 and 65535 `serialize` panics (`parser_large`, `ParserProofs`).

The long link has the same order as the third (`mmtls.go:248`), but there the
next handshake only offers the ticket and verifies the server again.

## 5. Proofs

Everything below is proved by TLAPS for all values of the constants that satisfy
the assumptions of the modules (for the links `TicketCountsAssumption`,
`FaultsAssumption` and those on the bounds: bounds and ticket counts are naturals,
faults are among those named), and for all sequences of attempts, requests and
failures. Each invariant below is inductive only with the help of others; the ones
that carry the argument are named.

### Long link

| theorem | property | inductive invariant |
|---|---|---|
| `LongLinkProofs!TypeCorrect` | `TypeOK` | with `FlightSent` |
| `LongLinkProofs!NoncesDistinct` | `NoNonceReuse` | `NonceInv` |
| `LongLinkProofs!KeysAgree` | `KeyAgreement` | `AgreeInv` |
| `LongLinkProofs!SessionsCoherent` | `SessionCoherent` | `AgreeInv` |
| `LongLinkStream!NoopsAnswered` | `NoopAnswered` | `StreamInv` |
| `LongLinkStream!FailsForGood` | `FailStop` | `StreamInv` |
| `LongLinkStream!Implements` | `ImplementsSecureLink` | `StreamInv` |
| `LongLinkStream!CountsAgree` | `InStep` | `ClientCounts`, `FinishesParse`, `ServerCounts` |
| `LongLinkStream!CleanCountsAgree` | | the same |
| `LongLinkStream!RefusedForCause` | `CleanRecordsAccepted` | `CleanHandshake`, `CleanData` |

* *Nonces.* Distinctness is not inductive alone. `NonceInv` adds that `status` is 1
  only between calls or while a Noop is read (`StatusAndPc`); that until the
  client has sealed its finish nothing has been sealed with the traffic key of the
  attempt, because its secret contains the key pair of the attempt
  (`TrafficKeyFresh`); that the application key is of the same attempt
  (`AppKeyFresh`); and that everything sealed with it so far has a number below
  `clientSeqNum` (`SealedKeys`). The counter reset of a retry is harmless because
  the key is new, the counter of a failed write because it moves.
* *Agreement.* A retry leaves the records of the attempt before it on the stream. The
  invariant says that every record on the stream is of one of the server's flights
  and every hello of one of the client's attempts, in order (`Answers`,
  `FlightsInOrder`, `HellosInOrder`), and, at each point of `Handshake`, which flight the
  transcript is a prefix of (`Progress`). A record that opens under the
  client's traffic key is of the flight that answered its hello (`KeyTellsFlight`),
  so a handshake that ends has read all of that flight, and both ends derive
  the application key from the same secret and transcript.
* *Stream.* `StreamInv` follows the records sealed with the application key: nothing
  of the sort travels before the handshake is done (`BeforeDone`), beats and
  answers are in the order of their numbers (`BeatsInOrder`, `AnswersInOrder`), and while
  no Noop has failed, at most one answer is outstanding (`Waits`). A failed Noop leaves the counter
  behind an answer that has come or will come, for good; that is why none succeeds
  after it (`CannotResume`).
* *Refinement.* The variables of `SecureLink` are mapped as in `LongLink`; the proof
  has one lemma for each step that is not a stutter (`OfferStep`, `AgreeStep`,
  `BeatStep`, `ReplyStep`, `HandshakeFailsStep`, `BeatEnds`), and one for each group of actions that
  says which it is. Agreement needs `KeysAgree`, a reply `NoopsAnswered`.
* *Counting.* What the server expects plus what is on its way to it is what the client
  has counted, and the other way round. `CountsAgree` has the hypothesis `"finish" \notin
  Faults`: a server never sends a finish that does not parse. It is the fault set
  of the run `longlink`, and the case left out is finding 1, in which
  `InStep` is false (run `longlink_finish`). `CleanCountsAgree` needs no hypothesis:
  the client's half holds always, the server's as long as the server has made no
  mistake. `RefusedForCause` needs that what is on the stream of a server that
  has made none is exactly the rest of the flight being read (`CleanHandshake`) or the
  answers still due (`CleanData`), each record with the key and number the client
  will read it with.

### Short link

| theorem | property | inductive invariant |
|---|---|---|
| `ShortLinkProofs!TypeCorrect` | `TypeOK` | `Typed` |
| `ShortLinkProofs!ConnectionsEnd` | `ConnectionsClosed` | `Typed` |
| `ShortLinkProofs!SessionsKept` | `RequestKeepsSession` | `Typed` |
| `ShortLinkProofs!NoncesDistinct` | `NoNonceReuse` | `NonceInv` |
| `ShortLinkProofs!SessionsCoherent` | `SessionCoherent` | `HandshakeInv` |
| `ShortLinkProofs!CompletionVerified` | `VerifiedStatus` | `HandshakeInv` |
| `ShortLinkProofs!ResponsesMatch` | `ResponseMatches` | `RequestInv` |
| `ShortLinkProofs!Implements` | `ImplementsSecureRequest` | `ExchangeInv` |
| `ShortLinkProofs!Accepted` | `IntactAccepted` | `IntactInv` |

* *Types and control.* `Typed` is `TypeOK`, the fact that a flight the server has
  issued is whole (`IssuedWhole`), and what `pc`, `conn`, `status` and `call` say of each
  other (`Control`).
* *Nonces.* Everything sealed was sealed by a hello of its own (`SealedBy`), since each
  Request and each Handshake puts fresh randomness into the hash the key is derived
  from; `NonceInv` says that the hello now in the transcript has sealed nothing
  before it is sent, and what it has sealed afterwards is numbered once.
* *Handshake.* A response may be an old one. Every record the client can read, in
  a response on its way, in those a stale delivery may repeat, or in `packetReader`, was
  made by the server for one flight or one request (`Received`: `Heard` implies
  `Known`); so what opens under the client's key belongs to its own exchange.
  `Progress` says at each point which flight the transcript follows, `SessionInv` that the session is
  of an issued flight, and of a proved one when `status` is 1.
* *Request.* `RequestInv` does the same for the four records of a response, whose key
  contains the randomness of the request's hello.
* *Refinement.* `SecureRequest` answers each request once, and the server here answers
  a post it has received. `Exchange` says that there is one exchange at a time and
  none between calls; `FlightsInOrder` that a flight is issued to one hello; `Answered`
  that the request now posted has no answer before the server reacts to it.
* *Intact answers.* `IntactInv` says that while nothing has happened to an answer it is the
  one the server gave last, and `packetReader` is the rest of it by position
  (`RestOfLast`): as many records as `serverSeqNum` has not counted. The flight is without
  fault and answers the hello in the transcript (`Faultless`), so the keys the client
  derives from what it has read are those the rest is sealed with, and the
  number of each record is its place (`SealedWith`).

### Lengths

For every `Base` above one (`BaseAssumption` of `Records`; the code's is 256) and every payload:

* `ParserProofs!WholeIffFits`: `serialize` writes the record made by
  `createRecord` whole, without a panic, exactly when header and payload together are
  shorter than `Base * Base`. The lemma `BufferShort` is the point of it: when the
  length of the buffer wraps, it always wraps below the header.
* `ParserProofs!SealedWholeIffFits`: the same for a sealed record, which is 16
  bytes longer: the largest request that arrives whole has a data record of 65514
  bytes.

### Packet parser

| theorem | property | inductive invariant |
|---|---|---|
| `ParserProofs!Printed` | `RecordsAsSent` | `WalkInv` |
| `ParserProofs!HelloTaken` | `HelloRead` | `WalkInv` |
| `ParserMessages!DescribedWhole` | `DescribedAsWritten` | `WalkInv`, `Describing` |
| `ParserMessages!MessagesDescribed` | `DescribedAsWritten` | the same |

For captures of any number of records (`MaxRecords`), cut off at any byte of the
last one, made of any set `Samples` of records that satisfies the hypotheses:

* `AllFit` (all four): each sample is what `createRecord` makes of a byte as its
  type and of a string of bytes that is, with the header, shorter than 2^16. Without
  it `RecordsAsSent` is false: that is finding 6 (run `parser_large`). TLC evaluates
  it for the samples of the run `parser` (`SamplesFit` in `MCParser`).
* `HellosWritten` (`HelloTaken`): a sample called ServerHello is one, of a random of
  32 bytes and a key share of 1 to 201 bytes that ends in a byte other than zero. In
  the program it has 65; up to 201 the length of the message is one byte, and a
  message cut inside its length has a wrong one. A share that ends in a zero and is
  cut by that byte would be padded to itself, which does no harm but is not what
  `HelloRead` says.
* Each sample is described on its own as written, `Shown` (`DescribedWhole`), or, in
  `MessagesDescribed`, is what one of the writers writes, `WrittenMessage`: a
  ClientHello with two keys, with a ticket, or with both; a ServerHello; at most 255
  tickets; a signature or a finish of at least one byte; the extensions, the abort
  and the data of a request, in the clear or sealed; or a handshake record of five
  bytes and less. Randoms, times, nonces, tickets, keys and data are any strings of
  bytes of the lengths the writers give them. The 17 records of the run `parser` are
  of these kinds.

A byte has 256 values (`ByteAssumption` of `Octets`). A sealed payload is the
`Ciphertext` of `Records`, whose first four bytes are never its length; those of a
real one are by chance, once in 2^32 records, which would then be looked at as a
message.

* *The walk.* `Captured` says that the input begins as the records sent, and that
  only bytes of the last one are missing; `InStep` that the records found so far are
  the first ones sent, as they were sent, and that what is left of the input is what
  the others were written as, cut off at the same place. One read of a record
  (`RecordRead`) either takes all of it or meets the end of the input, and then the record is the last one (`CutIsLast`) and is padded with zeros: the
  walk is `PaddedLast` and has no input left to go on with. That exactly the records
  of `Expected` are printed follows at the end, where `WholeIs` says how many of
  them are whole.
* *The hello.* What `readServerHello` reads of a string that begins with a
  ServerHello is followed field by field (`HelloOf`). Of a padded one it reads the
  length of the share, or fails; the share it then accepts ends in a zero, and the
  one sent does not.
* *Descriptions.* `Describing` says that each description is what `parsePayload`
  makes of the record's own bytes, so that by `InStep` everything comes down to one
  message. For each kind, the bytes are first laid out as fields (`Piece`), and the
  reader is followed over them, having shown the first values of the message when it
  has got as far as a field (`HasShown`, `Taking`). The two loops, over suites and
  over extensions, run twice at most with what the client writes (`SuitesTwice`,
  `ExtensionsTwice`); the one over tickets runs as often as its count says. Last,
  the name: which of the parsers `parsePayload` chooses depends on the length in the
  first four bytes and on the flag after it, and each kind has to be shown not to be
  taken for one asked about before it.

### Session file and program

| theorem | property | inductive invariant |
|---|---|---|
| `SessionFileProofs!Loading` | | |
| `AppProofs!TypeCorrect` | `TypeOK` | `AppInv` |
| `AppProofs!Saved` | `SavedIsProved` | `AppInv` |
| `AppProofs!KeysWhole` | `LoadedKeysWhole` | `AppInv` |

For every number of starts up to 255, of writes cut short and of tickets up to 255.
Two assumptions stand behind that: a byte has 256 values
(`ByteAssumption` of `Octets`), and the number a server gives a session of the model is a
byte of its keys (`MaxStartsAssumption`). The ticket count is a byte in the code too
(`session_ticket.go:34`).

* *Loops.* What a loop reads or joins is a recursive function of `Bytes`, of
  `SessionFile` or of the library (`Number`, `Scan`, `Repeat`, `FlattenSeq`). That such a
  definition has its one solution is proved once, in `Recursion` and `OnlySteps`,
  from the induction principle for sets of naturals (`Induction`), which follows from the
  well-foundedness of `<`; `NumberSteps`, `ScanSteps`, `RepeatSteps` and `JoinSteps` are
  its instances.
* *One read.* `Begins(p, q, w)` says that `p` is what is left of `w` when `q` is cut off its
  end. Each kind of read of a string that begins with what its writer wrote has either
  taken it all and left the rest (`Taken`), or met the end of the input (`Missed`):
  `ReadFullOf`, `ReadOf`, `ReadByteOf`, `U16Of`, `U32Of`. `TicketWritten` is that
  `readSessionTicket` of what `serializeTicket` wrote is the ticket.
* *The file.* A read that padded its value has emptied the input, so the next read fails.
  That makes a cut key an error, since something always follows a key, and a cut ticket
  an error unless it is the last (`SoFar`, `OneTicket`). It does not hold of the
  ticket count, whose `ReadByte` has its error dropped: that is the case of no tickets
  (`NoneRead`). `Loading` puts these together.
* *The program.* `AppInv` says that each file is empty or begins as `Save` wrote a session
  that has worked, the rest missing only if a write was cut short (`Files`); that what
  is about to be written has worked (`Memory`); that at most one session of each link
  is issued per start (`Counted`); and where the goroutine may run (`Control`). The
  properties alone are not inductive: of a file that `LoadSession` refuses they say nothing, and
  of a session in memory only the file it came from makes it a well-typed one.

### Only model-checked

* Everything that needs fairness or `ENABLED`, which the prover does not reach:
  `CallsReturn` of both links, `DeadLinkEnds` of `App`, `Ends` of `Parser`.
* The violations: a counterexample is a behaviour, and TLC shows it.

## 6. Plan

Done: the links with their abstract specifications, the session store, the program
and the packet parser, with the runs above, and the theorems of section 5. Nothing
else of the code changes state.

All invariants and action properties that the passing runs check, and both refinements, are
proved; what is left to TLC alone are the liveness properties and the findings. Not modelled are
the parts listed in section 2, and what `net/http` and the formatting make of bytes.
