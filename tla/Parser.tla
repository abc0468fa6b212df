------------------------------- MODULE Parser --------------------------------
(***************************************************************************)
(* The packet parser: ParseRecords and the parsers of the messages         *)
(* (mmtls/parser.go), and the command around them (cmd/parser/main.go).    *)
(* The input is a capture: what a client and a server have written, record *)
(* by record, the end possibly missing.  A description is a name and the   *)
(* raw values below it in order, each with its own name; how values are    *)
(* formatted is left out.                                                  *)
(***************************************************************************)
EXTENDS Records

CONSTANTS
  Samples,     (* the records a capture is made of                          *)
  MaxRecords   (* bound on how many there are                               *)

(* A sample: its record, and the description a reader expects of it.  A    *)
(* record that makes serialize panic is never written.                     *)
ASSUME SamplesAssumption ==
  \A s \in Samples :
    DOMAIN s = {"record", "name", "values"} /\ ~SerializePanics(s.record)
ASSUME MaxRecordsAssumption == MaxRecords \in Nat

VARIABLES
  sent,      (* the samples in the capture                                  *)
  input,     (* the capture as bytes                                        *)
  rest,      (* what the reader has not read                                *)
  records,   (* the records parsed so far                                   *)
  outcome    (* "parsing", or what the command ends with                    *)

vars == <<sent, input, rest, records, outcome>>

-----------------------------------------------------------------------------
(* Descriptions, and loops that end quietly.                               *)

Described(name, values) == [name |-> name, values |-> values]

(* encryptedPayload and encryptedFallback                                  *)
encryptedPayload(data) == Described("Encrypted Payload", << <<"Raw", data>> >>)

Named(name, data, r) == IF r.err THEN encryptedPayload(data)
                        ELSE Described(name, r.out)

(* One round of a loop that breaks on an error: it shows all of its values *)
(* or none.                                                                *)
Round(r, s) == IF s.err THEN [s EXCEPT !.out = r.out] ELSE s

Loop(n, step(_), r) ==
  With(Repeat(n, LAMBDA s : Round(s, step(s)), r), LAMBDA s : [s EXCEPT !.err = FALSE])

NumberIn(r, name) == Number(Value(r, name))

(* Bytes that are read as far as they are there, the error dropped.        *)
Extra(name, n, r) ==
  IF n <= 0 THEN r
  ELSE LET got == Read(n, r.rest)
       IN  [r EXCEPT !.rest = got.rest,
                     !.out = Append(@, <<name, IF got.err THEN Zeros(n) ELSE got.val>>)]

-----------------------------------------------------------------------------
(* ClientHello.                                                            *)

TicketOf(r) ==
  With(readSessionTicket(Value(r, "Ticket")), LAMBDA t :
    IF t.err THEN r
    ELSE [r EXCEPT !.out = @ \o << <<"Nonce", t.val.nonce>>,
                                   <<"Ticket Data", t.val.ticket>> >>])

pskTicket(r) ==
  With(Scan(<<Field("Ticket", "all data", 4)>>, r), LAMBDA s :
    IF s.err THEN s ELSE TicketOf(s))

ecdheKey(r) ==
  Scan(<<Field("Key Length", "number", 4), Field("Key Flag", "number", 4),
         Field("EC Point", "all data", 2)>>, r)

(* The trailer is whatever is left of 13 bytes.                            *)
TrailingMagic(r) ==
  LET n == IF Len(r.rest) < 13 THEN Len(r.rest) ELSE 13
  IN  IF n = 0 THEN r
      ELSE [r EXCEPT !.rest = After(n, @),
                     !.out = Append(@, <<"Trailing Magic", First(n, r.rest)>>)]

Counted(r, step(_)) ==
  With(Scan(<<Field("Count", "all", 1)>>, r), LAMBDA s :
    IF s.err THEN [s EXCEPT !.err = FALSE] ELSE Loop(NumberIn(s, "Count"), step, s))

(* parsePSKExtension, parseECDHEExtension, and any other by its length.    *)
KnownExtension(r, length, marker) ==
  CASE marker = 15 -> Counted(r, pskTicket)
    [] marker = 16 -> TrailingMagic(Counted(r, ecdheKey))
    [] OTHER       -> Extra("Unknown Extension", length - 2, r)

parseExtension(r) ==
  With(Scan(<<Field("Extension Length", "number", 4), Field("Marker", "number", 2)>>, r),
       LAMBDA s : IF s.err THEN [s EXCEPT !.err = FALSE, !.out = r.out]
                  ELSE KnownExtension(s, NumberIn(s, "Extension Length"),
                                      NumberIn(s, "Marker")))

(* The extensions of a hello: without their length and count, none.        *)
Extended(r, extension(_)) ==
  With(Scan(<<Field("Extensions Length", "number", 4), Field("Extensions", "all", 1)>>, r),
       LAMBDA s : IF s.err THEN [s EXCEPT !.err = FALSE, !.out = r.out]
                  ELSE Repeat(NumberIn(s, "Extensions"), extension, s))

parseClientHelloFields(data) ==
  LET suite(r) == Scan(<<Field("Cipher Suite", "number", 2)>>, r)
      head == Scan(<<Field("Total Length", "number", 4), Field("Flag", "byte", 1),
                     Field("Protocol Version", "number", 2),
                     Field("Cipher Suites", "all", 1)>>, Reader(data))
      body(r) == Scan(<<Field("Client Random", "all", 32),
                        Field("Timestamp", "number", 4)>>,
                      Loop(NumberIn(r, "Cipher Suites"), suite, r))
  IN  With(head, LAMBDA r : IF r.err THEN encryptedPayload(data)
      ELSE With(body(r), LAMBDA s : IF s.err THEN encryptedPayload(data)
      ELSE Described("ClientHello", Extended(s, parseExtension).out)))

-----------------------------------------------------------------------------
(* ServerHello.                                                            *)

(* A key share, and what its extension has beyond it.                      *)
keyShare(r) ==
  With(Scan(<<Field("Array Index", "number", 4),
              Field("Server EC Public Key", "all data", 2)>>, r), LAMBDA s :
    IF s.err THEN [s EXCEPT !.err = FALSE, !.out = r.out]
    ELSE Extra("Extra Data", NumberIn(s, "Extension Length")
                 - (8 + Len(Value(s, "Server EC Public Key"))), s))

parseServerHelloExtension(r) ==
  With(Scan(<<Field("Extension Length", "number", 4), Field("Extension", "number", 2)>>, r),
       LAMBDA s : IF s.err THEN [s EXCEPT !.err = FALSE, !.out = r.out]
                  ELSE keyShare(s))

parseServerHelloFields(data) ==
  With(Scan(<<Field("Total Length", "number", 4), Field("Flag", "byte", 1),
              Field("Protocol Version", "number", 2),
              Field("Negotiated Cipher Suite", "number", 2),
              Field("Server Random", "all", 32)>>, Reader(data)), LAMBDA r :
    IF r.err THEN encryptedPayload(data)
    ELSE Described("ServerHello", Extended(r, parseServerHelloExtension).out))

-----------------------------------------------------------------------------
(* The other messages.                                                     *)

(* readSignature and ReadServerFinish                                      *)
FlaggedFields(name) ==
  <<Field("Length", "skip", 4), Field("Type", "byte", 1), Field(name, "data", 2)>>

parseSignatureFields(data) ==
  Named("Signature", data, Scan(FlaggedFields("ECDSA Signature"), Reader(data)))

parseServerFinishFields(data) ==
  Named("ServerFinish", data, Scan(FlaggedFields("Verify Data"), Reader(data)))

parseNewSessionTicketFields(data) ==
  With(readNewSessionTicket(data), LAMBDA r :
    IF r.err THEN encryptedPayload(data)
    ELSE Described("NewSessionTicket",
           Concat(Len(r.out), LAMBDA i : << <<"Nonce", r.out[i].nonce>>,
                                            <<"Ticket Data", r.out[i].ticket>> >>)))

parsePskExtensionsFields(data) ==
  LET head == <<Field("Total Length", "number", 4), Field("Flag", "byte", 1)>>
      body == IF Len(data) < 20 THEN <<Field("Raw Data", "all", Len(data) - 5)>>
              ELSE <<Field("Extension Length", "number", 4),
                     Field("Extension Flag", "byte", 1),
                     Field("Inner Length", "number", 4),
                     Field("Marker", "number", 2), Field("Timestamp", "number", 4)>>
  IN  Described("PSK Extensions (0-RTT)", Scan(head \o body, Reader(data)).out)

(* (mutant: the length compared with that of the whole payload)            *)
WholeLengthFits(data) == Len(data) >= 5 /\ Number(First(4, data)) = Len(data)

(* The length in front is that of the rest: the payload is in the clear.   *)
LengthFits(data) == Len(data) >= 5 /\ Number(First(4, data)) = Len(data) - 4

parseMessage(flag, data) ==
  CASE flag = 1  -> parseClientHelloFields(data)
    [] flag = 2  -> parseServerHelloFields(data)
    [] flag = 8  -> parsePskExtensionsFields(data)
    [] flag = 15 -> parseSignatureFields(data)
    [] flag = 4  -> parseNewSessionTicketFields(data)
    [] flag = 20 -> parseServerFinishFields(data)
    [] OTHER     -> encryptedPayload(data)

parseHandshakePayload(data) ==
  IF LengthFits(data) THEN parseMessage(data[5], data) ELSE encryptedPayload(data)

parseAbortPayload(data) ==
  IF LengthFits(data) THEN Described("Abort (plaintext)", << <<"Data", After(4, data)>> >>)
  ELSE Described("Abort (encrypted)", << <<"Raw", data>> >>)

parseApplicationData(data) ==
  LET header == <<Field("Inner Length", "number", 4), Field("Flag1", "number", 2),
                  Field("Flag2", "number", 2), Field("Data Type", "number", 4),
                  Field("Cmd ID", "number", 4)>>
      payload == IF Len(data) = 16 THEN << >>
                 ELSE <<Field("Payload", "all", Len(data) - 16)>>
  IN  Described("Application Data",
        IF Len(data) >= 16 /\ Number(First(4, data)) = Len(data)
        THEN Scan(header \o payload, Reader(data)).out ELSE << >>)

(* A handshake or system record of five bytes or less is never parsed; a   *)
(* handshake record then counts as one of unknown type.                    *)
parsePayload(type, data) ==
  CASE type \in {MagicHandshake, MagicSystem} /\ Len(data) > 5 -> parseHandshakePayload(data)
    [] type = MagicRecord -> parseApplicationData(data)
    [] type = MagicAbort  -> parseAbortPayload(data)
    [] type = MagicSystem /\ Len(data) <= 5 -> encryptedPayload(data)
    [] OTHER -> Described("Unknown", << <<"Raw", data>> >>)

-----------------------------------------------------------------------------
(* The walk over the capture.                                              *)

Written(samples) == Concat(Len(samples), LAMBDA i : serialize(samples[i].record))

Init ==
  /\ \E n \in 1..MaxRecords : sent \in [1..n -> Samples]
  /\ \E cut \in 0..Len(serialize(Last(sent).record)) :
       input = First(Len(Written(sent)) - cut, Written(sent))
  /\ rest = input
  /\ records = << >>
  /\ outcome = "parsing"

Parsed(r) ==
  LET type == NumberIn(r, "type")
      data == Value(r, "data")
  IN  [index |-> Len(records), type |-> type, raw |-> data,
       description |-> parsePayload(type, data)]

ParseRecord ==
  /\ outcome = "parsing" /\ rest # << >>
  /\ \E r \in {readRecord(rest)} :
       /\ ~r.err
       /\ records' = Append(records, Parsed(r))
       /\ rest' = r.rest
  /\ UNCHANGED <<sent, input, outcome>>

(* (mutant: the loop goes on after an error)                               *)
GoesOn ==
  /\ outcome = "parsing" /\ rest # << >> /\ readRecord(rest).err
  /\ UNCHANGED vars

(* The end of the input, in a record or between two, ends the loop, and is *)
(* no error; the command fails when there is nothing to print.             *)
EndOfInput ==
  /\ outcome = "parsing"
  /\ rest = << >> \/ readRecord(rest).err
  /\ outcome' = IF records = << >> THEN "No records found" ELSE "printed"
  /\ UNCHANGED <<sent, input, rest, records>>

Next == ParseRecord \/ EndOfInput

Spec == Init /\ [][Next]_vars /\ WF_vars(Next)

-----------------------------------------------------------------------------
(* A record of bytes whose length, with that of its header, has 16 bits.   *)
Fits(rec) ==
  /\ rec = createRecord(rec.type, rec.data)
  /\ rec.type \in Byte /\ rec.data \in Seq(Byte)
  /\ Len(rec.data) + HeaderLen < Base * Base

(* The samples wholly in the capture, and what is left of the next one.    *)
Whole == CHOOSE n \in 0..Len(sent) :
           /\ Len(Written(First(n, sent))) <= Len(input)
           /\ n < Len(sent) => Len(Written(First(n + 1, sent))) > Len(input)

Remainder == After(Len(Written(First(Whole, sent))), input)

(* What a reader of the capture can expect, from what was sent: every      *)
(* record that is there, in order, and of one that is cut its payload with *)
(* zeros for what is missing, if any of it is there; only a record without *)
(* a payload at the very end goes unseen.                                  *)
Padded(n) ==
  LET data == sent[n].record.data
  IN  First(Len(Remainder) - HeaderLen, data)
        \o Zeros(Len(data) - (Len(Remainder) - HeaderLen))

Expected ==
  LET whole == [i \in 1..Whole |-> <<sent[i].record.type, sent[i].record.data>>]
      shown == IF Whole > 0 /\ Remainder = << >> /\ whole[Whole][2] = << >>
               THEN Front(whole) ELSE whole
  IN  IF Len(Remainder) > HeaderLen
      THEN Append(shown, <<sent[Whole + 1].record.type, Padded(Whole + 1)>>)
      ELSE shown

(* Wherever the capture ends, the records printed are those that were      *)
(* sent: none is split, merged, invented or left out.                      *)
RecordsAsSent ==
  outcome # "parsing" =>
    /\ [i \in DOMAIN records |-> <<records[i].type, records[i].raw>>] = Expected
    /\ \A i \in DOMAIN records : records[i].index = i - 1

(* A description is that of a sample, and of its values those with the     *)
(* names of the writer's values are the writer's, in the same order.       *)
Shows(description, s) ==
  LET values == description.values
      kept == {j \in DOMAIN values : \E i \in DOMAIN s.values : values[j][1] = s.values[i][1]}
  IN  /\ description.name = s.name
      /\ Cardinality(kept) = Len(s.values)
      /\ \A j \in kept : values[j] = s.values[Cardinality({l \in kept : l <= j})]

(* Every whole record is described as the message its writer wrote, with   *)
(* the values the writer put into it; a sealed one is never taken for a    *)
(* message.                                                                *)
DescribedAsWritten ==
  \A i \in DOMAIN records : i <= Whole => Shows(records[i].description, sent[i])

(* The handshake of the client reads the same records.  From a whole       *)
(* ServerHello it takes the server's key share; of those cut and padded it *)
(* refuses the ones without all four bytes of the hello's own length, and  *)
(* from the others, all of which it accepts, it never takes that share.    *)
HelloRead ==
  \A i \in DOMAIN records : sent[i].name = "ServerHello" =>
    LET hello == readServerHello(records[i].raw)
        share == sent[i].values[Len(sent[i].values)][2]
    IN  IF i <= Whole THEN ~hello.err /\ hello.val = share
        ELSE /\ hello.err <=> Len(Remainder) < HeaderLen + 4
             /\ hello.val # share

(* The walk ends.                                                          *)
Ends == <>(outcome # "parsing")

=============================================================================
