------------------------------- MODULE Records -------------------------------
(***************************************************************************)
(* Records and the messages in them as bytes: what the client writes       *)
(* (record.go, client_hello.go, client_finish.go, mmtls_short.go) and      *)
(* reads back.  A sealed payload is so many bytes that mean nothing to     *)
(* whoever lacks the key.  What a server writes is external.               *)
(***************************************************************************)
EXTENDS SessionFile

ProtocolVersion == 61700
MagicAbort      == 21
MagicHandshake  == 22
MagicRecord     == 23
MagicSystem     == 25

EcdheSuite == 49195
PskSuite   == 168

Concat(n, part(_)) == FlattenSeq([i \in 1..n |-> part(i)])

-----------------------------------------------------------------------------
(* Records (record.go).                                                    *)

(* Arithmetic of uint16.                                                   *)
U16(n) == n % (Base * Base)

createRecord(type, data) ==
  [type |-> type, version |-> ProtocolVersion, length |-> U16(Len(data)),
   data |-> data]

TagLen == 16
Ciphertext(n) == [i \in 1..n |-> 27]

encrypt(rec) == createRecord(rec.type, Ciphertext(Len(rec.data) + TagLen))

HeaderLen == 5

(* The buffer has r.length+5 bytes, computed in uint16.  One that is too   *)
(* short for the header makes the process panic.                           *)
BufferLen(rec) == U16(rec.length + HeaderLen)
SerializePanics(rec) == BufferLen(rec) < HeaderLen

Header(rec) == <<rec.type>> \o BigEndian(rec.version, 2) \o BigEndian(rec.length, 2)
Payload(rec) == First(BufferLen(rec) - HeaderLen, rec.data)

serialize(rec) == Header(rec) \o Payload(rec)

RecordFields ==
  <<Field("type", "number", 1), Field("version", "number", 2),
    Field("data", "data", 2)>>

(* (mutant: io.ReadFull in place of Read)                                  *)
ReadWholeRecord(in) ==
  Scan(<<Field("type", "number", 1), Field("version", "number", 2),
         Field("data", "all data", 2)>>, Reader(in))

(* A header that is cut is an error, a payload that is cut is padded, and  *)
(* a payload of no bytes at the end of the input is an error again.        *)
readRecord(in) == Scan(RecordFields, Reader(in))

-----------------------------------------------------------------------------
(* The messages.                                                           *)

(* clientHello.serialize: the suites in order, their extensions in reverse.*)
PskExtension(hello) ==
  BigEndian(15, 2) \o <<1>> \o writeU32LenData(hello.ticket)

Magic == <<0, 0, 0, 0, 2, 0, 0, 0, 3, 0, 0, 0, 4>>

EcdheExtension(hello) ==
  LET key(i) == writeU32LenData(BigEndian(4 + i, 4) \o writeU16LenData(hello.keys[i]))
  IN  BigEndian(16, 2) \o <<Len(hello.keys)>> \o Concat(Len(hello.keys), key) \o Magic

ClientHello(hello) ==
  LET n == Len(hello.suites)
      suite(i) == BigEndian(hello.suites[i], 2)
      extension(i) ==
        writeU32LenData(IF Reverse(hello.suites)[i] = PskSuite
                        THEN PskExtension(hello) ELSE EcdheExtension(hello))
  IN  writeU32LenData(
        <<1>> \o Reverse(BigEndian(ProtocolVersion, 2)) \o <<n>> \o Concat(n, suite)
          \o hello.random \o BigEndian(hello.timestamp, 4)
          \o writeU32LenData(<<n>> \o Concat(n, extension)))

(* newECDHEHello, newPskOneHello and newPskZeroHello: keys and a ticket    *)
(* without its age, according to the suites.                               *)
newHello(suites, random, timestamp, keys, ticket) ==
  [suites |-> suites, random |-> random, timestamp |-> timestamp, keys |-> keys,
   ticket |-> serializeTicket([ticket EXCEPT !.ticketAgeAdd = << >>])]

(* clientFinish.serialize, and the server's finish and signature.          *)
Flagged(flag, data) == writeU32LenData(<<flag>> \o writeU16LenData(data))

ServerHello(random, point) ==
  writeU32LenData(
    <<2>> \o BigEndian(ProtocolVersion, 2) \o BigEndian(EcdheSuite, 2) \o random
      \o writeU32LenData(<<1>> \o writeU32LenData(
           BigEndian(16, 2) \o BigEndian(0, 4) \o writeU16LenData(point))))

(* (mutant: the array index not skipped)                                   *)
HelloFieldsNoIndex ==
  <<Field("packLen", "number", 4), Field("flag", "skip", 1),
    Field("protocolVersion", "number", 2), Field("cipherSuites", "number", 2),
    Field("random to extension type", "skip", 32 + 4 + 1 + 4 + 2),
    Field("ecPoint", "data", 2)>>

HelloFields ==
  <<Field("packLen", "number", 4), Field("flag", "skip", 1),
    Field("protocolVersion", "number", 2), Field("cipherSuites", "number", 2),
    Field("random to array index", "skip", 32 + 4 + 1 + 4 + 2 + 4),
    Field("ecPoint", "data", 2)>>

(* The point, on the curve or not, of a hello whose length is right.       *)
readServerHello(buf) ==
  With(Scan(HelloFields, Reader(buf)), LAMBDA r :
    IF r.err \/ Len(buf) # Number(Value(r, "packLen")) + 4 THEN Failed(r.rest)
    ELSE Got(Value(r, "ecPoint"), r.rest))

(* packHttp: extensionsPart and abortPart.                                 *)
Extensions(timestamp) ==
  writeU32LenData(<<8>> \o writeU32LenData(
    <<1>> \o writeU32LenData(BigEndian(18, 2) \o BigEndian(timestamp, 4))))

Abort == writeU32LenData(<<0, 1, 1>>)

(* dataRecord.serialize                                                    *)
DataRecord(dataType, cmdId, data) ==
  BigEndian(Len(data) + 16, 4) \o BigEndian(16, 2) \o BigEndian(1, 2)
    \o BigEndian(dataType, 4) \o BigEndian(cmdId, 4) \o data

=============================================================================
