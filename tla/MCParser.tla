------------------------------ MODULE MCParser ------------------------------
(***************************************************************************)
(* Instances of Parser for TLC: one record of every kind the client and a  *)
(* server write, in the clear and sealed, and the shortest ones.           *)
(***************************************************************************)
EXTENDS Parser

Bytes32 == [i \in 1..32 |-> i]
Point(i) == <<4, i, i>>

ATicket(n) ==
  [ticketType |-> <<1>>, ticketLifeTime |-> BigEndian(600, 4), ticketAgeAdd |-> <<7, 7>>,
   reversed |-> BigEndian(72, 4), nonce |-> <<n, 3>>, ticket |-> <<8, n, 9>>]

Sample(type, data, name, values) ==
  [record |-> createRecord(type, data), name |-> name, values |-> values]

Sealed(type, data, name) ==
  LET rec == encrypt(createRecord(type, data))
  IN  [record |-> rec, name |-> name, values |-> << >>]

Hello(suites, keys) ==
  ClientHello(newHello(suites, Bytes32, 2^30, keys, ATicket(1)))

HelloValues(suites, tickets, points) ==
  [i \in DOMAIN suites |-> <<"Cipher Suite", BigEndian(suites[i], 2)>>]
    \o << <<"Client Random", Bytes32>>, <<"Timestamp", BigEndian(2^30, 4)>> >>
    \o tickets \o points

Offered == << <<"Nonce", <<1, 3>> >>, <<"Ticket Data", <<8, 1, 9>> >> >>
Points  == << <<"EC Point", Point(1)>>, <<"EC Point", Point(2)>> >>

Ecdhe == << EcdheSuite >>
One   == << EcdheSuite, PskSuite >>
Zero  == << PskSuite >>

InTheClear ==
  {Sample(MagicHandshake, Hello(Ecdhe, <<Point(1), Point(2)>>), "ClientHello",
          HelloValues(Ecdhe, << >>, Points)),
   Sample(MagicHandshake, Hello(One, <<Point(1), Point(2)>>), "ClientHello",
          HelloValues(One, Offered, Points)),
   Sample(MagicSystem, Hello(Zero, << >>), "ClientHello", HelloValues(Zero, Offered, << >>)),
   Sample(MagicHandshake, ServerHello(Bytes32, Point(3)), "ServerHello",
          << <<"Server Random", Bytes32>>, <<"Server EC Public Key", Point(3)>> >>),
   Sample(MagicHandshake, serializeTickets(<<ATicket(1), ATicket(2)>>), "NewSessionTicket",
          << <<"Nonce", <<1, 3>> >>, <<"Ticket Data", <<8, 1, 9>> >>,
             <<"Nonce", <<2, 3>> >>, <<"Ticket Data", <<8, 2, 9>> >> >>),
   Sample(MagicHandshake, Flagged(15, <<5, 6, 7>>), "Signature",
          << <<"ECDSA Signature", <<5, 6, 7>> >> >>),
   Sample(MagicHandshake, Flagged(20, <<5, 6>>), "ServerFinish",
          << <<"Verify Data", <<5, 6>> >> >>),
   Sample(MagicSystem, Extensions(2^30), "PSK Extensions (0-RTT)",
          << <<"Timestamp", BigEndian(2^30, 4)>> >>),
   Sample(MagicAbort, Abort, "Abort (plaintext)", << <<"Data", <<0, 1, 1>> >> >>),
   Sample(MagicRecord, DataRecord(6, 1, <<9, 9>>), "Application Data",
          << <<"Cmd ID", BigEndian(1, 4)>>, <<"Payload", <<9, 9>> >> >>)}

OutOfSight ==
  {Sealed(MagicHandshake, Flagged(20, <<5, 6>>), "Encrypted Payload"),
   Sealed(MagicSystem, Extensions(2^30), "Encrypted Payload"),
   Sealed(MagicAbort, Abort, "Abort (encrypted)"),
   Sealed(MagicRecord, << >>, "Application Data")}

Short ==
  {Sample(MagicHandshake, <<1, 2, 3>>, "Unknown", << >>),
   Sample(MagicSystem, << >>, "Encrypted Payload", << >>),
   Sample(MagicRecord, DataRecord(6, 1, << >>), "Application Data",
          << <<"Cmd ID", BigEndian(1, 4)>> >>)}

AllSamples == InTheClear \cup OutOfSight \cup Short

(* These are records as ParserProofs assumes them.                         *)
ASSUME SamplesFit == Base = 256 => \A s \in AllSamples : Fits(s.record)

(* With bytes of 32 values a length of two bytes ends at 1023: a record    *)
(* that just fits, and two that do not.                                    *)
Data(n) == Sample(MagicRecord, [i \in 1..n |-> 9], "Application Data", << >>)

LargeSamples == {Data(n) : n \in {1018, 1024, 1030}}

=============================================================================
