----------------------------- MODULE SessionFile -----------------------------
(***************************************************************************)
(* What a session is on disk: Session.Save and LoadSession (session.go)    *)
(* and the tickets inside (session_ticket.go).  A ticket is a record of    *)
(* byte strings; a session its two pre-shared keys and its tickets, the    *)
(* application key is not saved.                                           *)
(***************************************************************************)
EXTENDS Bytes

(* (mutant: an empty ticketAgeAdd written without its length)              *)
serializeNoEmptyAge(t) ==
  t.ticketType \o t.ticketLifeTime
    \o (IF t.ticketAgeAdd = << >> THEN << >> ELSE writeU16LenData(t.ticketAgeAdd))
    \o t.reversed \o writeU16LenData(t.nonce) \o writeU16LenData(t.ticket)

(* sessionTicket.serialize                                                 *)
serializeTicket(t) ==
  t.ticketType \o t.ticketLifeTime \o writeU16LenData(t.ticketAgeAdd)
    \o t.reversed \o writeU16LenData(t.nonce) \o writeU16LenData(t.ticket)

TicketFields ==
  <<Field("ticketType", "byte", 1),   Field("ticketLifeTime", "number", 4),
    Field("ticketAgeAdd", "u16", 2),  Field("reversed", "number", 4),
    Field("nonce", "u16", 2),         Field("ticket", "u16", 2)>>

TicketNames == {TicketFields[i].name : i \in DOMAIN TicketFields}

readSessionTicket(in) ==
  With(Scan(TicketFields, Reader(in)), LAMBDA r :
    IF r.err THEN Failed(r.rest)
    ELSE Got([name \in TicketNames |-> Value(r, name)], r.rest))

(* newSessionTicket.serialize                                              *)
serializeTickets(tickets) ==
  LET body == BigEndian(4, 1) \o BigEndian(Len(tickets), 1) \o
              FlattenSeq([i \in DOMAIN tickets |->
                            writeU32LenData(serializeTicket(tickets[i]))])
  IN  BigEndian(Len(body), 4) \o body

(* One ticket of newSessionTicket: a length, as many bytes or what there   *)
(* is of them and zeros, parsed as a ticket.                               *)
readTicket(r) ==
  With(Prefixed(4, Read, r.rest), LAMBDA data :
    IF data.err THEN [r EXCEPT !.err = TRUE]
    ELSE With(readSessionTicket(data.val), LAMBDA ticket :
      IF ticket.err THEN [r EXCEPT !.err = TRUE]
      ELSE [r EXCEPT !.rest = data.rest, !.out = Append(@, ticket.val)]))

(* The length in front is not looked at, nor is the count compared with    *)
(* what follows.                                                           *)
readNewSessionTicket(in) ==
  With(Scan(<<Field("length", "number", 4), Field("reversed", "byte", 1),
              Field("count", "byte", 1)>>, Reader(in)), LAMBDA head :
    IF head.err THEN [head EXCEPT !.out = << >>]
    ELSE Repeat(Number(Value(head, "count")), readTicket, Reader(head.rest)))

-----------------------------------------------------------------------------
(* A session, the bytes Save writes and what LoadSession makes of bytes.   *)

NoSession == [pskAccess |-> << >>, pskRefresh |-> << >>, tickets |-> << >>]

SaveBytes(s) ==
  writeU16LenData(s.pskAccess) \o writeU16LenData(s.pskRefresh)
    \o serializeTickets(s.tickets)

Loaded(err, access, refresh, tickets) ==
  [err |-> err,
   session |-> IF err THEN NoSession
               ELSE [pskAccess |-> access, pskRefresh |-> refresh,
                     tickets |-> tickets]]

(* (mutant: the error of the tickets dropped, as those of ReadByte are)    *)
IgnoresTicketError(access, refresh, tickets) == access.err \/ refresh.err

LoadFails(access, refresh, tickets) == access.err \/ refresh.err \/ tickets.err

LoadSession(file) ==
  With(readU16LenData(file), LAMBDA access :
    With(readU16LenData(access.rest), LAMBDA refresh :
      With(readNewSessionTicket(refresh.rest), LAMBDA tickets :
        Loaded(LoadFails(access, refresh, tickets),
               access.val, refresh.val, tickets.out))))

=============================================================================
