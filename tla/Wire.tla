-------------------------------- MODULE Wire --------------------------------
(***************************************************************************)
(* What travels between the mmtls client and its server, and the           *)
(* cryptography the client applies to it, as terms: a message is known by  *)
(* its kind and by the fresh randomness in it, a key by the label, secret  *)
(* and transcript it was expanded from, a sealed record by the key and     *)
(* sequence number it was sealed with.  Two terms are equal exactly when   *)
(* the byte strings are, hash and key collisions left aside.               *)
(***************************************************************************)
EXTENDS Naturals, Sequences

Kind == {"ClientHello", "ServerHello", "Signature", "NewSessionTicket",
         "ServerFinish", "ClientFinish", "Noop", "NoopResponse", "Push",
         "Extensions", "Data", "Abort", "Alert"}

(* What the parser of a message makes of it: "ok"; "garbled", the parser   *)
(* returns an error; "badpoint", a ServerHello whose key share is no point *)
(* of the curve, which parses and then makes ScalarMult panic.             *)
Form == {"ok", "garbled", "badpoint"}

(* `id' stands for the fresh bytes of a message (client and server random, *)
(* key share, ticket), `count' is the number of tickets it issues, and     *)
(* `ticket' the handshake that issued the ticket it offers, 0 if none.     *)
Message ==
  [kind : Kind, id : Nat, form : Form, count : Nat, ticket : Nat]

Msg(kind, id, form) ==
  [kind |-> kind, id |-> id, form |-> form, count |-> 0, ticket |-> 0]

Transcript == Seq(Message)

(* The ECDH secret of a client and a server ephemeral key.                 *)
Secret == Nat \X Nat

computeEphemeralSecret(client, server) == <<client, server>>

Label == {"none", "handshake", "application", "psk", "signature",
          "server finished", "client finished", "early data", "request"}

(* Everything derived from a secret and the transcript hash under a label: *)
(* traffic keys, pre-shared keys, HMAC tags; and the server's signature,   *)
(* whose secret is the server's long-term key.                             *)
Key == [label : Label, secret : Secret, hash : Transcript]

hkdfExpand(label, secret, hash) ==
  [label |-> label, secret |-> secret, hash |-> hash]

NoSecret == <<0, 0>>
NoKey == hkdfExpand("none", NoSecret, << >>)

HandshakeKey(secret, hash) == hkdfExpand("handshake", secret, hash)
AppKey(secret, hash)       == hkdfExpand("application", secret, hash)
Psk(secret, hash)          == hkdfExpand("psk", secret, hash)
ServerFinished(secret, hash) == hkdfExpand("server finished", secret, hash)
ClientFinished(secret, hash) == hkdfExpand("client finished", secret, hash)
EcdsaSignature(hash)       == hkdfExpand("signature", NoSecret, hash)

(* A handshake as the server remembers it: the secret it shares with the   *)
(* client and the transcript up to the tickets it issued.                  *)
Flight == [secret : Secret, tr : Transcript]

(* Session: the handshake that issued its tickets and how many, the        *)
(* pre-shared key and the application key.  A Session read back from its   *)
(* file has no application key.                                            *)
SessionType == [issue : Nat, tickets : Nat, psk : Key, appKey : Key]

NoSession == [issue |-> 0, tickets |-> 0, psk |-> NoKey, appKey |-> NoKey]

(* A record: the key and sequence number it was sealed with (NoKey for a   *)
(* plaintext record), the message, and the signature or HMAC tag inside.   *)
Record == [key : Key, seq : Nat, body : Message, tag : Key]

Plain(body) == [key |-> NoKey, seq |-> 0, body |-> body, tag |-> NoKey]

Seal(key, seq, body, tag) ==
  [key |-> key, seq |-> seq, body |-> body, tag |-> tag]

(* record.decrypt: AES-GCM opens a record only under the key it was sealed *)
(* with and with the nonce and additional data of the same sequence number.*)
Opens(rec, key, seq) == rec.key = key /\ rec.seq = seq

-----------------------------------------------------------------------------
(* The server's answer to an ECDHE hello: external, known from what the    *)
(* clients accept.  Fault f makes one message garbled, or the key share no *)
(* point of the curve ("point"), or the signature ("forged") or the HMAC   *)
(* of the finish ("mac") one of other data; n is the number of tickets.    *)
HandshakeFaults == {"none", "hello", "point", "signature", "forged",
                    "tickets", "finish", "mac"}

Faulty(f, g) == IF f = g THEN "garbled" ELSE "ok"

FlightTo(hello, id, f, n) ==
  [secret |-> computeEphemeralSecret(hello.id, id),
   tr |-> <<hello,
            Msg("ServerHello", id,
                IF f = "point" THEN "badpoint" ELSE Faulty(f, "hello")),
            Msg("Signature", id, Faulty(f, "signature")),
            [Msg("NewSessionTicket", id, Faulty(f, "tickets"))
               EXCEPT !.count = n]>>]

(* The transcript up to the hello of the server, and up to its signature.  *)
Hellos(flight) == SubSeq(flight.tr, 1, 2)
Signed(flight) == SubSeq(flight.tr, 1, 3)

FlightPsk(flight) == Psk(flight.secret, Signed(flight))
FlightKey(flight) == HandshakeKey(flight.secret, Hellos(flight))

FlightRecords(flight, f) ==
  <<Plain(flight.tr[2]),
    Seal(FlightKey(flight), 1, flight.tr[3],
         IF f = "forged" THEN NoKey ELSE EcdsaSignature(Hellos(flight))),
    Seal(FlightKey(flight), 2, flight.tr[4], NoKey),
    Seal(FlightKey(flight), 3,
         Msg("ServerFinish", flight.tr[2].id, Faulty(f, "finish")),
         IF f = "mac" THEN NoKey ELSE ServerFinished(flight.secret, flight.tr))>>

(* The first handshake of all, answered with n tickets to an earlier       *)
(* process, and the session that process saved.                            *)
priorFlight(n) == FlightTo(Msg("ClientHello", 0, "ok"), 1, "none", n)

Loaded(n) ==
  [issue |-> 1, tickets |-> n, psk |-> FlightPsk(priorFlight(n)),
   appKey |-> NoKey]

(* The session is the one the server issued with the flight of its number. *)
SessionOf(session, flights) ==
  /\ session.issue \in DOMAIN flights
  /\ session.psk = FlightPsk(flights[session.issue])
  /\ session.tickets = flights[session.issue].tr[4].count

=============================================================================
