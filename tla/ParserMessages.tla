--------------------------- MODULE ParserMessages ---------------------------
(***************************************************************************)
(* Proofs that the parser describes every message as its writer wrote it:  *)
(* that it tells the kinds apart and, for every value a field can have,    *)
(* shows it under its name, in order, and nothing else under such a name.  *)
(***************************************************************************)
EXTENDS ParserProofs, FiniteSetTheorems

-----------------------------------------------------------------------------
(* What the writers write, and the values of it a description must show.   *)

NoValues(s) == s.values = << >>
OneValue(s, name, v) == s.values = << <<name, v>> >>
TwoValues(s, a, v, b, w) == s.values = << <<a, v>>, <<b, w>> >>

InHandshake(s) == s.record.type \in {MagicHandshake, MagicSystem}

(* The ClientHellos (newECDHEHello, newPskOneHello, newPskZeroHello in     *)
(* client_hello.go): those that offer a key exchange carry two keys, and   *)
(* those that offer a ticket the one they were given.                      *)
AHello(s, suites, random, time, keys, t) ==
  /\ InHandshake(s) /\ s.name = "ClientHello"
  /\ random \in Of(32) /\ time \in Nat /\ t \in TicketRecords
  /\ s.record.data = ClientHello(newHello(suites, random, time, keys, t))

AKey(key) == key \in Str /\ Len(key) < Limit2

SuiteValue(x)  == <<"Cipher Suite", x>>
ClientValue(x) == <<"Client Random", x>>
TimeValue(x)   == <<"Timestamp", x>>
NonceValue(x)  == <<"Nonce", x>>
DataValue(x)   == <<"Ticket Data", x>>
PointValue(x)  == <<"EC Point", x>>

WrittenEcdhe(s) ==
  \E random, time, key1, key2, t :
    /\ AHello(s, <<EcdheSuite>>, random, time, <<key1, key2>>, t) /\ AKey(key1) /\ AKey(key2)
    /\ s.values = <<SuiteValue(BigEndian(EcdheSuite, 2)), ClientValue(random),
                    TimeValue(BigEndian(time, 4)), PointValue(key1), PointValue(key2)>>

WrittenOne(s) ==
  \E random, time, key1, key2, t :
    /\ AHello(s, <<EcdheSuite, PskSuite>>, random, time, <<key1, key2>>, t)
    /\ AKey(key1) /\ AKey(key2)
    /\ s.values = <<SuiteValue(BigEndian(EcdheSuite, 2)), SuiteValue(BigEndian(PskSuite, 2)),
                    ClientValue(random), TimeValue(BigEndian(time, 4)),
                    NonceValue(t.nonce), DataValue(t.ticket),
                    PointValue(key1), PointValue(key2)>>

WrittenZero(s) ==
  \E random, time, t :
    /\ AHello(s, <<PskSuite>>, random, time, << >>, t)
    /\ s.values = <<SuiteValue(BigEndian(PskSuite, 2)), ClientValue(random),
                    TimeValue(BigEndian(time, 4)), NonceValue(t.nonce), DataValue(t.ticket)>>

(* What the server answers a hello with.                                   *)
WrittenServer(s) ==
  \E random \in Of(32), share \in Str :
    /\ InHandshake(s) /\ Len(share) < Limit2
    /\ s.record.data = ServerHello(random, share) /\ s.name = "ServerHello"
    /\ TwoValues(s, "Server Random", random, "Server EC Public Key", share)

TicketValues(ts) ==
  Concat(Len(ts), LAMBDA i : << <<"Nonce", ts[i].nonce>>,
                                <<"Ticket Data", ts[i].ticket>> >>)

WrittenTickets(s) ==
  \E ts \in Seq(TicketRecords) :
    /\ Len(ts) < 256 /\ InHandshake(s) /\ s.record.data = serializeTickets(ts)
    /\ s.name = "NewSessionTicket"
    /\ s.values = TicketValues(ts) /\ s.values \in Seq(Names \X Str)

(* Signatures and finishes, which have at least one byte.                  *)
WrittenFlagged(s, flag, name) ==
  \E d \in Str : /\ d # << >> /\ Len(d) < Limit2 /\ InHandshake(s)
                 /\ s.record.data = Flagged(flag, d) /\ OneValue(s, name, d)

WrittenFinish(s) == WrittenFlagged(s, 20, "Verify Data")
WrittenSignature(s) == WrittenFlagged(s, 15, "ECDSA Signature")

(* The records of a request of the short link, and data in the clear.      *)
WrittenExtensions(s) ==
  \E t \in Nat : /\ InHandshake(s) /\ s.record.data = Extensions(t)
                 /\ s.name = "PSK Extensions (0-RTT)"
                 /\ OneValue(s, "Timestamp", BigEndian(t, 4))

WrittenAbort(s) ==
  /\ s.record.type = MagicAbort /\ s.record.data = Abort
  /\ s.name = "Abort (plaintext)" /\ OneValue(s, "Data", <<0, 1, 1>>)

WrittenData(s) ==
  \E dt \in Nat, cmd \in Nat, d \in Str :
    /\ s.record.type = MagicRecord /\ s.record.data = DataRecord(dt, cmd, d)
    /\ s.name = "Application Data"
    /\ IF d = << >> THEN OneValue(s, "Cmd ID", BigEndian(cmd, 4))
       ELSE TwoValues(s, "Cmd ID", BigEndian(cmd, 4), "Payload", d)

(* Sealed records show nothing, and those of five bytes and less do not    *)
(* have a flag to be told by.                                              *)
WrittenSealed(s) ==
  /\ \E n \in Nat : s.record.data = Ciphertext(n + TagLen)
  /\ NoValues(s)
  /\ \/ InHandshake(s) /\ s.name = "Encrypted Payload"
     \/ s.record.type = MagicAbort /\ s.name = "Abort (encrypted)"
     \/ s.record.type = MagicRecord /\ s.name = "Application Data"

WrittenShort(s) ==
  /\ s.record.data \in Str /\ Len(s.record.data) <= 5 /\ NoValues(s)
  /\ \/ s.record.type = MagicSystem /\ s.name = "Encrypted Payload"
     \/ s.record.type = MagicHandshake /\ s.name = "Unknown"

WrittenMessage(s) ==
  \/ WrittenEcdhe(s)
  \/ WrittenOne(s)
  \/ WrittenZero(s)
  \/ WrittenServer(s)
  \/ WrittenTickets(s)
  \/ s.name = "Signature" /\ WrittenSignature(s)
  \/ s.name = "ServerFinish" /\ WrittenFinish(s)
  \/ WrittenExtensions(s)
  \/ WrittenAbort(s)
  \/ WrittenData(s)
  \/ WrittenSealed(s)
  \/ WrittenShort(s)

(* The description of a sample shows what the sample says.                 *)
Shown(s) == Shows(parsePayload(s.record.type, s.record.data), s)

-----------------------------------------------------------------------------
(* What a description shows.                                               *)

(* Where in a description the values of a sample are.                      *)
Places(f, d, s, m, n) ==
  /\ f \in [1..m -> 1..n]
  /\ \A i, j \in 1..m : i < j => f[i] < f[j]
  /\ \A i \in 1..m : d.values[f[i]] = s.values[i]
  /\ \A j \in 1..n : \A i \in 1..m :
       d.values[j][1] = s.values[i][1] => \E l \in 1..m : f[l] = j

LEMMA ShowsAt ==
  ASSUME NEW d, NEW s, NEW m \in Nat, NEW n \in Nat, d.name = s.name,
         DOMAIN d.values = 1..n, DOMAIN s.values = 1..m, Len(s.values) = m,
         NEW f, Places(f, d, s, m, n)
  PROVE  Shows(d, s)
<1> DEFINE kept == {j \in DOMAIN d.values :
                      \E i \in DOMAIN s.values : d.values[j][1] = s.values[i][1]}
           upTo(i) == {l \in kept : l <= f[i]}
<1>1. /\ f \in [1..m -> 1..n]
      /\ \A i, j \in 1..m : i < j => f[i] < f[j]
      /\ \A i \in 1..m : d.values[f[i]] = s.values[i]
  BY DEF Places
<1>2. kept = {f[i] : i \in 1..m}
  <2>1. \A j \in kept : \E l \in 1..m : f[l] = j
    BY DEF Places
  <2>2. \A i \in 1..m : f[i] \in kept
    BY <1>1
  <2>3. kept \subseteq 1..n
    OBVIOUS
  <2> HIDE DEF kept
  <2> QED
    BY <2>1, <2>2, <2>3
<1> HIDE DEF kept
<1>3. \A i, j \in 1..m : f[i] <= f[j] <=> i <= j
  BY <1>1
<1>4. ASSUME NEW k \in 0..m
      PROVE  Cardinality({f[i] : i \in 1..k}) = k
  <2> DEFINE S == {f[i] : i \in 1..k}
             g == [i \in 1..k |-> f[i]]
  <2>1. \A i, j \in 1..k : i # j => f[i] # f[j]
    BY <1>1
  <2>2. g \in Bijection(1..k, S)
    <3>1. g \in [1..k -> S] /\ \A i, j \in 1..k : g[i] = g[j] => i = j
      BY <2>1
    <3>2. \A t \in S : \E i \in 1..k : g[i] = t
      OBVIOUS
    <3> HIDE DEF S, g
    <3> QED
      BY <3>1, <3>2 DEF Bijection, Injection, Surjection, IsInjective
  <2>3. ExistsBijection(1..k, S) /\ k \in Nat
    <3> HIDE DEF S, g
    <3>1. k \in Nat
      OBVIOUS
    <3>2. Bijection(1..k, S) # {}
      BY <2>2
    <3> QED
      BY <3>1, <3>2 DEF ExistsBijection
  <2> HIDE DEF S
  <2>4. Cardinality(S) = k
    BY <2>3, FS_CountingElements
  <2> QED
    BY <2>4 DEF S
<1>5. Cardinality(kept) = m
  <2>1. m \in 0..m
    OBVIOUS
  <2> QED
    BY <1>2, <1>4, <2>1
<1>6. ASSUME NEW i \in 1..m PROVE Cardinality(upTo(i)) = i
  <2>1. upTo(i) = {f[l] : l \in 1..i}
    <3>1. \A j \in upTo(i) : \E l \in 1..i : f[l] = j
      BY <1>2, <1>3
    <3>2. \A l \in 1..i : f[l] \in upTo(i)
      BY <1>2, <1>3
    <3> HIDE DEF upTo
    <3> QED
      BY <3>1, <3>2
  <2>2. i \in 0..m
    OBVIOUS
  <2> QED
    BY <1>4, <2>1, <2>2
<1>7. ASSUME NEW j \in kept PROVE d.values[j] = s.values[Cardinality({l \in kept : l <= j})]
  <2>1. PICK i \in 1..m : j = f[i]
    BY <1>2
  <2>2. Cardinality({l \in kept : l <= j}) = i
    BY <1>6, <2>1
  <2> QED
    BY <1>1, <2>1, <2>2
<1> QED
  BY <1>5, <1>7 DEF Shows, kept

-----------------------------------------------------------------------------
(* Reads of what is there, byte for byte.                                  *)

LEMMA GotAll ==
  ASSUME NEW a \in Str, NEW b \in Str, NEW n, n = Len(a)
  PROVE  /\ ReadFull(n, a \o b) = Got(a, b)
         /\ Skip(n, a \o b) = Got(<< >>, b)
         /\ n = 1 => ReadByte(a \o b) = Got(a, b)
<1> DEFINE p == a \o b
<1>1. p \in Str /\ Len(p) = Len(a) + Len(b) /\ Len(a) \in Nat /\ Len(b) \in Nat
  BY JoinStr, OnlyEmpty
<1>2. First(Len(a), p) = a /\ After(Len(a), p) = b
  BY SplitWhole DEF Str
<1> HIDE DEF p
<1>3. ~ (Len(p) < n)
  BY <1>1
<1>4. n = 1 => p # << >>
  <2>1. n = 1 => Len(p) # 0
    BY <1>1
  <2> QED
    BY <1>1, <2>1, OnlyEmpty
<1>5. ReadFull(n, p) = Got(a, b) /\ Skip(n, p) = Got(<< >>, b)
  BY <1>2, <1>3 DEF ReadFull, Skip
<1>6. n = 1 => ReadByte(p) = Got(a, b)
  BY <1>2, <1>4 DEF ReadByte
<1> QED
  BY <1>5, <1>6 DEF p

LEMMA GotData ==
  ASSUME NEW d \in Str, NEW b \in Str, Len(d) < Limit2
  PROVE  /\ Prefixed(2, ReadFull, BigEndian(Len(d), 2) \o (d \o b)) = Got(d, b)
         /\ d # << >> => Prefixed(2, Read, BigEndian(Len(d), 2) \o (d \o b)) = Got(d, b)
<1> DEFINE k == Len(d)
           a == BigEndian(k, 2)
           q == d \o b
           p == a \o q
<1>1. k \in Nat /\ a \in Str /\ 2 = Len(a) /\ Number(a) = k
  <2>1. k \in Nat
    BY OnlyEmpty
  <2> HIDE DEF k
  <2> QED
    BY <2>1, BigEndianType, NumberOfBigEndian DEF Of, k
<1>2. q \in Str /\ Len(q) = Len(d) + Len(b) /\ Len(b) \in Nat
  BY JoinStr, OnlyEmpty
<1> HIDE DEF a
<1>3. ReadFull(2, p) = Got(a, q)
  <2> HIDE DEF q
  <2> QED
    BY <1>1, <1>2, GotAll
<1>4. ReadFull(k, q) = Got(d, b)
  BY GotAll
<1>5. d # << >> => Read(k, q) = Got(d, b)
  <2> SUFFICES ASSUME d # << >> PROVE Read(k, q) = Got(d, b)
    OBVIOUS
  <2>1. k > 0
    BY <1>1, OnlyEmpty
  <2>2. q # << >> /\ k <= Len(q)
    <3>1. Len(q) # 0 /\ k <= Len(q)
      BY <1>1, <1>2, <2>1
    <3> QED
      BY <1>2, <3>1, OnlyEmpty
  <2>3. Begins(q, << >>, d \o b)
    BY <1>2, BeginsWhole
  <2>4. Read(k, q).val = d /\ Begins(Read(k, q).rest, << >>, b)
    <3> HIDE DEF q
    <3> QED
      BY <2>2, <2>3, ReadTaken
  <2>5. Read(k, q).rest = b
    BY <2>4, NothingCut
  <2>6. Read(k, q) = Got(Read(k, q).val, Read(k, q).rest)
    <3> HIDE DEF q
    <3> QED
      BY <2>2 DEF Read, Got
  <2> QED
    BY <2>4, <2>5, <2>6
<1> HIDE DEF k, p, q
<1>6. /\ ReadFull(2, p).err = FALSE /\ ReadFull(2, p).val = a /\ ReadFull(2, p).rest = q
  BY <1>3 DEF Got
<1>7. Prefixed(2, ReadFull, p) = Got(d, b)
  BY <1>1, <1>4, <1>6, PrefixedAll
<1>8. d # << >> => Prefixed(2, Read, p) = Got(d, b)
  BY <1>1, <1>5, <1>6, PrefixedRead
<1> QED
  BY <1>7, <1>8 DEF a, k, p, q

(* A scan from the start.                                                  *)
ReadWith(s, fields, at, vals) ==
  /\ s \in Readers /\ s.err = FALSE /\ s.rest = at[Len(fields) + 1]
  /\ DOMAIN s.out = 1..Len(fields) /\ Len(s.out) = Len(fields)
  /\ \A i \in 1..Len(fields) :
       /\ s.out[i][1] = fields[i].name /\ s.out[i][2] = vals[i]
       /\ s.out[i] = <<fields[i].name, vals[i]>>

LEMMA ScanShows ==
  ASSUME NEW fields \in Seq(Fields), NEW p \in Str, NEW at, NEW vals, at[1] = p,
         Reading(fields, at, vals)
  PROVE  ReadWith(Scan(fields, Reader(p)), fields, at, vals)
<1> DEFINE s == Scan(fields, Reader(p))
<1>1. PICK r \in Readers : r = Reader(p)
  BY ReaderType
<1>2. r.err = FALSE /\ r.rest = p /\ r.out = << >>
  BY <1>1 DEF Reader
<1>3. HasRead(Scan(fields, r), r, fields, at, vals)
  BY <1>2, ScanReads
<1>4. HasRead(s, r, fields, at, vals)
  BY <1>1, <1>3
<1> HIDE DEF s
<1>5. Len(r.out) = 0 /\ Len(fields) \in Nat
  BY <1>2, EmptyStr, LenProperties
<1>6. /\ s \in Readers /\ s.err = FALSE /\ s.rest = at[Len(fields) + 1]
      /\ Len(s.out) = Len(fields)
  BY <1>4, <1>5 DEF HasRead
<1>7. \A i \in 1..Len(fields) : s.out[i] = <<fields[i].name, vals[i]>>
  <2>1. \A i \in 1..Len(fields) : s.out[0 + i] = <<fields[i].name, vals[i]>>
    BY <1>4, <1>5 DEF HasRead
  <2> QED
    BY <1>5, <2>1
<1>8. DOMAIN s.out = 1..Len(fields)
  <2>1. s.out \in Seq(Names \X Str)
    BY <1>6 DEF Readers
  <2> QED
    BY <1>6, <2>1, LenProperties
<1> QED
  BY <1>6, <1>7, <1>8 DEF ReadWith, s

(* A message behind its length.                                            *)
LEMMA Framed ==
  ASSUME NEW x \in Str, Len(x) > 0, Len(x) < Limit4
  PROVE  LET p == writeU32LenData(x)
         IN  /\ p \in Str /\ Len(p) = Len(x) + 4 /\ p = BigEndian(Len(x), 4) \o x
             /\ BigEndian(Len(x), 4) \in Str /\ Len(BigEndian(Len(x), 4)) = 4
             /\ LengthFits(p) /\ After(4, p) = x /\ p[5] = x[1]
<1> DEFINE k == Len(x)
           a == BigEndian(k, 4)
           p == writeU32LenData(x)
<1>1. k \in Nat /\ a \in Str /\ 4 = Len(a) /\ Number(a) = k
  <2>1. k \in Nat
    BY OnlyEmpty
  <2> HIDE DEF k
  <2> QED
    BY <2>1, BigEndianType, NumberOfBigEndian DEF Of, k
<1>2. p = a \o x
  BY DEF writeU32LenData
<1> HIDE DEF a, p
<1>3. Joins(a, 4, x, k, p)
  BY <1>1, <1>2, JoinAt
<1>4. First(4, p) = a /\ After(4, p) = x
  <2>1. First(Len(a), a \o x) = a /\ After(Len(a), a \o x) = x
    BY <1>1, SplitWhole DEF Str
  <2> QED
    BY <1>1, <1>2, <2>1
<1>5. p \in Str /\ Len(p) = 4 + k /\ p[5] = x[1]
  <2>1. 1 \in 1..k /\ 4 + 1 = 5
    BY <1>1
  <2> QED
    BY <1>3, <2>1 DEF Joins
<1>6. LengthFits(p)
  <2>1. Len(p) >= 5 /\ Number(First(4, p)) = Len(p) - 4
    BY <1>1, <1>4, <1>5
  <2> QED
    BY <2>1 DEF LengthFits
<1> QED
  BY <1>1, <1>2, <1>4, <1>5, <1>6 DEF a, p, k

(* Descriptions that show one value, and two.                              *)

OneAt(d, s, n, k, name, v) ==
  /\ d.name = s.name /\ DOMAIN d.values = 1..n /\ OneValue(s, name, v)
  /\ d.values[k] = <<name, v>> /\ \A j \in 1..n : d.values[j][1] = name => j = k

TwoAt(d, s, n, k, l, a, v, b, w) ==
  /\ d.name = s.name /\ DOMAIN d.values = 1..n /\ TwoValues(s, a, v, b, w) /\ k < l
  /\ d.values[k] = <<a, v>> /\ \A j \in 1..n : d.values[j][1] = a => j = k
  /\ d.values[l] = <<b, w>> /\ \A j \in 1..n : d.values[j][1] = b => j = l

LEMMA OneShown ==
  ASSUME NEW d, NEW s, NEW n \in Nat, NEW k \in 1..n, NEW name, NEW v,
         OneAt(d, s, n, k, name, v)
  PROVE  Shows(d, s)
<1> USE DEF OneAt, OneValue
<1> DEFINE f == [i \in 1..1 |-> k]
<1>1. /\ DOMAIN s.values = 1..1 /\ Len(s.values) = 1 /\ s.values[1] = <<name, v>>
      /\ s.values[1][1] = name
  OBVIOUS
<1>2. \A i \in 1..1 : i = 1 /\ f[i] = k
  OBVIOUS
<1>3. f \in [1..1 -> 1..n] /\ 1 \in 1..1
  OBVIOUS
<1> HIDE DEF f
<1>4. \A i, j \in 1..1 : i < j => f[i] < f[j]
  BY <1>2
<1>5. \A i \in 1..1 : d.values[f[i]] = s.values[i]
  BY <1>1, <1>2
<1>6. \A j \in 1..n : \A i \in 1..1 :
        d.values[j][1] = s.values[i][1] => \E l \in 1..1 : f[l] = j
  BY <1>1, <1>2, <1>3
<1>7. Places(f, d, s, 1, n)
  BY <1>3, <1>4, <1>5, <1>6 DEF Places
<1> QED
  BY <1>1, <1>7, ShowsAt

LEMMA TwoShown ==
  ASSUME NEW d, NEW s, NEW n \in Nat, NEW k \in 1..n, NEW l \in 1..n,
         NEW a, NEW v, NEW b, NEW w, TwoAt(d, s, n, k, l, a, v, b, w)
  PROVE  Shows(d, s)
<1> USE DEF TwoAt, TwoValues
<1> DEFINE f == [i \in 1..2 |-> IF i = 1 THEN k ELSE l]
<1>1. /\ DOMAIN s.values = 1..2 /\ Len(s.values) = 2
      /\ s.values[1] = <<a, v>> /\ s.values[2] = <<b, w>>
      /\ s.values[1][1] = a /\ s.values[2][1] = b
  OBVIOUS
<1>2. /\ \A i \in 1..2 : i = 1 \/ i = 2
      /\ f[1] = k /\ f[2] = l /\ f \in [1..2 -> 1..n] /\ 1 \in 1..2 /\ 2 \in 1..2
  OBVIOUS
<1> HIDE DEF f
<1>3. \A i, j \in 1..2 : i < j => f[i] < f[j]
  <2>1. \A i, j \in 1..2 : i < j => i = 1 /\ j = 2
    OBVIOUS
  <2> QED
    BY <1>2, <2>1
<1>4. \A i \in 1..2 : d.values[f[i]] = s.values[i]
  BY <1>1, <1>2
<1>5. \A j \in 1..n : \A i \in 1..2 :
        d.values[j][1] = s.values[i][1] => \E m \in 1..2 : f[m] = j
  BY <1>1, <1>2
<1>6. Places(f, d, s, 2, n)
  BY <1>2, <1>3, <1>4, <1>5 DEF Places
<1> QED
  BY <1>1, <1>6, ShowsAt

-----------------------------------------------------------------------------
(* The messages.                                                           *)

LEMMA ShownBy ==
  ASSUME NEW s, NEW d, d = parsePayload(s.record.type, s.record.data), Shows(d, s)
  PROVE  Shown(s)
  BY DEF Shown

LEMMA HandshakePayload ==
  ASSUME NEW type \in {MagicHandshake, MagicSystem}, NEW data \in Str, Len(data) > 5
  PROVE  parsePayload(type, data) = parseHandshakePayload(data)
<1>1. ~ (Len(data) <= 5)
  BY OnlyEmpty
<1>2. type # MagicRecord /\ type # MagicAbort
  BY DEF MagicHandshake, MagicSystem, MagicRecord, MagicAbort
<1> QED
  BY <1>1, <1>2 DEF parsePayload

LEMMA MessageIs ==
  ASSUME NEW type \in {MagicHandshake, MagicSystem}, NEW x \in Str, Len(x) > 1,
         Len(x) < Limit4
  PROVE  parsePayload(type, writeU32LenData(x)) = parseMessage(x[1], writeU32LenData(x))
<1> DEFINE p == writeU32LenData(x)
<1>1. Len(x) \in Nat
  BY OnlyEmpty
<1>2. p \in Str /\ Len(p) = Len(x) + 4 /\ LengthFits(p) /\ p[5] = x[1]
  BY <1>1, Framed
<1> HIDE DEF p
<1>3. Len(p) > 5
  BY <1>1, <1>2
<1>4. parsePayload(type, p) = parseHandshakePayload(p)
  BY <1>2, <1>3, HandshakePayload
<1>5. parseHandshakePayload(p) = parseMessage(p[5], p)
  BY <1>2 DEF parseHandshakePayload
<1> QED
  BY <1>2, <1>4, <1>5 DEF p

LEMMA FlaggedFieldsAre ==
  ASSUME NEW name \in Names
  PROVE  LET fields == FlaggedFields(name)
         IN  /\ fields \in Seq(Fields) /\ Len(fields) = 3
             /\ fields[1].name = "Length" /\ fields[2].name = "Type" /\ fields[3].name = name
             /\ \A q : /\ ReadField(fields[1], q) = Skip(4, q)
                       /\ ReadField(fields[2], q) = ReadByte(q)
                       /\ ReadField(fields[3], q) = Prefixed(2, Read, q)
<1> DEFINE a == Field("Length", "skip", 4)
           b == Field("Type", "byte", 1)
           c == Field(name, "data", 2)
<1>1. a \in Fields /\ b \in Fields /\ c \in Fields
  <2>1. "Length" \in Names /\ "Type" \in Names
    BY DEF Names, ShownNames
  <2> QED
    BY <2>1 DEF Field, Fields, Hows
<1>2. /\ a.name = "Length" /\ a.how = "skip" /\ a.width = 4
      /\ b.name = "Type" /\ b.how = "byte"
      /\ c.name = name /\ c.how = "data" /\ c.width = 2
  BY DEF Field
<1>3. FlaggedFields(name) = <<a, b, c>>
  BY DEF FlaggedFields
<1> HIDE DEF a, b, c
<1>4. /\ FlaggedFields(name) \in Seq(Fields) /\ Len(FlaggedFields(name)) = 3
      /\ FlaggedFields(name)[1] = a /\ FlaggedFields(name)[2] = b
      /\ FlaggedFields(name)[3] = c
  BY <1>1, <1>3
<1>5. ASSUME NEW q
      PROVE  /\ ReadField(a, q) = Skip(4, q) /\ ReadField(b, q) = ReadByte(q)
             /\ ReadField(c, q) = Prefixed(2, Read, q)
  BY <1>1, <1>2, FieldRead
<1> QED
  BY <1>2, <1>4, <1>5

(* A signature or a finish, as its readers see it.                         *)
LEMMA FlaggedRead ==
  ASSUME NEW flag \in Byte, NEW d \in Str, d # << >>, Len(d) < Limit2,
         NEW name \in Names, name # "Length", name # "Type"
  PROVE  LET p == Flagged(flag, d)
             s == Scan(FlaggedFields(name), Reader(p))
         IN  /\ \A type \in {MagicHandshake, MagicSystem} :
                  parsePayload(type, p) = parseMessage(flag, p)
             /\ s.err = FALSE /\ DOMAIN s.out = 1..3 /\ s.out[3] = <<name, d>>
             /\ \A j \in 1..3 : s.out[j][1] = name => j = 3
<1> DEFINE n == BigEndian(Len(d), 2)
           u == n \o d
           o == <<flag>>
           x == o \o u
           a == BigEndian(Len(x), 4)
           p == Flagged(flag, d)
           fields == FlaggedFields(name)
           s == Scan(fields, Reader(p))
           at == <<p, x, u, << >>, << >> >>
           vals == << << >>, o, d>>
<1>1. /\ Len(d) \in Nat /\ Len(d) > 0
      /\ n \in Str /\ Len(n) = 2 /\ o \in Str /\ Len(o) = 1 /\ o[1] = flag
  <2>1. Len(d) \in Nat /\ Len(d) # 0
    BY OnlyEmpty
  <2>2. n \in Str /\ Len(n) = 2
    BY <2>1, BigEndianType DEF Of
  <2>3. o \in Str /\ Len(o) = 1 /\ o[1] = flag
    BY DEF Str
  <2> QED
    BY <2>1, <2>2, <2>3
<1> HIDE DEF n, o
<1>2. u \in Str /\ Len(u) = 2 + Len(d)
  BY <1>1, JoinStr
<1> HIDE DEF u
<1>3. x \in Str /\ Len(x) = 1 + Len(u) /\ x[1] = flag
  <2>1. Joins(o, 1, u, Len(u), x)
    BY <1>1, <1>2, JoinAt
  <2> HIDE DEF x
  <2> QED
    BY <1>1, <2>1 DEF Joins
<1>4. Len(x) > 1 /\ Len(x) < Limit4 /\ Len(x) \in Nat
  BY <1>1, <1>2, <1>3 DEF Limit2, Limit4
<1>5. p = writeU32LenData(x)
  BY DEF Flagged, writeU16LenData, x, u, n, o
<1>6. p \in Str /\ p = a \o x /\ a \in Str /\ Len(a) = 4
  <2> HIDE DEF x, p
  <2> QED
    BY <1>3, <1>4, <1>5, Framed
<1>7. \A type \in {MagicHandshake, MagicSystem} : parsePayload(type, p) = parseMessage(flag, p)
  <2> HIDE DEF x, p
  <2> QED
    BY <1>3, <1>4, <1>5, MessageIs
<1> HIDE DEF a, p
<1>8. Skip(4, p) = Got(<< >>, x)
  <2> HIDE DEF x
  <2> QED
    BY <1>3, <1>6, GotAll
<1>9. ReadByte(x) = Got(o, u)
  BY <1>1, <1>2, GotAll
<1> HIDE DEF x
<1>10. Prefixed(2, Read, u) = Got(d, << >>)
  <2>1. d \o << >> = d
    BY ConcatEmptySeq DEF Str
  <2>2. Prefixed(2, Read, n \o (d \o << >>)) = Got(d, << >>)
    BY EmptyStr, GotData DEF n
  <2> QED
    BY <2>1, <2>2 DEF u
<1>11. /\ fields \in Seq(Fields) /\ Len(fields) = 3
       /\ fields[1].name = "Length" /\ fields[2].name = "Type" /\ fields[3].name = name
       /\ ReadField(fields[1], p) = Skip(4, p)
       /\ ReadField(fields[2], x) = ReadByte(x)
       /\ ReadField(fields[3], u) = Prefixed(2, Read, u)
  BY FlaggedFieldsAre
<1> HIDE DEF fields
<1>12. /\ at[1] = p /\ at[2] = x /\ at[3] = u /\ at[4] = << >>
       /\ vals[1] = << >> /\ vals[2] = o /\ vals[3] = d
  OBVIOUS
<1> HIDE DEF at, vals
<1>13. \A i \in 1..3 : i = 1 \/ i = 2 \/ i = 3
  OBVIOUS
<1>14. Reading(fields, at, vals)
  <2>1. /\ ReadField(fields[1], at[1]) = Got(vals[1], at[2])
        /\ ReadField(fields[2], at[2]) = Got(vals[2], at[3])
        /\ ReadField(fields[3], at[3]) = Got(vals[3], at[4])
    BY <1>8, <1>9, <1>10, <1>11, <1>12
  <2>2. 1 + 1 = 2 /\ 2 + 1 = 3 /\ 3 + 1 = 4
    OBVIOUS
  <2>3. \A i \in 1..3 : ReadField(fields[i], at[i]) = Got(vals[i], at[i + 1])
    BY <1>13, <2>1, <2>2
  <2> QED
    BY <1>11, <2>3 DEF Reading
<1>15. /\ s.err = FALSE /\ DOMAIN s.out = 1..Len(fields)
       /\ \A i \in 1..Len(fields) :
            s.out[i][1] = fields[i].name /\ s.out[i] = <<fields[i].name, vals[i]>>
  <2>1. ReadWith(s, fields, at, vals)
    BY <1>6, <1>11, <1>12, <1>14, ScanShows
  <2> HIDE DEF s
  <2> QED
    BY <2>1 DEF ReadWith
<1> HIDE DEF s
<1>16. /\ s.out[1][1] = "Length" /\ s.out[2][1] = "Type"
       /\ s.out[3] = <<fields[3].name, vals[3]>>
  <2>1. 1 \in 1..3 /\ 2 \in 1..3 /\ 3 \in 1..3
    OBVIOUS
  <2> QED
    BY <1>11, <1>15, <2>1
<1>17. s.out[3] = <<name, d>>
  BY <1>11, <1>12, <1>16
<1>18. \A j \in 1..3 : s.out[j][1] = name => j = 3
  BY <1>13, <1>16
<1> QED
  BY <1>7, <1>11, <1>15, <1>17, <1>18 DEF s, p, fields

(* The message of a flag.                                                  *)
LEMMA MessageOf ==
  ASSUME NEW p
  PROVE  /\ parseMessage(1, p) = parseClientHelloFields(p)
         /\ parseMessage(2, p) = parseServerHelloFields(p)
         /\ parseMessage(8, p) = parsePskExtensionsFields(p)
         /\ parseMessage(15, p) = parseSignatureFields(p)
         /\ parseMessage(4, p) = parseNewSessionTicketFields(p)
         /\ parseMessage(20, p) = parseServerFinishFields(p)
  BY DEF parseMessage

LEMMA FlaggedShown ==
  ASSUME NEW flag \in Byte, NEW d \in Str, d # << >>, Len(d) < Limit2,
         NEW name \in Names, name # "Length", name # "Type", NEW kind,
         LET p == Flagged(flag, d)
         IN  parseMessage(flag, p) = Named(kind, p, Scan(FlaggedFields(name), Reader(p))),
         NEW s, InHandshake(s), s.record.data = Flagged(flag, d), s.name = kind,
         OneValue(s, name, d)
  PROVE  Shown(s)
<1> DEFINE p == Flagged(flag, d)
           r == Scan(FlaggedFields(name), Reader(p))
           desc == parsePayload(s.record.type, s.record.data)
<1>1. /\ \A type \in {MagicHandshake, MagicSystem} :
           parsePayload(type, p) = parseMessage(flag, p)
      /\ r.err = FALSE /\ DOMAIN r.out = 1..3 /\ r.out[3] = <<name, d>>
      /\ \A j \in 1..3 : r.out[j][1] = name => j = 3
  BY FlaggedRead
<1>2. parseMessage(flag, p) = Named(kind, p, r)
  OBVIOUS
<1>4. s.record.type \in {MagicHandshake, MagicSystem} /\ s.record.data = p
  BY DEF InHandshake
<1> HIDE DEF p, r
<1>5. Named(kind, p, r) = Described(kind, r.out)
  BY <1>1 DEF Named
<1>6. desc = Described(kind, r.out)
  BY <1>1, <1>2, <1>4, <1>5
<1>10. desc = parsePayload(s.record.type, s.record.data)
  OBVIOUS
<1> HIDE DEF desc
<1>7. desc.name = s.name /\ desc.values = r.out
  BY <1>6 DEF Described
<1>8. 3 \in 1..3 /\ 3 \in Nat
  OBVIOUS
<1>9. Shows(desc, s)
  <2>1. OneAt(desc, s, 3, 3, name, d)
    BY <1>1, <1>7 DEF OneAt
  <2> QED
    BY <1>8, <2>1, OneShown
<1> QED
  BY <1>9, <1>10, ShownBy

(* A finish and a signature, which are never empty.                        *)

LEMMA FinishShown ==
  ASSUME NEW s, s.name = "ServerFinish", WrittenFinish(s)
  PROVE  Shown(s)
<1>1. PICK d \in Str : /\ d # << >> /\ Len(d) < Limit2 /\ InHandshake(s)
                       /\ s.record.data = Flagged(20, d) /\ OneValue(s, "Verify Data", d)
  BY DEF WrittenFinish, WrittenFlagged
<1>2. 20 \in Byte
  <2>1. 20 \in 0..255
    OBVIOUS
  <2> QED
    BY <2>1, ByteValues
<1>3. PICK name \in Names : name = "Verify Data"
  BY DEF Names, ShownNames
<1>4. name # "Length" /\ name # "Type"
  BY <1>3
<1>5. OneValue(s, name, d)
  BY <1>1, <1>3
<1> DEFINE p == Flagged(20, d)
<1>6. parseMessage(20, p) = Named("ServerFinish", p, Scan(FlaggedFields(name), Reader(p)))
  <2> HIDE DEF p
  <2> QED
    BY <1>3, MessageOf DEF parseServerFinishFields
<1> QED
  BY <1>1, <1>2, <1>4, <1>5, <1>6, FlaggedShown

LEMMA SignatureShown ==
  ASSUME NEW s, s.name = "Signature", WrittenSignature(s)
  PROVE  Shown(s)
<1>1. PICK d \in Str : /\ d # << >> /\ Len(d) < Limit2 /\ InHandshake(s)
                       /\ s.record.data = Flagged(15, d) /\ OneValue(s, "ECDSA Signature", d)
  BY DEF WrittenSignature, WrittenFlagged
<1>2. 15 \in Byte
  <2>1. 15 \in 0..255
    OBVIOUS
  <2> QED
    BY <2>1, ByteValues
<1>3. PICK name \in Names : name = "ECDSA Signature"
  BY DEF Names, ShownNames
<1>4. name # "Length" /\ name # "Type"
  BY <1>3
<1>5. OneValue(s, name, d)
  BY <1>1, <1>3
<1> DEFINE p == Flagged(15, d)
<1>6. parseMessage(15, p) = Named("Signature", p, Scan(FlaggedFields(name), Reader(p)))
  <2> HIDE DEF p
  <2> QED
    BY <1>3, MessageOf DEF parseSignatureFields
<1> QED
  BY <1>1, <1>2, <1>4, <1>5, <1>6, FlaggedShown

(* Nothing of a sealed message is shown.                                   *)
LEMMA NoneShown ==
  ASSUME NEW d, NEW s, d.name = s.name, NoValues(s)
  PROVE  Shows(d, s)
<1>1. PICK e : e = << >>
  OBVIOUS
<1>2. s.values = e /\ Len(e) = 0 /\ DOMAIN e = {}
  BY <1>1 DEF NoValues
<1> DEFINE kept == {j \in DOMAIN d.values :
                      \E i \in DOMAIN s.values : d.values[j][1] = s.values[i][1]}
<1>3. kept = {}
  BY <1>2
<1> HIDE DEF kept
<1>4. Cardinality(kept) = Len(s.values)
  BY <1>2, <1>3, FS_EmptySet
<1> QED
  BY <1>3, <1>4 DEF Shows, kept

(* Bytes laid out as the fields they are read into.                        *)
Laid(fields, at, vals) ==
  \A i \in 1..Len(fields) :
    /\ vals[i] \in Str /\ at[i + 1] \in Str /\ at[i] = vals[i] \o at[i + 1]
    /\ \/ fields[i].how \in {"number", "all"} /\ fields[i].width = Len(vals[i])
       \/ fields[i].how = "byte" /\ Len(vals[i]) = 1

LEMMA LaidReads ==
  ASSUME NEW fields \in Seq(Fields), NEW at, NEW vals, Laid(fields, at, vals)
  PROVE  Reading(fields, at, vals)
<1>1. ASSUME NEW i \in 1..Len(fields)
      PROVE  ReadField(fields[i], at[i]) = Got(vals[i], at[i + 1])
  <2> DEFINE f == fields[i]
             v == vals[i]
             q == at[i + 1]
             p == v \o q
  <2>1. f \in Fields
    BY ElementOfSeq
  <2>2. v \in Str /\ q \in Str /\ at[i] = p
    BY DEF Laid
  <2>3. \/ f.how \in {"number", "all"} /\ f.width = Len(v)
        \/ f.how = "byte" /\ Len(v) = 1
    BY DEF Laid
  <2> HIDE DEF f, v, q
  <2>4. ASSUME NEW n, n = Len(v)
        PROVE  ReadFull(n, p) = Got(v, q) /\ (n = 1 => ReadByte(p) = Got(v, q))
    BY <2>2, <2>4, GotAll
  <2> HIDE DEF p
  <2>5. CASE f.how = "number" /\ f.width = Len(v)
    <3>1. ReadField(f, p) = ReadFull(f.width, p)
      BY <2>1, <2>5, FieldRead
    <3> QED
      BY <2>2, <2>4, <2>5, <3>1 DEF f, v, q
  <2>6. CASE f.how = "all" /\ f.width = Len(v)
    <3>1. ReadField(f, p) = ReadFull(f.width, p)
      BY <2>1, <2>6, FieldAll
    <3> QED
      BY <2>2, <2>4, <2>6, <3>1 DEF f, v, q
  <2>7. CASE f.how = "byte" /\ Len(v) = 1
    <3>1. ReadField(f, p) = ReadByte(p)
      BY <2>1, <2>7, FieldRead
    <3> QED
      BY <2>2, <2>4, <2>7, <3>1 DEF f, v, q
  <2> QED
    BY <2>3, <2>5, <2>6, <2>7
<1> QED
  BY <1>1 DEF Reading

-----------------------------------------------------------------------------
(* What a scan that reads everything shows of a sample.                    *)
LEMMA OneRead ==
  ASSUME NEW fields \in Seq(Fields), NEW at, NEW vals, NEW r,
         ReadWith(r, fields, at, vals), NEW kind, NEW s, s.name = kind,
         NEW k \in 1..Len(fields), NEW name, NEW v, OneValue(s, name, v),
         fields[k].name = name, vals[k] = v,
         \A j \in 1..Len(fields) : fields[j].name = name => j = k
  PROVE  Shows(Described(kind, r.out), s)
<1> DEFINE d == Described(kind, r.out)
           n == Len(fields)
<1>1. n \in Nat
  BY LenProperties
<1>2. d.name = s.name /\ d.values = r.out
  BY DEF Described
<1>3. /\ DOMAIN r.out = 1..n
      /\ \A i \in 1..n : r.out[i][1] = fields[i].name /\ r.out[i] = <<fields[i].name, vals[i]>>
  BY DEF ReadWith
<1> HIDE DEF d, n
<1>4. OneAt(d, s, n, k, name, v)
  BY <1>2, <1>3 DEF OneAt, n
<1>5. k \in 1..n
  BY DEF n
<1>6. Shows(d, s)
  BY <1>1, <1>4, <1>5, OneShown
<1> QED
  BY <1>6 DEF d

PairAt(fields, vals, k, l, a, v, b, w) ==
  /\ k \in 1..Len(fields) /\ l \in 1..Len(fields) /\ k < l
  /\ fields[k].name = a /\ vals[k] = v /\ fields[l].name = b /\ vals[l] = w
  /\ \A j \in 1..Len(fields) :
       (fields[j].name = a => j = k) /\ (fields[j].name = b => j = l)

LEMMA TwoRead ==
  ASSUME NEW fields \in Seq(Fields), NEW at, NEW vals, NEW r,
         ReadWith(r, fields, at, vals), NEW kind, NEW s, s.name = kind,
         NEW k, NEW l, NEW a, NEW v, NEW b, NEW w, TwoValues(s, a, v, b, w),
         PairAt(fields, vals, k, l, a, v, b, w)
  PROVE  Shows(Described(kind, r.out), s)
<1> DEFINE d == Described(kind, r.out)
           n == Len(fields)
<1>1. n \in Nat
  BY LenProperties
<1>2. d.name = s.name /\ d.values = r.out
  BY DEF Described
<1>3. /\ DOMAIN r.out = 1..n
      /\ \A i \in 1..n : r.out[i][1] = fields[i].name /\ r.out[i] = <<fields[i].name, vals[i]>>
  BY DEF ReadWith
<1> HIDE DEF d, n
<1>4. TwoAt(d, s, n, k, l, a, v, b, w)
  BY <1>2, <1>3 DEF TwoAt, PairAt, n
<1>5. k \in 1..n /\ l \in 1..n
  BY DEF PairAt, n
<1>6. Shows(d, s)
  BY <1>1, <1>4, <1>5, TwoShown
<1> QED
  BY <1>6 DEF d

LEMMA NameOf ==
  ASSUME NEW kind, NEW values
  PROVE  Described(kind, values).name = kind /\ Described(kind, values).values = values
  BY DEF Described

LEMMA NameIs ==
  ASSUME NEW d, NEW kind, NEW values, d = Described(kind, values)
  PROVE  d.name = kind
  BY DEF Described

LEMMA PayloadOf ==
  ASSUME NEW p
  PROVE  /\ parsePayload(MagicRecord, p) = parseApplicationData(p)
         /\ parsePayload(MagicAbort, p) = parseAbortPayload(p)
  BY DEF parsePayload, MagicHandshake, MagicSystem, MagicRecord, MagicAbort

LEMMA ShortPayload ==
  ASSUME NEW p, Len(p) \in Nat, Len(p) <= 5
  PROVE  /\ parsePayload(MagicSystem, p).name = "Encrypted Payload"
         /\ parsePayload(MagicHandshake, p).name = "Unknown"
<1>1. ~ (Len(p) > 5)
  OBVIOUS
<1> DEFINE raw == << <<"Raw", p>> >>
<1> HIDE DEF raw
<1>2. /\ parsePayload(MagicSystem, p) = encryptedPayload(p)
      /\ parsePayload(MagicHandshake, p) = Described("Unknown", raw)
  BY <1>1 DEF parsePayload, MagicHandshake, MagicSystem, MagicRecord, MagicAbort, raw
<1>3. encryptedPayload(p) = Described("Encrypted Payload", raw)
  BY DEF encryptedPayload, raw
<1>4. parsePayload(MagicSystem, p) = Described("Encrypted Payload", raw)
  BY <1>2, <1>3
<1>5. parsePayload(MagicSystem, p).name = "Encrypted Payload"
  BY <1>4, NameIs
<1>6. parsePayload(MagicHandshake, p).name = "Unknown"
  BY <1>2, NameIs
<1> QED
  BY <1>5, <1>6

(* What is left of a record too short to be parsed.                        *)

LEMMA ShortShown ==
  ASSUME NEW s, WrittenShort(s)
  PROVE  Shown(s)
<1> DEFINE p == s.record.data
<1>1. /\ p \in Str /\ Len(p) <= 5 /\ NoValues(s)
      /\ \/ s.record.type = MagicSystem /\ s.name = "Encrypted Payload"
         \/ s.record.type = MagicHandshake /\ s.name = "Unknown"
  BY DEF WrittenShort
<1>2. Len(p) \in Nat
  BY <1>1, OnlyEmpty
<1>3. /\ parsePayload(MagicSystem, p).name = "Encrypted Payload"
      /\ parsePayload(MagicHandshake, p).name = "Unknown"
  BY <1>1, <1>2, ShortPayload
<1>4. PICK d : d = parsePayload(s.record.type, p)
  OBVIOUS
<1>5. d.name = s.name
  BY <1>1, <1>3, <1>4
<1>6. Shows(d, s)
  BY <1>1, <1>5, NoneShown
<1> QED
  BY <1>4, <1>6, ShownBy

(* A sealed payload begins with a length that is never its own.            *)
LEMMA SealedBytes ==
  ASSUME NEW n \in Nat, n >= 16, n + HeaderLen < Base * Base
  PROVE  LET p == Ciphertext(n)
         IN  /\ p \in Str /\ Len(p) = n /\ Number(First(4, p)) # n
             /\ ~ LengthFits(p)
<1> DEFINE p == Ciphertext(n)
           a == First(4, p)
<1>1. n < 65536
  BY ByteAssumption DEF HeaderLen
<1>2. p \in Str /\ Len(p) = n /\ \A i \in 1..n : p[i] = 27
  <2>1. 27 \in Byte
    <3>1. 27 \in 0..255
      OBVIOUS
    <3> QED
      BY <3>1, ByteValues
  <2>2. p \in [1..n -> Byte]
    BY <2>1 DEF Ciphertext
  <2>3. p \in Str
    BY <2>2, SeqDef DEF Str
  <2>4. Len(p) = n
    BY <2>2, <2>3, LenProperties DEF Str
  <2> QED
    BY <2>3, <2>4 DEF Ciphertext
<1> HIDE DEF p
<1>3. a \in Str /\ Len(a) = 4 /\ \A i \in 1..4 : a[i] = p[i]
  <2>1. 4 \in 0..Len(p)
    BY <1>2
  <2> QED
    BY <1>2, <2>1, CutSequence DEF Str
<1> HIDE DEF a
<1>4. a[1] = 27 /\ a[2] = 27 /\ a[3] = 27 /\ a[4] = 27
  <2>1. \A i \in 1..4 : i \in 1..n
    OBVIOUS
  <2>2. 1 \in 1..4 /\ 2 \in 1..4 /\ 3 \in 1..4 /\ 4 \in 1..4
    OBVIOUS
  <2> QED
    BY <1>2, <1>3, <2>1, <2>2
<1>5. Number(a) = ((27 * 256 + 27) * 256 + 27) * 256 + 27
  BY <1>3, <1>4, NumberValues
<1>6. Number(a) > 65536 + 4
  BY <1>5
<1>7. Number(a) # n /\ Number(a) # n - 4
  BY <1>1, <1>6
<1>8. ~ LengthFits(p)
  BY <1>2, <1>7 DEF LengthFits, a
<1> QED
  BY <1>2, <1>7, <1>8 DEF a, p

LEMMA SealedParsed ==
  ASSUME NEW p \in Str, Len(p) >= 16, ~ LengthFits(p), Number(First(4, p)) # Len(p)
  PROVE  /\ \A type \in {MagicHandshake, MagicSystem} :
              parsePayload(type, p).name = "Encrypted Payload"
         /\ parsePayload(MagicAbort, p).name = "Abort (encrypted)"
         /\ parsePayload(MagicRecord, p).name = "Application Data"
<1> DEFINE raw == << <<"Raw", p>> >>
           empty == << >>
<1> HIDE DEF raw, empty
<1>1. Len(p) > 5 /\ Len(p) \in Nat
  <2>1. Len(p) \in Nat
    BY OnlyEmpty
  <2> QED
    BY <2>1
<1>2. encryptedPayload(p) = Described("Encrypted Payload", raw)
  BY DEF encryptedPayload, raw
<1>3. parseHandshakePayload(p) = encryptedPayload(p)
  BY DEF parseHandshakePayload
<1>4. ASSUME NEW type \in {MagicHandshake, MagicSystem}
      PROVE  parsePayload(type, p).name = "Encrypted Payload"
  <2>1. parsePayload(type, p) = parseHandshakePayload(p)
    BY <1>1, HandshakePayload
  <2>2. parsePayload(type, p) = Described("Encrypted Payload", raw)
    BY <1>2, <1>3, <2>1
  <2> QED
    BY <2>2, NameIs
<1>5. parseAbortPayload(p) = Described("Abort (encrypted)", raw)
  BY DEF parseAbortPayload, raw
<1>6. \E values : parseApplicationData(p) = Described("Application Data", values)
  BY DEF parseApplicationData
<1>7. parsePayload(MagicAbort, p).name = "Abort (encrypted)"
  <2>1. parsePayload(MagicAbort, p) = Described("Abort (encrypted)", raw)
    BY <1>5, PayloadOf
  <2> QED
    BY <2>1, NameIs
<1>8. parsePayload(MagicRecord, p).name = "Application Data"
  <2>1. PICK values : parsePayload(MagicRecord, p) = Described("Application Data", values)
    BY <1>6, PayloadOf
  <2> QED
    BY <2>1, NameIs
<1> QED
  BY <1>4, <1>7, <1>8

LEMMA SealedShown ==
  ASSUME NEW s, WrittenSealed(s), Fits(s.record)
  PROVE  Shown(s)
<1>1. PICK n \in Nat : s.record.data = Ciphertext(n + TagLen)
  BY DEF WrittenSealed
<1> DEFINE m == n + TagLen
           p == Ciphertext(m)
<1>2. m \in Nat /\ m >= 16
  BY DEF TagLen
<1> HIDE DEF m
<1>3. Len(p) = m
  BY <1>2, LenProperties, SeqDef DEF Ciphertext
<1>4. m + HeaderLen < Base * Base
  BY <1>1, <1>3 DEF Fits, m
<1>5. p \in Str /\ Number(First(4, p)) # m /\ ~ LengthFits(p)
  BY <1>2, <1>4, SealedBytes
<1> HIDE DEF p
<1>6. /\ \A type \in {MagicHandshake, MagicSystem} :
           parsePayload(type, p).name = "Encrypted Payload"
      /\ parsePayload(MagicAbort, p).name = "Abort (encrypted)"
      /\ parsePayload(MagicRecord, p).name = "Application Data"
  BY <1>2, <1>3, <1>5, SealedParsed
<1>7. PICK d : d = parsePayload(s.record.type, s.record.data)
  OBVIOUS
<1>8. s.record.data = p
  BY <1>1 DEF p, m
<1>9. d.name = s.name /\ NoValues(s)
  BY <1>6, <1>7, <1>8 DEF WrittenSealed, InHandshake
<1> QED
  BY <1>7, <1>9, NoneShown, ShownBy

(* The alert that ends a request.                                          *)

LEMMA AbortShown ==
  ASSUME NEW s, WrittenAbort(s)
  PROVE  Shown(s)
<1>0. PICK kind : kind = "Abort (plaintext)"
  OBVIOUS
<1>1. PICK x : x = <<0, 1, 1>>
  OBVIOUS
<1>2. x \in Str /\ Len(x) = 3
  BY <1>1, ByteValues DEF Str
<1>3. PICK name : name = "Data"
  OBVIOUS
<1> DEFINE p == writeU32LenData(x)
           shown == << <<name, x>> >>
           d == parseAbortPayload(p)
<1>4. /\ s.record.type = MagicAbort /\ s.record.data = p /\ OneValue(s, name, x)
      /\ s.name = kind
  BY <1>0, <1>1, <1>3 DEF WrittenAbort, Abort
<1>5. LengthFits(p) /\ After(4, p) = x
  <2>1. Len(x) > 0 /\ Len(x) < Limit4
    BY <1>2, SMT DEF Limit4
  <2> QED
    BY <1>2, <2>1, Framed
<1> HIDE DEF p
<1>6. d = Described(kind, shown)
  BY <1>0, <1>3, <1>5 DEF parseAbortPayload
<1>7. d = parsePayload(s.record.type, s.record.data)
  BY <1>4, PayloadOf
<1>8. DOMAIN shown = 1..1 /\ shown[1] = <<name, x>> /\ \A j \in 1..1 : j = 1
  OBVIOUS
<1> HIDE DEF d, shown
<1>9. d.name = s.name /\ d.values = shown
  BY <1>4, <1>6, NameOf
<1>10. OneAt(d, s, 1, 1, name, x)
  BY <1>4, <1>8, <1>9 DEF OneAt
<1>11. 1 \in 1..1 /\ 1 \in Nat
  OBVIOUS
<1>12. Shows(d, s)
  BY <1>10, <1>11, OneShown
<1> QED
  BY <1>7, <1>12, ShownBy

-----------------------------------------------------------------------------
(* Two lists of fields in one.                                             *)
LEMMA ListsAre ==
  ASSUME NEW S, NEW a \in Seq(S), NEW b \in Seq(S), NEW m, NEW n, Len(a) = m, Len(b) = n
  PROVE  /\ a \o b \in Seq(S) /\ Len(a \o b) = m + n
         /\ \A i \in 1..m : (a \o b)[i] = a[i]
         /\ \A i \in 1..n : (a \o b)[m + i] = b[i]
<1>1. m \in Nat /\ n \in Nat
  BY LenProperties
<1>2. /\ a \o b \in Seq(S) /\ Len(a \o b) = m + n
      /\ \A i \in 1..m + n : (a \o b)[i] = IF i <= m THEN a[i] ELSE b[i - m]
  BY <1>1, ConcatProperties
<1>3. ASSUME NEW i \in 1..m PROVE (a \o b)[i] = a[i]
  BY <1>1, <1>2
<1>4. ASSUME NEW i \in 1..n PROVE (a \o b)[m + i] = b[i]
  <2>1. m + i \in 1..m + n /\ ~ (m + i <= m) /\ (m + i) - m = i
    BY <1>1
  <2> QED
    BY <1>2, <2>1
<1> QED
  BY <1>2, <1>3, <1>4

(* The fields of the extensions of a request.                              *)
LEMMA ExtensionFieldsAre ==
  LET fields ==
        <<Field("Total Length", "number", 4), Field("Flag", "byte", 1)>> \o
        <<Field("Extension Length", "number", 4), Field("Extension Flag", "byte", 1),
          Field("Inner Length", "number", 4), Field("Marker", "number", 2),
          Field("Timestamp", "number", 4)>>
  IN  /\ fields \in Seq(Fields) /\ Len(fields) = 7
      /\ fields[1].how = "number" /\ fields[1].width = 4 /\ fields[2].how = "byte"
      /\ fields[3].how = "number" /\ fields[3].width = 4 /\ fields[4].how = "byte"
      /\ fields[5].how = "number" /\ fields[5].width = 4
      /\ fields[6].how = "number" /\ fields[6].width = 2
      /\ fields[7].how = "number" /\ fields[7].width = 4
      /\ fields[7].name = "Timestamp" /\ \A j \in 1..7 : fields[j].name = "Timestamp" => j = 7
<1> DEFINE a == Field("Total Length", "number", 4)
           b == Field("Flag", "byte", 1)
           c == Field("Extension Length", "number", 4)
           d == Field("Extension Flag", "byte", 1)
           e == Field("Inner Length", "number", 4)
           f == Field("Marker", "number", 2)
           g == Field("Timestamp", "number", 4)
           fields == <<a, b>> \o <<c, d, e, f, g>>
<1>1. /\ a \in Fields /\ b \in Fields /\ c \in Fields /\ d \in Fields /\ e \in Fields
      /\ f \in Fields /\ g \in Fields
  BY DEF Field, Fields, Names, ShownNames, Hows
<1>2. /\ a.name # "Timestamp" /\ b.name # "Timestamp" /\ c.name # "Timestamp"
      /\ d.name # "Timestamp" /\ e.name # "Timestamp" /\ f.name # "Timestamp"
      /\ g.name = "Timestamp"
      /\ a.how = "number" /\ a.width = 4 /\ b.how = "byte"
      /\ c.how = "number" /\ c.width = 4 /\ d.how = "byte"
      /\ e.how = "number" /\ e.width = 4 /\ f.how = "number" /\ f.width = 2
      /\ g.how = "number" /\ g.width = 4
  BY DEF Field
<1> HIDE DEF a, b, c, d, e, f, g
<1>3. /\ fields \in Seq(Fields) /\ Len(fields) = 7
      /\ fields[1] = a /\ fields[2] = b /\ fields[3] = c /\ fields[4] = d
      /\ fields[5] = e /\ fields[6] = f /\ fields[7] = g
  <2> DEFINE x == <<a, b>>
             y == <<c, d, e, f, g>>
  <2>1. x \in Seq(Fields) /\ y \in Seq(Fields) /\ Len(x) = 2 /\ Len(y) = 5
    BY <1>1
  <2>2. x[1] = a /\ x[2] = b /\ y[1] = c /\ y[2] = d /\ y[3] = e /\ y[4] = f /\ y[5] = g
    OBVIOUS
  <2> HIDE DEF x, y
  <2>6. PICK m : m = 2
    OBVIOUS
  <2>7. PICK n : n = 5
    OBVIOUS
  <2>8. Len(x) = m /\ Len(y) = n
    BY <2>1, <2>6, <2>7
  <2>3. /\ x \o y \in Seq(Fields) /\ Len(x \o y) = m + n
        /\ \A i \in 1..m : (x \o y)[i] = x[i]
        /\ \A i \in 1..n : (x \o y)[m + i] = y[i]
    BY <2>1, <2>8, ListsAre
  <2>4. /\ 1 \in 1..m /\ 2 \in 1..m
        /\ 1 \in 1..n /\ 2 \in 1..n /\ 3 \in 1..n /\ 4 \in 1..n /\ 5 \in 1..n
        /\ m + 1 = 3 /\ m + 2 = 4 /\ m + 3 = 5 /\ m + 4 = 6 /\ m + 5 = 7 /\ m + n = 7
    BY <2>6, <2>7
  <2>5. fields = x \o y
    BY DEF x, y
  <2> QED
    BY <2>2, <2>3, <2>4, <2>5
<1>4. \A j \in 1..7 : j = 1 \/ j = 2 \/ j = 3 \/ j = 4 \/ j = 5 \/ j = 6 \/ j = 7
  OBVIOUS
<1> HIDE DEF fields
<1>5. \A j \in 1..7 : fields[j].name = "Timestamp" => j = 7
  BY <1>2, <1>3, <1>4
<1>6. /\ fields \in Seq(Fields) /\ Len(fields) = 7
      /\ fields[1].how = "number" /\ fields[1].width = 4 /\ fields[2].how = "byte"
      /\ fields[3].how = "number" /\ fields[3].width = 4 /\ fields[4].how = "byte"
      /\ fields[5].how = "number" /\ fields[5].width = 4
      /\ fields[6].how = "number" /\ fields[6].width = 2
      /\ fields[7].how = "number" /\ fields[7].width = 4
      /\ fields[7].name = "Timestamp"
  BY <1>2, <1>3
<1> QED
  BY <1>5, <1>6 DEF fields, a, b, c, d, e, f, g

-----------------------------------------------------------------------------
(* A piece and what follows it.                                            *)
Piece(p, v, n, q) == p \in Str /\ v \in Str /\ Len(v) = n /\ q \in Str /\ p = v \o q
                       /\ Len(p) = n + Len(q)

LEMMA PieceIs ==
  ASSUME NEW v \in Str, NEW n, Len(v) = n, NEW q \in Str
  PROVE  Piece(v \o q, v, n, q)
<1>1. v \o q \in Str /\ Len(v \o q) = n + Len(q)
  BY JoinStr
<1> QED
  BY <1>1 DEF Piece

LEMMA LastPiece ==
  ASSUME NEW v \in Str, NEW n, Len(v) = n
  PROVE  Piece(v, v, n, << >>)
<1>1. v = v \o << >> /\ << >> \in Str
  BY ConcatEmptySeq, EmptyStr DEF Str
<1> QED
  BY <1>1, PieceIs

LEMMA NumberPiece ==
  ASSUME NEW k \in Nat, NEW w \in {1, 2, 4}, NEW q \in Str
  PROVE  Piece(BigEndian(k, w) \o q, BigEndian(k, w), w, q)
<1>1. BigEndian(k, w) \in Str /\ Len(BigEndian(k, w)) = w
  BY BigEndianType DEF Of
<1> QED
  BY <1>1, PieceIs

LEMMA BytePiece ==
  ASSUME NEW k \in 0..255, NEW q \in Str
  PROVE  Piece(<<k>> \o q, <<k>>, 1, q)
<1>1. <<k>> \in Str /\ Len(<<k>>) = 1
  BY OneByte
<1> QED
  BY <1>1, PieceIs

(* The extensions of a request, piece by piece.                            *)
LEMMA ExtensionPieces ==
  ASSUME NEW t \in Nat
  PROVE  LET x7 == BigEndian(t, 4)
             x6 == BigEndian(18, 2) \o x7
             x5 == writeU32LenData(x6)
             x4 == <<1>> \o x5
             x3 == writeU32LenData(x4)
             x2 == <<8>> \o x3
             x1 == writeU32LenData(x2)
         IN  /\ Extensions(t) = x1
             /\ Piece(x1, BigEndian(Len(x2), 4), 4, x2) /\ Piece(x2, <<8>>, 1, x3)
             /\ Piece(x3, BigEndian(Len(x4), 4), 4, x4) /\ Piece(x4, <<1>>, 1, x5)
             /\ Piece(x5, BigEndian(Len(x6), 4), 4, x6)
             /\ Piece(x6, BigEndian(18, 2), 2, x7) /\ Piece(x7, BigEndian(t, 4), 4, << >>)
<1> DEFINE x7 == BigEndian(t, 4)
           x6 == BigEndian(18, 2) \o x7
           x5 == writeU32LenData(x6)
           x4 == <<1>> \o x5
           x3 == writeU32LenData(x4)
           x2 == <<8>> \o x3
           x1 == writeU32LenData(x2)
<1>0. Extensions(t) = x1
  BY DEF Extensions
<1>1. ASSUME NEW x \in Str
      PROVE  Piece(writeU32LenData(x), BigEndian(Len(x), 4), 4, x)
  <2>1. Len(x) \in Nat
    BY OnlyEmpty
  <2>2. \A k \in Nat : Piece(BigEndian(k, 4) \o x, BigEndian(k, 4), 4, x)
    <3>1. 4 \in {1, 2, 4}
      OBVIOUS
    <3> QED
      BY <3>1, NumberPiece
  <2> QED
    BY <2>1, <2>2 DEF writeU32LenData
<1>2. Piece(x7, BigEndian(t, 4), 4, << >>)
  <2>1. BigEndian(t, 4) \in Str /\ Len(BigEndian(t, 4)) = 4
    BY BigEndianType DEF Of
  <2> QED
    BY <2>1, LastPiece
<1>3. x7 \in Str
  BY <1>2 DEF Piece
<1> HIDE DEF x7
<1>4. Piece(x6, BigEndian(18, 2), 2, x7)
  <2>1. 18 \in Nat /\ 2 \in {1, 2, 4}
    OBVIOUS
  <2> QED
    BY <1>3, <2>1, NumberPiece
<1>5. x6 \in Str
  BY <1>4 DEF Piece
<1> HIDE DEF x6
<1>6. Piece(x5, BigEndian(Len(x6), 4), 4, x6)
  BY <1>1, <1>5
<1>7. x5 \in Str
  BY <1>6 DEF Piece
<1> HIDE DEF x5
<1>8. Piece(x4, <<1>>, 1, x5)
  <2>1. 1 \in 0..255
    OBVIOUS
  <2> QED
    BY <1>7, <2>1, BytePiece
<1>9. x4 \in Str
  BY <1>8 DEF Piece
<1> HIDE DEF x4
<1>10. Piece(x3, BigEndian(Len(x4), 4), 4, x4)
  BY <1>1, <1>9
<1>11. x3 \in Str
  BY <1>10 DEF Piece
<1> HIDE DEF x3
<1>12. Piece(x2, <<8>>, 1, x3)
  <2>1. 8 \in 0..255
    OBVIOUS
  <2> QED
    BY <1>11, <2>1, BytePiece
<1>13. x2 \in Str
  BY <1>12 DEF Piece
<1> HIDE DEF x2
<1>14. Piece(x1, BigEndian(Len(x2), 4), 4, x2)
  BY <1>1, <1>13
<1> HIDE DEF x1
<1> QED
  BY <1>0, <1>2, <1>4, <1>6, <1>8, <1>10, <1>12, <1>14 DEF x1, x2, x3, x4, x5, x6, x7

LEMMA ExtensionsRead ==
  ASSUME NEW t \in Nat
  PROVE  LET p == Extensions(t)
         IN  /\ \A type \in {MagicHandshake, MagicSystem} :
                  parsePayload(type, p) = parsePskExtensionsFields(p)
             /\ \A s : s.name = "PSK Extensions (0-RTT)"
                         /\ OneValue(s, "Timestamp", BigEndian(t, 4))
                       => Shows(parsePskExtensionsFields(p), s)
<1> DEFINE x7 == BigEndian(t, 4)
           x6 == BigEndian(18, 2) \o x7
           x5 == writeU32LenData(x6)
           x4 == <<1>> \o x5
           x3 == writeU32LenData(x4)
           x2 == <<8>> \o x3
           p == writeU32LenData(x2)
           v1 == BigEndian(Len(x2), 4)
           v3 == BigEndian(Len(x4), 4)
           v5 == BigEndian(Len(x6), 4)
           v6 == BigEndian(18, 2)
           v7 == BigEndian(t, 4)
           at == <<p, x2, x3, x4, x5, x6, x7, << >> >>
           vals == <<v1, <<8>>, v3, <<1>>, v5, v6, v7>>
           fields ==
             <<Field("Total Length", "number", 4), Field("Flag", "byte", 1)>> \o
             <<Field("Extension Length", "number", 4), Field("Extension Flag", "byte", 1),
               Field("Inner Length", "number", 4), Field("Marker", "number", 2),
               Field("Timestamp", "number", 4)>>
           r == Scan(fields, Reader(p))
<1>1. /\ Extensions(t) = p
      /\ Piece(p, v1, 4, x2) /\ Piece(x2, <<8>>, 1, x3) /\ Piece(x3, v3, 4, x4)
      /\ Piece(x4, <<1>>, 1, x5) /\ Piece(x5, v5, 4, x6) /\ Piece(x6, v6, 2, x7)
      /\ Piece(x7, v7, 4, << >>)
  BY ExtensionPieces
<1>2. PICK kind : kind = "PSK Extensions (0-RTT)"
  OBVIOUS
<1>3. ASSUME NEW q, Len(q) = 20
      PROVE  parsePskExtensionsFields(q) = Described(kind, Scan(fields, Reader(q)).out)
  <2>1. ~ (Len(q) < 20)
    BY <1>3
  <2> QED
    BY <1>2, <2>1 DEF parsePskExtensionsFields
<1>4. /\ fields \in Seq(Fields) /\ Len(fields) = 7
      /\ fields[1].how = "number" /\ fields[1].width = 4 /\ fields[2].how = "byte"
      /\ fields[3].how = "number" /\ fields[3].width = 4 /\ fields[4].how = "byte"
      /\ fields[5].how = "number" /\ fields[5].width = 4
      /\ fields[6].how = "number" /\ fields[6].width = 2
      /\ fields[7].how = "number" /\ fields[7].width = 4
      /\ fields[7].name = "Timestamp" /\ \A j \in 1..7 : fields[j].name = "Timestamp" => j = 7
  BY ExtensionFieldsAre
<1> HIDE DEF fields
<1>5. x2[1] = 8
  <2> DEFINE o == <<8>>
  <2>1. o[1] = 8 /\ Len(o) = 1
    OBVIOUS
  <2>2. o \in Str /\ x3 \in Str
    BY <1>1 DEF Piece
  <2>3. x2 = o \o x3
    OBVIOUS
  <2> HIDE DEF o, x3, x2
  <2>4. PICK m : m = Len(x3)
    OBVIOUS
  <2>5. Joins(o, 1, x3, m, o \o x3)
    BY <2>1, <2>2, <2>4, JoinAt
  <2>6. 1 \in 1..1
    OBVIOUS
  <2>7. PICK w : w = o \o x3
    OBVIOUS
  <2>8. w[1] = o[1]
    BY <2>5, <2>6, <2>7 DEF Joins
  <2> QED
    BY <2>1, <2>3, <2>7, <2>8
<1>6. /\ at[1] = p /\ at[2] = x2 /\ at[3] = x3 /\ at[4] = x4 /\ at[5] = x5 /\ at[6] = x6
      /\ at[7] = x7 /\ at[8] = << >>
      /\ vals[1] = v1 /\ vals[2] = <<8>> /\ vals[3] = v3 /\ vals[4] = <<1>> /\ vals[5] = v5
      /\ vals[6] = v6 /\ vals[7] = v7
  OBVIOUS
<1> HIDE DEF x7, x6, x5, x4, x3, x2, v1, v3, v5, v6, v7, at, vals
<1>7. Len(p) = 20 /\ Len(x2) = 16 /\ p \in Str /\ x2 \in Str
  <2>1. Len(<< >>) = 0
    BY EmptyStr
  <2> HIDE DEF p
  <2> QED
    BY <1>1, <2>1 DEF Piece
<1>8. ASSUME NEW type \in {MagicHandshake, MagicSystem}
      PROVE  parsePayload(type, p) = parsePskExtensionsFields(p)
  <2>1. Len(x2) > 1 /\ Len(x2) < Limit4
    BY <1>7, SMT DEF Limit4
  <2>2. parsePayload(type, p) = parseMessage(x2[1], p)
    BY <1>7, <2>1, MessageIs
  <2> HIDE DEF p
  <2> QED
    BY <1>5, <2>2, MessageOf
<1> HIDE DEF p
<1>9. parsePskExtensionsFields(p) = Described(kind, r.out)
  BY <1>3, <1>7
<1>10. Laid(fields, at, vals)
  <2>1. 1 + 1 = 2 /\ 2 + 1 = 3 /\ 3 + 1 = 4 /\ 4 + 1 = 5 /\ 5 + 1 = 6 /\ 6 + 1 = 7 /\ 7 + 1 = 8
    OBVIOUS
  <2>2. \A i \in 1..7 : i = 1 \/ i = 2 \/ i = 3 \/ i = 4 \/ i = 5 \/ i = 6 \/ i = 7
    OBVIOUS
  <2>3. /\ Piece(at[1], vals[1], 4, at[2]) /\ Piece(at[2], vals[2], 1, at[3])
        /\ Piece(at[3], vals[3], 4, at[4]) /\ Piece(at[4], vals[4], 1, at[5])
        /\ Piece(at[5], vals[5], 4, at[6]) /\ Piece(at[6], vals[6], 2, at[7])
        /\ Piece(at[7], vals[7], 4, at[8])
    BY <1>1, <1>6
  <2> DEFINE Ok(f, i) ==
        \/ f.how \in {"number", "all"} /\ f.width = Len(vals[i])
        \/ f.how = "byte" /\ Len(vals[i]) = 1
  <2>4. /\ Ok(fields[1], 1) /\ Ok(fields[2], 2) /\ Ok(fields[3], 3) /\ Ok(fields[4], 4)
        /\ Ok(fields[5], 5) /\ Ok(fields[6], 6) /\ Ok(fields[7], 7)
    BY <1>4, <2>3 DEF Piece
  <2>5. \A i \in 1..7 : Ok(fields[i], i)
    <3> HIDE DEF Ok
    <3> QED
      BY <2>2, <2>4
  <2>6. \A i \in 1..7 : \E n : Piece(at[i], vals[i], n, at[i + 1])
    BY <2>1, <2>2, <2>3
  <2>7. \A i \in 1..7 : vals[i] \in Str /\ at[i + 1] \in Str /\ at[i] = vals[i] \o at[i + 1]
    BY <2>6 DEF Piece
  <2> QED
    BY <1>4, <2>5, <2>7 DEF Laid
<1>11. ReadWith(r, fields, at, vals)
  <2>1. Reading(fields, at, vals)
    BY <1>4, <1>10, LaidReads
  <2> QED
    BY <1>4, <1>6, <1>7, <2>1, ScanShows
<1> HIDE DEF r
<1>12. ASSUME NEW s, s.name = kind, NEW name, name = "Timestamp", OneValue(s, name, v7)
       PROVE  Shows(Described(kind, r.out), s)
  <2>1. PICK k : k = 7
    OBVIOUS
  <2>2. /\ k \in 1..Len(fields) /\ fields[k].name = name /\ vals[k] = v7
        /\ \A j \in 1..Len(fields) : fields[j].name = name => j = k
    BY <1>4, <1>6, <1>12, <2>1
  <2> QED
    BY <1>4, <1>11, <1>12, <2>2, OneRead
<1>13. ASSUME NEW s, s.name = kind, OneValue(s, "Timestamp", v7)
       PROVE  Shows(parsePskExtensionsFields(p), s)
  BY <1>9, <1>12, <1>13
<1> QED
  BY <1>1, <1>2, <1>8, <1>13 DEF p, v7

LEMMA ExtensionsShown ==
  ASSUME NEW s, WrittenExtensions(s)
  PROVE  Shown(s)
<1>1. PICK t \in Nat : /\ InHandshake(s) /\ s.record.data = Extensions(t)
                       /\ s.name = "PSK Extensions (0-RTT)"
                       /\ OneValue(s, "Timestamp", BigEndian(t, 4))
  BY DEF WrittenExtensions
<1> DEFINE p == Extensions(t)
<1>2. /\ \A type \in {MagicHandshake, MagicSystem} :
           parsePayload(type, p) = parsePskExtensionsFields(p)
      /\ Shows(parsePskExtensionsFields(p), s)
  BY <1>1, ExtensionsRead
<1> HIDE DEF p
<1>3. parsePskExtensionsFields(p) = parsePayload(s.record.type, s.record.data)
  BY <1>1, <1>2 DEF InHandshake, p
<1> QED
  BY <1>2, <1>3, ShownBy

Join(a, b, c) == c = a \o b

LEMMA RegroupAt ==
  ASSUME NEW a \in Str, NEW b \in Str, NEW c \in Str, NEW ab, NEW bc, NEW abc,
         Join(a, b, ab), Join(b, c, bc), Join(ab, c, abc)
  PROVE  Join(a, bc, abc) /\ ab \in Str /\ bc \in Str
BY Regroup, JoinStr DEF Join

-----------------------------------------------------------------------------
(* A data record, piece by piece.                                          *)
LEMMA DataPieces ==
  ASSUME NEW dt \in Nat, NEW cmd \in Nat, NEW d \in Str
  PROVE  LET v5 == BigEndian(cmd, 4)
             v4 == BigEndian(dt, 4)
             v3 == BigEndian(1, 2)
             v2 == BigEndian(16, 2)
             v1 == BigEndian(Len(d) + 16, 4)
             x5 == v5 \o d
             x4 == v4 \o x5
             x3 == v3 \o x4
             x2 == v2 \o x3
             x1 == v1 \o x2
         IN  /\ DataRecord(dt, cmd, d) = x1
             /\ Piece(x1, v1, 4, x2) /\ Piece(x2, v2, 2, x3) /\ Piece(x3, v3, 2, x4)
             /\ Piece(x4, v4, 4, x5) /\ Piece(x5, v5, 4, d)
<1> DEFINE v5 == BigEndian(cmd, 4)
           v4 == BigEndian(dt, 4)
           v3 == BigEndian(1, 2)
           v2 == BigEndian(16, 2)
           v1 == BigEndian(Len(d) + 16, 4)
           x5 == v5 \o d
           x4 == v4 \o x5
           x3 == v3 \o x4
           x2 == v2 \o x3
           x1 == v1 \o x2
<1>1. /\ v1 \in Str /\ Len(v1) = 4 /\ v2 \in Str /\ Len(v2) = 2 /\ v3 \in Str /\ Len(v3) = 2
      /\ v4 \in Str /\ Len(v4) = 4 /\ v5 \in Str /\ Len(v5) = 4
  <2>1. Len(d) + 16 \in Nat /\ 16 \in Nat /\ 1 \in Nat /\ 2 \in {1, 2, 4} /\ 4 \in {1, 2, 4}
    BY OnlyEmpty
  <2>2. ASSUME NEW k \in Nat, NEW w \in {1, 2, 4}
        PROVE  BigEndian(k, w) \in Str /\ Len(BigEndian(k, w)) = w
    BY BigEndianType DEF Of
  <2> QED
    BY <2>1, <2>2
<1> HIDE DEF v1, v2, v3, v4, v5
<1>2. DataRecord(dt, cmd, d) = v1 \o v2 \o v3 \o v4 \o v5 \o d
  BY DEF DataRecord, v1, v2, v3, v4, v5
<1>3. v1 \o v2 \o v3 \o v4 \o v5 \o d = x1
  <2> DEFINE ab == v1 \o v2
             abc == ab \o v3
             abcd == abc \o v4
             abcde == abcd \o v5
             all == abcde \o d
  <2>1. /\ Join(v1, v2, ab) /\ Join(ab, v3, abc) /\ Join(abc, v4, abcd)
        /\ Join(abcd, v5, abcde) /\ Join(abcde, d, all)
        /\ Join(v5, d, x5) /\ Join(v4, x5, x4) /\ Join(v3, x4, x3) /\ Join(v2, x3, x2)
    BY DEF Join
  <2> HIDE DEF ab, abc, abcd, abcde, all, x5, x4, x3, x2
  <2>3. x5 \in Str /\ ab \in Str
    BY <1>1, <2>1, JoinStr DEF Join
  <2>4. x4 \in Str /\ abc \in Str
    BY <1>1, <2>1, <2>3, JoinStr DEF Join
  <2>5. x3 \in Str /\ abcd \in Str
    BY <1>1, <2>1, <2>4, JoinStr DEF Join
  <2>6. Join(abcd, x5, all)
    BY <1>1, <2>1, <2>5, RegroupAt
  <2>7. Join(abc, x4, all)
    BY <1>1, <2>1, <2>3, <2>4, <2>6, RegroupAt
  <2>8. Join(ab, x3, all)
    BY <1>1, <2>1, <2>3, <2>4, <2>7, RegroupAt
  <2>2. Join(v1, x2, all)
    BY <1>1, <2>1, <2>5, <2>8, RegroupAt
  <2> QED
    BY <2>2 DEF Join, all, abcde, abcd, abc, ab
<1>4. Piece(x5, v5, 4, d)
  BY <1>1, PieceIs
<1>5. x5 \in Str
  BY <1>4 DEF Piece
<1> HIDE DEF x5
<1>6. Piece(x4, v4, 4, x5)
  BY <1>1, <1>5, PieceIs
<1>7. x4 \in Str
  BY <1>6 DEF Piece
<1> HIDE DEF x4
<1>8. Piece(x3, v3, 2, x4)
  BY <1>1, <1>7, PieceIs
<1>9. x3 \in Str
  BY <1>8 DEF Piece
<1> HIDE DEF x3
<1>10. Piece(x2, v2, 2, x3)
  BY <1>1, <1>9, PieceIs
<1>11. x2 \in Str
  BY <1>10 DEF Piece
<1> HIDE DEF x2
<1>12. Piece(x1, v1, 4, x2)
  BY <1>1, <1>11, PieceIs
<1> HIDE DEF x1
<1> QED
  BY <1>2, <1>3, <1>4, <1>6, <1>8, <1>10, <1>12 DEF x1, x2, x3, x4, x5, v1, v2, v3, v4, v5

LEMMA FiveList ==
  ASSUME NEW S, NEW a \in S, NEW b \in S, NEW c \in S, NEW d \in S, NEW e \in S
  PROVE  LET x == <<a, b, c, d, e>>
         IN  /\ x \in Seq(S) /\ Len(x) = 5 /\ x \o << >> = x
             /\ x[1] = a /\ x[2] = b /\ x[3] = c /\ x[4] = d /\ x[5] = e
<1> DEFINE x == <<a, b, c, d, e>>
<1>1. /\ x \in Seq(S) /\ Len(x) = 5
      /\ x[1] = a /\ x[2] = b /\ x[3] = c /\ x[4] = d /\ x[5] = e
  OBVIOUS
<1> HIDE DEF x
<1>2. x \o << >> = x
  BY <1>1, ConcatEmptySeq
<1> QED
  BY <1>1, <1>2 DEF x

LEMMA SixList ==
  ASSUME NEW S, NEW a \in S, NEW b \in S, NEW c \in S, NEW d \in S, NEW e \in S, NEW f \in S
  PROVE  LET x == <<a, b, c, d, e>> \o <<f>>
         IN  /\ x \in Seq(S) /\ Len(x) = 6
             /\ x[1] = a /\ x[2] = b /\ x[3] = c /\ x[4] = d /\ x[5] = e /\ x[6] = f
<1> DEFINE y == <<a, b, c, d, e>>
           z == <<f>>
<1>1. /\ y \in Seq(S) /\ Len(y) = 5 /\ z \in Seq(S) /\ Len(z) = 1
      /\ y[1] = a /\ y[2] = b /\ y[3] = c /\ y[4] = d /\ y[5] = e /\ z[1] = f
  OBVIOUS
<1> HIDE DEF y, z
<1>2. PICK m : m = 5
  OBVIOUS
<1>3. PICK n : n = 1
  OBVIOUS
<1>4. Len(y) = m /\ Len(z) = n
  BY <1>1, <1>2, <1>3
<1>5. /\ y \o z \in Seq(S) /\ Len(y \o z) = m + n
      /\ \A i \in 1..m : (y \o z)[i] = y[i]
      /\ \A i \in 1..n : (y \o z)[m + i] = z[i]
  BY <1>1, <1>4, ListsAre
<1>6. /\ 1 \in 1..m /\ 2 \in 1..m /\ 3 \in 1..m /\ 4 \in 1..m /\ 5 \in 1..m
      /\ 1 \in 1..n /\ m + 1 = 6 /\ m + n = 6
  BY <1>2, <1>3
<1>7. /\ y \o z \in Seq(S) /\ Len(y \o z) = 6
      /\ (y \o z)[1] = a /\ (y \o z)[2] = b /\ (y \o z)[3] = c /\ (y \o z)[4] = d
      /\ (y \o z)[5] = e /\ (y \o z)[6] = f
  BY <1>1, <1>5, <1>6
<1> QED
  BY <1>7 DEF y, z

(* Its fields: five, or six when there is a payload of n bytes.            *)
DataFields(n) ==
  <<Field("Inner Length", "number", 4), Field("Flag1", "number", 2),
    Field("Flag2", "number", 2), Field("Data Type", "number", 4),
    Field("Cmd ID", "number", 4)>>
  \o (IF n = 0 THEN << >> ELSE <<Field("Payload", "all", n)>>)

AreData(fields, n, m, cmdId, payload) ==
  /\ fields \in Seq(Fields) /\ Len(fields) = m
  /\ \A i \in 1..m : fields[i].how \in {"number", "all"}
  /\ fields[1].width = 4 /\ fields[2].width = 2 /\ fields[3].width = 2
  /\ fields[4].width = 4 /\ fields[5].width = 4
  /\ n # 0 => fields[6].width = n /\ fields[6].name = payload
  /\ fields[5].name = cmdId
  /\ \A j \in 1..m : (fields[j].name = cmdId => j = 5) /\ (fields[j].name = payload => j = 6)

LEMMA DataFieldsAre ==
  ASSUME NEW n \in Nat, NEW m, m = IF n = 0 THEN 5 ELSE 6
  PROVE  AreData(DataFields(n), n, m, "Cmd ID", "Payload")
<1> DEFINE a == Field("Inner Length", "number", 4)
           b == Field("Flag1", "number", 2)
           c == Field("Flag2", "number", 2)
           d == Field("Data Type", "number", 4)
           e == Field("Cmd ID", "number", 4)
           f == Field("Payload", "all", n)
           fields == DataFields(n)
<1>1. /\ a \in Fields /\ b \in Fields /\ c \in Fields /\ d \in Fields /\ e \in Fields
      /\ f \in Fields
  BY DEF Field, Fields, Names, ShownNames, Hows
<1>2. /\ a.name \notin {"Cmd ID", "Payload"} /\ b.name \notin {"Cmd ID", "Payload"}
      /\ c.name \notin {"Cmd ID", "Payload"} /\ d.name \notin {"Cmd ID", "Payload"}
      /\ e.name = "Cmd ID" /\ f.name = "Payload" /\ "Cmd ID" # "Payload"
      /\ a.how = "number" /\ a.width = 4 /\ b.how = "number" /\ b.width = 2
      /\ c.how = "number" /\ c.width = 2 /\ d.how = "number" /\ d.width = 4
      /\ e.how = "number" /\ e.width = 4 /\ f.how = "all" /\ f.width = n
  BY DEF Field
<1>3. fields = <<a, b, c, d, e>> \o (IF n = 0 THEN << >> ELSE <<f>>)
  BY DEF DataFields
<1> HIDE DEF a, b, c, d, e, f, fields
<1>4. CASE n = 0
  <2>1. fields = <<a, b, c, d, e>>
    <3>1. fields = <<a, b, c, d, e>> \o << >>
      BY <1>3, <1>4
    <3>2. <<a, b, c, d, e>> \o << >> = <<a, b, c, d, e>>
      BY <1>1, FiveList
    <3> QED
      BY <3>1, <3>2
  <2>2. /\ fields \in Seq(Fields) /\ Len(fields) = 5 /\ fields[1] = a /\ fields[2] = b
        /\ fields[3] = c /\ fields[4] = d /\ fields[5] = e
    BY <1>1, <2>1, FiveList
  <2>3. \A j \in 1..5 : j = 1 \/ j = 2 \/ j = 3 \/ j = 4 \/ j = 5
    OBVIOUS
  <2>4. \A j \in 1..5 : (fields[j].name = "Cmd ID" => j = 5) /\ fields[j].name # "Payload"
    BY <1>2, <2>2, <2>3
  <2>5. \A j \in 1..5 : fields[j].how \in {"number", "all"}
    BY <1>2, <2>2, <2>3
  <2>6. m = 5
    BY <1>4
  <2> QED
    BY <1>2, <1>4, <2>2, <2>4, <2>5, <2>6 DEF AreData, fields
<1>5. CASE n # 0
  <2>1. fields = <<a, b, c, d, e>> \o <<f>>
    BY <1>3, <1>5
  <2>2. /\ fields \in Seq(Fields) /\ Len(fields) = 6 /\ fields[1] = a /\ fields[2] = b
        /\ fields[3] = c /\ fields[4] = d /\ fields[5] = e /\ fields[6] = f
    BY <1>1, <2>1, SixList
  <2>3. \A j \in 1..6 : j = 1 \/ j = 2 \/ j = 3 \/ j = 4 \/ j = 5 \/ j = 6
    OBVIOUS
  <2>4. \A j \in 1..6 : (fields[j].name = "Cmd ID" => j = 5)
                           /\ (fields[j].name = "Payload" => j = 6)
    BY <1>2, <2>2, <2>3
  <2>5. \A j \in 1..6 : fields[j].how \in {"number", "all"}
    BY <1>2, <2>2, <2>3
  <2>6. m = 6
    BY <1>5
  <2>7. /\ fields \in Seq(Fields) /\ Len(fields) = m
        /\ \A i \in 1..m : fields[i].how \in {"number", "all"}
        /\ \A j \in 1..m : (fields[j].name = "Cmd ID" => j = 5)
                             /\ (fields[j].name = "Payload" => j = 6)
    BY <2>2, <2>4, <2>5, <2>6
  <2>8. /\ fields[1].width = 4 /\ fields[2].width = 2 /\ fields[3].width = 2
        /\ fields[4].width = 4 /\ fields[5].width = 4
        /\ fields[6].width = n /\ fields[6].name = "Payload" /\ fields[5].name = "Cmd ID"
    BY <1>2, <2>2
  <2> QED
    BY <2>7, <2>8 DEF AreData, fields
<1> QED
  BY <1>4, <1>5

(* A data record, with or without a payload.                               *)

LEMMA DataParsed ==
  ASSUME NEW p, NEW n \in Nat, Len(p) = n + 16, Number(First(4, p)) = Len(p)
  PROVE  parseApplicationData(p)
           = Described("Application Data", Scan(DataFields(n), Reader(p)).out)
<1>1. Len(p) >= 16 /\ Len(p) - 16 = n
  OBVIOUS
<1>2. CASE n = 0
  <2>1. Len(p) = 16 /\ n = 0
    BY <1>2
  <2> QED
    BY <1>1, <2>1 DEF parseApplicationData, DataFields
<1>3. CASE n # 0
  <2>1. Len(p) # 16 /\ n # 0
    BY <1>3
  <2> QED
    BY <1>1, <2>1 DEF parseApplicationData, DataFields
<1> QED
  BY <1>2, <1>3

LEMMA DataShown ==
  ASSUME NEW s, WrittenData(s), Fits(s.record)
  PROVE  Shown(s)
<1>1. PICK dt \in Nat, cmd \in Nat, d \in Str :
        /\ s.record.type = MagicRecord /\ s.record.data = DataRecord(dt, cmd, d)
        /\ s.name = "Application Data"
        /\ IF d = << >> THEN OneValue(s, "Cmd ID", BigEndian(cmd, 4))
           ELSE TwoValues(s, "Cmd ID", BigEndian(cmd, 4), "Payload", d)
  BY DEF WrittenData
<1>2. PICK cmdId : cmdId = "Cmd ID"
  OBVIOUS
<1>3. PICK payload : payload = "Payload"
  OBVIOUS
<1>4. PICK kind : kind = "Application Data"
  OBVIOUS
<1> DEFINE v5 == BigEndian(cmd, 4)
           v4 == BigEndian(dt, 4)
           v3 == BigEndian(1, 2)
           v2 == BigEndian(16, 2)
           v1 == BigEndian(Len(d) + 16, 4)
           x5 == v5 \o d
           x4 == v4 \o x5
           x3 == v3 \o x4
           x2 == v2 \o x3
           p == v1 \o x2
           n == Len(d)
           e == << >>
           at == <<p, x2, x3, x4, x5, d, e>>
           vals == <<v1, v2, v3, v4, v5, d>>
           fields == DataFields(n)
           r == Scan(fields, Reader(p))
<1>5. /\ DataRecord(dt, cmd, d) = p
      /\ Piece(p, v1, 4, x2) /\ Piece(x2, v2, 2, x3) /\ Piece(x3, v3, 2, x4)
      /\ Piece(x4, v4, 4, x5) /\ Piece(x5, v5, 4, d)
  BY DataPieces
<1>18. PICK m : m = IF n = 0 THEN 5 ELSE 6
  OBVIOUS
<1>6. /\ at[1] = p /\ at[2] = x2 /\ at[3] = x3 /\ at[4] = x4 /\ at[5] = x5 /\ at[6] = d
      /\ at[7] = e
      /\ vals[1] = v1 /\ vals[2] = v2 /\ vals[3] = v3 /\ vals[4] = v4 /\ vals[5] = v5
      /\ vals[6] = d
  OBVIOUS
<1>7. s.record.data = p
  BY <1>1, <1>5
<1> HIDE DEF x5, x4, x3, x2, p, at, vals, e, fields, r, v1, v2, v3, v4, v5
<1>8. /\ n \in Nat /\ (n = 0 <=> d = << >>) /\ Len(p) = n + 16 /\ p \in Str
  <2>1. n \in Nat /\ (n = 0 <=> d = << >>)
    BY OnlyEmpty
  <2> HIDE DEF n
  <2>2. /\ Len(p) = 4 + Len(x2) /\ Len(x2) = 2 + Len(x3) /\ Len(x3) = 2 + Len(x4)
        /\ Len(x4) = 4 + Len(x5) /\ Len(x5) = 4 + n /\ p \in Str
    BY <1>5 DEF Piece, n
  <2> QED
    BY <2>1, <2>2
<1> HIDE DEF n
<1>9. Piece(d, d, n, e)
  BY LastPiece DEF n, e
<1>10. Number(First(4, p)) = Len(p)
  <2>1. n + 16 < Limit4 /\ n + 16 \in Nat
    <3>1. Len(p) + HeaderLen < Base * Base
      BY <1>7 DEF Fits
    <3>2. Len(p) + 5 < 65536
      BY <3>1, ByteAssumption DEF HeaderLen
    <3> QED
      BY <1>8, <3>2, SMT DEF Limit4
  <2>2. Number(v1) = n + 16
    <3>1. \A k \in Nat : k < Limit4 => Number(BigEndian(k, 4)) = k
      BY NumberOfBigEndian
    <3> QED
      BY <2>1, <3>1 DEF v1, n
  <2>3. First(4, p) = v1
    <3>1. v1 \in Str /\ Len(v1) = 4 /\ x2 \in Str /\ p = v1 \o x2
      BY <1>5 DEF Piece
    <3>2. First(Len(v1), v1 \o x2) = v1
      BY <3>1, SplitWhole DEF Str
    <3> QED
      BY <3>1, <3>2
  <2> QED
    BY <1>8, <2>2, <2>3
<1>11. /\ fields \in Seq(Fields) /\ Len(fields) = m /\ m \in {5, 6}
       /\ \A i \in 1..m : fields[i].how \in {"number", "all"}
       /\ fields[1].width = 4 /\ fields[2].width = 2 /\ fields[3].width = 2
       /\ fields[4].width = 4 /\ fields[5].width = 4
       /\ n # 0 => fields[6].width = n /\ fields[6].name = payload
       /\ fields[5].name = cmdId
       /\ \A j \in 1..m : (fields[j].name = cmdId => j = 5)
                            /\ (fields[j].name = payload => j = 6)
  <2>1. AreData(fields, n, m, cmdId, payload)
    BY <1>2, <1>3, <1>8, <1>18, DataFieldsAre DEF fields
  <2>2. m \in {5, 6}
    BY <1>18
  <2> QED
    BY <2>1, <2>2 DEF AreData
<1>12. Laid(fields, at, vals)
  <2>1. 1 + 1 = 2 /\ 2 + 1 = 3 /\ 3 + 1 = 4 /\ 4 + 1 = 5 /\ 5 + 1 = 6 /\ 6 + 1 = 7
    OBVIOUS
  <2>2. \A i \in 1..6 : i = 1 \/ i = 2 \/ i = 3 \/ i = 4 \/ i = 5 \/ i = 6
    OBVIOUS
  <2>3. /\ Piece(at[1], vals[1], 4, at[2]) /\ Piece(at[2], vals[2], 2, at[3])
        /\ Piece(at[3], vals[3], 2, at[4]) /\ Piece(at[4], vals[4], 4, at[5])
        /\ Piece(at[5], vals[5], 4, at[6]) /\ Piece(at[6], vals[6], n, at[7])
    BY <1>5, <1>6, <1>9
  <2>4. \A i \in 1..6 : \E k : Piece(at[i], vals[i], k, at[i + 1])
    BY <2>1, <2>2, <2>3
  <2>5. \A i \in 1..6 : vals[i] \in Str /\ at[i + 1] \in Str /\ at[i] = vals[i] \o at[i + 1]
    BY <2>4 DEF Piece
  <2>6. /\ fields[1].width = Len(vals[1]) /\ fields[2].width = Len(vals[2])
        /\ fields[3].width = Len(vals[3]) /\ fields[4].width = Len(vals[4])
        /\ fields[5].width = Len(vals[5]) /\ (n # 0 => fields[6].width = Len(vals[6]))
    BY <1>11, <2>3 DEF Piece
  <2>7. \A i \in 1..m : i \in 1..6 /\ (i = 6 => n # 0)
    BY <1>8, <1>11, <1>18
  <2>8. ASSUME NEW i \in 1..m PROVE fields[i].width = Len(vals[i])
    BY <2>2, <2>6, <2>7
  <2> QED
    BY <1>11, <2>5, <2>7, <2>8 DEF Laid
<1>13. ReadWith(r, fields, at, vals)
  <2>1. Reading(fields, at, vals)
    BY <1>11, <1>12, LaidReads
  <2> QED
    BY <1>6, <1>8, <1>11, <2>1, ScanShows DEF r
<1> DEFINE desc == Described(kind, r.out)
<1>14. parsePayload(s.record.type, s.record.data) = desc
  <2>1. parseApplicationData(p) = desc
    BY <1>4, <1>8, <1>10, DataParsed DEF r, fields
  <2> QED
    BY <1>1, <1>7, <2>1, PayloadOf
<1>15. PICK k : k = 5
  OBVIOUS
<1>16. /\ k \in 1..Len(fields) /\ fields[k].name = cmdId /\ vals[k] = v5
       /\ \A j \in 1..Len(fields) : fields[j].name = cmdId => j = k
  BY <1>6, <1>11, <1>15
<1>19. s.name = kind
  BY <1>1, <1>4
<1>17. Shows(desc, s)
  <2>1. CASE d = << >>
    <3>1. OneValue(s, cmdId, v5)
      BY <1>1, <1>2, <2>1 DEF v5
    <3> QED
      BY <1>11, <1>13, <1>16, <1>19, <3>1, OneRead
  <2>2. CASE d # << >>
    <3>1. TwoValues(s, cmdId, v5, payload, d)
      BY <1>1, <1>2, <1>3, <2>2 DEF v5
    <3>2. PICK l : l = 6
      OBVIOUS
    <3>3. n # 0 /\ m = 6
      BY <1>8, <1>18, <2>2
    <3>4. /\ l \in 1..Len(fields) /\ k < l /\ fields[l].name = payload /\ vals[l] = d
          /\ \A j \in 1..Len(fields) :
               (fields[j].name = cmdId => j = k) /\ (fields[j].name = payload => j = l)
      BY <1>6, <1>11, <1>15, <3>2, <3>3
    <3>5. PairAt(fields, vals, k, l, cmdId, v5, payload, d)
      BY <1>16, <3>4 DEF PairAt
    <3> QED
      BY <1>11, <1>13, <1>19, <3>1, <3>5, TwoRead
  <2> QED
    BY <2>1, <2>2
<1> HIDE DEF desc
<1> QED
  BY <1>14, <1>17, ShownBy

LEMMA AllShown ==
  ASSUME NEW d, NEW s, NEW S, d.name = s.name, d.values = s.values, s.values \in Seq(S)
  PROVE  Shows(d, s)
<1> DEFINE n == Len(s.values)
           f == [i \in 1..n |-> i]
<1>1. n \in Nat /\ DOMAIN s.values = 1..n /\ DOMAIN d.values = 1..n
  BY LenProperties
<1>2. \A i \in 1..n : f[i] = i
  OBVIOUS
<1>3. f \in [1..n -> 1..n]
  OBVIOUS
<1> HIDE DEF f
<1>4. Places(f, d, s, n, n)
  BY <1>1, <1>2, <1>3 DEF Places
<1> QED
  BY <1>1, <1>4, ShowsAt

-----------------------------------------------------------------------------
(* The tickets of a session, each with its nonce and its data.             *)

LEMMA TicketsFlag ==
  ASSUME NEW ts \in Seq(TicketRecords), Len(ts) < 256
  PROVE  \E x \in Str : /\ serializeTickets(ts) = writeU32LenData(x) /\ x[1] = 4
                        /\ Len(x) > 1 /\ Len(serializeTickets(ts)) = Len(x) + 4
<1> DEFINE f == FlattenSeq(Serialized(ts))
           a == BigEndian(4, 1)
           b == BigEndian(Len(ts), 1)
           ab == a \o b
           x == a \o b \o f
<1>1. f \in Str /\ Len(ts) \in Nat
  BY WrittenType, RestOf, LenProperties
<1>2. serializeTickets(ts) = writeU32LenData(x)
  BY DEF serializeTickets, Serialized, writeU32LenData
<1>3. a \in Str /\ Len(a) = 1 /\ b \in Str /\ Len(b) = 1 /\ a[1] = 4
  <2>1. a \in Str /\ Len(a) = 1 /\ b \in Str /\ Len(b) = 1
    BY <1>1, BigEndianType DEF Of
  <2>2. Number(a) = 4
    BY NumberOfBigEndian
  <2> HIDE DEF a
  <2> QED
    BY <2>1, <2>2, NumberValues
<1> HIDE DEF f, a, b
<1>4. Joins(a, 1, b, 1, ab)
  BY <1>3, JoinAt
<1>5. x = ab \o f
  OBVIOUS
<1> HIDE DEF ab
<1>6. ab \in Str /\ Len(ab) = 2 /\ ab[1] = 4
  <2>1. 1 \in 1..1
    OBVIOUS
  <2> QED
    BY <1>3, <1>4, <2>1 DEF Joins
<1>7. PICK m : m = Len(f)
  OBVIOUS
<1>8. Joins(ab, 2, f, m, ab \o f)
  BY <1>1, <1>6, <1>7, JoinAt
<1>9. PICK w : w = ab \o f
  OBVIOUS
<1>10. w \in Str /\ Len(w) = 2 + m /\ w[1] = 4 /\ m \in Nat
  <2>1. 1 \in 1..2 /\ m \in Nat
    BY <1>1, <1>7, OnlyEmpty
  <2> QED
    BY <1>6, <1>8, <1>9, <2>1 DEF Joins
<1>11. Len(writeU32LenData(w)) = Len(w) + 4
  <2>1. Len(w) \in Nat
    BY <1>10
  <2>2. PICK y : y = BigEndian(Len(w), 4)
    OBVIOUS
  <2>3. y \in Str /\ Len(y) = 4
    BY <2>1, <2>2, BigEndianType DEF Of
  <2>4. Len(y \o w) = Len(y) + Len(w)
    BY <1>10, <2>3, JoinStr
  <2>5. writeU32LenData(w) = y \o w
    BY <2>2 DEF writeU32LenData
  <2> QED
    BY <2>1, <2>3, <2>4, <2>5
<1> HIDE DEF x
<1>12. serializeTickets(ts) = writeU32LenData(w) /\ Len(w) > 1
  BY <1>2, <1>5, <1>9, <1>10
<1> QED
  BY <1>10, <1>11, <1>12

LEMMA TicketsParsed ==
  ASSUME NEW ts \in Seq(TicketRecords), Len(ts) < 256
  PROVE  parseNewSessionTicketFields(serializeTickets(ts))
           = Described("NewSessionTicket", TicketValues(ts))
<1> DEFINE p == serializeTickets(ts)
           r == readNewSessionTicket(p)
<1>1. p \in Str
  BY SavedTickets
<1>2. PICK q : q = << >>
  OBVIOUS
<1>3. Begins(p, q, p)
  <2> HIDE DEF p
  <2> QED
    BY <1>1, <1>2, BeginsWhole
<1>4. TicketsBack(ts, q, r)
  BY <1>3, TicketsRead
<1> HIDE DEF p, r
<1>5. ~ r.err /\ r.out = ts
  BY <1>2, <1>4 DEF TicketsBack
<1>6. parseNewSessionTicketFields(p) = Described("NewSessionTicket", TicketValues(r.out))
  BY <1>5 DEF parseNewSessionTicketFields, With, TicketValues, Concat, r
<1> QED
  BY <1>5, <1>6 DEF p

LEMMA TicketsShown ==
  ASSUME NEW s, WrittenTickets(s), Fits(s.record)
  PROVE  Shown(s)
<1>1. PICK ts \in Seq(TicketRecords) :
        /\ Len(ts) < 256 /\ InHandshake(s) /\ s.record.data = serializeTickets(ts)
        /\ s.name = "NewSessionTicket"
        /\ s.values = TicketValues(ts) /\ s.values \in Seq(Names \X Str)
  BY DEF WrittenTickets
<1> DEFINE p == serializeTickets(ts)
           d == parseNewSessionTicketFields(p)
<1>2. PICK x \in Str : p = writeU32LenData(x) /\ x[1] = 4 /\ Len(x) > 1 /\ Len(p) = Len(x) + 4
  BY <1>1, TicketsFlag
<1>3. d = Described("NewSessionTicket", TicketValues(ts))
  BY <1>1, TicketsParsed
<1>4. s.record.data = p
  BY <1>1
<1> HIDE DEF p
<1>5. Len(x) < Limit4
  <2>1. Len(p) + HeaderLen < Base * Base /\ Len(x) \in Nat
    BY <1>4, OnlyEmpty DEF Fits
  <2>2. Len(p) + 5 < 65536
    BY <2>1, ByteAssumption DEF HeaderLen
  <2> QED
    BY <1>2, <2>1, <2>2, SMT DEF Limit4
<1>6. parsePayload(s.record.type, s.record.data) = d
  <2>1. parsePayload(s.record.type, writeU32LenData(x)) = parseMessage(x[1], writeU32LenData(x))
    BY <1>1, <1>2, <1>5, MessageIs DEF InHandshake
  <2>2. parsePayload(s.record.type, p) = parseMessage(4, p)
    BY <1>2, <2>1
  <2>3. parseMessage(4, p) = d
    BY MessageOf
  <2> QED
    BY <1>4, <2>2, <2>3
<1> HIDE DEF d
<1>7. d.name = s.name /\ d.values = s.values
  BY <1>1, <1>3, NameOf
<1> QED
  BY <1>1, <1>6, <1>7, AllShown, ShownBy

-----------------------------------------------------------------------------
(* Hellos, which are read in several scans and in loops: a reader that has *)
(* got as far as q, and has shown the first n of the values expected.      *)
HelloNames ==
  {"Cipher Suite", "Client Random", "Timestamp", "EC Point", "Nonce", "Ticket Data",
   "Server Random", "Server EC Public Key"}

ShownTo(out, v, n) ==
  \E f \in [1..n -> 1..Len(out)] :
    /\ \A i, j \in 1..n : i < j => f[i] < f[j]
    /\ \A i \in 1..n : out[f[i]] = v[i]
    /\ \A j \in 1..Len(out) : out[j][1] \in HelloNames => \E l \in 1..n : f[l] = j

HasShown(r, q, v, n) ==
  r \in Readers /\ r.err = FALSE /\ r.rest = q /\ n \in Nat /\ ShownTo(r.out, v, n)

LEMMA ShowsNone ==
  ASSUME NEW p \in Str, NEW v
  PROVE  HasShown(Reader(p), p, v, 0)
<1>1. PICK r \in Readers : r = Reader(p)
  BY ReaderType
<1>2. r.err = FALSE /\ r.rest = p /\ r.out = << >>
  BY <1>1 DEF Reader
<1>3. Len(r.out) = 0
  BY <1>2, EmptyStr
<1> DEFINE f == [i \in 1..0 |-> i]
<1>4. f \in [1..0 -> 1..Len(r.out)]
  OBVIOUS
<1>5. (\A i \in 1..0 : FALSE) /\ \A j \in 1..Len(r.out) : FALSE
  BY <1>3
<1> HIDE DEF f
<1>6. ShownTo(r.out, v, 0)
  BY <1>4, <1>5 DEF ShownTo
<1> QED
  BY <1>1, <1>2, <1>6 DEF HasShown

(* One value more.                                                         *)
LEMMA ShowsMore ==
  ASSUME NEW S, NEW out \in Seq(S), NEW v, NEW n \in Nat, ShownTo(out, v, n),
         NEW x \in S
  PROVE  LET more == Append(out, x)
         IN  /\ Len(more) = Len(out) + 1 /\ more[Len(out) + 1] = x
             /\ \A i \in 1..Len(out) : more[i] = out[i]
             /\ x[1] \notin HelloNames => ShownTo(more, v, n)
             /\ v[n + 1] = x => ShownTo(more, v, n + 1)
<1> DEFINE more == Append(out, x)
           k == Len(out)
<1>1. /\ k \in Nat /\ Len(more) = k + 1 /\ more[k + 1] = x
      /\ \A i \in 1..k : more[i] = out[i]
  BY AppendProperties, LenProperties
<1> HIDE DEF more
<1>2. PICK f \in [1..n -> 1..k] :
        /\ \A i, j \in 1..n : i < j => f[i] < f[j]
        /\ \A i \in 1..n : out[f[i]] = v[i]
        /\ \A j \in 1..k : out[j][1] \in HelloNames => \E l \in 1..n : f[l] = j
  BY DEF ShownTo
<1> HIDE DEF k
<1>3. ASSUME x[1] \notin HelloNames PROVE ShownTo(more, v, n)
  <2>1. f \in [1..n -> 1..Len(more)]
    BY <1>1, <1>2
  <2>2. \A i \in 1..n : more[f[i]] = v[i]
    BY <1>1, <1>2
  <2>3. \A j \in 1..Len(more) : more[j][1] \in HelloNames => \E l \in 1..n : f[l] = j
    <3>1. \A j \in 1..Len(more) : j \in 1..k \/ j = k + 1
      BY <1>1
    <3> QED
      BY <1>1, <1>2, <1>3, <3>1
  <2> QED
    BY <1>2, <2>1, <2>2, <2>3 DEF ShownTo
<1>4. ASSUME v[n + 1] = x PROVE ShownTo(more, v, n + 1)
  <2> DEFINE g == [i \in 1..n + 1 |-> IF i = n + 1 THEN k + 1 ELSE f[i]]
  <2>0. \A i \in 1..n + 1 : i \in 1..n \/ i = n + 1
    OBVIOUS
  <2>1. \A i \in 1..n : f[i] \in 1..k /\ i \in 1..n + 1 /\ i # n + 1
    BY <1>2
  <2>2. n + 1 \in 1..n + 1 /\ g[n + 1] = k + 1 /\ \A i \in 1..n : g[i] = f[i]
    BY <2>1
  <2>3. g \in [1..n + 1 -> 1..Len(more)]
    <3>1. \A i \in 1..n + 1 : (IF i = n + 1 THEN k + 1 ELSE f[i]) \in 1..Len(more)
      BY <1>1, <2>0, <2>1
    <3> QED
      BY <3>1
  <2> HIDE DEF g
  <2>4. \A i, j \in 1..n + 1 : i < j => g[i] < g[j]
    <3>1. ASSUME NEW i \in 1..n + 1, NEW j \in 1..n + 1, i < j PROVE g[i] < g[j]
      <4>1. i \in 1..n
        BY <3>1, <2>0
      <4>2. CASE j \in 1..n
        BY <1>2, <2>2, <3>1, <4>1, <4>2
      <4>3. CASE j = n + 1
        BY <1>1, <2>1, <2>2, <4>1, <4>3
      <4> QED
        BY <2>0, <4>2, <4>3
    <3> QED
      BY <3>1
  <2>5. \A i \in 1..n + 1 : more[g[i]] = v[i]
    BY <1>1, <1>2, <1>4, <2>0, <2>1, <2>2
  <2>6. \A j \in 1..Len(more) : more[j][1] \in HelloNames => \E l \in 1..n + 1 : g[l] = j
    <3>1. \A j \in 1..Len(more) : j \in 1..k \/ j = k + 1
      BY <1>1
    <3> QED
      BY <1>1, <1>2, <2>1, <2>2, <3>1
  <2> QED
    BY <2>3, <2>4, <2>5, <2>6 DEF ShownTo
<1> QED
  BY <1>1, <1>3, <1>4 DEF more, k

(* All of them.                                                            *)
LEMMA AllOfThem ==
  ASSUME NEW r, NEW q, NEW s, NEW m, HasShown(r, q, s.values, m),
         DOMAIN s.values = 1..m, Len(s.values) = m,
         \A i \in 1..m : s.values[i][1] \in HelloNames,
         NEW kind, s.name = kind
  PROVE  Shows(Described(kind, r.out), s)
<1> DEFINE d == Described(kind, r.out)
           n == Len(r.out)
<1>1. d.name = s.name /\ d.values = r.out
  BY NameOf
<1>2. m \in Nat /\ r.out \in Seq(Names \X Str) /\ ShownTo(r.out, s.values, m)
  BY DEF HasShown, Readers
<1>3. n \in Nat /\ DOMAIN r.out = 1..n
  BY <1>2, LenProperties
<1>4. PICK f \in [1..m -> 1..n] :
        /\ \A i, j \in 1..m : i < j => f[i] < f[j]
        /\ \A i \in 1..m : r.out[f[i]] = s.values[i]
        /\ \A j \in 1..n : r.out[j][1] \in HelloNames => \E l \in 1..m : f[l] = j
  BY <1>2 DEF ShownTo
<1> HIDE DEF d, n
<1>5. Places(f, d, s, m, n)
  BY <1>1, <1>4 DEF Places
<1>6. Shows(d, s)
  BY <1>1, <1>2, <1>3, <1>5, ShowsAt
<1> QED
  BY <1>6 DEF d

-----------------------------------------------------------------------------
(* What is read of a field.                                                *)
LEMMA GotIs ==
  ASSUME NEW x, NEW v, NEW q, x = Got(v, q)
  PROVE  x.err = FALSE /\ x.val = v /\ x.rest = q
BY DEF Got

LEMMA FieldGets ==
  ASSUME NEW f \in Fields, NEW p, NEW v, NEW n, NEW q, Piece(p, v, n, q)
  PROVE  /\ f.how \in {"number", "all"} /\ f.width = n => ReadField(f, p) = Got(v, q)
         /\ f.how = "byte" /\ n = 1 => ReadField(f, p) = Got(v, q)
<1>1. v \in Str /\ q \in Str /\ p = v \o q /\ n = Len(v)
  BY DEF Piece
<1>2. ReadFull(n, p) = Got(v, q) /\ (n = 1 => ReadByte(p) = Got(v, q))
  BY <1>1, GotAll
<1>3. /\ f.how = "number" => ReadField(f, p) = ReadFull(f.width, p)
      /\ f.how = "byte" => ReadField(f, p) = ReadByte(p)
  BY FieldRead
<1>4. f.how = "all" => ReadField(f, p) = ReadFull(f.width, p)
  BY FieldAll
<1> QED
  BY <1>2, <1>3, <1>4

(* Data behind its length of two bytes or of four.                         *)
DataPiece(p, d, w, q) ==
  /\ \/ w = 2 /\ Len(d) < Limit2
     \/ w = 4 /\ Len(d) < Limit4
  /\ d \in Str /\ q \in Str
  /\ p = BigEndian(Len(d), w) \o (d \o q)

LEMMA DataRead ==
  ASSUME NEW p, NEW d, NEW w, NEW q, DataPiece(p, d, w, q)
  PROVE  Prefixed(w, ReadFull, p) = Got(d, q)
<1>1. PICK a : a = BigEndian(Len(d), w)
  OBVIOUS
<1>2. PICK t : t = d \o q
  OBVIOUS
<1>3. /\ \/ w = 2 /\ Len(d) < Limit2
         \/ w = 4 /\ Len(d) < Limit4
      /\ w \in {1, 2, 4} /\ d \in Str /\ q \in Str /\ p = a \o t
  BY <1>1, <1>2 DEF DataPiece
<1>4. a \in Str /\ Len(a) = w /\ Number(a) = Len(d)
  <2>1. Len(d) \in Nat
    BY <1>3, OnlyEmpty
  <2>2. PICK k \in Nat : k = Len(d)
    BY <2>1
  <2>3. BigEndian(k, w) \in Str /\ Len(BigEndian(k, w)) = w
    BY <1>3, BigEndianType DEF Of
  <2>4. Number(BigEndian(k, w)) = k
    <3>1. /\ k < Limit2 => Number(BigEndian(k, 2)) = k
          /\ k < Limit4 => Number(BigEndian(k, 4)) = k
      BY NumberOfBigEndian
    <3> QED
      BY <1>3, <2>2, <3>1
  <2> QED
    BY <1>1, <2>2, <2>3, <2>4
<1>5. t \in Str
  BY <1>2, <1>3, JoinStr
<1>6. ReadFull(w, p) = Got(a, t)
  BY <1>3, <1>4, <1>5, GotAll
<1>7. ReadFull(Len(d), t) = Got(d, q)
  BY <1>2, <1>3, GotAll
<1>8. Prefixed(w, ReadFull, p) = Got(d, q)
  <2>1. ReadFull(w, p).err = FALSE /\ ReadFull(w, p).val = a /\ ReadFull(w, p).rest = t
    BY <1>6 DEF Got
  <2>2. ReadFull(Number(ReadFull(w, p).val), ReadFull(w, p).rest) = Got(d, q)
    BY <1>4, <1>7, <2>1
  <2> QED
    BY <2>1, <2>2, PrefixedAll
<1> QED
  BY <1>8

LEMMA DataGets ==
  ASSUME NEW f \in Fields, f.how = "all data", NEW p, NEW d, NEW w, NEW q,
         DataPiece(p, d, w, q), f.width = w
  PROVE  ReadField(f, p) = Got(d, q)
<1>1. Prefixed(w, ReadFull, p) = Got(d, q)
  BY DataRead
<1>2. ReadField(f, p) = Prefixed(f.width, ReadFull, p)
  BY FieldAll
<1> QED
  BY <1>1, <1>2

(* One field of a hello, shown or not.                                     *)
Grown(s, r, name, x) ==
  /\ Len(s.out) = Len(r.out) + 1 /\ s.out[Len(r.out) + 1] = <<name, x>>
  /\ Len(r.out) \in Nat /\ \A i \in 1..Len(r.out) : s.out[i] = r.out[i]

LEMMA FieldShows ==
  ASSUME NEW f \in Fields, NEW r, NEW p, NEW v, NEW n, HasShown(r, p, v, n),
         NEW x \in Str, NEW q \in Str, ReadField(f, p) = Got(x, q)
  PROVE  LET s == Advance(f, r)
         IN  /\ Grown(s, r, f.name, x)
             /\ f.name \notin HelloNames => HasShown(s, q, v, n)
             /\ v[n + 1] = <<f.name, x>> => HasShown(s, q, v, n + 1)
<1> DEFINE s == Advance(f, r)
           z == <<f.name, x>>
<1>1. /\ r \in Readers /\ r.err = FALSE /\ r.rest = p /\ n \in Nat /\ ShownTo(r.out, v, n)
      /\ r.out \in Seq(Names \X Str)
  BY DEF HasShown, Readers
<1>2. z \in Names \X Str /\ z[1] = f.name
  BY DEF Fields
<1>3. ReadField(f, r.rest).err = FALSE /\ ReadField(f, r.rest).val = x
      /\ ReadField(f, r.rest).rest = q
  BY <1>1 DEF Got
<1>4. s = [rest |-> q, err |-> FALSE, out |-> Append(r.out, z)]
  BY <1>3, AdvanceIs
<1>5. s \in Readers
  BY <1>1, AdvanceType
<1>6. s.err = FALSE /\ s.rest = q /\ s.out = Append(r.out, z)
  BY <1>4
<1>7. Len(r.out) \in Nat
  BY <1>1, LenProperties
<1>11. z = <<f.name, x>>
  OBVIOUS
<1> HIDE DEF s, z
<1>8. /\ Len(Append(r.out, z)) = Len(r.out) + 1 /\ Append(r.out, z)[Len(r.out) + 1] = z
      /\ \A i \in 1..Len(r.out) : Append(r.out, z)[i] = r.out[i]
      /\ z[1] \notin HelloNames => ShownTo(Append(r.out, z), v, n)
      /\ v[n + 1] = z => ShownTo(Append(r.out, z), v, n + 1)
  BY <1>1, <1>2, ShowsMore
<1>9. Grown(s, r, f.name, x)
  BY <1>6, <1>7, <1>8, <1>11 DEF Grown
<1>10. /\ f.name \notin HelloNames => HasShown(s, q, v, n)
       /\ v[n + 1] = z => HasShown(s, q, v, n + 1)
  BY <1>1, <1>2, <1>5, <1>6, <1>8 DEF HasShown
<1> QED
  BY <1>9, <1>10, <1>11 DEF s

(* Scans of up to three fields, as far as they succeed.                    *)
ScanGoes(g, fields, n, r) ==
  /\ Scan(fields, r) = g[n] /\ g[0] = r
  /\ \A i \in 1..n : g[i - 1].err = FALSE => g[i] = Advance(fields[i], g[i - 1])

LEMMA ScanOf ==
  ASSUME NEW fields \in Seq(Fields), NEW n, Len(fields) = n, NEW r \in Readers
  PROVE  \E g : ScanGoes(g, fields, n, r)
<1>1. PICK g : g = Scanned(fields, r)
  OBVIOUS
<1>2. /\ Scan(fields, r) = g[Len(fields)] /\ g[0] = r
      /\ \A i \in 1..Len(fields) :
           g[i] = IF g[i - 1].err THEN g[i - 1] ELSE Advance(fields[i], g[i - 1])
  BY <1>1, ScanSteps
<1>3. ScanGoes(g, fields, n, r)
  BY <1>2 DEF ScanGoes
<1> QED
  BY <1>3

Stepped(s, r, f) ==
  f \in Fields /\ r \in Readers /\ r.err = FALSE /\ s.err = FALSE /\ s = Advance(f, r)

LEMMA ScanFirst ==
  ASSUME NEW r, NEW a, NEW s, Stepped(s, r, a)
  PROVE  Scan(<<a>>, r) = s
<1> USE DEF Stepped
<1> DEFINE fields == <<a>>
<1>1. fields \in Seq(Fields) /\ Len(fields) = 1 /\ fields[1] = a
  OBVIOUS
<1> HIDE DEF fields
<1>2. PICK g : ScanGoes(g, fields, 1, r)
  BY <1>1, ScanOf
<1>3. /\ Scan(fields, r) = g[1] /\ g[0] = r
      /\ \A i \in 1..1 : g[i - 1].err = FALSE => g[i] = Advance(fields[i], g[i - 1])
  BY <1>2 DEF ScanGoes
<1>4. 1 \in 1..1 /\ 1 - 1 = 0
  OBVIOUS
<1> QED
  BY <1>1, <1>3, <1>4 DEF fields

LEMMA ScanSecond ==
  ASSUME NEW r, NEW a, NEW s, Stepped(s, r, a),
         NEW b, NEW t, Stepped(t, s, b)
  PROVE  Scan(<<a, b>>, r) = t
<1> USE DEF Stepped
<1> DEFINE fields == <<a, b>>
<1>1. fields \in Seq(Fields) /\ Len(fields) = 2 /\ fields[1] = a /\ fields[2] = b
  OBVIOUS
<1> HIDE DEF fields
<1>2. PICK g : ScanGoes(g, fields, 2, r)
  BY <1>1, ScanOf
<1>3. /\ Scan(fields, r) = g[2] /\ g[0] = r
      /\ \A i \in 1..2 : g[i - 1].err = FALSE => g[i] = Advance(fields[i], g[i - 1])
  BY <1>2 DEF ScanGoes
<1>4. 1 \in 1..2 /\ 1 - 1 = 0 /\ 2 \in 1..2 /\ 2 - 1 = 1
  OBVIOUS
<1>5. g[1] = s
  BY <1>1, <1>3, <1>4
<1> QED
  BY <1>1, <1>3, <1>4, <1>5 DEF fields

LEMMA ScanThird ==
  ASSUME NEW r, NEW a, NEW s, Stepped(s, r, a),
         NEW b, NEW t, Stepped(t, s, b),
         NEW c, NEW u, Stepped(u, t, c)
  PROVE  Scan(<<a, b, c>>, r) = u
<1> USE DEF Stepped
<1> DEFINE fields == <<a, b, c>>
<1>1. /\ fields \in Seq(Fields) /\ Len(fields) = 3 /\ fields[1] = a /\ fields[2] = b
      /\ fields[3] = c
  OBVIOUS
<1> HIDE DEF fields
<1>2. PICK g : ScanGoes(g, fields, 3, r)
  BY <1>1, ScanOf
<1>3. /\ Scan(fields, r) = g[3] /\ g[0] = r
      /\ \A i \in 1..3 : g[i - 1].err = FALSE => g[i] = Advance(fields[i], g[i - 1])
  BY <1>2 DEF ScanGoes
<1>4. 1 \in 1..3 /\ 1 - 1 = 0 /\ 2 \in 1..3 /\ 2 - 1 = 1 /\ 3 \in 1..3 /\ 3 - 1 = 2
  OBVIOUS
<1>5. g[1] = s
  BY <1>1, <1>3, <1>4
<1>6. g[2] = t
  BY <1>1, <1>3, <1>4, <1>5
<1> QED
  BY <1>1, <1>3, <1>4, <1>6 DEF fields

(* The value read last under a name.                                       *)
HasAt(r, m, k, name, x) ==
  /\ m \in Nat /\ Len(r.out) = m /\ k \in 1..m
  /\ r.out[k] = <<name, x>> /\ \A j \in 1..m : j > k => r.out[j][1] # name

LEMMA ValueAt ==
  ASSUME NEW r, NEW m, NEW k, NEW name, NEW x, HasAt(r, m, k, name, x)
  PROVE  Value(r, name) = x
<1> USE DEF HasAt
<1> DEFINE I == {i \in 1..Len(r.out) : r.out[i][1] = name}
<1>1. r.out[k][1] = name /\ r.out[k][2] = x
  OBVIOUS
<1>2. k \in I /\ k \in Nat /\ \A i \in I : i \in Nat /\ k >= i
  BY <1>1
<1>3. SelectLastInSeq(r.out, LAMBDA f : f[1] = name) = IF I # {} THEN Max(I) ELSE 0
  BY DEF SelectLastInSeq
<1> HIDE DEF I
<1>4. Max(I) = k
  <2>1. \A i \in I : (\A j \in I : i >= j) <=> i = k
    BY <1>2
  <2> QED
    BY <1>2, <2>1 DEF Max
<1>5. SelectLastInSeq(r.out, LAMBDA f : f[1] = name) = k
  BY <1>2, <1>3, <1>4
<1>6. Value(r, name) = r.out[k][2]
  BY <1>5 DEF Value
<1> QED
  BY <1>1, <1>6

LEMMA HasLast ==
  ASSUME NEW s, NEW r, NEW name, NEW x, Grown(s, r, name, x)
  PROVE  \E k : HasAt(s, k, k, name, x)
<1> DEFINE k == Len(r.out) + 1
<1>1. k \in Nat /\ Len(s.out) = k /\ s.out[k] = <<name, x>> /\ k \in 1..k
  BY DEF Grown
<1> HIDE DEF k
<1>2. \A j \in 1..k : j > k => s.out[j][1] # name
  BY <1>1
<1>3. HasAt(s, k, k, name, x)
  BY <1>1, <1>2 DEF HasAt
<1> QED
  BY <1>3

LEMMA LastValue ==
  ASSUME NEW s, NEW r, NEW name, NEW x, Grown(s, r, name, x)
  PROVE  Value(s, name) = x
BY HasLast, ValueAt

LEMMA U32Piece ==
  ASSUME NEW x \in Str
  PROVE  Piece(writeU32LenData(x), BigEndian(Len(x), 4), 4, x)
<1>1. Len(x) \in Nat
  BY OnlyEmpty
<1>2. \A k \in Nat : Piece(BigEndian(k, 4) \o x, BigEndian(k, 4), 4, x)
  <2>1. 4 \in {1, 2, 4}
    OBVIOUS
  <2> QED
    BY <2>1, NumberPiece
<1> QED
  BY <1>1, <1>2 DEF writeU32LenData

LEMMA FlagOf ==
  ASSUME NEW k \in 0..255, NEW x, NEW q, Piece(x, <<k>>, 1, q)
  PROVE  x[1] = k
<1>1. PICK o : o = <<k>>
  OBVIOUS
<1>2. o \in Str /\ q \in Str /\ x = o \o q /\ Len(o) = 1 /\ o[1] = k
  BY <1>1 DEF Piece
<1>3. PICK m : m = Len(q)
  OBVIOUS
<1>4. PICK w : w = o \o q
  OBVIOUS
<1>5. Joins(o, 1, q, m, w)
  BY <1>2, <1>3, <1>4, JoinAt
<1>6. 1 \in 1..1
  OBVIOUS
<1> QED
  BY <1>2, <1>4, <1>5, <1>6 DEF Joins

-----------------------------------------------------------------------------
(* The fields of hellos.                                                   *)
LEMMA FieldIs ==
  ASSUME NEW name \in Names, NEW how \in Hows, NEW w \in Nat, NEW f, f = Field(name, how, w)
  PROVE  f \in Fields /\ f.name = name /\ f.how = how /\ f.width = w
BY DEF Field, Fields

IsValue(v, i, name, x) == v[i] = <<name, x>>

(* A field, what is read of it and what is left.                           *)
Takes(f, name, p, x, q) ==
  f \in Fields /\ f.name = name /\ x \in Str /\ q \in Str /\ ReadField(f, p) = Got(x, q)

LEMMA TakesPiece ==
  ASSUME NEW name \in Names, NEW how \in {"number", "all"}, NEW w \in Nat,
         NEW f, f = Field(name, how, w), NEW p, NEW x, NEW q, Piece(p, x, w, q)
  PROVE  Takes(f, name, p, x, q)
<1>1. f \in Fields /\ f.name = name /\ f.how = how /\ f.width = w
  <2>1. how \in Hows
    BY DEF Hows
  <2> QED
    BY <2>1, FieldIs
<1>2. x \in Str /\ q \in Str
  BY DEF Piece
<1>3. ReadField(f, p) = Got(x, q)
  BY <1>1, FieldGets
<1> QED
  BY <1>1, <1>2, <1>3 DEF Takes

LEMMA TakesByte ==
  ASSUME NEW name \in Names, NEW f, f = Field(name, "byte", 1), NEW p, NEW x, NEW q,
         Piece(p, x, 1, q)
  PROVE  Takes(f, name, p, x, q)
<1>1. f \in Fields /\ f.name = name /\ f.how = "byte"
  <2>1. "byte" \in Hows /\ 1 \in Nat
    BY DEF Hows
  <2> QED
    BY <2>1, FieldIs
<1>2. x \in Str /\ q \in Str
  BY DEF Piece
<1>3. ReadField(f, p) = Got(x, q)
  BY <1>1, FieldGets
<1> QED
  BY <1>1, <1>2, <1>3 DEF Takes

FieldOf(f, name, how, w) ==
  f \in Fields /\ f.name = name /\ f.how = how /\ f.width = w

LEMMA AllDataField ==
  ASSUME NEW name \in Names, NEW how, how = "all data", NEW w \in Nat,
         NEW f, f = Field(name, how, w)
  PROVE  FieldOf(f, name, how, w)
BY DEF Field, Fields, Hows, FieldOf

LEMMA TakesData ==
  ASSUME NEW name \in Names, NEW how, how = "all data", NEW w \in Nat,
         NEW f, f = Field(name, how, w), NEW p, NEW x, NEW q, DataPiece(p, x, w, q)
  PROVE  Takes(f, name, p, x, q)
<1>0. FieldOf(f, name, how, w)
  BY AllDataField
<1>1. f \in Fields /\ f.name = name /\ f.how = how /\ f.width = w
  BY <1>0 DEF FieldOf
<1>2. x \in Str /\ q \in Str
  BY DEF DataPiece
<1>3. ReadField(f, p) = Got(x, q)
  <2>1. Prefixed(w, ReadFull, p) = Got(x, q)
    BY DataRead
  <2>2. ReadField(f, p) = Prefixed(f.width, ReadFull, p)
    BY <1>1, FieldAll
  <2> QED
    BY <1>1, <2>1, <2>2
<1> QED
  BY <1>1, <1>2, <1>3 DEF Takes

(* A field of a hello: hidden, or the next of the values expected.         *)
Taking(f, name, p, x, q, v, n, m) ==
  /\ Takes(f, name, p, x, q)
  /\ \/ name \notin HelloNames /\ m = n
     \/ m = n + 1 /\ IsValue(v, m, name, x)

LEMMA FieldTaken ==
  ASSUME NEW f, NEW name, NEW p, NEW x, NEW q, NEW v, NEW n, NEW m,
         Taking(f, name, p, x, q, v, n, m), NEW r, HasShown(r, p, v, n),
         NEW s, s = Advance(f, r)
  PROVE  HasShown(s, q, v, m) /\ Grown(s, r, name, x) /\ Stepped(s, r, f)
<1>1. /\ f \in Fields /\ f.name = name /\ x \in Str /\ q \in Str /\ ReadField(f, p) = Got(x, q)
  BY DEF Taking, Takes
<1>2. /\ Grown(s, r, f.name, x)
      /\ f.name \notin HelloNames => HasShown(s, q, v, n)
      /\ v[n + 1] = <<f.name, x>> => HasShown(s, q, v, n + 1)
  BY <1>1, FieldShows
<1>3. HasShown(s, q, v, m)
  <2>1. CASE name \notin HelloNames /\ m = n
    BY <1>1, <1>2, <2>1
  <2>2. CASE m = n + 1 /\ IsValue(v, m, name, x)
    BY <1>1, <1>2, <2>2 DEF IsValue
  <2> QED
    BY <2>1, <2>2 DEF Taking
<1>4. Grown(s, r, name, x)
  BY <1>1, <1>2
<1>5. r \in Readers /\ r.err = FALSE
  BY DEF HasShown
<1>6. s.err = FALSE
  BY <1>3 DEF HasShown
<1> QED
  BY <1>1, <1>3, <1>4, <1>5, <1>6 DEF Stepped

LEMMA OneTaken ==
  ASSUME NEW v, NEW r, NEW p, NEW n, HasShown(r, p, v, n),
         NEW a, NEW A, NEW x, NEW q, NEW m, Taking(a, A, p, x, q, v, n, m),
         NEW s, s = Scan(<<a>>, r)
  PROVE  HasShown(s, q, v, m) /\ Grown(s, r, A, x)
<1>1. PICK t : t = Advance(a, r)
  OBVIOUS
<1>2. HasShown(t, q, v, m) /\ Grown(t, r, A, x) /\ Stepped(t, r, a)
  BY <1>1, FieldTaken
<1>3. s = t
  BY <1>2, ScanFirst
<1> QED
  BY <1>2, <1>3

LEMMA TwoTaken ==
  ASSUME NEW v, NEW r, NEW p, NEW n, HasShown(r, p, v, n),
         NEW a, NEW A, NEW x, NEW q, NEW m, Taking(a, A, p, x, q, v, n, m),
         NEW b, NEW B, NEW y, NEW t, NEW k, Taking(b, B, q, y, t, v, m, k),
         NEW s, s = Scan(<<a, b>>, r)
  PROVE  HasShown(s, t, v, k) /\ \E u : Grown(u, r, A, x) /\ Grown(s, u, B, y)
<1>1. PICK u : u = Advance(a, r)
  OBVIOUS
<1>2. HasShown(u, q, v, m) /\ Grown(u, r, A, x) /\ Stepped(u, r, a)
  BY <1>1, FieldTaken
<1>3. PICK w : w = Advance(b, u)
  OBVIOUS
<1>4. HasShown(w, t, v, k) /\ Grown(w, u, B, y) /\ Stepped(w, u, b)
  BY <1>2, <1>3, FieldTaken
<1>5. Scan(<<a, b>>, r) = w
  BY <1>2, <1>4, ScanSecond
<1> QED
  BY <1>2, <1>4, <1>5

LEMMA ThreeTaken ==
  ASSUME NEW v, NEW r, NEW p, NEW n, HasShown(r, p, v, n),
         NEW a, NEW A, NEW x, NEW q, NEW m, Taking(a, A, p, x, q, v, n, m),
         NEW b, NEW B, NEW y, NEW t, NEW k, Taking(b, B, q, y, t, v, m, k),
         NEW c, NEW C, NEW z, NEW e, NEW l, Taking(c, C, t, z, e, v, k, l)
  PROVE  HasShown(Scan(<<a, b, c>>, r), e, v, l)
<1>1. PICK u : u = Advance(a, r)
  OBVIOUS
<1>2. HasShown(u, q, v, m) /\ Stepped(u, r, a)
  BY <1>1, FieldTaken
<1>3. PICK w : w = Advance(b, u)
  OBVIOUS
<1>4. HasShown(w, t, v, k) /\ Stepped(w, u, b)
  BY <1>2, <1>3, FieldTaken
<1>5. PICK j : j = Advance(c, w)
  OBVIOUS
<1>6. HasShown(j, e, v, l) /\ Stepped(j, w, c)
  BY <1>4, <1>5, FieldTaken
<1>7. Scan(<<a, b, c>>, r) = j
  BY <1>2, <1>4, <1>6, ScanThird
<1> QED
  BY <1>6, <1>7

(* The five fields in front of a ServerHello.                              *)
ServerHeadFields ==
  <<Field("Total Length", "number", 4), Field("Flag", "byte", 1),
    Field("Protocol Version", "number", 2), Field("Negotiated Cipher Suite", "number", 2),
    Field("Server Random", "all", 32)>>

Hidden(name) == name \in Names /\ name \notin HelloNames

LEMMA TakingHidden ==
  ASSUME NEW f, NEW name, NEW p, NEW x, NEW q, Takes(f, name, p, x, q),
         name \notin HelloNames, NEW v, NEW n
  PROVE  Taking(f, name, p, x, q, v, n, n)
BY DEF Taking

LEMMA NumberHidden ==
  ASSUME NEW name, Hidden(name), NEW w \in Nat, NEW f, f = Field(name, "number", w),
         NEW p, NEW x, NEW q, Piece(p, x, w, q), NEW v, NEW n
  PROVE  Taking(f, name, p, x, q, v, n, n)
<1>1. name \in Names /\ name \notin HelloNames /\ "number" \in {"number", "all"}
  BY DEF Hidden
<1>2. Takes(f, name, p, x, q)
  BY <1>1, TakesPiece
<1> QED
  BY <1>1, <1>2, TakingHidden

LEMMA ByteHidden ==
  ASSUME NEW name, Hidden(name), NEW f, f = Field(name, "byte", 1),
         NEW p, NEW x, NEW q, Piece(p, x, 1, q), NEW v, NEW n
  PROVE  Taking(f, name, p, x, q, v, n, n)
<1>1. name \in Names /\ name \notin HelloNames
  BY DEF Hidden
<1>2. Takes(f, name, p, x, q)
  BY <1>1, TakesByte
<1> QED
  BY <1>1, <1>2, TakingHidden

LEMMA AllHidden ==
  ASSUME NEW name, Hidden(name), NEW w \in Nat, NEW f, f = Field(name, "all", w),
         NEW p, NEW x, NEW q, Piece(p, x, w, q), NEW v, NEW n
  PROVE  Taking(f, name, p, x, q, v, n, n)
<1>1. name \in Names /\ name \notin HelloNames /\ "all" \in {"number", "all"}
  BY DEF Hidden
<1>2. Takes(f, name, p, x, q)
  BY <1>1, TakesPiece
<1> QED
  BY <1>1, <1>2, TakingHidden

LEMMA PieceShown ==
  ASSUME NEW name \in Names, NEW how \in {"number", "all"}, NEW w \in Nat,
         NEW f, f = Field(name, how, w), NEW p, NEW x, NEW q, Piece(p, x, w, q),
         NEW v, NEW n, NEW m, m = n + 1, IsValue(v, m, name, x)
  PROVE  Taking(f, name, p, x, q, v, n, m)
<1>1. Takes(f, name, p, x, q)
  BY TakesPiece
<1> QED
  BY <1>1 DEF Taking

ShowsRandom(v, x) == IsValue(v, 1, "Server Random", x)

(* A step of a scan.                                                       *)
Moves(s, r, f) == r.err = FALSE => s = Advance(f, r)

LEMMA FieldMoves ==
  ASSUME NEW f, NEW name, NEW p, NEW x, NEW q, NEW v, NEW n, NEW m,
         Taking(f, name, p, x, q, v, n, m), NEW r, HasShown(r, p, v, n),
         NEW s, Moves(s, r, f)
  PROVE  HasShown(s, q, v, m)
<1>1. s = Advance(f, r)
  BY DEF HasShown, Moves
<1> QED
  BY <1>1, FieldTaken

LEMMA ServerHead ==
  ASSUME NEW p, NEW x2, NEW x3, NEW x4, NEW x5, NEW x6, NEW v1, NEW v2, NEW v3, NEW v4, NEW v5,
         Piece(p, v1, 4, x2), Piece(x2, v2, 1, x3), Piece(x3, v3, 2, x4),
         Piece(x4, v4, 2, x5), Piece(x5, v5, 32, x6),
         NEW v, ShowsRandom(v, v5)
  PROVE  HasShown(Scan(ServerHeadFields, Reader(p)), x6, v, 1)
<1>14. /\ 2 \in Nat /\ 4 \in Nat /\ 32 \in Nat /\ 1 = 0 + 1
  OBVIOUS
<1>34. /\ 1 \in 1..5 /\ 0 = 1 - 1 /\ 2 \in 1..5 /\ 1 = 2 - 1 /\ 3 \in 1..5 /\ 2 = 3 - 1
       /\ 4 \in 1..5 /\ 3 = 4 - 1 /\ 5 \in 1..5 /\ 4 = 5 - 1
  OBVIOUS
<1>33. "all" \in {"number", "all"}
  OBVIOUS
<1>1. PICK na : na = "Total Length"
  OBVIOUS
<1>2. PICK nb : nb = "Flag"
  OBVIOUS
<1>3. PICK nc : nc = "Protocol Version"
  OBVIOUS
<1>4. PICK nd : nd = "Negotiated Cipher Suite"
  OBVIOUS
<1>5. PICK ne : ne = "Server Random"
  OBVIOUS
<1>6. /\ Hidden(na) /\ Hidden(nb) /\ Hidden(nc) /\ Hidden(nd) /\ ne \in Names
  BY <1>1, <1>2, <1>3, <1>4, <1>5 DEF Hidden, Names, ShownNames, HelloNames
<1>7. PICK a : a = Field(na, "number", 4)
  OBVIOUS
<1>8. PICK b : b = Field(nb, "byte", 1)
  OBVIOUS
<1>9. PICK c : c = Field(nc, "number", 2)
  OBVIOUS
<1>10. PICK d : d = Field(nd, "number", 2)
  OBVIOUS
<1>11. PICK e : e = Field(ne, "all", 32)
  OBVIOUS
<1>12. ServerHeadFields = <<a, b, c, d, e>>
  BY <1>1, <1>2, <1>3, <1>4, <1>5, <1>7, <1>8, <1>9, <1>10, <1>11 DEF ServerHeadFields
<1>13. IsValue(v, 1, ne, v5)
  BY <1>5 DEF ShowsRandom
<1>15. Taking(a, na, p, v1, x2, v, 0, 0)
  BY <1>6, <1>7, <1>14, NumberHidden
<1>16. Taking(b, nb, x2, v2, x3, v, 0, 0)
  BY <1>6, <1>8, ByteHidden
<1>17. Taking(c, nc, x3, v3, x4, v, 0, 0)
  BY <1>6, <1>9, <1>14, NumberHidden
<1>18. Taking(d, nd, x4, v4, x5, v, 0, 0)
  BY <1>6, <1>10, <1>14, NumberHidden
<1>19. Taking(e, ne, x5, v5, x6, v, 0, 1)
  BY <1>6, <1>11, <1>13, <1>14, <1>33, PieceShown
<1>20. PICK r : r = Reader(p)
  OBVIOUS
<1>21. HasShown(r, p, v, 0)
  BY <1>20, ShowsNone DEF Piece
<1> DEFINE fields == <<a, b, c, d, e>>
<1>22. /\ fields \in Seq(Fields) /\ Len(fields) = 5 /\ a = fields[1] /\ b = fields[2]
       /\ c = fields[3] /\ d = fields[4] /\ e = fields[5]
  <2>1. a \in Fields /\ b \in Fields /\ c \in Fields /\ d \in Fields /\ e \in Fields
    BY <1>15, <1>16, <1>17, <1>18, <1>19 DEF Taking, Takes
  <2> QED
    BY <2>1
<1> HIDE DEF fields
<1>23. PICK g : ScanGoes(g, fields, 5, r)
  <2>1. r \in Readers
    BY <1>21 DEF HasShown
  <2> QED
    BY <1>22, <2>1, ScanOf
<1>24. HasShown(g[0], p, v, 0)
  BY <1>21, <1>23 DEF ScanGoes
<1>35. /\ Moves(g[1], g[0], a)
       /\ Moves(g[2], g[1], b)
       /\ Moves(g[3], g[2], c)
       /\ Moves(g[4], g[3], d)
       /\ Moves(g[5], g[4], e)
  BY <1>22, <1>23, <1>34 DEF ScanGoes, Moves
<1>25. HasShown(g[1], x2, v, 0)
  BY <1>15, <1>24, <1>35, FieldMoves
<1>26. HasShown(g[2], x3, v, 0)
  BY <1>16, <1>25, <1>35, FieldMoves
<1>27. HasShown(g[3], x4, v, 0)
  BY <1>17, <1>26, <1>35, FieldMoves
<1>28. HasShown(g[4], x5, v, 0)
  BY <1>18, <1>27, <1>35, FieldMoves
<1>29. HasShown(g[5], x6, v, 1)
  BY <1>19, <1>28, <1>35, FieldMoves
<1>30. Scan(fields, r) = g[5]
  BY <1>23 DEF ScanGoes
<1> QED
  BY <1>12, <1>20, <1>29, <1>30 DEF fields

(* The extensions of a ServerHello: one, which is the key share.           *)
LEMMA OneExtension ==
  ASSUME NEW r, r.err = FALSE
  PROVE  Repeat(1, parseServerHelloExtension, r) = parseServerHelloExtension(r)
<1> DEFINE Once(s) == With(s, LAMBDA t : IF t.err THEN t ELSE parseServerHelloExtension(t))
           Is(f) == f = [i \in 0..1 |-> IF i = 0 THEN r ELSE Once(f[i - 1])]
<1>1. Once(r) = parseServerHelloExtension(r)
  BY DEF With
<1>2. Repeat(1, parseServerHelloExtension, r) = (CHOOSE f : Is(f))[1]
  BY DEF Repeat, Once
<1> HIDE DEF Once
<1>3. 0 \in 0..1 /\ 1 \in 0..1 /\ 1 # 0 /\ 1 - 1 = 0 /\ \A i \in 0..1 : i = 0 \/ i = 1
  OBVIOUS
<1> DEFINE g == [i \in 0..1 |-> IF i = 0 THEN r ELSE Once(r)]
<1>4. Is(g)
  <2>1. \A i \in 0..1 : g[i] = IF i = 0 THEN r ELSE Once(g[i - 1])
    BY <1>3
  <2> QED
    BY <2>1
<1>5. ASSUME NEW f, Is(f) PROVE f[1] = Once(r)
  <2>1. f[0] = r
    BY <1>3, <1>5
  <2>2. f[1] = Once(f[1 - 1])
    BY <1>3, <1>5
  <2> QED
    BY <1>3, <2>1, <2>2
<1>6. Is(CHOOSE f : Is(f))
  <2> HIDE DEF Is, g
  <2> QED
    BY <1>4
<1> HIDE DEF Is
<1> QED
  BY <1>1, <1>2, <1>5, <1>6

LEMMA StaysAt ==
  ASSUME NEW a, NEW m, NEW k, NEW A, NEW x, HasAt(a, m, k, A, x),
         NEW b, NEW B, NEW y, Grown(b, a, B, y), B # A
  PROVE  \E n : HasAt(b, n, k, A, x)
<1>1. /\ m \in Nat /\ Len(a.out) = m /\ k \in 1..m /\ a.out[k] = <<A, x>>
      /\ \A j \in 1..m : j > k => a.out[j][1] # A
  BY DEF HasAt
<1>2. /\ Len(b.out) = m + 1 /\ b.out[m + 1] = <<B, y>>
      /\ \A i \in 1..m : b.out[i] = a.out[i]
  BY <1>1 DEF Grown
<1>3. m + 1 \in Nat /\ k \in 1..m + 1 /\ \A j \in 1..m + 1 : j \in 1..m \/ j = m + 1
  BY <1>1
<1>4. b.out[k] = <<A, x>>
  BY <1>1, <1>2
<1>5. b.out[m + 1][1] # A
  BY <1>2
<1>6. \A j \in 1..m + 1 : j > k => b.out[j][1] # A
  BY <1>1, <1>2, <1>3, <1>5
<1>7. HasAt(b, m + 1, k, A, x)
  BY <1>2, <1>3, <1>4, <1>6 DEF HasAt
<1> QED
  BY <1>7

LEMMA ValueBefore ==
  ASSUME NEW r, NEW a, NEW b, NEW c, NEW d, NEW A, NEW x, NEW B, NEW y, NEW C, NEW z,
         NEW D, NEW w, Grown(a, r, A, x), Grown(b, a, B, y), Grown(c, b, C, z),
         Grown(d, c, D, w), B # A, C # A, D # A
  PROVE  Value(d, A) = x
<1>1. PICK k : HasAt(a, k, k, A, x)
  BY HasLast
<1>2. PICK m : HasAt(b, m, k, A, x)
  BY <1>1, StaysAt
<1>3. PICK n : HasAt(c, n, k, A, x)
  BY <1>2, StaysAt
<1>4. PICK l : HasAt(d, l, k, A, x)
  BY <1>3, StaysAt
<1> QED
  BY <1>4, ValueAt

LEMMA NoExtra ==
  ASSUME NEW name, NEW r, NEW n, n = 0
  PROVE  Extra(name, n, r) = r
BY DEF Extra

LEMMA HasShownNext ==
  ASSUME NEW r, NEW q, NEW v, NEW n, HasShown(r, q, v, n)
  PROVE  r.err = FALSE /\ ~ r.err /\ r \in Readers
BY DEF HasShown

(* The key share.                                                          *)
ShowsShare(v, x) == IsValue(v, 2, "Server EC Public Key", x)

LEMMA ShareTaken ==
  ASSUME NEW v, NEW r, NEW p1, NEW p2, NEW p3, NEW p4, NEW y1, NEW y2, NEW y3, NEW share,
         HasShown(r, p1, v, 1), Piece(p1, y1, 4, p2), Piece(p2, y2, 2, p3),
         Piece(p3, y3, 4, p4), DataPiece(p4, share, 2, << >>), ShowsShare(v, share),
         Number(y1) = 8 + Len(share)
  PROVE  HasShown(parseServerHelloExtension(r), << >>, v, 2)
<1>14. /\ 2 \in Nat /\ 4 \in Nat /\ 2 = 1 + 1
  OBVIOUS
<1>1. PICK na : na = "Extension Length"
  OBVIOUS
<1>2. PICK nb : nb = "Extension"
  OBVIOUS
<1>3. PICK nc : nc = "Array Index"
  OBVIOUS
<1>4. PICK nd : nd = "Server EC Public Key"
  OBVIOUS
<1>5. PICK how : how = "all data"
  OBVIOUS
<1>6. /\ Hidden(na) /\ Hidden(nb) /\ Hidden(nc) /\ nd \in Names
      /\ nb # na /\ nc # na /\ nd # na
  BY <1>1, <1>2, <1>3, <1>4 DEF Hidden, Names, ShownNames, HelloNames
<1>7. PICK a : a = Field(na, "number", 4)
  OBVIOUS
<1>8. PICK b : b = Field(nb, "number", 2)
  OBVIOUS
<1>9. PICK c : c = Field(nc, "number", 4)
  OBVIOUS
<1>10. PICK d : d = Field(nd, how, 2)
  OBVIOUS
<1>11. PICK e : e = << >>
  OBVIOUS
<1>12. IsValue(v, 2, nd, share) /\ DataPiece(p4, share, 2, e)
  BY <1>4, <1>11 DEF ShowsShare
<1>15. Taking(a, na, p1, y1, p2, v, 1, 1)
  BY <1>6, <1>7, <1>14, NumberHidden
<1>16. Taking(b, nb, p2, y2, p3, v, 1, 1)
  BY <1>6, <1>8, <1>14, NumberHidden
<1>17. Taking(c, nc, p3, y3, p4, v, 1, 1)
  BY <1>6, <1>9, <1>14, NumberHidden
<1>18. Taking(d, nd, p4, share, e, v, 1, 2)
  <2>1. Takes(d, nd, p4, share, e)
    BY <1>5, <1>6, <1>10, <1>12, <1>14, TakesData
  <2> QED
    BY <1>12, <1>14, <2>1 DEF Taking
<1>19. PICK s : s = Scan(<<a, b>>, r)
  OBVIOUS
<1>20. HasShown(s, p3, v, 1) /\ \E u : Grown(u, r, na, y1) /\ Grown(s, u, nb, y2)
  BY <1>15, <1>16, <1>19, TwoTaken
<1>21. PICK t : t = Scan(<<c, d>>, s)
  OBVIOUS
<1>22. HasShown(t, e, v, 2) /\ \E u : Grown(u, s, nc, y3) /\ Grown(t, u, nd, share)
  BY <1>17, <1>18, <1>20, <1>21, TwoTaken
<1>23. Value(t, na) = y1 /\ Value(t, nd) = share
  <2>1. PICK u : Grown(u, r, na, y1) /\ Grown(s, u, nb, y2)
    BY <1>20
  <2>2. PICK w : Grown(w, s, nc, y3) /\ Grown(t, w, nd, share)
    BY <1>22
  <2>3. Value(t, na) = y1
    BY <1>6, <2>1, <2>2, ValueBefore
  <2>4. Value(t, nd) = share
    BY <2>2, LastValue
  <2> QED
    BY <2>3, <2>4
<1>24. keyShare(s) = Extra("Extra Data", Number(Value(t, na)) - (8 + Len(Value(t, nd))), t)
  <2>1. ~ t.err
    BY <1>22, HasShownNext
  <2>2. t = Scan(<<Field("Array Index", "number", 4),
                   Field("Server EC Public Key", "all data", 2)>>, s)
    BY <1>3, <1>4, <1>5, <1>9, <1>10, <1>21
  <2> QED
    BY <1>1, <1>4, <2>1, <2>2 DEF keyShare, With, NumberIn
<1>25. keyShare(s) = t
  <2>1. PICK n : n = Number(Value(t, na)) - (8 + Len(Value(t, nd)))
    OBVIOUS
  <2>2. Len(share) \in Nat
    BY OnlyEmpty DEF DataPiece
  <2>3. n = (8 + Len(share)) - (8 + Len(share))
    BY <1>23, <2>1
  <2>4. n = 0
    BY <2>2, <2>3
  <2> QED
    BY <1>24, <2>1, <2>4, NoExtra
<1>26. parseServerHelloExtension(r) = keyShare(s)
  <2>1. ~ s.err
    BY <1>20, HasShownNext
  <2>2. s = Scan(<<Field("Extension Length", "number", 4),
                   Field("Extension", "number", 2)>>, r)
    BY <1>1, <1>2, <1>7, <1>8, <1>19
  <2> QED
    BY <2>1, <2>2 DEF parseServerHelloExtension, With
<1> QED
  BY <1>11, <1>22, <1>25, <1>26

Fives(a, b, c, d, e, all) == all = a \o b \o c \o d \o e

LEMMA FiveFromRight ==
  ASSUME NEW a \in Str, NEW b \in Str, NEW c \in Str, NEW d \in Str, NEW e \in Str,
         NEW x1, NEW x2, NEW x3, NEW x4, Join(d, e, x1), Join(c, x1, x2), Join(b, x2, x3),
         Join(a, x3, x4)
  PROVE  Fives(a, b, c, d, e, x4)
<1> DEFINE ab == a \o b
           abc == ab \o c
           abcd == abc \o d
           all == abcd \o e
<1>1. Join(a, b, ab) /\ Join(ab, c, abc) /\ Join(abc, d, abcd) /\ Join(abcd, e, all)
  BY DEF Join
<1> HIDE DEF ab, abc, abcd, all
<1>2. ab \in Str /\ x1 \in Str
  BY <1>1, JoinStr DEF Join
<1>3. abc \in Str /\ x2 \in Str
  BY <1>1, <1>2, JoinStr DEF Join
<1>4. Join(abc, x1, all)
  BY <1>1, <1>3, RegroupAt
<1>5. Join(ab, x2, all)
  BY <1>1, <1>2, <1>4, RegroupAt
<1>6. Join(a, x3, all)
  BY <1>1, <1>3, <1>5, RegroupAt
<1>7. x4 = all
  BY <1>6 DEF Join
<1> QED
  BY <1>7 DEF Fives, all, abcd, abc, ab

(* The extensions behind their length and their number.                    *)
ExtensionsHead == <<Field("Extensions Length", "number", 4), Field("Extensions", "all", 1)>>

HasCount(s, k) == NumberIn(s, "Extensions") = k

LEMMA CountTaken ==
  ASSUME NEW v, NEW n, NEW r, NEW p1, NEW p2, NEW p3, NEW y1, NEW y2, NEW k,
         HasShown(r, p1, v, n), Piece(p1, y1, 4, p2), Piece(p2, y2, 1, p3), k = Number(y2),
         NEW s, s = Scan(ExtensionsHead, r)
  PROVE  HasShown(s, p3, v, n) /\ HasCount(s, k)
<1>1. 1 \in Nat /\ 4 \in Nat
  OBVIOUS
<1>2. PICK na : na = "Extensions Length"
  OBVIOUS
<1>3. PICK nb : nb = "Extensions"
  OBVIOUS
<1>4. Hidden(na) /\ Hidden(nb)
  BY <1>2, <1>3 DEF Hidden, Names, ShownNames, HelloNames
<1>5. PICK a : a = Field(na, "number", 4)
  OBVIOUS
<1>6. PICK b : b = Field(nb, "all", 1)
  OBVIOUS
<1>7. Taking(a, na, p1, y1, p2, v, n, n)
  BY <1>1, <1>4, <1>5, NumberHidden
<1>8. Taking(b, nb, p2, y2, p3, v, n, n)
  BY <1>1, <1>4, <1>6, AllHidden
<1>9. s = Scan(<<a, b>>, r)
  BY <1>2, <1>3, <1>5, <1>6 DEF ExtensionsHead
<1>10. HasShown(s, p3, v, n) /\ \E u : Grown(u, r, na, y1) /\ Grown(s, u, nb, y2)
  BY <1>7, <1>8, <1>9, TwoTaken
<1>11. Value(s, nb) = y2
  BY <1>10, LastValue
<1> QED
  BY <1>3, <1>10, <1>11 DEF NumberIn, HasCount

LEMMA ServerExtended ==
  ASSUME NEW v, NEW r, NEW p, NEW p0, NEW p1, NEW p2, NEW p3, NEW p4, NEW z1, NEW z2,
         NEW y1, NEW y2, NEW y3, NEW share,
         HasShown(r, p, v, 1), Piece(p, z1, 4, p0), Piece(p0, z2, 1, p1), Number(z2) = 1,
         Piece(p1, y1, 4, p2), Piece(p2, y2, 2, p3), Piece(p3, y3, 4, p4),
         DataPiece(p4, share, 2, << >>), ShowsShare(v, share), Number(y1) = 8 + Len(share)
  PROVE  HasShown(Extended(r, parseServerHelloExtension), << >>, v, 2)
<1>1. PICK s : s = Scan(ExtensionsHead, r)
  OBVIOUS
<1>2. HasShown(s, p1, v, 1) /\ HasCount(s, 1)
  BY <1>1, CountTaken
<1>3. HasShown(parseServerHelloExtension(s), << >>, v, 2)
  BY <1>2, ShareTaken
<1>4. s.err = FALSE
  BY <1>2, HasShownNext
<1>5. Extended(r, parseServerHelloExtension) = Repeat(1, parseServerHelloExtension, s)
  BY <1>1, <1>2, <1>4 DEF Extended, With, ExtensionsHead, HasCount
<1>6. Repeat(1, parseServerHelloExtension, s) = parseServerHelloExtension(s)
  BY <1>4, OneExtension
<1> QED
  BY <1>3, <1>5, <1>6

-----------------------------------------------------------------------------
(* A ServerHello, piece by piece.                                          *)
LEMMA WidthPiece ==
  ASSUME NEW k \in Nat, NEW w \in {2, 4}, NEW q \in Str
  PROVE  Piece(BigEndian(k, w) \o q, BigEndian(k, w), w, q)
<1>1. w \in {1, 2, 4}
  OBVIOUS
<1> QED
  BY <1>1, NumberPiece

LEMMA SharePiece ==
  ASSUME NEW d \in Str, Len(d) < Limit2
  PROVE  /\ writeU16LenData(d) \in Str /\ Len(writeU16LenData(d)) = 2 + Len(d)
         /\ DataPiece(writeU16LenData(d), d, 2, << >>)
<1>1. PICK a : a = BigEndian(Len(d), 2)
  OBVIOUS
<1>2. a \in Str /\ Len(a) = 2
  <2>1. Len(d) \in Nat
    BY OnlyEmpty
  <2> QED
    BY <1>1, <2>1, BigEndianType DEF Of
<1>3. writeU16LenData(d) = a \o d
  BY <1>1 DEF writeU16LenData
<1>4. PICK e : e = << >>
  OBVIOUS
<1>5. d \o e = d /\ e \in Str
  BY <1>4, ConcatEmptySeq, EmptyStr DEF Str
<1>6. writeU16LenData(d) = BigEndian(Len(d), 2) \o (d \o e)
  BY <1>5 DEF writeU16LenData
<1>7. DataPiece(writeU16LenData(d), d, 2, e)
  BY <1>5, <1>6 DEF DataPiece
<1>8. a \o d \in Str /\ Len(a \o d) = Len(a) + Len(d)
  BY <1>2, JoinStr
<1> QED
  BY <1>2, <1>3, <1>4, <1>7, <1>8

ServerLaid(p, random, share) ==
  \E x2, x3, x4, x5, x6, x7, x8, y1, y2, y3 :
    /\ p = writeU32LenData(x2)
    /\ Piece(p, BigEndian(Len(x2), 4), 4, x2) /\ Piece(x2, <<2>>, 1, x3)
    /\ Piece(x3, BigEndian(ProtocolVersion, 2), 2, x4)
    /\ Piece(x4, BigEndian(EcdheSuite, 2), 2, x5) /\ Piece(x5, random, 32, x6)
    /\ Piece(x6, BigEndian(Len(x7), 4), 4, x7) /\ Piece(x7, <<1>>, 1, x8)
    /\ Piece(x8, BigEndian(Len(y1), 4), 4, y1) /\ Piece(y1, BigEndian(16, 2), 2, y2)
    /\ Piece(y2, BigEndian(0, 4), 4, y3) /\ DataPiece(y3, share, 2, << >>)
    /\ Len(y1) = 8 + Len(share)

LEMMA ServerPieces ==
  ASSUME NEW random \in Of(32), NEW share \in Str, Len(share) < Limit2
  PROVE  ServerLaid(ServerHello(random, share), random, share)
<1>1. random \in Str /\ Len(random) = 32
  BY DEF Of
<1>2. /\ 16 \in Nat /\ 0 \in Nat /\ ProtocolVersion \in Nat /\ EcdheSuite \in Nat
      /\ 2 \in {2, 4} /\ 4 \in {2, 4} /\ 1 \in 0..255 /\ 2 \in 0..255
  BY DEF ProtocolVersion, EcdheSuite
<1>3. PICK y3 : y3 = writeU16LenData(share)
  OBVIOUS
<1>4. y3 \in Str /\ Len(y3) = 2 + Len(share) /\ DataPiece(y3, share, 2, << >>)
  BY <1>3, SharePiece
<1>5. PICK y2 : y2 = BigEndian(0, 4) \o y3
  OBVIOUS
<1>6. Piece(y2, BigEndian(0, 4), 4, y3) /\ y2 \in Str
  <2>1. Piece(y2, BigEndian(0, 4), 4, y3)
    BY <1>2, <1>4, <1>5, WidthPiece
  <2> QED
    BY <2>1 DEF Piece
<1>7. PICK y1 : y1 = BigEndian(16, 2) \o y2
  OBVIOUS
<1>8. Piece(y1, BigEndian(16, 2), 2, y2) /\ y1 \in Str
  <2>1. Piece(y1, BigEndian(16, 2), 2, y2)
    BY <1>2, <1>6, <1>7, WidthPiece
  <2> QED
    BY <2>1 DEF Piece
<1>9. PICK x8 : x8 = writeU32LenData(y1)
  OBVIOUS
<1>10. Piece(x8, BigEndian(Len(y1), 4), 4, y1) /\ x8 \in Str
  <2>1. Piece(x8, BigEndian(Len(y1), 4), 4, y1)
    BY <1>8, <1>9, U32Piece
  <2> QED
    BY <2>1 DEF Piece
<1>11. PICK x7 : x7 = <<1>> \o x8
  OBVIOUS
<1>12. Piece(x7, <<1>>, 1, x8) /\ x7 \in Str
  <2>1. Piece(x7, <<1>>, 1, x8)
    BY <1>2, <1>10, <1>11, BytePiece
  <2> QED
    BY <2>1 DEF Piece
<1>13. PICK x6 : x6 = writeU32LenData(x7)
  OBVIOUS
<1>14. Piece(x6, BigEndian(Len(x7), 4), 4, x7) /\ x6 \in Str
  <2>1. Piece(x6, BigEndian(Len(x7), 4), 4, x7)
    BY <1>12, <1>13, U32Piece
  <2> QED
    BY <2>1 DEF Piece
<1>15. PICK x5 : x5 = random \o x6
  OBVIOUS
<1>16. Piece(x5, random, 32, x6) /\ x5 \in Str
  <2>1. Piece(x5, random, 32, x6)
    BY <1>1, <1>14, <1>15, PieceIs
  <2> QED
    BY <2>1 DEF Piece
<1>17. PICK x4 : x4 = BigEndian(EcdheSuite, 2) \o x5
  OBVIOUS
<1>18. Piece(x4, BigEndian(EcdheSuite, 2), 2, x5) /\ x4 \in Str
  <2>1. Piece(x4, BigEndian(EcdheSuite, 2), 2, x5)
    BY <1>2, <1>16, <1>17, WidthPiece
  <2> QED
    BY <2>1 DEF Piece
<1>19. PICK x3 : x3 = BigEndian(ProtocolVersion, 2) \o x4
  OBVIOUS
<1>20. Piece(x3, BigEndian(ProtocolVersion, 2), 2, x4) /\ x3 \in Str
  <2>1. Piece(x3, BigEndian(ProtocolVersion, 2), 2, x4)
    BY <1>2, <1>18, <1>19, WidthPiece
  <2> QED
    BY <2>1 DEF Piece
<1>21. PICK x2 : x2 = <<2>> \o x3
  OBVIOUS
<1>22. Piece(x2, <<2>>, 1, x3) /\ x2 \in Str
  <2>1. Piece(x2, <<2>>, 1, x3)
    BY <1>2, <1>20, <1>21, BytePiece
  <2> QED
    BY <2>1 DEF Piece
<1>23. PICK p : p = writeU32LenData(x2)
  OBVIOUS
<1>24. Piece(p, BigEndian(Len(x2), 4), 4, x2)
  BY <1>22, <1>23, U32Piece
<1>25. ServerHello(random, share) = p
  <2>1. PICK a : a = <<2>>
    OBVIOUS
  <2>2. PICK b : b = BigEndian(ProtocolVersion, 2)
    OBVIOUS
  <2>3. PICK c : c = BigEndian(EcdheSuite, 2)
    OBVIOUS
  <2>4. a \in Str /\ b \in Str /\ c \in Str
    BY <1>18, <1>20, <1>22, <2>1, <2>2, <2>3 DEF Piece
  <2>5. Join(random, x6, x5) /\ Join(c, x5, x4) /\ Join(b, x4, x3) /\ Join(a, x3, x2)
    BY <1>15, <1>17, <1>19, <1>21, <2>1, <2>2, <2>3 DEF Join
  <2>6. a \o b \o c \o random \o x6 = x2
    <3>1. random \in Str /\ x6 \in Str
      BY <1>1, <1>14
    <3>2. Fives(a, b, c, random, x6, x2)
      BY <2>4, <2>5, <3>1, FiveFromRight
    <3> QED
      BY <3>2 DEF Fives
  <2>7. PICK d : d = BigEndian(16, 2)
    OBVIOUS
  <2>8. PICK e : e = BigEndian(0, 4)
    OBVIOUS
  <2>9. d \in Str /\ e \in Str
    BY <1>6, <1>8, <2>7, <2>8 DEF Piece
  <2>10. d \o e \o y3 = y1
    <3>1. d \o e \o y3 = d \o (e \o y3)
      BY <1>4, <2>9, Regroup
    <3> QED
      BY <1>5, <1>7, <2>7, <2>8, <3>1
  <2>11. ServerHello(random, share)
           = writeU32LenData(a \o b \o c \o random
               \o writeU32LenData(<<1>> \o writeU32LenData(d \o e \o writeU16LenData(share))))
    BY <2>1, <2>2, <2>3, <2>7, <2>8 DEF ServerHello
  <2>12. writeU32LenData(<<1>> \o writeU32LenData(d \o e \o writeU16LenData(share))) = x6
    BY <1>3, <1>9, <1>11, <1>13, <2>10
  <2> QED
    BY <1>23, <2>6, <2>11, <2>12
<1>26. Len(y1) = 8 + Len(share)
  <2>1. Len(share) \in Nat
    BY OnlyEmpty
  <2> QED
    BY <1>4, <1>6, <1>8, <2>1 DEF Piece
<1> QED
  BY <1>4, <1>6, <1>8, <1>10, <1>12, <1>14, <1>16, <1>18, <1>20, <1>22, <1>23, <1>24,
     <1>25, <1>26 DEF ServerLaid

(* The length of what is inside a frame that fits a record.                *)
LEMMA FramedFits ==
  ASSUME NEW rec, Fits(rec), NEW x, NEW y, Piece(rec.data, y, 4, x)
  PROVE  Len(x) < Limit4 /\ Len(rec.data) = 4 + Len(x) /\ Len(x) \in Nat /\ Len(x) + 9 < Limit2
<1>1. Len(rec.data) + HeaderLen < Base * Base
  BY DEF Fits
<1>2. Len(rec.data) + 5 < 65536
  BY <1>1, ByteAssumption DEF HeaderLen
<1>3. Len(rec.data) = 4 + Len(x) /\ Len(x) \in Nat
  BY DEF Piece
<1>4. Len(x) < Limit4
  BY <1>2, <1>3, SMT DEF Limit4
<1>5. Len(x) + 9 < Limit2
  BY <1>2, <1>3, SMT DEF Limit2
<1> QED
  BY <1>3, <1>4, <1>5

Longer(p, n, q) == Len(p) = n + Len(q) /\ Len(q) \in Nat

LEMMA PieceLonger ==
  ASSUME NEW p, NEW v, NEW n, NEW q, Piece(p, v, n, q)
  PROVE  Longer(p, n, q)
<1>1. Len(q) \in Nat
  BY OnlyEmpty DEF Piece
<1> QED
  BY <1>1 DEF Piece, Longer

LEMMA ServerParsed ==
  ASSUME NEW p, NEW s, s = Scan(ServerHeadFields, Reader(p)), s.err = FALSE
  PROVE  parseServerHelloFields(p)
           = Described("ServerHello", Extended(s, parseServerHelloExtension).out)
BY DEF parseServerHelloFields, ServerHeadFields, With

LEMMA NumberOfByte ==
  ASSUME NEW k \in 0..255
  PROVE  Number(<<k>>) = k
<1>1. PICK o : o = <<k>>
  OBVIOUS
<1>2. o \in Str /\ Len(o) = 1 /\ o[1] = k
  BY <1>1, OneByte
<1>3. Number(o) = k
  BY <1>2, NumberValues
<1> QED
  BY <1>1, <1>3

LEMMA WidthNumber ==
  ASSUME NEW n \in Nat, n < Limit4
  PROVE  Number(BigEndian(n, 4)) = n
BY NumberOfBigEndian

LEMMA ServerRead ==
  ASSUME NEW p, NEW random, NEW share, ServerLaid(p, random, share), NEW v,
         ShowsRandom(v, random), ShowsShare(v, share), Len(p) < Limit4
  PROVE  \E r : /\ parseServerHelloFields(p) = Described("ServerHello", r.out)
                /\ HasShown(r, << >>, v, 2)
<1>1. PICK x2, x3, x4, x5, x6, x7, x8, y1, y2, y3 :
        /\ p = writeU32LenData(x2)
        /\ Piece(p, BigEndian(Len(x2), 4), 4, x2) /\ Piece(x2, <<2>>, 1, x3)
        /\ Piece(x3, BigEndian(ProtocolVersion, 2), 2, x4)
        /\ Piece(x4, BigEndian(EcdheSuite, 2), 2, x5) /\ Piece(x5, random, 32, x6)
        /\ Piece(x6, BigEndian(Len(x7), 4), 4, x7) /\ Piece(x7, <<1>>, 1, x8)
        /\ Piece(x8, BigEndian(Len(y1), 4), 4, y1) /\ Piece(y1, BigEndian(16, 2), 2, y2)
        /\ Piece(y2, BigEndian(0, 4), 4, y3) /\ DataPiece(y3, share, 2, << >>)
        /\ Len(y1) = 8 + Len(share)
  BY DEF ServerLaid
<1>2. PICK s : s = Scan(ServerHeadFields, Reader(p))
  OBVIOUS
<1>3. HasShown(s, x6, v, 1)
  BY <1>1, <1>2, ServerHead
<1>4. PICK one : one = <<1>>
  OBVIOUS
<1>5. PICK w1 : w1 = BigEndian(Len(y1), 4)
  OBVIOUS
<1>6. Number(one) = 1
  <2>1. 1 \in 0..255
    OBVIOUS
  <2> QED
    BY <1>4, <2>1, NumberOfByte
<1>7. Number(w1) = 8 + Len(share)
  <2>1. /\ Len(p) = 4 + Len(x2) /\ Len(x2) = 1 + Len(x3) /\ Len(x3) = 2 + Len(x4)
        /\ Len(x4) = 2 + Len(x5) /\ Len(x5) = 32 + Len(x6) /\ Len(x6) = 4 + Len(x7)
        /\ Len(x7) = 1 + Len(x8) /\ Len(x8) = 4 + Len(y1) /\ Len(y1) \in Nat
    <3>1. /\ Longer(p, 4, x2) /\ Longer(x2, 1, x3) /\ Longer(x3, 2, x4) /\ Longer(x4, 2, x5)
          /\ Longer(x5, 32, x6) /\ Longer(x6, 4, x7) /\ Longer(x7, 1, x8) /\ Longer(x8, 4, y1)
      BY <1>1, PieceLonger
    <3> QED
      BY <3>1 DEF Longer
  <2>2. Limit4 \in Nat
    BY SMT DEF Limit4
  <2>3. Len(y1) < Limit4
    BY <2>1, <2>2
  <2>4. Number(w1) = Len(y1)
    BY <1>5, <2>1, <2>3, WidthNumber
  <2> QED
    BY <1>1, <2>4
<1>8. PICK r : r = Extended(s, parseServerHelloExtension)
  OBVIOUS
<1>9. HasShown(r, << >>, v, 2)
  <2>1. PICK w0 : w0 = BigEndian(Len(x7), 4)
    OBVIOUS
  <2>2. PICK w2 : w2 = BigEndian(16, 2)
    OBVIOUS
  <2>3. PICK w3 : w3 = BigEndian(0, 4)
    OBVIOUS
  <2>4. /\ Piece(x6, w0, 4, x7) /\ Piece(x7, one, 1, x8) /\ Piece(x8, w1, 4, y1)
        /\ Piece(y1, w2, 2, y2) /\ Piece(y2, w3, 4, y3) /\ DataPiece(y3, share, 2, << >>)
    BY <1>1, <1>4, <1>5, <2>1, <2>2, <2>3
  <2>5. HasShown(Extended(s, parseServerHelloExtension), << >>, v, 2)
    BY <1>3, <1>6, <1>7, <2>4, ServerExtended
  <2> QED
    BY <1>8, <2>5
<1>10. s.err = FALSE
  BY <1>3 DEF HasShown
<1>11. parseServerHelloFields(p) = Described("ServerHello", r.out)
  BY <1>2, <1>8, <1>10, ServerParsed
<1> QED
  BY <1>9, <1>11

(* Two values expected.                                                    *)
LEMMA TwoExpected ==
  ASSUME NEW s, NEW a \in HelloNames, NEW v, NEW b \in HelloNames, NEW w, TwoValues(s, a, v, b, w)
  PROVE  /\ IsValue(s.values, 1, a, v) /\ IsValue(s.values, 2, b, w)
         /\ DOMAIN s.values = 1..2 /\ Len(s.values) = 2
         /\ \A i \in 1..2 : s.values[i][1] \in HelloNames
<1>1. /\ DOMAIN s.values = 1..2 /\ Len(s.values) = 2
      /\ s.values[1] = <<a, v>> /\ s.values[2] = <<b, w>>
  BY DEF TwoValues
<1>2. \A i \in 1..2 : i = 1 \/ i = 2
  OBVIOUS
<1>3. \A i \in 1..2 : s.values[i][1] \in HelloNames
  BY <1>1, <1>2
<1> QED
  BY <1>1, <1>3 DEF IsValue

LEMMA ServerLonger ==
  ASSUME NEW p, NEW random, NEW share, ServerLaid(p, random, share)
  PROVE  \E x : /\ p = writeU32LenData(x) /\ x \in Str /\ Len(x) > 1 /\ x[1] = 2
                 /\ Piece(p, BigEndian(Len(x), 4), 4, x)
<1>1. PICK x, x3, x4 :
        /\ p = writeU32LenData(x) /\ Piece(p, BigEndian(Len(x), 4), 4, x)
        /\ Piece(x, <<2>>, 1, x3) /\ Piece(x3, BigEndian(ProtocolVersion, 2), 2, x4)
  BY DEF ServerLaid
<1>2. x[1] = 2
  <2>1. 2 \in 0..255
    OBVIOUS
  <2>2. Piece(x, <<2>>, 1, x3)
    BY <1>1
  <2> QED
    BY <2>1, <2>2, FlagOf
<1>3. Longer(x, 1, x3) /\ Longer(x3, 2, x4) /\ x \in Str
  BY <1>1, PieceLonger DEF Piece
<1>4. Len(x) > 1
  BY <1>3 DEF Longer
<1> QED
  BY <1>1, <1>2, <1>3, <1>4

LEMMA ServerShown ==
  ASSUME NEW s, WrittenServer(s), Fits(s.record)
  PROVE  Shown(s)
<1>1. PICK random \in Of(32), share \in Str :
        /\ InHandshake(s) /\ Len(share) < Limit2
        /\ s.record.data = ServerHello(random, share) /\ s.name = "ServerHello"
        /\ TwoValues(s, "Server Random", random, "Server EC Public Key", share)
  BY DEF WrittenServer
<1>2. PICK p : p = ServerHello(random, share)
  OBVIOUS
<1>3. ServerLaid(p, random, share)
  BY <1>1, <1>2, ServerPieces
<1>4. PICK x : /\ p = writeU32LenData(x) /\ x \in Str /\ Len(x) > 1 /\ x[1] = 2
               /\ Piece(p, BigEndian(Len(x), 4), 4, x)
  BY <1>3, ServerLonger
<1>5. s.record.data = p
  BY <1>1, <1>2
<1>6. Len(x) < Limit4 /\ Len(p) < Limit4
  <2>1. Len(x) < Limit4 /\ Len(p) = 4 + Len(x) /\ Len(x) \in Nat /\ Len(x) + 9 < Limit2
    BY <1>4, <1>5, FramedFits
  <2> QED
    BY <2>1, SMT DEF Limit4, Limit2
<1>7. parsePayload(s.record.type, s.record.data) = parseServerHelloFields(p)
  <2>1. parsePayload(s.record.type, writeU32LenData(x)) = parseMessage(x[1], writeU32LenData(x))
    BY <1>1, <1>4, <1>6, MessageIs DEF InHandshake
  <2>2. parseMessage(2, p) = parseServerHelloFields(p)
    BY MessageOf
  <2> QED
    BY <1>4, <1>5, <2>1, <2>2
<1>8. PICK na : na = "Server Random"
  OBVIOUS
<1>9. PICK nb : nb = "Server EC Public Key"
  OBVIOUS
<1>10. na \in HelloNames /\ nb \in HelloNames /\ TwoValues(s, na, random, nb, share)
  BY <1>1, <1>8, <1>9 DEF HelloNames
<1>11. PICK v : v = s.values
  OBVIOUS
<1>12. /\ IsValue(v, 1, na, random) /\ IsValue(v, 2, nb, share)
       /\ DOMAIN s.values = 1..2 /\ Len(s.values) = 2
       /\ \A i \in 1..2 : s.values[i][1] \in HelloNames
  BY <1>10, <1>11, TwoExpected
<1>13. ShowsRandom(v, random) /\ ShowsShare(v, share)
  BY <1>8, <1>9, <1>12 DEF ShowsRandom, ShowsShare
<1>14. PICK kind : kind = "ServerHello"
  OBVIOUS
<1>15. PICK r : parseServerHelloFields(p) = Described(kind, r.out) /\ HasShown(r, << >>, v, 2)
  BY <1>3, <1>6, <1>13, <1>14, ServerRead
<1>16. Shows(Described(kind, r.out), s)
  <2>1. PICK e : e = << >>
    OBVIOUS
  <2>2. HasShown(r, e, s.values, 2) /\ s.name = kind
    BY <1>1, <1>11, <1>14, <1>15, <2>1
  <2> QED
    BY <1>12, <2>2, AllOfThem
<1> QED
  BY <1>7, <1>15, <1>16, ShownBy

-----------------------------------------------------------------------------
(* The loops of a ClientHello, which go round once or twice.               *)
SuiteStep(r) == Scan(<<Field("Cipher Suite", "number", 2)>>, r)

SuiteOnce(s) == IF s.err THEN s ELSE Round(s, SuiteStep(s))
TicketOnce(s) == IF s.err THEN s ELSE Round(s, pskTicket(s))
KeyOnce(s) == IF s.err THEN s ELSE Round(s, ecdheKey(s))
ExtensionOnce(s) == IF s.err THEN s ELSE parseExtension(s)

LEMMA ExtensionsTwice ==
  ASSUME NEW n, n = 1 \/ n = 2, NEW r, NEW a, a = ExtensionOnce(r), NEW b, b = ExtensionOnce(a),
         NEW c, c = IF n = 1 THEN a ELSE b
  PROVE  Repeat(n, parseExtension, r) = c
<1> DEFINE Steps1(s) == With(s, LAMBDA t : IF t.err THEN t ELSE parseExtension(t))
           Is(f) == f = [i \in 0..n |-> IF i = 0 THEN r ELSE Steps1(f[i - 1])]
           g == [i \in 0..n |-> IF i = 0 THEN r ELSE IF i = 1 THEN a ELSE b]
<1>1. \A s : Steps1(s) = ExtensionOnce(s)
  BY DEF With, ExtensionOnce
<1>2. Repeat(n, parseExtension, r) = (CHOOSE f : Is(f))[n]
  BY DEF Repeat, Steps1
<1> HIDE DEF Steps1
<1>3. /\ n \in 0..n /\ 0 \in 0..n /\ 1 \in 0..n /\ 1 - 1 = 0 /\ 2 - 1 = 1 /\ 1 # 0 /\ 2 # 0
      /\ \A i \in 0..n : i = 0 \/ i = 1 \/ i = 2
  OBVIOUS
<1>4. Is(g)
  <2>1. g[0] = r /\ g[1] = a
    BY <1>3
  <2>2. \A i \in 0..n : g[i] = IF i = 0 THEN r ELSE Steps1(g[i - 1])
    BY <1>1, <1>3, <2>1
  <2> QED
    BY <2>2
<1>5. ASSUME NEW f, Is(f) PROVE f[n] = c
  <2>1. f[0] = r
    BY <1>3, <1>5
  <2>2. f[1] = a
    <3>1. f[1] = Steps1(f[1 - 1])
      BY <1>3, <1>5
    <3> QED
      BY <1>1, <1>3, <2>1, <3>1
  <2>3. CASE n = 1
    BY <2>2, <2>3
  <2>4. CASE n = 2
    <3>1. f[n] = Steps1(f[n - 1])
      BY <1>3, <1>5, <2>4
    <3> QED
      BY <1>1, <1>3, <2>2, <2>4, <3>1
  <2> QED
    BY <2>3, <2>4
<1>6. Is(CHOOSE f : Is(f))
  <2> HIDE DEF Is, g
  <2> QED
    BY <1>4
<1>7. (CHOOSE f : Is(f))[n] = c
  <2> HIDE DEF Is, g
  <2> QED
    BY <1>5, <1>6
<1> HIDE DEF Is
<1> QED
  BY <1>2, <1>7

LEMMA SuitesTwice ==
  ASSUME NEW n, n = 1 \/ n = 2, NEW r, NEW a, a = SuiteOnce(r), NEW b, b = SuiteOnce(a),
         NEW c, c = IF n = 1 THEN a ELSE b
  PROVE  Loop(n, SuiteStep, r) = [c EXCEPT !.err = FALSE]
<1> DEFINE Steps1(s) == With(s, LAMBDA t : IF t.err THEN t ELSE Round(t, SuiteStep(t)))
           Is(f) == f = [i \in 0..n |-> IF i = 0 THEN r ELSE Steps1(f[i - 1])]
           g == [i \in 0..n |-> IF i = 0 THEN r ELSE IF i = 1 THEN a ELSE b]
<1>1. \A s : Steps1(s) = SuiteOnce(s)
  BY DEF With, SuiteOnce
<1>2. Repeat(n, LAMBDA s : Round(s, SuiteStep(s)), r) = (CHOOSE f : Is(f))[n]
  BY DEF Repeat, Steps1
<1> HIDE DEF Steps1
<1>3. /\ n \in 0..n /\ 0 \in 0..n /\ 1 \in 0..n /\ 1 - 1 = 0 /\ 2 - 1 = 1 /\ 1 # 0 /\ 2 # 0
      /\ \A i \in 0..n : i = 0 \/ i = 1 \/ i = 2
  OBVIOUS
<1>4. Is(g)
  <2>1. g[0] = r /\ g[1] = a
    BY <1>3
  <2>2. \A i \in 0..n : g[i] = IF i = 0 THEN r ELSE Steps1(g[i - 1])
    BY <1>1, <1>3, <2>1
  <2> QED
    BY <2>2
<1>5. ASSUME NEW f, Is(f) PROVE f[n] = c
  <2>1. f[0] = r
    BY <1>3, <1>5
  <2>2. f[1] = a
    <3>1. f[1] = Steps1(f[1 - 1])
      BY <1>3, <1>5
    <3> QED
      BY <1>1, <1>3, <2>1, <3>1
  <2>3. CASE n = 1
    BY <2>2, <2>3
  <2>4. CASE n = 2
    <3>1. f[n] = Steps1(f[n - 1])
      BY <1>3, <1>5, <2>4
    <3> QED
      BY <1>1, <1>3, <2>2, <2>4, <3>1
  <2> QED
    BY <2>3, <2>4
<1>6. Is(CHOOSE f : Is(f))
  <2> HIDE DEF Is, g
  <2> QED
    BY <1>4
<1>7. (CHOOSE f : Is(f))[n] = c
  <2> HIDE DEF Is, g
  <2> QED
    BY <1>5, <1>6
<1> HIDE DEF Is
<1> QED
  BY <1>2, <1>7 DEF Loop, With

LEMMA TicketsTwice ==
  ASSUME NEW n, n = 1 \/ n = 2, NEW r, NEW a, a = TicketOnce(r), NEW b, b = TicketOnce(a),
         NEW c, c = IF n = 1 THEN a ELSE b
  PROVE  Loop(n, pskTicket, r) = [c EXCEPT !.err = FALSE]
<1> DEFINE Steps1(s) == With(s, LAMBDA t : IF t.err THEN t ELSE Round(t, pskTicket(t)))
           Is(f) == f = [i \in 0..n |-> IF i = 0 THEN r ELSE Steps1(f[i - 1])]
           g == [i \in 0..n |-> IF i = 0 THEN r ELSE IF i = 1 THEN a ELSE b]
<1>1. \A s : Steps1(s) = TicketOnce(s)
  BY DEF With, TicketOnce
<1>2. Repeat(n, LAMBDA s : Round(s, pskTicket(s)), r) = (CHOOSE f : Is(f))[n]
  BY DEF Repeat, Steps1
<1> HIDE DEF Steps1
<1>3. /\ n \in 0..n /\ 0 \in 0..n /\ 1 \in 0..n /\ 1 - 1 = 0 /\ 2 - 1 = 1 /\ 1 # 0 /\ 2 # 0
      /\ \A i \in 0..n : i = 0 \/ i = 1 \/ i = 2
  OBVIOUS
<1>4. Is(g)
  <2>1. g[0] = r /\ g[1] = a
    BY <1>3
  <2>2. \A i \in 0..n : g[i] = IF i = 0 THEN r ELSE Steps1(g[i - 1])
    BY <1>1, <1>3, <2>1
  <2> QED
    BY <2>2
<1>5. ASSUME NEW f, Is(f) PROVE f[n] = c
  <2>1. f[0] = r
    BY <1>3, <1>5
  <2>2. f[1] = a
    <3>1. f[1] = Steps1(f[1 - 1])
      BY <1>3, <1>5
    <3> QED
      BY <1>1, <1>3, <2>1, <3>1
  <2>3. CASE n = 1
    BY <2>2, <2>3
  <2>4. CASE n = 2
    <3>1. f[n] = Steps1(f[n - 1])
      BY <1>3, <1>5, <2>4
    <3> QED
      BY <1>1, <1>3, <2>2, <2>4, <3>1
  <2> QED
    BY <2>3, <2>4
<1>6. Is(CHOOSE f : Is(f))
  <2> HIDE DEF Is, g
  <2> QED
    BY <1>4
<1>7. (CHOOSE f : Is(f))[n] = c
  <2> HIDE DEF Is, g
  <2> QED
    BY <1>5, <1>6
<1> HIDE DEF Is
<1> QED
  BY <1>2, <1>7 DEF Loop, With

LEMMA KeysTwice ==
  ASSUME NEW n, n = 1 \/ n = 2, NEW r, NEW a, a = KeyOnce(r), NEW b, b = KeyOnce(a),
         NEW c, c = IF n = 1 THEN a ELSE b
  PROVE  Loop(n, ecdheKey, r) = [c EXCEPT !.err = FALSE]
<1> DEFINE Steps1(s) == With(s, LAMBDA t : IF t.err THEN t ELSE Round(t, ecdheKey(t)))
           Is(f) == f = [i \in 0..n |-> IF i = 0 THEN r ELSE Steps1(f[i - 1])]
           g == [i \in 0..n |-> IF i = 0 THEN r ELSE IF i = 1 THEN a ELSE b]
<1>1. \A s : Steps1(s) = KeyOnce(s)
  BY DEF With, KeyOnce
<1>2. Repeat(n, LAMBDA s : Round(s, ecdheKey(s)), r) = (CHOOSE f : Is(f))[n]
  BY DEF Repeat, Steps1
<1> HIDE DEF Steps1
<1>3. /\ n \in 0..n /\ 0 \in 0..n /\ 1 \in 0..n /\ 1 - 1 = 0 /\ 2 - 1 = 1 /\ 1 # 0 /\ 2 # 0
      /\ \A i \in 0..n : i = 0 \/ i = 1 \/ i = 2
  OBVIOUS
<1>4. Is(g)
  <2>1. g[0] = r /\ g[1] = a
    BY <1>3
  <2>2. \A i \in 0..n : g[i] = IF i = 0 THEN r ELSE Steps1(g[i - 1])
    BY <1>1, <1>3, <2>1
  <2> QED
    BY <2>2
<1>5. ASSUME NEW f, Is(f) PROVE f[n] = c
  <2>1. f[0] = r
    BY <1>3, <1>5
  <2>2. f[1] = a
    <3>1. f[1] = Steps1(f[1 - 1])
      BY <1>3, <1>5
    <3> QED
      BY <1>1, <1>3, <2>1, <3>1
  <2>3. CASE n = 1
    BY <2>2, <2>3
  <2>4. CASE n = 2
    <3>1. f[n] = Steps1(f[n - 1])
      BY <1>3, <1>5, <2>4
    <3> QED
      BY <1>1, <1>3, <2>2, <2>4, <3>1
  <2> QED
    BY <2>3, <2>4
<1>6. Is(CHOOSE f : Is(f))
  <2> HIDE DEF Is, g
  <2> QED
    BY <1>4
<1>7. (CHOOSE f : Is(f))[n] = c
  <2> HIDE DEF Is, g
  <2> QED
    BY <1>5, <1>6
<1> HIDE DEF Is
<1> QED
  BY <1>2, <1>7 DEF Loop, With

-----------------------------------------------------------------------------
(* A value that is put below the others.                                   *)
Counts(name, x, v, n, m) ==
  /\ name \in Names /\ x \in Str
  /\ \/ name \notin HelloNames /\ m = n
     \/ m = n + 1 /\ IsValue(v, m, name, x)

Puts(s, r, name, x, q) ==
  s = [rest |-> q, err |-> FALSE, out |-> Append(r.out, <<name, x>>)]

LEMMA PutDown ==
  ASSUME NEW r, NEW p, NEW v, NEW n, HasShown(r, p, v, n), NEW name, NEW x, NEW m,
         Counts(name, x, v, n, m), NEW q \in Str, NEW s, Puts(s, r, name, x, q)
  PROVE  HasShown(s, q, v, m)
<1> DEFINE z == <<name, x>>
<1>1. /\ r \in Readers /\ n \in Nat /\ ShownTo(r.out, v, n) /\ r.out \in Seq(Names \X Str)
  BY DEF HasShown, Readers
<1>2. z \in Names \X Str /\ z[1] = name
  BY DEF Counts
<1>3. s.err = FALSE /\ s.rest = q /\ s.out = Append(r.out, z) /\ s \in Readers
  <2>1. Append(r.out, z) \in Seq(Names \X Str)
    BY <1>1, <1>2
  <2> QED
    BY <2>1 DEF Puts, Readers
<1>4. z = <<name, x>>
  OBVIOUS
<1> HIDE DEF z
<1>5. /\ z[1] \notin HelloNames => ShownTo(Append(r.out, z), v, n)
      /\ v[n + 1] = z => ShownTo(Append(r.out, z), v, n + 1)
  BY <1>1, <1>2, ShowsMore
<1>6. CASE name \notin HelloNames /\ m = n
  BY <1>1, <1>2, <1>3, <1>5, <1>6 DEF HasShown
<1>7. CASE m = n + 1 /\ IsValue(v, m, name, x)
  BY <1>1, <1>3, <1>4, <1>5, <1>7 DEF HasShown, IsValue
<1> QED
  BY <1>6, <1>7 DEF Counts

LEMMA StaysReader ==
  ASSUME NEW r, NEW q, NEW v, NEW n, HasShown(r, q, v, n)
  PROVE  [r EXCEPT !.err = FALSE] = r
BY DEF HasShown, Readers

LEMMA RoundGoes ==
  ASSUME NEW r, NEW s, NEW q, NEW v, NEW n, HasShown(s, q, v, n)
  PROVE  Round(r, s) = s
BY DEF HasShown, Round

(* A suite.                                                                *)
ShowsSuite(v, m, x) == IsValue(v, m, "Cipher Suite", x)

LEMMA SuiteTaken ==
  ASSUME NEW r, NEW p, NEW v, NEW n, HasShown(r, p, v, n), NEW x, NEW q, Piece(p, x, 2, q),
         NEW m, m = n + 1, ShowsSuite(v, m, x), NEW s, s = SuiteOnce(r)
  PROVE  HasShown(s, q, v, m)
<1>0. 2 \in Nat
  OBVIOUS
<1>1. PICK na : na = "Cipher Suite"
  OBVIOUS
<1>2. na \in Names /\ IsValue(v, m, na, x)
  BY <1>1 DEF ShowsSuite, Names, ShownNames
<1>3. PICK how : how = "number"
  OBVIOUS
<1>4. PICK f : f = Field(na, how, 2)
  OBVIOUS
<1>5. Taking(f, na, p, x, q, v, n, m)
  <2>1. how \in {"number", "all"}
    BY <1>3
  <2> QED
    BY <1>0, <1>2, <1>4, <2>1, PieceShown
<1>6. PICK t : t = Scan(<<f>>, r)
  OBVIOUS
<1>7. HasShown(t, q, v, m)
  BY <1>5, <1>6, OneTaken
<1>8. t = SuiteStep(r)
  BY <1>1, <1>3, <1>4, <1>6 DEF SuiteStep
<1>9. SuiteOnce(r) = Round(r, SuiteStep(r))
  BY HasShownNext DEF SuiteOnce
<1> QED
  BY <1>7, <1>8, <1>9, RoundGoes

(* A key.                                                                  *)
KeyPieces(p, y1, y2, key, q) ==
  \E q1, q2 : Piece(p, y1, 4, q1) /\ Piece(q1, y2, 4, q2) /\ DataPiece(q2, key, 2, q)

ShowsPoint(v, m, x) == IsValue(v, m, "EC Point", x)

LEMMA KeyTaken ==
  ASSUME NEW r, NEW p, NEW v, NEW n, HasShown(r, p, v, n), NEW y1, NEW y2, NEW key, NEW q,
         KeyPieces(p, y1, y2, key, q),
         NEW m, m = n + 1, ShowsPoint(v, m, key), NEW s, s = KeyOnce(r)
  PROVE  HasShown(s, q, v, m)
<1>0. 2 \in Nat /\ 4 \in Nat
  OBVIOUS
<1>1. PICK q1, q2 : Piece(p, y1, 4, q1) /\ Piece(q1, y2, 4, q2) /\ DataPiece(q2, key, 2, q)
  BY DEF KeyPieces
<1>2. PICK na : na = "Key Length"
  OBVIOUS
<1>3. PICK nb : nb = "Key Flag"
  OBVIOUS
<1>4. PICK nc : nc = "EC Point"
  OBVIOUS
<1>5. PICK how : how = "all data"
  OBVIOUS
<1>6. Hidden(na) /\ Hidden(nb) /\ nc \in Names /\ IsValue(v, m, nc, key)
  BY <1>2, <1>3, <1>4 DEF Hidden, Names, ShownNames, HelloNames, ShowsPoint
<1>7. PICK a : a = Field(na, "number", 4)
  OBVIOUS
<1>8. PICK b : b = Field(nb, "number", 4)
  OBVIOUS
<1>9. PICK c : c = Field(nc, how, 2)
  OBVIOUS
<1>10. Taking(a, na, p, y1, q1, v, n, n)
  BY <1>0, <1>1, <1>6, <1>7, NumberHidden
<1>11. Taking(b, nb, q1, y2, q2, v, n, n)
  BY <1>0, <1>1, <1>6, <1>8, NumberHidden
<1>12. Taking(c, nc, q2, key, q, v, n, m)
  <2>1. Takes(c, nc, q2, key, q)
    BY <1>0, <1>1, <1>5, <1>6, <1>9, TakesData
  <2> QED
    BY <1>6, <2>1 DEF Taking
<1>13. PICK t : t = Scan(<<a, b, c>>, r)
  OBVIOUS
<1>14. HasShown(t, q, v, m)
  BY <1>10, <1>11, <1>12, <1>13, ThreeTaken
<1>15. t = ecdheKey(r)
  BY <1>2, <1>3, <1>4, <1>5, <1>7, <1>8, <1>9, <1>13 DEF ecdheKey
<1>16. KeyOnce(r) = Round(r, ecdheKey(r))
  BY HasShownNext DEF KeyOnce
<1> QED
  BY <1>14, <1>15, <1>16, RoundGoes

(* A ticket, and what is in it.                                            *)
ShowsNonce(v, m, x) == IsValue(v, m, "Nonce", x)
ShowsTicket(v, m, x) == IsValue(v, m, "Ticket Data", x)

LEMMA TwoAppended ==
  ASSUME NEW S, NEW s \in Seq(S), NEW a \in S, NEW b \in S
  PROVE  s \o <<a, b>> = Append(Append(s, a), b)
<1>1. Append(s, a) \in Seq(S) /\ <<a>> \in Seq(S) /\ <<b>> \in Seq(S)
  BY AppendProperties
<1>2. Append(s, a) = s \o <<a>> /\ Append(Append(s, a), b) = Append(s, a) \o <<b>>
  BY <1>1, AppendIsConcat
<1>3. (s \o <<a>>) \o <<b>> = s \o (<<a>> \o <<b>>)
  BY <1>1, ConcatAssociative
<1>4. <<a>> \o <<b>> = <<a, b>>
  <2>1. Append(<<a>>, b) = <<a>> \o <<b>>
    BY <1>1, AppendIsConcat
  <2>2. Append(<<a>>, b) = <<a, b>>
    <3> DEFINE y == Append(<<a>>, b)
               w == <<a, b>>
    <3>1. <<a>> \in Seq(S) /\ Len(<<a>>) = 1 /\ <<a>>[1] = a /\ 1 \in 1..1
      OBVIOUS
    <3>2. y \in Seq(S) /\ Len(y) = 2 /\ y[1] = a /\ y[2] = b
      BY <3>1, AppendProperties
    <3>3. w \in Seq(S) /\ Len(w) = 2 /\ w[1] = a /\ w[2] = b
      OBVIOUS
    <3> HIDE DEF y, w
    <3>4. \A i \in 1..2 : i = 1 \/ i = 2
      OBVIOUS
    <3>5. \A i \in 1..Len(y) : y[i] = w[i]
      BY <3>2, <3>3, <3>4
    <3>6. y = w
      BY <3>2, <3>3, <3>5, SeqEqual
    <3> QED
      BY <3>6 DEF y, w
  <2> QED
    BY <2>1, <2>2
<1> QED
  BY <1>2, <1>3, <1>4

OfferedTicket(t) == [t EXCEPT !.ticketAgeAdd = << >>]

LEMMA TicketKept ==
  ASSUME NEW t \in TicketRecords
  PROVE  /\ OfferedTicket(t) \in TicketRecords /\ OfferedTicket(t).nonce = t.nonce /\ OfferedTicket(t).ticket = t.ticket
         /\ t.nonce \in Str /\ t.ticket \in Str
<1>1. t.nonce \in Short /\ t.ticket \in Short /\ << >> \in Short
  BY EmptyStr DEF TicketRecords, Short, Limit2
<1>2. t.nonce \in Str /\ t.ticket \in Str
  BY <1>1 DEF Short
<1> QED
  BY <1>1, <1>2 DEF TicketRecords, OfferedTicket

LEMMA OutReplaced ==
  ASSUME NEW r \in Readers, NEW q, NEW o
  PROVE  r.rest = q /\ r.err = FALSE
           => [r EXCEPT !.out = o] = [rest |-> q, err |-> FALSE, out |-> o]
<1>1. PICK x, y, z : r = [rest |-> x, err |-> y, out |-> z]
  BY DEF Readers
<1>2. [r EXCEPT !.out = o] = [rest |-> x, err |-> y, out |-> o]
  BY <1>1
<1> QED
  BY <1>1, <1>2

(* The reader after a ticket has been put down.                            *)
LEMMA TicketPut ==
  ASSUME NEW r, NEW q, NEW v, NEW n, HasShown(r, q, v, n), NEW t \in TicketRecords,
         NEW m, m = n + 1, NEW k, k = m + 1,
         ShowsNonce(v, m, t.nonce), ShowsTicket(v, k, t.ticket),
         Value(r, "Ticket") = serializeTicket(OfferedTicket(t))
  PROVE  HasShown(TicketOf(r), q, v, k)
<1>1. PICK na : na = "Nonce"
  OBVIOUS
<1>2. PICK nb : nb = "Ticket Data"
  OBVIOUS
<1>3. PICK u : u = OfferedTicket(t)
  OBVIOUS
<1>4. /\ u \in TicketRecords /\ u.nonce = t.nonce /\ u.ticket = t.ticket
      /\ t.nonce \in Str /\ t.ticket \in Str
  BY <1>3, TicketKept
<1>5. Counts(na, t.nonce, v, n, m) /\ Counts(nb, t.ticket, v, m, k)
  BY <1>1, <1>2, <1>4 DEF Counts, ShowsNonce, ShowsTicket, Names, ShownNames
<1>6. PICK x : x = readSessionTicket(serializeTicket(u))
  OBVIOUS
<1>7. ~ x.err /\ x.val = u
  BY <1>4, <1>6, TicketWritten
<1> DEFINE a == <<na, t.nonce>>
           b == <<nb, t.ticket>>
           s1 == [rest |-> q, err |-> FALSE, out |-> Append(r.out, a)]
           s2 == [rest |-> q, err |-> FALSE, out |-> Append(s1.out, b)]
<1>8. r \in Readers /\ r.rest = q /\ r.err = FALSE /\ q \in Str /\ r.out \in Seq(Names \X Str)
  BY DEF HasShown, Readers
<1>17. Puts(s1, r, na, t.nonce, q) /\ Puts(s2, s1, nb, t.ticket, q)
  BY DEF Puts
<1>18. s2 = [rest |-> q, err |-> FALSE, out |-> s2.out] /\ s1.out = Append(r.out, a)
       /\ s2.out = Append(s1.out, b)
  OBVIOUS
<1> HIDE DEF s1, s2
<1>9. HasShown(s1, q, v, m)
  BY <1>5, <1>8, <1>17, PutDown
<1>10. HasShown(s2, q, v, k)
  BY <1>5, <1>8, <1>9, <1>17, PutDown
<1>11. a \in Names \X Str /\ b \in Names \X Str
  BY <1>5 DEF Counts
<1>12. TicketOf(r) = [r EXCEPT !.out = @ \o << <<"Nonce", x.val.nonce>>, <<"Ticket Data", x.val.ticket>> >>]
  BY <1>3, <1>6, <1>7 DEF TicketOf, With
<1>13. << <<"Nonce", x.val.nonce>>, <<"Ticket Data", x.val.ticket>> >> = <<a, b>>
  BY <1>1, <1>2, <1>4, <1>7
<1> HIDE DEF a, b
<1>14. r.out \o <<a, b>> = s2.out
  BY <1>8, <1>11, <1>18, TwoAppended
<1>15. TicketOf(r) = [r EXCEPT !.out = s2.out]
  <2>1. PICK w : w = << <<"Nonce", x.val.nonce>>, <<"Ticket Data", x.val.ticket>> >>
    OBVIOUS
  <2>2. PICK y : y = <<a, b>>
    OBVIOUS
  <2>3. w = y
    BY <1>13, <2>1, <2>2
  <2>4. TicketOf(r) = [r EXCEPT !.out = r.out \o w]
    BY <1>12, <2>1
  <2>5. r.out \o y = s2.out
    BY <1>14, <2>2
  <2> QED
    BY <2>3, <2>4, <2>5
<1>16. TicketOf(r) = s2
  <2>1. PICK o : o = s2.out
    OBVIOUS
  <2>2. [r EXCEPT !.out = o] = [rest |-> q, err |-> FALSE, out |-> o]
    BY <1>8, OutReplaced
  <2>3. s2 = [rest |-> q, err |-> FALSE, out |-> o]
    BY <1>18, <2>1
  <2> QED
    BY <1>15, <2>1, <2>2, <2>3
<1> QED
  BY <1>10, <1>16

LEMMA TicketTaken ==
  ASSUME NEW r, NEW p, NEW v, NEW n, HasShown(r, p, v, n), NEW t \in TicketRecords, NEW q,
         DataPiece(p, serializeTicket(OfferedTicket(t)), 4, q),
         NEW m, m = n + 1, NEW k, k = m + 1,
         ShowsNonce(v, m, t.nonce), ShowsTicket(v, k, t.ticket), NEW s, s = TicketOnce(r)
  PROVE  HasShown(s, q, v, k)
<1>0. 4 \in Nat
  OBVIOUS
<1>1. PICK na : na = "Ticket"
  OBVIOUS
<1>2. Hidden(na)
  BY <1>1 DEF Hidden, Names, ShownNames, HelloNames
<1>3. PICK how : how = "all data"
  OBVIOUS
<1>4. PICK f : f = Field(na, how, 4)
  OBVIOUS
<1>5. PICK x : x = serializeTicket(OfferedTicket(t))
  OBVIOUS
<1>6. Taking(f, na, p, x, q, v, n, n)
  <2>1. DataPiece(p, x, 4, q) /\ na \in Names /\ na \notin HelloNames
    BY <1>2, <1>5 DEF Hidden
  <2>2. Takes(f, na, p, x, q)
    BY <1>0, <1>3, <1>4, <2>1, TakesData
  <2> QED
    BY <2>1, <2>2, TakingHidden
<1>7. PICK u : u = Scan(<<f>>, r)
  OBVIOUS
<1>8. HasShown(u, q, v, n) /\ Grown(u, r, na, x)
  BY <1>6, <1>7, OneTaken
<1>9. Value(u, "Ticket") = serializeTicket(OfferedTicket(t))
  BY <1>1, <1>5, <1>8, LastValue
<1>10. HasShown(TicketOf(u), q, v, k)
  BY <1>8, <1>9, TicketPut
<1>11. pskTicket(r) = TicketOf(u)
  <2>1. ~ u.err
    BY <1>8, HasShownNext
  <2>2. u = Scan(<<Field("Ticket", "all data", 4)>>, r)
    BY <1>1, <1>3, <1>4, <1>7
  <2> QED
    BY <2>1, <2>2 DEF pskTicket, With
<1>12. TicketOnce(r) = Round(r, pskTicket(r))
  BY HasShownNext DEF TicketOnce
<1> QED
  BY <1>10, <1>11, <1>12, RoundGoes

(* What is counted in an extension.                                        *)
CountFields == <<Field("Count", "all", 1)>>
HowMany(s, k) == NumberIn(s, "Count") = k

LEMMA CountOf ==
  ASSUME NEW r, NEW p, NEW v, NEW n, HasShown(r, p, v, n), NEW x, NEW q, Piece(p, x, 1, q),
         NEW k, k = Number(x), NEW s, s = Scan(CountFields, r)
  PROVE  HasShown(s, q, v, n) /\ HowMany(s, k)
<1>0. 1 \in Nat
  OBVIOUS
<1>1. PICK na : na = "Count"
  OBVIOUS
<1>2. Hidden(na)
  BY <1>1 DEF Hidden, Names, ShownNames, HelloNames
<1>3. PICK f : f = Field(na, "all", 1)
  OBVIOUS
<1>4. Taking(f, na, p, x, q, v, n, n)
  BY <1>0, <1>2, <1>3, AllHidden
<1>5. s = Scan(<<f>>, r)
  BY <1>1, <1>3 DEF CountFields
<1>6. HasShown(s, q, v, n) /\ Grown(s, r, na, x)
  BY <1>4, <1>5, OneTaken
<1>7. Value(s, na) = x
  BY <1>6, LastValue
<1> QED
  BY <1>1, <1>6, <1>7 DEF HowMany, NumberIn

LEMMA TicketCounted ==
  ASSUME NEW r, NEW p, NEW v, NEW n, HasShown(r, p, v, n), NEW p2, Piece(p, << 1 >>, 1, p2),
         NEW t \in TicketRecords, NEW q, DataPiece(p2, serializeTicket(OfferedTicket(t)), 4, q),
         NEW m, m = n + 1, NEW k, k = m + 1,
         ShowsNonce(v, m, t.nonce), ShowsTicket(v, k, t.ticket)
  PROVE  HasShown(Counted(r, pskTicket), q, v, k)
<1>1. PICK x : x = <<1>>
  OBVIOUS
<1>2. Number(x) = 1
  <2>1. 1 \in 0..255
    OBVIOUS
  <2> QED
    BY <1>1, <2>1, NumberOfByte
<1>3. PICK s : s = Scan(CountFields, r)
  OBVIOUS
<1>4. HasShown(s, p2, v, n) /\ HowMany(s, 1)
  BY <1>1, <1>2, <1>3, CountOf
<1>5. PICK a : a = TicketOnce(s)
  OBVIOUS
<1>6. HasShown(a, q, v, k)
  BY <1>4, <1>5, TicketTaken
<1>7. Loop(1, pskTicket, s) = a
  <2>1. PICK b : b = TicketOnce(a)
    OBVIOUS
  <2>2. Loop(1, pskTicket, s) = [a EXCEPT !.err = FALSE]
    BY <1>5, <2>1, TicketsTwice
  <2> QED
    BY <1>6, <2>2, StaysReader
<1>8. Counted(r, pskTicket) = Loop(1, pskTicket, s)
  <2>1. ~ s.err
    BY <1>4, HasShownNext
  <2> QED
    BY <1>3, <1>4, <2>1 DEF Counted, With, CountFields, HowMany
<1> QED
  BY <1>6, <1>7, <1>8

LEMMA KeysCounted ==
  ASSUME NEW r, NEW p, NEW v, NEW n, HasShown(r, p, v, n), NEW p2, Piece(p, << 2 >>, 1, p2),
         NEW y1, NEW y2, NEW key1, NEW p3, KeyPieces(p2, y1, y2, key1, p3),
         NEW z1, NEW z2, NEW key2, NEW q, KeyPieces(p3, z1, z2, key2, q),
         NEW m, m = n + 1, NEW k, k = m + 1, ShowsPoint(v, m, key1), ShowsPoint(v, k, key2)
  PROVE  HasShown(Counted(r, ecdheKey), q, v, k)
<1>1. PICK x : x = <<2>>
  OBVIOUS
<1>2. Number(x) = 2
  <2>1. 2 \in 0..255
    OBVIOUS
  <2> QED
    BY <1>1, <2>1, NumberOfByte
<1>3. PICK s : s = Scan(CountFields, r)
  OBVIOUS
<1>4. HasShown(s, p2, v, n) /\ HowMany(s, 2)
  BY <1>1, <1>2, <1>3, CountOf
<1>5. PICK a : a = KeyOnce(s)
  OBVIOUS
<1>6. HasShown(a, p3, v, m)
  BY <1>4, <1>5, KeyTaken
<1>9. PICK b : b = KeyOnce(a)
  OBVIOUS
<1>10. HasShown(b, q, v, k)
  BY <1>6, <1>9, KeyTaken
<1>7. Loop(2, ecdheKey, s) = b
  <2>1. Loop(2, ecdheKey, s) = [b EXCEPT !.err = FALSE]
    BY <1>5, <1>9, KeysTwice
  <2> QED
    BY <1>10, <2>1, StaysReader
<1>8. Counted(r, ecdheKey) = Loop(2, ecdheKey, s)
  <2>1. ~ s.err
    BY <1>4, HasShownNext
  <2> QED
    BY <1>3, <1>4, <2>1 DEF Counted, With, CountFields, HowMany
<1> QED
  BY <1>7, <1>8, <1>10

(* The extension of a marker.                                              *)
MarkerFields == <<Field("Extension Length", "number", 4), Field("Marker", "number", 2)>>
Marked(s, k) == NumberIn(s, "Marker") = k

LEMMA MarkerTaken ==
  ASSUME NEW r, NEW p, NEW v, NEW n, HasShown(r, p, v, n), NEW y1, NEW y2, NEW p2, NEW q,
         Piece(p, y1, 4, p2), Piece(p2, y2, 2, q), NEW k, k = Number(y2),
         NEW s, s = Scan(MarkerFields, r)
  PROVE  HasShown(s, q, v, n) /\ Marked(s, k)
<1>1. 2 \in Nat /\ 4 \in Nat
  OBVIOUS
<1>2. PICK na : na = "Extension Length"
  OBVIOUS
<1>3. PICK nb : nb = "Marker"
  OBVIOUS
<1>4. Hidden(na) /\ Hidden(nb)
  BY <1>2, <1>3 DEF Hidden, Names, ShownNames, HelloNames
<1>5. PICK a : a = Field(na, "number", 4)
  OBVIOUS
<1>6. PICK b : b = Field(nb, "number", 2)
  OBVIOUS
<1>7. Taking(a, na, p, y1, p2, v, n, n)
  BY <1>1, <1>4, <1>5, NumberHidden
<1>8. Taking(b, nb, p2, y2, q, v, n, n)
  BY <1>1, <1>4, <1>6, NumberHidden
<1>9. s = Scan(<<a, b>>, r)
  BY <1>2, <1>3, <1>5, <1>6 DEF MarkerFields
<1>10. HasShown(s, q, v, n) /\ \E u : Grown(u, r, na, y1) /\ Grown(s, u, nb, y2)
  BY <1>7, <1>8, <1>9, TwoTaken
<1>11. Value(s, nb) = y2
  BY <1>10, LastValue
<1> QED
  BY <1>3, <1>10, <1>11 DEF NumberIn, Marked

LEMMA ExtensionIs ==
  ASSUME NEW r, NEW s, s = Scan(MarkerFields, r), s.err = FALSE
  PROVE  /\ Marked(s, 15) => parseExtension(r) = Counted(s, pskTicket)
         /\ Marked(s, 16) => parseExtension(r) = TrailingMagic(Counted(s, ecdheKey))
<1>1. parseExtension(r)
        = KnownExtension(s, NumberIn(s, "Extension Length"), NumberIn(s, "Marker"))
  BY DEF parseExtension, With, MarkerFields
<1>2. \A l : /\ KnownExtension(s, l, 15) = Counted(s, pskTicket)
             /\ KnownExtension(s, l, 16) = TrailingMagic(Counted(s, ecdheKey))
  BY DEF KnownExtension
<1> QED
  BY <1>1, <1>2 DEF Marked

(* The trailer.                                                            *)
LEMMA MagicIs ==
  /\ Magic \in Str /\ Len(Magic) = 13 /\ Magic # << >>
<1>1. DOMAIN Magic = 1..13 /\ Len(Magic) = 13 /\ Magic \in Seq(0..255)
  BY DEF Magic
<1>2. PICK m : m = Magic
  OBVIOUS
<1>3. m \in Str /\ Len(m) = 13
  <2>1. m \in Seq(0..255) /\ Len(m) = 13
    BY <1>1, <1>2
  <2>2. Str = Seq(0..255)
    BY ByteValues DEF Str
  <2> QED
    BY <2>1, <2>2
<1>4. m # << >>
  <2>1. PICK e : e = << >> /\ Len(e) = 0
    BY EmptyStr
  <2>2. m # e
    BY <1>3, <2>1
  <2> QED
    BY <2>1, <2>2
<1> QED
  BY <1>2, <1>3, <1>4

LEMMA BothReplaced ==
  ASSUME NEW r \in Readers, NEW q, NEW o
  PROVE  r.err = FALSE
           => [r EXCEPT !.rest = q, !.out = o] = [rest |-> q, err |-> FALSE, out |-> o]
<1>1. PICK x, y, z : r = [rest |-> x, err |-> y, out |-> z]
  BY DEF Readers
<1>2. PICK w : w = [r EXCEPT !.rest = q]
  OBVIOUS
<1>3. w = [rest |-> q, err |-> y, out |-> z]
  BY <1>1, <1>2
<1>4. [w EXCEPT !.out = o] = [rest |-> q, err |-> y, out |-> o]
  BY <1>3
<1>5. [r EXCEPT !.rest = q, !.out = o] = [[r EXCEPT !.rest = q] EXCEPT !.out = o]
  BY DEF Readers
<1>6. r.err = y
  BY <1>1
<1> QED
  BY <1>2, <1>4, <1>5, <1>6

Trails(name) == name = "Trailing Magic"

LEMMA TrailerIs ==
  ASSUME NEW r, Len(r.rest) = 13, NEW na, Trails(na)
  PROVE  TrailingMagic(r) = [r EXCEPT !.rest = After(13, r.rest),
                                      !.out = Append(r.out, <<na, First(13, r.rest)>>)]
<1>1. TrailingMagic(r)
        = LET k == IF Len(r.rest) < 13 THEN Len(r.rest) ELSE 13
          IN  IF k = 0 THEN r
              ELSE [r EXCEPT !.rest = After(k, @), !.out = Append(@, <<na, First(k, r.rest)>>)]
  BY DEF TrailingMagic, Trails
<1>2. 13 = IF Len(r.rest) < 13 THEN Len(r.rest) ELSE 13
  OBVIOUS
<1>3. 13 # 0
  OBVIOUS
<1> QED
  BY <1>1, <1>2, <1>3

LEMMA MagicTaken ==
  ASSUME NEW r, NEW v, NEW n, HasShown(r, Magic, v, n)
  PROVE  HasShown(TrailingMagic(r), << >>, v, n)
<1>1. PICK na : na = "Trailing Magic"
  OBVIOUS
<1>2. PICK e : e = << >>
  OBVIOUS
<1>3. e \in Str
  BY <1>2, EmptyStr
<1>4. Counts(na, Magic, v, n, n)
  BY <1>1, MagicIs DEF Counts, Names, ShownNames, HelloNames
<1>5. r \in Readers /\ r.rest = Magic /\ r.err = FALSE
  BY DEF HasShown
<1>6. First(13, Magic) = Magic /\ After(13, Magic) = e
  <2>1. Magic \o e = Magic
    BY <1>2, MagicIs, ConcatEmptySeq DEF Str
  <2>2. First(Len(Magic), Magic \o e) = Magic /\ After(Len(Magic), Magic \o e) = e
    BY <1>3, MagicIs, SplitWhole DEF Str
  <2> QED
    BY <2>1, <2>2, MagicIs
<1>7. TrailingMagic(r) = [r EXCEPT !.rest = After(13, r.rest),
                                   !.out = Append(r.out, <<na, First(13, r.rest)>>)]
  <2>1. Len(r.rest) = 13
    BY <1>5, MagicIs
  <2> QED
    BY <1>1, <2>1, TrailerIs DEF Trails
<1>8. TrailingMagic(r) = [r EXCEPT !.rest = e, !.out = Append(r.out, <<na, Magic>>)]
  BY <1>5, <1>6, <1>7
<1>9. PICK s : s = TrailingMagic(r)
  OBVIOUS
<1>10. Puts(s, r, na, Magic, e)
  <2>1. PICK o : o = Append(r.out, <<na, Magic>>)
    OBVIOUS
  <2>2. [r EXCEPT !.rest = e, !.out = o] = [rest |-> e, err |-> FALSE, out |-> o]
    BY <1>5, BothReplaced
  <2> QED
    BY <1>8, <1>9, <2>1, <2>2 DEF Puts
<1>11. HasShown(s, e, v, n)
  BY <1>3, <1>4, <1>10, PutDown
<1> QED
  BY <1>2, <1>9, <1>11

(* The two extensions.                                                     *)
PskPieces(p, ticket, q) ==
  \E y, p2, p3, p4 :
    /\ Piece(p, y, 4, p2) /\ Piece(p2, BigEndian(15, 2), 2, p3) /\ Piece(p3, <<1>>, 1, p4)
    /\ DataPiece(p4, ticket, 4, q)

EcdhePieces(p, key1, key2) ==
  \E y, p2, p3, p4, y1, z1, p5, y2, z2 :
    /\ Piece(p, y, 4, p2) /\ Piece(p2, BigEndian(16, 2), 2, p3) /\ Piece(p3, <<2>>, 1, p4)
    /\ KeyPieces(p4, y1, z1, key1, p5) /\ KeyPieces(p5, y2, z2, key2, Magic)

LEMMA MarkerNumbers ==
  Number(BigEndian(15, 2)) = 15 /\ Number(BigEndian(16, 2)) = 16
<1>1. 15 \in Nat /\ 16 \in Nat /\ 15 < Limit2 /\ 16 < Limit2
  BY SMT DEF Limit2
<1> QED
  BY <1>1, NumberOfBigEndian

LEMMA PskTaken ==
  ASSUME NEW r, NEW p, NEW v, NEW n, HasShown(r, p, v, n), NEW t \in TicketRecords, NEW q,
         PskPieces(p, serializeTicket(OfferedTicket(t)), q), NEW m, m = n + 1, NEW k, k = m + 1,
         ShowsNonce(v, m, t.nonce), ShowsTicket(v, k, t.ticket), NEW s, s = ExtensionOnce(r)
  PROVE  HasShown(s, q, v, k)
<1>1. PICK y, p2, p3, p4 :
        /\ Piece(p, y, 4, p2) /\ Piece(p2, BigEndian(15, 2), 2, p3) /\ Piece(p3, <<1>>, 1, p4)
        /\ DataPiece(p4, serializeTicket(OfferedTicket(t)), 4, q)
  BY DEF PskPieces
<1>2. PICK a : a = Scan(MarkerFields, r)
  OBVIOUS
<1>3. HasShown(a, p3, v, n) /\ Marked(a, 15)
  <2>1. PICK x : x = BigEndian(15, 2)
    OBVIOUS
  <2>2. Number(x) = 15 /\ Piece(p2, x, 2, p3)
    BY <1>1, <2>1, MarkerNumbers
  <2> QED
    BY <1>1, <1>2, <2>2, MarkerTaken
<1>4. HasShown(Counted(a, pskTicket), q, v, k)
  BY <1>1, <1>3, TicketCounted
<1>5. parseExtension(r) = Counted(a, pskTicket)
  <2>1. a.err = FALSE
    BY <1>3, HasShownNext
  <2> QED
    BY <1>2, <1>3, <2>1, ExtensionIs
<1>6. ExtensionOnce(r) = parseExtension(r)
  BY HasShownNext DEF ExtensionOnce
<1> QED
  BY <1>4, <1>5, <1>6

LEMMA EcdheTaken ==
  ASSUME NEW r, NEW p, NEW v, NEW n, HasShown(r, p, v, n), NEW key1, NEW key2,
         EcdhePieces(p, key1, key2), NEW m, m = n + 1, NEW k, k = m + 1,
         ShowsPoint(v, m, key1), ShowsPoint(v, k, key2), NEW s, s = ExtensionOnce(r)
  PROVE  HasShown(s, << >>, v, k)
<1>1. PICK y, p2, p3, p4, y1, z1, p5, y2, z2 :
        /\ Piece(p, y, 4, p2) /\ Piece(p2, BigEndian(16, 2), 2, p3) /\ Piece(p3, <<2>>, 1, p4)
        /\ KeyPieces(p4, y1, z1, key1, p5) /\ KeyPieces(p5, y2, z2, key2, Magic)
  BY DEF EcdhePieces
<1>2. PICK a : a = Scan(MarkerFields, r)
  OBVIOUS
<1>3. HasShown(a, p3, v, n) /\ Marked(a, 16)
  <2>1. PICK x : x = BigEndian(16, 2)
    OBVIOUS
  <2>2. Number(x) = 16 /\ Piece(p2, x, 2, p3)
    BY <1>1, <2>1, MarkerNumbers
  <2> QED
    BY <1>1, <1>2, <2>2, MarkerTaken
<1>4. PICK b : b = Counted(a, ecdheKey)
  OBVIOUS
<1>5. HasShown(b, Magic, v, k)
  <2>1. PICK magic : magic = Magic
    OBVIOUS
  <2>2. KeyPieces(p5, y2, z2, key2, magic)
    BY <1>1, <2>1
  <2>3. HasShown(Counted(a, ecdheKey), magic, v, k)
    BY <1>1, <1>3, <2>2, KeysCounted
  <2> QED
    BY <1>4, <2>1, <2>3
<1>6. HasShown(TrailingMagic(b), << >>, v, k)
  BY <1>5, MagicTaken
<1>7. parseExtension(r) = TrailingMagic(b)
  <2>1. a.err = FALSE
    BY <1>3, HasShownNext
  <2> QED
    BY <1>2, <1>3, <1>4, <2>1, ExtensionIs
<1>8. ExtensionOnce(r) = parseExtension(r)
  BY HasShownNext DEF ExtensionOnce
<1> QED
  BY <1>6, <1>7, <1>8

-----------------------------------------------------------------------------
(* A ClientHello up to its suites.                                         *)
ClientHeadFields ==
  <<Field("Total Length", "number", 4), Field("Flag", "byte", 1),
    Field("Protocol Version", "number", 2), Field("Cipher Suites", "all", 1)>>

HasSuites(s, k) == NumberIn(s, "Cipher Suites") = k

LEMMA ClientHead ==
  ASSUME NEW p, NEW x2, NEW x3, NEW x4, NEW x5, NEW v1, NEW v2, NEW v3, NEW v4,
         Piece(p, v1, 4, x2), Piece(x2, v2, 1, x3), Piece(x3, v3, 2, x4),
         Piece(x4, v4, 1, x5), NEW v, NEW k, k = Number(v4),
         NEW s, s = Scan(ClientHeadFields, Reader(p))
  PROVE  HasShown(s, x5, v, 0) /\ HasSuites(s, k)
<1>14. 1 \in Nat /\ 2 \in Nat /\ 4 \in Nat
  OBVIOUS
<1>34. /\ 1 \in 1..4 /\ 0 = 1 - 1 /\ 2 \in 1..4 /\ 1 = 2 - 1 /\ 3 \in 1..4 /\ 2 = 3 - 1
       /\ 4 \in 1..4 /\ 3 = 4 - 1
  OBVIOUS
<1>1. PICK na : na = "Total Length"
  OBVIOUS
<1>2. PICK nb : nb = "Flag"
  OBVIOUS
<1>3. PICK nc : nc = "Protocol Version"
  OBVIOUS
<1>4. PICK nd : nd = "Cipher Suites"
  OBVIOUS
<1>6. Hidden(na) /\ Hidden(nb) /\ Hidden(nc) /\ Hidden(nd)
  BY <1>1, <1>2, <1>3, <1>4 DEF Hidden, Names, ShownNames, HelloNames
<1>7. PICK a : a = Field(na, "number", 4)
  OBVIOUS
<1>8. PICK b : b = Field(nb, "byte", 1)
  OBVIOUS
<1>9. PICK c : c = Field(nc, "number", 2)
  OBVIOUS
<1>10. PICK d : d = Field(nd, "all", 1)
  OBVIOUS
<1>12. ClientHeadFields = <<a, b, c, d>>
  BY <1>1, <1>2, <1>3, <1>4, <1>7, <1>8, <1>9, <1>10 DEF ClientHeadFields
<1>15. Taking(a, na, p, v1, x2, v, 0, 0)
  BY <1>6, <1>7, <1>14, NumberHidden
<1>16. Taking(b, nb, x2, v2, x3, v, 0, 0)
  BY <1>6, <1>8, ByteHidden
<1>17. Taking(c, nc, x3, v3, x4, v, 0, 0)
  BY <1>6, <1>9, <1>14, NumberHidden
<1>18. Taking(d, nd, x4, v4, x5, v, 0, 0)
  BY <1>6, <1>10, <1>14, AllHidden
<1>20. PICK r : r = Reader(p)
  OBVIOUS
<1>21. HasShown(r, p, v, 0)
  BY <1>20, ShowsNone DEF Piece
<1> DEFINE fields == <<a, b, c, d>>
<1>22. /\ fields \in Seq(Fields) /\ Len(fields) = 4 /\ a = fields[1] /\ b = fields[2]
       /\ c = fields[3] /\ d = fields[4]
  <2>1. a \in Fields /\ b \in Fields /\ c \in Fields /\ d \in Fields
    BY <1>15, <1>16, <1>17, <1>18 DEF Taking, Takes
  <2> QED
    BY <2>1
<1> HIDE DEF fields
<1>23. PICK g : ScanGoes(g, fields, 4, r)
  <2>1. r \in Readers
    BY <1>21 DEF HasShown
  <2> QED
    BY <1>22, <2>1, ScanOf
<1>24. HasShown(g[0], p, v, 0)
  BY <1>21, <1>23 DEF ScanGoes
<1>35. /\ Moves(g[1], g[0], a)
       /\ Moves(g[2], g[1], b)
       /\ Moves(g[3], g[2], c)
       /\ Moves(g[4], g[3], d)
  BY <1>22, <1>23, <1>34 DEF ScanGoes, Moves
<1>25. HasShown(g[1], x2, v, 0)
  BY <1>15, <1>24, <1>35, FieldMoves
<1>26. HasShown(g[2], x3, v, 0)
  BY <1>16, <1>25, <1>35, FieldMoves
<1>27. HasShown(g[3], x4, v, 0)
  BY <1>17, <1>26, <1>35, FieldMoves
<1>28. HasShown(g[4], x5, v, 0) /\ Grown(g[4], g[3], nd, v4)
  <2>1. g[4] = Advance(d, g[3])
    BY <1>27, <1>35 DEF Moves, HasShown
  <2> QED
    BY <1>18, <1>27, <2>1, FieldTaken
<1>30. g[4] = s
  BY <1>12, <1>20, <1>23 DEF ScanGoes, fields
<1>31. HasShown(s, x5, v, 0) /\ Value(s, nd) = v4
  BY <1>28, <1>30, LastValue
<1> QED
  BY <1>4, <1>31 DEF HasSuites, NumberIn

(* What comes behind the suites.                                           *)
BodyFields == <<Field("Client Random", "all", 32), Field("Timestamp", "number", 4)>>

ShowsClient(v, m, x) == IsValue(v, m, "Client Random", x)
ShowsTime(v, m, x) == IsValue(v, m, "Timestamp", x)

LEMMA BodyTaken ==
  ASSUME NEW r, NEW p, NEW v, NEW n, HasShown(r, p, v, n), NEW x, NEW y, NEW p2, NEW q,
         Piece(p, x, 32, p2), Piece(p2, y, 4, q), NEW m, m = n + 1, NEW k, k = m + 1,
         ShowsClient(v, m, x), ShowsTime(v, k, y), NEW s, s = Scan(BodyFields, r)
  PROVE  HasShown(s, q, v, k)
<1>1. 32 \in Nat /\ 4 \in Nat
  OBVIOUS
<1>2. PICK na : na = "Client Random"
  OBVIOUS
<1>3. PICK nb : nb = "Timestamp"
  OBVIOUS
<1>4. PICK all : all = "all"
  OBVIOUS
<1>5. PICK number : number = "number"
  OBVIOUS
<1>6. PICK a : a = Field(na, all, 32)
  OBVIOUS
<1>7. PICK b : b = Field(nb, number, 4)
  OBVIOUS
<1>8. s = Scan(<<a, b>>, r)
  BY <1>2, <1>3, <1>4, <1>5, <1>6, <1>7 DEF BodyFields
<1>9. /\ na \in Names /\ nb \in Names /\ IsValue(v, m, na, x) /\ IsValue(v, k, nb, y)
      /\ all \in {"number", "all"} /\ number \in {"number", "all"}
  BY <1>2, <1>3, <1>4, <1>5 DEF Names, ShownNames, ShowsClient, ShowsTime
<1>10. Taking(a, na, p, x, p2, v, n, m)
  BY <1>1, <1>6, <1>9, PieceShown
<1>11. Taking(b, nb, p2, y, q, v, m, k)
  BY <1>1, <1>7, <1>9, PieceShown
<1> QED
  BY <1>8, <1>10, <1>11, TwoTaken

LEMMA ClientParsed ==
  ASSUME NEW p, NEW s, s = Scan(ClientHeadFields, Reader(p)), s.err = FALSE,
         NEW k, HasSuites(s, k), NEW l, l = Loop(k, SuiteStep, s),
         NEW b, b = Scan(BodyFields, l), b.err = FALSE
  PROVE  parseClientHelloFields(p) = Described("ClientHello", Extended(b, parseExtension).out)
<1> DEFINE body(r) == Scan(BodyFields, Loop(NumberIn(r, "Cipher Suites"), SuiteStep, r))
<1>1. parseClientHelloFields(p)
        = IF s.err THEN encryptedPayload(p)
          ELSE IF body(s).err THEN encryptedPayload(p)
          ELSE Described("ClientHello", Extended(body(s), parseExtension).out)
  BY DEF parseClientHelloFields, With, ClientHeadFields, BodyFields, SuiteStep
<1>2. body(s) = b
  BY DEF HasSuites
<1> HIDE DEF body
<1> QED
  BY <1>1, <1>2

LEMMA ClientExtended ==
  ASSUME NEW b, NEW c, c = Scan(ExtensionsHead, b), c.err = FALSE, NEW k, HasCount(c, k)
  PROVE  Extended(b, parseExtension) = Repeat(k, parseExtension, c)
BY DEF Extended, With, ExtensionsHead, HasCount

(* A ClientHello of n suites, up to its extensions.                        *)
Headed(p, n, q) ==
  \E y, z, x2, x3, x4 :
    /\ Piece(p, y, 4, x2) /\ Piece(x2, <<1>>, 1, x3) /\ Piece(x3, z, 2, x4)
    /\ Piece(x4, <<n>>, 1, q)

Suited(p, v, n, q) ==
  \/ n = 1 /\ \E x : Piece(p, x, 2, q) /\ ShowsSuite(v, 1, x)
  \/ n = 2 /\ \E x, y, o : /\ Piece(p, x, 2, o) /\ ShowsSuite(v, 1, x)
                           /\ Piece(o, y, 2, q) /\ ShowsSuite(v, 2, y)

Bodied(p, random, time, n, q) ==
  \E z, x2, x3, x4 :
    /\ Piece(p, random, 32, x2) /\ Piece(x2, time, 4, x3) /\ Piece(x3, z, 4, x4)
    /\ Piece(x4, <<n>>, 1, q)

LEMMA SuitesTaken ==
  ASSUME NEW s, NEW p, NEW v, HasShown(s, p, v, 0), NEW n, NEW q, Suited(p, v, n, q),
         NEW l, l = Loop(n, SuiteStep, s)
  PROVE  HasShown(l, q, v, n) /\ (n = 1 \/ n = 2)
<1>1. PICK a : a = SuiteOnce(s)
  OBVIOUS
<1>2. PICK b : b = SuiteOnce(a)
  OBVIOUS
<1>0. 1 = 0 + 1 /\ 2 = 1 + 1
  OBVIOUS
<1>3. CASE n = 1 /\ \E x : Piece(p, x, 2, q) /\ ShowsSuite(v, 1, x)
  <2>1. PICK x : Piece(p, x, 2, q) /\ ShowsSuite(v, 1, x)
    BY <1>3
  <2>2. HasShown(a, q, v, 1)
    BY <1>0, <1>1, <2>1, SuiteTaken
  <2>3. Loop(1, SuiteStep, s) = [a EXCEPT !.err = FALSE]
    BY <1>1, <1>2, SuitesTwice
  <2>4. Loop(1, SuiteStep, s) = a
    BY <2>2, <2>3, StaysReader
  <2> QED
    BY <1>3, <2>2, <2>4
<1>4. CASE n = 2 /\ \E x, y, o : /\ Piece(p, x, 2, o) /\ ShowsSuite(v, 1, x)
                                 /\ Piece(o, y, 2, q) /\ ShowsSuite(v, 2, y)
  <2>1. PICK x, y, o : /\ Piece(p, x, 2, o) /\ ShowsSuite(v, 1, x)
                       /\ Piece(o, y, 2, q) /\ ShowsSuite(v, 2, y)
    BY <1>4
  <2>2. HasShown(a, o, v, 1)
    BY <1>0, <1>1, <2>1, SuiteTaken
  <2>3. HasShown(b, q, v, 2)
    BY <1>0, <1>2, <2>1, <2>2, SuiteTaken
  <2>4. Loop(2, SuiteStep, s) = [b EXCEPT !.err = FALSE]
    BY <1>1, <1>2, SuitesTwice
  <2>5. Loop(2, SuiteStep, s) = b
    BY <2>3, <2>4, StaysReader
  <2> QED
    BY <1>4, <2>3, <2>5
<1> QED
  BY <1>3, <1>4 DEF Suited

ReadsAs(p, n, c) ==
  parseClientHelloFields(p) = Described("ClientHello", Repeat(n, parseExtension, c).out)

LEMMA ClientRead ==
  ASSUME NEW p, NEW n, NEW q, Headed(p, n, q), NEW v, NEW q2, Suited(q, v, n, q2),
         NEW random, NEW time, NEW e, Bodied(q2, random, time, n, e),
         NEW m, m = n + 1, NEW k, k = m + 1, ShowsClient(v, m, random), ShowsTime(v, k, time)
  PROVE  \E c : HasShown(c, e, v, k) /\ ReadsAs(p, n, c)
<1>1. PICK y, z, x2, x3, x4 :
        /\ Piece(p, y, 4, x2) /\ Piece(x2, <<1>>, 1, x3) /\ Piece(x3, z, 2, x4)
        /\ Piece(x4, <<n>>, 1, q)
  BY DEF Headed
<1>2. PICK w, y2, y3, y4 :
        /\ Piece(q2, random, 32, y2) /\ Piece(y2, time, 4, y3) /\ Piece(y3, w, 4, y4)
        /\ Piece(y4, <<n>>, 1, e)
  BY DEF Bodied
<1>3. PICK o : o = <<n>>
  OBVIOUS
<1>4. n = 1 \/ n = 2
  BY DEF Suited
<1>5. Number(o) = n
  <2>1. n \in 0..255
    BY <1>4
  <2> QED
    BY <1>3, <2>1, NumberOfByte
<1>6. PICK s : s = Scan(ClientHeadFields, Reader(p))
  OBVIOUS
<1>7. HasShown(s, q, v, 0) /\ HasSuites(s, n)
  <2>1. PICK one : one = <<1>>
    OBVIOUS
  <2>2. Piece(p, y, 4, x2) /\ Piece(x2, one, 1, x3) /\ Piece(x3, z, 2, x4) /\ Piece(x4, o, 1, q)
    BY <1>1, <1>3, <2>1
  <2> QED
    BY <1>5, <1>6, <2>2, ClientHead
<1>8. PICK l : l = Loop(n, SuiteStep, s)
  OBVIOUS
<1>9. HasShown(l, q2, v, n)
  BY <1>7, <1>8, SuitesTaken
<1>10. PICK b : b = Scan(BodyFields, l)
  OBVIOUS
<1>11. HasShown(b, y3, v, k)
  BY <1>2, <1>9, <1>10, BodyTaken
<1>12. PICK c : c = Scan(ExtensionsHead, b)
  OBVIOUS
<1>13. HasShown(c, e, v, k) /\ HasCount(c, n)
  <2>1. Piece(y3, w, 4, y4) /\ Piece(y4, o, 1, e)
    BY <1>2, <1>3
  <2> QED
    BY <1>5, <1>11, <1>12, <2>1, CountTaken
<1>14. s.err = FALSE /\ b.err = FALSE /\ c.err = FALSE
  BY <1>7, <1>11, <1>13 DEF HasShown
<1>15. parseClientHelloFields(p) = Described("ClientHello", Extended(b, parseExtension).out)
  BY <1>6, <1>7, <1>8, <1>10, <1>14, ClientParsed
<1>16. Extended(b, parseExtension) = Repeat(n, parseExtension, c)
  BY <1>12, <1>13, <1>14, ClientExtended
<1> QED
  BY <1>13, <1>15, <1>16 DEF ReadsAs

(* The three kinds of hello, with the extensions each has.                 *)
LEMMA EcdheHelloRead ==
  ASSUME NEW p, NEW c, NEW e, NEW v, HasShown(c, e, v, 3), ReadsAs(p, 1, c),
         NEW key1, NEW key2, EcdhePieces(e, key1, key2),
         ShowsPoint(v, 4, key1), ShowsPoint(v, 5, key2)
  PROVE  \E r : HasShown(r, << >>, v, 5)
                /\ parseClientHelloFields(p) = Described("ClientHello", r.out)
<1>0. 4 = 3 + 1 /\ 5 = 4 + 1
  OBVIOUS
<1>1. PICK a : a = ExtensionOnce(c)
  OBVIOUS
<1>2. HasShown(a, << >>, v, 5)
  BY <1>0, <1>1, EcdheTaken
<1>3. Repeat(1, parseExtension, c) = a
  <2>1. PICK b : b = ExtensionOnce(a)
    OBVIOUS
  <2> QED
    BY <1>1, <2>1, ExtensionsTwice
<1> QED
  BY <1>2, <1>3 DEF ReadsAs

LEMMA ZeroHelloRead ==
  ASSUME NEW p, NEW c, NEW e, NEW v, HasShown(c, e, v, 3), ReadsAs(p, 1, c),
         NEW t \in TicketRecords, PskPieces(e, serializeTicket(OfferedTicket(t)), << >>),
         ShowsNonce(v, 4, t.nonce), ShowsTicket(v, 5, t.ticket)
  PROVE  \E r : HasShown(r, << >>, v, 5)
                /\ parseClientHelloFields(p) = Described("ClientHello", r.out)
<1>0. 4 = 3 + 1 /\ 5 = 4 + 1
  OBVIOUS
<1>1. PICK a : a = ExtensionOnce(c)
  OBVIOUS
<1>4. PICK z : z = << >>
  OBVIOUS
<1>5. PskPieces(e, serializeTicket(OfferedTicket(t)), z)
  BY <1>4
<1>2. HasShown(a, z, v, 5)
  BY <1>0, <1>1, <1>5, PskTaken
<1>3. Repeat(1, parseExtension, c) = a
  <2>1. PICK b : b = ExtensionOnce(a)
    OBVIOUS
  <2> QED
    BY <1>1, <2>1, ExtensionsTwice
<1> QED
  BY <1>2, <1>3, <1>4 DEF ReadsAs

LEMMA OneHelloRead ==
  ASSUME NEW p, NEW c, NEW e, NEW v, HasShown(c, e, v, 4), ReadsAs(p, 2, c),
         NEW t \in TicketRecords, NEW f, PskPieces(e, serializeTicket(OfferedTicket(t)), f),
         ShowsNonce(v, 5, t.nonce), ShowsTicket(v, 6, t.ticket),
         NEW key1, NEW key2, EcdhePieces(f, key1, key2),
         ShowsPoint(v, 7, key1), ShowsPoint(v, 8, key2)
  PROVE  \E r : HasShown(r, << >>, v, 8)
                /\ parseClientHelloFields(p) = Described("ClientHello", r.out)
<1>0. 5 = 4 + 1 /\ 6 = 5 + 1 /\ 7 = 6 + 1 /\ 8 = 7 + 1
  OBVIOUS
<1>1. PICK a : a = ExtensionOnce(c)
  OBVIOUS
<1>2. HasShown(a, f, v, 6)
  BY <1>0, <1>1, PskTaken
<1>3. PICK b : b = ExtensionOnce(a)
  OBVIOUS
<1>4. HasShown(b, << >>, v, 8)
  BY <1>0, <1>2, <1>3, EcdheTaken
<1>5. Repeat(2, parseExtension, c) = b
  BY <1>1, <1>3, ExtensionsTwice
<1> QED
  BY <1>4, <1>5 DEF ReadsAs

-----------------------------------------------------------------------------
(* The bytes of a ClientHello.                                             *)
LEMMA FlatOne ==
  ASSUME NEW seqs \in Seq(Str), Len(seqs) = 1
  PROVE  FlattenSeq(seqs) = seqs[1]
<1>1. PICK g : g = Joined(seqs)
  OBVIOUS
<1>2. /\ FlattenSeq(seqs) = g[Len(seqs)] /\ g[0] = << >>
      /\ \A i \in 1..Len(seqs) : g[i] = g[i - 1] \o seqs[i]
  BY <1>1, JoinSteps
<1>3. 1 \in 1..1 /\ 1 - 1 = 0 /\ seqs[1] \in Str
  OBVIOUS
<1>4. PICK e : e = << >>
  OBVIOUS
<1>5. g[1] = e \o seqs[1]
  BY <1>2, <1>3, <1>4
<1>6. e \o seqs[1] = seqs[1]
  BY <1>3, <1>4, ConcatEmptySeq DEF Str
<1> QED
  BY <1>2, <1>5, <1>6

LEMMA FlatTwo ==
  ASSUME NEW seqs \in Seq(Str), Len(seqs) = 2
  PROVE  FlattenSeq(seqs) = seqs[1] \o seqs[2]
<1>1. PICK g : g = Joined(seqs)
  OBVIOUS
<1>2. /\ FlattenSeq(seqs) = g[Len(seqs)] /\ g[0] = << >>
      /\ \A i \in 1..Len(seqs) : g[i] = g[i - 1] \o seqs[i]
  BY <1>1, JoinSteps
<1>3. 1 \in 1..2 /\ 2 \in 1..2 /\ 1 - 1 = 0 /\ 2 - 1 = 1 /\ seqs[1] \in Str
  OBVIOUS
<1>4. PICK e : e = << >>
  OBVIOUS
<1>5. g[1] = e \o seqs[1] /\ g[2] = g[1] \o seqs[2]
  BY <1>2, <1>3, <1>4
<1>6. e \o seqs[1] = seqs[1]
  BY <1>3, <1>4, ConcatEmptySeq DEF Str
<1> QED
  BY <1>2, <1>5, <1>6

Sevens(a, b, c, d, e, f, g, all) == all = a \o b \o c \o d \o e \o f \o g

LEMMA SevenFromRight ==
  ASSUME NEW a \in Str, NEW b \in Str, NEW c \in Str, NEW d \in Str, NEW e \in Str,
         NEW f \in Str, NEW g \in Str, NEW x1, NEW x2, NEW x3, NEW x4, NEW x5, NEW x6,
         Join(f, g, x1), Join(e, x1, x2), Join(d, x2, x3), Join(c, x3, x4),
         Join(b, x4, x5), Join(a, x5, x6)
  PROVE  Sevens(a, b, c, d, e, f, g, x6)
<1> DEFINE ab == a \o b
           abc == ab \o c
           abcd == abc \o d
           abcde == abcd \o e
           abcdef == abcde \o f
           all == abcdef \o g
<1>1. /\ Join(a, b, ab) /\ Join(ab, c, abc) /\ Join(abc, d, abcd) /\ Join(abcd, e, abcde)
      /\ Join(abcde, f, abcdef) /\ Join(abcdef, g, all)
  BY DEF Join
<1> HIDE DEF ab, abc, abcd, abcde, abcdef, all
<1>2. ab \in Str /\ x1 \in Str
  BY <1>1, JoinStr DEF Join
<1>3. abc \in Str /\ x2 \in Str
  BY <1>1, <1>2, JoinStr DEF Join
<1>4. abcd \in Str /\ x3 \in Str
  BY <1>1, <1>3, JoinStr DEF Join
<1>5. abcde \in Str /\ x4 \in Str
  BY <1>1, <1>4, JoinStr DEF Join
<1>6. Join(abcde, x1, all)
  BY <1>1, <1>5, RegroupAt
<1>7. Join(abcd, x2, all)
  BY <1>1, <1>2, <1>4, <1>6, RegroupAt
<1>8. Join(abc, x3, all)
  BY <1>1, <1>3, <1>7, RegroupAt
<1>9. Join(ab, x4, all)
  BY <1>1, <1>2, <1>4, <1>8, RegroupAt
<1>10. Join(a, x5, all)
  BY <1>1, <1>5, <1>9, RegroupAt
<1>11. x6 = all
  BY <1>10 DEF Join
<1> QED
  BY <1>11 DEF Sevens, all, abcdef, abcde, abcd, abc, ab

LEMMA ReversedVersion ==
  Reverse(BigEndian(ProtocolVersion, 2)) \in Str
    /\ Len(Reverse(BigEndian(ProtocolVersion, 2))) = 2
<1>1. PICK s : s = BigEndian(ProtocolVersion, 2)
  OBVIOUS
<1>2. s \in Str /\ Len(s) = 2
  <2>1. ProtocolVersion \in Nat
    BY DEF ProtocolVersion
  <2> QED
    BY <1>1, <2>1, BigEndianType DEF Of
<1>3. PICK r : r = [i \in 1..2 |-> s[(2 - i) + 1]]
  OBVIOUS
<1>4. \A i \in 1..2 : s[(2 - i) + 1] \in Byte
  BY <1>2 DEF Str
<1>5. r \in Str /\ Len(r) = 2
  BY <1>3, <1>4 DEF Str
<1>6. Reverse(s) = r
  BY <1>2, <1>3 DEF Reverse
<1> QED
  BY <1>1, <1>5, <1>6

(* A hello of n suites, S the bytes of these and E those of its extensions.*)
ClientBytes(n, S, random, time, E) ==
  writeU32LenData(<<1>> \o Reverse(BigEndian(ProtocolVersion, 2)) \o <<n>> \o S
                    \o random \o BigEndian(time, 4) \o writeU32LenData(<<n>> \o E))

Begun(p, flag) ==
  \E x : /\ p = writeU32LenData(x) /\ x \in Str /\ Len(x) > 1 /\ x[1] = flag
         /\ Piece(p, BigEndian(Len(x), 4), 4, x)

LEMMA ClientPieces ==
  ASSUME NEW n \in 1..2, NEW S \in Str, NEW random \in Of(32), NEW time \in Nat, NEW E \in Str,
         NEW p, p = ClientBytes(n, S, random, time, E)
  PROVE  /\ Begun(p, 1)
         /\ \E q, r : /\ Headed(p, n, q) /\ Join(S, r, q) /\ r \in Str
                      /\ Bodied(r, random, BigEndian(time, 4), n, E)
<1>1. random \in Str /\ Len(random) = 32
  BY DEF Of
<1>2. 4 \in {2, 4} /\ n \in 0..255 /\ 1 \in 0..255
  OBVIOUS
<1>3. PICK one : one = <<1>>
  OBVIOUS
<1>4. PICK o : o = <<n>>
  OBVIOUS
<1>5. PICK version : version = Reverse(BigEndian(ProtocolVersion, 2))
  OBVIOUS
<1>6. PICK t : t = BigEndian(time, 4)
  OBVIOUS
<1>7. /\ one \in Str /\ Len(one) = 1 /\ o \in Str /\ Len(o) = 1
      /\ version \in Str /\ Len(version) = 2 /\ t \in Str /\ Len(t) = 4
  <2>1. t \in Str /\ Len(t) = 4
    BY <1>6, BigEndianType DEF Of
  <2>2. one \in Str /\ Len(one) = 1 /\ o \in Str /\ Len(o) = 1
    BY <1>2, <1>3, <1>4, OneByte
  <2> QED
    BY <1>5, <2>1, <2>2, ReversedVersion
<1>8. PICK x9 : x9 = o \o E
  OBVIOUS
<1>9. Piece(x9, o, 1, E) /\ x9 \in Str
  <2>1. Piece(x9, o, 1, E)
    BY <1>7, <1>8, PieceIs
  <2> QED
    BY <2>1 DEF Piece
<1>10. PICK x8 : x8 = writeU32LenData(x9)
  OBVIOUS
<1>11. Piece(x8, BigEndian(Len(x9), 4), 4, x9) /\ x8 \in Str
  <2>1. Piece(x8, BigEndian(Len(x9), 4), 4, x9)
    BY <1>9, <1>10, U32Piece
  <2> QED
    BY <2>1 DEF Piece
<1>12. PICK x7 : x7 = t \o x8
  OBVIOUS
<1>13. Piece(x7, t, 4, x8) /\ x7 \in Str
  <2>1. Piece(x7, t, 4, x8)
    BY <1>7, <1>11, <1>12, PieceIs
  <2> QED
    BY <2>1 DEF Piece
<1>14. PICK x6 : x6 = random \o x7
  OBVIOUS
<1>15. Piece(x6, random, 32, x7) /\ x6 \in Str
  <2>1. Piece(x6, random, 32, x7)
    BY <1>1, <1>13, <1>14, PieceIs
  <2> QED
    BY <2>1 DEF Piece
<1>16. PICK x5 : x5 = S \o x6
  OBVIOUS
<1>17. x5 \in Str /\ Join(S, x6, x5)
  BY <1>15, <1>16, JoinStr DEF Join
<1>18. PICK x4 : x4 = o \o x5
  OBVIOUS
<1>19. Piece(x4, o, 1, x5) /\ x4 \in Str
  <2>1. Piece(x4, o, 1, x5)
    BY <1>7, <1>17, <1>18, PieceIs
  <2> QED
    BY <2>1 DEF Piece
<1>20. PICK x3 : x3 = version \o x4
  OBVIOUS
<1>21. Piece(x3, version, 2, x4) /\ x3 \in Str
  <2>1. Piece(x3, version, 2, x4)
    BY <1>7, <1>19, <1>20, PieceIs
  <2> QED
    BY <2>1 DEF Piece
<1>22. PICK x2 : x2 = one \o x3
  OBVIOUS
<1>23. Piece(x2, one, 1, x3) /\ x2 \in Str
  <2>1. Piece(x2, one, 1, x3)
    BY <1>7, <1>21, <1>22, PieceIs
  <2> QED
    BY <2>1 DEF Piece
<1>24. p = writeU32LenData(x2)
  <2>1. Join(t, x8, x7) /\ Join(random, x7, x6) /\ Join(S, x6, x5) /\ Join(o, x5, x4)
        /\ Join(version, x4, x3) /\ Join(one, x3, x2)
    BY <1>12, <1>14, <1>16, <1>18, <1>20, <1>22 DEF Join
  <2>2. Sevens(one, version, o, S, random, t, x8, x2)
    BY <1>1, <1>7, <1>11, <2>1, SevenFromRight
  <2>3. x2 = one \o version \o o \o S \o random \o t \o x8
    BY <2>2 DEF Sevens
  <2>4. p = writeU32LenData(one \o version \o o \o S \o random \o t \o x8)
    BY <1>3, <1>4, <1>5, <1>6, <1>8, <1>10 DEF ClientBytes
  <2> QED
    BY <2>3, <2>4
<1>25. Piece(p, BigEndian(Len(x2), 4), 4, x2)
  BY <1>23, <1>24, U32Piece
<1>26. Begun(p, 1)
  <2>1. x2[1] = 1
    BY <1>2, <1>3, <1>23, FlagOf
  <2>2. Longer(x2, 1, x3) /\ Longer(x3, 2, x4)
    BY <1>21, <1>23, PieceLonger
  <2>3. Len(x2) > 1
    BY <2>2 DEF Longer
  <2> QED
    BY <1>23, <1>24, <1>25, <2>1, <2>3 DEF Begun
<1>27. Headed(p, n, x5)
  BY <1>3, <1>4, <1>19, <1>21, <1>23, <1>25 DEF Headed
<1>28. Bodied(x6, random, BigEndian(time, 4), n, E)
  BY <1>4, <1>6, <1>9, <1>11, <1>13, <1>15 DEF Bodied
<1> QED
  BY <1>15, <1>17, <1>26, <1>27, <1>28

-----------------------------------------------------------------------------
(* The bytes of the extensions.                                            *)
LEMMA PieceJoined ==
  ASSUME NEW v \in Str, NEW n, Len(v) = n, NEW q \in Str, NEW p, Join(v, q, p)
  PROVE  Piece(p, v, n, q) /\ p \in Str
<1>1. p = v \o q
  BY DEF Join
<1>2. Piece(p, v, n, q)
  BY <1>1, PieceIs
<1> QED
  BY <1>2 DEF Piece

LEMMA DataJoined ==
  ASSUME NEW d \in Str, NEW q \in Str, NEW w, NEW l, l = BigEndian(Len(d), w),
         NEW x, Join(d, q, x), NEW p, Join(l, x, p)
  PROVE  /\ w = 2 /\ Len(d) < Limit2 => DataPiece(p, d, w, q)
         /\ w = 4 /\ Len(d) < Limit4 => DataPiece(p, d, w, q)
BY DEF DataPiece, Join

(* A frame, its length and what follows it.                                *)
LEMMA FrameJoined ==
  ASSUME NEW b \in Str, NEW f, f = writeU32LenData(b), NEW q \in Str, NEW e, Join(f, q, e),
         NEW x, Join(b, q, x)
  PROVE  Piece(e, BigEndian(Len(b), 4), 4, x) /\ f \in Str /\ x \in Str
<1>1. PICK h : h = BigEndian(Len(b), 4)
  OBVIOUS
<1>2. h \in Str /\ Len(h) = 4
  <2>1. Len(b) \in Nat
    BY OnlyEmpty
  <2> QED
    BY <1>1, <2>1, BigEndianType DEF Of
<1>3. Join(h, b, f)
  BY <1>1 DEF Join, writeU32LenData
<1>4. Join(h, x, e) /\ f \in Str /\ x \in Str
  <2>1. PICK g : g = f
    OBVIOUS
  <2>2. Join(h, b, g) /\ Join(b, q, x) /\ Join(g, q, e)
    BY <1>3, <2>1
  <2>3. Join(h, x, e) /\ g \in Str /\ x \in Str
    BY <1>2, <2>2, RegroupAt
  <2> QED
    BY <2>1, <2>3
<1>5. Piece(e, h, 4, x)
  BY <1>2, <1>4, PieceJoined
<1> QED
  BY <1>1, <1>4, <1>5

LEMMA PskLaid ==
  ASSUME NEW ticket \in Str, Len(ticket) < Limit4, NEW q \in Str, NEW f,
         f = writeU32LenData(BigEndian(15, 2) \o << 1 >> \o writeU32LenData(ticket)),
         NEW e, Join(f, q, e)
  PROVE  f \in Str /\ PskPieces(e, ticket, q)
<1>1. PICK a : a = BigEndian(15, 2)
  OBVIOUS
<1>2. PICK o : o = <<1>>
  OBVIOUS
<1>3. PICK l : l = BigEndian(Len(ticket), 4)
  OBVIOUS
<1>4. /\ a \in Str /\ Len(a) = 2 /\ o \in Str /\ Len(o) = 1 /\ l \in Str /\ Len(l) = 4
  <2>1. Len(ticket) \in Nat /\ 15 \in Nat /\ 1 \in 0..255
    BY OnlyEmpty
  <2>2. a \in Str /\ Len(a) = 2
    BY <1>1, <2>1, BigEndianType DEF Of
  <2>3. o \in Str /\ Len(o) = 1
    BY <1>2, <2>1, OneByte
  <2>4. l \in Str /\ Len(l) = 4
    BY <1>3, <2>1, BigEndianType DEF Of
  <2> QED
    BY <2>2, <2>3, <2>4
<1>5. PICK lt : lt = writeU32LenData(ticket)
  OBVIOUS
<1>6. Join(l, ticket, lt) /\ lt \in Str
  <2>1. lt = l \o ticket
    BY <1>3, <1>5 DEF writeU32LenData
  <2> QED
    BY <1>4, <2>1, JoinStr DEF Join
<1>7. PICK ao : ao = a \o o
  OBVIOUS
<1>8. Join(a, o, ao) /\ ao \in Str
  BY <1>4, <1>7, JoinStr DEF Join
<1>9. PICK b : b = ao \o lt
  OBVIOUS
<1>10. Join(ao, lt, b) /\ b \in Str /\ f = writeU32LenData(b)
  <2>1. f = writeU32LenData(a \o o \o lt)
    BY <1>1, <1>2, <1>5
  <2>2. b = a \o o \o lt
    BY <1>7, <1>9
  <2> QED
    BY <1>6, <1>8, <1>9, <2>1, <2>2, JoinStr DEF Join
<1>11. PICK bq : bq = b \o q
  OBVIOUS
<1>12. PICK ltq : ltq = lt \o q
  OBVIOUS
<1>13. PICK tq : tq = ticket \o q
  OBVIOUS
<1>14. PICK oltq : oltq = o \o ltq
  OBVIOUS
<1>15. Join(b, q, bq) /\ Join(lt, q, ltq) /\ Join(ticket, q, tq) /\ Join(o, ltq, oltq)
  BY <1>11, <1>12, <1>13, <1>14 DEF Join
<1>16. Join(ao, ltq, bq) /\ ltq \in Str
  BY <1>6, <1>8, <1>10, <1>15, RegroupAt
<1>17. Join(a, oltq, bq) /\ oltq \in Str
  <2>1. Join(a, o, ao) /\ Join(ao, ltq, bq) /\ Join(o, ltq, oltq)
    BY <1>8, <1>15, <1>16
  <2> QED
    BY <1>4, <1>16, <2>1, RegroupAt
<1>18. Join(l, tq, ltq)
  BY <1>4, <1>6, <1>15, RegroupAt
<1>19. Piece(e, BigEndian(Len(b), 4), 4, bq) /\ f \in Str
  BY <1>10, <1>15, FrameJoined
<1>20. Piece(bq, a, 2, oltq) /\ Piece(oltq, o, 1, ltq)
  BY <1>4, <1>15, <1>16, <1>17, PieceJoined
<1>21. DataPiece(ltq, ticket, 4, q)
  BY <1>3, <1>15, <1>18, DataJoined
<1> QED
  BY <1>1, <1>2, <1>19, <1>20, <1>21 DEF PskPieces

LEMMA KeyLaid ==
  ASSUME NEW n \in Nat, NEW key \in Str, Len(key) < Limit2, NEW q \in Str, NEW f,
         f = writeU32LenData(BigEndian(n, 4) \o writeU16LenData(key)), NEW p, Join(f, q, p)
  PROVE  f \in Str /\ p \in Str /\ \E y, z : KeyPieces(p, y, z, key, q)
<1>1. PICK a : a = BigEndian(n, 4)
  OBVIOUS
<1>2. PICK l : l = BigEndian(Len(key), 2)
  OBVIOUS
<1>3. a \in Str /\ Len(a) = 4 /\ l \in Str /\ Len(l) = 2
  <2>1. Len(key) \in Nat
    BY OnlyEmpty
  <2>2. a \in Str /\ Len(a) = 4
    BY <1>1, BigEndianType DEF Of
  <2>3. l \in Str /\ Len(l) = 2
    BY <1>2, <2>1, BigEndianType DEF Of
  <2> QED
    BY <2>2, <2>3
<1>4. PICK u : u = writeU16LenData(key)
  OBVIOUS
<1>5. Join(l, key, u) /\ u \in Str
  <2>1. u = l \o key
    BY <1>2, <1>4 DEF writeU16LenData
  <2> QED
    BY <1>3, <2>1, JoinStr DEF Join
<1>6. PICK b : b = a \o u
  OBVIOUS
<1>7. Join(a, u, b) /\ b \in Str /\ f = writeU32LenData(b)
  BY <1>1, <1>3, <1>4, <1>5, <1>6, JoinStr DEF Join
<1>8. PICK bq : bq = b \o q
  OBVIOUS
<1>9. PICK uq : uq = u \o q
  OBVIOUS
<1>10. PICK kq : kq = key \o q
  OBVIOUS
<1>11. Join(b, q, bq) /\ Join(u, q, uq) /\ Join(key, q, kq)
  BY <1>8, <1>9, <1>10 DEF Join
<1>12. Join(a, uq, bq) /\ uq \in Str
  BY <1>3, <1>5, <1>7, <1>11, RegroupAt
<1>13. Join(l, kq, uq)
  BY <1>3, <1>5, <1>11, RegroupAt
<1>14. Piece(p, BigEndian(Len(b), 4), 4, bq) /\ f \in Str
  BY <1>7, <1>11, FrameJoined
<1>15. Piece(bq, a, 4, uq)
  BY <1>3, <1>12, PieceJoined
<1>16. DataPiece(uq, key, 2, q)
  BY <1>2, <1>11, <1>13, DataJoined
<1> QED
  BY <1>14, <1>15, <1>16 DEF KeyPieces, Piece

LEMMA EcdheLaid ==
  ASSUME NEW key1 \in Str, Len(key1) < Limit2, NEW key2 \in Str, Len(key2) < Limit2,
         NEW k1, k1 = writeU32LenData(BigEndian(5, 4) \o writeU16LenData(key1)),
         NEW k2, k2 = writeU32LenData(BigEndian(6, 4) \o writeU16LenData(key2)),
         NEW e, e = writeU32LenData(BigEndian(16, 2) \o << 2 >> \o (k1 \o k2) \o Magic)
  PROVE  e \in Str /\ EcdhePieces(e, key1, key2)
<1>1. PICK a : a = BigEndian(16, 2)
  OBVIOUS
<1>2. PICK o : o = <<2>>
  OBVIOUS
<1>3. PICK magic : magic = Magic
  OBVIOUS
<1>4. /\ a \in Str /\ Len(a) = 2 /\ o \in Str /\ Len(o) = 1 /\ magic \in Str
  <2>1. 16 \in Nat /\ 2 \in 0..255
    OBVIOUS
  <2>2. a \in Str /\ Len(a) = 2
    BY <1>1, <2>1, BigEndianType DEF Of
  <2>3. o \in Str /\ Len(o) = 1
    BY <1>2, <2>1, OneByte
  <2> QED
    BY <1>3, <2>2, <2>3, MagicIs
<1>5. PICK p5 : p5 = k2 \o magic
  OBVIOUS
<1>6. Join(k2, magic, p5)
  BY <1>5 DEF Join
<1>7. k2 \in Str /\ p5 \in Str /\ \E y, z : KeyPieces(p5, y, z, key2, magic)
  <2>1. 6 \in Nat
    OBVIOUS
  <2> QED
    BY <1>4, <1>6, <2>1, KeyLaid
<1>8. PICK p4 : p4 = k1 \o p5
  OBVIOUS
<1>9. Join(k1, p5, p4)
  BY <1>8 DEF Join
<1>10. k1 \in Str /\ p4 \in Str /\ \E y, z : KeyPieces(p4, y, z, key1, p5)
  <2>1. 5 \in Nat
    OBVIOUS
  <2> QED
    BY <1>7, <1>9, <2>1, KeyLaid
<1>11. PICK kk : kk = k1 \o k2
  OBVIOUS
<1>12. Join(k1, k2, kk) /\ kk \in Str
  BY <1>7, <1>10, <1>11, JoinStr DEF Join
<1>13. Join(kk, magic, p4)
  <2>1. PICK w : w = kk \o magic
    OBVIOUS
  <2>2. Join(kk, magic, w)
    BY <2>1 DEF Join
  <2>3. Join(k1, p5, w)
    BY <1>4, <1>6, <1>7, <1>10, <1>12, <2>2, RegroupAt
  <2> QED
    BY <1>9, <2>2, <2>3 DEF Join
<1>14. PICK p3 : p3 = o \o p4
  OBVIOUS
<1>15. Join(o, p4, p3)
  BY <1>14 DEF Join
<1>16. Piece(p3, o, 1, p4) /\ p3 \in Str
  BY <1>4, <1>10, <1>15, PieceJoined
<1>17. PICK p2 : p2 = a \o p3
  OBVIOUS
<1>18. Join(a, p3, p2)
  BY <1>17 DEF Join
<1>19. Piece(p2, a, 2, p3) /\ p2 \in Str
  BY <1>4, <1>16, <1>18, PieceJoined
<1>20. e = writeU32LenData(p2)
  <2>1. PICK ao : ao = a \o o
    OBVIOUS
  <2>2. PICK aok : aok = ao \o kk
    OBVIOUS
  <2>3. PICK w : w = aok \o magic
    OBVIOUS
  <2>4. Join(a, o, ao) /\ Join(ao, kk, aok) /\ Join(aok, magic, w)
    BY <2>1, <2>2, <2>3 DEF Join
  <2>5. ao \in Str
    BY <1>4, <2>4, JoinStr DEF Join
  <2>6. Join(ao, p4, w)
    BY <1>4, <1>12, <1>13, <2>4, <2>5, RegroupAt
  <2>7. Join(a, p3, w)
    BY <1>4, <1>10, <1>15, <2>4, <2>6, RegroupAt
  <2>8. w = p2
    BY <1>18, <2>7 DEF Join
  <2>9. e = writeU32LenData(a \o o \o kk \o magic)
    BY <1>1, <1>2, <1>3, <1>11
  <2>10. w = a \o o \o kk \o magic
    BY <2>1, <2>2, <2>3
  <2> QED
    BY <2>8, <2>9, <2>10
<1>21. Piece(e, BigEndian(Len(p2), 4), 4, p2) /\ e \in Str
  <2>1. Piece(e, BigEndian(Len(p2), 4), 4, p2)
    BY <1>19, <1>20, U32Piece
  <2> QED
    BY <2>1 DEF Piece
<1> QED
  BY <1>1, <1>2, <1>3, <1>7, <1>10, <1>16, <1>19, <1>21 DEF EcdhePieces

(* The suites, and the hellos as bytes.                                    *)
LEMMA OneSuited ==
  ASSUME NEW k \in Nat, NEW S, S = BigEndian(k, 2), NEW r \in Str, NEW q, Join(S, r, q),
         NEW v, ShowsSuite(v, 1, S)
  PROVE  Suited(q, v, 1, r) /\ S \in Str
<1>1. S \in Str /\ Len(S) = 2
  BY BigEndianType DEF Of
<1>2. Piece(q, S, 2, r)
  BY <1>1, PieceJoined
<1> QED
  BY <1>1, <1>2 DEF Suited

LEMMA TwoSuited ==
  ASSUME NEW k \in Nat, NEW a, a = BigEndian(k, 2), NEW l \in Nat, NEW b, b = BigEndian(l, 2),
         NEW S, Join(a, b, S), NEW r \in Str, NEW q, Join(S, r, q),
         NEW v, ShowsSuite(v, 1, a), ShowsSuite(v, 2, b)
  PROVE  Suited(q, v, 2, r) /\ S \in Str
<1>1. a \in Str /\ Len(a) = 2 /\ b \in Str /\ Len(b) = 2
  BY BigEndianType DEF Of
<1>2. PICK br : br = b \o r
  OBVIOUS
<1>3. Join(b, r, br)
  BY <1>2 DEF Join
<1>4. Join(a, br, q) /\ S \in Str /\ br \in Str
  BY <1>1, <1>3, RegroupAt
<1>5. Piece(q, a, 2, br) /\ Piece(br, b, 2, r)
  BY <1>1, <1>3, <1>4, PieceJoined
<1> QED
  BY <1>4, <1>5 DEF Suited

KeysOf(hello) ==
  FlattenSeq([i \in 1..Len(hello.keys) |->
    writeU32LenData(BigEndian(4 + i, 4) \o writeU16LenData(hello.keys[i]))])

LEMMA EcdheBytes ==
  ASSUME NEW key1 \in Str, Len(key1) < Limit2, NEW key2 \in Str, Len(key2) < Limit2,
         NEW hello, hello.keys = <<key1, key2>>
  PROVE  writeU32LenData(EcdheExtension(hello)) \in Str
           /\ EcdhePieces(writeU32LenData(EcdheExtension(hello)), key1, key2)
<1>1. PICK k1 : k1 = writeU32LenData(BigEndian(5, 4) \o writeU16LenData(key1))
  OBVIOUS
<1>2. PICK k2 : k2 = writeU32LenData(BigEndian(6, 4) \o writeU16LenData(key2))
  OBVIOUS
<1>3. PICK e : e = writeU32LenData(BigEndian(16, 2) \o <<2>> \o (k1 \o k2) \o Magic)
  OBVIOUS
<1>4. e \in Str /\ EcdhePieces(e, key1, key2)
  BY <1>1, <1>2, <1>3, EcdheLaid
<1>5. KeysOf(hello) = k1 \o k2
  <2> DEFINE f == [i \in 1..Len(hello.keys) |->
                     writeU32LenData(BigEndian(4 + i, 4) \o writeU16LenData(hello.keys[i]))]
  <2>1. /\ Len(hello.keys) = 2 /\ hello.keys[1] = key1 /\ hello.keys[2] = key2
        /\ 1 \in 1..2 /\ 2 \in 1..2 /\ 4 + 1 = 5 /\ 4 + 2 = 6
        /\ \A i \in 1..2 : i = 1 \/ i = 2
    OBVIOUS
  <2>2. f[1] = k1 /\ f[2] = k2 /\ DOMAIN f = 1..2
    BY <1>1, <1>2, <2>1
  <2>3. f = [i \in 1..2 |-> f[i]]
    BY <2>1
  <2>4. KeysOf(hello) = FlattenSeq(f)
    BY DEF KeysOf
  <2> HIDE DEF f
  <2>5. k1 \in Str /\ k2 \in Str
    <3>1. PICK x : x = k2 \o Magic
      OBVIOUS
    <3>2. Join(k2, Magic, x) /\ 6 \in Nat /\ 5 \in Nat
      BY <3>1 DEF Join
    <3>3. k2 \in Str /\ x \in Str
      BY <1>2, <3>2, MagicIs, KeyLaid
    <3>4. PICK y : y = k1 \o x
      OBVIOUS
    <3>5. Join(k1, x, y)
      BY <3>4 DEF Join
    <3>6. k1 \in Str
      BY <1>1, <3>2, <3>3, <3>5, KeyLaid
    <3> QED
      BY <3>3, <3>6
  <2>6. f \in Seq(Str) /\ Len(f) = 2
    <3>1. \A i \in 1..2 : f[i] \in Str
      BY <2>1, <2>2, <2>5
    <3> QED
      BY <2>3, <3>1
  <2>7. FlattenSeq(f) = f[1] \o f[2]
    BY <2>6, FlatTwo
  <2> QED
    BY <2>2, <2>4, <2>7
<1>6. EcdheExtension(hello) = BigEndian(16, 2) \o <<Len(hello.keys)>> \o KeysOf(hello) \o Magic
  BY DEF EcdheExtension, Concat, KeysOf
<1>7. Len(hello.keys) = 2
  OBVIOUS
<1>8. writeU32LenData(EcdheExtension(hello)) = e
  <2>1. PICK kk : kk = k1 \o k2
    OBVIOUS
  <2>2. EcdheExtension(hello) = BigEndian(16, 2) \o <<2>> \o kk \o Magic
    BY <1>5, <1>6, <1>7, <2>1
  <2>3. e = writeU32LenData(BigEndian(16, 2) \o <<2>> \o kk \o Magic)
    BY <1>3, <2>1
  <2> QED
    BY <2>2, <2>3
<1> QED
  BY <1>4, <1>8

LEMMA PskBytes ==
  ASSUME NEW t \in TicketRecords, NEW hello, hello.ticket = serializeTicket(OfferedTicket(t)),
         NEW q \in Str, NEW e, Join(writeU32LenData(PskExtension(hello)), q, e)
  PROVE  writeU32LenData(PskExtension(hello)) \in Str
           /\ PskPieces(e, serializeTicket(OfferedTicket(t)), q)
<1>1. PICK ticket : ticket = serializeTicket(OfferedTicket(t))
  OBVIOUS
<1>2. ticket \in Str /\ Len(ticket) < Limit4
  BY <1>1, TicketKept, TicketWritten
<1>3. PICK f : f = writeU32LenData(BigEndian(15, 2) \o <<1>> \o writeU32LenData(ticket))
  OBVIOUS
<1>4. writeU32LenData(PskExtension(hello)) = f
  BY <1>1, <1>3 DEF PskExtension
<1>5. f \in Str /\ PskPieces(e, ticket, q)
  BY <1>2, <1>3, <1>4, PskLaid
<1> QED
  BY <1>1, <1>4, <1>5

SuitesOf(hello) == FlattenSeq([i \in 1..Len(hello.suites) |-> BigEndian(hello.suites[i], 2)])

ExtensionOf(hello, suite) ==
  writeU32LenData(IF suite = PskSuite THEN PskExtension(hello) ELSE EcdheExtension(hello))

ExtensionsOf(hello) ==
  FlattenSeq([i \in 1..Len(hello.suites) |->
    writeU32LenData(IF Reverse(hello.suites)[i] = PskSuite
                    THEN PskExtension(hello) ELSE EcdheExtension(hello))])

LEMMA ClientIs ==
  ASSUME NEW hello
  PROVE  ClientHello(hello)
           = ClientBytes(Len(hello.suites), SuitesOf(hello), hello.random, hello.timestamp,
                         ExtensionsOf(hello))
BY DEF ClientHello, Concat, ClientBytes, SuitesOf, ExtensionsOf

LEMMA OneSuite ==
  ASSUME NEW hello, NEW k \in Nat, hello.suites = <<k>>, ExtensionOf(hello, k) \in Str
  PROVE  /\ Len(hello.suites) = 1 /\ SuitesOf(hello) = BigEndian(k, 2)
         /\ ExtensionsOf(hello) = ExtensionOf(hello, k)
<1>1. /\ Len(hello.suites) = 1 /\ hello.suites[1] = k /\ 1 \in 1..1
      /\ \A i \in 1..1 : i = 1
  OBVIOUS
<1>2. Reverse(hello.suites)[1] = k
  BY <1>1 DEF Reverse
<1> DEFINE f == [i \in 1..1 |-> BigEndian(hello.suites[i], 2)]
           g == [i \in 1..1 |->
                   writeU32LenData(IF Reverse(hello.suites)[i] = PskSuite
                                   THEN PskExtension(hello) ELSE EcdheExtension(hello))]
<1>3. SuitesOf(hello) = FlattenSeq(f) /\ ExtensionsOf(hello) = FlattenSeq(g)
  BY <1>1 DEF SuitesOf, ExtensionsOf
<1>4. f[1] = BigEndian(k, 2) /\ g[1] = ExtensionOf(hello, k)
  BY <1>1, <1>2 DEF ExtensionOf
<1>5. f = [i \in 1..1 |-> f[i]] /\ g = [i \in 1..1 |-> g[i]]
  OBVIOUS
<1>6. BigEndian(k, 2) \in Str
  BY BigEndianType DEF Of
<1> HIDE DEF f, g
<1>7. f \in Seq(Str) /\ Len(f) = 1
  BY <1>1, <1>4, <1>5, <1>6
<1>8. g \in Seq(Str) /\ Len(g) = 1
  BY <1>1, <1>4, <1>5
<1> QED
  BY <1>1, <1>3, <1>4, <1>7, <1>8, FlatOne

LEMMA TwoSuites ==
  ASSUME NEW hello, NEW k \in Nat, NEW l \in Nat, hello.suites = <<k, l>>,
         ExtensionOf(hello, k) \in Str, ExtensionOf(hello, l) \in Str
  PROVE  /\ Len(hello.suites) = 2
         /\ Join(BigEndian(k, 2), BigEndian(l, 2), SuitesOf(hello))
         /\ Join(ExtensionOf(hello, l), ExtensionOf(hello, k), ExtensionsOf(hello))
<1>1. /\ Len(hello.suites) = 2 /\ hello.suites[1] = k /\ hello.suites[2] = l
      /\ 1 \in 1..2 /\ 2 \in 1..2 /\ \A i \in 1..2 : i = 1 \/ i = 2
  OBVIOUS
<1>2. Reverse(hello.suites)[1] = l /\ Reverse(hello.suites)[2] = k
  BY <1>1 DEF Reverse
<1> DEFINE f == [i \in 1..2 |-> BigEndian(hello.suites[i], 2)]
           g == [i \in 1..2 |->
                   writeU32LenData(IF Reverse(hello.suites)[i] = PskSuite
                                   THEN PskExtension(hello) ELSE EcdheExtension(hello))]
<1>3. SuitesOf(hello) = FlattenSeq(f) /\ ExtensionsOf(hello) = FlattenSeq(g)
  BY <1>1 DEF SuitesOf, ExtensionsOf
<1>4. /\ f[1] = BigEndian(k, 2) /\ g[1] = ExtensionOf(hello, l)
      /\ f[2] = BigEndian(l, 2) /\ g[2] = ExtensionOf(hello, k)
  BY <1>1, <1>2 DEF ExtensionOf
<1>5. f = [i \in 1..2 |-> f[i]] /\ g = [i \in 1..2 |-> g[i]]
  OBVIOUS
<1>6. BigEndian(k, 2) \in Str /\ BigEndian(l, 2) \in Str
  BY BigEndianType DEF Of
<1> HIDE DEF f, g
<1>7. f \in Seq(Str) /\ Len(f) = 2
  BY <1>1, <1>4, <1>5, <1>6
<1>8. g \in Seq(Str) /\ Len(g) = 2
  BY <1>1, <1>4, <1>5
<1>9. FlattenSeq(f) = f[1] \o f[2] /\ FlattenSeq(g) = g[1] \o g[2]
  BY <1>7, <1>8, FlatTwo
<1> QED
  BY <1>1, <1>3, <1>4, <1>9 DEF Join

LEMMA HelloParts ==
  ASSUME NEW suites, NEW random, NEW time, NEW keys, NEW t,
         NEW h, h = newHello(suites, random, time, keys, t)
  PROVE  /\ h.suites = suites /\ h.random = random /\ h.timestamp = time /\ h.keys = keys
         /\ h.ticket = serializeTicket(OfferedTicket(t))
BY DEF newHello, OfferedTicket

LEMMA ValueNames ==
  ASSUME NEW x
  PROVE  /\ SuiteValue(x)[1] \in HelloNames /\ ClientValue(x)[1] \in HelloNames
         /\ TimeValue(x)[1] \in HelloNames /\ NonceValue(x)[1] \in HelloNames
         /\ DataValue(x)[1] \in HelloNames /\ PointValue(x)[1] \in HelloNames
BY DEF SuiteValue, ClientValue, TimeValue, NonceValue, DataValue, PointValue, HelloNames

LEMMA ValueShows ==
  ASSUME NEW v, NEW m, NEW x
  PROVE  /\ v[m] = SuiteValue(x)  => ShowsSuite(v, m, x)
         /\ v[m] = ClientValue(x) => ShowsClient(v, m, x)
         /\ v[m] = TimeValue(x)   => ShowsTime(v, m, x)
         /\ v[m] = NonceValue(x)  => ShowsNonce(v, m, x)
         /\ v[m] = DataValue(x)   => ShowsTicket(v, m, x)
         /\ v[m] = PointValue(x)  => ShowsPoint(v, m, x)
BY DEF SuiteValue, ClientValue, TimeValue, NonceValue, DataValue, PointValue,
       ShowsSuite, ShowsClient, ShowsTime, ShowsNonce, ShowsTicket, ShowsPoint, IsValue

ValuesFit(s, m) ==
  /\ DOMAIN s.values = 1..m /\ Len(s.values) = m
  /\ \A i \in 1..m : s.values[i][1] \in HelloNames

LEMMA FiveValues ==
  ASSUME NEW s, NEW a, NEW b, NEW c, NEW d, NEW e, s.values = <<a, b, c, d, e>>,
         a[1] \in HelloNames, b[1] \in HelloNames, c[1] \in HelloNames, d[1] \in HelloNames,
         e[1] \in HelloNames
  PROVE  /\ ValuesFit(s, 5)
         /\ s.values[1] = a /\ s.values[2] = b /\ s.values[3] = c /\ s.values[4] = d
         /\ s.values[5] = e
<1>1. \A i \in 1..5 : i = 1 \/ i = 2 \/ i = 3 \/ i = 4 \/ i = 5
  OBVIOUS
<1>2. /\ DOMAIN s.values = 1..5 /\ Len(s.values) = 5
      /\ s.values[1] = a /\ s.values[2] = b /\ s.values[3] = c /\ s.values[4] = d
      /\ s.values[5] = e
  OBVIOUS
<1> QED
  BY <1>1, <1>2 DEF ValuesFit

LEMMA EightValues ==
  ASSUME NEW s, NEW a, NEW b, NEW c, NEW d, NEW e, NEW f, NEW g, NEW h,
         s.values = <<a, b, c, d, e, f, g, h>>,
         a[1] \in HelloNames, b[1] \in HelloNames, c[1] \in HelloNames, d[1] \in HelloNames,
         e[1] \in HelloNames, f[1] \in HelloNames, g[1] \in HelloNames, h[1] \in HelloNames
  PROVE  /\ ValuesFit(s, 8)
         /\ s.values[1] = a /\ s.values[2] = b /\ s.values[3] = c /\ s.values[4] = d
         /\ s.values[5] = e /\ s.values[6] = f /\ s.values[7] = g /\ s.values[8] = h
<1>1. \A i \in 1..8 : i = 1 \/ i = 2 \/ i = 3 \/ i = 4 \/ i = 5 \/ i = 6 \/ i = 7 \/ i = 8
  OBVIOUS
<1>2. /\ DOMAIN s.values = 1..8 /\ Len(s.values) = 8
      /\ s.values[1] = a /\ s.values[2] = b /\ s.values[3] = c /\ s.values[4] = d
      /\ s.values[5] = e /\ s.values[6] = f /\ s.values[7] = g /\ s.values[8] = h
  OBVIOUS
<1> QED
  BY <1>1, <1>2 DEF ValuesFit

(* The hellos as they lie in the record.                                   *)
LEMMA SuiteNumbers == EcdheSuite \in Nat /\ PskSuite \in Nat /\ EcdheSuite # PskSuite
BY DEF EcdheSuite, PskSuite

ReadAll(p, v, m) ==
  /\ Begun(p, 1)
  /\ \E r : HasShown(r, << >>, v, m)
            /\ parseClientHelloFields(p) = Described("ClientHello", r.out)

-----------------------------------------------------------------------------
(* A ClientHello from its first byte to its extensions.                    *)
SuitesShown(S, v, n) == \A q, r : Join(S, r, q) /\ r \in Str => Suited(q, v, n, r)

LEMMA ClientThrough ==
  ASSUME NEW n \in 1..2, NEW S \in Str, NEW random \in Of(32), NEW time \in Nat, NEW e \in Str,
         NEW p, p = ClientBytes(n, S, random, time, e), NEW v, SuitesShown(S, v, n),
         NEW m, m = n + 1, NEW k, k = m + 1,
         NEW t, t = BigEndian(time, 4), ShowsClient(v, m, random), ShowsTime(v, k, t)
  PROVE  Begun(p, 1) /\ \E c : HasShown(c, e, v, k) /\ ReadsAs(p, n, c)
<1>1. Begun(p, 1)
  BY ClientPieces
<1>2. PICK q, r : /\ Headed(p, n, q) /\ Join(S, r, q) /\ r \in Str
                  /\ Bodied(r, random, BigEndian(time, 4), n, e)
  BY ClientPieces
<1>3. Suited(q, v, n, r) /\ Bodied(r, random, t, n, e)
  BY <1>2 DEF SuitesShown
<1>4. \E c : HasShown(c, e, v, k) /\ ReadsAs(p, n, c)
  BY <1>2, <1>3, ClientRead
<1> QED
  BY <1>1, <1>4

LEMMA AloneJoined ==
  ASSUME NEW e \in Str
  PROVE  Join(e, << >>, e) /\ << >> \in Str
<1>1. e \o << >> = e /\ << >> \in Str
  BY ConcatEmptySeq, EmptyStr DEF Str
<1> QED
  BY <1>1 DEF Join

LEMMA BothJoined ==
  ASSUME NEW x \in Str, NEW y \in Str, NEW z, Join(x, y, z)
  PROVE  z \in Str
<1>1. PICK w : w = x \o y
  OBVIOUS
<1>2. w \in Str
  BY <1>1, JoinStr
<1>3. z = w
  BY <1>1 DEF Join
<1> QED
  BY <1>2, <1>3

LEMMA EcdheThrough ==
  ASSUME NEW s, WrittenEcdhe(s)
  PROVE  ReadAll(s.record.data, s.values, 5) /\ ValuesFit(s, 5)
<1>1. PICK random, time, key1, key2, t :
        /\ AHello(s, <<EcdheSuite>>, random, time, <<key1, key2>>, t) /\ AKey(key1) /\ AKey(key2)
        /\ s.values = <<SuiteValue(BigEndian(EcdheSuite, 2)), ClientValue(random),
                        TimeValue(BigEndian(time, 4)), PointValue(key1), PointValue(key2)>>
  BY DEF WrittenEcdhe
<1>2. PICK v : v = s.values
  OBVIOUS
<1>3. PICK S : S = BigEndian(EcdheSuite, 2)
  OBVIOUS
<1>4. PICK b : b = BigEndian(time, 4)
  OBVIOUS
<1>5. /\ ValuesFit(s, 5)
      /\ v[1] = SuiteValue(S) /\ v[2] = ClientValue(random) /\ v[3] = TimeValue(b)
      /\ v[4] = PointValue(key1) /\ v[5] = PointValue(key2)
  <2>1. PICK x1, x2, x3, x4, x5 :
          /\ x1 = SuiteValue(S) /\ x2 = ClientValue(random) /\ x3 = TimeValue(b)
          /\ x4 = PointValue(key1) /\ x5 = PointValue(key2)
    OBVIOUS
  <2>2. s.values = <<x1, x2, x3, x4, x5>>
    BY <1>1, <1>3, <1>4, <2>1
  <2>3. /\ x1[1] \in HelloNames /\ x2[1] \in HelloNames /\ x3[1] \in HelloNames
        /\ x4[1] \in HelloNames /\ x5[1] \in HelloNames
    BY <2>1, ValueNames
  <2> QED
    BY <1>2, <2>1, <2>2, <2>3, FiveValues
<1>6. /\ ShowsSuite(v, 1, S) /\ ShowsClient(v, 2, random) /\ ShowsTime(v, 3, b)
      /\ ShowsPoint(v, 4, key1) /\ ShowsPoint(v, 5, key2)
  BY <1>5, ValueShows
<1>7. PICK h : h = newHello(<<EcdheSuite>>, random, time, <<key1, key2>>, t)
  OBVIOUS
<1>8. /\ h.suites = <<EcdheSuite>> /\ h.random = random /\ h.timestamp = time
      /\ h.keys = <<key1, key2>>
  BY <1>7, HelloParts
<1>9. PICK e : e = ExtensionOf(h, EcdheSuite)
  OBVIOUS
<1>10. e \in Str /\ EcdhePieces(e, key1, key2)
  <2>1. key1 \in Str /\ Len(key1) < Limit2 /\ key2 \in Str /\ Len(key2) < Limit2
    BY <1>1 DEF AKey
  <2>2. e = writeU32LenData(EcdheExtension(h))
    BY <1>9, SuiteNumbers DEF ExtensionOf
  <2> QED
    BY <1>8, <2>1, <2>2, EcdheBytes
<1>11. S \in Str /\ random \in Of(32) /\ time \in Nat
  BY <1>1, <1>3, SuiteNumbers, BigEndianType DEF Of, AHello
<1>12. s.record.data = ClientBytes(1, S, random, time, e)
  <2>1. Len(h.suites) = 1 /\ SuitesOf(h) = S /\ ExtensionsOf(h) = e
    BY <1>3, <1>8, <1>9, <1>10, SuiteNumbers, OneSuite
  <2>2. s.record.data = ClientHello(h)
    BY <1>1, <1>7 DEF AHello
  <2> QED
    BY <1>8, <2>1, <2>2, ClientIs
<1>13. PICK p : p = ClientBytes(1, S, random, time, e)
  OBVIOUS
<1>14. SuitesShown(S, v, 1)
  BY <1>3, <1>6, SuiteNumbers, OneSuited DEF SuitesShown
<1>15. 1 \in 1..2 /\ 2 = 1 + 1 /\ 3 = 2 + 1
  OBVIOUS
<1>16. Begun(p, 1) /\ \E c : HasShown(c, e, v, 3) /\ ReadsAs(p, 1, c)
  BY <1>4, <1>6, <1>10, <1>11, <1>13, <1>14, <1>15, ClientThrough
<1>17. ReadAll(p, v, 5)
  BY <1>6, <1>10, <1>16, EcdheHelloRead DEF ReadAll
<1> QED
  BY <1>2, <1>5, <1>12, <1>13, <1>17

LEMMA ZeroThrough ==
  ASSUME NEW s, WrittenZero(s)
  PROVE  ReadAll(s.record.data, s.values, 5) /\ ValuesFit(s, 5)
<1>1. PICK random, time, t :
        /\ AHello(s, <<PskSuite>>, random, time, << >>, t)
        /\ s.values = <<SuiteValue(BigEndian(PskSuite, 2)), ClientValue(random),
                        TimeValue(BigEndian(time, 4)), NonceValue(t.nonce), DataValue(t.ticket)>>
  BY DEF WrittenZero
<1>2. PICK v : v = s.values
  OBVIOUS
<1>3. PICK S : S = BigEndian(PskSuite, 2)
  OBVIOUS
<1>4. PICK b : b = BigEndian(time, 4)
  OBVIOUS
<1>5. /\ ValuesFit(s, 5)
      /\ v[1] = SuiteValue(S) /\ v[2] = ClientValue(random) /\ v[3] = TimeValue(b)
      /\ v[4] = NonceValue(t.nonce) /\ v[5] = DataValue(t.ticket)
  <2>1. PICK x1, x2, x3, x4, x5 :
          /\ x1 = SuiteValue(S) /\ x2 = ClientValue(random) /\ x3 = TimeValue(b)
          /\ x4 = NonceValue(t.nonce) /\ x5 = DataValue(t.ticket)
    OBVIOUS
  <2>2. s.values = <<x1, x2, x3, x4, x5>>
    BY <1>1, <1>3, <1>4, <2>1
  <2>3. /\ x1[1] \in HelloNames /\ x2[1] \in HelloNames /\ x3[1] \in HelloNames
        /\ x4[1] \in HelloNames /\ x5[1] \in HelloNames
    BY <2>1, ValueNames
  <2> QED
    BY <1>2, <2>1, <2>2, <2>3, FiveValues
<1>6. /\ ShowsSuite(v, 1, S) /\ ShowsClient(v, 2, random) /\ ShowsTime(v, 3, b)
      /\ ShowsNonce(v, 4, t.nonce) /\ ShowsTicket(v, 5, t.ticket)
  BY <1>5, ValueShows
<1>7. PICK h : h = newHello(<<PskSuite>>, random, time, << >>, t)
  OBVIOUS
<1>8. /\ h.suites = <<PskSuite>> /\ h.random = random /\ h.timestamp = time
      /\ h.ticket = serializeTicket(OfferedTicket(t))
  BY <1>7, HelloParts
<1>9. PICK e : e = ExtensionOf(h, PskSuite)
  OBVIOUS
<1>18. t \in TicketRecords
  BY <1>1 DEF AHello
<1>10. e \in Str /\ PskPieces(e, serializeTicket(OfferedTicket(t)), << >>)
  <2>1. e = writeU32LenData(PskExtension(h))
    BY <1>9 DEF ExtensionOf
  <2>2. PICK f : f = writeU32LenData(BigEndian(15, 2) \o <<1>> \o writeU32LenData(h.ticket))
    OBVIOUS
  <2>3. e = f
    BY <2>1, <2>2 DEF PskExtension
  <2>4. e \in Str
    <3>1. PICK g : g = h.ticket
      OBVIOUS
    <3>2. g \in Str /\ Len(g) < Limit4
      BY <1>8, <1>18, <3>1, TicketKept, TicketWritten
    <3>6. PICK n : n = << >>
      OBVIOUS
    <3>3. PICK z : z = f \o n
      OBVIOUS
    <3>4. Join(f, n, z) /\ n \in Str
      BY <3>3, <3>6, EmptyStr DEF Join
    <3>5. f = writeU32LenData(BigEndian(15, 2) \o <<1>> \o writeU32LenData(g))
      BY <2>2, <3>1
    <3> QED
      BY <2>3, <3>2, <3>4, <3>5, PskLaid
  <2>5. Join(e, << >>, e) /\ << >> \in Str
    BY <2>4, AloneJoined
  <2> QED
    BY <1>8, <1>18, <2>1, <2>4, <2>5, PskBytes
<1>11. S \in Str /\ random \in Of(32) /\ time \in Nat
  BY <1>1, <1>3, SuiteNumbers, BigEndianType DEF Of, AHello
<1>12. s.record.data = ClientBytes(1, S, random, time, e)
  <2>1. Len(h.suites) = 1 /\ SuitesOf(h) = S /\ ExtensionsOf(h) = e
    BY <1>3, <1>8, <1>9, <1>10, SuiteNumbers, OneSuite
  <2>2. s.record.data = ClientHello(h)
    BY <1>1, <1>7 DEF AHello
  <2> QED
    BY <1>8, <2>1, <2>2, ClientIs
<1>13. PICK p : p = ClientBytes(1, S, random, time, e)
  OBVIOUS
<1>14. SuitesShown(S, v, 1)
  BY <1>3, <1>6, SuiteNumbers, OneSuited DEF SuitesShown
<1>15. 1 \in 1..2 /\ 2 = 1 + 1 /\ 3 = 2 + 1
  OBVIOUS
<1>16. Begun(p, 1) /\ \E c : HasShown(c, e, v, 3) /\ ReadsAs(p, 1, c)
  BY <1>4, <1>6, <1>10, <1>11, <1>13, <1>14, <1>15, ClientThrough
<1>17. ReadAll(p, v, 5)
  BY <1>6, <1>10, <1>16, <1>18, ZeroHelloRead DEF ReadAll
<1> QED
  BY <1>2, <1>5, <1>12, <1>13, <1>17

LEMMA OneThrough ==
  ASSUME NEW s, WrittenOne(s)
  PROVE  ReadAll(s.record.data, s.values, 8) /\ ValuesFit(s, 8)
<1>1. PICK random, time, key1, key2, t :
        /\ AHello(s, <<EcdheSuite, PskSuite>>, random, time, <<key1, key2>>, t)
        /\ AKey(key1) /\ AKey(key2)
        /\ s.values = <<SuiteValue(BigEndian(EcdheSuite, 2)), SuiteValue(BigEndian(PskSuite, 2)),
                        ClientValue(random), TimeValue(BigEndian(time, 4)),
                        NonceValue(t.nonce), DataValue(t.ticket),
                        PointValue(key1), PointValue(key2)>>
  BY DEF WrittenOne
<1>2. PICK v : v = s.values
  OBVIOUS
<1>3. PICK a : a = BigEndian(EcdheSuite, 2)
  OBVIOUS
<1>19. PICK d : d = BigEndian(PskSuite, 2)
  OBVIOUS
<1>4. PICK b : b = BigEndian(time, 4)
  OBVIOUS
<1>5. /\ ValuesFit(s, 8)
      /\ v[1] = SuiteValue(a) /\ v[2] = SuiteValue(d) /\ v[3] = ClientValue(random)
      /\ v[4] = TimeValue(b) /\ v[5] = NonceValue(t.nonce) /\ v[6] = DataValue(t.ticket)
      /\ v[7] = PointValue(key1) /\ v[8] = PointValue(key2)
  <2>1. PICK x1, x2, x3, x4, x5, x6, x7, x8 :
          /\ x1 = SuiteValue(a) /\ x2 = SuiteValue(d) /\ x3 = ClientValue(random)
          /\ x4 = TimeValue(b) /\ x5 = NonceValue(t.nonce) /\ x6 = DataValue(t.ticket)
          /\ x7 = PointValue(key1) /\ x8 = PointValue(key2)
    OBVIOUS
  <2>2. s.values = <<x1, x2, x3, x4, x5, x6, x7, x8>>
    BY <1>1, <1>3, <1>4, <1>19, <2>1
  <2>3. /\ x1[1] \in HelloNames /\ x2[1] \in HelloNames /\ x3[1] \in HelloNames
        /\ x4[1] \in HelloNames /\ x5[1] \in HelloNames /\ x6[1] \in HelloNames
        /\ x7[1] \in HelloNames /\ x8[1] \in HelloNames
    BY <2>1, ValueNames
  <2> QED
    BY <1>2, <2>1, <2>2, <2>3, EightValues
<1>6. /\ ShowsSuite(v, 1, a) /\ ShowsSuite(v, 2, d) /\ ShowsClient(v, 3, random)
      /\ ShowsTime(v, 4, b) /\ ShowsNonce(v, 5, t.nonce) /\ ShowsTicket(v, 6, t.ticket)
      /\ ShowsPoint(v, 7, key1) /\ ShowsPoint(v, 8, key2)
  BY <1>5, ValueShows
<1>7. PICK h : h = newHello(<<EcdheSuite, PskSuite>>, random, time, <<key1, key2>>, t)
  OBVIOUS
<1>8. /\ h.suites = <<EcdheSuite, PskSuite>> /\ h.random = random /\ h.timestamp = time
      /\ h.keys = <<key1, key2>> /\ h.ticket = serializeTicket(OfferedTicket(t))
  BY <1>7, HelloParts
<1>9. PICK f : f = ExtensionOf(h, EcdheSuite)
  OBVIOUS
<1>10. f \in Str /\ EcdhePieces(f, key1, key2)
  <2>1. key1 \in Str /\ Len(key1) < Limit2 /\ key2 \in Str /\ Len(key2) < Limit2
    BY <1>1 DEF AKey
  <2>2. f = writeU32LenData(EcdheExtension(h))
    BY <1>9, SuiteNumbers DEF ExtensionOf
  <2> QED
    BY <1>8, <2>1, <2>2, EcdheBytes
<1>18. t \in TicketRecords
  BY <1>1 DEF AHello
<1>20. PICK g : g = ExtensionOf(h, PskSuite)
  OBVIOUS
<1>21. PICK e : e = g \o f
  OBVIOUS
<1>22. Join(g, f, e)
  BY <1>21 DEF Join
<1>23. g \in Str /\ PskPieces(e, serializeTicket(OfferedTicket(t)), f)
  <2>1. g = writeU32LenData(PskExtension(h))
    BY <1>20 DEF ExtensionOf
  <2> QED
    BY <1>8, <1>10, <1>18, <1>22, <2>1, PskBytes
<1>24. e \in Str
  BY <1>10, <1>22, <1>23, BothJoined
<1>25. PICK S : S = SuitesOf(h)
  OBVIOUS
<1>26. Len(h.suites) = 2 /\ Join(a, d, S) /\ Join(g, f, ExtensionsOf(h))
  BY <1>3, <1>8, <1>9, <1>10, <1>19, <1>20, <1>23, <1>25, SuiteNumbers, TwoSuites
<1>11. S \in Str /\ random \in Of(32) /\ time \in Nat
  <2>1. a \in Str /\ d \in Str
    BY <1>3, <1>19, SuiteNumbers, BigEndianType DEF Of
  <2>2. S \in Str
    BY <1>26, <2>1, BothJoined
  <2> QED
    BY <1>1, <2>2 DEF AHello
<1>12. s.record.data = ClientBytes(2, S, random, time, e)
  <2>1. ExtensionsOf(h) = e
    BY <1>22, <1>26 DEF Join
  <2>2. s.record.data = ClientHello(h)
    BY <1>1, <1>7 DEF AHello
  <2> QED
    BY <1>8, <1>25, <1>26, <2>1, <2>2, ClientIs
<1>13. PICK p : p = ClientBytes(2, S, random, time, e)
  OBVIOUS
<1>14. SuitesShown(S, v, 2)
  BY <1>3, <1>6, <1>19, <1>26, SuiteNumbers, TwoSuited DEF SuitesShown
<1>15. 2 \in 1..2 /\ 3 = 2 + 1 /\ 4 = 3 + 1
  OBVIOUS
<1>16. Begun(p, 1) /\ \E c : HasShown(c, e, v, 4) /\ ReadsAs(p, 2, c)
  BY <1>4, <1>6, <1>11, <1>13, <1>14, <1>15, <1>24, ClientThrough
<1>17. ReadAll(p, v, 8)
  BY <1>6, <1>10, <1>16, <1>18, <1>23, OneHelloRead DEF ReadAll
<1> QED
  BY <1>2, <1>5, <1>12, <1>13, <1>17

LEMMA HelloShown ==
  ASSUME NEW s, Fits(s.record), InHandshake(s), s.name = "ClientHello",
         NEW m, ReadAll(s.record.data, s.values, m), ValuesFit(s, m)
  PROVE  Shown(s)
<1>1. PICK p : p = s.record.data
  OBVIOUS
<1>2. PICK v : v = s.values
  OBVIOUS
<1>3. Begun(p, 1) /\ \E r : HasShown(r, << >>, v, m)
                            /\ parseClientHelloFields(p) = Described("ClientHello", r.out)
  BY <1>1, <1>2 DEF ReadAll
<1>4. PICK x : /\ p = writeU32LenData(x) /\ x \in Str /\ Len(x) > 1 /\ x[1] = 1
               /\ Piece(p, BigEndian(Len(x), 4), 4, x)
  BY <1>3 DEF Begun
<1>5. Len(x) < Limit4
  BY <1>1, <1>4, FramedFits
<1>6. parsePayload(s.record.type, s.record.data) = parseClientHelloFields(p)
  <2>1. parsePayload(s.record.type, writeU32LenData(x)) = parseMessage(x[1], writeU32LenData(x))
    BY <1>4, <1>5, MessageIs DEF InHandshake
  <2>2. parseMessage(1, p) = parseClientHelloFields(p)
    BY MessageOf
  <2> QED
    BY <1>1, <1>4, <2>1, <2>2
<1>7. PICK kind : kind = "ClientHello"
  OBVIOUS
<1>8. PICK r : HasShown(r, << >>, v, m) /\ parseClientHelloFields(p) = Described(kind, r.out)
  BY <1>3, <1>7
<1>9. Shows(Described(kind, r.out), s)
  <2>1. PICK e : e = << >>
    OBVIOUS
  <2>2. HasShown(r, e, s.values, m) /\ s.name = kind
    BY <1>2, <1>7, <1>8, <2>1
  <2>3. DOMAIN s.values = 1..m /\ Len(s.values) = m
        /\ \A i \in 1..m : s.values[i][1] \in HelloNames
    BY DEF ValuesFit
  <2> QED
    BY <2>2, <2>3, AllOfThem
<1> QED
  BY <1>6, <1>8, <1>9, ShownBy

LEMMA ClientShown ==
  ASSUME NEW s, Fits(s.record), WrittenEcdhe(s) \/ WrittenOne(s) \/ WrittenZero(s)
  PROVE  Shown(s)
<1>1. InHandshake(s) /\ s.name = "ClientHello"
  BY DEF WrittenEcdhe, WrittenOne, WrittenZero, AHello
<1>2. CASE WrittenEcdhe(s)
  BY <1>1, <1>2, EcdheThrough, HelloShown
<1>3. CASE WrittenOne(s)
  BY <1>1, <1>3, OneThrough, HelloShown
<1>4. CASE WrittenZero(s)
  BY <1>1, <1>4, ZeroThrough, HelloShown
<1> QED
  BY <1>2, <1>3, <1>4

LEMMA MessageShown ==
  ASSUME NEW s, Fits(s.record), WrittenMessage(s)
  PROVE  Shown(s)
<1>1. CASE WrittenEcdhe(s) \/ WrittenOne(s) \/ WrittenZero(s)
  BY <1>1, ClientShown
<1>2. CASE WrittenServer(s)
  BY <1>2, ServerShown
<1>3. CASE WrittenTickets(s)
  BY <1>3, TicketsShown
<1>4. CASE s.name = "Signature" /\ WrittenSignature(s)
  BY <1>4, SignatureShown
<1>5. CASE s.name = "ServerFinish" /\ WrittenFinish(s)
  BY <1>5, FinishShown
<1>6. CASE WrittenExtensions(s)
  BY <1>6, ExtensionsShown
<1>7. CASE WrittenAbort(s)
  BY <1>7, AbortShown
<1>8. CASE WrittenData(s)
  BY <1>8, DataShown
<1>9. CASE WrittenSealed(s)
  BY <1>9, SealedShown
<1>10. CASE WrittenShort(s)
  BY <1>10, ShortShown
<1> QED
  BY <1>1, <1>2, <1>3, <1>4, <1>5, <1>6, <1>7, <1>8, <1>9, <1>10 DEF WrittenMessage

-----------------------------------------------------------------------------
(* A description is what the payload printed with it parses to.            *)
Describing ==
  \A i \in DOMAIN records :
    records[i].description = parsePayload(records[i].type, records[i].raw)

LEMMA DescribeStep ==
  ASSUME WalkInv, Describing, [Next]_vars
  PROVE  Describing'
<1>1. Walking
  BY DEF WalkInv
<1>2. CASE ParseRecord
  <2> DEFINE got == Parsed(readRecord(rest))
  <2>1. /\ records' = Append(records, got) /\ outcome = "parsing" /\ outcome' = outcome
    BY <1>2 DEF ParseRecord
  <2>2. got.index = Len(records) /\ got.description = parsePayload(got.type, got.raw)
    BY DEF Parsed
  <2> HIDE DEF got
  <2>3. /\ Len(records) \in Nat /\ Len(records') = Len(records) + 1
        /\ records'[Len(records) + 1] = got
        /\ \A i \in 1..Len(records) : records'[i] = records[i]
        /\ Walking'
    BY <1>1, <2>1, <2>2, OneMore
  <2>4. DOMAIN records = 1..Len(records) /\ DOMAIN records' = 1..Len(records')
    BY <1>1, <2>3, LenProperties DEF Walking
  <2>5. ASSUME NEW i \in DOMAIN records'
        PROVE  records'[i].description = parsePayload(records'[i].type, records'[i].raw)
    <3>1. i \in 1..Len(records) \/ i = Len(records) + 1
      BY <2>3, <2>4
    <3>2. CASE i \in 1..Len(records)
      <4>1. records'[i] = records[i] /\ i \in DOMAIN records
        BY <2>3, <2>4, <3>2
      <4> QED
        BY <4>1 DEF Describing
    <3>3. CASE i = Len(records) + 1
      BY <2>2, <2>3, <3>3
    <3> QED
      BY <3>1, <3>2, <3>3
  <2> QED
    BY <2>5 DEF Describing
<1>3. CASE EndOfInput \/ UNCHANGED vars
  <2>1. records' = records
    BY <1>3 DEF EndOfInput, vars
  <2> QED
    BY <2>1 DEF Describing
<1> QED
  BY <1>2, <1>3 DEF Next

(* A record that is wholly in the capture is read as it was sent.          *)
LEMMA WholeAsSent ==
  ASSUME AllFit, WalkInv, NEW i \in DOMAIN records, i <= Whole
  PROVE  AsSent(i) /\ sent[i] \in Samples
<1> DEFINE n == Len(sent)
<1>1. Captured /\ Walking /\ (InStep \/ PaddedLast) /\ Sending
  BY DEF WalkInv, Captured
<1>2. n \in Nat /\ n > 0
  BY <1>1, SentType
<1>3. Len(records) \in Nat /\ i \in 1..Len(records)
  BY <1>1, LenProperties DEF Walking
<1>4. Len(records) <= n
  BY <1>1, <1>2, <1>3 DEF InStep, PaddedLast
<1>5. Whole = IF Missing = << >> THEN n ELSE n - 1
  BY <1>1, WholeIs
<1>6. sent[i] \in Samples
  <2>1. i \in 1..n
    BY <1>2, <1>3, <1>4
  <2> QED
    BY <1>1, <2>1, ElementOfSeq DEF Sending
<1>7. CASE InStep
  BY <1>3, <1>6, <1>7 DEF InStep
<1>8. CASE PaddedLast
  <2>1. Missing # << >> /\ \A j \in 1..n - 1 : AsSent(j)
    BY <1>8 DEF PaddedLast
  <2>2. i \in 1..n - 1
    BY <1>2, <1>3, <1>5, <2>1
  <2> QED
    BY <1>6, <2>1, <2>2
<1> QED
  BY <1>1, <1>7, <1>8

(* Whatever messages a capture is made of, if each of them on its own is   *)
(* described as its writer wrote it then so is every one that is wholly in *)
(* the capture, whatever comes before and after it (ParseRecords and       *)
(* parsePayload, mmtls/parser.go).                                         *)
THEOREM DescribedWhole ==
  ASSUME AllFit, \A s \in Samples : Shown(s)
  PROVE  Spec => []DescribedAsWritten
<1> DEFINE IInv == WalkInv /\ Describing
<1>1. Init => IInv
  <2>1. Init => WalkInv
    BY InitWalk
  <2>2. Init => Describing
    BY DEF Init, Describing
  <2> QED
    BY <2>1, <2>2
<1>2. IInv /\ [Next]_vars => IInv'
  <2>1. WalkInv /\ [Next]_vars => WalkInv'
    BY ParseStep, EndStep DEF Next
  <2> QED
    BY <2>1, DescribeStep
<1>3. IInv => DescribedAsWritten
  <2> SUFFICES ASSUME WalkInv, Describing, NEW i \in DOMAIN records, i <= Whole
               PROVE  Shows(records[i].description, sent[i])
    BY DEF DescribedAsWritten
  <2>1. AsSent(i) /\ sent[i] \in Samples
    BY WholeAsSent
  <2>2. Shows(parsePayload(sent[i].record.type, sent[i].record.data), sent[i])
    BY <2>1 DEF Shown
  <2>3. records[i].description = parsePayload(records[i].type, records[i].raw)
    BY DEF Describing
  <2> QED
    BY <2>1, <2>2, <2>3 DEF AsSent
<1> QED
  BY <1>1, <1>2, <1>3, PTL DEF Spec

(* Of any capture of such messages, with any values and in any order, cut  *)
(* off anywhere, the parser describes each that is wholly in it as its     *)
(* writer wrote it: under its name, with all of its values in their order  *)
(* and nothing else under their names (parsePayload and what it calls,     *)
(* mmtls/parser.go).                                                       *)
THEOREM MessagesDescribed ==
  ASSUME AllFit, \A s \in Samples : WrittenMessage(s)
  PROVE  Spec => []DescribedAsWritten
<1>1. \A s \in Samples : Fits(s.record)
  BY DEF AllFit
<1>2. \A s \in Samples : Shown(s)
  BY <1>1, MessageShown
<1> QED
  BY <1>2, DescribedWhole

=============================================================================
