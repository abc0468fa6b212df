---------------------------- MODULE ParserProofs -----------------------------
(***************************************************************************)
(* Proofs about records as bytes: when a record survives being written,    *)
(* what is read of one that is followed by others or cut off, and that the *)
(* parser prints the records of a capture as they were sent.               *)
(***************************************************************************)
EXTENDS Parser, SessionFileProofs

(* The number of values of two bytes.                                      *)
LEMMA Width == Base * Base \in Nat /\ Base * Base > 0
BY BaseAssumption

(* Arithmetic of uint16: what fits is kept, the rest wraps.                *)
LEMMA U16Fits ==
  ASSUME NEW n \in Nat
  PROVE  /\ U16(n) \in Nat
         /\ U16(n) < Base * Base
         /\ n < Base * Base => U16(n) = n
<1> DEFINE W == Base * Base
<1>1. W \in Nat /\ W > 0
  BY Width
<1> HIDE DEF W
<1>2. n % W \in Nat /\ n % W < W /\ (n < W => n % W = n)
  BY <1>1
<1> QED
  BY <1>2 DEF U16, W

(* A buffer whose length has wrapped is too short for its header.          *)
LEMMA BufferShort ==
  ASSUME NEW m \in Nat, m < Base * Base, m + HeaderLen >= Base * Base
  PROVE  U16(m + HeaderLen) < HeaderLen
<1> DEFINE W == Base * Base
<1>1. W \in Nat /\ W > 0
  BY Width
<1> HIDE DEF W
<1>2. ASSUME NEW k \in Nat, k < W, k + 5 >= W, W > 5
      PROVE  (k + 5) % W < 5
  BY <1>1, <1>2
<1>3. (m + 5) % W < W
  BY <1>1
<1>4. (m + 5) % W < 5
  BY <1>1, <1>2, <1>3 DEF HeaderLen, W
<1> QED
  BY <1>4 DEF U16, HeaderLen, W

-----------------------------------------------------------------------------
(* A record made by createRecord, in the clear or by encrypt: whatever its *)
(* payload, serialize writes all of it exactly when header and payload     *)
(* together have a length of 16 bits; one that does not fit makes it panic *)
(* or loses bytes without an error.                                        *)
THEOREM WholeIffFits ==
  ASSUME NEW S, NEW type, NEW data \in Seq(S)
  PROVE  LET rec == createRecord(type, data)
         IN  (~SerializePanics(rec) /\ Payload(rec) = data)
               <=> Len(data) + HeaderLen < Base * Base
<1> DEFINE n   == Len(data)
           m   == U16(n)
           rec == createRecord(type, data)
<1>1. n \in Nat
  BY LenProperties
<1>2. m \in Nat /\ m < Base * Base /\ (n < Base * Base => m = n)
  BY <1>1, U16Fits
<1>3. /\ BufferLen(rec) = U16(m + HeaderLen)
      /\ Payload(rec) = First(BufferLen(rec) - HeaderLen, data)
  BY DEF createRecord, BufferLen, Payload
<1>4. HeaderLen = 5
  BY DEF HeaderLen
<1>5. CASE m + HeaderLen >= Base * Base
  <2>1. SerializePanics(rec)
    BY <1>2, <1>3, <1>5, BufferShort DEF SerializePanics
  <2>2. ~(n + HeaderLen < Base * Base)
    BY <1>1, <1>2, <1>4, <1>5, Width
  <2> QED
    BY <2>1, <2>2
<1>6. CASE m + HeaderLen < Base * Base
  <2>1. BufferLen(rec) = m + HeaderLen
    BY <1>2, <1>3, <1>4, <1>6, U16Fits
  <2>2. ~SerializePanics(rec)
    BY <1>2, <1>4, <2>1 DEF SerializePanics
  <2>3. Payload(rec) = SubSeq(data, 1, m)
    BY <1>2, <1>3, <1>4, <2>1 DEF First
  <2>4. CASE n < Base * Base
    <3>1. Payload(rec) = data
      BY <1>2, <2>3, <2>4, SubSeqFull
    <3> QED
      BY <1>2, <1>6, <2>2, <2>4, <3>1
  <2>5. CASE n >= Base * Base
    <3>1. m <= n
      BY <1>1, <1>2, <2>5, Width
    <3>2. Len(SubSeq(data, 1, m)) = m
      BY <1>1, <1>2, <3>1, SubSeqProperties
    <3>3. Payload(rec) # data
      BY <1>1, <1>2, <2>3, <2>5, <3>2, Width
    <3> QED
      BY <1>1, <1>4, <2>5, <3>3, Width
  <2> QED
    BY <1>1, <2>4, <2>5, Width
<1> QED
  BY <1>1, <1>2, <1>4, <1>5, <1>6, Width

(* The same of a sealed record, 16 bytes longer than its payload: the      *)
(* request in the early data of packHttp, or a Noop.                       *)
THEOREM SealedWholeIffFits ==
  ASSUME NEW S, NEW type, NEW data \in Seq(S)
  PROVE  LET rec == encrypt(createRecord(type, data))
         IN  (~SerializePanics(rec) /\ Payload(rec) = rec.data)
               <=> Len(data) + TagLen + HeaderLen < Base * Base
<1> DEFINE n == Len(data) + TagLen
<1>1. n \in Nat
  BY LenProperties DEF TagLen
<1>2. Ciphertext(n) \in Seq(Nat) /\ Len(Ciphertext(n)) = n
  <2>1. Ciphertext(n) \in [1..n -> Nat]
    BY DEF Ciphertext
  <2> QED
    BY <1>1, <2>1
<1>3. encrypt(createRecord(type, data)) = createRecord(type, Ciphertext(n))
  BY DEF encrypt, createRecord
<1>4. createRecord(type, Ciphertext(n)).data = Ciphertext(n)
  BY DEF createRecord
<1> QED
  BY <1>2, <1>3, <1>4, WholeIffFits

-----------------------------------------------------------------------------
(* A record read back.                                                     *)

(* A record that fits is its header, field by field, and its payload.      *)
LEMMA SerializedIs ==
  ASSUME NEW rec, Fits(rec)
  PROVE  /\ rec.type \in Byte /\ rec.data \in Str /\ Len(rec.data) \in Nat
         /\ Len(rec.data) < Limit2
         /\ serialize(rec) = ((<<rec.type>> \o BigEndian(ProtocolVersion, 2))
                                 \o BigEndian(Len(rec.data), 2)) \o rec.data
         /\ serialize(rec) \in Str
         /\ Len(serialize(rec)) = Len(rec.data) + HeaderLen
<1> DEFINE type == rec.type
           data == rec.data
           one  == <<type>>
           two  == BigEndian(ProtocolVersion, 2)
           len  == BigEndian(Len(data), 2)
<1>1. /\ rec = createRecord(type, data)
      /\ type \in Byte /\ data \in Str /\ data \in Seq(Byte)
      /\ Len(data) + HeaderLen < Base * Base
  BY DEF Fits, Str
<1>2. HeaderLen = 5 /\ Len(data) \in Nat
  BY <1>1, OnlyEmpty DEF HeaderLen
<1>3. Len(data) < Base * Base /\ Len(data) < Limit2
  <2>1. Base * Base = 65536
    BY ByteAssumption
  <2> QED
    BY <1>1, <1>2, <2>1, SMT DEF Limit2
<1>4. rec.version = ProtocolVersion /\ rec.length = Len(data)
  <2>1. rec.version = ProtocolVersion /\ rec.length = U16(Len(data))
    BY <1>1 DEF createRecord
  <2> QED
    BY <1>2, <1>3, <2>1, U16Fits
<1>5. Payload(rec) = data
  BY <1>1, WholeIffFits
<1>6. one \in Str /\ Len(one) = 1
  BY <1>1 DEF Str
<1>7. two \in Str /\ Len(two) = 2
  <2>1. ProtocolVersion \in Nat
    BY DEF ProtocolVersion
  <2> QED
    BY <2>1, BigEndianType DEF Of
<1>8. len \in Str /\ Len(len) = 2
  BY <1>2, BigEndianType DEF Of
<1>9. serialize(rec) = ((one \o two) \o len) \o data
  BY <1>4, <1>5 DEF serialize, Header
<1> HIDE DEF one, two, len, data
<1>10. one \o two \in Str /\ Len(one \o two) = Len(one) + Len(two)
  BY <1>6, <1>7, JoinStr
<1>11. /\ (one \o two) \o len \in Str
       /\ Len((one \o two) \o len) = Len(one \o two) + Len(len)
  BY <1>8, <1>10, JoinStr
<1>12. /\ ((one \o two) \o len) \o data \in Str
       /\ Len(((one \o two) \o len) \o data) = Len((one \o two) \o len) + Len(data)
  BY <1>1, <1>11, JoinStr
<1>13. serialize(rec) \in Str /\ Len(serialize(rec)) = Len(data) + HeaderLen
  BY <1>2, <1>6, <1>7, <1>8, <1>9, <1>10, <1>11, <1>12
<1> QED
  BY <1>1, <1>2, <1>3, <1>9, <1>13 DEF one, two, len, data

LEMMA RecordFieldsAre ==
  /\ RecordFields \in Seq(Fields) /\ Len(RecordFields) = 3
  /\ RecordFields[1] = Field("type", "number", 1)
  /\ RecordFields[2] = Field("version", "number", 2)
  /\ RecordFields[3] = Field("data", "data", 2)
<1>1. /\ Field("type", "number", 1) \in Fields
      /\ Field("version", "number", 2) \in Fields
      /\ Field("data", "data", 2) \in Fields
  BY DEF Field, Fields, Names, RecordNames, Hows
<1> QED
  BY <1>1 DEF RecordFields

(* The three reads of readRecord, and what they give.                      *)
LEMMA RecordScan ==
  ASSUME NEW p \in Str
  PROVE  LET a == ReadFull(1, p)
             b == ReadFull(2, a.rest)
             c == Prefixed(2, Read, b.rest)
             r == readRecord(p)
         IN  /\ a.err => r.err
             /\ ~ a.err /\ b.err => r.err
             /\ ~ a.err /\ ~ b.err /\ c.err => r.err
             /\ ~ a.err /\ ~ b.err /\ ~ c.err =>
                  /\ ~ r.err /\ r.rest = c.rest
                  /\ Value(r, "type") = a.val /\ Value(r, "data") = c.val
<1> DEFINE a == ReadFull(1, p)
           b == ReadFull(2, a.rest)
           c == Prefixed(2, Read, b.rest)
           g == Scanned(RecordFields, Reader(p))
           got(i) == ReadAt(RecordFields, Reader(p), i)
<1>1. /\ g \in [0..3 -> Readers] /\ g[0] = Reader(p)
      /\ readRecord(p) = g[3]
  <2>1. Reader(p) \in Readers
    BY ReaderType
  <2> HIDE DEF g
  <2> QED
    BY <2>1, ScanSteps, RecordFieldsAre DEF g, readRecord
<1>2. ASSUME NEW i \in 1..3
      PROVE  /\ g[i - 1].err => g[i].err
             /\ ~ g[i - 1].err => g[i].err = got(i).err /\ g[i].rest = got(i).rest
             /\ got(i) = ReadField(RecordFields[i], g[i - 1].rest)
  <2>1. i \in 1..Len(RecordFields)
    BY RecordFieldsAre
  <2>2. RecordFields \in Seq(Fields)
    BY RecordFieldsAre
  <2> QED
    BY <2>1, <2>2, ScanStepOf DEF ReadAt
<1>3. ~ g[3].err => ScannedTo(RecordFields, p, 3)
  BY RecordFieldsAre, ScanOut
<1>4. /\ RecordFields[1].name = "type" /\ RecordFields[2].name = "version"
      /\ RecordFields[3].name = "data"
      /\ \A q : /\ ReadField(RecordFields[1], q) = ReadFull(1, q)
                /\ ReadField(RecordFields[2], q) = ReadFull(2, q)
                /\ ReadField(RecordFields[3], q) = Prefixed(2, Read, q)
  <2>1. /\ RecordFields[1] \in Fields /\ RecordFields[2] \in Fields
        /\ RecordFields[3] \in Fields
    <3>1. 1 \in 1..3 /\ 2 \in 1..3 /\ 3 \in 1..3
      OBVIOUS
    <3> QED
      BY <3>1, RecordFieldsAre, ElementOfSeq
  <2> QED
    BY <2>1, RecordFieldsAre, FieldRead DEF Field
<1>5. g[0].err = FALSE /\ g[0].rest = p
  BY <1>1 DEF Reader
<1> HIDE DEF g, got, a, b, c
<1>6. got(1) = a /\ g[1].err = a.err /\ g[1].rest = a.rest
  <2>1. got(1) = ReadField(RecordFields[1], g[0].rest)
    BY <1>2
  <2>2. got(1) = a
    BY <1>4, <1>5, <2>1 DEF a
  <2>3. g[1].err = got(1).err /\ g[1].rest = got(1).rest
    BY <1>2, <1>5
  <2> QED
    BY <2>2, <2>3
<1>7. ASSUME a.err PROVE g[3].err
  <2>1. g[1].err
    BY <1>6, <1>7
  <2>2. g[2].err
    BY <1>2, <2>1
  <2> QED
    BY <1>2, <2>2
<1>8. ASSUME ~ a.err PROVE got(2) = b /\ g[2].err = b.err /\ g[2].rest = b.rest
  <2>1. got(2) = ReadField(RecordFields[2], g[1].rest) /\ ~ g[1].err
    BY <1>2, <1>6, <1>8
  <2>2. got(2) = b
    BY <1>4, <1>6, <2>1 DEF b
  <2>3. g[2].err = got(2).err /\ g[2].rest = got(2).rest
    BY <1>2, <2>1
  <2> QED
    BY <2>2, <2>3
<1>9. ASSUME ~ a.err, b.err PROVE g[3].err
  <2>1. g[2].err
    BY <1>8, <1>9
  <2> QED
    BY <1>2, <2>1
<1>10. ASSUME ~ a.err, ~ b.err
       PROVE  got(3) = c /\ g[3].err = c.err /\ g[3].rest = c.rest
  <2>1. got(3) = ReadField(RecordFields[3], g[2].rest) /\ ~ g[2].err
    BY <1>2, <1>8, <1>10
  <2>2. got(3) = c
    BY <1>4, <1>8, <1>10, <2>1 DEF c
  <2>3. g[3].err = got(3).err /\ g[3].rest = got(3).rest
    BY <1>2, <2>1
  <2> QED
    BY <2>2, <2>3
<1>11. ASSUME ~ a.err, ~ b.err, ~ c.err
       PROVE  Value(g[3], "type") = a.val /\ Value(g[3], "data") = c.val
  <2>1. ~ g[3].err
    BY <1>10, <1>11
  <2>2. /\ Len(g[3].out) = 3
        /\ \A j \in 1..3 : g[3].out[j] = <<RecordFields[j].name, got(j).val>>
    BY <1>3, <2>1 DEF ScannedTo, g, got
  <2>3. /\ g[3].out[1][1] = "type" /\ g[3].out[2][1] = "version"
        /\ g[3].out[3][1] = "data"
        /\ g[3].out[1][2] = a.val /\ g[3].out[3][2] = c.val
    BY <1>4, <1>6, <1>10, <1>11, <2>2
  <2>4. 1..3 = {1, 2, 3}
    OBVIOUS
  <2>5. ASSUME NEW k \in {1, 3} PROVE Value(g[3], g[3].out[k][1]) = g[3].out[k][2]
    <3>1. /\ k \in 1..Len(g[3].out) /\ Len(g[3].out) \in Nat
          /\ \A i \in 1..Len(g[3].out) : g[3].out[i][1] = g[3].out[k][1] => i = k
      BY <2>2, <2>3, <2>4
    <3> QED
      BY <3>1, ValueOf
  <2> QED
    BY <2>3, <2>5
<1> QED
  BY <1>1, <1>7, <1>9, <1>10, <1>11 DEF a, b, c

(* What a read of a given width leaves.                                    *)
LEMMA ReadFullRest ==
  ASSUME NEW n \in Nat, NEW p \in Str, n <= Len(p)
  PROVE  Len(ReadFull(n, p).rest) = Len(p) - n
<1>1. Len(p) \in Nat /\ n \in 0..Len(p)
  BY OnlyEmpty
<1>2. Len(After(n, p)) = Len(p) - n
  BY <1>1, CutSequence DEF Str
<1>3. ~ (Len(p) < n)
  BY <1>1
<1> QED
  BY <1>2, <1>3 DEF ReadFull, Got

(* A read of so many bytes that does not start at the end of the input: it *)
(* takes them, if they are there, or what there is of them and zeros.      *)
LEMMA ReadTaken ==
  ASSUME NEW a \in Str, NEW b \in Str, NEW p, NEW q, Begins(p, q, a \o b),
         p # << >>, Len(a) <= Len(p)
  PROVE  Read(Len(a), p).val = a /\ Begins(Read(Len(a), p).rest, q, b)
<1>1. Len(a) \in Nat /\ Len(p) \in Nat
  BY OnlyEmpty DEF Begins
<1>2. First(Len(a), p) = a /\ Begins(After(Len(a), p), q, b)
  BY TakeWhole
<1>3. Zeros(0) = << >> /\ a \o << >> = a
  <2>1. Zeros(0) \in Str /\ Len(Zeros(0)) = 0
    BY ZerosType DEF Of
  <2> QED
    BY <2>1, OnlyEmpty, ConcatEmptySeq DEF Str
<1>4. Read(Len(a), p) = Got(First(Len(a), p) \o Zeros(0), After(Len(a), p))
  <2>1. (IF Len(a) < Len(p) THEN Len(a) ELSE Len(p)) = Len(a) /\ Len(a) - Len(a) = 0
    BY <1>1
  <2> QED
    BY <2>1 DEF Read
<1>5. Read(Len(a), p) = Got(a, After(Len(a), p))
  BY <1>2, <1>3, <1>4
<1> QED
  BY <1>2, <1>5 DEF Got

LEMMA ReadPadded ==
  ASSUME NEW a \in Str, NEW b \in Str, NEW p, NEW q, Begins(p, q, a \o b),
         p # << >>, Len(p) < Len(a)
  PROVE  /\ Read(Len(a), p).val = First(Len(p), a) \o Zeros(Len(a) - Len(p))
         /\ Read(Len(a), p).rest = << >>
<1>1. Len(a) \in Nat /\ Len(p) \in Nat /\ p \in Str /\ q \in Str /\ p \o q = a \o b
  BY OnlyEmpty DEF Begins
<1>2. First(Len(p), p) = p /\ After(Len(p), p) = << >>
  <2>1. p \o << >> = p
    BY <1>1, ConcatEmptySeq DEF Str
  <2>2. First(Len(p), p \o << >>) = p /\ After(Len(p), p \o << >>) = << >>
    BY <1>1, EmptyStr, SplitWhole DEF Str
  <2> QED
    BY <2>1, <2>2
<1>3. First(Len(p), a) = p
  <2>1. Begins(a, b, p \o q) /\ Len(p) <= Len(a)
    BY <1>1 DEF Begins
  <2> QED
    BY <1>1, <2>1, TakeWhole
<1>4. Read(Len(a), p)
        = Got(First(Len(p), p) \o Zeros(Len(a) - Len(p)), After(Len(p), p))
  <2>1. (IF Len(a) < Len(p) THEN Len(a) ELSE Len(p)) = Len(p)
    BY <1>1
  <2> QED
    BY <2>1 DEF Read
<1> QED
  BY <1>2, <1>3, <1>4 DEF Got

(* What is read of a record that fits, with b behind it and q cut off the  *)
(* end of both: nothing, if there is no more than a header; else its type, *)
(* and its payload, with zeros for what is missing of it.                  *)
LEMMA RecordRead ==
  ASSUME NEW rec, Fits(rec), NEW b \in Str, NEW p, NEW q,
         Begins(p, q, serialize(rec) \o b)
  PROVE  LET r == readRecord(p)
             n == Len(p) - HeaderLen
         IN  /\ n <= 0 => r.err
             /\ n > 0 => ~ r.err /\ NumberIn(r, "type") = rec.type
             /\ n > 0 /\ Len(rec.data) <= n =>
                  Value(r, "data") = rec.data /\ Begins(r.rest, q, b)
             /\ n > 0 /\ n < Len(rec.data) =>
                  /\ Value(r, "data") = First(n, rec.data) \o Zeros(Len(rec.data) - n)
                  /\ r.rest = << >>
<1> DEFINE data == rec.data
           one  == <<rec.type>>
           two  == BigEndian(ProtocolVersion, 2)
           len  == BigEndian(Len(data), 2)
           r1   == ReadFull(1, p)
           r2   == ReadFull(2, r1.rest)
           r3   == ReadFull(2, r2.rest)
           r4   == Read(Len(data), r3.rest)
           r    == readRecord(p)
<1>1. /\ rec.type \in Byte /\ data \in Str /\ Len(data) \in Nat
      /\ Len(data) < Limit2
      /\ serialize(rec) = ((one \o two) \o len) \o data
  BY SerializedIs
<1>2. /\ p \in Str /\ Len(p) \in Nat /\ HeaderLen = 5
  BY OnlyEmpty DEF Begins, HeaderLen
<1>3. one \in Str /\ Len(one) = 1 /\ Number(one) = rec.type
  <2>1. one \in Str /\ Len(one) = 1 /\ one[1] = rec.type
    BY <1>1 DEF Str
  <2> QED
    BY <2>1, NumberValues
<1>4. two \in Str /\ Len(two) = 2
  <2>1. ProtocolVersion \in Nat
    BY DEF ProtocolVersion
  <2> QED
    BY <2>1, BigEndianType DEF Of
<1>5. len \in Str /\ Len(len) = 2 /\ Number(len) = Len(data)
  BY <1>1, BigEndianType, NumberOfBigEndian DEF Of
<1> HIDE DEF one, two, len, data
<1> DEFINE d3 == data \o b
           d2 == len \o d3
           d1 == two \o d2
<1>6. d3 \in Str /\ d2 \in Str /\ d1 \in Str
  BY <1>1, <1>4, <1>5, JoinStr
<1>7. serialize(rec) \o b = one \o d1
  <2> DEFINE lead == one \o two
             head == lead \o len
  <2>1. lead \in Str
    BY <1>3, <1>4, JoinStr
  <2>2. head \in Str
    <3> HIDE DEF lead
    <3> QED
      BY <1>5, <2>1, JoinStr
  <2>3. (head \o data) \o b = head \o d3
    <3> HIDE DEF head
    <3> QED
      BY <1>1, <2>2, Regroup
  <2>4. head \o d3 = lead \o d2
    <3> HIDE DEF lead, d3
    <3> QED
      BY <1>5, <1>6, <2>1, Regroup
  <2>5. lead \o d2 = one \o d1
    <3>1. d2 \in Str
      BY <1>6
    <3> HIDE DEF d2, d3
    <3> QED
      BY <1>3, <1>4, <3>1, Regroup
  <2>6. serialize(rec) \o b = (head \o data) \o b
    BY <1>1
  <2> HIDE DEF lead, head, d1, d2, d3
  <2> QED
    BY <2>3, <2>4, <2>5, <2>6
<1>8. Begins(p, q, one \o d1)
  BY <1>7
<1> HIDE DEF d1, d2, d3
<1>9. /\ 1 <= Len(p) => Taken(r1, one, d1, q) /\ Len(r1.rest) = Len(p) - 1
      /\ Len(p) < 1 => r1.err
  <2>1. /\ Len(one) <= Len(p) => Taken(ReadFull(Len(one), p), one, d1, q)
        /\ Len(p) < Len(one) => ReadFull(Len(one), p).err
    BY <1>3, <1>6, <1>8, ReadFullOf
  <2> QED
    BY <1>2, <1>3, <2>1, ReadFullRest
<1> HIDE DEF r1
<1>10. ASSUME 1 <= Len(p)
       PROVE  /\ ~ r1.err /\ Number(r1.val) = rec.type
              /\ 3 <= Len(p) => Taken(r2, two, d2, q) /\ Len(r2.rest) = Len(p) - 3
              /\ Len(p) < 3 => r2.err
  <2>1. ~ r1.err /\ r1.val = one /\ Begins(r1.rest, q, d1) /\ Len(r1.rest) = Len(p) - 1
    BY <1>9, <1>10 DEF Taken
  <2>2. Begins(r1.rest, q, two \o d2)
    BY <2>1 DEF d1
  <2>3. /\ Len(two) <= Len(r1.rest) => Taken(ReadFull(Len(two), r1.rest), two, d2, q)
        /\ Len(r1.rest) < Len(two) => ReadFull(Len(two), r1.rest).err
    BY <1>4, <1>6, <2>2, ReadFullOf
  <2>4. /\ 2 <= Len(r1.rest) => Taken(r2, two, d2, q) /\ Len(r2.rest) = Len(r1.rest) - 2
        /\ Len(r1.rest) < 2 => r2.err
    <3>1. r1.rest \in Str
      BY <2>1 DEF Begins
    <3> QED
      BY <1>4, <2>3, <3>1, ReadFullRest
  <2> HIDE DEF r2
  <2> QED
    BY <1>2, <1>3, <2>1, <2>4
<1> HIDE DEF r2
<1>11. ASSUME 3 <= Len(p)
       PROVE  /\ ~ r2.err
              /\ HeaderLen <= Len(p) =>
                   /\ ~ r3.err /\ Number(r3.val) = Len(data)
                   /\ Begins(r3.rest, q, d3)
                   /\ Len(r3.rest) = Len(p) - HeaderLen
              /\ Len(p) < HeaderLen => r3.err
  <2>1. ~ r2.err /\ Begins(r2.rest, q, d2) /\ Len(r2.rest) = Len(p) - 3
    <3>1. 1 <= Len(p)
      BY <1>2, <1>11
    <3> QED
      BY <1>10, <1>11, <3>1 DEF Taken
  <2>2. Begins(r2.rest, q, len \o d3)
    BY <2>1 DEF d2
  <2>3. /\ Len(len) <= Len(r2.rest) => Taken(ReadFull(Len(len), r2.rest), len, d3, q)
        /\ Len(r2.rest) < Len(len) => ReadFull(Len(len), r2.rest).err
    BY <1>5, <1>6, <2>2, ReadFullOf
  <2>4. /\ 2 <= Len(r2.rest) => Taken(r3, len, d3, q) /\ Len(r3.rest) = Len(r2.rest) - 2
        /\ Len(r2.rest) < 2 => r3.err
    <3>1. r2.rest \in Str
      BY <2>1 DEF Begins
    <3> QED
      BY <1>5, <2>3, <3>1, ReadFullRest
  <2> HIDE DEF r3
  <2>5. /\ HeaderLen <= Len(p) => Taken(r3, len, d3, q) /\ Len(r3.rest) = Len(p) - HeaderLen
        /\ Len(p) < HeaderLen => r3.err
    BY <1>2, <2>1, <2>4
  <2> QED
    BY <1>5, <2>1, <2>5 DEF Taken
<1> HIDE DEF r3
<1>12. /\ r3.err => Prefixed(2, Read, r2.rest) = r3
       /\ ~ r3.err => Prefixed(2, Read, r2.rest) = Read(Number(r3.val), r3.rest)
  BY PrefixedRead DEF r3
<1> DEFINE c == Prefixed(2, Read, r2.rest)
<1>13. /\ r1.err => r.err
       /\ ~ r1.err /\ r2.err => r.err
       /\ ~ r1.err /\ ~ r2.err /\ c.err => r.err
       /\ ~ r1.err /\ ~ r2.err /\ ~ c.err =>
            /\ ~ r.err /\ r.rest = c.rest
            /\ Value(r, "type") = r1.val /\ Value(r, "data") = c.val
  BY <1>2, RecordScan DEF r1, r2
<1> HIDE DEF r, c
<1>14. ASSUME Len(p) < HeaderLen PROVE r.err
  <2>1. CASE Len(p) < 1
    BY <1>9, <1>13, <2>1
  <2>2. CASE 1 <= Len(p) /\ Len(p) < 3
    BY <1>10, <1>13, <2>2
  <2>3. CASE 3 <= Len(p)
    <3>1. c = r3 /\ r3.err
      BY <1>11, <1>12, <1>14, <2>3 DEF c
    <3>2. ~ r1.err /\ ~ r2.err
      BY <1>2, <1>10, <1>11, <2>3
    <3> QED
      BY <1>13, <3>1, <3>2
  <2> QED
    BY <1>2, <2>1, <2>2, <2>3
<1>15. ASSUME HeaderLen <= Len(p)
       PROVE  /\ ~ r1.err /\ Number(r1.val) = rec.type /\ ~ r2.err
              /\ c = r4
              /\ Begins(r3.rest, q, data \o b) /\ r3.rest \in Str
              /\ Len(r3.rest) = Len(p) - HeaderLen
  <2>1. 1 <= Len(p) /\ 3 <= Len(p)
    BY <1>2, <1>15
  <2>2. ~ r3.err /\ Number(r3.val) = Len(data)
    BY <1>11, <1>15, <2>1
  <2> QED
    BY <1>10, <1>11, <1>12, <1>15, <2>1, <2>2 DEF c, d3, Begins
<1>16. ASSUME Len(p) = HeaderLen PROVE r.err
  <2>1. HeaderLen <= Len(p) /\ Len(r3.rest) = 0 /\ r3.rest \in Str
    BY <1>2, <1>15, <1>16
  <2>2. r3.rest = << >>
    BY <2>1, OnlyEmpty
  <2>3. r4.err
    BY <2>2 DEF Read, Failed
  <2> QED
    BY <1>13, <1>15, <2>1, <2>3
<1>17. ASSUME HeaderLen < Len(p)
       PROVE  /\ ~ r4.err
              /\ Len(data) <= Len(p) - HeaderLen => r4.val = data /\ Begins(r4.rest, q, b)
              /\ Len(p) - HeaderLen < Len(data) =>
                   /\ r4.val = First(Len(p) - HeaderLen, data)
                                  \o Zeros(Len(data) - (Len(p) - HeaderLen))
                   /\ r4.rest = << >>
  <2> DEFINE d == r3.rest
  <2>1. /\ HeaderLen <= Len(p) /\ d \in Str /\ Begins(d, q, data \o b)
        /\ Len(d) = Len(p) - HeaderLen /\ Len(d) \in Nat /\ Len(d) # 0
    BY <1>2, <1>15, <1>17
  <2> HIDE DEF d
  <2>2. d # << >>
    BY <2>1, OnlyEmpty
  <2>3. ~ Read(Len(data), d).err
    BY <2>2 DEF Read, Got
  <2>4. ASSUME Len(data) <= Len(d)
        PROVE  Read(Len(data), d).val = data /\ Begins(Read(Len(data), d).rest, q, b)
    BY <1>1, <2>1, <2>2, <2>4, ReadTaken
  <2>5. ASSUME Len(d) < Len(data)
        PROVE  /\ Read(Len(data), d).val = First(Len(d), data) \o Zeros(Len(data) - Len(d))
               /\ Read(Len(data), d).rest = << >>
    BY <1>1, <2>1, <2>2, <2>5, ReadPadded
  <2> QED
    BY <2>1, <2>3, <2>4, <2>5 DEF d
<1> DEFINE n == Len(p) - HeaderLen
<1>18. n <= 0 => r.err
  <2>1. \A x \in Nat : x - 5 <= 0 => x < 5 \/ x = 5
    BY SMT
  <2>2. n <= 0 => Len(p) < HeaderLen \/ Len(p) = HeaderLen
    BY <1>2, <2>1
  <2> QED
    BY <1>14, <1>16, <2>2
<1>19. ASSUME n > 0
       PROVE  /\ ~ r.err /\ r.rest = r4.rest
              /\ NumberIn(r, "type") = rec.type /\ Value(r, "data") = r4.val
  <2>1. HeaderLen < Len(p) /\ HeaderLen <= Len(p)
    BY <1>2, <1>19
  <2>2. ~ r1.err /\ ~ r2.err /\ ~ c.err /\ c = r4 /\ Number(r1.val) = rec.type
    BY <1>15, <1>17, <2>1
  <2> HIDE DEF r4, n
  <2> QED
    BY <1>13, <2>2 DEF NumberIn
<1>20. n > 0 => HeaderLen < Len(p)
  BY <1>2
<1> HIDE DEF r4
<1>21. n > 0 => ~ r.err /\ NumberIn(r, "type") = rec.type
  BY <1>19
<1>22. n > 0 /\ Len(data) <= n => Value(r, "data") = data /\ Begins(r.rest, q, b)
  BY <1>17, <1>19, <1>20
<1>23. n > 0 /\ n < Len(data) =>
         /\ Value(r, "data") = First(n, data) \o Zeros(Len(data) - n)
         /\ r.rest = << >>
  BY <1>17, <1>19, <1>20
<1> QED
  BY <1>18, <1>21, <1>22, <1>23 DEF r, data

-----------------------------------------------------------------------------
(* A capture.                                                              *)

(* What has been joined of strings is what the first of them join to.      *)
LEMMA JoinedFirst ==
  ASSUME NEW seqs \in Seq(Str), NEW i \in 0..Len(seqs)
  PROVE  FlattenSeq(First(i, seqs)) = Joined(seqs)[i]
<1> DEFINE s == First(i, seqs)
           f == Joined(s)
           g == Joined(seqs)
<1>1. s \in Seq(Str) /\ Len(s) = i /\ \A j \in 1..i : s[j] = seqs[j]
  BY CutSequence
<1>2. Len(seqs) \in Nat
  BY LenProperties
<1> HIDE DEF s
<1>3. /\ FlattenSeq(s) = f[i] /\ f[0] = << >>
      /\ \A j \in 1..i : f[j] = f[j - 1] \o s[j]
  BY <1>1, JoinSteps
<1>4. /\ g[0] = << >>
      /\ \A j \in 1..Len(seqs) : g[j] = g[j - 1] \o seqs[j]
  BY JoinSteps
<1> HIDE DEF f, g
<1> DEFINE T == {j \in Nat : j <= i => f[j] = g[j]}
<1>5. 0 \in T
  BY <1>3, <1>4
<1>6. ASSUME NEW j \in T PROVE j + 1 \in T
  <2> SUFFICES ASSUME j + 1 <= i PROVE f[j + 1] = g[j + 1]
    OBVIOUS
  <2>1. /\ j + 1 \in 1..i /\ j + 1 \in 1..Len(seqs) /\ (j + 1) - 1 = j
        /\ f[j] = g[j]
    BY <1>2
  <2>2. f[j + 1] = f[j] \o s[j + 1] /\ g[j + 1] = g[j] \o seqs[j + 1]
    BY <1>3, <1>4, <2>1
  <2>3. s[j + 1] = seqs[j + 1]
    BY <1>1, <2>1
  <2> QED
    BY <2>1, <2>2, <2>3
<1>7. T = Nat
  <2>1. T \in SUBSET Nat
    OBVIOUS
  <2> HIDE DEF T
  <2> QED
    BY <1>5, <1>6, <2>1, Induction
<1>8. i \in Nat /\ i <= i
  OBVIOUS
<1>9. f[i] = g[i]
  BY <1>7, <1>8
<1> QED
  BY <1>3, <1>9 DEF s, g

(* What is written of each sample, what of the capture is written after    *)
(* the i-th, and what is cut off the end of it.                            *)
Sent    == [i \in DOMAIN sent |-> serialize(sent[i].record)]
Left(i) == After(Len(Written(First(i, sent))), Written(sent))
Missing == After(Len(input), Written(sent))

AllFit  == \A s \in Samples : Fits(s.record)
Sending == sent \in Seq(Samples) /\ sent # << >>

LEMMA SentType ==
  ASSUME AllFit, Sending
  PROVE  /\ Len(sent) \in Nat /\ Len(sent) > 0
         /\ Sent \in Seq(Str) /\ Len(Sent) = Len(sent)
         /\ \A i \in 1..Len(sent) :
              /\ Fits(sent[i].record) /\ Sent[i] = serialize(sent[i].record)
              /\ Sent[i] \in Str /\ Len(Sent[i]) \in Nat
              /\ Len(Sent[i]) = Len(sent[i].record.data) + HeaderLen
<1>1. /\ Len(sent) \in Nat /\ Len(sent) > 0 /\ DOMAIN sent = 1..Len(sent)
      /\ \A i \in 1..Len(sent) : sent[i] \in Samples
  BY EmptySeq, LenProperties, ElementOfSeq DEF Sending
<1>2. ASSUME NEW i \in 1..Len(sent)
      PROVE  /\ Fits(sent[i].record) /\ Sent[i] = serialize(sent[i].record)
             /\ Sent[i] \in Str /\ Len(Sent[i]) \in Nat
             /\ Len(Sent[i]) = Len(sent[i].record.data) + HeaderLen
  <2>1. Fits(sent[i].record) /\ Sent[i] = serialize(sent[i].record)
    BY <1>1 DEF AllFit, Sent
  <2> QED
    BY <2>1, SerializedIs, OnlyEmpty
<1>3. Sent \in [1..Len(sent) -> Str]
  BY <1>1, <1>2 DEF Sent
<1>4. Sent \in Seq(Str) /\ Len(Sent) = Len(sent)
  BY <1>1, <1>3, SeqDef, LenProperties
<1> QED
  BY <1>1, <1>2, <1>4

LEMMA WrittenFirst ==
  ASSUME AllFit, Sending, NEW i \in 0..Len(sent)
  PROVE  Written(First(i, sent)) = Joined(Sent)[i]
<1> DEFINE f == First(i, sent)
           s == First(i, Sent)
<1>1. Len(f) = i /\ \A j \in 1..i : f[j] = sent[j]
  BY CutSequence DEF Sending
<1>2. /\ Sent \in Seq(Str) /\ Len(Sent) = Len(sent) /\ Len(sent) \in Nat
      /\ \A j \in 1..Len(sent) : Sent[j] = serialize(sent[j].record)
  BY SentType
<1>3. s \in Seq(Str) /\ Len(s) = i /\ \A j \in 1..i : s[j] = Sent[j]
  BY <1>2, CutSequence
<1> HIDE DEF f, s
<1>4. s = [j \in 1..i |-> s[j]]
  BY <1>3, LenProperties
<1>5. \A j \in 1..i : s[j] = serialize(f[j].record)
  BY <1>1, <1>2, <1>3
<1>6. s = [j \in 1..i |-> serialize(f[j].record)]
  BY <1>4, <1>5
<1>7. Written(f) = FlattenSeq([j \in 1..i |-> serialize(f[j].record)])
  BY <1>1 DEF Written, Concat
<1>8. FlattenSeq(s) = Joined(Sent)[i]
  BY <1>2, JoinedFirst DEF s
<1> QED
  BY <1>6, <1>7, <1>8 DEF f

LEMMA LeftIs ==
  ASSUME AllFit, Sending
  PROVE  /\ Written(sent) \in Str
         /\ \A i \in 0..Len(sent) :
              /\ Written(First(i, sent)) \in Str /\ Left(i) \in Str
              /\ Written(sent) = Written(First(i, sent)) \o Left(i)
         /\ \A i \in 1..Len(sent) : Left(i - 1) = Sent[i] \o Left(i)
<1> DEFINE n == Len(sent)
           g == Joined(Sent)
<1>1. n \in Nat /\ Sent \in Seq(Str) /\ Len(Sent) = n
  BY SentType
<1>2. /\ FlattenSeq(Sent) = g[n] /\ g \in [0..n -> Str]
      /\ \A i \in 0..n : Rest(Sent, i) \in Str /\ FlattenSeq(Sent) = g[i] \o Rest(Sent, i)
      /\ \A i \in 1..n : Rest(Sent, i - 1) = Sent[i] \o Rest(Sent, i)
  BY <1>1, JoinSteps, RestOf
<1>3. \A i \in 0..n : Written(First(i, sent)) = g[i]
  BY WrittenFirst
<1>4. First(n, sent) = sent
  BY SubSeqFull DEF First, Sending
<1>5. Written(sent) = g[n]
  BY <1>1, <1>3, <1>4
<1>6. \A i \in 0..n : Left(i) = Rest(Sent, i)
  BY <1>1, <1>3, <1>5 DEF Left, Rest
<1> HIDE DEF n, g
<1>7. \A i \in 1..n : i - 1 \in 0..n /\ i \in 0..n
  BY <1>1
<1>8. \A i \in 1..n : Left(i - 1) = Sent[i] \o Left(i)
  BY <1>2, <1>6, <1>7
<1>9. ASSUME NEW i \in 0..n
      PROVE  /\ Written(First(i, sent)) \in Str /\ Left(i) \in Str
             /\ Written(sent) = Written(First(i, sent)) \o Left(i)
  BY <1>2, <1>3, <1>5, <1>6
<1>10. Written(sent) \in Str
  BY <1>1, <1>2, <1>5
<1> QED
  BY <1>8, <1>9, <1>10 DEF n

(* How much is left after each sample.                                     *)
LEMMA LeftLens ==
  ASSUME AllFit, Sending
  PROVE  LET n == Len(sent)
         IN  /\ \A i \in 0..n :
                  /\ Len(Left(i)) \in Nat /\ Len(Written(First(i, sent))) \in Nat
                  /\ Len(Written(sent)) = Len(Written(First(i, sent))) + Len(Left(i))
             /\ \A i \in 1..n : Len(Left(i - 1)) = Len(Sent[i]) + Len(Left(i))
             /\ Left(n) = << >> /\ Len(Left(n)) = 0
             /\ \A i \in 0..n - 1 : Len(Left(n - 1)) <= Len(Left(i))
<1> DEFINE n == Len(sent)
           R(i) == Len(Left(i))
<1>1. /\ n \in Nat /\ n > 0
      /\ \A i \in 1..n : Sent[i] \in Str /\ Len(Sent[i]) \in Nat
  BY SentType
<1>2. ASSUME NEW i \in 0..n
      PROVE  /\ R(i) \in Nat /\ Len(Written(First(i, sent))) \in Nat
             /\ Len(Written(sent)) = Len(Written(First(i, sent))) + R(i)
  <2> DEFINE w == Written(First(i, sent))
  <2>1. w \in Str /\ Left(i) \in Str /\ Written(sent) = w \o Left(i)
    BY LeftIs
  <2> HIDE DEF w
  <2>2. Len(w \o Left(i)) = Len(w) + R(i)
    BY <2>1, JoinStr
  <2> QED
    BY <2>1, <2>2, OnlyEmpty DEF w
<1>3. ASSUME NEW i \in 1..n
      PROVE  R(i - 1) = Len(Sent[i]) + R(i)
  <2>1. Left(i) \in Str /\ Sent[i] \in Str /\ Left(i - 1) = Sent[i] \o Left(i)
    BY <1>1, LeftIs
  <2> QED
    BY <2>1, JoinStr
<1>4. Left(n) = << >> /\ R(n) = 0
  <2>1. First(n, sent) = sent
    BY SubSeqFull DEF First, Sending
  <2>2. n \in 0..n
    BY <1>1
  <2>3. R(n) \in Nat /\ Len(Written(sent)) \in Nat /\ Len(Written(sent)) = Len(Written(sent)) + R(n)
    BY <1>2, <2>1, <2>2
  <2>4. Left(n) \in Str
    BY <2>2, LeftIs
  <2> HIDE DEF n
  <2>5. R(n) = 0
    BY <2>3
  <2> QED
    BY <2>4, <2>5, OnlyEmpty
<1> HIDE DEF R, n
<1> DEFINE T == {m \in Nat : m <= n - 1 => R(n - 1) <= R((n - 1) - m)}
<1>5. 0 \in T
  <2>1. (n - 1) - 0 = n - 1 /\ n - 1 \in 0..n
    BY <1>1
  <2>2. R(n - 1) \in Nat
    BY <1>2, <2>1
  <2> QED
    BY <2>1, <2>2
<1>6. ASSUME NEW m \in T PROVE m + 1 \in T
  <2> SUFFICES ASSUME m + 1 <= n - 1 PROVE R(n - 1) <= R((n - 1) - (m + 1))
    OBVIOUS
  <2> DEFINE i == (n - 1) - m
  <2>1. /\ i \in 1..n /\ i \in 0..n /\ i - 1 \in 0..n /\ n - 1 \in 0..n
        /\ i - 1 = (n - 1) - (m + 1) /\ m <= n - 1
    BY <1>1
  <2>2. R(n - 1) <= R(i)
    BY <2>1
  <2> HIDE DEF i
  <2>3. R(i - 1) = Len(Sent[i]) + R(i) /\ Len(Sent[i]) \in Nat
    BY <1>1, <1>3, <2>1
  <2>4. R(i) \in Nat /\ R(n - 1) \in Nat
    BY <1>2, <2>1
  <2>5. R(n - 1) <= R(i - 1)
    BY <2>2, <2>3, <2>4
  <2> QED
    BY <2>1, <2>5
<1>7. T = Nat
  <2>1. T \in SUBSET Nat
    OBVIOUS
  <2> HIDE DEF T
  <2> QED
    BY <1>5, <1>6, <2>1, Induction
<1>8. ASSUME NEW i \in 0..n - 1 PROVE R(n - 1) <= R(i)
  <2>1. (n - 1) - i \in Nat /\ (n - 1) - i <= n - 1 /\ (n - 1) - ((n - 1) - i) = i
    BY <1>1
  <2>2. (n - 1) - i \in T
    BY <1>7, <2>1
  <2> QED
    BY <2>1, <2>2
<1> QED
  BY <1>2, <1>3, <1>4, <1>8 DEF R, n

(* A capture begins as it was written, and nothing but an end of the last  *)
(* record is missing.                                                      *)
Captured ==
  /\ Sending
  /\ Begins(input, Missing, Written(sent))
  /\ Len(Missing) <= Len(Left(Len(sent) - 1))

(* All samples are wholly in a capture, or all but the last; what remains  *)
(* begins as that one was written.                                         *)
LEMMA WholeIs ==
  ASSUME AllFit, Captured
  PROVE  /\ Whole = IF Missing = << >> THEN Len(sent) ELSE Len(sent) - 1
         /\ Begins(Remainder, Missing, Left(Whole))
<1> DEFINE n == Len(sent)
           W(i) == Written(First(i, sent))
           whole == IF Missing = << >> THEN n ELSE n - 1
           P(m) == /\ Len(W(m)) <= Len(input)
                   /\ m < n => Len(W(m + 1)) > Len(input)
<1>1. /\ Sending /\ Begins(input, Missing, Written(sent))
      /\ Len(Missing) <= Len(Left(n - 1))
  BY DEF Captured
<1>2. /\ n \in Nat /\ n > 0
  BY <1>1, SentType
<1>3. /\ Len(input) \in Nat /\ Len(Missing) \in Nat
      /\ Len(Written(sent)) = Len(input) + Len(Missing)
      /\ Len(Missing) = 0 <=> Missing = << >>
  <2>1. input \in Str /\ Missing \in Str /\ input \o Missing = Written(sent)
    BY <1>1 DEF Begins
  <2>2. Len(input \o Missing) = Len(input) + Len(Missing)
    BY <2>1, JoinStr
  <2> QED
    BY <2>1, <2>2, OnlyEmpty
<1>4. /\ \A i \in 0..n : /\ Len(Left(i)) \in Nat /\ Len(W(i)) \in Nat
                         /\ Len(Written(sent)) = Len(W(i)) + Len(Left(i))
      /\ Len(Left(n)) = 0
      /\ \A i \in 0..n - 1 : Len(Left(n - 1)) <= Len(Left(i))
  BY <1>1, LeftLens
<1> HIDE DEF n, W
<1>5. whole \in 0..n /\ P(whole)
  <2>1. CASE Missing = << >>
    <3>1. n \in 0..n /\ whole = n
      BY <1>2, <2>1
    <3>2. Len(W(n)) \in Nat /\ Len(Written(sent)) = Len(W(n)) + Len(Left(n))
      BY <1>4, <3>1
    <3>3. Len(W(n)) = Len(input)
      BY <1>3, <1>4, <2>1, <3>2
    <3> QED
      BY <1>2, <1>3, <3>1, <3>3
  <2>2. CASE Missing # << >>
    <3>1. n - 1 \in 0..n /\ n \in 0..n /\ whole = n - 1 /\ (n - 1) + 1 = n
      BY <1>2, <2>2
    <3>2. Len(W(n - 1)) <= Len(input)
      <4>1. /\ Len(Left(n - 1)) \in Nat /\ Len(W(n - 1)) \in Nat
            /\ Len(Written(sent)) = Len(W(n - 1)) + Len(Left(n - 1))
        BY <1>4, <3>1
      <4> QED
        BY <1>1, <1>3, <4>1
    <3>3. Len(W(n)) > Len(input)
      <4>1. Len(W(n)) \in Nat /\ Len(Written(sent)) = Len(W(n)) + Len(Left(n))
        BY <1>4, <3>1
      <4> QED
        BY <1>3, <1>4, <2>2, <4>1
    <3> QED
      BY <3>1, <3>2, <3>3
  <2> QED
    BY <2>1, <2>2
<1>6. ASSUME NEW m \in 0..n, P(m) PROVE m = whole
  <2>1. CASE m = n
    <3>1. Len(Missing) = 0
      BY <1>2, <1>3, <1>4, <1>6, <2>1
    <3> QED
      BY <1>3, <2>1, <3>1
  <2>2. CASE m # n
    <3>1. m < n /\ m + 1 \in 0..n /\ n - 1 \in 0..n
      BY <1>2, <2>2
    <3>2. Len(W(m + 1)) > Len(input)
      BY <1>6, <3>1
    <3>3. Len(Left(m + 1)) < Len(Missing)
      BY <1>3, <1>4, <3>1, <3>2
    <3>4. Len(Left(m + 1)) < Len(Left(n - 1))
      BY <1>1, <1>3, <1>4, <3>1, <3>3 DEF n
    <3>5. ~ (m + 1 \in 0..n - 1)
      BY <1>4, <3>1, <3>4
    <3>6. m = n - 1
      BY <1>2, <3>1, <3>5
    <3>7. Missing # << >>
      BY <1>3, <1>4, <3>1, <3>3
    <3> QED
      BY <3>6, <3>7
  <2> QED
    BY <2>1, <2>2
<1>7. Whole = CHOOSE m \in 0..n : P(m)
  BY DEF Whole, n, W
<1>8. Whole = whole
  <2> HIDE DEF P, whole
  <2> QED
    BY <1>5, <1>6, <1>7
<1>9. Begins(Remainder, Missing, Left(Whole))
  <2>1. Whole \in 0..n /\ Len(W(Whole)) <= Len(input)
    BY <1>5, <1>8
  <2>2. W(Whole) \in Str /\ Left(Whole) \in Str /\ Written(sent) = W(Whole) \o Left(Whole)
    BY <1>1, <2>1, LeftIs DEF n, W
  <2>3. Begins(input, Missing, W(Whole) \o Left(Whole))
    BY <1>1, <2>2
  <2>4. Begins(After(Len(W(Whole)), input), Missing, Left(Whole))
    BY <2>1, <2>2, <2>3, TakeWhole
  <2> QED
    BY <2>4 DEF Remainder, W
<1> QED
  BY <1>8, <1>9 DEF n

-----------------------------------------------------------------------------
(* The walk over it.                                                       *)

(* The records parsed, however they were sent, and where the walk ends.    *)
Walking ==
  /\ records \in Seq(Range(records))
  /\ \A i \in DOMAIN records : records[i].index = i - 1
  /\ outcome # "parsing" => rest = << >> \/ readRecord(rest).err

AsSent(i) ==
  records[i].type = sent[i].record.type /\ records[i].raw = sent[i].record.data

(* So far every record is as it was sent and the reader is behind the last *)
(* of them, which has a payload if nothing follows.                        *)
InStep ==
  /\ Len(records) <= Len(sent)
  /\ \A i \in 1..Len(records) : AsSent(i)
  /\ Begins(rest, Missing, Left(Len(records)))
  /\ rest = << >> /\ records # << >> => records[Len(records)].raw # << >>

(* Or the capture ended in the payload of the last, which was padded.      *)
PaddedLast ==
  /\ Len(records) = Len(sent) /\ rest = << >> /\ Missing # << >>
  /\ \A i \in 1..Len(sent) - 1 : AsSent(i)
  /\ Len(Remainder) > HeaderLen
  /\ records[Len(sent)].type = sent[Len(sent)].record.type
  /\ records[Len(sent)].raw = Padded(Len(sent))

WalkInv == Captured /\ Walking /\ (InStep \/ PaddedLast)

(* One more record.                                                        *)
LEMMA OneMore ==
  ASSUME NEW r, Walking, records' = Append(records, r), r.index = Len(records),
         outcome = "parsing", outcome' = outcome
  PROVE  /\ Walking'
         /\ Len(records) \in Nat /\ Len(records') = Len(records) + 1
         /\ records'[Len(records) + 1] = r
         /\ \A i \in 1..Len(records) : records'[i] = records[i]
         /\ records' # << >>
<1> DEFINE S == Range(records) \cup {r}
           k == Len(records)
           more == Append(records, r)
<1>1. records \in Seq(Range(records)) /\ \A i \in DOMAIN records : records[i].index = i - 1
  BY DEF Walking
<1>2. k \in Nat /\ DOMAIN records = 1..k /\ \A i \in 1..k : records[i] \in Range(records)
  BY <1>1, LenProperties, ElementOfSeq
<1>3. records \in Seq(S) /\ r \in S
  BY <1>1, <1>2, SeqDef
<1> HIDE DEF S
<1>4. /\ more \in Seq(S) /\ Len(more) = k + 1 /\ more[k + 1] = r
      /\ \A i \in 1..k : more[i] = records[i]
  BY <1>3, AppendProperties
<1> HIDE DEF k, more
<1>5. DOMAIN more = 1..k + 1 /\ more # << >>
  BY <1>2, <1>4, LenProperties, EmptySeq
<1>6. more \in Seq(Range(more))
  <2>1. more \in [1..k + 1 -> S]
    BY <1>4, LenProperties
  <2>2. more \in [1..k + 1 -> Range(more)]
    BY <2>1 DEF Range
  <2> QED
    BY <1>2, <2>2, SeqDef
<1>7. ASSUME NEW i \in 1..k + 1 PROVE more[i].index = i - 1
  <2>1. CASE i = k + 1
    BY <1>2, <1>4, <2>1 DEF k
  <2>2. CASE i \in 1..k
    BY <1>1, <1>2, <1>4, <2>2
  <2> QED
    BY <1>2, <2>1, <2>2
<1>8. records' = more
  BY DEF more
<1>9. Walking'
  BY <1>5, <1>6, <1>7, <1>8 DEF Walking
<1> QED
  BY <1>2, <1>4, <1>5, <1>8, <1>9 DEF k

(* What is sent and captured does not change.                              *)
LEMMA Frame ==
  ASSUME UNCHANGED <<sent, input>>
  PROVE  /\ Captured => Captured'
         /\ UNCHANGED <<Sent, Missing, Whole, Remainder>>
         /\ \A i : Left(i)' = Left(i) /\ Padded(i)' = Padded(i)
<1>1. sent' = sent /\ input' = input
  OBVIOUS
<1>2. Sent' = Sent
  BY <1>1 DEF Sent
<1>3. Missing' = Missing
  BY <1>1 DEF Missing
<1>4. \A i : Left(i)' = Left(i)
  BY <1>1 DEF Left
<1>5. Whole' = Whole
  BY <1>1 DEF Whole
<1>6. Remainder' = Remainder
  BY <1>1, <1>5 DEF Remainder
<1>7. \A i : Padded(i)' = Padded(i)
  BY <1>1, <1>6 DEF Padded
<1>8. Captured => Captured'
  BY <1>1, <1>3, <1>4 DEF Captured, Sending
<1> QED
  BY <1>2, <1>3, <1>4, <1>5, <1>6, <1>7, <1>8

(* Where the reader is, in step: it has read everything, or the next       *)
(* record is in front of it.                                               *)
LEMMA InStepAt ==
  ASSUME AllFit, Captured, Walking, InStep
  PROVE  LET k == Len(records)
             n == Len(sent)
         IN  /\ k \in Nat /\ n \in Nat /\ n > 0 /\ k <= n
             /\ Len(rest) \in Nat /\ Len(Missing) \in Nat
             /\ Len(rest) = 0 <=> rest = << >>
             /\ Len(Missing) = 0 <=> Missing = << >>
             /\ Len(rest) + Len(Missing) = Len(Left(k))
             /\ k = n => rest = << >> /\ Missing = << >>
             /\ k < n => /\ Fits(sent[k + 1].record) /\ Left(k + 1) \in Str
                         /\ Begins(rest, Missing,
                                   serialize(sent[k + 1].record) \o Left(k + 1))
<1> DEFINE k == Len(records)
           n == Len(sent)
<1>1. /\ k <= n /\ Begins(rest, Missing, Left(k)) /\ Sending
  BY DEF InStep, Captured
<1>2. k \in Nat
  BY LenProperties DEF Walking
<1>3. /\ n \in Nat /\ n > 0
      /\ \A i \in 1..n : Fits(sent[i].record) /\ Sent[i] = serialize(sent[i].record)
  BY <1>1, SentType
<1>4. /\ Len(rest) \in Nat /\ Len(Missing) \in Nat
      /\ Len(rest) = 0 <=> rest = << >>
      /\ Len(Missing) = 0 <=> Missing = << >>
      /\ Len(rest) + Len(Missing) = Len(Left(k))
  <2>1. rest \in Str /\ Missing \in Str /\ rest \o Missing = Left(k)
    BY <1>1 DEF Begins
  <2>2. Len(rest \o Missing) = Len(rest) + Len(Missing)
    BY <2>1, JoinStr
  <2> QED
    BY <2>1, <2>2, OnlyEmpty
<1>5. Len(Left(n)) = 0
  BY <1>1, LeftLens
<1>6. ASSUME k = n PROVE rest = << >> /\ Missing = << >>
  <2>1. Len(Left(k)) = 0
    BY <1>5, <1>6
  <2> HIDE DEF k
  <2> QED
    BY <1>4, <2>1
<1>7. ASSUME k < n
      PROVE  /\ Fits(sent[k + 1].record) /\ Left(k + 1) \in Str
             /\ Begins(rest, Missing, serialize(sent[k + 1].record) \o Left(k + 1))
  <2> DEFINE i == k + 1
  <2>1. i \in 1..n /\ i \in 0..n /\ i - 1 = k
    BY <1>2, <1>3, <1>7
  <2>2. Left(i - 1) = Sent[i] \o Left(i) /\ Left(i) \in Str
    BY <1>1, <2>1, LeftIs
  <2>3. Fits(sent[i].record) /\ Sent[i] = serialize(sent[i].record)
    BY <1>3, <2>1
  <2> HIDE DEF i, k, n
  <2>4. Left(k) = serialize(sent[i].record) \o Left(i)
    BY <2>1, <2>2, <2>3
  <2> QED
    BY <1>1, <2>2, <2>3, <2>4 DEF i
<1> QED
  BY <1>1, <1>2, <1>3, <1>4, <1>6, <1>7

(* The records after the next are whole: what is left is at least the last *)
(* part of them.                                                           *)
LEMMA Ahead ==
  ASSUME AllFit, Captured, Walking, InStep, Len(records) < Len(sent)
  PROVE  LET k == Len(records)
             n == Len(sent)
         IN  /\ k < n - 1 => Len(sent[k + 1].record.data) + HeaderLen <= Len(rest)
             /\ k < n - 2 => Len(rest) > HeaderLen
             /\ k = n - 2 /\ Len(rest) <= HeaderLen =>
                  /\ Len(sent[n - 1].record.data) = 0
                  /\ Len(Missing) = Len(Sent[n]) /\ Len(Missing) > 0
             /\ k = n - 1 =>
                  /\ Len(rest) + Len(Missing) = Len(sent[n].record.data) + HeaderLen
                  /\ Left(n - 1) = serialize(sent[n].record)
<1> DEFINE k == Len(records)
           n == Len(sent)
           R(i) == Len(Left(i))
           S(i) == Len(Sent[i])
           D(i) == Len(sent[i].record.data)
<1>1. /\ k \in Nat /\ n \in Nat /\ k < n
      /\ Len(rest) \in Nat /\ Len(Missing) \in Nat
      /\ Len(rest) + Len(Missing) = R(k)
  BY InStepAt
<1>2. Sending /\ Len(Missing) <= R(n - 1)
  BY DEF Captured
<1>3. HeaderLen = 5
  BY DEF HeaderLen
<1>4. \A i \in 1..n : D(i) \in Nat /\ S(i) = D(i) + 5
  <2> SUFFICES ASSUME NEW i \in 1..n PROVE D(i) \in Nat /\ S(i) = D(i) + 5
    OBVIOUS
  <2>1. Fits(sent[i].record) /\ S(i) = D(i) + HeaderLen
    BY <1>2, SentType
  <2> QED
    BY <1>3, <2>1, SerializedIs
<1>5. /\ \A i \in 0..n : R(i) \in Nat
      /\ \A i \in 1..n : R(i - 1) = S(i) + R(i)
      /\ R(n) = 0
      /\ \A i \in 0..n - 1 : R(n - 1) <= R(i)
  BY <1>2, LeftLens
<1>6. Left(n - 1) = serialize(sent[n].record)
  <2>1. n \in 1..n
    BY <1>1
  <2>2. Left(n - 1) = Sent[n] \o Left(n) /\ Left(n) = << >>
    BY <1>2, <2>1, LeftIs, LeftLens
  <2>3. Sent[n] = serialize(sent[n].record) /\ Sent[n] \in Str
    BY <1>2, <2>1, SentType
  <2>4. Sent[n] \o << >> = Sent[n]
    BY <2>3, ConcatEmptySeq DEF Str
  <2> QED
    BY <2>2, <2>3, <2>4
<1> HIDE DEF k, n, R, S, D
<1>7. /\ k + 1 \in 1..n /\ (k + 1) - 1 = k /\ k \in 0..n - 1
      /\ R(k) = S(k + 1) + R(k + 1) /\ S(k + 1) = D(k + 1) + 5 /\ D(k + 1) \in Nat
  <2>1. k + 1 \in 1..n /\ (k + 1) - 1 = k /\ k \in 0..n - 1
    BY <1>1
  <2> QED
    BY <1>4, <1>5, <2>1
<1>8. ASSUME k < n - 1 PROVE D(k + 1) + HeaderLen <= Len(rest)
  <2>1. k + 1 \in 0..n - 1 /\ n - 1 \in 0..n /\ k + 1 \in 0..n
    BY <1>1, <1>8
  <2>2. R(n - 1) <= R(k + 1) /\ R(n - 1) \in Nat /\ R(k + 1) \in Nat
    BY <1>5, <2>1
  <2> QED
    BY <1>1, <1>2, <1>3, <1>7, <2>2
<1>9. ASSUME k < n - 2 PROVE Len(rest) > HeaderLen
  <2>1. /\ k + 2 \in 1..n /\ (k + 2) - 1 = k + 1 /\ k + 2 \in 0..n - 1
        /\ n - 1 \in 0..n /\ k + 2 \in 0..n
    BY <1>1, <1>9
  <2>2. R(k + 1) = S(k + 2) + R(k + 2) /\ S(k + 2) = D(k + 2) + 5 /\ D(k + 2) \in Nat
    BY <1>4, <1>5, <2>1
  <2>3. R(n - 1) <= R(k + 2) /\ R(n - 1) \in Nat /\ R(k + 2) \in Nat
    BY <1>5, <2>1
  <2>4. R(k) >= R(k + 2) + 10
    BY <1>7, <2>2, <2>3
  <2>5. Len(Missing) <= R(k + 2)
    BY <1>1, <1>2, <2>3
  <2>6. Len(rest) >= 10
    <3>1. R(k) \in Int
      BY <1>1
    <3> QED
      BY <1>1, <2>3, <2>4, <2>5, <3>1
  <2> QED
    BY <1>1, <1>3, <2>6
<1>10. n \in 1..n /\ n - 1 \in 0..n
  BY <1>1
<1>11. R(n - 1) = S(n) /\ S(n) = D(n) + 5 /\ D(n) \in Nat
  BY <1>4, <1>5, <1>10
<1>12. ASSUME k = n - 2, Len(rest) <= HeaderLen
       PROVE  D(n - 1) = 0 /\ Len(Missing) = S(n) /\ Len(Missing) > 0
  <2>1. k + 1 = n - 1
    BY <1>1, <1>12
  <2>2. R(k) = S(n - 1) + R(n - 1) /\ S(n - 1) = D(n - 1) + 5 /\ D(n - 1) \in Nat
    BY <1>7, <2>1
  <2>3. Len(Missing) <= R(n - 1)
    BY <1>2
  <2> QED
    BY <1>1, <1>3, <1>11, <1>12, <2>2, <2>3
<1>13. ASSUME k = n - 1 PROVE Len(rest) + Len(Missing) = D(n) + HeaderLen
  BY <1>1, <1>3, <1>11, <1>13
<1> QED
  BY <1>6, <1>8, <1>9, <1>12, <1>13 DEF k, n, R, S, D

LEMMA SameBegin ==
  ASSUME NEW p, NEW s, NEW q, NEW w, Begins(p, q, w), Begins(s, q, w)
  PROVE  p = s
<1>1. /\ p \in Str /\ s \in Str /\ q \in Str
      /\ p \o q = w /\ s \o q = w
  BY DEF Begins
<1>2. Len(p) = Len(s)
  <2>1. Len(w) = Len(p) + Len(q) /\ Len(w) = Len(s) + Len(q)
    <3>1. /\ Len(p \o q) = Len(p) + Len(q)
          /\ Len(s \o q) = Len(s) + Len(q)
      BY <1>1, JoinStr
    <3> QED
      BY <1>1, <3>1
  <2>2. Len(p) \in Nat /\ Len(s) \in Nat /\ Len(q) \in Nat
    BY <1>1, OnlyEmpty
  <2> QED
    BY <2>1, <2>2
<1>3. First(Len(p), p \o q) = p /\ First(Len(s), s \o q) = s
  BY <1>1, SplitWhole DEF Str
<1> QED
  BY <1>1, <1>2, <1>3

(* A record that ends in the middle of its payload is the last, and what   *)
(* remains of the capture is what the reader has in front of it.           *)
LEMMA CutIsLast ==
  ASSUME AllFit, Captured, Walking, InStep, Len(records) < Len(sent),
         Len(rest) - HeaderLen < Len(sent[Len(records) + 1].record.data)
  PROVE  /\ Len(records) = Len(sent) - 1
         /\ Missing # << >> /\ Remainder = rest
<1> DEFINE k == Len(records)
           n == Len(sent)
           data == sent[k + 1].record.data
<1>1. /\ k \in Nat /\ n \in Nat /\ k < n
      /\ Len(rest) \in Nat /\ Len(Missing) \in Nat
      /\ Len(Missing) = 0 <=> Missing = << >>
      /\ Fits(sent[k + 1].record)
  BY InStepAt
<1>2. HeaderLen = 5 /\ Len(data) \in Nat /\ Len(rest) - HeaderLen < Len(data)
  BY <1>1, SerializedIs DEF HeaderLen
<1>3. /\ k < n - 1 => Len(data) + HeaderLen <= Len(rest)
      /\ k = n - 1 => Len(rest) + Len(Missing) = Len(sent[n].record.data) + HeaderLen
  BY Ahead
<1>4. Begins(rest, Missing, Left(k))
  BY DEF InStep
<1> HIDE DEF k, n, data
<1>5. k = n - 1
  BY <1>1, <1>2, <1>3
<1>6. k + 1 = n
  BY <1>1, <1>5
<1>7. Missing # << >>
  <2>1. Len(rest) + Len(Missing) = Len(data) + HeaderLen
    BY <1>3, <1>5, <1>6 DEF data
  <2> QED
    BY <1>1, <1>2, <2>1
<1>8. Begins(Remainder, Missing, Left(k))
  <2>1. Whole = k
    BY <1>5, <1>7, WholeIs DEF n
  <2> QED
    BY <2>1, WholeIs
<1> QED
  BY <1>4, <1>5, <1>7, <1>8, SameBegin DEF k, n

LEMMA ParseStep ==
  ASSUME AllFit, WalkInv, ParseRecord
  PROVE  WalkInv'
<1> DEFINE k == Len(records)
           n == Len(sent)
           r == readRecord(rest)
           got == Parsed(r)
           rec == sent[k + 1].record
<1>1. Captured /\ Walking /\ (InStep \/ PaddedLast)
  BY DEF WalkInv
<1>2. /\ outcome = "parsing" /\ rest # << >> /\ ~ r.err
      /\ records' = Append(records, got) /\ rest' = r.rest
      /\ UNCHANGED <<sent, input>> /\ outcome' = outcome
  BY DEF ParseRecord
<1>3. InStep
  BY <1>1, <1>2 DEF PaddedLast
<1>4. /\ got.index = k /\ got.type = NumberIn(r, "type") /\ got.raw = Value(r, "data")
  BY DEF Parsed
<1> HIDE DEF got
<1>5. /\ Walking' /\ k \in Nat /\ Len(records') = k + 1
      /\ records'[k + 1] = got
      /\ \A i \in 1..k : records'[i] = records[i]
      /\ records' # << >>
  BY <1>1, <1>2, <1>4, OneMore
<1>6. /\ Captured' /\ UNCHANGED <<Sent, Missing, Whole, Remainder>>
      /\ \A i : Left(i)' = Left(i) /\ Padded(i)' = Padded(i)
  BY <1>1, <1>2, Frame
<1>7. /\ n \in Nat /\ n > 0 /\ k < n
      /\ Len(rest) \in Nat /\ Len(Missing) \in Nat
      /\ Len(rest) + Len(Missing) = Len(Left(k))
      /\ Fits(rec) /\ Left(k + 1) \in Str
      /\ Begins(rest, Missing, serialize(rec) \o Left(k + 1))
  <2>1. k # n /\ k <= n /\ n \in Nat
    BY <1>1, <1>2, <1>3, InStepAt
  <2>2. k < n
    BY <1>5, <2>1
  <2> QED
    BY <1>1, <1>3, <2>2, InStepAt
<1>8. /\ \A i \in 1..k : AsSent(i)
      /\ Begins(rest, Missing, Left(k))
  BY <1>3 DEF InStep
<1> DEFINE m == Len(rest) - HeaderLen
<1>9. /\ m <= 0 => r.err
      /\ m > 0 => NumberIn(r, "type") = rec.type
      /\ m > 0 /\ Len(rec.data) <= m =>
           Value(r, "data") = rec.data /\ Begins(r.rest, Missing, Left(k + 1))
      /\ m > 0 /\ m < Len(rec.data) =>
           /\ Value(r, "data") = First(m, rec.data) \o Zeros(Len(rec.data) - m)
           /\ r.rest = << >>
  BY <1>7, RecordRead
<1>10. HeaderLen = 5 /\ Len(rec.data) \in Nat /\ rec.data \in Str
  BY <1>7, SerializedIs DEF HeaderLen
<1>11. m \in Int /\ m > 0
  <2>1. m \in Int
    BY <1>7, <1>10
  <2> HIDE DEF m
  <2> QED
    BY <1>2, <1>9, <2>1
<1> HIDE DEF r
<1>12. ASSUME NEW i \in 1..k PROVE AsSent(i)'
  <2>1. records'[i] = records[i] /\ sent' = sent
    BY <1>2, <1>5
  <2> QED
    BY <1>8, <2>1 DEF AsSent
<1>13. got.type = rec.type
  BY <1>4, <1>9, <1>11
<1>14. CASE Len(rec.data) <= m
  <2>1. got.raw = rec.data /\ Begins(rest', Missing, Left(k + 1))
    BY <1>2, <1>4, <1>9, <1>11, <1>14
  <2>3. ASSUME NEW i \in 1..k + 1 PROVE AsSent(i)'
    <3>1. CASE i = k + 1
      BY <1>2, <1>5, <1>13, <2>1, <3>1 DEF AsSent
    <3>2. CASE i \in 1..k
      BY <1>12, <3>2
    <3> QED
      BY <1>5, <3>1, <3>2
  <2>4. rest' = << >> => got.raw # << >>
    <3> SUFFICES ASSUME rest' = << >>, got.raw = << >> PROVE FALSE
      OBVIOUS
    <3>1. Len(rec.data) = 0
      BY <2>1, EmptyStr
    <3>2. Missing \in Str /\ << >> \o Missing = Left(k + 1)
      BY <2>1 DEF Begins
    <3>3. Len(Left(k + 1)) = Len(Missing)
      BY <3>2, ConcatEmptySeq DEF Str
    <3>4. Len(Left(k)) = Len(rec.data) + HeaderLen + Len(Left(k + 1))
      <4>1. k + 1 \in 1..n /\ (k + 1) - 1 = k
        BY <1>5, <1>7
      <4>2. Sending
        BY <1>1 DEF Captured
      <4>3. /\ Len(Left((k + 1) - 1)) = Len(Sent[k + 1]) + Len(Left(k + 1))
            /\ Len(Sent[k + 1]) = Len(rec.data) + HeaderLen
        BY <4>1, <4>2, LeftLens, SentType
      <4> QED
        BY <4>1, <4>3
    <3> QED
      BY <1>7, <1>10, <1>11, <3>1, <3>3, <3>4
  <2>5. InStep'
    <3>1. k + 1 <= n /\ Len(records') = k + 1 /\ sent' = sent
      BY <1>2, <1>5, <1>7
    <3>2. Begins(rest', Missing', Left(Len(records))')
      <4>1. PICK i \in Nat : i = k + 1
        BY <1>5
      <4>2. Left(Len(records))' = Left(i)' /\ Left(i)' = Left(i)
        BY <1>6, <3>1, <4>1 DEF Left
      <4> QED
        BY <1>6, <2>1, <4>1, <4>2
    <3>3. rest' = << >> => records'[Len(records')].raw # << >>
      BY <1>5, <2>4
    <3> QED
      BY <2>3, <3>1, <3>2, <3>3 DEF InStep
  <2> QED
    BY <1>5, <1>6, <2>5 DEF WalkInv
<1>15. CASE m < Len(rec.data)
  <2>1. k = n - 1 /\ Missing # << >> /\ Remainder = rest
    BY <1>1, <1>3, <1>7, <1>15, CutIsLast
  <2>2. k + 1 = n
    BY <1>5, <1>7, <2>1
  <2>3. rest' = << >> /\ got.raw = First(m, rec.data) \o Zeros(Len(rec.data) - m)
    BY <1>2, <1>4, <1>9, <1>11, <1>15
  <2>4. got.raw = Padded(n)
    BY <2>1, <2>2, <2>3 DEF Padded
  <2>5. Len(Remainder) > HeaderLen
    BY <1>7, <1>10, <1>11, <2>1
  <2>6. PaddedLast'
    <3>1. sent' = sent /\ Len(records') = n /\ records'[n] = got
      BY <1>2, <1>5, <2>2
    <3>2. \A i \in 1..n - 1 : AsSent(i)'
      BY <1>12, <2>1
    <3>3. Missing' # << >> /\ Len(Remainder') > HeaderLen /\ Padded(n)' = Padded(n)
      <4>1. PICK i \in Nat : i = n
        BY <1>7
      <4>2. Padded(n)' = Padded(i)' /\ Padded(i)' = Padded(i)
        BY <1>6, <3>1, <4>1 DEF Padded
      <4> QED
        BY <1>6, <2>1, <2>5, <4>1, <4>2
    <3>4. got.type = sent[n].record.type
      BY <1>13, <2>2
    <3> QED
      BY <2>3, <2>4, <3>1, <3>2, <3>3, <3>4 DEF PaddedLast
  <2> QED
    BY <1>5, <1>6, <2>6 DEF WalkInv
<1> QED
  BY <1>10, <1>11, <1>14, <1>15

LEMMA InitWalk ==
  ASSUME AllFit, Init
  PROVE  WalkInv
<1> DEFINE n == Len(sent)
           w == Written(sent)
<1>1. Sending
  <2>1. PICK m \in 1..MaxRecords : sent \in [1..m -> Samples]
    BY DEF Init
  <2>2. m \in Nat /\ m > 0
    BY <2>1, MaxRecordsAssumption
  <2>3. sent \in Seq(Samples) /\ Len(sent) = m
    BY <2>1, <2>2, SeqDef, LenProperties
  <2> QED
    BY <2>2, <2>3, EmptySeq DEF Sending
<1>2. /\ n \in Nat /\ n > 0 /\ Sent[n] = serialize(sent[n].record)
      /\ Len(Sent[n]) \in Nat
  <2>1. n \in Nat /\ n > 0
    BY <1>1, SentType
  <2>2. n \in 1..n
    BY <2>1
  <2> QED
    BY <1>1, <2>1, <2>2, SentType
<1>3. PICK cut \in 0..Len(Sent[n]) : input = First(Len(w) - cut, w)
  BY <1>2 DEF Init, Last
<1>4. /\ w \in Str /\ Len(w) \in Nat
      /\ Len(Left(n - 1)) = Len(Sent[n]) /\ Len(Left(n - 1)) <= Len(w)
      /\ Left(0) = w
  <2>1. n \in 1..n /\ n - 1 \in 0..n /\ 0 \in 0..n
    BY <1>2
  <2>2. /\ Len(Left(n - 1)) = Len(Sent[n]) + Len(Left(n)) /\ Len(Left(n)) = 0
        /\ Len(w) = Len(Written(First(n - 1, sent))) + Len(Left(n - 1))
        /\ Len(Written(First(n - 1, sent))) \in Nat /\ Len(Left(n - 1)) \in Nat
    BY <1>1, <2>1, LeftLens
  <2>3. w \in Str /\ Len(w) \in Nat
    BY <1>1, LeftIs, OnlyEmpty
  <2>4. Left(0) = w
    <3>1. First(0, sent) = << >>
      <4>1. First(0, sent) \in Seq(Samples) /\ Len(First(0, sent)) = 0
        BY <1>1, <1>2, CutSequence DEF Sending
      <4> QED
        BY <4>1, EmptySeq
    <3>2. /\ Written(First(0, sent)) \in Str /\ Left(0) \in Str
          /\ w = Written(First(0, sent)) \o Left(0)
      BY <1>1, <2>1, LeftIs
    <3>3. Written(First(0, sent)) = << >>
      <4>1. Written(First(0, sent)) = Joined(Sent)[0]
        BY <1>1, <2>1, WrittenFirst
      <4>2. Joined(Sent)[0] = << >>
        BY <1>1, SentType, JoinSteps
      <4> QED
        BY <4>1, <4>2
    <3> QED
      BY <3>2, <3>3, ConcatEmptySeq DEF Str
  <2> QED
    BY <1>2, <2>2, <2>3, <2>4
<1> HIDE DEF w
<1>5. Begins(input, Missing, w) /\ Len(Missing) = cut
  <2> DEFINE i == Len(w) - cut
  <2>1. i \in 0..Len(w) /\ Len(w) - i = cut
    BY <1>2, <1>3, <1>4
  <2> HIDE DEF i
  <2>2. w \in Seq(Byte)
    BY <1>4 DEF Str
  <2>3. /\ First(i, w) \in Seq(Byte) /\ Len(First(i, w)) = i
        /\ After(i, w) \in Seq(Byte) /\ Len(After(i, w)) = Len(w) - i
        /\ First(i, w) \o After(i, w) = w
    BY <2>1, <2>2, CutSequence
  <2>4. input = First(i, w)
    BY <1>3 DEF i
  <2>5. Missing = After(i, w)
    BY <2>3, <2>4 DEF Missing, w
  <2> QED
    BY <2>1, <2>3, <2>4, <2>5 DEF Begins, Str
<1>6. Captured
  BY <1>1, <1>2, <1>3, <1>4, <1>5 DEF Captured, w
<1>7. rest = input /\ records = << >> /\ outcome = "parsing"
  BY DEF Init
<1>8. Len(records) = 0 /\ records \in Seq(Range(records)) /\ DOMAIN records = {}
  BY <1>7, EmptySeq
<1>9. Walking
  BY <1>7, <1>8 DEF Walking
<1>10. InStep
  BY <1>2, <1>4, <1>5, <1>7, <1>8 DEF InStep
<1> QED
  BY <1>6, <1>9, <1>10 DEF WalkInv

LEMMA EndStep ==
  ASSUME WalkInv, EndOfInput \/ UNCHANGED vars
  PROVE  WalkInv'
<1>1. Captured /\ Walking /\ (InStep \/ PaddedLast)
  BY DEF WalkInv
<1>2. UNCHANGED <<sent, input, rest, records>>
  BY DEF EndOfInput, vars
<1>3. Walking'
  <2>1. outcome' # "parsing" => rest = << >> \/ readRecord(rest).err
    <3>1. CASE EndOfInput
      BY <3>1 DEF EndOfInput
    <3>2. CASE UNCHANGED vars
      BY <1>1, <3>2 DEF vars, Walking
    <3> QED
      BY <3>1, <3>2
  <2>2. records' = records /\ rest' = rest
    BY <1>2
  <2> QED
    BY <1>1, <2>1, <2>2 DEF Walking
<1>4. /\ Captured' /\ UNCHANGED <<Sent, Missing, Whole, Remainder>>
      /\ \A i : Left(i)' = Left(i) /\ Padded(i)' = Padded(i)
  BY <1>1, <1>2, Frame
<1>5. /\ sent' = sent /\ rest' = rest /\ records' = records /\ Missing' = Missing
      /\ Remainder' = Remainder
  BY <1>2, <1>4
<1>6. \A i : AsSent(i)' <=> AsSent(i)
  BY <1>5 DEF AsSent
<1>7. InStep => InStep'
  <2>1. Left(Len(records))' = Left(Len(records))
    BY <1>2 DEF Left
  <2> QED
    BY <1>5, <1>6, <2>1 DEF InStep
<1>8. PaddedLast => PaddedLast'
  <2>1. Padded(Len(sent))' = Padded(Len(sent))
    BY <1>5 DEF Padded
  <2> QED
    BY <1>5, <1>6, <2>1 DEF PaddedLast
<1> QED
  BY <1>1, <1>3, <1>4, <1>7, <1>8 DEF WalkInv

(* At the end of the walk, in step with what was sent, the last record     *)
(* that is wholly there has been seen, or has no payload at the very end.  *)
LEMMA SeenAll ==
  ASSUME AllFit, Captured, Walking, InStep, outcome # "parsing"
  PROVE  LET k == Len(records)
             empty == Remainder = << >> /\ Whole > 0 /\ sent[Whole].record.data = << >>
         IN  /\ Whole \in 0..Len(sent) /\ ~ (Len(Remainder) > HeaderLen)
             /\ IF empty THEN k = Whole - 1 ELSE k = Whole
<1> DEFINE k == Len(records)
           n == Len(sent)
           data(i) == sent[i].record.data
           empty == Remainder = << >> /\ Whole > 0 /\ data(Whole) = << >>
           Goal == /\ Whole \in 0..n /\ ~ (Len(Remainder) > HeaderLen)
                   /\ IF empty THEN k = Whole - 1 ELSE k = Whole
<1> SUFFICES Goal
  OBVIOUS
<1>1. /\ k \in Nat /\ n \in Nat /\ n > 0 /\ k <= n
      /\ Len(rest) \in Nat /\ Len(Missing) \in Nat
      /\ Len(rest) = 0 <=> rest = << >>
      /\ Len(Missing) = 0 <=> Missing = << >>
      /\ k = n => rest = << >> /\ Missing = << >>
      /\ k < n => /\ Fits(sent[k + 1].record) /\ Left(k + 1) \in Str
                  /\ Begins(rest, Missing, serialize(sent[k + 1].record) \o Left(k + 1))
  BY InStepAt
<1>2. /\ Whole = IF Missing = << >> THEN n ELSE n - 1
      /\ Begins(Remainder, Missing, Left(Whole))
  BY WholeIs
<1>3. /\ Begins(rest, Missing, Left(k))
      /\ \A i \in 1..k : AsSent(i)
      /\ rest = << >> /\ records # << >> => records[k].raw # << >>
  BY DEF InStep
<1>4. HeaderLen = 5
  BY DEF HeaderLen
<1>5. ASSUME rest = << >>, k > 0 PROVE data(k) # << >>
  <2>1. records # << >>
    BY <1>5, EmptySeq
  <2>2. k \in 1..k
    BY <1>1, <1>5
  <2> QED
    BY <1>3, <1>5, <2>1, <2>2 DEF AsSent
<1>6. Left(n) = << >> /\ Len(Left(n - 1)) = Len(Sent[n])
  <2>1. Sending /\ n \in 1..n /\ n \in 0..n
    BY <1>1 DEF Captured
  <2>2. /\ Len(Left(n - 1)) = Len(Sent[n]) + Len(Left(n)) /\ Left(n) = << >>
        /\ Len(Left(n)) = 0
    BY <2>1, LeftLens
  <2>3. Len(Sent[n]) \in Nat
    BY <2>1, SentType
  <2> QED
    BY <2>2, <2>3
<1>7. Missing = << >> => Whole = n /\ Remainder = << >> /\ Len(Remainder) = 0
  <2> SUFFICES ASSUME Missing = << >> PROVE Whole = n /\ Remainder = << >>
    BY EmptyStr
  <2>1. Whole = n /\ Begins(Remainder, << >>, << >>)
    BY <1>2, <1>6
  <2> QED
    BY <2>1, EmptyStr, NothingCut
<1>8. Whole \in 0..n
  BY <1>1, <1>2
<1> HIDE DEF k, n, data
<1>9. CASE k = n
  <2>1. Missing = << >> /\ rest = << >> /\ k > 0
    BY <1>1, <1>9
  <2>2. ~ empty
    BY <1>5, <1>7, <1>9, <2>1
  <2> QED
    BY <1>4, <1>7, <1>8, <1>9, <2>1, <2>2
<1>10. CASE k < n
  <2>1. Len(rest) <= HeaderLen
    <3>1. rest = << >> \/ readRecord(rest).err
      BY DEF Walking
    <3>2. Len(rest) - HeaderLen > 0 => ~ readRecord(rest).err
      BY <1>1, <1>10, RecordRead
    <3>3. Len(rest) = 0 \/ ~ (Len(rest) - HeaderLen > 0)
      BY <1>1, <3>1, <3>2
    <3> QED
      BY <1>1, <1>4, <3>3
  <2>2. /\ k < n - 2 => Len(rest) > HeaderLen
        /\ k = n - 2 /\ Len(rest) <= HeaderLen =>
             Len(data(n - 1)) = 0 /\ Len(Missing) = Len(Sent[n]) /\ Len(Missing) > 0
        /\ k = n - 1 => Len(rest) + Len(Missing) = Len(data(n)) + HeaderLen
    BY <1>10, Ahead DEF k, n, data
  <2>3. \A i \in 1..n : data(i) \in Str /\ Len(data(i)) \in Nat
                       /\ (Len(data(i)) = 0 => data(i) = << >>)
    <3> SUFFICES ASSUME NEW i \in 1..n
                 PROVE  data(i) \in Str /\ Len(data(i)) \in Nat
                        /\ (Len(data(i)) = 0 => data(i) = << >>)
      OBVIOUS
    <3>1. Fits(sent[i].record)
      BY SentType DEF Captured, n
    <3> QED
      BY <3>1, SerializedIs, OnlyEmpty DEF data
  <2>4. k = n - 2 \/ k = n - 1
    BY <1>1, <1>4, <1>10, <2>1, <2>2
  <2>5. CASE k = n - 2
    <3>1. /\ Len(data(n - 1)) = 0 /\ Len(Missing) = Len(Sent[n]) /\ Missing # << >>
          /\ n - 1 \in 1..n /\ k = (n - 1) - 1
      BY <1>1, <2>1, <2>2, <2>5
    <3>2. Whole = n - 1 /\ data(n - 1) = << >>
      BY <1>2, <2>3, <3>1
    <3>3. Remainder = << >> /\ Len(Remainder) = 0
      <4>1. /\ Remainder \in Str /\ Missing \in Str
            /\ Remainder \o Missing = Left(n - 1)
        BY <1>2, <3>2 DEF Begins
      <4>2. Len(Left(n - 1)) = Len(Remainder) + Len(Missing)
        BY <4>1, JoinStr
      <4>3. Len(Remainder) \in Nat
        BY <4>1, OnlyEmpty
      <4>4. Len(Remainder) = 0
        BY <1>1, <1>6, <3>1, <4>2, <4>3
      <4> QED
        BY <4>1, <4>4, OnlyEmpty
    <3>4. empty /\ k = Whole - 1
      BY <1>1, <3>1, <3>2, <3>3
    <3> QED
      BY <1>4, <1>8, <3>3, <3>4
  <2>6. CASE k = n - 1 /\ Missing = << >>
    <3>1. n \in 1..n /\ Len(data(n)) = 0
      BY <1>1, <1>4, <2>1, <2>2, <2>3, <2>6
    <3>2. empty /\ k = Whole - 1
      BY <1>1, <1>7, <2>3, <2>6, <3>1
    <3> QED
      BY <1>4, <1>7, <1>8, <2>6, <3>2
  <2>7. CASE k = n - 1 /\ Missing # << >>
    <3>1. Whole = k
      BY <1>2, <2>7
    <3>2. Remainder = rest
      BY <1>2, <1>3, <3>1, SameBegin
    <3>3. ~ (Len(Remainder) > HeaderLen)
      BY <1>1, <1>4, <2>1, <3>2
    <3>4. ~ empty
      BY <1>5, <3>1, <3>2
    <3> QED
      BY <1>8, <3>1, <3>3, <3>4
  <2> QED
    BY <2>4, <2>5, <2>6, <2>7
<1> QED
  BY <1>1, <1>9, <1>10

LEMMA FrontIs ==
  ASSUME NEW S, NEW s \in Seq(S), NEW n \in Nat, Len(s) = n + 1
  PROVE  Front(s) = [i \in 1..n |-> s[i]]
<1>1. n \in 0..Len(s) /\ Len(s) - 1 = n
  OBVIOUS
<1>2. Front(s) = First(n, s)
  BY <1>1 DEF Front, First
<1>3. /\ First(n, s) \in Seq(S) /\ Len(First(n, s)) = n
      /\ \A i \in 1..n : First(n, s)[i] = s[i]
  BY <1>1, CutSequence
<1> DEFINE f == First(n, s)
<1> HIDE DEF f
<1>4. f = [i \in 1..n |-> f[i]]
  BY <1>3, LenProperties DEF f
<1> QED
  BY <1>2, <1>3, <1>4 DEF f

LEMMA AppendIs ==
  ASSUME NEW S, NEW s \in Seq(S), NEW x
  PROVE  Append(s, x) = [i \in 1..Len(s) + 1 |-> IF i <= Len(s) THEN s[i] ELSE x]
<1> DEFINE T == S \cup {x}
           more == Append(s, x)
<1>1. Len(s) \in Nat /\ s \in Seq(T) /\ x \in T
  BY LenProperties, SeqDef
<1> HIDE DEF T
<1>2. /\ more \in Seq(T) /\ Len(more) = Len(s) + 1 /\ more[Len(s) + 1] = x
      /\ \A i \in 1..Len(s) : more[i] = s[i]
  BY <1>1, AppendProperties
<1> HIDE DEF more
<1>3. more = [i \in 1..Len(s) + 1 |-> more[i]]
  BY <1>2, LenProperties
<1>4. \A i \in 1..Len(s) + 1 : more[i] = IF i <= Len(s) THEN s[i] ELSE x
  BY <1>1, <1>2
<1> QED
  BY <1>3, <1>4 DEF more

LEMMA AsExpected ==
  ASSUME AllFit, WalkInv, outcome # "parsing"
  PROVE  [i \in DOMAIN records |-> <<records[i].type, records[i].raw>>] = Expected
<1> DEFINE k == Len(records)
           n == Len(sent)
           Pair(i) == <<sent[i].record.type, sent[i].record.data>>
           seen == [i \in DOMAIN records |-> <<records[i].type, records[i].raw>>]
           whole == [i \in 1..Whole |-> Pair(i)]
           empty == Whole > 0 /\ Remainder = << >> /\ whole[Whole][2] = << >>
           shown == IF empty THEN Front(whole) ELSE whole
<1>1. Captured /\ Walking /\ (InStep \/ PaddedLast)
  BY DEF WalkInv
<1>2. k \in Nat /\ DOMAIN records = 1..k /\ n \in Nat /\ n > 0
  BY <1>1, LenProperties, SentType DEF Walking, Captured
<1>3. Expected = IF Len(Remainder) > HeaderLen
                 THEN Append(shown, <<sent[Whole + 1].record.type, Padded(Whole + 1)>>)
                 ELSE shown
  BY DEF Expected
<1>4. Whole \in 0..n
  BY <1>1, <1>2, WholeIs
<1>5. whole \in Seq({Pair(i) : i \in 1..Whole}) /\ Len(whole) = Whole
  <2>1. whole \in [1..Whole -> {Pair(i) : i \in 1..Whole}] /\ Whole \in Nat
    BY <1>4
  <2>2. \A S : \A m \in Nat : \A f \in [1..m -> S] : f \in Seq(S)
    BY SeqDef
  <2>3. \A S : \A m \in Nat : \A f \in [1..m -> S] : Len(f) = m
    BY <2>2, LenProperties
  <2> DEFINE S == {Pair(i) : i \in 1..Whole}
  <2>4. whole \in [1..Whole -> S] /\ Whole \in Nat
    BY <2>1
  <2> HIDE DEF whole, Pair, S
  <2>5. whole \in Seq(S) /\ Len(whole) = Whole
    BY <2>2, <2>3, <2>4
  <2> QED
    BY <2>5 DEF S
<1>6. Whole > 0 => whole[Whole] = Pair(Whole) /\ Pair(Whole)[2] = sent[Whole].record.data
  BY <1>4
<1>7. CASE InStep
  <2>1. /\ ~ (Len(Remainder) > HeaderLen)
        /\ IF Remainder = << >> /\ Whole > 0 /\ sent[Whole].record.data = << >>
           THEN k = Whole - 1 ELSE k = Whole
    BY <1>1, <1>7, SeenAll
  <2>2. seen = [i \in 1..k |-> Pair(i)]
    BY <1>2, <1>7 DEF InStep, AsSent
  <2>3. Expected = shown
    BY <1>3, <2>1
  <2>4. CASE empty
    <3>1. k = Whole - 1 /\ k \in Nat /\ Len(whole) = k + 1
      BY <1>2, <1>4, <1>5, <1>6, <2>1, <2>4
    <3>2. Front(whole) = [i \in 1..k |-> whole[i]]
      <4> HIDE DEF whole
      <4> QED
        BY <1>5, <3>1, FrontIs
    <3>3. \A i \in 1..k : whole[i] = Pair(i)
      BY <1>4, <3>1
    <3>4. shown = [i \in 1..k |-> Pair(i)]
      <4> HIDE DEF whole, Pair
      <4> QED
        BY <2>4, <3>2, <3>3
    <3> QED
      BY <2>2, <2>3, <3>4
  <2>5. CASE ~ empty
    <3>1. k = Whole
      BY <1>4, <1>6, <2>1, <2>5
    <3>2. shown = whole
      BY <2>5
    <3> QED
      BY <2>2, <2>3, <3>1, <3>2
  <2> QED
    BY <2>4, <2>5
<1>8. CASE PaddedLast
  <2>1. /\ k = n /\ Missing # << >> /\ Len(Remainder) > HeaderLen
        /\ \A i \in 1..n - 1 : AsSent(i)
        /\ records[n].type = sent[n].record.type /\ records[n].raw = Padded(n)
    BY <1>8 DEF PaddedLast
  <2>2. Whole = n - 1 /\ Whole + 1 = n
    BY <1>1, <1>2, <2>1, WholeIs
  <2>3. Remainder # << >>
    BY <2>1, EmptyStr DEF HeaderLen
  <2> DEFINE last == <<sent[n].record.type, Padded(n)>>
  <2>4. Expected = Append(whole, last)
    BY <1>3, <2>1, <2>2, <2>3
  <2>5. Append(whole, last) = [i \in 1..n |-> IF i <= n - 1 THEN whole[i] ELSE last]
    <3>1. Append(whole, last) = [i \in 1..Len(whole) + 1 |->
                                   IF i <= Len(whole) THEN whole[i] ELSE last]
      <4> HIDE DEF whole, last
      <4> QED
        BY <1>5, AppendIs
    <3>2. Len(whole) = n - 1 /\ Len(whole) + 1 = n
      BY <1>5, <2>2
    <3> HIDE DEF whole, last
    <3> QED
      BY <3>1, <3>2
  <2>6. \A i \in 1..n : <<records[i].type, records[i].raw>>
                         = IF i <= n - 1 THEN whole[i] ELSE last
    <3> SUFFICES ASSUME NEW i \in 1..n
                 PROVE  <<records[i].type, records[i].raw>>
                          = IF i <= n - 1 THEN whole[i] ELSE last
      OBVIOUS
    <3>1. CASE i <= n - 1
      <4>1. i \in 1..n - 1
        BY <1>2, <3>1
      <4>2. AsSent(i) /\ whole[i] = Pair(i)
        BY <2>1, <2>2, <4>1
      <4> QED
        BY <3>1, <4>2 DEF AsSent
    <3>2. CASE ~ (i <= n - 1)
      <4>1. i = n
        BY <1>2, <3>2
      <4> QED
        BY <2>1, <3>2, <4>1
    <3> QED
      BY <3>1, <3>2
  <2>7. seen = [i \in 1..n |-> <<records[i].type, records[i].raw>>]
    BY <1>2, <2>1
  <2>8. seen = [i \in 1..n |-> IF i <= n - 1 THEN whole[i] ELSE last]
    <3> HIDE DEF whole, last
    <3> QED
      BY <2>6, <2>7
  <2> QED
    BY <2>4, <2>5, <2>8
<1> QED
  BY <1>1, <1>7, <1>8

(* Of a capture of records that fit, wherever it ends, the parser prints   *)
(* all that are wholly in it and the last as far as it is: none is split,  *)
(* merged, invented or left out (ParseRecords, mmtls/parser.go).           *)
THEOREM Printed ==
  ASSUME AllFit
  PROVE  Spec => []RecordsAsSent
<1>1. Init => WalkInv
  BY InitWalk
<1>2. WalkInv /\ [Next]_vars => WalkInv'
  BY ParseStep, EndStep DEF Next
<1>3. WalkInv => RecordsAsSent
  BY AsExpected DEF RecordsAsSent, WalkInv, Walking
<1> QED
  BY <1>1, <1>2, <1>3, PTL DEF Spec

-----------------------------------------------------------------------------
(* A ServerHello, byte by byte.                                            *)

(* Where the bytes of two strings are in one.                              *)
Joins(a, m, b, n, c) ==
  /\ c \in Str /\ Len(c) = m + n
  /\ \A i \in 1..m : c[i] = a[i]
  /\ \A i \in 1..n : c[m + i] = b[i]

LEMMA JoinAt ==
  ASSUME NEW a \in Str, NEW b \in Str, NEW m, NEW n, Len(a) = m, Len(b) = n
  PROVE  Joins(a, m, b, n, a \o b)
<1>1. a \in Seq(Byte) /\ b \in Seq(Byte) /\ m \in Nat /\ n \in Nat
  BY OnlyEmpty DEF Str
<1>2. /\ Len(a \o b) = m + n
      /\ \A i \in 1..m + n :
           (a \o b)[i] = IF i <= m THEN a[i] ELSE b[i - m]
  BY <1>1, ConcatProperties
<1>3. ASSUME NEW i \in 1..m PROVE (a \o b)[i] = a[i]
  BY <1>1, <1>2
<1>4. ASSUME NEW i \in 1..n PROVE (a \o b)[m + i] = b[i]
  <2>1. m + i \in 1..m + n /\ ~ (m + i <= m) /\ (m + i) - m = i
    BY <1>1
  <2> QED
    BY <1>2, <2>1
<1> QED
  BY <1>2, <1>3, <1>4, JoinStr DEF Joins

(* Small numbers in two and in four bytes.                                 *)
LEMMA SmallNumber ==
  ASSUME NEW n \in 0..255
  PROVE  /\ BigEndian(n, 2) \in Str /\ Len(BigEndian(n, 2)) = 2
         /\ BigEndian(n, 2)[1] = 0 /\ BigEndian(n, 2)[2] = n
         /\ BigEndian(n, 4) \in Str /\ Len(BigEndian(n, 4)) = 4
         /\ BigEndian(n, 4)[1] = 0 /\ BigEndian(n, 4)[2] = 0
         /\ BigEndian(n, 4)[3] = 0 /\ BigEndian(n, 4)[4] = n
<1>1. /\ BigEndian(n, 2) \in Str /\ Len(BigEndian(n, 2)) = 2
      /\ BigEndian(n, 4) \in Str /\ Len(BigEndian(n, 4)) = 4
  BY BigEndianType DEF Of
<1>2. /\ BigEndian(n, 2)[1] = (n \div 256^1) % 256
      /\ BigEndian(n, 2)[2] = (n \div 256^0) % 256
      /\ BigEndian(n, 4)[1] = (n \div 256^3) % 256
      /\ BigEndian(n, 4)[2] = (n \div 256^2) % 256
      /\ BigEndian(n, 4)[3] = (n \div 256^1) % 256
      /\ BigEndian(n, 4)[4] = (n \div 256^0) % 256
  BY ByteAssumption DEF BigEndian
<1>3. /\ (n \div 256^1) % 256 = 0 /\ (n \div 256^2) % 256 = 0
      /\ (n \div 256^3) % 256 = 0 /\ (n \div 256^0) % 256 = n
  BY SMT
<1> QED
  BY <1>1, <1>2, <1>3

LEMMA OneByte ==
  ASSUME NEW n \in 0..255
  PROVE  <<n>> \in Str /\ Len(<<n>>) = 1 /\ <<n>>[1] = n
BY ByteValues DEF Str

(* A share, short enough that the length of its hello is one byte: 65      *)
(* bytes in the program, and 119 of its hello.                             *)
Shares == {s \in Str : Len(s) \in 1..201}

LEMMA ShareType ==
  ASSUME NEW share \in Shares
  PROVE  share \in Str /\ Len(share) \in 1..201 /\ share # << >>
<1> DEFINE k == Len(share)
<1>1. share \in Str /\ k \in 1..201 /\ (k = 0 <=> share = << >>)
  <2>1. share \in Str /\ k \in 1..201
    BY DEF Shares
  <2> QED
    BY <2>1, OnlyEmpty
<1> HIDE DEF k
<1>2. k # 0
  BY <1>1
<1> QED
  BY <1>1, <1>2 DEF k

LEMMA HelloBytes ==
  ASSUME NEW random \in Of(32), NEW share \in Shares
  PROVE  LET w == ServerHello(random, share)
             k == Len(share)
         IN  /\ w \in Str /\ Len(w) = 58 + k
             /\ w[1] = 0 /\ w[2] = 0 /\ w[3] = 0 /\ w[4] = 54 + k
             /\ w[57] = 0 /\ w[58] = k
             /\ \A i \in 1..k : w[58 + i] = share[i]
<1> DEFINE k  == Len(share)
           s0 == writeU16LenData(share)
           t1 == BigEndian(16, 2) \o BigEndian(0, 4)
           s1 == t1 \o s0
           s2 == writeU32LenData(s1)
           s3 == <<1>> \o s2
           s4 == writeU32LenData(s3)
           v  == BigEndian(ProtocolVersion, 2)
           c  == BigEndian(EcdheSuite, 2)
           t2 == <<2>> \o v
           t3 == t2 \o c
           t4 == t3 \o random
           s5 == t4 \o s4
           w  == writeU32LenData(s5)
<1>1. /\ share \in Str /\ k \in 1..201 /\ random \in Str /\ Len(random) = 32
  BY DEF Shares, Of
<1>2. w = ServerHello(random, share)
  BY DEF ServerHello
<1> HIDE DEF k
<1>3. /\ s0 \in Str /\ Len(s0) = 2 + k
      /\ s0[1] = 0 /\ s0[2] = k /\ \A i \in 1..k : s0[2 + i] = share[i]
  <2> DEFINE n == BigEndian(k, 2)
  <2>1. n \in Str /\ Len(n) = 2 /\ n[1] = 0 /\ n[2] = k
    <3>1. k \in 0..255
      BY <1>1
    <3> QED
      BY <3>1, SmallNumber
  <2>2. s0 = n \o share /\ Len(share) = k
    BY DEF writeU16LenData, k
  <2> HIDE DEF n, s0
  <2>3. Joins(n, 2, share, k, s0)
    BY <1>1, <2>1, <2>2, JoinAt
  <2>4. s0[1] = n[1] /\ s0[2] = n[2]
    <3>1. 1 \in 1..2 /\ 2 \in 1..2
      OBVIOUS
    <3> QED
      BY <2>3, <3>1 DEF Joins
  <2>5. s0 \in Str /\ Len(s0) = 2 + k /\ \A i \in 1..k : s0[2 + i] = share[i]
    BY <2>3 DEF Joins
  <2> QED
    BY <2>1, <2>4, <2>5
<1>4. t1 \in Str /\ Len(t1) = 6
  <2>1. /\ BigEndian(16, 2) \in Str /\ Len(BigEndian(16, 2)) = 2
        /\ BigEndian(0, 4) \in Str /\ Len(BigEndian(0, 4)) = 4
    BY SmallNumber
  <2> DEFINE a == BigEndian(16, 2)
             b == BigEndian(0, 4)
  <2>2. Joins(a, 2, b, 4, t1)
    BY <2>1, JoinAt
  <2> HIDE DEF a, b
  <2> HIDE DEF t1
  <2> QED
    BY <2>1, <2>2 DEF Joins
<1> HIDE DEF s0, t1
<1>5. s1 \in Str /\ Len(s1) = 8 + k /\ \A i \in 1..2 + k : s1[6 + i] = s0[i]
  <2>1. Joins(t1, 6, s0, 2 + k, s1)
    BY <1>3, <1>4, JoinAt
  <2> HIDE DEF s1
  <2>2. 6 + (2 + k) = 8 + k
    BY <1>1
  <2>3. s1 \in Str /\ Len(s1) = 6 + (2 + k) /\ \A i \in 1..2 + k : s1[6 + i] = s0[i]
    BY <2>1 DEF Joins
  <2> QED
    BY <2>2, <2>3
<1> HIDE DEF s1
<1>6. s2 \in Str /\ Len(s2) = 12 + k /\ \A i \in 1..8 + k : s2[4 + i] = s1[i]
  <2> DEFINE n == BigEndian(8 + k, 4)
  <2>1. n \in Str /\ Len(n) = 4
    <3>1. 8 + k \in 0..255
      BY <1>1
    <3> QED
      BY <3>1, SmallNumber
  <2>2. s2 = n \o s1
    BY <1>5 DEF writeU32LenData
  <2> HIDE DEF n, s2
  <2>3. Joins(n, 4, s1, 8 + k, s2)
    BY <1>1, <1>5, <2>1, <2>2, JoinAt
  <2> QED
    BY <1>1, <2>3 DEF Joins
<1> HIDE DEF s2
<1>7. s3 \in Str /\ Len(s3) = 13 + k /\ \A i \in 1..12 + k : s3[1 + i] = s2[i]
  <2>1. <<1>> \in Str /\ Len(<<1>>) = 1
    BY OneByte
  <2>2. Joins(<<1>>, 1, s2, 12 + k, s3)
    BY <1>6, <2>1, JoinAt
  <2> HIDE DEF s3
  <2> QED
    BY <1>1, <1>6, <2>1, <2>2 DEF Joins
<1> HIDE DEF s3
<1>8. s4 \in Str /\ Len(s4) = 17 + k /\ \A i \in 1..13 + k : s4[4 + i] = s3[i]
  <2> DEFINE n == BigEndian(13 + k, 4)
  <2>1. n \in Str /\ Len(n) = 4
    <3>1. 13 + k \in 0..255
      BY <1>1
    <3> QED
      BY <3>1, SmallNumber
  <2>2. s4 = n \o s3
    BY <1>7 DEF writeU32LenData
  <2> HIDE DEF n, s4
  <2>3. Joins(n, 4, s3, 13 + k, s4)
    BY <1>1, <1>7, <2>1, <2>2, JoinAt
  <2> QED
    BY <1>1, <2>3 DEF Joins
<1> HIDE DEF s4
<1>9. t4 \in Str /\ Len(t4) = 37
  <2>1. /\ v \in Str /\ Len(v) = 2 /\ c \in Str /\ Len(c) = 2
    BY BigEndianType DEF Of, ProtocolVersion, EcdheSuite
  <2>2. <<2>> \in Str /\ Len(<<2>>) = 1
    BY OneByte
  <2> HIDE DEF v, c
  <2>3. Joins(<<2>>, 1, v, 2, t2)
    BY <2>1, <2>2, JoinAt
  <2> HIDE DEF t2
  <2>4. t2 \in Str /\ Len(t2) = 3
    BY <2>1, <2>2, <2>3 DEF Joins
  <2>5. Joins(t2, 3, c, 2, t3)
    BY <2>1, <2>4, JoinAt
  <2> HIDE DEF t3
  <2>6. t3 \in Str /\ Len(t3) = 5
    BY <2>1, <2>4, <2>5 DEF Joins
  <2>7. Joins(t3, 5, random, 32, t4)
    BY <1>1, <2>6, JoinAt
  <2> HIDE DEF t4
  <2> QED
    BY <1>1, <2>6, <2>7 DEF Joins
<1> HIDE DEF t4
<1>10. s5 \in Str /\ Len(s5) = 54 + k /\ \A i \in 1..17 + k : s5[37 + i] = s4[i]
  <2>1. Joins(t4, 37, s4, 17 + k, s5)
    BY <1>8, <1>9, JoinAt
  <2> HIDE DEF s5
  <2> QED
    BY <1>1, <1>8, <1>9, <2>1 DEF Joins
<1> HIDE DEF s5
<1>11. /\ w \in Str /\ Len(w) = 58 + k /\ \A i \in 1..54 + k : w[4 + i] = s5[i]
       /\ w[1] = 0 /\ w[2] = 0 /\ w[3] = 0 /\ w[4] = 54 + k
  <2> DEFINE n == BigEndian(54 + k, 4)
  <2>1. /\ n \in Str /\ Len(n) = 4
        /\ n[1] = 0 /\ n[2] = 0 /\ n[3] = 0 /\ n[4] = 54 + k
    <3>1. 54 + k \in 0..255
      BY <1>1
    <3> QED
      BY <3>1, SmallNumber
  <2>2. w = n \o s5
    BY <1>10 DEF writeU32LenData
  <2> HIDE DEF n, w
  <2>3. Joins(n, 4, s5, 54 + k, w)
    BY <1>1, <1>10, <2>1, <2>2, JoinAt
  <2>4. w \in Str /\ Len(w) = 58 + k /\ \A i \in 1..54 + k : w[4 + i] = s5[i]
    BY <1>1, <2>3 DEF Joins
  <2>5. \A i \in 1..4 : w[i] = n[i]
    BY <2>3 DEF Joins
  <2> QED
    BY <2>1, <2>4, <2>5
<1> HIDE DEF w
<1>12. ASSUME NEW i \in 1..2 + k PROVE w[56 + i] = s0[i]
  <2>1. s1[6 + i] = s0[i]
    BY <1>5
  <2>2. s2[10 + i] = s1[6 + i]
    <3>1. 6 + i \in 1..8 + k /\ 4 + (6 + i) = 10 + i
      BY <1>1
    <3> QED
      BY <1>6, <3>1
  <2>3. s3[11 + i] = s2[10 + i]
    <3>1. 10 + i \in 1..12 + k /\ 1 + (10 + i) = 11 + i
      BY <1>1
    <3> QED
      BY <1>7, <3>1
  <2>4. s4[15 + i] = s3[11 + i]
    <3>1. 11 + i \in 1..13 + k /\ 4 + (11 + i) = 15 + i
      BY <1>1
    <3> QED
      BY <1>8, <3>1
  <2>5. s5[52 + i] = s4[15 + i]
    <3>1. 15 + i \in 1..17 + k /\ 37 + (15 + i) = 52 + i
      BY <1>1
    <3> QED
      BY <1>10, <3>1
  <2>6. w[56 + i] = s5[52 + i]
    <3>1. 52 + i \in 1..54 + k /\ 4 + (52 + i) = 56 + i
      BY <1>1
    <3> QED
      BY <1>11, <3>1
  <2> QED
    BY <2>1, <2>2, <2>3, <2>4, <2>5, <2>6
<1>13. w[57] = 0 /\ w[58] = k
  <2>1. 1 \in 1..2 + k /\ 2 \in 1..2 + k
    BY <1>1
  <2>2. w[56 + 1] = s0[1] /\ w[56 + 2] = s0[2]
    BY <1>12, <2>1
  <2> QED
    BY <1>3, <2>2
<1>14. ASSUME NEW i \in 1..k PROVE w[58 + i] = share[i]
  <2>1. 2 + i \in 1..2 + k /\ 56 + (2 + i) = 58 + i
    BY <1>1
  <2>2. w[56 + (2 + i)] = s0[2 + i]
    BY <1>12, <2>1
  <2> QED
    BY <1>3, <2>1, <2>2
<1> QED
  BY <1>2, <1>11, <1>13, <1>14 DEF k

(* Reads at a given place.                                                 *)
LEMMA AfterAfter ==
  ASSUME NEW p \in Str, NEW a \in Nat, NEW n \in Nat, a + n <= Len(p)
  PROVE  /\ After(a, p) \in Str /\ Len(After(a, p)) = Len(p) - a
         /\ After(n, After(a, p)) = After(a + n, p)
         /\ n \in 0..Len(After(a, p))
<1> DEFINE q == After(a, p)
           u == After(n, q)
           v == After(a + n, p)
<1>1. Len(p) \in Nat /\ p \in Seq(Byte) /\ a \in 0..Len(p) /\ a + n \in 0..Len(p)
  BY OnlyEmpty DEF Str
<1>2. /\ q \in Seq(Byte) /\ Len(q) = Len(p) - a
      /\ \A i \in 1..Len(p) - a : q[i] = p[a + i]
  BY <1>1, CutSequence
<1>3. /\ v \in Seq(Byte) /\ Len(v) = Len(p) - (a + n)
      /\ \A i \in 1..Len(p) - (a + n) : v[i] = p[(a + n) + i]
  BY <1>1, CutSequence
<1> HIDE DEF q, v
<1>4. n \in 0..Len(q)
  BY <1>1, <1>2
<1>5. /\ u \in Seq(Byte) /\ Len(u) = Len(q) - n
      /\ \A i \in 1..Len(q) - n : u[i] = q[n + i]
  BY <1>2, <1>4, CutSequence
<1> HIDE DEF u
<1>6. Len(u) = Len(v) /\ Len(u) = Len(p) - (a + n)
  BY <1>1, <1>2, <1>3, <1>5
<1>7. ASSUME NEW i \in 1..Len(u) PROVE u[i] = v[i]
  <2>1. /\ i \in 1..Len(q) - n /\ n + i \in 1..Len(p) - a
        /\ i \in 1..Len(p) - (a + n) /\ a + (n + i) = (a + n) + i
    BY <1>1, <1>2, <1>6
  <2> QED
    BY <1>2, <1>3, <1>5, <2>1
<1>8. u = v
  BY <1>3, <1>5, <1>6, <1>7, SeqEqual
<1> QED
  BY <1>2, <1>4, <1>8 DEF q, u, v, Str

LEMMA ReadFrom ==
  ASSUME NEW p \in Str, NEW a \in Nat, NEW n \in Nat, a + n <= Len(p)
  PROVE  /\ ReadFull(n, After(a, p)) = Got(First(n, After(a, p)), After(a + n, p))
         /\ Skip(n, After(a, p)) = Got(<< >>, After(a + n, p))
         /\ First(n, After(a, p)) \in Str /\ Len(First(n, After(a, p))) = n
         /\ \A i \in 1..n : First(n, After(a, p))[i] = p[a + i]
<1> DEFINE q == After(a, p)
<1>1. Len(p) \in Nat /\ p \in Seq(Byte) /\ a \in 0..Len(p)
  BY OnlyEmpty DEF Str
<1>2. /\ q \in Str /\ Len(q) = Len(p) - a /\ n \in 0..Len(q)
      /\ After(n, q) = After(a + n, p)
  BY AfterAfter
<1>3. \A i \in 1..Len(p) - a : q[i] = p[a + i]
  BY <1>1, CutSequence
<1> HIDE DEF q
<1>4. /\ First(n, q) \in Str /\ Len(First(n, q)) = n
      /\ \A i \in 1..n : First(n, q)[i] = q[i]
  BY <1>2, CutSequence DEF Str
<1>5. \A i \in 1..n : First(n, q)[i] = p[a + i]
  BY <1>1, <1>2, <1>3, <1>4
<1>6. ~ (Len(q) < n)
  BY <1>1, <1>2
<1>7. ReadFull(n, q) = Got(First(n, q), After(a + n, p))
  BY <1>2, <1>6 DEF ReadFull
<1>8. Skip(n, q) = Got(<< >>, After(a + n, p))
  BY <1>2 DEF Skip
<1> QED
  BY <1>4, <1>5, <1>7, <1>8 DEF q

(* A scan whose reads all succeed: each takes a value and leaves the next  *)
(* its input.                                                              *)
Reading(fields, at, vals) ==
  \A i \in 1..Len(fields) : ReadField(fields[i], at[i]) = Got(vals[i], at[i + 1])

HasRead(s, r, fields, at, vals) ==
  /\ s \in Readers /\ s.err = FALSE /\ s.rest = at[Len(fields) + 1]
  /\ Len(s.out) = Len(r.out) + Len(fields)
  /\ \A i \in 1..Len(r.out) : s.out[i] = r.out[i]
  /\ \A i \in 1..Len(fields) : s.out[Len(r.out) + i] = <<fields[i].name, vals[i]>>

LEMMA ScanReads ==
  ASSUME NEW fields \in Seq(Fields), NEW r \in Readers, r.err = FALSE,
         NEW at, NEW vals, at[1] = r.rest, Reading(fields, at, vals)
  PROVE  HasRead(Scan(fields, r), r, fields, at, vals)
<1> DEFINE n == Len(fields)
           m == Len(r.out)
           g == Scanned(fields, r)
           P(k) == /\ g[k].err = FALSE /\ g[k].rest = at[k + 1]
                   /\ Len(g[k].out) = m + k
                   /\ \A i \in 1..m : g[k].out[i] = r.out[i]
                   /\ \A i \in 1..k : g[k].out[m + i] = <<fields[i].name, vals[i]>>
           T == {k \in Nat : k <= n => P(k)}
<1>1. n \in Nat /\ r.out \in Seq(Names \X Str) /\ m \in Nat
  BY LenProperties DEF Readers
<1>2. /\ Scan(fields, r) = g[n] /\ g[0] = r
      /\ g \in [0..n -> Readers]
      /\ \A i \in 1..n : g[i] = IF g[i - 1].err THEN g[i - 1] ELSE Advance(fields[i], g[i - 1])
  BY ScanSteps
<1> HIDE DEF g, n, m, P
<1>3. 0 \in T
  BY <1>1, <1>2 DEF m, P
<1>4. ASSUME NEW k \in T PROVE k + 1 \in T
  <2> SUFFICES ASSUME k + 1 <= n PROVE P(k + 1)
    OBVIOUS
  <2>1. k + 1 \in 1..n /\ (k + 1) - 1 = k /\ k \in 0..n /\ k <= n
    BY <1>1
  <2>2. P(k)
    BY <2>1
  <2>12. /\ g[k].err = FALSE /\ g[k].rest = at[k + 1] /\ Len(g[k].out) = m + k
        /\ \A i \in 1..m : g[k].out[i] = r.out[i]
    BY <2>2 DEF P
  <2>13. \A i \in 1..k : g[k].out[m + i] = <<fields[i].name, vals[i]>>
    BY <2>2 DEF P
  <2> DEFINE new == <<fields[k + 1].name, vals[k + 1]>>
  <2>3. g[k + 1] = Advance(fields[k + 1], g[k]) /\ g[k] \in Readers
    BY <1>2, <2>1, <2>12
  <2>4. ReadField(fields[k + 1], g[k].rest) = Got(vals[k + 1], at[(k + 1) + 1])
    BY <2>1, <2>12 DEF n, Reading
  <2> DEFINE got == ReadField(fields[k + 1], g[k].rest)
  <2>5. got.err = FALSE /\ got.val = vals[k + 1] /\ got.rest = at[(k + 1) + 1]
    BY <2>4 DEF Got
  <2>6. Advance(fields[k + 1], g[k])
          = [rest |-> got.rest, err |-> got.err,
             out  |-> IF got.err THEN g[k].out
                      ELSE Append(g[k].out, <<fields[k + 1].name, got.val>>)]
    BY AdvanceIs
  <2> HIDE DEF got
  <2>7. /\ g[k + 1].err = FALSE /\ g[k + 1].rest = at[(k + 1) + 1]
        /\ g[k + 1].out = Append(g[k].out, new)
    BY <2>3, <2>5, <2>6
  <2>8. g[k].out \in Seq(Names \X Str)
    BY <2>3 DEF Readers
  <2> HIDE DEF new
  <2>9. /\ Len(g[k + 1].out) = m + (k + 1)
        /\ g[k + 1].out[m + (k + 1)] = new
        /\ \A i \in 1..m + k : g[k + 1].out[i] = g[k].out[i]
    <3>1. /\ Len(Append(g[k].out, new)) = Len(g[k].out) + 1
          /\ \A i \in 1..Len(g[k].out) : Append(g[k].out, new)[i] = g[k].out[i]
          /\ Append(g[k].out, new)[Len(g[k].out) + 1] = new
      BY <2>8, AppendProperties
    <3>2. (m + k) + 1 = m + (k + 1)
      BY <1>1, <2>1
    <3> QED
      BY <2>7, <2>12, <3>1, <3>2
  <2>10. \A i \in 1..m : g[k + 1].out[i] = r.out[i]
    <3> SUFFICES ASSUME NEW i \in 1..m PROVE g[k + 1].out[i] = r.out[i]
      OBVIOUS
    <3>1. i \in 1..m + k
      BY <1>1, <2>1
    <3> QED
      BY <2>12, <2>9, <3>1
  <2>11. ASSUME NEW i \in 1..k + 1
         PROVE  g[k + 1].out[m + i] = <<fields[i].name, vals[i]>>
    <3>1. CASE i = k + 1
      BY <2>9, <3>1 DEF new
    <3>2. CASE i \in 1..k
      <4>1. m + i \in 1..m + k
        BY <1>1, <2>1, <3>2
      <4>2. g[k + 1].out[m + i] = g[k].out[m + i]
        BY <2>9, <4>1
      <4> QED
        BY <2>13, <3>2, <4>2
    <3> QED
      BY <2>1, <3>1, <3>2
  <2> QED
    BY <2>7, <2>9, <2>10, <2>11 DEF P
<1>5. T = Nat
  <2>1. T \in SUBSET Nat
    OBVIOUS
  <2> HIDE DEF T
  <2>2. \A k \in T : k + 1 \in T
    BY <1>4
  <2> QED
    BY <1>3, <2>1, <2>2, Induction
<1>6. P(n) /\ g[n] \in Readers
  BY <1>1, <1>2, <1>5
<1> QED
  BY <1>2, <1>6 DEF n, m, P, HasRead

LEMMA SixFields ==
  ASSUME NEW S, NEW a \in S, NEW b \in S, NEW c \in S, NEW d \in S, NEW e \in S, NEW f \in S
  PROVE  /\ <<a, b, c, d, e, f>> \in Seq(S) /\ Len(<<a, b, c, d, e, f>>) = 6
         /\ \A i \in 1..6 : i \in {1, 2, 3, 4, 5, 6}
OBVIOUS

LEMMA HelloFieldsAre ==
  /\ HelloFields \in Seq(Fields) /\ Len(HelloFields) = 6
  /\ HelloFields[1].name = "packLen" /\ HelloFields[2].name = "flag"
  /\ HelloFields[3].name = "protocolVersion" /\ HelloFields[4].name = "cipherSuites"
  /\ HelloFields[5].name = "random to array index" /\ HelloFields[6].name = "ecPoint"
  /\ \A q : /\ ReadField(HelloFields[1], q) = ReadFull(4, q)
            /\ ReadField(HelloFields[2], q) = Skip(1, q)
            /\ ReadField(HelloFields[3], q) = ReadFull(2, q)
            /\ ReadField(HelloFields[4], q) = ReadFull(2, q)
            /\ ReadField(HelloFields[5], q) = Skip(47, q)
            /\ ReadField(HelloFields[6], q) = Prefixed(2, Read, q)
<1> DEFINE a == Field("packLen", "number", 4)
           b == Field("flag", "skip", 1)
           c == Field("protocolVersion", "number", 2)
           d == Field("cipherSuites", "number", 2)
           e == Field("random to array index", "skip", 47)
           f == Field("ecPoint", "data", 2)
<1>1. a \in Fields /\ b \in Fields /\ c \in Fields /\ d \in Fields /\ e \in Fields /\ f \in Fields
  BY DEF Field, Fields, Names, RecordNames, Hows
<1>2. /\ a.name = "packLen" /\ b.name = "flag" /\ c.name = "protocolVersion"
      /\ d.name = "cipherSuites" /\ e.name = "random to array index" /\ f.name = "ecPoint"
  BY DEF Field
<1>3. /\ a.how = "number" /\ a.width = 4 /\ b.how = "skip" /\ b.width = 1
      /\ c.how = "number" /\ c.width = 2 /\ d.how = "number" /\ d.width = 2
      /\ e.how = "skip" /\ e.width = 47 /\ f.how = "data" /\ f.width = 2
  BY DEF Field
<1>4. HelloFields = <<a, b, c, d, e, f>>
  <2>1. 32 + 4 + 1 + 4 + 2 + 4 = 47
    OBVIOUS
  <2> QED
    BY <2>1 DEF HelloFields
<1> HIDE DEF a, b, c, d, e, f
<1>5. HelloFields \in Seq(Fields) /\ Len(HelloFields) = 6
  BY <1>1, <1>4, SixFields
<1>6. /\ HelloFields[1] = a /\ HelloFields[2] = b /\ HelloFields[3] = c
      /\ HelloFields[4] = d /\ HelloFields[5] = e /\ HelloFields[6] = f
  BY <1>4
<1>7. ASSUME NEW q
      PROVE  /\ ReadField(a, q) = ReadFull(4, q) /\ ReadField(b, q) = Skip(1, q)
             /\ ReadField(c, q) = ReadFull(2, q) /\ ReadField(d, q) = ReadFull(2, q)
             /\ ReadField(e, q) = Skip(47, q) /\ ReadField(f, q) = Prefixed(2, Read, q)
  BY <1>1, <1>3, FieldRead
<1> QED
  BY <1>2, <1>5, <1>6, <1>7

(* What readServerHello makes of a string that has a byte where the share  *)
(* begins.                                                                 *)
LEMMA HelloParsed ==
  ASSUME NEW p \in Str, Len(p) >= 59
  PROVE  LET length == Number(First(4, After(0, p)))
             n == Number(First(2, After(56, p)))
             r == readServerHello(p)
         IN  /\ r.err <=> Len(p) # length + 4
             /\ ~ r.err => r.val = Read(n, After(58, p)).val
             /\ r.err => r.val = << >>
<1> DEFINE f(i) == HelloFields[i]
           share == Read(Number(First(2, After(56, p))), After(58, p))
           a == First(4, After(0, p))
           v == First(2, After(5, p))
           c == First(2, After(7, p))
           at == <<p, After(4, p), After(5, p), After(7, p), After(9, p), After(56, p),
                   share.rest>>
           vals == <<a, << >>, v, c, << >>, share.val>>
           s == Scan(HelloFields, Reader(p))
<1>1. Len(p) \in Nat /\ After(0, p) = p
  <2>1. Len(p) \in Nat
    BY OnlyEmpty
  <2> QED
    BY <2>1, SubSeqFull DEF After, Str
<1>2. /\ ReadFull(4, p) = Got(a, After(4, p))
      /\ Skip(1, After(4, p)) = Got(<< >>, After(5, p))
      /\ ReadFull(2, After(5, p)) = Got(v, After(7, p))
      /\ ReadFull(2, After(7, p)) = Got(c, After(9, p))
      /\ Skip(47, After(9, p)) = Got(<< >>, After(56, p))
      /\ ReadFull(2, After(56, p)) = Got(First(2, After(56, p)), After(58, p))
  <2>1. ReadFull(4, After(0, p)) = Got(a, After(0 + 4, p))
    BY <1>1, ReadFrom
  <2>2. Skip(1, After(4, p)) = Got(<< >>, After(4 + 1, p))
    BY <1>1, ReadFrom
  <2>3. ReadFull(2, After(5, p)) = Got(v, After(5 + 2, p))
    BY <1>1, ReadFrom
  <2>4. ReadFull(2, After(7, p)) = Got(c, After(7 + 2, p))
    BY <1>1, ReadFrom
  <2>5. Skip(47, After(9, p)) = Got(<< >>, After(9 + 47, p))
    BY <1>1, ReadFrom
  <2>6. ReadFull(2, After(56, p)) = Got(First(2, After(56, p)), After(56 + 2, p))
    BY <1>1, ReadFrom
  <2>7. /\ 0 + 4 = 4 /\ 4 + 1 = 5 /\ 5 + 2 = 7 /\ 7 + 2 = 9 /\ 9 + 47 = 56 /\ 56 + 2 = 58
    OBVIOUS
  <2> QED
    BY <1>1, <2>1, <2>2, <2>3, <2>4, <2>5, <2>6, <2>7
<1>3. Prefixed(2, Read, After(56, p)) = Got(share.val, share.rest)
  <2>1. After(58, p) # << >>
    <3>1. After(58, p) \in Str /\ Len(After(58, p)) = Len(p) - 58
      BY <1>1, AfterAfter
    <3> QED
      BY <1>1, <3>1, OnlyEmpty
  <2>2. share = Got(share.val, share.rest)
    BY <2>1 DEF Read, Got
  <2>3. Prefixed(2, Read, After(56, p)) = share
    <3>1. /\ ReadFull(2, After(56, p)).err = FALSE
          /\ ReadFull(2, After(56, p)).val = First(2, After(56, p))
          /\ ReadFull(2, After(56, p)).rest = After(58, p)
      BY <1>2 DEF Got
    <3> QED
      BY <3>1, PrefixedRead
  <2> HIDE DEF share
  <2> QED
    BY <2>2, <2>3
<1> HIDE DEF share, a, v, c
<1>4. /\ Len(HelloFields) = 6 /\ HelloFields \in Seq(Fields)
      /\ ReadField(f(1), p) = ReadFull(4, p)
      /\ ReadField(f(2), After(4, p)) = Skip(1, After(4, p))
      /\ ReadField(f(3), After(5, p)) = ReadFull(2, After(5, p))
      /\ ReadField(f(4), After(7, p)) = ReadFull(2, After(7, p))
      /\ ReadField(f(5), After(9, p)) = Skip(47, After(9, p))
      /\ ReadField(f(6), After(56, p)) = Prefixed(2, Read, After(56, p))
  BY HelloFieldsAre
<1>5. ASSUME NEW i \in 1..Len(HelloFields)
      PROVE  ReadField(HelloFields[i], at[i]) = Got(vals[i], at[i + 1])
  <2>1. /\ at[1] = p /\ at[2] = After(4, p) /\ at[3] = After(5, p) /\ at[4] = After(7, p)
        /\ at[5] = After(9, p) /\ at[6] = After(56, p) /\ at[7] = share.rest
        /\ vals[1] = a /\ vals[2] = << >> /\ vals[3] = v /\ vals[4] = c
        /\ vals[5] = << >> /\ vals[6] = share.val
    OBVIOUS
  <2> HIDE DEF at, vals
  <2>2. /\ ReadField(f(1), at[1]) = Got(vals[1], at[2])
        /\ ReadField(f(2), at[2]) = Got(vals[2], at[3])
        /\ ReadField(f(3), at[3]) = Got(vals[3], at[4])
        /\ ReadField(f(4), at[4]) = Got(vals[4], at[5])
        /\ ReadField(f(5), at[5]) = Got(vals[5], at[6])
        /\ ReadField(f(6), at[6]) = Got(vals[6], at[7])
    BY <1>2, <1>3, <1>4, <2>1
  <2>3. i = 1 \/ i = 2 \/ i = 3 \/ i = 4 \/ i = 5 \/ i = 6
    BY <1>4
  <2>4. 1 + 1 = 2 /\ 2 + 1 = 3 /\ 3 + 1 = 4 /\ 4 + 1 = 5 /\ 5 + 1 = 6 /\ 6 + 1 = 7
    OBVIOUS
  <2> QED
    BY <2>2, <2>3, <2>4
<1>6. Reader(p) \in Readers /\ Reader(p).err = FALSE /\ Reader(p).rest = at[1] /\ Reader(p).out = << >>
  BY ReaderType DEF Reader
<1> HIDE DEF at, vals
<1>7. /\ s.err = FALSE /\ Len(s.out) = Len(<< >>) + 6
      /\ \A i \in 1..6 : s.out[Len(<< >>) + i] = <<HelloFields[i].name, vals[i]>>
  <2>1. \A i \in 1..Len(HelloFields) :
          ReadField(HelloFields[i], at[i]) = Got(vals[i], at[i + 1])
    BY <1>5
  <2>2. Reading(HelloFields, at, vals)
    BY <2>1 DEF Reading
  <2>3. PICK r : r = Reader(p)
    OBVIOUS
  <2>4. r \in Readers /\ r.err = FALSE /\ at[1] = r.rest /\ r.out = << >>
    BY <1>6, <2>3
  <2>5. HelloFields \in Seq(Fields)
    BY <1>4
  <2>6. HasRead(Scan(HelloFields, r), r, HelloFields, at, vals)
    BY <2>2, <2>4, <2>5, ScanReads
  <2> QED
    BY <1>4, <2>3, <2>4, <2>6 DEF HasRead
<1>8. /\ Len(s.out) = 6
      /\ \A i \in 1..6 : s.out[i] = <<HelloFields[i].name, vals[i]>>
  BY <1>7, EmptyStr
<1>9. /\ Value(s, "packLen") = a /\ Value(s, "ecPoint") = share.val
  <2>1. /\ vals[1] = a /\ vals[6] = share.val
    BY DEF vals
  <2> HIDE DEF s
  <2>2. \A j \in 1..6 : s.out[j][1] = HelloFields[j].name /\ s.out[j][2] = vals[j]
    BY <1>8
  <2>3. /\ s.out[1][1] = "packLen" /\ s.out[2][1] = "flag"
        /\ s.out[3][1] = "protocolVersion" /\ s.out[4][1] = "cipherSuites"
        /\ s.out[5][1] = "random to array index" /\ s.out[6][1] = "ecPoint"
        /\ s.out[1][2] = a /\ s.out[6][2] = share.val
    <3>1. /\ 1 \in 1..6 /\ 2 \in 1..6 /\ 3 \in 1..6 /\ 4 \in 1..6 /\ 5 \in 1..6
          /\ 6 \in 1..6
      OBVIOUS
    <3> QED
      BY <2>1, <2>2, <3>1, HelloFieldsAre
  <2>4. \A j \in 1..6 : j = 1 \/ j = 2 \/ j = 3 \/ j = 4 \/ j = 5 \/ j = 6
    OBVIOUS
  <2>5. ASSUME NEW k \in {1, 6} PROVE Value(s, s.out[k][1]) = s.out[k][2]
    <3>1. /\ k \in 1..Len(s.out) /\ Len(s.out) \in Nat
      BY <1>8
    <3>2. \A j \in 1..6 : s.out[j][1] = s.out[k][1] => j = k
      BY <2>3, <2>4
    <3> QED
      BY <1>8, <3>1, <3>2, ValueOf
  <2> QED
    BY <2>3, <2>5
<1>10. readServerHello(p) = IF s.err \/ Len(p) # Number(Value(s, "packLen")) + 4
                            THEN Failed(s.rest) ELSE Got(Value(s, "ecPoint"), s.rest)
  BY DEF readServerHello, With
<1> HIDE DEF s
<1>11. readServerHello(p) = IF Len(p) # Number(a) + 4
                            THEN Failed(s.rest) ELSE Got(share.val, s.rest)
  BY <1>7, <1>9, <1>10
<1> QED
  BY <1>11 DEF Failed, Got, share, a

(* Numbers that are one byte after zeros, and a read of all or of nothing. *)
LEMMA SmallRead ==
  ASSUME NEW b \in Str, NEW n \in 0..255
  PROVE  /\ Len(b) = 2 /\ b[1] = 0 /\ b[2] = n => Number(b) = n
         /\ Len(b) = 4 /\ b[1] = 0 /\ b[2] = 0 /\ b[3] = 0 /\ b[4] = n => Number(b) = n
<1>1. /\ BigEndian(n, 2) \in Str /\ Len(BigEndian(n, 2)) = 2
      /\ BigEndian(n, 2)[1] = 0 /\ BigEndian(n, 2)[2] = n
      /\ BigEndian(n, 4) \in Str /\ Len(BigEndian(n, 4)) = 4
      /\ BigEndian(n, 4)[1] = 0 /\ BigEndian(n, 4)[2] = 0
      /\ BigEndian(n, 4)[3] = 0 /\ BigEndian(n, 4)[4] = n
  BY SmallNumber
<1>2. Number(BigEndian(n, 2)) = n /\ Number(BigEndian(n, 4)) = n
  BY NumberOfBigEndian DEF Limit2, Limit4
<1> DEFINE two  == BigEndian(n, 2)
           four == BigEndian(n, 4)
<1> HIDE DEF two, four
<1>3. ASSUME Len(b) = 2, b[1] = 0, b[2] = n PROVE b = two
  <2>1. \A i \in 1..2 : b[i] = two[i]
    <3>1. \A i \in 1..2 : i = 1 \/ i = 2
      OBVIOUS
    <3> QED
      BY <1>1, <1>3, <3>1 DEF two
  <2>2. two \in Str /\ Len(two) = 2
    BY <1>1 DEF two
  <2> QED
    BY <1>3, <2>1, <2>2, SeqEqual DEF Str
<1>4. ASSUME Len(b) = 4, b[1] = 0, b[2] = 0, b[3] = 0, b[4] = n PROVE b = four
  <2>1. \A i \in 1..4 : b[i] = four[i]
    <3>1. \A i \in 1..4 : i = 1 \/ i = 2 \/ i = 3 \/ i = 4
      OBVIOUS
    <3> QED
      BY <1>1, <1>4, <3>1 DEF four
  <2>2. four \in Str /\ Len(four) = 4
    BY <1>1 DEF four
  <2> QED
    BY <1>4, <2>1, <2>2, SeqEqual DEF Str
<1> QED
  BY <1>2, <1>3, <1>4 DEF two, four

LEMMA ReadAllOrNone ==
  ASSUME NEW z \in Str, z # << >>
  PROVE  Read(Len(z), z).val = z /\ Read(0, z).val = << >>
<1>1. z \o << >> = z /\ << >> \o z = z /\ << >> \in Str /\ Len(<< >>) = 0
  BY ConcatEmptySeq, EmptyStr DEF Str
<1>2. Begins(z, << >>, z \o << >>) /\ Begins(z, << >>, << >> \o z)
  BY <1>1 DEF Begins
<1>3. Len(z) \in Nat
  BY OnlyEmpty
<1>4. PICK e : e = << >>
  OBVIOUS
<1>5. /\ e \in Str /\ Len(e) = 0 /\ Len(e) <= Len(z) /\ Len(z) <= Len(z)
      /\ Begins(z, e, e \o z) /\ Begins(z, e, z \o e)
  BY <1>1, <1>2, <1>3, <1>4
<1>6. Read(Len(z), z).val = z
  BY <1>5, ReadTaken
<1>7. Read(Len(e), z).val = e
  BY <1>5, ReadTaken
<1> QED
  BY <1>4, <1>5, <1>6, <1>7

(* The bytes of the lengths of a hello and of its share.                   *)
LEMMA HelloNumbers ==
  ASSUME NEW p \in Str, Len(p) >= 59
  PROVE  LET a == First(4, After(0, p))
             c == First(2, After(56, p))
         IN  /\ a \in Str /\ Len(a) = 4 /\ \A i \in 1..4 : a[i] = p[i]
             /\ c \in Str /\ Len(c) = 2 /\ \A i \in 1..2 : c[i] = p[56 + i]
<1> DEFINE F(n, w) == First(w, After(n, p))
<1>1. Len(p) \in Nat
  BY OnlyEmpty
<1>2. ASSUME NEW n \in Nat, NEW w \in Nat, n + w <= Len(p)
      PROVE  /\ F(n, w) \in Str /\ Len(F(n, w)) = w
             /\ \A i \in 1..w : F(n, w)[i] = p[n + i]
  BY <1>2, ReadFrom
<1> HIDE DEF F
<1>3. /\ 0 \in Nat /\ 4 \in Nat /\ 0 + 4 <= Len(p)
      /\ 56 \in Nat /\ 2 \in Nat /\ 56 + 2 <= Len(p)
  BY <1>1
<1>4. /\ F(0, 4) \in Str /\ Len(F(0, 4)) = 4
      /\ \A i \in 1..4 : F(0, 4)[i] = p[0 + i]
  BY <1>2, <1>3
<1>5. /\ F(56, 2) \in Str /\ Len(F(56, 2)) = 2
      /\ \A i \in 1..2 : F(56, 2)[i] = p[56 + i]
  BY <1>2, <1>3
<1>6. \A i \in 1..4 : 0 + i = i
  OBVIOUS
<1> QED
  BY <1>4, <1>5, <1>6 DEF F

(* The first m bytes of w, and zeros for the others.                       *)
KeptTo(m, w, p) ==
  /\ p \in Str /\ Len(p) = Len(w)
  /\ \A i \in 1..Len(w) : p[i] = IF i <= m THEN w[i] ELSE 0

(* The share taken from a hello of which only m bytes are there: it is     *)
(* that of the server only if nothing is missing.                          *)
LEMMA HelloOf ==
  ASSUME NEW random \in Of(32), NEW share \in Shares, share[Len(share)] # 0,
         NEW p, NEW m \in 0..Len(p), KeptTo(m, ServerHello(random, share), p)
  PROVE  LET r == readServerHello(p)
         IN  /\ r.err <=> m < 4
             /\ m = Len(p) => r.val = share
             /\ m # Len(p) => r.val # share
<1> DEFINE k == Len(share)
           w == ServerHello(random, share)
           a == First(4, After(0, p))
           c == First(2, After(56, p))
           z == After(58, p)
           r == readServerHello(p)
<1>1. /\ share \in Str /\ k \in 1..201 /\ share # << >>
  BY ShareType
<1>2. /\ w \in Str /\ Len(w) = 58 + k
      /\ w[1] = 0 /\ w[2] = 0 /\ w[3] = 0 /\ w[4] = 54 + k
      /\ w[57] = 0 /\ w[58] = k
      /\ \A i \in 1..k : w[58 + i] = share[i]
  BY HelloBytes
<1>3. /\ p \in Str /\ Len(p) = 58 + k /\ m \in 0..58 + k
      /\ \A i \in 1..58 + k : p[i] = IF i <= m THEN w[i] ELSE 0
  BY <1>2 DEF KeptTo
<1> HIDE DEF w
<1>4. /\ r.err <=> Len(p) # Number(a) + 4
      /\ ~ r.err => r.val = Read(Number(c), z).val
      /\ r.err => r.val = << >>
  BY <1>1, <1>3, HelloParsed
<1>5. /\ a \in Str /\ Len(a) = 4 /\ \A i \in 1..4 : a[i] = p[i]
      /\ c \in Str /\ Len(c) = 2 /\ \A i \in 1..2 : c[i] = p[56 + i]
  <2>1. p \in Str /\ Len(p) >= 59
    BY <1>1, <1>3
  <2> QED
    BY <2>1, HelloNumbers
<1>6. /\ z \in Str /\ Len(z) = k /\ \A i \in 1..k : z[i] = p[58 + i]
  <2>1. 58 \in 0..Len(p) /\ p \in Seq(Byte)
    BY <1>1, <1>3 DEF Str
  <2>2. /\ z \in Seq(Byte) /\ Len(z) = Len(p) - 58
        /\ \A i \in 1..Len(p) - 58 : z[i] = p[58 + i]
    BY <2>1, CutSequence
  <2>3. Len(p) - 58 = k
    BY <1>1, <1>3
  <2> HIDE DEF z, k
  <2> QED
    BY <2>2, <2>3 DEF Str
<1>7. z # << >>
  BY <1>1, <1>6, OnlyEmpty
<1>8. Read(k, z).val = z /\ Read(0, z).val = << >>
  BY <1>6, <1>7, ReadAllOrNone
<1> HIDE DEF a, c, z, r, k
<1>9. Number(a) = IF m < 4 THEN 0 ELSE 54 + k
  <2>1. /\ a[1] = p[1] /\ a[2] = p[2] /\ a[3] = p[3] /\ a[4] = p[4]
    <3>1. 1 \in 1..4 /\ 2 \in 1..4 /\ 3 \in 1..4 /\ 4 \in 1..4
      OBVIOUS
    <3> QED
      BY <1>5, <3>1
  <2>2. /\ p[1] = 0 /\ p[2] = 0 /\ p[3] = 0 /\ p[4] = IF m < 4 THEN 0 ELSE 54 + k
    <3>1. 1 \in 1..58 + k /\ 2 \in 1..58 + k /\ 3 \in 1..58 + k /\ 4 \in 1..58 + k
      BY <1>1
    <3>2. m < 4 <=> ~ (4 <= m)
      BY <1>1, <1>3
    <3> QED
      BY <1>2, <1>3, <3>1, <3>2
  <2>3. 0 \in 0..255 /\ 54 + k \in 0..255
    BY <1>1
  <2> QED
    BY <1>5, <2>1, <2>2, <2>3, SmallRead
<1>10. Number(c) = IF m < 58 THEN 0 ELSE k
  <2>1. c[1] = p[57] /\ c[2] = p[58]
    <3>1. 1 \in 1..2 /\ 2 \in 1..2 /\ 56 + 1 = 57 /\ 56 + 2 = 58
      OBVIOUS
    <3> QED
      BY <1>5, <3>1
  <2>2. p[57] = 0 /\ p[58] = IF m < 58 THEN 0 ELSE k
    <3>1. 57 \in 1..58 + k /\ 58 \in 1..58 + k
      BY <1>1
    <3>2. m < 58 <=> ~ (58 <= m)
      BY <1>1, <1>3
    <3> QED
      BY <1>2, <1>3, <3>1, <3>2
  <2>3. 0 \in 0..255 /\ k \in 0..255
    BY <1>1
  <2>4. PICK j : j = IF m < 58 THEN 0 ELSE k
    OBVIOUS
  <2>5. j \in 0..255 /\ c[1] = 0 /\ c[2] = j
    BY <2>1, <2>2, <2>3, <2>4
  <2> QED
    BY <1>5, <2>4, <2>5, SmallRead
<1>11. r.err <=> m < 4
  BY <1>1, <1>3, <1>4, <1>9
<1>12. CASE m < 58
  <2>1. m # Len(p)
    BY <1>1, <1>3, <1>12
  <2>2. r.val = << >>
    BY <1>4, <1>8, <1>10, <1>12
  <2> QED
    BY <1>1, <1>11, <2>1, <2>2 DEF r
<1>13. CASE ~ (m < 58)
  <2>1. ~ r.err
    BY <1>3, <1>11, <1>13
  <2>2. r.val = z
    BY <1>4, <1>8, <1>10, <1>13, <2>1
  <2>3. ASSUME m = Len(p) PROVE z = share
    <3>1. ASSUME NEW i \in 1..k PROVE z[i] = share[i]
      <4>1. 58 + i \in 1..58 + k /\ 58 + i <= m
        BY <1>1, <1>3, <2>3
      <4> QED
        BY <1>2, <1>3, <1>6, <4>1
    <3> QED
      BY <1>1, <1>6, <3>1, SeqEqual DEF Str, k
  <2>4. ASSUME m # Len(p) PROVE z # share
    <3>1. k \in 1..k /\ 58 + k \in 1..58 + k /\ ~ (58 + k <= m)
      BY <1>1, <1>3, <2>4
    <3>2. z[k] = 0
      BY <1>3, <1>6, <3>1
    <3> QED
      BY <3>2 DEF k
  <2> QED
    BY <1>11, <2>2, <2>3, <2>4 DEF r
<1> QED
  BY <1>12, <1>13

(* A payload padded, byte by byte.                                         *)
LEMMA PaddedAt ==
  ASSUME NEW data \in Str, NEW m \in 0..Len(data)
  PROVE  KeptTo(m, data, First(m, data) \o Zeros(Len(data) - m))
<1> DEFINE n == Len(data)
           a == First(m, data)
           b == Zeros(n - m)
           p == a \o b
<1>1. n \in Nat /\ m \in 0..n /\ n - m \in Nat
  BY OnlyEmpty
<1>2. a \in Str /\ Len(a) = m /\ \A i \in 1..m : a[i] = data[i]
  BY CutSequence DEF Str
<1>3. b \in Str /\ Len(b) = n - m /\ \A i \in 1..n - m : b[i] = 0
  <2>1. b \in Str /\ Len(b) = n - m
    BY <1>1, ZerosType DEF Of
  <2> QED
    BY <2>1 DEF Zeros
<1>4. Joins(a, m, b, n - m, p)
  <2> HIDE DEF a, b
  <2> QED
    BY <1>2, <1>3, JoinAt
<1> HIDE DEF a, b, p
<1>5. p \in Str /\ Len(p) = n
  BY <1>1, <1>4 DEF Joins
<1>6. ASSUME NEW i \in 1..n PROVE p[i] = IF i <= m THEN data[i] ELSE 0
  <2>1. CASE i <= m
    <3>1. i \in 1..m
      BY <1>1, <2>1
    <3> QED
      BY <1>2, <1>4, <2>1, <3>1 DEF Joins
  <2>2. CASE ~ (i <= m)
    <3>1. i - m \in 1..n - m /\ m + (i - m) = i
      BY <1>1, <2>2
    <3>2. p[m + (i - m)] = b[i - m]
      BY <1>4, <3>1 DEF Joins
    <3> QED
      BY <1>3, <2>2, <3>1, <3>2
  <2> QED
    BY <2>1, <2>2
<1> QED
  BY <1>5, <1>6 DEF KeptTo, p, a, b, n

(* A sample that is called a ServerHello is one, and its last value is the *)
(* share that it ends with.                                                *)
WrittenHello(s) ==
  \E random \in Of(32), share \in Shares :
    /\ s.record.data = ServerHello(random, share)
    /\ share = s.values[Len(s.values)][2] /\ share[Len(share)] # 0

HellosWritten == \A s \in Samples : s.name = "ServerHello" => WrittenHello(s)

LEMMA HelloAt ==
  ASSUME AllFit, HellosWritten, WalkInv, NEW i \in DOMAIN records,
         sent[i].name = "ServerHello"
  PROVE  LET hello == readServerHello(records[i].raw)
             share == sent[i].values[Len(sent[i].values)][2]
         IN  IF i <= Whole THEN ~hello.err /\ hello.val = share
             ELSE /\ hello.err <=> Len(Remainder) < HeaderLen + 4
                  /\ hello.val # share
<1> DEFINE n == Len(sent)
           data == sent[i].record.data
           raw == records[i].raw
           hello == readServerHello(raw)
           last == sent[i].values[Len(sent[i].values)][2]
<1>1. Captured /\ Walking /\ (InStep \/ PaddedLast) /\ Sending
  BY DEF WalkInv, Captured
<1>2. /\ n \in Nat /\ n > 0 /\ Len(records) \in Nat /\ i \in 1..Len(records)
      /\ Len(records) <= n
  <2>1. n \in Nat /\ n > 0
    BY <1>1, SentType
  <2>2. Len(records) \in Nat /\ i \in 1..Len(records)
    BY <1>1, LenProperties DEF Walking
  <2> QED
    BY <1>1, <2>1, <2>2 DEF InStep, PaddedLast
<1>3. i \in 1..n
  BY <1>2
<1>4. sent[i] \in Samples /\ Fits(sent[i].record) /\ data \in Str
  <2>1. sent[i] \in Samples
    BY <1>1, <1>3, ElementOfSeq DEF Sending
  <2>2. Fits(sent[i].record)
    BY <2>1 DEF AllFit
  <2> QED
    BY <2>1, <2>2, SerializedIs
<1>5. PICK random \in Of(32), share \in Shares :
        data = ServerHello(random, share) /\ share = last /\ share[Len(share)] # 0
  BY <1>4 DEF HellosWritten, WrittenHello
<1> HIDE DEF data
<1>6. Len(data) \in Nat /\ Len(data) > 4
  <2>1. Len(ServerHello(random, share)) = 58 + Len(share)
    BY HelloBytes
  <2>2. Len(share) \in 1..201
    BY ShareType
  <2>3. Len(data) = 58 + Len(share)
    BY <1>5, <2>1
  <2> QED
    BY <2>2, <2>3
<1> USE DEF data
<1>7. Whole = IF Missing = << >> THEN n ELSE n - 1
  BY <1>1, WholeIs
<1>8. ASSUME AsSent(i) PROVE ~ hello.err /\ hello.val = last
  <2>1. raw = data
    BY <1>8 DEF AsSent
  <2>2. Len(data) \in 0..Len(data) /\ ~ (Len(data) < 4)
    BY <1>6
  <2> HIDE DEF data, raw
  <2>3. KeptTo(Len(data), ServerHello(random, share), data)
    BY <1>4, <1>5 DEF KeptTo
  <2>4. LET r == readServerHello(data)
        IN  (r.err <=> Len(data) < 4) /\ (Len(data) = Len(data) => r.val = share)
    BY <1>5, <2>2, <2>3, HelloOf
  <2> QED
    BY <1>5, <2>1, <2>2, <2>4
<1>9. CASE InStep
  <2>1. AsSent(i)
    BY <1>2, <1>9 DEF InStep
  <2>2. i <= Whole
    <3>1. /\ Len(records) = n => Missing = << >>
          /\ Len(records) \in Nat /\ n \in Nat /\ Len(records) <= n
      BY <1>1, <1>9, InStepAt
    <3> QED
      BY <1>2, <1>7, <3>1
  <2> QED
    BY <1>8, <2>1, <2>2
<1>10. CASE PaddedLast
  <2>1. /\ Missing # << >> /\ Len(Remainder) > HeaderLen
        /\ \A j \in 1..n - 1 : AsSent(j)
        /\ records[n].raw = Padded(n)
    BY <1>10 DEF PaddedLast
  <2>2. Whole = n - 1
    BY <1>7, <2>1
  <2>3. CASE i <= n - 1
    <3>1. i \in 1..n - 1
      BY <1>3, <2>3
    <3> QED
      BY <1>8, <2>1, <2>2, <2>3, <3>1
  <2>4. CASE i = n
    <3> DEFINE m == Len(Remainder) - HeaderLen
    <3>1. /\ Len(Remainder) \in Nat /\ Len(Missing) \in Nat /\ Len(Missing) # 0
          /\ Len(Remainder) + Len(Missing) = Len(data) + HeaderLen
      <4>1. Begins(Remainder, Missing, Left(n - 1))
        BY <1>1, <2>2, WholeIs
      <4>2. /\ Remainder \in Str /\ Missing \in Str
            /\ Remainder \o Missing = Left(n - 1)
        BY <4>1 DEF Begins
      <4>3. Len(Remainder \o Missing) = Len(Remainder) + Len(Missing)
        BY <4>2, JoinStr
      <4>4. /\ Len(Left(n - 1)) = Len(Sent[n]) + Len(Left(n)) /\ Len(Left(n)) = 0
            /\ Len(Sent[n]) \in Nat /\ Len(Sent[n]) = Len(data) + HeaderLen
        <5>1. n \in 1..n
          BY <1>2
        <5>2. Len(Left(n - 1)) = Len(Sent[n]) + Len(Left(n)) /\ Len(Left(n)) = 0
          BY <1>1, <5>1, LeftLens
        <5>3. Len(Sent[n]) \in Nat /\ Len(Sent[n]) = Len(sent[n].record.data) + HeaderLen
          BY <1>1, <5>1, SentType
        <5> QED
          BY <2>4, <5>2, <5>3
      <4>5. Len(Left(n - 1)) = Len(data) + HeaderLen
        <5> HIDE DEF data
        <5> QED
          BY <4>4
      <4>6. Len(Remainder) \in Nat /\ Len(Missing) \in Nat /\ Len(Missing) # 0
        BY <2>1, <4>2, OnlyEmpty
      <4> QED
        BY <4>2, <4>3, <4>5, <4>6
    <3>2. m \in 0..Len(data) /\ m # Len(data) /\ (m < 4 <=> Len(Remainder) < HeaderLen + 4)
      BY <1>6, <2>1, <3>1 DEF HeaderLen
    <3> HIDE DEF m, data
    <3>3. raw = First(m, data) \o Zeros(Len(data) - m)
      BY <2>1, <2>4 DEF Padded, m, data
    <3> DEFINE p == First(m, data) \o Zeros(Len(data) - m)
    <3>4. KeptTo(m, data, p)
      BY <1>4, <3>2, PaddedAt
    <3> HIDE DEF p
    <3>5. KeptTo(m, ServerHello(random, share), p) /\ Len(p) = Len(data) /\ m \in 0..Len(p)
      BY <1>5, <3>2, <3>4 DEF KeptTo
    <3>6. LET r == readServerHello(p)
          IN  (r.err <=> m < 4) /\ (m # Len(p) => r.val # share)
      BY <1>5, <3>5, HelloOf
    <3>7. raw = p /\ m # Len(p) /\ ~ (i <= Whole)
      BY <1>2, <2>2, <2>4, <3>2, <3>3, <3>5 DEF p
    <3> QED
      BY <1>5, <3>2, <3>6, <3>7
  <2> QED
    BY <1>2, <1>3, <2>3, <2>4
<1> QED
  BY <1>1, <1>9, <1>10

(* From a ServerHello that is wholly in the capture the client takes the   *)
(* server's share, whatever it is; from one that is cut off and padded     *)
(* with zeros, never (readServerHello, mmtls/server_hello.go).             *)
THEOREM HelloTaken ==
  ASSUME AllFit, HellosWritten
  PROVE  Spec => []HelloRead
<1>1. Init => WalkInv
  BY InitWalk
<1>2. WalkInv /\ [Next]_vars => WalkInv'
  BY ParseStep, EndStep DEF Next
<1>3. WalkInv => HelloRead
  BY HelloAt DEF HelloRead
<1> QED
  BY <1>1, <1>2, <1>3, PTL DEF Spec

=============================================================================
