-------------------------------- MODULE Bytes --------------------------------
(***************************************************************************)
(* Byte strings and how the client writes and reads them (utility.go and   *)
(* the parts of encoding/binary, bytes.Reader and io it is built on).      *)
(* What matters is what a read does when bytes are missing: some reads     *)
(* fail, some pad with zeros, some do not look.                            *)
(***************************************************************************)
EXTENDS Naturals, Sequences, SequencesExt

CONSTANT Base  (* how many values a byte has: 256                          *)

ASSUME BaseAssumption == Base \in Nat /\ Base > 1

Byte == 0..Base - 1

Zeros(n) == [i \in 1..n |-> 0]

(* binary.BigEndian of width w: what does not fit is cut off.              *)
BigEndian(n, w) == [i \in 1..w |-> (n \div Base^(w - i)) % Base]

Number(bytes) ==
  LET upTo[i \in 0..Len(bytes)] ==
        IF i = 0 THEN 0 ELSE upTo[i - 1] * Base + bytes[i]
  IN  upTo[Len(bytes)]

writeU16LenData(d) == BigEndian(Len(d), 2) \o d
writeU32LenData(d) == BigEndian(Len(d), 4) \o d

-----------------------------------------------------------------------------
(* One read: an error or a value, and what is left for the next read.      *)

First(n, in) == SubSeq(in, 1, n)
After(n, in) == SubSeq(in, n + 1, Len(in))

Got(val, rest) == [err |-> FALSE, val |-> val, rest |-> rest]
Failed(rest)   == [err |-> TRUE, val |-> << >>, rest |-> rest]

(* io.ReadFull, and binary.Read of a fixed width: all or an error.  What a *)
(* failed read had in hand is consumed.                                    *)
ReadFull(n, in) ==
  IF Len(in) < n THEN Failed(<< >>) ELSE Got(First(n, in), After(n, in))

(* bytes.Reader.Read into n zero bytes: an error only at the end of the    *)
(* input, even when nothing is asked for; else as many bytes as there are. *)
Read(n, in) ==
  IF in = << >> THEN Failed(in)
  ELSE LET k == IF n < Len(in) THEN n ELSE Len(in)
       IN  Got(First(k, in) \o Zeros(n - k), After(k, in))

(* ReadByte with its error dropped.                                        *)
ReadByte(in) == IF in = << >> THEN Got(<<0>>, in) ELSE Got(First(1, in), After(1, in))

(* Seek forward, which never fails, past the end either.                   *)
Skip(n, in) == Got(<< >>, After(n, in))

(* Op(x), with x evaluated once.                                           *)
With(x, Op(_)) == CHOOSE y \in {Op(v) : v \in {x}} : TRUE

(* Data behind a length of width w, read by `how'.                         *)
Prefixed(w, how(_, _), in) ==
  With(ReadFull(w, in), LAMBDA length :
    IF length.err THEN length ELSE how(Number(length.val), length.rest))

(* readU16LenData: a length of zero reads nothing.                         *)
readU16LenData(in) ==
  Prefixed(2, LAMBDA n, rest : IF n = 0 THEN Got(<< >>, rest)
                               ELSE Read(n, rest), in)

-----------------------------------------------------------------------------
(* A structure is read field by field; the first field that fails ends it. *)

Field(name, how, width) == [name |-> name, how |-> how, width |-> width]

(* "number": binary.Read; "byte": ReadByte; "skip": Seek; "all": ReadFull; *)
(* "u16": readU16LenData; "data", "all data": a length of that width, then *)
(* Read or ReadFull.                                                       *)
ReadField(f, in) ==
  CASE f.how \in {"number", "all"} -> ReadFull(f.width, in)
    [] f.how = "byte"     -> ReadByte(in)
    [] f.how = "skip"     -> Skip(f.width, in)
    [] f.how = "u16"      -> readU16LenData(in)
    [] f.how = "data"     -> Prefixed(f.width, Read, in)
    [] f.how = "all data" -> Prefixed(f.width, ReadFull, in)

(* A reader: where it is, whether it has failed, and the values so far.    *)
Reader(in) == [rest |-> in, err |-> FALSE, out |-> << >>]

(* n times a step, until one fails.                                        *)
Repeat(n, step(_), r) ==
  LET after[i \in 0..n] ==
        IF i = 0 THEN r
        ELSE With(after[i - 1], LAMBDA s : IF s.err THEN s ELSE step(s))
  IN  after[n]

(* The fields of a structure, each with its name, appended to the output.  *)
Advance(f, r) ==
  With(ReadField(f, r.rest), LAMBDA got :
    [rest |-> got.rest, err |-> got.err,
     out |-> IF got.err THEN r.out ELSE Append(r.out, <<f.name, got.val>>)])

Scan(fields, r) ==
  LET upTo[i \in 0..Len(fields)] ==
        IF i = 0 THEN r
        ELSE With(upTo[i - 1], LAMBDA s : IF s.err THEN s ELSE Advance(fields[i], s))
  IN  upTo[Len(fields)]

(* The value read last under a name.                                       *)
Value(r, name) ==
  r.out[SelectLastInSeq(r.out, LAMBDA f : f[1] = name)][2]

=============================================================================
