----------------------------- MODULE AppProofs ------------------------------
(***************************************************************************)
(* Proofs about the client program and its two session files, for every    *)
(* number of starts up to 255, of writes cut short and of tickets.         *)
(***************************************************************************)
EXTENDS App, SessionFileProofs

-----------------------------------------------------------------------------
(* The sessions of a server, and what a hello takes out of them.           *)

LEMMA ShortStr == ASSUME NEW s \in Str, Len(s) <= 2 PROVE s \in Short
<1>1. Len(s) \in Nat
  BY OnlyEmpty
<1> QED
  BY <1>1, SMT DEF Short, Limit2

LEMMA BytesType ==
  ASSUME NEW x \in 0..255, NEW y \in 0..255
  PROVE  <<x>> \in Of(1) /\ <<x>> \in Short /\ <<x, y>> \in Short
<1>1. x \in Byte /\ y \in Byte
  BY ByteValues
<1>2. <<x>> \in Str /\ Len(<<x>>) = 1 /\ <<x, y>> \in Str /\ Len(<<x, y>>) = 2
  BY <1>1 DEF Str
<1>3. <<x>> \in Short /\ <<x, y>> \in Short
  <2>1. \A s \in Str : Len(s) <= 2 => s \in Short
    BY ShortStr
  <2>2. 1 <= 2 /\ 2 <= 2
    OBVIOUS
  <2> QED
    BY <1>2, <2>1, <2>2
<1> QED
  BY <1>2, <1>3 DEF Of

LEMMA IssueType ==
  ASSUME NEW n \in 1..255, NEW k \in 0..255
  PROVE  Issue(n, k) \in Sessions
<1>1. ASSUME NEW i \in 1..k PROVE Ticket(n, i) \in TicketRecords
  <2>1. i \in 0..255 /\ n \in 0..255 /\ n \in Nat /\ 5 \in 0..255 /\ 6 \in 0..255
    OBVIOUS
  <2>2. <<i>> \in Of(1) /\ <<n, i>> \in Short
    BY <2>1, BytesType
  <2>3. <<5>> \in Short /\ <<6>> \in Short
    BY <2>1, BytesType
  <2>4. BigEndian(n, 4) \in Of(4) /\ BigEndian(72, 4) \in Of(4)
    BY <2>1, BigEndianType
  <2> QED
    BY <2>2, <2>3, <2>4 DEF Ticket, TicketRecords
<1> DEFINE ts == [i \in 1..k |-> Ticket(n, i)]
<1>2. ts \in Seq(TicketRecords) /\ Len(ts) = k
  <2>1. ts \in [1..k -> TicketRecords] /\ k \in Nat
    BY <1>1
  <2> QED
    BY <2>1, SeqDef, LenProperties
<1>3. <<n, 1>> \in Short /\ <<n, 2>> \in Short
  <2>1. n \in 0..255 /\ 1 \in 0..255 /\ 2 \in 0..255
    OBVIOUS
  <2> QED
    BY <2>1, BytesType
<1> HIDE DEF ts
<1>4. ts \in {x \in Seq(TicketRecords) : Len(x) < 256}
  BY <1>2
<1> QED
  BY <1>3, <1>4 DEF Issue, Sessions, ts

LEMMA AgeType ==
  ASSUME NEW t \in TicketRecords
  PROVE  emptyAge(t) \in TicketRecords
<1>1. << >> \in Short
  BY EmptyStr, ShortStr
<1> QED
  BY <1>1 DEF emptyAge, TicketRecords

LEMMA BareIs ==
  ASSUME NEW s \in Sessions
  PROVE  /\ Bare(s) \in Sessions
         /\ Bare(s).pskAccess = s.pskAccess /\ Bare(s).pskRefresh = s.pskRefresh
         /\ Len(Bare(s).tickets) = Len(s.tickets)
         /\ \A i \in 1..Len(s.tickets) : Bare(s).tickets[i] = emptyAge(s.tickets[i])
<1> DEFINE ts == s.tickets
           bs == [i \in DOMAIN ts |-> emptyAge(ts[i])]
<1>1. ts \in Seq(TicketRecords) /\ Len(ts) < 256
  BY DEF Sessions
<1>2. /\ Len(ts) \in Nat /\ DOMAIN ts = 1..Len(ts)
      /\ \A i \in 1..Len(ts) : emptyAge(ts[i]) \in TicketRecords
  BY <1>1, LenProperties, ElementOfSeq, AgeType
<1>3. bs \in [1..Len(ts) -> TicketRecords]
  BY <1>2
<1>4. bs \in Seq(TicketRecords) /\ Len(bs) = Len(ts)
  BY <1>2, <1>3, SeqDef, LenProperties
<1>5. \A i \in 1..Len(ts) : bs[i] = emptyAge(ts[i])
  BY <1>2
<1>6. Bare(s) = [s EXCEPT !.tickets = bs]
  BY DEF Bare
<1> HIDE DEF bs
<1>7. bs \in {x \in Seq(TicketRecords) : Len(x) < 256}
  BY <1>1, <1>4
<1>8. /\ Bare(s).tickets = bs
      /\ Bare(s).pskAccess = s.pskAccess /\ Bare(s).pskRefresh = s.pskRefresh
      /\ Bare(s) \in Sessions
  BY <1>6, <1>7 DEF Sessions
<1> QED
  BY <1>4, <1>5, <1>8

LEMMA OfferType ==
  ASSUME NEW s \in Sessions, s.tickets # << >>
  PROVE  [s EXCEPT !.tickets[1] = emptyAge(@)] \in Sessions
<1> DEFINE ts == s.tickets
           os == [ts EXCEPT ![1] = emptyAge(ts[1])]
<1>1. ts \in Seq(TicketRecords) /\ Len(ts) < 256
  BY DEF Sessions
<1>2. Len(ts) \in Nat /\ Len(ts) # 0 /\ ts[1] \in TicketRecords
  <2>1. Len(ts) \in Nat /\ Len(ts) # 0
    BY <1>1, EmptySeq, LenProperties
  <2> QED
    BY <1>1, <2>1, ElementOfSeq
<1>3. os \in Seq(TicketRecords) /\ Len(os) = Len(ts)
  <2>1. emptyAge(ts[1]) \in TicketRecords
    BY <1>2, AgeType
  <2> QED
    BY <1>1, <1>2, <2>1, ExceptSeq
<1>4. [s EXCEPT !.tickets[1] = emptyAge(@)] = [s EXCEPT !.tickets = os]
  OBVIOUS
<1> HIDE DEF os
<1>5. os \in {x \in Seq(TicketRecords) : Len(x) < 256}
  BY <1>1, <1>3
<1> QED
  BY <1>4, <1>5 DEF Sessions

-----------------------------------------------------------------------------
(* The inductive invariant of the program.                                 *)

(* The goroutine has a link, and is there only once the session of the     *)
(* long link has been dealt with.                                          *)
Control ==
  /\ pc \in Saving \cup {"down", "handshake", "request", "send", "await", "wait"}
  /\ link \in {"none", "up", "dead"}
  /\ beating => link # "none" /\ pc \notin {"down", "handshake", "openlong", "writelong"}
  /\ pc \in {"openlong", "writelong"} => link # "none"

(* A process makes at most one handshake of each link, so the number of a  *)
(* session fits in the bytes of its keys.                                  *)
Counted ==
  /\ issued \in [Links -> Nat]
  /\ starts \in 0..MaxStarts
  /\ cuts \in 0..MaxCuts
  /\ issued["long"] <= starts /\ issued["short"] <= starts
  /\ pc = "handshake" => issued["long"] < starts
  /\ pc \in {"handshake", "openlong", "writelong", "request"} => issued["short"] < starts

(* What is about to be written has worked.                                 *)
Memory ==
  /\ mem \in [Links -> Sessions]
  /\ proved \in [Links -> SUBSET Sessions]
  /\ pc \in {"openlong", "writelong"} => Bare(mem["long"]) \in proved["long"]
  /\ pc \in {"openshort", "writeshort"} => Bare(mem["short"]) \in proved["short"]

(* A file is empty, or begins as Save wrote a session that has worked; the *)
(* rest of it is missing only where a write was cut short.                 *)
Filed(d, ps, whole) ==
  \/ d = << >>
  \/ \E s \in Sessions, q \in Str :
       /\ Bare(s) \in ps
       /\ Begins(d, q, SaveBytes(s))
       /\ whole => q = << >>

Files ==
  /\ disk \in [Links -> Str]
  /\ \A l \in Links : Filed(disk[l], proved[l], cuts = 0)

AppInv == Control /\ Counted /\ Memory /\ Files

LEMMA FiledKept ==
  ASSUME NEW d, NEW ps, NEW rs, NEW v, NEW w,
         Filed(d, ps, v), ps \subseteq rs, w => v
  PROVE  Filed(d, rs, w)
BY DEF Filed

LEMMA FileEmptied == ASSUME NEW ps, NEW v PROVE Filed(<< >>, ps, v)
BY DEF Filed

LEMMA FileLoads ==
  ASSUME NEW ps, NEW v, NEW d \in Str, Filed(d, ps, v)
  PROVE  LoadSession(d).session \in Sessions
<1>1. CASE d = << >>
  BY <1>1, NothingToLoad, NoSessionType
<1>2. CASE d # << >>
  <2>1. PICK s \in Sessions, q \in Str : Begins(d, q, SaveBytes(s))
    BY <1>2 DEF Filed
  <2> DEFINE loaded == LoadSession(d)
  <2>2. /\ loaded.err => loaded.session = NoSession
        /\ ~ loaded.err => loaded.session \in Sessions
    BY <2>1, Loading
  <2> HIDE DEF loaded
  <2> QED
    BY <2>2, NoSessionType DEF loaded
<1> QED
  BY <1>1, <1>2

LEMMA FromFileType ==
  ASSUME Files, NEW l \in Links
  PROVE  FromFile(l) \in Sessions
<1>1. disk[l] \in Str /\ Filed(disk[l], proved[l], cuts = 0)
  BY DEF Files
<1> QED
  BY <1>1, FileLoads DEF FromFile

LEMMA WholeFile ==
  ASSUME NEW s \in Sessions, NEW ps, Bare(s) \in ps, NEW v
  PROVE  SaveBytes(s) \in Str /\ Filed(SaveBytes(s), ps, v)
<1>1. SaveBytes(s) \in Str
  BY SavedSession
<1>2. Begins(SaveBytes(s), << >>, SaveBytes(s))
  BY <1>1, BeginsWhole
<1> QED
  BY <1>1, <1>2, EmptyStr DEF Filed

LEMMA CutFile ==
  ASSUME NEW s \in Sessions, NEW ps, Bare(s) \in ps, NEW v, ~ v,
         NEW n \in 0..Len(SaveBytes(s)) - 1
  PROVE  First(n, SaveBytes(s)) \in Str /\ Filed(First(n, SaveBytes(s)), ps, v)
<1> DEFINE b == SaveBytes(s)
<1>1. b \in Str /\ Len(b) \in Nat
  BY SavedSession, OnlyEmpty
<1> HIDE DEF b
<1>2. n \in 0..Len(b)
  BY <1>1 DEF b
<1>3. First(n, b) \in Str /\ After(n, b) \in Str /\ First(n, b) \o After(n, b) = b
  BY <1>1, <1>2, CutSequence DEF Str
<1>4. Begins(First(n, b), After(n, b), b)
  BY <1>3 DEF Begins
<1>5. Filed(First(n, b), ps, v)
  BY <1>3, <1>4 DEF Filed, b
<1> QED
  BY <1>3, <1>5 DEF b

-----------------------------------------------------------------------------
LEMMA AppStarts == Init => AppInv
<1> SUFFICES ASSUME Init PROVE AppInv
  OBVIOUS
<1> USE DEF Init
<1>1. Control
  BY DEF Control, Saving
<1>2. Counted
  <2>1. MaxStarts \in Nat /\ MaxCuts \in Nat
    BY ByteAssumption, MaxStartsAssumption, MaxCutsAssumption
  <2> QED
    BY <2>1 DEF Counted, Links
<1>3. Memory
  BY NoSessionType DEF Memory
<1>4. Files
  <2>1. \A l \in Links : disk[l] = << >>
    OBVIOUS
  <2> QED
    BY <2>1, EmptyStr, FileEmptied DEF Files
<1> QED
  BY <1>1, <1>2, <1>3, <1>4 DEF AppInv

LEMMA EndsKeep == ASSUME AppInv, Ends PROVE AppInv'
<1> USE DEF Ends, AppInv
<1>1. Control'
  BY DEF Control
<1>2. Counted'
  BY DEF Counted
<1>3. Memory'
  BY NoSessionType DEF Memory
<1>4. Files'
  BY DEF Files
<1> QED
  BY <1>1, <1>2, <1>3, <1>4

LEMMA StartKeeps == ASSUME AppInv, Start PROVE AppInv'
<1> USE DEF Start, AppInv
<1>1. Control'
  BY DEF Control
<1>2. Counted'
  <2>1. MaxStarts \in Nat
    BY ByteAssumption, MaxStartsAssumption
  <2> QED
    BY <2>1 DEF Counted, Links
<1>3. Memory'
  <2>1. FromFile("long") \in Sessions
    BY FromFileType DEF Links
  <2> QED
    BY <2>1 DEF Memory
<1>4. Files'
  BY DEF Files
<1> QED
  BY <1>1, <1>2, <1>3, <1>4

LEMMA NumberFits ==
  ASSUME Counted, NEW l \in Links, issued[l] < starts,
         NEW k \in TicketCounts[l]
  PROVE  Issue(issued[l] + 1, k) \in Sessions
<1>1. MaxStarts \in 0..255
  BY ByteAssumption, MaxStartsAssumption
<1>2. k \in 0..255
  BY ByteAssumption, TicketCountsAssumption
<1>3. issued[l] \in Nat /\ starts \in 0..MaxStarts
  BY DEF Counted
<1>4. issued[l] + 1 \in 1..255
  BY <1>1, <1>3
<1> QED
  BY <1>2, <1>4, IssueType

LEMMA HandshakeKeeps ==
  ASSUME AppInv, NEW k \in TicketCounts["long"], Handshake(k)
  PROVE  AppInv'
<1> DEFINE s == Issue(issued["long"] + 1, k)
<1>1. s \in Sessions
  <2>1. "long" \in Links /\ Counted /\ issued["long"] < starts
    BY DEF Links, AppInv, Counted, Handshake
  <2> QED
    BY <2>1, NumberFits
<1>2. /\ pc = "handshake" /\ pc' = "openlong" /\ link' = "up"
      /\ issued' = [issued EXCEPT !["long"] = @ + 1]
      /\ mem' = [mem EXCEPT !["long"] = s]
      /\ proved' = [proved EXCEPT !["long"] = @ \cup {Bare(mem'["long"])}]
      /\ UNCHANGED <<beating, disk, starts, cuts>>
  BY DEF Handshake, NewSession
<1>3. Bare(s) \in Sessions
  BY <1>1, BareIs
<1> HIDE DEF s
<1> USE DEF AppInv
<1>4. Control'
  BY <1>2 DEF Control, Saving
<1>5. Counted'
  BY <1>2 DEF Counted, Links
<1>6. mem'["long"] = s
  BY <1>2 DEF Memory, Links
<1>7. /\ proved' = [proved EXCEPT !["long"] = @ \cup {Bare(s)}]
      /\ proved \in [Links -> SUBSET Sessions]
  BY <1>2, <1>6 DEF Memory
<1>8. Memory'
  <2>1. mem' \in [Links -> Sessions]
    BY <1>1, <1>2 DEF Memory
  <2>2. proved' \in [Links -> SUBSET Sessions] /\ Bare(s) \in proved'["long"]
    BY <1>3, <1>7 DEF Links
  <2> QED
    BY <1>2, <1>6, <2>1, <2>2 DEF Memory
<1>9. Files'
  <2>1. \A l \in Links : proved[l] \subseteq proved'[l]
    BY <1>7
  <2>2. \A l \in Links : Filed(disk[l], proved'[l], cuts = 0)
    BY <2>1, FiledKept DEF Files
  <2> QED
    BY <1>2, <2>2 DEF Files
<1> QED
  BY <1>4, <1>5, <1>8, <1>9

-----------------------------------------------------------------------------
(* A session saved, or not.                                                *)

LEMMA BeatsKeep ==
  ASSUME AppInv, pc \in {"openlong", "writelong"}, Beats,
         UNCHANGED <<link, issued, starts, proved>>, cuts' \in 0..MaxCuts
  PROVE  Control' /\ Counted' /\ Memory'
<1> USE DEF AppInv, Beats
<1>1. Control'
  BY DEF Control
<1>2. Counted'
  BY DEF Counted
<1>3. Memory'
  <2>1. FromFile("short") \in Sessions
    BY FromFileType DEF Links
  <2> QED
    BY <2>1 DEF Memory
<1> QED
  BY <1>1, <1>2, <1>3

LEMMA WaitsKeep ==
  ASSUME AppInv, pc \in {"openshort", "writeshort"}, Waits,
         UNCHANGED <<link, issued, starts, proved>>, cuts' \in 0..MaxCuts
  PROVE  Control' /\ Counted' /\ Memory'
<1> USE DEF AppInv, Waits
<1>1. Control'
  BY DEF Control
<1>2. Counted'
  BY DEF Counted
<1>3. Memory'
  BY DEF Memory
<1> QED
  BY <1>1, <1>2, <1>3

LEMMA Truncates ==
  ASSUME AppInv, NEW l \in Links, pc = Opening[l], pc' = Writing[l],
         disk' = [disk EXCEPT ![l] = << >>],
         UNCHANGED <<mem, beating, link, issued, starts, cuts, proved>>
  PROVE  AppInv'
<1> USE DEF AppInv
<1>1. \/ pc = "openlong" /\ pc' = "writelong"
      \/ pc = "openshort" /\ pc' = "writeshort"
  BY DEF Links, Opening, Writing
<1>2. Control'
  BY <1>1 DEF Control, Saving
<1>3. Counted'
  BY <1>1 DEF Counted
<1>4. Memory'
  BY <1>1 DEF Memory
<1>5. Files'
  <2>1. disk' \in [Links -> Str]
    BY EmptyStr DEF Files
  <2>2. \A m \in Links : disk'[m] = << >> \/ disk'[m] = disk[m]
    BY DEF Files
  <2>3. \A m \in Links : Filed(disk'[m], proved[m], cuts = 0)
    BY <2>2, FileEmptied DEF Files
  <2> QED
    BY <2>1, <2>3 DEF Files
<1> QED
  BY <1>2, <1>3, <1>4, <1>5

LEMMA Writes ==
  ASSUME AppInv, NEW l \in Links, pc = Writing[l], UNCHANGED proved,
         \/ disk' = [disk EXCEPT ![l] = SaveBytes(mem[l])] /\ UNCHANGED cuts
         \/ /\ cuts < MaxCuts
            /\ \E n \in 0..Len(SaveBytes(mem[l])) - 1 :
                 disk' = [disk EXCEPT ![l] = First(n, SaveBytes(mem[l]))]
            /\ cuts' = cuts + 1
  PROVE  Files' /\ cuts' \in 0..MaxCuts
<1> USE DEF AppInv
<1>1. mem[l] \in Sessions /\ Bare(mem[l]) \in proved[l]
  BY DEF Memory, Links, Writing
<1>2. cuts \in 0..MaxCuts /\ MaxCuts \in Nat
  BY MaxCutsAssumption DEF Counted
<1>3. cuts' \in 0..MaxCuts
  BY <1>2
<1>4. cuts' = 0 => cuts = 0
  BY <1>2
<1> DEFINE w == disk'[l]
<1>5. /\ disk' = [disk EXCEPT ![l] = w]
      /\ w \in Str /\ Filed(w, proved[l], cuts' = 0)
  <2>1. disk \in [Links -> Str]
    BY DEF Files
  <2>2. CASE disk' = [disk EXCEPT ![l] = SaveBytes(mem[l])]
    <3>1. w = SaveBytes(mem[l])
      BY <2>1, <2>2
    <3>2. SaveBytes(mem[l]) \in Str /\ Filed(SaveBytes(mem[l]), proved[l], cuts' = 0)
      BY <1>1, WholeFile
    <3> HIDE DEF w
    <3> QED
      BY <2>2, <3>1, <3>2
  <2>3. CASE ~ (disk' = [disk EXCEPT ![l] = SaveBytes(mem[l])])
    <3>1. PICK n \in 0..Len(SaveBytes(mem[l])) - 1 :
            disk' = [disk EXCEPT ![l] = First(n, SaveBytes(mem[l]))]
      BY <2>3
    <3>2. ~ (cuts' = 0)
      BY <1>2, <2>3
    <3>3. w = First(n, SaveBytes(mem[l]))
      BY <2>1, <3>1
    <3>4. /\ First(n, SaveBytes(mem[l])) \in Str
          /\ Filed(First(n, SaveBytes(mem[l])), proved[l], cuts' = 0)
      BY <1>1, <3>2, CutFile
    <3> HIDE DEF w
    <3> QED
      BY <3>1, <3>3, <3>4
  <2> QED
    BY <2>2, <2>3
<1> HIDE DEF w
<1>6. Files'
  <2>1. disk \in [Links -> Str]
    BY DEF Files
  <2>2. disk' \in [Links -> Str]
    BY <1>5, <2>1
  <2>3. ASSUME NEW m \in Links PROVE Filed(disk'[m], proved[m], cuts' = 0)
    <3>1. CASE m = l
      <4>1. disk'[m] = w
        BY <1>5, <2>1, <3>1
      <4> QED
        BY <1>5, <3>1, <4>1
    <3>2. CASE m # l
      <4>1. disk'[m] = disk[m]
        BY <1>5, <2>1, <3>2
      <4>2. Filed(disk[m], proved[m], cuts = 0)
        BY DEF Files
      <4> QED
        BY <1>4, <4>1, <4>2, FiledKept
    <3> QED
      BY <3>1, <3>2
  <2> QED
    BY <2>2, <2>3 DEF Files
<1> QED
  BY <1>3, <1>6

LEMMA SaveKeeps == ASSUME AppInv, Save PROVE AppInv'
<1> USE DEF AppInv
<1>1. CASE Open("long", Beats)
  <2>1. CASE /\ disk' = [disk EXCEPT !["long"] = << >>]
             /\ pc' = Writing["long"] /\ UNCHANGED <<mem, beating>>
    <3>1. "long" \in Links /\ pc = Opening["long"]
          /\ UNCHANGED <<link, issued, starts, cuts, proved>>
      BY <1>1 DEF Open, Links
    <3> QED
      BY <2>1, <3>1, Truncates
  <2>2. CASE UNCHANGED disk /\ Beats
    <3>1. pc = "openlong" /\ UNCHANGED <<link, issued, starts, cuts, proved>>
      BY <1>1 DEF Open, Opening
    <3>2. cuts' \in 0..MaxCuts
      BY <3>1 DEF Counted
    <3>3. Control' /\ Counted' /\ Memory'
      BY <2>2, <3>1, <3>2, BeatsKeep
    <3>4. Files'
      BY <2>2, <3>1 DEF Files
    <3> QED
      BY <3>3, <3>4
  <2> QED
    BY <1>1, <2>1, <2>2 DEF Open
<1>2. CASE Open("short", Waits)
  <2>1. CASE /\ disk' = [disk EXCEPT !["short"] = << >>]
             /\ pc' = Writing["short"] /\ UNCHANGED <<mem, beating>>
    <3>1. "short" \in Links /\ pc = Opening["short"]
          /\ UNCHANGED <<link, issued, starts, cuts, proved>>
      BY <1>2 DEF Open, Links
    <3> QED
      BY <2>1, <3>1, Truncates
  <2>2. CASE UNCHANGED disk /\ Waits
    <3>1. pc = "openshort" /\ UNCHANGED <<link, issued, starts, cuts, proved>>
      BY <1>2 DEF Open, Opening
    <3>2. cuts' \in 0..MaxCuts
      BY <3>1 DEF Counted
    <3>3. Control' /\ Counted' /\ Memory'
      BY <2>2, <3>1, <3>2, WaitsKeep
    <3>4. Files'
      BY <2>2, <3>1 DEF Files
    <3> QED
      BY <3>3, <3>4
  <2> QED
    BY <1>2, <2>1, <2>2 DEF Open
<1>3. CASE Write("long", Beats)
  <2>1. /\ "long" \in Links /\ pc = Writing["long"] /\ pc = "writelong"
        /\ Beats /\ UNCHANGED <<link, issued, starts, proved>>
    BY <1>3 DEF Write, Links, Writing
  <2>2. Files' /\ cuts' \in 0..MaxCuts
    BY <1>3, <2>1, Writes DEF Write
  <2>3. Control' /\ Counted' /\ Memory'
    BY <2>1, <2>2, BeatsKeep
  <2> QED
    BY <2>2, <2>3
<1>4. CASE Write("short", Waits)
  <2>1. /\ "short" \in Links /\ pc = Writing["short"] /\ pc = "writeshort"
        /\ Waits /\ UNCHANGED <<link, issued, starts, proved>>
    BY <1>4 DEF Write, Links, Writing
  <2>2. Files' /\ cuts' \in 0..MaxCuts
    BY <1>4, <2>1, Writes DEF Write
  <2>3. Control' /\ Counted' /\ Memory'
    BY <2>1, <2>2, WaitsKeep
  <2> QED
    BY <2>2, <2>3
<1> QED
  BY <1>1, <1>2, <1>3, <1>4 DEF Save

-----------------------------------------------------------------------------
(* A Request.                                                              *)

LEMMA EnsureKeeps == ASSUME AppInv, Ensure PROVE AppInv'
<1> USE DEF AppInv
<1>1. /\ pc = "request" /\ pc' = "send"
      /\ UNCHANGED <<beating, link, disk, starts, cuts, proved>>
  BY DEF Ensure
<1>2. Control'
  BY <1>1 DEF Control
<1>3. Files'
  BY <1>1 DEF Files
<1>4. CASE UNCHANGED <<mem, issued>>
  <2>1. Counted'
    BY <1>1, <1>4 DEF Counted
  <2>2. Memory'
    BY <1>1, <1>4 DEF Memory
  <2> QED
    BY <1>2, <1>3, <2>1, <2>2
<1>5. CASE \E k \in TicketCounts["short"] : NewSession("short", k)
  <2>1. PICK k \in TicketCounts["short"] : NewSession("short", k)
    BY <1>5
  <2> DEFINE s == Issue(issued["short"] + 1, k)
  <2>2. s \in Sessions
    <3>1. "short" \in Links /\ Counted /\ issued["short"] < starts
      BY <1>1 DEF Links, Counted
    <3> QED
      BY <3>1, NumberFits
  <2>3. /\ issued' = [issued EXCEPT !["short"] = @ + 1]
        /\ mem' = [mem EXCEPT !["short"] = s]
    BY <2>1 DEF NewSession
  <2> HIDE DEF s
  <2>4. Counted'
    BY <1>1, <2>3 DEF Counted, Links
  <2>5. Memory'
    <3>1. mem' \in [Links -> Sessions]
      BY <2>2, <2>3 DEF Memory
    <3> QED
      BY <1>1, <3>1 DEF Memory
  <2> QED
    BY <1>2, <1>3, <2>4, <2>5
<1> QED
  BY <1>4, <1>5 DEF Ensure

LEMMA OfferKeeps == ASSUME AppInv, Offer PROVE AppInv'
<1> USE DEF AppInv
<1> DEFINE s == [mem["short"] EXCEPT !.tickets[1] = emptyAge(@)]
<1>1. /\ pc = "send" /\ pc' = "await"
      /\ mem["short"].tickets # << >>
      /\ mem' = [mem EXCEPT !["short"] = s]
      /\ UNCHANGED <<beating, link, disk, issued, starts, cuts, proved>>
  BY DEF Offer
<1>2. s \in Sessions
  <2>1. mem["short"] \in Sessions
    BY DEF Memory, Links
  <2> QED
    BY <1>1, <2>1, OfferType
<1> HIDE DEF s
<1>3. Control'
  BY <1>1 DEF Control
<1>4. Counted'
  BY <1>1 DEF Counted
<1>5. Memory'
  <2>1. mem' \in [Links -> Sessions]
    BY <1>1, <1>2 DEF Memory
  <2> QED
    BY <1>1, <2>1 DEF Memory
<1>6. Files'
  BY <1>1 DEF Files
<1> QED
  BY <1>3, <1>4, <1>5, <1>6

LEMMA AnsweredKeeps == ASSUME AppInv, Answered PROVE AppInv'
<1> USE DEF AppInv
<1> DEFINE s == Bare(mem["short"])
<1>1. /\ pc = "await" /\ pc' = "openshort"
      /\ proved' = [proved EXCEPT !["short"] = @ \cup {s}]
      /\ UNCHANGED <<mem, beating, link, disk, issued, starts, cuts>>
  BY DEF Answered
<1>2. s \in Sessions
  <2>1. mem["short"] \in Sessions
    BY DEF Memory, Links
  <2> QED
    BY <2>1, BareIs
<1>3. Control'
  BY <1>1 DEF Control, Saving
<1>4. Counted'
  BY <1>1 DEF Counted
<1>5. Memory'
  <2>1. proved' \in [Links -> SUBSET Sessions] /\ s \in proved'["short"]
    <3> HIDE DEF s
    <3> QED
      BY <1>1, <1>2 DEF Memory, Links
  <2> QED
    BY <1>1, <2>1 DEF Memory
<1>6. Files'
  <2>1. \A l \in Links : proved[l] \subseteq proved'[l]
    <3> HIDE DEF s
    <3> QED
      BY <1>1 DEF Memory
  <2>2. \A l \in Links : Filed(disk[l], proved'[l], cuts = 0)
    BY <2>1, FiledKept DEF Files
  <2> QED
    BY <1>1, <2>2 DEF Files
<1> QED
  BY <1>3, <1>4, <1>5, <1>6

LEMMA LinkDiesKeeps == ASSUME AppInv, LinkDies PROVE AppInv'
<1> USE DEF AppInv, LinkDies
<1>1. Control'
  BY DEF Control
<1>2. Counted'
  BY DEF Counted
<1>3. Memory'
  BY DEF Memory
<1>4. Files'
  BY DEF Files
<1> QED
  BY <1>1, <1>2, <1>3, <1>4

LEMMA AppUnchanged == ASSUME AppInv, UNCHANGED vars PROVE AppInv'
<1> USE DEF AppInv, vars, process
<1>1. Control'
  BY DEF Control
<1>2. Counted'
  BY DEF Counted
<1>3. Memory'
  BY DEF Memory
<1>4. Files'
  BY DEF Files
<1> QED
  BY <1>1, <1>2, <1>3, <1>4

(* Whatever ends the process, and wherever, the files are empty or begin   *)
(* as Save wrote a session that has worked.                                *)
THEOREM AppInvariant == Spec => []AppInv
<1>1. Init => AppInv
  BY AppStarts
<1>2. AppInv /\ [Next]_vars => AppInv'
  <2> SUFFICES ASSUME AppInv, [Next]_vars PROVE AppInv'
    OBVIOUS
  <2>1. CASE Start
    BY <2>1, StartKeeps
  <2>2. CASE \E k \in TicketCounts["long"] : Handshake(k)
    BY <2>2, HandshakeKeeps
  <2>3. CASE Save
    BY <2>3, SaveKeeps
  <2>4. CASE Ensure
    BY <2>4, EnsureKeeps
  <2>5. CASE Offer
    BY <2>5, OfferKeeps
  <2>6. CASE Answered
    BY <2>6, AnsweredKeeps
  <2>7. CASE HandshakeFails \/ NoTicket \/ Refused \/ NoopFails \/ Stopped
    <3>1. Ends
      BY <2>7 DEF HandshakeFails, NoTicket, Refused, NoopFails, Stopped
    <3> QED
      BY <3>1, EndsKeep
  <2>8. CASE LinkDies
    BY <2>8, LinkDiesKeeps
  <2>9. CASE UNCHANGED vars
    BY <2>9, AppUnchanged
  <2> QED
    BY <2>1, <2>2, <2>3, <2>4, <2>5, <2>6, <2>7, <2>8, <2>9 DEF Next, Main
<1> QED
  BY <1>1, <1>2, PTL DEF Spec

-----------------------------------------------------------------------------
(* What the program promises.                                              *)

(* Type correctness: sessions and tickets in memory are whole records, the *)
(* files hold bytes, and the goroutine beats only on a link.               *)
THEOREM TypeCorrect == Spec => []TypeOK
<1>1. AppInv => TypeOK
  <2> SUFFICES ASSUME AppInv PROVE TypeOK
    OBVIOUS
  <2> USE DEF AppInv
  <2>1. ASSUME NEW l \in Links
        PROVE  /\ DOMAIN mem[l] = {"pskAccess", "pskRefresh", "tickets"}
               /\ \A k \in DOMAIN mem[l].tickets : DOMAIN mem[l].tickets[k] = TicketNames
               /\ \A i \in DOMAIN disk[l] : disk[l][i] \in Byte
               /\ issued[l] \in Nat
    <3>1. mem[l] \in Sessions /\ disk[l] \in Str /\ issued[l] \in Nat
      BY DEF Memory, Files, Counted
    <3>2. DOMAIN mem[l] = {"pskAccess", "pskRefresh", "tickets"}
      BY <3>1 DEF Sessions
    <3>3. ASSUME NEW k \in DOMAIN mem[l].tickets
          PROVE  DOMAIN mem[l].tickets[k] = TicketNames
      <4> DEFINE ts == mem[l].tickets
      <4>1. ts \in Seq(TicketRecords)
        BY <3>1 DEF Sessions
      <4>2. ts[k] \in TicketRecords
        <5> HIDE DEF ts
        <5> QED
          BY <3>3, <4>1, LenProperties, ElementOfSeq DEF ts
      <4>3. \A t \in TicketRecords : DOMAIN t = {"ticketType", "ticketLifeTime",
              "ticketAgeAdd", "reversed", "nonce", "ticket"}
        BY DEF TicketRecords
      <4> QED
        BY <4>2, <4>3, TicketFieldsAre
    <3>4. \A i \in DOMAIN disk[l] : disk[l][i] \in Byte
      BY <3>1, LenProperties, ElementOfSeq DEF Str
    <3> QED
      BY <3>1, <3>2, <3>3, <3>4
  <2>2. /\ pc \in Saving \cup {"down", "handshake", "request", "send", "await", "wait"}
        /\ beating => link # "none" /\ pc \notin {"down", "handshake", "openlong", "writelong"}
        /\ link \in {"none", "up", "dead"}
    BY DEF Control
  <2>3. starts \in 0..MaxStarts /\ cuts \in 0..MaxCuts
    BY DEF Counted
  <2> QED
    BY <2>1, <2>2, <2>3 DEF TypeOK
<1> QED
  BY <1>1, AppInvariant, PTL

(* As long as no write is cut short, a session file is empty, or           *)
(* LoadSession returns from it, without an error, a session that has       *)
(* worked.                                                                 *)
THEOREM Saved == Spec => []SavedIsProved
<1>1. AppInv => SavedIsProved
  <2> SUFFICES ASSUME AppInv, cuts = 0, NEW l \in Links, disk[l] # << >>
               PROVE  /\ ~LoadSession(disk[l]).err
                      /\ Bare(FromFile(l)) \in proved[l]
    BY DEF SavedIsProved
  <2>1. PICK s \in Sessions, q \in Str :
          /\ Bare(s) \in proved[l]
          /\ Begins(disk[l], q, SaveBytes(s))
          /\ q = << >>
    BY DEF AppInv, Files, Filed
  <2>2. ~ LoadSession(disk[l]).err /\ LoadSession(disk[l]).session = s
    BY <2>1, Loading
  <2> QED
    BY <2>1, <2>2 DEF FromFile
<1> QED
  BY <1>1, AppInvariant, PTL

(* From a file cut anywhere, LoadSession returns an error, or both keys of *)
(* a session that has worked and its tickets whole but for the last.       *)
THEOREM KeysWhole == Spec => []LoadedKeysWhole
<1>1. AppInv => LoadedKeysWhole
  <2> SUFFICES ASSUME AppInv, NEW l \in Links, FromFile(l) # NoSession
               PROVE  \E t \in proved[l] :
                        /\ FromFile(l).pskAccess = t.pskAccess
                        /\ FromFile(l).pskRefresh = t.pskRefresh
                        /\ Len(FromFile(l).tickets) \in {0, Len(t.tickets)}
                        /\ \A i \in 1..Len(FromFile(l).tickets) - 1 :
                             emptyAge(FromFile(l).tickets[i]) = t.tickets[i]
    BY DEF LoadedKeysWhole
  <2> DEFINE loaded == LoadSession(disk[l])
             r == loaded.session
  <2>1. FromFile(l) = r
    BY DEF FromFile
  <2>2. disk[l] # << >>
    BY NothingToLoad, <2>1
  <2>3. PICK s \in Sessions, q \in Str :
          Bare(s) \in proved[l] /\ Begins(disk[l], q, SaveBytes(s))
    BY <2>2 DEF AppInv, Files, Filed
  <2>4. /\ loaded.err => loaded.session = NoSession
        /\ ~ loaded.err =>
             /\ loaded.session.pskAccess = s.pskAccess
             /\ loaded.session.pskRefresh = s.pskRefresh
             /\ Kept(s.tickets, loaded.session.tickets)
    BY <2>3, Loading
  <2> HIDE DEF loaded
  <2>5. /\ r.pskAccess = s.pskAccess /\ r.pskRefresh = s.pskRefresh
        /\ Kept(s.tickets, r.tickets)
    BY <2>1, <2>4
  <2> HIDE DEF r
  <2>6. /\ Len(r.tickets) \in {0, Len(s.tickets)} /\ Len(s.tickets) \in Nat
        /\ \A i \in 1..Len(r.tickets) - 1 : r.tickets[i] = s.tickets[i]
    <3>1. s.tickets \in Seq(TicketRecords)
      BY DEF Sessions
    <3> QED
      BY <2>5, <3>1, LenProperties DEF Kept
  <2> DEFINE t == Bare(s)
  <2>7. /\ t.pskAccess = s.pskAccess /\ t.pskRefresh = s.pskRefresh
        /\ Len(t.tickets) = Len(s.tickets)
        /\ \A i \in 1..Len(s.tickets) : t.tickets[i] = emptyAge(s.tickets[i])
    BY BareIs
  <2>8. t \in proved[l]
    BY <2>3
  <2> HIDE DEF t
  <2>9. \A i \in 1..Len(r.tickets) - 1 : emptyAge(r.tickets[i]) = t.tickets[i]
    <3> SUFFICES ASSUME NEW i \in 1..Len(r.tickets) - 1
                 PROVE  emptyAge(r.tickets[i]) = t.tickets[i]
      OBVIOUS
    <3>1. i \in 1..Len(s.tickets)
      BY <2>6
    <3> QED
      BY <2>6, <2>7, <3>1
  <2> QED
    BY <2>1, <2>5, <2>6, <2>7, <2>8, <2>9
<1> QED
  BY <1>1, AppInvariant, PTL

=============================================================================
