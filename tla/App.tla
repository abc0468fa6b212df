--------------------------------- MODULE App ---------------------------------
(***************************************************************************)
(* The client program (cmd/main.go): one process at a time loads the       *)
(* session of the long link, makes its handshake, saves the session,       *)
(* leaves the link to a goroutine that beats, then does the same with one  *)
(* Request of the short link, and waits for ever.  Every error is a panic  *)
(* of the whole process.  The two session files survive it, byte for byte. *)
(* A call of a link is one step here: what it promises is checked in       *)
(* LongLink and ShortLink.  The servers, the file system and whoever       *)
(* starts and stops the program are external.                              *)
(***************************************************************************)
EXTENDS Octets

CONSTANTS
  MaxStarts,     (* bound on the starts of the program                      *)
  MaxCuts,       (* bound on the writes a full disk cuts short              *)
  TicketCounts   (* per link, the numbers of tickets its server may issue   *)

Links == {"long", "short"}

(* The number of a session is a byte of its keys.                          *)
ASSUME MaxStartsAssumption    == MaxStarts \in 0..Base - 1
ASSUME MaxCutsAssumption      == MaxCuts \in Nat
ASSUME TicketCountsAssumption ==
  /\ DOMAIN TicketCounts = Links
  /\ \A l \in Links : TicketCounts[l] \subseteq 0..Base - 1

VARIABLES
  pc,       (* where main stands; "down": there is no process               *)
  mem,      (* per link, client.Session                                     *)
  beating,  (* the goroutine of the heartbeat runs                          *)
  link,     (* the connection of the long link: none, up or dead            *)
  disk,     (* per link, the bytes of its session file; empty if none       *)
  issued,   (* servers: per link, how many sessions they have issued        *)
  starts,   (* history: starts of the program                               *)
  cuts,     (* history: writes cut short                                    *)
  proved    (* history: per link, the sessions a handshake, or a Request,   *)
            (* has succeeded with, as the server issued them                *)

process == <<pc, mem, beating, link>>
vars == <<process, disk, issued, starts, cuts, proved>>

(* Where main stands in os.WriteFile of the file of a link.                *)
Opening == [long |-> "openlong",  short |-> "openshort"]
Writing == [long |-> "writelong", short |-> "writeshort"]
Saving  == {"openlong", "writelong", "openshort", "writeshort"}

TypeOK ==
  /\ pc \in Saving \cup {"down", "handshake", "request", "send", "await", "wait"}
  /\ \A l \in Links :
       /\ DOMAIN mem[l] = {"pskAccess", "pskRefresh", "tickets"}
       /\ \A k \in DOMAIN mem[l].tickets : DOMAIN mem[l].tickets[k] = TicketNames
       /\ \A i \in DOMAIN disk[l] : disk[l][i] \in Byte
       /\ issued[l] \in Nat
  /\ beating => link # "none" /\ pc \notin {"down", "handshake", "openlong", "writelong"}
  /\ link \in {"none", "up", "dead"}
  /\ starts \in 0..MaxStarts
  /\ cuts \in 0..MaxCuts

Init ==
  /\ pc = "down"
  /\ mem = [l \in Links |-> NoSession]
  /\ beating = FALSE
  /\ link = "none"
  /\ disk = [l \in Links |-> << >>]
  /\ issued = [l \in Links |-> 0]
  /\ starts = 0
  /\ cuts = 0
  /\ proved = [l \in Links |-> {}]

-----------------------------------------------------------------------------
(* The n-th session of a server, with k tickets, every byte of a key or a  *)
(* ticket different from zero.                                             *)
Ticket(n, i) ==
  [ticketType |-> <<i>>, ticketLifeTime |-> BigEndian(n, 4), ticketAgeAdd |-> <<5>>,
   reversed |-> BigEndian(72, 4), nonce |-> <<6>>, ticket |-> <<n, i>>]

Issue(n, k) ==
  [pskAccess |-> <<n, 1>>, pskRefresh |-> <<n, 2>>,
   tickets |-> [i \in 1..k |-> Ticket(n, i)]]

(* A session without the age fields of its tickets, which a hello empties. *)
emptyAge(t) == [t EXCEPT !.ticketAgeAdd = << >>]
Bare(s) == [s EXCEPT !.tickets = [i \in DOMAIN @ |-> emptyAge(@[i])]]

(* The session read from a file, or none when LoadSession has an error.    *)
FromFile(l) == LoadSession(disk[l]).session

-----------------------------------------------------------------------------
(* The process ends: a panic of main or of the goroutine, or a signal.     *)

Ends ==
  /\ pc' = "down"
  /\ mem' = [l \in Links |-> NoSession]
  /\ beating' = FALSE
  /\ link' = "none"
  /\ UNCHANGED <<disk, issued, starts, cuts, proved>>

Start ==
  /\ pc = "down" /\ starts < MaxStarts
  /\ starts' = starts + 1
  /\ mem' = [mem EXCEPT !["long"] = FromFile("long")]
  /\ pc' = "handshake"
  /\ UNCHANGED <<beating, link, disk, issued, cuts, proved>>

(* A handshake that returns nil leaves a session the server has issued.    *)
NewSession(l, k) ==
  LET s == Issue(issued[l] + 1, k)
  IN  /\ issued' = [issued EXCEPT ![l] = @ + 1]
      /\ mem' = [mem EXCEPT ![l] = s]

(* (mutant: the goroutine started before the session is saved)             *)
HandshakeBeats(k) ==
  /\ pc = "handshake"
  /\ NewSession("long", k)
  /\ proved' = [proved EXCEPT !["long"] = @ \cup {Bare(mem'["long"])}]
  /\ link' = "up"
  /\ beating' = TRUE
  /\ pc' = "openlong"
  /\ UNCHANGED <<disk, starts, cuts>>

Handshake(k) ==
  /\ pc = "handshake"
  /\ NewSession("long", k)
  /\ proved' = [proved EXCEPT !["long"] = @ \cup {Bare(mem'["long"])}]
  /\ link' = "up"
  /\ pc' = "openlong"
  /\ UNCHANGED <<beating, disk, starts, cuts>>

(* Handshake, called by main or by Request, returns an error.              *)
HandshakeFails == pc \in {"handshake", "request"} /\ Ends

(* os.WriteFile: the file is opened and truncated, then written.  Main     *)
(* does not look at the error of either.                                   *)
Open(l, next) ==
  /\ pc = Opening[l]
  /\ \/ disk' = [disk EXCEPT ![l] = << >>] /\ pc' = Writing[l] /\ UNCHANGED <<mem, beating>>
     \/ UNCHANGED disk /\ next
  /\ UNCHANGED <<link, issued, starts, cuts, proved>>

Write(l, next) ==
  /\ pc = Writing[l]
  /\ LET bytes == SaveBytes(mem[l])
     IN  \/ disk' = [disk EXCEPT ![l] = bytes] /\ UNCHANGED cuts
         \/ /\ cuts < MaxCuts
            /\ \E n \in 0..Len(bytes) - 1 : disk' = [disk EXCEPT ![l] = First(n, bytes)]
            /\ cuts' = cuts + 1
  /\ next
  /\ UNCHANGED <<link, issued, starts, proved>>

(* After the long link's session: the goroutine, and the short link's file.*)
Beats ==
  /\ beating' = TRUE
  /\ mem' = [mem EXCEPT !["short"] = FromFile("short")]
  /\ pc' = "request"

Waits == pc' = "wait" /\ UNCHANGED <<mem, beating>>

Save == \/ Open("long", Beats)  \/ Write("long", Beats)
        \/ Open("short", Waits) \/ Write("short", Waits)

(* ensureSession: a session with a ticket and a key will do.               *)
HasSession == mem["short"].tickets # << >> /\ mem["short"].pskAccess # << >>

Ensure ==
  /\ pc = "request"
  /\ \/ HasSession /\ UNCHANGED <<mem, issued>>
     \/ ~HasSession /\ \E k \in TicketCounts["short"] : NewSession("short", k)
  /\ pc' = "send"
  /\ UNCHANGED <<beating, link, disk, starts, cuts, proved>>

(* newPskZeroHello offers the first ticket; t is a pointer into the        *)
(* session, so the age field is gone from what is saved later too.         *)
Offer ==
  /\ pc = "send" /\ mem["short"].tickets # << >>
  /\ mem' = [mem EXCEPT !["short"].tickets[1] = emptyAge(@)]
  /\ pc' = "await"
  /\ UNCHANGED <<beating, link, disk, issued, starts, cuts, proved>>

NoTicket == pc = "send" /\ mem["short"].tickets = << >> /\ Ends

(* The server knows the ticket offered and the key that belongs to it.     *)
Genuine(s) ==
  \E n \in 1..issued["short"] :
    /\ s.pskAccess = <<n, 1>>
    /\ serializeTicket(s.tickets[1]) = serializeTicket(emptyAge(Ticket(n, 1)))

Answered ==
  /\ pc = "await" /\ Genuine(mem["short"])
  /\ proved' = [proved EXCEPT !["short"] = @ \cup {Bare(mem["short"])}]
  /\ pc' = "openshort"
  /\ UNCHANGED <<mem, beating, link, disk, issued, starts, cuts>>

(* Also a ticket the server has issued may be too old for it.              *)
Refused == pc = "await" /\ Ends

LinkDies ==
  /\ link = "up"
  /\ link' = "dead"
  /\ UNCHANGED <<pc, mem, beating, disk, issued, starts, cuts, proved>>

(* (mutant: the error of Noop only logged)                                 *)
BeatsOn == beating /\ link = "dead" /\ UNCHANGED vars

(* Noop returns an error, and the goroutine panics, wherever main stands.  *)
NoopFails == beating /\ link = "dead" /\ Ends

Stopped == pc # "down" /\ Ends

-----------------------------------------------------------------------------
Main == \/ \E k \in TicketCounts["long"] : Handshake(k)
        \/ HandshakeFails \/ Save \/ Ensure \/ Offer \/ NoTicket
        \/ Answered \/ Refused

Next == Start \/ Main \/ NoopFails \/ LinkDies \/ Stopped

Spec == Init /\ [][Next]_vars

FairSpec == Spec /\ WF_vars(Main) /\ WF_vars(NoopFails)

-----------------------------------------------------------------------------
(* A process that dies between truncating and writing a file, a file that  *)
(* cannot be opened, a ticket aged through a pointer, a handshake refused  *)
(* half way: as long as no write is cut short, a session file holds        *)
(* nothing or a session that has worked, whole.                            *)
SavedIsProved ==
  cuts = 0 =>
    \A l \in Links : disk[l] # << >> =>
      /\ ~LoadSession(disk[l]).err
      /\ Bare(FromFile(l)) \in proved[l]

(* Even from a file cut anywhere, LoadSession returns an error, or both    *)
(* keys of a session that has worked and its tickets whole but for the     *)
(* last.                                                                   *)
LoadedKeysWhole ==
  \A l \in Links :
    LET s == FromFile(l)
    IN  s # NoSession =>
          \E t \in proved[l] :
            /\ s.pskAccess = t.pskAccess /\ s.pskRefresh = t.pskRefresh
            /\ Len(s.tickets) \in {0, Len(t.tickets)}
            /\ \A i \in 1..Len(s.tickets) - 1 :
                 emptyAge(s.tickets[i]) = t.tickets[i]

(* A ticket that LoadSession returns without an error is one that was      *)
(* saved.                                                                  *)
LoadedTicketsSaved ==
  \A l \in Links :
    LET s == FromFile(l)
    IN  \A i \in DOMAIN s.tickets :
          \E t \in proved[l] : /\ i \in DOMAIN t.tickets
                               /\ emptyAge(s.tickets[i]) = t.tickets[i]

(* When the long link is dead the program does not live on: main waits for *)
(* ever, and only the panic of the goroutine ends it.                      *)
DeadLinkEnds == (link = "dead") ~> (pc = "down")

=============================================================================
