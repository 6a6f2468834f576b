----------------------------- MODULE HttpServer -----------------------------
(***************************************************************************)
(* The HTTP server that gives the roster to EngineDriver (http_server.c):   *)
(* one page at a time, written in small pieces straight into lwIP's send    *)
(* buffer, continued by a poll of the connection whenever the buffer was    *)
(* full, and closed when it is complete.                                    *)
(*                                                                          *)
(* lwIP runs its callbacks one after the other; nothing is acknowledged and *)
(* no buffer given back while one runs.  Each write is a step here, so that *)
(* a callback that does not end is seen.  tcp_write takes a piece whole or  *)
(* not at all, and what it took is sent.                                    *)
(***************************************************************************)
EXTENDS Integers, FiniteSets, FiniteSetsExt, SequencesExt

CONSTANTS
  Conns,      (* pcbs lwIP may hand out                                 *)
  NoConn,     (* NULL                                                   *)
  Roster,     (* entries: maxFnNum, and the length of each function's label *)
  Size(_),    (* bytes of each piece of the page                        *)
  SndBuf,     (* bytes of a send buffer, TCP_SND_BUF                    *)
  Heap,       (* bytes all connections together may have in lwIP: its   *)
              (* heap, its segments and the queues of segments          *)
  Assumed     (* see Assumptions                                        *)

HeaderWrites == 5     \* xml_start
ROSTER_FUNC_MAX == 28

(***************************************************************************)
(* one_segment: a client sends its request in one segment, once.            *)
(* own_errors:  no connection but the one being served fails while a page   *)
(*              is under way.                                               *)
(* quick_acks:  what was sent is acknowledged before the next poll, a       *)
(*              second later.                                               *)
(***************************************************************************)
Assumptions == {"one_segment", "own_errors", "quick_acks"}

ASSUME HttpSetsAssumption ==
  IsFiniteSet(Conns) /\ NoConn \notin Conns /\ Assumed \subseteq Assumptions

ASSUME RosterAssumption ==
  /\ Roster \in Seq([maxFnNum : Nat, label : [0..ROSTER_FUNC_MAX -> Nat]])
  /\ Roster # <<>>

VARIABLES
  http_conn,  (* the connection being served: pcb, sending (its state), loco_index, phase *)
  tcp,        (* of each pcb: "none", "open", "closing" (closed here, not yet by the peer), *)
              (* "leaving" (closed by both) or "rejected" (closed without callbacks)        *)
  asked,      (* connections a segment has come from                                        *)
  unacked,    (* bytes in the send buffer of each connection                                *)
  pc,         (* the callback that runs: "idle", or in the "header", the "locos", the "end" *)
  written,    (* writes it has done in this header, phase or end                            *)
  text,       (* the pieces of a page each peer has been sent                               *)
  refused     (* history: the phases of it of which a write was refused                     *)

pageVars == <<pc, written, text, refused>>
vars == <<http_conn, tcp, asked, unacked, pageVars>>

Idle == [pcb |-> NoConn, sending |-> FALSE, loco_index |-> 0, phase |-> 0]

Init ==
  /\ http_conn = Idle
  /\ tcp = [c \in Conns |-> "none"]
  /\ asked = {}
  /\ unacked = [c \in Conns |-> 0]
  /\ pc = "idle" /\ written = 0
  /\ text = [c \in Conns |-> <<>>]
  /\ refused = [c \in Conns |-> {}]

-----------------------------------------------------------------------------
(* The page: the header, the entries with their phases, the end.  A piece is *)
(* one write: its entry, phase and number; the header is entry 0, the end    *)
(* the entry behind the last.                                                *)

\* Functions of an entry that are listed: up to maxFnNum, those with a label.
Listed(i) == {fn \in 0..ROSTER_FUNC_MAX : fn <= Roster[i].maxFnNum /\ Roster[i].label[fn] > 0}

\* A label is written character by character, between its tags.
LabelWrites(i) ==
  SumFunction([fn \in 0..ROSTER_FUNC_MAX |-> IF fn \in Listed(i) THEN 2 + Roster[i].label[fn] ELSE 0])

\* Writes of each phase of an entry, the phases numbered from 0.
PhaseWrites(i, phase) == <<2, 0, 3, 2 + LabelWrites(i), 1>>[phase + 1]
LastPhase == 4

Piece(i, phase, n) == <<i, phase, n>>
Header(n) == Piece(0, 0, n)
End == Piece(Len(Roster) + 1, 0, 1)
LineBreak == Piece(Len(Roster) + 1, 0, 2)   \* behind the page
NotFound == Piece(Len(Roster) + 2, 0, 1)    \* the answer 404

PhasePieces(i, phase) == {Piece(i, phase, n) : n \in 1..PhaseWrites(i, phase)}
EntryPieces(i) == UNION {PhasePieces(i, phase) : phase \in 0..LastPhase}

Pieces ==
  {Header(n) : n \in 1..HeaderWrites}
    \cup {End} \cup (UNION {EntryPieces(i) : i \in 1..Len(Roster)})

ASSUME HttpSizesAssumption ==
  /\ SndBuf \in Nat /\ Heap \in Nat
  /\ \A piece \in Pieces \cup {LineBreak, NotFound} : Size(piece) \in Nat \ {0}

-----------------------------------------------------------------------------
(* lwIP: tcp_write, acknowledgements *)

Client == http_conn.pcb

HeapLeft == Heap - SumFunction(unacked)

\* pcb->snd_buf
Room(c) == SndBuf - unacked[c]

\* tcp_write takes it (ERR_MEM or ERR_CONN otherwise).
Fits(c, piece) == tcp[c] = "open" /\ Size(piece) <= Room(c) /\ Size(piece) <= HeapLeft

Takes(c, piece) == unacked' = [unacked EXCEPT ![c] = @ + Size(piece)]

Sends(piece) ==
  /\ Takes(Client, piece)
  /\ text' = [text EXCEPT ![Client] = Append(@, piece)]
  /\ UNCHANGED refused

Refused(i, phase) ==
  /\ refused' = [refused EXCEPT ![Client] = @ \cup {<<i, phase>>}]
  /\ UNCHANGED <<unacked, text>>

\* Some or all of it is acknowledged.
Acknowledged(c) ==
  /\ pc = "idle"
  /\ \E n \in 0..unacked[c]-1 : unacked' = [unacked EXCEPT ![c] = n]
  /\ UNCHANGED <<http_conn, tcp, asked, pageVars>>

-----------------------------------------------------------------------------
(* The page is written: xml_start, xml_continue, xml_end *)

\* xml_start: a write that is refused ends the header, not the page.
WriteHeader ==
  /\ pc = "header"
  /\ LET piece == Header(written + 1)
         done == ~Fits(Client, piece) \/ written + 1 = HeaderWrites
     IN  /\ IF Fits(Client, piece) THEN Sends(piece) ELSE Refused(0, 0)
         /\ pc' = IF done THEN "locos" ELSE pc
         /\ written' = IF done THEN 0 ELSE written + 1
  /\ UNCHANGED <<http_conn, tcp, asked>>

\* The entry being sent, counted from 1 as sequences are.
Entry == http_conn.loco_index + 1

\* The next write of the phase.
NextWrite == Piece(Entry, http_conn.phase, written + 1)

InPhase ==
  /\ pc = "locos" /\ http_conn.loco_index < Len(Roster)
  /\ written < PhaseWrites(Entry, http_conn.phase)

\* The loop ends at the next poll, or goes on now: the buffer decides.
Goes == IF Room(Client) = 0 THEN "idle" ELSE "locos"

(* Fault: a refused write is taken for a written one. *)
WriteRefusedSkips ==
  /\ InPhase /\ ~Fits(Client, NextWrite)
  /\ written' = written + 1
  /\ pc' = Goes
  /\ Refused(Entry, http_conn.phase)
  /\ UNCHANGED <<http_conn, tcp, asked>>

(* Fault: the callback waits for room. *)
WriteRefusedWaits ==
  /\ InPhase /\ ~Fits(Client, NextWrite)
  /\ written' = 0
  /\ Refused(Entry, http_conn.phase)
  /\ UNCHANGED <<http_conn, tcp, asked, pc>>

\* The phase is left and starts again from its first write: at the next poll
\* if the buffer is full to the last byte, and otherwise at once.
WriteRefused ==
  /\ InPhase /\ ~Fits(Client, NextWrite)
  /\ written' = 0
  /\ pc' = Goes
  /\ Refused(Entry, http_conn.phase)
  /\ UNCHANGED <<http_conn, tcp, asked>>

WritePiece ==
  /\ InPhase /\ Fits(Client, NextWrite)
  /\ Sends(NextWrite)
  /\ written' = written + 1
  /\ UNCHANGED <<http_conn, tcp, asked, pc>>

PhaseDone ==
  /\ pc = "locos" /\ http_conn.loco_index < Len(Roster)
  /\ written = PhaseWrites(Entry, http_conn.phase)
  /\ written' = 0
  /\ http_conn' = IF http_conn.phase = LastPhase
                    THEN [http_conn EXCEPT !.loco_index = @ + 1, !.phase = 0]
                    ELSE [http_conn EXCEPT !.phase = @ + 1]
  /\ pc' = Goes
  /\ UNCHANGED <<tcp, asked, unacked, text, refused>>

LocosDone ==
  /\ pc = "locos" /\ http_conn.loco_index = Len(Roster)
  /\ pc' = "end"
  /\ UNCHANGED <<http_conn, tcp, asked, unacked, written, text, refused>>

\* xml_end, first write; without it the connection stays open for the next poll.
WriteEnd ==
  /\ pc = "end" /\ written = 0
  /\ IF Fits(Client, End)
       THEN Sends(End) /\ written' = 1 /\ pc' = pc
       ELSE pc' = "idle" /\ UNCHANGED <<unacked, written, text, refused>>
  /\ UNCHANGED <<http_conn, tcp, asked>>

\* xml_end, the last line break, whether it fits or not, and tcp_close.
CloseAtEnd ==
  /\ pc = "end" /\ written = 1
  /\ IF Fits(Client, LineBreak) THEN Takes(Client, LineBreak) ELSE UNCHANGED unacked
  /\ tcp' = [tcp EXCEPT ![Client] = "closing"]
  /\ pc' = "idle" /\ written' = 0
  /\ UNCHANGED <<http_conn, asked, text, refused>>

Writing ==
  WriteHeader \/ WriteRefused \/ WritePiece \/ PhaseDone \/ LocosDone \/ WriteEnd \/ CloseAtEnd

-----------------------------------------------------------------------------
(* The callbacks lwIP starts *)

\* http_accept_cb
Accept(c) ==
  /\ pc = "idle" /\ tcp[c] = "none"
  /\ IF http_conn.pcb # NoConn
       THEN tcp' = [tcp EXCEPT ![c] = "rejected"] /\ UNCHANGED http_conn
       ELSE tcp' = [tcp EXCEPT ![c] = "open"] /\ http_conn' = Idle
  /\ UNCHANGED <<asked, unacked, pageVars>>

\* http_recv_cb: a segment comes.
Segment(c) ==
  /\ pc = "idle" /\ tcp[c] = "open"
  /\ "one_segment" \in Assumed => c \notin asked
  /\ asked' = asked \cup {c}

SecondClient(c) ==
  /\ Segment(c)
  /\ http_conn.pcb \notin {NoConn, c}
  /\ tcp' = [tcp EXCEPT ![c] = "closing"]
  /\ UNCHANGED <<http_conn, unacked, pageVars>>

RosterRequest(c) ==
  /\ Segment(c)
  /\ http_conn.pcb \in {NoConn, c}
  /\ http_conn' = [pcb |-> c, sending |-> TRUE, loco_index |-> 0, phase |-> 0]
  /\ pc' = "header" /\ written' = 0
  /\ UNCHANGED <<tcp, unacked, text, refused>>

\* Anything else is answered by 404.
OtherRequest(c) ==
  /\ Segment(c)
  /\ http_conn.pcb \in {NoConn, c}
  /\ IF Fits(c, NotFound) THEN Takes(c, NotFound) ELSE UNCHANGED unacked
  /\ tcp' = [tcp EXCEPT ![c] = "closing"]
  /\ UNCHANGED <<http_conn, pageVars>>

\* http_poll_cb
Poll(c) ==
  /\ pc = "idle" /\ tcp[c] \in {"open", "closing"}
  /\ "quick_acks" \in Assumed => unacked[c] = 0
  /\ http_conn.pcb = c /\ http_conn.sending
  /\ pc' = "locos"
  /\ UNCHANGED <<http_conn, tcp, asked, unacked, written, text, refused>>

(* Fault: the end of the connection leaves http_conn as it is. *)
PeerClosesUnnoticed(c) ==
  /\ pc = "idle" /\ tcp[c] \in {"open", "closing"}
  /\ tcp' = [tcp EXCEPT ![c] = "leaving"]
  /\ UNCHANGED <<http_conn, asked, unacked, pageVars>>

\* http_recv_cb without data
PeerCloses(c) ==
  /\ pc = "idle" /\ tcp[c] \in {"open", "closing"}
  /\ http_conn' = IF http_conn.pcb = c THEN [http_conn EXCEPT !.pcb = NoConn, !.sending = FALSE]
                  ELSE http_conn
  /\ tcp' = [tcp EXCEPT ![c] = "leaving"]
  /\ UNCHANGED <<asked, unacked, pageVars>>

\* lwIP gives the pcb back, and nothing of the connection is left.
Freed(c) ==
  /\ tcp' = [tcp EXCEPT ![c] = "none"]
  /\ asked' = asked \ {c}
  /\ unacked' = [unacked EXCEPT ![c] = 0]
  /\ text' = [text EXCEPT ![c] = <<>>]
  /\ refused' = [refused EXCEPT ![c] = {}]
  /\ UNCHANGED <<pc, written>>

\* http_err_cb: a reset or a timeout.  The callback is not told of which connection.
Error(c) ==
  /\ pc = "idle" /\ tcp[c] \in {"open", "closing", "leaving"}
  /\ "own_errors" \in Assumed => http_conn.pcb \in {c, NoConn}
  /\ http_conn' = [http_conn EXCEPT !.pcb = NoConn, !.sending = FALSE]
  /\ Freed(c)

Leaves(c) ==
  /\ pc = "idle" /\ tcp[c] \in {"leaving", "rejected"}
  /\ Freed(c)
  /\ UNCHANGED http_conn

Next ==
  \/ Writing
  \/ \E c \in Conns :
       \/ Acknowledged(c) \/ Accept(c) \/ Poll(c)
       \/ SecondClient(c) \/ RosterRequest(c) \/ OtherRequest(c)
       \/ PeerCloses(c) \/ Error(c) \/ Leaves(c)

Spec == Init /\ [][Next]_vars

(***************************************************************************)
(* A callback runs until it ends; between two of them lwIP handles what has *)
(* come in, calls the poll callback of a connection every second            *)
(* (tcp_poll, 2), and ends a connection closed here when the peer closes it *)
(* too or its timer runs out.  Nobody has to ask for anything.              *)
(***************************************************************************)
FairSpec ==
  /\ Spec
  /\ WF_vars(Writing)
  /\ \A c \in Conns : /\ SF_vars(Acknowledged(c)) /\ SF_vars(Poll(c))
                      /\ SF_vars(tcp[c] = "closing" /\ (PeerCloses(c) \/ Error(c)))

-----------------------------------------------------------------------------
(* Type invariant; the buffers are never overdrawn. *)
Phases == (0..Len(Roster)) \X (0..LastPhase)

TypeOK ==
  /\ http_conn \in [pcb : Conns \cup {NoConn}, sending : BOOLEAN,
                    loco_index : 0..Len(Roster), phase : 0..LastPhase]
  /\ tcp \in [Conns -> {"none", "open", "closing", "leaving", "rejected"}]
  /\ asked \subseteq Conns
  /\ unacked \in [Conns -> 0..SndBuf] /\ HeapLeft >= 0
  /\ pc \in {"idle", "header", "locos", "end"}
  /\ written \in Nat
  /\ text \in [Conns -> Seq(Pieces)]
  /\ refused \in [Conns -> SUBSET Phases]

\* The order of the page, and what comes in it right after x.
Before(x, y) ==
  \/ x[1] < y[1]
  \/ x[1] = y[1] /\ x[2] < y[2]
  \/ x[1] = y[1] /\ x[2] = y[2] /\ x[3] < y[3]

Follows(x, y) == Before(x, y) /\ ~\E z \in Pieces : Before(x, z) /\ Before(z, y)

\* A phase of which a write was refused starts again; the header does not.
BegunAgain(c, x, y) ==
  /\ <<x[1], x[2]>> \in refused[c]
  /\ y = IF x[1] = 0 THEN Piece(1, 0, 1) ELSE Piece(x[1], x[2], 1)

(***************************************************************************)
(* What a client is sent is the page, in its order and without a gap,       *)
(* except behind a write that was refused: the phase then comes again from  *)
(* its first piece, behind what was sent of it already (the client sees it  *)
(* twice), and what is left of a header never comes.  The server closes     *)
(* only behind the end of the page, and never gives the page of an open     *)
(* connection up (http_server.c:76-252, 311-317).                           *)
(***************************************************************************)
PageInOrder ==
  \A c \in Conns : LET sent == text[c] IN
    /\ \A n \in 1..Len(sent)-1 : \/ Follows(sent[n], sent[n + 1])
                                  \/ BegunAgain(c, sent[n], sent[n + 1])
    /\ sent # <<>> => \/ sent[1] = Header(1)
                      \/ sent[1] = Piece(1, 0, 1) /\ <<0, 0>> \in refused[c]
    /\ tcp[c] = "closing" /\ sent # <<>> => Last(sent) = End
    /\ tcp[c] = "open" /\ sent # <<>> => http_conn.pcb = c

\* The callback is caught in its loop: the first write of the phase is refused,
\* for its length or for want of heap, and there is room left in the buffer.
Caught ==
  /\ InPhase /\ written = 0 /\ ~Fits(Client, NextWrite)
  /\ Room(Client) # 0

(***************************************************************************)
(* A page that was begun comes to its end, or its connection does, or the   *)
(* callback is caught: only a write refused with room left in the buffer    *)
(* can keep it from ending; what was refused by a full buffer is tried      *)
(* again at the next poll (http_server.c:237-252).                          *)
(***************************************************************************)
PagesEnd ==
  \A c \in Conns : (tcp[c] = "open" /\ text[c] # <<>>) ~> (tcp[c] # "open" \/ Caught)

(***************************************************************************)
(* The server is not busy for ever, unless its callback is caught: it       *)
(* serves one connection at a time, and a page that is complete leaves      *)
(* http_conn taken until the peer has closed the connection too             *)
(* (http_server.c:229, 331-336).                                            *)
(***************************************************************************)
ServerFree == []<>(http_conn.pcb = NoConn \/ Caught)
=============================================================================
