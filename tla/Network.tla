------------------------------ MODULE Network ------------------------------
(***************************************************************************)
(* One TCP connection between a farmer and the server under test, as       *)
(* flood_net.c uses it: the descriptor flood holds, the server at the      *)
(* other end, and the bytes on their way.  The server and the kernel are   *)
(* not part of the repository; they are modelled from what the calls in    *)
(* flood_net.c can observe of them.                                        *)
(*                                                                         *)
(* Data is abstracted to units: the header block of a response (which      *)
(* recv_resp assumes to arrive in one piece, flood_socket_keepalive.c:364),*)
(* a piece of its body (one chunk, when it is chunked) and the last-chunk. *)
(***************************************************************************)
EXTENDS Integers, Sequences

CONSTANTS
    NumReqs,    \* bound: the requests one profile run sends
    Methods,    \* the methods of the requests
    MaxBody,    \* bound: body units of one response
    BufUnits,   \* MAX_DOC_LENGTH - 1, in units: the most one read returns
    Faults      \* what the server and the network may do to a connection

ASSUME NetworkAssumption ==
    /\ NumReqs \in Nat \ {0}
    /\ Methods \subseteq {"GET", "HEAD"}
    /\ MaxBody \in Nat
    /\ BufUnits \in Nat \ {0}
    /\ Faults \subseteq {"idleclose", "crash", "stall", "refuse", "eagain"}

Reqs == 1..NumReqs

(* What the header block of a response announces. *)
Reply == [framing: {"length", "chunked", "eof"}, close: BOOLEAN, len: 0..MaxBody]

Unit == [of: Reqs, kind: {"head"}, reply: Reply] \cup [of: Reqs, kind: {"body", "last"}]

VARIABLES
    fd,     \* the descriptor behind ksock->s: "none", "open" or "closed"
    srv,    \* the server's end: idle, replying, replying and closing after
            \* that, closed (FIN received) or reset (RST received)
    inbox,  \* the requests the server has not finished answering
    owed,   \* units of the current reply the server has not sent yet
    wire    \* units that arrived and flood has not read yet

netVars == <<fd, srv, inbox, owed, wire>>

NetTypeOK ==
    /\ fd \in {"none", "open", "closed"}
    /\ srv \in {"idle", "replying", "closing", "closed", "reset"}
    /\ inbox \in Seq([id: Reqs, method: Methods])
    /\ owed \in Seq(Unit)
    /\ wire \in Seq(Unit)

NetInit ==
    /\ fd = "none"
    /\ srv = "closed"
    /\ inbox = <<>>
    /\ owed = <<>>
    /\ wire = <<>>

(* The units of the reply p to request q; a HEAD request gets no body. *)
UnitsOf(q, p) ==
    LET head == <<[of |-> q.id, kind |-> "head", reply |-> p]>>
        body == [i \in 1..p.len |-> [of |-> q.id, kind |-> "body"]]
        last == IF p.framing = "chunked" THEN <<[of |-> q.id, kind |-> "last"]>> ELSE <<>>
    IN  IF q.method = "HEAD" THEN head ELSE head \o body \o last

(* A reply after which the server closes its end of the connection. *)
ClosesAfter(q, p) == p.close \/ (p.framing = "eof" /\ q.method # "HEAD")

-----------------------------------------------------------------------------
(* The calls of flood_net.c, as the socket implementations compose them.   *)

(* apr_poll for input in check_socket and read_socket: data, FIN or error. *)
Readable == wire # <<>> \/ srv \in {"closed", "reset"}

(* The server has nothing left to say on this connection until it is asked. *)
Quiet == srv = "idle" /\ inbox = <<>>

(* open_socket succeeded: a new connection replaces what fd denoted. *)
OpenSocket ==
    /\ fd' = "open"
    /\ srv' = "idle"
    /\ inbox' = <<>> /\ owed' = <<>> /\ wire' = <<>>

(* close_socket: the server's end becomes irrelevant. *)
CloseSocket ==
    /\ fd' = "closed"
    /\ srv' = "closed"
    /\ inbox' = <<>> /\ owed' = <<>> /\ wire' = <<>>

(* write_socket: the kernel takes the request unless the peer reset the    *)
(* connection.  After a FIN the write succeeds and the request is lost.    *)
WriteOK == srv # "reset"
WriteSocket(q) ==
    /\ inbox' = IF srv = "closed" THEN <<>> ELSE Append(inbox, q)
    /\ UNCHANGED <<fd, srv, owed, wire>>

(* What read_socket(limit) can return now; {} while it blocks in apr_poll. *)
(* A timeout returns before apr_socket_recv, so *buflen keeps the size     *)
(* asked for; EOF and errors set it to 0.                                  *)
ReadResults(limit) ==
    IF wire # <<>>
    THEN {[st |-> "SUCCESS", n |-> IF Len(wire) < limit THEN Len(wire) ELSE limit]}
    ELSE IF srv = "closed" THEN {[st |-> "EOF", n |-> 0]}
    ELSE IF srv = "reset" THEN {[st |-> "ECONNRESET", n |-> 0]}
    ELSE IF "stall" \in Faults \/ Quiet THEN {[st |-> "TIMEUP", n |-> limit]}
    ELSE {}

(* The bytes a read returned and its effect on the connection. *)
ReadData(res) == IF res.st = "SUCCESS" THEN SubSeq(wire, 1, res.n) ELSE <<>>
ReadSocket(res) ==
    /\ wire' = IF res.st = "SUCCESS" THEN SubSeq(wire, res.n + 1, Len(wire)) ELSE wire
    /\ srv' = IF res.st = "ECONNRESET" THEN "closed" ELSE srv
    /\ UNCHANGED <<fd, inbox, owed>>

-----------------------------------------------------------------------------
(* The server. *)

Replying == srv \in {"replying", "closing"}

(* It reads the request and decides what to answer. *)
SrvReply ==
    /\ srv = "idle" /\ inbox # <<>>
    /\ \E p \in Reply :
         /\ owed' = UnitsOf(inbox[1], p)
         /\ srv' = IF ClosesAfter(inbox[1], p) THEN "closing" ELSE "replying"
    /\ UNCHANGED <<fd, inbox, wire>>

(* One more unit of the reply arrives; after the last one the server keeps *)
(* the connection or closes it, as its header said.                        *)
SrvSend ==
    /\ Replying /\ owed # <<>>
    /\ wire' = Append(wire, Head(owed))
    /\ owed' = Tail(owed)
    /\ UNCHANGED <<fd, srv, inbox>>

SrvDone ==
    /\ Replying /\ owed = <<>>
    /\ srv' = IF srv = "closing" THEN "closed" ELSE "idle"
    /\ inbox' = Tail(inbox)
    /\ UNCHANGED <<fd, owed, wire>>

(* The server's keep-alive timeout: it closes an idle connection, whether  *)
(* or not a request is on its way.                                         *)
SrvIdleClose ==
    /\ "idleclose" \in Faults
    /\ srv = "idle" /\ fd = "open"
    /\ srv' = "closed"
    /\ inbox' = <<>>
    /\ UNCHANGED <<fd, owed, wire>>

(* The server dies in the middle of a reply; what it owed stays owed. *)
SrvCrash ==
    /\ "crash" \in Faults
    /\ Replying /\ owed # <<>>
    /\ srv' \in {"closed", "reset"}
    /\ UNCHANGED <<fd, inbox, owed, wire>>

ServerWork == SrvReply \/ SrvSend \/ SrvDone
Server == ServerWork \/ SrvIdleClose \/ SrvCrash
=============================================================================
