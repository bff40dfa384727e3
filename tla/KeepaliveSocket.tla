-------------------------- MODULE KeepaliveSocket --------------------------
(***************************************************************************)
(* flood_socket_keepalive.c driven by the request loop of run_profile: one *)
(* farmer, one socket, one request at a time over the connection Network   *)
(* models.  Every handler is one action, and a handler that reads in a     *)
(* loop takes one step per read.                                           *)
(***************************************************************************)
EXTENDS Network

CONSTANT MaxRetries   \* bound: EAGAIN retries of open_socket

ASSUME RetriesAssumption == MaxRetries \in Nat

VARIABLES
    pc,         \* the handler run_profile is about to call, or the loop it is in
    cur,        \* the number of the current request
    req,        \* its method and wantresponse
    ksock,      \* keepalive_socket_t: is s set, reopen_socket, wantresponse, method
    resp,       \* response_t: keepalive and the units rbuf counts
    remaining,  \* content_length, less what has been read
    leaked      \* descriptors neither ksock->s nor anyone else refers to

clientVars == <<pc, cur, req, ksock, resp, remaining, leaked>>
vars == <<netVars, clientVars>>

(* Bytes rbufsize counts although no read delivered them. *)
Junk == [of |-> 0, kind |-> "junk"]

Request == [method: Methods, want: BOOLEAN]

TypeOK ==
    /\ NetTypeOK
    /\ pc \in {"next", "begin", "send", "recv", "load", "loadall", "drain",
               "drainall", "chunk", "end", "done", "failed"}
    /\ cur \in Reqs
    /\ req \in Request
    /\ ksock \in [s: BOOLEAN, reopen: BOOLEAN, want: BOOLEAN, method: Methods \cup {"none"}]
    /\ resp \in [keepalive: BOOLEAN, rbuf: Seq(Unit \cup {Junk})]
    /\ remaining \in Int
    /\ leaked \in Nat

NoResp == [keepalive |-> FALSE, rbuf |-> <<>>]

(* keepalive_socket_init; run_profile then asks for the first URL. *)
Init ==
    /\ NetInit
    /\ pc = "next"
    /\ cur = 1
    /\ req \in Request
    /\ ksock = [s |-> FALSE, reopen |-> TRUE, want |-> TRUE, method |-> "none"]
    /\ resp = NoResp
    /\ remaining = 0
    /\ leaked = 0

-----------------------------------------------------------------------------
(* get_next_url and create_req pick the method and wantresponse; they do   *)
(* not touch the connection.                                               *)
NextUrl ==
    /\ pc = "next"
    /\ req' \in Request
    /\ pc' = "begin"
    /\ UNCHANGED <<netVars, cur, ksock, resp, remaining, leaked>>

(* keepalive_begin_conn.  check_socket finds the kept connection stale when *)
(* anything at all can be read from it.                                     *)
MustOpen_Always == TRUE   \* mutant: the check's verdict is ignored
MustOpen == ksock.reopen \/ ~ksock.s \/ Readable

BeginReuse ==
    /\ pc = "begin" /\ ~MustOpen
    /\ pc' = "send"
    /\ UNCHANGED <<netVars, cur, req, ksock, resp, remaining, leaked>>

(* A stale connection is replaced without being closed. *)
Abandoned == IF fd = "open" THEN 1 ELSE 0

BeginOpen ==
    /\ pc = "begin" /\ MustOpen
    /\ OpenSocket
    /\ ksock' = [ksock EXCEPT !.s = TRUE, !.reopen = FALSE]
    /\ leaked' = leaked + Abandoned
    /\ pc' = "send"
    /\ UNCHANGED <<cur, req, resp, remaining>>

(* open_socket returned NULL: begin_conn and run_profile return its status. *)
BeginRefused ==
    /\ pc = "begin" /\ MustOpen /\ "refuse" \in Faults
    /\ ksock' = [ksock EXCEPT !.s = FALSE, !.reopen = TRUE]
    /\ fd' = "none"
    /\ leaked' = leaked + Abandoned
    /\ pc' = "failed"
    /\ UNCHANGED <<srv, inbox, owed, wire, cur, req, resp, remaining>>

(* connect says EAGAIN: sleep, then open another socket; the first is lost. *)
BeginAgain ==
    /\ pc = "begin" /\ MustOpen /\ "eagain" \in Faults
    /\ leaked + Abandoned < MaxRetries
    /\ ksock' = [ksock EXCEPT !.reopen = TRUE]
    /\ fd' = "none"
    /\ leaked' = leaked + Abandoned + 1
    /\ UNCHANGED <<srv, inbox, owed, wire, pc, cur, req, resp, remaining>>

(* keepalive_send_req. *)
SendReq ==
    /\ pc = "send" /\ WriteOK
    /\ WriteSocket([id |-> cur, method |-> req.method])
    /\ ksock' = [ksock EXCEPT !.want = req.want, !.method = req.method]
    /\ pc' = "recv"
    /\ UNCHANGED <<cur, req, resp, remaining, leaked>>

SendFails ==
    /\ pc = "send" /\ ~WriteOK
    /\ ksock' = [ksock EXCEPT !.want = req.want, !.method = req.method]
    /\ pc' = "failed"
    /\ UNCHANGED <<netVars, cur, req, resp, remaining, leaked>>

-----------------------------------------------------------------------------
(* keepalive_recv_resp: the first read. *)

(* What the line loop of the parse may find in the first read: a reply and  *)
(* the place of its header, 0 when there is none.  Bytes of an earlier      *)
(* response in front of a header are lines without meaning, and the loop    *)
(* goes on behind them, but it stops at an empty line: the last-chunk ends  *)
(* with one, and a piece of a body may hold one (that a piece of a body     *)
(* holds a header line is left out).  A response without Content-Length and *)
(* without chunks runs to the end of the connection.                        *)
NoHeader == [reply |-> [framing |-> "eof", close |-> FALSE, len |-> 0], at |-> 0]

Parses(data) ==
    {[reply |-> data[k].reply, at |-> k] :
        k \in {k \in 1..Len(data) : /\ data[k].kind = "head"
                                    /\ \A i \in 1..(k - 1) : data[i].kind = "body"}}
      \cup {h \in {NoHeader} : data[1].kind # "head"}

(* resp->keepalive: no Connection: Close, and the end of the body is known. *)
Keeps_NoLength(p) == ~p.reply.close   \* mutant: without Content-Length too
Keeps(p) == ~p.reply.close /\ (p.reply.framing # "eof" \/ ksock.method = "HEAD")

(* content_length less the bytes the first read brought behind the header.  *)
BodyLeft_All(p, data) == p.reply.len              \* mutant: forgets the first read
BodyLeft_Less(p, data) == p.reply.len - Len(data) \* mutant: takes the header for body
BodyLeft(p, data) == p.reply.len - (Len(data) - p.at)

(* The header block decides how the rest is read. *)
Headers(p, data) ==
    LET keep == Keeps(p)
        left == BodyLeft(p, data)
    IN  /\ resp' = [keepalive |-> keep, rbuf |-> data]
        /\ remaining' = IF keep /\ p.reply.framing = "length" /\ ksock.method # "HEAD"
                        THEN left ELSE 0
        /\ pc' = IF ksock.method = "HEAD" THEN "end"
                 ELSE IF ksock.want
                      THEN IF keep /\ p.reply.framing = "length" /\ left > 0
                           THEN "load" ELSE "loadall"
                 ELSE IF p.reply.framing = "chunked" THEN "chunk"
                 ELSE IF keep THEN (IF left = 0 THEN "end" ELSE "drain")
                 ELSE "drainall"

RecvFirst ==
    /\ pc = "recv"
    /\ \E res \in ReadResults(BufUnits) :
         /\ res.st = "SUCCESS"
         /\ ReadSocket(res)
         /\ \E p \in Parses(ReadData(res)) : Headers(p, ReadData(res))
    /\ UNCHANGED <<cur, req, ksock, leaked>>

(* The peer closed instead of answering.  The parse then runs over an      *)
(* uninitialised rbuf, so Connection: may seem to say anything.            *)
RecvEof ==
    /\ pc = "recv"
    /\ \E res \in ReadResults(BufUnits) :
         /\ res.st = "EOF"
         /\ ReadSocket(res)
    /\ \E keep \in BOOLEAN : resp' = [keepalive |-> keep, rbuf |-> <<>>]
    /\ remaining' = 0
    /\ pc' = IF ksock.want /\ ksock.method # "HEAD" THEN "loadall" ELSE "end"
    /\ UNCHANGED <<cur, req, ksock, leaked>>

(* Any other status is returned and ends the profile. *)
RecvFails ==
    /\ pc = "recv"
    /\ \E res \in ReadResults(BufUnits) :
         /\ res.st \notin {"SUCCESS", "EOF"}
         /\ ReadSocket(res)
    /\ pc' = "failed"
    /\ UNCHANGED <<cur, req, ksock, resp, remaining, leaked>>

-----------------------------------------------------------------------------
(* The reads after the first one. *)

(* The statuses the read loops stop at; ECONNRESET is not one of them. *)
Stops_NotEof(st) == st \in {"EGENERAL", "TIMEUP"}   \* mutant
Stops(st) == st \in {"EGENERAL", "EOF", "TIMEUP"}

Limit == IF remaining < BufUnits THEN remaining ELSE BufUnits

(* rbufsize grows by what the read was asked for when it timed out. *)
Loaded(res) ==
    resp.rbuf \o (IF res.st = "TIMEUP" THEN [i \in 1..res.n |-> Junk] ELSE ReadData(res))

(* keepalive_load_resp with a known number of bytes to come. *)
LoadKnown ==
    /\ pc = "load"
    /\ \E res \in ReadResults(Limit) :
         /\ ReadSocket(res)
         /\ resp' = [resp EXCEPT !.rbuf = Loaded(res)]
         /\ remaining' = remaining - res.n
         /\ pc' = IF Stops(res.st) \/ remaining' = 0 THEN "end" ELSE "load"
    /\ UNCHANGED <<cur, req, ksock, leaked>>

(* keepalive_load_resp until the connection ends or times out. *)
LoadAll ==
    /\ pc = "loadall"
    /\ \E res \in ReadResults(BufUnits) :
         /\ ReadSocket(res)
         /\ resp' = [resp EXCEPT !.rbuf = Loaded(res)]
         /\ pc' = IF Stops(res.st) THEN "end" ELSE "loadall"
    /\ UNCHANGED <<cur, req, ksock, remaining, leaked>>

(* A body of known length nobody wants is read and dropped. *)
Drain ==
    /\ pc = "drain"
    /\ \E res \in ReadResults(Limit) :
         /\ ReadSocket(res)
         /\ remaining' = remaining - res.n
         /\ pc' = IF Stops(res.st) \/ remaining' = 0 THEN "end" ELSE "drain"
    /\ UNCHANGED <<cur, req, ksock, resp, leaked>>

(* So is one that ends with the connection. *)
DrainAll ==
    /\ pc = "drainall"
    /\ \E res \in ReadResults(BufUnits) :
         /\ ReadSocket(res)
         /\ pc' = IF Stops(res.st) THEN "end" ELSE "drainall"
    /\ UNCHANGED <<cur, req, ksock, resp, remaining, leaked>>

(* keepalive_read_chunk: up to the last-chunk.  When the first read already *)
(* held it, resp->chunk is NULL and the loop waits for another chunk size.  *)
LastChunk_Any(data) == TRUE   \* mutant: one chunk is taken for the body
LastChunk(data) == \E k \in 1..Len(data) : data[k].kind = "last"

ReadChunk ==
    /\ pc = "chunk"
    /\ \E res \in ReadResults(BufUnits) :
         /\ ReadSocket(res)
         /\ pc' = IF res.st # "SUCCESS" \/ LastChunk(ReadData(res)) THEN "end" ELSE "chunk"
    /\ UNCHANGED <<cur, req, ksock, resp, remaining, leaked>>

-----------------------------------------------------------------------------
(* keepalive_end_conn, then the rest of run_profile's loop, which ends with *)
(* the destruction of the response.                                         *)
Closed_Reused == ksock   \* mutant: forgets that it just closed it
Closed == [ksock EXCEPT !.reopen = TRUE]

MoreRequests_OneTooMany == cur <= NumReqs   \* mutant
MoreRequests == cur < NumReqs

EndConn ==
    /\ pc = "end"
    /\ IF resp.keepalive
       THEN UNCHANGED <<netVars, ksock>>
       ELSE CloseSocket /\ ksock' = Closed
    /\ cur' = IF MoreRequests THEN cur + 1 ELSE cur
    /\ pc' = IF MoreRequests THEN "next" ELSE "done"
    /\ resp' = NoResp
    /\ remaining' = 0
    /\ UNCHANGED <<req, leaked>>

BeginConn == BeginReuse \/ BeginOpen \/ BeginRefused \/ BeginAgain
RecvResp == RecvFirst \/ RecvEof \/ RecvFails
ReadRest == LoadKnown \/ LoadAll \/ Drain \/ DrainAll \/ ReadChunk
Client == NextUrl \/ BeginConn \/ SendReq \/ SendFails \/ RecvResp \/ ReadRest \/ EndConn

(* run_profile has left its loop. *)
Stopped == pc \in {"done", "failed"} /\ UNCHANGED vars

Next == Client \/ (Server /\ UNCHANGED clientVars) \/ Stopped

(* The farmer's thread runs whenever it can: apr_poll's timeout bounds each *)
(* wait, and a server that took a request goes on sending its reply.        *)
Fairness == WF_vars(Client) /\ WF_vars(ServerWork /\ UNCHANGED clientVars)

Spec == Init /\ [][Next]_vars /\ Fairness

-----------------------------------------------------------------------------
(* begin_conn, end_conn and the reads agree on the descriptor: from         *)
(* send_req to end_conn it is open, and the one the next begin_conn polls   *)
(* without opening is open too.                                             *)
NoUseAfterClose ==
    /\ pc \in {"send", "recv", "load", "loadall", "drain", "drainall", "chunk", "end"}
          => fd = "open" /\ ksock.s
    /\ ~ksock.reopen => fd = "open" /\ ksock.s

(* The server died before the whole reply was sent. *)
CutShort == srv \in {"closed", "reset"} /\ owed # <<>>

(* In the loops that know how much is to come, content_length less what was *)
(* read is exactly what the server still has to deliver: the loop neither   *)
(* stops inside the body nor waits for bytes nobody owes.                   *)
RemainingIsOwed ==
    pc \in {"load", "drain"} /\ ~CutShort => remaining = Len(wire) + Len(owed)

(* rbuf holds only bytes of the response to the current request: a kept     *)
(* connection never hands over what was left of an earlier one.             *)
OwnResponse ==
    \A i \in 1..Len(resp.rbuf) : resp.rbuf[i] # Junk => resp.rbuf[i].of = cur

(* With wantresponse, recv_resp returns with the whole response in rbuf     *)
(* whenever the server answered and did not die on the way; only what a     *)
(* timed out read counted may stand behind it.                              *)
WholeResponse ==
    pc = "end" /\ ksock.want /\ ksock.method # "HEAD" /\ resp.rbuf # <<>> /\ ~CutShort
      => LET units == UnitsOf([id |-> cur, method |-> ksock.method], resp.rbuf[1].reply)
         IN  /\ Len(resp.rbuf) >= Len(units)
             /\ \A k \in 1..Len(resp.rbuf) :
                   resp.rbuf[k] = IF k <= Len(units) THEN units[k] ELSE Junk

(* end_conn keeps a connection only when nothing of this response is left   *)
(* on it, so the next recv_resp starts at its own header.                   *)
DrainedBeforeReuse ==
    pc = "end" /\ resp.keepalive /\ ~CutShort => wire = <<>> /\ owed = <<>>

(* What flood may still read: what arrived, and what the server is sending. *)
Together(w, o, s) == w \o (IF s \in {"replying", "closing"} THEN o ELSE <<>>)
Stream == Together(wire, owed, srv)

(* s is of the answer to request c, behind its header.                      *)
Rest(s, c) == \A i \in 1..Len(s) : s[i].of = c /\ s[i].kind # "head"

(* The bytes b hold the header of request c's answer, and behind it nothing *)
(* but that answer.                                                         *)
Answers(b, c) ==
    \E h \in 1..Len(b) :
       /\ b[h].kind = "head" /\ b[h].of = c
       /\ \A k \in 1..Len(b) : h < k => b[k] = Junk \/ (b[k].of = c /\ b[k].kind # "head")
Blank(b) == \A i \in 1..Len(b) : b[i] = Junk

(* A poll timeout leaves the rest of a response on a kept connection, where *)
(* the next recv_resp reads it in front of its own.  Requests and responses *)
(* do not get out of step by it: end_conn keeps a connection only when the  *)
(* header of this request's response was received, if anything was, and     *)
(* when nothing but the tail of that response is still to come on it.       *)
KeptInStep ==
    pc = "end" /\ resp.keepalive
      => /\ Blank(resp.rbuf) \/ Answers(resp.rbuf, cur)
         /\ Rest(Stream, cur)

(* begin_conn abandons an open descriptor, without closing it, only when    *)
(* the server had ended that connection or connect had said EAGAIN.         *)
AbandonsOnlyDead ==
    [][leaked' > leaked => srv \in {"closed", "reset"} \/ (BeginAgain /\ fd # "open")]_vars

(* When the server may stall, late bytes of an earlier response are the     *)
(* only other reason: what begin_conn abandons was found readable while it  *)
(* should have been silent.                                                 *)
AbandonsOnlyStale ==
    [][leaked' > leaked => Readable \/ (BeginAgain /\ fd # "open")]_vars

(* Every profile run comes to an end, whatever the server does: each wait   *)
(* of the read loops is bounded by EOF, an error or the 120 s poll timeout. *)
Termination == <>(pc \in {"done", "failed"})
=============================================================================
