--------------------------- MODULE GenericSocket ---------------------------
(***************************************************************************)
(* flood_socket_generic.c over the connection Network models: a new        *)
(* connection for every request, which asks the server to close it, and a  *)
(* recv_resp that reads until the server has.                              *)
(*                                                                         *)
(* The handlers are those of one profile run; Transaction calls them in    *)
(* the order of run_profile and says what becomes of its own variables.    *)
(***************************************************************************)
EXTENDS Network

VARIABLES
    pc,         \* the handler run_profile calls next, or the loop it is in
    keepalive,  \* req->keepalive
    want,       \* gsock->wantresponse; fullresp's change lasts one call
    rbuf        \* the units resp->rbufsize counts

socketVars == <<keepalive, want, rbuf>>

(* Bytes rbufsize counts although no read delivered them. *)
Junk == [of |-> 0, kind |-> "junk"]

(* The handlers between begin_conn and end_conn, and the loops in them. *)
Connected == {"create", "send", "recv", "load", "first", "drain", "post", "script", "end"}

SocketTypeOK ==
    /\ keepalive \in BOOLEAN
    /\ want \in BOOLEAN
    /\ rbuf \in Seq(Unit \cup {Junk})

SocketInit ==
    /\ keepalive = FALSE
    /\ want = FALSE
    /\ rbuf = <<>>

-----------------------------------------------------------------------------
(* generic_begin_conn: create_req has yet to write the Connection header.   *)
Persistent_Unset == TRUE   \* mutant: leaves the flag to the caller
Persistent == FALSE

BeginConn ==
    /\ pc = "begin"
    /\ OpenSocket
    /\ keepalive' = Persistent
    /\ pc' = "create"
    /\ UNCHANGED <<want, rbuf>>

BeginRefused ==
    /\ pc = "begin" /\ "refuse" \in Faults
    /\ pc' = "failed"
    /\ UNCHANGED <<netVars, socketVars>>

(* generic_send_req, told what create_req wants of the response.            *)
SendReq(q, wantresponse) ==
    /\ pc = "send" /\ WriteOK
    /\ WriteSocket(q)
    /\ want' = wantresponse
    /\ pc' = "recv"
    /\ UNCHANGED <<keepalive, rbuf>>

SendFails(wantresponse) ==
    /\ pc = "send" /\ ~WriteOK
    /\ want' = wantresponse
    /\ pc' = "failed"
    /\ UNCHANGED <<netVars, keepalive, rbuf>>

-----------------------------------------------------------------------------
(* generic_recv_resp, or generic_fullresp_recv_resp when full. *)

(* Both loops go on after any other status, ECONNRESET among them. *)
Stops(st) == st \in {"EOF", "TIMEUP"}

Received(res) ==
    IF res.st = "TIMEUP" THEN [i \in 1..res.n |-> Junk] ELSE ReadData(res)

Wants(full) == want \/ full

RecvStart(full) ==
    /\ pc = "recv"
    /\ rbuf' = <<>>
    /\ pc' = IF Wants(full) THEN "load" ELSE "first"
    /\ UNCHANGED <<netVars, keepalive, want>>

(* Everything is wanted: each read is appended, also one that timed out.    *)
Load ==
    /\ pc = "load"
    /\ \E res \in ReadResults(BufUnits) :
         /\ ReadSocket(res)
         /\ rbuf' = rbuf \o Received(res)
         /\ pc' = IF Stops(res.st) THEN "post" ELSE "load"
    /\ UNCHANGED <<keepalive, want>>

(* Only the first read is kept, the others are dropped; a poll timeout is   *)
(* an error here.                                                           *)
After(st) == CASE st = "EOF" -> "post" [] st = "TIMEUP" -> "failed" [] OTHER -> "drain"

First ==
    /\ pc = "first"
    /\ \E res \in ReadResults(BufUnits) :
         /\ ReadSocket(res)
         /\ rbuf' = Received(res)
         /\ pc' = After(res.st)
    /\ UNCHANGED <<keepalive, want>>

Drain ==
    /\ pc = "drain"
    /\ \E res \in ReadResults(BufUnits) :
         /\ ReadSocket(res)
         /\ pc' = After(res.st)
    /\ UNCHANGED socketVars

RecvResp(full) == RecvStart(full) \/ Load \/ First \/ Drain

(* generic_end_conn. *)
EndConn ==
    /\ pc = "end"
    /\ CloseSocket
    /\ pc' = "loop"
    /\ UNCHANGED socketVars
=============================================================================
