--------------------------- MODULE KeepaliveProofs ---------------------------
(***************************************************************************)
(* For every sequence of requests, every server and every fault: the       *)
(* keep-alive socket never uses a descriptor it has closed, and never      *)
(* abandons one that is alive.  From a server that may close, die or       *)
(* refuse but does not stall, and with bodies of any length and reads of   *)
(* any size: what it reads is the answer to its own request, all of it,    *)
(* and what it keeps is a connection with nothing left on it.  From one    *)
(* that does stall: GETs and their answers do not get out of step on a     *)
(* connection that is kept.                                                *)
(***************************************************************************)
EXTENDS KeepaliveSocket, NetworkProofs

(* The descriptor. *)

Descriptors == {"none", "open", "closed"}

(* The handlers that run on an open connection. *)
Connected == {"send", "recv", "load", "loadall", "drain", "drainall", "chunk", "end"}

KsockType == ksock \in [s: BOOLEAN, reopen: BOOLEAN, want: BOOLEAN,
                        method: Methods \cup {"none"}]

(* An open descriptor is never one that reopen_socket has given up: without *)
(* this end_conn could keep a connection that begin_conn then forgets.      *)
KeptOrGone == fd = "open" => ~ksock.reopen /\ ksock.s

DescriptorInv ==
    /\ fd \in Descriptors
    /\ req \in Request
    /\ KsockType
    /\ leaked \in Nat
    /\ NoUseAfterClose
    /\ KeptOrGone

LEMMA DescriptorInit == Init => DescriptorInv
  BY DEF Init, NetInit, DescriptorInv, Descriptors, KsockType, NoUseAfterClose, KeptOrGone

(* Whatever the server does, flood's descriptor stays what it was. *)
LEMMA ServerKeepsDescriptor ==
    ASSUME Server
    PROVE  UNCHANGED fd
  BY DEF Server, ServerWork, SrvReply, SrvSend, SrvDone, SrvIdleClose, SrvCrash

(* A read loop stays on the connection, or hands it to end_conn. *)
LEMMA ReadStep ==
    ASSUME DescriptorInv, RecvFirst \/ RecvEof \/ RecvFails \/ ReadRest
    PROVE  DescriptorInv'
<1>1. /\ pc \in Connected
      /\ pc' \in {"load", "loadall", "drain", "drainall", "chunk", "end", "failed"}
      /\ UNCHANGED <<fd, ksock, req, leaked>>
  BY DEF RecvFirst, RecvEof, RecvFails, ReadRest, LoadKnown, LoadAll, Drain, DrainAll,
         ReadChunk, ReadSocket, Headers, Connected
<1> QED
  BY <1>1 DEF DescriptorInv, KsockType, NoUseAfterClose, KeptOrGone, Connected

LEMMA BeginStep ==
    ASSUME DescriptorInv, BeginConn
    PROVE  DescriptorInv'
<1>1. Abandoned \in Nat /\ leaked \in Nat /\ KsockType /\ req \in Request
  BY DEF Abandoned, DescriptorInv
<1>2. CASE BeginReuse
  BY <1>2 DEF BeginReuse, MustOpen, netVars, DescriptorInv, KsockType, NoUseAfterClose,
              KeptOrGone
<1>3. CASE BeginOpen
  <2>1. fd' = "open" /\ leaked' \in Nat /\ req' = req /\ pc' = "send"
    BY <1>1, <1>3 DEF BeginOpen, OpenSocket
  <2>2. KsockType' /\ ksock'.s /\ ~ksock'.reopen
    BY <1>1, <1>3 DEF BeginOpen, KsockType
  <2> QED
    BY <1>1, <2>1, <2>2 DEF DescriptorInv, Descriptors, NoUseAfterClose, KeptOrGone
<1>4. CASE BeginRefused \/ BeginAgain
  <2>1. fd' = "none" /\ leaked' \in Nat /\ req' = req /\ pc' \in {"failed", "begin"}
    BY <1>1, <1>4 DEF BeginRefused, BeginAgain
  <2>2. KsockType' /\ ksock'.reopen
    BY <1>1, <1>4 DEF BeginRefused, BeginAgain, KsockType
  <2> QED
    BY <1>1, <2>1, <2>2 DEF DescriptorInv, Descriptors, NoUseAfterClose, KeptOrGone
<1> QED
  BY <1>2, <1>3, <1>4 DEF BeginConn

LEMMA DescriptorNext == DescriptorInv /\ [Next]_vars => DescriptorInv'
<1> SUFFICES ASSUME DescriptorInv, [Next]_vars PROVE DescriptorInv'
  OBVIOUS
<1>1. CASE NextUrl
  BY <1>1 DEF NextUrl, netVars, DescriptorInv, KsockType, NoUseAfterClose, KeptOrGone
<1>2. CASE BeginConn
  BY <1>2, BeginStep
<1>3. CASE SendReq \/ SendFails
  <2>1. req.want \in BOOLEAN /\ req.method \in Methods
    BY DEF DescriptorInv, Request
  <2> QED
    BY <1>3, <2>1 DEF SendReq, SendFails, WriteSocket, netVars, DescriptorInv, KsockType,
                      NoUseAfterClose, KeptOrGone
<1>4. CASE RecvResp \/ ReadRest
  BY <1>4, ReadStep DEF RecvResp
<1>5. CASE EndConn
  BY <1>5 DEF EndConn, CloseSocket, Closed, netVars, DescriptorInv, Descriptors, KsockType,
              NoUseAfterClose, KeptOrGone
<1>6. CASE Server /\ UNCHANGED clientVars
  BY <1>6, ServerKeepsDescriptor
     DEF clientVars, DescriptorInv, KsockType, NoUseAfterClose, KeptOrGone
<1>7. CASE UNCHANGED vars
  BY <1>7 DEF vars, netVars, clientVars, DescriptorInv, KsockType, NoUseAfterClose, KeptOrGone
<1> QED
  BY <1>1, <1>2, <1>3, <1>4, <1>5, <1>6, <1>7 DEF Next, Client, Stopped

LEMMA DescriptorAlways == Spec => []DescriptorInv
  BY DescriptorInit, DescriptorNext, PTL DEF Spec

(* begin_conn and end_conn keep reopen_socket and the descriptor in step:   *)
(* every handler between them works on an open descriptor, and so does the  *)
(* next begin_conn when it polls without opening.                           *)
THEOREM DescriptorSafety == Spec => []NoUseAfterClose
<1>1. DescriptorInv => NoUseAfterClose
  BY DEF DescriptorInv
<1> QED
  BY <1>1, DescriptorAlways, PTL

(* begin_conn drops an open descriptor only after check_socket has found    *)
(* something on that connection: its end, or bytes that came too late.  The *)
(* only other loss is the retry after EAGAIN.                               *)
THEOREM AbandonSafety == Spec => AbandonsOnlyStale
<1> DEFINE Stale == leaked' > leaked => Readable \/ (BeginAgain /\ fd # "open")
<1>1. DescriptorInv /\ [Next]_vars => [Stale]_vars
  <2> SUFFICES ASSUME DescriptorInv, [Next]_vars, leaked' > leaked
               PROVE  Readable \/ (BeginAgain /\ fd # "open")
    OBVIOUS
  <2>1. BeginConn
    <3>1. leaked \in Nat /\ leaked' # leaked
      BY DEF DescriptorInv
    <3> QED
      BY <3>1 DEF Next, Client, NextUrl, SendReq, SendFails, RecvResp, RecvFirst, RecvEof,
                  RecvFails, ReadRest, LoadKnown, LoadAll, Drain, DrainAll, ReadChunk,
                  EndConn, clientVars, vars, Stopped
  <2>2. MustOpen /\ (fd = "open" \/ BeginAgain)
    <3>1. leaked \in Nat /\ leaked' # leaked
      BY DEF DescriptorInv
    <3>2. MustOpen /\ (BeginAgain \/ leaked' = leaked + Abandoned)
      BY <2>1, <3>1 DEF BeginConn, BeginReuse, BeginOpen, BeginRefused, BeginAgain
    <3> QED
      BY <3>1, <3>2 DEF Abandoned
  <2>3. fd = "open" => ~ksock.reopen /\ ksock.s
    BY DEF DescriptorInv, KeptOrGone
  <2> QED
    BY <2>2, <2>3 DEF MustOpen
<1> QED
  BY <1>1, DescriptorAlways, PTL DEF Spec, AbandonsOnlyStale

-----------------------------------------------------------------------------
(* The framing. *)

Loops == {"load", "drain", "loadall", "drainall", "chunk"}

(* The server's end is closed. *)
Over == srv \in {"closed", "reset"}

(* The server is at work on one request at most, and it is the last. *)
Settled ==
    \/ Replying /\ Len(inbox) = 1
    \/ srv = "idle" /\ inbox = <<>>
    \/ Over

(* Nothing of an answer is left on the connection. *)
Clean == wire = <<>> /\ owed = <<>> /\ Settled

CurReq == [id |-> cur, method |-> ksock.method]

(* The request was written and nothing of its answer exists. *)
Unanswered ==
    /\ wire = <<>> /\ owed = <<>>
    /\ \/ srv = "idle" /\ inbox = <<CurReq>>
       \/ Replying /\ Len(inbox) = 2 /\ inbox[2] = CurReq
       \/ Over

(* Every unit on its way belongs to the current request. *)
Own == /\ \A k \in 1..Len(wire) : wire[k].of = cur
       /\ \A k \in 1..Len(owed) : owed[k].of = cur

(* A last-chunk has nothing behind it. *)
LastAtEnd ==
    /\ \A k \in 1..Len(wire) : wire[k].kind = "last" => k = Len(wire) /\ owed = <<>>
    /\ \A k \in 1..Len(owed) : owed[k].kind = "last" => k = Len(owed)

(* The units of the answer p to the current request. *)
LengthOf(p) == IF ksock.method = "HEAD" THEN 1
               ELSE 1 + p.len + (IF p.framing = "chunked" THEN 1 ELSE 0)

(* The whole answer p is on its way and nothing of it was read. *)
Answered(p) ==
    /\ Settled /\ Own /\ LastAtEnd
    /\ Len(wire) + Len(owed) = LengthOf(p)
    /\ IF wire # <<>> THEN Starts(wire, p) ELSE Starts(owed, p)

(* What is on the connection, by the handler that comes next. *)
FramingInv ==
    /\ TypeOK
    /\ srv = "idle" => owed = <<>>
    /\ Replying => inbox # <<>>
    /\ pc \in {"next", "begin"} /\ ~ksock.reopen => CutShort \/ Clean
    /\ pc = "send" => Clean
    /\ pc = "recv" => Unanswered \/ \E p \in Reply : Answered(p)
    /\ pc \in Loops => Settled /\ Own
    /\ pc \in {"load", "drain"} => /\ remaining > 0
                                   /\ CutShort \/ remaining = Len(wire) + Len(owed)
    /\ pc = "chunk" => LastAtEnd
    /\ pc = "end" /\ resp.keepalive => CutShort \/ Clean
    /\ pc \in {"next", "begin", "send", "recv"} => resp.rbuf = <<>>
    /\ OwnResponse

-----------------------------------------------------------------------------
(* The server's steps. *)

Sent == [id : Reqs, method : Methods]

ClientSame == UNCHANGED <<pc, cur, req, ksock, resp, remaining, leaked>>

(* A unit that arrives leaves what is to come as it was, one place on. *)
LEMMA UnitArrives ==
    ASSUME wire \in Seq(Unit), owed \in Seq(Unit), SrvSend, cur' = cur, ksock' = ksock
    PROVE  /\ wire' \in Seq(Unit) /\ owed' \in Seq(Unit) /\ owed # <<>> /\ Replying
           /\ UNCHANGED <<fd, srv, inbox>>
           /\ Len(wire') + Len(owed') = Len(wire) + Len(owed)
           /\ Own => Own'
           /\ LastAtEnd => LastAtEnd'
           /\ \A p \in Reply : Answered(p) => Answered(p)'
<1>1. owed # <<>> /\ wire' = Append(wire, Head(owed)) /\ owed' = Tail(owed) /\ Replying
      /\ UNCHANGED <<fd, srv, inbox>>
  BY DEF SrvSend
<1>2. Head(owed) \in Unit /\ Head(owed) = owed[1] /\ Len(owed) \in Nat \ {0} /\ Len(wire) \in Nat
  BY <1>1, HeadTailProperties
<1>3. /\ owed' \in Seq(Unit) /\ Len(owed') = Len(owed) - 1
      /\ \A k \in 1..Len(owed') : owed'[k] = owed[k + 1]
  BY <1>1, HeadTailProperties
<1>4. /\ wire' \in Seq(Unit) /\ Len(wire') = Len(wire) + 1 /\ wire' # <<>>
      /\ \A k \in 1..Len(wire) : wire'[k] = wire[k]
      /\ wire'[Len(wire) + 1] = owed[1]
  BY <1>1, <1>2, AppendProperties
<1>5. ASSUME Own PROVE Own'
  <2>1. \A k \in 1..Len(wire') : k \in 1..Len(wire) \/ k = Len(wire) + 1
    BY <1>2, <1>4
  <2>2. \A k \in 1..Len(owed') : k + 1 \in 1..Len(owed)
    BY <1>2, <1>3
  <2>3. 1 \in 1..Len(owed)
    BY <1>2
  <2>4. \A k \in 1..Len(wire') : wire'[k].of = cur
    BY <1>4, <1>5, <2>1, <2>3 DEF Own
  <2>5. \A k \in 1..Len(owed') : owed'[k].of = cur
    BY <1>3, <1>5, <2>2 DEF Own
  <2> QED
    BY <2>4, <2>5 DEF Own
<1>6. ASSUME LastAtEnd PROVE LastAtEnd'
  <2>1. ASSUME NEW k \in 1..Len(wire'), wire'[k].kind = "last"
        PROVE  k = Len(wire') /\ owed' = <<>>
    <3>1. CASE k \in 1..Len(wire)
      BY <1>1, <1>4, <1>6, <2>1, <3>1 DEF LastAtEnd
    <3>2. CASE k = Len(wire) + 1
      <4>1. 1 \in 1..Len(owed) /\ owed[1].kind = "last"
        BY <1>2, <1>4, <2>1, <3>2
      <4>2. 1 = Len(owed)
        BY <1>6, <4>1 DEF LastAtEnd
      <4> QED
        BY <1>3, <1>4, <3>2, <4>2
    <3> QED
      BY <1>2, <1>4, <3>1, <3>2
  <2>2. ASSUME NEW k \in 1..Len(owed'), owed'[k].kind = "last"
        PROVE  k = Len(owed')
    <3>1. k + 1 \in 1..Len(owed) /\ owed[k + 1].kind = "last"
      BY <1>2, <1>3, <2>2
    <3>2. k + 1 = Len(owed)
      BY <1>6, <3>1 DEF LastAtEnd
    <3> QED
      BY <1>3, <3>2
  <2> QED
    BY <2>1, <2>2 DEF LastAtEnd
<1>7. ASSUME NEW p \in Reply, Answered(p) PROVE Answered(p)'
  <2>1. Settled' /\ LengthOf(p)' = LengthOf(p)
    BY <1>1, <1>7 DEF Answered, Settled, Replying, Over, LengthOf
  <2>2. Len(wire') + Len(owed') = Len(wire) + Len(owed)
    BY <1>2, <1>3, <1>4
  <2>3. wire'[1] = IF wire = <<>> THEN owed[1] ELSE wire[1]
    BY <1>2, <1>4
  <2>4. Starts(wire', p)
    BY <1>4, <1>7, <2>3 DEF Answered, Starts
  <2> QED
    BY <1>4, <1>5, <1>6, <1>7, <2>1, <2>2, <2>4 DEF Answered
<1> QED
  BY <1>1, <1>2, <1>3, <1>4, <1>5, <1>6, <1>7

(* A reply begins only on a request whose handler waits in recv. *)
LEMMA ReplyStep ==
    ASSUME FramingInv, SrvReply, ClientSame
    PROVE  FramingInv'
<1>0. TypeOK /\ NetTypeOK
  BY DEF FramingInv, TypeOK
<1>1. PICK p \in Reply : /\ owed' = UnitsOf(inbox[1], p)
                         /\ srv' \in {"closing", "replying"}
  BY DEF SrvReply
<1>2. srv = "idle" /\ inbox # <<>> /\ UNCHANGED <<fd, inbox, wire>> /\ owed = <<>>
  BY DEF SrvReply, FramingInv
<1>3. ~CutShort /\ ~Clean /\ ~Settled
  BY <1>2 DEF CutShort, Clean, Settled, Over, Replying
<1>4. inbox[1] \in [id : Reqs, method : Methods]
  <2>1. inbox \in Seq(Sent)
    BY <1>0 DEF NetTypeOK, Sent
  <2>2. inbox[1] \in Sent
    BY <1>2, <2>1, QueueTail
  <2> QED
    BY <2>2 DEF Sent
<1>5. /\ owed' \in Seq(Unit) /\ Starts(owed', p)
      /\ Len(owed') = IF inbox[1].method = "HEAD" THEN 1
                      ELSE 1 + p.len + (IF p.framing = "chunked" THEN 1 ELSE 0)
      /\ \A k \in 1..Len(owed') : owed'[k].of = inbox[1].id
      /\ \A k \in 1..Len(owed') : owed'[k].kind = "last" => k = Len(owed')
  BY <1>1, <1>4, UnitsOfAnswer
<1>6. TypeOK'
  BY <1>0, <1>1, <1>2, <1>5 DEF TypeOK, NetTypeOK, ClientSame
<1>7. ASSUME pc = "recv" PROVE Answered(p)'
  <2>1. wire = <<>> /\ inbox = <<CurReq>>
    <3>1. ~ \E r \in Reply : Answered(r)
      BY <1>3 DEF Answered
    <3> QED
      BY <1>2, <1>7, <3>1 DEF FramingInv, Unanswered, Replying, Over
  <2>2. inbox[1].id = cur /\ inbox[1].method = ksock.method
    BY <2>1 DEF CurReq
  <2>3. Settled'
    BY <1>1, <1>2, <2>1 DEF Settled, Replying
  <2>4. Own' /\ LastAtEnd'
    BY <1>2, <1>5, <2>1, <2>2 DEF Own, LastAtEnd, ClientSame
  <2>5. (Len(wire) + Len(owed) = LengthOf(p))'
    BY <1>2, <1>5, <2>1, <2>2 DEF LengthOf, ClientSame
  <2> QED
    BY <1>2, <1>5, <2>1, <2>3, <2>4, <2>5 DEF Answered
<1>8. pc \notin Loops /\ pc # "send"
      /\ ~(pc \in {"next", "begin"} /\ ~ksock.reopen) /\ ~(pc = "end" /\ resp.keepalive)
  BY <1>3 DEF FramingInv
<1>9. OwnResponse'
  BY DEF FramingInv, OwnResponse, ClientSame
<1> QED
  BY <1>1, <1>2, <1>6, <1>7, <1>8, <1>9 DEF FramingInv, ClientSame, Loops

LEMMA ServerStep ==
    ASSUME FramingInv, Server, ClientSame
    PROVE  FramingInv'
<1>0. TypeOK /\ NetTypeOK /\ OwnResponse'
  BY DEF FramingInv, TypeOK, OwnResponse, ClientSame
<1>1. CASE SrvReply
  BY <1>1, ReplyStep
<1>2. CASE SrvSend
  <2>1. /\ wire' \in Seq(Unit) /\ owed' \in Seq(Unit) /\ owed # <<>> /\ Replying
        /\ UNCHANGED <<fd, srv, inbox>>
        /\ Len(wire') + Len(owed') = Len(wire) + Len(owed)
        /\ Own => Own'
        /\ LastAtEnd => LastAtEnd'
        /\ \A p \in Reply : Answered(p) => Answered(p)'
    BY <1>0, <1>2, UnitArrives DEF NetTypeOK, ClientSame
  <2>2. TypeOK'
    BY <1>0, <2>1 DEF TypeOK, NetTypeOK, ClientSame
  <2>3. ~CutShort /\ ~Clean /\ ~Unanswered /\ srv # "idle" /\ Settled' = Settled
    BY <2>1 DEF CutShort, Clean, Unanswered, Replying, Settled, Over
  <2> QED
    BY <1>0, <2>1, <2>2, <2>3 DEF FramingInv, ClientSame, Loops
<1>3. CASE SrvDone
  <2>1. /\ Replying /\ owed = <<>> /\ srv' \in {"closed", "idle"} /\ inbox' = Tail(inbox)
        /\ UNCHANGED <<fd, owed, wire>>
    BY <1>3 DEF SrvDone
  <2>2. inbox \in Seq(Sent) /\ inbox # <<>>
    BY <1>0, <2>1 DEF NetTypeOK, FramingInv, Sent
  <2>3. /\ inbox' \in Seq(Sent)
        /\ Len(inbox) = 1 => inbox' = <<>>
        /\ Len(inbox) = 2 => inbox' = <<inbox[2]>>
    BY <2>1, <2>2, QueueTail
  <2>4. Settled => Settled'
    BY <2>1, <2>3 DEF Settled, Replying, Over
  <2>5. Unanswered => Unanswered'
    BY <2>1, <2>3 DEF Unanswered, Replying, Over, CurReq, ClientSame
  <2>6. /\ Own => Own'
        /\ LastAtEnd => LastAtEnd'
        /\ Clean => Clean'
        /\ ~CutShort
        /\ \A p \in Reply : Answered(p) => Answered(p)'
    BY <2>1, <2>4 DEF Own, LastAtEnd, Clean, CutShort, Replying, Answered, LengthOf, ClientSame
  <2>7. TypeOK' /\ ~Replying'
    BY <1>0, <2>1, <2>3 DEF TypeOK, NetTypeOK, ClientSame, Sent, Replying
  <2> QED
    BY <1>0, <2>1, <2>4, <2>5, <2>6, <2>7 DEF FramingInv, ClientSame, Loops
<1>4. CASE SrvIdleClose \/ SrvCrash
  <2>1. /\ srv' \in {"closed", "reset"} /\ inbox' \in {inbox, <<>>}
        /\ srv \notin {"closed", "reset"}
        /\ UNCHANGED <<fd, owed, wire>>
    BY <1>4 DEF SrvIdleClose, SrvCrash, Replying
  <2>2. Settled' /\ ~CutShort
    BY <2>1 DEF Settled, Over, CutShort
  <2>3. Unanswered => Unanswered'
    BY <2>1 DEF Unanswered, Over
  <2>4. /\ Own => Own'
        /\ LastAtEnd => LastAtEnd'
        /\ Clean => Clean'
        /\ \A p \in Reply : Answered(p) => Answered(p)'
    BY <2>1, <2>2 DEF Own, LastAtEnd, Clean, Answered, LengthOf, ClientSame
  <2>5. TypeOK' /\ ~Replying' /\ srv' # "idle"
    <3>1. inbox \in Seq(Sent) /\ <<>> \in Seq(Sent)
      BY <1>0, EmptySeq DEF NetTypeOK, Sent
    <3>2. inbox' \in Seq(Sent)
      BY <2>1, <3>1
    <3> QED
      BY <1>0, <2>1, <3>2 DEF TypeOK, NetTypeOK, ClientSame, Replying, Sent
  <2> QED
    BY <1>0, <2>1, <2>2, <2>3, <2>4, <2>5 DEF FramingInv, ClientSame, Loops
<1> QED
  BY <1>1, <1>2, <1>3, <1>4 DEF Server, ServerWork

-----------------------------------------------------------------------------
(* The client's handlers around the reads. *)

LEMMA InvType ==
    ASSUME FramingInv
    PROVE  /\ wire \in Seq(Unit) /\ owed \in Seq(Unit) /\ inbox \in Seq(Sent)
           /\ cur \in Reqs /\ req \in Request /\ KsockType /\ leaked \in Nat /\ remaining \in Int
           /\ resp.rbuf \in Seq(Unit \cup {Junk}) /\ resp.keepalive \in BOOLEAN
           /\ resp = [keepalive |-> resp.keepalive, rbuf |-> resp.rbuf]
  BY DEF FramingInv, TypeOK, NetTypeOK, KsockType, Sent

LEMMA FramingInit == Init => FramingInv
<1> SUFFICES ASSUME Init PROVE FramingInv
  OBVIOUS
<1>1. TypeOK
  <2>1. NetTypeOK
    BY EmptySeq DEF Init, NetInit, NetTypeOK
  <2>2. NoResp \in [keepalive : BOOLEAN, rbuf : Seq(Unit \cup {Junk})]
    BY EmptySeq DEF NoResp
  <2>3. cur \in Reqs
    BY NetworkAssumption DEF Init, Reqs
  <2> QED
    BY <2>1, <2>2, <2>3 DEF Init, TypeOK
<1> QED
  BY <1>1 DEF Init, NetInit, FramingInv, Loops, OwnResponse, NoResp, Replying

LEMMA BeginFraming ==
    ASSUME FramingInv, NextUrl \/ BeginConn
    PROVE  FramingInv'
<1> USE InvType
<1>0. UNCHANGED <<cur, resp, remaining>> /\ resp.rbuf = <<>> /\ OwnResponse'
  <2>1. UNCHANGED <<cur, resp, remaining>> /\ pc \in {"next", "begin"}
    BY DEF NextUrl, BeginConn, BeginReuse, BeginOpen, BeginRefused, BeginAgain
  <2>2. resp.rbuf = <<>>
    BY <2>1 DEF FramingInv
  <2> QED
    BY <2>1, <2>2 DEF OwnResponse
<1>1. CASE NextUrl \/ BeginReuse
  <2>1. UNCHANGED <<netVars, ksock, leaked>> /\ req' \in Request
        /\ \/ pc = "next" /\ pc' = "begin"
           \/ pc = "begin" /\ pc' = "send" /\ ~MustOpen
    BY <1>1 DEF NextUrl, BeginReuse
  <2>2. TypeOK'
    BY <1>0, <2>1 DEF FramingInv, TypeOK, NetTypeOK, netVars
  <2>3. ~MustOpen => ~ksock.reopen /\ ~CutShort
    BY DEF MustOpen, Readable, CutShort
  <2>4. /\ CutShort' = CutShort /\ Clean' = Clean
        /\ (Replying => inbox # <<>>)' /\ (srv = "idle" => owed = <<>>)'
    BY <2>1 DEF netVars, CutShort, Clean, Settled, Replying, Over, FramingInv
  <2> QED
    BY <1>0, <2>1, <2>2, <2>3, <2>4 DEF FramingInv, Loops
<1>2. CASE BeginOpen
  <2>1. /\ srv' = "idle" /\ inbox' = <<>> /\ owed' = <<>> /\ wire' = <<>> /\ fd' = "open"
        /\ pc' = "send" /\ req' = req
    BY <1>2 DEF BeginOpen, OpenSocket
  <2>2. KsockType' /\ leaked' \in Nat
    <3>1. KsockType'
      BY <1>2 DEF BeginOpen, KsockType
    <3>2. Abandoned \in Nat /\ leaked' = leaked + Abandoned
      BY <1>2 DEF BeginOpen, Abandoned
    <3> QED
      BY <3>1, <3>2
  <2>3. NetTypeOK'
    BY <2>1, EmptySeq DEF NetTypeOK
  <2>4. TypeOK'
    BY <1>0, <2>1, <2>2, <2>3 DEF TypeOK, KsockType
  <2>5. Clean' /\ ~Replying'
    BY <2>1 DEF Clean, Settled, Replying
  <2> QED
    BY <1>0, <2>1, <2>4, <2>5 DEF FramingInv, Loops
<1>3. CASE BeginRefused \/ BeginAgain
  <2>1. /\ fd' = "none" /\ UNCHANGED <<srv, inbox, owed, wire, req>>
        /\ pc' \in {"failed", "begin"}
    BY <1>3 DEF BeginRefused, BeginAgain
  <2>2. KsockType' /\ ksock'.reopen /\ leaked' \in Nat
    <3>1. KsockType' /\ ksock'.reopen
      BY <1>3 DEF BeginRefused, BeginAgain, KsockType
    <3>2. Abandoned \in Nat /\ leaked' \in {leaked + Abandoned, leaked + Abandoned + 1}
      BY <1>3 DEF BeginRefused, BeginAgain, Abandoned
    <3> QED
      BY <3>1, <3>2
  <2>3. TypeOK'
    BY <1>0, <2>1, <2>2 DEF FramingInv, TypeOK, NetTypeOK, KsockType
  <2>4. (Replying => inbox # <<>>)' /\ (srv = "idle" => owed = <<>>)'
    BY <2>1 DEF Replying, FramingInv
  <2> QED
    BY <1>0, <2>1, <2>2, <2>3, <2>4 DEF FramingInv, Loops
<1> QED
  BY <1>1, <1>2, <1>3 DEF BeginConn

(* The request is the last one the server has got. *)
LEMMA SendFraming ==
    ASSUME FramingInv, SendReq \/ SendFails
    PROVE  FramingInv'
<1> USE InvType
<1>1. /\ Clean /\ resp.rbuf = <<>> /\ UNCHANGED <<fd, srv, owed, wire, cur, req, resp>>
      /\ UNCHANGED <<remaining, leaked>>
  BY DEF SendReq, SendFails, WriteSocket, netVars, FramingInv
<1>2. KsockType' /\ ksock'.method = req.method
  BY DEF SendReq, SendFails, KsockType, Request
<1>3. OwnResponse'
  BY <1>1 DEF OwnResponse
<1>4. CASE SendReq
  <2> DEFINE q == [id |-> cur, method |-> req.method]
  <2>1. /\ pc' = "recv" /\ srv # "reset"
        /\ inbox' = IF srv = "closed" THEN <<>> ELSE Append(inbox, q)
    BY <1>4 DEF SendReq, WriteSocket, WriteOK
  <2>2. q \in Sent /\ q = CurReq'
    BY <1>1, <1>2 DEF Sent, Request, CurReq
  <2> HIDE DEF q
  <2>3. /\ Append(inbox, q) \in Seq(Sent)
        /\ Len(Append(inbox, q)) = Len(inbox) + 1
        /\ Append(inbox, q)[Len(inbox) + 1] = q
    BY <2>2, AppendProperties
  <2>4. inbox' \in Seq(Sent)
    BY <2>1, <2>3, EmptySeq
  <2>5. Unanswered'
    <3>1. CASE srv = "idle" /\ inbox = <<>>
      BY <1>1, <2>1, <2>2, <3>1 DEF Unanswered, Clean
    <3>2. CASE Replying /\ Len(inbox) = 1
      <4>1. srv # "closed" /\ Replying'
        BY <1>1, <3>2 DEF Replying
      <4>2. Len(inbox') = 2 /\ inbox'[2] = CurReq'
        BY <2>1, <2>2, <2>3, <3>2, <4>1
      <4> QED
        BY <1>1, <4>1, <4>2 DEF Unanswered, Clean
    <3>3. CASE Over
      BY <1>1, <3>3 DEF Unanswered, Clean, Over
    <3> QED
      BY <1>1, <3>1, <3>2, <3>3 DEF Clean, Settled
  <2>6. TypeOK'
    BY <1>1, <1>2, <2>1, <2>4 DEF FramingInv, TypeOK, NetTypeOK, KsockType, Sent
  <2>7. (Replying => inbox # <<>>)'
    BY <2>5 DEF Unanswered, Replying, Over
  <2> QED
    BY <1>1, <1>3, <2>1, <2>5, <2>6, <2>7 DEF FramingInv, Loops, Clean
<1>5. CASE SendFails
  <2>1. pc' = "failed" /\ inbox' = inbox
    BY <1>5 DEF SendFails, netVars
  <2>2. TypeOK'
    BY <1>1, <1>2, <2>1 DEF FramingInv, TypeOK, NetTypeOK, KsockType
  <2> QED
    BY <1>1, <1>3, <2>1, <2>2 DEF FramingInv, Loops, Replying
<1> QED
  BY <1>4, <1>5

LEMMA EndFraming ==
    ASSUME FramingInv, EndConn
    PROVE  FramingInv'
<1> USE InvType
<1>1. /\ pc = "end" /\ pc' \in {"next", "done"} /\ resp' = NoResp /\ remaining' = 0
      /\ UNCHANGED <<req, leaked>>
      /\ cur' = IF cur < NumReqs THEN cur + 1 ELSE cur
      /\ IF resp.keepalive THEN UNCHANGED <<netVars, ksock>> ELSE CloseSocket /\ ksock' = Closed
  BY DEF EndConn, MoreRequests
<1>2. cur' \in Reqs
  BY <1>1, NetworkAssumption DEF Reqs
<1>3. NoResp \in [keepalive : BOOLEAN, rbuf : Seq(Unit \cup {Junk})] /\ NoResp.rbuf = <<>>
  BY EmptySeq DEF NoResp
<1>4. OwnResponse'
  BY <1>1, <1>3 DEF OwnResponse
<1>5. CASE resp.keepalive
  <2>1. TypeOK'
    BY <1>1, <1>2, <1>3, <1>5 DEF FramingInv, TypeOK, NetTypeOK, netVars
  <2>2. (CutShort \/ Clean)'
    BY <1>1, <1>5 DEF FramingInv, CutShort, Clean, Settled, Replying, Over, netVars
  <2>3. (Replying => inbox # <<>>)' /\ (srv = "idle" => owed = <<>>)'
    BY <1>1, <1>5 DEF Replying, FramingInv, netVars
  <2> QED
    BY <1>1, <1>3, <1>4, <2>1, <2>2, <2>3 DEF FramingInv, Loops
<1>6. CASE ~resp.keepalive
  <2>1. /\ srv' = "closed" /\ inbox' = <<>> /\ owed' = <<>> /\ wire' = <<>> /\ fd' = "closed"
    BY <1>1, <1>6 DEF CloseSocket
  <2>2. KsockType'
    BY <1>1, <1>6 DEF Closed, KsockType
  <2>3. NetTypeOK'
    BY <2>1, EmptySeq DEF NetTypeOK
  <2>4. TypeOK'
    BY <1>1, <1>2, <1>3, <2>2, <2>3 DEF TypeOK, KsockType
  <2>5. Clean' /\ ~Replying'
    BY <2>1 DEF Clean, Settled, Replying, Over
  <2> QED
    BY <1>1, <1>3, <1>4, <2>1, <2>4, <2>5 DEF FramingInv, Loops
<1> QED
  BY <1>5, <1>6

-----------------------------------------------------------------------------
(* The reads. *)

(* What holds of the connection in every loop, across one read. *)
LEMMA ReadKeeps ==
    ASSUME "stall" \notin Faults, FramingInv, Own, NEW limit \in Nat \ {0},
           NEW res \in ReadResults(limit), ReadSocket(res), cur' = cur
    PROVE  /\ res.n \in Nat /\ res.n <= limit /\ owed' = owed /\ NetTypeOK'
           /\ (Replying => inbox # <<>>)' /\ (srv = "idle" => owed = <<>>)'
           /\ Own'
           /\ Settled => Settled'
           /\ CutShort => CutShort'
           /\ ReadData(res) \in Seq(Unit)
           /\ \A k \in 1..Len(ReadData(res)) : ReadData(res)[k].of = cur
           /\ IF res.st = "SUCCESS"
              THEN /\ res.n \in 1..Len(wire) /\ Len(wire') = Len(wire) - res.n
                   /\ Len(ReadData(res)) = res.n
                   /\ \A k \in 1..res.n : ReadData(res)[k] = wire[k]
                   /\ \A k \in 1..Len(wire') : wire'[k] = wire[k + res.n]
              ELSE /\ wire = <<>> /\ wire' = <<>>
                   /\ Over \/ (srv = "idle" /\ res.st = "TIMEUP")
                   /\ CutShort' \/ Clean'
                   /\ res.st # "TIMEUP" => res.n = 0
           /\ res.st \in {"SUCCESS", "EOF", "ECONNRESET", "TIMEUP"}
<1> USE InvType
<1>1. /\ UNCHANGED <<fd, inbox, owed>> /\ res.n \in Nat
      /\ \/ /\ res.st = "SUCCESS" /\ res.n \in 1..Len(wire) /\ res.n <= limit
            /\ srv' = srv /\ wire # <<>>
            /\ ReadData(res) \in Seq(Unit) /\ Len(ReadData(res)) = res.n
            /\ \A k \in 1..res.n : ReadData(res)[k] = wire[k]
            /\ wire' \in Seq(Unit) /\ Len(wire') = Len(wire) - res.n
            /\ \A k \in 1..Len(wire') : wire'[k] = wire[k + res.n]
         \/ /\ res.st # "SUCCESS" /\ ReadData(res) = <<>>
            /\ wire = <<>> /\ wire' = <<>>
            /\ \/ res.st = "EOF" /\ srv = "closed" /\ srv' = "closed" /\ res.n = 0
               \/ res.st = "ECONNRESET" /\ srv = "reset" /\ srv' = "closed" /\ res.n = 0
               \/ res.st = "TIMEUP" /\ Quiet /\ srv' = srv /\ res.n = limit
  BY ReadFacts
<1>2. /\ Over => Over'
      /\ ~Over => srv' = srv
      /\ Settled => Settled'
      /\ CutShort => CutShort'
      /\ (Replying => inbox # <<>>)' /\ (srv = "idle" => owed = <<>>)'
  BY <1>1 DEF Over, Settled, CutShort, Replying, Quiet, FramingInv
<1>3. CASE res.st = "SUCCESS"
  <2>1. NetTypeOK'
    BY <1>1, <1>3 DEF NetTypeOK, FramingInv, TypeOK
  <2>2. Own' /\ \A k \in 1..Len(ReadData(res)) : ReadData(res)[k].of = cur
    <3>0. res.n \in 1..Len(wire) /\ Len(wire') = Len(wire) - res.n /\ Len(wire) \in Nat
      BY <1>1, <1>3
    <3>1. \A k \in 1..res.n : k \in 1..Len(wire)
      BY <3>0
    <3>2. \A k \in 1..Len(wire') : k + res.n \in 1..Len(wire)
      BY <3>0, Shifted
    <3>3. /\ owed' = owed
          /\ \A k \in 1..res.n : ReadData(res)[k] = wire[k]
          /\ \A k \in 1..Len(wire') : wire'[k] = wire[k + res.n]
          /\ Len(ReadData(res)) = res.n
      BY <1>1, <1>3
    <3>4. /\ \A k \in 1..Len(wire) : wire[k].of = cur
          /\ \A k \in 1..Len(owed) : owed[k].of = cur
      BY <1>1 DEF Own
    <3>5. \A k \in 1..Len(wire') : wire'[k].of = cur
      BY <3>2, <3>3, <3>4
    <3>6. \A k \in 1..Len(ReadData(res)) : ReadData(res)[k].of = cur
      BY <3>1, <3>3, <3>4
    <3> QED
      BY <1>1, <3>3, <3>4, <3>5, <3>6 DEF Own
  <2> QED
    BY <1>1, <1>2, <1>3, <2>1, <2>2
<1>4. CASE res.st # "SUCCESS"
  <2>1. NetTypeOK'
    BY <1>1, <1>4, EmptySeq DEF NetTypeOK, FramingInv, TypeOK, Quiet
  <2>2. Own' /\ ReadData(res) \in Seq(Unit) /\ Len(ReadData(res)) = 0
    BY <1>1, <1>4, EmptySeq DEF Own
  <2>3. Over \/ (srv = "idle" /\ res.st = "TIMEUP")
    BY <1>1, <1>4 DEF Over, Quiet
  <2>4. CutShort' \/ Clean'
    BY <1>1, <1>4 DEF FramingInv, Over, CutShort, Clean, Settled, Quiet
  <2> QED
    BY <1>1, <1>2, <1>4, <2>1, <2>2, <2>3, <2>4
<1> QED
  BY <1>3, <1>4

(* Whatever is on its way in recv belongs to the request. *)
LEMMA RecvOwn ==
    ASSUME FramingInv, pc = "recv"
    PROVE  Own /\ resp.rbuf = <<>>
  BY DEF FramingInv, Unanswered, Answered, Own

Response == [keepalive : BOOLEAN, rbuf : Seq(Unit \cup {Junk})]

(* Bytes that rbuf gains are junk or belong to the request. *)
LEMMA RbufGrows ==
    ASSUME resp \in Response, NEW ext \in Seq(Unit \cup {Junk}), cur' = cur,
           resp' = [resp EXCEPT !.rbuf = resp.rbuf \o ext]
    PROVE  /\ resp' \in Response /\ resp'.keepalive = resp.keepalive
           /\ OwnResponse /\ (\A k \in 1..Len(ext) : ext[k] # Junk => ext[k].of = cur)
                => OwnResponse'
<1> DEFINE all == resp.rbuf \o ext
<1>1. /\ resp.rbuf \in Seq(Unit \cup {Junk}) /\ resp.keepalive \in BOOLEAN
      /\ Len(resp.rbuf) \in Nat /\ Len(ext) \in Nat
  BY DEF Response
<1>2. /\ all \in Seq(Unit \cup {Junk}) /\ Len(all) = Len(resp.rbuf) + Len(ext)
      /\ \A k \in 1..(Len(resp.rbuf) + Len(ext)) :
            all[k] = IF k <= Len(resp.rbuf) THEN resp.rbuf[k] ELSE ext[k - Len(resp.rbuf)]
  BY <1>1, ConcatProperties
<1> HIDE DEF all
<1>3. ASSUME OwnResponse, \A k \in 1..Len(ext) : ext[k] # Junk => ext[k].of = cur,
             NEW k \in 1..Len(all), all[k] # Junk
      PROVE  all[k].of = cur
  <2>1. CASE k <= Len(resp.rbuf)
    <3>1. k \in 1..Len(resp.rbuf) /\ all[k] = resp.rbuf[k]
      BY <1>1, <1>2, <2>1
    <3> QED
      BY <1>3, <3>1 DEF OwnResponse
  <2>2. CASE ~(k <= Len(resp.rbuf))
    <3>1. k - Len(resp.rbuf) \in 1..Len(ext) /\ all[k] = ext[k - Len(resp.rbuf)]
      BY <1>1, <1>2, <2>2
    <3> QED
      BY <1>3, <3>1
  <2> QED
    BY <2>1, <2>2
<1>4. resp'.rbuf = all /\ resp'.keepalive = resp.keepalive
      /\ resp' = [keepalive |-> resp.keepalive, rbuf |-> all]
  BY DEF all, Response
<1> QED
  BY <1>1, <1>2, <1>3, <1>4 DEF OwnResponse, Response

LEMMA LoadedOwn ==
    ASSUME resp \in Response, NEW res, res.n \in Nat, ReadData(res) \in Seq(Unit),
           cur' = cur, resp' = [resp EXCEPT !.rbuf = Loaded(res)]
    PROVE  /\ resp' \in Response /\ resp'.keepalive = resp.keepalive
           /\ OwnResponse /\ (\A k \in 1..Len(ReadData(res)) : ReadData(res)[k].of = cur)
                => OwnResponse'
<1> DEFINE junk == [k \in 1..res.n |-> Junk]
           ext == IF res.st = "TIMEUP" THEN junk ELSE ReadData(res)
<1>1. junk \in Seq(Unit \cup {Junk}) /\ Len(junk) = res.n /\ \A k \in 1..Len(junk) : junk[k] = Junk
  <2>1. junk \in [1..res.n -> Unit \cup {Junk}]
    OBVIOUS
  <2> QED
    BY <2>1
<1>2. ReadData(res) \in Seq(Unit \cup {Junk})
  <2>1. /\ ReadData(res) \in [1..Len(ReadData(res)) -> Unit] /\ Len(ReadData(res)) \in Nat
    OBVIOUS
  <2>2. ReadData(res) \in [1..Len(ReadData(res)) -> Unit \cup {Junk}]
    BY <2>1
  <2> QED
    BY <2>1, <2>2
<1> HIDE DEF junk
<1>3. /\ ext \in Seq(Unit \cup {Junk})
      /\ (\A k \in 1..Len(ReadData(res)) : ReadData(res)[k].of = cur)
           => \A k \in 1..Len(ext) : ext[k] # Junk => ext[k].of = cur
  BY <1>1, <1>2
<1>4. resp' = [resp EXCEPT !.rbuf = resp.rbuf \o ext]
  BY DEF Loaded, junk
<1> HIDE DEF ext
<1> QED
  BY <1>3, <1>4, RbufGrows

(* The loops over a body of known length stop behind its last byte. *)
LEMMA KnownFraming ==
    ASSUME "stall" \notin Faults, FramingInv, LoadKnown \/ Drain
    PROVE  FramingInv'
<1> USE InvType
<1>1. /\ pc \in {"load", "drain"} /\ UNCHANGED <<cur, req, ksock, leaked>>
      /\ remaining > 0 /\ Settled /\ Own
      /\ CutShort \/ remaining = Len(wire) + Len(owed)
  BY DEF LoadKnown, Drain, FramingInv, Loops
<1>2. Limit \in Nat \ {0} /\ Limit <= remaining
  BY <1>1, NetworkAssumption DEF Limit
<1>3. PICK res \in ReadResults(Limit) :
        /\ ReadSocket(res)
        /\ resp' = [resp EXCEPT !.rbuf = Loaded(res)] \/ resp' = resp
        /\ remaining' = remaining - res.n
        /\ pc' = IF Stops(res.st) \/ remaining' = 0 THEN "end" ELSE pc
  BY <1>1 DEF LoadKnown, Drain
<1>4. /\ res.n \in Nat /\ res.n <= Limit /\ owed' = owed /\ NetTypeOK'
      /\ (Replying => inbox # <<>>)' /\ (srv = "idle" => owed = <<>>)'
      /\ Own' /\ Settled'
      /\ CutShort => CutShort'
      /\ ReadData(res) \in Seq(Unit)
      /\ \A k \in 1..Len(ReadData(res)) : ReadData(res)[k].of = cur
      /\ IF res.st = "SUCCESS"
         THEN Len(wire') = Len(wire) - res.n
         ELSE /\ wire = <<>> /\ wire' = <<>> /\ (CutShort' \/ Clean')
              /\ res.st # "TIMEUP" => res.n = 0
      /\ res.st \in {"SUCCESS", "EOF", "ECONNRESET", "TIMEUP"}
  BY <1>1, <1>2, <1>3, ReadKeeps
<1>5. /\ resp' \in Response /\ resp'.keepalive = resp.keepalive /\ OwnResponse'
  <2>0. resp \in Response /\ OwnResponse
    BY DEF FramingInv, TypeOK, Response
  <2>1. CASE resp' = resp
    BY <1>1, <2>0, <2>1 DEF OwnResponse
  <2>2. CASE resp' = [resp EXCEPT !.rbuf = Loaded(res)]
    BY <1>1, <1>4, <2>0, <2>2, LoadedOwn
  <2> QED
    BY <1>3, <2>1, <2>2
<1>6. remaining' \in Int /\ remaining' >= 0 /\ Len(wire) \in Nat /\ Len(owed) \in Nat
  <2>1. remaining' = remaining - res.n /\ remaining \in Int /\ Limit \in Int
    BY <1>2, <1>3
  <2>2. res.n \in Nat /\ res.n <= Limit /\ Limit <= remaining
    BY <1>2, <1>4
  <2>3. Len(wire) \in Nat /\ Len(owed) \in Nat
    OBVIOUS
  <2> QED
    BY <2>1, <2>2, <2>3
<1>7. TypeOK'
  BY <1>1, <1>3, <1>4, <1>5, <1>6 DEF TypeOK, KsockType, Response
<1>8. CASE pc' = "end"
  <2>1. CutShort' \/ Clean'
    <3>1. CASE res.st # "SUCCESS"
      BY <1>4, <3>1
    <3>2. CASE res.st = "SUCCESS" /\ ~CutShort
      <4>0. ~Stops(res.st)
        BY <3>2 DEF Stops
      <4>1. remaining' = 0
        <5>1. pc # "end"
          BY <1>1
        <5>2. pc' = IF Stops(res.st) \/ remaining' = 0 THEN "end" ELSE pc
          BY <1>3
        <5> QED
          BY <1>8, <4>0, <5>1, <5>2
      <4>2. Len(wire') + Len(owed) = 0
        <5>1. Len(wire') = Len(wire) - res.n /\ res.n \in Nat
          BY <1>4, <3>2
        <5>2. remaining = Len(wire) + Len(owed) /\ remaining - res.n = 0
          BY <1>1, <1>3, <3>2, <4>1
        <5> QED
          BY <1>6, <5>1, <5>2
      <4>3. wire' = <<>> /\ owed' = <<>>
        <5>1. wire' \in Seq(Unit) /\ Len(wire') \in Nat
          BY <1>4 DEF NetTypeOK
        <5>2. Len(wire') = 0 /\ Len(owed) = 0
          BY <1>6, <4>2, <5>1
        <5> QED
          BY <1>4, <5>1, <5>2, EmptySeq
      <4> QED
        BY <1>4, <4>3 DEF Clean
    <3> QED
      BY <1>4, <3>1, <3>2
  <2> QED
    BY <1>4, <1>5, <1>7, <1>8, <2>1 DEF FramingInv, Loops
<1>9. CASE pc' = pc
  <2>1. remaining' > 0
    BY <1>1, <1>3, <1>6, <1>9
  <2>2. (CutShort \/ remaining = Len(wire) + Len(owed))'
    <3>1. res.st # "SUCCESS" => res.n = 0
      BY <1>1, <1>3, <1>4, <1>9 DEF Stops
    <3>2. Len(wire') = Len(wire) - res.n
      <4>1. CASE res.st = "SUCCESS"
        BY <1>4, <4>1
      <4>2. CASE res.st # "SUCCESS"
        <5>1. res.n = 0 /\ wire' = wire
          BY <1>4, <3>1, <4>2
        <5> QED
          BY <1>6, <5>1
      <4> QED
        BY <4>1, <4>2
    <3>3. CASE CutShort
      BY <1>4, <3>3
    <3>4. CASE remaining = Len(wire) + Len(owed)
      <4>1. remaining' = remaining - res.n /\ res.n \in Nat /\ owed' = owed
        BY <1>3, <1>4
      <4>2. remaining - res.n = (Len(wire) - res.n) + Len(owed)
        BY <1>6, <3>4, <4>1
      <4> QED
        BY <3>2, <4>1, <4>2
    <3> QED
      BY <1>1, <3>3, <3>4
  <2> QED
    BY <1>1, <1>4, <1>5, <1>7, <1>9, <2>1, <2>2 DEF FramingInv, Loops
<1> QED
  BY <1>3, <1>8, <1>9

(* The loops that end with the connection, or when nothing is left to send. *)
LEMMA AllFraming ==
    ASSUME "stall" \notin Faults, FramingInv, LoadAll \/ DrainAll
    PROVE  FramingInv'
<1> USE InvType
<1>1. /\ pc \in {"loadall", "drainall"} /\ UNCHANGED <<cur, req, ksock, remaining, leaked>>
      /\ Settled /\ Own
  BY DEF LoadAll, DrainAll, FramingInv, Loops
<1>2. PICK res \in ReadResults(BufUnits) :
        /\ ReadSocket(res)
        /\ resp' = [resp EXCEPT !.rbuf = Loaded(res)] \/ resp' = resp
        /\ pc' = IF Stops(res.st) THEN "end" ELSE pc
  BY <1>1 DEF LoadAll, DrainAll
<1>3. BufUnits \in Nat \ {0}
  BY NetworkAssumption
<1>4. /\ res.n \in Nat /\ NetTypeOK'
      /\ (Replying => inbox # <<>>)' /\ (srv = "idle" => owed = <<>>)'
      /\ Own' /\ Settled'
      /\ ReadData(res) \in Seq(Unit)
      /\ \A k \in 1..Len(ReadData(res)) : ReadData(res)[k].of = cur
      /\ res.st # "SUCCESS" => CutShort' \/ Clean'
  BY <1>1, <1>2, <1>3, ReadKeeps
<1>5. /\ resp' \in Response /\ resp'.keepalive = resp.keepalive /\ OwnResponse'
  <2>0. resp \in Response /\ OwnResponse
    BY DEF FramingInv, TypeOK, Response
  <2>1. CASE resp' = resp
    BY <1>1, <2>0, <2>1 DEF OwnResponse
  <2>2. CASE resp' = [resp EXCEPT !.rbuf = Loaded(res)]
    BY <1>1, <1>4, <2>0, <2>2, LoadedOwn
  <2> QED
    BY <1>2, <2>1, <2>2
<1>6. TypeOK'
  BY <1>1, <1>2, <1>4, <1>5 DEF TypeOK, KsockType, Response
<1>7. pc' = "end" => CutShort' \/ Clean'
  BY <1>1, <1>2, <1>4 DEF Stops
<1> QED
  BY <1>1, <1>2, <1>4, <1>5, <1>6, <1>7 DEF FramingInv, Loops

(* Behind the last-chunk nothing is left. *)
LEMMA ChunkFraming ==
    ASSUME "stall" \notin Faults, FramingInv, ReadChunk
    PROVE  FramingInv'
<1> USE InvType
<1>1. /\ pc = "chunk" /\ UNCHANGED <<cur, req, ksock, resp, remaining, leaked>>
      /\ Settled /\ Own /\ LastAtEnd
  BY DEF ReadChunk, FramingInv, Loops
<1>2. PICK res \in ReadResults(BufUnits) :
        /\ ReadSocket(res)
        /\ pc' = IF res.st # "SUCCESS" \/ LastChunk(ReadData(res)) THEN "end" ELSE "chunk"
  BY DEF ReadChunk
<1>3. BufUnits \in Nat \ {0}
  BY NetworkAssumption
<1>4. /\ res.n \in Nat /\ owed' = owed /\ NetTypeOK'
      /\ (Replying => inbox # <<>>)' /\ (srv = "idle" => owed = <<>>)'
      /\ Own' /\ Settled'
      /\ IF res.st = "SUCCESS"
         THEN /\ res.n \in 1..Len(wire) /\ Len(wire') = Len(wire) - res.n
              /\ Len(ReadData(res)) = res.n
              /\ \A k \in 1..res.n : ReadData(res)[k] = wire[k]
              /\ \A k \in 1..Len(wire') : wire'[k] = wire[k + res.n]
         ELSE wire = <<>> /\ (CutShort' \/ Clean')
  BY <1>1, <1>2, <1>3, ReadKeeps
<1>5. TypeOK' /\ OwnResponse'
  BY <1>1, <1>2, <1>4 DEF FramingInv, TypeOK, OwnResponse
<1>6. CASE res.st # "SUCCESS"
  BY <1>1, <1>2, <1>4, <1>5, <1>6 DEF FramingInv, Loops
<1>7. CASE res.st = "SUCCESS" /\ LastChunk(ReadData(res))
  <2>1. PICK k \in 1..res.n : wire[k].kind = "last"
    BY <1>4, <1>7 DEF LastChunk
  <2>2. k \in 1..Len(wire)
    BY <1>4, <1>7
  <2>3. k = Len(wire) /\ owed = <<>>
    BY <1>1, <2>1, <2>2 DEF LastAtEnd
  <2>4. Len(wire') = 0 /\ wire' \in Seq(Unit)
    BY <1>4, <1>7, <2>2, <2>3 DEF NetTypeOK
  <2>5. Clean'
    BY <1>4, <2>3, <2>4, EmptySeq DEF Clean
  <2> QED
    BY <1>1, <1>2, <1>4, <1>5, <1>7, <2>5 DEF FramingInv, Loops
<1>8. CASE res.st = "SUCCESS" /\ ~LastChunk(ReadData(res))
  <2>1. LastAtEnd'
    <3>1. ASSUME NEW k \in 1..Len(wire'), wire'[k].kind = "last"
          PROVE  k = Len(wire') /\ owed' = <<>>
      <4>1. k + res.n \in 1..Len(wire) /\ wire[k + res.n].kind = "last"
        <5>1. k + res.n \in 1..Len(wire)
          BY <1>4, <1>8
        <5>2. wire'[k] = wire[k + res.n]
          BY <1>4, <1>8
        <5> QED
          BY <3>1, <5>1, <5>2
      <4>2. k + res.n = Len(wire) /\ owed = <<>>
        BY <1>1, <4>1 DEF LastAtEnd
      <4> QED
        BY <1>4, <1>8, <4>2
    <3>2. \A k \in 1..Len(owed') : owed'[k].kind = "last" => k = Len(owed')
      BY <1>1, <1>4 DEF LastAtEnd
    <3> QED
      BY <3>1, <3>2 DEF LastAtEnd
  <2> QED
    BY <1>1, <1>2, <1>4, <1>5, <1>8, <2>1 DEF FramingInv, Loops
<1> QED
  BY <1>6, <1>7, <1>8

(* The parse finds a header that comes first. *)
LEMMA ParsesHead ==
    ASSUME NEW data, Len(data) \in Nat, data[1].kind = "head"
    PROVE  \A h \in Parses(data) : h = [reply |-> data[1].reply, at |-> 1]
<1> SUFFICES ASSUME NEW h \in Parses(data) PROVE h = [reply |-> data[1].reply, at |-> 1]
  OBVIOUS
<1>1. PICK k \in 1..Len(data) : /\ h = [reply |-> data[k].reply, at |-> k]
                                /\ \A i \in 1..(k - 1) : data[i].kind = "body"
  BY DEF Parses
<1>2. k = 1
  <2>1. k > 1 => 1 \in 1..(k - 1)
    OBVIOUS
  <2> QED
    BY <1>1, <2>1
<1> QED
  BY <1>1, <1>2

(* The first read finds the header of this request's answer, so that what   *)
(* the header promises is what is on its way.                               *)
LEMMA FirstFraming ==
    ASSUME "stall" \notin Faults, FramingInv, RecvFirst
    PROVE  FramingInv'
<1> USE InvType
<1>1. /\ pc = "recv" /\ UNCHANGED <<cur, req, ksock, leaked>>
      /\ Own /\ BufUnits \in Nat \ {0}
  BY RecvOwn, NetworkAssumption DEF RecvFirst
<1>2. PICK res \in ReadResults(BufUnits) :
        /\ res.st = "SUCCESS" /\ ReadSocket(res)
        /\ \E h \in Parses(ReadData(res)) : Headers(h, ReadData(res))
  BY DEF RecvFirst
<1> DEFINE data == ReadData(res)
<1>3. /\ owed' = owed /\ NetTypeOK'
      /\ (Replying => inbox # <<>>)' /\ (srv = "idle" => owed = <<>>)'
      /\ Own'
      /\ Settled => Settled'
      /\ data \in Seq(Unit)
      /\ \A k \in 1..Len(data) : data[k].of = cur
      /\ res.n \in 1..Len(wire) /\ Len(wire') = Len(wire) - res.n
      /\ Len(data) = res.n
      /\ \A k \in 1..res.n : data[k] = wire[k]
      /\ \A k \in 1..Len(wire') : wire'[k] = wire[k + res.n]
  BY <1>1, <1>2, ReadKeeps
<1> HIDE DEF data
<1>4. wire # <<>> /\ Len(wire) \in Nat /\ Len(owed) \in Nat /\ res.n \in Nat \ {0}
  BY <1>3, EmptySeq
<1>5. PICK p \in Reply : Answered(p)
  BY <1>1, <1>4 DEF FramingInv, Unanswered
<1>6. \A h \in Parses(data) : h = [reply |-> p, at |-> 1]
  <2>1. wire[1].kind = "head" /\ wire[1].reply = p
    BY <1>4, <1>5 DEF Answered, Starts
  <2>2. data[1] = wire[1]
    <3>1. 1 \in 1..res.n
      BY <1>4
    <3> QED
      BY <1>3, <3>1
  <2> QED
    <3>1. data[1].kind = "head" /\ data[1].reply = p
      BY <2>1, <2>2
    <3> HIDE DEF data
    <3> QED
      BY <3>1, ParsesHead, SMTT(30)
<1>7. /\ p.len \in Nat /\ p.close \in BOOLEAN /\ p.framing \in {"length", "chunked", "eof"}
      /\ Settled /\ LastAtEnd /\ Len(wire) + Len(owed) = LengthOf(p)
  BY <1>5, NetworkAssumption DEF Reply, Answered
<1> DEFINE h == [reply |-> p, at |-> 1]
           left == BodyLeft(h, data)
           keep == Keeps(h)
<1>8. left \in Int /\ left = p.len - (res.n - 1) /\ keep \in BOOLEAN
  <2>1. Len(data) = res.n /\ res.n \in Nat /\ p.len \in Nat
    BY <1>3, <1>4, <1>7
  <2>2. left = p.len - (res.n - 1)
    BY <2>1 DEF BodyLeft
  <2>3. keep \in BOOLEAN
    BY <1>7 DEF Keeps
  <2> QED
    BY <2>1, <2>2, <2>3
<1>9. /\ resp' = [keepalive |-> keep, rbuf |-> data]
      /\ remaining' = IF keep /\ p.framing = "length" /\ ksock.method # "HEAD" THEN left ELSE 0
      /\ pc' = IF ksock.method = "HEAD" THEN "end"
               ELSE IF ksock.want
                    THEN IF keep /\ p.framing = "length" /\ left > 0 THEN "load" ELSE "loadall"
               ELSE IF p.framing = "chunked" THEN "chunk"
               ELSE IF keep THEN (IF left = 0 THEN "end" ELSE "drain")
               ELSE "drainall"
  <2>1. Headers(h, data)
    BY <1>2, <1>6 DEF data
  <2> QED
    BY <2>1 DEF Headers
<1> HIDE DEF left, keep
<1>10. /\ resp' \in [keepalive : BOOLEAN, rbuf : Seq(Unit \cup {Junk})]
       /\ OwnResponse'
  <2>1. data \in Seq(Unit \cup {Junk})
    <3>0. data \in Seq(Unit)
      BY <1>3
    <3> QED
      BY <3>0, SeqWidens
  <2>2. resp'.rbuf = data /\ cur' = cur /\ \A k \in 1..Len(data) : data[k].of = cur
    BY <1>1, <1>3, <1>9
  <2>3. OwnResponse'
    BY <2>2 DEF OwnResponse
  <2> QED
    BY <1>8, <1>9, <2>1, <2>3
<1>11. TypeOK'
  BY <1>1, <1>3, <1>8, <1>9, <1>10 DEF TypeOK, KsockType
<1>12. Len(wire') + Len(owed') = LengthOf(p) - res.n
  BY <1>3, <1>4, <1>7
<1>13. ASSUME Len(wire') + Len(owed') = 0 PROVE Clean'
  <2>1. wire' \in Seq(Unit) /\ owed' \in Seq(Unit)
    BY <1>3 DEF NetTypeOK
  <2>2. Len(wire') = 0 /\ Len(owed') = 0
    BY <1>13, <2>1
  <2>3. wire' = <<>> /\ owed' = <<>>
    BY <2>1, <2>2, EmptySeq
  <2> QED
    BY <1>3, <1>7, <2>3 DEF Clean
<1>14. CASE ksock.method = "HEAD"
  <2>1. Len(wire') + Len(owed') = 0
    <3>1. LengthOf(p) = 1
      BY <1>14 DEF LengthOf
    <3>2. Len(wire') \in Nat /\ Len(owed') \in Nat
      BY <1>3 DEF NetTypeOK
    <3> QED
      BY <1>4, <1>12, <3>1, <3>2
  <2> QED
    BY <1>3, <1>9, <1>10, <1>11, <1>13, <1>14, <2>1 DEF FramingInv, Loops
<1>15. CASE ksock.method # "HEAD" /\ pc' = "chunk"
  <2>1. LastAtEnd'
    <3>1. ASSUME NEW k \in 1..Len(wire'), wire'[k].kind = "last"
          PROVE  k = Len(wire') /\ owed' = <<>>
      <4>1. k + res.n \in 1..Len(wire)
        BY <1>3, <1>4
      <4>2. wire'[k] = wire[k + res.n]
        BY <1>3
      <4>3. k + res.n = Len(wire) /\ owed = <<>>
        BY <1>7, <3>1, <4>1, <4>2 DEF LastAtEnd
      <4> QED
        BY <1>3, <1>4, <4>3
    <3> QED
      BY <1>3, <1>7, <3>1 DEF LastAtEnd
  <2> QED
    BY <1>3, <1>7, <1>10, <1>11, <1>15, <2>1 DEF FramingInv, Loops
<1>16. CASE ksock.method # "HEAD" /\ pc' \in {"loadall", "drainall"}
  BY <1>3, <1>7, <1>10, <1>11, <1>16 DEF FramingInv, Loops
<1>17. CASE ksock.method # "HEAD" /\ pc' \in {"load", "drain", "end"}
  <2>1. keep /\ p.framing = "length" /\ remaining' = left
    <3>1. keep /\ p.framing = "length"
      BY <1>7, <1>9, <1>17 DEF keep, Keeps
    <3> QED
      BY <1>9, <1>17, <3>1
  <2>2. Len(wire') + Len(owed') = left
    <3>1. LengthOf(p) = 1 + p.len + 0
      BY <1>17, <2>1 DEF LengthOf
    <3>2. left = p.len - (res.n - 1) /\ p.len \in Nat /\ res.n \in Nat
      BY <1>4, <1>7, <1>8
    <3>3. \A l, n \in Nat : (1 + l + 0) - n = l - (n - 1)
      OBVIOUS
    <3>4. LengthOf(p) - res.n = (1 + p.len + 0) - res.n
      BY <3>1
    <3>5. LengthOf(p) - res.n = left
      BY <3>2, <3>3, <3>4
    <3> QED
      BY <1>12, <3>5
  <2>3. Len(wire') \in Nat /\ Len(owed') \in Nat
    BY <1>3 DEF NetTypeOK
  <2>4. CASE pc' = "end"
    <3>1. left = 0
      BY <1>9, <1>17, <2>4
    <3> QED
      BY <1>3, <1>10, <1>11, <1>13, <2>2, <2>4, <3>1 DEF FramingInv, Loops
  <2>5. CASE pc' \in {"load", "drain"}
    <3>1. left # 0
      BY <1>8, <1>9, <1>17, <2>1, <2>5
    <3>2. left > 0
      BY <1>8, <2>2, <2>3, <3>1
    <3> QED
      BY <1>3, <1>7, <1>10, <1>11, <2>1, <2>2, <2>5, <3>2 DEF FramingInv, Loops
  <2> QED
    BY <1>17, <2>4, <2>5
<1> QED
  BY <1>9, <1>14, <1>15, <1>16, <1>17

(* A first read without an answer. *)
LEMMA NoAnswerFraming ==
    ASSUME "stall" \notin Faults, FramingInv, RecvEof \/ RecvFails
    PROVE  FramingInv'
<1> USE InvType
<1>1. /\ pc = "recv" /\ UNCHANGED <<cur, req, ksock, leaked>>
      /\ Own /\ resp.rbuf = <<>> /\ BufUnits \in Nat \ {0}
  BY RecvOwn, NetworkAssumption DEF RecvEof, RecvFails
<1>2. CASE RecvFails
  <2>1. PICK res \in ReadResults(BufUnits) : ReadSocket(res)
    BY <1>2 DEF RecvFails
  <2>2. /\ NetTypeOK' /\ (Replying => inbox # <<>>)' /\ (srv = "idle" => owed = <<>>)'
    BY <1>1, <2>1, ReadKeeps
  <2>3. pc' = "failed" /\ UNCHANGED <<resp, remaining>>
    BY <1>2 DEF RecvFails
  <2> QED
    BY <1>1, <2>2, <2>3 DEF FramingInv, TypeOK, KsockType, Loops, OwnResponse
<1>3. CASE RecvEof
  <2>1. PICK res \in ReadResults(BufUnits) : ReadSocket(res) /\ res.st = "EOF"
    BY <1>3 DEF RecvEof
  <2>2. /\ NetTypeOK' /\ (Replying => inbox # <<>>)' /\ (srv = "idle" => owed = <<>>)'
        /\ Own' /\ (CutShort' \/ Clean') /\ Over
    BY <1>1, <2>1, ReadKeeps
  <2>3. Settled'
    BY <2>1, <2>2 DEF Over, Settled, ReadSocket
  <2>4. PICK k \in BOOLEAN : resp' = [keepalive |-> k, rbuf |-> <<>>]
    BY <1>3 DEF RecvEof
  <2>5. remaining' = 0 /\ pc' \in {"loadall", "end"}
    BY <1>3 DEF RecvEof
  <2>6. resp' \in [keepalive : BOOLEAN, rbuf : Seq(Unit \cup {Junk})] /\ OwnResponse'
    BY <2>4, EmptySeq DEF OwnResponse
  <2>7. TypeOK'
    BY <1>1, <2>2, <2>5, <2>6 DEF TypeOK, KsockType
  <2> QED
    BY <1>1, <2>2, <2>3, <2>5, <2>6, <2>7 DEF FramingInv, Loops
<1> QED
  BY <1>2, <1>3

LEMMA FramingNext ==
    ASSUME "stall" \notin Faults, FramingInv, [Next]_vars
    PROVE  FramingInv'
<1>1. CASE Client
  BY <1>1, BeginFraming, SendFraming, EndFraming, FirstFraming, NoAnswerFraming, KnownFraming,
     AllFraming, ChunkFraming DEF Client, RecvResp, ReadRest
<1>2. CASE Server /\ UNCHANGED clientVars
  BY <1>2, ServerStep DEF clientVars, ClientSame
<1>3. CASE UNCHANGED vars
  BY <1>3 DEF vars, netVars, clientVars, FramingInv, TypeOK, NetTypeOK, CutShort, Clean, Settled,
              Over, Replying, Unanswered, CurReq, Answered, Own, LastAtEnd, LengthOf, Starts,
              Loops, OwnResponse
<1> QED
  BY <1>1, <1>2, <1>3 DEF Next, Stopped

LEMMA FramingAlways ==
    ASSUME "stall" \notin Faults
    PROVE  Spec => []FramingInv
<1>1. FramingInv /\ [Next]_vars => FramingInv'
  BY FramingNext
<1> QED
  BY <1>1, FramingInit, PTL DEF Spec

-----------------------------------------------------------------------------
(* In keepalive_load_resp and the drain loop, content_length less what was  *)
(* read is what the server still has to deliver.                            *)
THEOREM LengthsAgree == ASSUME "stall" \notin Faults PROVE Spec => []RemainingIsOwed
<1>1. FramingInv => RemainingIsOwed
  BY DEF FramingInv, RemainingIsOwed
<1> QED
  BY <1>1, FramingAlways, PTL

(* What recv_resp returns is made of the answer to its own request.         *)
THEOREM AnswersOwn == ASSUME "stall" \notin Faults PROVE Spec => []OwnResponse
<1>1. FramingInv => OwnResponse
  BY DEF FramingInv
<1> QED
  BY <1>1, FramingAlways, PTL

(* end_conn keeps no connection with part of a response on it.              *)
THEOREM KeepsDrained == ASSUME "stall" \notin Faults PROVE Spec => []DrainedBeforeReuse
<1>1. FramingInv => DrainedBeforeReuse
  BY DEF FramingInv, DrainedBeforeReuse, Clean
<1> QED
  BY <1>1, FramingAlways, PTL

(* begin_conn replaces a kept connection only when the server has ended it. *)
THEOREM AbandonsDead == ASSUME "stall" \notin Faults PROVE Spec => AbandonsOnlyDead
<1> DEFINE Dead == leaked' > leaked => srv \in {"closed", "reset"} \/ (BeginAgain /\ fd # "open")
<1>1. FramingInv /\ DescriptorInv /\ [Next]_vars => [Dead]_vars
  <2> SUFFICES ASSUME FramingInv, DescriptorInv, [Next]_vars, leaked' > leaked
               PROVE  srv \in {"closed", "reset"} \/ (BeginAgain /\ fd # "open")
    OBVIOUS
  <2>1. leaked \in Nat /\ leaked' # leaked
    BY DEF DescriptorInv
  <2>2. BeginConn
    BY <2>1 DEF Next, Client, NextUrl, SendReq, SendFails, RecvResp, RecvFirst, RecvEof,
                RecvFails, ReadRest, LoadKnown, LoadAll, Drain, DrainAll, ReadChunk,
                EndConn, clientVars, vars, Stopped
  <2>3. pc = "begin" /\ MustOpen /\ (BeginAgain \/ leaked' = leaked + Abandoned)
    BY <2>1, <2>2 DEF BeginConn, BeginReuse, BeginOpen, BeginRefused, BeginAgain
  <2>4. fd # "open" => BeginAgain
    BY <2>1, <2>3 DEF Abandoned
  <2>5. CASE fd = "open"
    <3>1. ~ksock.reopen /\ ksock.s
      BY <2>5 DEF DescriptorInv, KeptOrGone
    <3>2. Readable /\ (CutShort \/ Clean)
      BY <2>3, <3>1 DEF MustOpen, FramingInv
    <3> QED
      BY <3>2 DEF Readable, CutShort, Clean
  <2> QED
    BY <2>4, <2>5
<1> QED
  BY <1>1, FramingAlways, DescriptorAlways, PTL DEF Spec, AbandonsOnlyDead
-----------------------------------------------------------------------------
(* The whole response. *)

(* A response somebody wants, and its units. *)
Wanted == ksock.want /\ ksock.method # "HEAD"
Units(p) == UnitsOf(CurReq, p)

(* What was read is its beginning, and the rest is on the connection. *)
Reading(p) == Starts(resp.rbuf, p) /\ Split(resp.rbuf, Units(p))

(* It was read to its end; a timed out read may have counted more. *)
ReadWhole(p) ==
    /\ Starts(resp.rbuf, p)
    /\ Len(resp.rbuf) >= Len(Units(p))
    /\ \A k \in 1..Len(resp.rbuf) :
          resp.rbuf[k] = IF k <= Len(Units(p)) THEN Units(p)[k] ELSE Junk

WholeInv ==
    /\ pc \in {"recv", "load", "loadall"} => ksock.method \in Methods
    /\ pc = "recv" => Unanswered \/ \E p \in Reply : Split(<<>>, Units(p))
    /\ pc \in {"load", "loadall"} =>
         /\ Wanted
         /\ \/ \E p \in Reply : Reading(p)
            \/ pc = "loadall" /\ resp.rbuf = <<>> /\ wire = <<>> /\ Over
    /\ pc \in {"drain", "drainall", "chunk"} => ~Wanted
    /\ pc = "end" /\ Wanted /\ resp.rbuf # <<>> => CutShort \/ \E p \in Reply : ReadWhole(p)

(* Nothing was taken off the connection. *)
LEMMA SameSplit ==
    ASSUME UNCHANGED <<wire, owed, resp, cur, ksock>>
    PROVE  /\ \A p \in Reply : Split(<<>>, Units(p)) => Split(<<>>, Units(p))'
           /\ \A p \in Reply : Reading(p) => Reading(p)'
           /\ \A p \in Reply : ReadWhole(p) => ReadWhole(p)'
           /\ Wanted' = Wanted /\ CurReq' = CurReq
           /\ \A p \in Reply : Units(p)' = Units(p)
<1>1. CurReq' = CurReq /\ \A p \in Reply : Units(p)' = Units(p)
  BY DEF CurReq, Units, UnitsOf
<1> QED
  BY <1>1 DEF Wanted, Split, Reading, ReadWhole, Starts

LEMMA SendUnit ==
    ASSUME FramingInv, SrvSend, ClientSame
    PROVE  /\ \A p \in Reply : Split(<<>>, Units(p)) => Split(<<>>, Units(p))'
           /\ \A p \in Reply : Reading(p) => Reading(p)'
<1>1. wire \in Seq(Unit) /\ owed \in Seq(Unit) /\ Len(resp.rbuf) \in Nat /\ Len(<<>>) = 0
  BY InvType
<1>2. CurReq' = CurReq /\ \A p \in Reply : Units(p)' = Units(p)
  BY DEF CurReq, Units, UnitsOf, ClientSame
<1>3. ASSUME NEW p \in Reply, Split(<<>>, Units(p)) PROVE Split(<<>>, Units(p))'
  <2>1. PICK read, units : read = <<>> /\ units = Units(p)
    OBVIOUS
  <2>2. Split(read, units) /\ Len(read) \in Nat
    BY <1>1, <1>3, <2>1
  <2>3. Split(read, units)'
    BY <1>1, <2>2, SplitSend
  <2> QED
    BY <1>2, <2>1, <2>3 DEF Split
<1>4. ASSUME NEW p \in Reply, Reading(p) PROVE Reading(p)'
  <2>1. PICK read, units : read = resp.rbuf /\ units = Units(p)
    OBVIOUS
  <2>2. Split(read, units) /\ Len(read) \in Nat /\ Starts(read, p)
    BY <1>1, <1>4, <2>1 DEF Reading
  <2>3. Split(read, units)'
    BY <1>1, <2>2, SplitSend
  <2>4. resp' = resp
    BY DEF ClientSame
  <2> QED
    BY <1>2, <2>1, <2>2, <2>3, <2>4 DEF Reading, Split
<1> QED
  BY <1>3, <1>4

LEMMA WholeServer ==
    ASSUME FramingInv, WholeInv, Server, ClientSame
    PROVE  WholeInv'
<1>0. UNCHANGED <<pc, cur, ksock, resp>>
  BY DEF ClientSame
<1>1. CASE SrvReply
  <2>1. srv = "idle" /\ inbox # <<>> /\ wire' = wire
    BY <1>1 DEF SrvReply
  <2>2. ~CutShort /\ ~Settled /\ ~Over
    BY <2>1 DEF CutShort, Settled, Over, Replying
  <2>3. pc \notin Loops
    BY <2>2 DEF FramingInv
  <2>4. ASSUME pc = "recv" PROVE \E p \in Reply : Split(<<>>, Units(p))'
    <3>1. wire = <<>> /\ inbox = <<CurReq>>
      <4>1. ~ \E r \in Reply : Answered(r)
        BY <2>2 DEF Answered
      <4> QED
        BY <2>1, <2>2, <2>4, <4>1 DEF FramingInv, Unanswered, Replying
    <3>2. PICK p \in Reply : owed' = Units(p)
      BY <1>1, <3>1 DEF SrvReply, Units
    <3>3. CurReq \in [id : Reqs, method : Methods]
      BY <2>4, InvType DEF CurReq, WholeInv
    <3>4. Len(Units(p)) \in Nat
      <4>1. UnitsOf(CurReq, p) \in Seq(Unit)
        BY <3>3, UnitsOfAnswer
      <4> QED
        BY <4>1 DEF Units
    <3>5. PICK units : units = Units(p)
      OBVIOUS
    <3>6. Split(<<>>, units)'
      BY <2>1, <3>1, <3>2, <3>4, <3>5, SplitStart
    <3>7. Units(p)' = units
      BY <1>0, <3>5 DEF Units, CurReq, UnitsOf
    <3> QED
      BY <3>6, <3>7 DEF Split
  <2>5. ASSUME pc = "end", Wanted, resp.rbuf # <<>> PROVE \E p \in Reply : ReadWhole(p)'
    <3>1. PICK p \in Reply : ReadWhole(p)
      BY <2>2, <2>5 DEF WholeInv
    <3>2. Units(p)' = Units(p)
      BY <1>0 DEF Units, CurReq, UnitsOf
    <3> QED
      BY <1>0, <3>1, <3>2 DEF ReadWhole, Starts
  <2> QED
    BY <1>0, <2>3, <2>4, <2>5 DEF WholeInv, Loops, Wanted
<1>2. CASE SrvSend
  <2>1. UNCHANGED <<fd, srv, inbox>> /\ Replying /\ owed # <<>>
    BY <1>2 DEF SrvSend
  <2>2. ~Unanswered /\ ~CutShort /\ ~Over
    BY <2>1 DEF Unanswered, CutShort, Replying, Over
  <2>3. \A p \in Reply : ReadWhole(p) => ReadWhole(p)'
    <3>1. \A p \in Reply : Units(p)' = Units(p)
      BY <1>0 DEF Units, CurReq, UnitsOf
    <3> QED
      BY <1>0, <3>1 DEF ReadWhole, Starts
  <2>4. /\ \A p \in Reply : Split(<<>>, Units(p)) => Split(<<>>, Units(p))'
        /\ \A p \in Reply : Reading(p) => Reading(p)'
    BY <1>2, SendUnit
  <2> QED
    BY <1>0, <2>2, <2>3, <2>4 DEF WholeInv, Wanted
<1>3. CASE SrvDone \/ SrvIdleClose \/ SrvCrash
  <2>1. UNCHANGED <<wire, owed>>
    BY <1>3 DEF SrvDone, SrvIdleClose, SrvCrash
  <2>2. /\ \A p \in Reply : Split(<<>>, Units(p)) => Split(<<>>, Units(p))'
        /\ \A p \in Reply : Reading(p) => Reading(p)'
        /\ \A p \in Reply : ReadWhole(p) => ReadWhole(p)'
        /\ Wanted' = Wanted
    BY <1>0, <2>1, SameSplit
  <2>3. Over => Over'
    BY <1>3 DEF SrvDone, SrvIdleClose, SrvCrash, Replying, Over
  <2>4. CutShort => CutShort'
    BY <2>1, <2>3 DEF CutShort, Over
  <2>5. pc = "recv" /\ Unanswered => Unanswered'
    <3>1. CASE SrvDone
      <4>1. /\ Replying /\ srv' \in {"closed", "idle"} /\ inbox' = Tail(inbox)
        BY <3>1 DEF SrvDone
      <4>2. inbox \in Seq(Sent)
        BY InvType
      <4>3. Len(inbox) = 2 /\ inbox # <<>> => inbox' = <<inbox[2]>>
        BY <4>1, <4>2, QueueTail
      <4>4. Len(<<>>) = 0
        OBVIOUS
      <4> QED
        BY <1>0, <2>1, <4>1, <4>3, <4>4 DEF Unanswered, Replying, Over, CurReq
    <3>2. CASE SrvIdleClose \/ SrvCrash
      BY <1>0, <2>1, <3>2 DEF SrvIdleClose, SrvCrash, Unanswered, Over
    <3> QED
      BY <1>3, <3>1, <3>2
  <2> QED
    BY <1>0, <2>1, <2>2, <2>3, <2>4, <2>5 DEF WholeInv
<1> QED
  BY <1>1, <1>2, <1>3 DEF Server, ServerWork

(* What a read appends to rbuf. *)
LEMMA LoadedUnits ==
    ASSUME FramingInv, NEW res, res.n \in Nat, ReadData(res) \in Seq(Unit)
    PROVE  /\ \A k \in 1..Len(resp.rbuf) : Loaded(res)[k] = resp.rbuf[k]
           /\ res.st # "TIMEUP" =>
                /\ Len(Loaded(res)) = Len(resp.rbuf) + Len(ReadData(res))
                /\ \A k \in 1..Len(ReadData(res)) :
                      Loaded(res)[Len(resp.rbuf) + k] = ReadData(res)[k]
           /\ res.st = "TIMEUP" =>
                /\ Len(Loaded(res)) = Len(resp.rbuf) + res.n
                /\ \A k \in 1..res.n : Loaded(res)[Len(resp.rbuf) + k] = Junk
<1> DEFINE junk == [k \in 1..res.n |-> Junk]
           ext == IF res.st = "TIMEUP" THEN junk ELSE ReadData(res)
           old == resp.rbuf
<1>1. junk \in Seq(Unit \cup {Junk}) /\ Len(junk) = res.n /\ \A k \in 1..res.n : junk[k] = Junk
  <2>1. junk \in [1..res.n -> Unit \cup {Junk}]
    OBVIOUS
  <2> QED
    BY <2>1
<1>2. ReadData(res) \in Seq(Unit \cup {Junk})
  BY SeqWidens
<1>3. old \in Seq(Unit \cup {Junk}) /\ Len(old) \in Nat
  BY InvType
<1> HIDE DEF junk
<1>4. ext \in Seq(Unit \cup {Junk}) /\ Len(ext) \in Nat
  BY <1>1, <1>2
<1>5. Loaded(res) = old \o ext
  BY DEF Loaded, junk
<1> HIDE DEF ext, old
<1>6. /\ Len(old \o ext) = Len(old) + Len(ext)
      /\ \A k \in 1..(Len(old) + Len(ext)) :
            (old \o ext)[k] = IF k <= Len(old) THEN old[k] ELSE ext[k - Len(old)]
  BY <1>3, <1>4, ConcatProperties
<1>7. \A k \in 1..Len(old) : Loaded(res)[k] = old[k]
  BY <1>3, <1>4, <1>5, <1>6
<1>8. ASSUME NEW k \in 1..Len(ext) PROVE Loaded(res)[Len(old) + k] = ext[k]
  <2>1. Len(old) + k \in 1..(Len(old) + Len(ext)) /\ ~(Len(old) + k <= Len(old))
        /\ Len(old) + k - Len(old) = k
    BY <1>3, <1>4
  <2> QED
    BY <1>5, <1>6, <2>1
<1>9. Len(Loaded(res)) = Len(old) + Len(ext)
  BY <1>5, <1>6
<1> QED
  BY <1>1, <1>7, <1>8, <1>9 DEF ext, old

(* One read of a loop that keeps what it reads. *)
LEMMA LoadKeeps ==
    ASSUME "stall" \notin Faults, FramingInv, ksock.method \in Methods,
           NEW limit \in Nat \ {0}, NEW res \in ReadResults(limit), ReadSocket(res),
           UNCHANGED <<cur, ksock>>, resp' = [resp EXCEPT !.rbuf = Loaded(res)],
           NEW p \in Reply, Reading(p)
    PROVE  /\ res.st # "TIMEUP" => Reading(p)'
           /\ res.st # "TIMEUP" /\ wire' = <<>> /\ owed' = <<>> => ReadWhole(p)'
           /\ res.st = "TIMEUP" => ReadWhole(p)'
<1>1. PICK units, new, old : units = Units(p) /\ new = Loaded(res) /\ old = resp.rbuf
  OBVIOUS
<1>0. resp'.rbuf = new /\ Units(p)' = Units(p)
  BY <1>1, InvType DEF Units, CurReq, UnitsOf
<1>2. wire \in Seq(Unit) /\ owed \in Seq(Unit) /\ Len(old) \in Nat /\ Len(owed) \in Nat
      /\ Len(wire) \in Nat /\ old \in Seq(Unit \cup {Junk})
  BY <1>1, InvType
<1>3. Split(old, units) /\ Starts(old, p)
  BY <1>1 DEF Reading
<1>4. Len(units) \in Nat
  BY <1>2, <1>3 DEF Split
<1>5. /\ owed' = owed /\ res.n \in Nat
      /\ \/ /\ res.st = "SUCCESS" /\ res.n \in 1..Len(wire)
            /\ ReadData(res) \in Seq(Unit) /\ Len(ReadData(res)) = res.n
            /\ \A k \in 1..res.n : ReadData(res)[k] = wire[k]
            /\ Len(wire') = Len(wire) - res.n
            /\ \A k \in 1..Len(wire') : wire'[k] = wire[k + res.n]
         \/ /\ res.st # "SUCCESS" /\ ReadData(res) = <<>>
            /\ wire = <<>> /\ wire' = <<>>
            /\ res.st = "TIMEUP" => Quiet
  BY <1>2, ReadFacts
<1>6. ReadData(res) \in Seq(Unit) /\ Len(<<>>) = 0
  BY <1>5, EmptySeq
<1>7. /\ \A k \in 1..Len(old) : new[k] = old[k]
      /\ res.st # "TIMEUP" =>
           /\ Len(new) = Len(old) + Len(ReadData(res))
           /\ \A k \in 1..Len(ReadData(res)) : new[Len(old) + k] = ReadData(res)[k]
      /\ res.st = "TIMEUP" =>
           /\ Len(new) = Len(old) + res.n
           /\ \A k \in 1..res.n : new[Len(old) + k] = Junk
  BY <1>1, <1>5, <1>6, LoadedUnits
<1>8. Starts(new, p)
  <2>1. Len(old) > 0
    BY <1>2, <1>3, EmptySeq DEF Starts
  <2>2. 1 \in 1..Len(old) /\ Len(new) > 0
    BY <1>2, <1>5, <1>6, <1>7, <2>1
  <2> QED
    BY <1>3, <1>6, <1>7, <2>2 DEF Starts
<1>9. CASE res.st = "SUCCESS"
  <2>0. /\ Len(new) = Len(old) + res.n /\ res.n \in 1..Len(wire) /\ Len(wire') = Len(wire) - res.n
        /\ \A k \in 1..res.n : new[Len(old) + k] = wire[k]
        /\ \A k \in 1..Len(wire') : wire'[k] = wire[k + res.n]
        /\ \A k \in 1..Len(old) : new[k] = old[k]
    BY <1>5, <1>7, <1>9
  <2>1. Split(new, units)'
    BY <1>2, <1>3, <1>5, <2>0, SplitRead
  <2>2. Reading(p)'
    BY <1>0, <1>1, <1>8, <2>1 DEF Reading, Split
  <2>3. ASSUME wire' = <<>>, owed' = <<>> PROVE ReadWhole(p)'
    <3>1. Len(units) = Len(new) /\ \A k \in 1..Len(new) : new[k] = units[k]
      BY <1>2, <1>5, <1>6, <1>7, <1>9, <2>1, <2>3 DEF Split
    <3> QED
      BY <1>0, <1>1, <1>4, <1>8, <3>1 DEF ReadWhole
  <2> QED
    BY <1>9, <2>2, <2>3
<1>10. CASE res.st \notin {"SUCCESS", "TIMEUP"}
  <2>1. Len(new) = Len(old)
    BY <1>2, <1>5, <1>6, <1>7, <1>10
  <2>0. wire' = wire /\ owed' = owed /\ \A k \in 1..Len(old) : new[k] = old[k]
    BY <1>5, <1>7, <1>10
  <2>2. Split(new, units)'
    BY <1>3, <2>0, <2>1 DEF Split
  <2>3. Reading(p)'
    BY <1>0, <1>1, <1>8, <2>2 DEF Reading, Split
  <2>4. ASSUME wire' = <<>>, owed' = <<>> PROVE ReadWhole(p)'
    <3>1. Len(units) = Len(new) /\ \A k \in 1..Len(new) : new[k] = units[k]
      BY <1>2, <1>6, <2>1, <2>2, <2>4 DEF Split
    <3> QED
      BY <1>0, <1>1, <1>4, <1>8, <3>1 DEF ReadWhole
  <2> QED
    BY <1>10, <2>3, <2>4
<1>11. CASE res.st = "TIMEUP"
  <2>1. wire = <<>> /\ owed = <<>>
    BY <1>5, <1>11 DEF Quiet, FramingInv
  <2>2. Len(units) = Len(old) /\ \A k \in 1..Len(old) : old[k] = units[k]
    BY <1>2, <1>3, <1>6, <2>1 DEF Split
  <2>3. ASSUME NEW k \in 1..Len(new)
        PROVE  new[k] = IF k <= Len(units) THEN units[k] ELSE Junk
    <3>1. CASE k \in 1..Len(old)
      BY <1>2, <1>7, <2>2, <3>1
    <3>2. CASE k \notin 1..Len(old)
      <4>1. k - Len(old) \in 1..res.n /\ Len(old) + (k - Len(old)) = k
        BY <1>2, <1>5, <1>7, <1>11, <3>2
      <4>2. new[Len(old) + (k - Len(old))] = Junk
        BY <1>7, <1>11, <4>1
      <4> QED
        BY <1>2, <2>2, <3>2, <4>1, <4>2
    <3> QED
      BY <3>1, <3>2
  <2>4. Len(new) >= Len(units)
    BY <1>2, <1>5, <1>7, <1>11, <2>2
  <2> QED
    BY <1>0, <1>1, <1>8, <1>11, <2>3, <2>4 DEF ReadWhole
<1> QED
  BY <1>9, <1>10, <1>11

LEMMA WholeKnown ==
    ASSUME "stall" \notin Faults, FramingInv, WholeInv, LoadKnown
    PROVE  WholeInv'
<1> USE InvType
<1>1. /\ pc = "load" /\ UNCHANGED <<cur, req, ksock, leaked>>
      /\ remaining > 0 /\ Wanted /\ ksock.method \in Methods
      /\ CutShort \/ remaining = Len(wire) + Len(owed)
  BY DEF LoadKnown, FramingInv, WholeInv
<1>2. PICK p \in Reply : Reading(p)
  BY <1>1 DEF WholeInv
<1>3. Limit \in Nat \ {0}
  BY <1>1, NetworkAssumption DEF Limit
<1>4. PICK res \in ReadResults(Limit) :
        /\ ReadSocket(res)
        /\ resp' = [resp EXCEPT !.rbuf = Loaded(res)]
        /\ remaining' = remaining - res.n
        /\ pc' = IF Stops(res.st) \/ remaining' = 0 THEN "end" ELSE "load"
  BY DEF LoadKnown
<1>5. /\ res.st # "TIMEUP" => Reading(p)'
      /\ res.st # "TIMEUP" /\ wire' = <<>> /\ owed' = <<>> => ReadWhole(p)'
      /\ res.st = "TIMEUP" => ReadWhole(p)'
  BY <1>1, <1>2, <1>3, <1>4, LoadKeeps
<1>6. /\ owed' = owed /\ res.n \in Nat /\ Over => Over'
      /\ IF res.st = "SUCCESS" THEN Len(wire') = Len(wire) - res.n /\ wire' \in Seq(Unit)
         ELSE wire' = <<>> /\ (res.st = "TIMEUP" \/ Over)
  BY <1>3, <1>4, ReadFacts DEF Over
<1>6a. res.n \in Nat /\ owed' = owed /\ (Over => Over')
  BY <1>3, <1>4, ReadFacts DEF Over
<1>7. Wanted' /\ ksock'.method \in Methods
  BY <1>1 DEF Wanted
<1>8. CASE pc' = "load"
  <2>1. res.st # "TIMEUP"
    BY <1>4, <1>8 DEF Stops
  <2> QED
    BY <1>5, <1>7, <1>8, <2>1 DEF WholeInv
<1>9. CASE pc' = "end"
  <2>1. ASSUME ~CutShort' PROVE ReadWhole(p)'
    <3>1. CASE res.st = "TIMEUP"
      BY <1>5, <3>1
    <3>2. CASE res.st = "SUCCESS"
      <4>1. ~CutShort
        BY <1>6a, <2>1 DEF CutShort, Over
      <4>2. remaining = Len(wire) + Len(owed) /\ remaining - res.n = 0
        BY <1>1, <1>4, <1>9, <3>2, <4>1 DEF Stops
      <4>3. Len(wire') + Len(owed) = 0
        BY <1>6, <1>6a, <3>2, <4>2
      <4>4. wire' = <<>> /\ owed' = <<>>
        <5>1. wire' \in Seq(Unit) /\ Len(wire') \in Nat /\ Len(owed) \in Nat
          BY <1>6, <1>6a, <3>2
        <5>2. Len(wire') = 0 /\ Len(owed) = 0
          BY <4>3, <5>1
        <5> QED
          BY <1>6a, <5>1, <5>2, EmptySeq
      <4> QED
        BY <1>5, <3>2, <4>4
    <3>3. CASE res.st \notin {"TIMEUP", "SUCCESS"}
      <4>1. wire' = <<>> /\ Over'
        BY <1>6, <1>6a, <3>3
      <4>2. owed' = <<>>
        BY <2>1, <4>1 DEF CutShort, Over
      <4> QED
        BY <1>5, <3>3, <4>1, <4>2
    <3> QED
      BY <3>1, <3>2, <3>3
  <2> QED
    BY <1>7, <1>9, <2>1 DEF WholeInv
<1> QED
  BY <1>4, <1>8, <1>9

LEMMA WholeAll ==
    ASSUME "stall" \notin Faults, FramingInv, WholeInv, LoadAll
    PROVE  WholeInv'
<1> USE InvType
<1>1. /\ pc = "loadall" /\ UNCHANGED <<cur, req, ksock, remaining, leaked>>
      /\ Wanted /\ ksock.method \in Methods
  BY DEF LoadAll, WholeInv
<1>2. BufUnits \in Nat \ {0}
  BY NetworkAssumption
<1>3. PICK res \in ReadResults(BufUnits) :
        /\ ReadSocket(res)
        /\ resp' = [resp EXCEPT !.rbuf = Loaded(res)]
        /\ pc' = IF Stops(res.st) THEN "end" ELSE "loadall"
  BY DEF LoadAll
<1>4. /\ owed' = owed /\ (Over => Over') /\ (res.st = "TIMEUP" => ~Over)
      /\ ReadData(res) \in Seq(Unit) /\ res.n \in Nat
      /\ wire = <<>> => res.st # "SUCCESS" /\ wire' = <<>> /\ ReadData(res) = <<>>
      /\ res.st # "SUCCESS" => wire' = <<>>
      /\ res.st \in {"EOF", "ECONNRESET"} => Over'
      /\ res.st \in {"SUCCESS", "EOF", "ECONNRESET", "TIMEUP"}
  BY <1>2, <1>3, ReadFacts, EmptySeq DEF Over, Quiet
<1>5. Wanted' /\ ksock'.method \in Methods
  BY <1>1 DEF Wanted
<1>6. ASSUME NEW p \in Reply, Reading(p) PROVE WholeInv'
  <2>1. /\ res.st # "TIMEUP" => Reading(p)'
        /\ res.st # "TIMEUP" /\ wire' = <<>> /\ owed' = <<>> => ReadWhole(p)'
        /\ res.st = "TIMEUP" => ReadWhole(p)'
    BY <1>1, <1>2, <1>3, <1>6, LoadKeeps
  <2>2. CASE pc' = "loadall"
    <3>1. res.st # "TIMEUP"
      BY <1>3, <2>2 DEF Stops
    <3> QED
      BY <1>5, <2>1, <2>2, <3>1 DEF WholeInv
  <2>3. CASE pc' = "end"
    <3>1. res.st \in {"EOF", "TIMEUP"}
      BY <1>3, <1>4, <2>3 DEF Stops
    <3>2. CutShort' \/ ReadWhole(p)'
      <4>1. CASE res.st = "TIMEUP"
        BY <2>1, <4>1
      <4>2. CASE res.st = "EOF"
        BY <1>4, <2>1, <4>2 DEF CutShort, Over
      <4> QED
        BY <3>1, <4>1, <4>2
    <3> QED
      BY <1>5, <2>3, <3>2 DEF WholeInv
  <2> QED
    BY <1>3, <2>2, <2>3
<1>7. ASSUME resp.rbuf = <<>>, wire = <<>>, Over PROVE WholeInv'
  <2>1. res.st \in {"EOF", "ECONNRESET"} /\ wire' = <<>> /\ Over'
    BY <1>4, <1>7
  <2>2. resp'.rbuf = <<>>
    <3>1. Len(Loaded(res)) = Len(resp.rbuf) + Len(ReadData(res))
      BY <1>4, <2>1, LoadedUnits
    <3>2. Len(<<>>) = 0
      OBVIOUS
    <3>3. Len(Loaded(res)) = 0 /\ resp'.rbuf = Loaded(res)
      BY <1>3, <1>4, <1>7, <3>1, <3>2
    <3>4. resp'.rbuf \in Seq(Unit \cup {Junk})
      BY <1>1, <1>3, <1>4, <2>1, <1>7, <3>3 DEF Loaded
    <3> QED
      BY <3>3, <3>4, EmptySeq
  <2> QED
    BY <1>3, <1>5, <2>1, <2>2 DEF WholeInv
<1> QED
  BY <1>1, <1>6, <1>7 DEF WholeInv

(* The first read finds the header, when it finds anything. *)
LEMMA WholeFirst ==
    ASSUME "stall" \notin Faults, FramingInv, WholeInv, RecvFirst
    PROVE  WholeInv'
<1> USE InvType
<1>1. /\ pc = "recv" /\ UNCHANGED <<cur, req, ksock, leaked>> /\ ksock.method \in Methods
  BY DEF RecvFirst, WholeInv
<1>2. BufUnits \in Nat \ {0}
  BY NetworkAssumption
<1>3. PICK res \in ReadResults(BufUnits) :
        /\ res.st = "SUCCESS"
        /\ ReadSocket(res)
        /\ \E h \in Parses(ReadData(res)) : Headers(h, ReadData(res))
  BY DEF RecvFirst
<1>4. PICK data, n : data = ReadData(res) /\ n = res.n
  OBVIOUS
<1>5. /\ owed' = owed /\ n \in 1..Len(wire) /\ wire # <<>>
      /\ data \in Seq(Unit) /\ Len(data) = n
      /\ \A k \in 1..n : data[k] = wire[k]
      /\ wire' \in Seq(Unit) /\ Len(wire') = Len(wire) - n
      /\ \A k \in 1..Len(wire') : wire'[k] = wire[k + n]
  BY <1>2, <1>3, <1>4, ReadFacts
<1>6. resp'.rbuf = data
  BY <1>3, <1>4 DEF Headers
<1>7. PICK p \in Reply : Split(<<>>, Units(p))
  BY <1>1, <1>5 DEF WholeInv, Unanswered
<1>8. PICK units, none : units = Units(p) /\ none = <<>>
  OBVIOUS
<1>9. CurReq \in [id : Reqs, method : Methods] /\ CurReq' = CurReq /\ Units(p)' = units
  BY <1>1, <1>8 DEF CurReq, Units, UnitsOf
<1>10. units \in Seq(Unit) /\ Starts(units, p)
  BY <1>8, <1>9, UnitsOfAnswer DEF Units
<1>11. Split(none, units) /\ Len(none) = 0
  BY <1>7, <1>8
<1>12. Split(data, units)'
  <2>1. /\ Len(data) = Len(none) + n
        /\ \A k \in 1..Len(none) : data[k] = none[k]
        /\ \A k \in 1..n : data[Len(none) + k] = wire[k]
    BY <1>5, <1>11
  <2>2. Len(owed) \in Nat /\ Len(none) \in Nat
    BY <1>11
  <2> QED
    BY <1>5, <1>11, <2>1, <2>2, SplitRead
<1>13. Starts(data, p)
  <2>1. 1 \in 1..n /\ 1 \in 1..Len(wire) /\ data # <<>>
    BY <1>5
  <2>2. wire[1] = units[Len(none) + 1]
    BY <1>11, <2>1 DEF Split
  <2>3. data[1] = units[1]
    BY <1>5, <1>11, <2>1, <2>2
  <2> QED
    BY <1>10, <2>1, <2>3 DEF Starts
<1>14. Reading(p)'
  BY <1>6, <1>9, <1>12, <1>13 DEF Reading, Split
<1>15. pc' \in {"end", "load", "loadall", "chunk", "drain", "drainall"}
       /\ (pc' \in {"load", "loadall"} <=> Wanted)
  <2>0. PICK q \in Parses(ReadData(res)) : Headers(q, ReadData(res))
    BY <1>3
  <2> DEFINE keep == Keeps(q)
             left == BodyLeft(q, ReadData(res))
  <2>1. pc' = IF ksock.method = "HEAD" THEN "end"
                 ELSE IF ksock.want
                      THEN IF keep /\ q.reply.framing = "length" /\ left > 0
                           THEN "load" ELSE "loadall"
                 ELSE IF q.reply.framing = "chunked" THEN "chunk"
                 ELSE IF keep THEN (IF left = 0 THEN "end" ELSE "drain")
                 ELSE "drainall"
    BY <2>0 DEF Headers
  <2> HIDE DEF keep, left
  <2> QED
    BY <2>1 DEF Wanted
<1> QED
  BY <1>1, <1>14, <1>15 DEF WholeInv, Wanted

LEMMA WholeOthers ==
    ASSUME "stall" \notin Faults, FramingInv, WholeInv,
           NextUrl \/ BeginConn \/ SendReq \/ SendFails \/ RecvEof \/ RecvFails
             \/ Drain \/ DrainAll \/ ReadChunk \/ EndConn
    PROVE  WholeInv'
<1> USE InvType
<1>1. CASE NextUrl \/ BeginConn \/ SendFails \/ RecvFails \/ EndConn
  <2>1. pc' \in {"begin", "send", "failed", "next", "done"}
    BY <1>1 DEF NextUrl, BeginConn, BeginReuse, BeginOpen, BeginRefused, BeginAgain, SendFails,
                RecvFails, EndConn
  <2> QED
    BY <2>1 DEF WholeInv
<1>2. CASE SendReq
  <2>1. pc = "send" /\ pc' = "recv" /\ ksock'.method \in Methods /\ FramingInv'
    <3>1. req.method \in Methods
      BY DEF Request
    <3> QED
      BY <1>2, <3>1, SendFraming DEF SendReq, KsockType
  <2>2. wire' = <<>> /\ owed' = <<>>
    BY <1>2, <2>1 DEF FramingInv, Clean, SendReq, WriteSocket
  <2>3. ~ \E p \in Reply : Answered(p)'
    <3>1. ~ \E p \in Reply : Starts(<<>>, p)
      BY DEF Starts
    <3> QED
      BY <2>2, <3>1 DEF Answered
  <2> QED
    BY <2>1, <2>3 DEF WholeInv, FramingInv
<1>3. CASE RecvEof
  <2>1. PICK res \in ReadResults(BufUnits) : res.st = "EOF" /\ ReadSocket(res)
    BY <1>3 DEF RecvEof
  <2>2. wire' = <<>> /\ srv' = "closed"
    BY <2>1, NetworkAssumption, ReadFacts
  <2>3. /\ pc = "recv" /\ ksock' = ksock /\ resp'.rbuf = <<>>
        /\ pc' = IF ksock.want /\ ksock.method # "HEAD" THEN "loadall" ELSE "end"
    BY <1>3 DEF RecvEof
  <2> QED
    BY <2>2, <2>3 DEF WholeInv, Wanted, Over
<1>4. CASE Drain \/ DrainAll \/ ReadChunk
  <2>1. /\ pc \in {"drain", "drainall", "chunk"} /\ pc' \in {"drain", "drainall", "chunk", "end"}
        /\ ksock' = ksock
    BY <1>4 DEF Drain, DrainAll, ReadChunk
  <2> QED
    BY <2>1 DEF WholeInv, Wanted
<1> QED
  BY <1>1, <1>2, <1>3, <1>4

LEMMA WholeNext ==
    ASSUME "stall" \notin Faults, FramingInv, WholeInv, [Next]_vars
    PROVE  WholeInv'
<1>1. CASE Client
  BY <1>1, WholeKnown, WholeAll, WholeFirst, WholeOthers DEF Client, RecvResp, ReadRest
<1>2. CASE Server /\ UNCHANGED clientVars
  BY <1>2, WholeServer DEF clientVars, ClientSame
<1>3. CASE UNCHANGED vars
  <2>1. UNCHANGED <<fd, srv, inbox, owed, wire, pc, cur, ksock, resp>>
    BY <1>3 DEF vars, netVars, clientVars
  <2>2. /\ \A p \in Reply : Split(<<>>, Units(p)) => Split(<<>>, Units(p))'
        /\ \A p \in Reply : Reading(p) => Reading(p)'
        /\ \A p \in Reply : ReadWhole(p) => ReadWhole(p)'
        /\ Wanted' = Wanted /\ CurReq' = CurReq
    BY <2>1, SameSplit
  <2> QED
    BY <2>1, <2>2 DEF WholeInv, Unanswered, Replying, Over, CutShort
<1> QED
  BY <1>1, <1>2, <1>3 DEF Next, Stopped

(* A response somebody wants is in rbuf as the server sent it, all of it,   *)
(* whenever the server has sent all of it: keepalive_recv_resp stops at the *)
(* length the header tells, or at the end of the connection.                *)
THEOREM ReadsWhole == ASSUME "stall" \notin Faults PROVE Spec => []WholeResponse
<1>1. Init => WholeInv
  BY DEF Init, WholeInv
<1>2. FramingInv /\ WholeInv /\ [Next]_vars => WholeInv'
  BY WholeNext
<1>3. WholeInv => WholeResponse
  <2> SUFFICES ASSUME WholeInv, pc = "end", Wanted, resp.rbuf # <<>>, ~CutShort
               PROVE  LET units == UnitsOf(CurReq, resp.rbuf[1].reply)
                      IN  /\ Len(resp.rbuf) >= Len(units)
                          /\ \A k \in 1..Len(resp.rbuf) :
                                resp.rbuf[k] = IF k <= Len(units) THEN units[k] ELSE Junk
    BY DEF WholeResponse, Wanted, CurReq
  <2>1. PICK p \in Reply : ReadWhole(p)
    BY DEF WholeInv
  <2>2. resp.rbuf[1].reply = p
    BY <2>1 DEF ReadWhole, Starts
  <2> QED
    BY <2>1, <2>2 DEF ReadWhole, Units
<1> QED
  BY <1>1, <1>2, <1>3, FramingAlways, PTL DEF Spec

-----------------------------------------------------------------------------
(* GETs to a server that may stall. *)

(* The requests the server has yet to begin with. *)
Waiting == IF Replying THEN Tail(inbox) ELSE IF srv = "idle" THEN inbox ELSE <<>>

Headless(s) == \A i \in 1..Len(s) : s[i].kind # "head"

(* A header in s is of request c, and s ends with that answer.              *)
Fits(s, c) ==
    \A i \in 1..Len(s) : s[i].kind = "head" =>
       /\ s[i].of = c
       /\ \A j \in 1..Len(s) : i < j => s[j].of = c /\ s[j].kind # "head"
       /\ s[i].reply.framing = "length" => Len(s) - i <= s[i].reply.len

(* With b received and s still to come, the answer to request c was found,  *)
(* or the connection ended before there was anything.                       *)
Found(b, c, s) == Rest(s, c) /\ (Answers(b, c) \/ (Blank(b) /\ Len(s) = 0))

(* Late bytes of an earlier answer have no header among them, and once a    *)
(* header was read the server is at work on nothing else.                   *)
LateInv ==
    /\ TypeOK
    /\ Replying => inbox # <<>>
    /\ pc = "send" \/ (pc \in {"next", "begin"} /\ ~ksock.reopen) => Headless(Stream) /\ Waiting = <<>>
    /\ pc = "recv" => /\ Fits(Stream, cur)
                      /\ Waiting = <<>> \/ (Waiting = <<CurReq>> /\ Headless(Stream))
    /\ pc \in Loops \cup {"end"} /\ resp.keepalive => Found(resp.rbuf, cur, Stream) /\ Waiting = <<>>
    /\ pc \in {"load", "drain"} => resp.keepalive /\ remaining > 0

(* t is s without its first n units, or without some of its last.           *)
IsSuffix(t, s, n) ==
    /\ Len(t) \in Nat /\ Len(s) \in Nat /\ n \in Nat /\ Len(t) = Len(s) - n
    /\ \A k \in 1..Len(t) : t[k] = s[k + n]
IsStart(t, s) ==
    /\ Len(t) \in Nat /\ Len(s) \in Nat /\ Len(t) <= Len(s)
    /\ \A k \in 1..Len(t) : t[k] = s[k]

LEMMA StartKeeps ==
    ASSUME NEW s, NEW t, IsStart(t, s), NEW c, \A i \in 1..Len(s) : s[i] \in Unit
    PROVE  /\ Headless(s) => Headless(t)
           /\ \A b : Found(b, c, s) => Found(b, c, t)
           /\ Fits(s, c) => Fits(t, c)
<1>1. \A k \in 1..Len(t) : k \in 1..Len(s) /\ t[k] = s[k]
  BY DEF IsStart
<1>2. ASSUME Fits(s, c) PROVE Fits(t, c)
  <2>1. SUFFICES ASSUME NEW i \in 1..Len(t), t[i].kind = "head"
                 PROVE  /\ t[i].of = c
                        /\ \A j \in 1..Len(t) : i < j => t[j].of = c /\ t[j].kind # "head"
                        /\ t[i].reply.framing = "length" => Len(t) - i <= t[i].reply.len
    BY DEF Fits
  <2>2. i \in 1..Len(s) /\ t[i] = s[i]
    BY <1>1
  <2>3. /\ s[i].of = c
        /\ \A j \in 1..Len(s) : i < j => s[j].of = c /\ s[j].kind # "head"
        /\ s[i].reply.framing = "length" => Len(s) - i <= s[i].reply.len
    BY <1>2, <2>1, <2>2 DEF Fits
  <2>4. \A j \in 1..Len(t) : i < j => t[j].of = c /\ t[j].kind # "head"
    BY <1>1, <2>3
  <2>5. s[i].reply.len \in Nat
    <3>1. s[i] \in Unit /\ s[i].kind = "head"
      BY <2>1, <2>2
    <3>2. s[i].reply \in Reply
      BY <3>1 DEF Unit
    <3> QED
      BY <3>2, NetworkAssumption DEF Reply
  <2>6. s[i].reply.framing = "length" => Len(t) - i <= s[i].reply.len
    <3>1. PICK x, y, z : x = Len(t) /\ y = Len(s) /\ z = s[i].reply.len
      OBVIOUS
    <3>2. x \in Nat /\ y \in Nat /\ x <= y /\ z \in Nat /\ i \in Nat
      BY <2>5, <3>1 DEF IsStart
    <3>3. y - i <= z => x - i <= z
      BY <3>2
    <3> QED
      BY <2>3, <3>1, <3>3
  <2> QED
    BY <2>2, <2>3, <2>4, <2>6
<1>3. Headless(s) => Headless(t)
  BY <1>1 DEF Headless
<1>4. Rest(s, c) => Rest(t, c)
  BY <1>1 DEF Rest
<1>5. Len(s) = 0 => Len(t) = 0
  BY DEF IsStart
<1>6. \A b : Found(b, c, s) => Found(b, c, t)
  BY <1>4, <1>5 DEF Found
<1> QED
  BY <1>2, <1>3, <1>6

(* The units a read takes off the stream are those in front.                *)
LEMMA SuffixKeeps ==
    ASSUME NEW s, NEW t, NEW n, IsSuffix(t, s, n), NEW c
    PROVE  /\ Headless(s) => Headless(t)
           /\ Rest(s, c) => Rest(t, c)
           /\ Fits(s, c) => Fits(t, c)
<1>1. \A k \in 1..Len(t) : k + n \in 1..Len(s) /\ t[k] = s[k + n]
  <2>1. PICK x, y : x = Len(t) /\ y = Len(s)
    OBVIOUS
  <2>2. x \in Nat /\ y \in Nat /\ n \in Nat /\ x = y - n /\ \A k \in 1..x : t[k] = s[k + n]
    BY <2>1 DEF IsSuffix
  <2>3. \A k \in 1..x : k + n \in 1..y
    BY <2>2
  <2> QED
    BY <2>1, <2>2, <2>3
<1>2. ASSUME Fits(s, c) PROVE Fits(t, c)
  <2>1. SUFFICES ASSUME NEW i \in 1..Len(t), t[i].kind = "head"
                 PROVE  /\ t[i].of = c
                        /\ \A j \in 1..Len(t) : i < j => t[j].of = c /\ t[j].kind # "head"
                        /\ t[i].reply.framing = "length" => Len(t) - i <= t[i].reply.len
    BY DEF Fits
  <2>2. i + n \in 1..Len(s) /\ t[i] = s[i + n]
    BY <1>1
  <2>3. /\ s[i + n].of = c
        /\ \A j \in 1..Len(s) : i + n < j => s[j].of = c /\ s[j].kind # "head"
        /\ s[i + n].reply.framing = "length" => Len(s) - (i + n) <= s[i + n].reply.len
    BY <1>2, <2>1, <2>2 DEF Fits
  <2>4. ASSUME NEW j \in 1..Len(t), i < j PROVE t[j].of = c /\ t[j].kind # "head"
    <3>1. j + n \in 1..Len(s) /\ t[j] = s[j + n]
      BY <1>1
    <3>2. i + n < j + n
      BY <2>4 DEF IsSuffix
    <3> QED
      BY <2>3, <3>1, <3>2
  <2>5. Len(s) - (i + n) = Len(t) - i
    BY DEF IsSuffix
  <2> QED
    BY <2>2, <2>3, <2>4, <2>5
<1>3. Headless(s) => Headless(t)
  BY <1>1 DEF Headless
<1>4. Rest(s, c) => Rest(t, c)
  BY <1>1 DEF Rest
<1> QED
  BY <1>2, <1>3, <1>4

LEMMA StreamUnits ==
    ASSUME NEW w \in Seq(Unit), NEW o \in Seq(Unit), NEW s
    PROVE  LET t == Together(w, o, s)
               more == s \in {"replying", "closing"}
           IN  /\ t \in Seq(Unit) /\ Len(t) \in Nat
               /\ Len(t) = Len(w) + (IF more THEN Len(o) ELSE 0)
               /\ \A k \in 1..Len(t) : t[k] \in Unit
               /\ \A k \in 1..Len(w) : t[k] = w[k]
               /\ more => \A k \in 1..Len(o) : t[Len(w) + k] = o[k]
<1> DEFINE more == s \in {"replying", "closing"}
           e == IF more THEN o ELSE <<>>
           t == w \o e
<1>1. e \in Seq(Unit) /\ Len(e) = (IF more THEN Len(o) ELSE 0) /\ Len(w) \in Nat /\ Len(o) \in Nat
  BY EmptySeq
<1>2. more => e = o
  OBVIOUS
<1>3. Together(w, o, s) = t
  BY DEF Together
<1> HIDE DEF e
<1>4. /\ t \in Seq(Unit) /\ Len(t) = Len(w) + Len(e)
      /\ \A k \in 1..(Len(w) + Len(e)) : t[k] = IF k <= Len(w) THEN w[k] ELSE e[k - Len(w)]
  BY <1>1, ConcatProperties
<1> HIDE DEF t
<1>5. \A k \in 1..Len(w) : t[k] = w[k]
  BY <1>1, <1>4, SMTT(30)
<1>6. ASSUME more PROVE \A k \in 1..Len(o) : t[Len(w) + k] = o[k]
  <2>1. \A k \in 1..Len(o) : Len(w) + k \in 1..(Len(w) + Len(e)) /\ ~(Len(w) + k <= Len(w))
                             /\ (Len(w) + k) - Len(w) = k
    BY <1>1, <1>6
  <2> QED
    BY <1>2, <1>4, <1>6, <2>1
<1>7. \A k \in 1..Len(t) : t[k] \in Unit
  BY <1>4
<1>8. Len(t) \in Nat
  BY <1>4
<1> HIDE DEF more
<1> QED
  BY <1>1, <1>3, <1>4, <1>5, <1>6, <1>7, <1>8 DEF more

-----------------------------------------------------------------------------
(* The server's steps. *)

LEMMA LateCarries ==
    ASSUME LateInv, TypeOK', (Replying => inbox # <<>>)', ClientSame,
           IsStart(Stream', Stream), Waiting' \in {Waiting, <<>>}
    PROVE  LateInv'
<1>1. \A i \in 1..Len(Stream) : Stream[i] \in Unit
  <2>1. wire \in Seq(Unit) /\ owed \in Seq(Unit)
    BY DEF LateInv, TypeOK, NetTypeOK
  <2> QED
    BY <2>1, StreamUnits DEF Stream
<1>2. PICK s, t : s = Stream /\ t = Stream'
  OBVIOUS
<1>3. /\ Headless(s) => Headless(t)
      /\ \A b : Found(b, cur, s) => Found(b, cur, t)
      /\ Fits(s, cur) => Fits(t, cur)
  BY <1>1, <1>2, StartKeeps
<1>4. /\ Headless(Stream) => Headless(Stream')
      /\ Found(resp.rbuf, cur, Stream) => Found(resp.rbuf, cur, Stream')
      /\ Fits(Stream, cur) => Fits(Stream', cur)
  BY <1>2, <1>3
<1>5. UNCHANGED <<cur, resp>>
  BY DEF ClientSame
<1>6. CurReq' = CurReq /\ UNCHANGED <<pc, cur, ksock, resp, remaining>>
  BY DEF CurReq, ClientSame
<1>7. /\ Headless(Stream') = Headless(Stream)'
      /\ Found(resp.rbuf', cur', Stream') = Found(resp.rbuf, cur, Stream)'
      /\ Fits(Stream', cur') = Fits(Stream, cur)'
  BY DEF Headless, Found, Rest, Answers, Blank, Fits
<1>8. /\ Headless(Stream) => Headless(Stream)'
      /\ Found(resp.rbuf, cur, Stream) => Found(resp.rbuf, cur, Stream)'
      /\ Fits(Stream, cur) => Fits(Stream, cur)'
  BY <1>4, <1>5, <1>7
<1> QED
  BY <1>6, <1>8 DEF LateInv

(* Unless it begins to answer, the server takes nothing back from what it   *)
(* was about to say, but the end of it.                                     *)
LEMMA LateServerOther ==
    ASSUME LateInv, SrvSend \/ SrvDone \/ SrvIdleClose \/ SrvCrash, ClientSame
    PROVE  LateInv'
<1>1. TypeOK /\ wire \in Seq(Unit) /\ owed \in Seq(Unit) /\ inbox \in Seq(Sent)
  BY DEF LateInv, TypeOK, NetTypeOK, Sent
<1>2. PICK s, t : s = Stream /\ t = Stream'
  OBVIOUS
<1>3. /\ Len(s) = Len(wire) + (IF Replying THEN Len(owed) ELSE 0)
      /\ Len(s) \in Nat /\ Len(wire) \in Nat /\ Len(owed) \in Nat
      /\ \A k \in 1..Len(wire) : s[k] = wire[k]
      /\ Replying => \A k \in 1..Len(owed) : s[Len(wire) + k] = owed[k]
  BY <1>1, <1>2, StreamUnits DEF Stream, Replying
<1>4. CASE SrvSend
  <2>1. /\ owed # <<>> /\ wire' = Append(wire, Head(owed)) /\ owed' = Tail(owed) /\ Replying
        /\ UNCHANGED <<fd, srv, inbox>>
    BY <1>4 DEF SrvSend
  <2>2. Head(owed) \in Unit /\ Head(owed) = owed[1] /\ Len(owed) \in Nat \ {0}
    BY <1>1, <2>1, HeadTailProperties
  <2>3. /\ owed' \in Seq(Unit) /\ Len(owed') = Len(owed) - 1
        /\ \A k \in 1..Len(owed') : owed'[k] = owed[k + 1]
    BY <1>1, <2>1, HeadTailProperties
  <2>4. /\ wire' \in Seq(Unit) /\ Len(wire') = Len(wire) + 1
        /\ \A k \in 1..Len(wire) : wire'[k] = wire[k]
        /\ wire'[Len(wire) + 1] = owed[1]
    BY <1>1, <2>1, <2>2, AppendProperties
  <2>5. /\ Len(t) = Len(wire') + Len(owed') /\ Len(t) \in Nat
        /\ \A k \in 1..Len(wire') : t[k] = wire'[k]
        /\ \A k \in 1..Len(owed') : t[Len(wire') + k] = owed'[k]
    <3>1. srv' \in {"replying", "closing"}
      BY <2>1 DEF Replying
    <3>2. t = Together(wire', owed', srv')
      BY <1>2 DEF Stream
    <3>3. wire' \in Seq(Unit) /\ owed' \in Seq(Unit)
      BY <2>3, <2>4
    <3> QED
      BY <3>1, <3>2, <3>3, StreamUnits
  <2>6. Len(t) = Len(s)
    BY <1>3, <2>1, <2>2, <2>3, <2>4, <2>5
  <2>7. ASSUME NEW k \in 1..Len(t) PROVE t[k] = s[k]
    <3>1. CASE k \in 1..Len(wire)
      <4>1. k \in 1..Len(wire')
        BY <1>3, <2>4, <3>1
      <4> QED
        BY <1>3, <2>4, <2>5, <3>1, <4>1
    <3>2. CASE k = Len(wire) + 1
      <4>1. k \in 1..Len(wire') /\ 1 \in 1..Len(owed)
        BY <1>3, <2>2, <2>4, <3>2
      <4> QED
        BY <1>3, <2>1, <2>4, <2>5, <3>2, <4>1
    <3>3. CASE k > Len(wire) + 1
      <4>1. /\ k - Len(wire') \in 1..Len(owed') /\ Len(wire') + (k - Len(wire')) = k
            /\ (k - Len(wire')) + 1 \in 1..Len(owed)
            /\ Len(wire) + ((k - Len(wire')) + 1) = k
        BY <1>3, <2>2, <2>3, <2>4, <2>5, <3>3
      <4>2. t[k] = owed'[k - Len(wire')] /\ owed'[k - Len(wire')] = owed[(k - Len(wire')) + 1]
        BY <2>3, <2>5, <4>1
      <4>3. s[Len(wire) + ((k - Len(wire')) + 1)] = owed[(k - Len(wire')) + 1]
        BY <1>3, <2>1, <4>1
      <4> QED
        BY <4>1, <4>2, <4>3
    <3> QED
      BY <1>3, <2>5, <3>1, <3>2, <3>3
  <2>8. IsStart(t, s)
    BY <1>3, <2>6, <2>7 DEF IsStart
  <2>9. TypeOK'
    BY <1>1, <2>1, <2>3, <2>4 DEF TypeOK, NetTypeOK, ClientSame
  <2>10. Waiting' = Waiting /\ (Replying => inbox # <<>>)'
    BY <2>1 DEF Waiting, Replying, LateInv
  <2> QED
    BY <1>2, <2>8, <2>9, <2>10, LateCarries
<1>5. CASE SrvDone \/ SrvIdleClose \/ SrvCrash
  <2>1. /\ UNCHANGED <<fd, owed, wire>>
        /\ srv' \in {"idle", "closed", "reset"} /\ srv # srv'
        /\ \/ inbox' = inbox /\ srv' # "idle"
           \/ inbox' = <<>> /\ srv' # "idle"
           \/ inbox' = Tail(inbox) /\ Replying
    BY <1>5 DEF SrvDone, SrvIdleClose, SrvCrash, Replying
  <2>2. inbox' \in Seq(Sent)
    <3>1. Replying => Tail(inbox) \in Seq(Sent)
      BY <1>1, QueueTail DEF LateInv
    <3> QED
      BY <1>1, <2>1, <3>1, EmptySeq
  <2>3. TypeOK' /\ ~Replying'
    BY <1>1, <2>1, <2>2 DEF TypeOK, NetTypeOK, ClientSame, Sent, Replying
  <2>4. Waiting' \in {Waiting, <<>>}
    BY <2>1, <2>3 DEF Waiting
  <2>5. /\ Len(t) = Len(wire) /\ \A k \in 1..Len(wire) : t[k] = wire[k]
    <3>1. wire' \in Seq(Unit) /\ owed' \in Seq(Unit) /\ srv' \notin {"replying", "closing"}
      BY <1>1, <2>1
    <3>2. Len(t) = Len(wire') + 0 /\ \A k \in 1..Len(wire') : t[k] = wire'[k]
      BY <1>2, <3>1, StreamUnits DEF Stream
    <3> QED
      BY <1>3, <2>1, <3>2
  <2>6. IsStart(t, s)
    <3>1. Len(t) \in Nat /\ Len(t) <= Len(s)
      BY <1>3, <2>5
    <3> QED
      BY <1>3, <2>5, <3>1 DEF IsStart
  <2> QED
    BY <1>2, <2>3, <2>4, <2>6, LateCarries
<1> QED
  BY <1>4, <1>5

(* An answer is to the request that was sent last, and nothing but headless *)
(* leftovers stand before it.                                               *)
LEMMA LateReply ==
    ASSUME LateInv, SrvReply, ClientSame
    PROVE  LateInv'
<1>1. TypeOK /\ wire \in Seq(Unit) /\ owed \in Seq(Unit) /\ inbox \in Seq(Sent)
  BY DEF LateInv, TypeOK, NetTypeOK, Sent
<1>2. PICK p \in Reply : /\ owed' = UnitsOf(inbox[1], p)
                         /\ srv' \in {"closing", "replying"}
  BY DEF SrvReply
<1>3. srv = "idle" /\ inbox # <<>> /\ UNCHANGED <<fd, inbox, wire>>
  BY DEF SrvReply
<1>4. inbox[1] \in [id : Reqs, method : Methods]
  <2>1. inbox[1] \in Sent
    BY <1>1, <1>3, QueueTail
  <2> QED
    BY <2>1 DEF Sent
<1>5. /\ owed' \in Seq(Unit) /\ Starts(owed', p)
      /\ Len(owed') = IF inbox[1].method = "HEAD" THEN 1
                      ELSE 1 + p.len + (IF p.framing = "chunked" THEN 1 ELSE 0)
      /\ \A k \in 1..Len(owed') : owed'[k].of = inbox[1].id
      /\ \A k \in 2..Len(owed') : owed'[k].kind = IF k <= 1 + p.len THEN "body" ELSE "last"
  <2>1. LET s == UnitsOf(inbox[1], p)
        IN  /\ s \in Seq(Unit) /\ Starts(s, p)
            /\ Len(s) = IF inbox[1].method = "HEAD" THEN 1
                        ELSE 1 + p.len + (IF p.framing = "chunked" THEN 1 ELSE 0)
            /\ \A k \in 1..Len(s) : s[k].of = inbox[1].id
            /\ \A k \in 2..Len(s) : s[k].kind = IF k <= 1 + p.len THEN "body" ELSE "last"
    BY <1>4, UnitsOfAnswer
  <2> QED
    BY <1>2, <2>1
<1>6. TypeOK' /\ (Replying => inbox # <<>>)'
  BY <1>1, <1>2, <1>3, <1>5 DEF TypeOK, NetTypeOK, ClientSame
<1>7. Waiting = inbox /\ Waiting # <<>> /\ Waiting' = Tail(inbox) /\ ~Replying
  BY <1>2, <1>3 DEF Waiting, Replying
<1>8. /\ ~(pc = "send" \/ (pc \in {"next", "begin"} /\ ~ksock.reopen))
      /\ ~(pc \in Loops \cup {"end"} /\ resp.keepalive)
      /\ pc \notin {"load", "drain"}
  BY <1>7 DEF LateInv, Loops
<1>9. ASSUME pc = "recv" PROVE (Fits(Stream, cur) /\ Waiting = <<>>)'
  <2>1. inbox = <<CurReq>> /\ Headless(Stream)
    BY <1>7, <1>9 DEF LateInv
  <2>2. inbox[1].id = cur /\ Waiting' = <<>>
    <3>1. Len(inbox) = 1 /\ inbox[1] = CurReq
      BY <2>1
    <3> QED
      BY <1>1, <1>3, <1>7, <3>1, QueueTail DEF CurReq
  <2>3. PICK w, o, t : w = wire /\ o = owed' /\ t = Stream'
    OBVIOUS
  <2>4. \A k \in 1..Len(w) : w[k].kind # "head"
    <3>1. \A k \in 1..Len(w) : k \in 1..Len(Stream) /\ Stream[k] = w[k]
      BY <1>1, <1>3, <2>3, StreamUnits, SMTT(30) DEF Stream
    <3> QED
      BY <2>1, <3>1 DEF Headless
  <2>5. /\ Len(t) = Len(w) + Len(o) /\ Len(w) \in Nat /\ Len(o) \in Nat
        /\ \A k \in 1..Len(w) : t[k] = w[k]
        /\ \A k \in 1..Len(o) : t[Len(w) + k] = o[k]
    <3>1. w \in Seq(Unit) /\ o \in Seq(Unit) /\ srv' \in {"replying", "closing"}
      BY <1>1, <1>2, <1>5, <2>3
    <3>2. PICK r : r = srv'
      OBVIOUS
    <3>3. t = Together(w, o, r) /\ r \in {"replying", "closing"}
      BY <1>3, <2>3, <3>1, <3>2 DEF Stream
    <3> QED
      BY <3>1, <3>3, StreamUnits
  <2>6. \A k \in 1..Len(o) : o[k].of = cur /\ (k # 1 => o[k].kind # "head")
    <3>1. \A k \in 1..Len(o) : k # 1 => k \in 2..Len(o)
      BY <2>5
    <3>2. \A k \in 2..Len(o) : o[k].kind \in {"body", "last"}
      BY <1>5, <2>3
    <3> QED
      BY <1>5, <2>2, <2>3, <3>1, <3>2
  <2>7. o[1].reply = p /\ p.len \in Nat
    BY <1>5, <2>3, NetworkAssumption DEF Starts, Reply
  <2>8. ASSUME NEW i \in 1..Len(t), t[i].kind = "head"
        PROVE  /\ t[i].of = cur
               /\ \A j \in 1..Len(t) : i < j => t[j].of = cur /\ t[j].kind # "head"
               /\ t[i].reply.framing = "length" => Len(t) - i <= t[i].reply.len
    <3>1. i = Len(w) + 1 /\ 1 \in 1..Len(o)
      <4>1. i \notin 1..Len(w)
        BY <2>4, <2>5, <2>8
      <4>2. i - Len(w) \in 1..Len(o) /\ Len(w) + (i - Len(w)) = i
        BY <2>5, <4>1
      <4>3. t[i] = o[i - Len(w)]
        BY <2>5, <4>2
      <4>4. i - Len(w) = 1
        BY <2>6, <2>8, <4>2, <4>3
      <4> QED
        BY <2>5, <4>2, <4>4
    <3>2. t[i] = o[1] /\ t[i].of = cur
      BY <2>5, <2>6, <3>1
    <3>3. ASSUME NEW j \in 1..Len(t), i < j PROVE t[j].of = cur /\ t[j].kind # "head"
      <4>1. j - Len(w) \in 1..Len(o) /\ Len(w) + (j - Len(w)) = j /\ j - Len(w) # 1
        BY <2>5, <3>1, <3>3
      <4>2. t[j] = o[j - Len(w)]
        BY <2>5, <4>1
      <4> QED
        BY <2>6, <4>1, <4>2
    <3>4. ASSUME t[i].reply.framing = "length" PROVE Len(t) - i <= t[i].reply.len
      <4>1. p.framing = "length" /\ t[i].reply = p
        BY <2>7, <3>2, <3>4
      <4>2. Len(o) <= 1 + p.len
        <5>1. Len(o) \in {1, 1 + p.len}
          <6>1. Len(o) = IF inbox[1].method = "HEAD" THEN 1
                         ELSE 1 + p.len + (IF p.framing = "chunked" THEN 1 ELSE 0)
            BY <1>5, <2>3
          <6>2. 1 + p.len + 0 = 1 + p.len
            BY <2>7
          <6> QED
            BY <4>1, <6>1, <6>2
        <5>2. p.len \in Nat
          BY <2>7
        <5>3. \A l \in Nat : 1 <= 1 + l /\ 1 + l <= 1 + l
          OBVIOUS
        <5>4. 1 <= 1 + p.len /\ 1 + p.len <= 1 + p.len
          BY <5>2, <5>3
        <5> QED
          BY <5>1, <5>4
      <4>3. Len(t) - i = Len(o) - 1
        BY <2>5, <3>1
      <4>4. Len(o) - 1 <= p.len
        BY <2>5, <2>7, <4>2
      <4> QED
        BY <4>1, <4>3, <4>4
    <3> QED
      BY <3>2, <3>3, <3>4
  <2>9. Fits(t, cur)
    BY <2>8 DEF Fits
  <2> QED
    BY <2>2, <2>3, <2>9 DEF Fits, ClientSame
<1> QED
  BY <1>6, <1>8, <1>9 DEF LateInv, ClientSame, Loops

-----------------------------------------------------------------------------
(* The client's steps around the reads. *)

LEMMA LateType ==
    ASSUME LateInv
    PROVE  /\ TypeOK /\ wire \in Seq(Unit) /\ owed \in Seq(Unit) /\ inbox \in Seq(Sent)
           /\ cur \in Reqs /\ req \in Request /\ KsockType /\ leaked \in Nat /\ remaining \in Int
           /\ resp.rbuf \in Seq(Unit \cup {Junk}) /\ resp.keepalive \in BOOLEAN
           /\ resp = [keepalive |-> resp.keepalive, rbuf |-> resp.rbuf]
  BY DEF LateInv, TypeOK, NetTypeOK, KsockType, Sent

(* A connection that holds nothing. *)
LEMMA NothingComes ==
    ASSUME NEW w, NEW o, NEW s, w = <<>>, s \notin {"replying", "closing"}, NEW c
    PROVE  LET t == Together(w, o, s) IN Headless(t) /\ Rest(t, c) /\ Fits(t, c) /\ Len(t) = 0
<1>1. Together(w, o, s) = <<>>
  BY EmptySeq DEF Together
<1>2. 1..Len(<<>>) = {}
  OBVIOUS
<1> QED
  BY <1>1, <1>2 DEF Headless, Rest, Fits

LEMMA LateInit == Init => LateInv
<1> SUFFICES ASSUME Init PROVE LateInv
  OBVIOUS
<1>1. FramingInv
  BY FramingInit
<1>2. TypeOK /\ ~Replying
  BY <1>1 DEF FramingInv, Init, NetInit, Replying
<1> QED
  BY <1>2 DEF Init, NetInit, LateInv, Loops

LEMMA LateBegin ==
    ASSUME LateInv, NextUrl \/ BeginConn
    PROVE  LateInv'
<1> USE LateType
<1>0. UNCHANGED <<cur, resp, remaining>>
  BY DEF NextUrl, BeginConn, BeginReuse, BeginOpen, BeginRefused, BeginAgain
<1>1. CASE NextUrl \/ BeginReuse
  <2>1. UNCHANGED <<netVars, ksock, leaked>> /\ req' \in Request
        /\ \/ pc = "next" /\ pc' = "begin"
           \/ pc = "begin" /\ pc' = "send" /\ ~ksock.reopen
    BY <1>1 DEF NextUrl, BeginReuse, MustOpen
  <2>2. TypeOK'
    BY <1>0, <2>1 DEF TypeOK, NetTypeOK, netVars
  <2>3. UNCHANGED <<Stream, Waiting, Replying, inbox>>
    BY <2>1 DEF netVars, Stream, Waiting, Replying
  <2> QED
    BY <2>1, <2>2, <2>3 DEF LateInv, Loops, Headless
<1>2. CASE BeginOpen
  <2>1. /\ srv' = "idle" /\ inbox' = <<>> /\ owed' = <<>> /\ wire' = <<>> /\ fd' = "open"
        /\ pc' = "send" /\ req' = req
    BY <1>2 DEF BeginOpen, OpenSocket
  <2>2. KsockType' /\ leaked' \in Nat
    <3>1. KsockType'
      BY <1>2 DEF BeginOpen, KsockType
    <3>2. Abandoned \in Nat /\ leaked' = leaked + Abandoned
      BY <1>2 DEF BeginOpen, Abandoned
    <3> QED
      BY <3>1, <3>2
  <2>3. NetTypeOK'
    BY <2>1, EmptySeq DEF NetTypeOK
  <2>4. TypeOK'
    BY <1>0, <2>1, <2>2, <2>3 DEF TypeOK, KsockType
  <2>5. Waiting' = <<>> /\ ~Replying'
    BY <2>1 DEF Waiting, Replying
  <2>6. Headless(Stream)'
    BY <2>1, NothingComes DEF Stream, Headless
  <2> QED
    BY <2>1, <2>4, <2>5, <2>6 DEF LateInv, Loops
<1>3. CASE BeginRefused \/ BeginAgain
  <2>1. /\ fd' = "none" /\ UNCHANGED <<srv, inbox, owed, wire, req>>
        /\ pc' \in {"failed", "begin"}
    BY <1>3 DEF BeginRefused, BeginAgain
  <2>2. KsockType' /\ ksock'.reopen /\ leaked' \in Nat
    <3>1. KsockType' /\ ksock'.reopen
      BY <1>3 DEF BeginRefused, BeginAgain, KsockType
    <3>2. Abandoned \in Nat /\ leaked' \in {leaked + Abandoned, leaked + Abandoned + 1}
      BY <1>3 DEF BeginRefused, BeginAgain, Abandoned
    <3> QED
      BY <3>1, <3>2
  <2>3. TypeOK'
    BY <1>0, <2>1, <2>2 DEF TypeOK, NetTypeOK, KsockType
  <2>4. (Replying => inbox # <<>>)'
    BY <2>1 DEF Replying, LateInv
  <2> QED
    BY <2>1, <2>2, <2>3, <2>4 DEF LateInv, Loops
<1> QED
  BY <1>1, <1>2, <1>3 DEF BeginConn

LEMMA LateSend ==
    ASSUME LateInv, SendReq \/ SendFails
    PROVE  LateInv'
<1> USE LateType
<1>1. /\ Headless(Stream) /\ Waiting = <<>>
      /\ UNCHANGED <<fd, srv, owed, wire, cur, req, resp, remaining, leaked>>
  BY DEF SendReq, SendFails, WriteSocket, netVars, LateInv
<1>2. KsockType' /\ ksock'.method = req.method
  BY DEF SendReq, SendFails, KsockType, Request
<1>3. CASE SendReq
  <2> DEFINE q == [id |-> cur, method |-> req.method]
  <2>1. /\ pc' = "recv" /\ srv # "reset"
        /\ inbox' = IF srv = "closed" THEN <<>> ELSE Append(inbox, q)
    BY <1>3 DEF SendReq, WriteSocket, WriteOK
  <2>2. q \in Sent /\ q = CurReq'
    BY <1>1, <1>2 DEF Sent, Request, CurReq
  <2> HIDE DEF q
  <2>3. /\ Append(inbox, q) \in Seq(Sent)
        /\ Len(Append(inbox, q)) = Len(inbox) + 1 /\ Len(inbox) \in Nat
        /\ Append(inbox, q)[Len(inbox) + 1] = q
    BY <2>2, AppendProperties
  <2>4. inbox' \in Seq(Sent)
    BY <2>1, <2>3, EmptySeq
  <2>5. TypeOK'
    BY <1>1, <1>2, <2>1, <2>4 DEF TypeOK, NetTypeOK, KsockType, Sent
  <2>6. Waiting' \in {<<>>, <<CurReq'>>} /\ (Replying => inbox # <<>>)'
    <3>1. CASE srv = "closed"
      BY <1>1, <2>1, <3>1 DEF Waiting, Replying
    <3>2. CASE srv = "idle"
      <4>1. inbox = <<>>
        BY <1>1, <3>2 DEF Waiting, Replying
      <4>2. inbox' = <<q>>
        BY <2>1, <3>2, <4>1
      <4> QED
        BY <1>1, <2>2, <3>2, <4>2 DEF Waiting, Replying
    <3>3. CASE Replying
      <4>1. inbox # <<>> /\ Tail(inbox) = <<>> /\ Replying' /\ srv # "closed"
        BY <1>1, <3>3 DEF Waiting, Replying, LateInv
      <4>2. Len(inbox) = 1
        <5>1. /\ Tail(inbox) \in Seq(Sent) /\ Len(Tail(inbox)) = Len(inbox) - 1
              /\ Len(inbox) \in Nat
          BY <4>1, HeadTailProperties
        <5>2. Len(Tail(inbox)) = 0
          BY <4>1, <5>1, EmptySeq
        <5>3. PICK x, y : x = Len(inbox) /\ y = Len(Tail(inbox))
          OBVIOUS
        <5>4. y = x - 1 /\ x \in Nat /\ y = 0
          BY <5>1, <5>2, <5>3
        <5>5. x = 1
          BY <5>4
        <5> QED
          BY <5>3, <5>5
      <4>3. inbox' \in Seq(Sent) /\ Len(inbox') = 2 /\ inbox'[2] = q
        BY <2>1, <2>3, <4>1, <4>2
      <4>4. inbox' # <<>>
        <5>1. PICK n : n = Len(inbox')
          OBVIOUS
        <5>2. n = 2 /\ (inbox' = <<>> => n = 0)
          BY <4>3, <5>1, EmptySeq
        <5> QED
          BY <5>2
      <4>5. Tail(inbox') = <<q>>
        BY <4>3, <4>4, QueueTail
      <4> QED
        BY <2>2, <4>1, <4>4, <4>5 DEF Waiting
    <3> QED
      BY <2>1, <3>1, <3>2, <3>3 DEF TypeOK, NetTypeOK, Replying
  <2>7. (Headless(Stream) /\ Fits(Stream, cur))'
    BY <1>1 DEF Stream, Headless, Fits
  <2> QED
    BY <2>1, <2>5, <2>6, <2>7 DEF LateInv, Loops
<1>4. CASE SendFails
  <2>1. pc' = "failed" /\ inbox' = inbox
    BY <1>4 DEF SendFails, netVars
  <2>2. TypeOK'
    BY <1>1, <1>2, <2>1 DEF TypeOK, NetTypeOK, KsockType
  <2> QED
    BY <1>1, <2>1, <2>2 DEF LateInv, Loops, Replying
<1> QED
  BY <1>3, <1>4

(* What end_conn keeps has no header left on it. *)
LEMMA LateEnd ==
    ASSUME LateInv, EndConn
    PROVE  LateInv'
<1> USE LateType
<1>1. /\ pc = "end" /\ pc' \in {"next", "done"} /\ resp' = NoResp /\ remaining' = 0
      /\ UNCHANGED <<req, leaked>>
      /\ cur' = IF cur < NumReqs THEN cur + 1 ELSE cur
      /\ IF resp.keepalive THEN UNCHANGED <<netVars, ksock>> ELSE CloseSocket /\ ksock' = Closed
  BY DEF EndConn, MoreRequests
<1>2. cur' \in Reqs
  BY <1>1, NetworkAssumption DEF Reqs
<1>3. NoResp \in [keepalive : BOOLEAN, rbuf : Seq(Unit \cup {Junk})]
  BY EmptySeq DEF NoResp
<1>4. CASE resp.keepalive
  <2>1. TypeOK'
    BY <1>1, <1>2, <1>3, <1>4 DEF TypeOK, NetTypeOK, netVars
  <2>2. UNCHANGED <<Stream, Waiting, Replying, inbox>>
    BY <1>1, <1>4 DEF netVars, Stream, Waiting, Replying
  <2>3. Headless(Stream) /\ Waiting = <<>>
    BY <1>1, <1>4 DEF LateInv, Found, Rest, Headless
  <2>4. Headless(Stream)'
    BY <2>2, <2>3 DEF Headless
  <2> QED
    BY <1>1, <2>1, <2>2, <2>3, <2>4 DEF LateInv, Loops
<1>5. CASE ~resp.keepalive
  <2>1. /\ srv' = "closed" /\ inbox' = <<>> /\ owed' = <<>> /\ wire' = <<>> /\ fd' = "closed"
    BY <1>1, <1>5 DEF CloseSocket
  <2>2. KsockType' /\ ksock'.reopen
    BY <1>1, <1>5 DEF Closed, KsockType
  <2>3. NetTypeOK'
    BY <2>1, EmptySeq DEF NetTypeOK
  <2>4. TypeOK'
    BY <1>1, <1>2, <1>3, <2>2, <2>3 DEF TypeOK, KsockType
  <2>5. ~Replying'
    BY <2>1 DEF Replying
  <2> QED
    BY <1>1, <2>2, <2>4, <2>5 DEF LateInv, Loops
<1> QED
  BY <1>4, <1>5

-----------------------------------------------------------------------------
(* The reads. *)

LEMMA LateRead ==
    ASSUME LateInv, NEW limit \in Nat \ {0}, NEW res \in ReadResults(limit), ReadSocket(res)
    PROVE  /\ res.n \in Nat /\ res.n <= limit /\ NetTypeOK'
           /\ (Replying => inbox # <<>>)' /\ Waiting' = Waiting
           /\ ReadData(res) \in Seq(Unit)
           /\ IF res.st = "SUCCESS"
              THEN /\ IsSuffix(Stream', Stream, res.n) /\ res.n \in 1..Len(Stream)
                   /\ Len(ReadData(res)) = res.n
                   /\ \A k \in 1..res.n : ReadData(res)[k] = Stream[k]
              ELSE wire' = <<>> /\ Stream' = Stream /\ Len(ReadData(res)) = 0
           /\ res.st = "EOF" => srv' = "closed"
<1> USE LateType
<1>1. /\ UNCHANGED <<fd, inbox, owed>> /\ res.n \in Nat
      /\ \/ /\ res.st = "SUCCESS" /\ res.n \in 1..Len(wire) /\ res.n <= limit
            /\ srv' = srv /\ wire # <<>>
            /\ ReadData(res) \in Seq(Unit) /\ Len(ReadData(res)) = res.n
            /\ \A k \in 1..res.n : ReadData(res)[k] = wire[k]
            /\ wire' \in Seq(Unit) /\ Len(wire') = Len(wire) - res.n
            /\ \A k \in 1..Len(wire') : wire'[k] = wire[k + res.n]
         \/ /\ res.st # "SUCCESS" /\ ReadData(res) = <<>>
            /\ wire = <<>> /\ wire' = <<>>
            /\ \/ res.st = "EOF" /\ srv = "closed" /\ srv' = "closed" /\ res.n = 0
               \/ res.st = "ECONNRESET" /\ srv = "reset" /\ srv' = "closed" /\ res.n = 0
               \/ /\ res.st = "TIMEUP" /\ srv \notin {"closed", "reset"} /\ srv' = srv
                  /\ res.n = limit /\ ("stall" \in Faults \/ Quiet)
  BY ReadEffect
<1>2. Waiting' = Waiting /\ (Replying => inbox # <<>>)' /\ Replying' = Replying
  BY <1>1 DEF Waiting, Replying, LateInv
<1>3. CASE res.st = "SUCCESS"
  <2>1. NetTypeOK'
    BY <1>1, <1>3 DEF NetTypeOK, TypeOK
  <2>2. PICK s, t, w, v, o, n : s = Stream /\ t = Stream' /\ w = wire /\ v = wire' /\ o = owed
                                /\ n = res.n
    OBVIOUS
  <2>3. /\ w \in Seq(Unit) /\ v \in Seq(Unit) /\ o \in Seq(Unit) /\ n \in 1..Len(w)
        /\ Len(w) \in Nat /\ Len(v) = Len(w) - n
        /\ \A k \in 1..Len(v) : v[k] = w[k + n]
    BY <1>1, <1>3, <2>2
  <2>4. s = Together(w, o, srv) /\ t = Together(v, o, srv)
    BY <1>1, <1>3, <2>2 DEF Stream
  <2>5. PICK x : x = (IF Replying THEN Len(o) ELSE 0)
    OBVIOUS
  <2>6. /\ Len(s) = Len(w) + x /\ Len(s) \in Nat
        /\ \A k \in 1..Len(w) : s[k] = w[k]
        /\ Replying => \A k \in 1..Len(o) : s[Len(w) + k] = o[k]
    <3>1. w \in Seq(Unit) /\ o \in Seq(Unit)
      BY <2>3
    <3>2. s = Together(w, o, srv)
      BY <2>4
    <3>3. /\ Len(s) = Len(w) + (IF Replying THEN Len(o) ELSE 0) /\ Len(s) \in Nat
          /\ \A k \in 1..Len(w) : s[k] = w[k]
          /\ Replying => \A k \in 1..Len(o) : s[Len(w) + k] = o[k]
      BY <3>1, <3>2, StreamUnits DEF Replying
    <3> QED
      BY <2>5, <3>3
  <2>7. /\ Len(t) = Len(v) + x /\ Len(t) \in Nat
        /\ \A k \in 1..Len(v) : t[k] = v[k]
        /\ Replying => \A k \in 1..Len(o) : t[Len(v) + k] = o[k]
    <3>1. v \in Seq(Unit) /\ o \in Seq(Unit)
      BY <2>3
    <3>2. t = Together(v, o, srv)
      BY <2>4
    <3>3. /\ Len(t) = Len(v) + (IF Replying THEN Len(o) ELSE 0) /\ Len(t) \in Nat
          /\ \A k \in 1..Len(v) : t[k] = v[k]
          /\ Replying => \A k \in 1..Len(o) : t[Len(v) + k] = o[k]
      BY <3>1, <3>2, StreamUnits DEF Replying
    <3> QED
      BY <2>5, <3>3
  <2>8. x \in Nat /\ Len(v) \in Nat /\ n \in Nat
    BY <2>3, <2>5
  <2>9. ASSUME NEW k \in 1..Len(t) PROVE t[k] = s[k + n]
    <3>1. CASE k \in 1..Len(v)
      <4>1. k + n \in 1..Len(w)
        BY <2>3, <2>8, <3>1, SMTT(30)
      <4> QED
        BY <2>3, <2>6, <2>7, <3>1, <4>1
    <3>2. CASE k \notin 1..Len(v)
      <4>1. k - Len(v) \in 1..x
        BY <2>7, <2>8, <3>2
      <4>2. Replying /\ x = Len(o)
        BY <2>5, <2>8, <4>1
      <4>3. Len(v) + (k - Len(v)) = k /\ Len(w) + (k - Len(v)) = k + n
        BY <2>3, <2>8
      <4>4. t[k] = o[k - Len(v)]
        BY <2>7, <4>1, <4>2, <4>3
      <4>5. s[k + n] = o[k - Len(v)]
        BY <2>6, <4>1, <4>2, <4>3
      <4> QED
        BY <4>4, <4>5
    <3> QED
      BY <3>1, <3>2
  <2>10. Len(t) = Len(s) - n
    <3>1. PICK a, b, c, d : a = Len(s) /\ b = Len(t) /\ c = Len(w) /\ d = Len(v)
      OBVIOUS
    <3>2. a = c + x /\ b = d + x /\ d = c - n /\ c \in Nat /\ d \in Nat /\ x \in Nat /\ n \in Nat
      BY <2>3, <2>6, <2>7, <2>8, <3>1
    <3>3. b = a - n
      BY <3>2
    <3> QED
      BY <3>1, <3>3
  <2>11. IsSuffix(t, s, n)
    BY <2>6, <2>7, <2>8, <2>9, <2>10 DEF IsSuffix
  <2>12. n \in 1..Len(s) /\ \A k \in 1..n : k \in 1..Len(w)
    BY <2>3, <2>6, <2>8, SMTT(30)
  <2>13. \A k \in 1..n : ReadData(res)[k] = s[k]
    BY <1>1, <1>3, <2>2, <2>6, <2>12
  <2> QED
    BY <1>1, <1>2, <1>3, <2>1, <2>2, <2>11, <2>12, <2>13
<1>4. CASE res.st # "SUCCESS"
  <2>1. NetTypeOK'
    BY <1>1, <1>4, EmptySeq DEF NetTypeOK, TypeOK
  <2>2. ReadData(res) \in Seq(Unit) /\ Len(ReadData(res)) = 0
    BY <1>1, <1>4, EmptySeq
  <2>3. Stream' = Stream
    BY <1>1, <1>2, <1>4 DEF Stream, Together, Replying
  <2>4. res.n <= limit
    BY <1>1, <1>4
  <2> QED
    BY <1>1, <1>2, <1>4, <2>1, <2>2, <2>3, <2>4
<1> QED
  BY <1>3, <1>4

(* A read leaves the rest of the answer, and brings a part of it.           *)
LEMMA LateRest ==
    ASSUME LateInv, NEW limit \in Nat \ {0}, NEW res \in ReadResults(limit), ReadSocket(res),
           cur' = cur, Rest(Stream, cur)
    PROVE  /\ Rest(Stream, cur)'
           /\ \A k \in 1..Len(ReadData(res)) :
                 ReadData(res)[k].of = cur /\ ReadData(res)[k].kind # "head"
           /\ Len(Stream) = 0 => Len(Stream') = 0 /\ Len(ReadData(res)) = 0
<1>1. PICK s, t, data, n : s = Stream /\ t = Stream' /\ data = ReadData(res) /\ n = res.n
  OBVIOUS
<1>2. IF res.st = "SUCCESS"
      THEN /\ IsSuffix(t, s, n) /\ n \in 1..Len(s) /\ Len(data) = n
           /\ \A k \in 1..n : data[k] = s[k]
      ELSE t = s /\ Len(data) = 0
  BY <1>1, LateRead
<1>3. Rest(s, cur)
  BY <1>1
<1>4. Rest(t, cur)
  BY <1>2, <1>3, SuffixKeeps
<1>5. Len(s) \in Nat => \A k \in 1..Len(data) : data[k].of = cur /\ data[k].kind # "head"
  BY <1>2, <1>3 DEF Rest
<1>6. Len(s) \in Nat
  BY <1>1, LateType, StreamUnits DEF Stream
<1>7. Rest(Stream, cur)' = Rest(Stream', cur')
  BY DEF Rest
<1>8. Len(s) = 0 => Len(t) = 0 /\ Len(data) = 0
  BY <1>2, <1>6
<1> QED
  BY <1>1, <1>4, <1>5, <1>6, <1>7, <1>8

(* Nothing but the rest of the answer, or junk, comes behind what was read. *)
LEMMA FoundGrows ==
    ASSUME NEW b \in Seq(Unit \cup {Junk}), NEW x \in Seq(Unit \cup {Junk}), NEW c
    PROVE  /\ /\ Answers(b, c)
              /\ \A k \in 1..Len(x) : x[k] = Junk \/ (x[k].of = c /\ x[k].kind # "head")
              => Answers(b \o x, c)
           /\ Blank(b) /\ Blank(x) => Blank(b \o x)
<1>1. PICK y, m, n : y = b \o x /\ m = Len(b) /\ n = Len(x)
  OBVIOUS
<1>2. /\ m \in Nat /\ n \in Nat /\ Len(y) = m + n
      /\ \A k \in 1..(m + n) : y[k] = IF k <= m THEN b[k] ELSE x[k - m]
  BY <1>1, ConcatProperties
<1>3. /\ \A k \in 1..m : k \in 1..(m + n) /\ y[k] = b[k]
      /\ \A k \in 1..(m + n) : k \in 1..m \/ (k - m \in 1..n /\ y[k] = x[k - m])
  BY <1>2
<1>4. ASSUME Answers(b, c),
             \A k \in 1..n : x[k] = Junk \/ (x[k].of = c /\ x[k].kind # "head")
      PROVE  Answers(y, c)
  <2>1. PICK h \in 1..m :
           /\ b[h].kind = "head" /\ b[h].of = c
           /\ \A k \in 1..m : h < k => b[k] = Junk \/ (b[k].of = c /\ b[k].kind # "head")
    BY <1>1, <1>4 DEF Answers
  <2>2. h \in 1..(m + n) /\ y[h] = b[h]
    BY <1>3
  <2>3. \A k \in 1..(m + n) : h < k => y[k] = Junk \/ (y[k].of = c /\ y[k].kind # "head")
    BY <1>3, <1>4, <2>1
  <2> QED
    BY <1>2, <2>1, <2>2, <2>3 DEF Answers
<1>5. ASSUME Blank(b), Blank(x) PROVE Blank(y)
  BY <1>1, <1>2, <1>3, <1>5 DEF Blank
<1> QED
  BY <1>1, <1>4, <1>5

LEMMA JunkSeq ==
    ASSUME NEW n \in Nat
    PROVE  LET junk == [k \in 1..n |-> Junk]
           IN  junk \in Seq(Unit \cup {Junk}) /\ Len(junk) = n /\ \A k \in 1..Len(junk) : junk[k] = Junk
<1> DEFINE junk == [k \in 1..n |-> Junk]
<1>1. junk \in [1..n -> Unit \cup {Junk}]
  OBVIOUS
<1> QED
  BY <1>1

LEMMA LoadedFound ==
    ASSUME resp \in Response, NEW res, res.n \in Nat, ReadData(res) \in Seq(Unit),
           \A k \in 1..Len(ReadData(res)) :
              ReadData(res)[k].of = cur /\ ReadData(res)[k].kind # "head",
           resp' = [resp EXCEPT !.rbuf = Loaded(res)]
    PROVE  /\ Answers(resp.rbuf, cur) => Answers(resp'.rbuf, cur)
           /\ Blank(resp.rbuf) /\ Len(ReadData(res)) = 0 => Blank(resp'.rbuf)
<1> DEFINE junk == [k \in 1..res.n |-> Junk]
           ext == IF res.st = "TIMEUP" THEN junk ELSE ReadData(res)
<1>1. junk \in Seq(Unit \cup {Junk}) /\ Len(junk) = res.n /\ \A k \in 1..Len(junk) : junk[k] = Junk
  BY JunkSeq
<1>2. ReadData(res) \in Seq(Unit \cup {Junk})
  BY SeqWidens
<1> HIDE DEF junk
<1>3. /\ ext \in Seq(Unit \cup {Junk})
      /\ \A k \in 1..Len(ext) : ext[k] = Junk \/ (ext[k].of = cur /\ ext[k].kind # "head")
  BY <1>1, <1>2
<1>4. Len(ReadData(res)) = 0 => Blank(ext)
  <2>1. CASE res.st = "TIMEUP"
    BY <1>1, <2>1 DEF Blank
  <2>2. CASE res.st # "TIMEUP"
    <3>1. Len(ReadData(res)) = 0 => \A k \in 1..Len(ReadData(res)) : FALSE
      OBVIOUS
    <3> QED
      BY <2>2, <3>1 DEF Blank
  <2> QED
    BY <2>1, <2>2
<1>5. resp.rbuf \in Seq(Unit \cup {Junk}) /\ resp'.rbuf = resp.rbuf \o ext
  BY DEF Loaded, junk, Response
<1> HIDE DEF ext
<1> QED
  BY <1>3, <1>4, <1>5, FoundGrows

(* One turn of a read loop. *)
LEMMA LateLoop ==
    ASSUME LateInv, pc \in Loops, NEW limit \in Nat \ {0}, NEW res \in ReadResults(limit),
           ReadSocket(res), UNCHANGED <<cur, req, ksock, leaked>>, remaining' \in Int,
           resp' = resp \/ resp' = [resp EXCEPT !.rbuf = Loaded(res)],
           pc' \in Loops \cup {"end"},
           pc' \in {"load", "drain"} => pc \in {"load", "drain"} /\ remaining' > 0
    PROVE  LateInv'
<1> USE LateType
<1>1. /\ res.n \in Nat /\ NetTypeOK' /\ (Replying => inbox # <<>>)' /\ Waiting' = Waiting
      /\ ReadData(res) \in Seq(Unit)
  BY LateRead
<1>2. resp \in Response /\ resp' \in Response /\ resp'.keepalive = resp.keepalive
  <2>0. resp \in Response
    BY DEF TypeOK, Response
  <2>1. CASE resp' = resp
    BY <2>0, <2>1
  <2>2. CASE resp' = [resp EXCEPT !.rbuf = Loaded(res)]
    BY <1>1, <2>0, <2>2, LoadedOwn
  <2> QED
    BY <2>0, <2>1, <2>2
<1>3. TypeOK'
  BY <1>1, <1>2 DEF TypeOK, KsockType, Response, Loops
<1>4. ASSUME resp.keepalive PROVE (Found(resp.rbuf, cur, Stream) /\ Waiting = <<>>)'
  <2>1. Found(resp.rbuf, cur, Stream) /\ Waiting = <<>>
    BY <1>4 DEF LateInv
  <2>2. Rest(Stream, cur) /\ (Answers(resp.rbuf, cur) \/ (Blank(resp.rbuf) /\ Len(Stream) = 0))
    BY <2>1 DEF Found
  <2>3. /\ Rest(Stream, cur)'
        /\ \A k \in 1..Len(ReadData(res)) :
              ReadData(res)[k].of = cur /\ ReadData(res)[k].kind # "head"
        /\ Len(Stream) = 0 => Len(Stream') = 0 /\ Len(ReadData(res)) = 0
    BY <2>2, LateRest
  <2>4. /\ Answers(resp.rbuf, cur) => Answers(resp'.rbuf, cur)
        /\ Blank(resp.rbuf) /\ Len(ReadData(res)) = 0 => Blank(resp'.rbuf)
    <3>1. CASE resp' = resp
      BY <3>1
    <3>2. CASE resp' = [resp EXCEPT !.rbuf = Loaded(res)]
      BY <1>1, <1>2, <2>3, <3>2, LoadedFound
    <3> QED
      BY <3>1, <3>2
  <2>5. Answers(resp'.rbuf, cur) \/ (Blank(resp'.rbuf) /\ Len(Stream') = 0)
    BY <2>2, <2>3, <2>4
  <2>6. /\ Answers(resp'.rbuf, cur) = Answers(resp.rbuf, cur)'
        /\ Blank(resp'.rbuf) = Blank(resp.rbuf)'
    BY DEF Answers, Blank
  <2> QED
    BY <1>1, <2>1, <2>3, <2>5, <2>6 DEF Found
<1>5. pc' \in {"load", "drain"} => resp.keepalive /\ remaining' > 0
  BY DEF LateInv
<1> QED
  BY <1>1, <1>2, <1>3, <1>4, <1>5 DEF LateInv, Loops

LEMMA LateLoops ==
    ASSUME LateInv, ReadRest
    PROVE  LateInv'
<1> USE LateType
<1>1. BufUnits \in Nat \ {0}
  BY NetworkAssumption
<1>2. CASE LoadKnown \/ Drain
  <2>1. pc \in {"load", "drain"} /\ UNCHANGED <<cur, req, ksock, leaked>> /\ remaining > 0
    BY <1>2 DEF LoadKnown, Drain, LateInv
  <2>2. Limit \in Nat \ {0} /\ Limit <= remaining
    BY <1>1, <2>1 DEF Limit
  <2>3. PICK res \in ReadResults(Limit) :
          /\ ReadSocket(res)
          /\ resp' = [resp EXCEPT !.rbuf = Loaded(res)] \/ resp' = resp
          /\ remaining' = remaining - res.n
          /\ pc' = IF Stops(res.st) \/ remaining' = 0 THEN "end" ELSE pc
    BY <1>2, <2>1 DEF LoadKnown, Drain
  <2>4. res.n \in Nat /\ res.n <= Limit
    BY <2>2, <2>3, LateRead
  <2>5. remaining' \in Int /\ remaining' >= 0
    <3>1. PICK x, y, z, n : x = remaining' /\ y = remaining /\ z = Limit /\ n = res.n
      OBVIOUS
    <3>2. x = y - n /\ n <= z /\ z <= y /\ y \in Int /\ z \in Nat /\ n \in Nat
      BY <2>2, <2>3, <2>4, <3>1
    <3>3. x \in Int /\ x >= 0
      BY <3>2
    <3> QED
      BY <3>1, <3>3
  <2>6. /\ pc \in Loops /\ pc' \in Loops \cup {"end"}
        /\ pc' \in {"load", "drain"} => pc \in {"load", "drain"} /\ remaining' > 0
    BY <2>1, <2>3, <2>5 DEF Loops
  <2> QED
    BY <2>1, <2>2, <2>3, <2>5, <2>6, LateLoop
<1>3. CASE LoadAll \/ DrainAll \/ ReadChunk
  <2>1. /\ pc \in {"loadall", "drainall", "chunk"}
        /\ UNCHANGED <<cur, req, ksock, remaining, leaked>>
    BY <1>3 DEF LoadAll, DrainAll, ReadChunk
  <2>2. PICK res \in ReadResults(BufUnits) :
          /\ ReadSocket(res)
          /\ resp' = [resp EXCEPT !.rbuf = Loaded(res)] \/ resp' = resp
          /\ pc' \in {pc, "end"}
    BY <1>3, <2>1 DEF LoadAll, DrainAll, ReadChunk
  <2>3. /\ pc \in Loops /\ pc' \in Loops \cup {"end"} /\ pc' \notin {"load", "drain"}
        /\ remaining' \in Int
    BY <2>1, <2>2 DEF Loops
  <2> QED
    BY <1>1, <2>1, <2>2, <2>3, LateLoop
<1> QED
  BY <1>2, <1>3 DEF ReadRest

LEMMA LateNone ==
    ASSUME LateInv, RecvEof \/ RecvFails
    PROVE  LateInv'
<1> USE LateType
<1>1. /\ pc = "recv" /\ UNCHANGED <<cur, req, ksock, leaked>> /\ BufUnits \in Nat \ {0}
  BY NetworkAssumption DEF RecvEof, RecvFails
<1>2. CASE RecvFails
  <2>1. PICK res \in ReadResults(BufUnits) : ReadSocket(res)
    BY <1>2 DEF RecvFails
  <2>2. NetTypeOK' /\ (Replying => inbox # <<>>)'
    BY <1>1, <2>1, LateRead
  <2>3. pc' = "failed" /\ UNCHANGED <<resp, remaining>>
    BY <1>2 DEF RecvFails
  <2>4. TypeOK'
    BY <1>1, <2>2, <2>3 DEF TypeOK, KsockType
  <2> QED
    BY <2>2, <2>3, <2>4 DEF LateInv, Loops
<1>3. CASE RecvEof
  <2>1. PICK res \in ReadResults(BufUnits) : ReadSocket(res) /\ res.st = "EOF"
    BY <1>3 DEF RecvEof
  <2>2. NetTypeOK' /\ wire' = <<>> /\ srv' = "closed"
    BY <1>1, <2>1, LateRead
  <2>3. PICK k \in BOOLEAN : resp' = [keepalive |-> k, rbuf |-> <<>>]
    BY <1>3 DEF RecvEof
  <2>4. remaining' = 0 /\ pc' \in {"loadall", "end"}
    BY <1>3 DEF RecvEof
  <2>5. resp' \in Response /\ Blank(resp.rbuf)'
    BY <2>3, EmptySeq DEF Blank, Response
  <2>6. TypeOK'
    BY <1>1, <2>2, <2>4, <2>5 DEF TypeOK, KsockType, Response
  <2>7. Waiting' = <<>> /\ ~Replying'
    BY <2>2 DEF Waiting, Replying
  <2>8. (Rest(Stream, cur) /\ Len(Stream) = 0)'
    <3>1. PICK w, o, s, c : w = wire' /\ o = owed' /\ s = srv' /\ c = cur'
      OBVIOUS
    <3>2. w = <<>> /\ s \notin {"replying", "closing"}
      BY <2>2, <3>1
    <3>3. Rest(Together(w, o, s), c) /\ Len(Together(w, o, s)) = 0
      BY <3>2, NothingComes
    <3> QED
      BY <3>1, <3>3 DEF Stream, Rest
  <2> QED
    BY <2>4, <2>5, <2>6, <2>7, <2>8 DEF LateInv, Loops, Found
<1> QED
  BY <1>2, <1>3

(* The first read: a header is this request's, and what stands behind it is *)
(* no more than it promises; without a header nothing is kept.              *)
LEMMA ParsesKinds ==
    ASSUME NEW data \in Seq(Unit), NEW h \in Parses(data)
    PROVE  \/ h = NoHeader
           \/ /\ h.at \in 1..Len(data) /\ data[h.at].kind = "head"
              /\ h.reply = data[h.at].reply /\ h.reply \in Reply
<1>1. CASE h \in {NoHeader}
  BY <1>1
<1>2. CASE h \notin {NoHeader}
  <2>1. PICK k \in 1..Len(data) : h = [reply |-> data[k].reply, at |-> k] /\ data[k].kind = "head"
    BY <1>2 DEF Parses
  <2>2. data[k] \in Unit
    OBVIOUS
  <2>3. data[k].reply \in Reply
    BY <2>1, <2>2 DEF Unit
  <2> QED
    BY <2>1, <2>3
<1> QED
  BY <1>1, <1>2

LEMMA LateFirst ==
    ASSUME Methods \subseteq {"GET"}, LateInv, RecvFirst
    PROVE  LateInv'
<1> USE LateType
<1>1. /\ pc = "recv" /\ UNCHANGED <<cur, req, ksock, leaked>>
      /\ BufUnits \in Nat \ {0} /\ ksock.method # "HEAD"
  BY NetworkAssumption DEF RecvFirst, KsockType
<1>2. PICK res \in ReadResults(BufUnits) :
        /\ res.st = "SUCCESS" /\ ReadSocket(res)
        /\ \E h \in Parses(ReadData(res)) : Headers(h, ReadData(res))
  BY DEF RecvFirst
<1>3. PICK data, s, t, n : data = ReadData(res) /\ s = Stream /\ t = Stream' /\ n = res.n
  OBVIOUS
<1>4. /\ NetTypeOK' /\ (Replying => inbox # <<>>)' /\ Waiting' = Waiting
      /\ data \in Seq(Unit) /\ Len(data) = n /\ n \in 1..Len(s)
      /\ IsSuffix(t, s, n)
      /\ \A k \in 1..n : data[k] = s[k]
  BY <1>1, <1>2, <1>3, LateRead
<1>5. /\ Len(s) \in Nat /\ Len(t) \in Nat /\ Len(t) = Len(s) - n
      /\ \A k \in 1..Len(s) : s[k] \in Unit
      /\ Fits(s, cur) /\ (Waiting = <<>> \/ Headless(s))
  BY <1>1, <1>3, <1>4, StreamUnits DEF Stream, LateInv, IsSuffix
<1>6. PICK p \in Parses(data) : Headers(p, data)
  BY <1>2, <1>3
<1>7. \/ p = NoHeader
      \/ p.at \in 1..n /\ data[p.at].kind = "head" /\ p.reply = data[p.at].reply /\ p.reply \in Reply
  BY <1>4, ParsesKinds
<1>8. /\ p.reply.len \in Nat /\ p.reply.close \in BOOLEAN
      /\ p.reply.framing \in {"length", "chunked", "eof"} /\ p.at \in Int
  <2>1. CASE p.reply \in Reply /\ p.at \in 1..n
    <3>1. PICK r : r = p.reply
      OBVIOUS
    <3>2. /\ r.len \in Nat /\ r.close \in BOOLEAN /\ r.framing \in {"length", "chunked", "eof"}
      BY <2>1, <3>1, NetworkAssumption DEF Reply
    <3> QED
      BY <2>1, <3>1, <3>2
  <2>2. CASE p = NoHeader
    <3>1. p.reply = [framing |-> "eof", close |-> FALSE, len |-> 0] /\ p.at = 0
      BY <2>2 DEF NoHeader
    <3> QED
      BY <3>1
  <2> QED
    BY <1>7, <2>1, <2>2
<1> DEFINE left == BodyLeft(p, data)
           keep == Keeps(p)
<1>9. left \in Int /\ left = p.reply.len - (n - p.at) /\ keep \in BOOLEAN
  <2>1. Len(data) = n /\ n \in Nat /\ p.reply.len \in Nat
    BY <1>4, <1>8
  <2>2. left = p.reply.len - (n - p.at)
    BY <2>1 DEF BodyLeft
  <2>3. keep \in BOOLEAN
    BY <1>8 DEF Keeps
  <2>4. left \in Int
    BY <1>8, <2>1, <2>2
  <2> QED
    BY <2>2, <2>3, <2>4
<1>10. keep => p.reply.framing \in {"length", "chunked"} /\ p # NoHeader
  BY <1>1, <1>8 DEF Keeps, NoHeader
<1>11. /\ resp' = [keepalive |-> keep, rbuf |-> data]
       /\ remaining' = IF keep /\ p.reply.framing = "length" /\ ksock.method # "HEAD"
                       THEN left ELSE 0
       /\ pc' = IF ksock.method = "HEAD" THEN "end"
                ELSE IF ksock.want
                     THEN IF keep /\ p.reply.framing = "length" /\ left > 0
                          THEN "load" ELSE "loadall"
                ELSE IF p.reply.framing = "chunked" THEN "chunk"
                ELSE IF keep THEN (IF left = 0 THEN "end" ELSE "drain")
                ELSE "drainall"
  BY <1>6 DEF Headers
<1> HIDE DEF left, keep
<1>12. data \in Seq(Unit \cup {Junk})
  <2>1. data \in Seq(Unit)
    BY <1>4
  <2> QED
    BY <2>1, SeqWidens
<1>13. TypeOK' /\ pc' \in Loops \cup {"end"}
  BY <1>1, <1>4, <1>9, <1>11, <1>12 DEF TypeOK, KsockType, Loops
<1>14. ASSUME keep
       PROVE  /\ Waiting = <<>> /\ Rest(t, cur) /\ Answers(data, cur)
              /\ p.reply.framing = "length" => left >= 0
  <2>0. PICK h \in 1..n : h = p.at /\ data[h].kind = "head" /\ p.reply = data[h].reply
    BY <1>7, <1>10, <1>14
  <2>1. h \in 1..Len(s) /\ s[h] = data[h] /\ s[h].kind = "head"
    BY <1>4, <1>5, <2>0
  <2>2. /\ s[h].of = cur
        /\ \A j \in 1..Len(s) : h < j => s[j].of = cur /\ s[j].kind # "head"
        /\ p.reply.framing = "length" => Len(s) - h <= p.reply.len
    BY <1>5, <2>0, <2>1 DEF Fits
  <2>3. Waiting = <<>>
    BY <1>5, <2>1 DEF Headless
  <2>4. \A k \in 1..Len(t) : k + n \in 1..Len(s) /\ h < k + n /\ t[k] = s[k + n]
    <3>1. \A k \in 1..Len(t) : k + n \in 1..Len(s) /\ h < k + n
      BY <1>4, <1>5
    <3> QED
      BY <1>4, <3>1 DEF IsSuffix
  <2>5. Rest(t, cur)
    BY <2>2, <2>4 DEF Rest
  <2>6. \A k \in 1..n : k \in 1..Len(s) /\ data[k] = s[k]
    BY <1>4, <1>5
  <2>7. Answers(data, cur)
    <3>1. data[h].kind = "head" /\ data[h].of = cur
      BY <2>1, <2>2
    <3>2. \A k \in 1..n : h < k => data[k].of = cur /\ data[k].kind # "head"
      BY <2>2, <2>6
    <3> QED
      BY <1>4, <3>1, <3>2 DEF Answers
  <2>8. ASSUME p.reply.framing = "length" PROVE left >= 0
    <3>1. PICK x, l : x = Len(s) /\ l = p.reply.len
      OBVIOUS
    <3>2. x \in Nat /\ l \in Nat /\ n \in 1..x /\ h \in 1..n /\ x - h <= l /\ left = l - (n - h)
      BY <1>4, <1>5, <1>8, <1>9, <2>0, <2>2, <2>8, <3>1
    <3> QED
      BY <3>2
  <2> QED
    BY <2>3, <2>5, <2>7, <2>8
<1>15. ASSUME keep PROVE (Found(resp.rbuf, cur, Stream) /\ Waiting = <<>>)'
  <2>1. Rest(t, cur) /\ Waiting = <<>> /\ Answers(data, cur)
    BY <1>14, <1>15
  <2>2. resp'.rbuf = data /\ cur' = cur
    BY <1>1, <1>11
  <2>3. Found(resp'.rbuf, cur', Stream')
    BY <1>3, <2>1, <2>2 DEF Found
  <2>4. Found(resp'.rbuf, cur', Stream') = Found(resp.rbuf, cur, Stream)'
    BY DEF Found, Rest, Answers, Blank
  <2> QED
    BY <1>4, <2>1, <2>3, <2>4
<1>16. pc' \in {"load", "drain"} => keep /\ remaining' > 0
  <2>1. CASE pc' = "load"
    BY <1>1, <1>11, <2>1
  <2>2. CASE pc' = "drain"
    <3>1. keep /\ p.reply.framing = "length" /\ left # 0
      BY <1>1, <1>10, <1>11, <2>2
    <3>2. left \in Int /\ left >= 0 /\ remaining' = left
      BY <1>1, <1>9, <1>11, <1>14, <3>1
    <3> QED
      BY <3>1, <3>2
  <2> QED
    BY <2>1, <2>2
<1>17. resp'.keepalive = keep
  BY <1>11
<1> QED
  BY <1>4, <1>13, <1>15, <1>16, <1>17 DEF LateInv, Loops

LEMMA LateNext ==
    ASSUME Methods \subseteq {"GET"}, LateInv, [Next]_vars
    PROVE  LateInv'
<1>1. CASE Client
  BY <1>1, LateBegin, LateSend, LateEnd, LateFirst, LateNone, LateLoops DEF Client, RecvResp
<1>2. CASE Server /\ UNCHANGED clientVars
  BY <1>2, LateServerOther, LateReply DEF clientVars, ClientSame, Server, ServerWork
<1>3. CASE UNCHANGED vars
  <2>1. UNCHANGED <<fd, srv, inbox, owed, wire, pc, cur, req, ksock, resp, remaining, leaked>>
    BY <1>3 DEF vars, netVars, clientVars
  <2>2. TypeOK' /\ (Replying => inbox # <<>>)' /\ Waiting' = Waiting /\ Stream' = Stream
    BY <2>1 DEF LateInv, TypeOK, NetTypeOK, Replying, Waiting, Stream
  <2>3. Len(Stream) \in Nat
    BY LateType, StreamUnits DEF Stream
  <2>4. IsStart(Stream', Stream)
    BY <2>2, <2>3 DEF IsStart
  <2> QED
    BY <2>1, <2>2, <2>4, LateCarries DEF ClientSame
<1> QED
  BY <1>1, <1>2, <1>3 DEF Next, Stopped

LEMMA LateAlways ==
    ASSUME Methods \subseteq {"GET"}
    PROVE  Spec => []LateInv
<1>1. LateInv /\ [Next]_vars => LateInv'
  BY LateNext
<1> QED
  BY <1>1, LateInit, PTL DEF Spec

(* Requests and responses do not get out of step by a poll timeout, however *)
(* the late bytes of an earlier response fall into the reads: recv_resp     *)
(* keeps a connection only when it found the header of this request's       *)
(* response, and leaves nothing on it but the tail of that response.        *)
THEOREM StaysInStep ==
    ASSUME Methods \subseteq {"GET"} PROVE Spec => []KeptInStep
<1>1. LateInv => KeptInStep
  BY DEF LateInv, Found, KeptInStep
<1> QED
  BY <1>1, LateAlways, PTL

(* The keep-alive socket keeps its variables in range: no loop ever asks    *)
(* for zero bytes or fewer.                                                 *)
THEOREM TypeCorrect ==
    ASSUME "stall" \notin Faults \/ Methods \subseteq {"GET"} PROVE Spec => []TypeOK
<1>1. FramingInv => TypeOK
  BY DEF FramingInv
<1>2. LateInv => TypeOK
  BY DEF LateInv
<1>3. CASE "stall" \notin Faults
  BY <1>1, <1>3, FramingAlways, PTL
<1>4. CASE Methods \subseteq {"GET"}
  BY <1>2, <1>4, LateAlways, PTL
<1> QED
  BY <1>3, <1>4
=============================================================================
