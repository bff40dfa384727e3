---------------------------- MODULE Transaction ----------------------------
(***************************************************************************)
(* The transactions of one profile run of the round-robin profile over the *)
(* generic socket: what get_next_url, create_req and postprocess carry     *)
(* from a response to later requests (cookies and variables), what they    *)
(* hand to the socket, and the response script.  GenericSocket models the  *)
(* connection, ResponseScript the child process, Params the templates.     *)
(* RunProfile models the handlers around them, the counters and delays.    *)
(***************************************************************************)
EXTENDS GenericSocket, ResponseScript, Params, FiniteSets

CONSTANTS
    CookieNames,
    SetCookies,   \* what the Set-Cookie headers of a response may set: their
                  \* names, from the first one
    UrlLists,     \* the urllists a run may have
    MayBeLeft     \* the names that profile_init may have set, while it expanded
                  \* the sequences of the urllist

NoName == ""

(* What url_t holds of a <url>: its templates (requesttemplate followed by  *)
(* payloadtemplate and contenttype, each a sequence of tokens), credentials,*)
(* the responsetemplate's own tokens (template), its responsename (NoName   *)
(* without a responsetemplate) and whether there is a responsescript.       *)
Url == [method: Methods, uri: Seq(Token), payload: Seq(Token), auth: {"none", "basic", "nopassword"},
        template: Seq(Token), responsename: Names \cup {NoName}, script: BOOLEAN]

ASSUME TransactionAssumption ==
    /\ NoName \notin Names
    /\ SetCookies \subseteq Seq(CookieNames) /\ <<>> \in SetCookies
    /\ MayBeLeft \subseteq Names
    /\ \A urls \in UrlLists : urls \in Seq(Url) /\ urls # <<>>

VARIABLES
    urls,     \* rp->url
    full,     \* recv_resp is generic_fullresp_recv_resp
    cur,      \* the number of the current request
    req,      \* the request: what its templates became, its headers
    state,    \* rp->state: variables by name
    cookie,   \* rp->cookie, a list with its newest entry first
    latest    \* history: for each cookie the response that set it last, and
              \* whether no Set-Cookie but the first of that response set it

profileVars == <<urls, full, cur, req, state, cookie, latest>>
vars == <<netVars, pc, socketVars, scriptVars, profileVars>>

(* round_robin_loop_condition goes through the list round after round.      *)
CurrentUrl == urls[((cur - 1) % Len(urls)) + 1]

(* A cookie's value is that of the response with this number, or a stray.   *)
Stray == 0
Cookie == [name: CookieNames, value: 0..NumReqs]
Setting == [from: 0..NumReqs, first: BOOLEAN]
Never == [from |-> 0, first |-> FALSE]
NoReq == [params |-> <<>>, cookies |-> <<>>, want |-> FALSE, close |-> FALSE]

TypeOK ==
    /\ NetTypeOK /\ SocketTypeOK /\ ScriptTypeOK
    /\ pc \in {"next", "begin", "loop", "done", "failed", "crashed", "exited"} \cup Connected
    /\ cur \in Reqs
    /\ req.cookies \in Seq(Cookie)
    /\ \A n \in Names : state[n].from \in Origin
    /\ cookie \in Seq(Cookie)
    /\ latest \in [CookieNames -> Setting]

Init ==
    /\ NetInit /\ SocketInit /\ ScriptInit
    /\ pc = "next"
    /\ urls \in UrlLists
    /\ full \in BOOLEAN
    /\ cur = 1
    /\ req = NoReq
    /\ \E left \in SUBSET MayBeLeft :
         state = [n \in Names |-> IF n \in left THEN Value("left", 0) ELSE Unset]
    /\ cookie = <<>>
    /\ latest = [n \in CookieNames |-> Never]

-----------------------------------------------------------------------------
(* round_robin_get_next_url: the templates are expanded one after another.  *)
Templates(u) == u.uri \o u.payload

GetNextUrl ==
    /\ pc = "next"
    /\ \E offsets \in Draws(Templates(CurrentUrl)) :
         LET e == Expand(Templates(CurrentUrl), state, TRUE, cur, offsets)
         IN  /\ state' = e.state
             /\ req' = [NoReq EXCEPT !.params = e.values]
             /\ pc' = IF e.end = "ok" THEN "begin" ELSE e.end
    /\ UNCHANGED <<netVars, socketVars, scriptVars, urls, full, cur, cookie, latest>>

(* round_robin_create_req.  The response is wanted for a template only.     *)
HasTemplate(u) == u.responsename # NoName

WantResponse_Script(u) == u.script   \* mutant
WantResponse(u) == HasTemplate(u)

CreateReq ==
    /\ pc = "create" /\ CurrentUrl.auth # "nopassword"
    /\ req' = [req EXCEPT !.want = WantResponse(CurrentUrl), !.cookies = cookie,
                          !.close = ~keepalive]
    /\ pc' = "send"
    /\ UNCHANGED <<netVars, socketVars, scriptVars, urls, full, cur, state, cookie, latest>>

CreateFails ==
    /\ pc = "create" /\ CurrentUrl.auth = "nopassword"
    /\ pc' = "failed"
    /\ req' = [req EXCEPT !.want = WantResponse(CurrentUrl)]
    /\ UNCHANGED <<netVars, socketVars, scriptVars, urls, full, cur, state, cookie, latest>>

(* The handlers of the socket. *)
Socket ==
    /\ \/ BeginConn \/ BeginRefused
       \/ SendReq([id |-> cur, method |-> CurrentUrl.method], req.want)
       \/ SendFails(req.want)
       \/ RecvResp(full)
       \/ EndConn
    /\ UNCHANGED <<scriptVars, profileVars>>

-----------------------------------------------------------------------------
(* round_robin_postprocess. *)

HasHead == rbuf # <<>> /\ rbuf[1].kind = "head"

Joined_AtEnd(c) == Append(cookie, c)   \* mutant
Joined(c) == <<c>> \o cookie

(* Of a response's Set-Cookie headers the first is taken.  Where it has     *)
(* none, the text is looked for in the body, and up to a NUL that may be    *)
(* far behind what was received: what is found there is a stray.            *)
FindCookie ==
    \E lines \in SetCookies :
       /\ ~HasHead => lines = <<>>
       /\ latest' = [n \in CookieNames |->
                       IF \E k \in DOMAIN lines : lines[k] = n
                       THEN [from |-> cur, first |-> \A k \in DOMAIN lines : lines[k] = n => k = 1]
                       ELSE latest[n]]
       /\ IF lines # <<>>
          THEN cookie' = Joined([name |-> lines[1], value |-> cur])
          ELSE \/ cookie' = cookie
               \/ \E n \in CookieNames : cookie' = Joined([name |-> n, value |-> Stray])

(* The responsetemplate's match is at the end of the body at worst; behind  *)
(* what was received there may be a stray one.                              *)
BodyUnits == Cardinality({i \in 1..Len(rbuf) : rbuf[i].kind = "body"})
Matches == HasHead /\ BodyUnits > 0 /\ BodyUnits = rbuf[1].reply.len

Matched ==
    IF Matches THEN {Value("resp", cur)} ELSE {Value("stray", 0), Unset}

(* The handler to go on with: the script, or end_conn after verify_resp.    *)
AfterMatch == IF CurrentUrl.script THEN "script" ELSE "end"

MatchTemplate ==
    IF ~HasTemplate(CurrentUrl)
    THEN UNCHANGED state /\ pc' = AfterMatch
    ELSE LET t == CurrentUrl.template
         IN  \E offsets \in Draws(t), v \in Matched :
               LET end == Expand(t, state, FALSE, cur, offsets).end
               IN  IF end = "ok" /\ v # Unset
                   THEN /\ state' = [state EXCEPT ![CurrentUrl.responsename] = v]
                        /\ pc' = AfterMatch
                   ELSE /\ UNCHANGED state
                        /\ pc' = IF end = "ok" THEN "failed" ELSE end

Postprocess ==
    /\ pc = "post"
    /\ FindCookie
    /\ MatchTemplate
    /\ UNCHANGED <<netVars, socketVars, scriptVars, urls, full, cur, req>>

(* Behind a stray there may be no line end: cookieend is NULL, and what is  *)
(* copied from the value to there has no end.                               *)
SearchCrashes ==
    /\ pc = "post"
    /\ pc' = "crashed"
    /\ UNCHANGED <<netVars, socketVars, scriptVars, profileVars>>

(* strlen may count bytes behind the received ones. *)
StartScript ==
    /\ pc = "script"
    /\ \/ Spawn(rbuf) \/ Spawn(Append(rbuf, Junk)) \/ SpawnFails
    /\ UNCHANGED <<netVars, pc, socketVars, profileVars>>

FeedScript ==
    /\ pc = "script" /\ Feed
    /\ UNCHANGED <<netVars, pc, socketVars, profileVars>>

ScriptDone ==
    /\ pc = "script" /\ at \in {"ok", "failed", "killed"}
    /\ pc' = CASE at = "ok" -> "end" [] at = "failed" -> "failed" [] OTHER -> "crashed"
    /\ at' = "idle"
    /\ UNCHANGED <<netVars, socketVars, profileVars, data, proc, code, stdin, pipe, wbytes, heard>>

(* round_robin_loop_condition. *)
Loop ==
    /\ pc = "loop"
    /\ pc' = IF cur < NumReqs THEN "next" ELSE "done"
    /\ cur' = IF cur < NumReqs THEN cur + 1 ELSE cur
    /\ UNCHANGED <<netVars, socketVars, scriptVars, urls, full, req, state, cookie, latest>>

-----------------------------------------------------------------------------
Client == GetNextUrl \/ CreateReq \/ CreateFails \/ Socket \/ Postprocess
            \/ SearchCrashes \/ StartScript \/ FeedScript \/ ScriptDone \/ Loop

(* A server does what the Connection header asks; how it frames its body    *)
(* makes no difference to this socket, so one framing stands for all.       *)
Replies ==
    /\ SrvReply
    /\ owed'[1].reply.framing = "length"
    /\ owed'[1].reply.close = req.close
Works == (Replies \/ SrvSend \/ SrvDone) /\ UNCHANGED <<pc, socketVars, scriptVars, profileVars>>
Interferes == (SrvIdleClose \/ SrvCrash) /\ UNCHANGED <<pc, socketVars, scriptVars, profileVars>>

Child == Script /\ UNCHANGED <<netVars, pc, socketVars, profileVars>>
ChildWorks == (Reads \/ Exits) /\ UNCHANGED <<netVars, pc, socketVars, profileVars>>

Over == pc \in {"done", "failed", "crashed", "exited"}
Stopped == Over /\ UNCHANGED vars

Next == Client \/ Works \/ Interferes \/ Child \/ Stopped

(* The farmer's thread runs, a server answers what it has taken, and the    *)
(* script reads its input and ends behind it; that it ends before is not    *)
(* to be relied on.                                                         *)
Spec == Init /\ [][Next]_vars /\ WF_vars(Client) /\ WF_vars(Works) /\ WF_vars(ChildWorks)

-----------------------------------------------------------------------------
(* generic_recv_resp reads until the server closes, so it must be the one   *)
(* that asked for that: while it reads, the server has something to send or *)
(* has closed.  Otherwise each request would cost a poll timeout of 120 s.  *)
AnswerComes == pc \in {"recv", "load", "first", "drain"} => ~Quiet

(* A cookie that is set again stays in the list with its old value, and     *)
(* both are sent.  The newest value comes before the older ones (and behind *)
(* none but strays), whatever other responses set or leave in the buffer:   *)
(* whenever the server that set it last did so in its first Set-Cookie and  *)
(* not again in a later one, which the code does not look at.               *)
NewestCookieFirst ==
    pc = "send" =>
      \A n \in CookieNames : latest[n].first =>
        \E k \in 1..Len(req.cookies) :
           /\ req.cookies[k] = [name |-> n, value |-> latest[n].from]
           /\ \A j \in 1..(k - 1) : req.cookies[j].name # n \/ req.cookies[j].value = Stray

(* The variables of one request agree across its templates: ${name} is what *)
(* the ${=name} before it drew, even when a response had set the name, and  *)
(* a ${=name} draws anew.                                                   *)
ParamsAgree ==
    \A i, j \in 1..Len(req.params) :
       LET p == req.params[i]
           q == req.params[j]
       IN  i < j /\ p.token.name = q.token.name /\ q.value.from \notin {"line", "cutline"} =>
             (p.value = q.value) =
               (\A k \in (i + 1)..j : req.params[k].token # [kind |-> "set", name |-> p.token.name])

(* A responsetemplate is matched against the whole response: when the       *)
(* server sent all of it without stalling and its body holds the match, the *)
(* variable gets that response's value and the run goes on.                 *)
Answered == HasHead /\ owed = <<>> /\ (\A i \in 1..Len(rbuf) : rbuf[i] # Junk)
              /\ rbuf[1].reply.len > 0 /\ CurrentUrl.method # "HEAD"
TemplateFindsValue ==
    [][Postprocess /\ HasTemplate(CurrentUrl) /\ Answered
         => pc' \in {"crashed", "exited"} \/ state'[CurrentUrl.responsename] = Value("resp", cur)]_vars

(* A transaction that counts leaves nothing behind: its script has ended    *)
(* well and was waited for, and its connection is closed.                   *)
NothingLeft ==
    /\ pc \in {"next", "begin", "loop", "done"} => fd # "open"
    /\ pc \in {"end", "loop", "done"} =>
         /\ proc \in {"none", "reaped"}
         /\ CurrentUrl.script => proc = "reaped" /\ code = 0

(* Every run ends: flood does not wait for a script that waits for flood.   *)
Termination == <>Over

(* flood.xml on responsescript: its standard input "will contain server     *)
(* response (both HTTP headers and response body)"; with recv_resp set to   *)
(* generic_fullresp_recv_resp, which is asked for there "to fetch whole     *)
(* response every time", and a response that strlen sees the end of.        *)
ScriptGetsResponse ==
    full /\ Junk \notin Range(data) /\ proc = "running" /\ EndOfInput /\ heard # <<>> =>
      heard = UnitsOf([id |-> cur, method |-> CurrentUrl.method], heard[1].reply)
=============================================================================
