----------------------------- MODULE RunProfile -----------------------------
(***************************************************************************)
(* run_profile (flood_profile.c) with the round-robin profile              *)
(* (flood_round_robin.c) and the simple report (flood_simple_reports.c):   *)
(* the handlers one profile run calls, in order, the URL and round         *)
(* counters, the delays between requests and the counts that are reported. *)
(*                                                                         *)
(* A handler that may return an error is in Failing; the socket handlers   *)
(* are modelled in KeepaliveSocket and only succeed or fail here.          *)
(***************************************************************************)
EXTENDS Integers, Sequences, FiniteSets

CONSTANTS
    Urls,     \* rp->urls: the URLs of the urllist, its sequences expanded
    Rounds,   \* rp->execute_rounds: the profile's <count>, any integer
    Failing   \* the handlers that may return an error

(* The handlers in the order run_profile calls them. *)
Setup == <<"profile_init", "report_init", "socket_init">>
Pass == <<"get_next_url", "begin_conn", "create_req", "send_req", "recv_resp",
          "postprocess", "verify_resp", "end_conn", "process_stats",
          "request_destroy", "response_destroy", "socket_destroy",
          "loop_condition">>
Finish == <<"report_stats", "destroy_report", "profile_destroy">>

Names(s) == {s[i] : i \in DOMAIN s}
Handlers == Names(Setup) \cup Names(Pass) \cup Names(Finish)

ASSUME ProfileAssumption ==
    /\ Urls \in Nat \ {0}    \* profile_init refuses a urllist without URLs
    /\ Rounds \in Int
    /\ Failing \subseteq Handlers \ {"loop_condition"}

VARIABLES
    pc,             \* the handler to call next, or "done" or "failed"
    current_url,    \* rp->current_url, from 0
    current_round,  \* rp->current_round
    verified,       \* run_profile's local of that name
    report,         \* simple_report_t
    printed,        \* what report_stats printed, if it ran
    verdicts,       \* history: what verify_resp said of each response
    delays          \* history: the predelays and postdelays slept

vars == <<pc, current_url, current_round, verified, report, printed, verdicts, delays>>

Verdict == {"valid", "invalid"}
Counts == [hits: Nat, successes: Nat, failures: Nat]
Delay == [kind: {"pre", "post"}, url: Nat]

TypeOK ==
    /\ pc \in Handlers \cup {"done", "failed"}
    /\ current_url \in 0..(Urls - 1)
    /\ current_round \in Nat
    /\ verified \in Verdict
    /\ report \in Counts
    /\ printed \in Seq(Counts)
    /\ verdicts \in Seq(Verdict)
    /\ delays \in Seq(Delay)

Init ==
    /\ pc = "profile_init"
    /\ current_url = 0
    /\ current_round = 0
    /\ verified = "invalid"
    /\ report = [hits |-> 0, successes |-> 0, failures |-> 0]
    /\ printed = <<>>
    /\ verdicts = <<>>
    /\ delays = <<>>

-----------------------------------------------------------------------------
(* The handlers that change nothing this module looks at. *)
Plain(h, next) ==
    /\ pc = h
    /\ pc' = next
    /\ UNCHANGED <<current_url, current_round, verified, report, printed, verdicts, delays>>

ProfileInit == Plain("profile_init", "report_init")
ReportInit == Plain("report_init", "socket_init")
SocketInit == Plain("socket_init", "get_next_url")
BeginConn == Plain("begin_conn", "create_req")
CreateReq == Plain("create_req", "send_req")
SendReq == Plain("send_req", "recv_resp")
RecvResp == Plain("recv_resp", "postprocess")
Postprocess == Plain("postprocess", "verify_resp")
EndConn == Plain("end_conn", "process_stats")
RequestDestroy == Plain("request_destroy", "response_destroy")
ResponseDestroy == Plain("response_destroy", "socket_destroy")
SocketDestroy == Plain("socket_destroy", "loop_condition")
DestroyReport == Plain("destroy_report", "profile_destroy")
ProfileDestroy == Plain("profile_destroy", "done")

(* run_profile returns the error of the handler at once. *)
AfterError_Report == "report_stats"   \* mutant: reports what it has
AfterError_Resend == IF pc = "send_req" THEN "begin_conn" ELSE "failed"   \* mutant
AfterError == "failed"

Fails ==
    /\ pc \in Failing
    /\ pc' = AfterError
    /\ UNCHANGED <<current_url, current_round, verified, report, printed, verdicts, delays>>

(* round_robin_get_next_url: sleep the predelay of the current URL. *)
GetNextUrl ==
    /\ pc = "get_next_url"
    /\ delays' = Append(delays, [kind |-> "pre", url |-> current_url])
    /\ pc' = "begin_conn"
    /\ UNCHANGED <<current_url, current_round, verified, report, printed, verdicts>>

(* verify_200 and verify_status_code judge the status line of any response. *)
VerifyResp ==
    /\ pc = "verify_resp"
    /\ verified' \in Verdict
    /\ verdicts' = Append(verdicts, verified')
    /\ pc' = "end_conn"
    /\ UNCHANGED <<current_url, current_round, report, printed, delays>>

(* simple_process_stats. *)
Counted_AllGood(r) ==   \* mutant: every hit is a success
    [hits |-> r.hits + 1, successes |-> r.successes + 1, failures |-> r.failures]
Counted(r) ==
    [hits |-> r.hits + 1,
     successes |-> r.successes + (IF verified = "valid" THEN 1 ELSE 0),
     failures |-> r.failures + (IF verified = "invalid" THEN 1 ELSE 0)]

ProcessStats ==
    /\ pc = "process_stats"
    /\ report' = Counted(report)
    /\ pc' = "request_destroy"
    /\ UNCHANGED <<current_url, current_round, verified, printed, verdicts, delays>>

(* round_robin_loop_condition: the round ends with the last URL, and the   *)
(* postdelay is the one of the URL just done, unless the run is over.      *)
Wraps_Late == current_url >= Urls   \* mutant: looks before the increment
Wraps == current_url + 1 >= Urls

NextUrl == IF Wraps THEN 0 ELSE current_url + 1
NextRound == IF Wraps THEN current_round + 1 ELSE current_round

RoundsOver_Late == NextRound > Rounds   \* mutant: one round too many
RoundsOver == NextRound >= Rounds

Delayed_Next == NextUrl   \* mutant: the delay of the URL to come
Delayed == current_url

LoopCondition ==
    /\ pc = "loop_condition"
    /\ current_url' = NextUrl
    /\ current_round' = NextRound
    /\ IF RoundsOver
       THEN pc' = "report_stats" /\ UNCHANGED delays
       ELSE /\ pc' = "get_next_url"
            /\ delays' = Append(delays, [kind |-> "post", url |-> Delayed])
    /\ UNCHANGED <<verified, report, printed, verdicts>>

(* simple_report_stats. *)
ReportStats ==
    /\ pc = "report_stats"
    /\ printed' = <<report>>
    /\ pc' = "destroy_report"
    /\ UNCHANGED <<current_url, current_round, verified, report, verdicts, delays>>

Stopped == pc \in {"done", "failed"} /\ UNCHANGED vars

Step ==
    \/ ProfileInit \/ ReportInit \/ SocketInit
    \/ GetNextUrl \/ BeginConn \/ CreateReq \/ SendReq \/ RecvResp
    \/ Postprocess \/ VerifyResp \/ EndConn \/ ProcessStats
    \/ RequestDestroy \/ ResponseDestroy \/ SocketDestroy \/ LoopCondition
    \/ ReportStats \/ DestroyReport \/ ProfileDestroy
    \/ Fails

Next == Step \/ Stopped

(* Every handler returns: its reads and sleeps are bounded. *)
Spec == Init /\ [][Next]_vars /\ WF_vars(Step)

-----------------------------------------------------------------------------
(* The transactions of a complete run: every URL in every round, but one    *)
(* request is made before <count> is first looked at.                       *)
Total == IF Rounds <= 0 THEN 1 ELSE Urls * Rounds

(* The counters say how many requests were completed. *)
Position == current_round * Urls + current_url

(* Every verified response is counted once, with the verdict verify_resp    *)
(* gave it: process_stats never sees the verdict of an earlier response.    *)
Uncounted == IF pc \in {"end_conn", "process_stats"} THEN 1 ELSE 0
CountsMatch ==
    pc # "failed" =>
      LET counted == 1..(Len(verdicts) - Uncounted)
      IN  /\ report.hits = Len(verdicts) - Uncounted
          /\ report.successes = Cardinality({k \in counted : verdicts[k] = "valid"})
          /\ report.failures = Cardinality({k \in counted : verdicts[k] = "invalid"})

(* Request number k goes to the URL at place k - 1 of the list, round after *)
(* round, after that URL's predelay and the postdelay of the one before it. *)
DelaysInOrder ==
    \A k \in 1..Len(delays) :
       delays[k] = [kind |-> IF k % 2 = 1 THEN "pre" ELSE "post",
                    url |-> ((k - 1) \div 2) % Urls]

(* A printed report covers the whole run: every round of every URL, and as  *)
(* many transactions as were delayed for.                                   *)
ReportIsComplete ==
    \A i \in 1..Len(printed) :
       /\ printed[i].hits = Total
       /\ printed[i].successes + printed[i].failures = Total
       /\ Len(delays) = 2 * Total - 1

(* A run without failing handlers reports; no run goes on for ever.         *)
Termination == <>(pc = "done" \/ (pc = "failed" /\ Failing # {}))

(* A run implements the abstract plan: it counts one transaction at a time, *)
(* at most Total, and reports only once all of them were made.              *)
Plan == INSTANCE LoadPlan WITH
    Total <- Total,
    counted <- report.hits,
    outcome <- IF printed # <<>> THEN "reported"
               ELSE IF pc = "failed" THEN "aborted" ELSE "running"

ImplementsPlan == Plan!PlanSpec
=============================================================================
