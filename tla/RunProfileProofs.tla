-------------------------- MODULE RunProfileProofs --------------------------
(***************************************************************************)
(* For every number of URLs, every <count> and every set of failing        *)
(* handlers: a run that reports has made every request of every round,     *)
(* each verdict is counted once, and RunProfile implements LoadPlan.       *)
(***************************************************************************)
EXTENDS RunProfile, FiniteSetTheorems, TLAPS

(* The handlers between two looks at the loop condition, by what has been   *)
(* done for the current URL: nothing, its predelay, its count.              *)
BeforeDelay == Names(Setup) \cup {"get_next_url"}
BeforeCount == {"begin_conn", "create_req", "send_req", "recv_resp", "postprocess",
                "verify_resp", "end_conn", "process_stats"}
AfterCount == {"request_destroy", "response_destroy", "socket_destroy", "loop_condition"}
AfterLoop == {"report_stats", "destroy_report", "profile_destroy", "done"}

InLoop == BeforeDelay \cup BeforeCount \cup AfterCount

(* The loop condition has let this request through. *)
WithinRounds == IF Rounds <= 0 THEN current_round = 0 /\ current_url = 0
                ELSE current_round < Rounds

(* How far the counts and the delays are, at every handler. *)
Progress ==
    /\ pc \in InLoop => WithinRounds /\ printed = <<>>
    /\ pc \in BeforeDelay => report.hits = Position /\ Len(delays) = 2 * Position
    /\ pc \in BeforeCount => report.hits = Position /\ Len(delays) = 2 * Position + 1
    /\ pc \in AfterCount => report.hits = Position + 1 /\ Len(delays) = 2 * Position + 1
    /\ pc \in AfterLoop => report.hits = Total /\ Len(delays) = 2 * Total - 1

(* A report is the one of a run that left the loop. *)
Printed ==
    /\ pc = "report_stats" => printed = <<>>
    /\ pc \in {"destroy_report", "profile_destroy", "done"} => printed # <<>>
    /\ printed # <<>> => /\ printed = <<report>>
                         /\ report.hits = Total
                         /\ Len(delays) = 2 * Total - 1

(* Every hit is a success or a failure. *)
AllJudged == report.hits = report.successes + report.failures

RunInv == TypeOK /\ Progress /\ Printed /\ AllJudged

-----------------------------------------------------------------------------
(* Arithmetic of the two counters. *)

(* A position in an earlier round is not the end of the run. *)
LEMMA PositionBelow ==
    ASSUME NEW U \in Nat \ {0}, NEW R \in Int, NEW r \in Nat, NEW u \in 0..(U - 1), r < R
    PROVE  r * U + u < U * R
<1>1. R - r \in Nat \ {0}
  OBVIOUS
<1>2. PICK d \in Nat : R = r + 1 + d
  <2>1. R - r - 1 \in Nat
    OBVIOUS
  <2> QED
    BY <2>1
<1>3. U * R = r * U + U + U * d
  BY <1>2
<1>4. U * d \in Nat
  BY <1>2
<1> QED
  BY <1>3, <1>4

(* loop_condition advances the position by one, also where a round ends. *)
LEMMA PositionNext ==
    ASSUME TypeOK
    PROVE  NextRound * Urls + NextUrl = Position + 1
<1>1. Urls \in Nat \ {0} /\ current_url \in 0..(Urls - 1) /\ current_round \in Nat
  BY ProfileAssumption DEF TypeOK
<1>2. (current_round + 1) * Urls = current_round * Urls + Urls
  BY <1>1
<1>3. CASE Wraps
  <2>1. current_url + 1 = Urls
    BY <1>1, <1>3 DEF Wraps
  <2>2. NextRound * Urls + NextUrl = (current_round + 1) * Urls + 0
    BY <1>3 DEF NextRound, NextUrl
  <2> QED
    BY <1>1, <1>2, <2>1, <2>2 DEF Position
<1>4. CASE ~Wraps
  BY <1>1, <1>4 DEF NextRound, NextUrl, Position
<1> QED
  BY <1>3, <1>4

(* When the loop condition stops a run that it let through before, the run *)
(* has made exactly its requests.                                           *)
LEMMA PositionLast ==
    ASSUME TypeOK, WithinRounds, RoundsOver
    PROVE  Position + 1 = Total
<1>1. /\ Urls \in Nat \ {0} /\ Rounds \in Int
      /\ current_url \in 0..(Urls - 1) /\ current_round \in Nat
  BY ProfileAssumption DEF TypeOK
<1>2. CASE Rounds <= 0
  BY <1>1, <1>2 DEF WithinRounds, Position, Total
<1>3. CASE Rounds > 0
  <2>1. current_round < Rounds /\ NextRound >= Rounds
    BY <1>1, <1>3 DEF WithinRounds, RoundsOver
  <2>2. Wraps /\ current_round + 1 = Rounds
    BY <1>1, <2>1 DEF NextRound
  <2>3. current_url + 1 = Urls
    BY <1>1, <2>2 DEF Wraps
  <2>4. Urls * Rounds = current_round * Urls + Urls
    BY <1>1, <2>2
  <2> QED
    BY <1>1, <1>3, <2>3, <2>4 DEF Position, Total
<1> QED
  BY <1>1, <1>2, <1>3

-----------------------------------------------------------------------------
(* The invariant holds initially and every handler preserves it. *)

LEMMA RunInvInit == Init => RunInv
<1> SUFFICES ASSUME Init PROVE RunInv
  OBVIOUS
<1>1. Urls \in Nat \ {0}
  BY ProfileAssumption
<1>2. TypeOK
  BY <1>1 DEF Init, TypeOK, Handlers, Names, Setup, Verdict, Counts
<1>3. Position = 0
  BY <1>1 DEF Init, Position
<1>4. Progress /\ Printed /\ AllJudged
  BY <1>1, <1>3, ProfileAssumption
     DEF Init, Progress, Printed, AllJudged, WithinRounds, InLoop, BeforeDelay,
         BeforeCount, AfterCount, AfterLoop, Names, Setup
<1> QED
  BY <1>2, <1>4 DEF RunInv

(* Handlers that only hand over to the next one, in the same stage. *)
LEMMA PlainStep ==
    ASSUME RunInv, NEW h, NEW next, Plain(h, next),
           next \in Handlers \cup {"done"},
           \/ h \in Names(Setup) /\ next \in BeforeDelay
           \/ h \in BeforeCount /\ next \in BeforeCount
           \/ h \in AfterCount /\ next \in AfterCount
           \/ /\ h \in {"destroy_report", "profile_destroy"}
              /\ next \in {"destroy_report", "profile_destroy", "done"}
    PROVE  RunInv'
<1> USE DEF RunInv, Plain
<1>1. TypeOK'
  BY DEF TypeOK
<1>2. Position' = Position /\ WithinRounds' = WithinRounds
  BY DEF Position, WithinRounds
<1>3. Progress' /\ Printed' /\ AllJudged'
  BY <1>2 DEF Progress, Printed, AllJudged, InLoop, BeforeDelay, BeforeCount, AfterCount,
              AfterLoop, Names, Setup
<1> QED
  BY <1>1, <1>3

(* An error ends the run and leaves everything else as it is. *)
LEMMA FailsStep ==
    ASSUME RunInv, Fails
    PROVE  RunInv'
<1> USE DEF RunInv, Fails, AfterError
<1>1. TypeOK'
  BY DEF TypeOK
<1>2. Progress' /\ Printed' /\ AllJudged'
  BY DEF Progress, Printed, AllJudged, InLoop, BeforeDelay, BeforeCount, AfterCount,
         AfterLoop, Names, Setup
<1> QED
  BY <1>1, <1>2

LEMMA GetNextUrlStep ==
    ASSUME RunInv, GetNextUrl
    PROVE  RunInv'
<1> USE DEF RunInv, GetNextUrl
<1>1. /\ delays \in Seq(Delay) /\ current_url \in Nat
      /\ [kind |-> "pre", url |-> current_url] \in Delay
  BY ProfileAssumption DEF TypeOK, Delay
<1>2. delays' \in Seq(Delay) /\ Len(delays') = Len(delays) + 1
  BY <1>1
<1>3. TypeOK'
  BY <1>2 DEF TypeOK, Handlers, Names, Pass
<1>4. Position' = Position /\ WithinRounds' = WithinRounds
  BY DEF Position, WithinRounds
<1>5. Progress' /\ Printed' /\ AllJudged'
  BY <1>2, <1>4 DEF Progress, Printed, AllJudged, InLoop, BeforeDelay, BeforeCount,
                    AfterCount, AfterLoop, Names, Setup
<1> QED
  BY <1>3, <1>5

LEMMA VerifyRespStep ==
    ASSUME RunInv, VerifyResp
    PROVE  RunInv'
<1> USE DEF RunInv, VerifyResp
<1>1. TypeOK'
  BY DEF TypeOK, Handlers, Names, Pass
<1>2. Position' = Position /\ WithinRounds' = WithinRounds
  BY DEF Position, WithinRounds
<1>3. Progress' /\ Printed' /\ AllJudged'
  BY <1>2 DEF Progress, Printed, AllJudged, InLoop, BeforeDelay, BeforeCount,
              AfterCount, AfterLoop, Names, Setup
<1> QED
  BY <1>1, <1>3

(* The one place where a hit is counted, and judged. *)
LEMMA ProcessStatsStep ==
    ASSUME RunInv, ProcessStats
    PROVE  RunInv' /\ report'.hits = report.hits + 1
<1> USE DEF RunInv, ProcessStats
<1>1. report \in Counts /\ verified \in Verdict
  BY DEF TypeOK
<1>2. /\ report' \in Counts
      /\ report'.hits = report.hits + 1
      /\ report'.hits = report'.successes + report'.failures
  BY <1>1 DEF Counted, Counts, Verdict, AllJudged
<1>3. TypeOK'
  BY <1>2 DEF TypeOK, Handlers, Names, Pass
<1>4. Position' = Position /\ WithinRounds' = WithinRounds
  BY DEF Position, WithinRounds
<1>5. Progress' /\ Printed' /\ AllJudged'
  BY <1>2, <1>4 DEF Progress, Printed, AllJudged, InLoop, BeforeDelay, BeforeCount,
                    AfterCount, AfterLoop, Names, Setup
<1> QED
  BY <1>2, <1>3, <1>5

LEMMA LoopConditionStep ==
    ASSUME RunInv, LoopCondition
    PROVE  RunInv'
<1> USE DEF RunInv, LoopCondition
<1>1. /\ Urls \in Nat \ {0} /\ Rounds \in Int
      /\ current_url \in 0..(Urls - 1) /\ current_round \in Nat
      /\ delays \in Seq(Delay)
      /\ WithinRounds /\ printed = <<>>
      /\ report.hits = Position + 1 /\ Len(delays) = 2 * Position + 1
  BY ProfileAssumption DEF TypeOK, Progress, InLoop, AfterCount
<1>2. /\ NextUrl \in 0..(Urls - 1) /\ NextRound \in Nat
      /\ Position \in Int
  BY <1>1 DEF NextUrl, NextRound, Wraps, Position
<1>3. Position' = Position + 1
  BY <1>1, PositionNext DEF Position
<1>4. CASE RoundsOver
  <2>1. TypeOK'
    BY <1>2, <1>4 DEF TypeOK, Handlers, Names, Finish
  <2>2. Position + 1 = Total
    BY <1>1, <1>4, PositionLast
  <2>3. Progress' /\ Printed' /\ AllJudged'
    BY <1>1, <1>2, <1>4, <2>2
       DEF Progress, Printed, AllJudged, InLoop, BeforeDelay, BeforeCount, AfterCount,
           AfterLoop, Names, Setup, Total
  <2> QED
    BY <2>1, <2>3
<1>5. CASE ~RoundsOver
  <2>1. [kind |-> "post", url |-> Delayed] \in Delay
    BY <1>1 DEF Delay, Delayed
  <2>2. delays' \in Seq(Delay) /\ Len(delays') = Len(delays) + 1
    BY <1>1, <1>5, <2>1
  <2>3. TypeOK'
    BY <1>2, <1>5, <2>2 DEF TypeOK, Handlers, Names, Pass
  <2>4. WithinRounds'
    BY <1>1, <1>2, <1>5 DEF WithinRounds, RoundsOver
  <2>5. Progress' /\ Printed' /\ AllJudged'
    BY <1>1, <1>2, <1>3, <1>5, <2>2, <2>4
       DEF Progress, Printed, AllJudged, InLoop, BeforeDelay, BeforeCount, AfterCount,
           AfterLoop, Names, Setup
  <2> QED
    BY <2>3, <2>5
<1> QED
  BY <1>4, <1>5

LEMMA ReportStatsStep ==
    ASSUME RunInv, ReportStats
    PROVE  RunInv'
<1> USE DEF RunInv, ReportStats
<1>1. report \in Counts
  BY DEF TypeOK
<1>2. printed' \in Seq(Counts) /\ printed' # <<>>
  BY <1>1
<1>3. TypeOK'
  BY <1>2 DEF TypeOK, Handlers, Names, Finish
<1>4. Progress' /\ Printed' /\ AllJudged'
  BY <1>2 DEF Progress, Printed, AllJudged, InLoop, BeforeDelay, BeforeCount,
              AfterCount, AfterLoop, Names, Setup
<1> QED
  BY <1>3, <1>4

LEMMA RunInvNext == RunInv /\ [Next]_vars => RunInv'
<1> SUFFICES ASSUME RunInv, [Next]_vars PROVE RunInv'
  OBVIOUS
<1> DEFINE Stage == /\ "report_init" \in Handlers /\ "socket_init" \in Handlers
                    /\ "get_next_url" \in Handlers /\ "create_req" \in Handlers
                    /\ "send_req" \in Handlers /\ "recv_resp" \in Handlers
                    /\ "postprocess" \in Handlers /\ "verify_resp" \in Handlers
                    /\ "process_stats" \in Handlers /\ "response_destroy" \in Handlers
                    /\ "socket_destroy" \in Handlers /\ "loop_condition" \in Handlers
                    /\ "profile_destroy" \in Handlers
                    /\ Names(Setup) = {"profile_init", "report_init", "socket_init"}
<1>0. Stage
  BY DEF Handlers, Names, Setup, Pass, Finish
<1>1. CASE ProfileInit \/ ReportInit \/ SocketInit
  BY <1>0, <1>1, PlainStep DEF ProfileInit, ReportInit, SocketInit, BeforeDelay
<1>2. CASE BeginConn \/ CreateReq \/ SendReq \/ RecvResp \/ Postprocess \/ EndConn
  BY <1>0, <1>2, PlainStep DEF BeginConn, CreateReq, SendReq, RecvResp, Postprocess, EndConn,
                               BeforeCount
<1>3. CASE RequestDestroy \/ ResponseDestroy \/ SocketDestroy
  BY <1>0, <1>3, PlainStep DEF RequestDestroy, ResponseDestroy, SocketDestroy, AfterCount
<1>4. CASE DestroyReport \/ ProfileDestroy
  BY <1>0, <1>4, PlainStep DEF DestroyReport, ProfileDestroy
<1>5. CASE GetNextUrl \/ VerifyResp \/ ProcessStats \/ LoopCondition \/ ReportStats \/ Fails
  BY <1>5, GetNextUrlStep, VerifyRespStep, ProcessStatsStep, LoopConditionStep,
     ReportStatsStep, FailsStep
<1>6. CASE UNCHANGED vars
  BY <1>6 DEF vars, RunInv, TypeOK, Progress, Printed, AllJudged, WithinRounds, Position
<1> QED
  BY <1>1, <1>2, <1>3, <1>4, <1>5, <1>6 DEF Next, Step, Stopped

-----------------------------------------------------------------------------
LEMMA RunInvAlways == Spec => []RunInv
  BY RunInvInit, RunInvNext, PTL DEF Spec

(* run_profile keeps its counters and its report well-formed, whatever      *)
(* <count> says and whichever handlers fail.                                *)
THEOREM TypeCorrect == Spec => []TypeOK
<1>1. RunInv => TypeOK
  BY DEF RunInv
<1> QED
  BY <1>1, RunInvAlways, PTL

(* report_stats is reached only by a complete run: the printed counts are   *)
(* those of every URL in every round, and every hit has a verdict.          *)
THEOREM CompleteReports == Spec => []ReportIsComplete
<1>1. RunInv => ReportIsComplete
  BY DEF RunInv, Printed, AllJudged, ReportIsComplete
<1> QED
  BY <1>1, RunInvAlways, PTL

(* The verdict process_stats will count is the last one that was given. *)
Judged(n, v) == {k \in 1..n : verdicts[k] = v}

VerdictInv ==
    /\ pc \in {"end_conn", "process_stats"} =>
         verdicts # <<>> /\ verdicts[Len(verdicts)] = verified
    /\ CountsMatch

(* One more verdict looked at is one more of its kind. *)
LEMMA JudgedNext ==
    ASSUME NEW n \in Nat, NEW v
    PROVE  /\ IsFiniteSet(Judged(n, v)) /\ Cardinality(Judged(n, v)) \in Nat
           /\ Cardinality(Judged(n + 1, v)) =
                Cardinality(Judged(n, v)) + (IF verdicts[n + 1] = v THEN 1 ELSE 0)
<1>1. IsFiniteSet(Judged(n, v))
  <2>1. IsFiniteSet(1..n)
    BY FS_Interval
  <2> QED
    BY <2>1, FS_Subset DEF Judged
<1>2. Cardinality(Judged(n, v)) \in Nat
  BY <1>1, FS_CardinalityType
<1>3. n + 1 \notin Judged(n, v)
  BY DEF Judged
<1>4. CASE verdicts[n + 1] = v
  <2>1. Judged(n + 1, v) = Judged(n, v) \cup {n + 1}
    BY <1>4 DEF Judged
  <2> QED
    BY <1>1, <1>2, <1>3, <1>4, <2>1, FS_AddElement
<1>5. CASE verdicts[n + 1] # v
  <2>1. Judged(n + 1, v) = Judged(n, v)
    BY <1>5 DEF Judged
  <2> QED
    BY <1>1, <1>2, <1>5, <2>1
<1> QED
  BY <1>4, <1>5

LEMMA VerdictStep == RunInv /\ VerdictInv /\ [Next]_vars => VerdictInv'
<1> SUFFICES ASSUME RunInv, VerdictInv, [Next]_vars PROVE VerdictInv'
  OBVIOUS
<1>1. verdicts \in Seq(Verdict) /\ verified \in Verdict /\ report \in Counts
  BY DEF RunInv, TypeOK
<1>2. CASE VerifyResp
  <2>1. /\ pc = "verify_resp" /\ pc' = "end_conn" /\ report' = report
        /\ verified' \in Verdict /\ verdicts' = Append(verdicts, verified')
    BY <1>2 DEF VerifyResp
  <2>2. /\ Len(verdicts') = Len(verdicts) + 1 /\ verdicts' # <<>>
        /\ verdicts'[Len(verdicts')] = verified'
        /\ \A k \in 1..Len(verdicts) : verdicts'[k] = verdicts[k]
    BY <1>1, <2>1
  <2>3. Len(verdicts') - Uncounted' = Len(verdicts) /\ Len(verdicts) - Uncounted = Len(verdicts)
    <3>1. Uncounted = 0 /\ Uncounted' = 1
      BY <2>1 DEF Uncounted
    <3>2. Len(verdicts) \in Nat
      BY <1>1
    <3> QED
      BY <2>2, <3>1, <3>2
  <2>4. \A v : {k \in 1..Len(verdicts) : verdicts'[k] = v} = {k \in 1..Len(verdicts) : verdicts[k] = v}
    BY <2>2
  <2>5. CountsMatch'
    BY <2>1, <2>3, <2>4 DEF VerdictInv, CountsMatch
  <2> QED
    BY <2>1, <2>2, <2>5 DEF VerdictInv
<1>3. CASE ProcessStats
  <2>1. /\ pc = "process_stats" /\ pc' = "request_destroy" /\ report' = Counted(report)
        /\ verified' = verified /\ verdicts' = verdicts
    BY <1>3 DEF ProcessStats
  <2> DEFINE n == Len(verdicts) - 1
  <2>2. n \in Nat /\ verdicts[n + 1] = verified /\ n + 1 = Len(verdicts)
    BY <1>1, <2>1 DEF VerdictInv
  <2>3. /\ report.hits = n
        /\ report.successes = Cardinality(Judged(n, "valid"))
        /\ report.failures = Cardinality(Judged(n, "invalid"))
    BY <2>1 DEF VerdictInv, CountsMatch, Uncounted, Judged
  <2>4. /\ report'.hits = report.hits + 1
        /\ report'.successes = report.successes + (IF verified = "valid" THEN 1 ELSE 0)
        /\ report'.failures = report.failures + (IF verified = "invalid" THEN 1 ELSE 0)
    BY <2>1 DEF Counted
  <2>5. /\ report'.hits = n + 1
        /\ report'.successes = Cardinality(Judged(n + 1, "valid"))
        /\ report'.failures = Cardinality(Judged(n + 1, "invalid"))
    <3> HIDE DEF n
    <3>1. Cardinality(Judged(n + 1, "valid")) =
            Cardinality(Judged(n, "valid")) + (IF verified = "valid" THEN 1 ELSE 0)
      BY <2>2, JudgedNext
    <3>2. Cardinality(Judged(n + 1, "invalid")) =
            Cardinality(Judged(n, "invalid")) + (IF verified = "invalid" THEN 1 ELSE 0)
      BY <2>2, JudgedNext
    <3> QED
      BY <2>3, <2>4, <3>1, <3>2
  <2>6. Len(verdicts') - Uncounted' = n + 1
    BY <1>1, <2>1, <2>2 DEF Uncounted
  <2>7. CountsMatch'
    BY <2>1, <2>5, <2>6 DEF CountsMatch, Judged
  <2> QED
    BY <2>1, <2>7 DEF VerdictInv
<1>4. CASE ~VerifyResp /\ ~ProcessStats
  <2>1. UNCHANGED <<verified, verdicts, report>>
    BY <1>4 DEF Next, Step, Stopped, vars, Plain, ProfileInit, ReportInit, SocketInit, GetNextUrl,
                BeginConn, CreateReq, SendReq, RecvResp, Postprocess, EndConn, RequestDestroy,
                ResponseDestroy, SocketDestroy, LoopCondition, ReportStats, DestroyReport,
                ProfileDestroy, Fails
  <2>2. \/ pc' = "failed"
        \/ pc' = pc
        \/ pc = "end_conn" /\ pc' = "process_stats"
        \/ pc \notin {"end_conn", "process_stats"} /\ pc' \notin {"end_conn", "process_stats"}
           /\ pc # "failed"
    BY <1>4 DEF Next, Step, Stopped, vars, Plain, ProfileInit, ReportInit, SocketInit, GetNextUrl,
                BeginConn, CreateReq, SendReq, RecvResp, Postprocess, EndConn, RequestDestroy,
                ResponseDestroy, SocketDestroy, LoopCondition, ReportStats, DestroyReport,
                ProfileDestroy, Fails, AfterError
  <2> QED
    BY <2>1, <2>2 DEF VerdictInv, CountsMatch, Uncounted
<1> QED
  BY <1>2, <1>3, <1>4

(* process_stats counts each response once, with its own verdict: the       *)
(* reported successes and failures are those of verify_resp.                *)
THEOREM VerdictsCounted == Spec => []CountsMatch
<1>1. Init => VerdictInv
  <2> SUFFICES ASSUME Init PROVE VerdictInv
    OBVIOUS
  <2>1. 1..(Len(verdicts) - Uncounted) = {} /\ Len(verdicts) - Uncounted = 0
    BY DEF Init, Uncounted
  <2>2. \A v : {k \in 1..(Len(verdicts) - Uncounted) : verdicts[k] = v} = {}
    BY <2>1
  <2> QED
    BY <2>1, <2>2, FS_EmptySet DEF Init, VerdictInv, CountsMatch
<1>2. VerdictInv => CountsMatch
  BY DEF VerdictInv
<1> QED
  BY <1>1, <1>2, VerdictStep, RunInvAlways, PTL DEF Spec

(* The parity of a place in the delays and the URL it belongs to. *)
LEMMA PlaceOfDelay ==
    ASSUME NEW p \in Nat
    PROVE  /\ (2 * p + 1) % 2 = 1 /\ (2 * p + 1 - 1) \div 2 = p
           /\ (2 * p + 2) % 2 = 0 /\ (2 * p + 2 - 1) \div 2 = p
  OBVIOUS

LEMMA PositionUrl ==
    ASSUME NEW U \in Nat \ {0}, NEW r \in Nat, NEW u \in 0..(U - 1)
    PROVE  (r * U + u) % U = u
  OBVIOUS

(* One more delay, for the URL of the current position, keeps the order. *)
LEMMA AppendDelay ==
    ASSUME DelaysInOrder, NEW d \in Delay, delays \in Seq(Delay),
           delays' = Append(delays, d),
           LET k == Len(delays) + 1
           IN  d = [kind |-> IF k % 2 = 1 THEN "pre" ELSE "post",
                    url |-> ((k - 1) \div 2) % Urls]
    PROVE  DelaysInOrder'
<1>1. SUFFICES ASSUME NEW k \in 1..Len(delays')
               PROVE  delays'[k] = [kind |-> IF k % 2 = 1 THEN "pre" ELSE "post",
                                    url |-> ((k - 1) \div 2) % Urls]
  BY DEF DelaysInOrder
<1>2. Len(delays') = Len(delays) + 1
  OBVIOUS
<1>3. CASE k \in 1..Len(delays)
  <2>1. delays'[k] = delays[k]
    BY <1>3
  <2> QED
    BY <1>3, <2>1 DEF DelaysInOrder
<1>4. CASE k = Len(delays) + 1
  <2>1. delays'[k] = d
    BY <1>4
  <2> QED
    BY <1>4, <2>1
<1> QED
  BY <1>1, <1>2, <1>3, <1>4

(* Only get_next_url and loop_condition sleep, each at its place. *)
LEMMA DelaysStep == RunInv /\ DelaysInOrder /\ [Next]_vars => DelaysInOrder'
<1> SUFFICES ASSUME RunInv, DelaysInOrder, [Next]_vars PROVE DelaysInOrder'
  OBVIOUS
<1>1. /\ Urls \in Nat \ {0} /\ delays \in Seq(Delay)
      /\ current_url \in 0..(Urls - 1) /\ current_round \in Nat
  BY ProfileAssumption DEF RunInv, TypeOK
<1>2. Position \in Nat /\ Position % Urls = current_url
  BY <1>1, PositionUrl DEF Position
<1>3. /\ [kind |-> "pre", url |-> current_url] \in Delay
      /\ [kind |-> "post", url |-> current_url] \in Delay
  BY <1>1 DEF Delay
<1>4. CASE GetNextUrl
  <2>1. Len(delays) = 2 * Position
    BY <1>4 DEF RunInv, Progress, GetNextUrl, BeforeDelay
  <2>2. delays' = Append(delays, [kind |-> "pre", url |-> current_url])
    BY <1>4 DEF GetNextUrl
  <2> QED
    BY <1>1, <1>2, <1>3, <2>1, <2>2, PlaceOfDelay, AppendDelay
<1>5. CASE LoopCondition
  <2>1. Len(delays) = 2 * Position + 1
    BY <1>5 DEF RunInv, Progress, LoopCondition, AfterCount
  <2>2. CASE RoundsOver
    BY <1>5, <2>2 DEF LoopCondition, DelaysInOrder
  <2>3. CASE ~RoundsOver
    <3>1. delays' = Append(delays, [kind |-> "post", url |-> current_url])
      BY <1>5, <2>3 DEF LoopCondition, Delayed
    <3>2. Len(delays) + 1 = 2 * Position + 2
      BY <1>2, <2>1
    <3>3. (2 * Position + 2) % 2 = 0 /\ (2 * Position + 2 - 1) \div 2 = Position
      BY <1>2, PlaceOfDelay
    <3> DEFINE k == Len(delays) + 1
    <3>4. k % 2 = 0 /\ ((k - 1) \div 2) % Urls = current_url
      BY <1>2, <3>2, <3>3
    <3> HIDE DEF k
    <3>5. [kind |-> "post", url |-> current_url]
            = [kind |-> IF k % 2 = 1 THEN "pre" ELSE "post", url |-> ((k - 1) \div 2) % Urls]
      BY <3>4
    <3> QED
      BY <1>1, <1>3, <3>1, <3>5, AppendDelay DEF k
  <2> QED
    BY <2>2, <2>3
<1>6. CASE UNCHANGED delays
  BY <1>6 DEF DelaysInOrder
<1>7. GetNextUrl \/ LoopCondition \/ UNCHANGED delays
  BY DEF Next, Step, Stopped, vars, Plain, ProfileInit, ReportInit, SocketInit, BeginConn,
         CreateReq, SendReq, RecvResp, Postprocess, VerifyResp, EndConn, ProcessStats,
         RequestDestroy, ResponseDestroy, SocketDestroy, ReportStats, DestroyReport,
         ProfileDestroy, Fails
<1> QED
  BY <1>4, <1>5, <1>6, <1>7

(* Request number k goes to the URL at place k - 1 of the list, after its   *)
(* own predelay and the postdelay of the URL before it, in every round.     *)
THEOREM DelayOrder == Spec => []DelaysInOrder
<1>1. Init => DelaysInOrder
  BY DEF Init, DelaysInOrder
<1> QED
  BY <1>1, DelaysStep, RunInvAlways, PTL DEF Spec

(* run_profile implements the plan: one transaction at a time, at most as   *)
(* many as URLs times rounds, a report on all of them or none at all.       *)
THEOREM RunImplementsPlan == Spec => ImplementsPlan
<1>1. Init => Plan!PlanInit
  BY DEF Init, Plan!PlanInit
<1>2. RunInv /\ [Next]_vars => [Plan!PlanNext]_(Plan!planVars)
  <2> SUFFICES ASSUME RunInv, [Next]_vars
               PROVE  Plan!PlanNext \/ UNCHANGED Plan!planVars
    OBVIOUS
  <2> USE DEF Plan!planVars
  <2>1. CASE ProcessStats
    <3>1. /\ printed = <<>> /\ printed' = printed
          /\ pc = "process_stats" /\ pc' = "request_destroy"
          /\ WithinRounds /\ report.hits = Position
      BY <2>1 DEF RunInv, Progress, InLoop, BeforeCount, ProcessStats
    <3>2. report'.hits = report.hits + 1
      BY <2>1, ProcessStatsStep
    <3>3. Position < Total
      <4>1. /\ Urls \in Nat \ {0} /\ Rounds \in Int
            /\ current_url \in 0..(Urls - 1) /\ current_round \in Nat
        BY ProfileAssumption DEF RunInv, TypeOK
      <4>2. CASE Rounds <= 0
        BY <3>1, <4>1, <4>2 DEF WithinRounds, Position, Total
      <4>3. CASE Rounds > 0
        BY <3>1, <4>1, <4>3, PositionBelow DEF WithinRounds, Position, Total
      <4> QED
        BY <4>1, <4>2, <4>3
    <3> QED
      BY <3>1, <3>2, <3>3 DEF Plan!PlanNext, Plan!Transact
  <2>2. CASE ReportStats
    <3>1. /\ printed = <<>> /\ report.hits = Total /\ pc = "report_stats"
          /\ printed' # <<>> /\ UNCHANGED report
      BY <2>2 DEF RunInv, Progress, Printed, AfterLoop, ReportStats
    <3> QED
      BY <3>1 DEF Plan!PlanNext, Plan!Complete
  <2>3. CASE Fails
    <3>1. pc # "failed" /\ pc' = "failed" /\ UNCHANGED <<report, printed>>
      BY <2>3, ProfileAssumption DEF Fails, AfterError, Handlers, Names, Setup, Pass, Finish
    <3> QED
      BY <3>1 DEF Plan!PlanNext, Plan!Abort
  <2>4. CASE UNCHANGED vars
    BY <2>4 DEF vars
  <2>5. CASE Step /\ ~ProcessStats /\ ~ReportStats /\ ~Fails
    <3>1. /\ UNCHANGED <<report, printed>>
          /\ pc # "failed" /\ pc' # "failed"
      BY <2>5 DEF Step, Plain, ProfileInit, ReportInit, SocketInit, GetNextUrl, BeginConn,
                  CreateReq, SendReq, RecvResp, Postprocess, VerifyResp, EndConn,
                  RequestDestroy, ResponseDestroy, SocketDestroy, LoopCondition,
                  DestroyReport, ProfileDestroy
    <3> QED
      BY <3>1
  <2> QED
    BY <2>1, <2>2, <2>3, <2>4, <2>5 DEF Next, Stopped
<1> QED
  BY <1>1, <1>2, RunInvAlways, PTL DEF Spec, ImplementsPlan, Plan!PlanSpec
=============================================================================
