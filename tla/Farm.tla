-------------------------------- MODULE Farm --------------------------------
(***************************************************************************)
(* main (flood.c), run_farm and farmer_worker (flood_farm.c), run_farmer   *)
(* (flood_farmer.c), in the build with threads: the main thread starts the *)
(* farmers, a few at a time when asked to, joins them in order and turns   *)
(* what happened into the exit status; every farmer runs its profiles a    *)
(* number of rounds or for a length of time.  A profile run is one step    *)
(* here; RunProfile models what it does.                                   *)
(***************************************************************************)
EXTENDS Integers

CONSTANTS
    N,            \* usefarmer_count: the farmers of the farm
    StartDelays,  \* values of startdelay, in ticks; 0 means none
    StartCounts,  \* values of startcount
    Count,        \* per farmer: its <count>
    Time,         \* per farmer: its <time>, in ticks, or -1 without one
    Profiles,     \* per farmer: the number of its <useprofile> elements
    Hazards,      \* what may go wrong around the farm
    MaxTime,      \* bound: from here on the clock only moves towards a deadline
    MaxRounds     \* bound: the rounds a farmer with a <time> completes by then

Farmers == 1..N

ASSUME FarmAssumption ==
    /\ N \in Nat \ {0}
    /\ StartDelays \subseteq Nat
    /\ StartCounts \subseteq Nat
    /\ Count \in [Farmers -> Int]
    /\ Time \in [Farmers -> Int]
    /\ \A f \in Farmers : Time[f] >= -1
    /\ Profiles \in [Farmers -> Nat]
    /\ Hazards \subseteq {"create", "join", "profile", "exit"}
    /\ MaxTime \in Nat
    /\ MaxRounds \in Nat

VARIABLES
    delay,    \* farmer_start_delay, never changes
    batch,    \* farmer_start_count, never changes
    now,      \* apr_time_now
    main,     \* main thread: "create", "sleep", "join" or "over"
    i,        \* run_farm's loop variable: the farmer to create or join
    wake,     \* when the sleep after the last creation ends
    exitcode, \* of the process: "none" while it runs
    thread,   \* per farmer: "none", "init", "round", "profile" or "ended"
    stat,     \* per farmer: what run_farmer returned
    stop,     \* per farmer: stop_time
    rounds,   \* per farmer: rounds completed
    j,        \* per farmer: profiles completed in this round
    runs      \* history, per farmer: profile runs completed

mainVars == <<main, i, wake>>
farmerVars == <<thread, stat, stop, rounds, j, runs>>
farmVars == <<delay, batch>>
vars == <<farmVars, now, mainVars, exitcode, farmerVars>>

ThreadStates == {"none", "init", "round", "profile", "ended"}

TypeOK ==
    /\ delay \in Nat
    /\ batch \in Nat
    /\ now \in Nat
    /\ main \in {"create", "sleep", "join", "over"}
    /\ i \in 1..(N + 1)
    /\ wake \in Nat
    /\ exitcode \in {"none", "success", "failure", "crash"}
    /\ thread \in [Farmers -> ThreadStates]
    /\ stat \in [Farmers -> {"success", "error"}]
    /\ stop \in [Farmers -> Int]
    /\ rounds \in [Farmers -> Nat]
    /\ j \in [Farmers -> Nat]
    /\ runs \in [Farmers -> Nat]

Init ==
    /\ delay \in StartDelays
    /\ batch \in StartCounts
    /\ now = 0
    /\ main = "create"
    /\ i = 1
    /\ wake = 0
    /\ exitcode = "none"
    /\ thread = [f \in Farmers |-> "none"]
    /\ stat = [f \in Farmers |-> "success"]
    /\ stop = [f \in Farmers |-> -1]
    /\ rounds = [f \in Farmers |-> 0]
    /\ j = [f \in Farmers |-> 0]
    /\ runs = [f \in Farmers |-> 0]

(* exit() in any thread, or the return of main, ends every thread. *)
Running == exitcode = "none"

-----------------------------------------------------------------------------
(* The main thread. *)

(* The for loop over the farmers to create, then the one that joins them. *)
MoreToCreate_OneTooFew == i + 1 < N   \* mutant
MoreToCreate == i < N

NextIndex_FromZero == IF MoreToCreate THEN i + 1 ELSE 0   \* mutant
NextIndex == IF MoreToCreate THEN i + 1 ELSE 1

Advance ==
    /\ i' = NextIndex
    /\ main' = IF MoreToCreate THEN "create" ELSE "join"

StartFarmer == thread' = [thread EXCEPT ![i] = "init"]

(* A farmer after which run_farm goes on at once. *)
CreateFarmer ==
    /\ Running /\ main = "create"
    /\ delay = 0 \/ (batch > 0 /\ i % batch # 0)
    /\ StartFarmer
    /\ Advance
    /\ UNCHANGED <<farmVars, now, wake, exitcode, stat, stop, rounds, j, runs>>

(* The last farmer of a batch: run_farm sleeps, even after the last of all. *)
WakeTime_Early == now + (delay \div 2)   \* mutant: the delay in a wrong unit
WakeTime == now + delay

CreateAndSleep ==
    /\ Running /\ main = "create"
    /\ delay > 0 /\ batch > 0 /\ i % batch = 0
    /\ StartFarmer
    /\ main' = "sleep"
    /\ wake' = WakeTime
    /\ UNCHANGED <<farmVars, now, i, exitcode, stat, stop, rounds, j, runs>>

(* A startcount of 0 divides by zero. *)
CreateAndCrash ==
    /\ Running /\ main = "create"
    /\ delay > 0 /\ batch = 0
    /\ StartFarmer
    /\ exitcode' = "crash"
    /\ UNCHANGED <<farmVars, now, mainVars, stat, stop, rounds, j, runs>>

(* apr_thread_create failed: run_farm returns and main exits with -1. *)
CreateFails ==
    /\ Running /\ main = "create" /\ "create" \in Hazards
    /\ main' = "over"
    /\ exitcode' = "failure"
    /\ UNCHANGED <<farmVars, now, i, wake, farmerVars>>

Wake ==
    /\ Running /\ main = "sleep" /\ now >= wake
    /\ Advance
    /\ UNCHANGED <<farmVars, now, wake, exitcode, farmerVars>>

(* apr_thread_join waits for farmer i; its status is not looked at. *)
Joinable_Any == thread[i] # "none"   \* mutant: does not wait
Joinable == thread[i] = "ended"

Join ==
    /\ Running /\ main = "join" /\ i <= N
    /\ Joinable
    /\ i' = i + 1
    /\ UNCHANGED <<farmVars, now, main, wake, exitcode, farmerVars>>

(* apr_thread_join failed: run_farm returns its status, and main exits with *)
(* -1, whatever the farmers are doing.                                      *)
JoinFails ==
    /\ Running /\ main = "join" /\ i <= N /\ "join" \in Hazards
    /\ main' = "over"
    /\ exitcode' = "failure"
    /\ UNCHANGED <<farmVars, now, i, wake, farmerVars>>

(* run_farm and main return. *)
MainReturns ==
    /\ Running /\ main = "join" /\ i > N
    /\ main' = "over"
    /\ exitcode' = "success"
    /\ UNCHANGED <<farmVars, now, i, wake, farmerVars>>

MainWorks == CreateFarmer \/ CreateAndSleep \/ CreateAndCrash \/ CreateFails
               \/ Wake \/ Join \/ MainReturns
Main == MainWorks \/ JoinFails

-----------------------------------------------------------------------------
(* farmer_worker and run_farmer, in farmer f's thread. *)

End(f, st) ==
    /\ thread' = [thread EXCEPT ![f] = "ended"]
    /\ stat' = [stat EXCEPT ![f] = st]

(* run_farmer reads its configuration and fixes its stop time. *)
BeginFarmer(f) ==
    /\ Running /\ thread[f] = "init" /\ Profiles[f] > 0
    /\ thread' = [thread EXCEPT ![f] = "round"]
    /\ stop' = [stop EXCEPT ![f] = IF Time[f] = -1 THEN -1 ELSE now + Time[f]]
    /\ UNCHANGED <<farmVars, now, mainVars, exitcode, stat, rounds, j, runs>>

(* It has no <useprofile>: run_farmer fails, farmer_worker only says so.    *)
NoProfiles(f) ==
    /\ Running /\ thread[f] = "init" /\ Profiles[f] = 0
    /\ End(f, "error")
    /\ UNCHANGED <<farmVars, now, mainVars, exitcode, stop, rounds, j, runs>>

(* The loop over rounds looks at the count, or at the clock. *)
MoreRounds_NoClock(f) == Time[f] = -1 => rounds[f] < Count[f]   \* mutant
MoreRounds(f) == IF Time[f] = -1 THEN rounds[f] < Count[f] ELSE now < stop[f]

BeginRound(f) ==
    /\ Running /\ thread[f] = "round" /\ MoreRounds(f)
    /\ Time[f] # -1 => rounds[f] < MaxRounds
    /\ thread' = [thread EXCEPT ![f] = "profile"]
    /\ j' = [j EXCEPT ![f] = 0]
    /\ UNCHANGED <<farmVars, now, mainVars, exitcode, stat, stop, rounds, runs>>

EndFarmer(f) ==
    /\ Running /\ thread[f] = "round" /\ ~MoreRounds(f)
    /\ End(f, "success")
    /\ UNCHANGED <<farmVars, now, mainVars, exitcode, stop, rounds, j, runs>>

(* run_profile succeeded; after the last profile the round is over. *)
RoundDone_First(f) == TRUE   \* mutant: a round is one profile
RoundDone(f) == j[f] + 1 = Profiles[f]

RunProfileOK(f) ==
    /\ Running /\ thread[f] = "profile"
    /\ runs' = [runs EXCEPT ![f] = runs[f] + 1]
    /\ j' = [j EXCEPT ![f] = j[f] + 1]
    /\ IF RoundDone(f)
       THEN /\ rounds' = [rounds EXCEPT ![f] = rounds[f] + 1]
            /\ thread' = [thread EXCEPT ![f] = "round"]
       ELSE UNCHANGED <<rounds, thread>>
    /\ UNCHANGED <<farmVars, now, mainVars, exitcode, stat, stop>>

(* run_profile failed: the farmer gives up, the process does not notice. *)
RunProfileFails(f) ==
    /\ Running /\ thread[f] = "profile" /\ "profile" \in Hazards
    /\ End(f, "error")
    /\ UNCHANGED <<farmVars, now, mainVars, exitcode, stop, rounds, j, runs>>

(* get_next_url called exit(), for the whole process. *)
ProfileExits(f) ==
    /\ Running /\ thread[f] = "profile" /\ "exit" \in Hazards
    /\ exitcode' = "failure"
    /\ UNCHANGED <<farmVars, now, mainVars, farmerVars>>

Farmer(f) == BeginFarmer(f) \/ NoProfiles(f) \/ BeginRound(f) \/ EndFarmer(f)
               \/ RunProfileOK(f) \/ RunProfileFails(f) \/ ProfileExits(f)

-----------------------------------------------------------------------------
(* Someone waits for a time that has not come. *)
Deadline ==
    \/ main = "sleep" /\ now < wake
    \/ \E f \in Farmers : thread[f] \in {"round", "profile"} /\ now < stop[f]

Tick ==
    /\ Running
    /\ now < MaxTime \/ Deadline
    /\ now' = now + 1
    /\ UNCHANGED <<farmVars, mainVars, exitcode, farmerVars>>

Stopped == ~Running /\ UNCHANGED vars

Next == Main \/ (\E f \in Farmers : Farmer(f)) \/ Tick \/ Stopped

(* The threads are scheduled by the system and the clock goes on.  That a   *)
(* join fails is not to be relied on.                                       *)
Fairness ==
    /\ WF_vars(MainWorks)
    /\ \A f \in Farmers : WF_vars(Farmer(f))
    /\ WF_vars(Tick)

Spec == Init /\ [][Next]_vars /\ Fairness

-----------------------------------------------------------------------------
(* main returns EXIT_SUCCESS only when every farmer was created and has     *)
(* ended: no profile run is cut off by a successful exit.                   *)
SuccessMeansAllEnded == exitcode = "success" => \A f \in Farmers : thread[f] = "ended"

(* While run_farm joins, every farmer it has passed has ended and every     *)
(* other one was created, so the join loop never waits for a thread that    *)
(* does not exist.                                                          *)
JoinsOnlyCreated ==
    main = "join" => \A f \in Farmers : /\ thread[f] # "none"
                                        /\ f < i => thread[f] = "ended"

(* Farmers are created in order, each once, and no later one runs before.   *)
CreatedInOrder ==
    \A f \in Farmers : main \in {"create", "sleep"} /\ Running =>
       (thread[f] # "none" <=> f < i \/ (f = i /\ main = "sleep"))

(* CHANGES: "flood will start Y threads every X seconds": at any time no    *)
(* more than the batches due by then have been started.                     *)
Pacing ==
    delay > 0 /\ batch > 0 =>
      \A f \in Farmers :
         thread[f] # "none" => f <= batch * ((now \div delay) + 1)

(* A farmer that ends well without <time> has run every profile in each of  *)
(* its <count> rounds; with <time> it stops only between rounds.            *)
Quota ==
    \A f \in Farmers : thread[f] = "ended" /\ stat[f] = "success" =>
       /\ runs[f] = rounds[f] * Profiles[f]
       /\ Time[f] = -1 => rounds[f] = IF Count[f] > 0 THEN Count[f] ELSE 0
       /\ Time[f] # -1 => now >= stop[f]

(* The process ends: every farmer comes to an end and is joined.            *)
Termination == <>~Running

(* flood.xml:357: "If the code is 0, then flood has performed a successful  *)
(* test.  Other value ... means, that there was error during test."         *)
SuccessMeansNoError == exitcode = "success" => \A f \in Farmers : stat[f] = "success"
=============================================================================
