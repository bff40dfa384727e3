----------------------------- MODULE FarmProofs -----------------------------
(***************************************************************************)
(* What Farm guarantees for every number of farmers and every              *)
(* configuration: a farm that exits with success was created completely,   *)
(* in order, and every farmer ended before main returned.                  *)
(***************************************************************************)
EXTENDS Farm, TLAPS

(* run_farm's index stays inside the farm until it joins. *)
IndexInFarm == main \in {"create", "sleep"} => i <= N

(* The inductive invariant.  What main knows when it returns is what the    *)
(* join loop established, and that rests on every farmer's creation.        *)
FarmInv == TypeOK /\ IndexInFarm /\ CreatedInOrder /\ JoinsOnlyCreated /\ SuccessMeansAllEnded

(* What an action of the main thread can do to the state the invariant is   *)
(* about: start farmer i, move the index by one, return when all are joined. *)
Starts ==
    /\ main = "create"
    /\ thread' = [thread EXCEPT ![i] = "init"]
    /\ \/ i < N /\ i' = i + 1 /\ main' = "create" /\ exitcode' = "none"
       \/ i >= N /\ i' = 1 /\ main' = "join" /\ exitcode' = "none"
       \/ i' = i /\ main' = "sleep" /\ exitcode' = "none"
       \/ i' = i /\ main' = "create" /\ exitcode' = "crash"

Moves ==
    /\ UNCHANGED thread
    /\ \/ main = "sleep" /\ i < N /\ i' = i + 1 /\ main' = "create" /\ exitcode' = "none"
       \/ main = "sleep" /\ i >= N /\ i' = 1 /\ main' = "join" /\ exitcode' = "none"
       \/ /\ main = "join" /\ i <= N /\ thread[i] = "ended"
          /\ i' = i + 1 /\ main' = main /\ exitcode' = "none"
       \/ main = "join" /\ i > N /\ i' = i /\ main' = "over" /\ exitcode' = "success"
       \/ main \in {"create", "join"} /\ i' = i /\ main' = "over" /\ exitcode' = "failure"

LEMMA MainFrame ==
    ASSUME TypeOK, Main
    PROVE  /\ exitcode = "none"
           /\ Starts \/ Moves
           /\ wake' \in Nat
           /\ UNCHANGED <<delay, batch, now, stat, stop, rounds, j, runs>>
<1> USE DEF TypeOK, farmVars, mainVars, farmerVars, Starts, Moves, Running
<1>0. i \in Int /\ N \in Int
  BY FarmAssumption
<1>1. CASE CreateFarmer
  BY <1>0, <1>1 DEF CreateFarmer, StartFarmer, Advance, NextIndex, MoreToCreate
<1>2. CASE CreateAndSleep
  BY <1>2 DEF CreateAndSleep, StartFarmer, WakeTime
<1>3. CASE CreateAndCrash
  BY <1>3 DEF CreateAndCrash, StartFarmer
<1>4. CASE CreateFails
  BY <1>4 DEF CreateFails
<1>5. CASE Wake
  BY <1>0, <1>5 DEF Wake, Advance, NextIndex, MoreToCreate
<1>6. CASE Join
  BY <1>6 DEF Join, Joinable
<1>7. CASE JoinFails
  BY <1>7 DEF JoinFails
<1>8. CASE MainReturns
  BY <1>8 DEF MainReturns
<1> QED
  BY <1>1, <1>2, <1>3, <1>4, <1>5, <1>6, <1>7, <1>8 DEF Main, MainWorks

(* The main thread's actions preserve the type invariant.                   *)
LEMMA MainType ==
    ASSUME TypeOK, IndexInFarm, Main
    PROVE  TypeOK'
<1>0. N \in Nat \ {0}
  BY FarmAssumption
<1>1. /\ Starts \/ Moves
      /\ wake' \in Nat
      /\ UNCHANGED <<delay, batch, now, stat, stop, rounds, j, runs>>
  BY MainFrame
<1>2. i \in 1..(N + 1) /\ thread \in [Farmers -> ThreadStates]
  BY DEF TypeOK
<1>3. /\ i' \in 1..(N + 1)
      /\ main' \in {"create", "sleep", "join", "over"}
      /\ exitcode' \in {"none", "success", "failure", "crash"}
  BY <1>0, <1>1, <1>2 DEF Starts, Moves, IndexInFarm
<1>4. thread' \in [Farmers -> ThreadStates]
  BY <1>1, <1>2 DEF Starts, Moves, ThreadStates
<1> QED
  BY <1>1, <1>3, <1>4 DEF TypeOK

(* So do the actions of a farmer.                                           *)
LEMMA FarmerType ==
    ASSUME TypeOK, NEW f \in Farmers, Farmer(f)
    PROVE  TypeOK'
<1> USE FarmAssumption DEF TypeOK, ThreadStates, farmVars, mainVars, farmerVars
<1>1. CASE BeginFarmer(f)
  BY <1>1 DEF BeginFarmer
<1>2. CASE NoProfiles(f)
  BY <1>2 DEF NoProfiles, End
<1>3. CASE BeginRound(f)
  BY <1>3 DEF BeginRound
<1>4. CASE EndFarmer(f)
  BY <1>4 DEF EndFarmer, End
<1>5. CASE RunProfileOK(f)
  BY <1>5 DEF RunProfileOK, RoundDone
<1>6. CASE RunProfileFails(f)
  BY <1>6 DEF RunProfileFails, End
<1>7. CASE ProfileExits(f)
  BY <1>7 DEF ProfileExits
<1> QED
  BY <1>1, <1>2, <1>3, <1>4, <1>5, <1>6, <1>7 DEF Farmer

(* A farmer's step touches no thread but its own, which stays created and,  *)
(* once ended, stays ended; the main thread's state is not its business.    *)
LEMMA FarmerFrame ==
    ASSUME TypeOK, NEW f \in Farmers, Farmer(f)
    PROVE  /\ Running
           /\ UNCHANGED <<main, i>>
           /\ exitcode' \in {"none", "failure"}
           /\ thread[f] \in {"init", "round", "profile"}
           /\ \E st \in ThreadStates \ {"none"} : thread' = [thread EXCEPT ![f] = st]
<1> USE DEF TypeOK, ThreadStates, mainVars, farmerVars, Running
<1>1. CASE BeginFarmer(f)
  BY <1>1 DEF BeginFarmer
<1>2. CASE NoProfiles(f)
  BY <1>2 DEF NoProfiles, End
<1>3. CASE BeginRound(f)
  BY <1>3 DEF BeginRound
<1>4. CASE EndFarmer(f)
  BY <1>4 DEF EndFarmer, End
<1>5. CASE RunProfileOK(f)
  <2>1. CASE j[f] + 1 = Profiles[f]
    BY <1>5, <2>1 DEF RunProfileOK, RoundDone
  <2>2. CASE j[f] + 1 # Profiles[f]
    <3>1. thread' = [thread EXCEPT ![f] = "profile"]
      BY <1>5, <2>2 DEF RunProfileOK, RoundDone
    <3> QED
      BY <1>5, <3>1 DEF RunProfileOK, RoundDone
  <2> QED
    BY <2>1, <2>2
<1>6. CASE RunProfileFails(f)
  BY <1>6 DEF RunProfileFails, End
<1>7. CASE ProfileExits(f)
  <2>1. thread' = [thread EXCEPT ![f] = "profile"]
    BY <1>7 DEF ProfileExits
  <2> QED
    BY <1>7, <2>1 DEF ProfileExits
<1> QED
  BY <1>1, <1>2, <1>3, <1>4, <1>5, <1>6, <1>7 DEF Farmer

(* The initial states satisfy the invariant: no farmer exists.              *)
LEMMA InitFarmInv == Init => FarmInv
  BY FarmAssumption DEF Init, FarmInv, TypeOK, IndexInFarm, CreatedInOrder,
     JoinsOnlyCreated, SuccessMeansAllEnded, Farmers, ThreadStates, Running

(* Every step of the farm preserves it.                                     *)
LEMMA StepFarmInv == FarmInv /\ [Next]_vars => FarmInv'
<1> SUFFICES ASSUME FarmInv, [Next]_vars
             PROVE  FarmInv'
  OBVIOUS
<1> USE DEF FarmInv
<1>1. ASSUME Main
      PROVE  FarmInv'
  <2>0. TypeOK' /\ N \in Nat \ {0} /\ i \in 1..(N + 1)
    BY <1>1, MainType, FarmAssumption DEF TypeOK
  <2>1. exitcode = "none" /\ (Starts \/ Moves)
    BY <1>1, MainFrame
  <2>2. CASE Starts
    <3>1. /\ i \in 1..N
          /\ \A f \in Farmers : thread[f] # "none" <=> f < i
      BY <2>0, <2>1, <2>2 DEF Starts, IndexInFarm, CreatedInOrder, Running, Farmers
    <3>2. \A f \in Farmers : thread'[f] # "none" <=> f <= i
      <4>1. \A f \in Farmers : thread'[f] = IF f = i THEN "init" ELSE thread[f]
        BY <2>2 DEF Starts, TypeOK
      <4> QED
        BY <2>0, <3>1, <4>1 DEF Farmers
    <3>3. IndexInFarm' /\ SuccessMeansAllEnded'
      BY <2>0, <2>2, <3>1 DEF Starts, IndexInFarm, SuccessMeansAllEnded
    <3>4. CreatedInOrder'
      BY <2>0, <2>2, <3>1, <3>2 DEF Starts, CreatedInOrder, Running, Farmers
    <3>5. JoinsOnlyCreated'
      BY <2>0, <2>2, <3>1, <3>2 DEF Starts, JoinsOnlyCreated, Farmers
    <3> QED
      BY <2>0, <3>3, <3>4, <3>5
  <2>3. CASE Moves
    <3>1. IndexInFarm'
      BY <2>0, <2>3 DEF Moves, IndexInFarm
    <3>2. CreatedInOrder'
      BY <2>0, <2>1, <2>3 DEF Moves, IndexInFarm, CreatedInOrder, Running, Farmers
    <3>3. JoinsOnlyCreated'
      BY <2>0, <2>1, <2>3 DEF Moves, IndexInFarm, CreatedInOrder, JoinsOnlyCreated, Running, Farmers
    <3>4. SuccessMeansAllEnded'
      BY <2>0, <2>3 DEF Moves, JoinsOnlyCreated, SuccessMeansAllEnded, Farmers
    <3> QED
      BY <2>0, <3>1, <3>2, <3>3, <3>4
  <2> QED
    BY <2>1, <2>2, <2>3
<1>2. ASSUME NEW f \in Farmers, Farmer(f)
      PROVE  FarmInv'
  <2>0. TypeOK'
    BY <1>2, FarmerType
  <2>1. PICK st \in ThreadStates \ {"none"} : thread' = [thread EXCEPT ![f] = st]
    BY <1>2, FarmerFrame
  <2>2. /\ exitcode = "none" /\ exitcode' \in {"none", "failure"}
        /\ UNCHANGED <<main, i>> /\ thread[f] \in {"init", "round", "profile"}
    BY <1>2, FarmerFrame DEF Running
  <2>8. \A g \in Farmers : /\ thread'[g] # "none" <=> thread[g] # "none"
                           /\ thread[g] = "ended" => thread'[g] = "ended"
    <3>1. \A g \in Farmers : thread'[g] = IF g = f THEN st ELSE thread[g]
      BY <2>1 DEF TypeOK
    <3> QED
      BY <2>1, <2>2, <3>1
  <2>3. IndexInFarm' /\ SuccessMeansAllEnded'
    BY <2>0, <2>2 DEF IndexInFarm, SuccessMeansAllEnded
  <2>4. CreatedInOrder'
    BY <2>2, <2>8 DEF CreatedInOrder, Running
  <2>5. JoinsOnlyCreated'
    BY <2>2, <2>8 DEF JoinsOnlyCreated
  <2> QED
    BY <2>0, <2>3, <2>4, <2>5
<1>3. CASE Tick
  <2>1. /\ now' \in Nat
        /\ UNCHANGED <<delay, batch, main, i, wake, exitcode>>
        /\ UNCHANGED <<thread, stat, stop, rounds, j, runs>>
    BY <1>3 DEF Tick, TypeOK, farmVars, mainVars, farmerVars
  <2>2. TypeOK'
    BY <2>1 DEF TypeOK
  <2> QED
    BY <2>1, <2>2 DEF IndexInFarm, CreatedInOrder, JoinsOnlyCreated,
       SuccessMeansAllEnded, Running
<1>4. CASE UNCHANGED vars
  BY <1>4 DEF vars, TypeOK, IndexInFarm, CreatedInOrder, JoinsOnlyCreated,
     SuccessMeansAllEnded, Running, farmVars, mainVars, farmerVars
<1> QED
  BY <1>1, <1>2, <1>3, <1>4 DEF Next, Stopped

(* run_farm and run_farmer keep every variable in its range.                *)
THEOREM TypeCorrect == Spec => []TypeOK
<1>1. FarmInv => TypeOK
  BY DEF FarmInv
<1> QED
  BY InitFarmInv, StepFarmInv, <1>1, PTL DEF Spec

(* main returns EXIT_SUCCESS only after every farmer was created and ended. *)
THEOREM ExitSafety == Spec => []SuccessMeansAllEnded
<1>1. FarmInv => SuccessMeansAllEnded
  BY DEF FarmInv
<1> QED
  BY InitFarmInv, StepFarmInv, <1>1, PTL DEF Spec

(* The join loop only ever waits for threads that were created.             *)
THEOREM JoinSafety == Spec => []JoinsOnlyCreated
<1>1. FarmInv => JoinsOnlyCreated
  BY DEF FarmInv
<1> QED
  BY InitFarmInv, StepFarmInv, <1>1, PTL DEF Spec

(* run_farm creates each farmer once, in the order of the configuration.    *)
THEOREM CreationOrder == Spec => []CreatedInOrder
<1>1. FarmInv => CreatedInOrder
  BY DEF FarmInv
<1> QED
  BY InitFarmInv, StepFarmInv, <1>1, PTL DEF Spec

-----------------------------------------------------------------------------
(* The pace of the creation loop.                                           *)

(* Quotients: a later time has no smaller one, a delay later one more.      *)
LEMMA QuotientGrows ==
    ASSUME NEW d \in Nat \ {0}, NEW a \in Nat, NEW b \in Nat, a <= b
    PROVE  a \div d \in Nat /\ a \div d <= b \div d
<1>1. PICK q \in Nat, r \in 0..(d - 1) : a = d * q + r /\ a \div d = q
  OBVIOUS
<1>2. PICK p \in Nat, t \in 0..(d - 1) : b = d * p + t /\ b \div d = p
  OBVIOUS
<1>3. ~(p < q)
  <2> SUFFICES ASSUME p < q PROVE FALSE
    OBVIOUS
  <2>1. PICK e \in Nat : q = p + 1 + e
    <3>1. q - p - 1 \in Nat
      OBVIOUS
    <3> QED
      BY <3>1
  <2>2. d * q = d * p + d + d * e /\ d * e \in Nat
    BY <2>1
  <2> QED
    BY <1>1, <1>2, <2>2
<1> QED
  BY <1>1, <1>2, <1>3

LEMMA QuotientOneMore ==
    ASSUME NEW d \in Nat \ {0}, NEW a \in Nat
    PROVE  (a + d) \div d = (a \div d) + 1
  OBVIOUS

LEMMA ProductGrows ==
    ASSUME NEW c \in Nat, NEW a \in Nat, NEW b \in Nat, a <= b
    PROVE  c * a \in Nat /\ c * b \in Nat /\ c * a <= c * b
<1>1. PICK e \in Nat : b = a + e
  <2>1. b - a \in Nat
    OBVIOUS
  <2> QED
    BY <2>1
<1>2. c * b = c * a + c * e /\ c * e \in Nat
  BY <1>1
<1> QED
  BY <1>2

LEMMA MultipleHasNoRest ==
    ASSUME NEW c \in Nat \ {0}, NEW k \in Nat
    PROVE  (c * k) % c = 0
  OBVIOUS

(* What may have been started by time t. *)
Allowed(t) == batch * ((t \div delay) + 1)

(* The next farmer is due already, and the one a sleep follows was the last *)
(* of its batch, so that the next is due when the sleep ends.               *)
PaceInv ==
    delay > 0 /\ batch > 0 =>
      /\ main = "create" => i <= Allowed(now)
      /\ main = "sleep" => i <= batch * (wake \div delay)
      /\ \A f \in Farmers : thread[f] # "none" => f <= Allowed(now)

LEMMA AllowedGrows ==
    ASSUME delay \in Nat \ {0}, batch \in Nat \ {0}, NEW t \in Nat, NEW u \in Nat, t <= u
    PROVE  Allowed(t) \in Nat /\ Allowed(u) \in Nat /\ Allowed(t) <= Allowed(u)
<1>1. /\ t \div delay \in Nat /\ u \div delay \in Nat
      /\ t \div delay <= u \div delay
  BY QuotientGrows
<1> QED
  BY <1>1, ProductGrows DEF Allowed

LEMMA InitPace == Init => PaceInv
<1> SUFFICES ASSUME Init, delay > 0, batch > 0
             PROVE  i <= Allowed(now)
  BY DEF Init, PaceInv
<1>1. delay \in Nat \ {0} /\ batch \in Nat \ {0} /\ now = 0 /\ i = 1
  BY FarmAssumption DEF Init
<1>2. 0 \div delay = 0
  BY <1>1
<1> QED
  BY <1>1, <1>2 DEF Allowed

LEMMA StepPace == FarmInv /\ PaceInv /\ [Next]_vars => PaceInv'
<1>a. ASSUME [Next]_vars PROVE delay' = delay /\ batch' = batch
  BY <1>a DEF Next, Main, MainWorks, CreateFarmer, CreateAndSleep, CreateAndCrash, CreateFails, Wake,
      Join, JoinFails, MainReturns, Farmer, BeginFarmer, NoProfiles, BeginRound, EndFarmer, RunProfileOK,
      RunProfileFails, ProfileExits, Tick, Stopped, vars, farmVars
<1>b. FarmInv => delay \in Nat /\ batch \in Nat
  BY DEF FarmInv, TypeOK
<1> SUFFICES ASSUME FarmInv, PaceInv, [Next]_vars,
                    delay \in Nat \ {0}, batch \in Nat \ {0}
             PROVE  PaceInv'
  BY <1>a, <1>b DEF PaceInv
<1> USE DEF FarmInv
<1>0. /\ TypeOK /\ N \in Nat \ {0} /\ i \in 1..(N + 1) /\ now \in Nat /\ wake \in Nat
      /\ thread \in [Farmers -> ThreadStates]
  BY FarmAssumption DEF TypeOK
<1>1. /\ main = "create" => i <= Allowed(now)
      /\ main = "sleep" => i <= batch * (wake \div delay)
      /\ \A f \in Farmers : thread[f] # "none" => f <= Allowed(now)
  BY DEF PaceInv
<1>2. now \div delay \in Nat /\ wake \div delay \in Nat /\ Allowed(now) \in Nat
  BY <1>0, QuotientGrows, AllowedGrows
<1>3. CASE CreateFarmer
  <2>1. /\ main = "create" /\ i % batch # 0 /\ thread' = [thread EXCEPT ![i] = "init"]
        /\ main' \in {"create", "join"}
        /\ main' = "create" => i' = i + 1
        /\ UNCHANGED <<delay, batch, now, wake>>
    BY <1>3 DEF CreateFarmer, StartFarmer, Advance, NextIndex, MoreToCreate, farmVars
  <2>2. i # Allowed(now)
    BY <1>2, <2>1, MultipleHasNoRest DEF Allowed
  <2>3. i + 1 <= Allowed(now)
    BY <1>0, <1>1, <1>2, <2>1, <2>2
  <2>4. \A f \in Farmers : thread'[f] # "none" => f <= Allowed(now)
    BY <1>0, <1>1, <2>1
  <2> QED
    BY <2>1, <2>3, <2>4 DEF PaceInv, Allowed
<1>4. CASE CreateAndSleep
  <2>1. /\ main = "create" /\ thread' = [thread EXCEPT ![i] = "init"]
        /\ main' = "sleep" /\ wake' = now + delay
        /\ UNCHANGED <<delay, batch, now, i>>
    BY <1>4 DEF CreateAndSleep, StartFarmer, WakeTime, farmVars
  <2>2. wake' \div delay = (now \div delay) + 1
    BY <1>0, <2>1, QuotientOneMore
  <2>3. i' <= batch' * (wake' \div delay')
    BY <1>1, <2>1, <2>2 DEF Allowed
  <2>4. \A f \in Farmers : thread'[f] # "none" => f <= Allowed(now)
    BY <1>0, <1>1, <2>1
  <2> QED
    BY <2>1, <2>3, <2>4 DEF PaceInv, Allowed
<1>5. CASE CreateAndCrash
  BY <1>5 DEF CreateAndCrash
<1>6. CASE Wake
  <2>1. /\ main = "sleep" /\ now >= wake
        /\ main' \in {"create", "join"}
        /\ main' = "create" => i' = i + 1
        /\ UNCHANGED <<delay, batch, now, wake, thread>>
    BY <1>6 DEF Wake, Advance, NextIndex, MoreToCreate, farmVars, farmerVars
  <2>2. batch * (wake \div delay) <= batch * (now \div delay)
    BY <1>0, <1>2, <2>1, QuotientGrows, ProductGrows
  <2>3. Allowed(now) = batch * (now \div delay) + batch
    BY <1>2 DEF Allowed
  <2>4. batch * (wake \div delay) \in Nat /\ batch * (now \div delay) \in Nat
    BY <1>2
  <2>5. i + 1 <= Allowed(now)
    BY <1>0, <1>1, <2>1, <2>2, <2>3, <2>4
  <2> QED
    BY <1>1, <2>1, <2>5 DEF PaceInv, Allowed
<1>7. CASE CreateFails \/ Join \/ JoinFails \/ MainReturns
  <2>1. /\ main' \in {"join", "over"} /\ UNCHANGED <<delay, batch, now, thread>>
    BY <1>7 DEF CreateFails, Join, JoinFails, MainReturns, farmVars, farmerVars
  <2> QED
    BY <1>1, <2>1 DEF PaceInv, Allowed
<1>8. ASSUME NEW f \in Farmers, Farmer(f)
      PROVE  PaceInv'
  <2>1. UNCHANGED <<delay, batch, now, main, i, wake>>
    BY <1>8 DEF Farmer, BeginFarmer, NoProfiles, BeginRound, EndFarmer, RunProfileOK,
                RunProfileFails, ProfileExits, farmVars, mainVars
  <2>2. PICK st \in ThreadStates \ {"none"} : thread' = [thread EXCEPT ![f] = st]
    BY <1>0, <1>8, FarmerFrame
  <2>3. thread[f] # "none"
    BY <1>0, <1>8, FarmerFrame
  <2>4. \A g \in Farmers : thread'[g] # "none" => thread[g] # "none"
    BY <1>0, <2>2, <2>3
  <2> QED
    BY <1>1, <2>1, <2>4 DEF PaceInv, Allowed
<1>9. CASE Tick
  <2>1. now' = now + 1 /\ UNCHANGED <<delay, batch, main, i, wake, thread>>
    BY <1>9 DEF Tick, farmVars, mainVars, farmerVars
  <2>2. Allowed(now + 1) \in Nat /\ Allowed(now) <= Allowed(now + 1)
    BY <1>0, AllowedGrows
  <2>3. Allowed(now)' = Allowed(now + 1)
    BY <2>1 DEF Allowed
  <2>4. Farmers \subseteq Int
    BY DEF Farmers
  <2>5. /\ main' = "create" => i' <= Allowed(now + 1)
        /\ \A f \in Farmers : thread'[f] # "none" => f <= Allowed(now + 1)
    BY <1>0, <1>1, <1>2, <2>1, <2>2, <2>4
  <2> QED
    BY <1>1, <2>1, <2>3, <2>5 DEF PaceInv
<1>10. CASE UNCHANGED vars
  BY <1>1, <1>10 DEF PaceInv, Allowed, vars, farmVars, mainVars, farmerVars
<1> QED
  BY <1>3, <1>4, <1>5, <1>6, <1>7, <1>8, <1>9, <1>10 DEF Next, Main, MainWorks, Stopped

(* run_farm never starts more farmers than the batches due by then hold.    *)
THEOREM PaceKept == Spec => []Pacing
<1>1. PaceInv => Pacing
  BY DEF PaceInv, Pacing, Allowed
<1>2. Init /\ [][Next]_vars => []FarmInv
  BY InitFarmInv, StepFarmInv, PTL
<1> QED
  BY <1>1, <1>2, InitPace, StepPace, PTL DEF Spec

-----------------------------------------------------------------------------
(* What a farmer does.                                                      *)

AtMost(f) == IF Count[f] > 0 THEN Count[f] ELSE 0

(* The runs a farmer has completed, by where it is: none before its first   *)
(* round, whole rounds between rounds, and j more inside one.               *)
Progress(f) ==
    /\ thread[f] \in {"none", "init"} => rounds[f] = 0 /\ runs[f] = 0
    /\ thread[f] = "round" => /\ runs[f] = rounds[f] * Profiles[f]
                              /\ Profiles[f] > 0
                              /\ Time[f] = -1 => rounds[f] <= AtMost(f)
    /\ thread[f] = "profile" => /\ runs[f] = rounds[f] * Profiles[f] + j[f]
                                /\ j[f] < Profiles[f]
                                /\ Time[f] = -1 => rounds[f] < Count[f]

(* What Quota says of one farmer. *)
Fulfilled(f) ==
    thread[f] = "ended" /\ stat[f] = "success" =>
       /\ runs[f] = rounds[f] * Profiles[f]
       /\ Time[f] = -1 => rounds[f] = AtMost(f)
       /\ Time[f] # -1 => now >= stop[f]

QuotaInv == \A f \in Farmers : Progress(f) /\ Fulfilled(f)

LEMMA InitQuota == Init => QuotaInv
  BY DEF Init, QuotaInv, Progress, Fulfilled

(* The one farmer that moves keeps its own account. *)
LEMMA OwnQuota ==
    ASSUME TypeOK, NEW f \in Farmers, Farmer(f), Progress(f)
    PROVE  Progress(f)' /\ Fulfilled(f)'
<1> USE DEF TypeOK
<1>0. /\ Count[f] \in Int /\ Time[f] \in Int /\ Profiles[f] \in Nat
      /\ rounds[f] \in Nat /\ runs[f] \in Nat /\ j[f] \in Nat /\ now \in Nat
      /\ stop[f] \in Int
  BY FarmAssumption
<1>1. CASE BeginFarmer(f)
  <2>1. /\ thread'[f] = "round" /\ thread[f] = "init" /\ Profiles[f] > 0
        /\ rounds' = rounds /\ runs' = runs
    BY <1>1 DEF BeginFarmer
  <2> QED
    BY <1>0, <2>1 DEF Progress, Fulfilled, AtMost
<1>2. CASE NoProfiles(f)
  <2>1. thread'[f] = "ended" /\ stat'[f] = "error"
    BY <1>2 DEF NoProfiles, End
  <2> QED
    BY <2>1 DEF Progress, Fulfilled
<1>3. CASE BeginRound(f)
  <2>1. /\ thread'[f] = "profile" /\ thread[f] = "round" /\ j'[f] = 0
        /\ rounds' = rounds /\ runs' = runs
        /\ Time[f] = -1 => rounds[f] < Count[f]
    BY <1>3 DEF BeginRound, MoreRounds
  <2> QED
    BY <1>0, <2>1 DEF Progress, Fulfilled
<1>4. CASE EndFarmer(f)
  <2>1. /\ thread'[f] = "ended" /\ thread[f] = "round"
        /\ UNCHANGED <<rounds, runs, now, stop>>
        /\ IF Time[f] = -1 THEN ~(rounds[f] < Count[f]) ELSE ~(now < stop[f])
    BY <1>4 DEF EndFarmer, End, MoreRounds
  <2> QED
    BY <1>0, <2>1 DEF Progress, Fulfilled, AtMost
<1>5. CASE RunProfileOK(f)
  <2>1. /\ thread[f] = "profile" /\ runs'[f] = runs[f] + 1 /\ j'[f] = j[f] + 1
    BY <1>5 DEF RunProfileOK
  <2>2. CASE RoundDone(f)
    <3>1. thread'[f] = "round" /\ rounds'[f] = rounds[f] + 1 /\ j[f] + 1 = Profiles[f]
      BY <1>5, <2>2 DEF RunProfileOK, RoundDone
    <3>2. (rounds[f] + 1) * Profiles[f] = rounds[f] * Profiles[f] + Profiles[f]
      BY <1>0
    <3>3. runs'[f] = rounds'[f] * Profiles[f]
      BY <1>0, <2>1, <3>1, <3>2 DEF Progress
    <3> QED
      BY <1>0, <2>1, <3>1, <3>3 DEF Progress, Fulfilled, AtMost
  <2>3. CASE ~RoundDone(f)
    <3>1. thread'[f] = "profile" /\ rounds' = rounds /\ j[f] + 1 # Profiles[f]
      BY <1>5, <2>1, <2>3 DEF RunProfileOK, RoundDone
    <3>2. rounds[f] * Profiles[f] \in Nat
      BY <1>0
    <3> QED
      BY <1>0, <2>1, <3>1, <3>2 DEF Progress, Fulfilled
  <2> QED
    BY <2>2, <2>3
<1>6. CASE RunProfileFails(f)
  <2>1. thread'[f] = "ended" /\ stat'[f] = "error"
    BY <1>6 DEF RunProfileFails, End
  <2> QED
    BY <2>1 DEF Progress, Fulfilled
<1>7. CASE ProfileExits(f)
  <2>1. thread[f] = "profile" /\ UNCHANGED <<thread, rounds, runs, j>>
    BY <1>7 DEF ProfileExits, farmerVars
  <2> QED
    BY <2>1 DEF Progress, Fulfilled
<1> QED
  BY <1>1, <1>2, <1>3, <1>4, <1>5, <1>6, <1>7 DEF Farmer

(* It leaves the accounts of the others alone. *)
LEMMA OtherQuota ==
    ASSUME TypeOK, NEW f \in Farmers, Farmer(f), NEW g \in Farmers, g # f
    PROVE  /\ now' = now
           /\ thread'[g] = thread[g] /\ stat'[g] = stat[g] /\ stop'[g] = stop[g]
           /\ rounds'[g] = rounds[g] /\ runs'[g] = runs[g] /\ j'[g] = j[g]
  BY DEF TypeOK, Farmer, BeginFarmer, NoProfiles, BeginRound, EndFarmer, RunProfileOK,
         RunProfileFails, ProfileExits, End, farmerVars

LEMMA StepQuota == FarmInv /\ QuotaInv /\ [Next]_vars => QuotaInv'
<1> SUFFICES ASSUME FarmInv, QuotaInv, [Next]_vars, NEW g \in Farmers
             PROVE  Progress(g)' /\ Fulfilled(g)'
  BY DEF QuotaInv
<1>0. TypeOK /\ IndexInFarm /\ Progress(g) /\ Fulfilled(g)
  BY DEF FarmInv, QuotaInv
<1>1. CASE Main
  <2>1. /\ Starts \/ Moves
        /\ UNCHANGED <<now, stat, stop, rounds, j, runs>>
    BY <1>0, <1>1, MainFrame
  <2>2. thread'[g] = thread[g] \/ (thread[g] = "none" /\ thread'[g] = "init")
    <3>1. CASE Moves
      BY <3>1 DEF Moves
    <3>2. CASE Starts
      <4>1. main = "create" /\ Running
        BY <1>0, <1>1, <3>2, MainFrame DEF Starts, Running
      <4>2. i \in Farmers /\ thread[i] = "none"
        BY <1>0, <4>1, FarmAssumption
           DEF TypeOK, IndexInFarm, FarmInv, CreatedInOrder, Farmers
      <4> QED
        BY <1>0, <3>2, <4>2 DEF Starts, TypeOK
    <3> QED
      BY <2>1, <3>1, <3>2
  <2> QED
    BY <1>0, <2>1, <2>2 DEF Progress, Fulfilled
<1>2. ASSUME NEW f \in Farmers, Farmer(f)
      PROVE  Progress(g)' /\ Fulfilled(g)'
  <2>1. CASE g = f
    BY <1>0, <1>2, <2>1, OwnQuota
  <2>2. CASE g # f
    BY <1>0, <1>2, <2>2, OtherQuota DEF Progress, Fulfilled
  <2> QED
    BY <2>1, <2>2
<1>3. CASE Tick
  <2>1. /\ now' = now + 1 /\ now \in Nat /\ stop[g] \in Int
        /\ UNCHANGED <<thread, stat, stop, rounds, j, runs>>
    BY <1>0, <1>3 DEF Tick, TypeOK, farmerVars
  <2> QED
    BY <1>0, <2>1 DEF Progress, Fulfilled
<1>4. CASE UNCHANGED vars
  BY <1>0, <1>4 DEF Progress, Fulfilled, vars, farmerVars
<1> QED
  BY <1>1, <1>2, <1>3, <1>4 DEF Next, Stopped

(* A farmer that ends well has run every profile in each of its rounds, as  *)
(* many rounds as <count> says, or until its <time> was over.               *)
THEOREM QuotaKept == Spec => []Quota
<1>1. QuotaInv => Quota
  BY DEF QuotaInv, Fulfilled, Quota, AtMost
<1>2. Init /\ [][Next]_vars => []FarmInv
  BY InitFarmInv, StepFarmInv, PTL
<1> QED
  BY <1>1, <1>2, InitQuota, StepQuota, PTL DEF Spec
=============================================================================
