--------------------------- MODULE StartupProofs ---------------------------
(***************************************************************************)
(* For every set of configuration files: a profile that runs has, for each *)
(* handler, the implementation its element means, and handlers of a class  *)
(* come from one family unless one of them is named on its own; the two    *)
(* loops over the farm's elements agree on the size of its table.          *)
(***************************************************************************)
EXTENDS Startup, FiniteSetTheorems, SequenceTheorems, TLAPS

(* The group of class number k has a say on handler h. *)
Taken(k, h) == Classes[k] \in DOMAIN profile.group /\ h \in Members[Classes[k]]

(* The table after the first n classes, seen at handler h. *)
ByGroup(n, h) ==
    \/ \E k \in 1..n : /\ Taken(k, h)
                       /\ events[h] = profile.group[Classes[k]]
                       /\ events[h] \in Groups[Classes[k]]
    \/ (\A k \in 1..n : ~Taken(k, h)) /\ events[h] = "generic"

(* The table after all classes and the first n handlers. *)
OnItsOwn(n, h) == h \in DOMAIN profile.single /\ \E k \in 1..n : HandlerNames[k] = h

BySingle(n, h) ==
    IF OnItsOwn(n, h) THEN events[h] = profile.single[h].family /\ Implements(events[h], h)
    ELSE ByGroup(3, h)

TableInv ==
    /\ profile \in Profiles
    /\ at \in Nat \ {0}
    /\ DOMAIN events = Handlers
    /\ stage \in {"defaults", "groups", "singles", "ready", "failed", "crashed"}
    /\ stage = "defaults" => at = 1
    /\ stage = "groups" => at <= 4 /\ \A h \in Handlers : ByGroup(at - 1, h)
    /\ stage = "singles" => at <= 20 /\ \A h \in Handlers : BySingle(at - 1, h)
    /\ stage = "ready" => \A h \in Handlers : BySingle(19, h)

-----------------------------------------------------------------------------
(* The tables of flood_profile.c. *)

LEMMA ClassTable ==
    /\ Len(Classes) = 3
    /\ \A k \in 1..3 : Classes[k] \in ClassNames
    /\ \A c \in ClassNames : \E k \in 1..3 : Classes[k] = c
<1>1. Classes[1] = "report" /\ Classes[2] = "socket" /\ Classes[3] = "profiletype"
  BY DEF Classes
<1>2. Len(Classes) = 3
  BY DEF Classes
<1> QED
  BY <1>1, <1>2 DEF ClassNames

LEMMA HandlerTable ==
    /\ Len(HandlerNames) = 19
    /\ \A k \in 1..19 : HandlerNames[k] \in Handlers
    /\ \A h \in Handlers : \E k \in 1..19 : HandlerNames[k] = h
<1>1. Len(HandlerNames) = 19 /\ DOMAIN HandlerNames = 1..19
  BY DEF HandlerNames
<1> QED
  BY <1>1 DEF Handlers

(* No handler belongs to two classes. *)
LEMMA ClassesDisjoint ==
    ASSUME NEW c \in ClassNames, NEW d \in ClassNames, NEW h \in Members[c], h \in Members[d]
    PROVE  c = d
  BY DEF ClassNames, Members

(* The members of a class are handlers, and there is one. *)
LEMMA HandlerMembers ==
    ASSUME NEW c \in ClassNames
    PROVE  Members[c] \subseteq Handlers /\ Members[c] # {}
<1>1. \A k \in 1..19 : HandlerNames[k] \in Handlers
  BY HandlerTable
<1>2. /\ "profile_init" \in Handlers /\ "report_init" \in Handlers
      /\ "get_next_url" \in Handlers /\ "socket_init" \in Handlers
      /\ "begin_conn" \in Handlers /\ "create_req" \in Handlers
      /\ "send_req" \in Handlers /\ "recv_resp" \in Handlers
      /\ "postprocess" \in Handlers /\ "process_stats" \in Handlers
      /\ "loop_condition" \in Handlers /\ "end_conn" \in Handlers
      /\ "socket_destroy" \in Handlers /\ "report_stats" \in Handlers
      /\ "destroy_report" \in Handlers /\ "profile_destroy" \in Handlers
  BY <1>1 DEF HandlerNames
<1> QED
  BY <1>2 DEF ClassNames, Members

-----------------------------------------------------------------------------
(* The loops keep the table. *)

LEMMA TableInit == Init => TableInv
  BY DEF Init, ProfileInit, TableInv

LEMMA DefaultsStep ==
    ASSUME TableInv, Defaults
    PROVE  TableInv'
<1>1. stage' = "groups" /\ at' = 1 /\ profile' = profile
  BY DEF Defaults, Following, TableInv
<1>2. \A h \in Handlers : ByGroup(0, h)'
  BY DEF Defaults, ByGroup, Taken
<1> QED
  BY <1>1, <1>2 DEF Defaults, TableInv

LEMMA GroupStepKeeps ==
    ASSUME TableInv, GroupStep
    PROVE  TableInv'
<1> USE DEF TableInv
<1>0. /\ profile' = profile
      /\ Len(Classes) = 3
      /\ \A h \in Handlers : ByGroup(at - 1, h)
  BY ClassTable DEF GroupStep, LoopDone, Skip, AssignGroup, Refuse, Crash
<1>1. CASE LoopDone(Len(Classes))
  <2>1. stage' = "singles" /\ at' = 1 /\ at = 4 /\ events' = events
    BY <1>0, <1>1 DEF GroupStep, LoopDone, Following
  <2>2. \A h \in Handlers : BySingle(0, h)'
    BY <1>0, <2>1 DEF BySingle, OnItsOwn, ByGroup, Taken
  <2> QED
    BY <1>0, <2>1, <2>2
<1>2. CASE at <= Len(Classes) /\ Skip(HasGroup)
  <2>1. stage' = "groups" /\ at' = at + 1 /\ events' = events /\ at <= 3
    BY <1>0, <1>2 DEF GroupStep, Skip
  <2>2. \A h \in Handlers : ~Taken(at, h)
    BY <1>2 DEF Skip, HasGroup, Class, Taken
  <2>3. \A h \in Handlers : ByGroup(at - 1, h)'
    BY <1>0, <2>1, <2>2 DEF ByGroup, Taken
  <2> QED
    BY <1>0, <2>1, <2>3
<1>3. CASE at <= Len(Classes) /\ AssignGroup
  <2>1. /\ stage' = "groups" /\ at' = at + 1 /\ at <= 3
        /\ HasGroup /\ Group \in Groups[Class]
        /\ events' = Assigned(Group, Members[Class])
    BY <1>0, <1>3 DEF GroupStep, AssignGroup
  <2>2. ASSUME NEW h \in Handlers PROVE ByGroup(at - 1, h)'
    <3>1. CASE h \in Members[Class]
      BY <1>0, <2>1, <3>1 DEF ByGroup, Taken, Assigned, HasGroup, Group, Class
    <3>2. CASE h \notin Members[Class]
      <4>1. events'[h] = events[h] /\ ~Taken(at, h)
        BY <2>1, <3>2 DEF Assigned, Taken, Class
      <4> QED
        BY <1>0, <2>1, <4>1 DEF ByGroup, Taken
    <3> QED
      BY <3>1, <3>2
  <2> QED
    BY <1>0, <2>1, <2>2 DEF Assigned
<1>4. CASE Refuse \/ Crash
  BY <1>4 DEF Refuse, Crash
<1> QED
  BY <1>1, <1>2, <1>3, <1>4 DEF GroupStep

LEMMA SingleStepKeeps ==
    ASSUME TableInv, SingleStep
    PROVE  TableInv'
<1> USE DEF TableInv
<1>0. /\ profile' = profile
      /\ Len(HandlerNames) = 19
      /\ \A h \in Handlers : BySingle(at - 1, h)
  BY HandlerTable DEF SingleStep, LoopDone, Skip, AssignSingle, Refuse, Crash
<1>1. CASE LoopDone(Len(HandlerNames))
  <2>1. stage' = "ready" /\ at' = 1 /\ at = 20 /\ events' = events
    BY <1>0, <1>1 DEF SingleStep, LoopDone, Following
  <2>2. \A h \in Handlers : BySingle(19, h)'
    BY <1>0, <2>1 DEF BySingle, OnItsOwn, ByGroup, Taken
  <2> QED
    BY <1>0, <2>1, <2>2
<1>2. CASE at <= Len(HandlerNames) /\ Skip(HasSingle)
  <2>1. stage' = "singles" /\ at' = at + 1 /\ events' = events /\ at <= 19
    BY <1>0, <1>2 DEF SingleStep, Skip
  <2>2. ASSUME NEW h \in Handlers PROVE BySingle(at - 1, h)'
    <3>1. OnItsOwn(at - 1, h)' <=> OnItsOwn(at - 1, h)
      BY <1>0, <1>2, <2>1 DEF OnItsOwn, Skip, HasSingle, Handler
    <3> QED
      BY <1>0, <2>1, <3>1 DEF BySingle, ByGroup, Taken
  <2> QED
    BY <1>0, <2>1, <2>2
<1>3. CASE at <= Len(HandlerNames) /\ AssignSingle
  <2>1. /\ stage' = "singles" /\ at' = at + 1 /\ at <= 19
        /\ HasSingle /\ Fits
        /\ events' = [events EXCEPT ![Handler] = Single.family]
    BY <1>0, <1>3 DEF SingleStep, AssignSingle
  <2>2. ASSUME NEW h \in Handlers PROVE BySingle(at - 1, h)'
    <3>1. CASE h = Handler
      <4>1. OnItsOwn(at - 1, h)'
        BY <1>0, <2>1, <3>1 DEF OnItsOwn, HasSingle, Handler
      <4>2. events'[h] = profile.single[h].family /\ Implements(events'[h], h)
        BY <2>1, <3>1 DEF Fits, Single
      <4> QED
        BY <1>0, <4>1, <4>2 DEF BySingle, Implements
    <3>2. CASE h # Handler
      <4>1. events'[h] = events[h]
        BY <2>1, <3>2
      <4>2. OnItsOwn(at - 1, h)' <=> OnItsOwn(at - 1, h)
        BY <1>0, <2>1, <3>2 DEF OnItsOwn, Handler
      <4> QED
        BY <1>0, <4>1, <4>2 DEF BySingle, ByGroup, Taken, Implements
    <3> QED
      BY <3>1, <3>2
  <2> QED
    BY <1>0, <2>1, <2>2
<1>4. CASE Refuse \/ Crash
  BY <1>4 DEF Refuse, Crash
<1> QED
  BY <1>1, <1>2, <1>3, <1>4 DEF SingleStep

LEMMA TableNext == TableInv /\ [Next]_vars => TableInv'
<1> SUFFICES ASSUME TableInv, [Next]_vars PROVE TableInv'
  OBVIOUS
<1>1. CASE ReadProfile
  BY <1>1, DefaultsStep, GroupStepKeeps, SingleStepKeeps DEF ReadProfile, ProfileStep
<1>2. CASE UNCHANGED profileVars
  BY <1>2 DEF profileVars, TableInv, ByGroup, BySingle, OnItsOwn, Taken
<1> QED
  BY <1>1, <1>2 DEF Next, ReadFarm, Stopped, vars

LEMMA TableAlways == Spec => []TableInv
  BY TableInit, TableNext, PTL DEF Spec

-----------------------------------------------------------------------------
(* With all classes and handlers gone through, the table is the one meant.  *)
LEMMA InvMeansTable == TableInv => TableAsMeant
<1> SUFFICES ASSUME TableInv, stage = "ready", NEW h \in Handlers
             PROVE  events[h] = Meant(h) /\ Implements(events[h], h)
  BY DEF TableAsMeant
<1>1. BySingle(19, h) /\ \E k \in 1..19 : HandlerNames[k] = h
  BY HandlerTable DEF TableInv
<1>2. CASE h \in DOMAIN profile.single
  BY <1>1, <1>2 DEF BySingle, OnItsOwn, Meant
<1>3. CASE h \notin DOMAIN profile.single
  <2>1. ByGroup(3, h) /\ DOMAIN profile.group \subseteq ClassNames
    BY <1>1, <1>3, ProfilesAssumption DEF BySingle, OnItsOwn, TableInv
  <2>2. CASE \E k \in 1..3 : Taken(k, h) /\ events[h] = profile.group[Classes[k]]
                                         /\ events[h] \in Groups[Classes[k]]
    <3>1. PICK k \in 1..3 : Taken(k, h) /\ events[h] = profile.group[Classes[k]]
                                        /\ events[h] \in Groups[Classes[k]]
      BY <2>2
    <3>2. Classes[k] \in ClassNames /\ Classes[k] \in DOMAIN profile.group
          /\ h \in Members[Classes[k]]
      BY <3>1, ClassTable DEF Taken
    <3>3. \A c \in DOMAIN profile.group : h \in Members[c] => c = Classes[k]
      BY <2>1, <3>2, ClassesDisjoint
    <3>4. (CHOOSE c \in DOMAIN profile.group : h \in Members[c]) = Classes[k]
      BY <3>2, <3>3
    <3> QED
      BY <1>3, <3>1, <3>2, <3>4 DEF Meant, Implements
  <2>3. CASE (\A k \in 1..3 : ~Taken(k, h)) /\ events[h] = "generic"
    <3>1. ~ \E c \in DOMAIN profile.group : h \in Members[c]
      BY <2>1, <2>3, ClassTable DEF Taken
    <3> QED
      BY <1>3, <2>3, <3>1 DEF Meant, Implements
  <2> QED
    BY <2>1, <2>2, <2>3 DEF ByGroup
<1> QED
  BY <1>2, <1>3

(* initialize_events goes through groups first and single handlers last, so *)
(* every handler has the implementation its profile element means.          *)
THEOREM HandlersAsMeant == Spec => []TableAsMeant
  BY TableAlways, InvMeansTable, PTL

(* The handlers of a socket, of a report and of a profile type come from    *)
(* one family each, unless the profile names one of them on its own.        *)
THEOREM FamiliesAgree == Spec => []OneFamily
<1>1. TableInv => OneFamily
  <2> SUFFICES ASSUME TableInv, stage = "ready", NEW c \in ClassNames,
                      Members[c] \cap DOMAIN profile.single = {}
               PROVE  \E family \in Families : \A h \in Members[c] : events[h] = family
    BY DEF OneFamily
  <2>1. Members[c] \subseteq Handlers
    BY HandlerMembers
  <2>2. \A h \in Members[c] : events[h] = Meant(h) /\ h \notin DOMAIN profile.single
    BY <2>1, InvMeansTable DEF TableAsMeant
  <2>3. DOMAIN profile.group \subseteq ClassNames
    BY ProfilesAssumption DEF TableInv
  <2>4. CASE c \in DOMAIN profile.group
    <3>1. ASSUME NEW h \in Members[c] PROVE events[h] = profile.group[c]
      <4>1. (CHOOSE d \in DOMAIN profile.group : h \in Members[d]) = c
        BY <2>3, <2>4, ClassesDisjoint
      <4> QED
        BY <2>2, <2>4, <4>1 DEF Meant
    <3>2. profile.group[c] \in Families
      <4>1. PICK h \in Members[c] : h \in Handlers
        BY HandlerMembers
      <4>2. Implements(profile.group[c], h)
        BY <3>1, <4>1, InvMeansTable DEF TableAsMeant
      <4> QED
        BY <4>2 DEF Implements, Families
    <3> QED
      BY <3>1, <3>2
  <2>5. CASE c \notin DOMAIN profile.group
    <3>1. \A h \in Members[c] : ~ \E d \in DOMAIN profile.group : h \in Members[d]
      BY <2>3, <2>5, ClassesDisjoint
    <3>2. \A h \in Members[c] : events[h] = "generic"
      BY <2>2, <3>1 DEF Meant
    <3> QED
      BY <3>2 DEF Families
  <2> QED
    BY <2>4, <2>5
<1> QED
  BY <1>1, TableAlways, PTL

-----------------------------------------------------------------------------
(* The loops of run_farm. *)

(* The farmers the first m - 1 elements ask for, all and of one name. *)
ClonesBefore(m) == UNION {{k} \X (1..Asked(k)) : k \in 1..(m - 1)}
ClonesNamed(m, n) == {c \in ClonesBefore(m) : farm[c[1]].name = n}
Extended(s, name, b) == s \o [k \in 1..b |-> name]
PlacesOf(s, n) == {k \in 1..Len(s) : s[k] = n}
Places(n) == PlacesOf(usefarmer_names, n)

InTable(m) ==
    /\ Len(usefarmer_names) = Cardinality(ClonesBefore(m))
    /\ \A n \in FarmerNames : Cardinality(Places(n)) = Cardinality(ClonesNamed(m, n))

Countable == \A k \in 1..Len(farm) : Asked(k) >= 0

(* How far the count and the table are. *)
NamesInv ==
    /\ farm \in Farms
    /\ loop \in {"count", "names", "started", "refused"}
    /\ e \in 1..(Len(farm) + 1)
    /\ usefarmer_names \in Seq(FarmerNames)
    /\ Countable =>
         /\ IsFiniteSet(ClonesBefore(e))
         /\ loop = "count" => usefarmer_names = <<>> /\ usefarmer_count = Cardinality(ClonesBefore(e))
         /\ loop \in {"names", "started"} =>
              /\ InTable(e)
              /\ Clone # {} => usefarmer_count = Cardinality(Clone)
         /\ loop = "started" => e = Len(farm) + 1

(* Disjoint sets add up; a place is paired with as many numbers as there are. *)
LEMMA AddDisjoint ==
    ASSUME NEW S, IsFiniteSet(S), NEW T, IsFiniteSet(T), \A x \in S : x \notin T
    PROVE  /\ IsFiniteSet(S \cup T) /\ Cardinality(S \cup T) \in Nat
           /\ Cardinality(S \cup T) = Cardinality(S) + Cardinality(T)
<1>1. S \cap T = {}
  OBVIOUS
<1>2. Cardinality(S \cap T) = 0
  BY <1>1, FS_EmptySet
<1>3. Cardinality(S) \in Nat /\ Cardinality(T) \in Nat
  BY FS_CardinalityType
<1>4. IsFiniteSet(S \cup T) /\ Cardinality(S \cup T) = Cardinality(S) + Cardinality(T) - Cardinality(S \cap T)
  BY FS_Union
<1> QED
  BY <1>2, <1>3, <1>4

LEMMA PairCount ==
    ASSUME NEW m, NEW b \in Nat
    PROVE  IsFiniteSet({m} \X (1..b)) /\ Cardinality({m} \X (1..b)) = b
<1>1. IsFiniteSet({m}) /\ Cardinality({m}) = 1
  BY FS_Singleton
<1>2. IsFiniteSet(1..b) /\ Cardinality(1..b) = b
  BY FS_Interval
<1>3. /\ IsFiniteSet({m} \X (1..b))
      /\ Cardinality({m} \X (1..b)) = Cardinality({m}) * Cardinality(1..b)
  BY <1>1, <1>2, FS_Product
<1> QED
  BY <1>1, <1>2, <1>3

(* The next element adds as many farmers as it asks for, all of its name. *)
LEMMA NoneBefore == ClonesBefore(1) = {} /\ \A n : ClonesNamed(1, n) = {}
  BY DEF ClonesBefore, ClonesNamed

LEMMA AskedInt ==
    ASSUME farm \in Farms
    PROVE  /\ Len(farm) \in Nat
           /\ \A k \in 1..Len(farm) : Asked(k) \in Int /\ farm[k].name \in FarmerNames
  BY FarmsAssumption DEF Asked

LEMMA OneMore ==
    ASSUME farm \in Farms, NEW m \in 1..Len(farm)
    PROVE  ClonesBefore(m + 1) = ClonesBefore(m) \cup ({m} \X (1..Asked(m)))
<1>1. 1..(m + 1 - 1) = (1..(m - 1)) \cup {m}
  BY AskedInt
<1> DEFINE Of(k) == {k} \X (1..Asked(k))
<1>2. /\ ClonesBefore(m + 1) = UNION {Of(k) : k \in 1..(m + 1 - 1)}
      /\ ClonesBefore(m) = UNION {Of(k) : k \in 1..(m - 1)}
  BY DEF ClonesBefore
<1> HIDE DEF Of
<1>3. UNION {Of(k) : k \in (1..(m - 1)) \cup {m}} = (UNION {Of(k) : k \in 1..(m - 1)}) \cup Of(m)
  OBVIOUS
<1> QED
  BY <1>1, <1>2, <1>3 DEF Of

LEMMA NotBefore ==
    ASSUME farm \in Farms, NEW m \in 1..(Len(farm) + 1), NEW c \in ClonesBefore(m)
    PROVE  c[1] \in 1..(m - 1)
  BY DEF ClonesBefore

LEMMA ClonesAdd ==
    ASSUME farm \in Farms, Countable, NEW m \in 1..Len(farm), IsFiniteSet(ClonesBefore(m))
    PROVE  /\ IsFiniteSet(ClonesBefore(m + 1))
           /\ Cardinality(ClonesBefore(m + 1)) = Cardinality(ClonesBefore(m)) + Asked(m)
           /\ \A n : Cardinality(ClonesNamed(m + 1, n)) =
                       Cardinality(ClonesNamed(m, n)) + (IF farm[m].name = n THEN Asked(m) ELSE 0)
<1> DEFINE New == {m} \X (1..Asked(m))
<1>1. Len(farm) \in Nat /\ Asked(m) \in Nat
  BY AskedInt DEF Countable
<1>2. \A c \in ClonesBefore(m) : c \notin New
  <2>1. m \in 1..(Len(farm) + 1)
    BY <1>1
  <2>2. \A c \in ClonesBefore(m) : c[1] \in 1..(m - 1)
    BY <2>1, NotBefore
  <2>3. \A c \in New : c[1] = m
    OBVIOUS
  <2> QED
    BY <1>1, <2>2, <2>3
<1>3. ClonesBefore(m + 1) = ClonesBefore(m) \cup New
  BY OneMore
<1>0. IsFiniteSet(New) /\ Cardinality(New) = Asked(m) /\ \A c \in New : c[1] = m
  BY <1>1, PairCount
<1> HIDE DEF New
<1>4. /\ IsFiniteSet(ClonesBefore(m + 1))
      /\ Cardinality(ClonesBefore(m + 1)) = Cardinality(ClonesBefore(m)) + Asked(m)
  BY <1>0, <1>1, <1>2, <1>3, AddDisjoint
<1>5. ASSUME NEW n
      PROVE  Cardinality(ClonesNamed(m + 1, n)) =
               Cardinality(ClonesNamed(m, n)) + (IF farm[m].name = n THEN Asked(m) ELSE 0)
  <2>1. IsFiniteSet(ClonesNamed(m, n)) /\ Cardinality(ClonesNamed(m, n)) \in Nat
    <3>1. ClonesNamed(m, n) \subseteq ClonesBefore(m)
      BY DEF ClonesNamed
    <3>2. IsFiniteSet(ClonesNamed(m, n))
      BY <3>1, FS_Subset
    <3> QED
      BY <3>2, FS_CardinalityType
  <2>2. \A c \in New : farm[c[1]].name = farm[m].name
    BY <1>0
  <2>3. CASE farm[m].name = n
    <3>1. ClonesNamed(m + 1, n) = ClonesNamed(m, n) \cup New
      BY <1>3, <2>2, <2>3 DEF ClonesNamed
    <3>2. \A c \in ClonesNamed(m, n) : c \notin New
      BY <1>2 DEF ClonesNamed
    <3> QED
      BY <1>0, <1>1, <2>1, <2>3, <3>1, <3>2, AddDisjoint
  <2>4. CASE farm[m].name # n
    <3>1. ClonesNamed(m + 1, n) = ClonesNamed(m, n)
      BY <1>3, <2>2, <2>4 DEF ClonesNamed
    <3> QED
      BY <2>1, <2>4, <3>1
  <2> QED
    BY <2>3, <2>4
<1> QED
  BY <1>4, <1>5

(* The names of one element take the next places of the table. *)
LEMMA PlacesAdd ==
    ASSUME NEW s, s \in Seq(FarmerNames), NEW name, name \in FarmerNames, NEW b, b \in Nat,
           NEW t, t = Extended(s, name, b)
    PROVE  /\ t \in Seq(FarmerNames)
           /\ Len(t) = Len(s) + b
           /\ Cardinality(PlacesOf(t, name)) = Cardinality(PlacesOf(s, name)) + b
           /\ \A n : n # name => PlacesOf(t, n) = PlacesOf(s, n)
<1> DEFINE new == [k \in 1..b |-> name]
<1>1. new \in Seq(FarmerNames) /\ Len(new) = b /\ \A k \in 1..b : new[k] = name
  OBVIOUS
<1>2. t = s \o new
  BY DEF Extended
<1> HIDE DEF new
<1>3. /\ t \in Seq(FarmerNames) /\ Len(t) = Len(s) + b /\ Len(s) \in Nat
      /\ \A k \in 1..Len(t) : t[k] = IF k <= Len(s) THEN s[k] ELSE new[k - Len(s)]
  <2>1. /\ s \o new \in Seq(FarmerNames) /\ Len(s \o new) = Len(s) + Len(new)
        /\ \A k \in 1..(Len(s) + Len(new)) :
              (s \o new)[k] = IF k <= Len(s) THEN s[k] ELSE new[k - Len(s)]
    BY <1>1, ConcatProperties
  <2>2. Len(s) \in Nat
    BY LenProperties
  <2> QED
    BY <1>1, <1>2, <2>1, <2>2
<1>4. ASSUME NEW k \in 1..Len(t)
      PROVE  t[k] = IF k <= Len(s) THEN s[k] ELSE name
  <2>1. t[k] = IF k <= Len(s) THEN s[k] ELSE new[k - Len(s)]
    BY <1>3
  <2>2. ~(k <= Len(s)) => k - Len(s) \in 1..b
    BY <1>3
  <2> QED
    BY <1>1, <2>1, <2>2
<1>5. \A n : n # name => PlacesOf(t, n) = PlacesOf(s, n)
  BY <1>3, <1>4 DEF PlacesOf
<1>6. Cardinality(PlacesOf(t, name)) = Cardinality(PlacesOf(s, name)) + b
  <2> DEFINE Old == PlacesOf(s, name)
             Fresh == (Len(s) + 1)..(Len(s) + b)
  <2>1. IsFiniteSet(Old)
    <3>1. IsFiniteSet(1..Len(s))
      BY <1>3, FS_Interval
    <3> QED
      BY <3>1, FS_Subset DEF PlacesOf
  <2>2. IsFiniteSet(Fresh) /\ Cardinality(Fresh) = b
    BY <1>3, FS_Interval
  <2>3. PlacesOf(t, name) = Old \cup Fresh
    BY <1>3, <1>4 DEF PlacesOf
  <2>4. \A x \in Old : x \notin Fresh
    BY <1>3 DEF PlacesOf
  <2> HIDE DEF Old, Fresh
  <2>5. Cardinality(Old \cup Fresh) = Cardinality(Old) + Cardinality(Fresh)
    BY <2>1, <2>2, <2>4, AddDisjoint
  <2> QED
    BY <2>2, <2>3, <2>5 DEF Old
<1> QED
  BY <1>3, <1>5, <1>6

LEMMA AllBefore == farm \in Farms => ClonesBefore(Len(farm) + 1) = Clone
<1> SUFFICES ASSUME farm \in Farms PROVE ClonesBefore(Len(farm) + 1) = Clone
  OBVIOUS
<1>1. Len(farm) + 1 - 1 = Len(farm)
  BY AskedInt
<1> QED
  BY <1>1 DEF ClonesBefore, Clone

-----------------------------------------------------------------------------
LEMMA NamesInit == Init => NamesInv
<1> SUFFICES ASSUME Init PROVE NamesInv
  OBVIOUS
<1>1. farm \in Farms /\ loop = "count" /\ e = 1 /\ usefarmer_count = 0 /\ usefarmer_names = <<>>
  BY DEF Init, FarmConfigInit
<1>2. 1 \in 1..(Len(farm) + 1)
  BY <1>1, AskedInt
<1>3. IsFiniteSet(ClonesBefore(1)) /\ Cardinality(ClonesBefore(1)) = 0
  BY NoneBefore, FS_EmptySet
<1> QED
  BY <1>1, <1>2, <1>3 DEF NamesInv

LEMMA CountStep ==
    ASSUME NamesInv, CountElement
    PROVE  NamesInv'
<1>1. /\ farm \in Farms /\ farm' = farm /\ loop = "count" /\ loop' = "count" /\ e' = e + 1
      /\ usefarmer_count' = usefarmer_count + Asked(e) /\ usefarmer_names' = usefarmer_names
      /\ e \in 1..Len(farm) /\ e + 1 \in 1..(Len(farm) + 1)
  BY AskedInt DEF NamesInv, CountElement, Count, Has, Asked
<1>2. Countable' = Countable /\ ClonesBefore(e)' = ClonesBefore(e + 1)
  BY <1>1 DEF Countable, Asked, ClonesBefore
<1>3. Countable => /\ IsFiniteSet(ClonesBefore(e + 1))
                   /\ Cardinality(ClonesBefore(e + 1)) = Cardinality(ClonesBefore(e)) + Asked(e)
  BY <1>1, ClonesAdd DEF NamesInv
<1> QED
  BY <1>1, <1>2, <1>3 DEF NamesInv

LEMMA CountedStep ==
    ASSUME NamesInv, Counted
    PROVE  NamesInv'
<1>1. /\ farm \in Farms /\ farm' = farm /\ loop = "count" /\ loop' = "names" /\ e' = 1
      /\ usefarmer_names' = usefarmer_names /\ e = Len(farm) + 1 /\ 1 \in 1..(Len(farm) + 1)
      /\ usefarmer_count # 0 => usefarmer_count' = usefarmer_count
  BY AskedInt DEF NamesInv, Counted
<1>2. Countable' = Countable /\ Clone' = Clone /\ InTable(e)' = InTable(1)'
  BY <1>1 DEF Countable, Asked, Clone, InTable
<1>3. ASSUME Countable
      PROVE  /\ IsFiniteSet(ClonesBefore(e)')
             /\ InTable(e)'
             /\ Clone # {} => usefarmer_count' = Cardinality(Clone)
  <2>1. ClonesBefore(1)' = {} /\ \A n : ClonesNamed(1, n)' = {}
    BY DEF ClonesBefore, ClonesNamed
  <2>2. usefarmer_names = <<>> /\ usefarmer_count = Cardinality(Clone) /\ IsFiniteSet(Clone)
    BY <1>1, <1>3, AllBefore DEF NamesInv
  <2>3. Cardinality({}) = 0 /\ IsFiniteSet({})
    BY FS_EmptySet
  <2>4. Len(usefarmer_names') = 0 /\ \A n : Places(n)' = {}
    BY <1>1, <2>2 DEF Places, PlacesOf
  <2>5. Clone # {} => Cardinality(Clone) # 0
    BY <2>2, FS_EmptySet
  <2>6. InTable(1)'
    BY <2>1, <2>3, <2>4 DEF InTable
  <2> QED
    BY <1>1, <1>2, <2>1, <2>2, <2>3, <2>5, <2>6 DEF ClonesBefore
<1> QED
  BY <1>1, <1>2, <1>3 DEF NamesInv

LEMMA NameStep ==
    ASSUME NamesInv, NameElement
    PROVE  NamesInv'
<1>1. /\ farm \in Farms /\ farm' = farm /\ loop = "names" /\ loop' = "names" /\ e' = e + 1
      /\ usefarmer_count' = usefarmer_count
      /\ e \in 1..Len(farm) /\ e + 1 \in 1..(Len(farm) + 1)
      /\ usefarmer_names' = usefarmer_names \o [k \in 1..Clones |-> farm[e].name]
      /\ usefarmer_names \in Seq(FarmerNames)
  BY AskedInt DEF NamesInv, NameElement
<1>2. /\ Clones \in Nat
      /\ Countable => Clones = Asked(e)
      /\ farm[e].name \in FarmerNames
  BY <1>1, AskedInt DEF Clones, Count, Has, Asked, Countable
<1>0. PICK name \in FarmerNames, b \in Nat : name = farm[e].name /\ b = Clones
  BY <1>2
<1>3. /\ usefarmer_names' \in Seq(FarmerNames)
      /\ Len(usefarmer_names') = Len(usefarmer_names) + b
      /\ Cardinality(Places(name)') = Cardinality(Places(name)) + b
      /\ \A n : n # name => Places(n)' = Places(n)
  <2>0. PICK s, t : s = usefarmer_names /\ t = usefarmer_names'
    OBVIOUS
  <2>1. s \in Seq(FarmerNames) /\ t = Extended(s, name, b)
    BY <1>0, <1>1, <2>0 DEF Extended
  <2>2. \A n : Places(n)' = PlacesOf(t, n) /\ Places(n) = PlacesOf(s, n)
    BY <2>0 DEF Places, PlacesOf
  <2>3. /\ t \in Seq(FarmerNames) /\ Len(t) = Len(s) + b
        /\ Cardinality(PlacesOf(t, name)) = Cardinality(PlacesOf(s, name)) + b
        /\ \A n : n # name => PlacesOf(t, n) = PlacesOf(s, n)
    BY <2>1, PlacesAdd
  <2> QED
    BY <2>0, <2>2, <2>3
<1>4. Countable' = Countable /\ ClonesBefore(e)' = ClonesBefore(e + 1) /\ Clone' = Clone
  BY <1>1 DEF Countable, Asked, ClonesBefore, Clone
<1>5. \A n : ClonesNamed(e, n)' = ClonesNamed(e + 1, n)
  BY <1>1, <1>4 DEF ClonesNamed
<1>6. ASSUME Countable PROVE IsFiniteSet(ClonesBefore(e + 1)) /\ InTable(e)'
  <2>1. IsFiniteSet(ClonesBefore(e)) /\ InTable(e)
    BY <1>1, <1>6 DEF NamesInv
  <2>2. /\ IsFiniteSet(ClonesBefore(e + 1))
        /\ Cardinality(ClonesBefore(e + 1)) = Cardinality(ClonesBefore(e)) + Asked(e)
        /\ \A n : Cardinality(ClonesNamed(e + 1, n)) =
                    Cardinality(ClonesNamed(e, n)) + (IF farm[e].name = n THEN Asked(e) ELSE 0)
    BY <1>1, <1>6, <2>1, ClonesAdd
  <2>3. ASSUME NEW n \in FarmerNames
        PROVE  Cardinality(Places(n)') = Cardinality(ClonesNamed(e, n)')
    <3>1. Cardinality(Places(n)) = Cardinality(ClonesNamed(e, n)) /\ Asked(e) = b
      BY <1>0, <1>2, <1>6, <2>1 DEF InTable
    <3>2. /\ ClonesNamed(e, n)' = ClonesNamed(e + 1, n)
          /\ n # name => Cardinality(ClonesNamed(e + 1, n)) = Cardinality(ClonesNamed(e, n)) + 0
          /\ n = name => Cardinality(ClonesNamed(e + 1, n)) = Cardinality(ClonesNamed(e, n)) + b
      BY <1>0, <1>5, <2>2, <3>1
    <3>3. Cardinality(ClonesNamed(e, n)) \in Nat
      <4>1. ClonesNamed(e, n) \subseteq ClonesBefore(e)
        BY DEF ClonesNamed
      <4>2. IsFiniteSet(ClonesNamed(e, n))
        BY <2>1, <4>1, FS_Subset
      <4> QED
        BY <4>2, FS_CardinalityType
    <3> QED
      BY <1>3, <3>1, <3>2, <3>3
  <2>4. Len(usefarmer_names') = Cardinality(ClonesBefore(e)')
    BY <1>0, <1>2, <1>3, <1>4, <1>6, <2>1, <2>2 DEF InTable
  <2> QED
    BY <2>2, <2>3, <2>4 DEF InTable
<1> QED
  BY <1>1, <1>3, <1>4, <1>6 DEF NamesInv

LEMMA NamesNext == NamesInv /\ [Next]_vars => NamesInv'
<1> SUFFICES ASSUME NamesInv, [Next]_vars PROVE NamesInv'
  OBVIOUS
<1>1. CASE UNCHANGED farmConfigVars
  BY <1>1 DEF farmConfigVars, NamesInv, Countable, Asked, Clone, ClonesBefore, ClonesNamed, Places,
              InTable
<1>2. CASE RefuseElement
  <2>1. /\ farm' = farm /\ loop' = "refused" /\ e' = e /\ usefarmer_names' = usefarmer_names
    BY <1>2 DEF RefuseElement
  <2>2. Countable' = Countable /\ ClonesBefore(e)' = ClonesBefore(e)
    BY <2>1 DEF Countable, Asked, ClonesBefore
  <2> QED
    BY <2>1, <2>2 DEF NamesInv
<1>3. CASE Named
  <2>1. /\ farm' = farm /\ loop = "names" /\ loop' = "started" /\ e' = e /\ e = Len(farm) + 1
        /\ usefarmer_names' = usefarmer_names /\ usefarmer_count' = usefarmer_count
    BY <1>3, AskedInt DEF Named, NamesInv
  <2>2. /\ Countable' = Countable /\ ClonesBefore(e)' = ClonesBefore(e) /\ Clone' = Clone
        /\ InTable(e)' = InTable(e)
    BY <2>1 DEF Countable, Asked, ClonesBefore, Clone, InTable, Places, ClonesNamed
  <2> QED
    BY <2>1, <2>2 DEF NamesInv
<1>4. CASE FarmConfigStep
  BY <1>2, <1>3, <1>4, CountStep, CountedStep, NameStep DEF FarmConfigStep
<1> QED
  BY <1>1, <1>4 DEF Next, ReadFarm, ReadProfile, Stopped, vars

(* The two loops of run_farm agree: with no negative count and at least one *)
(* farmer, the table has a name for every thread the second half creates,   *)
(* and each farmer the places its elements ask for.                         *)
THEOREM TableFits == Spec => []TableFitsFarm
<1>1. Spec => []NamesInv
  BY NamesInit, NamesNext, PTL DEF Spec
<1>2. NamesInv => TableFitsFarm
  <2> SUFFICES ASSUME NamesInv, loop = "started", Clone # {}, Countable
               PROVE  /\ Len(usefarmer_names) = usefarmer_count
                      /\ \A n \in FarmerNames :
                           Cardinality({k \in 1..usefarmer_count : usefarmer_names[k] = n})
                             = Cardinality({c \in Clone : farm[c[1]].name = n})
    BY DEF TableFitsFarm, Countable
  <2>1. ClonesBefore(e) = Clone /\ InTable(e) /\ usefarmer_count = Cardinality(Clone)
    BY AllBefore DEF NamesInv
  <2>2. Len(usefarmer_names) = usefarmer_count
    BY <2>1 DEF InTable
  <2>3. \A n \in FarmerNames :
          /\ Places(n) = {k \in 1..usefarmer_count : usefarmer_names[k] = n}
          /\ ClonesNamed(e, n) = {c \in Clone : farm[c[1]].name = n}
    BY <2>1, <2>2 DEF Places, PlacesOf, ClonesNamed
  <2> QED
    BY <2>1, <2>2, <2>3 DEF InTable
<1> QED
  BY <1>1, <1>2, PTL
=============================================================================
