----------------------------- MODULE FarmConfig -----------------------------
(***************************************************************************)
(* The first half of run_farm (flood_farm.c): one loop over the            *)
(* <usefarmer> elements counts the farmers, a second one fills the table   *)
(* of their names and reads the pacing of their start.  Farm models what   *)
(* happens with the table.                                                 *)
(***************************************************************************)
EXTENDS Integers, Sequences, FiniteSets

CONSTANTS
    FarmerNames,
    Farms,       \* the lists of <usefarmer> elements a <farm> may have
    Malformed    \* the value of an attribute that is no number

Attributes == {"count", "startdelay", "startcount"}

(* An element: a farmer's name, and the attributes it has.  A count that is *)
(* no number reads as one.                                                  *)
ASSUME FarmsAssumption ==
    /\ Malformed \notin Int
    /\ \A f \in Farms : Len(f) \in Nat /\ DOMAIN f = 1..Len(f)
    /\ \A f \in Farms : \A k \in DOMAIN f :
         /\ f[k].name \in FarmerNames
         /\ DOMAIN f[k].attr \subseteq Attributes
         /\ \A a \in DOMAIN f[k].attr : f[k].attr[a] \in Int \cup {Malformed}
         /\ "count" \in DOMAIN f[k].attr => f[k].attr["count"] \in Int

VARIABLES
    farm,             \* the farm's elements
    loop,             \* "count", "names", "started" or "refused"
    e,                \* the place of the element to look at
    usefarmer_count,
    usefarmer_names,
    start_delay,      \* farmer_start_delay, in seconds
    start_count       \* farmer_start_count

farmConfigVars == <<farm, loop, e, usefarmer_count, usefarmer_names, start_delay, start_count>>

FarmConfigInit ==
    /\ farm \in Farms
    /\ loop = "count"
    /\ e = 1
    /\ usefarmer_count = 0
    /\ usefarmer_names = <<>>
    /\ start_delay = 0
    /\ start_count = 1

Has(a) == a \in DOMAIN farm[e].attr
Count == IF Has("count") THEN farm[e].attr["count"] ELSE 1

CountElement ==
    /\ loop = "count" /\ e <= Len(farm)
    /\ usefarmer_count' = usefarmer_count + Count
    /\ e' = e + 1
    /\ UNCHANGED <<farm, loop, usefarmer_names, start_delay, start_count>>

(* A farm without farmers gets one, whose name is never set. *)
Counted ==
    /\ loop = "count" /\ e > Len(farm)
    /\ usefarmer_count' = IF usefarmer_count = 0 THEN 1 ELSE usefarmer_count
    /\ loop' = "names"
    /\ e' = 1
    /\ UNCHANGED <<farm, usefarmer_names, start_delay, start_count>>

(* The names of one element: its count down to 1. *)
Clones_Default == IF Has("count") THEN Count ELSE 0   \* mutant: an element without count adds none
Clones == IF Count > 0 THEN Count ELSE 0

IsMalformed(a) == Has(a) /\ farm[e].attr[a] = Malformed
Valid == ~IsMalformed("startdelay") /\ ~IsMalformed("startcount")

(* The pacing is the farm's, though the attributes are the element's: a     *)
(* later element overwrites what an earlier one said.                       *)
NameElement ==
    /\ loop = "names" /\ e <= Len(farm) /\ Valid
    /\ usefarmer_names' = usefarmer_names \o [k \in 1..Clones |-> farm[e].name]
    /\ start_delay' = IF Has("startdelay") THEN farm[e].attr["startdelay"] ELSE start_delay
    /\ start_count' = IF Has("startcount") THEN farm[e].attr["startcount"] ELSE start_count
    /\ e' = e + 1
    /\ UNCHANGED <<farm, loop, usefarmer_count>>

RefuseElement ==
    /\ loop = "names" /\ e <= Len(farm) /\ ~Valid
    /\ loop' = "refused"
    /\ UNCHANGED <<farm, e, usefarmer_count, usefarmer_names, start_delay, start_count>>

Named ==
    /\ loop = "names" /\ e > Len(farm)
    /\ loop' = "started"
    /\ UNCHANGED <<farm, e, usefarmer_count, usefarmer_names, start_delay, start_count>>

FarmConfigStep == CountElement \/ Counted \/ NameElement \/ RefuseElement \/ Named

-----------------------------------------------------------------------------
(* What the elements ask for, without looking at the loops. *)
Asked(k) == IF "count" \in DOMAIN farm[k].attr THEN farm[k].attr["count"] ELSE 1

Clone == UNION {{k} \X (1..Asked(k)) : k \in 1..Len(farm)}

(* The two loops agree for a farm of at least one farmer and no negative    *)
(* count: the table has a name for every thread that will be created, and   *)
(* each farmer as many places as its elements ask for.  With a negative     *)
(* count the table is shorter than what is written to it, and without any   *)
(* farmer the one thread finds no name.                                     *)
TableFitsFarm ==
    loop = "started" /\ Clone # {} /\ (\A k \in 1..Len(farm) : Asked(k) >= 0) =>
      /\ Len(usefarmer_names) = usefarmer_count
      /\ \A n \in FarmerNames :
           Cardinality({k \in 1..usefarmer_count : usefarmer_names[k] = n})
             = Cardinality({c \in Clone : farm[c[1]].name = n})
=============================================================================
