--------------------------- MODULE ProfileEvents ---------------------------
(***************************************************************************)
(* Which implementation of each handler a profile runs with                *)
(* (initialize_events in flood_profile.c): the generic ones, then what the *)
(* groups in its <report>, <socket> and <profiletype> elements assign,     *)
(* then what an element named after a single handler assigns.              *)
(*                                                                         *)
(* An implementation is known by its family and its handler:               *)
(* keepalive_begin_conn is the one of the family keepalive for begin_conn, *)
(* verify_200 the one of 200 for verify_resp.                              *)
(***************************************************************************)
EXTENDS Integers, Sequences

(* profile_event_handler_names, in the order initialize_events takes them. *)
HandlerNames ==
    << "profile_init", "report_init", "get_next_url", "socket_init", "begin_conn",
       "create_req", "send_req", "recv_resp", "postprocess", "verify_resp",
       "process_stats", "loop_condition", "end_conn", "request_destroy",
       "response_destroy", "socket_destroy", "report_stats", "destroy_report",
       "profile_destroy" >>

Handlers == {HandlerNames[k] : k \in DOMAIN HandlerNames}

(* profile_group_handlers: the families of a class, and the handlers a      *)
(* group of the class assigns.                                              *)
Classes == <<"report", "socket", "profiletype">>
ClassNames == {"report", "socket", "profiletype"}

Groups == [report |-> {"easy", "simple", "relative_times"},
           socket |-> {"generic", "keepalive"},
           profiletype |-> {"round_robin"}]

Members == [report |-> {"report_init", "process_stats", "report_stats", "destroy_report"},
            socket |-> {"socket_init", "begin_conn", "send_req", "recv_resp", "end_conn",
                        "socket_destroy"},
            profiletype |-> {"profile_init", "get_next_url", "create_req", "postprocess",
                             "loop_condition", "profile_destroy"}]

(* profile_event_handlers: the families that implement a handler. *)
Implements(family, h) ==
    \/ family = "generic"
    \/ \E c \in ClassNames : h \in Members[c] /\ family \in Groups[c]
    \/ family = "fullresp" /\ h = "recv_resp"
    \/ family \in {"200", "status_code"} /\ h = "verify_resp"

Families == {"generic", "fullresp", "200", "status_code"} \cup UNION {Groups[c] : c \in ClassNames}

CONSTANT Profiles   \* the <profile> elements a configuration may have

(* What a <profile> says: the text of its group elements, and for handlers  *)
(* with an element of their own the implementation it names.  Texts that    *)
(* name nothing are families without an implementation; an empty element    *)
(* has no text at all.                                                      *)
NoText == ""

ASSUME ProfilesAssumption ==
    \A p \in Profiles :
       /\ DOMAIN p.group \subseteq ClassNames
       /\ DOMAIN p.single \subseteq Handlers
       /\ \A h \in DOMAIN p.single : DOMAIN p.single[h] = {"family", "handler"}

VARIABLES
    profile,  \* the profile's element
    stage,    \* the loop initialize_events is in, "ready", "failed" or "crashed"
    at,       \* the place of the class or handler to look for
    events    \* the table: a family for every handler

profileVars == <<profile, stage, at, events>>

ProfileInit ==
    /\ profile \in Profiles
    /\ stage = "defaults"
    /\ at = 1
    /\ events = [h \in Handlers |-> "none"]

(* The two loops, in this order: a single handler has the last word. *)
Following_Swapped == [defaults |-> "singles", singles |-> "groups", groups |-> "ready"]   \* mutant
Following == [defaults |-> "groups", groups |-> "singles", singles |-> "ready"]

(* create_profile_events. *)
Defaults ==
    /\ stage = "defaults"
    /\ events' = [h \in Handlers |-> "generic"]
    /\ stage' = Following["defaults"]
    /\ UNCHANGED <<profile, at>>

LoopDone(last) ==
    /\ at > last
    /\ stage' = Following[stage]
    /\ at' = 1
    /\ UNCHANGED <<profile, events>>

Skip(given) ==
    /\ ~given
    /\ at' = at + 1
    /\ UNCHANGED <<profile, stage, events>>

Refuse ==
    /\ stage' = "failed"
    /\ UNCHANGED <<profile, at, events>>

(* The text of an element without any is at NULL. *)
Crash ==
    /\ stage' = "crashed"
    /\ UNCHANGED <<profile, at, events>>

(* assign_profile_group_handler, when there is an element for the class.    *)
Class == Classes[at]
Group == profile.group[Class]
HasGroup == Class \in DOMAIN profile.group

Assigned_ButEnd(family, members) ==   \* mutant: the group's table lacks a row
    [h \in Handlers |-> IF h \in members \ {"end_conn"} THEN family ELSE events[h]]
Assigned(family, members) ==
    [h \in Handlers |-> IF h \in members THEN family ELSE events[h]]

AssignGroup ==
    /\ HasGroup /\ Group \in Groups[Class]
    /\ events' = Assigned(Group, Members[Class])
    /\ at' = at + 1
    /\ UNCHANGED <<profile, stage>>

GroupStep ==
    /\ stage = "groups"
    /\ \/ LoopDone(Len(Classes))
       \/ /\ at <= Len(Classes)
          /\ \/ Skip(HasGroup)
             \/ AssignGroup
             \/ HasGroup /\ Group \notin Groups[Class] \cup {NoText} /\ Refuse
             \/ HasGroup /\ Group = NoText /\ Crash

(* assign_profile_event_handler: the implementation must exist, and be one  *)
(* of this handler.                                                         *)
Handler == HandlerNames[at]
Single == profile.single[Handler]
HasSingle == Handler \in DOMAIN profile.single

Fits == Single.handler = Handler /\ Implements(Single.family, Handler)

AssignSingle ==
    /\ HasSingle /\ Fits
    /\ events' = [events EXCEPT ![Handler] = Single.family]
    /\ at' = at + 1
    /\ UNCHANGED <<profile, stage>>

SingleStep ==
    /\ stage = "singles"
    /\ \/ LoopDone(Len(HandlerNames))
       \/ /\ at <= Len(HandlerNames)
          /\ \/ Skip(HasSingle)
             \/ AssignSingle
             \/ HasSingle /\ ~Fits /\ Single.family # NoText /\ Refuse
             \/ HasSingle /\ Single.family = NoText /\ Crash

ProfileStep == Defaults \/ GroupStep \/ SingleStep

-----------------------------------------------------------------------------
(* The implementation an author of the configuration means.                 *)
Meant(h) ==
    IF h \in DOMAIN profile.single THEN profile.single[h].family
    ELSE IF \E c \in DOMAIN profile.group : h \in Members[c]
    THEN profile.group[CHOOSE c \in DOMAIN profile.group : h \in Members[c]]
    ELSE "generic"

(* However groups and single handlers are mixed, the table has for every    *)
(* handler the implementation meant for it, and it is one of that handler.  *)
TableAsMeant ==
    stage = "ready" =>
      \A h \in Handlers : events[h] = Meant(h) /\ Implements(events[h], h)

(* CHANGES:295, on groups: "a bunch of functions that all need to be        *)
(* overriden together".  Handlers that share an object, as those of a       *)
(* socket do, come from one family unless one of them is named on its own.  *)
OneFamily ==
    stage = "ready" =>
      \A c \in ClassNames : Members[c] \cap DOMAIN profile.single = {} =>
         \E family \in Families : \A h \in Members[c] : events[h] = family
=============================================================================
