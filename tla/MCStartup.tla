----------------------------- MODULE MCStartup -----------------------------
(* Farms of up to two elements, and profiles with every group and with      *)
(* single handlers that agree with it, replace it, name nothing or are      *)
(* empty.                                                                   *)
EXTENDS Startup, SequencesExt

MCElements ==
    {[name |-> n, attr |-> a] :
        n \in FarmerNames,
        a \in UNION {[S -> {0, 2}] : S \in SUBSET {"count", "startdelay"}}
              \cup {[x \in {"count"} |-> -1], [x \in {"startdelay"} |-> Malformed],
                    [x \in {"startcount"} |-> 2]}}

MCFarms == SeqOf(MCElements, 2)
OneFarm == <<[name |-> CHOOSE n \in FarmerNames : TRUE, attr |-> [x \in {} |-> 0]]>>

Impl(f, h) == [family |-> f, handler |-> h]

Singles == [recv_resp |-> {Impl("fullresp", "recv_resp"), Impl("keepalive", "recv_resp")},
            verify_resp |-> {Impl("200", "verify_resp"), Impl("simple", "report_init"),
                            Impl(NoText, NoText)},
            end_conn |-> {Impl("generic", "end_conn"), Impl("nothing", "end_conn")}]

(* All partial functions that give a key one of its choices. *)
Options(choice) ==
    UNION {{f \in [S -> UNION {choice[x] : x \in S}] : \A x \in S : f[x] \in choice[x]} :
              S \in SUBSET DOMAIN choice}

MCProfiles ==
    {[group |-> g, single |-> s] :
        g \in Options([c \in ClassNames |-> Groups[c] \cup {"nothing", NoText}]),
        s \in Options(Singles)}

OneProfile == [group |-> [c \in {} |-> ""], single |-> [h \in {} |-> Impl("", "")]]

(* Every farm and every profile, but not every pair of them: the two are    *)
(* read independently.                                                      *)
MCConfigurations ==
    {[farm |-> f, profile |-> OneProfile] : f \in MCFarms}
      \cup {[farm |-> OneFarm, profile |-> p] : p \in MCProfiles}
=============================================================================
