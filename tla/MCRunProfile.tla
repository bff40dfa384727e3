---------------------------- MODULE MCRunProfile ----------------------------
(* RunProfile on a urllist of three URLs; the rounds are in the .cfg. *)
EXTENDS RunProfile

(* The handlers whose implementations have an error return. *)
MayFail == {"profile_init", "begin_conn", "create_req", "send_req", "recv_resp",
            "postprocess"}
=============================================================================
