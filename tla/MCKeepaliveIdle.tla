-------------------------- MODULE MCKeepaliveIdle --------------------------
(* KeepaliveSocket with the history of one question: was the connection of  *)
(* the current request kept from the last one, and found alive by the poll  *)
(* of check_socket?                                                         *)
EXTENDS MCKeepalive

VARIABLE reused

IdleInit == Init /\ reused = FALSE

IdleNext ==
    /\ Next
    /\ reused' = IF BeginReuse THEN TRUE ELSE IF BeginOpen THEN FALSE ELSE reused

IdleSpec == IdleInit /\ [][IdleNext]_<<vars, reused>>

(* CHANGES: check_socket lets keep-alive detect a connection the server has *)
(* closed "instead of erroring out".  Then a request sent over a connection *)
(* that was kept for it would never be left without any answer.             *)
IdleCloseDetected == pc = "end" /\ reused => resp.rbuf # <<>>
=============================================================================
