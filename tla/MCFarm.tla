------------------------------- MODULE MCFarm -------------------------------
(* A farm of three farmers, each of another kind, started two at a time. *)
EXTENDS Farm

(* The first runs two profiles twice, the second its profile for two ticks, *)
(* the third one has no profile.                                            *)
MCCount == <<2, 1, 1>>
MCTime == <<-1, 2, -1>>
MCProfiles == <<2, 1, 0>>

AllHazards == {"create", "join", "profile", "exit"}

(* A profile run may fail: no response, no match, no configuration. *)
ProfileHazard == {"profile"}
=============================================================================
