--------------------------- MODULE ResponseScript ---------------------------
(***************************************************************************)
(* The response script of a URL (round_robin_postprocess): a child process *)
(* that flood feeds the response through a pipe and then waits for.  The   *)
(* script and the pipe are not part of the repository; the script reads    *)
(* its input, ends when it likes and at the latest at the end of input.    *)
(***************************************************************************)
EXTENDS Integers, Sequences

CONSTANT PipeUnits   \* bound: what the pipe takes before the script reads

ASSUME PipeAssumption == PipeUnits \in Nat \ {0}

VARIABLES
    at,       \* where postprocess is: "idle" outside of this code
    data,     \* the bytes of rbuf that strlen counts
    proc,     \* the script: none, running, exited, or waited for (reaped)
    code,     \* its exit code
    stdin,    \* flood's end of the pipe is open
    pipe,     \* units in the pipe
    wbytes,
    heard     \* history: what the script has read

scriptVars == <<at, data, proc, code, stdin, pipe, wbytes, heard>>

ScriptTypeOK ==
    /\ at \in {"idle", "write", "wait", "ok", "failed", "killed"}
    /\ proc \in {"none", "running", "exited", "reaped"}
    /\ code \in {0, 1}
    /\ stdin \in BOOLEAN
    /\ Len(pipe) \in 0..PipeUnits
    /\ wbytes \in Nat

ScriptInit ==
    /\ at = "idle" /\ data = <<>> /\ proc = "none" /\ code = 0 /\ stdin = FALSE
    /\ pipe = <<>> /\ wbytes = 0 /\ heard = <<>>

Spawn(bytes) ==
    /\ at = "idle"
    /\ at' = "write" /\ data' = bytes
    /\ proc' = "running" /\ stdin' = TRUE
    /\ pipe' = <<>> /\ wbytes' = 0 /\ heard' = <<>> /\ code' = 0

SpawnFails ==
    /\ at = "idle"
    /\ at' = "failed"
    /\ UNCHANGED <<data, proc, code, stdin, pipe, wbytes, heard>>

-----------------------------------------------------------------------------
(* The write loop.  Every apr_file_write is given the whole of data, and    *)
(* takes what fits into the pipe; its status is not looked at.              *)
Writable == proc # "running" \/ Len(pipe) < PipeUnits

Fits_All == Len(data)   \* mutant: takes the pipe for endless
Fits == IF Len(data) < PipeUnits - Len(pipe) THEN Len(data) ELSE PipeUnits - Len(pipe)

Write ==
    /\ at = "write" /\ wbytes < Len(data)
    /\ proc = "running" /\ Writable
    /\ pipe' = pipe \o SubSeq(data, 1, Fits)
    /\ wbytes' = wbytes + Fits
    /\ UNCHANGED <<at, data, proc, code, stdin, heard>>

(* Nobody reads any more: SIGPIPE has its default action and ends flood.    *)
WriteKills ==
    /\ at = "write" /\ wbytes < Len(data)
    /\ proc = "exited"
    /\ at' = "killed"
    /\ UNCHANGED <<data, proc, code, stdin, pipe, wbytes, heard>>

(* The script leaves the pipe full for ten seconds: postprocess returns the *)
(* status of the poll, and closes and waits for nothing.                    *)
PollTimesOut ==
    /\ at = "write" /\ wbytes < Len(data)
    /\ ~Writable
    /\ at' = "failed"
    /\ UNCHANGED <<data, proc, code, stdin, pipe, wbytes, heard>>

(* All was written: the script's input ends. *)
InputEnds_Left == stdin   \* mutant: waits before it closes
InputEnds == FALSE

CloseStdin ==
    /\ at = "write" /\ wbytes >= Len(data)
    /\ stdin' = InputEnds
    /\ at' = "wait"
    /\ UNCHANGED <<data, proc, code, pipe, wbytes, heard>>

(* apr_proc_wait has no timeout; any exit code but 0 is an error. *)
Verdict_Any == "ok"   \* mutant: the exit code is not looked at
Verdict == IF code = 0 THEN "ok" ELSE "failed"

Wait ==
    /\ at = "wait" /\ proc = "exited"
    /\ proc' = "reaped"
    /\ at' = Verdict
    /\ UNCHANGED <<data, code, stdin, pipe, wbytes, heard>>

Feed == Write \/ WriteKills \/ PollTimesOut \/ CloseStdin \/ Wait

-----------------------------------------------------------------------------
(* The script. *)
Reads ==
    /\ proc = "running" /\ pipe # <<>>
    /\ heard' = Append(heard, Head(pipe))
    /\ pipe' = Tail(pipe)
    /\ UNCHANGED <<at, data, proc, code, stdin, wbytes>>

(* It ends at the end of its input, with its verdict ... *)
EndOfInput == pipe = <<>> /\ ~stdin

Exits ==
    /\ proc = "running" /\ EndOfInput
    /\ proc' = "exited"
    /\ code' \in {0, 1}
    /\ UNCHANGED <<at, data, stdin, pipe, wbytes, heard>>

(* ... or before, when it has seen enough. *)
Quits ==
    /\ proc = "running" /\ ~EndOfInput
    /\ proc' = "exited"
    /\ code' \in {0, 1}
    /\ UNCHANGED <<at, data, stdin, pipe, wbytes, heard>>

Script == Reads \/ Exits \/ Quits
=============================================================================
