------------------------------- MODULE Params -------------------------------
(***************************************************************************)
(* Templates (handle_param_string in flood_round_robin.c) and the random   *)
(* lines of substitution files (flood_subst_file.c).                       *)
(*                                                                         *)
(* A template is the sequence of its ${name} and ${=name} tokens; the text *)
(* between them and the unescaping do not matter here.  A value is known   *)
(* by where it comes from.                                                 *)
(***************************************************************************)
EXTENDS Integers, Sequences, SequencesExt

CONSTANTS
    Names,        \* the names of variables
    FileOf,       \* for some names a substitution file: its lines' bytes,
                  \* without their ends
    Terminated    \* whether the last line of each file ends with a newline

ASSUME ParamsAssumption ==
    /\ DOMAIN FileOf \subseteq Names
    /\ \A n \in DOMAIN FileOf : FileOf[n] \in Seq(Nat) /\ FileOf[n] # <<>>
    /\ Terminated \in BOOLEAN

Token == [kind: {"get", "set"}, name: Names]

(* A value: one left by round_robin_profile_init, a random number or a      *)
(* response's (by its request, the number by the place of its token too),   *)
(* or a line of a file (by its number), which may have lost its last byte.  *)
Origin == {"unset", "left", "rand", "resp", "stray", "line", "cutline"}
Value(from, id) == [from |-> from, id |-> id, at |-> 0]
Unset == Value("unset", 0)

-----------------------------------------------------------------------------
(* subst_file_entry_get: seek to a random byte, skip the rest of its line   *)
(* and take the next one, or the first one at the end of the file.          *)
Size(file) ==
    FoldLeft(LAMBDA n, len : n + len + 1, 0, file) - IF Terminated THEN 0 ELSE 1

(* The byte behind line k. *)
EndOf(file, k) == FoldLeft(LAMBDA n, len : n + len + 1, 0, SubSeq(file, 1, k))

LineAt(file, offset) ==
    CHOOSE k \in 1..Len(file) : offset < EndOf(file, k) /\ (k > 1 => EndOf(file, k - 1) <= offset)

Entry(file, offset) ==
    IF LineAt(file, offset) < Len(file) THEN LineAt(file, offset) + 1 ELSE 1

(* The last byte of what was read is cut off, newline or not. *)
Kept(file, k) == file[k] - IF k = Len(file) /\ ~Terminated THEN 1 ELSE 0

-----------------------------------------------------------------------------
(* handle_param_string: the tokens from left to right.  ${=name} draws a    *)
(* number and keeps it in the state, unless it stands in a responsetemplate *)
(* (set is false), where the name is looked up with its `='.  What has no   *)
(* value is looked for among the substitution files; without one            *)
(* subst_file_get runs off its list, and an empty line ends the process.    *)
(* A result tells the tokens' values, the state and how it ended.           *)
Random(id, i) == [Value("rand", id) EXCEPT !.at = i]

Known(acc, t) == t.kind = "get" /\ acc.state[t.name] # Unset

Remembered_Not(state, name, v) == state   \* mutant: draws and forgets
Remembered(state, name, v) == [state EXCEPT ![name] = v]

Took(acc, t, v) == [acc EXCEPT !.values = Append(@, [token |-> t, value |-> v])]

Line(acc, t, random) ==
    LET file == FileOf[t.name]
        k == Entry(file, random % Size(file))
    IN  IF Kept(file, k) = 0 THEN [acc EXCEPT !.end = "exited"]
        ELSE Took(acc, t, Value(IF Kept(file, k) = file[k] THEN "line" ELSE "cutline", k))

Expanded(acc, t, set, value, draw) ==
    CASE acc.end # "ok" -> acc
      [] acc.end = "ok" /\ t.kind = "set" /\ set ->
           [Took(acc, t, value) EXCEPT !.state = Remembered(@, t.name, value)]
      [] acc.end = "ok" /\ Known(acc, t) -> Took(acc, t, acc.state[t.name])
      [] acc.end = "ok" /\ t.kind = "get" /\ ~Known(acc, t) /\ t.name \in DOMAIN FileOf ->
           Line(acc, t, draw)
      [] OTHER -> [acc EXCEPT !.end = "crashed"]

(* draws are the numbers random() returns, reduced to what matters of them. *)
Draws(template) ==
    [1..Len(template) ->
       {0} \cup UNION {0..(Size(FileOf[n]) - 1) :
                      n \in {template[i].name : i \in 1..Len(template)} \cap DOMAIN FileOf}]

Expand(template, state, set, id, draws) ==
    LET acc[i \in 0..Len(template)] ==
          IF i = 0 THEN [values |-> <<>>, state |-> state, end |-> "ok"]
          ELSE Expanded(acc[i - 1], template[i], set, Random(id, i), draws[i])
    IN  acc[Len(template)]
=============================================================================
