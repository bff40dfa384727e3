--------------------------- MODULE MCTransaction ---------------------------
(* Urllists in which one URL's response goes into the requests of the next. *)
EXTENDS Transaction

Get(n) == [kind |-> "get", name |-> n]
Set(n) == [kind |-> "set", name |-> n]

Plain == [method |-> "GET", uri |-> <<>>, payload |-> <<>>, auth |-> "none",
          template |-> <<>>, responsename |-> NoName, script |-> FALSE]

MCNames == {"id", "word"}

(* A file of three lines, one of them empty. *)
MCFiles == [n \in {"word"} |-> <<1, 0, 2>>]

(* Take the id from a page; send it and a word to another with a script. *)
Dynamic == << [Plain EXCEPT !.responsename = "id", !.auth = "basic"],
              [Plain EXCEPT !.uri = <<Get("id")>>, !.payload = <<Get("word")>>, !.script = TRUE] >>

(* The second URL overwrites the id and takes another from the answer. *)
Overwritten == << [Plain EXCEPT !.responsename = "id"],
                  [Plain EXCEPT !.uri = <<Get("id"), Set("id")>>, !.payload = <<Get("id")>>,
                                !.template = <<Get("id")>>, !.responsename = "id"] >>

(* Configurations that end a run: no password, a name nobody sets, and      *)
(* ${=id} in a responsetemplate.                                            *)
Broken == << [Plain EXCEPT !.method = "HEAD"], [Plain EXCEPT !.auth = "nopassword"] >>
Unknown == << [Plain EXCEPT !.uri = <<Get("id")>>] >>
SetInTemplate == << [Plain EXCEPT !.template = <<Set("id")>>, !.responsename = "id"] >>

MCUrlLists == {Dynamic, Overwritten, Broken, Unknown, SetInTemplate}

(* One URL whose response goes to a script. *)
Scripted == { << [Plain EXCEPT !.script = TRUE] >> }

MCFaults == {"idleclose", "crash", "stall", "refuse"}
BothMethods == {"GET", "HEAD"}

(* Each cookie in the first or in the second Set-Cookie of a response.       *)
MCSetCookies == {<<>>, <<"c", "d">>, <<"d", "c">>}
NoCookies == {<<>>}
NoFiles == [n \in {} |-> <<>>]
=============================================================================
