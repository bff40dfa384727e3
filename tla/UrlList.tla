------------------------------ MODULE UrlList ------------------------------
(***************************************************************************)
(* How round_robin_profile_init turns a <urllist> into rp->url: it counts  *)
(* the URLs with the sequences multiplied out, allocates the table, then   *)
(* walks the elements and fills it.  Every profile run of every farmer     *)
(* does this over one parsed configuration, which all of them share and    *)
(* which parse_xml_url_info writes to: apr_strtok puts a NUL in place of   *)
(* the separators of an extraheader attribute.                             *)
(*                                                                         *)
(* The walk over nested sequences, a recursion in the code, is a stack of  *)
(* frames here.  URLs are their elements; a value in p->state is the place *)
(* of it in the list of a sequence, or a random number.                    *)
(***************************************************************************)
EXTENDS Integers, SequencesExt

CONSTANTS
    Elems,    \* the elements of the urllist, numbered in document order
    Root,     \* the <urllist> itself
    Kind,     \* per element: "url", "sequence" or "other"
    Kids,     \* per element: its children, in document order
    Items,    \* per element: the values in its sequencelist
    Names,    \* the names of values
    SeqName,  \* per element: its sequencename
    Templates,\* what the templates of the URLs may hold: per element, the
              \* ${name} ("get") and ${=name} ("set") in them, in the order
              \* payload, request, response template
    Headers,  \* per element: the headers in its extraheader attribute
    Fragile,  \* the URLs with an attribute that may fail to parse: an
              \* unreadable payload file, a bad delay
    Runs      \* the profile runs that read the urllist

ASSUME UrlListAssumption ==
    /\ IsFiniteSet(Elems) /\ Elems = 1..Cardinality(Elems)
    /\ Root \in Elems
    /\ Kind \in [Elems -> {"url", "sequence", "other"}]
    /\ Kids \in [Elems -> Seq(Elems)]
    /\ \A e \in Elems : \A k \in DOMAIN Kids[e] : e < Kids[e][k]
    /\ Items \in [Elems -> Nat \ {0}]   \* a sequence without a list is left out
    /\ SeqName \in [Elems -> Names]
    /\ Templates \subseteq [Elems -> Seq([kind: {"get", "set"}, name: Names])]
    /\ Headers \in [Elems -> Nat]
    /\ Fragile \subseteq Elems

VARIABLES
    tokens,  \* the templates of the configuration that was read
    phase,   \* per run: "start", "walk", "header", "ready", "failed", or
             \* "crashed", which is the end of all of them
    urls,    \* per run: p->urls, the size of its table
    stack,   \* per run: the loops it is in, innermost last
    state,   \* per run: the hash p->state, name to value
    table,   \* per run: p->url
    last,    \* per run: where apr_strtok goes on
    cut      \* per element: the separators of extraheader that are NUL now

vars == <<tokens, phase, urls, stack, state, table, last, cut>>

IsSequence(e) == Kind[e] = "sequence"

Empty == [s \in {} |-> 0]

(* A value: place item of the list of sequence of, or a random number.      *)
Drawn == [of |-> 0, item |-> 0]

Init ==
    /\ tokens \in Templates
    /\ phase = [p \in Runs |-> "start"]
    /\ urls = [p \in Runs |-> 0]
    /\ stack = [p \in Runs |-> <<>>]
    /\ state = [p \in Runs |-> Empty]
    /\ table = [p \in Runs |-> <<>>]
    /\ last = [p \in Runs |-> 0]
    /\ cut = [e \in Elems |-> {}]

-----------------------------------------------------------------------------
(* count_xml_seq_child and count_xml_elem_child: the table's size. *)

(* A sequence multiplies what is below it. *)
Times_Flat(e, below) == below   \* mutant: its list is not looked at
Times(e, below) == Items[e] * below

Counts(c, below) == IF Kind[c] = "url" THEN 1
                    ELSE IF IsSequence(c) THEN Times(c, below) ELSE 0

UrlsBelow[e \in Elems] ==
    LET items[k \in 0..Len(Kids[e])] ==
          IF k = 0 THEN 0 ELSE items[k - 1] + Counts(Kids[e][k], UrlsBelow[Kids[e][k]])
    IN  items[Len(Kids[e])]

CountUrls == UrlsBelow[Root]

(* profile_init refuses a urllist without URLs. *)
Count(p) ==
    /\ phase[p] = "start"
    /\ urls' = [urls EXCEPT ![p] = CountUrls]
    /\ IF CountUrls = 0
       THEN phase' = [phase EXCEPT ![p] = "failed"] /\ UNCHANGED stack
       ELSE /\ phase' = [phase EXCEPT ![p] = "walk"]
            /\ stack' = [stack EXCEPT ![p] = <<[elem |-> Root, item |-> 1, kid |-> 1]>>]
    /\ UNCHANGED <<tokens, state, table, last, cut>>

-----------------------------------------------------------------------------
(* The loops over child elements. *)

Top(p) == stack[p][Len(stack[p])]
Pop(p) == SubSeq(stack[p], 1, Len(stack[p]) - 1)
Replace(p, frame) == Append(Pop(p), frame)
Past(frame) == [frame EXCEPT !.kid = frame.kid + 1]

AtKid(p) == phase[p] = "walk" /\ Top(p).kid <= Len(Kids[Top(p).elem])
Kid(p) == Kids[Top(p).elem][Top(p).kid]

With(vals, key, v) == [k \in DOMAIN vals \cup {key} |-> IF k = key THEN v ELSE vals[k]]

(* The hash goes by the sequencename: two sequences of one name share it.   *)
SetState(p, e, place) ==
    state' = [state EXCEPT ![p] = With(@, SeqName[e], [of |-> e, item |-> place])]

SkipOther(p) ==
    /\ AtKid(p) /\ Kind[Kid(p)] = "other"
    /\ stack' = [stack EXCEPT ![p] = Replace(p, Past(Top(p)))]
    /\ UNCHANGED <<tokens, phase, urls, state, table, last, cut>>

(* parse_xml_seq_info: the first value of the sequence's list. *)
EnterSequence(p) ==
    /\ AtKid(p) /\ IsSequence(Kid(p))
    /\ SetState(p, Kid(p), 1)
    /\ stack' = [stack EXCEPT ![p] =
                   Append(Replace(p, Past(Top(p))), [elem |-> Kid(p), item |-> 1, kid |-> 1])]
    /\ UNCHANGED <<tokens, phase, urls, table, last, cut>>

(* All children done: the next value, or the end of this loop. *)
ValueOf_Kept(p) == 1   \* mutant: the state keeps the first value
ValueOf(p) == Top(p).item + 1

NextItem(p) ==
    /\ phase[p] = "walk" /\ ~AtKid(p)
    /\ Top(p).elem # Root /\ Top(p).item < Items[Top(p).elem]
    /\ SetState(p, Top(p).elem, ValueOf(p))
    /\ stack' = [stack EXCEPT ![p] =
                   Replace(p, [elem |-> Top(p).elem, item |-> Top(p).item + 1, kid |-> 1])]
    /\ UNCHANGED <<tokens, phase, urls, table, last, cut>>

EndLoop(p) ==
    /\ phase[p] = "walk" /\ ~AtKid(p)
    /\ Top(p).elem = Root \/ Top(p).item = Items[Top(p).elem]
    /\ stack' = [stack EXCEPT ![p] = Pop(p)]
    /\ phase' = [phase EXCEPT ![p] = IF Top(p).elem = Root THEN "ready" ELSE "walk"]
    /\ UNCHANGED <<tokens, urls, state, table, last, cut>>

-----------------------------------------------------------------------------
(* parse_xml_url_info, and for a URL in a sequence handle_param_string with *)
(* EPE_PASSTHROUGH over each of its templates t: ${=name} draws a number    *)
(* and keeps it in the hash st, ${name} is replaced by what the hash has.   *)
(* The templates of other URLs are expanded when they are requested.        *)
DrawnBefore(t, k) == \E j \in 1..(k - 1) : t[j] = [kind |-> "set", name |-> t[k].name]

ExpandedTo(t, st) ==
    [k \in DOMAIN t |-> IF t[k].kind = "set" \/ DrawnBefore(t, k) THEN Drawn ELSE st[t[k].name]]

Draws(t) == {t[k].name : k \in {k \in DOMAIN t : t[k].kind = "set"}}

(* A name that nothing has set is looked up in p->subst_list, which is NULL *)
(* until all the URLs are parsed.                                           *)
Lacks(t, st) ==
    \E k \in DOMAIN t : t[k].kind = "get" /\ t[k].name \notin DOMAIN st /\ ~DrawnBefore(t, k)

TemplatesNow(p) == IF Top(p).elem = Root THEN <<>> ELSE tokens[Kid(p)]

(* The code cuts the headers first and expands after; the expansion depends *)
(* on nothing but p's own hash.                                             *)
ParseUrl(p) ==
    LET t == TemplatesNow(p)
        entry == [url |-> Kid(p), vals |-> ExpandedTo(t, state[p]), headers |-> 0]
    IN  /\ AtKid(p) /\ Kind[Kid(p)] = "url" /\ ~Lacks(t, state[p])
        /\ table' = [table EXCEPT ![p] = Append(@, entry)]
        /\ state' = [state EXCEPT ![p] =
                       [n \in DOMAIN @ \cup Draws(t) |-> IF n \in Draws(t) THEN Drawn ELSE @[n]]]
        /\ phase' = [phase EXCEPT ![p] = "header"]
        /\ last' = [last EXCEPT ![p] = 1]
        /\ stack' = [stack EXCEPT ![p] = Replace(p, Past(Top(p)))]
        /\ UNCHANGED <<tokens, urls, cut>>

ParseFails(p) ==
    /\ AtKid(p) /\ Kind[Kid(p)] = "url" /\ Kid(p) \in Fragile
    /\ phase' = [phase EXCEPT ![p] = "failed"]
    /\ UNCHANGED <<tokens, urls, stack, state, table, last, cut>>

(* subst_file_get reads through the NULL pointer. *)
ParseCrashes(p) ==
    /\ AtKid(p) /\ Kind[Kid(p)] = "url" /\ Lacks(TemplatesNow(p), state[p])
    /\ phase' = [phase EXCEPT ![p] = "crashed"]
    /\ UNCHANGED <<tokens, urls, stack, state, table, last, cut>>

(* The URL in hand, and whether another run is at the same attribute. *)
InHand(p) == table[p][Len(table[p])].url
Racing(p) == \E q \in Runs \ {p} : phase[q] = "header" /\ InHand(q) = InHand(p)

(* apr_strtok returns header number last, and goes on after the separator   *)
(* behind it.  One that is NUL already ends the string; a run that reads it *)
(* while another one writes it may have seen it whole.  (apr_collapse_spaces*)
(* then moves the text of the header up inside its own part of the string.) *)
GoesOn_Last(e, k) == k + 1 < Headers[e]   \* mutant: stops before the last header
GoesOn(e, k) == k < Headers[e]

TakeHeader(p) ==
    LET e == InHand(p)
        k == last[p]
        n == Len(table[p])
    IN  /\ phase[p] = "header" /\ k \in 1..Headers[e]
        /\ table' = [table EXCEPT ![p][n].headers = k]
        /\ \/ /\ GoesOn(e, k) /\ (k \notin cut[e] \/ Racing(p))
              /\ cut' = [cut EXCEPT ![e] = @ \cup {k}]
              /\ last' = [last EXCEPT ![p] = k + 1]
           \/ /\ ~GoesOn(e, k) \/ k \in cut[e]
              /\ last' = [last EXCEPT ![p] = 0]
              /\ UNCHANGED cut
        /\ UNCHANGED <<tokens, phase, urls, stack, state>>

UrlDone(p) ==
    /\ phase[p] = "header" /\ last[p] \notin 1..Headers[InHand(p)]
    /\ phase' = [phase EXCEPT ![p] = "walk"]
    /\ UNCHANGED <<tokens, urls, stack, state, table, last, cut>>

Crashed == \E p \in Runs : phase[p] = "crashed"

Run(p) == /\ ~Crashed
          /\ \/ Count(p) \/ SkipOther(p) \/ EnterSequence(p) \/ NextItem(p) \/ EndLoop(p)
             \/ ParseUrl(p) \/ ParseFails(p) \/ ParseCrashes(p) \/ TakeHeader(p) \/ UrlDone(p)

Over(p) == Crashed \/ phase[p] \in {"ready", "failed"}
Stopped == (\A p \in Runs : Over(p)) /\ UNCHANGED vars

Next == (\E p \in Runs : Run(p)) \/ Stopped

(* Every farmer's thread is scheduled. *)
Spec == Init /\ [][Next]_vars /\ \A p \in Runs : WF_vars(Run(p))

-----------------------------------------------------------------------------
(* The table a urllist stands for: the children of a sequence once for each *)
(* of its values, in order, the innermost value changing fastest; vals are  *)
(* the places in the lists of the sequences around a URL.                   *)
Expansion[e \in Elems] ==
    LET Turns(c, below) ==
          FlattenSeq([v \in 1..Items[c] |->
             [n \in DOMAIN below |-> [below[n] EXCEPT !.vals = With(@, c, v)]]])
        Part(c) == IF Kind[c] = "url" THEN <<[url |-> c, vals |-> Empty]>>
                   ELSE IF Kind[c] = "sequence" THEN Turns(c, Expansion[c])
                   ELSE <<>>
    IN  FlattenSeq([k \in DOMAIN Kids[e] |-> Part(Kids[e][k])])

(* count_xml_seq_child and the walk agree on every nesting: no run writes   *)
(* past the table it allocated, and none leaves an entry of it empty for    *)
(* get_next_url to request.                                                 *)
TableIsFull ==
    \A p \in Runs : /\ Len(table[p]) <= urls[p]
                    /\ phase[p] = "ready" => Len(table[p]) = urls[p]

(* The elements nested in e, and the sequences whose name nothing nested in *)
(* them, a sequence or a ${=name}, sets again.                              *)
KidsOf(e) == {Kids[e][k] : k \in DOMAIN Kids[e]}
ClosedSets == {S \in SUBSET Elems : \A c \in S : KidsOf(c) \subseteq S}
Below == [e \in Elems |-> {d \in Elems : \A S \in ClosedSets : KidsOf(e) \subseteq S => d \in S}]
Sole ==
    {e \in Elems : \A d \in Below[e] :
       /\ IsSequence(d) => SeqName[d] # SeqName[e]
       /\ Kind[d] = "url" => SeqName[e] \notin Draws(tokens[d])}

(* Entry n is URL n of the expansion, and each ${name} of its templates     *)
(* became the value of the sequence of that name around it, unless the name *)
(* is set again inside that sequence: what other sequences and URLs left in *)
(* p->state does not matter.                                                *)
ExpandedInOrder ==
    LET want == Expansion[Root]
        sole == Sole
    IN  \A p \in Runs : \A n \in 1..Len(table[p]) :
           /\ table[p][n].url = want[n].url
           /\ \A e \in DOMAIN want[n].vals \cap sole :
                \A k \in DOMAIN tokens[want[n].url] :
                   tokens[want[n].url][k] = [kind |-> "get", name |-> SeqName[e]]
                     => table[p][n].vals[k] = [of |-> e, item |-> want[n].vals[e]]

(* However the runs interleave in the separators of one shared attribute,   *)
(* some run gets every header of it: cutting never loses the tail for all.  *)
HeadersReachSomeone ==
    \A e \in Elems :
       LET took == {p \in Runs : \E n \in 1..Len(table[p]) : table[p][n].url = e}
           busy == {p \in took : phase[p] = "header" /\ InHand(p) = e}
       IN  took # {} /\ busy = {} =>
             \E p \in took : \E n \in 1..Len(table[p]) :
                table[p][n].url = e /\ table[p][n].headers = Headers[e]

(* CHANGES:31: "Add extraheader attribute to url's to allow custom headers  *)
(* to be set."  So every request of a URL would carry all of its headers.   *)
AllHeadersSet ==
    \A p \in Runs : phase[p] = "ready" =>
       \A n \in 1..Len(table[p]) : table[p][n].headers = Headers[table[p][n].url]
=============================================================================
