# A formal model of flood

flood is an HTTP load tester in C: it reads an XML configuration, starts
*farmers* as threads, and every farmer runs *profiles*, which request a list of
URLs over a socket implementation and report on the answers.  This directory
holds TLA+ modules of its control logic, the TLC configurations that check them
on small instances, and proofs for TLAPS.  `PROJECT.json` lists components,
runs, mutants, hazards and the lines each definition stands for.

    tlc -workers 2 -config MCFarm.cfg MCFarm      # any run of PROJECT.json
    tlapm FarmProofs.tla                          # and the other ...Proofs modules

## 1. Inventory

| component | source | state | operations | hard behaviour |
|---|---|---|---|---|
| main, farm | `flood.c`, `flood_farm.c` | the thread table, the loop index, the exit status | `run_farm`: count, start with pauses, join | failing creation, farmers that end in any order, `exit` from a thread |
| farmer | `flood_farmer.c` | rounds, profile index, stop time | `run_farmer` | count against clock, errors dropped |
| profile driver | `flood_profile.c` | `verified`, the objects of the handlers | `run_profile`, choice of implementations | 20 handlers in a fixed order, each may fail |
| round-robin profile | `flood_round_robin.c` | `url` table, `current_url`, `current_round`, `state` hash, cookies | `profile_init`, `get_next_url`, `create_req`, `postprocess`, `verify_*`, `loop_condition` | counters that wrap, nested sequences, a configuration tree shared and written by all threads |
| keep-alive socket | `flood_socket_keepalive.c` | `s`, `reopen_socket`, `wantresponse`, `method` | `begin_conn`, `send_req`, `recv_resp`, `end_conn` | a server that closes, dies or stalls at any point; message framing |
| network calls | `flood_net.c`, `flood_net_ssl.c` | a descriptor | open, close, read, write, check | time-outs, EOF, errors, EAGAIN |
| generic socket | `flood_socket_generic.c` | a descriptor | as above, one connection per request | reads until EOF |
| reports | `flood_simple_reports.c`, `flood_easy_reports.c`, `flood_report_relative_times.c` | counters, stdout, a mutex | `process_stats`, `report_stats` | output of concurrent farmers |
| parameters, substitution | `handle_param_string`, `flood_subst_file.c` | the `state` hash, the files | expand `${name}`, `${=name}` | order of expansion, edges of files |
| configuration | `flood_config.c` | a parsed tree, read-only by intent | look-ups by name | none |
| regex wrapper, test program, build | `flood_pcre.c`, `flood_test.c`, `build/` | none | none | none |

**Interaction.**  `main` calls `run_farm`, which creates one thread per farmer and
joins them; a thread is `farmer_worker` -> `run_farmer` -> `run_profile`.
`run_profile` calls the profile, socket and report through the table of function
pointers in `profile_events_t`.  Farmers share nothing but the configuration tree
(which `parse_xml_url_info` writes to), stdout and stderr, one mutex, the random
state and the process itself (`exit`).  The outside is one server per connection.

**What makes each part correct.**  The farm: success is reported only when all is
done, every thread is created once and joined once, pauses keep their pace.  The
farmer: it runs what `<count>` or `<time>` says.  The profile driver: a report is
on a whole run and on nothing else; each response is counted once with its own
verdict.  The URL list: the table is as long as it was sized and in the order of
the document.  A transaction: what a response sets (cookies, variables) reaches
later requests, the newest value first, and nothing of it is left running or open.
The sockets: a response is the answer to its own request and whole; no connection
is used after it was closed, none is lost while it is alive; every wait ends.  The
start: the table of farmers has a name for every thread, and every handler is the
one the configuration means.

## 2. Modules

| module | models | extends / instantiates |
|---|---|---|
| `Network` | a TCP connection as `flood_net.c` uses it, and the server (external) | |
| `KeepaliveSocket` | `flood_socket_keepalive.c` under `run_profile`'s request loop | `Network` |
| `ChunkReader` | the two chunk loops of `flood_socket_keepalive.c`, byte by byte | |
| `GenericSocket` | `flood_socket_generic.c` | `Network` |
| `Params` | `handle_param_string` and `subst_file_entry_get`, as operators | |
| `ResponseScript` | the child process of `postprocess` and the pipe to it | |
| `Transaction` | `get_next_url`, `create_req`, `postprocess` over the generic socket | `GenericSocket`, `ResponseScript`, `Params` |
| `LoadPlan` | abstract: count all transactions and report, or abort | |
| `RunProfile` | `run_profile`, `get_next_url`'s delays, `loop_condition`, `verify_*`, the simple report | instantiates `LoadPlan` |
| `UrlList` | `profile_init`'s walk over `<urllist>`: count, sequences, extra headers | |
| `Farm` | `main`, `run_farm`, `farmer_worker`, `run_farmer` | |
| `FarmConfig` | the two loops of `run_farm` over `<usefarmer>` | |
| `ProfileEvents` | `initialize_events` and the handler and group tables | |
| `Startup` | what a configuration becomes before the first request | `FarmConfig`, `ProfileEvents` |
| `NetworkProofs` | lemmas about answers and reads, and induction over numbers | `Network`, `TLAPS` |
| `KeepaliveProofs`, `TransactionProofs` | theorems about the module they are named for | that module, `NetworkProofs` |
| `FarmProofs`, `RunProfileProofs`, `ChunkReaderProofs`, `StartupProofs`, `UrlListProofs` | theorems about the module they are named for | that module, `TLAPS` |
| `MC...` | constants of the TLC runs | the module they name |

### Network and KeepaliveSocket

`fd`, `srv`, `inbox`, `owed` and `wire` are the connection; `pc` is the handler
`run_profile` is in.  The operators `OpenSocket`, `CloseSocket`, `WriteSocket`,
`ReadResults`/`ReadSocket` and `Readable` are the functions of `flood_net.c`;
handlers are built from them.  A handler that reads in a loop takes one action per
read, so the server may do anything between two reads: `RecvFirst`, `RecvEof`,
`RecvFails` are `recv_resp`'s first read, `Headers` its parse and the choice of
the loop, `LoadKnown`/`LoadAll` are `keepalive_load_resp`, `Drain`, `DrainAll`,
`ReadChunk` drop what is not wanted.  `EndConn` also takes `run_profile` to the
next request.  `ksock` and `resp` keep the fields of the C structures;
`remaining` is `content_length` less what was read, `leaked` counts descriptors
nothing refers to.

Data is abstracted to units: a header block, a piece of body (one chunk if
chunked), the last-chunk.  `recv_resp` itself assumes that the header arrives in
one piece.  A read returns the units that are there up to the size of the buffer
(`BufUnits`), so bodies are split over reads in every way, but only between
units: where the bytes of a chunk are cut is the subject of `ChunkReader`, and so
is `keepalive_read_chunk`'s early return at line 171.  `Junk` stands for bytes that
`rbufsize` counts and no read delivered.  What the parse reads from an
uninitialised buffer after EOF is a nondeterministic choice.

After a stall the first read may begin with late bytes of the response before.
`Parses` gives what the line loop (lines 366-388) may make of it: pieces of a body are
lines without meaning, behind which it finds the header and its Content-Length, and keeps
the connection; an empty line, which a piece of a body may hold and the last-chunk ends
with, stops it first.  That a piece of a body holds a header line itself is left out.

The server answers requests in order with any framing and body of up to `MaxBody`
units, keeping or closing the connection as its header says.  The constant
`Faults` adds an idle close at any time, death in mid-reply with FIN or RST,
stalls beyond the 120 s poll timeout, refused connections, and EAGAIN (at most
`MaxRetries` lost sockets).  Without `"stall"` a read times out only on a server
that owes nothing: a loop that waits for bytes nobody will send.

### ChunkReader

A body is a sequence of bytes that know their place in the grammar (size digit, CR
and LF of the size line, data, CR and LF behind the data, the last CRLF).  `at` and
`got` are positions in it: what the code has stepped over and what it has read.
`FirstRead`, `ScanChunk`, `ScanEnds`, `ScanCut` are the loop of `recv_resp` over the
first buffer; `Enter`, `ReadSize`, `ParseSize`, `ParseLast`, `ParseCut`, `ReadLast`,
`ReadData` are `keepalive_read_chunk`, one read per step; `ReadNothing` is a read
that only the poll timeout ends.  The server sends one digit per size and neither
chunk extensions nor trailers (the code takes neither).  The place of a read in
the buffer is not modelled: line 270 reads behind the size line, and may still ask for
the length of the whole buffer.  Where a `strstr` leaves the
received bytes, what it finds is left open: `"aborted"` is the failing `assert`,
`"lost"` a size taken from stale bytes, `"end"` an end taken for one.

The history variable `cut` says that a read ended at one of the three places the
code cannot cope with: inside a size line (or between CR and LF in front of it),
inside the last-chunk, and, with the first read, exactly behind the data of a chunk.
The properties say that these are all of them.

### GenericSocket, Params, ResponseScript and Transaction

`GenericSocket` has the handlers of `flood_socket_generic.c`, over the same
`Network` as the keep-alive socket, with one action per read: `Load` keeps all that
comes, `First` and `Drain` keep the first read.  https is left out.  `Params` is a
left-to-right fold over the `${}` tokens of a template; a value is known by where it
comes from (drawn, a response, a line of a file, a stray match), and
`subst_file_entry_get` is the choice of a line by a byte offset and the cut of its
last byte.  `ResponseScript` is `postprocess`'s write loop, its two ways out, the
close and the wait, and a script that reads, ends with its input or before, with
either exit code.  A write to a script that has gone kills flood: nothing in `src/`
ignores SIGPIPE.

`Transaction` composes them in the order of `run_profile`; `req` is what the socket
is told, `state` and `cookie` what one transaction leaves for the next.  Searches in
the receive buffer (`Set-Cookie`, the template's match) may run on behind the
received bytes, so that they find a stray value or none: a nondeterministic choice.  A
response has any list of `SetCookies` headers, of which `FindCookie` takes the first, as
the `strstr` does; `latest` is what the server set, not what flood took.  Behind a stray
cookie there may be no line end to copy up to (`SearchCrashes`).  `MayBeLeft` are the
variables that the sequences of the urllist may have left in `p->state`.  Left out: a NUL
in a body, which would hide the rest of it from the searches, and other runs, whose
scripts may inherit the write end of this one's pipe.

### FarmConfig, ProfileEvents and Startup

`FarmConfig` takes one element of the `<farm>` per step, first counting, then naming.
`ProfileEvents` has the tables of `flood_profile.c` as sets: an implementation is its
family and its handler (`keepalive_begin_conn` is `keepalive` for `begin_conn`), and
the two loops of `initialize_events` go through groups and handlers one per step, and
stop at the first text that names nothing, or crash on an empty element, whose text is at
NULL (lines 534 and 553).  `Startup` runs one after the other, as
`run_farm` and the `run_profile` of a farmer do.

### LoadPlan and RunProfile

One action per handler of `run_profile`, in the order of the calls; `Fails` is the
immediate return that follows every call.  `GetNextUrl` and `LoopCondition` carry
the delays and counters of `flood_round_robin.c`, `ProcessStats` and `ReportStats`
the simple report.  `verdicts` and `delays` are history variables.  The run
implements `LoadPlan` with `report.hits` as `counted`: hits grow one at a time to
`Urls * Rounds` and a report is printed only then.  A `<count>` of zero or less
still makes one request, since the condition is at the end of the loop.

### UrlList

Several profile runs parse one configuration tree.  The recursion of
`parse_xml_seq_info` is an explicit stack of frames (element, value, child);
`CountUrls` is the separate recursion that sized the table.  `cut` records the
separators of `extraheader` attributes that `apr_strtok` has overwritten in the
shared tree; two runs in the same attribute race, and a run that reads a separator
another is writing may see either value.  Every sequence is assumed to have a
list: without one the code reads uninitialised variables.  Elements are numbered in
document order, so children come after their parents: that is what makes the tree a
tree, and what the proofs do their induction over.

`state` is `p->state`, which goes by `sequencename`: two sequences of one name share an
entry, and the inner one's last value is what URLs behind it get.  The templates of a URL
inside a sequence are expanded at once (lines 682-700): a `${=name}` draws a number into
the same hash, and a `${name}` that nothing has set is looked up in `p->subst_list`, which
is NULL until all URLs are parsed (line 894; the comment there gives the substitutions
the scope of the whole configuration).  That is a crash of the process, and an action
(`ParseCrashes`).  `apr_collapse_spaces`, which moves a header's text inside its own
part of the attribute, is left out.

### Farm

`main`, `i` and `wake` are the main thread in `run_farm`'s two loops, `thread`,
`rounds`, `j`, `stop` and `stat` the farmers in `run_farmer`.  One action per step
of either: create a farmer (going on at once, sleeping, dividing by a
`startcount` of zero, or failing), wake, join (or fail to, which returns the error),
return; begin, begin a round, run
one profile with success or error, end; `exit` called by `get_next_url` in any
thread.  A profile run is one step here.  `Tick` is the clock.

## 3. Runs

| run | instance | shows |
|---|---|---|
| `keepalive` | 3 requests, GET and HEAD, bodies of 0-3 units, reads of 2 | framing, descriptor use, termination with every fault but stalls |
| `keepalive_stalls` | 3 GETs, bodies of 0-2 units, stalls | what survives a poll timeout in mid-body |
| `keepalive_idle_close` | 2 GETs, idle close only, and a history of whether the connection was kept | *violation*: a request over a kept connection that the poll found silent |
| `chunks` | bodies of up to 3 chunks of 1-3 bytes, reads of up to 9 | the counters of both chunk loops, what is drained, what waits in vain |
| `transaction` | 3 requests, 5 urllists, up to two `Set-Cookie` headers, a file, a script, every fault | cookies, variables, templates, the script, termination |
| `script_input` | 1 request, full-response receive, a pipe of one unit, no fault | *violation*: a script that gets the head twice and the body never |
| `startup` | farms of up to two elements, profiles of groups and singles, some empty or naming nothing | the farmers' table, the handlers' table |
| `run_profile` | 3 URLs, 2 rounds, six handlers may fail | order, counters, delays, report, refinement |
| `urllist` | 2 concurrent runs, nested sequences of 2 values, also of one name, templates that draw or use an unset name, a URL with 2 headers | table size and order, values, header cutting |
| `urllist_headers` | the same | *violation*: extra headers are sent once |
| `farm` | 3 farmers (counted, timed, without profiles), delay 0/2, startcount 0/2, failing creation and join | exit status, joins, creation, pace, quota |
| `farm_exit` | the same farmers | *violation*: exit status 0 in spite of errors |

**Bounds.**  Three requests are one that opens a connection, one that reuses it and
one that sees what the reuse left.  A body of three units against reads of two
needs more than the first read and ends inside one.  Three URLs in two rounds wrap
the counter in the middle and at the end.  Three farmers in batches of two sleep
between batches and end on an incomplete batch; each is of a different kind.  Two
values in two nested sequences distinguish the order of all four combinations,
with URLs at both levels and outside, and a URL behind an inner sequence sees what
that one left.  `MaxTime` stops the clock when no
deadline is ahead, `MaxRounds` limits the rounds of a timed farmer.  Chunks of one to
three bytes put every position of a read's end (first, inside, last byte of the data,
both bytes of each CRLF) in first, middle and last chunks, and a buffer of nine
(`BufBytes`) holds more than one chunk and less than two; the proofs drop these
bounds.  In `transaction` a response of two units (`MaxBody = 1`) does not fit one
read (`BufUnits = 1`), the response and one stray unit do not fit the pipe
(`PipeUnits = 2`), and `NumReqs = 3` takes the first of two URLs again with the state
the second one left.  `MCStartup` combines every farm with a few profiles and every
profile with a few farms, not all with all: neither reads the other.

**Fairness.**  The client is weakly fair: its thread is scheduled, and every wait
is bounded by `apr_poll`'s timeout.  The server is fair only in going on with a
reply it has begun or a request it has received; it never has to close or die, and
with `"stall"` a read may time out before it goes on.  Farmers, main and the clock
are weakly fair: threads and sleeps of the operating system.  Main only in
`MainWorks`, without `JoinFails`: that a join fails must not be what ends the process.  In `Transaction` the
script too is weakly fair, but only in reading its input and ending behind it
(`ChildWorks`): `apr_proc_wait` has no timeout, so without that flood may wait for
ever, and a script that ends earlier must not be what saves it.

**What deliberately does not hold.**  After a stall `OwnResponse` and
`DrainedBeforeReuse` fail: a poll timeout in mid-body leaves a kept connection with
bytes on their way, and they stand in front of the next response's header.
`keepalive_stalls` checks what remains true (`KeptInStep`): requests and responses do not
get out of step, since a connection is kept only when this request's header was received,
if anything was, and only the tail of its response is still to come.
`AbandonsOnlyStale` replaces `AbandonsOnlyDead`.  That holds for GETs: a HEAD
request needs no header to keep the connection (`flood_socket_keepalive.c:400`), so
with HEADs a stalled body shifts responses until the next GET.  Both sockets add the length they
asked for to `rbufsize` after a read that timed out (`flood_socket_keepalive.c:329`,
`flood_socket_generic.c:138`), so a buffer may count bytes nobody sent: the models
append `Junk` and no property denies it.  Where a name is
set again inside a sequence of that name, by a sequence or by a `${=name}`, URLs behind
that get the inner value (`flood_round_robin.c:664`): `ExpandedInOrder` promises a value only
for sequences in `Sole`.  Of several `Set-Cookie` headers in one response all but the first
are lost (`flood_round_robin.c:1080`): a cookie set in a later one keeps its old value, and
`NewestCookieFirst` takes that cookie up again when a first one sets it.  `ParamsAgree` leaves out
drawn lines, which are drawn anew for each token.  `NothingLeft` speaks of transactions
that count: one that fails may leave a script or a pipe behind.  A chunked body is left on
the connection after a cut; `TableFitsFarm` excludes negative counts and farms without
farmers, where the table does not fit.

Every property of a passing run has a mutant of a definition (named
`<definition>_<what is wrong>` next to it) under which TLC finds it violated.

## 4. Proofs

Each proof module has one inductive invariant, a lemma per action (or per group of
actions that do the same to it), and theorems that follow from it.  The
assumptions are the named `ASSUME`s of the component modules and nothing else.

**`FarmProofs`**, for any number of farmers, counts, times, delays and hazards:
`TypeCorrect`, `ExitSafety` (`SuccessMeansAllEnded`), `JoinSafety`
(`JoinsOnlyCreated`), `CreationOrder` (`CreatedInOrder`).  `SuccessMeansAllEnded`
is not inductive: what main knows when it returns is what its join loop
established, which is `JoinsOnlyCreated`; that needs every farmer to exist when
the loop begins, which is `CreatedInOrder` at the end of the creation loop, and
`IndexInFarm`, which keeps the index inside the farm.  `FarmInv` joins them.
`MainFrame` reduces the eight actions of main to two shapes (start a farmer, move
the index), and `FarmerFrame` says that a farmer changes only its own entry and
never makes it `"none"`.  Two more invariants rest on it.  `PaceKept` (`Pacing`):
`PaceInv` adds that the farmer to create is due already, and that the one a sleep
follows was the last of its batch, so that the end of the sleep makes the next one
due; `QuotientGrows` and `QuotientOneMore` are the arithmetic of the clock.
`QuotaKept` (`Quota`): `Progress` counts the runs of a farmer by where it is, whole
rounds between rounds and `j` more inside one.

**`RunProfileProofs`**, for any number of URLs, any integer `<count>` and any set of
failing handlers: `TypeCorrect`, `CompleteReports` (`ReportIsComplete`) and
`RunImplementsPlan` (`ImplementsPlan`, initial states and every step).  Completeness
is a fact about the end of the loop; `Progress` ties hits and delays to the
position `current_round * Urls + current_url` at every handler, and `WithinRounds`
remembers what the loop condition said last.  `PositionNext` and `PositionLast`
are the arithmetic: the position advances by one also where a round wraps, and
when the condition stops the run it has just reached the total.  `VerdictsCounted`
(`CountsMatch`) counts the set of responses with a verdict (`Judged`): one more response
makes one of the two sets larger by one (`JudgedNext`), and `Uncounted` is the response
between `verify_resp` and `process_stats`.  `DelayOrder`
(`DelaysInOrder`) follows from `Progress` too: the number of delays is twice the
position, and the position modulo `Urls` is `current_url`.

**`KeepaliveProofs`**, for any requests, bodies, buffer size and faults:
`DescriptorSafety` (`NoUseAfterClose`) and `AbandonSafety` (`AbandonsOnlyStale`).
The missing link is `KeptOrGone`: a descriptor that is open is one that
`reopen_socket` has not given up, so when `begin_conn` opens another one the poll
was the reason.

For every fault but stalls (`"stall" \notin Faults`; with stalls these do not hold, see
section 3): `LengthsAgree` (`RemainingIsOwed`), `AnswersOwn` (`OwnResponse`),
`KeepsDrained` (`DrainedBeforeReuse`) and `AbandonsDead` (`AbandonsOnlyDead`).
`FramingInv` says what is on the connection at each handler.  At `recv` either nothing
of the answer exists (`Unanswered`: the server may still have to end the request before)
or all of it is on its way, header first (`Answered`).  In the loops the server is at work
on no other request (`Settled`) and all units are the request's (`Own`); the length
loops know how many, the chunk loop that nothing is behind a last-chunk
(`LastAtEnd`).  At `end_conn` a kept connection has nothing on it (`Clean`) or the
server died (`CutShort`).  `ReadFacts` and `ReadKeeps` say what one read does to all
of that, and each handler has a lemma.  `ReadsWhole` (`WholeResponse`) adds `WholeInv`:
`rbuf`, what is on the wire and what is owed are together the units of one answer,
each in its place (`Split`), and a loop that stops has left nothing of the last two.

With stalls and GETs (`Methods \subseteq {"GET"}`): `StaysInStep` (`KeptInStep`).
Without the second hypothesis it is false, since a HEAD request keeps the connection
whatever its one read brought (a hazard in `PROJECT.json`).  `LateInv` is
about the `Stream` flood has yet to read and the requests `Waiting` behind the one
the server is at.  On a connection about to be used the stream may hold late bytes, but
no header (`Headless`), and no request waits; so after `send_req` a header in it, with any
late bytes in front, can only be that of the request, and what stands behind it is no more
than it promises (`Fits`).  A first read in which the line loop finds no header keeps
nothing; one in which it finds one leaves the rest of that answer alone (`Found`, `Rest`),
and that is headless again.  `TypeCorrect` (`TypeOK`) needs that
no loop asks for less than one unit, which either invariant gives: it holds without
stalls, and with them for GETs.

**`TransactionProofs`**, for any urllists, templates, cookies, bodies, pipe and faults.
`TypeCorrect` (`TypeOK`).  `Answers` (`AnswerComes`): `ConnInv`, in which every request in
the server's hands asks it to close.  `FindsValue` (`TemplateFindsValue`): `ReadInv`, which
is `Split` again for the generic socket.  `LeavesNothing` (`NothingLeft`): `ChildInv`, what
each step of `postprocess` leaves of the script.  `NewestFirst` (`NewestCookieFirst`):
`CookieInv`, that for each cookie whose latest setting was a first `Set-Cookie` the list
has that value before all others of the name but strays (`Leads`, `Newest`): one response
prepends a newer entry of its own, or one of another name, or a stray.  `Agrees` (`ParamsAgree`):
`Prefix` says of the first `i` tokens of a template which values they gave and what the
hash holds now; `PrefixGrows` takes one token of each kind, and `ExpandFills` is the
induction over the template.

**`UrlListProofs`**, for any urllist, any nesting and any number of runs.
`ReachesSomeone` (`HeadersReachSomeone`): `HeaderInv` says of the runs that took
a URL that some run has all its headers, or is about to take one with no separator from
there on cut.  `FillsTable` (`TableIsFull`):
that the recursion of `count_xml_seq_child` defines numbers at all is an induction over
the elements from the last to the first (`BelowNatural`), since the children of an element
come after it.  `LoopInv` then says that the entries written are those the loops on
the stack have passed (`Nested`, `Steps`: one loop multiplies, the ones around it
add up), which `TableBounded` keeps within the count.  `ExpandsInOrder`
(`ExpandedInOrder`): `OrderInv` adds that each loop on the stack is below those around it (`Inside`), that
`p->state` has its place under its name if it is in `Sole` (`Has`), which no loop or draw
below it can change, and that the entries are those of the expansion.  `Lies` says where the expansion of one loop stands in that of
the loop around it; `LiesInAll` carries that outwards to the root.

**`ChunkReaderProofs`**, for bodies of any number of chunks of any size and reads cut
anywhere: `CountersInStep` (`InStep`), `Drained` (`DrainedUnlessCut`), `Sound`
(`SoundUnlessCut`), `StallOnlyAtStart` (`StallsOnlyWhenWhole`) and `TypeCorrect`.
`InStep` is not inductive: that the next byte is a digit says nothing of the byte
behind it.  The invariant names places of the grammar instead (`AtDigit`, `AtCR`,
`AtLF`, `AtEndLF`, `AtData`, each relative to the size digit of its chunk) and says
at which of them `at` and `got` may be in each loop.  `WellFormed` describes a body
by what stands around each digit, so no induction over the body is needed;
`ChunkAhead`, `EndAhead` and `LineCut` turn it into where the next step ends, and
each action has a lemma of its own.

**`StartupProofs`**, for any farm and profile elements: `HandlersAsMeant`
(`TableAsMeant`) and `FamiliesAgree` (`OneFamily`).  `TableInv` says what the
table holds for the classes and handlers the loops have passed; `FamiliesAgree`
follows from `TableAsMeant`, since the members of two classes are disjoint.
`TableFits` (`TableFitsFarm`): the sum of the first loop and the names of the second one
are compared element by element: both are the cardinality of a set of clones, those of the
elements passed so far (`ClonesBefore`, `InTable`).

Induction.  The library's induction theorems take an operator as a parameter, which
the installed provers cannot instantiate.  `SetInduction` of `NetworkProofs` (and its
twin `NumbersFrom` of `UrlListProofs`) takes a set of numbers instead and rests on
the well-foundedness of `<`: a statement about all sequences of length `n`, all
prefixes or all elements from `n` on is the set of those `n` for which it holds.  What is
defined by recursion is first shown to exist, as the function the definition chooses.

Only model-checked is liveness (`Termination` of five runs): fairness and `ENABLED` are
out of the prover's reach.  Every invariant and every action property that a passing run
checks is a theorem.

## 5. Findings

`PROJECT.json` quotes the statement and the line for each violation run: a close
after the stale check (`keepalive_idle_close`), a script that gets only the head
of a response (`script_input`), the exit status (`farm_exit`), the extra headers
(`urllist_headers`).

## 6. Not modelled, and the plan

Not modelled because there is nothing to check: `flood_pcre.c` (a stateless
wrapper), `flood_config.c` (look-ups in a tree), `flood_test.c` (not part of
flood), the build.  The fork variant of `farmer_worker` is left out: it is used
only where APR has no threads.  `flood_net_ssl.c` makes the calls of `flood_net.c`
to an OpenSSL object: its retries depend on OpenSSL's error queue, for which the
repository has no specification.  The reports write formatted lines: their text,
and how the lines of concurrent farmers mix, is left out; `flood_simple_reports.c`
counts in `RunProfile`.  Of the profile, the text of a request, `baseurl`, the proxy
and the unescaping of substituted lines are wording.

In order of weight, next:

1. Proofs: that a mixed run of GETs and HEADs keeps what `KeptInStep` says up to the
   first HEAD behind a stall; step lemmas for the measures that `Termination` descends.
2. `Reports`: farmers writing lines to stdout with and without the mutex.
3. `Transaction` over the keep-alive socket as well: one module that takes the
   handlers of either.
