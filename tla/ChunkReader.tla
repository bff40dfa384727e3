---------------------------- MODULE ChunkReader ----------------------------
(***************************************************************************)
(* How flood_socket_keepalive.c drops a chunked response nobody wants: the *)
(* chunk loop of keepalive_recv_resp over the bytes of the first read, and *)
(* keepalive_read_chunk over the rest, for every way TCP may cut the body  *)
(* into reads.  KeepaliveSocket models the same code chunk by chunk.       *)
(*                                                                         *)
(* The server sends a whole well-formed body, without chunk extensions or  *)
(* trailers, and then waits for the next request.  Positions in the buffer *)
(* are positions in the body: b is `at', the bytes behind it in the buffer *)
(* are those up to `got', so blen (or remaining) is got - at.  What a      *)
(* strstr may find behind the received bytes is left open.                 *)
(***************************************************************************)
EXTENDS Integers, Sequences

CONSTANTS
    Bodies,    \* the chunked bodies a server may send
    BufBytes   \* MAX_DOC_LENGTH - 1: the most one read returns

(* A byte with its place in the grammar.  A size line is one digit, CR and *)
(* LF; n is what it says.  A data byte has n of its chunk still to come,   *)
(* itself included.  After the size line of 0 the body ends with a CRLF.   *)
Byte == [kind: {"digit", "cr", "lf", "data", "CR", "LF", "endCR", "endLF"}, n: Nat]

IsCR(x) == x.kind \in {"cr", "CR", "endCR"}

(* A size line with its chunk, or the one that ends the body. *)
IsLine(b, p) ==
    /\ p + 2 <= Len(b)
    /\ b[p + 1] = [kind |-> "cr", n |-> b[p].n]
    /\ b[p + 2] = [kind |-> "lf", n |-> b[p].n]

IsChunk(b, p) ==
    /\ p + 5 + b[p].n <= Len(b)
    /\ \A i \in 1..b[p].n : b[p + 2 + i] = [kind |-> "data", n |-> b[p].n + 1 - i]
    /\ b[p + 3 + b[p].n] = [kind |-> "CR", n |-> 0]
    /\ b[p + 4 + b[p].n] = [kind |-> "LF", n |-> 0]
    /\ b[p + 5 + b[p].n].kind = "digit"

IsEnd(b, p) ==
    /\ p + 4 = Len(b)
    /\ b[p + 3] = [kind |-> "endCR", n |-> 0]
    /\ b[p + 4] = [kind |-> "endLF", n |-> 0]

WellFormed(b) ==
    /\ b \in Seq(Byte)
    /\ Len(b) > 0
    /\ b[1].kind = "digit"
    /\ \A p \in 1..Len(b) : b[p].kind = "digit" =>
         IsLine(b, p) /\ IF b[p].n > 0 THEN IsChunk(b, p) ELSE IsEnd(b, p)

ASSUME ChunkAssumption ==
    /\ \A b \in Bodies : WellFormed(b)
    /\ BufBytes \in Nat \ {0}

VARIABLES
    pc,            \* the loop the code is in, or how it ended
    body,          \* what the server sends after the header block
    got,           \* body bytes received so far
    at,            \* body bytes the code has stepped over: resp->chunk or b
    chunk,         \* resp->chunk is not NULL
    chunk_length,
    old_length,
    first,         \* history: the body bytes of the first read
    cut            \* history: a read ended where the code cannot go on

vars == <<pc, body, got, at, chunk, chunk_length, old_length, first, cut>>

TypeOK ==
    /\ pc \in {"first", "scan", "enter", "size", "data", "last",
               "end", "stalled", "aborted", "lost"}
    /\ body \in Bodies
    /\ got \in 0..Len(body)
    /\ at \in 0..got
    /\ chunk \in BOOLEAN
    /\ chunk_length \in Int
    /\ old_length \in {-1, 0}
    /\ first \in 0..Len(body)
    /\ cut \in BOOLEAN

Init ==
    /\ pc = "first"
    /\ body \in Bodies
    /\ got = 0 /\ at = 0
    /\ chunk = FALSE /\ chunk_length = 0 /\ old_length = 0
    /\ first = 0 /\ cut = FALSE

Smaller(m, n) == IF m < n THEN m ELSE n

(* The lengths a read for limit bytes may return: as many as have arrived. *)
Lengths(limit) == 1..Smaller(limit, Len(body) - got)

(* A read ended at this place, behind one byte and before another. *)
InSizeLine(k) == k > 0 /\ body[k].kind \in {"digit", "cr"}
BehindData(k) == k > 0 /\ body[k].kind = "data" /\ body[k].n = 1
InLastChunk(k) == k > 0 /\ k < Len(body) /\ body[k].kind \in {"lf", "endCR"} /\ body[k].n = 0

-----------------------------------------------------------------------------
(* keepalive_recv_resp.  The first read brings the header block and perhaps *)
(* the beginning of the body.                                               *)
FirstRead ==
    /\ pc = "first"
    /\ \E n \in {0} \cup Lengths(BufBytes) :
         /\ got' = n
         /\ first' = n
         /\ cut' = (InSizeLine(n) \/ BehindData(n) \/ InLastChunk(n))
         /\ pc' = IF n = 0 THEN "enter" ELSE "scan"
    /\ UNCHANGED <<body, at, chunk, chunk_length, old_length>>

(* The size line behind `at' is complete in the buffer. *)
LineRead == at + 3 <= got
Size == body[at + 1].n

(* The do loop over the chunks of the first read: find the size, and step  *)
(* over data and CRLF if more than the data is there.                      *)
Partial_Whole(rem) == -2   \* mutant: takes the CRLF for unread
Partial(rem) == -(rem - Size)

ScanChunk ==
    /\ pc = "scan" /\ at < got /\ LineRead
    /\ chunk' = TRUE
    /\ LET rem == got - (at + 3)
       IN  IF Size + 2 <= rem
           THEN /\ at' = at + 3 + Size + 2
                /\ chunk_length' = Size
                /\ pc' = "scan"
           ELSE /\ at' = got
                /\ chunk_length' = IF rem > Size THEN Partial(rem) ELSE Size - rem
                /\ pc' = "enter"
    /\ UNCHANGED <<body, got, old_length, first, cut>>

(* The first read ended with a chunk: resp->chunk becomes NULL. *)
ScanEnds ==
    /\ pc = "scan" /\ at = got
    /\ chunk' = FALSE
    /\ pc' = "enter"
    /\ UNCHANGED <<body, got, at, chunk_length, old_length, first, cut>>

(* The size line is cut: strstr runs on into what the buffer held before,   *)
(* and assert(foo) fails unless it meets a CRLF there.                      *)
ScanCut ==
    /\ pc = "scan" /\ at < got /\ ~LineRead
    /\ pc' \in {"aborted", "lost"}
    /\ UNCHANGED <<body, got, at, chunk, chunk_length, old_length, first, cut>>

-----------------------------------------------------------------------------
(* keepalive_read_chunk. *)

(* A chunk whose data ended with the first read is taken for the last one. *)
EnterReturns ==
    /\ pc = "enter" /\ chunk /\ chunk_length = 0
    /\ pc' = "end"
    /\ UNCHANGED <<body, got, at, chunk, chunk_length, old_length, first, cut>>

Enter ==
    /\ pc = "enter" /\ ~(chunk /\ chunk_length = 0)
    /\ old_length' = IF chunk /\ chunk_length < 0 THEN chunk_length ELSE 0
    /\ chunk_length' = IF chunk /\ chunk_length > 0 THEN chunk_length ELSE 0
    /\ pc' = IF chunk /\ chunk_length > 0 THEN "data" ELSE "size"
    /\ UNCHANGED <<body, got, at, chunk, first, cut>>

(* while (!blen): read, then step over the rest of the CRLF that ends the   *)
(* chunk before.                                                            *)
SkipRead_NoOld(a, g) == IF a + 2 <= g /\ IsCR(body[a + 1]) THEN a + 2 ELSE a   \* mutant
SkipRead(a, g) ==
    LET b == a - old_length
    IN  IF b + 2 <= g /\ IsCR(body[b + 1]) THEN b + 2 ELSE b

LoneCR(a, g) == g = a + 1 /\ IsCR(body[a + 1])

ReadSize ==
    /\ pc = "size" /\ at = got
    /\ \E n \in Lengths(BufBytes) :
         /\ got' = got + n
         /\ at' = SkipRead(got, got + n)
         /\ old_length' = 0
         /\ cut' = (cut \/ InSizeLine(got + n) \/ InLastChunk(got + n) \/ LoneCR(got, got + n))
    /\ UNCHANGED <<pc, body, chunk, chunk_length, first>>

(* The data of this chunk has all been read: step over the CRLF behind it,  *)
(* or remember that its LF is still to come.                                *)
AfterData(a, g) == Smaller(a + 2, g)
StillOwed(a, g) == IF g = a + 1 THEN -1 ELSE 0

(* A size line: the chunk may end in the buffer or go on behind it. *)
ParseSize ==
    /\ pc = "size" /\ at < got /\ LineRead /\ Size > 0
    /\ LET from == at + 3
           blen == got - from
       IN  IF Size <= blen
           THEN /\ at' = AfterData(from + Size, got)
                /\ old_length' = StillOwed(from + Size, got)
                /\ UNCHANGED <<pc, chunk_length>>
           ELSE /\ at' = got
                /\ chunk_length' = Size - blen
                /\ pc' = "data"
                /\ UNCHANGED old_length
    /\ UNCHANGED <<body, got, chunk, first, cut>>

(* A size of 0, or a size line that is cut and read as 0.  The code reads   *)
(* once more unless it sees the closing CRLF.                               *)
WholeEnd_Late == at + 5 < got   \* mutant: wants a byte behind the body
WholeEnd == at + 5 <= got

ParseLast ==
    /\ pc = "size" /\ at < got /\ LineRead /\ Size = 0
    /\ IF WholeEnd THEN pc' = "end" ELSE pc' \in {"last", "end"}
    /\ UNCHANGED <<body, got, at, chunk, chunk_length, old_length, first, cut>>

ParseCut ==
    /\ pc = "size" /\ at < got /\ ~LineRead
    /\ pc' \in {"last", "end", "lost"}
    /\ UNCHANGED <<body, got, at, chunk, chunk_length, old_length, first, cut>>

ReadLast ==
    /\ pc = "last"
    /\ \E n \in Lengths(BufBytes) : got' = got + n /\ at' = got + n
    /\ pc' = "end"
    /\ UNCHANGED <<body, chunk, chunk_length, old_length, first, cut>>

(* The data of a chunk, as much as the buffer takes. *)
DataLimit == Smaller(chunk_length, BufBytes)

ReadData ==
    /\ pc = "data"
    /\ \E n \in Lengths(DataLimit) :
         /\ got' = got + n
         /\ at' = got + n
         /\ chunk_length' = chunk_length - n
         /\ pc' = IF chunk_length - n = 0 THEN "size" ELSE "data"
    /\ UNCHANGED <<body, chunk, old_length, first, cut>>

(* Everything was read already: the read waits for the poll timeout, which  *)
(* ends keepalive_read_chunk.                                               *)
ReadNothing ==
    /\ pc = "last" \/ (pc \in {"size", "data"} /\ at = got)
    /\ got = Len(body)
    /\ pc' = "stalled"
    /\ UNCHANGED <<body, got, at, chunk, chunk_length, old_length, first, cut>>

Stopped == pc \in {"end", "stalled", "aborted", "lost"} /\ UNCHANGED vars

Step == FirstRead \/ ScanChunk \/ ScanEnds \/ ScanCut \/ EnterReturns \/ Enter
          \/ ReadSize \/ ParseSize \/ ParseLast \/ ParseCut \/ ReadLast
          \/ ReadData \/ ReadNothing

Next == Step \/ Stopped

Spec == Init /\ [][Next]_vars

-----------------------------------------------------------------------------
(* read_chunk's counters agree with the body: in the middle of a chunk      *)
(* chunk_length is the data still to come, and between chunks old_length    *)
(* tells whether the next byte is the LF a read was too short for.          *)
InStep ==
    /\ pc = "data" =>
         /\ got < Len(body)
         /\ body[got + 1] = [kind |-> "data", n |-> chunk_length]
    /\ pc = "size" /\ at = got /\ got < Len(body) =>
         body[got + 1].kind \in IF old_length = -1 THEN {"LF", "endLF"}
                                ELSE {"digit", "CR"}
    /\ pc = "size" /\ at < got => body[at + 1].kind \in {"digit", "CR"}

(* Unless a read ended inside a size line, inside the last-chunk, or with   *)
(* the first read exactly behind the data of a chunk, all of the body is    *)
(* read before the connection is used again.                                *)
DrainedUnlessCut == pc \in {"end", "stalled"} /\ ~cut => got = Len(body)

(* Without such a cut nothing is read from behind the received bytes, and   *)
(* assert(foo) holds.                                                       *)
SoundUnlessCut == pc \in {"aborted", "lost"} => cut

(* recv_resp waits for bytes nobody will send only when the first read held *)
(* the whole body, up to the last LF: any later end is recognised.          *)
StallsOnlyWhenWhole == pc = "stalled" => first >= Len(body) - 1
=============================================================================
