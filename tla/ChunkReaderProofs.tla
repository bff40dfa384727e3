------------------------- MODULE ChunkReaderProofs -------------------------
(***************************************************************************)
(* ChunkReader's safety for bodies of any length, chunks of any size and   *)
(* reads cut anywhere.  The invariant says, for every place of the code,   *)
(* where in the grammar of the body `at' and `got' can be.                 *)
(***************************************************************************)
EXTENDS ChunkReader, TLAPS

(* What the byte behind place k of body b is: the size digit of a chunk or  *)
(* of the last-chunk, the CR or LF behind the data of a chunk, the last LF, *)
(* or a data byte with d of its chunk still to come.                        *)
Digit(b, p) == p \in 1..Len(b) /\ b[p].kind = "digit"
HasData(b, p) == Digit(b, p) /\ b[p].n > 0

AtDigit(b, k) == Digit(b, k + 1)
AtCR(b, k) == \E p \in 1..Len(b) : HasData(b, p) /\ k = p + 2 + b[p].n
AtLF(b, k) == \E p \in 1..Len(b) : HasData(b, p) /\ k = p + 3 + b[p].n
AtEndLF(b, k) == \E p \in 1..Len(b) : Digit(b, p) /\ b[p].n = 0 /\ k = p + 3
AtData(b, k, d) ==
    \E p \in 1..Len(b) : HasData(b, p) /\ d \in 1..b[p].n /\ k = p + 2 + b[p].n - d

(* recv_resp's loop over the first read. *)
ScanInv ==
    pc = "scan" =>
      /\ got > 0 /\ first = got /\ old_length = 0
      /\ cut = (InSizeLine(got) \/ BehindData(got) \/ InLastChunk(got))
      /\ AtDigit(body, at) \/ (at = got /\ got = Len(body))

(* What recv_resp hands to read_chunk. *)
EnterInv ==
    pc = "enter" =>
      /\ at = got /\ first = got
      /\ ~chunk => AtDigit(body, got) \/ got = Len(body)
      /\ chunk => \/ chunk_length = -1 /\ (AtLF(body, got) \/ AtEndLF(body, got))
                  \/ chunk_length = 0 /\ cut
                  \/ chunk_length > 0 /\ AtData(body, got, chunk_length)

(* read_chunk between chunks, before and after a read. *)
BeforeRead ==
    \/ old_length = -1 /\ (AtLF(body, got) \/ (AtEndLF(body, got) /\ first = got))
    \/ old_length = 0 /\ \/ AtDigit(body, got) \/ AtCR(body, got)
                         \/ got = Len(body) /\ first >= Len(body) - 1

AfterRead ==
    /\ old_length = 0
    /\ AtDigit(body, at) \/ (AtCR(body, at) /\ got = at + 1 /\ cut)
    /\ InSizeLine(got) \/ InLastChunk(got) => cut

SizeInv == pc = "size" => IF at = got THEN BeforeRead ELSE AfterRead

DataInv == pc = "data" => at = got /\ old_length = 0 /\ AtData(body, got, chunk_length)

(* How it ends. *)
EndInv ==
    /\ pc = "first" => got = 0 /\ at = 0 /\ chunk = FALSE /\ old_length = 0
    /\ pc = "last" => cut /\ got < Len(body)
    /\ pc = "end" => cut \/ got = Len(body)
    /\ pc = "stalled" => got = Len(body) /\ first >= Len(body) - 1
    /\ pc \in {"aborted", "lost"} => cut

ChunkInv == TypeOK /\ ScanInv /\ EnterInv /\ SizeInv /\ DataInv /\ EndInv

-----------------------------------------------------------------------------
(* What a well-formed body has around a size digit. *)
LEMMA DigitPlace ==
    ASSUME NEW b, WellFormed(b), NEW p, Digit(b, p)
    PROVE  /\ Len(b) \in Nat /\ p \in Nat /\ p > 0
           /\ b[p].n \in Nat
           /\ p + 4 <= Len(b)
           /\ b[p + 1] = [kind |-> "cr", n |-> b[p].n]
           /\ b[p + 2] = [kind |-> "lf", n |-> b[p].n]
           /\ b[p].n > 0 => IsChunk(b, p)
           /\ b[p].n = 0 => IsEnd(b, p)
<1>1. Len(b) \in Nat /\ b[p] \in Byte /\ p \in Nat /\ p > 0
  BY DEF WellFormed, Digit
<1>2. b[p].n \in Nat
  BY <1>1 DEF Byte
<1>3. IsLine(b, p) /\ IF b[p].n > 0 THEN IsChunk(b, p) ELSE IsEnd(b, p)
  BY DEF WellFormed, Digit
<1>4. p + 4 <= Len(b)
  BY <1>1, <1>2, <1>3 DEF IsChunk, IsEnd
<1> QED
  BY <1>1, <1>2, <1>3, <1>4 DEF IsLine

(* The data of a chunk, and what is behind it. *)
LEMMA DataPlace ==
    ASSUME NEW b, WellFormed(b), NEW p, HasData(b, p), NEW d \in 1..b[p].n
    PROVE  b[p + 3 + b[p].n - d] = [kind |-> "data", n |-> d]
<1>1. b[p].n \in Nat /\ p \in Nat /\ IsChunk(b, p)
  BY DigitPlace DEF HasData
<1>2. PICK i \in 1..b[p].n : i = b[p].n + 1 - d
  BY <1>1
<1>3. b[p + 2 + i] = [kind |-> "data", n |-> b[p].n + 1 - i]
  BY <1>1 DEF IsChunk
<1>4. p + 2 + i = p + 3 + b[p].n - d /\ b[p].n + 1 - i = d
  BY <1>1, <1>2
<1> QED
  BY <1>3, <1>4

LEMMA ChunkPlace ==
    ASSUME NEW b, WellFormed(b), NEW p, HasData(b, p)
    PROVE  /\ p + 5 + b[p].n <= Len(b)
           /\ b[p + 3 + b[p].n] = [kind |-> "CR", n |-> 0]
           /\ b[p + 4 + b[p].n] = [kind |-> "LF", n |-> 0]
           /\ Digit(b, p + 5 + b[p].n)
<1>1. /\ Len(b) \in Nat /\ p \in Nat /\ p > 0 /\ b[p].n \in Nat /\ b[p].n > 0
      /\ IsChunk(b, p)
  BY DigitPlace DEF HasData
<1>2. p + 5 + b[p].n <= Len(b) /\ b[p + 5 + b[p].n].kind = "digit"
  BY <1>1 DEF IsChunk
<1>3. p + 5 + b[p].n \in 1..Len(b)
  BY <1>1, <1>2
<1> QED
  BY <1>1, <1>2, <1>3 DEF IsChunk, Digit

(* What every state has. *)
LEMMA BodyFacts ==
    ASSUME TypeOK
    PROVE  /\ WellFormed(body) /\ Len(body) \in Nat /\ Len(body) > 0
           /\ got \in Nat /\ at \in Nat /\ first \in Nat
           /\ got <= Len(body) /\ at <= got
           /\ BufBytes \in Nat /\ BufBytes > 0
  BY ChunkAssumption DEF TypeOK, WellFormed

(* The places the invariant names, as the next bytes of the body. *)
LEMMA AtDigitFacts ==
    ASSUME TypeOK, NEW k \in Int, AtDigit(body, k)
    PROVE  /\ k >= 0 /\ k + 5 <= Len(body)
           /\ body[k + 1].kind = "digit" /\ body[k + 1].n \in Nat
           /\ body[k + 2] = [kind |-> "cr", n |-> body[k + 1].n]
           /\ body[k + 3] = [kind |-> "lf", n |-> body[k + 1].n]
<1>1. Digit(body, k + 1) /\ WellFormed(body)
  BY BodyFacts DEF AtDigit
<1>2. /\ k + 1 > 0 /\ (k + 1) + 4 <= Len(body) /\ body[k + 1].n \in Nat
      /\ body[(k + 1) + 1] = [kind |-> "cr", n |-> body[k + 1].n]
      /\ body[(k + 1) + 2] = [kind |-> "lf", n |-> body[k + 1].n]
  BY <1>1, DigitPlace
<1>3. (k + 1) + 1 = k + 2 /\ (k + 1) + 2 = k + 3
  OBVIOUS
<1> QED
  BY <1>1, <1>2, <1>3, BodyFacts, SMTT(30) DEF Digit

(* The chunk a place belongs to, its size as a number. *)
LEMMA PlaceFacts ==
    ASSUME TypeOK, NEW p, HasData(body, p), NEW n, n = body[p].n
    PROVE  /\ n \in Nat /\ n > 0
           /\ p \in Nat /\ p > 0 /\ p + 5 + n <= Len(body)
           /\ body[p + 3 + n] = [kind |-> "CR", n |-> 0]
           /\ body[p + 4 + n] = [kind |-> "LF", n |-> 0]
           /\ Digit(body, p + 5 + n)
<1>1. WellFormed(body) /\ Digit(body, p) /\ body[p].n > 0
  BY BodyFacts DEF HasData
<1>2. body[p].n \in Nat /\ p \in Nat /\ p > 0
  BY <1>1, DigitPlace
<1> QED
  BY <1>1, <1>2, ChunkPlace

LEMMA DataFacts ==
    ASSUME TypeOK, NEW p, HasData(body, p), NEW n, n = body[p].n, NEW d \in 1..n
    PROVE  body[p + 3 + n - d] = [kind |-> "data", n |-> d]
<1>1. WellFormed(body) /\ d \in 1..body[p].n
  BY BodyFacts
<1>2. body[p + 3 + body[p].n - d] = [kind |-> "data", n |-> d]
  BY <1>1, DataPlace
<1> QED
  BY <1>2

LEMMA AtCRFacts ==
    ASSUME TypeOK, NEW k, AtCR(body, k)
    PROVE  /\ k \in Nat /\ k > 0 /\ k + 3 <= Len(body)
           /\ body[k + 1].kind = "CR" /\ AtDigit(body, k + 2)
<1>1. PICK p \in 1..Len(body) : HasData(body, p) /\ k = p + 2 + body[p].n
  BY DEF AtCR
<1>2. PICK n : n = body[p].n
  OBVIOUS
<1>3. /\ n \in Nat /\ p \in Nat /\ p + 5 + n <= Len(body)
      /\ body[p + 3 + n] = [kind |-> "CR", n |-> 0]
      /\ Digit(body, p + 5 + n)
  BY <1>1, <1>2, PlaceFacts
<1>4. k = p + 2 + n
  BY <1>1, <1>2
<1>5. Len(body) \in Nat
  BY BodyFacts
<1>6. /\ k \in Nat /\ k > 0 /\ k + 3 <= Len(body)
      /\ k + 1 = p + 3 + n /\ (k + 2) + 1 = p + 5 + n
  BY <1>3, <1>4, <1>5
<1> QED
  BY <1>3, <1>6 DEF AtDigit

LEMMA AtLFFacts ==
    ASSUME TypeOK, NEW k, AtLF(body, k)
    PROVE  /\ k \in Nat /\ k > 0 /\ k + 2 <= Len(body)
           /\ body[k + 1].kind = "LF" /\ AtDigit(body, k + 1)
<1>1. PICK p \in 1..Len(body) : HasData(body, p) /\ k = p + 3 + body[p].n
  BY DEF AtLF
<1>2. PICK n : n = body[p].n
  OBVIOUS
<1>3. /\ n \in Nat /\ p \in Nat /\ p + 5 + n <= Len(body)
      /\ body[p + 4 + n] = [kind |-> "LF", n |-> 0]
      /\ Digit(body, p + 5 + n)
  BY <1>1, <1>2, PlaceFacts
<1>4. k = p + 3 + n
  BY <1>1, <1>2
<1>5. Len(body) \in Nat
  BY BodyFacts
<1>6. /\ k \in Nat /\ k > 0 /\ k + 2 <= Len(body)
      /\ k + 1 = p + 4 + n /\ (k + 1) + 1 = p + 5 + n
  BY <1>3, <1>4, <1>5
<1> QED
  BY <1>3, <1>6 DEF AtDigit

LEMMA AtEndLFFacts ==
    ASSUME TypeOK, NEW k, AtEndLF(body, k)
    PROVE  k \in Nat /\ k > 0 /\ k + 1 = Len(body) /\ body[k + 1].kind = "endLF"
<1>1. PICK p \in 1..Len(body) : Digit(body, p) /\ body[p].n = 0 /\ k = p + 3
  BY DEF AtEndLF
<1>2. IsEnd(body, p) /\ p \in Nat
  BY <1>1, BodyFacts, DigitPlace
<1>3. p + 4 = Len(body) /\ body[p + 4].kind = "endLF"
  BY <1>2 DEF IsEnd
<1>4. k \in Nat /\ k > 0 /\ k + 1 = p + 4
  BY <1>1, <1>2
<1> QED
  BY <1>3, <1>4

LEMMA AtDataFacts ==
    ASSUME TypeOK, NEW k, NEW d, AtData(body, k, d)
    PROVE  /\ k \in Nat /\ d \in Nat /\ d > 0 /\ k + d < Len(body)
           /\ body[k + 1] = [kind |-> "data", n |-> d]
           /\ AtCR(body, k + d)
           /\ \A m \in 1..(d - 1) : AtData(body, k + m, d - m)
<1>1. PICK p \in 1..Len(body) : HasData(body, p) /\ d \in 1..body[p].n /\ k = p + 2 + body[p].n - d
  BY DEF AtData
<1>2. PICK n : n = body[p].n
  OBVIOUS
<1>3. d \in 1..n /\ k = p + 2 + n - d
  BY <1>1, <1>2
<1>4. n \in Nat /\ p \in Nat /\ p + 5 + n <= Len(body)
  BY <1>1, <1>2, PlaceFacts
<1>5. Len(body) \in Nat
  BY BodyFacts
<1>6. /\ k \in Nat /\ d \in Nat /\ d > 0 /\ k + d < Len(body)
      /\ k + 1 = p + 3 + n - d /\ k + d = p + 2 + n
  BY <1>3, <1>4, <1>5
<1>7. body[k + 1] = [kind |-> "data", n |-> d]
  BY <1>1, <1>2, <1>3, <1>6, DataFacts
<1>8. AtCR(body, k + d)
  BY <1>1, <1>2, <1>6 DEF AtCR
<1>9. ASSUME NEW m \in 1..(d - 1)
      PROVE  AtData(body, k + m, d - m)
  <2>1. d - m \in 1..n /\ k + m = p + 2 + n - (d - m)
    BY <1>3, <1>4
  <2> QED BY <1>1, <1>2, <2>1 DEF AtData
<1> QED
  BY <1>6, <1>7, <1>8, <1>9

-----------------------------------------------------------------------------
(* Where a chunk whose size digit is behind place k ends. *)
LEMMA ChunkAhead ==
    ASSUME TypeOK, NEW k \in Int, AtDigit(body, k),
           NEW s, s = body[k + 1].n, s > 0
    PROVE  /\ s \in Nat /\ k >= 0 /\ k + 6 + s <= Len(body)
           /\ AtCR(body, k + 3 + s) /\ AtLF(body, k + 4 + s) /\ AtDigit(body, k + 5 + s)
           /\ \A d \in 1..s : AtData(body, k + 3 + s - d, d)
           /\ BehindData(k + 3 + s)
<1> DEFINE p == k + 1
<1>1. HasData(body, p) /\ s = body[p].n /\ p \in 1..Len(body)
  BY DEF AtDigit, HasData, Digit
<1>2. s \in Nat /\ p + 5 + s <= Len(body) /\ Digit(body, p + 5 + s) /\ k >= 0
  BY <1>1, PlaceFacts, AtDigitFacts
<1>3. /\ k + 3 + s = p + 2 + s /\ k + 4 + s = p + 3 + s /\ (k + 5 + s) + 1 = p + 5 + s
      /\ k + 6 + s = p + 5 + s
  BY <1>2, SMTT(30)
<1>4. AtCR(body, k + 3 + s) /\ AtLF(body, k + 4 + s) /\ AtDigit(body, k + 5 + s)
  BY <1>1, <1>2, <1>3 DEF AtCR, AtLF, AtDigit
<1>5. ASSUME NEW d \in 1..s
      PROVE  AtData(body, k + 3 + s - d, d)
  <2>1. k + 3 + s - d = p + 2 + s - d
    BY <1>2
  <2> QED BY <1>1, <2>1 DEF AtData
<1>6. BehindData(k + 3 + s)
  <2>1. 1 \in 1..s /\ p + 3 + s - 1 = k + 3 + s /\ k + 3 + s > 0
    BY <1>2
  <2>2. body[p + 3 + s - 1] = [kind |-> "data", n |-> 1]
    BY <1>1, <2>1, DataFacts
  <2> QED BY <2>1, <2>2 DEF BehindData
<1> QED
  BY <1>2, <1>3, <1>4, <1>5, <1>6

(* The last-chunk. *)
LEMMA EndAhead ==
    ASSUME TypeOK, NEW k \in Int, AtDigit(body, k), body[k + 1].n = 0
    PROVE  /\ k >= 0 /\ k + 5 = Len(body) /\ AtEndLF(body, k + 4)
           /\ InLastChunk(k + 3) /\ InLastChunk(k + 4)
<1> DEFINE p == k + 1
<1>1. WellFormed(body) /\ Digit(body, p) /\ body[p].n = 0 /\ p \in 1..Len(body)
  BY BodyFacts DEF AtDigit, Digit
<1>2. IsEnd(body, p)
  BY <1>1, DigitPlace
<1>3. p + 4 = Len(body) /\ body[p + 3] = [kind |-> "endCR", n |-> 0]
  BY <1>2 DEF IsEnd
<1>4. k >= 0 /\ body[k + 3] = [kind |-> "lf", n |-> 0]
  BY AtDigitFacts
<1>5. k + 4 = p + 3 /\ k + 5 = p + 4
  OBVIOUS
<1>6. AtEndLF(body, k + 4)
  BY <1>1, <1>5 DEF AtEndLF
<1>7. InLastChunk(k + 3) /\ InLastChunk(k + 4)
  BY <1>3, <1>4, <1>5 DEF InLastChunk
<1> QED
  BY <1>3, <1>4, <1>5, <1>6, <1>7

(* A read that ends inside a size line. *)
LEMMA LineCut ==
    ASSUME TypeOK, AtDigit(body, at), at < got, ~LineRead
    PROVE  InSizeLine(got) /\ got < Len(body)
<1>1. at \in Nat /\ got \in Nat
  BY BodyFacts
<1>2. /\ at + 5 <= Len(body) /\ body[at + 1].kind = "digit"
      /\ body[at + 2].kind = "cr"
  <2>1. at \in Int
    BY <1>1
  <2>2. /\ at + 5 <= Len(body) /\ body[at + 1].kind = "digit"
        /\ body[at + 2] = [kind |-> "cr", n |-> body[at + 1].n]
    BY <2>1, AtDigitFacts
  <2> QED BY <2>2
<1>3. (got = at + 1 \/ got = at + 2) /\ got > 0
  BY <1>1 DEF LineRead
<1>4. got < Len(body)
  BY <1>1, <1>2, <1>3, BodyFacts
<1> QED
  BY <1>2, <1>3, <1>4 DEF InSizeLine

-----------------------------------------------------------------------------
LEMMA InitInv == Init => ChunkInv
<1> SUFFICES ASSUME Init PROVE ChunkInv
  OBVIOUS
<1>1. body \in Bodies /\ Len(body) \in Nat
  BY ChunkAssumption DEF Init, WellFormed
<1>2. TypeOK
  <2>1. got \in 0..Len(body) /\ at \in 0..got /\ first \in 0..Len(body) /\ chunk_length \in Int
    BY <1>1 DEF Init
  <2>2. pc \in {"first", "scan"} /\ chunk \in BOOLEAN /\ cut \in BOOLEAN /\ old_length \in {-1, 0}
    BY DEF Init
  <2> QED BY <1>1, <2>1, <2>2 DEF Init, TypeOK
<1> QED
  BY <1>2 DEF Init, ChunkInv, ScanInv, EnterInv, SizeInv, DataInv, EndInv

(* recv_resp. *)
LEMMA FirstReadInv ==
    ASSUME ChunkInv, FirstRead
    PROVE  ChunkInv'
<1>1. PICK n \in {0} \cup Lengths(BufBytes) :
         /\ got' = n /\ first' = n
         /\ cut' = (InSizeLine(n) \/ BehindData(n) \/ InLastChunk(n))
         /\ pc' = IF n = 0 THEN "enter" ELSE "scan"
  BY DEF FirstRead
<1>2. TypeOK /\ got = 0 /\ at = 0 /\ old_length = 0 /\ pc = "first"
  BY DEF ChunkInv, EndInv, FirstRead
<1>3. Len(body) \in Nat /\ BufBytes \in Nat /\ WellFormed(body) /\ Len(body) > 0
  BY <1>2, BodyFacts
<1>4. n \in 0..Len(body)
  BY <1>2, <1>3 DEF Lengths, Smaller
<1>5. /\ body' = body /\ at' = 0 /\ old_length' = 0 /\ chunk' = chunk
      /\ chunk_length' = chunk_length
  BY <1>2 DEF FirstRead
<1>6. chunk = FALSE
  BY <1>2 DEF ChunkInv, EndInv
<1>7. AtDigit(body, 0)
  BY <1>3 DEF AtDigit, Digit, WellFormed
<1>8. TypeOK'
  BY <1>1, <1>2, <1>4, <1>5 DEF TypeOK, InSizeLine, BehindData, InLastChunk
<1>9. cut' = (InSizeLine(got) \/ BehindData(got) \/ InLastChunk(got))'
  BY <1>1, <1>5 DEF InSizeLine, BehindData, InLastChunk
<1> QED
  BY <1>1, <1>4, <1>5, <1>6, <1>7, <1>8, <1>9
     DEF ChunkInv, ScanInv, EnterInv, SizeInv, DataInv, EndInv

LEMMA ScanChunkInv ==
    ASSUME ChunkInv, ScanChunk
    PROVE  ChunkInv'
<1>1. /\ TypeOK /\ pc = "scan" /\ at < got /\ got > 0 /\ first = got /\ old_length = 0
      /\ cut = (InSizeLine(got) \/ BehindData(got) \/ InLastChunk(got))
      /\ AtDigit(body, at)
  BY DEF ChunkInv, ScanInv, ScanChunk
<1>2. /\ at \in Int /\ got \in Nat /\ at >= 0 /\ got <= Len(body) /\ Len(body) \in Nat
      /\ at + 3 <= got
  BY <1>1, BodyFacts DEF ScanChunk, LineRead
<1>3. PICK s : s = Size
  OBVIOUS
<1>4. s = body[at + 1].n /\ s \in Nat
  BY <1>1, <1>2, <1>3, AtDigitFacts DEF Size
<1>5. /\ chunk' = TRUE /\ body' = body /\ got' = got /\ old_length' = old_length
      /\ first' = first /\ cut' = cut
  BY DEF ScanChunk
<1>6. InSizeLine(got) \/ BehindData(got) \/ InLastChunk(got) => cut
  BY <1>1
<1>7. CASE s + 2 <= got - (at + 3)
  <2>1. at' = at + 3 + s + 2 /\ chunk_length' = s /\ pc' = "scan"
    BY <1>3, <1>7 DEF ScanChunk
  <2>2. at' \in 0..got /\ at' = at + 5 + s
    BY <1>2, <1>4, <1>7, <2>1, SMTT(30)
  <2>3. AtDigit(body, at') \/ (at' = got /\ got = Len(body))
    <3>1. CASE s > 0
      BY <1>1, <1>2, <1>4, <2>2, <3>1, ChunkAhead
    <3>2. CASE s = 0
      <4>1. at + 5 = Len(body)
        BY <1>1, <1>2, <1>4, <3>2, EndAhead
      <4>2. at' = at + 5
        BY <1>2, <2>2, <3>2
      <4> QED BY <1>2, <2>2, <4>1, <4>2
    <3> QED BY <1>4, <3>1, <3>2
  <2>4. TypeOK'
    BY <1>1, <1>4, <1>5, <2>1, <2>2 DEF TypeOK
  <2> QED
    BY <1>1, <1>5, <2>1, <2>3, <2>4
       DEF ChunkInv, ScanInv, EnterInv, SizeInv, DataInv, EndInv,
           InSizeLine, BehindData, InLastChunk
<1>8. CASE ~(s + 2 <= got - (at + 3))
  <2>1. PICK tail : tail = got - (at + 3)
    OBVIOUS
  <2>2. tail \in Nat /\ tail <= s + 1 /\ got = at + 3 + tail
    BY <1>2, <1>4, <1>8, <2>1
  <2>3. /\ at' = got /\ pc' = "enter"
        /\ chunk_length' = IF tail > s THEN -(tail - s) ELSE s - tail
    BY <1>3, <1>8, <2>1 DEF ScanChunk, Partial
  <2>4. TypeOK'
    <3>1. chunk_length' \in Int /\ at' \in 0..got
      BY <1>2, <1>4, <2>2, <2>3
    <3> QED BY <1>1, <1>5, <2>3, <3>1 DEF TypeOK
  <2>5. CASE tail = s + 1
    <3>1. chunk_length' = -1 /\ got = at + 4 + s
      BY <1>2, <1>4, <2>2, <2>3, <2>5, SMTT(30)
    <3>2. AtLF(body, got) \/ AtEndLF(body, got)
      <4>1. CASE s > 0
        <5>1. AtLF(body, at + 4 + s)
          BY <1>1, <1>2, <1>4, <4>1, ChunkAhead
        <5> QED BY <3>1, <5>1
      <4>2. CASE s = 0
        <5>1. got = at + 4
          BY <1>2, <3>1, <4>2
        <5> QED BY <1>1, <1>2, <1>4, <4>2, <5>1, EndAhead
      <4> QED BY <1>4, <4>1, <4>2
    <3> QED
      BY <1>1, <1>5, <2>3, <2>4, <3>1, <3>2
         DEF ChunkInv, ScanInv, EnterInv, SizeInv, DataInv, EndInv
  <2>6. CASE tail = s
    <3>1. chunk_length' = 0 /\ got = at + 3 + s
      BY <1>2, <1>4, <2>2, <2>3, <2>6
    <3>2. cut
      <4>1. CASE s > 0
        <5>1. BehindData(got)
          BY <1>1, <1>2, <1>4, <3>1, <4>1, ChunkAhead
        <5> QED BY <1>6, <5>1
      <4>2. CASE s = 0
        <5>1. got = at + 3
          BY <1>2, <3>1, <4>2
        <5>2. InLastChunk(got)
          BY <1>1, <1>2, <1>4, <4>2, <5>1, EndAhead
        <5> QED BY <1>6, <5>2
      <4> QED BY <1>4, <4>1, <4>2
    <3> QED
      BY <1>1, <1>5, <2>3, <2>4, <3>1, <3>2
         DEF ChunkInv, ScanInv, EnterInv, SizeInv, DataInv, EndInv
  <2>7. CASE tail < s
    <3>1. PICK d \in Int : d = s - tail
      BY <1>4, <2>2
    <3>2. d \in 1..s /\ d > 0 /\ got = at + 3 + s - d /\ s > 0
      <4>1. s \in Nat
        BY <1>4
      <4> QED BY <1>2, <2>2, <2>7, <3>1, <4>1
    <3>3. chunk_length' = d
      BY <1>4, <2>2, <2>3, <2>7, <3>1
    <3>4. AtData(body, got, d)
      BY <1>1, <1>2, <1>4, <3>2, ChunkAhead
    <3> QED
      BY <1>1, <1>5, <2>3, <2>4, <3>2, <3>3, <3>4
         DEF ChunkInv, ScanInv, EnterInv, SizeInv, DataInv, EndInv
  <2> QED BY <1>4, <2>2, <2>5, <2>6, <2>7
<1> QED BY <1>7, <1>8

LEMMA ScanEndsInv ==
    ASSUME ChunkInv, ScanEnds
    PROVE  ChunkInv'
<1>1. TypeOK /\ pc = "scan" /\ at = got /\ first = got
  BY DEF ChunkInv, ScanInv, ScanEnds
<1>2. AtDigit(body, got) \/ got = Len(body)
  BY <1>1 DEF ChunkInv, ScanInv
<1>3. chunk' = FALSE /\ pc' = "enter" /\ UNCHANGED <<body, got, at, chunk_length, old_length, first, cut>>
  BY DEF ScanEnds
<1>4. TypeOK'
  BY <1>1, <1>3 DEF TypeOK
<1> QED
  BY <1>1, <1>2, <1>3, <1>4 DEF ChunkInv, ScanInv, EnterInv, SizeInv, DataInv, EndInv

LEMMA ScanCutInv ==
    ASSUME ChunkInv, ScanCut
    PROVE  ChunkInv'
<1>1. TypeOK /\ pc = "scan" /\ at < got /\ ~LineRead
  BY DEF ChunkInv, ScanCut
<1>2. AtDigit(body, at) /\ cut = (InSizeLine(got) \/ BehindData(got) \/ InLastChunk(got))
  BY <1>1 DEF ChunkInv, ScanInv
<1>3. cut
  BY <1>1, <1>2, LineCut
<1>4. pc' \in {"aborted", "lost"}
      /\ UNCHANGED <<body, got, at, chunk, chunk_length, old_length, first, cut>>
  BY DEF ScanCut
<1>5. TypeOK'
  BY <1>1, <1>4 DEF TypeOK
<1> QED
  BY <1>3, <1>4, <1>5 DEF ChunkInv, ScanInv, EnterInv, SizeInv, DataInv, EndInv

-----------------------------------------------------------------------------
(* read_chunk. *)
LEMMA EnterReturnsInv ==
    ASSUME ChunkInv, EnterReturns
    PROVE  ChunkInv'
<1>1. TypeOK /\ cut
  BY DEF ChunkInv, EnterInv, EnterReturns
<1>2. pc' = "end"
      /\ UNCHANGED <<body, got, at, chunk, chunk_length, old_length, first, cut>>
  BY DEF EnterReturns
<1>3. TypeOK'
  BY <1>1, <1>2 DEF TypeOK
<1> QED
  BY <1>1, <1>2, <1>3 DEF ChunkInv, ScanInv, EnterInv, SizeInv, DataInv, EndInv

LEMMA EnterKeepsInv ==
    ASSUME ChunkInv, Enter
    PROVE  ChunkInv'
<1>1. TypeOK /\ pc = "enter" /\ at = got /\ first = got
  BY DEF ChunkInv, EnterInv, Enter
<1>2. /\ ~chunk => AtDigit(body, got) \/ got = Len(body)
      /\ chunk => \/ chunk_length = -1 /\ (AtLF(body, got) \/ AtEndLF(body, got))
                  \/ chunk_length > 0 /\ AtData(body, got, chunk_length)
  BY <1>1 DEF ChunkInv, EnterInv, Enter
<1>3. /\ old_length' = IF chunk /\ chunk_length < 0 THEN chunk_length ELSE 0
      /\ chunk_length' = IF chunk /\ chunk_length > 0 THEN chunk_length ELSE 0
      /\ pc' = IF chunk /\ chunk_length > 0 THEN "data" ELSE "size"
      /\ UNCHANGED <<body, got, at, chunk, first, cut>>
  BY DEF Enter
<1>4. chunk \in BOOLEAN /\ chunk_length \in Int /\ Len(body) \in Nat /\ got \in Nat
  BY <1>1, BodyFacts DEF TypeOK
<1>5. TypeOK'
  <2>1. old_length' \in {-1, 0} /\ chunk_length' \in Int /\ pc' \in {"data", "size"}
    BY <1>2, <1>3, <1>4
  <2> QED BY <1>1, <1>3, <2>1 DEF TypeOK
<1>6. CASE chunk /\ chunk_length > 0
  <2>1. AtData(body, got, chunk_length)
    BY <1>2, <1>4, <1>6
  <2>2. pc' = "data" /\ old_length' = 0 /\ chunk_length' = chunk_length
    BY <1>3, <1>4, <1>6
  <2> QED
    BY <1>1, <1>3, <1>5, <2>1, <2>2 DEF ChunkInv, ScanInv, EnterInv, SizeInv, DataInv, EndInv
<1>7. CASE ~(chunk /\ chunk_length > 0)
  <2>1. pc' = "size" /\ BeforeRead'
    BY <1>1, <1>2, <1>3, <1>4, <1>7 DEF BeforeRead
  <2> QED
    BY <1>1, <1>3, <1>5, <2>1 DEF ChunkInv, ScanInv, EnterInv, SizeInv, DataInv, EndInv
<1> QED BY <1>6, <1>7

LEMMA ReadSizeInv ==
    ASSUME ChunkInv, ReadSize
    PROVE  ChunkInv'
<1>1. TypeOK /\ pc = "size" /\ at = got /\ BeforeRead
  BY DEF ChunkInv, SizeInv, ReadSize
<1>2. PICK n \in Lengths(BufBytes) :
         /\ got' = got + n /\ at' = SkipRead(got, got + n) /\ old_length' = 0
         /\ cut' = (cut \/ InSizeLine(got + n) \/ InLastChunk(got + n) \/ LoneCR(got, got + n))
  BY DEF ReadSize
<1>3. pc' = "size" /\ UNCHANGED <<body, chunk, chunk_length, first>>
  BY <1>1 DEF ReadSize
<1>4. /\ got \in Nat /\ n \in Nat /\ n > 0 /\ got + n <= Len(body) /\ Len(body) \in Nat
      /\ got' = got + n
  BY <1>1, <1>2, BodyFacts DEF Lengths, Smaller
<1>5. InSizeLine(got') \/ InLastChunk(got') => cut'
  BY <1>2
<1>6. cut' \in BOOLEAN
  BY <1>2
<1>7. TypeOK' /\ (at' = got' => BeforeRead') /\ (at' # got' => AfterRead')
  <2> DEFINE Right(k) ==
        /\ at' = k /\ k \in 0..got'
        /\ k = got' => AtDigit(body, k) \/ (k = Len(body) /\ first >= Len(body) - 1)
        /\ k < got' => AtDigit(body, k) \/ (AtCR(body, k) /\ got' = k + 1 /\ cut')
  <2>1. SUFFICES \E k : Right(k)
    <3>1. PICK k : Right(k)
      BY <2>1
    <3>2. k \in Nat /\ k <= got'
      BY <1>4, <3>1
    <3>3. TypeOK'
      BY <1>1, <1>2, <1>3, <1>4, <1>6, <3>1 DEF TypeOK
    <3>4. at' = got' => BeforeRead'
      BY <1>2, <1>3, <3>1 DEF BeforeRead
    <3>5. at' # got' => AfterRead'
      BY <1>2, <1>3, <1>4, <1>5, <3>1, <3>2 DEF AfterRead, InSizeLine, InLastChunk
    <3> QED BY <3>3, <3>4, <3>5
  <2>2. CASE old_length = -1 /\ AtLF(body, got)
    <3>1. AtDigit(body, got + 1)
      BY <1>1, <2>2, AtLFFacts
    <3>2. body[(got + 1) + 1].kind = "digit"
      BY <3>1 DEF AtDigit, Digit
    <3>3. at' = got + 1
      BY <1>2, <1>4, <2>2, <3>2 DEF SkipRead, IsCR
    <3> QED BY <1>4, <3>1, <3>3
  <2>3. CASE old_length = -1 /\ AtEndLF(body, got) /\ first = got
    <3>1. got + 1 = Len(body)
      BY <1>1, <2>3, AtEndLFFacts
    <3>2. n = 1 /\ at' = got + 1
      BY <1>2, <1>4, <2>3, <3>1 DEF SkipRead
    <3> QED BY <1>4, <2>3, <3>1, <3>2
  <2>4. CASE old_length = 0 /\ AtDigit(body, got)
    <3>1. body[got + 1].kind = "digit"
      BY <2>4 DEF AtDigit, Digit
    <3>2. at' = got
      BY <1>2, <1>4, <2>4, <3>1 DEF SkipRead, IsCR
    <3> QED BY <1>4, <2>4, <3>2
  <2>5. CASE old_length = 0 /\ AtCR(body, got)
    <3>1. body[got + 1].kind = "CR" /\ AtDigit(body, got + 2)
      BY <1>1, <2>5, AtCRFacts
    <3>2. CASE n = 1
      <4>1. at' = got
        BY <1>2, <1>4, <2>5, <3>2 DEF SkipRead
      <4>2. LoneCR(got, got + n)
        BY <1>4, <3>1, <3>2 DEF LoneCR, IsCR
      <4>3. cut'
        BY <1>2, <4>2
      <4> QED BY <1>4, <2>5, <3>2, <4>1, <4>3
    <3>3. CASE n # 1
      <4>1. at' = got + 2 /\ n >= 2
        BY <1>2, <1>4, <2>5, <3>1, <3>3 DEF SkipRead, IsCR
      <4> QED BY <1>4, <3>1, <4>1
    <3> QED BY <3>2, <3>3
  <2>6. got # Len(body)
    BY <1>4
  <2> QED
    BY <1>1, <2>2, <2>3, <2>4, <2>5, <2>6 DEF BeforeRead
<1> QED
  BY <1>3, <1>7 DEF ChunkInv, ScanInv, EnterInv, SizeInv, DataInv, EndInv

LEMMA ParseSizeInv ==
    ASSUME ChunkInv, ParseSize
    PROVE  ChunkInv'
<1>1. TypeOK /\ pc = "size" /\ at < got /\ LineRead /\ AfterRead /\ Size > 0
  BY BodyFacts DEF ChunkInv, SizeInv, ParseSize
<1>2. /\ at \in Int /\ got \in Nat /\ at >= 0 /\ got <= Len(body) /\ Len(body) \in Nat
      /\ at + 3 <= got
  BY <1>1, BodyFacts DEF LineRead
<1>3. AtDigit(body, at) /\ old_length = 0
  BY <1>1, <1>2 DEF AfterRead
<1>4. PICK s : s = Size
  OBVIOUS
<1>5. s = body[at + 1].n /\ s > 0
  BY <1>1, <1>4 DEF Size
<1>6. s \in Nat
  BY <1>1, <1>2, <1>3, <1>5, ChunkAhead
<1>7. UNCHANGED <<body, got, chunk, first, cut>>
  BY DEF ParseSize
<1>8. InSizeLine(got) \/ InLastChunk(got) => cut
  BY <1>1 DEF AfterRead
<1>9. CASE s <= got - (at + 3)
  <2>1. /\ at' = AfterData(at + 3 + s, got) /\ old_length' = StillOwed(at + 3 + s, got)
        /\ pc' = "size" /\ chunk_length' = chunk_length
    BY <1>1, <1>4, <1>9 DEF ParseSize
  <2>2. at + 3 + s <= got
    BY <1>2, <1>6, <1>9
  <2>3. TypeOK'
    <3>1. at' \in 0..got /\ old_length' \in {-1, 0}
      BY <1>2, <1>6, <2>1, <2>2 DEF AfterData, StillOwed, Smaller
    <3> QED BY <1>1, <1>7, <2>1, <3>1 DEF TypeOK
  <2>4. CASE got = at + 3 + s
    <3>1. at' = got /\ old_length' = 0
      BY <1>2, <1>6, <2>1, <2>4 DEF AfterData, StillOwed, Smaller
    <3>2. AtCR(body, got)
      BY <1>1, <1>2, <1>3, <1>5, <2>4, ChunkAhead
    <3> QED
      BY <1>7, <2>1, <2>3, <3>1, <3>2
         DEF ChunkInv, ScanInv, EnterInv, SizeInv, DataInv, EndInv, BeforeRead
  <2>5. CASE got = at + 4 + s
    <3>1. at' = got /\ old_length' = -1
      BY <1>2, <1>6, <2>1, <2>5 DEF AfterData, StillOwed, Smaller
    <3>2. AtLF(body, got)
      BY <1>1, <1>2, <1>3, <1>5, <2>5, ChunkAhead
    <3> QED
      BY <1>7, <2>1, <2>3, <3>1, <3>2
         DEF ChunkInv, ScanInv, EnterInv, SizeInv, DataInv, EndInv, BeforeRead
  <2>6. CASE got >= at + 5 + s
    <3>1. at' = at + 5 + s /\ old_length' = 0
      BY <1>2, <1>6, <2>1, <2>6 DEF AfterData, StillOwed, Smaller
    <3>2. AtDigit(body, at')
      BY <1>1, <1>2, <1>3, <1>5, <3>1, ChunkAhead
    <3>3. at' = got' => BeforeRead'
      BY <1>7, <3>1, <3>2 DEF BeforeRead
    <3>4. AfterRead'
      BY <1>7, <1>8, <3>1, <3>2 DEF AfterRead, InSizeLine, InLastChunk
    <3> QED
      BY <2>1, <2>3, <3>3, <3>4 DEF ChunkInv, ScanInv, EnterInv, SizeInv, DataInv, EndInv
  <2> QED BY <1>2, <1>6, <2>2, <2>4, <2>5, <2>6
<1>10. CASE ~(s <= got - (at + 3))
  <2>1. /\ at' = got /\ chunk_length' = s - (got - (at + 3)) /\ pc' = "data"
        /\ old_length' = old_length
    BY <1>1, <1>4, <1>10 DEF ParseSize
  <2>2. PICK d \in Int : d = s - (got - (at + 3))
    BY <1>2, <1>6
  <2>3. d \in 1..s /\ got = at + 3 + s - d
    BY <1>2, <1>6, <1>10, <2>2
  <2>4. AtData(body, got, d)
    BY <1>1, <1>2, <1>3, <1>5, <2>3, ChunkAhead
  <2>5. TypeOK'
    <3>1. at' \in 0..got /\ chunk_length' \in Int
      BY <1>2, <2>1, <2>2
    <3> QED BY <1>1, <1>7, <2>1, <3>1 DEF TypeOK
  <2> QED
    BY <1>3, <1>7, <2>1, <2>2, <2>4, <2>5
       DEF ChunkInv, ScanInv, EnterInv, SizeInv, DataInv, EndInv
<1> QED BY <1>9, <1>10

LEMMA ParseLastInv ==
    ASSUME ChunkInv, ParseLast
    PROVE  ChunkInv'
<1>1. TypeOK /\ pc = "size" /\ at < got /\ LineRead /\ AfterRead /\ Size = 0
  BY BodyFacts DEF ChunkInv, SizeInv, ParseLast
<1>2. /\ at \in Int /\ got \in Nat /\ at >= 0 /\ got <= Len(body) /\ Len(body) \in Nat
      /\ at + 3 <= got
  BY <1>1, BodyFacts DEF LineRead
<1>3. AtDigit(body, at)
  BY <1>1, <1>2 DEF AfterRead
<1>4. at + 5 = Len(body) /\ InLastChunk(at + 3) /\ InLastChunk(at + 4)
  BY <1>1, <1>2, <1>3, EndAhead DEF Size
<1>5. UNCHANGED <<body, got, at, chunk, chunk_length, old_length, first, cut>>
  BY DEF ParseLast
<1>6. CASE WholeEnd
  <2>1. pc' = "end" /\ got = Len(body)
    BY <1>2, <1>4, <1>6 DEF ParseLast, WholeEnd
  <2>2. TypeOK'
    BY <1>1, <1>5, <2>1 DEF TypeOK
  <2> QED
    BY <1>5, <2>1, <2>2 DEF ChunkInv, ScanInv, EnterInv, SizeInv, DataInv, EndInv
<1>7. CASE ~WholeEnd
  <2>1. pc' \in {"last", "end"}
    BY <1>7 DEF ParseLast
  <2>2. got < Len(body) /\ (got = at + 3 \/ got = at + 4)
    BY <1>2, <1>4, <1>7 DEF WholeEnd
  <2>3. cut
    BY <1>1, <1>4, <2>2 DEF AfterRead
  <2>4. TypeOK'
    BY <1>1, <1>5, <2>1 DEF TypeOK
  <2> QED
    BY <1>5, <2>1, <2>2, <2>3, <2>4
       DEF ChunkInv, ScanInv, EnterInv, SizeInv, DataInv, EndInv
<1> QED BY <1>6, <1>7

LEMMA ParseCutInv ==
    ASSUME ChunkInv, ParseCut
    PROVE  ChunkInv'
<1>1. TypeOK /\ pc = "size" /\ at < got /\ ~LineRead /\ AfterRead
  BY BodyFacts DEF ChunkInv, SizeInv, ParseCut
<1>2. cut /\ got < Len(body)
  <2>1. CASE AtDigit(body, at)
    BY <1>1, <2>1, LineCut DEF AfterRead
  <2>2. CASE AtCR(body, at) /\ got = at + 1 /\ cut
    <3>1. at \in Nat /\ at + 3 <= Len(body) /\ Len(body) \in Nat
      BY <1>1, <2>2, AtCRFacts, BodyFacts
    <3> QED BY <2>2, <3>1
  <2> QED BY <1>1, <2>1, <2>2 DEF AfterRead
<1>3. pc' \in {"last", "end", "lost"}
      /\ UNCHANGED <<body, got, at, chunk, chunk_length, old_length, first, cut>>
  BY DEF ParseCut
<1>4. TypeOK'
  BY <1>1, <1>3 DEF TypeOK
<1> QED
  BY <1>2, <1>3, <1>4 DEF ChunkInv, ScanInv, EnterInv, SizeInv, DataInv, EndInv

LEMMA ReadLastInv ==
    ASSUME ChunkInv, ReadLast
    PROVE  ChunkInv'
<1>1. TypeOK /\ cut
  BY DEF ChunkInv, EndInv, ReadLast
<1>2. PICK n \in Lengths(BufBytes) : got' = got + n /\ at' = got + n
  BY DEF ReadLast
<1>3. pc' = "end" /\ UNCHANGED <<body, chunk, chunk_length, old_length, first, cut>>
  BY DEF ReadLast
<1>4. got' \in 0..Len(body) /\ at' \in 0..got'
  BY <1>1, <1>2, BodyFacts DEF Lengths, Smaller
<1>5. TypeOK'
  BY <1>1, <1>3, <1>4 DEF TypeOK
<1> QED
  BY <1>1, <1>3, <1>5 DEF ChunkInv, ScanInv, EnterInv, SizeInv, DataInv, EndInv

LEMMA ReadDataInv ==
    ASSUME ChunkInv, ReadData
    PROVE  ChunkInv'
<1>1. TypeOK /\ pc = "data" /\ old_length = 0 /\ AtData(body, got, chunk_length)
  BY DEF ChunkInv, DataInv, ReadData
<1>2. PICK n \in Lengths(DataLimit) :
         /\ got' = got + n /\ at' = got + n /\ chunk_length' = chunk_length - n
         /\ pc' = IF chunk_length - n = 0 THEN "size" ELSE "data"
  BY DEF ReadData
<1>3. UNCHANGED <<body, chunk, old_length, first, cut>>
  BY DEF ReadData
<1>4. chunk_length \in Nat /\ got \in Nat /\ Len(body) \in Nat /\ BufBytes \in Nat
  BY <1>1, AtDataFacts, BodyFacts
<1>5. n \in Nat /\ n > 0 /\ n <= chunk_length /\ got + n <= Len(body)
  BY <1>4 DEF Lengths, DataLimit, Smaller
<1>6. TypeOK'
  <2>1. got' \in 0..Len(body) /\ at' \in 0..got' /\ chunk_length' \in Int
    BY <1>2, <1>4, <1>5
  <2> QED BY <1>1, <1>2, <1>3, <2>1 DEF TypeOK
<1>7. CASE n = chunk_length
  <2>1. pc' = "size" /\ at' = got' /\ got' = got + chunk_length
    BY <1>2, <1>4, <1>7
  <2>2. AtCR(body, got')
    BY <1>1, <2>1, AtDataFacts
  <2> QED
    BY <1>1, <1>3, <1>6, <2>1, <2>2
       DEF ChunkInv, ScanInv, EnterInv, SizeInv, DataInv, EndInv, BeforeRead
<1>8. CASE n # chunk_length
  <2>1. pc' = "data" /\ at' = got' /\ n \in 1..(chunk_length - 1)
    BY <1>2, <1>4, <1>5, <1>8
  <2>2. AtData(body, got', chunk_length')
    BY <1>1, <1>2, <2>1, AtDataFacts
  <2> QED
    BY <1>1, <1>3, <1>6, <2>1, <2>2 DEF ChunkInv, ScanInv, EnterInv, SizeInv, DataInv, EndInv
<1> QED BY <1>7, <1>8

LEMMA ReadNothingInv ==
    ASSUME ChunkInv, ReadNothing
    PROVE  ChunkInv'
<1>1. TypeOK /\ got = Len(body) /\ Len(body) \in Nat
  BY BodyFacts DEF ChunkInv, ReadNothing
<1>2. first >= Len(body) - 1
  <2>1. CASE pc = "last"
    BY <1>1, <2>1 DEF ChunkInv, EndInv
  <2>2. CASE pc = "data"
    <3>1. AtData(body, got, chunk_length)
      BY <2>2 DEF ChunkInv, DataInv
    <3>2. got \in Nat /\ chunk_length \in Nat /\ got + chunk_length < Len(body)
      BY <1>1, <3>1, AtDataFacts
    <3> QED BY <1>1, <3>2
  <2>3. CASE pc = "size" /\ at = got
    <3>1. BeforeRead
      BY <2>3 DEF ChunkInv, SizeInv
    <3>2. ~AtLF(body, got)
      BY <1>1, AtLFFacts
    <3>3. ~AtEndLF(body, got)
      BY <1>1, AtEndLFFacts
    <3>4. ASSUME AtDigit(body, got)
          PROVE  FALSE
      <4>1. got \in Int
        BY <1>1
      <4>2. got + 5 <= Len(body)
        BY <1>1, <3>4, <4>1, AtDigitFacts
      <4> QED BY <1>1, <4>2
    <3>5. ~AtCR(body, got)
      BY <1>1, AtCRFacts
    <3> QED BY <3>1, <3>2, <3>3, <3>4, <3>5 DEF BeforeRead
  <2> QED BY <2>1, <2>2, <2>3 DEF ReadNothing
<1>3. pc' = "stalled"
      /\ UNCHANGED <<body, got, at, chunk, chunk_length, old_length, first, cut>>
  BY DEF ReadNothing
<1>4. TypeOK'
  BY <1>1, <1>3 DEF TypeOK
<1> QED
  BY <1>1, <1>2, <1>3, <1>4 DEF ChunkInv, ScanInv, EnterInv, SizeInv, DataInv, EndInv

LEMMA StepInv == ChunkInv /\ [Next]_vars => ChunkInv'
<1> SUFFICES ASSUME ChunkInv, [Next]_vars
             PROVE  ChunkInv'
  OBVIOUS
<1>1. ASSUME UNCHANGED vars
      PROVE  ChunkInv'
  BY <1>1 DEF vars, ChunkInv, TypeOK, ScanInv, EnterInv, SizeInv, DataInv, EndInv,
              BeforeRead, AfterRead, InSizeLine, BehindData, InLastChunk
<1>2. CASE Step
  BY <1>2, FirstReadInv, ScanChunkInv, ScanEndsInv, ScanCutInv, EnterReturnsInv,
     EnterKeepsInv, ReadSizeInv, ParseSizeInv, ParseLastInv, ParseCutInv, ReadLastInv,
     ReadDataInv, ReadNothingInv DEF Step
<1> QED
  BY <1>1, <1>2 DEF Next, Stopped

LEMMA AlwaysInv == Spec => []ChunkInv
<1>1. Init => ChunkInv
  BY InitInv
<1>2. ChunkInv /\ [Next]_vars => ChunkInv'
  BY StepInv
<1> QED
  BY <1>1, <1>2, PTL DEF Spec

-----------------------------------------------------------------------------
(* The variables of the two loops stay well-typed.                          *)
THEOREM TypeCorrect == Spec => []TypeOK
<1>1. ChunkInv => TypeOK
  BY DEF ChunkInv
<1> QED
  BY <1>1, AlwaysInv, PTL

(* keepalive_read_chunk's chunk_length and old_length always tell what the  *)
(* next byte of the body is, however long the chunks and the reads are.     *)
THEOREM CountersInStep == Spec => []InStep
<1>1. ChunkInv => InStep
  <2> SUFFICES ASSUME ChunkInv PROVE InStep
    OBVIOUS
  <2>1. TypeOK /\ got \in Int /\ at \in Int /\ Len(body) \in Nat /\ at <= got
    BY BodyFacts DEF ChunkInv
  <2>2. ASSUME pc = "data"
        PROVE  got < Len(body) /\ body[got + 1] = [kind |-> "data", n |-> chunk_length]
    <3>1. AtData(body, got, chunk_length)
      BY <2>2 DEF ChunkInv, DataInv
    <3>2. /\ chunk_length \in Nat /\ got + chunk_length < Len(body)
          /\ body[got + 1] = [kind |-> "data", n |-> chunk_length]
      BY <2>1, <3>1, AtDataFacts
    <3> QED BY <2>1, <3>2
  <2>3. ASSUME pc = "size", at = got, got < Len(body)
        PROVE  body[got + 1].kind \in IF old_length = -1 THEN {"LF", "endLF"}
                                      ELSE {"digit", "CR"}
    <3>1. BeforeRead
      BY <2>3 DEF ChunkInv, SizeInv
    <3>2. AtLF(body, got) => body[got + 1].kind = "LF"
      BY <2>1, AtLFFacts
    <3>3. AtEndLF(body, got) => body[got + 1].kind = "endLF"
      BY <2>1, AtEndLFFacts
    <3>4. AtCR(body, got) => body[got + 1].kind = "CR"
      BY <2>1, AtCRFacts
    <3>5. AtDigit(body, got) => body[got + 1].kind = "digit"
      BY DEF AtDigit, Digit
    <3> QED BY <2>1, <2>3, <3>1, <3>2, <3>3, <3>4, <3>5 DEF BeforeRead
  <2>4. ASSUME pc = "size", at < got
        PROVE  body[at + 1].kind \in {"digit", "CR"}
    <3>1. AtDigit(body, at) \/ AtCR(body, at)
      BY <2>1, <2>4 DEF ChunkInv, SizeInv, AfterRead
    <3>2. AtCR(body, at) => body[at + 1].kind = "CR"
      BY <2>1, AtCRFacts
    <3>3. AtDigit(body, at) => body[at + 1].kind = "digit"
      BY DEF AtDigit, Digit
    <3> QED BY <3>1, <3>2, <3>3
  <2> QED BY <2>2, <2>3, <2>4 DEF InStep
<1> QED
  BY <1>1, AlwaysInv, PTL

(* A chunked response is read to its end unless the server's bytes were cut *)
(* at one of the three places read_chunk and recv_resp mistake.             *)
THEOREM Drained == Spec => []DrainedUnlessCut
<1>1. ChunkInv => DrainedUnlessCut
  BY DEF ChunkInv, EndInv, DrainedUnlessCut
<1> QED
  BY <1>1, AlwaysInv, PTL

(* Without such a cut no chunk size is read from behind the received bytes, *)
(* and the assertion in recv_resp does not fail.                            *)
THEOREM Sound == Spec => []SoundUnlessCut
<1>1. ChunkInv => SoundUnlessCut
  BY DEF ChunkInv, EndInv, SoundUnlessCut
<1> QED
  BY <1>1, AlwaysInv, PTL

(* The poll timeout of 120 s is spent only on a body that came whole, or    *)
(* but for its last byte, with the header block.                            *)
THEOREM StallOnlyAtStart == Spec => []StallsOnlyWhenWhole
<1>1. ChunkInv => StallsOnlyWhenWhole
  BY DEF ChunkInv, EndInv, StallsOnlyWhenWhole
<1> QED
  BY <1>1, AlwaysInv, PTL
=============================================================================
