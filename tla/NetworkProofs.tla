--------------------------- MODULE NetworkProofs ---------------------------
(***************************************************************************)
(* What the proofs about both socket implementations need: the units of a  *)
(* response, what one read returns and leaves, and induction over the      *)
(* natural numbers, for what is defined by recursion.                      *)
(***************************************************************************)
EXTENDS Network, SequenceTheorems, WellFoundedInduction, TLAPS

(* A set of numbers that has 0, and with each number the next, has them all. *)
LEMMA SetInduction ==
    ASSUME NEW S, 0 \in S, \A n \in Nat : n \in S => n + 1 \in S
    PROVE  \A n \in Nat : n \in S
<1> DEFINE T == Nat \ S
           R == OpToRel(<, Nat)
<1>1. SUFFICES ASSUME T # {} PROVE FALSE
  OBVIOUS
<1>2. IsWellFoundedOn(R, Nat)
  BY NatLessThanWellFounded
<1>3. T \subseteq Nat
  OBVIOUS
<1> HIDE DEF R
<1>4. PICK x \in T : \A y \in T : ~(<<y, x>> \in R)
  <2> HIDE DEF T
  <2> QED
  BY <1>1, <1>2, <1>3, WFMin
<1>5. x # 0 /\ x - 1 \in Nat /\ x - 1 < x
  OBVIOUS
<1>6. <<x - 1, x>> \in R
  BY <1>5, <1>4 DEF R, OpToRel
<1>7. x - 1 \in S
  BY <1>4, <1>5, <1>6
<1> QED
  BY <1>5, <1>7

-----------------------------------------------------------------------------
(* Sequences. *)

(* What is not empty has a length, and a sequence may have a wider type. *)
LEMMA EmptyLen ==
    ASSUME NEW s, Len(s) = 1
    PROVE  s # <<>>
<1>1. Len(<<>>) = 0
  OBVIOUS
<1> QED
  BY <1>1

LEMMA SeqWidens ==
    ASSUME NEW S, NEW x, NEW s \in Seq(S)
    PROVE  s \in Seq(S \cup {x})
<1>1. s \in [1..Len(s) -> S] /\ Len(s) \in Nat
  OBVIOUS
<1>2. s \in [1..Len(s) -> S \cup {x}]
  BY <1>1
<1> QED
  BY <1>1, <1>2

(* What is left of a sequence of m after its first n keeps its places. *)
LEMMA Shifted ==
    ASSUME NEW m \in Nat, NEW n \in 1..m, NEW w, w = m - n
    PROVE  \A k \in 1..w : k + n \in 1..m
  OBVIOUS


Starts(s, p) == s # <<>> /\ s[1].kind = "head" /\ s[1].reply = p

(* The units of an answer: the header first, the last-chunk last. *)
LEMMA UnitsOfAnswer ==
    ASSUME NEW q \in [id : Reqs, method : Methods], NEW p \in Reply
    PROVE  LET s == UnitsOf(q, p)
           IN  /\ s \in Seq(Unit) /\ Starts(s, p)
               /\ Len(s) = IF q.method = "HEAD" THEN 1
                           ELSE 1 + p.len + (IF p.framing = "chunked" THEN 1 ELSE 0)
               /\ \A k \in 1..Len(s) : s[k].of = q.id
               /\ \A k \in 1..Len(s) : s[k].kind = "last" => k = Len(s)
               /\ \A k \in 2..Len(s) : s[k].kind = IF k <= 1 + p.len THEN "body" ELSE "last"
<1> DEFINE first == [of |-> q.id, kind |-> "head", reply |-> p]
           piece == [of |-> q.id, kind |-> "body"]
           final == [of |-> q.id, kind |-> "last"]
           head == <<first>>
           body == [k \in 1..p.len |-> piece]
           tail == IF p.framing = "chunked" THEN <<final>> ELSE <<>>
<1>1. p.len \in Nat /\ q.id \in Reqs
  BY NetworkAssumption DEF Reply
<1>2. first \in Unit /\ piece \in Unit /\ final \in Unit
  BY <1>1 DEF Unit
<1>3. head \in Seq(Unit) /\ Len(head) = 1 /\ head[1] = first
  BY <1>2
<1>4. /\ body \in Seq(Unit) /\ Len(body) = p.len
      /\ \A k \in 1..p.len : body[k] = piece
  <2>1. body \in [1..p.len -> Unit]
    BY <1>2
  <2> QED
    BY <1>1, <2>1
<1>5. /\ tail \in Seq(Unit)
      /\ Len(tail) = IF p.framing = "chunked" THEN 1 ELSE 0
      /\ \A k \in 1..Len(tail) : tail[k] = final
  BY <1>2
<1> HIDE DEF head, body, tail
<1>6. /\ head \o body \in Seq(Unit) /\ Len(head \o body) = 1 + p.len
      /\ (head \o body)[1] = first
      /\ \A k \in 2..(1 + p.len) : (head \o body)[k] = piece
  <2>1. /\ head \o body \in Seq(Unit) /\ Len(head \o body) = 1 + p.len
        /\ \A k \in 1..(1 + p.len) :
              (head \o body)[k] = IF k <= 1 THEN head[k] ELSE body[k - 1]
    <3>1. /\ head \o body \in Seq(Unit) /\ Len(head \o body) = Len(head) + Len(body)
          /\ \A k \in 1..(Len(head) + Len(body)) :
                (head \o body)[k] = IF k <= Len(head) THEN head[k] ELSE body[k - Len(head)]
      <4>1. head \in Seq(Unit) /\ body \in Seq(Unit)
        BY <1>3, <1>4
      <4> QED
        BY <4>1, ConcatProperties
    <3> QED
      BY <1>3, <1>4, <3>1
  <2>2. \A k \in 2..(1 + p.len) : k \in 1..(1 + p.len) /\ k - 1 \in 1..p.len /\ ~(k <= 1)
    BY <1>1
  <2>3. \A k \in 2..(1 + p.len) : (head \o body)[k] = piece
    BY <1>4, <2>1, <2>2
  <2> QED
    BY <1>1, <1>3, <2>1, <2>3
<1> DEFINE front == head \o body
           all == front \o tail
<1> HIDE DEF front
<1>7. /\ all \in Seq(Unit) /\ Len(all) = 1 + p.len + Len(tail)
      /\ all[1] = first
      /\ \A k \in 2..(1 + p.len) : all[k] = piece
      /\ \A k \in (2 + p.len)..Len(all) : all[k] = final
  <2>1. front \in Seq(Unit) /\ Len(front) = 1 + p.len
    BY <1>6 DEF front
  <2>2. Len(all) = 1 + p.len + Len(tail) /\ all \in Seq(Unit)
    <3>1. tail \in Seq(Unit)
      BY <1>5
    <3>2. all \in Seq(Unit) /\ Len(all) = Len(front) + Len(tail)
      BY <2>1, <3>1, ConcatProperties
    <3> QED
      BY <2>1, <3>2
  <2>3. \A k \in 1..(1 + p.len) : all[k] = front[k]
    BY <1>1, <1>5, <2>1
  <2>4. \A k \in (2 + p.len)..Len(all) : all[k] = tail[k - (1 + p.len)]
    BY <1>1, <1>5, <2>1, <2>2
  <2>5. front[1] = first /\ \A k \in 2..(1 + p.len) : front[k] = piece
    BY <1>6 DEF front
  <2>6. ASSUME NEW k \in (2 + p.len)..Len(all) PROVE all[k] = final
    <3>1. k - (1 + p.len) \in 1..Len(tail)
      BY <1>1, <1>5, <2>2, <2>6
    <3> QED
      BY <1>5, <2>4, <3>1
  <2> QED
    BY <1>1, <2>2, <2>3, <2>5, <2>6
<1>8. UnitsOf(q, p) = IF q.method = "HEAD" THEN head ELSE all
  BY DEF UnitsOf, head, body, tail, front
<1>9. CASE q.method = "HEAD"
  <2>1. /\ UnitsOf(q, p) = head /\ head # <<>>
        /\ \A k \in 1..Len(head) : k = 1
    <3>1. UnitsOf(q, p) = head
      BY <1>8, <1>9
    <3>2. Len(head) = 1
      BY <1>3
    <3>3. head # <<>>
      BY <3>2, EmptyLen
    <3> QED
      BY <3>1, <3>2, <3>3
  <2>2. head[1].of = q.id /\ head[1].kind = "head" /\ head[1].reply = p
    BY <1>3
  <2>3. \A k \in 1..Len(head) : head[k].of = q.id /\ head[k].kind # "last"
    BY <2>1, <2>2
  <2>4. head \in Seq(Unit) /\ Starts(head, p) /\ Len(head) = 1
    BY <1>3, <2>1, <2>2 DEF Starts
  <2>5. \A k \in 2..Len(head) : FALSE
    BY <2>4
  <2> QED
    BY <1>9, <2>1, <2>3, <2>4, <2>5
<1>10. CASE q.method # "HEAD"
  <2>1. all # <<>> /\ Len(all) \in Nat
    BY <1>1, <1>5, <1>7
  <2>2. \A k \in 1..Len(all) : k = 1 \/ k \in 2..(1 + p.len) \/ k \in (2 + p.len)..Len(all)
    BY <1>1, <2>1
  <2>3. \A k \in 1..Len(all) : all[k].of = q.id
    BY <1>7, <2>2
  <2>4. ASSUME NEW k \in 1..Len(all), all[k].kind = "last" PROVE k = Len(all)
    <3>1. k \in (2 + p.len)..Len(all)
      BY <1>7, <2>2, <2>4
    <3>2. Len(all) <= 2 + p.len
      BY <1>1, <1>5, <1>7
    <3> QED
      BY <1>1, <2>1, <3>1, <3>2
  <2>5. ASSUME NEW k \in 2..Len(all)
        PROVE  all[k].kind = IF k <= 1 + p.len THEN "body" ELSE "last"
    <3>1. CASE k <= 1 + p.len
      <4>1. k \in 2..(1 + p.len)
        BY <1>1, <2>1, <3>1
      <4>2. all[k] = piece
        BY <1>7, <4>1
      <4> QED
        BY <3>1, <4>2
    <3>2. CASE ~(k <= 1 + p.len)
      <4>1. k \in (2 + p.len)..Len(all)
        BY <1>1, <2>1, <3>2
      <4>2. all[k] = final
        BY <1>7, <4>1
      <4> QED
        BY <3>2, <4>2
    <3> QED
      BY <3>1, <3>2
  <2> QED
    BY <1>1, <1>5, <1>7, <1>8, <1>10, <2>1, <2>3, <2>4, <2>5 DEF Starts
<1> QED
  BY <1>9, <1>10

(* What a read returns, and what it leaves: unless the server stalls, a     *)
(* timeout means that nobody has anything left to send.                     *)
LEMMA ReadEffect ==
    ASSUME wire \in Seq(Unit), NEW limit \in Nat \ {0},
           NEW res \in ReadResults(limit), ReadSocket(res)
    PROVE  /\ UNCHANGED <<fd, inbox, owed>> /\ res.n \in Nat
           /\ \/ /\ res.st = "SUCCESS" /\ res.n \in 1..Len(wire) /\ res.n <= limit
                 /\ srv' = srv /\ wire # <<>>
                 /\ ReadData(res) \in Seq(Unit) /\ Len(ReadData(res)) = res.n
                 /\ \A k \in 1..res.n : ReadData(res)[k] = wire[k]
                 /\ wire' \in Seq(Unit) /\ Len(wire') = Len(wire) - res.n
                 /\ \A k \in 1..Len(wire') : wire'[k] = wire[k + res.n]
              \/ /\ res.st # "SUCCESS" /\ ReadData(res) = <<>>
                 /\ wire = <<>> /\ wire' = <<>>
                 /\ \/ res.st = "EOF" /\ srv = "closed" /\ srv' = "closed" /\ res.n = 0
                    \/ res.st = "ECONNRESET" /\ srv = "reset" /\ srv' = "closed" /\ res.n = 0
                    \/ /\ res.st = "TIMEUP" /\ srv \notin {"closed", "reset"} /\ srv' = srv
                       /\ res.n = limit /\ ("stall" \in Faults \/ Quiet)
<1>1. CASE wire # <<>>
  <2>1. res = [st |-> "SUCCESS", n |-> IF Len(wire) < limit THEN Len(wire) ELSE limit]
    BY <1>1 DEF ReadResults
  <2>2. Len(wire) \in Nat \ {0}
    BY <1>1
  <2>3. res.st = "SUCCESS" /\ res.n \in 1..Len(wire) /\ res.n <= limit
    BY <2>1, <2>2
  <2>4. ReadData(res) = SubSeq(wire, 1, res.n) /\ wire' = SubSeq(wire, res.n + 1, Len(wire))
    BY <2>3 DEF ReadData, ReadSocket
  <2>5. /\ SubSeq(wire, 1, res.n) \in Seq(Unit) /\ Len(SubSeq(wire, 1, res.n)) = res.n
        /\ \A k \in 1..res.n : SubSeq(wire, 1, res.n)[k] = wire[k]
    BY <2>2, <2>3
  <2>6. /\ SubSeq(wire, res.n + 1, Len(wire)) \in Seq(Unit)
        /\ Len(SubSeq(wire, res.n + 1, Len(wire))) = Len(wire) - res.n
        /\ \A k \in 1..(Len(wire) - res.n) :
              SubSeq(wire, res.n + 1, Len(wire))[k] = wire[k + res.n]
    <3> DEFINE rest == SubSeq(wire, res.n + 1, Len(wire))
    <3>1. \A k \in (res.n + 1)..Len(wire) : wire[k] \in Unit
      BY <2>2, <2>3
    <3>2. res.n + 1 \in Int /\ Len(wire) \in Int
      BY <2>2, <2>3
    <3>3. /\ rest \in Seq(Unit)
          /\ Len(rest) = IF res.n + 1 <= Len(wire) THEN Len(wire) - (res.n + 1) + 1 ELSE 0
          /\ \A k \in 1..(Len(wire) - (res.n + 1) + 1) : rest[k] = wire[res.n + 1 + k - 1]
      BY <3>1, <3>2, SubSeqProperties
    <3> HIDE DEF rest
    <3>4. Len(rest) = Len(wire) - res.n
      BY <2>2, <2>3, <3>3
    <3>5. \A k \in 1..(Len(wire) - res.n) : /\ k \in 1..(Len(wire) - (res.n + 1) + 1)
                                            /\ res.n + 1 + k - 1 = k + res.n
      BY <2>2, <2>3
    <3>6. \A k \in 1..(Len(wire) - res.n) : rest[k] = wire[k + res.n]
      BY <3>3, <3>5
    <3> QED
      BY <3>3, <3>4, <3>6 DEF rest
  <2> DEFINE front == SubSeq(wire, 1, res.n)
             rest  == SubSeq(wire, res.n + 1, Len(wire))
  <2>7. UNCHANGED <<fd, inbox, owed>> /\ srv' = srv
    BY <2>3 DEF ReadSocket
  <2>8. ReadData(res) = front /\ wire' = rest
    BY <2>4
  <2>9. /\ front \in Seq(Unit) /\ Len(front) = res.n
        /\ \A k \in 1..res.n : front[k] = wire[k]
    BY <2>5
  <2>10. /\ rest \in Seq(Unit) /\ Len(rest) = Len(wire) - res.n
         /\ \A k \in 1..(Len(wire) - res.n) : rest[k] = wire[k + res.n]
    BY <2>6
  <2> HIDE DEF front, rest
  <2>11. /\ ReadData(res) \in Seq(Unit) /\ Len(ReadData(res)) = res.n
         /\ \A k \in 1..res.n : ReadData(res)[k] = wire[k]
    BY <2>8, <2>9
  <2>12. /\ wire' \in Seq(Unit) /\ Len(wire') = Len(wire) - res.n
         /\ \A k \in 1..Len(wire') : wire'[k] = wire[k + res.n]
    BY <2>8, <2>10
  <2>13. res.n \in Nat
    BY <2>2, <2>3
  <2> QED
    BY <1>1, <2>3, <2>7, <2>11, <2>12, <2>13
<1>2. CASE wire = <<>>
  <2>1. \/ srv = "closed" /\ res = [st |-> "EOF", n |-> 0]
        \/ srv = "reset" /\ res = [st |-> "ECONNRESET", n |-> 0]
        \/ /\ srv \notin {"closed", "reset"} /\ res = [st |-> "TIMEUP", n |-> limit]
           /\ "stall" \in Faults \/ Quiet
    BY <1>2 DEF ReadResults
  <2> QED
    BY <1>2, <2>1 DEF ReadData, ReadSocket
<1> QED
  BY <1>1, <1>2

LEMMA ReadFacts ==
    ASSUME "stall" \notin Faults, wire \in Seq(Unit), NEW limit \in Nat \ {0},
           NEW res \in ReadResults(limit), ReadSocket(res)
    PROVE  /\ UNCHANGED <<fd, inbox, owed>> /\ res.n \in Nat
           /\ \/ /\ res.st = "SUCCESS" /\ res.n \in 1..Len(wire) /\ res.n <= limit
                 /\ srv' = srv /\ wire # <<>>
                 /\ ReadData(res) \in Seq(Unit) /\ Len(ReadData(res)) = res.n
                 /\ \A k \in 1..res.n : ReadData(res)[k] = wire[k]
                 /\ wire' \in Seq(Unit) /\ Len(wire') = Len(wire) - res.n
                 /\ \A k \in 1..Len(wire') : wire'[k] = wire[k + res.n]
              \/ /\ res.st # "SUCCESS" /\ ReadData(res) = <<>>
                 /\ wire = <<>> /\ wire' = <<>>
                 /\ \/ res.st = "EOF" /\ srv = "closed" /\ srv' = "closed" /\ res.n = 0
                    \/ res.st = "ECONNRESET" /\ srv = "reset" /\ srv' = "closed" /\ res.n = 0
                    \/ res.st = "TIMEUP" /\ Quiet /\ srv' = srv /\ res.n = limit
  BY ReadEffect

(* A queue of one or two without its first element. *)
LEMMA QueueTail ==
    ASSUME NEW S, NEW q \in Seq(S), q # <<>>
    PROVE  /\ q[1] \in S /\ Tail(q) \in Seq(S)
           /\ Len(q) = 1 => Tail(q) = <<>>
           /\ Len(q) = 2 => Tail(q) = <<q[2]>> /\ q[2] \in S
<1> DEFINE t == Tail(q)
<1>1. /\ q[1] \in S /\ t \in Seq(S) /\ Len(t) = Len(q) - 1 /\ Len(q) \in Nat
      /\ \A k \in 1..Len(t) : t[k] = q[k + 1]
  BY HeadTailProperties
<1> HIDE DEF t
<1>2. CASE Len(q) = 1
  <2>1. Len(t) = 0
    BY <1>1, <1>2
  <2>2. t = <<>>
    BY <1>1, <2>1, EmptySeq
  <2> QED
    BY <1>1, <1>2, <2>2 DEF t
<1>3. CASE Len(q) = 2
  <2>1. Len(t) = 1 /\ 2 \in 1..Len(q)
    BY <1>1, <1>3
  <2>2. t[1] = q[2] /\ q[2] \in S
    BY <1>1, <2>1
  <2>3. t = <<q[2]>>
    BY <1>1, <2>1, <2>2
  <2> QED
    BY <1>1, <1>3, <2>2, <2>3 DEF t
<1> QED
  BY <1>1, <1>2, <1>3 DEF t
-----------------------------------------------------------------------------
(* The units of a response, in their order: those read, those on their way, *)
(* those still owed.                                                        *)
Split(read, units) ==
    /\ Len(units) = Len(read) + Len(wire) + Len(owed)
    /\ \A k \in 1..Len(read) : read[k] = units[k]
    /\ \A k \in 1..Len(wire) : wire[k] = units[Len(read) + k]
    /\ \A k \in 1..Len(owed) : owed[k] = units[Len(read) + Len(wire) + k]

(* Nothing else is on the connection when the server begins to answer. *)
LEMMA SplitStart ==
    ASSUME NEW units, Len(units) \in Nat, wire' = <<>>, owed' = units
    PROVE  Split(<<>>, units)'
<1>1. Len(<<>>) = 0
  OBVIOUS
<1> QED
  BY <1>1 DEF Split

(* A unit that arrives moves no other. *)
LEMMA SplitSend ==
    ASSUME wire \in Seq(Unit), owed \in Seq(Unit), SrvSend,
           NEW read, Len(read) \in Nat, NEW units, Split(read, units)
    PROVE  Split(read, units)'
<1>1. owed # <<>> /\ wire' = Append(wire, Head(owed)) /\ owed' = Tail(owed)
  BY DEF SrvSend
<1>2. Head(owed) \in Unit /\ Head(owed) = owed[1] /\ Len(owed) \in Nat \ {0} /\ Len(wire) \in Nat
  BY <1>1, HeadTailProperties
<1>3. /\ Len(owed') = Len(owed) - 1
      /\ \A k \in 1..Len(owed') : owed'[k] = owed[k + 1]
  BY <1>1, HeadTailProperties
<1>4. /\ Len(wire') = Len(wire) + 1
      /\ \A k \in 1..Len(wire) : wire'[k] = wire[k]
      /\ wire'[Len(wire) + 1] = owed[1]
  BY <1>1, <1>2, AppendProperties
<1>5. /\ Len(units) = Len(read) + Len(wire) + Len(owed)
      /\ \A k \in 1..Len(read) : read[k] = units[k]
      /\ \A k \in 1..Len(wire) : wire[k] = units[Len(read) + k]
      /\ \A k \in 1..Len(owed) : owed[k] = units[Len(read) + Len(wire) + k]
  BY DEF Split
<1>6. ASSUME NEW k \in 1..Len(wire') PROVE wire'[k] = units[Len(read) + k]
  <2>1. CASE k \in 1..Len(wire)
    BY <1>4, <1>5, <2>1
  <2>2. CASE k = Len(wire) + 1
    <3>1. 1 \in 1..Len(owed)
      BY <1>2
    <3>2. owed[1] = units[Len(read) + Len(wire) + 1]
      BY <1>5, <3>1
    <3>3. Len(read) + Len(wire) + 1 = Len(read) + k
      BY <1>2, <2>2
    <3> QED
      BY <1>4, <2>2, <3>2, <3>3
  <2> QED
    BY <1>2, <1>4, <2>1, <2>2
<1>7. ASSUME NEW k \in 1..Len(owed') PROVE owed'[k] = units[Len(read) + Len(wire') + k]
  <2>1. k + 1 \in 1..Len(owed)
    BY <1>2, <1>3
  <2>2. owed[k + 1] = units[Len(read) + Len(wire) + (k + 1)]
    BY <1>5, <2>1
  <2>3. Len(read) + Len(wire) + (k + 1) = Len(read) + Len(wire') + k
    BY <1>2, <1>4, <2>1
  <2> QED
    BY <1>3, <2>2, <2>3
<1>8. Len(units) = Len(read) + Len(wire') + Len(owed')
  BY <1>2, <1>3, <1>4, <1>5
<1> QED
  BY <1>5, <1>6, <1>7, <1>8 DEF Split

(* What a read takes off the connection is what has been read next. *)
LEMMA SplitRead ==
    ASSUME wire \in Seq(Unit), Len(owed) \in Nat, owed' = owed,
           NEW n \in 1..Len(wire), Len(wire') = Len(wire) - n,
           \A k \in 1..Len(wire') : wire'[k] = wire[k + n],
           NEW read, Len(read) \in Nat, NEW longer, Len(longer) = Len(read) + n,
           \A k \in 1..Len(read) : longer[k] = read[k],
           \A k \in 1..n : longer[Len(read) + k] = wire[k],
           NEW units, Split(read, units)
    PROVE  Split(longer, units)'
<1>1. Len(wire) \in Nat
  OBVIOUS
<1>2. /\ Len(units) = Len(read) + Len(wire) + Len(owed)
      /\ \A k \in 1..Len(read) : read[k] = units[k]
      /\ \A k \in 1..Len(wire) : wire[k] = units[Len(read) + k]
      /\ \A k \in 1..Len(owed) : owed[k] = units[Len(read) + Len(wire) + k]
  BY DEF Split
<1>3. ASSUME NEW k \in 1..Len(longer) PROVE longer[k] = units[k]
  <2>1. CASE k \in 1..Len(read)
    BY <1>2, <2>1
  <2>2. CASE k \notin 1..Len(read)
    <3>1. k - Len(read) \in 1..n /\ k - Len(read) \in 1..Len(wire) /\ Len(read) + (k - Len(read)) = k
      BY <1>1, <2>2
    <3>2. longer[Len(read) + (k - Len(read))] = wire[k - Len(read)]
      BY <3>1
    <3>3. wire[k - Len(read)] = units[Len(read) + (k - Len(read))]
      BY <1>2, <3>1
    <3> QED
      BY <3>1, <3>2, <3>3
  <2> QED
    BY <2>1, <2>2
<1>4. ASSUME NEW k \in 1..Len(wire') PROVE wire'[k] = units[Len(longer) + k]
  <2>1. k + n \in 1..Len(wire) /\ Len(read) + (k + n) = Len(longer) + k
    BY <1>1
  <2>2. wire[k + n] = units[Len(read) + (k + n)]
    BY <1>2, <2>1
  <2> QED
    BY <2>1, <2>2
<1>5. ASSUME NEW k \in 1..Len(owed') PROVE owed'[k] = units[Len(longer) + Len(wire') + k]
  <2>1. Len(longer) + Len(wire') + k = Len(read) + Len(wire) + k
    BY <1>1
  <2> QED
    BY <1>2, <2>1
<1>6. Len(units) = Len(longer) + Len(wire') + Len(owed')
  BY <1>1, <1>2
<1> QED
  BY <1>2, <1>3, <1>4, <1>5, <1>6 DEF Split
=============================================================================
