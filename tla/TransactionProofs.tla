-------------------------- MODULE TransactionProofs --------------------------
(***************************************************************************)
(* For any number of requests, any urllists, templates of any length and   *)
(* any pipe: the transactions of the round-robin profile carry cookies and *)
(* variables on as they should, wait only for answers that come, and leave *)
(* neither a connection nor a script behind.                               *)
(***************************************************************************)
EXTENDS Transaction, NetworkProofs, FiniteSetTheorems

(* What the state holds: no line of a file is ever stored. *)
Stored == [from : {"unset", "left", "rand", "resp", "stray"}, id : Nat, at : Nat]
Ends == {"ok", "crashed", "exited"}

LineOrigin == {"line", "cutline"}

-----------------------------------------------------------------------------
(* The expansion of a template, token by token. *)

Start(st) == [values |-> <<>>, state |-> st, end |-> "ok"]
Then(acc, i, t, set, id, draws) == Expanded(acc, t[i], set, Random(id, i), draws[i])

IsExpansion(g, n, t, st, set, id, draws) ==
    g = [i \in 0..n |-> IF i = 0 THEN Start(st) ELSE Then(g[i - 1], i, t, set, id, draws)]

LEMMA ExpansionExists ==
    ASSUME NEW t, NEW st, NEW set, NEW id, NEW draws
    PROVE  \A n \in Nat : \E g : IsExpansion(g, n, t, st, set, id, draws)
<1> DEFINE S == {n \in Nat : \E g : IsExpansion(g, n, t, st, set, id, draws)}
<1>1. 0 \in S
  <2>1. PICK g : g = [i \in 0..0 |-> Start(st)]
    OBVIOUS
  <2>2. g = [i \in 0..0 |-> IF i = 0 THEN Start(st) ELSE Then(g[i - 1], i, t, set, id, draws)]
    BY <2>1
  <2> QED
    BY <2>2 DEF IsExpansion
<1>2. ASSUME NEW n \in Nat, n \in S PROVE n + 1 \in S
  <2>1. PICK g : IsExpansion(g, n, t, st, set, id, draws)
    BY <1>2
  <2> DEFINE h == [i \in 0..(n + 1) |-> IF i = n + 1 THEN Then(g[n], n + 1, t, set, id, draws)
                                                     ELSE g[i]]
             next == [i \in 0..(n + 1) |-> IF i = 0 THEN Start(st)
                                           ELSE Then(h[i - 1], i, t, set, id, draws)]
  <2>2. \A i \in 0..n : g[i] = IF i = 0 THEN Start(st) ELSE Then(g[i - 1], i, t, set, id, draws)
    BY <2>1 DEF IsExpansion
  <2>3. \A i \in 0..n : h[i] = g[i]
    BY <1>2
  <2>4. h[n + 1] = Then(g[n], n + 1, t, set, id, draws)
    BY <1>2
  <2>5. ASSUME NEW i \in 0..(n + 1) PROVE h[i] = next[i]
    <3>1. CASE i = 0
      BY <1>2, <2>2, <2>3, <3>1
    <3>2. CASE i = n + 1
      <4>1. n \in 0..n /\ i # 0 /\ i - 1 = n
        BY <1>2, <3>2
      <4>2. h[n] = g[n]
        BY <2>3, <4>1
      <4>3. next[i] = Then(h[n], n + 1, t, set, id, draws)
        BY <3>2, <4>1
      <4> QED
        BY <2>4, <3>2, <4>2, <4>3
    <3>3. CASE i \in 1..n
      <4>1. i \in 0..n /\ i - 1 \in 0..n /\ i # 0
        BY <1>2, <3>3
      <4>2. h[i] = g[i] /\ h[i - 1] = g[i - 1]
        BY <2>3, <4>1
      <4>3. next[i] = Then(h[i - 1], i, t, set, id, draws)
        BY <4>1
      <4> QED
        BY <2>2, <4>1, <4>2, <4>3
    <3> QED
      BY <1>2, <3>1, <3>2, <3>3
  <2>6. h = next
    BY <2>5
  <2>7. IsExpansion(h, n + 1, t, st, set, id, draws)
    BY <2>6 DEF IsExpansion
  <2> HIDE DEF h
  <2> QED
    BY <1>2, <2>7
<1> HIDE DEF S
<1>3. \A n \in Nat : n \in S
  BY <1>1, <1>2, SetInduction
<1> QED
  BY <1>3 DEF S

(* Expand is the last value of its own expansion. *)
LEMMA ExpandIs ==
    ASSUME NEW t, Len(t) \in Nat, NEW st, NEW set, NEW id, NEW draws
    PROVE  \E g : /\ IsExpansion(g, Len(t), t, st, set, id, draws)
                  /\ Expand(t, st, set, id, draws) = g[Len(t)]
<1> DEFINE G == CHOOSE g : IsExpansion(g, Len(t), t, st, set, id, draws)
<1>1. IsExpansion(G, Len(t), t, st, set, id, draws)
  BY ExpansionExists
<1>2. G = CHOOSE g : g = [i \in 0..Len(t) |->
                            IF i = 0 THEN [values |-> <<>>, state |-> st, end |-> "ok"]
                            ELSE Expanded(g[i - 1], t[i], set, Random(id, i), draws[i])]
  BY DEF IsExpansion, Start, Then
<1>3. Expand(t, st, set, id, draws) = G[Len(t)]
  BY <1>2 DEF Expand
<1> QED
  BY <1>1, <1>3

Shaped(acc) ==
    /\ acc = [values |-> acc.values, state |-> acc.state, end |-> acc.end]
    /\ acc.end \in Ends
    /\ acc.state \in [Names -> Stored]
    /\ \E V : acc.values \in Seq(V)

Appended(s, token, value) == Append(s, [token |-> token, value |-> value])

(* What one token does. *)
LEMMA ExpandedCases ==
    ASSUME NEW acc, Shaped(acc), NEW tok \in Token, NEW set \in BOOLEAN, NEW value, NEW draw
    PROVE  LET next == Expanded(acc, tok, set, value, draw)
           IN  \/ acc.end # "ok" /\ next = acc
               \/ /\ acc.end = "ok" /\ tok.kind = "set" /\ set
                  /\ next = [values |-> Appended(acc.values, tok, value),
                             state |-> [acc.state EXCEPT ![tok.name] = value], end |-> "ok"]
               \/ /\ acc.end = "ok" /\ tok.kind = "get" /\ acc.state[tok.name] # Unset
                  /\ next = [values |-> Appended(acc.values, tok, acc.state[tok.name]),
                             state |-> acc.state, end |-> "ok"]
               \/ /\ acc.end = "ok" /\ tok.kind = "get" /\ acc.state[tok.name] = Unset
                  /\ \E v : /\ v.from \in LineOrigin
                            /\ next = [values |-> Appended(acc.values, tok, v),
                                       state |-> acc.state, end |-> "ok"]
               \/ /\ acc.end = "ok" /\ ~(tok.kind = "set" /\ set)
                  /\ \E end \in {"crashed", "exited"} :
                        next = [values |-> acc.values, state |-> acc.state, end |-> end]
<1> DEFINE next == Expanded(acc, tok, set, value, draw)
<1> USE DEF Shaped
<1>1. CASE acc.end # "ok"
  BY <1>1 DEF Expanded
<1>2. CASE acc.end = "ok" /\ tok.kind = "set" /\ set
  <2>1. next = [Took(acc, tok, value) EXCEPT !.state = Remembered(@, tok.name, value)]
    BY <1>2 DEF Expanded, Known
  <2>2. Took(acc, tok, value) = [values |-> Appended(acc.values, tok, value),
                                 state |-> acc.state, end |-> "ok"]
    <3>1. acc = [values |-> acc.values, state |-> acc.state, end |-> "ok"]
      BY <1>2
    <3>2. Took(acc, tok, value) = [acc EXCEPT !.values = Appended(acc.values, tok, value)]
      BY DEF Took, Appended
    <3> QED
      BY <3>1, <3>2
  <2>3. next = [values |-> Appended(acc.values, tok, value),
                state |-> [acc.state EXCEPT ![tok.name] = value], end |-> "ok"]
    BY <2>1, <2>2 DEF Remembered
  <2> QED
    BY <1>2, <2>3
<1>3. CASE acc.end = "ok" /\ Known(acc, tok)
  <2>1. next = Took(acc, tok, acc.state[tok.name])
    BY <1>3 DEF Expanded, Known
  <2>2. next = [values |-> Appended(acc.values, tok, acc.state[tok.name]),
                state |-> acc.state, end |-> "ok"]
    BY <1>3, <2>1 DEF Took, Appended
  <2> QED
    BY <1>3, <2>2 DEF Known
<1>4. CASE acc.end = "ok" /\ tok.kind = "get" /\ ~Known(acc, tok) /\ tok.name \in DOMAIN FileOf
  <2>1. next = Line(acc, tok, draw)
    BY <1>4 DEF Expanded
  <2>2. acc.state[tok.name] = Unset
    BY <1>4 DEF Known
  <2>3. \/ next = [acc EXCEPT !.end = "exited"]
        \/ \E v : v.from \in LineOrigin /\ next = Took(acc, tok, v)
    <3> DEFINE file == FileOf[tok.name]
               k == Entry(file, draw % Size(file))
               v == Value(IF Kept(file, k) = file[k] THEN "line" ELSE "cutline", k)
    <3>1. Line(acc, tok, draw) = IF Kept(file, k) = 0 THEN [acc EXCEPT !.end = "exited"]
                                 ELSE Took(acc, tok, v)
      BY DEF Line
    <3>2. v.from \in LineOrigin
      BY DEF Value, LineOrigin
    <3> HIDE DEF v, k, file
    <3> QED
      BY <2>1, <3>1, <3>2
  <2>4. CASE next = [acc EXCEPT !.end = "exited"]
    <3>1. next = [values |-> acc.values, state |-> acc.state, end |-> "exited"]
      BY <2>4
    <3> QED
      BY <1>4, <3>1
  <2>5. CASE \E v : v.from \in LineOrigin /\ next = Took(acc, tok, v)
    <3>1. PICK v : v.from \in LineOrigin /\ next = Took(acc, tok, v)
      BY <2>5
    <3>2. next = [values |-> Appended(acc.values, tok, v), state |-> acc.state, end |-> "ok"]
      BY <1>4, <3>1 DEF Took, Appended
    <3> QED
      BY <1>4, <2>2, <3>1, <3>2
  <2> QED
    BY <2>3, <2>4, <2>5
<1>5. CASE /\ acc.end = "ok" /\ ~(tok.kind = "set" /\ set) /\ ~Known(acc, tok)
           /\ ~(tok.kind = "get" /\ tok.name \in DOMAIN FileOf)
  <2>1. next = [acc EXCEPT !.end = "crashed"]
    BY <1>5 DEF Expanded
  <2>2. next = [values |-> acc.values, state |-> acc.state, end |-> "crashed"]
    BY <2>1
  <2> QED
    BY <1>5, <2>2
<1> QED
  BY <1>1, <1>2, <1>3, <1>4, <1>5 DEF Known

-----------------------------------------------------------------------------
(* What a template becomes. *)

SetToken(n) == [kind |-> "set", name |-> n]
NoSet(t, n, i, j) == \A k \in i..j : t[k] # SetToken(n)

(* The value v of n behind the first i tokens: what it was before them, or  *)
(* what the last ${=n} among them drew.                                     *)
Current(t, st, id, n, i, v) ==
    \/ NoSet(t, n, 1, i) /\ v = st[n]
    \/ \E k \in 1..i : t[k] = SetToken(n) /\ NoSet(t, n, k + 1, i) /\ v = Random(id, k)

(* The value v of token i: that, or a line of a file. *)
Filled(t, st, id, i, v) ==
    \/ v.from \in LineOrigin /\ st[t[i].name] = Unset /\ NoSet(t, t[i].name, 1, i)
    \/ v # Unset /\ Current(t, st, id, t[i].name, i, v)

FilledAll(t, st, id, values) ==
    \A k \in 1..Len(values) : values[k].token = t[k] /\ Filled(t, st, id, k, values[k].value)

(* The expansion acc of the first i tokens. *)
Prefix(t, st, id, acc, i) ==
    /\ Shaped(acc)
    /\ Len(acc.values) \in 0..i
    /\ FilledAll(t, st, id, acc.values)
    /\ \A n \in Names : acc.state[n] = st[n] \/ (acc.state[n].from = "rand" /\ acc.state[n].id = id)
    /\ acc.end = "ok" =>
         Len(acc.values) = i /\ \A n \in Names : Current(t, st, id, n, i, acc.state[n])

LEMMA RandomIs ==
    ASSUME NEW id, NEW i
    PROVE  /\ Random(id, i).from = "rand" /\ Random(id, i).id = id /\ Random(id, i).at = i
           /\ id \in Nat /\ i \in Nat => Random(id, i) \in Stored
           /\ Unset.from = "unset" /\ Unset \in Stored
<1>1. Random(id, i) = [from |-> "rand", id |-> id, at |-> i]
  BY DEF Random, Value
<1>2. Unset = [from |-> "unset", id |-> 0, at |-> 0]
  BY DEF Unset, Value
<1> QED
  BY <1>1, <1>2 DEF Stored

LEMMA CurrentGoesOn ==
    ASSUME NEW t, NEW st, NEW id, NEW n, NEW i \in Nat, NEW v,
           Current(t, st, id, n, i, v), t[i + 1] # SetToken(n)
    PROVE  Current(t, st, id, n, i + 1, v)
<1>1. \A j \in 1..(i + 1) : \A k \in j..(i + 1) : k \in j..i \/ k = i + 1
  OBVIOUS
<1>2. CASE NoSet(t, n, 1, i) /\ v = st[n]
  BY <1>1, <1>2 DEF NoSet, Current
<1>3. ASSUME NEW k \in 1..i, t[k] = SetToken(n), NoSet(t, n, k + 1, i), v = Random(id, k)
      PROVE  Current(t, st, id, n, i + 1, v)
  <2>1. k \in 1..(i + 1) /\ k + 1 \in 1..(i + 1)
    OBVIOUS
  <2>2. NoSet(t, n, k + 1, i + 1)
    BY <1>1, <1>3, <2>1 DEF NoSet
  <2> QED
    BY <1>3, <2>1, <2>2 DEF Current
<1> QED
  BY <1>2, <1>3 DEF Current

LEMMA CurrentIsDrawn ==
    ASSUME NEW t, NEW st, NEW id, NEW n, NEW i \in Nat, t[i + 1] = SetToken(n)
    PROVE  Current(t, st, id, n, i + 1, Random(id, i + 1))
<1>1. i + 1 \in 1..(i + 1) /\ NoSet(t, n, (i + 1) + 1, i + 1)
  BY DEF NoSet
<1> QED
  BY <1>1 DEF Current

LEMMA AppendedIs ==
    ASSUME NEW s, \E V : s \in Seq(V), NEW token, NEW value
    PROVE  LET new == Appended(s, token, value)
           IN  /\ \E V : new \in Seq(V)
               /\ Len(s) \in Nat /\ Len(new) = Len(s) + 1
               /\ \A k \in 1..Len(s) : new[k] = s[k]
               /\ new[Len(s) + 1].token = token /\ new[Len(s) + 1].value = value
<1> DEFINE x == [token |-> token, value |-> value]
<1>1. PICK V : s \in Seq(V)
  OBVIOUS
<1>2. s \in Seq(V \cup {x}) /\ x \in V \cup {x}
  BY <1>1, SeqWidens
<1>3. x.token = token /\ x.value = value
  OBVIOUS
<1>4. Appended(s, token, value) = Append(s, x)
  BY DEF Appended
<1> HIDE DEF x
<1>5. PICK W : W = V \cup {x}
  OBVIOUS
<1>6. s \in Seq(W) /\ x \in W
  BY <1>2, <1>5
<1>7. /\ Append(s, x) \in Seq(W) /\ Len(Append(s, x)) = Len(s) + 1
      /\ \A k \in 1..Len(s) : Append(s, x)[k] = s[k]
      /\ Append(s, x)[Len(s) + 1] = x
  BY <1>6, AppendProperties
<1> QED
  BY <1>3, <1>4, <1>6, <1>7

LEMMA FilledMore ==
    ASSUME NEW t, NEW st, NEW id, NEW s, \E V : s \in Seq(V), FilledAll(t, st, id, s),
           NEW value, Filled(t, st, id, Len(s) + 1, value)
    PROVE  FilledAll(t, st, id, Appended(s, t[Len(s) + 1], value))
<1> DEFINE new == Appended(s, t[Len(s) + 1], value)
<1>1. /\ Len(s) \in Nat /\ Len(new) = Len(s) + 1
      /\ \A k \in 1..Len(s) : new[k] = s[k]
      /\ new[Len(s) + 1].token = t[Len(s) + 1] /\ new[Len(s) + 1].value = value
  BY AppendedIs
<1> HIDE DEF new
<1>2. ASSUME NEW k \in 1..Len(new)
      PROVE  new[k].token = t[k] /\ Filled(t, st, id, k, new[k].value)
  <2>1. CASE k \in 1..Len(s)
    BY <1>1, <2>1 DEF FilledAll
  <2>2. CASE k = Len(s) + 1
    BY <1>1, <2>2
  <2> QED
    BY <1>1, <2>1, <2>2
<1> QED
  BY <1>2 DEF FilledAll, new

LEMMA PrefixGrows ==
    ASSUME NEW t, NEW st \in [Names -> Stored], NEW id \in Nat, NEW set \in BOOLEAN,
           NEW acc, NEW i \in Nat, Prefix(t, st, id, acc, i), t[i + 1] \in Token, NEW draw
    PROVE  Prefix(t, st, id, Expanded(acc, t[i + 1], set, Random(id, i + 1), draw), i + 1)
<1> DEFINE value == Random(id, i + 1)
           next == Expanded(acc, t[i + 1], set, value, draw)
<1>1. PICK tok \in Token : tok = t[i + 1]
  OBVIOUS
<1>2. /\ value.from = "rand" /\ value.id = id /\ value \in Stored /\ value # Unset
  BY RandomIs
<1> HIDE DEF value
<1>3. tok.name \in Names /\ tok.kind \in {"get", "set"} /\ tok = [kind |-> tok.kind, name |-> tok.name]
  BY <1>1 DEF Token
<1>4. /\ Shaped(acc) /\ Len(acc.values) \in 0..i /\ FilledAll(t, st, id, acc.values)
      /\ \A n \in Names : acc.state[n] = st[n] \/ (acc.state[n].from = "rand" /\ acc.state[n].id = id)
      /\ acc.end = "ok" =>
           Len(acc.values) = i /\ \A n \in Names : Current(t, st, id, n, i, acc.state[n])
  BY DEF Prefix
<1>5. acc.end \in Ends /\ acc.state \in [Names -> Stored] /\ \E V : acc.values \in Seq(V)
  BY <1>4 DEF Shaped
<1>6. \/ acc.end # "ok" /\ next = acc
      \/ /\ acc.end = "ok" /\ tok.kind = "set" /\ set
         /\ next = [values |-> Appended(acc.values, tok, value),
                    state |-> [acc.state EXCEPT ![tok.name] = value], end |-> "ok"]
      \/ /\ acc.end = "ok" /\ tok.kind = "get" /\ acc.state[tok.name] # Unset
         /\ next = [values |-> Appended(acc.values, tok, acc.state[tok.name]),
                    state |-> acc.state, end |-> "ok"]
      \/ /\ acc.end = "ok" /\ tok.kind = "get" /\ acc.state[tok.name] = Unset
         /\ \E v : /\ v.from \in LineOrigin
                   /\ next = [values |-> Appended(acc.values, tok, v),
                              state |-> acc.state, end |-> "ok"]
      \/ /\ acc.end = "ok" /\ ~(tok.kind = "set" /\ set)
         /\ \E end \in {"crashed", "exited"} :
               next = [values |-> acc.values, state |-> acc.state, end |-> end]
  <2>1. next = Expanded(acc, tok, set, value, draw)
    BY <1>1
  <2> HIDE DEF next
  <2> QED
    BY <1>4, <2>1, ExpandedCases
<1> HIDE DEF next
<1>7. CASE acc.end # "ok" /\ next = acc
  <2>1. Len(acc.values) \in 0..(i + 1)
    BY <1>4
  <2>2. Prefix(t, st, id, acc, i + 1)
    BY <1>4, <1>7, <2>1 DEF Prefix
  <2> QED
    BY <1>7, <2>2 DEF next, value
<1>8. CASE acc.end = "ok" /\ \E end \in {"crashed", "exited"} :
               next = [values |-> acc.values, state |-> acc.state, end |-> end]
  <2>1. PICK end \in {"crashed", "exited"} :
               next = [values |-> acc.values, state |-> acc.state, end |-> end]
    BY <1>8
  <2>2. next.values = acc.values /\ next.state = acc.state /\ next.end = end /\ end \in Ends /\ end # "ok"
    BY <2>1 DEF Ends
  <2>3. Shaped(next)
    BY <1>5, <2>1, <2>2 DEF Shaped
  <2>4. Len(acc.values) \in 0..(i + 1)
    BY <1>4
  <2>5. Prefix(t, st, id, next, i + 1)
    BY <1>4, <2>2, <2>3, <2>4 DEF Prefix
  <2> QED
    BY <2>5 DEF next, value
<1>9. ASSUME acc.end = "ok", NEW v, NEW state1,
             Filled(t, st, id, i + 1, v), state1 \in [Names -> Stored],
             \A n \in Names : state1[n] = acc.state[n] \/ (state1[n].from = "rand" /\ state1[n].id = id),
             \A n \in Names : Current(t, st, id, n, i + 1, state1[n]),
             next = [values |-> Appended(acc.values, tok, v), state |-> state1, end |-> "ok"]
      PROVE  Prefix(t, st, id, next, i + 1)
  <2> DEFINE new == Appended(acc.values, tok, v)
  <2>1. next.values = new /\ next.state = state1 /\ next.end = "ok" /\ next.end \in Ends
    BY <1>9 DEF Ends
  <2>2. Len(acc.values) = i
    BY <1>4, <1>9
  <2>3. FilledAll(t, st, id, new)
    BY <1>1, <1>4, <1>5, <1>9, <2>2, FilledMore
  <2>4. (\E V : new \in Seq(V)) /\ Len(new) = i + 1
    BY <1>5, <2>2, AppendedIs
  <2> HIDE DEF new
  <2>5. Shaped(next)
    <3>1. next = [values |-> new, state |-> state1, end |-> "ok"]
      BY <1>9 DEF new
    <3> QED
      BY <1>9, <2>1, <2>4, <3>1 DEF Shaped
  <2>6. Len(next.values) \in 0..(i + 1) /\ Len(next.values) = i + 1
    BY <2>1, <2>4
  <2>7. \A n \in Names : state1[n] = st[n] \/ (state1[n].from = "rand" /\ state1[n].id = id)
    BY <1>4, <1>9
  <2> QED
    BY <1>9, <2>1, <2>3, <2>5, <2>6, <2>7 DEF Prefix
<1>10. tok.kind = "get" => \A n \in Names : tok # SetToken(n)
  BY <1>3 DEF SetToken
<1>11. ASSUME acc.end = "ok", tok.kind = "get", NEW n \in Names
       PROVE  Current(t, st, id, n, i + 1, acc.state[n])
  BY <1>1, <1>4, <1>10, <1>11, CurrentGoesOn
<1>12. CASE /\ acc.end = "ok" /\ tok.kind = "set" /\ set
            /\ next = [values |-> Appended(acc.values, tok, value),
                       state |-> [acc.state EXCEPT ![tok.name] = value], end |-> "ok"]
  <2> DEFINE state1 == [acc.state EXCEPT ![tok.name] = value]
  <2>1. tok = SetToken(tok.name)
    BY <1>3, <1>12 DEF SetToken
  <2>2. Current(t, st, id, tok.name, i + 1, value)
    BY <1>1, <2>1, CurrentIsDrawn DEF value
  <2>3. Filled(t, st, id, i + 1, value)
    BY <1>1, <1>2, <2>2 DEF Filled
  <2>4. state1 \in [Names -> Stored] /\ \A n \in Names : state1[n] = IF n = tok.name THEN value ELSE acc.state[n]
    BY <1>2, <1>3, <1>5
  <2> HIDE DEF state1
  <2>5. ASSUME NEW n \in Names PROVE Current(t, st, id, n, i + 1, state1[n])
    <3>1. CASE n = tok.name
      BY <2>2, <2>4, <3>1
    <3>2. CASE n # tok.name
      <4>1. tok # SetToken(n)
        BY <2>1, <3>2 DEF SetToken
      <4>2. Current(t, st, id, n, i + 1, acc.state[n])
        BY <1>1, <1>4, <1>12, <4>1, CurrentGoesOn
      <4> QED
        BY <2>4, <3>2, <4>2
    <3> QED
      BY <3>1, <3>2
  <2>6. \A n \in Names : state1[n] = acc.state[n] \/ (state1[n].from = "rand" /\ state1[n].id = id)
    BY <1>2, <2>4
  <2>7. next = [values |-> Appended(acc.values, tok, value), state |-> state1, end |-> "ok"]
    BY <1>12 DEF state1
  <2>8. Prefix(t, st, id, next, i + 1)
    BY <1>9, <1>12, <2>3, <2>4, <2>5, <2>6, <2>7
  <2> QED
    BY <2>8 DEF next, value
<1>13. CASE /\ acc.end = "ok" /\ tok.kind = "get" /\ acc.state[tok.name] # Unset
            /\ next = [values |-> Appended(acc.values, tok, acc.state[tok.name]),
                       state |-> acc.state, end |-> "ok"]
  <2>1. Current(t, st, id, tok.name, i + 1, acc.state[tok.name])
    BY <1>3, <1>11, <1>13
  <2>2. Filled(t, st, id, i + 1, acc.state[tok.name])
    BY <1>1, <1>13, <2>1 DEF Filled
  <2>3. Prefix(t, st, id, next, i + 1)
    BY <1>5, <1>9, <1>11, <1>13, <2>2
  <2> QED
    BY <2>3 DEF next, value
<1>14. CASE /\ acc.end = "ok" /\ tok.kind = "get" /\ acc.state[tok.name] = Unset
            /\ \E v : /\ v.from \in LineOrigin
                      /\ next = [values |-> Appended(acc.values, tok, v),
                                 state |-> acc.state, end |-> "ok"]
  <2>1. PICK v : /\ v.from \in LineOrigin
                 /\ next = [values |-> Appended(acc.values, tok, v), state |-> acc.state, end |-> "ok"]
    BY <1>14
  <2>2. Current(t, st, id, tok.name, i + 1, Unset)
    BY <1>3, <1>11, <1>14
  <2>3. NoSet(t, tok.name, 1, i + 1) /\ Unset = st[tok.name]
    <3>1. \A k \in 1..(i + 1) : Unset # Random(id, k)
      BY RandomIs
    <3> QED
      BY <2>2, <3>1 DEF Current
  <2>4. Filled(t, st, id, i + 1, v)
    BY <1>1, <2>1, <2>3 DEF Filled
  <2>5. Prefix(t, st, id, next, i + 1)
    BY <1>5, <1>9, <1>11, <1>14, <2>1, <2>4
  <2> QED
    BY <2>5 DEF next, value
<1> QED
  BY <1>6, <1>7, <1>8, <1>12, <1>13, <1>14

LEMMA PrefixStarts ==
    ASSUME NEW t, NEW st \in [Names -> Stored], NEW id
    PROVE  Prefix(t, st, id, Start(st), 0)
<1> DEFINE acc == Start(st)
<1>1. acc = [values |-> <<>>, state |-> st, end |-> "ok"]
  BY DEF Start
<1>2. acc.values = <<>> /\ acc.state = st /\ acc.end = "ok"
  BY <1>1
<1>3. <<>> \in Seq({}) /\ Len(<<>>) = 0
  OBVIOUS
<1> HIDE DEF acc
<1>4. Shaped(acc)
  BY <1>1, <1>2, <1>3 DEF Shaped, Ends
<1>5. Len(acc.values) = 0 /\ Len(acc.values) \in 0..0 /\ FilledAll(t, st, id, acc.values)
  BY <1>2, <1>3 DEF FilledAll
<1>6. \A n \in Names : Current(t, st, id, n, 0, acc.state[n])
  BY <1>2 DEF Current, NoSet
<1>7. Prefix(t, st, id, acc, 0)
  BY <1>2, <1>4, <1>5, <1>6 DEF Prefix
<1> QED
  BY <1>7 DEF acc

(* What Expand returns. *)
LEMMA ExpandFills ==
    ASSUME NEW t \in Seq(Token), NEW st \in [Names -> Stored], NEW set \in BOOLEAN,
           NEW id \in Nat, NEW draws
    PROVE  Prefix(t, st, id, Expand(t, st, set, id, draws), Len(t))
<1>1. Len(t) \in Nat
  OBVIOUS
<1>2. PICK g : /\ IsExpansion(g, Len(t), t, st, set, id, draws)
               /\ Expand(t, st, set, id, draws) = g[Len(t)]
  BY <1>1, ExpandIs
<1>3. \A i \in 0..Len(t) : g[i] = IF i = 0 THEN Start(st) ELSE Then(g[i - 1], i, t, set, id, draws)
  BY <1>2 DEF IsExpansion
<1> DEFINE S == {i \in Nat : i <= Len(t) => Prefix(t, st, id, g[i], i)}
<1>4. 0 \in S
  <2>1. g[0] = Start(st)
    BY <1>1, <1>3
  <2> QED
    BY <2>1, PrefixStarts
<1>5. ASSUME NEW i \in Nat, i \in S PROVE i + 1 \in S
  <2>1. SUFFICES ASSUME i + 1 <= Len(t) PROVE Prefix(t, st, id, g[i + 1], i + 1)
    BY <1>5
  <2>2. Prefix(t, st, id, g[i], i)
    BY <1>1, <1>5, <2>1
  <2>3. t[i + 1] \in Token
    BY <1>1, <1>5, <2>1
  <2>4. i + 1 \in 0..Len(t) /\ i + 1 # 0 /\ (i + 1) - 1 = i
    BY <1>1, <1>5, <2>1
  <2>5. g[i + 1] = Then(g[i], i + 1, t, set, id, draws)
    BY <1>3, <2>4
  <2>6. g[i + 1] = Expanded(g[i], t[i + 1], set, Random(id, i + 1), draws[i + 1])
    BY <2>5 DEF Then
  <2> QED
    BY <1>5, <2>2, <2>3, <2>6, PrefixGrows
<1> HIDE DEF S
<1>6. \A i \in Nat : i \in S
  BY <1>4, <1>5, SetInduction
<1>7. Prefix(t, st, id, g[Len(t)], Len(t))
  BY <1>1, <1>6 DEF S
<1> QED
  BY <1>2, <1>7

(* Two values of one expansion agree when no ${=name} stands between them. *)
LEMMA ValuesAgree ==
    ASSUME NEW t, NEW st \in [Names -> Stored], NEW id \in Nat,
           \A n \in Names : st[n].from = "rand" => st[n].id < id,
           NEW i \in Nat \ {0}, NEW j \in Nat, i < j, NEW n \in Names,
           NEW v, NEW w, t[i].name = n, t[j].name = n,
           Filled(t, st, id, i, v), Filled(t, st, id, j, w), w.from \notin LineOrigin
    PROVE  (v = w) = NoSet(t, n, i + 1, j)
<1>1. w # Unset /\ Current(t, st, id, n, j, w)
  BY DEF Filled
<1>2. st[n].from = "rand" => st[n].id < id
  OBVIOUS
<1>3. st[n].from \in {"unset", "left", "rand", "resp", "stray"} /\ st[n].id \in Nat
  BY DEF Stored
<1>4. \A k : st[n] # Random(id, k)
  BY <1>2, <1>3, RandomIs
<1>5. \A k, l : Random(id, k) = Random(id, l) => k = l
  BY RandomIs
<1>6. CASE NoSet(t, n, i + 1, j)
  <2>1. \A k \in (i + 1)..j : t[k] # SetToken(n)
    BY <1>6 DEF NoSet
  <2>2. CASE NoSet(t, n, 1, i)
    <3>1. \A k \in 1..j : k \in 1..i \/ k \in (i + 1)..j
      OBVIOUS
    <3>2. NoSet(t, n, 1, j)
      BY <2>1, <2>2, <3>1 DEF NoSet
    <3>3. w = st[n]
      BY <1>1, <3>2 DEF Current, NoSet
    <3>4. st[n] # Unset
      BY <1>1, <3>3
    <3>5. Current(t, st, id, n, i, v)
      BY <3>4 DEF Filled
    <3>6. v = st[n]
      BY <2>2, <3>5 DEF Current, NoSet
    <3> QED
      BY <1>6, <3>3, <3>6
  <2>3. CASE ~NoSet(t, n, 1, i)
    <3>1. Current(t, st, id, n, i, v)
      BY <2>3 DEF Filled
    <3>2. PICK k \in 1..i : t[k] = SetToken(n) /\ NoSet(t, n, k + 1, i) /\ v = Random(id, k)
      BY <2>3, <3>1 DEF Current
    <3>3. k \in 1..j
      BY <3>2
    <3>4. ~NoSet(t, n, 1, j)
      BY <3>2, <3>3 DEF NoSet
    <3>5. PICK l \in 1..j : t[l] = SetToken(n) /\ NoSet(t, n, l + 1, j) /\ w = Random(id, l)
      BY <1>1, <3>4 DEF Current
    <3>6. l \in 1..i
      BY <2>1, <3>5
    <3>7. ~(k < l)
      <4>1. k < l => l \in (k + 1)..i
        BY <3>2, <3>6
      <4> QED
        BY <3>2, <3>5, <4>1 DEF NoSet
    <3>8. ~(l < k)
      <4>1. l < k => k \in (l + 1)..j
        BY <3>2, <3>6
      <4> QED
        BY <3>2, <3>5, <4>1 DEF NoSet
    <3>9. k = l
      BY <3>2, <3>6, <3>7, <3>8
    <3> QED
      BY <1>6, <3>2, <3>5, <3>9
  <2> QED
    BY <2>2, <2>3
<1>7. CASE ~NoSet(t, n, i + 1, j)
  <2>1. PICK s \in (i + 1)..j : t[s] = SetToken(n)
    BY <1>7 DEF NoSet
  <2>2. s \in 1..j
    BY <2>1
  <2>3. ~NoSet(t, n, 1, j)
    BY <2>1, <2>2 DEF NoSet
  <2>4. PICK l \in 1..j : t[l] = SetToken(n) /\ NoSet(t, n, l + 1, j) /\ w = Random(id, l)
    BY <1>1, <2>3 DEF Current
  <2>5. l > i
    <3>1. l <= i => s \in (l + 1)..j
      BY <2>1, <2>4
    <3> QED
      BY <2>1, <2>4, <3>1 DEF NoSet
  <2>6. v # w
    <3>1. CASE v.from \in LineOrigin
      BY <2>4, <3>1, RandomIs DEF LineOrigin
    <3>2. CASE Current(t, st, id, n, i, v)
      <4>1. \A k \in 1..i : k # l
        BY <2>4, <2>5
      <4> QED
        BY <1>4, <1>5, <2>4, <3>2, <4>1 DEF Current
    <3> QED
      BY <3>1, <3>2 DEF Filled
  <2>7. NoSet(t, n, i + 1, j) = FALSE /\ (v = w) = FALSE
    BY <1>7, <2>6 DEF NoSet
  <2> QED
    BY <2>7
<1> QED
  BY <1>6, <1>7

-----------------------------------------------------------------------------
(* The types. *)

Piece == Unit \cup {Junk}
Request(params) ==
    [params : {params}, cookies : Seq(Cookie), want : BOOLEAN, close : BOOLEAN]
Handlers == {"next", "begin", "loop", "done", "failed", "crashed", "exited"} \cup Connected

NetInv == NetTypeOK /\ (Replying => inbox # <<>>)
SocketInv == keepalive \in BOOLEAN /\ want \in BOOLEAN /\ rbuf \in Seq(Piece)
ScriptInv == ScriptTypeOK /\ data \in Seq(Piece) /\ pipe \in Seq(Piece)
ProfileInv ==
    /\ pc \in Handlers
    /\ urls \in UrlLists /\ full \in BOOLEAN
    /\ cur \in Reqs
    /\ req \in Request(req.params)
    /\ state \in [Names -> Stored]
    /\ cookie \in Seq(Cookie)
    /\ latest \in [CookieNames -> Setting]
TypeInv == NetInv /\ SocketInv /\ ScriptInv /\ ProfileInv

(* An answer that comes.  A connection is used for one request, which asks  *)
(* the server to close it; while the answer is read, the server has yet to  *)
(* begin it or closes the connection behind it.                             *)
Reading == {"recv", "load", "first", "drain"}
Leaves == srv \in {"closing", "closed", "reset"}

ConnInv ==
    /\ pc \in {"next", "begin", "loop", "done"} => fd # "open"
    /\ pc = "create" => keepalive = FALSE
    /\ pc \in {"send"} \cup Reading => req.close
    /\ pc \in {"create", "send"} =>
         wire = <<>> /\ owed = <<>> /\ (srv = "closed" \/ (srv = "idle" /\ inbox = <<>>))
    /\ pc \in Reading => Leaves \/ (srv = "idle" /\ inbox # <<>>)

(* The response to a request with a template.  Nothing else is on the       *)
(* connection, so what was read, what is on its way and what is owed are    *)
(* the units of one answer to it, until the server has closed.              *)
CurReq == [id |-> cur, method |-> CurrentUrl.method]
Partly(read) == Leaves /\ \E p \in Reply : Split(read, UnitsOf(CurReq, p))

Unanswered ==
    wire = <<>> /\ owed = <<>> /\ (srv = "closed" \/ (srv = "idle" /\ inbox = <<CurReq>>))

ReadInv ==
    /\ pc = "send" => req.want = HasTemplate(CurrentUrl)
    /\ pc = "recv" => want = HasTemplate(CurrentUrl) /\ (Unanswered \/ Partly(<<>>))
    /\ pc \in {"first", "drain"} => ~HasTemplate(CurrentUrl)
    /\ pc = "load" => (rbuf = <<>> /\ Unanswered) \/ Partly(rbuf)
    /\ pc = "post" /\ HasTemplate(CurrentUrl) =>
         \/ rbuf = <<>>
         \/ \E i \in 1..Len(rbuf) : rbuf[i] = Junk
         \/ srv = "closed" /\ wire = <<>> /\ \E p \in Reply : Split(rbuf, UnitsOf(CurReq, p))

(* The script: flood goes on behind one that it has waited for.             *)
ChildInv ==
    /\ pc # "script" => at = "idle"
    /\ at = "ok" => proc = "reaped" /\ code = 0
    /\ at = "idle" /\ pc \notin {"failed", "crashed", "exited"} => proc \in {"none", "reaped"}
    /\ pc \in {"end", "loop", "done"} /\ CurrentUrl.script => proc = "reaped" /\ code = 0

(* The cookies: the entry a response set with its first Set-Cookie comes    *)
(* before the older ones of its name, until another response sets that name.*)
Leads(list, n, v) ==
    \E k \in 1..Len(list) :
       /\ list[k] = [name |-> n, value |-> v]
       /\ \A j \in 1..(k - 1) : list[j].name # n \/ list[j].value = Stray

Newest(list) == \A n \in CookieNames : latest[n].first => Leads(list, n, latest[n].from)

CookieInv == Newest(cookie) /\ (pc = "send" => req.cookies = cookie)

(* The variables: a number drawn for a request is known from then on.       *)
ParamsInv ==
    /\ \A n \in Names : state[n].from = "rand" =>
         state[n].id <= cur /\ (pc = "next" => state[n].id < cur)
    /\ ParamsAgree

-----------------------------------------------------------------------------
(* Every variable keeps its type. *)

LEMMA UrlIs ==
    ASSUME urls \in UrlLists, cur \in Reqs
    PROVE  /\ CurrentUrl \in Url
           /\ CurReq \in [id : Reqs, method : Methods]
           /\ HasTemplate(CurrentUrl) => CurrentUrl.responsename \in Names
<1>1. urls \in Seq(Url) /\ urls # <<>>
  BY TransactionAssumption
<1>2. Len(urls) \in Nat \ {0} /\ cur \in Nat \ {0}
  BY <1>1, NetworkAssumption DEF Reqs
<1>3. PICK i : i = ((cur - 1) % Len(urls)) + 1
  OBVIOUS
<1>4. i \in 1..Len(urls)
  BY <1>2, <1>3
<1>5. CurrentUrl = urls[i] /\ urls[i] \in Url
  BY <1>1, <1>3, <1>4 DEF CurrentUrl
<1>6. CurrentUrl.method \in Methods /\ CurrentUrl.responsename \in Names \cup {NoName}
  BY <1>5 DEF Url
<1> QED
  BY <1>5, <1>6 DEF CurReq, HasTemplate

LEMMA TypeInit == Init => TypeInv
<1> SUFFICES ASSUME Init PROVE TypeInv
  OBVIOUS
<1>1. NetInv
  BY DEF Init, NetInit, NetInv, NetTypeOK, Replying
<1>2. SocketInv
  <2>1. rbuf = <<>> /\ rbuf \in Seq(Piece)
    BY DEF Init, SocketInit
  <2>2. keepalive \in BOOLEAN /\ want \in BOOLEAN
    BY DEF Init, SocketInit
  <2> QED
    BY <2>1, <2>2 DEF SocketInv
<1>3. ScriptInv
  <2>1. Len(pipe) \in 0..PipeUnits
    <3>1. pipe = <<>> /\ Len(<<>>) = 0
      BY DEF Init, ScriptInit
    <3> QED
      BY <3>1, PipeAssumption
  <2>2. data \in Seq(Piece) /\ pipe \in Seq(Piece)
    BY DEF Init, ScriptInit
  <2> QED
    BY <2>1, <2>2 DEF Init, ScriptInit, ScriptInv, ScriptTypeOK
<1>4. ProfileInv
  <2>1. req \in Request(req.params)
    BY DEF Init, NoReq, Request
  <2>2. state \in [Names -> Stored]
    <3>1. PICK left \in SUBSET MayBeLeft :
            state = [n \in Names |-> IF n \in left THEN Value("left", 0) ELSE Unset]
      BY DEF Init
    <3>2. Value("left", 0) \in Stored /\ Unset \in Stored
      BY DEF Value, Unset, Stored
    <3> QED
      BY <3>1, <3>2
  <2>3. cur \in Reqs
    BY NetworkAssumption DEF Init, Reqs
  <2>4. latest \in [CookieNames -> Setting]
    <3>1. Never \in Setting
      BY NetworkAssumption DEF Never, Setting
    <3> QED
      BY <3>1 DEF Init
  <2> QED
    BY <2>1, <2>2, <2>3, <2>4 DEF Init, ProfileInv, Handlers
<1> QED
  BY <1>1, <1>2, <1>3, <1>4 DEF TypeInv

(* The server's steps. *)
LEMMA ServerTypes ==
    ASSUME NetInv, Server
    PROVE  NetInv'
<1> USE DEF NetInv, NetTypeOK, Replying
<1>1. CASE SrvReply
  <2>1. PICK p \in Reply : owed' = UnitsOf(inbox[1], p)
    BY <1>1 DEF SrvReply
  <2>2. inbox # <<>> /\ inbox[1] \in [id : Reqs, method : Methods]
    BY <1>1, QueueTail DEF SrvReply
  <2>3. owed' \in Seq(Unit)
    BY <2>1, <2>2, UnitsOfAnswer
  <2> QED
    BY <1>1, <2>3 DEF SrvReply
<1>2. CASE SrvSend
  <2>1. Head(owed) \in Unit /\ Tail(owed) \in Seq(Unit)
    BY <1>2 DEF SrvSend
  <2> QED
    BY <1>2, <2>1 DEF SrvSend
<1>3. CASE SrvDone
  <2>1. inbox # <<>> /\ Tail(inbox) \in Seq([id : Reqs, method : Methods])
    BY <1>3, QueueTail DEF SrvDone
  <2> QED
    BY <1>3, <2>1 DEF SrvDone
<1>4. CASE SrvIdleClose
  BY <1>4 DEF SrvIdleClose
<1>5. CASE SrvCrash
  BY <1>5 DEF SrvCrash
<1> QED
  BY <1>1, <1>2, <1>3, <1>4, <1>5 DEF Server, ServerWork

(* What a read appends, and what it leaves. *)
LEMMA ReadTypes ==
    ASSUME NetInv, NEW res \in ReadResults(BufUnits), ReadSocket(res)
    PROVE  NetInv' /\ Received(res) \in Seq(Piece)
<1>1. /\ UNCHANGED <<fd, inbox, owed>> /\ res.n \in Nat
      /\ srv' \in {srv, "closed"} /\ wire' \in Seq(Unit)
      /\ ReadData(res) \in Seq(Unit)
  <2>1. wire \in Seq(Unit) /\ BufUnits \in Nat \ {0}
    BY NetworkAssumption DEF NetInv, NetTypeOK
  <2>2. <<>> \in Seq(Unit)
    OBVIOUS
  <2> QED
    BY <2>1, <2>2, ReadEffect
<1>2. NetInv'
  BY <1>1 DEF NetInv, NetTypeOK, Replying
<1>3. ReadData(res) \in Seq(Piece)
  BY <1>1, SeqWidens DEF Piece
<1>4. [i \in 1..res.n |-> Junk] \in Seq(Piece)
  <2>1. Junk \in Piece
    BY DEF Piece
  <2> QED
    BY <1>1, <2>1
<1> QED
  BY <1>2, <1>3, <1>4 DEF Received

LEMMA SocketTypes ==
    ASSUME TypeInv, Socket
    PROVE  TypeInv'
<1>1. UNCHANGED <<scriptVars, profileVars>>
  BY DEF Socket
<1>2. ScriptInv'
  BY <1>1 DEF TypeInv, ScriptInv, ScriptTypeOK, scriptVars
<1>3. pc' \in Handlers => ProfileInv'
  BY <1>1 DEF TypeInv, ProfileInv, profileVars
<1>4. SUFFICES NetInv' /\ SocketInv' /\ pc' \in Handlers
  BY <1>2, <1>3 DEF TypeInv
<1>5. /\ NetInv /\ SocketInv
      /\ CurReq \in [id : Reqs, method : Methods] /\ req.want \in BOOLEAN
  BY UrlIs DEF TypeInv, ProfileInv, Request
<1>6. rbuf \in Seq(Piece) /\ <<>> \in Seq(Piece)
  BY <1>5 DEF SocketInv
<1>7. CASE BeginConn
  <2>1. NetInv' /\ pc' \in Handlers
    BY <1>7 DEF BeginConn, OpenSocket, NetInv, NetTypeOK, Replying, Handlers, Connected
  <2>2. SocketInv'
    BY <1>5, <1>7 DEF BeginConn, Persistent, SocketInv
  <2> QED
    BY <2>1, <2>2
<1>8. CASE BeginRefused
  BY <1>5, <1>8 DEF BeginRefused, netVars, socketVars, NetInv, NetTypeOK, Replying, SocketInv, Handlers
<1>9. CASE SendReq(CurReq, req.want)
  <2>1. inbox \in Seq([id : Reqs, method : Methods])
    BY <1>5 DEF NetInv, NetTypeOK
  <2>2. /\ inbox' \in Seq([id : Reqs, method : Methods]) /\ UNCHANGED <<fd, srv, owed, wire>>
        /\ srv # "closed" => inbox' # <<>>
    <3>1. /\ Append(inbox, CurReq) \in Seq([id : Reqs, method : Methods])
          /\ Append(inbox, CurReq) # <<>> /\ <<>> \in Seq([id : Reqs, method : Methods])
      BY <1>5, <2>1, AppendProperties
    <3> QED
      BY <1>9, <3>1 DEF SendReq, WriteSocket
  <2>3. NetInv'
    BY <1>5, <2>2 DEF NetInv, NetTypeOK, Replying
  <2> QED
    BY <1>5, <1>9, <2>3 DEF SendReq, SocketInv, Handlers, Connected
<1>10. CASE SendFails(req.want)
  BY <1>5, <1>10 DEF SendFails, netVars, NetInv, NetTypeOK, Replying, SocketInv, Handlers
<1>11. CASE RecvStart(full)
  <2>1. pc' \in Handlers
    BY <1>11 DEF RecvStart, Handlers, Connected
  <2> QED
    BY <1>5, <1>6, <1>11, <2>1 DEF RecvStart, netVars, NetInv, NetTypeOK, Replying, SocketInv
<1>12. CASE Load
  <2>1. PICK res \in ReadResults(BufUnits) :
          /\ ReadSocket(res) /\ rbuf' = rbuf \o Received(res)
          /\ pc' = IF Stops(res.st) THEN "post" ELSE "load"
    BY <1>12 DEF Load
  <2>2. NetInv' /\ Received(res) \in Seq(Piece)
    BY <1>5, <2>1, ReadTypes
  <2>3. rbuf' \in Seq(Piece)
    BY <1>6, <2>1, <2>2, ConcatProperties
  <2> QED
    BY <1>5, <1>12, <2>1, <2>2, <2>3 DEF Load, SocketInv, Handlers, Connected
<1>13. CASE First
  <2>1. PICK res \in ReadResults(BufUnits) :
          ReadSocket(res) /\ rbuf' = Received(res) /\ pc' = After(res.st)
    BY <1>13 DEF First
  <2>2. NetInv' /\ rbuf' \in Seq(Piece)
    BY <1>5, <2>1, ReadTypes
  <2> QED
    BY <1>5, <1>13, <2>1, <2>2 DEF First, After, SocketInv, Handlers, Connected
<1>14. CASE Drain
  <2>1. PICK res \in ReadResults(BufUnits) : ReadSocket(res) /\ pc' = After(res.st)
    BY <1>14 DEF Drain
  <2>2. NetInv'
    BY <1>5, <2>1, ReadTypes
  <2> QED
    BY <1>5, <1>14, <2>1, <2>2 DEF Drain, After, socketVars, SocketInv, Handlers, Connected
<1>15. CASE EndConn
  BY <1>5, <1>15 DEF EndConn, CloseSocket, socketVars, NetInv, NetTypeOK, Replying, SocketInv, Handlers
<1>16. \/ BeginConn \/ BeginRefused \/ SendReq(CurReq, req.want) \/ SendFails(req.want)
       \/ RecvStart(full) \/ Load \/ First \/ Drain \/ EndConn
  BY DEF Socket, RecvResp, CurReq
<1> QED
  BY <1>7, <1>8, <1>9, <1>10, <1>11, <1>12, <1>13, <1>14, <1>15, <1>16

(* The script and its pipe. *)
LEMMA FeedTypes ==
    ASSUME ScriptInv, rbuf \in Seq(Piece),
           Spawn(rbuf) \/ Spawn(Append(rbuf, Junk)) \/ SpawnFails \/ Feed \/ Script
    PROVE  ScriptInv'
<1> USE DEF ScriptInv, ScriptTypeOK
<1>1. Junk \in Piece /\ <<>> \in Seq(Piece) /\ PipeUnits \in Nat \ {0} /\ Len(<<>>) = 0
  BY PipeAssumption DEF Piece
<1>2. CASE Spawn(rbuf) \/ Spawn(Append(rbuf, Junk))
  <2>1. Append(rbuf, Junk) \in Seq(Piece)
    BY <1>1, AppendProperties
  <2>2. data' \in Seq(Piece) /\ pipe' = <<>>
    BY <1>2, <2>1 DEF Spawn
  <2>3. Len(pipe') \in 0..PipeUnits
    BY <1>1, <2>2
  <2>4. at' = "write" /\ proc' = "running" /\ stdin' = TRUE /\ wbytes' = 0 /\ code' = 0
    BY <1>2 DEF Spawn
  <2>5. stdin' \in BOOLEAN
    BY <2>4
  <2>6. pipe' \in Seq(Piece) /\ wbytes' \in Nat
    BY <1>1, <2>2, <2>4
  <2> QED
    BY <2>2, <2>3, <2>4, <2>5, <2>6
<1>3. CASE SpawnFails
  BY <1>3 DEF SpawnFails
<1>4. CASE Write
  <2>1. /\ Len(pipe) \in 0..PipeUnits /\ Len(pipe) < PipeUnits
        /\ Len(data) \in Nat
    BY <1>4 DEF Write, Writable
  <2>2. Fits \in 0..Len(data) /\ Len(pipe) + Fits <= PipeUnits
    BY <1>1, <2>1 DEF Fits
  <2>3. SubSeq(data, 1, Fits) \in Seq(Piece) /\ Len(SubSeq(data, 1, Fits)) = Fits
    BY <2>1, <2>2
  <2>4. PICK more : more = SubSeq(data, 1, Fits)
    OBVIOUS
  <2>5. more \in Seq(Piece) /\ Len(more) = Fits /\ pipe' = pipe \o more
    BY <1>4, <2>3, <2>4 DEF Write
  <2>6. pipe' \in Seq(Piece) /\ Len(pipe') = Len(pipe) + Fits
    BY <2>5, ConcatProperties
  <2>7. Len(pipe') \in 0..PipeUnits /\ wbytes' \in Nat
    BY <1>1, <1>4, <2>1, <2>2, <2>6 DEF Write
  <2> QED
    BY <1>4, <2>6, <2>7 DEF Write
<1>5. CASE WriteKills
  BY <1>5 DEF WriteKills
<1>6. CASE PollTimesOut
  BY <1>6 DEF PollTimesOut
<1>7. CASE CloseStdin
  BY <1>7 DEF CloseStdin, InputEnds
<1>8. CASE Wait
  BY <1>8 DEF Wait, Verdict
<1>9. CASE Reads
  <2>1. pipe # <<>> /\ pipe' = Tail(pipe)
    BY <1>9 DEF Reads
  <2>2. pipe' \in Seq(Piece) /\ Len(pipe') = Len(pipe) - 1 /\ Len(pipe) \in Nat \ {0}
    BY <2>1, HeadTailProperties
  <2>3. Len(pipe') \in 0..PipeUnits
    BY <1>1, <2>2
  <2> QED
    BY <1>9, <2>2, <2>3 DEF Reads
<1>10. CASE Exits \/ Quits
  BY <1>10 DEF Exits, Quits
<1>11. \/ Spawn(rbuf) \/ Spawn(Append(rbuf, Junk)) \/ SpawnFails \/ Write \/ WriteKills
       \/ PollTimesOut \/ CloseStdin \/ Wait \/ Reads \/ Exits \/ Quits
  BY DEF Feed, Script
<1> QED
  BY <1>2, <1>3, <1>4, <1>5, <1>6, <1>7, <1>8, <1>9, <1>10, <1>11

(* What postprocess takes from a response that sets these cookies. *)
FindCookieOf(lines) ==
    /\ latest' = [n \in CookieNames |->
                     IF \E k \in DOMAIN lines : lines[k] = n
                     THEN [from |-> cur, first |-> \A k \in DOMAIN lines : lines[k] = n => k = 1]
                     ELSE latest[n]]
    /\ lines # <<>> => cookie' = Joined([name |-> lines[1], value |-> cur])
    /\ lines = <<>> =>
         \/ cookie' = cookie
         \/ \E n \in CookieNames : cookie' = Joined([name |-> n, value |-> Stray])

LEMMA FindCookieIs ==
    ASSUME FindCookie
    PROVE  \E lines \in SetCookies : FindCookieOf(lines)
  BY DEF FindCookie, FindCookieOf

LEMMA CookieTypes ==
    ASSUME ProfileInv, FindCookie
    PROVE  cookie' \in Seq(Cookie) /\ latest' \in [CookieNames -> Setting]
<1>1. PICK lines \in SetCookies : FindCookieOf(lines)
  BY FindCookieIs
<1>2. lines \in Seq(CookieNames) /\ cur \in 0..NumReqs /\ NumReqs \in Nat /\ cookie \in Seq(Cookie)
  BY TransactionAssumption, NetworkAssumption DEF ProfileInv, Reqs
<1>3. ASSUME NEW c \in Cookie, cookie' = Joined(c) PROVE cookie' \in Seq(Cookie)
  <2>1. <<c>> \in Seq(Cookie) /\ cookie' = <<c>> \o cookie
    BY <1>3 DEF Joined
  <2> QED
    BY <1>2, <2>1, ConcatProperties
<1>4. cookie' \in Seq(Cookie)
  <2>1. CASE lines # <<>>
    <3>1. lines[1] \in CookieNames
      BY <1>2, <2>1
    <3> QED
      BY <1>1, <1>2, <1>3, <2>1, <3>1 DEF FindCookieOf, Cookie
  <2>2. CASE lines = <<>>
    <3>1. \A n \in CookieNames : [name |-> n, value |-> Stray] \in Cookie
      BY <1>2 DEF Cookie, Stray
    <3> QED
      BY <1>1, <1>2, <1>3, <2>2, <3>1 DEF FindCookieOf
  <2> QED
    BY <2>1, <2>2
<1>5. latest' \in [CookieNames -> Setting]
  <2>1. \A n \in CookieNames :
          [from |-> cur, first |-> \A k \in DOMAIN lines : lines[k] = n => k = 1] \in Setting
    BY <1>2 DEF Setting
  <2>2. \A n \in CookieNames : latest[n] \in Setting
    BY DEF ProfileInv
  <2> QED
    BY <1>1, <2>1, <2>2 DEF FindCookieOf
<1> QED
  BY <1>4, <1>5

(* What its template makes of the state. *)
LEMMA MatchCases ==
    ASSUME ProfileInv, MatchTemplate
    PROVE  /\ pc' \in {"script", "end", "failed", "crashed", "exited"}
           /\ pc' = "end" => ~CurrentUrl.script
           /\ \/ UNCHANGED state
              \/ /\ HasTemplate(CurrentUrl) /\ CurrentUrl.responsename \in Names
                 /\ \E v \in {Value("resp", cur), Value("stray", 0)} :
                       state' = [state EXCEPT ![CurrentUrl.responsename] = v]
           /\ HasTemplate(CurrentUrl) /\ Matches =>
                pc' \in {"crashed", "exited"} \/ state'[CurrentUrl.responsename] = Value("resp", cur)
<1>1. /\ CurrentUrl \in Url /\ cur \in Nat /\ state \in [Names -> Stored]
      /\ HasTemplate(CurrentUrl) => CurrentUrl.responsename \in Names
  BY UrlIs, NetworkAssumption DEF ProfileInv, Reqs
<1>2. AfterMatch \in {"script", "end"} /\ (AfterMatch = "end" => ~CurrentUrl.script)
  BY DEF AfterMatch
<1>3. CASE ~HasTemplate(CurrentUrl)
  BY <1>2, <1>3 DEF MatchTemplate
<1>4. CASE HasTemplate(CurrentUrl)
  <2>1. PICK t : t = CurrentUrl.template
    OBVIOUS
  <2>2. t \in Seq(Token)
    BY <1>1, <2>1 DEF Url
  <2>3. PICK offsets \in Draws(t), v \in Matched :
          LET end == Expand(t, state, FALSE, cur, offsets).end
          IN  IF end = "ok" /\ v # Unset
              THEN /\ state' = [state EXCEPT ![CurrentUrl.responsename] = v]
                   /\ pc' = AfterMatch
              ELSE /\ UNCHANGED state
                   /\ pc' = IF end = "ok" THEN "failed" ELSE end
    BY <1>4, <2>1 DEF MatchTemplate
  <2>4. PICK end : end = Expand(t, state, FALSE, cur, offsets).end
    OBVIOUS
  <2>5. end \in Ends
    BY <1>1, <2>2, <2>4, ExpandFills DEF Prefix, Shaped
  <2>6. v \in {Value("resp", cur), Value("stray", 0), Unset}
    BY DEF Matched
  <2>7. Matches => v = Value("resp", cur) /\ v # Unset
    BY DEF Matched, Value, Unset
  <2>8. CASE end = "ok" /\ v # Unset
    <3>1. state' = [state EXCEPT ![CurrentUrl.responsename] = v] /\ pc' = AfterMatch
      BY <2>3, <2>4, <2>8
    <3>2. state'[CurrentUrl.responsename] = v
      BY <1>1, <1>4, <3>1
    <3> QED
      BY <1>1, <1>2, <1>4, <2>6, <2>7, <2>8, <3>1, <3>2
  <2>9. CASE ~(end = "ok" /\ v # Unset)
    <3>1. UNCHANGED state /\ pc' = IF end = "ok" THEN "failed" ELSE end
      BY <2>3, <2>4, <2>9
    <3> QED
      BY <2>5, <2>7, <2>9, <3>1 DEF Ends
  <2> QED
    BY <2>8, <2>9
<1> QED
  BY <1>3, <1>4

(* What get_next_url makes of the templates. *)
LEMMA NextUrlIs ==
    ASSUME ProfileInv, GetNextUrl
    PROVE  /\ pc = "next" /\ UNCHANGED <<netVars, socketVars, scriptVars, urls, full, cur, cookie, latest>>
           /\ \E t, e : /\ t \in Seq(Token) /\ Prefix(t, state, cur, e, Len(t))
                        /\ state' = e.state /\ pc' \in {"begin", "crashed", "exited"}
                        /\ req' = [params |-> e.values, cookies |-> <<>>, want |-> FALSE,
                                   close |-> FALSE]
<1>1. CurrentUrl \in Url /\ cur \in Nat /\ state \in [Names -> Stored]
  BY UrlIs, NetworkAssumption DEF ProfileInv, Reqs
<1>2. PICK t : t = Templates(CurrentUrl)
  OBVIOUS
<1>3. t \in Seq(Token)
  BY <1>1, <1>2, ConcatProperties DEF Templates, Url
<1>4. PICK offsets \in Draws(t) :
        LET e == Expand(t, state, TRUE, cur, offsets)
        IN  /\ state' = e.state
            /\ req' = [NoReq EXCEPT !.params = e.values]
            /\ pc' = IF e.end = "ok" THEN "begin" ELSE e.end
  BY <1>2 DEF GetNextUrl
<1>5. PICK e : e = Expand(t, state, TRUE, cur, offsets)
  OBVIOUS
<1>6. Prefix(t, state, cur, e, Len(t)) /\ e.end \in Ends
  <2>1. Prefix(t, state, cur, e, Len(t))
    <3>1. Prefix(t, state, cur, Expand(t, state, TRUE, cur, offsets), Len(t))
      BY <1>1, <1>3, ExpandFills
    <3> QED
      BY <1>5, <3>1
  <2> QED
    BY <2>1 DEF Prefix, Shaped
<1>7. /\ state' = e.state /\ req' = [NoReq EXCEPT !.params = e.values]
      /\ pc' = IF e.end = "ok" THEN "begin" ELSE e.end
  BY <1>4, <1>5
<1>8. req' = [params |-> e.values, cookies |-> <<>>, want |-> FALSE, close |-> FALSE]
  BY <1>7 DEF NoReq
<1>9. pc' \in {"begin", "crashed", "exited"}
  BY <1>6, <1>7 DEF Ends
<1>10. pc = "next" /\ UNCHANGED <<netVars, socketVars, scriptVars, urls, full, cur, cookie, latest>>
  BY DEF GetNextUrl
<1> QED
  BY <1>3, <1>6, <1>7, <1>8, <1>9, <1>10

LEMMA ProfileTypes ==
    ASSUME ProfileInv,
           GetNextUrl \/ CreateReq \/ CreateFails \/ Postprocess \/ SearchCrashes
             \/ ScriptDone \/ Loop
    PROVE  ProfileInv'
<1>1. CASE GetNextUrl
  <2>1. PICK t, e : /\ t \in Seq(Token) /\ Prefix(t, state, cur, e, Len(t))
                    /\ state' = e.state /\ pc' \in {"begin", "crashed", "exited"}
                    /\ req' = [params |-> e.values, cookies |-> <<>>, want |-> FALSE,
                               close |-> FALSE]
    BY <1>1, NextUrlIs
  <2>2. state' \in [Names -> Stored]
    BY <2>1 DEF Prefix, Shaped
  <2>3. <<>> \in Seq(Cookie)
    OBVIOUS
  <2>4. req' \in Request(req'.params)
    BY <2>1, <2>3 DEF Request
  <2> QED
    BY <1>1, <2>1, <2>2, <2>4, NextUrlIs DEF ProfileInv, Handlers
<1>2. req = [params |-> req.params, cookies |-> req.cookies, want |-> req.want, close |-> req.close]
      /\ req.cookies \in Seq(Cookie) /\ req.want \in BOOLEAN /\ req.close \in BOOLEAN
  BY DEF ProfileInv, Request
<1>3. CASE CreateReq
  <2>1. req' = [params |-> req.params, cookies |-> cookie, want |-> WantResponse(CurrentUrl),
                close |-> ~keepalive]
    BY <1>2, <1>3 DEF CreateReq
  <2>2. WantResponse(CurrentUrl) \in BOOLEAN /\ (~keepalive) \in BOOLEAN
    BY DEF WantResponse, HasTemplate
  <2>3. req' \in Request(req'.params)
    BY <2>1, <2>2 DEF ProfileInv, Request
  <2> QED
    BY <1>3, <2>3 DEF CreateReq, ProfileInv, Handlers, Connected
<1>4. CASE CreateFails
  <2>1. req' = [params |-> req.params, cookies |-> req.cookies, want |-> WantResponse(CurrentUrl),
                close |-> req.close]
    BY <1>2, <1>4 DEF CreateFails
  <2>2. WantResponse(CurrentUrl) \in BOOLEAN
    BY DEF WantResponse, HasTemplate
  <2>3. req' \in Request(req'.params)
    BY <1>2, <2>1, <2>2 DEF Request
  <2> QED
    BY <1>4, <2>3 DEF CreateFails, ProfileInv, Handlers
<1>5. CASE Postprocess
  <2>1. cookie' \in Seq(Cookie) /\ latest' \in [CookieNames -> Setting]
    BY <1>5, CookieTypes DEF Postprocess
  <2>2. /\ pc' \in {"script", "end", "failed", "crashed", "exited"}
        /\ \/ UNCHANGED state
           \/ /\ CurrentUrl.responsename \in Names
              /\ \E v \in {Value("resp", cur), Value("stray", 0)} :
                    state' = [state EXCEPT ![CurrentUrl.responsename] = v]
    BY <1>5, MatchCases DEF Postprocess
  <2>3. Value("resp", cur) \in Stored /\ Value("stray", 0) \in Stored
    BY NetworkAssumption DEF Value, Stored, ProfileInv, Reqs
  <2>4. state' \in [Names -> Stored]
    BY <2>2, <2>3 DEF ProfileInv
  <2>5. pc' \in Handlers
    BY <2>2 DEF Handlers, Connected
  <2> QED
    BY <1>5, <2>1, <2>4, <2>5 DEF Postprocess, ProfileInv
<1>6. CASE ScriptDone
  BY <1>6 DEF ScriptDone, profileVars, ProfileInv, Handlers, Connected
<1>7. CASE SearchCrashes
  BY <1>7 DEF SearchCrashes, profileVars, ProfileInv, Handlers
<1>8. CASE Loop
  <2>1. cur' \in Reqs
    BY <1>8, NetworkAssumption DEF Loop, ProfileInv, Reqs
  <2> QED
    BY <1>8, <2>1 DEF Loop, ProfileInv, Handlers
<1> QED
  BY <1>1, <1>3, <1>4, <1>5, <1>6, <1>7, <1>8

LEMMA TypeStep == TypeInv /\ [Next]_vars => TypeInv'
<1> SUFFICES ASSUME TypeInv, [Next]_vars PROVE TypeInv'
  OBVIOUS
<1>1. NetInv /\ SocketInv /\ ScriptInv /\ ProfileInv /\ rbuf \in Seq(Piece)
  BY DEF TypeInv, SocketInv
<1>2. UNCHANGED netVars => NetInv'
  BY <1>1 DEF netVars, NetInv, NetTypeOK, Replying
<1>3. UNCHANGED socketVars => SocketInv'
  BY <1>1 DEF socketVars, SocketInv
<1>4. UNCHANGED scriptVars => ScriptInv'
  BY <1>1 DEF scriptVars, ScriptInv, ScriptTypeOK
<1>5. UNCHANGED <<pc, profileVars>> => ProfileInv'
  BY <1>1 DEF profileVars, ProfileInv
<1>6. CASE GetNextUrl \/ CreateReq \/ CreateFails \/ Postprocess \/ SearchCrashes \/ Loop
  <2>1. UNCHANGED <<netVars, socketVars, scriptVars>>
    BY <1>6 DEF GetNextUrl, CreateReq, CreateFails, Postprocess, SearchCrashes, Loop
  <2> QED
    BY <1>1, <1>2, <1>3, <1>4, <1>6, <2>1, ProfileTypes DEF TypeInv
<1>7. CASE Socket
  BY <1>7, SocketTypes
<1>8. CASE ScriptDone
  <2>1. UNCHANGED <<netVars, socketVars, data, proc, code, stdin, pipe, wbytes, heard>> /\ at' = "idle"
    BY <1>8 DEF ScriptDone
  <2>2. ScriptInv'
    BY <1>1, <2>1 DEF ScriptInv, ScriptTypeOK
  <2> QED
    BY <1>1, <1>2, <1>3, <1>8, <2>1, <2>2, ProfileTypes DEF TypeInv
<1>9. CASE StartScript \/ FeedScript \/ Child
  <2>1. UNCHANGED <<netVars, pc, socketVars, profileVars>>
    BY <1>9 DEF StartScript, FeedScript, Child
  <2>2. ScriptInv'
    BY <1>1, <1>9, FeedTypes DEF StartScript, FeedScript, Child
  <2> QED
    BY <1>2, <1>3, <1>5, <2>1, <2>2 DEF TypeInv
<1>10. CASE Works \/ Interferes
  <2>1. Server /\ UNCHANGED <<pc, socketVars, scriptVars, profileVars>>
    BY <1>10 DEF Works, Interferes, Replies, Server, ServerWork
  <2> QED
    BY <1>1, <1>3, <1>4, <1>5, <2>1, ServerTypes DEF TypeInv
<1>11. CASE UNCHANGED vars
  BY <1>2, <1>3, <1>4, <1>5, <1>11 DEF TypeInv, vars
<1> QED
  BY <1>6, <1>7, <1>8, <1>9, <1>10, <1>11 DEF Next, Client, Stopped

LEMMA Typed == Spec => []TypeInv
  BY TypeInit, TypeStep, PTL DEF Spec

(* Every variable of a run keeps its type, for any number of requests and   *)
(* cookies, any urllists and templates: get_next_url, create_req, the       *)
(* socket, postprocess and the script.                                      *)
THEOREM TypeCorrect == Spec => []TypeOK
<1>1. TypeInv => TypeOK
  <2> SUFFICES ASSUME TypeInv PROVE TypeOK
    OBVIOUS
  <2>1. NetTypeOK /\ SocketTypeOK /\ ScriptTypeOK
    BY DEF TypeInv, NetInv, SocketInv, SocketTypeOK, ScriptInv, Piece
  <2>2. req.cookies \in Seq(Cookie)
    BY DEF TypeInv, ProfileInv, Request
  <2>3. \A n \in Names : state[n].from \in Origin
    BY DEF TypeInv, ProfileInv, Stored, Origin
  <2> QED
    BY <2>1, <2>2, <2>3 DEF TypeInv, ProfileInv, TypeOK, Handlers
<1> QED
  BY <1>1, Typed, PTL

-----------------------------------------------------------------------------
(* The answer comes. *)

LEMMA ConnSocket ==
    ASSUME TypeInv, ConnInv, Socket
    PROVE  ConnInv'
<1> USE DEF ConnInv, Reading, Leaves, Connected
<1>1. UNCHANGED req
  BY DEF Socket, profileVars
<1>2. CASE BeginConn \/ BeginRefused
  BY <1>1, <1>2 DEF BeginConn, OpenSocket, Persistent, BeginRefused
<1>3. CASE SendReq(CurReq, req.want)
  <2>1. /\ pc = "send" /\ pc' = "recv" /\ UNCHANGED <<fd, srv, owed, wire>>
        /\ inbox' = IF srv = "closed" THEN <<>> ELSE Append(inbox, CurReq)
    BY <1>3 DEF SendReq, WriteSocket
  <2>2. Append(inbox, CurReq) # <<>>
    <3>1. inbox \in Seq([id : Reqs, method : Methods]) /\ CurReq \in [id : Reqs, method : Methods]
      BY UrlIs DEF TypeInv, NetInv, NetTypeOK, ProfileInv
    <3> QED
      BY <3>1, AppendProperties
  <2> QED
    BY <1>1, <2>1, <2>2
<1>4. CASE SendFails(req.want)
  BY <1>4 DEF SendFails
<1>5. CASE RecvStart(full)
  BY <1>1, <1>5 DEF RecvStart, netVars
<1>6. CASE Load \/ First \/ Drain
  <2>1. pc \in {"load", "first", "drain"} /\ pc' \in {"load", "drain", "post", "failed"}
    BY <1>6 DEF Load, First, Drain, After
  <2>2. PICK res \in ReadResults(BufUnits) : ReadSocket(res)
    BY <1>6 DEF Load, First, Drain
  <2>3. UNCHANGED inbox /\ srv' = IF res.st = "ECONNRESET" THEN "closed" ELSE srv
    BY <2>2 DEF ReadSocket
  <2> QED
    BY <1>1, <2>1, <2>3
<1>7. CASE EndConn
  BY <1>7 DEF EndConn, CloseSocket
<1>8. \/ BeginConn \/ BeginRefused \/ SendReq(CurReq, req.want) \/ SendFails(req.want)
      \/ RecvStart(full) \/ Load \/ First \/ Drain \/ EndConn
  BY DEF Socket, RecvResp, CurReq
<1> QED
  BY <1>2, <1>3, <1>4, <1>5, <1>6, <1>7, <1>8

LEMMA ConnServer ==
    ASSUME TypeInv, ConnInv, Works \/ Interferes
    PROVE  ConnInv'
<1> USE DEF ConnInv, Reading, Leaves, Connected
<1>1. UNCHANGED <<pc, keepalive, req>>
  BY DEF Works, Interferes, socketVars, profileVars
<1>2. CASE Replies
  <2>1. SrvReply /\ owed'[1].reply.close = req.close /\ srv = "idle" /\ inbox # <<>>
        /\ UNCHANGED <<fd, inbox, wire>>
    BY <1>2 DEF Replies, SrvReply
  <2>2. PICK p \in Reply : /\ owed' = UnitsOf(inbox[1], p)
                           /\ srv' = IF ClosesAfter(inbox[1], p) THEN "closing" ELSE "replying"
    BY <2>1 DEF SrvReply
  <2>3. inbox[1] \in [id : Reqs, method : Methods]
    BY <2>1, QueueTail DEF TypeInv, NetInv, NetTypeOK
  <2>4. owed'[1].reply = p
    BY <2>2, <2>3, UnitsOfAnswer DEF Starts
  <2>5. req.close => srv' = "closing"
    BY <2>1, <2>2, <2>4 DEF ClosesAfter
  <2> QED
    BY <1>1, <2>1, <2>5
<1>3. CASE SrvSend
  BY <1>1, <1>3 DEF SrvSend, Replying
<1>4. CASE SrvDone
  BY <1>1, <1>4 DEF SrvDone, Replying
<1>5. CASE SrvIdleClose
  BY <1>1, <1>5 DEF SrvIdleClose
<1>6. CASE SrvCrash
  BY <1>1, <1>6 DEF SrvCrash, Replying
<1> QED
  BY <1>2, <1>3, <1>4, <1>5, <1>6 DEF Works, Interferes

LEMMA ConnStep == TypeInv /\ ConnInv /\ [Next]_vars => ConnInv'
<1> SUFFICES ASSUME TypeInv, ConnInv, [Next]_vars PROVE ConnInv'
  OBVIOUS
<1>1. CASE Socket
  BY <1>1, ConnSocket
<1>2. CASE Works \/ Interferes
  BY <1>2, ConnServer
<1>3. CASE StartScript \/ FeedScript \/ Child \/ UNCHANGED vars
  BY <1>3 DEF StartScript, FeedScript, Child, vars, netVars, socketVars, profileVars, ConnInv, Reading,
     Leaves
<1>4. CASE GetNextUrl
  BY <1>4, NextUrlIs DEF netVars, TypeInv, ConnInv, Reading
<1>5. CASE CreateReq
  <2>1. req'.close
    BY <1>5 DEF CreateReq, ConnInv, TypeInv, ProfileInv, Request
  <2> QED
    BY <1>5, <2>1 DEF CreateReq, ConnInv, netVars, Reading
<1>6. CASE Postprocess
  BY <1>6, MatchCases DEF Postprocess, TypeInv, ConnInv, netVars, Reading
<1>7. CASE CreateFails \/ SearchCrashes \/ ScriptDone \/ Loop
  BY <1>7 DEF CreateFails, SearchCrashes, ScriptDone, Loop, netVars, profileVars, ConnInv, Reading
<1> QED
  BY <1>1, <1>2, <1>3, <1>4, <1>5, <1>6, <1>7 DEF Next, Client, Stopped

LEMMA ConnHolds == Spec => []ConnInv
<1>1. Init => ConnInv
  BY DEF Init, NetInit, ConnInv, Reading
<1> QED
  BY <1>1, Typed, ConnStep, PTL DEF Spec

(* generic_recv_resp reads until the server has closed the connection; it   *)
(* never reads from a server that has nothing left to do, because each      *)
(* request of begin_conn and create_req asks for the close, whatever        *)
(* becomes of the server.                                                   *)
THEOREM Answers == Spec => []AnswerComes
<1>1. ConnInv => AnswerComes
  BY DEF ConnInv, Reading, Leaves, AnswerComes, Quiet
<1> QED
  BY <1>1, ConnHolds, PTL

-----------------------------------------------------------------------------
(* The variables. *)

(* ParamsAgree, of any values; those of a filled template are such. *)
Agree(values) ==
    \A i, j \in 1..Len(values) :
       LET p == values[i]
           q == values[j]
       IN  i < j /\ p.token.name = q.token.name /\ q.value.from \notin {"line", "cutline"} =>
             (p.value = q.value) =
               (\A k \in (i + 1)..j : values[k].token # [kind |-> "set", name |-> p.token.name])

LEMMA FilledAgree ==
    ASSUME NEW t, NEW st \in [Names -> Stored], NEW id \in Nat,
           \A n \in Names : st[n].from = "rand" => st[n].id < id,
           NEW values, Len(values) \in Nat, FilledAll(t, st, id, values),
           \A k \in 1..Len(values) : t[k].name \in Names
    PROVE  Agree(values)
<1> SUFFICES ASSUME NEW i \in 1..Len(values), NEW j \in 1..Len(values), i < j,
                    values[i].token.name = values[j].token.name,
                    values[j].value.from \notin {"line", "cutline"}
             PROVE  (values[i].value = values[j].value) =
                      (\A k \in (i + 1)..j :
                          values[k].token # [kind |-> "set", name |-> values[i].token.name])
  BY DEF Agree
<1>1. PICK n \in Names : n = t[i].name
  OBVIOUS
<1>2. values[i].token.name = n /\ t[j].name = n
  BY <1>1 DEF FilledAll
<1>3. Filled(t, st, id, i, values[i].value) /\ Filled(t, st, id, j, values[j].value)
  BY DEF FilledAll
<1>4. i \in Nat \ {0} /\ j \in Nat
  OBVIOUS
<1>5. (values[i].value = values[j].value) = NoSet(t, n, i + 1, j)
  BY <1>1, <1>2, <1>3, <1>4, ValuesAgree DEF LineOrigin
<1>6. \A k \in (i + 1)..j : values[k].token = t[k]
  BY <1>4 DEF FilledAll
<1>7. NoSet(t, n, i + 1, j) = (\A k \in (i + 1)..j : values[k].token # [kind |-> "set", name |-> n])
  BY <1>6 DEF NoSet, SetToken
<1> QED
  BY <1>2, <1>5, <1>7

LEMMA ParamsStep == TypeInv /\ ParamsInv /\ [Next]_vars => ParamsInv'
<1> SUFFICES ASSUME TypeInv, ParamsInv, [Next]_vars PROVE ParamsInv'
  OBVIOUS
<1>1. /\ state \in [Names -> Stored] /\ cur \in Nat
      /\ \A n \in Names : state[n].from = "rand" =>
            state[n].id <= cur /\ (pc = "next" => state[n].id < cur)
  BY NetworkAssumption DEF TypeInv, ProfileInv, Reqs, ParamsInv
<1>2. \A n \in Names : state[n].id \in Nat
  BY <1>1 DEF Stored
<1>3. CASE GetNextUrl
  <2>1. PICK t, e : /\ t \in Seq(Token) /\ Prefix(t, state, cur, e, Len(t)) /\ state' = e.state
                    /\ pc' \in {"begin", "crashed", "exited"}
                    /\ req' = [params |-> e.values, cookies |-> <<>>, want |-> FALSE,
                               close |-> FALSE]
    BY <1>3, NextUrlIs DEF TypeInv
  <2>2. pc = "next" /\ cur' = cur /\ req'.params = e.values
    BY <1>3, <2>1, NextUrlIs DEF TypeInv
  <2>3. \A n \in Names : state[n].from = "rand" => state[n].id < cur
    BY <1>1, <2>2
  <2>4. /\ FilledAll(t, state, cur, e.values) /\ Len(e.values) \in 0..Len(t)
        /\ \A n \in Names : e.state[n] = state[n] \/ (e.state[n].from = "rand" /\ e.state[n].id = cur)
        /\ \E V : e.values \in Seq(V)
    BY <2>1 DEF Prefix, Shaped
  <2>5. Len(e.values) \in Nat
    BY <2>4
  <2>6. \A k \in 1..Len(e.values) : t[k].name \in Names
    <3>1. \A k \in 1..Len(t) : t[k] \in Token
      BY <2>1
    <3>2. \A k \in 1..Len(e.values) : k \in 1..Len(t)
      BY <2>1, <2>4
    <3> QED
      BY <3>1, <3>2 DEF Token
  <2>7. PICK values : values = e.values
    OBVIOUS
  <2>8. ParamsAgree'
    <3>1. PICK st : st = state
      OBVIOUS
    <3>2. /\ st \in [Names -> Stored] /\ \A n \in Names : st[n].from = "rand" => st[n].id < cur
          /\ FilledAll(t, st, cur, values) /\ Len(values) \in Nat
          /\ \A k \in 1..Len(values) : t[k].name \in Names
      BY <1>1, <2>3, <2>4, <2>5, <2>6, <2>7, <3>1
    <3>3. Agree(values)
      BY <1>1, <3>2, FilledAgree
    <3>4. req'.params = values
      BY <2>2, <2>7
    <3>5. Agree(req'.params)
      BY <3>3, <3>4
    <3> QED
      BY <3>5 DEF Agree, ParamsAgree
  <2>9. \A n \in Names : state'[n].from = "rand" => state'[n].id <= cur
    BY <1>1, <1>2, <2>1, <2>4
  <2> QED
    BY <2>1, <2>2, <2>8, <2>9 DEF ParamsInv
<1>4. req'.params = req.params => ParamsAgree'
  <2>1. Agree(req.params)
    BY DEF ParamsInv, ParamsAgree, Agree
  <2>2. req'.params = req.params => Agree(req'.params)
    BY <2>1
  <2> QED
    BY <2>2 DEF ParamsAgree, Agree
<1>5. /\ req = [params |-> req.params, cookies |-> req.cookies, want |-> req.want,
                close |-> req.close]
  BY DEF TypeInv, ProfileInv, Request
<1>6. CASE CreateReq \/ CreateFails
  <2>1. req'.params = req.params
    BY <1>5, <1>6 DEF CreateReq, CreateFails
  <2>2. UNCHANGED <<state, cur>> /\ pc' # "next"
    BY <1>6 DEF CreateReq, CreateFails
  <2> QED
    BY <1>1, <1>4, <2>1, <2>2 DEF ParamsInv
<1>7. CASE Postprocess
  <2>1. UNCHANGED <<req, cur>> /\ pc' # "next"
    BY <1>7, MatchCases DEF Postprocess, TypeInv
  <2>2. \/ UNCHANGED state
        \/ /\ CurrentUrl.responsename \in Names
           /\ \E v \in {Value("resp", cur), Value("stray", 0)} :
                 state' = [state EXCEPT ![CurrentUrl.responsename] = v]
    BY <1>7, MatchCases DEF Postprocess, TypeInv
  <2>3. Value("resp", cur).from # "rand" /\ Value("stray", 0).from # "rand"
    BY DEF Value
  <2>4. \A n \in Names : state'[n] = state[n] \/ state'[n].from # "rand"
    BY <1>1, <2>2, <2>3
  <2> QED
    BY <1>1, <1>4, <2>1, <2>4 DEF ParamsInv
<1>8. CASE Loop
  <2>1. UNCHANGED <<req, state>> /\ cur' \in Nat /\ cur <= cur' /\ (pc' = "next" => cur < cur')
    BY <1>1, <1>8, NetworkAssumption DEF Loop
  <2>2. \A n \in Names : state'[n].from = "rand" =>
            state'[n].id <= cur' /\ (pc' = "next" => state'[n].id < cur')
    BY <1>1, <1>2, <2>1
  <2> QED
    BY <1>4, <2>1, <2>2 DEF ParamsInv
<1>9. CASE \/ Socket \/ SearchCrashes \/ ScriptDone \/ StartScript \/ FeedScript \/ Child
           \/ Works \/ Interferes \/ UNCHANGED vars
  <2>1. UNCHANGED <<req, state, cur>> /\ (pc' = pc \/ pc' # "next")
    BY <1>9 DEF Socket, BeginConn, BeginRefused, SendReq, SendFails, RecvResp, RecvStart, Load, First,
       Drain, After, EndConn, SearchCrashes, ScriptDone, StartScript, FeedScript, Child, Works, Interferes, vars,
       profileVars
  <2> QED
    BY <1>1, <1>4, <2>1 DEF ParamsInv
<1> QED
  BY <1>3, <1>6, <1>7, <1>8, <1>9 DEF Next, Client, Stopped

(* handle_param_string: the values of one name in one request are equal     *)
(* where no ${=name} stands between them and different where one does, for  *)
(* templates of any length, whatever earlier requests drew and responses    *)
(* set; only the lines of files are drawn anew for each token.              *)
THEOREM Agrees == Spec => []ParamsAgree
<1>1. Init => ParamsInv
  <2> SUFFICES ASSUME Init PROVE ParamsInv
    OBVIOUS
  <2>1. req.params = <<>> /\ Len(<<>>) = 0
    BY DEF Init, NoReq
  <2>2. ParamsAgree
    BY <2>1 DEF ParamsAgree
  <2>3. \A n \in Names : state[n] \in {Value("left", 0), Unset}
    BY DEF Init
  <2>4. Value("left", 0).from # "rand" /\ Unset.from # "rand"
    BY DEF Value, Unset
  <2> QED
    BY <2>2, <2>3, <2>4 DEF ParamsInv
<1>2. Spec => []ParamsInv
  BY <1>1, Typed, ParamsStep, PTL DEF Spec
<1>3. ParamsInv => ParamsAgree
  BY DEF ParamsInv
<1> QED
  BY <1>2, <1>3, PTL

-----------------------------------------------------------------------------
(* The cookies. *)

(* A new entry in front of the list leaves the others in their order. *)
LEMMA JoinedLeads ==
    ASSUME cookie \in Seq(Cookie), NEW c \in Cookie, cookie' = Joined(c),
           NEW n \in CookieNames, NEW v,
           \/ c = [name |-> n, value |-> v]
           \/ Leads(cookie, n, v) /\ (c.name # n \/ c.value = Stray)
    PROVE  Leads(cookie', n, v)
<1>1. /\ Len(cookie) \in Nat /\ Len(cookie') = 1 + Len(cookie)
      /\ \A k \in 1..(1 + Len(cookie)) : cookie'[k] = IF k = 1 THEN c ELSE cookie[k - 1]
  <2>1. <<c>> \in Seq(Cookie) /\ Len(<<c>>) = 1 /\ <<c>>[1] = c /\ cookie' = <<c>> \o cookie
    BY DEF Joined
  <2>2. /\ Len(cookie') = 1 + Len(cookie)
        /\ \A k \in 1..(1 + Len(cookie)) : cookie'[k] = IF k <= 1 THEN <<c>>[k] ELSE cookie[k - 1]
    BY <2>1, ConcatProperties
  <2> QED
    BY <2>1, <2>2
<1>2. CASE c = [name |-> n, value |-> v]
  <2>1. 1 \in 1..Len(cookie') /\ cookie'[1] = c /\ 1..(1 - 1) = {}
    BY <1>1
  <2> QED
    BY <1>2, <2>1 DEF Leads
<1>3. CASE Leads(cookie, n, v) /\ (c.name # n \/ c.value = Stray)
  <2>1. PICK k \in 1..Len(cookie) :
          /\ cookie[k] = [name |-> n, value |-> v]
          /\ \A j \in 1..(k - 1) : cookie[j].name # n \/ cookie[j].value = Stray
    BY <1>3 DEF Leads
  <2>2. k + 1 \in 1..Len(cookie') /\ cookie'[k + 1] = cookie[k]
    <3>1. k + 1 \in 1..(1 + Len(cookie)) /\ k + 1 # 1 /\ (k + 1) - 1 = k
      BY <1>1
    <3> QED
      BY <1>1, <3>1
  <2>3. ASSUME NEW j \in 1..((k + 1) - 1)
        PROVE  cookie'[j].name # n \/ cookie'[j].value = Stray
    <3>1. CASE j = 1
      <4>1. cookie'[j] = c
        BY <1>1, <3>1
      <4> QED
        BY <1>3, <4>1
    <3>2. CASE j # 1
      <4>1. j \in 1..(1 + Len(cookie)) /\ j - 1 \in 1..(k - 1)
        BY <1>1, <3>2
      <4>2. cookie'[j] = cookie[j - 1]
        BY <1>1, <3>2, <4>1
      <4> QED
        BY <2>1, <4>1, <4>2
    <3> QED
      BY <3>1, <3>2
  <2> QED
    BY <2>1, <2>2, <2>3 DEF Leads
<1> QED
  BY <1>2, <1>3

LEMMA FindKeepsNewest ==
    ASSUME ProfileInv, Newest(cookie), FindCookie
    PROVE  Newest(cookie)'
<1>1. PICK lines \in SetCookies : FindCookieOf(lines)
  BY FindCookieIs
<1>2. lines \in Seq(CookieNames) /\ cookie \in Seq(Cookie) /\ cur \in 0..NumReqs /\ NumReqs \in Nat
  BY TransactionAssumption, NetworkAssumption DEF ProfileInv, Reqs
<1>3. ASSUME NEW n \in CookieNames, latest'[n].first
      PROVE  Leads(cookie', n, latest'[n].from)
  <2>1. latest'[n] = IF \E k \in DOMAIN lines : lines[k] = n
                     THEN [from |-> cur, first |-> \A k \in DOMAIN lines : lines[k] = n => k = 1]
                     ELSE latest[n]
    BY <1>1 DEF FindCookieOf
  <2>2. CASE \E k \in DOMAIN lines : lines[k] = n
    <3>1. latest'[n].from = cur /\ \A k \in DOMAIN lines : lines[k] = n => k = 1
      BY <1>3, <2>1, <2>2
    <3>2. lines # <<>> /\ lines[1] = n
      BY <1>2, <2>2, <3>1
    <3>3. cookie' = Joined([name |-> n, value |-> cur])
      BY <1>1, <3>2 DEF FindCookieOf
    <3>4. [name |-> n, value |-> cur] \in Cookie
      BY <1>2 DEF Cookie
    <3> QED
      BY <1>2, <3>1, <3>3, <3>4, JoinedLeads
  <2>3. CASE ~\E k \in DOMAIN lines : lines[k] = n
    <3>1. latest'[n] = latest[n] /\ Leads(cookie, n, latest[n].from)
      BY <1>3, <2>1, <2>3 DEF Newest
    <3>2. CASE lines # <<>>
      <4>1. 1 \in DOMAIN lines /\ lines[1] \in CookieNames /\ lines[1] # n
        <5>1. 1 \in DOMAIN lines /\ lines[1] \in CookieNames
          BY <1>2, <3>2
        <5> QED
          BY <2>3, <5>1
      <4>2. PICK c : c = [name |-> lines[1], value |-> cur]
        OBVIOUS
      <4>3. c \in Cookie /\ c.name # n /\ cookie' = Joined(c)
        BY <1>1, <1>2, <3>2, <4>1, <4>2 DEF Cookie, FindCookieOf
      <4> QED
        BY <1>2, <3>1, <4>3, JoinedLeads
    <3>3. CASE lines = <<>> /\ cookie' = cookie
      BY <3>1, <3>3
    <3>4. CASE lines = <<>> /\ cookie' # cookie
      <4>1. PICK m \in CookieNames : cookie' = Joined([name |-> m, value |-> Stray])
        BY <1>1, <3>4 DEF FindCookieOf
      <4>2. PICK c : c = [name |-> m, value |-> Stray]
        OBVIOUS
      <4>3. c \in Cookie /\ c.value = Stray /\ cookie' = Joined(c)
        BY <1>2, <4>1, <4>2 DEF Cookie, Stray
      <4> QED
        BY <1>2, <3>1, <4>3, JoinedLeads
    <3> QED
      BY <3>2, <3>3, <3>4
  <2> QED
    BY <2>2, <2>3
<1> QED
  BY <1>3 DEF Newest, Leads

LEMMA CookieStep == TypeInv /\ CookieInv /\ [Next]_vars => CookieInv'
<1> SUFFICES ASSUME TypeInv, CookieInv, [Next]_vars PROVE CookieInv'
  OBVIOUS
<1>1. UNCHANGED <<cookie, latest>> => Newest(cookie)'
  BY DEF CookieInv, Newest
<1>2. CASE CreateReq
  <2>1. req = [params |-> req.params, cookies |-> req.cookies, want |-> req.want,
               close |-> req.close]
    BY DEF TypeInv, ProfileInv, Request
  <2>2. req'.cookies = cookie /\ UNCHANGED <<cookie, latest>>
    BY <1>2, <2>1 DEF CreateReq
  <2> QED
    BY <1>1, <2>2 DEF CookieInv
<1>3. CASE Postprocess
  <2>1. pc' # "send"
    BY <1>3, MatchCases DEF Postprocess, TypeInv
  <2>2. Newest(cookie)'
    BY <1>3, FindKeepsNewest DEF Postprocess, TypeInv, CookieInv
  <2> QED
    BY <2>1, <2>2 DEF CookieInv
<1>4. CASE GetNextUrl
  BY <1>1, <1>4, NextUrlIs DEF CookieInv, TypeInv
<1>5. CASE CreateFails \/ ScriptDone \/ Loop
  BY <1>1, <1>5 DEF CreateFails, ScriptDone, Loop, profileVars, CookieInv
<1>6. CASE \/ Socket \/ SearchCrashes \/ StartScript \/ FeedScript \/ Child
           \/ Works \/ Interferes \/ UNCHANGED vars
  <2>1. UNCHANGED <<req, cookie, latest>> /\ (pc' = pc \/ pc' # "send")
    BY <1>6 DEF Socket, BeginConn, BeginRefused, SendReq, SendFails, RecvResp, RecvStart, Load, First,
       Drain, After, EndConn, SearchCrashes, StartScript, FeedScript, Child, Works, Interferes, vars,
       profileVars
  <2> QED
    BY <1>1, <2>1 DEF CookieInv
<1> QED
  BY <1>2, <1>3, <1>4, <1>5, <1>6 DEF Next, Client, Stopped

(* round_robin_create_req sends every entry of the list that postprocess    *)
(* keeps.  Whenever the response that set a name last did so in its first   *)
(* Set-Cookie and in no later one, which postprocess does not look at, that *)
(* value comes before the older ones of its name, whatever other names      *)
(* responses set in between and whatever strays were found in the buffer.   *)
THEOREM NewestFirst == Spec => []NewestCookieFirst
<1>1. Init => CookieInv
  <2>1. Len(<<>>) = 0
    OBVIOUS
  <2> QED
    BY <2>1 DEF Init, CookieInv, Newest, Never
<1>2. Spec => []CookieInv
  BY <1>1, Typed, CookieStep, PTL DEF Spec
<1>3. CookieInv => NewestCookieFirst
  BY DEF CookieInv, Newest, Leads, NewestCookieFirst
<1> QED
  BY <1>2, <1>3, PTL

-----------------------------------------------------------------------------
(* The script. *)

LEMMA ChildStep == TypeInv /\ ChildInv /\ [Next]_vars => ChildInv'
<1> SUFFICES ASSUME TypeInv, ChildInv, [Next]_vars PROVE ChildInv'
  OBVIOUS
<1>1. UNCHANGED <<urls, cur>> => UNCHANGED CurrentUrl
  BY DEF CurrentUrl
<1>2. CASE GetNextUrl
  BY <1>2, NextUrlIs DEF ChildInv, TypeInv, scriptVars
<1>3. CASE CreateReq \/ CreateFails
  BY <1>3 DEF CreateReq, CreateFails, ChildInv, scriptVars
<1>4. CASE Socket
  <2>1. UNCHANGED scriptVars /\ UNCHANGED CurrentUrl
    BY <1>1, <1>4 DEF Socket, profileVars
  <2>2. /\ pc \notin {"failed", "crashed", "exited", "script"}
        /\ pc' \in {"create", "failed", "recv", "load", "first", "drain", "post", "loop"}
        /\ pc' = "loop" => pc = "end"
    BY <1>4 DEF Socket, BeginConn, BeginRefused, SendReq, SendFails, RecvResp, RecvStart, Load, First,
       Drain, After, EndConn
  <2> QED
    BY <2>1, <2>2 DEF ChildInv, scriptVars
<1>5. CASE Postprocess
  <2>1. /\ pc = "post" /\ pc' \in {"script", "end", "failed", "crashed", "exited"}
        /\ pc' = "end" => ~CurrentUrl.script
        /\ UNCHANGED scriptVars /\ UNCHANGED CurrentUrl
    BY <1>1, <1>5, MatchCases DEF Postprocess, TypeInv
  <2> QED
    BY <2>1 DEF ChildInv, scriptVars
<1>6. CASE StartScript
  <2>1. pc = "script" /\ pc' = pc /\ at' \in {"write", "failed"}
    BY <1>6 DEF StartScript, Spawn, SpawnFails
  <2> QED
    BY <2>1 DEF ChildInv
<1>7. CASE FeedScript
  <2>1. pc = "script" /\ pc' = pc /\ Feed
    BY <1>7 DEF FeedScript
  <2>2. at' \in {"write", "killed", "failed", "wait"} \/ (at' = "ok" /\ proc' = "reaped" /\ code' = 0)
    BY <2>1 DEF Feed, Write, WriteKills, PollTimesOut, CloseStdin, Wait, Verdict
  <2> QED
    BY <2>1, <2>2 DEF ChildInv
<1>8. CASE ScriptDone
  <2>1. /\ pc = "script" /\ at' = "idle" /\ UNCHANGED <<proc, code>>
        /\ pc' \in {"end", "failed", "crashed"} /\ (pc' = "end" => at = "ok")
    BY <1>8 DEF ScriptDone
  <2> QED
    BY <2>1 DEF ChildInv
<1>9. CASE Loop
  <2>1. /\ UNCHANGED scriptVars /\ pc = "loop" /\ pc' \in {"next", "done"} /\ UNCHANGED urls
        /\ pc' = "done" => UNCHANGED cur
    BY <1>9 DEF Loop
  <2> QED
    BY <1>1, <2>1 DEF ChildInv, scriptVars
<1>10. CASE Child
  <2>1. proc = "running" /\ proc' \in {"running", "exited"} /\ UNCHANGED <<at, pc, urls, cur>>
    BY <1>10 DEF Child, Script, Reads, Exits, Quits, profileVars
  <2> QED
    BY <1>1, <2>1 DEF ChildInv
<1>11. CASE SearchCrashes
  <2>1. pc = "post" /\ pc' = "crashed" /\ UNCHANGED scriptVars
    BY <1>11 DEF SearchCrashes
  <2> QED
    BY <2>1 DEF ChildInv, scriptVars
<1>12. CASE Works \/ Interferes \/ UNCHANGED vars
  <2>1. UNCHANGED <<pc, at, proc, code, urls, cur>>
    BY <1>12 DEF Works, Interferes, vars, scriptVars, profileVars
  <2> QED
    BY <1>1, <2>1 DEF ChildInv
<1> QED
  BY <1>2, <1>3, <1>4, <1>5, <1>6, <1>7, <1>8, <1>9, <1>10, <1>11, <1>12
     DEF Next, Client, Stopped

(* postprocess goes on to end_conn and to the count only behind a script    *)
(* that ended well and was waited for, and no transaction that counts       *)
(* leaves its connection open.                                              *)
THEOREM LeavesNothing == Spec => []NothingLeft
<1>1. Init => ChildInv
  BY DEF Init, ScriptInit, ChildInv
<1>2. Spec => []ChildInv
  BY <1>1, Typed, ChildStep, PTL DEF Spec
<1>3. ConnInv /\ ChildInv => NothingLeft
  BY DEF ConnInv, ChildInv, NothingLeft
<1> QED
  BY <1>2, <1>3, ConnHolds, PTL

-----------------------------------------------------------------------------
(* The response to a request with a template. *)

LEMMA CurReqStays ==
    ASSUME UNCHANGED <<urls, cur>>
    PROVE  UNCHANGED <<CurrentUrl, CurReq>>
  BY DEF CurrentUrl, CurReq

(* What Partly says of a read, with its answer's units by name. *)
LEMMA PartlyIs ==
    ASSUME TypeInv, NEW read, Partly(read)
    PROVE  /\ Leaves
           /\ \E p, units : /\ p \in Reply /\ units = UnitsOf(CurReq, p) /\ Len(units) \in Nat
                            /\ Split(read, units)
<1>1. PICK p \in Reply : Split(read, UnitsOf(CurReq, p))
  BY DEF Partly
<1>2. UnitsOf(CurReq, p) \in Seq(Unit)
  BY UrlIs, UnitsOfAnswer DEF TypeInv, ProfileInv
<1> QED
  BY <1>1, <1>2 DEF Partly

LEMMA PartlyServer ==
    ASSUME TypeInv, ConnInv, pc \in Reading, Works \/ Interferes, NEW read, Len(read) \in Nat,
           (read = <<>> /\ Unanswered) \/ Partly(read)
    PROVE  (read = <<>> /\ Unanswered') \/ Partly(read)'
<1> USE DEF Leaves
<1>1. UNCHANGED <<pc, urls, cur>> /\ UNCHANGED <<CurrentUrl, CurReq>>
  BY CurReqStays DEF Works, Interferes, profileVars
<1>2. wire \in Seq(Unit) /\ owed \in Seq(Unit)
  BY DEF TypeInv, NetInv, NetTypeOK
<1>3. CurReq \in [id : Reqs, method : Methods]
  BY UrlIs DEF TypeInv, ProfileInv
<1>4. ASSUME NEW p \in Reply, Split(read, UnitsOf(CurReq, p))', Leaves'
      PROVE  Partly(read)'
  BY <1>4 DEF Partly
<1>5. CASE read = <<>> /\ Unanswered
  <2>1. CASE Replies
    <3>1. srv = "idle" /\ inbox = <<CurReq>> /\ wire' = <<>> /\ inbox' = inbox
      BY <1>5, <2>1 DEF Unanswered, Replies, SrvReply
    <3>2. PICK p \in Reply : owed' = UnitsOf(CurReq, p) /\ srv' \in {"closing", "replying"}
      BY <2>1, <3>1 DEF Replies, SrvReply
    <3>3. Leaves'
      <4>1. ConnInv'
        BY ConnServer
      <4> QED
        BY <1>1, <3>2, <4>1 DEF ConnInv
    <3>4. PICK units : units = UnitsOf(CurReq, p)
      OBVIOUS
    <3>5. Len(units) \in Nat
      BY <1>3, <3>4, UnitsOfAnswer
    <3>6. Split(<<>>, units)'
      BY <3>1, <3>2, <3>4, <3>5, SplitStart
    <3>7. Split(read, UnitsOf(CurReq, p))'
      BY <1>1, <1>5, <3>4, <3>6
    <3> QED
      BY <1>4, <3>3, <3>7
  <2>2. CASE SrvIdleClose
    BY <1>5, <2>2 DEF SrvIdleClose, Unanswered
  <2>3. CASE SrvSend \/ SrvDone \/ SrvCrash
    BY <1>5, <2>3 DEF SrvSend, SrvDone, SrvCrash, Replying, Unanswered
  <2> QED
    BY <2>1, <2>2, <2>3 DEF Works, Interferes
<1>6. CASE Partly(read)
  <2>1. PICK p, units : /\ p \in Reply /\ units = UnitsOf(CurReq, p) /\ Len(units) \in Nat
                        /\ Split(read, units)
    BY <1>6, PartlyIs
  <2>2. Leaves
    BY <1>6, PartlyIs
  <2>3. Split(read, units)' /\ Leaves'
    <3>1. CASE SrvSend
      <4>1. Split(read, units)'
        BY <1>2, <2>1, <3>1, SplitSend
      <4> QED
        BY <2>2, <3>1, <4>1 DEF SrvSend
    <3>2. CASE SrvDone \/ SrvCrash
      <4>1. UNCHANGED <<wire, owed>> /\ Leaves'
        BY <2>2, <3>2 DEF SrvDone, SrvCrash, Replying
      <4> QED
        BY <2>1, <4>1 DEF Split
    <3>3. CASE Replies \/ SrvIdleClose
      BY <2>2, <3>3 DEF Replies, SrvReply, SrvIdleClose
    <3> QED
      BY <3>1, <3>2, <3>3 DEF Works, Interferes
  <2>4. Split(read, UnitsOf(CurReq, p))'
    BY <1>1, <2>1, <2>3
  <2>5. Partly(read)'
    BY <1>4, <2>1, <2>3, <2>4
  <2> QED
    BY <2>5
<1> QED
  BY <1>5, <1>6

LEMMA ReadServer ==
    ASSUME TypeInv, ConnInv, ReadInv, Works \/ Interferes
    PROVE  ReadInv'
<1>1. UNCHANGED <<pc, socketVars, profileVars>>
  BY DEF Works, Interferes
<1>2. UNCHANGED <<pc, want, rbuf, urls, cur, req>> /\ UNCHANGED <<CurrentUrl, CurReq>>
  BY <1>1, CurReqStays DEF socketVars, profileVars
<1>3. pc = "recv" => want = HasTemplate(CurrentUrl) /\ (Unanswered' \/ Partly(<<>>)')
  <2>1. Len(<<>>) \in Nat
    OBVIOUS
  <2> QED
    BY <2>1, PartlyServer DEF ReadInv, Reading
<1>4. pc = "load" => (rbuf = <<>> /\ Unanswered') \/ Partly(rbuf)'
  <2> SUFFICES ASSUME pc = "load" PROVE (rbuf = <<>> /\ Unanswered') \/ Partly(rbuf)'
    OBVIOUS
  <2>1. PICK read : read = rbuf
    OBVIOUS
  <2>2. Len(read) \in Nat
    BY <2>1 DEF TypeInv, SocketInv
  <2>3. (read = <<>> /\ Unanswered') \/ Partly(read)'
    BY <2>1, <2>2, PartlyServer DEF ReadInv, Reading
  <2>4. rbuf' = read
    BY <1>2, <2>1
  <2>5. Partly(read)' => Partly(rbuf)'
    BY <2>4 DEF Partly, Split
  <2> QED
    BY <2>1, <2>3, <2>5
<1>5. srv = "closed" /\ wire = <<>> => UNCHANGED <<srv, wire, owed>>
  BY DEF Works, Interferes, Replies, SrvReply, SrvSend, SrvDone, SrvIdleClose, SrvCrash, Replying
<1>6. srv = "closed" /\ wire = <<>> /\ (\E p \in Reply : Split(rbuf, UnitsOf(CurReq, p))) =>
        srv' = "closed" /\ wire' = <<>> /\ \E p \in Reply : Split(rbuf, UnitsOf(CurReq, p))'
  BY <1>2, <1>5 DEF Split
<1> QED
  BY <1>2, <1>3, <1>4, <1>6 DEF ReadInv

LEMMA ReadLoad ==
    ASSUME TypeInv, ReadInv, Load, UNCHANGED <<urls, cur>>
    PROVE  ReadInv'
<1>1. PICK res \in ReadResults(BufUnits) :
        /\ ReadSocket(res) /\ rbuf' = rbuf \o Received(res)
        /\ pc' = IF Stops(res.st) THEN "post" ELSE "load"
  BY DEF Load
<1>2. /\ wire \in Seq(Unit) /\ owed \in Seq(Unit) /\ rbuf \in Seq(Piece) /\ BufUnits \in Nat \ {0}
  BY NetworkAssumption DEF TypeInv, NetInv, NetTypeOK, SocketInv
<1>3. /\ UNCHANGED <<fd, inbox, owed>> /\ res.n \in Nat
      /\ \/ /\ res.st = "SUCCESS" /\ res.n \in 1..Len(wire) /\ res.n <= BufUnits
            /\ srv' = srv /\ wire # <<>>
            /\ ReadData(res) \in Seq(Unit) /\ Len(ReadData(res)) = res.n
            /\ \A k \in 1..res.n : ReadData(res)[k] = wire[k]
            /\ wire' \in Seq(Unit) /\ Len(wire') = Len(wire) - res.n
            /\ \A k \in 1..Len(wire') : wire'[k] = wire[k + res.n]
         \/ /\ res.st # "SUCCESS" /\ ReadData(res) = <<>>
            /\ wire = <<>> /\ wire' = <<>>
            /\ \/ res.st = "EOF" /\ srv = "closed" /\ srv' = "closed" /\ res.n = 0
               \/ res.st = "ECONNRESET" /\ srv = "reset" /\ srv' = "closed" /\ res.n = 0
               \/ /\ res.st = "TIMEUP" /\ srv \notin {"closed", "reset"} /\ srv' = srv
                  /\ res.n = BufUnits /\ ("stall" \in Faults \/ Quiet)
  BY <1>1, <1>2, ReadEffect
<1>4. pc = "load" /\ ((rbuf = <<>> /\ Unanswered) \/ Partly(rbuf))
  BY DEF Load, ReadInv
<1>5. UNCHANGED <<CurrentUrl, CurReq>>
  BY CurReqStays
<1>6. CASE res.st = "SUCCESS"
  <2>1. Partly(rbuf)
    BY <1>3, <1>4, <1>6 DEF Unanswered
  <2>2. PICK p, units : /\ p \in Reply /\ units = UnitsOf(CurReq, p) /\ Len(units) \in Nat
                        /\ Split(rbuf, units)
    BY <2>1, PartlyIs
  <2>3. PICK more : more = ReadData(res)
    OBVIOUS
  <2>4. more \in Seq(Piece) /\ Len(more) = res.n /\ \A k \in 1..res.n : more[k] = wire[k]
    BY <1>3, <1>6, <2>3, SeqWidens DEF Piece
  <2>5. rbuf' = rbuf \o more /\ pc' = "load"
    BY <1>1, <1>6, <2>3 DEF Received, Stops
  <2>6. PICK read, longer : read = rbuf /\ longer = rbuf'
    OBVIOUS
  <2>7. /\ Len(read) \in Nat /\ Len(longer) = Len(read) + res.n
        /\ \A k \in 1..Len(read) : longer[k] = read[k]
        /\ \A k \in 1..res.n : longer[Len(read) + k] = wire[k]
    <3>1. longer = read \o more /\ read \in Seq(Piece) /\ more \in Seq(Piece)
      BY <1>2, <2>4, <2>5, <2>6
    <3>2. /\ Len(read) \in Nat /\ Len(longer) = Len(read) + Len(more)
          /\ \A k \in 1..(Len(read) + Len(more)) :
                longer[k] = IF k <= Len(read) THEN read[k] ELSE more[k - Len(read)]
      BY <3>1, ConcatProperties
    <3>3. \A k \in 1..Len(read) : k \in 1..(Len(read) + Len(more)) /\ k <= Len(read)
      BY <1>3, <2>4, <3>2
    <3>4. \A k \in 1..res.n : /\ Len(read) + k \in 1..(Len(read) + Len(more))
                              /\ ~(Len(read) + k <= Len(read)) /\ (Len(read) + k) - Len(read) = k
      BY <1>3, <2>4, <3>2
    <3> QED
      BY <2>4, <3>2, <3>3, <3>4
  <2>8. Len(owed) \in Nat /\ owed' = owed
    BY <1>2, <1>3
  <2>9. PICK n \in 1..Len(wire) : n = res.n
    BY <1>3, <1>6
  <2>10. /\ Len(wire') = Len(wire) - n /\ \A k \in 1..Len(wire') : wire'[k] = wire[k + n]
    BY <1>3, <1>6, <2>9
  <2>11. Split(read, units)
    BY <2>2, <2>6
  <2>12. Split(longer, units)'
    BY <1>2, <2>7, <2>8, <2>9, <2>10, <2>11, SplitRead
  <2>13. Split(rbuf, units)'
    BY <2>6, <2>12 DEF Split
  <2>14. Partly(rbuf)'
    BY <1>3, <1>5, <1>6, <2>1, <2>2, <2>13 DEF Partly, Leaves
  <2> QED
    BY <2>5, <2>14 DEF ReadInv
<1>7. CASE res.st \in {"EOF", "ECONNRESET"}
  <2>1. rbuf' = rbuf
    <3>1. Received(res) = <<>>
      BY <1>3, <1>7 DEF Received
    <3>2. rbuf \o <<>> = rbuf
      BY <1>2
    <3> QED
      BY <1>1, <3>1, <3>2
  <2>2. UNCHANGED <<wire, owed, rbuf>> /\ srv' = "closed"
    BY <1>3, <1>7, <2>1
  <2>3. Partly(rbuf) => \E p \in Reply : Split(rbuf, UnitsOf(CurReq, p))'
    BY <1>5, <2>2 DEF Partly, Split
  <2>4. CASE res.st = "EOF"
    <3>1. pc' = "post" /\ (rbuf = <<>> \/ Partly(rbuf))
      BY <1>1, <1>4, <2>4 DEF Stops
    <3>2. wire' = <<>>
      BY <1>3, <1>7
    <3> QED
      BY <2>2, <2>3, <3>1, <3>2 DEF ReadInv
  <2>5. CASE res.st = "ECONNRESET"
    <3>1. pc' = "load" /\ Partly(rbuf)
      BY <1>1, <1>3, <1>4, <2>5 DEF Stops, Unanswered
    <3>2. Partly(rbuf)'
      BY <2>2, <2>3, <3>1 DEF Partly, Leaves
    <3> QED
      BY <3>1, <3>2 DEF ReadInv
  <2> QED
    BY <1>7, <2>4, <2>5
<1>8. CASE res.st = "TIMEUP"
  <2>1. PICK more : more = [i \in 1..res.n |-> Junk]
    OBVIOUS
  <2>2. more \in Seq(Piece) /\ Len(more) = BufUnits /\ more[1] = Junk
    BY <1>2, <1>3, <1>8, <2>1 DEF Piece
  <2>3. rbuf' = rbuf \o more /\ pc' = "post"
    BY <1>1, <1>8, <2>1 DEF Received, Stops
  <2>4. /\ Len(rbuf') = Len(rbuf) + Len(more) /\ Len(rbuf) \in Nat
        /\ \A k \in 1..(Len(rbuf) + Len(more)) :
              rbuf'[k] = IF k <= Len(rbuf) THEN rbuf[k] ELSE more[k - Len(rbuf)]
    <3>1. PICK read, longer : read = rbuf /\ longer = rbuf'
      OBVIOUS
    <3>2. longer = read \o more /\ read \in Seq(Piece) /\ more \in Seq(Piece)
      BY <1>2, <2>2, <2>3, <3>1
    <3>3. /\ Len(longer) = Len(read) + Len(more) /\ Len(read) \in Nat
          /\ \A k \in 1..(Len(read) + Len(more)) :
                longer[k] = IF k <= Len(read) THEN read[k] ELSE more[k - Len(read)]
      BY <3>2, ConcatProperties
    <3> QED
      BY <3>1, <3>3
  <2>5. /\ Len(rbuf) + 1 \in 1..(Len(rbuf) + Len(more)) /\ ~(Len(rbuf) + 1 <= Len(rbuf))
        /\ (Len(rbuf) + 1) - Len(rbuf) = 1
    BY <1>2, <2>2, <2>4
  <2>6. rbuf'[Len(rbuf) + 1] = Junk /\ Len(rbuf) + 1 \in 1..Len(rbuf')
    BY <2>2, <2>4, <2>5
  <2>7. \E i \in 1..Len(rbuf') : rbuf'[i] = Junk
    BY <2>6
  <2> QED
    BY <2>3, <2>7 DEF ReadInv
<1> QED
  BY <1>3, <1>6, <1>7, <1>8

LEMMA ReadSocketStep ==
    ASSUME TypeInv, ConnInv, ReadInv, Socket
    PROVE  ReadInv'
<1>1. UNCHANGED <<urls, cur, req>> /\ UNCHANGED <<CurrentUrl, CurReq>>
  BY CurReqStays DEF Socket, profileVars
<1>2. CASE BeginConn \/ BeginRefused \/ SendFails(req.want) \/ EndConn
  BY <1>2 DEF BeginConn, BeginRefused, SendFails, EndConn, ReadInv
<1>3. CASE SendReq(CurReq, req.want)
  <2>1. /\ pc = "send" /\ pc' = "recv" /\ want' = req.want /\ UNCHANGED <<fd, srv, owed, wire>>
        /\ inbox' = IF srv = "closed" THEN <<>> ELSE Append(inbox, CurReq)
    BY <1>3 DEF SendReq, WriteSocket
  <2>2. Append(<<>>, CurReq) = <<CurReq>>
    OBVIOUS
  <2>3. Unanswered'
    BY <1>1, <2>1, <2>2 DEF ConnInv, Unanswered
  <2> QED
    BY <1>1, <2>1, <2>3 DEF ReadInv
<1>4. CASE RecvStart(full)
  <2>1. pc = "recv" /\ UNCHANGED <<fd, srv, inbox, owed, wire>> /\ rbuf' = <<>>
    BY <1>4 DEF RecvStart, netVars
  <2>2. pc' = "load" \/ (pc' = "first" /\ ~want)
    BY <1>4 DEF RecvStart, Wants
  <2>3. Unanswered => Unanswered'
    BY <1>1, <2>1 DEF Unanswered
  <2>4. Partly(<<>>) => Partly(rbuf)'
    BY <1>1, <2>1 DEF Partly, Split, Leaves
  <2> QED
    BY <1>1, <2>1, <2>2, <2>3, <2>4 DEF ReadInv
<1>5. CASE Load
  BY <1>1, <1>5, ReadLoad
<1>6. CASE First \/ Drain
  <2>1. pc \in {"first", "drain"} /\ pc' \in {"post", "failed", "drain"}
    BY <1>6 DEF First, Drain, After
  <2> QED
    BY <1>1, <2>1 DEF ReadInv
<1>7. \/ BeginConn \/ BeginRefused \/ SendReq(CurReq, req.want) \/ SendFails(req.want)
      \/ RecvStart(full) \/ Load \/ First \/ Drain \/ EndConn
  BY DEF Socket, RecvResp, CurReq
<1> QED
  BY <1>2, <1>3, <1>4, <1>5, <1>6, <1>7

LEMMA ReadStep == TypeInv /\ ConnInv /\ ReadInv /\ [Next]_vars => ReadInv'
<1> SUFFICES ASSUME TypeInv, ConnInv, ReadInv, [Next]_vars PROVE ReadInv'
  OBVIOUS
<1>1. CASE Socket
  BY <1>1, ReadSocketStep
<1>2. CASE Works \/ Interferes
  BY <1>2, ReadServer
<1>3. CASE GetNextUrl
  BY <1>3, NextUrlIs DEF ReadInv, TypeInv
<1>4. CASE CreateReq
  <2>1. req'.want = HasTemplate(CurrentUrl) /\ UNCHANGED CurrentUrl /\ pc' = "send"
    BY <1>4 DEF CreateReq, WantResponse, TypeInv, ProfileInv, Request, CurrentUrl
  <2> QED
    BY <2>1 DEF ReadInv
<1>5. CASE CreateFails \/ SearchCrashes \/ Loop
  BY <1>5 DEF CreateFails, SearchCrashes, Loop, ReadInv
<1>6. CASE Postprocess
  BY <1>6, MatchCases DEF Postprocess, TypeInv, ReadInv
<1>7. CASE StartScript \/ FeedScript \/ ScriptDone
  BY <1>7 DEF StartScript, FeedScript, ScriptDone, ReadInv
<1>8. CASE Child \/ UNCHANGED vars
  <2>1. UNCHANGED <<fd, srv, inbox, owed, wire, pc, want, rbuf, urls, cur, req>>
    BY <1>8 DEF Child, vars, netVars, socketVars, profileVars
  <2>2. UNCHANGED <<CurrentUrl, CurReq>>
    BY <2>1, CurReqStays
  <2> QED
    BY <2>1, <2>2 DEF ReadInv, Unanswered, Partly, Split, Leaves
<1> QED
  BY <1>1, <1>2, <1>3, <1>4, <1>5, <1>6, <1>7, <1>8 DEF Next, Client, Stopped

LEMMA WholeMatches ==
    ASSUME TypeInv, ReadInv, pc = "post", HasTemplate(CurrentUrl), Answered
    PROVE  Matches
<1>1. /\ HasHead /\ owed = <<>> /\ rbuf # <<>> /\ CurrentUrl.method # "HEAD"
      /\ rbuf[1].reply.len > 0
      /\ \A i \in 1..Len(rbuf) : rbuf[i] # Junk
  BY DEF Answered, HasHead
<1>2. wire = <<>> /\ \E p \in Reply : Split(rbuf, UnitsOf(CurReq, p))
  BY <1>1 DEF ReadInv
<1>3. PICK p, q, s : p \in Reply /\ q = CurReq /\ s = UnitsOf(q, p) /\ Split(rbuf, s)
  BY <1>2
<1>4. q \in [id : Reqs, method : Methods] /\ q.method # "HEAD" /\ p.len \in Nat
  BY <1>1, <1>3, UrlIs, NetworkAssumption DEF TypeInv, ProfileInv, CurReq, Reply
<1>5. /\ s \in Seq(Unit) /\ Starts(s, p)
      /\ Len(s) = 1 + p.len + (IF p.framing = "chunked" THEN 1 ELSE 0)
      /\ \A k \in 2..Len(s) : s[k].kind = IF k <= 1 + p.len THEN "body" ELSE "last"
  BY <1>3, <1>4, UnitsOfAnswer
<1>6. Len(s) = Len(rbuf) /\ \A k \in 1..Len(rbuf) : rbuf[k] = s[k]
  <2>1. Len(<<>>) = 0 /\ Len(rbuf) \in Nat
    BY DEF TypeInv, SocketInv
  <2> QED
    BY <1>1, <1>2, <1>3, <2>1 DEF Split
<1>7. rbuf[1].kind = "head" /\ rbuf[1].reply = p
  BY <1>4, <1>5, <1>6 DEF Starts
<1>8. {i \in 1..Len(rbuf) : rbuf[i].kind = "body"} = 2..(1 + p.len)
  <2>1. ASSUME NEW i \in 1..Len(rbuf) PROVE rbuf[i].kind = "body" <=> i \in 2..(1 + p.len)
    <3>1. CASE i = 1
      BY <1>7, <3>1
    <3>2. CASE i \in 2..Len(s)
      BY <1>4, <1>5, <1>6, <3>2
    <3> QED
      BY <1>4, <1>5, <1>6, <3>1, <3>2
  <2>2. \A i \in 2..(1 + p.len) : i \in 1..Len(rbuf)
    BY <1>4, <1>5, <1>6
  <2> QED
    BY <2>1, <2>2
<1>9. Cardinality(2..(1 + p.len)) = p.len
  <2>1. 2 \in Int /\ 1 + p.len \in Int
    BY <1>4
  <2>2. Cardinality(2..(1 + p.len)) = IF 2 > 1 + p.len THEN 0 ELSE (1 + p.len) - 2 + 1
    BY <2>1, FS_Interval
  <2> QED
    BY <1>4, <2>2
<1>10. BodyUnits = p.len
  BY <1>8, <1>9 DEF BodyUnits
<1> QED
  BY <1>1, <1>7, <1>10 DEF Matches

(* generic_recv_resp and postprocess: a response that the server sent whole *)
(* and without stalling reaches the responsetemplate whole, in however many *)
(* reads, and a match in its body sets the variable and lets the run go on. *)
THEOREM FindsValue == Spec => TemplateFindsValue
<1>1. Init => ReadInv
  BY DEF Init, ReadInv
<1>2. Spec => []ReadInv
  BY <1>1, Typed, ConnHolds, ReadStep, PTL DEF Spec
<1> DEFINE Finds ==
      Postprocess /\ HasTemplate(CurrentUrl) /\ Answered
        => pc' \in {"crashed", "exited"} \/ state'[CurrentUrl.responsename] = Value("resp", cur)
<1>3. TypeInv /\ ReadInv /\ [Next]_vars => [Finds]_vars
  <2> SUFFICES ASSUME TypeInv, ReadInv, Postprocess, HasTemplate(CurrentUrl), Answered
               PROVE  \/ pc' \in {"crashed", "exited"}
                      \/ state'[CurrentUrl.responsename] = Value("resp", cur)
    OBVIOUS
  <2>1. Matches
    BY WholeMatches DEF Postprocess
  <2> QED
    BY <2>1, MatchCases DEF Postprocess, TypeInv
<1> QED
  BY <1>2, <1>3, Typed, PTL DEF Spec, TemplateFindsValue
=============================================================================
