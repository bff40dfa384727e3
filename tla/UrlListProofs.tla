--------------------------- MODULE UrlListProofs ---------------------------
(***************************************************************************)
(* For any urllist and any number of profile runs that read it at once:    *)
(* cutting a shared extraheader attribute never loses its tail for all of  *)
(* the runs; the walk fills the table that was counted, no more and no     *)
(* less; and what fills it is the expansion of the urllist.                *)
(*                                                                         *)
(* UrlsBelow and Expansion recurse over the nesting of the elements.  That *)
(* they have the values their equations give is proved from the numbering: *)
(* a child has a larger number than its parent.                            *)
(***************************************************************************)
EXTENDS UrlList, SequenceTheorems, FiniteSetTheorems, NaturalsInduction, WellFoundedInduction, TLAPS

(* An entry of a table, and a table. *)
IsEntry(r) == r = [url |-> r.url, vals |-> r.vals, headers |-> r.headers]
IsTable(t) == (\E V : t \in Seq(V)) /\ \A n \in 1..Len(t) : IsEntry(t[n])

(* What the runs have of element e: one of them at least an entry, all of   *)
(* its headers, or the header it is about to take and none of the           *)
(* separators from there on cut.                                            *)
Took(e) == \E p \in Runs : \E n \in 1..Len(table[p]) : table[p][n].url = e
Whole(e) ==
    \E p \in Runs : \E n \in 1..Len(table[p]) :
       table[p][n].url = e /\ table[p][n].headers = Headers[e]
Leads(p, e) ==
    /\ phase[p] = "header" /\ InHand(p) = e
    /\ last[p] \in 1..Headers[e]
    /\ \A k \in cut[e] : k < last[p]

Walkers ==
    /\ phase = [p \in Runs |-> phase[p]]
    /\ table = [p \in Runs |-> table[p]]
    /\ last = [p \in Runs |-> last[p]]
    /\ cut = [e \in Elems |-> cut[e]]
    /\ \A p \in Runs : IsTable(table[p])
    /\ \A p \in Runs : phase[p] = "header" =>
         /\ Len(table[p]) > 0 /\ last[p] \in Nat
         /\ last[p] \in 1..Headers[InHand(p)] =>
              table[p][Len(table[p])].headers = last[p] - 1

HeaderInv ==
    /\ Walkers
    /\ \A e \in Elems : cut[e] \subseteq Nat /\ (cut[e] # {} => Took(e))
    /\ \A e \in Elems : Took(e) => Whole(e) \/ \E p \in Runs : Leads(p, e)

-----------------------------------------------------------------------------
(* A table grows at its end, and the entry in hand counts its headers. *)

LEMMA EntryAppended ==
    ASSUME NEW t, IsTable(t), NEW r, IsEntry(r)
    PROVE  /\ IsTable(Append(t, r)) /\ Len(t) \in Nat /\ Len(Append(t, r)) = Len(t) + 1
           /\ \A n \in 1..Len(t) : Append(t, r)[n] = t[n]
           /\ Append(t, r)[Len(t) + 1] = r
<1>1. PICK V : t \in Seq(V)
  BY DEF IsTable
<1>2. PICK W : W = V \cup {r}
  OBVIOUS
<1>3. t \in Seq(W) /\ r \in W
  <2>1. t \in [1..Len(t) -> V] /\ Len(t) \in Nat
    BY <1>1
  <2>2. t \in [1..Len(t) -> W]
    BY <1>2, <2>1
  <2> QED
    BY <1>2, <2>1, <2>2
<1>4. PICK s : s = Append(t, r)
  OBVIOUS
<1>5. /\ s \in Seq(W) /\ Len(t) \in Nat /\ Len(s) = Len(t) + 1
      /\ \A n \in 1..Len(t) : s[n] = t[n]
      /\ s[Len(t) + 1] = r
  BY <1>3, <1>4, AppendProperties
<1>6. ASSUME NEW n \in 1..Len(s) PROVE IsEntry(s[n])
  <2>1. n \in 1..Len(t) \/ n = Len(t) + 1
    BY <1>5
  <2> QED
    BY <1>5, <2>1 DEF IsTable
<1> QED
  BY <1>4, <1>5, <1>6 DEF IsTable

Counted(t, n, k) == [t EXCEPT ![n].headers = k]

LEMMA HeaderCounted ==
    ASSUME NEW t, IsTable(t), NEW n \in 1..Len(t), NEW k,
           NEW new, new = Counted(t, n, k)
    PROVE  /\ IsTable(new) /\ Len(new) = Len(t) /\ Len(t) \in Nat
           /\ \A i \in 1..Len(t) : new[i].url = t[i].url /\ new[i].vals = t[i].vals
           /\ \A i \in 1..Len(t) : i # n => new[i] = t[i]
           /\ new[n].headers = k
<1> DEFINE r == [t[n] EXCEPT !.headers = k]
<1>1. PICK V : t \in Seq(V)
  BY DEF IsTable
<1>2. t[n] = [url |-> t[n].url, vals |-> t[n].vals, headers |-> t[n].headers]
  BY DEF IsTable, IsEntry
<1>3. r = [url |-> t[n].url, vals |-> t[n].vals, headers |-> k]
  BY <1>2
<1>4. IsEntry(r) /\ r.url = t[n].url /\ r.vals = t[n].vals /\ r.headers = k
  BY <1>3 DEF IsEntry
<1>5. t \in [1..Len(t) -> V] /\ Len(t) \in Nat
  BY <1>1
<1>6. /\ new \in [1..Len(t) -> V \cup {r}]
      /\ \A i \in 1..Len(t) : new[i] = IF i = n THEN r ELSE t[i]
  <2>1. new = [t EXCEPT ![n] = r]
    BY DEF Counted
  <2> QED
    BY <1>5, <2>1
<1>7. new \in Seq(V \cup {r}) /\ Len(new) = Len(t)
  BY <1>5, <1>6
<1>8. IsTable(new)
  BY <1>4, <1>6, <1>7 DEF IsTable
<1>9. /\ \A i \in 1..Len(t) : new[i].url = t[i].url /\ new[i].vals = t[i].vals
      /\ \A i \in 1..Len(t) : i # n => new[i] = t[i]
      /\ new[n].headers = k
  BY <1>4, <1>6
<1> QED
  BY <1>5, <1>7, <1>8, <1>9

-----------------------------------------------------------------------------
(* The extra headers of a shared attribute. *)

(* Steps of a run outside of the attributes: nobody is led by it. *)
LEMMA HeadersAside ==
    ASSUME HeaderInv, NEW p \in Runs, UNCHANGED <<table, last, cut>>,
           NEW x, phase' = [phase EXCEPT ![p] = x], x # "header",
           \A e \in Elems : ~Leads(p, e)
    PROVE  HeaderInv'
<1> USE DEF HeaderInv
<1>1. \A q \in Runs : q # p => phase'[q] = phase[q]
  BY DEF Walkers
<1>2. phase'[p] = x /\ phase' = [q \in Runs |-> phase'[q]]
  BY DEF Walkers
<1>3. Walkers'
  <2>1. \A q \in Runs : phase'[q] = "header" => phase[q] = "header"
    BY <1>1, <1>2
  <2> QED
    BY <1>2, <2>1 DEF Walkers, InHand
<1>4. \A e : Took(e)' = Took(e)
  BY DEF Took
<1>5. \A e : Whole(e) => Whole(e)'
  BY DEF Whole
<1>6. \A e \in Elems, q \in Runs : Leads(q, e) => Leads(q, e)'
  BY <1>1 DEF Leads, InHand
<1> QED
  BY <1>3, <1>4, <1>5, <1>6

(* parse_xml_url_info begins with the first header of the new entry. *)
LEMMA HeadersBegin ==
    ASSUME HeaderInv, NEW p \in Runs, ParseUrl(p)
    PROVE  HeaderInv'
<1> USE DEF HeaderInv
<1>1. PICK c, r : /\ c = Kid(p)
                  /\ r = [url |-> Kid(p), headers |-> 0,
                          vals |-> ExpandedTo(TemplatesNow(p), state[p])]
  OBVIOUS
<1>2. PICK t, new : t = table[p] /\ new = Append(table[p], r)
  OBVIOUS
<1>3. IsEntry(r) /\ r.url = c /\ r.headers = 0
  BY <1>1 DEF IsEntry
<1>4. /\ IsTable(new) /\ Len(t) \in Nat /\ Len(new) = Len(t) + 1
      /\ \A n \in 1..Len(t) : new[n] = t[n]
      /\ new[Len(t) + 1] = r
  BY <1>2, <1>3, EntryAppended DEF Walkers
<1>5. /\ table' = [table EXCEPT ![p] = new] /\ phase' = [phase EXCEPT ![p] = "header"]
      /\ last' = [last EXCEPT ![p] = 1] /\ cut' = cut
      /\ phase[p] = "walk"
  BY <1>1, <1>2 DEF ParseUrl, AtKid
<1>6. /\ table' = [q \in Runs |-> table'[q]] /\ phase' = [q \in Runs |-> phase'[q]]
      /\ last' = [q \in Runs |-> last'[q]]
      /\ table'[p] = new /\ phase'[p] = "header" /\ last'[p] = 1
      /\ \A q \in Runs : q # p => UNCHANGED <<table[q], phase[q], last[q]>>
  BY <1>5 DEF Walkers
<1>7. InHand(p)' = c /\ new[Len(new)] = r /\ Len(new) > 0 /\ Len(new) \in 1..Len(new)
  BY <1>3, <1>4, <1>6 DEF InHand
<1>8. \A q \in Runs : q # p => InHand(q)' = InHand(q)
  BY <1>6 DEF InHand
<1>9. Walkers'
  <2>1. \A q \in Runs : IsTable(table'[q])
    BY <1>4, <1>6 DEF Walkers
  <2>2. ASSUME NEW q \in Runs, phase'[q] = "header"
        PROVE  /\ Len(table'[q]) > 0 /\ last'[q] \in Nat
               /\ last'[q] \in 1..Headers[InHand(q)'] =>
                    table'[q][Len(table'[q])].headers = last'[q] - 1
    <3>1. CASE q = p
      BY <1>3, <1>6, <1>7, <3>1
    <3>2. CASE q # p
      BY <1>6, <1>8, <2>2, <3>2 DEF Walkers
    <3> QED
      BY <3>1, <3>2
  <2> QED
    BY <1>5, <1>6, <2>1, <2>2 DEF Walkers
<1>10. ASSUME NEW e \in Elems PROVE Took(e)' => Took(e) \/ e = c
  <2> SUFFICES ASSUME NEW q \in Runs, NEW n \in 1..Len(table'[q]), table'[q][n].url = e
               PROVE  Took(e) \/ e = c
    BY DEF Took
  <2>1. CASE q # p
    BY <1>6, <2>1 DEF Took
  <2>2. CASE q = p /\ n \in 1..Len(t)
    BY <1>2, <1>4, <1>6, <2>2 DEF Took
  <2>3. CASE q = p /\ n = Len(t) + 1
    BY <1>3, <1>4, <1>6, <2>3
  <2> QED
    BY <1>4, <1>6, <2>1, <2>2, <2>3
<1>11. ASSUME NEW q \in Runs, NEW n \in 1..Len(table[q])
       PROVE  n \in 1..Len(table'[q]) /\ table'[q][n] = table[q][n]
  <2>1. CASE q = p
    <3>1. table'[q] = new /\ table[q] = t
      BY <1>2, <1>6, <2>1
    <3>2. n \in 1..Len(t)
      BY <3>1
    <3> QED
      BY <1>4, <3>1, <3>2
  <2>2. CASE q # p
    <3>1. table'[q] = table[q]
      BY <1>6, <2>2
    <3> QED
      BY <3>1
  <2> QED
    BY <2>1, <2>2
<1>12. \A e \in Elems : (Took(e) => Took(e)') /\ (Whole(e) => Whole(e)')
  <2> TAKE e \in Elems
  <2>1. ASSUME Took(e) PROVE Took(e)'
    <3>1. PICK q \in Runs : \E n \in 1..Len(table[q]) : table[q][n].url = e
      BY <2>1 DEF Took
    <3>2. PICK n \in 1..Len(table[q]) : table[q][n].url = e
      BY <3>1
    <3>3. n \in 1..Len(table'[q]) /\ table'[q][n].url = e
      BY <1>11, <3>2
    <3> QED
      BY <3>3 DEF Took
  <2>2. ASSUME Whole(e) PROVE Whole(e)'
    <3>1. PICK q \in Runs :
            \E n \in 1..Len(table[q]) : table[q][n].url = e /\ table[q][n].headers = Headers[e]
      BY <2>2 DEF Whole
    <3>2. PICK n \in 1..Len(table[q]) : table[q][n].url = e /\ table[q][n].headers = Headers[e]
      BY <3>1
    <3>3. /\ n \in 1..Len(table'[q])
          /\ table'[q][n].url = e /\ table'[q][n].headers = Headers[e]
      BY <1>11, <3>2
    <3> QED
      BY <3>3 DEF Whole
  <2> QED
    BY <2>1, <2>2
<1>13. \A e \in Elems, q \in Runs : Leads(q, e) => Leads(q, e)'
  BY <1>5, <1>6, <1>8 DEF Leads
<1>14. ASSUME NEW e \in Elems, Took(e)' PROVE Whole(e)' \/ \E q \in Runs : Leads(q, e)'
  <2>1. CASE Took(e)
    BY <1>12, <1>13, <2>1
  <2>2. CASE ~Took(e)
    <3>1. e = c /\ cut[e] = {}
      BY <1>10, <1>14, <2>2
    <3>2. CASE Headers[e] = 0
      BY <1>3, <1>6, <1>7, <3>1, <3>2 DEF Whole
    <3>3. CASE Headers[e] # 0
      <4>1. 1 \in 1..Headers[e]
        BY <3>3, UrlListAssumption
      <4> QED
        BY <1>5, <1>6, <1>7, <3>1, <4>1 DEF Leads
    <3> QED
      BY <3>2, <3>3
  <2> QED
    BY <2>1, <2>2
<1> QED
  BY <1>5, <1>9, <1>12, <1>14

(* apr_strtok: whoever goes on behind a separator that was whole leads.     *)
LEMMA HeaderTaken ==
    ASSUME HeaderInv, NEW p \in Runs, TakeHeader(p)
    PROVE  HeaderInv'
<1> USE DEF HeaderInv
<1>1. PICK h, k, n, t : h = InHand(p) /\ k = last[p] /\ n = Len(table[p]) /\ t = table[p]
  OBVIOUS
<1>2. /\ phase[p] = "header" /\ k \in 1..Headers[h]
      /\ table' = [table EXCEPT ![p][n].headers = k]
      /\ \/ /\ k < Headers[h] /\ (k \notin cut[h] \/ Racing(p))
            /\ cut' = [cut EXCEPT ![h] = @ \cup {k}]
            /\ last' = [last EXCEPT ![p] = k + 1]
         \/ /\ ~(k < Headers[h]) \/ k \in cut[h]
            /\ last' = [last EXCEPT ![p] = 0]
            /\ UNCHANGED cut
      /\ UNCHANGED phase
  BY <1>1 DEF TakeHeader, GoesOn
<1>3. /\ n > 0 /\ k \in Nat /\ t[n].headers = k - 1 /\ IsTable(t) /\ n = Len(t)
      /\ n \in 1..Len(t) /\ Len(t) \in Nat /\ t[n].url = h
  <2>1. IsTable(t) /\ n = Len(t) /\ n > 0 /\ k \in Nat /\ t[n].headers = k - 1 /\ t[n].url = h
    BY <1>1, <1>2 DEF Walkers, InHand
  <2>2. Len(t) \in Nat
    BY <2>1 DEF IsTable
  <2> QED
    BY <2>1, <2>2
<1>4. PICK new : new = Counted(t, n, k)
  OBVIOUS
<1>5. /\ IsTable(new) /\ Len(new) = Len(t)
      /\ \A i \in 1..Len(t) : new[i].url = t[i].url
      /\ \A i \in 1..Len(t) : i # n => new[i] = t[i]
      /\ new[n].headers = k
  BY <1>3, <1>4, HeaderCounted
<1>6. table' = [table EXCEPT ![p] = new]
  BY <1>1, <1>2, <1>4 DEF Counted
<1>7. /\ table' = [q \in Runs |-> table'[q]] /\ last' = [q \in Runs |-> last'[q]]
      /\ cut' = [e \in Elems |-> cut'[e]]
      /\ table'[p] = new
      /\ \A q \in Runs : q # p => UNCHANGED <<table[q], last[q]>>
  BY <1>2, <1>6 DEF Walkers
<1>8. \A q \in Runs : InHand(q)' = InHand(q)
  BY <1>1, <1>3, <1>5, <1>7 DEF InHand
<1>9. Walkers'
  <2>1. \A q \in Runs : IsTable(table'[q])
    BY <1>5, <1>7 DEF Walkers
  <2>2. ASSUME NEW q \in Runs, phase'[q] = "header"
        PROVE  /\ Len(table'[q]) > 0 /\ last'[q] \in Nat
               /\ last'[q] \in 1..Headers[InHand(q)'] =>
                    table'[q][Len(table'[q])].headers = last'[q] - 1
    <3>1. CASE q = p
      <4>1. last'[p] = k + 1 \/ last'[p] = 0
        BY <1>2, <1>7 DEF Walkers
      <4>2. Len(table'[p]) = n /\ table'[p][n].headers = k
        BY <1>3, <1>5, <1>7
      <4> QED
        BY <1>3, <3>1, <4>1, <4>2
    <3>2. CASE q # p
      BY <1>2, <1>7, <1>8, <2>2, <3>2 DEF Walkers
    <3> QED
      BY <3>1, <3>2
  <2> QED
    BY <1>2, <1>7, <2>1, <2>2 DEF Walkers
<1>10. ASSUME NEW q \in Runs
       PROVE  /\ Len(table'[q]) = Len(table[q])
              /\ \A i \in 1..Len(table[q]) : table'[q][i].url = table[q][i].url
              /\ q # p => \A i \in 1..Len(table[q]) : table'[q][i].headers = table[q][i].headers
  BY <1>1, <1>5, <1>7
<1>11. \A i \in 1..Len(t) : i # n => table'[p][i].headers = t[i].headers
  BY <1>5, <1>7
<1>12. \A e \in Elems : Took(e)' <=> Took(e)
  BY <1>10 DEF Took
<1>13. h \in Elems => Headers[h] \in Nat
  BY UrlListAssumption
<1>14. ASSUME NEW e \in Elems, Whole(e) PROVE Whole(e)'
  <2>1. PICK q \in Runs :
          \E i \in 1..Len(table[q]) : table[q][i].url = e /\ table[q][i].headers = Headers[e]
    BY <1>14 DEF Whole
  <2>2. PICK i \in 1..Len(table[q]) : table[q][i].url = e /\ table[q][i].headers = Headers[e]
    BY <2>1
  <2>3. ~(q = p /\ i = n)
    <3>1. ~(k - 1 = Headers[h]) \/ h \notin Elems
      BY <1>2, <1>3, <1>13
    <3> QED
      BY <1>1, <1>3, <1>14, <2>2, <3>1
  <2>4. i \in 1..Len(table'[q]) /\ table'[q][i].url = e /\ table'[q][i].headers = Headers[e]
    <3>1. CASE q # p
      BY <1>10, <2>2, <3>1
    <3>2. CASE q = p
      BY <1>1, <1>10, <1>11, <2>2, <2>3, <3>2
    <3> QED
      BY <3>1, <3>2
  <2> QED
    BY <2>4 DEF Whole
<1>15. ASSUME NEW e \in Elems, e # h, NEW q \in Runs, Leads(q, e) PROVE Leads(q, e)'
  <2>1. q # p
    BY <1>1, <1>15 DEF Leads
  <2>2. cut'[e] = cut[e]
    BY <1>2, <1>15 DEF Walkers
  <2> QED
    BY <1>2, <1>7, <1>8, <1>15, <2>1, <2>2 DEF Leads
<1>16. Took(h)
  BY <1>1, <1>3 DEF Took
<1>17. ASSUME h \in Elems PROVE Whole(h)' \/ \E q \in Runs : Leads(q, h)'
  <2>1. CASE ~(k < Headers[h])
    <3>1. k = Headers[h]
      BY <1>2, <1>13, <1>17, <2>1
    <3>2. table'[p][n].headers = Headers[h] /\ table'[p][n].url = h /\ n \in 1..Len(table'[p])
      BY <1>3, <1>5, <1>7, <3>1
    <3> QED
      BY <3>2 DEF Whole
  <2>2. ASSUME k < Headers[h], NEW q \in Runs, Leads(q, h)
        PROVE  \E r \in Runs : Leads(r, h)'
    <3>1. /\ phase[q] = "header" /\ InHand(q) = h /\ last[q] \in 1..Headers[h]
          /\ \A c \in cut[h] : c < last[q]
      BY <2>2 DEF Leads
    <3>2. cut[h] \subseteq Nat /\ last[q] \in Nat
      BY <1>17, <3>1
    <3>3. CASE last' = [last EXCEPT ![p] = k + 1] /\ cut' = [cut EXCEPT ![h] = @ \cup {k}]
      <4>1. cut'[h] = cut[h] \cup {k} /\ last'[p] = k + 1
        BY <1>17, <3>3 DEF Walkers
      <4>2. CASE q # p /\ k < last[q]
        <5>1. last'[q] = last[q] /\ \A c \in cut'[h] : c < last[q]
          BY <1>7, <3>1, <4>1, <4>2
        <5> QED
          BY <1>2, <1>8, <3>1, <5>1 DEF Leads
      <4>3. CASE q = p \/ ~(k < last[q])
        <5>1. last[q] <= k
          BY <1>1, <1>3, <3>2, <4>3
        <5>2. \A c \in cut'[h] : c < k + 1
          BY <1>3, <3>1, <3>2, <4>1, <5>1
        <5>3. k + 1 \in 1..Headers[h]
          BY <1>3, <1>13, <1>17, <2>2
        <5>4. Leads(p, h)'
          BY <1>1, <1>2, <1>8, <4>1, <5>2, <5>3 DEF Leads
        <5> QED
          BY <5>4
      <4> QED
        BY <4>2, <4>3
    <3>4. CASE k \in cut[h] /\ UNCHANGED cut
      <4>1. q # p
        BY <1>1, <1>3, <3>1, <3>4
      <4>2. last'[q] = last[q]
        BY <1>7, <4>1
      <4> QED
        BY <1>2, <1>8, <3>1, <3>4, <4>2 DEF Leads
    <3> QED
      BY <1>2, <2>2, <3>3, <3>4
  <2> QED
    BY <1>14, <1>16, <1>17, <2>1, <2>2
<1>18. \A e \in Elems : cut'[e] \subseteq Nat /\ (cut'[e] # {} => Took(e)')
  <2> TAKE e \in Elems
  <2>1. CASE e = h
    <3>1. cut'[h] \subseteq Nat
      BY <1>2, <1>3, <2>1 DEF Walkers
    <3> QED
      BY <1>12, <1>16, <2>1, <3>1
  <2>2. CASE e # h
    <3>1. cut'[e] = cut[e]
      BY <1>2, <2>2 DEF Walkers
    <3> QED
      BY <1>12, <3>1
  <2> QED
    BY <2>1, <2>2
<1>19. \A e \in Elems : Took(e)' => Whole(e)' \/ \E q \in Runs : Leads(q, e)'
  BY <1>12, <1>14, <1>15, <1>17
<1> QED
  BY <1>9, <1>18, <1>19

LEMMA HeaderStep == HeaderInv /\ [Next]_vars => HeaderInv'
<1> USE DEF HeaderInv
<1>1. SUFFICES ASSUME HeaderInv, [Next]_vars PROVE HeaderInv'
  OBVIOUS
<1>2. ASSUME NEW p \in Runs, UNCHANGED <<table, last, cut>>,
             NEW x, phase' = [phase EXCEPT ![p] = x], x # "header",
             phase[p] # "header" \/ last[p] \notin 1..Headers[InHand(p)]
      PROVE  HeaderInv'
  <2>1. ASSUME NEW q \in Runs, NEW e \in Elems, Leads(q, e) PROVE q # p
    BY <1>2, <2>1 DEF Leads
  <2>2. CASE \A e \in Elems : ~Leads(p, e)
    BY <1>1, <1>2, <2>2, HeadersAside
  <2> QED
    BY <2>1, <2>2
<1>3. ASSUME NEW p \in Runs, UNCHANGED <<phase, table, last, cut>>, phase[p] = "walk"
      PROVE  HeaderInv'
  <2>1. phase' = [phase EXCEPT ![p] = "walk"]
    BY <1>1, <1>3 DEF Walkers
  <2> QED
    BY <1>2, <1>3, <2>1
<1>4. ASSUME NEW p \in Runs, Count(p) PROVE HeaderInv'
  <2>1. /\ phase' = [phase EXCEPT ![p] = "failed"] \/ phase' = [phase EXCEPT ![p] = "walk"]
        /\ phase[p] = "start" /\ UNCHANGED <<table, last, cut>>
    BY <1>4 DEF Count
  <2> QED
    BY <1>2, <2>1
<1>5. ASSUME NEW p \in Runs, SkipOther(p) \/ EnterSequence(p) \/ NextItem(p) PROVE HeaderInv'
  <2>1. UNCHANGED <<phase, table, last, cut>> /\ phase[p] = "walk"
    BY <1>5 DEF SkipOther, EnterSequence, NextItem, AtKid
  <2> QED
    BY <1>3, <2>1
<1>6. ASSUME NEW p \in Runs, EndLoop(p) PROVE HeaderInv'
  <2>1. /\ phase' = [phase EXCEPT ![p] = "ready"] \/ phase' = [phase EXCEPT ![p] = "walk"]
        /\ phase[p] = "walk" /\ UNCHANGED <<table, last, cut>>
    BY <1>6 DEF EndLoop
  <2> QED
    BY <1>2, <2>1
<1>7. ASSUME NEW p \in Runs, ParseFails(p) \/ ParseCrashes(p) PROVE HeaderInv'
  <2>1. /\ phase' = [phase EXCEPT ![p] = "failed"] \/ phase' = [phase EXCEPT ![p] = "crashed"]
        /\ phase[p] = "walk" /\ UNCHANGED <<table, last, cut>>
    BY <1>7 DEF ParseFails, ParseCrashes, AtKid
  <2> QED
    BY <1>2, <2>1
<1>8. ASSUME NEW p \in Runs, UrlDone(p) PROVE HeaderInv'
  <2>1. /\ phase' = [phase EXCEPT ![p] = "walk"]
        /\ last[p] \notin 1..Headers[InHand(p)] /\ UNCHANGED <<table, last, cut>>
    BY <1>8 DEF UrlDone
  <2> QED
    BY <1>2, <2>1
<1>9. CASE UNCHANGED vars
  BY <1>1, <1>9 DEF vars, Walkers, InHand, Took, Whole, Leads
<1> QED
  BY <1>1, <1>4, <1>5, <1>6, <1>7, <1>8, <1>9, HeadersBegin, HeaderTaken
     DEF Next, Run, Stopped

LEMMA HeaderStart == Init => HeaderInv
<1>1. SUFFICES ASSUME Init PROVE HeaderInv
  OBVIOUS
<1>2. \A p \in Runs : phase[p] = "start" /\ table[p] = <<>> /\ Len(table[p]) = 0
  BY <1>1 DEF Init
<1>3. \A e \in Elems : cut[e] = {} /\ ~Took(e)
  BY <1>1, <1>2 DEF Init, Took
<1>4. IsTable(<<>>)
  <2>1. <<>> \in Seq({})
    OBVIOUS
  <2> QED
    BY <2>1 DEF IsTable
<1>5. Walkers
  BY <1>1, <1>2, <1>4 DEF Init, Walkers
<1> QED
  BY <1>3, <1>5 DEF HeaderInv

(* Where all headers of an element are wanted and no run is at its          *)
(* attribute any more, none leads, so one of them has the whole.            *)
LEMMA WholeWhenIdle == HeaderInv => HeadersReachSomeone
<1> SUFFICES ASSUME HeaderInv PROVE HeadersReachSomeone
  OBVIOUS
<1> DEFINE took(e) == {p \in Runs : \E n \in 1..Len(table[p]) : table[p][n].url = e}
           busy(e) == {p \in took(e) : phase[p] = "header" /\ InHand(p) = e}
<1>1. SUFFICES ASSUME NEW e \in Elems, took(e) # {}, busy(e) = {}
               PROVE  \E p \in took(e) : \E n \in 1..Len(table[p]) :
                         table[p][n].url = e /\ table[p][n].headers = Headers[e]
  BY DEF HeadersReachSomeone
<1>2. Took(e)
  BY <1>1 DEF Took
<1>3. ASSUME NEW p \in Runs, Leads(p, e) PROVE FALSE
  <2>1. phase[p] = "header" /\ InHand(p) = e /\ Len(table[p]) > 0 /\ IsTable(table[p])
    BY <1>3 DEF Leads, HeaderInv, Walkers
  <2>2. Len(table[p]) \in 1..Len(table[p])
    <3>1. Len(table[p]) \in Nat
      BY <2>1 DEF IsTable
    <3> QED
      BY <2>1, <3>1
  <2>3. p \in took(e)
    BY <2>1, <2>2 DEF InHand
  <2> QED
    BY <1>1, <2>1, <2>3
<1>4. PICK p \in Runs : \E n \in 1..Len(table[p]) :
                          table[p][n].url = e /\ table[p][n].headers = Headers[e]
  BY <1>2, <1>3 DEF HeaderInv, Whole
<1> QED
  BY <1>4

(* However profile runs interleave in the apr_strtok calls of               *)
(* parse_xml_url_info on one shared extraheader attribute, and whatever     *)
(* separators of it are NUL by then: once nobody is in the attribute any    *)
(* more, some run that took the URL has every header of it.                 *)
THEOREM ReachesSomeone == Spec => []HeadersReachSomeone
<1>1. Spec => []HeaderInv
  BY HeaderStart, HeaderStep, PTL DEF Spec
<1> QED
  BY <1>1, WholeWhenIdle, PTL

-----------------------------------------------------------------------------
(* The size of the table.  Induction over the document goes by its order:   *)
(* the children of an element have greater numbers than the element.        *)

LEMMA NumbersFrom ==
    ASSUME NEW S, 0 \in S, \A n \in Nat : n \in S => n + 1 \in S
    PROVE  \A n \in Nat : n \in S
<1> DEFINE T == Nat \ S
           R == OpToRel(<, Nat)
<1>1. SUFFICES ASSUME T # {} PROVE FALSE
  OBVIOUS
<1>2. IsWellFoundedOn(R, Nat)
  BY NatLessThanWellFounded
<1>3. T \subseteq Nat
  OBVIOUS
<1> HIDE DEF R
<1>4. PICK x \in T : \A y \in T : ~(<<y, x>> \in R)
  <2> HIDE DEF T
  <2> QED
    BY <1>1, <1>2, <1>3, WFMin
<1>5. x # 0 /\ x - 1 \in Nat /\ x - 1 < x
  OBVIOUS
<1>6. <<x - 1, x>> \in R
  BY <1>5, <1>4 DEF R, OpToRel
<1> QED
  BY <1>4, <1>5, <1>6

(* The sum over the first k children of e, given what is below each child.  *)
IsSum(g, f, e, m) ==
    g = [k \in 0..m |-> IF k = 0 THEN 0 ELSE g[k - 1] + Counts(Kids[e][k], f[Kids[e][k]])]
SumOf(f, e) == (CHOOSE g : IsSum(g, f, e, Len(Kids[e])))[Len(Kids[e])]

LEMMA SumExists ==
    ASSUME NEW f, NEW e, NEW m \in Nat
    PROVE  \E g : IsSum(g, f, e, m)
<1> DEFINE S == {n \in Nat : \E g : IsSum(g, f, e, n)}
           W(k) == Counts(Kids[e][k], f[Kids[e][k]])
<1>1. 0 \in S
  <2> DEFINE g == [k \in 0..0 |-> 0]
  <2>1. g = [k \in 0..0 |-> IF k = 0 THEN 0 ELSE g[k - 1] + W(k)]
    OBVIOUS
  <2> HIDE DEF g
  <2>2. IsSum(g, f, e, 0)
    BY <2>1 DEF IsSum
  <2> QED
    BY <2>2
<1>2. ASSUME NEW n \in Nat, n \in S PROVE n + 1 \in S
  <2>1. PICK g : IsSum(g, f, e, n)
    BY <1>2
  <2> DEFINE h == [k \in 0..(n + 1) |-> IF k = n + 1 THEN g[n] + W(n + 1) ELSE g[k]]
             next == [k \in 0..(n + 1) |-> IF k = 0 THEN 0 ELSE h[k - 1] + W(k)]
  <2> HIDE DEF W
  <2>2. \A k \in 0..n : g[k] = IF k = 0 THEN 0 ELSE g[k - 1] + W(k)
    BY <2>1 DEF IsSum, W
  <2>3. \A k \in 0..n : h[k] = g[k]
    BY <1>2
  <2>4. h[n + 1] = g[n] + W(n + 1)
    BY <1>2
  <2>5. ASSUME NEW k \in 0..(n + 1) PROVE h[k] = next[k]
    <3>1. CASE k = 0
      BY <1>2, <2>2, <2>3, <3>1
    <3>2. CASE k = n + 1
      <4>1. n \in 0..n /\ k # 0 /\ k - 1 = n
        BY <1>2, <3>2
      <4>2. h[n] = g[n]
        BY <2>3, <4>1
      <4>3. next[k] = h[n] + W(n + 1)
        BY <3>2, <4>1
      <4> QED
        BY <2>4, <3>2, <4>2, <4>3
    <3>3. CASE k \in 1..n
      <4>1. k \in 0..n /\ k - 1 \in 0..n /\ k # 0
        BY <1>2, <3>3
      <4>2. h[k] = g[k] /\ h[k - 1] = g[k - 1]
        BY <2>3, <4>1
      <4>3. next[k] = h[k - 1] + W(k)
        BY <4>1
      <4> QED
        BY <2>2, <4>1, <4>2, <4>3
    <3> QED
      BY <1>2, <3>1, <3>2, <3>3
  <2>6. h = next
    BY <2>5
  <2>7. IsSum(h, f, e, n + 1)
    BY <2>6 DEF IsSum, W
  <2> HIDE DEF h
  <2> QED
    BY <1>2, <2>7
<1> HIDE DEF S
<1>3. \A n \in Nat : n \in S
  BY <1>1, <1>2, NumbersFrom
<1> QED
  BY <1>3 DEF S

(* A sum depends on nothing but what is below the children. *)
LEMMA SumDepends ==
    ASSUME NEW e, NEW f, NEW h, \A k \in 1..Len(Kids[e]) : f[Kids[e][k]] = h[Kids[e][k]]
    PROVE  SumOf(f, e) = SumOf(h, e)
<1> DEFINE m == Len(Kids[e])
           Sums(w, g) == [k \in 0..m |-> IF k = 0 THEN 0
                                          ELSE g[k - 1] + Counts(Kids[e][k], w[Kids[e][k]])]
<1>1. \A g : Sums(f, g) = Sums(h, g)
  <2> TAKE g
  <2>1. ASSUME NEW k \in 0..m PROVE Sums(f, g)[k] = Sums(h, g)[k]
    <3>1. CASE k = 0
      BY <3>1
    <3>2. CASE k # 0
      <4>1. k \in 1..m
        BY <3>2
      <4>2. f[Kids[e][k]] = h[Kids[e][k]]
        BY <4>1
      <4> QED
        BY <4>2
    <3> QED
      BY <3>1, <3>2
  <2> QED
    BY <2>1
<1>2. \A g : IsSum(g, f, e, m) <=> IsSum(g, h, e, m)
  BY <1>1 DEF IsSum
<1>3. (CHOOSE g : IsSum(g, f, e, m)) = (CHOOSE g : IsSum(g, h, e, m))
  BY <1>2
<1> QED
  BY <1>3 DEF SumOf

(* What UrlsBelow is: for every element the sum over its children.          *)
LEMMA BelowIs == UrlsBelow = [e \in Elems |-> SumOf(UrlsBelow, e)]
<1> DEFINE N == Cardinality(Elems)
           Holds(f, n) == \A e \in Elems : N - e < n => f[e] = SumOf(f, e)
           S == {n \in Nat : \E f : Holds(f, n)}
<1>1. N \in Nat /\ Elems = 1..N
  BY UrlListAssumption, FS_CardinalityType
<1> HIDE DEF N
<1>2. 0 \in S
  <2> DEFINE f == [e \in Elems |-> 0]
  <2>1. \A e \in Elems : ~(N - e < 0)
    BY <1>1
  <2>2. Holds(f, 0)
    BY <2>1
  <2> QED
    BY <2>2
<1>3. ASSUME NEW n \in Nat, n \in S PROVE n + 1 \in S
  <2>1. PICK f : Holds(f, n)
    BY <1>3
  <2> DEFINE h == [e \in Elems |-> SumOf(f, e)]
  <2>2. ASSUME NEW e \in Elems, N - e < n + 1 PROVE h[e] = SumOf(h, e)
    <3>1. ASSUME NEW k \in 1..Len(Kids[e]) PROVE f[Kids[e][k]] = h[Kids[e][k]]
      <4>1. PICK c : c = Kids[e][k]
        OBVIOUS
      <4>2. c \in Elems /\ e < c
        <5>1. Kids[e] \in Seq(Elems) /\ DOMAIN Kids[e] = 1..Len(Kids[e])
          BY UrlListAssumption
        <5> QED
          BY <4>1, <5>1, UrlListAssumption
      <4>3. N - c < n
        BY <1>1, <2>2, <4>2
      <4>4. f[c] = SumOf(f, c)
        BY <2>1, <4>2, <4>3
      <4> QED
        BY <4>1, <4>2, <4>4
    <3> HIDE DEF h
    <3>2. SumOf(f, e) = SumOf(h, e)
      BY <3>1, SumDepends
    <3> QED
      BY <3>2 DEF h
  <2> HIDE DEF h
  <2>3. Holds(h, n + 1)
    BY <2>2
  <2> QED
    BY <1>3, <2>3
<1>4. \A n \in Nat : n \in S
  <2> HIDE DEF S
  <2> QED
    BY <1>2, <1>3, NumbersFrom
<1>5. PICK f : Holds(f, N)
  BY <1>1, <1>4
<1> DEFINE F == [e \in Elems |-> SumOf(f, e)]
<1>6. \A e \in Elems : F[e] = f[e]
  <2> TAKE e \in Elems
  <2>1. N - e < N
    BY <1>1
  <2> QED
    BY <1>5, <2>1
<1>7. F = [e \in Elems |-> SumOf(F, e)]
  <2>1. ASSUME NEW e \in Elems PROVE SumOf(f, e) = SumOf(F, e)
    <3>1. \A k \in 1..Len(Kids[e]) : Kids[e][k] \in Elems
      BY UrlListAssumption
    <3>2. \A k \in 1..Len(Kids[e]) : f[Kids[e][k]] = F[Kids[e][k]]
      BY <1>6, <3>1
    <3> HIDE DEF F
    <3> QED
      BY <3>2, SumDepends
  <2>2. PICK G : G = F
    OBVIOUS
  <2>3. \A e \in Elems : SumOf(f, e) = SumOf(G, e)
    BY <2>1, <2>2
  <2> QED
    BY <2>2, <2>3
<1>8. \E g : g = [e \in Elems |-> SumOf(g, e)]
  <2> HIDE DEF F
  <2> QED
    BY <1>7
<1>9. UrlsBelow = CHOOSE g : g = [e \in Elems |-> SumOf(g, e)]
  BY DEF UrlsBelow, SumOf, IsSum
<1> QED
  BY <1>8, <1>9

(* The URLs below the first k children of an element, and below a child.    *)
Part(e, k) == (CHOOSE g : IsSum(g, UrlsBelow, e, Len(Kids[e])))[k]
Weight(c) == Counts(c, UrlsBelow[c])

LEMMA PartIs ==
    ASSUME NEW e \in Elems
    PROVE  /\ Len(Kids[e]) \in Nat
           /\ \A k \in 1..Len(Kids[e]) : Kids[e][k] \in Elems /\ e < Kids[e][k]
           /\ Part(e, 0) = 0
           /\ \A k \in 1..Len(Kids[e]) : Part(e, k) = Part(e, k - 1) + Weight(Kids[e][k])
           /\ Part(e, Len(Kids[e])) = UrlsBelow[e]
<1> DEFINE m == Len(Kids[e])
           G == CHOOSE g : IsSum(g, UrlsBelow, e, m)
<1>1. Kids[e] \in Seq(Elems) /\ DOMAIN Kids[e] = 1..m /\ m \in Nat
  BY UrlListAssumption
<1>2. IsSum(G, UrlsBelow, e, m)
  BY <1>1, SumExists
<1>3. UrlsBelow[e] = G[m]
  <2>1. UrlsBelow[e] = SumOf(UrlsBelow, e)
    BY BelowIs
  <2> QED
    BY <2>1 DEF SumOf
<1>4. \A k : Part(e, k) = G[k]
  BY DEF Part
<1> HIDE DEF G
<1>5. \A k \in 0..m : G[k] = IF k = 0 THEN 0
                             ELSE G[k - 1] + Counts(Kids[e][k], UrlsBelow[Kids[e][k]])
  BY <1>2 DEF IsSum
<1>6. \A k \in 1..m : G[k] = G[k - 1] + Weight(Kids[e][k])
  BY <1>1, <1>5 DEF Weight
<1>7. G[0] = 0
  BY <1>1, <1>5
<1>8. \A k \in 1..m : Kids[e][k] \in Elems /\ e < Kids[e][k]
  BY <1>1, UrlListAssumption
<1> QED
  BY <1>1, <1>3, <1>4, <1>6, <1>7, <1>8

LEMMA WeightNatural ==
    ASSUME NEW c \in Elems, UrlsBelow[c] \in Nat
    PROVE  Weight(c) \in Nat
<1>1. PICK i, b : i = Items[c] /\ b = UrlsBelow[c] /\ i \in Nat /\ b \in Nat
  BY UrlListAssumption
<1>2. i * b \in Nat
  BY <1>1
<1>3. Weight(c) \in {0, 1, i * b}
  BY <1>1 DEF Weight, Counts, Times
<1> QED
  BY <1>2, <1>3

(* A part is a number, and no greater than the whole.                       *)
LEMMA PartNatural ==
    ASSUME NEW e \in Elems, \A k \in 1..Len(Kids[e]) : UrlsBelow[Kids[e][k]] \in Nat
    PROVE  \A k \in 0..Len(Kids[e]) : Part(e, k) \in Nat /\ Part(e, k) <= UrlsBelow[e]
<1> DEFINE m == Len(Kids[e])
           S == {k \in Nat : k <= m => Part(e, k) \in Nat}
           T == {j \in Nat : j <= m => Part(e, m - j) <= Part(e, m)}
<1>1. m \in Nat /\ \A k \in 1..m : Weight(Kids[e][k]) \in Nat
  BY PartIs, WeightNatural
<1>2. \A k \in 1..m : Part(e, k) = Part(e, k - 1) + Weight(Kids[e][k])
  BY PartIs
<1>3. \A k \in Nat : k \in S
  <2>1. 0 \in S
    BY PartIs
  <2>2. ASSUME NEW k \in Nat, k \in S PROVE k + 1 \in S
    <3>1. SUFFICES ASSUME k + 1 <= m PROVE Part(e, k + 1) \in Nat
      BY <2>2
    <3>2. k + 1 \in 1..m /\ (k + 1) - 1 = k /\ Part(e, k) \in Nat
      BY <1>1, <2>2, <3>1
    <3> QED
      BY <1>1, <1>2, <3>2
  <2> HIDE DEF S
  <2> QED
    BY <2>1, <2>2, NumbersFrom
<1>4. \A k \in 0..m : Part(e, k) \in Nat
  BY <1>1, <1>3
<1>5. \A j \in Nat : j \in T
  <2>1. 0 \in T
    BY <1>1, <1>4
  <2>2. ASSUME NEW j \in Nat, j \in T PROVE j + 1 \in T
    <3>1. SUFFICES ASSUME j + 1 <= m PROVE Part(e, m - (j + 1)) <= Part(e, m)
      BY <2>2
    <3>2. PICK k : k = m - j
      OBVIOUS
    <3>3. k \in 1..m /\ k - 1 = m - (j + 1) /\ k - 1 \in 0..m /\ k \in 0..m /\ m \in 0..m
      BY <1>1, <2>2, <3>1, <3>2
    <3>4. Part(e, k) = Part(e, k - 1) + Weight(Kids[e][k]) /\ Weight(Kids[e][k]) \in Nat
      BY <1>1, <1>2, <3>3
    <3>5. Part(e, k) <= Part(e, m)
      BY <2>2, <3>1, <3>2
    <3>6. Part(e, k - 1) \in Nat /\ Part(e, k) \in Nat /\ Part(e, m) \in Nat
      BY <1>4, <3>3
    <3>7. Part(e, k - 1) <= Part(e, m)
      BY <3>4, <3>5, <3>6
    <3> QED
      BY <3>3, <3>7
  <2> HIDE DEF T
  <2> QED
    BY <2>1, <2>2, NumbersFrom
<1>6. ASSUME NEW k \in 0..m PROVE Part(e, k) <= Part(e, m)
  <2>1. m - k \in Nat /\ m - k <= m /\ m - (m - k) = k
    BY <1>1
  <2> QED
    BY <1>5, <2>1
<1> QED
  BY <1>4, <1>6, PartIs

LEMMA BelowNatural == \A e \in Elems : UrlsBelow[e] \in Nat
<1> DEFINE N == Cardinality(Elems)
           S == {n \in Nat : \A e \in Elems : N - e < n => UrlsBelow[e] \in Nat}
<1>1. N \in Nat /\ Elems = 1..N
  BY UrlListAssumption, FS_CardinalityType
<1> HIDE DEF N
<1>2. 0 \in S
  BY <1>1
<1>3. ASSUME NEW n \in Nat, n \in S PROVE n + 1 \in S
  <2>1. SUFFICES ASSUME NEW e \in Elems, N - e < n + 1 PROVE UrlsBelow[e] \in Nat
    BY <1>3
  <2>2. ASSUME NEW k \in 1..Len(Kids[e]) PROVE UrlsBelow[Kids[e][k]] \in Nat
    <3>1. Kids[e][k] \in Elems /\ e < Kids[e][k]
      BY PartIs
    <3>2. N - Kids[e][k] < n
      BY <1>1, <2>1, <3>1
    <3> QED
      BY <1>3, <3>1, <3>2
  <2>3. Len(Kids[e]) \in 0..Len(Kids[e]) /\ Part(e, Len(Kids[e])) = UrlsBelow[e]
    BY PartIs
  <2> QED
    BY <2>2, <2>3, PartNatural
<1>4. \A n \in Nat : n \in S
  <2> HIDE DEF S
  <2> QED
    BY <1>2, <1>3, NumbersFrom
<1>5. \A e \in Elems : N - e < N
  BY <1>1
<1> QED
  BY <1>1, <1>4, <1>5

(* The loops a run is in: the first over the urllist, each next one over a  *)
(* sequence, the child the loop around it is at.                            *)
Frame == [elem : Elems, item : Nat \ {0}, kid : Nat \ {0}]

Nested(s) ==
    /\ s \in Seq(Frame) /\ Len(s) > 0
    /\ s[1].elem = Root /\ s[1].item = 1
    /\ \A i \in 1..Len(s) : s[i].kid <= Len(Kids[s[i].elem]) + 1
    /\ \A i \in 1..(Len(s) - 1) :
         /\ s[i].kid > 1 /\ s[i + 1].elem = Kids[s[i].elem][s[i].kid - 1]
         /\ IsSequence(s[i + 1].elem) /\ s[i + 1].item <= Items[s[i + 1].elem]
         /\ Root < s[i + 1].elem

(* What a loop has added to the table when it has done k children.          *)
Added(f, k) == (f.item - 1) * UrlsBelow[f.elem] + Part(f.elem, k)

(* How long the table was when each loop began, and is now.                 *)
Steps(a, s) ==
    /\ a \in [0..Len(s) -> Nat] /\ a[0] = 0
    /\ \A i \in 1..(Len(s) - 1) : a[i] = a[i - 1] + Added(s[i], s[i].kid - 2)
    /\ a[Len(s)] = a[Len(s) - 1] + Added(s[Len(s)], s[Len(s)].kid - 1)
Reached(s, n) == \E a : Steps(a, s) /\ n = a[Len(s)]

LEMMA Products == \A i, w \in Nat : i * w \in Nat /\ (i + 1) * w = i * w + w
  OBVIOUS

LEMMA AddedNatural ==
    ASSUME NEW f \in Frame
    PROVE  /\ f.elem \in Elems /\ f.item \in Nat \ {0} /\ f.kid \in Nat \ {0}
           /\ UrlsBelow[f.elem] \in Nat
           /\ \A k \in 0..Len(Kids[f.elem]) :
                /\ Added(f, k) \in Nat
                /\ Added(f, k) <= f.item * UrlsBelow[f.elem]
           /\ f.kid <= Len(Kids[f.elem]) + 1 =>
                f.kid - 1 \in 0..Len(Kids[f.elem]) /\ Added(f, f.kid - 1) \in Nat
<1>1. f.elem \in Elems /\ f.item \in Nat \ {0} /\ f.kid \in Nat \ {0}
  BY DEF Frame
<1>2. PICK i, w : i = f.item - 1 /\ w = UrlsBelow[f.elem] /\ i \in Nat /\ w \in Nat
  BY <1>1, BelowNatural
<1>3. i * w \in Nat /\ (i + 1) * w = i * w + w /\ i + 1 = f.item
  <2>1. i + 1 = f.item
    BY <1>1, <1>2
  <2> QED
    BY <1>2, <2>1, Products
<1>4. PICK y : y = i * w
  OBVIOUS
<1>5. \A k \in 0..Len(Kids[f.elem]) : Part(f.elem, k) \in Nat /\ Part(f.elem, k) <= w
  BY <1>1, <1>2, BelowNatural, PartNatural, PartIs
<1>6. \A k : Added(f, k) = y + Part(f.elem, k)
  BY <1>2, <1>4 DEF Added
<1>7. f.item * UrlsBelow[f.elem] = y + w
  BY <1>2, <1>3, <1>4
<1>8. ASSUME NEW k \in 0..Len(Kids[f.elem])
      PROVE  Added(f, k) \in Nat /\ Added(f, k) <= f.item * UrlsBelow[f.elem]
  <2>1. PICK q : q = Part(f.elem, k) /\ q \in Nat /\ q <= w
    BY <1>5
  <2>2. y \in Nat
    BY <1>3, <1>4
  <2>3. y + q \in Nat /\ y + q <= y + w
    BY <1>2, <2>1, <2>2
  <2> QED
    BY <1>6, <1>7, <2>1, <2>3
<1>9. Len(Kids[f.elem]) \in Nat
  BY <1>1, PartIs
<1>10. f.kid <= Len(Kids[f.elem]) + 1 => f.kid - 1 \in 0..Len(Kids[f.elem])
  BY <1>1, <1>9
<1> QED
  BY <1>1, <1>2, <1>8, <1>10

(* One child more adds its weight.                                          *)
LEMMA AddedNext ==
    ASSUME NEW f \in Frame, NEW k \in 1..Len(Kids[f.elem])
    PROVE  /\ Added(f, k) = Added(f, k - 1) + Weight(Kids[f.elem][k])
           /\ Added(f, k) \in Nat /\ Added(f, k - 1) \in Nat
           /\ Weight(Kids[f.elem][k]) \in Nat
<1>1. PICK e : e = f.elem
  OBVIOUS
<1>2. e \in Elems /\ f.item - 1 \in Nat /\ k \in 0..Len(Kids[e]) /\ k - 1 \in 0..Len(Kids[e])
  <2>1. f.elem \in Elems /\ f.item \in Nat \ {0}
    BY DEF Frame
  <2>2. Len(Kids[e]) \in Nat
    BY <1>1, <2>1, PartIs
  <2> QED
    BY <1>1, <2>1, <2>2
<1>3. Part(e, k) = Part(e, k - 1) + Weight(Kids[e][k])
  BY <1>1, <1>2, PartIs
<1>4. Added(f, k) \in Nat /\ Added(f, k - 1) \in Nat
  BY <1>1, <1>2, AddedNatural
<1>5. Part(e, k) \in Nat /\ Part(e, k - 1) \in Nat /\ Weight(Kids[e][k]) \in Nat
  <2>1. Kids[e][k] \in Elems /\ \A j \in 1..Len(Kids[e]) : Kids[e][j] \in Elems
    BY <1>1, <1>2, PartIs
  <2>2. Part(e, k) \in Nat /\ Part(e, k - 1) \in Nat
    BY <1>2, <2>1, PartNatural, BelowNatural
  <2> QED
    BY <2>1, <2>2, BelowNatural, WeightNatural
<1>6. PICK y : y = (f.item - 1) * UrlsBelow[e] /\ y \in Nat
  BY <1>2, BelowNatural, Products
<1>7. Added(f, k) = y + Part(e, k) /\ Added(f, k - 1) = y + Part(e, k - 1)
  BY <1>1, <1>6 DEF Added
<1>8. Added(f, k) = Added(f, k - 1) + Weight(Kids[e][k])
  BY <1>3, <1>5, <1>6, <1>7
<1> QED
  BY <1>1, <1>4, <1>5, <1>8

LEMMA Shortened ==
    ASSUME NEW S, NEW s \in Seq(S), Len(s) > 0
    PROVE  LET t == SubSeq(s, 1, Len(s) - 1)
           IN  /\ Len(s) \in Nat
               /\ t \in Seq(S) /\ Len(t) = Len(s) - 1
               /\ \A i \in 1..(Len(s) - 1) : t[i] = s[i]
<1>1. PICK n : n = Len(s) - 1
  OBVIOUS
<1>2. n \in Nat /\ n + 1 = Len(s) /\ \A i \in 1..n : s[i] \in S
  BY <1>1
<1>3. PICK t : t = SubSeq(s, 1, n)
  OBVIOUS
<1>4. /\ t \in Seq(S) /\ Len(t) = IF 1 <= n THEN n - 1 + 1 ELSE 0
      /\ \A i \in 1..(n - 1 + 1) : t[i] = s[1 + i - 1]
  BY <1>2, <1>3, SubSeqProperties
<1>5. n - 1 + 1 = n /\ \A i \in 1..n : 1 + i - 1 = i
  BY <1>2
<1>6. Len(t) = n /\ \A i \in 1..n : t[i] = s[i]
  BY <1>2, <1>4, <1>5
<1> QED
  BY <1>1, <1>2, <1>3, <1>4, <1>6

LEMMA TopReplaced ==
    ASSUME NEW S, NEW s \in Seq(S), Len(s) > 0, NEW f \in S
    PROVE  LET t == Append(SubSeq(s, 1, Len(s) - 1), f)
           IN  /\ Len(s) \in Nat
               /\ t \in Seq(S) /\ Len(t) = Len(s)
               /\ \A i \in 1..(Len(s) - 1) : t[i] = s[i]
               /\ t[Len(s)] = f
<1>1. PICK b : b = SubSeq(s, 1, Len(s) - 1)
  OBVIOUS
<1>2. /\ Len(s) \in Nat /\ b \in Seq(S) /\ Len(b) = Len(s) - 1
      /\ \A i \in 1..(Len(s) - 1) : b[i] = s[i]
  BY <1>1, Shortened
<1>3. PICK t : t = Append(b, f)
  OBVIOUS
<1>4. /\ t \in Seq(S) /\ Len(t) = Len(s)
      /\ \A i \in 1..(Len(s) - 1) : t[i] = s[i]
      /\ t[Len(s)] = f
  BY <1>2, <1>3, AppendProperties
<1> QED
  BY <1>1, <1>2, <1>3, <1>4

(* The frame in hand goes on by d entries.                                  *)
LEMMA TopGoesOn ==
    ASSUME NEW s, Nested(s), NEW n, Reached(s, n), NEW d \in Nat, NEW f \in Frame,
           f.elem = s[Len(s)].elem, f.kid <= Len(Kids[f.elem]) + 1,
           f.item = s[Len(s)].item \/ (Len(s) > 1 /\ f.item <= Items[f.elem]),
           Added(f, f.kid - 1) = Added(s[Len(s)], s[Len(s)].kid - 1) + d
    PROVE  LET t == Append(SubSeq(s, 1, Len(s) - 1), f)
           IN  Nested(t) /\ Reached(t, n + d)
<1>1. PICK t : t = Append(SubSeq(s, 1, Len(s) - 1), f)
  OBVIOUS
<1>2. PICK m : m = Len(s)
  OBVIOUS
<1>3. /\ m \in Nat /\ m > 0 /\ m \in 1..m /\ s \in Seq(Frame)
      /\ t \in Seq(Frame) /\ Len(t) = m
      /\ \A i \in 1..(m - 1) : t[i] = s[i]
      /\ t[m] = f
  BY <1>1, <1>2, TopReplaced DEF Nested
<1>4. Nested(t)
  <2>1. t[1].elem = Root /\ t[1].item = 1
    <3>1. CASE m = 1
      BY <1>2, <1>3, <3>1 DEF Nested
    <3>2. CASE m > 1
      BY <1>2, <1>3, <3>2 DEF Nested
    <3> QED
      BY <1>3, <3>1, <3>2
  <2>2. ASSUME NEW i \in 1..m PROVE t[i].kid <= Len(Kids[t[i].elem]) + 1
    <3>1. CASE i = m
      BY <1>3, <3>1
    <3>2. CASE i # m
      <4>1. i \in 1..(m - 1)
        BY <1>3, <3>2
      <4> QED
        BY <1>2, <1>3, <4>1 DEF Nested
    <3> QED
      BY <3>1, <3>2
  <2>3. ASSUME NEW i \in 1..(m - 1)
        PROVE  /\ t[i].kid > 1 /\ t[i + 1].elem = Kids[t[i].elem][t[i].kid - 1]
               /\ IsSequence(t[i + 1].elem) /\ t[i + 1].item <= Items[t[i + 1].elem]
               /\ Root < t[i + 1].elem
    <3>1. t[i] = s[i]
      BY <1>3
    <3>2. /\ s[i].kid > 1 /\ s[i + 1].elem = Kids[s[i].elem][s[i].kid - 1]
          /\ IsSequence(s[i + 1].elem) /\ s[i + 1].item <= Items[s[i + 1].elem]
          /\ Root < s[i + 1].elem
      BY <1>2 DEF Nested
    <3>3. CASE i + 1 = m
      <4>1. t[i + 1] = f /\ f.elem = s[i + 1].elem /\ f.item <= Items[f.elem]
        BY <1>2, <1>3, <3>2, <3>3
      <4> QED
        BY <3>1, <3>2, <4>1
    <3>4. CASE i + 1 # m
      <4>1. i + 1 \in 1..(m - 1)
        BY <1>3, <3>4
      <4> QED
        BY <1>3, <3>1, <3>2, <4>1
    <3> QED
      BY <3>3, <3>4
  <2> QED
    BY <1>3, <2>1, <2>2, <2>3 DEF Nested
<1>5. PICK a : Steps(a, s) /\ n = a[m]
  BY <1>2 DEF Reached
<1> DEFINE b == [i \in 0..m |-> IF i = m THEN n + d ELSE a[i]]
<1>6. n \in Nat /\ n + d \in Nat
  BY <1>2, <1>3, <1>5 DEF Steps
<1>7. /\ b \in [0..m -> Nat] /\ b[m] = n + d
      /\ \A i \in 0..(m - 1) : b[i] = a[i]
  BY <1>2, <1>3, <1>5, <1>6 DEF Steps
<1> HIDE DEF b
<1>8. Steps(b, t)
  <2>1. b[0] = 0
    BY <1>3, <1>5, <1>7 DEF Steps
  <2>2. ASSUME NEW i \in 1..(m - 1) PROVE b[i] = b[i - 1] + Added(t[i], t[i].kid - 2)
    <3>1. i \in 0..(m - 1) /\ i - 1 \in 0..(m - 1)
      BY <1>3
    <3>2. a[i] = a[i - 1] + Added(s[i], s[i].kid - 2)
      BY <1>2, <1>5 DEF Steps
    <3> QED
      BY <1>3, <1>7, <3>1, <3>2
  <2>3. b[m] = b[m - 1] + Added(t[m], t[m].kid - 1)
    <3>1. m - 1 \in 0..(m - 1) /\ m - 1 \in 0..m
      BY <1>3
    <3>2. PICK x, y, z : x = Added(s[m], s[m].kid - 1) /\ y = a[m - 1] /\ z = Added(f, f.kid - 1)
      OBVIOUS
    <3>3. n = y + x /\ z = x + d
      BY <1>2, <1>5, <3>2 DEF Steps
    <3>4. y \in Nat /\ n \in Nat
      BY <1>2, <1>5, <1>6, <3>1, <3>2 DEF Steps
    <3>5. x \in Nat
      <4>1. s[m] \in Frame /\ s[m].kid <= Len(Kids[s[m].elem]) + 1
        BY <1>2, <1>3 DEF Nested
      <4> QED
        BY <3>2, <4>1, AddedNatural
    <3>6. n + d = y + z
      BY <3>3, <3>4, <3>5
    <3> QED
      BY <1>3, <1>7, <3>1, <3>2, <3>6
  <2> QED
    BY <1>3, <1>7, <2>1, <2>2, <2>3 DEF Steps
<1>9. Reached(t, n + d)
  BY <1>3, <1>7, <1>8 DEF Reached
<1> QED
  BY <1>1, <1>4, <1>9

(* A loop begins at the child that the one around it has just passed.       *)
LEMMA LoopBegins ==
    ASSUME NEW s, Nested(s), NEW n, Reached(s, n),
           NEW top, top = s[Len(s)], top.kid <= Len(Kids[top.elem]),
           NEW f \in Frame, f.elem = Kids[top.elem][top.kid], f.item = 1, f.kid = 1,
           IsSequence(f.elem), Root < f.elem
    PROVE  LET t == Append(Append(SubSeq(s, 1, Len(s) - 1), Past(top)), f)
           IN  Nested(t) /\ Reached(t, n)
<1>1. PICK m, r : m = Len(s) /\ r = Append(SubSeq(s, 1, Len(s) - 1), Past(top))
  OBVIOUS
<1>2. m \in Nat /\ m > 0 /\ m \in 1..m /\ s \in Seq(Frame) /\ top \in Frame
  BY <1>1 DEF Nested
<1>3. /\ Past(top) \in Frame /\ Past(top).elem = top.elem /\ Past(top).item = top.item
      /\ Past(top).kid = top.kid + 1
      /\ top.elem \in Elems /\ top.item \in Nat \ {0} /\ top.kid \in Nat \ {0}
  BY <1>2 DEF Past, Frame
<1>4. PICK t : t = Append(r, f)
  OBVIOUS
<1>5. /\ r \in Seq(Frame) /\ Len(r) = m /\ r[m] = Past(top)
      /\ \A i \in 1..(m - 1) : r[i] = s[i]
  BY <1>1, <1>2, <1>3, TopReplaced
<1>6. /\ t \in Seq(Frame) /\ Len(t) = m + 1
      /\ \A i \in 1..m : t[i] = r[i]
      /\ t[m + 1] = f
  BY <1>2, <1>4, <1>5, AppendProperties
<1>7. t[m] = Past(top) /\ \A i \in 1..(m - 1) : t[i] = s[i]
  BY <1>2, <1>5, <1>6
<1>8. Len(Kids[top.elem]) \in Nat /\ Len(Kids[f.elem]) \in Nat /\ f.elem \in Elems
      /\ Items[f.elem] \in Nat \ {0} /\ Part(f.elem, 0) = 0 /\ UrlsBelow[f.elem] \in Nat
  <2>1. f.elem \in Elems
    BY DEF Frame
  <2> QED
    BY <1>3, <2>1, PartIs, BelowNatural, UrlListAssumption
<1>9. Nested(t)
  <2>1. t[1].elem = Root /\ t[1].item = 1
    <3>1. CASE m = 1
      BY <1>1, <1>3, <1>7, <3>1 DEF Nested
    <3>2. CASE m > 1
      BY <1>1, <1>2, <1>7, <3>2 DEF Nested
    <3> QED
      BY <1>2, <3>1, <3>2
  <2>2. ASSUME NEW i \in 1..(m + 1) PROVE t[i].kid <= Len(Kids[t[i].elem]) + 1
    <3>1. CASE i = m + 1
      BY <1>6, <1>8, <3>1
    <3>2. CASE i = m
      BY <1>3, <1>7, <1>8, <3>2
    <3>3. CASE i < m
      <4>1. i \in 1..(m - 1)
        BY <1>2, <3>3
      <4> QED
        BY <1>1, <1>7, <4>1 DEF Nested
    <3> QED
      BY <1>2, <3>1, <3>2, <3>3
  <2>3. ASSUME NEW i \in 1..m
        PROVE  /\ t[i].kid > 1 /\ t[i + 1].elem = Kids[t[i].elem][t[i].kid - 1]
               /\ IsSequence(t[i + 1].elem) /\ t[i + 1].item <= Items[t[i + 1].elem]
               /\ Root < t[i + 1].elem
    <3>1. CASE i = m
      <4>1. t[i] = Past(top) /\ t[i + 1] = f
        BY <1>6, <1>7, <3>1
      <4>2. Past(top).kid > 1 /\ Past(top).kid - 1 = top.kid /\ f.item <= Items[f.elem]
        BY <1>3, <1>8
      <4> QED
        BY <1>3, <4>1, <4>2
    <3>2. CASE i # m
      <4>1. i \in 1..(m - 1) /\ i + 1 \in 1..m
        BY <1>2, <3>2
      <4>2. /\ s[i].kid > 1 /\ s[i + 1].elem = Kids[s[i].elem][s[i].kid - 1]
            /\ IsSequence(s[i + 1].elem) /\ s[i + 1].item <= Items[s[i + 1].elem]
            /\ Root < s[i + 1].elem
        BY <1>1, <4>1 DEF Nested
      <4>3. t[i] = s[i] /\ t[i + 1].elem = s[i + 1].elem /\ t[i + 1].item = s[i + 1].item
        <5>1. CASE i + 1 = m
          BY <1>1, <1>3, <1>7, <4>1, <5>1
        <5>2. CASE i + 1 # m
          <6>1. i + 1 \in 1..(m - 1)
            BY <1>2, <4>1, <5>2
          <6> QED
            BY <1>7, <4>1, <6>1
        <5> QED
          BY <5>1, <5>2
      <4> QED
        BY <4>2, <4>3
    <3> QED
      BY <3>1, <3>2
  <2>4. Len(t) - 1 = m /\ Len(t) > 0 /\ Len(t) = m + 1
    BY <1>2, <1>6
  <2> QED
    BY <1>6, <2>1, <2>2, <2>3, <2>4 DEF Nested
<1>10. PICK a : Steps(a, s) /\ n = a[m]
  BY <1>1 DEF Reached
<1> DEFINE b == [i \in 0..(m + 1) |-> IF i = m + 1 THEN n ELSE a[i]]
<1>11. n \in Nat
  BY <1>1, <1>2, <1>10 DEF Steps
<1>12. /\ b \in [0..(m + 1) -> Nat] /\ b[m + 1] = n
       /\ \A i \in 0..m : b[i] = a[i]
  BY <1>1, <1>2, <1>10, <1>11 DEF Steps
<1> HIDE DEF b
<1>13. Steps(b, t)
  <2>1. b[0] = 0
    BY <1>2, <1>10, <1>12 DEF Steps
  <2>2. ASSUME NEW i \in 1..m PROVE b[i] = b[i - 1] + Added(t[i], t[i].kid - 2)
    <3>1. i \in 0..m /\ i - 1 \in 0..m
      BY <1>2
    <3>2. CASE i = m
      <4>1. a[m] = a[m - 1] + Added(top, top.kid - 1)
        BY <1>1, <1>10 DEF Steps
      <4>2. t[m].kid - 2 = top.kid - 1
        BY <1>3, <1>7
      <4>3. Added(t[m], t[m].kid - 2) = Added(top, top.kid - 1)
        BY <1>3, <1>7, <4>2 DEF Added
      <4> QED
        BY <1>12, <3>1, <3>2, <4>1, <4>3
    <3>3. CASE i # m
      <4>1. i \in 1..(m - 1)
        BY <1>2, <3>3
      <4>2. a[i] = a[i - 1] + Added(s[i], s[i].kid - 2)
        BY <1>1, <1>10, <4>1 DEF Steps
      <4> QED
        BY <1>7, <1>12, <3>1, <4>1, <4>2
    <3> QED
      BY <3>2, <3>3
  <2>3. b[m + 1] = b[m] + Added(t[m + 1], t[m + 1].kid - 1)
    <3>1. t[m + 1] = f /\ f.kid - 1 = 0 /\ f.item - 1 = 0
      BY <1>6
    <3>2. Added(f, 0) = 0
      BY <1>8, <3>1 DEF Added
    <3>3. m \in 0..m /\ b[m] = n
      BY <1>2, <1>10, <1>12
    <3> QED
      BY <1>11, <1>12, <3>1, <3>2, <3>3
  <2>4. m + 1 - 1 = m
    BY <1>2
  <2> QED
    BY <1>6, <1>12, <2>1, <2>2, <2>3, <2>4 DEF Steps
<1>14. Reached(t, n)
  BY <1>6, <1>12, <1>13 DEF Reached
<1> QED
  BY <1>1, <1>4, <1>9, <1>14

(* With the last of its values a loop has added what its sequence weighs.   *)
LEMMA LoopEnds ==
    ASSUME NEW s, Nested(s), NEW n, Reached(s, n), Len(s) > 1,
           NEW top, top = s[Len(s)],
           top.kid = Len(Kids[top.elem]) + 1, top.item = Items[top.elem]
    PROVE  LET t == SubSeq(s, 1, Len(s) - 1)
           IN  Nested(t) /\ Reached(t, n)
<1>1. PICK m, t : m = Len(s) - 1 /\ t = SubSeq(s, 1, Len(s) - 1)
  OBVIOUS
<1>2. /\ m \in Nat /\ m > 0 /\ m \in 1..m /\ m + 1 = Len(s) /\ s \in Seq(Frame)
      /\ t \in Seq(Frame) /\ Len(t) = m
      /\ \A i \in 1..m : t[i] = s[i]
  BY <1>1, Shortened DEF Nested
<1>3. Nested(t)
  <2>1. t[1].elem = Root /\ t[1].item = 1
    BY <1>2 DEF Nested
  <2>2. \A i \in 1..m : t[i].kid <= Len(Kids[t[i].elem]) + 1
    BY <1>2 DEF Nested
  <2>3. ASSUME NEW i \in 1..(m - 1)
        PROVE  /\ t[i].kid > 1 /\ t[i + 1].elem = Kids[t[i].elem][t[i].kid - 1]
               /\ IsSequence(t[i + 1].elem) /\ t[i + 1].item <= Items[t[i + 1].elem]
               /\ Root < t[i + 1].elem
    <3>1. i \in 1..m /\ i + 1 \in 1..m /\ i \in 1..(Len(s) - 1)
      BY <1>2
    <3> QED
      BY <1>2, <3>1 DEF Nested
  <2> QED
    BY <1>2, <2>1, <2>2, <2>3 DEF Nested
<1>4. PICK low : low = s[m]
  OBVIOUS
<1>5. /\ low \in Frame /\ low.kid > 1 /\ top.elem = Kids[low.elem][low.kid - 1]
      /\ IsSequence(top.elem) /\ low.kid <= Len(Kids[low.elem]) + 1
      /\ top \in Frame
  <2>1. m \in 1..(Len(s) - 1) /\ m \in 1..Len(s) /\ Len(s) \in 1..Len(s)
    BY <1>2
  <2> QED
    BY <1>2, <1>4, <2>1 DEF Nested
<1>6. /\ top.elem \in Elems /\ top.item \in Nat \ {0} /\ top.kid \in Nat \ {0}
       /\ low.elem \in Elems /\ low.item \in Nat \ {0} /\ low.kid \in Nat \ {0}
  BY <1>5 DEF Frame
<1>7. Added(top, top.kid - 1) = Weight(top.elem)
  <2>0. Len(Kids[top.elem]) \in Nat /\ Part(top.elem, Len(Kids[top.elem])) = UrlsBelow[top.elem]
    BY <1>6, PartIs
  <2>1. top.kid - 1 = Len(Kids[top.elem]) /\ Part(top.elem, top.kid - 1) = UrlsBelow[top.elem]
    BY <2>0
  <2>2. PICK i, w : i = top.item - 1 /\ w = UrlsBelow[top.elem] /\ i \in Nat /\ w \in Nat
    BY <1>6, BelowNatural
  <2>3. Added(top, top.kid - 1) = i * w + w
    BY <2>1, <2>2 DEF Added
  <2>4. i + 1 = Items[top.elem]
    BY <1>6, <2>2
  <2>5. Weight(top.elem) = (i + 1) * w
    BY <1>5, <2>2, <2>4 DEF Weight, Counts, Times, IsSequence
  <2>6. (i + 1) * w = i * w + w
    BY <2>2, Products
  <2> QED
    BY <2>3, <2>5, <2>6
<1>8. Added(low, low.kid - 1) = Added(low, low.kid - 2) + Weight(top.elem)
  <2>1. PICK k : k = low.kid - 1
    OBVIOUS
  <2>2. k \in 1..Len(Kids[low.elem]) /\ k - 1 = low.kid - 2
    <3>1. Len(Kids[low.elem]) \in Nat
      BY <1>6, PartIs
    <3> QED
      BY <1>5, <1>6, <2>1, <3>1, SMTT(30)
  <2>3. Added(low, k) = Added(low, k - 1) + Weight(Kids[low.elem][k])
    BY <1>5, <2>2, AddedNext
  <2> QED
    BY <1>5, <2>1, <2>2, <2>3
<1>9. PICK a : Steps(a, s) /\ n = a[m + 1]
  BY <1>2 DEF Reached
<1>10. /\ a \in [0..(m + 1) -> Nat] /\ a[0] = 0
       /\ \A i \in 1..m : a[i] = a[i - 1] + Added(s[i], s[i].kid - 2)
       /\ a[m + 1] = a[m] + Added(top, top.kid - 1)
  <2>1. (m + 1) - 1 = m /\ Len(s) = m + 1
    BY <1>2
  <2> QED
    BY <1>9, <2>1 DEF Steps
<1> DEFINE b == [i \in 0..m |-> IF i = m THEN n ELSE a[i]]
<1>11. n \in Nat
  BY <1>2, <1>9, <1>10
<1>12. /\ b \in [0..m -> Nat] /\ b[m] = n
       /\ \A i \in 0..(m - 1) : b[i] = a[i]
  BY <1>2, <1>10, <1>11
<1> HIDE DEF b
<1>13. Steps(b, t)
  <2>1. b[0] = 0
    <3>1. 0 \in 0..(m - 1)
      BY <1>2
    <3> QED
      BY <1>10, <1>12, <3>1
  <2>2. ASSUME NEW i \in 1..(m - 1) PROVE b[i] = b[i - 1] + Added(t[i], t[i].kid - 2)
    <3>1. i \in 0..(m - 1) /\ i - 1 \in 0..(m - 1) /\ i \in 1..m
      BY <1>2
    <3> QED
      BY <1>2, <1>10, <1>12, <3>1
  <2>3. b[m] = b[m - 1] + Added(t[m], t[m].kid - 1)
    <3>1. m - 1 \in 0..(m - 1) /\ b[m - 1] = a[m - 1] /\ a[m - 1] \in Nat
      BY <1>2, <1>10, <1>12
    <3>2. a[m] = a[m - 1] + Added(low, low.kid - 2)
      BY <1>2, <1>4, <1>10
    <3>3. n = a[m] + Weight(top.elem)
      <4>1. n = a[m] + Added(top, top.kid - 1)
        BY <1>9, <1>10
      <4> QED
        BY <1>7, <4>1
    <3>4. Added(low, low.kid - 2) \in Nat /\ Weight(top.elem) \in Nat
      <4>1. low.kid - 2 \in 0..Len(Kids[low.elem])
        BY <1>5, AddedNatural
      <4> QED
        BY <1>5, <4>1, AddedNatural, WeightNatural, BelowNatural
    <3>5. n = a[m - 1] + Added(low, low.kid - 1)
      BY <1>8, <3>1, <3>2, <3>3, <3>4
    <3>6. t[m] = low
      BY <1>2, <1>4
    <3> QED
      BY <1>12, <3>1, <3>5, <3>6
  <2> QED
    BY <1>2, <1>12, <2>1, <2>2, <2>3 DEF Steps
<1>14. Reached(t, n)
  BY <1>2, <1>12, <1>13 DEF Reached
<1> QED
  BY <1>1, <1>3, <1>14

LEMMA NoMoreTimes == \A i, j, w \in Nat : i <= j => i * w <= j * w
  OBVIOUS

(* The table never outgrows what the urllist counts, and when the outermost *)
(* loop is through it has as much.                                          *)
LEMMA TableBounded ==
    ASSUME NEW s, Nested(s), NEW n, Reached(s, n)
    PROVE  /\ n \in Nat /\ n <= UrlsBelow[Root]
           /\ Len(s) = 1 /\ s[1].kid = Len(Kids[Root]) + 1 => n = UrlsBelow[Root]
<1>1. PICK m : m = Len(s)
  OBVIOUS
<1>2. PICK a : Steps(a, s) /\ n = a[m]
  BY <1>1 DEF Reached
<1>3. /\ m \in Nat /\ m > 0 /\ a \in [0..m -> Nat] /\ a[0] = 0
      /\ \A i \in 1..(m - 1) : a[i] = a[i - 1] + Added(s[i], s[i].kid - 2)
      /\ n = a[m - 1] + Added(s[m], s[m].kid - 1)
  BY <1>1, <1>2 DEF Steps, Nested
<1>4. /\ n \in Nat /\ UrlsBelow[Root] \in Nat /\ Root \in Elems
      /\ s[1].elem = Root /\ s[1].item = 1
  <2>1. m \in 0..m
    BY <1>3
  <2>2. n \in Nat
    BY <1>2, <1>3, <2>1
  <2> QED
    BY <2>2, BelowNatural, UrlListAssumption DEF Nested
<1>5. ASSUME NEW i \in 1..m
      PROVE  /\ s[i] \in Frame /\ s[i].elem \in Elems /\ s[i].item \in Nat /\ s[i].kid \in Nat \ {0}
             /\ s[i].kid <= Len(Kids[s[i].elem]) + 1 /\ Len(Kids[s[i].elem]) \in Nat
             /\ UrlsBelow[s[i].elem] \in Nat
  <2>1. s[i] \in Frame /\ s[i].kid <= Len(Kids[s[i].elem]) + 1
    BY <1>1 DEF Nested
  <2>2. s[i].elem \in Elems /\ s[i].item \in Nat /\ s[i].kid \in Nat \ {0}
    BY <2>1 DEF Frame
  <2> QED
    BY <2>1, <2>2, PartIs, BelowNatural
<1> DEFINE S == {j \in Nat : j < m =>
                   n <= a[m - j - 1] + s[m - j].item * UrlsBelow[s[m - j].elem]}
<1>6. 0 \in S
  <2>1. m \in 1..m /\ m - 0 = m /\ m - 0 - 1 = m - 1 /\ m - 1 \in 0..m
    BY <1>3
  <2>2. s[m] \in Frame /\ s[m].kid - 1 \in 0..Len(Kids[s[m].elem])
    BY <1>5, <2>1
  <2>3. PICK x, y : x = Added(s[m], s[m].kid - 1) /\ y = s[m].item * UrlsBelow[s[m].elem]
    OBVIOUS
  <2>4. x \in Nat /\ x <= y
    BY <2>2, <2>3, AddedNatural
  <2>5. y \in Nat
    BY <1>5, <2>1, <2>3, Products
  <2>6. n <= a[m - 1] + y
    BY <1>3, <2>1, <2>3, <2>4, <2>5
  <2> QED
    BY <2>1, <2>3, <2>6
<1>7. ASSUME NEW j \in Nat, j \in S PROVE j + 1 \in S
  <2>1. SUFFICES ASSUME j + 1 < m
                 PROVE  n <= a[m - (j + 1) - 1] + s[m - (j + 1)].item
                                                    * UrlsBelow[s[m - (j + 1)].elem]
    BY <1>7
  <2>2. PICK i : i = m - (j + 1)
    OBVIOUS
  <2>3. /\ i \in 1..(m - 1) /\ i \in 1..m /\ i + 1 \in 1..m /\ m - j = i + 1 /\ m - j - 1 = i
        /\ i - 1 \in 0..m /\ i \in 0..m
    <3>1. m \in Nat /\ j \in Nat /\ i = m - (j + 1) /\ j + 1 < m
      BY <1>3, <1>7, <2>1, <2>2
    <3> HIDE DEF S
    <3>2. i \in Nat /\ i >= 1 /\ i <= m - 1 /\ m - j = i + 1 /\ m - j - 1 = i
      BY <3>1
    <3> QED
      BY <3>1, <3>2
  <2>4. n <= a[i] + s[i + 1].item * UrlsBelow[s[i + 1].elem]
    <3>1. j < m
      BY <1>3, <1>7, <2>1
    <3> QED
      BY <1>7, <2>3, <3>1
  <2>5. PICK c : c = s[i + 1].elem
    OBVIOUS
  <2>6. /\ s[i].kid > 1 /\ c = Kids[s[i].elem][s[i].kid - 1]
        /\ IsSequence(c) /\ s[i + 1].item <= Items[c]
    BY <1>1, <2>3, <2>5 DEF Nested
  <2>7. /\ c \in Elems /\ UrlsBelow[c] \in Nat /\ Items[c] \in Nat /\ s[i + 1].item \in Nat
        /\ Weight(c) = Items[c] * UrlsBelow[c]
    <3>1. c \in Elems /\ s[i + 1].item \in Nat /\ UrlsBelow[c] \in Nat
      BY <1>5, <2>3, <2>5
    <3> QED
      BY <2>6, <3>1, UrlListAssumption DEF Weight, Counts, Times, IsSequence
  <2>8. PICK x : x = s[i + 1].item * UrlsBelow[c] /\ x \in Nat /\ x <= Weight(c)
    <3>1. s[i + 1].item * UrlsBelow[c] <= Items[c] * UrlsBelow[c]
      BY <2>6, <2>7, NoMoreTimes
    <3>2. s[i + 1].item * UrlsBelow[c] \in Nat
      BY <2>7, Products
    <3> QED
      BY <2>7, <3>1, <3>2
  <2>9. PICK k : k = s[i].kid - 1
    OBVIOUS
  <2>10. k \in 1..Len(Kids[s[i].elem]) /\ k - 1 = s[i].kid - 2 /\ s[i] \in Frame
         /\ k \in 0..Len(Kids[s[i].elem])
    <3>1. s[i] \in Frame /\ s[i].kid \in Nat \ {0} /\ s[i].kid <= Len(Kids[s[i].elem]) + 1
          /\ Len(Kids[s[i].elem]) \in Nat
      BY <1>5, <2>3
    <3> QED
      BY <2>6, <2>9, <3>1
  <2>11. PICK y, z : y = Added(s[i], k - 1) /\ z = Added(s[i], k)
    OBVIOUS
  <2>12. z = y + Weight(c) /\ z \in Nat /\ y \in Nat /\ Weight(c) \in Nat
    BY <2>6, <2>9, <2>10, <2>11, AddedNext
  <2>13. PICK q : q = s[i].item * UrlsBelow[s[i].elem]
    OBVIOUS
  <2>14. q \in Nat
    BY <1>5, <2>3, <2>13, Products
  <2>15. z <= q
    BY <2>10, <2>11, <2>13, AddedNatural
  <2>16. a[i] = a[i - 1] + y /\ a[i] \in Nat /\ a[i - 1] \in Nat
    BY <1>3, <2>3, <2>10, <2>11
  <2>17. n <= a[i] + x
    BY <2>4, <2>5, <2>8
  <2>18. n <= a[i - 1] + q
    BY <1>4, <2>8, <2>12, <2>14, <2>15, <2>16, <2>17
  <2> QED
    BY <2>2, <2>13, <2>18
<1>8. \A j \in Nat : j \in S
  <2> HIDE DEF S
  <2> QED
    BY <1>6, <1>7, NumbersFrom
<1>9. n <= UrlsBelow[Root]
  <2>1. m - 1 \in Nat /\ m - 1 < m /\ m - (m - 1) = 1 /\ m - (m - 1) - 1 = 0
    BY <1>3
  <2>2. n <= a[0] + s[1].item * UrlsBelow[s[1].elem]
    BY <1>8, <2>1
  <2> QED
    BY <1>3, <1>4, <2>2
<1>10. ASSUME m = 1, s[1].kid = Len(Kids[Root]) + 1 PROVE n = UrlsBelow[Root]
  <2>1. n = Added(s[1], s[1].kid - 1) /\ 1 \in 1..m
    <3>1. m - 1 = 0 /\ 1 \in 1..m
      BY <1>10
    <3>2. Added(s[m], s[m].kid - 1) \in Nat
      BY <1>5, <1>10, AddedNatural
    <3> QED
      BY <1>3, <1>10, <3>1, <3>2
  <2>2. s[1].kid - 1 = Len(Kids[Root])
    BY <1>4, <1>10, PartIs
  <2>3. Added(s[1], s[1].kid - 1) = 0 * UrlsBelow[Root] + UrlsBelow[Root]
    BY <1>4, <2>2, PartIs DEF Added
  <2> QED
    BY <1>4, <2>1, <2>3
<1> QED
  BY <1>1, <1>4, <1>9, <1>10

-----------------------------------------------------------------------------
(* What every run has in its table. *)

TableOf(p) ==
    /\ phase[p] \in {"start", "walk", "header", "ready", "failed", "crashed"}
    /\ phase[p] = "start" => Len(table[p]) = 0 /\ urls[p] = 0
    /\ phase[p] \in {"walk", "header"} =>
         urls[p] = CountUrls /\ Nested(stack[p]) /\ Reached(stack[p], Len(table[p]))
    /\ phase[p] = "ready" => Len(table[p]) = urls[p]
    /\ phase[p] \in {"failed", "crashed"} => Len(table[p]) <= urls[p]

LoopInv ==
    /\ urls = [p \in Runs |-> urls[p]] /\ stack = [p \in Runs |-> stack[p]]
    /\ \A p \in Runs : TableOf(p)

(* The loop in hand of a run that walks. *)
LEMMA TopIs ==
    ASSUME NEW s, Nested(s), NEW top, top = s[Len(s)]
    PROVE  /\ top \in Frame /\ top.elem \in Elems /\ top.item \in Nat \ {0}
           /\ top.kid \in Nat \ {0} /\ top.kid <= Len(Kids[top.elem]) + 1
           /\ Len(Kids[top.elem]) \in Nat /\ UrlsBelow[top.elem] \in Nat
           /\ Len(s) \in Nat /\ Len(s) > 0
           /\ (top.elem = Root => Len(s) = 1) /\ (Len(s) = 1 => top.elem = Root)
           /\ Root < top.elem \/ Root = top.elem
           /\ Len(s) > 1 => top.item <= Items[top.elem]
<1>1. Len(s) \in Nat /\ Len(s) > 0 /\ Len(s) \in 1..Len(s)
  BY DEF Nested
<1>2. top \in Frame /\ top.kid <= Len(Kids[top.elem]) + 1
  BY <1>1 DEF Nested
<1>3. top.elem \in Elems /\ top.item \in Nat \ {0} /\ top.kid \in Nat \ {0}
  BY <1>2 DEF Frame
<1>4. Len(Kids[top.elem]) \in Nat /\ UrlsBelow[top.elem] \in Nat
  BY <1>3, PartIs, BelowNatural
<1>5. CASE Len(s) = 1
  <2>1. top.elem = Root
    BY <1>5 DEF Nested
  <2>2. ~(Len(s) > 1) /\ Len(s) \in Nat /\ Len(s) > 0
    BY <1>1, <1>5
  <2> QED
    BY <1>2, <1>3, <1>4, <1>5, <2>1, <2>2
<1>6. CASE Len(s) > 1
  <2>1. PICK i : i = Len(s) - 1
    OBVIOUS
  <2>2. i \in 1..(Len(s) - 1) /\ i + 1 = Len(s)
    BY <1>1, <1>6, <2>1
  <2>3. Root < top.elem /\ top.item <= Items[top.elem]
    BY <2>2 DEF Nested
  <2>4. Root \in Nat /\ top.elem \in Nat
    <3>1. Cardinality(Elems) \in Nat
      BY UrlListAssumption, FS_CardinalityType
    <3>2. Elems = 1..Cardinality(Elems) /\ Root \in Elems
      BY UrlListAssumption
    <3> QED
      BY <1>3, <3>1, <3>2
  <2> QED
    BY <1>1, <1>2, <1>3, <1>4, <1>6, <2>3, <2>4
<1>7. Len(s) = 1 \/ Len(s) > 1
  BY <1>1
<1> QED
  BY <1>5, <1>6, <1>7

LEMMA LoopStarts ==
    ASSUME NEW f \in Frame, f.elem = Root, f.item = 1, f.kid = 1
    PROVE  Nested(<<f>>) /\ Reached(<<f>>, 0)
<1>1. PICK s : s = <<f>>
  OBVIOUS
<1>2. s \in Seq(Frame) /\ Len(s) = 1 /\ s[1] = f
  BY <1>1
<1>3. Root \in Elems /\ Len(Kids[Root]) \in Nat /\ UrlsBelow[Root] \in Nat /\ Part(Root, 0) = 0
  BY UrlListAssumption, PartIs, BelowNatural
<1>4. Nested(s)
  BY <1>2, <1>3 DEF Nested
<1>5. PICK a : a = [i \in 0..1 |-> 0]
  OBVIOUS
<1>6. a \in [0..1 -> Nat] /\ a[0] = 0 /\ a[1] = 0
  BY <1>5
<1>7. Added(f, 0) = 0
  <2>1. f.item - 1 = 0
    OBVIOUS
  <2> QED
    BY <1>3, <2>1 DEF Added
<1>8. Steps(a, s)
  <2>1. \A i \in 1..(Len(s) - 1) : FALSE
    BY <1>2
  <2>2. f.kid - 1 = 0 /\ Len(s) - 1 = 0
    BY <1>2
  <2> QED
    BY <1>2, <1>6, <1>7, <2>1, <2>2 DEF Steps
<1>9. Reached(s, 0)
  BY <1>2, <1>6, <1>8 DEF Reached
<1> QED
  BY <1>1, <1>4, <1>9

(* A run writes to nobody else's table, size or loops.                      *)
LEMMA OneRuns ==
    ASSUME HeaderInv, LoopInv, NEW p \in Runs, Run(p)
    PROVE  /\ urls' = [q \in Runs |-> urls'[q]] /\ stack' = [q \in Runs |-> stack'[q]]
           /\ \A q \in Runs \ {p} : UNCHANGED <<phase[q], urls[q], stack[q], table[q]>>
<1>1. /\ phase = [q \in Runs |-> phase[q]] /\ table = [q \in Runs |-> table[q]]
      /\ urls = [q \in Runs |-> urls[q]] /\ stack = [q \in Runs |-> stack[q]]
  BY DEF HeaderInv, Walkers, LoopInv
<1>2. CASE Count(p)
  BY <1>1, <1>2 DEF Count
<1>3. CASE SkipOther(p)
  BY <1>1, <1>3 DEF SkipOther
<1>4. CASE EnterSequence(p)
  BY <1>1, <1>4 DEF EnterSequence
<1>5. CASE NextItem(p)
  BY <1>1, <1>5 DEF NextItem
<1>6. CASE EndLoop(p)
  BY <1>1, <1>6 DEF EndLoop
<1>7. CASE ParseUrl(p)
  BY <1>1, <1>7 DEF ParseUrl
<1>8. CASE ParseFails(p) \/ ParseCrashes(p)
  BY <1>1, <1>8 DEF ParseFails, ParseCrashes
<1>9. CASE TakeHeader(p)
  BY <1>1, <1>9 DEF TakeHeader
<1>10. CASE UrlDone(p)
  BY <1>1, <1>10 DEF UrlDone
<1> QED
  BY <1>2, <1>3, <1>4, <1>5, <1>6, <1>7, <1>8, <1>9, <1>10 DEF Run

LEMMA LoopStep == HeaderInv /\ LoopInv /\ [Next]_vars => LoopInv'
<1>1. SUFFICES ASSUME HeaderInv, LoopInv, [Next]_vars PROVE LoopInv'
  OBVIOUS
<1>2. SUFFICES ASSUME NEW p \in Runs, Run(p) PROVE TableOf(p)'
  <2>1. CASE UNCHANGED vars
    BY <1>1, <2>1 DEF vars, LoopInv, TableOf
  <2>2. CASE \E p \in Runs : Run(p)
    <3>1. PICK p \in Runs : Run(p)
      BY <2>2
    <3>2. \A q \in Runs \ {p} : TableOf(q)'
      BY <1>1, <3>1, OneRuns DEF LoopInv, TableOf
    <3>3. TableOf(p)'
      BY <1>2, <3>1
    <3> QED
      BY <1>1, <3>1, <3>2, <3>3, OneRuns DEF LoopInv
  <2> QED
    BY <1>1, <2>1, <2>2 DEF Next, Stopped
<1>3. PICK s, top, n : s = stack[p] /\ top = Top(p) /\ n = Len(table[p])
  OBVIOUS
<1>4. /\ phase = [q \in Runs |-> phase[q]] /\ table = [q \in Runs |-> table[q]]
      /\ urls = [q \in Runs |-> urls[q]] /\ stack = [q \in Runs |-> stack[q]]
      /\ TableOf(p) /\ IsTable(table[p])
  BY <1>1 DEF HeaderInv, Walkers, LoopInv
<1>5. ASSUME phase[p] \in {"walk", "header"}
      PROVE  /\ urls[p] = CountUrls /\ Nested(s) /\ Reached(s, n)
             /\ n \in Nat /\ n <= urls[p]
             /\ Len(s) = 1 /\ s[1].kid = Len(Kids[Root]) + 1 => n = urls[p]
  BY <1>3, <1>4, <1>5, TableBounded DEF TableOf, CountUrls
<1>6. ASSUME phase[p] = "walk"
      PROVE  /\ Nested(s) /\ top = s[Len(s)] /\ n \in Nat
             /\ top \in Frame /\ top.elem \in Elems /\ top.item \in Nat \ {0}
             /\ top.kid \in Nat \ {0} /\ top.kid <= Len(Kids[top.elem]) + 1
             /\ Len(Kids[top.elem]) \in Nat /\ UrlsBelow[top.elem] \in Nat
             /\ Len(s) \in Nat /\ Len(s) > 0
             /\ (top.elem = Root => Len(s) = 1) /\ (Len(s) = 1 => top.elem = Root)
             /\ Root < top.elem \/ Root = top.elem
             /\ Len(s) > 1 => top.item <= Items[top.elem]
  <2>1. Nested(s) /\ top = s[Len(s)] /\ n \in Nat
    BY <1>3, <1>5, <1>6 DEF Top
  <2> QED
    BY <2>1, TopIs
<1>7. ASSUME AtKid(p), NEW d \in Nat, d = Weight(Kid(p)),
             stack' = [stack EXCEPT ![p] = Replace(p, Past(Top(p)))]
      PROVE  Nested(stack'[p]) /\ Reached(stack'[p], n + d)
  <2>1. phase[p] = "walk" /\ top.kid <= Len(Kids[top.elem]) /\ Kid(p) = Kids[top.elem][top.kid]
    BY <1>3, <1>7 DEF AtKid, Kid
  <2>2. PICK f : f = Past(top)
    OBVIOUS
  <2>3. /\ f \in Frame /\ f.elem = top.elem /\ f.item = top.item /\ f.kid = top.kid + 1
        /\ f.kid - 1 = top.kid
    <3>1. top \in Frame
      BY <1>6, <2>1
    <3> QED
      BY <2>2, <3>1 DEF Past, Frame
  <2>4. top.kid \in 1..Len(Kids[top.elem])
    BY <1>6, <2>1
  <2>5. Added(f, f.kid - 1) = Added(top, top.kid - 1) + d
    <3>1. Added(top, top.kid) = Added(top, top.kid - 1) + d
      BY <1>6, <1>7, <2>1, <2>4, AddedNext
    <3> QED
      BY <2>3, <3>1 DEF Added
  <2>6. PICK t : t = Append(SubSeq(s, 1, Len(s) - 1), f)
    OBVIOUS
  <2>7. stack'[p] = t
    BY <1>3, <1>4, <1>7, <2>2, <2>6 DEF Replace, Pop
  <2>8. f.kid <= Len(Kids[f.elem]) + 1
    BY <1>6, <2>1, <2>3
  <2>9. Nested(s) /\ Reached(s, n)
    BY <1>5, <2>1
  <2> QED
    BY <1>6, <2>1, <2>3, <2>5, <2>6, <2>7, <2>8, <2>9, TopGoesOn
<1>8. CASE Count(p)
  <2>1. phase[p] = "start" /\ urls'[p] = CountUrls /\ table' = table /\ n = 0
    BY <1>3, <1>4, <1>8 DEF Count, TableOf
  <2>2. CASE CountUrls = 0
    <3>1. phase'[p] = "failed"
      BY <1>4, <1>8, <2>2 DEF Count
    <3> QED
      BY <1>3, <2>1, <2>2, <3>1 DEF TableOf
  <2>3. CASE CountUrls # 0
    <3>1. PICK f : f = [elem |-> Root, item |-> 1, kid |-> 1]
      OBVIOUS
    <3>2. f \in Frame /\ f.elem = Root /\ f.item = 1 /\ f.kid = 1
      BY <3>1, UrlListAssumption DEF Frame
    <3>3. phase'[p] = "walk" /\ stack'[p] = <<f>>
      BY <1>4, <1>8, <2>3, <3>1 DEF Count
    <3> QED
      BY <1>3, <2>1, <3>2, <3>3, LoopStarts DEF TableOf
  <2> QED
    BY <2>2, <2>3
<1>9. CASE SkipOther(p)
  <2>1. /\ AtKid(p) /\ phase[p] = "walk" /\ table' = table /\ urls' = urls /\ phase' = phase
        /\ stack' = [stack EXCEPT ![p] = Replace(p, Past(Top(p)))]
    BY <1>9 DEF SkipOther, AtKid
  <2>2. Weight(Kid(p)) = 0
    BY <1>9 DEF SkipOther, Weight, Counts, IsSequence
  <2>3. Nested(stack'[p]) /\ Reached(stack'[p], n + 0) /\ n + 0 = n
    BY <1>6, <1>7, <2>1, <2>2
  <2> QED
    BY <1>3, <1>5, <2>1, <2>3 DEF TableOf
<1>10. CASE EnterSequence(p)
  <2>1. /\ AtKid(p) /\ phase[p] = "walk" /\ table' = table /\ urls' = urls /\ phase' = phase
        /\ IsSequence(Kid(p)) /\ top.kid <= Len(Kids[top.elem])
        /\ Kid(p) = Kids[top.elem][top.kid]
    BY <1>3, <1>10 DEF EnterSequence, AtKid, Kid
  <2>2. PICK f : f = [elem |-> Kid(p), item |-> 1, kid |-> 1]
    OBVIOUS
  <2>3. Kid(p) \in Elems /\ Root < Kid(p)
    <3>1. top.kid \in 1..Len(Kids[top.elem]) /\ top.elem \in Elems
      BY <1>6, <2>1
    <3>2. Kid(p) \in Elems /\ top.elem < Kid(p)
      BY <2>1, <3>1, PartIs
    <3>3. Elems \subseteq Nat /\ Root \in Elems
      <4>1. Cardinality(Elems) \in Nat
        BY UrlListAssumption, FS_CardinalityType
      <4> QED
        BY <4>1, UrlListAssumption
    <3>4. Root < top.elem \/ Root = top.elem
      BY <1>6, <2>1
    <3>5. PICK x, y, z : x = Root /\ y = top.elem /\ z = Kid(p)
      OBVIOUS
    <3>6. x \in Nat /\ y \in Nat /\ z \in Nat /\ y < z /\ (x < y \/ x = y)
      BY <3>1, <3>2, <3>3, <3>4, <3>5
    <3> QED
      BY <3>2, <3>5, <3>6
  <2>4. f \in Frame /\ f.elem = Kids[top.elem][top.kid] /\ f.item = 1 /\ f.kid = 1
        /\ IsSequence(f.elem) /\ Root < f.elem
    BY <2>1, <2>2, <2>3 DEF Frame
  <2>5. PICK t : t = Append(Append(SubSeq(s, 1, Len(s) - 1), Past(top)), f)
    OBVIOUS
  <2>6. stack'[p] = t
    BY <1>3, <1>4, <1>10, <2>2, <2>5 DEF EnterSequence, Replace, Pop
  <2>7. Nested(s) /\ Reached(s, n)
    BY <1>5, <2>1
  <2>8. Nested(t) /\ Reached(t, n)
    BY <1>6, <2>1, <2>4, <2>5, <2>7, LoopBegins
  <2> QED
    BY <1>3, <1>5, <2>1, <2>6, <2>8 DEF TableOf
<1>11. CASE NextItem(p)
  <2>1. /\ ~AtKid(p) /\ phase[p] = "walk" /\ table' = table /\ urls' = urls /\ phase' = phase
        /\ top.elem # Root /\ top.item < Items[top.elem]
    BY <1>3, <1>11 DEF NextItem
  <2>2. PICK f : f = [elem |-> top.elem, item |-> top.item + 1, kid |-> 1]
    OBVIOUS
  <2>3. /\ f \in Frame /\ f.elem = top.elem /\ f.item = top.item + 1 /\ f.kid = 1
        /\ f.kid - 1 = 0
    BY <1>6, <2>1, <2>2 DEF Frame
  <2>4. top.kid - 1 = Len(Kids[top.elem])
    <3>1. ~(top.kid <= Len(Kids[top.elem]))
      BY <1>3, <2>1 DEF AtKid
    <3>2. top.kid \in Nat /\ top.kid <= Len(Kids[top.elem]) + 1 /\ Len(Kids[top.elem]) \in Nat
      BY <1>6, <2>1
    <3> QED
      BY <3>1, <3>2
  <2>5. Added(f, f.kid - 1) = Added(top, top.kid - 1) + 0
    <3>1. PICK i, w : i = top.item - 1 /\ w = UrlsBelow[top.elem] /\ i \in Nat /\ w \in Nat
      BY <1>6, <2>1
    <3>2. Part(top.elem, 0) = 0 /\ Part(top.elem, top.kid - 1) = w
      BY <1>6, <2>1, <2>4, <3>1, PartIs
    <3>3. f.item - 1 = i + 1
      BY <1>6, <2>1, <2>3, <3>1
    <3>4. Added(f, 0) = (i + 1) * w + 0 /\ Added(top, top.kid - 1) = i * w + w
      BY <2>3, <3>1, <3>2, <3>3 DEF Added
    <3>5. (i + 1) * w = i * w + w /\ i * w \in Nat
      BY <3>1, Products
    <3>6. PICK x : x = i * w /\ x \in Nat
      BY <3>5
    <3>7. Added(f, 0) = x + w + 0 /\ Added(top, top.kid - 1) = x + w
      BY <3>4, <3>5, <3>6
    <3> QED
      BY <2>3, <3>1, <3>6, <3>7
  <2>6. PICK t : t = Append(SubSeq(s, 1, Len(s) - 1), f)
    OBVIOUS
  <2>7. stack'[p] = t
    BY <1>3, <1>4, <1>11, <2>2, <2>6 DEF NextItem, Replace, Pop
  <2>8. /\ Nested(s) /\ Reached(s, n) /\ Len(s) > 1 /\ f.item <= Items[f.elem]
        /\ f.kid <= Len(Kids[f.elem]) + 1 /\ n + 0 = n
    <3>1. Nested(s) /\ Reached(s, n)
      BY <1>5, <2>1
    <3>2. /\ top.elem \in Elems /\ top.item \in Nat /\ Len(Kids[top.elem]) \in Nat
          /\ Len(s) \in Nat /\ Len(s) > 0 /\ n \in Nat
      BY <1>6, <2>1
    <3>3. Len(s) # 1
      BY <1>6, <2>1
    <3>4. Items[top.elem] \in Nat
      BY <3>2, UrlListAssumption
    <3>5. Len(s) > 1 /\ n + 0 = n
      <4>1. PICK m : m = Len(s) /\ m \in Nat /\ m > 0 /\ m # 1
        BY <3>2, <3>3
      <4>2. m > 1
        BY <4>1
      <4> QED
        BY <3>2, <4>1, <4>2
    <3>6. f.item <= Items[f.elem] /\ f.kid <= Len(Kids[f.elem]) + 1
      BY <2>1, <2>3, <3>2, <3>4
    <3> QED
      BY <3>1, <3>5, <3>6
  <2>9. Nested(t) /\ Reached(t, n + 0)
    BY <1>6, <2>1, <2>3, <2>5, <2>6, <2>8, TopGoesOn
  <2> QED
    BY <1>3, <1>5, <2>1, <2>7, <2>8, <2>9 DEF TableOf
<1>12. CASE EndLoop(p)
  <2>1. /\ ~AtKid(p) /\ phase[p] = "walk" /\ table' = table /\ urls' = urls
        /\ top.elem = Root \/ top.item = Items[top.elem]
        /\ phase'[p] = IF top.elem = Root THEN "ready" ELSE "walk"
        /\ stack'[p] = SubSeq(s, 1, Len(s) - 1)
    BY <1>3, <1>4, <1>12 DEF EndLoop, Pop
  <2>2. top.kid = Len(Kids[top.elem]) + 1
    BY <1>3, <1>6, <2>1 DEF AtKid
  <2>3. CASE top.elem = Root
    BY <1>3, <1>5, <1>6, <2>1, <2>2, <2>3 DEF TableOf
  <2>4. CASE top.elem # Root
    <3>1. Len(s) > 1 /\ top.item = Items[top.elem]
      <4>1. PICK m : m = Len(s) /\ m \in Nat /\ m > 0 /\ m # 1
        BY <1>6, <2>1, <2>4
      <4>2. m > 1
        BY <4>1
      <4> QED
        BY <2>1, <2>4, <4>1, <4>2
    <3>2. Nested(stack'[p]) /\ Reached(stack'[p], n)
      BY <1>5, <1>6, <2>1, <2>2, <3>1, LoopEnds
    <3> QED
      BY <1>3, <1>5, <2>1, <2>4, <3>2 DEF TableOf
  <2> QED
    BY <2>3, <2>4
<1>13. CASE ParseUrl(p)
  <2>1. /\ AtKid(p) /\ phase[p] = "walk" /\ urls' = urls /\ phase'[p] = "header"
        /\ stack' = [stack EXCEPT ![p] = Replace(p, Past(Top(p)))]
    BY <1>4, <1>13 DEF ParseUrl, AtKid
  <2>2. Weight(Kid(p)) = 1
    BY <1>13 DEF ParseUrl, Weight, Counts
  <2>3. Nested(stack'[p]) /\ Reached(stack'[p], n + 1)
    BY <1>7, <2>1, <2>2
  <2>4. Len(table'[p]) = n + 1
    <3>1. PICK r : r = [url |-> Kid(p), headers |-> 0,
                        vals |-> ExpandedTo(TemplatesNow(p), state[p])]
      OBVIOUS
    <3>2. table'[p] = Append(table[p], r)
      BY <1>4, <1>13, <3>1 DEF ParseUrl
    <3>3. IsEntry(r)
      BY <3>1 DEF IsEntry
    <3> QED
      BY <1>3, <1>4, <3>2, <3>3, EntryAppended
  <2> QED
    BY <1>5, <2>1, <2>3, <2>4 DEF TableOf
<1>14. CASE ParseFails(p) \/ ParseCrashes(p)
  <2>1. /\ phase[p] = "walk" /\ phase'[p] \in {"failed", "crashed"}
        /\ urls' = urls /\ table' = table
    BY <1>4, <1>14 DEF ParseFails, ParseCrashes, AtKid
  <2> QED
    BY <1>3, <1>5, <2>1 DEF TableOf
<1>15. CASE TakeHeader(p)
  <2>1. /\ phase[p] = "header" /\ urls' = urls /\ stack' = stack /\ phase' = phase
        /\ table' = [table EXCEPT ![p][Len(table[p])].headers = last[p]]
    BY <1>15 DEF TakeHeader
  <2>2. PICK t : t = Counted(table[p], n, last[p])
    OBVIOUS
  <2>3. table'[p] = t
    BY <1>3, <1>4, <2>1, <2>2 DEF Counted
  <2>4. n \in 1..n
    BY <1>1, <1>3, <1>5, <2>1 DEF HeaderInv, Walkers
  <2>5. Len(t) = n
    BY <1>3, <1>4, <2>2, <2>4, HeaderCounted
  <2> QED
    BY <1>3, <1>5, <2>1, <2>3, <2>5 DEF TableOf
<1>16. CASE UrlDone(p)
  <2>1. /\ phase[p] = "header" /\ phase'[p] = "walk"
        /\ urls' = urls /\ stack' = stack /\ table' = table
    BY <1>4, <1>16 DEF UrlDone
  <2> QED
    BY <1>3, <1>5, <2>1 DEF TableOf
<1> QED
  BY <1>2, <1>8, <1>9, <1>10, <1>11, <1>12, <1>13, <1>14, <1>15, <1>16 DEF Run

LEMMA LoopInit == Init => LoopInv
<1>1. SUFFICES ASSUME Init PROVE LoopInv
  OBVIOUS
<1>2. \A p \in Runs : phase[p] = "start" /\ table[p] = <<>> /\ Len(table[p]) = 0 /\ urls[p] = 0
  BY <1>1 DEF Init
<1>3. urls = [p \in Runs |-> urls[p]] /\ stack = [p \in Runs |-> stack[p]]
  BY <1>1 DEF Init
<1> QED
  BY <1>2, <1>3 DEF LoopInv, TableOf

(* count_xml_seq_child and the walk of parse_xml_seq_info agree whatever    *)
(* the urllist: round_robin_profile_init never writes past the table it     *)
(* allocated for rp->url, and one that succeeds leaves no entry of it       *)
(* empty for get_next_url to request.                                       *)
THEOREM FillsTable == Spec => []TableIsFull
<1>1. Init => LoopInv
  BY LoopInit
<1>2. ASSUME HeaderInv, LoopInv PROVE TableIsFull
  <2>1. ASSUME NEW p \in Runs
        PROVE  Len(table[p]) <= urls[p] /\ (phase[p] = "ready" => Len(table[p]) = urls[p])
    <3>1. TableOf(p) /\ Len(table[p]) \in Nat
      BY <1>2 DEF HeaderInv, Walkers, IsTable, LoopInv
    <3>2. CASE phase[p] = "start"
      BY <3>1, <3>2 DEF TableOf
    <3>3. CASE phase[p] \in {"walk", "header"}
      <4>1. urls[p] = UrlsBelow[Root] /\ Len(table[p]) <= UrlsBelow[Root]
        BY <3>1, <3>3, TableBounded DEF TableOf, CountUrls
      <4> QED
        BY <3>3, <4>1
    <3>4. CASE phase[p] = "ready"
      BY <3>1, <3>4 DEF TableOf
    <3>5. CASE phase[p] \in {"failed", "crashed"}
      BY <3>1, <3>5 DEF TableOf
    <3> QED
      BY <3>1, <3>2, <3>3, <3>4, <3>5 DEF TableOf
  <2> QED
    BY <2>1 DEF TableIsFull
<1>3. Spec => []HeaderInv
  BY HeaderStart, HeaderStep, PTL DEF Spec
<1>4. Spec => []LoopInv
  BY <1>1, <1>3, LoopStep, PTL DEF Spec
<1>5. HeaderInv /\ LoopInv => TableIsFull
  BY <1>2
<1> QED
  BY <1>3, <1>4, <1>5, PTL

-----------------------------------------------------------------------------
(* The expansion of a urllist: sequences put one after the other. *)

IsFlat(g, q, m) == g = [i \in 1..m |-> IF i = 1 THEN q[i] ELSE g[i - 1] \o q[i]]

LEMMA FlatExists ==
    ASSUME NEW q, NEW m \in Nat
    PROVE  \E g : IsFlat(g, q, m)
<1> DEFINE S == {n \in Nat : \E g : IsFlat(g, q, n)}
<1>1. 0 \in S
  <2> DEFINE g == [i \in 1..0 |-> q[i]]
  <2>1. g = [i \in 1..0 |-> IF i = 1 THEN q[i] ELSE g[i - 1] \o q[i]]
    OBVIOUS
  <2> HIDE DEF g
  <2>2. IsFlat(g, q, 0)
    BY <2>1 DEF IsFlat
  <2> QED
    BY <2>2
<1>2. ASSUME NEW n \in Nat, n \in S PROVE n + 1 \in S
  <2>1. PICK g : IsFlat(g, q, n)
    BY <1>2
  <2> DEFINE h == [i \in 1..(n + 1) |-> IF i = n + 1
                                        THEN IF i = 1 THEN q[i] ELSE g[n] \o q[i]
                                        ELSE g[i]]
             next == [i \in 1..(n + 1) |-> IF i = 1 THEN q[i] ELSE h[i - 1] \o q[i]]
  <2>2. \A i \in 1..n : g[i] = IF i = 1 THEN q[i] ELSE g[i - 1] \o q[i]
    BY <2>1 DEF IsFlat
  <2>3. \A i \in 1..n : h[i] = g[i]
    BY <1>2
  <2>4. h[n + 1] = IF n + 1 = 1 THEN q[n + 1] ELSE g[n] \o q[n + 1]
    BY <1>2
  <2>5. ASSUME NEW i \in 1..(n + 1) PROVE h[i] = next[i]
    <3>1. CASE i = 1 /\ n = 0
      BY <2>4, <3>1
    <3>2. CASE i = n + 1 /\ n # 0
      <4>1. n \in 1..n /\ i # 1 /\ i - 1 = n /\ n + 1 # 1
        BY <1>2, <3>2
      <4>2. h[n] = g[n]
        BY <2>3, <4>1
      <4>3. next[i] = h[n] \o q[n + 1]
        BY <3>2, <4>1
      <4> QED
        BY <2>4, <3>2, <4>1, <4>2, <4>3
    <3>3. CASE i = 1 /\ n # 0
      <4>1. 1 \in 1..n
        BY <1>2, <3>3
      <4>2. h[1] = q[1]
        BY <2>2, <2>3, <4>1
      <4> QED
        BY <3>3, <4>2
    <3>4. CASE i \in 2..n
      <4>1. i \in 1..n /\ i - 1 \in 1..n /\ i # 1
        BY <1>2, <3>4
      <4>2. h[i] = g[i] /\ h[i - 1] = g[i - 1]
        BY <2>3, <4>1
      <4>3. next[i] = h[i - 1] \o q[i]
        BY <4>1
      <4> QED
        BY <2>2, <4>1, <4>2, <4>3
    <3> QED
      BY <1>2, <3>1, <3>2, <3>3, <3>4
  <2>6. h = next
    BY <2>5
  <2>7. IsFlat(h, q, n + 1)
    BY <2>6 DEF IsFlat
  <2> HIDE DEF h
  <2> QED
    BY <1>2, <2>7
<1> HIDE DEF S
<1>3. \A n \in Nat : n \in S
  BY <1>1, <1>2, NumbersFrom
<1> QED
  BY <1>3 DEF S

LEMMA Joined ==
    ASSUME NEW S, NEW u \in Seq(S), NEW w \in Seq(S)
    PROVE  /\ u \o w \in Seq(S) /\ Len(u \o w) = Len(u) + Len(w)
           /\ \A i \in 1..Len(u) : (u \o w)[i] = u[i]
           /\ \A i \in 1..Len(w) : (u \o w)[Len(u) + i] = w[i]
<1>1. /\ u \o w \in Seq(S) /\ Len(u \o w) = Len(u) + Len(w)
      /\ \A i \in 1..(Len(u) + Len(w)) :
           (u \o w)[i] = IF i <= Len(u) THEN u[i] ELSE w[i - Len(u)]
  BY ConcatProperties
<1>2. PICK x, y : x = Len(u) /\ y = Len(w)
  OBVIOUS
<1>3. x \in Nat /\ y \in Nat
  BY <1>2
<1>4. PICK r : r = u \o w
  OBVIOUS
<1>5. \A i \in 1..(x + y) : r[i] = IF i <= x THEN u[i] ELSE w[i - x]
  BY <1>1, <1>2, <1>4
<1>6. \A i \in 1..x : i \in 1..(x + y) /\ i <= x
  BY <1>3
<1>7. \A i \in 1..y : x + i \in 1..(x + y) /\ ~(x + i <= x) /\ (x + i) - x = i
  BY <1>3
<1>8. \A i \in 1..x : r[i] = u[i]
  BY <1>5, <1>6
<1>9. \A i \in 1..y : r[x + i] = w[i]
  BY <1>5, <1>7
<1> QED
  BY <1>1, <1>2, <1>4, <1>8, <1>9

(* c counts what is before each sequence of q.                              *)
Placed(S, q, c, m) ==
    /\ q \in [1..m -> Seq(S)] /\ c \in [0..m -> Nat]
    /\ c[0] = 0 /\ \A i \in 1..m : c[i] = c[i - 1] + Len(q[i])

(* Where each sequence of q lies in FlattenSeq(q).                          *)
LEMMA Flattened ==
    ASSUME NEW S, NEW m \in Nat, NEW q, NEW c, Placed(S, q, c, m)
    PROVE  /\ FlattenSeq(q) \in Seq(S) /\ Len(FlattenSeq(q)) = c[m]
           /\ \A i \in 1..m : \A j \in 1..Len(q[i]) : FlattenSeq(q)[c[i - 1] + j] = q[i][j]
<1>1. q \in Seq(Seq(S)) /\ Len(q) = m
  BY DEF Placed
<1>2. CASE m = 0
  <2>1. q = <<>> /\ FlattenSeq(q) = q
    BY <1>1, <1>2 DEF FlattenSeq
  <2> QED
    BY <1>2, <2>1 DEF Placed
<1>3. CASE m # 0
  <2> DEFINE G == CHOOSE g : IsFlat(g, q, m)
  <2>1. IsFlat(G, q, m)
    BY FlatExists
  <2>2. FlattenSeq(q) = G[m]
    <3>1. FlattenSeq(q) = (CHOOSE g : g = [i \in 1..m |-> IF i = 1 THEN q[i] ELSE g[i - 1] \o q[i]])[m]
      BY <1>1, <1>3 DEF FlattenSeq
    <3> QED
      BY <3>1 DEF IsFlat
  <2> HIDE DEF G
  <2>3. \A i \in 1..m : G[i] = IF i = 1 THEN q[i] ELSE G[i - 1] \o q[i]
    BY <2>1 DEF IsFlat
  <2> DEFINE Holds(i) ==
               /\ G[i] \in Seq(S) /\ Len(G[i]) = c[i]
               /\ \A k \in 0..i : c[k] <= c[i]
               /\ \A k \in 1..i : \A j \in 1..Len(q[k]) : G[i][c[k - 1] + j] = q[k][j]
             T == {n \in Nat : n + 1 <= m => Holds(n + 1)}
  <2>4. 0 \in T
    <3>1. 1 \in 1..m /\ 0 \in 0..m /\ 1 \in 0..m /\ 1 - 1 = 0
      BY <1>3
    <3>2. G[1] = q[1] /\ q[1] \in Seq(S) /\ c[1] = 0 + Len(q[1]) /\ c[1] \in Nat
      BY <2>3, <3>1 DEF Placed
    <3>3. Len(q[1]) \in Nat
      BY <3>2
    <3>4. Len(G[1]) = c[1]
      BY <3>2, <3>3
    <3>5. \A k \in 0..1 : c[k] <= c[1]
      BY <3>1, <3>2 DEF Placed
    <3>6. \A k \in 1..1 : \A j \in 1..Len(q[k]) : G[1][c[k - 1] + j] = q[k][j]
      BY <3>1, <3>2 DEF Placed
    <3> QED
      BY <3>2, <3>4, <3>5, <3>6
  <2>5. ASSUME NEW n \in Nat, n \in T PROVE n + 1 \in T
    <3>1. PICK l : l = n + 1
      OBVIOUS
    <3>2. SUFFICES ASSUME l + 1 <= m PROVE Holds(l + 1)
      BY <2>5, <3>1
    <3>12. l <= m => Holds(l)
      BY <2>5, <3>1
    <3> HIDE DEF T
    <3>3. /\ l \in Nat /\ l > 0 /\ l + 1 \in 1..m /\ l + 1 # 1 /\ (l + 1) - 1 = l
          /\ l \in 0..m /\ l + 1 \in 0..m
      <4>1. l \in Nat /\ l > 0 /\ l + 1 <= m
        BY <2>5, <3>1, <3>2
      <4> QED
        BY <4>1
    <3>4. Holds(l)
      <4>1. l <= m
        BY <3>3
      <4> QED
        BY <3>12, <4>1
    <3>5. PICK u, w, r : u = G[l] /\ w = q[l + 1] /\ r = G[l + 1]
      OBVIOUS
    <3>6. u \in Seq(S) /\ w \in Seq(S) /\ Len(u) = c[l]
      BY <3>3, <3>4, <3>5 DEF Placed
    <3>13. r = u \o w
      BY <2>3, <3>3, <3>5
    <3>7. /\ r \in Seq(S) /\ Len(r) = Len(u) + Len(w)
          /\ \A i \in 1..Len(u) : r[i] = u[i]
          /\ \A i \in 1..Len(w) : r[Len(u) + i] = w[i]
      <4> HIDE DEF Holds
      <4> QED
        <5>1. /\ u \o w \in Seq(S) /\ Len(u \o w) = Len(u) + Len(w)
              /\ \A i \in 1..Len(u) : (u \o w)[i] = u[i]
              /\ \A i \in 1..Len(w) : (u \o w)[Len(u) + i] = w[i]
          <6>1. u \in Seq(S) /\ w \in Seq(S)
            BY <3>6
          <6> QED
            BY <6>1, Joined
        <5> QED
          BY <3>13, <5>1
    <3>8. c[l + 1] = c[l] + Len(w) /\ c[l + 1] \in Nat /\ c[l] \in Nat /\ Len(w) \in Nat
      BY <3>3, <3>5, <3>6 DEF Placed
    <3>9. \A k \in 0..(l + 1) : c[k] <= c[l + 1]
      <4> TAKE k \in 0..(l + 1)
      <4>1. CASE k = l + 1
        BY <3>8, <4>1
      <4>2. CASE k # l + 1
        <5>1. k \in 0..l /\ k \in 0..m
          BY <3>3, <4>2
        <5>2. c[k] <= c[l] /\ c[k] \in Nat
          BY <3>4, <5>1 DEF Placed
        <5> QED
          BY <3>8, <5>2
      <4> QED
        BY <4>1, <4>2
    <3>10. ASSUME NEW k \in 1..(l + 1), NEW j \in 1..Len(q[k])
           PROVE  r[c[k - 1] + j] = q[k][j]
      <4>1. CASE k = l + 1
        <5>1. k - 1 = l /\ q[k] = w /\ j \in 1..Len(w)
          BY <3>3, <3>5, <3>10, <4>1
        <5> QED
          BY <3>6, <3>7, <5>1
      <4>2. CASE k # l + 1
        <5>1. k \in 1..l /\ k \in 0..l /\ k \in 1..m /\ k - 1 \in 0..m
          BY <3>3, <4>2
        <5>2. c[k] = c[k - 1] + Len(q[k]) /\ c[k - 1] \in Nat /\ c[k] <= c[l] /\ q[k] \in Seq(S)
          BY <3>4, <5>1 DEF Placed
        <5>3. c[k - 1] + j \in 1..c[l]
          <6>1. PICK x, y, z, d : x = c[k - 1] /\ y = c[k] /\ z = c[l] /\ d = Len(q[k])
            OBVIOUS
          <6>2. /\ x \in Nat /\ d \in Nat /\ y = x + d /\ y <= z /\ z \in Nat
                /\ j \in 1..d
            BY <3>8, <3>10, <5>2, <6>1
          <6>3. x + j \in 1..z
            BY <6>2
          <6> QED
            BY <6>1, <6>3
        <5>4. u[c[k - 1] + j] = q[k][j]
          BY <3>4, <3>5, <3>10, <5>1
        <5> QED
          BY <3>6, <3>7, <5>3, <5>4
      <4> QED
        BY <4>1, <4>2
    <3>11. Len(r) = c[l + 1]
      BY <3>6, <3>7, <3>8
    <3> QED
      BY <3>5, <3>7, <3>9, <3>10, <3>11
  <2>6. \A n \in Nat : n \in T
    <3> HIDE DEF T
    <3> QED
      BY <2>4, <2>5, NumbersFrom
  <2>7. Holds(m)
    <3>1. PICK n : n = m - 1 /\ n \in Nat /\ n + 1 = m /\ n + 1 <= m
      BY <1>3
    <3>2. n \in T
      BY <2>6, <3>1
    <3>3. Holds(n + 1)
      BY <3>1, <3>2
    <3> HIDE DEF Holds
    <3> QED
      BY <3>1, <3>3
  <2> QED
    BY <2>2, <2>7
<1> QED
  BY <1>2, <1>3

(* One turn of a sequence, all of them, and what a child stands for.        *)
Turn(c, v, below) == [n \in DOMAIN below |-> [below[n] EXCEPT !.vals = With(@, c, v)]]
TurnsOf(f, c) == FlattenSeq([v \in 1..Items[c] |-> Turn(c, v, f[c])])
Stands(f, c) == IF Kind[c] = "url" THEN <<[url |-> c, vals |-> Empty]>>
                ELSE IF Kind[c] = "sequence" THEN TurnsOf(f, c) ELSE <<>>
ExpandOf(f, e) == FlattenSeq([k \in DOMAIN Kids[e] |-> Stands(f, Kids[e][k])])

LEMMA ExpandDepends ==
    ASSUME NEW e \in Elems, NEW f, NEW h, \A k \in 1..Len(Kids[e]) : f[Kids[e][k]] = h[Kids[e][k]]
    PROVE  ExpandOf(f, e) = ExpandOf(h, e)
<1> DEFINE Q(w) == [k \in DOMAIN Kids[e] |-> Stands(w, Kids[e][k])]
<1>1. DOMAIN Kids[e] = 1..Len(Kids[e])
  BY UrlListAssumption
<1>2. ASSUME NEW k \in DOMAIN Kids[e] PROVE Stands(f, Kids[e][k]) = Stands(h, Kids[e][k])
  <2>1. f[Kids[e][k]] = h[Kids[e][k]]
    BY <1>1, <1>2
  <2>2. TurnsOf(f, Kids[e][k]) = TurnsOf(h, Kids[e][k])
    BY <2>1 DEF TurnsOf
  <2> QED
    BY <2>2 DEF Stands
<1>3. Q(f) = Q(h)
  BY <1>2
<1> QED
  BY <1>3 DEF ExpandOf

LEMMA ExpansionIs == Expansion = [e \in Elems |-> ExpandOf(Expansion, e)]
<1> DEFINE N == Cardinality(Elems)
           Holds(f, n) == \A e \in Elems : N - e < n => f[e] = ExpandOf(f, e)
           S == {n \in Nat : \E f : Holds(f, n)}
<1>1. N \in Nat /\ Elems = 1..N
  BY UrlListAssumption, FS_CardinalityType
<1> HIDE DEF N
<1>2. 0 \in S
  <2> DEFINE f == [e \in Elems |-> 0]
  <2>1. \A e \in Elems : ~(N - e < 0)
    BY <1>1
  <2>2. Holds(f, 0)
    BY <2>1
  <2> QED
    BY <2>2
<1>3. ASSUME NEW n \in Nat, n \in S PROVE n + 1 \in S
  <2>1. PICK f : Holds(f, n)
    BY <1>3
  <2> DEFINE h == [e \in Elems |-> ExpandOf(f, e)]
  <2>2. ASSUME NEW e \in Elems, N - e < n + 1 PROVE h[e] = ExpandOf(h, e)
    <3>1. ASSUME NEW k \in 1..Len(Kids[e]) PROVE f[Kids[e][k]] = h[Kids[e][k]]
      <4>1. PICK c : c = Kids[e][k]
        OBVIOUS
      <4>2. c \in Elems /\ e < c
        BY <4>1, PartIs
      <4>3. N - c < n
        BY <1>1, <2>2, <4>2
      <4>4. f[c] = ExpandOf(f, c)
        BY <2>1, <4>2, <4>3
      <4> QED
        BY <4>1, <4>2, <4>4
    <3> HIDE DEF h
    <3>2. ExpandOf(f, e) = ExpandOf(h, e)
      BY <3>1, ExpandDepends
    <3> QED
      BY <3>2 DEF h
  <2> HIDE DEF h
  <2>3. Holds(h, n + 1)
    BY <2>2
  <2> QED
    BY <1>3, <2>3
<1>4. \A n \in Nat : n \in S
  <2> HIDE DEF S
  <2> QED
    BY <1>2, <1>3, NumbersFrom
<1>5. PICK f : Holds(f, N)
  BY <1>1, <1>4
<1> DEFINE F == [e \in Elems |-> ExpandOf(f, e)]
<1>6. \A e \in Elems : F[e] = f[e]
  <2> TAKE e \in Elems
  <2>1. N - e < N
    BY <1>1
  <2> QED
    BY <1>5, <2>1
<1>7. F = [e \in Elems |-> ExpandOf(F, e)]
  <2>1. ASSUME NEW e \in Elems PROVE ExpandOf(f, e) = ExpandOf(F, e)
    <3>1. \A k \in 1..Len(Kids[e]) : Kids[e][k] \in Elems
      BY PartIs
    <3>2. \A k \in 1..Len(Kids[e]) : f[Kids[e][k]] = F[Kids[e][k]]
      BY <1>6, <3>1
    <3> HIDE DEF F
    <3> QED
      BY <3>2, ExpandDepends
  <2>2. PICK G : G = F
    OBVIOUS
  <2>3. \A e \in Elems : ExpandOf(f, e) = ExpandOf(G, e)
    BY <2>1, <2>2
  <2> QED
    BY <2>2, <2>3
<1>8. \E g : g = [e \in Elems |-> ExpandOf(g, e)]
  <2> HIDE DEF F
  <2> QED
    BY <1>7
<1>9. Expansion = CHOOSE g : g = [e \in Elems |-> ExpandOf(g, e)]
  BY DEF Expansion, ExpandOf, Stands, TurnsOf, Turn
<1> QED
  BY <1>8, <1>9

(* The entries of a table as the urllist wants them.                        *)
Values == UNION {[D -> Nat] : D \in SUBSET Elems}
Wanted == [url : Elems, vals : Values]

LEMMA ValueAdded ==
    ASSUME NEW c \in Elems, NEW v \in Nat, NEW w \in Values
    PROVE  LET r == With(w, c, v)
           IN  /\ r \in Values /\ DOMAIN r = {c} \cup DOMAIN w /\ r[c] = v
               /\ \A x \in DOMAIN w : x # c => r[x] = w[x]
<1>1. PICK D \in SUBSET Elems : w \in [D -> Nat]
  BY DEF Values
<1>2. PICK r : r = With(w, c, v)
  OBVIOUS
<1>3. r = [x \in {c} \cup D |-> IF x = c THEN v ELSE w[x]]
  BY <1>1, <1>2 DEF With
<1>4. r \in [{c} \cup D -> Nat] /\ {c} \cup D \in SUBSET Elems
  BY <1>1, <1>3
<1>5. r \in Values
  BY <1>4 DEF Values
<1>6. r[c] = v /\ \A x \in D : x # c => r[x] = w[x]
  BY <1>1, <1>3
<1> QED
  BY <1>1, <1>2, <1>4, <1>5, <1>6

Sequenced(e) == Expansion[e] \in Seq(Wanted) /\ Len(Expansion[e]) = UrlsBelow[e]

(* The turns of a sequence lie one after the other, all of one length.      *)
LEMMA TurnsLie ==
    ASSUME NEW c \in Elems, Sequenced(c)
    PROVE  /\ TurnsOf(Expansion, c) \in Seq(Wanted)
           /\ Len(TurnsOf(Expansion, c)) = Items[c] * UrlsBelow[c]
           /\ \A v \in 1..Items[c] : \A j \in 1..UrlsBelow[c] :
                TurnsOf(Expansion, c)[(v - 1) * UrlsBelow[c] + j]
                  = [url |-> Expansion[c][j].url, vals |-> With(Expansion[c][j].vals, c, v)]
<1>1. PICK m, w, below : m = Items[c] /\ w = UrlsBelow[c] /\ below = Expansion[c]
  OBVIOUS
<1>2. m \in Nat /\ w \in Nat /\ below \in Seq(Wanted) /\ Len(below) = w
  BY <1>1, BelowNatural, UrlListAssumption DEF Sequenced
<1>3. PICK q, at : q = [v \in 1..m |-> Turn(c, v, below)] /\ at = [v \in 0..m |-> v * w]
  OBVIOUS
<1>4. ASSUME NEW v \in 1..m
      PROVE  /\ Turn(c, v, below) \in Seq(Wanted) /\ Len(Turn(c, v, below)) = w
             /\ \A j \in 1..w : Turn(c, v, below)[j]
                                  = [url |-> below[j].url, vals |-> With(below[j].vals, c, v)]
  <2>1. DOMAIN below = 1..w /\ \A j \in 1..w : below[j] \in Wanted
    BY <1>2
  <2>2. PICK t : t = Turn(c, v, below)
    OBVIOUS
  <2>3. t = [j \in 1..w |-> [below[j] EXCEPT !.vals = With(@, c, v)]]
    BY <2>1, <2>2 DEF Turn
  <2>4. ASSUME NEW j \in 1..w
        PROVE  /\ t[j] = [url |-> below[j].url, vals |-> With(below[j].vals, c, v)]
               /\ t[j] \in Wanted
    <3>1. PICK r, u, x : r = below[j] /\ u = r.url /\ x = r.vals
      OBVIOUS
    <3>2. r \in Wanted
      BY <2>1, <3>1
    <3>3. r = [url |-> u, vals |-> x] /\ u \in Elems /\ x \in Values
      BY <3>1, <3>2 DEF Wanted
    <3>4. t[j] = [r EXCEPT !.vals = With(@, c, v)]
      BY <2>3, <3>1
    <3>5. PICK y : y = With(x, c, v)
      OBVIOUS
    <3>6. y \in Values
      <4>1. v \in Nat
        BY <1>2
      <4> QED
        BY <3>3, <3>5, <4>1, ValueAdded
    <3>7. t[j] = [url |-> u, vals |-> y]
      BY <3>3, <3>4, <3>5
    <3> QED
      BY <3>1, <3>3, <3>5, <3>6, <3>7 DEF Wanted
  <2>5. t \in [1..w -> Wanted]
    BY <2>3, <2>4
  <2>6. t \in Seq(Wanted) /\ Len(t) = w
    BY <1>2, <2>5
  <2> QED
    BY <2>2, <2>4, <2>6
<1>5. Placed(Wanted, q, at, m)
  <2>1. q \in [1..m -> Seq(Wanted)] /\ \A v \in 1..m : Len(q[v]) = w
    BY <1>3, <1>4
  <2>2. at \in [0..m -> Nat] /\ at[0] = 0
    <3>1. \A v \in 0..m : v * w \in Nat
      BY <1>2, Products
    <3>2. 0 * w = 0 /\ 0 \in 0..m
      BY <1>2
    <3> QED
      BY <1>3, <3>1, <3>2
  <2>3. ASSUME NEW v \in 1..m PROVE at[v] = at[v - 1] + Len(q[v])
    <3>1. v \in 0..m /\ v - 1 \in 0..m /\ v - 1 \in Nat /\ (v - 1) + 1 = v
      BY <1>2
    <3>2. v * w = (v - 1) * w + w
      BY <1>2, <3>1, Products
    <3>3. at[v] = v * w /\ at[v - 1] = (v - 1) * w /\ Len(q[v]) = w
      BY <1>3, <2>1, <3>1
    <3> QED
      BY <3>2, <3>3
  <2> QED
    BY <2>1, <2>2, <2>3 DEF Placed
<1>6. TurnsOf(Expansion, c) = FlattenSeq(q)
  BY <1>1, <1>3 DEF TurnsOf
<1>7. /\ FlattenSeq(q) \in Seq(Wanted) /\ Len(FlattenSeq(q)) = at[m]
      /\ \A v \in 1..m : \A j \in 1..Len(q[v]) : FlattenSeq(q)[at[v - 1] + j] = q[v][j]
  <2>1. m \in Nat
    BY <1>2
  <2> QED
    BY <2>1, <1>5, Flattened, SMTT(30)
<1>8. at[m] = m * w
  BY <1>2, <1>3
<1>9. ASSUME NEW v \in 1..m, NEW j \in 1..w
      PROVE  FlattenSeq(q)[(v - 1) * w + j] = [url |-> below[j].url, vals |-> With(below[j].vals, c, v)]
  <2>1. q[v] = Turn(c, v, below) /\ Len(q[v]) = w
    BY <1>3, <1>4
  <2>2. at[v - 1] = (v - 1) * w
    <3>1. v - 1 \in 0..m
      BY <1>2
    <3> QED
      BY <1>3, <3>1
  <2>3. FlattenSeq(q)[at[v - 1] + j] = q[v][j]
    BY <1>7, <2>1
  <2> QED
    BY <1>4, <2>1, <2>2, <2>3
<1> QED
  BY <1>1, <1>6, <1>7, <1>8, <1>9

LEMMA StandsFor ==
    ASSUME NEW c \in Elems, Sequenced(c)
    PROVE  Stands(Expansion, c) \in Seq(Wanted) /\ Len(Stands(Expansion, c)) = Weight(c)
<1>1. CASE Kind[c] = "url"
  <2>1. PICK r : r = [url |-> c, vals |-> Empty]
    OBVIOUS
  <2>2. Empty \in Values
    <3>1. Empty \in [{} -> Nat]
      BY DEF Empty
    <3> QED
      BY <3>1 DEF Values
  <2>3. r \in Wanted
    BY <2>1, <2>2 DEF Wanted
  <2>4. Stands(Expansion, c) = <<r>> /\ Weight(c) = 1
    BY <1>1, <2>1 DEF Stands, Weight, Counts
  <2> QED
    BY <2>3, <2>4
<1>2. CASE Kind[c] = "sequence"
  BY <1>2, TurnsLie DEF Stands, Weight, Counts, Times, IsSequence
<1>3. CASE Kind[c] # "url" /\ Kind[c] # "sequence"
  <2>1. Stands(Expansion, c) = <<>> /\ Weight(c) = 0
    BY <1>3 DEF Stands, Weight, Counts, IsSequence
  <2> QED
    BY <2>1
<1> QED
  BY <1>1, <1>2, <1>3

KidsSequenced(e) == \A k \in 1..Len(Kids[e]) : Sequenced(Kids[e][k])

(* What a child stands for begins where the parts before it end.            *)
LEMMA PartsLie ==
    ASSUME NEW e \in Elems, KidsSequenced(e)
    PROVE  /\ Sequenced(e)
           /\ \A k \in 1..Len(Kids[e]) : \A j \in 1..Weight(Kids[e][k]) :
                Expansion[e][Part(e, k - 1) + j] = Stands(Expansion, Kids[e][k])[j]
<1>1. PICK m : m = Len(Kids[e])
  OBVIOUS
<1>2. m \in Nat /\ DOMAIN Kids[e] = 1..m /\ \A k \in 1..m : Kids[e][k] \in Elems
  BY <1>1, PartIs, UrlListAssumption
<1>3. PICK q, at : q = [k \in 1..m |-> Stands(Expansion, Kids[e][k])] /\ at = [k \in 0..m |-> Part(e, k)]
  OBVIOUS
<1>4. Placed(Wanted, q, at, m)
  <2>1. \A k \in 1..m : q[k] = Stands(Expansion, Kids[e][k])
    BY <1>3
  <2>2. \A k \in 1..m : q[k] \in Seq(Wanted) /\ Len(q[k]) = Weight(Kids[e][k])
    BY <1>1, <1>2, <2>1, StandsFor DEF KidsSequenced
  <2>3. q \in [1..m -> Seq(Wanted)]
    BY <1>3, <2>1, <2>2
  <2>4. at \in [0..m -> Nat] /\ at[0] = 0 /\ \A k \in 0..m : at[k] = Part(e, k)
    <3>1. \A k \in 0..m : Part(e, k) \in Nat
      BY <1>1, <1>2, PartNatural, BelowNatural
    <3>2. Part(e, 0) = 0 /\ 0 \in 0..m
      BY <1>2, PartIs
    <3> QED
      BY <1>3, <3>1, <3>2
  <2>5. ASSUME NEW k \in 1..m PROVE at[k] = at[k - 1] + Len(q[k])
    <3>1. k \in 0..m /\ k - 1 \in 0..m
      BY <1>2
    <3>2. Part(e, k) = Part(e, k - 1) + Weight(Kids[e][k])
      BY <1>1, PartIs
    <3> QED
      BY <2>2, <2>4, <3>1, <3>2
  <2> QED
    BY <2>3, <2>4, <2>5 DEF Placed
<1>5. Expansion[e] = FlattenSeq(q)
  <2>1. Expansion[e] = ExpandOf(Expansion, e)
    BY ExpansionIs
  <2> QED
    BY <1>2, <1>3, <2>1 DEF ExpandOf
<1>6. /\ FlattenSeq(q) \in Seq(Wanted) /\ Len(FlattenSeq(q)) = at[m]
      /\ \A k \in 1..m : \A j \in 1..Len(q[k]) : FlattenSeq(q)[at[k - 1] + j] = q[k][j]
  <2>1. m \in Nat
    BY <1>2
  <2> QED
    BY <2>1, <1>4, Flattened, SMTT(30)
<1>7. at[m] = UrlsBelow[e]
  BY <1>1, <1>2, <1>3, PartIs
<1>8. ASSUME NEW k \in 1..m, NEW j \in 1..Weight(Kids[e][k])
      PROVE  Expansion[e][Part(e, k - 1) + j] = Stands(Expansion, Kids[e][k])[j]
  <2>1. q[k] = Stands(Expansion, Kids[e][k]) /\ Len(q[k]) = Weight(Kids[e][k])
    BY <1>1, <1>2, <1>3, StandsFor DEF KidsSequenced
  <2>2. at[k - 1] = Part(e, k - 1)
    <3>1. k - 1 \in 0..m
      BY <1>2
    <3> QED
      BY <1>3, <3>1
  <2>3. FlattenSeq(q)[at[k - 1] + j] = q[k][j]
    BY <1>6, <2>1
  <2> QED
    BY <1>5, <2>1, <2>2, <2>3
<1> QED
  BY <1>1, <1>5, <1>6, <1>7, <1>8 DEF Sequenced

LEMMA AllSequenced == \A e \in Elems : Sequenced(e)
<1> DEFINE N == Cardinality(Elems)
           S == {n \in Nat : \A e \in Elems : N - e < n => Sequenced(e)}
<1>1. N \in Nat /\ Elems = 1..N
  BY UrlListAssumption, FS_CardinalityType
<1> HIDE DEF N
<1>2. 0 \in S
  BY <1>1
<1>3. ASSUME NEW n \in Nat, n \in S PROVE n + 1 \in S
  <2>1. SUFFICES ASSUME NEW e \in Elems, N - e < n + 1 PROVE Sequenced(e)
    BY <1>3
  <2>2. ASSUME NEW k \in 1..Len(Kids[e]) PROVE Sequenced(Kids[e][k])
    <3>1. Kids[e][k] \in Elems /\ e < Kids[e][k]
      BY PartIs
    <3>2. N - Kids[e][k] < n
      BY <1>1, <2>1, <3>1
    <3> QED
      BY <1>3, <3>1, <3>2
  <2> QED
    BY <2>2, PartsLie DEF KidsSequenced
<1>4. \A n \in Nat : n \in S
  <2> HIDE DEF S
  <2> QED
    BY <1>2, <1>3, NumbersFrom
<1>5. \A e \in Elems : N - e < N
  BY <1>1
<1> QED
  BY <1>1, <1>4, <1>5

-----------------------------------------------------------------------------
(* Where an entry of the table is in the expansion: seen from each loop.    *)

(* In the expansion of the element of loop i, entry n is for URL c and asks *)
(* for values that st has.                                                  *)
Lies(a, s, i, n, c, st) ==
    \E x \in 1..UrlsBelow[s[i].elem] :
       /\ n = a[i - 1] + (s[i].item - 1) * UrlsBelow[s[i].elem] + x
       /\ Expansion[s[i].elem][x].url = c
       /\ \A y \in DOMAIN Expansion[s[i].elem][x].vals : Expansion[s[i].elem][x].vals[y] = st[y]

LEMMA FramesAre ==
    ASSUME NEW s, Nested(s), NEW i \in 1..Len(s)
    PROVE  /\ s[i] \in Frame /\ s[i].elem \in Elems /\ s[i].item \in Nat \ {0} /\ s[i].kid \in Nat \ {0}
           /\ s[i].kid <= Len(Kids[s[i].elem]) + 1 /\ Len(Kids[s[i].elem]) \in Nat
           /\ UrlsBelow[s[i].elem] \in Nat
<1>1. s[i] \in Frame /\ s[i].kid <= Len(Kids[s[i].elem]) + 1
  BY DEF Nested
<1>2. s[i].elem \in Elems /\ s[i].item \in Nat \ {0} /\ s[i].kid \in Nat \ {0}
  BY <1>1 DEF Frame
<1>3. Len(Kids[s[i].elem]) \in Nat /\ UrlsBelow[s[i].elem] \in Nat
  BY <1>2, PartIs, BelowNatural
<1> QED
  BY <1>1, <1>2, <1>3

(* A child's entries are among those of its parent.                         *)
LEMMA PartFits ==
    ASSUME NEW e \in Elems, NEW k \in 1..Len(Kids[e]), NEW x \in 1..Weight(Kids[e][k])
    PROVE  /\ Part(e, k - 1) \in Nat /\ Part(e, k - 1) + x \in 1..UrlsBelow[e]
           /\ Expansion[e][Part(e, k - 1) + x] = Stands(Expansion, Kids[e][k])[x]
<1>1. Len(Kids[e]) \in Nat /\ Kids[e][k] \in Elems /\ \A j \in 1..Len(Kids[e]) : Kids[e][j] \in Elems
  BY PartIs
<1>2. k \in 0..Len(Kids[e]) /\ k - 1 \in 0..Len(Kids[e])
  BY <1>1
<1>3. Part(e, k) \in Nat /\ Part(e, k) <= UrlsBelow[e] /\ Part(e, k - 1) \in Nat
  BY <1>1, <1>2, PartNatural, BelowNatural
<1>4. Part(e, k) = Part(e, k - 1) + Weight(Kids[e][k])
  BY PartIs
<1>5. Weight(Kids[e][k]) \in Nat /\ UrlsBelow[e] \in Nat
  BY <1>1, BelowNatural, WeightNatural
<1>6. Part(e, k - 1) + x \in 1..UrlsBelow[e]
  <2>1. PICK u, v, w, z : u = Part(e, k - 1) /\ v = Part(e, k) /\ w = Weight(Kids[e][k]) /\ z = UrlsBelow[e]
    OBVIOUS
  <2>2. u \in Nat /\ v \in Nat /\ w \in Nat /\ z \in Nat /\ v = u + w /\ v <= z /\ x \in 1..w
    BY <1>3, <1>4, <1>5, <2>1
  <2>3. u + x \in 1..z
    BY <2>2
  <2> QED
    BY <2>1, <2>3
<1>7. KidsSequenced(e)
  BY <1>1, AllSequenced DEF KidsSequenced
<1>8. Expansion[e][Part(e, k - 1) + x] = Stands(Expansion, Kids[e][k])[x]
  BY <1>7, PartsLie
<1> QED
  BY <1>3, <1>6, <1>8

(* A URL in the loop in hand.                                               *)
LEMMA LiesInTop ==
    ASSUME NEW s, Nested(s), NEW a, Steps(a, s), NEW top, top = s[Len(s)],
           top.kid <= Len(Kids[top.elem]),
           NEW c, c = Kids[top.elem][top.kid], Kind[c] = "url", NEW st
    PROVE  Lies(a, s, Len(s), a[Len(s)] + 1, c, st)
<1>1. PICK m, e, k : m = Len(s) /\ e = top.elem /\ k = top.kid
  OBVIOUS
<1>2. m \in Nat /\ m > 0 /\ m \in 1..m
  BY <1>1 DEF Nested
<1>3. /\ top \in Frame /\ e \in Elems /\ top.item \in Nat \ {0} /\ k \in Nat \ {0}
      /\ Len(Kids[e]) \in Nat /\ UrlsBelow[e] \in Nat
  BY <1>1, <1>2, FramesAre
<1>4. k \in 1..Len(Kids[e]) /\ k - 1 \in 0..Len(Kids[e])
  BY <1>1, <1>3
<1>5. Weight(c) = 1 /\ Stands(Expansion, c) = <<[url |-> c, vals |-> Empty]>>
  BY DEF Weight, Counts, Stands
<1>6. PICK x : x = Part(e, k - 1) + 1
  OBVIOUS
<1>7. x \in 1..UrlsBelow[e] /\ Expansion[e][x] = [url |-> c, vals |-> Empty] /\ Part(e, k - 1) \in Nat
  <2>1. 1 \in 1..Weight(Kids[e][k])
    BY <1>1, <1>5
  <2>2. /\ Part(e, k - 1) \in Nat /\ Part(e, k - 1) + 1 \in 1..UrlsBelow[e]
        /\ Expansion[e][Part(e, k - 1) + 1] = Stands(Expansion, Kids[e][k])[1]
    <3>1. e \in Elems /\ k \in 1..Len(Kids[e])
      BY <1>3, <1>4
    <3> QED
      BY <2>1, <3>1, PartFits
  <2> QED
    BY <1>1, <1>5, <1>6, <2>2
<1>8. a[m] = a[m - 1] + Added(top, k - 1)
  BY <1>1 DEF Steps
<1>9. PICK y : y = (top.item - 1) * UrlsBelow[e] /\ y \in Nat
  <2>1. top.item - 1 \in Nat /\ UrlsBelow[e] \in Nat
    BY <1>3
  <2> QED
    BY <2>1, Products
<1>10. Added(top, k - 1) = y + Part(e, k - 1)
  BY <1>1, <1>9 DEF Added
<1>11. a[m - 1] \in Nat
  <2>1. m - 1 \in 0..m
    BY <1>2
  <2> QED
    BY <1>1, <2>1 DEF Steps
<1>12. a[m] + 1 = a[m - 1] + y + x
  BY <1>6, <1>7, <1>8, <1>9, <1>10, <1>11
<1>13. DOMAIN Empty = {}
  BY DEF Empty
<1>14. Expansion[e][x].url = c /\ \A z \in DOMAIN Expansion[e][x].vals : Expansion[e][x].vals[z] = st[z]
  BY <1>7, <1>13
<1> QED
  BY <1>1, <1>7, <1>9, <1>12, <1>14 DEF Lies

(* What lies in a loop lies in the loop around it, which adds its value.    *)
LEMMA LiesAround ==
    ASSUME NEW s, Nested(s), NEW a, Steps(a, s), NEW i \in 1..(Len(s) - 1),
           NEW n, NEW c, NEW st, Lies(a, s, i + 1, n, c, st),
           st[s[i + 1].elem] = s[i + 1].item
    PROVE  Lies(a, s, i, n, c, st)
<1>1. PICK f, g, e, d, k : f = s[i] /\ g = s[i + 1] /\ e = f.elem /\ d = g.elem /\ k = f.kid - 1
  OBVIOUS
<1>2. Len(s) \in Nat /\ i \in 1..Len(s) /\ i + 1 \in 1..Len(s) /\ (i + 1) - 1 = i /\ i \in 0..Len(s) /\ i - 1 \in 0..Len(s)
  <2>1. Len(s) \in Nat
    BY DEF Nested
  <2> QED
    BY <2>1
<1>3. /\ e \in Elems /\ f.item \in Nat \ {0} /\ f.kid \in Nat \ {0} /\ f.kid <= Len(Kids[e]) + 1
      /\ Len(Kids[e]) \in Nat /\ UrlsBelow[e] \in Nat
      /\ d \in Elems /\ g.item \in Nat \ {0} /\ UrlsBelow[d] \in Nat
  BY <1>1, <1>2, FramesAre
<1>4. f.kid > 1 /\ d = Kids[e][k] /\ IsSequence(d) /\ g.item <= Items[d]
  BY <1>1 DEF Nested
<1>5. k \in 1..Len(Kids[e]) /\ k - 1 \in 0..Len(Kids[e]) /\ k - 1 = f.kid - 2
  <2>1. PICK x, m : x = f.kid /\ m = Len(Kids[e])
    OBVIOUS
  <2>2. x \in Nat /\ x > 1 /\ x <= m + 1 /\ m \in Nat /\ k = x - 1
    BY <1>1, <1>3, <1>4, <2>1
  <2>3. k \in 1..m /\ k - 1 \in 0..m /\ k - 1 = x - 2
    BY <2>2
  <2> QED
    BY <2>1, <2>3
<1>6. PICK x \in 1..UrlsBelow[d] :
        /\ n = a[i] + (g.item - 1) * UrlsBelow[d] + x
        /\ Expansion[d][x].url = c
        /\ \A y \in DOMAIN Expansion[d][x].vals : Expansion[d][x].vals[y] = st[y]
  BY <1>1, <1>2 DEF Lies
<1>7. PICK v, w, l : v = g.item /\ w = UrlsBelow[d] /\ l = Items[d]
  OBVIOUS
<1>8. /\ v \in 1..l /\ v - 1 \in Nat /\ (v - 1) + 1 = v /\ w \in Nat /\ l \in Nat
      /\ Weight(d) = l * w
  <2>1. l \in Nat
    BY <1>3, <1>7, UrlListAssumption
  <2>2. v \in 1..l /\ v - 1 \in Nat /\ (v - 1) + 1 = v
    <3>1. v \in Nat \ {0} /\ v <= l
      BY <1>3, <1>4, <1>7
    <3> QED
      BY <2>1, <3>1
  <2>3. Weight(d) = l * w
    BY <1>4, <1>7 DEF Weight, Counts, Times, IsSequence
  <2> QED
    BY <1>3, <1>7, <2>1, <2>2, <2>3
<1>9. PICK before, t : before = (v - 1) * w /\ t = before + x
  OBVIOUS
<1>10. before \in Nat /\ v * w = before + w /\ v * w <= l * w
  <2>1. before \in Nat /\ v * w = before + w
    <3>1. (v - 1) * w \in Nat /\ ((v - 1) + 1) * w = (v - 1) * w + w
      BY <1>8, Products
    <3> QED
      BY <1>8, <1>9, <3>1
  <2>2. v * w <= l * w
    <3>1. v <= l /\ v \in Nat
      BY <1>8
    <3> QED
      BY <1>8, <3>1, NoMoreTimes
  <2> QED
    BY <2>1, <2>2
<1>11. t \in 1..Weight(d)
  <2>1. PICK y, z : y = v * w /\ z = l * w
    OBVIOUS
  <2>2. z \in Nat
    BY <1>8, <2>1, Products
  <2>3. y = before + w /\ y <= z /\ x \in 1..w
    BY <1>6, <1>7, <1>10, <2>1
  <2>4. t \in 1..z
    BY <1>8, <1>9, <1>10, <2>2, <2>3
  <2> QED
    BY <1>8, <2>1, <2>4
<1>12. PICK r, u : r = Expansion[d][x] /\ u = r.vals
  OBVIOUS
<1>13. r \in Wanted /\ u \in Values
  <2>1. Expansion[d] \in Seq(Wanted) /\ Len(Expansion[d]) = UrlsBelow[d]
    BY <1>3, AllSequenced DEF Sequenced
  <2>2. r \in Wanted
    BY <1>6, <1>12, <2>1
  <2> QED
    BY <1>12, <2>2 DEF Wanted
<1>14. Stands(Expansion, d)[t] = [url |-> c, vals |-> With(u, d, v)]
  <2>1. Sequenced(d) /\ Stands(Expansion, d) = TurnsOf(Expansion, d)
    BY <1>3, <1>4, AllSequenced DEF Stands, IsSequence
  <2>2. TurnsOf(Expansion, d)[(v - 1) * w + x] = [url |-> Expansion[d][x].url, vals |-> With(Expansion[d][x].vals, d, v)]
    <3>1. v \in 1..Items[d] /\ x \in 1..UrlsBelow[d]
      BY <1>6, <1>7, <1>8
    <3> QED
      BY <1>3, <1>7, <2>1, <3>1, TurnsLie
  <2> QED
    BY <1>6, <1>9, <1>12, <2>1, <2>2
<1>15. PICK h : h = Part(e, k - 1) + t
  OBVIOUS
<1>16. /\ Part(e, k - 1) \in Nat /\ h \in 1..UrlsBelow[e]
       /\ Expansion[e][h] = [url |-> c, vals |-> With(u, d, v)]
  <2>1. t \in 1..Weight(Kids[e][k])
    BY <1>4, <1>11
  <2>2. /\ Part(e, k - 1) \in Nat /\ Part(e, k - 1) + t \in 1..UrlsBelow[e]
        /\ Expansion[e][Part(e, k - 1) + t] = Stands(Expansion, Kids[e][k])[t]
    BY <1>3, <1>5, <2>1, PartFits
  <2> QED
    BY <1>4, <1>14, <1>15, <2>2
<1>17. PICK r2 : r2 = With(u, d, v)
  OBVIOUS
<1>18. DOMAIN r2 = {d} \cup DOMAIN u /\ r2[d] = v /\ \A y \in DOMAIN u : y # d => r2[y] = u[y]
  <2>1. r2 = [y \in DOMAIN u \cup {d} |-> IF y = d THEN v ELSE u[y]]
    BY <1>17 DEF With
  <2> QED
    BY <2>1
<1>19. \A y \in DOMAIN r2 : r2[y] = st[y]
  <2> TAKE y \in DOMAIN r2
  <2>1. CASE y = d
    BY <1>1, <1>7, <1>18, <2>1
  <2>2. CASE y # d
    BY <1>6, <1>12, <1>18, <2>2
  <2> QED
    BY <2>1, <2>2
<1>20. n = a[i - 1] + (f.item - 1) * UrlsBelow[e] + h
  <2>1. a[i] = a[i - 1] + Added(f, k - 1)
    BY <1>1, <1>5 DEF Steps
  <2>2. PICK y : y = (f.item - 1) * UrlsBelow[e] /\ y \in Nat
    <3>1. f.item - 1 \in Nat /\ UrlsBelow[e] \in Nat
      BY <1>3
    <3> QED
      BY <3>1, Products
  <2>3. Added(f, k - 1) = y + Part(e, k - 1)
    BY <1>1, <2>2 DEF Added
  <2>4. a[i - 1] \in Nat
    BY <1>2 DEF Steps
  <2>5. n = a[i] + before + x
    BY <1>6, <1>7, <1>9
  <2>6. x \in Nat
    BY <1>3, <1>6
  <2>7. PICK b, q : b = a[i - 1] /\ q = Part(e, k - 1)
    OBVIOUS
  <2>8. n = (b + (y + q)) + before + x /\ h = q + (before + x)
    BY <1>9, <1>15, <2>1, <2>3, <2>5, <2>7
  <2>9. b \in Nat /\ q \in Nat /\ y \in Nat /\ before \in Nat /\ x \in Nat
    BY <1>10, <1>16, <2>2, <2>4, <2>6, <2>7
  <2>10. n = b + y + h
    BY <2>8, <2>9
  <2> QED
    BY <2>2, <2>7, <2>10
<1> QED
  BY <1>1, <1>16, <1>17, <1>19, <1>20 DEF Lies

Gives(st, s) == \A l \in 2..Len(s) : st[s[l].elem] = s[l].item

(* The entry of a URL in hand, in the expansion of the whole urllist.       *)
LEMMA LiesInAll ==
    ASSUME NEW s, Nested(s), NEW a, Steps(a, s), NEW top, top = s[Len(s)],
           top.kid <= Len(Kids[top.elem]),
           NEW c, c = Kids[top.elem][top.kid], Kind[c] = "url",
           NEW st, Gives(st, s),
           NEW n, n = a[Len(s)] + 1
    PROVE  /\ n \in 1..UrlsBelow[Root] /\ Expansion[Root][n].url = c
           /\ \A y \in DOMAIN Expansion[Root][n].vals : Expansion[Root][n].vals[y] = st[y]
<1>1. PICK m : m = Len(s)
  OBVIOUS
<1>2. m \in Nat /\ m > 0
  BY <1>1 DEF Nested
<1> DEFINE T == {j \in Nat : j <= m - 1 => Lies(a, s, m - j, n, c, st)}
<1>3. 0 \in T
  <2>1. Lies(a, s, m, n, c, st)
    BY <1>1, LiesInTop
  <2>2. m - 0 = m
    BY <1>2
  <2> QED
    BY <2>1, <2>2
<1>4. ASSUME NEW j \in Nat, j \in T PROVE j + 1 \in T
  <2>1. SUFFICES ASSUME j + 1 <= m - 1 PROVE Lies(a, s, m - (j + 1), n, c, st)
    BY <1>4
  <2>2. PICK i : i = m - (j + 1)
    OBVIOUS
  <2>3. i \in 1..(m - 1) /\ i + 1 = m - j /\ i + 1 \in 2..m /\ j <= m - 1
    BY <1>2, <2>1, <2>2
  <2>4. Lies(a, s, i + 1, n, c, st)
    <3>1. Lies(a, s, m - j, n, c, st)
      BY <1>4, <2>3
    <3> QED
      BY <2>3, <3>1
  <2>5. st[s[i + 1].elem] = s[i + 1].item /\ i \in 1..(Len(s) - 1)
    BY <1>1, <2>3 DEF Gives
  <2> HIDE DEF T
  <2> QED
    BY <2>2, <2>4, <2>5, LiesAround
<1>5. Lies(a, s, 1, n, c, st)
  <2>1. \A j \in Nat : j \in T
    <3> HIDE DEF T
    <3> QED
      BY <1>3, <1>4, NumbersFrom
  <2>2. m - 1 \in Nat /\ m - (m - 1) = 1 /\ m - 1 <= m - 1
    BY <1>2
  <2>3. m - 1 \in T
    BY <2>1, <2>2
  <2>4. Lies(a, s, m - (m - 1), n, c, st)
    BY <2>2, <2>3
  <2> QED
    BY <2>2, <2>4
<1>6. s[1].elem = Root /\ s[1].item - 1 = 0 /\ a[1 - 1] = 0 /\ UrlsBelow[Root] \in Nat
  BY BelowNatural, UrlListAssumption DEF Nested, Steps
<1>7. PICK x \in 1..UrlsBelow[Root] :
        /\ n = 0 + 0 * UrlsBelow[Root] + x
        /\ Expansion[Root][x].url = c
        /\ \A y \in DOMAIN Expansion[Root][x].vals : Expansion[Root][x].vals[y] = st[y]
  BY <1>5, <1>6 DEF Lies
<1>8. n = x
  BY <1>6, <1>7
<1> QED
  BY <1>7, <1>8

-----------------------------------------------------------------------------
(* The values in p->state. *)

(* Inner loops are nested in outer ones, and the hash has the place that    *)
(* each loop is at whose name is not set again inside it.                   *)
Inside(s) == \A l \in 2..Len(s) : \A i \in 1..(l - 1) : s[l].elem \in Below[s[i].elem]
Own(st, f) ==
    /\ SeqName[f.elem] \in DOMAIN st
    /\ st[SeqName[f.elem]] = [of |-> f.elem, item |-> f.item]
Has(st, s, S) == \A l \in 2..Len(s) : s[l].elem \in S => Own(st, s[l])

(* What is below an element: its children, and theirs, all numbered later.  *)
LEMMA BelowGrows ==
    ASSUME NEW e \in Elems
    PROVE  /\ \A k \in 1..Len(Kids[e]) : Kids[e][k] \in Below[e]
           /\ \A d \in Below[e] :
                d \in Elems /\ e < d /\ \A k \in 1..Len(Kids[d]) : Kids[d][k] \in Below[e]
<1>1. Below[e] = {d \in Elems : \A S \in ClosedSets : KidsOf(e) \subseteq S => d \in S}
  BY DEF Below
<1>2. \A d \in Elems : KidsOf(d) = {Kids[d][k] : k \in 1..Len(Kids[d])} /\ KidsOf(d) \subseteq Elems
  <2> TAKE d \in Elems
  <2>1. DOMAIN Kids[d] = 1..Len(Kids[d]) /\ \A k \in 1..Len(Kids[d]) : Kids[d][k] \in Elems
    BY UrlListAssumption
  <2> QED
    BY <2>1 DEF KidsOf
<1>3. \A k \in 1..Len(Kids[e]) : Kids[e][k] \in Below[e]
  BY <1>1, <1>2
<1>4. ASSUME NEW d \in Below[e]
      PROVE  d \in Elems /\ e < d /\ \A k \in 1..Len(Kids[d]) : Kids[d][k] \in Below[e]
  <2>1. d \in Elems /\ \A S \in ClosedSets : KidsOf(e) \subseteq S => d \in S
    BY <1>1
  <2>2. PICK L : L = {x \in Elems : e < x}
    OBVIOUS
  <2>3. \A x \in Elems : \A y \in KidsOf(x) : y \in Elems /\ x < y
    BY <1>2, PartIs
  <2>4. Elems \subseteq Nat
    <3>1. Cardinality(Elems) \in Nat
      BY UrlListAssumption, FS_CardinalityType
    <3> QED
      BY <3>1, UrlListAssumption
  <2>5. \A x \in L : KidsOf(x) \subseteq L
    <3> SUFFICES ASSUME NEW x \in L, NEW y \in KidsOf(x) PROVE y \in L
      OBVIOUS
    <3>1. x \in Elems /\ e < x /\ y \in Elems /\ x < y
      BY <2>2, <2>3
    <3>2. e \in Nat /\ x \in Nat /\ y \in Nat
      BY <2>4, <3>1
    <3>3. e < y
      BY <3>1, <3>2
    <3> QED
      BY <2>2, <3>1, <3>3
  <2>6. L \in ClosedSets
    BY <2>2, <2>5 DEF ClosedSets
  <2>7. KidsOf(e) \subseteq L
    BY <2>2, <2>3
  <2>8. d \in L
    BY <2>1, <2>6, <2>7
  <2>9. ASSUME NEW k \in 1..Len(Kids[d]) PROVE Kids[d][k] \in Below[e]
    <3>1. Kids[d][k] \in KidsOf(d) /\ Kids[d][k] \in Elems
      BY <1>2, <2>1
    <3>2. \A S \in ClosedSets : KidsOf(e) \subseteq S => Kids[d][k] \in S
      BY <2>1, <3>1 DEF ClosedSets
    <3> QED
      BY <1>1, <3>1, <3>2
  <2> QED
    BY <2>1, <2>2, <2>8, <2>9
<1> QED
  BY <1>3, <1>4

(* Loops that end, and one that goes on, leave the others where they are.   *)
LEMMA LoopsKept ==
    ASSUME NEW s, NEW t, Len(t) \in Nat, Len(s) \in Nat, Len(t) <= Len(s),
           \A i \in 1..Len(t) : t[i].elem = s[i].elem, Inside(s)
    PROVE  Inside(t)
<1>1. \A l \in 2..Len(t) : l \in 2..Len(s) /\ l \in 1..Len(t) /\ \A i \in 1..(l - 1) : i \in 1..Len(t)
  <2>1. PICK x, y : x = Len(s) /\ y = Len(t) /\ x \in Nat /\ y \in Nat /\ y <= x
    OBVIOUS
  <2>2. \A l \in 2..y : l \in 2..x /\ l \in 1..y /\ \A i \in 1..(l - 1) : i \in 1..y
    BY <2>1
  <2> QED
    BY <2>1, <2>2
<1> QED
  BY <1>1 DEF Inside

(* So do steps that set none of the names of the loops.                     *)
LEMMA ValuesKept ==
    ASSUME NEW s, NEW t, Len(t) \in Nat, Len(s) \in Nat, Len(t) <= Len(s),
           \A i \in 1..Len(t) : t[i].elem = s[i].elem /\ t[i].item = s[i].item,
           NEW S, NEW st, Has(st, s, S),
           NEW new, \A l \in 2..Len(s) : s[l].elem \in S /\ Own(st, s[l]) => Own(new, s[l])
    PROVE  Has(new, t, S)
<1>1. \A l \in 2..Len(t) : l \in 2..Len(s) /\ l \in 1..Len(t)
  <2>1. PICK x, y : x = Len(s) /\ y = Len(t) /\ x \in Nat /\ y \in Nat /\ y <= x
    OBVIOUS
  <2>2. \A l \in 2..y : l \in 2..x /\ l \in 1..y
    BY <2>1
  <2> QED
    BY <2>1, <2>2
<1> QED
  BY <1>1 DEF Has, Own

(* A loop over a child of the loop in hand.                                 *)
LEMMA LoopEntered ==
    ASSUME NEW s, NEW m, m = Len(s), m \in Nat, m > 0, Inside(s),
           \A i \in 1..m : s[i].elem \in Elems,
           NEW t, Len(t) = m + 1,
           \A i \in 1..m : t[i].elem = s[i].elem,
           NEW k \in 1..Len(Kids[s[m].elem]), t[m + 1].elem = Kids[s[m].elem][k]
    PROVE  Inside(t)
<1>1. \A l \in 2..(m + 1) : l \in 2..m \/ l = m + 1
  OBVIOUS
<1>2. \A i \in 1..m : t[m + 1].elem \in Below[s[i].elem]
  <2> TAKE i \in 1..m
  <2>1. CASE i = m
    BY <2>1, BelowGrows
  <2>2. CASE i # m
    <3>1. m \in 2..m /\ i \in 1..(m - 1)
      BY <2>2
    <3>2. s[m].elem \in Below[s[i].elem]
      BY <3>1 DEF Inside
    <3> QED
      BY <3>2, BelowGrows
  <2> QED
    BY <2>1, <2>2
<1>3. ASSUME NEW l \in 2..(m + 1), NEW i \in 1..(l - 1) PROVE t[l].elem \in Below[t[i].elem]
  <2>1. CASE l = m + 1
    <3>1. i \in 1..m
      BY <1>3, <2>1
    <3> QED
      BY <1>2, <2>1, <3>1
  <2>2. CASE l \in 2..m
    <3>1. i \in 1..m /\ l \in 1..m
      BY <1>3, <2>2
    <3>2. s[l].elem \in Below[s[i].elem]
      BY <1>3, <2>2 DEF Inside
    <3> QED
      BY <3>1, <3>2
  <2> QED
    BY <1>1, <1>3, <2>1, <2>2
<1> QED
  BY <1>3 DEF Inside

(* The innermost loop sets its value: no loop around it has the same name,  *)
(* or that one's name is set again inside it.                               *)
LEMMA ValueSet ==
    ASSUME NEW S, \A e \in S : \A d \in Below[e] : IsSequence(d) => SeqName[d] # SeqName[e],
           NEW t, NEW m, m = Len(t), m \in Nat, m > 1, Inside(t), IsSequence(t[m].elem),
           NEW st, \A l \in 2..(m - 1) : t[l].elem \in S => Own(st, t[l]),
           NEW e, e = t[m].elem, NEW v, v = t[m].item,
           NEW new, new = With(st, SeqName[e], [of |-> e, item |-> v])
    PROVE  Has(new, t, S)
<1>1. PICK key, val : key = SeqName[e] /\ val = [of |-> e, item |-> v]
  OBVIOUS
<1>2. /\ DOMAIN new = DOMAIN st \cup {key} /\ new[key] = val
      /\ \A y \in DOMAIN st : y # key => new[y] = st[y]
  BY <1>1 DEF With
<1>3. ASSUME NEW l \in 2..m, t[l].elem \in S PROVE Own(new, t[l])
  <2>1. CASE l = m
    BY <1>1, <1>2, <2>1 DEF Own
  <2>2. CASE l # m
    <3>1. l \in 2..(m - 1) /\ m \in 2..m /\ l \in 1..(m - 1)
      BY <1>3, <2>2
    <3>2. Own(st, t[l])
      BY <1>3, <3>1
    <3>3. t[m].elem \in Below[t[l].elem]
      BY <3>1 DEF Inside
    <3>4. SeqName[t[l].elem] # key
      BY <1>1, <1>3, <3>3
    <3> QED
      BY <1>2, <3>2, <3>4 DEF Own
  <2> QED
    BY <2>1, <2>2
<1> QED
  BY <1>3 DEF Has

(* Entry n of a table is the one that the urllist wants there.              *)
IsWanted(r, n) ==
    /\ r.url = Expansion[Root][n].url
    /\ \A e \in DOMAIN Expansion[Root][n].vals \cap Sole :
         \A k \in DOMAIN tokens[Expansion[Root][n].url] :
            tokens[Expansion[Root][n].url][k] = [kind |-> "get", name |-> SeqName[e]]
              => r.vals[k] = [of |-> e, item |-> Expansion[Root][n].vals[e]]

Kept(p) ==
    phase[p] \in {"walk", "header"} => Inside(stack[p]) /\ Has(state[p], stack[p], Sole)
Ordered(p) == \A n \in 1..Len(table[p]) : IsWanted(table[p][n], n)

OrderInv ==
    /\ tokens \in Templates
    /\ state = [p \in Runs |-> state[p]]
    /\ \A p \in Runs : Kept(p) /\ Ordered(p)

(* The places that the loops of s are at.                                   *)
Places(s) ==
    [e \in Elems |-> IF \E l \in 2..Len(s) : s[l].elem = e
                     THEN s[CHOOSE l \in 2..Len(s) : s[l].elem = e].item ELSE -1]

LEMMA PlacesGiven ==
    ASSUME NEW s, Len(s) \in Nat, Inside(s), \A i \in 1..Len(s) : s[i].elem \in Elems
    PROVE  Gives(Places(s), s)
<1>1. PICK m : m = Len(s) /\ m \in Nat
  OBVIOUS
<1>2. ASSUME NEW l \in 2..m, NEW i \in 1..(l - 1) PROVE s[i].elem < s[l].elem
  <2>1. i \in 1..m /\ s[l].elem \in Below[s[i].elem]
    BY <1>1, <1>2 DEF Inside
  <2> QED
    BY <1>1, <2>1, BelowGrows
<1>3. Elems \subseteq Nat
  <2>1. Cardinality(Elems) \in Nat
    BY UrlListAssumption, FS_CardinalityType
  <2> QED
    BY <2>1, UrlListAssumption
<1>4. ASSUME NEW l \in 2..m, NEW i \in 2..m, s[i].elem = s[l].elem PROVE i = l
  <2>1. s[l].elem \in Nat
    <3>1. l \in 1..m
      BY <1>1, <1>4
    <3> QED
      BY <1>1, <1>3, <3>1
  <2>2. CASE i < l
    <3>1. i \in 1..(l - 1)
      BY <1>1, <1>4, <2>2
    <3> QED
      BY <1>2, <1>4, <2>1, <3>1
  <2>3. CASE l < i
    <3>1. l \in 1..(i - 1)
      BY <1>1, <1>4, <2>3
    <3> QED
      BY <1>2, <1>4, <2>1, <3>1
  <2> QED
    BY <1>1, <1>4, <2>2, <2>3
<1>5. ASSUME NEW l \in 2..m PROVE Places(s)[s[l].elem] = s[l].item
  <2>1. PICK e : e = s[l].elem /\ e \in Elems
    <3>1. l \in 1..m
      BY <1>1, <1>5
    <3> QED
      BY <1>1, <3>1
  <2>2. PICK i : i = CHOOSE j \in 2..Len(s) : s[j].elem = e
    OBVIOUS
  <2>3. i \in 2..m /\ s[i].elem = e
    BY <1>1, <2>1, <2>2
  <2>4. i = l
    BY <1>4, <1>5, <2>1, <2>3
  <2>5. Places(s)[e] = s[i].item
    BY <1>1, <2>1, <2>2 DEF Places
  <2> QED
    BY <2>1, <2>4, <2>5
<1> QED
  BY <1>1, <1>5 DEF Gives

(* The entry that parse_xml_url_info and handle_param_string add.           *)
LEMMA EntryWanted ==
    ASSUME tokens \in Templates,
           NEW s, Nested(s), NEW n, Reached(s, n), NEW top, top = s[Len(s)],
           top.kid <= Len(Kids[top.elem]), Inside(s),
           NEW c, c = Kids[top.elem][top.kid], Kind[c] = "url",
           NEW st, Has(st, s, Sole),
           NEW r, r.url = c,
           top.elem # Root => r.vals = ExpandedTo(tokens[c], st)
    PROVE  IsWanted(r, n + 1)
<1>1. PICK a : Steps(a, s) /\ n = a[Len(s)]
  BY DEF Reached
<1>2. PICK m, at : m = Len(s) /\ at = Places(s)
  OBVIOUS
<1>3. m \in Nat /\ m > 0 /\ \A i \in 1..m : s[i].elem \in Elems
  <2>1. m \in Nat /\ m > 0
    BY <1>2 DEF Nested
  <2> QED
    BY <1>2, <2>1, FramesAre
<1>4. Gives(at, s)
  BY <1>2, <1>3, PlacesGiven
<1>5. /\ n + 1 \in 1..UrlsBelow[Root] /\ Expansion[Root][n + 1].url = c
      /\ \A y \in DOMAIN Expansion[Root][n + 1].vals : Expansion[Root][n + 1].vals[y] = at[y]
  <2>1. PICK k : k = n + 1
    OBVIOUS
  <2>2. k = a[Len(s)] + 1
    BY <1>1, <2>1
  <2>3. /\ k \in 1..UrlsBelow[Root] /\ Expansion[Root][k].url = c
        /\ \A y \in DOMAIN Expansion[Root][k].vals : Expansion[Root][k].vals[y] = at[y]
    BY <1>1, <1>4, <2>2, LiesInAll
  <2> QED
    BY <2>1, <2>3
<1>6. PICK w : w = Expansion[Root][n + 1].vals
  OBVIOUS
<1>7. w \in Values
  <2>1. Expansion[Root] \in Seq(Wanted) /\ Len(Expansion[Root]) = UrlsBelow[Root]
    BY AllSequenced, UrlListAssumption DEF Sequenced
  <2>2. Expansion[Root][n + 1] \in Wanted
    BY <1>5, <2>1
  <2> QED
    BY <1>6, <2>2 DEF Wanted
<1>8. PICK t : t = tokens[c]
  OBVIOUS
<1>9. c \in Elems /\ DOMAIN t = 1..Len(t) /\ Len(t) \in Nat
  <2>1. top.elem \in Elems /\ top.kid \in 1..Len(Kids[top.elem])
    <3>1. top.elem \in Elems /\ top.kid \in Nat \ {0} /\ Len(Kids[top.elem]) \in Nat
      BY <1>2, <1>3, FramesAre
    <3> QED
      BY <3>1
  <2>2. c \in Elems
    BY <2>1, PartIs
  <2>3. t \in Seq([kind: {"get", "set"}, name: Names])
    BY <1>8, <2>2, UrlListAssumption
  <2> QED
    BY <2>2, <2>3
<1>10. ASSUME NEW e \in DOMAIN w, e \in Sole, NEW k \in DOMAIN t,
              t[k] = [kind |-> "get", name |-> SeqName[e]]
       PROVE  r.vals[k] = [of |-> e, item |-> w[e]]
  <2>1. w[e] = at[e] /\ w[e] \in Nat /\ e \in Elems
    BY <1>5, <1>6, <1>7 DEF Values
  <2>2. PICK l \in 2..m : s[l].elem = e
    BY <1>2, <2>1 DEF Places
  <2>3. s[l].item = w[e] /\ Own(st, s[l])
    BY <1>2, <1>4, <1>10, <2>1, <2>2 DEF Gives, Has
  <2>4. st[SeqName[e]] = [of |-> e, item |-> w[e]]
    BY <2>2, <2>3 DEF Own
  <2>5. top.elem # Root
    <3>1. m # 1
      BY <1>3, <2>2
    <3> QED
      BY <1>2, <3>1, TopIs
  <2>6. c \in Below[e]
    <3>1. /\ top.elem \in Elems /\ top.kid \in Nat \ {0} /\ Len(Kids[top.elem]) \in Nat
          /\ m \in 1..m
      BY <1>2, <1>3, FramesAre
    <3>2. top.kid \in 1..Len(Kids[top.elem])
      BY <3>1
    <3>3. CASE l = m
      BY <1>2, <2>2, <3>1, <3>2, <3>3, BelowGrows
    <3>4. CASE l # m
      <4>1. m \in 2..m /\ l \in 1..(m - 1)
        BY <1>3, <2>2, <3>4
      <4>2. top.elem \in Below[e]
        BY <1>2, <2>2, <4>1 DEF Inside
      <4> QED
        BY <2>1, <3>2, <4>2, BelowGrows
    <3> QED
      BY <3>3, <3>4
  <2>7. SeqName[e] \notin Draws(t)
    BY <1>8, <1>10, <2>6 DEF Sole
  <2>8. ~DrawnBefore(t, k)
    <3> SUFFICES ASSUME NEW j \in 1..(k - 1), t[j] = [kind |-> "set", name |-> t[k].name]
                 PROVE  FALSE
      BY DEF DrawnBefore
    <3>1. j \in DOMAIN t
      BY <1>9, <1>10
    <3>2. t[j].kind = "set" /\ t[j].name = SeqName[e]
      BY <1>10
    <3> QED
      BY <2>7, <3>1, <3>2 DEF Draws
  <2>9. t[k].kind = "get" /\ t[k].name = SeqName[e]
    BY <1>10
  <2>10. ExpandedTo(t, st)[k] = st[SeqName[e]]
    BY <1>10, <2>8, <2>9 DEF ExpandedTo
  <2> QED
    BY <1>8, <2>4, <2>5, <2>10
<1>11. PICK want : want = Expansion[Root][n + 1] /\ want.url = c /\ want.vals = w
  BY <1>5, <1>6
<1>12. \A e \in DOMAIN want.vals \cap Sole : \A k \in DOMAIN tokens[want.url] :
         tokens[want.url][k] = [kind |-> "get", name |-> SeqName[e]]
           => r.vals[k] = [of |-> e, item |-> want.vals[e]]
  <2>1. want.vals = w /\ tokens[want.url] = t
    BY <1>8, <1>11
  <2>2. ASSUME NEW e \in DOMAIN want.vals \cap Sole, NEW k \in DOMAIN tokens[want.url],
               tokens[want.url][k] = [kind |-> "get", name |-> SeqName[e]]
        PROVE  r.vals[k] = [of |-> e, item |-> want.vals[e]]
    <3>1. e \in DOMAIN w /\ e \in Sole /\ k \in DOMAIN t
          /\ t[k] = [kind |-> "get", name |-> SeqName[e]]
      BY <2>1, <2>2
    <3>2. r.vals[k] = [of |-> e, item |-> w[e]]
      BY <1>10, <3>1
    <3> QED
      BY <2>1, <3>2
  <2> QED
    BY <2>2
<1> QED
  BY <1>11, <1>12 DEF IsWanted

LEMMA OrderStep == HeaderInv /\ LoopInv /\ OrderInv /\ [Next]_vars => OrderInv'
<1>1. SUFFICES ASSUME HeaderInv, LoopInv, OrderInv, [Next]_vars PROVE OrderInv'
  OBVIOUS
<1>0. tokens' = tokens /\ Sole' = Sole
  <2>1. tokens' = tokens
    BY <1>1 DEF Next, Stopped, vars, Run, Count, SkipOther, EnterSequence, NextItem, EndLoop,
                ParseUrl, ParseFails, ParseCrashes, TakeHeader, UrlDone
  <2> QED
    BY <2>1 DEF Sole, Draws
<1>2. SUFFICES ASSUME NEW p \in Runs, Run(p) PROVE Kept(p)' /\ Ordered(p)'
  <2>1. CASE UNCHANGED vars
    BY <1>1, <1>0, <2>1 DEF vars, OrderInv, Kept, Ordered, IsWanted
  <2>2. CASE \E p \in Runs : Run(p)
    <3>1. PICK p \in Runs : Run(p)
      BY <2>2
    <3>2. state' = [q \in Runs |-> state'[q]] /\ \A q \in Runs \ {p} : state'[q] = state[q]
      <4>1. CASE state' = state
        BY <1>1, <4>1 DEF OrderInv
      <4>2. CASE EnterSequence(p) \/ NextItem(p)
        BY <1>1, <4>2 DEF OrderInv, EnterSequence, NextItem, SetState
      <4>3. CASE ParseUrl(p)
        BY <1>1, <4>3 DEF OrderInv, ParseUrl
      <4> QED
        BY <3>1, <4>1, <4>2, <4>3 DEF Run, Count, SkipOther, EndLoop, ParseFails, ParseCrashes,
                                      TakeHeader, UrlDone
    <3>3. \A q \in Runs \ {p} : UNCHANGED <<phase[q], stack[q], table[q]>>
      BY <1>1, <3>1, OneRuns
    <3>4. \A q \in Runs \ {p} : Kept(q)' /\ Ordered(q)'
      BY <1>1, <1>0, <3>2, <3>3 DEF OrderInv, Kept, Ordered, IsWanted
    <3>5. Kept(p)' /\ Ordered(p)'
      BY <1>2, <3>1
    <3> QED
      BY <1>1, <1>0, <3>2, <3>4, <3>5 DEF OrderInv
  <2> QED
    BY <1>1, <2>1, <2>2 DEF Next, Stopped
<1>3. PICK s, top, n, st, S : /\ s = stack[p] /\ top = Top(p) /\ n = Len(table[p])
                              /\ st = state[p] /\ S = Sole
  OBVIOUS
<1>4. /\ phase = [q \in Runs |-> phase[q]] /\ table = [q \in Runs |-> table[q]]
      /\ stack = [q \in Runs |-> stack[q]] /\ state = [q \in Runs |-> state[q]]
      /\ TableOf(p) /\ IsTable(table[p]) /\ Kept(p) /\ Ordered(p)
  BY <1>1 DEF HeaderInv, Walkers, LoopInv, OrderInv
<1>5. ASSUME phase[p] = "walk"
      PROVE  /\ Nested(s) /\ Reached(s, n) /\ Inside(s) /\ Has(st, s, S)
             /\ top = s[Len(s)] /\ s \in Seq(Frame) /\ top \in Frame
             /\ Len(s) \in Nat /\ Len(s) > 0 /\ Len(s) \in 1..Len(s)
             /\ \A i \in 1..Len(s) : s[i].elem \in Elems
  <2>1. Nested(s) /\ Reached(s, n) /\ Inside(s) /\ Has(st, s, S) /\ top = s[Len(s)]
    BY <1>3, <1>4, <1>5 DEF Top, TableOf, Kept
  <2>2. s \in Seq(Frame) /\ Len(s) \in Nat /\ Len(s) > 0 /\ Len(s) \in 1..Len(s)
    BY <2>1 DEF Nested
  <2>3. \A i \in 1..Len(s) : s[i].elem \in Elems
    BY <2>1, FramesAre
  <2>4. top \in Frame
    BY <2>1, <2>2
  <2> QED
    BY <2>1, <2>2, <2>3, <2>4
<1>6. ASSUME UNCHANGED <<table[p]>> PROVE Ordered(p)'
  BY <1>0, <1>4, <1>6 DEF Ordered, IsWanted
<1>7. ASSUME NEW f \in Frame, f.elem = top.elem, phase[p] = "walk"
      PROVE  LET t == Append(SubSeq(s, 1, Len(s) - 1), f)
             IN  /\ Len(t) = Len(s) /\ \A i \in 1..(Len(s) - 1) : t[i] = s[i]
                 /\ t[Len(s)] = f /\ t \in Seq(Frame)
                 /\ \A i \in 1..Len(s) : t[i].elem = s[i].elem
                 /\ f.item = top.item => \A i \in 1..Len(s) : t[i].item = s[i].item
  <2>1. PICK t : t = Append(SubSeq(s, 1, Len(s) - 1), f)
    OBVIOUS
  <2>2. /\ Len(t) = Len(s) /\ \A i \in 1..(Len(s) - 1) : t[i] = s[i]
        /\ t[Len(s)] = f /\ t \in Seq(Frame)
    <3>1. s \in Seq(Frame) /\ Len(s) > 0
      BY <1>5, <1>7
    <3> QED
      BY <2>1, <3>1, TopReplaced
  <2>3. \A i \in 1..Len(s) : i \in 1..(Len(s) - 1) \/ i = Len(s)
    <3>1. Len(s) \in Nat
      BY <1>5, <1>7
    <3> QED
      BY <3>1
  <2>4. top = s[Len(s)]
    BY <1>5, <1>7
  <2> QED
    BY <1>7, <2>1, <2>2, <2>3, <2>4
<1>8. ASSUME phase[p] = "walk" PROVE Past(top) \in Frame /\ Past(top).elem = top.elem /\ Past(top).item = top.item
  <2>1. top \in Frame
    BY <1>5, <1>8
  <2> QED
    BY <2>1 DEF Past, Frame
<1>9. ASSUME phase[p] = "walk", stack' = [stack EXCEPT ![p] = Replace(p, Past(Top(p)))],
             \A l \in 2..Len(s) : s[l].elem \in S /\ Own(st, s[l]) => Own(state'[p], s[l])
      PROVE  Kept(p)'
  <2>1. PICK t : t = Append(SubSeq(s, 1, Len(s) - 1), Past(top))
    OBVIOUS
  <2>2. Len(t) = Len(s) /\ \A i \in 1..Len(s) : t[i].elem = s[i].elem /\ t[i].item = s[i].item
    BY <1>7, <1>8, <1>9, <2>1
  <2>3. stack'[p] = t
    BY <1>3, <1>4, <1>9, <2>1 DEF Replace, Pop
  <2>4. Inside(s) /\ Has(st, s, S) /\ Len(s) \in Nat /\ Len(t) \in Nat /\ Len(t) <= Len(s)
    BY <1>5, <1>9, <2>2
  <2>5. Inside(t)
    BY <2>2, <2>4, LoopsKept
  <2>6. Has(state'[p], t, S)
    <3>1. PICK new : new = state'[p]
      OBVIOUS
    <3>2. \A l \in 2..Len(s) : s[l].elem \in S /\ Own(st, s[l]) => Own(new, s[l])
      BY <1>9, <3>1
    <3>3. Has(new, t, S)
      BY <2>2, <2>4, <3>2, ValuesKept
    <3> QED
      BY <3>1, <3>3
  <2> QED
    BY <1>0, <1>3, <2>3, <2>5, <2>6 DEF Kept
<1>10. \A e \in S : \A d \in Below[e] : /\ IsSequence(d) => SeqName[d] # SeqName[e]
                                        /\ Kind[d] = "url" => SeqName[e] \notin Draws(tokens[d])
  BY <1>3 DEF Sole
<1>11. CASE Count(p)
  <2>1. table' = table /\ phase[p] = "start"
    BY <1>11 DEF Count
  <2>2. Kept(p)'
    <3>1. CASE CountUrls = 0
      BY <1>4, <1>11, <3>1 DEF Count, Kept
    <3>2. CASE CountUrls # 0
      <4>1. PICK f : f = [elem |-> Root, item |-> 1, kid |-> 1]
        OBVIOUS
      <4>2. stack'[p] = <<f>>
        BY <1>4, <1>11, <3>2, <4>1 DEF Count
      <4>3. Len(<<f>>) = 1 /\ 2..1 = {}
        OBVIOUS
      <4> QED
        BY <4>2, <4>3 DEF Kept, Inside, Has
    <3> QED
      BY <3>1, <3>2
  <2> QED
    BY <1>6, <2>1, <2>2
<1>12. CASE SkipOther(p)
  <2>1. phase[p] = "walk" /\ table' = table /\ state' = state
        /\ stack' = [stack EXCEPT ![p] = Replace(p, Past(Top(p)))]
    BY <1>12 DEF SkipOther, AtKid
  <2> QED
    BY <1>3, <1>6, <1>9, <2>1
<1>13. CASE EnterSequence(p)
  <2>1. /\ phase[p] = "walk" /\ table' = table /\ phase' = phase /\ IsSequence(Kid(p))
        /\ top.kid <= Len(Kids[top.elem]) /\ Kid(p) = Kids[top.elem][top.kid]
        /\ state' = [state EXCEPT ![p] = With(@, SeqName[Kid(p)], [of |-> Kid(p), item |-> 1])]
    BY <1>3, <1>13 DEF EnterSequence, AtKid, Kid, SetState
  <2>2. PICK f, c : f = [elem |-> Kid(p), item |-> 1, kid |-> 1] /\ c = Kid(p)
    OBVIOUS
  <2>3. c \in Elems /\ f.elem = c /\ f.item = 1 /\ top.kid \in 1..Len(Kids[top.elem])
    <3>1. top \in Frame
      BY <1>5, <2>1
    <3>2. top.elem \in Elems /\ top.kid \in Nat \ {0}
      BY <3>1 DEF Frame
    <3>3. top.kid \in 1..Len(Kids[top.elem])
      <4>1. Len(Kids[top.elem]) \in Nat
        BY <3>2, PartIs
      <4> QED
        BY <2>1, <3>2, <4>1
    <3> QED
      BY <2>1, <2>2, <3>2, <3>3, PartIs
  <2>4. PICK b, t : b = Append(SubSeq(s, 1, Len(s) - 1), Past(top)) /\ t = Append(b, f)
    OBVIOUS
  <2>5. stack'[p] = t
    BY <1>3, <1>4, <1>13, <2>2, <2>4 DEF EnterSequence, Replace, Pop
  <2>6. /\ Len(b) = Len(s) /\ b \in Seq(Frame)
        /\ \A i \in 1..Len(s) : b[i].elem = s[i].elem /\ b[i].item = s[i].item
    BY <1>7, <1>8, <2>1, <2>4
  <2>7. PICK m, m1 : m = Len(s) /\ m1 = m + 1
    OBVIOUS
  <2>8. /\ m \in Nat /\ m > 0 /\ Inside(s) /\ Has(st, s, S) /\ top = s[m]
        /\ \A i \in 1..m : s[i].elem \in Elems
    BY <1>5, <2>1, <2>7
  <2>9. Len(t) = m1 /\ t[m1] = f /\ \A i \in 1..m : t[i] = b[i]
    <3>1. f \in Frame
      BY <2>2, <2>3 DEF Frame
    <3> QED
      BY <2>4, <2>6, <2>7, <3>1, AppendProperties
  <2>10. \A i \in 1..m : t[i].elem = s[i].elem /\ t[i].item = s[i].item
    BY <2>6, <2>7, <2>9
  <2>11. Inside(t)
    <3>1. t[m + 1].elem = Kids[s[m].elem][top.kid] /\ top.kid \in 1..Len(Kids[s[m].elem])
      BY <2>1, <2>2, <2>3, <2>7, <2>8, <2>9
    <3>2. Len(t) = m + 1
      BY <2>7, <2>9
    <3> QED
      BY <2>7, <2>8, <2>10, <3>1, <3>2, LoopEntered
  <2>12. PICK new : new = With(st, SeqName[c], [of |-> c, item |-> 1])
    OBVIOUS
  <2>13. Has(new, t, S)
    <3>1. m1 \in Nat /\ m1 > 1 /\ m1 = Len(t) /\ m1 - 1 = m
      BY <2>7, <2>8, <2>9
    <3>2. IsSequence(t[m1].elem) /\ c = t[m1].elem /\ 1 = t[m1].item
      BY <2>1, <2>2, <2>3, <2>9
    <3>3. \A l \in 2..(m1 - 1) : t[l].elem \in S => Own(st, t[l])
      <4>1. \A l \in 2..m : l \in 1..m
        BY <2>8
      <4> QED
        BY <2>7, <2>8, <2>10, <3>1, <4>1 DEF Has, Own
    <3> QED
      BY <1>10, <2>11, <2>12, <3>1, <3>2, <3>3, ValueSet
  <2>14. state'[p] = new
    BY <1>3, <1>4, <2>1, <2>2, <2>12
  <2>15. Kept(p)'
    BY <1>0, <1>3, <2>5, <2>11, <2>13, <2>14 DEF Kept
  <2> QED
    BY <1>6, <2>1, <2>15
<1>14. CASE NextItem(p)
  <2>1. /\ phase[p] = "walk" /\ table' = table /\ phase' = phase
        /\ top.elem # Root
        /\ state' = [state EXCEPT ![p] = With(@, SeqName[top.elem],
                                              [of |-> top.elem, item |-> top.item + 1])]
    BY <1>3, <1>14 DEF NextItem, SetState, ValueOf
  <2>2. PICK f : f = [elem |-> top.elem, item |-> top.item + 1, kid |-> 1]
    OBVIOUS
  <2>3. f \in Frame /\ f.elem = top.elem /\ f.item = top.item + 1
    <3>1. top \in Frame
      BY <1>5, <2>1
    <3> QED
      BY <2>2, <3>1 DEF Frame
  <2>4. PICK t : t = Append(SubSeq(s, 1, Len(s) - 1), f)
    OBVIOUS
  <2>5. stack'[p] = t
    BY <1>3, <1>4, <1>14, <2>2, <2>4 DEF NextItem, Replace, Pop
  <2>6. /\ Len(t) = Len(s) /\ \A i \in 1..(Len(s) - 1) : t[i] = s[i]
        /\ t[Len(s)] = f /\ \A i \in 1..Len(s) : t[i].elem = s[i].elem
    BY <1>7, <2>1, <2>3, <2>4
  <2>7. PICK m : m = Len(s)
    OBVIOUS
  <2>8. /\ m \in Nat /\ m > 0 /\ Inside(s) /\ Has(st, s, S) /\ top = s[m] /\ Nested(s)
    BY <1>5, <2>1, <2>7
  <2>9. m > 1 /\ IsSequence(top.elem)
    <3>1. m # 1
      BY <2>1, <2>7, <2>8, TopIs
    <3>2. m > 1 /\ m - 1 \in 1..(m - 1) /\ (m - 1) + 1 = m
      BY <2>8, <3>1
    <3>3. IsSequence(s[(m - 1) + 1].elem)
      BY <2>7, <2>8, <3>2 DEF Nested
    <3> QED
      BY <2>8, <3>2, <3>3
  <2>10. /\ m = Len(t) /\ (\A i \in 1..(m - 1) : t[i] = s[i]) /\ t[m] = f
         /\ t[m].elem = top.elem /\ t[m].item = top.item + 1
    BY <2>3, <2>6, <2>7
  <2>11. Inside(t)
    <3>1. Len(t) \in Nat /\ Len(s) \in Nat /\ Len(t) <= Len(s)
      BY <2>6, <2>7, <2>8
    <3> QED
      BY <2>6, <2>8, <3>1, LoopsKept
  <2>12. PICK new : new = With(st, SeqName[top.elem], [of |-> top.elem, item |-> top.item + 1])
    OBVIOUS
  <2>13. Has(new, t, S)
    <3>1. \A l \in 2..(m - 1) : t[l].elem \in S => Own(st, t[l])
      <4>1. \A l \in 2..(m - 1) : l \in 1..(m - 1) /\ l \in 2..m
        BY <2>8
      <4> QED
        BY <2>7, <2>8, <2>10, <4>1 DEF Has
    <3>2. IsSequence(t[m].elem)
      BY <2>9, <2>10
    <3> QED
      BY <1>10, <2>8, <2>9, <2>10, <2>11, <2>12, <3>1, <3>2, ValueSet
  <2>14. state'[p] = new
    BY <1>3, <1>4, <2>1, <2>12
  <2>15. Kept(p)'
    BY <1>0, <1>3, <2>1, <2>5, <2>11, <2>13, <2>14 DEF Kept
  <2> QED
    BY <1>6, <2>1, <2>15
<1>15. CASE EndLoop(p)
  <2>1. /\ phase[p] = "walk" /\ table' = table /\ state' = state
        /\ stack'[p] = SubSeq(s, 1, Len(s) - 1)
    BY <1>3, <1>4, <1>15 DEF EndLoop, Pop
  <2>2. PICK t : t = SubSeq(s, 1, Len(s) - 1)
    OBVIOUS
  <2>3. Len(s) \in Nat /\ Len(t) = Len(s) - 1 /\ \A i \in 1..(Len(s) - 1) : t[i] = s[i]
    <3>1. s \in Seq(Frame) /\ Len(s) > 0
      BY <1>5, <2>1
    <3> QED
      BY <2>2, <3>1, Shortened
  <2>4. Inside(s) /\ Has(st, s, S) /\ Len(t) \in Nat /\ Len(t) <= Len(s)
    <3>1. Len(s) \in Nat /\ Len(s) > 0 /\ Inside(s) /\ Has(st, s, S)
      BY <1>5, <2>1
    <3> QED
      BY <2>3, <3>1
  <2>5. \A i \in 1..Len(t) : t[i].elem = s[i].elem /\ t[i].item = s[i].item
    BY <2>3
  <2>6. Inside(t) /\ Has(st, t, S)
    BY <2>3, <2>4, <2>5, LoopsKept, ValuesKept
  <2>7. Kept(p)'
    BY <1>0, <1>3, <2>1, <2>2, <2>6 DEF Kept
  <2> QED
    BY <1>6, <2>1, <2>7
<1>16. CASE ParseUrl(p)
  <2>1. /\ phase[p] = "walk"
        /\ stack' = [stack EXCEPT ![p] = Replace(p, Past(Top(p)))]
        /\ top.kid <= Len(Kids[top.elem]) /\ Kid(p) = Kids[top.elem][top.kid]
        /\ Kind[Kid(p)] = "url"
        /\ TemplatesNow(p) = IF top.elem = Root THEN <<>> ELSE tokens[Kid(p)]
    BY <1>3, <1>16 DEF ParseUrl, AtKid, Kid, TemplatesNow
  <2>2. PICK c, t, r, new :
          /\ c = Kid(p) /\ t = TemplatesNow(p)
          /\ r = [url |-> c, vals |-> ExpandedTo(t, st), headers |-> 0]
          /\ new = Append(table[p], r)
    OBVIOUS
  <2>3. table'[p] = new
    BY <1>3, <1>4, <1>16, <2>2 DEF ParseUrl
  <2>4. /\ Len(new) = n + 1 /\ n \in Nat
        /\ \A i \in 1..n : new[i] = table[p][i]
        /\ new[n + 1] = r
    <3>1. IsEntry(r)
      BY <2>2 DEF IsEntry
    <3> QED
      BY <1>3, <1>4, <2>2, <3>1, EntryAppended
  <2>5. /\ Nested(s) /\ Reached(s, n) /\ Inside(s) /\ Has(st, s, Sole) /\ top = s[Len(s)]
        /\ Len(s) \in Nat /\ Len(s) > 0 /\ Len(s) \in 1..Len(s)
        /\ \A i \in 1..Len(s) : s[i].elem \in Elems
    BY <1>3, <1>5, <2>1
  <2>9. IsWanted(r, n + 1)
    <3>1. /\ top.kid <= Len(Kids[top.elem]) /\ c = Kids[top.elem][top.kid] /\ Kind[c] = "url"
          /\ r.url = c /\ (top.elem # Root => r.vals = ExpandedTo(tokens[c], st))
      BY <2>1, <2>2
    <3>2. tokens \in Templates
      BY <1>1 DEF OrderInv
    <3> QED
      BY <2>5, <3>1, <3>2, EntryWanted
  <2>8. \A l \in 2..Len(s) : s[l].elem \in S /\ Own(st, s[l]) => Own(state'[p], s[l])
    <3> SUFFICES ASSUME NEW l \in 2..Len(s), s[l].elem \in S, Own(st, s[l])
                 PROVE  Own(state'[p], s[l])
      OBVIOUS
    <3>1. PICK m, e : m = Len(s) /\ e = s[l].elem
      OBVIOUS
    <3>2. m # 1 /\ m \in Nat /\ m \in 1..m /\ l \in 1..m /\ e \in Elems
      BY <2>5, <3>1
    <3>3. top.elem # Root /\ t = tokens[c]
      BY <2>1, <2>2, <2>5, <3>1, <3>2, TopIs
    <3>4. c \in Below[e]
      <4>1. top.kid \in 1..Len(Kids[top.elem]) /\ top.elem \in Elems
        <5>1. top.kid \in Nat \ {0} /\ Len(Kids[top.elem]) \in Nat /\ top.elem \in Elems
          BY <2>5, <3>1, <3>2, FramesAre
        <5> QED
          BY <2>1, <5>1
      <4>2. CASE l = m
        BY <2>1, <2>2, <2>5, <3>1, <4>1, <4>2, BelowGrows
      <4>3. CASE l # m
        <5>1. m \in 2..m /\ l \in 1..(m - 1)
          BY <3>1, <3>2, <4>3
        <5>2. top.elem \in Below[e]
          BY <2>5, <3>1, <5>1 DEF Inside
        <5> QED
          BY <2>1, <2>2, <3>2, <4>1, <5>2, BelowGrows
      <4> QED
        BY <4>2, <4>3
    <3>5. SeqName[e] \notin Draws(t)
      BY <1>10, <2>1, <2>2, <3>1, <3>3, <3>4
    <3>6. state'[p] = [x \in DOMAIN st \cup Draws(t) |-> IF x \in Draws(t) THEN Drawn ELSE st[x]]
      BY <1>3, <1>4, <1>16, <2>2 DEF ParseUrl
    <3> QED
      BY <3>1, <3>5, <3>6 DEF Own
  <2>6. Ordered(p)'
    <3>1. ASSUME NEW i \in 1..(n + 1) PROVE IsWanted(new[i], i)
      <4>1. CASE i = n + 1
        BY <2>4, <2>9, <4>1
      <4>2. CASE i # n + 1
        <5>1. i \in 1..n
          BY <2>4, <4>2
        <5> QED
          BY <1>3, <1>4, <2>4, <5>1 DEF Ordered
      <4> QED
        BY <4>1, <4>2
    <3>2. \A i \in 1..Len(table'[p]) : IsWanted(table'[p][i], i)
      BY <2>3, <2>4, <3>1
    <3> QED
      BY <1>0, <3>2 DEF Ordered, IsWanted
  <2> QED
    BY <1>9, <2>1, <2>6, <2>8
<1>17. CASE ParseFails(p) \/ ParseCrashes(p)
  BY <1>4, <1>6, <1>17 DEF ParseFails, ParseCrashes, Kept
<1>18. CASE TakeHeader(p)
  <2>1. /\ phase[p] = "header" /\ stack' = stack /\ state' = state /\ phase' = phase
        /\ table' = [table EXCEPT ![p][Len(table[p])].headers = last[p]]
    BY <1>18 DEF TakeHeader
  <2>2. PICK t : t = Counted(table[p], n, last[p])
    OBVIOUS
  <2>3. table'[p] = t
    BY <1>3, <1>4, <2>1, <2>2 DEF Counted
  <2>4. n \in 1..n
    <3>1. n > 0 /\ n \in Nat
      BY <1>1, <1>3, <2>1 DEF HeaderInv, Walkers, IsTable
    <3> QED
      BY <3>1
  <2>5. Len(t) = n /\ \A i \in 1..n : t[i].url = table[p][i].url /\ t[i].vals = table[p][i].vals
    BY <1>3, <1>4, <2>2, <2>4, HeaderCounted
  <2>6. \A i \in 1..n : IsWanted(table[p][i], i)
    BY <1>3, <1>4 DEF Ordered
  <2>7. \A i \in 1..n : IsWanted(t[i], i)
    BY <2>5, <2>6 DEF IsWanted
  <2>8. \A i \in 1..Len(table'[p]) : IsWanted(table'[p][i], i)
    BY <2>3, <2>5, <2>7
  <2>9. Ordered(p)'
    BY <1>0, <2>8 DEF Ordered, IsWanted
  <2>10. Kept(p)'
    BY <1>0, <1>4, <2>1 DEF Kept
  <2> QED
    BY <2>9, <2>10
<1>19. CASE UrlDone(p)
  BY <1>0, <1>4, <1>6, <1>19 DEF UrlDone, Kept
<1> QED
  BY <1>2, <1>11, <1>12, <1>13, <1>14, <1>15, <1>16, <1>17, <1>18, <1>19 DEF Run

(* Whatever the urllist, what parse_xml_seq_info and parse_xml_url_info     *)
(* leave in rp->url is its expansion: entry by entry the URL that is wanted *)
(* there, in which handle_param_string replaced ${name} by the value of the *)
(* sequence of that name around it.  Names that are set again inside their  *)
(* sequence, by a nested one that shares the name in p->state or by a       *)
(* ${=name}, are excepted: behind the inner use the outer value is gone.    *)
THEOREM ExpandsInOrder == Spec => []ExpandedInOrder
<1>1. Init => OrderInv
  <2>1. SUFFICES ASSUME Init PROVE OrderInv
    OBVIOUS
  <2>2. \A p \in Runs : phase[p] = "start" /\ table[p] = <<>> /\ Len(table[p]) = 0
    BY <2>1 DEF Init
  <2>3. state = [p \in Runs |-> state[p]]
    BY <2>1 DEF Init
  <2>4. 1..0 = {}
    OBVIOUS
  <2> QED
    BY <2>1, <2>2, <2>3, <2>4 DEF Init, OrderInv, Kept, Ordered
<1>2. Init => LoopInv
  BY LoopInit
<1>3. OrderInv => ExpandedInOrder
  BY DEF OrderInv, Ordered, IsWanted, ExpandedInOrder
<1>4. Spec => []HeaderInv
  BY HeaderStart, HeaderStep, PTL DEF Spec
<1>5. Spec => []LoopInv
  BY <1>2, <1>4, LoopStep, PTL DEF Spec
<1>6. Spec => []OrderInv
  BY <1>1, <1>4, <1>5, OrderStep, PTL DEF Spec
<1> QED
  BY <1>3, <1>6, PTL
=============================================================================
