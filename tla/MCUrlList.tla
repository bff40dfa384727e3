------------------------------ MODULE MCUrlList ------------------------------
(* Small urllists: nested sequences around URLs, one URL with two extra     *)
(* headers inside the inner sequence, one URL next to the sequences; then a *)
(* sequence in a sequence of the same name.                                 *)
EXTENDS UrlList

MCElems == 1..11
MCKind == <<"other", "sequence", "url", "sequence", "url", "other", "url",
            "sequence", "sequence", "url", "url">>
MCKids == <<<<6, 2, 8, 7>>, <<4, 3>>, <<>>, <<5>>, <<>>, <<>>, <<>>, <<9, 11>>, <<10>>, <<>>, <<>>>>
MCItems == <<1, 2, 1, 2, 1, 1, 1, 2, 2, 1, 1>>
MCHeaders == <<0, 0, 0, 0, 2, 0, 1, 0, 0, 0, 0>>
MCNames == {"a", "b", "c"}
MCSeqName == <<"c", "a", "c", "b", "c", "c", "c", "b", "b", "c", "c">>

Get(n) == [kind |-> "get", name |-> n]
Set(n) == [kind |-> "set", name |-> n]

(* URL 3 draws a number for c; 11 comes behind the inner sequence b.        *)
MCTokens == <<<<>>, <<>>, <<Get("a"), Set("c")>>, <<>>, <<Get("b"), Get("a")>>, <<>>, <<Get("c")>>,
              <<>>, <<>>, <<Get("b"), Get("c")>>, <<Get("b"), Set("a"), Get("a")>>>>

(* The same, but URL 5 uses c, which nothing sets before it. *)
MCUnset == [MCTokens EXCEPT ![5] = <<Get("a"), Get("c")>>]
MCTemplates == {MCTokens, MCUnset}

(* The last URL has a payload file. *)
MCFragile == {7}

(* The runs differ in nothing; every property checked here is a safety one.  *)
RunSymmetry == Permutations(Runs)
=============================================================================
