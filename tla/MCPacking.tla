----------------------------- MODULE MCPacking -----------------------------
(***************************************************************************)
(* Calls of five functions: of two strings, of a container of containers,  *)
(* of a multiset and an integer, of a container of multisets, and of a     *)
(* struct that holds others.                                               *)
(***************************************************************************)
EXTENDS Packing

Str(s) == <<"str", s>>
Num(n) == <<"int", n>>
A == <<1>>
B == <<2>>

MCStructs == <<
    [name |-> "pair", fields |-> <<<<A, "integer">>, <<B, "string">>>>],
    [name |-> "line", fields |-> <<<<A, "pair">>, <<B, "pair">>>>],
    [name |-> "tag",  fields |-> <<<<A, "string">>>>] >>

Strings == {Str(s) : s \in {<<>>, <<1>>, <<2>>, <<1, 2>>, <<2, 1>>, <<1, 1>>}}

\* Dicts of at most two entries, in both orders of insertion.
Dicts(V) ==
    {<<"dict", <<>>>>}
    \cup {<<"dict", <<<<k, v>>>>>> : k \in {A, B}, v \in V}
    \cup {<<"dict", <<<<A, v>>, <<B, w>>>>>> : v, w \in V}
    \cup {<<"dict", <<<<B, v>>, <<A, w>>>>>> : v, w \in V}

Lists(V) == {<<"list", s>> : s \in UNION {[1 .. n -> V] : n \in 0 .. 3}}

Pairs ==
    {<<"dict", <<>>>>,
     <<"dict", <<<<A, Num(1)>>>>>>,
     <<"dict", <<<<A, Num(1)>>, <<B, Str(<<1>>)>>>>>>,
     <<"dict", <<<<B, Str(<<1>>)>>, <<A, Num(1)>>>>>>}

TwoStrings == {<<Type("string"), s, Type("string"), t>> : s, t \in Strings}

Nested ==
    {<<Type("container"), Type("string"), Type("container"), Type("string"),
       Type("integer"), d>> :
        d \in Dicts({<<"dict", <<>>>>,
                     <<"dict", <<<<A, Num(1)>>>>>>,
                     <<"dict", <<<<A, Num(1)>>, <<B, Num(2)>>>>>>,
                     <<"dict", <<<<B, Num(2)>>, <<A, Num(1)>>>>>>})}

Bags ==
    {<<Type("multiset"), Type("integer"), l, Type("integer"), Num(1)>> :
        l \in Lists({Num(1), Num(2), Num(3)})}

DictsOfBags ==
    {<<Type("container"), Type("string"), Type("multiset"), Type("string"), d>> :
        d \in Dicts({<<"list", <<>>>>,
                     <<"list", <<Str(<<1>>), Str(<<2>>)>>>>,
                     <<"list", <<Str(<<2>>), Str(<<1>>)>>>>,
                     <<"list", <<Str(<<1, 2>>)>>>>})}

Lines ==
    {<<Type("line"), d>> : d \in Dicts(Pairs)}

MCSignatures == {TwoStrings, Nested, Bags, DictsOfBags, Lines}
=============================================================================
