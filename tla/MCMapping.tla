----------------------------- MODULE MCMapping -----------------------------
(* Small instances of Mapping for TLC. *)
EXTENDS Mapping, TLC

CONSTANTS s1,          \* a series
          t1, t2, t3,  \* topics
          i1, i3,      \* notes of issues; i3 has no web URL
          u1,          \* a web URL
          a, b         \* admin requests

MCSeriesOf   == (i1 :> s1) @@ (i3 :> s1)
MCUrlOf      == (i1 :> u1) @@ (i3 :> NoUrl)

ExplicitT2   == (t2 :> i1)
ExplicitBad  == (t2 :> i1) @@ (t3 :> BadURI)

AskTwice     == {<<t1, i1>>, <<t1, i3>>}
AskSame      == {<<t1, i1>>, <<t2, i1>>}
MatchT1      == {<<t1, i1>>, <<t1, i3>>}
NoTitles     == {}

(* Two requests at once are interchangeable.                               *)
Symmetry     == Permutations(Handlers)
=============================================================================
