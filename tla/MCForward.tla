----------------------------- MODULE MCForward -----------------------------
(* Small instances of Forward for TLC. *)
EXTENDS Forward, TLC

CONSTANTS s1, s2,            \* series
          t1, t2,            \* topics
          i1, i2,            \* issue notes
          alice, carol, bot, \* Discourse accounts
          x, y               \* texts

Post(t, o, a, z) == [topic |-> t, opening |-> o, author |-> a, text |-> z]

MCSeriesOf   == (i1 :> s1) @@ (i2 :> s2)
SeriesOfI1   == (i1 :> s1)
OneSeriesOf  == (i1 :> s1) @@ (i2 :> s1)
MCHashes     == {alice, carol, bot} \X {x, y}

(* One reply, written as often as the forum's bound allows. *)
OneDraft     == {Post(t1, FALSE, alice, x)}
(* Replies to two topics. *)
TwoTopics    == {Post(t1, FALSE, alice, x), Post(t2, FALSE, carol, x)}
(* The kinds of post the loop tells apart. *)
MixedDrafts  == {Post(t1, TRUE, carol, x), Post(t1, FALSE, alice, x),
                 Post(t1, FALSE, bot, x)}

ListT1       == {(t1 :> 7)}
ListAll      == {(t1 :> 7) @@ (t2 :> 7)}
(* The topic is in an allowed category, in another one, or not listed. *)
ListVaries   == {(t1 :> 7), (t1 :> 8), EmptyMap}

BindEither   == {<<t1, i1>>, <<t1, i2>>}
BindBoth     == {<<t1, i1>>, <<t2, i2>>}
BindOne      == {<<t1, i1>>}
=============================================================================
