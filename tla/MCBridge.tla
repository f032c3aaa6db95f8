------------------------------ MODULE MCBridge ------------------------------
(* Small instances of Bridge for TLC. *)
EXTENDS Bridge, TLC

CONSTANTS s1,                \* series
          t1,                \* topic
          i1,                \* note of its issue
          u1,                \* the issue's URL
          alice, bot,        \* Discourse accounts
          x, m,              \* text of users, text of mirrored comments
          h1                 \* hash of a native comment

MCSeriesOf == (i1 :> s1)
MCUrlOf    == (i1 :> u1)
MCExplicit == (t1 :> i1)
MCLists    == {(t1 :> 7)}
MCHashes   == ({alice, bot} \X {x, m}) \cup {h1}
Reply      == {[topic |-> t1, opening |-> FALSE, author |-> alice, text |-> x]}
Native     == {[series |-> s1, url |-> u1, comment |-> TRUE, hash |-> h1, marked |-> FALSE]}
=============================================================================
