----------------------------- MODULE MCReverse -----------------------------
(* Small instances of Reverse for TLC. *)
EXTENDS Reverse, TLC

CONSTANTS s1, s2,  \* series
          t1, t2,  \* topics
          u1,      \* the URL of an issue, on the forge of either series
          h1, h2   \* content hashes

Note(s, c, h, m) == [series |-> s, url |-> u1, comment |-> c, hash |-> h, marked |-> m]

(* The kinds of note the loop tells apart.                                 *)
Kinds       == {Note(s1, FALSE, h2, FALSE), Note(s1, TRUE, h2, TRUE),
                Note(s1, TRUE, h1, FALSE)}
(* Native comments in two series.                                          *)
TwoSeries   == {Note(s1, TRUE, h2, FALSE), Note(s2, TRUE, h2, FALSE)}

LinkEither  == {<<s1, u1, t1>>, <<s1, u1, t2>>}
LinkBoth    == {<<s1, u1, t1>>, <<s2, u1, t2>>}
=============================================================================
