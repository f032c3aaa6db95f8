------------------------------- MODULE MCWire -------------------------------
(* Small instances of Wire.                                                *)
EXTENDS Wire

Good == [mode |-> "owner", public |-> "https", graft |-> "https",
         discourse |-> "https", series |-> TRUE, insecure |-> FALSE,
         interval |-> 0, once |-> FALSE]

(* Discourse on plain HTTP.                                                *)
Plain == [Good EXCEPT !.discourse = "http", !.insecure = TRUE]

(* And two that must not start: the flag does not extend to Graft.         *)
MCConfigs == {Good, Plain,
              [Plain EXCEPT !.graft = "http"],
              [Plain EXCEPT !.insecure = FALSE]}

PlainOnly == {Plain}

MCPaths == {<<"actor", "s1">>, <<"outbox", "s1">>, <<"inbox", "s1">>,
            <<"actor", "s2">>, <<"outbox", "s2">>, <<"inbox", "s2">>,
            <<"posts">>}

To(scheme, host, path) == [scheme |-> scheme, host |-> host, path |-> path, proper |-> TRUE]

(* The other series' inbox, the forum on either scheme, a host nobody      *)
(* configured, a private address, a local name, and a URL with userinfo.   *)
MCRedirects == {To("https", "graft", <<"inbox", "s2">>),
                To("https", "forum", <<"posts">>),
                To("http", "forum", <<"posts">>),
                To("https", "other", <<"posts">>),
                To("https", "private", <<"posts">>),
                To("https", "localhost", <<"posts">>),
                [To("https", "other", <<"posts">>) EXCEPT !.proper = FALSE]}

(* The usual redirect of a forum from HTTP to HTTPS.                       *)
ToHttps == {To("https", "forum", <<"posts">>)}

(* Short and long, with a separator inside, with white space at the end or *)
(* where the hash stops.                                                   *)
MCContents == {<<"a", "b">>, <<"a", ":", " ", "b">>, <<"a", "b", " ">>,
               <<"a", "b", "B", "A", "!", "a">>, <<"a", "b", "a", " ", "b">>}

OneContent == {<<"a">>}

Issue(id, title) == [uri     |-> NoteURI("graft", "s1", id),
                     content |-> <<"Issue", ":", " ">> \o title]

MCItems == <<Issue(1, <<"a", "B", " ", "b", "!">>), Issue(2, <<"a", " ", "b", " ", "!">>),
             [uri |-> NoteURI("graft", "s1", 3), content |-> <<"Commit", ":", " ", "a">>],
             [uri |-> NoteURI("other", "s1", 4), content |-> <<"Issue", ":", " ", "a">>]>>

NoItems == <<>>

(* Instants are in half seconds, the window is 600 of them either way.     *)
(* With the delays: too far behind and just within, just within and hardly *)
(* more, and a clock for which the fraction that was cut off decides.      *)
MCSkews == {-601, 598, 600}

MCMoments == {0, 1}

MCDelays == {0, 1}

(* Every title of up to three runes, and two longer ones.                  *)
MCTitles == UNION {[1..n -> {"A", "b", " ", "!"}] : n \in 0..3}
            \cup {<<"A", " ", " ", "b">>, <<"!", " ", "A", "b", " ", "!", " ", "B">>}
=============================================================================
