-------------------------------- MODULE Text --------------------------------
(***************************************************************************)
(* What the bridge does to texts: note URIs (src/internal/ap/object.go),   *)
(* note contents and titles (src/internal/graft/note.go), content hashes   *)
(* (src/internal/bridge/bridge.go).  A text is a sequence over a small     *)
(* alphabet of letters, white space and punctuation, in which the prefixes *)
(* Graft puts before a note are single symbols.  A SHA-256 hash is the     *)
(* text it was computed from.                                              *)
(***************************************************************************)
EXTENDS Integers, SequencesExt, FiniteSetsExt

CONSTANTS
  HashRunes,  \* how many runes of a content the bridge hashes (200)
  Host        \* the Graft host

Space == " "

(* Letters and digits, and how strings.ToLower maps them.                  *)
LowerOf == [A |-> "a", B |-> "b", a |-> "a", b |-> "b",
            Commit |-> "commit", Issue |-> "issue", Patch |-> "patch",
            commit |-> "commit", issue |-> "issue", patch |-> "patch",
            comment |-> "comment"]

IsLetter(r) == r \in DOMAIN LowerOf

ToLower(s) == [k \in DOMAIN s |-> IF IsLetter(s[k]) THEN LowerOf[s[k]] ELSE s[k]]

TrimSpace(s) ==
  LET kept == {k \in DOMAIN s : s[k] # Space}
  IN  IF kept = {} THEN <<>> ELSE SubSeq(s, Min(kept), Max(kept))

TruncateRunes(s, n) == IF Len(s) <= n THEN s ELSE SubSeq(s, 1, n)

HashContent(s) == TruncateRunes(s, HashRunes)

-----------------------------------------------------------------------------
(* Note URIs, as the host and the segments of the path after it.           *)

NoteURI(host, series, id) == [host |-> host, path |-> <<"actors", series, "notes", id>>]

(* The pairs <<series, id>> that uri names; none for a URI of another host *)
(* or shape.                                                               *)
ParseNoteURI(host, uri) ==
  {<<uri.path[2], uri.path[4]>> : u \in
     {v \in {uri} : /\ v.host = host
                    /\ Len(v.path) = 4
                    /\ v.path[1] = "actors" /\ v.path[3] = "notes"
                    /\ v.path[4] \in Int}}

-----------------------------------------------------------------------------
(* Notes of an outbox. *)

Cuts(s) == {k \in 1..Len(s) - 1 : s[k] = ":" /\ s[k + 1] = Space}

KindOf(prefix) == IF prefix = <<"Commit">> THEN <<"git">> ELSE ToLower(prefix)

Split(s, k) == [kind    |-> KindOf(TrimSpace(SubSeq(s, 1, k - 1))),
                summary |-> TrimSpace(SubSeq(s, k + 2, Len(s)))]

(* Faulty variant: the last separator counts.                              *)
SplitAtLast(s) == IF Cuts(s) = {} THEN [kind |-> ToLower(TrimSpace(s)), summary |-> <<>>]
                                  ELSE Split(s, Max(Cuts(s)))

SplitKind(s) == IF Cuts(s) = {} THEN [kind |-> ToLower(TrimSpace(s)), summary |-> <<>>]
                                ELSE Split(s, Min(Cuts(s)))

Note(item) == [uri     |-> item.uri,
               kind    |-> SplitKind(item.content).kind,
               summary |-> SplitKind(item.content).summary]

(* The notes of a collection of items [uri, content], each at the place of *)
(* its item.                                                               *)
ParseNotes(host, items) ==
  [k \in {j \in DOMAIN items : \E p \in ParseNoteURI(host, items[j].uri) : p[1] # ""} |->
     Note(items[k])]

(* One rune of NormalizeTitle's loop.                                      *)
Take(acc, r) ==
  IF IsLetter(r) THEN [out |-> Append(acc.out, r), space |-> FALSE]
  ELSE IF r = Space /\ ~acc.space THEN [out |-> Append(acc.out, Space), space |-> TRUE]
  ELSE acc

(* The loop over s, after each of its runes.                               *)
Scan(s) ==
  LET scan[k \in 0..Len(s)] == IF k = 0 THEN [out |-> <<>>, space |-> TRUE]
                                        ELSE Take(scan[k - 1], s[k])
  IN  scan

Collapsed(s) == Scan(ToLower(s))[Len(s)].out

(* Faulty variant: the space before a last word of punctuation stays.      *)
NormalizeUntrimmed(s) == Collapsed(s)

NormalizeTitle(s) == TrimSpace(Collapsed(s))

(* The first issue of that title: its place, if there is one.              *)
MatchIssueByTitle(notes, title) ==
  LET found == {k \in DOMAIN notes : /\ notes[k].kind = <<"issue">>
                                     /\ NormalizeTitle(notes[k].summary) = NormalizeTitle(title)}
  IN  IF found = {} THEN {} ELSE {Min(found)}
=============================================================================
