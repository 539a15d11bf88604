-------------------------------- MODULE Chars --------------------------------
(* Texts as sequences of characters, as the functions of civetweb.c walk along them. *)
EXTENDS Integers, Sequences, SequencesExt, FiniteSetsExt

Drop(s, n) == SubSeq(s, n + 1, Len(s))
Take(s, n) == SubSeq(s, 1, n)
Starts(s, t) == IsPrefix(t, s)

\* How many characters of s come before the first one of stop.
Span(s, stop) == Min({Len(s)} \cup {i - 1 : i \in {j \in DOMAIN s : s[j] \in stop}})

\* How many of set s begins with.
Leading(s, set) == Min({Len(s)} \cup {i - 1 : i \in {j \in DOMAIN s : s[j] \notin set}})
=============================================================================
