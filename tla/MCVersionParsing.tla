-------------------------- MODULE MCVersionParsing --------------------------
(* Every string of up to four segments taken from a list of telling ones.  *)
EXTENDS VersionParsing

\* Exact up to 32, then every second number, and then nothing but Infinity.
SmallDoubles == 0..32 \cup {34, 36, 38, 40}

\* Strings written segment by segment, for the .cfg to choose from.
Large == {<<"1", "6">>, <<"1", "7">>, <<"2", "6">>}
Huge == {<<"3", "1">>, <<"3", "2">>, <<"3", "3">>, <<"9", "9">>, <<"1", "0", "0", "0">>}
Odd == {<<>>, <<"1">>, <<"2">>, <<"1", "0">>, <<"0", "2">>, <<"x">>, <<"1", "x">>}
Signed == {<<"1">>, <<"-", "1">>, <<"+", "1">>, <<" ", "1">>, <<"tab", "newline", "+", "2">>, <<"+", "-", "1">>}
Exotic == {<<"1">>, <<"sup2">>, <<"1", "sup2">>, <<"arabic1">>}

UpTo(n, set) == UNION {[1..k -> set] : k \in 1..n}

Releases == [1..3 -> {<<"0">>, <<"1">>, <<"2">>, <<"1", "0">>}] \cup [1..3 -> {<<"1">>} \cup Large]
            \cup {<<a, b, <<"1">>>> : a \in {<<"1">>} \cup Huge, b \in Huge}
Reports == UpTo(3, Odd) \cup {v \o <<s>> : v \in [1..3 -> {<<>>, <<"1">>, <<"2">>}], s \in {<<>>, <<"2">>}}
           \cup UpTo(2, Signed) \cup UpTo(2, Exotic)
           \cup UpTo(3, {<<>>, <<"1">>} \cup Large) \cup UpTo(2, {<<"1">>} \cup Huge)
=============================================================================
