-------------------------------- MODULE MCCinera --------------------------------
(* Constants of CineraPages that a configuration cannot write. *)
EXTENDS CineraPages

TwoTopics == <<"code", "talk">>
OneMedium == <<"speech">>
ThreeMarkers == <<{"code"}, {"talk", "speech"}, {"code", "speech"}>>
Seconds == <<0, 1, 2>>

OneAndTwo == <<1, 2>>
FirstSupported == <<TRUE, FALSE>>

\* The index files of three projects, the second a part of the first: an
\* episode has a name, a title and markers, and ends with a line of dashes.
Line(kind, text) == [kind |-> kind, text |-> text]
Dashes == <<Line("---", "")>>
Episode(name, markers) ==
  <<Line("name", name), Line("title", "t"), Line("markers", "")>>
    \o [i \in DOMAIN markers |-> Line("marker", markers[i])] \o Dashes
NoTitle == <<Line("name", "d"), Line("markers", ""), Line("marker", "x")>> \o Dashes

ThreeIndexes ==
  <<Dashes \o Episode("a", <<"x", "y">>) \o Episode("b", <<"x">>),
    Dashes \o Episode("c", <<"x">>) \o NoTitle,
    Dashes \o Episode("e", <<"y", "x">>)>>
Parents == <<0, 1, 0>>
TwoQueries == [x |-> {"x"}, xy |-> {"x", "y"}]
=============================================================================
