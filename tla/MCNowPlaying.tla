----------------------------- MODULE MCNowPlaying -----------------------------
\* What the media sources and the lookup are given to read.
EXTENDS NowPlaying

CONSTANTS n1, n2, a1, a2, al, p1, p2

MCLetters == {n1, n2, a1, a2, al, Bar}
MCSpots == {p1, p2}

\* Two songs of one artist, one of them without an album, and a third that shares its
\* key with the second.
Plain == {[name |-> <<n1>>, artist |-> <<a1>>, album |-> Empty],
          [name |-> <<n2>>, artist |-> <<a1>>, album |-> <<a2, Bar, al>>]}
SharesKey == [name |-> <<n2, Bar, a2>>, artist |-> <<a1>>, album |-> <<al>>]
MCTracks == Plain \cup {SharesKey}

\* Sources that read each text by a call of its own, or all at once; the lookup does
\* not depend on the source.
CallPerText == {<<"itunes", "Off">>, <<"music", "Off">>}
OneSnapshot == {<<"mpris", "Off">>, <<"smtc", "Off">>, <<"smtc untimed", "Off">>,
                <<"mediaremote", "Off">>}
WithLookup == {<<"mediaremote", "Auto">>}
MCSetups == CallPerText \cup OneSnapshot \cup WithLookup

\* A bound on the player: positions differ where texts are read at once, and the key is
\* shared where it is looked up.
Bounded ==
    /\ mode = "Off" => track \in Plain
    /\ <<kind, mode>> \notin OneSnapshot => spot = p1
=============================================================================
