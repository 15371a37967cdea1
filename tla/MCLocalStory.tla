---- MODULE MCLocalStory ----
EXTENDS LocalStory

\* A ride of a thousand points and one, of which a few are events.
MCTimes == [p \in {0, 2, 4, 999, 1000, 1001} |->
    CASE p = 0 -> <<0, 0>> [] p = 2 -> <<1, 2>> [] p = 4 -> <<3, 4>>
      [] p = 999 -> <<6, 7>> [] p = 1000 -> <<7, 9>> [] OTHER -> <<9, 12>>]
MCRoutes ==
    [last : {1001}, long : BOOLEAN,
     marks : {2 :> {"stop"} @@ 4 :> {"speed_change"} @@ 999 :> {"speed_change"} @@ 1000 :> {"elevation_change"},
              2 :> {"direction_change", "speed_change"} @@ 4 :> {"direction_change"},
              999 :> {"stop"} @@ 1000 :> {"stop"},
              2 :> {"stop"} @@ 1000 :> {"elevation_change"}}]
MCCatalogs ==
    {<<[start |-> 0, length |-> 13]>>, <<[start |-> 6, length |-> 6], [start |-> 1, length |-> 6]>>,
     <<[start |-> 7, length |-> 2]>>, <<[start |-> 20, length |-> 3]>>}
Handed(id, method, rank, start, length) ==
    [id |-> id, method |-> method, rank |-> rank, start |-> start, length |-> length, score |-> 60]
MCHighlightChoices ==
    {Handed(1, "ranking", 1, 2, 2), Handed(2, "ranking", 2, 1, 5), Handed(3, "focused", 1, 1, 2),
     Handed(4, "focused", 2, 8, 2), Handed(5, "ranking", 3, 8, 1), Handed(6, "ranking", 3, 10, 1)}
MCOffers == {s \in SUBSET MCHighlightChoices : Cardinality(s) <= 3}
====
