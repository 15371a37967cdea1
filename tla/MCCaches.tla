---- MODULE MCCaches ----
EXTENDS Caches
Element(name, placed, town, nodes) == [name |-> name, placed |-> placed, town |-> town, nodes |-> nodes]
MCAnswers == {{Element("saddle", TRUE, FALSE, 0), Element("none", TRUE, TRUE, 0),
                   Element("village", TRUE, TRUE, 0), Element("lane", FALSE, FALSE, 2), Element("stub", FALSE, FALSE, 1)}}
====
