---- MODULE MCSharing ----
EXTENDS Sharing
Frame(plates, face) == [plates |-> plates, face |-> face]
MCFootage == <<<<Frame({2, 8, 14, 20, 26}, FALSE), Frame({8}, FALSE), Frame({}, FALSE)>>,
               <<Frame({8, 14}, FALSE), Frame({}, FALSE), Frame({}, TRUE)>>,
               <<Frame({29}, FALSE)>>>>
All == 1 .. 3
Source1(plan, judged, found, bought, music) ==
    [plan |-> plan, judged |-> judged, catalogued |-> All, found |-> found, bought |-> bought, music |-> music]
MCGiven == {Source1(<<1, 2, 3>>, All, All, TRUE, TRUE), Source1(<<3, 1>>, All, All, TRUE, TRUE),
            Source1(<<2>>, All, All, TRUE, TRUE), Source1(<<2, 3>>, All, All, FALSE, FALSE),
            Source1(<<1>>, {2}, All, TRUE, TRUE), Source1(<<1, 3>>, All, {1}, TRUE, TRUE), Source1(<<>>, All, All, TRUE, TRUE)}
====
