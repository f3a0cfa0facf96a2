------------------------------ MODULE MCUpdates ------------------------------
(* Instances of Updates small enough for TLC.                              *)
EXTENDS Updates

TwoTiles          == {"t1", "t2"}
TwoSizes          == {"small", "large"}
NoClient          == {}
Incremental       == {"incremental"}
AllRequests       == {"incremental", "full"}
NoVideo           == {"none"}
SureVideo         == {"sure"}
RectanglesOrVideo == {"none", "unsure"}
=============================================================================
