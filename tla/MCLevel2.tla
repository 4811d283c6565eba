------------------------------ MODULE MCLevel2 ------------------------------
(* A small instance of Level2Client for TLC: two levels of one side of the   *)
(* book and room for one of them in a snapshot.                              *)
EXTENDS Level2Client

CONSTANTS high, low

MCBetter == {<<high, low>>}

Put(l) == [level |-> l, left |-> TRUE]
Clear(l) == [level |-> l, left |-> FALSE]

\* The lower level is there first, changes out of sight behind the higher one,
\* and is the only one left in the end.
MCCourses == {<<Put(low), Put(high), Put(low), Clear(high)>>}
=============================================================================
