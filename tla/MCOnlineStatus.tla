--------------------------- MODULE MCOnlineStatus ---------------------------
(***************************************************************************)
(* Small instances of OnlineStatus.  Nothing in it divides or scales a     *)
(* time, so a few milliseconds are enough: the two instants lie further    *)
(* apart than two readings of the clock can make up for.                   *)
(***************************************************************************)
EXTENDS OnlineStatus, TLC

OffByOne == { -1, 1 }

Interchangeable == Permutations(Instances) \cup Permutations(Sensors)
=============================================================================
