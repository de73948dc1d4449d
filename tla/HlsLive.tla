------------------------------ MODULE HlsLive -------------------------------
(***************************************************************************)
(* What a publisher of an HLS stream promises to the players, which read   *)
(* the playlist and then fetch the segments it names: segments are stored  *)
(* in order and in full, a playlist names consecutive segments that are    *)
(* stored and ends with the newest one, and a segment that the playlist    *)
(* names is not deleted.  A playlist may be replaced in two steps, with    *)
(* nothing to read in between.                                             *)
(*                                                                         *)
(* HlsPublishS3 and HlsPublishMemFile implement it, each while the calls   *)
(* they do not check do not fail.                                          *)
(***************************************************************************)
EXTENDS Integers

CONSTANT Segments   \* the indices of segments, a set of integers

VARIABLES stored,   \* the segments that can be fetched, in full
          listed    \* the segments that the playlist names

Newest == CHOOSE s \in stored : \A t \in stored : t <= s

Init == stored = {} /\ listed = {}

Store ==
  \E s \in Segments :
    /\ \A t \in stored : t < s
    /\ stored' = stored \union {s}
    /\ UNCHANGED listed

List ==
  /\ stored # {}
  /\ \E first \in stored :
       /\ first .. Newest \subseteq stored
       /\ listed' = first .. Newest
  /\ UNCHANGED stored

Withdraw ==
  /\ listed' = {}
  /\ UNCHANGED stored

Delete ==
  \E s \in stored \ listed :
    /\ stored' = stored \ {s}
    /\ UNCHANGED listed

Next == Store \/ List \/ Withdraw \/ Delete

Spec == Init /\ [][Next]_<<stored, listed>>

-----------------------------------------------------------------------------
(* A player that has read the playlist finds the segments it names. *)
Servable == listed \subseteq stored
=============================================================================
