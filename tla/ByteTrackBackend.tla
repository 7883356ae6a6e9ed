--------------------------- MODULE ByteTrackBackend ---------------------------
(***************************************************************************)
(* bytetrack_backend.py.  A track is in the tracked or in the lost list.   *)
(* The numbers of removed_stracks stay for good; a track removed from the  *)
(* lost list leaves it only in the next frame, and may be found there.     *)
(*                                                                         *)
(* KeepRemoved is a coding error, not the code.                            *)
(***************************************************************************)
EXTENDS TrackTable

CONSTANT MaxLost   \* max_time_lost

ASSUME LostAssumption == MaxLost \in Nat \ {0}

VARIABLE removed   \* the numbers in removed_stracks

InList(list) == {id \in Ids : tracks[id].list = list}
Unconfirmed == {id \in InList("tracked") : ~tracks[id].activated}
Confirmed == InList("tracked") \ Unconfirmed

\* STrack.update and re_activate; mark_lost; activate
ByteSeen(id) ==
  [tracks[id] EXCEPT !.list = "tracked", !.activated = TRUE, !.last = frame + 1]
ByteLost(id) == [tracks[id] EXCEPT !.list = "lost"]
ByteNew == [list |-> "tracked", activated |-> frame = 0, start |-> frame + 1, last |-> frame + 1]

Overdue(id) == frame + 1 - tracks[id].last > MaxLost

Age(track) == track.last - track.start

\* Of a tracked and a lost track in one place the older stays.
Duplicates(table, pairs) ==
  {IF Age(table[p[1]]) > Age(table[p[2]]) THEN p[2] ELSE p[1] : p \in pairs}

KeepRemoved(seen) == (InList("lost") \cup Confirmed) \ seen

\* The lost list before the tracks removed in this frame are known.
StillLost(seen) == ((InList("lost") \cup Confirmed) \ seen) \ removed

\* A detection above track_thresh may match any track and, above
\* new_track_thresh, start one; one between low_thresh and track_thresh may
\* match a confirmed track.
ByteUpdate(high, low) ==
  \E first \in Matchable(Confirmed \cup InList("lost"), high) :
  \E second \in Matchable(Confirmed \ first, low) :
  \E third \in Matchable(Unconfirmed, high - Cardinality(first)) :
  \E n \in 0 .. high - Cardinality(first) - Cardinality(third) :
    LET seen  == first \cup second \cup third
        new   == NewIds(n)
        lost  == StillLost(seen)
        table == [id \in seen \cup new \cup lost |->
                    IF id \in seen THEN ByteSeen(id)
                    ELSE IF id \in new THEN ByteNew ELSE ByteLost(id)]
    IN  \E pairs \in SUBSET ((seen \cup new) \X lost) :
          LET kept == DOMAIN table \ Duplicates(table, pairs)
          IN  /\ EndFrame(n, [id \in kept |-> table[id]],
                          {id \in kept : table[id].list = "tracked" /\ table[id].activated})
              /\ removed' = removed \cup (Unconfirmed \ third)
                                    \cup {id \in InList("lost") \ seen : Overdue(id)}
=============================================================================
