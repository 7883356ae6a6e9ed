----------------------------- MODULE SortBackend -----------------------------
(***************************************************************************)
(* sort_backend.py and core/sort_tracker.py.                               *)
(*                                                                         *)
(* SortKeepsMissing is a coding error, not the code.                       *)
(***************************************************************************)
EXTENDS TrackTable

\* Matched tracks are updated, all are predicted.
SortMoved(id, matched) ==
  IF id \in matched THEN [hits |-> Lesser(tracks[id].hits + 1, MinHits), missed |-> 0]
  ELSE [tracks[id] EXCEPT !.missed = @ + 1]

SortKeepsMissing(id, matched) == TRUE

SortKept(id, matched) == SortMoved(id, matched).missed <= maxAge

SortConfirmed(track) == track.hits >= MinHits /\ track.missed = 0

SortUpdate(n) ==
  \E matched \in Matchable(Ids, n) :
    LET new   == NewIds(n - Cardinality(matched))
        kept  == {id \in Ids : SortKept(id, matched)}
        table == [id \in kept \cup new |->
                    IF id \in new THEN [hits |-> 1, missed |-> 0] ELSE SortMoved(id, matched)]
    IN  EndFrame(Cardinality(new), table, {id \in DOMAIN table : SortConfirmed(table[id])})
=============================================================================
