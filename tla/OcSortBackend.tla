---------------------------- MODULE OcSortBackend ----------------------------
(***************************************************************************)
(* ocsort_backend.py.  Its filter keeps the history of what was observed;  *)
(* when a track is found again the filter goes back to the copy it took at *)
(* the first miss and is given the frames missed once more, as observed    *)
(* between the two boxes.                                                  *)
(*                                                                         *)
(* A prediction that is not a number, which drops a track, does not come   *)
(* from finite boxes.                                                      *)
(*                                                                         *)
(* UnfreezeWhole is a coding error, not the code.                          *)
(***************************************************************************)
EXTENDS TrackTable, Sequences, SequencesExt

NotSaved == <<>>

\* OCKalmanBoxTracker.predict
OcPredicted(track) ==
  [track EXCEPT !.age = @ + 1, !.missed = @ + 1,
                !.streak = IF track.missed > 0 THEN 0 ELSE @]

\* The frames since the observation before the last one.
Gap(history) ==
  LET seen == {i \in 1 .. Len(history) : history[i]}
      last == Len(history)
  IN  last - CHOOSE i \in seen \ {last} : \A j \in seen \ {last} : j <= i

Replayed(n) == [i \in 1 .. n |-> TRUE]

UnfreezeWhole(track, history) == track.saved \o Replayed(Gap(history))

\* The copy without its miss, and the virtual observations.
Unfreeze(track, history) == Front(track.saved) \o Replayed(Gap(history))

OcObserved(track) ==
  LET history == Append(track.history, TRUE)
      replay  == ~track.observed /\ track.saved # NotSaved
  IN  [track EXCEPT
         !.missed = 0, !.streak = Lesser(@ + 1, MinHits), !.observed = TRUE,
         !.history = IF replay THEN Unfreeze(track, history) ELSE history,
         !.saved = IF replay THEN NotSaved ELSE @]

OcMissed(track) ==
  LET history == Append(track.history, FALSE)
  IN  [track EXCEPT
         !.history = history, !.observed = FALSE,
         !.saved = IF track.observed THEN history ELSE @]

OcNew == [age |-> 0, missed |-> 0, streak |-> 0, history |-> <<>>, saved |-> NotSaved,
          observed |-> FALSE]

OcShown(track) ==
  track.missed = 0 /\ (track.streak >= MinHits \/ frame + 1 <= MinHits)

\* First by prediction and direction, then by the last box; with use_byte
\* also with detections of a low score, which make no track.
OcUpdate(n, low) ==
  \E high \in Matchable(Ids, n) : \E second \in Matchable(Ids \ high, low) :
    LET new   == NewIds(n - Cardinality(high))
        table == [id \in Ids \cup new |->
                    IF id \in new THEN OcNew
                    ELSE LET moved == OcPredicted(tracks[id])
                         IN  IF id \in high \cup second THEN OcObserved(moved)
                                                        ELSE OcMissed(moved)]
        kept  == {id \in DOMAIN table : table[id].missed <= maxAge}
    IN  EndFrame(Cardinality(new), [id \in kept |-> table[id]],
                 {id \in DOMAIN table : OcShown(table[id])})
=============================================================================
