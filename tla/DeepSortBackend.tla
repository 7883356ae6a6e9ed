--------------------------- MODULE DeepSortBackend ---------------------------
(***************************************************************************)
(* deepsort_core_backend.py: the life of a track, the gallery of its looks *)
(* and the image a look is taken from.  Hits are counted up to MaxHits.    *)
(*                                                                         *)
(* ForgetOnConfirm is a coding error, not the code.                        *)
(***************************************************************************)
EXTENDS TrackTable

CONSTANTS
  MaxHits,
  Budget,       \* nn_budget
  MaxImages,    \* image_buffer_size
  MaxImageAge   \* max_image_age_ms, in frames

\* Hits are counted as far as n_init and nn_budget can tell them apart.  The
\* nodes are configured with a positive budget (one of 0 means no bound).
ASSUME GalleryAssumption ==
  /\ {MaxHits, MaxImages, MaxImageAge} \subseteq Nat /\ Budget \in Nat \ {0}
  /\ MinHits <= MaxHits /\ Budget <= MaxHits

VARIABLES
  gallery,   \* metric.samples: how many looks of each number
  images     \* the stamps in the image buffer

deepVars == <<gallery, images>>

NewestImage(stamps) == CHOOSE s \in stamps : \A r \in stamps : r <= s

\* The buffer keeps the latest stamps, whatever the order of arrival.
Buffered(stamps) ==
  {s \in stamps : Cardinality({r \in stamps : r > s}) < MaxImages}

\* The stamp of the frame is converted through a float: it may come out
\* below that of its own image.
NotAfter(stamp) == {{s \in images : s <= stamp}, {s \in images : s < stamp}}

Usable(stamps, stamp) == stamps # {} /\ stamp - NewestImage(stamps) <= MaxImageAge

Tentative(id) == tracks[id].state = "tentative"
Missing(id) == tracks[id].missed + 1

\* The cascade goes no deeper than max_age.
Cascade == {id \in Ids : ~Tentative(id) /\ Missing(id) <= maxAge}

ByOverlap == {id \in Ids : Tentative(id) \/ Missing(id) = 1}

DeepSeen(id) ==
  LET hits == Lesser(tracks[id].hits + 1, MaxHits)
  IN  [hits |-> hits, missed |-> 0, features |-> tracks[id].features + 1,
       state |-> IF hits >= MinHits THEN "confirmed" ELSE tracks[id].state]

DeepMissed(id) == [tracks[id] EXCEPT !.missed = @ + 1]

DeepKept(id, seen) ==
  id \in seen \/ (~Tentative(id) /\ Missing(id) <= maxAge)

DeepNew == [hits |-> 1, missed |-> 0, features |-> 1, state |-> "tentative"]

Looks(id) == IF id \in DOMAIN gallery THEN gallery[id] ELSE 0

ForgetOnConfirm(id, track) ==
  Lesser(Looks(id) + IF id \in DOMAIN gallery THEN track.features ELSE 1, Budget)

\* partial_fit
Fitted(id, track) == Lesser(Looks(id) + track.features, Budget)

\* With a usable image every detection has a look; without one there is none.
DeepUpdate(detections, stamp) ==
  \E stamps \in NotAfter(stamp) :
    LET n == IF Usable(stamps, stamp) THEN detections ELSE 0
    IN  \E deep \in Matchable(Cascade, n) :
        \E near \in Matchable(ByOverlap \ deep, n - Cardinality(deep)) :
          LET seen   == deep \cup near
              new    == NewIds(n - Cardinality(seen))
              kept   == {id \in Ids : DeepKept(id, seen)}
              table  == [id \in kept \cup new |->
                           IF id \in new THEN DeepNew
                           ELSE IF id \in seen THEN DeepSeen(id) ELSE DeepMissed(id)]
              active == {id \in DOMAIN table : table[id].state = "confirmed"}
          IN  /\ EndFrame(Cardinality(new),
                          [id \in DOMAIN table |->
                             IF id \in active THEN [table[id] EXCEPT !.features = 0]
                                              ELSE table[id]],
                          {id \in active : table[id].missed = 0})
              /\ gallery' = [id \in active |-> Fitted(id, table[id])]
              /\ UNCHANGED images

\* update_latest_image
DeepImage(stamp) ==
  /\ images' = Buffered(images \cup {stamp})
  /\ UNCHANGED gallery
=============================================================================
