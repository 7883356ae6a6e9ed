-------------------------- MODULE TrackerNodeProofs --------------------------
(***************************************************************************)
(* Proofs about TrackerNode: every backend implements TrackContract, and   *)
(* what the node keeps fits together, for any numbers of frames,           *)
(* detections, switches and restarts and any limits.                       *)
(***************************************************************************)
EXTENDS TrackerNode, FiniteSetTheorems, WellFoundedInduction, TLAPS

-----------------------------------------------------------------------------
(* The inductive invariant.                                                *)

SortTrack == [hits : Nat, missed : Nat]

OcTrack ==
  [age : Nat, missed : Nat, streak : Nat, history : Seq(BOOLEAN), saved : Seq(BOOLEAN),
   observed : BOOLEAN]

ByteTrack == [list : {"tracked", "lost"}, activated : BOOLEAN, start : Nat, last : Nat]

DeepTrack ==
  [hits : Nat, missed : Nat, features : Nat, state : {"tentative", "confirmed"}]

\* The history has n frames.  The copy was taken at the first miss after the
\* last frame observed.
HistoryOK(t, n) ==
  /\ Len(t.history) = n
  /\ t.observed => n > 0 /\ t.history[n]
  /\ ~t.observed /\ t.saved # NotSaved =>
       /\ Len(t.saved) \in 2 .. n
       /\ t.history[Len(t.saved) - 1]
       /\ \A j \in Len(t.saved) .. n : ~t.history[j]

\* A lost track keeps its number for MaxLost frames, and for one more once it
\* is among the removed ones.
ListsOK(id, t) ==
  /\ t.last \in 1 .. frame
  /\ t.list = "tracked" => t.last = frame
  /\ t.list = "lost" =>
       IF id \in removed THEN frame - t.last = MaxLost + 1 ELSE frame - t.last <= MaxLost

\* The looks of a track that is not confirmed are still with the track.
LooksOK(t) ==
  /\ t.missed <= maxAge /\ t.hits <= MaxHits
  /\ IF t.state = "tentative"
     THEN t.missed = 0 /\ t.features = t.hits /\ t.hits < MinHits
     ELSE t.features = 0

TrackOK(id, t) ==
  /\ kind = "sort" => t \in SortTrack /\ t.missed <= maxAge
  /\ kind = "ocsort" => t \in OcTrack /\ t.missed <= maxAge /\ HistoryOK(t, t.age)
  /\ kind = "bytetrack" => t \in ByteTrack /\ ListsOK(id, t)
  /\ kind = "deepsort" => t \in DeepTrack /\ LooksOK(t)

TableOK ==
  /\ kind \in Kinds /\ frame \in Nat /\ nextId \in Nat \ {0}
  /\ maxAge \in Nat /\ (kind # "bytetrack" => maxAge > 0)
  /\ Ids \subseteq 1 .. nextId - 1 /\ shown \subseteq Ids
  /\ removed \subseteq 1 .. nextId - 1

TracksOK == \A id \in Ids : TrackOK(id, tracks[id])

GalleryOK ==
  IF kind = "deepsort"
  THEN /\ DOMAIN gallery = {id \in Ids : tracks[id].state = "confirmed"}
       /\ \A id \in DOMAIN gallery : gallery[id] = Lesser(tracks[id].hits, Budget)
  ELSE DOMAIN gallery = {}

ImagesOK == images \subseteq Nat /\ IsFiniteSet(images) /\ Cardinality(images) <= MaxImages

StreamOK ==
  /\ {detected, timed, imaged, base} \subseteq Nat
  /\ base <= detected \/ base <= timed

Listed(queue) == {queue[i] : i \in 1 .. Len(queue)}

\* A stamp that waits is not newer than its number says, also when the number
\* is by now that of a later frame.
ContextOK ==
  /\ order \in Seq(1 .. MaxTime) /\ Len(order) <= MaxContext
  /\ DOMAIN context \subseteq Listed(order)
  /\ \A n \in DOMAIN context : context[n] \in Nat /\ context[n] <= base + n

MessageOK == message \in [time : Nat, stamp : Nat] /\ message.stamp <= message.time

TInv ==
  TableOK /\ TracksOK /\ GalleryOK /\ ImagesOK /\ StreamOK /\ ContextOK /\ MessageOK

-----------------------------------------------------------------------------
(* Numbers and matchings.                                                  *)

\* The numbers given in a frame follow those given before.
LEMMA NewFacts ==
  ASSUME TableOK, NEW n \in Nat
  PROVE  /\ NewIds(n) \subseteq nextId .. nextId + n - 1
         /\ Cardinality(NewIds(n)) = n
         /\ \A id \in NewIds(n) : id \in Nat /\ id > nextId - 1 /\ id <= nextId + n - 1
         /\ NewIds(n) \cap Ids = {}
<1>1. nextId \in Nat /\ nextId > 0
  BY DEF TableOK
<1>2. IsFiniteSet(nextId .. nextId + n - 1)
      /\ Cardinality(nextId .. nextId + n - 1)
           = IF nextId > nextId + n - 1 THEN 0 ELSE nextId + n - 1 - nextId + 1
  BY <1>1, FS_Interval
<1>3. Cardinality(NewIds(n)) = n
  BY <1>1, <1>2 DEF NewIds
<1> QED BY <1>1, <1>3 DEF NewIds, TableOK

\* As many detections as the matching leaves start tracks.
LEMMA MatchedFacts ==
  ASSUME TableOK, NEW S, S \subseteq Ids, NEW n \in Nat, NEW matched \in Matchable(S, n)
  PROVE  /\ matched \subseteq S /\ IsFiniteSet(matched) /\ Cardinality(matched) \in Nat
         /\ n - Cardinality(matched) \in Nat
<1>1. IsFiniteSet(1 .. nextId - 1)
  BY FS_Interval DEF TableOK
<1>2. matched \in SUBSET (1 .. nextId - 1) /\ Cardinality(matched) <= n
  BY DEF Matchable, TableOK
<1>3. IsFiniteSet(matched)
  BY <1>1, <1>2, FS_Subset
<1>4. Cardinality(matched) \in Nat
  BY <1>3, FS_CardinalityType
<1> QED BY <1>2, <1>3, <1>4 DEF Matchable

LEMMA DetectionsAreFew ==
  ASSUME TableOK, NEW n \in Detections
  PROVE  n \in Nat
BY TableAssumption DEF Detections, TableAssumption, TableOK

-----------------------------------------------------------------------------
(* What a frame must show, whatever the backend.                           *)

LEMMA FrameKeeps ==
  ASSUME TableOK, NEW m \in Nat,
         frame' = frame + 1, nextId' = nextId + m, kind' = kind, maxAge' = maxAge,
         Ids' \subseteq Ids \cup NewIds(m), shown' \subseteq Ids',
         removed' \subseteq 1 .. nextId' - 1,
         \A id \in Ids' : id \in Ids =>
           \/ LastSeen'[id] = frame' /\ frame' - LastSeen[id] <= Patience
           \/ LastSeen'[id] = LastSeen[id],
         \A id \in Ids' : id \notin Ids => LastSeen'[id] = frame',
         \A id \in shown' : LastSeen'[id] = frame' /\ (id \in Ids \/ frame' <= WarmUp)
  PROVE  TableOK' /\ Contract!Frame
<1>1. \A id \in NewIds(m) : id \in Nat /\ id > nextId - 1 /\ id <= nextId' - 1
  BY NewFacts DEF TableOK
<1>2. TableOK'
  <2>1. ASSUME NEW id \in Ids' PROVE id \in 1 .. nextId' - 1
    <3>1. CASE id \in Ids
      <4>1. id \in 1 .. nextId - 1
        BY <3>1 DEF TableOK
      <4> QED BY <4>1 DEF TableOK
    <3>2. CASE id \in NewIds(m)
      BY <1>1, <3>2 DEF TableOK
    <3> QED BY <3>1, <3>2
  <2>2. Ids' \subseteq 1 .. nextId' - 1
    BY <2>1
  <2> QED BY <2>2 DEF TableOK
<1>3. DOMAIN LastSeen = Ids /\ DOMAIN LastSeen' = Ids'
  BY DEF LastSeen
<1>4. Patience' = Patience /\ WarmUp' = WarmUp
  BY DEF Patience, WarmUp
<1>5. \A id \in Ids' : id \notin Ids => id > nextId - 1 /\ id <= nextId' - 1
  BY <1>1
<1>6. nextId' - 1 >= nextId - 1
  BY DEF TableOK
<1> QED BY <1>2, <1>3, <1>4, <1>5, <1>6 DEF Contract!Frame, Contract!Observed

-----------------------------------------------------------------------------
(* SORT.                                                                   *)

LEMMA SortStep ==
  ASSUME TInv, kind = "sort", NEW n \in Nat, SortUpdate(n), UNCHANGED <<removed, deepVars>>
  PROVE  TableOK' /\ TracksOK' /\ GalleryOK' /\ ImagesOK' /\ Contract!Frame
<1> USE DEF TInv
<1>1. PICK matched \in Matchable(Ids, n) :
        LET new   == NewIds(n - Cardinality(matched))
            kept  == {id \in Ids : SortKept(id, matched)}
            table == [id \in kept \cup new |->
                        IF id \in new THEN [hits |-> 1, missed |-> 0] ELSE SortMoved(id, matched)]
        IN  EndFrame(Cardinality(new), table, {id \in DOMAIN table : SortConfirmed(table[id])})
  BY DEF SortUpdate
<1> DEFINE m    == n - Cardinality(matched)
           kept == {id \in Ids : SortKept(id, matched)}
<1>2. m \in Nat /\ Cardinality(NewIds(m)) = m /\ NewIds(m) \cap Ids = {}
  BY <1>1, MatchedFacts, NewFacts
<1>3. /\ frame' = frame + 1 /\ nextId' = nextId + m
      /\ kind' = kind /\ maxAge' = maxAge
      /\ tracks' = [id \in kept \cup NewIds(m) |->
                      IF id \in NewIds(m) THEN [hits |-> 1, missed |-> 0]
                                          ELSE SortMoved(id, matched)]
      /\ shown' = {id \in DOMAIN tracks' : SortConfirmed(tracks'[id])}
  BY <1>1, <1>2 DEF EndFrame
<1>4. Ids' = kept \cup NewIds(m) /\ kept \subseteq Ids
  BY <1>3 DEF Ids
<1> HIDE DEF m
<1>5. \A id \in kept : /\ tracks[id] \in SortTrack /\ tracks[id].missed <= maxAge
                       /\ tracks'[id] \in SortTrack /\ tracks'[id].missed <= maxAge
                       /\ tracks'[id].missed \in {0, tracks[id].missed + 1}
  <2> TAKE id \in kept
  <2>1. tracks[id] \in SortTrack /\ tracks[id].missed <= maxAge
    BY DEF TracksOK, TrackOK
  <2>2. tracks'[id] = SortMoved(id, matched)
    BY <1>2, <1>3
  <2>3. SortMoved(id, matched) \in SortTrack
        /\ SortMoved(id, matched).missed \in {0, tracks[id].missed + 1}
    BY <2>1, TableAssumption DEF SortMoved, SortTrack, Lesser, TableAssumption
  <2> QED BY <2>1, <2>2, <2>3 DEF SortKept
<1>6. \A id \in NewIds(m) : tracks'[id] = [hits |-> 1, missed |-> 0]
  BY <1>3
<1> HIDE DEF kept
<1>7. TracksOK'
  <2>1. \A id \in NewIds(m) : tracks'[id] \in SortTrack /\ tracks'[id].missed <= maxAge
    BY <1>6 DEF TableOK, SortTrack
  <2> QED BY <1>3, <1>4, <1>5, <2>1 DEF TracksOK, TrackOK
<1>8. GalleryOK' /\ ImagesOK'
  BY <1>3 DEF GalleryOK, ImagesOK, deepVars
<1>9. TableOK' /\ Contract!Frame
  <2>1. /\ LastSeen = [id \in Ids |-> frame - tracks[id].missed]
        /\ LastSeen' = [id \in Ids' |-> frame' - tracks'[id].missed]
        /\ Patience = maxAge + 1 /\ WarmUp = 0
    BY <1>3 DEF LastSeen, Patience, WarmUp
  <2>2. ASSUME NEW id \in Ids', id \in Ids
        PROVE  \/ LastSeen'[id] = frame' /\ frame' - LastSeen[id] <= Patience
               \/ LastSeen'[id] = LastSeen[id]
    <3>1. id \in kept
      BY <1>2, <1>4, <2>2
    <3> QED BY <1>3, <1>5, <2>1, <2>2, <3>1 DEF TableOK, SortTrack
  <2>3. ASSUME NEW id \in Ids', id \notin Ids PROVE LastSeen'[id] = frame'
    <3>1. tracks'[id].missed = 0
      BY <1>4, <1>6, <2>3
    <3> QED BY <1>3, <2>1, <3>1 DEF TableOK
  <2>4. ASSUME NEW id \in shown' PROVE LastSeen'[id] = frame' /\ id \in Ids
    <3>1. id \in Ids' /\ tracks'[id].missed = 0 /\ tracks'[id].hits >= MinHits
      BY <1>3 DEF SortConfirmed, Ids
    <3>2. id \notin NewIds(m)
      BY <1>6, <3>1, TableAssumption DEF TableAssumption
    <3>3. frame \in Nat
      BY DEF TableOK
    <3>4. frame' = frame + 1
      BY <1>3
    <3>5. LastSeen'[id] = frame'
      BY <2>1, <3>1, <3>3, <3>4
    <3>6. id \in Ids
      BY <1>4, <3>1, <3>2
    <3> QED BY <3>5, <3>6
  <2>5. shown' \subseteq Ids'
    BY <1>3 DEF Ids
  <2>6. removed' \subseteq 1 .. nextId' - 1
    BY <1>2, <1>3 DEF TableOK
  <2> QED BY <1>2, <1>3, <1>4, <2>2, <2>3, <2>4, <2>5, <2>6, FrameKeeps
<1> QED BY <1>7, <1>8, <1>9

-----------------------------------------------------------------------------
(* OC-SORT.                                                                *)

LEMMA AppendFacts ==
  ASSUME NEW S, NEW s \in Seq(S), NEW x \in S
  PROVE  /\ Append(s, x) \in Seq(S) /\ Len(Append(s, x)) = Len(s) + 1
         /\ Append(s, x)[Len(s) + 1] = x
         /\ \A j \in 1 .. Len(s) : Append(s, x)[j] = s[j]
OBVIOUS

LEMMA JoinFacts ==
  ASSUME NEW S, NEW s \in Seq(S), NEW r \in Seq(S), Len(r) > 0
  PROVE  /\ s \o r \in Seq(S) /\ Len(s \o r) = Len(s) + Len(r)
         /\ (s \o r)[Len(s) + Len(r)] = r[Len(r)]
OBVIOUS

\* The observation before the last one is where the copy was taken.
LEMMA GapIs ==
  ASSUME NEW h \in Seq(BOOLEAN), NEW k \in 1 .. Len(h) - 1, h[k], h[Len(h)],
         \A j \in k + 1 .. Len(h) - 1 : ~h[j]
  PROVE  Gap(h) = Len(h) - k
<1> DEFINE seen == {i \in 1 .. Len(h) : h[i]}
           P(i) == i \in seen \ {Len(h)} /\ \A j \in seen \ {Len(h)} : j <= i
<1>1. k \in seen \ {Len(h)}
  OBVIOUS
<1>2. \A j \in seen \ {Len(h)} : j <= k
  OBVIOUS
<1>3. \A i : P(i) => i = k
  <2> TAKE i
  <2> HAVE P(i)
  <2>1. i \in Nat /\ k \in Nat /\ i <= k /\ k <= i
    BY <1>1, <1>2
  <2> QED BY <2>1
<1>4. (CHOOSE i \in seen \ {Len(h)} : \A j \in seen \ {Len(h)} : j <= i) = k
  BY <1>1, <1>2, <1>3
<1> QED BY <1>4 DEF Gap

\* A track that is found has one frame more, whether or not frames are given
\* to the filter again.
LEMMA OcObservedOK ==
  ASSUME NEW t \in OcTrack, NEW a \in Nat, HistoryOK(t, a)
  PROVE  /\ OcObserved(t) \in OcTrack /\ HistoryOK(OcObserved(t), a + 1)
         /\ OcObserved(t).missed = 0 /\ OcObserved(t).age = t.age
<1> DEFINE h == Append(t.history, TRUE)
           u == OcObserved(t)
           streak == Lesser(t.streak + 1, MinHits)
<1>1. t.history \in Seq(BOOLEAN) /\ t.saved \in Seq(BOOLEAN) /\ t.observed \in BOOLEAN
  BY DEF OcTrack
<1>2. /\ h \in Seq(BOOLEAN) /\ Len(h) = a + 1 /\ h[a + 1] = TRUE
      /\ \A j \in 1 .. a : h[j] = t.history[j]
      /\ Len(t.history) = a
  <2>1. Len(t.history) = a /\ TRUE \in BOOLEAN
    BY DEF HistoryOK
  <2>2. /\ h \in Seq(BOOLEAN) /\ Len(h) = Len(t.history) + 1
        /\ h[Len(t.history) + 1] = TRUE
        /\ \A j \in 1 .. Len(t.history) : h[j] = t.history[j]
    <3>1. \A x \in BOOLEAN :
            /\ Append(t.history, x) \in Seq(BOOLEAN)
            /\ Len(Append(t.history, x)) = Len(t.history) + 1
            /\ Append(t.history, x)[Len(t.history) + 1] = x
            /\ \A j \in 1 .. Len(t.history) : Append(t.history, x)[j] = t.history[j]
      BY <1>1, AppendFacts
    <3> QED BY <2>1, <3>1, Zenon
  <2> QED BY <2>1, <2>2, Zenon
<1>3. streak \in Nat
  BY TableAssumption DEF Lesser, TableAssumption, OcTrack
<1> HIDE DEF h, streak
<1>4. CASE t.observed \/ t.saved = NotSaved
  <2>1. u = [t EXCEPT !.missed = 0, !.streak = streak, !.observed = TRUE, !.history = h]
    BY <1>1, <1>4 DEF OcObserved, OcTrack, h, streak
  <2> HIDE DEF u
  <2>2. /\ u \in OcTrack /\ u.age = t.age /\ u.history = h /\ u.observed = TRUE
        /\ u.missed = 0
    BY <1>2, <1>3, <2>1 DEF OcTrack
  <2>3. HistoryOK(u, a + 1)
    BY <1>2, <2>2 DEF HistoryOK
  <2> QED BY <2>2, <2>3 DEF u
<1>5. CASE ~t.observed /\ t.saved # NotSaved
  <2> DEFINE k == Len(t.saved) - 1
             f == Unfreeze(t, h)
             r == [i \in 1 .. a + 1 - k |-> TRUE]
  <2>1. Len(t.saved) \in 2 .. a /\ t.history[k] /\ \A j \in k + 1 .. a : ~t.history[j]
    BY <1>1, <1>5 DEF HistoryOK
  <2>2. k \in 1 .. Len(h) - 1 /\ h[k] /\ h[Len(h)] /\ \A j \in k + 1 .. Len(h) - 1 : ~h[j]
    BY <1>2, <2>1
  <2>3. Gap(h) = a + 1 - k
    <3> HIDE DEF k
    <3> QED BY <1>2, <2>2, GapIs
  <2>4. f = SubSeq(t.saved, 1, k) \o r
    BY <2>3 DEF Unfreeze, Front, Replayed
  <2>5. k \in Nat /\ k >= 1 /\ k <= a /\ k <= Len(t.saved)
    BY <2>1
  <2>6. SubSeq(t.saved, 1, k) \in Seq(BOOLEAN) /\ Len(SubSeq(t.saved, 1, k)) = k
    <3> HIDE DEF k
    <3> QED BY <1>1, <2>5
  <2> HIDE DEF k
  <2>7. r \in Seq(BOOLEAN) /\ Len(r) = a + 1 - k /\ r[a + 1 - k] = TRUE
    BY <2>5
  <2> HIDE DEF r, f
  <2>8. f \in Seq(BOOLEAN) /\ Len(f) = a + 1 /\ f[a + 1] = TRUE
    <3> DEFINE g == SubSeq(t.saved, 1, k)
    <3>1. g \in Seq(BOOLEAN) /\ Len(g) = k /\ f = g \o r
      BY <2>4, <2>6
    <3>2. Len(r) > 0 /\ k + (a + 1 - k) = a + 1
      BY <2>5, <2>7
    <3> HIDE DEF g
    <3>3. g \o r \in Seq(BOOLEAN) /\ Len(g \o r) = k + (a + 1 - k)
          /\ (g \o r)[k + (a + 1 - k)] = TRUE
      <4>1. /\ g \o r \in Seq(BOOLEAN) /\ Len(g \o r) = Len(g) + Len(r)
            /\ (g \o r)[Len(g) + Len(r)] = r[Len(r)]
        BY <2>7, <3>1, <3>2, JoinFacts, Zenon
      <4> QED BY <2>7, <3>1, <4>1, Zenon
    <3> QED BY <3>1, <3>2, <3>3
  <2>9. u = [t EXCEPT !.missed = 0, !.streak = streak, !.observed = TRUE, !.history = f,
                      !.saved = NotSaved]
    BY <1>5 DEF OcObserved, OcTrack, h, f, streak
  <2> HIDE DEF u
  <2>10. NotSaved \in Seq(BOOLEAN)
    BY DEF NotSaved
  <2>11. /\ u \in OcTrack /\ u.age = t.age /\ u.history = f /\ u.observed = TRUE
         /\ u.missed = 0
    BY <1>3, <2>8, <2>9, <2>10 DEF OcTrack
  <2>12. HistoryOK(u, a + 1)
    BY <2>8, <2>11 DEF HistoryOK
  <2> QED BY <2>11, <2>12 DEF u
<1> QED BY <1>1, <1>4, <1>5

\* A track that is missed has one frame more, and a copy.
LEMMA OcMissedOK ==
  ASSUME NEW t \in OcTrack, NEW a \in Nat, HistoryOK(t, a)
  PROVE  /\ OcMissed(t) \in OcTrack /\ HistoryOK(OcMissed(t), a + 1)
         /\ OcMissed(t).missed = t.missed /\ OcMissed(t).age = t.age
<1> DEFINE h == Append(t.history, FALSE)
           u == OcMissed(t)
<1>1. t.history \in Seq(BOOLEAN) /\ t.saved \in Seq(BOOLEAN) /\ t.observed \in BOOLEAN
  BY DEF OcTrack
<1>2. /\ h \in Seq(BOOLEAN) /\ Len(h) = a + 1 /\ h[a + 1] = FALSE
      /\ \A j \in 1 .. a : h[j] = t.history[j]
      /\ Len(t.history) = a
  <2>1. Len(t.history) = a /\ FALSE \in BOOLEAN
    BY DEF HistoryOK
  <2>2. /\ h \in Seq(BOOLEAN) /\ Len(h) = Len(t.history) + 1
        /\ h[Len(t.history) + 1] = FALSE
        /\ \A j \in 1 .. Len(t.history) : h[j] = t.history[j]
    <3>1. \A x \in BOOLEAN :
            /\ Append(t.history, x) \in Seq(BOOLEAN)
            /\ Len(Append(t.history, x)) = Len(t.history) + 1
            /\ Append(t.history, x)[Len(t.history) + 1] = x
            /\ \A j \in 1 .. Len(t.history) : Append(t.history, x)[j] = t.history[j]
      BY <1>1, AppendFacts
    <3> QED BY <2>1, <3>1, Zenon
  <2> QED BY <2>1, <2>2, Zenon
<1>3. u = [t EXCEPT !.history = h, !.observed = FALSE, !.saved = IF t.observed THEN h ELSE @]
  BY DEF OcMissed
<1> HIDE DEF u, h
<1>4. /\ u \in OcTrack /\ u.age = t.age /\ u.history = h /\ u.observed = FALSE
      /\ u.missed = t.missed
      /\ u.saved = IF t.observed THEN h ELSE t.saved
  BY <1>1, <1>2, <1>3 DEF OcTrack
<1>5. u.saved # NotSaved =>
        /\ Len(u.saved) \in 2 .. a + 1
        /\ u.history[Len(u.saved) - 1]
        /\ \A j \in Len(u.saved) .. a + 1 : ~u.history[j]
  <2>1. CASE t.observed
    <3>1. a > 0 /\ t.history[a]
      BY <2>1 DEF HistoryOK
    <3> QED BY <1>2, <1>4, <2>1, <3>1
  <2>2. CASE ~t.observed /\ t.saved # NotSaved
    <3>1. /\ Len(t.saved) \in 2 .. a /\ t.history[Len(t.saved) - 1]
          /\ \A j \in Len(t.saved) .. a : ~t.history[j]
      BY <2>2 DEF HistoryOK
    <3> QED BY <1>2, <1>4, <2>2, <3>1
  <2>3. CASE ~t.observed /\ t.saved = NotSaved
    BY <1>4, <2>3
  <2> QED BY <1>1, <2>1, <2>2, <2>3
<1>6. HistoryOK(u, a + 1)
  BY <1>2, <1>4, <1>5 DEF HistoryOK
<1> QED BY <1>4, <1>6 DEF u

LEMMA OcPredictedOK ==
  ASSUME NEW t \in OcTrack, HistoryOK(t, t.age)
  PROVE  /\ OcPredicted(t) \in OcTrack /\ HistoryOK(OcPredicted(t), t.age)
         /\ OcPredicted(t).missed = t.missed + 1 /\ OcPredicted(t).age = t.age + 1
<1> DEFINE streak == IF t.missed > 0 THEN 0 ELSE t.streak
           u == OcPredicted(t)
<1>1. u = [t EXCEPT !.age = @ + 1, !.missed = @ + 1, !.streak = streak]
  BY DEF OcPredicted, OcTrack
<1>2. streak \in Nat
  BY DEF OcTrack
<1> HIDE DEF u, streak
<1>3. /\ u.age = t.age + 1 /\ u.missed = t.missed + 1
      /\ u.history = t.history /\ u.saved = t.saved /\ u.observed = t.observed
  BY <1>1 DEF OcTrack
<1>5. u \in OcTrack
  <2>1. t.age + 1 \in Nat /\ t.missed + 1 \in Nat
    BY DEF OcTrack
  <2> QED BY <1>1, <1>2, <2>1 DEF OcTrack
<1>4. HistoryOK(u, t.age)
  BY <1>3 DEF HistoryOK
<1> QED BY <1>3, <1>4, <1>5 DEF u

LEMMA OcStep ==
  ASSUME TInv, kind = "ocsort", NEW n \in Nat, NEW low \in Nat, OcUpdate(n, low),
         UNCHANGED <<removed, deepVars>>
  PROVE  TableOK' /\ TracksOK' /\ GalleryOK' /\ ImagesOK' /\ Contract!Frame
<1> USE DEF TInv
<1> DEFINE Moved(id) == OcPredicted(tracks[id])
           Next1(id, found) == IF id \in found THEN OcObserved(Moved(id)) ELSE OcMissed(Moved(id))
<1>0. PICK high \in Matchable(Ids, n) : \E second \in Matchable(Ids \ high, low) :
        LET new   == NewIds(n - Cardinality(high))
            table == [id \in Ids \cup new |->
                        IF id \in new THEN OcNew ELSE Next1(id, high \cup second)]
            kept  == {id \in DOMAIN table : table[id].missed <= maxAge}
        IN  EndFrame(Cardinality(new), [id \in kept |-> table[id]],
                     {id \in DOMAIN table : OcShown(table[id])})
  BY DEF OcUpdate
<1>1. PICK second \in Matchable(Ids \ high, low) :
        LET new   == NewIds(n - Cardinality(high))
            table == [id \in Ids \cup new |->
                        IF id \in new THEN OcNew ELSE Next1(id, high \cup second)]
            kept  == {id \in DOMAIN table : table[id].missed <= maxAge}
        IN  EndFrame(Cardinality(new), [id \in kept |-> table[id]],
                     {id \in DOMAIN table : OcShown(table[id])})
  BY <1>0
<1> DEFINE m     == n - Cardinality(high)
           found == high \cup second
           table == [id \in Ids \cup NewIds(m) |->
                       IF id \in NewIds(m) THEN OcNew ELSE Next1(id, found)]
<1>2. m \in Nat /\ Cardinality(NewIds(m)) = m /\ NewIds(m) \cap Ids = {}
  BY <1>1, MatchedFacts, NewFacts
<1>3. /\ frame' = frame + 1 /\ nextId' = nextId + m
      /\ kind' = kind /\ maxAge' = maxAge
      /\ tracks' = [id \in {i \in DOMAIN table : table[i].missed <= maxAge} |-> table[id]]
      /\ shown' = {id \in DOMAIN table : OcShown(table[id])}
  BY <1>1, <1>2 DEF EndFrame
<1> HIDE DEF m, found
<1>4. \A id \in Ids : /\ tracks[id] \in OcTrack /\ tracks[id].missed <= maxAge
                      /\ table[id] \in OcTrack /\ HistoryOK(table[id], table[id].age)
                      /\ table[id].missed \in {0, tracks[id].missed + 1}
  <2> TAKE id \in Ids
  <2>1. tracks[id] \in OcTrack /\ tracks[id].missed <= maxAge
        /\ HistoryOK(tracks[id], tracks[id].age)
    BY DEF TracksOK, TrackOK
  <2> DEFINE a == tracks[id].age
             t == OcPredicted(tracks[id])
  <2>2. t \in OcTrack /\ HistoryOK(t, a) /\ t.missed = tracks[id].missed + 1 /\ t.age = a + 1
    BY <2>1, OcPredictedOK
  <2>3. a \in Nat
    BY <2>1 DEF OcTrack
  <2>4. table[id] = IF id \in found THEN OcObserved(t) ELSE OcMissed(t)
    BY <1>2
  <2> HIDE DEF a, t, table, Next1
  <2>5. OcObserved(t) \in OcTrack /\ HistoryOK(OcObserved(t), a + 1)
        /\ OcObserved(t).missed = 0 /\ OcObserved(t).age = t.age
    BY <2>2, <2>3, OcObservedOK
  <2>6. OcMissed(t) \in OcTrack /\ HistoryOK(OcMissed(t), a + 1)
        /\ OcMissed(t).missed = t.missed /\ OcMissed(t).age = t.age
    BY <2>2, <2>3, OcMissedOK
  <2>7. CASE id \in found
    BY <2>1, <2>2, <2>4, <2>5, <2>7
  <2>8. CASE id \notin found
    BY <2>1, <2>2, <2>4, <2>6, <2>8
  <2> QED BY <2>7, <2>8
<1>5. \A id \in NewIds(m) : table[id] = OcNew
  OBVIOUS
<1>6. DOMAIN table = Ids \cup NewIds(m)
  OBVIOUS
<1> HIDE DEF table, Next1
<1>7. /\ Ids' = {id \in Ids \cup NewIds(m) : table[id].missed <= maxAge}
      /\ \A id \in Ids' : tracks'[id] = table[id]
  BY <1>3, <1>6 DEF Ids
<1>8. OcNew \in OcTrack /\ OcNew.missed = 0 /\ HistoryOK(OcNew, OcNew.age) /\ OcNew.streak = 0
  <2>1. <<>> \in Seq(BOOLEAN) /\ Len(<<>>) = 0
    OBVIOUS
  <2>2. OcNew \in OcTrack
    BY <2>1 DEF OcNew, OcTrack, NotSaved
  <2> QED BY <2>1, <2>2 DEF OcNew, HistoryOK, NotSaved
<1>9. TracksOK'
  <2>1. \A id \in Ids' : /\ tracks'[id] \in OcTrack /\ tracks'[id].missed <= maxAge
                         /\ HistoryOK(tracks'[id], tracks'[id].age)
    BY <1>4, <1>5, <1>7, <1>8
  <2> QED BY <1>3, <2>1 DEF TracksOK, TrackOK
<1>10. GalleryOK' /\ ImagesOK'
  BY <1>3 DEF GalleryOK, ImagesOK, deepVars
<1>11. TableOK' /\ Contract!Frame
  <2>1. /\ LastSeen = [id \in Ids |-> frame - tracks[id].missed]
        /\ LastSeen' = [id \in Ids' |-> frame' - tracks'[id].missed]
        /\ Patience = maxAge + 1 /\ WarmUp = MinHits
    BY <1>3 DEF LastSeen, Patience, WarmUp
  <2>2. ASSUME NEW id \in Ids', id \in Ids
        PROVE  \/ LastSeen'[id] = frame' /\ frame' - LastSeen[id] <= Patience
               \/ LastSeen'[id] = LastSeen[id]
    <3>1. tracks'[id].missed \in {0, tracks[id].missed + 1}
          /\ tracks[id].missed \in Nat /\ tracks[id].missed <= maxAge
      BY <1>4, <1>7, <2>2 DEF OcTrack
    <3> QED BY <1>3, <2>1, <2>2, <3>1 DEF TableOK
  <2>3. ASSUME NEW id \in Ids', id \notin Ids PROVE LastSeen'[id] = frame'
    <3>1. tracks'[id].missed = 0
      BY <1>5, <1>7, <1>8, <2>3
    <3> QED BY <1>3, <2>1, <3>1 DEF TableOK
  <2>4. ASSUME NEW id \in shown'
        PROVE  id \in Ids' /\ LastSeen'[id] = frame' /\ (id \in Ids \/ frame' <= WarmUp)
    <3>1. id \in Ids \cup NewIds(m) /\ OcShown(table[id])
      BY <1>3, <1>6
    <3>2. table[id].missed = 0 /\ (table[id].streak >= MinHits \/ frame + 1 <= MinHits)
      BY <3>1 DEF OcShown
    <3>3. id \in Ids' /\ tracks'[id].missed = 0
      BY <1>7, <3>1, <3>2 DEF TableOK
    <3>4. id \in Ids \/ frame + 1 <= MinHits
      BY <1>5, <1>8, <3>1, <3>2, TableAssumption DEF TableAssumption
    <3> QED BY <1>3, <2>1, <3>3, <3>4 DEF TableOK
  <2>5. removed' \subseteq 1 .. nextId' - 1
    BY <1>2, <1>3 DEF TableOK
  <2>6. Ids' \subseteq Ids \cup NewIds(m)
    BY <1>7
  <2> QED BY <1>2, <1>3, <2>2, <2>3, <2>4, <2>5, <2>6, FrameKeeps
<1> QED BY <1>9, <1>10, <1>11

-----------------------------------------------------------------------------
(* ByteTrack.                                                              *)

\* A track is made as a tracked one, activated in the first frame only.
LEMMA ByteNewOK ==
  ASSUME frame \in Nat
  PROVE  /\ ByteNew \in ByteTrack /\ ByteNew.list = "tracked" /\ ByteNew.last = frame + 1
         /\ ByteNew.activated => frame = 0
<1>1. frame + 1 \in Nat
  OBVIOUS
<1>2. ASSUME NEW b \in BOOLEAN, NEW k \in Nat
      PROVE  [list |-> "tracked", activated |-> b, start |-> k, last |-> k] \in ByteTrack
  BY DEF ByteTrack
<1>3. (frame = 0) \in BOOLEAN
  BY Zenon
<1>4. ByteNew \in ByteTrack
  BY <1>1, <1>2, <1>3, Zenon DEF ByteNew
<1>5. ByteNew.list = "tracked" /\ ByteNew.last = frame + 1
  BY DEF ByteNew
<1>6. ByteNew.activated = (frame = 0)
  BY Zenon DEF ByteNew
<1> QED BY <1>4, <1>5, <1>6

LEMMA ByteStep ==
  ASSUME TInv, kind = "bytetrack", NEW high \in Nat, NEW low \in Nat, ByteUpdate(high, low),
         UNCHANGED deepVars
  PROVE  TableOK' /\ TracksOK' /\ GalleryOK' /\ ImagesOK' /\ Contract!Frame
<1> USE DEF TInv
<1> DEFINE Ends(first, second, third, n) ==
        LET seen  == first \cup second \cup third
            new   == NewIds(n)
            lost  == StillLost(seen)
            table == [id \in seen \cup new \cup lost |->
                        IF id \in seen THEN ByteSeen(id)
                        ELSE IF id \in new THEN ByteNew ELSE ByteLost(id)]
        IN  \E pairs \in SUBSET ((seen \cup new) \X lost) :
              LET kept == DOMAIN table \ Duplicates(table, pairs)
              IN  /\ EndFrame(n, [id \in kept |-> table[id]],
                              {id \in kept : table[id].list = "tracked" /\ table[id].activated})
                  /\ removed' = removed \cup (Unconfirmed \ third)
                                        \cup {id \in InList("lost") \ seen : Overdue(id)}
<1>a. PICK first \in Matchable(Confirmed \cup InList("lost"), high) :
        \E second \in Matchable(Confirmed \ first, low) :
        \E third \in Matchable(Unconfirmed, high - Cardinality(first)) :
        \E n \in 0 .. high - Cardinality(first) - Cardinality(third) :
          Ends(first, second, third, n)
  BY DEF ByteUpdate
<1>b. PICK second \in Matchable(Confirmed \ first, low) :
        \E third \in Matchable(Unconfirmed, high - Cardinality(first)) :
        \E n \in 0 .. high - Cardinality(first) - Cardinality(third) :
          Ends(first, second, third, n)
  BY <1>a
<1>c. PICK third \in Matchable(Unconfirmed, high - Cardinality(first)) :
        \E n \in 0 .. high - Cardinality(first) - Cardinality(third) :
          Ends(first, second, third, n)
  BY <1>b
<1>1. PICK n \in 0 .. high - Cardinality(first) - Cardinality(third) :
        Ends(first, second, third, n)
  BY <1>c
<1> DEFINE seen  == first \cup second \cup third
           lost  == StillLost(seen)
           table == [id \in seen \cup NewIds(n) \cup lost |->
                       IF id \in seen THEN ByteSeen(id)
                       ELSE IF id \in NewIds(n) THEN ByteNew ELSE ByteLost(id)]
<1>2. PICK kept \in SUBSET DOMAIN table :
        /\ EndFrame(n, [id \in kept |-> table[id]],
                    {id \in kept : table[id].list = "tracked" /\ table[id].activated})
        /\ removed' = removed \cup (Unconfirmed \ third)
                              \cup {id \in InList("lost") \ seen : Overdue(id)}
  BY <1>1
<1>3. /\ n \in Nat /\ NewIds(n) \cap Ids = {}
      /\ \A id \in NewIds(n) : id \in Nat /\ id > nextId - 1
  <2>1. n \in Nat
    OBVIOUS
  <2> QED BY <2>1, NewFacts
<1>4. seen \subseteq Ids /\ third \subseteq Unconfirmed /\ lost \subseteq Ids \ seen
  BY DEF Matchable, Confirmed, Unconfirmed, InList, StillLost
<1>5. /\ frame' = frame + 1 /\ nextId' = nextId + n
      /\ kind' = kind /\ maxAge' = maxAge
      /\ Ids' = kept /\ \A id \in kept : tracks'[id] = table[id]
      /\ shown' = {id \in kept : table[id].list = "tracked" /\ table[id].activated}
  BY <1>2 DEF EndFrame, Ids
<1>6. /\ kept \subseteq seen \cup NewIds(n) \cup lost
      /\ \A id \in kept : id \in seen => table[id] = ByteSeen(id)
      /\ \A id \in kept : id \in NewIds(n) => table[id] = ByteNew
      /\ \A id \in kept : id \in lost => table[id] = ByteLost(id)
  BY <1>3, <1>4
<1>7. removed \subseteq removed' /\ removed' \subseteq removed \cup Ids
      /\ \A id \in lost : /\ id \notin removed
                          /\ id \in removed' <=> tracks[id].list = "lost" /\ Overdue(id)
  <2>1. Unconfirmed \subseteq Ids /\ InList("lost") \subseteq Ids
    BY DEF Unconfirmed, InList
  <2>2. ASSUME NEW id \in lost
        PROVE  id \notin removed /\ id \notin Unconfirmed /\ id \notin seen
    BY DEF StillLost, Confirmed, Unconfirmed, InList
  <2>3. \A id \in Ids : id \in InList("lost") <=> tracks[id].list = "lost"
    BY DEF InList
  <2> HIDE DEF lost, seen, table
  <2> QED BY <1>2, <1>4, <2>1, <2>2, <2>3
<1> HIDE DEF seen, lost, table
<1>8. \A id \in Ids : /\ tracks[id] \in ByteTrack /\ ListsOK(id, tracks[id])
                      /\ frame - tracks[id].last <= MaxLost + 1
  <2> TAKE id \in Ids
  <2>1. tracks[id] \in ByteTrack /\ ListsOK(id, tracks[id])
    BY DEF TracksOK, TrackOK
  <2> QED BY <2>1, LostAssumption DEF ListsOK, ByteTrack, LostAssumption, TableOK
<1>9. ASSUME NEW id \in kept
      PROVE  /\ table[id] \in ByteTrack
             /\ ListsOK(id, tracks[id])'
             /\ id \in Ids => table[id].last \in {tracks[id].last, frame'}
             /\ id \notin Ids => table[id].last = frame' /\ (table[id].activated => frame = 0)
             /\ table[id].list = "tracked" => table[id].last = frame'
  <2>1. CASE id \in seen
    <3>1. id \in Ids /\ table[id] = ByteSeen(id)
      BY <1>4, <1>6, <2>1
    <3>2. /\ tracks'[id] \in ByteTrack /\ tracks'[id].list = "tracked"
          /\ tracks'[id].last = frame' /\ table[id] = tracks'[id]
      <4>1. tracks[id] \in ByteTrack /\ frame + 1 \in Nat
        BY <1>8, <3>1 DEF TableOK
      <4>2. tracks'[id] = ByteSeen(id) /\ table[id] = tracks'[id] /\ frame' = frame + 1
        BY <1>5, <3>1
      <4> QED BY <4>1, <4>2 DEF ByteSeen, ByteTrack
    <3>3. ListsOK(id, tracks[id])'
      BY <1>5, <3>2 DEF ListsOK, TableOK
    <3> QED BY <3>1, <3>2, <3>3
  <2>2. CASE id \in NewIds(n)
    <3>1. id \notin Ids /\ table[id] = ByteNew
      BY <1>3, <1>6, <2>2
    <3>2. /\ tracks'[id] \in ByteTrack /\ tracks'[id].list = "tracked"
          /\ tracks'[id].last = frame' /\ table[id] = tracks'[id]
          /\ tracks'[id].activated => frame = 0
      <4>1. /\ ByteNew \in ByteTrack /\ ByteNew.list = "tracked" /\ ByteNew.last = frame + 1
            /\ ByteNew.activated => frame = 0
        BY ByteNewOK DEF TableOK
      <4>2. tracks'[id] = ByteNew /\ table[id] = tracks'[id] /\ frame' = frame + 1
        BY <1>5, <3>1
      <4> QED BY <4>1, <4>2
    <3>3. ListsOK(id, tracks[id])'
      BY <1>5, <3>2 DEF ListsOK, TableOK
    <3> QED BY <3>1, <3>2, <3>3
  <2>3. CASE id \in lost
    <3>1. id \in Ids /\ table[id] = ByteLost(id) /\ id \notin removed
      BY <1>4, <1>6, <1>7, <2>3
    <3>2. /\ tracks'[id] \in ByteTrack /\ tracks'[id].list = "lost"
          /\ tracks'[id].last = tracks[id].last /\ table[id] = tracks'[id]
      BY <1>5, <1>8, <3>1 DEF ByteLost, ByteTrack
    <3>3. tracks[id].last \in 1 .. frame /\ tracks[id].list \in {"tracked", "lost"}
      BY <1>8, <3>1 DEF ListsOK, ByteTrack
    <3>4. ListsOK(id, tracks[id])'
      <4>1. CASE tracks[id].list = "tracked"
        <5>1. tracks[id].last = frame /\ id \notin removed'
          BY <1>7, <1>8, <2>3, <3>1, <4>1 DEF ListsOK
        <5> QED BY <1>5, <3>2, <3>3, <5>1, LostAssumption DEF ListsOK, LostAssumption, TableOK
      <4>2. CASE tracks[id].list = "lost"
        <5>1. /\ frame - tracks[id].last <= MaxLost
              /\ id \in removed' <=> frame + 1 - tracks[id].last > MaxLost
          BY <1>7, <1>8, <2>3, <3>1, <4>2 DEF ListsOK, Overdue
        <5> QED BY <1>5, <3>2, <3>3, <5>1, LostAssumption DEF ListsOK, LostAssumption, TableOK
      <4> QED BY <3>3, <4>1, <4>2
    <3> QED BY <3>1, <3>2, <3>4
  <2> QED BY <1>6, <2>1, <2>2, <2>3
<1>10. TracksOK'
  BY <1>5, <1>9 DEF TracksOK, TrackOK
<1>11. GalleryOK' /\ ImagesOK'
  BY <1>5 DEF GalleryOK, ImagesOK, deepVars
<1>12. TableOK' /\ Contract!Frame
  <2>1. /\ LastSeen = [id \in Ids |-> tracks[id].last]
        /\ LastSeen' = [id \in Ids' |-> tracks'[id].last]
        /\ Patience = MaxLost + 2 /\ WarmUp = 1
    BY <1>5 DEF LastSeen, Patience, WarmUp
  <2>2. ASSUME NEW id \in Ids', id \in Ids
        PROVE  \/ LastSeen'[id] = frame' /\ frame' - LastSeen[id] <= Patience
               \/ LastSeen'[id] = LastSeen[id]
    <3>1. tracks'[id].last \in {tracks[id].last, frame'}
      BY <1>5, <1>9, <2>2
    <3>2. tracks[id].last \in Nat /\ frame - tracks[id].last <= MaxLost + 1
      BY <1>8, <2>2 DEF ByteTrack
    <3> QED BY <1>5, <2>1, <2>2, <3>1, <3>2, LostAssumption DEF TableOK, LostAssumption
  <2>3. ASSUME NEW id \in Ids', id \notin Ids PROVE LastSeen'[id] = frame'
    BY <1>5, <1>9, <2>1, <2>3
  <2>4. ASSUME NEW id \in shown'
        PROVE  id \in Ids' /\ LastSeen'[id] = frame' /\ (id \in Ids \/ frame' <= WarmUp)
    <3>1. id \in kept /\ table[id].list = "tracked" /\ table[id].activated
      BY <1>5
    <3>2. id \in Ids \/ frame = 0
      BY <1>9, <3>1
    <3> QED BY <1>5, <1>9, <2>1, <3>1, <3>2
  <2>5. removed' \subseteq 1 .. nextId' - 1
    <3>1. \A id \in 1 .. nextId - 1 : id \in 1 .. nextId' - 1
      BY <1>3, <1>5 DEF TableOK
    <3> QED BY <1>7, <3>1 DEF TableOK
  <2>6. Ids' \subseteq Ids \cup NewIds(n)
    BY <1>4, <1>5, <1>6
  <2> QED BY <1>3, <1>5, <2>2, <2>3, <2>4, <2>5, <2>6, FrameKeeps
<1> QED BY <1>10, <1>11, <1>12

-----------------------------------------------------------------------------
(* DeepSORT.                                                               *)

\* Counting the looks up to the budget and counting the hits up to their bound
\* come to the same.
LEMMA LooksOfHits ==
  ASSUME NEW h \in Nat, h <= MaxHits
  PROVE  /\ Lesser(Lesser(h, Budget) + 1, Budget) = Lesser(Lesser(h + 1, MaxHits), Budget)
         /\ Lesser(Lesser(h, Budget) + 0, Budget) = Lesser(h, Budget)
         /\ h < MinHits => Lesser(h + 1, MaxHits) = h + 1
         /\ Lesser(h + 1, MaxHits) \in Nat /\ Lesser(h + 1, MaxHits) <= MaxHits
<1>1. Budget \in Nat /\ MaxHits \in Nat /\ MinHits \in Nat /\ MinHits <= MaxHits /\ Budget <= MaxHits
  BY TableAssumption, GalleryAssumption DEF TableAssumption, GalleryAssumption
<1>2. Lesser(h, Budget) \in Nat /\ Lesser(h + 1, MaxHits) \in Nat
  BY <1>1 DEF Lesser
<1>3. Lesser(Lesser(h, Budget) + 1, Budget) = Lesser(Lesser(h + 1, MaxHits), Budget)
  <2>1. CASE h < Budget
    BY <1>1, <2>1 DEF Lesser
  <2>2. CASE ~(h < Budget)
    <3>1. Lesser(h, Budget) = Budget /\ ~(Lesser(h + 1, MaxHits) < Budget)
      BY <1>1, <2>2 DEF Lesser
    <3>2. Lesser(Budget + 1, Budget) = Budget
      BY <1>1 DEF Lesser
    <3> QED BY <3>1, <3>2 DEF Lesser
  <2> QED BY <2>1, <2>2
<1>4. Lesser(Lesser(h, Budget) + 0, Budget) = Lesser(h, Budget)
  BY <1>1 DEF Lesser
<1>5. h < MinHits => Lesser(h + 1, MaxHits) = h + 1
  BY <1>1 DEF Lesser
<1>6. Lesser(h + 1, MaxHits) <= MaxHits
  BY <1>1 DEF Lesser
<1> QED BY <1>2, <1>3, <1>4, <1>5, <1>6

\* What becomes of a track that is seen: it keeps the looks it had, in itself
\* until it is confirmed and in the gallery from then on.
LEMMA DeepSeenOK ==
  ASSUME TInv, kind = "deepsort", NEW id \in Ids
  PROVE  /\ DeepSeen(id) \in DeepTrack /\ DeepSeen(id).missed = 0
         /\ DeepSeen(id).hits <= MaxHits
         /\ DeepSeen(id).state = "tentative" =>
              DeepSeen(id).features = DeepSeen(id).hits /\ DeepSeen(id).hits < MinHits
         /\ DeepSeen(id).state = "confirmed" =>
              Fitted(id, DeepSeen(id)) = Lesser(DeepSeen(id).hits, Budget)
<1> DEFINE t == tracks[id]
           u == DeepSeen(id)
           hits == Lesser(t.hits + 1, MaxHits)
<1>1. t \in DeepTrack /\ LooksOK(t)
  BY DEF TInv, TracksOK, TrackOK
<1>2. t.hits \in Nat /\ t.hits <= MaxHits /\ t.features \in Nat
      /\ t.state \in {"tentative", "confirmed"}
  BY <1>1 DEF DeepTrack, LooksOK
<1>3. hits \in Nat /\ hits <= MaxHits /\ (t.hits < MinHits => hits = t.hits + 1)
  BY <1>2, LooksOfHits
<1>4. /\ u.hits = hits /\ u.missed = 0 /\ u.features = t.features + 1
      /\ u.state = IF hits >= MinHits THEN "confirmed" ELSE t.state
  BY DEF DeepSeen
<1>5. u \in DeepTrack
  <2>1. t.features + 1 \in Nat /\ 0 \in Nat
    BY <1>2
  <2>2. (IF hits >= MinHits THEN "confirmed" ELSE t.state) \in {"tentative", "confirmed"}
    BY <1>2
  <2> HIDE DEF hits, t
  <2>3. u = [hits |-> hits, missed |-> 0, features |-> t.features + 1,
             state |-> IF hits >= MinHits THEN "confirmed" ELSE t.state]
    BY DEF DeepSeen, hits, t
  <2> QED BY <1>3, <2>1, <2>2, <2>3 DEF DeepTrack
<1>6. u.state = "tentative" => u.features = u.hits /\ u.hits < MinHits
  <2> HAVE u.state = "tentative"
  <2>1. t.state = "tentative" /\ ~(hits >= MinHits)
    BY <1>2, <1>4
  <2>2. t.features = t.hits /\ t.hits < MinHits
    BY <1>1, <2>1 DEF LooksOK
  <2> QED BY <1>2, <1>3, <1>4, <2>1, <2>2, TableAssumption DEF TableAssumption
<1>7. u.state = "confirmed" => Fitted(id, u) = Lesser(u.hits, Budget)
  <2>1. CASE t.state = "tentative"
    <3>1. t.features = t.hits /\ t.hits < MinHits /\ id \notin DOMAIN gallery
      BY <1>1, <2>1 DEF LooksOK, TInv, GalleryOK
    <3>2. Looks(id) = 0
      BY <3>1 DEF Looks
    <3>3. 0 + u.features = u.hits
      BY <1>2, <1>3, <1>4, <3>1
    <3> QED BY <3>2, <3>3 DEF Fitted
  <2>2. CASE t.state = "confirmed"
    <3>1. t.features = 0 /\ id \in DOMAIN gallery /\ gallery[id] = Lesser(t.hits, Budget)
      BY <1>1, <2>2 DEF LooksOK, TInv, GalleryOK
    <3>2. Looks(id) = Lesser(t.hits, Budget) /\ u.features = 1
      BY <1>4, <3>1 DEF Looks
    <3>3. Lesser(Lesser(t.hits, Budget) + 1, Budget) = Lesser(hits, Budget)
      BY <1>2, LooksOfHits
    <3> QED BY <1>4, <3>2, <3>3 DEF Fitted
  <2> QED BY <1>2, <2>1, <2>2
<1> QED BY <1>3, <1>4, <1>5, <1>6, <1>7

\* A confirmed track that is missed keeps its looks.
LEMMA DeepMissedOK ==
  ASSUME TInv, kind = "deepsort", NEW id \in Ids, ~Tentative(id), Missing(id) <= maxAge
  PROVE  /\ DeepMissed(id) \in DeepTrack /\ DeepMissed(id).missed = tracks[id].missed + 1
         /\ DeepMissed(id).hits <= MaxHits /\ DeepMissed(id).missed <= maxAge
         /\ DeepMissed(id).state = "confirmed" /\ DeepMissed(id).features = 0
         /\ Fitted(id, DeepMissed(id)) = Lesser(DeepMissed(id).hits, Budget)
<1> DEFINE t == tracks[id]
           u == DeepMissed(id)
<1>1. t \in DeepTrack /\ LooksOK(t)
  BY DEF TInv, TracksOK, TrackOK
<1>2. /\ t.hits \in Nat /\ t.hits <= MaxHits /\ t.missed + 1 \in Nat
      /\ t.state = "confirmed" /\ t.features = 0 /\ t.missed + 1 <= maxAge
  BY <1>1 DEF DeepTrack, LooksOK, Tentative, Missing
<1>3. /\ u \in DeepTrack /\ u.missed = t.missed + 1 /\ u.hits = t.hits
      /\ u.state = t.state /\ u.features = t.features
  BY <1>1, <1>2 DEF DeepMissed, DeepTrack
<1>4. Looks(id) = Lesser(t.hits, Budget)
  BY <1>2 DEF TInv, GalleryOK, Looks
<1>5. Lesser(Lesser(t.hits, Budget) + 0, Budget) = Lesser(t.hits, Budget)
  BY <1>2, LooksOfHits
<1> QED BY <1>2, <1>3, <1>4, <1>5 DEF Fitted

LEMMA DeepStep ==
  ASSUME TInv, kind = "deepsort", NEW detections \in Nat, NEW stamp, DeepUpdate(detections, stamp),
         UNCHANGED removed
  PROVE  TableOK' /\ TracksOK' /\ GalleryOK' /\ ImagesOK' /\ Contract!Frame
<1> USE DEF TInv
<1> DEFINE Ends(n, seen) ==
        LET new    == NewIds(n - Cardinality(seen))
            kept   == {id \in Ids : DeepKept(id, seen)}
            table  == [id \in kept \cup new |->
                         IF id \in new THEN DeepNew
                         ELSE IF id \in seen THEN DeepSeen(id) ELSE DeepMissed(id)]
            active == {id \in DOMAIN table : table[id].state = "confirmed"}
        IN  /\ EndFrame(Cardinality(new),
                        [id \in DOMAIN table |->
                           IF id \in active THEN [table[id] EXCEPT !.features = 0]
                                            ELSE table[id]],
                        {id \in active : table[id].missed = 0})
            /\ gallery' = [id \in active |-> Fitted(id, table[id])]
            /\ UNCHANGED images
<1>a. \E n \in {0, detections} : \E deep \in Matchable(Cascade, n) :
        \E near \in Matchable(ByOverlap \ deep, n - Cardinality(deep)) : Ends(n, deep \cup near)
  <2> DEFINE P(n) == \E deep \in Matchable(Cascade, n) :
                     \E near \in Matchable(ByOverlap \ deep, n - Cardinality(deep)) :
                       Ends(n, deep \cup near)
  <2>1. PICK stamps \in NotAfter(stamp) : P(IF Usable(stamps, stamp) THEN detections ELSE 0)
    BY DEF DeepUpdate
  <2> HIDE DEF P
  <2>2. (IF Usable(stamps, stamp) THEN detections ELSE 0) \in {0, detections}
    OBVIOUS
  <2>3. \E n \in {0, detections} : P(n)
    BY <2>1, <2>2
  <2> QED BY <2>3 DEF P
<1>b. PICK n \in {0, detections} : \E deep \in Matchable(Cascade, n) :
        \E near \in Matchable(ByOverlap \ deep, n - Cardinality(deep)) : Ends(n, deep \cup near)
  BY <1>a
<1>c. PICK deep \in Matchable(Cascade, n) :
        \E near \in Matchable(ByOverlap \ deep, n - Cardinality(deep)) : Ends(n, deep \cup near)
  BY <1>b
<1>1. PICK near \in Matchable(ByOverlap \ deep, n - Cardinality(deep)) : Ends(n, deep \cup near)
  BY <1>c
<1> DEFINE seen  == deep \cup near
           m     == n - Cardinality(seen)
           kept  == {id \in Ids : DeepKept(id, seen)}
           table == [id \in kept \cup NewIds(m) |->
                       IF id \in NewIds(m) THEN DeepNew
                       ELSE IF id \in seen THEN DeepSeen(id) ELSE DeepMissed(id)]
           active == {id \in DOMAIN table : table[id].state = "confirmed"}
<1>2. /\ m \in Nat /\ Cardinality(NewIds(m)) = m /\ NewIds(m) \cap Ids = {}
      /\ deep \subseteq Cascade /\ near \subseteq ByOverlap
  <2>1. Cascade \subseteq Ids /\ ByOverlap \ deep \subseteq Ids /\ n \in Nat
    BY DEF Cascade, ByOverlap
  <2>2. /\ deep \subseteq Cascade /\ IsFiniteSet(deep) /\ Cardinality(deep) \in Nat
        /\ n - Cardinality(deep) \in Nat
    BY <2>1, MatchedFacts
  <2>3. /\ near \subseteq ByOverlap \ deep /\ IsFiniteSet(near) /\ Cardinality(near) \in Nat
        /\ n - Cardinality(deep) - Cardinality(near) \in Nat
    BY <2>1, <2>2, MatchedFacts
  <2>4. /\ IsFiniteSet(seen)
        /\ Cardinality(seen) = Cardinality(deep) + Cardinality(near) - Cardinality(deep \cap near)
    BY <2>2, <2>3, FS_Union
  <2>5. Cardinality(deep \cap near) = 0
    <3>1. deep \cap near = {}
      BY <2>3
    <3> QED BY <3>1, FS_EmptySet
  <2>6. m \in Nat
    BY <2>1, <2>2, <2>3, <2>4, <2>5
  <2> HIDE DEF m
  <2> QED BY <2>2, <2>3, <2>6, NewFacts
<1>3. /\ EndFrame(Cardinality(NewIds(m)),
                  [id \in DOMAIN table |->
                     IF id \in active THEN [table[id] EXCEPT !.features = 0] ELSE table[id]],
                  {id \in active : table[id].missed = 0})
      /\ gallery' = [id \in active |-> Fitted(id, table[id])]
      /\ images' = images
  BY <1>1
<1>4. /\ kept \subseteq Ids /\ seen \subseteq Ids
      /\ DOMAIN table = kept \cup NewIds(m)
      /\ \A id \in NewIds(m) : table[id] = DeepNew
      /\ \A id \in kept : table[id] = IF id \in seen THEN DeepSeen(id) ELSE DeepMissed(id)
      /\ \A id \in kept : id \notin seen => ~Tentative(id) /\ Missing(id) <= maxAge
  <2>1. kept \subseteq Ids /\ seen \subseteq Ids
    BY <1>2 DEF Cascade, ByOverlap
  <2>2. \A id \in kept : id \notin NewIds(m)
    BY <1>2
  <2>3. \A id \in kept : id \notin seen => ~Tentative(id) /\ Missing(id) <= maxAge
    BY DEF DeepKept
  <2> HIDE DEF kept, seen, m
  <2> QED BY <2>1, <2>2, <2>3
<1>5. \A id \in seen : Missing(id) <= maxAge
  <2> TAKE id \in seen
  <2>1. id \in Ids /\ (id \in Cascade \/ id \in ByOverlap)
    BY <1>2 DEF Cascade, ByOverlap
  <2>2. tracks[id] \in DeepTrack /\ LooksOK(tracks[id])
    BY <2>1 DEF TracksOK, TrackOK
  <2> QED BY <2>1, <2>2 DEF Cascade, ByOverlap, Tentative, Missing, LooksOK, TableOK, DeepTrack
<1> HIDE DEF kept, seen, m, table
<1>6. \A id \in active : table[id].state = "confirmed" /\ id \in DOMAIN table
  OBVIOUS
<1>7. \A id \in DOMAIN table : id \in active <=> table[id].state = "confirmed"
  OBVIOUS
<1> HIDE DEF active
<1>8. /\ frame' = frame + 1 /\ nextId' = nextId + m
      /\ kind' = kind /\ maxAge' = maxAge
      /\ Ids' = kept \cup NewIds(m)
      /\ \A id \in Ids' :
           tracks'[id] = IF id \in active THEN [table[id] EXCEPT !.features = 0] ELSE table[id]
      /\ shown' = {id \in active : table[id].missed = 0}
  BY <1>2, <1>3, <1>4 DEF EndFrame, Ids
<1>9. ASSUME NEW id \in NewIds(m)
      PROVE  /\ table[id] \in DeepTrack /\ table[id].state = "tentative"
             /\ table[id].missed = 0 /\ table[id].hits = 1 /\ table[id].features = 1
             /\ id \notin active
  BY <1>4, <1>6 DEF DeepNew, DeepTrack
<1>10. ASSUME NEW id \in kept
       PROVE  /\ table[id] \in DeepTrack /\ table[id].hits <= MaxHits
              /\ table[id].missed = 0 \/ (table[id].missed = tracks[id].missed + 1 /\ id \notin seen)
              /\ table[id].missed <= maxAge
              /\ table[id].state = "tentative" =>
                   /\ table[id].missed = 0
                   /\ table[id].features = table[id].hits /\ table[id].hits < MinHits
              /\ table[id].state = "confirmed" =>
                   Fitted(id, table[id]) = Lesser(table[id].hits, Budget)
  <2>1. id \in Ids
    BY <1>4
  <2>2. CASE id \in seen
    <3>1. table[id] = DeepSeen(id)
      BY <1>4, <2>2
    <3> QED BY <2>1, <3>1, DeepSeenOK DEF TableOK
  <2>3. CASE id \notin seen
    <3>1. table[id] = DeepMissed(id) /\ ~Tentative(id) /\ Missing(id) <= maxAge
      BY <1>4, <2>3
    <3> QED BY <2>1, <2>3, <3>1, DeepMissedOK DEF TableOK
  <2> QED BY <2>2, <2>3
<1>11. ASSUME NEW id \in Ids'
       PROVE  /\ tracks'[id] \in DeepTrack
              /\ tracks'[id].hits = table[id].hits /\ tracks'[id].missed = table[id].missed
              /\ tracks'[id].state = table[id].state
              /\ tracks'[id].features = IF table[id].state = "confirmed" THEN 0
                                                                        ELSE table[id].features
  <2>1. table[id] \in DeepTrack /\ id \in DOMAIN table
    BY <1>4, <1>8, <1>9, <1>10
  <2>2. CASE table[id].state = "confirmed"
    <3>1. tracks'[id] = [table[id] EXCEPT !.features = 0]
      BY <1>7, <1>8, <2>1, <2>2
    <3> QED BY <2>1, <2>2, <3>1 DEF DeepTrack
  <2>3. CASE table[id].state # "confirmed"
    <3>1. tracks'[id] = table[id]
      BY <1>7, <1>8, <2>1, <2>3
    <3> QED BY <2>1, <2>3, <3>1
  <2> QED BY <2>2, <2>3
<1>12. TracksOK'
  <2>1. ASSUME NEW id \in Ids' PROVE tracks'[id] \in DeepTrack /\ LooksOK(tracks[id])'
    <3>1. CASE id \in kept
      BY <1>8, <1>10, <1>11, <3>1 DEF LooksOK, DeepTrack
    <3>2. CASE id \in NewIds(m)
      BY <1>8, <1>9, <1>11, <3>2, TableAssumption, GalleryAssumption
      DEF LooksOK, TableOK, TableAssumption, GalleryAssumption
    <3> QED BY <1>8, <3>1, <3>2
  <2> QED BY <1>8, <2>1 DEF TracksOK, TrackOK
<1>13. GalleryOK' /\ ImagesOK'
  <2>1. DOMAIN gallery' = active /\ \A id \in active : gallery'[id] = Fitted(id, table[id])
    BY <1>3
  <2>2. active = {id \in Ids' : tracks'[id].state = "confirmed"}
    BY <1>4, <1>6, <1>7, <1>8, <1>11
  <2>3. \A id \in active : gallery'[id] = Lesser(tracks'[id].hits, Budget)
    <3> TAKE id \in active
    <3>1. id \in kept /\ id \in Ids'
      BY <1>4, <1>6, <1>8, <1>9
    <3> QED BY <1>6, <1>10, <1>11, <2>1, <3>1
  <2> QED BY <1>3, <1>8, <2>1, <2>2, <2>3 DEF GalleryOK, ImagesOK
<1>14. TableOK' /\ Contract!Frame
  <2>1. /\ LastSeen = [id \in Ids |-> frame - tracks[id].missed]
        /\ LastSeen' = [id \in Ids' |-> frame' - tracks'[id].missed]
        /\ Patience = maxAge /\ WarmUp = 0
    BY <1>8 DEF LastSeen, Patience, WarmUp
  <2>2. ASSUME NEW id \in Ids', id \in Ids
        PROVE  \/ LastSeen'[id] = frame' /\ frame' - LastSeen[id] <= Patience
               \/ LastSeen'[id] = LastSeen[id]
    <3>1. id \in kept
      BY <1>2, <1>8, <2>2
    <3>2. tracks[id].missed \in Nat /\ (id \in seen => tracks[id].missed + 1 <= maxAge)
      BY <1>5, <2>2 DEF TracksOK, TrackOK, DeepTrack, Missing
    <3>3. tracks'[id].missed = 0 \/ tracks'[id].missed = tracks[id].missed + 1
      BY <1>10, <1>11, <3>1
    <3>4. id \notin seen => tracks[id].missed + 1 <= maxAge
      BY <1>4, <3>1 DEF Missing
    <3> QED BY <1>8, <2>1, <2>2, <3>2, <3>3, <3>4 DEF TableOK
  <2>3. ASSUME NEW id \in Ids', id \notin Ids PROVE LastSeen'[id] = frame'
    <3>1. id \in NewIds(m)
      BY <1>4, <1>8, <2>3
    <3>2. tracks'[id].missed = 0
      BY <1>9, <1>11, <3>1
    <3> QED BY <1>8, <2>1, <3>2 DEF TableOK
  <2>4. ASSUME NEW id \in shown' PROVE id \in Ids' /\ LastSeen'[id] = frame' /\ id \in Ids
    <3>1. id \in active /\ table[id].missed = 0
      BY <1>8
    <3>2. id \in kept /\ id \in Ids'
      BY <1>4, <1>6, <1>8, <1>9, <3>1
    <3>3. tracks'[id].missed = 0
      BY <1>11, <3>1, <3>2
    <3> QED BY <1>4, <1>8, <2>1, <3>2, <3>3 DEF TableOK
  <2>5. removed' \subseteq 1 .. nextId' - 1
    <3>1. \A id \in 1 .. nextId - 1 : id \in 1 .. nextId' - 1
      BY <1>2, <1>8 DEF TableOK
    <3> QED BY <3>1 DEF TableOK
  <2>6. Ids' \subseteq Ids \cup NewIds(m)
    BY <1>4, <1>8
  <2> QED BY <1>2, <1>8, <2>2, <2>3, <2>4, <2>5, <2>6, FrameKeeps
<1> QED BY <1>12, <1>13, <1>14

-----------------------------------------------------------------------------
(* The image buffer.                                                       *)

\* The earliest stamp kept has fewer than MaxImages after it.
LEMMA BufferIsBounded ==
  ASSUME NEW stamps, stamps \subseteq Nat, IsFiniteSet(stamps)
  PROVE  /\ Buffered(stamps) \subseteq stamps /\ IsFiniteSet(Buffered(stamps))
         /\ Cardinality(Buffered(stamps)) <= MaxImages
<1> DEFINE B == Buffered(stamps)
<1>1. B \subseteq stamps /\ \A s \in B : Cardinality({r \in stamps : r > s}) < MaxImages
  BY DEF Buffered
<1> HIDE DEF B
<1>2. IsFiniteSet(B) /\ Cardinality(B) \in Nat /\ MaxImages \in Nat
  BY <1>1, FS_Subset, FS_CardinalityType, GalleryAssumption DEF GalleryAssumption
<1>3. CASE B = {}
  <2>1. Cardinality(B) = 0
    BY <1>3, FS_EmptySet
  <2> QED BY <1>1, <1>2, <2>1 DEF B
<1>4. CASE B # {}
  <2>1. PICK s \in B : \A r \in B : ~(r < s)
    <3>1. PICK s \in B : \A r \in B : <<r, s>> \notin OpToRel(<, Nat)
      BY <1>1, <1>4, NatLessThanWellFounded, WFMin
    <3> QED BY <1>1, <3>1 DEF OpToRel
  <2> DEFINE after == {r \in stamps : r > s}
  <2>2. B \ {s} \subseteq after
    <3>1. \A r \in B \ {s} : r \in Nat /\ s \in Nat /\ ~(r < s) /\ r # s
      BY <1>1, <2>1
    <3>2. \A r \in B \ {s} : r > s
      BY <3>1
    <3> QED BY <1>1, <3>2
  <2>3. IsFiniteSet(after) /\ Cardinality(after) \in Nat /\ Cardinality(after) < MaxImages
    <3>1. after \in SUBSET stamps
      OBVIOUS
    <3> QED BY <1>1, <2>1, <3>1, FS_Subset, FS_CardinalityType
  <2> HIDE DEF after
  <2>4. Cardinality(B \ {s}) <= Cardinality(after) /\ IsFiniteSet(B \ {s})
    BY <2>2, <2>3, FS_Subset
  <2>5. Cardinality(B \ {s}) = Cardinality(B) - 1
    BY <1>2, <2>1, FS_RemoveElement
  <2> QED BY <1>1, <1>2, <2>3, <2>4, <2>5 DEF B
<1> QED BY <1>3, <1>4

\* The backend does not move: the contract stutters.
LEMMA TableStays ==
  ASSUME UNCHANGED tableVars
  PROVE  UNCHANGED Contract!vars
BY DEF tableVars, Contract!vars, Patience, WarmUp, LastSeen, Ids

LEMMA BackendStays ==
  ASSUME TInv, UNCHANGED <<tableVars, removed>>
  PROVE  TableOK' /\ TracksOK' /\ (UNCHANGED gallery => GalleryOK')
<1>1. UNCHANGED <<kind, maxAge, frame, tracks, nextId, shown, removed>>
  BY DEF tableVars
<1>2. TableOK'
  BY <1>1 DEF TInv, TableOK, Ids
<1>3. TracksOK'
  <2>1. \A id : LooksOK(tracks[id]) => LooksOK(tracks[id])'
    BY <1>1 DEF LooksOK
  <2>2. \A id : ListsOK(id, tracks[id]) => ListsOK(id, tracks[id])'
    BY <1>1 DEF ListsOK
  <2> QED BY <1>1, <2>1, <2>2 DEF TInv, TracksOK, TrackOK, Ids
<1>4. UNCHANGED gallery => GalleryOK'
  BY <1>1 DEF TInv, GalleryOK, Ids
<1> QED BY <1>2, <1>3, <1>4

LEMMA ImageStep ==
  ASSUME TInv, NEW time \in 1 .. MaxTime, OnImage(time)
  PROVE  TInv' /\ UNCHANGED Contract!vars
<1> USE DEF TInv
<1>1. /\ UNCHANGED <<tableVars, removed, gallery>>
      /\ images' = Buffered(images \cup {time}) /\ imaged' = time
      /\ UNCHANGED <<detected, timed, base, context, order, message>>
  BY DEF OnImage, DeepImage, contextVars
<1>2. time \in Nat
  BY NodeAssumption DEF NodeAssumption
<1>3. ImagesOK'
  <2>1. images \cup {time} \subseteq Nat /\ IsFiniteSet(images \cup {time})
    BY <1>2, FS_AddElement DEF ImagesOK
  <2> QED BY <1>1, <2>1, BufferIsBounded DEF ImagesOK
<1>4. StreamOK' /\ ContextOK' /\ MessageOK'
  BY <1>1, <1>2 DEF StreamOK, ContextOK, MessageOK
<1> QED BY <1>1, <1>3, <1>4, BackendStays, TableStays

-----------------------------------------------------------------------------
(* The context of the frames.                                              *)

LEMMA ElementFacts ==
  ASSUME NEW S, NEW s \in Seq(S)
  PROVE  \A i \in 1 .. Len(s) : s[i] \in S
OBVIOUS

LEMMA TailFacts ==
  ASSUME NEW S, NEW s \in Seq(S), Len(s) > 0
  PROVE  /\ Tail(s) \in Seq(S) /\ Len(Tail(s)) = Len(s) - 1 /\ Head(s) = s[1]
         /\ \A j \in 1 .. Len(s) - 1 : Tail(s)[j] = s[j + 1]
OBVIOUS

\* The queue after a timing, and that it still holds every context kept.
LEMMA QueueOK ==
  ASSUME NEW queue \in Seq(1 .. MaxTime), Len(queue) <= MaxContext + 1,
         NEW stamps, DOMAIN stamps \subseteq Listed(queue),
         NEW number \in Listed(queue),
         Len(queue) > MaxContext => queue[Len(queue)] = number,
         NEW rest, rest = IF Len(queue) > MaxContext THEN Tail(queue) ELSE queue
  PROVE  /\ rest \in Seq(1 .. MaxTime) /\ Len(rest) <= MaxContext
         /\ DOMAIN Evicted(stamps, queue) \cup {number} \subseteq Listed(rest)
         /\ DOMAIN Evicted(stamps, queue) \subseteq DOMAIN stamps
<1>1. MaxContext \in Nat /\ MaxContext > 0 /\ Len(queue) \in Nat
  BY NodeAssumption DEF NodeAssumption
<1>2. CASE Len(queue) > MaxContext
  <2>1. /\ rest \in Seq(1 .. MaxTime) /\ Len(rest) = Len(queue) - 1 /\ Head(queue) = queue[1]
        /\ \A j \in 1 .. Len(queue) - 1 : rest[j] = queue[j + 1]
    BY <1>1, <1>2, TailFacts
  <2>2. DOMAIN Evicted(stamps, queue) = DOMAIN stamps \ {queue[1]}
    BY <1>2, <2>1 DEF Evicted
  <2>3. ASSUME NEW i \in 1 .. Len(queue), i # 1 PROVE queue[i] \in Listed(rest)
    <3>1. i - 1 \in 1 .. Len(queue) - 1 /\ (i - 1) + 1 = i
      BY <1>1, <2>3
    <3>2. i - 1 \in 1 .. Len(rest) /\ rest[i - 1] = queue[i]
      BY <2>1, <3>1
    <3> QED BY <3>2 DEF Listed
  <2>4. number \in Listed(rest)
    <3>1. Len(queue) \in 1 .. Len(queue) /\ Len(queue) # 1
      BY <1>1, <1>2
    <3>2. queue[Len(queue)] \in Listed(rest)
      BY <2>3, <3>1
    <3> QED BY <1>2, <3>2
  <2>5. ASSUME NEW x \in Listed(queue), x # queue[1] PROVE x \in Listed(rest)
    <3>1. PICK i \in 1 .. Len(queue) : x = queue[i]
      BY DEF Listed
    <3> QED BY <2>3, <2>5, <3>1
  <2>6. Len(rest) <= MaxContext
    BY <1>1, <2>1
  <2> QED BY <2>1, <2>2, <2>4, <2>5, <2>6
<1>3. CASE ~(Len(queue) > MaxContext)
  <2>1. rest = queue /\ Evicted(stamps, queue) = stamps
    BY <1>3 DEF Evicted
  <2> QED BY <1>1, <1>3, <2>1
<1> QED BY <1>2, <1>3

\* The queue a timing makes, before the one kept longest leaves it.
LEMMA JoinedOK ==
  ASSUME ContextOK, NEW number \in 1 .. MaxTime,
         NEW queue, queue = IF number \in DOMAIN context THEN order ELSE Append(order, number)
  PROVE  /\ queue \in Seq(1 .. MaxTime) /\ Len(queue) <= MaxContext + 1
         /\ DOMAIN context \subseteq Listed(queue) /\ number \in Listed(queue)
         /\ Len(queue) > MaxContext => queue[Len(queue)] = number
<1>1. /\ order \in Seq(1 .. MaxTime) /\ Len(order) <= MaxContext
      /\ MaxContext \in Nat /\ Len(order) \in Nat /\ DOMAIN context \subseteq Listed(order)
  BY NodeAssumption DEF NodeAssumption, ContextOK
<1>2. CASE number \in DOMAIN context
  BY <1>1, <1>2
<1>3. CASE number \notin DOMAIN context
  <2>1. /\ queue \in Seq(1 .. MaxTime) /\ Len(queue) = Len(order) + 1
        /\ queue[Len(order) + 1] = number
        /\ \A j \in 1 .. Len(order) : queue[j] = order[j]
    BY <1>1, <1>3, AppendFacts
  <2>2. Len(order) + 1 \in 1 .. Len(queue) /\ \A j \in 1 .. Len(order) : j \in 1 .. Len(queue)
    BY <1>1, <2>1
  <2>3. \A x \in Listed(order) : x \in Listed(queue)
    BY <2>1, <2>2 DEF Listed
  <2>4. number \in Listed(queue)
    BY <2>1, <2>2 DEF Listed
  <2>5. DOMAIN context \subseteq Listed(queue)
    BY <1>1, <2>3
  <2>6. Len(queue) <= MaxContext + 1 /\ queue[Len(queue)] = number
    BY <1>1, <2>1
  <2> QED BY <2>1, <2>4, <2>5, <2>6
<1> QED BY <1>2, <1>3

LEMMA TimingStep ==
  ASSUME TInv, NEW time \in 1 .. MaxTime, OnTiming(time)
  PROVE  TInv' /\ UNCHANGED Contract!vars
<1> DEFINE number == time - base
           queue  == IF number \in DOMAIN context THEN order ELSE Append(order, number)
           kept   == Evicted(context, queue)
<1>1. /\ time > timed /\ time > base
      /\ order' = IF Len(queue) > MaxContext THEN Tail(queue) ELSE queue
      /\ context' = [n \in DOMAIN kept \cup {number} |-> IF n = number THEN time ELSE context[n]]
      /\ timed' = time
      /\ UNCHANGED <<tableVars, removed, gallery, images, detected, imaged, base, message>>
  BY DEF OnTiming, backendVars, deepVars
<1>2. time \in Nat /\ number \in 1 .. MaxTime /\ base \in Nat /\ time = base + number
  <2>1. base \in Nat /\ MaxTime \in Nat
    BY NodeAssumption DEF NodeAssumption, TInv, StreamOK
  <2>2. time > base
    BY <1>1
  <2> QED BY <2>1, <2>2
<1> HIDE DEF number
<1>3. ContextOK /\ \A n \in DOMAIN context : context[n] \in Nat /\ context[n] <= base + n
  BY DEF TInv, ContextOK
<1>4. /\ queue \in Seq(1 .. MaxTime) /\ Len(queue) <= MaxContext + 1
      /\ DOMAIN context \subseteq Listed(queue) /\ number \in Listed(queue)
      /\ Len(queue) > MaxContext => queue[Len(queue)] = number
  BY <1>2, <1>3, JoinedOK
<1> HIDE DEF queue
<1>5. /\ order' \in Seq(1 .. MaxTime) /\ Len(order') <= MaxContext
      /\ DOMAIN kept \cup {number} \subseteq Listed(order')
      /\ DOMAIN kept \subseteq DOMAIN context
  BY <1>1, <1>4, QueueOK
<1> HIDE DEF kept
<1>6. \A n \in DOMAIN context' : context'[n] \in Nat /\ context'[n] <= base + n
  <2> TAKE n \in DOMAIN context'
  <2>1. CASE n = number
    BY <1>1, <1>2, <2>1
  <2>2. CASE n # number
    <3>1. n \in DOMAIN context /\ context'[n] = context[n]
      BY <1>1, <1>5, <2>2
    <3> QED BY <1>3, <3>1
  <2> QED BY <2>1, <2>2
<1>7. ContextOK'
  <2>1. DOMAIN context' = DOMAIN kept \cup {number} /\ base' = base
    BY <1>1
  <2> QED BY <1>5, <1>6, <2>1 DEF ContextOK, Listed
<1>8. StreamOK' /\ MessageOK' /\ ImagesOK'
  BY <1>1, <1>2 DEF TInv, StreamOK, MessageOK, ImagesOK
<1> QED BY <1>1, <1>7, <1>8, BackendStays, TableStays DEF TInv

-----------------------------------------------------------------------------
(* The node.                                                               *)

LEMMA UpdateStep ==
  ASSUME TInv, NEW time, Update(time)
  PROVE  TableOK' /\ TracksOK' /\ GalleryOK' /\ ImagesOK' /\ Contract!Frame
<1>1. PICK n, low \in Detections :
        \/ kind = "sort" /\ low = 0 /\ SortUpdate(n) /\ UNCHANGED <<removed, deepVars>>
        \/ kind = "ocsort" /\ OcUpdate(n, low) /\ UNCHANGED <<removed, deepVars>>
        \/ kind = "bytetrack" /\ ByteUpdate(n, low) /\ UNCHANGED deepVars
        \/ kind = "deepsort" /\ low = 0 /\ DeepUpdate(n, time) /\ UNCHANGED removed
  BY DEF Update
<1>2. n \in Nat /\ low \in Nat
  BY DetectionsAreFew DEF TInv
<1>3. CASE kind = "sort" /\ SortUpdate(n) /\ UNCHANGED <<removed, deepVars>>
  BY <1>2, <1>3, SortStep
<1>4. CASE kind = "ocsort" /\ OcUpdate(n, low) /\ UNCHANGED <<removed, deepVars>>
  BY <1>2, <1>4, OcStep
<1>5. CASE kind = "bytetrack" /\ ByteUpdate(n, low) /\ UNCHANGED deepVars
  BY <1>2, <1>5, ByteStep
<1>6. CASE kind = "deepsort" /\ DeepUpdate(n, time) /\ UNCHANGED removed
  BY <1>2, <1>6, DeepStep
<1> QED BY <1>1, <1>3, <1>4, <1>5, <1>6

LEMMA DetectionsStep ==
  ASSUME TInv, NEW time \in 1 .. MaxTime, OnDetections(time)
  PROVE  TInv' /\ Contract!Frame
<1> DEFINE number == time - base
<1>1. /\ time > detected /\ time > base
      /\ message' = [time |-> time, stamp |-> Stamp(number, time)]
      /\ context' = [n \in DOMAIN context \ {number} |-> context[n]]
      /\ detected' = time /\ UNCHANGED <<timed, imaged, base, order>>
  BY DEF OnDetections
<1>2. TableOK' /\ TracksOK' /\ GalleryOK' /\ ImagesOK' /\ Contract!Frame
  BY UpdateStep DEF OnDetections
<1>3. time \in Nat /\ base \in Nat /\ time = base + number
  BY <1>1, NodeAssumption DEF NodeAssumption, TInv, StreamOK
<1> HIDE DEF number
<1>4. Stamp(number, time) \in Nat /\ Stamp(number, time) <= time
  BY <1>3 DEF Stamp, TInv, ContextOK
<1>5. MessageOK'
  BY <1>1, <1>3, <1>4 DEF MessageOK
<1>6. ContextOK'
  BY <1>1 DEF TInv, ContextOK, Listed
<1>7. StreamOK'
  BY <1>1, <1>3 DEF TInv, StreamOK
<1> QED BY <1>2, <1>5, <1>6, <1>7 DEF TInv

LEMMA SwitchStep ==
  ASSUME TInv, NEW to \in Kinds, Switch(to)
  PROVE  TInv' /\ Contract!Switch
<1>1. /\ kind' = to /\ maxAge' = DeclaredAge(to)
      /\ frame' = 0 /\ tracks' = NoEntries /\ nextId' = 1 /\ shown' = {} /\ removed' = {}
      /\ gallery' = NoEntries /\ images' = {} /\ context' = NoEntries /\ order' = <<>>
      /\ UNCHANGED <<detected, timed, imaged, base, message>>
  BY DEF Switch, streamVars
<1>2. maxAge \in Nat
  BY DEF TInv, TableOK
<1>3. maxAge' \in Nat /\ (to # "bytetrack" => maxAge' > 0)
  BY <1>1, <1>2, NodeAssumption DEF NodeAssumption, DeclaredAge, Kinds
<1>4. DOMAIN NoEntries = {}
  BY DEF NoEntries
<1>5. Ids' = {}
  BY <1>1, <1>4 DEF Ids
<1>6. TableOK'
  BY <1>1, <1>3, <1>5 DEF TableOK
<1>7. TracksOK' /\ GalleryOK'
  BY <1>1, <1>4, <1>5 DEF TracksOK, GalleryOK
<1>8. ImagesOK'
  <2>1. MaxImages \in Nat
    BY GalleryAssumption DEF GalleryAssumption
  <2> QED BY <1>1, <2>1, FS_EmptySet DEF ImagesOK
<1>9. ContextOK'
  <2>1. <<>> \in Seq(1 .. MaxTime) /\ Len(<<>>) = 0
    OBVIOUS
  <2> QED BY <1>1, <1>4, <2>1, NodeAssumption DEF NodeAssumption, ContextOK
<1>10. StreamOK' /\ MessageOK'
  BY <1>1 DEF TInv, StreamOK, MessageOK
<1>11. Contract!Switch
  <2>1. LastSeen' = Contract!NoTracks
    BY <1>5 DEF LastSeen, Contract!NoTracks
  <2>2. Patience' \in Nat /\ WarmUp' \in Nat
    BY <1>1, <1>3, TableAssumption, LostAssumption
    DEF TableAssumption, LostAssumption, Patience, WarmUp, Kinds
  <2> QED BY <1>1, <2>1, <2>2 DEF Contract!Switch, Contract!Started
<1> QED BY <1>6, <1>7, <1>8, <1>9, <1>10, <1>11 DEF TInv

\* Only SORT, OC-SORT and DeepSORT use max_age, and they have declared it.
LEMMA FailedSwitchStep ==
  ASSUME TInv, SwitchFails
  PROVE  TInv' /\ UNCHANGED Contract!vars
<1>1. /\ kind # "deepsort" /\ maxAge' = DeclaredAge("deepsort")
      /\ UNCHANGED <<kind, frame, tracks, nextId, shown, removed, gallery, images, detected,
                     timed, imaged, base, context, order, message>>
  BY DEF SwitchFails, deepVars, streamVars, contextVars
<1>2. kind \in Kinds /\ maxAge \in Nat /\ (kind # "bytetrack" => maxAge > 0)
  BY DEF TInv, TableOK
<1>3. maxAge' \in Nat /\ (kind # "bytetrack" => maxAge' = maxAge)
  BY <1>1, <1>2, NodeAssumption DEF NodeAssumption, DeclaredAge
<1>4. TableOK'
  BY <1>1, <1>2, <1>3 DEF TInv, TableOK, Ids
<1>5. TracksOK'
  <2>1. \A id : ListsOK(id, tracks[id]) => ListsOK(id, tracks[id])'
    BY <1>1 DEF ListsOK
  <2> QED BY <1>1, <1>3, <2>1 DEF TInv, TracksOK, TrackOK, Ids
<1>6. GalleryOK' /\ ImagesOK' /\ StreamOK' /\ ContextOK' /\ MessageOK'
  BY <1>1 DEF TInv, GalleryOK, Ids, ImagesOK, StreamOK, ContextOK, Listed, MessageOK
<1>7. UNCHANGED Contract!vars
  BY <1>1, <1>2, <1>3 DEF Contract!vars, Patience, WarmUp, LastSeen, Ids, Kinds
<1> QED BY <1>4, <1>5, <1>6, <1>7 DEF TInv

LEMMA RestartStep ==
  ASSUME TInv, PerceptionRestarts
  PROVE  TInv' /\ UNCHANGED Contract!vars
<1>1. /\ UNCHANGED <<tableVars, removed, gallery, images, detected, timed, imaged, context,
                     order, message>>
      /\ base' = IF detected > timed THEN detected ELSE timed
  BY DEF PerceptionRestarts, backendVars, deepVars, contextVars
<1>2. {detected, timed, imaged, base} \subseteq Nat /\ (base <= detected \/ base <= timed)
  BY DEF TInv, StreamOK
<1>3. base' \in Nat /\ base <= base' /\ StreamOK'
  BY <1>1, <1>2 DEF StreamOK
<1>4. ContextOK'
  <2>1. \A n \in DOMAIN context : n \in Nat /\ context[n] \in Nat /\ context[n] <= base + n
    BY NodeAssumption DEF NodeAssumption, TInv, ContextOK, Listed
  <2>2. \A n \in DOMAIN context : context[n] <= base' + n
    BY <1>2, <1>3, <2>1
  <2> QED BY <1>1, <2>2 DEF TInv, ContextOK, Listed
<1>5. MessageOK' /\ ImagesOK'
  BY <1>1 DEF TInv, MessageOK, ImagesOK
<1> QED BY <1>1, <1>3, <1>4, <1>5, BackendStays, TableStays DEF TInv

LEMMA TInit == Init => TInv /\ Contract!Init
<1> SUFFICES ASSUME Init PROVE TInv /\ Contract!Init
  OBVIOUS
<1>1. maxAge \in Nat /\ (kind # "bytetrack" => maxAge > 0) /\ kind \in Kinds
  BY NodeAssumption DEF NodeAssumption, Init, Kinds
<1>2. DOMAIN NoEntries = {} /\ Ids = {}
  BY DEF NoEntries, Init, Ids
<1>3. TableOK /\ TracksOK /\ GalleryOK
  BY <1>1, <1>2 DEF Init, TableOK, TracksOK, GalleryOK
<1>4. ImagesOK
  <2>1. MaxImages \in Nat
    BY GalleryAssumption DEF GalleryAssumption
  <2> QED BY <2>1, FS_EmptySet DEF Init, ImagesOK
<1>5. ContextOK
  <2>1. <<>> \in Seq(1 .. MaxTime) /\ Len(<<>>) = 0
    OBVIOUS
  <2> QED BY <1>2, <2>1, NodeAssumption DEF NodeAssumption, Init, ContextOK
<1>6. StreamOK /\ MessageOK
  BY DEF Init, StreamOK, MessageOK
<1>7. Contract!Init
  <2>1. LastSeen = Contract!NoTracks
    BY <1>2 DEF LastSeen, Contract!NoTracks
  <2>2. Patience \in Nat /\ WarmUp \in Nat
    BY <1>1, TableAssumption, LostAssumption
    DEF TableAssumption, LostAssumption, Patience, WarmUp, Kinds
  <2> QED BY <2>1, <2>2 DEF Init, Contract!Init, Contract!Started
<1> QED BY <1>3, <1>4, <1>5, <1>6, <1>7 DEF TInv

LEMMA TStep == TInv /\ [Next]_vars => TInv' /\ [Contract!Next]_(Contract!vars)
<1> SUFFICES ASSUME TInv, [Next]_vars PROVE TInv' /\ [Contract!Next]_(Contract!vars)
  OBVIOUS
<1>1. CASE \E time \in 1 .. MaxTime : OnTiming(time)
  BY <1>1, TimingStep
<1>2. CASE \E time \in 1 .. MaxTime : OnDetections(time)
  BY <1>2, DetectionsStep DEF Contract!Next
<1>3. CASE \E time \in 1 .. MaxTime : OnImage(time)
  BY <1>3, ImageStep
<1>4. CASE \E to \in Kinds : Switch(to)
  BY <1>4, SwitchStep DEF Contract!Next
<1>5. CASE SwitchFails
  BY <1>5, FailedSwitchStep
<1>6. CASE PerceptionRestarts
  BY <1>6, RestartStep
<1>7. CASE UNCHANGED vars
  <2>1. /\ UNCHANGED <<tableVars, removed, gallery, images, detected, timed, imaged, base,
                       context, order, message>>
    BY <1>7 DEF vars, backendVars, deepVars, streamVars, contextVars
  <2>2. ImagesOK' /\ StreamOK' /\ ContextOK' /\ MessageOK'
    BY <2>1 DEF TInv, ImagesOK, StreamOK, ContextOK, Listed, MessageOK
  <2> QED BY <2>1, <2>2, BackendStays, TableStays DEF TInv
<1> QED BY <1>1, <1>2, <1>3, <1>4, <1>5, <1>6, <1>7 DEF Next

LEMMA TInvariant == Spec => []TInv
<1>1. Init => TInv
  BY TInit
<1>2. TInv /\ [Next]_vars => TInv'
  BY TStep
<1> QED BY <1>1, <1>2, PTL DEF Spec

-----------------------------------------------------------------------------
(* Theorems.                                                               *)

\* A number that a backend shows was observed in that frame, belongs to no
\* track just made outside the first frames, and never comes back after its
\* patience, whatever the backends match and however often they are switched.
THEOREM Keeps_Contract == Spec => KeepsContract
<1>1. Init => Contract!Init
  BY TInit
<1>2. TInv /\ [Next]_vars => [Contract!Next]_(Contract!vars)
  BY TStep
<1> QED BY <1>1, <1>2, TInvariant, PTL DEF Spec, KeepsContract, Contract!Spec

\* The stamp of a message is never later than its frame, also when the context
\* found under its number is one of an earlier start of perception.
THEOREM Stamp_Not_Newer == Spec => []StampNotNewer
<1>1. TInv => StampNotNewer
  BY DEF TInv, MessageOK, StampNotNewer
<1> QED BY <1>1, TInvariant, PTL

\* Whatever the backend, the lists, the histories, the gallery and the contexts
\* of the frames fit together after every step.
THEOREM Tables_Consistent == Spec => []TablesConsistent
<1>1. ASSUME TInv PROVE TablesConsistent
  <2>1. TypeOK
    <3>1. DOMAIN gallery \subseteq Ids
      BY <1>1 DEF TInv, GalleryOK
    <3>2. \A i \in 1 .. Len(order) : order[i] \in 1 .. MaxTime
      <4>1. order \in Seq(1 .. MaxTime)
        BY <1>1 DEF TInv, ContextOK
      <4> QED BY <4>1, ElementFacts
    <3>3. TableOK /\ ImagesOK
      BY <1>1 DEF TInv
    <3> QED BY <3>1, <3>2, <3>3 DEF TypeOK, TableOK, ImagesOK
  <2>2. RemovedIsLeaving
    BY <1>1 DEF RemovedIsLeaving, TInv, TracksOK, TrackOK, ListsOK, InList
  <2>3. HistoryOfEveryFrame
    BY <1>1 DEF HistoryOfEveryFrame, TInv, TracksOK, TrackOK, HistoryOK
  <2>4. GalleryIsComplete
    BY <1>1 DEF GalleryIsComplete, TInv, GalleryOK
  <2>5. ContextIsQueued
    BY <1>1 DEF ContextIsQueued, TInv, ContextOK, Listed
  <2> QED BY <2>1, <2>2, <2>3, <2>4, <2>5 DEF TablesConsistent
<1> QED BY <1>1, TInvariant, PTL
=============================================================================
