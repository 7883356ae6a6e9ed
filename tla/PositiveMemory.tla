--------------------------- MODULE PositiveMemory ---------------------------
(***************************************************************************)
(* What TIM-MARS remembers of the selected person's appearance             *)
(* (positive_appearance_memory.py), in the protected mode of the           *)
(* canonical configuration: the operator's anchor, the gallery learned     *)
(* under trust, the adaptive prototype, and the lineage that says whether  *)
(* the followed track may teach any of them.                               *)
(*                                                                         *)
(* An embedding is one of a few looks; Sim is the cosine similarity of two *)
(* looks in percent.  A running average keeps its look or takes the new    *)
(* one, as the caller's blend says.  The operators Careless... are coding  *)
(* mistakes that one of the properties notices, not the code; so is        *)
(* KeepEverything.                                                         *)
(***************************************************************************)
EXTENDS Integers, Sequences, FiniteSetsExt

CONSTANTS
  Looks,   \* what an embedding may look like
  Sim,     \* similarity of two looks, in percent
  Cfg      \* TargetMemoryConfig: thresholds in percent, frames as counts

None == "none"   \* no embedding
NoId == 0        \* no track

ASSUME SimAssumption ==
  /\ None \notin Looks
  /\ Sim \in [Looks \X Looks -> 0 .. 100]
  /\ \A a, b \in Looks : Sim[<<a, b>>] = Sim[<<b, a>>]
  /\ \A a \in Looks : Sim[<<a, a>>] = 100

\* The best similarity of a look to a set of stored ones, 0 with nothing stored.
BestSim(stored, look) ==
  IF look = None \/ stored = {} THEN 0
  ELSE Max({Sim[<<s, look>>] : s \in stored})

Entries(s) == {s[i] : i \in DOMAIN s}
Stored(look) == IF look = None THEN {} ELSE {look}

KeepEverything(s, n) == s

KeepNewest(s, n) == IF Len(s) > n THEN SubSeq(s, Len(s) - n + 1, Len(s)) ELSE s

-----------------------------------------------------------------------------
EmptyPositive ==
  [anchor |-> None, gallery |-> <<>>, adaptive |-> None, operator |-> NoId,
   lineage |-> NoId, supported |-> FALSE, trusted |-> FALSE, streak |-> 0]

SelectOperator(id, look) ==
  [EmptyPositive EXCEPT !.operator = id, !.lineage = id, !.supported = TRUE,
     !.anchor = look, !.adaptive = look, !.streak = IF look = None THEN 0 ELSE 1]

HasAny(p) == p.anchor # None \/ p.gallery # <<>> \/ p.adaptive # None

\* The support a look has: a recovery is judged by the protected memory alone.
Support(p, look, protectedOnly) ==
  LET anchor    == BestSim(Stored(p.anchor), look)
      gallery   == BestSim(Entries(p.gallery), look)
      adaptive  == BestSim(Stored(p.adaptive), look)
      protected == Max({anchor, gallery})
      byMemory  == IF protected = 0 THEN None
                   ELSE IF gallery > anchor THEN "gallery" ELSE "anchor"
  IN IF ~protectedOnly /\ adaptive > protected
     THEN [sim |-> adaptive, source |-> "adaptive", anchor |-> anchor, protected |-> protected]
     ELSE [sim |-> protected, source |-> byMemory, anchor |-> anchor, protected |-> protected]

CarelessObservePresence(p, present) == p

\* Before the anchor exists, one update without the operator's track ends the
\* operator's lineage.
ObservePresence(p, present) ==
  IF p.anchor # None \/ p.operator = NoId \/ present THEN p
  ELSE [p EXCEPT !.supported = FALSE, !.trusted = FALSE, !.streak = 0]

CarelessBeginLineage(p, id, supported) == p

BeginLineage(p, id, supported) ==
  [p EXCEPT !.lineage = id, !.supported = supported, !.trusted = FALSE, !.streak = 0]

\* The first anchor comes from the operator's unbroken lineage only.
Bootstraps(p, id, look) ==
  /\ p.anchor = None /\ look # None
  /\ p.operator = id /\ p.lineage = id /\ p.supported

Bootstrap(p, look) ==
  [p EXCEPT !.anchor = look, !.adaptive = look, !.trusted = FALSE, !.streak = 1]

\* Trust takes a number of eligible locked updates; past it the streak is moot.
ObserveLocked(p, id) ==
  IF p.lineage # id \/ ~p.supported THEN [p EXCEPT !.trusted = FALSE, !.streak = 0]
  ELSE LET streak == p.streak + 1
       IN [p EXCEPT !.streak = streak, !.trusted = @ \/ streak >= Cfg.lockFrames]

\* A look too near the anchor or the gallery adds nothing to the gallery.
UpdateTrusted(p, look, blend) ==
  LET known == BestSim(Stored(p.anchor) \cup Entries(p.gallery), look)
  IN [p EXCEPT
        !.adaptive = IF @ = None \/ blend THEN look ELSE @,
        !.gallery = IF known < 98 THEN KeepNewest(Append(@, look), Cfg.galleryMax) ELSE @]

\* One eligible observation of the accepted track.
Learn(p, id, look, blend) ==
  IF Bootstraps(p, id, look) THEN Bootstrap(p, look)
  ELSE LET q == IF p.trusted THEN p ELSE ObserveLocked(p, id)
       IN IF q.trusted THEN UpdateTrusted(q, look, blend) ELSE q

=============================================================================
