-------------------------- MODULE TargetMemoryProofs --------------------------
(***************************************************************************)
(* Proofs about TargetMemory, for every configuration, every set of looks  *)
(* with any similarities, and messages with any number of tracks.  IInv    *)
(* is about the target, its probation and the positive memory; MInv, which *)
(* rests on it, about the sizes and the negative memory.                   *)
(***************************************************************************)
EXTENDS TargetMemory, FiniteSetTheorems, WellFoundedInduction, TLAPS

(* The best of finitely many.                                              *)

LEMMA TopExists ==
  ASSUME NEW S, IsFiniteSet(S), S # {}, NEW R,
         \A x, y \in S : x = y \/ <<x, y>> \in R \/ <<y, x>> \in R,
         \A x, y, z \in S : <<x, y>> \in R /\ <<y, z>> \in R => <<x, z>> \in R,
         \A x \in S : <<x, x>> \notin R
  PROVE  \E x \in S : \A y \in S \ {x} : <<x, y>> \in R
<1> DEFINE B(x) == {y \in S : <<y, x>> \in R}
           T == {B(x) : x \in S}
<1>1. T \subseteq SUBSET S /\ T # {}
  <2>1. \A x \in S : B(x) \in T /\ B(x) \subseteq S
    OBVIOUS
  <2>2. \A m \in T : m \subseteq S
    OBVIOUS
  <2> HIDE DEF T, B
  <2> QED BY <2>1, <2>2
<1>2. IsWellFoundedOn(StrictSubsetOrdering(S), SUBSET S)
  BY FS_StrictSubsetOrderingWellFounded, FS_FiniteSubsetsOfFinite
<1>3. PICK m \in T : \A n \in T : <<n, m>> \notin StrictSubsetOrdering(S)
  <2> HIDE DEF T
  <2> QED BY <1>1, <1>2, WFMin
<1>4. PICK x \in S : m = B(x)
  OBVIOUS
<1>5. ASSUME NEW y \in S \ {x}, <<y, x>> \in R PROVE FALSE
  <2>1. B(y) \subseteq B(x) /\ y \in B(x) /\ y \notin B(y)
    BY <1>5
  <2>2. <<B(y), B(x)>> \in StrictSubsetOrdering(S)
    <3> HIDE DEF B
    <3>1. B(x) \subseteq S /\ B(y) \subseteq S
      BY DEF B
    <3> QED BY <2>1, <3>1 DEF StrictSubsetOrdering
  <2> QED BY <1>3, <1>4, <2>2
<1> QED BY <1>5

LEMMA MaxExists ==
  ASSUME NEW S, S # {}, IsFiniteSet(S), \A x \in S : x \in Int
  PROVE  \E x \in S : \A y \in S : x >= y
<1> DEFINE R == {p \in S \X S : p[1] > p[2]}
<1>1. \A x, y \in S : <<x, y>> \in R <=> x > y
  OBVIOUS
<1> HIDE DEF R
<1>2. ASSUME NEW x \in S, NEW y \in S PROVE x = y \/ <<x, y>> \in R \/ <<y, x>> \in R
  <2>1. x \in Int /\ y \in Int
    OBVIOUS
  <2>2. x = y \/ x > y \/ y > x
    BY <2>1
  <2> QED BY <1>1, <2>2
<1>3. ASSUME NEW x \in S, NEW y \in S, NEW z \in S, <<x, y>> \in R, <<y, z>> \in R
      PROVE  <<x, z>> \in R
  BY <1>1, <1>3
<1>4. \A x \in S : <<x, x>> \notin R
  BY <1>1
<1>5. PICK x \in S : \A y \in S \ {x} : <<x, y>> \in R
  BY <1>2, <1>3, <1>4, TopExists
<1>6. ASSUME NEW y \in S PROVE x >= y
  <2>1. x \in Int /\ y \in Int
    OBVIOUS
  <2>2. x = y \/ x > y
    BY <1>1, <1>5
  <2> QED BY <2>1, <2>2
<1> QED BY <1>6

LEMMA MaxOfNaturals ==
  ASSUME NEW S, S # {}, NEW n \in Nat, S \subseteq 0 .. n
  PROVE  Max(S) \in S /\ \A y \in S : Max(S) >= y
<1>1. S \in SUBSET Nat /\ \A s \in S : s <= n
  OBVIOUS
<1>2. IsFiniteSet(S)
  BY <1>1, FS_BoundedSetOfNaturals
<1>3. \A x \in S : x \in Int
  BY <1>1
<1>4. \E x \in S : \A y \in S : x >= y
  BY <1>2, <1>3, MaxExists
<1> QED BY <1>4 DEF Max

(* The least of a set of naturals.                                         *)

LEMMA LeastNatural ==
  ASSUME NEW T, T \subseteq Nat, T # {}
  PROVE  \E m \in T : \A k \in T : m <= k
<1>1. PICK m \in T : \A k \in T : <<k, m>> \notin OpToRel(<, Nat)
  BY NatLessThanWellFounded, WFMin
<1>2. \A k \in T : ~(k < m)
  <2>1. ASSUME NEW k \in T, k < m PROVE FALSE
    <3>1. k \in Nat /\ m \in Nat
      OBVIOUS
    <3>2. <<k, m>> \in OpToRel(<, Nat)
      BY <2>1, <3>1 DEF OpToRel
    <3> QED BY <1>1, <3>2
  <2> QED BY <2>1
<1>3. \A k \in T : m <= k
  BY <1>2
<1> QED BY <1>3

LEMMA MinOfNaturals ==
  ASSUME NEW T, T \subseteq Nat, T # {}
  PROVE  Min(T) \in T
<1>1. \E m \in T : \A k \in T : m <= k
  BY LeastNatural
<1> QED BY <1>1 DEF Min

-----------------------------------------------------------------------------
(* Parts of sequences.                                                     *)

LEMMA KeepNewestFacts ==
  ASSUME NEW S, NEW s \in Seq(S), NEW n \in Nat
  PROVE  /\ KeepNewest(s, n) \in Seq(S)
         /\ Len(KeepNewest(s, n)) <= n
         /\ Entries(KeepNewest(s, n)) \subseteq Entries(s)
<1>1. Len(s) \in Nat /\ DOMAIN s = 1 .. Len(s)
  OBVIOUS
<1>2. CASE Len(s) > n
  <2> DEFINE r == SubSeq(s, Len(s) - n + 1, Len(s))
  <2>1. \A i \in Len(s) - n + 1 .. Len(s) : s[i] \in S
    BY <1>1, <1>2
  <2>2. r \in Seq(S) /\ Len(r) = n /\ \A i \in 1 .. n : r[i] = s[Len(s) - n + i]
    BY <1>1, <1>2, <2>1
  <2>3. KeepNewest(s, n) = r
    BY <1>2 DEF KeepNewest
  <2> HIDE DEF r
  <2>4. ASSUME NEW i \in DOMAIN r PROVE r[i] \in Entries(s)
    <3>1. i \in 1 .. n /\ r[i] = s[Len(s) - n + i]
      BY <2>2
    <3>2. Len(s) - n + i \in DOMAIN s
      BY <1>1, <1>2, <3>1
    <3> QED BY <3>1, <3>2 DEF Entries
  <2> QED BY <2>2, <2>3, <2>4 DEF Entries
<1>3. CASE ~(Len(s) > n)
  <2>1. KeepNewest(s, n) = s
    BY <1>3 DEF KeepNewest
  <2> QED BY <1>1, <1>3, <2>1
<1> QED BY <1>2, <1>3

\* The prefixes of Kept, up to the N-th.
KeptUpTo(s, I, N, f) ==
  f = [n \in 0 .. N |->
         IF n = 0 THEN <<>> ELSE IF n \in I THEN Append(f[n - 1], s[n]) ELSE f[n - 1]]

LEMMA KeptExists ==
  ASSUME NEW s, NEW I, NEW N \in Nat
  PROVE  \E f : KeptUpTo(s, I, N, f)
<1> DEFINE T == {n \in Nat : ~\E f : KeptUpTo(s, I, n, f)}
<1>1. ASSUME T # {} PROVE FALSE
  <2>1. PICK m \in T : \A k \in T : m <= k
    BY <1>1, LeastNatural
  <2>2. m \in Nat /\ ~\E f : KeptUpTo(s, I, m, f)
    OBVIOUS
  <2>3. CASE m = 0
    <3> DEFINE f == [n \in 0 .. 0 |-> <<>>]
    <3>1. f = [n \in 0 .. 0 |->
                 IF n = 0 THEN <<>> ELSE IF n \in I THEN Append(f[n - 1], s[n]) ELSE f[n - 1]]
      OBVIOUS
    <3>2. KeptUpTo(s, I, 0, f)
      BY <3>1 DEF KeptUpTo
    <3> QED BY <2>2, <2>3, <3>2
  <2>4. CASE m > 0
    <3>1. m - 1 \in Nat /\ m - 1 \notin T
      BY <2>1, <2>2, <2>4
    <3>2. PICK g : KeptUpTo(s, I, m - 1, g)
      BY <3>1
    <3> DEFINE f == [n \in 0 .. m |-> IF n < m THEN g[n]
                                      ELSE IF n \in I THEN Append(g[n - 1], s[n]) ELSE g[n - 1]]
    <3>3. ASSUME NEW n \in 0 .. m
          PROVE  f[n] = IF n = 0 THEN <<>> ELSE IF n \in I THEN Append(f[n - 1], s[n]) ELSE f[n - 1]
      <4>1. CASE n < m
        <5>1. n \in 0 .. m - 1
          BY <2>2, <4>1
        <5>2. g[n] = IF n = 0 THEN <<>> ELSE IF n \in I THEN Append(g[n - 1], s[n]) ELSE g[n - 1]
          BY <3>2, <5>1 DEF KeptUpTo
        <5>3. f[n] = g[n] /\ (n # 0 => f[n - 1] = g[n - 1])
          BY <2>2, <4>1
        <5> HIDE DEF f
        <5> QED BY <5>2, <5>3
      <4>2. CASE n = m
        <5>1. f[n - 1] = g[n - 1] /\ n # 0
          BY <2>2, <2>4, <4>2
        <5>2. f[n] = IF n \in I THEN Append(g[n - 1], s[n]) ELSE g[n - 1]
          BY <2>2, <4>2
        <5> HIDE DEF f
        <5> QED BY <5>1, <5>2
      <4> QED BY <2>2, <4>1, <4>2
    <3>4. f = [n \in 0 .. m |-> f[n]]
      OBVIOUS
    <3> HIDE DEF f
    <3>5. KeptUpTo(s, I, m, f)
      BY <3>3, <3>4, Zenon DEF KeptUpTo
    <3> QED BY <2>2, <3>5
  <2> QED BY <2>2, <2>3, <2>4
<1> QED BY <1>1

LEMMA KeptFacts ==
  ASSUME NEW S, NEW s \in Seq(S), NEW I
  PROVE  /\ Kept(s, I) \in Seq(S)
         /\ Len(Kept(s, I)) <= Len(s)
         /\ \A x \in Entries(Kept(s, I)) : \E i \in DOMAIN s : i \in I /\ x = s[i]
<1> DEFINE f == CHOOSE g : KeptUpTo(s, I, Len(s), g)
           From(r, n) == \A i \in 1 .. Len(r) : \E j \in 1 .. n : j \in I /\ r[i] = s[j]
           Good(n) == f[n] \in Seq(S) /\ Len(f[n]) <= n /\ From(f[n], n)
           T == {n \in 0 .. Len(s) : ~Good(n)}
<1>1. Len(s) \in Nat /\ DOMAIN s = 1 .. Len(s) /\ \A i \in 1 .. Len(s) : s[i] \in S
  OBVIOUS
<1>2. KeptUpTo(s, I, Len(s), f)
  <2>1. \E g : KeptUpTo(s, I, Len(s), g)
    BY <1>1, KeptExists
  <2> QED BY <2>1
<1>3. Kept(s, I) = f[Len(s)]
  BY DEF Kept, KeptUpTo
<1> HIDE DEF f
<1>4. \A n \in 0 .. Len(s) :
        f[n] = IF n = 0 THEN <<>> ELSE IF n \in I THEN Append(f[n - 1], s[n]) ELSE f[n - 1]
  BY <1>2 DEF KeptUpTo
<1>5. ASSUME T # {} PROVE FALSE
  <2>0. T \subseteq Nat
    <3> HIDE DEF Good
    <3> QED BY <1>1
  <2>1. PICK m \in T : \A k \in T : m <= k
    <3> HIDE DEF T
    <3> QED BY <1>5, <2>0, LeastNatural
  <2>2. m \in 0 .. Len(s) /\ ~Good(m)
    OBVIOUS
  <2>3. CASE m = 0
    <3>1. f[0] = <<>>
      BY <1>1, <1>4
    <3>2. <<>> \in Seq(S) /\ Len(<<>>) = 0
      OBVIOUS
    <3> QED BY <2>2, <2>3, <3>1, <3>2
  <2>4. CASE m > 0
    <3> DEFINE r == f[m - 1]
    <3>1. m \in Nat /\ m - 1 \in 0 .. Len(s) /\ m \in 1 .. Len(s)
      BY <1>1, <2>2, <2>4
    <3>2. m - 1 \notin T
      BY <2>1, <3>1
    <3>3. r \in Seq(S) /\ Len(r) <= m - 1 /\ From(r, m - 1)
      BY <3>1, <3>2
    <3>4. f[m] = IF m \in I THEN Append(r, s[m]) ELSE r
      BY <1>4, <3>1
    <3> HIDE DEF r, T
    <3>5. CASE m \notin I
      <4>1. From(r, m)
        BY <3>1, <3>3
      <4> QED BY <2>2, <3>1, <3>3, <3>4, <3>5, <4>1
    <3>6. CASE m \in I
      <4> DEFINE a == Append(r, s[m])
      <4>1. a \in Seq(S) /\ Len(a) = Len(r) + 1 /\ Len(r) \in Nat
        BY <1>1, <3>1, <3>3
      <4>2. \A i \in 1 .. Len(r) : a[i] = r[i]
        BY <3>3
      <4>3. a[Len(r) + 1] = s[m]
        BY <3>3
      <4>4. ASSUME NEW i \in 1 .. Len(a) PROVE \E j \in 1 .. m : j \in I /\ a[i] = s[j]
        <5>1. CASE i = Len(r) + 1
          BY <3>1, <3>6, <4>3, <5>1
        <5>2. CASE i # Len(r) + 1
          <6>1. i \in 1 .. Len(r)
            BY <4>1, <5>2
          <6>2. PICK j \in 1 .. m - 1 : j \in I /\ r[i] = s[j]
            BY <3>3, <6>1
          <6> QED BY <3>1, <4>2, <6>1, <6>2
        <5> QED BY <5>1, <5>2
      <4>5. f[m] = a
        BY <3>4, <3>6
      <4> HIDE DEF a
      <4>6. From(a, m)
        BY <4>4
      <4> HIDE DEF From
      <4> QED BY <2>2, <3>1, <3>3, <4>1, <4>5, <4>6
    <3> QED BY <3>5, <3>6
  <2> QED BY <1>1, <2>2, <2>3, <2>4
<1>6. Good(Len(s))
  BY <1>1, <1>5
<1> HIDE DEF T
<1>7. f[Len(s)] \in Seq(S) /\ Len(f[Len(s)]) <= Len(s) /\ From(f[Len(s)], Len(s))
  BY <1>6
<1> DEFINE r == Kept(s, I)
<1>8. r \in Seq(S) /\ Len(r) <= Len(s) /\ From(r, Len(s))
  <2> HIDE DEF From, r
  <2>1. r = f[Len(s)]
    BY <1>3 DEF r
  <2> QED BY <1>7, <2>1
<1> HIDE DEF r
<1>9. ASSUME NEW x \in Entries(r) PROVE \E i \in DOMAIN s : i \in I /\ x = s[i]
  <2>1. PICK i \in 1 .. Len(r) : x = r[i]
    BY <1>8 DEF Entries
  <2> QED BY <1>1, <1>8, <2>1
<1>10. r \in Seq(S) /\ Len(r) <= Len(s)
  BY <1>8
<1> HIDE DEF From, Good
<1> QED BY <1>9, <1>10 DEF r

-----------------------------------------------------------------------------
(* Scores.                                                                 *)

PositiveOK(p) ==
  p \in [anchor : Looks \cup {None}, gallery : Seq(Looks), adaptive : Looks \cup {None},
         operator : TrackIds \cup {NoId}, lineage : TrackIds \cup {NoId},
         supported : BOOLEAN, trusted : BOOLEAN, streak : Nat]

\* Nothing protected is remembered yet.
Anchorless(p) == p.anchor = None /\ p.gallery = <<>>

LEMMA BestSimType ==
  ASSUME NEW stored, stored \subseteq Looks, NEW look \in Looks \cup {None}
  PROVE  BestSim(stored, look) \in 0 .. 100
<1>1. CASE look = None \/ stored = {}
  BY <1>1 DEF BestSim
<1>2. CASE look # None /\ stored # {}
  <2> DEFINE V == {Sim[<<s, look>>] : s \in stored}
  <2>1. \A s \in stored : Sim[<<s, look>>] \in 0 .. 100
    BY <1>2, SimAssumption, SMTT(30) DEF SimAssumption
  <2>3. V \subseteq 0 .. 100
    BY <2>1
  <2>2. V # {}
    BY <1>2
  <2> HIDE DEF V
  <2>4. Max(V) \in 0 .. 100
    BY <2>3, <2>2, MaxOfNaturals
  <2> QED BY <1>2, <2>4 DEF V, BestSim
<1> QED BY <1>1, <1>2

LEMMA SupportFacts ==
  ASSUME NEW p, PositiveOK(p), NEW look \in Looks \cup {None}, NEW only \in BOOLEAN
  PROVE  LET s == Support(p, look, only) IN
         /\ s.sim \in Nat
         /\ only => s.sim = s.protected
         /\ Anchorless(p) => s.source \notin {"anchor", "gallery"}
<1> DEFINE anchor    == BestSim(Stored(p.anchor), look)
           gallery   == BestSim(Entries(p.gallery), look)
           adaptive  == BestSim(Stored(p.adaptive), look)
           protected == Max({anchor, gallery})
           byMemory  == IF protected = 0 THEN None
                        ELSE IF gallery > anchor THEN "gallery" ELSE "anchor"
<1>1. anchor \in 0 .. 100 /\ adaptive \in 0 .. 100
  BY BestSimType DEF PositiveOK, Stored
<1>2. gallery \in 0 .. 100
  <2>1. \A i \in DOMAIN p.gallery : p.gallery[i] \in Looks
    BY DEF PositiveOK
  <2>2. Entries(p.gallery) \subseteq Looks
    BY <2>1 DEF Entries
  <2> QED BY <2>2, BestSimType
<1>3. Anchorless(p) => anchor = 0 /\ gallery = 0
  BY DEF Anchorless, BestSim, Stored, Entries
<1> HIDE DEF anchor, gallery, adaptive
<1>4. protected \in {anchor, gallery}
  BY <1>1, <1>2, MaxOfNaturals
<1>5. Anchorless(p) => byMemory = None
  BY <1>3, <1>4
<1> HIDE DEF protected, byMemory
<1>6. Support(p, look, only) =
        IF ~only /\ adaptive > protected
        THEN [sim |-> adaptive, source |-> "adaptive", anchor |-> anchor, protected |-> protected]
        ELSE [sim |-> protected, source |-> byMemory, anchor |-> anchor, protected |-> protected]
  BY DEF Support, anchor, gallery, adaptive, protected, byMemory
<1> QED BY <1>1, <1>2, <1>4, <1>5, <1>6 DEF None

\* What every score of a track of the scene has, whatever proposed it.
ScoreOK(s, scene) ==
  /\ \E c \in scene.seen : s.id = c.id
  /\ s.ranking \in Int /\ s.app \in Int /\ s.geo \in Int
  /\ s.distance \in Int /\ s.scale \in Int
  /\ s.id # target.id => s.app = s.protected
  /\ Anchorless(positive) => s.source \notin {"anchor", "gallery"}

LEMMA ScoreOfOK ==
  ASSUME NEW scene \in Scenes, NEW c \in scene.seen, PositiveOK(positive),
         NEW use \in BOOLEAN, NEW bypass \in BOOLEAN
  PROVE  ScoreOf(c, use, bypass).id = c.id /\ ScoreOK(ScoreOf(c, use, bypass), scene)
<1> DEFINE g     == Geo[c.geo]
           allows == bypass \/ GeometryAllows(g)
           look  == IF allows THEN c.look ELSE None
           only  == ~IsTarget(c) \/ LostIsh
           sup   == Support(positive, look, only)
           evaluated == look # None /\ HasAny(positive)
           hostile   == NegativeSim(negative, look)
<1>1. look \in Looks \cup {None} /\ only \in BOOLEAN
  BY SceneAssumption DEF SceneAssumption
<1>2. g.score \in Int /\ g.distance \in Int /\ g.scale \in Int
  BY SceneAssumption, GateAssumption DEF SceneAssumption, GateAssumption
<1>3. ScoreOf(c, use, bypass) = Scored(c, g, use, allows, evaluated, sup, hostile)
  BY DEF ScoreOf, Compared
<1> HIDE DEF g, allows, look, only, evaluated, hostile
<1>4. /\ sup.sim \in Nat
      /\ only => sup.sim = sup.protected
      /\ Anchorless(positive) => sup.source \notin {"anchor", "gallery"}
  BY <1>1, SupportFacts
<1> HIDE DEF sup
<1>5. Cfg.appearanceWeight * sup.sim \in Int
  BY <1>4, ConfigAssumption DEF ConfigAssumption
<1>6. c.id # target.id => only
  BY DEF only, IsTarget
<1> QED BY <1>2, <1>3, <1>4, <1>5, <1>6 DEF Scored, ScoreOK

-----------------------------------------------------------------------------
(* Proposals.                                                              *)

\* The scores of all the tracks of a scene.
ScoresOK(S, scene) ==
  /\ IsFiniteSet(S)
  /\ \A s \in S : ScoreOK(s, scene)
  /\ \A s, t \in S : s.id = t.id => s = t

LEMMA ScoreNumbers ==
  ASSUME NEW scene \in Scenes, NEW S, ScoresOK(S, scene), NEW s \in S
  PROVE  /\ s.ranking \in Int /\ s.app \in Int /\ s.geo \in Int
         /\ s.distance \in Int /\ s.scale \in Int /\ s.id \in Int
<1>1. TrackIds \subseteq Nat /\ \A c \in scene.seen : c.id \in TrackIds
  BY GateAssumption, SceneAssumption DEF GateAssumption, SceneAssumption
<1>2. ScoreOK(s, scene)
  BY DEF ScoresOK
<1>3. PICK c \in scene.seen : s.id = c.id
  BY <1>2 DEF ScoreOK
<1>4. c.id \in Nat
  BY <1>1, Zenon
<1> QED BY <1>2, <1>3, <1>4 DEF ScoreOK

LEMMA RanksOrders ==
  ASSUME NEW scene \in Scenes, NEW S, ScoresOK(S, scene)
  PROVE  /\ \A x, y \in S : x = y \/ Ranks(x, y) \/ Ranks(y, x)
         /\ \A x, y, z \in S : Ranks(x, y) /\ Ranks(y, z) => Ranks(x, z)
         /\ \A x \in S : ~Ranks(x, x)
<1>1. \A s \in S : s.ranking \in Int /\ s.id \in Int
  BY ScoreNumbers
<1>2. \A s, t \in S : s.id = t.id => s = t
  BY DEF ScoresOK
<1>3. ASSUME NEW x \in S, NEW y \in S PROVE x = y \/ Ranks(x, y) \/ Ranks(y, x)
  BY <1>1, <1>2 DEF Ranks
<1>4. ASSUME NEW x \in S, NEW y \in S, NEW z \in S, Ranks(x, y), Ranks(y, z)
      PROVE  Ranks(x, z)
  BY <1>1, <1>4 DEF Ranks
<1>5. ASSUME NEW x \in S, Ranks(x, x) PROVE FALSE
  BY <1>1, <1>5 DEF Ranks
<1> QED BY <1>3, <1>4, <1>5

\* The three orders in which a best score is looked for are total.
LEMMA Orders ==
  ASSUME NEW scene \in Scenes, NEW S, S # {}, ScoresOK(S, scene)
  PROVE  /\ Top(S, Ranks) \in S
         /\ Top(S, MoreAlike) \in S
         /\ Top(S, RecoversFirst) \in S
<1>0. \A s \in S : /\ s.ranking \in Int /\ s.app \in Int /\ s.geo \in Int
                   /\ s.distance \in Int /\ s.scale \in Int /\ s.id \in Int
  BY ScoreNumbers
<1>1. \A s, t \in S : s.id = t.id => s = t
  BY DEF ScoresOK
<1>2. IsFiniteSet(S)
  BY DEF ScoresOK
<1>3. Top(S, Ranks) \in S
  <2> DEFINE R == {p \in S \X S : Ranks(p[1], p[2])}
  <2>1. \A x, y \in S : <<x, y>> \in R <=> Ranks(x, y)
    OBVIOUS
  <2> HIDE DEF R
  <2>2. /\ \A x, y \in S : x = y \/ Ranks(x, y) \/ Ranks(y, x)
        /\ \A x, y, z \in S : Ranks(x, y) /\ Ranks(y, z) => Ranks(x, z)
        /\ \A x \in S : ~Ranks(x, x)
    BY RanksOrders
  <2>5. PICK x \in S : \A y \in S \ {x} : <<x, y>> \in R
    BY <1>2, <2>1, <2>2, TopExists
  <2>6. \A y \in S \ {x} : Ranks(x, y)
    BY <2>1, <2>5
  <2> QED BY <2>6 DEF Top
<1>4. Top(S, MoreAlike) \in S
  <2> DEFINE R == {p \in S \X S : MoreAlike(p[1], p[2])}
  <2>1. \A x, y \in S : <<x, y>> \in R <=> MoreAlike(x, y)
    OBVIOUS
  <2> HIDE DEF R
  <2>2. ASSUME NEW x \in S, NEW y \in S PROVE x = y \/ MoreAlike(x, y) \/ MoreAlike(y, x)
    BY <1>0, <1>1 DEF MoreAlike
  <2>3. ASSUME NEW x \in S, NEW y \in S, NEW z \in S, MoreAlike(x, y), MoreAlike(y, z)
        PROVE  MoreAlike(x, z)
    BY <1>0, <2>3 DEF MoreAlike
  <2>4. ASSUME NEW x \in S, MoreAlike(x, x) PROVE FALSE
    BY <1>0, <2>4 DEF MoreAlike
  <2>5. PICK x \in S : \A y \in S \ {x} : <<x, y>> \in R
    BY <1>2, <2>1, <2>2, <2>3, <2>4, TopExists
  <2>6. \A y \in S \ {x} : MoreAlike(x, y)
    BY <2>1, <2>5
  <2> QED BY <2>6 DEF Top
<1>5. Top(S, RecoversFirst) \in S
  <2> DEFINE R == {p \in S \X S : RecoversFirst(p[1], p[2])}
  <2>1. \A x, y \in S : <<x, y>> \in R <=> RecoversFirst(x, y)
    OBVIOUS
  <2> HIDE DEF R
  <2>2. ASSUME NEW x \in S, NEW y \in S PROVE x = y \/ RecoversFirst(x, y) \/ RecoversFirst(y, x)
    BY <1>0, <1>1 DEF RecoversFirst, Ranks
  <2>3. ASSUME NEW x \in S, NEW y \in S, NEW z \in S, RecoversFirst(x, y), RecoversFirst(y, z)
        PROVE  RecoversFirst(x, z)
    BY <1>0, <2>3 DEF RecoversFirst, Ranks
  <2>4. ASSUME NEW x \in S, RecoversFirst(x, x) PROVE FALSE
    BY <1>0, <2>4 DEF RecoversFirst, Ranks
  <2>5. PICK x \in S : \A y \in S \ {x} : <<x, y>> \in R
    BY <1>2, <2>1, <2>2, <2>3, <2>4, TopExists
  <2>6. \A y \in S \ {x} : RecoversFirst(x, y)
    BY <2>1, <2>5
  <2> QED BY <2>6 DEF Top
<1> QED BY <1>3, <1>4, <1>5

LEMMA AllScored ==
  ASSUME NEW scene \in Scenes, scene.seen # {}, PositiveOK(positive),
         NEW use \in BOOLEAN, NEW bypass \in BOOLEAN
  PROVE  LET S == {ScoreOf(c, use, bypass) : c \in scene.seen} IN ScoresOK(S, scene) /\ S # {}
<1> DEFINE S == {ScoreOf(c, use, bypass) : c \in scene.seen}
           f == [c \in scene.seen |-> ScoreOf(c, use, bypass)]
<1>1. IsFiniteSet(scene.seen)
  BY SceneAssumption DEF SceneAssumption
<1>2. f \in Surjection(scene.seen, S)
  BY DEF Surjection
<1>3. IsFiniteSet(S)
  <2> HIDE DEF S, f
  <2> QED BY <1>1, <1>2, FS_Surjection
<1>4. \A c \in scene.seen : /\ ScoreOf(c, use, bypass).id = c.id
                            /\ ScoreOK(ScoreOf(c, use, bypass), scene)
  BY ScoreOfOK
<1>5. \A s \in S : ScoreOK(s, scene)
  BY <1>4
<1>6. \A s, t \in S : s.id = t.id => s = t
  BY <1>4, SceneAssumption DEF SceneAssumption
<1>7. S # {}
  OBVIOUS
<1> QED BY <1>3, <1>5, <1>6, <1>7 DEF ScoresOK

\* A proposal is about a track of the scene, and comes with the scores of all.
ProposalOK(p, scene) ==
  p.id = p.score.id /\ ScoreOK(p.score, scene) /\ ScoresOK(p.all, scene)

LEMMA Subscores ==
  ASSUME NEW scene \in Scenes, NEW S, ScoresOK(S, scene), NEW T, T \subseteq S
  PROVE  ScoresOK(T, scene)
BY FS_Subset DEF ScoresOK

\* Each place is taken by the score with as many better ones as places before it.
LEMMA InOrderType ==
  ASSUME NEW scene \in Scenes, NEW S, ScoresOK(S, scene)
  PROVE  InOrder(S) \in Seq(S)
<1> DEFINE n == Cardinality(S)
           Better(s) == {t \in S : Ranks(t, s)}
           place == [s \in S |-> Cardinality(Better(s))]
<1>1. IsFiniteSet(S) /\ n \in Nat
  BY FS_CardinalityType DEF ScoresOK
<1>2. /\ \A x, y \in S : x = y \/ Ranks(x, y) \/ Ranks(y, x)
      /\ \A x, y, z \in S : Ranks(x, y) /\ Ranks(y, z) => Ranks(x, z)
      /\ \A x \in S : ~Ranks(x, x)
  BY RanksOrders
<1>3. ASSUME NEW s \in S
      PROVE  /\ IsFiniteSet(Better(s)) /\ Cardinality(Better(s)) \in Nat
             /\ Cardinality(Better(s)) < n
  <2>1. Better(s) \subseteq S /\ s \notin Better(s)
    BY <1>2
  <2>2. Better(s) # S
    BY <2>1
  <2> HIDE DEF Better
  <2>3. IsFiniteSet(Better(s)) /\ Cardinality(Better(s)) \in Nat
    BY <1>1, <2>1, FS_Subset, FS_CardinalityType
  <2>4. Cardinality(Better(s)) <= n /\ (n = Cardinality(Better(s)) => S = Better(s))
    BY <1>1, <2>1, FS_Subset
  <2> QED BY <1>1, <2>2, <2>3, <2>4
<1>4. ASSUME NEW s \in S, NEW t \in S, Ranks(s, t)
      PROVE  Cardinality(Better(s)) < Cardinality(Better(t))
  <2>1. Better(s) \subseteq Better(t) /\ s \in Better(t) /\ s \notin Better(s)
    BY <1>2, <1>4
  <2>2. Better(s) # Better(t)
    BY <2>1
  <2> HIDE DEF Better
  <2>3. /\ Cardinality(Better(s)) <= Cardinality(Better(t))
        /\ Cardinality(Better(t)) = Cardinality(Better(s)) => Better(t) = Better(s)
    BY <1>3, <2>1, FS_Subset
  <2> QED BY <1>3, <2>2, <2>3
<1>5. place \in Injection(S, 0 .. n - 1)
  <2>1. ASSUME NEW s \in S PROVE Cardinality(Better(s)) \in 0 .. n - 1
    <3> HIDE DEF n, Better
    <3> QED BY <1>1, <1>3
  <2>2. place \in [S -> 0 .. n - 1]
    BY <2>1
  <2>3. ASSUME NEW s \in S, NEW t \in S, place[s] = place[t] PROVE s = t
    <3> HIDE DEF Better
    <3>1. /\ Cardinality(Better(s)) \in Nat /\ Cardinality(Better(t)) \in Nat
          /\ Cardinality(Better(s)) = Cardinality(Better(t))
      BY <1>3, <2>3
    <3> QED BY <1>2, <1>4, <3>1
  <2> HIDE DEF place
  <2> QED BY <2>2, <2>3 DEF Injection, IsInjective
<1>6. IsFiniteSet(0 .. n - 1) /\ Cardinality(0 .. n - 1) = n
  <2>1. 0 \in Int /\ n - 1 \in Int
    BY <1>1
  <2>2. IsFiniteSet(0 .. n - 1) /\ Cardinality(0 .. n - 1) = IF 0 > n - 1 THEN 0 ELSE n - 1 - 0 + 1
    BY <2>1, FS_Interval
  <2> QED BY <1>1, <2>2
<1>7. place \in Surjection(S, 0 .. n - 1)
  <2> HIDE DEF place
  <2>1. Cardinality(S) = Cardinality(0 .. n - 1) <=> place \in Surjection(S, 0 .. n - 1)
    BY <1>5, <1>6, FS_Injection
  <2> QED BY <1>6, <2>1
<1>8. ASSUME NEW k \in 1 .. n PROVE \E s \in S : Cardinality(Better(s)) = k - 1
  <2>1. k - 1 \in 0 .. n - 1
    BY <1>1
  <2>2. \E s \in S : place[s] = k - 1
    <3> HIDE DEF place
    <3> QED BY <1>7, <2>1 DEF Surjection
  <2> QED BY <2>2
<1>9. InOrder(S) = [k \in 1 .. n |-> CHOOSE s \in S : Cardinality(Better(s)) = k - 1]
  BY DEF InOrder
<1> HIDE DEF n, Better
<1>10. InOrder(S) \in [1 .. n -> S]
  BY <1>8, <1>9
<1> QED BY <1>1, <1>10

\* Writing the best score back with its ambiguity keeps them in order.
LEMMA WithBestOK ==
  ASSUME NEW scene \in Scenes, NEW S, S # {}, ScoresOK(S, scene)
  PROVE  /\ ScoreOK(BestOf(S), scene)
         /\ ScoresOK(WithBest(S, BestOf(S)), scene)
<1> DEFINE best == Top(S, Ranks)
           b    == BestOf(S)
           W(s) == IF s.id = b.id THEN b ELSE s
           T    == {W(s) : s \in S}
           f    == [s \in S |-> W(s)]
<1>1. best \in S
  BY Orders
<1>2. b = [best EXCEPT !.ambiguous = Ambiguous(S, best)]
  BY DEF BestOf
<1> HIDE DEF best
<1>3. ScoreOK(best, scene)
  BY <1>1 DEF ScoresOK
<1> HIDE DEF b
<1>4. /\ b.id = best.id /\ b.ranking = best.ranking /\ b.app = best.app /\ b.geo = best.geo
      /\ b.distance = best.distance /\ b.scale = best.scale /\ b.protected = best.protected
      /\ b.source = best.source
  BY <1>2
<1>5. ScoreOK(b, scene)
  BY <1>3, <1>4 DEF ScoreOK
<1>6. \A s \in S : W(s).id = s.id /\ ScoreOK(W(s), scene)
  BY <1>5 DEF ScoresOK
<1>7. \A s, t \in S : W(s).id = W(t).id => W(s) = W(t)
  BY <1>6 DEF ScoresOK
<1>8. f \in Surjection(S, T)
  BY DEF Surjection
<1>9. IsFiniteSet(T)
  <2> HIDE DEF f, T
  <2> QED BY <1>8, FS_Surjection DEF ScoresOK
<1>10. WithBest(S, b) = T
  BY DEF WithBest
<1>11. /\ \A t \in T : ScoreOK(t, scene)
       /\ \A t, u \in T : t.id = u.id => t = u
  <2> HIDE DEF W
  <2> QED BY <1>6, <1>7
<1> QED BY <1>5, <1>9, <1>10, <1>11 DEF ScoresOK, b

LEMMA ProposedOK ==
  ASSUME NEW scene \in Scenes, PositiveOK(positive), NEW p \in Proposed(scene)
  PROVE  ProposalOK(p, scene)
<1>1. scene.seen # {}
  BY DEF Proposed
<1> DEFINE use == UseAppearance(scene)
           scores == ScoresOf(scene)
           best == BestOf(scores)
           all  == WithBest(scores, best)
<1>2. use \in BOOLEAN
  BY DEF UseAppearance
<1>3. ScoresOK(scores, scene) /\ scores # {}
  BY <1>1, <1>2, AllScored DEF ScoresOf
<1> HIDE DEF use, scores
<1>4. ScoreOK(best, scene) /\ ScoresOK(all, scene)
  BY <1>3, WithBestOK
<1>5. p \in Chosen(scene, all, best)
  BY <1>1 DEF Proposed, scores
<1> HIDE DEF best, all
<1>6. CASE p \in SameIdFirst(all)
  BY <1>4, <1>6 DEF SameIdFirst, Proposal, ProposalOK, ScoresOK
<1>7. CASE p \in GlobalProposal(scene)
  <2> DEFINE G == GlobalScores(scene)
             top == Top(G, MoreAlike)
  <2>1. ScoresOK(G, scene) /\ G # {}
    BY <1>1, AllScored DEF GlobalScores
  <2> HIDE DEF G
  <2>2. top \in G
    BY <2>1, Orders
  <2> HIDE DEF top
  <2>3. p = Proposal(top, G, "global", 0)
    BY <1>7 DEF GlobalProposal, G, top
  <2> QED BY <2>1, <2>2, <2>3 DEF Proposal, ProposalOK, ScoresOK
<1>8. CASE p \in RankProposal(scene, all)
  <2> DEFINE E == Enriched(scene, all)
             top == Top(E, RecoversFirst)
             marked == [top EXCEPT !.evaluated = TRUE, !.used = TRUE]
  <2>1. E \subseteq all
    BY DEF Enriched
  <2>2. E # {} /\ p = Proposal(marked, all, "rank", Cfg.rankMinimum)
    BY <1>8 DEF RankProposal
  <2>3. ScoresOK(E, scene)
    BY <1>4, <2>1, Subscores
  <2> HIDE DEF E
  <2>4. top \in E
    BY <2>2, <2>3, Orders
  <2> HIDE DEF top
  <2>5. ScoreOK(top, scene)
    BY <2>3, <2>4 DEF ScoresOK
  <2>6. /\ marked.id = top.id /\ marked.ranking = top.ranking /\ marked.app = top.app
        /\ marked.geo = top.geo /\ marked.distance = top.distance /\ marked.scale = top.scale
        /\ marked.protected = top.protected /\ marked.source = top.source
    OBVIOUS
  <2> HIDE DEF marked
  <2>7. ScoreOK(marked, scene)
    BY <2>5, <2>6 DEF ScoreOK
  <2> QED BY <1>4, <2>2, <2>7 DEF Proposal, ProposalOK
<1>9. CASE p = NormalProposal(all, best)
  BY <1>4, <1>9 DEF NormalProposal, Proposal, ProposalOK
<1> QED BY <1>5, <1>6, <1>7, <1>8, <1>9 DEF Chosen

-----------------------------------------------------------------------------
(* What an accepted track teaches the positive memory.                     *)

\* Without an anchor nothing was learned, and support means the operator's own
\* lineage id; with trust there is support and an anchor.
Grounded(q, id) ==
  /\ q.anchor = None =>
       /\ q.gallery = <<>> /\ ~q.trusted
       /\ q.supported => q.operator = id /\ q.lineage = id
  /\ q.trusted => q.supported /\ q.anchor # None /\ q.lineage = id

LEMMA LearnFacts ==
  ASSUME NEW q, PositiveOK(q), NEW id \in TrackIds, Grounded(q, id),
         NEW look \in Looks, NEW blend \in BOOLEAN
  PROVE  LET r == Learn(q, id, look, blend) IN
         /\ PositiveOK(r) /\ Grounded(r, id)
         /\ r.operator = q.operator /\ r.supported = q.supported
         /\ r.anchor = None => q.anchor = None
         /\ r.anchor # q.anchor => q.anchor = None /\ q.operator = id /\ q.supported
<1> DEFINE o == IF q.trusted THEN q ELSE ObserveLocked(q, id)
           r == Learn(q, id, look, blend)
<1>0. look # None
  BY SimAssumption DEF SimAssumption
<1>1. CASE Bootstraps(q, id, look)
  <2>1. r = [q EXCEPT !.anchor = look, !.adaptive = look, !.trusted = FALSE, !.streak = 1]
    BY <1>1 DEF Learn, Bootstrap
  <2> HIDE DEF r
  <2>2. PositiveOK(r)
    BY <2>1 DEF PositiveOK
  <2>3. /\ r.anchor = look /\ r.trusted = FALSE /\ r.lineage = q.lineage
        /\ r.operator = q.operator /\ r.supported = q.supported
    BY <2>1 DEF PositiveOK
  <2> QED BY <1>0, <1>1, <2>2, <2>3 DEF Bootstraps, Grounded, r
<1>2. CASE ~Bootstraps(q, id, look)
  <2> DEFINE streak  == q.streak + 1
             trusted == q.trusted \/ streak >= Cfg.lockFrames
  <2>1. o = IF q.trusted THEN q
            ELSE IF q.lineage # id \/ ~q.supported
                 THEN [q EXCEPT !.trusted = FALSE, !.streak = 0]
                 ELSE [q EXCEPT !.streak = streak, !.trusted = trusted]
    BY DEF ObserveLocked, PositiveOK
  <2>2. streak \in Nat /\ trusted \in BOOLEAN
    BY DEF PositiveOK
  <2> HIDE DEF o, streak, trusted
  <2>3. PositiveOK(o)
    BY <2>1, <2>2 DEF PositiveOK
  <2>4. /\ o.anchor = q.anchor /\ o.gallery = q.gallery /\ o.lineage = q.lineage
        /\ o.operator = q.operator /\ o.supported = q.supported
        /\ o.trusted => q.trusted \/ (q.lineage = id /\ q.supported)
    BY <2>1, <2>2 DEF PositiveOK
  <2>5. Grounded(o, id)
    BY <1>0, <1>2, <2>4 DEF Grounded, Bootstraps
  <2>6. r = IF o.trusted THEN UpdateTrusted(o, look, blend) ELSE o
    BY <1>2 DEF Learn, o
  <2> HIDE DEF r
  <2>7. CASE ~o.trusted
    <3>1. r = o
      BY <2>6, <2>7
    <3> QED BY <2>3, <2>4, <2>5, <3>1 DEF r
  <2>8. CASE o.trusted
    <3> DEFINE g == IF BestSim(Stored(o.anchor) \cup Entries(o.gallery), look) < 98
                    THEN KeepNewest(Append(o.gallery, look), Cfg.galleryMax) ELSE o.gallery
               d == IF o.adaptive = None \/ blend THEN look ELSE o.adaptive
    <3>1. g \in Seq(Looks) /\ d \in Looks \cup {None}
      <4>1. o.gallery \in Seq(Looks) /\ o.adaptive \in Looks \cup {None} /\ Cfg.galleryMax \in Nat
        BY <2>3, ConfigAssumption DEF PositiveOK, ConfigAssumption
      <4>2. Append(o.gallery, look) \in Seq(Looks)
        BY <4>1
      <4> QED BY <4>1, <4>2, KeepNewestFacts
    <3>2. r = [o EXCEPT !.adaptive = d, !.gallery = g]
      BY <2>3, <2>6, <2>8 DEF UpdateTrusted, PositiveOK
    <3> HIDE DEF g, d
    <3>3. PositiveOK(r)
      BY <2>3, <3>1, <3>2 DEF PositiveOK
    <3>4. /\ r.anchor = o.anchor /\ r.trusted = o.trusted /\ r.lineage = o.lineage
          /\ r.operator = o.operator /\ r.supported = o.supported
      BY <2>3, <3>2 DEF PositiveOK
    <3>5. Grounded(r, id)
      BY <2>5, <2>8, <3>4 DEF Grounded
    <3> QED BY <2>4, <3>3, <3>4, <3>5 DEF r
  <2> QED BY <2>7, <2>8
<1> QED BY <1>1, <1>2

-----------------------------------------------------------------------------
(* The inductive invariant.                                                *)

States == {"NO_TARGET", "LOCKED", "UNCERTAIN", "LOST"}

TargetOK ==
  /\ target \in [state : States, id : TrackIds \cup {NoId}, missed : Nat]
  /\ target.state # "NO_TARGET" => target.id \in TrackIds
  /\ target.state = "LOST" => target.missed > Cfg.maxUncertain

\* The count of the candidate on probation is a count of messages without a
\* break, and what excuses a missing look was seen by the protected memory.
ProbationOK ==
  /\ persistence.count \in Nat /\ history.run \in Nat
  /\ persistence.count = 0 => ~persistence.evidence
  /\ persistence.count > 0 =>
       /\ target.state # "NO_TARGET"
       /\ history.run > 0
       /\ history.run >= persistence.count \/ history.run >= Cfg.confirmFrames
       /\ out.candidate = persistence.id
       /\ persistence.evidence /\ persistence.id # target.id => history.proven

\* Before the anchor, the operator's lineage is unbroken while it is supported.
AnchorOK ==
  /\ Grounded(positive, target.id)
  /\ positive.anchor = None =>
       /\ negative = EmptyNegative
       /\ positive.supported => history.present

IInv == PositiveOK(positive) /\ TargetOK /\ ProbationOK /\ AnchorOK

LEMMA InitInv == Init => IInv
<1> SUFFICES ASSUME Init PROVE IInv
  OBVIOUS
<1>1. PositiveOK(positive)
  BY DEF Init, PositiveOK, EmptyPositive
<1>2. TargetOK
  BY DEF Init, TargetOK, NoTarget, States
<1>3. ProbationOK
  BY DEF Init, ProbationOK, NoPersistence
<1>4. AnchorOK
  BY DEF Init, AnchorOK, Grounded, EmptyPositive
<1> QED BY <1>1, <1>2, <1>3, <1>4 DEF IInv

LEMMA SelectStep ==
  ASSUME IInv, NEW scene \in Scenes, NEW c \in scene.seen, Select(c)
  PROVE  IInv'
<1> DEFINE look == IF c.crop = "good" THEN c.look ELSE None
<1>1. c.id \in TrackIds /\ look \in Looks \cup {None}
  BY SceneAssumption DEF SceneAssumption
<1>2. /\ target' = [state |-> "LOCKED", id |-> c.id, missed |-> 0]
      /\ positive' = SelectOperator(c.id, look)
      /\ negative' = EmptyNegative /\ persistence' = NoPersistence
      /\ history' = [present |-> TRUE, run |-> 0, proven |-> FALSE, lock |-> 0]
  BY DEF Select
<1> HIDE DEF look
<1>3. positive' = [anchor |-> look, gallery |-> <<>>, adaptive |-> look, operator |-> c.id,
                   lineage |-> c.id, supported |-> TRUE, trusted |-> FALSE,
                   streak |-> IF look = None THEN 0 ELSE 1]
  BY <1>2 DEF SelectOperator, EmptyPositive
<1>4. PositiveOK(positive')
  BY <1>1, <1>3 DEF PositiveOK
<1>5. TargetOK'
  BY <1>1, <1>2 DEF TargetOK, States
<1>6. ProbationOK'
  BY <1>2 DEF ProbationOK, NoPersistence
<1>7. AnchorOK'
  BY <1>2, <1>3 DEF AnchorOK, Grounded
<1> QED BY <1>4, <1>5, <1>6, <1>7 DEF IInv

LEMMA ClearStep ==
  ASSUME IInv, Clear
  PROVE  IInv'
<1>1. PositiveOK(positive')
  BY DEF Clear, PositiveOK, EmptyPositive
<1>2. TargetOK'
  BY DEF Clear, TargetOK, NoTarget, States
<1>3. ProbationOK'
  BY DEF Clear, ProbationOK, NoPersistence
<1>4. AnchorOK'
  BY DEF Clear, AnchorOK, Grounded, EmptyPositive
<1> QED BY <1>1, <1>2, <1>3, <1>4 DEF IInv

LEMMA IdleStep ==
  ASSUME IInv, Idle
  PROVE  IInv'
<1>1. UNCHANGED <<target, positive, negative, persistence, history>> /\ target.state = "NO_TARGET"
  BY DEF Idle
<1>2. persistence.count = 0
  BY <1>1 DEF IInv, ProbationOK
<1>3. ProbationOK'
  BY <1>1, <1>2 DEF IInv, ProbationOK
<1> QED BY <1>1, <1>3 DEF IInv, PositiveOK, TargetOK, AnchorOK, Grounded

-----------------------------------------------------------------------------
(* What all updates do first.                                              *)

LEMMA PresentFacts ==
  ASSUME IInv, NEW scene \in Scenes
  PROVE  LET q == Present(scene) IN
         /\ PositiveOK(q)
         /\ q.anchor = positive.anchor /\ q.gallery = positive.gallery
         /\ q.operator = positive.operator /\ q.lineage = positive.lineage
         /\ q.trusted => positive.trusted
         /\ q.supported => positive.supported
         /\ q.trusted => q.supported
         /\ (q.anchor = None /\ q.supported /\ q.operator # NoId) =>
              \E c \in scene.seen : c.id = target.id
<1> DEFINE present == \E c \in scene.seen : c.id = target.id
           q == Present(scene)
<1>1. q = IF positive.anchor # None \/ positive.operator = NoId \/ present THEN positive
          ELSE [positive EXCEPT !.supported = FALSE, !.trusted = FALSE, !.streak = 0]
  BY DEF Present, ObservePresence
<1> HIDE DEF q, present
<1>2. positive.trusted => positive.supported
  BY DEF IInv, AnchorOK, Grounded
<1>3. PositiveOK(positive)
  BY DEF IInv
<1>4. CASE positive.anchor # None \/ positive.operator = NoId \/ present
  <2>1. q = positive
    BY <1>1, <1>4
  <2> QED BY <1>2, <1>3, <1>4, <2>1 DEF present, q
<1>5. CASE ~(positive.anchor # None \/ positive.operator = NoId \/ present)
  <2>1. q = [positive EXCEPT !.supported = FALSE, !.trusted = FALSE, !.streak = 0]
    BY <1>1, <1>5
  <2>2. PositiveOK(q)
    BY <1>3, <2>1 DEF PositiveOK
  <2>3. /\ q.anchor = positive.anchor /\ q.gallery = positive.gallery
        /\ q.operator = positive.operator /\ q.lineage = positive.lineage
        /\ q.supported = FALSE /\ q.trusted = FALSE
    BY <1>3, <2>1 DEF PositiveOK
  <2> QED BY <2>2, <2>3 DEF q
<1> QED BY <1>4, <1>5

LEMMA Emptied ==
  /\ GrowOlder(EmptyNegative) = EmptyNegative
  /\ DiscardPending(EmptyNegative) = EmptyNegative
<1>1. Aged(<<>>) = <<>>
  BY DEF Aged
<1> QED BY <1>1 DEF GrowOlder, DiscardPending, EmptyNegative

\* Presence as the history has it, for an update that keeps target and memory.
LEMMA PresentKeepsAnchor ==
  ASSUME IInv, NEW scene \in Scenes, target.state # "NO_TARGET",
         NEW q, q = Present(scene), NEW f, NEW g, NEW h, Observe(scene, f, g, h)
  PROVE  /\ Grounded(q, target.id)
         /\ q.anchor = None /\ q.supported => positive.operator = target.id /\ history'.present
<1>1. /\ q.anchor = positive.anchor /\ q.gallery = positive.gallery
      /\ q.operator = positive.operator /\ q.lineage = positive.lineage
      /\ q.trusted => positive.trusted
      /\ q.supported => positive.supported
      /\ q.trusted => q.supported
      /\ (q.anchor = None /\ q.supported /\ q.operator # NoId) =>
            \E c \in scene.seen : c.id = target.id
  BY PresentFacts
<1>2. Grounded(positive, target.id) /\ (positive.anchor = None /\ positive.supported => history.present)
  BY DEF IInv, AnchorOK
<1>3. Grounded(q, target.id)
  BY <1>1, <1>2 DEF Grounded
<1>4. ASSUME q.anchor = None, q.supported PROVE positive.operator = target.id /\ history'.present
  <2>1. positive.operator = target.id
    BY <1>1, <1>2, <1>4 DEF Grounded
  <2>2. target.id # NoId
    BY GateAssumption DEF IInv, TargetOK, GateAssumption, NoId
  <2>3. \E c \in scene.seen : c.id = positive.operator
    BY <1>1, <1>4, <2>1, <2>2
  <2>4. history.present
    BY <1>1, <1>2, <1>4
  <2>5. history'.present = (history.present /\ \E c \in scene.seen : c.id = positive.operator)
    BY DEF Observe
  <2> QED BY <2>1, <2>3, <2>4, <2>5
<1> QED BY <1>3, <1>4

LEMMA MissStep ==
  ASSUME IInv, NEW scene \in Scenes, target.state # "NO_TARGET", NEW id, Miss(scene, id)
  PROVE  IInv'
<1>1. /\ target' = [target EXCEPT !.missed = Missed, !.state = MissState]
      /\ positive' = Present(scene) /\ negative' = GrowOlder(negative)
      /\ persistence' = NoPersistence
      /\ Observe(scene, FALSE, FALSE, FALSE)
  BY DEF Miss
<1>2. TargetOK'
  <2>1. /\ Missed \in Nat /\ MissState \in {"UNCERTAIN", "LOST"}
        /\ MissState = "LOST" => Missed > Cfg.maxUncertain
    BY ConfigAssumption DEF IInv, TargetOK, Missed, MissState, ConfigAssumption
  <2>2. /\ target'.state = MissState /\ target'.id = target.id /\ target'.missed = Missed
        /\ target' \in [state : States, id : TrackIds \cup {NoId}, missed : Nat]
    BY <1>1, <2>1 DEF IInv, TargetOK, States
  <2>3. target.id \in TrackIds
    BY DEF IInv, TargetOK
  <2> QED BY <2>1, <2>2, <2>3 DEF TargetOK
<1>3. target'.id = target.id
  BY <1>1 DEF IInv, TargetOK
<1>4. PositiveOK(positive')
  BY <1>1, PresentFacts
<1>5. ProbationOK'
  BY <1>1 DEF ProbationOK, NoPersistence, Observe
<1>6. positive'.anchor = None => negative' = EmptyNegative
  BY <1>1, PresentFacts, Emptied DEF IInv, AnchorOK
<1>7. Grounded(positive', target.id) /\ (positive'.anchor = None /\ positive'.supported => history'.present)
  BY <1>1, PresentKeepsAnchor
<1> QED BY <1>2, <1>3, <1>4, <1>5, <1>6, <1>7 DEF IInv, AnchorOK

LEMMA ProbationStep ==
  ASSUME IInv, NEW scene \in Scenes, target.state # "NO_TARGET", NEW p, ProposalOK(p, scene),
         NEW c \in scene.seen, c.id = p.id, ~Rejected(p, c, scene), Probation(scene, p, c)
  PROVE  IInv'
<1>1. /\ positive' = Present(scene)
      /\ negative' = DiscardPending(GrowOlder(negative))
      /\ persistence'.id = p.id /\ persistence'.count = Observed(p)
      /\ persistence'.evidence = \/ c.look # None /\ p.score.evaluated /\ p.score.app >= Cfg.minSimilarity
                                 \/ persistence.id = p.id /\ persistence.evidence
      /\ out'.candidate = p.id
      /\ Observe(scene, TRUE, Proof(p, c), FALSE)
      /\ target' = target
  BY DEF Probation, Output
<1>2. TargetOK'
  BY <1>1 DEF IInv, TargetOK
<1>3. PositiveOK(positive')
  BY <1>1, PresentFacts
<1>4. positive'.anchor = None => negative' = EmptyNegative
  BY <1>1, PresentFacts, Emptied DEF IInv, AnchorOK
<1>5. Grounded(positive', target.id) /\ (positive'.anchor = None /\ positive'.supported => history'.present)
  BY <1>1, PresentKeepsAnchor
<1>6. /\ history'.run = IF history.run > 0 /\ out'.candidate = out.candidate
                        THEN UpTo(history.run + 1, Cfg.confirmFrames) ELSE 1
      /\ history'.proven = (Proof(p, c) \/ (history.run > 0 /\ out'.candidate = out.candidate /\ history.proven))
  BY <1>1 DEF Observe
<1>7. Cfg.confirmFrames \in Nat /\ Cfg.confirmFrames > 0
  BY ConfigAssumption DEF ConfigAssumption
<1>8. persistence.count \in Nat /\ history.run \in Nat
  BY DEF IInv, ProbationOK
<1>9. history'.run \in Nat /\ history'.run > 0
  BY <1>6, <1>7, <1>8 DEF UpTo
<1>10. persistence'.count \in Nat /\ persistence'.count > 0
  BY <1>1, <1>8 DEF Observed
<1>11. history'.run >= persistence'.count \/ history'.run >= Cfg.confirmFrames
  <2>1. CASE persistence.id = p.id /\ persistence.count > 0
    BY <1>1, <1>6, <1>7, <1>8, <2>1 DEF IInv, ProbationOK, Observed, UpTo
  <2>2. CASE ~(persistence.id = p.id /\ persistence.count > 0)
    BY <1>1, <1>8, <1>9, <2>2 DEF Observed
  <2> QED BY <2>1, <2>2
<1>12. ASSUME persistence'.evidence, p.id # target.id PROVE history'.proven
  <2>1. ~UnprovenSwitch(p, c.look)
    BY DEF Rejected
  <2>2. CASE c.look # None
    <3>1. p.score.app >= Cfg.switchSimilarity
      BY <1>12, <2>1, <2>2 DEF UnprovenSwitch, IsTarget, Validates
    <3>2. p.score.app = p.score.protected
      BY <1>12 DEF ProposalOK, ScoreOK
    <3> QED BY <1>6, <2>2, <3>1, <3>2 DEF Proof
  <2>3. CASE c.look = None
    <3>1. persistence.id = p.id /\ persistence.evidence
      BY <1>1, <1>12, <2>3
    <3>2. persistence.count > 0
      BY <1>8, <3>1 DEF IInv, ProbationOK
    <3>3. history.run > 0 /\ out.candidate = p.id /\ history.proven
      BY <1>12, <3>1, <3>2 DEF IInv, ProbationOK
    <3> QED BY <1>1, <1>6, <3>3
  <2> QED BY <2>2, <2>3
<1>13. ProbationOK'
  BY <1>1, <1>9, <1>10, <1>11, <1>12 DEF ProbationOK
<1> QED BY <1>1, <1>2, <1>3, <1>4, <1>5, <1>13 DEF IInv, AnchorOK

LEMMA TaughtFacts ==
  ASSUME IInv, NEW scene \in Scenes, target.state # "NO_TARGET", NEW p, ProposalOK(p, scene),
         NEW c \in scene.seen, c.id = p.id, NEW blend \in BOOLEAN
  PROVE  LET t == Taught(p, c, scene, blend) IN
         /\ PositiveOK(t) /\ Grounded(t, p.id)
         /\ t.operator = positive.operator
         /\ t.anchor = None => positive.anchor = None
         /\ (t.anchor # positive.anchor \/ (t.anchor = None /\ t.supported)) =>
              /\ positive.anchor = None /\ positive.supported
              /\ p.id = positive.operator
              /\ \E x \in scene.seen : x.id = positive.operator
<1> DEFINE before     == Present(scene)
           reacquired == ~IsTarget(p) \/ LostIsh
           unbroken   == /\ before.anchor = None /\ before.operator = p.id
                         /\ before.lineage = p.id /\ before.supported
           supported  == p.score.source \in {"anchor", "gallery"} /\ p.score.app >= Cfg.switchSimilarity
           lineage    == IF reacquired /\ ~unbroken THEN BeginLineage(before, p.id, supported) ELSE before
           eligible   == c.crop = "good" /\ c.look # None /\ ~p.score.ambiguous /\ ~p.score.hostile
           t          == Taught(p, c, scene, blend)
<1>1. /\ PositiveOK(before)
      /\ before.anchor = positive.anchor /\ before.gallery = positive.gallery
      /\ before.operator = positive.operator /\ before.lineage = positive.lineage
      /\ before.trusted => positive.trusted
      /\ before.supported => positive.supported
      /\ before.trusted => before.supported
      /\ (before.anchor = None /\ before.supported /\ before.operator # NoId) =>
           \E x \in scene.seen : x.id = target.id
  BY PresentFacts
<1>2. p.id \in TrackIds /\ c.look \in Looks \cup {None}
  BY SceneAssumption DEF SceneAssumption
<1>3. positive.anchor = None => supported = FALSE
  BY DEF ProposalOK, ScoreOK, Anchorless, IInv, AnchorOK, Grounded
<1>4. supported \in BOOLEAN
  OBVIOUS
<1>5. target.id # NoId
  BY GateAssumption DEF IInv, TargetOK, GateAssumption, NoId
<1>6. Grounded(positive, target.id)
  BY DEF IInv, AnchorOK
<1>7. t = IF eligible THEN Learn(lineage, p.id, c.look, blend) ELSE lineage
  BY DEF Taught
<1> HIDE DEF t, supported, before
<1>8. /\ PositiveOK(lineage) /\ Grounded(lineage, p.id)
      /\ lineage.anchor = positive.anchor /\ lineage.operator = positive.operator
      /\ (lineage.anchor = None /\ lineage.supported) =>
           /\ positive.supported /\ p.id = positive.operator
           /\ \E x \in scene.seen : x.id = positive.operator
  <2>1. CASE reacquired /\ ~unbroken
    <3>1. lineage = [before EXCEPT !.lineage = p.id, !.supported = supported,
                                   !.trusted = FALSE, !.streak = 0]
      BY <2>1 DEF BeginLineage
    <3> HIDE DEF lineage
    <3>2. PositiveOK(lineage)
      BY <1>1, <1>2, <1>4, <3>1 DEF PositiveOK
    <3>3. /\ lineage.anchor = before.anchor /\ lineage.gallery = before.gallery
          /\ lineage.operator = before.operator /\ lineage.trusted = FALSE
          /\ lineage.supported = supported
      BY <1>1, <3>1 DEF PositiveOK
    <3> QED BY <1>1, <1>3, <1>6, <3>2, <3>3 DEF Grounded
  <2>2. CASE ~(reacquired /\ ~unbroken)
    <3>1. lineage = before
      BY <2>2
    <3>2. p.id = target.id \/ unbroken
      BY <2>2 DEF IsTarget
    <3>3. Grounded(before, p.id)
      BY <1>1, <1>6, <3>2 DEF Grounded
    <3>4. ASSUME before.anchor = None, before.supported
          PROVE  /\ positive.supported /\ p.id = positive.operator
                 /\ \E x \in scene.seen : x.id = positive.operator
      <4>1. positive.supported /\ positive.operator = target.id
        BY <1>1, <1>6, <3>4 DEF Grounded
      <4>2. \E x \in scene.seen : x.id = target.id
        BY <1>1, <1>5, <3>4, <4>1
      <4>3. p.id = positive.operator
        BY <1>1, <3>2, <4>1
      <4> QED BY <4>1, <4>2, <4>3
    <3> HIDE DEF lineage
    <3> QED BY <1>1, <3>1, <3>3, <3>4
  <2> QED BY <2>1, <2>2
<1> HIDE DEF lineage
<1>9. CASE ~eligible
  <2>1. t = lineage
    BY <1>7, <1>9
  <2> QED BY <1>8, <2>1 DEF t
<1>10. CASE eligible
  <2>1. c.look \in Looks
    BY <1>2, <1>10
  <2>2. t = Learn(lineage, p.id, c.look, blend)
    BY <1>7, <1>10
  <2>3. /\ PositiveOK(t) /\ Grounded(t, p.id)
        /\ t.operator = lineage.operator /\ t.supported = lineage.supported
        /\ t.anchor = None => lineage.anchor = None
        /\ t.anchor # lineage.anchor =>
             lineage.anchor = None /\ lineage.operator = p.id /\ lineage.supported
    BY <1>2, <1>8, <2>1, <2>2, LearnFacts
  <2> QED BY <1>8, <2>3 DEF t
<1> QED BY <1>9, <1>10

LEMMA AcceptStep ==
  ASSUME IInv, NEW scene \in Scenes, target.state # "NO_TARGET", NEW p, ProposalOK(p, scene),
         NEW c \in scene.seen, c.id = p.id, Accept(scene, p, c)
  PROVE  /\ IInv'
         /\ positive'.anchor \notin {positive.anchor, None} =>
              positive.anchor = None /\ history'.present /\ target'.id = positive.operator
<1>1. PICK blend \in BOOLEAN : positive' = Taught(p, c, scene, blend)
  BY DEF Accept
<1>2. /\ negative' = TaughtNegative(p, c, scene) /\ persistence' = NoPersistence
      /\ target' = [state |-> "LOCKED", id |-> p.id, missed |-> 0]
      /\ Observe(scene, FALSE, Proof(p, c), TrustedContinuity(p, c))
  BY DEF Accept
<1>3. /\ PositiveOK(positive') /\ Grounded(positive', p.id)
      /\ positive'.operator = positive.operator
      /\ positive'.anchor = None => positive.anchor = None
      /\ (positive'.anchor # positive.anchor \/ (positive'.anchor = None /\ positive'.supported)) =>
           /\ positive.anchor = None /\ positive.supported
           /\ p.id = positive.operator
           /\ \E x \in scene.seen : x.id = positive.operator
  BY <1>1, TaughtFacts
<1>4. p.id \in TrackIds
  BY SceneAssumption DEF SceneAssumption
<1>5. TargetOK'
  BY <1>2, <1>4 DEF TargetOK, States
<1>6. ProbationOK'
  BY <1>2 DEF ProbationOK, NoPersistence, Observe
<1>7. history'.present = (history.present /\ \E x \in scene.seen : x.id = positive.operator)
  BY <1>2 DEF Observe
<1>8. positive.anchor = None /\ positive.supported => history.present
  BY DEF IInv, AnchorOK
<1>9. ASSUME positive'.anchor = None PROVE negative' = EmptyNegative
  <2>1. negative = EmptyNegative
    BY <1>3, <1>9 DEF IInv, AnchorOK
  <2>2. ~positive'.trusted
    BY <1>3, <1>9 DEF Grounded
  <2>3. ~TrustedContinuity(p, c)
    BY <2>2 DEF TrustedContinuity
  <2>4. negative' = DiscardPending(GrowOlder(negative))
    BY <1>2, <2>2, <2>3 DEF TaughtNegative
  <2> QED BY <2>1, <2>4, Emptied
<1>10. AnchorOK'
  <2>1. Grounded(positive, target.id)'
    BY <1>2, <1>3 DEF Grounded
  <2>2. positive'.anchor = None /\ positive'.supported => history'.present
    BY <1>3, <1>7, <1>8
  <2> QED BY <1>9, <2>1, <2>2 DEF AnchorOK
<1>11. positive'.anchor \notin {positive.anchor, None} =>
         positive.anchor = None /\ history'.present /\ target'.id = positive.operator
  BY <1>2, <1>3, <1>7, <1>8
<1> QED BY <1>3, <1>5, <1>6, <1>10, <1>11 DEF IInv

\* The ways an update goes, with what is known of the proposal.
LEMMA UpdateCases ==
  ASSUME IInv, NEW scene \in Scenes, Update(scene)
  PROVE  /\ target.state # "NO_TARGET"
         /\ \/ \E id : Miss(scene, id)
            \/ \E p \in Proposed(scene), c \in scene.seen :
                 /\ ProposalOK(p, scene) /\ c.id = p.id
                 /\ \/ ~Rejected(p, c, scene) /\ Probation(scene, p, c)
                    \/ /\ ~Rejected(p, c, scene) /\ ~(Observed(p) < Required(p))
                       /\ Accept(scene, p, c)
<1>1. target.state # "NO_TARGET"
  BY DEF Update
<1>2. CASE Proposed(scene) = {}
  BY <1>1, <1>2 DEF Update
<1>3. CASE Proposed(scene) # {}
  <2>1. PICK p \in Proposed(scene) : Decide(scene, p)
    BY <1>3 DEF Update
  <2>2. ProposalOK(p, scene)
    BY ProposedOK DEF IInv
  <2> DEFINE c == CHOOSE x \in scene.seen : x.id = p.id
  <2>3. c \in scene.seen /\ c.id = p.id
    BY <2>2 DEF ProposalOK, ScoreOK
  <2>4. \/ Miss(scene, p.id)
        \/ ~Rejected(p, c, scene) /\ Probation(scene, p, c)
        \/ ~Rejected(p, c, scene) /\ ~(Observed(p) < Required(p)) /\ Accept(scene, p, c)
    BY <2>1 DEF Decide
  <2> HIDE DEF c
  <2> QED BY <1>1, <2>2, <2>3, <2>4
<1> QED BY <1>2, <1>3

LEMMA Inductive == IInv /\ [Next]_vars => IInv'
<1> SUFFICES ASSUME IInv, [Next]_vars PROVE IInv'
  OBVIOUS
<1>1. CASE \E c \in UNION {scene.seen : scene \in Scenes} : Select(c)
  BY <1>1, SelectStep
<1>2. CASE Clear
  BY <1>2, ClearStep
<1>3. CASE Idle
  BY <1>3, IdleStep
<1>4. ASSUME NEW scene \in Scenes, Update(scene) PROVE IInv'
  <2>1. CASE \E id : Miss(scene, id)
    BY <1>4, <2>1, UpdateCases, MissStep
  <2>2. CASE ~\E id : Miss(scene, id)
    <3>1. PICK p \in Proposed(scene), c \in scene.seen :
            /\ ProposalOK(p, scene) /\ c.id = p.id
            /\ \/ ~Rejected(p, c, scene) /\ Probation(scene, p, c)
               \/ Accept(scene, p, c)
      BY <1>4, <2>2, UpdateCases
    <3>2. target.state # "NO_TARGET"
      BY <1>4, UpdateCases
    <3>3. CASE ~Rejected(p, c, scene) /\ Probation(scene, p, c)
      BY <3>1, <3>2, <3>3, ProbationStep
    <3>4. CASE Accept(scene, p, c)
      BY <3>1, <3>2, <3>4, AcceptStep
    <3> QED BY <3>1, <3>3, <3>4
  <2> QED BY <2>1, <2>2
<1>5. CASE UNCHANGED vars
  BY <1>5 DEF vars, IInv, PositiveOK, TargetOK, ProbationOK, AnchorOK, Grounded
<1> QED BY <1>1, <1>2, <1>3, <1>4, <1>5 DEF Next

-----------------------------------------------------------------------------
(* The theorems.                                                           *)

\* In every state the target, the memories, the probation and the history fit
\* together as IInv says.
THEOREM Invariance == Spec => []IInv
<1>1. Init => IInv
  BY InitInv
<1>2. IInv /\ [Next]_vars => IInv'
  BY Inductive
<1> QED BY <1>1, <1>2, PTL DEF Spec

LEMMA RequiredOfRecovery ==
  ASSUME NEW p, ~IsTarget(p) \/ LostIsh
  PROVE  Required(p) >= 1 + Cfg.confirmFrames /\ Required(p) \in Nat
<1> DEFINE S == {0} \cup {Cfg.rankConfirm : s \in {p.source} \cap {"rank"}} \cup {1 + Cfg.confirmFrames}
           n == 1 + Cfg.confirmFrames + Cfg.rankConfirm
<1>1. Cfg.confirmFrames \in Nat /\ Cfg.rankConfirm \in Nat
  BY ConfigAssumption DEF ConfigAssumption
<1>2. S \subseteq 0 .. n /\ n \in Nat /\ 1 + Cfg.confirmFrames \in S
  BY <1>1
<1>3. Required(p) = Max(S)
  BY DEF Required
<1> HIDE DEF S, n
<1>4. S # {}
  BY <1>2
<1>5. Max(S) \in S /\ \A y \in S : Max(S) >= y
  BY <1>2, <1>4, MaxOfNaturals
<1>6. \A y \in S : y \in Nat
  BY <1>2
<1> QED BY <1>2, <1>3, <1>5, <1>6

\* An accepted recovery was on probation, message after message.
LEMMA RecoveryOnProbation ==
  ASSUME IInv, NEW p, ~IsTarget(p) \/ LostIsh, ~(Observed(p) < Required(p))
  PROVE  /\ persistence.id = p.id /\ persistence.count > 0
         /\ history.run >= Cfg.confirmFrames /\ out.candidate = p.id
<1>1. Cfg.confirmFrames \in Nat /\ Cfg.confirmFrames > 0
  BY ConfigAssumption DEF ConfigAssumption
<1>2. persistence.count \in Nat /\ history.run \in Nat
  BY DEF IInv, ProbationOK
<1>3. Observed(p) \in Nat
  BY <1>2 DEF Observed
<1>4. Observed(p) >= 1 + Cfg.confirmFrames
  BY <1>1, <1>3, RequiredOfRecovery
<1>5. persistence.id = p.id /\ persistence.count >= Cfg.confirmFrames /\ persistence.count > 0
  BY <1>1, <1>2, <1>4 DEF Observed
<1>6. history.run >= persistence.count \/ history.run >= Cfg.confirmFrames
  BY <1>5 DEF IInv, ProbationOK
<1>7. history.run >= Cfg.confirmFrames
  BY <1>1, <1>2, <1>5, <1>6
<1> QED BY <1>5, <1>7 DEF IInv, ProbationOK

LEMMA StepCases ==
  ASSUME IInv, [Next]_vars
  PROVE  \/ \E scene \in Scenes : \E c \in scene.seen : Select(c)
         \/ Clear \/ Idle \/ UNCHANGED vars
         \/ target.state # "NO_TARGET" /\ \E scene \in Scenes : \E id : Miss(scene, id)
         \/ /\ target.state # "NO_TARGET"
            /\ \E scene \in Scenes : \E p \in Proposed(scene), c \in scene.seen :
                 /\ ProposalOK(p, scene) /\ c.id = p.id /\ ~Rejected(p, c, scene)
                 /\ \/ Probation(scene, p, c)
                    \/ ~(Observed(p) < Required(p)) /\ Accept(scene, p, c)
<1>1. CASE \E scene \in Scenes : Update(scene)
  BY <1>1, UpdateCases
<1>2. CASE ~\E scene \in Scenes : Update(scene)
  BY <1>2 DEF Next
<1> QED BY <1>1, <1>2

\* Only an accepted proposal says that the target was recovered and is visible.
LEMMA OnlyAcceptRecovers ==
  ASSUME IInv, [Next]_vars, ~UNCHANGED vars, out'.visible, out'.reacquired
  PROVE  \E scene \in Scenes : \E p \in Proposed(scene), c \in scene.seen :
           /\ ProposalOK(p, scene) /\ c.id = p.id /\ ~Rejected(p, c, scene)
           /\ ~(Observed(p) < Required(p)) /\ Accept(scene, p, c)
<1>1. ASSUME NEW c, Select(c) PROVE FALSE
  BY <1>1 DEF Select, Output
<1>2. ~Clear
  BY DEF Clear, Output
<1>3. ~Idle
  BY DEF Idle, Output
<1>4. ASSUME NEW scene, NEW id, Miss(scene, id) PROVE FALSE
  BY <1>4 DEF Miss, Output
<1>5. ASSUME NEW scene, NEW p, NEW c, Probation(scene, p, c) PROVE FALSE
  BY <1>5 DEF Probation, Output
<1> QED BY <1>1, <1>2, <1>3, <1>4, <1>5, StepCases

\* A recovered or switched lock was preceded, message after message without a
\* break, by as many messages on probation of the very same track.
THEOREM Recovery_Is_Confirmed == Spec => RecoveryIsConfirmed
<1>1. IInv /\ [Next]_vars => [(out'.visible /\ out'.reacquired) =>
                                /\ history.run >= Cfg.confirmFrames
                                /\ out.candidate = target'.id]_vars
  <2> SUFFICES ASSUME IInv, [Next]_vars, ~UNCHANGED vars, out'.visible, out'.reacquired
               PROVE  history.run >= Cfg.confirmFrames /\ out.candidate = target'.id
    OBVIOUS
  <2>1. PICK scene \in Scenes : \E p \in Proposed(scene), c \in scene.seen :
          ~(Observed(p) < Required(p)) /\ Accept(scene, p, c)
    BY OnlyAcceptRecovers
  <2>2. PICK p \in Proposed(scene), c \in scene.seen :
          ~(Observed(p) < Required(p)) /\ Accept(scene, p, c)
    BY <2>1
  <2>3. (~IsTarget(p) \/ LostIsh) /\ target'.id = p.id
    BY <2>2 DEF Accept, Output
  <2> QED BY <2>2, <2>3, RecoveryOnProbation
<1> QED BY <1>1, Invariance, PTL DEF Spec, RecoveryIsConfirmed

\* The lock moves to another track only if the protected memory recognised that
\* track, now or while it was on this probation.
THEOREM Switch_Is_Proven == Spec => SwitchIsProven
<1>1. IInv /\ [Next]_vars =>
        [(out'.visible /\ out'.reacquired /\ target'.id # target.id) => history'.proven]_vars
  <2> SUFFICES ASSUME IInv, [Next]_vars, ~UNCHANGED vars,
                      out'.visible, out'.reacquired, target'.id # target.id
               PROVE  history'.proven
    OBVIOUS
  <2>1. PICK scene \in Scenes : \E p \in Proposed(scene), c \in scene.seen :
          /\ ProposalOK(p, scene) /\ c.id = p.id /\ ~Rejected(p, c, scene)
          /\ ~(Observed(p) < Required(p)) /\ Accept(scene, p, c)
    BY OnlyAcceptRecovers
  <2>2. PICK p \in Proposed(scene), c \in scene.seen :
          /\ ProposalOK(p, scene) /\ c.id = p.id /\ ~Rejected(p, c, scene)
          /\ ~(Observed(p) < Required(p)) /\ Accept(scene, p, c)
    BY <2>1
  <2>3. /\ target'.id = p.id /\ out'.candidate = p.id
        /\ Observe(scene, FALSE, Proof(p, c), TrustedContinuity(p, c))
    BY <2>2 DEF Accept, Output
  <2>4. history'.proven = (Proof(p, c) \/ (history.run > 0 /\ out'.candidate = out.candidate /\ history.proven))
    BY <2>3 DEF Observe
  <2>5. ~IsTarget(p) /\ p.id # target.id
    BY <2>3 DEF IsTarget
  <2>6. ~UnprovenSwitch(p, c.look)
    BY <2>2 DEF Rejected
  <2>7. CASE c.look # None
    <3>1. p.score.app >= Cfg.switchSimilarity
      BY <2>5, <2>6, <2>7 DEF UnprovenSwitch, Validates
    <3>2. p.score.app = p.score.protected
      BY <2>2, <2>5 DEF ProposalOK, ScoreOK
    <3> QED BY <2>4, <2>7, <3>1, <3>2 DEF Proof
  <2>8. CASE c.look = None
    <3>1. persistence.id = p.id /\ persistence.evidence
      BY <2>5, <2>6, <2>8 DEF UnprovenSwitch
    <3>2. persistence.count > 0 /\ out.candidate = p.id
      BY <2>2, <2>5, RecoveryOnProbation
    <3>3. history.run > 0 /\ history.proven
      BY <2>5, <3>1, <3>2 DEF IInv, ProbationOK
    <3> QED BY <2>3, <2>4, <3>2, <3>3
  <2> QED BY <2>7, <2>8
<1> QED BY <1>1, Invariance, PTL DEF Spec, SwitchIsProven

\* After the selection the anchor is set at most once, from the operator's own
\* track, which no message since the selection was without.
THEOREM Anchor_Is_Operators == Spec => AnchorIsOperators
<1>1. IInv /\ [Next]_vars =>
        [positive'.anchor \notin {positive.anchor, None} =>
           Selects \/ /\ positive.anchor = None /\ history'.present
                      /\ target'.id = positive.operator]_vars
  <2> SUFFICES ASSUME IInv, [Next]_vars, positive'.anchor \notin {positive.anchor, None}
               PROVE  \/ Selects
                      \/ /\ positive.anchor = None /\ history'.present
                         /\ target'.id = positive.operator
    OBVIOUS
  <2>1. CASE \E scene \in Scenes : \E c \in scene.seen : Select(c)
    BY <2>1 DEF Select, Output, Selects
  <2>2. CASE Clear \/ Idle \/ UNCHANGED vars
    <3>1. CASE Clear
      BY <3>1 DEF Clear, EmptyPositive
    <3>2. CASE Idle \/ UNCHANGED vars
      BY <3>2 DEF Idle, vars
    <3> QED BY <2>2, <3>1, <3>2
  <2>3. CASE \E scene \in Scenes : \E id : Miss(scene, id)
    BY <2>3, PresentFacts DEF Miss
  <2>4. ASSUME NEW scene \in Scenes, NEW p \in Proposed(scene), NEW c \in scene.seen,
               Probation(scene, p, c)
        PROVE  FALSE
    BY <2>4, PresentFacts DEF Probation
  <2>5. ASSUME NEW scene \in Scenes, NEW p \in Proposed(scene), NEW c \in scene.seen,
               target.state # "NO_TARGET", ProposalOK(p, scene), c.id = p.id, Accept(scene, p, c)
        PROVE  positive.anchor = None /\ history'.present /\ target'.id = positive.operator
    BY <2>5, AcceptStep
  <2> QED BY <2>1, <2>2, <2>3, <2>4, <2>5, StepCases
<1> QED BY <1>1, Invariance, PTL DEF Spec, AnchorIsOperators

\* The target memory keeps the contract in whose place TimAuthority has it.
THEOREM Keeps_Contract == Spec => KeepsContract
<1>1. IInv /\ [Next]_vars =>
        [\/ Selects \/ target'.state = "NO_TARGET"
         \/ <<Abstract', [state |-> out'.state, track |-> target'.id]>>
              \in Outcomes(Abstract, TrackIds)]_vars
  <2> SUFFICES ASSUME IInv, [Next]_vars, ~Selects, target'.state # "NO_TARGET", ~UNCHANGED vars
               PROVE  <<Abstract', [state |-> out'.state, track |-> target'.id]>>
                        \in Outcomes(Abstract, TrackIds)
    OBVIOUS
  <2>1. \A scene \in Scenes : \A c \in scene.seen : ~Select(c)
    BY DEF Select, Output, Selects
  <2>2. ~Clear /\ ~Idle
    <3>1. Clear => target'.state = "NO_TARGET"
      BY DEF Clear, NoTarget
    <3>2. Idle => target'.state = "NO_TARGET"
      BY DEF Idle
    <3> QED BY <3>1, <3>2
  <2>3. target.state # "NO_TARGET"
    BY <2>1, <2>2, StepCases
  <2>4. Abstract.state = target.state /\ Abstract.track = target.id
    BY DEF Abstract
  <2>5. ASSUME NEW scene \in Scenes, NEW id, Miss(scene, id)
        PROVE  <<Abstract', [state |-> out'.state, track |-> target'.id]>>
                 \in Outcomes(Abstract, TrackIds)
    <3>1. MissState \in (IF target.state = "LOST" THEN {"LOST"} ELSE {"UNCERTAIN", "LOST"})
      BY ConfigAssumption DEF IInv, TargetOK, Missed, MissState, ConfigAssumption
    <3>2. target'.state = MissState /\ target'.id = target.id /\ out'.state = MissState
      BY <2>5 DEF IInv, TargetOK, Miss, Output
    <3>3. /\ Abstract' = [Abstract EXCEPT !.state = MissState]
          /\ [state |-> out'.state, track |-> target'.id] = [Abstract EXCEPT !.state = MissState]
      BY <3>2 DEF Abstract
    <3> QED BY <2>3, <2>4, <3>1, <3>3 DEF Outcomes
  <2>6. ASSUME NEW scene \in Scenes, NEW p \in Proposed(scene), NEW c \in scene.seen,
               ProposalOK(p, scene), c.id = p.id, Probation(scene, p, c)
        PROVE  <<Abstract', [state |-> out'.state, track |-> target'.id]>>
                 \in Outcomes(Abstract, TrackIds)
    <3>1. c.id \in TrackIds
      BY SceneAssumption DEF SceneAssumption
    <3>2. target' = target /\ out'.state = "REACQUIRED"
      BY <2>6 DEF Probation, Output
    <3>3. /\ Abstract' = Abstract
          /\ [state |-> out'.state, track |-> target'.id] = [Abstract EXCEPT !.state = "REACQUIRED"]
      BY <3>2 DEF Abstract
    <3> QED BY <2>3, <2>4, <3>1, <3>3 DEF Outcomes
  <2>7. ASSUME NEW scene \in Scenes, NEW p \in Proposed(scene), NEW c \in scene.seen,
               ProposalOK(p, scene), c.id = p.id, Accept(scene, p, c)
        PROVE  <<Abstract', [state |-> out'.state, track |-> target'.id]>>
                 \in Outcomes(Abstract, TrackIds)
    <3>1. p.id \in TrackIds
      BY <2>7, SceneAssumption DEF SceneAssumption
    <3>2. target'.state = "LOCKED" /\ target'.id = p.id /\ out'.state = "LOCKED"
      BY <2>7 DEF Accept, Output
    <3>3. /\ Abstract' = [state |-> "LOCKED", track |-> p.id]
          /\ [state |-> out'.state, track |-> target'.id] = [state |-> "LOCKED", track |-> p.id]
      BY <3>2 DEF Abstract
    <3> QED BY <2>3, <2>4, <3>1, <3>3 DEF Outcomes
  <2> QED BY <2>1, <2>2, <2>5, <2>6, <2>7, StepCases
<1> QED BY <1>1, Invariance, PTL DEF Spec, KeepsContract

-----------------------------------------------------------------------------
(* The negative memory.                                                    *)

Entry == [look : Looks, obs : Nat, selected : SUBSET TrackIds, age : Nat]
Bounded == {s \in Seq(Entry) : Len(s) <= Cfg.negativeMax}
NegativeOK(n) == n \in [committed : Bounded, pending : Bounded]

\* What n holds is what was in m: the same looks, seen as often.
LooksOf(s) == {e.look : e \in Entries(s)}
SightsOf(s) == {e.obs : e \in Entries(s)}
Inherits(n, m) ==
  /\ LooksOf(n.committed) \subseteq LooksOf(m.committed)
  /\ SightsOf(n.pending) \subseteq SightsOf(m.pending)

LEMMA EntriesOf ==
  ASSUME NEW S, NEW s \in Seq(S)
  PROVE  /\ Entries(s) \subseteq S
         /\ Entries(s) = {s[i] : i \in 1 .. Len(s)}
BY DEF Entries

LEMMA InheritsTrans ==
  ASSUME NEW a, NEW b, NEW c, Inherits(a, b), Inherits(b, c)
  PROVE  Inherits(a, c)
BY DEF Inherits

LEMMA AgedFacts ==
  ASSUME NEW s \in Bounded
  PROVE  /\ Aged(s) \in Bounded
         /\ LooksOf(Aged(s)) \subseteq LooksOf(s) /\ SightsOf(Aged(s)) \subseteq SightsOf(s)
<1> DEFINE older(e) == [e EXCEPT !.age = IF @ > Cfg.negativeMaxAge THEN @ ELSE @ + 1]
           a == Aged(s)
<1>1. s \in Seq(Entry) /\ Len(s) \in Nat /\ Len(s) <= Cfg.negativeMax /\ DOMAIN s = 1 .. Len(s)
  BY DEF Bounded
<1>2. ASSUME NEW e \in Entry
      PROVE  older(e) \in Entry /\ older(e).look = e.look /\ older(e).obs = e.obs
  BY DEF Entry
<1>3. a = [i \in 1 .. Len(s) |-> older(s[i])]
  BY <1>1 DEF Aged
<1> HIDE DEF older, a
<1>4. \A i \in 1 .. Len(s) : s[i] \in Entry
  BY <1>1
<1>5. a \in [1 .. Len(s) -> Entry]
  BY <1>2, <1>3, <1>4
<1>6. a \in Seq(Entry) /\ Len(a) = Len(s) /\ DOMAIN a = 1 .. Len(s)
  BY <1>1, <1>5
<1>7. ASSUME NEW x \in Entries(a)
      PROVE  \E e \in Entries(s) : x.look = e.look /\ x.obs = e.obs
  <2>1. PICK i \in 1 .. Len(s) : x = a[i]
    BY <1>6, <1>7 DEF Entries
  <2>2. x = older(s[i]) /\ s[i] \in Entry /\ s[i] \in Entries(s)
    BY <1>1, <1>3, <1>4, <2>1 DEF Entries
  <2> QED BY <1>2, <2>2
<1>8. LooksOf(a) \subseteq LooksOf(s)
  BY <1>7 DEF LooksOf
<1>9. SightsOf(a) \subseteq SightsOf(s)
  BY <1>7 DEF SightsOf
<1>10. a \in Bounded
  BY <1>1, <1>6 DEF Bounded
<1> QED BY <1>8, <1>9, <1>10 DEF a

LEMMA KeptBounded ==
  ASSUME NEW s \in Bounded, NEW I
  PROVE  /\ Kept(s, I) \in Bounded
         /\ LooksOf(Kept(s, I)) \subseteq LooksOf(s) /\ SightsOf(Kept(s, I)) \subseteq SightsOf(s)
<1> DEFINE k == Kept(s, I)
<1>1. s \in Seq(Entry) /\ Len(s) \in Nat /\ Len(s) <= Cfg.negativeMax /\ Cfg.negativeMax \in Nat
  BY ConfigAssumption DEF Bounded, ConfigAssumption
<1>2. /\ k \in Seq(Entry) /\ Len(k) <= Len(s) 
      /\ \A x \in Entries(k) : \E i \in DOMAIN s : i \in I /\ x = s[i]
  BY <1>1, KeptFacts
<1> HIDE DEF k
<1>3. k \in Bounded
  <2>1. Len(k) \in Nat
    BY <1>2
  <2> QED BY <1>1, <1>2, <2>1 DEF Bounded
<1>4. Entries(k) \subseteq Entries(s)
  BY <1>2 DEF Entries
<1> QED BY <1>3, <1>4 DEF LooksOf, SightsOf, k

LEMMA GrowOlderFacts ==
  ASSUME NEW n, NegativeOK(n)
  PROVE  NegativeOK(GrowOlder(n)) /\ Inherits(GrowOlder(n), n)
BY AgedFacts DEF GrowOlder, NegativeOK, Inherits

LEMMA DiscardPendingFacts ==
  ASSUME NEW n, NegativeOK(n)
  PROVE  /\ NegativeOK(DiscardPending(n)) /\ Inherits(DiscardPending(n), n)
         /\ SightsOf(DiscardPending(n).pending) = {}
<1> DEFINE d == DiscardPending(n)
<1>1. <<>> \in Bounded
  BY ConfigAssumption DEF Bounded, ConfigAssumption
<1>2. d \in [committed : Bounded, pending : Bounded] /\ d.committed = n.committed /\ d.pending = <<>>
  BY <1>1 DEF NegativeOK, DiscardPending
<1>3. Entries(<<>>) = {}
  BY DEF Entries
<1> HIDE DEF d
<1> QED BY <1>2, <1>3 DEF NegativeOK, Inherits, LooksOf, SightsOf, d

LEMMA ExpireCommittedFacts ==
  ASSUME NEW n, NegativeOK(n)
  PROVE  NegativeOK(ExpireCommitted(n)) /\ Inherits(ExpireCommitted(n), n)
<1> DEFINE x == ExpireCommitted(n)
           k == Kept(n.committed, {i \in DOMAIN n.committed : ~Retired(n.committed[i])})
<1>1. k \in Bounded /\ LooksOf(k) \subseteq LooksOf(n.committed)
  BY KeptBounded DEF NegativeOK
<1>2. x = [n EXCEPT !.committed = k]
  BY DEF NegativeOK, ExpireCommitted
<1> HIDE DEF x, k
<1>3. x \in [committed : Bounded, pending : Bounded] /\ x.committed = k /\ x.pending = n.pending
  BY <1>1, <1>2 DEF NegativeOK
<1> QED BY <1>1, <1>3 DEF NegativeOK, Inherits, x

LEMMA ReconcileFacts ==
  ASSUME NEW n, NegativeOK(n), NEW look, NEW id
  PROVE  NegativeOK(Reconcile(n, look, id)) /\ Inherits(Reconcile(n, look, id), n)
<1> DEFINE apart(s) == {i \in DOMAIN s : ~Alike(s[i], look)}
           own == {i \in DOMAIN n.pending : id \in n.pending[i].selected}
           c == Kept(n.committed, apart(n.committed))
           p == Kept(n.pending, own \cap apart(n.pending))
           r == Reconcile(n, look, id)
<1>1. /\ c \in Bounded /\ LooksOf(c) \subseteq LooksOf(n.committed)
      /\ p \in Bounded /\ SightsOf(p) \subseteq SightsOf(n.pending)
  BY KeptBounded DEF NegativeOK
<1>2. r = IF look = None THEN n ELSE [committed |-> c, pending |-> p]
  BY DEF Reconcile
<1> HIDE DEF r, c, p
<1>3. CASE look = None
  <2>1. r = n
    BY <1>2, <1>3
  <2> QED BY <2>1 DEF Inherits, r
<1>4. CASE look # None
  <2>1. r = [committed |-> c, pending |-> p]
    BY <1>2, <1>4
  <2> QED BY <1>1, <2>1 DEF NegativeOK, Inherits, r
<1> QED BY <1>3, <1>4

-----------------------------------------------------------------------------
(* Learning negatives, one distractor after the other.                     *)

\* In the middle of an update that makes the lock hold for the lock-th message:
\* what is staged was seen in no more messages, and a look that was not among
\* the old ones is committed only when these are enough.
Learning(st, old, lock) ==
  /\ st \in [committed : Bounded, before : Seq(Entry), touched : SUBSET Nat,
             kept : SUBSET Nat, new : Seq(Entry)]
  /\ LooksOf(st.committed) \subseteq old \/ lock >= Cfg.negativeConfirm
  /\ \A i \in DOMAIN st.before :
       /\ st.before[i].obs <= lock
       /\ i \notin st.touched /\ st.before[i].obs < Cfg.negativeConfirm => st.before[i].obs + 1 <= lock
  /\ \A i \in DOMAIN st.new : st.new[i].obs <= lock

LEMMA AppendFacts ==
  ASSUME NEW S, NEW s \in Seq(S), NEW x \in S
  PROVE  /\ Append(s, x) \in Seq(S)
         /\ Len(Append(s, x)) = Len(s) + 1
         /\ \A i \in 1 .. Len(s) : Append(s, x)[i] = s[i]
         /\ Append(s, x)[Len(s) + 1] = x
         /\ Entries(Append(s, x)) = Entries(s) \cup {x}
<1> DEFINE a == Append(s, x)
<1>1. a \in Seq(S) /\ Len(a) = Len(s) + 1 /\ Len(s) \in Nat
  OBVIOUS
<1>2. \A i \in 1 .. Len(s) : a[i] = s[i]
  OBVIOUS
<1>3. a[Len(s) + 1] = x
  OBVIOUS
<1> HIDE DEF a
<1>4. \A i \in 1 .. Len(a) : a[i] \in Entries(s) \cup {x}
  <2>1. ASSUME NEW i \in 1 .. Len(a) PROVE a[i] \in Entries(s) \cup {x}
    <3>1. CASE i \in 1 .. Len(s)
      BY <1>2, <3>1 DEF Entries
    <3>2. CASE i \notin 1 .. Len(s)
      <4>1. i = Len(s) + 1
        BY <1>1, <3>2
      <4> QED BY <1>3, <4>1
    <3> QED BY <3>1, <3>2
  <2> QED BY <2>1
<1>5. Entries(s) \cup {x} \subseteq Entries(a)
  <2>1. DOMAIN a = 1 .. Len(s) + 1 /\ DOMAIN s = 1 .. Len(s)
    BY <1>1
  <2>2. \A i \in 1 .. Len(s) : s[i] \in Entries(a)
    BY <1>1, <1>2, <2>1 DEF Entries
  <2>3. x \in Entries(a)
    BY <1>1, <1>3, <2>1 DEF Entries
  <2> QED BY <2>1, <2>2, <2>3 DEF Entries
<1>6. Entries(a) \subseteq Entries(s) \cup {x}
  BY <1>1, <1>4 DEF Entries
<1> QED BY <1>1, <1>2, <1>3, <1>5, <1>6 DEF a

LEMMA SeenAgainFacts ==
  ASSUME NEW e \in Entry, NEW id \in TrackIds
  PROVE  LET a == SeenAgain(e, id) IN
         /\ a \in Entry /\ a.look = e.look
         /\ a.obs = IF e.obs < Cfg.negativeConfirm THEN e.obs + 1 ELSE e.obs
<1> DEFINE o == IF e.obs < Cfg.negativeConfirm THEN e.obs + 1 ELSE e.obs
           t == e.selected \cup {id}
<1>1. o \in Nat /\ t \in SUBSET TrackIds
  BY DEF Entry
<1>2. SeenAgain(e, id) = [e EXCEPT !.obs = o, !.selected = t, !.age = 0]
  BY DEF SeenAgain, Entry
<1> HIDE DEF t
<1>3. SeenAgain(e, id) = [look |-> e.look, obs |-> o, selected |-> t, age |-> 0]
  <2> HIDE DEF o
  <2> QED BY <1>2 DEF Entry
<1>4. e.look \in Looks
  BY DEF Entry
<1> QED BY <1>1, <1>3, <1>4 DEF Entry

LEMMA NewEntryFacts ==
  ASSUME NEW look \in Looks, NEW id \in TrackIds
  PROVE  NewEntry(look, id) \in Entry /\ NewEntry(look, id).obs = 1
BY DEF NewEntry, Entry

LEMMA CommitFacts ==
  ASSUME NEW st, NEW old, NEW lock \in Nat, Learning(st, old, lock), NEW e \in Entry,
         lock >= Cfg.negativeConfirm
  PROVE  Learning(Commit(st, e), old, lock)
<1> DEFINE a == Append(st.committed, e)
           k == KeepNewest(a, Cfg.negativeMax)
           r == Commit(st, e)
<1>1. st.committed \in Seq(Entry) /\ Cfg.negativeMax \in Nat
  BY ConfigAssumption DEF Learning, Bounded, ConfigAssumption
<1>2. a \in Seq(Entry)
  BY <1>1
<1> HIDE DEF a
<1>3. k \in Bounded
  BY <1>1, <1>2, KeepNewestFacts DEF Bounded
<1> HIDE DEF k
<1>4. r = [st EXCEPT !.committed = k]
  BY DEF Learning, Commit, k, a
<1> HIDE DEF r
<1>5. /\ r \in [committed : Bounded, before : Seq(Entry), touched : SUBSET Nat,
                kept : SUBSET Nat, new : Seq(Entry)]
      /\ r.before = st.before /\ r.touched = st.touched /\ r.new = st.new
  BY <1>3, <1>4 DEF Learning
<1>6. Learning(r, old, lock)
  BY <1>5 DEF Learning
<1> QED BY <1>6 DEF r

\* One more sight of a committed look.
LEMMA LearnKnown ==
  ASSUME NEW st, NEW old, NEW lock \in Nat, Learning(st, old, lock), NEW id \in TrackIds,
         NEW i \in DOMAIN st.committed
  PROVE  Learning([st EXCEPT !.committed[i] = SeenAgain(@, id)], old, lock)
<1> DEFINE c == st.committed
           d == [c EXCEPT ![i] = SeenAgain(c[i], id)]
           r == [st EXCEPT !.committed[i] = SeenAgain(@, id)]
<1>1. c \in Seq(Entry) /\ Len(c) \in Nat /\ Len(c) <= Cfg.negativeMax /\ DOMAIN c = 1 .. Len(c)
  BY DEF Learning, Bounded
<1>2. c[i] \in Entry
  BY <1>1
<1>3. SeenAgain(c[i], id) \in Entry /\ SeenAgain(c[i], id).look = c[i].look
  BY <1>2, SeenAgainFacts
<1>4. /\ d \in Seq(Entry) /\ Len(d) = Len(c) /\ DOMAIN d = 1 .. Len(c)
      /\ \A j \in 1 .. Len(c) : d[j] = IF j = i THEN SeenAgain(c[i], id) ELSE c[j]
  BY <1>1, <1>3
<1>5. r = [st EXCEPT !.committed = d]
  BY DEF Learning
<1> HIDE DEF d, r
<1>6. LooksOf(d) \subseteq LooksOf(c)
  <2>1. \A j \in 1 .. Len(c) : d[j].look = c[j].look
    BY <1>3, <1>4
  <2> QED BY <1>1, <1>4, <2>1 DEF LooksOf, Entries
<1>7. d \in Bounded
  BY <1>1, <1>4 DEF Bounded
<1>8. /\ r \in [committed : Bounded, before : Seq(Entry), touched : SUBSET Nat,
                kept : SUBSET Nat, new : Seq(Entry)]
      /\ r.committed = d /\ r.before = st.before /\ r.touched = st.touched /\ r.new = st.new
  BY <1>5, <1>7 DEF Learning
<1>9. Learning(r, old, lock)
  BY <1>6, <1>8 DEF Learning
<1> QED BY <1>9 DEF r

\* One more sight of a staged look commits it or keeps it staged.
LEMMA LearnStaged ==
  ASSUME NEW st, NEW old, NEW lock \in Nat, Learning(st, old, lock), NEW id \in TrackIds,
         NEW i \in DOMAIN st.before \ st.touched
  PROVE  Learning(Promote(st, i, id), old, lock)
<1> DEFINE b == st.before
           e == SeenAgain(b[i], id)
           seen == [st EXCEPT !.touched = @ \cup {i}]
           k == [seen EXCEPT !.kept = @ \cup {i}, !.before[i] = e]
<1>1. b \in Seq(Entry) /\ Len(b) \in Nat /\ DOMAIN b = 1 .. Len(b) /\ i \in 1 .. Len(b)
  BY DEF Learning
<1>2. b[i] \in Entry /\ b[i].obs \in Nat /\ Cfg.negativeConfirm \in Nat
  <2>1. b[i] \in Entry
    BY <1>1
  <2>2. \A x \in Entry : x.obs \in Nat
    BY DEF Entry
  <2> HIDE DEF b
  <2> QED BY <2>1, <2>2, ConfigAssumption DEF ConfigAssumption
<1>3. e \in Entry /\ e.obs = IF b[i].obs < Cfg.negativeConfirm THEN b[i].obs + 1 ELSE b[i].obs
  BY <1>2, SeenAgainFacts
<1>4. b[i].obs <= lock /\ (b[i].obs < Cfg.negativeConfirm => b[i].obs + 1 <= lock)
  BY DEF Learning
<1> HIDE DEF e
<1>5. e.obs <= lock /\ e.obs \in Nat
  BY <1>2, <1>3, <1>4
<1>6. /\ seen \in [committed : Bounded, before : Seq(Entry), touched : SUBSET Nat,
                   kept : SUBSET Nat, new : Seq(Entry)]
      /\ seen.before = b /\ seen.committed = st.committed /\ seen.new = st.new
      /\ seen.touched = st.touched \cup {i} /\ seen.kept = st.kept
  <2>1. st.touched \cup {i} \in SUBSET Nat
    BY <1>1 DEF Learning
  <2> QED BY <2>1 DEF Learning
<1> HIDE DEF seen
<1>7. Learning(seen, old, lock)
  BY <1>6 DEF Learning
<1>8. CASE e.obs >= Cfg.negativeConfirm
  <2>1. lock >= Cfg.negativeConfirm
    BY <1>2, <1>5, <1>8
  <2>2. Learning(Commit(seen, e), old, lock)
    BY <1>3, <1>7, <2>1, CommitFacts
  <2> QED BY <1>8, <2>2 DEF Promote, seen, e
<1>9. CASE ~(e.obs >= Cfg.negativeConfirm)
  <2> DEFINE d == [b EXCEPT ![i] = e]
  <2>1. /\ d \in Seq(Entry) /\ DOMAIN d = 1 .. Len(b)
        /\ \A j \in 1 .. Len(b) : d[j] = IF j = i THEN e ELSE b[j]
    BY <1>1, <1>3
  <2>2. k = [seen EXCEPT !.kept = seen.kept \cup {i}, !.before = d]
    BY <1>6
  <2> HIDE DEF d, k
  <2>3. /\ k \in [committed : Bounded, before : Seq(Entry), touched : SUBSET Nat,
                  kept : SUBSET Nat, new : Seq(Entry)]
        /\ k.before = d /\ k.committed = st.committed /\ k.new = st.new
        /\ k.touched = st.touched \cup {i}
    BY <1>1, <1>6, <2>1, <2>2
  <2>4. ASSUME NEW j \in 1 .. Len(b)
        PROVE  /\ d[j].obs <= lock
               /\ j \notin k.touched /\ d[j].obs < Cfg.negativeConfirm => d[j].obs + 1 <= lock
    <3>1. CASE j = i
      BY <1>5, <2>1, <2>3, <3>1
    <3>2. CASE j # i
      <4>1. d[j] = b[j] /\ (j \notin k.touched => j \notin st.touched)
        BY <2>1, <2>3, <3>2
      <4>2. /\ b[j].obs <= lock
            /\ j \notin st.touched /\ b[j].obs < Cfg.negativeConfirm => b[j].obs + 1 <= lock
        BY <1>1 DEF Learning
      <4> QED BY <4>1, <4>2
    <3> QED BY <3>1, <3>2
  <2>5. Learning(k, old, lock)
    BY <2>1, <2>3, <2>4 DEF Learning
  <2>6. Promote(st, i, id) = k
    BY <1>9 DEF Promote, seen, e, k
  <2> QED BY <2>5, <2>6
<1> QED BY <1>8, <1>9

\* A look nobody had before is staged, or committed where one sight is enough.
LEMMA LearnNew ==
  ASSUME NEW st, NEW old, NEW lock \in Nat, lock > 0, Learning(st, old, lock),
         NEW look \in Looks, NEW id \in TrackIds
  PROVE  Learning(Stage(st, look, id), old, lock)
<1> DEFINE e == NewEntry(look, id)
           a == Append(st.new, e)
           r == [st EXCEPT !.new = Append(@, e)]
<1>1. e \in Entry /\ e.obs = 1
  BY NewEntryFacts
<1> HIDE DEF e
<1>2. CASE Cfg.negativeConfirm <= 1
  <2>1. lock >= Cfg.negativeConfirm
    BY <1>2, ConfigAssumption DEF ConfigAssumption
  <2> QED BY <1>1, <1>2, <2>1, CommitFacts DEF Stage, e
<1>3. CASE ~(Cfg.negativeConfirm <= 1)
  <2>1. st.new \in Seq(Entry) /\ DOMAIN st.new = 1 .. Len(st.new) /\ Len(st.new) \in Nat
    BY DEF Learning
  <2>2. /\ a \in Seq(Entry) /\ Len(a) = Len(st.new) + 1
        /\ \A i \in 1 .. Len(st.new) : a[i] = st.new[i]
        /\ a[Len(st.new) + 1] = e
    BY <1>1, <2>1, AppendFacts
  <2>3. r = [st EXCEPT !.new = a]
    BY DEF Learning
  <2> HIDE DEF a, r
  <2>4. /\ r \in [committed : Bounded, before : Seq(Entry), touched : SUBSET Nat,
                  kept : SUBSET Nat, new : Seq(Entry)]
        /\ r.before = st.before /\ r.committed = st.committed /\ r.new = a
        /\ r.touched = st.touched
    BY <2>2, <2>3 DEF Learning
  <2>5. ASSUME NEW i \in DOMAIN a PROVE a[i].obs <= lock
    <3>1. i \in 1 .. Len(st.new) + 1
      BY <2>2
    <3>2. CASE i = Len(st.new) + 1
      BY <1>1, <2>2, <3>2
    <3>3. CASE i # Len(st.new) + 1
      <4>1. i \in DOMAIN st.new /\ a[i] = st.new[i]
        BY <2>1, <2>2, <3>1, <3>3
      <4> QED BY <4>1 DEF Learning
    <3> QED BY <3>2, <3>3
  <2>6. Learning(r, old, lock)
    BY <2>4, <2>5 DEF Learning
  <2>7. Stage(st, look, id) = r
    BY <1>3 DEF Stage, r, e
  <2> QED BY <2>6, <2>7
<1> QED BY <1>2, <1>3

LEMMA LearnOneFacts ==
  ASSUME NEW st, NEW old, NEW lock \in Nat, lock > 0, Learning(st, old, lock),
         NEW look \in Looks, NEW id \in TrackIds
  PROVE  Learning(LearnOne(st, look, id), old, lock)
<1> DEFINE known  == {i \in DOMAIN st.committed : Alike(st.committed[i], look)}
           staged == {i \in DOMAIN st.before \ st.touched :
                        id \in st.before[i].selected /\ Alike(st.before[i], look)}
<1>1. DOMAIN st.committed \subseteq Nat /\ DOMAIN st.before \subseteq Nat
  <2>1. st.committed \in Seq(Entry) /\ st.before \in Seq(Entry)
    BY DEF Learning, Bounded
  <2> QED BY <2>1
<1>2. known \subseteq DOMAIN st.committed /\ staged \subseteq DOMAIN st.before \ st.touched
  OBVIOUS
<1>3. LearnOne(st, look, id) =
        IF known # {} THEN [st EXCEPT !.committed[Min(known)] = SeenAgain(@, id)]
        ELSE IF staged # {} THEN Promote(st, Min(staged), id)
        ELSE Stage(st, look, id)
  BY DEF LearnOne
<1> HIDE DEF known, staged
<1>4. CASE known # {}
  <2>1. known \subseteq Nat
    BY <1>1, <1>2
  <2>2. Min(known) \in DOMAIN st.committed
    BY <1>2, <1>4, <2>1, MinOfNaturals
  <2>3. Learning([st EXCEPT !.committed[Min(known)] = SeenAgain(@, id)], old, lock)
    BY <2>2, LearnKnown
  <2> QED BY <1>3, <1>4, <2>3
<1>5. CASE known = {} /\ staged # {}
  <2>1. staged \subseteq Nat
    BY <1>1, <1>2
  <2>2. Min(staged) \in DOMAIN st.before \ st.touched
    BY <1>2, <1>5, <2>1, MinOfNaturals
  <2> QED BY <1>3, <1>5, <2>2, LearnStaged
<1>6. CASE known = {} /\ staged = {}
  BY <1>3, <1>6, LearnNew
<1> QED BY <1>4, <1>5, <1>6

\* The stages of Learned, up to the N-th.
LearnedUpTo(start, looks, id, N, f) ==
  f = [n \in 0 .. N |-> IF n = 0 THEN start ELSE LearnOne(f[n - 1], looks[n], id)]

LEMMA LearnedExists ==
  ASSUME NEW start, NEW looks, NEW id, NEW N \in Nat
  PROVE  \E f : LearnedUpTo(start, looks, id, N, f)
<1> DEFINE T == {n \in Nat : ~\E f : LearnedUpTo(start, looks, id, n, f)}
<1>1. ASSUME T # {} PROVE FALSE
  <2>1. PICK m \in T : \A k \in T : m <= k
    BY <1>1, LeastNatural
  <2>2. m \in Nat /\ ~\E f : LearnedUpTo(start, looks, id, m, f)
    OBVIOUS
  <2>3. CASE m = 0
    <3> DEFINE f == [n \in 0 .. 0 |-> start]
    <3>1. f = [n \in 0 .. 0 |-> IF n = 0 THEN start ELSE LearnOne(f[n - 1], looks[n], id)]
      OBVIOUS
    <3>2. LearnedUpTo(start, looks, id, 0, f)
      BY <3>1 DEF LearnedUpTo
    <3> QED BY <2>2, <2>3, <3>2
  <2>4. CASE m > 0
    <3>1. m - 1 \in Nat /\ m - 1 \notin T
      BY <2>1, <2>2, <2>4
    <3>2. PICK g : LearnedUpTo(start, looks, id, m - 1, g)
      BY <3>1
    <3> DEFINE f == [n \in 0 .. m |-> IF n < m THEN g[n] ELSE LearnOne(g[n - 1], looks[n], id)]
    <3>3. ASSUME NEW n \in 0 .. m
          PROVE  f[n] = IF n = 0 THEN start ELSE LearnOne(f[n - 1], looks[n], id)
      <4>1. CASE n < m
        <5>1. n \in 0 .. m - 1
          BY <2>2, <4>1
        <5>2. g[n] = IF n = 0 THEN start ELSE LearnOne(g[n - 1], looks[n], id)
          BY <3>2, <5>1 DEF LearnedUpTo
        <5>3. f[n] = g[n] /\ (n # 0 => f[n - 1] = g[n - 1])
          BY <2>2, <4>1
        <5> HIDE DEF f
        <5> QED BY <5>2, <5>3
      <4>2. CASE n = m
        <5>1. f[n - 1] = g[n - 1] /\ n # 0
          BY <2>2, <2>4, <4>2
        <5>2. f[n] = LearnOne(g[n - 1], looks[n], id)
          BY <2>2, <4>2
        <5> HIDE DEF f
        <5> QED BY <5>1, <5>2
      <4> QED BY <2>2, <4>1, <4>2
    <3>4. f = [n \in 0 .. m |-> f[n]]
      OBVIOUS
    <3> HIDE DEF f
    <3>5. LearnedUpTo(start, looks, id, m, f)
      BY <3>3, <3>4, Zenon DEF LearnedUpTo
    <3> QED BY <2>2, <3>5
  <2> QED BY <2>2, <2>3, <2>4
<1> QED BY <1>1

LEMMA LearnedFacts ==
  ASSUME NEW st, NEW old, NEW lock \in Nat, lock > 0, Learning(st, old, lock),
         NEW looks \in Seq(Looks), NEW id \in TrackIds
  PROVE  Learning(Learned(st, looks, id), old, lock)
<1> DEFINE f == CHOOSE g : LearnedUpTo(st, looks, id, Len(looks), g)
           T == {n \in 0 .. Len(looks) : ~Learning(f[n], old, lock)}
<1>1. Len(looks) \in Nat /\ \A i \in 1 .. Len(looks) : looks[i] \in Looks
  OBVIOUS
<1>2. LearnedUpTo(st, looks, id, Len(looks), f)
  <2>1. \E g : LearnedUpTo(st, looks, id, Len(looks), g)
    BY <1>1, LearnedExists
  <2> QED BY <2>1
<1>3. Learned(st, looks, id) = f[Len(looks)]
  BY DEF Learned, LearnedUpTo
<1> HIDE DEF f
<1>4. \A n \in 0 .. Len(looks) :
        f[n] = IF n = 0 THEN st ELSE LearnOne(f[n - 1], looks[n], id)
  BY <1>2 DEF LearnedUpTo
<1>5. ASSUME T # {} PROVE FALSE
  <2>1. T \subseteq Nat
    BY <1>1
  <2>2. PICK m \in T : \A k \in T : m <= k
    <3> HIDE DEF T
    <3> QED BY <1>5, <2>1, LeastNatural
  <2>3. m \in 0 .. Len(looks) /\ ~Learning(f[m], old, lock)
    OBVIOUS
  <2>4. CASE m = 0
    BY <1>4, <2>3, <2>4
  <2>5. CASE m # 0
    <3>1. m \in 1 .. Len(looks) /\ m - 1 \in 0 .. Len(looks) /\ m - 1 < m
      BY <1>1, <2>3, <2>5
    <3>2. m - 1 \notin T
      BY <2>2, <3>1
    <3>3. Learning(f[m - 1], old, lock)
      BY <3>1, <3>2
    <3>4. f[m] = LearnOne(f[m - 1], looks[m], id) /\ looks[m] \in Looks
      BY <1>1, <1>4, <2>5, <3>1
    <3> HIDE DEF T
    <3> QED BY <2>3, <3>3, <3>4, LearnOneFacts
  <2> QED BY <2>4, <2>5
<1>6. Learning(f[Len(looks)], old, lock)
  BY <1>1, <1>5
<1> QED BY <1>3, <1>6

LEMMA Concatenated ==
  ASSUME NEW S, NEW s \in Seq(S), NEW t \in Seq(S)
  PROVE  s \o t \in Seq(S) /\ Entries(s \o t) \subseteq Entries(s) \cup Entries(t)
<1> DEFINE c == s \o t
<1>1. /\ Len(s) \in Nat /\ Len(t) \in Nat /\ c \in Seq(S) /\ Len(c) = Len(s) + Len(t)
      /\ DOMAIN s = 1 .. Len(s) /\ DOMAIN t = 1 .. Len(t)
  OBVIOUS
<1>2. \A i \in 1 .. Len(s) + Len(t) : c[i] = IF i <= Len(s) THEN s[i] ELSE t[i - Len(s)]
  OBVIOUS
<1> HIDE DEF c
<1>3. ASSUME NEW x \in Entries(c) PROVE x \in Entries(s) \cup Entries(t)
  <2>1. PICK i \in 1 .. Len(s) + Len(t) : x = c[i]
    BY <1>1 DEF Entries
  <2>2. CASE i <= Len(s)
    <3>1. i \in DOMAIN s /\ x = s[i]
      BY <1>1, <1>2, <2>1, <2>2
    <3> QED BY <3>1 DEF Entries
  <2>3. CASE ~(i <= Len(s))
    <3>1. i - Len(s) \in DOMAIN t /\ x = t[i - Len(s)]
      BY <1>1, <1>2, <2>1, <2>3
    <3> QED BY <3>1 DEF Entries
  <2> QED BY <2>2, <2>3
<1> QED BY <1>1, <1>3 DEF c

\* The lock holds for the lock-th message when this update comes.
LEMMA LearnNegativesFacts ==
  ASSUME NEW n, NegativeOK(n), NEW lock \in Nat, lock > 0, NEW looks \in Seq(Looks), NEW id \in TrackIds,
         \A o \in SightsOf(n.pending) : o <= lock /\ (o < Cfg.negativeConfirm => o + 1 <= lock)
  PROVE  LET r == LearnNegatives(n, looks, id) IN
         /\ NegativeOK(r)
         /\ LooksOf(r.committed) \subseteq LooksOf(n.committed) \/ lock >= Cfg.negativeConfirm
         /\ \A o \in SightsOf(r.pending) : o <= lock
<1> DEFINE start == [committed |-> n.committed, before |-> n.pending, touched |-> {},
                     kept |-> {}, new |-> <<>>]
           old == LooksOf(n.committed)
           end == Learned(start, looks, id)
           again == Kept(end.before, end.kept)
           staged == again \o end.new
           fresh == {i \in DOMAIN staged :
                       ~\E c \in Entries(end.committed) : Alike(c, staged[i].look)}
           left == Kept(staged, fresh)
           pending == KeepNewest(left, Cfg.negativeMax)
           Few(s) == \A e \in Entries(s) : e.obs <= lock
<1>1. Learning(start, old, lock)
  <2>1. /\ start \in [committed : Bounded, before : Seq(Entry), touched : SUBSET Nat,
                      kept : SUBSET Nat, new : Seq(Entry)]
        /\ start.committed = n.committed /\ start.before = n.pending /\ DOMAIN start.new = {}
    BY DEF NegativeOK, Bounded
  <2>2. \A i \in DOMAIN n.pending : n.pending[i].obs \in SightsOf(n.pending)
    BY DEF SightsOf, Entries
  <2> HIDE DEF start
  <2> QED BY <2>1, <2>2 DEF Learning
<1> HIDE DEF start, old
<1>2. Learning(end, old, lock)
  BY <1>1, LearnedFacts
<1> HIDE DEF end
<1>3. /\ end.committed \in Bounded /\ end.before \in Seq(Entry) /\ end.new \in Seq(Entry)
      /\ LooksOf(end.committed) \subseteq old \/ lock >= Cfg.negativeConfirm
      /\ Few(end.before) /\ Few(end.new)
  BY <1>2 DEF Learning, Entries
<1>4. again \in Seq(Entry) /\ Few(again)
  <2>1. /\ again \in Seq(Entry)
        /\ \A x \in Entries(again) : \E i \in DOMAIN end.before : i \in end.kept /\ x = end.before[i]
    BY <1>3, KeptFacts
  <2> HIDE DEF again
  <2>2. Entries(again) \subseteq Entries(end.before)
    BY <2>1 DEF Entries
  <2> QED BY <1>3, <2>1, <2>2
<1> HIDE DEF again
<1>5. staged \in Seq(Entry) /\ Few(staged)
  <2>1. staged \in Seq(Entry) /\ Entries(staged) \subseteq Entries(again) \cup Entries(end.new)
    BY <1>3, <1>4, Concatenated
  <2> HIDE DEF staged
  <2> QED BY <1>3, <1>4, <2>1
<1> HIDE DEF staged, fresh
<1>6. left \in Seq(Entry) /\ Few(left)
  <2>1. /\ left \in Seq(Entry)
        /\ \A x \in Entries(left) : \E i \in DOMAIN staged : i \in fresh /\ x = staged[i]
    BY <1>5, KeptFacts
  <2> HIDE DEF left
  <2>2. Entries(left) \subseteq Entries(staged)
    BY <2>1 DEF Entries
  <2> QED BY <1>5, <2>1, <2>2
<1> HIDE DEF left
<1>7. pending \in Bounded /\ Few(pending)
  <2>1. /\ pending \in Seq(Entry) /\ Len(pending) <= Cfg.negativeMax
        /\ Entries(pending) \subseteq Entries(left)
    BY <1>6, KeepNewestFacts, ConfigAssumption DEF ConfigAssumption
  <2> HIDE DEF pending
  <2> QED BY <1>6, <2>1 DEF Bounded
<1>8. LearnNegatives(n, looks, id) = [committed |-> end.committed, pending |-> pending]
  BY DEF LearnNegatives, start, end, again, staged, fresh, left
<1> HIDE DEF pending
<1> QED BY <1>3, <1>7, <1>8 DEF NegativeOK, SightsOf, old

LEMMA DistractorsType ==
  ASSUME NEW scene \in Scenes, NEW p, ProposalOK(p, scene)
  PROVE  Distractors(p, scene) \in Seq(Looks)
<1> DEFINE Of(s) == CHOOSE x \in scene.seen : x.id = s.id
           Likeness(s) == IF s.protected > 0 THEN s.protected ELSE s.app
           kept == {s \in p.all :
                      /\ s.id # p.id /\ s.allows /\ Max({s.distance, s.iou}) >= Cfg.negativeMinGeometry
                      /\ Of(s).look # None /\ Of(s).crop = "good"
                      /\ Likeness(s) >= Cfg.negativeCandidate
                      /\ Likeness(s) <= Cfg.negativeMaxPositive}
           ranked == InOrder(kept)
<1>1. Distractors(p, scene) = [i \in DOMAIN ranked |-> Of(ranked[i]).look]
  BY DEF Distractors
<1>2. kept \subseteq p.all /\ \A s \in kept : Of(s).look # None
  OBVIOUS
<1> HIDE DEF kept, Likeness
<1>3. ASSUME NEW s \in kept PROVE Of(s).look \in Looks
  <2>1. \E x \in scene.seen : x.id = s.id
    BY <1>2 DEF ProposalOK, ScoresOK, ScoreOK
  <2>2. Of(s) \in scene.seen
    BY <2>1
  <2> HIDE DEF Of
  <2> QED BY <1>2, <2>2, SceneAssumption DEF SceneAssumption
<1>4. ranked \in Seq(kept)
  BY <1>2, Subscores, InOrderType DEF ProposalOK
<1> HIDE DEF ranked, Of
<1>5. DOMAIN ranked = 1 .. Len(ranked) /\ Len(ranked) \in Nat /\ \A i \in 1 .. Len(ranked) : ranked[i] \in kept
  BY <1>4
<1>6. [i \in DOMAIN ranked |-> Of(ranked[i]).look] \in [1 .. Len(ranked) -> Looks]
  BY <1>3, <1>5
<1> QED BY <1>1, <1>5, <1>6

-----------------------------------------------------------------------------
(* The inductive invariant of the memories' sizes and of the evidence.     *)

SizesOK ==
  /\ target.missed <= Cfg.globalAfter
  /\ Len(positive.gallery) <= Cfg.galleryMax
  /\ persistence \in [id : TrackIds \cup {NoId}, count : Nat, evidence : BOOLEAN]
  /\ out.state \in States \cup {"REACQUIRED"}

\* What is staged under a lock was seen in no more messages than the lock has
\* been trusted for without a break.
EvidenceOK ==
  /\ NegativeOK(negative)
  /\ history.lock \in 0 .. Cfg.negativeConfirm
  /\ target.state = "LOCKED" => \A o \in SightsOf(negative.pending) : o <= history.lock

MInv == SizesOK /\ EvidenceOK

\* Committed evidence of a look without any before it needs the lock.
FromLock == LooksOf(negative'.committed) \subseteq LooksOf(negative.committed)
              \/ history'.lock >= Cfg.negativeConfirm

LEMMA EmptyNegativeFacts ==
  NegativeOK(EmptyNegative) /\ LooksOf(<<>>) = {} /\ SightsOf(<<>>) = {}
<1>1. <<>> \in Bounded
  BY ConfigAssumption DEF Bounded, ConfigAssumption
<1>2. LooksOf(<<>>) = {} /\ SightsOf(<<>>) = {}
  BY DEF LooksOf, SightsOf, Entries
<1> QED BY <1>1, <1>2 DEF NegativeOK, EmptyNegative

LEMMA InitMInv == Init => MInv
<1> SUFFICES ASSUME Init PROVE MInv
  OBVIOUS
<1>1. SizesOK
  BY ConfigAssumption
    DEF Init, SizesOK, NoTarget, EmptyPositive, NoPersistence, Output, States, ConfigAssumption
<1>2. EvidenceOK
  BY EmptyNegativeFacts, ConfigAssumption
    DEF Init, EvidenceOK, NoTarget, EmptyNegative, ConfigAssumption
<1> QED BY <1>1, <1>2 DEF MInv

LEMMA FreshMInv ==
  ASSUME negative' = EmptyNegative, positive'.gallery = <<>>, persistence' = NoPersistence,
         target'.missed = 0, history'.lock = 0, out'.state \in States
  PROVE  MInv' /\ FromLock
<1>1. SizesOK'
  BY ConfigAssumption DEF SizesOK, NoPersistence, ConfigAssumption
<1>2. EvidenceOK'
  BY EmptyNegativeFacts, ConfigAssumption DEF EvidenceOK, EmptyNegative, ConfigAssumption
<1>3. FromLock
  BY EmptyNegativeFacts DEF FromLock, EmptyNegative
<1> QED BY <1>1, <1>2, <1>3 DEF MInv

\* A selection and a clearing leave the memories as they begin.
LEMMA RestartStep ==
  ASSUME (\E c : Select(c)) \/ Clear
  PROVE  MInv' /\ FromLock
<1>1. CASE \E c : Select(c)
  <2>1. PICK c : Select(c)
    BY <1>1
  <2>2. /\ negative' = EmptyNegative /\ persistence' = NoPersistence
        /\ target'.missed = 0 /\ history'.lock = 0 /\ out'.state \in States
    BY <2>1 DEF Select, Output, States
  <2>3. positive'.gallery = <<>>
    BY <2>1 DEF Select, SelectOperator, EmptyPositive
  <2> QED BY <2>2, <2>3, FreshMInv
<1>2. CASE Clear
  <2>1. /\ negative' = EmptyNegative /\ persistence' = NoPersistence
        /\ target'.missed = 0 /\ history'.lock = 0 /\ out'.state \in States
        /\ positive'.gallery = <<>>
    BY <1>2 DEF Clear, Output, States, NoTarget, EmptyPositive
  <2> QED BY <2>1, FreshMInv
<1> QED BY <1>1, <1>2

LEMMA MissMInv ==
  ASSUME IInv, MInv, NEW scene \in Scenes, target.state # "NO_TARGET", NEW id, Miss(scene, id)
  PROVE  MInv' /\ FromLock
<1>1. /\ target' = [target EXCEPT !.missed = Missed, !.state = MissState]
      /\ positive' = Present(scene) /\ negative' = GrowOlder(negative)
      /\ persistence' = NoPersistence /\ out'.state = MissState
      /\ Observe(scene, FALSE, FALSE, FALSE)
  BY DEF Miss, Output
<1>2. MissState \in {"UNCERTAIN", "LOST"}
  BY DEF MissState
<1>3. Missed <= Cfg.globalAfter
  BY ConfigAssumption DEF MInv, SizesOK, IInv, TargetOK, Missed, ConfigAssumption
<1>4. target'.missed = Missed /\ target'.state = MissState
  BY <1>1 DEF IInv, TargetOK
<1>5. positive'.gallery = positive.gallery
  BY <1>1, PresentFacts
<1>6. SizesOK'
  BY <1>1, <1>2, <1>3, <1>4, <1>5 DEF MInv, SizesOK, NoPersistence, States
<1>7. NegativeOK(negative') /\ Inherits(negative', negative)
  BY <1>1, GrowOlderFacts DEF MInv, EvidenceOK
<1>8. history'.lock = 0
  BY <1>1 DEF Observe
<1>9. EvidenceOK'
  BY <1>2, <1>4, <1>7, <1>8, ConfigAssumption DEF EvidenceOK, ConfigAssumption
<1> QED BY <1>6, <1>7, <1>9 DEF MInv, FromLock, Inherits

LEMMA ProbationMInv ==
  ASSUME IInv, MInv, NEW scene \in Scenes, NEW p, NEW c \in scene.seen, c.id = p.id,
         Probation(scene, p, c)
  PROVE  MInv' /\ FromLock
<1> DEFINE proof == c.look # None /\ p.score.evaluated /\ p.score.app >= Cfg.minSimilarity
           excuse == persistence.id = p.id /\ persistence.evidence
<1>1. /\ positive' = Present(scene)
      /\ negative' = DiscardPending(GrowOlder(negative))
      /\ persistence' = [id |-> p.id, count |-> Observed(p), evidence |-> proof \/ excuse]
      /\ out'.state = "REACQUIRED"
      /\ Observe(scene, TRUE, Proof(p, c), FALSE)
      /\ target' = target
  BY DEF Probation, Output
<1>2. p.id \in TrackIds
  BY SceneAssumption DEF SceneAssumption
<1>3. Observed(p) \in Nat
  BY DEF Observed, IInv, ProbationOK
<1>4. (proof \/ excuse) \in BOOLEAN
  OBVIOUS
<1> HIDE DEF proof, excuse
<1>5. positive'.gallery = positive.gallery
  BY <1>1, PresentFacts
<1>6. SizesOK'
  BY <1>1, <1>2, <1>3, <1>4, <1>5 DEF MInv, SizesOK
<1>7. NegativeOK(GrowOlder(negative)) /\ Inherits(GrowOlder(negative), negative)
  BY GrowOlderFacts DEF MInv, EvidenceOK
<1>8. /\ NegativeOK(negative') /\ Inherits(negative', GrowOlder(negative))
      /\ SightsOf(negative'.pending) = {}
  BY <1>1, <1>7, DiscardPendingFacts
<1>9. Inherits(negative', negative)
  BY <1>7, <1>8, InheritsTrans
<1>10. history'.lock = 0
  BY <1>1 DEF Observe
<1>11. EvidenceOK'
  BY <1>8, <1>10, ConfigAssumption DEF EvidenceOK, ConfigAssumption
<1> QED BY <1>6, <1>9, <1>11 DEF MInv, FromLock, Inherits

LEMMA TaughtSizes ==
  ASSUME IInv, MInv, NEW scene \in Scenes, NEW p, p.id \in TrackIds,
         NEW c \in scene.seen, c.id = p.id, NEW blend \in BOOLEAN
  PROVE  Len(Taught(p, c, scene, blend).gallery) <= Cfg.galleryMax
<1> DEFINE before     == Present(scene)
           reacquired == ~IsTarget(p) \/ LostIsh
           unbroken   == /\ before.anchor = None /\ before.operator = p.id
                         /\ before.lineage = p.id /\ before.supported
           supported  == p.score.source \in {"anchor", "gallery"} /\ p.score.app >= Cfg.switchSimilarity
           l == IF reacquired /\ ~unbroken THEN BeginLineage(before, p.id, supported) ELSE before
           eligible   == c.crop = "good" /\ c.look # None /\ ~p.score.ambiguous /\ ~p.score.hostile
           t == Taught(p, c, scene, blend)
           g == KeepNewest(Append(l.gallery, c.look), Cfg.galleryMax)
<1>1. before.gallery = positive.gallery /\ PositiveOK(before) /\ positive.gallery \in Seq(Looks)
  BY PresentFacts DEF IInv, PositiveOK
<1>2. t = IF eligible THEN Learn(l, p.id, c.look, blend) ELSE l
  BY DEF Taught
<1>3. c.look \in Looks \cup {None} /\ (eligible => c.look # None)
  BY SceneAssumption DEF SceneAssumption
<1> HIDE DEF before, reacquired, unbroken, supported, eligible, t
<1>4. l.gallery = positive.gallery /\ l.trusted \in BOOLEAN
  <2>1. BeginLineage(before, p.id, supported).gallery = before.gallery
    BY <1>1 DEF BeginLineage, PositiveOK
  <2>2. BeginLineage(before, p.id, supported).trusted = FALSE
    BY <1>1 DEF BeginLineage, PositiveOK
  <2>3. before.trusted \in BOOLEAN
    BY <1>1 DEF PositiveOK
  <2> QED BY <1>1, <2>1, <2>2, <2>3
<1> HIDE DEF l
<1>5. Len(positive.gallery) <= Cfg.galleryMax /\ Cfg.galleryMax \in Nat
  BY ConfigAssumption DEF MInv, SizesOK, ConfigAssumption
<1>6. CASE eligible
  <2>1. Append(l.gallery, c.look) \in Seq(Looks)
    BY <1>1, <1>3, <1>4, <1>6
  <2>2. Len(g) <= Cfg.galleryMax
    BY <1>5, <2>1, KeepNewestFacts
  <2> HIDE DEF g
  <2>3. t.gallery \in {l.gallery, g}
    BY <1>2, <1>6 DEF Learn, Bootstrap, ObserveLocked, UpdateTrusted, g
  <2> QED BY <1>4, <1>5, <2>2, <2>3 DEF t
<1>7. CASE ~eligible
  BY <1>2, <1>4, <1>5, <1>7 DEF t
<1> QED BY <1>6, <1>7

\* What an accepted track teaches the negative memory: nothing stays staged
\* unless the lock is trusted, and nothing new is committed before its time.
LEMMA TaughtNegativeFacts ==
  ASSUME MInv, NEW scene \in Scenes, NEW p, ProposalOK(p, scene), p.id \in TrackIds, NEW c,
         NEW f, NEW g, Observe(scene, f, g, TrustedContinuity(p, c))
  PROVE  LET n == TaughtNegative(p, c, scene) IN
         /\ NegativeOK(n)
         /\ LooksOf(n.committed) \subseteq LooksOf(negative.committed)
              \/ history'.lock >= Cfg.negativeConfirm
         /\ history'.lock \in 0 .. Cfg.negativeConfirm
         /\ \A o \in SightsOf(n.pending) : o <= history'.lock
<1> DEFINE older == GrowOlder(negative)
           clean == IF positive'.trusted /\ c.crop = "good" THEN Reconcile(older, c.look, p.id) ELSE older
           aged  == ExpireCommitted(clean)
           looks == Distractors(p, scene)
           n     == TaughtNegative(p, c, scene)
           empty == positive.anchor = None /\ positive.gallery = <<>>
           trust == TrustedContinuity(p, c)
<1>0. /\ Cfg.negativeConfirm \in Nat \ {0} /\ history.lock \in Nat /\ history.lock <= Cfg.negativeConfirm
      /\ \A e \in SightsOf(negative.pending) : e \in Nat
  <2>1. Cfg.negativeConfirm \in Nat \ {0}
    BY ConfigAssumption DEF ConfigAssumption
  <2>2. negative.pending \in Seq(Entry)
    BY DEF MInv, EvidenceOK, NegativeOK, Bounded
  <2>3. \A i \in DOMAIN negative.pending : negative.pending[i].obs \in Nat
    <3>1. \A i \in DOMAIN negative.pending : negative.pending[i] \in Entry
      BY <2>2
    <3>2. \A e \in Entry : e.obs \in Nat
      BY DEF Entry
    <3> QED BY <3>1, <3>2
  <2>4. history.lock \in 0 .. Cfg.negativeConfirm
    BY DEF MInv, EvidenceOK
  <2>5. \A e \in SightsOf(negative.pending) : e \in Nat
    BY <2>3 DEF SightsOf, Entries
  <2> QED BY <2>1, <2>4, <2>5
<1>1. NegativeOK(older) /\ Inherits(older, negative)
  BY GrowOlderFacts DEF MInv, EvidenceOK
<1>2. n = IF ~trust THEN DiscardPending(clean)
          ELSE IF empty THEN aged ELSE LearnNegatives(aged, looks, p.id)
  BY DEF TaughtNegative
<1>3. history'.lock = IF trust THEN UpTo(history.lock + 1, Cfg.negativeConfirm) ELSE 0
  BY DEF Observe
<1>4. trust => target.state = "LOCKED"
  BY DEF TrustedContinuity
<1> HIDE DEF older, n, trust, empty
<1>5. NegativeOK(clean) /\ Inherits(clean, negative)
  <2>1. NegativeOK(Reconcile(older, c.look, p.id)) /\ Inherits(Reconcile(older, c.look, p.id), older)
    BY <1>1, ReconcileFacts
  <2>2. Inherits(Reconcile(older, c.look, p.id), negative)
    BY <1>1, <2>1, InheritsTrans
  <2> QED BY <1>1, <2>1, <2>2
<1> HIDE DEF clean
<1>6. NegativeOK(aged) /\ Inherits(aged, negative)
  BY <1>5, ExpireCommittedFacts, InheritsTrans
<1> HIDE DEF aged
<1>7. CASE ~trust
  <2>1. /\ NegativeOK(n) /\ Inherits(n, clean) /\ SightsOf(n.pending) = {}
    BY <1>2, <1>5, <1>7, DiscardPendingFacts
  <2>2. Inherits(n, negative)
    BY <1>5, <2>1, InheritsTrans
  <2> QED BY <1>0, <1>3, <1>7, <2>1, <2>2 DEF Inherits, n
<1>8. CASE trust
  <2> DEFINE lock == history'.lock
  <2>1. /\ lock \in Nat /\ lock > 0 /\ lock <= Cfg.negativeConfirm
        /\ history.lock <= lock
        /\ history.lock + 1 <= lock \/ lock = Cfg.negativeConfirm
    BY <1>0, <1>3, <1>8 DEF UpTo
  <2> HIDE DEF lock
  <2>2. \A o \in SightsOf(aged.pending) : o \in Nat /\ o <= history.lock
    BY <1>0, <1>4, <1>6, <1>8 DEF Inherits, MInv, EvidenceOK
  <2>3. \A o \in SightsOf(aged.pending) : o <= lock /\ (o < Cfg.negativeConfirm => o + 1 <= lock)
    BY <1>0, <2>1, <2>2
  <2>4. CASE empty
    <3>1. n = aged
      BY <1>2, <1>8, <2>4
    <3> QED BY <1>0, <1>6, <2>1, <2>3, <3>1 DEF Inherits, n, lock
  <2>5. CASE ~empty
    <3>1. n = LearnNegatives(aged, looks, p.id)
      BY <1>2, <1>8, <2>5
    <3>2. looks \in Seq(Looks)
      BY DistractorsType
    <3> HIDE DEF looks
    <3>3. /\ NegativeOK(n)
          /\ LooksOf(n.committed) \subseteq LooksOf(aged.committed) \/ lock >= Cfg.negativeConfirm
          /\ \A o \in SightsOf(n.pending) : o <= lock
      BY <1>6, <2>1, <2>3, <3>1, <3>2, LearnNegativesFacts
    <3>4. LooksOf(n.committed) \subseteq LooksOf(negative.committed) \/ lock >= Cfg.negativeConfirm
      BY <1>6, <3>3 DEF Inherits
    <3> QED BY <1>0, <2>1, <3>3, <3>4 DEF n, lock
  <2> QED BY <2>4, <2>5
<1> QED BY <1>7, <1>8

LEMMA AcceptMInv ==
  ASSUME IInv, MInv, NEW scene \in Scenes, NEW p, ProposalOK(p, scene),
         NEW c \in scene.seen, c.id = p.id, Accept(scene, p, c)
  PROVE  MInv' /\ FromLock
<1>1. PICK blend \in BOOLEAN : positive' = Taught(p, c, scene, blend)
  BY DEF Accept
<1>2. /\ negative' = TaughtNegative(p, c, scene) /\ persistence' = NoPersistence
      /\ target' = [state |-> "LOCKED", id |-> p.id, missed |-> 0]
      /\ out'.state = "LOCKED"
      /\ Observe(scene, FALSE, Proof(p, c), TrustedContinuity(p, c))
  BY DEF Accept, Output
<1>3. p.id \in TrackIds
  BY SceneAssumption DEF SceneAssumption
<1>4. Len(positive'.gallery) <= Cfg.galleryMax
  BY <1>1, <1>3, TaughtSizes
<1>5. SizesOK'
  BY <1>2, <1>4, ConfigAssumption DEF SizesOK, States, NoPersistence, ConfigAssumption
<1>6. /\ NegativeOK(negative')
      /\ LooksOf(negative'.committed) \subseteq LooksOf(negative.committed)
           \/ history'.lock >= Cfg.negativeConfirm
      /\ history'.lock \in 0 .. Cfg.negativeConfirm
      /\ \A o \in SightsOf(negative'.pending) : o <= history'.lock
  BY <1>2, <1>3, TaughtNegativeFacts
<1>7. EvidenceOK'
  BY <1>6 DEF EvidenceOK
<1> QED BY <1>5, <1>6, <1>7 DEF MInv, FromLock

LEMMA StepMInv ==
  ASSUME IInv, MInv, [Next]_vars
  PROVE  MInv' /\ FromLock
<1>1. CASE \E scene \in Scenes : \E c \in scene.seen : Select(c)
  BY <1>1, RestartStep
<1>2. CASE Clear
  BY <1>2, RestartStep
<1>3. CASE Idle
  <2>1. UNCHANGED <<target, positive, negative, persistence, history>> /\ out'.state = "NO_TARGET"
    BY <1>3 DEF Idle, Output
  <2> QED BY <2>1 DEF MInv, SizesOK, EvidenceOK, NegativeOK, FromLock, States
<1>4. CASE UNCHANGED vars
  BY <1>4 DEF vars, MInv, SizesOK, EvidenceOK, NegativeOK, FromLock
<1>5. CASE target.state # "NO_TARGET" /\ \E scene \in Scenes : \E id : Miss(scene, id)
  BY <1>5, MissMInv
<1>6. ASSUME NEW scene \in Scenes, NEW p \in Proposed(scene), NEW c \in scene.seen,
             ProposalOK(p, scene), c.id = p.id, Probation(scene, p, c)
      PROVE  MInv' /\ FromLock
  BY <1>6, ProbationMInv
<1>7. ASSUME NEW scene \in Scenes, NEW p \in Proposed(scene), NEW c \in scene.seen,
             ProposalOK(p, scene), c.id = p.id, Accept(scene, p, c)
      PROVE  MInv' /\ FromLock
  BY <1>7, AcceptMInv
<1> QED BY <1>1, <1>2, <1>3, <1>4, <1>5, <1>6, <1>7, StepCases

LEMMA EvidenceInvariance == Spec => [](IInv /\ MInv)
<1>1. Init => IInv /\ MInv
  BY InitInv, InitMInv
<1>2. (IInv /\ MInv) /\ [Next]_vars => (IInv /\ MInv)'
  BY Inductive, StepMInv
<1> QED BY <1>1, <1>2, PTL DEF Spec

\* What the memories hold fits together between two messages.
THEOREM Memory_Consistent == Spec => []MemoryConsistent
<1>1. ASSUME IInv, MInv PROVE MemoryConsistent
  <2>1. target \in [state : {"NO_TARGET", "LOCKED", "UNCERTAIN", "LOST"},
                    id : TrackIds \cup {NoId}, missed : 0 .. Cfg.globalAfter]
    BY <1>1, ConfigAssumption DEF IInv, TargetOK, States, MInv, SizesOK, ConfigAssumption
  <2>2. positive.anchor \in Looks \cup {None} /\ Entries(positive.gallery) \subseteq Looks
    BY <1>1, EntriesOf DEF IInv, PositiveOK
  <2>3. Len(negative.committed) <= Cfg.negativeMax /\ Len(negative.pending) <= Cfg.negativeMax
    BY <1>1 DEF MInv, EvidenceOK, NegativeOK, Bounded
  <2>4. TypeOK
    BY <1>1, <2>1, <2>2, <2>3 DEF TypeOK, MInv, SizesOK, States
  <2>5. TrustFollowsTarget /\ NegativesHaveAnAnchor
    BY <1>1 DEF IInv, AnchorOK, Grounded, TrustFollowsTarget, NegativesHaveAnAnchor
  <2> QED BY <2>4, <2>5 DEF MemoryConsistent
<1>2. IInv /\ MInv => MemoryConsistent
  BY <1>1
<1> QED BY <1>2, EvidenceInvariance, PTL

\* A look is committed as a negative only under a lock that was trusted in as
\* many consecutive messages as a negative needs sights.
THEOREM Negatives_From_Unbroken_Lock == Spec => NegativesFromUnbrokenLock
<1>1. (IInv /\ MInv) /\ [Next]_vars =>
        [(\E e \in Entries(negative'.committed) :
            \A d \in Entries(negative.committed) : d.look # e.look) =>
           history'.lock >= Cfg.negativeConfirm]_vars
  <2> SUFFICES ASSUME IInv, MInv, [Next]_vars,
                      NEW e \in Entries(negative'.committed),
                      \A d \in Entries(negative.committed) : d.look # e.look
               PROVE  history'.lock >= Cfg.negativeConfirm
    OBVIOUS
  <2>1. FromLock
    BY StepMInv
  <2>2. e.look \in LooksOf(negative'.committed) /\ e.look \notin LooksOf(negative.committed)
    BY DEF LooksOf
  <2> QED BY <2>1, <2>2 DEF FromLock
<1> QED BY <1>1, EvidenceInvariance, PTL DEF Spec, NegativesFromUnbrokenLock
==============================================================================
