--------------------------- MODULE ReidProofs ---------------------------
(***************************************************************************)
(* Theorems about ReidLink, for every set of tracks, every capacity and    *)
(* every bound of the counters.  Numbers may be used again by a restarted  *)
(* TIM-MARS under one assumption, RestartIsSlow.                           *)
(***************************************************************************)
EXTENDS ReidLink, ReidService, TLAPS

\* A request of the old process is too old to be run before the new process
\* sends its first.
RestartIsSlow == RestartTime > Deadline

-----------------------------------------------------------------------------
(* The inductive invariant.                                                *)

Request == [id : Nat, process : Nat, track : Tracks, frameGen : Nat, trackGen : Nat,
            submitted : Nat, deadline : Nat, period : Nat]

CountersOK ==
  /\ {now, process, nextId, frameGen, cancels, readyAt, lastReconcile} \subseteq Nat
  /\ trackGen \in [Tracks -> Nat]
  /\ recent \in Seq(Nat)

\* What any request is that was ever sent: one of an older process has expired
\* before the present process was up, and no request shares its process and
\* its number with another one in flight.
Sent(q) ==
  /\ q.process <= process /\ q.submitted <= now /\ q.deadline = q.submitted + Deadline
  /\ q.process = process => q.id < nextId
  /\ RestartIsSlow /\ q.process # process => q.deadline < readyAt
  /\ \A r \in inFlight : r.process = q.process /\ r.id = q.id => r = q

Known == {q \in Request : Sent(q)}

Why == {"duplicate", "not_newer", "superseded", "overflow", "expired", "backend"}

\* An answer is of the request it names; one of success was begun in time.
Answer ==
  {a \in [id : Nat, of : Known, started : Nat, completed : Nat, ok : BOOLEAN, why : Why] :
     a.id = a.of.id /\ (a.ok => a.started <= a.of.deadline)}

WorkerOK ==
  \/ worker = Idle
  \/ worker \in [at : {"took", "emitted", "dead"}, req : Known]
  \/ /\ worker \in [at : {"running"}, req : Known, started : Nat]
     /\ worker.started <= worker.req.deadline
  \/ worker \in [at : {"done"}, req : Known, result : Answer]

Channels ==
  /\ sent \in Seq(Known) /\ queue \in Seq(Known)
  /\ rejects \in Seq([of : Known, why : Why])
  /\ answers \in Seq(Answer)
  /\ WorkerOK

\* What is in flight was sent by this process since it is up, in the present
\* period and frame generation; its track has not gone back, and has moved on
\* if the request is among those replaced.
Current(r) ==
  /\ r.process = process /\ r.frameGen = frameGen /\ r.period = cancels
  /\ frameGen > 0 /\ readyAt <= r.submitted
  /\ r.trackGen <= trackGen[r.track]
  /\ r.id \in replaced => r.trackGen < trackGen[r.track]

InFlightOK == inFlight \subseteq Known /\ \A r \in inFlight : Current(r)

ReplacedOK == \A n \in replaced : n \in Nat /\ n < nextId

AcceptedOK ==
  RestartIsSlow /\ accepted # Ledger!None =>
    /\ accepted \in [request : Known, of : Known]
    /\ accepted.of = accepted.request
    /\ accepted.request.process = process
    /\ accepted.request.period = cancels

Lengths == Len(queue) <= Capacity /\ Len(recent) <= RecentLimit

\* The last reconciliation removed what was overdue by then.
Reconciled ==
  /\ now <= lastReconcile + ReconcileGap
  /\ lastReconcile <= now \/ lastReconcile = readyAt
  /\ \A r \in inFlight : lastReconcile <= r.deadline

IInv == /\ CountersOK /\ InFlightOK /\ Channels /\ ReplacedOK
        /\ AcceptedOK /\ Lengths /\ Reconciled

-----------------------------------------------------------------------------
(* Sequences.                                                              *)

\* Elements of a sequence stay in a larger set.
LEMMA SeqGrows ==
  ASSUME NEW S, NEW T, S \subseteq T, NEW s \in Seq(S)
  PROVE  s \in Seq(T)
  OBVIOUS

LEMMA AfterType ==
  ASSUME NEW S, NEW s \in Seq(S), NEW i \in 1 .. Len(s)
  PROVE  After(s, i) \in Seq(S)
  BY DEF After

LEMMA HeadTailType ==
  ASSUME NEW S, NEW s \in Seq(S), s # <<>>
  PROVE  Head(s) \in S /\ Tail(s) \in Seq(S)
  OBVIOUS

LEMMA AppendType ==
  ASSUME NEW S, NEW s \in Seq(S), NEW e \in S
  PROVE  Append(s, e) \in Seq(S)
  OBVIOUS

\* The crops of a frame are a sequence of tracks.
LEMMA CropsAreTracks ==
  ASSUME NEW visible \in SUBSET Tracks, NEW crops \in Ledger!Crops(visible)
  PROVE  crops \in Seq(visible)
<1>1. ASSUME NEW X, NEW n \in 0 .. X
      PROVE  n \in Nat
  OBVIOUS
<1>2. PICK n \in 0 .. Ledger!Cardinality(visible) : crops \in [1 .. n -> visible]
  BY DEF Ledger!Crops
<1>3. n \in Nat
  BY <1>1, <1>2
<1> QED
  BY <1>2, <1>3

LEMMA SeqIsFunction ==
  ASSUME NEW S, NEW s \in Seq(S)
  PROVE  s = [i \in 1 .. Len(s) |-> s[i]]
  OBVIOUS

LEMMA ConcatFacts ==
  ASSUME NEW S, NEW s \in Seq(S), NEW t \in Seq(S)
  PROVE  /\ s \o t \in Seq(S) /\ Len(s \o t) = Len(s) + Len(t)
         /\ \A i \in 1 .. Len(s) + Len(t) :
              (s \o t)[i] = IF i <= Len(s) THEN s[i] ELSE t[i - Len(s)]
<1>1. s \o t \in Seq(S) /\ Len(s \o t) = Len(s) + Len(t)
  OBVIOUS
<1>2. ASSUME NEW i \in 1 .. Len(s) + Len(t)
      PROVE  (s \o t)[i] = IF i <= Len(s) THEN s[i] ELSE t[i - Len(s)]
  BY <1>2
<1> QED
  BY <1>1, <1>2

\* No element occurs twice.
Once(s) == \A i, j \in 1 .. Len(s) : s[i] = s[j] => i = j

-----------------------------------------------------------------------------
(* What a frame sends.                                                     *)

\* A request sent by the present step in a given period.
New(q, period) ==
  /\ q.process = process /\ nextId <= q.id /\ q.id < nextId'
  /\ q.frameGen = frameGen' /\ q.trackGen = trackGen'[q.track]
  /\ q.submitted = now /\ q.deadline = now + Deadline
  /\ q.period = period

LEMMA StagedAreNew ==
  ASSUME CountersOK, NEW crops \in Seq(Tracks), NEW period \in Nat,
         frameGen' \in Nat, trackGen' \in [Tracks -> Nat],
         nextId' = nextId + Len(crops)
  PROVE  LET s == Ledger!Staged(crops, period)
         IN  /\ s \in Seq(Request)
             /\ \A i \in 1 .. Len(s) : New(s[i], period)
             /\ \A i, j \in 1 .. Len(s) : s[i].id = s[j].id => i = j
<1> DEFINE dropped == IF Len(crops) > LedgerCapacity THEN Len(crops) - LedgerCapacity ELSE 0
           request(i) ==
             [id |-> nextId + i - 1, process |-> process, track |-> crops[i],
              frameGen |-> frameGen', trackGen |-> trackGen'[crops[i]],
              submitted |-> now, deadline |-> now + Deadline, period |-> period]
           n == Len(crops) - dropped
           s == [i \in 1 .. n |-> request(dropped + i)]
<1>0. LedgerCapacity \in Nat /\ Len(crops) \in Nat /\ nextId \in Nat
  BY ReidAssumption DEF CountersOK
<1>1. dropped \in Nat /\ n \in Nat /\ dropped + n = Len(crops)
  BY <1>0
<1>2. \A i \in 1 .. n : dropped + i \in 1 .. Len(crops)
  <2> HIDE DEF dropped, n
  <2> QED
    BY <1>0, <1>1
<1>3. \A i \in 1 .. Len(crops) : request(i) \in Request /\ New(request(i), period)
  <2> SUFFICES ASSUME NEW i \in 1 .. Len(crops)
               PROVE  request(i) \in Request /\ New(request(i), period)
    OBVIOUS
  <2>1. crops[i] \in Tracks /\ trackGen'[crops[i]] \in Nat
    OBVIOUS
  <2>2. {now, process, nextId, frameGen', Deadline, period} \subseteq Nat
    BY ReidAssumption DEF CountersOK
  <2>3. nextId + i - 1 \in Nat /\ now + Deadline \in Nat
    BY <2>2, SMTT(30)
  <2> QED
    BY <2>1, <2>2, <2>3, SMTT(30) DEF Request, New
<1>4. s \in Seq(Request) /\ Len(s) = n
  <2>1. \A i \in 1 .. n : request(dropped + i) \in Request
    BY <1>2, <1>3
  <2> HIDE DEF request, n, dropped
  <2> QED
    BY <1>1, <2>1
<1>5. \A i \in 1 .. n : s[i] = request(dropped + i) /\ s[i].id = nextId + (dropped + i) - 1
  <2>1. \A i \in 1 .. n : request(dropped + i).id = nextId + (dropped + i) - 1
    OBVIOUS
  <2>2. \A i \in 1 .. n : s[i] = request(dropped + i)
    <3> HIDE DEF request, n, dropped
    <3> QED
      BY <1>1
  <2> HIDE DEF request, n, dropped, s
  <2> QED
    BY <1>0, <1>1, <2>1, <2>2
<1>6. \A i \in 1 .. n : New(s[i], period)
  <2> HIDE DEF request, n, dropped, s
  <2> QED
    BY <1>2, <1>3, <1>5
<1>7. \A i, j \in 1 .. n : s[i].id = s[j].id => i = j
  <2> HIDE DEF request, n, dropped, s
  <2> QED
    BY <1>0, <1>1, <1>5
<1>8. Ledger!Staged(crops, period) = s
  BY DEF Ledger!Staged
<1> QED
  <2> HIDE DEF s
  <2> QED
    BY <1>4, <1>6, <1>7, <1>8

\* What a frame changes: it sends u in the given period, and either these
\* requests are in flight, beside the others unless a new period began, or
\* publishing failed and nothing is.
FrameChange(u, period) ==
  /\ sent' = sent \o u
  /\ \A i \in 1 .. Len(u) : New(u[i], period)
  /\ \A i, j \in 1 .. Len(u) : u[i].id = u[j].id => i = j
  /\ \/ /\ cancels' = period
        /\ inFlight' = (IF period = cancels THEN inFlight ELSE {}) \cup Ledger!ToSet(u)
     \/ cancels' = period + 1 /\ inFlight' = {}
  /\ accepted' = IF cancels' # cancels THEN Ledger!None ELSE accepted
  /\ nextId' \in Nat /\ nextId <= nextId'
  /\ frameGen' \in Nat /\ frameGen' > 0 /\ trackGen' \in [Tracks -> Nat]
  /\ replaced' \subseteq replaced \cup {r.id : r \in inFlight}
  /\ period = cancels /\ frameGen > 0 =>
       /\ frameGen' = frameGen
       /\ \A t \in Tracks : trackGen[t] <= trackGen'[t]
       /\ \A r \in inFlight : r.id \in replaced' =>
            r.id \in replaced \/ trackGen[r.track] < trackGen'[r.track]
  /\ now >= readyAt
  /\ UNCHANGED <<now, process, perceptionVars, answers, readyAt, lastReconcile>>

\* The generation of a track never goes back while the source does not.
LEMMA InstancesGrow ==
  ASSUME CountersOK, NEW visible \in SUBSET Tracks, NEW jumped \in SUBSET (visible \cap present),
         NEW rewound \in BOOLEAN
  PROVE  /\ Ledger!Instances(visible, jumped, rewound) \in [Tracks -> Nat]
         /\ ~rewound => \A t \in Tracks :
              /\ trackGen[t] <= Ledger!Instances(visible, jumped, rewound)[t]
              /\ t \in jumped \cup (visible \ present) =>
                   trackGen[t] < Ledger!Instances(visible, jumped, rewound)[t]
<1>1. \A t \in Tracks : trackGen[t] \in Nat
  BY DEF CountersOK
<1>2. ASSUME NEW t \in Tracks
      PROVE  LET g == Ledger!Instances(visible, jumped, rewound)[t]
             IN  /\ g \in Nat
                 /\ ~rewound => trackGen[t] <= g
                 /\ ~rewound /\ t \in jumped \cup (visible \ present) => trackGen[t] < g
  <2>1. CASE t \notin visible
    BY <1>1, <2>1 DEF Ledger!Instances
  <2>2. CASE t \in visible /\ rewound
    BY <1>1, <2>2 DEF Ledger!Instances
  <2>3. CASE t \in visible /\ ~rewound /\ t \in present /\ t \notin jumped
    BY <1>1, <2>3 DEF Ledger!Instances
  <2>4. CASE t \in visible /\ ~rewound /\ ~(t \in present /\ t \notin jumped)
    BY <1>1, <2>4 DEF Ledger!Instances
  <2> QED
    BY <2>1, <2>2, <2>3, <2>4
<1>3. Ledger!Instances(visible, jumped, rewound)
        = [t \in Tracks |-> Ledger!Instances(visible, jumped, rewound)[t]]
  BY DEF Ledger!Instances
<1> QED
  BY <1>2, <1>3

LEMMA FrameSends ==
  ASSUME IInv, Frame
  PROVE  \E period \in {cancels, cancels + 1} : \E u \in Seq(Request) : FrameChange(u, period)
<1>1. PICK visible \in SUBSET Tracks, rewound \in BOOLEAN :
        \E jumped \in SUBSET (visible \cap present), crops \in Ledger!Crops(visible) :
          /\ rewound => frameGen > 0 /\ MoreTrouble
          /\ Ledger!OnFrame(visible, jumped, rewound, crops)
          /\ replaced' = replaced \cup
               {r.id : r \in {q \in inFlight :
                                rewound \/ q.track \in jumped \cup (visible \ present)}}
  BY DEF Frame
<1>2. PICK jumped \in SUBSET (visible \cap present), crops \in Ledger!Crops(visible) :
          /\ rewound => frameGen > 0 /\ MoreTrouble
          /\ Ledger!OnFrame(visible, jumped, rewound, crops)
          /\ replaced' = replaced \cup
               {r.id : r \in {q \in inFlight :
                                rewound \/ q.track \in jumped \cup (visible \ present)}}
  BY <1>1
<1> DEFINE period == IF rewound THEN cancels + 1 ELSE cancels
           s == Ledger!Staged(crops, period)
           kept == IF rewound THEN {} ELSE inFlight
<1>3. /\ frameGen' = IF rewound \/ frameGen = 0 THEN frameGen + 1 ELSE frameGen
      /\ trackGen' = Ledger!Instances(visible, jumped, rewound)
      /\ nextId' = nextId + Len(crops)
      /\ accepted' = IF cancels' # cancels THEN Ledger!None ELSE accepted
  BY <1>2 DEF Ledger!OnFrame
<1>4. Ledger!Publish(s, kept, period)
  <2>1. Ledger!Publish(Ledger!Staged(crops,
                          IF rewound /\ frameGen > 0 THEN cancels + 1 ELSE cancels),
                       IF rewound /\ frameGen > 0 THEN {} ELSE inFlight,
                       IF rewound /\ frameGen > 0 THEN cancels + 1 ELSE cancels)
    BY <1>2 DEF Ledger!OnFrame
  <2>2. (rewound /\ frameGen > 0) = rewound
    BY <1>2
  <2> QED
    BY <2>1, <2>2
<1>5. /\ frameGen \in Nat /\ nextId \in Nat /\ cancels \in Nat
      /\ crops \in Seq(Tracks) /\ Len(crops) \in Nat /\ period \in Nat
  <2>1. crops \in Seq(Tracks)
    BY CropsAreTracks, SeqGrows
  <2>2. frameGen \in Nat /\ nextId \in Nat /\ cancels \in Nat
    BY DEF IInv, CountersOK
  <2> QED
    BY <2>1, <2>2
<1>6. /\ frameGen' \in Nat /\ frameGen' > 0 /\ trackGen' \in [Tracks -> Nat]
      /\ nextId' \in Nat /\ nextId <= nextId'
  <2>1. trackGen' \in [Tracks -> Nat]
    BY <1>3, InstancesGrow DEF IInv
  <2>2. frameGen' \in Nat /\ frameGen' > 0
    BY <1>3, <1>5
  <2> QED
    BY <1>3, <1>5, <2>1, <2>2
<1>7. /\ s \in Seq(Request)
      /\ \A i \in 1 .. Len(s) : New(s[i], period)
      /\ \A i, j \in 1 .. Len(s) : s[i].id = s[j].id => i = j
  <2>1. CountersOK
    BY DEF IInv
  <2> HIDE DEF period
  <2> QED
    BY <1>3, <1>5, <1>6, <2>1, StagedAreNew
<1>8. /\ replaced' \subseteq replaced \cup {r.id : r \in inFlight}
      /\ period = cancels /\ frameGen > 0 =>
           /\ frameGen' = frameGen
           /\ \A t \in Tracks : trackGen[t] <= trackGen'[t]
           /\ \A r \in inFlight : r.id \in replaced' =>
                r.id \in replaced \/ trackGen[r.track] < trackGen'[r.track]
  <2>1. replaced' \subseteq replaced \cup {r.id : r \in inFlight}
    BY <1>2
  <2>2. ASSUME period = cancels, frameGen > 0
        PROVE  ~rewound /\ frameGen' = frameGen
    BY <2>2, <1>3, <1>5
  <2>3. ASSUME ~rewound
        PROVE  \A t \in Tracks : /\ trackGen[t] <= trackGen'[t]
                                 /\ t \in jumped \cup (visible \ present) =>
                                      trackGen[t] < trackGen'[t]
    BY <2>3, <1>3, InstancesGrow DEF IInv
  <2>4. ASSUME ~rewound, NEW r \in inFlight, r.id \in replaced'
        PROVE  r.id \in replaced \/ trackGen[r.track] < trackGen'[r.track]
    <3>1. CASE r.id \in replaced
      BY <3>1
    <3>2. CASE r.id \notin replaced
      <4>1. PICK q \in inFlight : q.id = r.id /\ q.track \in jumped \cup (visible \ present)
        BY <3>2, <2>4, <1>2
      <4>2. q = r /\ r.track \in Tracks
        BY <4>1 DEF IInv, InFlightOK, Known, Sent, Current, Request
      <4> QED
        BY <4>1, <4>2, <2>3, <2>4
    <3> QED
      BY <3>1, <3>2
  <2> QED
    BY <2>1, <2>2, <2>3, <2>4
<1>9. /\ now >= readyAt
      /\ UNCHANGED <<now, process, perceptionVars, answers, readyAt, lastReconcile>>
  BY <1>2 DEF Frame, Up, Ledger!OnFrame
<1>10. period \in {cancels, cancels + 1} /\ kept = (IF period = cancels THEN inFlight ELSE {})
  BY <1>5
<1>11. CASE /\ sent' = sent \o s
            /\ inFlight' = kept \cup Ledger!ToSet(s)
            /\ cancels' = period
  <2>1. FrameChange(s, period)
    <3> HIDE DEF s, period, kept
    <3> QED
      BY <1>3, <1>6, <1>7, <1>8, <1>9, <1>10, <1>11 DEF FrameChange
  <2> HIDE DEF s, period
  <2> QED
    BY <2>1, <1>7, <1>10
<1>12. CASE \E n \in 0 .. Len(s) - 1 :
              /\ sent' = sent \o SubSeq(s, 1, n)
              /\ inFlight' = {}
              /\ cancels' = period + 1
  <2> HIDE DEF s, period, kept
  <2>1. PICK n \in 0 .. Len(s) - 1 : /\ sent' = sent \o SubSeq(s, 1, n)
                                     /\ inFlight' = {}
                                     /\ cancels' = period + 1
    BY <1>12
  <2> DEFINE u == SubSeq(s, 1, n)
  <2>2. u \in Seq(Request) /\ Len(u) = n /\ \A i \in 1 .. n : i \in 1 .. Len(s) /\ u[i] = s[i]
    BY <1>7
  <2> HIDE DEF u
  <2>3. /\ \A i \in 1 .. Len(u) : New(u[i], period)
        /\ \A i, j \in 1 .. Len(u) : u[i].id = u[j].id => i = j
    BY <1>7, <2>2
  <2>4. sent' = sent \o u
    BY <2>1 DEF u
  <2>5. FrameChange(u, period)
    BY <1>3, <1>6, <1>8, <1>9, <2>1, <2>3, <2>4 DEF FrameChange
  <2> QED
    BY <2>2, <2>5, <1>10
<1> QED
  <2> HIDE DEF s, period, kept
  <2> QED
    BY <1>4, <1>11, <1>12 DEF Ledger!Publish

-----------------------------------------------------------------------------
(* What was sent stays known.                                              *)

LEMMA StillKnown ==
  ASSUME Channels, Known \subseteq Known'
  PROVE  /\ sent \in Seq(Known') /\ queue \in Seq(Known')
         /\ rejects \in Seq([of : Known', why : Why])
         /\ answers \in Seq(Answer')
         /\ worker' = worker => WorkerOK'
<1>1. sent \in Seq(Known') /\ queue \in Seq(Known')
  BY SeqGrows DEF Channels
<1>2. rejects \in Seq([of : Known', why : Why])
  <2>1. [of : Known, why : Why] \subseteq [of : Known', why : Why]
    OBVIOUS
  <2> QED
    BY <2>1, SeqGrows DEF Channels
<1>3. Answer \subseteq Answer'
  <2> SUFFICES ASSUME NEW a \in Answer
               PROVE  a \in Answer'
    OBVIOUS
  <2>1. a \in [id : Nat, of : Known', started : Nat, completed : Nat, ok : BOOLEAN, why : Why]
    BY DEF Answer
  <2> QED
    BY <2>1 DEF Answer
<1>4. answers \in Seq(Answer')
  BY <1>3, SeqGrows DEF Channels
<1>5. ASSUME worker' = worker
      PROVE  WorkerOK'
  <2>1. CASE worker = Idle
    BY <1>5, <2>1 DEF WorkerOK, Idle, NoRequest
  <2>2. CASE worker \in [at : {"took", "emitted", "dead"}, req : Known]
    BY <1>5, <2>2 DEF WorkerOK
  <2>3. CASE /\ worker \in [at : {"running"}, req : Known, started : Nat]
             /\ worker.started <= worker.req.deadline
    BY <1>5, <2>3 DEF WorkerOK
  <2>4. CASE worker \in [at : {"done"}, req : Known, result : Answer]
    BY <1>5, <2>4, <1>3 DEF WorkerOK
  <2> QED
    BY <2>1, <2>2, <2>3, <2>4 DEF Channels, WorkerOK
<1> QED
  BY <1>1, <1>2, <1>4, <1>5

LEMMA FrameStep ==
  ASSUME IInv, Frame
  PROVE  IInv'
<1>1. PICK period \in {cancels, cancels + 1}, u \in Seq(Request) : FrameChange(u, period)
  BY FrameSends
<1>2. /\ {now, process, nextId, frameGen, cancels, readyAt, lastReconcile, Deadline} \subseteq Nat
      /\ nextId' \in Nat /\ nextId <= nextId'
      /\ UNCHANGED <<now, process, readyAt, lastReconcile>>
      /\ now >= readyAt
  BY <1>1, ReidAssumption DEF FrameChange, IInv, CountersOK
<1>3. \A i \in 1 .. Len(u) : u[i] \in Request /\ New(u[i], period)
  BY <1>1 DEF FrameChange
<1>4. \A r \in inFlight' : r \in inFlight \/ \E i \in 1 .. Len(u) : r = u[i]
  BY <1>1 DEF FrameChange, Ledger!ToSet
<1>5. \A r \in inFlight : r \in Request /\ Sent(r) /\ Current(r) /\ r.id \in Nat /\ r.id < nextId
  BY DEF IInv, InFlightOK, Known, Sent, Current, Request
<1>6. ASSUME NEW q \in Known
      PROVE  q \in Known'
  <2>1. q \in Request /\ Sent(q) /\ q.id \in Nat
    BY DEF Known, Request
  <2>2. ASSUME NEW r \in inFlight', r.process = q.process, r.id = q.id
        PROVE  r = q
    <3>1. CASE r \in inFlight
      BY <2>1, <2>2, <3>1 DEF Sent
    <3>2. ASSUME NEW i \in 1 .. Len(u), r = u[i]
          PROVE  FALSE
      BY <1>2, <1>3, <2>1, <2>2, <3>2 DEF Sent, New
    <3> QED
      BY <1>4, <3>1, <3>2
  <2>3. q.process = process => q.id < nextId'
    BY <1>2, <2>1 DEF Sent
  <2> QED
    BY <1>2, <2>1, <2>2, <2>3 DEF Known, Sent
<1>7. ASSUME NEW i \in 1 .. Len(u)
      PROVE  u[i] \in Known'
  <2>1. u[i] \in Request /\ New(u[i], period) /\ u[i].id \in Nat
    BY <1>3 DEF Request
  <2>2. ASSUME NEW r \in inFlight', r.process = u[i].process, r.id = u[i].id
        PROVE  r = u[i]
    <3>1. CASE r \in inFlight
      BY <1>2, <1>5, <2>1, <2>2, <3>1 DEF New
    <3>2. ASSUME NEW j \in 1 .. Len(u), r = u[j]
          PROVE  r = u[i]
      BY <1>1, <2>2, <3>2 DEF FrameChange
    <3> QED
      BY <1>4, <3>1, <3>2
  <2> QED
    BY <1>2, <2>1, <2>2 DEF Known, Sent, New
<1>8. \A n \in replaced' : n \in Nat /\ n < nextId /\ n < nextId'
  <2> SUFFICES ASSUME NEW n \in replaced'
               PROVE  n \in Nat /\ n < nextId
    BY <1>2
  <2>1. n \in replaced \/ \E r \in inFlight : n = r.id
    BY <1>1 DEF FrameChange
  <2> QED
    BY <2>1, <1>5 DEF IInv, ReplacedOK
<1>9. CountersOK'
  BY <1>1, <1>2, SMTT(30) DEF FrameChange, IInv, CountersOK, perceptionVars
<1>10. InFlightOK'
  <2>1. ASSUME NEW i \in 1 .. Len(u), u[i] \in inFlight'
        PROVE  Current(u[i])'
    <3>1. cancels' = period
      BY <1>1, <2>1 DEF FrameChange
    <3>2. u[i].id \notin replaced'
      <4>1. u[i].id \in Nat /\ nextId <= u[i].id
        BY <1>3 DEF New, Request
      <4>2. u[i].id \in replaced' => u[i].id < nextId
        BY <1>8
      <4> QED
        BY <1>2, <4>1, <4>2
    <3>3. trackGen'[u[i].track] \in Nat /\ frameGen' > 0
      BY <1>1, <1>3 DEF FrameChange, Request
    <3> QED
      BY <1>2, <1>3, <3>1, <3>2, <3>3, SMTT(30) DEF New, Current
  <2>2. ASSUME NEW r \in inFlight, r \in inFlight', ~\E i \in 1 .. Len(u) : r = u[i]
        PROVE  Current(r)'
    <3>1. period = cancels /\ cancels' = cancels
      BY <1>1, <2>2 DEF FrameChange, Ledger!ToSet
    <3>2. Current(r) /\ r \in Request /\ r.track \in Tracks /\ frameGen > 0
      BY <1>5 DEF Request, Current
    <3>3. /\ frameGen' = frameGen
          /\ trackGen[r.track] <= trackGen'[r.track]
          /\ r.id \in replaced' => r.id \in replaced \/ trackGen[r.track] < trackGen'[r.track]
      BY <1>1, <3>1, <3>2 DEF FrameChange
    <3>4. trackGen[r.track] \in Nat /\ trackGen'[r.track] \in Nat /\ r.trackGen \in Nat
      BY <3>2, <1>9 DEF CountersOK, IInv, Request
    <3>5. r.trackGen <= trackGen'[r.track]
      BY <3>2, <3>3, <3>4 DEF Current
    <3>6. r.id \in replaced' => r.trackGen < trackGen'[r.track]
      BY <3>2, <3>3, <3>4 DEF Current
    <3> QED
      BY <1>2, <3>1, <3>2, <3>3, <3>5, <3>6 DEF Current
  <2>3. inFlight' \subseteq Known'
    BY <1>4, <1>6, <1>7, <1>5 DEF Known
  <2> QED
    BY <1>4, <2>1, <2>2, <2>3 DEF InFlightOK
<1>11. Channels'
  <2>1. sent' \in Seq(Known')
    <3>1. u \in Seq(Known')
      BY <1>7
    <3>2. sent \in Seq(Known')
      BY <1>6, StillKnown DEF IInv
    <3>3. sent' = sent \o u
      BY <1>1 DEF FrameChange
    <3> QED
      BY <3>1, <3>2, <3>3
  <2>2. UNCHANGED <<queue, rejects, worker, answers>>
    BY <1>1 DEF FrameChange, perceptionVars
  <2> QED
    BY <1>6, <2>1, <2>2, StillKnown DEF IInv, Channels
<1>12. AcceptedOK'
  <2>1. accepted' = Ledger!None \/ (accepted' = accepted /\ cancels' = cancels)
    BY <1>1 DEF FrameChange
  <2>2. ASSUME accepted \in [request : Known, of : Known]
        PROVE  accepted \in [request : Known', of : Known']
    BY <1>6, <2>2
  <2> QED
    BY <1>2, <2>1, <2>2 DEF IInv, AcceptedOK, Ledger!None
<1>13. Lengths'
  BY <1>1 DEF FrameChange, perceptionVars, IInv, Lengths
<1>14. Reconciled'
  <2>1. lastReconcile <= now
    BY <1>2 DEF IInv, Reconciled
  <2>2. \A i \in 1 .. Len(u) : lastReconcile <= u[i].deadline
    BY <1>2, <1>3, <2>1 DEF New
  <2> QED
    BY <1>2, <1>4, <2>2 DEF IInv, Reconciled
<1> QED
  BY <1>8, <1>9, <1>10, <1>11, <1>12, <1>13, <1>14 DEF IInv, ReplacedOK

\* Nothing new in flight: what was known stays known, what is current stays so.
LEMMA NothingNew ==
  ASSUME IInv, inFlight' \subseteq inFlight, UNCHANGED <<process, nextId, readyAt>>,
         now' \in Nat, now <= now'
  PROVE  /\ Known \subseteq Known'
         /\ UNCHANGED <<frameGen, cancels, trackGen, replaced>> => InFlightOK'
<1>1. now \in Nat
  BY DEF IInv, CountersOK
<1>2. ASSUME NEW q \in Known
      PROVE  q \in Known'
  <2>1. q \in Request /\ Sent(q) /\ q.submitted \in Nat
    BY DEF Known, Request
  <2>2. q.submitted <= now'
    BY <1>1, <2>1 DEF Sent
  <2> QED
    BY <2>1, <2>2 DEF Known, Sent
<1>3. ASSUME UNCHANGED <<frameGen, cancels, trackGen, replaced>>
      PROVE  InFlightOK'
  <2>1. inFlight' \subseteq Known'
    BY <1>2 DEF IInv, InFlightOK
  <2>2. \A r \in inFlight' : Current(r)'
    BY <1>3 DEF IInv, InFlightOK, Current
  <2> QED
    BY <2>1, <2>2 DEF InFlightOK
<1> QED
  BY <1>2, <1>3

LEMMA SelectionStep ==
  ASSUME IInv, Selection
  PROVE  IInv'
<1>1. /\ inFlight' = {} /\ accepted' = Ledger!None /\ cancels' = cancels + 1
      /\ UNCHANGED <<now, process, nextId, frameGen, trackGen, sent, perceptionVars, answers,
                     readyAt, lastReconcile, replaced>>
  BY DEF Selection, Ledger!OnSelection, Ledger!Cancel
<1>2. CountersOK'
  BY <1>1 DEF IInv, CountersOK, perceptionVars
<1>3. Known \subseteq Known'
  <2>1. now \in Nat
    BY DEF IInv, CountersOK
  <2> QED
    BY <1>1, <2>1, NothingNew
<1>4. InFlightOK'
  BY <1>1 DEF InFlightOK
<1>5. Channels'
  <2>1. UNCHANGED <<sent, queue, rejects, worker, answers>>
    BY <1>1 DEF perceptionVars
  <2> QED
    BY <1>3, <2>1, StillKnown DEF IInv, Channels
<1>6. ReplacedOK' /\ AcceptedOK' /\ Lengths'
  BY <1>1 DEF IInv, ReplacedOK, AcceptedOK, Lengths, perceptionVars, Ledger!None
<1>7. Reconciled'
  BY <1>1 DEF IInv, Reconciled
<1> QED
  BY <1>2, <1>4, <1>5, <1>6, <1>7 DEF IInv

\* An accepted observation stays one of this process and period while neither
\* changes.
LEMMA AcceptedStays ==
  ASSUME IInv, Known \subseteq Known', UNCHANGED <<accepted, process, cancels>>
  PROVE  AcceptedOK'
<1>1. [request : Known, of : Known] \subseteq [request : Known', of : Known']
  OBVIOUS
<1> QED
  BY <1>1 DEF IInv, AcceptedOK, Ledger!None

LEMMA ReconcileStep ==
  ASSUME IInv, Reconcile
  PROVE  IInv'
<1>1. /\ inFlight' = {r \in inFlight : now <= r.deadline}
      /\ lastReconcile' = now
      /\ UNCHANGED <<now, process, nextId, frameGen, trackGen, accepted, cancels, sent,
                     perceptionVars, answers, readyAt, replaced>>
  BY DEF Reconcile, Ledger!Reconcile, Ledger!Expire
<1>2. CountersOK'
  BY <1>1 DEF IInv, CountersOK, perceptionVars
<1>3. Known \subseteq Known' /\ InFlightOK'
  <2>1. now \in Nat /\ inFlight' \subseteq inFlight
    BY <1>1 DEF IInv, CountersOK
  <2> QED
    BY <1>1, <2>1, NothingNew
<1>4. Channels'
  <2>1. UNCHANGED <<sent, queue, rejects, worker, answers>>
    BY <1>1 DEF perceptionVars
  <2> QED
    BY <1>3, <2>1, StillKnown DEF IInv, Channels
<1>5. ReplacedOK' /\ Lengths'
  BY <1>1 DEF IInv, ReplacedOK, Lengths, perceptionVars
<1>6. AcceptedOK'
  BY <1>1, <1>3, AcceptedStays
<1>7. Reconciled'
  <2>1. now \in Nat /\ ReconcileGap \in Nat
    BY ReidAssumption DEF IInv, CountersOK
  <2> QED
    BY <1>1, <2>1 DEF Reconciled
<1> QED
  BY <1>2, <1>3, <1>4, <1>5, <1>6, <1>7 DEF IInv

LEMMA AdvanceStep ==
  ASSUME IInv, Advance
  PROVE  IInv'
<1>1. /\ now' = now + 1 /\ now < lastReconcile + ReconcileGap
      /\ UNCHANGED <<process, nextId, inFlight, frameGen, trackGen, accepted, cancels, sent,
                     perceptionVars, answers, readyAt, lastReconcile, replaced>>
  BY DEF Advance, ledgerVars
<1>2. /\ now \in Nat /\ now' \in Nat
      /\ {lastReconcile, readyAt, ReconcileGap} \subseteq Nat
  <2>1. {now, lastReconcile, readyAt, ReconcileGap} \subseteq Nat
    BY ReidAssumption DEF IInv, CountersOK
  <2> QED
    BY <1>1, <2>1
<1>3. CountersOK'
  BY <1>1, <1>2 DEF IInv, CountersOK, perceptionVars
<1>4. Known \subseteq Known' /\ InFlightOK'
  BY <1>1, <1>2, NothingNew
<1>5. Channels'
  <2>1. UNCHANGED <<sent, queue, rejects, worker, answers>>
    BY <1>1 DEF perceptionVars
  <2> QED
    BY <1>4, <2>1, StillKnown DEF IInv, Channels
<1>6. ReplacedOK' /\ Lengths'
  BY <1>1 DEF IInv, ReplacedOK, Lengths, perceptionVars
<1>7. AcceptedOK'
  BY <1>1, <1>4, AcceptedStays
<1>8. Reconciled'
  BY <1>1, <1>2 DEF IInv, Reconciled
<1> QED
  BY <1>3, <1>4, <1>5, <1>6, <1>7, <1>8 DEF IInv

LEMMA RestartStep ==
  ASSUME IInv, Restart
  PROVE  IInv'
<1>1. /\ process' = process + 1 /\ nextId' = 1 /\ inFlight' = {} /\ frameGen' = 0
      /\ trackGen' = [t \in Tracks |-> 0] /\ accepted' = Ledger!None /\ cancels' = 0
      /\ readyAt' = now + RestartTime /\ lastReconcile' = now + RestartTime
      /\ answers' = <<>> /\ replaced' = {}
      /\ UNCHANGED <<now, sent, perceptionVars>>
  BY DEF Restart, Ledger!Restart
<1>2. {now, process, Deadline, RestartTime, ReconcileGap} \subseteq Nat
  BY ReidAssumption DEF IInv, CountersOK
<1>3. CountersOK'
  BY <1>1, <1>2 DEF IInv, CountersOK, perceptionVars
<1>4. ASSUME NEW q \in Known
      PROVE  q \in Known'
  <2>1. /\ q \in Request /\ {q.submitted, q.deadline, q.process} \subseteq Nat
        /\ q.process <= process /\ q.submitted <= now /\ q.deadline = q.submitted + Deadline
    BY DEF Known, Sent, Request
  <2>2. (RestartIsSlow => q.deadline < readyAt') /\ q.process < process'
    BY <1>1, <1>2, <2>1 DEF RestartIsSlow
  <2> QED
    BY <1>1, <1>2, <2>1, <2>2 DEF Known, Sent
<1>5. Channels'
  <2>1. UNCHANGED <<sent, queue, rejects, worker>>
    BY <1>1 DEF perceptionVars
  <2>2. answers' \in Seq(Answer')
    BY <1>1
  <2> QED
    BY <1>4, <2>1, <2>2, StillKnown DEF IInv, Channels
<1>6. InFlightOK' /\ ReplacedOK' /\ AcceptedOK' /\ Lengths'
  BY <1>1 DEF IInv, InFlightOK, ReplacedOK, AcceptedOK, Lengths, perceptionVars, Ledger!None
<1>7. Reconciled'
  BY <1>1, <1>2 DEF Reconciled
<1> QED
  BY <1>3, <1>5, <1>6, <1>7 DEF IInv

LEMMA ResultStep ==
  ASSUME IInv, ResultArrives
  PROVE  /\ IInv'
         /\ accepted' # accepted =>
              \E r \in inFlight : accepted'.request = r /\ trackGen[r.track] = r.trackGen
<1>1. PICK i \in 1 .. Len(answers) :
        Ledger!OnResult(answers[i]) /\ answers' = After(answers, i)
  BY DEF ResultArrives
<1> DEFINE a == answers[i]
<1>2. a \in Answer
  BY DEF IInv, Channels
<1>3. /\ inFlight' = {r \in inFlight : r.id # a.id}
      /\ UNCHANGED <<now, process, nextId, frameGen, trackGen, cancels, sent, perceptionVars,
                     readyAt, lastReconcile, replaced>>
  BY <1>1 DEF Ledger!OnResult, ResultArrives
<1>4. CountersOK'
  BY <1>3 DEF IInv, CountersOK, perceptionVars
<1>5. Known \subseteq Known' /\ InFlightOK'
  <2>1. now \in Nat /\ inFlight' \subseteq inFlight
    BY <1>3 DEF IInv, CountersOK
  <2> QED
    BY <1>3, <2>1, NothingNew
<1>6. Channels'
  <2>1. UNCHANGED <<sent, queue, rejects, worker>>
    BY <1>3 DEF perceptionVars
  <2>2. answers' \in Seq(Answer')
    BY <1>1, <1>5, StillKnown, AfterType DEF IInv
  <2> QED
    BY <1>5, <2>1, <2>2, StillKnown DEF IInv, Channels
<1>7. ReplacedOK' /\ Lengths'
  BY <1>3 DEF IInv, ReplacedOK, Lengths, perceptionVars
<1>8. ASSUME NEW r \in inFlight, r.id = a.id, Ledger!Acceptable(r, a),
             accepted' = [request |-> r, of |-> a.of], RestartIsSlow
      PROVE  AcceptedOK'
  <2>1. r \in Known /\ Current(r)
    BY DEF IInv, InFlightOK
  <2>2. a.of \in Known /\ a.of.id = a.id /\ a.ok /\ a.started <= a.of.deadline /\ a.started \in Nat
    BY <1>2, <1>8 DEF Answer, Ledger!Acceptable
  <2>3. r.submitted <= a.started
    BY <1>8 DEF Ledger!Acceptable, Ledger!Timely
  <2>4. a.of.process = process
    <3> SUFFICES ASSUME a.of.process # process
                 PROVE  FALSE
      OBVIOUS
    <3>1. a.of.deadline < readyAt
      BY <1>8, <2>2 DEF Known, Sent
    <3>2. readyAt <= r.submitted
      BY <2>1 DEF Current
    <3>3. {readyAt, r.submitted, a.of.deadline} \subseteq Nat
      BY <2>1, <2>2 DEF IInv, CountersOK, Known, Request
    <3> QED
      BY <2>2, <2>3, <3>1, <3>2, <3>3
  <2>5. a.of = r
    BY <1>8, <2>1, <2>2, <2>4 DEF Known, Sent, Current
  <2>6. r \in Known' /\ r.process = process /\ r.period = cancels
    BY <1>5, <2>1 DEF Current
  <2>7. accepted' \in [request : Known', of : Known']
    BY <1>8, <2>5, <2>6
  <2> QED
    BY <1>3, <1>8, <2>5, <2>6, <2>7 DEF AcceptedOK
<1>9. \/ \E r \in inFlight : /\ r.id = a.id /\ Ledger!Acceptable(r, a)
                             /\ accepted' = [request |-> r, of |-> a.of]
      \/ accepted' = accepted
  BY <1>1 DEF Ledger!OnResult
<1>10. AcceptedOK'
  <2>1. CASE accepted' = accepted
    BY <1>3, <1>5, <2>1, AcceptedStays
  <2>2. CASE accepted' # accepted /\ RestartIsSlow
    BY <1>8, <1>9, <2>2
  <2>3. CASE ~RestartIsSlow
    BY <2>3 DEF AcceptedOK
  <2> QED
    BY <2>1, <2>2, <2>3
<1>11. Reconciled'
  BY <1>3 DEF IInv, Reconciled
<1>12. accepted' # accepted =>
         \E r \in inFlight : accepted'.request = r /\ trackGen[r.track] = r.trackGen
  <2> HIDE DEF a
  <2> QED
    BY <1>9 DEF Ledger!Acceptable
<1> QED
  BY <1>4, <1>5, <1>6, <1>7, <1>10, <1>11, <1>12 DEF IInv

-----------------------------------------------------------------------------
(* Perception's steps change its queue, its worker and what it answers.     *)

\* A request is either what waits for its track or among the others, which are
\* the rest of the queue in its order.
LEMMA OthersAndSameTrack ==
  ASSUME NEW S, queue \in Seq(S), NEW q
  PROVE  /\ SameTrack(q) \in Seq(S) /\ ToSet(SameTrack(q)) \subseteq ToSet(queue)
         /\ Others(q) \in Seq(S) /\ Len(Others(q)) <= Len(queue)
         /\ ToSet(Others(q)) \subseteq ToSet(queue)
         /\ Once(SameTrack(q))
         /\ ToSet(queue) \subseteq ToSet(SameTrack(q)) \cup ToSet(Others(q))
         /\ Once(queue) =>
              Once(Others(q)) /\ ToSet(SameTrack(q)) \cap ToSet(Others(q)) = {}
<1>1. Len(queue) \in Nat /\ \A i \in 1 .. Len(queue) : queue[i] \in S
  OBVIOUS
<1>2. CASE Waiting(q) = {}
  <2>1. SameTrack(q) = <<>> /\ Others(q) = queue /\ ToSet(<<>>) = {} /\ Once(<<>>)
    BY <1>2 DEF SameTrack, Others, ToSet, Once
  <2>2. <<>> \in Seq(S)
    OBVIOUS
  <2> QED
    BY <1>1, <2>1, <2>2
<1>3. CASE Waiting(q) # {}
  <2> DEFINE p == Place(q)
             front == SubSeq(queue, 1, p - 1)
             back == SubSeq(queue, p + 1, Len(queue))
             rest == front \o back
  <2>1. p \in 1 .. Len(queue)
    BY <1>3 DEF Place, Waiting
  <2>2. SameTrack(q) = <<queue[p]>> /\ Others(q) = rest
    BY <1>3 DEF SameTrack, Others, RemoveAt
  <2> HIDE DEF p
  <2>3. front \in Seq(S) /\ Len(front) = p - 1
    BY <1>1, <2>1
  <2>4. back \in Seq(S) /\ Len(back) = Len(queue) - p
    BY <1>1, <2>1
  <2>5. \A i \in 1 .. p - 1 : front[i] = queue[i]
    BY <1>1, <2>1
  <2>6. \A i \in 1 .. Len(queue) - p : back[i] = queue[i + p]
    BY <1>1, <2>1
  <2> HIDE DEF front, back
  <2>7. rest \in Seq(S) /\ Len(rest) = Len(queue) - 1
    BY <1>1, <2>1, <2>3, <2>4, ConcatFacts
  <2>8. \A i \in 1 .. Len(queue) - 1 :
          rest[i] = IF i < p THEN queue[i] ELSE queue[i + 1]
    <3>1. \A i \in 1 .. Len(queue) - 1 :
            rest[i] = IF i <= p - 1 THEN front[i] ELSE back[i - (p - 1)]
      BY <1>1, <2>1, <2>3, <2>4, ConcatFacts
    <3> HIDE DEF rest
    <3> QED
      BY <1>1, <2>1, <2>5, <2>6, <3>1
  <2> HIDE DEF rest
  <2>9. ToSet(rest) \subseteq ToSet(queue)
    <3>1. \A i \in 1 .. Len(queue) - 1 : \E j \in 1 .. Len(queue) : rest[i] = queue[j]
      BY <1>1, <2>8
    <3>2. DOMAIN rest = 1 .. Len(queue) - 1 /\ DOMAIN queue = 1 .. Len(queue)
      BY <1>1, <2>7
    <3>3. ASSUME NEW x \in ToSet(rest)
          PROVE  x \in ToSet(queue)
      <4>1. PICK i \in 1 .. Len(queue) - 1 : x = rest[i]
        BY <3>2, <3>3 DEF ToSet
      <4>2. PICK j \in 1 .. Len(queue) : rest[i] = queue[j]
        BY <3>1, <4>1
      <4> QED
        BY <3>2, <4>1, <4>2 DEF ToSet
    <3> QED
      BY <3>3
  <2>10. ToSet(<<queue[p]>>) = {queue[p]} /\ Once(<<queue[p]>>) /\ <<queue[p]>> \in Seq(S)
    BY <1>1, <2>1 DEF ToSet, Once
  <2>11. ASSUME Once(queue)
        PROVE  Once(rest) /\ queue[p] \notin ToSet(rest)
    <3>1. ASSUME NEW i \in 1 .. Len(queue) - 1
          PROVE  rest[i] # queue[p]
      BY <1>1, <2>1, <2>8, <2>11, <3>1 DEF Once
    <3>2. ASSUME NEW i \in 1 .. Len(queue) - 1, NEW j \in 1 .. Len(queue) - 1,
                 rest[i] = rest[j]
          PROVE  i = j
      BY <1>1, <2>1, <2>8, <2>11, <3>2 DEF Once
    <3> QED
      BY <2>7, <3>1, <3>2 DEF Once, ToSet
  <2>12. queue[p] \in ToSet(queue)
    BY <1>1, <2>1 DEF ToSet
  <2>13. ToSet(queue) \subseteq {queue[p]} \cup ToSet(rest)
    <3>1. ASSUME NEW i \in 1 .. Len(queue), i # p
          PROVE  \E j \in 1 .. Len(queue) - 1 : rest[j] = queue[i]
      <4>1. CASE i < p
        BY <1>1, <2>1, <2>8, <4>1
      <4>2. CASE ~(i < p)
        <5>1. i - 1 \in 1 .. Len(queue) - 1 /\ ~(i - 1 < p) /\ (i - 1) + 1 = i
          BY <1>1, <2>1, <3>1, <4>2
        <5> QED
          BY <2>8, <5>1
      <4> QED
        BY <4>1, <4>2
    <3>2. /\ DOMAIN queue = 1 .. Len(queue) /\ DOMAIN rest = 1 .. Len(rest)
          /\ 1 .. Len(rest) = 1 .. Len(queue) - 1
      BY <1>1, <2>7
    <3>3. ASSUME NEW e \in ToSet(queue), e # queue[p]
          PROVE  e \in ToSet(rest)
      <4>1. PICK i \in 1 .. Len(queue) : queue[i] = e
        BY <3>2 DEF ToSet
      <4>2. PICK j \in 1 .. Len(queue) - 1 : rest[j] = e
        BY <3>1, <3>3, <4>1
      <4> QED
        BY <3>2, <4>2 DEF ToSet
    <3> QED
      BY <3>3
  <2> QED
    BY <1>1, <2>2, <2>7, <2>9, <2>10, <2>11, <2>12, <2>13
<1> QED
  BY <1>2, <1>3

LEMMA FailuresType ==
  ASSUME NEW S, NEW Reasons, NEW s \in Seq(S), NEW why \in Reasons
  PROVE  Failures(s, why) \in Seq([of : S, why : Reasons])
  BY DEF Failures

\* The last numbers are remembered, and no more than RecentLimit.
LEMMA RememberBound ==
  ASSUME NEW S, recent \in Seq(S), Len(recent) <= RecentLimit, NEW n \in S,
         RecentLimit \in Nat \ {0}
  PROVE  Remember(n) \in Seq(S) /\ Len(Remember(n)) <= RecentLimit
<1>1. /\ Append(recent, n) \in Seq(S) /\ Len(Append(recent, n)) = Len(recent) + 1
      /\ Len(recent) \in Nat
  OBVIOUS
<1>2. CASE Len(Append(recent, n)) > RecentLimit
  <2>1. Append(recent, n) # <<>>
    BY <1>1
  <2>2. /\ Tail(Append(recent, n)) \in Seq(S)
        /\ Len(Tail(Append(recent, n))) = Len(recent)
    <3>1. \A s \in Seq(S) : s # <<>> => Tail(s) \in Seq(S) /\ Len(Tail(s)) = Len(s) - 1
      OBVIOUS
    <3> QED
      BY <1>1, <2>1, <3>1
  <2> QED
    BY <1>2, <2>2 DEF Remember
<1>3. CASE ~(Len(Append(recent, n)) > RecentLimit)
  BY <1>1, <1>3 DEF Remember
<1> QED
  BY <1>2, <1>3

LEMMA SameKnown ==
  ASSUME UNCHANGED <<now, ledgerVars, readyAt>>
  PROVE  Known' = Known /\ Answer' = Answer
<1>1. Known' = Known
  BY DEF Known, Sent, ledgerVars
<1> QED
  BY <1>1 DEF Answer

LEMMA LedgerUntouched ==
  ASSUME IInv, UNCHANGED <<now, ledgerVars, readyAt, lastReconcile, replaced>>,
         recent' \in Seq(Nat), Channels', Lengths'
  PROVE  IInv'
<1>1. Known' = Known
  BY SameKnown
<1>2. CountersOK'
  BY DEF IInv, CountersOK, ledgerVars
<1>3. InFlightOK'
  BY <1>1 DEF IInv, InFlightOK, Current, ledgerVars
<1>4. ReplacedOK' /\ Reconciled'
  BY DEF IInv, ReplacedOK, Reconciled, ledgerVars
<1>5. AcceptedOK'
  BY <1>1, AcceptedStays DEF ledgerVars
<1> QED
  BY <1>2, <1>3, <1>4, <1>5 DEF IInv

LEMMA RequestStep ==
  ASSUME IInv, RequestArrives
  PROVE  IInv'
<1>1. PICK i \in 1 .. Len(sent) : Submit(sent[i]) /\ sent' = After(sent, i)
  BY DEF RequestArrives
<1> DEFINE q == sent[i]
           Reject == [of : Known, why : Why]
<1>2. /\ q \in Known /\ q.id \in Nat
      /\ queue \in Seq(Known) /\ Len(queue) <= Capacity
      /\ recent \in Seq(Nat) /\ Len(recent) <= RecentLimit
      /\ Capacity \in Nat \ {0} /\ RecentLimit \in Nat \ {0}
  <2>1. Capacity \in Nat \ {0} /\ RecentLimit \in Nat \ {0}
    BY ReidAssumption
  <2>2. q \in Known /\ queue \in Seq(Known)
    BY DEF IInv, Channels
  <2> QED
    BY <2>1, <2>2 DEF IInv, CountersOK, Lengths, Known, Request
<1>0. {"duplicate", "not_newer", "superseded", "overflow"} \subseteq Why
  BY DEF Why
<1>3. Remember(q.id) \in Seq(Nat) /\ Len(Remember(q.id)) <= RecentLimit
  BY <1>2, RememberBound
<1>4. UNCHANGED <<now, ledgerVars, readyAt, lastReconcile, replaced, worker, answers>>
  BY <1>1 DEF RequestArrives, Submit, SubmitRefused, SubmitAccepted
<1>5. Known' = Known /\ Answer' = Answer
  BY <1>4, SameKnown
<1>6. sent' \in Seq(Known)
  BY <1>1, AfterType DEF IInv, Channels
<1>7. /\ queue' \in Seq(Known) /\ Len(queue') <= Capacity
      /\ recent' \in Seq(Nat) /\ Len(recent') <= RecentLimit
      /\ rejects' \in Seq(Reject)
  <2>1. ASSUME NEW why \in {"duplicate", "not_newer"}, SubmitRefused(q, why)
        PROVE  <1>7!:
    <3>1. rejects' = <<[of |-> q, why |-> why]>> /\ queue' = queue /\ recent' = recent
      BY <2>1 DEF SubmitRefused
    <3>2. [of |-> q, why |-> why] \in Reject
      BY <1>0, <1>2, <2>1
    <3> QED
      BY <1>2, <3>1, <3>2
  <2>2. ASSUME SubmitAccepted(q)
        PROVE  <1>7!:
    <3> DEFINE kept == Others(q)
               same == Failures(SameTrack(q), "superseded")
    <3>1. kept \in Seq(Known) /\ Len(kept) \in Nat /\ Len(kept) <= Capacity
      BY <1>2, OthersAndSameTrack
    <3>2. same \in Seq(Reject)
      BY <1>0, <1>2, OthersAndSameTrack, FailuresType
    <3>3. CASE Len(kept) >= Capacity
      <4>1. kept # <<>> /\ Head(kept) \in Known /\ Tail(kept) \in Seq(Known)
            /\ Len(Tail(kept)) = Len(kept) - 1
        BY <1>2, <3>1, <3>3
      <4>2. queue' = Append(Tail(kept), q)
        BY <2>2, <3>3 DEF SubmitAccepted
      <4>3. rejects' = same \o Failures(<<Head(kept)>>, "overflow")
        BY <2>2, <3>3 DEF SubmitAccepted
      <4>4. Failures(<<Head(kept)>>, "overflow") \in Seq(Reject)
        <5>1. <<Head(kept)>> \in Seq(Known)
          BY <4>1
        <5> QED
          BY <1>0, <5>1, FailuresType
      <4>5. queue' \in Seq(Known) /\ Len(queue') <= Capacity
        BY <1>2, <3>1, <4>1, <4>2
      <4>6. rejects' \in Seq(Reject)
        BY <3>2, <4>3, <4>4
      <4> QED
        BY <2>2, <4>5, <4>6, <1>3 DEF SubmitAccepted
    <3>4. CASE ~(Len(kept) >= Capacity)
      <4>1. queue' = Append(kept, q) /\ rejects' = same \o <<>>
        BY <2>2, <3>4 DEF SubmitAccepted
      <4>2. queue' \in Seq(Known) /\ Len(queue') <= Capacity
        BY <1>2, <3>1, <3>4, <4>1
      <4>3. rejects' \in Seq(Reject)
        BY <3>2, <4>1
      <4> QED
        BY <2>2, <4>2, <4>3, <1>3 DEF SubmitAccepted
    <3> QED
      BY <3>3, <3>4
  <2> QED
    BY <1>1, <2>1, <2>2 DEF Submit
<1>8. Channels'
  <2>1. WorkerOK'
    BY <1>4, <1>5, StillKnown DEF IInv
  <2> QED
    BY <1>4, <1>5, <1>6, <1>7, <2>1 DEF IInv, Channels
<1> QED
  BY <1>4, <1>7, <1>8, LedgerUntouched DEF Lengths

\* A failure reported now is an answer, whatever the request.
LEMMA FailureIsAnswer ==
  ASSUME CountersOK, NEW q \in Known, NEW why \in Why
  PROVE  Failure(q, why) \in Answer
<1>1. now \in Nat /\ q.id \in Nat
  BY DEF CountersOK, Known, Request
<1>2. Failure(q, why) =
        [id |-> q.id, of |-> q, started |-> now, completed |-> now, ok |-> FALSE, why |-> why]
  BY DEF Failure, Result
<1> QED
  BY <1>1, <1>2 DEF Answer

\* Each step of perception keeps its channels in their types.
LEMMA PerceptionChannels ==
  ASSUME IInv, PerceptionStep
  PROVE  Channels' /\ recent' = recent /\ Lengths'
<1>1. /\ UNCHANGED <<now, ledgerVars, sent, readyAt, lastReconcile, replaced, recent>>
  BY DEF PerceptionStep, EmitReject, Take, Start, Finish, Emit,
         Release
<1>2. Known' = Known /\ Answer' = Answer
  BY <1>1, SameKnown
<1>3. /\ sent \in Seq(Known) /\ queue \in Seq(Known) /\ Len(queue) <= Capacity
      /\ Capacity \in Nat /\ Len(recent) <= RecentLimit
      /\ rejects \in Seq([of : Known, why : Why])
      /\ answers \in Seq(Answer) /\ CountersOK /\ now \in Nat
  BY ReidAssumption DEF IInv, Channels, Lengths, CountersOK
<1>4. WorkerOK
  BY DEF IInv, Channels
<1>5. worker' = worker => WorkerOK'
  BY <1>2, StillKnown DEF IInv
<1>6. CASE EmitReject
  <2> DEFINE Reject == [of : Known, why : Why]
             failure == Failure(Head(rejects).of, Head(rejects).why)
  <2>1. /\ UNCHANGED <<queue, worker>>
        /\ rejects' = Tail(rejects) \/ rejects' = <<>>
        /\ answers' = answers \/ answers' = Append(answers, failure)
        /\ rejects # <<>>
    BY <1>6 DEF EmitReject
  <2>2. Head(rejects) \in Reject /\ Tail(rejects) \in Seq(Reject)
    <3> HIDE DEF Reject
    <3>1. rejects \in Seq(Reject)
      BY <1>3 DEF Reject
    <3> QED
      BY <2>1, <3>1, HeadTailType
  <2>3. Head(rejects).of \in Known /\ Head(rejects).why \in Why
    BY <2>2
  <2>4. failure \in Answer
    BY <1>3, <2>3, FailureIsAnswer
  <2>5. answers' \in Seq(Answer)
    <3> HIDE DEF failure
    <3> QED
      BY <1>3, <2>1, <2>4, AppendType
  <2>6. rejects' \in Seq(Reject)
    <3> HIDE DEF Reject, failure
    <3>1. <<>> \in Seq(Reject)
      OBVIOUS
    <3>2. rejects' = Tail(rejects) \/ rejects' = <<>>
      BY <2>1
    <3> QED
      BY <3>1, <3>2, <2>2
  <2> QED
    BY <1>1, <1>2, <1>3, <1>5, <2>1, <2>5, <2>6 DEF Channels, Lengths
<1>7. CASE Take
  <2>1. /\ queue # <<>> /\ queue' = Tail(queue)
        /\ worker' = [at |-> "took", req |-> Head(queue)]
        /\ UNCHANGED <<rejects, answers>>
    BY <1>7 DEF Take
  <2>2. queue' \in Seq(Known) /\ Len(queue') <= Capacity
    BY <1>3, <2>1
  <2>3. worker' \in [at : {"took", "emitted", "dead"}, req : Known]
    BY <1>3, <2>1
  <2>4. WorkerOK'
    BY <1>2, <2>3 DEF WorkerOK
  <2> QED
    BY <1>1, <1>2, <1>3, <2>1, <2>2, <2>4 DEF Channels, Lengths
<1>8. CASE Start
  <2>1. worker.at = "took" /\ UNCHANGED <<queue, rejects, answers>>
    BY <1>8 DEF Start
  <2>2. worker.req \in Known
    BY <1>4, <2>1 DEF WorkerOK, Idle
  <2>3. CASE now > worker.req.deadline
    <3>1. worker' = [at |-> "done", req |-> worker.req,
                     result |-> Failure(worker.req, "expired")]
      BY <1>8, <2>3 DEF Start
    <3>2. Failure(worker.req, "expired") \in Answer
      BY <1>3, <2>2, FailureIsAnswer DEF Why
    <3>3. worker' \in [at : {"done"}, req : Known, result : Answer]
      BY <2>2, <3>1, <3>2
    <3>4. WorkerOK'
      BY <1>2, <3>3 DEF WorkerOK
    <3> QED
      BY <1>1, <1>2, <1>3, <2>1, <3>4 DEF Channels, Lengths
  <2>4. CASE ~(now > worker.req.deadline)
    <3>1. worker' = [at |-> "running", req |-> worker.req, started |-> now]
      BY <1>8, <2>4 DEF Start
    <3>2. worker' \in [at : {"running"}, req : Known, started : Nat]
      BY <1>3, <2>2, <3>1
    <3>3. worker.req.deadline \in Nat
      BY <2>2 DEF Known, Request
    <3>4. worker'.started <= worker'.req.deadline
      BY <1>3, <2>4, <3>1, <3>3
    <3>5. WorkerOK'
      BY <1>2, <3>2, <3>4 DEF WorkerOK
    <3> QED
      BY <1>1, <1>2, <1>3, <2>1, <3>5 DEF Channels, Lengths
  <2> QED
    BY <2>3, <2>4
<1>9. CASE Finish
  <2>1. worker.at = "running" /\ UNCHANGED <<queue, rejects, answers>>
    BY <1>9 DEF Finish
  <2>2. /\ worker.req \in Known /\ worker.started \in Nat
        /\ worker.started <= worker.req.deadline
    BY <1>4, <2>1 DEF WorkerOK, Idle
  <2>3. PICK ok \in BOOLEAN :
          worker' = [at |-> "done", req |-> worker.req,
                     result |-> Result(worker.req, worker.started, ok, "backend")]
    BY <1>9 DEF Finish
  <2>4. Result(worker.req, worker.started, ok, "backend") \in Answer
    <3>1. worker.req.id \in Nat
      BY <2>2 DEF Known, Request
    <3> QED
      BY <1>3, <2>2, <3>1 DEF Result, Answer, Why
  <2>5. worker' \in [at : {"done"}, req : Known, result : Answer]
    BY <2>2, <2>3, <2>4
  <2>6. WorkerOK'
    BY <1>2, <2>5 DEF WorkerOK
  <2> QED
    BY <1>1, <1>2, <1>3, <2>1, <2>6 DEF Channels, Lengths
<1>10. CASE Emit
  <2>1. /\ worker.at = "done" /\ UNCHANGED <<queue, rejects>>
        /\ answers' = answers \/ answers' = Append(answers, worker.result)
    BY <1>10 DEF Emit
  <2>2. worker.req \in Known /\ worker.result \in Answer
    BY <1>4, <2>1 DEF WorkerOK, Idle
  <2>3. \/ worker' = [at |-> "emitted", req |-> worker.req]
        \/ worker' = [at |-> "dead", req |-> worker.req]
    BY <1>10 DEF Emit
  <2>4. worker' \in [at : {"took", "emitted", "dead"}, req : Known]
    BY <2>2, <2>3
  <2>5. WorkerOK'
    BY <1>2, <2>4 DEF WorkerOK
  <2>6. answers' \in Seq(Answer)
    BY <1>3, <2>1, <2>2, AppendType
  <2> QED
    BY <1>1, <1>2, <1>3, <2>1, <2>5, <2>6 DEF Channels, Lengths
<1>11. CASE Release
  <2>1. worker' = Idle /\ UNCHANGED <<queue, rejects, answers>>
    BY <1>11 DEF Release
  <2>2. WorkerOK'
    BY <2>1 DEF WorkerOK, Idle, NoRequest
  <2> QED
    BY <1>1, <1>2, <1>3, <2>1, <2>2 DEF Channels, Lengths
<1> QED
  BY <1>1, <1>6, <1>7, <1>8, <1>9, <1>10, <1>11 DEF PerceptionStep

LEMMA PerceptionKeeps ==
  ASSUME IInv, PerceptionStep
  PROVE  IInv'
<1>1. UNCHANGED <<now, ledgerVars, readyAt, lastReconcile, replaced>>
  BY DEF PerceptionStep, EmitReject, Take, Start, Finish, Emit,
         Release
<1>2. Channels' /\ recent' \in Seq(Nat) /\ Lengths'
  BY PerceptionChannels DEF IInv, CountersOK
<1> QED
  BY <1>1, <1>2, LedgerUntouched

-----------------------------------------------------------------------------
(* The invariant.                                                          *)

LEMMA InitInv == Init => IInv
<1> SUFFICES ASSUME Init
             PROVE  IInv
  OBVIOUS
<1>1. {Deadline, RestartTime, ReconcileGap} \subseteq Nat /\ Capacity \in Nat /\ RecentLimit \in Nat
  BY ReidAssumption
<1>2. CountersOK
  BY DEF Init, Ledger!LedgerInit, ExecInit, CountersOK
<1>3. InFlightOK /\ ReplacedOK /\ AcceptedOK
  BY DEF Init, Ledger!LedgerInit, InFlightOK, ReplacedOK, AcceptedOK, Ledger!None
<1>4. Channels
  BY DEF Init, Ledger!LedgerInit, ExecInit, Channels, WorkerOK
<1>5. Lengths /\ Reconciled
  BY <1>1 DEF Init, Ledger!LedgerInit, ExecInit, Lengths, Reconciled
<1> QED
  BY <1>2, <1>3, <1>4, <1>5 DEF IInv

LEMMA StutterStep ==
  ASSUME IInv, UNCHANGED vars
  PROVE  IInv'
<1>1. Channels'
  <2>1. Known' = Known
    BY SameKnown DEF vars
  <2>2. UNCHANGED <<sent, queue, rejects, answers, worker>>
    BY DEF vars, perceptionVars
  <2> QED
    BY <2>1, <2>2, StillKnown DEF IInv, Channels
<1> QED
  BY <1>1, LedgerUntouched DEF vars, perceptionVars, IInv, CountersOK, Lengths

LEMMA StepInv ==
  ASSUME IInv, [Next]_vars
  PROVE  IInv'
BY FrameStep, SelectionStep, ReconcileStep, ResultStep, RestartStep, RequestStep,
   PerceptionKeeps, AdvanceStep, StutterStep DEF Next

-----------------------------------------------------------------------------
(* The theorems.                                                           *)

LEMMA Inductive == Spec => []IInv
<1>1. Init => IInv
  BY InitInv
<1>2. IInv /\ [Next]_vars => IInv'
  BY StepInv
<1> QED
  BY <1>1, <1>2, PTL DEF Spec

\* What is in flight was sent by this process, under distinct numbers and in
\* the present frame generation; the queues keep their bounds.
THEOREM Type_Correct == Spec => []TypeOK
<1>1. IInv => TypeOK
  <2> SUFFICES ASSUME IInv
               PROVE  TypeOK
    OBVIOUS
  <2>1. ASSUME NEW r \in inFlight
        PROVE  r.id < nextId /\ r.process = process /\ r.frameGen = frameGen
    BY DEF IInv, InFlightOK, Known, Sent, Current
  <2>2. ASSUME NEW r \in inFlight, NEW q \in inFlight, r.id = q.id
        PROVE  r = q
    BY <2>2 DEF IInv, InFlightOK, Known, Sent, Current
  <2> QED
    BY <2>1, <2>2 DEF TypeOK, IInv, Lengths, CountersOK
<1> QED
  BY <1>1, Inductive, PTL

\* The observation kept was computed from the request it is kept for, of this
\* process and the present selection, if a restart outlasts a deadline.
THEOREM Accepted_Causal ==
  ASSUME RestartIsSlow
  PROVE  Spec => []AcceptedIsCausal
<1>1. IInv => AcceptedIsCausal
  BY DEF IInv, AcceptedOK, AcceptedIsCausal
<1> QED
  BY <1>1, Inductive, PTL

\* No request stays in flight beyond its deadline and one reconciliation.
THEOREM Overdue_Forgotten == Spec => []OverdueForgotten
<1>1. IInv => OverdueForgotten
  <2> SUFFICES ASSUME IInv, Up, NEW r \in inFlight
               PROVE  now <= r.deadline + ReconcileGap
    BY DEF OverdueForgotten
  <2>1. {now, lastReconcile, ReconcileGap, r.deadline} \subseteq Nat
    BY ReidAssumption DEF IInv, CountersOK, InFlightOK, Known, Request
  <2>2. now <= lastReconcile + ReconcileGap /\ lastReconcile <= r.deadline
    BY DEF IInv, Reconciled
  <2> QED
    BY <2>1, <2>2
<1> QED
  BY <1>1, Inductive, PTL

\* No observation is accepted for a track that has since become another one.
THEOREM Accepted_Of_Same_Instance == Spec => AcceptedOfSameInstance
<1>1. ASSUME IInv, [Next]_vars, accepted' # accepted, accepted' # Ledger!None
      PROVE  accepted'.request.id \notin replaced
  <2>1. CASE ResultArrives
    <3>1. PICK r \in inFlight : accepted'.request = r /\ trackGen[r.track] = r.trackGen
      BY <1>1, <2>1, ResultStep
    <3>2. Current(r) /\ r \in Request
      BY <1>1 DEF IInv, InFlightOK, Known
    <3>3. trackGen[r.track] \in Nat
      BY <1>1, <3>2 DEF IInv, CountersOK, Request
    <3> QED
      BY <3>1, <3>2, <3>3 DEF Current
  <2>2. CASE Frame
    <3>1. \E period \in {cancels, cancels + 1} : \E u \in Seq(Request) : FrameChange(u, period)
      BY <1>1, <2>2, FrameSends
    <3>2. accepted' = Ledger!None \/ accepted' = accepted
      BY <3>1 DEF FrameChange
    <3> QED
      BY <1>1, <3>2
  <2>3. CASE Selection \/ Restart
    BY <1>1, <2>3 DEF Selection, Restart, Ledger!OnSelection, Ledger!Cancel, Ledger!Restart
  <2>4. CASE \/ Reconcile \/ RequestArrives \/ PerceptionStep \/ Advance \/ UNCHANGED vars
    BY <1>1, <2>4 DEF Reconcile, RequestArrives, PerceptionStep, Advance, vars, ledgerVars,
       Ledger!Reconcile
  <2> QED
    BY <1>1, <2>1, <2>2, <2>3, <2>4 DEF Next
<1>2. IInv /\ [Next]_vars =>
        [accepted' # accepted /\ accepted' # Ledger!None
           => accepted'.request.id \notin replaced]_vars
  BY <1>1
<1> QED
  BY <1>2, Inductive, PTL DEF Spec, AcceptedOfSameInstance

-----------------------------------------------------------------------------
(* The executor by itself (ReidService): where every request is.            *)

ServiceWhy == Why \cup {"cancelled"}
Reject == [of : submitted, why : ServiceWhy]
Numbers == {r.id : r \in submitted}
ServiceAnswer == [id : Numbers, of : submitted, started : Nat, completed : Nat,
                  ok : BOOLEAN, why : ServiceWhy]

ServiceWorkerOK ==
  \/ worker \in [at : {"idle", "ended"}, req : {NoRequest}]
  \/ worker \in [at : {"took", "emitted", "dead"}, req : submitted]
  \/ worker \in [at : {"running"}, req : submitted, started : Nat]
  \/ /\ worker \in [at : {"done"}, req : submitted, result : ServiceAnswer]
     /\ worker.result.of = worker.req

Places ==
  /\ now \in Nat
  /\ queue \in Seq(submitted) /\ Len(queue) <= Capacity
  /\ recent \in Seq(Numbers) /\ Len(recent) <= RecentLimit
  /\ rejects \in Seq(Reject) /\ answers \in Seq(ServiceAnswer)
  /\ ServiceWorkerOK
  /\ closer \in {"open", "due", "cancelling", "raised", "joined", "timed_out"}
  /\ sinkUp \in BOOLEAN

\* The requests that wait, that fail without having run, that the worker has
\* still to answer, and that are answered.
Of(s)    == [i \in 1 .. Len(s) |-> s[i].of]
Waits    == ToSet(queue)
Fails    == ToSet(Of(rejects))
Held     == IF worker.at \in {"took", "running", "done"} THEN {worker.req} ELSE {}
Finished == ToSet(Of(answers))

\* A request is in one of these places, and there once.
Unique == Once(queue) /\ Once(Of(rejects)) /\ Once(Of(answers))
Parted ==
  /\ Waits \cap Fails = {} /\ Waits \cap Held = {} /\ Waits \cap Finished = {}
  /\ Fails \cap Held = {} /\ Fails \cap Finished = {} /\ Held \cap Finished = {}

SInv == Places /\ Unique /\ Parted

\* A longer queue.
LEMMA OnceAppend ==
  ASSUME NEW S, NEW s \in Seq(S), NEW e
  PROVE  /\ ToSet(Append(s, e)) = ToSet(s) \cup {e}
         /\ Once(s) /\ e \notin ToSet(s) => Once(Append(s, e))
<1>1. /\ Len(s) \in Nat /\ Len(Append(s, e)) = Len(s) + 1
      /\ DOMAIN Append(s, e) = 1 .. Len(s) + 1 /\ DOMAIN s = 1 .. Len(s)
      /\ \A i \in 1 .. Len(s) : Append(s, e)[i] = s[i]
      /\ Append(s, e)[Len(s) + 1] = e
  OBVIOUS
<1>2. \A i \in 1 .. Len(s) + 1 : i \in 1 .. Len(s) \/ i = Len(s) + 1
  BY <1>1
<1>3. ToSet(Append(s, e)) \subseteq ToSet(s) \cup {e}
  BY <1>1, <1>2 DEF ToSet
<1>4. ToSet(s) \subseteq ToSet(Append(s, e)) /\ e \in ToSet(Append(s, e))
  <2>1. 1 .. Len(s) \subseteq 1 .. Len(s) + 1 /\ Len(s) + 1 \in 1 .. Len(s) + 1
    BY <1>1
  <2> QED
    BY <1>1, <2>1 DEF ToSet
<1>5. ASSUME Once(s), e \notin ToSet(s)
      PROVE  Once(Append(s, e))
  <2>1. \A i \in 1 .. Len(s) : s[i] # e
    BY <1>1, <1>5 DEF ToSet
  <2> QED
    BY <1>1, <1>2, <1>5, <2>1 DEF Once
<1> QED
  BY <1>3, <1>4, <1>5

\* A queue without its first.
LEMMA OnceTail ==
  ASSUME NEW S, NEW s \in Seq(S), s # <<>>
  PROVE  /\ Tail(s) \in Seq(S) /\ Len(Tail(s)) = Len(s) - 1
         /\ Head(s) \in S /\ Head(s) \in ToSet(s) /\ ToSet(Tail(s)) \subseteq ToSet(s)
         /\ ToSet(s) \subseteq {Head(s)} \cup ToSet(Tail(s))
         /\ Once(s) => Once(Tail(s)) /\ Head(s) \notin ToSet(Tail(s))
<1>1. /\ Len(s) \in Nat \ {0} /\ Tail(s) \in Seq(S) /\ Len(Tail(s)) = Len(s) - 1
      /\ Head(s) = s[1] /\ Head(s) \in S
      /\ DOMAIN Tail(s) = 1 .. Len(s) - 1 /\ DOMAIN s = 1 .. Len(s)
  OBVIOUS
<1>2. \A i \in 1 .. Len(s) - 1 : Tail(s)[i] = s[i + 1]
  OBVIOUS
<1>3. 1 \in 1 .. Len(s) /\ \A i \in 1 .. Len(s) - 1 : i + 1 \in 1 .. Len(s)
  BY <1>1
<1>4. Head(s) \in ToSet(s) /\ ToSet(Tail(s)) \subseteq ToSet(s)
  BY <1>1, <1>2, <1>3 DEF ToSet
<1>5. ASSUME Once(s)
      PROVE  Once(Tail(s)) /\ Head(s) \notin ToSet(Tail(s))
  <2>1. \A i \in 1 .. Len(s) - 1 : s[i + 1] # s[1]
    BY <1>1, <1>3, <1>5 DEF Once
  <2>2. Once(Tail(s))
    BY <1>1, <1>2, <1>3, <1>5 DEF Once
  <2> QED
    BY <1>1, <1>2, <2>1, <2>2 DEF ToSet
<1>6. ToSet(s) \subseteq {Head(s)} \cup ToSet(Tail(s))
  <2>1. ASSUME NEW i \in 1 .. Len(s), i # 1
        PROVE  i - 1 \in 1 .. Len(s) - 1 /\ Tail(s)[i - 1] = s[i]
    <3>1. i - 1 \in 1 .. Len(s) - 1 /\ (i - 1) + 1 = i
      BY <1>1, <2>1
    <3> QED
      BY <1>2, <3>1
  <2>2. ASSUME NEW e \in ToSet(s), e # Head(s)
        PROVE  e \in ToSet(Tail(s))
    <3>1. PICK i \in 1 .. Len(s) : s[i] = e
      BY <1>1 DEF ToSet
    <3>2. i # 1
      BY <1>1, <2>2, <3>1
    <3>3. i - 1 \in 1 .. Len(s) - 1 /\ Tail(s)[i - 1] = e
      BY <2>1, <3>1, <3>2
    <3> QED
      BY <1>1, <3>3 DEF ToSet
  <2> QED
    BY <2>2
<1> QED
  BY <1>1, <1>4, <1>5, <1>6

\* A queue put after another one.
LEMMA OnceConcat ==
  ASSUME NEW S, NEW s \in Seq(S), NEW t \in Seq(S)
  PROVE  /\ ToSet(s \o t) \subseteq ToSet(s) \cup ToSet(t)
         /\ ToSet(s) \cup ToSet(t) \subseteq ToSet(s \o t)
         /\ Once(s) /\ Once(t) /\ ToSet(s) \cap ToSet(t) = {} => Once(s \o t)
<1>1. /\ Len(s) \in Nat /\ Len(t) \in Nat /\ Len(s \o t) = Len(s) + Len(t)
      /\ DOMAIN s = 1 .. Len(s) /\ DOMAIN t = 1 .. Len(t)
      /\ DOMAIN (s \o t) = 1 .. Len(s) + Len(t)
  OBVIOUS
<1>2. \A i \in 1 .. Len(s) + Len(t) :
        (s \o t)[i] = IF i <= Len(s) THEN s[i] ELSE t[i - Len(s)]
  BY ConcatFacts
<1>3. \A i \in 1 .. Len(s) + Len(t) : i <= Len(s) => i \in 1 .. Len(s)
  BY <1>1
<1>4. \A i \in 1 .. Len(s) + Len(t) : ~(i <= Len(s)) => i - Len(s) \in 1 .. Len(t)
  BY <1>1
<1>5. ToSet(s \o t) \subseteq ToSet(s) \cup ToSet(t)
  BY <1>1, <1>2, <1>3, <1>4 DEF ToSet
<1>6. ASSUME Once(s), Once(t), ToSet(s) \cap ToSet(t) = {}
      PROVE  Once(s \o t)
  <2>1. \A i \in 1 .. Len(s), j \in 1 .. Len(t) : s[i] # t[j]
    BY <1>1, <1>6 DEF ToSet
  <2>2. SUFFICES ASSUME NEW i \in 1 .. Len(s) + Len(t), NEW j \in 1 .. Len(s) + Len(t),
                        (s \o t)[i] = (s \o t)[j]
                 PROVE  i = j
    BY <1>1 DEF Once
  <2>3. CASE i <= Len(s) /\ j <= Len(s)
    BY <1>2, <1>3, <1>6, <2>2, <2>3 DEF Once
  <2>4. CASE ~(i <= Len(s)) /\ ~(j <= Len(s))
    <3>1. i - Len(s) = j - Len(s)
      BY <1>2, <1>4, <1>6, <2>2, <2>4 DEF Once
    <3> QED
      BY <1>1, <3>1
  <2>5. CASE (i <= Len(s)) # (j <= Len(s))
    BY <1>2, <1>3, <1>4, <2>1, <2>2, <2>5
  <2> QED
    BY <2>3, <2>4, <2>5
<1>7. ToSet(s) \cup ToSet(t) \subseteq ToSet(s \o t)
  <2>1. ASSUME NEW i \in 1 .. Len(s)
        PROVE  i \in 1 .. Len(s) + Len(t) /\ (s \o t)[i] = s[i]
    BY <1>1, <1>2
  <2>2. ASSUME NEW i \in 1 .. Len(t)
        PROVE  /\ Len(s) + i \in 1 .. Len(s) + Len(t)
               /\ (s \o t)[Len(s) + i] = t[i]
    <3>1. /\ Len(s) + i \in 1 .. Len(s) + Len(t) /\ ~(Len(s) + i <= Len(s))
          /\ (Len(s) + i) - Len(s) = i
      BY <1>1
    <3> QED
      BY <1>2, <3>1
  <2>3. ToSet(s) \subseteq ToSet(s \o t)
    BY <1>1, <2>1 DEF ToSet
  <2>4. ToSet(t) \subseteq ToSet(s \o t)
    BY <1>1, <2>2 DEF ToSet
  <2> QED
    BY <2>3, <2>4
<1> QED
  BY <1>5, <1>6, <1>7

\* The requests of a queue of failures or answers.
LEMMA OfType ==
  ASSUME NEW S, NEW T, \A e \in T : e.of \in S, NEW s \in Seq(T)
  PROVE  Of(s) \in Seq(S) /\ Len(Of(s)) = Len(s) /\ ToSet(Of(s)) \subseteq S
<1>1. Of(s) \in [1 .. Len(s) -> S] /\ Len(s) \in Nat
  BY DEF Of
<1> QED
  BY <1>1 DEF ToSet

LEMMA OfAppend ==
  ASSUME NEW T, NEW s \in Seq(T), NEW e
  PROVE  Of(Append(s, e)) = Append(Of(s), e.of)
<1>1. /\ Len(s) \in Nat /\ Len(Append(s, e)) = Len(s) + 1
      /\ \A i \in 1 .. Len(s) : Append(s, e)[i] = s[i]
      /\ Append(s, e)[Len(s) + 1] = e
  OBVIOUS
<1>2. Of(s) = [i \in 1 .. Len(s) |-> s[i].of] /\ Len(Of(s)) = Len(s)
  BY <1>1 DEF Of
<1>3. Append(Of(s), e.of) = [i \in 1 .. Len(s) + 1 |->
                               IF i = Len(s) + 1 THEN e.of ELSE Of(s)[i]]
  BY <1>1, <1>2
<1>4. \A i \in 1 .. Len(s) + 1 :
        Append(s, e)[i].of = IF i = Len(s) + 1 THEN e.of ELSE Of(s)[i]
  BY <1>1, <1>2
<1> QED
  BY <1>1, <1>3, <1>4 DEF Of

LEMMA OfTail ==
  ASSUME NEW T, NEW s \in Seq(T), s # <<>>
  PROVE  Of(Tail(s)) = Tail(Of(s)) /\ Of(s) # <<>> /\ Head(Of(s)) = Head(s).of
<1>1. /\ Len(s) \in Nat \ {0} /\ Len(Tail(s)) = Len(s) - 1 /\ Head(s) = s[1]
      /\ \A i \in 1 .. Len(s) - 1 : Tail(s)[i] = s[i + 1]
  OBVIOUS
<1>2. Of(s) = [i \in 1 .. Len(s) |-> s[i].of] /\ Len(Of(s)) = Len(s)
  BY <1>1 DEF Of
<1>3. Tail(Of(s)) = [i \in 1 .. Len(s) - 1 |-> Of(s)[i + 1]]
  BY <1>1, <1>2
<1>4. \A i \in 1 .. Len(s) - 1 : i + 1 \in 1 .. Len(s)
  BY <1>1
<1> QED
  BY <1>1, <1>2, <1>3, <1>4 DEF Of

LEMMA OfFailures ==
  ASSUME NEW S, NEW s \in Seq(S), NEW t \in Seq(S), NEW a, NEW b
  PROVE  /\ Of(Failures(s, a)) = s
         /\ Of(Failures(s, a) \o Failures(t, b)) = s \o t
         /\ Of(Failures(s, a) \o <<>>) = s
<1> DEFINE f == Failures(s, a)
           g == Failures(t, b)
           Pairs == [of : S, why : {a, b}]
<1>1. /\ Len(f) = Len(s) /\ Len(g) = Len(t)
      /\ Len(s) \in Nat /\ Len(t) \in Nat
  BY DEF Failures
<1>2. \A i \in 1 .. Len(s) : f[i].of = s[i]
  BY DEF Failures
<1>3. \A i \in 1 .. Len(t) : g[i].of = t[i]
  BY DEF Failures
<1>5. f \in Seq(Pairs) /\ g \in Seq(Pairs)
  BY FailuresType
<1> HIDE DEF f, g, Pairs
<1>4. Of(f) = s
  BY <1>1, <1>2 DEF Of
<1>6. /\ f \o g \in Seq(Pairs) /\ Len(f \o g) = Len(s) + Len(t)
      /\ \A i \in 1 .. Len(s) + Len(t) :
           (f \o g)[i] = IF i <= Len(s) THEN f[i] ELSE g[i - Len(s)]
  <2>1. /\ f \o g \in Seq(Pairs) /\ Len(f \o g) = Len(f) + Len(g)
        /\ \A i \in 1 .. Len(f) + Len(g) :
             (f \o g)[i] = IF i <= Len(f) THEN f[i] ELSE g[i - Len(f)]
    BY <1>5, ConcatFacts
  <2> QED
    BY <1>1, <2>1
<1>7. /\ s \o t \in Seq(S) /\ Len(s \o t) = Len(s) + Len(t)
      /\ \A i \in 1 .. Len(s) + Len(t) :
           (s \o t)[i] = IF i <= Len(s) THEN s[i] ELSE t[i - Len(s)]
  BY ConcatFacts
<1>8. ASSUME NEW i \in 1 .. Len(s) + Len(t)
      PROVE  (f \o g)[i].of = (s \o t)[i]
  <2>1. CASE i <= Len(s)
    BY <1>1, <1>2, <1>6, <1>7, <2>1
  <2>2. CASE ~(i <= Len(s))
    <3>1. i - Len(s) \in 1 .. Len(t)
      BY <1>1, <2>2
    <3> QED
      BY <1>3, <1>6, <1>7, <2>2, <3>1
  <2> QED
    BY <2>1, <2>2
<1>9. Of(f \o g) = s \o t
  <2>1. s \o t = [i \in 1 .. Len(s) + Len(t) |-> (s \o t)[i]]
    <3>1. s \o t = [i \in 1 .. Len(s \o t) |-> (s \o t)[i]]
      BY <1>7, SeqIsFunction
    <3> QED
      BY <1>7, <3>1
  <2>2. Of(f \o g) = [i \in 1 .. Len(s) + Len(t) |-> (f \o g)[i].of]
    BY <1>6 DEF Of
  <2> QED
    BY <1>8, <2>1, <2>2
<1>10. f \o <<>> = f
  BY <1>5
<1> QED
  BY <1>4, <1>9, <1>10 DEF f, g

-----------------------------------------------------------------------------
(* Each step keeps every request in one place.                              *)

\* Every request that is anywhere was submitted.
LEMMA PlacesSubmitted ==
  ASSUME Places
  PROVE  /\ Waits \subseteq submitted /\ Fails \subseteq submitted
         /\ Held \subseteq submitted /\ Finished \subseteq submitted
         /\ Of(rejects) \in Seq(submitted) /\ Of(answers) \in Seq(submitted)
<1>1. Waits \subseteq submitted
  BY DEF Places, Waits, ToSet
<1>2. Of(rejects) \in Seq(submitted) /\ Fails \subseteq submitted
  <2>1. \A e \in Reject : e.of \in submitted
    BY DEF Reject
  <2> QED
    BY <2>1, OfType DEF Places, Fails
<1>3. Of(answers) \in Seq(submitted) /\ Finished \subseteq submitted
  <2>1. \A e \in ServiceAnswer : e.of \in submitted
    BY DEF ServiceAnswer
  <2> QED
    BY <2>1, OfType DEF Places, Finished
<1>4. Held \subseteq submitted
  BY DEF Places, ServiceWorkerOK, Held
<1> QED
  BY <1>1, <1>2, <1>3, <1>4

LEMMA SameSubmitted ==
  ASSUME submitted' = submitted
  PROVE  Reject' = Reject /\ Numbers' = Numbers /\ ServiceAnswer' = ServiceAnswer
<1>1. Reject' = Reject /\ Numbers' = Numbers
  BY DEF Reject, Numbers
<1> QED
  BY <1>1 DEF ServiceAnswer

\* What the lists hold after a submission.
ListsAfter(r) ==
  /\ queue' \in Seq(submitted \cup {r}) /\ Len(queue') <= Capacity
  /\ Once(queue') /\ ToSet(queue') \subseteq Waits \cup {r}
  /\ rejects' \in Seq([of : submitted \cup {r}, why : ServiceWhy])
  /\ Once(Of(rejects)') /\ ToSet(Of(rejects)') \subseteq Waits \cup {r}
  /\ ToSet(queue') \cap ToSet(Of(rejects)') = {}
  /\ Waits \cup {r} \subseteq ToSet(queue') \cup ToSet(Of(rejects)')
  /\ recent' \in Seq(Numbers \cup {r.id}) /\ Len(recent') <= RecentLimit

LEMMA SubmitLists ==
  ASSUME SInv, NEW r \in Requests \ submitted, Submit(r)
  PROVE  ListsAfter(r)
<1> DEFINE all == submitted \cup {r}
           Failed == [of : all, why : ServiceWhy]
<1>1. /\ queue \in Seq(submitted) /\ Len(queue) <= Capacity /\ Len(queue) \in Nat
      /\ recent \in Seq(Numbers) /\ Len(recent) <= RecentLimit
      /\ Once(queue) /\ Waits \subseteq submitted /\ r \notin Waits
      /\ Capacity \in Nat \ {0} /\ RecentLimit \in Nat \ {0}
  BY PlacesSubmitted, ServiceAssumption DEF SInv, Places, Unique
<1>2. queue \in Seq(all)
  BY <1>1, SeqGrows
<1>3. /\ recent \in Seq(Numbers \cup {r.id})
      /\ Remember(r.id) \in Seq(Numbers \cup {r.id}) /\ Len(Remember(r.id)) <= RecentLimit
  <2>1. recent \in Seq(Numbers \cup {r.id})
    BY <1>1, SeqGrows
  <2> QED
    BY <1>1, <2>1, RememberBound
<1>4. {"duplicate", "not_newer", "superseded", "overflow"} \subseteq ServiceWhy
  BY DEF ServiceWhy, Why
<1>5. ASSUME NEW why \in {"duplicate", "not_newer"}, SubmitRefused(r, why)
      PROVE  ListsAfter(r)
  <2>1. /\ rejects' = <<[of |-> r, why |-> why]>> /\ queue' = queue /\ recent' = recent
    BY <1>5 DEF SubmitRefused
  <2>2. Of(rejects)' = <<r>> /\ rejects' \in Seq(Failed)
    BY <1>4, <1>5, <2>1 DEF Of
  <2>3. Once(<<r>>) /\ ToSet(<<r>>) = {r}
    BY DEF Once, ToSet
  <2>4. queue' \in Seq(all) /\ Len(queue') <= Capacity /\ Once(queue')
    BY <1>1, <1>2, <2>1
  <2>5. ToSet(queue') = Waits
    BY <2>1 DEF Waits
  <2>6. recent' \in Seq(Numbers \cup {r.id}) /\ Len(recent') <= RecentLimit
    BY <1>1, <1>3, <2>1
  <2>7. Once(Of(rejects)') /\ ToSet(Of(rejects)') = {r}
    BY <2>2, <2>3
  <2> QED
    BY <1>1, <2>2, <2>4, <2>5, <2>6, <2>7 DEF ListsAfter
<1>6. ASSUME SubmitAccepted(r)
      PROVE  ListsAfter(r)
  <2> DEFINE kept == Others(r)
             same == SameTrack(r)
  <2>1. /\ same \in Seq(submitted) /\ ToSet(same) \subseteq Waits /\ Once(same)
        /\ kept \in Seq(submitted) /\ Len(kept) <= Len(queue) /\ Len(kept) \in Nat
        /\ ToSet(kept) \subseteq Waits
        /\ Once(kept) /\ ToSet(same) \cap ToSet(kept) = {}
        /\ Waits \subseteq ToSet(same) \cup ToSet(kept)
    BY <1>1, OthersAndSameTrack DEF Waits
  <2>2. recent' = Remember(r.id)
    BY <1>6 DEF SubmitAccepted
  <2>3. same \in Seq(all) /\ kept \in Seq(all)
    BY <2>1, SeqGrows
  <2>4. ASSUME NEW left \in Seq(all), Len(left) < Capacity, Len(left) \in Nat,
               Once(left), ToSet(left) \subseteq Waits, queue' = Append(left, r)
        PROVE  /\ queue' \in Seq(all) /\ Len(queue') <= Capacity
               /\ Once(queue') /\ ToSet(queue') = ToSet(left) \cup {r}
    <3>1. queue' \in Seq(all) /\ Len(queue') = Len(left) + 1
      BY <2>4
    <3> QED
      BY <1>1, <2>4, <3>1, OnceAppend
  <2>5. CASE Len(kept) >= Capacity
    <3>1. kept # <<>>
      BY <1>1, <2>1, <2>5
    <3>2. /\ Tail(kept) \in Seq(submitted) /\ Len(Tail(kept)) = Len(kept) - 1
          /\ Head(kept) \in submitted /\ Head(kept) \in ToSet(kept)
          /\ ToSet(Tail(kept)) \subseteq ToSet(kept)
          /\ ToSet(kept) \subseteq {Head(kept)} \cup ToSet(Tail(kept))
          /\ Once(Tail(kept)) /\ Head(kept) \notin ToSet(Tail(kept))
      BY <2>1, <3>1, OnceTail
    <3>3. /\ queue' = Append(Tail(kept), r)
          /\ rejects' = Failures(same, "superseded") \o Failures(<<Head(kept)>>, "overflow")
      BY <1>6, <2>5 DEF SubmitAccepted
    <3> DEFINE first == <<Head(kept)>>
    <3>4. first \in Seq(all) /\ Once(first) /\ ToSet(first) = {Head(kept)}
      BY <3>2 DEF Once, ToSet
    <3> HIDE DEF same, first, kept
    <3>5. /\ queue' \in Seq(all) /\ Len(queue') <= Capacity
          /\ Once(queue') /\ ToSet(queue') = ToSet(Tail(kept)) \cup {r}
      <4>1. Tail(kept) \in Seq(all) /\ Len(Tail(kept)) < Capacity /\ Len(Tail(kept)) \in Nat
        BY <1>1, <2>1, <3>2, <2>5, SeqGrows
      <4> QED
        BY <2>1, <2>4, <3>2, <3>3, <4>1
    <3>6. rejects' \in Seq(Failed)
      <4>1. Failures(same, "superseded") \in Seq(Failed)
        BY <1>4, <2>3, FailuresType
      <4>2. Failures(first, "overflow") \in Seq(Failed)
        BY <1>4, <3>4, FailuresType
      <4> QED
        BY <3>3, <4>1, <4>2, ConcatFacts DEF first
    <3>7. Of(rejects)' = same \o first
      <4>1. Of(Failures(same, "superseded") \o Failures(first, "overflow")) = same \o first
        BY <2>3, <3>4, OfFailures
      <4>2. rejects' = Failures(same, "superseded") \o Failures(first, "overflow")
        BY <3>3 DEF first
      <4> QED
        BY <4>1, <4>2
    <3>8. Once(same \o first) /\ ToSet(same \o first) = ToSet(same) \cup {Head(kept)}
      BY <2>1, <2>3, <3>2, <3>4, OnceConcat
    <3>9. /\ Once(Of(rejects)')
          /\ ToSet(Of(rejects)') = ToSet(same) \cup {Head(kept)}
      BY <3>7, <3>8
    <3>10. ToSet(queue') \subseteq Waits \cup {r} /\ ToSet(Of(rejects)') \subseteq Waits
      BY <2>1, <3>2, <3>5, <3>9
    <3>11. ToSet(queue') \cap ToSet(Of(rejects)') = {}
      BY <1>1, <2>1, <3>2, <3>5, <3>9
    <3>12. Waits \cup {r} \subseteq ToSet(queue') \cup ToSet(Of(rejects)')
      BY <2>1, <3>2, <3>5, <3>9
    <3> QED
      BY <1>3, <2>2, <3>5, <3>6, <3>9, <3>10, <3>11, <3>12 DEF ListsAfter
  <2>6. CASE ~(Len(kept) >= Capacity)
    <3>1. /\ queue' = Append(kept, r)
          /\ rejects' = Failures(same, "superseded") \o <<>>
      BY <1>6, <2>6 DEF SubmitAccepted
    <3> HIDE DEF same, kept
    <3>2. /\ queue' \in Seq(all) /\ Len(queue') <= Capacity
          /\ Once(queue') /\ ToSet(queue') = ToSet(kept) \cup {r}
      <4>1. Len(kept) < Capacity
        BY <1>1, <2>1, <2>6
      <4> QED
        BY <2>1, <2>3, <2>4, <3>1, <4>1
    <3>3. rejects' \in Seq(Failed)
      <4>1. Failures(same, "superseded") \in Seq(Failed)
        BY <1>4, <2>3, FailuresType
      <4> QED
        BY <3>1, <4>1
    <3>4. Of(rejects)' = same
      BY <2>3, <3>1, OfFailures
    <3>5. Once(Of(rejects)') /\ ToSet(Of(rejects)') = ToSet(same)
      BY <2>1, <3>4
    <3>6. ToSet(queue') \subseteq Waits \cup {r} /\ ToSet(Of(rejects)') \subseteq Waits
      BY <2>1, <3>2, <3>5
    <3>7. ToSet(queue') \cap ToSet(Of(rejects)') = {}
      BY <1>1, <2>1, <3>2, <3>5
    <3>8. Waits \cup {r} \subseteq ToSet(queue') \cup ToSet(Of(rejects)')
      BY <2>1, <3>2, <3>5
    <3> QED
      BY <1>3, <2>2, <3>2, <3>3, <3>5, <3>6, <3>7, <3>8 DEF ListsAfter
  <2> QED
    BY <2>5, <2>6
<1> QED
  BY <1>5, <1>6 DEF Submit

LEMMA ArrivesStep ==
  ASSUME SInv, Arrives
  PROVE  SInv'
<1>1. PICK r \in Requests \ submitted : Submit(r) /\ submitted' = submitted \cup {r}
  BY DEF Arrives
<1>2. UNCHANGED <<now, worker, answers, closer, sinkUp>>
  BY <1>1 DEF Submit, SubmitRefused, SubmitAccepted
<1>3. /\ Reject' = [of : submitted \cup {r}, why : ServiceWhy]
      /\ Numbers' = Numbers \cup {r.id} /\ ServiceAnswer \subseteq ServiceAnswer'
  <2>1. Reject' = [of : submitted \cup {r}, why : ServiceWhy]
    BY <1>1 DEF Reject
  <2>2. Numbers' = Numbers \cup {r.id}
    BY <1>1 DEF Numbers
  <2> QED
    BY <1>1, <2>1, <2>2 DEF ServiceAnswer
<1>4. Places'
  <2>1. answers' \in Seq(ServiceAnswer')
    BY <1>2, <1>3, SeqGrows DEF SInv, Places
  <2>2. ServiceWorkerOK'
    <3>1. ServiceWorkerOK /\ worker' = worker /\ submitted \subseteq submitted'
      BY <1>1, <1>2 DEF SInv, Places
    <3> QED
      BY <1>3, <3>1 DEF ServiceWorkerOK
  <2> QED
    BY <1>1, <1>2, <1>3, <2>1, <2>2, SubmitLists DEF SInv, Places, ListsAfter
<1>5. Finished' = Finished /\ Held' = Held /\ Of(answers)' = Of(answers)
  BY <1>2 DEF Finished, Held, Of
<1>6. /\ Once(queue') /\ Waits' \subseteq Waits \cup {r}
      /\ Once(Of(rejects)') /\ Fails' \subseteq Waits \cup {r}
      /\ Waits' \cap Fails' = {}
  BY <1>1, SubmitLists DEF Waits, Fails, ListsAfter
<1>7. Unique'
  BY <1>5, <1>6 DEF SInv, Unique
<1>8. r \notin Held /\ r \notin Finished
  BY <1>1, PlacesSubmitted DEF SInv
<1>9. Parted'
  BY <1>5, <1>6, <1>8 DEF SInv, Parted
<1> QED
  BY <1>4, <1>7, <1>9 DEF SInv

\* An answer put on the topic comes from a place that loses it.
LEMMA AnswerPut ==
  ASSUME Places, NEW a \in ServiceAnswer, answers' = Append(answers, a)
  PROVE  /\ answers' \in Seq(ServiceAnswer) /\ Finished' = Finished \cup {a.of}
         /\ Once(Of(answers)) /\ a.of \notin Finished => Once(Of(answers)')
<1>1. answers \in Seq(ServiceAnswer) /\ Of(answers) \in Seq(submitted)
  BY PlacesSubmitted DEF Places
<1>2. Of(answers)' = Append(Of(answers), a.of)
  BY <1>1, OfAppend
<1>3. answers' \in Seq(ServiceAnswer)
  BY <1>1, AppendType
<1> QED
  BY <1>1, <1>2, <1>3, OnceAppend DEF Finished

LEMMA EmitRejectStep ==
  ASSUME SInv, EmitReject, submitted' = submitted
  PROVE  SInv'
<1>1. UNCHANGED <<now, queue, recent, worker, closer, sinkUp>> /\ rejects # <<>>
  BY DEF EmitReject
<1>2. Places /\ rejects \in Seq(Reject) /\ Of(rejects) \in Seq(submitted) /\ now \in Nat
  BY PlacesSubmitted DEF SInv, Places
<1>3. Reject' = Reject /\ Numbers' = Numbers /\ ServiceAnswer' = ServiceAnswer
  BY SameSubmitted
<1> DEFINE first == Head(rejects)
           a == Failure(first.of, first.why)
<1>4. /\ first \in Reject /\ Tail(rejects) \in Seq(Reject)
      /\ Of(Tail(rejects)) = Tail(Of(rejects)) /\ Of(rejects) # <<>>
      /\ Head(Of(rejects)) = first.of
  BY <1>1, <1>2, HeadTailType, OfTail
<1>5. a \in ServiceAnswer /\ a.of = first.of
  <2>1. first.of \in submitted /\ first.why \in ServiceWhy /\ first.of.id \in Numbers
    BY <1>4 DEF Reject, Numbers
  <2>2. a = [id |-> first.of.id, of |-> first.of, started |-> now, completed |-> now,
             ok |-> FALSE, why |-> first.why]
    BY DEF Failure, Result
  <2>3. a.of = first.of
    BY <2>2
  <2>4. a \in ServiceAnswer
    <3> HIDE DEF first
    <3> QED
      BY <1>2, <2>1, <2>2 DEF ServiceAnswer
  <2> QED
    BY <2>3, <2>4
<1>6. Waits' = Waits /\ Held' = Held /\ ServiceWorkerOK'
  <2>1. Waits' = Waits /\ Held' = Held
    BY <1>1 DEF Waits, Held
  <2>2. ServiceWorkerOK /\ worker' = worker /\ submitted' = submitted
    BY <1>1, <1>2 DEF Places
  <2> QED
    BY <1>3, <2>1, <2>2 DEF ServiceWorkerOK
<1>7. CASE sinkUp
  <2>1. answers' = Append(answers, a) /\ rejects' = Tail(rejects)
    BY <1>7 DEF EmitReject
  <2> HIDE DEF a
  <2>2. /\ ToSet(Tail(Of(rejects))) \subseteq Fails /\ first.of \in Fails
        /\ Once(Tail(Of(rejects))) /\ first.of \notin ToSet(Tail(Of(rejects)))
    BY <1>2, <1>4, OnceTail DEF SInv, Unique, Fails
  <2>3. Of(rejects)' = Tail(Of(rejects)) /\ Fails' = ToSet(Tail(Of(rejects)))
    BY <1>4, <2>1 DEF Fails
  <2>4. first.of \notin Finished
    BY <2>2 DEF SInv, Parted
  <2>5. /\ answers' \in Seq(ServiceAnswer) /\ Finished' = Finished \cup {first.of}
        /\ Once(Of(answers)')
    BY <1>2, <1>5, <2>1, <2>4, AnswerPut DEF SInv, Unique
  <2>6. Places'
    BY <1>1, <1>3, <1>4, <1>6, <2>1, <2>5 DEF SInv, Places
  <2>7. Unique'
    BY <1>1, <2>2, <2>3, <2>5 DEF SInv, Unique
  <2>8. Parted'
    BY <1>6, <2>2, <2>3, <2>5 DEF SInv, Parted
  <2> QED
    BY <2>6, <2>7, <2>8 DEF SInv
<1>8. CASE ~sinkUp
  <2>1. answers' = answers /\ rejects' = <<>>
    BY <1>8 DEF EmitReject
  <2>2. Of(rejects)' = <<>> /\ Fails' = {} /\ Once(<<>>)
    BY <2>1 DEF Of, Fails, ToSet, Once
  <2>3. Finished' = Finished /\ Of(answers)' = Of(answers)
    BY <2>1 DEF Finished, Of
  <2>4. Places'
    BY <1>1, <1>3, <1>6, <2>1 DEF SInv, Places
  <2>5. Unique' /\ Parted'
    BY <1>1, <1>6, <2>2, <2>3 DEF SInv, Unique, Parted
  <2> QED
    BY <2>4, <2>5 DEF SInv
<1> QED
  BY <1>7, <1>8

\* The worker takes the first request that waits.
LEMMA TakeStep ==
  ASSUME SInv, Take, submitted' = submitted
  PROVE  SInv'
<1>1. /\ UNCHANGED <<now, recent, rejects, closer, sinkUp, answers>>
      /\ worker.at = "idle" /\ queue # <<>>
      /\ worker' = [at |-> "took", req |-> Head(queue)] /\ queue' = Tail(queue)
  BY DEF Take
<1>2. Places /\ queue \in Seq(submitted) /\ Len(queue) \in Nat /\ Capacity \in Nat
  BY ServiceAssumption DEF SInv, Places
<1>3. Reject' = Reject /\ Numbers' = Numbers /\ ServiceAnswer' = ServiceAnswer
  BY SameSubmitted
<1>4. /\ Tail(queue) \in Seq(submitted) /\ Len(Tail(queue)) = Len(queue) - 1
      /\ Head(queue) \in submitted /\ Head(queue) \in Waits
      /\ ToSet(Tail(queue)) \subseteq Waits
      /\ Once(Tail(queue)) /\ Head(queue) \notin ToSet(Tail(queue))
  BY <1>1, <1>2, OnceTail DEF SInv, Unique, Waits
<1>5. ServiceWorkerOK'
  <2>1. worker' \in [at : {"took", "emitted", "dead"}, req : submitted']
    BY <1>1, <1>4
  <2> QED
    BY <2>1 DEF ServiceWorkerOK
<1>6. Places'
  BY <1>1, <1>2, <1>3, <1>4, <1>5 DEF Places
<1>7. /\ Waits' = ToSet(Tail(queue)) /\ Held' = {Head(queue)}
      /\ Fails' = Fails /\ Finished' = Finished
      /\ Of(rejects)' = Of(rejects) /\ Of(answers)' = Of(answers)
  BY <1>1 DEF Waits, Held, Fails, Finished, Of
<1>8. Unique'
  BY <1>1, <1>4, <1>7 DEF SInv, Unique
<1>9. Parted'
  BY <1>4, <1>7 DEF SInv, Parted
<1> QED
  BY <1>6, <1>8, <1>9 DEF SInv

\* A step of the worker, or of the shutdown, that moves no request.
LEMMA NothingMoves ==
  ASSUME SInv, UNCHANGED <<queue, recent, rejects, answers, submitted>>,
         now' \in Nat, ServiceWorkerOK', Held' \subseteq Held, sinkUp' \in BOOLEAN,
         closer' \in {"open", "due", "cancelling", "raised", "joined", "timed_out"}
  PROVE  SInv'
<1>1. Reject' = Reject /\ Numbers' = Numbers /\ ServiceAnswer' = ServiceAnswer
  BY SameSubmitted
<1>2. Places'
  BY <1>1 DEF SInv, Places
<1>3. /\ Waits' = Waits /\ Fails' = Fails /\ Finished' = Finished
      /\ Of(rejects)' = Of(rejects) /\ Of(answers)' = Of(answers)
  BY DEF Waits, Fails, Finished, Of
<1>4. Unique'
  BY <1>3 DEF SInv, Unique
<1>5. Parted'
  BY <1>3 DEF SInv, Parted
<1> QED
  BY <1>2, <1>4, <1>5 DEF SInv

\* The worker starts its request or lets it expire, runs it, or lets go of it.
LEMMA WorkingStep ==
  ASSUME SInv, Start \/ Finish \/ Release \/ Leave, submitted' = submitted
  PROVE  SInv'
<1>1. UNCHANGED <<now, queue, recent, rejects, closer, sinkUp, answers>>
  BY DEF Start, Finish, Release, Leave
<1>2. /\ ServiceWorkerOK /\ now \in Nat /\ sinkUp \in BOOLEAN
      /\ closer \in {"open", "due", "cancelling", "raised", "joined", "timed_out"}
  BY DEF SInv, Places
<1>3. Reject' = Reject /\ Numbers' = Numbers /\ ServiceAnswer' = ServiceAnswer
  BY SameSubmitted
<1>4. ASSUME NEW started \in Nat, NEW ok \in BOOLEAN, NEW why \in ServiceWhy,
             worker.req \in submitted
      PROVE  /\ Result(worker.req, started, ok, why) \in ServiceAnswer
             /\ Result(worker.req, started, ok, why).of = worker.req
  <2>1. worker.req.id \in Numbers
    BY <1>4 DEF Numbers
  <2> QED
    BY <1>2, <1>4, <2>1 DEF Result, ServiceAnswer
<1>5. {"expired", "backend"} \subseteq ServiceWhy
  BY DEF ServiceWhy, Why
<1>6. CASE Start
  <2>1. worker.at = "took" /\ worker.req \in submitted
    BY <1>2, <1>6 DEF Start, ServiceWorkerOK
  <2>2. CASE now > worker.req.deadline
    <3> DEFINE a == Result(worker.req, now, FALSE, "expired")
    <3>1. worker' = [at |-> "done", req |-> worker.req, result |-> a]
      BY <1>6, <2>2 DEF Start, Failure
    <3>2. a \in ServiceAnswer /\ a.of = worker.req
      BY <1>2, <1>4, <1>5, <2>1
    <3> HIDE DEF a
    <3>3. ServiceWorkerOK'
      BY <1>3, <2>1, <3>1, <3>2 DEF ServiceWorkerOK
    <3>4. Held' = Held
      BY <2>1, <3>1 DEF Held
    <3> QED
      BY <1>1, <1>2, <3>3, <3>4, NothingMoves
  <2>3. CASE ~(now > worker.req.deadline)
    <3>1. worker' = [at |-> "running", req |-> worker.req, started |-> now]
      BY <1>6, <2>3 DEF Start
    <3>2. ServiceWorkerOK'
      BY <1>2, <2>1, <3>1 DEF ServiceWorkerOK
    <3>3. Held' = Held
      BY <2>1, <3>1 DEF Held
    <3> QED
      BY <1>1, <1>2, <3>2, <3>3, NothingMoves
  <2> QED
    BY <2>2, <2>3
<1>7. CASE Finish
  <2>1. worker.at = "running" /\ worker.req \in submitted /\ worker.started \in Nat
    BY <1>2, <1>7 DEF Finish, ServiceWorkerOK
  <2>2. PICK ok \in BOOLEAN :
          worker' = [at |-> "done", req |-> worker.req,
                     result |-> Result(worker.req, worker.started, ok, "backend")]
    BY <1>7 DEF Finish
  <2> DEFINE a == Result(worker.req, worker.started, ok, "backend")
  <2>3. a \in ServiceAnswer /\ a.of = worker.req
    BY <1>4, <1>5, <2>1
  <2>4. worker' = [at |-> "done", req |-> worker.req, result |-> a]
    BY <2>2
  <2> HIDE DEF a
  <2>5. ServiceWorkerOK'
    BY <1>3, <2>1, <2>3, <2>4 DEF ServiceWorkerOK
  <2>6. Held' = Held
    BY <2>1, <2>4 DEF Held
  <2> QED
    BY <1>1, <1>2, <2>5, <2>6, NothingMoves
<1>8. CASE Release
  <2>1. worker' = [at |-> "idle", req |-> NoRequest]
    BY <1>8 DEF Release, Idle
  <2>2. ServiceWorkerOK' /\ Held' = {}
    BY <2>1 DEF ServiceWorkerOK, Held
  <2> QED
    BY <1>1, <1>2, <2>2, NothingMoves
<1>9. CASE Leave
  <2>1. worker.at = "idle" /\ worker \in [at : {"idle", "ended"}, req : {NoRequest}]
    BY <1>2, <1>9 DEF Leave, ServiceWorkerOK
  <2>2. worker' = [worker EXCEPT !.at = "ended"]
    BY <1>9 DEF Leave
  <2>3. worker' = [at |-> "ended", req |-> NoRequest]
    BY <2>1, <2>2
  <2>4. ServiceWorkerOK' /\ Held' = {}
    BY <2>3 DEF ServiceWorkerOK, Held
  <2> QED
    BY <1>1, <1>2, <2>4, NothingMoves
<1> QED
  BY <1>6, <1>7, <1>8, <1>9

\* The worker's answer goes out, or its thread ends with the request.
LEMMA EmitStep ==
  ASSUME SInv, Emit, submitted' = submitted
  PROVE  SInv'
<1>1. UNCHANGED <<now, queue, recent, rejects, closer, sinkUp>> /\ worker.at = "done"
  BY DEF Emit
<1>2. /\ Places /\ worker.req \in submitted /\ worker.result \in ServiceAnswer
      /\ worker.result.of = worker.req
  BY <1>1 DEF SInv, Places, ServiceWorkerOK
<1>3. Reject' = Reject /\ Numbers' = Numbers /\ ServiceAnswer' = ServiceAnswer
  BY SameSubmitted
<1>4. worker' = [at |-> IF sinkUp THEN "emitted" ELSE "dead", req |-> worker.req]
  BY DEF Emit
<1>5. ServiceWorkerOK' /\ Held' = {} /\ Held = {worker.req}
  <2>1. worker' \in [at : {"took", "emitted", "dead"}, req : submitted']
    BY <1>2, <1>4
  <2>2. worker'.at \in {"emitted", "dead"}
    BY <1>4
  <2> QED
    BY <1>1, <2>1, <2>2 DEF ServiceWorkerOK, Held
<1>6. CASE sinkUp
  <2>1. answers' = Append(answers, worker.result)
    BY <1>6 DEF Emit
  <2>2. /\ answers' \in Seq(ServiceAnswer) /\ Finished' = Finished \cup {worker.req}
        /\ Once(Of(answers)')
    <3>1. worker.req \notin Finished
      BY <1>5 DEF SInv, Parted
    <3> QED
      BY <1>2, <2>1, <3>1, AnswerPut DEF SInv, Unique
  <2>3. Places'
    BY <1>1, <1>2, <1>3, <1>5, <2>2 DEF Places
  <2>4. Waits' = Waits /\ Fails' = Fails /\ Of(rejects)' = Of(rejects)
    BY <1>1 DEF Waits, Fails, Of
  <2>5. Unique'
    BY <1>1, <2>2, <2>4 DEF SInv, Unique
  <2>6. Parted'
    BY <1>5, <2>2, <2>4 DEF SInv, Parted
  <2> QED
    BY <2>3, <2>5, <2>6 DEF SInv
<1>7. CASE ~sinkUp
  <2>1. answers' = answers
    BY <1>7 DEF Emit
  <2> QED
    BY <1>1, <1>2, <1>5, <2>1, NothingMoves DEF Places
<1> QED
  BY <1>6, <1>7

\* The shutdown turns what waits into failures.
LEMMA CloseStep ==
  ASSUME SInv, Close, submitted' = submitted
  PROVE  SInv'
<1>1. /\ UNCHANGED <<now, recent, worker, sinkUp, answers>> /\ rejects = <<>>
      /\ closer' = "cancelling" /\ queue' = <<>>
      /\ rejects' = Failures(queue, "cancelled")
  BY DEF Close
<1>2. Places /\ queue \in Seq(submitted) /\ Capacity \in Nat
  BY ServiceAssumption DEF SInv, Places
<1>3. Reject' = Reject /\ Numbers' = Numbers /\ ServiceAnswer' = ServiceAnswer
  BY SameSubmitted
<1>4. rejects' \in Seq(Reject) /\ Of(rejects)' = queue
  <2>1. "cancelled" \in ServiceWhy
    BY DEF ServiceWhy
  <2>2. Of(Failures(queue, "cancelled")) = queue
    BY <1>2, OfFailures
  <2> QED
    BY <1>1, <1>2, <2>1, <2>2, FailuresType DEF Reject
<1>5. ServiceWorkerOK' /\ Held' = Held
  <2>1. ServiceWorkerOK /\ worker' = worker
    BY <1>1, <1>2 DEF Places
  <2> QED
    BY <1>3, <2>1 DEF ServiceWorkerOK, Held
<1>6. queue' \in Seq(submitted) /\ Len(queue') <= Capacity
  BY <1>1, <1>2
<1>7. Places'
  BY <1>1, <1>2, <1>3, <1>4, <1>5, <1>6 DEF Places
<1>8. /\ Waits' = {} /\ Once(queue') /\ Fails' = Waits
      /\ Finished' = Finished /\ Of(answers)' = Of(answers)
  BY <1>1, <1>4 DEF Waits, Fails, Finished, Of, ToSet, Once
<1>9. Unique'
  BY <1>4, <1>8 DEF SInv, Unique
<1>10. Parted'
  BY <1>5, <1>8 DEF SInv, Parted
<1> QED
  BY <1>7, <1>9, <1>10 DEF SInv

\* The signal, the failure that cannot be published, and the join.
LEMMA ClosingStep ==
  ASSUME SInv, Signal \/ CloseRaises \/ Join, submitted' = submitted
  PROVE  SInv'
<1>1. UNCHANGED <<now, queue, recent, worker, answers>>
  BY DEF Signal, CloseRaises, Join
<1>2. /\ Places /\ now \in Nat /\ sinkUp \in BOOLEAN
      /\ closer \in {"open", "due", "cancelling", "raised", "joined", "timed_out"}
  BY DEF SInv, Places
<1>3. Reject' = Reject /\ Numbers' = Numbers /\ ServiceAnswer' = ServiceAnswer
  BY SameSubmitted
<1>4. ServiceWorkerOK' /\ Held' = Held
  <2>1. ServiceWorkerOK /\ worker' = worker
    BY <1>1, <1>2 DEF Places
  <2> QED
    BY <1>3, <2>1 DEF ServiceWorkerOK, Held
<1>5. /\ sinkUp' \in BOOLEAN
      /\ closer' \in {"open", "due", "cancelling", "raised", "joined", "timed_out"}
  BY <1>2 DEF Signal, CloseRaises, Join
<1>6. CASE Signal \/ Join
  <2>1. rejects' = rejects
    BY <1>6 DEF Signal, Join
  <2> QED
    BY <1>1, <1>2, <1>4, <1>5, <2>1, NothingMoves
<1>7. CASE CloseRaises
  <2>1. rejects' = <<>>
    BY <1>7 DEF CloseRaises
  <2>2. Of(rejects)' = <<>> /\ Fails' = {} /\ Once(<<>>) /\ rejects' \in Seq(Reject)
    BY <2>1 DEF Of, Fails, ToSet, Once
  <2>3. Waits' = Waits /\ Finished' = Finished /\ Of(answers)' = Of(answers)
    BY <1>1 DEF Waits, Finished, Of
  <2>4. Places'
    BY <1>1, <1>2, <1>3, <1>4, <1>5, <2>2 DEF Places
  <2>5. Unique'
    BY <1>1, <2>2, <2>3 DEF SInv, Unique
  <2>6. Parted'
    BY <1>4, <2>2, <2>3 DEF SInv, Parted
  <2> QED
    BY <2>4, <2>5, <2>6 DEF SInv
<1> QED
  BY <1>6, <1>7

LEMMA TickStep ==
  ASSUME SInv, Tick \/ UNCHANGED serviceVars
  PROVE  SInv'
<1>1. /\ UNCHANGED <<queue, recent, rejects, answers, submitted, worker, closer, sinkUp>>
      /\ now' = now \/ now' = now + 1
  BY DEF Tick, serviceVars, execVars
<1>2. /\ ServiceWorkerOK /\ now \in Nat /\ sinkUp \in BOOLEAN
      /\ closer \in {"open", "due", "cancelling", "raised", "joined", "timed_out"}
  BY DEF SInv, Places
<1>3. Reject' = Reject /\ Numbers' = Numbers /\ ServiceAnswer' = ServiceAnswer
  BY <1>1, SameSubmitted
<1>4. ServiceWorkerOK' /\ Held' = Held
  BY <1>1, <1>2, <1>3 DEF ServiceWorkerOK, Held
<1> QED
  BY <1>1, <1>2, <1>4, NothingMoves

LEMMA ServiceInitInv == ServiceInit => SInv
<1> SUFFICES ASSUME ServiceInit
             PROVE  SInv
  OBVIOUS
<1>1. /\ now = 1 /\ queue = <<>> /\ recent = <<>> /\ rejects = <<>> /\ answers = <<>>
      /\ worker = [at |-> "idle", req |-> NoRequest] /\ closer = "open" /\ sinkUp = TRUE
  BY DEF ServiceInit, ExecInit, Idle
<1>2. ServiceWorkerOK /\ Held = {}
  BY <1>1 DEF ServiceWorkerOK, Held
<1>3. Of(rejects) = <<>> /\ Of(answers) = <<>>
  BY <1>1 DEF Of
<1>4. Once(<<>>) /\ ToSet(<<>>) = {}
  BY DEF Once, ToSet
<1>5. Places
  BY <1>1, <1>2, ServiceAssumption DEF Places
<1>6. Unique /\ Parted
  BY <1>1, <1>2, <1>3, <1>4 DEF Unique, Parted, Waits, Fails, Finished
<1> QED
  BY <1>5, <1>6 DEF SInv

LEMMA ServiceInductive == ServiceSpec => []SInv
<1>1. SInv /\ [ServiceNext]_serviceVars => SInv'
  BY ArrivesStep, EmitRejectStep, TakeStep, WorkingStep, EmitStep, CloseStep, ClosingStep,
     TickStep DEF ServiceNext, Steps, SpinningStep, WorkerStep, CloserStep
<1> QED
  BY <1>1, ServiceInitInv, PTL DEF ServiceSpec

\* The executor's queues keep their bounds and hold submitted requests only.
THEOREM Service_Types == ServiceSpec => []ServiceTypeOK
<1>1. Places => ServiceTypeOK
  <2> SUFFICES ASSUME Places
               PROVE  ServiceTypeOK
    OBVIOUS
  <2>1. ToSet(queue) \subseteq submitted /\ ToSet(recent) \subseteq Numbers
    BY DEF Places, ToSet
  <2>2. /\ worker.at \in {"idle", "took", "running", "done", "emitted", "ended", "dead"}
        /\ worker.req \in submitted \cup {NoRequest}
    BY DEF Places, ServiceWorkerOK
  <2> QED
    BY <2>1, <2>2 DEF Places, ServiceTypeOK, Numbers
<1> QED
  BY <1>1, ServiceInductive, PTL DEF SInv

\* However the two threads and the shutdown interleave, no request is answered
\* twice: none is both run and reported as dropped, superseded or cancelled.
THEOREM One_Answer == ServiceSpec => []OneAnswer
<1>1. SInv => OneAnswer
  <2> SUFFICES ASSUME SInv
               PROVE  OneAnswer
    OBVIOUS
  <2>1. Once(Of(answers)) /\ Len(Of(answers)) = Len(answers)
    BY PlacesSubmitted DEF SInv, Unique, Of
  <2>2. \A i \in 1 .. Len(answers) : Of(answers)[i] = answers[i].of
    BY DEF Of
  <2> QED
    BY <2>1, <2>2 DEF Once, OneAnswer
<1> QED
  BY <1>1, ServiceInductive, PTL

-----------------------------------------------------------------------------
(* No request is lost.                                                      *)

\* As long as results can be published every request submitted waits, fails, is
\* held by the worker, or is answered; and they can be while nothing shuts down.
Accounted ==
  /\ closer = "open" => sinkUp
  /\ sinkUp => submitted \subseteq Waits \cup Fails \cup Held \cup Finished

LEMMA AccountedArrives ==
  ASSUME SInv, Accounted, Arrives
  PROVE  Accounted'
<1>1. PICK r \in Requests \ submitted : Submit(r) /\ submitted' = submitted \cup {r}
  BY DEF Arrives
<1>2. UNCHANGED <<worker, answers, closer, sinkUp>> /\ rejects = <<>> /\ closer = "open"
  BY <1>1 DEF Submit, SubmitRefused, SubmitAccepted, Spinning
<1>3. Fails = {}
  BY <1>2 DEF Fails, Of, ToSet
<1>4. Waits \cup {r} \subseteq Waits' \cup Fails'
  BY <1>1, SubmitLists DEF Waits, Fails, ListsAfter
<1>5. Held' = Held /\ Finished' = Finished
  BY <1>2 DEF Held, Finished, Of
<1> QED
  BY <1>1, <1>2, <1>3, <1>4, <1>5 DEF Accounted

LEMMA AccountedEmitReject ==
  ASSUME SInv, Accounted, EmitReject, submitted' = submitted
  PROVE  Accounted'
<1>1. UNCHANGED <<queue, worker, closer, sinkUp>> /\ rejects # <<>>
  BY DEF EmitReject
<1>2. /\ Waits' = Waits /\ Held' = Held
      /\ rejects \in Seq(Reject) /\ answers \in Seq(ServiceAnswer)
      /\ Of(rejects) \in Seq(submitted)
  BY <1>1, PlacesSubmitted DEF Waits, Held, SInv, Places
<1>3. CASE sinkUp
  <2> DEFINE a == Failure(Head(rejects).of, Head(rejects).why)
  <2>1. /\ answers' = Append(answers, a) /\ rejects' = Tail(rejects)
        /\ a.of = Head(rejects).of
    BY <1>3 DEF EmitReject, Failure, Result
  <2> HIDE DEF a
  <2>2. /\ Of(rejects)' = Tail(Of(rejects)) /\ Of(rejects) # <<>>
        /\ Head(Of(rejects)) = Head(rejects).of
    BY <1>1, <1>2, <2>1, OfTail
  <2>3. Of(answers)' = Append(Of(answers), Head(rejects).of)
    BY <1>2, <2>1, OfAppend
  <2>4. Fails \subseteq {Head(rejects).of} \cup Fails'
    BY <1>2, <2>2, OnceTail DEF Fails
  <2>5. Finished \cup {Head(rejects).of} \subseteq Finished'
    BY <2>3, PlacesSubmitted, OnceAppend DEF SInv, Finished
  <2> QED
    BY <1>1, <1>2, <2>4, <2>5 DEF Accounted
<1>4. CASE ~sinkUp
  BY <1>1, <1>4 DEF Accounted
<1> QED
  BY <1>3, <1>4

LEMMA AccountedWorker ==
  ASSUME SInv, Accounted, WorkerStep, submitted' = submitted
  PROVE  Accounted'
<1>1. UNCHANGED <<rejects, closer, sinkUp>> /\ Fails' = Fails
  BY DEF WorkerStep, Take, Start, Finish, Emit, Release, Leave, Fails, Of
<1>2. CASE Take
  <2>1. /\ queue # <<>> /\ queue' = Tail(queue) /\ answers' = answers
        /\ worker.at = "idle" /\ worker' = [at |-> "took", req |-> Head(queue)]
    BY <1>2 DEF Take
  <2>2. Held = {} /\ Held' = {Head(queue)} /\ Finished' = Finished
    BY <2>1 DEF Held, Finished, Of
  <2>3. Waits \subseteq {Head(queue)} \cup Waits'
    BY <2>1, OnceTail DEF SInv, Places, Waits
  <2> QED
    BY <1>1, <2>2, <2>3 DEF Accounted
<1>3. CASE Start \/ Finish \/ Release \/ Leave
  <2>1. UNCHANGED <<queue, answers>> /\ Held \subseteq Held'
    BY <1>3 DEF Start, Finish, Release, Leave, Held, Idle
  <2>2. Waits' = Waits /\ Finished' = Finished
    BY <2>1 DEF Waits, Finished, Of
  <2> QED
    BY <1>1, <2>1, <2>2 DEF Accounted
<1>4. CASE Emit
  <2>1. worker.at = "done" /\ queue' = queue /\ Waits' = Waits
    BY <1>4 DEF Emit, Waits
  <2>2. worker.result.of = worker.req /\ Held = {worker.req}
    BY <2>1 DEF SInv, Places, ServiceWorkerOK, Held
  <2>3. CASE sinkUp
    <3>1. answers' = Append(answers, worker.result)
      BY <1>4, <2>3 DEF Emit
    <3>2. answers \in Seq(ServiceAnswer)
      BY DEF SInv, Places
    <3>3. Of(answers)' = Append(Of(answers), worker.req)
      BY <2>2, <3>1, <3>2, OfAppend
    <3>4. Finished \cup {worker.req} \subseteq Finished'
      BY <3>3, PlacesSubmitted, OnceAppend DEF SInv, Finished
    <3> QED
      BY <1>1, <2>1, <2>2, <3>4 DEF Accounted
  <2>4. CASE ~sinkUp
    BY <1>1, <2>4 DEF Accounted
  <2> QED
    BY <2>3, <2>4
<1> QED
  BY <1>2, <1>3, <1>4 DEF WorkerStep

LEMMA AccountedClosing ==
  ASSUME SInv, Accounted, Signal \/ CloserStep, submitted' = submitted
  PROVE  Accounted'
<1>1. UNCHANGED <<worker, answers>> /\ Held' = Held /\ Finished' = Finished
  BY DEF CloserStep, Signal, Close, CloseRaises, Join, Held, Finished, Of
<1>2. CASE Signal
  <2>1. sinkUp /\ closer' = "due" /\ UNCHANGED <<queue, rejects>>
    BY <1>2 DEF Accounted, Signal
  <2>2. Waits' = Waits /\ Fails' = Fails
    BY <2>1 DEF Waits, Fails, Of
  <2> QED
    BY <1>1, <2>1, <2>2 DEF Accounted
<1>3. CASE Close
  <2>1. /\ rejects = <<>> /\ rejects' = Failures(queue, "cancelled")
        /\ closer' = "cancelling" /\ sinkUp' = sinkUp
    BY <1>3 DEF Close
  <2>2. Of(rejects)' = queue
    BY <2>1, OfFailures DEF SInv, Places
  <2>3. Fails = {} /\ Fails' = Waits
    BY <2>1, <2>2 DEF Fails, Waits, Of, ToSet
  <2> QED
    BY <1>1, <2>1, <2>3 DEF Accounted
<1>4. CASE CloseRaises \/ Join
  BY <1>4 DEF CloseRaises, Join, Accounted
<1> QED
  BY <1>2, <1>3, <1>4 DEF CloserStep

LEMMA AccountedTick ==
  ASSUME Accounted, Tick \/ UNCHANGED serviceVars
  PROVE  Accounted'
  BY DEF Tick, serviceVars, execVars, Accounted, Waits, Fails, Held, Finished, Of

\* No request that was submitted is forgotten as long as its result can be
\* published: it waits, is about to be reported as a failure, is with the
\* worker, or has its answer.  What EveryRequestAnswered adds is that the
\* threads go on until it is answered.
THEOREM Nothing_Lost == ServiceSpec => []Accounted
<1>1. ServiceInit => Accounted
  BY DEF ServiceInit, ExecInit, Accounted
<1>2. SInv /\ Accounted /\ [ServiceNext]_serviceVars => Accounted'
  BY AccountedArrives, AccountedEmitReject, AccountedWorker, AccountedClosing,
     AccountedTick DEF ServiceNext, Steps, SpinningStep
<1> QED
  BY <1>1, <1>2, ServiceInductive, PTL DEF ServiceSpec
=============================================================================
