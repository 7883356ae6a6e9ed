------------------------- MODULE AuthorityLinkProofs -------------------------
(***************************************************************************)
(* Theorems about AuthorityLink, for every number of sessions, selections  *)
(* and frames, every depth of the queues and every set of tracks.          *)
(***************************************************************************)
EXTENDS AuthorityLink, SequenceTheorems, TLAPS

Null == -1

-----------------------------------------------------------------------------
(* What the messages are.                                                  *)

Ids == TrackIds \cup {Null}

StatusMsg ==
  [session : Sessions, generation : 0 .. MaxGeneration,
   frame : Nat \cup {Null}, stamp : Nat \cup {Null}, track : Ids,
   state : {"NO_TARGET", "LOCKED", "UNCERTAIN", "LOST", "REACQUIRED"},
   control : {"NORMAL", "HOLD"}, fresh : BOOLEAN]

TargetMsg ==
  [msg : [id : TrackIds \cup {0}, frame : Nat, stamp : Nat, usable : BOOLEAN,
          ambiguous : BOOLEAN, ex : TrackIds \cup {0}, rangeErr : TrackIds \cup {0}],
   epoch : Epochs]

\* An epoch in which something may have been published.
Begun(e) == e = Issued \/ left[e] # Null

\* E names the epoch in which each frame was processed; a frame is processed
\* once.  What a status or a target says of a frame was said in that epoch; a
\* target with a track was made after a select; none is younger than the end
\* of its epoch.
StatusOf(E) ==
  {s \in StatusMsg :
     /\ s.frame <= tracked /\ Begun(<<s.session, s.generation>>)
     /\ s.frame > 0 => <<s.session, s.generation>> = E[s.frame]}

TargetOf(E) ==
  {y \in TargetMsg :
     /\ y.msg.frame <= tracked /\ y.msg.stamp = y.msg.frame /\ Begun(y.epoch)
     /\ y.msg.frame > 0 => y.epoch = E[y.msg.frame]
     /\ y.msg.id # 0 => chosen[y.epoch]
     /\ left[y.epoch] # Null => y.msg.stamp <= left[y.epoch]}

Queues(S) == [Sessions -> Seq(S)]

Messages(E) ==
  /\ statusQ \in Queues(StatusOf(E))
  /\ targetQ \in Queues(TargetOf(E))
  /\ status = Ctl!NoStatus \/ status \in StatusOf(E)
  /\ lastStatus = Tim!NoStatus \/ lastStatus \in StatusOf(E)
  /\ target = Ctl!NoTarget \/ [msg |-> target, epoch |-> heldEpoch] \in TargetOf(E)

-----------------------------------------------------------------------------
(* The inductive invariant.                                                *)

TimOK ==
  /\ now \in Nat /\ tracked \in Nat /\ tracked <= now
  /\ timSession \in Sessions /\ selection \in 0 .. MaxGeneration
  /\ pending \in Ids /\ mirrored \in Ids
  /\ memory \in [state : {"NO_TARGET", "LOCKED", "UNCERTAIN", "LOST"}, track : Ids]
  /\ memory.state = "LOCKED" => memory.track \in TrackIds
  /\ lastStatus # Tim!NoStatus =>
       lastStatus.session = timSession /\ lastStatus.generation = selection

Before(e, d) == e[1] < d[1] \/ (e[1] = d[1] /\ e[2] < d[2])

\* TIM-MARS goes through the epochs in one direction, and remembers a track
\* only in an epoch that a select began.
EpochsOK ==
  /\ left \in [Epochs -> Nat \cup {Null}] /\ chosen \in [Epochs -> BOOLEAN]
  /\ \A e \in Epochs : left[e] # Null => Before(e, Issued) /\ left[e] <= now
  /\ pending # Null \/ memory.state # "NO_TARGET" => chosen[Issued]

\* The controller is in an epoch TIM-MARS has been in.  While it follows, a
\* select began that epoch, and at the last timer callback it had not been
\* over for longer than the stale timeout.
ControllerOK ==
  /\ lastTimer \in Nat /\ lastTimer <= now /\ now - lastTimer <= TickMax
  /\ session # Null => Known \in Epochs /\ Begun(Known)
  /\ status # Ctl!NoStatus => session = status.session /\ generation = status.generation
  /\ cmd.mode = "NORMAL_FOLLOW" =>
       /\ session # Null /\ chosen[Known]
       /\ left[Known] # Null => lastTimer - left[Known] <= StaleTimeout

Sorted(q) == \A i, j \in 1 .. Len(q) : i < j => q[i].generation <= q[j].generation

\* Statuses come in the order of their epochs; the one published last is the
\* last that waits, or the controller is in its epoch.
OrderOK ==
  /\ \A r \in Sessions :
       /\ Sorted(statusQ[r])
       /\ \A i \in 1 .. Len(statusQ[r]) : statusQ[r][i].session = r
       /\ r > timSession => statusQ[r] = <<>>
       /\ session # Null /\ r < session => statusQ[r] = <<>>
       /\ r = session => \A i \in 1 .. Len(statusQ[r]) : generation <= statusQ[r][i].generation
  /\ session # Null => session \in Sessions
  /\ \A r \in retired : r \in Sessions /\ session # Null /\ r < session
  /\ selection > 0 /\ Known # Issued =>
       /\ statusQ[timSession] # <<>>
       /\ statusQ[timSession][Len(statusQ[timSession])].generation = selection

Lengths ==
  \A s \in Sessions :
    /\ Len(statusQ[s]) <= QueueDepth /\ Len(targetQ[s]) <= QueueDepth
    /\ \A i \in 1 .. Len(targetQ[s]) : targetQ[s][i].epoch[1] = s

Consistent(E) ==
  TimOK /\ EpochsOK /\ ControllerOK /\ OrderOK /\ Lengths /\ Messages(E)

IInv == \E E \in [Nat -> Epochs] : Consistent(E)

-----------------------------------------------------------------------------
(* Sequences.                                                              *)

LEMMA SeqGrows ==
  ASSUME NEW S, NEW T, S \subseteq T, NEW s \in Seq(S)
  PROVE  s \in Seq(T)
  OBVIOUS

EndsWith(k, x) == Len(k) > 0 /\ k[Len(k)] = x

\* k is q, d of its oldest dropped, and one more.
Extends(k, q, d) == \A i \in 1 .. Len(k) - 1 : i + d \in 1 .. Len(q) /\ k[i] = q[i + d]

Added(q, x) == Tim!KeepLast(Append(q, x))

\* The queue after one more message: its newest elements, this one last.
LEMMA KeptLast ==
  ASSUME NEW S, NEW q \in Seq(S), NEW x \in S, NEW k, k = Added(q, x)
  PROVE  /\ k \in Seq(S)
         /\ Len(q) <= QueueDepth => Len(k) <= QueueDepth
         /\ EndsWith(k, x)
         /\ Extends(k, q, 0) \/ Extends(k, q, 1)
<1> DEFINE a == Append(q, x)
<1>1. QueueDepth \in Nat /\ QueueDepth > 0
  BY LinkAssumption
<1>2. /\ a \in Seq(S) /\ Len(q) \in Nat /\ Len(a) = Len(q) + 1 /\ a[Len(a)] = x
      /\ \A i \in 1 .. Len(q) : a[i] = q[i]
  OBVIOUS
<1>3. CASE Len(a) > QueueDepth
  <2>1. k = Tail(a)
    BY <1>3 DEF Added, Tim!KeepLast
  <2>2. /\ k \in Seq(S) /\ Len(k) = Len(q)
        /\ \A i \in 1 .. Len(k) : k[i] = a[i + 1]
    BY <1>2, <2>1
  <2>3. Len(k) > 0 /\ k[Len(k)] = x
    BY <1>1, <1>2, <1>3, <2>2
  <2>4. \A i \in 1 .. Len(k) - 1 : i + 1 \in 1 .. Len(q) /\ k[i] = q[i + 1]
    BY <1>2, <2>2
  <2> HIDE DEF a
  <2> QED
    BY <1>2, <2>2, <2>3, <2>4 DEF Extends, EndsWith
<1>4. CASE ~(Len(a) > QueueDepth)
  <2>1. k = a
    BY <1>4 DEF Added, Tim!KeepLast
  <2>2. \A i \in 1 .. Len(a) - 1 : i + 0 \in 1 .. Len(q) /\ a[i] = q[i + 0]
    BY <1>2
  <2> HIDE DEF a
  <2> QED
    BY <1>1, <1>2, <1>4, <2>1, <2>2 DEF Extends, EndsWith
<1> QED
  BY <1>3, <1>4

LEMMA KeptLastIn ==
  ASSUME NEW R, NEW U, R \subseteq U, NEW p \in Seq(R), NEW z \in U, NEW h, h = Added(p, z)
  PROVE  /\ p \in Seq(U) /\ h \in Seq(U)
         /\ EndsWith(h, z)
         /\ Extends(h, p, 0) \/ Extends(h, p, 1)
<1>1. p \in Seq(U)
  BY SeqGrows
<1> QED
  BY <1>1, KeptLast

Later(k, q, i) == \A j \in 1 .. Len(k) : j + i \in 1 .. Len(q) /\ k[j] = q[j + i]

\* What follows the i-th message of a queue.
LEMMA LaterPart ==
  ASSUME NEW S, NEW q \in Seq(S), NEW i \in 1 .. Len(q), NEW k,
         k = SubSeq(q, i + 1, Len(q))
  PROVE  k \in Seq(S) /\ Len(k) \in Nat /\ Len(k) = Len(q) - i /\ Later(k, q, i)
<1>1. Len(q) \in Nat /\ i \in Nat /\ i <= Len(q) /\ \A j \in i + 1 .. Len(q) : q[j] \in S
  OBVIOUS
<1>2. /\ k \in Seq(S)
      /\ Len(k) = IF i + 1 <= Len(q) THEN Len(q) - (i + 1) + 1 ELSE 0
      /\ \A j \in 1 .. Len(q) - (i + 1) + 1 : k[j] = q[i + 1 + j - 1]
  BY <1>1, SubSeqProperties
<1>3. Len(k) = Len(q) - i /\ Len(k) \in Nat
  BY <1>1, <1>2
<1>4. ASSUME NEW j \in 1 .. Len(k)
      PROVE  j + i \in 1 .. Len(q) /\ k[j] = q[j + i]
  <2>1. j \in 1 .. Len(q) - (i + 1) + 1 /\ i + 1 + j - 1 = j + i
    BY <1>1, <1>3
  <2> QED
    BY <1>1, <1>2, <1>3, <2>1
<1> QED
  BY <1>2, <1>3, <1>4 DEF Later

LEMMA FirstAndRest ==
  ASSUME NEW R, NEW p \in Seq(R), p # <<>>, NEW t, t = Tail(p)
  PROVE  /\ p[1] \in R /\ Head(p) = p[1] /\ 1 \in 1 .. Len(p)
         /\ t \in Seq(R) /\ Len(t) \in Nat /\ Len(t) = Len(p) - 1 /\ Later(t, p, 1)
         /\ t = <<>> <=> Len(p) = 1
<1>1. Len(p) \in Nat /\ Len(p) > 0 /\ p[1] \in R /\ Head(p) = p[1]
  OBVIOUS
<1>2. /\ Tail(p) \in Seq(R) /\ Len(Tail(p)) = Len(p) - 1
      /\ \A j \in 1 .. Len(Tail(p)) : Tail(p)[j] = p[j + 1]
  BY HeadTailProperties, Zenon
<1>3. t \in Seq(R) /\ Len(t) = Len(p) - 1
  BY <1>2
<1>4. \A j \in 1 .. Len(t) : t[j] = p[j + 1]
  BY <1>2
<1>5. t = <<>> <=> Len(t) = 0
  <2>1. Len(<<>>) = 0 /\ (t # <<>> => Len(t) \in Nat \ {0})
    BY <1>3, EmptySeq, Zenon
  <2> QED BY <2>1
<1> QED
  BY <1>1, <1>3, <1>4, <1>5 DEF Later

-----------------------------------------------------------------------------
(* Steps of TIM-MARS: epochs only go forward.                              *)

Forward ==
  /\ TimMoves /\ now' = now
  /\ tracked' \in Nat /\ tracked <= tracked' /\ tracked' <= now
  /\ timSession' \in Sessions /\ selection' \in 0 .. MaxGeneration
  /\ Issued' = Issued \/ Before(Issued, Issued')
  /\ chosen' \in [Epochs -> BOOLEAN] /\ \A e \in Epochs : chosen[e] => chosen'[e]

LEMMA IssuedInEpochs ==
  ASSUME TimOK
  PROVE  Issued \in Epochs /\ now \in Nat
  BY DEF TimOK, Issued, Epochs

LEMMA EpochParts ==
  \A e \in Epochs : e[1] \in Sessions /\ e[1] \in Int /\ e[2] \in Int
<1> SUFFICES ASSUME NEW e \in Epochs
             PROVE  e[1] \in Sessions /\ e[1] \in Int /\ e[2] \in Int
  OBVIOUS
<1>1. e[1] \in Sessions /\ e[2] \in 0 .. MaxGeneration
  BY DEF Epochs
<1>2. e[1] \in Nat
  BY <1>1, LinkAssumption
<1>3. e[2] \in Int
  BY <1>1
<1> QED
  BY <1>1, <1>2, <1>3

LEMMA LeftGoesForward ==
  ASSUME TimOK, EpochsOK, Forward
  PROVE  /\ left' \in [Epochs -> Nat \cup {Null}]
         /\ \A e \in Epochs : left'[e] # Null => Before(e, Issued') /\ left'[e] <= now
         /\ \A e \in Epochs : left'[e] = left[e] \/ (left[e] = Null /\ left'[e] = now)
         /\ \A e \in Epochs : Begun(e) => Begun(e)'
         /\ Issued' \in Epochs /\ Begun(Issued)'
<1>1. Issued \in Epochs /\ now \in Nat /\ Sessions \subseteq Nat /\ MaxGeneration \in Nat
  BY IssuedInEpochs, LinkAssumption
<1>2. Issued' \in Epochs
  BY DEF Forward, Issued, Epochs
<1>3. \A e \in Epochs : e[1] \in Int /\ e[2] \in Int
  BY EpochParts
<1>4. left[Issued] = Null
  <2>1. ~Before(Issued, Issued)
    BY <1>1, <1>3 DEF Before
  <2> QED
    BY <1>1, <2>1 DEF EpochsOK
<1>5. CASE Issued' = Issued
  <2>1. left' = left
    BY <1>5 DEF Forward, TimMoves
  <2>2. \A e \in Epochs : Begun(e)' <=> Begun(e)
    BY <1>5, <2>1 DEF Begun
  <2>3. Begun(Issued)'
    BY DEF Begun
  <2>4. \A e \in Epochs : left[e] # Null => Before(e, Issued') /\ left[e] <= now
    BY <1>5 DEF EpochsOK
  <2>5. left' \in [Epochs -> Nat \cup {Null}]
    BY <2>1 DEF EpochsOK
  <2> HIDE DEF Begun, Before
  <2> QED
    BY <1>2, <2>1, <2>2, <2>3, <2>4, <2>5
<1>6. CASE Issued' # Issued
  <2>1. left' = [left EXCEPT ![Issued] = now] /\ Before(Issued, Issued')
    BY <1>6 DEF Forward, TimMoves
  <2>2. left' \in [Epochs -> Nat \cup {Null}]
    BY <1>1, <2>1 DEF EpochsOK
  <2>3. left'[Issued] = now /\ now # Null /\ \A e \in Epochs : e # Issued => left'[e] = left[e]
    BY <1>1, <2>1 DEF EpochsOK, Null
  <2>4. \A e \in Epochs : left'[e] # Null => Before(e, Issued') /\ left'[e] <= now
    <3> SUFFICES ASSUME NEW e \in Epochs, left'[e] # Null
                 PROVE  Before(e, Issued') /\ left'[e] <= now
      OBVIOUS
    <3>1. CASE e = Issued
      BY <1>1, <2>1, <2>3, <3>1
    <3>2. CASE e # Issued
      <4>1. Before(e, Issued) /\ left'[e] <= now
        BY <2>3, <3>2 DEF EpochsOK
      <4> QED
        BY <1>1, <1>2, <1>3, <2>1, <4>1 DEF Before
    <3> QED
      BY <3>1, <3>2
  <2>5. \A e \in Epochs : left'[e] = left[e] \/ (left[e] = Null /\ left'[e] = now)
    BY <1>4, <2>3
  <2>6. \A e \in Epochs : Begun(e) => Begun(e)'
    BY <2>3 DEF Begun
  <2>7. Begun(Issued)'
    BY DEF Begun
  <2> QED
    BY <1>2, <2>2, <2>4, <2>5, <2>6, <2>7
<1> QED
  BY <1>5, <1>6

\* Messages stay what they were said to be.
LEMMA MessagesStay ==
  ASSUME TimOK, EpochsOK, Forward, NEW E \in [Nat -> Epochs], NEW F \in [Nat -> Epochs],
         \A n \in Nat : n > 0 /\ n <= tracked => F[n] = E[n]
  PROVE  StatusOf(E) \subseteq StatusOf(F)' /\ TargetOf(E) \subseteq TargetOf(F)'
<1>1. /\ now \in Nat /\ {tracked, tracked'} \subseteq Nat
      /\ tracked <= tracked' /\ tracked <= now /\ \A e \in Epochs : chosen[e] => chosen'[e]
  BY DEF TimOK, Forward
<1>2. /\ \A e \in Epochs : Begun(e) => Begun(e)'
      /\ \A e \in Epochs : left'[e] = left[e] \/ (left[e] = Null /\ left'[e] = now)
  BY LeftGoesForward
<1>3. ASSUME NEW s \in StatusOf(E)
      PROVE  s \in StatusOf(F)'
  <2>1. s \in StatusMsg /\ s.frame \in Nat \cup {Null} /\ <<s.session, s.generation>> \in Epochs
    BY DEF StatusOf, StatusMsg, Epochs
  <2>2. s.frame <= tracked' /\ (s.frame > 0 => <<s.session, s.generation>> = F[s.frame])
    BY <1>1, <2>1 DEF StatusOf, Null
  <2>3. Begun(<<s.session, s.generation>>)'
    BY <1>2, <2>1 DEF StatusOf
  <2> QED
    BY <2>1, <2>2, <2>3 DEF StatusOf
<1>4. ASSUME NEW y \in TargetOf(E)
      PROVE  y \in TargetOf(F)'
  <2>1. y \in TargetMsg /\ y.msg.frame \in Nat /\ y.epoch \in Epochs /\ y.msg.stamp = y.msg.frame
    BY DEF TargetOf, TargetMsg
  <2>2. y.msg.frame <= tracked' /\ (y.msg.frame > 0 => y.epoch = F[y.msg.frame])
    BY <1>1, <2>1 DEF TargetOf
  <2>3. Begun(y.epoch)' /\ (y.msg.id # 0 => chosen'[y.epoch])
    BY <1>1, <1>2, <2>1 DEF TargetOf
  <2>4. left'[y.epoch] # Null => y.msg.stamp <= left'[y.epoch]
    BY <1>1, <1>2, <2>1 DEF TargetOf
  <2> QED
    BY <2>1, <2>2, <2>3, <2>4 DEF TargetOf
<1> QED
  BY <1>3, <1>4

LEMMA ControllerStays ==
  ASSUME TimOK, EpochsOK, ControllerOK, Forward
  PROVE  ControllerOK'
<1>1. UNCHANGED <<now, lastTimer, session, generation, status, cmd>>
  BY DEF Forward, TimMoves, ctlVars
<1>2. {now, lastTimer, StaleTimeout} \subseteq Nat /\ lastTimer <= now
  BY LinkAssumption DEF TimOK, ControllerOK
<1>3. Known' = Known
  BY <1>1 DEF Known
<1>4. session # Null => Known \in Epochs /\ Begun(Known)'
  <2>1. session # Null => Known \in Epochs /\ Begun(Known)
    BY DEF ControllerOK
  <2>2. \A e \in Epochs : Begun(e) => e = Issued' \/ left'[e] # Null
    BY LeftGoesForward DEF Begun
  <2> QED
    BY <1>3, <2>1, <2>2 DEF Begun
<1>5. ASSUME cmd.mode = "NORMAL_FOLLOW"
      PROVE  /\ session # Null /\ chosen'[Known]
             /\ left'[Known] # Null => lastTimer - left'[Known] <= StaleTimeout
  <2>1. session # Null /\ chosen[Known] /\ Known \in Epochs
    BY <1>5 DEF ControllerOK
  <2>2. left'[Known] = left[Known] \/ (left[Known] = Null /\ left'[Known] = now)
    BY <2>1, LeftGoesForward
  <2>3. chosen'[Known]
    BY <2>1 DEF Forward
  <2> QED
    BY <1>2, <1>5, <2>1, <2>2, <2>3 DEF ControllerOK
<1>6. session # Null => Known' \in Epochs
  BY <1>3, <1>4
<1> QED
  BY <1>1, <1>3, <1>4, <1>5, <1>6 DEF ControllerOK

-----------------------------------------------------------------------------
(* Publishing.                                                             *)

Published(Q, r, x) == [Q EXCEPT ![r] = Added(@, x)]

LEMMA QueuesGrow ==
  ASSUME NEW S, NEW T, S \subseteq T, NEW Q \in Queues(S)
  PROVE  Q \in Queues(T)
<1>1. \A p \in Sessions : Q[p] \in Seq(T)
  BY SeqGrows DEF Queues
<1> QED
  BY <1>1 DEF Queues

\* One more message in one of the queues.
LEMMA QueueTakes ==
  ASSUME NEW T, NEW Q \in Queues(T), NEW r \in Sessions, NEW x \in T,
         NEW P, P = Published(Q, r, x)
  PROVE  /\ P \in Queues(T)
         /\ P[r] = Added(Q[r], x)
         /\ \A p \in Sessions : p # r => P[p] = Q[p]
         /\ (\A p \in Sessions : Len(Q[p]) <= QueueDepth) =>
              \A p \in Sessions : Len(P[p]) <= QueueDepth
<1> DEFINE k == Added(Q[r], x)
<1>1. \A p \in Sessions : Q[p] \in Seq(T)
  BY DEF Queues
<1>2. k \in Seq(T) /\ (Len(Q[r]) <= QueueDepth => Len(k) <= QueueDepth)
  BY <1>1, KeptLast
<1> HIDE DEF k
<1>3. P = [Q EXCEPT ![r] = k]
  BY DEF k, Published
<1>4. P \in Queues(T) /\ P[r] = k /\ \A p \in Sessions : p # r => P[p] = Q[p]
  BY <1>1, <1>2, <1>3 DEF Queues
<1>5. ASSUME \A p \in Sessions : Len(Q[p]) <= QueueDepth
      PROVE  \A p \in Sessions : Len(P[p]) <= QueueDepth
  BY <1>2, <1>4, <1>5
<1> QED
  BY <1>4, <1>5 DEF k

\* Epochs begun are at most the one issued.
LEMMA BegunBounds ==
  ASSUME TimOK, EpochsOK, NEW e \in Epochs, Begun(e)
  PROVE  e[1] <= timSession /\ (e[1] = timSession => e[2] <= selection)
<1>1. Issued[1] = timSession /\ Issued[2] = selection
  BY DEF Issued
<1>2. {e[1], e[2], timSession, selection} \subseteq Int
  <2>1. Issued \in Epochs
    BY IssuedInEpochs
  <2> QED
    BY <1>1, <2>1, EpochParts
<1>3. CASE e = Issued
  BY <1>1, <1>2, <1>3
<1>4. CASE e # Issued
  <2>1. Before(e, Issued)
    BY <1>4 DEF EpochsOK, Begun
  <2> QED
    BY <1>1, <1>2, <2>1 DEF Before
<1> QED
  BY <1>3, <1>4

LEMMA OrderPublishes ==
  ASSUME TimOK, EpochsOK, ControllerOK, OrderOK,
         NEW E \in [Nat -> Epochs], statusQ \in Queues(StatusOf(E)),
         NEW x, x.session = timSession, x.generation = selection',
         statusQ' = [statusQ EXCEPT ![timSession] = Tim!KeepLast(Append(@, x))],
         selection' \in Nat, selection <= selection',
         UNCHANGED <<timSession, session, generation, retired>>
  PROVE  OrderOK'
<1> DEFINE q == statusQ[timSession]
           k == Tim!KeepLast(Append(q, x))
           Any == StatusOf(E) \cup {x}
<1>1. /\ timSession \in Sessions /\ timSession \in Int /\ selection \in Int
      /\ session # Null => session \in Sessions /\ session \in Int
  <2>1. timSession \in Sessions /\ selection \in 0 .. MaxGeneration
    BY DEF TimOK
  <2>2. session # Null => session \in Sessions
    BY DEF OrderOK
  <2>3. \A s \in Sessions : s \in Int
    BY LinkAssumption
  <2> QED
    BY <2>1, <2>2, <2>3
<1>2. /\ q \in Seq(Any)
      /\ k \in Seq(Any) /\ Len(k) \in Nat /\ Len(k) > 0 /\ k[Len(k)] = x
      /\ Extends(k, q, 0) \/ Extends(k, q, 1)
  <2>1. q \in Seq(StatusOf(E))
    BY <1>1 DEF Queues
  <2>2. k = Added(q, x)
    BY DEF Added
  <2>3. StatusOf(E) \subseteq Any /\ x \in Any
    OBVIOUS
  <2> HIDE DEF k, q, Any
  <2>4. /\ q \in Seq(Any) /\ k \in Seq(Any)
        /\ EndsWith(k, x)
        /\ Extends(k, q, 0) \/ Extends(k, q, 1)
    BY ONLY <2>1, <2>2, <2>3, KeptLastIn
  <2> QED
    BY <2>4 DEF EndsWith
<1>3. PICK d \in {0, 1} : \A i \in 1 .. Len(k) - 1 : i + d \in 1 .. Len(q) /\ k[i] = q[i + d]
  BY <1>2 DEF Extends, EndsWith
<1>4. \A i \in 1 .. Len(q) :
        /\ q[i].session = timSession
        /\ q[i].generation \in Int /\ q[i].generation <= selection
  <2> SUFFICES ASSUME NEW i \in 1 .. Len(q)
               PROVE  /\ q[i].session = timSession
                      /\ q[i].generation \in Int /\ q[i].generation <= selection
    OBVIOUS
  <2>1. q[i] \in StatusOf(E) /\ q[i].session = timSession
    BY <1>1 DEF OrderOK, Queues
  <2> HIDE DEF q
  <2>2. <<q[i].session, q[i].generation>> \in Epochs /\ Begun(<<q[i].session, q[i].generation>>)
    BY <2>1 DEF StatusOf, StatusMsg, Epochs
  <2>3. q[i].generation <= selection
    BY <2>1, <2>2, BegunBounds
  <2>4. q[i].generation \in Int
    BY <2>1 DEF StatusOf, StatusMsg
  <2> QED
    BY <2>1, <2>3, <2>4
<1>5. /\ session # Null => session <= timSession
      /\ session = timSession => generation \in Int /\ generation <= selection
  <2>1. CASE session # Null
    <3>1. Known \in Epochs /\ Begun(Known) /\ Known[1] = session /\ Known[2] = generation
      BY <2>1 DEF ControllerOK, Known
    <3> QED
      BY <3>1, BegunBounds, EpochParts
  <2>2. CASE session = Null
    BY <1>1, <2>2, LinkAssumption DEF Null
  <2> QED
    BY <2>1, <2>2
<1> HIDE DEF k, q
<1>6. \A i \in 1 .. Len(k) : k[i].session = timSession /\ k[i].generation \in Int
                             /\ k[i].generation <= selection'
  <2> SUFFICES ASSUME NEW i \in 1 .. Len(k)
               PROVE  /\ k[i].session = timSession /\ k[i].generation \in Int
                      /\ k[i].generation <= selection'
    OBVIOUS
  <2>1. CASE i = Len(k)
    BY <1>2, <2>1
  <2>2. CASE i # Len(k)
    <3>1. i + d \in 1 .. Len(q) /\ k[i] = q[i + d]
      BY <1>2, <1>3, <2>2
    <3> QED
      BY <1>1, <1>4, <3>1
  <2> QED
    BY <2>1, <2>2
<1>7. Sorted(k)
  <2> SUFFICES ASSUME NEW i \in 1 .. Len(k), NEW j \in 1 .. Len(k), i < j
               PROVE  k[i].generation <= k[j].generation
    BY DEF Sorted
  <2>1. CASE j = Len(k)
    BY <1>2, <1>6, <2>1
  <2>2. CASE j # Len(k)
    <3>1. /\ i + d \in 1 .. Len(q) /\ j + d \in 1 .. Len(q) /\ i + d < j + d
          /\ k[i] = q[i + d] /\ k[j] = q[j + d]
      BY <1>2, <1>3, <2>2
    <3>2. Sorted(q)
      BY <1>1 DEF OrderOK, q
    <3> QED
      BY <3>1, <3>2 DEF Sorted
  <2> QED
    BY <2>1, <2>2
<1>8. session = timSession => \A i \in 1 .. Len(k) : generation <= k[i].generation
  <2> SUFFICES ASSUME session = timSession, NEW i \in 1 .. Len(k)
               PROVE  generation <= k[i].generation
    OBVIOUS
  <2>1. CASE i = Len(k)
    BY <1>1, <1>2, <1>5, <2>1
  <2>2. CASE i # Len(k)
    <3>1. i + d \in 1 .. Len(q) /\ k[i] = q[i + d]
      BY <1>2, <1>3, <2>2
    <3>2. \A j \in 1 .. Len(q) : generation <= q[j].generation
      BY <1>1 DEF OrderOK, q
    <3> QED
      BY <3>1, <3>2
  <2> QED
    BY <2>1, <2>2
<1>9. /\ statusQ'[timSession] = k
      /\ \A r \in Sessions : r # timSession => statusQ'[r] = statusQ[r]
  BY <1>1 DEF k, q, Queues
<1>10. k # <<>> /\ k[Len(k)].generation = selection'
  BY <1>2
<1>11. \A r \in Sessions :
         /\ Sorted(statusQ'[r])
         /\ \A i \in 1 .. Len(statusQ'[r]) : statusQ'[r][i].session = r
         /\ r > timSession => statusQ'[r] = <<>>
         /\ session # Null /\ r < session => statusQ'[r] = <<>>
         /\ r = session => \A i \in 1 .. Len(statusQ'[r]) : generation <= statusQ'[r][i].generation
  <2> SUFFICES ASSUME NEW r \in Sessions
               PROVE  <1>11!(r)
    OBVIOUS
  <2>1. CASE r = timSession
    BY <1>1, <1>5, <1>6, <1>7, <1>8, <1>9, <2>1
  <2>2. CASE r # timSession
    BY <1>9, <2>2 DEF OrderOK
  <2> QED
    BY <2>1, <2>2
<1> QED
  BY <1>9, <1>10, <1>11 DEF OrderOK, Sorted

\* A step of TIM-MARS that publishes the target y, then the status x.
LEMMA MessagesPublished ==
  ASSUME TimOK, EpochsOK, Forward, Lengths,
         NEW E \in [Nat -> Epochs], Messages(E), NEW F \in [Nat -> Epochs],
         \A n \in Nat : n > 0 /\ n <= tracked => F[n] = E[n],
         NEW x \in StatusOf(F)', NEW y \in TargetOf(F)', y.epoch[1] = timSession,
         statusQ' = [statusQ EXCEPT ![timSession] = Tim!KeepLast(Append(@, x))],
         targetQ' = [targetQ EXCEPT ![timSession] = Tim!KeepLast(Append(@, y))],
         lastStatus' = x
  PROVE  Messages(F)' /\ Lengths'
<1> DEFINE S == StatusOf(E)
           T == StatusOf(F)'
           SY == TargetOf(E)
           TY == TargetOf(F)'
<1>1. S \subseteq T /\ SY \subseteq TY
  BY MessagesStay
<1>2. /\ statusQ \in Queues(S) /\ targetQ \in Queues(SY)
      /\ status = Ctl!NoStatus \/ status \in S
      /\ target = Ctl!NoTarget \/ [msg |-> target, epoch |-> heldEpoch] \in SY
  BY DEF Messages
<1>3. UNCHANGED <<status, target, heldEpoch>> /\ timSession \in Sessions
  BY DEF Forward, TimMoves, ctlVars, TimOK
<1>4. \A s \in Sessions : Len(statusQ[s]) <= QueueDepth /\ Len(targetQ[s]) <= QueueDepth
  BY DEF Lengths
<1>5. x \in T /\ y \in TY
  OBVIOUS
<1>a. /\ statusQ' = Published(statusQ, timSession, x)
      /\ targetQ' = Published(targetQ, timSession, y)
  BY DEF Published, Added
<1> HIDE DEF S, T, SY, TY
<1>6. /\ statusQ' \in Queues(T)
      /\ \A s \in Sessions : Len(statusQ'[s]) <= QueueDepth
  <2>1. timSession \in Sessions /\ statusQ \in Queues(T)
    BY <1>1, <1>2, <1>3, QueuesGrow
  <2>2. \A s \in Sessions : Len(statusQ[s]) <= QueueDepth
    BY <1>4
  <2> QED
    BY ONLY <2>1, <2>2, <1>5, <1>a, QueueTakes
<1>7. /\ targetQ' \in Queues(TY)
      /\ \A s \in Sessions : Len(targetQ'[s]) <= QueueDepth
      /\ targetQ'[timSession] = Added(targetQ[timSession], y)
      /\ \A s \in Sessions : s # timSession => targetQ'[s] = targetQ[s]
  <2>1. timSession \in Sessions /\ targetQ \in Queues(TY)
    BY <1>1, <1>2, <1>3, QueuesGrow
  <2>2. \A s \in Sessions : Len(targetQ[s]) <= QueueDepth
    BY <1>4
  <2> QED
    BY ONLY <2>1, <2>2, <1>5, <1>a, QueueTakes
<1>8. Messages(F)'
  BY <1>1, <1>2, <1>3, <1>5, <1>6, <1>7 DEF Messages, T, TY
<1>9. \A s \in Sessions : \A i \in 1 .. Len(targetQ'[s]) : targetQ'[s][i].epoch[1] = s
  <2> SUFFICES ASSUME NEW s \in Sessions, NEW i \in 1 .. Len(targetQ'[s])
               PROVE  targetQ'[s][i].epoch[1] = s
    OBVIOUS
  <2>1. CASE s # timSession
    BY <1>7, <2>1 DEF Lengths
  <2>2. CASE s = timSession
    <3> DEFINE q == targetQ[timSession]
               k == targetQ'[timSession]
    <3>1. q \in Seq(SY) /\ SY \subseteq TY /\ y \in TY
      BY <1>1, <1>2, <1>3, <1>5 DEF Queues
    <3>a. \A j \in 1 .. Len(q) : q[j].epoch[1] = timSession
      BY <1>3 DEF Lengths
    <3>2. k = Added(q, y)
      BY <1>7
    <3> HIDE DEF q, k
    <3>3. /\ k \in Seq(TY) /\ EndsWith(k, y)
          /\ Extends(k, q, 0) \/ Extends(k, q, 1)
      BY ONLY <3>1, <3>2, KeptLastIn
    <3>4. i \in 1 .. Len(k)
      BY <2>2 DEF k
    <3>5. k[i].epoch[1] = timSession
      <4>1. CASE i = Len(k)
        BY <3>3, <4>1 DEF EndsWith
      <4>2. CASE i # Len(k)
        <5>1. i \in 1 .. Len(k) - 1
          BY <3>3, <3>4, <4>2
        <5>2. PICK d \in {0, 1} : i + d \in 1 .. Len(q) /\ k[i] = q[i + d]
          BY <3>3, <5>1 DEF Extends
        <5> QED
          BY <3>a, <5>2
      <4> QED
        BY <4>1, <4>2
    <3> QED
      BY <2>2, <3>5 DEF k
  <2> QED
    BY <2>1, <2>2
<1> QED
  BY <1>6, <1>7, <1>8, <1>9 DEF Lengths

-----------------------------------------------------------------------------
(* Every step keeps the invariant: TIM-MARS moves.                         *)

\* A select marks the epoch it begins.
LEMMA ChosenBy ==
  ASSUME EpochsOK, chosen' = [chosen EXCEPT ![Issued'] = TRUE], Issued' \in Epochs
  PROVE  /\ chosen' \in [Epochs -> BOOLEAN] /\ chosen'[Issued']
         /\ \A e \in Epochs : chosen[e] => chosen'[e]
  BY DEF EpochsOK

\* A select, a clear or a mirrored selection.
LEMMA CommandKeeps ==
  ASSUME NEW E \in [Nat -> Epochs], Consistent(E), TimMoves, UNCHANGED <<now, tracked>>,
         NEW p \in Ids, selection < MaxGeneration, Tim!NewGeneration(p), mirrored' \in Ids,
         \/ p = Null /\ chosen' = chosen
         \/ chosen' = [chosen EXCEPT ![Issued'] = TRUE]
  PROVE  Consistent(E)'
<1> USE DEF Consistent
<1>a. PICK x : x = Tim!Status(selection', Tim!Null, Tim!NoMemory, FALSE)
  OBVIOUS
<1>b. PICK y : y = [msg |-> Tim!Target(0, 0), epoch |-> <<timSession, selection'>>]
  OBVIOUS
<1>1. /\ selection' = selection + 1 /\ pending' = p /\ memory' = Tim!NoMemory
      /\ lastStatus' = x /\ UNCHANGED <<timSession, now, tracked>>
      /\ statusQ' = [statusQ EXCEPT ![timSession] = Tim!KeepLast(Append(@, x))]
      /\ targetQ' = [targetQ EXCEPT ![timSession] = Tim!KeepLast(Append(@, y))]
  BY <1>a, <1>b DEF Tim!NewGeneration, Tim!SendStatus, Tim!SendTarget
<1>2. /\ selection \in Nat /\ MaxGeneration \in Nat /\ selection' \in 0 .. MaxGeneration
      /\ timSession \in Sessions /\ timSession \in Int
      /\ now \in Nat /\ tracked \in Nat /\ tracked <= now
  BY <1>1, LinkAssumption DEF TimOK
<1>3. Before(Issued, Issued') /\ Issued' = <<timSession, selection'>> /\ Issued' \in Epochs
  BY <1>1, <1>2 DEF Before, Issued, Epochs
<1>c. /\ chosen' \in [Epochs -> BOOLEAN] /\ \A e \in Epochs : chosen[e] => chosen'[e]
      /\ p # Null => chosen'[Issued']
  BY <1>3, ChosenBy DEF EpochsOK
<1>4. Forward
  BY <1>1, <1>2, <1>3, <1>c DEF Forward
<1>5. /\ left' \in [Epochs -> Nat \cup {Null}] /\ Begun(Issued)'
      /\ \A e \in Epochs : left'[e] # Null => Before(e, Issued') /\ left'[e] <= now
  BY <1>4, LeftGoesForward
<1>6. x = [session |-> timSession, generation |-> selection', frame |-> Null, stamp |-> Null,
           track |-> Null, state |-> "NO_TARGET", control |-> "HOLD", fresh |-> FALSE]
  BY <1>a DEF Tim!Status, Tim!NoMemory, Tim!ControlMode, Tim!Null, Null
<1>7. y = [msg |-> [id |-> 0, frame |-> 0, stamp |-> 0, usable |-> FALSE,
                    ambiguous |-> FALSE, ex |-> 0, rangeErr |-> 0],
           epoch |-> <<timSession, selection'>>]
  BY <1>b DEF Tim!Target
<1>8. x \in StatusOf(E)'
  <2>1. x \in StatusMsg /\ x.frame = Null /\ x.session = timSession /\ x.generation = selection'
    BY <1>2, <1>6 DEF StatusMsg, Ids
  <2>2. x.frame <= tracked' /\ ~(x.frame > 0)
    BY <1>1, <1>2, <2>1 DEF Null
  <2>3. Begun(<<x.session, x.generation>>)'
    BY <1>3, <1>5, <2>1
  <2> QED
    BY <2>1, <2>2, <2>3 DEF StatusOf
<1>9. y \in TargetOf(E)' /\ y.epoch[1] = timSession
  <2>1. /\ y \in TargetMsg /\ y.epoch = Issued' /\ y.epoch[1] = timSession
        /\ y.msg.id = 0 /\ y.msg.frame = 0 /\ y.msg.stamp = 0
    BY <1>3, <1>7 DEF TargetMsg
  <2>2. left'[y.epoch] # Null => y.msg.stamp <= left'[y.epoch]
    BY <1>3, <1>5, <2>1
  <2> QED
    BY <1>1, <1>2, <1>5, <2>1, <2>2 DEF TargetOf
<1>10. Messages(E)' /\ Lengths'
  BY <1>1, <1>4, <1>8, <1>9, MessagesPublished
<1>11. x.session = timSession /\ x.generation = selection'
  BY <1>6
<1>12. OrderOK'
  <2>1. statusQ \in Queues(StatusOf(E)) /\ UNCHANGED <<timSession, session, generation, retired>>
    BY <1>1 DEF Messages, TimMoves, ctlVars
  <2>2. selection' \in Nat /\ selection <= selection'
    BY <1>1, <1>2
  <2> QED
    BY <1>1, <1>11, <2>1, <2>2, OrderPublishes
<1>13. TimOK'
  BY <1>1, <1>2, <1>11 DEF TimOK, Tim!NoMemory, Tim!Null, Null, Ids
<1>14. EpochsOK'
  <2>1. pending' # Null \/ memory'.state # "NO_TARGET" => chosen'[Issued']
    BY <1>1, <1>c DEF Tim!NoMemory
  <2>2. now' = now
    BY <1>1
  <2> QED
    BY <1>5, <1>c, <2>1, <2>2 DEF EpochsOK
<1>15. ControllerOK'
  BY <1>4, ControllerStays
<1> QED
  BY <1>10, <1>12, <1>13, <1>14, <1>15

\* The last status is published again.
LEMMA RepeatKeeps ==
  ASSUME NEW E \in [Nat -> Epochs], Consistent(E), Repeat
  PROVE  Consistent(E)'
<1> USE DEF Consistent
<1>1. /\ lastStatus # Tim!NoStatus /\ TimMoves
      /\ statusQ' = [statusQ EXCEPT ![timSession] = Tim!KeepLast(Append(@, lastStatus))]
      /\ UNCHANGED <<now, timSession, selection, pending, mirrored, memory, targetQ,
                     tracked, chosen, lastStatus>>
  BY DEF Repeat, Tim!Reconcile, Tim!SendStatus
<1>2. Forward
  <2>1. Issued' = Issued
    BY <1>1 DEF Issued
  <2> QED
    BY <1>1, <2>1 DEF Forward, TimOK, EpochsOK
<1>3. /\ lastStatus \in StatusOf(E) /\ lastStatus.session = timSession
      /\ lastStatus.generation = selection
  BY <1>1 DEF Messages, TimOK
<1>4. TimOK'
  BY <1>1 DEF TimOK
<1>5. /\ Issued' = Issued /\ left' = left
  BY <1>1 DEF Issued, TimMoves
<1>6. EpochsOK'
  BY <1>1, <1>5 DEF EpochsOK
<1>7. ControllerOK'
  BY <1>2, ControllerStays
<1>8. OrderOK'
  <2>1. statusQ \in Queues(StatusOf(E)) /\ UNCHANGED <<timSession, session, generation, retired>>
    BY <1>1 DEF Messages, TimMoves, ctlVars
  <2>2. selection' \in Nat /\ selection' = selection /\ selection <= selection'
    BY <1>1, LinkAssumption DEF TimOK
  <2> QED
    BY <1>1, <1>3, <2>1, <2>2, OrderPublishes
<1>9. StatusOf(E) \subseteq StatusOf(E)' /\ TargetOf(E) \subseteq TargetOf(E)'
  BY <1>2, MessagesStay
<1>10. /\ statusQ' \in Queues(StatusOf(E))
       /\ \A s \in Sessions : Len(statusQ'[s]) <= QueueDepth
  <2>1. statusQ' = Published(statusQ, timSession, lastStatus)
    BY <1>1 DEF Published, Added
  <2>2. statusQ \in Queues(StatusOf(E)) /\ timSession \in Sessions /\ lastStatus \in StatusOf(E)
    BY <1>3 DEF Messages, TimOK
  <2>3. \A s \in Sessions : Len(statusQ[s]) <= QueueDepth
    BY DEF Lengths
  <2> QED
    BY ONLY <2>1, <2>2, <2>3, QueueTakes
<1>11. statusQ' \in Queues(StatusOf(E)') /\ targetQ' \in Queues(TargetOf(E)')
  <2>1. targetQ' \in Queues(TargetOf(E))
    BY <1>1 DEF Messages
  <2> QED
    BY ONLY <1>9, <1>10, <2>1, QueuesGrow
<1>12. UNCHANGED <<status, target, heldEpoch>>
  BY <1>1 DEF TimMoves, ctlVars
<1>13. Messages(E)'
  BY <1>1, <1>3, <1>9, <1>11, <1>12 DEF Messages
<1>14. Lengths'
  BY <1>1, <1>10 DEF Lengths
<1> QED
  BY <1>4, <1>6, <1>7, <1>8, <1>13, <1>14

\* The process dies and its successor starts.
LEMMA RestartKeeps ==
  ASSUME NEW E \in [Nat -> Epochs], Consistent(E), Restart
  PROVE  Consistent(E)'
<1> USE DEF Consistent
<1>1. /\ TimMoves /\ timSession + 1 \in Sessions /\ timSession' = timSession + 1
      /\ selection' = 0 /\ pending' = Null /\ mirrored' = Null
      /\ memory' = Tim!NoMemory /\ lastStatus' = Tim!NoStatus
      /\ UNCHANGED <<now, statusQ, targetQ, tracked, chosen>>
  BY DEF Restart, Tim!Restart, Tim!Null, Null
<1>2. /\ timSession \in Sessions /\ timSession \in Int /\ selection \in Int
      /\ MaxGeneration \in Nat
  BY LinkAssumption DEF TimOK
<1>3. Before(Issued, Issued')
  BY <1>1, <1>2 DEF Before, Issued
<1>4. Forward
  BY <1>1, <1>2, <1>3 DEF Forward, TimOK, EpochsOK
<1>5. /\ left' \in [Epochs -> Nat \cup {Null}]
      /\ \A e \in Epochs : left'[e] # Null => Before(e, Issued') /\ left'[e] <= now
  BY <1>4, LeftGoesForward
<1>6. TimOK'
  BY <1>1, <1>2 DEF TimOK, Tim!NoMemory, Tim!Null, Null, Ids
<1>7. EpochsOK'
  BY <1>1, <1>5 DEF EpochsOK, Tim!NoMemory
<1>8. ControllerOK'
  BY <1>4, ControllerStays
<1>9. UNCHANGED <<session, generation, retired, status, target, heldEpoch>>
  BY <1>1 DEF TimMoves, ctlVars
<1>10. OrderOK'
  <2>1. ASSUME NEW r \in Sessions, r > timSession'
        PROVE  r > timSession
    <3>1. r \in Int
      BY LinkAssumption
    <3> QED
      BY <1>1, <1>2, <2>1, <3>1
  <2> QED
    BY <1>1, <1>9, <2>1 DEF OrderOK
<1>11. StatusOf(E) \subseteq StatusOf(E)' /\ TargetOf(E) \subseteq TargetOf(E)'
  BY <1>4, MessagesStay
<1>12. statusQ' \in Queues(StatusOf(E)') /\ targetQ' \in Queues(TargetOf(E)')
  <2>1. statusQ' \in Queues(StatusOf(E)) /\ targetQ' \in Queues(TargetOf(E))
    BY <1>1 DEF Messages
  <2> QED
    BY ONLY <1>11, <2>1, QueuesGrow
<1>13. Messages(E)'
  BY <1>1, <1>9, <1>11, <1>12 DEF Messages
<1>14. Lengths'
  BY <1>1 DEF Lengths
<1> QED
  BY <1>6, <1>7, <1>8, <1>10, <1>13, <1>14

\* What one tracker message does to the memory, and what is published for it.
LEMMA ProcessResult ==
  ASSUME TimOK, NEW ids \in SUBSET TrackIds, NEW result \in Tim!Process(ids)
  PROVE  /\ result[1] \in [state : {"NO_TARGET", "LOCKED", "UNCERTAIN", "LOST"}, track : Ids]
         /\ result[2] \in [state : {"NO_TARGET", "LOCKED", "UNCERTAIN", "LOST", "REACQUIRED"},
                          track : Ids]
         /\ result[1].state = "LOCKED" => result[1].track \in TrackIds
         /\ result[2].state = "LOCKED" => result[2].track \in TrackIds
         /\ result[1].state # "NO_TARGET" \/ result[2].state = "LOCKED" =>
              pending # Null \/ memory.state # "NO_TARGET"
<1> DEFINE States == {"NO_TARGET", "LOCKED", "UNCERTAIN", "LOST"}
<1>1. /\ memory \in [state : States, track : Ids] /\ pending \in Ids
      /\ memory.state = "LOCKED" => memory.track \in TrackIds
  BY DEF TimOK
<1>2. Null \notin TrackIds
  BY LinkAssumption DEF Null
<1>3. CASE pending \in ids
  <2>1. PICK m : m = [state |-> "LOCKED", track |-> pending] /\ result = <<m, m>>
    BY <1>3 DEF Tim!Process
  <2> QED
    BY <1>2, <1>3, <2>1 DEF Ids
<1>4. CASE pending \notin ids /\ pending # Null
  <2>1. result = <<memory, memory>>
    BY <1>4 DEF Tim!Process, Tim!Null, Null
  <2> QED
    BY <1>1, <1>4, <2>1
<1>5. CASE pending \notin ids /\ pending = Null
  <2>1. result \in Tim!Outcomes(memory, ids)
    BY <1>5 DEF Tim!Process, Tim!Null, Null
  <2>2. CASE memory.state = "NO_TARGET"
    <3>1. result = <<memory, memory>>
      BY <2>1, <2>2 DEF Tim!Outcomes
    <3> QED
      BY <1>1, <2>2, <3>1
  <2>3. CASE memory.state # "NO_TARGET"
    <3>1. \/ \E m \in [state : {"LOCKED"}, track : ids] : result = <<m, m>>
          \/ \E u \in {"UNCERTAIN", "LOST"} :
               result = <<[memory EXCEPT !.state = u], [memory EXCEPT !.state = u]>>
          \/ result = <<memory, [memory EXCEPT !.state = "REACQUIRED"]>>
      BY <2>1, <2>3 DEF Tim!Outcomes
    <3>2. CASE \E m \in [state : {"LOCKED"}, track : ids] : result = <<m, m>>
      BY <2>3, <3>2 DEF Ids
    <3>3. CASE \E u \in {"UNCERTAIN", "LOST"} :
                 result = <<[memory EXCEPT !.state = u], [memory EXCEPT !.state = u]>>
      BY <1>1, <2>3, <3>3
    <3>4. CASE result = <<memory, [memory EXCEPT !.state = "REACQUIRED"]>>
      BY <1>1, <2>3, <3>4
    <3> QED
      BY <3>1, <3>2, <3>3, <3>4
  <2> QED
    BY <2>2, <2>3
<1> QED
  BY <1>3, <1>4, <1>5

\* One frame: E is extended by the epoch TIM-MARS is in.
LEMMA TracksKeeps ==
  ASSUME NEW E \in [Nat -> Epochs], Consistent(E), Tracks
  PROVE  \E F \in [Nat -> Epochs] : Consistent(F)'
<1> USE DEF Consistent
<1>1. PICK f \in tracked + 1 .. Ctl!Lesser(now, LastFrame), ids \in Views :
        Tim!OnTracks(f, ids) /\ tracked' = f /\ TimMoves /\ chosen' = chosen
  BY DEF Tracks
<1>2. PICK result \in Tim!Process(ids) :
        /\ memory' = result[1]
        /\ pending' = IF pending \in ids THEN Tim!Null ELSE pending
        /\ Tim!SendTarget(Tim!Target(f, IF result[2].state = "LOCKED" THEN result[2].track ELSE 0),
                          selection)
        /\ Tim!SendStatus(Tim!Status(selection, f, result[2], Tim!FreshSource(f)))
        /\ UNCHANGED <<now, timSession, selection, mirrored>>
  BY <1>1 DEF Tim!OnTracks
<1> DEFINE out == result[2]
<1>3. PICK x : x = Tim!Status(selection, f, out, Tim!FreshSource(f))
  OBVIOUS
<1>4. PICK y : y = [msg |-> Tim!Target(f, IF out.state = "LOCKED" THEN out.track ELSE 0),
                    epoch |-> <<timSession, selection>>]
  OBVIOUS
<1>5. /\ lastStatus' = x
      /\ statusQ' = [statusQ EXCEPT ![timSession] = Tim!KeepLast(Append(@, x))]
      /\ targetQ' = [targetQ EXCEPT ![timSession] = Tim!KeepLast(Append(@, y))]
  BY <1>2, <1>3, <1>4 DEF Tim!SendStatus, Tim!SendTarget
<1>6. /\ timSession \in Sessions /\ selection \in 0 .. MaxGeneration
      /\ tracked \in Nat /\ now \in Nat
  BY DEF TimOK
<1>7. f \in Nat /\ f > tracked /\ f <= now /\ f > 0
  <2>1. Ctl!Lesser(now, LastFrame) \in Int /\ Ctl!Lesser(now, LastFrame) <= now
    BY <1>6, LinkAssumption DEF Ctl!Lesser
  <2> QED
    BY <1>6, <2>1
<1>8. /\ out \in [state : {"NO_TARGET", "LOCKED", "UNCERTAIN", "LOST", "REACQUIRED"}, track : Ids]
      /\ result[1] \in [state : {"NO_TARGET", "LOCKED", "UNCERTAIN", "LOST"}, track : Ids]
      /\ result[1].state = "LOCKED" => result[1].track \in TrackIds
      /\ out.state = "LOCKED" => out.track \in TrackIds
      /\ result[1].state # "NO_TARGET" \/ out.state = "LOCKED" => chosen[Issued]
  <2>1. ids \in SUBSET TrackIds
    BY LinkAssumption
  <2> QED
    BY <2>1, ProcessResult DEF EpochsOK
<1> HIDE DEF out
<1>9. Issued' = Issued /\ Issued = <<timSession, selection>> /\ Issued \in Epochs
  BY <1>2, <1>6 DEF Issued, Epochs
<1>10. Forward
  BY <1>1, <1>2, <1>6, <1>7, <1>9 DEF Forward, EpochsOK
<1>11. PICK F \in [Nat -> Epochs] :
          F[f] = Issued /\ \A n \in Nat : n > 0 /\ n <= tracked => F[n] = E[n]
  <2> DEFINE G == [E EXCEPT ![f] = Issued]
  <2>1. G \in [Nat -> Epochs] /\ G[f] = Issued
    BY <1>7, <1>9
  <2>2. \A n \in Nat : n # f => G[n] = E[n]
    OBVIOUS
  <2>3. \A n \in Nat : n <= tracked => n # f
    BY <1>6, <1>7
  <2> HIDE DEF G
  <2> QED
    BY <2>1, <2>2, <2>3
<1>12. /\ left' = left /\ Begun(Issued)'
       /\ \A e \in Epochs : left'[e] # Null => Before(e, Issued') /\ left'[e] <= now
  BY <1>1, <1>9, <1>10, LeftGoesForward DEF TimMoves
<1>13. left'[Issued] = Null
  <2>1. ~Before(Issued, Issued)
    BY <1>9, EpochParts DEF Before
  <2> QED
    BY <1>9, <1>12, <2>1
<1>14. x \in StatusOf(F)' /\ x.session = timSession /\ x.generation = selection
  <2>1. Tim!FreshSource(f) \in BOOLEAN /\ Tim!ControlMode(out.state) \in {"NORMAL", "HOLD"}
    BY DEF Tim!FreshSource, Tim!ControlMode
  <2>2. x = [session |-> timSession, generation |-> selection, frame |-> f, stamp |-> f,
             track |-> out.track, state |-> out.state, control |-> Tim!ControlMode(out.state),
             fresh |-> Tim!FreshSource(f)]
    BY <1>3 DEF Tim!Status
  <2>3. /\ x \in StatusMsg /\ x.frame = f
        /\ x.session = timSession /\ x.generation = selection
    BY <1>6, <1>7, <1>8, <2>1, <2>2 DEF StatusMsg
  <2>4. x.frame <= tracked' /\ <<x.session, x.generation>> = F[x.frame]
    BY <1>1, <1>7, <1>9, <1>11, <2>3
  <2>5. Begun(<<x.session, x.generation>>)'
    BY <1>9, <1>12, <2>3
  <2> QED
    BY <2>3, <2>4, <2>5 DEF StatusOf
<1>15. y \in TargetOf(F)' /\ y.epoch[1] = timSession
  <2>1. PICK id \in TrackIds \cup {0} :
          /\ id = IF out.state = "LOCKED" THEN out.track ELSE 0
          /\ id # 0 => chosen[Issued]
    BY <1>8
  <2>2. y = [msg |-> [id |-> id, frame |-> f, stamp |-> f, usable |-> id # 0,
                      ambiguous |-> FALSE, ex |-> id, rangeErr |-> id],
             epoch |-> Issued]
    BY <1>4, <1>9, <2>1 DEF Tim!Target
  <2>3. (id # 0) \in BOOLEAN
    OBVIOUS
  <2>4. /\ y \in TargetMsg /\ y.epoch = Issued /\ y.epoch[1] = timSession
        /\ y.msg.id = id /\ y.msg.frame = f /\ y.msg.stamp = f
    BY <1>7, <1>9, <2>2, <2>3 DEF TargetMsg
  <2>5. y.msg.frame <= tracked' /\ y.epoch = F[y.msg.frame] /\ Begun(y.epoch)'
    BY <1>1, <1>7, <1>9, <1>11, <1>12, <2>4
  <2>6. (y.msg.id # 0 => chosen'[y.epoch]) /\ left'[y.epoch] = Null
    BY <1>1, <1>13, <2>1, <2>4
  <2> QED
    BY <2>4, <2>5, <2>6 DEF TargetOf
<1>16. Messages(F)' /\ Lengths'
  BY <1>5, <1>10, <1>11, <1>14, <1>15, MessagesPublished
<1>17. OrderOK'
  <2>1. statusQ \in Queues(StatusOf(E)) /\ UNCHANGED <<timSession, session, generation, retired>>
    BY <1>1, <1>2 DEF Messages, TimMoves, ctlVars
  <2>2. selection' \in Nat /\ selection' = selection /\ selection <= selection'
    BY <1>2, <1>6, LinkAssumption
  <2> QED
    BY <1>5, <1>14, <2>1, <2>2, OrderPublishes
<1>18. TimOK'
  <2>1. pending' \in Ids /\ mirrored' \in Ids
    BY <1>2 DEF TimOK, Ids, Tim!Null, Null
  <2> QED
    BY <1>1, <1>2, <1>5, <1>6, <1>7, <1>8, <1>14, <2>1 DEF TimOK
<1>19. EpochsOK'
  <2>1. pending' # Null => pending # Null
    BY <1>2 DEF Tim!Null, Null
  <2>2. pending' # Null \/ memory'.state # "NO_TARGET" => chosen'[Issued']
    BY <1>1, <1>2, <1>8, <1>9, <2>1 DEF EpochsOK
  <2>3. now' = now /\ chosen' = chosen
    BY <1>1, <1>2
  <2> QED
    BY <1>12, <2>2, <2>3 DEF EpochsOK
<1>20. ControllerOK'
  BY <1>10, ControllerStays
<1> QED
  BY <1>11, <1>16, <1>17, <1>18, <1>19, <1>20

-----------------------------------------------------------------------------
(* Every step keeps the invariant: the controller moves.                   *)

\* While TIM-MARS does not move, messages stay what they were.
LEMMA MessagesAsBefore ==
  ASSUME NEW E, UNCHANGED <<timSession, selection, tracked, left, chosen>>
  PROVE  StatusOf(E)' = StatusOf(E) /\ TargetOf(E)' = TargetOf(E)
<1>1. \A e : Begun(e)' <=> Begun(e)
  BY DEF Begun, Issued
<1>2. StatusOf(E)' = StatusOf(E)
  BY <1>1 DEF StatusOf
<1>3. TargetOf(E)' = TargetOf(E)
  BY <1>1 DEF TargetOf
<1> QED
  BY <1>2, <1>3

\* The target held comes from the frame of the status, so from its epoch.
LEMMA FollowsTheEpoch ==
  ASSUME NEW E \in [Nat -> Epochs], Consistent(E), target # Ctl!NoTarget, Ctl!MayFollow
  PROVE  /\ session # Null /\ heldEpoch = Known /\ chosen[Known]
         /\ left[Known] # Null => now - left[Known] <= StaleTimeout
<1> USE DEF Consistent
<1>1. /\ status # Ctl!NoStatus /\ target.frame > 0 /\ target.frame = status.frame
      /\ target.id # 0 /\ now - target.stamp <= StaleTimeout
  BY DEF Ctl!MayFollow, Ctl!StatusFresh, Ctl!CausalPair, Ctl!TargetValid, Ctl!Fresh
<1>2. /\ status \in StatusOf(E) /\ session = status.session /\ generation = status.generation
      /\ [msg |-> target, epoch |-> heldEpoch] \in TargetOf(E)
  BY <1>1 DEF Messages, ControllerOK
<1>3. /\ heldEpoch = E[target.frame] /\ heldEpoch \in Epochs
      /\ chosen[heldEpoch] /\ target.stamp \in Nat
      /\ left[heldEpoch] # Null => target.stamp <= left[heldEpoch]
  BY <1>1, <1>2 DEF TargetOf, TargetMsg
<1>4. E[status.frame] = Known /\ session \in Sessions
  BY <1>1, <1>2 DEF StatusOf, StatusMsg, Known
<1>5. session # Null
  BY <1>4, LinkAssumption DEF Null
<1>6. left[heldEpoch] \in Nat \cup {Null} /\ now \in Nat /\ StaleTimeout \in Nat
  BY <1>3, LinkAssumption DEF EpochsOK, TimOK
<1> QED
  BY <1>1, <1>3, <1>4, <1>5, <1>6

\* A target message: those before it are lost.
LEMMA DeliverTargetKeeps ==
  ASSUME NEW E \in [Nat -> Epochs], Consistent(E), DeliverTarget
  PROVE  Consistent(E)'
<1> USE DEF Consistent
<1>0. PICK s \in Sessions : \E i \in 1 .. Len(targetQ[s]) :
        /\ Ctl!OnTarget(targetQ[s][i].msg)
        /\ targetQ' = [targetQ EXCEPT ![s] = SubSeq(@, i + 1, Len(@))]
        /\ heldEpoch' = targetQ[s][i].epoch
        /\ UNCHANGED <<timSession, selection, pending, mirrored, memory, lastSource,
                       lastStatus, statusQ, tracked, left, chosen>>
  BY DEF DeliverTarget
<1>1. PICK i \in 1 .. Len(targetQ[s]) :
        /\ Ctl!OnTarget(targetQ[s][i].msg)
        /\ targetQ' = [targetQ EXCEPT ![s] = SubSeq(@, i + 1, Len(@))]
        /\ heldEpoch' = targetQ[s][i].epoch
        /\ UNCHANGED <<timSession, selection, pending, mirrored, memory, lastSource,
                       lastStatus, statusQ, tracked, left, chosen>>
  BY <1>0
<1>2. /\ target' = targetQ[s][i].msg
      /\ UNCHANGED <<now, lastTimer, status, session, generation, retired, cmd>>
  BY <1>1 DEF Ctl!OnTarget, Ctl!timeVars, Ctl!statusVars, Ctl!epochVars
<1> DEFINE S == TargetOf(E)
           q == targetQ[s]
           k == SubSeq(q, i + 1, Len(q))
<1>3. targetQ \in [Sessions -> Seq(S)] /\ q \in Seq(S) /\ q[i] \in S
  BY <1>1 DEF Messages, Queues
<1>4. k \in Seq(S) /\ Len(k) \in Nat /\ Len(k) = Len(q) - i /\ Later(k, q, i)
  <2>1. i \in 1 .. Len(q) /\ q \in Seq(S) /\ k = SubSeq(q, i + 1, Len(q))
    BY <1>3
  <2> HIDE DEF q, S, k
  <2> QED
    BY ONLY <2>1, LaterPart
<1>5. StatusOf(E)' = StatusOf(E) /\ TargetOf(E)' = TargetOf(E)
  BY <1>1, MessagesAsBefore
<1>6. targetQ' = [targetQ EXCEPT ![s] = k]
  BY <1>1
<1> HIDE DEF k
<1>7. targetQ'[s] = k /\ \A r \in Sessions : r # s => targetQ'[r] = targetQ[r]
  BY <1>3, <1>6
<1>8. targetQ' \in Queues(S)
  BY <1>3, <1>4, <1>6 DEF Queues
<1>9. [msg |-> target', epoch |-> heldEpoch'] \in S
  <2>1. [msg |-> q[i].msg, epoch |-> q[i].epoch] = q[i]
    BY <1>3 DEF TargetOf, TargetMsg
  <2> QED
    BY <1>1, <1>2, <1>3, <2>1
<1>10. Messages(E)'
  BY <1>1, <1>2, <1>5, <1>8, <1>9 DEF Messages
<1>11. Lengths'
  <2>1. Len(q) <= QueueDepth /\ \A j \in 1 .. Len(q) : q[j].epoch[1] = s
    BY DEF Lengths
  <2>2. Len(k) <= QueueDepth /\ \A j \in 1 .. Len(k) : k[j].epoch[1] = s
    <3>1. Len(q) \in Nat /\ QueueDepth \in Nat /\ i \in Nat
      BY <1>3, LinkAssumption
    <3> HIDE DEF q
    <3> QED
      BY <1>4, <2>1, <3>1 DEF Later
  <2> HIDE DEF q
  <2> QED
    BY <1>1, <1>7, <2>2, SMTT(30) DEF Lengths
<1>12. TimOK' /\ EpochsOK' /\ OrderOK'
  BY <1>1, <1>2 DEF TimOK, EpochsOK, OrderOK, Issued, Known
<1>13. ControllerOK'
  BY <1>1, <1>2 DEF ControllerOK, Known, Begun, Issued
<1> QED
  BY <1>10, <1>11, <1>12, <1>13

\* The timer, and time.
LEMMA ControllerMovesKeeps ==
  ASSUME NEW E \in [Nat -> Epochs], Consistent(E), ControllerMoves
  PROVE  Consistent(E)'
<1> USE DEF Consistent
<1>1. /\ UNCHANGED <<timVars, tracked, heldEpoch, left, chosen>>
      /\ Ctl!OnTimer \/ Ctl!Advance
  BY DEF ControllerMoves
<1>2. UNCHANGED <<target, status, session, generation, retired>>
  BY <1>1 DEF Ctl!OnTimer, Ctl!Advance, Ctl!Timer, Ctl!TimerNoTarget, Ctl!TimerFollow,
     Ctl!TimerAmbiguityHold, Ctl!TimerHover, Ctl!TimerBeginRecovery, Ctl!TimerTurn,
     Ctl!TimerExhausted, Ctl!targetVars, Ctl!statusVars, Ctl!epochVars
<1>3. /\ now \in Nat /\ lastTimer \in Nat /\ TickMax \in Nat
      /\ lastTimer <= now /\ now - lastTimer <= TickMax
  BY LinkAssumption DEF TimOK, ControllerOK
<1>4. \/ now' = now /\ lastTimer' = now
      \/ now' = now + 1 /\ lastTimer' = lastTimer /\ now - lastTimer < TickMax
  BY <1>1 DEF Ctl!OnTimer, Ctl!Advance, Ctl!Timer, Ctl!TimerNoTarget, Ctl!TimerFollow,
     Ctl!TimerAmbiguityHold, Ctl!TimerHover, Ctl!TimerBeginRecovery, Ctl!TimerTurn,
     Ctl!TimerExhausted
<1>5. Messages(E)'
  BY <1>1, <1>2, MessagesAsBefore DEF Messages, timVars
<1>6. Lengths' /\ OrderOK'
  BY <1>1, <1>2 DEF Lengths, OrderOK, timVars, Known, Issued
<1>7. TimOK'
  BY <1>1, <1>3, <1>4 DEF TimOK, timVars
<1>8. EpochsOK'
  <2>1. Issued' = Issued /\ left' = left /\ chosen' = chosen /\ pending' = pending /\ memory' = memory
    BY <1>1 DEF Issued, timVars
  <2>2. \A e \in Epochs : left[e] # Null => Before(e, Issued) /\ left[e] <= now'
    BY <1>3, <1>4 DEF EpochsOK
  <2> QED
    BY <2>1, <2>2 DEF EpochsOK
<1>9. ControllerOK'
  <2>1. Known' = Known /\ (Begun(Known)' <=> Begun(Known)) /\ left' = left /\ chosen' = chosen
    BY <1>1, <1>2 DEF Known, Begun, Issued, timVars
  <2>2. lastTimer' \in Nat /\ lastTimer' <= now' /\ now' - lastTimer' <= TickMax
    BY <1>3, <1>4
  <2>3. ASSUME cmd'.mode = "NORMAL_FOLLOW"
        PROVE  /\ session # Null /\ chosen[Known]
               /\ left[Known] # Null => lastTimer' - left[Known] <= StaleTimeout
    <3>1. CASE Ctl!TimerFollow
      <4>1. target # Ctl!NoTarget /\ Ctl!MayFollow /\ lastTimer' = now
        BY <3>1 DEF Ctl!TimerFollow, Ctl!Timer
      <4> QED
        BY <4>1, FollowsTheEpoch
    <3>2. CASE Ctl!Advance
      <4>1. cmd' = cmd /\ lastTimer' = lastTimer
        BY <3>2 DEF Ctl!Advance
      <4> QED
        BY <2>3, <4>1 DEF ControllerOK
    <3>3. CASE Ctl!OnTimer /\ ~Ctl!TimerFollow
      BY <2>3, <3>3 DEF Ctl!OnTimer, Ctl!TimerNoTarget, Ctl!TimerAmbiguityHold, Ctl!TimerHover,
         Ctl!TimerBeginRecovery, Ctl!TimerTurn, Ctl!TimerExhausted, Ctl!Zero
    <3> QED
      BY <1>1, <3>1, <3>2, <3>3
  <2> QED
    BY <1>2, <2>1, <2>2, <2>3 DEF ControllerOK
<1> QED
  BY <1>5, <1>6, <1>7, <1>8, <1>9

\* A status is never refused: it comes in the order of the epochs.
LEMMA StatusIsAccepted ==
  ASSUME NEW s \in Sessions, NEW m, m.session = s, OrderOK, statusQ[s] # <<>>,
         session = s => generation <= m.generation, m.generation \in Int,
         session = s => generation \in Int
  PROVE  Ctl!EpochAccepted(m) /\ (session # Null => session <= s)
<1>1. /\ s \in Int
      /\ session # Null => session \in Int /\ s >= session
  <2>1. \A r \in Sessions : r \in Int
    BY LinkAssumption
  <2>2. session # Null => session \in Sessions /\ ~(s < session)
    BY DEF OrderOK
  <2> QED
    BY <2>1, <2>2
<1>2. s \in retired => s < session /\ session # Null
  BY DEF OrderOK
<1>3. Ctl!EpochAccepted(m)
  <2>1. CASE session = Null
    BY <2>1 DEF Ctl!EpochAccepted, Ctl!NoSession, Ctl!Null, Null
  <2>2. CASE session = s
    BY <2>2 DEF Ctl!EpochAccepted
  <2>3. CASE session # Null /\ session # s
    <3>1. s \notin retired
      BY <1>1, <1>2
    <3> QED
      BY <2>3, <3>1 DEF Ctl!EpochAccepted
  <2> QED
    BY <2>1, <2>2, <2>3
<1> QED
  BY <1>1, <1>3

\* What waits behind the status taken, and what the controller knows then.
LEMMA OrderDelivers ==
  ASSUME TimOK, EpochsOK, ControllerOK, OrderOK, NEW E \in [Nat -> Epochs],
         statusQ \in Queues(StatusOf(E)), NEW s \in Sessions, statusQ[s] # <<>>,
         \A r \in Sessions : r < s => statusQ[r] = <<>>,
         NEW k, k = Tail(statusQ[s]), statusQ' = [statusQ EXCEPT ![s] = k],
         NEW m \in StatusOf(E), m = statusQ[s][1], m.session = s, m.generation \in Int,
         session # Null => session <= s, session' = s, generation' = m.generation,
         retired' = (IF session # Null /\ s # session THEN retired \cup {session} ELSE retired),
         UNCHANGED <<timSession, selection>>
  PROVE  OrderOK'
<1> DEFINE q == statusQ[s]
<1>1. /\ \A r \in Sessions : r \in Int /\ r # Null
      /\ timSession \in Sessions /\ selection \in Int
      /\ session # Null => session \in Sessions
  <2>1. \A r \in Sessions : r \in Int /\ r # Null
    BY LinkAssumption DEF Null
  <2>2. timSession \in Sessions /\ selection \in 0 .. MaxGeneration
    BY DEF TimOK
  <2>3. session # Null => session \in Sessions
    BY DEF OrderOK
  <2> QED
    BY <2>1, <2>2, <2>3
<1>2. s <= timSession
  BY <1>1 DEF OrderOK
<1>3. q \in Seq(StatusOf(E))
  BY DEF Queues
<1>4. Sorted(q) /\ \A i \in 1 .. Len(q) : q[i].session = s
  BY DEF OrderOK
<1>5. /\ 1 \in 1 .. Len(q) /\ Len(q) \in Nat /\ Len(k) \in Nat /\ Len(k) = Len(q) - 1
      /\ Later(k, q, 1) /\ (k = <<>> <=> Len(q) = 1)
  <2> DEFINE S == StatusOf(E)
  <2>1. q \in Seq(S) /\ q # <<>> /\ k = Tail(q)
    BY <1>3
  <2> HIDE DEF q, S
  <2>2. Len(q) \in Nat
    BY <2>1
  <2>3. k \in Seq(S) /\ Later(k, q, 1)
    BY ONLY <2>1, FirstAndRest
  <2>4. (k = <<>> <=> Len(q) = 1)
    BY ONLY <2>1, FirstAndRest
  <2>5. Len(k) = Len(q) - 1
    BY ONLY <2>1, FirstAndRest
  <2>6. 1 \in 1 .. Len(q)
    BY ONLY <2>1, <2>2
  <2>7. Len(k) \in Nat
    BY ONLY <2>3
  <2> QED
    BY ONLY <2>2, <2>3, <2>4, <2>5, <2>6, <2>7
<1>6. /\ statusQ'[s] = k
      /\ \A r \in Sessions : r # s => statusQ'[r] = statusQ[r]
  BY DEF Queues
<1>7. m = q[1]
  OBVIOUS
<1> HIDE DEF q
<1>8. Sorted(k)
  <2> SUFFICES ASSUME NEW i \in 1 .. Len(k), NEW j \in 1 .. Len(k), i < j
               PROVE  k[i].generation <= k[j].generation
    BY DEF Sorted
  <2>1. /\ i + 1 \in 1 .. Len(q) /\ j + 1 \in 1 .. Len(q) /\ i + 1 < j + 1
        /\ k[i] = q[i + 1] /\ k[j] = q[j + 1]
    BY <1>5 DEF Later
  <2> QED
    BY <1>4, <2>1 DEF Sorted
<1>9. \A i \in 1 .. Len(k) : k[i].session = s /\ m.generation <= k[i].generation
  <2> SUFFICES ASSUME NEW i \in 1 .. Len(k)
               PROVE  k[i].session = s /\ m.generation <= k[i].generation
    OBVIOUS
  <2>1. i + 1 \in 1 .. Len(q) /\ 1 < i + 1 /\ k[i] = q[i + 1]
    BY <1>5 DEF Later
  <2> QED
    BY <1>4, <1>5, <1>7, <2>1 DEF Sorted
<1>10. \A r \in Sessions :
         /\ Sorted(statusQ'[r])
         /\ \A i \in 1 .. Len(statusQ'[r]) : statusQ'[r][i].session = r
         /\ r > timSession => statusQ'[r] = <<>>
         /\ r < s => statusQ'[r] = <<>>
         /\ r = s => \A i \in 1 .. Len(statusQ'[r]) : m.generation <= statusQ'[r][i].generation
  <2> SUFFICES ASSUME NEW r \in Sessions
               PROVE  <1>10!(r)
    OBVIOUS
  <2>1. CASE r = s
    <3>1. statusQ'[r] = k
      BY <1>6, <2>1
    <3>2. ~(r > timSession) /\ ~(r < s)
      BY <1>1, <1>2, <2>1
    <3> QED
      BY ONLY <1>8, <1>9, <2>1, <3>1, <3>2
  <2>2. CASE r # s
    BY <1>6, <2>2 DEF OrderOK
  <2> QED
    BY <2>1, <2>2
<1>11. \A r \in retired' : r \in Sessions /\ r < s
  <2>1. ASSUME NEW r \in retired
        PROVE  r \in Sessions /\ r < s
    <3>1. r \in Sessions /\ session # Null /\ r < session
      BY DEF OrderOK
    <3> QED
      BY <1>1, <3>1
  <2>2. session # Null /\ s # session => session \in Sessions /\ session < s
    BY <1>1
  <2> QED
    BY <2>1, <2>2
<1>12. ASSUME selection > 0, <<s, m.generation>> # Issued
       PROVE  /\ statusQ'[timSession] # <<>>
              /\ statusQ'[timSession][Len(statusQ'[timSession])].generation = selection
  <2>1. CASE s # timSession
    <3>1. Known # Issued
      BY <1>1, <1>2, <2>1 DEF Known, Issued
    <3>2. statusQ'[timSession] = statusQ[timSession]
      BY <1>1, <1>6, <2>1
    <3> QED
      BY <1>12, <3>1, <3>2 DEF OrderOK
  <2>2. CASE s = timSession
    <3>1. m.generation <= selection /\ m.generation # selection
      <4>1. <<s, m.generation>> \in Epochs /\ Begun(<<s, m.generation>>)
        BY DEF StatusOf, StatusMsg, Epochs
      <4>2. m.generation <= selection
        BY <2>2, <4>1, BegunBounds
      <4> QED
        BY <1>12, <2>2, <4>2 DEF Issued
    <3>2. Known # Issued
      <4>1. session = s => generation <= q[1].generation
        BY <1>5 DEF OrderOK, q
      <4>2. Known = Issued => session = s /\ generation = selection
        BY <2>2 DEF Known, Issued
      <4> QED
        BY <1>1, <1>7, <3>1, <4>1, <4>2
    <3>3. q # <<>> /\ q[Len(q)].generation = selection
      BY <1>12, <2>2, <3>2 DEF OrderOK, q
    <3>4. Len(q) # 1
      BY <1>7, <3>1, <3>3
    <3>5. Len(k) \in 1 .. Len(k) /\ k # <<>>
      BY <1>5, <3>4
    <3>6. Len(k) + 1 = Len(q)
      BY <1>5
    <3>7. k[Len(k)] = q[Len(k) + 1]
      BY ONLY <1>5, <3>5 DEF Later
    <3> QED
      BY <1>6, <2>2, <3>3, <3>5, <3>6, <3>7
  <2> QED
    BY <2>1, <2>2
<1>13. Known' = <<s, m.generation>> /\ Issued' = Issued
  BY DEF Known, Issued
<1> QED
  BY <1>1, <1>10, <1>11, <1>12, <1>13 DEF OrderOK, Sorted

\* A status message.
LEMMA DeliverStatusKeeps ==
  ASSUME NEW E \in [Nat -> Epochs], Consistent(E), DeliverStatus
  PROVE  Consistent(E)'
<1> USE DEF Consistent
<1>1. PICK s \in Sessions :
        /\ statusQ[s] # <<>>
        /\ \A r \in Sessions : r < s => statusQ[r] = <<>>
        /\ \/ Ctl!OnStatusAccepted(Head(statusQ[s]))
           \/ Ctl!OnStatusRejected(Head(statusQ[s]))
        /\ statusQ' = [statusQ EXCEPT ![s] = Tail(@)]
        /\ heldEpoch' = Held
        /\ UNCHANGED <<timSession, selection, pending, mirrored, memory, lastSource,
                       lastStatus, targetQ, tracked, left, chosen>>
  BY DEF DeliverStatus
<1> DEFINE S == StatusOf(E)
           q == statusQ[s]
<1>2. PICK k : k = Tail(q)
  OBVIOUS
<1>3. PICK m : m = q[1]
  OBVIOUS
<1>4. statusQ \in Queues(S) /\ q \in Seq(S)
  BY DEF Messages, Queues
<1>5. /\ m \in S /\ Head(q) = m /\ k \in Seq(S) /\ Len(k) \in Nat /\ Len(k) = Len(q) - 1
      /\ 1 \in 1 .. Len(q) /\ Len(q) \in Nat
  <2>1. q \in Seq(S) /\ q # <<>> /\ k = Tail(q)
    BY <1>1, <1>2, <1>4
  <2> HIDE DEF q, S
  <2>2. q[1] \in S /\ Head(q) = q[1] /\ k \in Seq(S)
    BY ONLY <2>1, FirstAndRest
  <2>3. Len(k) = Len(q) - 1 /\ Len(q) \in Nat /\ 1 \in 1 .. Len(q)
    BY ONLY <2>1
  <2>4. Len(k) \in Nat
    BY ONLY <2>2
  <2> QED
    BY <1>3, <2>2, <2>3, <2>4
<1>6. /\ m.session = s
      /\ session = s => generation <= m.generation
  <2>1. \A i \in 1 .. Len(q) : q[i].session = s
    BY DEF OrderOK
  <2>2. session = s => \A i \in 1 .. Len(q) : generation <= q[i].generation
    BY DEF OrderOK
  <2> QED
    BY <1>3, <1>5, <2>1, <2>2
<1>7. m \in StatusMsg /\ <<m.session, m.generation>> \in Epochs /\ Begun(<<m.session, m.generation>>)
  BY <1>5 DEF StatusOf, StatusMsg, Epochs
<1>8. m.generation \in Int /\ (session = s => generation \in Int)
  <2>1. m.generation \in 0 .. MaxGeneration
    BY <1>7 DEF StatusMsg
  <2>2. session # Null => generation \in 0 .. MaxGeneration
    BY DEF ControllerOK, Known, Epochs
  <2>3. s # Null
    BY LinkAssumption DEF Null
  <2> QED
    BY <2>1, <2>2, <2>3
<1>9. Ctl!EpochAccepted(m) /\ (session # Null => session <= s)
  <2>1. m.session = s
    BY <1>6
  <2>2. session = s => generation <= m.generation
    BY <1>6
  <2>3. statusQ[s] # <<>>
    BY <1>1
  <2> QED
    BY <1>8, <2>1, <2>2, <2>3, StatusIsAccepted
<1>10. Ctl!OnStatusAccepted(m)
  BY <1>1, <1>5, <1>9 DEF Ctl!OnStatusRejected
<1>11. /\ status' = m /\ session' = s /\ generation' = m.generation
       /\ retired' = IF session # Null /\ s # session THEN retired \cup {session} ELSE retired
       /\ UNCHANGED <<now, lastTimer>>
       /\ \/ target' = Ctl!NoTarget /\ cmd'.mode = "HOVER"
          \/ /\ target' = target /\ cmd' = cmd
             /\ s = session /\ m.generation = generation
  BY <1>6, <1>10 DEF Ctl!OnStatusAccepted, Ctl!Revoke, Ctl!EpochReset, Ctl!Zero, Ctl!NoSession,
     Ctl!Null, Null, Ctl!timeVars, Ctl!targetVars
<1>12. statusQ' = [statusQ EXCEPT ![s] = k]
  BY <1>1, <1>2
<1> HIDE DEF q
<1>13. StatusOf(E)' = StatusOf(E) /\ TargetOf(E)' = TargetOf(E)
  BY <1>1, MessagesAsBefore
<1>14. statusQ' \in Queues(S) /\ statusQ'[s] = k /\ \A r \in Sessions : r # s => statusQ'[r] = statusQ[r]
  BY <1>4, <1>5, <1>12 DEF Queues
<1>15. Messages(E)'
  <2>1. target' = Ctl!NoTarget \/ [msg |-> target', epoch |-> heldEpoch'] \in TargetOf(E)
    BY <1>1, <1>11 DEF Messages, Held
  <2> QED
    BY <1>1, <1>5, <1>11, <1>13, <1>14, <2>1 DEF Messages
<1>16. Lengths'
  <2>1. Len(k) <= QueueDepth
    <3>1. Len(q) <= QueueDepth /\ QueueDepth \in Nat
      BY LinkAssumption DEF Lengths, q
    <3> QED
      BY <1>5, <3>1
  <2> QED
    BY <1>1, <1>14, <2>1 DEF Lengths
<1>17. OrderOK'
  <2>1. statusQ \in Queues(StatusOf(E)) /\ m \in StatusOf(E) /\ m = statusQ[s][1]
        /\ m.session = s /\ k = Tail(statusQ[s])
    BY <1>2, <1>3, <1>4, <1>5, <1>6 DEF q
  <2> HIDE DEF S
  <2> QED
    BY <1>1, <1>8, <1>9, <1>11, <1>12, <2>1, OrderDelivers
<1>18. TimOK' /\ EpochsOK'
  BY <1>1, <1>11 DEF TimOK, EpochsOK, Issued
<1>19. ControllerOK'
  <2>1. Known' = <<m.session, m.generation>> /\ Known' \in Epochs /\ Begun(Known)'
    BY <1>1, <1>6, <1>7, <1>11 DEF Known, Begun, Issued
  <2>2. ASSUME cmd'.mode = "NORMAL_FOLLOW"
        PROVE  /\ session' # Null /\ chosen'[Known']
               /\ left'[Known'] # Null => lastTimer' - left'[Known'] <= StaleTimeout
    <3>1. Known' = Known /\ session' = session /\ cmd' = cmd
      BY <1>11, <2>2 DEF Known
    <3> QED
      BY <1>1, <1>11, <2>2, <3>1 DEF ControllerOK
  <2>3. /\ lastTimer' \in Nat /\ lastTimer' <= now' /\ now' - lastTimer' <= TickMax
    BY <1>11 DEF ControllerOK
  <2> QED
    BY <1>6, <1>11, <2>1, <2>2, <2>3 DEF ControllerOK
<1> QED
  BY <1>15, <1>16, <1>17, <1>18, <1>19

-----------------------------------------------------------------------------
(* The invariant holds.                                                    *)

LEMMA StutterKeeps ==
  ASSUME NEW E \in [Nat -> Epochs], Consistent(E), UNCHANGED vars
  PROVE  Consistent(E)'
<1> USE DEF Consistent, vars, timVars, ctlVars
<1>1. Messages(E)'
  BY MessagesAsBefore DEF Messages
<1>2. TimOK' /\ EpochsOK' /\ Lengths'
  BY DEF TimOK, EpochsOK, Lengths, Issued
<1>3. OrderOK' /\ ControllerOK'
  BY DEF OrderOK, ControllerOK, Issued, Known, Begun
<1> QED
  BY <1>1, <1>2, <1>3

LEMMA InitConsistent ==
  ASSUME Init
  PROVE  IInv
<1> DEFINE E == [n \in Nat |-> <<1, 0>>]
<1>1. /\ 1 \in Sessions /\ {MaxGeneration, TickMax} \subseteq Nat
      /\ QueueDepth \in Nat
  BY LinkAssumption
<1>2. E \in [Nat -> Epochs]
  BY <1>1 DEF Epochs
<1>3. /\ now = 1 /\ lastTimer = 1 /\ target = Ctl!NoTarget /\ status = Ctl!NoStatus
      /\ session = Null /\ retired = {} /\ cmd.mode = "INIT"
      /\ timSession = 1 /\ selection = 0 /\ pending = Null /\ mirrored = Null
      /\ memory = Tim!NoMemory /\ lastStatus = Tim!NoStatus
      /\ statusQ = [s \in Sessions |-> <<>>] /\ targetQ = [s \in Sessions |-> <<>>]
      /\ tracked = 0 /\ left = [e \in Epochs |-> Null] /\ chosen = [e \in Epochs |-> FALSE]
  BY DEF Init, Ctl!Init, Tim!TimInit, Ctl!NoSession, Ctl!Null, Tim!Null, Null, Ctl!Zero
<1>4. TimOK
  BY <1>1, <1>3 DEF TimOK, Tim!NoMemory, Tim!Null, Null, Ids
<1>5. EpochsOK
  BY <1>3 DEF EpochsOK, Tim!NoMemory
<1>6. ControllerOK
  BY <1>1, <1>3 DEF ControllerOK
<1>7. OrderOK /\ Lengths
  BY <1>1, <1>3 DEF OrderOK, Sorted, Lengths
<1>8. Messages(E)
  BY <1>3 DEF Messages, Queues
<1> QED
  BY <1>2, <1>4, <1>5, <1>6, <1>7, <1>8 DEF IInv, Consistent

LEMMA NextConsistent ==
  ASSUME IInv, [Next]_vars
  PROVE  IInv'
<1>1. PICK E \in [Nat -> Epochs] : Consistent(E)
  BY DEF IInv
<1>2. ASSUME Consistent(E)'
      PROVE  IInv'
  BY <1>2 DEF IInv
<1>3. CASE Select
  <2>1. PICK id \in TrackIds : Tim!OnSelect(id)
    BY <1>3 DEF Select
  <2>2. /\ Tim!NewGeneration(id) /\ selection < MaxGeneration /\ TimMoves
        /\ UNCHANGED <<now, tracked, mirrored>>
        /\ chosen' = [chosen EXCEPT ![Issued'] = TRUE]
    BY <1>3, <2>1 DEF Select, Tim!OnSelect
  <2>3. mirrored' \in Ids /\ id \in Ids
    BY <1>1, <2>2 DEF Consistent, TimOK, Ids
  <2> QED
    BY <1>1, <1>2, <2>1, <2>2, <2>3, CommandKeeps
<1>4. CASE MirrorTarget
  <2>1. PICK id \in TrackIds : Tim!OnRawTarget(id)
    BY <1>4 DEF MirrorTarget
  <2>2. /\ Tim!NewGeneration(id) /\ selection < MaxGeneration /\ TimMoves
        /\ UNCHANGED <<now, tracked>> /\ mirrored' = id
        /\ chosen' = [chosen EXCEPT ![Issued'] = TRUE]
    BY <1>4, <2>1 DEF MirrorTarget, Tim!OnRawTarget
  <2>3. mirrored' \in Ids /\ id \in Ids
    BY <2>1, <2>2 DEF Ids
  <2> QED
    BY <1>1, <1>2, <2>2, <2>3, CommandKeeps
<1>5. CASE Clear
  <2>1. /\ Tim!NewGeneration(Null) /\ selection < MaxGeneration /\ TimMoves
        /\ UNCHANGED <<now, tracked, mirrored, chosen>> /\ Null \in Ids
    BY <1>5 DEF Clear, Tim!OnClear, Tim!Null, Null, Ids
  <2>2. mirrored' \in Ids /\ chosen' = chosen
    BY <1>1, <2>1 DEF Consistent, TimOK
  <2> QED
    BY <1>1, <1>2, <2>1, <2>2, CommandKeeps
<1>6. CASE Tracks
  BY <1>1, <1>6, TracksKeeps DEF IInv
<1>7. CASE Repeat
  BY <1>1, <1>2, <1>7, RepeatKeeps
<1>8. CASE Restart
  BY <1>1, <1>2, <1>8, RestartKeeps
<1>9. CASE DeliverStatus
  BY <1>1, <1>2, <1>9, DeliverStatusKeeps
<1>10. CASE DeliverTarget
  BY <1>1, <1>2, <1>10, DeliverTargetKeeps
<1>11. CASE ControllerMoves
  BY <1>1, <1>2, <1>11, ControllerMovesKeeps
<1>12. CASE UNCHANGED vars
  BY <1>1, <1>2, <1>12, StutterKeeps
<1> QED
  BY <1>3, <1>4, <1>5, <1>6, <1>7, <1>8, <1>9, <1>10, <1>11, <1>12 DEF Next

\* The inductive invariant: every message on its way, and every message held,
\* was said in the epoch in which its frame was processed.
THEOREM Invariance == Spec => []IInv
<1>1. Init => IInv
  BY InitConsistent
<1>2. IInv /\ [Next]_vars => IInv'
  BY NextConsistent
<1> QED
  BY <1>1, <1>2, PTL DEF Spec

-----------------------------------------------------------------------------
(* The theorems.                                                           *)

\* The queues hold what their session published, at most their depth of it.
THEOREM Type_Correct == Spec => []TypeOK
<1>1. IInv => TypeOK
  <2> SUFFICES ASSUME TimOK, OrderOK, Lengths
               PROVE  TypeOK
    BY DEF IInv, Consistent
  <2>1. /\ timSession \in Sessions /\ selection \in 0 .. MaxGeneration
        /\ pending \in TrackIds \cup {Tim!Null} /\ mirrored \in TrackIds \cup {Tim!Null}
        /\ memory.state \in {"NO_TARGET", "LOCKED", "UNCERTAIN", "LOST"}
    BY DEF TimOK, Ids, Tim!Null, Null
  <2> QED
    BY <2>1 DEF TypeOK, OrderOK, Lengths
<1> QED
  BY <1>1, Invariance, PTL

\* The aircraft follows a target only if TIM-MARS made it in the selection
\* whose status authorises it, however the two topics and the sessions are
\* interleaved: resolve_state_aware_policy asks for the same source frame,
\* and a frame is processed in one selection.
THEOREM Follows_Current_Selection == Spec => []FollowsCurrentSelection
<1>1. IInv => FollowsCurrentSelection
  BY FollowsTheEpoch DEF IInv, FollowsCurrentSelection
<1> QED
  BY <1>1, Invariance, PTL

\* Nothing is followed in an epoch that no select began: clear_selection and a
\* new process begin with an empty memory, which publishes no target id.
THEOREM Follows_Only_A_Selection == Spec => []FollowsOnlyASelection
<1>1. IInv => FollowsOnlyASelection
  BY DEF IInv, Consistent, ControllerOK, FollowsOnlyASelection
<1> QED
  BY <1>1, Invariance, PTL

\* A selection that is over is followed no longer than the stale timeout of
\* on_timer and one gap between two callbacks, whatever is lost or late.
THEOREM Revoked_Following_Ends == Spec => []RevokedFollowingEnds
<1>1. IInv => RevokedFollowingEnds
  <2> SUFFICES ASSUME IInv, cmd.mode = "NORMAL_FOLLOW", Known # Issued
               PROVE  now - left[Known] <= StaleTimeout + TickMax
    BY DEF RevokedFollowingEnds
  <2>1. TimOK /\ EpochsOK /\ ControllerOK
    BY DEF IInv, Consistent
  <2>2. Known \in Epochs /\ left[Known] # Null /\ lastTimer - left[Known] <= StaleTimeout
    BY <2>1 DEF ControllerOK, Begun
  <2>3. left[Known] \in Nat /\ {now, lastTimer, StaleTimeout, TickMax} \subseteq Nat
        /\ now - lastTimer <= TickMax
    BY <2>1, <2>2, LinkAssumption DEF EpochsOK, TimOK, ControllerOK
  <2> QED
    BY <2>2, <2>3
<1> QED
  BY <1>1, Invariance, PTL

\* The last selection or clear is learned although the status queue drops its
\* oldest messages: every status names the epoch, and none overtakes another.
THEOREM Epoch_Is_Learned == Spec => []EpochIsLearned
<1>1. IInv => EpochIsLearned
  BY DEF IInv, Consistent, OrderOK, EpochIsLearned
<1> QED
  BY <1>1, Invariance, PTL

-----------------------------------------------------------------------------
(* The controller of the link is the controller by itself.                  *)

\* ControlRef, given every message its topics could carry; its own assumptions
\* about its parameters are those of the theorems about it.
Alone == INSTANCE ControlRefProofs WITH Statuses <- Ctl!Status, Targets <- Ctl!Target

LEMMA AloneAssumptions == Alone!MessageAssumption /\ Alone!SessionAssumption
<1>1. Alone!MessageAssumption
  BY DEF Alone!MessageAssumption, Ctl!Status, Alone!Status, Ctl!Target, Alone!Target,
     Ctl!Null, Alone!Null
<1>2. Alone!SessionAssumption
  BY LinkAssumption DEF Alone!SessionAssumption, Alone!Null
<1> QED
  BY <1>1, <1>2

\* What TIM-MARS publishes is what the controller's callbacks parse.
LEMMA MessagesParse == StatusMsg \subseteq Ctl!Status /\ \A y \in TargetMsg : y.msg \in Ctl!Target
<1>1. /\ \A id \in TrackIds \cup {0} : id \in Nat /\ id \in Int
      /\ \A id \in Ids : id \in Nat \cup {Null}
      /\ MaxGeneration \in Nat
  <2>1. TrackIds \subseteq Nat \ {0} /\ MaxGeneration \in Nat
    BY LinkAssumption
  <2> QED
    BY <2>1 DEF Ids
<1>2. StatusMsg \subseteq Ctl!Status
  <2> SUFFICES ASSUME NEW m \in StatusMsg
               PROVE  m \in Ctl!Status
    OBVIOUS
  <2>1. /\ m = [session |-> m.session, generation |-> m.generation, frame |-> m.frame,
                stamp |-> m.stamp, track |-> m.track, state |-> m.state,
                control |-> m.control, fresh |-> m.fresh]
        /\ m.session \in Sessions /\ m.generation \in 0 .. MaxGeneration
        /\ m.frame \in Nat \cup {Null} /\ m.stamp \in Nat \cup {Null} /\ m.track \in Ids
        /\ m.state \in {"NO_TARGET", "LOCKED", "UNCERTAIN", "LOST", "REACQUIRED"}
        /\ m.control \in {"NORMAL", "HOLD"} /\ m.fresh \in BOOLEAN
    BY DEF StatusMsg
  <2>2. m.generation \in Nat
    BY <1>1, <2>1
  <2>3. m.track \in Nat \cup {Null} /\ Null = Ctl!Null
    BY <1>1, <2>1 DEF Null, Ctl!Null
  <2> QED
    BY <2>1, <2>2, <2>3 DEF Ctl!Status
<1>3. ASSUME NEW y \in TargetMsg
      PROVE  y.msg \in Ctl!Target
  <2>1. y.msg \in [id : TrackIds \cup {0}, frame : Nat, stamp : Nat, usable : BOOLEAN,
                   ambiguous : BOOLEAN, ex : TrackIds \cup {0}, rangeErr : TrackIds \cup {0}]
    BY DEF TargetMsg
  <2> QED
    BY <1>1, <2>1 DEF Ctl!Target
<1> QED
  BY <1>2, <1>3

\* The two copies of the controller's callbacks are the same formulas.
LEMMA SameCallbacks ==
  ASSUME NEW m
  PROVE  /\ Ctl!OnStatusAccepted(m) => Alone!OnStatusAccepted(m)
         /\ Ctl!OnStatusRejected(m) => Alone!OnStatusRejected(m)
         /\ Ctl!OnTarget(m) => Alone!OnTarget(m)
<1>1. Ctl!OnTarget(m) => Alone!OnTarget(m)
  BY DEF Ctl!OnTarget, Alone!OnTarget, Ctl!Misordered, Alone!Misordered, Ctl!Null,
     Alone!Null, Ctl!timeVars, Alone!timeVars, Ctl!statusVars, Alone!statusVars,
     Ctl!epochVars, Alone!epochVars, Ctl!historyVars, Alone!historyVars
<1>2. /\ Ctl!OnStatusAccepted(m) => Alone!OnStatusAccepted(m)
      /\ Ctl!OnStatusRejected(m) => Alone!OnStatusRejected(m)
  BY DEF Ctl!OnStatusAccepted, Alone!OnStatusAccepted, Ctl!EpochAccepted,
     Alone!EpochAccepted, Ctl!NoSession, Alone!NoSession, Ctl!Null, Alone!Null,
     Ctl!EpochReset, Alone!EpochReset, Ctl!Revoke, Alone!Revoke, Ctl!ClearTrustedHistory,
     Alone!ClearTrustedHistory, Ctl!NoHistory, Alone!NoHistory, Ctl!Idle, Alone!Idle,
     Ctl!NoHist, Alone!NoHist, Ctl!NoTarget, Alone!NoTarget, Ctl!Zero, Alone!Zero,
     Ctl!targetVars, Alone!targetVars, Ctl!historyVars, Alone!historyVars, Ctl!timeVars,
     Alone!timeVars, Ctl!OnStatusRejected, Alone!OnStatusRejected, Ctl!NoStatus,
     Alone!NoStatus, Ctl!epochVars, Alone!epochVars
<1> QED
  BY <1>1, <1>2

LEMMA SameTimer == Ctl!OnTimer => Alone!OnTimer
  BY DEF Ctl!OnTimer, Alone!OnTimer, Ctl!TimerNoTarget, Alone!TimerNoTarget,
     Ctl!Timer, Alone!Timer, Ctl!targetVars, Alone!targetVars, Ctl!statusVars,
     Alone!statusVars, Ctl!epochVars, Alone!epochVars, Ctl!NoTarget, Alone!NoTarget,
     Ctl!Null, Alone!Null, Ctl!Zero, Alone!Zero, Ctl!historyVars, Alone!historyVars,
     Ctl!TimerFollow, Alone!TimerFollow, Ctl!MayFollow, Alone!MayFollow, Ctl!StatusFresh,
     Alone!StatusFresh, Ctl!NoStatus, Alone!NoStatus, Ctl!LockedNormal,
     Alone!LockedNormal, Ctl!CausalPair, Alone!CausalPair, Ctl!TargetValid,
     Alone!TargetValid, Ctl!Fresh, Alone!Fresh, Ctl!TimerHolds, Alone!TimerHolds,
     Ctl!Idle, Alone!Idle, Ctl!Slew, Alone!Slew, Ctl!Clamp, Alone!Clamp, Ctl!Greater,
     Alone!Greater, Ctl!Lesser, Alone!Lesser, Ctl!YawSign, Alone!YawSign, Ctl!NoHist,
     Alone!NoHist, Ctl!NoSession, Alone!NoSession, Ctl!TimerAmbiguityHold,
     Alone!TimerAmbiguityHold, Ctl!TimerHover, Alone!TimerHover, Ctl!MayRecover,
     Alone!MayRecover, Ctl!HistoryConsumed, Alone!HistoryConsumed, Ctl!NoHistory,
     Alone!NoHistory, Ctl!TrustedAge, Alone!TrustedAge, Ctl!Elapsed, Alone!Elapsed,
     Ctl!ConsumeHistory, Alone!ConsumeHistory, Ctl!TimerBeginRecovery,
     Alone!TimerBeginRecovery, Ctl!TimerTurn, Alone!TimerTurn, Ctl!BudgetExhausted,
     Alone!BudgetExhausted, Ctl!Remaining, Alone!Remaining, Ctl!Abs, Alone!Abs,
     Ctl!RecoveryYaw, Alone!RecoveryYaw, Ctl!Sign, Alone!Sign, Ctl!RecoveryMagnitude,
     Alone!RecoveryMagnitude, Ctl!Dt, Alone!Dt, Ctl!TimerExhausted, Alone!TimerExhausted

LEMMA SameClockAndInit == (Ctl!Advance => Alone!Advance) /\ (Ctl!Init => Alone!Init)
  BY DEF Ctl!Advance, Alone!Advance, Ctl!Abs, Alone!Abs, Ctl!targetVars,
     Alone!targetVars, Ctl!statusVars, Alone!statusVars, Ctl!epochVars, Alone!epochVars,
     Ctl!historyVars, Alone!historyVars, Ctl!Init, Alone!Init, Ctl!NoTarget,
     Alone!NoTarget, Ctl!Null, Alone!Null, Ctl!NoStatus, Alone!NoStatus, Ctl!NoSession,
     Alone!NoSession, Ctl!NoHistory, Alone!NoHistory, Ctl!Idle, Alone!Idle, Ctl!Zero,
     Alone!Zero, Ctl!NoHist, Alone!NoHist

LEMMA AloneStep == IInv /\ [Next]_vars => [Alone!Next]_(Alone!vars)
<1> SUFFICES ASSUME IInv, [Next]_vars
             PROVE  [Alone!Next]_(Alone!vars)
  OBVIOUS
<1>1. PICK E \in [Nat -> Epochs] : Messages(E)
  BY DEF IInv, Consistent
<1>2. CASE Select \/ Clear \/ MirrorTarget \/ Tracks \/ Repeat \/ Restart \/ UNCHANGED vars
  <2>1. UNCHANGED <<now, ctlVars>>
    BY <1>2 DEF Select, Clear, MirrorTarget, Tracks, Repeat, Restart, TimMoves, vars,
       Tim!OnSelect, Tim!OnClear, Tim!OnRawTarget, Tim!OnTracks, Tim!Reconcile, Tim!Restart
  <2> QED
    BY <2>1 DEF ctlVars, Alone!vars, Alone!timeVars, Alone!targetVars, Alone!statusVars,
       Alone!epochVars, Alone!historyVars
<1>3. CASE DeliverStatus
  <2>1. PICK s \in Sessions :
          /\ statusQ[s] # <<>>
          /\ \/ Ctl!OnStatusAccepted(Head(statusQ[s]))
             \/ Ctl!OnStatusRejected(Head(statusQ[s]))
    BY <1>3 DEF DeliverStatus
  <2> DEFINE m == Head(statusQ[s])
  <2>2. m \in Ctl!Status
    <3>1. statusQ[s] \in Seq(StatusOf(E))
      BY <1>1 DEF Messages, Queues
    <3>2. m \in StatusOf(E)
      BY <2>1, <3>1
    <3> QED
      BY <3>2, MessagesParse DEF StatusOf
  <2> HIDE DEF m
  <2>3. Alone!OnStatusAccepted(m) \/ Alone!OnStatusRejected(m)
    BY <2>1, SameCallbacks DEF m
  <2> QED
    BY <2>2, <2>3 DEF Alone!Next, Alone!OnStatus
<1>4. CASE DeliverTarget
  <2>1. PICK s \in Sessions : \E i \in 1 .. Len(targetQ[s]) : Ctl!OnTarget(targetQ[s][i].msg)
    BY <1>4 DEF DeliverTarget
  <2>2. PICK i \in 1 .. Len(targetQ[s]) : Ctl!OnTarget(targetQ[s][i].msg)
    BY <2>1
  <2> DEFINE m == targetQ[s][i].msg
  <2>3. m \in Ctl!Target
    <3>1. targetQ[s] \in Seq(TargetOf(E))
      BY <1>1 DEF Messages, Queues
    <3>2. targetQ[s][i] \in TargetOf(E)
      BY <2>2, <3>1
    <3> QED
      BY <3>2, MessagesParse DEF TargetOf
  <2> HIDE DEF m
  <2>4. Alone!OnTarget(m)
    BY <2>2, SameCallbacks DEF m
  <2> QED
    BY <2>3, <2>4 DEF Alone!Next
<1>5. CASE ControllerMoves
  <2>1. Alone!OnTimer \/ Alone!Advance
    BY <1>5, SameTimer, SameClockAndInit DEF ControllerMoves
  <2> QED
    BY <2>1 DEF Alone!Next
<1> QED
  BY <1>2, <1>3, <1>4, <1>5 DEF Next

\* What reaches the controller through the queues is a behaviour ControlRef
\* allows: TIM-MARS sends no message it would not parse, and moves nothing of it.
THEOREM Link_Implements_ControlRef == Spec => Alone!Spec
<1>1. Init => Alone!Init
  BY SameClockAndInit DEF Init
<1> QED
  BY <1>1, AloneStep, Invariance, PTL DEF Spec, Alone!Spec

\* So every theorem about the controller by itself holds of the two together:
\* it keeps its contract towards whatever TIM-MARS, the topics and restarts do,
\* goes through the epochs one way, and stops when they fall silent.
THEOREM Link_Keeps_Contract ==
  ASSUME Alone!BoundAssumption
  PROVE  Spec => /\ Alone!ContractSpec
                 /\ Alone!EpochsNeverReturn
                 /\ Alone!CommandIsSlewed
                 /\ [](Alone!OneAttemptPerObservation /\ Alone!RecoveryIsYawOnly
                       /\ Alone!RecoveryEndsInTime /\ Alone!FollowEndsWhenInputsStop)
<1>1. Alone!Spec => Alone!ContractSpec
  BY AloneAssumptions, Alone!Implements
<1>2. Alone!Spec => Alone!EpochsNeverReturn
  BY AloneAssumptions, Alone!Epochs_Forward
<1>3. Alone!Spec => Alone!CommandIsSlewed
  BY AloneAssumptions, Alone!Command_Slewed
<1>4. Alone!Spec => []Alone!OneAttemptPerObservation
  BY AloneAssumptions, Alone!One_Attempt
<1>5. Alone!Spec => []Alone!RecoveryIsYawOnly
  BY AloneAssumptions, Alone!Recovery_Yaw_Only
<1>6. Alone!Spec => []Alone!FollowEndsWhenInputsStop
  BY AloneAssumptions, Alone!Follow_Ends
<1>7. Alone!Spec => []Alone!RecoveryEndsInTime
  BY AloneAssumptions, Alone!Recovery_Ends
<1> QED
  BY <1>1, <1>2, <1>3, <1>4, <1>5, <1>6, <1>7, Link_Implements_ControlRef, PTL

=============================================================================
