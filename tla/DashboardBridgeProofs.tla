------------------------- MODULE DashboardBridgeProofs -------------------------
(***************************************************************************)
(* Theorems about DashboardBridge, for every number of requests, threads   *)
(* and targets.                                                            *)
(***************************************************************************)
EXTENDS DashboardBridge, FiniteSetTheorems, SequenceTheorems, TLAPS

-----------------------------------------------------------------------------
(* The inductive invariant.                                                *)

Ids == Targets \cup {None}
Commands == [id : {t % IdLimit : t \in Ids} \cup {None}, gen : Nat]

Stages ==
  {"new", "asked", "apply", "command", "log", "call", "waiting", "done", "raised"}

HttpRecords ==
  [at : Stages, kind : {"select", "clear", "switch", "over"}, target : Ids, gen : Nat]

\* Requests that have changed the authority, those whose command has left the
\* request since, and those whose event has been written or lost.
Numbered == {h \in Handlers : http[h].gen # 0}
Sent == {h \in Numbered : http[h].at # "command"}
Recorded == {h \in Numbered : http[h].at \notin {"command", "log", "raised"}}
Raised == {h \in Numbered : http[h].at = "raised"}

Places(queue) == {queue[i] : i \in 1 .. Len(queue)}

TimRecords == [up : BOOLEAN, follows : Commands, batch : SUBSET {"select", "clear"}]

StateOK ==
  /\ client \in {"one", "many"} /\ phase \in {"starting", "publishing", "up", "down"}
  /\ focus \in Ids /\ active \in Ids /\ generation \in Nat
  /\ http \in [Handlers -> HttpRecords]
  /\ selects \in Seq(Commands) /\ clears \in Seq(Commands)
  /\ tim \in TimRecords
  /\ service \in SUBSET Handlers
  /\ raced \in SUBSET Nat /\ log \in Seq(Nat) /\ unlogged \in SUBSET Nat
  /\ browser \in {"off", "fresh", "old"}

\* Only accepted requests have a number; no two the same, and none is missing.
NumbersOK ==
  /\ \A h \in Handlers :
       /\ http[h].at \in {"new", "asked", "apply"} => http[h].gen = 0
       /\ http[h].at \in {"command", "log", "call", "waiting", "raised"} => http[h].gen # 0
       /\ http[h].at \in {"asked", "apply", "command"} /\ http[h].kind = "select" =>
            http[h].target # None
  /\ \A g, h \in Numbered : http[g].gen = http[h].gen => g = h
  /\ \A h \in Numbered : http[h].gen \in 1 .. generation
  /\ \A n \in 1 .. generation : \E h \in Numbered : http[h].gen = n
  /\ generation = Cardinality(Numbered)

\* No event is written twice, or written and lost; those are the events of the
\* requests that came so far and of the start.  Each request sends one command.
NoRepeats == \A i, j \in 1 .. Len(log) : log[i] = log[j] => i = j

Events ==
  {http[h].gen : h \in Recorded} \cup IF phase \in {"up", "down"} THEN {0} ELSE {}

CountsOK ==
  /\ NoRepeats
  /\ Logged \cap unlogged = {} /\ Logged \cup unlogged = Events
  /\ Len(selects) + Len(clears) <= Cardinality(Sent)

\* TIM-MARS takes what is there.
TimOK ==
  /\ "select" \in tim.batch => selects # <<>>
  /\ "clear" \in tim.batch => clears # <<>>
  /\ ~tim.up => selects = <<>> /\ clears = <<>> /\ tim.follows = Nothing /\ tim.batch = {}

\* A focus that was read before it changed has not been published since.
RawOK ==
  /\ tracks \in [at : {"idle", "read", "write"}, focus : Ids]
  /\ stale \in {0, 1}
  /\ tracks.at = "read" /\ tracks.focus \notin {None, focus} => stale = 0

\* One operator: one request at a time, and the focus is that of the last.
OneByOne ==
  /\ \A g, h \in Handlers : UnderWay(g) /\ UnderWay(h) => g = h
  /\ \A h \in Handlers : http[h].at = "command" =>
       /\ http[h].gen = generation /\ focus = Target(h)
       /\ \A c \in Places(selects) \cup Places(clears) : c.gen < generation
  /\ \A c \in Places(selects) \cup Places(clears) : c.gen <= generation

\* The command of the last change.
LastCommand == [id |-> focus % IdLimit, gen |-> generation]

\* Once it has left its request, a revocation that met no selection has a clear
\* under way for what TIM-MARS follows, and a selection is the last under way or
\* what TIM-MARS follows, unless a clear has come after it.
LastWord ==
  (\A h \in Handlers : http[h].at # "command") /\ ~LastRaised =>
    /\ focus = None /\ generation \notin raced =>
         selects = <<>> /\ (tim.follows # Nothing => clears # <<>>)
    /\ focus # None /\ selects = <<>> => tim.follows \in {Nothing, LastCommand}
    /\ focus # None /\ selects # <<>> => selects[Len(selects)] = LastCommand

\* A change of authority that revokes: what TIM-MARS will select is later, and
\* what it follows too, or a clear as late is under way.
Revoked(g) ==
  /\ \A c \in Places(selects) : c.gen > g
  /\ \/ \E c \in Places(clears) : c.gen >= g
     \/ tim.follows = Nothing
     \/ tim.follows.gen > g

SwitchesRevoke ==
  \A h \in Handlers :
    \/ h \in service
    \/ http[h].at \in {"call", "waiting"}
    \/ http[h].at = "log" /\ http[h].kind = "switch"
    => /\ http[h].gen # 0 /\ http[h].at # "command"
       /\ http[h].gen \in raced \/ Revoked(http[h].gen)

OneClient == OneByOne /\ LastWord /\ SwitchesRevoke

DInv ==
  /\ StateOK /\ NumbersOK /\ CountsOK /\ TimOK /\ RawOK
  /\ client = "one" => OneClient

-----------------------------------------------------------------------------
(* Queues and sets.                                                        *)

\* What a queue holds after one more.
LEMMA AppendFacts ==
  ASSUME NEW S, NEW q \in Seq(S), NEW x \in S
  PROVE  /\ Append(q, x) \in Seq(S) /\ Len(Append(q, x)) = Len(q) + 1
         /\ Append(q, x) # <<>> /\ Len(q) \in Nat
         /\ Places(Append(q, x)) = Places(q) \cup {x}
         /\ Append(q, x)[Len(q) + 1] = x
         /\ \A i \in 1 .. Len(q) : Append(q, x)[i] = q[i]
<1> DEFINE r == Append(q, x)
<1>1. r \in Seq(S) /\ Len(r) = Len(q) + 1 /\ r # <<>> /\ Len(q) \in Nat
  OBVIOUS
<1>2. \A i \in 1 .. Len(q) : r[i] = q[i]
  OBVIOUS
<1>3. r[Len(q) + 1] = x
  OBVIOUS
<1>4. ASSUME NEW y \in Places(r) PROVE y \in Places(q) \cup {x}
  <2>1. PICK i \in 1 .. Len(r) : y = r[i]
    BY DEF Places
  <2>2. i \in 1 .. Len(q) \/ i = Len(q) + 1
    BY <1>1, <2>1
  <2> QED BY <1>2, <1>3, <2>1, <2>2 DEF Places
<1>5. ASSUME NEW i \in 1 .. Len(q) PROVE q[i] \in Places(r)
  <2>1. i \in 1 .. Len(r)
    BY <1>1
  <2>2. r[i] = q[i]
    BY <1>2
  <2> QED BY <2>1, <2>2 DEF Places
<1>6. x \in Places(r)
  <2>1. Len(q) + 1 \in 1 .. Len(r)
    BY <1>1
  <2> QED BY <1>3, <2>1 DEF Places
<1>8. Places(q) \subseteq Places(r)
  BY <1>5 DEF Places
<1> HIDE DEF r
<1>9. Places(r) = Places(q) \cup {x}
  BY <1>4, <1>6, <1>8
<1> QED BY <1>1, <1>2, <1>3, <1>9 DEF r

\* What a queue holds without its first.
LEMMA TailFacts ==
  ASSUME NEW S, NEW q \in Seq(S), q # <<>>
  PROVE  /\ Tail(q) \in Seq(S) /\ Len(q) \in Nat /\ Len(Tail(q)) = Len(q) - 1 /\ Len(q) >= 1
         /\ Head(q) = q[1] /\ q[1] \in Places(q) /\ q[1] \in S
         /\ Places(Tail(q)) \subseteq Places(q)
         /\ Places(q) \subseteq Places(Tail(q)) \cup {q[1]}
<1> DEFINE r == Tail(q)
<1>1. /\ r \in Seq(S) /\ Len(q) \in Nat /\ Len(r) = Len(q) - 1 /\ Len(q) >= 1
      /\ Head(q) = q[1] /\ q[1] \in S
  OBVIOUS
<1>2. \A i \in 1 .. Len(q) - 1 : r[i] = q[i + 1]
  OBVIOUS
<1>3. q[1] \in Places(q)
  <2>1. 1 \in 1 .. Len(q)
    BY <1>1
  <2> QED BY <2>1 DEF Places
<1>4. ASSUME NEW y \in Places(r) PROVE y \in Places(q)
  <2>1. PICK i \in 1 .. Len(r) : y = r[i]
    BY DEF Places
  <2>2. i + 1 \in 1 .. Len(q) /\ i \in 1 .. Len(q) - 1
    BY <1>1, <2>1
  <2>3. y = q[i + 1]
    BY <1>2, <2>1, <2>2
  <2> QED BY <2>2, <2>3 DEF Places
<1>5. ASSUME NEW y \in Places(q), y # q[1] PROVE y \in Places(r)
  <2>1. PICK i \in 1 .. Len(q) : y = q[i]
    BY DEF Places
  <2>2. i - 1 \in 1 .. Len(r) /\ (i - 1) + 1 = i
    BY <1>1, <1>5, <2>1
  <2>3. r[i - 1] = q[i]
    BY <1>1, <1>2, <2>2
  <2> QED BY <2>1, <2>2, <2>3 DEF Places
<1> HIDE DEF r
<1>6. Places(r) \subseteq Places(q) /\ Places(q) \subseteq Places(r) \cup {q[1]}
  BY <1>4, <1>5
<1> QED BY <1>1, <1>3, <1>6 DEF r

\* What a queue holds is of the kind it holds.
LEMMA PlaceFacts ==
  ASSUME NEW S, NEW q \in Seq(S)
  PROVE  Places(q) \subseteq S
BY DEF Places

\* Nothing is in the empty queue, and only in that one.
LEMMA EmptyFacts ==
  ASSUME NEW S, NEW q \in Seq(S)
  PROVE  /\ Places(<<>>) = {} /\ Len(<<>>) = 0 /\ <<>> \in Seq(S)
         /\ Len(q) \in Nat /\ (Len(q) = 0 <=> q = <<>>)
<1>1. Places(<<>>) = {}
  BY DEF Places
<1> QED BY <1>1

\* The first to be taken is in the queue.
LEMMA FirstIn ==
  ASSUME NEW S, NEW q \in Seq(S), q # <<>>
  PROVE  q[1] \in Places(q) /\ q[1] \in S
BY TailFacts

\* What a topic holds after one more command, the last of them.
LEMMA PutFacts ==
  ASSUME NEW S, NEW q \in Seq(S), NEW x \in S
  PROVE  /\ Put(q, x) \in Seq(S) /\ Put(q, x) # <<>>
         /\ Len(q) \in Nat /\ Len(Put(q, x)) \in Nat /\ Len(Put(q, x)) <= Len(q) + 1
         /\ Places(Put(q, x)) \subseteq Places(q) \cup {x} /\ x \in Places(Put(q, x))
         /\ Put(q, x)[Len(Put(q, x))] = x
<1> DEFINE kept == IF Len(q) < CommandDepth THEN q ELSE Tail(q)
<1>1. kept \in Seq(S) /\ Len(kept) <= Len(q) /\ Places(kept) \subseteq Places(q)
  <2>1. CASE Len(q) < CommandDepth
    BY <2>1
  <2>2. CASE ~(Len(q) < CommandDepth)
    <3>1. q # <<>>
      BY <2>2, ControlAssumption
    <3>2. /\ Tail(q) \in Seq(S) /\ Len(q) \in Nat /\ Len(Tail(q)) = Len(q) - 1
          /\ Places(Tail(q)) \subseteq Places(q)
      BY <3>1, TailFacts
    <3> QED BY <2>2, <3>2
  <2> QED BY <2>1, <2>2
<1>2. Put(q, x) = Append(kept, x)
  BY DEF Put
<1> HIDE DEF kept
<1>3. /\ Append(kept, x) \in Seq(S) /\ Len(Append(kept, x)) = Len(kept) + 1
      /\ Append(kept, x) # <<>> /\ Len(kept) \in Nat
      /\ Places(Append(kept, x)) = Places(kept) \cup {x}
  BY <1>1, AppendFacts
<1>4. Append(kept, x)[Len(Append(kept, x))] = x
  BY <1>1
<1>5. Len(q) \in Nat
  OBVIOUS
<1> QED BY <1>1, <1>2, <1>3, <1>4, <1>5

\* Only the empty queue has no length.
LEMMA EmptyIsShort ==
  ASSUME NEW S, NEW q \in Seq(S)
  PROVE  q = <<>> <=> Len(q) = 0
  OBVIOUS

\* The last of a queue after one more, and after one less.
LEMMA LastFacts ==
  ASSUME NEW S, NEW q \in Seq(S), NEW x \in S
  PROVE  /\ Append(q, x) \in Seq(S) /\ Append(q, x) # <<>>
         /\ Append(q, x)[Len(Append(q, x))] = x
         /\ q # <<>> =>
              /\ Tail(q) \in Seq(S)
              /\ Tail(q) = <<>> => Head(q) = q[Len(q)]
              /\ Tail(q) # <<>> => Tail(q)[Len(Tail(q))] = q[Len(q)]
<1>1. /\ Append(q, x) \in Seq(S) /\ Append(q, x) # <<>>
      /\ Append(q, x)[Len(Append(q, x))] = x
  OBVIOUS
<1>2. ASSUME q # <<>>
      PROVE  /\ Tail(q) \in Seq(S) /\ Len(q) \in Nat \ {0} /\ Len(Tail(q)) = Len(q) - 1
             /\ Head(q) = q[1] /\ \A i \in 1 .. Len(q) - 1 : Tail(q)[i] = q[i + 1]
  BY <1>2
<1>3. ASSUME q # <<>>, Tail(q) = <<>>
      PROVE  Head(q) = q[Len(q)]
  <2>1. Len(Tail(q)) = 0
    BY <1>2, <1>3, EmptyIsShort
  <2> QED
    BY <1>2, <1>3, <2>1
<1>4. ASSUME q # <<>>, Tail(q) # <<>>
      PROVE  Tail(q)[Len(Tail(q))] = q[Len(q)]
  <2>1. Len(Tail(q)) # 0
    BY <1>2, <1>4, EmptyIsShort
  <2>2. Len(q) - 1 \in 1 .. Len(q) - 1 /\ (Len(q) - 1) + 1 = Len(q)
    BY <1>2, <1>4, <2>1
  <2> QED
    BY <1>2, <1>4, <2>2
<1> QED
  BY <1>1, <1>2, <1>3, <1>4

\* There are finitely many requests.
LEMMA FiniteFacts ==
  ASSUME NEW T, T \subseteq Handlers
  PROVE  /\ IsFiniteSet(T) /\ Cardinality(T) \in Nat
         /\ \A h \in Handlers \ T : Cardinality(T \cup {h}) = Cardinality(T) + 1
         /\ Cardinality(T) = 0 => T = {}
<1>1. IsFiniteSet(Handlers)
  BY ControlAssumption, FS_Interval DEF Handlers
<1>2. IsFiniteSet(T)
  BY <1>1, FS_Subset
<1> QED BY <1>2, FS_CardinalityType, FS_AddElement, FS_EmptySet

-----------------------------------------------------------------------------
(* What the steps change.                                                  *)

\* Request h goes on from one stage to another; its kind and target stay while
\* it is under way.
Moves(h, from, to) ==
  /\ http' \in [Handlers -> HttpRecords]
  /\ http[h].at = from /\ http'[h].at = to
  /\ \A g \in Handlers : g # h => http'[g] = http[g]

Same(h) == http'[h].kind = http[h].kind /\ http'[h].target = http[h].target

KeepsGen(h) == http'[h].gen = http[h].gen

authority ==
  <<client, focus, generation, selects, clears, raced, tim, log, unlogged, stale, phase>>

\* The steps of a request that change nothing but the request, and the call.
Quiet(h) ==
  /\ UNCHANGED <<authority, active>> /\ KeepsGen(h)
  /\ \/ Arrive(h) /\ Moves(h, "new", "asked") /\ UNCHANGED service
        /\ (http'[h].kind = "select" => http'[h].target # None)
     \/ \E to \in {"done", "apply"} :
          Moves(h, "asked", to) /\ (to = "apply" => Same(h)) /\ UNCHANGED service
     \/ Moves(h, "command", "raised") /\ UNCHANGED service
     \/ \E from \in {"call", "waiting"} : Moves(h, from, "done") /\ UNCHANGED service
     \/ Moves(h, "call", "waiting") /\ Same(h) /\ service' = service \cup {h}

\* A change of one request.
LEMMA ExceptFacts ==
  ASSUME http \in [Handlers -> HttpRecords], NEW h \in Handlers, NEW r \in HttpRecords,
         http' = [http EXCEPT ![h] = r]
  PROVE  /\ http' \in [Handlers -> HttpRecords] /\ http'[h] = r
         /\ \A g \in Handlers : g # h => http'[g] = http[g]
OBVIOUS

\* A request goes on.
LEMMA GoToFacts ==
  ASSUME http \in [Handlers -> HttpRecords], NEW h \in Handlers, NEW at \in Stages, GoTo(h, at)
  PROVE  Moves(h, http[h].at, at) /\ Same(h) /\ KeepsGen(h)
<1> DEFINE r == [http[h] EXCEPT !.at = at]
<1>1. http[h] \in HttpRecords
  OBVIOUS
<1>2. /\ r \in HttpRecords /\ r.at = at /\ r.kind = http[h].kind /\ r.target = http[h].target
      /\ r.gen = http[h].gen
  BY <1>1 DEF HttpRecords
<1>3. http' = [http EXCEPT ![h] = r]
  BY DEF GoTo
<1> HIDE DEF r
<1> QED BY <1>2, <1>3, ExceptFacts DEF Moves, Same, KeepsGen

\* A request ends.
LEMMA OverFacts ==
  ASSUME http \in [Handlers -> HttpRecords], NEW h \in Handlers, NEW at \in Stages, Over(h, at)
  PROVE  Moves(h, http[h].at, at) /\ KeepsGen(h) /\ http'[h].kind = "over"
<1> DEFINE r == [at |-> at, kind |-> "over", target |-> None, gen |-> http[h].gen]
<1>1. http[h] \in HttpRecords
  OBVIOUS
<1>2. r \in HttpRecords
  BY <1>1 DEF HttpRecords, Ids
<1>3. http' = [http EXCEPT ![h] = r]
  BY DEF Over
<1>4. r.at = at /\ r.gen = http[h].gen /\ r.kind = "over"
  OBVIOUS
<1> HIDE DEF r
<1> QED BY <1>2, <1>3, <1>4, ExceptFacts DEF Moves, KeepsGen

\* A request comes.
LEMMA ArriveFacts ==
  ASSUME http \in [Handlers -> HttpRecords], NEW h \in Handlers, Arrive(h)
  PROVE  /\ Moves(h, "new", "asked") /\ KeepsGen(h)
         /\ http'[h].kind = "select" => http'[h].target # None
<1>1. \E kind \in {"select", "clear", "switch"}, target \in Ids :
        /\ kind = "select" => target # None
        /\ http' = [http EXCEPT ![h] = [@ EXCEPT !.at = "asked", !.kind = kind,
                                                !.target = target]]
  <2>1. PICK kind \in {"select", "clear", "switch"} :
          \E target \in IF kind = "select" THEN Targets ELSE {None} :
            http' = [http EXCEPT ![h] = [@ EXCEPT !.at = "asked", !.kind = kind,
                                                  !.target = target]]
    BY DEF Arrive
  <2>2. PICK target \in IF kind = "select" THEN Targets ELSE {None} :
          http' = [http EXCEPT ![h] = [@ EXCEPT !.at = "asked", !.kind = kind,
                                                !.target = target]]
    BY <2>1
  <2>3. target \in Ids /\ (kind = "select" => target # None)
    BY ControlAssumption DEF Ids
  <2> QED BY <2>2, <2>3
<1>0. PICK kind \in {"select", "clear", "switch"}, target \in Ids :
        /\ kind = "select" => target # None
        /\ http' = [http EXCEPT ![h] = [@ EXCEPT !.at = "asked", !.kind = kind,
                                                !.target = target]]
  BY <1>1
<1> DEFINE r == [http[h] EXCEPT !.at = "asked", !.kind = kind, !.target = target]
<1>2. http[h] \in HttpRecords
  OBVIOUS
<1>3. /\ r \in HttpRecords /\ r.at = "asked" /\ r.kind = kind /\ r.target = target
      /\ r.gen = http[h].gen
  BY <1>2 DEF HttpRecords, Stages
<1>4. http' = [http EXCEPT ![h] = r]
  BY <1>0
<1>6. http[h].at = "new"
  BY DEF Arrive
<1> HIDE DEF r
<1> QED BY <1>0, <1>3, <1>4, <1>6, ExceptFacts DEF Moves, KeepsGen

\* The authority changes.
LEMMA ApplyFacts ==
  ASSUME http \in [Handlers -> HttpRecords], generation \in Nat, NEW h \in Handlers, Apply(h)
  PROVE  /\ Moves(h, "apply", "command") /\ Same(h)
         /\ http'[h].gen = generation + 1 /\ generation' = generation + 1
         /\ focus' = Target(h) /\ stale' = 0 /\ active' = None
         /\ UNCHANGED <<client, selects, clears, raced, tim, log, unlogged, phase, service,
                       tracks>>
<1> DEFINE r == [http[h] EXCEPT !.at = "command", !.gen = generation + 1]
<1>1. http[h] \in HttpRecords /\ generation + 1 \in Nat
  OBVIOUS
<1>2. /\ r \in HttpRecords /\ r.at = "command" /\ r.kind = http[h].kind
      /\ r.target = http[h].target /\ r.gen = generation + 1
  BY <1>1 DEF HttpRecords, Stages
<1>3. http' = [http EXCEPT ![h] = r]
  BY DEF Apply
<1> HIDE DEF r
<1> QED BY <1>2, <1>3, ExceptFacts DEF Moves, Same, Apply

\* A step of a request is quiet, or changes the authority, sends its command or
\* logs its event.
LEMMA HandleCases ==
  ASSUME http \in [Handlers -> HttpRecords], NEW h \in Handlers, Handle(h)
  PROVE  Quiet(h) \/ Apply(h) \/ Command(h) \/ Log(h)
<1>1. CASE Arrive(h)
  <2>1. UNCHANGED <<authority, active, service>>
    BY <1>1 DEF Arrive, authority
  <2> QED BY <1>1, <2>1, ArriveFacts DEF Quiet
<1>2. CASE Refuse(h) \/ Unavailable(h)
  <2>1. Moves(h, "asked", "done") /\ KeepsGen(h)
    BY <1>2, OverFacts DEF Refuse, Unavailable, Done, Stages
  <2> QED BY <1>2, <2>1 DEF Quiet, Refuse, Unavailable, authority
<1>3. CASE Accept(h)
  <2>1. Moves(h, "asked", "apply") /\ Same(h) /\ KeepsGen(h)
    BY <1>3, GoToFacts DEF Accept, Stages
  <2> QED BY <1>3, <2>1 DEF Quiet, Accept, authority
<1>4. CASE Raises(h)
  <2>1. Moves(h, "command", "raised") /\ KeepsGen(h)
    BY <1>4, OverFacts DEF Raises, Stages
  <2> QED BY <1>4, <2>1 DEF Quiet, Raises, authority
<1>5. CASE Unreachable(h) \/ Answer(h)
  <2>1. http[h].at \in {"call", "waiting"} /\ Moves(h, http[h].at, "done") /\ KeepsGen(h)
    BY <1>5, OverFacts DEF Unreachable, Answer, Done, Stages
  <2> QED BY <1>5, <2>1 DEF Quiet, Unreachable, Answer, authority
<1>6. CASE Call(h)
  <2>1. Moves(h, "call", "waiting") /\ Same(h) /\ KeepsGen(h)
    BY <1>6, GoToFacts DEF Call, Stages
  <2> QED BY <1>6, <2>1 DEF Quiet, Call, authority
<1> QED BY <1>1, <1>2, <1>3, <1>4, <1>5, <1>6 DEF Handle

\* Where a request is after its event is logged.
LEMMA LogFacts ==
  ASSUME http \in [Handlers -> HttpRecords], NEW h \in Handlers, Log(h)
  PROVE  /\ \E to \in {"call", "done"} :
              Moves(h, "log", to) /\ (to = "call" => Same(h) /\ http[h].kind = "switch")
         /\ KeepsGen(h) /\ Record(http[h].gen)
         /\ UNCHANGED <<client, focus, generation, active, selects, clears, raced, tim, stale,
                       phase, service, tracks>>
<1>1. CASE http[h].kind = "switch"
  BY <1>1, GoToFacts DEF Log, AfterLog, Stages
<1>2. CASE http[h].kind # "switch"
  BY <1>2, OverFacts DEF Log, AfterLog, Done, Stages
<1> QED BY <1>1, <1>2

\* The command goes out on one of the topics, if TIM-MARS is there.
LEMMA CommandFacts ==
  ASSUME http \in [Handlers -> HttpRecords], NEW h \in Handlers, Command(h)
  PROVE  /\ Moves(h, "command", "log") /\ Same(h) /\ KeepsGen(h)
         /\ UNCHANGED <<client, focus, generation, active, tim, stale, phase, service, log,
                       unlogged, tracks>>
         /\ CommandOf(h) \in Commands /\ CommandOf(h).gen = http[h].gen
         /\ raced' = IF Target(h) = None /\ selects # <<>> THEN raced \cup {http[h].gen}
                     ELSE raced
         /\ \/ ~tim.up /\ UNCHANGED <<selects, clears>>
            \/ /\ tim.up /\ Target(h) # None /\ UNCHANGED clears
               /\ selects' = Put(selects, CommandOf(h))
            \/ /\ tim.up /\ Target(h) = None /\ UNCHANGED selects
               /\ clears' = Put(clears, CommandOf(h))
<1>1. Moves(h, "command", "log") /\ Same(h) /\ KeepsGen(h)
  BY GoToFacts DEF Command, Stages
<1>2. CommandOf(h) \in Commands /\ CommandOf(h).gen = http[h].gen
  <2>1. http[h] \in HttpRecords
    OBVIOUS
  <2>2. Target(h) \in Ids /\ http[h].gen \in Nat
    BY <2>1 DEF Target, HttpRecords, Ids
  <2> QED BY <2>2 DEF Commands, CommandOf
<1> QED BY <1>1, <1>2 DEF Command

\* The steps that leave the requests alone.
Elsewhere ==
  /\ UNCHANGED <<client, focus, generation, http, raced, log, unlogged>>
  /\ \/ TimStep /\ UNCHANGED <<stale, tracks, active, service, phase>>
     \/ TracksStep /\ UNCHANGED <<tim, selects, clears, service, phase>>
     \/ /\ UNCHANGED <<tim, selects, clears, stale, tracks, active>>
        /\ service' \subseteq service
        /\ \/ phase' = phase
           \/ phase = "starting" /\ phase' = "publishing"
           \/ phase = "up" /\ phase' = "down"

\* Every step is one of a request, or one that leaves the requests alone.
LEMMA StepCases ==
  ASSUME http \in [Handlers -> HttpRecords], [Next]_vars
  PROVE  \/ \E h \in Handlers : (Quiet(h) \/ Apply(h) \/ Command(h) \/ Log(h)) /\ UNCHANGED tracks
         \/ LogStartup
         \/ Elsewhere
<1>1. CASE \E h \in Handlers : Handle(h)
  <2>1. PICK h \in Handlers : Handle(h)
    BY <1>1
  <2>2. UNCHANGED tracks
    BY <2>1 DEF Handle, Arrive, Refuse, Accept, Unavailable, Apply, Raises, Command, Log,
       Unreachable, Call, Answer
  <2> QED BY <2>1, <2>2, HandleCases
<1>2. CASE \E h \in Handlers : Serve(h)
  BY <1>2 DEF Serve, Elsewhere
<1>3. CASE TracksStep
  BY <1>3 DEF TracksStep, OnTracks, PublishRaw, WriteActive, Elsewhere
<1>4. CASE TimStep
  BY <1>4 DEF TimStep, Elsewhere
<1>5. CASE Destroy \/ CreatePublishers
  BY <1>5 DEF Destroy, CreatePublishers, Elsewhere
<1>6. CASE UNCHANGED controlVars
  BY <1>6 DEF controlVars, Elsewhere
<1> QED
  BY <1>1, <1>2, <1>3, <1>4, <1>5, <1>6
  DEF Next, Start, StartStep, Control, ControlStep, OtherChange, Flush, Broadcast, Connect, Disconnect, vars

-----------------------------------------------------------------------------
(* Each conjunct holds at first and is kept.                               *)

\* The initial state satisfies the invariant.
LEMMA DashboardInit == Init => DInv
<1> SUFFICES ASSUME Init PROVE DInv
  OBVIOUS
<1>0. /\ http = [h \in Handlers |-> [at |-> "new", kind |-> "clear", target |-> None, gen |-> 0]]
      /\ focus = None /\ generation = 0 /\ selects = <<>> /\ clears = <<>> /\ log = <<>>
      /\ raced = {} /\ unlogged = {} /\ phase = "starting"
      /\ tim = [up |-> TRUE, follows |-> Nothing, batch |-> {}] /\ service = {}
      /\ tracks = [at |-> "idle", focus |-> None] /\ stale = 0
  BY DEF Init, ControlInit
<1>1. StateOK
  <2>1. http \in [Handlers -> HttpRecords]
    BY <1>0 DEF HttpRecords, Stages, Ids
  <2>2. tim \in TimRecords
    BY <1>0 DEF TimRecords, Commands, Ids, Nothing
  <2>3. selects \in Seq(Commands) /\ clears \in Seq(Commands) /\ log \in Seq(Nat)
    BY <1>0
  <2> QED BY <2>1, <2>2, <2>3 DEF StateOK, Init, ControlInit, Ids
<1>2. \A h \in Handlers : http[h].at = "new" /\ http[h].gen = 0
  BY <1>0
<1>3. Numbered = {} /\ Sent = {} /\ Recorded = {}
  BY <1>2 DEF Numbered, Sent, Recorded
<1>4. Cardinality({}) = 0
  BY FS_EmptySet
<1>5. Places(<<>>) = {} /\ Len(<<>>) = 0
  BY DEF Places
<1>6. NumbersOK
  BY <1>0, <1>2, <1>3, <1>4 DEF NumbersOK
<1>7. CountsOK
  <2>1. Logged = {} /\ Events = {}
    BY <1>0, <1>3, <1>5 DEF Logged, Places, Events
  <2> QED BY <1>0, <1>3, <1>4, <1>5, <2>1 DEF CountsOK, NoRepeats
<1>8. TimOK /\ RawOK
  BY <1>0 DEF TimOK, RawOK, Ids
<1>9. OneClient
  <2>1. OneByOne
    BY <1>0, <1>2, <1>5 DEF OneByOne, UnderWay
  <2>2. LastWord /\ SwitchesRevoke
    BY <1>0, <1>2 DEF LastWord, SwitchesRevoke
  <2> QED BY <2>1, <2>2 DEF OneClient
<1> QED BY <1>1, <1>6, <1>7, <1>8, <1>9 DEF DInv

\* TIM-MARS sees what waits, takes it, dies or starts.
TimFinds ==
  /\ tim.up /\ tim'.up /\ tim.batch = {} /\ tim'.follows = tim.follows
  /\ UNCHANGED <<selects, clears>>
  /\ "select" \in tim'.batch => selects # <<>>
  /\ "clear" \in tim'.batch => clears # <<>>

TimFollows ==
  /\ tim.up /\ tim'.up /\ selects # <<>> /\ "select" \in tim.batch
  /\ tim'.follows = (IF selects[1].id = None THEN Nothing ELSE selects[1])
  /\ selects' = Tail(selects) /\ UNCHANGED clears
  /\ tim'.batch = tim.batch \ {"select"}

TimForgets ==
  /\ tim.up /\ tim'.up /\ clears # <<>> /\ tim.batch = {"clear"} /\ tim'.batch = {}
  /\ tim'.follows = Nothing /\ clears' = Tail(clears) /\ UNCHANGED selects

TimIsGone ==
  /\ ~tim'.up /\ tim'.follows = Nothing /\ tim'.batch = {}
  /\ selects' = <<>> /\ clears' = <<>>

TimIsBack ==
  /\ ~tim.up /\ tim'.follows = tim.follows /\ tim'.batch = tim.batch
  /\ UNCHANGED <<selects, clears>>

LEMMA TimCases ==
  ASSUME StateOK, TimOK, TimStep
  PROVE  /\ tim' \in TimRecords
         /\ TimFinds \/ TimFollows \/ TimForgets \/ TimIsGone \/ TimIsBack
<1>0. /\ tim \in TimRecords /\ Nothing \in Commands
      /\ tim.up \in BOOLEAN /\ tim.follows \in Commands /\ tim.batch \in SUBSET {"select", "clear"}
  BY DEF StateOK, TimRecords, Nothing, Commands, Ids
<1>1. CASE TimWaits
  <2>1. PICK arrived \in SUBSET Waiting : tim' = [tim EXCEPT !.batch = arrived]
    BY <1>1 DEF TimWaits
  <2>2. Waiting \in SUBSET {"select", "clear"}
    BY DEF Waiting
  <2>3. /\ tim' \in TimRecords /\ tim'.batch = arrived /\ tim'.follows = tim.follows
        /\ tim'.up = tim.up
    BY <1>0, <2>1, <2>2 DEF TimRecords
  <2> QED BY <1>1, <2>3 DEF TimWaits, Waiting, TimFinds
<1>2. CASE TimSelects
  <2>1. selects # <<>> /\ tim.up
    BY <1>0, <1>2 DEF TimSelects, TimOK
  <2>2. Head(selects) = selects[1] /\ selects[1] \in Commands
    BY <2>1, TailFacts DEF StateOK
  <2> DEFINE selected == IF selects[1].id = None THEN Nothing ELSE selects[1]
  <2>3. tim' = [tim EXCEPT !.batch = tim.batch \ {"select"}, !.follows = selected]
    BY <1>0, <1>2, <2>2 DEF TimSelects, TimRecords
  <2>6. selected \in Commands
    BY <1>0, <2>2
  <2> HIDE DEF selected
  <2>4. tim.batch \ {"select"} \in SUBSET {"select", "clear"}
    BY <1>0
  <2>5. /\ tim' \in TimRecords /\ tim'.batch = tim.batch \ {"select"}
        /\ tim'.follows = selected /\ tim'.up = tim.up
    BY <1>0, <2>3, <2>4, <2>6 DEF TimRecords
  <2> QED BY <1>2, <2>1, <2>5 DEF TimSelects, TimFollows, selected
<1>3. CASE TimClears
  <2>1. clears # <<>> /\ tim.up
    BY <1>0, <1>3 DEF TimClears, TimOK
  <2>2. tim' = [tim EXCEPT !.batch = {}, !.follows = Nothing]
    BY <1>3 DEF TimClears
  <2>3. /\ tim' \in TimRecords /\ tim'.batch = {} /\ tim'.follows = Nothing
        /\ tim'.up = tim.up
    BY <1>0, <2>2 DEF TimRecords
  <2> QED BY <1>3, <2>1, <2>3 DEF TimClears, TimForgets
<1>4. CASE TimDies
  BY <1>0, <1>4 DEF TimDies, TimRecords, TimIsGone
<1>5. CASE TimStarts
  <2>1. tim' = [tim EXCEPT !.up = TRUE]
    BY <1>5 DEF TimStarts
  <2>2. tim' \in TimRecords /\ tim'.batch = tim.batch /\ tim'.follows = tim.follows
    BY <1>0, <2>1 DEF TimRecords
  <2> QED BY <1>5, <2>2 DEF TimStarts, TimIsBack
<1> QED BY <1>1, <1>2, <1>3, <1>4, <1>5 DEF TimStep

\* What TIM-MARS takes comes off its queues.
LEMMA TimTypes ==
  ASSUME StateOK, TimOK, TimStep
  PROVE  /\ selects' \in Seq(Commands) /\ clears' \in Seq(Commands)
         /\ Len(selects') + Len(clears') <= Len(selects) + Len(clears)
         /\ Len(selects') <= Len(selects)
         /\ Places(selects') \subseteq Places(selects) /\ Places(clears') \subseteq Places(clears)
         /\ TimOK'
<1> USE DEF TimOK
<1>0. /\ <<>> \in Seq(Commands) /\ Len(<<>>) = 0 /\ Places(<<>>) = {}
      /\ selects \in Seq(Commands) /\ clears \in Seq(Commands)
      /\ Len(selects) \in Nat /\ Len(clears) \in Nat
  BY EmptyFacts DEF StateOK
<1>1. CASE TimFinds
  BY <1>0, <1>1 DEF TimFinds
<1>2. CASE TimFollows
  <2>1. /\ Tail(selects) \in Seq(Commands) /\ Len(Tail(selects)) = Len(selects) - 1
        /\ Places(Tail(selects)) \subseteq Places(selects)
    BY <1>0, <1>2, TailFacts DEF TimFollows
  <2> QED BY <1>0, <1>2, <2>1 DEF TimFollows
<1>3. CASE TimForgets
  <2>1. /\ Tail(clears) \in Seq(Commands) /\ Len(Tail(clears)) = Len(clears) - 1
        /\ Places(Tail(clears)) \subseteq Places(clears)
    BY <1>0, <1>3, TailFacts DEF TimForgets
  <2> QED BY <1>0, <1>3, <2>1 DEF TimForgets
<1>4. CASE TimIsGone
  BY <1>0, <1>4 DEF TimIsGone
<1>5. CASE TimIsBack
  BY <1>0, <1>5 DEF TimIsBack
<1> QED BY <1>1, <1>2, <1>3, <1>4, <1>5, TimCases

\* A command is added to one of the queues, or lost without TIM-MARS.
LEMMA CommandTypes ==
  ASSUME StateOK, NEW h \in Handlers, Command(h)
  PROVE  /\ selects' \in Seq(Commands) /\ clears' \in Seq(Commands)
         /\ Len(selects') + Len(clears') <= Len(selects) + Len(clears) + 1
         /\ selects' # selects => selects' # <<>>
         /\ clears' # clears => clears' # <<>>
         /\ ~tim.up => UNCHANGED <<selects, clears>>
<1>1. /\ selects \in Seq(Commands) /\ clears \in Seq(Commands) /\ http \in [Handlers -> HttpRecords]
      /\ Len(selects) \in Nat /\ Len(clears) \in Nat
  BY DEF StateOK
<1> DEFINE c == CommandOf(h)
<1>2. c \in Commands
  BY <1>1, CommandFacts
<1>3. \/ ~tim.up /\ UNCHANGED <<selects, clears>>
      \/ tim.up /\ UNCHANGED clears /\ selects' = Put(selects, c)
      \/ tim.up /\ UNCHANGED selects /\ clears' = Put(clears, c)
  BY <1>1, CommandFacts
<1> HIDE DEF c
<1>4. /\ Put(selects, c) \in Seq(Commands) /\ Put(selects, c) # <<>>
      /\ Len(Put(selects, c)) \in Nat /\ Len(Put(selects, c)) <= Len(selects) + 1
  BY <1>1, <1>2, PutFacts
<1>5. /\ Put(clears, c) \in Seq(Commands) /\ Put(clears, c) # <<>>
      /\ Len(Put(clears, c)) \in Nat /\ Len(Put(clears, c)) <= Len(clears) + 1
  BY <1>1, <1>2, PutFacts
<1>6. CASE ~tim.up /\ UNCHANGED <<selects, clears>>
  BY <1>1, <1>6
<1>7. CASE tim.up /\ UNCHANGED clears /\ selects' = Put(selects, c)
  BY <1>1, <1>4, <1>7
<1>8. CASE tim.up /\ UNCHANGED selects /\ clears' = Put(clears, c)
  BY <1>1, <1>5, <1>8
<1> QED BY <1>3, <1>6, <1>7, <1>8

\* An event is added to the log or to what is lost.
LEMMA RecordTypes ==
  ASSUME log \in Seq(Nat), unlogged \in SUBSET Nat, NEW n \in Nat, Record(n)
  PROVE  log' \in Seq(Nat) /\ unlogged' \in SUBSET Nat
<1>1. Append(log, n) \in Seq(Nat)
  BY AppendFacts
<1> QED BY <1>1 DEF Record

\* Every step keeps the types.
LEMMA StateStep == DInv /\ [Next]_vars => StateOK'
<1> SUFFICES ASSUME DInv, [Next]_vars PROVE StateOK'
  OBVIOUS
<1>0. StateOK /\ TimOK /\ RawOK
  BY DEF DInv
<1> USE DEF StateOK
<1>1. browser' \in {"off", "fresh", "old"}
  BY <1>0 DEF Next, Start, Control, Changed, OtherChange, Flush, Broadcast, Connect, Disconnect,
     Destroy, vars, webVars
<1>2. ASSUME NEW h \in Handlers, Quiet(h) PROVE StateOK'
  BY <1>0, <1>1, <1>2 DEF Quiet, authority, Moves
<1>3. ASSUME NEW h \in Handlers, Apply(h) PROVE StateOK'
  <2>1. http[h] \in HttpRecords
    BY <1>0
  <2>2. Target(h) \in Ids /\ None \in Ids /\ generation + 1 \in Nat
    BY <1>0, <2>1 DEF Target, HttpRecords, Ids
  <2> QED BY <1>0, <1>1, <1>3, <2>2, ApplyFacts DEF Moves
<1>4. ASSUME NEW h \in Handlers, Command(h) PROVE StateOK'
  <2>1. selects' \in Seq(Commands) /\ clears' \in Seq(Commands)
    BY <1>0, <1>4, CommandTypes DEF StateOK
  <2>2. raced' \in SUBSET Nat
    <3>1. http[h].gen \in Nat
      BY <1>0 DEF HttpRecords
    <3> QED BY <1>0, <1>4, <3>1, CommandFacts
  <2> QED BY <1>0, <1>1, <1>4, <2>1, <2>2, CommandFacts DEF Moves
<1>5. ASSUME NEW h \in Handlers, Log(h) PROVE StateOK'
  <2>1. http[h].gen \in Nat
    BY <1>0 DEF HttpRecords
  <2>2. log' \in Seq(Nat) /\ unlogged' \in SUBSET Nat
    BY <1>0, <1>5, <2>1, LogFacts, RecordTypes
  <2> QED BY <1>0, <1>1, <1>5, <2>2, LogFacts DEF Moves
<1>6. CASE Elsewhere
  <2>1. active' \in Ids
    BY <1>0, <1>6 DEF Elsewhere, TracksStep, OnTracks, PublishRaw, WriteActive, RawOK
  <2>2. /\ selects' \in Seq(Commands) /\ clears' \in Seq(Commands)
        /\ tim' \in TimRecords
    BY <1>0, <1>6, TimCases, TimTypes DEF Elsewhere, StateOK
  <2> QED BY <1>0, <1>1, <1>6, <2>1, <2>2 DEF Elsewhere
<1>7. CASE LogStartup
  <2>1. log' \in Seq(Nat) /\ unlogged' \in SUBSET Nat
    BY <1>0, <1>7, RecordTypes DEF LogStartup
  <2> QED BY <1>0, <1>1, <1>7, <2>1 DEF LogStartup
<1> QED BY <1>0, <1>2, <1>3, <1>4, <1>5, <1>6, <1>7, StepCases

\* Whatever TIM-MARS is about to take stays in the queue until it does.
LEMMA TimStepOK == DInv /\ [Next]_vars => TimOK'
<1> SUFFICES ASSUME DInv, [Next]_vars PROVE TimOK'
  OBVIOUS
<1>0. StateOK /\ TimOK
  BY DEF DInv
<1> USE DEF TimOK
<1>1. CASE UNCHANGED <<tim, selects, clears>>
  BY <1>0, <1>1
<1>2. ASSUME NEW h \in Handlers, Command(h) PROVE TimOK'
  <2>1. UNCHANGED tim /\ (selects' # selects => selects' # <<>>)
        /\ (clears' # clears => clears' # <<>>) /\ (~tim.up => UNCHANGED <<selects, clears>>)
    BY <1>0, <1>2, CommandFacts, CommandTypes DEF StateOK
  <2> QED BY <1>0, <2>1
<1>3. CASE Elsewhere
  BY <1>0, <1>1, <1>3, TimTypes DEF Elsewhere
<1> QED BY <1>0, <1>1, <1>2, <1>3, StepCases, ApplyFacts, LogFacts
  DEF Quiet, authority, StateOK, LogStartup

\* Only the node's own thread reads the focus, and publishes it once.
LEMMA RawStep == DInv /\ [Next]_vars => RawOK'
<1> SUFFICES ASSUME DInv, [Next]_vars PROVE RawOK'
  OBVIOUS
<1>0. StateOK /\ RawOK
  BY DEF DInv
<1> USE DEF RawOK
<1>1. CASE UNCHANGED <<tracks, stale, focus>>
  BY <1>0, <1>1
<1>2. ASSUME NEW h \in Handlers, Apply(h) PROVE RawOK'
  BY <1>0, <1>2, ApplyFacts DEF StateOK
<1>3. CASE OnTracks /\ UNCHANGED focus
  BY <1>0, <1>3 DEF OnTracks, ReadFocus, StateOK, Ids
<1>4. CASE PublishRaw /\ UNCHANGED focus
  BY <1>0, <1>4 DEF PublishRaw, Ids
<1>5. CASE WriteActive /\ UNCHANGED focus
  BY <1>0, <1>5 DEF WriteActive, Ids
<1> QED
  BY <1>0, <1>1, <1>2, <1>3, <1>4, <1>5, StepCases, CommandFacts, LogFacts
  DEF Quiet, authority, StateOK, Elsewhere, TracksStep, LogStartup

\* No request gets or loses its number.
GensSame == UNCHANGED generation /\ \A g \in Handlers : http'[g].gen = http[g].gen

LEMMA GensFacts ==
  ASSUME StateOK, NEW h \in Handlers, Quiet(h) \/ Command(h) \/ Log(h)
  PROVE  GensSame /\ Numbered' = Numbered
<1>1. GensSame
  <2>1. KeepsGen(h) /\ UNCHANGED generation /\ \A g \in Handlers : g # h => http'[g] = http[g]
    BY CommandFacts, LogFacts DEF StateOK, Quiet, authority, Moves
  <2> QED BY <2>1 DEF GensSame, KeepsGen
<1> QED BY <1>1 DEF GensSame, Numbered

\* Numbers are given one after the other, under the lock.
LEMMA NumbersStep == DInv /\ [Next]_vars => NumbersOK'
<1> SUFFICES ASSUME DInv, [Next]_vars PROVE NumbersOK'
  OBVIOUS
<1>0. StateOK /\ NumbersOK /\ http \in [Handlers -> HttpRecords] /\ generation \in Nat
  BY DEF DInv, StateOK
<1>1. CASE UNCHANGED <<http, generation>>
  BY <1>0, <1>1 DEF NumbersOK, Numbered
<1> DEFINE Stage(h) ==
      /\ http[h].at \in {"new", "asked", "apply"} => http[h].gen = 0
      /\ http[h].at \in {"command", "log", "call", "waiting", "raised"} => http[h].gen # 0
      /\ http[h].at \in {"asked", "apply", "command"} /\ http[h].kind = "select" =>
           http[h].target # None
<1>2. ASSUME NEW h \in Handlers, Quiet(h) \/ Command(h) \/ Log(h) PROVE NumbersOK'
  <2>1. GensSame /\ Numbered' = Numbered
    BY <1>0, <1>2, GensFacts
  <2>2. \A g \in Handlers : g # h => http'[g] = http[g]
    BY <1>0, <1>2, CommandFacts, LogFacts DEF Quiet, Moves
  <2>3. Stage(h)'
    <3>1. Stage(h)
      BY <1>0 DEF NumbersOK
    <3>2. CASE Quiet(h)
      BY <3>1, <3>2 DEF Quiet, Moves, Same, KeepsGen
    <3>3. CASE Command(h)
      BY <1>0, <3>1, <3>3, CommandFacts DEF Moves, KeepsGen
    <3>4. CASE Log(h)
      BY <1>0, <3>1, <3>4, LogFacts DEF Moves, KeepsGen
    <3> QED BY <1>2, <3>2, <3>3, <3>4
  <2>4. \A g \in Handlers : Stage(g)'
    BY <1>0, <2>2, <2>3 DEF NumbersOK
  <2>5. UNCHANGED generation /\ \A g \in Numbered : http'[g].gen = http[g].gen
    BY <2>1 DEF GensSame, Numbered
  <2> QED BY <1>0, <2>1, <2>4, <2>5 DEF NumbersOK
<1>3. ASSUME NEW h \in Handlers, Apply(h) PROVE NumbersOK'
  <2>1. /\ http[h].at = "apply" /\ http'[h].at = "command" /\ Same(h)
        /\ http'[h].gen = generation + 1 /\ generation' = generation + 1
        /\ \A g \in Handlers : g # h => http'[g] = http[g]
    BY <1>0, <1>3, ApplyFacts DEF Moves
  <2>2. h \notin Numbered /\ Numbered' = Numbered \cup {h}
    BY <1>0, <2>1 DEF NumbersOK, Numbered
  <2>3. Cardinality(Numbered') = generation + 1
    <3>1. Numbered \subseteq Handlers /\ h \in Handlers \ Numbered
      BY <2>2 DEF Numbered
    <3>2. Cardinality(Numbered \cup {h}) = Cardinality(Numbered) + 1
      BY <3>1, FiniteFacts
    <3> QED BY <1>0, <2>2, <3>2 DEF NumbersOK
  <2>4. \A g \in Handlers : Stage(g)'
    <3>1. ASSUME NEW g \in Handlers, g # h PROVE Stage(g)'
      BY <1>0, <2>1, <3>1 DEF NumbersOK
    <3>2. Stage(h)'
      BY <1>0, <2>1 DEF NumbersOK, Same
    <3> QED BY <3>1, <3>2
  <2>5. \A g \in Numbered : http'[g].gen = http[g].gen /\ http[g].gen \in 1 .. generation
    BY <1>0, <2>1, <2>2 DEF NumbersOK, Numbered
  <2>6. \A n \in 1 .. generation' : \E g \in Numbered' : http'[g].gen = n
    <3>1. ASSUME NEW n \in 1 .. generation PROVE \E g \in Numbered' : http'[g].gen = n
      BY <1>0, <2>2, <2>5 DEF NumbersOK
    <3>2. \A n \in 1 .. generation' : n \in 1 .. generation \/ n = generation + 1
      BY <1>0, <2>1
    <3> QED BY <2>1, <2>2, <3>1, <3>2
  <2>7. \A f, g \in Numbered' : http'[f].gen = http'[g].gen => f = g
    BY <1>0, <2>1, <2>2, <2>5 DEF NumbersOK
  <2>8. \A g \in Numbered' : http'[g].gen \in 1 .. generation'
    BY <1>0, <2>1, <2>2, <2>5
  <2> HIDE DEF Stage
  <2> QED BY <2>1, <2>3, <2>4, <2>6, <2>7, <2>8 DEF NumbersOK, Stage
<1> QED BY <1>0, <1>1, <1>2, <1>3, StepCases DEF Elsewhere, LogStartup

\* One event more, that was neither written nor lost before.
LEMMA RecordFacts ==
  ASSUME log \in Seq(Nat), unlogged \in SUBSET Nat, NoRepeats, Logged \cap unlogged = {},
         NEW n \in Nat, n \notin Logged \cup unlogged, Record(n)
  PROVE  /\ NoRepeats' /\ Logged' \cap unlogged' = {}
         /\ Logged' \cup unlogged' = Logged \cup unlogged \cup {n}
<1>1. CASE log' = Append(log, n) /\ UNCHANGED unlogged
  <2> DEFINE longer == Append(log, n)
  <2>1. /\ Len(longer) = Len(log) + 1 /\ Len(log) \in Nat
        /\ Places(longer) = Places(log) \cup {n}
        /\ longer[Len(log) + 1] = n /\ \A i \in 1 .. Len(log) : longer[i] = log[i]
    BY AppendFacts
  <2>2. log' = longer
    BY <1>1
  <2> HIDE DEF longer
  <2>3. Logged = Places(log) /\ Logged' = Places(longer)
    BY <2>2 DEF Logged, Places
  <2>4. \A i \in 1 .. Len(log) : log[i] # n
    BY <2>3 DEF Places
  <2>5. ASSUME NEW i \in 1 .. Len(longer), NEW j \in 1 .. Len(longer), longer[i] = longer[j]
        PROVE  i = j
    <3>1. /\ i \in 1 .. Len(log) \/ i = Len(log) + 1
          /\ j \in 1 .. Len(log) \/ j = Len(log) + 1
      BY <2>1
    <3>2. CASE i \in 1 .. Len(log) /\ j \in 1 .. Len(log)
      BY <2>1, <2>5, <3>2 DEF NoRepeats
    <3>3. CASE i = Len(log) + 1 \/ j = Len(log) + 1
      BY <2>1, <2>4, <2>5, <3>1, <3>3
    <3> QED BY <3>1, <3>2, <3>3
  <2>6. NoRepeats'
    BY <2>2, <2>5 DEF NoRepeats
  <2> QED BY <1>1, <2>1, <2>3, <2>6
<1>2. CASE unlogged' = unlogged \cup {n} /\ UNCHANGED log
  BY <1>2 DEF NoRepeats, Logged
<1> QED BY <1>1, <1>2 DEF Record

\* Every change of authority is logged once or lost once, and sends at most one
\* command.
LEMMA CountsStep == DInv /\ [Next]_vars => CountsOK'
<1> SUFFICES ASSUME DInv, [Next]_vars PROVE CountsOK'
  OBVIOUS
<1>0. /\ StateOK /\ NumbersOK /\ CountsOK /\ TimOK
      /\ http \in [Handlers -> HttpRecords] /\ generation \in Nat
      /\ Len(selects) \in Nat /\ Len(clears) \in Nat
      /\ log \in Seq(Nat) /\ unlogged \in SUBSET Nat
  BY DEF DInv, StateOK
<1>1. Sent \subseteq Handlers /\ Recorded \subseteq Handlers
  BY DEF Sent, Recorded, Numbered
<1>2. Cardinality(Sent) \in Nat
  BY <1>1, FiniteFacts
<1>3. ASSUME UNCHANGED <<log, unlogged, phase>>, Recorded' = Recorded,
             \A g \in Recorded : http'[g].gen = http[g].gen
      PROVE  NoRepeats' /\ Logged' \cap unlogged' = {} /\ Logged' \cup unlogged' = Events'
  <2>1. Logged' = Logged /\ NoRepeats' = NoRepeats /\ Events' = Events
    BY <1>3 DEF Logged, NoRepeats, Events
  <2> QED BY <1>0, <1>3, <2>1 DEF CountsOK
<1>4. ASSUME NEW h \in Handlers, Quiet(h) PROVE CountsOK'
  <2>1. /\ GensSame /\ Numbered' = Numbered
        /\ UNCHANGED <<log, unlogged, phase, selects, clears>>
        /\ \A g \in Handlers : g # h => http'[g] = http[g]
    BY <1>0, <1>4, GensFacts DEF Quiet, authority, Moves
  <2>2. h \in Recorded' <=> h \in Recorded
    BY <1>0, <1>4, <2>1 DEF Quiet, Moves, Recorded, NumbersOK, Numbered
  <2>3. Recorded' = Recorded
    BY <2>1, <2>2 DEF Recorded, Numbered
  <2>4. Sent' = Sent \/ (h \notin Sent /\ Sent' = Sent \cup {h})
    <3>1. h \in Sent => h \in Sent'
      BY <1>4, <2>1 DEF Quiet, Moves, Sent
    <3> QED BY <2>1, <3>1 DEF Sent, Numbered
  <2>5. Cardinality(Sent') \in Nat /\ Cardinality(Sent) <= Cardinality(Sent')
    BY <1>1, <1>2, <2>4, FiniteFacts
  <2>6. \A g \in Recorded : http'[g].gen = http[g].gen
    BY <1>1, <2>1 DEF GensSame
  <2>7. Len(selects') + Len(clears') <= Cardinality(Sent')
    BY <1>0, <1>2, <2>1, <2>5 DEF CountsOK
  <2> QED BY <1>3, <2>1, <2>3, <2>6, <2>7 DEF CountsOK
<1>5. ASSUME NEW h \in Handlers, Apply(h) PROVE CountsOK'
  <2>1. /\ http[h].at = "apply" /\ http'[h].at = "command" /\ http[h].gen = 0
        /\ UNCHANGED <<log, unlogged, phase, selects, clears>>
        /\ \A g \in Handlers : g # h => http'[g] = http[g]
    BY <1>0, <1>5, ApplyFacts DEF Moves, NumbersOK
  <2>2. Recorded' = Recorded /\ Sent' = Sent /\ h \notin Recorded
    BY <2>1 DEF Recorded, Sent, Numbered
  <2>3. \A g \in Recorded : http'[g].gen = http[g].gen
    BY <1>1, <2>1, <2>2
  <2> QED BY <1>0, <1>3, <2>1, <2>2, <2>3 DEF CountsOK
<1>6. ASSUME NEW h \in Handlers, Command(h) PROVE CountsOK'
  <2>1. /\ GensSame /\ Numbered' = Numbered /\ UNCHANGED <<log, unlogged, phase>>
        /\ http[h].at = "command" /\ http'[h].at = "log"
        /\ \A g \in Handlers : g # h => http'[g] = http[g]
    BY <1>0, <1>6, GensFacts, CommandFacts DEF Moves
  <2>2. h \in Numbered /\ h \notin Sent
    BY <1>0, <2>1 DEF NumbersOK, Numbered, Sent
  <2>3. Recorded' = Recorded /\ Sent' = Sent \cup {h}
    BY <2>1, <2>2 DEF Recorded, Sent, Numbered
  <2>4. Cardinality(Sent') = Cardinality(Sent) + 1
    BY <1>1, <2>2, <2>3, FiniteFacts
  <2>5. \A g \in Recorded : http'[g].gen = http[g].gen
    BY <1>1, <2>1 DEF GensSame
  <2>6. Len(selects') + Len(clears') <= Cardinality(Sent')
    <3>1. Len(selects') + Len(clears') <= Len(selects) + Len(clears) + 1
      BY <1>0, <1>6, CommandTypes
    <3>2. Len(selects') \in Nat /\ Len(clears') \in Nat
      BY <1>0, <1>6, CommandTypes
    <3>3. Len(selects) + Len(clears) <= Cardinality(Sent)
      BY <1>0 DEF CountsOK
    <3> QED BY <1>0, <1>2, <2>4, <3>1, <3>2, <3>3
  <2> QED BY <1>3, <2>1, <2>3, <2>5, <2>6 DEF CountsOK
<1>7. ASSUME NEW h \in Handlers, Log(h) PROVE CountsOK'
  <2>1. /\ GensSame /\ Numbered' = Numbered /\ Record(http[h].gen)
        /\ UNCHANGED <<phase, selects, clears>>
        /\ http[h].at = "log" /\ http'[h].at \in {"call", "done"}
        /\ \A g \in Handlers : g # h => http'[g] = http[g]
    BY <1>0, <1>7, GensFacts, LogFacts DEF Moves
  <2>2. h \in Numbered /\ h \notin Recorded
    BY <1>0, <2>1 DEF NumbersOK, Numbered, Recorded
  <2>3. Sent' = Sent /\ Recorded' = Recorded \cup {h}
    BY <2>1, <2>2 DEF Recorded, Sent, Numbered
  <2>4. http[h].gen \in Nat /\ http[h].gen \notin Events
    <3>1. http[h].gen \in Nat /\ http[h].gen # 0
      BY <1>0, <2>2 DEF HttpRecords, Numbered
    <3>2. \A g \in Recorded : http[g].gen # http[h].gen
      BY <1>0, <2>2 DEF NumbersOK, Recorded
    <3> QED BY <3>1, <3>2 DEF Events
  <2>5. /\ NoRepeats' /\ Logged' \cap unlogged' = {}
        /\ Logged' \cup unlogged' = Events \cup {http[h].gen}
    <3>1. NoRepeats /\ Logged \cap unlogged = {} /\ Logged \cup unlogged = Events
      BY <1>0 DEF CountsOK
    <3> QED BY <1>0, <2>1, <2>4, <3>1, RecordFacts
  <2>6. Events' = Events \cup {http[h].gen}
    <3>1. \A g \in Recorded' : http'[g].gen = http[g].gen
      BY <1>1, <2>1, <2>3 DEF GensSame
    <3>2. {http'[g].gen : g \in Recorded'} = {http[g].gen : g \in Recorded} \cup {http[h].gen}
      BY <2>3, <3>1
    <3> QED BY <2>1, <3>2 DEF Events
  <2> QED BY <1>0, <2>1, <2>3, <2>5, <2>6 DEF CountsOK
<1>8. CASE LogStartup
  <2>1. /\ UNCHANGED <<http, selects, clears>> /\ Recorded' = Recorded /\ Sent' = Sent
        /\ phase = "publishing" /\ phase' = "up" /\ Record(0)
    BY <1>8 DEF LogStartup, Recorded, Sent, Numbered
  <2>2. 0 \notin Events /\ Events' = Events \cup {0}
    BY <2>1 DEF Events, Recorded, Numbered
  <2>3. /\ NoRepeats' /\ Logged' \cap unlogged' = {}
        /\ Logged' \cup unlogged' = Events \cup {0}
    <3>1. NoRepeats /\ Logged \cap unlogged = {} /\ Logged \cup unlogged = Events
      BY <1>0 DEF CountsOK
    <3>2. 0 \in Nat
      OBVIOUS
    <3> QED BY <1>0, <2>1, <2>2, <3>1, <3>2, RecordFacts
  <2> QED BY <1>0, <2>1, <2>2, <2>3 DEF CountsOK
<1>9. CASE Elsewhere
  <2>1. UNCHANGED <<http, log, unlogged>> /\ Recorded' = Recorded /\ Sent' = Sent
    BY <1>9 DEF Elsewhere, Recorded, Sent, Numbered
  <2>2. Len(selects') + Len(clears') <= Len(selects) + Len(clears)
        /\ Len(selects') \in Nat /\ Len(clears') \in Nat
    <3>1. CASE TimStep
      <4>1. /\ selects' \in Seq(Commands) /\ clears' \in Seq(Commands)
            /\ Len(selects') + Len(clears') <= Len(selects) + Len(clears)
        BY <1>0, <3>1, TimTypes
      <4>2. Len(selects') \in Nat /\ Len(clears') \in Nat
        BY <4>1, LenProperties
      <4> QED BY <4>1, <4>2
    <3>2. CASE UNCHANGED <<selects, clears>>
      BY <1>0, <3>2
    <3> QED BY <1>9, <3>1, <3>2 DEF Elsewhere
  <2>3. Len(selects') + Len(clears') <= Cardinality(Sent)
    BY <1>0, <1>2, <2>2 DEF CountsOK
  <2>4. Events' = Events
    BY <1>9, <2>1 DEF Events, Elsewhere
  <2>5. Logged' = Logged /\ NoRepeats' = NoRepeats
    BY <2>1 DEF Logged, NoRepeats
  <2> QED BY <1>0, <2>1, <2>3, <2>4, <2>5 DEF CountsOK
<1> QED BY <1>0, <1>4, <1>5, <1>6, <1>7, <1>8, <1>9, StepCases

\* What one client has under way, as nobody else has.
LEMMA OneByOneStep ==
  ASSUME DInv, client = "one", [Next]_vars
  PROVE  OneByOne'
<1>0. /\ StateOK /\ NumbersOK /\ TimOK /\ OneByOne
      /\ http \in [Handlers -> HttpRecords] /\ generation \in Nat
      /\ selects \in Seq(Commands) /\ clears \in Seq(Commands)
  BY DEF DInv, OneClient, StateOK
<1>1. \A c \in Places(selects) \cup Places(clears) : c.gen \in Nat /\ c.gen <= generation
  <2>1. Places(selects) \subseteq Commands /\ Places(clears) \subseteq Commands
    BY <1>0, PlaceFacts
  <2> QED BY <1>0, <2>1 DEF OneByOne, Commands
<1> DEFINE Only(h) == \A g \in Handlers : http'[g].at \notin {"new", "done", "raised"} => g = h
<1>2. ASSUME NEW h \in Handlers, Quiet(h) PROVE OneByOne'
  <2>1. /\ UNCHANGED <<generation, focus, selects, clears>>
        /\ \A g \in Handlers : g # h => http'[g] = http[g]
    BY <1>2 DEF Quiet, authority, Moves
  <2>2. Only(h)
    <3>1. CASE Arrive(h)
      <4> DEFINE busy == {g \in Handlers : UnderWay(g)}
      <4>1. Cardinality(busy) < 1
        BY <3>1 DEF Arrive
      <4>2. busy = {}
        BY <4>1, FiniteFacts
      <4> QED BY <2>1, <4>2 DEF UnderWay
    <3>2. CASE ~Arrive(h)
      <4>1. UnderWay(h)
        BY <1>2, <3>2 DEF Quiet, Moves, UnderWay
      <4> QED BY <1>0, <2>1, <4>1 DEF OneByOne, UnderWay
    <3> QED BY <3>1, <3>2
  <2>3. http'[h].at # "command"
    BY <1>2 DEF Quiet, Moves
  <2> QED BY <1>0, <2>1, <2>2, <2>3 DEF OneByOne, UnderWay
<1>3. ASSUME NEW h \in Handlers, Apply(h) PROVE OneByOne'
  <2>1. /\ http[h].at = "apply" /\ http'[h].at = "command" /\ Same(h)
        /\ http'[h].gen = generation + 1 /\ generation' = generation + 1
        /\ focus' = Target(h) /\ UNCHANGED <<selects, clears>>
        /\ \A g \in Handlers : g # h => http'[g] = http[g]
    BY <1>0, <1>3, ApplyFacts DEF Moves
  <2>2. Only(h)
    BY <1>0, <2>1 DEF OneByOne, UnderWay
  <2>3. Target(h)' = Target(h)
    BY <2>1 DEF Target, Same
  <2>5. \A c \in Places(selects) \cup Places(clears) : c.gen < generation + 1
    BY <1>0, <1>1
  <2>6. \A g \in Handlers : http'[g].at = "command" => g = h
    BY <2>2
  <2>8. \A f, g \in Handlers : UnderWay(f)' /\ UnderWay(g)' => f = g
    BY <2>2 DEF UnderWay
  <2>9. \A g \in Handlers : http'[g].at = "command" =>
          /\ http'[g].gen = generation' /\ focus' = Target(g)'
          /\ \A c \in Places(selects') \cup Places(clears') : c.gen < generation'
    BY <2>1, <2>3, <2>5, <2>6
  <2>11. \A c \in Places(selects') \cup Places(clears') : c.gen <= generation'
    BY <1>0, <1>1, <2>1
  <2> HIDE DEF Only
  <2> QED BY <1>0, <2>1, <2>8, <2>9, <2>11 DEF OneByOne
<1>4. ASSUME NEW h \in Handlers, Command(h) PROVE OneByOne'
  <2>1. /\ http[h].at = "command" /\ http'[h].at = "log" /\ UNCHANGED <<generation, focus>>
        /\ \A g \in Handlers : g # h => http'[g] = http[g]
    BY <1>0, <1>4, CommandFacts DEF Moves
  <2>2. Only(h)
    BY <1>0, <2>1 DEF OneByOne, UnderWay
  <2>3. \A g \in Handlers : http'[g].at \notin {"asked", "apply", "command"}
    BY <2>1, <2>2
  <2> DEFINE c == CommandOf(h)
  <2>4. c \in Commands /\ c.gen = generation
    BY <1>0, <1>4, <2>1, CommandFacts DEF OneByOne
  <2>5. \/ UNCHANGED <<selects, clears>>
        \/ UNCHANGED clears /\ selects' = Put(selects, c)
        \/ UNCHANGED selects /\ clears' = Put(clears, c)
    BY <1>0, <1>4, CommandFacts
  <2> HIDE DEF c
  <2>7. Places(Put(selects, c)) \subseteq Places(selects) \cup {c}
    BY <1>0, <2>4, PutFacts
  <2>8. Places(Put(clears, c)) \subseteq Places(clears) \cup {c}
    BY <1>0, <2>4, PutFacts
  <2>9. \A d \in Places(selects') \cup Places(clears') : d.gen <= generation
    <3>1. Places(selects') \cup Places(clears') \subseteq Places(selects) \cup Places(clears) \cup {c}
      BY <2>5, <2>7, <2>8
    <3> QED BY <1>0, <1>1, <2>4, <3>1
  <2> QED BY <2>1, <2>2, <2>3, <2>9 DEF OneByOne, UnderWay
<1>5. ASSUME NEW h \in Handlers, Log(h) PROVE OneByOne'
  <2>1. /\ http[h].at = "log" /\ http'[h].at \in {"call", "done"}
        /\ UNCHANGED <<generation, focus, selects, clears>>
        /\ \A g \in Handlers : g # h => http'[g] = http[g]
    BY <1>0, <1>5, LogFacts DEF Moves
  <2>2. Only(h)
    BY <1>0, <2>1 DEF OneByOne, UnderWay
  <2>3. \A g \in Handlers : http'[g].at \notin {"asked", "apply", "command"}
    BY <2>1, <2>2
  <2> QED BY <1>0, <2>1, <2>2, <2>3 DEF OneByOne, UnderWay
<1>6. CASE Elsewhere
  <2>1. UNCHANGED <<http, generation, focus>>
    BY <1>6 DEF Elsewhere
  <2>2. Places(selects') \subseteq Places(selects) /\ Places(clears') \subseteq Places(clears)
    BY <1>0, <1>6, TimTypes DEF Elsewhere
  <2> QED BY <1>0, <2>1, <2>2 DEF OneByOne, UnderWay, Target
<1>7. CASE LogStartup
  BY <1>0, <1>7 DEF LogStartup, OneByOne, UnderWay, Target
<1> QED BY <1>0, <1>2, <1>3, <1>4, <1>5, <1>6, <1>7, StepCases

\* After the last change was sent, TIM-MARS has or will have what it asks for.
LEMMA LastStep ==
  ASSUME DInv, client = "one", [Next]_vars
  PROVE  LastWord'
<1>0. /\ StateOK /\ NumbersOK /\ TimOK /\ OneByOne /\ LastWord
      /\ http \in [Handlers -> HttpRecords] /\ generation \in Nat
      /\ selects \in Seq(Commands) /\ clears \in Seq(Commands)
  BY DEF DInv, OneClient, StateOK
<1> DEFINE Settled == (\A h \in Handlers : http[h].at # "command") /\ ~LastRaised
           Holds ==
             /\ focus = None /\ generation \notin raced =>
                  selects = <<>> /\ (tim.follows # Nothing => clears # <<>>)
             /\ focus # None /\ selects = <<>> => tim.follows \in {Nothing, LastCommand}
             /\ focus # None /\ selects # <<>> => selects[Len(selects)] = LastCommand
<1>1. ASSUME Settled, UNCHANGED <<focus, generation, raced, tim, selects, clears>>
      PROVE  LastWord'
  <2>1. Holds
    BY <1>0, <1>1 DEF LastWord
  <2> QED BY <1>1, <2>1 DEF LastWord, LastCommand
<1>2. ASSUME NEW h \in Handlers, Quiet(h) \/ Log(h) PROVE LastWord'
  <2>1. /\ UNCHANGED <<focus, generation, raced, tim, selects, clears>> /\ KeepsGen(h)
        /\ \A g \in Handlers : g # h => http'[g] = http[g]
    BY <1>0, <1>2, LogFacts DEF Quiet, authority, Moves
  <2>2. CASE http[h].at \in {"command", "raised"}
    <3>1. http[h].at = "command" /\ http'[h].at = "raised"
      BY <1>0, <1>2, <2>2, LogFacts DEF Quiet, Moves
    <3>2. LastRaised'
      BY <1>0, <2>1, <3>1 DEF OneByOne, LastRaised, KeepsGen
    <3> QED BY <3>2 DEF LastWord
  <2>3. CASE http[h].at \notin {"command", "raised"}
    <3>1. http'[h].at \notin {"command", "raised"}
      BY <1>0, <1>2, <2>3, LogFacts DEF Quiet, Moves
    <3>2. Settled' <=> Settled
      BY <2>1, <2>3, <3>1 DEF LastRaised
    <3>3. ~Settled' => LastWord'
      BY DEF LastWord
    <3> HIDE DEF Settled
    <3> QED BY <1>1, <2>1, <3>2, <3>3
  <2> QED BY <2>2, <2>3
<1>3. ASSUME NEW h \in Handlers, Apply(h) PROVE LastWord'
  BY <1>0, <1>3, ApplyFacts DEF Moves, LastWord
<1>4. ASSUME NEW h \in Handlers, Command(h) PROVE LastWord'
  <2>1. /\ http[h].gen = generation /\ focus = Target(h)
        /\ UNCHANGED <<tim, focus, generation>>
    BY <1>0, <1>4, CommandFacts DEF Moves, OneByOne
  <2> DEFINE c == CommandOf(h)
  <2>2. c \in Commands /\ c = LastCommand
    BY <1>0, <1>4, <2>1, CommandFacts DEF LastCommand, CommandOf
  <2>3. \/ ~tim.up /\ UNCHANGED <<selects, clears>>
        \/ focus # None /\ UNCHANGED clears /\ selects' = Put(selects, c)
        \/ focus = None /\ UNCHANGED selects /\ clears' = Put(clears, c)
    BY <1>0, <1>4, <2>1, CommandFacts
  <2>4. focus = None /\ selects # <<>> => generation \in raced'
    BY <1>0, <1>4, <2>1, CommandFacts
  <2>5. LastCommand' = LastCommand
    BY <2>1 DEF LastCommand
  <2> HIDE DEF c
  <2>6. Put(selects, c) # <<>> /\ Put(selects, c)[Len(Put(selects, c))] = c
    BY <1>0, <2>2, PutFacts
  <2>7. Put(clears, c) # <<>>
    BY <1>0, <2>2, PutFacts
  <2>8. CASE ~tim.up /\ UNCHANGED <<selects, clears>>
    <3>1. selects = <<>> /\ tim.follows = Nothing
      BY <1>0, <2>8 DEF TimOK
    <3> QED BY <2>1, <2>8, <3>1 DEF LastWord
  <2>9. CASE focus # None /\ UNCHANGED clears /\ selects' = Put(selects, c)
    BY <2>1, <2>2, <2>5, <2>6, <2>9 DEF LastWord
  <2>10. CASE focus = None /\ UNCHANGED selects /\ clears' = Put(clears, c)
    BY <2>1, <2>4, <2>7, <2>10 DEF LastWord
  <2> QED BY <2>3, <2>8, <2>9, <2>10
<1>5. CASE LogStartup
  <2>1. UNCHANGED <<focus, generation, raced, tim, selects, clears, http>>
    BY <1>5 DEF LogStartup
  <2> QED BY <1>0, <2>1 DEF LastWord, LastCommand, LastRaised
<1>6. CASE Elsewhere
  <2>1. UNCHANGED <<focus, generation, raced, http>>
    BY <1>6 DEF Elsewhere
  <2>2. Settled' = Settled /\ LastCommand' = LastCommand
    BY <2>1 DEF LastRaised, LastCommand
  <2>3. ~Settled => LastWord'
    BY <2>2 DEF LastWord
  <2>4. Settled => Holds
    BY <1>0 DEF LastWord
  <2>5. Settled /\ Holds' => LastWord'
    BY DEF LastWord
  <2> HIDE DEF Settled
  <2>6. ASSUME Holds, UNCHANGED <<tim, selects, clears>> PROVE Holds'
    BY <2>1, <2>2, <2>6
  <2>7. ASSUME Holds, TimStep PROVE Holds'
    <3>1. CASE TimFinds \/ TimIsBack
      BY <2>1, <2>2, <2>7, <3>1 DEF TimFinds, TimIsBack
    <3>2. CASE TimFollows
      <4>1. focus # None \/ generation \in raced
        BY <2>7, <3>2 DEF TimFollows
      <4>2. selects # <<>> /\ selects' = Tail(selects) /\ Head(selects) = selects[1]
        BY <3>2 DEF TimFollows
      <4>3. /\ Tail(selects) = <<>> => selects[1] = selects[Len(selects)]
            /\ Tail(selects) # <<>> => Tail(selects)[Len(Tail(selects))] = selects[Len(selects)]
        <5>1. selects[1] \in Commands
          BY <1>0, <4>2, FirstIn
        <5> QED BY <1>0, <4>2, <5>1, LastFacts
      <4>4. focus # None => selects[Len(selects)] = LastCommand
        BY <2>7, <4>2
      <4>5. tim'.follows \in {Nothing, selects[1]}
        BY <3>2 DEF TimFollows
      <4> QED BY <2>1, <2>2, <4>1, <4>2, <4>3, <4>4, <4>5
    <3>3. CASE TimForgets \/ TimIsGone
      BY <2>1, <2>2, <2>7, <3>3 DEF TimForgets, TimIsGone
    <3> QED BY <1>0, <2>7, <3>1, <3>2, <3>3, TimCases
  <2>8. TimStep \/ UNCHANGED <<tim, selects, clears>>
    BY <1>6 DEF Elsewhere
  <2> HIDE DEF Holds
  <2> QED BY <2>3, <2>4, <2>5, <2>6, <2>7, <2>8
<1> HIDE DEF Settled, Holds
<1> QED BY <1>0, <1>2, <1>3, <1>4, <1>5, <1>6, StepCases

\* What was revoked stays revoked: later selections have later numbers.
LEMMA RevokedStep ==
  ASSUME DInv, client = "one", [Next]_vars, NEW g \in Nat, Revoked(g),
         \A h \in Handlers : Command(h) => http[h].gen > g
  PROVE  Revoked(g)'
<1>0. /\ StateOK /\ TimOK /\ OneByOne
      /\ http \in [Handlers -> HttpRecords]
      /\ selects \in Seq(Commands) /\ clears \in Seq(Commands)
  BY DEF DInv, OneClient, StateOK
<1>1. CASE UNCHANGED <<tim, selects, clears>>
  BY <1>1 DEF Revoked
<1>2. ASSUME NEW h \in Handlers, Command(h) PROVE Revoked(g)'
  <2> DEFINE c == CommandOf(h)
  <2>1. UNCHANGED tim /\ c \in Commands /\ c.gen > g
    BY <1>0, <1>2, CommandFacts
  <2>2. \/ UNCHANGED <<selects, clears>>
        \/ UNCHANGED clears /\ selects' = Put(selects, c)
        \/ UNCHANGED selects /\ clears' = Put(clears, c)
    BY <1>0, <1>2, CommandFacts
  <2>3. c.gen \in Nat
    BY <2>1 DEF Commands
  <2> HIDE DEF c
  <2>4. Places(Put(selects, c)) \subseteq Places(selects) \cup {c}
    BY <1>0, <2>1, PutFacts
  <2>5. c \in Places(Put(clears, c))
    BY <1>0, <2>1, PutFacts
  <2>6. c.gen >= g
    BY <2>1, <2>3
  <2>7. CASE UNCHANGED clears
    <3>1. Places(selects') \subseteq Places(selects) \cup {c}
      BY <2>2, <2>4, <2>7
    <3> QED BY <2>1, <2>7, <3>1 DEF Revoked
  <2>8. CASE UNCHANGED selects /\ clears' = Put(clears, c)
    <3>1. \E d \in Places(clears') : d.gen >= g
      BY <2>5, <2>6, <2>8
    <3> QED BY <2>8, <3>1 DEF Revoked
  <2> QED BY <2>2, <2>7, <2>8
<1>3. CASE TimStep
  <2>1. CASE TimFinds \/ TimIsBack
    BY <2>1 DEF TimFinds, TimIsBack, Revoked
  <2>2. CASE TimFollows
    <3>1. Places(selects') \subseteq Places(selects) /\ selects[1] \in Places(selects)
      BY <1>0, <2>2, TailFacts DEF TimFollows
    <3> QED BY <2>2, <3>1 DEF TimFollows, Revoked
  <2>3. CASE TimForgets
    BY <2>3 DEF TimForgets, Revoked
  <2>4. CASE TimIsGone
    <3>1. Places(selects') = {}
      BY <2>4 DEF TimIsGone, Places
    <3> QED BY <2>4, <3>1 DEF TimIsGone, Revoked
  <2> QED BY <1>0, <1>3, <2>1, <2>2, <2>3, <2>4, TimCases
<1> QED BY <1>0, <1>1, <1>2, <1>3, StepCases, ApplyFacts, LogFacts
  DEF Quiet, authority, Elsewhere, StateOK, LogStartup

\* A model or tracker changes only after its revocation was sent.
LEMMA SwitchStep ==
  ASSUME DInv, client = "one", [Next]_vars
  PROVE  SwitchesRevoke'
<1>0. /\ StateOK /\ NumbersOK /\ TimOK /\ OneByOne /\ SwitchesRevoke
      /\ http \in [Handlers -> HttpRecords] /\ generation \in Nat
      /\ selects \in Seq(Commands) /\ clears \in Seq(Commands)
  BY DEF DInv, OneClient, StateOK
<1> DEFINE Cut(h) ==
      \/ h \in service \/ http[h].at \in {"call", "waiting"}
      \/ http[h].at = "log" /\ http[h].kind = "switch"
<1>9. raced \subseteq raced'
  BY <1>0, StepCases, ApplyFacts, CommandFacts, LogFacts
  DEF Quiet, authority, Elsewhere, LogStartup
<1>1. ASSUME NEW h \in Handlers, Cut(h)
      PROVE  /\ http[h].gen # 0 /\ http[h].at # "command"
             /\ \E n \in Nat : n = http[h].gen /\ (n \in raced' \/ Revoked(n)')
  <2>1. /\ http[h].gen \in Nat /\ http[h].gen # 0 /\ http[h].at # "command"
        /\ http[h].gen \in raced \/ Revoked(http[h].gen)
    BY <1>0, <1>1 DEF SwitchesRevoke, HttpRecords
  <2>2. ASSUME NEW k \in Handlers, Command(k) PROVE http[k].gen > http[h].gen
    <3>1. http[k].at = "command" /\ http[k].gen = generation /\ generation # 0
      BY <1>0, <2>2, CommandFacts DEF Moves, OneByOne, NumbersOK
    <3>2. k # h /\ k \in Numbered /\ h \in Numbered
      BY <2>1, <3>1 DEF Numbered
    <3>3. http[h].gen # http[k].gen /\ http[h].gen \in 1 .. generation
      BY <1>0, <3>2 DEF NumbersOK
    <3> QED BY <1>0, <3>1, <3>3
  <2>3. ASSUME NEW n \in Nat, n = http[h].gen, Revoked(n) PROVE Revoked(n)'
    BY <2>2, <2>3, RevokedStep
  <2>4. \E n \in Nat : n = http[h].gen /\ (n \in raced' \/ Revoked(n)')
    BY <1>9, <2>1, <2>3
  <2> QED BY <2>1, <2>4
<1> DEFINE Kept(h) ==
      Cut(h)' => /\ http'[h].gen # 0 /\ http'[h].at # "command"
                 /\ \E n \in Nat : n = http'[h].gen /\ (n \in raced' \/ Revoked(n)')
<1>2. ASSUME NEW h \in Handlers, NEW k \in Handlers, Quiet(k) PROVE Kept(h)
  <2>1. http'[h].gen = http[h].gen
    BY <1>2 DEF Quiet, Moves, KeepsGen
  <2>2. Cut(h)' => Cut(h)
    BY <1>0, <1>2 DEF Quiet, Moves, Same, SwitchesRevoke, NumbersOK
  <2>3. Cut(h)' => http'[h].at # "command"
    BY <1>1, <1>2, <2>2 DEF Quiet, Moves
  <2> HIDE DEF Cut
  <2> QED BY <1>1, <2>1, <2>2, <2>3
<1>3. ASSUME NEW h \in Handlers, NEW k \in Handlers, Apply(k) PROVE Kept(h)
  <2>1. /\ http[k].at = "apply" /\ http'[k].at = "command" /\ UNCHANGED service
        /\ \A g \in Handlers : g # k => http'[g] = http[g]
    BY <1>0, <1>3, ApplyFacts DEF Moves
  <2>2. http[k].gen = 0
    BY <1>0, <2>1 DEF NumbersOK
  <2>3. CASE h = k
    BY <1>1, <2>1, <2>2, <2>3
  <2>4. CASE h # k
    BY <1>1, <2>1, <2>4
  <2> QED BY <2>3, <2>4
<1>4. ASSUME NEW h \in Handlers, NEW k \in Handlers, Log(k) PROVE Kept(h)
  <2>1. http'[h].gen = http[h].gen /\ UNCHANGED service
    BY <1>0, <1>4, LogFacts DEF Moves, KeepsGen
  <2>2. Cut(h)' => Cut(h) /\ http'[h].at # "command"
    BY <1>0, <1>1, <1>4, LogFacts DEF Moves, Same
  <2> HIDE DEF Cut
  <2> QED BY <1>1, <2>1, <2>2
<1>5. ASSUME NEW h \in Handlers, NEW k \in Handlers, Command(k) PROVE Kept(h)
  <2>1. /\ http[k].at = "command" /\ http'[k].at = "log" /\ Same(k) /\ UNCHANGED <<service, tim>>
        /\ http'[k].gen = http[k].gen /\ \A g \in Handlers : g # k => http'[g] = http[g]
    BY <1>0, <1>5, CommandFacts DEF Moves, KeepsGen
  <2>2. CASE h # k
    BY <1>1, <2>1, <2>2
  <2>3. CASE h = k
    <3> SUFFICES ASSUME Cut(h)', NEW n \in Nat, n = http[k].gen
                 PROVE  n # 0 /\ (n \in raced' \/ Revoked(n)')
      <4>1. http[k].gen \in Nat
        BY <1>0 DEF HttpRecords
      <4> QED BY <2>1, <2>3, <4>1
    <3>1. n # 0
      BY <1>0, <2>1 DEF NumbersOK
    <3>2. http[k].kind = "switch"
      BY <1>1, <2>1, <2>3 DEF Same
    <3>3. Target(k) = None
      BY <3>2 DEF Target
    <3>4. CASE selects # <<>>
      <4>1. n \in raced'
        BY <1>0, <1>5, <3>3, <3>4, CommandFacts
      <4> QED BY <3>1, <4>1
    <3>5. CASE selects = <<>> /\ ~tim.up /\ UNCHANGED <<selects, clears>>
      <4>1. tim.follows = Nothing /\ Places(selects) = {}
        BY <1>0, <3>5 DEF TimOK, Places
      <4> QED BY <2>1, <3>1, <3>5, <4>1 DEF Revoked
    <3> DEFINE c == CommandOf(k)
    <3>6. CASE selects = <<>> /\ UNCHANGED selects /\ clears' = Put(clears, c)
      <4>1. c \in Commands /\ c.gen = n
        BY <1>0, <1>5, CommandFacts
      <4> HIDE DEF c
      <4>2. c \in Places(Put(clears, c))
        BY <1>0, <4>1, PutFacts
      <4>3. c \in Places(clears') /\ c.gen >= n
        BY <3>6, <4>1, <4>2
      <4>4. Places(selects') = {}
        BY <3>6 DEF Places
      <4> QED BY <3>1, <4>3, <4>4 DEF Revoked
    <3>7. (~tim.up /\ UNCHANGED <<selects, clears>>) \/ (UNCHANGED selects /\ clears' = Put(clears, c))
      BY <1>0, <1>5, <3>3, CommandFacts
    <3> QED BY <3>4, <3>5, <3>6, <3>7
  <2> QED BY <2>2, <2>3
<1>6. ASSUME NEW h \in Handlers, Elsewhere PROVE Kept(h)
  <2>1. UNCHANGED http /\ service' \subseteq service
    BY <1>6 DEF Elsewhere
  <2> QED BY <1>1, <2>1
<1>8. ASSUME NEW h \in Handlers, LogStartup PROVE Kept(h)
  <2>1. UNCHANGED <<http, service>>
    BY <1>8 DEF LogStartup
  <2> QED BY <1>1, <2>1
<1>7. \A h \in Handlers : Kept(h)
  <2> HIDE DEF Kept
  <2> QED BY <1>0, <1>2, <1>3, <1>4, <1>5, <1>6, <1>8, StepCases
<1> QED
  <2> SUFFICES ASSUME NEW h \in Handlers, Cut(h)'
               PROVE  (/\ http[h].gen # 0 /\ http[h].at # "command"
                       /\ http[h].gen \in raced \/ Revoked(http[h].gen))'
    BY DEF SwitchesRevoke
  <2>1. http'[h].gen # 0 /\ http'[h].at # "command"
    BY <1>7
  <2>2. PICK n \in Nat : n = http'[h].gen /\ (n \in raced' \/ Revoked(n)')
    BY <1>7
  <2> QED BY <2>1, <2>2 DEF Revoked

\* Every step keeps the invariant.
LEMMA DashboardStep == DInv /\ [Next]_vars => DInv'
<1> SUFFICES ASSUME DInv, [Next]_vars PROVE DInv'
  OBVIOUS
<1>1. StateOK' /\ NumbersOK' /\ CountsOK' /\ TimOK' /\ RawOK'
  BY StateStep, NumbersStep, CountsStep, TimStepOK, RawStep
<1>2. UNCHANGED client
  BY StepCases, ApplyFacts, CommandFacts, LogFacts
  DEF DInv, StateOK, Quiet, authority, Elsewhere, LogStartup
<1>3. client = "one" => OneClient'
  BY OneByOneStep, LastStep, SwitchStep DEF OneClient
<1> QED BY <1>1, <1>2, <1>3 DEF DInv

\* The invariant holds for ever.
LEMMA DashboardInv == Spec => []DInv
BY DashboardInit, DashboardStep, PTL DEF Spec

-----------------------------------------------------------------------------
(* The properties.                                                         *)

\* Every change of authority has a number of its own, no more commands are under
\* way than there were changes, and after a change at most one more raw target
\* of the old focus comes out.
THEOREM Bridge_Consistent == Spec => []BridgeConsistent
<1>1. DInv => TypeOK
  <2> SUFFICES ASSUME DInv PROVE TypeOK
    OBVIOUS
  <2>1. StateOK /\ NumbersOK /\ CountsOK /\ tim.batch \subseteq {"select", "clear"}
    BY DEF DInv, StateOK, TimRecords
  <2>2. Cardinality(Sent) <= generation
    <3>1. Numbered \subseteq Handlers /\ Sent \subseteq Numbered
      BY DEF Numbered, Sent
    <3>2. IsFiniteSet(Numbered)
      BY <3>1, FiniteFacts
    <3> QED BY <2>1, <3>1, <3>2, FS_Subset DEF NumbersOK
  <2>3. Len(selects) + Len(clears) <= generation
    <3>1. Len(selects) \in Nat /\ Len(clears) \in Nat /\ generation \in Nat
      BY <2>1 DEF StateOK
    <3>2. Cardinality(Sent) \in Nat
      BY FiniteFacts DEF Sent, Numbered
    <3> QED BY <2>1, <2>2, <3>1, <3>2 DEF CountsOK
  <2>4. \A g, h \in Handlers : http[g].gen = http[h].gen /\ http[g].gen # 0 => g = h
    BY <2>1 DEF NumbersOK, Numbered
  <2>5. generation = Cardinality({h \in Handlers : http[h].gen # 0})
    BY <2>1 DEF NumbersOK, Numbered
  <2> QED BY <2>1, <2>3, <2>4, <2>5 DEF StateOK, TypeOK, Ids
<1>2. DInv => OneStaleRawTarget
  BY DEF DInv, RawOK, OneStaleRawTarget
<1> QED BY <1>1, <1>2, DashboardInv, PTL DEF BridgeConsistent

\* The event log loses nothing but what could not be written and the changes whose
\* request died while it published, and holds nothing twice, whatever the order
\* the threads wrote in.
THEOREM Log_Loses_Only_Failures == Spec => []LogLosesOnlyFailures
<1>1. DInv => LogLosesOnlyFailures
  <2> SUFFICES ASSUME DInv PROVE LogLosesOnlyFailures
    OBVIOUS
  <2>1. CountsOK /\ NumbersOK /\ StateOK
    BY DEF DInv
  <2>2. /\ NoRepeats /\ Logged \cap unlogged = {} /\ Logged \cup unlogged = Events
    BY <2>1 DEF CountsOK
  <2>3. Events \subseteq 0 .. generation
    BY <2>1 DEF Events, Recorded, NumbersOK, StateOK
  <2>4. 0 \in Events <=> phase \in {"up", "down"}
    BY DEF Events, Recorded, Numbered
  <2>5. ASSUME \A h \in Handlers : ~UnderWay(h)
        PROVE  1 .. generation \ Events = {http[h].gen : h \in {g \in Handlers : http[g].at = "raised"}}
    <3>1. Numbered = Recorded \cup Raised /\ Recorded \cap Raised = {}
      BY <2>5 DEF Numbered, Recorded, Raised, UnderWay
    <3>2. Raised = {g \in Handlers : http[g].at = "raised"}
      BY <2>1 DEF Raised, Numbered, NumbersOK
    <3>3. ASSUME NEW n \in 1 .. generation, n \notin Events
          PROVE  \E h \in Raised : http[h].gen = n
      <4>1. PICK h \in Numbered : http[h].gen = n
        BY <2>1 DEF NumbersOK
      <4>2. h \notin Recorded
        BY <3>3, <4>1 DEF Events
      <4> QED BY <3>1, <4>1, <4>2
    <3>4. ASSUME NEW h \in Raised
          PROVE  http[h].gen \in 1 .. generation /\ http[h].gen \notin Events
      <4>1. h \in Numbered /\ http[h].gen # 0
        BY DEF Raised, Numbered
      <4>2. \A g \in Recorded : http[g].gen # http[h].gen
        BY <2>1, <3>1, <4>1 DEF NumbersOK
      <4> QED BY <2>1, <4>1, <4>2 DEF NumbersOK, Events
    <3> QED BY <3>2, <3>3, <3>4
  <2> HIDE DEF Events
  <2> QED BY <2>2, <2>3, <2>4, <2>5 DEF LogLosesOnlyFailures, NoRepeats
<1> QED BY <1>1, DashboardInv, PTL

\* One operator: TIM-MARS ends with nobody or the target of the last request; if
\* that revoked the target and met no selection under way, with nobody.
THEOREM Tim_Follows_Last_Word == Spec => []TimFollowsTheLastWord
<1>1. DInv => TimFollowsTheLastWord
  BY DEF DInv, OneClient, LastWord, LastCommand, TimFollowsTheLastWord, UnderWay
<1> QED BY <1>1, DashboardInv, PTL

\* A model or tracker that changes, however late, finds no selection older than
\* its request at TIM-MARS, or a clear as late under way, if no selection was
\* under way when the request sent its own.
THEOREM Switch_After_Revocation == Spec => SwitchAfterRevocation
<1>1. DInv => (client = "one" =>
        \A h \in service \ service' :
          \/ tim.follows = Nothing \/ tim.follows.gen > http[h].gen
          \/ \E i \in 1 .. Len(clears) : clears[i].gen >= http[h].gen
          \/ http[h].gen \in raced)
  BY DEF DInv, StateOK, OneClient, SwitchesRevoke, Revoked, Places
<1> QED BY <1>1, DashboardInv, PTL DEF SwitchAfterRevocation

-----------------------------------------------------------------------------
(* No change of the state is kept from the browser.                         *)

\* If the page does not show the state, the flag is set or a copy is on its way,
\* and the last copy on its way is the state unless the flag is set.
BrowserIsTold ==
  /\ copies \in Seq(BOOLEAN)
  /\ browser = "old" => dirty \/ copies # <<>>
  /\ ~dirty /\ copies # <<>> => copies[Len(copies)]

LEMMA ToldStep == BrowserIsTold /\ [Next]_vars => BrowserIsTold'
<1> SUFFICES ASSUME BrowserIsTold, [Next]_vars
             PROVE  BrowserIsTold'
  OBVIOUS
<1>1. /\ copies \in Seq(BOOLEAN) /\ Len(copies) \in Nat
      /\ browser = "old" => dirty \/ copies # <<>>
      /\ ~dirty /\ copies # <<>> => copies[Len(copies)]
  BY DEF BrowserIsTold
<1>2. ASSUME Changed
      PROVE  BrowserIsTold'
  <2>1. dirty' = TRUE /\ copies' = [i \in 1 .. Len(copies) |-> FALSE]
    BY <1>2 DEF Changed
  <2>2. copies' \in Seq(BOOLEAN)
    BY <1>1, <2>1
  <2> QED
    BY <2>1, <2>2 DEF BrowserIsTold
<1>3. ASSUME UNCHANGED webVars
      PROVE  BrowserIsTold'
  BY <1>1, <1>3 DEF webVars, BrowserIsTold
<1>4. CASE Flush
  <2>1. dirty' = FALSE /\ copies' = Append(copies, TRUE) /\ browser' = browser
    BY <1>4 DEF Flush
  <2>2. /\ Append(copies, TRUE) \in Seq(BOOLEAN) /\ Append(copies, TRUE) # <<>>
        /\ Append(copies, TRUE)[Len(Append(copies, TRUE))] = TRUE
    <3>1. TRUE \in BOOLEAN
      OBVIOUS
    <3> QED
      BY <1>1, <3>1, LastFacts
  <2> QED
    BY <2>1, <2>2 DEF BrowserIsTold
<1>5. CASE Broadcast
  <2>1. /\ copies # <<>> /\ copies' = Tail(copies) /\ dirty' = dirty
        /\ browser' = IF browser = "off" THEN "off"
                      ELSE IF Head(copies) THEN "fresh" ELSE "old"
    BY <1>5 DEF Broadcast
  <2>2. /\ Tail(copies) \in Seq(BOOLEAN)
        /\ Tail(copies) = <<>> => Head(copies) = copies[Len(copies)]
        /\ Tail(copies) # <<>> => Tail(copies)[Len(Tail(copies))] = copies[Len(copies)]
    <3>1. TRUE \in BOOLEAN
      OBVIOUS
    <3> QED
      BY <1>1, <2>1, <3>1, LastFacts
  <2>3. browser' = "old" => dirty \/ Tail(copies) # <<>>
    BY <1>1, <2>1, <2>2
  <2>4. ~dirty /\ Tail(copies) # <<>> => Tail(copies)[Len(Tail(copies))]
    BY <1>1, <2>1, <2>2
  <2> QED
    BY <2>1, <2>2, <2>3, <2>4 DEF BrowserIsTold
<1>6. CASE Connect \/ Disconnect
  BY <1>1, <1>6 DEF Connect, Disconnect, BrowserIsTold
<1>7. CASE Destroy
  BY <1>1, <1>7 DEF Destroy, BrowserIsTold
<1>8. CASE Start \/ Control \/ OtherChange \/ UNCHANGED vars
  BY <1>2, <1>3, <1>8 DEF Start, Control, OtherChange, vars
<1> QED
  BY <1>4, <1>5, <1>6, <1>7, <1>8 DEF Next

\* A browser whose page is behind will be sent the state: nothing that changes
\* it, and no browser that connects between a copy and its broadcast, falls
\* between the flag and the copies.  What BrowserCatchesUp adds is that the
\* timer and the loop run.
THEOREM Browser_Is_Told == Spec => []BrowserIsTold
<1>1. Init => BrowserIsTold
  BY DEF Init, BrowserIsTold
<1> QED
  BY <1>1, ToldStep, PTL DEF Spec
=============================================================================
