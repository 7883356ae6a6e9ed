------------------------------- MODULE ReidLink -------------------------------
(***************************************************************************)
(* The ledger of TIM-MARS and the executor of perception, joined by the    *)
(* two best-effort topics of _setup_async_reid_transport and               *)
(* _setup_reid_service: any message may be lost, the others keep their     *)
(* order.  TIM-MARS may die and be started again; its reader gets no       *)
(* result that was published before.                                       *)
(*                                                                         *)
(* Perception does not shut down here: to TIM-MARS its end is the loss of  *)
(* every later message.  ReidService has the shutdown.                     *)
(***************************************************************************)
EXTENDS ReidExecutor

CONSTANTS
  Tracks, LedgerCapacity, Deadline, MaxId, MaxFrameGen, MaxTrackGen,
  Processes,      \* how often TIM-MARS is started
  RestartTime,    \* least time from its death to its first frame afterwards
  ReconcileGap,   \* longest time between two calls of reconcile_async_reid
  MaxTroubles     \* bound of the selections, rewinds and restarts

VARIABLES
  process, nextId, inFlight, frameGen, trackGen, present, applied, accepted, cancels,
  sent,            \* the request topic
  readyAt,         \* when TIM-MARS is up
  lastReconcile,
  replaced         \* history: numbers of requests whose track is another
                   \* instance by now

Ledger == INSTANCE ReidLedger

ledgerVars == <<process, nextId, inFlight, frameGen, trackGen, present, applied,
                accepted, cancels>>
perceptionVars == <<queue, recent, rejects, worker, closer, sinkUp>>
vars == <<now, ledgerVars, sent, perceptionVars, answers, readyAt, lastReconcile, replaced>>

ASSUME ReidAssumption ==
  /\ {LedgerCapacity, Capacity, RecentLimit, Processes} \subseteq Nat \ {0}
  /\ {Deadline, RestartTime, ReconcileGap, MaxTime} \subseteq Nat

Up == now >= readyAt

MoreTrouble == cancels + process <= MaxTroubles

After(topic, i) == SubSeq(topic, i + 1, Len(topic))

-----------------------------------------------------------------------------
Frame ==
  /\ Up
  /\ \E visible \in SUBSET Tracks, rewound \in BOOLEAN :
     \E jumped \in SUBSET (visible \cap present), crops \in Ledger!Crops(visible) :
       /\ rewound => frameGen > 0 /\ MoreTrouble
       /\ Ledger!OnFrame(visible, jumped, rewound, crops)
       /\ replaced' = replaced \cup
            {r.id : r \in {q \in inFlight :
                             rewound \/ q.track \in jumped \cup (visible \ present)}}
  /\ UNCHANGED <<perceptionVars, answers, readyAt, lastReconcile>>

Selection ==
  /\ Up /\ MoreTrouble
  /\ Ledger!OnSelection
  /\ UNCHANGED <<perceptionVars, answers, readyAt, lastReconcile, replaced>>

Reconcile ==
  /\ Up
  /\ lastReconcile' = now
  /\ Ledger!Reconcile
  /\ UNCHANGED <<perceptionVars, answers, readyAt, replaced>>

ResultArrives ==
  /\ Up
  /\ \E i \in 1 .. Len(answers) :
       Ledger!OnResult(answers[i]) /\ answers' = After(answers, i)
  /\ UNCHANGED <<perceptionVars, readyAt, lastReconcile, replaced>>

Restart ==
  /\ process < Processes /\ MoreTrouble
  /\ Ledger!Restart
  /\ readyAt' = now + RestartTime
  /\ lastReconcile' = now + RestartTime
  /\ answers' = <<>> /\ replaced' = {}
  /\ UNCHANGED perceptionVars

RequestArrives ==
  /\ \E i \in 1 .. Len(sent) :
       Submit(sent[i]) /\ sent' = After(sent, i)
  /\ UNCHANGED <<ledgerVars, readyAt, lastReconcile, replaced>>

PerceptionStep ==
  /\ EmitReject \/ Take \/ Start \/ Finish \/ Emit \/ Release
  /\ UNCHANGED <<ledgerVars, sent, readyAt, lastReconcile, replaced>>

Advance ==
  /\ now < MaxTime
  /\ now < lastReconcile + ReconcileGap
  /\ now' = now + 1
  /\ UNCHANGED <<ledgerVars, sent, perceptionVars, answers, readyAt, lastReconcile, replaced>>

Init ==
  /\ now = 1
  /\ Ledger!LedgerInit /\ ExecInit
  /\ readyAt = 1 /\ lastReconcile = 1 /\ replaced = {}

Next ==
  \/ Frame \/ Selection \/ Reconcile \/ ResultArrives \/ Restart
  \/ RequestArrives \/ PerceptionStep \/ Advance

Spec == Init /\ [][Next]_vars

-----------------------------------------------------------------------------
(* Properties.                                                             *)

\* What is in flight was sent by this process, under distinct numbers, in the
\* present frame generation: a source that starts over cancels the rest.
TypeOK ==
  /\ \A r, q \in inFlight : r.id = q.id => r = q
  /\ \A r \in inFlight : r.id < nextId /\ r.process = process /\ r.frameGen = frameGen
  /\ Len(queue) <= Capacity /\ Len(recent) <= RecentLimit
  /\ {lastReconcile, readyAt} \subseteq Nat

\* The observation kept was computed from the very request it is kept for, of
\* this process, after the last selection or clear, however late the answer
\* and whatever the other requests with the same number.
AcceptedIsCausal ==
  accepted # Ledger!None =>
    /\ accepted.of = accepted.request
    /\ accepted.request.process = process
    /\ accepted.request.period = cancels

\* No observation is accepted for a track that has since jumped, come back or
\* started over with the source: the number of a track may be another person.
AcceptedOfSameInstance ==
  [][accepted' # accepted /\ accepted' # Ledger!None
       => accepted'.request.id \notin replaced]_vars

\* No request stays in flight beyond its deadline and one reconciliation, so
\* lost requests and results cannot fill the ledger.
OverdueForgotten ==
  Up => \A r \in inFlight : now <= r.deadline + ReconcileGap
=============================================================================
