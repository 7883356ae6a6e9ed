------------------------------ MODULE ReidService ------------------------------
(***************************************************************************)
(* The appearance service of ReidExecutor by itself, asked by anyone for   *)
(* anything, once for every request of Requests.                           *)
(***************************************************************************)
EXTENDS ReidExecutor

CONSTANT Requests   \* those that may arrive, in any order or not at all

VARIABLE submitted   \* history: every request submitted

serviceVars == <<now, execVars, submitted>>

ASSUME ServiceAssumption ==
  /\ Capacity \in Nat \ {0} /\ RecentLimit \in Nat \ {0}
  /\ SignalBreaksSink \in BOOLEAN
  /\ \A r \in Requests : r.submitted <= r.deadline

Arrives ==
  \E r \in Requests \ submitted :
    /\ r.submitted <= now
    /\ Submit(r)
    /\ submitted' = submitted \cup {r}

\* The steps of the two threads of the executor, apart from submissions.
Steps == (SpinningStep \/ WorkerStep \/ Signal \/ CloserStep) /\ UNCHANGED submitted

Tick == now < MaxTime /\ now' = now + 1 /\ UNCHANGED <<execVars, submitted>>

ServiceInit == now = 1 /\ ExecInit /\ submitted = {}

ServiceNext == Arrives \/ Steps \/ Tick

ServiceSpec == ServiceInit /\ [][ServiceNext]_serviceVars

\* Both threads run, and the accelerator returns from every call.
FairServiceSpec ==
  /\ ServiceSpec
  /\ WF_serviceVars(SpinningStep /\ UNCHANGED submitted)
  /\ WF_serviceVars(WorkerStep /\ UNCHANGED submitted)
  /\ WF_serviceVars(CloserStep /\ UNCHANGED submitted)

-----------------------------------------------------------------------------
(* Properties.                                                             *)

Answered(r) == \E i \in 1 .. Len(answers) : answers[i].of = r

ServiceTypeOK ==
  /\ Len(queue) <= Capacity /\ Len(recent) <= RecentLimit
  /\ ToSet(queue) \subseteq submitted /\ ToSet(recent) \subseteq {r.id : r \in submitted}
  /\ worker.at \in {"idle", "took", "running", "done", "emitted", "ended", "dead"}
  /\ worker.req \in submitted \cup {NoRequest}
  /\ closer \in {"open", "due", "cancelling", "raised", "joined", "timed_out"}
  /\ sinkUp \in BOOLEAN

\* However the two threads interleave, a request is answered at most once: it
\* never is both run and reported as dropped, superseded or cancelled.
OneAnswer ==
  \A i, j \in 1 .. Len(answers) : answers[i].of = answers[j].of => i = j

\* Every request submitted gets a result, of success or of a named failure
\* (module docstring), while results can be published at all.
EveryRequestAnswered ==
  \A r \in Requests : r \in submitted ~> Answered(r) \/ ~sinkUp

\* close stops, cancels and joins: it does not end before it has waited for
\* the worker, so that the engine is closed after it (destroy_node).
CloseJoins == closer = "due" ~> closer \in {"joined", "timed_out"}
=============================================================================
