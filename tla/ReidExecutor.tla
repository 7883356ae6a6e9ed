----------------------------- MODULE ReidExecutor -----------------------------
(***************************************************************************)
(* The appearance service of perception: BoundedReidRequestExecutor        *)
(* (reid_request_executor.py) with the callback and the shutdown of        *)
(* perception_pipeline_node.py that use it.                                *)
(*                                                                         *)
(* Two threads.  The spinning thread submits: it changes the queue under   *)
(* the lock, releases it, and only then emits the failures of what it      *)
(* refused or dropped, one by one.  The worker takes one request, runs it  *)
(* on the accelerator and emits its result.  At a signal the spinning      *)
(* thread stops spinning and calls close.                                  *)
(*                                                                         *)
(* Publishing raises an exception once the ROS context is shut down or the *)
(* node destroyed (sinkUp).  The worker's wait of 0.2 s makes a lost       *)
(* notification harmless, so notifications are left out.                   *)
(*                                                                         *)
(* SubmitSilently and TakeAgain are coding mistakes that one of the        *)
(* properties notices, not the code.                                       *)
(***************************************************************************)
EXTENDS ReidRequest, SequencesExt

CONSTANTS
  Capacity,          \* reid_queue_capacity
  RecentLimit,       \* _recent_request_limit
  SignalBreaksSink,  \* the signal may shut the ROS context down before close
  MaxTime            \* bound of the clock

NoRequest == [id |-> 0]

VARIABLES
  now,
  queue,       \* _queued
  recent,      \* _recent_request_ids
  rejects,     \* failures the spinning thread has still to emit
  worker,      \* where the worker is, its request, and the result it holds
  closer,      \* how far the shutdown of the node has come
  sinkUp,      \* result_sink does not raise
  answers      \* published on the result topic, oldest first

execVars == <<queue, recent, rejects, worker, closer, sinkUp, answers>>

-----------------------------------------------------------------------------
Result(r, started, ok, why) ==
  [id |-> r.id, of |-> r, started |-> started, completed |-> now, ok |-> ok, why |-> why]
Failure(r, why) == Result(r, now, FALSE, why)
Failures(q, why) == [i \in 1 .. Len(q) |-> [of |-> q[i], why |-> why]]

InFlight(r) == worker.req # NoRequest /\ worker.req.id = r.id
Duplicate(r) ==
  \/ r.id \in ToSet(recent)
  \/ InFlight(r)
  \/ \E q \in ToSet(queue) : q.id = r.id

\* At most one request of a track waits.
Waiting(r)   == {i \in 1 .. Len(queue) : Key(queue[i]) = Key(r)}
Place(r)     == CHOOSE i \in Waiting(r) : TRUE
SameTrack(r) == IF Waiting(r) = {} THEN <<>> ELSE <<queue[Place(r)]>>
Others(r)    == IF Waiting(r) = {} THEN queue ELSE RemoveAt(queue, Place(r))
NotNewer(r)  == \E q \in ToSet(SameTrack(r)) : ~Newer(r, q)

Remember(id) ==
  LET all == Append(recent, id)
  IN  IF Len(all) > RecentLimit THEN Tail(all) ELSE all

-----------------------------------------------------------------------------
(* submit, by the spinning thread.                                         *)

Spinning == closer = "open" /\ rejects = <<>>

SubmitRefused(r, why) ==
  /\ rejects' = <<[of |-> r, why |-> why]>>
  /\ UNCHANGED <<now, queue, recent, worker, closer, sinkUp, answers>>

SubmitSilently(r) ==
  LET kept == Others(r)
      full == Len(kept) >= Capacity
  IN  /\ queue' = Append(IF full THEN Tail(kept) ELSE kept, r)
      /\ recent' = Remember(r.id)
      /\ rejects' = Failures(SameTrack(r), "superseded")
      /\ UNCHANGED <<now, worker, closer, sinkUp, answers>>

\* The newest request of a track replaces the one that waits; a full queue
\* drops its oldest.
SubmitAccepted(r) ==
  LET kept == Others(r)
      full == Len(kept) >= Capacity
  IN  /\ queue' = Append(IF full THEN Tail(kept) ELSE kept, r)
      /\ recent' = Remember(r.id)
      /\ rejects' = Failures(SameTrack(r), "superseded")
                    \o (IF full THEN Failures(<<Head(kept)>>, "overflow") ELSE <<>>)
      /\ UNCHANGED <<now, worker, closer, sinkUp, answers>>

Submit(r) ==
  /\ Spinning
  /\ \/ Duplicate(r) /\ SubmitRefused(r, "duplicate")
     \/ ~Duplicate(r) /\ NotNewer(r) /\ SubmitRefused(r, "not_newer")
     \/ ~Duplicate(r) /\ ~NotNewer(r) /\ SubmitAccepted(r)

\* An exception leaves the callback, and the failures after it with it.
EmitReject ==
  /\ rejects # <<>>
  /\ answers' = IF sinkUp THEN Append(answers, Failure(Head(rejects).of, Head(rejects).why))
                ELSE answers
  /\ rejects' = IF sinkUp THEN Tail(rejects) ELSE <<>>
  /\ UNCHANGED <<now, queue, recent, worker, closer, sinkUp>>

-----------------------------------------------------------------------------
(* worker_loop.                                                            *)

Idle == [at |-> "idle", req |-> NoRequest]

TakeAgain ==
  /\ worker.at = "idle" /\ queue # <<>>
  /\ worker' = [at |-> "took", req |-> Head(queue)]
  /\ UNCHANGED <<now, queue, recent, rejects, closer, sinkUp, answers>>

Take ==
  /\ worker.at = "idle" /\ queue # <<>>
  /\ worker' = [at |-> "took", req |-> Head(queue)]
  /\ queue' = Tail(queue)
  /\ UNCHANGED <<now, recent, rejects, closer, sinkUp, answers>>

Start ==
  /\ worker.at = "took"
  /\ worker' = IF now > worker.req.deadline
               THEN [at |-> "done", req |-> worker.req,
                     result |-> Failure(worker.req, "expired")]
               ELSE [at |-> "running", req |-> worker.req, started |-> now]
  /\ UNCHANGED <<now, queue, recent, rejects, closer, sinkUp, answers>>

\* The accelerator answers, or raises an exception that becomes a failure.
Finish ==
  /\ worker.at = "running"
  /\ \E ok \in BOOLEAN :
       worker' = [at |-> "done", req |-> worker.req,
                  result |-> Result(worker.req, worker.started, ok, "backend")]
  /\ UNCHANGED <<now, queue, recent, rejects, closer, sinkUp, answers>>

\* An exception ends the thread, the request still in flight.
Emit ==
  /\ worker.at = "done"
  /\ answers' = IF sinkUp THEN Append(answers, worker.result) ELSE answers
  /\ worker' = [at |-> IF sinkUp THEN "emitted" ELSE "dead", req |-> worker.req]
  /\ UNCHANGED <<now, queue, recent, rejects, closer, sinkUp>>

Release ==
  /\ worker.at = "emitted"
  /\ worker' = Idle
  /\ UNCHANGED <<now, queue, recent, rejects, closer, sinkUp, answers>>

Leave ==
  /\ worker.at = "idle" /\ queue = <<>>
  /\ closer \notin {"open", "due"}
  /\ worker' = [worker EXCEPT !.at = "ended"]
  /\ UNCHANGED <<now, queue, recent, rejects, closer, sinkUp, answers>>

WorkerStep == Take \/ Start \/ Finish \/ Emit \/ Release \/ Leave

-----------------------------------------------------------------------------
(* The shutdown of the node: spin ends, destroy_node calls close, and after *)
(* close the node and its publisher are destroyed.                         *)

Signal ==
  /\ closer = "open"
  /\ closer' = "due"
  /\ sinkUp' \in IF SignalBreaksSink THEN BOOLEAN ELSE {sinkUp}
  /\ UNCHANGED <<now, queue, recent, rejects, worker, answers>>

\* close empties the queue under the lock; the failures go out after it.
Close ==
  /\ closer = "due" /\ rejects = <<>>
  /\ closer' = "cancelling"
  /\ rejects' = Failures(queue, "cancelled")
  /\ queue' = <<>>
  /\ UNCHANGED <<now, recent, worker, sinkUp, answers>>

\* The first failure that cannot be published ends close before it joins.
CloseRaises ==
  /\ closer = "cancelling" /\ rejects # <<>> /\ ~sinkUp
  /\ closer' = "raised"
  /\ rejects' = <<>>
  /\ UNCHANGED <<now, queue, recent, worker, sinkUp, answers>>

\* join returns when the thread has ended, or after its timeout.
Join ==
  /\ closer = "cancelling" /\ rejects = <<>>
  /\ closer' = IF worker.at \in {"ended", "dead"} THEN "joined" ELSE "timed_out"
  /\ sinkUp' = FALSE
  /\ UNCHANGED <<now, queue, recent, rejects, worker, answers>>

SpinningStep == (closer # "cancelling" \/ sinkUp) /\ EmitReject
CloserStep == Close \/ CloseRaises \/ Join

ExecInit ==
  /\ queue = <<>> /\ recent = <<>> /\ rejects = <<>>
  /\ worker = Idle
  /\ closer = "open" /\ sinkUp = TRUE
  /\ answers = <<>>
=============================================================================
