------------------------------ MODULE ReidLedger ------------------------------
(***************************************************************************)
(* TIM-MARS's side of the asynchronous appearance work: the ledger         *)
(* (appearance_request_transport.py on top of CausalAppearanceRequestQueue *)
(* of appearance_async.py), the lifecycle of tracks that names generations *)
(* (appearance_attachment.py), and the callbacks of the node that use them.*)
(* One thread runs the callbacks, so each is one action.                   *)
(*                                                                         *)
(* stage queues the crops of one frame and takes them all out again, so    *)
(* nothing waits in the ledger's queue between callbacks.  An image is     *)
(* named by the time of its staging.                                       *)
(*                                                                         *)
(* InstancesByNumber, CancelNothing, PublishBeside, ExpireNothing and      *)
(* TimelyIfCompleted are coding mistakes that one of the properties        *)
(* notices, not the code.                                                  *)
(***************************************************************************)
EXTENDS ReidRequest, SequencesExt

CONSTANTS
  Tracks,           \* tracker ids
  LedgerCapacity,   \* appearance_async_reid_queue_capacity
  Deadline,         \* appearance_async_reid_deadline_ms
  MaxId, MaxFrameGen, MaxTrackGen   \* bounds of the counters (each restart
                                    \* takes one number off MaxId)

None == [id |-> 0]    \* no accepted observation

VARIABLES
  now,
  process,     \* which start of TIM-MARS this is
  nextId,      \* _next_request_id
  inFlight,    \* _in_flight and _requests_by_id
  frameGen,    \* frame_generation
  trackGen,    \* track_generation_by_id, zero for no entry
  present,     \* last_bbox_by_track_id
  applied,     \* _last_accepted_source_order: the requests it stems from
  accepted,    \* _last_accepted, with the request its embedding came from
  cancels,     \* history: how often the work was cancelled
  sent         \* published on the request topic, oldest first

ledgerVars == <<process, nextId, inFlight, frameGen, trackGen, present, applied,
                accepted, cancels, sent>>

-----------------------------------------------------------------------------
(* Tracks and crops.                                                       *)

\* The sequences of distinct tracks whose crops one frame may yield.
Crops(visible) ==
  UNION {{q \in [1 .. n -> visible] : \A i, j \in 1 .. n : q[i] = q[j] => i = j}
           : n \in 0 .. Cardinality(visible)}

InstancesByNumber(visible, jumped, rewound) ==
  [t \in Tracks |-> IF rewound THEN (IF t \in visible THEN 1 ELSE 0)
                   ELSE IF t \in visible /\ trackGen[t] = 0 THEN 1 ELSE trackGen[t]]

\* reconcile_appearance_track_lifecycle: a track that comes back, or jumps, is
\* another instance; a frame number that goes back makes every track another.
Instances(visible, jumped, rewound) ==
  [t \in Tracks |->
     CASE t \notin visible -> IF rewound THEN 0 ELSE trackGen[t]
       [] rewound -> 1
       [] t \in present /\ t \notin jumped -> trackGen[t]
       [] OTHER -> trackGen[t] + 1]

CancelNothing == UNCHANGED <<inFlight, accepted>>

\* cancel_all
Cancel == inFlight' = {} /\ accepted' = None

-----------------------------------------------------------------------------
(* The callbacks.                                                          *)

\* stage: ids for all the crops, the newest LedgerCapacity of them sent.
Staged(crops, period) ==
  LET request(i) ==
        [id |-> nextId + i - 1, process |-> process, track |-> crops[i],
         frameGen |-> frameGen', trackGen |-> trackGen'[crops[i]],
         submitted |-> now, deadline |-> now + Deadline, period |-> period]
      dropped == IF Len(crops) > LedgerCapacity THEN Len(crops) - LedgerCapacity ELSE 0
  IN  [i \in 1 .. Len(crops) - dropped |-> request(dropped + i)]

PublishBeside(requests, kept, period) ==
  /\ sent' = sent \o requests
  /\ inFlight' = inFlight \cup ToSet(requests)
  /\ cancels' = period

\* Published in order; when one cannot be, all the work is cancelled.
Publish(requests, kept, period) ==
  \/ /\ sent' = sent \o requests
     /\ inFlight' = kept \cup ToSet(requests)
     /\ cancels' = period
  \/ \E n \in 0 .. Len(requests) - 1 :
       /\ sent' = sent \o SubSeq(requests, 1, n)
       /\ inFlight' = {}
       /\ cancels' = period + 1

\* on_tracks as far as appearance goes.  Rewound and with nothing visible, it is
\* also a frame without a valid number or stamp (reset_appearance_lifecycle).
OnFrame(visible, jumped, rewound, crops) ==
  LET regenerated == rewound /\ frameGen > 0
      period == IF regenerated THEN cancels + 1 ELSE cancels
  IN  /\ frameGen' = IF rewound \/ frameGen = 0 THEN frameGen + 1 ELSE frameGen
      /\ trackGen' = Instances(visible, jumped, rewound)
      /\ nextId' = nextId + Len(crops)
      /\ nextId' + process <= MaxId + 2 /\ frameGen' <= MaxFrameGen
      /\ \A t \in Tracks : trackGen'[t] <= MaxTrackGen
      /\ present' = visible
      /\ Publish(Staged(crops, period), IF regenerated THEN {} ELSE inFlight, period)
      /\ accepted' = IF cancels' # cancels THEN None ELSE accepted
      /\ UNCHANGED <<now, process, applied>>

\* on_select, on_clear and the mirrored selection cancel the work.
OnSelection ==
  /\ Cancel
  /\ cancels' = cancels + 1
  /\ UNCHANGED <<now, process, nextId, frameGen, trackGen, present, applied, sent>>

ExpireNothing == UNCHANGED inFlight

\* reconcile_async_reid
Expire == inFlight' = {r \in inFlight : now <= r.deadline}

Reconcile ==
  /\ Expire
  /\ UNCHANGED <<now, process, nextId, frameGen, trackGen, present, applied, accepted,
                 cancels, sent>>

TimelyIfCompleted(r, a) == a.completed <= r.deadline

Timely(r, a) ==
  /\ r.submitted <= a.started /\ a.started <= a.completed /\ a.completed <= now
  /\ a.completed <= r.deadline /\ now <= r.deadline

\* complete: may the result a of the request r be kept?
Acceptable(r, a) ==
  /\ Timely(r, a)
  /\ r.frameGen = frameGen
  /\ trackGen[r.track] = r.trackGen
  /\ \A p \in applied : Key(p) = Key(r) => Newer(r, p)
  /\ a.ok

\* on_async_reid_result, malformed results included (they are not ok).
OnResult(a) ==
  /\ inFlight' = {r \in inFlight : r.id # a.id}
  /\ \/ \E r \in inFlight :
          /\ r.id = a.id /\ Acceptable(r, a)
          /\ accepted' = [request |-> r, of |-> a.of]
          /\ applied' = applied \cup {r}
     \/ /\ ~\E r \in inFlight : r.id = a.id /\ Acceptable(r, a)
        /\ UNCHANGED <<accepted, applied>>
  /\ UNCHANGED <<now, process, nextId, frameGen, trackGen, present, cancels, sent>>

\* TIM-MARS dies and is started again: everything but what it sent is new.
Restart ==
  /\ process' = process + 1
  /\ nextId' = 1 /\ inFlight' = {} /\ frameGen' = 0
  /\ trackGen' = [t \in Tracks |-> 0] /\ present' = {}
  /\ applied' = {} /\ accepted' = None /\ cancels' = 0
  /\ UNCHANGED <<now, sent>>

LedgerInit ==
  /\ process = 1
  /\ nextId = 1 /\ inFlight = {} /\ frameGen = 0
  /\ trackGen = [t \in Tracks |-> 0] /\ present = {}
  /\ applied = {} /\ accepted = None /\ cancels = 0
  /\ sent = <<>>
=============================================================================
