--------------------------- MODULE DashboardControl ---------------------------
(***************************************************************************)
(* The control side of dashboard_bridge_node.py: a thread for each HTTP    *)
(* request, the node's thread that turns tracks into the raw target, and   *)
(* the nodes commanded.                                                    *)
(*                                                                         *)
(* A request changes the authority under the state lock, and publishes the *)
(* zero target, the command and the event after it has let go of the lock. *)
(* It is answered when these are done, not when TIM-MARS has the command.  *)
(* Select and clear are two reliable topics of a bounded depth: each keeps *)
(* its order, and neither waits for the other.  The executor of TIM-MARS   *)
(* takes one message of every topic it finds one on, select before clear,  *)
(* in the order of their subscriptions; a message that was published need  *)
(* not have arrived there yet.                                             *)
(*                                                                         *)
(* The requests are served before the node is complete: first without its  *)
(* publishers, then before the first event, number 0, is logged.           *)
(*                                                                         *)
(* RepeatedUncounted, SilentSwitch, LogNewest and ShownFocus are coding    *)
(* errors that one of the properties notices, not the code.                *)
(***************************************************************************)
EXTENDS Integers, FiniteSets, Sequences

CONSTANTS
  Requests,   \* bound of the HTTP requests, numbered as they arrive
  ManyRequests,     \* the same of many clients
  WatchedRequests,  \* the same while a browser may be connected
  Threads,    \* bound of the requests handled at a time by many clients
  Reconfigurable,  \* runtime_reconfiguration_enabled
  Targets,    \* track ids that may be asked for
  IdLimit,    \* the first id that does not fit in a command (UInt32)
  CommandDepth,  \* depth of the two command topics
  MaxTracks,  \* bound of the track messages
  OneTracks   \* the same with one client

None == 0

ASSUME ControlAssumption ==
  /\ {Requests, ManyRequests, WatchedRequests, Threads, MaxTracks, OneTracks} \subseteq Nat
  /\ Targets \subseteq Nat \ {None}
  /\ {IdLimit, CommandDepth} \subseteq Nat \ {0}

Handlers == 1 .. Requests

VARIABLES
  watched,     \* a browser may be connected
  client,      \* "one" waits for each answer, "many" do not wait
  focus,       \* _target_focus_id
  generation,  \* _target_authority_generation
  active,      \* target_active, as the dashboard shows it
  http,        \* each request: where its thread is, its kind, target, generation
  selects,     \* commands under way to TIM-MARS, of each topic
  clears,
  tim,         \* TIM-MARS: up, what it follows, the topics it is about to take
  stale,       \* raw targets of an older focus since the last change
  tracks,      \* the track message in work and the focus read for it
  trackCount,
  service,     \* parameter calls under way
  log,         \* the event log: the numbers of the changes, in the order written
  phase,       \* the node: starting, publishing, up, or down
  raced,       \* history: the revocations sent while a selection was under way
  unlogged     \* history: the changes whose event could not be written

controlVars ==
  <<watched, client, focus, generation, active, http, selects, clears, raced, tim,
    stale, tracks, trackCount, service, log, unlogged, phase>>

Nothing == [id |-> None, gen |-> 0]

Finished(h) == http[h].at \in {"new", "done"}
UnderWay(h) == http[h].at \notin {"new", "done", "raised"}

\* The requests other than a selection revoke the target.
Target(h) == IF http[h].kind = "select" THEN http[h].target ELSE None

GoTo(h, at) == http' = [http EXCEPT ![h].at = at]
\* Of a request that is over only its change of authority is remembered.
Over(h, at) ==
  http' = [http EXCEPT ![h] = [at |-> at, kind |-> "over", target |-> None, gen |-> @.gen]]
Done(h) == Over(h, "done")

-----------------------------------------------------------------------------
(* do_POST and the handlers up to the change of authority.                 *)

\* One client waits for the answer before its next request.
Arrive(h) ==
  /\ http[h].at = "new" /\ phase # "down" /\ (watched => h <= WatchedRequests)
  /\ client = "many" => h <= ManyRequests
  /\ \A g \in 1 .. h - 1 : http[g].at # "new"
  /\ Cardinality({g \in Handlers : UnderWay(g)}) < IF client = "one" THEN 1 ELSE Threads
  /\ \E kind \in {"select", "clear", "switch"} :
       \E target \in IF kind = "select" THEN Targets ELSE {None} :
         http' = [http EXCEPT ![h] = [@ EXCEPT !.at = "asked", !.kind = kind, !.target = target]]
  /\ UNCHANGED <<watched, client, focus, generation, active, selects, clears, raced, tim, stale,
                 tracks, trackCount, service, log, unlogged, phase>>

\* A wrong token, body, target, model or tracker; a switch while the profile
\* is frozen.
Refuse(h) ==
  /\ http[h].at = "asked"
  /\ Done(h)
  /\ UNCHANGED <<watched, client, focus, generation, active, selects, clears, raced, tim, stale,
                 tracks, trackCount, service, log, unlogged, phase>>

Accept(h) ==
  /\ http[h].at = "asked"
  /\ IF http[h].kind = "switch" THEN Reconfigurable ELSE tim.up
  /\ GoTo(h, "apply")
  /\ UNCHANGED <<watched, client, focus, generation, active, selects, clears, raced, tim, stale,
                 tracks, trackCount, service, log, unlogged, phase>>

\* Without TIM-MARS the raw target is reset and the authority stays.
Unavailable(h) ==
  /\ http[h].at = "asked" /\ http[h].kind # "switch" /\ ~tim.up
  /\ Done(h)
  /\ UNCHANGED <<watched, client, focus, generation, active, selects, clears, raced, tim, stale,
                 tracks, trackCount, service, log, unlogged, phase>>

-----------------------------------------------------------------------------
(* _apply_target_authority_request.                                        *)

RepeatedUncounted(h) ==
  /\ http[h].at = "apply"
  /\ focus' = Target(h)
  /\ generation' = IF focus = Target(h) THEN generation ELSE generation + 1
  /\ active' = None
  /\ stale' = 0
  /\ http' = [http EXCEPT ![h].at = "command", ![h].gen = generation']
  /\ UNCHANGED <<watched, client, selects, clears, raced, tim, tracks, trackCount, service, log, unlogged, phase>>

Apply(h) ==
  /\ http[h].at = "apply"
  /\ focus' = Target(h)
  /\ generation' = generation + 1
  /\ active' = None
  /\ stale' = 0
  /\ http' = [http EXCEPT ![h].at = "command", ![h].gen = generation + 1]
  /\ UNCHANGED <<watched, client, selects, clears, raced, tim, tracks, trackCount, service, log, unlogged, phase>>

\* An exception while publishing ends the request's thread: the node has no
\* publishers yet, or none any more, or the id is too large for the message.
Raises(h) ==
  /\ http[h].at = "command"
  /\ phase \in {"starting", "down"} \/ Target(h) >= IdLimit
  /\ Over(h, "raised")
  /\ UNCHANGED <<watched, client, focus, generation, active, selects, clears, raced, tim, stale,
                 tracks, trackCount, service, log, unlogged, phase>>

\* A full topic loses its oldest command.
Put(queue, command) ==
  Append(IF Len(queue) < CommandDepth THEN queue ELSE Tail(queue), command)

\* Where the fields of a message are not checked, an id too large is cut.
CommandOf(h) == [id |-> Target(h) % IdLimit, gen |-> http[h].gen]

SilentSwitch(h) ==
  /\ http[h].at = "command" /\ phase \in {"publishing", "up"}
  /\ GoTo(h, "log")
  /\ selects' = IF tim.up /\ Target(h) # None THEN Put(selects, CommandOf(h)) ELSE selects
  /\ clears' = IF tim.up /\ http[h].kind = "clear" THEN Put(clears, CommandOf(h)) ELSE clears
  /\ raced' = IF Target(h) = None /\ selects # <<>> THEN raced \cup {http[h].gen} ELSE raced
  /\ UNCHANGED <<watched, client, focus, generation, active, tim, stale,
                 tracks, trackCount, service, log, unlogged, phase>>

\* The zero target and the command; without TIM-MARS the command is lost.
Command(h) ==
  /\ http[h].at = "command" /\ phase \in {"publishing", "up"}
  /\ GoTo(h, "log")
  /\ selects' = IF tim.up /\ Target(h) # None THEN Put(selects, CommandOf(h)) ELSE selects
  /\ clears' = IF tim.up /\ Target(h) = None THEN Put(clears, CommandOf(h)) ELSE clears
  /\ raced' = IF Target(h) = None /\ selects # <<>> THEN raced \cup {http[h].gen} ELSE raced
  /\ UNCHANGED <<watched, client, focus, generation, active, tim, stale,
                 tracks, trackCount, service, log, unlogged, phase>>

\* The file has a lock of its own.  Without a path, or when the file cannot be
\* written, the event is lost and the request goes on.
Record(number) ==
  \/ log' = Append(log, number) /\ UNCHANGED unlogged
  \/ unlogged' = unlogged \cup {number} /\ UNCHANGED log

AfterLog(h) == IF http[h].kind = "switch" THEN GoTo(h, "call") ELSE Done(h)

LogNewest(h) ==
  /\ http[h].at = "log"
  /\ Record(generation)
  /\ AfterLog(h)
  /\ UNCHANGED <<watched, client, focus, generation, active, selects, clears, raced, tim, stale,
                 tracks, trackCount, service, phase>>

Log(h) ==
  /\ http[h].at = "log"
  /\ Record(http[h].gen)
  /\ AfterLog(h)
  /\ UNCHANGED <<watched, client, focus, generation, active, selects, clears, raced, tim, stale,
                 tracks, trackCount, service, phase>>

-----------------------------------------------------------------------------
(* The rest of a switch: the parameter call of the perception node or of   *)
(* the tracker, and the node that serves it, at any time or never.         *)

\* The service does not answer, or the model file is missing.
Unreachable(h) ==
  /\ http[h].at = "call"
  /\ Done(h)
  /\ UNCHANGED <<watched, client, focus, generation, active, selects, clears, raced, tim, stale,
                 tracks, trackCount, service, log, unlogged, phase>>

Call(h) ==
  /\ http[h].at = "call"
  /\ GoTo(h, "waiting")
  /\ service' = service \cup {h}
  /\ UNCHANGED <<watched, client, focus, generation, active, selects, clears, raced, tim, stale,
                 tracks, trackCount, log, unlogged, phase>>

\* The switch is made, or refused there.
Serve(h) ==
  /\ h \in service
  /\ service' = service \ {h}
  /\ UNCHANGED <<watched, client, focus, generation, active, http, selects, clears, raced, tim, stale,
                 tracks, trackCount, log, unlogged, phase>>

\* With the reply, or at the deadline while the call stays under way.
Answer(h) ==
  /\ http[h].at = "waiting"
  /\ Done(h)
  /\ UNCHANGED <<watched, client, focus, generation, active, selects, clears, raced, tim, stale,
                 tracks, trackCount, service, log, unlogged, phase>>

Handle(h) ==
  \/ Arrive(h) \/ Refuse(h) \/ Accept(h) \/ Unavailable(h)
  \/ Apply(h) \/ Raises(h) \/ Command(h) \/ Log(h)
  \/ Unreachable(h) \/ Call(h) \/ Answer(h)

-----------------------------------------------------------------------------
(* _on_tracks: the focus is read under the lock, the raw target is         *)
(* published without it, the state is written under it.                    *)

ShownFocus == IF focus = None THEN active ELSE focus

ReadFocus == focus

OnTracks ==
  /\ tracks.at = "idle" /\ trackCount < (IF client = "one" THEN OneTracks ELSE MaxTracks)
  /\ tracks' = [at |-> "read", focus |-> ReadFocus]
  /\ trackCount' = trackCount + 1
  /\ UNCHANGED <<watched, client, focus, generation, active, http, selects, clears, raced, tim,
                 stale, service, log, unlogged, phase>>

\* The track may be absent: target 0.
PublishRaw ==
  /\ tracks.at = "read"
  /\ \E id \in {None, tracks.focus} :
       /\ tracks' = [at |-> "write", focus |-> id]
       /\ stale' = IF id \notin {None, focus} THEN stale + 1 ELSE stale
  /\ UNCHANGED <<watched, client, focus, generation, active, http, selects, clears, raced, tim,
                 trackCount, service, log, unlogged, phase>>

WriteActive ==
  /\ tracks.at = "write"
  /\ active' = tracks.focus
  /\ tracks' = [at |-> "idle", focus |-> None]
  /\ UNCHANGED <<watched, client, focus, generation, http, selects, clears, raced, tim,
                 stale, trackCount, service, log, unlogged, phase>>

\* The node's own thread: neither before the node is complete nor after it has
\* begun to destroy it.
TracksStep == phase = "up" /\ (OnTracks \/ PublishRaw \/ WriteActive)

-----------------------------------------------------------------------------
(* The node's own thread before it spins: the requests' thread already runs *)

CreatePublishers ==
  /\ phase = "starting" /\ phase' = "publishing"
  /\ UNCHANGED <<watched, client, focus, generation, active, http, selects, clears, raced, tim,
                 stale, tracks, trackCount, service, log, unlogged>>

LogStartup ==
  /\ phase = "publishing" /\ phase' = "up"
  /\ Record(0)
  /\ UNCHANGED <<watched, client, focus, generation, active, http, selects, clears, raced, tim,
                 stale, tracks, trackCount, service>>

StartStep == CreatePublishers \/ LogStartup

-----------------------------------------------------------------------------
(* TIM-MARS: its two callbacks, its executor and its process.               *)

Waiting ==
  (IF selects # <<>> THEN {"select"} ELSE {}) \cup (IF clears # <<>> THEN {"clear"} ELSE {})

\* The executor wakes up for what has arrived.
TimWaits ==
  /\ tim.up /\ tim.batch = {}
  /\ \E arrived \in SUBSET Waiting :
       /\ arrived # {}
       /\ tim' = [tim EXCEPT !.batch = arrived]
  /\ UNCHANGED <<selects, clears>>

\* The id 0 clears as well.
TimSelects ==
  /\ "select" \in tim.batch
  /\ LET selected == IF Head(selects).id = None THEN Nothing ELSE Head(selects)
     IN  tim' = [tim EXCEPT !.batch = @ \ {"select"}, !.follows = selected]
  /\ selects' = Tail(selects)
  /\ UNCHANGED clears

TimClears ==
  /\ tim.batch = {"clear"}
  /\ tim' = [tim EXCEPT !.batch = {}, !.follows = Nothing]
  /\ clears' = Tail(clears)
  /\ UNCHANGED selects

\* A restarted TIM-MARS follows nobody; what was under way is lost.
TimDies ==
  /\ tim.up
  /\ tim' = [up |-> FALSE, follows |-> Nothing, batch |-> {}]
  /\ selects' = <<>> /\ clears' = <<>>

TimStarts ==
  /\ ~tim.up
  /\ tim' = [tim EXCEPT !.up = TRUE]
  /\ UNCHANGED <<selects, clears>>

TimStep ==
  /\ TimWaits \/ TimSelects \/ TimClears \/ TimDies \/ TimStarts
  /\ UNCHANGED <<watched, client, focus, generation, active, http, raced, stale, tracks,
                 trackCount, service, log, unlogged, phase>>

ControlInit ==
  /\ watched \in BOOLEAN /\ client \in {"one", "many"}
  /\ focus = None /\ generation = 0 /\ active = None
  /\ http = [h \in Handlers |-> [at |-> "new", kind |-> "clear", target |-> None,
                                 gen |-> 0]]
  /\ selects = <<>> /\ clears = <<>> /\ raced = {}
  /\ tim = [up |-> TRUE, follows |-> Nothing, batch |-> {}]
  /\ stale = 0 /\ tracks = [at |-> "idle", focus |-> None] /\ trackCount = 0
  /\ service = {} /\ log = <<>> /\ unlogged = {} /\ phase = "starting"
=============================================================================
