--------------------------- MODULE DashboardBridge ---------------------------
(***************************************************************************)
(* dashboard_bridge_node.py: its control side with the telemetry it sends  *)
(* to the browsers, and its shutdown.                                      *)
(*                                                                         *)
(* Whatever changes the state shown sets the dirty flag under the lock; a  *)
(* timer takes a copy and clears the flag, and the copy is sent by the     *)
(* asyncio loop.  Of a copy only matters whether it is still the state:    *)
(* "fresh".  A browser that connects gets the state at once.  Where none   *)
(* ever connects the telemetry is left out.                                *)
(*                                                                         *)
(* CarelessConnect is a coding error, not the code.                        *)
(***************************************************************************)
EXTENDS DashboardControl

CONSTANT MaxOther   \* bound of the other changes of the state

VARIABLES
  dirty,    \* _dirty
  copies,   \* broadcasts scheduled on the loop: is each still the state?
  browser,  \* off, or whether the page shows the state
  others    \* changes by the callbacks of detections, timing, memory status...

webVars == <<dirty, copies, browser, others>>
vars == <<controlVars, webVars>>

\* The state shown has changed.
Changed ==
  /\ watched /\ dirty' = TRUE
  /\ copies' = [i \in 1 .. Len(copies) |-> FALSE]
  /\ browser' = IF browser = "off" THEN "off" ELSE "old"

ControlStep ==
  \/ \E h \in Handlers : Handle(h) \/ Serve(h)
  \/ TracksStep \/ TimStep

Control ==
  /\ ControlStep
  /\ IF watched /\ (focus' # focus \/ generation' # generation \/ (tracks.at = "write" /\ tracks'.at = "idle"))
     THEN Changed /\ UNCHANGED others
     ELSE UNCHANGED webVars

Start == StartStep /\ UNCHANGED webVars

OtherChange ==
  /\ phase = "up" /\ others < MaxOther
  /\ others' = others + 1
  /\ Changed
  /\ UNCHANGED controlVars

\* The flag and the copy belong together.
Flush ==
  /\ dirty /\ phase = "up"
  /\ dirty' = FALSE
  /\ copies' = Append(copies, TRUE)
  /\ UNCHANGED <<controlVars, browser, others>>

Broadcast ==
  /\ copies # <<>>
  /\ copies' = Tail(copies)
  /\ browser' = IF browser = "off" THEN "off" ELSE IF Head(copies) THEN "fresh" ELSE "old"
  /\ UNCHANGED <<controlVars, dirty, others>>

CarelessConnect ==
  /\ watched /\ browser = "off" /\ phase # "down"
  /\ browser' = "old"
  /\ UNCHANGED <<controlVars, dirty, copies, others>>

Connect ==
  /\ watched /\ browser = "off" /\ phase # "down"
  /\ browser' = "fresh"
  /\ UNCHANGED <<controlVars, dirty, copies, others>>

Disconnect ==
  /\ browser # "off" /\ browser' = "off"
  /\ UNCHANGED <<controlVars, dirty, copies, others>>

\* destroy_node stops the servers and the loop; request threads may outlive it.
Destroy ==
  /\ phase = "up" /\ phase' = "down"
  /\ browser' = "off" /\ copies' = <<>>
  /\ UNCHANGED <<watched, client, focus, generation, active, http, selects, clears, raced, tim,
                 stale, tracks, trackCount, service, log, unlogged, dirty, others>>

Init == ControlInit /\ dirty = FALSE /\ copies = <<>> /\ browser = "off" /\ others = 0

Next == Start \/ Control \/ OtherChange \/ Flush \/ Broadcast \/ Connect \/ Disconnect \/ Destroy

Spec == Init /\ [][Next]_vars

\* The node becomes complete, and its timer and its loop run.
FairSpec ==
  /\ Spec
  /\ WF_vars(Start) /\ WF_vars(Flush) /\ WF_vars(Broadcast)

-----------------------------------------------------------------------------
(* Properties.                                                             *)

TypeOK ==
  /\ focus \in Targets \cup {None} /\ active \in Targets \cup {None}
  /\ generation = Cardinality({h \in Handlers : http[h].gen # 0})
  /\ \A g, h \in Handlers : http[g].gen = http[h].gen /\ http[g].gen # 0 => g = h
  /\ Len(selects) + Len(clears) <= generation
  /\ tim.batch \subseteq {"select", "clear"}
  /\ browser \in {"off", "fresh", "old"} /\ service \subseteq Handlers

Logged == {log[i] : i \in 1 .. Len(log)}

\* The event log holds no change of authority twice, none that did not happen
\* and none whose writing failed.  As soon as no request is under way, what it
\* lacks is what could not be written and the changes whose request died while
\* it published; the first event belongs to the node's start.  The threads
\* number under one lock and write under another, so the order is any.
LogLosesOnlyFailures ==
  /\ \A i, j \in 1 .. Len(log) : log[i] = log[j] => i = j
  /\ Logged \cap unlogged = {} /\ Logged \cup unlogged \subseteq 0 .. generation
  /\ phase \in {"up", "down"} <=> 0 \in Logged \cup unlogged
  /\ (\A h \in Handlers : ~UnderWay(h)) =>
       1 .. generation \ (Logged \cup unlogged) =
         {http[h].gen : h \in {g \in Handlers : http[g].at = "raised"}}

\* The request of the last change of authority died while it published.
LastRaised == \E h \in Handlers : http[h].at = "raised" /\ http[h].gen = generation

\* One operator who waits for each answer: once TIM-MARS has taken every command
\* that was sent, it follows nobody or the target asked for last (its id cut to
\* the width of the message).  If the last request revoked the target it follows
\* nobody, provided no selection was under way when the revocation was sent:
\* select and clear are two topics, and a clear may overtake an older selection.
TimFollowsTheLastWord ==
  client = "one" /\ selects = <<>> /\ clears = <<>>
  /\ (\A h \in Handlers : ~UnderWay(h)) /\ ~LastRaised =>
    IF focus = None
    THEN tim.follows = Nothing \/ generation \in raced
    ELSE tim.follows \in {Nothing, [id |-> focus % IdLimit, gen |-> generation]}

\* One operator: when the model or the tracker changes, also long after the
\* request gave up, TIM-MARS has no selection older than the switch, or a clear
\* as late as the switch is under way; again provided that no selection was
\* under way when the switch sent its clear.
SwitchAfterRevocation ==
  [][client = "one" =>
       \A h \in service \ service' :
         \/ tim.follows = Nothing \/ tim.follows.gen > http[h].gen
         \/ \E i \in 1 .. Len(clears) : clears[i].gen >= http[h].gen
         \/ http[h].gen \in raced]_vars

\* The old target appears at most once more on the raw target topic after
\* the authority changed.
OneStaleRawTarget == stale <= 1

BridgeConsistent == TypeOK /\ OneStaleRawTarget

\* A connected browser shows the state in the end, unless the state goes on
\* changing, also when it connected between a copy and its broadcast.
BrowserCatchesUp == browser = "old" ~> browser # "old"
=============================================================================
