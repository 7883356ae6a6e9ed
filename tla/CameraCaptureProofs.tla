-------------------------- MODULE CameraCaptureProofs --------------------------
(***************************************************************************)
(* Theorems about CameraCapture, for every number of frames and resizes,   *)
(* every timeout and every list of media devices.                          *)
(***************************************************************************)
EXTENDS CameraCapture, SequenceTheorems, WellFoundedInduction, TLAPS

-----------------------------------------------------------------------------
(* The inductive invariant.                                                *)

Places == {"wait", "copy", "prepare", "resize", "send", "sent", "dead", "ended"}

\* Counters count, and what is held is a frame with a stamp.
CountersOK ==
  /\ latest \in [id : Nat, stamp : Nat]
  /\ out \in [at : Places, id : Nat, stamp : Nat]
  /\ sent \in [id : Nat, stamp : Nat, resizes : Nat]
  /\ {age, lastId, resizes} \subseteq Nat

\* A frame and its stamp stay together in every place that holds them.
StampsTogether ==
  latest.stamp = latest.id /\ out.stamp = out.id /\ sent.stamp = sent.id

\* Copied and sent frames are not newer than the newest.
NothingFromTheFuture ==
  {out.id, sent.id, lastId} \subseteq 0 .. latest.id /\ sent.resizes <= resizes

\* The last number is that of the last message, or a resize came after it; a
\* frame on its way was not sent before, or a resize came after it.
NewOrResized ==
  /\ out.at # "sent" => lastId = sent.id \/ resizes > sent.resizes
  /\ out.at \in {"prepare", "resize", "send"} =>
       out.id > sent.id \/ (out.id = sent.id /\ resizes > sent.resizes)
  /\ out.at = "sent" => out.id = sent.id

\* The age the watchdog has looked at is within the limit.
AgeWasLookedAt ==
  phase \in {"configuring", "opening", "running"} =>
    age <= Limit + 1 /\ (polled => age <= Limit)

\* The phases and places there are; the sizes are the one asked for or one that
\* a sensor may report.
SizesOK ==
  /\ phase \in {"configuring", "opening", "running", "stopping", "destroyed", "exited"}
  /\ capture \in {"off", "loop", "reading", "closed", "retry", "stored", "ended"}
  /\ {width, target} \subseteq Sizes \cup {Asked}
  /\ buffer \in Sizes \cup {0, Asked}

CInv ==
  /\ CountersOK /\ StampsTogether /\ NothingFromTheFuture /\ NewOrResized /\ AgeWasLookedAt
  /\ SizesOK /\ OpensWithTheSensorsSize

-----------------------------------------------------------------------------
(* The configuration.                                                      *)

\* The first of some positions in the list is one of them.
LEMMA FirstFacts ==
  ASSUME NEW places \in SUBSET DOMAIN MediaDevices, places # {}
  PROVE  First(places) \in Range(MediaDevices)
<1>1. places \subseteq Nat
  BY DevicesAssumption, LenProperties
<1>2. PICK i \in places : \A j \in places : <<j, i>> \notin OpToRel(<, Nat)
  BY <1>1, NatLessThanWellFounded, WFMin
<1>3. \A j \in places : ~(j < i)
  BY <1>1, <1>2 DEF OpToRel
<1>4. \A j \in places : i <= j
  BY <1>1, <1>3
<1>5. (CHOOSE k \in places : \A j \in places : k <= j) \in places
  BY <1>4
<1> QED BY <1>5 DEF First, Range

\* The size detected is one that a sensor may report, or none.
LEMMA DetectedFacts ==
  ASSUME NEW world \in Worlds
  PROVE  Detected(world) \in Sizes \cup {0}
<1>1. DOMAIN MediaDevices # {}
  <2>1. Len(MediaDevices) # 0
    BY DevicesAssumption, EmptySeq
  <2>2. Len(MediaDevices) \in Nat /\ DOMAIN MediaDevices = 1 .. Len(MediaDevices)
    BY DevicesAssumption, LenProperties
  <2> QED BY <2>1, <2>2
<1>2. \A g \in {"full", "csi"} : Showing(world, g) \subseteq DOMAIN MediaDevices
  BY DEF Showing
<1>3. MediaDevice(world) \in Range(MediaDevices)
  BY <1>1, <1>2, FirstFacts DEF MediaDevice
<1>4. world[MediaDevice(world)] \in Topologies
  BY <1>3 DEF Worlds
<1>5. \A t \in Topologies : t.size \in Sizes \cup {0}
  BY DEF Topologies
<1> QED BY <1>4, <1>5 DEF Detected

\* Unless the constructor raises the size is the one asked for, or the one
\* detected; the latter if the sensor refused the former.
LEMMA SizeFacts ==
  ASSUME NEW world \in Worlds, NEW refused \in BOOLEAN, NEW adopt \in BOOLEAN,
         NEW strict \in BOOLEAN, SizeUsed(Detected(world), refused, adopt, strict) # 0
  PROVE  /\ SizeUsed(Detected(world), refused, adopt, strict) \in Sizes \cup {Asked}
         /\ SensorsSize(world, SizeUsed(Detected(world), refused, adopt, strict), refused)
<1>1. SizeUsed(Detected(world), refused, adopt, strict) \in Sizes \cup {Asked}
  BY DetectedFacts DEF SizeUsed
<1>2. ASSUME refused, Showing(world, "full") # {}, world[First(Showing(world, "full"))].size # 0
      PROVE  SizeUsed(Detected(world), refused, adopt, strict)
               = world[First(Showing(world, "full"))].size
  <2>1. Detected(world) = world[First(Showing(world, "full"))].size
    BY <1>2 DEF Detected, MediaDevice
  <2> QED BY <1>2, <2>1 DEF SizeUsed
<1> QED BY <1>1, <1>2 DEF SensorsSize

-----------------------------------------------------------------------------
(* Each conjunct holds at first and is kept.                               *)

\* The initial state satisfies the invariant.
LEMMA CaptureInit == Init => CInv
<1> SUFFICES ASSUME Init PROVE CInv
  OBVIOUS
<1> USE DEF Init
<1>1. CountersOK
  <2>1. latest \in [id : Nat, stamp : Nat]
    OBVIOUS
  <2>2. out \in [at : Places, id : Nat, stamp : Nat]
    BY DEF Places
  <2>3. sent \in [id : Nat, stamp : Nat, resizes : Nat]
    OBVIOUS
  <2>4. {age, lastId, resizes} \subseteq Nat
    OBVIOUS
  <2> QED BY <2>1, <2>2, <2>3, <2>4 DEF CountersOK
<1>2. StampsTogether /\ NothingFromTheFuture
  BY DEF StampsTogether, NothingFromTheFuture
<1>3. NewOrResized
  BY DEF NewOrResized
<1>4. AgeWasLookedAt
  BY CaptureAssumption DEF AgeWasLookedAt, Limit
<1>5. SizesOK
  BY DEF SizesOK
<1>6. OpensWithTheSensorsSize
  BY DEF OpensWithTheSensorsSize
<1> QED BY <1>1, <1>2, <1>3, <1>4, <1>5, <1>6 DEF CInv

\* No thread but these changes what the publishing thread copies.
LEMMA CountersStep == CInv /\ [Next]_vars => CountersOK'
<1> SUFFICES ASSUME CInv, [Next]_vars PROVE CountersOK'
  OBVIOUS
<1> USE DEF CountersOK, Places
<1>1. CountersOK
  BY DEF CInv
<1>2. CASE Configure \/ Open
  BY <1>1, <1>2 DEF Configure, Open, outVars
<1>3. CASE CaptureStep
  BY <1>1, <1>3 DEF CaptureStep, CaptureTo, Turn, ReadFails, Reopen, Retry, Store, Wake, outVars
<1>4. CASE OutStep
  <2>1. UNCHANGED <<captureVars, resizes>>
    BY <1>4 DEF OutStep, StopsWaiting, Awake, NobodyLooks, Copy, Prepare, Resize, Send, Mark
  <2>2. lastId' \in Nat /\ sent' \in [id : Nat, stamp : Nat, resizes : Nat]
    BY <1>1, <1>4 DEF OutStep, StopsWaiting, Awake, NobodyLooks, Copy, Prepare, Resize, Send, Mark
  <2>3. out' \in [at : Places, id : Nat, stamp : Nat]
    BY <1>1, <1>4 DEF OutStep, StopsWaiting, Awake, NobodyLooks, Copy, Prepare, Resize, Send,
       Mark, OutTo
  <2> QED BY <1>1, <2>1, <2>2, <2>3 DEF captureVars
<1>5. CASE SetSize \/ Stop \/ Destroy
  BY <1>1, <1>5 DEF SetSize, Stop, Destroy, captureVars, outVars
<1>6. CASE Tick \/ Watch
  BY <1>1, <1>6 DEF Tick, Watch, outVars
<1>7. CASE UNCHANGED vars
  BY <1>1, <1>7 DEF vars, captureVars, outVars
<1> QED BY <1>2, <1>3, <1>4, <1>5, <1>6, <1>7 DEF Next

\* The stamp is taken with the frame, under the lock, and travels with it.
LEMMA StampsStep == CInv /\ [Next]_vars => StampsTogether'
<1> SUFFICES ASSUME CInv, [Next]_vars PROVE StampsTogether'
  OBVIOUS
<1> USE DEF StampsTogether
<1>1. StampsTogether /\ CountersOK
  BY DEF CInv
<1>2. CASE Store
  BY <1>1, <1>2 DEF Store, outVars
<1>3. CASE Copy
  BY <1>1, <1>3 DEF Copy, CountersOK, captureVars
<1>4. CASE Send
  BY <1>1, <1>4 DEF Send, OutTo, CountersOK, captureVars
<1>5. CASE OutStep /\ ~Copy /\ ~Send
  <2>1. UNCHANGED <<captureVars, sent>>
    BY <1>5 DEF OutStep, StopsWaiting, Awake, NobodyLooks, Prepare, Resize, Mark
  <2>2. out'.stamp = out.stamp /\ out'.id = out.id
    BY <1>1, <1>5 DEF OutStep, StopsWaiting, Awake, NobodyLooks, Prepare, Resize, Mark, OutTo,
       CountersOK
  <2> QED BY <1>1, <2>1, <2>2 DEF captureVars
<1>6. CASE UNCHANGED <<latest, out, sent>>
  BY <1>1, <1>6
<1> QED BY <1>2, <1>3, <1>4, <1>5, <1>6
  DEF Next, Configure, Open, CaptureStep, CaptureTo, Turn, ReadFails, Reopen, Retry, Wake,
      SetSize, Tick, Watch, Stop, Destroy, vars, captureVars, outVars

\* What is copied is the newest frame, and frames only get newer.
LEMMA PastStep == CInv /\ [Next]_vars => NothingFromTheFuture'
<1> SUFFICES ASSUME CInv, [Next]_vars PROVE NothingFromTheFuture'
  OBVIOUS
<1> USE DEF NothingFromTheFuture
<1>1. NothingFromTheFuture /\ CountersOK
  BY DEF CInv
<1> USE DEF CountersOK
<1>2. CASE Store
  BY <1>1, <1>2 DEF Store, outVars
<1>3. CASE SetSize
  BY <1>1, <1>3 DEF SetSize, captureVars
<1>4. CASE OutStep
  <2>1. UNCHANGED <<latest, resizes>>
    BY <1>4 DEF OutStep, StopsWaiting, Awake, NobodyLooks, Copy, Prepare, Resize, Send, Mark,
       captureVars
  <2>2. out'.id \in {out.id, latest.id}
    BY <1>1, <1>4 DEF OutStep, StopsWaiting, Awake, NobodyLooks, Copy, Prepare, Resize, Send,
       Mark, OutTo
  <2>3. lastId' \in {lastId, out.id}
    BY <1>4 DEF OutStep, StopsWaiting, Awake, NobodyLooks, Copy, Prepare, Resize, Send, Mark
  <2>4. sent' = sent \/ (sent'.id = out.id /\ sent'.resizes = resizes)
    BY <1>4 DEF OutStep, StopsWaiting, Awake, NobodyLooks, Copy, Prepare, Resize, Send, Mark
  <2> QED BY <1>1, <2>1, <2>2, <2>3, <2>4
<1>5. CASE UNCHANGED <<latest, outVars>>
  BY <1>1, <1>5 DEF outVars
<1>6. CASE UNCHANGED <<latest, out, sent, lastId, resizes>>
  BY <1>1, <1>6
<1> QED BY <1>2, <1>3, <1>4, <1>5, <1>6
  DEF Next, Configure, Open, CaptureStep, CaptureTo, Turn, ReadFails, Reopen, Retry, Wake,
      Tick, Watch, Stop, Destroy, vars, captureVars, outVars

\* Copying refuses the frame that was sent last, unless a resize asked for it
\* again; a reset that is lost leaves the resize to account for it.
LEMMA NewStep == CInv /\ [Next]_vars => NewOrResized'
<1> SUFFICES ASSUME CInv, [Next]_vars PROVE NewOrResized'
  OBVIOUS
<1> USE DEF NewOrResized
<1>1. NewOrResized /\ CountersOK /\ NothingFromTheFuture
  BY DEF CInv
<1> USE DEF CountersOK, OutTo
<1>2. CASE SetSize
  BY <1>1, <1>2 DEF SetSize, captureVars, NothingFromTheFuture
<1>3. CASE Copy
  BY <1>1, <1>3 DEF Copy, captureVars, NothingFromTheFuture
<1>4. CASE Send
  BY <1>1, <1>4 DEF Send, captureVars
<1>5. CASE Mark
  <2>1. lastId' = sent'.id
    BY <1>1, <1>5 DEF Mark
  <2>2. out'.at = "wait"
    BY <1>1, <1>5 DEF Mark
  <2> QED BY <2>1, <2>2
<1>6. CASE StopsWaiting \/ Awake \/ NobodyLooks \/ Prepare \/ Resize
  BY <1>1, <1>6 DEF StopsWaiting, Awake, NobodyLooks, Prepare, Resize, captureVars
<1>7. CASE UNCHANGED <<out, lastId, sent, resizes>>
  BY <1>1, <1>7
<1> QED BY <1>2, <1>3, <1>4, <1>5, <1>6, <1>7
  DEF Next, Configure, Open, CaptureStep, CaptureTo, Turn, ReadFails, Reopen, Retry, Store, Wake,
      OutStep, Tick, Watch, Stop, Destroy, vars, captureVars, outVars

\* Time goes on only after the watchdog has found the age within the limit;
\* the limit changes with the first frame, which also sets the age to zero.
LEMMA AgeStep == CInv /\ [Next]_vars => AgeWasLookedAt'
<1> SUFFICES ASSUME CInv, [Next]_vars PROVE AgeWasLookedAt'
  OBVIOUS
<1>1. AgeWasLookedAt /\ CountersOK
  BY DEF CInv
<1>2. {StartupTicks, StallTicks, Limit, Limit'} \subseteq Nat
  BY CaptureAssumption DEF Limit
<1> USE DEF AgeWasLookedAt
<1>3. CASE Tick
  BY <1>1, <1>2, <1>3 DEF Tick, Limit, CountersOK
<1>4. CASE Watch
  BY <1>1, <1>2, <1>4 DEF Watch, Limit, CountersOK
<1>5. CASE Store
  BY <1>1, <1>2, <1>5 DEF Store
<1>6. CASE /\ UNCHANGED <<latest, age, polled>>
           /\ \/ phase' = phase
              \/ phase \in {"configuring", "opening"}
              \/ phase' \notin {"configuring", "opening", "running"}
  BY <1>1, <1>6 DEF Limit
<1> QED BY <1>3, <1>4, <1>5, <1>6
  DEF Next, Configure, Open, CaptureStep, CaptureTo, Turn, ReadFails, Reopen, Retry, Wake, OutStep,
      StopsWaiting, Awake, NobodyLooks, Copy, Prepare, Resize, Send, Mark, SetSize, Stop,
      Destroy, vars, captureVars, outVars

\* The sizes come from the configuration and from checked parameters.
LEMMA SizesStep == CInv /\ [Next]_vars => SizesOK'
<1> SUFFICES ASSUME CInv, [Next]_vars PROVE SizesOK'
  OBVIOUS
<1>1. SizesOK
  BY DEF CInv
<1> USE DEF SizesOK
<1>2. CASE Configure
  <2>1. width' \in Sizes \cup {Asked}
    BY <1>2, SizeFacts DEF Configure
  <2>2. phase' \in {"exited", "opening"} /\ UNCHANGED <<capture, target, buffer>>
    BY <1>2 DEF Configure, outVars
  <2> QED BY <1>1, <2>1, <2>2
<1>3. CASE Open
  BY <1>1, <1>3 DEF Open
<1>4. CASE CaptureStep
  BY <1>1, <1>4 DEF CaptureStep, CaptureTo, Turn, ReadFails, Reopen, Retry, Store, Wake, outVars
<1>5. CASE OutStep
  BY <1>1, <1>5 DEF OutStep, StopsWaiting, Awake, NobodyLooks, Copy, Prepare, Resize, Send, Mark,
     captureVars
<1>6. CASE SetSize \/ Tick \/ Watch \/ Stop \/ Destroy
  BY <1>1, <1>6 DEF SetSize, Tick, Watch, Stop, Destroy, captureVars, outVars
<1>7. CASE UNCHANGED vars
  BY <1>1, <1>7 DEF vars, captureVars, outVars
<1> QED BY <1>2, <1>3, <1>4, <1>5, <1>6, <1>7 DEF Next

\* Only the configuration leads to the opening of the camera.
LEMMA SetupStep == CInv /\ [Next]_vars => OpensWithTheSensorsSize'
<1> SUFFICES ASSUME CInv, [Next]_vars, phase' = "opening"
             PROVE  SensorsSize(setup'.world, width', setup'.refused)
  BY DEF OpensWithTheSensorsSize, SensorsSize
<1>1. CASE Configure
  BY <1>1, SizeFacts DEF Configure
<1>2. CASE phase = "opening" /\ UNCHANGED <<setup, width>>
  BY <1>2 DEF CInv, OpensWithTheSensorsSize
<1> QED BY <1>1, <1>2
  DEF Next, Open, CaptureStep, CaptureTo, Turn, ReadFails, Reopen, Retry, Store, Wake, OutStep,
      StopsWaiting, Awake, NobodyLooks, Copy, Prepare, Resize, Send, Mark, SetSize, Tick, Watch,
      Stop, Destroy, vars, captureVars, outVars

\* Every step keeps the invariant.
LEMMA CaptureStepInv == CInv /\ [Next]_vars => CInv'
BY CountersStep, StampsStep, PastStep, NewStep, AgeStep, SizesStep, SetupStep DEF CInv

\* The invariant holds for ever.
LEMMA CaptureInv == Spec => []CInv
BY CaptureInit, CaptureStepInv, PTL DEF Spec

-----------------------------------------------------------------------------
(* The properties.                                                         *)

\* A published image carries the stamp of its own capture, whatever was
\* captured while it was copied and resized.
THEOREM Stamp_Is_The_Frames == Spec => []StampIsTheFrames
<1>1. CInv => StampIsTheFrames
  BY DEF CInv, StampsTogether, StampIsTheFrames
<1> QED BY <1>1, CaptureInv, PTL

\* What is copied, published and remembered was captured, sizes are those asked
\* for or reported, the stamp is the frame's, and the camera is opened with the
\* size of a sensor that refused another, wherever its media device stands.
THEOREM Capture_Consistent == Spec => []CaptureConsistent
<1>1. CInv => TypeOK
  BY DEF CInv, CountersOK, Places, NothingFromTheFuture, SizesOK, TypeOK
<1>2. CInv => CaptureConsistent
  BY <1>1 DEF CInv, StampsTogether, StampIsTheFrames, CaptureConsistent
<1> QED BY <1>2, CaptureInv, PTL

\* A camera that gives no frame ends the process within its time and one
\* period of the watchdog.
THEOREM Stall_Ends_Process == Spec => []StallEndsProcess
<1>1. CInv => StallEndsProcess
  BY DEF CInv, AgeWasLookedAt, StallEndsProcess
<1> QED BY <1>1, CaptureInv, PTL

\* Images are published in the order of their capture, and again only when a
\* resize came between: losing the reset of a resize repeats none.
THEOREM Each_Image_Once == Spec => EachImageOnce
<1>1. CInv => (Sends => \/ out.id > sent.id
                        \/ out.id = sent.id /\ resizes > sent.resizes)
  BY DEF CInv, NewOrResized, Sends
<1> QED BY <1>1, CaptureInv, PTL DEF Spec, EachImageOnce

-----------------------------------------------------------------------------
(* No wake-up is lost.                                                      *)

\* While a frame newer than the last message is there, the thread that waits
\* for nothing but frames has been woken, is about to be, or is on its way with
\* that frame: the event is cleared before the copy, and the number of the last
\* message is never ahead of the message.
NothingForgotten ==
  /\ lastId <= sent.id
  /\ phase \in {"configuring", "opening"} => latest.id = 0
  /\ kind = "eager" /\ phase = "running" /\ out.at \notin {"dead", "ended"}
     /\ latest.id > sent.id =>
       \/ event \/ capture = "stored" \/ out.at = "copy"
       \/ out.at \in {"prepare", "resize", "send"} /\ out.id = latest.id

LEMMA ForgottenStep == CInv /\ NothingForgotten /\ [Next]_vars => NothingForgotten'
<1> SUFFICES ASSUME CInv, NothingForgotten, [Next]_vars
             PROVE  NothingForgotten'
  OBVIOUS
<1>1. /\ latest \in [id : Nat, stamp : Nat] /\ out \in [at : Places, id : Nat, stamp : Nat]
      /\ sent \in [id : Nat, stamp : Nat, resizes : Nat] /\ lastId \in Nat
      /\ lastId <= sent.id
      /\ out.at = "sent" => out.id = sent.id
      /\ out.at \in {"prepare", "resize", "send"} => out.id >= sent.id
  BY DEF CInv, CountersOK, NewOrResized, NothingForgotten
<1> USE <1>1 DEF NothingForgotten, outVars, captureVars, CaptureTo, OutTo, Places
<1>2. CASE Configure \/ Open \/ UNCHANGED vars
  BY <1>2 DEF Configure, Open, vars
<1>3. CASE Alive /\ CaptureStep
  BY <1>3 DEF Alive, CaptureStep, Turn, ReadFails, Reopen, Retry, Store, Wake
<1>4. CASE StopsWaiting \/ Awake \/ NobodyLooks
  BY <1>4 DEF StopsWaiting, Awake, NobodyLooks, Stopped
<1>5. CASE Copy
  BY <1>5 DEF Copy
<1>6. CASE Prepare \/ Resize
  BY <1>6 DEF Prepare, Resize
<1>7. CASE Send \/ Mark
  BY <1>7 DEF Send, Mark, Stopped
<1>8. CASE SetSize
  BY <1>8 DEF SetSize
<1>9. CASE Tick \/ Watch \/ Stop \/ Destroy
  BY <1>9 DEF Tick, Watch, Stop, Destroy
<1> QED
  BY <1>2, <1>3, <1>4, <1>5, <1>6, <1>7, <1>8, <1>9 DEF Next, OutStep

\* The wait of the publishing thread misses no frame, whatever is captured,
\* copied or resized meanwhile: what NewestIsPublished adds is that the thread
\* goes on.
THEOREM No_Wakeup_Lost == Spec => []NothingForgotten
<1>1. Init => NothingForgotten
  BY DEF Init, NothingForgotten
<1> QED
  BY <1>1, ForgottenStep, CaptureInv, PTL DEF Spec
=============================================================================
