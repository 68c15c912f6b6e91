----------------------------- MODULE FaceCamera -----------------------------
(***************************************************************************)
(* The camera at work: three tasks share the list of faces and four flags  *)
(* without a lock.  loop() recognises whoever stands there and answers the *)
(* Center; the stream server's task does so while somebody watches; the    *)
(* web server's task does so for a single picture and carries out the      *)
(* page's commands, one request at a time.                                 *)
(*                                                                         *)
(* run_face_recognition() is split where a task may lose the processor     *)
(* between reading something the others write and acting on it.  A call of *)
(* the face library is one step, when it returns.                          *)
(*                                                                         *)
(* The wires are named as in the camera's code: the Center asks on         *)
(* camRXPin and is answered on camTXPin, with 0.                           *)
(***************************************************************************)
EXTENDS FaceList

CONSTANTS Driver, Nobody,
          StartLists,   \* what encrollImageSD() may leave, as [faces, count, who]
          MaxEvents     \* bound: commands of the page and restarts

Tasks == {"loop", "stream", "camera"}

ASSUME FaceCameraAssumption ==
  /\ MaxEvents \in Nat /\ Driver \in Persons /\ Nobody \notin Persons
  /\ \A s \in StartLists :
       /\ s.faces \in Seq(Faces) /\ Len(s.faces) <= SaveNumber
       /\ s.count \in 0..(ConfirmTimes - 1) /\ s.who \in Faces

VARIABLES
  pc,          \* of each task
  seen,        \* the person whose aligned face it holds, if any
  streamState, detection_enabled, recognition_enabled, is_enrolling,
  wide,        \* the frames are wider than 400
  camRXPin, camTXPin,
  disturbed,   \* the tasks whose recognition a cleared or replaced face met
  granted,     \* history: the tasks that may enrol for the last request
  events

flags == <<streamState, detection_enabled, recognition_enabled, is_enrolling,
           wide>>
wires == <<camRXPin, camTXPin>>
history == <<granted, events>>
vars == <<pc, seen, listVars, flags, wires, disturbed, history>>

Bit == {0, 1}

(* The end of setup().                                                     *)
Resting == [t \in Tasks |-> IF t = "stream" THEN "off" ELSE "idle"]

Init ==
  /\ pc = Resting /\ seen = [t \in Tasks |-> Nobody]
  /\ \E s \in StartLists : faces = s.faces /\ count = s.count /\ who = s.who
  /\ streamState = FALSE /\ detection_enabled = 1 /\ recognition_enabled = 1
  /\ is_enrolling = 0 /\ wide = FALSE
  /\ camRXPin \in Bit /\ camTXPin = 1
  /\ disturbed = {} /\ granted = {} /\ events = 0

-----------------------------------------------------------------------------
Goes(t, from, to) == pc[t] = from /\ pc' = [pc EXCEPT ![t] = to]

(* What a task does after run_face_recognition().                          *)
Rest(t) == IF t = "loop" THEN "poll" ELSE "idle"

(* A step of it; the face is freed at its end.                             *)
Advances(t, from, to) ==
  /\ Goes(t, from, to)
  /\ seen' = IF to = Rest(t) THEN [seen EXCEPT ![t] = Nobody] ELSE seen

(* Whether a task goes on to recognise.  A picture for the page has its    *)
(* faces detected only if that is on and the frame is not wide, else it    *)
(* goes out as it is; the loop asks for neither detection nor width.       *)
PageDetects == detection_enabled = 1 /\ ~wide

Recognises(t) ==
  /\ recognition_enabled = 1
  /\ IF t = "loop" THEN streamState = FALSE ELSE PageDetects

(* A frame with a face that can be aligned.                                *)
Look(t, p) ==
  /\ Goes(t, "idle", "align") /\ Recognises(t)
  /\ seen' = [seen EXCEPT ![t] = p]
  /\ UNCHANGED <<listVars, flags, wires, disturbed, history>>

(* Nothing to recognise in this pass of the loop.                          *)
LoopSkips ==
  /\ Goes("loop", "idle", "poll")
  /\ UNCHANGED <<seen, listVars, flags, wires, disturbed, history>>

Choose(t) ==
  /\ Goes(t, "align", IF is_enrolling = 1 THEN "enroll" ELSE "recognize")
  /\ disturbed' = disturbed \ {t}
  /\ UNCHANGED <<seen, listVars, flags, wires, history>>

(* Another task may hold a match of the face that goes.                    *)
Disturb(t) == {u \in Tasks \ {t} : pc[u] \in {"recognize", "match", "lower"}}

Enroll(t) ==
  /\ Advances(t, "enroll", IF Left = 0 THEN "finish" ELSE Rest(t))
  /\ EnrollFace(seen[t])
  /\ granted' = IF Left = 0 THEN granted \ {t} ELSE granted
  /\ disturbed' = IF Left = 0 /\ Len(faces) = SaveNumber
                  THEN disturbed \cup Disturb(t) ELSE disturbed
  /\ UNCHANGED <<flags, wires, events>>

Pending == {t \in granted : pc[t] = "enroll"}

(* Mutant: the request stays after the last sample.                        *)
KeepEnrolling == UNCHANGED is_enrolling

StopEnrolling == is_enrolling' = 0

(* left_sample_face is 0: whatever was asked for meanwhile, enrolment ends.*)
Finish(t) ==
  /\ Advances(t, "finish", Rest(t)) /\ StopEnrolling
  /\ granted' = Pending
  /\ UNCHANGED <<listVars, streamState, detection_enabled,
                 recognition_enabled, wide, wires, disturbed, events>>

(* Mutant: a negative matched_id is a match, too.                          *)
AnyMatch(p) == TRUE

Matches(p) == MayMatch(p)

(* The list was cleared, or a face replaced, in the middle of the call: it *)
(* may return anything.                                                    *)
Recognize(t) ==
  /\ \/ /\ Matches(seen[t]) \/ t \in disturbed
        /\ Advances(t, "recognize", "match")
     \/ /\ MayMiss(seen[t]) \/ t \in disturbed
        /\ Advances(t, "recognize", Rest(t))
  /\ UNCHANGED <<listVars, flags, wires, disturbed, history>>

Asked(t) ==
  /\ Advances(t, "match", IF camRXPin = 0 THEN "lower" ELSE Rest(t))
  /\ UNCHANGED <<listVars, flags, wires, disturbed, history>>

Lower(t) ==
  /\ Advances(t, "lower", Rest(t)) /\ camTXPin' = 0
  /\ UNCHANGED <<listVars, flags, camRXPin, disturbed, history>>

(* Mutant: the line is never raised again.                                 *)
AlwaysAsked == FALSE

NotAsked == camRXPin = 1

LoopPoll ==
  /\ Goes("loop", "poll", IF NotAsked THEN "raise" ELSE "idle")
  /\ UNCHANGED <<seen, listVars, flags, wires, disturbed, history>>

LoopRaise ==
  /\ Goes("loop", "raise", "idle") /\ camTXPin' = 1
  /\ UNCHANGED <<seen, listVars, flags, camRXPin, disturbed, history>>

-----------------------------------------------------------------------------
(* stream_handler(): one stream at a time.                                 *)
StreamOpens ==
  /\ Goes("stream", "off", "idle") /\ streamState' = TRUE
  /\ UNCHANGED <<seen, listVars, detection_enabled, recognition_enabled,
                 is_enrolling, wide, wires, disturbed, history>>

(* Mutant: only the first of its ends withdraws streamState.               *)
StreamStateKept == UNCHANGED streamState

StreamStateEnds == streamState' = FALSE

(* No picture, no memory, or nobody there to send it to.                   *)
StreamEnds ==
  /\ Goes("stream", "idle", "off") /\ StreamStateEnds
  /\ UNCHANGED <<seen, listVars, detection_enabled, recognition_enabled,
                 is_enrolling, wide, wires, disturbed, history>>

(* cmd_handler(), between two pictures of the same task.                   *)
Command == pc["camera"] = "idle" /\ events < MaxEvents /\ events' = events + 1

ClearFace ==
  /\ Command
  /\ faces' = <<>>
  /\ \/ count' = 0 /\ who' = {}
     \/ UNCHANGED <<count, who>>
  /\ disturbed' = disturbed \cup Disturb("camera")
  /\ UNCHANGED <<pc, seen, flags, wires, granted>>

FaceDetect ==
  /\ Command
  /\ \E val \in Bit :
       /\ detection_enabled' = val
       /\ recognition_enabled' = IF val = 0 THEN 0 ELSE recognition_enabled
  /\ UNCHANGED <<pc, seen, listVars, streamState, is_enrolling, wide, wires,
                 disturbed, granted>>

FaceEnroll ==
  /\ Command
  /\ \E val \in Bit :
       /\ is_enrolling' = val
       /\ granted' = IF val = 1 THEN Tasks ELSE Pending
  /\ UNCHANGED <<pc, seen, listVars, streamState, detection_enabled,
                 recognition_enabled, wide, wires, disturbed>>

FaceRecognize ==
  /\ Command
  /\ \E val \in Bit :
       /\ recognition_enabled' = val
       /\ detection_enabled' = IF val = 1 THEN val ELSE detection_enabled
  /\ UNCHANGED <<pc, seen, listVars, streamState, is_enrolling, wide, wires,
                 disturbed, granted>>

Framesize ==
  /\ Command
  /\ wide' \in BOOLEAN
  /\ UNCHANGED <<pc, seen, listVars, streamState, detection_enabled,
                 recognition_enabled, is_enrolling, wires, disturbed, granted>>

-----------------------------------------------------------------------------
(* A power cut, or ESP.restart() because loop() got no picture.            *)
Restart ==
  /\ events < MaxEvents /\ events' = events + 1
  /\ pc' = Resting
  /\ \E s \in StartLists :
       faces' = s.faces /\ count' = s.count /\ who' = s.who
  /\ streamState' = FALSE /\ detection_enabled' = 1
  /\ recognition_enabled' = 1 /\ is_enrolling' = 0 /\ wide' = FALSE
  /\ camTXPin' = 1 /\ disturbed' = {} /\ granted' = {}
  /\ seen' = [t \in Tasks |-> Nobody] /\ UNCHANGED camRXPin

(* The Center begins a breath test, or ends it.                            *)
CenterAsks ==
  /\ camRXPin' = 1 - camRXPin
  /\ UNCHANGED <<pc, seen, listVars, flags, camTXPin, disturbed, history>>

-----------------------------------------------------------------------------
Work(t) ==
  Choose(t) \/ Enroll(t) \/ Finish(t) \/ Recognize(t) \/ Asked(t) \/ Lower(t)

LoopWork == LoopSkips \/ LoopPoll \/ LoopRaise

Next ==
  \/ \E t \in Tasks : Work(t) \/ \E p \in Persons : Look(t, p)
  \/ LoopWork \/ StreamOpens \/ StreamEnds
  \/ ClearFace \/ FaceDetect \/ FaceEnroll \/ FaceRecognize \/ Framesize
  \/ Restart \/ CenterAsks

Spec == Init /\ [][Next]_vars

(* The scheduler runs every task, the loop goes round, and the driver, if  *)
(* not only he, is before the camera again and again while it looks.       *)
FairSpec ==
  /\ Spec /\ WF_vars(LoopWork)
  /\ \A t \in Tasks : WF_vars(Work(t))
  /\ SF_vars(Look("loop", Driver)) /\ SF_vars(Look("stream", Driver))

-----------------------------------------------------------------------------
TypeOK ==
  /\ pc \in [Tasks -> {"off", "idle", "align", "enroll", "finish",
                       "recognize", "match", "lower", "poll", "raise"}]
  /\ seen \in [Tasks -> Persons \cup {Nobody}]
  /\ \A t \in Tasks :
       pc[t] \in {"align", "enroll", "recognize"} => seen[t] \in Persons
  /\ ListTypeOK
  /\ streamState \in BOOLEAN /\ wide \in BOOLEAN
  /\ {detection_enabled, recognition_enabled, is_enrolling, camRXPin,
      camTXPin} \subseteq Bit
  /\ disturbed \subseteq Tasks /\ granted \subseteq Tasks
  /\ events \in 0..MaxEvents

(* However the tasks overlap, one request of the page lets each of them    *)
(* finish at most one face, and none may begin a sample without a request: *)
(* is_enrolling is read, used and withdrawn in three separate steps.       *)
EnrollmentIsRequested ==
  \A t \in Tasks : pc[t] = "enroll" => t \in granted

(* A task that is about to answer the Center holds a person who has a face *)
(* in the list now, unless the page or a new face changed the list after   *)
(* the task chose to recognise.                                            *)
AnswerIsRegistered ==
  \A t \in Tasks :
    pc[t] \in {"match", "lower"} /\ t \notin disturbed => MayMatch(seen[t])

(* A driver who is known is recognised while the Center asks, whoever      *)
(* streams or stops streaming and though somebody may be being enrolled,   *)
(* as long as recognition stays on and the frames small.                   *)
Recognisable ==
  /\ {Driver} \in Registered
  /\ recognition_enabled = 1 /\ ~wide /\ camRXPin = 0

AnswerComes == <>[]Recognisable => <>[](camTXPin = 0)

(* When the Center no longer asks, the answer is withdrawn for good.       *)
AnswerIsWithdrawn == <>[](camRXPin = 1) => <>[](camTXPin = 1)
=============================================================================
