-------------------------- MODULE FaceCameraProofs --------------------------
(***************************************************************************)
(* Proofs about FaceCamera for every set of people, number of samples and  *)
(* size of the list, and without a bound on commands and restarts that     *)
(* matters.  Two arguments:                                                *)
(*                                                                         *)
(*   - is_enrolling is 1 only as long as every task is either granted or   *)
(*     about to withdraw it, having finished its face;                     *)
(*   - a task with a match holds a face of the list until the list loses   *)
(*     one, which marks it as disturbed.                                   *)
(***************************************************************************)
EXTENDS FaceCamera, FaceListProofs

RequestOpen ==
  is_enrolling = 1 => \A t \in Tasks : t \in granted \/ pc[t] = "finish"

Inv == TypeOK /\ RequestOpen /\ EnrollmentIsRequested /\ AnswerIsRegistered

-----------------------------------------------------------------------------
(* The types hold at the end of setup().                                   *)
LEMMA StartTypes ==
  ASSUME NEW s \in StartLists
  PROVE  /\ s.faces \in Seq(Faces) /\ Len(s.faces) <= SaveNumber
         /\ s.count \in 0..(ConfirmTimes - 1) /\ s.who \in Faces
BY FaceCameraAssumption

LEMMA RestingTypes ==
  Resting \in [Tasks -> {"off", "idle", "align", "enroll", "finish",
                         "recognize", "match", "lower", "poll", "raise"}]
BY DEF Resting

LEMMA InitInv == Init => Inv
<1> SUFFICES ASSUME Init PROVE Inv
  OBVIOUS
<1>1. ListTypeOK
  BY StartTypes DEF Init, ListTypeOK
<1>2. /\ MaxEvents \in Nat /\ seen \in [Tasks -> Persons \cup {Nobody}]
      /\ \A t \in Tasks : pc[t] \notin {"align", "enroll", "recognize"}
  BY FaceCameraAssumption DEF Init, Resting
<1>3. TypeOK
  <2>1. /\ {detection_enabled, recognition_enabled, is_enrolling, camRXPin,
            camTXPin} \subseteq Bit
        /\ streamState \in BOOLEAN /\ wide \in BOOLEAN
    BY DEF Init, Bit
  <2>2. disturbed \subseteq Tasks /\ granted \subseteq Tasks
    BY DEF Init
  <2>3. events \in 0..MaxEvents
    BY <1>2 DEF Init
  <2>4. pc = Resting
    BY DEF Init
  <2> QED BY <1>1, <1>2, <2>1, <2>2, <2>3, <2>4, RestingTypes DEF TypeOK
<1>4. RequestOpen /\ EnrollmentIsRequested /\ AnswerIsRegistered
  BY DEF Init, RequestOpen, EnrollmentIsRequested, AnswerIsRegistered, Resting
<1> QED BY <1>3, <1>4 DEF Inv

LEMMA LookInv ==
  ASSUME Inv, NEW t \in Tasks, NEW p \in Persons, Look(t, p)
  PROVE  Inv'
<1> USE DEF Look, Goes, listVars, flags, wires, history
<1>1. TypeOK'
  BY DEF Inv, TypeOK, ListTypeOK
<1>2. RequestOpen'
  BY DEF Inv, TypeOK, RequestOpen
<1>3. EnrollmentIsRequested'
  BY DEF Inv, TypeOK, EnrollmentIsRequested
<1>4. AnswerIsRegistered'
  BY DEF Inv, TypeOK, AnswerIsRegistered, MayMatch, Registered
<1> QED BY <1>1, <1>2, <1>3, <1>4 DEF Inv

(* A task enrols only if it is granted: it has no face to finish for.      *)
LEMMA ChooseInv ==
  ASSUME Inv, NEW t \in Tasks, Choose(t)
  PROVE  Inv'
<1> USE DEF Choose, Goes, listVars, flags, wires, history
<1>1. TypeOK'
  BY DEF Inv, TypeOK, ListTypeOK
<1>2. RequestOpen'
  BY DEF Inv, TypeOK, RequestOpen
<1>3. EnrollmentIsRequested'
  BY DEF Inv, TypeOK, RequestOpen, EnrollmentIsRequested
<1>4. AnswerIsRegistered'
  BY DEF Inv, TypeOK, AnswerIsRegistered, MayMatch, Registered
<1> QED BY <1>1, <1>2, <1>3, <1>4 DEF Inv

LEMMA EnrollInv ==
  ASSUME Inv, NEW t \in Tasks, Enroll(t)
  PROVE  Inv'
<1> USE DEF Advances, Goes, flags, wires
<1>1. seen[t] \in Persons /\ ListTypeOK /\ EnrollFace(seen[t])
  BY DEF Inv, TypeOK, Enroll
<1>2. ListTypeOK'
  BY <1>1, EnrollTypes
<1>3. TypeOK'
  BY <1>2 DEF Inv, TypeOK, Enroll, Disturb, Rest
<1>4. RequestOpen'
  BY DEF Inv, TypeOK, RequestOpen, Enroll
<1>5. EnrollmentIsRequested'
  BY DEF Inv, TypeOK, EnrollmentIsRequested, Enroll, Rest
<1>6. AnswerIsRegistered'
  <2> SUFFICES ASSUME NEW u \in Tasks, pc'[u] \in {"match", "lower"},
                      u \notin disturbed'
               PROVE  MayMatch(seen[u])'
    BY DEF AnswerIsRegistered
  <2>1. u # t /\ pc[u] \in {"match", "lower"} /\ u \notin disturbed
    BY DEF Inv, TypeOK, Enroll, Rest
  <2>2. MayMatch(seen[u])
    BY <2>1 DEF Inv, AnswerIsRegistered
  <2>3. Left > 0 \/ Len(faces) < SaveNumber
    <3>1. ~(Left = 0 /\ Len(faces) = SaveNumber)
      BY <2>1 DEF Enroll, Disturb
    <3> QED BY <1>1, <3>1, FaceListAssumption DEF ListTypeOK, Left
  <2>4. seen'[u] = seen[u]
    BY <2>1 DEF Inv, TypeOK, Enroll
  <2>5. \A q : MayMatch(q) => MayMatch(q)'
    BY <1>1, <2>3, EnrollKeepsMatches
  <2> QED BY <2>2, <2>4, <2>5 DEF MayMatch
<1> QED BY <1>3, <1>4, <1>5, <1>6 DEF Inv

LEMMA FinishInv ==
  ASSUME Inv, NEW t \in Tasks, Finish(t)
  PROVE  Inv'
<1> USE DEF Finish, Advances, Goes, Rest, Pending, StopEnrolling, listVars, wires
<1>1. TypeOK'
  BY DEF Inv, TypeOK, ListTypeOK, Bit
<1>2. RequestOpen'
  BY DEF RequestOpen
<1>3. EnrollmentIsRequested'
  BY DEF Inv, TypeOK, EnrollmentIsRequested
<1>4. AnswerIsRegistered'
  BY DEF Inv, TypeOK, AnswerIsRegistered, MayMatch, Registered
<1> QED BY <1>1, <1>2, <1>3, <1>4 DEF Inv

(* A match is of a face of the list, or of one that was disturbed.         *)
LEMMA RecognizeInv ==
  ASSUME Inv, NEW t \in Tasks, Recognize(t)
  PROVE  Inv'
<1> USE DEF Recognize, Advances, Goes, Rest, listVars, flags, wires, history
<1>1. TypeOK'
  BY DEF Inv, TypeOK, ListTypeOK
<1>2. RequestOpen'
  BY DEF Inv, TypeOK, RequestOpen
<1>3. EnrollmentIsRequested'
  BY DEF Inv, TypeOK, EnrollmentIsRequested
<1>4. AnswerIsRegistered'
  BY DEF Inv, TypeOK, AnswerIsRegistered, MayMatch, Registered, Matches
<1> QED BY <1>1, <1>2, <1>3, <1>4 DEF Inv

LEMMA AnswerInv ==
  ASSUME Inv, NEW t \in Tasks, Asked(t) \/ Lower(t)
  PROVE  Inv'
<1> USE DEF Asked, Lower, Advances, Goes, Rest, listVars, flags, wires, history
<1>1. TypeOK'
  BY DEF Inv, TypeOK, ListTypeOK, Bit
<1>2. RequestOpen'
  BY DEF Inv, TypeOK, RequestOpen
<1>3. EnrollmentIsRequested'
  BY DEF Inv, TypeOK, EnrollmentIsRequested
<1>4. AnswerIsRegistered'
  BY DEF Inv, TypeOK, AnswerIsRegistered, MayMatch, Registered
<1> QED BY <1>1, <1>2, <1>3, <1>4 DEF Inv

-----------------------------------------------------------------------------
LEMMA LoopInv ==
  ASSUME Inv, LoopSkips \/ LoopPoll \/ LoopRaise
  PROVE  Inv'
<1> USE DEF LoopSkips, LoopPoll, LoopRaise, Goes, listVars, flags, wires,
            history
<1>1. TypeOK'
  BY DEF Inv, TypeOK, ListTypeOK, Bit
<1>2. RequestOpen'
  BY DEF Inv, TypeOK, RequestOpen, Tasks
<1>3. EnrollmentIsRequested'
  BY DEF Inv, TypeOK, EnrollmentIsRequested
<1>4. AnswerIsRegistered'
  BY DEF Inv, TypeOK, AnswerIsRegistered, MayMatch, Registered
<1> QED BY <1>1, <1>2, <1>3, <1>4 DEF Inv

LEMMA StreamInv ==
  ASSUME Inv, StreamOpens \/ StreamEnds
  PROVE  Inv'
<1> USE DEF StreamOpens, StreamEnds, StreamStateEnds, Goes, listVars, wires,
            history
<1>1. TypeOK'
  BY DEF Inv, TypeOK, ListTypeOK
<1>2. RequestOpen'
  BY DEF Inv, TypeOK, RequestOpen, Tasks
<1>3. EnrollmentIsRequested'
  BY DEF Inv, TypeOK, EnrollmentIsRequested
<1>4. AnswerIsRegistered'
  BY DEF Inv, TypeOK, AnswerIsRegistered, MayMatch, Registered
<1> QED BY <1>1, <1>2, <1>3, <1>4 DEF Inv

(* Clearing the list marks every task that holds a match; the web server's *)
(* task holds none, as it carries out the command.                         *)
LEMMA ClearInv ==
  ASSUME Inv, ClearFace
  PROVE  Inv'
<1> USE DEF ClearFace, Command, flags, wires
<1>1. events' \in 0..MaxEvents /\ "camera" \in Tasks
  BY FaceCameraAssumption DEF Inv, TypeOK, Tasks
<1>2. ListTypeOK'
  BY FaceListAssumption DEF Inv, TypeOK, ListTypeOK, Faces
<1>3. TypeOK'
  BY <1>1, <1>2 DEF Inv, TypeOK, Disturb
<1>4. RequestOpen'
  BY DEF Inv, RequestOpen
<1>5. EnrollmentIsRequested'
  BY DEF Inv, EnrollmentIsRequested
<1>6. AnswerIsRegistered'
  BY <1>1 DEF Inv, AnswerIsRegistered, Disturb
<1> QED BY <1>3, <1>4, <1>5, <1>6 DEF Inv

(* The other commands change flags only, and face_enroll the grants.       *)
LEMMA CommandInv ==
  ASSUME Inv, FaceDetect \/ FaceRecognize \/ Framesize
  PROVE  Inv'
<1> USE DEF FaceDetect, FaceRecognize, Framesize, Command, listVars, wires
<1>1. TypeOK'
  BY FaceCameraAssumption DEF Inv, TypeOK, ListTypeOK, Bit
<1>2. RequestOpen'
  BY DEF Inv, RequestOpen
<1>3. EnrollmentIsRequested'
  BY DEF Inv, EnrollmentIsRequested
<1>4. AnswerIsRegistered'
  BY DEF Inv, AnswerIsRegistered, MayMatch, Registered
<1> QED BY <1>1, <1>2, <1>3, <1>4 DEF Inv

LEMMA FaceEnrollInv ==
  ASSUME Inv, FaceEnroll
  PROVE  Inv'
<1> USE DEF FaceEnroll, Command, Pending, listVars, wires
<1>1. TypeOK'
  BY FaceCameraAssumption DEF Inv, TypeOK, ListTypeOK, Bit
<1>2. RequestOpen'
  BY DEF RequestOpen, Bit
<1>3. EnrollmentIsRequested'
  BY DEF Inv, EnrollmentIsRequested, Bit
<1>4. AnswerIsRegistered'
  BY DEF Inv, AnswerIsRegistered, MayMatch, Registered
<1> QED BY <1>1, <1>2, <1>3, <1>4 DEF Inv

LEMMA RestartInv ==
  ASSUME Inv, Restart \/ CenterAsks
  PROVE  Inv'
<1>1. CASE Restart
  <2> USE <1>1 DEF Restart
  <2>1. ListTypeOK'
    BY StartTypes DEF ListTypeOK
  <2>2. TypeOK'
    <3>1. /\ {detection_enabled, recognition_enabled, is_enrolling, camRXPin,
              camTXPin}' \subseteq Bit
          /\ streamState' \in BOOLEAN /\ wide' \in BOOLEAN
      BY DEF Inv, TypeOK, Bit
    <3>2. disturbed' \subseteq Tasks /\ granted' \subseteq Tasks
      OBVIOUS
    <3>3. /\ events' \in 0..MaxEvents
          /\ seen' \in [Tasks -> Persons \cup {Nobody}]
          /\ \A t \in Tasks : pc'[t] \notin {"align", "enroll", "recognize"}
      BY FaceCameraAssumption DEF Inv, TypeOK, Resting
    <3>4. pc' = Resting
      OBVIOUS
    <3> QED BY <2>1, <3>1, <3>2, <3>3, <3>4, RestingTypes DEF TypeOK
  <2>3. RequestOpen' /\ EnrollmentIsRequested' /\ AnswerIsRegistered'
    BY DEF RequestOpen, EnrollmentIsRequested, AnswerIsRegistered, Resting
  <2> QED BY <2>2, <2>3 DEF Inv
<1>2. CASE CenterAsks
  <2> USE <1>2 DEF CenterAsks, listVars, flags, history
  <2>1. TypeOK'
    BY DEF Inv, TypeOK, ListTypeOK, Bit
  <2>2. RequestOpen' /\ EnrollmentIsRequested'
    BY DEF Inv, RequestOpen, EnrollmentIsRequested
  <2>3. AnswerIsRegistered'
    BY DEF Inv, AnswerIsRegistered, MayMatch, Registered
  <2> QED BY <2>1, <2>2, <2>3 DEF Inv
<1> QED BY <1>1, <1>2

(* The invariant is inductive.                                             *)
LEMMA NextInv == Inv /\ [Next]_vars => Inv'
<1> SUFFICES ASSUME Inv, [Next]_vars PROVE Inv'
  OBVIOUS
<1>1. CASE \E t \in Tasks : Work(t)
  BY <1>1, ChooseInv, EnrollInv, FinishInv, RecognizeInv, AnswerInv DEF Work
<1>2. CASE \E t \in Tasks, p \in Persons : Look(t, p)
  BY <1>2, LookInv
<1>3. CASE LoopWork
  BY <1>3, LoopInv DEF LoopWork
<1>4. CASE StreamOpens \/ StreamEnds
  BY <1>4, StreamInv
<1>5. CASE ClearFace
  BY <1>5, ClearInv
<1>6. CASE FaceDetect \/ FaceRecognize \/ Framesize
  BY <1>6, CommandInv
<1>7. CASE FaceEnroll
  BY <1>7, FaceEnrollInv
<1>8. CASE Restart \/ CenterAsks
  BY <1>8, RestartInv
<1>9. CASE UNCHANGED vars
  <2> USE <1>9 DEF vars, listVars, flags, wires, history
  <2>1. TypeOK'
    BY DEF Inv, TypeOK, ListTypeOK
  <2>2. RequestOpen' /\ EnrollmentIsRequested'
    BY DEF Inv, RequestOpen, EnrollmentIsRequested
  <2>3. AnswerIsRegistered'
    BY DEF Inv, AnswerIsRegistered, MayMatch, Registered
  <2> QED BY <2>1, <2>2, <2>3 DEF Inv
<1> QED BY <1>1, <1>2, <1>3, <1>4, <1>5, <1>6, <1>7, <1>8, <1>9 DEF Next

-----------------------------------------------------------------------------
(* The list stays within its two sizes, whatever the three tasks do to it. *)
THEOREM CameraTypes == Spec => []TypeOK
<1>1. Inv => TypeOK
  BY DEF Inv
<1> QED BY <1>1, InitInv, NextInv, PTL DEF Spec

(* No task enrols without a request, nor more than one face for it.        *)
THEOREM EnrollmentRequested == Spec => []EnrollmentIsRequested
<1>1. Inv => EnrollmentIsRequested
  BY DEF Inv
<1> QED BY <1>1, InitInv, NextInv, PTL DEF Spec

(* The Center is answered for a face of the list, as long as the list is   *)
(* not changed under the task that answers.                                *)
THEOREM AnswersRegistered == Spec => []AnswerIsRegistered
<1>1. Inv => AnswerIsRegistered
  BY DEF Inv
<1> QED BY <1>1, InitInv, NextInv, PTL DEF Spec
=============================================================================
