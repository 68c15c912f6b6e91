------------------------------ MODULE BreathTest ------------------------------
(***************************************************************************)
(* The breath test of the Center, statement by statement where it shares   *)
(* memory with the button's interrupt: the interrupt starts a window of    *)
(* 7 s by rewriting t1, MAX, MIN and alcoholFlash, and may do so between   *)
(* any two steps of readIsAlcohol(), which samples the sensor while the    *)
(* window is open and then judges MAX and MIN.                             *)
(*                                                                         *)
(* Two wires lead to the camera: camTX asks for a match, camRX answers;    *)
(* both are active when 0.  The camera's main loop and its web server's    *)
(* task, which recognises while streaming, drive camRX without a lock.     *)
(*                                                                         *)
(* Resets of the Center are in module Interlock.                           *)
(***************************************************************************)
EXTENDS Integers

CONSTANTS Readings,     \* values analogRead(A0) may return
          threshold, upLimit, downLimit,   \* the settings of V34, V33, V32
          MaxPresses    \* bound: presses of the button

Ceiling == 1024         \* MIN before the first sample, above every reading

ASSUME BreathAssumption ==
  /\ Readings \subseteq 0..(Ceiling - 1)
  /\ threshold \in Nat /\ upLimit \in Nat /\ downLimit \in Nat
  /\ MaxPresses \in Nat

VARIABLES
  pc,             \* step of readIsAlcohol(), "idle" in the rest of loop()
  alcoholFlash,   \* a test is under way
  expired,        \* millis() - t1 < 7000 will be false
  current,        \* the sample in hand
  MAX, MIN,       \* extremes of the window
  isMatchFaceID,  \* the camera has answered
  isAlcoholState, notAlcoholState,   \* verdicts for updateWebsocket()
  camTX,          \* request line, 0: the Center wants a match
  camRX,          \* match line, 0: the camera has one
  raising,        \* the camera has seen a request and will drive camRX to 0
  lowering,       \* it has seen none and will drive camRX to 1
  presses,        \* presses so far
  breath,         \* history: samples taken since the last press
  carried,        \* history: the sample that was in hand at that press
  faceSeen        \* history: a face was recognised since the last press at
                  \* which neither board held an answer of the camera

windowVars == <<alcoholFlash, expired, MAX, MIN>>
verdictVars == <<isAlcoholState, notAlcoholState>>
cameraVars == <<camRX, raising, lowering>>
history == <<presses, breath, carried, faceSeen>>
vars == <<pc, windowVars, current, isMatchFaceID, verdictVars, camTX,
          cameraVars, history>>

Bit == {0, 1}

Init ==
  /\ pc = "idle" /\ alcoholFlash = 0 /\ expired = 0
  /\ current = 0 /\ MAX = 0 /\ MIN = 0
  /\ isMatchFaceID = 0 /\ isAlcoholState = 0 /\ notAlcoholState = 0
  /\ camTX = 1 /\ camRX = 1 /\ raising = 0 /\ lowering = 0
  /\ presses = 0 /\ breath = {} /\ carried = {} /\ faceSeen = 0

-----------------------------------------------------------------------------
(* Mutant: the two start values are swapped.                               *)
ExtremesSwapped == MAX' = Ceiling /\ MIN' = 0

StartExtremes == MAX' = 0 /\ MIN' = Ceiling

(* An answer of the camera that a test may still use.                      *)
AnswerStands == camRX = 0 \/ raising = 1 \/ isMatchFaceID = 1

(* measureAlcoholConcentration(), for 100 ms in the middle of anything.    *)
(* t1 then lies after a clock that was read before it, and the unsigned    *)
(* difference is huge.                                                     *)
Press ==
  /\ presses < MaxPresses /\ presses' = presses + 1
  /\ expired' = IF pc = "age" THEN 1 ELSE 0
  /\ camTX' = 0 /\ StartExtremes /\ alcoholFlash' = 1
  /\ breath' = {}
  /\ carried' = IF pc \in {"storeMax", "storeMin"} THEN {current} ELSE {}
  /\ faceSeen' = IF AnswerStands THEN faceSeen ELSE 0
  /\ UNCHANGED <<pc, current, isMatchFaceID, verdictVars, cameraVars>>

(* millis(): the 7 s are over.  updateWebsocket() runs every second, so it *)
(* has consumed a verdict that was waiting when the window began.          *)
WindowPasses ==
  /\ alcoholFlash = 1 /\ expired = 0 /\ expired' = 1
  /\ isAlcoholState = 0 /\ notAlcoholState = 0
  /\ UNCHANGED <<pc, alcoholFlash, MAX, MIN, current, isMatchFaceID,
                 verdictVars, camTX, cameraVars, history>>

-----------------------------------------------------------------------------
(* loop() calls readIsAlcohol(), which reads the clock ...                 *)
ReadClock ==
  /\ pc = "idle" /\ alcoholFlash = 1 /\ pc' = "age"
  /\ UNCHANGED <<windowVars, current, isMatchFaceID, verdictVars, camTX,
                 cameraVars, history>>

(* ... and compares it with t1; less than 200 ms after the last sample it  *)
(* returns,                                                                *)
TooEarly ==
  /\ pc = "age" /\ expired = 0 /\ pc' = "idle"
  /\ UNCHANGED <<windowVars, current, isMatchFaceID, verdictVars, camTX,
                 cameraVars, history>>

Sample ==
  /\ pc = "age" /\ expired = 0 /\ pc' = "storeMax"
  /\ \E r \in Readings : current' = r /\ breath' = breath \cup {r}
  /\ UNCHANGED <<windowVars, isMatchFaceID, verdictVars, camTX, cameraVars,
                 presses, carried, faceSeen>>

(* Mutant: the last sample is kept instead of the highest.                 *)
NewMaxLast == current

NewMax == IF current > MAX THEN current ELSE MAX

StoreMax ==
  /\ pc = "storeMax" /\ pc' = "storeMin"
  /\ MAX' = NewMax
  /\ UNCHANGED <<alcoholFlash, expired, MIN, current, isMatchFaceID,
                 verdictVars, camTX, cameraVars, history>>

(* Mutant: the line is taken for active when it is 1.                      *)
AnswersHigh == camRX = 1

Answers == camRX = 0

(* The rest of the sample: MIN and the camera's answer.                    *)
StoreMin ==
  /\ pc = "storeMin" /\ pc' = "idle"
  /\ MIN' = IF current < MIN THEN current ELSE MIN
  /\ isMatchFaceID' = IF Answers THEN 1 ELSE isMatchFaceID
  /\ UNCHANGED <<alcoholFlash, expired, MAX, current, verdictVars, camTX,
                 cameraVars, history>>

(* The window is over: the test is closed before it is judged, and a press *)
(* in between is closed with it.                                           *)
Expire ==
  /\ pc = "age" /\ expired = 1 /\ pc' = "close"
  /\ UNCHANGED <<windowVars, current, isMatchFaceID, verdictVars, camTX,
                 cameraVars, history>>

Close ==
  /\ pc = "close" /\ alcoholFlash' = 0
  /\ pc' = IF isMatchFaceID = 1 THEN "judgeMax" ELSE "release"
  /\ UNCHANGED <<expired, MAX, MIN, current, isMatchFaceID, verdictVars,
                 camTX, cameraVars, history>>

High(r) == r - threshold > upLimit
Low(r) == threshold - r >= downLimit

(* Mutants: the else before the test of MIN is missing; the branch returns.*)
AfterAlcoholJudgeMin == "judgeMin"
AfterAlcoholReturn == "idle"

AfterAlcohol == "release"

JudgeMax ==
  /\ pc = "judgeMax"
  /\ IF High(MAX) THEN isAlcoholState' = 1 /\ pc' = AfterAlcohol
                  ELSE UNCHANGED isAlcoholState /\ pc' = "judgeMin"
  /\ UNCHANGED <<windowVars, current, isMatchFaceID, notAlcoholState, camTX,
                 cameraVars, history>>

(* Not low enough: "please blow harder".                                   *)
JudgeMin ==
  /\ pc = "judgeMin" /\ pc' = "release"
  /\ notAlcoholState' = IF Low(MIN) THEN 1 ELSE notAlcoholState
  /\ UNCHANGED <<windowVars, current, isMatchFaceID, isAlcoholState, camTX,
                 cameraVars, history>>

(* Also when it is not the judged test that asks.                          *)
Release ==
  /\ pc = "release" /\ pc' = "idle"
  /\ camTX' = 1 /\ isMatchFaceID' = 0
  /\ UNCHANGED <<windowVars, current, verdictVars, cameraVars, history>>

(* updateWebsocket(), between two calls of readIsAlcohol().                *)
ConsumeVerdict ==
  /\ pc = "idle" /\ (isAlcoholState = 1 \/ notAlcoholState = 1)
  /\ isAlcoholState' = 0 /\ notAlcoholState' = 0
  /\ UNCHANGED <<pc, windowVars, current, isMatchFaceID, camTX, cameraVars,
                 history>>

-----------------------------------------------------------------------------
(* Mutant: a known face raises the line whether or not it is asked for.    *)
UnaskedFace == TRUE

FaceAsked == camTX = 0

(* run_face_recognition() of either task: a known face while it is asked   *)
(* for, and then the line.                                                 *)
CameraMatches ==
  /\ raising = 0 /\ FaceAsked /\ raising' = 1 /\ faceSeen' = 1
  /\ UNCHANGED <<pc, windowVars, current, isMatchFaceID, verdictVars, camTX,
                 camRX, lowering, presses, breath, carried>>

CameraRaises ==
  /\ raising = 1 /\ raising' = 0 /\ camRX' = 0
  /\ UNCHANGED <<pc, windowVars, current, isMatchFaceID, verdictVars, camTX,
                 lowering, history>>

(* loop() of the camera: nothing is asked for, and then the line.          *)
CameraPolls ==
  /\ lowering = 0 /\ camTX = 1 /\ lowering' = 1
  /\ UNCHANGED <<pc, windowVars, current, isMatchFaceID, verdictVars, camTX,
                 camRX, raising, history>>

CameraLowers ==
  /\ lowering = 1 /\ lowering' = 0 /\ camRX' = 1
  /\ UNCHANGED <<pc, windowVars, current, isMatchFaceID, verdictVars, camTX,
                 raising, history>>

(* ESP.restart() when a picture cannot be taken; the Center's pull-up and  *)
(* setup() give 1.                                                         *)
CameraRestarts ==
  /\ raising' = 0 /\ lowering' = 0 /\ camRX' = 1
  /\ UNCHANGED <<pc, windowVars, current, isMatchFaceID, verdictVars, camTX,
                 history>>

-----------------------------------------------------------------------------
Loop ==
  \/ ReadClock \/ TooEarly \/ Sample \/ StoreMax \/ StoreMin \/ Expire
  \/ Close \/ JudgeMax \/ JudgeMin \/ Release

CameraTask == CameraRaises \/ CameraPolls \/ CameraLowers

Next ==
  Loop \/ ConsumeVerdict \/ Press \/ WindowPasses \/ CameraMatches
  \/ CameraTask \/ CameraRestarts

Spec == Init /\ [][Next]_vars

(* Both boards keep running and time passes.  No face need ever be         *)
(* recognised, and the camera may restart at any time.                     *)
FairSpec ==
  /\ Spec /\ WF_vars(Loop) /\ WF_vars(WindowPasses)
  /\ SF_vars(ConsumeVerdict)
  /\ WF_vars(CameraRaises) /\ WF_vars(CameraPolls) /\ WF_vars(CameraLowers)

-----------------------------------------------------------------------------
(* The types of the variables; the extremes are 0, Ceiling or readings.    *)
TypeOK ==
  /\ pc \in {"idle", "age", "storeMax", "storeMin", "close", "judgeMax",
            "judgeMin", "release"}
  /\ {alcoholFlash, expired, isMatchFaceID, isAlcoholState, notAlcoholState,
      camTX, camRX, raising, lowering, faceSeen} \subseteq Bit
  /\ current \in Readings \cup {0} /\ MAX \in Readings \cup {0}
  /\ MIN \in Readings \cup {0, Ceiling}
  /\ presses \in 0..MaxPresses
  /\ breath \subseteq Readings /\ carried \subseteq Readings \cup {0}

(* A window without a sample is not low: MIN is still Ceiling.             *)
Calibrated == ~Low(Ceiling)

(* A clean verdict is never given over a sample above the limit, and rests *)
(* on breath of the press it answers; so does alcohol.  The sample that    *)
(* was in hand at the press counts for either.  Whatever the interrupt     *)
(* does to MAX and MIN between their samples and their tests.              *)
CleanIsJustified ==
  notAlcoholState = 0 /\ notAlcoholState' = 1 =>
    /\ \A r \in breath : ~High(r)
    /\ Calibrated => \E r \in breath \cup carried : Low(r)

AlcoholIsJustified ==
  isAlcoholState = 0 /\ isAlcoholState' = 1 =>
    \E r \in breath \cup carried : High(r)

VerdictRestsOnBreath == [][CleanIsJustified /\ AlcoholIsJustified]_vars

(* No verdict without a face: the camera has recognised one since the      *)
(* press, or had before it and no board had yet forgotten the answer,      *)
(* however presses, polls and restarts of the camera fall.                 *)
FaceBacksVerdict ==
  \/ isAlcoholState = 0 /\ isAlcoholState' = 1
  \/ notAlcoholState = 0 /\ notAlcoholState' = 1
  => faceSeen = 1

VerdictNeedsFace == [][FaceBacksVerdict]_vars

(* The breath test keeps the contract that Interlock relies on: one        *)
(* verdict per test at most, a press during the verdict counts as made     *)
(* after it, and nothing is said while a verdict waits.                    *)
TheContract == INSTANCE BreathContract
  WITH testing <- CASE pc \in {"judgeMax", "judgeMin"} -> 1
                    [] pc = "release" -> 0
                    [] OTHER -> alcoholFlash,
       alcohol <- isAlcoholState, clean <- notAlcoholState

KeepsContract == TheContract!ContractSpec

(* Every test the driver does not renew ends, on every path of the verdict,*)
(* with the camera's request withdrawn and its answer forgotten, though a  *)
(* press during the verdict asks again in the middle of it.                *)
TestEnds ==
  alcoholFlash = 1 ~> alcoholFlash = 0 /\ camTX = 1 /\ isMatchFaceID = 0

(* Once the Center stops asking, the match line is withdrawn for good,     *)
(* even if the camera was about to raise it.                               *)
MatchIsWithdrawn == <>[](camTX = 1) => <>[](camRX = 1)
=============================================================================
