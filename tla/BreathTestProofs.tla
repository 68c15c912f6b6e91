--------------------------- MODULE BreathTestProofs ---------------------------
(***************************************************************************)
(* Proofs about BreathTest for every set of readings, all settings and any *)
(* number of presses.  Evidence relates MAX and MIN to the samples they    *)
(* stand for while the interrupt rewrites them; Waiting says what a window *)
(* can hold while a verdict waits.                                         *)
(***************************************************************************)
EXTENDS BreathTest, TLAPS

(* Types are preserved; a verdict needs the two invariants below.          *)
THEOREM BreathTypes == Spec => []TypeOK
<1> USE BreathAssumption DEF Ceiling
<1>1. Init => TypeOK
    BY DEF Init, TypeOK, Bit
<1>2. TypeOK /\ [Next]_vars => TypeOK'
  <2> SUFFICES ASSUME TypeOK, [Next]_vars PROVE TypeOK'
      OBVIOUS
  <2> USE DEF TypeOK, Bit, windowVars, verdictVars, cameraVars, history
  <2>1. CASE ReadClock
      BY <2>1 DEF ReadClock
  <2>2. CASE TooEarly
      BY <2>2 DEF TooEarly
  <2>3. CASE Expire
      BY <2>3 DEF Expire
  <2>4. CASE Sample
      BY <2>4 DEF Sample
  <2>5. CASE StoreMax
      BY <2>5 DEF StoreMax, NewMax
  <2>6. CASE StoreMin
      BY <2>6 DEF StoreMin, Answers
  <2>7. CASE Close
      BY <2>7 DEF Close
  <2>8. CASE Release
      BY <2>8 DEF Release
  <2>9. CASE JudgeMax
      BY <2>9 DEF JudgeMax, AfterAlcohol
  <2>10. CASE JudgeMin
      BY <2>10 DEF JudgeMin
  <2>11. CASE ConsumeVerdict
      BY <2>11 DEF ConsumeVerdict
  <2>12. CASE WindowPasses
      BY <2>12 DEF WindowPasses
  <2>13. CASE Press
      BY <2>13 DEF Press, StartExtremes
  <2>14. CASE CameraMatches
      BY <2>14 DEF CameraMatches
  <2>15. CASE CameraRaises
      BY <2>15 DEF CameraRaises
  <2>16. CASE CameraPolls
      BY <2>16 DEF CameraPolls
  <2>17. CASE CameraLowers
      BY <2>17 DEF CameraLowers
  <2>18. CASE CameraRestarts
      BY <2>18 DEF CameraRestarts
  <2>19. CASE UNCHANGED vars
      BY <2>19 DEF vars
  <2>20. QED
      BY <2>1, <2>2, <2>3, <2>4, <2>5, <2>6, <2>7, <2>8, <2>9, <2>10,
         <2>11, <2>12, <2>13, <2>14, <2>15, <2>16, <2>17, <2>18, <2>19
      DEF Next, Loop, CameraTask
<1>3. QED
    BY <1>1, <1>2, PTL DEF Spec

-----------------------------------------------------------------------------
(* MAX bounds the samples since the press but for the one in hand, each    *)
(* extreme is a start value or a sample that counts for this press, and    *)
(* past the test of MAX no sample of this press is high.                   *)
Evidence ==
  /\ \A r \in breath : r <= MAX \/ (pc = "storeMax" /\ r = current)
  /\ pc # "idle" \/ alcoholFlash = 1 =>
       /\ MAX = 0 \/ MAX \in breath \cup carried
       /\ MIN = Ceiling \/ MIN \in breath \cup carried
  /\ pc \in {"storeMax", "storeMin"} => current \in breath \cup carried
  /\ pc = "judgeMin" => \A r \in breath : ~High(r)

Empty == MAX = 0 /\ MIN = Ceiling

(* While a verdict waits, a window that is over or being judged is one the *)
(* interrupt has emptied and nothing has been sampled in.                  *)
Waiting ==
  /\ pc \in {"age", "storeMax", "storeMin"} => alcoholFlash = 1
  /\ pc \in {"judgeMax", "judgeMin", "release"} /\ alcoholFlash = 1 => Empty
  /\ isAlcoholState = 1 \/ notAlcoholState = 1 =>
       /\ alcoholFlash = 1 /\ expired = 1 =>
            Empty /\ pc \notin {"storeMax", "storeMin"}
       /\ pc \in {"close", "judgeMax", "judgeMin"} => Empty

LEMMA EvidenceStep ==
  ASSUME TypeOK, Evidence, [Next]_vars
  PROVE  Evidence'
<1> USE BreathAssumption
    DEF TypeOK, Evidence, Ceiling, windowVars, verdictVars, cameraVars, history
<1>1. CASE ReadClock
    BY <1>1 DEF ReadClock
<1>2. CASE TooEarly
    BY <1>2 DEF TooEarly
<1>3. CASE Expire
    BY <1>3 DEF Expire
<1>4. CASE Sample
    BY <1>4 DEF Sample
<1>5. CASE StoreMax
    BY <1>5 DEF StoreMax, NewMax
<1>6. CASE StoreMin
    BY <1>6 DEF StoreMin, Answers
<1>7. CASE Close
    BY <1>7 DEF Close
<1>8. CASE Release
    BY <1>8 DEF Release
<1>9. CASE JudgeMax
    BY <1>9 DEF JudgeMax, AfterAlcohol, High
<1>10. CASE JudgeMin
    BY <1>10 DEF JudgeMin
<1>11. CASE ConsumeVerdict
    BY <1>11 DEF ConsumeVerdict, High
<1>12. CASE WindowPasses
    BY <1>12 DEF WindowPasses, High
<1>13. CASE Press
    BY <1>13 DEF Press, StartExtremes
<1>14. CASE CameraMatches \/ CameraTask \/ CameraRestarts
  <2>1. UNCHANGED <<pc, alcoholFlash, MAX, MIN, current, breath, carried>>
      BY <1>14 DEF CameraMatches, CameraTask, CameraRaises, CameraPolls,
                   CameraLowers, CameraRestarts
  <2>2. QED
      BY <2>1 DEF High
<1>15. CASE UNCHANGED vars
    BY <1>15 DEF vars, High
<1>16. QED
    BY <1>1, <1>2, <1>3, <1>4, <1>5, <1>6, <1>7, <1>8, <1>9, <1>10,
       <1>11, <1>12, <1>13, <1>14, <1>15
    DEF Next, Loop

(* Only a window with a sample has a verdict, when Calibrated.             *)
LEMMA EmptyGivesNoVerdict ==
  ASSUME Calibrated, Empty
  PROVE  ~High(MAX) /\ ~Low(MIN)
BY BreathAssumption DEF Calibrated, Empty, High

LEMMA WaitingStep ==
  ASSUME TypeOK, Waiting, Calibrated, [Next]_vars
  PROVE  Waiting'
<1> USE DEF TypeOK, Bit, Waiting, windowVars, verdictVars, cameraVars, history
<1>1. CASE ReadClock
    BY <1>1 DEF ReadClock, Empty
<1>2. CASE TooEarly
    BY <1>2 DEF TooEarly, Empty
<1>3. CASE Expire
    BY <1>3 DEF Expire, Empty
<1>4. CASE Sample
    BY <1>4 DEF Sample, Empty
<1>5. CASE StoreMax
    BY <1>5 DEF StoreMax, Empty
<1>6. CASE StoreMin
    BY <1>6 DEF StoreMin, Answers, Empty
<1>7. CASE Close
    BY <1>7 DEF Close, Empty
<1>8. CASE Release
    BY <1>8 DEF Release, Empty
<1>9. CASE JudgeMax
    BY <1>9, EmptyGivesNoVerdict DEF JudgeMax, AfterAlcohol, Empty
<1>10. CASE JudgeMin
    BY <1>10, EmptyGivesNoVerdict DEF JudgeMin, Empty
<1>11. CASE ConsumeVerdict
    BY <1>11 DEF ConsumeVerdict, Empty
<1>12. CASE WindowPasses
    BY <1>12 DEF WindowPasses, Empty
<1>13. CASE Press
    BY <1>13 DEF Press, StartExtremes, Empty
<1>14. CASE CameraMatches
    BY <1>14 DEF CameraMatches, Empty
<1>15. CASE CameraRaises
    BY <1>15 DEF CameraRaises, Empty
<1>16. CASE CameraPolls
    BY <1>16 DEF CameraPolls, Empty
<1>17. CASE CameraLowers
    BY <1>17 DEF CameraLowers, Empty
<1>18. CASE CameraRestarts
    BY <1>18 DEF CameraRestarts, Empty
<1>19. CASE UNCHANGED vars
    BY <1>19 DEF vars, Empty
<1>20. QED
    BY <1>1, <1>2, <1>3, <1>4, <1>5, <1>6, <1>7, <1>8, <1>9, <1>10,
       <1>11, <1>12, <1>13, <1>14, <1>15, <1>16, <1>17, <1>18, <1>19
    DEF Next, Loop, CameraTask

-----------------------------------------------------------------------------
LEMMA EvidenceHolds == Spec => []Evidence
<1>1. Init => Evidence
    BY DEF Init, Evidence
<1>2. TypeOK /\ Evidence /\ [Next]_vars => Evidence'
    BY EvidenceStep
<1>3. QED
    BY <1>1, <1>2, BreathTypes, PTL DEF Spec

LEMMA WaitingHolds == ASSUME Calibrated PROVE Spec => []Waiting
<1>1. Init => Waiting
    BY DEF Init, Waiting
<1>2. TypeOK /\ Waiting /\ [Next]_vars => Waiting'
    BY WaitingStep
<1>3. QED
    BY <1>1, <1>2, BreathTypes, PTL DEF Spec

LEMMA OnlyJudgesSetVerdicts ==
  ASSUME [Next]_vars, ~JudgeMax, ~JudgeMin, ~ConsumeVerdict
  PROVE  UNCHANGED verdictVars
BY DEF Next, Loop, CameraTask, ReadClock, TooEarly, Expire, Sample, StoreMax,
       StoreMin, Close, Release, WindowPasses, Press, CameraMatches,
       CameraRaises, CameraPolls, CameraLowers, CameraRestarts, vars,
       verdictVars

(* No clean verdict over a sample above the limit that was taken since the *)
(* press, and no verdict without breath, wherever the interrupt strikes.   *)
THEOREM JustifiedVerdicts == Spec => VerdictRestsOnBreath
<1>1. TypeOK /\ Evidence /\ [Next]_vars
        => [CleanIsJustified /\ AlcoholIsJustified]_vars
  <2> SUFFICES ASSUME TypeOK, Evidence, [Next]_vars
               PROVE  CleanIsJustified /\ AlcoholIsJustified
      OBVIOUS
  <2>1. CASE JudgeMax
    <3>1. CleanIsJustified
        BY <2>1 DEF JudgeMax, CleanIsJustified, TypeOK, Bit
    <3>2. AlcoholIsJustified
        BY <2>1, BreathAssumption
        DEF JudgeMax, AlcoholIsJustified, Evidence, High, TypeOK
    <3>3. QED
        BY <3>1, <3>2
  <2>2. CASE JudgeMin
    <3>1. CleanIsJustified
        BY <2>2, BreathAssumption
        DEF JudgeMin, CleanIsJustified, Evidence, Calibrated
    <3>2. AlcoholIsJustified
        BY <2>2 DEF JudgeMin, AlcoholIsJustified
    <3>3. QED
        BY <3>1, <3>2
  <2>3. CASE ConsumeVerdict
      BY <2>3 DEF ConsumeVerdict, CleanIsJustified, AlcoholIsJustified
  <2>4. CASE ~JudgeMax /\ ~JudgeMin /\ ~ConsumeVerdict
      BY <2>4, OnlyJudgesSetVerdicts
      DEF verdictVars, CleanIsJustified, AlcoholIsJustified
  <2>5. QED
      BY <2>1, <2>2, <2>3, <2>4
<1>2. QED
    BY <1>1, BreathTypes, EvidenceHolds, PTL DEF Spec, VerdictRestsOnBreath

-----------------------------------------------------------------------------
(* While no face has been seen no answer stands, and only a test with an   *)
(* answer is judged.                                                       *)
FaceInv ==
  /\ faceSeen = 0 => ~AnswerStands
  /\ pc \in {"judgeMax", "judgeMin"} => isMatchFaceID = 1

LEMMA FaceHolds == Spec => []FaceInv
<1>1. Init => FaceInv
    BY DEF Init, FaceInv, AnswerStands
<1>2. TypeOK /\ FaceInv /\ [Next]_vars => FaceInv'
  <2> SUFFICES ASSUME TypeOK, FaceInv, [Next]_vars PROVE FaceInv'
      OBVIOUS
  <2> USE DEF FaceInv, AnswerStands, history, cameraVars
  <2>1. CASE Press
      BY <2>1 DEF Press, TypeOK
  <2>2. CASE StoreMin
      BY <2>2 DEF StoreMin, Answers
  <2>3. CASE Close
      BY <2>3 DEF Close
  <2>4. CASE JudgeMax \/ JudgeMin
      BY <2>4 DEF JudgeMax, JudgeMin, AfterAlcohol
  <2>5. CASE Release
      BY <2>5 DEF Release
  <2>6. CASE CameraMatches
      BY <2>6 DEF CameraMatches
  <2>7. CASE CameraTask \/ CameraRestarts
      BY <2>7 DEF CameraTask, CameraRaises, CameraPolls, CameraLowers,
                  CameraRestarts
  <2>8. CASE ReadClock \/ TooEarly \/ Sample \/ StoreMax \/ Expire
             \/ ConsumeVerdict \/ WindowPasses
      BY <2>8 DEF ReadClock, TooEarly, Sample, StoreMax, Expire,
                  ConsumeVerdict, WindowPasses
  <2>9. CASE UNCHANGED vars
      BY <2>9 DEF vars
  <2>10. QED
      BY <2>1, <2>2, <2>3, <2>4, <2>5, <2>6, <2>7, <2>8, <2>9 DEF Next, Loop
<1>3. QED
    BY <1>1, <1>2, BreathTypes, PTL DEF Spec

(* A verdict rests on a face recognised since the press, or on an answer   *)
(* that was still standing at the press.                                   *)
THEOREM FacesBackVerdicts == Spec => VerdictNeedsFace
<1>1. TypeOK /\ FaceInv /\ [Next]_vars => [FaceBacksVerdict]_vars
  <2> SUFFICES ASSUME TypeOK, FaceInv, [Next]_vars PROVE FaceBacksVerdict
      OBVIOUS
  <2>1. CASE JudgeMax \/ JudgeMin
    <3>1. isMatchFaceID = 1
        BY <2>1 DEF JudgeMax, JudgeMin, FaceInv
    <3>2. QED
        BY <3>1 DEF FaceInv, AnswerStands, FaceBacksVerdict, TypeOK, Bit
  <2>2. CASE ConsumeVerdict
      BY <2>2 DEF ConsumeVerdict, FaceBacksVerdict
  <2>3. CASE UNCHANGED verdictVars
      BY <2>3 DEF verdictVars, FaceBacksVerdict
  <2>4. QED
      BY <2>1, <2>2, <2>3, OnlyJudgesSetVerdicts
<1>2. QED
    BY <1>1, BreathTypes, FaceHolds, PTL DEF Spec, VerdictNeedsFace

-----------------------------------------------------------------------------
(* The loop is in a test only while one is under way.                      *)
InTest == pc \in {"age", "storeMax", "storeMin", "close"} => alcoholFlash = 1

LEMMA InTestHolds == Spec => []InTest
<1>1. Init => InTest
    BY DEF Init, InTest
<1>2. InTest /\ [Next]_vars => InTest'
    BY DEF InTest, windowVars, vars, Next, Loop, CameraTask, ReadClock,
           TooEarly, Sample, StoreMax, StoreMin, Expire, Close, JudgeMax,
           AfterAlcohol, JudgeMin, Release, ConsumeVerdict, Press,
           WindowPasses, CameraMatches, CameraRaises, CameraPolls,
           CameraLowers, CameraRestarts
<1>3. QED
    BY <1>1, <1>2, PTL DEF Spec

(* With settings that give no verdict to an empty window, the breath test  *)
(* refines its contract: the judging steps end the test, and a press that  *)
(* comes in between is taken for one that comes after them.                *)
THEOREM ContractRefinement ==
  ASSUME Calibrated
  PROVE  Spec => KeepsContract
<1>1. Init => TheContract!ContractInit
    BY DEF Init, TheContract!ContractInit
<1>2. TypeOK /\ Waiting /\ InTest /\ [Next]_vars
        => [TheContract!ContractNext]_(TheContract!contractVars)
  <2> SUFFICES ASSUME Calibrated, TypeOK, Waiting, InTest, [Next]_vars
               PROVE  TheContract!ContractNext
                        \/ UNCHANGED TheContract!contractVars
      OBVIOUS
  <2> USE DEF TypeOK, Bit, windowVars, verdictVars, TheContract!contractVars
  <2>1. CASE Press
    <3>1. UNCHANGED <<pc, verdictVars>> /\ alcoholFlash' = 1
        BY <2>1 DEF Press
    <3>2. QED
        BY <3>1 DEF TheContract!ContractNext, TheContract!Begin
  <2>2. CASE Close
      BY <2>2
      DEF Close, InTest, TheContract!ContractNext, TheContract!GiveUp,
          TheContract!End
  <2>3. CASE JudgeMax
    <3>1. CASE High(MAX)
      <4>1. isAlcoholState = 0 /\ notAlcoholState = 0
          BY <2>3, <3>1, EmptyGivesNoVerdict DEF JudgeMax, Waiting
      <4>2. QED
          BY <2>3, <3>1, <4>1
          DEF JudgeMax, AfterAlcohol, TheContract!ContractNext,
              TheContract!Give, TheContract!End
    <3>2. CASE ~High(MAX)
        BY <2>3, <3>2 DEF JudgeMax
    <3>3. QED
        BY <3>1, <3>2
  <2>4. CASE JudgeMin
    <3>1. CASE Low(MIN)
      <4>1. isAlcoholState = 0 /\ notAlcoholState = 0
          BY <2>4, <3>1, EmptyGivesNoVerdict DEF JudgeMin, Waiting
      <4>2. QED
          BY <2>4, <3>1, <4>1
          DEF JudgeMin, TheContract!ContractNext, TheContract!Give,
              TheContract!End
    <3>2. CASE ~Low(MIN)
        BY <2>4, <3>2
        DEF JudgeMin, TheContract!ContractNext, TheContract!GiveUp,
            TheContract!End
    <3>3. QED
        BY <3>1, <3>2
  <2>5. CASE Release
      BY <2>5
      DEF Release, TheContract!ContractNext, TheContract!Begin
  <2>6. CASE ConsumeVerdict
      BY <2>6
      DEF ConsumeVerdict, TheContract!ContractNext, TheContract!Take
  <2>7. CASE ReadClock \/ TooEarly \/ Sample \/ StoreMax \/ StoreMin \/ Expire
      BY <2>7 DEF ReadClock, TooEarly, Sample, StoreMax, StoreMin, Expire
  <2>8. CASE WindowPasses \/ CameraMatches \/ CameraTask \/ CameraRestarts
      BY <2>8 DEF WindowPasses, CameraMatches, CameraTask, CameraRaises,
                  CameraPolls, CameraLowers, CameraRestarts
  <2>9. CASE UNCHANGED vars
      BY <2>9 DEF vars
  <2>10. QED
      BY <2>1, <2>2, <2>3, <2>4, <2>5, <2>6, <2>7, <2>8, <2>9 DEF Next, Loop
<1>3. QED
    BY <1>1, <1>2, BreathTypes, WaitingHolds, InTestHolds, PTL
    DEF Spec, KeepsContract, TheContract!ContractSpec
=============================================================================
