------------------------------ MODULE FaceList ------------------------------
(***************************************************************************)
(* id_list, the faces the camera knows: what its firmware relies on in the *)
(* face library.  enroll_face() adds one sample and returns how many are   *)
(* left; ENROLL_CONFIRM_TIMES samples make a face, whoever they are of.  A *)
(* face is the set of the people its samples show.  The library gives no   *)
(* way to ask for, or to drop, the samples of an unfinished face.          *)
(***************************************************************************)
EXTENDS Naturals, Sequences

CONSTANTS Persons,
          ConfirmTimes,  \* ENROLL_CONFIRM_TIMES, 5 in the code
          SaveNumber     \* FACE_ID_SAVE_NUMBER, 7 in the code

ASSUME FaceListAssumption ==
  /\ ConfirmTimes \in Nat /\ ConfirmTimes > 0
  /\ SaveNumber \in Nat /\ SaveNumber > 0

VARIABLES faces,   \* the finished faces, oldest first
          count,   \* samples of the unfinished one
          who      \* the people they show

listVars == <<faces, count, who>>

Faces == SUBSET Persons

Registered == {faces[i] : i \in DOMAIN faces}

(* face_id_init() on an empty list.                                        *)
EmptyList == faces = <<>> /\ count = 0 /\ who = {}

(* Mutant: the samples of the finished face are counted again.             *)
LeftoverKept == count + 1

Leftover == 0

(* What enroll_face() would return: the samples left after one more.       *)
Left == ConfirmTimes - 1 - count

(* A full list loses its oldest face.                                      *)
Room == IF Len(faces) < SaveNumber THEN faces ELSE Tail(faces)

EnrollFace(p) ==
  IF Left > 0
  THEN count' = count + 1 /\ who' = who \cup {p} /\ UNCHANGED faces
  ELSE /\ faces' = Append(Room, who \cup {p})
       /\ count' = Leftover /\ who' = {}

(* What recognize_face() may answer: it knows a face of p alone, and may   *)
(* or may not take p for a face that is partly his.                        *)
MayMatch(p) == \E f \in Registered : p \in f
MayMiss(p) == {p} \notin Registered

(* Types of the list.                                                      *)
ListTypeOK ==
  /\ faces \in Seq(Faces) /\ Len(faces) <= SaveNumber
  /\ count \in 0..(ConfirmTimes - 1) /\ who \in Faces
=============================================================================
