----------------------------- MODULE FaceEnroll -----------------------------
(***************************************************************************)
(* The boot of the camera: encrollImageSD() reads the pictures on the card *)
(* and enrols the first face of each.  Every ConfirmTimes pictures are of  *)
(* one person, the pictures being numbered.  The list is in RAM, so it is  *)
(* built anew at every boot, and the camera's loop restarts the board when *)
(* it cannot take a picture.                                               *)
(***************************************************************************)
EXTENDS FaceList, FiniteSets

CONSTANTS Pictures,        \* size of filepath, 10 in the code
          NoFace, Absent   \* what a picture may be instead of a person's

(* The person whose turn it is on picture j.                               *)
Owner(j) == (j - 1) \div ConfirmTimes

ASSUME FaceEnrollAssumption ==
  /\ Pictures \in Nat /\ Pictures <= ConfirmTimes * SaveNumber
  /\ \A j \in 1..Pictures : Owner(j) \in Persons
  /\ NoFace \notin Persons /\ Absent \notin Persons /\ NoFace # Absent

VARIABLES pc,       \* "mount", "read" or "run"
          card,     \* what a reading of each picture gives
          j,        \* the picture to read
          mounted   \* the card answers

vars == <<pc, card, j, mounted, listVars>>

Cards == {c \in [1..Pictures -> Persons \cup {NoFace, Absent}] :
            \A i \in 1..Pictures : c[i] \in {Owner(i), NoFace, Absent}}

Init ==
  /\ pc = "mount" /\ card \in Cards /\ j = 1 /\ mounted = FALSE /\ EmptyList

-----------------------------------------------------------------------------
(* SD_MMC.begin() and face_id_init(); the board restarts until the card    *)
(* answers.                                                                *)
Mount ==
  /\ pc = "mount" /\ pc' = "read" /\ mounted' = TRUE
  /\ UNCHANGED <<card, j, listVars>>

Picture == pc = "read" /\ j <= Pictures /\ j' = j + 1 /\ UNCHANGED <<pc, card>>

Opens == mounted /\ card[j] # Absent

(* A file that does not open ends the session with the card, and with it   *)
(* all files after it.                                                     *)
OpenFails ==
  /\ Picture /\ ~Opens /\ mounted' = FALSE
  /\ UNCHANGED listVars

(* No face, none that can be aligned, or no memory for the picture.        *)
FaceNotFound ==
  /\ Picture /\ Opens /\ card[j] = NoFace
  /\ UNCHANGED <<mounted, listVars>>

(* Mutant: every face of the picture is enrolled, here two.                *)
EnrollEveryFace(p) ==
  /\ count' = (count + 2) % ConfirmTimes
  /\ who' = IF count + 2 < ConfirmTimes THEN who \cup {p} ELSE {}
  /\ faces' = IF count + 2 < ConfirmTimes THEN faces
              ELSE Append(Room, who \cup {p})

(* The face in the first box only.                                         *)
EnrollFirstFace(p) == EnrollFace(p)

EnrollPicture ==
  /\ Picture /\ Opens /\ card[j] # NoFace
  /\ EnrollFirstFace(card[j])
  /\ UNCHANGED mounted

(* The list as it is is what the camera goes to work with.                 *)
SetupEnds ==
  /\ pc = "read" /\ j > Pictures /\ pc' = "run" /\ mounted' = FALSE
  /\ UNCHANGED <<card, j, listVars>>

(* A power cut, or faceRecognition() without a picture.                    *)
Restart ==
  /\ pc # "mount" /\ pc' = "mount" /\ mounted' = FALSE /\ j' = 1
  /\ faces' = <<>> /\ count' = 0 /\ who' = {}
  /\ UNCHANGED card

Next == Mount \/ OpenFails \/ FaceNotFound \/ EnrollPicture \/ SetupEnds \/ Restart

Spec == Init /\ [][Next]_vars

-----------------------------------------------------------------------------
TypeOK ==
  /\ pc \in {"mount", "read", "run"} /\ card \in Cards
  /\ j \in 1..(Pictures + 1) /\ mounted \in BOOLEAN
  /\ ListTypeOK

(* The pictures before the i-th that gave a sample: those with a face that *)
(* come before the first absent one.                                       *)
Sampled(i) ==
  {k \in 1..(i - 1) : card[k] # NoFace /\ \A h \in 1..k : card[h] # Absent}

(* The list holds exactly these samples, each once, none lost to a list    *)
(* that is too short and none left from an earlier boot.                   *)
SamplesAccounted ==
  pc # "mount" => Len(faces) * ConfirmTimes + count = Cardinality(Sampled(j))

(* Once the camera works, everyone whose pictures are all good, and all    *)
(* the pictures before them, has a face of his own, in the order of the    *)
(* pictures, so that the numbers of the names fit.                         *)
GoodUpTo(i) == \A k \in 1..i : card[k] = Owner(k)

GoodCardsEnroll ==
  pc = "run" =>
    \A n \in 1..(Pictures \div ConfirmTimes) :
      GoodUpTo(n * ConfirmTimes) => n <= Len(faces) /\ faces[n] = {n - 1}
=============================================================================
