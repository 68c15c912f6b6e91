--------------------------- MODULE FaceListProofs ---------------------------
(***************************************************************************)
(* What a sample does to the list of faces, for every number of samples    *)
(* and of faces.                                                           *)
(***************************************************************************)
EXTENDS FaceList, TLAPS

(* A full list loses a face, any other none, so there is room for one.     *)
LEMMA RoomTypes ==
  ASSUME ListTypeOK
  PROVE  Room \in Seq(Faces) /\ Len(Room) < SaveNumber
<1>1. CASE Len(faces) < SaveNumber
  BY <1>1 DEF Room, ListTypeOK
<1>2. CASE ~(Len(faces) < SaveNumber)
  <2>1. Len(faces) = SaveNumber /\ faces # <<>>
    BY <1>2, FaceListAssumption DEF ListTypeOK
  <2>2. Tail(faces) \in Seq(Faces) /\ Len(Tail(faces)) = Len(faces) - 1
    BY <2>1 DEF ListTypeOK
  <2> QED BY <1>2, <2>1, <2>2, FaceListAssumption DEF Room
<1> QED BY <1>1, <1>2

(* enroll_face() keeps the types of the list and its two bounds.           *)
LEMMA EnrollTypes ==
  ASSUME NEW p \in Persons, ListTypeOK, EnrollFace(p)
  PROVE  ListTypeOK'
<1>1. who \cup {p} \in Faces /\ {} \in Faces
  BY DEF ListTypeOK, Faces
<1>2. CASE Left > 0
  <2>1. count' \in 0..(ConfirmTimes - 1)
    BY <1>2, FaceListAssumption DEF EnrollFace, Left, ListTypeOK
  <2> QED BY <1>1, <1>2, <2>1 DEF EnrollFace, ListTypeOK, Faces
<1>3. CASE ~(Left > 0)
  <2>1. faces' = Append(Room, who \cup {p}) /\ count' = 0 /\ who' = {}
    BY <1>3 DEF EnrollFace, Leftover
  <2>2. faces' \in Seq(Faces) /\ Len(faces') <= SaveNumber
    BY <1>1, <2>1, RoomTypes, FaceListAssumption
  <2> QED BY <1>1, <2>1, <2>2, FaceListAssumption DEF ListTypeOK, Faces
<1> QED BY <1>2, <1>3

(* A sample leaves everyone recognisable who was, unless it replaces a     *)
(* face.                                                                   *)
LEMMA EnrollKeepsMatches ==
  ASSUME NEW p \in Persons, NEW q, ListTypeOK, EnrollFace(p), MayMatch(q),
         Left > 0 \/ Len(faces) < SaveNumber
  PROVE  MayMatch(q)'
<1>1. CASE Left > 0
  BY <1>1 DEF EnrollFace, MayMatch, Registered
<1>2. CASE ~(Left > 0)
  <2>1. faces' = Append(faces, who \cup {p})
    BY <1>2 DEF EnrollFace, Room
  <2>2. PICK i \in DOMAIN faces : q \in faces[i]
    BY DEF MayMatch, Registered
  <2>3. i \in DOMAIN faces' /\ faces'[i] = faces[i]
    BY <2>1, <2>2 DEF ListTypeOK
  <2> QED BY <2>2, <2>3 DEF MayMatch, Registered
<1> QED BY <1>1, <1>2
=============================================================================
