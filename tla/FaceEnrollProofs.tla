-------------------------- MODULE FaceEnrollProofs --------------------------
(***************************************************************************)
(* Proofs about FaceEnroll for every number of pictures, samples and       *)
(* faces.  The list accounts for every picture that gave a sample; so it   *)
(* is never full when a face is finished, and no face is replaced.         *)
(***************************************************************************)
EXTENDS FaceEnroll, FaceListProofs, FiniteSetTheorems

(* The card answers until the first picture that is absent.                *)
MountedUntilAbsent ==
  pc = "read" => (mounted <=> \A h \in 1..(j - 1) : card[h] # Absent)

NewList == pc = "mount" => j = 1 /\ EmptyList

Inv == TypeOK /\ MountedUntilAbsent /\ NewList /\ SamplesAccounted

-----------------------------------------------------------------------------
(* A picture adds itself to those sampled, or nothing.                     *)
LEMMA SampledNext ==
  ASSUME NEW i \in Nat \ {0}
  PROVE  Sampled(i + 1) =
           IF card[i] # NoFace /\ \A h \in 1..i : card[h] # Absent
           THEN Sampled(i) \cup {i} ELSE Sampled(i)
BY DEF Sampled

LEMMA SampledSize ==
  ASSUME NEW i \in Nat \ {0}
  PROVE  /\ IsFiniteSet(Sampled(i)) /\ Cardinality(Sampled(i)) \in Nat
         /\ Cardinality(Sampled(i)) <= i - 1
         /\ i \notin Sampled(i)
<1>1. /\ IsFiniteSet(1..(i - 1))
      /\ Cardinality(1..(i - 1)) = i - 1
  <2>1. 1 \in Int /\ i - 1 \in Int
    OBVIOUS
  <2> QED BY <2>1, FS_Interval
<1>2. Sampled(i) \subseteq 1..(i - 1)
  BY DEF Sampled
<1>3. IsFiniteSet(Sampled(i)) /\ Cardinality(Sampled(i)) <= i - 1
  BY <1>1, <1>2, FS_Subset
<1>4. Cardinality(Sampled(i)) \in Nat
  BY <1>3, FS_CardinalityType
<1> QED BY <1>2, <1>3, <1>4

LEMMA SampledGrows ==
  ASSUME NEW i \in Nat \ {0}, card[i] # NoFace,
         \A h \in 1..i : card[h] # Absent
  PROVE  Cardinality(Sampled(i + 1)) = Cardinality(Sampled(i)) + 1
BY SampledNext, SampledSize, FS_AddElement

(* With the samples of fewer than Pictures pictures in it, and one short   *)
(* of a face, the list is not full.                                        *)
LEMMA RoomLeft ==
  ASSUME ListTypeOK, Left = 0, j \in 1..Pictures,
         Len(faces) * ConfirmTimes + count <= j - 1
  PROVE  Len(faces) < SaveNumber
<1> DEFINE n == Len(faces)
<1>1. n \in Nat /\ n <= SaveNumber /\ count = ConfirmTimes - 1
  BY FaceListAssumption DEF ListTypeOK, Left
<1>2. n * ConfirmTimes + ConfirmTimes <= ConfirmTimes * SaveNumber
  <2>1. /\ ConfirmTimes \in Nat /\ SaveNumber \in Nat /\ Pictures \in Nat
        /\ Pictures <= ConfirmTimes * SaveNumber
    BY FaceListAssumption, FaceEnrollAssumption
  <2>2. n * ConfirmTimes \in Nat /\ ConfirmTimes * SaveNumber \in Nat
    BY <1>1, <2>1
  <2> HIDE DEF n
  <2> QED BY <1>1, <2>1, <2>2 DEF n
<1>3. n # SaveNumber
  <2> SUFFICES ASSUME n = SaveNumber PROVE FALSE
    OBVIOUS
  <2>1. SaveNumber * ConfirmTimes = ConfirmTimes * SaveNumber
    BY FaceListAssumption
  <2> QED BY <1>2, <2>1, FaceListAssumption
<1> QED BY <1>1, <1>3, FaceListAssumption

(* A sample is one more, whether or not it finishes the face.              *)
LEMMA EnrollAccounts ==
  ASSUME NEW p \in Persons, ListTypeOK, EnrollFace(p),
         Left > 0 \/ Len(faces) < SaveNumber
  PROVE  Len(faces') * ConfirmTimes + count'
           = Len(faces) * ConfirmTimes + count + 1
<1>1. CASE Left > 0
  <2>1. Len(faces) * ConfirmTimes \in Nat
    BY FaceListAssumption DEF ListTypeOK
  <2> QED BY <1>1, <2>1 DEF EnrollFace, ListTypeOK
<1>2. CASE ~(Left > 0)
  <2>1. Len(faces') = Len(faces) + 1 /\ count' = 0 /\ Len(faces) \in Nat
    BY <1>2 DEF EnrollFace, Room, Leftover, ListTypeOK
  <2>2. count + 1 = ConfirmTimes
    BY <1>2, FaceListAssumption DEF Left, ListTypeOK
  <2>3. (Len(faces) + 1) * ConfirmTimes
          = Len(faces) * ConfirmTimes + ConfirmTimes
    BY <2>1, FaceListAssumption
  <2> QED BY <2>1, <2>2, <2>3, FaceListAssumption DEF ListTypeOK
<1> QED BY <1>1, <1>2

-----------------------------------------------------------------------------
LEMMA InitInv == Init => Inv
<1> SUFFICES ASSUME Init PROVE Inv
  OBVIOUS
<1>1. ListTypeOK
  BY FaceListAssumption DEF Init, EmptyList, ListTypeOK, Faces
<1>2. 1 \in 1..(Pictures + 1)
  BY FaceEnrollAssumption
<1>3. TypeOK
  BY <1>1, <1>2 DEF Init, TypeOK
<1>4. MountedUntilAbsent /\ NewList /\ SamplesAccounted
  BY DEF Init, MountedUntilAbsent, NewList, SamplesAccounted
<1> QED BY <1>3, <1>4 DEF Inv

LEMMA MountInv ==
  ASSUME Inv, Mount
  PROVE  Inv'
<1>1. TypeOK'
  BY DEF Inv, TypeOK, Mount, listVars, ListTypeOK
<1>2. MountedUntilAbsent' /\ NewList'
  BY DEF Inv, NewList, Mount, MountedUntilAbsent
<1>3. SamplesAccounted'
  <2>1. Sampled(1) = {}
    BY DEF Sampled
  <2>2. faces' = <<>> /\ count' = 0 /\ j' = 1 /\ card' = card
    BY DEF Inv, NewList, EmptyList, Mount, listVars
  <2>3. Cardinality(Sampled(1)) = 0
    BY <2>1, FS_EmptySet
  <2>4. Cardinality(Sampled(j))' = Cardinality(Sampled(1))
    BY <2>2 DEF Sampled
  <2>5. Len(faces') * ConfirmTimes + count' = 0
    BY <2>2, FaceListAssumption
  <2> QED BY <2>3, <2>4, <2>5 DEF SamplesAccounted
<1> QED BY <1>1, <1>2, <1>3 DEF Inv

(* What the reading of a picture has in common.                            *)
LEMMA PictureRead ==
  ASSUME Inv, Picture
  PROVE  /\ j \in 1..Pictures /\ j \in Nat \ {0}
         /\ j' = j + 1 /\ j' \in 1..(Pictures + 1)
         /\ pc = "read" /\ pc' = "read"
         /\ Sampled(j)' = Sampled(j + 1)
BY FaceEnrollAssumption DEF Inv, TypeOK, Picture, Sampled

LEMMA NothingRead ==
  ASSUME Inv, OpenFails \/ FaceNotFound
  PROVE  Inv'
<1>1. Picture
  BY DEF OpenFails, FaceNotFound
<1>2. listVars' = listVars /\ card' = card
  BY DEF OpenFails, FaceNotFound, Picture
<1>3. TypeOK'
  BY <1>1, <1>2, PictureRead
  DEF Inv, TypeOK, OpenFails, FaceNotFound, listVars, ListTypeOK
<1>4. MountedUntilAbsent' /\ NewList'
  <2>1. /\ j \in Nat \ {0} /\ j' = j + 1 /\ pc = "read" /\ pc' = "read"
        /\ mounted <=> \A h \in 1..(j - 1) : card[h] # Absent
    BY <1>1, PictureRead DEF Inv, MountedUntilAbsent
  <2>2. (\A h \in 1..(j' - 1) : card[h] # Absent)
          <=> mounted /\ card[j] # Absent
    BY <2>1
  <2>3. mounted' <=> mounted /\ card[j] # Absent
    BY <2>1 DEF OpenFails, FaceNotFound, Opens
  <2> QED BY <1>2, <2>1, <2>2, <2>3 DEF MountedUntilAbsent, NewList
<1>5. Sampled(j + 1) = Sampled(j)
  <2>1. /\ j \in Nat \ {0}
        /\ mounted <=> \A h \in 1..(j - 1) : card[h] # Absent
    BY <1>1, PictureRead DEF Inv, MountedUntilAbsent
  <2>2. card[j] = NoFace \/ ~(\A h \in 1..j : card[h] # Absent)
    BY <2>1 DEF OpenFails, FaceNotFound, Opens
  <2> QED BY <2>1, <2>2, SampledNext
<1>6. SamplesAccounted'
  BY <1>1, <1>2, <1>5, PictureRead DEF Inv, SamplesAccounted, listVars
<1> QED BY <1>3, <1>4, <1>6 DEF Inv

LEMMA PictureEnrolled ==
  ASSUME Inv, EnrollPicture
  PROVE  Inv'
<1>1. Picture /\ card' = card /\ mounted' = mounted
  BY DEF EnrollPicture, Picture
<1>2. card[j] \in Persons /\ EnrollFace(card[j])
  BY <1>1, PictureRead
  DEF Inv, TypeOK, Cards, EnrollPicture, EnrollFirstFace, Opens
<1>3. ListTypeOK /\ ListTypeOK'
  BY <1>2, EnrollTypes DEF Inv, TypeOK
<1>4. TypeOK'
  BY <1>1, <1>3, PictureRead DEF Inv, TypeOK
<1>5. MountedUntilAbsent' /\ NewList'
  BY <1>1, PictureRead
  DEF Inv, MountedUntilAbsent, NewList, EnrollPicture, Opens
<1>6. SamplesAccounted'
  <2>1. \A h \in 1..j : card[h] # Absent
    BY <1>1, PictureRead DEF Inv, MountedUntilAbsent, EnrollPicture, Opens
  <2>2. Cardinality(Sampled(j + 1)) = Cardinality(Sampled(j)) + 1
    BY <1>1, <2>1, PictureRead, SampledGrows DEF EnrollPicture
  <2>3. Len(faces) * ConfirmTimes + count = Cardinality(Sampled(j))
    BY <1>1, PictureRead DEF Inv, SamplesAccounted
  <2>4. Cardinality(Sampled(j)) <= j - 1
    BY <1>1, PictureRead, SampledSize
  <2>5. Left > 0 \/ Len(faces) < SaveNumber
    <3>1. CASE Left = 0
      BY <1>1, <1>3, <2>3, <2>4, <3>1, PictureRead, RoomLeft
    <3>2. CASE Left # 0
      BY <1>3, <3>2, FaceListAssumption DEF ListTypeOK, Left
    <3> QED BY <3>1, <3>2
  <2>6. Len(faces') * ConfirmTimes + count'
          = Len(faces) * ConfirmTimes + count + 1
    BY <1>2, <1>3, <2>5, EnrollAccounts
  <2> QED BY <1>1, <2>2, <2>3, <2>6, PictureRead DEF SamplesAccounted
<1> QED BY <1>4, <1>5, <1>6 DEF Inv

LEMMA EndsInv ==
  ASSUME Inv, SetupEnds \/ Restart \/ UNCHANGED vars
  PROVE  Inv'
<1>1. CASE SetupEnds
  BY <1>1 DEF SetupEnds, Inv, TypeOK, listVars, ListTypeOK,
              MountedUntilAbsent, NewList, SamplesAccounted, Sampled
<1>2. CASE Restart
  <2>1. ListTypeOK'
    BY <1>2, FaceListAssumption DEF Restart, ListTypeOK, Faces
  <2>2. 1 \in 1..(Pictures + 1)
    BY FaceEnrollAssumption
  <2>3. TypeOK'
    BY <1>2, <2>1, <2>2 DEF Restart, Inv, TypeOK
  <2>4. MountedUntilAbsent' /\ NewList' /\ SamplesAccounted'
    BY <1>2
    DEF Restart, MountedUntilAbsent, NewList, EmptyList, SamplesAccounted
  <2> QED BY <2>3, <2>4 DEF Inv
<1>3. CASE UNCHANGED vars
  BY <1>3 DEF vars, Inv, TypeOK, listVars, ListTypeOK, MountedUntilAbsent,
              NewList, EmptyList, SamplesAccounted, Sampled
<1> QED BY <1>1, <1>2, <1>3

LEMMA InvHolds == Spec => []Inv
<1>1. Inv /\ [Next]_vars => Inv'
  BY MountInv, NothingRead, PictureEnrolled, EndsInv DEF Next
<1> QED BY <1>1, InitInv, PTL DEF Spec

(* The list never outgrows its sizes, and reading the card ends behind its *)
(* last picture, whatever the pictures show.                               *)
THEOREM CardTypes == Spec => []TypeOK
<1>1. Inv => TypeOK
  BY DEF Inv
<1> QED BY <1>1, InvHolds, PTL

(* Every sample of every picture is in the list, once, and no face was     *)
(* lost to the size of the list.                                           *)
THEOREM PicturesAccounted == Spec => []SamplesAccounted
<1>1. Inv => SamplesAccounted
  BY DEF Inv
<1> QED BY <1>1, InvHolds, PTL

-----------------------------------------------------------------------------
(***************************************************************************)
(* As long as all the pictures were good, the unfinished face is of the    *)
(* person whose turn it is; and every finished face whose pictures, and    *)
(* those before, were good is that of its owner.                           *)
(***************************************************************************)
UnfinishedIsOwned ==
  pc # "mount" /\ GoodUpTo(j - 1) =>
    who = IF count = 0 THEN {} ELSE {Len(faces)}

FinishedAreOwned ==
  pc # "mount" =>
    \A n \in 1..Len(faces) :
      GoodUpTo(n * ConfirmTimes) /\ n * ConfirmTimes < j => faces[n] = {n - 1}

AllRead == pc = "run" => j > Pictures

Own == UnfinishedIsOwned /\ FinishedAreOwned /\ AllRead

LEMMA DivOfSum ==
  ASSUME NEW q \in Nat, NEW r \in Nat, NEW d \in Nat, d > 0, r < d
  PROVE  (q * d + r) \div d = q
BY Z3

LEMMA DivBound ==
  ASSUME NEW n \in Nat, NEW m \in Nat, NEW d \in Nat, d > 0, n <= m \div d
  PROVE  n * d <= m
BY Z3

LEMMA OwnersAreNumbers ==
  ASSUME NEW i \in 1..Pictures
  PROVE  Owner(i) # NoFace /\ Owner(i) # Absent
BY FaceEnrollAssumption

(* Good pictures are all sampled.                                          *)
LEMMA GoodSampled ==
  ASSUME NEW i \in Nat \ {0}, NEW m \in Nat, m < i, m <= Pictures, GoodUpTo(m)
  PROVE  m <= Cardinality(Sampled(i))
<1>1. 1..m \subseteq Sampled(i)
  BY OwnersAreNumbers, FaceEnrollAssumption DEF GoodUpTo, Sampled
<1>2. Cardinality(1..m) = m
  BY FS_Interval
<1> QED BY <1>1, <1>2, SampledSize, FS_Subset

(* The whole state of the list while all the pictures were good.           *)
LEMMA GoodCount ==
  ASSUME Inv, pc # "mount", GoodUpTo(j - 1)
  PROVE  Len(faces) * ConfirmTimes + count = j - 1
<1>1. j \in Nat \ {0} /\ j - 1 \in Nat /\ j - 1 < j /\ j - 1 <= Pictures
  BY FaceEnrollAssumption DEF Inv, TypeOK
<1>2. j - 1 <= Cardinality(Sampled(j)) /\ Cardinality(Sampled(j)) <= j - 1
      /\ Cardinality(Sampled(j)) \in Nat
  BY <1>1, GoodSampled, SampledSize
<1> QED BY <1>1, <1>2 DEF Inv, SamplesAccounted

(* The owner of the picture after them is the next person, or the one      *)
(* whose face is unfinished.                                               *)
LEMMA NextOwner ==
  ASSUME Inv, pc # "mount", GoodUpTo(j - 1)
  PROVE  Owner(j) = Len(faces)
<1>1. Len(faces) \in Nat /\ count \in Nat /\ count < ConfirmTimes
      /\ ConfirmTimes \in Nat /\ ConfirmTimes > 0
  BY FaceListAssumption DEF Inv, TypeOK, ListTypeOK
<1>2. (Len(faces) * ConfirmTimes + count) \div ConfirmTimes = Len(faces)
  BY <1>1, DivOfSum
<1> QED BY <1>2, GoodCount DEF Owner

LEMMA FewerGood ==
  ASSUME NEW m \in Int, NEW n \in Int, m <= n, GoodUpTo(n)
  PROVE  GoodUpTo(m)
BY DEF GoodUpTo

(* A finished face is older than the picture to read.                      *)
LEMMA FinishedAreOlder ==
  ASSUME Inv, pc # "mount", NEW n \in 1..Len(faces)
  PROVE  n * ConfirmTimes < j
<1>1. /\ Len(faces) \in Nat /\ count \in Nat /\ ConfirmTimes \in Nat
      /\ j \in Nat \ {0}
  BY FaceListAssumption, FaceEnrollAssumption DEF Inv, TypeOK, ListTypeOK
<1>2. n * ConfirmTimes <= Len(faces) * ConfirmTimes
  BY <1>1
<1>3. n * ConfirmTimes \in Nat /\ Len(faces) * ConfirmTimes \in Nat
  BY <1>1
<1>4. Len(faces) * ConfirmTimes + count <= j - 1
  BY <1>1, SampledSize DEF Inv, SamplesAccounted
<1> QED BY <1>1, <1>2, <1>3, <1>4

LEMMA OwnEnrolled ==
  ASSUME Inv, Own, EnrollPicture
  PROVE  Own'
<1>1. Picture /\ card' = card
  BY DEF EnrollPicture, Picture
<1>2. /\ j \in 1..Pictures /\ j \in Nat \ {0} /\ j' = j + 1
      /\ pc = "read" /\ pc' = "read"
  BY <1>1, PictureRead
<1>3. card[j] \in Persons /\ EnrollFace(card[j])
  BY <1>1, <1>2 DEF Inv, TypeOK, Cards, EnrollPicture, EnrollFirstFace, Opens
<1>4. /\ ListTypeOK /\ Len(faces) \in Nat /\ count \in Nat
      /\ count < ConfirmTimes /\ ConfirmTimes \in Nat /\ ConfirmTimes > 0
  BY FaceListAssumption DEF Inv, TypeOK, ListTypeOK
<1>5. /\ Len(faces) * ConfirmTimes + count = Cardinality(Sampled(j))
      /\ Len(faces) * ConfirmTimes + count <= j - 1
      /\ Left > 0 \/ Len(faces) < SaveNumber
  <2>1. Len(faces) * ConfirmTimes + count = Cardinality(Sampled(j))
    BY <1>2 DEF Inv, SamplesAccounted
  <2>2. Cardinality(Sampled(j)) <= j - 1
    BY <1>2, SampledSize
  <2>3. CASE Left = 0
    BY <1>2, <1>4, <2>1, <2>2, <2>3, RoomLeft
  <2>4. CASE Left # 0
    BY <1>4, <2>1, <2>2, <2>4 DEF Left
  <2> QED BY <2>3, <2>4
<1>6. \A n \in 1..Len(faces) : n * ConfirmTimes < j
  BY <1>2, FinishedAreOlder
(* The unfinished face with this sample in it.                             *)
<1>7. ASSUME GoodUpTo(j)
      PROVE  who \cup {card[j]} = {Len(faces)}
  <2>1. GoodUpTo(j - 1)
    BY <1>2, <1>7, FewerGood
  <2>2. card[j] = Len(faces)
    BY <1>2, <1>7, <2>1, NextOwner DEF GoodUpTo
  <2> QED BY <1>2, <2>1, <2>2 DEF Own, UnfinishedIsOwned
<1>8. CASE Left > 0
  <2>1. count' = count + 1 /\ who' = who \cup {card[j]} /\ faces' = faces
    BY <1>3, <1>8 DEF EnrollFace
  <2>2. UnfinishedIsOwned'
    BY <1>1, <1>2, <1>4, <1>7, <2>1 DEF UnfinishedIsOwned, GoodUpTo
  <2>3. FinishedAreOwned'
    <3> SUFFICES ASSUME NEW n \in 1..Len(faces),
                        GoodUpTo(n * ConfirmTimes), n * ConfirmTimes < j + 1
                 PROVE  faces[n] = {n - 1}
      BY <1>1, <1>2, <2>1 DEF FinishedAreOwned, GoodUpTo
    <3> QED BY <1>2, <1>6 DEF Own, FinishedAreOwned
  <2> QED BY <1>2, <2>2, <2>3 DEF Own, AllRead
<1>9. CASE ~(Left > 0)
  <2>1. faces' = Append(faces, who \cup {card[j]}) /\ count' = 0 /\ who' = {}
    BY <1>3, <1>5, <1>9 DEF EnrollFace, Room, Leftover
  <2>2. UnfinishedIsOwned'
    BY <2>1 DEF UnfinishedIsOwned
  <2>3. FinishedAreOwned'
    <3> SUFFICES ASSUME NEW n \in 1..(Len(faces) + 1),
                        GoodUpTo(n * ConfirmTimes), n * ConfirmTimes < j + 1
                 PROVE  Append(faces, who \cup {card[j]})[n] = {n - 1}
      BY <1>1, <1>2, <1>4, <2>1 DEF FinishedAreOwned, GoodUpTo, ListTypeOK
    <3>1. CASE n \in 1..Len(faces)
      <4>1. faces[n] = {n - 1}
        BY <1>2, <1>6, <3>1 DEF Own, FinishedAreOwned
      <4> QED BY <1>4, <3>1, <4>1 DEF ListTypeOK
    <3>2. CASE n = Len(faces) + 1
      <4>1. count + 1 = ConfirmTimes
        BY <1>4, <1>9 DEF Left
      <4>2. n * ConfirmTimes = Len(faces) * ConfirmTimes + ConfirmTimes
        BY <1>4, <3>2
      <4>3. Len(faces) * ConfirmTimes \in Nat /\ n * ConfirmTimes \in Nat
        BY <1>4, <3>2
      <4>4. n * ConfirmTimes = Cardinality(Sampled(j)) + 1
        BY <1>4, <1>5, <4>1, <4>2, <4>3
      <4>5. ~(n * ConfirmTimes < j)
        <5> SUFFICES ASSUME n * ConfirmTimes < j PROVE FALSE
          OBVIOUS
        <5>1. n * ConfirmTimes <= Pictures
          BY <1>2, <4>3, FaceEnrollAssumption
        <5>2. n * ConfirmTimes <= Cardinality(Sampled(j))
          BY <1>2, <4>3, <5>1, GoodSampled
        <5> QED BY <1>2, <4>3, <4>4, <5>2, SampledSize
      <4>6. n * ConfirmTimes = j
        BY <1>2, <4>3, <4>5
      <4>7. who \cup {card[j]} = {Len(faces)}
        BY <1>7, <4>6
      <4> QED BY <1>4, <3>2, <4>7 DEF ListTypeOK
    <3> QED BY <1>4, <3>1, <3>2
  <2> QED BY <1>2, <2>2, <2>3 DEF Own, AllRead
<1> QED BY <1>8, <1>9

(* A picture that gives no sample is not good.                             *)
LEMMA OwnRead ==
  ASSUME Inv, Own, OpenFails \/ FaceNotFound
  PROVE  Own'
<1>1. Picture /\ card' = card /\ listVars' = listVars
  BY DEF OpenFails, FaceNotFound, Picture
<1>2. /\ j \in 1..Pictures /\ j \in Nat \ {0} /\ j' = j + 1
      /\ pc = "read" /\ pc' = "read"
  BY <1>1, PictureRead
<1>3. ~GoodUpTo(j)
  <2> SUFFICES ASSUME GoodUpTo(j) PROVE FALSE
    OBVIOUS
  <2>1. \A h \in 1..j : card[h] # Absent /\ card[h] # NoFace
    BY <1>2, OwnersAreNumbers, FaceEnrollAssumption DEF GoodUpTo
  <2>2. mounted
    BY <1>2, <2>1 DEF Inv, MountedUntilAbsent
  <2>3. card[j] # Absent /\ card[j] # NoFace
    BY <1>2, <2>1
  <2> QED BY <2>2, <2>3 DEF OpenFails, FaceNotFound, Opens
<1>4. UnfinishedIsOwned'
  BY <1>1, <1>2, <1>3 DEF UnfinishedIsOwned, GoodUpTo
<1>5. FinishedAreOwned'
  BY <1>1, <1>2, FinishedAreOlder
  DEF Own, FinishedAreOwned, GoodUpTo, listVars
<1> QED BY <1>4, <1>5, <1>2 DEF Own, AllRead

LEMMA OwnOthers ==
  ASSUME Inv, Own, Mount \/ SetupEnds \/ Restart \/ UNCHANGED vars
  PROVE  Own'
<1>1. CASE Mount
  <2>1. faces' = <<>> /\ count' = 0 /\ who' = {} /\ pc' = "read"
    BY <1>1 DEF Inv, NewList, EmptyList, Mount, listVars
  <2> QED BY <2>1 DEF Own, UnfinishedIsOwned, FinishedAreOwned, AllRead
<1>2. CASE SetupEnds
  BY <1>2 DEF SetupEnds, listVars, Own, UnfinishedIsOwned, FinishedAreOwned,
              AllRead, GoodUpTo
<1>3. CASE Restart
  BY <1>3
  DEF Restart, Own, UnfinishedIsOwned, FinishedAreOwned, AllRead
<1>4. CASE UNCHANGED vars
  BY <1>4 DEF vars, listVars, Own, UnfinishedIsOwned, FinishedAreOwned,
              AllRead, GoodUpTo
<1> QED BY <1>1, <1>2, <1>3, <1>4

LEMMA OwnGoodCards ==
  ASSUME Inv, Own
  PROVE  GoodCardsEnroll
<1> SUFFICES ASSUME pc = "run", NEW n \in 1..(Pictures \div ConfirmTimes),
                    GoodUpTo(n * ConfirmTimes)
             PROVE  n <= Len(faces) /\ faces[n] = {n - 1}
  BY DEF GoodCardsEnroll
<1>1. /\ Len(faces) \in Nat /\ count \in Nat /\ count < ConfirmTimes
      /\ ConfirmTimes \in Nat /\ ConfirmTimes > 0 /\ Pictures \in Nat
      /\ n \in Nat /\ n > 0 /\ j \in Nat \ {0} /\ j > Pictures
  BY FaceListAssumption, FaceEnrollAssumption
  DEF Inv, Own, AllRead, TypeOK, ListTypeOK
<1>2. n * ConfirmTimes <= Pictures
  <2>1. n <= Pictures \div ConfirmTimes
    OBVIOUS
  <2> QED BY <1>1, <2>1, DivBound
<1>3. n * ConfirmTimes \in Nat /\ Len(faces) * ConfirmTimes \in Nat
  BY <1>1
<1>4. n * ConfirmTimes <= Cardinality(Sampled(j))
  BY <1>1, <1>2, <1>3, GoodSampled
<1>5. n * ConfirmTimes <= Len(faces) * ConfirmTimes + count
  BY <1>4 DEF Inv, SamplesAccounted
<1>6. n <= Len(faces)
  <2> SUFFICES ASSUME n >= Len(faces) + 1 PROVE FALSE
    BY <1>1
  <2>1. n * ConfirmTimes >= (Len(faces) + 1) * ConfirmTimes
    BY <1>1
  <2>2. (Len(faces) + 1) * ConfirmTimes = Len(faces) * ConfirmTimes + ConfirmTimes
    BY <1>1
  <2> QED BY <1>1, <1>3, <1>5, <2>1, <2>2
<1>7. n \in 1..Len(faces) /\ n * ConfirmTimes < j
  BY <1>1, <1>2, <1>3, <1>6
<1> QED BY <1>6, <1>7 DEF Own, FinishedAreOwned

(* Everyone whose pictures, and those before them, are good is known by a  *)
(* face of his own, under his number.                                      *)
THEOREM GoodCardsEnrolled == Spec => []GoodCardsEnroll
<1>1. Init => Own
  BY DEF Init, Own, UnfinishedIsOwned, FinishedAreOwned, AllRead
<1>2. Inv /\ Own /\ [Next]_vars => Own'
  BY OwnEnrolled, OwnRead, OwnOthers DEF Next
<1>3. Inv /\ Own => GoodCardsEnroll
  BY OwnGoodCards
<1> QED BY <1>1, <1>2, <1>3, InvHolds, PTL DEF Spec
=============================================================================
