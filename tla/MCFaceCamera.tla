---------------------------- MODULE MCFaceCamera ----------------------------
(***************************************************************************)
(* The camera with the lists that a card with the driver's pictures may    *)
(* leave: his face, or one that is a picture short.                        *)
(***************************************************************************)
EXTENDS FaceCamera

MCStartLists ==
  {[faces |-> <<{Driver}>>, count |-> 0, who |-> {}],
   [faces |-> <<>>, count |-> ConfirmTimes - 1, who |-> {Driver}]}
=============================================================================
