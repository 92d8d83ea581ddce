--------------------------- MODULE MCUploadServer ---------------------------
(* UploadServer for TLC: the order the roles are read in, and symmetry. *)
EXTENDS UploadServer, TLC

CONSTANTS face_on, shot_screen

OneRole == <<face_on>>
BothRoles == <<face_on, shot_screen>>

Symmetry == Permutations(Digests)
=============================================================================
