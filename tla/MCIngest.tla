------------------------------ MODULE MCIngest ------------------------------
(* Ingest for TLC: contents, phones, golfers and clubs are interchangeable. *)
EXTENDS Ingest, TLC

FileSymmetry == Permutations(Digests) \cup Permutations(Phones)
CursorSymmetry ==
  Permutations(Phones) \cup Permutations(Players) \cup Permutations(Clubs)
=============================================================================
