--------------------------------- MODULE Bag ---------------------------------
(***************************************************************************)
(* One golfer's declared bag: the club in each slot now, and the shelf of  *)
(* the clubs that were.  The routes are coroutines of one process and      *)
(* nothing in them awaits, so each is a step.                              *)
(* Source: storage/bag_store.py, contracts/bag.py, api/app.py.             *)
(***************************************************************************)
EXTENDS Integers, Sequences, FiniteSets, SequencesExt

CONSTANTS
  Slots,    \* ClubId
  Specs,    \* what a physical club is: loft, shaft, brand (same_club_as)
  MaxTime,  \* BOUND: moments
  AtFirst,  \* BOUND: the bags on disk at first
  None, Unreadable

VARIABLES
  bag,  \* <player>.bag.json: None, Unreadable, or the entries and the shelf
  time  \* the wall clock

bagVars == <<bag, time>>

Entry == [slot : Slots, spec : Specs, recorded : 1..MaxTime, retired : {None} \cup 1..MaxTime]

NoClubs == [entries |-> [c \in Slots |-> None], shelf |-> <<>>]

HasBag == bag \notin {None, Unreadable}

\* The validators of Bag: what is in the bag is not retired, what is on the
\* shelf is, and an entry is filed under its own slot.
WellFormed(b) ==
  /\ b \in [entries : [Slots -> Entry \cup {None}], shelf : Seq(Entry)]
  /\ \A c \in Slots : b.entries[c] # None =>
       b.entries[c].slot = c /\ b.entries[c].retired = None
  /\ \A i \in DOMAIN b.shelf : b.shelf[i].retired # None

BagTypeOK == time \in 0..MaxTime /\ (HasBag => WellFormed(bag))

BagInit == bag \in AtFirst

-----------------------------------------------------------------------------

Tick == time < MaxTime /\ time' = time + 1

Retired(e) == [e EXCEPT !.retired = time']

Live(c, spec) == [slot |-> c, spec |-> spec, recorded |-> time', retired |-> None]

\* _load_for_write: no file is an empty bag, a file that cannot be read is an
\* error and stays.
Loaded == IF bag = None THEN NoClubs ELSE bag

\* MUTANT: saving the same club again declares it anew, from now.
InstallAnew(b, c, spec) ==
  [entries |-> [b.entries EXCEPT ![c] = Live(c, spec)], shelf |-> b.shelf]

\* set_entry: the same physical club is left alone, another one shelves it.
Install(b, c, spec) ==
  LET current == b.entries[c]
  IN IF current # None /\ current.spec = spec THEN b
     ELSE [entries |-> [b.entries EXCEPT ![c] = Live(c, spec)],
           shelf |-> IF current = None THEN b.shelf ELSE Append(b.shelf, Retired(current))]

SetEntry(c, spec) ==
  /\ Tick
  /\ bag # Unreadable
  /\ bag' = Install(Loaded, c, spec)

RemoveEntry(c) ==
  /\ Tick
  /\ HasBag /\ bag.entries[c] # None
  /\ bag' = [entries |-> [bag.entries EXCEPT ![c] = None],
             shelf |-> Append(bag.shelf, Retired(bag.entries[c]))]

\* Where on the shelf the clubs of a slot are.
RetiredFor(b, c) == {i \in DOMAIN b.shelf : b.shelf[i].slot = c}

\* The one retired last.
LastRetired(b, c) == b.shelf[Max(RetiredFor(b, c))]

\* MUTANT: the club comes back as the stint it was.
RestoreEntryAsItWas(c) ==
  /\ Tick
  /\ HasBag
  /\ RetiredFor(bag, c) # {}
  /\ LET last == LastRetired(bag, c)
     IN bag' = [Install(bag, c, last.spec) EXCEPT !.entries[c].recorded = last.recorded]

RestoreEntry(c) ==
  /\ Tick
  /\ HasBag
  /\ RetiredFor(bag, c) # {}
  /\ bag' = Install(bag, c, LastRetired(bag, c).spec)

BagNext == \E c \in Slots : RemoveEntry(c) \/ RestoreEntry(c) \/ \E spec \in Specs : SetEntry(c, spec)

-----------------------------------------------------------------------------
(* Properties *)

Stints(c) ==
  IF ~HasBag THEN {}
  ELSE {bag.shelf[i] : i \in RetiredFor(bag, c)} \cup ({bag.entries[c]} \ {None})

Covers(e, t) == e.recorded <= t /\ (e.retired = None \/ t < e.retired)

\* Nothing deletes a club: the shelf only grows, what leaves the bag is on it, and
\* a file that cannot be read is not written over.
NothingIsForgotten ==
  [][/\ bag = Unreadable => bag' = Unreadable
     /\ HasBag =>
          /\ IsPrefix(bag.shelf, bag'.shelf)
          /\ \A c \in Slots : LET e == bag.entries[c] IN
               e # None /\ bag'.entries[c] # e =>
                 \E i \in DOMAIN bag'.shelf : bag'.shelf[i] = Retired(e)]_bagVars
=============================================================================
