--------------------------- MODULE Readings_proofs ---------------------------
(***************************************************************************)
(* What is said about a career and a bag, proved for any directories,      *)
(* golfers, clubs, clips and photos and any number of edits.               *)
(*                                                                         *)
(* The invariant is small, because a reader reads afresh.  The library: a  *)
(* swing arrived at an edit that was made (Aged), so that what arrives     *)
(* next is behind all of them.  The bag: what is on the shelf was retired  *)
(* by now, and before its slot was filled again (InTurn).  NoCaveatOneClub *)
(* needs the second, which is not among the checks of the Bag class.       *)
(*                                                                         *)
(* The rest is about the readers: Before is a total order of the swings on *)
(* disk, so that any of them have one first, which each reader that takes  *)
(* "the first" must then mean; and the first swing of each artifact is     *)
(* that artifact's one sample.                                             *)
(***************************************************************************)
EXTENDS Readings, FiniteSetTheorems, WellFoundedInduction, TLAPS

-----------------------------------------------------------------------------
(* The order of the swings. *)

\* A set of numbers has a least one.
LEMMA LeastNumber ==
  ASSUME NEW T \in SUBSET Nat, T # {}
  PROVE  \E n \in T : \A k \in T : n <= k
<1> DEFINE R == {ss \in Nat \X Nat : ss[1] < ss[2]}
<1>1. IsWellFoundedOn(R, Nat)
  BY NatLessThanWellFounded DEF OpToRel
<1>2. \A k, n \in Nat : k < n => <<k, n>> \in R
  BY DEF R
<1> HIDE DEF R
<1>3. PICK n \in T : \A k \in T : ~(<<k, n>> \in R)
  BY <1>1, WFMin
<1>4. \A k \in T : k \in Nat /\ n \in Nat /\ ~(k < n)
  BY <1>2, <1>3
<1>5. \A k \in T : n <= k
  BY <1>4
<1> QED
  BY <1>3, <1>5

\* The arrivals of swings are of numbers.
Dated ==
  \A s \in OnDisk : manifest[s].at \in Nat /\ s[1] \in Nat /\ s[2] \in Nat /\ s = <<s[1], s[2]>>

\* One swing arrived before another: earlier, or in an earlier session, or in an earlier
\* directory of it.
LEMMA BeforeIs ==
  ASSUME Dated, NEW s \in OnDisk, NEW t \in OnDisk
  PROVE  Before(s, t) <=>
           \/ manifest[s].at < manifest[t].at
           \/ manifest[s].at = manifest[t].at /\ s[1] < t[1]
           \/ manifest[s].at = manifest[t].at /\ s[1] = t[1] /\ s[2] < t[2]
<1>1. PICK x, y, z : x = manifest[s].at /\ y = s[1] /\ z = s[2]
  OBVIOUS
<1>2. PICK u, v, w : u = manifest[t].at /\ v = t[1] /\ w = t[2]
  OBVIOUS
<1>3. /\ x \in Nat /\ y \in Nat /\ z \in Nat
      /\ u \in Nat /\ v \in Nat /\ w \in Nat
  BY <1>1, <1>2 DEF Dated
<1>4. PICK a, b : a = <<x, y, z>> /\ b = <<u, v, w>>
  OBVIOUS
<1>5. Before(s, t) <=> \E i \in 1..3 : a[i] < b[i] /\ \A j \in 1..(i - 1) : a[j] = b[j]
  BY <1>1, <1>2, <1>4 DEF Before
<1>6. a[1] = x /\ a[2] = y /\ a[3] = z /\ b[1] = u /\ b[2] = v /\ b[3] = w
  BY <1>4
<1>7. \A i \in 1..3 : i = 1 \/ i = 2 \/ i = 3
  OBVIOUS
<1>8. /\ \A j \in 1..(1 - 1) : a[j] = b[j]
      /\ (\A j \in 1..(2 - 1) : a[j] = b[j]) <=> a[1] = b[1]
      /\ (\A j \in 1..(3 - 1) : a[j] = b[j]) <=> a[1] = b[1] /\ a[2] = b[2]
  <2>1. 1..(1 - 1) = {} /\ 1..(2 - 1) = {1} /\ 1..(3 - 1) = {1, 2}
    OBVIOUS
  <2> QED
    BY <2>1
<1>9. Before(s, t) <=> x < u \/ (x = u /\ y < v) \/ (x = u /\ y = v /\ z < w)
  <2>1. 1 \in 1..3 /\ 2 \in 1..3 /\ 3 \in 1..3
    OBVIOUS
  <2> QED
    BY <1>5, <1>6, <1>7, <1>8, <2>1
<1> QED
  BY <1>1, <1>2, <1>9

\* Of two swings one is before the other, and only one.
LEMMA OneIsBefore ==
  ASSUME Dated, NEW s \in OnDisk, NEW t \in OnDisk
  PROVE  /\ s # t => Before(s, t) \/ Before(t, s)
         /\ ~(Before(s, t) /\ Before(t, s))
<1>1. /\ manifest[s].at \in Nat /\ s[1] \in Nat /\ s[2] \in Nat /\ s = <<s[1], s[2]>>
      /\ manifest[t].at \in Nat /\ t[1] \in Nat /\ t[2] \in Nat /\ t = <<t[1], t[2]>>
  BY DEF Dated
<1>2. s # t => s[1] # t[1] \/ s[2] # t[2]
  BY <1>1
<1> QED
  BY <1>1, <1>2, BeforeIs

\* Any swings have a first, which First names.
LEMMA FirstIsOne ==
  ASSUME Dated, NEW S \in SUBSET OnDisk, S # {}
  PROVE  First(S) \in S /\ \A t \in S \ {First(S)} : Before(First(S), t)
<1> DEFINE ats == {n \in Nat : \E s \in S : manifest[s].at = n}
<1>1. PICK at \in ats : \A n \in ats : at <= n
  <2>1. ats \in SUBSET Nat /\ ats # {}
    BY DEF Dated
  <2> HIDE DEF ats
  <2> QED
    BY <2>1, LeastNumber
<1> DEFINE days == {n \in Nat : \E s \in S : manifest[s].at = at /\ s[1] = n}
<1>2. PICK day \in days : \A n \in days : day <= n
  <2>1. days \in SUBSET Nat /\ days # {}
    BY <1>1 DEF Dated
  <2> HIDE DEF days
  <2> QED
    BY <2>1, LeastNumber
<1> DEFINE dirs == {n \in Nat : \E s \in S : manifest[s].at = at /\ s[1] = day /\ s[2] = n}
<1>3. PICK dir \in dirs : \A n \in dirs : dir <= n
  <2>1. dirs \in SUBSET Nat /\ dirs # {}
    BY <1>2 DEF Dated
  <2> HIDE DEF dirs
  <2> QED
    BY <2>1, LeastNumber
<1>4. PICK s \in S : manifest[s].at = at /\ s[1] = day /\ s[2] = dir
  BY <1>3
<1>5. ASSUME NEW t \in S \ {s} PROVE Before(s, t)
  <2>1. /\ manifest[t].at \in Nat /\ t[1] \in Nat /\ t[2] \in Nat
        /\ at \in Nat /\ day \in Nat /\ dir \in Nat
    BY <1>1, <1>2, <1>3 DEF Dated
  <2>2. at <= manifest[t].at
    BY <1>1, <2>1
  <2>3. manifest[t].at = at => day <= t[1]
    BY <1>2, <2>1
  <2>4. manifest[t].at = at /\ t[1] = day => dir <= t[2]
    BY <1>3, <2>1
  <2>5. s = <<day, dir>> /\ t = <<t[1], t[2]>> /\ s # t
    BY <1>4 DEF Dated
  <2> HIDE DEF ats, days, dirs
  <2> QED
    BY <1>4, <2>1, <2>2, <2>3, <2>4, <2>5, BeforeIs
<1> QED
  BY <1>4, <1>5 DEF First

\* And there is no other.
LEMMA FirstIsTheOnlyOne ==
  ASSUME Dated, NEW S \in SUBSET OnDisk, NEW s \in S, \A t \in S \ {s} : Before(s, t)
  PROVE  s = First(S)
<1>1. First(S) \in S /\ \A t \in S \ {First(S)} : Before(First(S), t)
  BY FirstIsOne
<1> QED
  BY <1>1, OneIsBefore

\* A set of numbers below a bound has a greatest one, which Max names.
LEMMA MaxIsOne ==
  ASSUME NEW T \in SUBSET Nat, T # {}, NEW bound \in Nat, \A n \in T : n <= bound
  PROVE  Max(T) \in T
<1> DEFINE U == {m \in Nat : bound - m \in T}
<1>1. U \in SUBSET Nat
  OBVIOUS
<1>2. ASSUME NEW n \in T PROVE bound - n \in U
  <2>1. n \in Nat /\ n <= bound
    OBVIOUS
  <2>2. bound - n \in Nat /\ bound - (bound - n) = n
    BY <2>1
  <2> QED
    BY <2>2
<1> HIDE DEF U
<1>3. PICK m \in U : \A k \in U : m <= k
  BY <1>1, <1>2, LeastNumber
<1>4. m \in Nat /\ bound - m \in T
  BY <1>3 DEF U
<1>5. ASSUME NEW k \in T PROVE bound - m >= k
  <2>1. m <= bound - k /\ k \in Nat
    BY <1>2, <1>3
  <2> QED
    BY <1>4, <2>1
<1> QED
  BY <1>4, <1>5 DEF Max

-----------------------------------------------------------------------------
(* The library. *)

\* Every swing arrived at an edit that was made.
Aged == \A s \in Swings : manifest[s] # None => manifest[s].at <= clock

LibraryInv == LibraryTypeOK /\ Aged

LEMMA LibraryBegins ==
  ASSUME LibraryInit
  PROVE  LibraryInv
<1>1. PICK q \in AtFirst :
        LET where == {q[i].dir : i \in DOMAIN q}
            nth(s) == CHOOSE i \in DOMAIN q : q[i].dir = s
        IN /\ manifest = [s \in Swings |-> IF s \in where THEN Arrived(q[nth(s)], nth(s)) ELSE None]
           /\ sidecar = [s \in Swings |-> IF s \in where THEN InputsOf(manifest[s]) ELSE None]
           /\ result = [s \in Swings |-> IF s \in where
                                          THEN [inputs |-> sidecar[s], version |-> engine] ELSE None]
  BY DEF LibraryInit
<1> DEFINE where == {q[i].dir : i \in DOMAIN q}
           nth(s) == CHOOSE i \in DOMAIN q : q[i].dir = s
<1>2. q \in Seq(OnDiskAtFirst) /\ Len(q) <= 2 /\ MaxEdits \in Nat /\ MaxEdits >= 2
  BY CareerConstants
<1>3. engine = 1 /\ clock = 2
  BY DEF LibraryInit
<1>4. ASSUME NEW s \in Swings, s \in where
      PROVE  /\ manifest[s] \in Manifest /\ manifest[s].at <= clock
             /\ sidecar[s] \in Inputs /\ result[s] = [inputs |-> sidecar[s], version |-> 1]
  <2>1. nth(s) \in DOMAIN q
    BY <1>4
  <2>2. PICK i \in 1..2, a \in OnDiskAtFirst : i = nth(s) /\ a = q[i]
    BY <1>2, <2>1
  <2>3. manifest[s] = Arrived(a, i)
    BY <1>1, <1>4, <2>2
  <2>4. i \in 1..MaxEdits
    BY <1>2
  <2>5. manifest[s] \in Manifest /\ manifest[s].at = i
    BY <2>3, <2>4 DEF Arrived, Manifest, OnDiskAtFirst
  <2>6. sidecar[s] = InputsOf(manifest[s])
    BY <1>1, <1>4
  <2>7. sidecar[s] \in Inputs
    BY <2>5, <2>6 DEF InputsOf, Inputs, Manifest
  <2>8. result[s] = [inputs |-> sidecar[s], version |-> 1]
    BY <1>1, <1>3, <1>4
  <2>9. manifest[s].at <= clock
    <3> HIDE DEF where, nth
    <3>1. i <= 2
      BY <2>2
    <3> QED
      BY <1>3, <2>5, <3>1
  <2> QED
    BY <2>5, <2>7, <2>8, <2>9
<1>5. ASSUME NEW s \in Swings, s \notin where
      PROVE  manifest[s] = None /\ sidecar[s] = None /\ result[s] = None
  BY <1>1, <1>5
<1>6. /\ manifest = [s \in Swings |-> manifest[s]] /\ sidecar = [s \in Swings |-> sidecar[s]]
      /\ result = [s \in Swings |-> result[s]]
  BY <1>1
<1>7. 1 \in 1..engine /\ clock \in 0..MaxEdits
  BY <1>2, <1>3
<1> HIDE DEF where, nth
<1>8. ASSUME NEW s \in Swings PROVE result[s] \in [inputs : Inputs, version : 1..engine] \cup {None}
  <2>1. CASE s \in where
    <3>1. PICK x \in Inputs : result[s] = [inputs |-> x, version |-> 1]
      BY <1>4, <2>1
    <3> QED
      BY <1>7, <3>1
  <2> QED
    BY <1>5, <2>1
<1> QED
  BY <1>3, <1>4, <1>5, <1>6, <1>7, <1>8 DEF LibraryInv, LibraryTypeOK, Aged

\* A run leaves what is of its type.
LEMMA RunIsTyped ==
  ASSUME LibraryTypeOK, NEW s \in Swings, NEW m \in Manifest, NEW ends, Run(s, m, ends),
         engine' = engine
  PROVE  /\ result' \in [Swings -> [inputs : Inputs, version : 1..engine'] \cup {None}]
         /\ sidecar' \in [Swings -> Inputs \cup {None}]
<1>1. InputsOf(m) \in Inputs
  BY DEF InputsOf, Inputs, Manifest
<1>2. engine \in 1..engine
  BY DEF LibraryTypeOK
<1> QED
  BY <1>1, <1>2 DEF Run, LibraryTypeOK

LEMMA LibraryStays ==
  ASSUME LibraryInv, LibraryNext
  PROVE  LibraryInv'
<1>1. /\ clock \in 0..MaxEdits /\ MaxEdits \in Nat
      /\ Edit => clock' = clock + 1 /\ clock' \in 1..MaxEdits /\ clock < clock'
  BY CareerConstants DEF LibraryInv, LibraryTypeOK, Edit
<1>2. ASSUME Edit, NEW s \in Swings, NEW m \in Manifest, manifest' = [manifest EXCEPT ![s] = m],
             m.at <= clock', engine' = engine,
             (\E ends : Run(s, m, ends)) \/ UNCHANGED <<result, sidecar>>
      PROVE  LibraryInv'
  <2>1. manifest' \in [Swings -> Manifest \cup {None}]
    BY <1>2 DEF LibraryInv, LibraryTypeOK
  <2>2. ASSUME NEW t \in Swings, manifest'[t] # None PROVE manifest'[t].at <= clock'
    <3>1. CASE t = s
      BY <1>2, <3>1 DEF LibraryInv, LibraryTypeOK
    <3>2. CASE t # s
      <4>1. manifest'[t] = manifest[t]
        BY <1>2, <3>2 DEF LibraryInv, LibraryTypeOK
      <4>2. manifest[t] \in Manifest /\ manifest[t].at <= clock
        BY <2>2, <4>1 DEF LibraryInv, LibraryTypeOK, Aged
      <4>3. manifest[t].at \in Int
        BY <1>1, <4>2 DEF Manifest
      <4> QED
        BY <1>1, <1>2, <4>1, <4>2, <4>3
    <3> QED
      BY <3>1, <3>2
  <2>3. /\ result' \in [Swings -> [inputs : Inputs, version : 1..engine'] \cup {None}]
        /\ sidecar' \in [Swings -> Inputs \cup {None}]
    <3>1. CASE \E ends : Run(s, m, ends)
      BY <1>2, <3>1, RunIsTyped DEF LibraryInv
    <3>2. CASE UNCHANGED <<result, sidecar>>
      BY <1>2, <3>2 DEF LibraryInv, LibraryTypeOK
    <3> QED
      BY <1>2, <3>1, <3>2
  <2>4. engine' \in {1, 2} /\ clock' \in 0..MaxEdits
    BY <1>1, <1>2 DEF LibraryInv, LibraryTypeOK
  <2> QED
    BY <2>1, <2>2, <2>3, <2>4 DEF LibraryInv, LibraryTypeOK, Aged
<1>3. ASSUME NEW s \in Swings, Arrive(s) PROVE LibraryInv'
  <2>1. PICK a \in Arrivals : \E m : m = Arrived(a, clock') /\ manifest' = [manifest EXCEPT ![s] = m]
                          /\ IF a.runs THEN Run(s, m, TRUE) ELSE UNCHANGED <<result, sidecar>>
    BY <1>3 DEF Arrive
  <2>2. a \in Arrival
    BY CareerConstants
  <2>3. Arrived(a, clock') \in Manifest /\ Arrived(a, clock').at = clock' /\ Edit /\ engine' = engine
    BY <1>1, <1>3, <2>2 DEF Arrived, Arrival, Manifest, Arrive
  <2>4. clock' <= clock'
    BY <1>1, <2>3
  <2> QED
    BY <1>2, <2>1, <2>3, <2>4
<1>4. ASSUME NEW s \in Swings, manifest[s] # None
      PROVE  manifest[s] \in Manifest /\ (Edit => manifest[s].at <= clock')
  <2>1. manifest[s] \in Manifest /\ manifest[s].at <= clock
    BY <1>4 DEF LibraryInv, LibraryTypeOK, Aged
  <2>2. manifest[s].at \in Int
    BY <1>1, <2>1 DEF Manifest
  <2> QED
    BY <1>1, <2>1, <2>2
<1>5. ASSUME NEW s \in Swings, Replace(s) PROVE LibraryInv'
  <2>1. PICK m \in {[manifest[s] EXCEPT !.face = c] : c \in Clips \ {manifest[s].face}}
                   \cup {[manifest[s] EXCEPT !.photo = p] : p \in Photos \ {manifest[s].photo}} :
          /\ manifest' = [manifest EXCEPT ![s] = m]
          /\ (\E ends : Run(s, m, ends)) \/ UNCHANGED <<result, sidecar>>
    BY <1>5 DEF Replace
  <2>2. Edit /\ engine' = engine /\ manifest[s] # None
    BY <1>5 DEF Replace
  <2>3. manifest[s] \in Manifest /\ manifest[s].at <= clock'
    BY <1>4, <2>2
  <2>4. m \in Manifest /\ m.at = manifest[s].at
    BY <2>1, <2>3 DEF Manifest
  <2> QED
    BY <1>2, <2>1, <2>2, <2>3, <2>4
<1>6. ASSUME NEW s \in Swings, Analyze(s) PROVE LibraryInv'
  <2>1. Edit /\ engine' = engine /\ manifest[s] # None /\ manifest' = manifest /\ Run(s, manifest[s], TRUE)
    BY <1>6 DEF Analyze
  <2>2. manifest' = [manifest EXCEPT ![s] = manifest[s]]
    BY <2>1 DEF LibraryInv, LibraryTypeOK
  <2> QED
    BY <1>2, <1>4, <2>1, <2>2
<1>7. ASSUME NEW s \in Swings, Tag(s) PROVE LibraryInv'
  <2>1. Edit /\ engine' = engine /\ manifest[s] # None /\ UNCHANGED <<result, sidecar>>
    BY <1>7 DEF Tag
  <2>2. manifest[s] \in Manifest /\ manifest[s].at <= clock'
    BY <1>4, <2>1
  <2>3. PICK m \in {[manifest[s] EXCEPT !.player = p] : p \in Players}
                  \cup {[manifest[s] EXCEPT !.club = c] : c \in Clubs}
                  \cup {[manifest[s] EXCEPT !.verdict = v] : v \in {None, "confirmed", "cleared"}} :
          manifest' = [manifest EXCEPT ![s] = m]
    BY <1>7 DEF Tag
  <2>4. m \in Manifest /\ m.at = manifest[s].at
    BY <2>2, <2>3 DEF Manifest
  <2> QED
    BY <1>2, <2>1, <2>2, <2>3, <2>4
<1>8. ASSUME NEW s \in Swings, Delete(s) PROVE LibraryInv'
  <2>1. /\ Edit /\ engine' = engine /\ manifest' = [manifest EXCEPT ![s] = None]
        /\ result' = [result EXCEPT ![s] = None] /\ sidecar' = [sidecar EXCEPT ![s] = None]
    BY <1>8 DEF Delete
  <2>2. LibraryTypeOK'
    BY <1>1, <2>1 DEF LibraryInv, LibraryTypeOK
  <2>3. ASSUME NEW t \in Swings, manifest'[t] # None PROVE manifest'[t].at <= clock'
    <3>1. manifest'[t] = manifest[t]
      BY <2>1, <2>3 DEF LibraryInv, LibraryTypeOK
    <3> QED
      BY <1>4, <2>1, <2>3, <3>1
  <2> QED
    BY <2>2, <2>3 DEF LibraryInv, Aged
<1>9. ASSUME Upgrade PROVE LibraryInv'
  <2>1. Edit /\ engine = 1 /\ engine' = 2 /\ UNCHANGED <<manifest, result, sidecar>>
    BY <1>9 DEF Upgrade
  <2>2. result' \in [Swings -> [inputs : Inputs, version : 1..engine'] \cup {None}]
    <3>1. [inputs : Inputs, version : 1..engine] \subseteq [inputs : Inputs, version : 1..engine']
      <4>1. 1..engine \subseteq 1..engine'
        BY <2>1
      <4> QED
        BY <4>1
    <3> QED
      BY <2>1, <3>1 DEF LibraryInv, LibraryTypeOK
  <2>3. LibraryTypeOK'
    BY <1>1, <2>1, <2>2 DEF LibraryInv, LibraryTypeOK
  <2>4. \A t \in Swings : manifest'[t] # None => manifest'[t].at <= clock'
    BY <1>4, <2>1
  <2> QED
    BY <2>3, <2>4 DEF LibraryInv, Aged
<1> QED
  BY <1>3, <1>5, <1>6, <1>7, <1>8, <1>9 DEF LibraryNext

-----------------------------------------------------------------------------
(* The bag. *)

\* What is on the shelf was retired by now, and before its slot was filled again.
InTurn(b, now) ==
  /\ \A i \in DOMAIN b.shelf : b.shelf[i].retired <= now
  /\ \A i \in DOMAIN b.shelf, c \in Clubs :
       b.shelf[i].slot = c /\ b.entries[c] # None => b.shelf[i].retired <= b.entries[c].recorded

InOrder(b, now) == B!WellFormed(b) /\ InTurn(b, now)

BagInv == B!HasBag => InOrder(bag, clock)

\* A slot that is filled or emptied, with the shelf as it was.
LEMMA SlotIsFilled ==
  ASSUME NEW now \in Nat, NEW next \in 1..MaxEdits, now <= next, NEW b, InOrder(b, now),
         NEW c \in Clubs, b.entries[c] = None,
         NEW e \in B!Entry, e.slot = c, e.retired = None, e.recorded = next
  PROVE  InOrder([entries |-> [b.entries EXCEPT ![c] = e], shelf |-> b.shelf], next)
<1>1. PICK x : x = [entries |-> [b.entries EXCEPT ![c] = e], shelf |-> b.shelf]
  OBVIOUS
<1>2. /\ b.entries \in [Clubs -> B!Entry \cup {None}] /\ b.shelf \in Seq(B!Entry)
      /\ \A i \in DOMAIN b.shelf : b.shelf[i].retired # None
      /\ \A i \in DOMAIN b.shelf : b.shelf[i] \in B!Entry
  BY DEF InOrder, B!WellFormed
<1>3. /\ x.shelf = b.shelf /\ x.entries[c] = e
      /\ \A d \in Clubs \ {c} : x.entries[d] = b.entries[d]
      /\ x.entries \in [Clubs -> B!Entry \cup {None}]
  BY <1>1, <1>2
<1>4. B!WellFormed(x)
  <2>1. x \in [entries : [Clubs -> B!Entry \cup {None}], shelf : Seq(B!Entry)]
    BY <1>1, <1>2
  <2>2. \A d \in Clubs : x.entries[d] # None => x.entries[d].slot = d /\ x.entries[d].retired = None
    BY <1>3 DEF InOrder, B!WellFormed
  <2> QED
    BY <1>2, <1>3, <2>1, <2>2 DEF B!WellFormed
<1>5. ASSUME NEW i \in DOMAIN x.shelf
      PROVE  /\ x.shelf[i].retired \in Nat /\ x.shelf[i].retired <= now /\ x.shelf[i].retired <= next
  <2>1. x.shelf[i].retired <= now /\ x.shelf[i].retired # None /\ x.shelf[i] \in B!Entry
    BY <1>2, <1>3 DEF InOrder, InTurn
  <2>2. x.shelf[i].retired \in Nat
    BY <2>1 DEF B!Entry
  <2> QED
    BY <2>1, <2>2
<1>6. ASSUME NEW i \in DOMAIN x.shelf, NEW d \in Clubs, x.shelf[i].slot = d, x.entries[d] # None
      PROVE  x.shelf[i].retired <= x.entries[d].recorded
  <2>1. CASE d = c
    BY <1>3, <1>5, <2>1
  <2>2. CASE d # c
    BY <1>3, <1>6, <2>2 DEF InOrder, InTurn
  <2> QED
    BY <2>1, <2>2
<1> QED
  BY <1>1, <1>4, <1>5, <1>6 DEF InOrder, InTurn

\* A club is shelved, and its slot is emptied or filled with another.
LEMMA ClubIsShelved ==
  ASSUME NEW now \in Nat, NEW next \in 1..MaxEdits, now <= next, NEW b, InOrder(b, now),
         NEW c \in Clubs, b.entries[c] # None,
         NEW e \in B!Entry \cup {None},
         e # None => e.slot = c /\ e.retired = None /\ e.recorded = next
  PROVE  InOrder([entries |-> [b.entries EXCEPT ![c] = e],
                  shelf |-> Append(b.shelf, [b.entries[c] EXCEPT !.retired = next])], next)
<1>1. PICK old : old = [b.entries[c] EXCEPT !.retired = next]
  OBVIOUS
<1>2. PICK x : x = [entries |-> [b.entries EXCEPT ![c] = e], shelf |-> Append(b.shelf, old)]
  OBVIOUS
<1>3. /\ b.entries \in [Clubs -> B!Entry \cup {None}] /\ b.shelf \in Seq(B!Entry)
      /\ \A i \in DOMAIN b.shelf : b.shelf[i].retired # None /\ b.shelf[i] \in B!Entry
  BY DEF InOrder, B!WellFormed
<1>4. old \in B!Entry /\ old.retired = next /\ old.slot = c
  <2>1. b.entries[c] \in B!Entry /\ b.entries[c].slot = c
    BY <1>3 DEF InOrder, B!WellFormed
  <2> QED
    BY <1>1, <2>1 DEF B!Entry
<1>5. /\ x.shelf \in Seq(B!Entry) /\ x.entries[c] = e
      /\ \A i \in DOMAIN x.shelf : (i \in DOMAIN b.shelf /\ x.shelf[i] = b.shelf[i]) \/ x.shelf[i] = old
      /\ \A d \in Clubs \ {c} : x.entries[d] = b.entries[d]
      /\ x.entries \in [Clubs -> B!Entry \cup {None}]
  BY <1>2, <1>3, <1>4
<1>6. next \in Nat /\ next # None
  BY CareerConstants
<1>7. B!WellFormed(x)
  <2>1. x \in [entries : [Clubs -> B!Entry \cup {None}], shelf : Seq(B!Entry)]
    BY <1>2, <1>3, <1>4
  <2>2. \A d \in Clubs : x.entries[d] # None => x.entries[d].slot = d /\ x.entries[d].retired = None
    BY <1>5 DEF InOrder, B!WellFormed
  <2>3. \A i \in DOMAIN x.shelf : x.shelf[i].retired # None
    BY <1>3, <1>4, <1>5, <1>6
  <2> QED
    BY <2>1, <2>2, <2>3 DEF B!WellFormed
<1>8. ASSUME NEW i \in DOMAIN x.shelf
      PROVE  /\ x.shelf[i].retired \in Nat /\ x.shelf[i].retired <= next
             /\ x.shelf[i] # old => i \in DOMAIN b.shelf /\ x.shelf[i] = b.shelf[i]
                                    /\ x.shelf[i].retired <= now
  <2>1. CASE x.shelf[i] = old
    BY <1>4, <1>6, <2>1
  <2>2. CASE x.shelf[i] # old
    <3>1. /\ i \in DOMAIN b.shelf /\ x.shelf[i] = b.shelf[i] /\ x.shelf[i].retired <= now
          /\ x.shelf[i].retired # None /\ x.shelf[i] \in B!Entry
      BY <1>3, <1>5, <2>2 DEF InOrder, InTurn
    <3>2. x.shelf[i].retired \in Nat
      BY <3>1 DEF B!Entry
    <3> QED
      BY <1>6, <3>1, <3>2
  <2> QED
    BY <2>1, <2>2
<1>9. ASSUME NEW i \in DOMAIN x.shelf, NEW d \in Clubs, x.shelf[i].slot = d, x.entries[d] # None
      PROVE  x.shelf[i].retired <= x.entries[d].recorded
  <2>1. CASE d = c
    BY <1>5, <1>8, <1>9, <2>1
  <2>2. CASE d # c
    <3>1. x.shelf[i] # old
      BY <1>4, <1>9, <2>2
    <3> QED
      BY <1>5, <1>8, <1>9, <2>2, <3>1 DEF InOrder, InTurn
  <2> QED
    BY <2>1, <2>2
<1> QED
  BY <1>1, <1>2, <1>7, <1>8, <1>9 DEF InOrder, InTurn

\* A bag waits in order for what comes.
LEMMA BagWaits ==
  ASSUME NEW now \in Nat, NEW next \in Nat, now <= next, NEW b, InOrder(b, now)
  PROVE  InOrder(b, next)
<1>1. ASSUME NEW i \in DOMAIN b.shelf PROVE b.shelf[i].retired <= next
  <2>1. b.shelf[i].retired <= now /\ b.shelf[i].retired # None /\ b.shelf[i] \in B!Entry
    BY DEF InOrder, InTurn, B!WellFormed
  <2>2. b.shelf[i].retired \in Nat
    BY <2>1 DEF B!Entry
  <2> QED
    BY <2>1, <2>2
<1> QED
  BY <1>1 DEF InOrder, InTurn

\* set_entry, on a bag that can be read.
LEMMA InstallKeepsOrder ==
  ASSUME NEW now \in Nat, now = clock, clock' \in 1..MaxEdits, now <= clock',
         NEW b, InOrder(b, now), NEW c \in Clubs, NEW spec \in Specs
  PROVE  InOrder(B!Install(b, c, spec), clock')
<1>1. PICK next \in 1..MaxEdits : next = clock'
  OBVIOUS
<1>2. PICK e : e = B!Live(c, spec)
  OBVIOUS
<1>3. e \in B!Entry /\ e.slot = c /\ e.retired = None /\ e.recorded = next
  BY <1>1, <1>2 DEF B!Live, B!Entry
<1>4. CASE b.entries[c] # None /\ b.entries[c].spec = spec
  BY <1>1, <1>4, BagWaits DEF B!Install
<1>5. CASE b.entries[c] = None
  <2>1. B!Install(b, c, spec) = [entries |-> [b.entries EXCEPT ![c] = e], shelf |-> b.shelf]
    BY <1>2, <1>5 DEF B!Install
  <2>2. InOrder([entries |-> [b.entries EXCEPT ![c] = e], shelf |-> b.shelf], next)
    BY <1>1, <1>3, <1>5, SlotIsFilled
  <2> QED
    BY <1>1, <2>1, <2>2
<1>6. CASE b.entries[c] # None /\ b.entries[c].spec # spec
  <2>1. B!Install(b, c, spec) =
          [entries |-> [b.entries EXCEPT ![c] = e],
           shelf |-> Append(b.shelf, [b.entries[c] EXCEPT !.retired = next])]
    BY <1>1, <1>2, <1>6 DEF B!Install, B!Retired
  <2>2. InOrder([entries |-> [b.entries EXCEPT ![c] = e],
                 shelf |-> Append(b.shelf, [b.entries[c] EXCEPT !.retired = next])], next)
    BY <1>1, <1>3, <1>6, ClubIsShelved
  <2> QED
    BY <1>1, <2>1, <2>2
<1> QED
  BY <1>4, <1>5, <1>6

\* The club last retired is one of the slot's.
LEMMA LastRetiredIsOne ==
  ASSUME NEW now, NEW b, InOrder(b, now), NEW c, B!RetiredFor(b, c) # {}
  PROVE  B!LastRetired(b, c) \in B!Entry
<1>1. PICK K : K = B!RetiredFor(b, c)
  OBVIOUS
<1>2. b.shelf \in Seq(B!Entry)
  BY DEF InOrder, B!WellFormed
<1>3. PICK bound \in Nat : bound = Len(b.shelf) /\ DOMAIN b.shelf = 1..bound
  BY <1>2
<1>4. K \in SUBSET Nat /\ K # {} /\ (\A n \in K : n <= bound) /\ K \subseteq DOMAIN b.shelf
  BY <1>1, <1>3 DEF B!RetiredFor
<1>5. Max(K) \in K
  BY <1>3, <1>4, MaxIsOne
<1>6. PICK i \in DOMAIN b.shelf : i = Max(K)
  BY <1>4, <1>5
<1>7. B!Max(K) = Max(K)
  BY DEF Max, B!Max
<1>8. B!LastRetired(b, c) = b.shelf[i]
  BY <1>1, <1>6, <1>7 DEF B!LastRetired
<1> QED
  BY <1>2, <1>8

LEMMA BagBegins ==
  ASSUME B!BagInit, clock = 2
  PROVE  BagInv
BY ReadingConstants DEF B!BagInit, B!HasBag, BagInv, InOrder, InTurn

LEMMA BagStays ==
  ASSUME BagInv, LibraryTypeOK, B!BagNext
  PROVE  BagInv'
<1>1. /\ clock \in Nat /\ clock' = clock + 1 /\ clock' \in 1..MaxEdits /\ clock <= clock'
  <2>1. clock < MaxEdits /\ clock' = clock + 1
    BY DEF B!BagNext, B!RemoveEntry, B!RestoreEntry, B!SetEntry, B!Tick
  <2> QED
    BY <2>1, CareerConstants DEF LibraryTypeOK
<1>2. PICK now \in Nat : now = clock
  BY <1>1
<1>3. ASSUME NEW c \in Clubs, B!RemoveEntry(c) PROVE BagInv'
  <2>1. /\ InOrder(bag, clock) /\ bag.entries[c] # None
        /\ bag' = [entries |-> [bag.entries EXCEPT ![c] = None],
                   shelf |-> Append(bag.shelf, [bag.entries[c] EXCEPT !.retired = clock'])]
    BY <1>3 DEF B!RemoveEntry, B!Retired, BagInv
  <2>2. PICK next \in 1..MaxEdits : next = clock'
    BY <1>1
  <2>3. InOrder([entries |-> [bag.entries EXCEPT ![c] = None],
                 shelf |-> Append(bag.shelf, [bag.entries[c] EXCEPT !.retired = next])], next)
    BY <1>1, <1>2, <2>1, <2>2, ClubIsShelved
  <2>4. InOrder(bag', clock')
    BY <2>1, <2>2, <2>3
  <2> QED
    BY <2>4 DEF BagInv, InOrder, InTurn
<1>4. ASSUME NEW c \in Clubs, NEW spec \in Specs, B!SetEntry(c, spec) PROVE BagInv'
  <2>1. InOrder(B!Loaded, clock)
    <3>1. CASE bag = None
      <4>1. B!Loaded = [entries |-> [d \in Clubs |-> None], shelf |-> <<>>]
        BY <3>1 DEF B!Loaded, B!NoClubs
      <4> QED
        BY <4>1 DEF InOrder, InTurn, B!WellFormed
    <3>2. CASE bag # None
      BY <1>4, <3>2 DEF B!SetEntry, B!Loaded, BagInv, B!HasBag
    <3> QED
      BY <3>1, <3>2
  <2>2. bag' = B!Install(B!Loaded, c, spec)
    BY <1>4 DEF B!SetEntry
  <2>3. InOrder(bag', clock')
    BY <1>1, <1>2, <2>1, <2>2, InstallKeepsOrder
  <2> QED
    BY <2>3 DEF BagInv, InOrder, InTurn
<1>5. ASSUME NEW c \in Clubs, B!RestoreEntry(c) PROVE BagInv'
  <2>1. InOrder(bag, clock) /\ B!RetiredFor(bag, c) # {}
    BY <1>5 DEF B!RestoreEntry, BagInv
  <2>2. B!LastRetired(bag, c).spec \in Specs
    BY <2>1, LastRetiredIsOne DEF B!Entry
  <2>3. bag' = B!Install(bag, c, B!LastRetired(bag, c).spec)
    BY <1>5 DEF B!RestoreEntry
  <2>4. InOrder(bag', clock')
    BY <1>1, <1>2, <2>1, <2>2, <2>3, InstallKeepsOrder
  <2> QED
    BY <2>4 DEF BagInv, InOrder, InTurn
<1> QED
  BY <1>3, <1>4, <1>5 DEF B!BagNext

LEMMA BagIsLeft ==
  ASSUME BagInv, UNCHANGED bag, clock \in Nat, clock' \in Nat, clock <= clock'
  PROVE  BagInv'
<1>1. CASE ~B!HasBag
  BY <1>1 DEF BagInv, B!HasBag
<1>2. CASE B!HasBag
  <2>1. InOrder(bag, clock)
    BY <1>2 DEF BagInv
  <2>2. PICK next \in Nat : next = clock'
    OBVIOUS
  <2>3. InOrder(bag, next)
    BY <2>1, <2>2, BagWaits
  <2>4. InOrder(bag', clock')
    BY <2>2, <2>3
  <2> QED
    BY <2>4 DEF BagInv
<1> QED
  BY <1>1, <1>2

-----------------------------------------------------------------------------
(* The inductive invariant. *)

IInv == LibraryInv /\ BagInv

\* Under it swings are dated, by edits that were made.
LEMMA SwingsAreDated ==
  ASSUME LibraryInv
  PROVE  /\ Dated
         /\ \A s \in OnDisk : s \in Swings /\ s # None /\ manifest[s] \in Manifest
                              /\ manifest[s].at \in 1..MaxEdits /\ manifest[s].at <= clock
<1>1. ASSUME NEW s \in OnDisk
      PROVE  /\ s \in Swings /\ manifest[s] \in Manifest /\ manifest[s].at \in 1..MaxEdits
             /\ manifest[s].at <= clock /\ s # None
             /\ s[1] \in Nat /\ s[2] \in Nat /\ s = <<s[1], s[2]>>
  <2>1. s \in Swings /\ manifest[s] # None
    BY DEF OnDisk
  <2>2. manifest[s] \in Manifest /\ manifest[s].at <= clock
    BY <2>1 DEF LibraryInv, LibraryTypeOK, Aged
  <2>3. manifest[s].at \in 1..MaxEdits
    BY <2>2 DEF Manifest
  <2>4. s \in Nat \X Nat /\ s # None
    BY <2>1, CareerConstants
  <2> QED
    BY <2>1, <2>2, <2>3, <2>4
<1>2. ASSUME NEW s \in OnDisk PROVE manifest[s].at \in Nat
  <2>1. manifest[s].at \in 1..MaxEdits /\ MaxEdits \in Nat
    BY <1>1, CareerConstants
  <2> QED
    BY <2>1
<1> QED
  BY <1>1, <1>2 DEF Dated

LEMMA Begins == Init => IInv
<1> SUFFICES ASSUME Init PROVE IInv
  OBVIOUS
<1>1. LibraryInit /\ B!BagInit /\ clock = 2
  BY DEF Init, LibraryInit
<1> QED
  BY <1>1, LibraryBegins, BagBegins DEF IInv

LEMMA Stays == IInv /\ [Next]_vars => IInv'
<1> SUFFICES ASSUME IInv, [Next]_vars PROVE IInv'
  OBVIOUS
<1>1. clock \in Nat /\ MaxEdits \in Nat
  BY CareerConstants DEF IInv, LibraryInv, LibraryTypeOK
<1>2. CASE LibraryEdit
  <2>1. LibraryInv' /\ UNCHANGED bag
    BY <1>2, LibraryStays DEF LibraryEdit, IInv
  <2>2. clock' \in Nat /\ clock <= clock'
    <3>1. clock' = clock + 1
      BY <1>2 DEF LibraryEdit, LibraryNext, Arrive, Replace, Analyze, Tag, Delete, Upgrade, Edit
    <3> QED
      BY <1>1, <3>1
  <2>3. BagInv'
    BY <1>1, <2>1, <2>2, BagIsLeft DEF IInv
  <2> QED
    BY <2>1, <2>3 DEF IInv
<1>3. CASE BagEdit
  <2>1. BagInv'
    BY <1>3, BagStays DEF BagEdit, IInv, LibraryInv
  <2>2. clock < MaxEdits /\ clock' = clock + 1 /\ UNCHANGED <<manifest, result, sidecar, engine>>
    BY <1>3 DEF BagEdit, B!BagNext, B!RemoveEntry, B!RestoreEntry, B!SetEntry, B!Tick
  <2>3. LibraryTypeOK'
    BY <1>1, <2>2 DEF IInv, LibraryInv, LibraryTypeOK
  <2>4. ASSUME NEW s \in Swings, manifest'[s] # None PROVE manifest'[s].at <= clock'
    <3>1. manifest[s] \in Manifest /\ manifest[s].at <= clock
      BY <2>2, <2>4 DEF IInv, LibraryInv, LibraryTypeOK, Aged
    <3>2. manifest[s].at \in Int
      BY <1>1, <3>1 DEF Manifest
    <3> QED
      BY <1>1, <2>2, <3>1, <3>2
  <2> QED
    BY <2>1, <2>3, <2>4 DEF IInv, LibraryInv, Aged
<1>4. CASE UNCHANGED vars
  <2>1. UNCHANGED <<manifest, result, sidecar, engine, clock, bag>>
    BY <1>4 DEF vars, libraryVars
  <2>2. LibraryInv'
    BY <2>1 DEF IInv, LibraryInv, LibraryTypeOK, Aged
  <2>3. BagInv'
    BY <1>1, <2>1, BagIsLeft DEF IInv
  <2> QED
    BY <2>2, <2>3 DEF IInv
<1> QED
  BY <1>2, <1>3, <1>4 DEF Next

\* The library and the bag are what they should be, and nothing on the shelf was retired
\* after its slot was filled again.
THEOREM IInvAlways == Spec => []IInv
BY Begins, Stays, PTL DEF Spec

\* Every edit leaves the library and the bag of their types, and the bag as its class's
\* validators ask.
THEOREM TypeIsOK == Spec => []TypeOK
<1>1. IInv => TypeOK
  <2> SUFFICES ASSUME IInv PROVE TypeOK
    OBVIOUS
  <2>1. clock \in 0..MaxEdits
    BY DEF IInv, LibraryInv, LibraryTypeOK
  <2> QED
    BY <2>1 DEF IInv, LibraryInv, BagInv, InOrder, TypeOK, B!BagTypeOK
<1> QED
  BY <1>1, IInvAlways, PTL

-----------------------------------------------------------------------------
(* Refusals. *)

\* Nothing is ever withheld without the refusal that says why, and nothing given has one:
\* dispersion.py's two guards against its walk over the baseline's refusals.
THEOREM RefusalsAreExplained == Spec => []EveryRefusalHasItsReason
<1>1. EveryRefusalHasItsReason
  <2> SUFFICES ASSUME NEW m \in Metrics, NEW C
               PROVE  /\ Bias(m, C) = "withheld" => NoReading(m) \/ "center" \in CarriedRefusals(m, C)
                      /\ Scatter(m, C) = "withheld" => Declared[m] = None \/ "spread" \in CarriedRefusals(m, C)
                      /\ Bias(m, C) # "withheld" => "center" \notin CarriedRefusals(m, C)
                      /\ Scatter(m, C) # "withheld" => "spread" \notin CarriedRefusals(m, C)
                      /\ Standing(m, C) = "withheld" => NoPopulation(m) \/ "center" \in Withheld(m, C)
    BY DEF EveryRefusalHasItsReason
  <2>1. "center" \in Claims /\ "spread" \in Claims
    BY DEF Claims
  <2>2. \A e : Finding(e) # "withheld"
    BY DEF Finding
  <2>3. Bias(m, C) = "withheld" => NoReading(m) \/ "center" \in Withheld(m, C)
    BY <2>1, <2>2 DEF Bias, NoReading, Withheld
  <2>4. Scatter(m, C) = "withheld" => Declared[m] = None \/ "spread" \in Withheld(m, C)
    BY <2>1, <2>2 DEF Scatter, Withheld
  <2>5. Standing(m, C) = "withheld" => NoPopulation(m) \/ "center" \in Withheld(m, C)
    BY <2>1 DEF Standing, Withheld
  <2>6. "center" \in CarriedRefusals(m, C) <=> "center" \in Withheld(m, C) /\ Bias(m, C) = "withheld"
    BY Zenon DEF CarriedRefusals
  <2>7. "spread" \in CarriedRefusals(m, C) <=> "spread" \in Withheld(m, C) /\ Scatter(m, C) = "withheld"
    BY Zenon DEF CarriedRefusals
  <2> QED
    BY <2>3, <2>4, <2>5, <2>6, <2>7, Zenon
<1> QED
  BY <1>1, PTL

-----------------------------------------------------------------------------
(* What the bag keeps. *)

\* From one bag to the next, the shelf only grows, and what leaves a slot is on it.
Keeps(b, d) ==
  /\ B!IsPrefix(b.shelf, d.shelf)
  /\ \A c \in Clubs : LET e == b.entries[c] IN
       e # None /\ d.entries[c] # e => \E i \in DOMAIN d.shelf : d.shelf[i] = B!Retired(e)

LEMMA ShelfGrows ==
  ASSUME NEW S, NEW q \in Seq(S), NEW e \in S
  PROVE  B!IsPrefix(q, q) /\ B!IsPrefix(q, Append(q, e))
<1>1. /\ Append(q, e) \in Seq(S) /\ Len(Append(q, e)) = Len(q) + 1 /\ Len(q) \in Nat
      /\ \A i \in 1..Len(q) : Append(q, e)[i] = q[i]
  OBVIOUS
<1>2. SubSeq(q, 1, Len(q)) = SubSeq(Append(q, e), 1, Len(q))
  BY <1>1
<1>3. Len(q) <= Len(q) /\ Len(q) <= Len(Append(q, e))
  BY <1>1
<1> QED
  BY <1>2, <1>3 DEF B!IsPrefix

\* A slot with nothing in it is filled, or the club in it is shelved.
LEMMA InstallForgetsNothing ==
  ASSUME NEW b, B!WellFormed(b), NEW c \in Clubs, NEW e,
         clock' \in 1..MaxEdits
  PROVE  /\ Keeps(b, b)
         /\ b.entries[c] = None => Keeps(b, [entries |-> [b.entries EXCEPT ![c] = e], shelf |-> b.shelf])
         /\ b.entries[c] # None =>
              Keeps(b, [entries |-> [b.entries EXCEPT ![c] = e],
                        shelf |-> Append(b.shelf, B!Retired(b.entries[c]))])
<1>1. b.shelf \in Seq(B!Entry) /\ b.entries \in [Clubs -> B!Entry \cup {None}]
  BY DEF B!WellFormed
<1>2. PICK n \in Nat : n = Len(b.shelf) /\ DOMAIN b.shelf = 1..n
  BY <1>1
<1>3. B!IsPrefix(b.shelf, b.shelf)
  <2>1. SubSeq(b.shelf, 1, Len(b.shelf)) = SubSeq(b.shelf, 1, Len(b.shelf)) /\ Len(b.shelf) <= Len(b.shelf)
    BY <1>2
  <2> QED
    BY <2>1 DEF B!IsPrefix
<1>4. CASE b.entries[c] = None
  <2>1. PICK d : d = [entries |-> [b.entries EXCEPT ![c] = e], shelf |-> b.shelf]
    OBVIOUS
  <2>2. d.shelf = b.shelf /\ \A k \in Clubs : b.entries[k] # None => d.entries[k] = b.entries[k]
    BY <1>1, <1>4, <2>1
  <2> QED
    BY <1>3, <1>4, <2>1, <2>2 DEF Keeps
<1>5. CASE b.entries[c] # None
  <2>1. PICK old : old = B!Retired(b.entries[c])
    OBVIOUS
  <2>2. old \in B!Entry
    <3>1. b.entries[c] \in B!Entry
      BY <1>1, <1>5
    <3> QED
      BY <2>1, <3>1 DEF B!Retired, B!Entry
  <2>3. PICK d : d = [entries |-> [b.entries EXCEPT ![c] = e], shelf |-> Append(b.shelf, old)]
    OBVIOUS
  <2>4. d.shelf = Append(b.shelf, old) /\ \A k \in Clubs \ {c} : d.entries[k] = b.entries[k]
    BY <1>1, <2>3
  <2>5. n + 1 \in DOMAIN d.shelf /\ d.shelf[n + 1] = old
    BY <1>1, <1>2, <2>2, <2>4
  <2>6. B!IsPrefix(b.shelf, d.shelf)
    BY <1>1, <2>2, <2>4, ShelfGrows
  <2> QED
    BY <1>3, <1>5, <2>1, <2>3, <2>4, <2>5, <2>6 DEF Keeps
<1> QED
  BY <1>3, <1>4, <1>5 DEF Keeps

LEMMA BagIsKept ==
  ASSUME IInv, [Next]_vars
  PROVE  [/\ bag = Unreadable => bag' = Unreadable
          /\ B!HasBag => Keeps(bag, bag')]_(B!bagVars)
<1> SUFFICES ASSUME ~UNCHANGED bag
             PROVE  bag # Unreadable /\ (B!HasBag => Keeps(bag, bag'))
  <2>1. CASE UNCHANGED bag
    <3>1. B!HasBag => B!WellFormed(bag)
      BY DEF IInv, BagInv, InOrder
    <3>2. B!HasBag => Keeps(bag, bag)
      <4> SUFFICES ASSUME B!HasBag PROVE Keeps(bag, bag)
        OBVIOUS
      <4>1. B!IsPrefix(bag.shelf, bag.shelf)
        <5>1. bag.shelf \in Seq(B!Entry)
          BY <3>1 DEF B!WellFormed
        <5>2. Len(bag.shelf) <= Len(bag.shelf)
          BY <5>1
        <5> QED
          BY <5>2 DEF B!IsPrefix
      <4> QED
        BY <4>1 DEF Keeps
    <3>3. B!HasBag => Keeps(bag, bag')
      BY <2>1, <3>2
    <3> QED
      BY <2>1, <3>3
  <2> QED
    BY <2>1
<1>1. BagEdit
  BY DEF Next, LibraryEdit, vars
<1>2. clock' \in 1..MaxEdits
  <2>1. clock < MaxEdits /\ clock' = clock + 1
    BY <1>1 DEF BagEdit, B!BagNext, B!RemoveEntry, B!RestoreEntry, B!SetEntry, B!Tick
  <2> QED
    BY <2>1, CareerConstants DEF IInv, LibraryInv, LibraryTypeOK
<1>3. B!HasBag => B!WellFormed(bag)
  BY DEF IInv, BagInv, InOrder
<1>4. ASSUME NEW c \in Clubs, NEW spec, B!HasBag, bag' = B!Install(bag, c, spec)
      PROVE  Keeps(bag, bag')
  BY <1>2, <1>3, <1>4, InstallForgetsNothing DEF B!Install
<1>5. ASSUME NEW c \in Clubs, B!RemoveEntry(c)
      PROVE  bag # Unreadable /\ (B!HasBag => Keeps(bag, bag'))
  BY <1>2, <1>3, <1>5, InstallForgetsNothing DEF B!RemoveEntry, B!HasBag
<1>6. ASSUME NEW c \in Clubs, B!RestoreEntry(c)
      PROVE  bag # Unreadable /\ (B!HasBag => Keeps(bag, bag'))
  BY <1>4, <1>6 DEF B!RestoreEntry, B!HasBag
<1>7. ASSUME NEW c \in Clubs, NEW spec \in Specs, B!SetEntry(c, spec)
      PROVE  bag # Unreadable /\ (B!HasBag => Keeps(bag, bag'))
  BY <1>4, <1>7 DEF B!SetEntry, B!Loaded, B!HasBag
<1> QED
  BY <1>1, <1>5, <1>6, <1>7 DEF BagEdit, B!BagNext

\* Nothing that can be done to a bag deletes a club or writes over a file it cannot read:
\* bag_store's routes, in any order.
THEOREM NothingIsEverForgotten == Spec => NothingIsForgotten
<1>1. Keeps(bag, bag') <=>
        /\ B!IsPrefix(bag.shelf, bag'.shelf)
        /\ \A c \in Clubs : LET e == bag.entries[c] IN
             e # None /\ bag'.entries[c] # e =>
               \E i \in DOMAIN bag'.shelf : bag'.shelf[i] = B!Retired(e)
  BY Zenon DEF Keeps
<1> QED
  BY <1>1, IInvAlways, BagIsKept, PTL DEF Spec, NothingIsForgotten, B!NothingIsForgotten

-----------------------------------------------------------------------------
(* The corpus. *)

CorpusType(C) ==
  C = [swings |-> C.swings, counted |-> C.counted, auto |-> C.auto, facts |-> C.facts]

LEMMA NarrowedIs ==
  ASSUME NEW C, CorpusType(C), NEW S
  PROVE  /\ CorpusType(Narrowed(C, S))
         /\ Narrowed(C, S).swings = C.swings \cap S
         /\ Narrowed(C, S).counted = C.counted \cap S
         /\ Narrowed(C, S).auto = C.auto
         /\ Narrowed(C, S).facts = {f \in C.facts : f.of \in S}
<1>1. PICK a, b, c, d : a = C.swings /\ b = C.counted /\ c = C.auto /\ d = C.facts
  OBVIOUS
<1>2. C = [swings |-> a, counted |-> b, auto |-> c, facts |-> d]
  BY <1>1 DEF CorpusType
<1>3. PICK x, y, z : x = C.swings \cap S /\ y = C.counted \cap S /\ z = {f \in C.facts : f.of \in S}
  OBVIOUS
<1>4. Narrowed(C, S) = [C EXCEPT !.swings = x, !.counted = y, !.facts = z]
  BY <1>3, Zenon DEF Narrowed
<1>5. Narrowed(C, S) = [swings |-> x, counted |-> y, auto |-> c, facts |-> z]
  BY <1>2, <1>4
<1> QED
  BY <1>1, <1>3, <1>5 DEF CorpusType

LEMMA CorpusIs ==
  CorpusType(Corpus) /\ Corpus.swings = Kept /\ Corpus.counted = Counted
BY DEF Corpus, CorpusType

-----------------------------------------------------------------------------
(* One club. *)

\* No swing in a club's numbers without a caveat is from another club's time in the slot:
\* set_entry and the restore against _bag_changed_caveats.
THEOREM OneClubWithoutCaveat == Spec => []NoCaveatOneClub
<1>1. IInv => NoCaveatOneClub
  <2> SUFFICES ASSUME IInv, NEW c \in Clubs, InBag(c), Predating(Corpus, c) = {},
                      NEW s \in OfClub(Corpus, c).swings, NEW e \in B!Stints(c),
                      B!Covers(e, manifest[s].at)
               PROVE  e = bag.entries[c]
    BY DEF NoCaveatOneClub
  <2>1. OfClub(Corpus, c).swings = Corpus.swings \cap {t \in Corpus.swings : manifest[t].club = c}
    BY CorpusIs, NarrowedIs DEF OfClub
  <2>2. s \in Kept
    BY <2>1, CorpusIs
  <2>3. s \in OnDisk
    BY <2>2 DEF Kept, Mine
  <2>4. manifest[s].at \in 1..MaxEdits /\ MaxEdits \in Nat
    BY <2>3, SwingsAreDated, CareerConstants DEF IInv
  <2>5. B!HasBag /\ InOrder(bag, clock) /\ bag.entries[c] # None
    BY DEF InBag, IInv, BagInv
  <2>6. /\ bag.entries \in [Clubs -> B!Entry \cup {None}] /\ bag.shelf \in Seq(B!Entry)
        /\ \A i \in DOMAIN bag.shelf : bag.shelf[i].retired # None
    BY <2>5 DEF InOrder, B!WellFormed
  <2>7. bag.entries[c] \in B!Entry /\ bag.entries[c].recorded \in 1..MaxEdits
    BY <2>5, <2>6 DEF B!Entry
  <2>8. ~(manifest[s].at < bag.entries[c].recorded)
    BY DEF Predating
  <2>9. SUFFICES ASSUME e # bag.entries[c] PROVE FALSE
    OBVIOUS
  <2>10. PICK i \in DOMAIN bag.shelf : e = bag.shelf[i] /\ bag.shelf[i].slot = c
    BY <2>5, <2>9 DEF B!Stints, B!RetiredFor
  <2>11. e \in B!Entry /\ e.retired # None /\ e.retired <= bag.entries[c].recorded
    BY <2>5, <2>6, <2>10 DEF InOrder, InTurn
  <2>12. e.retired \in 1..MaxEdits
    BY <2>11 DEF B!Entry
  <2>13. manifest[s].at < e.retired
    BY <2>11 DEF B!Covers
  <2> QED
    BY <2>4, <2>7, <2>8, <2>11, <2>12, <2>13
<1> QED
  BY <1>1, IInvAlways, PTL

-----------------------------------------------------------------------------
(* The facts behind a count. *)

\* The key of a swing's measurement in the career.
KeyOf(s, m) == ArtifactKey(s, m, IsMishit(s, AutoMishits(Counted)))

LEMMA FactsAre ==
  ASSUME NEW f \in Corpus.facts
  PROVE  /\ f.of \in Counted /\ f.metric \in Metrics /\ f.key # None
         /\ f.key = KeyOf(f.of, f.metric)
         /\ f = [of |-> f.of, metric |-> f.metric, key |-> f.key]
<1> DEFINE fact(s, m) == [of |-> s, metric |-> m, key |-> KeyOf(s, m)]
           measured == UNION {{fact(s, m) : m \in {x \in Metrics : Measured(s, x)}} : s \in Counted}
<1>1. Corpus.facts = {g \in measured : g.key # None}
  BY DEF Corpus, KeyOf
<1>2. PICK s \in Counted, m \in Metrics : f = fact(s, m)
  BY <1>1
<1>3. f.of = s /\ f.metric = m /\ f.key = KeyOf(s, m)
  BY <1>2
<1> QED
  BY <1>1, <1>2, <1>3

LEMMA NarrowingsAre ==
  ASSUME NEW C \in Narrowings(Corpus)
  PROVE  C.facts \subseteq Corpus.facts
<1>1. CASE C = Corpus
  BY <1>1
<1>2. ASSUME NEW S, C = Narrowed(Corpus, S) PROVE C.facts \subseteq Corpus.facts
  BY <1>2, CorpusIs, NarrowedIs
<1> QED
  BY <1>1, <1>2 DEF Narrowings, OfClub, OfSession, Since

\* Of a metric there is one fact of a swing.
LEMMA OneFactEach ==
  ASSUME LibraryInv, NEW C, C.facts \subseteq Corpus.facts, NEW m
  PROVE  \A f \in Facts(m, C) :
           /\ f.of \in Counted /\ f.of \in Kept /\ f.of \in OnDisk
           /\ f.key = KeyOf(f.of, m) /\ f.key # None
           /\ \A g \in Facts(m, C) : g.of = f.of => g = f
<1>1. ASSUME NEW f \in Facts(m, C)
      PROVE  /\ f \in Corpus.facts /\ f.metric = m
             /\ f.of \in Counted /\ f.key = KeyOf(f.of, m) /\ f.key # None
             /\ f = [of |-> f.of, metric |-> m, key |-> KeyOf(f.of, m)]
  <2>1. f \in Corpus.facts /\ f.metric = m
    BY DEF Facts
  <2> QED
    BY <2>1, FactsAre
<1>2. Counted \subseteq Kept /\ Kept \subseteq OnDisk
  BY DEF Counted, Kept, Mine
<1> QED
  BY <1>1, <1>2

\* A swing is a sample when no other that shows its artifact arrived before it.
LEMMA SamplesAre ==
  ASSUME LibraryInv, NEW C, C.facts \subseteq Corpus.facts, NEW m, NEW s
  PROVE  s \in Samples(m, C) <=>
           \E f \in Facts(m, C) :
             f.of = s /\ \A g \in Facts(m, C) : g.key = f.key /\ g.of # s => Before(s, g.of)
<1>1. ASSUME NEW f \in Facts(m, C), f.of = s
      PROVE  (CHOOSE g \in Facts(m, C) : g.of = s) = f
  BY <1>1, OneFactEach
<1> QED
  BY <1>1 DEF Samples

\* The artifacts of a metric are as many as the samples: each has one first.
LEMMA SamplesAreArtifacts ==
  ASSUME LibraryInv, NEW C, C.facts \subseteq Corpus.facts, NEW m
  PROVE  /\ Count(m, C) = Cardinality(Samples(m, C))
         /\ \A s \in Samples(m, C) : s \in Kept /\ s \in OnDisk /\ KeyOf(s, m) # None
         /\ \A s, t \in Samples(m, C) : s # t => KeyOf(s, m) # KeyOf(t, m)
<1> DEFINE F == Facts(m, C)
           keys == {f.key : f \in F}
           S == Samples(m, C)
<1>1. ASSUME NEW s \in S
      PROVE  /\ s \in Kept /\ s \in OnDisk /\ KeyOf(s, m) # None /\ KeyOf(s, m) \in keys
             /\ \A g \in F : g.key = KeyOf(s, m) /\ g.of # s => Before(s, g.of)
  <2>1. PICK f \in F : f.of = s /\ \A g \in F : g.key = f.key /\ g.of # s => Before(s, g.of)
    BY SamplesAre
  <2>2. f.key = KeyOf(s, m) /\ s \in Kept /\ s \in OnDisk /\ f.key # None
    BY <2>1, OneFactEach
  <2> QED
    BY <2>1, <2>2
<1>2. ASSUME NEW s \in S, NEW t \in S, s # t
      PROVE  KeyOf(s, m) # KeyOf(t, m)
  <2> SUFFICES ASSUME KeyOf(s, m) = KeyOf(t, m) PROVE FALSE
    OBVIOUS
  <2>1. PICK f \in F, g \in F : f.of = s /\ g.of = t
    BY SamplesAre
  <2>2. f.key = KeyOf(s, m) /\ g.key = KeyOf(t, m)
    BY <2>1, OneFactEach
  <2>3. Before(s, t) /\ Before(t, s)
    BY <1>1, <1>2, <2>1, <2>2
  <2> QED
    BY <1>1, <2>3, OneIsBefore, SwingsAreDated
<1>3. ASSUME NEW k \in keys
      PROVE  \E s \in S : KeyOf(s, m) = k
  <2> DEFINE T == {f.of : f \in {g \in F : g.key = k}}
  <2>1. T \in SUBSET OnDisk /\ T # {}
    BY OneFactEach
  <2>2. PICK s \in T : \A t \in T \ {s} : Before(s, t)
    <3> HIDE DEF T, keys, F, S
    <3>1. First(T) \in T /\ \A t \in T \ {First(T)} : Before(First(T), t)
      BY <2>1, FirstIsOne, SwingsAreDated
    <3> QED
      BY <3>1
  <2>3. PICK f \in F : f.of = s /\ f.key = k
    BY <2>2
  <2>4. \A g \in F : g.key = f.key /\ g.of # s => Before(s, g.of)
    BY <2>2, <2>3
  <2>5. s \in S
    BY <2>3, <2>4, SamplesAre
  <2>6. KeyOf(s, m) = k
    BY <2>3, OneFactEach
  <2> QED
    BY <2>5, <2>6
<1>4. IsFiniteSet(S)
  <2>1. S \subseteq Swings
    BY <1>1 DEF OnDisk
  <2> QED
    BY <2>1, CareerConstants, FS_Subset
<1>5. Cardinality(keys) = Cardinality(S)
  <2> DEFINE h == [s \in S |-> KeyOf(s, m)]
  <2>1. h \in Bijection(S, keys)
    <3> HIDE DEF keys, S
    <3>1. h \in [S -> keys]
      BY <1>1
    <3>2. \A s, t \in S : h[s] = h[t] => s = t
      BY <1>2
    <3>3. \A k \in keys : \E s \in S : h[s] = k
      BY <1>3
    <3> HIDE DEF h
    <3> QED
      BY <3>1, <3>2, <3>3 DEF Bijection, Injection, Surjection, IsInjective
  <2>2. ExistsBijection(S, keys)
    <3> HIDE DEF keys, S, h
    <3> QED
      BY <2>1 DEF ExistsBijection
  <2> HIDE DEF keys, S, h
  <2> QED
    BY <1>4, <2>2, FS_Bijection
<1> QED
  BY <1>1, <1>2, <1>5 DEF Count

\* What a face-on number, and a number read from a photo, is known by.
LEMMA KeysAre ==
  ASSUME NEW s, NEW m \in Metrics, KeyOf(s, m) # None
  PROVE  /\ m \in {"sway", "tempo", "apex", "carry"}
         /\ m \in {"sway", "tempo"} => KeyOf(s, m) = manifest[s].face
         /\ m \in {"apex", "carry"} => KeyOf(s, m) = manifest[s].photo
<1>1. m = "turn" \/ m = "sway" \/ m = "tempo" \/ m = "apex" \/ m = "carry"
  BY DEF Metrics
<1>2. \A mishit : ArtifactKey(s, "turn", mishit) = None
  BY DEF ArtifactKey
<1>3. m \in {"sway", "tempo"} => \A mishit : ArtifactKey(s, m, mishit) = manifest[s].face
  BY DEF ArtifactKey
<1>4. m \in {"apex", "carry"} =>
        \A mishit : ArtifactKey(s, m, mishit) = None \/ ArtifactKey(s, m, mishit) = manifest[s].photo
  BY DEF ArtifactKey
<1> QED
  BY <1>1, <1>2, <1>3, <1>4 DEF KeyOf

\* Of the swings that are kept no two show one clip.
LEMMA KeptShowOneClipEach ==
  ASSUME NEW s \in Kept, NEW t \in Kept, manifest[s].face = manifest[t].face
  PROVE  s = t
BY DEF Kept, Group

\* The walk that counts and the walk that pools agree, on the career and on every
\* narrowing of it, and no clip and no photo is pooled twice.
THEOREM CountedAsSampled == Spec => []CountsAreSamples
<1>1. LibraryInv => CountsAreSamples
  <2> SUFFICES ASSUME LibraryInv, NEW m \in Metrics, NEW C \in Narrowings(Corpus)
               PROVE  /\ Count(m, C) = Cardinality(Samples(m, C))
                      /\ \A s, t \in Samples(m, C) : s # t =>
                           /\ manifest[s].face # manifest[t].face
                           /\ (m \in {"apex", "carry"} => manifest[s].photo # manifest[t].photo)
    BY DEF CountsAreSamples
  <2>1. /\ Count(m, C) = Cardinality(Samples(m, C))
        /\ \A s \in Samples(m, C) : s \in Kept /\ s \in OnDisk /\ KeyOf(s, m) # None
        /\ \A s, t \in Samples(m, C) : s # t => KeyOf(s, m) # KeyOf(t, m)
    BY NarrowingsAre, SamplesAreArtifacts
  <2>2. ASSUME NEW s \in Samples(m, C), NEW t \in Samples(m, C), s # t
        PROVE  /\ manifest[s].face # manifest[t].face
               /\ (m \in {"apex", "carry"} => manifest[s].photo # manifest[t].photo)
    <3>1. manifest[s].face # manifest[t].face
      BY <2>1, <2>2, KeptShowOneClipEach
    <3>2. m \in {"apex", "carry"} => manifest[s].photo # manifest[t].photo
      BY <2>1, <2>2, KeysAre
    <3> QED
      BY <3>1, <3>2
  <2> QED
    BY <2>1, <2>2
<1> QED
  BY <1>1, IInvAlways, PTL DEF IInv

\* The swing a baseline holds for a shot and the swing the shot's flight is worked out
\* with are one: pooled_samples against _swings_by_shot_photo.
THEOREM ReadersAgree == Spec => []TwoReadersAgree
<1>1. LibraryInv => TwoReadersAgree
  <2> SUFFICES ASSUME LibraryInv, NEW s \in Samples("apex", Corpus), NEW p, NEW holders,
                      p = manifest[s].photo, holders = {t \in OnDisk : manifest[t].photo = p}
               PROVE  /\ LoftGap(p) # "no_swing"
                      /\ holders \subseteq {f.of : f \in Facts("apex", Corpus)} => Attached(p) = s
    BY DEF TwoReadersAgree
  <2>1. "apex" \in Metrics /\ Corpus.facts \subseteq Corpus.facts
    BY DEF Metrics
  <2>2. PICK f \in Facts("apex", Corpus) :
          f.of = s /\ \A g \in Facts("apex", Corpus) : g.key = f.key /\ g.of # s => Before(s, g.of)
    BY <2>1, SamplesAre
  <2>3. s \in OnDisk /\ f.key = p /\ p # None
    BY <2>1, <2>2, OneFactEach, KeysAre
  <2>4. holders \in SUBSET OnDisk /\ s \in holders
    BY <2>3
  <2>5. Attached(p) = First(holders)
    BY <2>4 DEF Attached
  <2>6. Attached(p) \in OnDisk /\ Attached(p) # None
    <3>1. First(holders) \in holders
      BY <2>4, FirstIsOne, SwingsAreDated
    <3> QED
      BY <2>4, <2>5, <3>1, SwingsAreDated
  <2>7. LoftGap(p) # "no_swing"
    BY <2>6 DEF LoftGap
  <2>8. ASSUME holders \subseteq {g.of : g \in Facts("apex", Corpus)}
        PROVE  Attached(p) = s
    <3>1. ASSUME NEW t \in holders \ {s} PROVE Before(s, t)
      <4>1. PICK g \in Facts("apex", Corpus) : g.of = t
        BY <2>8
      <4>2. g.key = manifest[t].photo
        BY <2>1, <4>1, OneFactEach, KeysAre
      <4>3. g.key = f.key
        BY <2>3, <4>2
      <4> QED
        BY <2>2, <4>1, <4>3
    <3> QED
      BY <2>4, <2>5, <3>1, FirstIsTheOnlyOne, SwingsAreDated
  <2> QED
    BY <2>7, <2>8
<1> QED
  BY <1>1, IInvAlways, PTL DEF IInv

-----------------------------------------------------------------------------
(* A clip that is sent again. *)

\* The swings that are kept: of those that show a clip, the one before every other.
KeptIsFirst ==
  \A s : s \in Kept <=>
    /\ s \in Mine /\ manifest[s].face # None
    /\ \A t \in Mine : manifest[t].face = manifest[s].face /\ t # s => Before(s, t)

Earlier ==
  \A s, t \in OnDisk :
    Before(s, t) <=>
      \/ manifest[s].at < manifest[t].at
      \/ manifest[s].at = manifest[t].at /\ s[1] < t[1]
      \/ manifest[s].at = manifest[t].at /\ s[1] = t[1] /\ s[2] < t[2]

LEMMA KeptIs == LibraryInv => KeptIsFirst /\ Earlier /\ Dated
<1> SUFFICES ASSUME LibraryInv PROVE KeptIsFirst /\ Earlier /\ Dated
  OBVIOUS
<1>1. Dated
  BY SwingsAreDated
<1>2. Earlier
  BY <1>1, BeforeIs DEF Earlier
<1>3. Mine \in SUBSET OnDisk
  BY DEF Mine
<1>4. ASSUME NEW s, s \in Mine, manifest[s].face # None
      PROVE  s = First(Group(s)) <=>
               \A t \in Mine : manifest[t].face = manifest[s].face /\ t # s => Before(s, t)
  <2>1. Group(s) \in SUBSET OnDisk /\ s \in Group(s)
    BY <1>3, <1>4 DEF Group
  <2>2. /\ First(Group(s)) \in Group(s)
        /\ \A t \in Group(s) \ {First(Group(s))} : Before(First(Group(s)), t)
    BY <1>1, <2>1, FirstIsOne
  <2>3. (\A t \in Group(s) \ {s} : Before(s, t)) => s = First(Group(s))
    BY <1>1, <2>1, FirstIsTheOnlyOne
  <2>4. \A t : t \in Group(s) <=> t \in Mine /\ manifest[t].face = manifest[s].face
    BY DEF Group
  <2> QED
    BY <2>2, <2>3, <2>4
<1>5. KeptIsFirst
  BY <1>4 DEF KeptIsFirst, Kept, NoFaceOn
<1> QED
  BY <1>1, <1>2, <1>5

\* A swing only comes to be by arriving, after every other.
LEMMA SwingsArrive ==
  ASSUME IInv, Next, NEW s \in Swings, manifest[s] = None, manifest'[s] # None
  PROVE  /\ \E m : manifest' = [manifest EXCEPT ![s] = m] /\ m.at = clock'
         /\ \A t \in Swings \ {s} : result'[t] = result[t] /\ sidecar'[t] = sidecar[t]
         /\ engine' = engine /\ clock' = clock + 1 /\ clock \in Nat
<1>1. /\ manifest \in [Swings -> Manifest \cup {None}]
      /\ result \in [Swings -> [inputs : Inputs, version : 1..engine] \cup {None}]
      /\ sidecar \in [Swings -> Inputs \cup {None}]
      /\ clock \in Nat
  BY CareerConstants DEF IInv, LibraryInv, LibraryTypeOK
<1>2. LibraryNext
  BY DEF Next, LibraryEdit, BagEdit
<1>3. PICK r \in Swings : Arrive(r)
  <2>1. ~Upgrade /\ \A r \in Swings : ~Analyze(r)
    BY DEF Upgrade, Analyze
  <2>2. ASSUME NEW r \in Swings PROVE ~Replace(r)
    BY <1>1 DEF Replace
  <2>3. ASSUME NEW r \in Swings PROVE ~Tag(r)
    <3> SUFFICES ASSUME Tag(r) PROVE FALSE
      OBVIOUS
    <3>1. manifest[r] # None /\ \E m : manifest' = [manifest EXCEPT ![r] = m]
      BY DEF Tag
    <3> QED
      BY <1>1, <3>1
  <2>4. ASSUME NEW r \in Swings PROVE ~Delete(r)
    BY <1>1 DEF Delete
  <2> QED
    BY <1>2, <2>1, <2>2, <2>3, <2>4 DEF LibraryNext
<1>4. PICK m : /\ manifest' = [manifest EXCEPT ![r] = m] /\ m.at = clock'
               /\ Run(r, m, TRUE) \/ UNCHANGED <<result, sidecar>>
  <2>1. PICK a \in Arrivals : \E m : m = Arrived(a, clock') /\ manifest' = [manifest EXCEPT ![r] = m]
                          /\ IF a.runs THEN Run(r, m, TRUE) ELSE UNCHANGED <<result, sidecar>>
    BY <1>3 DEF Arrive
  <2>2. Arrived(a, clock').at = clock'
    BY DEF Arrived
  <2> QED
    BY <2>1, <2>2
<1>5. r = s
  BY <1>1, <1>4
<1>6. \A t \in Swings \ {s} : result'[t] = result[t] /\ sidecar'[t] = sidecar[t]
  BY <1>1, <1>4, <1>5 DEF Run
<1>7. engine' = engine /\ clock' = clock + 1
  BY <1>3 DEF Arrive, Edit
<1> QED
  BY <1>1, <1>4, <1>5, <1>6, <1>7

\* The clip of a kept swing comes in another directory, of the golfer's.
Again(s) ==
  /\ manifest[s] = None /\ manifest'[s] # None
  /\ \E t \in Mine \ NoFaceOn : manifest'[s].player = Me /\ manifest'[s].face = manifest[t].face

LEMMA AnotherCopyIsNotKept ==
  ASSUME IInv, IInv', Next, NEW s \in Swings, Again(s)
  PROVE  Kept' = Kept /\ Counted' = Counted
<1>1. /\ KeptIsFirst /\ Earlier /\ Dated
      /\ KeptIsFirst' /\ Earlier'
  <2>1. (LibraryInv => KeptIsFirst /\ Earlier /\ Dated)'
    BY KeptIs, PTL
  <2> QED
    BY <2>1, KeptIs DEF IInv
<1>2. PICK m : /\ manifest' = [manifest EXCEPT ![s] = m] /\ m.at = clock'
               /\ \A t \in Swings \ {s} : result'[t] = result[t] /\ sidecar'[t] = sidecar[t]
               /\ engine' = engine /\ clock' = clock + 1 /\ clock \in Nat
  BY SwingsArrive DEF Again
<1>3. DOMAIN manifest = Swings /\ manifest'[s] = m /\ \A t \in Swings \ {s} : manifest'[t] = manifest[t]
  BY <1>2 DEF IInv, LibraryInv, LibraryTypeOK
<1>4. PICK t \in Mine : /\ m # None /\ m.player = Me /\ m.face = manifest[t].face
                        /\ manifest[t].face # None
  BY <1>3 DEF Again, NoFaceOn
<1>5. OnDisk' = OnDisk \cup {s} /\ s \notin OnDisk
  BY <1>3, <1>4 DEF OnDisk, Again
<1>6. Mine' = Mine \cup {s} /\ Mine \subseteq OnDisk
  BY <1>3, <1>4, <1>5 DEF Mine, OnDisk
<1>7. \A u \in OnDisk : u # s /\ u \in Swings /\ manifest'[u] = manifest[u]
  BY <1>3, <1>5 DEF OnDisk
<1>8. \A u, v \in OnDisk : Before(u, v)' <=> Before(u, v)
  BY <1>1, <1>5, <1>7 DEF Earlier
<1>9. \A u \in OnDisk : Before(u, s)' /\ ~Before(s, u)'
  <2>1. ASSUME NEW u \in OnDisk PROVE manifest'[u].at < manifest'[s].at /\ manifest'[u].at \in Nat
    <3>1. manifest[u].at \in Nat /\ manifest[u].at <= clock
      BY SwingsAreDated DEF IInv, Dated
    <3> QED
      BY <1>2, <1>3, <1>7, <3>1
  <2>2. manifest'[s].at \in Nat
    BY <1>2, <1>3
  <2> QED
    BY <1>1, <1>5, <2>1, <2>2 DEF Earlier
<1>10. s \notin Kept'
  <2>1. t # s /\ t \in Mine' /\ manifest'[t].face = manifest'[s].face /\ ~Before(s, t)'
    BY <1>3, <1>4, <1>6, <1>7, <1>9
  <2> QED
    BY <1>1, <2>1 DEF KeptIsFirst
<1>11. ASSUME NEW r, r # s
       PROVE  r \in Kept' <=> r \in Kept
  <2>1. r \in Mine' <=> r \in Mine
    BY <1>6, <1>11
  <2>2. CASE r \in Mine
    <3>1. manifest'[r].face = manifest[r].face
      BY <1>6, <1>7, <2>2
    <3>2. (\A u \in Mine' : manifest'[u].face = manifest'[r].face /\ u # r => Before(r, u)')
            <=> (\A u \in Mine : manifest[u].face = manifest[r].face /\ u # r => Before(r, u))
      BY <1>6, <1>7, <1>8, <1>9, <2>2, <3>1
    <3> QED
      BY <1>1, <2>1, <3>1, <3>2 DEF KeptIsFirst
  <2>3. CASE r \notin Mine
    BY <1>1, <2>1, <2>3 DEF KeptIsFirst
  <2> QED
    BY <2>2, <2>3
<1>12. s \notin Kept
  BY <1>1, <1>5, <1>6 DEF KeptIsFirst
<1>13. Kept' = Kept
  BY <1>10, <1>11, <1>12
<1>14. \A r \in Kept : /\ manifest'[r] = manifest[r] /\ result'[r] = result[r]
                       /\ sidecar'[r] = sidecar[r]
  BY <1>1, <1>2, <1>6, <1>7 DEF KeptIsFirst
<1>15. Counted' = Counted
  BY <1>2, <1>13, <1>14 DEF Counted, NotAnalyzed, Stale, Outdated, InputsOf
<1> QED
  BY <1>13, <1>15

\* Sending a clip again, wherever and with whatever photo, moves neither the swings a
\* career is made of nor those that count.
THEOREM ReuploadsAreNotCounted == Spec => ReuploadsCountOnce
<1>1. IInv /\ IInv' /\ [Next]_vars =>
        [(\E s \in Swings :
            /\ manifest[s] = None /\ manifest'[s] # None
            /\ \E t \in Mine \ NoFaceOn : manifest'[s].player = Me /\ manifest'[s].face = manifest[t].face)
         => Kept' = Kept /\ Counted' = Counted]_vars
  BY AnotherCopyIsNotKept DEF Again
<1> QED
  BY <1>1, IInvAlways, PTL DEF Spec, ReuploadsCountOnce
==============================================================================
