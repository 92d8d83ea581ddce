----------------------------- MODULE PoseService -----------------------------
(***************************************************************************)
(* What a pool of pose workers promises the session that owns it, with     *)
(* the threads, the children and the queue taken away: a job is refused or *)
(* accepted, an accepted one is reported once or handed back once, and a   *)
(* pool that is shut down ends with nothing in its hands.                  *)
(* Source: the operations of crates/pose/src/pool.rs and their results.    *)
(***************************************************************************)
EXTENDS Naturals, FiniteSets

CONSTANTS
  Jobs,
  Capacity  \* jobs that may be in the pool at once: the queue and the drivers

VARIABLES
  phase,    \* "open", "closing" or "closed"
  held,     \* accepted, and neither reported nor handed back
  reported,
  handed    \* handed back, never started

serviceVars == <<phase, held, reported, handed>>

ServiceInit == phase = "open" /\ held = {} /\ reported = {} /\ handed = {}

\* Pool::submit: under the bound, and an id once.
Accept(j) ==
  /\ phase = "open"
  /\ j \notin held \cup reported \cup handed
  /\ Cardinality(held) < Capacity
  /\ held' = held \cup {j}
  /\ UNCHANGED <<phase, reported, handed>>

\* What Pool::results brings: one result for each, in any order, also while closing.
Deliver(j) ==
  /\ phase # "closed"
  /\ j \in held
  /\ held' = held \ {j}
  /\ reported' = reported \cup {j}
  /\ UNCHANGED <<phase, handed>>

\* Pool::shutdown: what was not started is known at once.
HandBack ==
  /\ phase = "open"
  /\ phase' = "closing"
  /\ \E back \in SUBSET held : handed' = back /\ held' = held \ back
  /\ UNCHANGED reported

\* It returns when every job that was started has been reported.
Closed ==
  /\ phase = "closing"
  /\ held = {}
  /\ phase' = "closed"
  /\ UNCHANGED <<held, reported, handed>>

ServiceNext ==
  \/ \E j \in Jobs : Accept(j) \/ Deliver(j)
  \/ HandBack \/ Closed

Service == ServiceInit /\ [][ServiceNext]_serviceVars
=============================================================================
