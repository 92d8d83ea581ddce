-------------------------- MODULE PosePool_proofs --------------------------
(***************************************************************************)
(* The pool, for any number of drivers and jobs.  Its types, with what     *)
(* each driver has in hand where it is: TypeOK alone is not kept by the    *)
(* steps (a result is reported of a job, a handle is a child's).  And two  *)
(* promises: no job is given to a worker one has failed on, and a shutdown *)
(* that joins its drivers waits for none of their children.  Both are      *)
(* about where a child can be while its driver is somewhere else; the      *)
(* invariant says where.  The last part counts the places a job can be in, *)
(* and shows that the pool implements PoseService.                         *)
(***************************************************************************)
EXTENDS PosePool, FiniteSetTheorems, SequenceTheorems, TLAPS

\* A driver at one of these has a job; at one of those, a child.
InAJob == {"attempt", "spawn", "publish", "write", "work", "settle", "decide", "report"}
WithAChild == {"publish", "write", "work"}

\* A try that begins is under the bound on attempts.  A published child is there,
\* and the driver is not where it starts one or lets one go.
Held(d) ==
  /\ At(d, "attempt") => driver[d].attempts < MaxAttempts
  /\ driver[d].at \in InAJob => driver[d].job # None
  /\ driver[d].at \in WithAChild => child[d] # None
  /\ d \in live => child[d] # None /\ driver[d].at \notin {"spawn", "publish", "reap", "ended"}

Typed == TypeOK /\ \A d \in Slots : Held(d)

Places == {"pop", "parked", "woken", "attempt", "spawn", "publish", "write", "work", "settle",
           "reap", "decide", "report", "last", "ended"}

-----------------------------------------------------------------------------
(* What is done to one driver or one child. *)

LEMMA DriverMoves ==
  ASSUME driver \in [Slots -> Driver], NEW d \in Slots, NEW place \in Places, Goes(d, place)
  PROVE  /\ driver' \in [Slots -> Driver]
         /\ driver'[d].at = place /\ driver'[d].job = driver[d].job
         /\ driver'[d].attempts = driver[d].attempts /\ driver'[d].outcome = driver[d].outcome
         /\ \A e \in Slots \ {d} : driver'[e] = driver[e]
  BY DEF Goes, Driver, Places

LEMMA DriverSettles ==
  ASSUME driver \in [Slots -> Driver], NEW d \in Slots, NEW outcome \in Outcomes,
         Settles(d, outcome)
  PROVE  /\ driver' \in [Slots -> Driver]
         /\ driver'[d].at = "settle" /\ driver'[d].job = driver[d].job
         /\ driver'[d].outcome = outcome
         /\ \A e \in Slots \ {d} : driver'[e] = driver[e]
  BY DEF Settles, Driver

LEMMA DriverIsFree ==
  ASSUME driver \in [Slots -> Driver], NEW d \in Slots,
         driver' = [driver EXCEPT ![d].at = "pop", ![d].job = None]
  PROVE  /\ driver' \in [Slots -> Driver]
         /\ driver'[d].at = "pop" /\ driver'[d].job = None
         /\ \A e \in Slots \ {d} : driver'[e] = driver[e]
  BY DEF Driver

LEMMA SomebodyIsWoken ==
  ASSUME driver \in [Slots -> Driver], NotifyOne
  PROVE  /\ driver' \in [Slots -> Driver]
         /\ \A d \in Slots : /\ driver'[d].job = driver[d].job
                             /\ driver'[d].attempts = driver[d].attempts
                             /\ driver'[d].outcome = driver[d].outcome
                             /\ \/ driver'[d].at = driver[d].at
                                \/ driver[d].at = "parked" /\ driver'[d].at = "woken"
<1>1. CASE UNCHANGED driver
  BY <1>1
<1>2. ASSUME NEW d \in Slots, At(d, "parked"), Goes(d, "woken")
      PROVE  /\ driver' \in [Slots -> Driver]
             /\ \A e \in Slots : /\ driver'[e].job = driver[e].job
                                 /\ driver'[e].attempts = driver[e].attempts
                                 /\ driver'[e].outcome = driver[e].outcome
                                 /\ \/ driver'[e].at = driver[e].at
                                    \/ driver[e].at = "parked" /\ driver'[e].at = "woken"
  BY <1>2, DriverMoves DEF At, Places
<1> QED
  BY <1>1, <1>2 DEF NotifyOne, Parked

LEMMA ChildChanges ==
  ASSUME child \in [Slots -> Child \cup {None}], NEW d \in Slots, NEW c \in Child \cup {None},
         child' = [child EXCEPT ![d] = c]
  PROVE  child' \in [Slots -> Child \cup {None}] /\ child'[d] = c
         /\ \A e \in Slots \ {d} : child'[e] = child[e]
  OBVIOUS

LEMMA WarmIsAChild == Warm \in Child
  BY DEF Warm, Child
-----------------------------------------------------------------------------
(* Each action keeps it. *)

\* What happens to one driver, its child and its handle is checked there alone.
LEMMA OneDriver ==
  ASSUME Typed, NEW d \in Slots,
         driver' \in [Slots -> Driver], child' \in [Slots -> Child \cup {None}],
         live' \subseteq Slots,
         \A e \in Slots \ {d} : /\ driver'[e] = driver[e] /\ child'[e] = child[e]
                               /\ (e \in live') = (e \in live),
         Held(d)',
         UNCHANGED <<waiting, closed, owner, accepted, results, returned>>
  PROVE  Typed'
<1>1. TypeOK'
  BY DEF Typed, TypeOK
<1>2. ASSUME NEW e \in Slots \ {d} PROVE Held(e)'
  BY <1>2 DEF Typed, Held, At
<1> QED
  BY <1>1, <1>2 DEF Typed

LEMMA SubmitTyped == ASSUME Typed, NEW j \in Jobs, Submit(j) PROVE Typed'
<1>1. waiting' \in Seq(Jobs) /\ Len(waiting') <= QueueBound
  BY PoolConstants DEF Typed, TypeOK, Submit
<1>2. driver' \in [Slots -> Driver]
  BY SomebodyIsWoken DEF Typed, TypeOK, Submit
<1>3. TypeOK'
  BY <1>1, <1>2 DEF Typed, TypeOK, Submit
<1>4. ASSUME NEW d \in Slots PROVE Held(d)'
  BY <1>4, SomebodyIsWoken DEF Typed, TypeOK, Submit, Held, At, InAJob, WithAChild
<1> QED
  BY <1>3, <1>4 DEF Typed

LEMMA PopTyped == ASSUME Typed, NEW d \in Slots, Pop(d) PROVE Typed'
<1> USE DEF Typed, TypeOK
<1>1. CASE waiting # <<>> /\ waiting' = Tail(waiting)
           /\ driver' = [driver EXCEPT ![d] =
                [at |-> "attempt", job |-> Head(waiting), attempts |-> 0, outcome |-> None]]
  <2>1. /\ Head(waiting) \in Jobs /\ waiting' \in Seq(Jobs)
        /\ Len(waiting') <= QueueBound
    BY <1>1, PoolConstants
  <2>2. driver' \in [Slots -> Driver]
    BY <1>1, <2>1, PoolConstants DEF Driver
  <2>3. Held(d)'
    BY <1>1, <2>1, PoolConstants DEF Pop, Held, At, InAJob, WithAChild
  <2>4. \A e \in Slots \ {d} : Held(e)'
    BY <1>1 DEF Pop, Held, At
  <2> QED
    BY <2>1, <2>2, <2>3, <2>4 DEF Pop
<1>2. ASSUME NEW place \in {"last", "parked"}, Goes(d, place), UNCHANGED waiting PROVE Typed'
  <2>1. Held(d)'
    BY <1>2, DriverMoves DEF Pop, Held, At, InAJob, WithAChild, Places
  <2> QED
    BY <1>2, <2>1, DriverMoves, OneDriver DEF Pop, Places
<1> QED
  BY <1>1, <1>2 DEF Pop

LEMMA AttemptTyped == ASSUME Typed, NEW d \in Slots, Attempt(d) PROVE Typed'
<1> USE DEF Typed, TypeOK
<1>1. driver[d].attempts + 1 \in 0..MaxAttempts
  BY PoolConstants DEF Attempt, Held, At, Driver
<1>2. PICK place \in {"write", "settle", "spawn"}, outcome \in {None, "shutdown"} :
        Begins(d, place, outcome) /\ (place = "write" => child[d] # None)
             /\ (place = "spawn" => child[d] = None)
  BY DEF Attempt
<1>3. driver' \in [Slots -> Driver]
  BY <1>1, <1>2 DEF Begins, Driver, Outcomes
<1>4. Held(d)'
  BY <1>2 DEF Attempt, Begins, Held, At, Driver, InAJob, WithAChild, shared
<1> QED
  BY <1>2, <1>3, <1>4, OneDriver DEF Attempt, Begins, shared
\* A driver that only moves, to a place its child and its job allow.
LEMMA MovesTyped ==
  ASSUME Typed, NEW d \in Slots, NEW place \in Places, Goes(d, place),
         live' = live \ {d} \/ (live' = live /\ (d \in live => place \notin {"spawn", "publish", "reap", "ended"})),
         place # "attempt" \/ driver[d].attempts < MaxAttempts,
         place \in InAJob => driver[d].job # None,
         place \in WithAChild => child[d] # None,
         UNCHANGED <<waiting, closed, child, owner, accepted, results, returned>>
  PROVE  Typed'
<1> USE DEF Typed, TypeOK
<1>1. /\ driver'[d].at = place /\ driver'[d].job = driver[d].job
      /\ driver'[d].attempts = driver[d].attempts
  BY DriverMoves
<1>2. Held(d)'
  BY <1>1 DEF Held, At, InAJob, WithAChild
<1>3. live' \subseteq Slots /\ \A e \in Slots \ {d} : (e \in live') = (e \in live)
  OBVIOUS
<1>4. driver' \in [Slots -> Driver] /\ \A e \in Slots \ {d} : driver'[e] = driver[e]
  BY DriverMoves
<1> QED
  BY <1>2, <1>3, <1>4, OneDriver

\* A driver whose attempt ends.
LEMMA SettlesTyped ==
  ASSUME Typed, NEW d \in Slots, NEW outcome \in Outcomes, Settles(d, outcome),
         driver[d].at \in InAJob,
         NEW c \in Child \cup {None}, child' = [child EXCEPT ![d] = c],
         d \in live => c # None,
         UNCHANGED <<waiting, closed, live, owner, accepted, results, returned>>
  PROVE  Typed'
<1> USE DEF Typed, TypeOK
<1>1. Held(d)'
  BY DriverSettles, ChildChanges DEF Held, At, InAJob, WithAChild
<1> QED
  BY <1>1, DriverSettles, ChildChanges, OneDriver

LEMMA SpawnTyped == ASSUME Typed, NEW d \in Slots, Spawn(d) PROVE Typed'
<1> USE DEF Typed, TypeOK
<1>1. CASE child' = [child EXCEPT ![d] = Warm] /\ Goes(d, "publish")
  <2>1. Held(d)'
    BY <1>1, DriverMoves, ChildChanges, WarmIsAChild, PoolConstants
       DEF Spawn, shared, Held, At, InAJob, WithAChild, Places
  <2> QED
    BY <1>1, <2>1, DriverMoves, ChildChanges, WarmIsAChild, OneDriver DEF Spawn, shared, Places
<1>2. CASE Settles(d, "final") /\ UNCHANGED child
  <2>1. child' = [child EXCEPT ![d] = child[d]] /\ child[d] \in Child \cup {None}
    BY <1>2
  <2> QED
    BY <1>2, <2>1, SettlesTyped DEF Spawn, shared, Held, At, InAJob, Outcomes
<1> QED
  BY <1>1, <1>2 DEF Spawn

LEMMA PublishTyped == ASSUME Typed, NEW d \in Slots, Publish(d) PROVE Typed'
<1> USE DEF Typed, TypeOK
<1>1. CASE closed
  BY <1>1, SettlesTyped DEF Publish, Held, At, InAJob, Outcomes
<1>2. CASE ~closed
  <2>1. Held(d)'
    BY <1>2, DriverMoves DEF Publish, Held, At, InAJob, WithAChild, Places
  <2> QED
    BY <1>2, <2>1, DriverMoves, OneDriver DEF Publish, Places
<1> QED
  BY <1>1, <1>2

LEMMA FailsTyped ==
  ASSUME Typed, NEW d \in Slots, NEW outcome \in Outcomes, Fails(d, outcome),
         driver[d].at \in {"write", "work"},
         UNCHANGED <<shared, owner, accepted, results, returned>>
  PROVE  Typed'
<1> USE DEF Typed, TypeOK
<1>1. child[d] \in Child /\ child[d] # None
  BY DEF Held, WithAChild
<1>2. PICK c \in Child : child' = [child EXCEPT ![d] = c]
  <2>1. [child[d] EXCEPT !.reply = None, !.spent = TRUE, !.gone = TRUE] \in Child
    BY <1>1 DEF Child
  <2> QED
    BY <2>1 DEF Fails, Child
<1> QED
  BY <1>2, SettlesTyped, PoolConstants DEF Fails, InAJob, shared

LEMMA WriteTyped == ASSUME Typed, NEW d \in Slots, Write(d) PROVE Typed'
<1>1. CASE child[d].eof
  BY <1>1, FailsTyped DEF Write, At, Outcomes
<1>2. CASE ~child[d].eof
  BY <1>2, MovesTyped DEF Write, Typed, Held, At, InAJob, WithAChild, Places, shared
<1> QED
  BY <1>1, <1>2

LEMMA RunTyped == ASSUME Typed, NEW d \in Slots, Run(d) PROVE Typed'
<1> USE DEF Typed, TypeOK
<1>1. child[d] \in Child /\ child[d] # None
  BY DEF Run, Held, At, WithAChild
<1>2. CASE Answered(d)
  <2>1. child[d].reply \in Outcomes
    BY <1>1, <1>2 DEF Answered, Child, Outcomes
  <2>2. PICK c \in Child : child' = [child EXCEPT ![d] = c]
    <3>1. [child[d] EXCEPT !.reply = None, !.spent = child[d].reply # "done"] \in Child
      BY <1>1 DEF Child
    <3> QED
      BY <1>2, <3>1 DEF Answered, Child
  <2> QED
    BY <1>2, <2>1, <2>2, SettlesTyped, PoolConstants DEF Run, Answered, At, InAJob, shared
<1>3. ASSUME NEW outcome \in {"again", "final"}, Fails(d, outcome) PROVE Typed'
  BY <1>3, FailsTyped DEF Run, At, Outcomes
<1> QED
  BY <1>2, <1>3 DEF Run

LEMMA SettleTyped == ASSUME Typed, NEW d \in Slots, Settle(d) PROVE Typed'
  BY MovesTyped DEF Settle, Typed, Held, At, InAJob, WithAChild, Places

LEMMA DecideTyped == ASSUME Typed, NEW d \in Slots, Decide(d) PROVE Typed'
  BY MovesTyped DEF Decide, Typed, Held, At, InAJob, WithAChild, Places, shared

LEMMA LastTyped == ASSUME Typed, NEW d \in Slots, Last(d) PROVE Typed'
  BY MovesTyped DEF Last, Typed, Held, At, InAJob, WithAChild, Places

LEMMA SpuriousTyped == ASSUME Typed, NEW d \in Slots, Spurious(d) PROVE Typed'
  BY MovesTyped DEF Spurious, Typed, Held, At, InAJob, WithAChild, Places, shared

LEMMA ReapTyped == ASSUME Typed, NEW d \in Slots, Reap(d) PROVE Typed'
<1> USE DEF Typed, TypeOK
<1>1. PICK place \in {"ended", "decide"} :
        Goes(d, place) /\ (place = "decide" => driver[d].job # None)
  BY DEF Reap
<1>2. Held(d)'
  BY <1>1, DriverMoves, ChildChanges DEF Reap, Held, At, InAJob, WithAChild, Places, shared
<1> QED
  BY <1>1, <1>2, DriverMoves, ChildChanges, OneDriver DEF Reap, Places, shared
LEMMA ReportTyped == ASSUME Typed, NEW d \in Slots, Report(d) PROVE Typed'
<1> USE DEF Typed, TypeOK
<1>1. driver[d].job \in Jobs
  BY DEF Report, Held, At, InAJob, Driver
<1>2. results' \in Seq(Jobs)
  BY <1>1 DEF Report
<1>3. /\ driver'[d].at = "pop" /\ driver'[d].job = None
      /\ \A e \in Slots \ {d} : driver'[e] = driver[e]
  BY DriverIsFree DEF Report
<1>4. driver' \in [Slots -> Driver]
  BY DriverIsFree DEF Report
<1>5. TypeOK'
  BY <1>2, <1>4 DEF Report, shared
<1>6. Held(d)'
  BY <1>3 DEF Report, Held, At, InAJob, WithAChild, shared
<1>7. \A e \in Slots \ {d} : Held(e)'
  BY <1>3 DEF Report, Held, At, shared
<1> QED
  BY <1>5, <1>6, <1>7

\* What is done to a child alone keeps it a child.
LEMMA ChildTyped ==
  ASSUME Typed, NEW d \in Slots, NEW c \in Child, child' = [child EXCEPT ![d] = c],
         UNCHANGED <<shared, driver, accepted, results, returned>>,
         owner' \in {"using", "eof", "grace", "kill", "join", "over"}
  PROVE  Typed'
<1> USE DEF Typed, TypeOK
<1>1. TypeOK'
  BY ChildChanges DEF shared
<1>2. \A e \in Slots : Held(e)'
  BY ChildChanges, PoolConstants DEF Held, At, shared
<1> QED
  BY <1>1, <1>2

LEMMA ReplyTyped == ASSUME Typed, NEW d \in Slots, Reply(d) PROVE Typed'
<1>1. child[d] \in Child
  BY DEF Reply, Typed, TypeOK, Held, At, WithAChild
<1>2. PICK reply \in {"done", "again", "final"} : child' = [child EXCEPT ![d].reply = reply]
  BY DEF Reply
<1>3. [child[d] EXCEPT !.reply = reply] \in Child
  BY <1>1, <1>2 DEF Child
<1> QED
  BY <1>2, <1>3, ChildTyped DEF Reply, Typed, TypeOK

LEMMA ExitTyped == ASSUME Typed, NEW d \in Slots, Exit(d) PROVE Typed'
<1>1. child[d] \in Child
  BY DEF Exit, Typed, TypeOK
<1>2. [child[d] EXCEPT !.gone = TRUE] \in Child
  BY <1>1 DEF Child
<1> QED
  BY <1>2, ChildTyped DEF Exit, Typed, TypeOK

LEMMA CloseTyped == ASSUME Typed, Close PROVE Typed'
<1> USE DEF Typed, TypeOK
<1>1. ASSUME NEW d \in Slots
      PROVE  child'[d] \in Child \cup {None} /\ (child'[d] = None) = (child[d] = None)
  <2>1. CASE d \in live
    <3>1. child[d] \in Child
      BY <2>1 DEF Held
    <3>2. [child[d] EXCEPT !.listed = TRUE] \in Child
      BY <3>1 DEF Child
    <3> QED
      BY <2>1, <3>1, <3>2, PoolConstants DEF Close, ListAndWake
  <2>2. CASE d \notin live
    BY <2>2 DEF Close, ListAndWake
  <2> QED
    BY <2>1, <2>2
<1>2. child' \in [Slots -> Child \cup {None}]
  BY <1>1 DEF Close, ListAndWake
<1>3. ASSUME NEW d \in Slots
      PROVE  /\ driver'[d] \in Driver
             /\ driver'[d].job = driver[d].job /\ driver'[d].attempts = driver[d].attempts
             /\ driver'[d].at = driver[d].at \/ driver'[d].at = "woken"
  BY <1>3 DEF Close, ListAndWake, Driver
<1>4. driver' \in [Slots -> Driver]
  BY <1>3 DEF Close, ListAndWake
<1>5. TypeOK'
  BY <1>2, <1>4, PoolConstants DEF Close
<1>6. ASSUME NEW d \in Slots PROVE Held(d)'
  BY <1>1, <1>3, <1>6 DEF Close, Held, At, InAJob, WithAChild
<1> QED
  BY <1>5, <1>6

LEMMA ShutdownTyped == ASSUME Typed, ShutdownStep PROVE Typed'
<1> USE DEF Typed, TypeOK
<1>1. ASSUME NEW d \in Slots, Listed(d), child' = [child EXCEPT ![d].eof = TRUE],
             UNCHANGED <<shared, driver, owner, accepted, results, returned>>
      PROVE  Typed'
  <2>1. [child[d] EXCEPT !.eof = TRUE] \in Child
    BY <1>1 DEF Listed, Child
  <2> QED
    BY <1>1, <2>1, ChildTyped
<1>2. ASSUME NEW d \in Slots, Listed(d), child' = [child EXCEPT ![d].gone = TRUE],
             UNCHANGED <<shared, driver, owner, accepted, results, returned>>
      PROVE  Typed'
  <2>1. [child[d] EXCEPT !.gone = TRUE] \in Child
    BY <1>2 DEF Listed, Child
  <2> QED
    BY <1>2, <2>1, ChildTyped
<1>3. ASSUME UNCHANGED <<shared, driver, child, accepted, results, returned>>,
             owner' \in {"grace", "kill", "join", "over"}
      PROVE  Typed'
  BY <1>3 DEF Held, At, shared
<1>4. CASE CloseStdin
  BY <1>1, <1>3, <1>4 DEF CloseStdin
<1>5. CASE GraceEnds
  BY <1>3, <1>5 DEF GraceEnds
<1>6. CASE Kill
  BY <1>2, <1>3, <1>6 DEF Kill
<1>7. CASE Join
  BY <1>3, <1>7 DEF Join
<1> QED
  BY <1>4, <1>5, <1>6, <1>7 DEF ShutdownStep

LEMMA InitTyped == Init => Typed
<1> SUFFICES ASSUME Init PROVE Typed
  OBVIOUS
<1>1. waiting \in Seq(Jobs) /\ Len(waiting) <= QueueBound /\ results \in Seq(Jobs) /\ returned \in Seq(Jobs)
  BY PoolConstants DEF Init
<1>2. driver \in [Slots -> Driver]
  BY PoolConstants DEF Init, Driver
<1>3. TypeOK
  BY <1>1, <1>2, WarmIsAChild DEF Init, TypeOK
<1>4. ASSUME NEW d \in Slots PROVE Held(d)
  BY <1>4, WarmIsAChild, PoolConstants DEF Init, Held, At, InAJob, WithAChild
<1> QED
  BY <1>3, <1>4 DEF Typed

LEMMA StepTyped == Typed /\ [Next]_vars => Typed'
<1> SUFFICES ASSUME Typed, [Next]_vars PROVE Typed'
  OBVIOUS
<1>1. ASSUME NEW j \in Jobs, Submit(j) PROVE Typed'
  BY <1>1, SubmitTyped
<1>2. ASSUME NEW d \in Slots, DriverStep(d) PROVE Typed'
  BY <1>2, PopTyped, AttemptTyped, SpawnTyped, PublishTyped, WriteTyped, RunTyped, SettleTyped,
     ReapTyped, DecideTyped, ReportTyped, LastTyped DEF DriverStep
<1>3. ASSUME NEW d \in Slots, Spurious(d) \/ Reply(d) \/ Exit(d) PROVE Typed'
  BY <1>3, SpuriousTyped, ReplyTyped, ExitTyped
<1>4. CASE Close
  BY <1>4, CloseTyped
<1>5. CASE ShutdownStep
  BY <1>5, ShutdownTyped
<1>6. CASE UNCHANGED vars
  BY <1>6 DEF Typed, TypeOK, Held, At, vars
<1> QED
  BY <1>1, <1>2, <1>3, <1>4, <1>5, <1>6 DEF Next, Finished

\* Whatever the threads, the children and the owner do, the state is of its type
\* and every driver has the job and the child its next step takes for granted: the
\* expects of attempt, and the job drive reports.
THEOREM AlwaysTyped == Spec => []Typed
  BY InitTyped, StepTyped, PTL DEF Spec

\* The pool's state is of its type: each driver has the job and the child that its next
\* step takes for granted (the expect in attempt).
THEOREM TypeCorrect == Spec => []TypeOK
<1>1. Typed => TypeOK
  BY DEF Typed
<1> QED
  BY <1>1, AlwaysTyped, PTL

-----------------------------------------------------------------------------
(* Where a child is while its driver is elsewhere. *)


\* A child without a published handle is about to get one or to be let go.
Published(d) == child[d] # None /\ d \notin live => driver[d].at \in {"publish", "reap"}

\* A child a job failed on is on its way out.
OnItsWayOut(d) ==
  child[d] # None /\ child[d].spent
    => At(d, "reap") \/ (At(d, "settle") /\ driver[d].outcome # "done")

\* Once the pool is closed every published child is on the list shutdown took, and
\* past the kills all of those are gone.
Known(d) ==
  /\ owner # "using" /\ d \in live => child[d].listed
  /\ owner \in {"join", "over"} /\ d \in live => child[d].gone
  /\ owner = "over" => At(d, "ended")

Kept(d) == Published(d) /\ OnItsWayOut(d) /\ Known(d)

\* The flag is up exactly while shutdown runs or has run: it is looked at and
\* raised under the lock the handles are published under.
Safe == Typed /\ closed = (owner # "using") /\ \A d \in Slots : Kept(d)

-----------------------------------------------------------------------------
(* One driver at a time. *)

LEMMA OneDriverKept ==
  ASSUME Safe, Typed', NEW d \in Slots,
         \A e \in Slots \ {d} : /\ driver'[e] = driver[e] /\ child'[e] = child[e]
                               /\ (e \in live') = (e \in live),
         Kept(d)', UNCHANGED <<closed, owner>>
  PROVE  Safe'
<1>1. ASSUME NEW e \in Slots \ {d} PROVE Kept(e)'
  BY <1>1 DEF Safe, Kept, Published, OnItsWayOut, Known, At
<1> QED
  BY <1>1 DEF Safe

\* A driver that only moves.
LEMMA MovesKept ==
  ASSUME Safe, Typed', NEW d \in Slots, NEW place \in Places, Goes(d, place),
         owner # "over",
         live' = live \/ (live' = live \ {d} /\ place = "reap"),
         child[d] # None /\ d \notin live => place = "reap",
         child[d] # None /\ child[d].spent => place = "reap",
         UNCHANGED <<closed, owner, child>>
  PROVE  Safe'
<1>1. /\ driver'[d].at = place /\ \A e \in Slots \ {d} : driver'[e] = driver[e]
  BY DriverMoves DEF Safe, Typed, TypeOK
<1>2. \A e \in Slots \ {d} : (e \in live') = (e \in live)
  OBVIOUS
<1>3. Kept(d)'
  BY <1>1 DEF Safe, Kept, Published, OnItsWayOut, Known, At
<1> QED
  BY <1>1, <1>2, <1>3, OneDriverKept

\* A driver whose attempt ends, with the child it leaves behind.
LEMMA SettlesKept ==
  ASSUME Safe, Typed', NEW d \in Slots, NEW outcome \in Outcomes, Settles(d, outcome),
         owner # "over",
         NEW c \in Child \cup {None}, child' = [child EXCEPT ![d] = c],
         c # None => d \in live,
         c # None /\ c.spent => outcome # "done",
         d \in live => (child[d].listed => c.listed) /\ (child[d].gone => c.gone),
         UNCHANGED <<closed, owner, live>>
  PROVE  Safe'
<1>1. /\ driver'[d].at = "settle" /\ driver'[d].outcome = outcome
      /\ \A e \in Slots \ {d} : driver'[e] = driver[e]
  BY DriverSettles DEF Safe, Typed, TypeOK
<1>2. child'[d] = c /\ \A e \in Slots \ {d} : child'[e] = child[e]
  BY ChildChanges DEF Safe, Typed, TypeOK
<1>3. Kept(d)'
  BY <1>1, <1>2 DEF Safe, Kept, Published, OnItsWayOut, Known, At
<1> QED
  BY <1>1, <1>2, <1>3, OneDriverKept

\* What is done to a child alone.
LEMMA ChildKept ==
  ASSUME Safe, Typed', NEW d \in Slots, NEW c \in Child, child' = [child EXCEPT ![d] = c],
         child[d] \in Child, c.spent = child[d].spent,
         child[d].listed => c.listed, child[d].gone => c.gone,
         UNCHANGED <<closed, owner, live, driver>>
  PROVE  Safe'
<1>1. child'[d] = c /\ \A e \in Slots \ {d} : child'[e] = child[e]
  BY ChildChanges DEF Safe, Typed, TypeOK
<1>2. child[d] # None
  BY PoolConstants
<1>3. Kept(d)'
  BY <1>1, <1>2 DEF Safe, Kept, Published, OnItsWayOut, Known, At
<1> QED
  BY <1>1, <1>3, OneDriverKept

-----------------------------------------------------------------------------
(* The driver's actions. *)

\* A driver that has ended takes no step, so none is taken once shutdown is over.
LEMMA NotOver == ASSUME Safe, NEW d \in Slots, ~At(d, "ended") PROVE owner # "over"
  BY DEF Safe, Kept, Known

LEMMA PopKept == ASSUME Safe, NEW d \in Slots, Pop(d) PROVE Safe'
<1> USE DEF Safe, Typed, TypeOK
<1>0. Typed'
  BY PopTyped
<1>1. owner # "over"
  BY NotOver DEF Pop, At
<1>2. /\ driver'[d].at \in {"attempt", "last", "parked"}
      /\ \A e \in Slots \ {d} : driver'[e] = driver[e]
  BY DriverMoves DEF Pop, Goes, Places
<1>3. Kept(d)'
  BY <1>1, <1>2 DEF Pop, Kept, Published, OnItsWayOut, Known, At
<1> QED
  BY ONLY <1>0, <1>2, <1>3, Safe, Pop(d), d \in Slots, OneDriverKept DEF Pop

LEMMA AttemptKept == ASSUME Safe, NEW d \in Slots, Attempt(d) PROVE Safe'
<1> USE DEF Safe, Typed, TypeOK
<1>0. Typed'
  BY AttemptTyped
<1>1. owner # "over"
  BY NotOver DEF Attempt, At
<1>2. /\ driver'[d].at = "write" \/ (driver'[d].at \in {"settle", "spawn"} /\ child[d] = None)
      /\ \A e \in Slots \ {d} : driver'[e] = driver[e]
  BY DEF Attempt, Begins
<1>3. Kept(d)'
  BY <1>1, <1>2 DEF Attempt, shared, Kept, Published, OnItsWayOut, Known, At
<1> QED
  BY ONLY <1>0, <1>2, <1>3, Safe, Attempt(d), d \in Slots, OneDriverKept DEF Attempt, shared

LEMMA SpawnKept == ASSUME Safe, NEW d \in Slots, Spawn(d) PROVE Safe'
<1> USE DEF Safe, Typed, TypeOK
<1>0. Typed'
  BY SpawnTyped
<1>1. owner # "over" /\ d \notin live /\ child[d] = None
  BY NotOver DEF Spawn, At, Held, Kept, Published
<1>2. CASE child' = [child EXCEPT ![d] = Warm] /\ Goes(d, "publish")
  <2>1. /\ driver'[d].at = "publish" /\ child'[d] = Warm
        /\ \A e \in Slots \ {d} : driver'[e] = driver[e] /\ child'[e] = child[e]
    BY <1>2, DriverMoves, ChildChanges, WarmIsAChild DEF Places
  <2>2. Kept(d)'
    BY <1>1, <2>1 DEF Spawn, shared, Kept, Published, OnItsWayOut, Known, At, Warm
  <2> QED
    BY <1>0, <2>1, <2>2, OneDriverKept DEF Spawn, shared
<1>3. CASE Settles(d, "final") /\ UNCHANGED child
  BY <1>0, <1>1, <1>3, SettlesKept DEF Spawn, shared, Outcomes
<1> QED
  BY <1>2, <1>3 DEF Spawn

LEMMA PublishKept == ASSUME Safe, NEW d \in Slots, Publish(d) PROVE Safe'
<1> USE DEF Safe, Typed, TypeOK
<1>0. Typed'
  BY PublishTyped
<1>1. owner # "over" /\ d \notin live
  BY NotOver DEF Publish, At, Held
<1>2. CASE closed
  BY <1>0, <1>1, <1>2, SettlesKept DEF Publish, Outcomes
<1>3. CASE ~closed
  <2>1. driver'[d].at = "write" /\ \A e \in Slots \ {d} : driver'[e] = driver[e]
    BY <1>3, DriverMoves DEF Publish, Places
  <2>2. Kept(d)'
    BY <1>3, <2>1 DEF Publish, Kept, Published, OnItsWayOut, Known, At
  <2> QED
    BY <1>0, <1>3, <2>1, <2>2, OneDriverKept DEF Publish
<1> QED
  BY <1>2, <1>3
LEMMA FailsKept ==
  ASSUME Safe, Typed', NEW d \in Slots, NEW outcome \in {"again", "final"}, Fails(d, outcome),
         driver[d].at \in WithAChild \ {"publish"}, UNCHANGED <<shared, owner>>
  PROVE  Safe'
<1> USE DEF Safe, Typed, TypeOK
<1>1. child[d] \in Child /\ d \in live /\ owner # "over"
  BY NotOver DEF Held, At, WithAChild, Kept, Published
<1>2. PICK c \in Child : /\ child' = [child EXCEPT ![d] = c]
                         /\ child[d].listed => c.listed
                         /\ child[d].gone => c.gone
  <2>1. [child[d] EXCEPT !.reply = None, !.spent = TRUE, !.gone = TRUE] \in Child
    BY <1>1 DEF Child
  <2> QED
    BY <1>1, <2>1 DEF Fails, Child
<1>3. outcome \in Outcomes /\ outcome # "done" /\ Settles(d, outcome)
  BY DEF Fails, Outcomes
<1>4. UNCHANGED <<closed, owner, live>>
  BY DEF shared
<1> QED
  BY ONLY <1>1, <1>2, <1>3, <1>4, Safe, Typed', d \in Slots, SettlesKept

LEMMA WriteKept == ASSUME Safe, NEW d \in Slots, Write(d) PROVE Safe'
<1> USE DEF Safe, Typed, TypeOK
<1>0. Typed'
  BY WriteTyped
<1>1. CASE child[d].eof
  BY <1>0, <1>1, FailsKept DEF Write, At, WithAChild
<1>2. CASE ~child[d].eof
  <2>1. /\ d \in live /\ owner # "over"
        /\ ~child[d].spent
    BY NotOver DEF Write, Held, At, WithAChild, Kept, Published, OnItsWayOut
  <2> QED
    BY <1>0, <1>2, <2>1, MovesKept DEF Write, shared, Places
<1> QED
  BY <1>1, <1>2

LEMMA RunKept == ASSUME Safe, NEW d \in Slots, Run(d) PROVE Safe'
<1> USE DEF Safe, Typed, TypeOK
<1>0. Typed'
  BY RunTyped
<1>1. child[d] \in Child /\ d \in live /\ owner # "over"
  BY NotOver DEF Run, Held, At, WithAChild, Kept, Published
<1>2. CASE Answered(d)
  <2>1. child[d].reply \in Outcomes
    BY <1>1, <1>2 DEF Answered, Child, Outcomes
  <2>2. PICK c \in Child : /\ child' = [child EXCEPT ![d] = c]
                           /\ child[d].listed => c.listed
                           /\ child[d].gone => c.gone
                           /\ c.spent => child[d].reply # "done"
    <3>1. [child[d] EXCEPT !.reply = None, !.spent = child[d].reply # "done"] \in Child
      BY <1>1 DEF Child
    <3> QED
      BY <1>1, <1>2, <3>1 DEF Answered, Child
  <2> QED
    BY <1>0, <1>1, <1>2, <2>1, <2>2, SettlesKept DEF Run, Answered, shared
<1>3. ASSUME NEW outcome \in {"again", "final"}, Fails(d, outcome) PROVE Safe'
  BY <1>0, <1>3, FailsKept DEF Run, At, WithAChild
<1> QED
  BY <1>2, <1>3 DEF Run

LEMMA SettleKept == ASSUME Safe, NEW d \in Slots, Settle(d) PROVE Safe'
<1>0. Typed'
  BY SettleTyped DEF Safe
<1>1. owner # "over"
  BY NotOver DEF Settle, At
<1> QED
  BY <1>0, <1>1, MovesKept DEF Settle, Safe, Kept, Published, OnItsWayOut, At, Places

LEMMA ReapKept == ASSUME Safe, NEW d \in Slots, Reap(d) PROVE Safe'
<1> USE DEF Safe, Typed, TypeOK
<1>0. Typed'
  BY ReapTyped
<1>1. owner # "over" /\ d \notin live
  BY NotOver DEF Reap, At, Held
<1>2. /\ child'[d] = None
      /\ \A e \in Slots \ {d} : driver'[e] = driver[e] /\ child'[e] = child[e]
  BY DEF Reap, Goes
<1>3. Kept(d)'
  BY <1>1, <1>2 DEF Reap, shared, Kept, Published, OnItsWayOut, Known
<1> QED
  BY <1>0, <1>2, <1>3, OneDriverKept DEF Reap, shared

LEMMA DecideKept == ASSUME Safe, NEW d \in Slots, Decide(d) PROVE Safe'
<1>0. Typed'
  BY DecideTyped DEF Safe
<1>1. owner # "over"
  BY NotOver DEF Decide, At
<1>2. /\ child[d] # None => d \in live
      /\ child[d] # None => ~child[d].spent
  BY DEF Decide, Safe, Kept, Published, OnItsWayOut, At
<1> QED
  BY <1>0, <1>1, <1>2, MovesKept DEF Decide, shared, Places

LEMMA ReportKept == ASSUME Safe, NEW d \in Slots, Report(d) PROVE Safe'
<1> USE DEF Safe, Typed, TypeOK
<1>0. Typed'
  BY ReportTyped
<1>1. owner # "over"
  BY NotOver DEF Report, At
<1>2. /\ child[d] # None => d \in live
      /\ child[d] # None => ~child[d].spent
  BY DEF Report, Kept, Published, OnItsWayOut, At
<1>3. driver'[d].at = "pop" /\ \A e \in Slots \ {d} : driver'[e] = driver[e]
  BY DriverIsFree DEF Report
<1>4. Kept(d)'
  BY <1>1, <1>2, <1>3 DEF Report, shared, Kept, Published, OnItsWayOut, Known
<1> QED
  BY <1>0, <1>3, <1>4, OneDriverKept DEF Report, shared

LEMMA LastKept == ASSUME Safe, NEW d \in Slots, Last(d) PROVE Safe'
<1>0. Typed'
  BY LastTyped DEF Safe
<1>1. owner # "over"
  BY NotOver DEF Last, At
<1> QED
  BY <1>0, <1>1, MovesKept DEF Last, Places

LEMMA SpuriousKept == ASSUME Safe, NEW d \in Slots, Spurious(d) PROVE Safe'
<1>0. Typed'
  BY SpuriousTyped DEF Safe
<1>1. owner # "over"
  BY NotOver DEF Spurious, At
<1>2. /\ child[d] # None => d \in live
      /\ child[d] # None => ~child[d].spent
  BY DEF Spurious, Safe, Kept, Published, OnItsWayOut, At
<1> QED
  BY <1>0, <1>1, <1>2, MovesKept DEF Spurious, shared, Places

-----------------------------------------------------------------------------
(* The children's and the owner's. *)

LEMMA ReplyKept == ASSUME Safe, NEW d \in Slots, Reply(d) PROVE Safe'
<1>0. Typed'
  BY ReplyTyped DEF Safe
<1>1. child[d] \in Child
  BY DEF Reply, Safe, Typed, TypeOK, Held, At, WithAChild
<1>2. PICK reply \in {"done", "again", "final"} : child' = [child EXCEPT ![d].reply = reply]
  BY DEF Reply
<1>3. [child[d] EXCEPT !.reply = reply] \in Child
  BY <1>1, <1>2 DEF Child
<1> QED
  BY <1>0, <1>1, <1>2, <1>3, ChildKept DEF Reply, shared, Child

LEMMA ExitKept == ASSUME Safe, NEW d \in Slots, Exit(d) PROVE Safe'
<1>0. Typed'
  BY ExitTyped DEF Safe
<1>1. child[d] \in Child
  BY DEF Exit, Safe, Typed, TypeOK
<1>2. [child[d] EXCEPT !.gone = TRUE] \in Child
  BY <1>1 DEF Child
<1> QED
  BY <1>0, <1>1, <1>2, ChildKept DEF Exit, shared, Child

\* A driver woken for a job changes in nothing the invariant looks at.
LEMMA SubmitKept == ASSUME Safe, NEW j \in Jobs, Submit(j) PROVE Safe'
<1> USE DEF Safe, Typed, TypeOK
<1>0. Typed'
  BY SubmitTyped
<1>1. ASSUME NEW d \in Slots PROVE Kept(d)'
  BY <1>1, SomebodyIsWoken DEF Submit, Kept, Published, OnItsWayOut, Known, At
<1> QED
  BY <1>0, <1>1 DEF Submit

LEMMA CloseKept == ASSUME Safe, Close PROVE Safe'
<1> USE DEF Safe, Typed, TypeOK
<1>0. Typed'
  BY CloseTyped
<1>1. ASSUME NEW d \in Slots PROVE Kept(d)'
  <2>1. /\ driver'[d].outcome = driver[d].outcome
        /\ driver'[d].at = driver[d].at \/ (At(d, "parked") /\ driver'[d].at = "woken")
    BY DEF Close, ListAndWake, Parked, At, Driver
  <2>2. CASE d \in live
    <3>1. child[d] \in Child
      BY <2>2 DEF Held
    <3>2. /\ child'[d] \in Child
          /\ child'[d].listed /\ child'[d].spent = child[d].spent
      BY <2>2, <3>1 DEF Close, ListAndWake, Child
    <3>3. child[d] # None
      BY <3>1, PoolConstants
    <3> QED
      BY <2>1, <2>2, <3>2, <3>3 DEF Close, Kept, Published, OnItsWayOut, Known, At
  <2>3. CASE d \notin live
    <3>1. child'[d] = child[d]
      BY <2>3 DEF Close, ListAndWake
    <3> QED
      BY <2>1, <2>3, <3>1 DEF Close, Kept, Published, OnItsWayOut, Known, At
  <2> QED
    BY <2>2, <2>3
<1> QED
  BY <1>0, <1>1 DEF Close

LEMMA CloseStdinKept == ASSUME Safe, CloseStdin PROVE Safe'
<1>0. Typed'
  BY ShutdownTyped DEF Safe, ShutdownStep
<1>1. ASSUME NEW d \in Slots, Listed(d), child' = [child EXCEPT ![d].eof = TRUE], UNCHANGED owner
      PROVE  Safe'
  <2>1. child[d] \in Child
    BY <1>1 DEF Listed, Safe, Typed, TypeOK
  <2>2. [child[d] EXCEPT !.eof = TRUE] \in Child
    BY <2>1 DEF Child
  <2> QED
    BY <1>0, <1>1, <2>1, <2>2, ChildKept DEF CloseStdin, shared, Child
<1>2. CASE owner' = "grace" /\ UNCHANGED child
  BY <1>0, <1>2 DEF CloseStdin, Safe, shared, Kept, Published, OnItsWayOut, Known, At
<1> QED
  BY <1>1, <1>2 DEF CloseStdin

LEMMA GraceKept == ASSUME Safe, GraceEnds PROVE Safe'
<1>0. Typed'
  BY ShutdownTyped DEF Safe, ShutdownStep
<1> QED
  BY <1>0 DEF GraceEnds, Safe, shared, Kept, Published, OnItsWayOut, Known, At

LEMMA KillKept == ASSUME Safe, Kill PROVE Safe'
<1>0. Typed'
  BY ShutdownTyped DEF Safe, ShutdownStep
<1>1. ASSUME NEW d \in Slots, Listed(d), child' = [child EXCEPT ![d].gone = TRUE], UNCHANGED owner
      PROVE  Safe'
  <2>1. child[d] \in Child
    BY <1>1 DEF Listed, Safe, Typed, TypeOK
  <2>2. [child[d] EXCEPT !.gone = TRUE] \in Child
    BY <2>1 DEF Child
  <2> QED
    BY <1>0, <1>1, <2>1, <2>2, ChildKept DEF Kill, shared, Child
<1>2. CASE owner' = "join" /\ UNCHANGED child /\ \A d \in Slots : Listed(d) => child[d].gone
  <2>1. ASSUME NEW d \in Slots, d \in live PROVE child[d].gone
    BY <1>2, <2>1 DEF Kill, Listed, Safe, Typed, Held, Kept, Known
  <2> QED
    BY <1>0, <1>2, <2>1 DEF Kill, Safe, shared, Kept, Published, OnItsWayOut, Known, At
<1> QED
  BY <1>1, <1>2 DEF Kill

LEMMA JoinKept == ASSUME Safe, Join PROVE Safe'
<1>0. Typed'
  BY ShutdownTyped DEF Safe, ShutdownStep
<1> QED
  BY <1>0 DEF Join, Safe, shared, Kept, Published, OnItsWayOut, Known, At

-----------------------------------------------------------------------------
(* The invariant, and what it says. *)

LEMMA InitSafe == Init => Safe
<1> SUFFICES ASSUME Init PROVE Safe
  OBVIOUS
<1>1. closed = (owner # "using")
  BY DEF Init
<1>2. ASSUME NEW d \in Slots PROVE Kept(d)
  <2>1. ~child[d].spent
    BY <1>2 DEF Init, Warm
  <2> QED
    BY <1>2, <2>1 DEF Init, Kept, Published, OnItsWayOut, Known
<1> QED
  BY <1>1, <1>2, InitTyped DEF Safe

LEMMA StepSafe == Safe /\ [Next]_vars => Safe'
<1> SUFFICES ASSUME Safe, [Next]_vars PROVE Safe'
  OBVIOUS
<1>1. ASSUME NEW j \in Jobs, Submit(j) PROVE Safe'
  BY <1>1, SubmitKept
<1>2. ASSUME NEW d \in Slots, DriverStep(d) PROVE Safe'
  BY <1>2, PopKept, AttemptKept, SpawnKept, PublishKept, WriteKept, RunKept, SettleKept,
     ReapKept, DecideKept, ReportKept, LastKept DEF DriverStep
<1>3. ASSUME NEW d \in Slots, Spurious(d) \/ Reply(d) \/ Exit(d) PROVE Safe'
  BY <1>3, SpuriousKept, ReplyKept, ExitKept
<1>4. CASE Close
  BY <1>4, CloseKept
<1>5. CASE ShutdownStep
  BY <1>5, CloseStdinKept, GraceKept, KillKept, JoinKept DEF ShutdownStep
<1>6. CASE UNCHANGED vars
  <2>1. Typed'
    BY <1>6, StepTyped DEF Safe
  <2> QED
    BY <1>6, <2>1 DEF Safe, Kept, Published, OnItsWayOut, Known, At, vars
<1> QED
  BY <1>1, <1>2, <1>3, <1>4, <1>5, <1>6 DEF Next, Finished

LEMMA AlwaysSafe == Spec => []Safe
  BY InitSafe, StepSafe, PTL DEF Spec

\* Clause 5 of the pool's contract, for any number of workers and attempts: a job is
\* never written to, or waited for on, a child that has failed one (drive, attempt).
THEOREM FreshWorkerForARetry == Spec => []NoSpentWorker
<1>1. Safe => NoSpentWorker
  BY DEF Safe, Typed, Held, WithAChild, Kept, OnItsWayOut, At, NoSpentWorker
<1> QED
  BY <1>1, AlwaysSafe, PTL

\* A child started beside the shutdown is on its list, or is never given a job: when
\* the drivers are joined none waits on a child that is still there, and when
\* shutdown returns no child is left (Shared, Pool::shutdown).
THEOREM ShutdownLeavesNoChild == Spec => []ShutdownKillsFirst
<1>1. ASSUME Safe PROVE ShutdownKillsFirst
  <2>1. ASSUME owner = "join", NEW d \in Slots, driver[d].at \in {"write", "work"}
        PROVE  child[d].gone
    BY <1>1, <2>1 DEF Safe, Typed, Held, WithAChild, Kept, Published, Known, At
  <2>2. ASSUME owner = "over", NEW d \in Slots PROVE child[d] = None
    BY <1>1, <2>2 DEF Safe, Typed, Held, Kept, Published, Known, At
  <2> QED
    BY <2>1, <2>2 DEF ShutdownKillsFirst
<1> QED
  BY <1>1, AlwaysSafe, PTL

-----------------------------------------------------------------------------
(* No job is lost and none is doubled: an accepted job is in exactly one    *)
(* place.  The places are counted, so the lemmas say what the operations on *)
(* queues and drivers do to counts.  From it, and from where a driver is    *)
(* when shutdown is over, the pool implements PoseService.                  *)

\* A driver that is between jobs holds none.  Nothing is handed back before the
\* shutdown, and nothing waits after it has begun.
BetweenJobs == {"pop", "parked", "woken", "last", "ended"}

Counted ==
  /\ Typed
  /\ EachJobOnce
  /\ \A d \in Slots : driver[d].at \in BetweenJobs => driver[d].job = None
  /\ owner = "using" => returned = <<>>
  /\ owner # "using" => waiting = <<>>

-----------------------------------------------------------------------------
(* Counting. *)

LEMMA QueuesAreFinite ==
  ASSUME NEW j, NEW q \in Seq(Jobs)
  PROVE  IsFiniteSet(Where(j, q)) /\ Cardinality(Where(j, q)) \in Nat
<1>1. IsFiniteSet(1..Len(q)) /\ Where(j, q) \in SUBSET (1..Len(q))
  BY FS_Interval DEF Where
<1> QED
  BY <1>1, FS_Subset, FS_CardinalityType

LEMMA EmptyCounts == ASSUME NEW j PROVE Cardinality(Where(j, <<>>)) = 0
<1>1. Where(j, <<>>) = {}
  BY DEF Where
<1> QED
  BY <1>1, FS_EmptySet

LEMMA AppendCounts ==
  ASSUME NEW j, NEW q \in Seq(Jobs), NEW x \in Jobs
  PROVE  Cardinality(Where(j, Append(q, x)))
           = Cardinality(Where(j, q)) + (IF x = j THEN 1 ELSE 0)
<1>1. CASE x = j
  <2>1. Where(j, Append(q, x)) = Where(j, q) \cup {Len(q) + 1} /\ Len(q) + 1 \notin Where(j, q)
    BY <1>1 DEF Where
  <2> QED
    BY <1>1, <2>1, QueuesAreFinite, FS_AddElement
<1>2. CASE x # j
  <2>1. Where(j, Append(q, x)) = Where(j, q)
    BY <1>2 DEF Where
  <2> QED
    BY <1>2, <2>1, QueuesAreFinite
<1> QED
  BY <1>1, <1>2

LEMMA TailCounts ==
  ASSUME NEW j, NEW q \in Seq(Jobs), q # <<>>
  PROVE  Cardinality(Where(j, q)) = Cardinality(Where(j, Tail(q))) + (IF Head(q) = j THEN 1 ELSE 0)
<1> DEFINE Behind == Where(j, q) \ {1}
<1>1. Tail(q) \in Seq(Jobs) /\ Len(Tail(q)) = Len(q) - 1 /\ Len(q) \in Nat
  OBVIOUS
<1>2. \A i \in 1..(Len(q) - 1) : Tail(q)[i] = q[i + 1]
  OBVIOUS
<1>3. DOMAIN Tail(q) = 1..(Len(q) - 1) /\ DOMAIN q = 1..Len(q)
  BY <1>1
<1>4. Cardinality(Behind) = Cardinality(Where(j, Tail(q)))
  <2> DEFINE back == [i \in Where(j, Tail(q)) |-> i + 1]
  <2>1. back \in [Where(j, Tail(q)) -> Behind]
    BY <1>1, <1>2, <1>3 DEF Where
  <2>2. \A i, k \in Where(j, Tail(q)) : back[i] = back[k] => i = k
    BY <1>1, <1>3 DEF Where
  <2>3. ASSUME NEW k \in Behind PROVE \E i \in Where(j, Tail(q)) : back[i] = k
    <3>1. k - 1 \in Where(j, Tail(q)) /\ (k - 1) + 1 = k
      BY <1>1, <1>2, <1>3, <2>3 DEF Where
    <3> QED
      BY <3>1
  <2>4. back \in Bijection(Where(j, Tail(q)), Behind)
    BY <2>1, <2>2, <2>3 DEF Bijection, Injection, Surjection, IsInjective
  <2>5. IsFiniteSet(Where(j, Tail(q)))
    BY <1>1, QueuesAreFinite
  <2>6. ExistsBijection(Where(j, Tail(q)), Behind)
    BY <2>4 DEF ExistsBijection
  <2> HIDE DEF Behind
  <2> QED
    BY <2>5, <2>6, FS_Bijection
<1>5. Head(q) = q[1] /\ 1 \in DOMAIN q
  BY <1>3
<1>6. (1 \in Where(j, q)) <=> Head(q) = j
  BY <1>5 DEF Where
<1>7. IsFiniteSet(Where(j, q)) /\ Cardinality(Where(j, q)) \in Nat
  BY QueuesAreFinite
<1>8. Cardinality(Behind)
        = IF 1 \in Where(j, q) THEN Cardinality(Where(j, q)) - 1 ELSE Cardinality(Where(j, q))
  BY <1>7, FS_RemoveElement
<1> QED
  BY ONLY <1>4, <1>6, <1>7, <1>8

LEMMA HoldersAreFinite ==
  ASSUME NEW j PROVE IsFiniteSet(Holders(j)) /\ Cardinality(Holders(j)) \in Nat
<1>1. Holders(j) \in SUBSET Slots
  BY DEF Holders
<1> QED
  BY <1>1, PoolConstants, FS_Subset, FS_CardinalityType

\* A driver that had no job takes one, and one that had one gives it up.
LEMMA HolderComes ==
  ASSUME NEW j \in Jobs, NEW d \in Slots, driver[d].job = None,
         \A e \in Slots \ {d} : driver'[e].job = driver[e].job
  PROVE  Cardinality(Holders(j)') = Cardinality(Holders(j)) + (IF driver'[d].job = j THEN 1 ELSE 0)
<1>0. d \notin Holders(j)
  BY PoolConstants DEF Holders
<1>1. CASE driver'[d].job = j
  <2>1. Holders(j)' = Holders(j) \cup {d}
    BY <1>1 DEF Holders
  <2> QED
    BY <1>0, <1>1, <2>1, HoldersAreFinite, FS_AddElement
<1>2. CASE driver'[d].job # j
  <2>1. Holders(j)' = Holders(j)
    BY <1>0, <1>2 DEF Holders
  <2> QED
    BY <1>2, <2>1, HoldersAreFinite
<1> QED
  BY <1>1, <1>2

LEMMA HolderGoes ==
  ASSUME NEW j \in Jobs, NEW d \in Slots, driver'[d].job = None,
         \A e \in Slots \ {d} : driver'[e].job = driver[e].job
  PROVE  Cardinality(Holders(j)) = Cardinality(Holders(j)') + (IF driver[d].job = j THEN 1 ELSE 0)
<1>0. Holders(j)' = Holders(j) \ {d}
  BY PoolConstants DEF Holders
<1>1. (d \in Holders(j)) <=> driver[d].job = j
  BY DEF Holders
<1>2. IsFiniteSet(Holders(j)) /\ Cardinality(Holders(j)) \in Nat
  BY HoldersAreFinite
<1>3. Cardinality(Holders(j) \ {d})
        = IF d \in Holders(j) THEN Cardinality(Holders(j)) - 1 ELSE Cardinality(Holders(j))
  BY <1>2, FS_RemoveElement
<1> QED
  BY ONLY <1>0, <1>1, <1>2, <1>3
-----------------------------------------------------------------------------
(* The steps. *)

\* A step that leaves the queues, what is accepted and every driver's job alone.
LEMMA JobsStay ==
  ASSUME Counted, Typed', UNCHANGED <<waiting, results, returned, accepted>>,
         \A e \in Slots : driver'[e].job = driver[e].job,
         \A e \in Slots : driver'[e].at \in BetweenJobs => driver[e].job = None,
         owner' = "using" <=> owner = "using"
  PROVE  Counted'
<1>1. ASSUME NEW j \in Jobs PROVE Copies(j)' = Copies(j)
  <2>1. Holders(j)' = Holders(j)
    BY DEF Holders
  <2> QED
    BY <2>1 DEF Copies, Where
<1>2. EachJobOnce'
  BY <1>1 DEF Counted, EachJobOnce
<1> QED
  BY <1>2 DEF Counted

LEMMA SubmitCounted == ASSUME Counted, NEW j \in Jobs, Submit(j) PROVE Counted'
<1> USE DEF Counted, Typed, TypeOK
<1>0. Typed'
  BY SubmitTyped
<1>1. \A d \in Slots : /\ driver'[d].job = driver[d].job
                       /\ driver'[d].at = driver[d].at \/ driver[d].at = "parked"
  BY SomebodyIsWoken DEF Submit
<1>2. ASSUME NEW k \in Jobs PROVE Copies(k)' = Copies(k) + (IF j = k THEN 1 ELSE 0)
  <2>1. Holders(k)' = Holders(k)
    BY <1>1 DEF Holders
  <2>2. Cardinality(Where(k, waiting')) = Cardinality(Where(k, waiting)) + (IF j = k THEN 1 ELSE 0)
    BY AppendCounts DEF Submit
  <2>3. /\ Cardinality(Where(k, waiting)) \in Nat /\ Cardinality(Where(k, results)) \in Nat
        /\ Cardinality(Where(k, returned)) \in Nat /\ Cardinality(Holders(k)) \in Nat
    BY QueuesAreFinite, HoldersAreFinite
  <2>4. results' = results /\ returned' = returned
    BY DEF Submit
  <2>5. Copies(k)' = Cardinality(Where(k, waiting')) + Cardinality(Holders(k))
                       + Cardinality(Where(k, results)) + Cardinality(Where(k, returned))
    BY <2>1, <2>4 DEF Copies, Where
  <2> QED
    BY ONLY <2>2, <2>3, <2>5 DEF Copies
<1>3. EachJobOnce'
  BY <1>2 DEF EachJobOnce, Submit
<1>4. \A d \in Slots : driver'[d].at \in BetweenJobs => driver'[d].job = None
  BY <1>1 DEF BetweenJobs
<1> QED
  BY <1>0, <1>3, <1>4 DEF Submit

LEMMA PopCounted == ASSUME Counted, NEW d \in Slots, Pop(d) PROVE Counted'
<1> USE DEF Counted, Typed, TypeOK
<1>0. Typed'
  BY PopTyped
<1>1. driver[d].job = None
  BY DEF Pop, BetweenJobs
<1>2. CASE waiting # <<>> /\ waiting' = Tail(waiting)
           /\ driver' = [driver EXCEPT ![d] =
                [at |-> "attempt", job |-> Head(waiting), attempts |-> 0, outcome |-> None]]
  <2>1. /\ driver'[d].job = Head(waiting) /\ driver'[d].at = "attempt"
        /\ \A e \in Slots \ {d} : driver'[e] = driver[e]
    BY <1>2
  <2>2. ASSUME NEW k \in Jobs PROVE Copies(k)' = Copies(k)
    <3>1. Cardinality(Holders(k)') = Cardinality(Holders(k)) + (IF Head(waiting) = k THEN 1 ELSE 0)
      BY <1>1, <2>1, HolderComes
    <3>2. Cardinality(Where(k, waiting))
            = Cardinality(Where(k, waiting')) + (IF Head(waiting) = k THEN 1 ELSE 0)
      BY <1>2, TailCounts
    <3>3. waiting' \in Seq(Jobs) /\ results' = results /\ returned' = returned
      BY <1>0 DEF Pop
    <3>4. /\ Cardinality(Where(k, waiting')) \in Nat /\ Cardinality(Where(k, results)) \in Nat
          /\ Cardinality(Where(k, returned)) \in Nat /\ Cardinality(Holders(k)) \in Nat
      BY <3>3, QueuesAreFinite, HoldersAreFinite
    <3>5. Copies(k)' = Cardinality(Where(k, waiting')) + Cardinality(Holders(k)')
                         + Cardinality(Where(k, results)) + Cardinality(Where(k, returned))
      BY <3>3 DEF Copies, Where
    <3> QED
      BY ONLY <3>1, <3>2, <3>4, <3>5 DEF Copies
  <2>3. EachJobOnce'
    BY <2>2 DEF EachJobOnce, Pop
  <2>4. \A e \in Slots : driver'[e].at \in BetweenJobs => driver'[e].job = None
    BY <2>1 DEF BetweenJobs
  <2> QED
    BY <1>0, <2>3, <2>4 DEF Pop
<1>3. ASSUME NEW place \in {"last", "parked"}, Goes(d, place), UNCHANGED waiting PROVE Counted'
  <2>1. /\ driver'[d].job = driver[d].job
        /\ \A e \in Slots \ {d} : driver'[e] = driver[e]
    BY <1>3, DriverMoves DEF Places
  <2> QED
    BY <1>0, <1>1, <1>3, <2>1, JobsStay DEF Pop
<1> QED
  BY <1>2, <1>3 DEF Pop

LEMMA ReportCounted == ASSUME Counted, NEW d \in Slots, Report(d) PROVE Counted'
<1> USE DEF Counted, Typed, TypeOK
<1>0. Typed'
  BY ReportTyped
<1>1. driver[d].job \in Jobs
  BY DEF Report, Held, At, InAJob, Driver
<1>2. /\ driver'[d].job = None
      /\ \A e \in Slots \ {d} : driver'[e] = driver[e]
  BY DriverIsFree DEF Report
<1>3. ASSUME NEW k \in Jobs PROVE Copies(k)' = Copies(k)
  <2>1. Cardinality(Holders(k)) = Cardinality(Holders(k)') + (IF driver[d].job = k THEN 1 ELSE 0)
    BY <1>2, HolderGoes
  <2>2. Cardinality(Where(k, results'))
          = Cardinality(Where(k, results)) + (IF driver[d].job = k THEN 1 ELSE 0)
    BY <1>1, AppendCounts DEF Report
  <2>3. waiting' = waiting /\ returned' = returned
    BY DEF Report, shared
  <2>4. /\ Cardinality(Where(k, waiting)) \in Nat /\ Cardinality(Where(k, results)) \in Nat
        /\ Cardinality(Where(k, returned)) \in Nat /\ Cardinality(Holders(k)) \in Nat
    BY QueuesAreFinite, HoldersAreFinite
  <2>5. Cardinality(Holders(k)') \in Nat
    <3>1. Holders(k)' \in SUBSET Slots
      BY DEF Holders
    <3> QED
      BY <3>1, PoolConstants, FS_Subset, FS_CardinalityType
  <2>6. Copies(k)' = Cardinality(Where(k, waiting)) + Cardinality(Holders(k)')
                       + Cardinality(Where(k, results')) + Cardinality(Where(k, returned))
    BY <2>3 DEF Copies, Where
  <2> QED
    BY ONLY <2>1, <2>2, <2>4, <2>5, <2>6 DEF Copies
<1>4. EachJobOnce'
  BY <1>3 DEF EachJobOnce, Report
<1>5. \A e \in Slots : driver'[e].at \in BetweenJobs => driver'[e].job = None
  BY <1>2
<1> QED
  BY <1>0, <1>4, <1>5 DEF Report, shared

LEMMA CloseCounted == ASSUME Counted, Close PROVE Counted'
<1> USE DEF Counted, Typed, TypeOK
<1>0. Typed'
  BY CloseTyped
<1>1. \A d \in Slots : /\ driver'[d].job = driver[d].job
                       /\ driver'[d].at = driver[d].at \/ driver[d].at = "parked"
  BY DEF Close, ListAndWake, Parked, At, Driver
<1>2. ASSUME NEW k \in Jobs PROVE Copies(k)' = Copies(k)
  <2>1. Holders(k)' = Holders(k)
    BY <1>1 DEF Holders
  <2>2. returned = <<>> /\ returned' = waiting /\ waiting' = <<>> /\ results' = results
    BY DEF Close
  <2>3. Cardinality(Where(k, <<>>)) = 0
    BY EmptyCounts
  <2>4. /\ Cardinality(Where(k, waiting)) \in Nat /\ Cardinality(Where(k, results)) \in Nat
        /\ Cardinality(Holders(k)) \in Nat
    BY QueuesAreFinite, HoldersAreFinite
  <2>5. Copies(k)' = Cardinality(Where(k, <<>>)) + Cardinality(Holders(k))
                       + Cardinality(Where(k, results)) + Cardinality(Where(k, waiting))
    BY <2>1, <2>2 DEF Copies, Where
  <2>6. Copies(k) = Cardinality(Where(k, waiting)) + Cardinality(Holders(k))
                      + Cardinality(Where(k, results)) + Cardinality(Where(k, <<>>))
    BY <2>2 DEF Copies
  <2> QED
    BY ONLY <2>3, <2>4, <2>5, <2>6
<1>3. EachJobOnce'
  BY <1>2 DEF EachJobOnce, Close
<1>4. \A d \in Slots : driver'[d].at \in BetweenJobs => driver'[d].job = None
  BY <1>1 DEF BetweenJobs
<1> QED
  BY <1>0, <1>3, <1>4 DEF Close
\* The other actions of a driver: it keeps its job, and is between jobs after only if
\* it has none.
LEMMA DriverCounted ==
  ASSUME Counted, NEW d \in Slots, DriverStep(d) PROVE Counted'
<1> USE DEF Counted, Typed, TypeOK
<1>0. Typed'
  BY StepTyped DEF Next
<1>1. ASSUME NEW place \in Places \ BetweenJobs, Goes(d, place),
             UNCHANGED <<waiting, owner, results, returned, accepted>>
      PROVE  Counted'
  <2>1. /\ driver'[d].at = place /\ driver'[d].job = driver[d].job
        /\ \A e \in Slots \ {d} : driver'[e] = driver[e]
    BY <1>1, DriverMoves
  <2> QED
    BY <1>0, <1>1, <2>1, JobsStay
<1>2. ASSUME NEW outcome \in Outcomes, Settles(d, outcome),
             UNCHANGED <<waiting, owner, results, returned, accepted>>
      PROVE  Counted'
  <2>1. /\ driver'[d].at = "settle" /\ driver'[d].job = driver[d].job
        /\ \A e \in Slots \ {d} : driver'[e] = driver[e]
    BY <1>2, DriverSettles
  <2> QED
    BY <1>0, <1>2, <2>1, JobsStay DEF BetweenJobs
<1>3. CASE Pop(d)
  BY <1>3, PopCounted
<1>4. CASE Attempt(d)
  <2>1. /\ driver'[d].at \notin BetweenJobs /\ driver'[d].job = driver[d].job
        /\ \A e \in Slots \ {d} : driver'[e] = driver[e]
    BY <1>4 DEF Attempt, Begins, BetweenJobs
  <2> QED
    BY <1>0, <1>4, <2>1, JobsStay DEF Attempt, shared
<1>5. CASE Spawn(d)
  BY <1>1, <1>2, <1>5 DEF Spawn, shared, Places, BetweenJobs, Outcomes
<1>6. CASE Publish(d)
  BY <1>1, <1>2, <1>6 DEF Publish, Places, BetweenJobs, Outcomes
<1>7. CASE Write(d)
  BY <1>1, <1>2, <1>7 DEF Write, Fails, shared, Places, BetweenJobs, Outcomes
<1>8. CASE Run(d)
  <2>1. child[d] \in Child
    BY <1>8 DEF Run, Held, At, WithAChild
  <2>2. CASE Answered(d)
    <3>1. child[d].reply \in Outcomes
      BY <2>1, <2>2 DEF Answered, Child, Outcomes
    <3> QED
      BY <1>2, <1>8, <2>2, <3>1 DEF Run, Answered, shared
  <2> QED
    BY <1>2, <1>8, <2>2 DEF Run, Fails, shared, Outcomes
<1>9. CASE Settle(d) \/ Last(d)
  BY <1>1, <1>9 DEF Settle, Last, Places, BetweenJobs
<1>10. CASE Reap(d)
  <2>1. PICK place \in {"ended", "decide"} : Goes(d, place) /\ (place = "ended" => driver[d].job = None)
    BY <1>10 DEF Reap
  <2>2. /\ driver'[d].at = place /\ driver'[d].job = driver[d].job
        /\ \A e \in Slots \ {d} : driver'[e] = driver[e]
    BY <2>1, DriverMoves DEF Places
  <2> QED
    BY <1>0, <1>10, <2>1, <2>2, JobsStay DEF Reap, shared, BetweenJobs
<1>11. CASE Decide(d)
  BY <1>1, <1>11 DEF Decide, shared, Places, BetweenJobs
<1>12. CASE Report(d)
  BY <1>12, ReportCounted
<1> QED
  BY <1>3, <1>4, <1>5, <1>6, <1>7, <1>8, <1>9, <1>10, <1>11, <1>12 DEF DriverStep

LEMMA InitCounted == Init => Counted
<1> SUFFICES ASSUME Init PROVE Counted
  OBVIOUS
<1>1. ASSUME NEW j \in Jobs PROVE Copies(j) = 0
  <2>1. Holders(j) = {}
    BY PoolConstants DEF Init, Holders
  <2> QED
    BY <2>1, EmptyCounts, FS_EmptySet DEF Init, Copies
<1>2. EachJobOnce
  BY <1>1 DEF Init, EachJobOnce
<1> QED
  BY <1>2, InitTyped DEF Init, Counted

LEMMA StepCounted == Counted /\ [Next]_vars => Counted'
<1> SUFFICES ASSUME Counted, [Next]_vars PROVE Counted'
  OBVIOUS
<1>0. Typed'
  BY StepTyped DEF Counted
<1>1. ASSUME NEW j \in Jobs, Submit(j) PROVE Counted'
  BY <1>1, SubmitCounted
<1>2. ASSUME NEW d \in Slots, DriverStep(d) PROVE Counted'
  BY <1>2, DriverCounted
<1>3. ASSUME NEW d \in Slots, Spurious(d) PROVE Counted'
  <2>1. /\ driver'[d].job = driver[d].job /\ driver[d].at = "parked"
        /\ \A e \in Slots \ {d} : driver'[e] = driver[e]
    BY <1>3, DriverMoves DEF Spurious, At, Places, Counted, Typed, TypeOK
  <2> QED
    BY <1>0, <1>3, <2>1, JobsStay DEF Spurious, shared, Counted, BetweenJobs
<1>4. ASSUME NEW d \in Slots, Reply(d) \/ Exit(d) PROVE Counted'
  BY <1>0, <1>4, JobsStay DEF Reply, Exit, shared, Counted
<1>5. CASE Close
  BY <1>5, CloseCounted
<1>6. CASE ShutdownStep
  BY <1>0, <1>6, JobsStay DEF ShutdownStep, CloseStdin, GraceEnds, Kill, Join, shared, Counted
<1>7. CASE UNCHANGED vars
  BY <1>0, <1>7, JobsStay DEF vars, Counted
<1> QED
  BY <1>1, <1>2, <1>3, <1>4, <1>5, <1>6, <1>7 DEF Next, Finished

\* For any number of drivers, jobs and attempts: an accepted job is waiting, with one
\* driver, reported once or handed back once, whatever dies, is tried again or closes.
THEOREM NoJobIsLostOrDoubled == Spec => []EachJobOnce
<1>1. Counted => EachJobOnce
  BY DEF Counted
<1> QED
  BY <1>1, InitCounted, StepCounted, PTL DEF Spec
-----------------------------------------------------------------------------
(* The pool keeps its promise. *)

LEMMA NamedIsWhere ==
  ASSUME NEW j \in Jobs, NEW q \in Seq(Jobs)
  PROVE  /\ j \in Named(q) => Cardinality(Where(j, q)) >= 1
         /\ j \notin Named(q) => Cardinality(Where(j, q)) = 0
<1>1. IsFiniteSet(Where(j, q)) /\ Cardinality(Where(j, q)) \in Nat
  BY QueuesAreFinite
<1>2. j \in Named(q) <=> Where(j, q) # {}
  BY DEF Named, Where
<1>3. Cardinality(Where(j, q)) = 0 <=> Where(j, q) = {}
  BY <1>1, FS_EmptySet
<1> QED
  BY ONLY <1>1, <1>2, <1>3

LEMMA HeldIsHolders ==
  ASSUME NEW j \in Jobs
  PROVE  /\ (\E d \in Slots : driver[d].job = j) => Cardinality(Holders(j)) >= 1
         /\ (\A d \in Slots : driver[d].job # j) => Cardinality(Holders(j)) = 0
<1>1. IsFiniteSet(Holders(j)) /\ Cardinality(Holders(j)) \in Nat
  BY HoldersAreFinite
<1>2. (\E d \in Slots : driver[d].job = j) <=> Holders(j) # {}
  BY DEF Holders
<1>3. Cardinality(Holders(j)) = 0 <=> Holders(j) = {}
  BY <1>1, FS_EmptySet
<1> QED
  BY ONLY <1>1, <1>2, <1>3

\* Counted once is being in one place, said of the places.
LEMMA OnePlace ==
  ASSUME Counted, NEW j \in Jobs
  PROVE  /\ j \in Named(waiting) \/ (\E d \in Slots : driver[d].job = j)
              => j \in accepted /\ j \notin Named(results) /\ j \notin Named(returned)
         /\ j \in Named(results) \/ j \in Named(returned) => j \in accepted
         /\ j \in accepted
              => \/ j \in Named(waiting) \/ j \in Named(results) \/ j \in Named(returned)
                 \/ \E d \in Slots : driver[d].job = j
<1> DEFINE w == Cardinality(Where(j, waiting))
           h == Cardinality(Holders(j))
           r == Cardinality(Where(j, results))
           b == Cardinality(Where(j, returned))
<1>1. w \in Nat /\ h \in Nat /\ r \in Nat /\ b \in Nat
  BY QueuesAreFinite, HoldersAreFinite DEF Counted, Typed, TypeOK
<1>2. w + h + r + b = IF j \in accepted THEN 1 ELSE 0
  BY DEF Counted, EachJobOnce, Copies
<1>3. /\ j \in Named(waiting) => w >= 1
      /\ j \notin Named(waiting) => w = 0
      /\ j \in Named(results) => r >= 1
      /\ j \notin Named(results) => r = 0
      /\ j \in Named(returned) => b >= 1
      /\ j \notin Named(returned) => b = 0
  BY NamedIsWhere DEF Counted, Typed, TypeOK
<1>4. /\ (\E d \in Slots : driver[d].job = j) => h >= 1
      /\ (\A d \in Slots : driver[d].job # j) => h = 0
  BY HeldIsHolders
<1> HIDE DEF w, h, r, b
<1> QED
  BY ONLY <1>1, <1>2, <1>3, <1>4

LEMMA NamedAppended ==
  ASSUME NEW q \in Seq(Jobs), NEW x \in Jobs
  PROVE  Named(Append(q, x)) = Named(q) \cup {x}
<1>1. \A i \in DOMAIN q : Append(q, x)[i] = q[i] /\ i \in DOMAIN Append(q, x)
  OBVIOUS
<1>2. Append(q, x)[Len(q) + 1] = x /\ Len(q) + 1 \in DOMAIN Append(q, x)
  OBVIOUS
<1>3. \A i \in DOMAIN Append(q, x) : i \in DOMAIN q \/ i = Len(q) + 1
  OBVIOUS
<1> QED
  BY <1>1, <1>2, <1>3 DEF Named

\* What is in hand is in the queue or with a driver.
LEMMA InHandIsBounded ==
  ASSUME Counted
  PROVE  /\ Cardinality(InHand) \in Nat /\ Len(waiting) \in Nat /\ Cardinality(Slots) \in Nat
         /\ Cardinality(InHand) <= Len(waiting) + Cardinality(Slots)
<1> DEFINE jobOf == [d \in Slots |-> driver[d].job]
           Taken == {driver[d].job : d \in Slots}
<1>1. waiting \in Seq(Jobs) /\ accepted \subseteq Jobs /\ Len(waiting) \in Nat
      /\ waiting \in [1..Len(waiting) -> Jobs]
  BY DEF Counted, Typed, TypeOK
<1>2. IsFiniteSet(1..Len(waiting)) /\ Cardinality(1..Len(waiting)) = Len(waiting)
  BY <1>1, FS_Interval
<1>3. waiting \in Surjection(1..Len(waiting), Named(waiting))
  BY <1>1 DEF Surjection, Named
<1>4. IsFiniteSet(Named(waiting)) /\ Cardinality(Named(waiting)) <= Len(waiting)
      /\ Cardinality(Named(waiting)) \in Nat
  BY <1>2, <1>3, FS_Surjection, FS_CardinalityType
<1>5. jobOf \in Surjection(Slots, Taken)
  BY DEF Surjection
<1>6. IsFiniteSet(Taken) /\ Cardinality(Taken) <= Cardinality(Slots)
      /\ Cardinality(Taken) \in Nat /\ Cardinality(Slots) \in Nat
  BY <1>5, PoolConstants, FS_Surjection, FS_CardinalityType
<1>7. InHand \in SUBSET (Named(waiting) \cup Taken)
  BY <1>1, OnePlace DEF InHand
<1> HIDE DEF Taken
<1>8. /\ IsFiniteSet(Named(waiting) \cup Taken)
      /\ Cardinality(Named(waiting) \cup Taken)
           = Cardinality(Named(waiting)) + Cardinality(Taken) - Cardinality(Named(waiting) \cap Taken)
  BY <1>4, <1>6, FS_Union
<1>9. Cardinality(Named(waiting) \cap Taken) \in Nat
  <2>1. Named(waiting) \cap Taken \in SUBSET Taken
    OBVIOUS
  <2> QED
    BY <1>6, <2>1, FS_Subset, FS_CardinalityType
<1>10. Cardinality(InHand) <= Cardinality(Named(waiting) \cup Taken) /\ Cardinality(InHand) \in Nat
  BY <1>7, <1>8, FS_Subset, FS_CardinalityType
<1> QED
  BY ONLY <1>1, <1>4, <1>6, <1>8, <1>9, <1>10
\* What the owner sees of a step that touches no queue and does not move it.
LEMMA SeesNothing ==
  ASSUME UNCHANGED <<accepted, results, returned>>, Phase' = Phase
  PROVE  UNCHANGED Promised!serviceVars
  BY DEF Promised!serviceVars, InHand, Named

LEMMA SubmitAccepts ==
  ASSUME Counted, NEW j \in Jobs, Submit(j) PROVE Promised!Accept(j)
<1> USE DEF Counted, Typed, TypeOK
<1>1. Phase = "open" /\ Phase' = "open"
  BY DEF Submit, Phase
<1>2. j \notin accepted /\ j \notin Named(results) /\ j \notin Named(returned)
  BY OnePlace DEF Submit
<1>3. Cardinality(InHand) < QueueBound + Cardinality(Slots)
  <2>1. Len(waiting) < QueueBound
    BY DEF Submit
  <2> QED
    BY <2>1, InHandIsBounded, PoolConstants
<1>4. /\ Named(results)' = Named(results) /\ Named(returned)' = Named(returned)
      /\ InHand' = InHand \cup {j}
  BY <1>2 DEF Submit, Named, InHand
<1>5. Promised!Cardinality(InHand) = Cardinality(InHand)
  BY DEF Promised!Cardinality, Cardinality
<1> QED
  BY <1>1, <1>2, <1>3, <1>4, <1>5 DEF Promised!Accept, InHand

LEMMA ReportDelivers ==
  ASSUME Safe, Counted, NEW d \in Slots, Report(d) PROVE Promised!Deliver(driver[d].job)
<1> USE DEF Counted, Typed, TypeOK
<1>1. Phase # "closed" /\ Phase' = Phase
  BY NotOver DEF Report, At, Phase
<1>2. driver[d].job \in Jobs
  BY DEF Report, Held, At, InAJob, Driver
<1>3. driver[d].job \in InHand
  BY <1>2, OnePlace DEF InHand
<1>4. Named(results') = Named(results) \cup {driver[d].job}
  BY <1>2, NamedAppended DEF Report
<1>5. Named(results)' = Named(results) \cup {driver[d].job} /\ Named(returned)' = Named(returned)
  BY <1>4 DEF Report, Named
<1>6. InHand' = InHand \ {driver[d].job}
  BY <1>5 DEF InHand, Report
<1> QED
  BY <1>1, <1>3, <1>5, <1>6 DEF Promised!Deliver

LEMMA CloseHandsBack == ASSUME Counted, Close PROVE Promised!HandBack
<1> USE DEF Counted, Typed, TypeOK
<1>1. Phase = "open" /\ Phase' = "closing"
  BY DEF Close, Phase
<1>2. Named(waiting) \in SUBSET InHand
  <2>1. Named(waiting) \subseteq Jobs
    BY DEF Named
  <2> QED
    BY <2>1, OnePlace DEF InHand
<1>3. Named(returned) = {}
  BY DEF Close, Named
<1>4. Named(returned)' = Named(waiting) /\ Named(results)' = Named(results)
  BY DEF Close, Named
<1>5. InHand' = InHand \ Named(waiting)
  BY <1>3, <1>4 DEF InHand, Close
<1> QED
  BY <1>1, <1>2, <1>4, <1>5 DEF Promised!HandBack

LEMMA JoinCloses == ASSUME Counted, Join PROVE Promised!Closed
<1> USE DEF Counted, Typed, TypeOK
<1>1. Phase = "closing" /\ Phase' = "closed"
  BY DEF Join, Phase
<1>2. InHand = {}
  <2>1. waiting = <<>> /\ \A d \in Slots : driver[d].job = None
    BY DEF Join, At, BetweenJobs
  <2>2. \A j \in Jobs : j \notin Named(waiting) /\ \A d \in Slots : driver[d].job # j
    BY <2>1, PoolConstants DEF Named
  <2> QED
    BY <2>2, OnePlace DEF InHand
<1>3. InHand' = InHand /\ Named(results)' = Named(results) /\ Named(returned)' = Named(returned)
  BY DEF Join, InHand, Named
<1> QED
  BY <1>1, <1>2, <1>3 DEF Promised!Closed

LEMMA InitPromised == Init => Promised!ServiceInit
  BY DEF Init, Promised!ServiceInit, Phase, InHand, Named

LEMMA StepPromised ==
  Safe /\ Counted /\ [Next]_vars => [Promised!ServiceNext]_(Promised!serviceVars)
<1> SUFFICES ASSUME Safe, Counted, [Next]_vars
             PROVE  Promised!ServiceNext \/ UNCHANGED Promised!serviceVars
  OBVIOUS
<1>1. ASSUME NEW j \in Jobs, Submit(j) PROVE Promised!ServiceNext
  BY <1>1, SubmitAccepts DEF Promised!ServiceNext
<1>2. ASSUME NEW d \in Slots, Report(d) PROVE Promised!ServiceNext
  <2>1. driver[d].job \in Jobs
    BY <1>2 DEF Report, Held, At, InAJob, Driver, Counted, Typed, TypeOK
  <2> QED
    BY <1>2, <2>1, ReportDelivers DEF Promised!ServiceNext
<1>3. ASSUME NEW d \in Slots, DriverStep(d), ~Report(d) PROVE UNCHANGED Promised!serviceVars
  <2>1. UNCHANGED <<owner, accepted, results, returned>>
    BY <1>3 DEF DriverStep, Pop, Attempt, Spawn, Publish, Write, Run, Settle, Reap, Decide, Last
  <2> QED
    BY <2>1, SeesNothing DEF Phase
<1>4. ASSUME NEW d \in Slots, Spurious(d) \/ Reply(d) \/ Exit(d)
      PROVE  UNCHANGED Promised!serviceVars
  BY <1>4, SeesNothing DEF Spurious, Reply, Exit, Phase
<1>5. CASE Close
  BY <1>5, CloseHandsBack DEF Promised!ServiceNext
<1>6. CASE Join
  BY <1>6, JoinCloses DEF Promised!ServiceNext
<1>7. CASE CloseStdin \/ GraceEnds \/ Kill
  <2>1. /\ UNCHANGED <<accepted, results, returned>>
        /\ owner \notin {"using", "over"} /\ owner' \notin {"using", "over"}
    BY <1>7 DEF CloseStdin, GraceEnds, Kill
  <2> QED
    BY <2>1, SeesNothing DEF Phase
<1>8. CASE UNCHANGED vars
  BY <1>8, SeesNothing DEF vars, Phase
<1> QED
  BY <1>1, <1>2, <1>3, <1>4, <1>5, <1>6, <1>7, <1>8 DEF Next, Finished, ShutdownStep

\* For any number of drivers, jobs and attempts the pool implements PoseService: every
\* step of its threads, its children and its shutdown is a step its owner was
\* promised, or one the owner does not see.
THEOREM PoolKeepsItsPromise == Spec => KeepsItsPromise
<1>1. Spec => []Counted
  BY InitCounted, StepCounted, PTL DEF Spec
<1> QED
  BY <1>1, AlwaysSafe, InitPromised, StepPromised, PTL DEF Spec, KeepsItsPromise, Promised!Service
=============================================================================
