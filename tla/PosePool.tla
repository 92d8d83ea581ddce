------------------------------ MODULE PosePool ------------------------------
(***************************************************************************)
(* The pool of pose workers: a bounded queue of jobs, one driver thread    *)
(* per slot that owns at most one child process, one retry on a fresh      *)
(* child, and a shutdown that hands back what was never started.           *)
(* Source: crates/pose/src/pool.rs, with what it uses of worker.rs.        *)
(*                                                                         *)
(* What happens under the shared lock is one action; between two holds of  *)
(* the lock the other threads and the children run.  The pool's owner      *)
(* submits and shuts down from one thread (Pool is not Sync, and shutdown  *)
(* takes it by &mut), so no submit runs beside a shutdown.                 *)
(***************************************************************************)
EXTENDS Naturals, Sequences, FiniteSets

CONSTANTS
  Slots,       \* the driver threads
  Jobs,        \* what may be submitted
  QueueBound,  \* PoolConfig.queue_bound
  MaxAttempts, \* MAX_ATTEMPTS
  None

VARIABLES
  waiting,   \* the queue of jobs no driver has taken
  closed,    \* the flag that ends it
  live,      \* slots whose child's handle is published
  driver,    \* slot -> its thread: where it is, its job, the attempts, the last outcome
  child,     \* slot -> its child process, or None
  owner,     \* where the owner is: using the pool, or in a step of shutdown
  accepted,  \* the jobs whose id submit has returned
  results,   \* the channel: what was reported, in order
  returned   \* the jobs shutdown hands back

shared == <<waiting, closed, live>>
vars == <<waiting, closed, live, driver, child, owner, accepted, results, returned>>

\* How an attempt ends: with landmarks, with something a fresh worker might do
\* better, with something it would not, or refused because the pool is closing.
Outcomes == {"done", "again", "final", "shutdown"}

Driver ==
  [at : {"pop", "parked", "woken", "attempt", "spawn", "publish", "write", "work", "settle",
         "reap", "decide", "report", "last", "ended"},
   job : Jobs \cup {None}, attempts : 0..MaxAttempts, outcome : Outcomes \cup {None}]

\* Not running any more, its stdin closed, in the list shutdown took, its reply to
\* the job it was given, and whether a job has failed on it.
Child ==
  [gone : BOOLEAN, eof : BOOLEAN, listed : BOOLEAN,
   reply : {"done", "again", "final", None}, spent : BOOLEAN]

ASSUME PoolConstants ==
  /\ QueueBound \in Nat \ {0} /\ MaxAttempts \in Nat \ {0}
  /\ IsFiniteSet(Slots)
  /\ None \notin Jobs \cup Child

TypeOK ==
  /\ waiting \in Seq(Jobs) /\ Len(waiting) <= QueueBound
  /\ closed \in BOOLEAN
  /\ live \subseteq Slots
  /\ driver \in [Slots -> Driver]
  /\ child \in [Slots -> Child \cup {None}]
  /\ owner \in {"using", "eof", "grace", "kill", "join", "over"}
  /\ accepted \subseteq Jobs
  /\ results \in Seq(Jobs)
  /\ returned \in Seq(Jobs)

Warm == [gone |-> FALSE, eof |-> FALSE, listed |-> FALSE, reply |-> None, spent |-> FALSE]

\* Pool::new returns with every worker spawned and published.
Init ==
  /\ waiting = <<>> /\ closed = FALSE /\ live = Slots
  /\ driver = [d \in Slots |-> [at |-> "pop", job |-> None, attempts |-> 0, outcome |-> None]]
  /\ child = [d \in Slots |-> Warm]
  /\ owner = "using" /\ accepted = {}
  /\ results = <<>> /\ returned = <<>>

-----------------------------------------------------------------------------
(* submit and pop. *)

At(d, place) == driver[d].at = place
Goes(d, place) == driver' = [driver EXCEPT ![d].at = place]

Parked == {d \in Slots : At(d, "parked")}

\* notify_one: a waiting driver, if there is one, will look at the queue again.
NotifyOne ==
  IF Parked = {} THEN UNCHANGED driver ELSE \E d \in Parked : Goes(d, "woken")

\* push; at the bound, or closed, it refuses and changes nothing.  An id is used
\* once.
Submit(j) ==
  /\ owner = "using"
  /\ j \notin accepted
  /\ Len(waiting) < QueueBound
  /\ waiting' = Append(waiting, j)
  /\ accepted' = accepted \cup {j}
  /\ NotifyOne
  /\ UNCHANGED <<closed, live, child, owner, results, returned>>

\* One turn of pop's loop: a job, or the end, or to wait.
Pop(d) ==
  /\ driver[d].at \in {"pop", "woken"}
  /\ \/ /\ waiting # <<>>
        /\ waiting' = Tail(waiting)
        /\ driver' = [driver EXCEPT ![d] =
             [at |-> "attempt", job |-> Head(waiting), attempts |-> 0, outcome |-> None]]
     \/ waiting = <<>> /\ closed /\ Goes(d, "last") /\ UNCHANGED waiting
     \/ waiting = <<>> /\ ~closed /\ Goes(d, "parked") /\ UNCHANGED waiting
  /\ UNCHANGED <<closed, live, child, owner, accepted, results, returned>>

\* A condition variable may also wake for no reason.
Spurious(d) == At(d, "parked") /\ Goes(d, "woken") /\ UNCHANGED <<shared, child, owner, accepted, results, returned>>

-----------------------------------------------------------------------------
(* attempt: on the child held, or on a fresh one. *)

Settles(d, outcome) ==
  driver' = [driver EXCEPT ![d].at = "settle", ![d].outcome = outcome]

Begins(d, place, outcome) ==
  driver' = [driver EXCEPT ![d] = [at |-> place, job |-> driver[d].job,
                                   attempts |-> driver[d].attempts + 1, outcome |-> outcome]]

\* On the child that is held; without one, a closed pool does not start another.
Attempt(d) ==
  /\ At(d, "attempt")
  /\ IF child[d] # None THEN Begins(d, "write", None)
     ELSE IF closed THEN Begins(d, "settle", "shutdown")
     ELSE Begins(d, "spawn", None)
  /\ UNCHANGED <<shared, child, owner, accepted, results, returned>>

\* Worker::spawn: a child that has shaken hands, or an error no retry mends.
Spawn(d) ==
  /\ At(d, "spawn")
  /\ \/ child' = [child EXCEPT ![d] = Warm] /\ Goes(d, "publish")
     \/ Settles(d, "final") /\ UNCHANGED child
  /\ UNCHANGED <<shared, owner, accepted, results, returned>>

\* MUTANT: the flag is not looked at under the lock that guards the handles.
PublishAlways(d) ==
  /\ At(d, "publish")
  /\ live' = live \cup {d} /\ Goes(d, "write")
  /\ UNCHANGED <<waiting, closed, child, owner, accepted, results, returned>>

\* The handle is published under the lock close takes, or the child is killed.
Publish(d) ==
  /\ At(d, "publish")
  /\ IF closed THEN /\ child' = [child EXCEPT ![d] = None]
                    /\ Settles(d, "shutdown")
                    /\ UNCHANGED live
     ELSE live' = live \cup {d} /\ Goes(d, "write") /\ UNCHANGED child
  /\ UNCHANGED <<waiting, closed, owner, accepted, results, returned>>

\* Every error out of Worker::run has killed the child.
Fails(d, outcome) ==
  /\ Settles(d, outcome)
  /\ child' = [child EXCEPT ![d].reply = None, ![d].spent = TRUE, ![d].gone = TRUE]

\* The job line is written, unless shutdown has closed the child's stdin.
Write(d) ==
  /\ At(d, "write")
  /\ IF child[d].eof THEN Fails(d, "again") ELSE Goes(d, "work") /\ UNCHANGED child
  /\ UNCHANGED <<shared, owner, accepted, results, returned>>

\* The child: it replies to the job it was given; it exits, or dies.
Reply(d) ==
  /\ At(d, "work")
  /\ ~child[d].gone /\ child[d].reply = None
  /\ \E reply \in {"done", "again", "final"} : child' = [child EXCEPT ![d].reply = reply]
  /\ UNCHANGED <<shared, driver, owner, accepted, results, returned>>

Exit(d) ==
  /\ child[d] # None /\ ~child[d].gone
  /\ child' = [child EXCEPT ![d].gone = TRUE]
  /\ UNCHANGED <<shared, driver, owner, accepted, results, returned>>

Answered(d) ==
  /\ child[d].reply # None
  /\ Settles(d, child[d].reply)
  /\ child' = [child EXCEPT ![d].reply = None, ![d].spent = child[d].reply # "done"]

\* MUTANT: the reply is waited for without a deadline.
RunPatiently(d) ==
  /\ At(d, "work")
  /\ \/ Answered(d)
     \/ child[d].gone /\ Fails(d, "again")
  /\ UNCHANGED <<shared, owner, accepted, results, returned>>

\* Worker::run ends: with the child's reply, or because a deadline passed, the
\* channel is corrupt or it ended.
Run(d) ==
  /\ At(d, "work")
  /\ \/ Answered(d)
     \/ \E outcome \in {"again", "final"} : Fails(d, outcome)
  /\ UNCHANGED <<shared, owner, accepted, results, returned>>

-----------------------------------------------------------------------------
(* drive: what becomes of the worker, and of the job. *)

\* MUTANT: a worker that answered, if only to say it failed, is kept.
SettleKeeping(d) ==
  /\ At(d, "settle")
  /\ IF child[d] # None /\ ~child[d].gone
       THEN Goes(d, "decide") /\ UNCHANGED live
       ELSE Goes(d, "reap") /\ live' = live \ {d}
  /\ UNCHANGED <<waiting, closed, child, owner, accepted, results, returned>>

\* Anything but landmarks is the end of the worker: retire.
Settle(d) ==
  /\ At(d, "settle")
  /\ IF driver[d].outcome = "done"
       THEN Goes(d, "decide") /\ UNCHANGED live
       ELSE Goes(d, "reap") /\ live' = live \ {d}
  /\ UNCHANGED <<waiting, closed, child, owner, accepted, results, returned>>

\* The child that was retired is let go, or killed, and reaped.
Reap(d) ==
  /\ At(d, "reap")
  /\ child' = [child EXCEPT ![d] = None]
  /\ Goes(d, IF driver[d].job = None THEN "ended" ELSE "decide")
  /\ UNCHANGED <<shared, owner, accepted, results, returned>>

\* Once more, on a fresh worker, unless the pool is closing.
Decide(d) ==
  /\ At(d, "decide")
  /\ Goes(d, IF driver[d].outcome = "again" /\ driver[d].attempts < MaxAttempts /\ ~closed
               THEN "attempt" ELSE "report")
  /\ UNCHANGED <<shared, child, owner, accepted, results, returned>>

Report(d) ==
  /\ At(d, "report")
  /\ results' = Append(results, driver[d].job)
  /\ driver' = [driver EXCEPT ![d].at = "pop", ![d].job = None]
  /\ UNCHANGED <<shared, child, owner, accepted, returned>>

\* The thread ends: retire, and then the child is reaped.
Last(d) ==
  /\ At(d, "last")
  /\ Goes(d, "reap") /\ live' = live \ {d}
  /\ UNCHANGED <<waiting, closed, child, owner, accepted, results, returned>>

-----------------------------------------------------------------------------
(* shutdown. *)

Listed(d) == child[d] # None /\ child[d].listed

\* The handles of the live children are listed, and every idle driver is woken.
ListAndWake ==
  /\ child' = [d \in Slots |-> IF d \in live THEN [child[d] EXCEPT !.listed = TRUE] ELSE child[d]]
  /\ driver' = [d \in Slots |-> IF d \in Parked THEN [driver[d] EXCEPT !.at = "woken"] ELSE driver[d]]

\* MUTANT: the waiting jobs are copied, not drained.
CloseCopying ==
  /\ owner = "using" /\ owner' = "eof"
  /\ closed' = TRUE
  /\ returned' = waiting
  /\ ListAndWake
  /\ UNCHANGED <<waiting, live, accepted, results>>

\* close: the flag, and the jobs never started are drained to be handed back.
Close ==
  /\ owner = "using" /\ owner' = "eof"
  /\ closed' = TRUE
  /\ returned' = waiting /\ waiting' = <<>>
  /\ ListAndWake
  /\ UNCHANGED <<live, accepted, results>>

\* Every listed child's stdin is closed before any of them is waited for.
CloseStdin ==
  /\ owner = "eof"
  /\ \/ \E d \in Slots : /\ Listed(d) /\ ~child[d].eof
                         /\ child' = [child EXCEPT ![d].eof = TRUE]
                         /\ UNCHANGED owner
     \/ /\ \A d \in Slots : Listed(d) => child[d].eof
        /\ owner' = "grace" /\ UNCHANGED child
  /\ UNCHANGED <<shared, driver, accepted, results, returned>>

\* One grace for all of them: they have exited, or the time is up.
GraceEnds ==
  /\ owner = "grace"
  /\ owner' = "kill"
  /\ UNCHANGED <<shared, driver, child, accepted, results, returned>>

Kill ==
  /\ owner = "kill"
  /\ \/ \E d \in Slots : /\ Listed(d) /\ ~child[d].gone
                         /\ child' = [child EXCEPT ![d].gone = TRUE]
                         /\ UNCHANGED owner
     \/ /\ \A d \in Slots : Listed(d) => child[d].gone
        /\ owner' = "join" /\ UNCHANGED child
  /\ UNCHANGED <<shared, driver, accepted, results, returned>>

\* MUTANT: a killed child is taken for a driver that has ended.
JoinUnwaited ==
  /\ owner = "join"
  /\ \A d \in Slots : At(d, "ended") \/ (child[d] # None /\ child[d].gone)
  /\ owner' = "over"
  /\ UNCHANGED <<shared, driver, child, accepted, results, returned>>

Join ==
  /\ owner = "join"
  /\ \A d \in Slots : At(d, "ended")
  /\ owner' = "over"
  /\ UNCHANGED <<shared, driver, child, accepted, results, returned>>

\* Over for good.
Finished == owner = "over" /\ UNCHANGED vars

DriverStep(d) ==
  \/ Pop(d) \/ Attempt(d) \/ Spawn(d) \/ Publish(d) \/ Write(d) \/ Run(d)
  \/ Settle(d) \/ Reap(d) \/ Decide(d) \/ Report(d) \/ Last(d)

ShutdownStep == CloseStdin \/ GraceEnds \/ Kill \/ Join

Next ==
  \/ \E j \in Jobs : Submit(j)
  \/ \E d \in Slots : DriverStep(d) \/ Spurious(d) \/ Reply(d) \/ Exit(d)
  \/ Close \/ ShutdownStep
  \/ Finished

Spec == Init /\ [][Next]_vars

\* Threads run, and a deadline passes.  A child owes no reply and need not exit,
\* and nobody owes the pool a job or a shutdown.
Fairness == (\A d \in Slots : WF_vars(DriverStep(d))) /\ WF_vars(ShutdownStep)

FairSpec == Spec /\ Fairness

-----------------------------------------------------------------------------
(* What the pool promises. *)

Where(j, queue) == {i \in DOMAIN queue : queue[i] = j}

Holders(j) == {d \in Slots : driver[d].job = j}

Copies(j) ==
  Cardinality(Where(j, waiting)) + Cardinality(Holders(j))
    + Cardinality(Where(j, results)) + Cardinality(Where(j, returned))

\* A job whose id was returned is in one place at any time: waiting, with one
\* driver, reported, or handed back.  No crash, retry, refused publish or shutdown
\* loses it or makes two of it ("a silent hole").
EachJobOnce == \A j \in Jobs : Copies(j) = IF j \in accepted THEN 1 ELSE 0

\* A child on which a job failed, in whatever way, is never given another: the one
\* retry is on a fresh worker (clause 5, the doc of attempt).
NoSpentWorker == \A d \in Slots : driver[d].at \in {"write", "work"} => ~child[d].spent

\* When shutdown joins the drivers, none of them is left in a job with a child that
\* could keep it for the whole work deadline, and none of their children outlives
\* the pool: the race that Shared's one lock is for.
ShutdownKillsFirst ==
  /\ owner = "join" => \A d \in Slots : driver[d].at \in {"write", "work"} => child[d].gone
  /\ owner = "over" => \A d \in Slots : child[d] = None

Named(queue) == {queue[i] : i \in DOMAIN queue}

Phase == IF owner = "using" THEN "open" ELSE IF owner = "over" THEN "closed" ELSE "closing"

InHand == (accepted \ Named(results)) \ Named(returned)

\* The pool as its owner sees it.
Promised == INSTANCE PoseService WITH
  Capacity <- QueueBound + Cardinality(Slots), phase <- Phase,
  held <- InHand, reported <- Named(results), handed <- Named(returned)

\* With threads, children, retries and kills behind it, the pool does what a pool
\* promises: it reports only what it holds, once each, hands back at the shutdown
\* and never after, and closes with nothing in its hands (PoseService).
KeepsItsPromise == Promised!Service

\* A job is settled when it is reported or handed back.
Settled(j) == j \in Named(results) \cup Named(returned)

\* An accepted job is reported or handed back in the end, and a shutdown completes,
\* with children that hang, die or never start: no driver sleeps on a job, or in it.
CallsEnd ==
  /\ \A j \in Jobs : j \in accepted ~> Settled(j)
  /\ owner # "using" ~> owner = "over"
=============================================================================
