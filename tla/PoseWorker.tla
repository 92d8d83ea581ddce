----------------------------- MODULE PoseWorker -----------------------------
(***************************************************************************)
(* One pose worker and the two pipes between its halves: the driver that   *)
(* finds an interpreter, shakes hands, hands over a job and waits for two  *)
(* replies with a deadline each, and the Python child that answers.        *)
(* Source: crates/pose/src/worker.rs and src/golf_coach/pose/worker.py.    *)
(*                                                                         *)
(* A line of the child's stdout passes through the pipe, the reader thread *)
(* and a channel, each of them first in first out: out is all three.  The  *)
(* driver writes every line through write_line, so a line that is not JSON *)
(* or has no id never reaches the child; what may reach the driver is      *)
(* anything, because libraries in the child share its stdout.              *)
(***************************************************************************)
EXTENDS Naturals, Sequences, SequencesExt

CONSTANTS
  Jobs,      \* the ids of the jobs given to this worker, each once
  MaxTries,  \* BOUND: interpreters found on the machine
  None

VARIABLES
  left,    \* the interpreters not tried yet, best first (interpreter_candidates)
  driver,  \* where the driving thread is, and the job it waits for
  pipe,    \* the child's stdin: open or not, and the lines it has not read
  child,   \* the process: the interpreter it is, where it is, its job
  out,     \* what it wrote and the driver has not received
  clips,   \* job -> the clip it names
  asks,    \* job -> what its line asks for
  said,    \* job -> the replies the child has written about it
  outcome  \* job -> what Worker::run returned, or None

vars == <<left, driver, pipe, child, out, clips, asks, said, outcome>>

\* What can answer to the name of python: nothing; a program that ends or that
\* prints; one that hangs; the worker without its model; with another protocol;
\* as it should be.
Interpreters == {"absent", "foreign", "noisy", "mute", "unavailable", "old", "ready"}

Reasons == {"clip_unreadable", "clip_empty", "frame_range_unsupported", "bad_job", "pose_failed"}
Replies == {"accepted", "done"} \cup Reasons
Errors == {"crashed", "protocol", "timeout"}
Clips == {"good", "empty", "broken", "gone"}

Message ==
  [says : {"ready", "old", "unavailable", "junk"}, job : {None}] \cup [says : Replies, job : Jobs]

ASSUME WorkerConstants ==
  MaxTries \in Nat /\ None \notin Jobs \cup {"done"} \cup Reasons \cup Errors

TypeOK ==
  /\ left \in Seq(Interpreters) /\ Len(left) <= MaxTries
  /\ driver \in [at : {"spawn", "handshake", "idle", "accept", "work", "refused"},
                 job : Jobs \cup {None}]
  /\ pipe \in [open : BOOLEAN, lines : Seq(Jobs)] /\ Len(pipe.lines) <= 1
  /\ child \in [is : Interpreters \cup {None}, job : Jobs \cup {None},
                at : {"exited", "starting", "reading", "opening", "posing", "hashing"}]
  /\ out \in Seq(Message)
  /\ clips \in [Jobs -> Clips]
  /\ asks \in [Jobs -> {"whole", "part", "variant"}]
  /\ said \in [Jobs -> Seq(Replies)]
  /\ outcome \in [Jobs -> {"done", None} \cup Reasons \cup Errors]

Init ==
  /\ \E n \in 0..MaxTries : left \in [1..n -> Interpreters]
  /\ driver = [at |-> "spawn", job |-> None]
  /\ pipe = [open |-> FALSE, lines |-> <<>>]
  /\ child = [is |-> None, at |-> "exited", job |-> None]
  /\ out = <<>>
  /\ clips \in [Jobs -> Clips]
  /\ asks \in [Jobs -> {"whole", "part", "variant"}]
  /\ said = [j \in Jobs |-> <<>>]
  /\ outcome = [j \in Jobs |-> None]

Alive == child.at # "exited"

\* Handle::reap, which dropping a Proc does too: stdin is closed, the child ends
\* within the grace or is killed, and nothing it wrote is received any more.
Reaped ==
  /\ pipe' = [open |-> FALSE, lines |-> <<>>]
  /\ child' = [child EXCEPT !.at = "exited", !.job = None]
  /\ out' = <<>>

-----------------------------------------------------------------------------
(* Worker::spawn: which interpreter. *)

Try ==
  /\ driver.at = "spawn" /\ left # <<>>
  /\ left' = Tail(left)
  /\ IF Head(left) = "absent" THEN UNCHANGED <<driver, pipe, child, out>>
     ELSE /\ driver' = [driver EXCEPT !.at = "handshake"]
          /\ pipe' = [open |-> TRUE, lines |-> <<>>]
          /\ child' = [is |-> Head(left), at |-> "starting", job |-> None]
          /\ out' = <<>>
  /\ UNCHANGED <<clips, asks, said, outcome>>

GiveUp ==
  /\ driver.at = "spawn" /\ left = <<>>
  /\ driver' = [driver EXCEPT !.at = "refused"]
  /\ UNCHANGED <<left, pipe, child, out, clips, asks, said, outcome>>

\* What is turned down is reaped first, by name or by being dropped.
TurnedDown(next) == driver' = [driver EXCEPT !.at = next] /\ Reaped

\* The first line: an interpreter that knows the protocol has answered for all of
\* them, and one that does not is passed over.  So is one that ended.
ShakeHands ==
  /\ driver.at = "handshake"
  /\ \/ /\ out # <<>> /\ Head(out).says = "ready"
        /\ driver' = [driver EXCEPT !.at = "idle"]
        /\ out' = Tail(out)
        /\ UNCHANGED <<pipe, child>>
     \/ out # <<>> /\ Head(out).says \in {"old", "unavailable"} /\ TurnedDown("refused")
     \/ out # <<>> /\ Head(out).says = "junk" /\ TurnedDown("spawn")
     \/ out = <<>> /\ ~Alive /\ TurnedDown("spawn")
     \/ out = <<>> /\ Alive /\ TurnedDown("refused")   \* the handshake timeout
  /\ UNCHANGED <<left, clips, asks, said, outcome>>

-----------------------------------------------------------------------------
(* Worker::run: one job, two replies. *)

Returns(result) ==
  /\ driver' = [at |-> "idle", job |-> None]
  /\ outcome' = [outcome EXCEPT ![driver.job] = result]

\* MUTANT: the deadline ends the wait and not the worker.
FailsAlive(error) == Returns(error) /\ UNCHANGED <<pipe, child, out>>

\* Every error kills the worker on its way out (corrupt, died, a deadline).
Fails(error) == Returns(error) /\ Reaped

\* The job line is written; a child that has gone, or whose stdin shutdown has
\* closed, is noticed here.
Run(j) ==
  /\ driver.at = "idle"
  /\ outcome[j] = None
  /\ IF pipe.open /\ Alive
       THEN /\ driver' = [at |-> "accept", job |-> j]
            /\ pipe' = [pipe EXCEPT !.lines = Append(@, j)]
            /\ UNCHANGED <<child, out, outcome>>
       ELSE /\ driver' = driver
            /\ outcome' = [outcome EXCEPT ![j] = "crashed"]
            /\ Reaped
  /\ UNCHANGED <<left, clips, asks, said>>

\* The reply is about the job in flight.
Attributed(m) == m.job = driver.job

Expected(m) ==
  \/ m.says \in Reasons
  \/ m.says = "accepted" /\ driver.at = "accept"
  \/ m.says = "done" /\ driver.at = "work"

NextReply ==
  /\ driver.at \in {"accept", "work"} /\ out # <<>>
  /\ LET m == Head(out) IN
       IF ~Attributed(m) \/ ~Expected(m) THEN Fails("protocol")
       ELSE /\ out' = Tail(out)
            /\ IF m.says = "accepted" THEN driver' = [driver EXCEPT !.at = "work"] /\ UNCHANGED outcome
               ELSE Returns(m.says)
            /\ UNCHANGED <<pipe, child>>
  /\ UNCHANGED <<left, clips, asks, said>>

\* MUTANT: a child that is alive is waited for.
NoReplyPatient ==
  /\ driver.at \in {"accept", "work"} /\ out = <<>>
  /\ ~Alive /\ Fails("crashed")
  /\ UNCHANGED <<left, clips, asks, said>>

\* The channel has ended, or one of the two deadlines has passed.
NoReply ==
  /\ driver.at \in {"accept", "work"} /\ out = <<>>
  /\ IF Alive THEN Fails("timeout") ELSE Fails("crashed")
  /\ UNCHANGED <<left, clips, asks, said>>

\* Another thread holds the handle: a pool that is shutting down.
TakenDown ==
  /\ driver.at \notin {"spawn", "handshake", "refused"}
  /\ \/ pipe.open /\ pipe' = [pipe EXCEPT !.open = FALSE] /\ UNCHANGED child
     \/ Alive /\ child' = [child EXCEPT !.at = "exited", !.job = None] /\ UNCHANGED pipe
  /\ UNCHANGED <<left, driver, out, clips, asks, said, outcome>>

-----------------------------------------------------------------------------
(* The child: golf_coach.pose.worker. *)

Writes(says, j) == out' = Append(out, [says |-> says, job |-> j])

\* _startup: the variant, the extras and the model, then the handshake; an
\* interpreter that is not the worker does as it likes, or nothing.
Startup ==
  /\ child.at = "starting" /\ child.is # "mute"
  /\ CASE child.is = "foreign" -> child' = [child EXCEPT !.at = "exited"] /\ UNCHANGED out
       [] child.is = "unavailable" -> child' = [child EXCEPT !.at = "exited"] /\ Writes("unavailable", None)
       [] child.is = "noisy" -> child' = [child EXCEPT !.at = "reading"] /\ Writes("junk", None)
       [] OTHER -> child' = [child EXCEPT !.at = "reading"] /\ Writes(child.is, None)
  /\ UNCHANGED <<left, driver, pipe, clips, asks, said, outcome>>

Answers(says) ==
  /\ Writes(says, child.job)
  /\ said' = [said EXCEPT ![child.job] = Append(@, says)]

\* The job is over: back to the pipe.
Ends(says) == Answers(says) /\ child' = [child EXCEPT !.at = "reading", !.job = None]

\* A line, or the end of them, which is how the pool says shut down.  A job for
\* another variant is refused without being looked at (_resolve_job).
ReadLine ==
  /\ child.at = "reading"
  /\ \/ /\ pipe.lines # <<>>
        /\ pipe' = [pipe EXCEPT !.lines = Tail(@)]
        /\ LET j == Head(pipe.lines) IN
             IF asks[j] = "variant"
               THEN /\ out' = Append(out, [says |-> "bad_job", job |-> j])
                    /\ said' = [said EXCEPT ![j] = Append(@, "bad_job")]
                    /\ UNCHANGED child
               ELSE child' = [child EXCEPT !.at = "opening", !.job = j] /\ UNCHANGED <<out, said>>
     \/ /\ pipe.lines = <<>> /\ ~pipe.open
        /\ child' = [child EXCEPT !.at = "exited"]
        /\ UNCHANGED <<pipe, out, said>>
  /\ UNCHANGED <<left, driver, clips, asks, outcome>>

\* MUTANT: whatever part is asked for, the whole clip is posed.
OpenWhatever ==
  /\ child.at = "opening"
  /\ IF clips[child.job] \in {"broken", "gone"} THEN Ends("clip_unreadable")
     ELSE Answers("accepted") /\ child' = [child EXCEPT !.at = "posing"]
  /\ UNCHANGED <<left, driver, pipe, clips, asks, outcome>>

\* The container is opened, and only then is the job accepted.
Open ==
  /\ child.at = "opening"
  /\ IF clips[child.job] \in {"broken", "gone"} THEN Ends("clip_unreadable")
     ELSE IF asks[child.job] = "part" THEN Ends("frame_range_unsupported")
     ELSE Answers("accepted") /\ child' = [child EXCEPT !.at = "posing"]
  /\ UNCHANGED <<left, driver, pipe, clips, asks, outcome>>

\* The estimator: it fails, finds no frame, or has the landmarks.  The clip is open
\* by now and may go.
Pose ==
  /\ child.at = "posing"
  /\ \/ Ends("pose_failed")
     \/ clips[child.job] = "empty" /\ Ends("clip_empty")
     \/ clips[child.job] # "empty" /\ child' = [child EXCEPT !.at = "hashing"] /\ UNCHANGED <<out, said>>
  /\ UNCHANGED <<left, driver, pipe, clips, asks, outcome>>

\* The clip is read once more for its digest; nothing catches its absence, so the
\* child ends there with a traceback and no reply.
Hash ==
  /\ child.at = "hashing"
  /\ IF clips[child.job] = "gone"
       THEN child' = [child EXCEPT !.at = "exited", !.job = None] /\ UNCHANGED <<out, said>>
       ELSE Ends("done")
  /\ UNCHANGED <<left, driver, pipe, clips, asks, outcome>>

ChildStep == Startup \/ ReadLine \/ Open \/ Pose \/ Hash

\* A native library writes to the child's stdout, past redirect_stdout.
Stray ==
  /\ child.at = "posing" /\ out = <<>>
  /\ Writes("junk", None)
  /\ UNCHANGED <<left, driver, pipe, child, clips, asks, said, outcome>>

\* The child crashes.
Dies ==
  /\ Alive
  /\ child' = [child EXCEPT !.at = "exited", !.job = None]
  /\ UNCHANGED <<left, driver, pipe, out, clips, asks, said, outcome>>

\* The swing is deleted, or its clip replaced by one of another name.
ClipGoes(j) ==
  /\ clips[j] # "gone"
  /\ clips' = [clips EXCEPT ![j] = "gone"]
  /\ UNCHANGED <<left, driver, pipe, child, out, asks, said, outcome>>

DriverStep == Try \/ GiveUp \/ ShakeHands \/ NextReply \/ NoReply

Next ==
  \/ DriverStep \/ TakenDown
  \/ \E j \in Jobs : Run(j) \/ ClipGoes(j)
  \/ ChildStep \/ Stray \/ Dies

Spec == Init /\ [][Next]_vars

\* The driver's thread runs and its deadlines pass.  The child owes nothing.
FairSpec == Spec /\ WF_vars(DriverStep)

-----------------------------------------------------------------------------
(* What the two halves promise each other. *)

\* What run returns for a job is what the child said last about that very job, and
\* landmarks are of a clip that could be opened and asked for as a whole: no late
\* reply, no stray line and no second job crosses over (next_reply, attribute).
OutcomeIsItsOwn ==
  \A j \in Jobs :
    /\ outcome[j] \in Reasons \cup {"done"} => said[j] # <<>> /\ Last(said[j]) = outcome[j]
    /\ outcome[j] = "done" => Front(said[j]) = <<"accepted">> /\ asks[j] = "whole"

\* A child works on a job only while the driver waits for it: after a deadline or a
\* corrupt line nobody is left posing a clip whose result would be the next job's.
\* While interpreters are tried each is gone before the next is started, and none is
\* left when the search has failed (fail, spawn, start, and the drop of Proc).
NoOrphanWork ==
  /\ child.at \in {"opening", "posing", "hashing"} =>
       driver.at \in {"accept", "work"} /\ driver.job = child.job
  /\ driver.at \in {"spawn", "refused"} => ~Alive

\* A search for an interpreter ends, and so does every run, with a child that hangs,
\* dies or babbles.
EveryCallReturns ==
  /\ driver.at \in {"spawn", "handshake"} ~> driver.at \in {"idle", "refused"}
  /\ driver.at \in {"accept", "work"} ~> driver.at = "idle"
=============================================================================
