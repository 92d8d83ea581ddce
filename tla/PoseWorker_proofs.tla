-------------------------- MODULE PoseWorker_proofs --------------------------
(***************************************************************************)
(* What the driver and the child of one pose worker promise each other,    *)
(* for any number of jobs and of interpreters.  Neither promise is         *)
(* inductive: they hold because all that is on its way to the driver is    *)
(* about the job it waits for (Heard), because what the child says of a    *)
(* job is one of a few things (Saying), and because nothing is on its way  *)
(* while nobody waits.                                                     *)
(***************************************************************************)
EXTENDS PoseWorker, SequenceTheorems, TLAPS

Waiting == driver.at \in {"accept", "work"}

At(where) == child.at \in where

\* All a child may have said of a job, from first to last.
Saying ==
  {<<>>, <<"accepted">>} \cup {<<reason>> : reason \in Reasons}
    \cup {<<"accepted", last>> : last \in Reasons \cup {"done"}}

About(j, says) == [says |-> says, job |-> j]

\* What is on its way to a driver that waits for j: the replies about j it has not
\* had, in order; past the first, a stray line may come before them.
Heard(j) ==
  IF driver.at = "accept"
    THEN Len(out) = Len(said[j]) /\ \A i \in 1..Len(out) : out[i] = About(j, said[j][i])
    ELSE /\ said[j] # <<>> /\ said[j][1] = "accepted"
         /\ \/ /\ Len(out) + 1 = Len(said[j])
               /\ \A i \in 1..Len(out) : out[i] = About(j, said[j][i + 1])
            \/ out # <<>> /\ Head(out).says = "junk"

WhileSearching ==
  /\ driver.at \in {"spawn", "refused"} => ~Alive
  /\ driver.at = "handshake" =>
       /\ pipe.lines = <<>> /\ At({"starting", "reading", "exited"})
       /\ Len(out) <= 1
       /\ At({"starting"}) => out = <<>> /\ child.is \in Interpreters \ {"absent"}

WhileIdle ==
  driver.at = "idle" => pipe.lines = <<>> /\ At({"reading", "exited"}) /\ out = <<>>

WhileWaiting ==
  Waiting =>
    /\ driver.job \in Jobs /\ outcome[driver.job] = None
    /\ ~At({"starting"})
    /\ Heard(driver.job)
    /\ pipe.lines # <<>> =>
         /\ pipe.lines = <<driver.job>> /\ driver.at = "accept"
         /\ At({"reading", "exited"}) /\ said[driver.job] = <<>>

\* The job the child is on is the driver's, and it has not had its last word on it.
WhileWorking ==
  At({"opening", "posing", "hashing"}) =>
    /\ Waiting /\ child.job = driver.job
    /\ pipe.lines = <<>>
    /\ At({"opening"}) => said[child.job] = <<>> /\ asks[child.job] # "variant"
    /\ At({"posing", "hashing"}) => said[child.job] = <<"accepted">> /\ asks[child.job] = "whole"

\* A job that is over, or was never begun.
Settled ==
  \A j \in Jobs :
    /\ said[j] \in Saying
    /\ said[j] = <<"accepted", "done">> => asks[j] = "whole"
    /\ outcome[j] = None /\ ~(Waiting /\ driver.job = j) => said[j] = <<>>
    /\ outcome[j] \in Reasons => said[j] \in {<<outcome[j]>>, <<"accepted", outcome[j]>>}
    /\ outcome[j] = "done" => said[j] = <<"accepted", "done">>

Inv == TypeOK /\ WhileSearching /\ WhileIdle /\ WhileWaiting /\ WhileWorking /\ Settled
-----------------------------------------------------------------------------
(* What is said and what is heard. *)

LEMMA Distinct ==
  /\ None \notin Jobs /\ None \notin Errors /\ None \notin Reasons \cup {"done"}
  /\ MaxTries \in Nat
  BY WorkerConstants

LEMMA Sayings ==
  ASSUME NEW s \in Saying
  PROVE  /\ s \in Seq(Replies)
         /\ s # <<>> => s[1] \in Replies /\ Len(s) \in {1, 2}
         /\ s # <<>> /\ Len(s) = 1 => s = <<s[1]>>
         /\ s # <<>> /\ Len(s) = 2 => s[1] = "accepted" /\ s = <<"accepted", s[2]>>
                                      /\ s[2] \in Reasons \cup {"done"}
         /\ s # <<>> => s[1] = "accepted" \/ s[1] \in Reasons
         /\ s = <<>> => Len(s) = 0
<1>1. Reasons \cup {"accepted", "done"} = Replies
  BY DEF Replies
<1>2. \/ s = <<>>
      \/ \E x \in Reasons \cup {"accepted"} : s = <<x>>
      \/ \E x \in Reasons \cup {"done"} : s = <<"accepted", x>>
  BY DEF Saying
<1>3. CASE s = <<>>
  BY <1>3
<1>4. CASE \E x \in Reasons \cup {"accepted"} : s = <<x>>
  <2>1. PICK x \in Reasons \cup {"accepted"} : s = <<x>>
    BY <1>4
  <2>2. x \in Replies
    BY <1>1
  <2> QED
    BY <2>1, <2>2
<1>5. CASE \E x \in Reasons \cup {"done"} : s = <<"accepted", x>>
  <2>1. PICK x \in Reasons \cup {"done"} : s = <<"accepted", x>>
    BY <1>5
  <2>2. x \in Replies /\ "accepted" \in Replies
    BY <1>1
  <2> QED
    BY <2>1, <2>2
<1> QED
  BY <1>2, <1>3, <1>4, <1>5

\* The first word on a job, and the last after it was accepted.
LEMMA FirstWord ==
  ASSUME NEW says \in {"accepted"} \cup Reasons
  PROVE  Append(<<>>, says) = <<says>> /\ <<says>> \in Saying /\ <<says>> # <<"accepted", "done">>
  BY DEF Saying, Reasons

LEMMA LastWord ==
  ASSUME NEW says \in Reasons \cup {"done"}
  PROVE  /\ Append(<<"accepted">>, says) = <<"accepted", says>>
         /\ <<"accepted", says>> \in Saying
         /\ <<"accepted", says>> = <<"accepted", "done">> => says = "done"
<1>1. <<"accepted", says>> \in Saying
  BY DEF Saying
<1>2. <<"accepted", says>> = <<"accepted", "done">> => says = "done"
  OBVIOUS
<1>3. Append(<<"accepted">>, says) = <<"accepted", says>>
  <2> DEFINE S == {"accepted", says}
  <2>1. <<"accepted">> \in Seq(S) /\ says \in S
    OBVIOUS
  <2>2. <<"accepted">>[1] = "accepted" /\ Len(<<"accepted">>) = 1
    OBVIOUS
  <2> HIDE DEF S
  <2> DEFINE q == <<"accepted">>
  <2> HIDE DEF q
  <2>3. /\ Append(q, says) \in Seq(S) /\ Len(Append(q, says)) = 2
        /\ Append(q, says)[1] = "accepted" /\ Append(q, says)[2] = says
    BY <2>1, <2>2 DEF q
  <2> DEFINE t == <<"accepted", says>>
  <2>a. t \in Seq(S) /\ Len(t) = 2 /\ t[1] = "accepted" /\ t[2] = says
    BY DEF S
  <2> HIDE DEF t
  <2>4. Append(q, says) = t
    <3>1. \A i \in 1..2 : i = 1 \/ i = 2
      OBVIOUS
    <3>2. \A i \in 1..Len(Append(q, says)) : Append(q, says)[i] = t[i]
      BY <2>3, <2>a, <3>1
    <3> QED
      BY <2>3, <2>a, <3>2, SeqEqual
  <2> QED
    BY <2>4 DEF q, t
<1> QED
  BY <1>1, <1>2, <1>3

\* A last word is neither nothing nor the acceptance.
LEMMA WordsDiffer ==
  ASSUME NEW says, says # "accepted"
  PROVE  /\ <<says>> # <<"accepted">> /\ <<says>> # <<>>
         /\ <<"accepted", says>> # <<"accepted">> /\ <<"accepted", says>> # <<>>
<1>1. Len(<<says>>) = 1 /\ Len(<<"accepted", says>>) = 2 /\ Len(<<"accepted">>) = 1
  OBVIOUS
<1>2. <<says>>[1] = says /\ <<"accepted">>[1] = "accepted"
  OBVIOUS
<1> QED
  BY <1>1, <1>2

\* A word of the child's on the job that is waited for joins what is on its way.
LEMMA HeardMore ==
  ASSUME TypeOK, NEW j \in Jobs, Heard(j), NEW says \in Replies,
         out' = Append(out, About(j, says)),
         said' = [said EXCEPT ![j] = Append(@, says)], driver' = driver
  PROVE  Heard(j)'
<1> DEFINE m == About(j, says)
           s == said[j]
<1>1. out \in Seq(Message) /\ s \in Seq(Replies) /\ said'[j] = Append(s, says)
  BY DEF TypeOK
<1>2. m \in Message
  BY DEF Message, About
<1>3. /\ Len(out') = Len(out) + 1 /\ out'[Len(out) + 1] = m
      /\ \A i \in 1..Len(out) : out'[i] = out[i]
      /\ Len(out) \in Nat /\ (out # <<>> => out' # <<>> /\ Head(out') = Head(out))
  BY <1>1, <1>2
<1>4. /\ Len(said'[j]) = Len(s) + 1 /\ said'[j][Len(s) + 1] = says
      /\ \A i \in 1..Len(s) : said'[j][i] = s[i]
      /\ Len(s) \in Nat /\ said'[j] # <<>> /\ (s # <<>> => said'[j][1] = s[1])
  BY <1>1
<1>5. m = About(j, says)
  OBVIOUS
<1> HIDE DEF m, s
<1>6. CASE driver.at = "accept"
  <2>1. Len(out) = Len(s) /\ \A i \in 1..Len(out) : out[i] = About(j, s[i])
    BY <1>6 DEF Heard, s
  <2>2. Len(out') = Len(said'[j])
    BY <1>3, <1>4, <2>1
  <2>3. ASSUME NEW i \in 1..Len(out') PROVE out'[i] = About(j, said'[j][i])
    <3>1. i \in 1..Len(out) \/ i = Len(out) + 1
      BY <1>3
    <3> QED
      BY <1>3, <1>4, <1>5, <2>1, <3>1
  <2> QED
    BY <1>6, <2>2, <2>3 DEF Heard, About
<1>7. CASE driver.at # "accept"
  <2>1. /\ s # <<>> /\ s[1] = "accepted"
        /\ \/ /\ Len(out) + 1 = Len(s)
              /\ \A i \in 1..Len(out) : out[i] = About(j, s[i + 1])
           \/ out # <<>> /\ Head(out).says = "junk"
    BY <1>7 DEF Heard, s
  <2>2. CASE out # <<>> /\ Head(out).says = "junk"
    BY <1>3, <1>4, <1>7, <2>1, <2>2 DEF Heard
  <2>3. CASE /\ Len(out) + 1 = Len(s)
             /\ \A i \in 1..Len(out) : out[i] = About(j, s[i + 1])
    <3>1. Len(out') + 1 = Len(said'[j])
      BY <1>3, <1>4, <2>3
    <3>2. ASSUME NEW i \in 1..Len(out') PROVE out'[i] = About(j, said'[j][i + 1])
      <4>1. i \in 1..Len(out) \/ i = Len(out) + 1
        BY <1>3
      <4>2. CASE i \in 1..Len(out)
        <5>1. i + 1 \in 1..Len(s)
          BY <1>3, <2>3, <4>2
        <5> QED
          BY <1>3, <1>4, <2>3, <4>2, <5>1
      <4>3. CASE i = Len(out) + 1
        BY <1>3, <1>4, <1>5, <2>3, <4>3
      <4> QED
        BY <4>1, <4>2, <4>3
    <3> QED
      BY <1>4, <1>7, <2>1, <3>1, <3>2 DEF Heard, About
  <2> QED
    BY <2>1, <2>2, <2>3
<1> QED
  BY <1>6, <1>7

\* What the driver takes as an answer is the next thing the child said of its job,
\* and when it is the last nothing is left behind it.
LEMMA HeardNext ==
  ASSUME TypeOK, NEW j \in Jobs, Heard(j), said[j] \in Saying, Waiting, out # <<>>,
         Expected(Head(out))
  PROVE  LET says == Head(out).says
         IN /\ says = "accepted" =>
                 /\ driver.at = "accept" /\ said[j] # <<>> /\ said[j][1] = "accepted"
                 /\ Len(Tail(out)) + 1 = Len(said[j])
                 /\ \A i \in 1..Len(Tail(out)) : Tail(out)[i] = About(j, said[j][i + 1])
            /\ says # "accepted" =>
                 /\ Tail(out) = <<>>
                 /\ says \in Reasons => said[j] \in {<<says>>, <<"accepted", says>>}
                 /\ says \in Reasons \/ says = "done"
                 /\ says = "done" => said[j] = <<"accepted", "done">>
<1> DEFINE s == said[j]
           says == Head(out).says
<1>1. /\ out \in Seq(Message) /\ Len(out) \in Nat /\ Len(out) # 0 /\ Head(out) = out[1]
      /\ Len(Tail(out)) = Len(out) - 1 /\ Tail(out) \in Seq(Message)
      /\ \A i \in 1..Len(Tail(out)) : Tail(out)[i] = out[i + 1]
  BY HeadTailProperties DEF TypeOK
<1>2. /\ s # <<>> => s[1] \in Replies /\ Len(s) \in {1, 2}
      /\ s # <<>> /\ Len(s) = 1 => s = <<s[1]>>
      /\ s # <<>> /\ Len(s) = 2 => s[1] = "accepted" /\ s = <<"accepted", s[2]>>
                                   /\ s[2] \in Reasons \cup {"done"}
      /\ s # <<>> => s[1] = "accepted" \/ s[1] \in Reasons
      /\ s = <<>> => Len(s) = 0
  BY Sayings
<1>3. says \in Reasons \/ (says = "accepted" /\ driver.at = "accept") \/ (says = "done" /\ driver.at = "work")
  BY DEF Expected
<1> HIDE DEF s, says
<1>4. Len(Tail(out)) = 0 => Tail(out) = <<>>
  BY <1>1, EmptySeq
<1>5. CASE driver.at = "accept"
  <2>1. Len(out) = Len(s) /\ \A i \in 1..Len(out) : out[i] = About(j, s[i])
    BY <1>5 DEF Heard, s
  <2>2. s # <<>> /\ says = s[1]
    <3>1. s # <<>> /\ 1 \in 1..Len(out)
      BY <1>1, <1>2, <2>1
    <3>2. out[1] = About(j, s[1])
      BY <2>1, <3>1
    <3> QED
      BY <1>1, <3>1, <3>2 DEF About, says
  <2>3. CASE says = "accepted"
    <3>1. Len(Tail(out)) + 1 = Len(s)
      BY <1>1, <2>1
    <3>2. ASSUME NEW i \in 1..Len(Tail(out)) PROVE Tail(out)[i] = About(j, s[i + 1])
      <4>1. i + 1 \in 1..Len(out)
        BY <1>1
      <4> QED
        BY <1>1, <2>1, <4>1
    <3> QED
      BY <1>5, <2>2, <2>3, <3>1, <3>2 DEF s, says
  <2>4. CASE says # "accepted"
    <3>1. says \in Reasons /\ says # "done"
      BY <1>3, <1>5, <2>4 DEF Reasons
    <3>2. Len(s) = 1 /\ s = <<says>>
      BY <1>2, <2>2, <2>4
    <3>3. Tail(out) = <<>>
      BY <1>1, <1>4, <2>1, <3>2
    <3> QED
      BY <2>4, <3>1, <3>2, <3>3 DEF s, says
  <2> QED
    BY <2>3, <2>4
<1>6. CASE driver.at # "accept"
  <2>1. says # "junk" /\ says # "accepted"
    BY <1>3, <1>6 DEF Reasons
  <2>2. /\ s # <<>> /\ s[1] = "accepted" /\ Len(out) + 1 = Len(s)
        /\ \A i \in 1..Len(out) : out[i] = About(j, s[i + 1])
    BY <1>6, <2>1 DEF Heard, s, says
  <2>3. Len(s) = 2 /\ Len(out) = 1 /\ says = s[2]
    BY <1>1, <1>2, <2>2 DEF About, says
  <2>4. Tail(out) = <<>> /\ s = <<"accepted", says>>
    BY <1>1, <1>2, <1>4, <2>2, <2>3
  <2> QED
    BY <1>3, <2>1, <2>4 DEF s, says
<1> QED
  BY <1>5, <1>6

-----------------------------------------------------------------------------
(* The driver's steps. *)

\* Nothing of the worker moves: a name is tried that is nobody's, a clip goes.
LEMMA QuietKept ==
  ASSUME Inv, left' \in Seq(Interpreters), Len(left') <= MaxTries, clips' \in [Jobs -> Clips],
         UNCHANGED <<driver, pipe, child, out, asks, said, outcome>>
  PROVE  Inv'
<1>1. TypeOK'
  BY DEF Inv, TypeOK
<1>2. WhileSearching' /\ WhileIdle'
  BY DEF Inv, WhileSearching, WhileIdle, Alive, At
<1>3. WhileWaiting' /\ WhileWorking'
  BY DEF Inv, WhileWaiting, WhileWorking, Waiting, At, Heard
<1>4. Settled'
  BY DEF Inv, Settled, Waiting
<1> QED
  BY <1>1, <1>2, <1>3, <1>4 DEF Inv

\* The child is gone, or was already, and the driver waits for nothing any more: the
\* job it waited for, if any, has ended in an error.
LEMMA OverKept ==
  ASSUME Inv, TypeOK', driver'.at \in {"spawn", "idle", "refused"}, child'.at = "exited",
         driver'.at = "idle" => pipe'.lines = <<>> /\ out' = <<>>,
         UNCHANGED <<asks, said>>,
         \A j \in Jobs : outcome'[j] = outcome[j] \/ outcome'[j] \in Errors,
         Waiting => outcome'[driver.job] # None
  PROVE  Inv'
<1>1. WhileSearching' /\ WhileIdle' /\ WhileWaiting' /\ WhileWorking'
  BY DEF WhileSearching, WhileIdle, WhileWaiting, WhileWorking, Waiting, Alive, At
<1>2. Settled'
  <2> SUFFICES ASSUME NEW j \in Jobs
               PROVE  /\ said[j] \in Saying
                      /\ said[j] = <<"accepted", "done">> => asks[j] = "whole"
                      /\ outcome'[j] = None => said[j] = <<>>
                      /\ outcome'[j] \in Reasons =>
                           said[j] \in {<<outcome'[j]>>, <<"accepted", outcome'[j]>>}
                      /\ outcome'[j] = "done" => said[j] = <<"accepted", "done">>
    BY DEF Settled, Waiting
  <2>1. /\ said[j] \in Saying
        /\ said[j] = <<"accepted", "done">> => asks[j] = "whole"
        /\ outcome[j] = None /\ ~(Waiting /\ driver.job = j) => said[j] = <<>>
        /\ outcome[j] \in Reasons => said[j] \in {<<outcome[j]>>, <<"accepted", outcome[j]>>}
        /\ outcome[j] = "done" => said[j] = <<"accepted", "done">>
    BY DEF Inv, Settled
  <2>2. outcome'[j] \in Errors => outcome'[j] \notin Reasons \cup {"done"}
    BY DEF Errors, Reasons
  <2>3. CASE outcome'[j] = outcome[j]
    BY <2>1, <2>3
  <2>4. CASE outcome'[j] \in Errors
    <3>1. outcome'[j] # None
      BY <2>4, Distinct
    <3> QED
      BY <2>1, <2>2, <2>4, <3>1
  <2> QED
    BY <2>3, <2>4
<1> QED
  BY <1>1, <1>2 DEF Inv

LEMMA ReapedTyped ==
  ASSUME TypeOK, Reaped
  PROVE  /\ pipe' \in [open : BOOLEAN, lines : Seq(Jobs)] /\ Len(pipe'.lines) <= 1
         /\ child' \in [is : Interpreters \cup {None}, job : Jobs \cup {None},
                        at : {"exited", "starting", "reading", "opening", "posing", "hashing"}]
         /\ out' \in Seq(Message)
         /\ pipe'.lines = <<>> /\ child'.at = "exited" /\ out' = <<>>
<1>1. child' = [child EXCEPT !.at = "exited", !.job = None]
  BY DEF Reaped
<1>2. child' \in [is : Interpreters \cup {None}, job : Jobs \cup {None},
                at : {"exited", "starting", "reading", "opening", "posing", "hashing"}]
      /\ child'.at = "exited"
  BY <1>1 DEF TypeOK
<1> QED
  BY <1>2 DEF Reaped

LEMMA TryKept == ASSUME Inv, Try PROVE Inv'
<1>1. TypeOK /\ left \in Seq(Interpreters) /\ Len(left) <= MaxTries /\ left # <<>>
  BY DEF Inv, TypeOK, Try
<1>2. /\ Tail(left) \in Seq(Interpreters) /\ Len(Tail(left)) <= MaxTries
      /\ Head(left) \in Interpreters
  <2>1. Len(left) \in Nat /\ Len(Tail(left)) = Len(left) - 1
    BY <1>1, HeadTailProperties
  <2> QED
    BY <1>1, <2>1, Distinct, HeadTailProperties
<1>3. CASE Head(left) = "absent"
  BY <1>1, <1>2, <1>3, QuietKept DEF Try, TypeOK
<1>4. CASE Head(left) # "absent"
  <2>1. /\ driver' = [driver EXCEPT !.at = "handshake"]
        /\ pipe' = [open |-> TRUE, lines |-> <<>>]
        /\ child' = [is |-> Head(left), at |-> "starting", job |-> None]
        /\ out' = <<>> /\ left' = Tail(left) /\ driver.at = "spawn"
        /\ UNCHANGED <<clips, asks, said, outcome>>
    BY <1>4 DEF Try
  <2>2. driver'.at = "handshake" /\ child'.at = "starting" /\ pipe'.lines = <<>>
    BY <1>1, <2>1 DEF TypeOK
  <2>3. TypeOK'
    <3>1. driver' \in [at : {"spawn", "handshake", "idle", "accept", "work", "refused"},
                       job : Jobs \cup {None}]
      BY <1>1, <2>1 DEF TypeOK
    <3>a. pipe' \in [open : BOOLEAN, lines : Seq(Jobs)] /\ Len(pipe'.lines) <= 1
      BY <2>1
    <3>2. child' \in [is : Interpreters \cup {None}, job : Jobs \cup {None},
                     at : {"exited", "starting", "reading", "opening", "posing", "hashing"}]
      BY <1>2, <2>1
    <3>3. out' \in Seq(Message)
      BY <2>1
    <3> QED
      BY <1>1, <1>2, <2>1, <3>1, <3>a, <3>2, <3>3 DEF TypeOK
  <2>4. WhileSearching' /\ WhileIdle' /\ WhileWaiting' /\ WhileWorking'
    BY <1>2, <1>4, <2>1, <2>2 DEF WhileSearching, WhileIdle, WhileWaiting, WhileWorking, Waiting, At
  <2>5. Settled'
    BY <2>1, <2>2 DEF Inv, Settled, Waiting
  <2> QED
    BY <2>3, <2>4, <2>5 DEF Inv
<1> QED
  BY <1>3, <1>4

LEMMA GiveUpKept == ASSUME Inv, GiveUp PROVE Inv'
<1>1. TypeOK /\ ~Alive /\ ~Waiting
  BY DEF Inv, GiveUp, WhileSearching, Waiting
<1>2. driver'.at = "refused" /\ child'.at = "exited" /\ driver' = [driver EXCEPT !.at = "refused"]
  BY <1>1 DEF GiveUp, TypeOK, Alive
<1>3. TypeOK'
  BY <1>1, <1>2 DEF GiveUp, TypeOK
<1> QED
  BY <1>1, <1>2, <1>3, OverKept DEF GiveUp

LEMMA ShakeHandsKept == ASSUME Inv, ShakeHands PROVE Inv'
<1>1. /\ TypeOK /\ driver.at = "handshake" /\ ~Waiting
      /\ pipe.lines = <<>> /\ At({"starting", "reading", "exited"})
      /\ Len(out) <= 1 /\ (At({"starting"}) => out = <<>>)
      /\ UNCHANGED <<left, clips, asks, said, outcome>>
  BY DEF Inv, ShakeHands, WhileSearching, Waiting
<1>2. ASSUME NEW next \in {"spawn", "refused"}, TurnedDown(next) PROVE Inv'
  <2>1. Reaped /\ driver' = [driver EXCEPT !.at = next]
    BY <1>2 DEF TurnedDown
  <2>2. driver'.at = next /\ driver' \in [at : {"spawn", "handshake", "idle", "accept", "work", "refused"},
                                          job : Jobs \cup {None}]
    BY <1>1, <2>1 DEF TypeOK
  <2>3. TypeOK' /\ child'.at = "exited"
    BY <1>1, <2>1, <2>2, ReapedTyped DEF TypeOK
  <2> QED
    BY <1>1, <2>2, <2>3, OverKept
<1>3. ASSUME out # <<>>, driver' = [driver EXCEPT !.at = "idle"], out' = Tail(out),
             UNCHANGED <<pipe, child>>
      PROVE  Inv'
  <2>1. out \in Seq(Message) /\ Len(out) \in Nat /\ Tail(out) \in Seq(Message)
        /\ Len(Tail(out)) = Len(out) - 1 /\ Len(out) # 0
    BY <1>1, <1>3, HeadTailProperties, EmptySeq DEF TypeOK
  <2>2. out' = <<>>
    BY <1>1, <1>3, <2>1, EmptySeq
  <2>3. driver'.at = "idle" /\ driver' \in [at : {"spawn", "handshake", "idle", "accept", "work", "refused"},
                                            job : Jobs \cup {None}]
    BY <1>1, <1>3 DEF TypeOK
  <2>4. TypeOK'
    BY <1>1, <1>3, <2>1, <2>3 DEF TypeOK
  <2>5. child.at \in {"reading", "exited"}
    BY <1>1, <1>3 DEF At
  <2>6. WhileSearching' /\ WhileIdle' /\ WhileWaiting' /\ WhileWorking'
    BY <1>1, <1>3, <2>2, <2>3, <2>5
    DEF WhileSearching, WhileIdle, WhileWaiting, WhileWorking, Waiting, At
  <2>7. Settled'
    BY <1>1, <2>3 DEF Inv, Settled, Waiting
  <2> QED
    BY <2>4, <2>6, <2>7 DEF Inv
<1> QED
  BY <1>2, <1>3 DEF ShakeHands

\* An error: the worker goes, and with it all that was on its way.
LEMMA FailsKept ==
  ASSUME Inv, Waiting, NEW error \in Errors, Fails(error), UNCHANGED <<left, clips, asks, said>>
  PROVE  Inv'
<1>1. TypeOK /\ Reaped /\ driver.job \in Jobs
  BY DEF Inv, WhileWaiting, Fails
<1>2. driver' = [at |-> "idle", job |-> None] /\ outcome' = [outcome EXCEPT ![driver.job] = error]
  BY DEF Fails, Returns
<1>3. /\ outcome' \in [Jobs -> {"done", None} \cup Reasons \cup Errors]
      /\ outcome'[driver.job] = error
      /\ \A j \in Jobs : outcome'[j] = outcome[j] \/ outcome'[j] \in Errors
  BY <1>1, <1>2 DEF TypeOK
<1>4. TypeOK' /\ child'.at = "exited" /\ pipe'.lines = <<>> /\ out' = <<>>
  BY <1>1, <1>2, <1>3, ReapedTyped DEF TypeOK
<1> QED
  BY <1>2, <1>3, <1>4, OverKept, Distinct

LEMMA NoReplyKept == ASSUME Inv, NoReply PROVE Inv'
  BY FailsKept DEF NoReply, Waiting, Errors

LEMMA RunKept == ASSUME Inv, NEW j \in Jobs, Run(j) PROVE Inv'
<1>1. /\ TypeOK /\ driver.at = "idle" /\ outcome[j] = None /\ ~Waiting
      /\ pipe.lines = <<>> /\ At({"reading", "exited"}) /\ out = <<>>
      /\ UNCHANGED <<left, clips, asks, said>>
  BY DEF Inv, Run, WhileIdle, Waiting
<1>2. CASE pipe.open /\ Alive
  <2>1. /\ driver' = [at |-> "accept", job |-> j]
        /\ pipe' = [pipe EXCEPT !.lines = Append(@, j)]
        /\ UNCHANGED <<child, out, outcome>>
    BY <1>2 DEF Run
  <2>2. /\ pipe' \in [open : BOOLEAN, lines : Seq(Jobs)]
        /\ pipe'.lines = <<j>>
    <3>1. Append(<<>>, j) = <<j>> /\ <<j>> \in Seq(Jobs)
      OBVIOUS
    <3>2. pipe' = [pipe EXCEPT !.lines = <<j>>]
      BY <1>1, <2>1, <3>1
    <3> QED
      BY <1>1, <3>1, <3>2 DEF TypeOK
  <2>3. TypeOK'
    BY <1>1, <2>1, <2>2 DEF TypeOK
  <2>4. said[j] = <<>>
    BY <1>1 DEF Inv, Settled
  <2>5. Heard(j)'
    BY <1>1, <2>1, <2>4 DEF Heard
  <2>6. WhileSearching' /\ WhileIdle' /\ WhileWorking'
    BY <1>1, <2>1 DEF WhileSearching, WhileIdle, WhileWorking, At
  <2>7. WhileWaiting'
    BY <1>1, <2>1, <2>2, <2>4, <2>5 DEF WhileWaiting, At
  <2>8. Settled'
    BY <1>1, <2>1 DEF Inv, Settled, Waiting
  <2> QED
    BY <2>3, <2>6, <2>7, <2>8 DEF Inv
<1>3. CASE ~(pipe.open /\ Alive)
  <2>1. driver' = driver /\ outcome' = [outcome EXCEPT ![j] = "crashed"] /\ Reaped
    BY <1>3 DEF Run
  <2>2. /\ outcome' \in [Jobs -> {"done", None} \cup Reasons \cup Errors]
        /\ \A i \in Jobs : outcome'[i] = outcome[i] \/ outcome'[i] \in Errors
    BY <1>1, <2>1 DEF TypeOK, Errors
  <2>3. TypeOK' /\ child'.at = "exited" /\ pipe'.lines = <<>> /\ out' = <<>>
    BY <1>1, <2>1, <2>2, ReapedTyped DEF TypeOK
  <2> QED
    BY <1>1, <2>1, <2>2, <2>3, OverKept
<1> QED
  BY <1>2, <1>3

\* The child's next word: the job goes on, or is over with it.
LEMMA NextReplyKept == ASSUME Inv, NextReply PROVE Inv'
<1>1. TypeOK /\ Waiting /\ out # <<>> /\ UNCHANGED <<left, clips, asks, said>>
  BY DEF Inv, NextReply, Waiting
<1> PICK j : j = driver.job
  OBVIOUS
<1> DEFINE m == Head(out)
<1>2. j \in Jobs /\ Heard(j) /\ said[j] \in Saying /\ ~At({"starting"})
  BY <1>1 DEF Inv, WhileWaiting, Settled
<1>3. CASE ~Attributed(m) \/ ~Expected(m)
  BY <1>1, <1>3, FailsKept DEF NextReply, Errors
<1>4. CASE Attributed(m) /\ Expected(m)
  <2>1. /\ out' = Tail(out) /\ UNCHANGED <<pipe, child>>
        /\ IF m.says = "accepted" THEN driver' = [driver EXCEPT !.at = "work"] /\ UNCHANGED outcome
           ELSE Returns(m.says)
    BY <1>4 DEF NextReply
  <2>2. /\ m.says = "accepted" =>
             /\ driver.at = "accept" /\ said[j] # <<>> /\ said[j][1] = "accepted"
             /\ Len(Tail(out)) + 1 = Len(said[j])
             /\ \A i \in 1..Len(Tail(out)) : Tail(out)[i] = About(j, said[j][i + 1])
        /\ m.says # "accepted" =>
             /\ Tail(out) = <<>>
             /\ m.says \in Reasons => said[j] \in {<<m.says>>, <<"accepted", m.says>>}
             /\ m.says \in Reasons \/ m.says = "done"
             /\ m.says = "done" => said[j] = <<"accepted", "done">>
    BY <1>1, <1>2, <1>4, HeardNext
  <2>3. Tail(out) \in Seq(Message)
    BY <1>1, HeadTailProperties DEF TypeOK
  <2> HIDE DEF m
  <2>4. CASE m.says = "accepted"
    <3>1. /\ driver'.at = "work" /\ driver'.job = j
          /\ driver' \in [at : {"spawn", "handshake", "idle", "accept", "work", "refused"},
                          job : Jobs \cup {None}]
      BY <1>1, <2>1, <2>4 DEF TypeOK
    <3>2. TypeOK'
      BY <1>1, <2>1, <2>3, <2>4, <3>1 DEF TypeOK
    <3>3. Heard(j)'
      BY <1>1, <2>1, <2>2, <2>4, <3>1 DEF Heard, About
    <3>4. pipe.lines = <<>>
      BY <1>1, <2>2, <2>4 DEF Inv, WhileWaiting
    <3>5. WhileSearching' /\ WhileIdle'
      BY <3>1 DEF WhileSearching, WhileIdle
    <3>6. WhileWaiting'
      BY <1>1, <1>2, <2>1, <2>4, <3>1, <3>3, <3>4 DEF Inv, WhileWaiting, At
    <3>7. WhileWorking'
      BY <1>1, <2>1, <3>1 DEF Inv, WhileWorking, Waiting, At
    <3>8. Settled'
      BY <1>1, <2>1, <2>4, <3>1 DEF Inv, Settled, Waiting
    <3> QED
      BY <3>2, <3>5, <3>6, <3>7, <3>8 DEF Inv
  <2>5. CASE m.says # "accepted"
    <3>1. /\ driver' = [at |-> "idle", job |-> None]
          /\ outcome' = [outcome EXCEPT ![j] = m.says] /\ out' = <<>>
      BY <2>1, <2>2, <2>5 DEF Returns
    <3>2. /\ outcome' \in [Jobs -> {"done", None} \cup Reasons \cup Errors]
          /\ outcome'[j] = m.says /\ \A i \in Jobs \ {j} : outcome'[i] = outcome[i]
      BY <1>1, <1>2, <2>2, <2>5, <3>1 DEF TypeOK
    <3>3. TypeOK'
      BY <1>1, <2>1, <3>1, <3>2 DEF TypeOK
    <3>4. said[j] # <<>> /\ said[j] # <<"accepted">>
      BY <2>2, <2>5, WordsDiffer
    <3>5. pipe.lines = <<>> /\ At({"reading", "exited"})
      <4>1. pipe.lines = <<>>
        BY <1>1, <3>4 DEF Inv, WhileWaiting
      <4>2. ~At({"opening", "posing", "hashing"})
        BY <1>1, <3>4 DEF Inv, WhileWorking, At
      <4> QED
        BY <1>1, <1>2, <4>1, <4>2 DEF At, TypeOK
    <3>6. WhileSearching' /\ WhileIdle' /\ WhileWaiting' /\ WhileWorking'
      BY <2>1, <3>1, <3>5 DEF WhileSearching, WhileIdle, WhileWaiting, WhileWorking, Waiting, At
    <3>7. Settled'
      <4> SUFFICES ASSUME NEW i \in Jobs
                   PROVE  /\ said[i] \in Saying
                          /\ said[i] = <<"accepted", "done">> => asks[i] = "whole"
                          /\ outcome'[i] = None => said[i] = <<>>
                          /\ outcome'[i] \in Reasons =>
                               said[i] \in {<<outcome'[i]>>, <<"accepted", outcome'[i]>>}
                          /\ outcome'[i] = "done" => said[i] = <<"accepted", "done">>
        BY <1>1, <3>1 DEF Settled, Waiting
      <4>1. CASE i = j
        BY <1>2, <2>2, <2>5, <3>2, <4>1, Distinct DEF Inv, Settled
      <4>2. CASE i # j
        BY <3>2, <4>2 DEF Inv, Settled
      <4> QED
        BY <4>1, <4>2
    <3> QED
      BY <3>3, <3>6, <3>7 DEF Inv
  <2> QED
    BY <2>4, <2>5
<1> QED
  BY <1>3, <1>4

-----------------------------------------------------------------------------
(* The child's steps. *)

Children ==
  [is : Interpreters \cup {None}, job : Jobs \cup {None},
   at : {"exited", "starting", "reading", "opening", "posing", "hashing"}]

\* The child ends, or its stdin is closed; what it wrote can still be read.
LEMMA GoneKept ==
  ASSUME Inv, child' = child \/ (child' \in Children /\ child'.at = "exited"),
         pipe' \in [open : BOOLEAN, lines : Seq(Jobs)], pipe'.lines = pipe.lines,
         UNCHANGED <<left, driver, out, clips, asks, said, outcome>>
  PROVE  Inv'
<1>1. TypeOK'
  BY DEF Inv, TypeOK, Children
<1>2. WhileSearching' /\ WhileIdle'
  BY DEF Inv, WhileSearching, WhileIdle, Alive, At
<1>3. WhileWaiting' /\ WhileWorking'
  BY DEF Inv, WhileWaiting, WhileWorking, Waiting, At, Heard
<1>4. Settled'
  BY DEF Inv, Settled, Waiting
<1> QED
  BY <1>1, <1>2, <1>3, <1>4 DEF Inv

LEMMA ChildEnds ==
  ASSUME TypeOK, child' \in {[child EXCEPT !.at = "exited"], [child EXCEPT !.at = "exited", !.job = None]}
  PROVE  child' \in Children /\ child'.at = "exited"
  BY DEF TypeOK, Children

LEMMA DiesKept == ASSUME Inv, Dies PROVE Inv'
<1>1. TypeOK /\ pipe \in [open : BOOLEAN, lines : Seq(Jobs)]
  BY DEF Inv, TypeOK
<1> QED
  BY <1>1, ChildEnds, GoneKept DEF Dies

LEMMA TakenDownKept == ASSUME Inv, TakenDown PROVE Inv'
<1>1. TypeOK /\ pipe \in [open : BOOLEAN, lines : Seq(Jobs)]
  BY DEF Inv, TypeOK
<1>2. CASE pipe' = [pipe EXCEPT !.open = FALSE] /\ UNCHANGED child
  BY <1>1, <1>2, GoneKept DEF TakenDown
<1>3. CASE child' = [child EXCEPT !.at = "exited", !.job = None] /\ UNCHANGED pipe
  BY <1>1, <1>3, ChildEnds, GoneKept DEF TakenDown
<1> QED
  BY <1>2, <1>3 DEF TakenDown

\* It says one thing more about the job that is waited for.
LEMMA AnswerKept ==
  ASSUME Inv, Waiting, NEW j \in Jobs, driver.job = j, NEW says \in Replies,
         out' = Append(out, About(j, says)), said' = [said EXCEPT ![j] = Append(@, says)],
         said'[j] \in Saying, said'[j] = <<"accepted", "done">> => asks[j] = "whole",
         pipe' \in [open : BOOLEAN, lines : Seq(Jobs)], pipe'.lines = <<>>, child' \in Children,
         \/ child'.at = "reading"
         \/ /\ child'.at = "posing" /\ child'.job = j
            /\ said'[j] = <<"accepted">> /\ asks[j] = "whole",
         UNCHANGED <<left, driver, clips, asks, outcome>>
  PROVE  Inv'
<1>1. TypeOK /\ Heard(j) /\ outcome[j] = None
  BY DEF Inv, WhileWaiting
<1>2. Heard(j)'
  BY <1>1, HeardMore
<1>3. /\ said' \in [Jobs -> Seq(Replies)] /\ \A i \in Jobs \ {j} : said'[i] = said[i]
  BY <1>1 DEF TypeOK
<1>4. out' \in Seq(Message)
  <2>1. About(j, says) \in Message
    BY DEF About, Message
  <2> QED
    BY <1>1, <2>1 DEF TypeOK
<1>5. TypeOK'
  BY <1>1, <1>3, <1>4 DEF TypeOK, Children
<1>6. WhileSearching' /\ WhileIdle'
  BY DEF WhileSearching, WhileIdle, Waiting
<1>7. WhileWaiting' /\ WhileWorking'
  BY <1>1, <1>2 DEF WhileWaiting, WhileWorking, Waiting, At
<1>8. Settled'
  <2> SUFFICES ASSUME NEW i \in Jobs
               PROVE  /\ said'[i] \in Saying
                      /\ said'[i] = <<"accepted", "done">> => asks[i] = "whole"
                      /\ outcome[i] = None /\ ~(Waiting /\ driver.job = i) => said'[i] = <<>>
                      /\ outcome[i] \in Reasons =>
                           said'[i] \in {<<outcome[i]>>, <<"accepted", outcome[i]>>}
                      /\ outcome[i] = "done" => said'[i] = <<"accepted", "done">>
    BY DEF Settled, Waiting
  <2>1. CASE i = j
    BY <1>1, <2>1, Distinct
  <2>2. CASE i # j
    BY <1>3, <2>2 DEF Inv, Settled
  <2> QED
    BY <2>1, <2>2
<1> QED
  BY <1>5, <1>6, <1>7, <1>8 DEF Inv

LEMMA StartupKept == ASSUME Inv, Startup PROVE Inv'
<1>1. /\ TypeOK /\ child.at = "starting" /\ UNCHANGED <<left, driver, pipe, clips, asks, said, outcome>>
  BY DEF Inv, Startup
<1>2. driver.at = "handshake" /\ ~Waiting
  <2>1. driver.at \in {"spawn", "handshake", "idle", "accept", "work", "refused"}
    BY <1>1 DEF TypeOK
  <2> QED
    BY <1>1, <2>1 DEF Inv, WhileSearching, WhileIdle, WhileWaiting, Waiting, Alive, At
<1>3. out = <<>> /\ child.is \in Interpreters \ {"absent"} /\ pipe.lines = <<>>
  BY <1>1, <1>2 DEF Inv, WhileSearching, At
<1>4. /\ child' \in Children /\ child'.at \in {"reading", "exited"}
      /\ out' \in Seq(Message) /\ Len(out') <= 1
  <2>1. child' \in {[child EXCEPT !.at = "exited"], [child EXCEPT !.at = "reading"]}
    BY DEF Startup
  <2>2. child' \in Children /\ child'.at \in {"reading", "exited"}
    BY <1>1, <2>1 DEF TypeOK, Children
  <2>3. \/ out' = out
        \/ \E says \in {"ready", "old", "unavailable", "junk"} :
             out' = Append(<<>>, [says |-> says, job |-> None])
    BY <1>1, <1>3 DEF Startup, Writes, Interpreters
  <2>4. ASSUME NEW says \in {"ready", "old", "unavailable", "junk"},
               out' = Append(<<>>, [says |-> says, job |-> None])
        PROVE  out' \in Seq(Message) /\ Len(out') = 1
    <3>1. [says |-> says, job |-> None] \in Message
      BY DEF Message
    <3> QED
      BY <2>4, <3>1
  <2>5. out' = out => out' \in Seq(Message) /\ Len(out') <= 1
    BY <1>3
  <2>6. \A says \in {"ready", "old", "unavailable", "junk"} :
          out' = Append(<<>>, [says |-> says, job |-> None]) =>
            out' \in Seq(Message) /\ Len(out') <= 1
    BY <2>4
  <2>7. out' \in Seq(Message) /\ Len(out') <= 1
    BY <2>3, <2>5, <2>6
  <2> QED
    BY <2>2, <2>7
<1>5. TypeOK'
  BY <1>1, <1>4 DEF TypeOK, Children
<1>6. WhileSearching' /\ WhileIdle' /\ WhileWaiting' /\ WhileWorking'
  BY <1>1, <1>2, <1>3, <1>4
  DEF WhileSearching, WhileIdle, WhileWaiting, WhileWorking, Waiting, At
<1>7. Settled'
  BY <1>1, <1>2 DEF Inv, Settled, Waiting
<1> QED
  BY <1>5, <1>6, <1>7 DEF Inv

LEMMA ReadLineKept == ASSUME Inv, ReadLine PROVE Inv'
<1>1. TypeOK /\ child.at = "reading" /\ UNCHANGED <<left, driver, clips, asks, outcome>>
  BY DEF Inv, ReadLine
<1>2. CASE pipe.lines = <<>>
  <2>1. child' = [child EXCEPT !.at = "exited"] /\ UNCHANGED <<pipe, out, said>>
    BY <1>2 DEF ReadLine
  <2>2. pipe \in [open : BOOLEAN, lines : Seq(Jobs)]
    BY <1>1 DEF TypeOK
  <2> QED
    BY <1>1, <2>1, <2>2, ChildEnds, GoneKept
<1>3. CASE pipe.lines # <<>>
  <2> PICK j : j = driver.job
    OBVIOUS
  <2>1. Waiting
    <3>1. driver.at \in {"spawn", "handshake", "idle", "accept", "work", "refused"}
      BY <1>1 DEF TypeOK
    <3> QED
      BY <1>1, <1>3, <3>1 DEF Inv, WhileSearching, WhileIdle, Waiting, Alive
  <2>2. /\ j \in Jobs /\ pipe.lines = <<j>> /\ driver.at = "accept" /\ said[j] = <<>>
        /\ Heard(j) /\ outcome[j] = None
    BY <1>3, <2>1 DEF Inv, WhileWaiting
  <2>3. Head(pipe.lines) = j /\ Tail(pipe.lines) = <<>>
    BY <2>2
  <2>4. /\ pipe' = [pipe EXCEPT !.lines = <<>>]
        /\ \/ /\ asks[j] = "variant"
              /\ out' = Append(out, About(j, "bad_job"))
              /\ said' = [said EXCEPT ![j] = Append(@, "bad_job")]
              /\ UNCHANGED child
           \/ /\ asks[j] # "variant"
              /\ child' = [child EXCEPT !.at = "opening", !.job = j]
              /\ UNCHANGED <<out, said>>
    BY <1>3, <2>3 DEF ReadLine, About
  <2>5. pipe' \in [open : BOOLEAN, lines : Seq(Jobs)] /\ pipe'.lines = <<>>
    <3>1. pipe \in [open : BOOLEAN, lines : Seq(Jobs)] /\ <<>> \in Seq(Jobs)
      BY <1>1 DEF TypeOK
    <3>2. pipe' = [pipe EXCEPT !.lines = <<>>]
      BY <2>4
    <3> QED
      BY ONLY <3>1, <3>2
  <2>6. CASE out' = Append(out, About(j, "bad_job"))
    <3>1. said' = [said EXCEPT ![j] = Append(@, "bad_job")] /\ UNCHANGED child
      BY <1>1, <2>4, <2>6 DEF TypeOK
    <3>2. "bad_job" \in Reasons /\ "bad_job" \in Replies
      BY DEF Reasons, Replies
    <3>3. said'[j] = Append(<<>>, "bad_job")
      BY <1>1, <2>2, <3>1 DEF TypeOK
    <3>4. said'[j] \in Saying /\ said'[j] # <<"accepted", "done">>
      BY <3>2, <3>3, FirstWord
    <3>5. child' \in Children /\ child'.at = "reading"
      BY <1>1, <3>1 DEF TypeOK, Children
    <3> QED
      BY <1>1, <2>1, <2>2, <2>5, <2>6, <3>1, <3>2, <3>4, <3>5, AnswerKept
  <2>7. CASE /\ asks[j] # "variant" /\ child' = [child EXCEPT !.at = "opening", !.job = j]
             /\ UNCHANGED <<out, said>>
    <3>1. child' \in Children /\ child'.at = "opening" /\ child'.job = j
      BY <1>1, <2>2, <2>7 DEF TypeOK, Children
    <3>2. TypeOK'
      BY <1>1, <2>5, <2>7, <3>1 DEF TypeOK, Children
    <3>3. WhileSearching' /\ WhileIdle'
      BY <1>1, <2>1 DEF WhileSearching, WhileIdle, Waiting
    <3>4. Heard(j)'
      BY <1>1, <2>2, <2>7 DEF Heard
    <3>5. WhileWaiting'
      BY <1>1, <2>2, <2>5, <2>7, <3>1, <3>4 DEF WhileWaiting, Waiting, At
    <3>6. WhileWorking'
      BY <1>1, <2>1, <2>2, <2>5, <2>7, <3>1 DEF WhileWorking, Waiting, At
    <3>7. Settled'
      BY <1>1, <2>7 DEF Inv, Settled, Waiting
    <3> QED
      BY <3>2, <3>3, <3>5, <3>6, <3>7 DEF Inv
  <2> QED
    BY <2>4, <2>6, <2>7
<1> QED
  BY <1>2, <1>3

\* While it works: which job that is, and what it has said of it.
LEMMA Works ==
  ASSUME Inv, At({"opening", "posing", "hashing"})
  PROVE  /\ TypeOK /\ Waiting /\ child.job \in Jobs /\ driver.job = child.job
         /\ pipe \in [open : BOOLEAN, lines : Seq(Jobs)] /\ pipe.lines = <<>>
         /\ child \in Children /\ asks[child.job] \in {"whole", "part", "variant"}
         /\ At({"opening"}) => said[child.job] = <<>> /\ asks[child.job] # "variant"
         /\ At({"posing", "hashing"}) => said[child.job] = <<"accepted">> /\ asks[child.job] = "whole"
<1>1. /\ TypeOK /\ Waiting /\ driver.job \in Jobs /\ driver.job = child.job /\ pipe.lines = <<>>
      /\ At({"opening"}) => said[child.job] = <<>> /\ asks[child.job] # "variant"
      /\ At({"posing", "hashing"}) => said[child.job] = <<"accepted">> /\ asks[child.job] = "whole"
  BY DEF Inv, WhileWorking, WhileWaiting
<1> QED
  BY <1>1 DEF TypeOK, Children

\* The last word on a job: it is refused, it fails, or it is done.
LEMMA EndsKept ==
  ASSUME Inv, At({"opening", "posing", "hashing"}), NEW says \in Reasons \cup {"done"},
         says = "done" => At({"hashing"}), Ends(says),
         UNCHANGED <<left, driver, pipe, clips, asks, outcome>>
  PROVE  Inv'
<1> PICK j : j = child.job
  OBVIOUS
<1>1. /\ TypeOK /\ Waiting /\ j \in Jobs /\ driver.job = j
      /\ pipe \in [open : BOOLEAN, lines : Seq(Jobs)] /\ pipe.lines = <<>> /\ child \in Children
      /\ At({"opening"}) => said[j] = <<>>
      /\ At({"posing", "hashing"}) => said[j] = <<"accepted">> /\ asks[j] = "whole"
  BY Works
<1>2. /\ out' = Append(out, About(j, says)) /\ said' = [said EXCEPT ![j] = Append(@, says)]
      /\ child' = [child EXCEPT !.at = "reading", !.job = None]
  BY DEF Ends, Answers, Writes, About
<1>3. child' \in Children /\ child'.at = "reading"
  BY <1>1, <1>2 DEF Children
<1>4. said'[j] = Append(said[j], says) /\ says \in Replies
  BY <1>1, <1>2 DEF TypeOK, Replies
<1>5. said'[j] \in Saying /\ (said'[j] = <<"accepted", "done">> => asks[j] = "whole")
  <2>1. CASE At({"opening"})
    <3>1. says \in Reasons
      BY <2>1 DEF At
    <3> QED
      BY <1>1, <1>4, <2>1, <3>1, FirstWord
  <2>2. CASE At({"posing", "hashing"})
    BY <1>1, <1>4, <2>2, LastWord
  <2> QED
    BY <2>1, <2>2 DEF At
<1> QED
  BY <1>1, <1>2, <1>3, <1>4, <1>5, AnswerKept

LEMMA OpenKept == ASSUME Inv, Open PROVE Inv'
<1> PICK j : j = child.job
  OBVIOUS
<1>1. child.at = "opening" /\ At({"opening", "posing", "hashing"}) /\ At({"opening"})
      /\ UNCHANGED <<left, driver, pipe, clips, asks, outcome>>
  BY DEF Open, At
<1>2. /\ TypeOK /\ Waiting /\ j \in Jobs /\ driver.job = j
      /\ pipe \in [open : BOOLEAN, lines : Seq(Jobs)] /\ pipe.lines = <<>> /\ child \in Children
      /\ said[j] = <<>> /\ asks[j] \in {"whole", "part"}
  BY <1>1, Works
<1>3. CASE Ends("clip_unreadable") \/ Ends("frame_range_unsupported")
  BY <1>1, <1>3, EndsKept DEF Reasons
<1>4. CASE asks[j] # "part" /\ Answers("accepted") /\ child' = [child EXCEPT !.at = "posing"]
  <2>1. /\ out' = Append(out, About(j, "accepted"))
        /\ said' = [said EXCEPT ![j] = Append(@, "accepted")]
    BY <1>4 DEF Answers, Writes, About
  <2>2. child' \in Children /\ child'.at = "posing" /\ child'.job = j
    BY <1>2, <1>4 DEF Children
  <2>3. said'[j] = Append(<<>>, "accepted") /\ "accepted" \in Replies
    BY <1>2, <2>1 DEF TypeOK, Replies
  <2>4. said'[j] = <<"accepted">> /\ said'[j] \in Saying /\ said'[j] # <<"accepted", "done">>
    BY <2>3, FirstWord
  <2>5. asks[j] = "whole"
    BY <1>2, <1>4
  <2> QED
    BY <1>1, <1>2, <2>1, <2>2, <2>3, <2>4, <2>5, AnswerKept
<1> QED
  BY <1>3, <1>4 DEF Open

\* From posing to hashing the child is with the same job and says nothing; a
\* library may.
LEMMA PoseKept == ASSUME Inv, Pose \/ Hash \/ Stray PROVE Inv'
<1> PICK j : j = child.job
  OBVIOUS
<1>1. /\ child.at \in {"posing", "hashing"} /\ At({"posing", "hashing"})
      /\ At({"opening", "posing", "hashing"})
      /\ UNCHANGED <<left, driver, pipe, clips, asks, outcome>>
  BY DEF Pose, Hash, Stray, At
<1>2. /\ TypeOK /\ Waiting /\ j \in Jobs /\ driver.job = j
      /\ pipe \in [open : BOOLEAN, lines : Seq(Jobs)] /\ pipe.lines = <<>> /\ child \in Children
      /\ said[j] = <<"accepted">> /\ asks[j] = "whole"
  BY <1>1, Works
<1>3. CASE Ends("pose_failed") \/ Ends("clip_empty")
  BY <1>1, <1>3, EndsKept DEF Reasons
<1>4. CASE child.at = "hashing" /\ Ends("done")
  BY <1>1, <1>4, EndsKept DEF At
<1>5. CASE child' = [child EXCEPT !.at = "exited", !.job = None] /\ UNCHANGED <<out, said>>
  BY <1>1, <1>2, <1>5, ChildEnds, GoneKept
<1>6. CASE child' = [child EXCEPT !.at = "hashing"] /\ UNCHANGED <<out, said>>
  <2>1. child' \in Children /\ child'.at = "hashing" /\ child'.job = j
    BY <1>2, <1>6 DEF Children
  <2>2. TypeOK'
    BY <1>1, <1>2, <1>6, <2>1 DEF TypeOK, Children
  <2>3. Heard(j)'
    BY <1>1, <1>2, <1>6 DEF Inv, WhileWaiting, Heard
  <2>4. WhileSearching' /\ WhileIdle' /\ WhileWorking'
    BY <1>1, <1>2, <1>6, <2>1 DEF WhileSearching, WhileIdle, WhileWorking, Waiting, At
  <2>5. WhileWaiting'
    BY <1>1, <1>2, <1>6, <2>1, <2>3 DEF Inv, WhileWaiting, Waiting, At
  <2>6. Settled'
    BY <1>1, <1>6 DEF Inv, Settled, Waiting
  <2> QED
    BY <2>2, <2>4, <2>5, <2>6 DEF Inv
<1>7. CASE Stray
  <2> DEFINE m == [says |-> "junk", job |-> None]
  <2>1. out = <<>> /\ out' = Append(<<>>, m) /\ UNCHANGED <<child, said>>
    BY <1>7 DEF Stray, Writes
  <2>2. m \in Message /\ m.says = "junk"
    BY DEF Message
  <2> HIDE DEF m
  <2>3. out' = <<m>> /\ out' \in Seq(Message) /\ Head(out') = m /\ out' # <<>>
    BY <2>1, <2>2
  <2>4. driver.at = "work"
    <3>1. Heard(j) /\ Len(said[j]) = 1 /\ Len(out) = 0
      BY <1>2, <2>1 DEF Inv, WhileWaiting
    <3> QED
      BY <1>2, <3>1 DEF Heard, Waiting
  <2>5. TypeOK'
    BY <1>1, <1>2, <2>1, <2>3 DEF TypeOK
  <2>6. Heard(j)'
    <3>1. said'[j] # <<>> /\ said'[j][1] = "accepted"
      BY <1>2, <2>1
    <3> QED
      BY <1>1, <2>2, <2>3, <2>4, <3>1 DEF Heard
  <2>7. WhileSearching' /\ WhileIdle' /\ WhileWorking'
    BY <1>1, <1>2, <2>1, <2>4 DEF Inv, WhileSearching, WhileIdle, WhileWorking, Waiting, At
  <2>8. WhileWaiting'
    BY <1>1, <1>2, <2>1, <2>6 DEF Inv, WhileWaiting, Waiting, At
  <2>9. Settled'
    BY <1>1, <2>1 DEF Inv, Settled, Waiting
  <2> QED
    BY <2>5, <2>7, <2>8, <2>9 DEF Inv
<1> QED
  BY <1>3, <1>4, <1>5, <1>6, <1>7 DEF Pose, Hash

-----------------------------------------------------------------------------
(* The theorems. *)

LEMMA InvInit == Init => Inv
<1> SUFFICES ASSUME Init PROVE Inv
  OBVIOUS
<1>1. left \in Seq(Interpreters) /\ Len(left) <= MaxTries
  <2>1. PICK n \in 0..MaxTries : left \in [1..n -> Interpreters]
    BY DEF Init
  <2>2. n \in Nat /\ n <= MaxTries
    BY Distinct
  <2> QED
    BY <2>1, <2>2
<1>2. TypeOK
  <2>1. driver \in [at : {"spawn", "handshake", "idle", "accept", "work", "refused"},
                   job : Jobs \cup {None}]
    BY DEF Init
  <2>2. pipe \in [open : BOOLEAN, lines : Seq(Jobs)] /\ Len(pipe.lines) <= 1
    BY DEF Init
  <2>3. child \in Children
    BY DEF Init, Children
  <2>4. out \in Seq(Message) /\ said \in [Jobs -> Seq(Replies)]
    BY DEF Init
  <2>5. outcome \in [Jobs -> {"done", None} \cup Reasons \cup Errors]
    BY DEF Init
  <2> QED
    BY <1>1, <2>1, <2>2, <2>3, <2>4, <2>5 DEF Init, TypeOK, Children
<1>3. WhileSearching /\ WhileIdle /\ WhileWaiting /\ WhileWorking
  BY DEF Init, WhileSearching, WhileIdle, WhileWaiting, WhileWorking, Waiting, Alive, At
<1>4. Settled
  <2>1. <<>> \in Saying /\ <<>> # <<"accepted", "done">>
    BY DEF Saying
  <2> QED
    BY <2>1, Distinct DEF Init, Settled
<1> QED
  BY <1>2, <1>3, <1>4 DEF Inv

LEMMA InvNext == Inv /\ [Next]_vars => Inv'
<1> SUFFICES ASSUME Inv, [Next]_vars PROVE Inv'
  OBVIOUS
<1>1. left \in Seq(Interpreters) /\ Len(left) <= MaxTries /\ clips \in [Jobs -> Clips]
  BY DEF Inv, TypeOK
<1>2. CASE UNCHANGED vars
  BY <1>1, <1>2, QuietKept DEF vars
<1>3. ASSUME NEW j \in Jobs, ClipGoes(j) PROVE Inv'
  <2>1. clips' \in [Jobs -> Clips]
    BY <1>1, <1>3 DEF ClipGoes, Clips
  <2> QED
    BY <1>1, <1>3, <2>1, QuietKept DEF ClipGoes
<1>4. CASE DriverStep
  BY <1>4, TryKept, GiveUpKept, ShakeHandsKept, NextReplyKept, NoReplyKept DEF DriverStep
<1>5. CASE ChildStep \/ Stray \/ Dies \/ TakenDown
  BY <1>5, StartupKept, ReadLineKept, OpenKept, PoseKept, DiesKept, TakenDownKept DEF ChildStep
<1> QED
  BY <1>2, <1>3, <1>4, <1>5, RunKept DEF Next

\* All that is on its way to the driver is about the job it waits for, and while
\* nobody waits nothing is on its way and nobody works.
THEOREM Invariant == Spec => []Inv
  BY InvInit, InvNext, PTL DEF Spec

\* The state is of its type: at most one line waits in the child's stdin.
THEOREM TypeCorrect == Spec => []TypeOK
  BY Invariant, PTL DEF Inv

\* next_reply and attribute: what run returns for a job is what the child said last
\* about that very job, for any number of jobs and whatever else reaches the pipe.
THEOREM NoReplyCrossesOver == Spec => []OutcomeIsItsOwn
<1>1. Inv => OutcomeIsItsOwn
  <2> SUFFICES ASSUME Inv, NEW j \in Jobs
               PROVE  /\ outcome[j] \in Reasons \cup {"done"} =>
                           said[j] # <<>> /\ Last(said[j]) = outcome[j]
                      /\ outcome[j] = "done" =>
                           Front(said[j]) = <<"accepted">> /\ asks[j] = "whole"
    BY DEF OutcomeIsItsOwn
  <2>1. /\ said[j] = <<"accepted", "done">> => asks[j] = "whole"
        /\ outcome[j] \in Reasons => said[j] \in {<<outcome[j]>>, <<"accepted", outcome[j]>>}
        /\ outcome[j] = "done" => said[j] = <<"accepted", "done">>
    BY DEF Inv, Settled
  <2>2. ASSUME NEW x PROVE /\ <<x>> # <<>> /\ Last(<<x>>) = x
                          /\ <<"accepted", x>> # <<>> /\ Last(<<"accepted", x>>) = x
    BY DEF Last
  <2>3. Front(<<"accepted", "done">>) = <<"accepted">>
    <3> DEFINE S == {"accepted", "done"}
               q == <<"accepted", "done">>
               f == SubSeq(q, 1, 1)
               t == <<"accepted">>
    <3>1. q \in Seq(S) /\ Len(q) = 2 /\ q[1] = "accepted"
      OBVIOUS
    <3>2. t \in Seq(S) /\ Len(t) = 1 /\ t[1] = "accepted"
      OBVIOUS
    <3>3. Front(q) = f
      BY <3>1 DEF Front
    <3> HIDE DEF q, t, S
    <3>4. f \in Seq(S) /\ Len(f) = 1 /\ f[1] = q[1]
      <4>1. 1 \in 1..Len(q) + 1 /\ 1 \in 0..Len(q)
        BY <3>1
      <4> QED
        BY <3>1, <4>1
    <3> HIDE DEF f
    <3>5. f = t
      <4>1. \A i \in 1..Len(f) : f[i] = t[i]
        BY <3>1, <3>2, <3>4
      <4> QED
        BY <3>2, <3>4, <4>1, SeqEqual
    <3> QED
      BY <3>3, <3>5 DEF q, t
  <2> QED
    BY <2>1, <2>2, <2>3
<1> QED
  BY <1>1, Invariant, PTL

\* fail, spawn and the drop of Proc: nobody is left posing a clip no driver waits
\* for, and no interpreter is left running that was turned down.
THEOREM NobodyWorksForNobody == Spec => []NoOrphanWork
<1>1. Inv => NoOrphanWork
  BY DEF Inv, WhileWorking, WhileSearching, NoOrphanWork, Waiting, At
<1> QED
  BY <1>1, Invariant, PTL
=============================================================================
