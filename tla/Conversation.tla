---------------------------- MODULE Conversation ----------------------------
(***************************************************************************)
(* Asking about a swing: a transcript is loaded or seeded, the question is *)
(* put to the model with the whole transcript before it, and the answered  *)
(* turn is written back.  The web route is a plain def, so each ask runs   *)
(* on a thread of the server's pool; ask_swing.py is another process that  *)
(* does the same to the same directory.  Nothing locks a transcript.       *)
(* Source: api/app.py, feedback/conversation.py, contracts/conversation.py,*)
(* storage/transcript_store.py and scripts/ask_swing.py.                   *)
(*                                                                         *)
(* save_transcript opens a temporary file whose name is the conversation's,*)
(* writes and renames it.  An open file follows its inode: whoever has the *)
(* temporary file open when another writer renames it goes on writing into *)
(* the published file.                                                     *)
(***************************************************************************)
EXTENDS Naturals, Sequences

CONSTANTS
  Threads,   \* of the web server
  Scripts,   \* runs of ask_swing.py
  Convs,     \* conversation ids
  Models,    \* values of coaching_model and --model
  MaxAsks,   \* BOUND: questions in all
  MaxRounds, \* BOUND: tool calls in one answer
  MaxTakes,  \* BOUND: swings that get the one swing id
  None, Torn

\* A message: who wrote it, on which question, with the brief before it or not.
Message == [kind : {"question", "call", "result", "answer"}, of : 1..MaxAsks,
            brief : BOOLEAN, by : Models \cup {None}]

Transcript == [model : Models, about : 0..MaxTakes, digest : BOOLEAN,
               updated : Nat, messages : Seq(Message)]

ASSUME ConversationConstants ==
  /\ MaxAsks \in Nat /\ MaxRounds \in Nat /\ MaxTakes \in Nat
  /\ None # Torn /\ None \notin Convs \cup Transcript /\ Torn \notin Transcript

VARIABLES
  disk,     \* conv -> what its .json holds: None, Torn or a transcript
  tmp,      \* conv -> what its .tmp holds
  asker,    \* thread or script -> the ask it is doing
  settings, \* the model the server was started with
  take,     \* which swing holds the swing id, 0 when it was deleted
  takes,    \* how many swings have held it
  asked,    \* questions asked; each is named by its number
  clock,    \* the time of the last save
  told,     \* conv -> the questions whose answer reached the client
  crossed   \* the conversations that two askers held at once

vars == <<disk, tmp, asker, settings, take, takes, asked, clock, told, crossed>>

Askers == Threads \cup Scripts

Idle == [at |-> "idle", conv |-> None, model |-> None, brief |-> FALSE,
         of |-> 0, fd |-> None, transcript |-> None]

Readable(c) == disk[c] \notin {None, Torn}

TypeOK ==
  /\ \A c \in Convs : {disk[c], tmp[c]} \subseteq {None, Torn} \cup Transcript
  /\ \A a \in Askers :
       /\ asker[a].at \in {"idle", "asking", "saving", "opened", "written", "answered"}
       /\ asker[a].fd \in {None, "tmp", "disk", "orphan"}
       /\ asker[a].at # "idle" => asker[a].transcript \in Transcript
  /\ settings \in Models
  /\ take \in 0..takes /\ takes \in 0..MaxTakes
  /\ asked \in 0..MaxAsks /\ clock \in Nat
  /\ \A c \in Convs : told[c] \subseteq 1..asked
  /\ crossed \subseteq Convs

Init ==
  /\ disk = [c \in Convs |-> None]
  /\ tmp = [c \in Convs |-> None]
  /\ asker = [a \in Askers |-> Idle]
  /\ settings \in Models
  /\ take = 0 /\ takes = 0 /\ asked = 0 /\ clock = 0
  /\ told = [c \in Convs |-> {}]
  /\ crossed = {}

-----------------------------------------------------------------------------
(* One ask. *)

Holding(c) == {b \in Askers : asker[b].conv = c}

Take(a, c, model, brief, t) ==
  /\ asked' = asked + 1
  /\ crossed' = IF Holding(c) = {} THEN crossed ELSE crossed \cup {c}
  /\ asker' = [asker EXCEPT ![a] = [at |-> "asking", conv |-> c, model |-> model, brief |-> brief,
                                    of |-> asked + 1, fd |-> None, transcript |-> t]]
  /\ UNCHANGED <<disk, tmp, settings, take, takes, clock, told>>

\* The web route checks the swing first, the script only what --resume names.
Resume(a, c, model) ==
  /\ Readable(c)
  /\ Take(a, c, model, FALSE, disk[c])

Fresh(c) == disk[c] = None /\ tmp[c] = None /\ Holding(c) = {}

\* The web route asks without a brief when the swing has no readable analysis;
\* the script refuses.
Seed(a, c, model, brief) ==
  /\ Fresh(c)
  /\ take # 0
  /\ Take(a, c, model, brief,
          [model |-> model, about |-> take, digest |-> FALSE, updated |-> 0, messages |-> <<>>])

AskOverWeb(a) ==
  /\ a \in Threads /\ take # 0
  /\ \E c \in Convs : Resume(a, c, settings) \/ \E brief \in BOOLEAN : Seed(a, c, settings, brief)

AskFromScript(a) ==
  /\ a \in Scripts
  /\ \E c \in Convs, model \in Models : Resume(a, c, model) \/ Seed(a, c, model, TRUE)

Ask(a) ==
  /\ asker[a] = Idle
  /\ asked < MaxAsks
  /\ AskOverWeb(a) \/ AskFromScript(a)

\* MUTANT: any transcript is replayed into any model.
ReplayableByAny(t, model) == TRUE

ReplayableBy(t, model) == t.model = model

\* _mirror: every response and every tool result is appended, to a list that
\* is the turn's own until the turn is known to be answered.
Rounds(n, model, k) ==
  [i \in 1..(2 * k) |-> [kind |-> IF i % 2 = 1 THEN "call" ELSE "result", of |-> n,
                         brief |-> FALSE, by |-> IF i % 2 = 1 THEN model ELSE None]]

Opening(s) == [kind |-> "question", of |-> s.of, by |-> None,
               brief |-> s.transcript.messages = <<>> /\ s.brief]

\* MUTANT: the turn is stored without the conversation it continues.
TurnAlone(s, k) == <<Opening(s)>> \o Rounds(s.of, s.model, k)

Turn(s, k) == s.transcript.messages \o <<Opening(s)>> \o Rounds(s.of, s.model, k)

Answer(s) == [kind |-> "answer", of |-> s.of, brief |-> FALSE, by |-> s.model]

Grown(s, messages) ==
  [s.transcript EXCEPT !.messages = messages,
                       !.digest = s.transcript.digest \/ Opening(s).brief]

Kept(s, messages) == [s EXCEPT !.at = "saving", !.transcript = Grown(s, messages)]

\* No SDK, no key, another model's transcript, an error, no text, a refusal,
\* or tool calls until the iterations ran out: nothing is kept.
Unanswered(a) == asker' = [asker EXCEPT ![a] = Idle]

\* MUTANT: the turn is stored although its tool calls ran out of iterations.
AnsweredOrNot(a) ==
  /\ ReplayableBy(asker[a].transcript, asker[a].model)
  /\ \E k \in 0..MaxRounds, done \in BOOLEAN :
       asker' = [asker EXCEPT ![a] =
         Kept(asker[a], IF done THEN Append(Turn(asker[a], k), Answer(asker[a]))
                                ELSE Turn(asker[a], k))]

Answered(a) ==
  /\ ReplayableBy(asker[a].transcript, asker[a].model)
  /\ \E k \in 0..MaxRounds :
       asker' = [asker EXCEPT ![a] = Kept(asker[a], Append(Turn(asker[a], k), Answer(asker[a])))]

Converse(a) ==
  /\ asker[a].at = "asking"
  /\ Unanswered(a) \/ Answered(a)
  /\ UNCHANGED <<disk, tmp, settings, take, takes, asked, clock, told, crossed>>

-----------------------------------------------------------------------------
(* save_transcript. *)

Opened(s, now) ==
  [s EXCEPT !.at = "opened", !.fd = "tmp",
            !.transcript = [s.transcript EXCEPT !.updated = now]]

\* Opening for writing empties the file, and makes it when it is not there.
SaveOpen(a) ==
  /\ asker[a].at = "saving"
  /\ clock' = clock + 1
  /\ tmp' = [tmp EXCEPT ![asker[a].conv] = Torn]
  /\ asker' = [asker EXCEPT ![a] = Opened(asker[a], clock + 1)]
  /\ UNCHANGED <<disk, settings, take, takes, asked, told, crossed>>

\* Two writers of one inode both start at its first byte: the later one covers
\* the earlier, all of it or only its head.
Laid(old, t) == IF old = Torn THEN {t} ELSE {t, Torn}

SaveWrite(a) ==
  LET c == asker[a].conv
  IN /\ asker[a].at = "opened"
     /\ \/ /\ asker[a].fd = "tmp"
           /\ \E x \in Laid(tmp[c], asker[a].transcript) : tmp' = [tmp EXCEPT ![c] = x]
           /\ UNCHANGED disk
        \/ /\ asker[a].fd = "disk"
           /\ \E x \in Laid(disk[c], asker[a].transcript) : disk' = [disk EXCEPT ![c] = x]
           /\ UNCHANGED tmp
        \/ asker[a].fd = "orphan" /\ UNCHANGED <<disk, tmp>>
     /\ asker' = [asker EXCEPT ![a].at = "written"]
     /\ UNCHANGED <<settings, take, takes, asked, clock, told, crossed>>

\* Who else has the renamed file open, and who has the one it replaced.
Follows(fd) == CASE fd = "tmp" -> "disk" [] fd = "disk" -> "orphan" [] OTHER -> fd

Renamed(a, c) ==
  [b \in Askers |->
     IF b = a THEN [asker[a] EXCEPT !.at = "answered", !.fd = None]
     ELSE IF asker[b].conv = c THEN [asker[b] EXCEPT !.fd = Follows(@)]
     ELSE asker[b]]

\* The rename of a name another writer has renamed already raises, and the
\* answer is lost with it.
SaveReplace(a) ==
  LET c == asker[a].conv
  IN /\ asker[a].at = "written"
     /\ IF tmp[c] = None
          THEN asker' = [asker EXCEPT ![a] = Idle] /\ UNCHANGED <<disk, tmp>>
          ELSE /\ disk' = [disk EXCEPT ![c] = tmp[c]]
               /\ tmp' = [tmp EXCEPT ![c] = None]
               /\ asker' = Renamed(a, c)
     /\ UNCHANGED <<settings, take, takes, asked, clock, told, crossed>>

Reply(a) ==
  /\ asker[a].at = "answered"
  /\ told' = [told EXCEPT ![asker[a].conv] = @ \cup {asker[a].of}]
  /\ asker' = [asker EXCEPT ![a] = Idle]
  /\ UNCHANGED <<disk, tmp, settings, take, takes, asked, clock, crossed>>

-----------------------------------------------------------------------------
(* The rest of the world. *)

\* The server ends at any moment and its threads with it; it comes back with
\* the settings of the day.
Restart(model) ==
  /\ settings' = model
  /\ asker' = [a \in Askers |-> IF a \in Threads THEN Idle ELSE asker[a]]
  /\ UNCHANGED <<disk, tmp, take, takes, asked, clock, told, crossed>>

Interrupt(a) ==
  /\ a \in Scripts /\ asker[a] # Idle
  /\ asker' = [asker EXCEPT ![a] = Idle]
  /\ UNCHANGED <<disk, tmp, settings, take, takes, asked, clock, told, crossed>>

\* A swing's id is one more than the largest of its session, so deleting the
\* last swing hands its id to the next.  Its conversations stay.
SwingDeleted ==
  /\ take # 0
  /\ take' = 0
  /\ UNCHANGED <<disk, tmp, asker, settings, takes, asked, clock, told, crossed>>

SwingUploaded ==
  /\ take = 0 /\ takes < MaxTakes
  /\ take' = takes + 1 /\ takes' = takes + 1
  /\ UNCHANGED <<disk, tmp, asker, settings, asked, clock, told, crossed>>

Step(a) == Ask(a) \/ Converse(a) \/ SaveOpen(a) \/ SaveWrite(a) \/ SaveReplace(a) \/ Reply(a)

Next ==
  \/ \E a \in Askers : Step(a) \/ Interrupt(a)
  \/ \E model \in Models : Restart(model)
  \/ SwingDeleted
  \/ SwingUploaded

Spec == Init /\ [][Next]_vars

-----------------------------------------------------------------------------
(* Properties *)

\* Whatever overlaps, what can be read is whole turns: a question, the tool
\* calls with their results, one answer; never a question nobody answered, which
\* is what AskOutcome promises of a turn that did not happen.
WholeTurns(ms) ==
  \A i \in DOMAIN ms :
    LET before == IF i = 1 THEN "answer" ELSE ms[i - 1].kind
        after == IF i = Len(ms) THEN "question" ELSE ms[i + 1].kind
    IN /\ ms[i].kind = "question" <=> before = "answer"
       /\ ms[i].kind = "answer" <=> after = "question"
       /\ ms[i].kind = "call" => after = "result"
       /\ ms[i].kind # "question" => ms[i].of = ms[i - 1].of

NoHalfTurn ==
  \A c \in Convs : Readable(c) =>
    disk[c].messages # <<>> /\ WholeTurns(disk[c].messages)

\* Everything a model wrote in a stored transcript was written by the model the
\* transcript names, through restarts with another coaching_model and scripts
\* run with another --model: thinking blocks are only legal in the model that
\* produced them.
OneModel ==
  \A c \in Convs : Readable(c) =>
    \A i \in DOMAIN disk[c].messages : disk[c].messages[i].by \in {None, disk[c].model}

\* An answer the golfer was given is in the stored conversation for good, as
\* long as nobody asked the same conversation two things at once: through
\* failures, crashes in the middle of a save and another process's turns.
AnswersAreKept ==
  \A c \in Convs \ crossed : told[c] # {} =>
    /\ Readable(c)
    /\ \A n \in told[c] : \E i \in DOMAIN disk[c].messages :
         disk[c].messages[i].kind = "answer" /\ disk[c].messages[i].of = n

=============================================================================
