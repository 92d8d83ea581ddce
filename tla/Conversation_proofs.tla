------------------------ MODULE Conversation_proofs ------------------------
(***************************************************************************)
(* What is kept of a conversation, for any number of threads, scripts,     *)
(* conversations, models and questions.  Two arguments: every transcript   *)
(* anybody holds or has written is whole turns of one model; and as long   *)
(* as a conversation was never asked two things at once, whoever is asking *)
(* it holds all the answers its golfer was given.                          *)
(***************************************************************************)
EXTENDS Conversation, SequenceTheorems, TLAPS

Saves == {"saving", "opened", "written", "answered"}

Asker == [at : {"asking"} \cup Saves, conv : Convs, model : Models, brief : BOOLEAN,
          of : 1..MaxAsks, fd : {None, "tmp", "disk", "orphan"}, transcript : Transcript]

Typed ==
  /\ disk \in [Convs -> Transcript \cup {None, Torn}]
  /\ tmp \in [Convs -> Transcript \cup {None, Torn}]
  /\ asker \in [Askers -> Asker \cup {Idle}]
  /\ settings \in Models /\ take \in 0..takes /\ takes \in 0..MaxTakes
  /\ asked \in 0..MaxAsks /\ clock \in Nat
  /\ told \in [Convs -> SUBSET (1..asked)]
  /\ \A a \in Askers : asker[a].of <= asked
  /\ crossed \subseteq Convs

\* Whole turns, of the model the transcript names.
Own(t) == \A i \in DOMAIN t.messages : t.messages[i].by \in {None, t.model}
Sound(t) == WholeTurns(t.messages) /\ Own(t)

SoundInv ==
  /\ \A c \in Convs, x \in Transcript :
       x \in {disk[c], tmp[c]} => Sound(x) /\ x.messages # <<>>
  /\ \A a \in Askers : asker[a] # Idle =>
       /\ Sound(asker[a].transcript)
       /\ asker[a].at # "asking" => asker[a].transcript.messages # <<>>

\* The question was answered in the transcript.
Has(t, n) == \E i \in DOMAIN t.messages : t.messages[i].kind = "answer" /\ t.messages[i].of = n

\* What an ask has in hand when it is the only one of its conversation.
InHand(s, known, stored, temp) ==
  /\ \A n \in known : Has(s.transcript, n)
  /\ s.at \in Saves => Has(s.transcript, s.of)
  /\ s.at = "opened" => s.fd = "tmp" /\ temp = Torn
  /\ s.at = "written" => temp = s.transcript
  /\ s.at = "answered" => stored = s.transcript

\* A conversation that was only ever asked one thing at a time.
AloneInv ==
  \A c \in Convs \ crossed :
    /\ \A a, b \in Holding(c) : a = b
    /\ told[c] # {} => Readable(c)
    /\ \A n \in told[c] : Has(disk[c], n)
    /\ \A a \in Holding(c) : InHand(asker[a], told[c], disk[c], tmp[c])

Inv == Typed /\ SoundInv /\ AloneInv
-----------------------------------------------------------------------------
(* A turn, and the transcript it is appended to. *)

LEMMA Names ==
  /\ None # Torn /\ None \notin Convs /\ None \notin Transcript /\ Torn \notin Transcript
  /\ MaxAsks \in Nat /\ MaxRounds \in Nat /\ MaxTakes \in Nat
  /\ Idle \notin Asker /\ Idle.conv = None /\ Idle.at = "idle" /\ Idle.of = 0
  BY ConversationConstants DEF Idle, Asker, Saves

LEMMA Appended ==
  ASSUME NEW S, NEW q \in Seq(S), NEW x \in S, NEW n \in Nat, Len(q) = n
  PROVE  /\ Append(q, x) \in Seq(S) /\ Len(Append(q, x)) = n + 1
         /\ \A i \in 1..n : Append(q, x)[i] = q[i]
         /\ Append(q, x)[n + 1] = x
  OBVIOUS

\* Where each message of an answered turn is.
LEMMA TurnAt ==
  ASSUME NEW s \in Asker, NEW k \in Nat
  PROVE  LET ms == s.transcript.messages
             m == Len(ms)
             turn == Append(Turn(s, k), Answer(s))
         IN /\ m \in Nat /\ Len(turn) = m + 2 * k + 2
            /\ \A i \in 1..m : turn[i] = ms[i]
            /\ turn[m + 1] = Opening(s)
            /\ \A j \in 1..(2 * k) : turn[m + 1 + j] = Rounds(s.of, s.model, k)[j]
            /\ turn[m + 2 * k + 2] = Answer(s)
            /\ turn \in Seq(Message)
<1> DEFINE ms == s.transcript.messages
           m == Len(ms)
           r == Rounds(s.of, s.model, k)
           body == ms \o <<Opening(s)>>
           turn == Append(Turn(s, k), Answer(s))
<1>1. /\ ms \in Seq(Message) /\ m \in Nat /\ s.of \in 1..MaxAsks /\ s.model \in Models
      /\ s.brief \in BOOLEAN
  BY DEF Asker, Transcript
<1>2. Opening(s) \in Message /\ Answer(s) \in Message
  BY <1>1 DEF Opening, Answer, Message
<1>3. r \in Seq(Message) /\ Len(r) = 2 * k
  <2>1. \A i \in 1..(2 * k) :
          [kind |-> IF i % 2 = 1 THEN "call" ELSE "result", of |-> s.of,
           brief |-> FALSE, by |-> IF i % 2 = 1 THEN s.model ELSE None] \in Message
    BY <1>1 DEF Message
  <2> QED
    BY <2>1 DEF Rounds
<1> HIDE DEF ms, r
<1>4. /\ body \in Seq(Message) /\ Len(body) = m + 1 /\ body[m + 1] = Opening(s)
      /\ \A i \in 1..m : body[i] = ms[i]
  BY <1>1, <1>2
<1> HIDE DEF body
<1>5. /\ body \o r \in Seq(Message) /\ Len(body \o r) = m + 1 + 2 * k
      /\ \A i \in 1..(m + 1) : (body \o r)[i] = body[i]
      /\ \A j \in 1..(2 * k) : (body \o r)[m + 1 + j] = r[j]
  BY <1>1, <1>3, <1>4
<1>6. Turn(s, k) = body \o r
  BY DEF Turn, body, ms, r
<1> DEFINE all == body \o r
<1> HIDE DEF all
<1>7. turn = Append(all, Answer(s))
  BY <1>6 DEF all
<1>8. /\ turn \in Seq(Message) /\ Len(turn) = m + 1 + 2 * k + 1
      /\ \A i \in 1..(m + 1 + 2 * k) : turn[i] = all[i]
      /\ turn[m + 1 + 2 * k + 1] = Answer(s)
  <2>1. all \in Seq(Message) /\ Len(all) = m + 1 + 2 * k
    BY <1>5 DEF all
  <2> QED
    <3> DEFINE n == m + 1 + 2 * k
    <3>1. n \in Nat
      BY <1>1
    <3> HIDE DEF n, turn
    <3>2. Len(all) = n
      BY <2>1 DEF n
    <3>3. /\ turn \in Seq(Message) /\ Len(turn) = n + 1
          /\ \A i \in 1..n : turn[i] = all[i]
          /\ turn[n + 1] = Answer(s)
      BY <1>2, <1>7, <2>1, <3>1, <3>2, Appended
    <3> QED
      BY <3>3 DEF n
<1> HIDE DEF turn
<1>9. \A i \in 1..m : turn[i] = ms[i]
  <2>1. \A i \in 1..m : i \in 1..(m + 1) /\ i \in 1..(m + 1 + 2 * k)
    BY <1>1
  <2> QED
    BY <2>1, <1>4, <1>5, <1>8 DEF all
<1>10. turn[m + 1] = Opening(s)
  <2>1. m + 1 \in 1..(m + 1) /\ m + 1 \in 1..(m + 1 + 2 * k)
    BY <1>1
  <2> QED
    BY <2>1, <1>4, <1>5, <1>8 DEF all
<1>11. \A j \in 1..(2 * k) : turn[m + 1 + j] = r[j]
  <2>1. \A j \in 1..(2 * k) : m + 1 + j \in 1..(m + 1 + 2 * k)
    BY <1>1
  <2> QED
    BY <2>1, <1>5, <1>8 DEF all
<1>12. Len(turn) = m + 2 * k + 2 /\ turn[m + 2 * k + 2] = Answer(s)
  BY <1>1, <1>8
<1> QED
  BY <1>1, <1>8, <1>9, <1>10, <1>11, <1>12 DEF turn, ms, r

\* What is kept of an answered turn: whole turns of one model, this one among them.
LEMMA TurnIsWhole ==
  ASSUME NEW s \in Asker, NEW k \in Nat, WholeTurns(s.transcript.messages)
  PROVE  WholeTurns(Append(Turn(s, k), Answer(s)))
<1> DEFINE ms == s.transcript.messages
           m == Len(ms)
           r == Rounds(s.of, s.model, k)
           turn == Append(Turn(s, k), Answer(s))
           last == m + 2 * k + 2
<1>1. /\ m \in Nat /\ Len(turn) = last /\ last \in Nat /\ DOMAIN turn = 1..last
      /\ \A i \in 1..m : turn[i] = ms[i]
      /\ turn[m + 1] = Opening(s)
      /\ \A j \in 1..(2 * k) : turn[m + 1 + j] = r[j]
      /\ turn[last] = Answer(s)
      /\ DOMAIN ms = 1..m
  <2>1. /\ m \in Nat /\ Len(turn) = last
        /\ \A i \in 1..m : turn[i] = ms[i]
        /\ turn[m + 1] = Opening(s)
        /\ \A j \in 1..(2 * k) : turn[m + 1 + j] = r[j]
        /\ turn[last] = Answer(s)
        /\ turn \in Seq(Message)
    BY TurnAt
  <2>2. ms \in Seq(Message)
    BY DEF Asker, Transcript
  <2> HIDE DEF ms, r, turn
  <2>3. last \in Nat /\ DOMAIN turn = 1..last /\ DOMAIN ms = 1..m
    BY <2>1, <2>2
  <2> QED
    BY <2>1, <2>3
<1>2. /\ Opening(s).kind = "question" /\ Opening(s).of = s.of
      /\ Answer(s).kind = "answer" /\ Answer(s).of = s.of
  BY DEF Opening, Answer
<1>3. \A j \in 1..(2 * k) : /\ r[j].of = s.of
                            /\ r[j].kind = IF j % 2 = 1 THEN "call" ELSE "result"
  BY DEF Rounds
<1> HIDE DEF ms, r, turn
<1> DEFINE BeforeIn(q, i) == IF i = 1 THEN "answer" ELSE q[i - 1].kind
           AfterIn(q, i) == IF i = Len(q) THEN "question" ELSE q[i + 1].kind
           Fits(q, i) == /\ q[i].kind = "question" <=> BeforeIn(q, i) = "answer"
                         /\ q[i].kind = "answer" <=> AfterIn(q, i) = "question"
                         /\ q[i].kind = "call" => AfterIn(q, i) = "result"
                         /\ q[i].kind # "question" => q[i].of = q[i - 1].of
<1>4. \A i \in 1..m : Fits(ms, i)
  BY <1>1 DEF WholeTurns, ms
<1>5. ASSUME NEW i \in 1..m PROVE Fits(turn, i)
  <2>1. turn[i] = ms[i] /\ (i # 1 => turn[i - 1] = ms[i - 1])
    BY <1>1
  <2>2. AfterIn(turn, i) = AfterIn(ms, i)
    <3>1. CASE i = m
      BY <1>1, <1>2, <3>1
    <3>2. CASE i # m
      <4>1. turn[i + 1] = ms[i + 1] /\ i # Len(turn)
        BY <1>1, <3>2
      <4> QED
        BY <3>2, <4>1
    <3> QED
      BY <3>1, <3>2
  <2>3. BeforeIn(turn, i) = BeforeIn(ms, i)
    BY <2>1
  <2>4. ms[i].kind # "question" => i # 1
    BY <1>4
  <2> HIDE DEF BeforeIn, AfterIn
  <2> QED
    BY <1>4, <2>1, <2>2, <2>3, <2>4
<1>6. Fits(turn, m + 1)
  <2>1. m + 1 # Len(turn) /\ m + 1 + 1 = m + 2
    BY <1>1
  <2>2. BeforeIn(turn, m + 1) = "answer"
    <3>1. CASE m = 0
      BY <3>1
    <3>2. CASE m # 0
      <4>1. m \in 1..m /\ AfterIn(ms, m) = "question" /\ m + 1 - 1 = m
        BY <1>1, <3>2
      <4>2. ms[m].kind = "answer"
        BY <1>4, <4>1
      <4> QED
        BY <1>1, <3>2, <4>1, <4>2
    <3> QED
      BY <3>1, <3>2
  <2>3. AfterIn(turn, m + 1) \in {"call", "answer"}
    <3>1. CASE k = 0
      BY <1>1, <1>2, <2>1, <3>1
    <3>2. CASE k # 0
      <4>1. 1 \in 1..(2 * k) /\ turn[m + 1 + 1] = r[1] /\ 1 % 2 = 1
        BY <1>1, <3>2
      <4> QED
        BY <1>3, <2>1, <4>1
    <3> QED
      BY <3>1, <3>2
  <2> HIDE DEF BeforeIn, AfterIn
  <2> QED
    BY <1>1, <1>2, <2>2, <2>3
<1>7. ASSUME NEW j \in 1..(2 * k) PROVE Fits(turn, m + 1 + j)
  <2>1. /\ turn[m + 1 + j] = r[j] /\ m + 1 + j - 1 = m + j /\ m + 1 + j + 1 = m + 2 + j
        /\ m + 1 + j # Len(turn) /\ m + 1 + j # 1
    BY <1>1
  <2>2. /\ turn[m + j].of = s.of /\ turn[m + j].kind # "answer"
    <3>1. CASE j = 1
      BY <1>1, <1>2, <3>1
    <3>2. CASE j # 1
      <4>1. j - 1 \in 1..(2 * k) /\ m + 1 + (j - 1) = m + j
        BY <1>1, <3>2
      <4> QED
        BY <1>1, <1>3, <4>1
    <3> QED
      BY <3>1, <3>2
  <2>3. /\ turn[m + 2 + j].kind # "question"
        /\ j % 2 = 1 => turn[m + 2 + j].kind = "result"
    <3>1. CASE j = 2 * k
      <4>1. m + 2 + j = last /\ j % 2 # 1
        BY <1>1, <3>1
      <4> QED
        BY <1>1, <1>2, <4>1
    <3>2. CASE j # 2 * k
      <4>1. j + 1 \in 1..(2 * k) /\ m + 1 + (j + 1) = m + 2 + j
        BY <1>1, <3>2
      <4>2. j % 2 = 1 => (j + 1) % 2 # 1
        OBVIOUS
      <4> QED
        BY <1>1, <1>3, <4>1, <4>2
    <3> QED
      BY <3>1, <3>2
  <2>4. BeforeIn(turn, m + 1 + j) # "answer" /\ AfterIn(turn, m + 1 + j) # "question"
    BY <2>1, <2>2, <2>3
  <2>5. j % 2 = 1 => AfterIn(turn, m + 1 + j) = "result"
    BY <2>1, <2>3
  <2>6. turn[m + 1 + j].of = s.of /\ turn[m + 1 + j - 1].of = s.of
    BY <1>3, <2>1, <2>2
  <2>7. turn[m + 1 + j].kind = IF j % 2 = 1 THEN "call" ELSE "result"
    BY <1>3, <2>1
  <2> HIDE DEF BeforeIn, AfterIn
  <2> QED
    BY <2>4, <2>5, <2>6, <2>7
<1>8. Fits(turn, last)
  <2>1. AfterIn(turn, last) = "question" /\ last # 1 /\ last - 1 = m + 2 * k + 1
    BY <1>1
  <2>2. turn[m + 2 * k + 1].kind # "answer" /\ turn[m + 2 * k + 1].of = s.of
    <3>1. CASE k = 0
      BY <1>1, <1>2, <3>1
    <3>2. CASE k # 0
      <4>1. 2 * k \in 1..(2 * k) /\ m + 1 + 2 * k = m + 2 * k + 1
        BY <1>1, <3>2
      <4> QED
        BY <1>1, <1>3, <4>1
    <3> QED
      BY <3>1, <3>2
  <2>3. BeforeIn(turn, last) # "answer"
    BY <2>1, <2>2
  <2> HIDE DEF BeforeIn, AfterIn, last
  <2> QED
    BY <1>1, <1>2, <2>1, <2>2, <2>3
<1>9. ASSUME NEW i \in 1..last
      PROVE  i \in 1..m \/ i = m + 1 \/ i = last \/ i - (m + 1) \in 1..(2 * k)
  <2>1. m \in Nat
    BY <1>1
  <2>2. CASE i <= m + 1
    BY ONLY <2>1, <2>2, k \in Nat
  <2>3. CASE i > m + 1
    BY ONLY <2>1, <2>3, k \in Nat
  <2> QED
    BY <2>1, <2>2, <2>3
<1>10. ASSUME NEW i \in 1..last PROVE Fits(turn, i)
  <2>1. i - (m + 1) \in 1..(2 * k) => i = m + 1 + (i - (m + 1))
    BY <1>1
  <2> HIDE DEF Fits
  <2> QED
    BY <1>5, <1>6, <1>7, <1>8, <1>9, <2>1
<1> QED
  BY <1>1, <1>10 DEF WholeTurns, turn

LEMMA GrownWell ==
  ASSUME NEW s \in Asker, NEW q \in Seq(Message)
  PROVE  /\ Grown(s, q) \in Transcript
         /\ Grown(s, q).messages = q /\ Grown(s, q).model = s.transcript.model
<1>1. s.transcript \in Transcript /\ Opening(s).brief \in BOOLEAN
  BY DEF Asker, Opening
<1>2. s.transcript.digest \/ Opening(s).brief \in BOOLEAN
  BY <1>1 DEF Transcript
<1> QED
  BY <1>1, <1>2 DEF Grown, Transcript

LEMMA KeptWell ==
  ASSUME NEW s \in Asker, NEW q \in Seq(Message)
  PROVE  LET kept == Kept(s, q)
         IN /\ kept \in Asker /\ kept.at = "saving" /\ kept.conv = s.conv /\ kept.of = s.of
            /\ kept.transcript = Grown(s, q)
<1>1. Grown(s, q) \in Transcript
  BY GrownWell
<1> DEFINE t == Grown(s, q)
<1> HIDE DEF t
<1>2. Kept(s, q) = [s EXCEPT !.at = "saving", !.transcript = t]
  BY DEF Kept, t
<1>3. t \in Transcript
  BY <1>1 DEF t
<1> QED
  BY <1>2, <1>3 DEF Asker, Saves, t

LEMMA OpenedWell ==
  ASSUME NEW s \in Asker, NEW now \in Nat
  PROVE  LET opened == Opened(s, now)
         IN /\ opened \in Asker /\ opened.at = "opened" /\ opened.fd = "tmp"
            /\ opened.conv = s.conv /\ opened.of = s.of
            /\ opened.transcript.messages = s.transcript.messages
            /\ opened.transcript.model = s.transcript.model
<1> DEFINE t == [s.transcript EXCEPT !.updated = now]
<1>1. /\ t \in Transcript /\ t.messages = s.transcript.messages
      /\ t.model = s.transcript.model
  BY DEF Asker, Transcript
<1> HIDE DEF t
<1>2. Opened(s, now) = [s EXCEPT !.at = "opened", !.fd = "tmp", !.transcript = t]
  BY DEF Opened, t
<1>3. /\ Opened(s, now) \in Asker /\ Opened(s, now).at = "opened" /\ Opened(s, now).fd = "tmp"
      /\ Opened(s, now).conv = s.conv /\ Opened(s, now).of = s.of
      /\ Opened(s, now).transcript = t
  BY <1>1, <1>2 DEF Asker, Saves
<1> QED
  BY <1>1, <1>3

\* What an answered turn leaves of the transcript it continued.
LEMMA AnsweredWell ==
  ASSUME NEW s \in Asker, NEW k \in Nat, Sound(s.transcript),
         ReplayableBy(s.transcript, s.model)
  PROVE  LET t == Grown(s, Append(Turn(s, k), Answer(s)))
         IN /\ Append(Turn(s, k), Answer(s)) \in Seq(Message)
            /\ Sound(t) /\ t.messages # <<>> /\ Has(t, s.of)
            /\ \A n : Has(s.transcript, n) => Has(t, n)
<1> DEFINE turn == Append(Turn(s, k), Answer(s))
           t == Grown(s, turn)
           ms == s.transcript.messages
           m == Len(ms)
           last == m + 2 * k + 2
<1>1. /\ m \in Nat /\ Len(turn) = last /\ turn \in Seq(Message)
      /\ \A i \in 1..m : turn[i] = ms[i]
      /\ turn[m + 1] = Opening(s)
      /\ \A j \in 1..(2 * k) : turn[m + 1 + j] = Rounds(s.of, s.model, k)[j]
      /\ turn[last] = Answer(s)
  BY TurnAt
<1>2. ms \in Seq(Message) /\ s.model = s.transcript.model
  BY DEF Asker, Transcript, ReplayableBy
<1>3. t.messages = turn /\ t.model = s.model
  BY <1>1, <1>2, GrownWell
<1>4. WholeTurns(turn)
  BY TurnIsWhole DEF Sound
<1> HIDE DEF turn, t, ms
<1>5. /\ DOMAIN turn = 1..last /\ DOMAIN ms = 1..m /\ last \in 1..last /\ turn # <<>>
      /\ \A i \in 1..m : i \in 1..last
  BY <1>1, <1>2
<1>6. Own(t)
  <2>1. ASSUME NEW i \in 1..last PROVE turn[i].by \in {None, s.model}
    <3>1. CASE i \in 1..m
      <4>1. ms[i].by \in {None, s.model}
        BY <1>2, <1>5, <3>1 DEF Sound, Own, ms
      <4> QED
        BY <1>1, <3>1, <4>1
    <3>2. CASE i = m + 1
      BY <1>1, <3>2 DEF Opening
    <3>3. CASE i = last
      BY <1>1, <3>3 DEF Answer
    <3>4. CASE i > m + 1 /\ i < last
      <4> DEFINE j == i - (m + 1)
      <4>1. j \in 1..(2 * k) /\ i = m + 1 + j
        BY ONLY <1>1, <3>4, k \in Nat, i \in 1..last
      <4>2. Rounds(s.of, s.model, k)[j].by \in {None, s.model}
        BY <4>1 DEF Rounds
      <4> QED
        BY <1>1, <4>1, <4>2
    <3> QED
      BY <1>1, <3>1, <3>2, <3>3, <3>4
  <2> QED
    BY <1>3, <1>5, <2>1 DEF Own
<1>7. Has(t, s.of)
  <2>1. turn[last].kind = "answer" /\ turn[last].of = s.of
    BY <1>1 DEF Answer
  <2> QED
    BY <1>3, <1>5, <2>1 DEF Has
<1>8. ASSUME NEW n, Has(s.transcript, n) PROVE Has(t, n)
  <2>1. PICK i \in 1..m : ms[i].kind = "answer" /\ ms[i].of = n
    BY <1>5, <1>8 DEF Has, ms
  <2>2. i \in DOMAIN turn /\ turn[i] = ms[i]
    BY <1>1, <1>5, <2>1
  <2> QED
    BY <1>3, <2>1, <2>2 DEF Has
<1> QED
  BY <1>1, <1>3, <1>4, <1>5, <1>6, <1>7, <1>8 DEF Sound, turn, t

-----------------------------------------------------------------------------
(* The steps. *)

\* Whoever holds a conversation is asking.
LEMMA Holders ==
  ASSUME Typed, NEW c \in Convs, NEW a \in Holding(c)
  PROVE  /\ a \in Askers /\ asker[a] \in Asker /\ asker[a].conv = c /\ asker[a] # Idle
         /\ asker[a].at \in {"asking"} \cup Saves
<1>1. a \in Askers /\ asker[a].conv = c /\ asker[a] \in Asker \cup {Idle}
  BY DEF Holding, Typed
<1>2. asker[a] # Idle
  BY <1>1, Names
<1> QED
  BY <1>1, <1>2 DEF Asker

\* An ask that is doing something.
LEMMA Busy ==
  ASSUME Typed, NEW a \in Askers, asker[a].at # "idle"
  PROVE  /\ asker[a] \in Asker /\ asker[a].conv \in Convs /\ asker[a] # Idle
         /\ asker[a].transcript \in Transcript /\ asker[a].of \in 1..asked
         /\ asked \in Nat
         /\ a \in Holding(asker[a].conv)
<1>1. asker[a] \in Asker \cup {Idle} /\ asker[a].of <= asked /\ asked \in Nat
  BY Names DEF Typed
<1>2. asker[a] # Idle
  BY Names
<1> QED
  BY <1>1, <1>2, Names DEF Asker, Holding

\* Asks are given up, all at once or one, and what they do not touch may change.
LEMMA LetGo ==
  ASSUME Inv, asker' \in [Askers -> Asker \cup {Idle}],
         \A b \in Askers : asker'[b] = asker[b] \/ asker'[b] = Idle,
         UNCHANGED <<disk, tmp, asked, told, crossed>>,
         settings' \in Models, takes' \in 0..MaxTakes, take' \in 0..takes', clock' \in Nat
  PROVE  Inv'
<1>1. Typed /\ SoundInv /\ AloneInv
  BY DEF Inv
<1>2. Typed'
  <2>1. \A b \in Askers : asker'[b].of <= asked
    BY <1>1, Names DEF Typed
  <2> QED
    BY <1>1, <2>1 DEF Typed
<1>3. SoundInv'
  BY <1>1 DEF SoundInv, Sound, Own
<1>4. AloneInv'
  <2> SUFFICES ASSUME NEW c \in Convs \ crossed
               PROVE  /\ \A a, b \in Holding(c)' : a = b
                      /\ (told[c] # {} => Readable(c))'
                      /\ (\A n \in told[c] : Has(disk[c], n))'
                      /\ \A a \in Holding(c)' : InHand(asker[a], told[c], disk[c], tmp[c])'
    BY DEF AloneInv
  <2>1. \A a \in Holding(c)' : a \in Holding(c) /\ asker'[a] = asker[a]
    BY Names DEF Holding
  <2>2. /\ \A a, b \in Holding(c) : a = b
        /\ told[c] # {} => Readable(c)
        /\ \A n \in told[c] : Has(disk[c], n)
        /\ \A a \in Holding(c) : InHand(asker[a], told[c], disk[c], tmp[c])
    BY <1>1 DEF AloneInv
  <2> QED
    BY <2>1, <2>2 DEF Readable, InHand, Has
<1> QED
  BY <1>2, <1>3, <1>4 DEF Inv

\* One ask goes a step further with its conversation.
LEMMA AloneStep ==
  ASSUME Inv, NEW a \in Askers, NEW c0 \in Convs, asker[a].conv = c0,
         asker'[a].conv = c0,
         \A b \in Askers \ {a} : \/ asker'[b] = asker[b]
                                 \/ asker[b].conv = c0 /\ asker'[b].conv = c0,
         UNCHANGED <<told, crossed>>,
         \A c \in Convs \ {c0} : disk'[c] = disk[c] /\ tmp'[c] = tmp[c],
         c0 \notin crossed => /\ told[c0] # {} => disk'[c0] \notin {None, Torn}
                              /\ \A n \in told[c0] : Has(disk'[c0], n)
                              /\ InHand(asker'[a], told'[c0], disk'[c0], tmp'[c0])
  PROVE  AloneInv'
<1>1. Typed /\ AloneInv
  BY DEF Inv
<1> SUFFICES ASSUME NEW c \in Convs \ crossed
             PROVE  /\ \A b, d \in Holding(c)' : b = d
                    /\ (told[c] # {} => Readable(c))'
                    /\ (\A n \in told[c] : Has(disk[c], n))'
                    /\ \A b \in Holding(c)' : InHand(asker[b], told[c], disk[c], tmp[c])'
  BY DEF AloneInv
<1>2. /\ \A b, d \in Holding(c) : b = d
      /\ told[c] # {} => Readable(c)
      /\ \A n \in told[c] : Has(disk[c], n)
      /\ \A b \in Holding(c) : InHand(asker[b], told[c], disk[c], tmp[c])
  BY <1>1 DEF AloneInv
<1>3. Holding(c)' = Holding(c)
  <2>1. \A b \in Askers : asker'[b].conv = asker[b].conv
    OBVIOUS
  <2> QED
    BY <2>1 DEF Holding
<1>4. CASE c = c0
  <2>1. \A b \in Holding(c) : b = a
    BY <1>2, <1>4 DEF Holding
  <2> QED
    BY <1>3, <1>4, <2>1 DEF Readable, Has
<1>5. CASE c # c0
  <2>1. \A b \in Holding(c) : asker'[b] = asker[b]
    BY <1>5 DEF Holding
  <2>2. disk'[c] = disk[c] /\ tmp'[c] = tmp[c]
    BY <1>5
  <2> QED
    BY <1>2, <1>3, <2>1, <2>2 DEF Readable, InHand, Has
<1> QED
  BY <1>4, <1>5

LEMMA TakeKept ==
  ASSUME Inv, NEW a \in Askers, asker[a] = Idle, asked < MaxAsks,
         NEW c \in Convs, NEW model \in Models, NEW brief \in BOOLEAN, NEW t \in Transcript,
         Sound(t), c \notin crossed => \A n \in told[c] : Has(t, n),
         Take(a, c, model, brief, t)
  PROVE  Inv'
<1> DEFINE s == [at |-> "asking", conv |-> c, model |-> model, brief |-> brief,
                 of |-> asked + 1, fd |-> None, transcript |-> t]
<1>1. Typed /\ SoundInv /\ AloneInv /\ asked \in Nat
  BY Names DEF Inv, Typed
<1>2. /\ asked' = asked + 1 /\ asker' = [asker EXCEPT ![a] = s]
      /\ crossed' = IF Holding(c) = {} THEN crossed ELSE crossed \cup {c}
      /\ disk' = disk /\ tmp' = tmp /\ settings' = settings /\ take' = take /\ takes' = takes
      /\ clock' = clock /\ told' = told
  BY DEF Take
<1>3. s \in Asker
  BY <1>1, Names DEF Asker
<1>4. s.at = "asking" /\ s.conv = c /\ s.transcript = t /\ s # Idle /\ s.of = asked + 1
  BY <1>3, Names
<1> HIDE DEF s
<1>5. /\ asker' \in [Askers -> Asker \cup {Idle}] /\ asker'[a] = s
      /\ \A b \in Askers \ {a} : asker'[b] = asker[b]
  BY <1>1, <1>2, <1>3 DEF Typed
<1>6. Typed'
  <2>1. \A b \in Askers : asker'[b].of <= asked'
    <3>1. \A b \in Askers : asker[b].of <= asked /\ asker[b] \in Asker \cup {Idle}
      BY <1>1 DEF Typed
    <3>2. \A b \in Askers : asker[b].of \in Nat
      BY <3>1, Names DEF Asker
    <3> QED
      BY <1>1, <1>2, <1>4, <1>5, <3>1, <3>2
  <2>2. asked' \in 0..MaxAsks /\ told' \in [Convs -> SUBSET (1..asked')]
    BY <1>1, <1>2, Names DEF Typed
  <2>3. crossed' \subseteq Convs
    BY <1>1, <1>2 DEF Typed
  <2> QED
    BY <1>1, <1>2, <1>5, <2>1, <2>2, <2>3 DEF Typed
<1>7. SoundInv'
  <2>1. \A b \in Askers : asker'[b] # Idle =>
          /\ Sound(asker'[b].transcript)
          /\ asker'[b].at # "asking" => asker'[b].transcript.messages # <<>>
    BY <1>1, <1>4, <1>5 DEF SoundInv
  <2> QED
    BY <1>1, <1>2, <2>1 DEF SoundInv, Sound, Own
<1>8. AloneInv'
  <2> SUFFICES ASSUME NEW e \in Convs \ crossed'
               PROVE  /\ \A b, d \in Holding(e)' : b = d
                      /\ (told[e] # {} => Readable(e))'
                      /\ (\A n \in told[e] : Has(disk[e], n))'
                      /\ \A b \in Holding(e)' : InHand(asker[b], told[e], disk[e], tmp[e])'
    BY DEF AloneInv
  <2>1. /\ e \in Convs \ crossed
        /\ \A b, d \in Holding(e) : b = d
        /\ told[e] # {} => Readable(e)
        /\ \A n \in told[e] : Has(disk[e], n)
        /\ \A b \in Holding(e) : InHand(asker[b], told[e], disk[e], tmp[e])
    BY <1>1, <1>2 DEF AloneInv
  <2>2. CASE e = c
    <3>1. Holding(c) = {}
      BY <1>2, <2>2
    <3>2. Holding(c)' = {a}
      BY <1>4, <1>5, <3>1 DEF Holding
    <3>3. InHand(asker[a], told[c], disk[c], tmp[c])'
      BY <1>2, <1>4, <1>5, <2>1, <2>2 DEF InHand, Has, Saves
    <3> QED
      BY <1>2, <2>1, <2>2, <3>2, <3>3 DEF Readable, Has
  <2>3. CASE e # c
    <3>1. Holding(e)' = Holding(e)
      BY <1>4, <1>5, <2>3, Names DEF Holding
    <3>2. \A b \in Holding(e) : asker'[b] = asker[b]
      BY <1>5, Names DEF Holding
    <3> QED
      BY <1>2, <2>1, <3>1, <3>2 DEF Readable, InHand, Has
  <2> QED
    BY <2>2, <2>3
<1> QED
  BY <1>6, <1>7, <1>8 DEF Inv

\* A question is put to what is stored, or to a new transcript.
LEMMA AskKept == Inv /\ (\E a \in Askers : Ask(a)) => Inv'
<1> SUFFICES ASSUME Inv, NEW a \in Askers, Ask(a) PROVE Inv'
  OBVIOUS
<1>1. Typed /\ SoundInv /\ AloneInv /\ asker[a] = Idle /\ asked < MaxAsks /\ settings \in Models
  BY DEF Inv, Typed, Ask
<1>2. ASSUME NEW c \in Convs, NEW model \in Models, Resume(a, c, model)
      PROVE  Inv'
  <2>1. Readable(c) /\ Take(a, c, model, FALSE, disk[c])
    BY <1>2 DEF Resume
  <2>2. disk[c] \in Transcript
    BY <1>1, <2>1 DEF Typed, Readable
  <2>3. Sound(disk[c])
    BY <1>1, <2>2 DEF SoundInv
  <2>4. c \notin crossed => \A n \in told[c] : Has(disk[c], n)
    BY <1>1 DEF AloneInv
  <2> QED
    BY <1>1, <2>1, <2>2, <2>3, <2>4, TakeKept
<1>3. ASSUME NEW c \in Convs, NEW model \in Models, NEW brief \in BOOLEAN,
             Seed(a, c, model, brief)
      PROVE  Inv'
  <2> DEFINE t == [model |-> model, about |-> take, digest |-> FALSE,
                   updated |-> 0, messages |-> <<>>]
  <2>1. Fresh(c) /\ Take(a, c, model, brief, t)
    BY <1>3 DEF Seed
  <2>2. t \in Transcript /\ t.messages = <<>>
    <3>1. take \in 0..MaxTakes
      BY <1>1, Names DEF Typed
    <3> QED
      BY <3>1 DEF Transcript
  <2> HIDE DEF t
  <2>3. Sound(t)
    BY <2>2 DEF Sound, Own, WholeTurns
  <2>4. c \notin crossed => \A n \in told[c] : Has(t, n)
    BY <1>1, <2>1 DEF AloneInv, Fresh, Readable
  <2> QED
    BY <1>1, <2>1, <2>2, <2>3, <2>4, TakeKept
<1> QED
  BY <1>1, <1>2, <1>3 DEF Ask, AskOverWeb, AskFromScript

\* One ask moves on, and what is kept changes by whole turns or by nothing.
LEMMA OneMoves ==
  ASSUME Inv, NEW a \in Askers, NEW s \in Asker, asker' = [asker EXCEPT ![a] = s],
         s.of = asker[a].of, asker[a].of \in 1..asked,
         Sound(s.transcript), s.at # "asking" => s.transcript.messages # <<>>,
         disk' \in [Convs -> Transcript \cup {None, Torn}],
         tmp' \in [Convs -> Transcript \cup {None, Torn}],
         \A c \in Convs, x \in Transcript :
           x \in {disk'[c], tmp'[c]} => Sound(x) /\ x.messages # <<>>,
         UNCHANGED <<settings, take, takes, asked, told, crossed>>, clock' \in Nat
  PROVE  Typed' /\ SoundInv' /\ asker'[a] = s /\ (\A b \in Askers \ {a} : asker'[b] = asker[b])
<1>1. Typed /\ SoundInv
  BY DEF Inv
<1>2. /\ asker' \in [Askers -> Asker \cup {Idle}] /\ asker'[a] = s
      /\ \A b \in Askers \ {a} : asker'[b] = asker[b]
  BY <1>1 DEF Typed
<1>3. Typed'
  <2>1. \A b \in Askers : asker'[b].of <= asked
    BY <1>1, <1>2 DEF Typed
  <2> QED
    BY <1>1, <1>2, <2>1 DEF Typed
<1>4. SoundInv'
  <2>1. \A b \in Askers : asker'[b] # Idle =>
          /\ Sound(asker'[b].transcript)
          /\ asker'[b].at # "asking" => asker'[b].transcript.messages # <<>>
    BY <1>1, <1>2 DEF SoundInv
  <2> QED
    BY <2>1 DEF SoundInv, Sound, Own
<1> QED
  BY <1>2, <1>3, <1>4

\* The turn is answered and grows the transcript in hand, or it is not kept.
LEMMA ConverseKept == Inv /\ (\E a \in Askers : Converse(a)) => Inv'
<1> SUFFICES ASSUME Inv, NEW a \in Askers, Converse(a) PROVE Inv'
  OBVIOUS
<1> DEFINE s == asker[a]
<1>1. Typed /\ SoundInv /\ AloneInv
  BY DEF Inv
<1> PICK c0 : c0 = asker[a].conv
  OBVIOUS
<1>2. s.at = "asking" /\ UNCHANGED <<disk, tmp, settings, take, takes, asked, clock, told, crossed>>
  BY DEF Converse
<1>3. /\ s \in Asker /\ c0 \in Convs /\ s # Idle /\ s.of \in 1..asked /\ a \in Holding(c0)
  BY <1>1, <1>2, Busy
<1>4. CASE Unanswered(a)
  <2>1. /\ asker' \in [Askers -> Asker \cup {Idle}]
        /\ \A b \in Askers : asker'[b] = asker[b] \/ asker'[b] = Idle
    BY <1>1, <1>4 DEF Unanswered, Typed
  <2>2. settings' \in Models /\ takes' \in 0..MaxTakes /\ take' \in 0..takes' /\ clock' \in Nat
    BY <1>1, <1>2 DEF Typed
  <2> QED
    BY <1>2, <2>1, <2>2, LetGo
<1>5. CASE Answered(a)
  <2>1. PICK k \in 0..MaxRounds :
          asker' = [asker EXCEPT ![a] = Kept(s, Append(Turn(s, k), Answer(s)))]
    BY <1>5 DEF Answered
  <2> DEFINE q == Append(Turn(s, k), Answer(s))
             kept == Kept(s, q)
  <2>2. k \in Nat /\ ReplayableBy(s.transcript, s.model) /\ Sound(s.transcript)
    BY <1>1, <1>3, <1>5, Names DEF Answered, SoundInv
  <2>3. /\ q \in Seq(Message) /\ Sound(Grown(s, q)) /\ Grown(s, q).messages # <<>>
        /\ Has(Grown(s, q), s.of)
        /\ \A n : Has(s.transcript, n) => Has(Grown(s, q), n)
    BY <1>3, <2>2, AnsweredWell
  <2> HIDE DEF q
  <2>4. /\ kept \in Asker /\ kept.at = "saving" /\ kept.conv = s.conv /\ kept.of = s.of
        /\ kept.transcript = Grown(s, q)
    BY <1>3, <2>3, KeptWell
  <2>5. asker' = [asker EXCEPT ![a] = kept]
    BY <2>1 DEF q
  <2> HIDE DEF kept, s
  <2>6. /\ disk' \in [Convs -> Transcript \cup {None, Torn}]
        /\ tmp' \in [Convs -> Transcript \cup {None, Torn}]
        /\ \A c \in Convs, x \in Transcript :
             x \in {disk'[c], tmp'[c]} => Sound(x) /\ x.messages # <<>>
        /\ clock' \in Nat
    BY <1>1, <1>2 DEF Typed, SoundInv
  <2>7. Typed' /\ SoundInv' /\ asker'[a] = kept /\ \A b \in Askers \ {a} : asker'[b] = asker[b]
    <3>1. kept.of = asker[a].of /\ asker[a].of \in 1..asked
      BY <1>3, <2>4 DEF s
    <3>2. Sound(kept.transcript) /\ kept.transcript.messages # <<>>
      BY <2>3, <2>4
    <3> QED
      BY <1>2, <2>4, <2>5, <2>6, <3>1, <3>2, OneMoves
  <2>8. c0 \notin crossed => /\ told[c0] # {} => disk'[c0] \notin {None, Torn}
                             /\ \A n \in told[c0] : Has(disk'[c0], n)
                             /\ InHand(asker'[a], told'[c0], disk'[c0], tmp'[c0])
    <3> SUFFICES ASSUME c0 \notin crossed
                 PROVE  /\ told[c0] # {} => disk'[c0] \notin {None, Torn}
                        /\ \A n \in told[c0] : Has(disk'[c0], n)
                        /\ InHand(asker'[a], told'[c0], disk'[c0], tmp'[c0])
      OBVIOUS
    <3>1. /\ told[c0] # {} => Readable(c0)
          /\ \A n \in told[c0] : Has(disk[c0], n)
          /\ InHand(s, told[c0], disk[c0], tmp[c0])
      BY <1>1, <1>3 DEF AloneInv, s
    <3>2. \A n \in told[c0] : Has(kept.transcript, n)
      BY <2>3, <2>4, <3>1 DEF InHand
    <3>3. Has(kept.transcript, kept.of)
      BY <2>3, <2>4
    <3>4. InHand(kept, told'[c0], disk'[c0], tmp'[c0])
      BY <1>2, <2>4, <3>2, <3>3 DEF InHand, Has
    <3> QED
      BY <1>2, <2>7, <3>1, <3>4 DEF Readable
  <2>9. AloneInv'
    <3>1. c0 \in Convs
      BY <1>3
    <3>2. asker[a].conv = c0 /\ asker'[a].conv = c0 /\ told' = told /\ crossed' = crossed
      BY <1>2, <2>4, <2>7 DEF s
    <3>3. /\ \A b \in Askers \ {a} : asker'[b] = asker[b]
          /\ \A c \in Convs \ {c0} : disk'[c] = disk[c] /\ tmp'[c] = tmp[c]
      BY <1>2, <2>7
    <3> QED
      BY <2>8, <3>1, <3>2, <3>3, AloneStep
  <2> QED
    BY <2>7, <2>9 DEF Inv
<1> QED
  BY <1>4, <1>5 DEF Converse

\* The temporary file is opened, made or emptied.
LEMMA OpenKept == Inv /\ (\E a \in Askers : SaveOpen(a)) => Inv'
<1> SUFFICES ASSUME Inv, NEW a \in Askers, SaveOpen(a) PROVE Inv'
  OBVIOUS
<1> DEFINE s == asker[a]
           opened == Opened(s, clock + 1)
<1>1. Typed /\ SoundInv /\ AloneInv
  BY DEF Inv
<1> PICK c0 : c0 = asker[a].conv
  OBVIOUS
<1>2. /\ s.at = "saving" /\ clock' = clock + 1 /\ tmp' = [tmp EXCEPT ![c0] = Torn]
      /\ asker' = [asker EXCEPT ![a] = opened]
      /\ UNCHANGED <<disk, settings, take, takes, asked, told, crossed>>
  BY DEF SaveOpen
<1>3. /\ s \in Asker /\ c0 \in Convs /\ s # Idle /\ s.of \in 1..asked /\ a \in Holding(c0)
  BY <1>1, <1>2, Busy
<1>4. clock' \in Nat /\ clock + 1 \in Nat
  BY <1>1, <1>2 DEF Typed
<1>5. /\ opened \in Asker /\ opened.at = "opened" /\ opened.fd = "tmp"
      /\ opened.conv = s.conv /\ opened.of = s.of
      /\ opened.transcript.messages = s.transcript.messages
      /\ opened.transcript.model = s.transcript.model
  BY <1>3, <1>4, OpenedWell
<1> HIDE DEF opened, s
<1>6. /\ disk' \in [Convs -> Transcript \cup {None, Torn}]
      /\ tmp' \in [Convs -> Transcript \cup {None, Torn}] /\ tmp'[c0] = Torn
      /\ \A c \in Convs \ {c0} : disk'[c] = disk[c] /\ tmp'[c] = tmp[c]
  BY <1>1, <1>2, <1>3 DEF Typed
<1>7. \A c \in Convs, x \in Transcript :
        x \in {disk'[c], tmp'[c]} => Sound(x) /\ x.messages # <<>>
  BY <1>1, <1>2, <1>3, <1>6, Names DEF SoundInv
<1>8. Sound(opened.transcript) /\ opened.transcript.messages # <<>>
  <2>1. Sound(s.transcript) /\ s.transcript.messages # <<>>
    BY <1>1, <1>2, <1>3 DEF SoundInv, s
  <2> QED
    BY <1>5, <2>1 DEF Sound, Own
<1>9. Typed' /\ SoundInv' /\ asker'[a] = opened /\ \A b \in Askers \ {a} : asker'[b] = asker[b]
  <2>1. opened.of = asker[a].of /\ asker[a].of \in 1..asked
    BY <1>3, <1>5 DEF s
  <2> QED
    BY <1>2, <1>4, <1>5, <1>6, <1>7, <1>8, <2>1, OneMoves
<1>10. c0 \notin crossed => /\ told[c0] # {} => disk'[c0] \notin {None, Torn}
                            /\ \A n \in told[c0] : Has(disk'[c0], n)
                            /\ InHand(asker'[a], told'[c0], disk'[c0], tmp'[c0])
  <2> SUFFICES ASSUME c0 \notin crossed
               PROVE  /\ told[c0] # {} => disk'[c0] \notin {None, Torn}
                      /\ \A n \in told[c0] : Has(disk'[c0], n)
                      /\ InHand(asker'[a], told'[c0], disk'[c0], tmp'[c0])
    OBVIOUS
  <2>1. /\ told[c0] # {} => Readable(c0)
        /\ \A n \in told[c0] : Has(disk[c0], n)
        /\ InHand(s, told[c0], disk[c0], tmp[c0])
    BY <1>1, <1>3 DEF AloneInv, s
  <2>2. \A n : Has(opened.transcript, n) <=> Has(s.transcript, n)
    BY <1>5 DEF Has
  <2>3. (\A n \in told[c0] : Has(s.transcript, n)) /\ Has(s.transcript, s.of)
    BY <1>2, <2>1 DEF InHand, Saves, s
  <2>4. InHand(opened, told'[c0], disk'[c0], tmp'[c0])
    BY <1>2, <1>5, <1>6, <2>2, <2>3 DEF InHand, Has
  <2> QED
    BY <1>2, <1>9, <2>1, <2>4 DEF Readable
<1>11. AloneInv'
  <2>1. c0 \in Convs
    BY <1>3
  <2>2. asker[a].conv = c0 /\ asker'[a].conv = c0 /\ told' = told /\ crossed' = crossed
    BY <1>2, <1>5, <1>9 DEF s
  <2>3. /\ \A b \in Askers \ {a} : asker'[b] = asker[b]
        /\ \A c \in Convs \ {c0} : disk'[c] = disk[c] /\ tmp'[c] = tmp[c]
    BY <1>6, <1>9
  <2> QED
    BY <1>10, <2>1, <2>2, <2>3, AloneStep
<1> QED
  BY <1>9, <1>11 DEF Inv

\* The transcript is written where the file that was opened is by now.
LEMMA WriteKept == Inv /\ (\E a \in Askers : SaveWrite(a)) => Inv'
<1> SUFFICES ASSUME Inv, NEW a \in Askers, SaveWrite(a) PROVE Inv'
  OBVIOUS
<1> DEFINE s == asker[a]
           written == [s EXCEPT !.at = "written"]
<1>1. Typed /\ SoundInv /\ AloneInv
  BY DEF Inv
<1> PICK c0 : c0 = asker[a].conv
  OBVIOUS
<1>2. /\ s.at = "opened" /\ asker' = [asker EXCEPT ![a].at = "written"]
      /\ UNCHANGED <<settings, take, takes, asked, clock, told, crossed>>
  BY DEF SaveWrite
<1>3. /\ s \in Asker /\ c0 \in Convs /\ s # Idle /\ s.of \in 1..asked /\ a \in Holding(c0)
      /\ s.transcript \in Transcript
  BY <1>1, <1>2, Busy
<1>4. /\ written \in Asker /\ written.at = "written" /\ written.conv = s.conv
      /\ written.of = s.of /\ written.transcript = s.transcript
  BY <1>3 DEF Asker, Saves
<1>5. asker' = [asker EXCEPT ![a] = written]
  BY <1>1, <1>2 DEF Typed
<1>6. \/ /\ s.fd = "tmp" /\ disk' = disk
         /\ \E x \in Laid(tmp[c0], s.transcript) : tmp' = [tmp EXCEPT ![c0] = x]
      \/ /\ s.fd = "disk" /\ tmp' = tmp
         /\ \E x \in Laid(disk[c0], s.transcript) : disk' = [disk EXCEPT ![c0] = x]
      \/ s.fd = "orphan" /\ disk' = disk /\ tmp' = tmp
  BY DEF SaveWrite
<1> HIDE DEF written, s
<1>7. \A old : Laid(old, s.transcript) \subseteq {s.transcript, Torn}
  BY DEF Laid
<1>8. /\ disk' \in [Convs -> Transcript \cup {None, Torn}]
      /\ tmp' \in [Convs -> Transcript \cup {None, Torn}]
      /\ \A c \in Convs \ {c0} : disk'[c] = disk[c] /\ tmp'[c] = tmp[c]
      /\ disk'[c0] \in {disk[c0], s.transcript, Torn}
      /\ tmp'[c0] \in {tmp[c0], s.transcript, Torn}
  BY <1>1, <1>3, <1>6, <1>7 DEF Typed
<1>9. Sound(s.transcript) /\ s.transcript.messages # <<>>
  BY <1>1, <1>2, <1>3 DEF SoundInv, s
<1>10. ASSUME NEW c \in Convs, NEW x \in Transcript, x \in {disk'[c], tmp'[c]}
       PROVE  Sound(x) /\ x.messages # <<>>
  <2>1. x \in {disk[c], tmp[c]} \/ x = s.transcript
    BY <1>8, <1>10, Names
  <2> QED
    BY <1>1, <1>9, <2>1 DEF SoundInv
<1>11. Typed' /\ SoundInv' /\ asker'[a] = written /\ \A b \in Askers \ {a} : asker'[b] = asker[b]
  <2>1. written.of = asker[a].of /\ asker[a].of \in 1..asked
    BY <1>3, <1>4 DEF s
  <2>2. clock' \in Nat
    BY <1>1, <1>2 DEF Typed
  <2>3. Sound(written.transcript) /\ written.transcript.messages # <<>>
    BY <1>4, <1>9
  <2>4. /\ written \in Asker
        /\ disk' \in [Convs -> Transcript \cup {None, Torn}]
        /\ tmp' \in [Convs -> Transcript \cup {None, Torn}]
    BY <1>4, <1>8
  <2> QED
    BY <1>2, <1>5, <1>10, <2>1, <2>2, <2>3, <2>4, OneMoves
<1>12. c0 \notin crossed => /\ told[c0] # {} => disk'[c0] \notin {None, Torn}
                            /\ \A n \in told[c0] : Has(disk'[c0], n)
                            /\ InHand(asker'[a], told'[c0], disk'[c0], tmp'[c0])
  <2> SUFFICES ASSUME c0 \notin crossed
               PROVE  /\ told[c0] # {} => disk'[c0] \notin {None, Torn}
                      /\ \A n \in told[c0] : Has(disk'[c0], n)
                      /\ InHand(asker'[a], told'[c0], disk'[c0], tmp'[c0])
    OBVIOUS
  <2>1. /\ told[c0] # {} => Readable(c0)
        /\ \A n \in told[c0] : Has(disk[c0], n)
        /\ InHand(s, told[c0], disk[c0], tmp[c0])
    BY <1>1, <1>3 DEF AloneInv, s
  <2>2. s.fd = "tmp" /\ tmp[c0] = Torn
    BY <1>2, <2>1 DEF InHand, s
  <2>3. disk' = disk /\ tmp'[c0] = s.transcript
    BY <1>1, <1>3, <1>6, <2>2 DEF Laid, Typed
  <2>4. (\A n \in told[c0] : Has(s.transcript, n)) /\ Has(s.transcript, s.of)
    BY <1>2, <2>1 DEF InHand, Saves, s
  <2>5. InHand(written, told'[c0], disk'[c0], tmp'[c0])
    BY <1>2, <1>4, <2>3, <2>4 DEF InHand
  <2> QED
    BY <1>11, <2>1, <2>3, <2>5 DEF Readable
<1>13. AloneInv'
  <2>1. c0 \in Convs
    BY <1>3
  <2>2. asker[a].conv = c0 /\ asker'[a].conv = c0 /\ told' = told /\ crossed' = crossed
    BY <1>2, <1>4, <1>11 DEF s
  <2>3. /\ \A b \in Askers \ {a} : asker'[b] = asker[b]
        /\ \A c \in Convs \ {c0} : disk'[c] = disk[c] /\ tmp'[c] = tmp[c]
    BY <1>8, <1>11
  <2> QED
    BY <1>12, <2>1, <2>2, <2>3, AloneStep
<1> QED
  BY <1>11, <1>13 DEF Inv

\* The temporary file becomes the conversation's, and whoever has it open
\* follows it; or there is none any more and the answer is lost.
LEMMA ReplaceKept == Inv /\ (\E a \in Askers : SaveReplace(a)) => Inv'
<1> SUFFICES ASSUME Inv, NEW a \in Askers, SaveReplace(a) PROVE Inv'
  OBVIOUS
<1> DEFINE s == asker[a]
<1>1. Typed /\ SoundInv /\ AloneInv
  BY DEF Inv
<1> PICK c0 : c0 = asker[a].conv
  OBVIOUS
<1>2. s.at = "written" /\ UNCHANGED <<settings, take, takes, asked, clock, told, crossed>>
  BY DEF SaveReplace
<1>3. /\ s \in Asker /\ c0 \in Convs /\ s # Idle /\ s.of \in 1..asked /\ a \in Holding(c0)
      /\ s.transcript \in Transcript
  BY <1>1, <1>2, Busy
<1>4. CASE tmp[c0] = None
  <2>1. asker' = [asker EXCEPT ![a] = Idle] /\ disk' = disk /\ tmp' = tmp
    BY <1>4 DEF SaveReplace
  <2>2. /\ asker' \in [Askers -> Asker \cup {Idle}]
        /\ \A b \in Askers : asker'[b] = asker[b] \/ asker'[b] = Idle
    BY <1>1, <2>1 DEF Typed
  <2>3. settings' \in Models /\ takes' \in 0..MaxTakes /\ take' \in 0..takes' /\ clock' \in Nat
    BY <1>1, <1>2 DEF Typed
  <2> QED
    BY <1>2, <2>1, <2>2, <2>3, LetGo
<1>5. CASE tmp[c0] # None
  <2>1. /\ disk' = [disk EXCEPT ![c0] = tmp[c0]] /\ tmp' = [tmp EXCEPT ![c0] = None]
        /\ asker' = Renamed(a, c0)
    BY <1>5 DEF SaveReplace
  <2> DEFINE done == [s EXCEPT !.at = "answered", !.fd = None]
             moved(b) == [asker[b] EXCEPT !.fd = Follows(@)]
  <2>2. /\ done \in Asker /\ done.at = "answered" /\ done.conv = s.conv
        /\ done.of = s.of /\ done.transcript = s.transcript
    BY <1>3 DEF Asker, Saves
  <2>3. ASSUME NEW b \in Askers, asker[b].conv = c0
        PROVE  /\ moved(b) \in Asker /\ moved(b).at = asker[b].at /\ moved(b).conv = c0
               /\ moved(b).of = asker[b].of /\ moved(b).transcript = asker[b].transcript
               /\ asker[b] # Idle
    <3>1. asker[b] \in Asker
      BY <1>1, <1>3, <2>3, Names DEF Typed
    <3> DEFINE fd == Follows(asker[b].fd)
    <3>2. fd \in {None, "tmp", "disk", "orphan"}
      BY <3>1 DEF Follows, Asker
    <3> HIDE DEF fd
    <3>3. moved(b) = [asker[b] EXCEPT !.fd = fd]
      BY DEF fd
    <3> HIDE DEF moved
    <3> QED
      BY <2>3, <3>1, <3>2, <3>3, Names DEF Asker
  <2>4. /\ \A b \in Askers : asker'[b] = IF b = a THEN done
                                         ELSE IF asker[b].conv = c0 THEN moved(b) ELSE asker[b]
        /\ DOMAIN asker' = Askers /\ asker' = [b \in Askers |-> asker'[b]]
    BY <2>1 DEF Renamed
  <2> HIDE DEF done, moved, s
  <2>5. \A b \in Askers :
          /\ asker'[b] \in Asker \cup {Idle} /\ asker'[b].of = asker[b].of
          /\ asker'[b] # Idle => /\ asker[b] # Idle
                                 /\ asker'[b].transcript = asker[b].transcript
                                 /\ asker[b].at # "asking" \/ asker'[b].at = "asking"
    <3> SUFFICES ASSUME NEW b \in Askers
                 PROVE  /\ asker'[b] \in Asker \cup {Idle} /\ asker'[b].of = asker[b].of
                        /\ asker'[b] # Idle => /\ asker[b] # Idle
                                               /\ asker'[b].transcript = asker[b].transcript
                                               /\ asker[b].at # "asking" \/ asker'[b].at = "asking"
      OBVIOUS
    <3>1. CASE b = a
      BY <1>2, <1>3, <2>2, <2>4, <3>1 DEF s
    <3>2. CASE b # a /\ asker[b].conv = c0
      BY <2>3, <2>4, <3>2
    <3>3. CASE b # a /\ asker[b].conv # c0
      BY <1>1, <2>4, <3>3 DEF Typed
    <3> QED
      BY <3>1, <3>2, <3>3
  <2>6. /\ disk' \in [Convs -> Transcript \cup {None, Torn}]
        /\ tmp' \in [Convs -> Transcript \cup {None, Torn}]
        /\ \A c \in Convs \ {c0} : disk'[c] = disk[c] /\ tmp'[c] = tmp[c]
        /\ disk'[c0] = tmp[c0] /\ tmp'[c0] = None
    BY <1>1, <1>3, <2>1 DEF Typed
  <2>7. Typed'
    <3>1. asker' \in [Askers -> Asker \cup {Idle}]
      BY <2>4, <2>5
    <3>2. \A b \in Askers : asker'[b].of <= asked
      BY <1>1, <2>5 DEF Typed
    <3> QED
      BY <1>1, <1>2, <2>6, <3>1, <3>2 DEF Typed
  <2>8. SoundInv'
    <3>1. ASSUME NEW c \in Convs, NEW x \in Transcript, x \in {disk'[c], tmp'[c]}
          PROVE  Sound(x) /\ x.messages # <<>>
      <4>1. x \in {disk[c], tmp[c]}
        BY <2>6, <3>1, Names
      <4> QED
        BY <1>1, <4>1 DEF SoundInv
    <3>2. \A b \in Askers : asker'[b] # Idle =>
            /\ Sound(asker'[b].transcript)
            /\ asker'[b].at # "asking" => asker'[b].transcript.messages # <<>>
      BY <1>1, <2>5 DEF SoundInv
    <3> QED
      BY <3>1, <3>2 DEF SoundInv, Sound, Own
  <2>9. c0 \notin crossed => /\ told[c0] # {} => disk'[c0] \notin {None, Torn}
                             /\ \A n \in told[c0] : Has(disk'[c0], n)
                             /\ InHand(asker'[a], told'[c0], disk'[c0], tmp'[c0])
    <3> SUFFICES ASSUME c0 \notin crossed
                 PROVE  /\ told[c0] # {} => disk'[c0] \notin {None, Torn}
                        /\ \A n \in told[c0] : Has(disk'[c0], n)
                        /\ InHand(asker'[a], told'[c0], disk'[c0], tmp'[c0])
      OBVIOUS
    <3>1. InHand(s, told[c0], disk[c0], tmp[c0])
      BY <1>1, <1>3 DEF AloneInv, s
    <3>2. /\ disk'[c0] = s.transcript
          /\ (\A n \in told[c0] : Has(s.transcript, n)) /\ Has(s.transcript, s.of)
      BY <1>2, <2>6, <3>1 DEF InHand, Saves, s
    <3>3. InHand(done, told'[c0], disk'[c0], tmp'[c0])
      BY <1>2, <2>2, <3>2 DEF InHand
    <3> QED
      BY <1>3, <2>4, <3>2, <3>3, Names
  <2>10. AloneInv'
    <3>1. c0 \in Convs
      BY <1>3
    <3>2. asker[a].conv = c0 /\ asker'[a].conv = c0 /\ told' = told /\ crossed' = crossed
      BY <1>2, <2>2, <2>4 DEF s
    <3>3. \A b \in Askers \ {a} : \/ asker'[b] = asker[b]
                                  \/ asker[b].conv = c0 /\ asker'[b].conv = c0
      BY <2>3, <2>4
    <3>4. \A c \in Convs \ {c0} : disk'[c] = disk[c] /\ tmp'[c] = tmp[c]
      BY <2>6
    <3> QED
      BY <2>9, <3>1, <3>2, <3>3, <3>4, AloneStep
  <2> QED
    BY <2>7, <2>8, <2>10 DEF Inv
<1> QED
  BY <1>4, <1>5

\* The golfer reads the answer: what is stored by then has it.
LEMMA ReplyKept == Inv /\ (\E a \in Askers : Reply(a)) => Inv'
<1> SUFFICES ASSUME Inv, NEW a \in Askers, Reply(a) PROVE Inv'
  OBVIOUS
<1> DEFINE s == asker[a]
<1>1. Typed /\ SoundInv /\ AloneInv
  BY DEF Inv
<1> PICK c0 : c0 = asker[a].conv
  OBVIOUS
<1>2. /\ s.at = "answered" /\ told' = [told EXCEPT ![c0] = @ \cup {s.of}]
      /\ asker' = [asker EXCEPT ![a] = Idle]
      /\ UNCHANGED <<disk, tmp, settings, take, takes, asked, clock, crossed>>
  BY DEF Reply
<1>3. /\ s \in Asker /\ c0 \in Convs /\ s # Idle /\ s.of \in 1..asked /\ a \in Holding(c0)
      /\ s.transcript \in Transcript
  BY <1>1, <1>2, Busy
<1>4. /\ asker' \in [Askers -> Asker \cup {Idle}] /\ asker'[a] = Idle
      /\ \A b \in Askers \ {a} : asker'[b] = asker[b]
  BY <1>1, <1>2 DEF Typed
<1>5. /\ told' \in [Convs -> SUBSET (1..asked)] /\ told'[c0] = told[c0] \cup {s.of}
      /\ \A c \in Convs \ {c0} : told'[c] = told[c]
  BY <1>1, <1>2, <1>3 DEF Typed
<1> HIDE DEF s
<1>6. Typed'
  <2>1. \A b \in Askers : asker'[b].of <= asked
    BY <1>1, <1>4, Names DEF Typed
  <2> QED
    BY <1>1, <1>2, <1>4, <1>5, <2>1 DEF Typed
<1>7. SoundInv'
  BY <1>1, <1>2, <1>4 DEF SoundInv, Sound, Own
<1>8. ASSUME NEW c \in Convs \ crossed'
      PROVE  /\ \A b, d \in Holding(c)' : b = d
             /\ (told[c] # {} => Readable(c))'
             /\ (\A n \in told[c] : Has(disk[c], n))'
             /\ \A b \in Holding(c)' : InHand(asker[b], told[c], disk[c], tmp[c])'
  <2>1. /\ c \in Convs \ crossed
        /\ \A b, d \in Holding(c) : b = d
        /\ told[c] # {} => Readable(c)
        /\ \A n \in told[c] : Has(disk[c], n)
        /\ \A b \in Holding(c) : InHand(asker[b], told[c], disk[c], tmp[c])
    BY <1>1, <1>2 DEF AloneInv
  <2>2. Holding(c)' = Holding(c) \ {a}
    BY <1>4, Names DEF Holding
  <2>3. CASE c = c0
    <3>1. Holding(c)' = {}
      BY <1>3, <2>1, <2>2, <2>3
    <3>2. InHand(s, told[c0], disk[c0], tmp[c0])
      BY <1>3, <2>1, <2>3 DEF s
    <3>3. disk[c0] = s.transcript /\ Has(s.transcript, s.of)
      BY <1>2, <3>2 DEF InHand, Saves, s
    <3>4. disk'[c] \in Transcript /\ \A n \in told'[c] : Has(disk'[c], n)
      BY <1>2, <1>3, <1>5, <2>1, <2>3, <3>3
    <3>5. (told[c] # {} => Readable(c))'
      BY <3>4, Names DEF Readable
    <3> QED
      BY <3>1, <3>4, <3>5 DEF Has
  <2>4. CASE c # c0
    <3>1. told'[c] = told[c] /\ disk'[c] = disk[c] /\ tmp'[c] = tmp[c]
      BY <1>2, <1>5, <2>4
    <3>2. \A b \in Holding(c)' : b \in Holding(c) /\ asker'[b] = asker[b]
      BY <1>4, <2>2 DEF Holding
    <3> QED
      BY <2>1, <3>1, <3>2 DEF Readable, Has, InHand
  <2> QED
    BY <2>3, <2>4
<1>9. AloneInv'
  BY <1>8 DEF AloneInv
<1> QED
  BY <1>6, <1>7, <1>9 DEF Inv

\* The server ends and its asks with it, a script is interrupted, a swing comes
\* or goes: nothing that is kept is touched.
LEMMA WorldKept ==
  Inv /\ (\/ \E a \in Askers : Interrupt(a)
          \/ \E model \in Models : Restart(model)
          \/ SwingDeleted \/ SwingUploaded \/ UNCHANGED vars) => Inv'
<1> SUFFICES ASSUME Inv,
                    \/ \E a \in Askers : Interrupt(a)
                    \/ \E model \in Models : Restart(model)
                    \/ SwingDeleted \/ SwingUploaded \/ UNCHANGED vars
             PROVE  Inv'
  OBVIOUS
<1>1. Typed
  BY DEF Inv
<1>2. /\ asker' \in [Askers -> Asker \cup {Idle}]
      /\ \A b \in Askers : asker'[b] = asker[b] \/ asker'[b] = Idle
      /\ UNCHANGED <<disk, tmp, asked, told, crossed>> /\ clock' = clock
  <2>1. CASE \E a \in Askers : Interrupt(a)
    BY <1>1, <2>1 DEF Interrupt, Typed
  <2>2. CASE \E model \in Models : Restart(model)
    BY <1>1, <2>2 DEF Restart, Typed
  <2>3. CASE SwingDeleted \/ SwingUploaded \/ UNCHANGED vars
    BY <1>1, <2>3 DEF SwingDeleted, SwingUploaded, vars, Typed
  <2> QED
    BY <2>1, <2>2, <2>3
<1>3. settings' \in Models /\ takes' \in 0..MaxTakes /\ take' \in 0..takes'
  <2>1. settings \in Models /\ takes \in 0..MaxTakes /\ take \in 0..takes
    BY <1>1 DEF Typed
  <2>2. CASE SwingUploaded
    BY <2>1, <2>2, Names DEF SwingUploaded
  <2>3. CASE SwingDeleted
    BY <2>1, <2>3 DEF SwingDeleted
  <2>4. CASE \E a \in Askers : Interrupt(a)
    BY <2>1, <2>4 DEF Interrupt
  <2>5. CASE \E model \in Models : Restart(model)
    BY <2>1, <2>5 DEF Restart
  <2>6. CASE UNCHANGED vars
    BY <2>1, <2>6 DEF vars
  <2> QED
    BY <2>2, <2>3, <2>4, <2>5, <2>6
<1>4. clock' \in Nat
  BY <1>1, <1>2 DEF Typed
<1> QED
  BY <1>2, <1>3, <1>4, LetGo

LEMMA InvInit == Init => Inv
<1> SUFFICES ASSUME Init PROVE Inv
  OBVIOUS
<1>1. Typed
  BY Names DEF Init, Typed
<1>2. SoundInv
  BY Names DEF Init, SoundInv
<1>3. \A c \in Convs : Holding(c) = {} /\ told[c] = {}
  BY Names DEF Init, Holding
<1>4. AloneInv
  BY <1>3 DEF AloneInv
<1> QED
  BY <1>1, <1>2, <1>4 DEF Inv

LEMMA InvNext == Inv /\ [Next]_vars => Inv'
  BY AskKept, ConverseKept, OpenKept, WriteKept, ReplaceKept, ReplyKept, WorldKept
  DEF Next, Step

-----------------------------------------------------------------------------
(* What follows of every reachable state. *)

\* However many web threads and script runs ask at once, save over each other's
\* temporary file, are ended or interrupted: every transcript that is held or
\* stored is whole turns of one model, and whoever asks a conversation alone
\* holds every answer its golfer was given.
THEOREM Invariant == Spec => []Inv
  BY InvInit, InvNext, PTL DEF Spec

\* No variable leaves its type, and no ask is numbered before it was asked.
THEOREM TypeCorrect == Spec => []TypeOK
<1>1. Inv => TypeOK
  BY Names DEF Inv, Typed, TypeOK, Asker, Saves, Idle
<1> QED
  BY <1>1, Invariant, PTL

\* run_turn and save_transcript: what can be read is whole turns, whatever
\* failed, crashed or overlapped on the way to it.
THEOREM TurnsAreWhole == Spec => []NoHalfTurn
<1>1. Inv => NoHalfTurn
  <2> SUFFICES ASSUME Inv, NEW c \in Convs, Readable(c)
               PROVE  disk[c].messages # <<>> /\ WholeTurns(disk[c].messages)
    BY DEF NoHalfTurn
  <2>1. disk[c] \in Transcript
    BY DEF Inv, Typed, Readable
  <2> QED
    BY <2>1 DEF Inv, SoundInv, Sound
<1> QED
  BY <1>1, Invariant, PTL

\* is_replayable_by: all a model wrote in a stored transcript was written by the
\* model the transcript names.
THEOREM OneModelWrote == Spec => []OneModel
<1>1. Inv => OneModel
  <2> SUFFICES ASSUME Inv, NEW c \in Convs, Readable(c), NEW i \in DOMAIN disk[c].messages
               PROVE  disk[c].messages[i].by \in {None, disk[c].model}
    BY DEF OneModel
  <2>1. disk[c] \in Transcript
    BY DEF Inv, Typed, Readable
  <2> QED
    BY <2>1 DEF Inv, SoundInv, Sound, Own
<1> QED
  BY <1>1, Invariant, PTL

\* save_transcript before the reply: an answer the golfer was given stays in the
\* stored conversation, unless it was once asked two things at once.
THEOREM AnswersStay == Spec => []AnswersAreKept
<1>1. Inv => AnswersAreKept
  BY DEF Inv, AloneInv, AnswersAreKept, Has
<1> QED
  BY <1>1, Invariant, PTL
=============================================================================
