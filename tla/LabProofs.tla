------------------------------ MODULE LabProofs ------------------------------
(****************************************************************************)
(* Proofs about the laboratory experiment: its trials are sound, for either  *)
(* number of computers, any number of repeats, whatever goes wrong.          *)
(****************************************************************************)
EXTENDS Lab, FiniteSetTheorems, TLAPS

Places == Calling \cup {"off", "closing", "ended"}
Requests ==
  [path : {"register", "state", "result", "fail", "ack"}, from : Computers, job : Nat]
Sessions ==
  [members : SUBSET Computers, received : SUBSET Computers, acks : SUBSET Computers,
   current : Nat, error : BOOLEAN, stored : [1 .. Len(Jobs) -> SUBSET Computers]]

LabTypeOK ==
  /\ server \in {"open", "closed"}
  /\ session \in Sessions
  /\ doing \in [Computers -> Places]
  /\ last \in [Computers -> Nat]
  /\ trained \in [Computers -> Nat]
  /\ outcome \in [Computers -> {"none", "success", "failure"}]
  /\ odd \subseteq Computers
  /\ late \subseteq Requests
  /\ misfortunes \in Nat
  /\ restarts \in Nat

\* The results of the jobs up to the current one, and of it.
ResultsAdd(s) ==
  /\ s.received \subseteq s.members
  /\ s.current \in 1 .. Len(Jobs) + 1
  /\ \A j \in 1 .. Len(Jobs) :
       s.stored[j] = IF j < s.current THEN Jobs[j] ELSE IF j = s.current THEN s.received ELSE {}
  /\ s.current <= Len(Jobs) => s.received \subseteq Jobs[s.current] /\ s.received # Jobs[s.current]

\* A program that was admitted and has not failed.
Living(c) == doing[c] \in {"poll", "training", "report", "acking", "acking failure"}

\* Only the living program of a computer delivers its results, and it is in the
\* current job until it has.
InJob(c) ==
  /\ doing[c] = "register" => last[c] = 0
  /\ Living(c) =>
       /\ c \in session.members /\ last[c] <= session.current
       /\ \A q \in late : q.path = "result" => q.from # c
       /\ c \in session.received => last[c] = session.current
  /\ doing[c] \in {"training", "report"} =>
       /\ last[c] = session.current /\ session.current <= Len(Jobs)
       /\ c \in Jobs[session.current] /\ c \notin session.received
LivingInJob == \A c \in Computers : InJob(c)

LateResults == \A q \in late : q.path = "result" => q.from \in session.members

CompleteWhenTold ==
  \A c \in Computers : doing[c] = "acking" \/ outcome[c] = "success" => session.current > Len(Jobs)

\* How it goes as long as nothing went wrong.
CalmAt(c) ==
  /\ doing[c] \in {"register", "poll", "training", "report", "acking", "closing", "ended"}
  /\ outcome[c] # "failure"
  /\ doing[c] = "register" => c \notin session.members
  /\ doing[c] = "closing" => c = 0
  /\ doing[c] \in {"closing", "ended"} => outcome[c] = "success"
  /\ c \in session.acks => doing[c] \in {"closing", "ended"}
  /\ doing[c] \in {"training", "report"} => session.members = Computers
  /\ server = "closed" => doing[c] = "ended"
Calm ==
  /\ ~session.error /\ odd = {} /\ late = {}
  /\ \A c \in Computers : CalmAt(c)
  /\ session.current > 1 => session.members = Computers

BInv == LabTypeOK /\ ResultsAdd(session) /\ LivingInJob /\ LateResults /\ CompleteWhenTold
LInv == BInv /\ (misfortunes = 0 => Calm)

-----------------------------------------------------------------------------
(* The jobs and what a request does to the session.                          *)

LEMMA JobsShape ==
  /\ Len(Jobs) \in Nat \ {0}
  /\ \A j \in 1 .. Len(Jobs) : Jobs[j] \subseteq Computers /\ Jobs[j] # {}
<1>1. NumComputers \in {2, 3} /\ RoundSize \in {3, 4, 5} /\ Computers = 0 .. NumComputers - 1
  BY LabAssumption DEF RoundSize, Computers
<1>2. RoundSize <= NumComputers + 2
  BY LabAssumption DEF RoundSize
<1> DEFINE n == Repeats * RoundSize
<1>3. n \in Nat /\ n > 0
  <2>1. Repeats \in Nat /\ Repeats > 0
    BY LabAssumption
  <2>2. CASE RoundSize = 3
    BY <2>1, <2>2
  <2>3. CASE RoundSize = 4
    BY <2>1, <2>3
  <2>4. CASE RoundSize = 5
    BY <2>1, <2>4
  <2> QED BY <1>1, <2>2, <2>3, <2>4
<1> HIDE DEF n
<1>4. Jobs = [j \in 1 .. n |-> RanksInRound((j - 1) % RoundSize)]
  BY DEF Jobs, n
<1>5. Len(Jobs) = n
  <2>1. \A j \in 1 .. n : RanksInRound((j - 1) % RoundSize) \in {RanksInRound(i) : i \in Int}
    <3> SUFFICES ASSUME NEW j \in 1 .. n
                 PROVE  (j - 1) % RoundSize \in Int
      OBVIOUS
    <3> QED BY <1>1, <1>3
  <2> QED BY <1>3, <1>4, <2>1
<1>6. \A j \in 1 .. n : Jobs[j] \subseteq Computers /\ Jobs[j] # {}
  <2> SUFFICES ASSUME NEW j \in 1 .. n
               PROVE  Jobs[j] \subseteq Computers /\ Jobs[j] # {}
    OBVIOUS
  <2> DEFINE i == (j - 1) % RoundSize
  <2>1. i \in 0 .. RoundSize - 1
    <3>1. j - 1 \in Nat
      BY <1>3
    <3>2. CASE RoundSize = 3
      BY <3>1, <3>2
    <3>3. CASE RoundSize = 4
      BY <3>1, <3>3
    <3>4. CASE RoundSize = 5
      BY <3>1, <3>4
    <3> QED BY <1>1, <3>2, <3>3, <3>4
  <2> HIDE DEF i
  <2>2. Jobs[j] = RanksInRound(i)
    BY <1>4 DEF i
  <2>3. CASE i < 2
    <3>1. 0 \in Computers
      BY <1>1
    <3>2. RanksInRound(i) = Computers
      BY <2>3 DEF RanksInRound
    <3> QED BY <2>2, <3>1, <3>2
  <2>4. CASE i >= 2
    <3>1. RanksInRound(i) = {i - 2}
      BY <2>1, <2>4, <1>1 DEF RanksInRound
    <3>2. i - 2 \in Computers
      BY <2>1, <2>4, <1>1, <1>2
    <3> QED BY <2>2, <3>1, <3>2
  <2> QED BY <2>1, <2>3, <2>4, <1>1
<1> QED BY <1>3, <1>5, <1>6


\* A result that is not refused is the first of that rank in the current job.
LEMMA RecordedFields ==
  ASSUME NEW s \in Sessions, NEW q \in Requests, q.path = "result", ~Rejects(q, s)
  PROVE  /\ q.job = s.current /\ s.current <= Len(Jobs)
         /\ q.from \in Jobs[q.job] /\ q.from \notin s.received
         /\ Recorded(q, s).members = s.members
         /\ Recorded(q, s).acks = s.acks
         /\ Recorded(q, s).error = s.error
         /\ Recorded(q, s).stored = [s.stored EXCEPT ![q.job] = s.stored[q.job] \cup {q.from}]
         /\ s.received \cup {q.from} = Jobs[q.job] =>
              Recorded(q, s).received = {} /\ Recorded(q, s).current = s.current + 1
         /\ s.received \cup {q.from} # Jobs[q.job] =>
              /\ Recorded(q, s).received = s.received \cup {q.from}
              /\ Recorded(q, s).current = s.current
         /\ s.current \in Nat \ {0} => Recorded(q, s) \in Sessions
<1>1. q.job = s.current /\ s.current <= Len(Jobs) /\ q.from \in Jobs[q.job] /\ q.from \notin s.received
  BY JobsShape DEF Rejects, Sessions, Requests
<1>2. q.job \in Nat /\ q.from \in Computers /\ s.current \in Nat
  BY DEF Requests, Sessions
<1> DEFINE v == [s.stored EXCEPT ![q.job] = s.stored[q.job] \cup {q.from}]
<1>3. s.current \in Nat \ {0} => v \in [1 .. Len(Jobs) -> SUBSET Computers]
  <2> SUFFICES ASSUME s.current \in Nat \ {0} PROVE v \in [1 .. Len(Jobs) -> SUBSET Computers]
    OBVIOUS
  <2>1. q.job \in 1 .. Len(Jobs)
    BY <1>1, <1>2, JobsShape
  <2> QED BY <2>1, <1>2 DEF Sessions
<1> HIDE DEF v
<1>4. CASE s.received \cup {q.from} = Jobs[q.job]
  <2>1. Recorded(q, s) = [s EXCEPT !.stored = v, !.received = {}, !.current = s.current + 1]
    BY <1>4 DEF Recorded, Completed, v, Sessions
  <2>2. /\ Recorded(q, s).stored = v /\ Recorded(q, s).received = {}
        /\ Recorded(q, s).current = s.current + 1 /\ Recorded(q, s).members = s.members
        /\ Recorded(q, s).acks = s.acks /\ Recorded(q, s).error = s.error
    BY <2>1 DEF Sessions
  <2>3. s.current + 1 \in Nat
    BY <1>2
  <2>4. s.current \in Nat \ {0} => Recorded(q, s) \in Sessions
    BY <2>1, <2>3, <1>3 DEF Sessions
  <2> QED BY <2>2, <2>4, <1>1, <1>4 DEF v
<1>5. CASE s.received \cup {q.from} # Jobs[q.job]
  <2> DEFINE u == s.received \cup {q.from}
  <2>1. u \in SUBSET Computers
    BY <1>2 DEF Sessions
  <2>2. Recorded(q, s) = [s EXCEPT !.stored = v, !.received = u]
    BY <1>5 DEF Recorded, Completed, v, Sessions
  <2> HIDE DEF u
  <2>3. Recorded(q, s).stored = v /\ Recorded(q, s).received = u
    BY <2>2 DEF Sessions
  <2> QED BY <2>1, <2>2, <2>3, <1>1, <1>2, <1>3, <1>5 DEF Sessions, v, u
<1> QED BY <1>4, <1>5

\* What the other requests change.
LEMMA AfterFields ==
  ASSUME NEW s \in Sessions, NEW q \in Requests, q.path # "result" \/ Rejects(q, s)
  PROVE  /\ After(q, s) \in Sessions
         /\ After(q, s).received = s.received
         /\ After(q, s).current = s.current
         /\ After(q, s).stored = s.stored
         /\ s.members \subseteq After(q, s).members
         /\ After(q, s).members \subseteq s.members \cup {q.from}
         /\ q.path # "register" => After(q, s).members = s.members
         /\ q.path = "register" /\ ~Rejects(q, s) => q.from \in After(q, s).members
         /\ After(q, s).acks \subseteq s.acks \cup {q.from}
         /\ q.path # "ack" => After(q, s).acks = s.acks
         /\ q.path \in {"state", "ack", "result"} => After(q, s).error = s.error
         /\ q.path = "register" /\ odd = {} => After(q, s).error = s.error
<1>1. q.from \in Computers /\ q.path \in {"register", "state", "result", "fail", "ack"}
  BY DEF Requests
<1>2. CASE q.path = "register"
  <2>1. After(q, s) = Joined(q, s)
    BY <1>2 DEF After
  <2>2. CASE q.from \in s.members
    <3>1. Joined(q, s) = s
      BY <2>2 DEF Joined
    <3> QED BY <2>1, <2>2, <3>1, <1>2
  <2>3. CASE q.from \notin s.members /\ \E d \in s.members : ~Compatible(q.from, d)
    <3>1. Joined(q, s) = [s EXCEPT !.error = TRUE]
      BY <2>3 DEF Joined
    <3>2. Rejects(q, s)
      BY <2>3, <1>2 DEF Rejects
    <3>3. odd # {}
      BY <2>3 DEF Compatible
    <3> QED BY <2>1, <3>1, <3>2, <3>3, <1>2 DEF Sessions
  <2>4. CASE q.from \notin s.members /\ ~\E d \in s.members : ~Compatible(q.from, d)
    <3>1. Joined(q, s) = [s EXCEPT !.members = s.members \cup {q.from}]
      BY <2>4 DEF Joined, Sessions
    <3>2. s.members \cup {q.from} \in SUBSET Computers
      BY <1>1 DEF Sessions
    <3> QED BY <2>1, <3>1, <3>2, <1>2 DEF Sessions
  <2> QED BY <2>2, <2>3, <2>4
<1>3. CASE q.path = "ack"
  <2>1. After(q, s) = [s EXCEPT !.acks = s.acks \cup {q.from}]
    BY <1>3 DEF After, Sessions
  <2>2. s.acks \cup {q.from} \in SUBSET Computers
    BY <1>1 DEF Sessions
  <2> QED BY <2>1, <2>2, <1>3 DEF Sessions
<1>4. CASE q.path = "fail"
  <2>1. After(q, s) = [s EXCEPT !.error = TRUE]
    BY <1>4 DEF After
  <2> QED BY <2>1, <1>4 DEF Sessions
<1>5. CASE q.path \in {"state", "result"}
  <2>1. After(q, s) = s
    BY <1>5 DEF After
  <2> QED BY <2>1, <1>5
<1> QED BY <1>1, <1>2, <1>3, <1>4, <1>5


\* A request that is handled keeps what is known of the results, takes nothing
\* back, and completes the current job only with the result of its sender.
LEMMA Handled ==
  ASSUME NEW s \in Sessions, ResultsAdd(s), NEW q \in Requests,
         q.path = "result" => q.from \in s.members
  PROVE  /\ After(q, s) \in Sessions
         /\ ResultsAdd(After(q, s))
         /\ s.members \subseteq After(q, s).members
         /\ s.current <= After(q, s).current
         /\ s.current \in Nat /\ After(q, s).current \in Nat
         /\ q.path # "result" => After(q, s).received = s.received /\ After(q, s).current = s.current
         /\ \A c \in Computers : c # q.from =>
              /\ c \in After(q, s).received => c \in s.received /\ After(q, s).current = s.current
              /\ s.current <= Len(Jobs) /\ c \in Jobs[s.current] /\ c \notin s.received =>
                   After(q, s).current = s.current
<1> DEFINE t == After(q, s)
           n == s.received \cup {q.from}
           j == s.current
           N == Len(Jobs)
<1>1. /\ s.current \in Nat \ {0} /\ s.current \in 1 .. N + 1 /\ N \in Nat \ {0}
      /\ s.received \subseteq s.members
      /\ \A i \in 1 .. N : Jobs[i] # {}
  BY JobsShape DEF ResultsAdd, Sessions
<1>2. CASE q.path # "result" \/ Rejects(q, s)
  <2>1. /\ t \in Sessions /\ t.received = s.received /\ t.current = s.current
        /\ t.stored = s.stored /\ s.members \subseteq t.members
    BY <1>2, AfterFields
  <2> HIDE DEF t
  <2>2. ResultsAdd(t)
    BY <2>1, <1>1 DEF ResultsAdd
  <2> QED BY <2>1, <2>2, <1>1 DEF t
<1>3. CASE q.path = "result" /\ ~Rejects(q, s)
  <2>1. t = Recorded(q, s)
    BY <1>3 DEF After
  <2>2. /\ q.job = j /\ j <= N /\ q.from \in Jobs[j] /\ q.from \notin s.received
        /\ t.members = s.members /\ t \in Sessions
        /\ t.stored = [s.stored EXCEPT ![j] = s.stored[j] \cup {q.from}]
        /\ n = Jobs[j] => t.received = {} /\ t.current = j + 1
        /\ n # Jobs[j] => t.received = n /\ t.current = j
    <3>1. /\ q.job = j /\ j <= N /\ q.from \in Jobs[q.job] /\ q.from \notin s.received
          /\ t.members = s.members /\ t \in Sessions
          /\ t.stored = [s.stored EXCEPT ![q.job] = s.stored[q.job] \cup {q.from}]
          /\ n = Jobs[q.job] => t.received = {} /\ t.current = j + 1
          /\ n # Jobs[q.job] => t.received = n /\ t.current = j
      <4> HIDE DEF t
      <4>1. ~Rejects(q, s) /\ q.path = "result" /\ s.current \in Nat \ {0}
        BY <1>1, <1>3
      <4> QED BY <2>1, <4>1, RecordedFields
    <3> QED BY ONLY <3>1
  <2> HIDE DEF t
  <2>3. j \in 1 .. N /\ s.stored[j] = s.received /\ s.received \subseteq Jobs[j]
    BY <1>1, <2>2 DEF ResultsAdd
  <2>4. \A i \in 1 .. N : t.stored[i] = IF i = j THEN n ELSE s.stored[i]
    BY <2>2, <2>3 DEF Sessions
  <2>5. t.received \subseteq t.members /\ t.current \in 1 .. N + 1
    BY <1>1, <1>3, <2>2, <2>3
  <2>6. \A i \in 1 .. N :
          t.stored[i] = IF i < t.current THEN Jobs[i] ELSE IF i = t.current THEN t.received ELSE {}
    <3> SUFFICES ASSUME NEW i \in 1 .. N
                 PROVE  t.stored[i] = IF i < t.current THEN Jobs[i]
                                      ELSE IF i = t.current THEN t.received ELSE {}
      OBVIOUS
    <3>1. s.stored[i] = IF i < j THEN Jobs[i] ELSE IF i = j THEN s.received ELSE {}
      BY DEF ResultsAdd
    <3>2. i \in Nat /\ j \in Nat
      BY <1>1
    <3>3. t.stored[i] = IF i = j THEN n ELSE s.stored[i]
      BY <2>4
    <3>4. CASE n = Jobs[j]
      <4>1. t.received = {} /\ t.current = j + 1
        BY <2>2, <3>4
      <4>2. t.stored[i] = IF i = j THEN Jobs[j] ELSE s.stored[i]
        BY <3>3, <3>4
      <4> HIDE DEF j
      <4> QED BY ONLY <3>1, <3>2, <4>1, <4>2
    <3>5. CASE n # Jobs[j]
      <4>1. t.received = n /\ t.current = j
        BY <2>2, <3>5
      <4> HIDE DEF j, n
      <4> QED BY ONLY <3>1, <3>2, <3>3, <4>1
    <3> QED BY <3>4, <3>5
  <2>7. t.current <= N => t.received \subseteq Jobs[t.current] /\ t.received # Jobs[t.current]
    <3>1. CASE n = Jobs[j]
      BY <3>1, <1>1, <2>2, <2>5
    <3>2. CASE n # Jobs[j]
      BY <3>2, <2>2, <2>3
    <3> QED BY <3>1, <3>2
  <2>8. ResultsAdd(t)
    BY <2>5, <2>6, <2>7 DEF ResultsAdd
  <2>9. j <= t.current /\ t.current \in Nat
    BY <1>1, <2>2
  <2>10. \A c \in Computers : c # q.from =>
           /\ c \in t.received => c \in s.received /\ t.current = j
           /\ j <= N /\ c \in Jobs[j] /\ c \notin s.received => t.current = j
    BY <2>2
  <2> QED BY <2>2, <2>8, <2>9, <2>10, <1>1, <1>3 DEF t
<1> QED BY <1>2, <1>3


-----------------------------------------------------------------------------
(* What holds whatever goes wrong.                                           *)

LEMMA RequestFields ==
  ASSUME LabTypeOK, NEW c \in Computers
  PROVE  /\ Request(c) \in Requests /\ Request(c).from = c /\ Request(c).job = last[c]
         /\ doing[c] = "register" <=> Request(c).path = "register"
         /\ doing[c] \in {"poll", "training"} <=> Request(c).path = "state"
         /\ doing[c] = "report" <=> Request(c).path = "result"
         /\ doing[c] = "failing" <=> Request(c).path = "fail"
<1> DEFINE path == CASE doing[c] = "register" -> "register"
                     [] doing[c] \in {"poll", "training"} -> "state"
                     [] doing[c] = "report" -> "result"
                     [] doing[c] = "failing" -> "fail"
                     [] OTHER -> "ack"
<1>1. Request(c) = [path |-> path, from |-> c, job |-> last[c]]
  BY DEF Request
<1>2. /\ path \in {"register", "state", "result", "fail", "ack"}
      /\ doing[c] = "register" <=> path = "register"
      /\ doing[c] \in {"poll", "training"} <=> path = "state"
      /\ doing[c] = "report" <=> path = "result"
      /\ doing[c] = "failing" <=> path = "fail"
  OBVIOUS
<1>3. last[c] \in Nat
  BY DEF LabTypeOK
<1> HIDE DEF path
<1> QED BY <1>1, <1>2, <1>3 DEF Requests

LEMMA GoesFields ==
  ASSUME LabTypeOK, NEW c \in Computers, NEW place \in Places, Goes(c, place)
  PROVE  /\ doing' \in [Computers -> Places] /\ last' \in [Computers -> Nat]
         /\ outcome' \in [Computers -> {"none", "success", "failure"}]
         /\ doing'[c] = place
         /\ last'[c] = IF place = "training" /\ doing[c] = "poll" THEN session.current ELSE last[c]
         /\ outcome'[c] = IF place = Ended(c)
                          THEN IF doing[c] = "acking" THEN "success" ELSE "failure"
                          ELSE outcome[c]
         /\ \A d \in Computers : d # c =>
              doing'[d] = doing[d] /\ last'[d] = last[d] /\ outcome'[d] = outcome[d]
<1>1. session.current \in Nat
  BY DEF LabTypeOK, Sessions
<1>2. doing' = [doing EXCEPT ![c] = place]
  BY DEF Goes
<1>3. last' = IF place = "training" /\ doing[c] = "poll"
              THEN [last EXCEPT ![c] = session.current] ELSE last
  BY DEF Goes
<1> DEFINE o == IF doing[c] = "acking" THEN "success" ELSE "failure"
<1>4. outcome' = IF place = Ended(c) THEN [outcome EXCEPT ![c] = o] ELSE outcome
  BY DEF Goes
<1>5. o \in {"none", "success", "failure"}
  OBVIOUS
<1>6. doing \in [Computers -> Places] /\ last \in [Computers -> Nat]
      /\ outcome \in [Computers -> {"none", "success", "failure"}]
  BY DEF LabTypeOK
<1>7. /\ doing' \in [Computers -> Places] /\ doing'[c] = place
      /\ \A d \in Computers : d # c => doing'[d] = doing[d]
  BY <1>2, <1>6
<1>8. /\ last' \in [Computers -> Nat]
      /\ last'[c] = IF place = "training" /\ doing[c] = "poll" THEN session.current ELSE last[c]
      /\ \A d \in Computers : d # c => last'[d] = last[d]
  BY <1>1, <1>3, <1>6
<1> HIDE DEF o
<1>9. /\ outcome' \in [Computers -> {"none", "success", "failure"}]
      /\ outcome'[c] = IF place = Ended(c) THEN o ELSE outcome[c]
      /\ \A d \in Computers : d # c => outcome'[d] = outcome[d]
  BY <1>4, <1>5, <1>6
<1> QED BY <1>7, <1>8, <1>9 DEF o

\* A request of one computer leaves the programs of the others where they are.
LEMMA OthersInJob ==
  ASSUME BInv, NEW q \in Requests, q.path = "result" => q.from \in session.members,
         session' = After(q, session), NEW d \in Computers, d # q.from,
         doing'[d] = doing[d], last'[d] = last[d],
         \A p \in late' : p \in late \/ p.from # d
  PROVE  InJob(d)'
<1>1. /\ session.members \subseteq session'.members
      /\ session.current <= session'.current
      /\ session.current \in Nat /\ session'.current \in Nat
      /\ d \in session'.received => d \in session.received /\ session'.current = session.current
      /\ session.current <= Len(Jobs) /\ d \in Jobs[session.current] /\ d \notin session.received =>
           session'.current = session.current
  BY Handled DEF BInv, LabTypeOK
<1>2. InJob(d) /\ last[d] \in Nat
  BY DEF BInv, LivingInJob, LabTypeOK
<1>3. Living(d)' <=> Living(d)
  BY DEF Living
<1> QED BY <1>1, <1>2, <1>3 DEF InJob


\* A program that goes on to another place, with or without a request of its
\* being handled.
LEMMA ProgramMoves ==
  ASSUME BInv, NEW c \in Computers, NEW place \in Places, Goes(c, place),
         session' = session \/ (doing[c] \in Calling /\ session' = After(Request(c), session)),
         late' = late \/ late' = late \cup {Request(c)},
         InJob(c)', place = "acking" => session'.current > Len(Jobs),
         server' = server, trained' \in [Computers -> Nat], odd' = odd,
         misfortunes' \in Nat, restarts' = restarts
  PROVE  BInv'
<1>1. LabTypeOK
  BY DEF BInv
<1>2. /\ doing' \in [Computers -> Places] /\ last' \in [Computers -> Nat]
      /\ outcome' \in [Computers -> {"none", "success", "failure"}]
      /\ doing'[c] = place
      /\ outcome'[c] = "success" => doing[c] = "acking" \/ outcome[c] = "success"
      /\ \A d \in Computers : d # c =>
           doing'[d] = doing[d] /\ last'[d] = last[d] /\ outcome'[d] = outcome[d]
  BY <1>1, GoesFields
<1>3. /\ Request(c) \in Requests /\ Request(c).from = c
      /\ Request(c).path = "result" => c \in session.members
  <2>1. doing[c] = "report" => c \in session.members
    BY DEF BInv, LivingInJob, InJob, Living
  <2> QED BY <1>1, <2>1, RequestFields
<1>4. /\ session' \in Sessions /\ ResultsAdd(session)'
      /\ session.members \subseteq session'.members
      /\ session.current <= session'.current
      /\ session.current \in Nat /\ session'.current \in Nat
  <2>1. session \in Sessions /\ session.current \in Nat /\ ResultsAdd(session)
    BY DEF BInv, LabTypeOK, Sessions
  <2>2. CASE session' = session
    BY <2>1, <2>2 DEF ResultsAdd
  <2>3. CASE session' = After(Request(c), session)
    <3>1. /\ After(Request(c), session) \in Sessions
          /\ ResultsAdd(After(Request(c), session))
          /\ session.members \subseteq After(Request(c), session).members
          /\ session.current <= After(Request(c), session).current
          /\ session.current \in Nat /\ After(Request(c), session).current \in Nat
      BY <2>1, <1>3, Handled
    <3>2. ResultsAdd(session)' <=> ResultsAdd(After(Request(c), session))
      BY <2>3 DEF ResultsAdd
    <3> QED BY <3>1, <3>2, <2>3, <2>1
  <2> QED BY <2>2, <2>3
<1>5. LabTypeOK'
  <2>1. late' \subseteq Requests
    BY <1>1, <1>3 DEF LabTypeOK
  <2> QED BY <1>1, <1>2, <1>4, <2>1 DEF LabTypeOK
<1>6. LivingInJob'
  <2> SUFFICES ASSUME NEW d \in Computers, d # c PROVE InJob(d)'
    BY DEF LivingInJob
  <2>1. \A p \in late' : p \in late \/ p.from # d
    BY <1>3
  <2>2. CASE session' = session
    <3>1. InJob(d) /\ (Living(d)' <=> Living(d))
      BY <1>2 DEF BInv, LivingInJob, Living
    <3> QED BY <2>1, <2>2, <3>1, <1>2 DEF InJob
  <2>3. CASE session' = After(Request(c), session)
    <3>1. doing'[d] = doing[d] /\ last'[d] = last[d] /\ d # Request(c).from
      BY <1>2, <1>3
    <3>2. Request(c).path = "result" => Request(c).from \in session.members
      BY <1>3
    <3> QED BY <2>1, <2>3, <3>1, <3>2, <1>3, OthersInJob
  <2> QED BY <2>2, <2>3
<1>7. LateResults'
  BY <1>3, <1>4 DEF BInv, LateResults
<1>8. CompleteWhenTold'
  <2> SUFFICES ASSUME NEW d \in Computers, doing'[d] = "acking" \/ outcome'[d] = "success"
               PROVE  session'.current > Len(Jobs)
    BY DEF CompleteWhenTold
  <2>1. CASE place = "acking" /\ d = c
    BY <2>1
  <2>2. CASE doing[d] = "acking" \/ outcome[d] = "success"
    <3>1. session.current > Len(Jobs)
      BY <2>2 DEF BInv, CompleteWhenTold
    <3> QED BY <3>1, <1>4, JobsShape
  <2> QED BY <2>1, <2>2, <1>2
<1> QED BY <1>4, <1>5, <1>6, <1>7, <1>8 DEF BInv

\* Places a program does not come back from to the experiment.
Out == {"failing", "failing ack", "closing", "ended"}

LEMMA OutIsOut ==
  ASSUME BInv, NEW c \in Computers, NEW place \in Out, Goes(c, place)
  PROVE  InJob(c)' /\ place \in Places /\ place # "acking"
<1>1. place \in Places
  BY DEF Out, Places, Calling
<1>2. doing'[c] = place
  BY <1>1, GoesFields DEF BInv
<1> QED BY <1>1, <1>2 DEF Out, InJob, Living

LEMMA EndsAreOut ==
  ASSUME NEW c
  PROVE  OnException(c) \in Out /\ Ended(c) \in Out
BY DEF OnException, Ended, Out

\* The steps that only lead a program out, or on in its job.
LEMMA LeavingKeeps ==
  ASSUME BInv, NEW c \in Computers, CallRefused(c) \/ CallLost(c) \/ TrainAlone(c) \/ Interrupt(c)
  PROVE  BInv'
<1>1. PICK place \in Out : Goes(c, place)
  <2>1. "failing" \in Out /\ OnException(c) \in Out
    BY EndsAreOut DEF Out
  <2> QED BY <2>1 DEF CallRefused, CallLost, TrainAlone, Interrupt
<1>2. InJob(c)' /\ place \in Places /\ place # "acking"
  BY <1>1, OutIsOut
<1>3. /\ session' = session \/ (doing[c] \in Calling /\ session' = After(Request(c), session))
      /\ late' = late \/ late' = late \cup {Request(c)}
      /\ server' = server /\ trained' = trained /\ odd' = odd /\ restarts' = restarts
      /\ misfortunes' = misfortunes \/ misfortunes' = misfortunes + 1
  BY DEF CallRefused, CallLost, TrainAlone, Interrupt, Misfortune
<1>4. trained' \in [Computers -> Nat] /\ misfortunes' \in Nat
  BY <1>3 DEF BInv, LabTypeOK
<1> QED BY <1>1, <1>2, <1>3, <1>4, ProgramMoves

LEMMA TrainingKeeps ==
  ASSUME BInv, NEW c \in Computers, TrainTogether(c)
  PROVE  BInv'
<1>1. /\ doing[c] = "training" /\ Goes(c, "report") /\ trained' = [trained EXCEPT ![c] = last[c]]
      /\ UNCHANGED <<server, session, odd, late, misfortunes, restarts>>
  BY DEF TrainTogether
<1>2. "report" \in Places
  BY DEF Places, Calling
<1>3. doing'[c] = "report" /\ last'[c] = last[c]
  BY <1>1, <1>2, GoesFields DEF BInv
<1>4. InJob(c)'
  <2>1. InJob(c)
    BY DEF BInv, LivingInJob
  <2> QED BY <1>1, <1>3, <2>1 DEF InJob, Living
<1>5. trained' \in [Computers -> Nat] /\ misfortunes' \in Nat
  BY <1>1 DEF BInv, LabTypeOK
<1> QED BY <1>1, <1>2, <1>4, <1>5, ProgramMoves


\* A call that is answered, by where the program makes it.
LEMMA CallKeeps ==
  ASSUME BInv, NEW c \in Computers, Call(c)
  PROVE  BInv'
<1> DEFINE place == IF Rejects(Request(c), session) THEN OnException(c) ELSE OnAnswer(c, session')
<1>1. /\ doing[c] \in Calling /\ session' = After(Request(c), session) /\ Goes(c, place)
      /\ UNCHANGED <<server, trained, odd, late, misfortunes, restarts>>
  BY DEF Call
<1>2. /\ LabTypeOK /\ InJob(c) /\ session \in Sessions /\ ResultsAdd(session)
      /\ session.current \in Nat /\ last[c] \in Nat
  BY DEF BInv, LivingInJob, LabTypeOK, Sessions
<1>3. /\ Request(c) \in Requests /\ Request(c).from = c /\ Request(c).job = last[c]
      /\ doing[c] = "register" <=> Request(c).path = "register"
      /\ doing[c] \in {"poll", "training"} <=> Request(c).path = "state"
      /\ doing[c] = "report" <=> Request(c).path = "result"
  BY <1>2, RequestFields
<1>0. late' = late
  BY <1>1
<1>4. trained' \in [Computers -> Nat] /\ misfortunes' \in Nat
  BY <1>1 DEF BInv, LabTypeOK
<1> SUFFICES /\ place \in Places /\ InJob(c)'
             /\ place = "acking" => session'.current > Len(Jobs)
  BY <1>1, <1>4, ProgramMoves
<1>5. CASE place \in Out
  BY <1>1, <1>5, OutIsOut
<1>6. ASSUME place \notin Out, doing[c] = "register"
      PROVE  /\ place \in Places /\ InJob(c)'
             /\ place = "acking" => session'.current > Len(Jobs)
  <2>1. ~Rejects(Request(c), session) /\ place = "poll"
    BY <1>6, EndsAreOut DEF OnAnswer
  <2>2. place \in Places
    BY <2>1 DEF Places, Calling
  <2>3. doing'[c] = "poll" /\ last'[c] = 0
    BY <2>1, <2>2, <1>1, <1>2, <1>6, GoesFields DEF InJob
  <2>4. /\ session'.received = session.received /\ session'.current = session.current
        /\ c \in session'.members /\ c \notin session.members
    BY <1>1, <1>2, <1>3, <1>6, <2>1, AfterFields DEF Rejects
  <2>5. c \notin session.received /\ \A q \in late : q.path = "result" => q.from # c
    BY <2>4, <1>2 DEF ResultsAdd, BInv, LateResults
  <2> HIDE DEF place
  <2>6. c \notin session'.received /\ 0 <= session'.current
    BY <2>4, <2>5, <1>2
  <2>7. \A q \in late' : q.path = "result" => q.from # c
    BY <2>5, <1>0
  <2>8. InJob(c)'
    BY ONLY <2>3, <2>4, <2>6, <2>7 DEF InJob, Living
  <2> QED BY <2>1, <2>2, <2>8
<1>7. ASSUME place \notin Out, doing[c] \in {"poll", "training"}
      PROVE  /\ place \in Places /\ InJob(c)'
             /\ place = "acking" => session'.current > Len(Jobs)
  <2>1. ~Rejects(Request(c), session) /\ session' = session
    <3>1. Request(c).path = "state"
      BY <1>3, <1>7
    <3> QED BY <3>1, <1>1 DEF Rejects, After
  <2>2. place = OnAnswer(c, session)
    BY <2>1
  <2>3. CASE doing[c] = "poll"
    <3>1. /\ place \in {"poll", "training", "acking", "acking failure"}
          /\ place = "acking" => Status(session) = "complete"
          /\ place = "training" =>
               Status(session) = "running" /\ last[c] < session.current /\ c \in Jobs[session.current]
      BY <2>2, <2>3 DEF OnAnswer
    <3>2. place \in Places
      BY <3>1 DEF Places, Calling
    <3>3. place = "acking" => session.current > Len(Jobs)
      BY <3>1 DEF Status
    <3>4. place = "training" => session.current <= Len(Jobs)
      <4>1. Status(session) = "running" => ~(session.current > Len(Jobs))
        BY DEF Status
      <4>2. Len(Jobs) \in Nat /\ session.current \in Nat
        BY <1>2, JobsShape
      <4> HIDE DEF place
      <4> QED BY ONLY <3>1, <4>1, <4>2
    <3>5. doing'[c] = place /\ last'[c] = IF place = "training" THEN session.current ELSE last[c]
      BY <3>2, <2>3, <1>1, <1>2, GoesFields
    <3>6. Living(c) /\ (c \in session.received => last[c] = session.current)
      BY <2>3, <1>2 DEF Living, InJob
    <3> HIDE DEF place
    <3>7. CASE place = "training"
      <4>1. c \notin session.received
        BY <3>1, <3>6, <3>7, <1>2
      <4>2. c \in Jobs[session.current] /\ session.current <= Len(Jobs)
        BY <3>1, <3>4, <3>7
      <4>3. last'[c] = session.current /\ doing'[c] = "training"
        BY <3>5, <3>7
      <4>4. c \in session.members /\ \A q \in late : q.path = "result" => q.from # c
        BY <3>6, <1>2 DEF InJob
      <4>5. InJob(c)'
        BY ONLY <4>1, <4>2, <4>3, <4>4, <2>1, <1>0, <1>2 DEF InJob
      <4> QED BY <3>2, <3>7, <4>5
    <3>8. CASE place # "training"
      BY <3>1, <3>2, <3>3, <3>5, <3>6, <3>8, <2>1, <1>1, <1>2 DEF InJob, Living
    <3> QED BY <3>7, <3>8
  <2>4. CASE doing[c] = "training"
    <3>1. place = "training"
      BY <1>7, <2>2, <2>4 DEF OnAnswer, Out
    <3>2. place \in Places
      BY <3>1 DEF Places, Calling
    <3>3. doing'[c] = "training" /\ last'[c] = last[c]
      BY <3>1, <3>2, <2>4, <1>1, <1>2, GoesFields
    <3> QED BY <3>1, <3>2, <3>3, <2>1, <2>4, <1>1, <1>2 DEF InJob, Living
  <2> QED BY <1>7, <2>3, <2>4
<1>8. ASSUME place \notin Out, doing[c] = "report"
      PROVE  /\ place \in Places /\ InJob(c)'
             /\ place = "acking" => session'.current > Len(Jobs)
  <2>1. ~Rejects(Request(c), session) /\ place = "poll"
    BY <1>8, EndsAreOut DEF OnAnswer
  <2>2. place \in Places
    BY <2>1 DEF Places, Calling
  <2>3. doing'[c] = "poll" /\ last'[c] = last[c]
    BY <2>1, <2>2, <1>1, <1>2, <1>8, GoesFields
  <2>4. /\ c \in session.members /\ last[c] = session.current
        /\ \A q \in late : q.path = "result" => q.from # c
    BY <1>2, <1>8 DEF InJob, Living
  <2>5. session' = Recorded(Request(c), session)
    BY <1>1, <1>3, <1>8, <2>1 DEF After
  <2>6. /\ session'.members = session.members
        /\ \/ session'.received = {} /\ session'.current = session.current + 1
           \/ session'.current = session.current
    BY <2>1, <2>5, <1>2, <1>3, <1>8, RecordedFields
  <2>7. /\ session.current <= session'.current
        /\ c \in session'.received => session'.current = session.current
    BY <2>6, <1>2
  <2> HIDE DEF place
  <2>8. InJob(c)'
    BY <2>3, <2>4, <2>6, <2>7, <1>0, <1>2 DEF InJob, Living
  <2> QED BY <2>1, <2>2, <2>8
<1>9. ASSUME doing[c] \in {"acking", "acking failure", "failing", "failing ack"}
      PROVE  place \in Out
  <2>1. OnAnswer(c, session') \in Out
    BY <1>9, EndsAreOut DEF OnAnswer, Out
  <2> QED BY <2>1, EndsAreOut
<1> QED BY <1>1, <1>5, <1>6, <1>7, <1>8, <1>9 DEF Calling


LEMMA HandledLateKeeps ==
  ASSUME BInv, NEW q \in late, HandledLate(q)
  PROVE  BInv'
<1>1. /\ session' = After(q, session) /\ late' = late \ {q}
      /\ UNCHANGED <<server, doing, last, trained, outcome, odd, misfortunes, restarts>>
  BY DEF HandledLate
<1>2. q \in Requests /\ session \in Sessions /\ ResultsAdd(session) /\ LabTypeOK
  BY DEF BInv, LabTypeOK
<1>3. q.path = "result" => q.from \in session.members
  BY DEF BInv, LateResults
<1>4. /\ session' \in Sessions /\ ResultsAdd(After(q, session))
      /\ session.members \subseteq session'.members
      /\ session.current <= session'.current
      /\ session.current \in Nat /\ session'.current \in Nat
      /\ q.path # "result" => session'.received = session.received /\ session'.current = session.current
  BY <1>1, <1>2, <1>3, Handled
<1>5. ResultsAdd(session)'
  BY <1>1, <1>4 DEF ResultsAdd
<1>6. LabTypeOK'
  BY <1>1, <1>2, <1>4 DEF LabTypeOK
<1>7. LivingInJob'
  <2> SUFFICES ASSUME NEW d \in Computers PROVE InJob(d)'
    BY DEF LivingInJob
  <2>1. CASE d # q.from
    <3>1. \A p \in late' : p \in late \/ p.from # d
      BY <1>1
    <3> QED BY <2>1, <3>1, <1>1, <1>2, <1>3, OthersInJob
  <2>2. CASE d = q.from
    <3>1. InJob(d) /\ (Living(d)' <=> Living(d)) /\ last[d] \in Nat
      BY <1>1 DEF BInv, LivingInJob, Living, LabTypeOK
    <3>2. Living(d) => q.path # "result"
      BY <3>1, <2>2 DEF InJob
    <3>3. doing[d] \in {"training", "report"} => Living(d)
      BY DEF Living
    <3>4. late' \subseteq late
      BY <1>1
    <3> QED BY <3>1, <3>2, <3>3, <3>4, <1>1, <1>4 DEF InJob
  <2> QED BY <2>1, <2>2
<1>8. LateResults'
  BY <1>1, <1>4 DEF BInv, LateResults
<1>9. CompleteWhenTold'
  BY <1>1, <1>4, JobsShape DEF BInv, CompleteWhenTold
<1> QED BY <1>5, <1>6, <1>7, <1>8, <1>9 DEF BInv

LEMMA CrashKeeps ==
  ASSUME BInv, NEW c \in Computers, Crash(c)
  PROVE  BInv'
<1>1. /\ doing' = [doing EXCEPT ![c] = "ended"] /\ outcome' = [outcome EXCEPT ![c] = "failure"]
      /\ server' \in {server, "closed"} /\ misfortunes' = misfortunes + 1
      /\ UNCHANGED <<session, last, trained, odd, late, restarts>>
  BY DEF Crash, Misfortune
<1>2. LabTypeOK'
  BY <1>1 DEF BInv, LabTypeOK, Places
<1>3. /\ doing'[c] = "ended" /\ outcome'[c] = "failure"
      /\ \A d \in Computers : d # c => doing'[d] = doing[d] /\ outcome'[d] = outcome[d]
  BY <1>1 DEF BInv, LabTypeOK
<1>4. LivingInJob'
  BY <1>1, <1>3 DEF BInv, LivingInJob, InJob, Living
<1>5. ResultsAdd(session)' /\ LateResults' /\ CompleteWhenTold'
  BY <1>1, <1>3 DEF BInv, ResultsAdd, LateResults, CompleteWhenTold
<1> QED BY <1>2, <1>4, <1>5 DEF BInv

LEMMA StartAgainKeeps ==
  ASSUME BInv, NEW c \in Computers, StartAgain(c)
  PROVE  BInv'
<1>1. /\ doing' = [doing EXCEPT ![c] = "register"] /\ outcome' = [outcome EXCEPT ![c] = "none"]
      /\ last' = [last EXCEPT ![c] = 0] /\ trained' = [trained EXCEPT ![c] = 0]
      /\ restarts' = restarts + 1
      /\ UNCHANGED <<server, session, odd, late, misfortunes>>
  BY DEF StartAgain
<1>2. LabTypeOK'
  <2>1. LabTypeOK
    BY DEF BInv
  <2>2. "register" \in Places /\ 0 \in Nat
    BY DEF Places, Calling
  <2>3. doing' \in [Computers -> Places] /\ last' \in [Computers -> Nat]
        /\ trained' \in [Computers -> Nat]
        /\ outcome' \in [Computers -> {"none", "success", "failure"}]
    BY <1>1, <2>1, <2>2 DEF LabTypeOK
  <2>4. restarts' \in Nat
    BY <1>1, <2>1 DEF LabTypeOK
  <2> QED BY <1>1, <2>1, <2>3, <2>4 DEF LabTypeOK
<1>3. /\ doing'[c] = "register" /\ outcome'[c] = "none" /\ last'[c] = 0
      /\ \A d \in Computers : d # c =>
           doing'[d] = doing[d] /\ outcome'[d] = outcome[d] /\ last'[d] = last[d]
  BY <1>1 DEF BInv, LabTypeOK
<1>4. LivingInJob'
  BY <1>1, <1>3 DEF BInv, LivingInJob, InJob, Living
<1>5. ResultsAdd(session)' /\ LateResults' /\ CompleteWhenTold'
  BY <1>1, <1>3 DEF BInv, ResultsAdd, LateResults, CompleteWhenTold
<1> QED BY <1>2, <1>4, <1>5 DEF BInv

LEMMA WatchdogKeeps ==
  ASSUME BInv, Watchdog
  PROVE  BInv'
<1>1. /\ session' = [session EXCEPT !.error = TRUE]
      /\ misfortunes' = misfortunes \/ misfortunes' = misfortunes + 1
      /\ UNCHANGED <<server, doing, last, trained, outcome, odd, late, restarts>>
  BY DEF Watchdog, Misfortune
<1>2. /\ session' \in Sessions
      /\ session'.members = session.members /\ session'.received = session.received
      /\ session'.current = session.current /\ session'.stored = session.stored
  BY <1>1 DEF BInv, LabTypeOK, Sessions
<1>3. LabTypeOK'
  BY <1>1, <1>2 DEF BInv, LabTypeOK
<1>4. LivingInJob'
  BY <1>1, <1>2 DEF BInv, LivingInJob, InJob, Living
<1>5. ResultsAdd(session)' /\ LateResults' /\ CompleteWhenTold'
  BY <1>1, <1>2 DEF BInv, ResultsAdd, LateResults, CompleteWhenTold
<1> QED BY <1>3, <1>4, <1>5 DEF BInv

LEMMA CloseKeeps ==
  ASSUME BInv, Close
  PROVE  BInv'
<1>1. /\ doing' = [doing EXCEPT ![0] = "ended"] /\ server' = "closed"
      /\ misfortunes' = misfortunes \/ misfortunes' = misfortunes + 1
      /\ UNCHANGED <<session, last, trained, outcome, odd, late, restarts>>
  BY DEF Close, Misfortune
<1>2. LabTypeOK'
  <2>1. LabTypeOK
    BY DEF BInv
  <2>2. doing' \in [Computers -> Places]
    BY <1>1, <2>1 DEF LabTypeOK, Places
  <2>3. misfortunes' \in Nat
    BY <1>1, <2>1 DEF LabTypeOK
  <2> QED BY <1>1, <2>1, <2>2, <2>3 DEF LabTypeOK
<1>3. \A d \in Computers : doing'[d] = doing[d] \/ doing'[d] = "ended"
  BY <1>1 DEF BInv, LabTypeOK
<1>4. LivingInJob'
  BY <1>1, <1>3 DEF BInv, LivingInJob, InJob, Living
<1>5. ResultsAdd(session)' /\ LateResults' /\ CompleteWhenTold'
  BY <1>1, <1>3 DEF BInv, ResultsAdd, LateResults, CompleteWhenTold
<1> QED BY <1>2, <1>4, <1>5 DEF BInv

LEMMA BInvStep == BInv /\ [LabNext]_labVars => BInv'
<1> SUFFICES ASSUME BInv, [LabNext]_labVars PROVE BInv'
  OBVIOUS
<1>1. CASE UNCHANGED labVars
  BY <1>1 DEF labVars, BInv, LabTypeOK, ResultsAdd, LivingInJob, InJob, Living, LateResults,
              CompleteWhenTold
<1>2. ASSUME NEW c \in Computers, Call(c) PROVE BInv'
  BY <1>2, CallKeeps
<1>3. ASSUME NEW c \in Computers, CallRefused(c) \/ CallLost(c) \/ TrainAlone(c) \/ Interrupt(c)
      PROVE  BInv'
  BY <1>3, LeavingKeeps
<1>4. ASSUME NEW c \in Computers, TrainTogether(c) PROVE BInv'
  BY <1>4, TrainingKeeps
<1>5. ASSUME NEW c \in Computers, Crash(c) PROVE BInv'
  BY <1>5, CrashKeeps
<1>6. ASSUME NEW c \in Computers, StartAgain(c) PROVE BInv'
  BY <1>6, StartAgainKeeps
<1>7. ASSUME NEW q \in late, HandledLate(q) PROVE BInv'
  BY <1>7, HandledLateKeeps
<1>8. CASE Watchdog
  BY <1>8, WatchdogKeeps
<1>9. CASE Close
  BY <1>9, CloseKeeps
<1> QED BY <1>1, <1>2, <1>3, <1>4, <1>5, <1>6, <1>7, <1>8, <1>9 DEF LabNext


-----------------------------------------------------------------------------
(* As long as nothing went wrong, no program fails.                          *)

\* The coordinator refuses no call.
LEMMA CalmCallsAccepted ==
  ASSUME BInv, Calm, NEW c \in Computers
  PROVE  ~Rejects(Request(c), session)
<1>1. /\ Request(c).from = c /\ Request(c).job = last[c]
      /\ doing[c] = "register" <=> Request(c).path = "register"
      /\ doing[c] = "report" <=> Request(c).path = "result"
  BY RequestFields DEF BInv
<1>2. doing[c] = "register" => c \notin session.members
  BY DEF Calm, CalmAt
<1>3. \A d \in session.members : Compatible(c, d)
  BY DEF Calm, Compatible
<1>4. doing[c] = "report" =>
        /\ last[c] = session.current /\ session.current <= Len(Jobs)
        /\ c \in Jobs[session.current] /\ c \notin session.received
  BY DEF BInv, LivingInJob, InJob
<1>5. session.current \in Nat /\ Len(Jobs) \in Nat
  BY JobsShape DEF BInv, LabTypeOK, Sessions
<1> QED BY <1>1, <1>2, <1>3, <1>4, <1>5 DEF Rejects

LEMMA CalmCall ==
  ASSUME BInv, Calm, NEW c \in Computers, Call(c)
  PROVE  Calm'
<1> DEFINE s == session
           q == Request(c)
           place == OnAnswer(c, session')
<1>1. /\ server = "open" /\ doing[c] \in Calling /\ session' = After(q, s)
      /\ UNCHANGED <<server, trained, odd, late, misfortunes, restarts>>
  BY DEF Call
<1>2. Goes(c, place)
  BY CalmCallsAccepted DEF Call
<1>3. /\ q \in Requests /\ q.from = c
      /\ doing[c] = "register" <=> q.path = "register"
      /\ doing[c] \in {"poll", "training"} <=> q.path = "state"
      /\ doing[c] = "report" <=> q.path = "result"
      /\ doing[c] = "failing" <=> q.path = "fail"
  BY RequestFields DEF BInv
<1>4. /\ s \in Sessions /\ ~s.error /\ odd = {} /\ late = {} /\ s.current \in Nat \ {0}
      /\ CalmAt(c) /\ InJob(c) /\ LabTypeOK
  BY JobsShape DEF BInv, LabTypeOK, Calm, LivingInJob, ResultsAdd
<1>5. doing[c] \in {"register", "poll", "training", "report", "acking"}
  BY <1>1, <1>4 DEF CalmAt, Calling
<1>6. ~Rejects(q, s)
  BY CalmCallsAccepted
<1>7. /\ session' \in Sessions /\ session'.error = s.error
      /\ s.members \subseteq session'.members /\ session'.members \subseteq s.members \cup {c}
      /\ doing[c] # "register" => session'.members = s.members
      /\ doing[c] # "acking" => session'.acks = s.acks
      /\ session'.acks \subseteq s.acks \cup {c}
      /\ doing[c] # "report" => session'.current = s.current
  <2>1. CASE doing[c] = "report"
    <3>1. session' = Recorded(q, s)
      BY <1>1, <1>3, <1>6, <2>1 DEF After
    <3>2. q.path = "result"
      BY <1>3, <2>1
    <3>3. /\ Recorded(q, s).members = s.members /\ Recorded(q, s).acks = s.acks
          /\ Recorded(q, s).error = s.error /\ Recorded(q, s) \in Sessions
      BY <1>3, <1>4, <1>6, <3>2, RecordedFields
    <3> QED BY <3>1, <3>3, <2>1
  <2>2. CASE doing[c] # "report"
    <3>1. q.path # "result"
      BY <1>3, <2>2
    <3>2. /\ session' \in Sessions /\ session'.current = s.current
          /\ s.members \subseteq session'.members
          /\ session'.members \subseteq s.members \cup {q.from}
          /\ q.path # "register" => session'.members = s.members
          /\ session'.acks \subseteq s.acks \cup {q.from}
          /\ q.path # "ack" => session'.acks = s.acks
          /\ q.path \in {"state", "ack", "result"} => session'.error = s.error
          /\ q.path = "register" /\ odd = {} => session'.error = s.error
      <4> HIDE DEF q, s
      <4> QED BY <1>1, <1>3, <1>4, <3>1, AfterFields
    <3>3. doing[c] # "acking" => q.path # "ack"
      BY <1>3, <1>5
    <3>4. q.path \in {"register", "state", "ack"}
      BY <1>3, <1>5, <3>1 DEF Requests
    <3> QED BY <3>2, <3>3, <3>4, <1>3, <1>4, <2>2
  <2> QED BY <2>1, <2>2
<1>8. /\ doing[c] = "register" => place = "poll"
      /\ doing[c] = "poll" => place \in {"poll", "training", "acking"}
      /\ doing[c] = "poll" /\ place = "training" => s.members = Computers
      /\ doing[c] = "training" => place = "training"
      /\ doing[c] = "report" => place = "poll"
      /\ doing[c] = "acking" => place = Ended(c)
  <2>1. Status(session') # "failed"
    BY <1>4, <1>7 DEF Status
  <2>2. Status(session') = "running" => session'.members = Computers
    BY DEF Status
  <2>3. doing[c] = "poll" => session'.members = s.members
    BY <1>7
  <2> QED BY <2>1, <2>2, <2>3, <1>5 DEF OnAnswer
<1>9. place \in Places
  BY <1>5, <1>8 DEF Places, Calling, Ended
<1>10. /\ doing'[c] = place
       /\ outcome'[c] = IF place = Ended(c)
                        THEN IF doing[c] = "acking" THEN "success" ELSE "failure"
                        ELSE outcome[c]
       /\ \A d \in Computers : d # c => doing'[d] = doing[d] /\ outcome'[d] = outcome[d]
  BY <1>2, <1>4, <1>9, GoesFields
<1> HIDE DEF place, s, q
<1>11. doing[c] # "acking" => outcome'[c] = outcome[c] /\ place \in {"poll", "training", "acking"}
  BY <1>5, <1>8, <1>10 DEF Ended
<1>12. doing[c] = "acking" => outcome'[c] = "success" /\ place = Ended(c)
  BY <1>8, <1>10
<1>13. s.members = Computers => session'.members = Computers
  BY <1>7, <1>4 DEF Sessions
<1>14. \A d \in Computers : CalmAt(d)'
  <2> SUFFICES ASSUME NEW d \in Computers PROVE CalmAt(d)'
    OBVIOUS
  <2>1. CASE d # c
    <3>1. CalmAt(d) /\ doing'[d] = doing[d] /\ outcome'[d] = outcome[d]
      BY <2>1, <1>10 DEF Calm
    <3>2. d \in session'.acks => d \in s.acks
      BY <2>1, <1>7
    <3>3. d \in session'.members => d \in s.members
      BY <2>1, <1>7
    <3> QED BY <3>1, <3>2, <3>3, <1>1, <1>13 DEF CalmAt, s
  <2>2. CASE d = c /\ doing[c] = "acking"
    <3>1. doing'[c] = Ended(c) /\ outcome'[c] = "success"
      BY <2>2, <1>10, <1>12
    <3>2. Ended(c) = IF c = 0 THEN "closing" ELSE "ended"
      BY DEF Ended
    <3> QED BY <2>2, <3>1, <3>2, <1>1 DEF CalmAt
  <2>3. CASE d = c /\ doing[c] # "acking"
    <3>1. doing'[c] = place /\ place \in {"poll", "training", "acking"} /\ outcome'[c] # "failure"
      BY <2>3, <1>4, <1>10, <1>11 DEF CalmAt
    <3>2. c \notin session'.acks
      BY <2>3, <1>4, <1>5, <1>7 DEF CalmAt, s
    <3>3. place = "training" => session'.members = Computers
      BY <2>3, <1>4, <1>5, <1>8, <1>13 DEF CalmAt, s
    <3> QED BY <2>3, <3>1, <3>2, <3>3, <1>1 DEF CalmAt
  <2> QED BY <2>1, <2>2, <2>3
<1>15. session'.current > 1 => session'.members = Computers
  <2>1. CASE doing[c] = "report"
    BY <2>1, <1>4, <1>13 DEF CalmAt, s
  <2>2. CASE doing[c] # "report"
    BY <2>2, <1>7, <1>13 DEF Calm, s
  <2> QED BY <2>1, <2>2
<1> QED BY <1>1, <1>4, <1>7, <1>14, <1>15 DEF Calm


\* A rank that trains is not left alone: nobody who was in the job is gone.
LEMMA CalmNobodyAlone ==
  ASSUME BInv, Calm, NEW c \in Computers
  PROVE  ~TrainAlone(c)
<1> SUFFICES ASSUME TrainAlone(c) PROVE FALSE
  OBVIOUS
<1>1. doing[c] = "training" /\ last[c] = session.current /\ session.current <= Len(Jobs)
  BY DEF TrainAlone, BInv, LivingInJob, InJob
<1>2. PICK d \in Jobs[last[c]] : Gone(d)
  BY DEF TrainAlone
<1>3. last[c] \in 1 .. Len(Jobs)
  BY <1>1 DEF BInv, ResultsAdd
<1>4. d \in Computers
  BY <1>3, JobsShape
<1>5. doing[d] \in {"closing", "ended"}
  BY <1>2, <1>4 DEF Gone, Calm, CalmAt
<1>6. session.current > Len(Jobs)
  BY <1>4, <1>5 DEF Calm, CalmAt, BInv, CompleteWhenTold
<1> QED BY <1>1, <1>6, JobsShape DEF BInv, LabTypeOK, Sessions

LEMMA CalmClose ==
  ASSUME BInv, Calm, Close, misfortunes = 0, misfortunes' = 0
  PROVE  Calm'
<1>1. /\ doing[0] = "closing" /\ doing' = [doing EXCEPT ![0] = "ended"] /\ server' = "closed"
      /\ AllTold
      /\ UNCHANGED <<session, last, trained, outcome, odd, late, restarts>>
  BY DEF Close, Misfortune
<1>2. 0 \in Computers /\ \A c \in Computers : CalmAt(c)
  BY LabAssumption DEF Computers, Calm
<1>3. session.members = Computers
  <2>1. session.current > Len(Jobs)
    BY <1>1, <1>2 DEF CalmAt, BInv, CompleteWhenTold
  <2>2. session.current > 1
    BY <2>1, JobsShape DEF BInv, LabTypeOK, Sessions
  <2> QED BY <2>2 DEF Calm
<1>4. \A c \in Computers : doing'[c] = "ended" /\ outcome[c] = "success"
  <2> SUFFICES ASSUME NEW c \in Computers PROVE doing'[c] = "ended" /\ outcome[c] = "success"
    OBVIOUS
  <2>1. c \in session.acks
    BY <1>1, <1>3 DEF AllTold
  <2>2. doing[c] \in {"closing", "ended"} /\ outcome[c] = "success" /\ (doing[c] = "closing" => c = 0)
    BY <2>1, <1>2 DEF CalmAt
  <2> QED BY <2>2, <1>1 DEF BInv, LabTypeOK
<1>5. \A c \in Computers : CalmAt(c)'
  BY <1>1, <1>4 DEF CalmAt
<1> QED BY <1>1, <1>5 DEF Calm

LEMMA CalmStep ==
  ASSUME BInv, misfortunes = 0 => Calm, [LabNext]_labVars, misfortunes' = 0
  PROVE  Calm'
<1>1. misfortunes \in Nat
  BY DEF BInv, LabTypeOK
<1>2. ~Misfortune
  BY <1>1 DEF Misfortune
<1>3. misfortunes = 0
  BY <1>1, <1>2 DEF LabNext, labVars, Call, CallRefused, CallLost, TrainTogether, TrainAlone, Interrupt,
                    Crash, StartAgain, HandledLate, Watchdog, Close
<1>4. Calm /\ \A c \in Computers : CalmAt(c)
  BY <1>3 DEF Calm
<1>5. CASE UNCHANGED labVars
  BY <1>4, <1>5 DEF labVars, Calm, CalmAt
<1>6. ASSUME NEW c \in Computers, Call(c) PROVE Calm'
  BY <1>4, <1>6, CalmCall
<1>7. ASSUME NEW c \in Computers, TrainTogether(c) PROVE Calm'
  <2>1. /\ doing[c] = "training" /\ Goes(c, "report")
        /\ UNCHANGED <<server, session, odd, late, misfortunes, restarts>>
    BY <1>7 DEF TrainTogether
  <2>2. "report" \in Places /\ "report" # Ended(c)
    BY DEF Places, Calling, Ended
  <2>3. /\ doing'[c] = "report" /\ outcome'[c] = outcome[c]
        /\ \A d \in Computers : d # c => doing'[d] = doing[d] /\ outcome'[d] = outcome[d]
    BY <2>1, <2>2, GoesFields DEF BInv
  <2>4. \A d \in Computers : CalmAt(d)'
    BY <1>4, <2>1, <2>3 DEF CalmAt
  <2> QED BY <1>4, <2>1, <2>4 DEF Calm
<1>8. ASSUME NEW c \in Computers, CallRefused(c) PROVE FALSE
  BY <1>4, <1>8 DEF CallRefused, CalmAt, Calling
<1>9. ASSUME NEW c \in Computers, TrainAlone(c) PROVE FALSE
  BY <1>4, <1>9, CalmNobodyAlone
<1>10. ASSUME NEW c \in Computers, StartAgain(c) PROVE FALSE
  BY <1>4, <1>10 DEF StartAgain, CalmAt
<1>11. ASSUME NEW q \in late PROVE FALSE
  BY <1>4 DEF Calm
<1>12. CASE Watchdog
  BY <1>2, <1>3, <1>12, <1>1 DEF Watchdog
<1>13. CASE Close
  BY <1>3, <1>4, <1>13, CalmClose
<1>14. ASSUME NEW c \in Computers, CallLost(c) \/ Interrupt(c) \/ Crash(c) PROVE FALSE
  BY <1>2, <1>14 DEF CallLost, Interrupt, Crash
<1> QED BY <1>5, <1>6, <1>7, <1>8, <1>9, <1>10, <1>11, <1>12, <1>13, <1>14 DEF LabNext

LEMMA LabStarts == LabInit => LInv
<1> SUFFICES ASSUME LabInit PROVE LInv
  OBVIOUS
<1>1. /\ server = "open" /\ session = NewSession /\ late = {} /\ restarts = 0
      /\ last = [c \in Computers |-> 0] /\ trained = [c \in Computers |-> 0]
      /\ outcome = [c \in Computers |-> "none"]
  BY DEF LabInit
<1>2. PICK missing \in SUBSET (Computers \ {0}) :
        /\ odd \in {{}, {0}, {NumComputers - 1}}
        /\ misfortunes = Cardinality(missing) + Cardinality(odd)
        /\ doing = [c \in Computers |-> IF c \in missing THEN "off" ELSE "register"]
  BY DEF LabInit
<1>3. 0 \in Computers /\ NumComputers - 1 \in Computers /\ IsFiniteSet(Computers)
  <2>1. NumComputers \in 2 .. 3 /\ 0 \in Int /\ NumComputers - 1 \in Int
    BY LabAssumption
  <2>2. IsFiniteSet(0 .. NumComputers - 1)
    BY ONLY <2>1, FS_Interval
  <2> QED BY <2>1, <2>2 DEF Computers
<1>4. /\ odd \subseteq Computers /\ IsFiniteSet(odd) /\ IsFiniteSet(missing)
      /\ Cardinality(odd) \in Nat /\ Cardinality(missing) \in Nat
  <2>1. odd \subseteq Computers /\ missing \subseteq Computers
    BY <1>2, <1>3
  <2> QED BY <2>1, <1>3, FS_Subset, FS_CardinalityType
<1>5. /\ NewSession \in Sessions /\ NewSession.members = {} /\ NewSession.received = {}
      /\ NewSession.acks = {} /\ NewSession.current = 1 /\ NewSession.error = FALSE
      /\ \A j \in 1 .. Len(Jobs) : NewSession.stored[j] = {}
  BY DEF NewSession, Sessions
<1>6. doing \in [Computers -> Places] /\ \A c \in Computers : doing[c] \in {"off", "register"}
  <2>1. {"off", "register"} \subseteq Places
    BY DEF Places, Calling
  <2> QED BY <1>2, <2>1
<1>7. LabTypeOK
  BY <1>1, <1>2, <1>4, <1>5, <1>6 DEF LabTypeOK
<1>8. ResultsAdd(session)
  <2>1. /\ session.members = {} /\ session.received = {} /\ session.current = 1
        /\ \A j \in 1 .. Len(Jobs) : session.stored[j] = {}
    BY <1>1, <1>5
  <2>2. Len(Jobs) \in Nat \ {0} /\ Jobs[1] # {}
    BY JobsShape
  <2>3. \A j \in 1 .. Len(Jobs) : ~(j < 1)
    BY <2>2
  <2>4. 1 \in 1 .. Len(Jobs) + 1
    BY <2>2
  <2> QED BY <2>1, <2>2, <2>3, <2>4 DEF ResultsAdd
<1>9. LivingInJob
  BY <1>1, <1>6 DEF LivingInJob, InJob, Living
<1>10. LateResults /\ CompleteWhenTold
  BY <1>1, <1>6 DEF LateResults, CompleteWhenTold
<1>11. misfortunes = 0 => Calm
  <2> SUFFICES ASSUME misfortunes = 0 PROVE Calm
    OBVIOUS
  <2>1. odd = {} /\ missing = {}
    <3>1. Cardinality(odd) = 0 /\ Cardinality(missing) = 0
      BY <1>2, <1>4
    <3> QED BY <3>1, <1>4, FS_EmptySet
  <2>2. \A c \in Computers : doing[c] = "register" /\ outcome[c] = "none"
    BY <2>1, <1>1, <1>2
  <2>3. \A c \in Computers : CalmAt(c)
    BY <2>2, <1>1, <1>5 DEF CalmAt
  <2> QED BY <2>1, <2>3, <1>1, <1>5 DEF Calm
<1> QED BY <1>7, <1>8, <1>9, <1>10, <1>11 DEF LInv, BInv

\* The experiment of the laboratory measures what it says, for either number of
\* computers, any number of repeats, misfortunes and restarts: a success of
\* computer 0 has the results of every rank of every job, what trains at the same
\* time is one job that no result of its own has ended, and no program fails unless
\* something went wrong (Coordinator.dispatch, worker, execute_job, run).
THEOREM TrialsStaySound == LabSpec => []TrialsAreSound
<1>1. LabInit => LInv
  BY LabStarts
<1>2. LInv /\ [LabNext]_labVars => LInv'
  BY BInvStep, CalmStep DEF LInv
<1>3. LInv => TrialsAreSound
  <2> SUFFICES ASSUME LInv PROVE TrialsAreSound
    OBVIOUS
  <2>1. outcome[0] = "success" => \A j \in 1 .. Len(Jobs) : session.stored[j] = Jobs[j]
    <3> SUFFICES ASSUME outcome[0] = "success", NEW j \in 1 .. Len(Jobs)
                 PROVE  session.stored[j] = Jobs[j]
      OBVIOUS
    <3>1. 0 \in Computers
      BY LabAssumption DEF Computers
    <3>2. session.current > Len(Jobs)
      BY <3>1 DEF LInv, BInv, CompleteWhenTold
    <3>3. j < session.current
      BY <3>2, JobsShape DEF LInv, BInv, ResultsAdd
    <3> QED BY <3>3 DEF LInv, BInv, ResultsAdd
  <2>2. \A c, d \in Computers :
          doing[c] = "training" /\ doing[d] = "training" =>
            last[c] = last[d] /\ last[c] = session.current /\ c \notin session.received
    BY DEF LInv, BInv, LivingInJob, InJob
  <2>3. \A c \in Computers : outcome[c] = "failure" => misfortunes > 0
    BY DEF LInv, BInv, LabTypeOK, Calm, CalmAt
  <2> QED BY <2>1, <2>2, <2>3 DEF TrialsAreSound
<1> QED BY <1>1, <1>2, <1>3, PTL DEF LabSpec
=============================================================================
