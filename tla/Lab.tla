---------------------------------- MODULE Lab ----------------------------------
(****************************************************************************)
(* The laboratory experiment of scripts/lab_demo.py: one program per         *)
(* computer; the one of computer 0 also serves the coordinator over HTTP.    *)
(* Each program asks for the state, trains the current job if it has a rank  *)
(* in it, and delivers its result; the first failure anywhere ends the       *)
(* experiment everywhere.  A call takes effect and is answered, takes effect *)
(* and loses its answer, or is given up (15 s) and may still take effect     *)
(* later.  Time is abstract: what the code does when a time has passed it    *)
(* may do once something went wrong, or as a misfortune of its own.          *)
(****************************************************************************)
EXTENDS Integers, Sequences, FiniteSets

CONSTANTS
  NumComputers,    \* --computers, 2 or 3
  Repeats,         \* --repeats
  AllSingle,       \* --all-single
  MaxMisfortunes,  \* bound on what goes wrong
  MaxRestarts      \* how often somebody starts a program again

ASSUME LabAssumption ==
  /\ NumComputers \in 2 .. 3 /\ Repeats \in Nat \ {0} /\ AllSingle \in BOOLEAN
  /\ MaxMisfortunes \in Nat /\ MaxRestarts \in Nat

VARIABLES
  server,      \* is the coordinator's port open
  session,     \* the Coordinator object and the files it wrote
  doing,       \* doing[c]: where the program of computer c is
  last,        \* last[c]: the last job it started training in
  trained,     \* trained[c]: the last job its training process finished
  outcome,     \* outcome[c]: how the program ended
  odd,         \* computers whose code or data differ; never changes
  late,        \* requests given up by their sender and not yet handled
  misfortunes, restarts

labVars == <<server, session, doing, last, trained, outcome, odd, late, misfortunes, restarts>>
------------------------------------------------------------------------------
Computers == 0 .. NumComputers - 1

\* make_jobs: in every round equal and resource on all computers, then the single
\* ones.
RoundSize == 2 + IF AllSingle THEN NumComputers ELSE 1
RanksInRound(i) == IF i < 2 THEN Computers ELSE {i - 2}
Jobs == [j \in 1 .. Repeats * RoundSize |-> RanksInRound((j - 1) % RoundSize)]

Status(s) ==
  IF s.error THEN "failed"
  ELSE IF s.current > Len(Jobs) THEN "complete"
  ELSE IF s.members # Computers THEN "waiting" ELSE "running"

Compatible(c, d) == (c \in odd) = (d \in odd)

Completed(received, job) == received = Jobs[job]

\* What dispatch refuses with status 400.
Rejects(q, s) ==
  \/ /\ q.path = "register"
     /\ q.from \in s.members \/ \E d \in s.members : ~Compatible(q.from, d)
  \/ /\ q.path = "result"
     /\ \/ q.job # s.current \/ s.current > Len(Jobs)
        \/ q.from \notin Jobs[q.job] \/ q.from \in s.received

Joined(q, s) ==
  IF q.from \in s.members THEN s
  ELSE IF \E d \in s.members : ~Compatible(q.from, d) THEN [s EXCEPT !.error = TRUE]
  ELSE [s EXCEPT !.members = @ \cup {q.from}]

Recorded(q, s) ==
  LET received == s.received \cup {q.from}
      stored == [s.stored EXCEPT ![q.job] = @ \cup {q.from}]
  IN IF Completed(received, q.job)
     THEN [s EXCEPT !.stored = stored, !.received = {}, !.current = @ + 1]
     ELSE [s EXCEPT !.stored = stored, !.received = received]

\* dispatch under the coordinator's lock.
After(q, s) ==
  CASE q.path = "register" -> Joined(q, s)
    [] q.path = "result" -> IF Rejects(q, s) THEN s ELSE Recorded(q, s)
    [] q.path = "ack" -> [s EXCEPT !.acks = @ \cup {q.from}]
    [] q.path = "fail" -> [s EXCEPT !.error = TRUE]
    [] OTHER -> s
------------------------------------------------------------------------------
NewSession ==
  [members |-> {}, received |-> {}, acks |-> {}, current |-> 1, error |-> FALSE,
   stored |-> [j \in 1 .. Len(Jobs) |-> {}]]

LabInit ==
  /\ server = "open"
  /\ session = NewSession
  /\ \E missing \in SUBSET (Computers \ {0}) :
       /\ odd \in {{}, {0}, {NumComputers - 1}}
       /\ misfortunes = Cardinality(missing) + Cardinality(odd)
       /\ misfortunes <= MaxMisfortunes
       /\ doing = [c \in Computers |-> IF c \in missing THEN "off" ELSE "register"]
  /\ last = [c \in Computers |-> 0]
  /\ trained = [c \in Computers |-> 0]
  /\ outcome = [c \in Computers |-> "none"]
  /\ late = {}
  /\ restarts = 0

Misfortune == misfortunes < MaxMisfortunes /\ misfortunes' = misfortunes + 1

\* Places of a program where it calls the coordinator, and the call.
Calling == {"register", "poll", "training", "report", "acking", "acking failure",
            "failing", "failing ack"}
Request(c) ==
  LET path == CASE doing[c] = "register" -> "register"
                [] doing[c] \in {"poll", "training"} -> "state"
                [] doing[c] = "report" -> "result"
                [] doing[c] = "failing" -> "fail"
                [] OTHER -> "ack"
  IN [path |-> path, from |-> c, job |-> last[c]]

\* The end of run: computer 0 first lets the others see the outcome.
Ended(c) == IF c = 0 THEN "closing" ELSE "ended"

\* An exception ends the job's process and leads to the best-effort report.
OnException(c) == IF doing[c] \in {"failing", "failing ack"} THEN Ended(c) ELSE "failing"

\* Where an answered call leads.
OnAnswer(c, s) ==
  CASE doing[c] = "register" -> "poll"
    [] doing[c] = "poll" ->
         (CASE Status(s) = "complete" -> "acking"
            [] Status(s) = "failed" -> "acking failure"
            [] Status(s) = "running" /\ last[c] < s.current /\ c \in Jobs[s.current] -> "training"
            [] OTHER -> "poll")
    [] doing[c] = "training" -> IF Status(s) = "failed" THEN "failing" ELSE "training"
    [] doing[c] = "report" -> "poll"
    [] doing[c] = "acking" -> Ended(c)
    [] doing[c] = "acking failure" -> "failing"
    [] doing[c] = "failing" -> "failing ack"
    [] doing[c] = "failing ack" -> Ended(c)

Goes(c, place) ==
  /\ doing' = [doing EXCEPT ![c] = place]
  /\ last' = IF place = "training" /\ doing[c] = "poll" THEN [last EXCEPT ![c] = session.current] ELSE last
  /\ outcome' = IF place = Ended(c)
                THEN [outcome EXCEPT ![c] = IF doing[c] = "acking" THEN "success" ELSE "failure"]
                ELSE outcome

\* A call that is handled and answered.
Call(c) ==
  /\ server = "open" /\ doing[c] \in Calling
  /\ session' = After(Request(c), session)
  /\ Goes(c, IF Rejects(Request(c), session) THEN OnException(c) ELSE OnAnswer(c, session'))
  /\ UNCHANGED <<server, trained, odd, late, misfortunes, restarts>>

\* Nobody listens any more.
CallRefused(c) ==
  /\ server = "closed" /\ doing[c] \in Calling
  /\ Goes(c, OnException(c))
  /\ UNCHANGED <<server, session, trained, odd, late, misfortunes, restarts>>

\* The caller gives up: the answer is lost, or the request, or it is delayed.
CallLost(c) ==
  /\ server = "open" /\ doing[c] \in Calling /\ Misfortune
  /\ \/ session' = After(Request(c), session) /\ UNCHANGED late
     \/ UNCHANGED <<session, late>>
     \/ UNCHANGED session /\ late' = late \cup {Request(c)}
  /\ Goes(c, OnException(c))
  /\ UNCHANGED <<server, trained, odd, restarts>>

HandledLate(q) ==
  /\ server = "open"
  /\ session' = After(q, session)
  /\ late' = late \ {q}
  /\ UNCHANGED <<server, doing, last, trained, outcome, odd, misfortunes, restarts>>

\* dist_runner.py of one rank ends well only with all ranks of the job.
TakesPart(d, job) == last[d] = job /\ (doing[d] = "training" \/ trained[d] = job)
Gone(d) == doing[d] \in {"failing", "failing ack", "closing", "ended", "off"}

TrainTogether(c) ==
  /\ doing[c] = "training"
  /\ \A d \in Jobs[last[c]] : TakesPart(d, last[c])
  /\ trained' = [trained EXCEPT ![c] = last[c]]
  /\ Goes(c, "report")
  /\ UNCHANGED <<server, session, odd, late, misfortunes, restarts>>

\* A partner went away: Gloo fails, or --timeout passes.
TrainAlone(c) ==
  /\ doing[c] = "training"
  /\ \E d \in Jobs[last[c]] : Gone(d) /\ ~TakesPart(d, last[c])
  /\ Goes(c, "failing")
  /\ UNCHANGED <<server, session, trained, odd, late, misfortunes, restarts>>

\* A failed or late training process, a bad result, too little memory, Ctrl-C.
Interrupt(c) ==
  /\ doing[c] \in Calling \ {"failing", "failing ack"} /\ Misfortune
  /\ Goes(c, "failing")
  /\ UNCHANGED <<server, session, trained, odd, late, restarts>>

\* The computer goes down.
Crash(c) ==
  /\ doing[c] \notin {"off", "ended"} /\ Misfortune
  /\ doing' = [doing EXCEPT ![c] = "ended"]
  /\ outcome' = [outcome EXCEPT ![c] = "failure"]
  /\ server' = IF c = 0 THEN "closed" ELSE server
  /\ UNCHANGED <<session, last, trained, odd, late, restarts>>

\* The same command again, with the same rank and session code.
StartAgain(c) ==
  /\ c # 0 /\ doing[c] = "ended" /\ outcome[c] = "failure" /\ restarts < MaxRestarts
  /\ restarts' = restarts + 1
  /\ doing' = [doing EXCEPT ![c] = "register"]
  /\ outcome' = [outcome EXCEPT ![c] = "none"]
  /\ last' = [last EXCEPT ![c] = 0]
  /\ trained' = [trained EXCEPT ![c] = 0]
  /\ UNCHANGED <<server, session, odd, late, misfortunes>>

\* No member and no job for longer than --timeout and half a minute.
Watchdog ==
  /\ server = "open" /\ Status(session) \in {"waiting", "running"}
  /\ \/ misfortunes > 0 /\ UNCHANGED misfortunes
     \/ Misfortune
  /\ session' = [session EXCEPT !.error = TRUE]
  /\ UNCHANGED <<server, doing, last, trained, outcome, odd, late, restarts>>

\* Mutant of AllTold: computer 0 closes at once.
AllToldOrNot == TRUE

AllTold == session.members \subseteq session.acks

\* All members have acknowledged, or twenty seconds have passed.
Close ==
  /\ doing[0] = "closing"
  /\ \/ (AllTold \/ misfortunes > 0) /\ UNCHANGED misfortunes
     \/ Misfortune
  /\ doing' = [doing EXCEPT ![0] = "ended"]
  /\ server' = "closed"
  /\ UNCHANGED <<session, last, trained, outcome, odd, late, restarts>>

LabNext ==
  \/ \E c \in Computers :
       \/ Call(c) \/ CallRefused(c) \/ CallLost(c)
       \/ TrainTogether(c) \/ TrainAlone(c) \/ Interrupt(c) \/ Crash(c) \/ StartAgain(c)
  \/ \E q \in late : HandledLate(q)
  \/ Watchdog \/ Close

LabSpec == LabInit /\ [][LabNext]_labVars

\* Steps the programs and their timers take by themselves.
Unhurt == misfortunes' = misfortunes
ProgramStep(c) == Call(c) \/ CallRefused(c) \/ TrainTogether(c) \/ TrainAlone(c) \/ (c = 0 /\ Close /\ Unhurt)
TimerStep == Watchdog /\ Unhurt
------------------------------------------------------------------------------
\* When computer 0 writes the report, every job has the results of all its
\* ranks.  Trials do not mix: processes that train at the same time train the
\* same job, and train it from before its first result to its last.  A program
\* fails only where something went wrong: in particular nobody finds the port
\* closed before it heard how the experiment ended (dispatch, worker, run).
TrialsAreSound ==
  /\ outcome[0] = "success" => \A j \in 1 .. Len(Jobs) : session.stored[j] = Jobs[j]
  /\ \A c, d \in Computers :
       doing[c] = "training" /\ doing[d] = "training" =>
         last[c] = last[d] /\ last[c] = session.current /\ c \notin session.received
  /\ \A c \in Computers : outcome[c] = "failure" => misfortunes > 0

\* Every program that was started ends, whatever goes wrong (worker,
\* execute_job, watchdog, run).
ProgramsEnded == \A c \in Computers : doing[c] \in {"off", "ended"}
=============================================================================
