------------------------ MODULE ClusterWorkersProofs ------------------------
(***************************************************************************)
(* Theorems about the workers beside the control service, for any number   *)
(* of computers, jobs and ranks, of lost requests and of restarts.         *)
(***************************************************************************)
EXTENDS ClusterWorkers, ClusterControlProofs, FiniteSetTheorems, SequenceTheorems

(***************************************************************************)
(* The inductive invariant.                                                *)
(***************************************************************************)

\* A rank whose job was started: its row never turns pending again.
Launched(k) == job[k[1]].status \notin Idle /\ Row(k[1], k[2]) # "pending"

\* Rank k is placed on computer a.
PlacedOn(a, k) == \E x \in job[k[1]].spec : x.agent = a /\ x.rank = k[2]

\* Every rank of the job has left its preparation behind.
Prepared(i) ==
  job[i].status \notin Idle /\ \A r \in Ranks : Row(i, r) \notin {"pending", "preparing"}

KeyOf(c) == <<c.job, c.rank>>
InInbox(a, k) == \E i \in DOMAIN inbox[a] : KeyOf(inbox[a][i]) = k
Working(a) == Tasks(a) # {} \/ inbox[a] # <<>>

\* The inbox holds what is left of one reply, at most one command for a rank.
Inbox(a) ==
  /\ phase[a] \in {"off", "loop"} => inbox[a] = <<>>
  /\ phase[a] = "commands" => inbox[a] # <<>>
  /\ \A m, n \in DOMAIN inbox[a] : KeyOf(inbox[a][m]) = KeyOf(inbox[a][n]) => m = n

\* A worker acts only for ranks that were started and placed on it.
Commissioned(a) ==
  \A k \in Keys : InInbox(a, k) \/ task[a][k] # NoTask => Launched(k) /\ PlacedOn(a, k)

\* A process belongs to a task that prepares or trains; a rank given up has none.
TaskShape(a) ==
  \A k \in Keys :
    /\ task[a][k].state = "none" => task[a][k] = NoTask
    /\ Alive(a, k) => task[a][k].state \in {"preparing", "running"}
    /\ k \in lost[a] \/ phase[a] = "off" => task[a][k] = NoTask

\* A command to train and a rank that trains mean that all ranks have been ready.
TrainsPrepared(a) ==
  /\ \A i \in DOMAIN inbox[a] : inbox[a][i].action = "run" => Prepared(inbox[a][i].job)
  /\ \A k \in Keys : task[a][k].state = "running" => Prepared(k[1])

\* A rank that trained once prepares no more, and no command tells it to.
TrainedIsDone(a) ==
  \A k \in Keys : <<"run", k>> \in begun =>
    /\ task[a][k].state \notin {"preparing", "ready"}
    /\ \A i \in DOMAIN inbox[a] : KeyOf(inbox[a][i]) = k => inbox[a][i].action # "prepare"

\* The service has heard of a working computer not long after the computer has
\* last heard of the service.
Timing(a) ==
  agent[a].row = "paired" =>
    /\ phase[a] = "polled" => agent[a].silence <= Slack
    /\ phase[a] # "polled" /\ Working(a) => agent[a].silence <= contact[a] + Slack

WorkerInv(a) ==
  Inbox(a) /\ Commissioned(a) /\ TaskShape(a) /\ TrainsPrepared(a) /\ TrainedIsDone(a)

WInv ==
  /\ WorkersTypeOK
  /\ IInv
  /\ \A a \in Agents : WorkerInv(a) /\ Timing(a)
  /\ \A q \in late : Launched(q.key)
  /\ \A k \in Keys : <<"run", k>> \in begun => Prepared(k[1])

-----------------------------------------------------------------------------
(***************************************************************************)
(* The commands of the inbox.                                              *)
(***************************************************************************)

LEMMA CommandsOf ==
  ASSUME NEW q \in Seq(PendingCommand), NEW m \in DOMAIN q
  PROVE  q[m] \in PendingCommand /\ q[m].job \in Jobs /\ KeyOf(q[m]) \in Keys
<1>1. DOMAIN q = 1 .. Len(q)
  BY LenProperties
<1>2. q[m] \in PendingCommand
  BY <1>1, ElementOfSeq
<1>. QED
  BY <1>2 DEF PendingCommand, KeyOf, Keys

LEMMA FirstCommand ==
  ASSUME WInv, NEW a \in Agents, Obeying(a)
  PROVE  /\ inbox[a] # <<>> /\ inbox[a] \in Seq(PendingCommand)
         /\ First(a) \in PendingCommand /\ First(a) = inbox[a][1] /\ 1 \in DOMAIN inbox[a]
         /\ Key(a) \in Keys /\ Key(a)[1] = First(a).job /\ Key(a)[2] = First(a).rank
         /\ Key(a) = KeyOf(First(a)) /\ InInbox(a, Key(a))
         /\ Launched(Key(a)) /\ PlacedOn(a, Key(a))
<1>1. inbox[a] # <<>> /\ inbox[a] \in Seq(PendingCommand)
  BY DEF WInv, WorkersTypeOK, WorkerInv, Inbox, Obeying
<1>2. Len(inbox[a]) \in Nat \ {0} /\ DOMAIN inbox[a] = 1 .. Len(inbox[a])
  BY <1>1, EmptySeq, LenProperties
<1>3. First(a) = inbox[a][1] /\ 1 \in DOMAIN inbox[a]
  BY <1>1, <1>2 DEF First
<1>4. First(a) \in PendingCommand
  BY <1>1, HeadTailProperties DEF First
<1>5. /\ Key(a) \in Keys /\ Key(a)[1] = First(a).job /\ Key(a)[2] = First(a).rank
      /\ Key(a) = KeyOf(First(a))
  BY <1>4 DEF Key, Keys, KeyOf, PendingCommand
<1>6. InInbox(a, Key(a))
  BY <1>3, <1>5 DEF InInbox
<1>7. Launched(Key(a)) /\ PlacedOn(a, Key(a))
  BY <1>5, <1>6 DEF WInv, WorkerInv, Commissioned
<1>. QED
  BY <1>1, <1>3, <1>4, <1>5, <1>6, <1>7

\* The commands that are left after the first are the others, and not about its rank.
LEMMA RestOfInbox ==
  ASSUME WInv, NEW a \in Agents, Obeying(a), NEW q \in {Tail(inbox[a]), <<>>}
  PROVE  /\ q \in Seq(PendingCommand)
         /\ \A m \in DOMAIN q : /\ m + 1 \in DOMAIN inbox[a] /\ q[m] = inbox[a][m + 1]
                                /\ KeyOf(q[m]) # Key(a)
         /\ \A m, n \in DOMAIN q : KeyOf(q[m]) = KeyOf(q[n]) => m = n
<1>1. CASE q = <<>>
  <2>1. q \in Seq(PendingCommand) /\ DOMAIN q = {}
    BY <1>1, EmptySeq
  <2>. QED
    BY <2>1
<1>2. CASE q = Tail(inbox[a])
  <2>1. /\ inbox[a] # <<>> /\ inbox[a] \in Seq(PendingCommand)
        /\ First(a) = inbox[a][1] /\ 1 \in DOMAIN inbox[a] /\ Key(a) = KeyOf(First(a))
    BY FirstCommand
  <2>2. q \in Seq(PendingCommand) /\ Len(q) = Len(inbox[a]) - 1
        /\ \A m \in 1 .. Len(q) : q[m] = inbox[a][m + 1]
    BY <1>2, <2>1, HeadTailProperties
  <2>3. /\ DOMAIN q = 1 .. Len(q) /\ DOMAIN inbox[a] = 1 .. Len(inbox[a])
        /\ Len(q) \in Nat /\ Len(inbox[a]) \in Nat
    BY <2>1, <2>2, LenProperties
  <2>4. \A m, n \in DOMAIN inbox[a] : KeyOf(inbox[a][m]) = KeyOf(inbox[a][n]) => m = n
    BY DEF WInv, WorkerInv, Inbox
  <2>5. \A m \in DOMAIN q : m + 1 \in DOMAIN inbox[a] /\ q[m] = inbox[a][m + 1] /\ m + 1 # 1
    BY <2>2, <2>3
  <2>6. \A m \in DOMAIN q : KeyOf(q[m]) # Key(a)
    BY <2>1, <2>4, <2>5
  <2>7. \A m, n \in DOMAIN q : KeyOf(q[m]) = KeyOf(q[n]) => m = n
    BY <2>2, <2>3, <2>4, <2>5
  <2>. QED
    BY <2>2, <2>5, <2>6, <2>7
<1>. QED
  BY <1>1, <1>2

-----------------------------------------------------------------------------
(***************************************************************************)
(* What obeying a command does to the worker: the command is done or       *)
(* dropped and its rank's task becomes t, or the worker leaves.            *)
(***************************************************************************)
Replaced(a, t) ==
  /\ \E q \in {Tail(inbox[a]), <<>>} :
       inbox' = [inbox EXCEPT ![a] = q] /\ phase' = [phase EXCEPT ![a] = After(q)]
  /\ task' = [task EXCEPT ![a][Key(a)] = t]
  /\ lost' \in [Agents -> SUBSET Keys] /\ lost'[a] \subseteq lost[a]
  /\ \A b \in Agents \ {a} : lost'[b] = lost[b]
  /\ contact' = contact

\* What it does to the requests on their way, and to the service.
Sends(a, state) ==
  /\ late' \subseteq late \cup {[agent |-> a, key |-> Key(a), state |-> state]}
  /\ MaxLate = 0 /\ late = {} => late' = {}
  /\ faults' \in 0 .. MaxFaults
  /\ UNCHANGED vars \/ ReportWorker(a, Key(a)[1], Key(a)[2], state)

LEMMA ContinueReplaces ==
  ASSUME WorkersTypeOK, NEW a \in Agents, NEW t, Continue(a, t), NEW gone,
         lost' = [lost EXCEPT ![a] = IF gone THEN @ \ {Key(a)} ELSE @]
  PROVE  Replaced(a, t)
<1>1. /\ lost' \in [Agents -> SUBSET Keys] /\ lost'[a] \subseteq lost[a]
      /\ \A b \in Agents \ {a} : lost'[b] = lost[b]
  BY DEF WorkersTypeOK
<1>2. /\ inbox' = [inbox EXCEPT ![a] = Tail(inbox[a])]
      /\ phase' = [phase EXCEPT ![a] = After(Tail(inbox[a]))]
  BY DEF Continue, WorkersTypeOK
<1>. QED
  BY <1>1, <1>2 DEF Continue, Replaced

LEMMA AbortReplaces ==
  ASSUME WorkersTypeOK, NEW a \in Agents, NEW t, Abort(a, t)
  PROVE  Replaced(a, t)
<1>1. /\ lost' \in [Agents -> SUBSET Keys] /\ lost'[a] \subseteq lost[a]
      /\ \A b \in Agents \ {a} : lost'[b] = lost[b]
  BY DEF WorkersTypeOK, Abort
<1>2. After(<<>>) = "loop"
  BY DEF After
<1>. QED
  BY <1>1, <1>2 DEF Abort, Replaced

LEMMA ReportAndCases ==
  ASSUME WorkersTypeOK, NEW a \in Agents, NEW state, NEW t, NEW done,
         ReportAnd(a, state, t, done)
  PROVE  /\ Sends(a, state)
         /\ \/ Replaced(a, done) /\ ReportWorker(a, Key(a)[1], Key(a)[2], state)
            \/ Replaced(a, t)
            \/ Leave(a)
<1> DEFINE j == Key(a)[1]
           r == Key(a)[2]
<1>0. faults \in 0 .. MaxFaults /\ MaxFaults \in Nat
  BY WorkersAssumption DEF WorkersTypeOK
<1>1. CASE /\ ReportWorker(a, j, r, state)
           /\ Continue(a, done)
           /\ lost' = [lost EXCEPT ![a] = IF state = "stopped" THEN @ \ {Key(a)} ELSE @]
           /\ UNCHANGED <<late, faults>>
  <2>1. Replaced(a, done)
    BY <1>1, ContinueReplaces
  <2>. QED
    BY <1>0, <1>1, <2>1 DEF Sends
<1>2. CASE Abort(a, t) /\ UNCHANGED <<vars, late, faults>>
  BY <1>0, <1>2, AbortReplaces DEF Sends
<1>3. CASE Leave(a) /\ UNCHANGED <<vars, faults>>
  BY <1>0, <1>3 DEF Leave, Sends
<1>4. CASE /\ Fault
           /\ Abort(a, t)
           /\ \/ UNCHANGED <<vars, late>>
              \/ ReportWorker(a, j, r, state) /\ UNCHANGED late
              \/ /\ Cardinality(late) < MaxLate
                 /\ late' = late \cup {[agent |-> a, key |-> Key(a), state |-> state]}
                 /\ UNCHANGED vars
  <2>1. faults' \in 0 .. MaxFaults
    BY <1>0, <1>4 DEF Fault
  <2>2. late = {} /\ MaxLate = 0 => ~(Cardinality(late) < MaxLate)
    BY FS_EmptySet
  <2>3. Sends(a, state)
    BY <1>4, <2>1, <2>2 DEF Sends
  <2>. QED
    BY <1>4, <2>3, AbortReplaces
<1>. QED
  BY <1>1, <1>2, <1>3, <1>4 DEF ReportAnd

\* The service does nothing, or what one report of the command's rank asks of it.
LEMMA ReportsItsRank ==
  ASSUME WInv, NEW a \in Agents, Obeying(a), NEW state \in ReportStates, Sends(a, state)
  PROVE  [Next]_vars
<1>1. CASE ReportWorker(a, Key(a)[1], Key(a)[2], state)
  <2>1. Key(a)[1] \in Jobs /\ Key(a)[2] \in Ranks /\ Launched(Key(a))
    BY FirstCommand DEF Keys
  <2>2. Report(a, Key(a)[1], Key(a)[2], state)
    BY <1>1, <2>1 DEF Report, Commanded, Launched
  <2>. QED
    BY <2>1, <2>2 DEF Next
<1>2. CASE UNCHANGED vars
  BY <1>2
<1>. QED
  BY <1>1, <1>2 DEF Sends

-----------------------------------------------------------------------------
(***************************************************************************)
(* What the task of the command's rank can become.                         *)
(***************************************************************************)
WellFormed(t) ==
  /\ t \in Task
  /\ t.state = "none" => t = NoTask
  /\ t.child = "alive" => t.state \in {"preparing", "running"}

\* old becomes new by a command with this action.
Becomes(old, action, new) ==
  /\ WellFormed(new)
  /\ new.state \in {"preparing", "ready"} => old.state \in {"preparing", "ready"} \/ action = "prepare"
  /\ new.state = "running" => \/ old.state = "running"
                              \/ old.state \in {"preparing", "ready"} /\ action = "run"

LEMMA AdvancedBecomes ==
  ASSUME NEW t, WellFormed(t), t.state # "none", NEW action
  PROVE  LET n == Advanced(t, action) IN
         /\ Becomes(t, action, n)
         /\ n.state # "none" /\ n.reported = t.reported
         /\ n.state = "preparing" => n = t
         /\ n.state \in {"ready"} \cup Final => n.child # "alive"
         /\ n.state = "running" /\ t.state # "running" => action = "run"
<1> DEFINE p == IF t.state = "preparing" /\ t.child # "alive"
                THEN [t EXCEPT !.state = IF t.child = "good" THEN "ready" ELSE "failed"]
                ELSE t
<1>1. /\ p.state \in {"none", "preparing", "ready", "running"} \cup Final
      /\ p.reported = t.reported /\ p.child = t.child /\ p.state # "none"
      /\ p.child \in {"none", "alive", "good", "bad"} /\ p.reported \in {"none", "ready", "running"}
      /\ p \in [state : {"none", "preparing", "ready", "running"} \cup Final,
                reported : {"none", "ready", "running"}, child : {"none", "alive", "good", "bad"}]
  BY DEF WellFormed, Task, Final
<1>2. /\ p.state = t.state \/ (t.state = "preparing" /\ p.state \in {"ready", "failed"} /\ p.child # "alive")
      /\ p.state = "preparing" => p = t /\ p.child = "alive"
  BY DEF WellFormed, Task, Final
<1>3. CASE action = "run" /\ p.state = "ready" /\ p.reported = "ready"
  <2>1. Advanced(t, action) = [p EXCEPT !.state = "running", !.child = "alive"]
    BY <1>3 DEF Advanced
  <2>2. t.state \in {"preparing", "ready"}
    BY <1>2, <1>3
  <2>. QED
    BY <1>1, <1>3, <2>1, <2>2 DEF Becomes, WellFormed, Task, Final
<1>4. CASE p.state = "running" /\ p.child # "alive"
  <2>1. Advanced(t, action) = [p EXCEPT !.state = IF p.child = "good" THEN "succeeded" ELSE "failed"]
    BY <1>4 DEF Advanced
  <2>. QED
    BY <1>1, <1>4, <2>1 DEF Becomes, WellFormed, Task, Final
<1>5. CASE /\ ~(action = "run" /\ p.state = "ready" /\ p.reported = "ready")
           /\ ~(p.state = "running" /\ p.child # "alive")
  <2>1. Advanced(t, action) = p
    BY <1>5 DEF Advanced
  <2>. QED
    BY <1>1, <1>2, <1>5, <2>1 DEF Becomes, WellFormed, Task, Final
<1>. QED
  BY <1>3, <1>4, <1>5

LEMMA TasksWellFormed ==
  ASSUME WInv, NEW a \in Agents, NEW k \in Keys
  PROVE  WellFormed(task[a][k])
BY DEF WInv, WorkersTypeOK, WorkerInv, TaskShape, WellFormed, Alive

\* What begun records when the task of the command's rank becomes t.
Records(a, t) ==
  /\ begun \subseteq begun'
  /\ \A k \in Keys :
       <<"run", k>> \in begun' \ begun => /\ k = Key(a) /\ First(a).action = "run"
                                          /\ t.state = "running"
  /\ begun' \subseteq begun \cup ({"prepare", "run"} \X {Key(a)})

\* An obeyed command: what the service and the worker do with it.
Obeys(a, t, state) ==
  /\ Obeying(a)
  /\ Becomes(task[a][Key(a)], First(a).action, t)
  /\ Key(a) \in lost[a] => t = NoTask
  /\ Records(a, t)
  /\ Sends(a, state)
  /\ state \in Closing => t.child # "alive"
  /\ Replaced(a, t) \/ Leave(a)

LEMMA ObeyStopCase ==
  ASSUME WInv, NEW a \in Agents, ObeyStop(a)
  PROVE  \E t \in Task : Obeys(a, t, "stopped")
<1> DEFINE old == task[a][Key(a)]
           t1 == IF old = NoTask THEN NoTask ELSE [old EXCEPT !.state = "stopped", !.child = "none"]
<1>0. Obeying(a) /\ First(a).action = "stop" /\ ReportAnd(a, "stopped", t1, NoTask) /\ UNCHANGED begun
  BY DEF ObeyStop
<1>1. WorkersTypeOK /\ Key(a) \in Keys
  BY <1>0, FirstCommand DEF WInv
<1>2. WellFormed(old) /\ (Key(a) \in lost[a] => old = NoTask)
  BY <1>1, TasksWellFormed DEF WInv, WorkerInv, TaskShape
<1>3. /\ WellFormed(NoTask) /\ NoTask.state = "none" /\ NoTask.child # "alive"
      /\ WellFormed(t1) /\ t1.state \in {"none", "stopped"} /\ t1.child # "alive"
  BY <1>2 DEF WellFormed, Task, NoTask, Final
<1>4. /\ Sends(a, "stopped")
      /\ Replaced(a, NoTask) \/ Replaced(a, t1) \/ Leave(a)
  BY <1>0, <1>1, ReportAndCases
<1>5. \A t \in {NoTask, t1} : /\ Becomes(old, "stop", t) /\ t \in Task /\ t.child # "alive"
                              /\ Key(a) \in lost[a] => t = NoTask
                              /\ Records(a, t)
  BY <1>0, <1>2, <1>3 DEF Becomes, WellFormed, Records
<1>. QED
  BY <1>0, <1>4, <1>5 DEF Obeys

\* A rank that is refused, or unknown, has no task.
LEMMA RefusalCase ==
  ASSUME WInv, NEW a \in Agents, ObeyUnknown(a) \/ RefusePrepare(a)
  PROVE  \E t \in Task : Obeys(a, t, "failed")
<1> DEFINE old == task[a][Key(a)]
<1>0. /\ Obeying(a) /\ UNCHANGED begun
      /\ Key(a) \in lost[a] \/ old = NoTask
  BY DEF ObeyUnknown, RefusePrepare
<1>1. WorkersTypeOK /\ Key(a) \in Keys
  BY <1>0, FirstCommand DEF WInv
<1>2. old = NoTask
  BY <1>0, <1>1 DEF WInv, WorkerInv, TaskShape
<1>3. ReportAnd(a, "failed", NoTask, NoTask)
  BY <1>2 DEF ObeyUnknown, RefusePrepare
<1>4. WellFormed(NoTask) /\ NoTask.state = "none" /\ NoTask.child # "alive" /\ NoTask \in Task
  BY DEF WellFormed, Task, NoTask, Final
<1>5. /\ Sends(a, "failed")
      /\ Replaced(a, NoTask) \/ Leave(a)
  BY <1>1, <1>3, ReportAndCases
<1>. QED
  BY <1>0, <1>4, <1>5 DEF Obeys, Becomes, Records

LEMMA ObeyTaskCase ==
  ASSUME WInv, NEW a \in Agents, ObeyTask(a)
  PROVE  \E t \in Task, state \in ReportStates : Obeys(a, t, state)
<1> DEFINE begins == task[a][Key(a)] = NoTask
           old == IF begins THEN Fresh ELSE task[a][Key(a)]
           new == Advanced(old, First(a).action)
           starts == new.state = "running" /\ old.state # "running"
           done == IF new.state \in Final THEN NoTask ELSE [new EXCEPT !.reported = new.state]
<1>0. /\ Obeying(a) /\ Key(a) \notin lost[a]
      /\ begins => First(a).action = "prepare"
      /\ begun' = begun \cup {<<"prepare", k>> : k \in IF begins THEN {Key(a)} ELSE {}}
                        \cup {<<"run", k>> : k \in IF starts THEN {Key(a)} ELSE {}}
  BY DEF ObeyTask, MayBegin
<1>1. WorkersTypeOK /\ Key(a) \in Keys
  BY <1>0, FirstCommand DEF WInv
<1>2. WellFormed(task[a][Key(a)])
  BY <1>1, TasksWellFormed
<1>3. WellFormed(old) /\ old.state # "none"
  BY <1>2 DEF WellFormed, Fresh, Task, Final
<1>4. /\ Becomes(old, First(a).action, new)
      /\ new.state # "none" /\ new.reported = old.reported
      /\ new.state \in {"ready"} \cup Final => new.child # "alive"
      /\ starts => First(a).action = "run"
  BY <1>3, AdvancedBecomes
<1>5. Becomes(task[a][Key(a)], First(a).action, new)
  BY <1>0, <1>4 DEF Becomes, Fresh
<1>6. new \in Task /\ WellFormed(new)
  BY <1>5 DEF Becomes, WellFormed
<1>7. /\ begun \subseteq begun' /\ begun' \subseteq begun \cup ({"prepare", "run"} \X {Key(a)})
      /\ \A k \in Keys : <<"run", k>> \in begun' \ begun => k = Key(a) /\ starts
  BY <1>0
<1>8. Records(a, new)
  BY <1>4, <1>7 DEF Records
\* Nothing to report, or only progress.
<1>9. CASE Continue(a, new) /\ UNCHANGED <<vars, lost, late, faults>>
  <2>1. Replaced(a, new)
    <3>1. lost' = [lost EXCEPT ![a] = IF FALSE THEN @ \ {Key(a)} ELSE @]
      BY <1>1, <1>9 DEF WorkersTypeOK
    <3>. QED
      BY <1>1, <1>9, <3>1, ContinueReplaces
  <2>2. Sends(a, "progress")
    BY <1>1, <1>9 DEF Sends, WorkersTypeOK
  <2>. QED
    BY <1>0, <1>5, <1>6, <1>8, <2>1, <2>2 DEF Obeys, Closing, ReportStates
<1>10. CASE ReportAnd(a, "progress", new, new)
  <2>1. Sends(a, "progress") /\ (Replaced(a, new) \/ Leave(a))
    BY <1>1, <1>10, ReportAndCases
  <2>. QED
    BY <1>0, <1>5, <1>6, <1>8, <2>1 DEF Obeys, Closing, ReportStates
\* A new state is reported.
<1>11. CASE /\ new.state \notin {"preparing", new.reported}
            /\ ReportAnd(a, new.state, new, done)
  <2>1. Sends(a, new.state) /\ (Replaced(a, done) \/ Replaced(a, new) \/ Leave(a))
    BY <1>1, <1>11, ReportAndCases
  <2>2. new.state \in {"ready", "running"} \cup Final
    BY <1>4, <1>6, <1>11 DEF Task
  <2>3. new.state \in ReportStates
    BY <2>2 DEF ReportStates, Final
  <2>4. new.state \in Closing => new.state \in Final /\ new.child # "alive" /\ done = NoTask
    BY <1>4 DEF Closing, Final
  <2>5. CASE new.state \in Final
    <3>1. /\ done = NoTask /\ NoTask \in Task /\ NoTask.state = "none" /\ NoTask.child # "alive"
          /\ WellFormed(NoTask)
      BY <2>5 DEF NoTask, Task, WellFormed
    <3>2. ~starts /\ Becomes(task[a][Key(a)], First(a).action, done) /\ Records(a, done)
      BY <1>7, <2>5, <3>1 DEF Becomes, Records, Final
    <3>. QED
      BY <1>0, <1>5, <1>6, <1>8, <2>1, <2>3, <2>4, <3>1, <3>2 DEF Obeys
  <2>6. CASE new.state \notin Final
    <3>1. /\ done \in Task /\ done.state = new.state /\ done.child = new.child
      BY <1>6, <2>2, <2>6 DEF Task
    <3>2. WellFormed(done)
      BY <1>4, <1>6, <3>1 DEF WellFormed
    <3>3. Becomes(task[a][Key(a)], First(a).action, done) /\ Records(a, done)
      BY <1>5, <1>8, <3>1, <3>2 DEF Becomes, Records
    <3>. QED
      BY <1>0, <1>5, <1>6, <1>8, <2>1, <2>3, <2>4, <3>1, <3>3 DEF Obeys
  <2>. QED
    BY <2>5, <2>6
\* The training process cannot be started.
<1>12. CASE starts /\ Abort(a, [new EXCEPT !.child = "bad"]) /\ UNCHANGED <<vars, late, faults>>
  <2> DEFINE t == [new EXCEPT !.child = "bad"]
  <2>1. t \in Task /\ t.state = new.state /\ t.child = "bad"
    BY <1>6 DEF Task
  <2>2. WellFormed(t)
    BY <1>4, <2>1 DEF WellFormed
  <2>3. Becomes(task[a][Key(a)], First(a).action, t) /\ Records(a, t)
    BY <1>5, <1>8, <2>1, <2>2 DEF Becomes, Records
  <2>4. Replaced(a, t)
    BY <1>1, <1>12, AbortReplaces
  <2>5. Sends(a, "progress")
    BY <1>1, <1>12 DEF Sends, WorkersTypeOK
  <2>. QED
    BY <1>0, <2>1, <2>3, <2>4, <2>5 DEF Obeys, Closing, ReportStates
<1>. QED
  BY <1>9, <1>10, <1>11, <1>12 DEF ObeyTask

LEMMA ObeyCases ==
  ASSUME WInv, NEW a \in Agents,
         ObeyStop(a) \/ ObeyUnknown(a) \/ RefusePrepare(a) \/ ObeyTask(a)
  PROVE  \E t \in Task, state \in ReportStates : Obeys(a, t, state)
BY ObeyStopCase, RefusalCase, ObeyTaskCase DEF ReportStates

-----------------------------------------------------------------------------
(***************************************************************************)
(* Every step of the workers is a step of the service, or none of its      *)
(* business.                                                               *)
(***************************************************************************)
LEMMA WithdrawIsNext ==
  ASSUME TypeOK, Withdraw
  PROVE  Next
<1>1. ASSUME NEW a \in Agents, NEW enabled \in BOOLEAN, SetSharing(a, agent[a].caps.devices, enabled)
      PROVE  Next
  <2>1. agent[a].caps.devices \in SUBSET Devices
    BY DEF TypeOK, AgentRow, Capabilities
  <2>. QED
    BY <1>1, <2>1 DEF Next
<1>2. ASSUME NEW a \in Agents, DeleteAgent(a) PROVE Next
  BY <1>2 DEF Next
<1>3. ASSUME NEW c \in Clusters, NEW u \in Users, Approve(c, u) \/ Expel(c, u, "revoked") PROVE Next
  BY <1>3 DEF Next
<1>. QED
  BY <1>1, <1>2, <1>3 DEF Withdraw

LEMMA LateIsNext ==
  ASSUME WInv, NEW q \in late, LateReport(q)
  PROVE  [Next]_vars
<1>1. q.agent \in Agents /\ q.key \in Keys /\ q.state \in ReportStates /\ Launched(q.key)
  BY DEF WInv, WorkersTypeOK
<1>2. CASE ReportWorker(q.agent, q.key[1], q.key[2], q.state)
  <2>1. q.key[1] \in Jobs /\ q.key[2] \in Ranks
    BY <1>1 DEF Keys
  <2>2. Report(q.agent, q.key[1], q.key[2], q.state)
    BY <1>1, <1>2 DEF Report, Commanded, Launched
  <2>. QED
    BY <1>1, <2>1, <2>2 DEF Next
<1>. QED
  BY <1>2 DEF LateReport

LEMMA ServiceStep ==
  ASSUME WInv, [WorkersNext]_allVars
  PROVE  [Next]_vars
<1>0. TypeOK
  BY DEF WInv, WorkersTypeOK
<1>1. CASE OwnerCalls
  BY <1>1 DEF OwnerCalls, Next
<1>2. CASE Withdraw
  BY <1>0, <1>2, WithdrawIsNext
<1>3. CASE ServiceReconciles
  BY <1>3 DEF ServiceReconciles, Next
<1>4. CASE TimePasses
  BY <1>4 DEF TimePasses, Next
<1>5. ASSUME NEW a \in Agents, Poll(a) PROVE Next
  BY <1>5 DEF Poll, Next
<1>6. ASSUME NEW a \in Agents,
             ObeyStop(a) \/ ObeyUnknown(a) \/ RefusePrepare(a) \/ ObeyTask(a)
      PROVE  [Next]_vars
  <2>1. PICK t \in Task, state \in ReportStates : Obeys(a, t, state)
    BY <1>6, ObeyCases
  <2>. QED
    BY <2>1, ReportsItsRank DEF Obeys
<1>7. ASSUME NEW a \in Agents, StartWorker(a) PROVE Next
  BY <1>7 DEF StartWorker, Next
<1>8. ASSUME NEW a \in Agents,
             \/ ExpireLocalLease(a) \/ PollDenied(a) \/ PollAnswered(a) \/ WorkerStops(a)
             \/ \E k \in Keys : ChildExits(a, k)
      PROVE  UNCHANGED vars
  BY <1>8 DEF ExpireLocalLease, PollDenied, PollAnswered, WorkerStops, ChildExits
<1>9. CASE UNCHANGED allVars
  BY <1>9 DEF allVars
<1>. QED
  BY <1>1, <1>2, <1>3, <1>4, <1>5, <1>6, <1>7, <1>8, <1>9, LateIsNext DEF WorkersNext, WorkerLoop

\* What a step of the service leaves true of jobs that were started.
LEMMA Forward ==
  ASSUME IInv, [Next]_vars
  PROVE  /\ \A k \in Keys : Launched(k) => Launched(k)'
         /\ \A a \in Agents, k \in Keys : Launched(k) /\ PlacedOn(a, k) => PlacedOn(a, k)'
         /\ \A i \in Jobs : Prepared(i) => Prepared(i)'
<1>1. ASSUME NEW j \in Jobs, job[j].status \notin Idle
      PROVE  Onward(job[j], job'[j])
  BY <1>1, StepCases, CreatedJob, StartedJob DEF GoesOn, Idle
<1>2. \A j \in Jobs : job[j].status \notin Idle =>
        /\ job'[j].status \notin Idle /\ job'[j].spec = job[j].spec
        /\ \A r \in Ranks : job'[j].row[r] # job[j].row[r] =>
             job'[j].row[r] \notin {"pending", "preparing"}
  BY <1>1 DEF Onward, Follows, RowFollows, Idle
<1>3. \A k \in Keys : k[1] \in Jobs /\ k[2] \in Ranks
  BY DEF Keys
<1>. QED
  BY <1>2, <1>3 DEF Launched, PlacedOn, Prepared, Row

-----------------------------------------------------------------------------
(***************************************************************************)
(* The invariant of one worker, step by step.                              *)
(***************************************************************************)

\* A rank is placed on one computer.
LEMMA OnePlace ==
  ASSUME IInv, NEW a \in Agents, NEW b \in Agents, NEW k \in Keys, PlacedOn(a, k), PlacedOn(b, k)
  PROVE  a = b
<1>1. k[1] \in Jobs
  BY DEF Keys
<1>. QED
  BY <1>1 DEF IInv, WellPlaced, PlacedOn

\* A worker that does nothing keeps its invariant, whatever the service does.
LEMMA OthersStay ==
  ASSUME WInv, [Next]_vars, NEW b \in Agents,
         inbox'[b] = inbox[b], task'[b] = task[b], phase'[b] = phase[b], lost'[b] = lost[b],
         \A k \in Keys : <<"run", k>> \in begun' \ begun => ~PlacedOn(b, k)
  PROVE  WorkerInv(b)'
<1>0. WorkerInv(b) /\ IInv /\ inbox[b] \in Seq(PendingCommand)
  BY DEF WInv, WorkersTypeOK
<1>1. \A i \in DOMAIN inbox[b] : inbox[b][i].job \in Jobs
  BY <1>0, CommandsOf
<1>2. \A k \in Keys : k[1] \in Jobs
  BY DEF Keys
<1>3. Inbox(b)'
  BY <1>0 DEF WorkerInv, Inbox
<1>4. Commissioned(b)'
  BY <1>0, Forward DEF WorkerInv, Commissioned, InInbox
<1>5. TaskShape(b)'
  BY <1>0 DEF WorkerInv, TaskShape, Alive
<1>6. TrainsPrepared(b)'
  BY <1>0, <1>1, <1>2, Forward DEF WorkerInv, TrainsPrepared
<1>7. TrainedIsDone(b)'
  <2> SUFFICES ASSUME NEW k \in Keys, <<"run", k>> \in begun'
               PROVE  /\ task[b][k].state \notin {"preparing", "ready"}
                      /\ \A i \in DOMAIN inbox[b] : KeyOf(inbox[b][i]) = k => inbox[b][i].action # "prepare"
    BY DEF TrainedIsDone
  <2>1. CASE <<"run", k>> \in begun
    BY <1>0, <2>1 DEF WorkerInv, TrainedIsDone
  <2>2. CASE <<"run", k>> \notin begun
    <3>1. ~PlacedOn(b, k)
      BY <2>2
    <3>2. ~InInbox(b, k) /\ task[b][k] = NoTask
      BY <1>0, <3>1 DEF WorkerInv, Commissioned
    <3>. QED
      BY <3>2 DEF InInbox, NoTask
  <2>. QED
    BY <2>1, <2>2
<1>. QED
  BY <1>3, <1>4, <1>5, <1>6, <1>7 DEF WorkerInv

\* A worker that leaves has nothing to be wrong about.
LEMMA LeftStay ==
  ASSUME WInv, NEW a \in Agents, Leave(a)
  PROVE  WorkerInv(a)'
<1>1. /\ inbox'[a] = <<>> /\ task'[a] = [k \in Keys |-> NoTask] /\ phase'[a] = "off"
      /\ lost'[a] = {}
  BY DEF WInv, WorkersTypeOK, Leave
<1>2. DOMAIN inbox'[a] = {}
  BY <1>1
<1>3. \A k \in Keys : task'[a][k] = NoTask /\ NoTask.state = "none" /\ NoTask.child = "none"
  BY <1>1 DEF NoTask
<1>. QED
  BY <1>1, <1>2, <1>3 DEF WorkerInv, Inbox, Commissioned, TaskShape, TrainsPrepared, TrainedIsDone,
                          InInbox, Alive

\* The first command is done: its rank's task is t, the other commands are left.
LEMMA ReplacedStay ==
  ASSUME WInv, [Next]_vars, NEW a \in Agents, NEW t \in Task, NEW state, Obeys(a, t, state),
         Replaced(a, t)
  PROVE  WorkerInv(a)'
<1> DEFINE k0 == Key(a)
           old == task[a][k0]
<1>0. /\ WorkerInv(a) /\ IInv /\ WorkersTypeOK /\ Obeying(a)
      /\ inbox[a] \in Seq(PendingCommand)
  BY DEF WInv, WorkersTypeOK, Obeys
<1>1. PICK q \in {Tail(inbox[a]), <<>>} :
        inbox' = [inbox EXCEPT ![a] = q] /\ phase' = [phase EXCEPT ![a] = After(q)]
  BY DEF Replaced
<1>2. inbox'[a] = q /\ phase'[a] = After(q) /\ lost'[a] \subseteq lost[a]
  BY <1>0, <1>1 DEF WorkersTypeOK, Replaced
<1>3. /\ q \in Seq(PendingCommand)
      /\ \A m \in DOMAIN q : /\ m + 1 \in DOMAIN inbox[a] /\ q[m] = inbox[a][m + 1]
                             /\ KeyOf(q[m]) # k0
      /\ \A m, n \in DOMAIN q : KeyOf(q[m]) = KeyOf(q[n]) => m = n
  BY <1>0, RestOfInbox
<1>4. /\ k0 \in Keys /\ InInbox(a, k0) /\ Launched(k0) /\ PlacedOn(a, k0)
      /\ First(a) = inbox[a][1] /\ 1 \in DOMAIN inbox[a] /\ k0 = KeyOf(First(a))
      /\ k0[1] = First(a).job /\ First(a) \in PendingCommand
  BY <1>0, FirstCommand
<1>5. \A k \in Keys : task'[a][k] = IF k = k0 THEN t ELSE task[a][k]
  BY <1>0, <1>4 DEF Replaced, WorkersTypeOK
<1>6. /\ WellFormed(t) /\ (k0 \in lost[a] => t = NoTask) /\ Records(a, t)
      /\ t.state \in {"preparing", "ready"} =>
           old.state \in {"preparing", "ready"} \/ First(a).action = "prepare"
      /\ t.state = "running" =>
           old.state = "running" \/ (old.state \in {"preparing", "ready"} /\ First(a).action = "run")
  BY DEF Obeys, Becomes
<1>7. \A k \in Keys : k[1] \in Jobs
  BY DEF Keys
<1>8. \A m \in DOMAIN q : q[m].job \in Jobs
  BY <1>3, CommandsOf
<1>9. Inbox(a)'
  BY <1>2, <1>3 DEF Inbox, After
<1>10. Commissioned(a)'
  <2> SUFFICES ASSUME NEW k \in Keys, InInbox(a, k)' \/ task'[a][k] # NoTask
               PROVE  Launched(k) /\ PlacedOn(a, k)
    BY Forward, <1>0 DEF Commissioned
  <2>1. CASE InInbox(a, k)'
    <3>1. InInbox(a, k)
      BY <1>2, <1>3, <2>1 DEF InInbox
    <3>. QED
      BY <1>0, <3>1 DEF WorkerInv, Commissioned
  <2>2. CASE task'[a][k] # NoTask
    BY <1>0, <1>4, <1>5, <2>2 DEF WorkerInv, Commissioned
  <2>. QED
    BY <2>1, <2>2
<1>11. TaskShape(a)'
  <2>1. phase'[a] # "off"
    BY <1>2 DEF After
  <2> SUFFICES ASSUME NEW k \in Keys
               PROVE  /\ task'[a][k].state = "none" => task'[a][k] = NoTask
                      /\ task'[a][k].child = "alive" => task'[a][k].state \in {"preparing", "running"}
                      /\ k \in lost[a] => task'[a][k] = NoTask
    BY <1>2, <2>1 DEF TaskShape, Alive
  <2>2. CASE k = k0
    BY <1>5, <1>6, <2>2 DEF WellFormed
  <2>3. CASE k # k0
    BY <1>0, <1>5, <2>3 DEF WorkerInv, TaskShape, Alive
  <2>. QED
    BY <2>2, <2>3
<1>12. TrainsPrepared(a)'
  <2>1. \A i \in DOMAIN q : q[i].action = "run" => Prepared(q[i].job)
    BY <1>0, <1>3 DEF WorkerInv, TrainsPrepared
  <2>2. \A k \in Keys : task'[a][k].state = "running" => Prepared(k[1])
    BY <1>0, <1>4, <1>5, <1>6 DEF WorkerInv, TrainsPrepared
  <2>. QED
    BY <1>0, <1>2, <1>7, <1>8, <2>1, <2>2, Forward DEF TrainsPrepared
<1>13. TrainedIsDone(a)'
  <2> SUFFICES ASSUME NEW k \in Keys, <<"run", k>> \in begun'
               PROVE  /\ task'[a][k].state \notin {"preparing", "ready"}
                      /\ \A i \in DOMAIN q : KeyOf(q[i]) = k => q[i].action # "prepare"
    BY <1>2 DEF TrainedIsDone
  <2>1. CASE <<"run", k>> \in begun
    <3>1. /\ task[a][k].state \notin {"preparing", "ready"}
          /\ \A i \in DOMAIN inbox[a] : KeyOf(inbox[a][i]) = k => inbox[a][i].action # "prepare"
      BY <1>0, <2>1 DEF WorkerInv, TrainedIsDone
    <3>2. k = k0 => First(a).action # "prepare"
      BY <1>4, <3>1
    <3>. QED
      BY <1>3, <1>5, <1>6, <3>1, <3>2
  <2>2. CASE <<"run", k>> \notin begun
    <3>1. k = k0 /\ t.state = "running"
      BY <1>6, <2>2 DEF Records
    <3>. QED
      BY <1>3, <1>5, <3>1
  <2>. QED
    BY <2>1, <2>2
<1>. QED
  BY <1>9, <1>10, <1>11, <1>12, <1>13 DEF WorkerInv

-----------------------------------------------------------------------------
(***************************************************************************)
(* The reply of a poll.                                                    *)
(***************************************************************************)
LEMMA CommandsAreFinite == IsFiniteSet(PendingCommand)
<1> DEFINE A == {"prepare", "wait", "run", "stop"}
           D == (A \X (0 .. 1)) \X (Jobs \X Ranks)
           f == [d \in D |-> [action |-> d[1][1], allowed |-> d[1][2] = 1,
                              job |-> d[2][1], rank |-> d[2][2]]]
<1>1. IsFiniteSet(A)
  <2>1. IsFiniteSet({"prepare", "wait", "run"} \cup {"stop"})
    <3>1. IsFiniteSet({"prepare", "wait"} \cup {"run"})
      <4>1. IsFiniteSet({"prepare"} \cup {"wait"})
        BY FS_Singleton, FS_Union
      <4>2. {"prepare", "wait"} = {"prepare"} \cup {"wait"}
        OBVIOUS
      <4>. QED
        BY <4>1, <4>2, FS_Singleton, FS_Union
    <3>2. {"prepare", "wait", "run"} = {"prepare", "wait"} \cup {"run"}
      OBVIOUS
    <3>. QED
      BY <3>1, <3>2, FS_Singleton, FS_Union
  <2>2. A = {"prepare", "wait", "run"} \cup {"stop"}
    OBVIOUS
  <2>. QED
    BY <2>1, <2>2
<1>2. IsFiniteSet(0 .. 1)
  <2>1. 0 \in Int /\ 1 \in Int
    OBVIOUS
  <2>. QED
    BY ONLY <2>1, FS_Interval
<1>3. IsFiniteSet(Jobs) /\ IsFiniteSet(Ranks)
  <2>1. 0 \in Int /\ MaxWorld - 1 \in Int
    BY ConstantsAssumption
  <2>. QED
    BY <2>1, WorkersAssumption, FS_Interval DEF Ranks
<1>4. IsFiniteSet(A \X (0 .. 1)) /\ IsFiniteSet(Jobs \X Ranks)
  BY <1>1, <1>2, <1>3, FS_Product
<1>5. IsFiniteSet(D)
  BY <1>4, FS_Product
<1>6. f \in Surjection(D, PendingCommand)
  <2>1. \A d \in D : f[d] \in PendingCommand
    BY DEF PendingCommand
  <2>2. ASSUME NEW c \in PendingCommand PROVE \E d \in D : f[d] = c
    <3> DEFINE d == << <<c.action, IF c.allowed THEN 1 ELSE 0>>, <<c.job, c.rank>> >>
    <3>1. d \in D
      BY <2>2 DEF PendingCommand
    <3>2. f[d] = [action |-> c.action, allowed |-> c.allowed, job |-> c.job, rank |-> c.rank]
      BY <2>2, <3>1 DEF PendingCommand
    <3>3. f[d] = c
      BY <2>2, <3>2 DEF PendingCommand
    <3>. QED
      BY <3>1, <3>3
  <2>3. f \in [D -> PendingCommand]
    BY <2>1
  <2>. QED
    BY <2>2, <2>3 DEF Surjection
<1>. QED
  BY <1>5, <1>6, FS_Surjection

LEMMA IInvStep ==
  ASSUME IInv, [Next]_vars
  PROVE  IInv'
BY NextCases, CreateJobStep, StartJobStep

\* What an answer of the service says of the state it leaves behind.
LEMMA AnswersMean ==
  ASSUME IInv', NEW a \in Agents, NEW c \in Answers(a)
  PROVE  /\ c \in PendingCommand
         /\ Launched(KeyOf(c))' /\ PlacedOn(a, KeyOf(c))'
         /\ Row(c.job, c.rank)' \in Held
         /\ c.action = "run" => Prepared(c.job)'
         /\ c.action = "prepare" => Row(c.job, c.rank)' = "preparing"
<1>0. PICK d \in Commands(a, job') :
        c = [action |-> d.action, job |-> d.job, rank |-> d.rank,
             allowed |-> (CHOOSE x \in job'[d.job].spec : x.rank = d.rank).device
                           \in LocallyShared[a] \cap agent'[a].shared]
  BY DEF Answers
<1>1. /\ c.action = d.action /\ c.job = d.job /\ c.rank = d.rank
      /\ c = [action |-> d.action, job |-> d.job, rank |-> d.rank, allowed |-> c.allowed]
      /\ c.allowed \in BOOLEAN
  BY <1>0
<1>a. PICK j \in Jobs : \E x \in job'[j].spec :
        /\ x.agent = a /\ job'[j].row[x.rank] \in Held
        /\ d = [action |-> Command(job'[j], x), job |-> j, rank |-> x.rank]
  BY DEF Commands, RowsOn
<1>2. PICK x \in job'[j].spec :
        /\ x.agent = a /\ job'[j].row[x.rank] \in Held
        /\ d = [action |-> Command(job'[j], x), job |-> j, rank |-> x.rank]
  BY <1>a
<1>3. /\ job'[j] \in JobRow /\ RowsAgree(job'[j])
      /\ x.rank \in Ranks
  BY DEF IInv, TypeOK, RowsFollowStatus, JobRow, Assignment
<1>4. /\ c.action = Command(job'[j], x) /\ c.job = j /\ c.rank = x.rank
      /\ Row(c.job, c.rank)' = job'[j].row[x.rank]
  BY <1>1, <1>2 DEF Row
<1>5. c \in PendingCommand
  <2>1. c.action \in {"prepare", "wait", "run", "stop"}
    BY <1>4 DEF Command
  <2>. QED
    BY <1>1, <1>3, <1>4, <2>1 DEF PendingCommand
<1>6. job'[j].status \notin Idle
  BY <1>2, <1>3 DEF RowsAgree, RowsIn, Idle, Held
<1>7. Launched(KeyOf(c))' /\ PlacedOn(a, KeyOf(c))'
  BY <1>2, <1>4, <1>6 DEF Launched, PlacedOn, KeyOf, Row, Held
<1>8. c.action = "run" => job'[j].status = "running"
  BY <1>4 DEF Command
<1>9. c.action = "run" => Prepared(c.job)'
  BY <1>3, <1>4, <1>6, <1>8 DEF RowsAgree, RowsIn, Prepared, Row
<1>10. c.action = "prepare" => job'[j].row[x.rank] = "preparing"
  BY <1>4 DEF Command
<1>. QED
  BY <1>2, <1>4, <1>5, <1>7, <1>9, <1>10

LEMMA RepliesMean ==
  ASSUME IInv', NEW a \in Agents, NEW q \in Replies(a)
  PROVE  /\ q \in Seq(PendingCommand)
         /\ \A m \in DOMAIN q : q[m] \in Answers(a)
         /\ \A m, n \in DOMAIN q : KeyOf(q[m]) = KeyOf(q[n]) => m = n
<1> DEFINE N == Cardinality(Answers(a))
<1>1. Answers(a) \in SUBSET PendingCommand
  BY AnswersMean
<1>2. N \in Nat
  BY <1>1, CommandsAreFinite, FS_Subset, FS_CardinalityType
<1>3. /\ q \in [1 .. N -> Answers(a)]
      /\ \A m, n \in DOMAIN q : m < n => Before(q[m], q[n])
  BY DEF Replies
<1>4. q \in [1 .. N -> PendingCommand]
  BY <1>1, <1>3
<1>5. q \in Seq(PendingCommand)
  BY <1>2, <1>4, SeqDef
<1>6. ASSUME NEW m \in DOMAIN q, NEW n \in DOMAIN q, KeyOf(q[m]) = KeyOf(q[n])
      PROVE  ~(m < n)
  <2>1. /\ q[m].job = q[n].job /\ q[m].rank = q[n].rank
        /\ q[m].job \in Nat /\ q[m].rank \in Nat
    <3>1. q[m] \in PendingCommand /\ q[n] \in PendingCommand
      BY <1>4
    <3>2. q[m].job \in Nat /\ q[m].rank \in Nat
      <4>1. q[m].job \in Jobs /\ q[m].rank \in Ranks
        BY <3>1 DEF PendingCommand
      <4>2. Jobs \subseteq Nat /\ Ranks \subseteq Nat
        BY WorkersAssumption DEF Ranks
      <4>. QED
        BY <4>1, <4>2
    <3>3. q[m].job = q[n].job /\ q[m].rank = q[n].rank
      BY <1>6 DEF KeyOf
    <3>. QED
      BY <3>2, <3>3
  <2>2. ~Before(q[m], q[n])
    BY <2>1 DEF Before
  <2>. QED
    BY <1>3, <2>2
<1>7. ASSUME NEW m \in DOMAIN q, NEW n \in DOMAIN q, KeyOf(q[m]) = KeyOf(q[n])
      PROVE  m = n
  <2>1. m \in Int /\ n \in Int
    BY <1>2, <1>3
  <2>. QED
    BY <1>6, <1>7, <2>1
<1>. QED
  BY <1>3, <1>5, <1>7

\* A computer whose poll was answered has the commands of the reply to obey.
LEMMA PollStays ==
  ASSUME WInv, NEW a \in Agents, Poll(a)
  PROVE  WorkerInv(a)'
<1>0. /\ [Next]_vars /\ IInv /\ IInv' /\ WorkersTypeOK /\ WorkerInv(a)
      /\ task' = task /\ lost' = lost /\ begun' = begun
  BY IInvStep DEF WInv, Poll, Next
<1>1. CASE UNCHANGED <<phase, inbox>>
  BY <1>0, <1>1, OthersStay
<1>2. ASSUME NEW q \in Replies(a), inbox' = [inbox EXCEPT ![a] = q], phase' = [phase EXCEPT ![a] = "polled"]
      PROVE  WorkerInv(a)'
  <2>1. inbox'[a] = q /\ phase'[a] = "polled"
    BY <1>0, <1>2 DEF WorkersTypeOK
  <2>2. /\ q \in Seq(PendingCommand)
        /\ \A m \in DOMAIN q : q[m] \in Answers(a)
        /\ \A m, n \in DOMAIN q : KeyOf(q[m]) = KeyOf(q[n]) => m = n
    BY <1>0, RepliesMean
  <2>3. \A m \in DOMAIN q :
          /\ q[m] \in PendingCommand
          /\ Launched(KeyOf(q[m]))' /\ PlacedOn(a, KeyOf(q[m]))'
          /\ q[m].action = "run" => Prepared(q[m].job)'
          /\ q[m].action = "prepare" => Row(q[m].job, q[m].rank)' = "preparing"
    BY <1>0, <2>2, AnswersMean
  <2>4. Inbox(a)'
    BY <2>1, <2>2 DEF Inbox
  <2>5. Commissioned(a)'
    BY <1>0, <2>1, <2>3, Forward DEF WorkerInv, Commissioned, InInbox
  <2>6. TaskShape(a)'
    BY <1>0, <2>1 DEF WorkerInv, TaskShape, Alive
  <2>7. TrainsPrepared(a)'
    BY <1>0, <2>1, <2>3, Forward DEF WorkerInv, TrainsPrepared, Keys
  <2>8. TrainedIsDone(a)'
    <3> SUFFICES ASSUME NEW k \in Keys, <<"run", k>> \in begun, NEW i \in DOMAIN q,
                        KeyOf(q[i]) = k, q[i].action = "prepare"
                 PROVE  FALSE
      BY <1>0, <2>1 DEF WorkerInv, TrainedIsDone
    <3>1. k[1] \in Jobs /\ k[2] \in Ranks /\ k[1] = q[i].job /\ k[2] = q[i].rank
      BY DEF Keys, KeyOf
    <3>2. Prepared(k[1])'
      BY <1>0, <3>1, Forward DEF WInv
    <3>3. Row(k[1], k[2])' # "preparing"
      BY <3>1, <3>2 DEF Prepared
    <3>. QED
      BY <2>3, <3>1, <3>3
  <2>. QED
    BY <2>4, <2>5, <2>6, <2>7, <2>8 DEF WorkerInv
<1>. QED
  BY <1>1, <1>2 DEF Poll

-----------------------------------------------------------------------------
(***************************************************************************)
(* Types.                                                                  *)
(***************************************************************************)

\* The part of the type invariant that is about the workers.
OwnTypes ==
  /\ phase \in [Agents -> {"off", "loop", "polled", "commands"}]
  /\ inbox \in [Agents -> Seq(PendingCommand)]
  /\ task \in [Agents -> [Keys -> Task]]
  /\ lost \in [Agents -> SUBSET Keys]
  /\ contact \in [Agents -> 0 .. (Lease + Slack)]
  /\ late \subseteq [agent : Agents, key : Keys, state : ReportStates]
  /\ begun \subseteq {"prepare", "run"} \X Keys
  /\ faults \in 0 .. MaxFaults

LEMMA SmallTypes ==
  /\ <<>> \in Seq(PendingCommand)
  /\ NoTask \in Task
  /\ [k \in Keys |-> NoTask] \in [Keys -> Task]
  /\ 0 \in 0 .. (Lease + Slack)
  /\ \A q : After(q) \in {"loop", "commands"}
<1>1. <<>> \in Seq(PendingCommand)
  BY EmptySeq
<1>. QED
  BY <1>1, WorkersAssumption DEF Task, NoTask, After

LEMMA LeaveTypes ==
  ASSUME OwnTypes, NEW a \in Agents, Leave(a)
  PROVE  /\ phase' \in [Agents -> {"off", "loop", "polled", "commands"}]
         /\ inbox' \in [Agents -> Seq(PendingCommand)]
         /\ task' \in [Agents -> [Keys -> Task]]
         /\ lost' \in [Agents -> SUBSET Keys]
         /\ contact' \in [Agents -> 0 .. (Lease + Slack)]
BY SmallTypes DEF OwnTypes, Leave

LEMMA ObeysTypes ==
  ASSUME WInv, NEW a \in Agents, NEW t \in Task, NEW state \in ReportStates, Obeys(a, t, state)
  PROVE  OwnTypes'
<1>0. OwnTypes /\ Obeying(a) /\ Key(a) \in Keys
  BY FirstCommand DEF WInv, WorkersTypeOK, OwnTypes, Obeys
<1>1. late' \subseteq [agent : Agents, key : Keys, state : ReportStates]
  BY <1>0 DEF Obeys, Sends, OwnTypes
<1>2. begun' \subseteq {"prepare", "run"} \X Keys
  BY <1>0 DEF Obeys, Records, OwnTypes
<1>3. faults' \in 0 .. MaxFaults
  BY DEF Obeys, Sends
<1>4. CASE Leave(a)
  BY <1>0, <1>1, <1>2, <1>3, <1>4, LeaveTypes DEF OwnTypes
<1>5. CASE Replaced(a, t)
  <2>1. PICK q \in {Tail(inbox[a]), <<>>} :
          inbox' = [inbox EXCEPT ![a] = q] /\ phase' = [phase EXCEPT ![a] = After(q)]
    BY <1>5 DEF Replaced
  <2>2. q \in Seq(PendingCommand)
    BY <1>0, RestOfInbox
  <2>3. After(q) \in {"loop", "commands"}
    BY SmallTypes
  <2>4. inbox' \in [Agents -> Seq(PendingCommand)]
    BY <1>0, <2>1, <2>2 DEF OwnTypes
  <2>5. phase' \in [Agents -> {"off", "loop", "polled", "commands"}]
    BY <1>0, <2>1, <2>3 DEF OwnTypes
  <2>6. task' \in [Agents -> [Keys -> Task]]
    BY <1>0, <1>5 DEF OwnTypes, Replaced
  <2>. QED
    BY <1>0, <1>1, <1>2, <1>3, <1>5, <2>4, <2>5, <2>6 DEF OwnTypes, Replaced
<1>. QED
  BY <1>4, <1>5 DEF Obeys

LEMMA TypesStay ==
  ASSUME WInv, [WorkersNext]_allVars
  PROVE  WorkersTypeOK'
<1>0. OwnTypes /\ IInv /\ IInv' /\ TypeOK'
  BY ServiceStep, IInvStep DEF WInv, WorkersTypeOK, OwnTypes, IInv
<1>1. ASSUME UNCHANGED workerVars PROVE OwnTypes'
  BY <1>0, <1>1 DEF workerVars, OwnTypes
<1>2. ASSUME TimePasses PROVE OwnTypes'
  <2>1. contact' \in [Agents -> 0 .. (Lease + Slack)]
    <3>1. Lease + Slack \in Nat
      BY WorkersAssumption
    <3>2. ASSUME NEW a \in Agents PROVE contact'[a] \in 0 .. (Lease + Slack)
      BY <1>0, <1>2, <3>1 DEF TimePasses, OwnTypes
    <3>. QED
      BY <1>2, <3>2 DEF TimePasses
  <2>. QED
    BY <1>0, <1>2, <2>1 DEF TimePasses, OwnTypes
<1>3. ASSUME NEW a \in Agents, ExpireLocalLease(a) PROVE OwnTypes'
  <2>1. task' \in [Agents -> [Keys -> Task]]
    BY <1>0, <1>3, SmallTypes DEF ExpireLocalLease, OwnTypes
  <2>2. lost' \in [Agents -> SUBSET Keys]
    BY <1>0, <1>3 DEF ExpireLocalLease, OwnTypes, Tasks
  <2>. QED
    BY <1>0, <1>3, <2>1, <2>2 DEF ExpireLocalLease, OwnTypes
<1>4. ASSUME NEW a \in Agents, Poll(a) PROVE OwnTypes'
  <2>1. \A q \in Replies(a) : q \in Seq(PendingCommand)
    BY <1>0, RepliesMean
  <2>2. faults' \in 0 .. MaxFaults
    BY <1>0, <1>4, WorkersAssumption DEF Poll, Fault, OwnTypes
  <2>3. /\ inbox' \in [Agents -> Seq(PendingCommand)]
        /\ phase' \in [Agents -> {"off", "loop", "polled", "commands"}]
    BY <1>0, <1>4, <2>1 DEF Poll, OwnTypes
  <2>. QED
    BY <1>0, <1>4, <2>2, <2>3 DEF Poll, OwnTypes
<1>5. ASSUME NEW a \in Agents, PollDenied(a) \/ WorkerStops(a) PROVE OwnTypes'
  <2>1. Leave(a) /\ late' = late /\ begun' = begun
    BY <1>5 DEF PollDenied, WorkerStops, Leave
  <2>2. faults' \in 0 .. MaxFaults
    BY <1>0, <1>5, WorkersAssumption DEF PollDenied, WorkerStops, Fault, OwnTypes
  <2>. QED
    BY <1>0, <2>1, <2>2, LeaveTypes DEF OwnTypes
<1>6. ASSUME NEW a \in Agents, PollAnswered(a) PROVE OwnTypes'
  BY <1>0, <1>6, SmallTypes DEF PollAnswered, OwnTypes
<1>7. ASSUME NEW a \in Agents,
             ObeyStop(a) \/ ObeyUnknown(a) \/ RefusePrepare(a) \/ ObeyTask(a)
      PROVE  OwnTypes'
  BY <1>7, ObeyCases, ObeysTypes
<1>8. ASSUME NEW a \in Agents, StartWorker(a) PROVE OwnTypes'
  BY <1>0, <1>8 DEF StartWorker, OwnTypes
<1>9. ASSUME NEW a \in Agents, NEW k \in Keys, ChildExits(a, k) PROVE OwnTypes'
  <2>1. PICK code \in {"good", "bad"} : task' = [task EXCEPT ![a][k].child = code]
    BY <1>9 DEF ChildExits
  <2>2. [task[a][k] EXCEPT !.child = code] \in Task
    <3>1. task[a][k] \in Task
      BY <1>0 DEF OwnTypes
    <3>. QED
      BY <3>1 DEF Task
  <2>3. task' \in [Agents -> [Keys -> Task]]
    BY <1>0, <2>1, <2>2 DEF OwnTypes
  <2>. QED
    BY <1>0, <1>9, <2>3 DEF ChildExits, OwnTypes
<1>10. ASSUME NEW q \in late, LateReport(q) PROVE OwnTypes'
  BY <1>0, <1>10 DEF LateReport, OwnTypes
<1>11. OwnTypes'
  BY <1>0, <1>1, <1>2, <1>3, <1>4, <1>5, <1>6, <1>7, <1>8, <1>9, <1>10
     DEF WorkersNext, WorkerLoop, OwnerCalls, Withdraw, ServiceReconciles, allVars
<1>. QED
  BY <1>0, <1>11 DEF WorkersTypeOK, OwnTypes

-----------------------------------------------------------------------------
(***************************************************************************)
(* The invariant of every worker.                                          *)
(***************************************************************************)

\* Nothing of computer b changes.
Untouched(b) ==
  inbox'[b] = inbox[b] /\ task'[b] = task[b] /\ phase'[b] = phase[b] /\ lost'[b] = lost[b]

LEMMA ObeysTouchesOne ==
  ASSUME WInv, NEW a \in Agents, NEW t \in Task, NEW state, Obeys(a, t, state), NEW b \in Agents \ {a}
  PROVE  Untouched(b)
<1>0. WorkersTypeOK
  BY DEF WInv
<1>1. CASE Replaced(a, t)
  BY <1>0, <1>1 DEF WorkersTypeOK, Replaced, Untouched
<1>2. CASE Leave(a)
  BY <1>0, <1>2 DEF WorkersTypeOK, Leave, Untouched
<1>. QED
  BY <1>1, <1>2 DEF Obeys

LEMMA ObeysStays ==
  ASSUME WInv, [Next]_vars, NEW a \in Agents, NEW t \in Task, NEW state, Obeys(a, t, state),
         NEW b \in Agents
  PROVE  WorkerInv(b)'
<1>1. CASE b = a
  BY <1>1, LeftStay, ReplacedStay DEF Obeys
<1>2. CASE b # a
  <2>1. Untouched(b)
    BY <1>2, ObeysTouchesOne
  <2>2. ASSUME NEW k \in Keys, <<"run", k>> \in begun' \ begun
        PROVE  ~PlacedOn(b, k)
    <3>1. k = Key(a) /\ PlacedOn(a, k) /\ IInv
      BY <2>2, FirstCommand DEF Obeys, Records, WInv
    <3>. QED
      BY <1>2, <3>1, OnePlace
  <2>. QED
    BY <2>1, <2>2, OthersStay DEF Untouched
<1>. QED
  BY <1>1, <1>2

LEMMA ExpiryStays ==
  ASSUME WInv, NEW a \in Agents, ExpireLocalLease(a)
  PROVE  WorkerInv(a)'
<1>0. WorkerInv(a) /\ WorkersTypeOK
  BY DEF WInv
<1>1. /\ inbox'[a] = <<>> /\ task'[a] = [k \in Keys |-> NoTask] /\ phase'[a] = "loop"
  BY <1>0 DEF WorkersTypeOK, ExpireLocalLease, WorkerInv, Inbox
<1>2. DOMAIN inbox'[a] = {}
  BY <1>1
<1>3. \A k \in Keys : task'[a][k] = NoTask /\ NoTask.state = "none" /\ NoTask.child = "none"
  BY <1>1 DEF NoTask
<1>. QED
  BY <1>1, <1>2, <1>3 DEF WorkerInv, Inbox, Commissioned, TaskShape, TrainsPrepared, TrainedIsDone,
                          InInbox, Alive

\* The loop is entered, or goes on, with an empty inbox or with the reply.
LEMMA PhaseStays ==
  ASSUME WInv, NEW a \in Agents, StartWorker(a) \/ PollAnswered(a), [Next]_vars
  PROVE  WorkerInv(a)'
<1>0. /\ WorkerInv(a) /\ WorkersTypeOK /\ IInv
      /\ inbox' = inbox /\ task' = task /\ lost' = lost /\ begun' = begun
  BY DEF WInv, StartWorker, PollAnswered
<1>1. Inbox(a)'
  BY <1>0 DEF WorkerInv, WorkersTypeOK, Inbox, StartWorker, PollAnswered, After
<1>2. Commissioned(a)'
  BY <1>0, Forward DEF WorkerInv, Commissioned, InInbox
<1>3. TaskShape(a)'
  BY <1>0 DEF WorkerInv, WorkersTypeOK, TaskShape, Alive, StartWorker, PollAnswered, After
<1>4. TrainsPrepared(a)'
  <2>1. \A i \in DOMAIN inbox[a] : inbox[a][i].job \in Jobs
    BY <1>0, CommandsOf DEF WorkersTypeOK
  <2>. QED
    BY <1>0, <2>1, Forward DEF WorkerInv, TrainsPrepared, Keys
<1>5. TrainedIsDone(a)'
  BY <1>0 DEF WorkerInv, TrainedIsDone
<1>. QED
  BY <1>1, <1>2, <1>3, <1>4, <1>5 DEF WorkerInv

LEMMA ExitStays ==
  ASSUME WInv, NEW a \in Agents, NEW l \in Keys, ChildExits(a, l)
  PROVE  WorkerInv(a)'
<1>0. /\ WorkerInv(a) /\ WorkersTypeOK /\ task[a][l] \in Task
      /\ inbox' = inbox /\ lost' = lost /\ begun' = begun /\ phase' = phase /\ job' = job
  BY DEF WInv, WorkersTypeOK, ChildExits, vars
<1>1. PICK code \in {"good", "bad"} : task' = [task EXCEPT ![a][l].child = code]
  BY DEF ChildExits
<1>2. /\ \A k \in Keys : k # l => task'[a][k] = task[a][k]
      /\ task'[a][l] = [task[a][l] EXCEPT !.child = code]
  BY <1>0, <1>1 DEF WorkersTypeOK
<1>3. task'[a][l].state = task[a][l].state /\ task'[a][l].child = code
  BY <1>0, <1>2 DEF Task
<1>4. task[a][l].child = "alive" /\ task[a][l] # NoTask
  BY DEF ChildExits, NoTask
<1>5. \A k \in Keys :
        /\ task'[a][k].state = task[a][k].state
        /\ task'[a][k].child = "alive" => task[a][k].child = "alive"
        /\ task'[a][k] # NoTask => task[a][k] # NoTask
        /\ task[a][k] = NoTask => task'[a][k] = NoTask
  BY <1>2, <1>3, <1>4
<1>6. Inbox(a)'
  BY <1>0 DEF WorkerInv, Inbox
<1>7. Commissioned(a)'
  <2>. SUFFICES ASSUME NEW k \in Keys, InInbox(a, k)' \/ task'[a][k] # NoTask
                PROVE  Launched(k)' /\ PlacedOn(a, k)'
    BY DEF Commissioned
  <2>1. InInbox(a, k) \/ task[a][k] # NoTask
    BY <1>0, <1>5 DEF InInbox
  <2>2. Launched(k) /\ PlacedOn(a, k)
    BY <1>0, <2>1 DEF WorkerInv, Commissioned
  <2>. QED
    BY <1>0, <2>2 DEF Launched, PlacedOn, Row
<1>8. TaskShape(a)'
  <2>. SUFFICES ASSUME NEW k \in Keys
                PROVE  /\ task'[a][k].state = "none" => task'[a][k] = NoTask
                       /\ Alive(a, k)' => task'[a][k].state \in {"preparing", "running"}
                       /\ k \in lost'[a] \/ phase'[a] = "off" => task'[a][k] = NoTask
    BY DEF TaskShape
  <2>1. /\ task[a][k].state = "none" => task[a][k] = NoTask
        /\ Alive(a, k) => task[a][k].state \in {"preparing", "running"}
        /\ k \in lost[a] \/ phase[a] = "off" => task[a][k] = NoTask
    BY <1>0 DEF WorkerInv, TaskShape
  <2>. QED
    BY <1>0, <1>5, <2>1 DEF Alive
<1>9. TrainsPrepared(a)'
  <2>1. \A i \in DOMAIN inbox[a] : inbox[a][i].action = "run" => Prepared(inbox[a][i].job)'
    BY <1>0 DEF WorkerInv, TrainsPrepared, Prepared, Row
  <2>2. ASSUME NEW k \in Keys, task'[a][k].state = "running" PROVE Prepared(k[1])'
    <3>1. task[a][k].state = "running"
      BY <1>5, <2>2
    <3>2. Prepared(k[1])
      BY <1>0, <3>1 DEF WorkerInv, TrainsPrepared
    <3>. QED
      BY <1>0, <3>2 DEF Prepared, Row
  <2>. QED
    BY <1>0, <2>1, <2>2 DEF TrainsPrepared
<1>10. TrainedIsDone(a)'
  <2>. SUFFICES ASSUME NEW k \in Keys, <<"run", k>> \in begun'
                PROVE  /\ task'[a][k].state \notin {"preparing", "ready"}
                       /\ \A i \in DOMAIN inbox'[a] :
                            KeyOf(inbox'[a][i]) = k => inbox'[a][i].action # "prepare"
    BY DEF TrainedIsDone
  <2>1. /\ task[a][k].state \notin {"preparing", "ready"}
        /\ \A i \in DOMAIN inbox[a] : KeyOf(inbox[a][i]) = k => inbox[a][i].action # "prepare"
    BY <1>0 DEF WorkerInv, TrainedIsDone
  <2>. QED
    BY <1>0, <1>5, <2>1
<1>. QED
  BY <1>6, <1>7, <1>8, <1>9, <1>10 DEF WorkerInv

LEMMA WorkersStay ==
  ASSUME WInv, [WorkersNext]_allVars, NEW b \in Agents
  PROVE  WorkerInv(b)'
<1>0. [Next]_vars /\ WorkersTypeOK
  BY ServiceStep DEF WInv
<1>1. ASSUME Untouched(b), begun' = begun PROVE WorkerInv(b)'
  BY <1>0, <1>1, OthersStay DEF Untouched
<1>2. ASSUME \/ OwnerCalls \/ Withdraw \/ ServiceReconciles \/ TimePasses
             \/ \E q \in late : LateReport(q)
             \/ UNCHANGED allVars
      PROVE  WorkerInv(b)'
  BY <1>1, <1>2 DEF OwnerCalls, Withdraw, ServiceReconciles, TimePasses, LateReport, allVars,
                    workerVars, Untouched
<1>3. ASSUME NEW a \in Agents, a # b,
             \/ ExpireLocalLease(a) \/ Poll(a) \/ PollDenied(a) \/ PollAnswered(a)
             \/ StartWorker(a) \/ WorkerStops(a)
             \/ \E k \in Keys : ChildExits(a, k)
      PROVE  WorkerInv(b)'
  <2>1. begun' = begun
    BY <1>3 DEF ExpireLocalLease, Poll, PollDenied, PollAnswered, StartWorker, WorkerStops, ChildExits
  <2>2. Untouched(b)
    <3>1. CASE ExpireLocalLease(a) \/ PollAnswered(a) \/ StartWorker(a)
      BY <1>0, <1>3, <3>1 DEF WorkersTypeOK, Untouched, ExpireLocalLease, PollAnswered, StartWorker
    <3>2. CASE PollDenied(a) \/ WorkerStops(a)
      BY <1>0, <1>3, <3>2 DEF WorkersTypeOK, Untouched, PollDenied, WorkerStops, Leave
    <3>3. CASE Poll(a)
      BY <1>0, <1>3, <3>3 DEF WorkersTypeOK, Untouched, Poll
    <3>4. CASE \E k \in Keys : ChildExits(a, k)
      BY <1>0, <1>3, <3>4 DEF WorkersTypeOK, Untouched, ChildExits
    <3>. QED
      BY <1>3, <3>1, <3>2, <3>3, <3>4
  <2>. QED
    BY <1>1, <2>1, <2>2
<1>4. ASSUME \/ ExpireLocalLease(b) \/ Poll(b) \/ PollAnswered(b) \/ StartWorker(b)
             \/ \E k \in Keys : ChildExits(b, k)
      PROVE  WorkerInv(b)'
  BY <1>0, <1>4, ExpiryStays, PollStays, PhaseStays, ExitStays
<1>5. ASSUME PollDenied(b) \/ WorkerStops(b) PROVE WorkerInv(b)'
  BY <1>5, LeftStay DEF PollDenied, WorkerStops
<1>6. ASSUME NEW a \in Agents,
             ObeyStop(a) \/ ObeyUnknown(a) \/ RefusePrepare(a) \/ ObeyTask(a)
      PROVE  WorkerInv(b)'
  BY <1>0, <1>6, ObeyCases, ObeysStays
<1>7. ASSUME NEW a \in Agents,
             \/ WorkerLoop(a) \/ StartWorker(a) \/ WorkerStops(a)
             \/ \E k \in Keys : ChildExits(a, k)
      PROVE  WorkerInv(b)'
  BY <1>3, <1>4, <1>5, <1>6, <1>7 DEF WorkerLoop
<1>. QED
  BY <1>2, <1>7 DEF WorkersNext


-----------------------------------------------------------------------------
(***************************************************************************)
(* How long the service has not heard of a working computer.               *)
(***************************************************************************)

\* The service has not lost a computer, and has not grown more impatient with it.
Rests(b) ==
  agent'[b].row = "paired" => agent[b].row = "paired" /\ agent'[b].silence <= agent[b].silence

LEMMA SilencesAreNumbers ==
  ASSUME TypeOK, NEW b \in Agents
  PROVE  agent[b].silence \in Nat
<1>1. agent[b].silence \in 0 .. OfflineAfter /\ OfflineAfter \in Nat
  BY ConstantsAssumption DEF TypeOK, AgentRow
<1>. QED
  BY <1>1

LEMMA SeenRests ==
  ASSUME TypeOK, NEW a \in Agents, agent' = Seen(a), NEW b \in Agents
  PROVE  Rests(b) /\ agent'[a].silence = 0
<1>1. agent[a] \in AgentRow /\ agent[b] \in AgentRow /\ agent[b].silence \in Nat
  BY SilencesAreNumbers DEF TypeOK
<1>2. agent'[a] = [agent[a] EXCEPT !.silence = 0] /\ (b # a => agent'[b] = agent[b])
  BY DEF TypeOK, Seen
<1>3. agent'[a].silence = 0 /\ agent'[a].row = agent[a].row
  BY <1>1, <1>2 DEF AgentRow
<1>4. CASE b = a
  BY <1>1, <1>3, <1>4 DEF Rests
<1>5. CASE b # a
  BY <1>1, <1>2, <1>5 DEF Rests
<1>. QED
  BY <1>3, <1>4, <1>5

LEMMA ReportRests ==
  ASSUME TypeOK, NEW a \in Agents, NEW j, NEW r, NEW state,
         UNCHANGED vars \/ ReportWorker(a, j, r, state), NEW b \in Agents
  PROVE  Rests(b)
<1>1. CASE UNCHANGED vars
  BY <1>1, SilencesAreNumbers DEF vars, Rests
<1>2. CASE ReportWorker(a, j, r, state)
  BY <1>2, SeenRests DEF ReportWorker
<1>. QED
  BY <1>1, <1>2

LEMMA WithdrawRests ==
  ASSUME TypeOK, Withdraw, NEW b \in Agents
  PROVE  Rests(b)
<1>0. agent[b] \in AgentRow /\ agent[b].silence \in Nat
  BY SilencesAreNumbers DEF TypeOK
<1>1. ASSUME NEW a \in Agents, NEW shared, NEW enabled, SetSharing(a, shared, enabled) PROVE Rests(b)
  <2>1. agent' = [agent EXCEPT ![a].shared = shared, ![a].enabled = enabled]
    BY <1>1 DEF SetSharing
  <2>2. agent'[b].silence = agent[b].silence /\ agent'[b].row = agent[b].row
    BY <1>0, <2>1 DEF TypeOK, AgentRow
  <2>. QED
    BY <1>0, <2>2 DEF Rests
<1>2. ASSUME NEW a \in Agents, DeleteAgent(a) PROVE Rests(b)
  <2>1. agent' = [agent EXCEPT ![a].row = "deleted", ![a].token = FALSE,
                            ![a].enabled = FALSE, ![a].shared = {}, ![a].silence = 0]
    BY <1>2 DEF DeleteAgent
  <2>2. b # a => agent'[b] = agent[b]
    BY <2>1 DEF TypeOK
  <2>3. agent'[a].row = "deleted"
    BY <2>1 DEF TypeOK, AgentRow
  <2>. QED
    BY <1>0, <2>2, <2>3 DEF Rests
<1>3. ASSUME NEW c \in Clusters, NEW u \in Users, Expel(c, u, "revoked") PROVE Rests(b)
  <2> DEFINE Out(x) == [agent[x] EXCEPT !.token = FALSE, !.enabled = FALSE, !.shared = {}]
  <2>1. PICK theirs \in SUBSET Agents :
          agent' = [x \in Agents |-> IF x \in theirs THEN Out(x) ELSE agent[x]]
    BY <1>3, Zenon DEF Expel
  <2>2. Out(b).row = agent[b].row /\ Out(b).silence = agent[b].silence
    BY <1>0 DEF AgentRow
  <2> HIDE DEF Out
  <2>3. agent'[b] = IF b \in theirs THEN Out(b) ELSE agent[b]
    BY <2>1
  <2>4. agent'[b].row = agent[b].row /\ agent'[b].silence = agent[b].silence
    BY <2>2, <2>3
  <2>. QED
    BY <1>0, <2>4 DEF Rests
<1>4. ASSUME NEW c \in Clusters, NEW u \in Users, Approve(c, u) PROVE Rests(b)
  BY <1>0, <1>4 DEF Approve, Rests
<1>. QED
  BY <1>1, <1>2, <1>3, <1>4 DEF Withdraw

\* A computer whose worker does nothing.
LEMMA IdleTiming ==
  ASSUME WInv, NEW b \in Agents, Untouched(b), contact'[b] = contact[b], Rests(b), TypeOK'
  PROVE  Timing(b)'
<1>1. /\ Timing(b) /\ agent[b].silence \in Nat /\ agent'[b].silence \in Nat
      /\ contact[b] \in Nat /\ Slack \in Nat
  <2>1. contact[b] \in 0 .. (Lease + Slack) /\ Lease + Slack \in Nat
    BY WorkersAssumption DEF WInv, WorkersTypeOK
  <2>2. TypeOK
    BY DEF WInv, WorkersTypeOK
  <2>3. agent'[b].silence \in 0 .. OfflineAfter /\ OfflineAfter \in Nat
    BY ConstantsAssumption DEF TypeOK, AgentRow
  <2>. QED
    BY <2>1, <2>2, <2>3, SilencesAreNumbers, WorkersAssumption DEF WInv
<1>2. Working(b)' = Working(b) /\ phase'[b] = phase[b]
  BY DEF Untouched, Working, Tasks
<1>. QED
  BY <1>1, <1>2 DEF Timing, Rests

\* A computer that does not work is not waited for.
LEMMA RestTiming ==
  ASSUME NEW a \in Agents, ~Working(a)', phase'[a] # "polled"
  PROVE  Timing(a)'
BY DEF Timing


LEMMA TickTiming ==
  ASSUME WInv, TimePasses, NEW b \in Agents
  PROVE  Timing(b)'
<1>0. /\ WorkersTypeOK /\ Timing(b) /\ Inbox(b) /\ TaskShape(b) /\ TypeOK /\ agent[b] \in AgentRow
      /\ Timely(b) /\ Tick
  BY DEF WInv, WorkerInv, WorkersTypeOK, TypeOK, TimePasses
<1>1. /\ agent[b].silence \in Nat /\ contact[b] \in Nat /\ Slack \in Nat /\ Lease \in Nat
  <2>1. contact[b] \in 0 .. (Lease + Slack)
    BY <1>0 DEF WorkersTypeOK
  <2>. QED
    BY <1>0, <2>1, SilencesAreNumbers, WorkersAssumption
<1>2. /\ phase'[b] = phase[b] /\ task'[b] = task[b] /\ inbox'[b] = inbox[b]
      /\ contact'[b] = IF phase[b] # "off" /\ contact[b] < Lease + Slack
                       THEN contact[b] + 1 ELSE contact[b]
  BY DEF TimePasses
<1>3. \/ agent'[b] = agent[b]
      \/ agent'[b] = [agent[b] EXCEPT !.silence = @ + 1]
  BY <1>0 DEF Tick
<1>4. /\ agent'[b].row = agent[b].row
      /\ agent'[b].silence \in {agent[b].silence, agent[b].silence + 1}
  BY <1>0, <1>3 DEF AgentRow
<1>5. SUFFICES ASSUME agent[b].row = "paired"
               PROVE  /\ phase[b] = "polled" => agent'[b].silence <= Slack
                      /\ phase[b] # "polled" /\ Working(b) => agent'[b].silence <= contact'[b] + Slack
  BY <1>2, <1>4 DEF Timing, Working, Tasks
<1>6. ASSUME phase[b] = "polled" PROVE agent'[b].silence <= Slack
  <2>1. agent[b].silence < Slack
    BY <1>0, <1>5, <1>6 DEF Timely
  <2>. QED
    BY <1>1, <1>4, <2>1
<1>7. ASSUME phase[b] # "polled", Working(b) PROVE agent'[b].silence <= contact'[b] + Slack
  <2>1. agent[b].silence <= contact[b] + Slack
    BY <1>0, <1>5, <1>7 DEF Timing
  <2>2. Tasks(b) # {} \/ phase[b] = "commands"
    <3>1. inbox[b] # <<>> => phase[b] = "commands"
      BY <1>0, <1>7 DEF Inbox, WorkersTypeOK
    <3>. QED
      BY <1>7, <3>1 DEF Working
  <2>3. phase[b] # "off"
    BY <1>0, <2>2 DEF TaskShape, Tasks, NoTask
  <2>4. contact'[b] = contact[b] + 1
    BY <1>0, <1>2, <2>2, <2>3 DEF Timely
  <2>. QED
    BY <1>1, <1>4, <2>1, <2>4
<1>. QED
  BY <1>6, <1>7

LEMMA PollTiming ==
  ASSUME WInv, NEW a \in Agents, Poll(a) \/ PollAnswered(a)
  PROVE  Timing(a)'
<1>0. WorkersTypeOK /\ TypeOK /\ Timing(a) /\ Slack \in Nat /\ contact[a] \in Nat
  <2>1. contact[a] \in 0 .. (Lease + Slack) /\ Lease + Slack \in Nat /\ Slack \in Nat
    BY WorkersAssumption DEF WInv, WorkersTypeOK
  <2>. QED
    BY <2>1 DEF WInv, WorkersTypeOK
<1>1. CASE Poll(a)
  <2>1. agent'[a].silence = 0 /\ contact'[a] = contact[a]
    BY <1>0, <1>1, SeenRests DEF Poll, PollWorker
  <2>. QED
    BY <1>0, <2>1 DEF Timing
<1>2. CASE PollAnswered(a)
  <2>1. /\ phase[a] = "polled" /\ contact'[a] = 0 /\ agent' = agent
        /\ phase'[a] # "polled"
    BY <1>0, <1>2 DEF PollAnswered, WorkersTypeOK, vars, After
  <2>. QED
    BY <1>0, <2>1 DEF Timing
<1>. QED
  BY <1>1, <1>2

LEMMA ObeysTiming ==
  ASSUME WInv, NEW a \in Agents, NEW t \in Task, NEW state, Obeys(a, t, state), NEW b \in Agents, TypeOK'
  PROVE  Timing(b)'
<1>0. WorkersTypeOK /\ TypeOK /\ Obeying(a) /\ Sends(a, state)
  BY DEF WInv, WorkersTypeOK, Obeys
<1>1. Rests(b)
  BY <1>0, ReportRests DEF Sends
<1>2. CASE b # a
  <2>1. contact'[b] = contact[b]
    BY <1>0, <1>2 DEF Obeys, Replaced, Leave, WorkersTypeOK
  <2>. QED
    BY <1>1, <1>2, <2>1, ObeysTouchesOne, IdleTiming
<1>3. CASE b = a /\ Replaced(a, t)
  <2>1. phase[a] = "commands" /\ inbox[a] # <<>> /\ Timing(a)
    BY <1>0, FirstCommand DEF Obeying, WInv
  <2>2. phase'[a] # "polled" /\ contact' = contact
    BY <1>0, <1>3 DEF Replaced, After, WorkersTypeOK
  <2>3. agent'[a].row = "paired" =>
          agent[a].row = "paired" /\ agent[a].silence <= contact[a] + Slack
    BY <1>1, <1>3, <2>1 DEF Rests, Timing, Working
  <2>4. /\ agent[a].silence \in Nat /\ contact[a] \in Nat /\ Slack \in Nat /\ agent'[a].silence \in Nat
    <3>1. /\ contact[a] \in 0 .. (Lease + Slack) /\ agent'[a].silence \in 0 .. OfflineAfter
          /\ OfflineAfter \in Nat
      BY <1>0, ConstantsAssumption DEF WorkersTypeOK, TypeOK, AgentRow
    <3>. QED
      BY <1>0, <3>1, SilencesAreNumbers, WorkersAssumption
  <2>. QED
    BY <1>1, <1>3, <2>2, <2>3, <2>4 DEF Timing, Rests
<1>4. CASE b = a /\ Leave(a)
  <2>1. ~Working(a)' /\ phase'[a] # "polled"
    BY <1>0, <1>4 DEF Leave, Working, Tasks, NoTask, WorkersTypeOK
  <2>. QED
    BY <1>4, <2>1, RestTiming
<1>. QED
  BY <1>2, <1>3, <1>4 DEF Obeys


\* The other steps of a worker leave it with nothing to do, or change nothing here.
LEMMA OwnTiming ==
  ASSUME WInv, NEW a \in Agents,
         \/ ExpireLocalLease(a) \/ StartWorker(a) \/ PollDenied(a) \/ WorkerStops(a)
         \/ \E k \in Keys : ChildExits(a, k)
  PROVE  Timing(a)'
<1>0. WorkersTypeOK /\ TypeOK /\ WorkerInv(a)
  BY DEF WInv, WorkersTypeOK
<1>1. CASE ExpireLocalLease(a)
  BY <1>0, <1>1, RestTiming DEF WorkersTypeOK, ExpireLocalLease, Working, Tasks, WorkerInv, Inbox, NoTask
<1>2. CASE StartWorker(a)
  <2>1. inbox'[a] = <<>> /\ phase'[a] = "loop" /\ \A k \in Keys : task'[a][k] = NoTask
    BY <1>0, <1>2 DEF WorkersTypeOK, StartWorker, WorkerInv, Inbox, TaskShape
  <2>. QED
    BY <2>1, RestTiming DEF Working, Tasks, NoTask
<1>3. CASE PollDenied(a) \/ WorkerStops(a)
  <2>1. Leave(a)
    BY <1>3 DEF PollDenied, WorkerStops, Leave
  <2>2. inbox'[a] = <<>> /\ phase'[a] = "off" /\ \A k \in Keys : task'[a][k] = NoTask
    BY <1>0, <2>1 DEF WorkersTypeOK, Leave
  <2>. QED
    BY <2>2, RestTiming DEF Working, Tasks, NoTask
<1>4. ASSUME NEW l \in Keys, ChildExits(a, l) PROVE Timing(a)'
  <2>1. /\ agent' = agent /\ phase' = phase /\ contact' = contact /\ inbox' = inbox
    BY <1>4 DEF ChildExits, vars
  <2>2. Tasks(a)' = Tasks(a)
    <3>1. PICK code \in {"good", "bad"} : task' = [task EXCEPT ![a][l].child = code]
      BY <1>4 DEF ChildExits
    <3>2. task[a][l] \in Task
      BY <1>0 DEF WorkersTypeOK
    <3>3. [task[a][l] EXCEPT !.child = code].state = task[a][l].state
      BY <3>2 DEF Task
    <3>4. \A k \in Keys : task'[a][k].state = task[a][k].state
      BY <1>0, <3>1, <3>3 DEF WorkersTypeOK
    <3>. QED
      BY <3>4 DEF Tasks
  <2>3. Timing(a)
    BY DEF WInv
  <2>. QED
    BY <2>1, <2>2, <2>3 DEF Timing, Working
<1>. QED
  BY <1>1, <1>2, <1>3, <1>4

LEMMA RestsOrTicks ==
  ASSUME WInv, [WorkersNext]_allVars, ~TimePasses, NEW b \in Agents
  PROVE  Rests(b)
<1>0. TypeOK /\ WorkersTypeOK
  BY DEF WInv, WorkersTypeOK
<1>1. ASSUME agent' = agent PROVE Rests(b)
  BY <1>0, <1>1, SilencesAreNumbers DEF Rests
<1>2. ASSUME OwnerCalls PROVE agent' = agent
  BY <1>2 DEF OwnerCalls, OwnerCall, CreateJob, StartJob, CancelJob
<1>3. ASSUME NEW a \in Agents,
             \/ ExpireLocalLease(a) \/ PollDenied(a) \/ PollAnswered(a) \/ WorkerStops(a)
             \/ \E k \in Keys : ChildExits(a, k)
      PROVE  agent' = agent
  BY <1>3 DEF ExpireLocalLease, PollDenied, PollAnswered, WorkerStops, ChildExits, vars
<1>4. ASSUME ServiceReconciles \/ UNCHANGED allVars PROVE agent' = agent
  BY <1>4 DEF ServiceReconciles, Reconcile, allVars, vars
<1>5. ASSUME NEW a \in Agents, Poll(a) PROVE Rests(b)
  BY <1>0, <1>5, SeenRests DEF Poll, PollWorker
<1>6. ASSUME NEW a \in Agents, StartWorker(a) PROVE Rests(b)
  <2>1. PICK caps \in Reports[a] : Heartbeat(a, caps)
    BY <1>6 DEF StartWorker
  <2>2. b # a => agent'[b] = agent[b]
    BY <1>0, <2>1 DEF Heartbeat, TypeOK
  <2>3. agent'[a].silence = 0 /\ agent[a].row = "paired"
    BY <1>0, <2>1 DEF Heartbeat, Authorised, TypeOK, AgentRow
  <2>4. agent[b].silence \in Nat
    BY <1>0, SilencesAreNumbers
  <2>. QED
    BY <2>2, <2>3, <2>4 DEF Rests
<1>7. ASSUME NEW a \in Agents,
             ObeyStop(a) \/ ObeyUnknown(a) \/ RefusePrepare(a) \/ ObeyTask(a)
      PROVE  Rests(b)
  BY <1>0, <1>7, ObeyCases, ReportRests DEF Obeys, Sends
<1>8. ASSUME NEW q \in late, LateReport(q) PROVE Rests(b)
  <2>1. q.agent \in Agents
    BY <1>0 DEF WorkersTypeOK
  <2>. QED
    BY <1>0, <1>8, <2>1, ReportRests DEF LateReport
<1>. QED
  BY <1>0, <1>1, <1>2, <1>3, <1>4, <1>5, <1>6, <1>7, <1>8, WithdrawRests DEF WorkersNext, WorkerLoop

LEMMA PairedBefore ==
  ASSUME WInv, [WorkersNext]_allVars, NEW b \in Agents, agent'[b].row = "paired"
  PROVE  agent[b].row = "paired"
<1>1. CASE TimePasses
  BY <1>1 DEF TimePasses, Tick, WInv, WorkersTypeOK, TypeOK, AgentRow
<1>2. CASE ~TimePasses
  BY <1>2, RestsOrTicks DEF Rests
<1>. QED
  BY <1>1, <1>2

LEMMA TimingStays ==
  ASSUME WInv, [WorkersNext]_allVars, TypeOK', NEW b \in Agents
  PROVE  Timing(b)'
<1>0. WorkersTypeOK
  BY DEF WInv
<1>1. ASSUME Untouched(b), contact'[b] = contact[b], ~TimePasses PROVE Timing(b)'
  BY <1>1, IdleTiming, RestsOrTicks
<1>2. ASSUME \/ OwnerCalls \/ Withdraw \/ ServiceReconciles
             \/ \E q \in late : LateReport(q)
             \/ UNCHANGED allVars
      PROVE  Untouched(b) /\ contact'[b] = contact[b]
  BY <1>2 DEF OwnerCalls, Withdraw, ServiceReconciles, LateReport, allVars, workerVars, Untouched
<1>3. ASSUME NEW a \in Agents, a # b,
             \/ ExpireLocalLease(a) \/ Poll(a) \/ PollDenied(a) \/ PollAnswered(a)
             \/ StartWorker(a) \/ WorkerStops(a)
             \/ \E k \in Keys : ChildExits(a, k)
      PROVE  Untouched(b) /\ contact'[b] = contact[b]
  <2>1. CASE ExpireLocalLease(a) \/ PollAnswered(a) \/ StartWorker(a)
    BY <1>0, <1>3, <2>1 DEF WorkersTypeOK, Untouched, ExpireLocalLease, PollAnswered, StartWorker
  <2>2. CASE PollDenied(a) \/ WorkerStops(a)
    BY <1>0, <1>3, <2>2 DEF WorkersTypeOK, Untouched, PollDenied, WorkerStops, Leave
  <2>3. CASE Poll(a)
    BY <1>0, <1>3, <2>3 DEF WorkersTypeOK, Untouched, Poll
  <2>4. CASE \E k \in Keys : ChildExits(a, k)
    BY <1>0, <1>3, <2>4 DEF WorkersTypeOK, Untouched, ChildExits
  <2>. QED
    BY <1>3, <2>1, <2>2, <2>3, <2>4
<1>4. ASSUME \/ ExpireLocalLease(b) \/ Poll(b) \/ PollDenied(b) \/ PollAnswered(b)
             \/ StartWorker(b) \/ WorkerStops(b)
             \/ \E k \in Keys : ChildExits(b, k)
      PROVE  Timing(b)'
  BY <1>4, OwnTiming, PollTiming
<1>5. ASSUME NEW a \in Agents,
             ObeyStop(a) \/ ObeyUnknown(a) \/ RefusePrepare(a) \/ ObeyTask(a)
      PROVE  Timing(b)'
  BY <1>5, ObeyCases, ObeysTiming
<1>. QED
  BY <1>1, <1>2, <1>3, <1>4, <1>5, TickTiming DEF WorkersNext, WorkerLoop

-----------------------------------------------------------------------------
(***************************************************************************)
(* The invariant holds in every state.                                     *)
(***************************************************************************)
LEMMA HistoryStays ==
  ASSUME WInv, [WorkersNext]_allVars
  PROVE  /\ \A q \in late' : Launched(q.key)'
         /\ \A k \in Keys : <<"run", k>> \in begun' => Prepared(k[1])'
<1>0. /\ WorkersTypeOK /\ IInv /\ [Next]_vars
      /\ \A q \in late : q.key \in Keys /\ Launched(q.key)
      /\ \A k \in Keys : k[1] \in Jobs /\ (<<"run", k>> \in begun => Prepared(k[1]))
  BY ServiceStep DEF WInv, WorkersTypeOK, Keys
<1>1. ASSUME late' \subseteq late, begun' = begun
      PROVE  /\ \A q \in late' : Launched(q.key)'
             /\ \A k \in Keys : <<"run", k>> \in begun' => Prepared(k[1])'
  BY <1>0, <1>1, Forward
<1>2. ASSUME NEW a \in Agents,
             ObeyStop(a) \/ ObeyUnknown(a) \/ RefusePrepare(a) \/ ObeyTask(a)
      PROVE  /\ \A q \in late' : Launched(q.key)'
             /\ \A k \in Keys : <<"run", k>> \in begun' => Prepared(k[1])'
  <2>1. PICK t \in Task, state \in ReportStates : Obeys(a, t, state)
    BY <1>2, ObeyCases
  <2>2. /\ Launched(Key(a)) /\ Key(a) \in Keys /\ Key(a)[1] = First(a).job
        /\ First(a) = inbox[a][1] /\ 1 \in DOMAIN inbox[a]
    BY <2>1, FirstCommand DEF Obeys
  <2>3. ASSUME NEW q \in late' PROVE Launched(q.key)'
    <3>1. q \in late \/ q.key = Key(a)
      BY <2>1 DEF Obeys, Sends
    <3>. QED
      BY <1>0, <2>2, <3>1, Forward
  <2>4. ASSUME NEW k \in Keys, <<"run", k>> \in begun' PROVE Prepared(k[1])'
    <3>1. CASE <<"run", k>> \in begun
      BY <1>0, <3>1, Forward
    <3>2. CASE <<"run", k>> \notin begun
      <4>1. k = Key(a) /\ First(a).action = "run"
        BY <2>1, <2>4, <3>2 DEF Obeys, Records
      <4>2. Prepared(k[1])
        BY <2>2, <4>1 DEF WInv, WorkerInv, TrainsPrepared
      <4>. QED
        BY <1>0, <4>2, Forward
    <3>. QED
      BY <3>1, <3>2
  <2>. QED
    BY <2>3, <2>4
<1>3. ASSUME NEW a \in Agents, PollDenied(a) \/ WorkerStops(a)
      PROVE  late' \subseteq late /\ begun' = begun
  BY <1>3 DEF PollDenied, WorkerStops, Leave
<1>4. ASSUME NEW a \in Agents,
             \/ ExpireLocalLease(a) \/ Poll(a) \/ PollAnswered(a) \/ StartWorker(a)
             \/ \E k \in Keys : ChildExits(a, k)
      PROVE  late' \subseteq late /\ begun' = begun
  BY <1>4 DEF ExpireLocalLease, Poll, PollAnswered, StartWorker, ChildExits
<1>5. ASSUME \/ OwnerCalls \/ Withdraw \/ ServiceReconciles \/ TimePasses
             \/ \E q \in late : LateReport(q)
             \/ UNCHANGED allVars
      PROVE  late' \subseteq late /\ begun' = begun
  BY <1>5 DEF OwnerCalls, Withdraw, ServiceReconciles, TimePasses, LateReport, allVars, workerVars
<1>. QED
  BY <1>1, <1>2, <1>3, <1>4, <1>5 DEF WorkersNext, WorkerLoop

LEMMA WorkersBegin == WorkersInit => WInv
<1>. SUFFICES ASSUME WorkersInit PROVE WInv
  OBVIOUS
<1>1. IInv
  BY InitIInv DEF WorkersInit
<1>2. WorkersTypeOK
  <2>1. TypeOK /\ faults \in 0 .. MaxFaults
    BY <1>1, WorkersAssumption DEF IInv, WorkersInit
  <2>. QED
    BY <2>1, SmallTypes DEF WorkersInit, WorkersTypeOK
<1>3. ASSUME NEW a \in Agents PROVE WorkerInv(a) /\ Timing(a)
  <2>1. inbox[a] = <<>> /\ phase[a] = "off" /\ lost[a] = {} /\ begun = {}
    BY DEF WorkersInit
  <2>2. DOMAIN inbox[a] = {}
    BY <2>1
  <2>3. \A k \in Keys : task[a][k] = NoTask /\ NoTask.state = "none" /\ NoTask.child = "none"
    BY DEF WorkersInit, NoTask
  <2>. QED
    BY <2>1, <2>2, <2>3 DEF WorkerInv, Inbox, Commissioned, TaskShape, TrainsPrepared,
                            TrainedIsDone, InInbox, Alive, Timing, Working, Tasks
<1>. QED
  BY <1>1, <1>2, <1>3 DEF WInv, WorkersInit

LEMMA WorkersStep ==
  ASSUME WInv, [WorkersNext]_allVars
  PROVE  WInv'
<1>1. WorkersTypeOK'
  BY TypesStay
<1>2. IInv'
  BY ServiceStep, IInvStep DEF WInv
<1>3. \A a \in Agents : WorkerInv(a)' /\ Timing(a)'
  BY <1>1, WorkersStay, TimingStays DEF WorkersTypeOK
<1>. QED
  BY <1>1, <1>2, <1>3, HistoryStays DEF WInv

\* The invariant is inductive.
LEMMA WorkersInvariant == WorkersSpec => []WInv
<1>. QED
  BY WorkersBegin, WorkersStep, PTL DEF WorkersSpec

-----------------------------------------------------------------------------
(***************************************************************************)
(* The properties.                                                         *)
(***************************************************************************)

\* Every variable of the workers and of the service keeps its type, the inbox
\* included: a reply lists finitely many commands.
THEOREM WorkersKeepTypes == WorkersSpec => []WorkersTypeOK
<1>1. WInv => WorkersTypeOK
  BY DEF WInv
<1>. QED
  BY <1>1, WorkersInvariant, PTL

\* Whatever the workers do, lose, repeat or send too late is for the service one
\* of the calls its own specification allows: a worker reports only ranks that
\* were started, however old the command is.
THEOREM WorkersImplementControl == WorkersSpec => WorkersObeyControl
<1>1. WorkersInit => Init
  BY DEF WorkersInit
<1>2. WInv /\ [WorkersNext]_allVars => [Next]_vars
  BY ServiceStep
<1>. QED
  BY <1>1, <1>2, WorkersInvariant, PTL DEF WorkersSpec, WorkersObeyControl, Spec

\* A rank trains only after all ranks of its job have been ready, although its
\* command to train may be stale when it is obeyed.
THEOREM TrainingFollowsReadiness == WorkersSpec => []TrainsAfterAllReady
<1>1. WInv => TrainsAfterAllReady
  BY DEF WInv, WorkerInv, TrainsPrepared, Prepared, TrainsAfterAllReady
<1>. QED
  BY <1>1, WorkersInvariant, PTL

\* The training of a rank is started once: neither a lost report, nor a repeated
\* command, nor a worker that comes back starts it again.
THEOREM TrainingStartsOnce == WorkersSpec => TrainsOnce
<1>1. ASSUME WInv, [WorkersNext]_allVars, NEW a \in Agents, NEW k \in Keys,
             task[a][k].state # "running", task'[a][k].state = "running"
      PROVE  <<"run", k>> \notin begun
  <2>0. WorkersTypeOK
    BY <1>1 DEF WInv
  <2>1. NoTask.state = "none"
    BY DEF NoTask
  <2>2. ASSUME NEW b \in Agents,
               ObeyStop(b) \/ ObeyUnknown(b) \/ RefusePrepare(b) \/ ObeyTask(b)
        PROVE  <<"run", k>> \notin begun
    <3>1. PICK t \in Task, state \in ReportStates : Obeys(b, t, state)
      BY <1>1, <2>2, ObeyCases
    <3>2. b = a
      BY <1>1, <3>1, ObeysTouchesOne DEF Untouched
    <3>3. ~Leave(a)
      BY <1>1, <2>0, <2>1 DEF Leave, WorkersTypeOK
    <3>4. task'[a][k] = IF k = Key(a) THEN t ELSE task[a][k]
      BY <2>0, <3>1, <3>2, <3>3 DEF Obeys, Replaced, WorkersTypeOK
    <3>5. k = Key(a) /\ t.state = "running"
      BY <1>1, <3>4
    <3>6. task[a][k].state \in {"preparing", "ready"}
      BY <1>1, <3>1, <3>2, <3>5 DEF Obeys, Becomes
    <3>. QED
      BY <1>1, <3>6 DEF WInv, WorkerInv, TrainedIsDone
  <2>3. ASSUME NEW b \in Agents, PollDenied(b) \/ WorkerStops(b) \/ ExpireLocalLease(b)
        PROVE  FALSE
    <3>1. task' = [task EXCEPT ![b] = [l \in Keys |-> NoTask]]
      BY <2>3 DEF PollDenied, WorkerStops, ExpireLocalLease, Leave
    <3>. QED
      BY <1>1, <2>0, <2>1, <3>1 DEF WorkersTypeOK
  <2>4. ASSUME NEW b \in Agents, NEW l \in Keys, ChildExits(b, l) PROVE FALSE
    <3>1. PICK code \in {"good", "bad"} : task' = [task EXCEPT ![b][l].child = code]
      BY <2>4 DEF ChildExits
    <3>2. task[b][l] \in Task
      BY <2>0 DEF WorkersTypeOK
    <3>3. [task[b][l] EXCEPT !.child = code].state = task[b][l].state
      BY <3>2 DEF Task
    <3>4. task'[a][k].state = task[a][k].state
      BY <2>0, <3>1, <3>3 DEF WorkersTypeOK
    <3>. QED
      BY <1>1, <3>4
  <2>5. task' # task
    BY <1>1
  <2>6. ASSUME \/ OwnerCalls \/ Withdraw \/ ServiceReconciles \/ TimePasses
               \/ \E q \in late : LateReport(q)
               \/ UNCHANGED allVars
               \/ \E b \in Agents : Poll(b) \/ PollAnswered(b) \/ StartWorker(b)
        PROVE  FALSE
    BY <2>5, <2>6 DEF OwnerCalls, Withdraw, ServiceReconciles, TimePasses, LateReport, allVars,
                      workerVars, Poll, PollAnswered, StartWorker
  <2>. QED
    BY <1>1, <2>2, <2>3, <2>4, <2>6 DEF WorkersNext, WorkerLoop
<1>2. WInv /\ [WorkersNext]_allVars =>
        [\A a \in Agents, k \in Keys :
           task[a][k].state # "running" /\ task'[a][k].state = "running"
             => <<"run", k>> \notin begun]_allVars
  BY <1>1
<1>. QED
  BY <1>2, WorkersInvariant, PTL DEF WorkersSpec, TrainsOnce


-----------------------------------------------------------------------------
(***************************************************************************)
(* Processes and reservations.  A report that ends a rank takes its        *)
(* reservation away, so nothing can be said of the processes once such a   *)
(* report is handled long after its sender gave it up: the sender may      *)
(* have been told to prepare the rank in the meantime.                     *)
(***************************************************************************)
NoLateEnds == \A q \in late : q.state \notin Closing

Concerns(a, k) == Alive(a, k) \/ InInbox(a, k)

\* What the worker of a paired computer runs, or is about to obey, is reserved.
Covered ==
  \A a \in Agents, k \in Keys :
    agent[a].row = "paired" /\ Concerns(a, k) => Row(k[1], k[2]) \in Held

\* The service does not give up a computer whose worker still works.
LEMMA WorkingIsHeard ==
  ASSUME WInv, NEW a \in Agents, agent[a].row = "paired", Working(a)
  PROVE  ~Silent(a)
<1>1. /\ contact[a] \in 0 .. (Lease + Slack) /\ agent[a].silence \in Nat
      /\ Lease \in Nat /\ Slack \in Nat /\ OfflineAfter \in Nat
      /\ Lease + 2 * Slack < OfflineAfter
  BY SilencesAreNumbers, WorkersAssumption, ConstantsAssumption DEF WInv, WorkersTypeOK
<1>2. agent[a].silence <= Lease + 2 * Slack
  <2>1. Timing(a)
    BY DEF WInv
  <2>2. CASE phase[a] = "polled"
    BY <1>1, <2>1, <2>2 DEF Timing
  <2>3. CASE phase[a] # "polled"
    BY <1>1, <2>1, <2>3 DEF Timing
  <2>. QED
    BY <2>2, <2>3
<1>. QED
  BY <1>1, <1>2 DEF Silent

LEMMA ConcernIsWork ==
  ASSUME WInv, NEW a \in Agents, NEW k \in Keys, Concerns(a, k)
  PROVE  Working(a) /\ PlacedOn(a, k) /\ k[1] \in Jobs /\ k[2] \in Ranks
<1>1. WorkerInv(a) /\ inbox[a] \in Seq(PendingCommand) /\ k[1] \in Jobs /\ k[2] \in Ranks
  BY DEF WInv, WorkersTypeOK, Keys
<1>2. CASE Alive(a, k)
  <2>1. task[a][k].state # "none" /\ task[a][k] # NoTask
    BY <1>1, <1>2 DEF WorkerInv, TaskShape, Alive, NoTask
  <2>. QED
    BY <1>1, <2>1 DEF WorkerInv, Commissioned, Working, Tasks
<1>3. CASE InInbox(a, k)
  <2>1. inbox[a] # <<>>
    BY <1>3 DEF InInbox
  <2>. QED
    BY <1>1, <1>3, <2>1 DEF WorkerInv, Commissioned, Working
<1>. QED
  BY <1>2, <1>3 DEF Concerns

\* What was reserved for a worker stays reserved, unless a report ends the rank.
LEMMA StaysHeld ==
  ASSUME WInv, Covered, NEW a \in Agents, NEW k \in Keys, Concerns(a, k),
         agent[a].row = "paired", agent'[a].row = "paired",
         NEW R, GoesOn(k[1], R), k[2] \notin R
  PROVE  Row(k[1], k[2])' \in Held
<1>1. Working(a) /\ k[1] \in Jobs /\ k[2] \in Ranks
  BY ConcernIsWork
<1>2. PICK x \in job[k[1]].spec : x.agent = a /\ x.rank = k[2]
  BY ConcernIsWork DEF PlacedOn
<1>3. Holds(k[1], x)
  BY <1>2 DEF Covered, Holds
<1>4. ~Silent(a)
  BY <1>1, WorkingIsHeard
<1>. QED
  BY <1>1, <1>2, <1>3, <1>4 DEF GoesOn, FreesOnly, Row

\* A step that is not a report releases no reservation but those of silent or
\* removed computers.
LEMMA QuietGoesOn ==
  ASSUME WInv,
         \/ OwnerCalls \/ Withdraw \/ ServiceReconciles \/ TimePasses \/ UNCHANGED vars
         \/ \E a \in Agents : Poll(a) \/ StartWorker(a),
         NEW j \in Jobs, NEW r \in Ranks, Row(j, r) \in Held
  PROVE  GoesOn(j, {})
<1>0. IInv /\ TypeOK /\ \A a \in Agents : agent[a].caps.devices \in SUBSET Devices
  BY DEF WInv, WorkersTypeOK, TypeOK, AgentRow, Capabilities
<1>1. CASE job'[j] = job[j]
  BY <1>0, <1>1, SameRowsGoOn
<1>2. ASSUME OwnerCalls PROVE GoesOn(j, {})
  <2>1. ASSUME NEW i \in Jobs, NEW port \in Ports, CreateJob(i, port) PROVE job'[j] = job[j]
    <3>1. i # j
      BY <1>0, <2>1, CreatedJob DEF Row, Held
    <3>. QED
      BY <1>0, <2>1, <3>1 DEF CreateJob, TypeOK
  <2>2. ASSUME NEW i \in Jobs, StartJob(i) PROVE job'[j] = job[j]
    <3>1. i # j
      BY <1>0, <2>2, StartedJob DEF Row, Held
    <3>. QED
      BY <1>0, <2>2, <3>1 DEF StartJob, TypeOK
  <2>. QED
    BY <1>0, <1>1, <1>2, <2>1, <2>2, CancelGoesOn DEF OwnerCalls, OwnerCall
<1>3. ASSUME Withdraw PROVE GoesOn(j, {})
  <2>1. ASSUME NEW a \in Agents, NEW enabled \in BOOLEAN,
               SetSharing(a, agent[a].caps.devices, enabled)
        PROVE  GoesOn(j, {})
    BY <1>0, <2>1, AgentGoesOn
  <2>2. ASSUME NEW a \in Agents, DeleteAgent(a) PROVE GoesOn(j, {})
    BY <1>0, <2>2, DeleteAgentGoesOn
  <2>3. ASSUME NEW c \in Clusters, NEW u \in Users, Approve(c, u) \/ Expel(c, u, "revoked")
        PROVE  GoesOn(j, {})
    BY <1>0, <2>3, MembershipGoesOn
  <2>. QED
    BY <1>3, <2>1, <2>2, <2>3 DEF Withdraw
<1>4. ASSUME ServiceReconciles \/ TimePasses PROVE GoesOn(j, {})
  BY <1>0, <1>4, ReconciledGoesOn, TickGoesOn DEF ServiceReconciles, Reconcile, TimePasses
<1>5. ASSUME NEW a \in Agents, Poll(a) \/ StartWorker(a) PROVE GoesOn(j, {})
  BY <1>0, <1>5, AgentGoesOn DEF Poll, StartWorker
<1>. QED
  BY <1>1, <1>2, <1>3, <1>4, <1>5 DEF vars


\* A worker that obeys: the rank of the command leaves the inbox, and only a report
\* that ends it, when its process is gone, takes its reservation.
LEMMA ObeysCovered ==
  ASSUME WInv, Covered, [WorkersNext]_allVars, NEW a \in Agents, NEW t \in Task,
         NEW state \in ReportStates, Obeys(a, t, state),
         NEW b \in Agents, NEW k \in Keys, agent'[b].row = "paired", Concerns(b, k)'
  PROVE  Row(k[1], k[2])' \in Held
<1>k. k[1] \in Jobs /\ k = <<k[1], k[2]>>
  BY DEF Keys
<1>0. /\ WorkersTypeOK /\ IInv /\ TypeOK /\ Obeying(a) /\ k[1] \in Jobs /\ k = <<k[1], k[2]>>
      /\ agent[b].row = "paired"
  BY <1>k, PairedBefore DEF WInv, WorkersTypeOK, Obeys
<1>1. /\ Key(a) \in Keys /\ Key(a) = <<Key(a)[1], Key(a)[2]>> /\ InInbox(a, Key(a)) /\ PlacedOn(a, Key(a))
      /\ Key(a)[1] \in Jobs /\ Key(a)[2] \in Ranks /\ Launched(Key(a))
  BY <1>0, FirstCommand DEF Keys
\* Before the step the rank was reserved.
<1>2. Concerns(b, k) /\ (k = Key(a) => b = a /\ t.child = "alive")
  <2>1. CASE b # a
    <3>1. Concerns(b, k)
      BY <2>1, ObeysTouchesOne DEF Untouched, Concerns, Alive, InInbox
    <3>2. PlacedOn(b, k)
      BY <3>1, ConcernIsWork
    <3>. QED
      BY <1>0, <1>1, <2>1, <3>1, <3>2, OnePlace
  <2>2. CASE b = a /\ Leave(a)
    <3>1. inbox'[a] = <<>> /\ task'[a][k] = NoTask /\ NoTask.child # "alive"
      BY <1>0, <2>2 DEF Leave, WorkersTypeOK, NoTask
    <3>. QED
      BY <2>2, <3>1 DEF Concerns, Alive, InInbox
  <2>3. CASE b = a /\ Replaced(a, t)
    <3>1. task'[a][k] = IF k = Key(a) THEN t ELSE task[a][k]
      BY <1>0, <1>1, <2>3 DEF Replaced, WorkersTypeOK
    <3>2. PICK q \in {Tail(inbox[a]), <<>>} : inbox' = [inbox EXCEPT ![a] = q]
      BY <2>3 DEF Replaced
    <3>3. inbox'[a] = q
      BY <1>0, <3>2 DEF WorkersTypeOK
    <3>4. InInbox(a, k)' => InInbox(a, k) /\ k # Key(a)
      BY <1>0, <3>3, RestOfInbox DEF InInbox
    <3>. QED
      BY <1>1, <2>3, <3>1, <3>4 DEF Concerns, Alive
  <2>. QED
    BY <2>1, <2>2, <2>3 DEF Obeys
\* The report ends another rank, or none.
<1>3. \E R : GoesOn(k[1], R) /\ k[2] \notin R
  <2>1. CASE UNCHANGED vars
    BY <1>0, <2>1, SameRowsGoOn DEF vars
  <2>2. CASE ReportWorker(a, Key(a)[1], Key(a)[2], state)
    <3>1. GoesOn(k[1], Ended(k[1], Key(a)[1], Key(a)[2], state))
      BY <1>0, <1>1, <2>2, ReportGoesOn DEF Report, Commanded, Launched
    <3>2. k[2] \notin Ended(k[1], Key(a)[1], Key(a)[2], state)
      BY <1>0, <1>1, <1>2 DEF Ended, Obeys
    <3>. QED
      BY <3>1, <3>2
  <2>. QED
    BY <2>1, <2>2 DEF Obeys, Sends
<1>. QED
  BY <1>0, <1>2, <1>3, StaysHeld

LEMMA CoveredStep ==
  ASSUME WInv, Covered, NoLateEnds, [WorkersNext]_allVars
  PROVE  Covered'
<1>. SUFFICES ASSUME NEW b \in Agents, NEW k \in Keys, agent'[b].row = "paired", Concerns(b, k)'
              PROVE  Row(k[1], k[2])' \in Held
  BY DEF Covered
<1>k. k[1] \in Jobs /\ k[2] \in Ranks /\ k = <<k[1], k[2]>>
  BY DEF Keys
<1>0. /\ WorkersTypeOK /\ IInv /\ TypeOK /\ IInv' /\ agent[b].row = "paired"
      /\ k[1] \in Jobs /\ k[2] \in Ranks /\ k = <<k[1], k[2]>>
  BY <1>k, PairedBefore, ServiceStep, IInvStep DEF WInv, WorkersTypeOK
\* The reservation is kept wherever the worker was concerned with the rank before.
<1>1. ASSUME Concerns(b, k),
             \/ OwnerCalls \/ Withdraw \/ ServiceReconciles \/ TimePasses \/ UNCHANGED vars
             \/ \E a \in Agents : Poll(a) \/ StartWorker(a)
      PROVE  Row(k[1], k[2])' \in Held
  <2>1. Row(k[1], k[2]) \in Held
    BY <1>0, <1>1 DEF Covered
  <2>2. GoesOn(k[1], {})
    BY <1>0, <1>1, <2>1, QuietGoesOn
  <2>. QED
    BY <1>0, <1>1, <2>2, StaysHeld
<1>2. ASSUME NEW a \in Agents,
             ObeyStop(a) \/ ObeyUnknown(a) \/ RefusePrepare(a) \/ ObeyTask(a)
      PROVE  Row(k[1], k[2])' \in Held
  BY <1>2, ObeyCases, ObeysCovered
<1>3. ASSUME NEW a \in Agents, Poll(a), ~Concerns(b, k) PROVE Row(k[1], k[2])' \in Held
  <2>1. task' = task /\ InInbox(b, k)'
    BY <1>3 DEF Poll, Concerns, Alive
  <2>2. PICK q \in Replies(a) : inbox' = [inbox EXCEPT ![a] = q]
    <3>1. inbox' # inbox
      BY <1>3, <2>1 DEF Concerns, InInbox
    <3>. QED
      BY <1>3, <3>1 DEF Poll
  <2>3. b = a /\ inbox'[b] = q
    BY <1>0, <1>3, <2>1, <2>2 DEF Concerns, InInbox, WorkersTypeOK
  <2>4. PICK i \in DOMAIN q : KeyOf(q[i]) = k
    BY <2>1, <2>3 DEF InInbox
  <2>5. q[i] \in Answers(a)
    BY <1>0, RepliesMean
  <2>6. Row(q[i].job, q[i].rank)' \in Held
    BY <1>0, <2>5, AnswersMean
  <2>. QED
    BY <2>4, <2>6 DEF KeyOf
<1>4. ASSUME \/ OwnerCalls \/ Withdraw \/ ServiceReconciles \/ TimePasses \/ UNCHANGED allVars
             \/ \E q \in late : LateReport(q)
             \/ \E a \in Agents : StartWorker(a) \/ PollAnswered(a)
      PROVE  Concerns(b, k)
  <2>1. task' = task /\ inbox' = inbox
    BY <1>4 DEF OwnerCalls, Withdraw, ServiceReconciles, TimePasses, allVars, workerVars,
                LateReport, StartWorker, PollAnswered
  <2>. QED
    BY <2>1 DEF Concerns, Alive, InInbox
<1>5. ASSUME NEW a \in Agents, PollDenied(a) \/ WorkerStops(a) \/ ExpireLocalLease(a)
      PROVE  Concerns(b, k)
  <2>1. /\ task' = [task EXCEPT ![a] = [l \in Keys |-> NoTask]]
        /\ inbox' = inbox \/ inbox' = [inbox EXCEPT ![a] = <<>>]
    BY <1>5 DEF PollDenied, WorkerStops, ExpireLocalLease, Leave
  <2>2. task'[b][k].child = "alive" => task'[b][k] = task[b][k]
    BY <1>0, <2>1 DEF WorkersTypeOK, NoTask
  <2>3. inbox'[b] = inbox[b] \/ inbox'[b] = <<>>
    BY <1>0, <2>1 DEF WorkersTypeOK
  <2>4. InInbox(b, k)' => InInbox(b, k)
    BY <2>3 DEF InInbox
  <2>. QED
    BY <2>2, <2>4 DEF Concerns, Alive
<1>6. ASSUME NEW a \in Agents, NEW l \in Keys, ChildExits(a, l) PROVE Concerns(b, k)
  <2>1. PICK code \in {"good", "bad"} : task' = [task EXCEPT ![a][l].child = code]
    BY <1>6 DEF ChildExits
  <2>2. task[a][l] \in Task
    BY <1>0 DEF WorkersTypeOK
  <2>3. [task[a][l] EXCEPT !.child = code].child = code
    BY <2>2 DEF Task
  <2>4. task'[b][k].child = "alive" => task'[b][k] = task[b][k]
    BY <1>0, <2>1, <2>3 DEF WorkersTypeOK
  <2>. QED
    BY <1>6, <2>4 DEF Concerns, Alive, InInbox, ChildExits
<1>7. ASSUME NEW a \in Agents,
             \/ PollDenied(a) \/ WorkerStops(a) \/ ExpireLocalLease(a) \/ PollAnswered(a)
             \/ \E l \in Keys : ChildExits(a, l)
      PROVE  UNCHANGED vars
  BY <1>7 DEF PollDenied, WorkerStops, ExpireLocalLease, PollAnswered, ChildExits
<1>8. ASSUME NEW q \in late, LateReport(q), Concerns(b, k) PROVE Row(k[1], k[2])' \in Held
  <2>1. /\ q.agent \in Agents /\ q.key[1] \in Jobs /\ q.key[2] \in Ranks /\ q.state \in ReportStates
        /\ q.state \notin Closing /\ Launched(q.key)
    BY <1>0 DEF WorkersTypeOK, NoLateEnds, Keys, WInv
  <2>2. CASE ReportWorker(q.agent, q.key[1], q.key[2], q.state)
    <3>1. GoesOn(k[1], Ended(k[1], q.key[1], q.key[2], q.state))
      BY <1>0, <2>1, <2>2, ReportGoesOn DEF Report, Commanded, Launched
    <3>2. k[2] \notin Ended(k[1], q.key[1], q.key[2], q.state)
      BY <2>1 DEF Ended
    <3>. QED
      BY <1>0, <1>8, <3>1, <3>2, StaysHeld
  <2>3. CASE UNCHANGED vars
    BY <1>1, <1>8, <2>3
  <2>. QED
    BY <1>8, <2>2, <2>3 DEF LateReport
<1>9. UNCHANGED allVars => UNCHANGED vars
  BY DEF allVars
<1>. QED
  BY <1>1, <1>2, <1>3, <1>4, <1>5, <1>6, <1>7, <1>8, <1>9 DEF WorkersNext, WorkerLoop


\* Reservations cover processes as long as no report that ends a rank is handled
\* after its sender gave it up.
LEMMA CoveredAlways == WorkersSpec /\ []NoLateEnds => []Covered
<1>1. WorkersInit => Covered
  <2>. SUFFICES ASSUME WorkersInit, NEW a \in Agents, NEW k \in Keys
                PROVE  ~Concerns(a, k)
    BY DEF Covered
  <2>1. inbox[a] = <<>> /\ task[a][k] = NoTask /\ NoTask.child # "alive"
    BY DEF WorkersInit, NoTask
  <2>. QED
    BY <2>1 DEF Concerns, Alive, InInbox
<1>2. WInv /\ NoLateEnds /\ Covered /\ [WorkersNext]_allVars => Covered'
  BY CoveredStep
<1>. QED
  BY <1>1, <1>2, WorkersInvariant, PTL DEF WorkersSpec

\* A process on a computer of the cluster has its rank's device reserved: lost
\* polls, silent computers and restarts release a device only when the process is
\* gone.  The premise is needed: a report of failure that is handled long after its
\* sender gave up releases the device of the process the sender started since.
THEOREM ReservationsCoverProcesses == WorkersSpec /\ []NoLateEnds => []ReservationCoversProcess
<1>1. Covered => ReservationCoversProcess
  BY DEF Covered, Concerns, ReservationCoversProcess
<1>. QED
  BY <1>1, CoveredAlways, PTL

LEMMA PlacementOf ==
  ASSUME IInv, NEW a \in Agents, NEW k \in Keys, PlacedOn(a, k), Row(k[1], k[2]) \in Held
  PROVE  /\ k[1] \in Jobs /\ Placement(k) \in job[k[1]].spec /\ Holds(k[1], Placement(k))
         /\ Placement(k).agent = a /\ Placement(k).rank = k[2]
<1>1. k[1] \in Jobs /\ WellPlaced(job[k[1]])
  BY DEF IInv, Keys
<1>2. PICK x \in job[k[1]].spec : x.agent = a /\ x.rank = k[2]
  BY DEF PlacedOn
<1>3. Placement(k) \in job[k[1]].spec /\ Placement(k).rank = k[2]
  BY <1>2 DEF Placement
<1>4. Placement(k) = x
  BY <1>1, <1>2, <1>3 DEF WellPlaced
<1>. QED
  BY <1>1, <1>2, <1>3, <1>4 DEF Holds

\* No two processes use one device of a computer, or one GPU of a machine, at a time.
THEOREM DevicesRunOneProcess == WorkersSpec /\ []NoLateEnds => []OneProcessPerDevice
<1>1. ASSUME WInv, Covered, NEW a \in Agents, NEW b \in Agents, NEW k \in Keys, NEW l \in Keys,
             Alive(a, k), agent[a].row = "paired",
             Alive(b, l), agent[b].row = "paired",
             \/ a = b /\ Placement(k).device = Placement(l).device
             \/ /\ Placement(k).device \in GpuDevices
                /\ Placement(k).device = Placement(l).device
                /\ Placement(k).host = Placement(l).host
      PROVE  a = b /\ k = l
  <2>1. /\ Row(k[1], k[2]) \in Held /\ PlacedOn(a, k)
        /\ Row(l[1], l[2]) \in Held /\ PlacedOn(b, l)
    BY <1>1, ConcernIsWork DEF Covered, Concerns
  <2>2. IInv
    BY <1>1 DEF WInv
  <2>3. /\ k[1] \in Jobs /\ Placement(k) \in job[k[1]].spec /\ Holds(k[1], Placement(k))
        /\ Placement(k).agent = a /\ Placement(k).rank = k[2]
    BY <2>1, <2>2, PlacementOf
  <2>4. /\ l[1] \in Jobs /\ Placement(l) \in job[l[1]].spec /\ Holds(l[1], Placement(l))
        /\ Placement(l).agent = b /\ Placement(l).rank = l[2]
    BY <2>1, <2>2, PlacementOf
  <2>5. k[1] = l[1] /\ Placement(k) = Placement(l)
    BY <1>1, <2>2, <2>3, <2>4 DEF IInv, Exclusive, DeviceExclusive, GpuExclusive
  <2>6. k = <<k[1], k[2]>> /\ l = <<l[1], l[2]>>
    BY DEF Keys
  <2>. QED
    BY <2>3, <2>4, <2>5, <2>6
<1>2. WInv /\ Covered => OneProcessPerDevice
  BY <1>1 DEF OneProcessPerDevice
<1>. QED
  BY <1>2, CoveredAlways, WorkersInvariant, PTL

\* The premise holds where the service handles a request within the sender's timeout
\* or not at all.
THEOREM NothingLateEnds == MaxLate = 0 /\ WorkersSpec => []NoLateEnds
<1> DEFINE NoneLate == MaxLate = 0 /\ late = {}
<1>1. MaxLate = 0 /\ WorkersInit => NoneLate
  BY DEF WorkersInit
<1>2. WInv /\ NoneLate /\ [WorkersNext]_allVars => NoneLate'
  <2>. SUFFICES ASSUME WInv, NoneLate, [WorkersNext]_allVars PROVE late' = {}
    OBVIOUS
  <2>1. ASSUME NEW a \in Agents,
               ObeyStop(a) \/ ObeyUnknown(a) \/ RefusePrepare(a) \/ ObeyTask(a)
        PROVE  late' = {}
    BY <2>1, ObeyCases DEF Obeys, Sends
  <2>2. ASSUME NEW a \in Agents,
               \/ ExpireLocalLease(a) \/ Poll(a) \/ PollAnswered(a) \/ StartWorker(a)
               \/ PollDenied(a) \/ WorkerStops(a)
               \/ \E k \in Keys : ChildExits(a, k)
        PROVE  late' = {}
    BY <2>2 DEF ExpireLocalLease, Poll, PollAnswered, StartWorker, PollDenied, WorkerStops,
                ChildExits, Leave
  <2>3. ASSUME OwnerCalls \/ Withdraw \/ ServiceReconciles \/ TimePasses \/ UNCHANGED allVars
        PROVE  late' = {}
    BY <2>3 DEF OwnerCalls, Withdraw, ServiceReconciles, TimePasses, allVars, workerVars
  <2>. QED
    BY <2>1, <2>2, <2>3 DEF WorkersNext, WorkerLoop
<1>3. NoneLate => NoLateEnds
  BY DEF NoLateEnds
<1> HIDE DEF NoneLate
<1>. QED
  BY <1>1, <1>2, <1>3, WorkersInvariant, PTL DEF WorkersSpec
=============================================================================
