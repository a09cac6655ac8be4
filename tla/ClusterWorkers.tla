--------------------------- MODULE ClusterWorkers ---------------------------
(***************************************************************************)
(* The worker program of the cluster console (cluster_control/worker.py)   *)
(* beside the control service: every computer runs a loop that polls the   *)
(* service and obeys the commands of the reply one after the other, while  *)
(* the service, the owner and the other computers go on.  Requests and     *)
(* replies can be lost, workers can stop and come back, and the training   *)
(* processes the worker starts exit by themselves.                         *)
(*                                                                         *)
(* Jobs are numbered in the order of their creation, which is the order in *)
(* which a poll lists their commands.                                      *)
(***************************************************************************)
EXTENDS ClusterControl, Sequences

CONSTANTS
  LocallyShared,  \* [Agents -> SUBSET Devices], the devices in the worker's state file
  Lease,          \* ticks without an answered poll after which a worker gives up (10 s)
  Slack,          \* ticks a request and the termination of a process can take
  MaxFaults,      \* bound: lost requests, lost replies and stops of workers
  MaxLate,        \* bound: requests the service handles after their sender gave up
  Withdrawals     \* bound: whether devices, computers and members are withdrawn

ASSUME WorkersAssumption ==
  /\ Jobs \subseteq Nat /\ IsFiniteSet(Jobs)
  /\ LocallyShared \in [Agents -> SUBSET Devices]
  /\ Lease \in Nat \ {0}
  /\ Slack \in Nat
  /\ Lease + 2 * Slack < OfflineAfter
  /\ MaxFaults \in Nat
  /\ MaxLate \in Nat
  /\ Withdrawals \in BOOLEAN

VARIABLES
  phase,    \* where the loop of a worker is
  inbox,    \* the commands of the last poll that are still to be obeyed
  task,     \* Worker.executions
  lost,     \* Worker.lost
  contact,  \* the age of Worker.run's last_contact
  late,     \* reports still on their way although their sender gave up
  begun,    \* history: the processes ever started, by kind and rank
  faults    \* how many faults have happened

workerVars == <<phase, inbox, task, lost, contact, late, begun, faults>>
allVars == <<vars, workerVars>>

Keys == Jobs \X Ranks
Final == {"succeeded", "failed", "stopped"}

\* An Execution and its subprocess: the preflight run while state is
\* "preparing", the training run while it is "running".
Task == [state    : {"none", "preparing", "ready", "running"} \cup Final,
         reported : {"none", "ready", "running"},
         child    : {"none", "alive", "good", "bad"}]

NoTask == [state |-> "none", reported |-> "none", child |-> "none"]

PendingCommand == [action : {"prepare", "wait", "run", "stop"}, job : Jobs, rank : Ranks,
             allowed : BOOLEAN]

WorkersTypeOK ==
  /\ TypeOK
  /\ phase \in [Agents -> {"off", "loop", "polled", "commands"}]
  /\ inbox \in [Agents -> Seq(PendingCommand)]
  /\ task \in [Agents -> [Keys -> Task]]
  /\ lost \in [Agents -> SUBSET Keys]
  /\ contact \in [Agents -> 0 .. (Lease + Slack)]
  /\ late \subseteq [agent : Agents, key : Keys, state : ReportStates]
  /\ begun \subseteq {"prepare", "run"} \X Keys
  /\ faults \in 0 .. MaxFaults

WorkersInit ==
  /\ Init
  /\ phase = [a \in Agents |-> "off"]
  /\ inbox = [a \in Agents |-> <<>>]
  /\ task = [a \in Agents |-> [k \in Keys |-> NoTask]]
  /\ lost = [a \in Agents |-> {}]
  /\ contact = [a \in Agents |-> 0]
  /\ late = {}
  /\ begun = {}
  /\ faults = 0

-----------------------------------------------------------------------------
(* The loop.                                                               *)

Tasks(a) == {k \in Keys : task[a][k].state # "none"}
LeaseOver(a) == contact[a] >= Lease

\* A fault uses up one of MaxFaults.
Fault == faults < MaxFaults /\ faults' = faults + 1

\* Leaving run(): every local process is stopped.
Leave(a) ==
  /\ phase' = [phase EXCEPT ![a] = "off"]
  /\ inbox' = [inbox EXCEPT ![a] = <<>>]
  /\ task' = [task EXCEPT ![a] = [k \in Keys |-> NoTask]]
  /\ lost' = [lost EXCEPT ![a] = {}]
  /\ contact' = [contact EXCEPT ![a] = 0]
  /\ UNCHANGED late

\* worker run: the inventory is sent first, then the loop is entered.
StartWorker(a) ==
  /\ phase[a] = "off"
  /\ \E caps \in Reports[a] : Heartbeat(a, caps)
  /\ phase' = [phase EXCEPT ![a] = "loop"]
  /\ UNCHANGED <<inbox, task, lost, contact, late, begun, faults>>

\* Ctrl+C or a crash of the computer.
WorkerStops(a) ==
  /\ phase[a] # "off"
  /\ Fault
  /\ Leave(a)
  /\ UNCHANGED <<vars, begun>>

\* expire_local_lease: after 10 s without an answered poll everything stops.
ExpireLocalLease(a) ==
  /\ phase[a] = "loop" /\ LeaseOver(a) /\ Tasks(a) # {}
  /\ task' = [task EXCEPT ![a] = [k \in Keys |-> NoTask]]
  /\ lost' = [lost EXCEPT ![a] = @ \cup Tasks(a)]
  /\ UNCHANGED <<vars, phase, inbox, contact, late, begun, faults>>

Before(c, d) == c.job < d.job \/ (c.job = d.job /\ c.rank < d.rank)

\* What the reply says: the commands of the calling computer, and for each whether
\* the assigned device is shared by the worker's own state file and by the service.
Answers(a) ==
  LET DeviceOf(c) == (CHOOSE x \in job'[c.job].spec : x.rank = c.rank).device
      allowed(c) == DeviceOf(c) \in LocallyShared[a] \cap agent'[a].shared
  IN {[action |-> c.action, job |-> c.job, rank |-> c.rank, allowed |-> allowed(c)] :
        c \in Commands(a, job')}

\* The reply lists them in the order of creation.
Replies(a) ==
  {q \in [1 .. Cardinality(Answers(a)) -> Answers(a)] :
     \A m, n \in DOMAIN q : m < n => Before(q[m], q[n])}

Poll(a) ==
  /\ phase[a] = "loop"
  /\ ~(LeaseOver(a) /\ Tasks(a) # {})
  /\ PollWorker(a)
  /\ \/ /\ phase' = [phase EXCEPT ![a] = "polled"]
        /\ \E q \in Replies(a) : inbox' = [inbox EXCEPT ![a] = q]
        /\ UNCHANGED faults
     \/ Fault /\ UNCHANGED <<phase, inbox>>   \* the reply is lost
  /\ UNCHANGED <<task, lost, contact, late, begun>>

\* 401 or 403: the worker stops all local training and ends.
PollDenied(a) ==
  /\ phase[a] = "loop"
  /\ ~Authorised(a)
  /\ Leave(a)
  /\ UNCHANGED <<vars, begun, faults>>

After(q) == IF q = <<>> THEN "loop" ELSE "commands"

PollAnswered(a) ==
  /\ phase[a] = "polled"
  /\ contact' = [contact EXCEPT ![a] = 0]
  /\ phase' = [phase EXCEPT ![a] = After(inbox[a])]
  /\ UNCHANGED <<vars, inbox, task, lost, late, begun, faults>>

-----------------------------------------------------------------------------
(* Obeying the first command of the inbox.                                 *)

First(a) == Head(inbox[a])
Key(a) == <<First(a).job, First(a).rank>>
Obeying(a) == phase[a] = "commands"

\* The command is done: k's task is t, the next command is taken.
Continue(a, t) ==
  /\ task' = [task EXCEPT ![a][Key(a)] = t]
  /\ inbox' = [inbox EXCEPT ![a] = Tail(@)]
  /\ phase' = [phase EXCEPT ![a] = After(Tail(inbox[a]))]
  /\ UNCHANGED contact

\* A request failed: the rest of the reply is dropped.
Abort(a, t) ==
  /\ task' = [task EXCEPT ![a][Key(a)] = t]
  /\ inbox' = [inbox EXCEPT ![a] = <<>>]
  /\ phase' = [phase EXCEPT ![a] = "loop"]
  /\ UNCHANGED <<lost, contact>>

\* Report state for the command's rank, whose task is t by now, and go on with
\* done if the service accepts it.
ReportAnd(a, state, t, done) ==
  LET j == Key(a)[1]  r == Key(a)[2]
      known == Authorised(a) /\ Assigned(a, j, r)
  IN
  \/ \* accepted
     /\ ReportWorker(a, j, r, state)
     /\ Continue(a, done)
     /\ lost' = [lost EXCEPT ![a] = IF state = "stopped" THEN @ \ {Key(a)} ELSE @]
     /\ UNCHANGED <<late, faults>>
  \/ \* 409
     /\ known /\ ReportRefused(j, r, state)
     /\ Abort(a, t)
     /\ UNCHANGED <<vars, late, faults>>
  \/ \* 401 or 403
     /\ ~known
     /\ Leave(a)
     /\ UNCHANGED <<vars, faults>>
  \/ \* no answer in time: the request is lost, or its answer is, or it is late
     /\ Fault
     /\ Abort(a, t)
     /\ \/ UNCHANGED <<vars, late>>
        \/ ReportWorker(a, j, r, state) /\ UNCHANGED late
        \/ /\ Cardinality(late) < MaxLate
           /\ late' = late \cup {[agent |-> a, key |-> Key(a), state |-> state]}
           /\ UNCHANGED vars

\* Mutant of ObeyStop: the worker reports before it kills the process.
ReportThenStop(a) ==
  /\ Obeying(a) /\ First(a).action = "stop"
  /\ ReportAnd(a, "stopped", task[a][Key(a)], NoTask)
  /\ UNCHANGED begun

\* Mutant of ObeyStop: a stop of a rank without a task is not acknowledged.
StopOwnTask(a) ==
  LET t == task[a][Key(a)] IN
  /\ Obeying(a) /\ First(a).action = "stop"
  /\ \/ t # NoTask /\ ReportAnd(a, "stopped", [t EXCEPT !.state = "stopped", !.child = "none"], NoTask)
     \/ t = NoTask /\ Continue(a, t) /\ UNCHANGED <<vars, lost, late, faults>>
  /\ UNCHANGED begun

\* "stop": the process group is killed, then the worker reports, with or
\* without a task of its own.
ObeyStop(a) ==
  LET t == task[a][Key(a)] IN
  /\ Obeying(a) /\ First(a).action = "stop"
  /\ ReportAnd(a, "stopped",
               IF t = NoTask THEN NoTask ELSE [t EXCEPT !.state = "stopped", !.child = "none"],
               NoTask)
  /\ UNCHANGED begun

\* A rank the worker gave up, or knows nothing of, is reported as failed.
ObeyUnknown(a) ==
  /\ Obeying(a) /\ First(a).action # "stop"
  /\ \/ Key(a) \in lost[a]
     \/ task[a][Key(a)] = NoTask /\ First(a).action # "prepare"
  /\ ReportAnd(a, "failed", task[a][Key(a)], task[a][Key(a)])
  /\ UNCHANGED begun

\* A new rank whose device is not shared on both sides, or whose preflight
\* process cannot be started.
RefusePrepare(a) ==
  /\ Obeying(a) /\ First(a).action = "prepare"
  /\ Key(a) \notin lost[a] /\ task[a][Key(a)] = NoTask
  /\ ReportAnd(a, "failed", NoTask, NoTask)
  /\ UNCHANGED begun

\* Mutant of Advanced: training starts without waiting for the command.
AdvancedEagerly(t, action) ==
  IF t.state = "preparing" /\ t.child = "good"
  THEN [t EXCEPT !.state = "running", !.child = "alive", !.reported = "ready"]
  ELSE t

\* Execution.advance for an action other than "stop".
Advanced(t, action) ==
  LET p == IF t.state = "preparing" /\ t.child # "alive"
           THEN [t EXCEPT !.state = IF t.child = "good" THEN "ready" ELSE "failed"]
           ELSE t
  IN CASE action = "run" /\ p.state = "ready" /\ p.reported = "ready" ->
            [p EXCEPT !.state = "running", !.child = "alive"]
       [] p.state = "running" /\ p.child # "alive" ->
            [p EXCEPT !.state = IF p.child = "good" THEN "succeeded" ELSE "failed"]
       [] OTHER -> p

\* Only a command to prepare creates a task; its mutant takes any.
MayBeginAnyTime(a) == First(a).allowed
MayBegin(a) == First(a).action = "prepare" /\ First(a).allowed

Fresh == [state |-> "preparing", reported |-> "none", child |-> "alive"]

\* The task advances and reports.  For a new rank it is created first, with its
\* preflight process.
ObeyTask(a) ==
  LET begins == task[a][Key(a)] = NoTask
      old == IF begins THEN Fresh ELSE task[a][Key(a)]
      new == Advanced(old, First(a).action)
      starts == new.state = "running" /\ old.state # "running"
      done == IF new.state \in Final THEN NoTask ELSE [new EXCEPT !.reported = new.state]
  IN
  /\ Obeying(a) /\ First(a).action # "stop"
  /\ Key(a) \notin lost[a]
  /\ begins => MayBegin(a)
  /\ \/ /\ new.state \in {"preparing", new.reported}    \* nothing to report, or only progress
        /\ \/ Continue(a, new) /\ UNCHANGED <<vars, lost, late, faults>>
           \/ ReportAnd(a, "progress", new, new)
     \/ /\ new.state \notin {"preparing", new.reported}
        /\ ReportAnd(a, new.state, new, done)
     \/ /\ starts                                       \* Popen raises
        /\ Abort(a, [new EXCEPT !.child = "bad"])
        /\ UNCHANGED <<vars, late, faults>>
  /\ begun' = begun \cup {<<"prepare", k>> : k \in IF begins THEN {Key(a)} ELSE {}}
                   \cup {<<"run", k>> : k \in IF starts THEN {Key(a)} ELSE {}}

-----------------------------------------------------------------------------
(* The environment: processes, late requests, the clock, the console.      *)

ChildExits(a, k) ==
  /\ task[a][k].child = "alive"
  /\ \E code \in {"good", "bad"} : task' = [task EXCEPT ![a][k].child = code]
  /\ UNCHANGED <<vars, phase, inbox, lost, contact, late, begun, faults>>

\* The service handles a request nobody waits for any more.
LateReport(q) ==
  LET j == q.key[1]  r == q.key[2] IN
  /\ \/ ReportWorker(q.agent, j, r, q.state)
     \/ /\ ~(Authorised(q.agent) /\ Assigned(q.agent, j, r)) \/ ReportRefused(j, r, q.state)
        /\ UNCHANGED vars
  /\ late' = late \ {q}
  /\ UNCHANGED <<phase, inbox, task, lost, contact, begun, faults>>

\* Requests, their answers and the killing of a process take at most Slack ticks.
Timely(a) ==
  /\ Tasks(a) # {} \/ phase[a] = "commands" => contact[a] < Lease + Slack
  /\ phase[a] = "polled" /\ agent[a].row = "paired" => agent[a].silence < Slack

TimePasses ==
  /\ \A a \in Agents : Timely(a)
  /\ Tick
  /\ contact' = [a \in Agents |->
       IF phase[a] # "off" /\ contact[a] < Lease + Slack THEN contact[a] + 1 ELSE contact[a]]
  /\ UNCHANGED <<phase, inbox, task, lost, late, begun, faults>>

\* Jobs are named in the order of their creation.
InOrder == \A j, k \in Jobs : k < j /\ job'[j].status # "none" => job'[k].status # "none"

OwnerCalls == OwnerCall /\ InOrder /\ UNCHANGED workerVars

Withdraw ==
  /\ Withdrawals
  /\ \/ \E a \in Agents :
          \/ \E enabled \in BOOLEAN : SetSharing(a, agent[a].caps.devices, enabled)
          \/ DeleteAgent(a)
     \/ \E c \in Clusters, u \in Users : Approve(c, u) \/ Expel(c, u, "revoked")
  /\ UNCHANGED workerVars

ServiceReconciles == Reconcile /\ UNCHANGED workerVars

\* What the loop of a running worker does by itself.
WorkerLoop(a) ==
  \/ ExpireLocalLease(a)
  \/ Poll(a)
  \/ PollDenied(a)
  \/ PollAnswered(a)
  \/ ObeyStop(a)
  \/ ObeyUnknown(a)
  \/ RefusePrepare(a)
  \/ ObeyTask(a)

WorkersNext ==
  \/ OwnerCalls
  \/ Withdraw
  \/ ServiceReconciles
  \/ TimePasses
  \/ \E a \in Agents :
       \/ WorkerLoop(a)
       \/ StartWorker(a)
       \/ WorkerStops(a)
       \/ \E k \in Keys : ChildExits(a, k)
  \/ \E q \in late : LateReport(q)

WorkersSpec == WorkersInit /\ [][WorkersNext]_allVars

\* The loop of a running worker goes on, the service reconciles, time passes.
WorkersFairSpec ==
  /\ WorkersSpec
  /\ \A a \in Agents : WF_allVars(WorkerLoop(a))
  /\ WF_allVars(ServiceReconciles)
  /\ WF_allVars(TimePasses)

-----------------------------------------------------------------------------
(* Properties.                                                             *)

Alive(a, k) == task[a][k].child = "alive"
Placement(k) == CHOOSE x \in job[k[1]].spec : x.rank = k[2]

\* The service's view of a rank covers its process: as long as a process of a
\* rank is alive on a computer of the cluster, its row reserves the device.
ReservationCoversProcess ==
  \A a \in Agents, k \in Keys :
    Alive(a, k) /\ agent[a].row = "paired" => Row(k[1], k[2]) \in Held

\* The documented form, which makes no exception for removed computers: "A
\* reservation remains held until the worker acknowledges termination, or its
\* lease expires" (CLUSTER_CONSOLE.md).
ReservationHeldUntilStopped ==
  \A a \in Agents, k \in Keys : Alive(a, k) => Row(k[1], k[2]) \in Held

\* No two processes ever use one device at a time, whatever is lost or stopped.
OneProcessPerDevice ==
  \A a, b \in Agents, k, l \in Keys :
    /\ Alive(a, k) /\ agent[a].row = "paired"
    /\ Alive(b, l) /\ agent[b].row = "paired"
    /\ \/ a = b /\ Placement(k).device = Placement(l).device
       \/ /\ Placement(k).device \in GpuDevices
          /\ Placement(k).device = Placement(l).device
          /\ Placement(k).host = Placement(l).host
    => a = b /\ k = l

\* "Training starts only after every rank reports ready": while a rank trains no
\* rank of its job is still preparing, even if the command is stale.
TrainsAfterAllReady ==
  \A a \in Agents, k \in Keys :
    task[a][k].state = "running" =>
      \A r \in Ranks : Row(k[1], r) \notin {"pending", "preparing"}

\* A rank never trains twice: no restart of a worker and no lost request starts
\* its training from scratch.
TrainsOnce ==
  [][\A a \in Agents, k \in Keys :
       task[a][k].state # "running" /\ task'[a][k].state = "running" => <<"run", k>> \notin begun]_allVars

\* "A worker restart during an active job fails that job; it cannot silently start
\* a rank from scratch" (CLUSTER_CONSOLE.md): what was once started for a rank,
\* its preflight included, is never started again.
NothingFromScratch ==
  [][\A a \in Agents, k \in Keys :
       task[a][k] = NoTask /\ task'[a][k] # NoTask => <<"prepare", k>> \notin begun]_allVars

\* Every call of a worker is one the service's own specification allows.
WorkersObeyControl == Spec

\* A rank that is told to stop is stopped in the end: the worker stops it, or its
\* silence releases it.
StopCompletes ==
  \A k \in Keys : Row(k[1], k[2]) = "stopping" ~> Row(k[1], k[2]) # "stopping"
=============================================================================
