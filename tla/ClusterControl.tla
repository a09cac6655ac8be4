--------------------------- MODULE ClusterControl ---------------------------
(***************************************************************************)
(* The control service of the cluster console: cluster_control/service.py  *)
(* over the tables of cluster_control/store.py.  Every call of the service *)
(* runs inside one serialized SQLite transaction that is rolled back when  *)
(* it raises, so every handler is one atomic action, and a handler that    *)
(* raises is a stuttering step.                                            *)
(*                                                                         *)
(* Time is counted in ticks.  The service compares clock readings only     *)
(* with agents.last_seen, jobs.updated and pairing_codes.expires, so the   *)
(* model keeps the age of each of them, saturated where the comparisons    *)
(* can no longer change.                                                   *)
(***************************************************************************)
EXTENDS Naturals, FiniteSets

CONSTANTS
  Users, Clusters,
  OwnerOf,        \* [Clusters -> Users], clusters.owner_id
  Agents,         \* identities an agents row can have; an identity is never reused
  UserOf,         \* [Agents -> Users], agents.user_id
  ClusterOf,      \* [Agents -> Clusters], agents.cluster_id
  AddressOf,      \* agents.address, by agent
  Hosts,          \* machine identities (capabilities.host_id)
  Devices,        \* device ids, unique within a machine
  GpuDevices,     \* those whose backend is cuda or mps
  Reports,        \* [Agents -> SUBSET Capabilities]: inventories a machine may report
  Ports, Jobs, Codes,
  MaxWorld,       \* bound: ranks of a job
  OfflineAfter,   \* ticks of silence after which an agent is offline (30 s)
  PrepTimeout,    \* ticks a job may prepare (config.timeout_seconds)
  CodeLife,       \* ticks a pairing code is valid (600 s)
  Members0,       \* <<cluster, user>> pairs approved in the initial database
  Agents0         \* agents paired, online and sharing everything in it

Ranks == 0 .. (MaxWorld - 1)
Capabilities == [host : Hosts, devices : SUBSET Devices]

ASSUME ConstantsAssumption ==
  /\ OwnerOf \in [Clusters -> Users]
  /\ UserOf \in [Agents -> Users]
  /\ ClusterOf \in [Agents -> Clusters]
  /\ DOMAIN AddressOf = Agents
  /\ GpuDevices \subseteq Devices
  /\ Reports \in [Agents -> (SUBSET Capabilities) \ {{}}]
  /\ MaxWorld \in Nat \ {0}
  /\ OfflineAfter \in Nat \ {0}
  /\ PrepTimeout \in Nat
  /\ CodeLife \in Nat \ {0}
  /\ Members0 \subseteq Clusters \X Users
  /\ \A m \in Members0 : <<m[1], OwnerOf[m[1]]>> \in Members0
  /\ Agents0 \subseteq Agents
  /\ \A a \in Agents0 : <<ClusterOf[a], UserOf[a]>> \in Members0

VARIABLES
  membership,  \* the memberships table; the owner's row exists iff the cluster does
  codes,       \* the pairing_codes table
  agent,       \* the agents table
  job          \* the jobs table with its assignments

vars == <<membership, codes, agent, job>>

MemberStatus == {"none", "pending", "approved", "rejected", "revoked"}
JobStatus == {"none", "draft", "preparing", "running", "cancelling",
              "completed", "cancelled", "failed"}
Held == {"preparing", "ready", "running", "stopping"}  \* states that reserve a device
Finished == {"succeeded", "failed", "stopped"}
RowState == {"none", "pending"} \cup Held \cup Finished

AgentRow == [row     : {"new", "paired", "deleted"},
             token   : BOOLEAN,
             enabled : BOOLEAN,
             shared  : SUBSET Devices,
             caps    : Capabilities,
             silence : 0 .. OfflineAfter]

(* One entry of spec["assignments"], the placement frozen at creation.     *)
Assignment == [rank : Ranks, agent : Agents, device : Devices, host : Hosts]

Urls == {<<AddressOf[a], p>> : a \in Agents, p \in Ports}

JobRow == [status : JobStatus,
           spec   : SUBSET Assignment,
           url    : Urls \cup {<<>>},
           row    : [Ranks -> RowState],   \* assignments.state by rank
           age    : 0 .. (PrepTimeout + 1)]

NoJob == [status |-> "none", spec |-> {}, url |-> <<>>,
          row |-> [r \in Ranks |-> "none"], age |-> 0]

PairingCode == [id : Codes, cluster : Clusters, user : Users, left : 0 .. CodeLife]

TypeOK ==
  /\ membership \in [Clusters -> [Users -> MemberStatus]]
  /\ codes \subseteq PairingCode
  /\ agent \in [Agents -> AgentRow]
  /\ job \in [Jobs -> JobRow]

Init ==
  /\ membership = [c \in Clusters |-> [u \in Users |->
                     IF <<c, u>> \in Members0 THEN "approved" ELSE "none"]]
  /\ codes = {}
  /\ agent \in [Agents -> AgentRow]
  /\ \A a \in Agents :
       LET on == a \in Agents0 IN
       /\ agent[a].row = IF on THEN "paired" ELSE "new"
       /\ agent[a].token = on
       /\ agent[a].enabled = on
       /\ agent[a].caps \in Reports[a]
       /\ agent[a].shared = IF on THEN agent[a].caps.devices ELSE {}
       /\ agent[a].silence = 0
  /\ job = [j \in Jobs |-> NoJob]

-----------------------------------------------------------------------------
(* Helpers shared by the handlers; each maps a job's tables to new tables. *)

\* _member, for an approved member of any role.
Member(c, u) == membership[c][u] = "approved"
Founded(c) == membership[c][OwnerOf[c]] = "approved"

\* _agent: the bearer token is the one stored and its user is still a member.
Authorised(a) ==
  /\ agent[a].row = "paired"
  /\ agent[a].token
  /\ Member(ClusterOf[a], UserOf[a])

Silent(a) == agent[a].silence >= OfflineAfter

\* The job's assignment rows placed on agent a.
RowsOn(J, a) == {x \in J.spec : x.agent = a /\ J.row[x.rank] # "none"}

\* Mutant of Stopped: ranks that already reported ready are not told to stop.
StoppedButReady(J, newStatus) ==
  [J EXCEPT !.status = newStatus,
            !.age = 0,
            !.row = [r \in Ranks |->
                       IF J.row[r] \in {"preparing", "running"} THEN "stopping" ELSE J.row[r]]]

\* _stop: the job takes the status, every unfinished rank is told to stop.
Stopped(J, newStatus) ==
  [J EXCEPT !.status = newStatus,
            !.age = 0,
            !.row = [r \in Ranks |->
                       IF J.row[r] \in Finished \cup {"none"} THEN J.row[r] ELSE "stopping"]]

\* Mutant of Hit: a job that is still preparing is overlooked.
HitRunning(J, a, removed) ==
  /\ J.status = "running"
  /\ \E x \in RowsOn(J, a) : x.device \in removed

\* An active job with a rank on one of a's removed devices.
Hit(J, a, removed) ==
  /\ J.status \in {"preparing", "running"}
  /\ \E x \in RowsOn(J, a) : x.device \in removed

\* _withdraw
Withdrawn(J, a, removed) == IF Hit(J, a, removed) THEN Stopped(J, "failed") ELSE J

\* The rank of J runs on an agent that is offline according to the table ag.
OnSilentAgent(J, r, ag) ==
  \E x \in J.spec : x.rank = r /\ ag[x.agent].silence >= OfflineAfter

\* Mutant of Expired: no timeout of the preparation.
ExpiredSilent(J, ag) ==
  /\ J.status \in {"preparing", "running"}
  /\ \E r \in Ranks : J.row[r] \notin Finished \cup {"none"} /\ OnSilentAgent(J, r, ag)

\* First half of _reconcile: lost heartbeats and preparation timeouts.
Expired(J, ag) ==
  \/ /\ J.status \in {"preparing", "running"}
     /\ \E r \in Ranks : J.row[r] \notin Finished \cup {"none"} /\ OnSilentAgent(J, r, ag)
  \/ J.status = "preparing" /\ J.age > PrepTimeout

\* Mutant of Released: a stopping rank is released at once.
ReleasedEagerly(J, ag) ==
  [J EXCEPT !.row = [r \in Ranks |-> IF J.row[r] = "stopping" THEN "stopped" ELSE J.row[r]]]

\* Second half: a stopping rank of an agent silent for 30 s is released.
Released(J, ag) ==
  [J EXCEPT !.row = [r \in Ranks |->
     IF J.row[r] = "stopping" /\ OnSilentAgent(J, r, ag) THEN "stopped" ELSE J.row[r]]]

\* The jobs _reconcile looks at; its mutant forgets those that failed.
UnsettledActive(J) == J.status \in {"preparing", "running", "cancelling"}
Unsettled(J) == J.status \in {"preparing", "running", "cancelling", "failed"}

\* The body of _reconcile's loop for one job.
Reconciled(J, ag) ==
  LET released == Released(IF Expired(J, ag) THEN Stopped(J, "failed") ELSE J, ag) IN
  IF ~Unsettled(J) THEN J
  ELSE IF J.status = "cancelling" /\ \A r \in Ranks : released.row[r] # "stopping"
  THEN [released EXCEPT !.status = "cancelled"]
  ELSE released

\* _reconcile over the whole database.
ReconciledJobs(jobs, ag) == [j \in Jobs |-> Reconciled(jobs[j], ag)]

\* UPDATE agents SET last_seen=now
Seen(a) == [agent EXCEPT ![a].silence = 0]

-----------------------------------------------------------------------------
(* Clusters and memberships.                                               *)

CreateCluster(c) ==
  /\ ~Founded(c)
  /\ membership' = [membership EXCEPT ![c][OwnerOf[c]] = "approved"]
  /\ UNCHANGED <<codes, agent, job>>

RequestJoin(c, u) ==
  /\ Founded(c)
  /\ membership[c][u] \notin {"approved", "pending"}
  /\ membership' = [membership EXCEPT ![c][u] = "pending"]
  /\ UNCHANGED <<codes, agent, job>>

\* Mutant of Approve: a member who is approved again gets the old tokens back.
ApproveRestoring(c, u) ==
  /\ Founded(c)
  /\ u # OwnerOf[c]
  /\ membership[c][u] # "none"
  /\ membership' = [membership EXCEPT ![c][u] = "approved"]
  /\ agent' = [a \in Agents |-> IF ClusterOf[a] = c /\ UserOf[a] = u /\ agent[a].row = "paired"
                                THEN [agent[a] EXCEPT !.token = TRUE] ELSE agent[a]]
  /\ UNCHANGED <<codes, job>>

\* decide_membership by the cluster's owner, decision "approve".
Approve(c, u) ==
  /\ Founded(c)
  /\ u # OwnerOf[c]
  /\ membership[c][u] # "none"
  /\ membership' = [membership EXCEPT ![c][u] = "approved"]
  /\ UNCHANGED <<codes, agent, job>>

\* The pairing codes left when c's member u is expelled; the mutant keeps all.
CodesKept(c, u) == codes
CodesWithout(c, u) == {k \in codes : ~(k.cluster = c /\ k.user = u)}

\* decide_membership, "reject" or "revoke": the member's agents are withdrawn
\* from active jobs and locked out, the member's pairing codes are deleted.
Expel(c, u, newStatus) ==
  LET theirs == {a \in Agents : /\ agent[a].row = "paired"
                                /\ ClusterOf[a] = c /\ UserOf[a] = u}
      hit(J) == \E a \in theirs : Hit(J, a, Devices)
  IN
  /\ Founded(c)
  /\ u # OwnerOf[c]
  /\ membership[c][u] # "none"
  /\ membership' = [membership EXCEPT ![c][u] = newStatus]
  /\ agent' = [a \in Agents |->
                 IF a \in theirs
                 THEN [agent[a] EXCEPT !.token = FALSE, !.enabled = FALSE, !.shared = {}]
                 ELSE agent[a]]
  /\ job' = [j \in Jobs |-> IF hit(job[j]) THEN Stopped(job[j], "failed") ELSE job[j]]
  /\ codes' = CodesWithout(c, u)

-----------------------------------------------------------------------------
(* Agents: pairing, sharing, removal, heartbeats.                          *)

CreatePairing(id, c, u) ==
  /\ Member(c, u)
  /\ \A k \in codes : k.id # id
  /\ codes' = {k \in codes : k.left > 0}
              \cup {[id |-> id, cluster |-> c, user |-> u, left |-> CodeLife]}
  /\ UNCHANGED <<membership, agent, job>>

PairAgent(a, k, caps, shared) ==
  /\ agent[a].row = "new"
  /\ k.left > 0
  /\ k.cluster = ClusterOf[a] /\ k.user = UserOf[a]
  /\ shared \subseteq caps.devices
  /\ Member(k.cluster, k.user)
  /\ codes' = codes \ {k}
  /\ agent' = [agent EXCEPT ![a] =
                 [row |-> "paired", token |-> TRUE, enabled |-> TRUE,
                  shared |-> shared, caps |-> caps, silence |-> 0]]
  /\ UNCHANGED <<membership, job>>

SetSharing(a, shared, enabled) ==
  LET removed == IF enabled THEN agent[a].shared \ shared ELSE Devices IN
  /\ agent[a].row = "paired"
  /\ Member(ClusterOf[a], UserOf[a])
  /\ shared \subseteq agent[a].caps.devices
  /\ agent' = [agent EXCEPT ![a].shared = shared, ![a].enabled = enabled]
  /\ job' = [j \in Jobs |-> Withdrawn(job[j], a, removed)]
  /\ UNCHANGED <<membership, codes>>

\* The agents row and all its assignments go, whatever their jobs' status.
DeleteAgent(a) ==
  LET forget(J) == [J EXCEPT !.row = [r \in Ranks |->
                      IF \E x \in J.spec : x.rank = r /\ x.agent = a
                      THEN "none" ELSE J.row[r]]]
  IN
  /\ agent[a].row = "paired"
  /\ \E u \in {UserOf[a], OwnerOf[ClusterOf[a]]} : Member(ClusterOf[a], u)
  /\ job' = [j \in Jobs |-> forget(Withdrawn(job[j], a, Devices))]
  /\ agent' = [agent EXCEPT ![a].row = "deleted", ![a].token = FALSE,
                            ![a].enabled = FALSE, ![a].shared = {}, ![a].silence = 0]
  /\ UNCHANGED <<membership, codes>>

\* heartbeat with the worker's inventory, sent when the worker starts.
Heartbeat(a, caps) ==
  /\ Authorised(a)
  /\ job' = IF caps # agent[a].caps
            THEN [j \in Jobs |-> Withdrawn(job[j], a, Devices)]
            ELSE job
  /\ agent' = [agent EXCEPT ![a].caps = caps,
                            ![a].shared = @ \cap caps.devices,
                            ![a].silence = 0]
  /\ UNCHANGED <<membership, codes>>

-----------------------------------------------------------------------------
(* Jobs: preview, creation, start, cancellation.                           *)

\* The agent of x can take it now: what _preview asks of one selected device.
Eligible(x) ==
  LET a == agent[x.agent] IN
  /\ a.row = "paired"
  /\ Member(ClusterOf[x.agent], UserOf[x.agent])
  /\ a.enabled
  /\ ~Silent(x.agent)
  /\ x.device \in a.caps.devices \cap a.shared
  /\ x.host = a.caps.host

\* _preview: distinct devices of one cluster, a physical GPU at most once.
PreviewOk(S) ==
  /\ \A x \in S : Eligible(x)
  /\ \A x, y \in S : ClusterOf[x.agent] = ClusterOf[y.agent]
  /\ \A x, y \in S : x # y =>
        /\ <<x.agent, x.device>> # <<y.agent, y.device>>
        /\ ~(x.device \in GpuDevices /\ <<x.host, x.device>> = <<y.host, y.device>>)

\* The placements an owner can ask for: ranks 0 .. n-1 on some devices.
Selections ==
  {{[rank |-> r, agent |-> s[r][1], device |-> s[r][2], host |-> agent[s[r][1]].caps.host] :
      r \in DOMAIN s} :
     s \in UNION {[0 .. (n - 1) -> Agents \X Devices] : n \in 1 .. MaxWorld}}

CreateJob(j, port) ==
  /\ job[j].status = "none"
  /\ \E S \in Selections : \E x \in S :
       /\ PreviewOk(S)
       /\ x.rank = 0
       /\ job' = [job EXCEPT ![j] =
            [status |-> "draft", spec |-> S, url |-> <<AddressOf[x.agent], port>>, age |-> 0,
             row |-> [r \in Ranks |-> IF \E y \in S : y.rank = r THEN "pending" ELSE "none"]]]
  /\ UNCHANGED <<membership, codes, agent>>

Holding(J) == \E r \in Ranks : J.row[r] \in Held

\* Mutant of Reserves: a rank that is being stopped no longer counts.
ReservesLive(K, x) ==
  \E y \in K.spec : /\ K.row[y.rank] \in Held \ {"stopping"}
                    /\ y.agent = x.agent /\ y.device = x.device

\* The device of x is reserved by a held rank of job K.
Reserves(K, x) ==
  \E y \in K.spec : /\ K.row[y.rank] \in Held
                    /\ y.agent = x.agent /\ y.device = x.device

\* Mutant of ShareGpu: a GPU is told apart by the agent that reports it.
ShareGpuOfAgent(J, K) ==
  \E x \in J.spec, y \in K.spec :
    /\ x.device \in GpuDevices
    /\ <<x.agent, x.device>> = <<y.agent, y.device>>

\* The specs of J and K place a rank on the same physical GPU.
ShareGpu(J, K) ==
  \E x \in J.spec, y \in K.spec :
    /\ x.device \in GpuDevices
    /\ <<x.host, x.device>> = <<y.host, y.device>>

\* J cannot run beside K, which holds something; the mutant compares GPUs only.
ClashesOnGpu(J, K) == ShareGpu(J, K)
Clashes(J, K) == K.url = J.url \/ ShareGpu(J, K)

StartJob(j) ==
  /\ job[j].status = "draft"
  /\ PreviewOk(job[j].spec)
  /\ \A k \in Jobs : \A x \in job[j].spec : ~Reserves(job[k], x)
  /\ \A k \in Jobs : Holding(job[k]) => ~Clashes(job[j], job[k])
  /\ job' = [job EXCEPT ![j].status = "preparing",
                        ![j].age = 0,
                        ![j].row = [r \in Ranks |->
                           IF job[j].row[r] = "none" THEN "none" ELSE "preparing"]]
  /\ UNCHANGED <<membership, codes, agent>>

\* Mutant of CancelJob: stops the job whatever its status.
CancelAnyJob(j) ==
  /\ job[j].status # "none"
  /\ job' = [job EXCEPT ![j] = Stopped(job[j], "cancelling")]
  /\ UNCHANGED <<membership, codes, agent>>

CancelJob(j) ==
  /\ \/ /\ job[j].status = "draft"
        /\ job' = [job EXCEPT ![j].status = "cancelled"]
     \/ /\ job[j].status \in {"preparing", "running"}
        /\ job' = [job EXCEPT ![j] = Stopped(job[j], "cancelling")]
  /\ UNCHANGED <<membership, codes, agent>>

\* reconcile(), run by the server's accept loop (ControlServer.service_actions).
Reconcile ==
  /\ job' = ReconciledJobs(job, agent)
  /\ UNCHANGED <<membership, codes, agent>>

-----------------------------------------------------------------------------
(* The workers' calls.                                                     *)

PollWorker(a) ==
  /\ Authorised(a)
  /\ job' = ReconciledJobs(job, agent)
  /\ agent' = Seen(a)
  /\ UNCHANGED <<membership, codes>>

\* The commands a poll returns, read from the database it leaves behind.
Command(J, x) ==
  CASE J.row[x.rank] = "stopping" -> "stop"
    [] J.row[x.rank] # "stopping" /\ J.status = "running" -> "run"
    [] J.row[x.rank] = "preparing" /\ J.status # "running" -> "prepare"
    [] OTHER -> "wait"

\* Mutant of Commands: every unfinished rank gets one.
CommandsUnfinished(a, jobs) ==
  UNION {{[action |-> Command(jobs[j], x), job |-> j, rank |-> x.rank] :
            x \in {y \in RowsOn(jobs[j], a) : jobs[j].row[y.rank] \notin Finished}} : j \in Jobs}

Commands(a, jobs) ==
  UNION {{[action |-> Command(jobs[j], x), job |-> j, rank |-> x.rank] :
            x \in {y \in RowsOn(jobs[j], a) : jobs[j].row[y.rank] \in Held}} : j \in Jobs}

Row(j, r) == job[j].row[r]
WithRow(j, r, newState) == [job EXCEPT ![j].row[r] = newState]
Others(j, r) == {s \in Ranks \ {r} : Row(j, s) # "none"}

\* report_worker finds the row: the rank is assigned to the calling agent.
Assigned(a, j, r) == \E x \in RowsOn(job[j], a) : x.rank = r

\* A report the service acknowledges without changing the job.
ReportNoted(a, j, r, state) ==
  \/ Row(j, r) \in Finished
  \/ state = "progress"
  \/ Row(j, r) = "ready" /\ state = "ready"

\* A report the service refuses with status 409, rolling everything back.
ReportRefused(j, r, state) ==
  /\ Row(j, r) \notin Finished \cup {"stopping"}
  /\ \/ /\ state = "ready"
        /\ Row(j, r) # "ready"
        /\ ~(Row(j, r) = "preparing" /\ job[j].status = "preparing")
     \/ /\ state = "running"
        /\ ~(Row(j, r) \in {"ready", "running"} /\ job[j].status = "running")
     \/ /\ state = "succeeded"
        /\ Row(j, r) # "running"

ReportStopping(a, j, r, state) ==
  /\ Row(j, r) = "stopping"
  /\ state # "progress"
  /\ job' = ReconciledJobs(IF state \in {"stopped", "failed", "succeeded"}
                           THEN WithRow(j, r, "stopped") ELSE job, Seen(a))

\* Mutant of ReportReady: the rank's own state is not checked.
ReportReadyAgain(j, r) ==
  /\ job[j].status \in {"preparing", "running"}
  /\ job' = IF \A s \in Others(j, r) : Row(j, s) = "ready"
            THEN [WithRow(j, r, "ready") EXCEPT ![j].status = "running", ![j].age = 0]
            ELSE WithRow(j, r, "ready")

ReportReady(j, r) ==
  /\ Row(j, r) = "preparing" /\ job[j].status = "preparing"
  /\ job' = IF \A s \in Others(j, r) : Row(j, s) = "ready"
            THEN [WithRow(j, r, "ready") EXCEPT ![j].status = "running", ![j].age = 0]
            ELSE WithRow(j, r, "ready")

\* Mutant of ReportRunning: stores a state the table does not know.
ReportRunningUnknown(j, r) ==
  /\ Row(j, r) \in {"ready", "running"} /\ job[j].status = "running"
  /\ job' = WithRow(j, r, "started")

ReportRunning(j, r) ==
  /\ Row(j, r) \in {"ready", "running"} /\ job[j].status = "running"
  /\ job' = WithRow(j, r, "running")

\* With exit code 0 and at least one completed step; any other is refused.
ReportSucceeded(j, r) ==
  /\ Row(j, r) = "running"
  /\ job' = IF \A s \in Others(j, r) : Row(j, s) = "succeeded"
            THEN [WithRow(j, r, "succeeded") EXCEPT ![j].status = "completed", ![j].age = 0]
            ELSE WithRow(j, r, "succeeded")

ReportFailed(j, r) ==
  /\ Row(j, r) \notin Finished \cup {"stopping"}
  /\ job' = [WithRow(j, r, "failed") EXCEPT ![j] = Stopped(@, "failed")]

\* report_worker
ReportWorker(a, j, r, state) ==
  /\ Authorised(a)
  /\ Assigned(a, j, r)
  /\ \/ ReportNoted(a, j, r, state) /\ UNCHANGED job
     \/ ReportStopping(a, j, r, state)
     \/ state = "ready" /\ ReportReady(j, r)
     \/ state = "running" /\ ReportRunning(j, r)
     \/ state = "succeeded" /\ ReportSucceeded(j, r)
     \/ state \in {"failed", "stopped"} /\ ReportFailed(j, r)
  /\ agent' = Seen(a)
  /\ UNCHANGED <<membership, codes>>

-----------------------------------------------------------------------------
\* One tick of the wall clock.
Tick ==
  /\ agent' = [a \in Agents |->
       IF agent[a].row = "paired" /\ ~Silent(a)
       THEN [agent[a] EXCEPT !.silence = @ + 1] ELSE agent[a]]
  /\ job' = [j \in Jobs |->
       IF job[j].status = "preparing" /\ job[j].age <= PrepTimeout
       THEN [job[j] EXCEPT !.age = @ + 1] ELSE job[j]]
  /\ codes' = {IF k.left > 0 THEN [k EXCEPT !.left = @ - 1] ELSE k : k \in codes}
  /\ UNCHANGED membership

ReportStates == {"ready", "running", "succeeded", "failed", "stopped", "progress"}

\* The worker program reports only ranks it was given a command for, and a
\* command exists only for a held rank; such a rank never turns pending again.
Commanded(j, r) == Row(j, r) # "pending"

Report(a, j, r, state) ==
  /\ Commanded(j, r)
  /\ ReportWorker(a, j, r, state)

\* The owner's calls about jobs.
OwnerCall ==
  \E j \in Jobs :
    \/ \E port \in Ports : CreateJob(j, port)
    \/ StartJob(j)
    \/ CancelJob(j)

Next ==
  \/ \E c \in Clusters : CreateCluster(c)
  \/ \E c \in Clusters, u \in Users :
       \/ RequestJoin(c, u)
       \/ Approve(c, u)
       \/ Expel(c, u, "rejected")
       \/ Expel(c, u, "revoked")
       \/ \E id \in Codes : CreatePairing(id, c, u)
  \/ \E a \in Agents :
       \/ \E k \in codes, caps \in Reports[a], shared \in SUBSET Devices :
            PairAgent(a, k, caps, shared)
       \/ \E shared \in SUBSET Devices, enabled \in BOOLEAN : SetSharing(a, shared, enabled)
       \/ DeleteAgent(a)
       \/ \E caps \in Reports[a] : Heartbeat(a, caps)
       \/ PollWorker(a)
       \/ \E j \in Jobs, r \in Ranks, state \in ReportStates : Report(a, j, r, state)
  \/ OwnerCall
  \/ Reconcile
  \/ Tick

Spec == Init /\ [][Next]_vars

\* The accept loop runs reconcile() at every poll interval, and time passes.
\* Nothing is assumed of owners, contributors or workers.
FairSpec == Spec /\ WF_vars(Reconcile) /\ WF_vars(Tick)

-----------------------------------------------------------------------------
(* Properties.                                                             *)

\* A rank of job j holds the device of x.
Holds(j, x) == x \in job[j].spec /\ Row(j, x.rank) \in Held

\* No device of an agent is reserved for two ranks, of one job or of two:
\* start_job looks at other jobs' rows before it turns its own to "preparing".
DeviceExclusive ==
  \A j, k \in Jobs : \A x \in job[j].spec, y \in job[k].spec :
    /\ Holds(j, x) /\ Holds(k, y)
    /\ x.agent = y.agent /\ x.device = y.device
    => j = k /\ x = y

\* "Separate agent identities cannot bypass a physical GPU reservation": a GPU
\* of a machine is reserved once, whichever agent identities its ranks use.
GpuExclusive ==
  \A j, k \in Jobs : \A x \in job[j].spec, y \in job[k].spec :
    /\ Holds(j, x) /\ Holds(k, y)
    /\ x.device \in GpuDevices
    /\ x.host = y.host /\ x.device = y.device
    => j = k /\ x = y

\* Two jobs that reserve anything never share the coordinator's address and port.
CoordinatorExclusive ==
  \A j, k \in Jobs : Holding(job[j]) /\ Holding(job[k]) /\ job[j].url = job[k].url => j = k

\* All rows of J are in one of the states of S.
RowsIn(J, S) == \A r \in Ranks : J.row[r] \in S \cup {"none"}

RowsAgree(J) ==
  /\ J.status = "none" => RowsIn(J, {})
  /\ J.status = "draft" => RowsIn(J, {"pending"})
  /\ J.status = "preparing" => /\ RowsIn(J, {"preparing", "ready"})
                               /\ \E r \in Ranks : J.row[r] = "preparing"
  /\ J.status = "running" => /\ RowsIn(J, {"ready", "running", "succeeded"})
                             /\ \E r \in Ranks : J.row[r] \in {"ready", "running"}
  /\ J.status \in {"cancelling", "failed"} => RowsIn(J, {"stopping"} \cup Finished)
  /\ J.status = "completed" => RowsIn(J, {"succeeded"})
  /\ J.status = "cancelled" => RowsIn(J, {"pending"} \cup Finished)

\* The rows of a job agree with its status: nothing is reserved by a draft, a
\* completed or a cancelled job, a running job has left "preparing" on every rank
\* and still has something to wait for, and a job that was stopped has only
\* stopping and finished ranks.
RowsFollowStatus == \A j \in Jobs : RowsAgree(job[j])

\* A preparing or running job has all its ranks, each on a computer that is still
\* there, whose contributor is a member, and that still shares the device: every
\* handler that withdraws one of these also fails the job.  (It does not follow
\* that the agent can authenticate: a member who was revoked and approved again
\* can re-enable an agent whose token is gone, and until it has been silent for
\* 30 s a job can be started on it.)
RunsOnConsent ==
  \A j \in Jobs : job[j].status \in {"preparing", "running"} =>
    \A x \in job[j].spec :
      /\ Row(j, x.rank) # "none"
      /\ agent[x.agent].row = "paired"
      /\ Member(ClusterOf[x.agent], UserOf[x.agent])
      /\ agent[x.agent].enabled
      /\ x.device \in agent[x.agent].shared
      /\ x.host = agent[x.agent].caps.host

\* Revocation disconnects: no valid token and no unused pairing code belongs to
\* a user who is not an approved member.
CredentialsNeedMembership ==
  /\ \A a \in Agents : agent[a].token => Member(ClusterOf[a], UserOf[a])
  /\ \A k \in codes : Member(k.cluster, k.user)

\* Completed, failed and cancelled jobs stay so; a job is started once.
StatusOrder ==
  [][\A j \in Jobs :
       LET old == job[j].status  new == job'[j].status IN
       old # new =>
         CASE old = "none" -> new = "draft"
           [] old = "draft" -> new \in {"preparing", "cancelled"}
           [] old = "preparing" -> new \in {"running", "cancelling", "failed"}
           [] old = "running" -> new \in {"completed", "cancelling", "failed"}
           [] old = "cancelling" -> new = "cancelled"
           [] OTHER -> FALSE]_vars

\* A reservation ends only with a report of the rank's own agent, when that agent
\* has been silent for 30 s, or when the computer is removed.
ReleaseIsJustified ==
  [][\A j \in Jobs : \A x \in job[j].spec :
       Holds(j, x) /\ job'[j].row[x.rank] \notin Held =>
         \/ Silent(x.agent)
         \/ agent'[x.agent].row = "deleted"
         \/ \E state \in ReportStates : ReportWorker(x.agent, j, x.rank, state)]_vars

\* No rank is ever started from scratch: only the start of a draft turns a rank
\* to "preparing", a rank that trained never becomes ready again, and the result
\* of a finished one stays until its computer is removed.
RankNeverRestarts ==
  [][\A j \in Jobs : \A r \in Ranks :
       LET old == Row(j, r)  new == job'[j].row[r] IN
       old # new =>
         /\ new \in {"preparing"} => old = "pending" /\ job[j].status = "draft"
         /\ new = "ready" => old = "preparing"
         /\ new = "running" => old = "ready"
         /\ old \in Finished => new = "none"]_vars

\* Once its token is replaced an agent never authenticates again.
RevocationIsPermanent ==
  [][\A a \in Agents : agent[a].row # "new" /\ ~agent[a].token => ~agent'[a].token]_vars

\* Preparation is bounded: even if no worker ever answers again, the coordinator
\* moves the job on by itself.
PreparationEnds ==
  \A j \in Jobs : job[j].status = "preparing" ~> job[j].status # "preparing"

\* A reservation of an agent that can no longer authenticate, and so can never
\* acknowledge the stop, is released by the passing of time alone.
LockedOutIsReleased ==
  \A j \in Jobs, r \in Ranks :
    (Row(j, r) = "stopping" /\ \A x \in job[j].spec : x.rank = r => ~agent[x.agent].token)
      ~> Row(j, r) # "stopping"

-----------------------------------------------------------------------------
(* The coordinator implements Reservations.                                *)

Resources == ({"device"} \X Agents \X Devices) \cup ({"gpu"} \X Hosts \X GpuDevices)
             \cup ({"url"} \X (Urls \cup {<<>>}))

\* What a held rank reserves, and what its job does beside it.
Reserved(J) ==
  LET S == {x \in J.spec : J.row[x.rank] \in Held} IN
  {<<"device", x.agent, x.device>> : x \in S}
  \cup {<<"gpu", x.host, x.device>> : x \in {y \in S : y.device \in GpuDevices}}
  \cup {<<"url", J.url>> : x \in S}

NotStarted == {j \in Jobs : job[j].status \in {"none", "draft"}}

ReservationSpec == INSTANCE Reservations WITH
  Clients <- Jobs,
  waiting <- NotStarted,
  held <- [j \in Jobs |-> Reserved(job[j])]

\* Starting reserves everything a job needs at once, nothing that is taken, and
\* never again afterwards.
ReservesAtomically == ReservationSpec!Spec
=============================================================================
