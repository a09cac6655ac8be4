------------------------ MODULE ClusterControlProofs ------------------------
(***************************************************************************)
(* Theorems about ClusterControl, for any users, clusters, agents, devices *)
(* and jobs, and any bounds that satisfy ConstantsAssumption.              *)
(***************************************************************************)
EXTENDS ClusterControl, TLAPS

Idle == {"none", "draft"}

(***************************************************************************)
(* What every handler but create_job and start_job does to one job: the    *)
(* placement stays, no rank is newly reserved, and an idle job was idle.   *)
(***************************************************************************)
Evolves(J, K) ==
  /\ K \in JobRow
  /\ RowsAgree(K)
  /\ K.spec = J.spec /\ K.url = J.url
  /\ \A r \in Ranks : K.row[r] \in Held => J.row[r] \in Held
  /\ K.status \in Idle => J.status = K.status

\* An unchanged job evolves, and evolutions compose.
LEMMA EvolvesReflexive ==
  ASSUME NEW J \in JobRow, RowsAgree(J)
  PROVE  Evolves(J, J)
BY DEF Evolves, JobRow

LEMMA EvolvesTransitive ==
  ASSUME NEW J, NEW K, NEW L, Evolves(J, K), Evolves(K, L)
  PROVE  Evolves(J, L)
BY DEF Evolves

\* _stop on an active job leaves only stopping and finished ranks.
LEMMA StoppedEvolves ==
  ASSUME NEW J \in JobRow, RowsAgree(J),
         J.status \in {"preparing", "running"},
         NEW st \in {"cancelling", "failed"}
  PROVE  Evolves(J, Stopped(J, st))
<1> DEFINE K == Stopped(J, st)
<1>1. /\ K.status = st /\ K.spec = J.spec /\ K.url = J.url /\ K.age = 0
      /\ K.row = [r \in Ranks |-> IF J.row[r] \in Finished \cup {"none"} THEN J.row[r] ELSE "stopping"]
  BY DEF Stopped, JobRow
<1>2. K \in JobRow
  <2>1. K.row \in [Ranks -> RowState]
    BY <1>1 DEF JobRow, RowState, Held
  <2>2. st \in JobStatus /\ 0 \in 0 .. (PrepTimeout + 1)
    BY ConstantsAssumption DEF JobStatus
  <2>. QED
    BY <1>1, <2>1, <2>2 DEF JobRow, Stopped
<1>3. RowsIn(K, {"stopping"} \cup Finished)
  BY <1>1 DEF RowsIn
<1>4. RowsAgree(K)
  BY <1>1, <1>3 DEF RowsAgree
<1>5. \A r \in Ranks : J.row[r] \in Held \cup Finished \cup {"none"}
  BY DEF RowsAgree, RowsIn, Held, Finished
<1>6. \A r \in Ranks : K.row[r] \in Held => J.row[r] \in Held
  BY <1>1, <1>5 DEF Held, Finished
<1>. QED
  BY <1>1, <1>2, <1>4, <1>6 DEF Evolves, Idle

\* _withdraw either leaves the job alone or stops it while it is active.
LEMMA WithdrawnEvolves ==
  ASSUME NEW J \in JobRow, RowsAgree(J), NEW a, NEW removed
  PROVE  /\ Evolves(J, Withdrawn(J, a, removed))
         /\ Withdrawn(J, a, removed).status = "draft" => Withdrawn(J, a, removed) = J
<1>1. CASE Hit(J, a, removed)
  <2>1. J.status \in {"preparing", "running"}
    BY <1>1 DEF Hit
  <2>2. Evolves(J, Stopped(J, "failed"))
    BY <2>1, StoppedEvolves
  <2>. QED
    BY <1>1, <2>1, <2>2 DEF Withdrawn, Evolves, Idle
<1>2. CASE ~Hit(J, a, removed)
  BY <1>2, EvolvesReflexive DEF Withdrawn
<1>. QED
  BY <1>1, <1>2

\* _reconcile never reserves, and leaves a draft alone.
LEMMA ReconciledEvolves ==
  ASSUME NEW J \in JobRow, RowsAgree(J), NEW ag
  PROVE  /\ Evolves(J, Reconciled(J, ag))
         /\ Reconciled(J, ag).status = "draft" => Reconciled(J, ag) = J
<1>1. CASE ~Unsettled(J)
  BY <1>1, EvolvesReflexive DEF Reconciled
<1>2. CASE Unsettled(J)
  <2> DEFINE E == IF Expired(J, ag) THEN Stopped(J, "failed") ELSE J
             R == Released(E, ag)
  <2>1. Evolves(J, E) /\ (E.status = J.status \/ E.status = "failed")
    <3>1. CASE Expired(J, ag)
      <4>1. J.status \in {"preparing", "running"}
        BY <3>1 DEF Expired
      <4>2. Stopped(J, "failed").status = "failed"
        BY DEF Stopped, JobRow
      <4>. QED
        BY <3>1, <4>1, <4>2, StoppedEvolves
    <3>2. CASE ~Expired(J, ag)
      BY <3>2, EvolvesReflexive
    <3>. QED
      BY <3>1, <3>2
  <2>2. E \in JobRow /\ RowsAgree(E)
    BY <2>1 DEF Evolves
  <2>3. /\ R.status = E.status /\ R.spec = E.spec /\ R.url = E.url /\ R.age = E.age
        /\ R.row = [r \in Ranks |-> IF E.row[r] = "stopping" /\ OnSilentAgent(E, r, ag)
                                     THEN "stopped" ELSE E.row[r]]
    BY <2>2 DEF Released, JobRow
  <2>4. R \in JobRow
    <3>1. R.row \in [Ranks -> RowState]
      BY <2>2, <2>3 DEF JobRow, RowState, Finished
    <3>. QED
      BY <2>2, <2>3, <3>1 DEF JobRow, Released
  <2>5. \A r \in Ranks : \/ R.row[r] = E.row[r]
                         \/ E.row[r] = "stopping" /\ R.row[r] = "stopped"
    BY <2>3
  <2>6. RowsAgree(R)
    <3>1. ASSUME NEW S, RowsIn(E, S), "stopping" \notin S \/ "stopped" \in S
          PROVE  RowsIn(R, S)
      BY <2>5, <3>1 DEF RowsIn
    <3>2. ASSUME NEW S, "stopping" \notin S, NEW r \in Ranks, E.row[r] \in S
          PROVE  R.row[r] \in S
      BY <2>5, <3>2
    <3>. QED
      BY <2>2, <2>3, <2>5, <3>1 DEF RowsAgree, Finished
  <2>7. Evolves(E, R)
    BY <2>3, <2>4, <2>5, <2>6 DEF Evolves, Held
  <2>8. Evolves(J, R)
    BY <2>1, <2>7, EvolvesTransitive
  <2>9. CASE J.status = "cancelling" /\ \A r \in Ranks : R.row[r] # "stopping"
    <3> DEFINE C == [R EXCEPT !.status = "cancelled"]
    <3>1. /\ C.status = "cancelled" /\ C.spec = R.spec /\ C.url = R.url
          /\ C.row = R.row /\ C.age = R.age
      BY <2>4 DEF JobRow
    <3>2. C \in JobRow
      BY <2>4, <3>1 DEF JobRow, JobStatus
    <3>3. RowsIn(R, {"pending"} \cup Finished)
      <4>1. R.status \in {"cancelling", "failed"}
        BY <2>1, <2>3, <2>9
      <4>. QED
        BY <2>6, <2>9, <4>1 DEF RowsAgree, RowsIn
    <3>4. RowsAgree(C)
      BY <3>1, <3>3 DEF RowsAgree, RowsIn
    <3>5. Evolves(R, C)
      BY <3>1, <3>2, <3>4 DEF Evolves, Idle
    <3>6. Evolves(J, C)
      BY <2>8, <3>5, EvolvesTransitive
    <3>. QED
      BY <1>2, <2>9, <3>1, <3>6 DEF Reconciled
  <2>10. CASE ~(J.status = "cancelling" /\ \A r \in Ranks : R.row[r] # "stopping")
    <3>1. Reconciled(J, ag) = R
      BY <1>2, <2>10 DEF Reconciled
    <3>2. R.status # "draft"
      BY <1>2, <2>1, <2>3 DEF Unsettled
    <3>. QED
      BY <2>8, <3>1, <3>2
  <2>. QED
    BY <2>9, <2>10
<1>. QED
  BY <1>1, <1>2

-----------------------------------------------------------------------------
(***************************************************************************)
(* The reports of workers.  Each lemma is about job J, reported on rank r. *)
(***************************************************************************)

\* The rows of J after rank r took the state st.
RowSet(J, r, st) == [J EXCEPT !.row[r] = st]

LEMMA RowSetFields ==
  ASSUME NEW J \in JobRow, NEW r \in Ranks, NEW st \in RowState
  PROVE  /\ RowSet(J, r, st) \in JobRow
         /\ RowSet(J, r, st).status = J.status /\ RowSet(J, r, st).spec = J.spec
         /\ RowSet(J, r, st).url = J.url /\ RowSet(J, r, st).age = J.age
         /\ \A s \in Ranks : RowSet(J, r, st).row[s] = IF s = r THEN st ELSE J.row[s]
BY DEF RowSet, JobRow

LEMMA ReleasedRowEvolves ==
  ASSUME NEW J \in JobRow, RowsAgree(J), NEW r \in Ranks, J.row[r] = "stopping"
  PROVE  /\ Evolves(J, RowSet(J, r, "stopped"))
         /\ RowSet(J, r, "stopped").status # "draft"
<1>1. J.status \in {"cancelling", "failed"}
  BY DEF RowsAgree, RowsIn, Finished, JobRow, JobStatus
<1>2. "stopped" \in RowState
  BY DEF RowState, Finished
<1>3. RowsAgree(RowSet(J, r, "stopped"))
  BY <1>1, <1>2, RowSetFields DEF RowsAgree, RowsIn, Finished
<1>. QED
  BY <1>1, <1>2, <1>3, RowSetFields DEF Evolves, Idle, Held

LEMMA ReadyEvolves ==
  ASSUME NEW J \in JobRow, RowsAgree(J), NEW r \in Ranks,
         J.row[r] = "preparing", J.status = "preparing",
         NEW K \in JobRow,
         K.spec = J.spec, K.url = J.url,
         \A s \in Ranks : K.row[s] = IF s = r THEN "ready" ELSE J.row[s],
         IF \A s \in Ranks \ {r} : J.row[s] # "none" => J.row[s] = "ready"
         THEN K.status = "running" ELSE K.status = "preparing"
  PROVE  Evolves(J, K)
<1>1. RowsIn(J, {"preparing", "ready"})
  BY DEF RowsAgree
<1>2. CASE \A s \in Ranks \ {r} : J.row[s] # "none" => J.row[s] = "ready"
  <2>1. K.status = "running" /\ RowsIn(K, {"ready"}) /\ K.row[r] = "ready"
    BY <1>2 DEF RowsIn
  <2>. QED
    BY <1>1, <2>1 DEF Evolves, RowsAgree, RowsIn, Idle, Held
<1>3. CASE ~\A s \in Ranks \ {r} : J.row[s] # "none" => J.row[s] = "ready"
  <2>1. PICK s \in Ranks \ {r} : J.row[s] # "none" /\ J.row[s] # "ready"
    BY <1>3
  <2>2. K.row[s] = "preparing" /\ K.status = "preparing"
    BY <1>1, <1>3, <2>1 DEF RowsIn
  <2>3. RowsIn(K, {"preparing", "ready"})
    BY <1>1 DEF RowsIn
  <2>. QED
    BY <1>1, <2>2, <2>3 DEF Evolves, RowsAgree, RowsIn, Idle, Held
<1>. QED
  BY <1>2, <1>3

LEMMA RunningEvolves ==
  ASSUME NEW J \in JobRow, RowsAgree(J), NEW r \in Ranks,
         J.row[r] \in {"ready", "running"}, J.status = "running"
  PROVE  Evolves(J, RowSet(J, r, "running"))
<1>1. "running" \in RowState
  BY DEF RowState, Held
<1>2. RowsAgree(RowSet(J, r, "running"))
  BY <1>1, RowSetFields DEF RowsAgree, RowsIn
<1>. QED
  BY <1>1, <1>2, RowSetFields DEF Evolves, Idle, Held

LEMMA SucceededEvolves ==
  ASSUME NEW J \in JobRow, RowsAgree(J), NEW r \in Ranks, J.row[r] = "running",
         NEW K \in JobRow,
         K.spec = J.spec, K.url = J.url,
         \A s \in Ranks : K.row[s] = IF s = r THEN "succeeded" ELSE J.row[s],
         IF \A s \in Ranks \ {r} : J.row[s] # "none" => J.row[s] = "succeeded"
         THEN K.status = "completed" ELSE K.status = J.status
  PROVE  Evolves(J, K)
<1>1. J.status = "running" /\ RowsIn(J, {"ready", "running", "succeeded"})
  BY DEF RowsAgree, RowsIn, JobRow, JobStatus, Finished
<1>2. CASE \A s \in Ranks \ {r} : J.row[s] # "none" => J.row[s] = "succeeded"
  <2>1. K.status = "completed" /\ RowsIn(K, {"succeeded"})
    BY <1>2 DEF RowsIn
  <2>. QED
    BY <1>1, <2>1 DEF Evolves, RowsAgree, RowsIn, Idle, Held
<1>3. CASE ~\A s \in Ranks \ {r} : J.row[s] # "none" => J.row[s] = "succeeded"
  <2>1. PICK s \in Ranks \ {r} : J.row[s] # "none" /\ J.row[s] # "succeeded"
    BY <1>3
  <2>2. K.row[s] \in {"ready", "running"} /\ K.status = "running"
    BY <1>1, <1>3, <2>1 DEF RowsIn
  <2>3. RowsIn(K, {"ready", "running", "succeeded"})
    BY <1>1 DEF RowsIn
  <2>. QED
    BY <1>1, <2>2, <2>3 DEF Evolves, RowsAgree, RowsIn, Idle, Held
<1>. QED
  BY <1>2, <1>3

LEMMA FailedEvolves ==
  ASSUME NEW J \in JobRow, RowsAgree(J), NEW r \in Ranks,
         J.row[r] \in {"preparing", "ready", "running"}
  PROVE  Evolves(J, Stopped(RowSet(J, r, "failed"), "failed"))
<1> DEFINE F == RowSet(J, r, "failed")
           K == Stopped(F, "failed")
<1>1. J.status \in {"preparing", "running"}
  BY DEF RowsAgree, RowsIn, JobRow, JobStatus, Finished
<1>2. "failed" \in RowState
  BY DEF RowState, Finished
<1>3. F \in JobRow /\ F.spec = J.spec /\ F.url = J.url
      /\ \A s \in Ranks : F.row[s] = IF s = r THEN "failed" ELSE J.row[s]
  BY <1>2, RowSetFields
<1>4. /\ K.status = "failed" /\ K.spec = J.spec /\ K.url = J.url /\ K.age = 0
      /\ K.row = [s \in Ranks |-> IF F.row[s] \in Finished \cup {"none"} THEN F.row[s] ELSE "stopping"]
  BY <1>3 DEF Stopped, JobRow
<1>5. K \in JobRow
  <2>1. K.row \in [Ranks -> RowState]
    BY <1>4 DEF RowState, Held
  <2>2. "failed" \in JobStatus /\ 0 \in 0 .. (PrepTimeout + 1)
    BY ConstantsAssumption DEF JobStatus
  <2>. QED
    BY <1>3, <1>4, <2>1, <2>2 DEF JobRow, Stopped
<1>6. RowsAgree(K)
  BY <1>4 DEF RowsAgree, RowsIn
<1>7. \A s \in Ranks : J.row[s] \in Held \cup Finished \cup {"none"}
  BY <1>1 DEF RowsAgree, RowsIn, Held, Finished
<1>8. \A s \in Ranks : K.row[s] \in Held => J.row[s] \in Held
  BY <1>3, <1>4, <1>7 DEF Held, Finished
<1>. QED
  BY <1>4, <1>5, <1>6, <1>8 DEF Evolves, Idle

-----------------------------------------------------------------------------
(***************************************************************************)
(* The steps that reserve nothing.                                         *)
(***************************************************************************)

Quiet == \A k \in Jobs : Evolves(job[k], job'[k])

\* Drafts keep their rows, and a removed computer stays removed.
Settled ==
  /\ \A k \in Jobs : job'[k].status = "draft" => job'[k].row = job[k].row
  /\ \A a \in Agents : agent[a].row = "deleted" => agent'[a].row = "deleted"

LEMMA JobsStay ==
  ASSUME TypeOK, RowsFollowStatus, UNCHANGED job
  PROVE  Quiet
BY EvolvesReflexive DEF Quiet, TypeOK, RowsFollowStatus

LEMMA SeenType ==
  ASSUME TypeOK, NEW a \in Agents, agent' = Seen(a)
  PROVE  /\ agent' \in [Agents -> AgentRow]
         /\ \A b \in Agents : agent'[b].row = agent[b].row
<1>1. 0 \in 0 .. OfflineAfter
  BY ConstantsAssumption
<1>2. [agent[a] EXCEPT !.silence = 0] \in AgentRow
  BY <1>1 DEF TypeOK, AgentRow
<1>. QED
  BY <1>2 DEF Seen, TypeOK, AgentRow

LEMMA ReconciledQuiet ==
  ASSUME NEW jobs \in [Jobs -> JobRow], \A k \in Jobs : RowsAgree(jobs[k]),
         NEW ag, job' = ReconciledJobs(jobs, ag),
         \A k \in Jobs : Evolves(job[k], jobs[k])
  PROVE  /\ job' \in [Jobs -> JobRow]
         /\ Quiet
         /\ \A k \in Jobs : job'[k].status = "draft" => job'[k] = jobs[k]
<1>1. \A k \in Jobs : /\ Evolves(jobs[k], Reconciled(jobs[k], ag))
                      /\ Reconciled(jobs[k], ag).status = "draft" => Reconciled(jobs[k], ag) = jobs[k]
  BY ReconciledEvolves
<1>2. \A k \in Jobs : job'[k] = Reconciled(jobs[k], ag)
  BY DEF ReconciledJobs
<1>3. \A k \in Jobs : Evolves(job[k], job'[k])
  BY <1>1, <1>2, EvolvesTransitive
<1>. QED
  BY <1>1, <1>2, <1>3 DEF ReconciledJobs, Quiet, Evolves

LEMMA WithdrawnQuiet ==
  ASSUME TypeOK, RowsFollowStatus, NEW a, NEW removed,
         job' = [k \in Jobs |-> Withdrawn(job[k], a, removed)]
  PROVE  /\ job' \in [Jobs -> JobRow]
         /\ Quiet
         /\ \A k \in Jobs : job'[k].status = "draft" => job'[k] = job[k]
BY WithdrawnEvolves DEF TypeOK, RowsFollowStatus, Quiet, Evolves

LEMMA MembershipStep ==
  ASSUME TypeOK, RowsFollowStatus, NEW c \in Clusters, NEW u \in Users,
         \/ CreateCluster(c)
         \/ RequestJoin(c, u)
         \/ Approve(c, u)
         \/ Expel(c, u, "rejected")
         \/ Expel(c, u, "revoked")
         \/ \E id \in Codes : CreatePairing(id, c, u)
  PROVE  TypeOK' /\ Quiet /\ Settled
<1>1. CASE CreateCluster(c)
  <2>1. membership' \in [Clusters -> [Users -> MemberStatus]]
    BY <1>1 DEF CreateCluster, TypeOK, MemberStatus
  <2>. QED
    BY <1>1, <2>1, JobsStay DEF CreateCluster, TypeOK, Settled
<1>2. CASE RequestJoin(c, u)
  <2>1. membership' \in [Clusters -> [Users -> MemberStatus]]
    BY <1>2 DEF RequestJoin, TypeOK, MemberStatus
  <2>. QED
    BY <1>2, <2>1, JobsStay DEF RequestJoin, TypeOK, Settled
<1>3. CASE Approve(c, u)
  <2>1. membership' \in [Clusters -> [Users -> MemberStatus]]
    BY <1>3 DEF Approve, TypeOK, MemberStatus
  <2>. QED
    BY <1>3, <2>1, JobsStay DEF Approve, TypeOK, Settled
<1>4. ASSUME NEW st \in {"rejected", "revoked"}, Expel(c, u, st)
      PROVE  TypeOK' /\ Quiet /\ Settled
  <2> DEFINE theirs == {a \in Agents : /\ agent[a].row = "paired"
                                       /\ ClusterOf[a] = c /\ UserOf[a] = u}
             hit(J) == \E a \in theirs : Hit(J, a, Devices)
  <2>1. membership' \in [Clusters -> [Users -> MemberStatus]]
    BY <1>4 DEF Expel, TypeOK, MemberStatus
  <2>2. codes' \subseteq PairingCode
    BY <1>4 DEF Expel, CodesWithout, TypeOK
  <2>3. /\ agent' \in [Agents -> AgentRow]
        /\ \A a \in Agents : agent'[a].row = agent[a].row
    <3>1. \A a \in Agents :
            /\ [agent[a] EXCEPT !.token = FALSE, !.enabled = FALSE, !.shared = {}] \in AgentRow
            /\ [agent[a] EXCEPT !.token = FALSE, !.enabled = FALSE, !.shared = {}].row = agent[a].row
      BY DEF TypeOK, AgentRow
    <3>. QED
      BY <1>4, <3>1 DEF Expel, TypeOK
  <2>4. job' = [k \in Jobs |-> IF hit(job[k]) THEN Stopped(job[k], "failed") ELSE job[k]]
    BY <1>4 DEF Expel
  <2>5. ASSUME NEW k \in Jobs
        PROVE  /\ Evolves(job[k], job'[k])
               /\ job'[k].status = "draft" => job'[k] = job[k]
    <3>1. job[k] \in JobRow /\ RowsAgree(job[k])
      BY DEF TypeOK, RowsFollowStatus
    <3>2. CASE hit(job[k])
      <4>1. job[k].status \in {"preparing", "running"}
        BY <3>2 DEF Hit
      <4>2. Evolves(job[k], Stopped(job[k], "failed"))
        BY <3>1, <4>1, StoppedEvolves
      <4>. QED
        BY <2>4, <3>2, <4>1, <4>2 DEF Evolves, Idle
    <3>3. CASE ~hit(job[k])
      BY <2>4, <3>1, <3>3, EvolvesReflexive
    <3>. QED
      BY <3>2, <3>3
  <2>6. job' \in [Jobs -> JobRow]
    BY <2>4, <2>5 DEF Evolves
  <2>. QED
    BY <2>1, <2>2, <2>3, <2>5, <2>6 DEF TypeOK, Quiet, Settled
<1>5. ASSUME NEW id \in Codes, CreatePairing(id, c, u)
      PROVE  TypeOK' /\ Quiet /\ Settled
  <2>1. [id |-> id, cluster |-> c, user |-> u, left |-> CodeLife] \in PairingCode
    BY ConstantsAssumption DEF PairingCode
  <2>2. codes' \subseteq PairingCode
    BY <1>5, <2>1 DEF CreatePairing, TypeOK
  <2>. QED
    BY <1>5, <2>2, JobsStay DEF CreatePairing, TypeOK, Settled
<1>. QED
  BY <1>1, <1>2, <1>3, <1>4, <1>5

LEMMA AgentStep ==
  ASSUME TypeOK, RowsFollowStatus, NEW a \in Agents,
         \/ \E k \in codes, caps \in Reports[a], shared \in SUBSET Devices :
              PairAgent(a, k, caps, shared)
         \/ \E shared \in SUBSET Devices, enabled \in BOOLEAN : SetSharing(a, shared, enabled)
         \/ \E caps \in Reports[a] : Heartbeat(a, caps)
         \/ PollWorker(a)
  PROVE  TypeOK' /\ Quiet /\ Settled
<1>0. 0 \in 0 .. OfflineAfter /\ Reports[a] \subseteq Capabilities
  BY ConstantsAssumption
<1>1. ASSUME NEW k \in codes, NEW caps \in Reports[a], NEW shared \in SUBSET Devices,
             PairAgent(a, k, caps, shared)
      PROVE  TypeOK' /\ Quiet /\ Settled
  <2>1. [row |-> "paired", token |-> TRUE, enabled |-> TRUE,
         shared |-> shared, caps |-> caps, silence |-> 0] \in AgentRow
    BY <1>0 DEF AgentRow
  <2>2. /\ agent' \in [Agents -> AgentRow]
        /\ \A b \in Agents : agent[b].row = "deleted" => agent'[b].row = "deleted"
    BY <1>1, <2>1 DEF PairAgent, TypeOK
  <2>. QED
    BY <1>1, <2>2, JobsStay DEF PairAgent, TypeOK, Settled
<1>2. ASSUME NEW shared \in SUBSET Devices, NEW enabled \in BOOLEAN,
             SetSharing(a, shared, enabled)
      PROVE  TypeOK' /\ Quiet /\ Settled
  <2>1. /\ agent' \in [Agents -> AgentRow]
        /\ \A b \in Agents : agent'[b].row = agent[b].row
    BY <1>2 DEF SetSharing, TypeOK, AgentRow
  <2>2. PICK removed : job' = [k \in Jobs |-> Withdrawn(job[k], a, removed)]
    BY <1>2 DEF SetSharing
  <2>3. /\ job' \in [Jobs -> JobRow]
        /\ Quiet
        /\ \A k \in Jobs : job'[k].status = "draft" => job'[k] = job[k]
    BY <2>2, WithdrawnQuiet
  <2>. QED
    BY <1>2, <2>1, <2>3 DEF SetSharing, TypeOK, Settled
<1>3. ASSUME NEW caps \in Reports[a], Heartbeat(a, caps)
      PROVE  TypeOK' /\ Quiet /\ Settled
  <2>1. /\ agent' \in [Agents -> AgentRow]
        /\ \A b \in Agents : agent'[b].row = agent[b].row
    <3> DEFINE new == [agent[a] EXCEPT !.caps = caps, !.shared = @ \cap caps.devices, !.silence = 0]
    <3>1. caps \in Capabilities /\ agent[a] \in AgentRow
      BY <1>0 DEF TypeOK
    <3>2. new \in AgentRow /\ new.row = agent[a].row
      BY <1>0, <3>1 DEF AgentRow
    <3>3. agent' = [agent EXCEPT ![a] = new]
      BY <1>3 DEF Heartbeat, TypeOK
    <3>. QED
      BY <3>2, <3>3 DEF TypeOK
  <2>2. /\ job' \in [Jobs -> JobRow]
        /\ Quiet
        /\ \A k \in Jobs : job'[k].status = "draft" => job'[k] = job[k]
    <3>1. CASE caps # agent[a].caps
      BY <1>3, <3>1, WithdrawnQuiet DEF Heartbeat
    <3>2. CASE caps = agent[a].caps
      BY <1>3, <3>2, JobsStay DEF Heartbeat, TypeOK
    <3>. QED
      BY <3>1, <3>2
  <2>. QED
    BY <1>3, <2>1, <2>2 DEF Heartbeat, TypeOK, Settled
<1>4. CASE PollWorker(a)
  <2>1. /\ agent' \in [Agents -> AgentRow]
        /\ \A b \in Agents : agent'[b].row = agent[b].row
    BY <1>4, SeenType DEF PollWorker
  <2>2. /\ job \in [Jobs -> JobRow]
        /\ \A k \in Jobs : RowsAgree(job[k]) /\ Evolves(job[k], job[k])
    BY EvolvesReflexive DEF TypeOK, RowsFollowStatus
  <2>3. /\ job' \in [Jobs -> JobRow]
        /\ Quiet
        /\ \A k \in Jobs : job'[k].status = "draft" => job'[k] = job[k]
    BY <1>4, <2>2, ReconciledQuiet DEF PollWorker
  <2>. QED
    BY <1>4, <2>1, <2>3 DEF PollWorker, TypeOK, Settled
<1>. QED
  BY <1>1, <1>2, <1>3, <1>4

LEMMA ReconcileStep ==
  ASSUME TypeOK, RowsFollowStatus, Reconcile
  PROVE  TypeOK' /\ Quiet /\ Settled
<1>1. /\ job \in [Jobs -> JobRow]
      /\ \A k \in Jobs : RowsAgree(job[k]) /\ Evolves(job[k], job[k])
  BY EvolvesReflexive DEF TypeOK, RowsFollowStatus
<1>2. /\ job' \in [Jobs -> JobRow]
      /\ Quiet
      /\ \A k \in Jobs : job'[k].status = "draft" => job'[k] = job[k]
  BY <1>1, ReconciledQuiet DEF Reconcile
<1>. QED
  BY <1>2 DEF Reconcile, TypeOK, Settled

LEMMA TickStep ==
  ASSUME TypeOK, RowsFollowStatus, Tick
  PROVE  TypeOK' /\ Quiet /\ Settled
<1>1. /\ agent' \in [Agents -> AgentRow]
      /\ \A b \in Agents : agent'[b].row = agent[b].row
  <2>1. ASSUME NEW b \in Agents, ~Silent(b)
        PROVE  /\ [agent[b] EXCEPT !.silence = @ + 1] \in AgentRow
               /\ [agent[b] EXCEPT !.silence = @ + 1].row = agent[b].row
    <3>1. agent[b].silence + 1 \in 0 .. OfflineAfter
      BY <2>1, ConstantsAssumption DEF Silent, TypeOK, AgentRow
    <3>. QED
      BY <3>1 DEF TypeOK, AgentRow
  <2>. QED
    BY <2>1 DEF Tick, TypeOK
<1>2. codes' \subseteq PairingCode
  <2>1. ASSUME NEW k \in codes, k.left > 0
        PROVE  [k EXCEPT !.left = @ - 1] \in PairingCode
    <3>1. k.left - 1 \in 0 .. CodeLife
      BY <2>1, ConstantsAssumption DEF TypeOK, PairingCode
    <3>. QED
      BY <3>1 DEF TypeOK, PairingCode
  <2>. QED
    BY <2>1 DEF Tick, TypeOK
<1>3. ASSUME NEW k \in Jobs
      PROVE  /\ Evolves(job[k], job'[k])
             /\ job'[k].row = job[k].row
  <2>1. job[k] \in JobRow /\ RowsAgree(job[k])
    BY DEF TypeOK, RowsFollowStatus
  <2>2. CASE job[k].status = "preparing" /\ job[k].age <= PrepTimeout
    <3> DEFINE K == [job[k] EXCEPT !.age = @ + 1]
    <3>1. job[k].age + 1 \in 0 .. (PrepTimeout + 1)
      BY <2>1, <2>2, ConstantsAssumption DEF JobRow
    <3>2. K \in JobRow /\ K.status = job[k].status /\ K.spec = job[k].spec
          /\ K.url = job[k].url /\ K.row = job[k].row
      BY <2>1, <3>1 DEF JobRow
    <3>3. RowsAgree(K)
      BY <2>1, <3>2 DEF RowsAgree, RowsIn
    <3>4. job'[k] = K
      BY <2>2 DEF Tick
    <3>. QED
      BY <3>2, <3>3, <3>4 DEF Evolves
  <2>3. CASE ~(job[k].status = "preparing" /\ job[k].age <= PrepTimeout)
    BY <2>1, <2>3, EvolvesReflexive DEF Tick
  <2>. QED
    BY <2>2, <2>3
<1>4. job' \in [Jobs -> JobRow]
  BY <1>3 DEF Tick, Evolves
<1>. QED
  BY <1>1, <1>2, <1>3, <1>4 DEF Tick, TypeOK, Quiet, Settled

LEMMA CancelStep ==
  ASSUME TypeOK, RowsFollowStatus, NEW j \in Jobs, CancelJob(j)
  PROVE  TypeOK' /\ Quiet /\ Settled
<1>1. job[j] \in JobRow /\ RowsAgree(job[j])
  BY DEF TypeOK, RowsFollowStatus
<1>2. Evolves(job[j], job'[j]) /\ job'[j].status # "draft"
  <2>1. CASE job[j].status = "draft" /\ job' = [job EXCEPT ![j].status = "cancelled"]
    <3> DEFINE K == [job[j] EXCEPT !.status = "cancelled"]
    <3>1. K \in JobRow /\ K.status = "cancelled" /\ K.spec = job[j].spec
          /\ K.url = job[j].url /\ K.row = job[j].row
      BY <1>1 DEF JobRow, JobStatus
    <3>2. RowsAgree(K)
      BY <1>1, <2>1, <3>1 DEF RowsAgree, RowsIn
    <3>3. job'[j] = K
      BY <2>1 DEF TypeOK
    <3>. QED
      BY <3>1, <3>2, <3>3 DEF Evolves, Idle
  <2>2. CASE /\ job[j].status \in {"preparing", "running"}
             /\ job' = [job EXCEPT ![j] = Stopped(job[j], "cancelling")]
    <3>1. job'[j] = Stopped(job[j], "cancelling")
      BY <2>2 DEF TypeOK
    <3>2. Evolves(job[j], job'[j])
      BY <1>1, <2>2, <3>1, StoppedEvolves
    <3>. QED
      BY <2>2, <3>2 DEF Evolves, Idle
  <2>. QED
    BY <2>1, <2>2 DEF CancelJob
<1>3. \A k \in Jobs \ {j} : job'[k] = job[k] /\ Evolves(job[k], job'[k])
  BY EvolvesReflexive DEF CancelJob, TypeOK, RowsFollowStatus
<1>4. job' \in [Jobs -> JobRow]
  BY <1>2, <1>3 DEF CancelJob, TypeOK, Evolves
<1>. QED
  BY <1>2, <1>3, <1>4 DEF CancelJob, TypeOK, Quiet, Settled

\* Only job j moved, and it evolved into something that is not a draft.
LEMMA OneJobEvolves ==
  ASSUME TypeOK, RowsFollowStatus, NEW j \in Jobs, NEW K, job' = [job EXCEPT ![j] = K],
         Evolves(job[j], K), K.status # "draft"
  PROVE  /\ job' \in [Jobs -> JobRow]
         /\ Quiet
         /\ \A k \in Jobs : job'[k].status = "draft" => job'[k] = job[k]
<1>1. job'[j] = K /\ K \in JobRow
  BY DEF TypeOK, Evolves
<1>2. \A k \in Jobs \ {j} : job'[k] = job[k] /\ Evolves(job[k], job'[k])
  BY EvolvesReflexive DEF TypeOK, RowsFollowStatus
<1>. QED
  BY <1>1, <1>2 DEF TypeOK, Quiet

LEMMA ReportStep ==
  ASSUME TypeOK, RowsFollowStatus, NEW a \in Agents, NEW j \in Jobs, NEW r \in Ranks,
         NEW state \in ReportStates, Report(a, j, r, state)
  PROVE  TypeOK' /\ Quiet /\ Settled
<1> DEFINE J == job[j]
           JobsGo == /\ job' \in [Jobs -> JobRow]
                     /\ Quiet
                     /\ \A k \in Jobs : job'[k].status = "draft" => job'[k] = job[k]
<1>1. J \in JobRow /\ RowsAgree(J)
  BY DEF TypeOK, RowsFollowStatus
<1>2. /\ agent' \in [Agents -> AgentRow]
      /\ \A b \in Agents : agent'[b].row = agent[b].row
  BY SeenType DEF Report, ReportWorker
<1>3. ASSUME UNCHANGED job PROVE JobsGo
  BY <1>3, JobsStay DEF TypeOK
<1>4. ASSUME ReportStopping(a, j, r, state) PROVE JobsGo
  <2>1. J.row[r] = "stopping"
    BY <1>4 DEF ReportStopping, Row
  <2>2. PICK jobs : /\ jobs = WithRow(j, r, "stopped") \/ jobs = job
                    /\ job' = ReconciledJobs(jobs, Seen(a))
    BY <1>4 DEF ReportStopping
  <2>3. /\ jobs \in [Jobs -> JobRow]
        /\ \A k \in Jobs : RowsAgree(jobs[k]) /\ Evolves(job[k], jobs[k])
        /\ \A k \in Jobs : jobs[k].status = "draft" => jobs[k] = job[k]
    <3>1. CASE jobs = job
      BY <3>1, EvolvesReflexive DEF TypeOK, RowsFollowStatus
    <3>2. CASE jobs = WithRow(j, r, "stopped")
      <4>1. jobs[j] = RowSet(J, r, "stopped")
        BY <3>2 DEF WithRow, RowSet, TypeOK
      <4>2. /\ Evolves(J, jobs[j]) /\ jobs[j].status # "draft"
        BY <1>1, <2>1, <4>1, ReleasedRowEvolves
      <4>3. \A k \in Jobs \ {j} : jobs[k] = job[k] /\ Evolves(job[k], jobs[k])
        BY <3>2, EvolvesReflexive DEF WithRow, TypeOK, RowsFollowStatus
      <4>4. \A k \in Jobs : jobs[k] \in JobRow /\ RowsAgree(jobs[k])
        BY <4>2, <4>3 DEF Evolves
      <4>. QED
        BY <3>2, <4>2, <4>3, <4>4 DEF WithRow, TypeOK
    <3>. QED
      BY <2>2, <3>1, <3>2
  <2>. QED
    BY <2>2, <2>3, ReconciledQuiet
<1>5. ASSUME ReportReady(j, r) PROVE JobsGo
  <2> DEFINE last == \A s \in Ranks \ {r} : J.row[s] # "none" => J.row[s] = "ready"
             R == RowSet(J, r, "ready")
             K == IF last THEN [R EXCEPT !.status = "running", !.age = 0] ELSE R
  <2>1. J.row[r] = "preparing" /\ J.status = "preparing"
    BY <1>5 DEF ReportReady, Row
  <2>2. job' = [job EXCEPT ![j] = K]
    <3>1. last <=> \A s \in Others(j, r) : Row(j, s) = "ready"
      BY DEF Others, Row
    <3>. QED
      BY <1>5, <3>1 DEF ReportReady, WithRow, RowSet, TypeOK
  <2>3. "ready" \in RowState /\ "running" \in JobStatus /\ 0 \in 0 .. (PrepTimeout + 1)
    BY ConstantsAssumption DEF RowState, Held, JobStatus
  <2>4. /\ R \in JobRow /\ R.status = "preparing" /\ R.spec = J.spec /\ R.url = J.url
        /\ \A s \in Ranks : R.row[s] = IF s = r THEN "ready" ELSE J.row[s]
    BY <1>1, <2>1, <2>3, RowSetFields
  <2>5. /\ K \in JobRow /\ K.spec = J.spec /\ K.url = J.url
        /\ \A s \in Ranks : K.row[s] = IF s = r THEN "ready" ELSE J.row[s]
        /\ IF last THEN K.status = "running" ELSE K.status = "preparing"
    BY <2>3, <2>4 DEF JobRow
  <2>6. Evolves(J, K)
    BY <1>1, <2>1, <2>5, ReadyEvolves
  <2>. QED
    BY <2>2, <2>5, <2>6, OneJobEvolves
<1>6. ASSUME ReportRunning(j, r) PROVE JobsGo
  <2>1. J.row[r] \in {"ready", "running"} /\ J.status = "running"
    BY <1>6 DEF ReportRunning, Row
  <2>2. job' = [job EXCEPT ![j] = RowSet(J, r, "running")]
    BY <1>6 DEF ReportRunning, WithRow, RowSet, TypeOK
  <2>3. Evolves(J, RowSet(J, r, "running")) /\ RowSet(J, r, "running").status # "draft"
    BY <1>1, <2>1, RunningEvolves DEF RowSet, JobRow
  <2>. QED
    BY <2>2, <2>3, OneJobEvolves
<1>7. ASSUME ReportSucceeded(j, r) PROVE JobsGo
  <2> DEFINE last == \A s \in Ranks \ {r} : J.row[s] # "none" => J.row[s] = "succeeded"
             R == RowSet(J, r, "succeeded")
             K == IF last THEN [R EXCEPT !.status = "completed", !.age = 0] ELSE R
  <2>1. J.row[r] = "running" /\ J.status # "draft"
    BY <1>1, <1>7 DEF ReportSucceeded, Row, RowsAgree, RowsIn
  <2>2. job' = [job EXCEPT ![j] = K]
    <3>1. last <=> \A s \in Others(j, r) : Row(j, s) = "succeeded"
      BY DEF Others, Row
    <3>. QED
      BY <1>7, <3>1 DEF ReportSucceeded, WithRow, RowSet, TypeOK
  <2>3. "succeeded" \in RowState /\ "completed" \in JobStatus /\ 0 \in 0 .. (PrepTimeout + 1)
    BY ConstantsAssumption DEF RowState, Finished, JobStatus
  <2>4. /\ R \in JobRow /\ R.status = J.status /\ R.spec = J.spec /\ R.url = J.url
        /\ \A s \in Ranks : R.row[s] = IF s = r THEN "succeeded" ELSE J.row[s]
    BY <1>1, <2>3, RowSetFields
  <2>5. /\ K \in JobRow /\ K.spec = J.spec /\ K.url = J.url
        /\ \A s \in Ranks : K.row[s] = IF s = r THEN "succeeded" ELSE J.row[s]
        /\ IF last THEN K.status = "completed" ELSE K.status = J.status
    BY <2>3, <2>4 DEF JobRow
  <2>6. Evolves(J, K)
    BY <1>1, <2>1, <2>5, SucceededEvolves
  <2>. QED
    BY <2>1, <2>2, <2>5, <2>6, OneJobEvolves
<1>8. ASSUME ReportFailed(j, r) PROVE JobsGo
  <2>1. J.row[r] \in {"preparing", "ready", "running"}
    <3>1. J.row[r] \in RowState \ (Finished \cup {"stopping", "none", "pending"})
      BY <1>1, <1>8 DEF ReportFailed, Report, Commanded, ReportWorker, Assigned, RowsOn, Row, JobRow
    <3>. QED
      BY <3>1 DEF RowState, Held, Finished
  <2>2. job' = [job EXCEPT ![j] = Stopped(RowSet(J, r, "failed"), "failed")]
    BY <1>8 DEF ReportFailed, WithRow, RowSet, TypeOK
  <2>3. Evolves(J, Stopped(RowSet(J, r, "failed"), "failed"))
    BY <1>1, <2>1, FailedEvolves
  <2>4. Stopped(RowSet(J, r, "failed"), "failed").status = "failed"
    BY <1>1 DEF Stopped, RowSet, JobRow
  <2>. QED
    BY <2>2, <2>3, <2>4, OneJobEvolves
<1>9. JobsGo
  <2>1. \/ UNCHANGED job
        \/ ReportStopping(a, j, r, state)
        \/ ReportReady(j, r)
        \/ ReportRunning(j, r)
        \/ ReportSucceeded(j, r)
        \/ ReportFailed(j, r)
    BY DEF Report, ReportWorker
  <2>. QED
    BY <1>3, <1>4, <1>5, <1>6, <1>7, <1>8, <2>1
<1>. QED
  BY <1>2, <1>9 DEF Report, ReportWorker, TypeOK, Settled

-----------------------------------------------------------------------------
(***************************************************************************)
(* The inductive invariant.  RowsFollowStatus says what a job's rows may   *)
(* be; WellPlaced what preview guarantees of a placement when the job is   *)
(* created, and that a draft loses a rank only to the removal of its       *)
(* computer, so that a draft that passes preview again has all its ranks.  *)
(***************************************************************************)
SameResource(x, y) ==
  \/ x.agent = y.agent /\ x.device = y.device
  \/ x.device \in GpuDevices /\ x.host = y.host /\ x.device = y.device

WellPlaced(J) ==
  /\ \A x, y \in J.spec : x.rank = y.rank \/ SameResource(x, y) => x = y
  /\ J.status = "draft" =>
       /\ J.spec # {}
       /\ \A x \in J.spec : J.row[x.rank] = "none" => agent[x.agent].row = "deleted"

Exclusive == DeviceExclusive /\ GpuExclusive /\ CoordinatorExclusive

IInv ==
  /\ TypeOK
  /\ RowsFollowStatus
  /\ \A j \in Jobs : WellPlaced(job[j])
  /\ Exclusive

\* Removing a computer stops what runs on it and forgets its assignments.
LEMMA DeleteAgentStep ==
  ASSUME IInv, NEW a \in Agents, DeleteAgent(a)
  PROVE  TypeOK' /\ Quiet /\ (\A j \in Jobs : WellPlaced(job[j]))'
<1> DEFINE forget(J) == [J EXCEPT !.row = [r \in Ranks |->
                           IF \E x \in J.spec : x.rank = r /\ x.agent = a
                           THEN "none" ELSE J.row[r]]]
<1>1. /\ agent' \in [Agents -> AgentRow]
      /\ \A b \in Agents : agent'[b].row = IF b = a THEN "deleted" ELSE agent[b].row
  <2> DEFINE new == [agent[a] EXCEPT !.row = "deleted", !.token = FALSE, !.enabled = FALSE,
                                     !.shared = {}, !.silence = 0]
  <2>1. new \in AgentRow /\ new.row = "deleted"
    <3>1. agent[a] \in AgentRow /\ 0 \in 0 .. OfflineAfter
      BY ConstantsAssumption DEF IInv, TypeOK
    <3>. QED
      BY <3>1 DEF AgentRow
  <2>2. agent' = [agent EXCEPT ![a] = new]
    BY DEF DeleteAgent, IInv, TypeOK
  <2>. QED
    BY <2>1, <2>2 DEF IInv, TypeOK
<1>2. ASSUME NEW k \in Jobs
      PROVE  Evolves(job[k], job'[k]) /\ WellPlaced(job[k])'
  <2> DEFINE J == job[k]
             W == Withdrawn(J, a, Devices)
             F == forget(W)
  <2>1. J \in JobRow /\ RowsAgree(J) /\ WellPlaced(J)
    BY DEF IInv, TypeOK, RowsFollowStatus
  <2>2. /\ Evolves(J, W) /\ W \in JobRow /\ RowsAgree(W)
        /\ W.spec = J.spec
        /\ W.status = "draft" => W = J
    BY <2>1, WithdrawnEvolves DEF Evolves
  <2>3. /\ F.status = W.status /\ F.spec = W.spec /\ F.url = W.url /\ F.age = W.age
        /\ F.row = [r \in Ranks |-> IF \E x \in W.spec : x.rank = r /\ x.agent = a
                                    THEN "none" ELSE W.row[r]]
    BY <2>2 DEF JobRow
  <2>4. F \in JobRow
    <3>1. F.row \in [Ranks -> RowState]
      BY <2>2, <2>3 DEF JobRow, RowState
    <3>. QED
      BY <2>2, <2>3, <3>1 DEF JobRow
  <2>5. RowsAgree(F)
    <3>1. CASE W.status \in {"preparing", "running"}
      <4>1. W = J /\ ~Hit(J, a, Devices)
        BY <2>1, <3>1 DEF Withdrawn, Stopped, JobRow
      <4>2. \A x \in W.spec : x.agent = a => W.row[x.rank] = "none"
        BY <2>1, <3>1, <4>1 DEF Hit, RowsOn, JobRow, Assignment
      <4>3. F.row = W.row
        BY <2>2, <2>3, <4>2 DEF JobRow
      <4>. QED
        BY <2>2, <2>3, <4>3 DEF RowsAgree, RowsIn
    <3>2. CASE W.status \notin {"preparing", "running"}
      <4>1. \A S : RowsIn(W, S) => RowsIn(F, S)
        BY <2>3 DEF RowsIn
      <4>. QED
        BY <2>2, <2>3, <3>2, <4>1 DEF RowsAgree
    <3>. QED
      BY <3>1, <3>2
  <2>6. Evolves(W, F)
    BY <2>3, <2>4, <2>5 DEF Evolves, Held
  <2>7. job'[k] = F
    BY DEF DeleteAgent
  <2>8. F.status = "draft" =>
          \A x \in F.spec : F.row[x.rank] = "none" => agent'[x.agent].row = "deleted"
    <3> SUFFICES ASSUME F.status = "draft", NEW x \in F.spec, F.row[x.rank] = "none"
                 PROVE  agent'[x.agent].row = "deleted"
      OBVIOUS
    <3>1. W = J /\ x \in J.spec /\ x.rank \in Ranks /\ x.agent \in Agents
      BY <2>1, <2>2, <2>3 DEF JobRow, Assignment
    <3>2. CASE J.row[x.rank] = "none"
      BY <1>1, <2>1, <2>2, <2>3, <3>1, <3>2 DEF WellPlaced
    <3>3. CASE \E y \in J.spec : y.rank = x.rank /\ y.agent = a
      BY <1>1, <2>1, <3>1, <3>3 DEF WellPlaced
    <3>. QED
      BY <2>3, <3>1, <3>2, <3>3
  <2>9. WellPlaced(job[k])'
    <3>1. job'[k].spec = J.spec /\ job'[k].status = F.status /\ job'[k].row = F.row
      BY <2>2, <2>3, <2>7
    <3>2. \A x, y \in job'[k].spec : x.rank = y.rank \/ SameResource(x, y) => x = y
      BY <2>1, <3>1 DEF WellPlaced
    <3>3. job'[k].status = "draft" =>
            /\ job'[k].spec # {}
            /\ \A x \in job'[k].spec : job'[k].row[x.rank] = "none" => agent'[x.agent].row = "deleted"
      BY <2>1, <2>2, <2>3, <2>8, <3>1 DEF WellPlaced
    <3>. QED
      BY <3>2, <3>3 DEF WellPlaced, SameResource
  <2>. QED
    BY <2>2, <2>6, <2>7, <2>9, EvolvesTransitive
<1>3. job' \in [Jobs -> JobRow]
  BY <1>2 DEF DeleteAgent, Evolves
<1>. QED
  BY <1>1, <1>2, <1>3 DEF DeleteAgent, IInv, TypeOK, Quiet

\* A step that reserves nothing keeps every reservation exclusive.
LEMMA QuietKeepsExclusive ==
  ASSUME TypeOK, Exclusive, Quiet
  PROVE  Exclusive'
<1>1. \A k \in Jobs : \A x \in job'[k].spec : Holds(k, x)' => Holds(k, x)
  BY DEF Quiet, Evolves, Holds, Row, TypeOK, JobRow, Assignment
<1>2. \A k \in Jobs : /\ job'[k].spec = job[k].spec
                      /\ job'[k].url = job[k].url
                      /\ Holding(job[k])' => Holding(job[k])
  BY DEF Quiet, Evolves, Holding
<1>3. DeviceExclusive'
  BY <1>1, <1>2 DEF Exclusive, DeviceExclusive
<1>4. GpuExclusive'
  BY <1>1, <1>2 DEF Exclusive, GpuExclusive
<1>5. CoordinatorExclusive'
  BY <1>2 DEF Exclusive, CoordinatorExclusive
<1>. QED
  BY <1>3, <1>4, <1>5 DEF Exclusive

LEMMA QuietKeepsIInv ==
  ASSUME IInv, TypeOK', Quiet, Settled
  PROVE  IInv'
<1>1. RowsFollowStatus'
  BY DEF Quiet, Evolves, RowsFollowStatus
<1>2. ASSUME NEW k \in Jobs PROVE WellPlaced(job[k])'
  <2>1. /\ WellPlaced(job[k]) /\ job[k] \in JobRow
        /\ job'[k].spec = job[k].spec
        /\ job'[k].status = "draft" => job[k].status = "draft" /\ job'[k].row = job[k].row
    BY DEF IInv, Quiet, Evolves, Idle, Settled, TypeOK
  <2>2. job'[k].status = "draft" =>
          /\ job'[k].spec # {}
          /\ \A x \in job'[k].spec : job'[k].row[x.rank] = "none" => agent'[x.agent].row = "deleted"
    BY <2>1 DEF WellPlaced, Settled, JobRow, Assignment
  <2>. QED
    BY <2>1, <2>2 DEF WellPlaced, SameResource
<1>3. Exclusive'
  BY QuietKeepsExclusive DEF IInv
<1>. QED
  BY <1>1, <1>2, <1>3 DEF IInv

\* create_job: a draft reserves nothing, and preview has placed it well.
LEMMA CreateJobStep ==
  ASSUME IInv, NEW j \in Jobs, NEW port \in Ports, CreateJob(j, port)
  PROVE  IInv'
<1>1. PICK S, x0 :
        /\ S \in Selections
        /\ x0 \in S
        /\ PreviewOk(S)
        /\ job' = [job EXCEPT ![j] =
             [status |-> "draft", spec |-> S, url |-> <<AddressOf[x0.agent], port>>, age |-> 0,
              row |-> [r \in Ranks |-> IF \E y \in S : y.rank = r THEN "pending" ELSE "none"]]]
  BY DEF CreateJob
<1> DEFINE D == [status |-> "draft", spec |-> S, url |-> <<AddressOf[x0.agent], port>>, age |-> 0,
                 row |-> [r \in Ranks |-> IF \E y \in S : y.rank = r THEN "pending" ELSE "none"]]
<1>2. S \subseteq Assignment /\ \A x, y \in S : x.rank = y.rank => x = y
  <2>1. PICK n, s :
          /\ n \in 1 .. MaxWorld
          /\ s \in [0 .. (n - 1) -> Agents \X Devices]
          /\ S = {[rank |-> r, agent |-> s[r][1], device |-> s[r][2],
                    host |-> agent[s[r][1]].caps.host] : r \in DOMAIN s}
    BY <1>1 DEF Selections
  <2>2. ASSUME NEW r \in 0 .. (n - 1)
        PROVE  [rank |-> r, agent |-> s[r][1], device |-> s[r][2],
                host |-> agent[s[r][1]].caps.host] \in Assignment
    <3>1. r \in Ranks
      <4>1. n \in 1 .. MaxWorld /\ MaxWorld \in Nat
        BY <2>1, ConstantsAssumption
      <4>. QED
        BY <4>1 DEF Ranks
    <3>2. s[r][1] \in Agents /\ s[r][2] \in Devices
      BY <2>1
    <3>3. agent[s[r][1]].caps.host \in Hosts
      BY <3>2 DEF IInv, TypeOK, AgentRow, Capabilities
    <3>. QED
      BY <3>1, <3>2, <3>3 DEF Assignment
  <2>. QED
    BY <2>1, <2>2
<1>3. D \in JobRow
  <2>1. <<AddressOf[x0.agent], port>> \in Urls
    BY <1>1, <1>2 DEF Urls, Assignment
  <2>2. D.row \in [Ranks -> RowState]
    BY DEF RowState
  <2>3. 0 \in 0 .. (PrepTimeout + 1)
    BY ConstantsAssumption
  <2>. QED
    BY <1>2, <2>1, <2>2, <2>3 DEF JobRow, JobStatus
<1>4. job'[j] = D /\ \A k \in Jobs \ {j} : job'[k] = job[k]
  BY <1>1 DEF IInv, TypeOK
<1>5. TypeOK'
  BY <1>1, <1>3 DEF CreateJob, IInv, TypeOK
<1>6. RowsFollowStatus'
  <2>1. RowsAgree(D)
    BY DEF RowsAgree, RowsIn
  <2>. QED
    BY <1>4, <2>1 DEF IInv, RowsFollowStatus
<1>7. ASSUME NEW k \in Jobs PROVE WellPlaced(job[k])'
  <2>1. CASE k = j
    <3>1. \A x, y \in S : SameResource(x, y) => x = y
      BY <1>1 DEF PreviewOk, SameResource
    <3>2. \A x \in S : x.rank \in Ranks /\ D.row[x.rank] = "pending"
      BY <1>2 DEF Assignment
    <3>. QED
      BY <1>1, <1>2, <1>4, <2>1, <3>1, <3>2 DEF WellPlaced, SameResource
  <2>2. CASE k # j
    BY <1>4, <2>2 DEF IInv, WellPlaced, SameResource, CreateJob
  <2>. QED
    BY <2>1, <2>2
<1>8. Exclusive'
  <2>1. ~Holding(job[j])' /\ \A x \in job'[j].spec : ~Holds(j, x)'
    BY <1>2, <1>4 DEF Holding, Holds, Row, Held, Assignment
  <2>2. \A k \in Jobs \ {j} : /\ Holding(job[k])' = Holding(job[k])
                              /\ \A x : Holds(k, x)' = Holds(k, x)
    BY <1>4 DEF Holding, Holds, Row
  <2>3. DeviceExclusive'
    BY <1>4, <2>1, <2>2 DEF IInv, Exclusive, DeviceExclusive
  <2>4. GpuExclusive'
    BY <1>4, <2>1, <2>2 DEF IInv, Exclusive, GpuExclusive
  <2>5. CoordinatorExclusive'
    BY <1>4, <2>1, <2>2 DEF IInv, Exclusive, CoordinatorExclusive
  <2>. QED
    BY <2>3, <2>4, <2>5 DEF Exclusive
<1>. QED
  BY <1>5, <1>6, <1>7, <1>8 DEF IInv

\* start_job: the checks against other jobs, and preview's against itself.
LEMMA StartJobStep ==
  ASSUME IInv, NEW j \in Jobs, StartJob(j)
  PROVE  IInv'
<1> DEFINE J == job[j]
           K == [J EXCEPT !.status = "preparing", !.age = 0,
                          !.row = [r \in Ranks |-> IF J.row[r] = "none" THEN "none" ELSE "preparing"]]
<1>1. J \in JobRow /\ RowsAgree(J) /\ WellPlaced(J) /\ J.status = "draft"
  BY DEF IInv, TypeOK, RowsFollowStatus, StartJob
<1>2. /\ K.status = "preparing" /\ K.spec = J.spec /\ K.url = J.url
      /\ K.row = [r \in Ranks |-> IF J.row[r] = "none" THEN "none" ELSE "preparing"]
      /\ K \in JobRow
  <2>1. /\ [r \in Ranks |-> IF J.row[r] = "none" THEN "none" ELSE "preparing"] \in [Ranks -> RowState]
        /\ 0 \in 0 .. (PrepTimeout + 1) /\ "preparing" \in JobStatus
    BY ConstantsAssumption DEF RowState, Held, JobStatus
  <2>. QED
    BY <1>1, <2>1 DEF JobRow
<1>3. job'[j] = K /\ (\A k \in Jobs \ {j} : job'[k] = job[k]) /\ UNCHANGED agent
  BY DEF StartJob, IInv, TypeOK
<1>4. TypeOK'
  <2>1. job' \in [Jobs -> JobRow]
    BY <1>2, <1>3 DEF StartJob, IInv, TypeOK
  <2>. QED
    BY <2>1 DEF StartJob, IInv, TypeOK
<1>5. \A x \in J.spec : x.rank \in Ranks /\ J.row[x.rank] # "none"
  <2>1. \A x \in J.spec : agent[x.agent].row = "paired"
    BY DEF StartJob, PreviewOk, Eligible
  <2>. QED
    BY <1>1, <2>1 DEF WellPlaced, JobRow, Assignment
<1>6. RowsFollowStatus'
  <2>1. RowsAgree(K)
    <3>1. PICK x : x \in J.spec
      BY <1>1 DEF WellPlaced
    <3>2. x.rank \in Ranks /\ K.row[x.rank] = "preparing"
      BY <1>2, <1>5, <3>1
    <3>. QED
      BY <1>2, <3>2 DEF RowsAgree, RowsIn
  <2>. QED
    BY <1>3, <2>1 DEF IInv, RowsFollowStatus
<1>7. ASSUME NEW k \in Jobs PROVE WellPlaced(job[k])'
  <2>1. CASE k = j
    <3>1. job'[k].spec = J.spec /\ job'[k].status = "preparing"
      BY <1>2, <1>3, <2>1
    <3>2. \A x, y \in J.spec : x.rank = y.rank \/ SameResource(x, y) => x = y
      BY <1>1 DEF WellPlaced
    <3>. QED
      BY <3>1, <3>2 DEF WellPlaced, SameResource
  <2>2. CASE k # j
    BY <1>3, <2>2 DEF IInv, WellPlaced, SameResource
  <2>. QED
    BY <2>1, <2>2
<1>8. \A k \in Jobs \ {j} : /\ Holding(job[k])' = Holding(job[k])
                            /\ \A x : Holds(k, x)' = Holds(k, x)
  BY <1>3 DEF Holding, Holds, Row
\* Whatever another job holds is neither a device, nor a GPU, nor the address of J.
<1>9. ASSUME NEW k \in Jobs \ {j}, NEW y \in job[k].spec, Holds(k, y), NEW x \in J.spec
      PROVE  ~SameResource(x, y)
  <2>1. job[k] \in JobRow /\ y.rank \in Ranks /\ job[k].row[y.rank] \in Held
    BY <1>9 DEF IInv, TypeOK, JobRow, Assignment, Holds, Row
  <2>2. ~Reserves(job[k], x) /\ Holding(job[k])
    BY <2>1 DEF StartJob, Holding
  <2>3. ~ShareGpu(J, job[k])
    BY <2>2 DEF StartJob, Clashes
  <2>. QED
    BY <2>1, <2>2, <2>3 DEF SameResource, Reserves, ShareGpu
<1>10. ASSUME NEW k \in Jobs, NEW l \in Jobs, NEW x \in job'[k].spec, NEW y \in job'[l].spec,
              Holds(k, x)', Holds(l, y)', SameResource(x, y) \/ SameResource(y, x)
       PROVE  k = l /\ x = y
  <2>1. CASE k = j /\ l = j
    BY <1>1, <1>2, <1>3, <1>10, <2>1 DEF WellPlaced
  <2>2. CASE k = j /\ l # j
    <3>1. x \in J.spec /\ y \in job[l].spec /\ Holds(l, y)
      BY <1>2, <1>3, <1>8, <1>10, <2>2
    <3>. QED
      BY <1>9, <1>10, <2>2, <3>1 DEF SameResource
  <2>3. CASE k # j /\ l = j
    <3>1. y \in J.spec /\ x \in job[k].spec /\ Holds(k, x)
      BY <1>2, <1>3, <1>8, <1>10, <2>3
    <3>. QED
      BY <1>9, <1>10, <2>3, <3>1 DEF SameResource
  <2>4. CASE k # j /\ l # j
    <3>1. x \in job[k].spec /\ y \in job[l].spec /\ Holds(k, x) /\ Holds(l, y)
      BY <1>3, <1>8, <1>10, <2>4
    <3>. QED
      BY <1>10, <3>1 DEF IInv, Exclusive, DeviceExclusive, GpuExclusive, SameResource
  <2>. QED
    BY <2>1, <2>2, <2>3, <2>4
<1>11. DeviceExclusive'
  BY <1>10 DEF DeviceExclusive, SameResource
<1>12. GpuExclusive'
  BY <1>10 DEF GpuExclusive, SameResource
<1>13. CoordinatorExclusive'
  <2>1. \A k \in Jobs : Holding(job[k]) => job[k].url # J.url
    BY DEF StartJob, Clashes
  <2>2. job'[j].url = J.url /\ \A k \in Jobs \ {j} : job'[k].url = job[k].url
    BY <1>2, <1>3
  <2>3. \A k, l \in Jobs : Holding(job[k]) /\ Holding(job[l]) /\ job[k].url = job[l].url => k = l
    BY DEF IInv, Exclusive, CoordinatorExclusive
  <2>4. ASSUME NEW k \in Jobs, NEW l \in Jobs,
               Holding(job[k])', Holding(job[l])', job'[k].url = job'[l].url
        PROVE  k = l
    BY <1>8, <2>1, <2>2, <2>3, <2>4
  <2>. QED
    BY <2>4 DEF CoordinatorExclusive
<1>. QED
  BY <1>4, <1>6, <1>7, <1>11, <1>12, <1>13 DEF IInv, Exclusive

-----------------------------------------------------------------------------
LEMMA InitIInv ==
  ASSUME Init
  PROVE  IInv
<1>1. TypeOK
  <2>1. membership \in [Clusters -> [Users -> MemberStatus]]
    BY DEF Init, MemberStatus
  <2>2. NoJob \in JobRow
    <3>1. [r \in Ranks |-> "none"] \in [Ranks -> RowState]
      BY DEF RowState
    <3>2. "none" \in JobStatus /\ 0 \in 0 .. (PrepTimeout + 1)
      BY ConstantsAssumption DEF JobStatus
    <3>. QED
      BY <3>1, <3>2 DEF NoJob, JobRow
  <2>. QED
    BY <2>1, <2>2 DEF Init, TypeOK
<1>2. \A j \in Jobs : /\ job[j].status = "none" /\ job[j].spec = {}
                      /\ \A r \in Ranks : job[j].row[r] = "none"
  BY DEF Init, NoJob
<1>3. RowsFollowStatus
  BY <1>2 DEF RowsFollowStatus, RowsAgree, RowsIn
<1>4. \A j \in Jobs : WellPlaced(job[j])
  BY <1>2 DEF WellPlaced
<1>5. Exclusive
  BY <1>2 DEF Exclusive, DeviceExclusive, GpuExclusive, CoordinatorExclusive, Holding, Held
<1>. QED
  BY <1>1, <1>3, <1>4, <1>5 DEF IInv

\* Every step but the creation and the start of a job is quiet.
LEMMA NextCases ==
  ASSUME IInv, [Next]_vars
  PROVE  \/ IInv' /\ Quiet
         \/ \E j \in Jobs, port \in Ports : CreateJob(j, port)
         \/ \E j \in Jobs : StartJob(j)
<1>0. TypeOK /\ RowsFollowStatus
  BY DEF IInv
<1>1. ASSUME NEW c \in Clusters, CreateCluster(c)
      PROVE  TypeOK' /\ Quiet /\ Settled
  <2>1. OwnerOf[c] \in Users
    BY ConstantsAssumption
  <2>. QED
    BY <1>0, <1>1, <2>1, MembershipStep
<1>2. ASSUME NEW c \in Clusters, NEW u \in Users,
             \/ RequestJoin(c, u)
             \/ Approve(c, u)
             \/ Expel(c, u, "rejected")
             \/ Expel(c, u, "revoked")
             \/ \E id \in Codes : CreatePairing(id, c, u)
      PROVE  TypeOK' /\ Quiet /\ Settled
  BY <1>0, <1>2, MembershipStep
<1>3. ASSUME NEW a \in Agents,
             \/ \E k \in codes, caps \in Reports[a], shared \in SUBSET Devices :
                  PairAgent(a, k, caps, shared)
             \/ \E shared \in SUBSET Devices, enabled \in BOOLEAN : SetSharing(a, shared, enabled)
             \/ \E caps \in Reports[a] : Heartbeat(a, caps)
             \/ PollWorker(a)
      PROVE  TypeOK' /\ Quiet /\ Settled
  BY <1>0, <1>3, AgentStep
<1>4. ASSUME NEW a \in Agents, NEW j \in Jobs, NEW r \in Ranks, NEW state \in ReportStates,
             Report(a, j, r, state)
      PROVE  TypeOK' /\ Quiet /\ Settled
  BY <1>0, <1>4, ReportStep
<1>5. ASSUME NEW a \in Agents, DeleteAgent(a)
      PROVE  IInv' /\ Quiet
  <2>1. TypeOK' /\ Quiet /\ (\A j \in Jobs : WellPlaced(job[j]))'
    BY <1>5, DeleteAgentStep
  <2>2. RowsFollowStatus'
    BY <2>1 DEF Quiet, Evolves, RowsFollowStatus
  <2>3. Exclusive'
    BY <2>1, QuietKeepsExclusive DEF IInv
  <2>. QED
    BY <2>1, <2>2, <2>3 DEF IInv
<1>6. ASSUME NEW j \in Jobs, CancelJob(j)
      PROVE  TypeOK' /\ Quiet /\ Settled
  BY <1>0, <1>6, CancelStep
<1>7. ASSUME Reconcile PROVE TypeOK' /\ Quiet /\ Settled
  BY <1>0, <1>7, ReconcileStep
<1>8. ASSUME Tick PROVE TypeOK' /\ Quiet /\ Settled
  BY <1>0, <1>8, TickStep
<1>9. ASSUME UNCHANGED vars PROVE TypeOK' /\ Quiet /\ Settled
  <2>1. UNCHANGED membership /\ UNCHANGED codes /\ UNCHANGED agent /\ UNCHANGED job
    BY <1>9 DEF vars
  <2>2. Quiet
    BY <1>0, <2>1, JobsStay
  <2>. QED
    BY <1>0, <2>1, <2>2 DEF TypeOK, Settled
<1>10. \/ TypeOK' /\ Quiet /\ Settled
       \/ IInv' /\ Quiet
       \/ \E j \in Jobs, port \in Ports : CreateJob(j, port)
       \/ \E j \in Jobs : StartJob(j)
  BY <1>1, <1>2, <1>3, <1>4, <1>5, <1>6, <1>7, <1>8, <1>9 DEF Next, OwnerCall
<1>11. TypeOK' /\ Quiet /\ Settled => IInv'
  BY QuietKeepsIInv
<1>. QED
  BY <1>10, <1>11

\* The tables stay typed, the rows of a job agree with its status, placements
\* keep what preview checked, and every reservation is exclusive.
THEOREM InductiveInvariant == Spec => []IInv
<1>1. IInv /\ [Next]_vars => IInv'
  BY NextCases, CreateJobStep, StartJobStep
<1>. QED
  BY <1>1, InitIInv, PTL DEF Spec

\* Every table keeps its columns' types, for any number of users, agents and jobs.
THEOREM TypeCorrect == Spec => []TypeOK
BY InductiveInvariant, PTL DEF IInv

\* The assignments of a job are always in states its status allows.
THEOREM RowsAlwaysFollowStatus == Spec => []RowsFollowStatus
BY InductiveInvariant, PTL DEF IInv

\* No device of an agent is reserved for two ranks, whatever owners, contributors
\* and workers do.
THEOREM DevicesAreExclusive == Spec => []DeviceExclusive
BY InductiveInvariant, PTL DEF IInv, Exclusive

\* No physical GPU is reserved twice, even through several agent identities.
THEOREM GpusAreExclusive == Spec => []GpuExclusive
BY InductiveInvariant, PTL DEF IInv, Exclusive

\* No two jobs that reserve anything use one coordinator address and port.
THEOREM CoordinatorsAreExclusive == Spec => []CoordinatorExclusive
BY InductiveInvariant, PTL DEF IInv, Exclusive

-----------------------------------------------------------------------------
(***************************************************************************)
(* Refinement: the coordinator implements Reservations.  A quiet step and  *)
(* the creation of a draft only give things back; a start is the step      *)
(* Acquire.                                                                *)
(***************************************************************************)

HeldBy == [j \in Jobs |-> Reserved(job[j])]

LEMMA ReservedIsResources ==
  ASSUME NEW J \in JobRow
  PROVE  Reserved(J) \subseteq Resources
<1> SUFFICES ASSUME NEW t \in Reserved(J)
             PROVE  t \in Resources
  OBVIOUS
<1>1. CASE t \in {<<"url", J.url>> : x \in J.spec}
  BY <1>1 DEF Resources, JobRow
<1>2. CASE \E x \in J.spec : t = <<"device", x.agent, x.device>>
  BY <1>2 DEF Resources, JobRow, Assignment
<1>3. CASE \E x \in J.spec : t = <<"gpu", x.host, x.device>> /\ x.device \in GpuDevices
  BY <1>3 DEF Resources, JobRow, Assignment
<1>. QED
  BY <1>1, <1>2, <1>3 DEF Reserved

\* What two placements reserve is disjoint if no held ranks of theirs share a
\* device, a physical GPU or the coordinator's address.
LEMMA ReservedDisjoint ==
  ASSUME NEW J, NEW K,
         \A x \in J.spec, y \in K.spec :
           J.row[x.rank] \in Held /\ K.row[y.rank] \in Held =>
             ~SameResource(x, y) /\ J.url # K.url
  PROVE  Reserved(J) \cap Reserved(K) = {}
<1> DEFINE S(L) == {x \in L.spec : L.row[x.rank] \in Held}
<1>1. \A x \in S(J), y \in S(K) :
        /\ ~(x.agent = y.agent /\ x.device = y.device)
        /\ ~(x.device \in GpuDevices /\ x.host = y.host /\ x.device = y.device)
        /\ J.url # K.url
  BY DEF SameResource
<1> SUFFICES ASSUME NEW t, t \in Reserved(J), t \in Reserved(K)
             PROVE  FALSE
  OBVIOUS
<1>2. CASE t \in {<<"device", x.agent, x.device>> : x \in S(J)}
  BY <1>1, <1>2 DEF Reserved
<1>3. CASE t \in {<<"gpu", x.host, x.device>> : x \in {y \in S(J) : y.device \in GpuDevices}}
  BY <1>1, <1>3 DEF Reserved
<1>4. CASE t \in {<<"url", J.url>> : x \in S(J)}
  BY <1>1, <1>4 DEF Reserved
<1>. QED
  BY <1>2, <1>3, <1>4 DEF Reserved

LEMMA IdleReservesNothing ==
  ASSUME NEW J \in JobRow, RowsAgree(J), J.status \in Idle
  PROVE  Reserved(J) = {}
BY DEF Reserved, RowsAgree, RowsIn, Idle, Held, JobRow, Assignment

LEMMA EvolvedReservesLess ==
  ASSUME NEW J \in JobRow, NEW K, Evolves(J, K)
  PROVE  Reserved(K) \subseteq Reserved(J)
BY DEF Reserved, Evolves, JobRow, Assignment

\* The coordinator implements the reservations it promises: all at once, nothing
\* that is taken, and once per job.
THEOREM CoordinatorReservesAtomically == Spec => ReservesAtomically
<1>1. Init => ReservationSpec!Init
  <2> SUFFICES ASSUME Init PROVE ReservationSpec!Init
    OBVIOUS
  <2>1. IInv
    BY InitIInv
  <2>2. \A j \in Jobs : job[j].status = "none"
    BY DEF Init, NoJob
  <2>3. \A j \in Jobs : Reserved(job[j]) = {}
    BY <2>1, <2>2, IdleReservesNothing DEF IInv, TypeOK, RowsFollowStatus, Idle
  <2>. QED
    BY <2>2, <2>3 DEF ReservationSpec!Init, NotStarted
<1>2. IInv /\ IInv' /\ [Next]_vars => [ReservationSpec!Next]_<<NotStarted, HeldBy>>
  <2> SUFFICES ASSUME IInv, IInv', [Next]_vars PROVE ReservationSpec!Next
    OBVIOUS
  <2>0. \A k \in Jobs : /\ job[k] \in JobRow /\ RowsAgree(job[k])
                        /\ job'[k] \in JobRow /\ RowsAgree(job'[k])
    BY DEF IInv, TypeOK, RowsFollowStatus
  <2>1. CASE Quiet
    <3>1. NotStarted' \subseteq NotStarted
      BY <2>1 DEF Quiet, Evolves, NotStarted, Idle
    <3>2. \A k \in Jobs : Reserved(job'[k]) \subseteq Reserved(job[k])
      BY <2>0, <2>1, EvolvedReservesLess DEF Quiet
    <3>3. \A k \in Jobs : Reserved(job'[k]) \subseteq Resources
      BY <2>0, ReservedIsResources
    <3>. QED
      BY <3>1, <3>2, <3>3 DEF ReservationSpec!Next, ReservationSpec!Release
  <2>2. CASE \E j \in Jobs, port \in Ports : CreateJob(j, port)
    <3>1. PICK j \in Jobs : /\ job[j].status = "none" /\ job'[j].status = "draft"
                            /\ \A k \in Jobs \ {j} : job'[k] = job[k]
      BY <2>2 DEF CreateJob, IInv, TypeOK
    <3>2. NotStarted' = NotStarted
      BY <3>1 DEF NotStarted
    <3>3. Reserved(job[j]) = {} /\ Reserved(job'[j]) = {}
      BY <2>0, <3>1, IdleReservesNothing DEF Idle
    <3>4. \A k \in Jobs : Reserved(job'[k]) \subseteq Reserved(job[k])
      BY <3>1, <3>3
    <3>5. \A k \in Jobs : Reserved(job'[k]) \subseteq Resources
      BY <2>0, ReservedIsResources
    <3>. QED
      BY <3>2, <3>4, <3>5 DEF ReservationSpec!Next, ReservationSpec!Release
  <2>3. CASE \E j \in Jobs : StartJob(j)
    <3>1. PICK j \in Jobs : /\ job[j].status = "draft" /\ job'[j].status = "preparing"
                            /\ \A k \in Jobs \ {j} : job'[k] = job[k]
      BY <2>3 DEF StartJob, IInv, TypeOK, JobRow
    <3>2. j \in NotStarted /\ NotStarted' = NotStarted \ {j}
      BY <3>1 DEF NotStarted
    <3>3. Reserved(job[j]) = {}
      BY <2>0, <3>1, IdleReservesNothing DEF Idle
    <3>4. \A d \in Jobs : Reserved(job[d]) \cap Reserved(job'[j]) = {}
      <4>1. ASSUME NEW d \in Jobs \ {j}
            PROVE  Reserved(job'[d]) \cap Reserved(job'[j]) = {}
        <5>1. ASSUME NEW x \in job'[d].spec, NEW y \in job'[j].spec,
                     job'[d].row[x.rank] \in Held, job'[j].row[y.rank] \in Held
              PROVE  ~SameResource(x, y) /\ job'[d].url # job'[j].url
          <6>1. Holds(d, x)' /\ Holds(j, y)'
            BY <5>1 DEF Holds, Row
          <6>2. Holding(job[d])' /\ Holding(job[j])'
            BY <2>0, <5>1 DEF Holding, JobRow, Assignment
          <6>. QED
            BY <4>1, <5>1, <6>1, <6>2
               DEF IInv, Exclusive, DeviceExclusive, GpuExclusive, CoordinatorExclusive, SameResource
        <5>. QED
          BY <5>1, ReservedDisjoint
      <4>. QED
        BY <3>1, <3>3, <4>1
    <3>5. Reserved(job'[j]) \subseteq Resources
      BY <2>0, ReservedIsResources
    <3>6. \A k \in Jobs \ {j} : Reserved(job'[k]) = Reserved(job[k])
      BY <3>1
    <3>7. ReservationSpec!Acquire(j)
      BY <3>2, <3>4, <3>5, <3>6 DEF ReservationSpec!Acquire
    <3>. QED
      BY <3>7 DEF ReservationSpec!Next
  <2>. QED
    BY <2>1, <2>2, <2>3, NextCases
<1>. QED
  BY <1>1, <1>2, InductiveInvariant, PTL DEF Spec, ReservesAtomically, ReservationSpec!Spec, HeldBy

\* What Reservations promises is enough for exclusive use: nothing that only grows
\* by an acquisition of what is free, and otherwise shrinks, is ever held twice.
LEMMA AcquiringIsExclusive == ReservationSpec!Spec => []ReservationSpec!Exclusive
<1> DEFINE Inv == HeldBy \in [Jobs -> SUBSET Resources] /\ ReservationSpec!Exclusive
<1>1. ReservationSpec!Init => Inv
  BY DEF ReservationSpec!Init, ReservationSpec!Exclusive, HeldBy
<1>2. Inv /\ [ReservationSpec!Next]_<<NotStarted, HeldBy>> => Inv'
  <2> SUFFICES ASSUME Inv, [ReservationSpec!Next]_<<NotStarted, HeldBy>> PROVE Inv'
    OBVIOUS
  <2>1. ASSUME NEW j \in Jobs, ReservationSpec!Acquire(j) PROVE Inv'
    <3>1. /\ HeldBy'[j] \subseteq Resources
          /\ \A k \in Jobs : HeldBy[k] \cap HeldBy'[j] = {}
          /\ HeldBy' = [HeldBy EXCEPT ![j] = HeldBy'[j]]
      BY <2>1 DEF ReservationSpec!Acquire, HeldBy
    <3>2. /\ \A k \in Jobs \ {j} : HeldBy'[k] = HeldBy[k]
          /\ HeldBy' \in [Jobs -> SUBSET Resources]
      BY <3>1
    <3>3. \A k, l \in Jobs : k # l => HeldBy[k] \cap HeldBy[l] = {}
      BY DEF ReservationSpec!Exclusive, HeldBy
    <3>4. \A k, l \in Jobs : k # l => HeldBy'[k] \cap HeldBy'[l] = {}
      BY <3>1, <3>2, <3>3
    <3>. QED
      BY <3>2, <3>4 DEF ReservationSpec!Exclusive, HeldBy
  <2>2. CASE ReservationSpec!Release
    <3>1. /\ HeldBy' \in [Jobs -> SUBSET Resources]
          /\ \A k \in Jobs : HeldBy'[k] \subseteq HeldBy[k]
      BY <2>2 DEF ReservationSpec!Release, HeldBy
    <3>2. \A k, l \in Jobs : k # l => HeldBy[k] \cap HeldBy[l] = {}
      BY DEF ReservationSpec!Exclusive, HeldBy
    <3>3. \A k, l \in Jobs : k # l => HeldBy'[k] \cap HeldBy'[l] = {}
      BY <3>1, <3>2
    <3>. QED
      BY <3>1, <3>3 DEF ReservationSpec!Exclusive, HeldBy
  <2>3. CASE UNCHANGED <<NotStarted, HeldBy>>
    BY <2>3 DEF ReservationSpec!Exclusive, HeldBy
  <2>. QED
    BY <2>1, <2>2, <2>3 DEF ReservationSpec!Next
<1>. QED
  BY <1>1, <1>2, PTL DEF ReservationSpec!Spec, HeldBy

\* Nothing that a job reserves, a device, a physical GPU or the coordinator's
\* address, is reserved by another: by the refinement alone.
THEOREM ReservationsAreExclusive == Spec => []ReservationSpec!Exclusive
BY CoordinatorReservesAtomically, AcquiringIsExclusive, PTL DEF ReservesAtomically

(***************************************************************************)
(* What a step may do to a job and to an agent, and what an active job can *)
(* rely on, on top of the inductive invariant.                             *)
(***************************************************************************)

Active == {"preparing", "running"}

(***************************************************************************)
(* J winds down into K: its status may only close, a rank is only told to  *)
(* stop, and only ranks of S are released.  This is what _stop, _withdraw  *)
(* and _reconcile do.                                                      *)
(***************************************************************************)
Winds(J, K, S) ==
  /\ K.spec = J.spec
  /\ \/ K.status = J.status
     \/ J.status \in Active /\ K.status \in {"cancelling", "failed"}
     \/ J.status = "cancelling" /\ K.status = "cancelled"
  /\ \A r \in Ranks :
       \/ K.row[r] = J.row[r]
       \/ J.row[r] \notin Finished \cup {"none"} /\ K.row[r] = "stopping"
       \/ J.row[r] \notin Finished \cup {"none"} /\ K.row[r] = "stopped" /\ r \in S

LEMMA StoppedType ==
  ASSUME NEW J \in JobRow, NEW st \in JobStatus
  PROVE  Stopped(J, st) \in JobRow
<1> DEFINE K == Stopped(J, st)
<1>1. /\ K.status = st /\ K.spec = J.spec /\ K.url = J.url /\ K.age = 0
      /\ K.row = [r \in Ranks |-> IF J.row[r] \in Finished \cup {"none"} THEN J.row[r] ELSE "stopping"]
  BY DEF Stopped, JobRow
<1>2. K.row \in [Ranks -> RowState]
  BY <1>1 DEF JobRow, RowState, Held
<1>3. 0 \in 0 .. (PrepTimeout + 1)
  BY ConstantsAssumption
<1>. QED
  BY <1>1, <1>2, <1>3 DEF JobRow, Stopped

\* _stop releases nothing.
LEMMA StoppedWinds ==
  ASSUME NEW J \in JobRow, J.status \in Active, NEW st \in {"cancelling", "failed"}
  PROVE  Winds(J, Stopped(J, st), {}) /\ Stopped(J, st).status = st
BY DEF Winds, Stopped, JobRow

\* _withdraw releases nothing.
LEMMA WithdrawnWinds ==
  ASSUME NEW J \in JobRow, NEW a, NEW removed
  PROVE  Winds(J, Withdrawn(J, a, removed), {})
<1>1. CASE Hit(J, a, removed)
  <2>1. J.status \in Active
    BY <1>1 DEF Hit, Active
  <2>. QED
    BY <1>1, <2>1, StoppedWinds DEF Withdrawn
<1>2. CASE ~Hit(J, a, removed)
  BY <1>2 DEF Withdrawn, Winds
<1>. QED
  BY <1>1, <1>2

\* The ranks of J whose agents are silent according to the table ag.
SilentRanks(J, ag) == {r \in Ranks : OnSilentAgent(J, r, ag)}

\* _reconcile releases only ranks whose agents are silent.
LEMMA ReconciledWinds ==
  ASSUME NEW J \in JobRow, NEW ag
  PROVE  Winds(J, Reconciled(J, ag), SilentRanks(J, ag))
<1>1. CASE ~Unsettled(J)
  BY <1>1 DEF Reconciled, Winds
<1>2. CASE Unsettled(J)
  <2> DEFINE E == IF Expired(J, ag) THEN Stopped(J, "failed") ELSE J
             R == Released(E, ag)
  <2>1. E \in JobRow /\ Winds(J, E, {}) /\ E.status \in {J.status, "failed"}
    <3>1. CASE Expired(J, ag)
      <4>1. J.status \in Active /\ "failed" \in JobStatus
        BY <3>1 DEF Expired, Active, JobStatus
      <4>. QED
        BY <3>1, <4>1, StoppedType, StoppedWinds
    <3>2. CASE ~Expired(J, ag)
      BY <3>2 DEF Winds
    <3>. QED
      BY <3>1, <3>2
  <2>2. /\ R.status = E.status /\ R.spec = E.spec
        /\ \A r \in Ranks : R.row[r] = IF E.row[r] = "stopping" /\ OnSilentAgent(E, r, ag)
                                       THEN "stopped" ELSE E.row[r]
    BY <2>1 DEF Released, JobRow
  <2>3. \A r \in Ranks : OnSilentAgent(E, r, ag) => r \in SilentRanks(J, ag)
    BY <2>1 DEF OnSilentAgent, SilentRanks, Winds
  <2>4. Winds(J, R, SilentRanks(J, ag))
    BY <2>1, <2>2, <2>3 DEF Winds, Finished
  <2>. QED
    BY <1>2, <2>4 DEF Reconciled, Winds
<1>. QED
  BY <1>1, <1>2
-----------------------------------------------------------------------------
(***************************************************************************)
(* What every handler but create_job and start_job does to a job J: its    *)
(* status goes forward, no rank is started, finished ranks stay, and an    *)
(* active job loses no rank.                                               *)
(***************************************************************************)
Follows(old, new) ==
  \/ old = new
  \/ old = "draft" /\ new = "cancelled"
  \/ old = "preparing" /\ new \in {"running", "cancelling", "failed"}
  \/ old = "running" /\ new \in {"completed", "cancelling", "failed"}
  \/ old = "cancelling" /\ new = "cancelled"

RowFollows(old, new) ==
  old # new =>
    /\ new \notin {"pending", "preparing"}
    /\ new = "ready" => old = "preparing"
    /\ new = "running" => old = "ready"
    /\ old \in Finished => new = "none"

Onward(J, K) ==
  /\ K.spec = J.spec
  /\ Follows(J.status, K.status)
  /\ \A r \in Ranks : RowFollows(J.row[r], K.row[r])
  /\ K.status \in Active =>
       J.status \in Active /\ \A r \in Ranks : K.row[r] = "none" => J.row[r] = "none"

\* The reservations that end in this step are those of the ranks R, of silent
\* agents and of a computer that is removed.
FreesOnly(j, R) ==
  \A x \in job[j].spec :
    Holds(j, x) /\ job'[j].row[x.rank] \notin Held =>
      \/ Silent(x.agent)
      \/ agent'[x.agent].row = "deleted"
      \/ x.rank \in R

GoesOn(j, R) == Onward(job[j], job'[j]) /\ FreesOnly(j, R)

\* A report of this ends the rank it is about.
Closing == {"stopped", "failed", "succeeded"}

LEMMA WoundOnward ==
  ASSUME NEW J \in JobRow, NEW K, NEW S, Winds(J, K, S)
  PROVE  Onward(J, K)
<1>1. \A r \in Ranks : RowFollows(J.row[r], K.row[r])
  BY DEF Winds, RowFollows, Finished
<1>2. \A r \in Ranks : K.row[r] = "none" => J.row[r] = "none"
  BY DEF Winds
<1>3. Follows(J.status, K.status) /\ (K.status \in Active => J.status \in Active)
  BY DEF Winds, Follows, Active
<1>. QED
  BY <1>1, <1>2, <1>3 DEF Onward, Winds

\* A job none of whose rows changes goes on.
LEMMA SameRowsGoOn ==
  ASSUME TypeOK, NEW j \in Jobs,
         job'[j].spec = job[j].spec, job'[j].row = job[j].row,
         \/ job'[j].status = job[j].status
         \/ job[j].status = "draft" /\ job'[j].status = "cancelled"
  PROVE  GoesOn(j, {})
<1>1. Onward(job[j], job'[j])
  BY DEF Onward, Follows, RowFollows, Active
<1>2. FreesOnly(j, {})
  BY DEF FreesOnly, Holds, Row
<1>. QED
  BY <1>1, <1>2 DEF GoesOn

\* Ranks placed on silent agents may be released when a job is wound down.
LEMMA WoundGoesOn ==
  ASSUME IInv, NEW j \in Jobs, NEW S,
         Winds(job[j], job'[j], S),
         \A x \in job[j].spec : x.rank \in S => Silent(x.agent)
  PROVE  GoesOn(j, {})
<1>1. job[j] \in JobRow
  BY DEF IInv, TypeOK
<1>2. FreesOnly(j, {})
  BY <1>1 DEF FreesOnly, Winds, Holds, Row, Held, JobRow, Assignment
<1>. QED
  BY <1>1, <1>2, WoundOnward DEF GoesOn

\* A rank is placed once, so the agent of a silent rank is the silent one.
LEMMA SilentRankAgent ==
  ASSUME IInv, NEW j \in Jobs, NEW x \in job[j].spec, x.rank \in SilentRanks(job[j], agent)
  PROVE  Silent(x.agent)
BY DEF IInv, WellPlaced, SilentRanks, OnSilentAgent, Silent

LEMMA ReconciledGoesOn ==
  ASSUME IInv, job' = ReconciledJobs(job, agent), NEW j \in Jobs
  PROVE  GoesOn(j, {})
<1>1. job[j] \in JobRow /\ job'[j] = Reconciled(job[j], agent)
  BY DEF IInv, TypeOK, ReconciledJobs
<1>. QED
  BY <1>1, ReconciledWinds, SilentRankAgent, WoundGoesOn

LEMMA WithdrawnGoesOn ==
  ASSUME IInv, NEW a, NEW removed, NEW j \in Jobs, job'[j] = Withdrawn(job[j], a, removed)
  PROVE  GoesOn(j, {})
<1>1. job[j] \in JobRow
  BY DEF IInv, TypeOK
<1>2. Winds(job[j], job'[j], {})
  BY <1>1, WithdrawnWinds
<1>. QED
  BY <1>2, WoundGoesOn

-----------------------------------------------------------------------------
(***************************************************************************)
(* The steps of the service, action by action.                             *)
(***************************************************************************)

LEMMA MembershipGoesOn ==
  ASSUME IInv, NEW c \in Clusters, NEW u \in Users,
         \/ CreateCluster(c)
         \/ RequestJoin(c, u)
         \/ Approve(c, u)
         \/ Expel(c, u, "rejected")
         \/ Expel(c, u, "revoked")
         \/ \E id \in Codes : CreatePairing(id, c, u),
         NEW j \in Jobs
  PROVE  GoesOn(j, {})
<1>1. TypeOK /\ job[j] \in JobRow
  BY DEF IInv, TypeOK
<1>2. CASE UNCHANGED job
  BY <1>1, <1>2, SameRowsGoOn
<1>3. ASSUME NEW st \in {"rejected", "revoked"}, Expel(c, u, st)
      PROVE  GoesOn(j, {})
  <2>1. \/ job'[j] = job[j]
        \/ job[j].status \in Active /\ job'[j] = Stopped(job[j], "failed")
    BY <1>3 DEF Expel, Hit, Active
  <2>. QED
    BY <1>1, <2>1, SameRowsGoOn, StoppedWinds, WoundGoesOn
<1>. QED
  BY <1>2, <1>3 DEF CreateCluster, RequestJoin, Approve, CreatePairing

LEMMA AgentGoesOn ==
  ASSUME IInv, NEW a \in Agents, NEW j \in Jobs,
         \/ \E k \in codes, caps \in Reports[a], shared \in SUBSET Devices :
              PairAgent(a, k, caps, shared)
         \/ \E shared \in SUBSET Devices, enabled \in BOOLEAN : SetSharing(a, shared, enabled)
         \/ \E caps \in Reports[a] : Heartbeat(a, caps)
         \/ PollWorker(a)
  PROVE  GoesOn(j, {})
<1>1. TypeOK
  BY DEF IInv
<1>2. CASE UNCHANGED job
  BY <1>1, <1>2, SameRowsGoOn
<1>3. CASE \E removed : job'[j] = Withdrawn(job[j], a, removed)
  BY <1>3, WithdrawnGoesOn
<1>4. CASE PollWorker(a)
  BY <1>4, ReconciledGoesOn DEF PollWorker
<1>. QED
  BY <1>2, <1>3, <1>4 DEF PairAgent, SetSharing, Heartbeat

\* Removing a computer takes its ranks away from jobs that are no longer active.
LEMMA DeleteAgentGoesOn ==
  ASSUME IInv, NEW a \in Agents, NEW j \in Jobs, DeleteAgent(a)
  PROVE  GoesOn(j, {})
<1> DEFINE J == job[j]
           W == Withdrawn(J, a, Devices)
           K == job'[j]
<1>1. J \in JobRow /\ WellPlaced(J)
  BY DEF IInv, TypeOK
<1>2. Winds(J, W, {}) /\ Onward(J, W)
  BY <1>1, WithdrawnWinds, WoundOnward
<1>3. W \in JobRow
  <2>1. "failed" \in JobStatus
    BY DEF JobStatus
  <2>. QED
    BY <1>1, <2>1, StoppedType DEF Withdrawn
<1>4. /\ K.status = W.status /\ K.spec = W.spec
      /\ \A r \in Ranks : K.row[r] = IF \E x \in W.spec : x.rank = r /\ x.agent = a
                                     THEN "none" ELSE W.row[r]
  BY <1>3 DEF DeleteAgent, JobRow
<1>5. Onward(J, K)
  <2>1. \A r \in Ranks : RowFollows(J.row[r], K.row[r])
    BY <1>2, <1>4 DEF Onward, RowFollows
  <2>2. CASE W.status \in Active
    <3>1. W = J /\ ~Hit(J, a, Devices)
      BY <1>1, <2>2, StoppedWinds DEF Withdrawn, Hit, Active
    <3>2. \A x \in J.spec : x.agent = a => J.row[x.rank] = "none"
      BY <1>1, <2>2, <3>1 DEF Hit, RowsOn, JobRow, Assignment, Active
    <3>3. \A r \in Ranks : K.row[r] = J.row[r]
      BY <1>4, <3>1, <3>2
    <3>. QED
      BY <1>2, <1>4, <2>1, <3>1, <3>3 DEF Onward
  <2>3. CASE W.status \notin Active
    BY <1>2, <1>4, <2>1, <2>3 DEF Onward
  <2>. QED
    BY <2>2, <2>3
<1>6. FreesOnly(j, {})
  <2> SUFFICES ASSUME NEW x \in J.spec, Holds(j, x), K.row[x.rank] \notin Held
               PROVE  agent'[x.agent].row = "deleted"
    BY DEF FreesOnly
  <2>1. x.rank \in Ranks /\ J.row[x.rank] \in Held
    BY <1>1 DEF JobRow, Assignment, Holds, Row
  <2>2. W.row[x.rank] \in Held /\ W.spec = J.spec
    BY <1>2, <2>1 DEF Winds, Held
  <2>3. PICK y \in J.spec : y.rank = x.rank /\ y.agent = a
    BY <1>4, <2>1, <2>2
  <2>4. x.agent = a
    BY <1>1, <2>3 DEF WellPlaced
  <2>. QED
    BY <2>4 DEF DeleteAgent, IInv, TypeOK, AgentRow
<1>. QED
  BY <1>5, <1>6 DEF GoesOn

LEMMA TickGoesOn ==
  ASSUME IInv, Tick, NEW j \in Jobs
  PROVE  GoesOn(j, {})
<1>1. TypeOK /\ job[j] \in JobRow
  BY DEF IInv, TypeOK
<1>2. /\ job'[j].spec = job[j].spec /\ job'[j].row = job[j].row
      /\ job'[j].status = job[j].status
  BY <1>1 DEF Tick, JobRow
<1>. QED
  BY <1>1, <1>2, SameRowsGoOn

LEMMA CancelGoesOn ==
  ASSUME IInv, NEW i \in Jobs, CancelJob(i), NEW j \in Jobs
  PROVE  GoesOn(j, {})
<1>1. TypeOK /\ job[j] \in JobRow /\ job[i] \in JobRow
  BY DEF IInv, TypeOK
<1>2. CASE job[i].status = "draft" /\ job' = [job EXCEPT ![i].status = "cancelled"]
  <2>1. /\ job'[j].spec = job[j].spec /\ job'[j].row = job[j].row
        /\ \/ job'[j].status = job[j].status
           \/ job[j].status = "draft" /\ job'[j].status = "cancelled"
    BY <1>1, <1>2 DEF TypeOK, JobRow
  <2>. QED
    BY <1>1, <2>1, SameRowsGoOn
<1>3. CASE job[i].status \in Active /\ job' = [job EXCEPT ![i] = Stopped(job[i], "cancelling")]
  <2>1. CASE j # i
    BY <1>1, <1>3, <2>1, SameRowsGoOn DEF TypeOK
  <2>2. CASE j = i
    <3>1. job'[j] = Stopped(job[j], "cancelling")
      BY <1>1, <1>3, <2>2 DEF TypeOK
    <3>2. Winds(job[j], job'[j], {})
      BY <1>1, <1>3, <2>2, <3>1, StoppedWinds
    <3>. QED
      BY <3>2, WoundGoesOn
  <2>. QED
    BY <2>1, <2>2
<1>. QED
  BY <1>2, <1>3 DEF CancelJob, Active

\* The rank of job j that a report about rank r of job i ends.
Ended(j, i, r, state) == IF j = i /\ state \in Closing THEN {r} ELSE {}

\* A job goes on if only ranks of R and of silent agents are released.
LEMMA FreedGoesOn ==
  ASSUME IInv, NEW j \in Jobs, NEW R,
         Onward(job[j], job'[j]),
         \A s \in Ranks \ R :
           job[j].row[s] \in Held => \/ job'[j].row[s] \in Held
                                     \/ s \in SilentRanks(job[j], agent)
  PROVE  GoesOn(j, R)
<1>1. job[j] \in JobRow
  BY DEF IInv, TypeOK
<1>2. ASSUME NEW x \in job[j].spec, Holds(j, x), job'[j].row[x.rank] \notin Held, x.rank \notin R
      PROVE  Silent(x.agent)
  <2>1. x.rank \in Ranks /\ job[j].row[x.rank] \in Held
    BY <1>1, <1>2 DEF JobRow, Assignment, Holds, Row
  <2>. QED
    BY <1>2, <2>1, SilentRankAgent
<1>. QED
  BY <1>2 DEF GoesOn, FreesOnly

LEMMA FreesLess ==
  ASSUME NEW j, GoesOn(j, {}), NEW R
  PROVE  GoesOn(j, R)
BY DEF GoesOn, FreesOnly

\* A report is a sign of life of its sender only.
LEMMA SeenSilent ==
  ASSUME TypeOK, NEW a \in Agents, NEW J \in JobRow
  PROVE  SilentRanks(J, Seen(a)) \subseteq SilentRanks(J, agent)
<1> SUFFICES ASSUME NEW x \in J.spec, Seen(a)[x.agent].silence >= OfflineAfter
             PROVE  agent[x.agent].silence >= OfflineAfter
  BY DEF SilentRanks, OnSilentAgent
<1>1. x.agent \in Agents /\ OfflineAfter \in Nat \ {0}
  BY ConstantsAssumption DEF JobRow, Assignment
<1>2. CASE x.agent = a
  <2>1. Seen(a)[x.agent].silence = 0
    BY <1>2 DEF Seen, TypeOK, AgentRow
  <2>. QED
    BY <1>1, <2>1
<1>3. CASE x.agent # a
  BY <1>1, <1>3 DEF Seen, TypeOK
<1>. QED
  BY <1>2, <1>3

\* The acknowledgement of a stop, after which the service reconciles.
LEMMA StoppingGoesOn ==
  ASSUME IInv, NEW a \in Agents, NEW i \in Jobs, NEW r \in Ranks, NEW state \in ReportStates,
         ReportWorker(a, i, r, state), ReportStopping(a, i, r, state), NEW j \in Jobs
  PROVE  GoesOn(j, Ended(j, i, r, state))
<1> DEFINE J == job[j]
<1>1. J \in JobRow /\ TypeOK /\ "stopped" \in RowState
  BY DEF IInv, TypeOK, RowState, Finished
<1>2. PICK M : /\ \/ M = J
                  \/ /\ j = i /\ J.row[r] = "stopping" /\ M = RowSet(J, r, "stopped")
                     /\ state \in Closing
               /\ job'[j] = Reconciled(M, Seen(a))
  BY <1>1 DEF ReportStopping, ReconciledJobs, WithRow, RowSet, TypeOK, Row, Closing
<1>3. M \in JobRow /\ M.spec = J.spec /\ M.status = J.status
  BY <1>1, <1>2, RowSetFields
<1>4. SilentRanks(M, Seen(a)) \subseteq SilentRanks(J, agent)
  <2>1. SilentRanks(M, Seen(a)) = SilentRanks(J, Seen(a))
    BY <1>3 DEF SilentRanks, OnSilentAgent
  <2>. QED
    BY <1>1, <2>1, SeenSilent
<1>5. Winds(M, job'[j], SilentRanks(J, agent))
  BY <1>2, <1>3, <1>4, ReconciledWinds DEF Winds
<1>6. CASE M = J
  BY <1>5, <1>6, SilentRankAgent, WoundGoesOn, FreesLess
<1>7. CASE j = i /\ J.row[r] = "stopping" /\ M = RowSet(J, r, "stopped") /\ state \in Closing
  <2>1. \A s \in Ranks : M.row[s] = IF s = r THEN "stopped" ELSE J.row[s]
    BY <1>1, <1>7, RowSetFields
  <2>2. Onward(M, job'[j])
    BY <1>3, <1>5, WoundOnward
  <2>3. job'[j].row[r] = "stopped" /\ r \in Ranks
    BY <1>5, <2>1 DEF Winds, Finished
  <2>4. \A s \in Ranks : RowFollows(J.row[s], job'[j].row[s])
    BY <1>7, <2>1, <2>2, <2>3 DEF Onward, RowFollows, Finished
  <2>5. Onward(J, job'[j])
    BY <1>3, <1>7, <2>1, <2>2, <2>4 DEF Onward
  <2>6. \A s \in Ranks \ {r} : J.row[s] \in Held => \/ job'[j].row[s] \in Held
                                                   \/ s \in SilentRanks(J, agent)
    BY <1>5, <2>1 DEF Winds, Held
  <2>. QED
    BY <1>7, <2>5, <2>6, FreedGoesOn DEF Ended
<1>. QED
  BY <1>2, <1>6, <1>7

LEMMA ReportGoesOn ==
  ASSUME IInv, NEW a \in Agents, NEW i \in Jobs, NEW r \in Ranks, NEW state \in ReportStates,
         Report(a, i, r, state), NEW j \in Jobs
  PROVE  GoesOn(j, Ended(j, i, r, state))
<1> DEFINE J == job[i]
<1>0. TypeOK /\ J \in JobRow /\ ReportWorker(a, i, r, state)
  BY DEF IInv, TypeOK, Report
<1>1. CASE UNCHANGED job
  BY <1>0, <1>1, SameRowsGoOn, FreesLess
<1>2. CASE ReportStopping(a, i, r, state)
  BY <1>0, <1>2, StoppingGoesOn
\* The other reports change one job.
<1>3. ASSUME NEW K, job' = [job EXCEPT ![i] = K], Onward(J, K),
             \A s \in Ranks : J.row[s] \in Held => K.row[s] \in Held \/ s \in Ended(i, i, r, state)
      PROVE  GoesOn(j, Ended(j, i, r, state))
  <2>1. CASE j = i
    <3>1. job'[i] = K
      BY <1>0, <1>3 DEF TypeOK
    <3>. QED
      BY <1>0, <1>3, <2>1, <3>1, FreedGoesOn
  <2>2. CASE j # i
    BY <1>0, <1>3, <2>2, SameRowsGoOn, FreesLess DEF TypeOK
  <2>. QED
    BY <2>1, <2>2
\* Those that set the row, and the status of the job when it was the last one.
<1>4. ASSUME NEW st \in {"ready", "running", "succeeded"}, NEW K,
             K.spec = J.spec, \A s \in Ranks : K.row[s] = IF s = r THEN st ELSE J.row[s],
             RowFollows(J.row[r], st), J.row[r] # "none", st = "succeeded" => state = st,
             \/ K.status = J.status
             \/ J.status = "preparing" /\ K.status = "running"
             \/ J.status = "running" /\ K.status = "completed",
             job' = [job EXCEPT ![i] = K]
      PROVE  GoesOn(j, Ended(j, i, r, state))
  <2>1. \A s \in Ranks : RowFollows(J.row[s], K.row[s])
    BY <1>4 DEF RowFollows
  <2>2. Onward(J, K)
    BY <1>4, <2>1 DEF Onward, Follows, Active
  <2>. QED
    <3>1. st \in Held \/ r \in Ended(i, i, r, state)
      BY <1>4 DEF Ended, Closing, Held
    <3>2. \A s \in Ranks : J.row[s] \in Held => K.row[s] \in Held \/ s \in Ended(i, i, r, state)
      BY <1>4, <3>1
    <3>. QED
      BY <1>3, <1>4, <2>2, <3>2
<1>5. CASE ReportReady(i, r)
  <2> DEFINE R == RowSet(J, r, "ready")
             K == IF \A s \in Others(i, r) : Row(i, s) = "ready"
                  THEN [R EXCEPT !.status = "running", !.age = 0] ELSE R
  <2>1. job' = [job EXCEPT ![i] = K] /\ J.row[r] = "preparing" /\ J.status = "preparing"
    BY <1>0, <1>5 DEF ReportReady, WithRow, RowSet, Row, TypeOK
  <2>2. /\ K.spec = J.spec /\ \A s \in Ranks : K.row[s] = IF s = r THEN "ready" ELSE J.row[s]
        /\ K.status = J.status \/ K.status = "running"
    <3>1. "ready" \in RowState
      BY DEF RowState, Held
    <3>2. /\ R \in JobRow /\ R.spec = J.spec /\ R.status = J.status
          /\ \A s \in Ranks : R.row[s] = IF s = r THEN "ready" ELSE J.row[s]
      BY <1>0, <3>1, RowSetFields
    <3>. QED
      BY <3>2 DEF JobRow
  <2>3. RowFollows(J.row[r], "ready") /\ J.row[r] # "none"
    BY <2>1 DEF RowFollows, Finished
  <2>. QED
    BY <1>4, <2>1, <2>2, <2>3
<1>6. CASE ReportRunning(i, r)
  <2>1. /\ job' = [job EXCEPT ![i] = RowSet(J, r, "running")]
        /\ J.row[r] \in {"ready", "running"}
    BY <1>0, <1>6 DEF ReportRunning, WithRow, RowSet, Row, TypeOK
  <2>2. /\ RowSet(J, r, "running").spec = J.spec
        /\ RowSet(J, r, "running").status = J.status
        /\ \A s \in Ranks : RowSet(J, r, "running").row[s] = IF s = r THEN "running" ELSE J.row[s]
    <3>1. "running" \in RowState
      BY DEF RowState, Held
    <3>. QED
      BY <1>0, <3>1, RowSetFields
  <2>3. RowFollows(J.row[r], "running") /\ J.row[r] # "none"
    BY <2>1 DEF RowFollows, Finished
  <2>. QED
    BY <1>4, <2>1, <2>2, <2>3
<1>7. CASE ReportSucceeded(i, r) /\ state = "succeeded"
  <2> DEFINE R == RowSet(J, r, "succeeded")
             K == IF \A s \in Others(i, r) : Row(i, s) = "succeeded"
                  THEN [R EXCEPT !.status = "completed", !.age = 0] ELSE R
  <2>1. job' = [job EXCEPT ![i] = K] /\ J.row[r] = "running"
    BY <1>0, <1>7 DEF ReportSucceeded, WithRow, RowSet, Row, TypeOK
  <2>2. /\ K.spec = J.spec /\ \A s \in Ranks : K.row[s] = IF s = r THEN "succeeded" ELSE J.row[s]
        /\ K.status = J.status \/ K.status = "completed"
    <3>1. "succeeded" \in RowState
      BY DEF RowState, Finished
    <3>2. /\ R \in JobRow /\ R.spec = J.spec /\ R.status = J.status
          /\ \A s \in Ranks : R.row[s] = IF s = r THEN "succeeded" ELSE J.row[s]
      BY <1>0, <3>1, RowSetFields
    <3>. QED
      BY <3>2 DEF JobRow
  <2>3. J.status = "running"
    BY <1>0, <2>1 DEF IInv, RowsFollowStatus, RowsAgree, RowsIn, JobRow, JobStatus, Finished
  <2>4. RowFollows(J.row[r], "succeeded") /\ J.row[r] # "none"
    BY <2>1 DEF RowFollows, Finished
  <2>. QED
    BY <1>4, <1>7, <2>1, <2>2, <2>3, <2>4
<1>8. CASE ReportFailed(i, r) /\ state \in {"failed", "stopped"}
  <2> DEFINE F == RowSet(J, r, "failed")
             K == Stopped(F, "failed")
  <2>1. job' = [job EXCEPT ![i] = K] /\ J.row[r] \in {"preparing", "ready", "running"}
    <3>1. J.row[r] \in RowState \ (Finished \cup {"stopping", "none", "pending"})
      BY <1>0, <1>8 DEF ReportFailed, Report, Commanded, ReportWorker, Assigned, RowsOn, Row, JobRow
    <3>. QED
      BY <1>0, <1>8, <3>1 DEF ReportFailed, WithRow, RowSet, TypeOK, RowState, Held, Finished
  <2>2. J.status \in Active
    BY <1>0, <2>1 DEF IInv, RowsFollowStatus, RowsAgree, RowsIn, JobRow, JobStatus, Finished, Active
  <2>3. /\ F \in JobRow /\ F.spec = J.spec /\ F.status = J.status
        /\ \A s \in Ranks : F.row[s] = IF s = r THEN "failed" ELSE J.row[s]
    <3>1. "failed" \in RowState
      BY DEF RowState, Finished
    <3>. QED
      BY <1>0, <3>1, RowSetFields
  <2>4. Winds(F, K, {}) /\ K.status = "failed"
    BY <2>2, <2>3, StoppedWinds
  <2>5. \A s \in Ranks : RowFollows(J.row[s], K.row[s])
    BY <2>1, <2>3, <2>4 DEF Winds, RowFollows, Finished
  <2>6. Onward(J, K)
    BY <2>2, <2>3, <2>4, <2>5 DEF Winds, Onward, Follows, Active
  <2>7. \A s \in Ranks : J.row[s] \in Held => K.row[s] \in Held \/ s \in Ended(i, i, r, state)
    BY <1>8, <2>3, <2>4 DEF Winds, Held, Ended, Closing
  <2>. QED
    BY <1>3, <2>1, <2>6, <2>7
<1>. QED
  BY <1>0, <1>1, <1>2, <1>5, <1>6, <1>7, <1>8 DEF ReportWorker

\* A job goes on, is created, or is started.
LEMMA StepCases ==
  ASSUME IInv, [Next]_vars, NEW j \in Jobs
  PROVE  \/ GoesOn(j, {})
         \/ \E a \in Agents, i \in Jobs, r \in Ranks, state \in ReportStates :
              Report(a, i, r, state) /\ GoesOn(j, Ended(j, i, r, state))
         \/ \E port \in Ports : CreateJob(j, port)
         \/ StartJob(j)
<1>1. TypeOK
  BY DEF IInv
<1>2. CASE job'[j] = job[j]
  BY <1>1, <1>2, SameRowsGoOn
<1>3. ASSUME NEW c \in Clusters, CreateCluster(c) PROVE GoesOn(j, {})
  BY <1>1, <1>3, SameRowsGoOn DEF CreateCluster
<1>4. ASSUME NEW c \in Clusters, NEW u \in Users,
             \/ RequestJoin(c, u)
             \/ Approve(c, u)
             \/ Expel(c, u, "rejected")
             \/ Expel(c, u, "revoked")
             \/ \E id \in Codes : CreatePairing(id, c, u)
      PROVE  GoesOn(j, {})
  BY <1>4, MembershipGoesOn
<1>5. ASSUME NEW a \in Agents,
             \/ \E k \in codes, caps \in Reports[a], shared \in SUBSET Devices :
                  PairAgent(a, k, caps, shared)
             \/ \E shared \in SUBSET Devices, enabled \in BOOLEAN : SetSharing(a, shared, enabled)
             \/ \E caps \in Reports[a] : Heartbeat(a, caps)
             \/ PollWorker(a)
      PROVE  GoesOn(j, {})
  BY <1>5, AgentGoesOn
<1>6. ASSUME NEW a \in Agents, DeleteAgent(a) PROVE GoesOn(j, {})
  BY <1>6, DeleteAgentGoesOn
<1>7. ASSUME NEW a \in Agents, NEW i \in Jobs, NEW r \in Ranks, NEW state \in ReportStates,
             Report(a, i, r, state)
      PROVE  GoesOn(j, Ended(j, i, r, state))
  BY <1>7, ReportGoesOn
<1>8. ASSUME NEW i \in Jobs, CancelJob(i) PROVE GoesOn(j, {})
  BY <1>8, CancelGoesOn
<1>9. ASSUME NEW i \in Jobs \ {j}, (\E port \in Ports : CreateJob(i, port)) \/ StartJob(i)
      PROVE  job'[j] = job[j]
  BY <1>1, <1>9 DEF CreateJob, StartJob, TypeOK
<1>10. CASE Reconcile
  BY <1>10, ReconciledGoesOn DEF Reconcile
<1>11. CASE Tick
  BY <1>11, TickGoesOn
<1>12. CASE UNCHANGED vars
  BY <1>2, <1>12 DEF vars
<1>. QED
  BY <1>2, <1>3, <1>4, <1>5, <1>6, <1>7, <1>8, <1>9, <1>10, <1>11, <1>12 DEF Next, OwnerCall

\* A job that is created or started keeps its place in the order and reserves.
LEMMA CreatedJob ==
  ASSUME IInv, NEW j \in Jobs, NEW port \in Ports, CreateJob(j, port)
  PROVE  /\ job[j].status = "none" /\ job'[j].status = "draft"
         /\ \A r \in Ranks : job[j].row[r] = "none" /\ job'[j].row[r] \in {"none", "pending"}
BY DEF CreateJob, IInv, TypeOK, RowsFollowStatus, RowsAgree, RowsIn, JobRow

LEMMA StartedJob ==
  ASSUME IInv, NEW j \in Jobs, StartJob(j)
  PROVE  /\ job[j].status = "draft" /\ job'[j].status = "preparing"
         /\ job'[j].spec = job[j].spec
         /\ \A r \in Ranks : \/ job[j].row[r] = "none" /\ job'[j].row[r] = "none"
                             \/ job[j].row[r] = "pending" /\ job'[j].row[r] = "preparing"
BY DEF StartJob, IInv, TypeOK, RowsFollowStatus, RowsAgree, RowsIn, JobRow

-----------------------------------------------------------------------------
(***************************************************************************)
(* The action properties.                                                  *)
(***************************************************************************)

\* Whatever owners, contributors and workers do, a job is started once, and stays
\* completed, failed or cancelled.
THEOREM JobsFollowTheirOrder == Spec => StatusOrder
<1>1. IInv /\ [Next]_vars =>
        [\A j \in Jobs :
           LET old == job[j].status  new == job'[j].status IN
           old # new =>
             CASE old = "none" -> new = "draft"
               [] old = "draft" -> new \in {"preparing", "cancelled"}
               [] old = "preparing" -> new \in {"running", "cancelling", "failed"}
               [] old = "running" -> new \in {"completed", "cancelling", "failed"}
               [] old = "cancelling" -> new = "cancelled"
               [] OTHER -> FALSE]_vars
  <2> SUFFICES ASSUME IInv, [Next]_vars, NEW j \in Jobs,
                      job[j].status # job'[j].status
               PROVE  CASE job[j].status = "none" -> job'[j].status = "draft"
                        [] job[j].status = "draft" -> job'[j].status \in {"preparing", "cancelled"}
                        [] job[j].status = "preparing" ->
                             job'[j].status \in {"running", "cancelling", "failed"}
                        [] job[j].status = "running" ->
                             job'[j].status \in {"completed", "cancelling", "failed"}
                        [] job[j].status = "cancelling" -> job'[j].status = "cancelled"
                        [] OTHER -> FALSE
    OBVIOUS
  <2>. QED
    BY StepCases, CreatedJob, StartedJob DEF GoesOn, Onward, Follows
<1>. QED
  BY <1>1, InductiveInvariant, PTL DEF Spec, StatusOrder

\* No command, report or restart ever starts a rank from scratch, and a result
\* stays until its computer is removed.
THEOREM RanksNeverRestart == Spec => RankNeverRestarts
<1>1. IInv /\ [Next]_vars =>
        [\A j \in Jobs : \A r \in Ranks :
           LET old == Row(j, r)  new == job'[j].row[r] IN
           old # new =>
             /\ new \in {"preparing"} => old = "pending" /\ job[j].status = "draft"
             /\ new = "ready" => old = "preparing"
             /\ new = "running" => old = "ready"
             /\ old \in Finished => new = "none"]_vars
  <2> SUFFICES ASSUME IInv, [Next]_vars, NEW j \in Jobs, NEW r \in Ranks,
                      job[j].row[r] # job'[j].row[r]
               PROVE  LET old == job[j].row[r]  new == job'[j].row[r] IN
                      /\ new \in {"preparing"} => old = "pending" /\ job[j].status = "draft"
                      /\ new = "ready" => old = "preparing"
                      /\ new = "running" => old = "ready"
                      /\ old \in Finished => new = "none"
    BY DEF Row
  <2>. QED
    BY StepCases, CreatedJob, StartedJob DEF GoesOn, Onward, RowFollows, Finished
<1>. QED
  BY <1>1, InductiveInvariant, PTL DEF Spec, RankNeverRestarts

\* The device of a rank is given back only by a report of the rank's own agent,
\* after 30 s of its silence, or with the removal of its computer.
THEOREM ReleasesAreJustified == Spec => ReleaseIsJustified
<1>1. IInv /\ [Next]_vars =>
        [\A j \in Jobs : \A x \in job[j].spec :
           Holds(j, x) /\ job'[j].row[x.rank] \notin Held =>
             \/ Silent(x.agent)
             \/ agent'[x.agent].row = "deleted"
             \/ \E state \in ReportStates : ReportWorker(x.agent, j, x.rank, state)]_vars
  <2> SUFFICES ASSUME IInv, [Next]_vars, NEW j \in Jobs, NEW x \in job[j].spec,
                      Holds(j, x), job'[j].row[x.rank] \notin Held
               PROVE  \/ Silent(x.agent)
                      \/ agent'[x.agent].row = "deleted"
                      \/ \E state \in ReportStates : ReportWorker(x.agent, j, x.rank, state)
    OBVIOUS
  <2>1. job[j].row[x.rank] \in Held /\ x.rank \in Ranks /\ WellPlaced(job[j])
    BY DEF IInv, TypeOK, JobRow, Assignment, Holds, Row
  <2>2. ASSUME NEW port \in Ports, CreateJob(j, port) PROVE FALSE
    BY <2>1, <2>2, CreatedJob DEF Held
  <2>3. ASSUME StartJob(j) PROVE FALSE
    BY <2>1, <2>3, StartedJob DEF Held
  <2>4. ASSUME NEW a \in Agents, NEW i \in Jobs, NEW r \in Ranks, NEW state \in ReportStates,
               Report(a, i, r, state), x.rank \in Ended(j, i, r, state)
        PROVE  ReportWorker(x.agent, j, x.rank, state)
    <3>1. j = i /\ x.rank = r /\ ReportWorker(a, j, r, state)
      BY <2>4 DEF Ended, Report
    <3>2. PICK y \in job[j].spec : y.rank = r /\ y.agent = a
      BY <3>1 DEF ReportWorker, Assigned, RowsOn
    <3>3. x.agent = a
      BY <2>1, <3>1, <3>2 DEF WellPlaced
    <3>. QED
      BY <3>1, <3>3
  <2>. QED
    BY <2>2, <2>3, <2>4, StepCases DEF GoesOn, FreesOnly
<1>. QED
  BY <1>1, InductiveInvariant, PTL DEF Spec, ReleaseIsJustified

-----------------------------------------------------------------------------
(***************************************************************************)
(* Credentials.  A token exists only at a paired agent, so that expelling  *)
(* a member, which looks for the paired ones, finds every token.           *)
(***************************************************************************)
TokensArePaired == \A a \in Agents : agent[a].token => agent[a].row = "paired"

CInv == TypeOK /\ TokensArePaired /\ CredentialsNeedMembership

\* Every step does one of these to the agents table.
LEMMA AgentCases ==
  ASSUME TypeOK, [Next]_vars
  PROVE  \/ UNCHANGED agent
         \/ \E c \in Clusters, u \in Users, st \in {"rejected", "revoked"} : Expel(c, u, st)
         \/ \E a \in Agents :
              \/ \E k \in codes, caps \in Reports[a], shared \in SUBSET Devices :
                   PairAgent(a, k, caps, shared)
              \/ \E shared \in SUBSET Devices, enabled \in BOOLEAN : SetSharing(a, shared, enabled)
              \/ DeleteAgent(a)
              \/ \E caps \in Reports[a] : Heartbeat(a, caps)
              \/ agent' = Seen(a)
         \/ Tick
<1>1. ASSUME NEW c \in Clusters, NEW u \in Users,
             \/ CreateCluster(c) \/ RequestJoin(c, u) \/ Approve(c, u)
             \/ \E id \in Codes : CreatePairing(id, c, u)
      PROVE  UNCHANGED agent
  BY <1>1 DEF CreateCluster, RequestJoin, Approve, CreatePairing
<1>2. ASSUME NEW c \in Clusters, CreateCluster(c) PROVE UNCHANGED agent
  BY <1>2 DEF CreateCluster
<1>3. ASSUME NEW a \in Agents, PollWorker(a) PROVE agent' = Seen(a)
  BY <1>3 DEF PollWorker
<1>4. ASSUME NEW a \in Agents, NEW j \in Jobs, NEW r \in Ranks, NEW state \in ReportStates,
             Report(a, j, r, state)
      PROVE  agent' = Seen(a)
  BY <1>4 DEF Report, ReportWorker
<1>5. ASSUME OwnerCall \/ Reconcile \/ UNCHANGED vars PROVE UNCHANGED agent
  BY <1>5 DEF OwnerCall, CreateJob, StartJob, CancelJob, Reconcile, vars
<1>. QED
  BY <1>1, <1>2, <1>3, <1>4, <1>5 DEF Next

\* What the steps do to the token and the row of an agent.
LEMMA TokenSteps ==
  ASSUME TypeOK, [Next]_vars, NEW b \in Agents
  PROVE  \/ agent'[b].token = agent[b].token /\ agent'[b].row = agent[b].row
         \/ ~agent'[b].token
         \/ /\ agent[b].row = "new" /\ agent'[b].row = "paired"
            /\ Member(ClusterOf[b], UserOf[b]) /\ UNCHANGED membership
<1> DEFINE Same == agent'[b].token = agent[b].token /\ agent'[b].row = agent[b].row
<1>0. agent \in [Agents -> AgentRow]
  BY DEF TypeOK
<1>1. ASSUME NEW c \in Clusters, NEW u \in Users, NEW st \in {"rejected", "revoked"}, Expel(c, u, st)
      PROVE  Same \/ ~agent'[b].token
  BY <1>0, <1>1 DEF Expel, AgentRow
<1>2. ASSUME NEW a \in Agents, NEW k \in codes, NEW caps \in Reports[a], NEW shared \in SUBSET Devices,
             PairAgent(a, k, caps, shared)
      PROVE  \/ Same
             \/ /\ agent[b].row = "new" /\ agent'[b].row = "paired"
                /\ Member(ClusterOf[b], UserOf[b]) /\ UNCHANGED membership
  BY <1>0, <1>2 DEF PairAgent
<1>3. ASSUME NEW a \in Agents, NEW shared \in SUBSET Devices, NEW enabled \in BOOLEAN,
             SetSharing(a, shared, enabled)
      PROVE  Same
  BY <1>0, <1>3 DEF SetSharing, AgentRow
<1>4. ASSUME NEW a \in Agents, DeleteAgent(a) PROVE Same \/ ~agent'[b].token
  BY <1>0, <1>4 DEF DeleteAgent, AgentRow
<1>5. ASSUME NEW a \in Agents, NEW caps \in Reports[a], Heartbeat(a, caps) PROVE Same
  BY <1>0, <1>5 DEF Heartbeat, AgentRow
<1>6. ASSUME NEW a \in Agents, agent' = Seen(a) PROVE Same
  BY <1>0, <1>6 DEF Seen, AgentRow
<1>7. ASSUME Tick PROVE Same
  BY <1>0, <1>7 DEF Tick, AgentRow
<1>. QED
  BY <1>1, <1>2, <1>3, <1>4, <1>5, <1>6, <1>7, AgentCases

\* Once its token is replaced an agent never authenticates again, although its
\* user may become a member again.
THEOREM RevocationsArePermanent == Spec => RevocationIsPermanent
<1>1. IInv /\ [Next]_vars =>
        [\A a \in Agents : agent[a].row # "new" /\ ~agent[a].token => ~agent'[a].token]_vars
  BY TokenSteps DEF IInv
<1>. QED
  BY <1>1, InductiveInvariant, PTL DEF Spec, RevocationIsPermanent

\* A membership ends only when the owner expels the member.
LEMMA MembershipEnds ==
  ASSUME TypeOK, [Next]_vars, NEW c \in Clusters, NEW u \in Users,
         Member(c, u), ~Member(c, u)'
  PROVE  \E st \in {"rejected", "revoked"} : Expel(c, u, st)
<1>0. membership \in [Clusters -> [Users -> MemberStatus]]
  BY DEF TypeOK
<1>1. ASSUME NEW d \in Clusters, CreateCluster(d) PROVE Member(c, u)'
  BY <1>0, <1>1 DEF CreateCluster, Member
<1>2. ASSUME NEW d \in Clusters, NEW v \in Users, RequestJoin(d, v) PROVE Member(c, u)'
  BY <1>0, <1>2 DEF RequestJoin, Member
<1>3. ASSUME NEW d \in Clusters, NEW v \in Users, Approve(d, v) PROVE Member(c, u)'
  BY <1>0, <1>3 DEF Approve, Member
<1>4. ASSUME NEW d \in Clusters, NEW v \in Users, NEW st \in {"rejected", "revoked"},
             Expel(d, v, st), <<d, v>> # <<c, u>>
      PROVE  Member(c, u)'
  BY <1>0, <1>4 DEF Expel, Member
<1>5. ASSUME UNCHANGED membership PROVE Member(c, u)'
  BY <1>5 DEF Member
<1>6. ASSUME NEW d \in Clusters, NEW v \in Users, NEW id \in Codes, CreatePairing(id, d, v)
      PROVE  UNCHANGED membership
  BY <1>6 DEF CreatePairing
<1>7. ASSUME NEW a \in Agents,
             \/ \E k \in codes, caps \in Reports[a], shared \in SUBSET Devices :
                  PairAgent(a, k, caps, shared)
             \/ \E shared \in SUBSET Devices, enabled \in BOOLEAN : SetSharing(a, shared, enabled)
             \/ DeleteAgent(a)
             \/ \E caps \in Reports[a] : Heartbeat(a, caps)
             \/ PollWorker(a)
             \/ \E j \in Jobs, r \in Ranks, state \in ReportStates : Report(a, j, r, state)
      PROVE  UNCHANGED membership
  BY <1>7 DEF PairAgent, SetSharing, DeleteAgent, Heartbeat, PollWorker, Report, ReportWorker
<1>8. ASSUME OwnerCall \/ Reconcile \/ Tick \/ UNCHANGED vars PROVE UNCHANGED membership
  BY <1>8 DEF OwnerCall, CreateJob, StartJob, CancelJob, Reconcile, Tick, vars
<1>. QED
  BY <1>1, <1>2, <1>3, <1>4, <1>5, <1>6, <1>7, <1>8 DEF Next

\* The pairing codes after a step: old ones, perhaps aged, and at most a new one.
LEMMA CodeSteps ==
  ASSUME TypeOK, [Next]_vars, NEW k \in codes'
  PROVE  \/ \E old \in codes : k.cluster = old.cluster /\ k.user = old.user
         \/ Member(k.cluster, k.user) /\ UNCHANGED membership
<1>1. ASSUME NEW c \in Clusters, NEW u \in Users, NEW id \in Codes, CreatePairing(id, c, u)
      PROVE  k \in codes \/ (Member(k.cluster, k.user) /\ UNCHANGED membership)
  BY <1>1 DEF CreatePairing
<1>2. ASSUME Tick
      PROVE  \E old \in codes : k.cluster = old.cluster /\ k.user = old.user
  <2>1. PICK old \in codes : k = IF old.left > 0 THEN [old EXCEPT !.left = @ - 1] ELSE old
    BY <1>2 DEF Tick
  <2>2. old \in PairingCode
    BY DEF TypeOK
  <2>3. k.cluster = old.cluster /\ k.user = old.user
    BY <2>1, <2>2 DEF PairingCode
  <2>. QED
    BY <2>3
<1>3. ASSUME NEW c \in Clusters, NEW u \in Users,
             \/ CreateCluster(c) \/ RequestJoin(c, u) \/ Approve(c, u)
             \/ Expel(c, u, "rejected") \/ Expel(c, u, "revoked")
      PROVE  k \in codes
  BY <1>3 DEF CreateCluster, RequestJoin, Approve, Expel, CodesWithout
<1>4. ASSUME NEW c \in Clusters, CreateCluster(c) PROVE k \in codes
  BY <1>4 DEF CreateCluster
<1>5. ASSUME NEW a \in Agents,
             \/ \E i \in codes, caps \in Reports[a], shared \in SUBSET Devices :
                  PairAgent(a, i, caps, shared)
             \/ \E shared \in SUBSET Devices, enabled \in BOOLEAN : SetSharing(a, shared, enabled)
             \/ DeleteAgent(a)
             \/ \E caps \in Reports[a] : Heartbeat(a, caps)
             \/ PollWorker(a)
             \/ \E j \in Jobs, r \in Ranks, state \in ReportStates : Report(a, j, r, state)
      PROVE  k \in codes
  BY <1>5 DEF PairAgent, SetSharing, DeleteAgent, Heartbeat, PollWorker, Report, ReportWorker
<1>6. ASSUME OwnerCall \/ Reconcile \/ UNCHANGED vars PROVE k \in codes
  BY <1>6 DEF OwnerCall, CreateJob, StartJob, CancelJob, Reconcile, vars
<1>. QED
  BY <1>1, <1>2, <1>3, <1>4, <1>5, <1>6 DEF Next

LEMMA CredentialsStep ==
  ASSUME CInv, [Next]_vars
  PROVE  TokensArePaired' /\ CredentialsNeedMembership'
<1>0. /\ TypeOK
      /\ \A a \in Agents : agent[a].token => agent[a].row = "paired"
      /\ \A a \in Agents : agent[a].token => Member(ClusterOf[a], UserOf[a])
      /\ \A k \in codes : Member(k.cluster, k.user)
  BY DEF CInv, TokensArePaired, CredentialsNeedMembership
<1>1. \A a \in Agents : ClusterOf[a] \in Clusters /\ UserOf[a] \in Users
  BY ConstantsAssumption
<1>2. TokensArePaired'
  BY <1>0, TokenSteps DEF TokensArePaired
<1>3. ASSUME NEW a \in Agents, agent'[a].token PROVE Member(ClusterOf[a], UserOf[a])'
  <2>1. Member(ClusterOf[a], UserOf[a])
    BY <1>0, <1>3, TokenSteps
  <2>2. CASE UNCHANGED membership
    BY <2>1, <2>2 DEF Member
  <2>3. ASSUME NEW st \in {"rejected", "revoked"}, Expel(ClusterOf[a], UserOf[a], st)
        PROVE  FALSE
    <3>1. /\ agent \in [Agents -> AgentRow]
          /\ UNCHANGED membership \/ agent[a].row = "paired"
      BY <1>0, <1>3, TokenSteps DEF TypeOK
    <3>2. membership'[ClusterOf[a]][UserOf[a]] = st
      BY <1>0, <1>1, <2>3 DEF Expel, TypeOK
    <3>3. membership[ClusterOf[a]][UserOf[a]] = "approved"
      BY <2>1 DEF Member
    <3>. QED
      BY <1>3, <2>3, <3>1, <3>2, <3>3 DEF Expel, AgentRow
  <2>. QED
    BY <1>0, <1>1, <2>1, <2>3, MembershipEnds
<1>4. ASSUME NEW k \in codes' PROVE Member(k.cluster, k.user)'
  <2>1. CASE Member(k.cluster, k.user) /\ UNCHANGED membership
    BY <2>1 DEF Member
  <2>2. ASSUME NEW old \in codes, k.cluster = old.cluster, k.user = old.user
        PROVE  Member(k.cluster, k.user)'
    <3>1. Member(k.cluster, k.user) /\ k.cluster \in Clusters /\ k.user \in Users
      BY <1>0, <2>2 DEF TypeOK, PairingCode
    <3>2. ASSUME NEW st \in {"rejected", "revoked"}, Expel(k.cluster, k.user, st)
          PROVE  FALSE
      BY <1>4, <3>2 DEF Expel, CodesWithout
    <3>. QED
      BY <1>0, <3>1, <3>2, MembershipEnds
  <2>. QED
    BY <1>0, <1>4, <2>1, <2>2, CodeSteps
<1>. QED
  BY <1>2, <1>3, <1>4 DEF CredentialsNeedMembership

\* Revocation disconnects: a valid token or an unused pairing code belongs to an
\* approved member, at any time.
THEOREM CredentialsBelongToMembers == Spec => []CredentialsNeedMembership
<1>1. Init => TokensArePaired /\ CredentialsNeedMembership
  <2> SUFFICES ASSUME Init PROVE TokensArePaired /\ CredentialsNeedMembership
    OBVIOUS
  <2>1. \A a \in Agents : agent[a].token => a \in Agents0 /\ agent[a].row = "paired"
    BY DEF Init
  <2>2. \A a \in Agents0 : Member(ClusterOf[a], UserOf[a])
    BY ConstantsAssumption DEF Init, Member
  <2>. QED
    BY <2>1, <2>2 DEF Init, TokensArePaired, CredentialsNeedMembership
<1>2. TypeOK /\ TokensArePaired /\ CredentialsNeedMembership /\ [Next]_vars
      => (TokensArePaired /\ CredentialsNeedMembership)'
  BY CredentialsStep DEF CInv
<1>. QED
  BY <1>1, <1>2, TypeCorrect, PTL DEF Spec

-----------------------------------------------------------------------------
(***************************************************************************)
(* Consent.  A device is shared only if the computer reports it, so that a *)
(* heartbeat with the inventory the service knows withdraws nothing.       *)
(***************************************************************************)
SharedAreReported == \A a \in Agents : agent[a].shared \subseteq agent[a].caps.devices

\* The contributor of the placement x consents to it.
Consent(x) ==
  /\ agent[x.agent].row = "paired"
  /\ Member(ClusterOf[x.agent], UserOf[x.agent])
  /\ agent[x.agent].enabled
  /\ x.device \in agent[x.agent].shared
  /\ x.host = agent[x.agent].caps.host

\* The calls that end a consent; each withdraws the device from active jobs.
Withdraws(x) ==
  \/ \E st \in {"rejected", "revoked"} : Expel(ClusterOf[x.agent], UserOf[x.agent], st)
  \/ \E shared \in SUBSET Devices, enabled \in BOOLEAN :
       SetSharing(x.agent, shared, enabled) /\ (~enabled \/ x.device \notin shared)
  \/ DeleteAgent(x.agent)
  \/ \E caps \in Reports[x.agent] : Heartbeat(x.agent, caps) /\ caps # agent[x.agent].caps

LEMMA SharedStep ==
  ASSUME TypeOK, SharedAreReported, [Next]_vars
  PROVE  SharedAreReported'
<1>0. /\ agent \in [Agents -> AgentRow]
      /\ \A a \in Agents : agent[a].shared \subseteq agent[a].caps.devices
  BY DEF TypeOK, SharedAreReported
<1>1. ASSUME NEW b \in Agents
      PROVE  agent'[b].shared \subseteq agent'[b].caps.devices
  <2> DEFINE Goal == agent'[b].shared \subseteq agent'[b].caps.devices
  <2>1. ASSUME NEW c \in Clusters, NEW u \in Users, NEW st \in {"rejected", "revoked"}, Expel(c, u, st)
        PROVE  Goal
    BY <1>0, <2>1 DEF Expel, AgentRow
  <2>2. ASSUME NEW a \in Agents, NEW k \in codes, NEW caps \in Reports[a], NEW shared \in SUBSET Devices,
               PairAgent(a, k, caps, shared)
        PROVE  Goal
    BY <1>0, <2>2 DEF PairAgent
  <2>3. ASSUME NEW a \in Agents, NEW shared \in SUBSET Devices, NEW enabled \in BOOLEAN,
               SetSharing(a, shared, enabled)
        PROVE  Goal
    BY <1>0, <2>3 DEF SetSharing, AgentRow
  <2>4. ASSUME NEW a \in Agents, DeleteAgent(a) PROVE Goal
    BY <1>0, <2>4 DEF DeleteAgent, AgentRow
  <2>5. ASSUME NEW a \in Agents, NEW caps \in Reports[a], Heartbeat(a, caps) PROVE Goal
    BY <1>0, <2>5 DEF Heartbeat, AgentRow
  <2>6. ASSUME NEW a \in Agents, agent' = Seen(a) PROVE Goal
    BY <1>0, <2>6 DEF Seen, AgentRow
  <2>7. ASSUME Tick PROVE Goal
    BY <1>0, <2>7 DEF Tick, AgentRow
  <2>. QED
    BY <1>0, <2>1, <2>2, <2>3, <2>4, <2>5, <2>6, <2>7, AgentCases
<1>. QED
  BY <1>1 DEF SharedAreReported

\* A consent ends only with one of those calls.
LEMMA ConsentEnds ==
  ASSUME TypeOK, SharedAreReported, [Next]_vars, NEW x \in Assignment, Consent(x), ~Consent(x)'
  PROVE  Withdraws(x)
<1> DEFINE b == x.agent
           Same == /\ agent'[b].row = agent[b].row /\ agent'[b].enabled = agent[b].enabled
                   /\ agent'[b].shared = agent[b].shared /\ agent'[b].caps = agent[b].caps
<1>0. /\ agent \in [Agents -> AgentRow] /\ b \in Agents
      /\ agent[b].shared \subseteq agent[b].caps.devices
      /\ agent[b].row = "paired"
  BY DEF TypeOK, SharedAreReported, Assignment, Consent
<1>1. ClusterOf[b] \in Clusters /\ UserOf[b] \in Users
  BY <1>0, ConstantsAssumption
<1>2. ASSUME ~Member(ClusterOf[b], UserOf[b])' PROVE Withdraws(x)
  <2>1. Member(ClusterOf[b], UserOf[b])
    BY DEF Consent
  <2>2. \E st \in {"rejected", "revoked"} : Expel(ClusterOf[b], UserOf[b], st)
    BY <1>1, <1>2, <2>1, MembershipEnds
  <2>. QED
    BY <2>2 DEF Withdraws
<1>3. ASSUME Member(ClusterOf[b], UserOf[b])', Same PROVE FALSE
  BY <1>3 DEF Consent
<1>4. ASSUME NEW c \in Clusters, NEW u \in Users, NEW st \in {"rejected", "revoked"}, Expel(c, u, st)
      PROVE  Same \/ Withdraws(x)
  <2>1. CASE c = ClusterOf[b] /\ u = UserOf[b]
    BY <1>4, <2>1 DEF Withdraws
  <2>2. CASE ~(c = ClusterOf[b] /\ u = UserOf[b])
    BY <1>0, <1>4, <2>2 DEF Expel
  <2>. QED
    BY <2>1, <2>2
<1>5. ASSUME NEW a \in Agents, NEW k \in codes, NEW caps \in Reports[a], NEW shared \in SUBSET Devices,
             PairAgent(a, k, caps, shared)
      PROVE  Same
  BY <1>0, <1>5 DEF PairAgent
<1>6. ASSUME NEW a \in Agents, NEW shared \in SUBSET Devices, NEW enabled \in BOOLEAN,
             SetSharing(a, shared, enabled)
      PROVE  Same \/ Withdraws(x) \/ Consent(x)'
  <2>1. CASE a # b
    BY <1>0, <1>6, <2>1 DEF SetSharing
  <2>2. CASE a = b /\ ~(~enabled \/ x.device \notin shared)
    <3>1. /\ agent'[b].row = "paired" /\ agent'[b].enabled /\ x.device \in agent'[b].shared
          /\ agent'[b].caps = agent[b].caps
      BY <1>0, <1>6, <2>2 DEF SetSharing, AgentRow
    <3>2. UNCHANGED membership
      BY <1>6 DEF SetSharing
    <3>. QED
      BY <3>1, <3>2 DEF Consent, Member
  <2>3. CASE a = b /\ (~enabled \/ x.device \notin shared)
    BY <1>6, <2>3 DEF Withdraws
  <2>. QED
    BY <2>1, <2>2, <2>3
<1>7. ASSUME NEW a \in Agents, DeleteAgent(a) PROVE Same \/ Withdraws(x)
  <2>1. CASE a = b
    BY <1>7, <2>1 DEF Withdraws
  <2>2. CASE a # b
    BY <1>0, <1>7, <2>2 DEF DeleteAgent
  <2>. QED
    BY <2>1, <2>2
<1>8. ASSUME NEW a \in Agents, NEW caps \in Reports[a], Heartbeat(a, caps)
      PROVE  Same \/ Withdraws(x)
  <2>1. CASE a = b /\ caps # agent[b].caps
    BY <1>8, <2>1 DEF Withdraws
  <2>2. CASE a = b /\ caps = agent[b].caps
    <3>1. /\ agent'[b].row = agent[b].row /\ agent'[b].enabled = agent[b].enabled
          /\ agent'[b].shared = agent[b].shared \cap agent[b].caps.devices
          /\ agent'[b].caps = agent[b].caps
      BY <1>0, <1>8, <2>2 DEF Heartbeat, AgentRow
    <3>2. agent[b].shared \cap agent[b].caps.devices = agent[b].shared
      BY <1>0
    <3>. QED
      BY <3>1, <3>2
  <2>3. CASE a # b
    BY <1>0, <1>8, <2>3 DEF Heartbeat
  <2>. QED
    BY <2>1, <2>2, <2>3
<1>9. ASSUME NEW a \in Agents, agent' = Seen(a) PROVE Same
  BY <1>0, <1>9 DEF Seen, AgentRow
<1>10. ASSUME Tick PROVE Same
  BY <1>0, <1>10 DEF Tick, AgentRow
<1>11. Same \/ Withdraws(x) \/ Consent(x)'
  BY <1>4, <1>5, <1>6, <1>7, <1>8, <1>9, <1>10, AgentCases
<1>. QED
  BY <1>2, <1>3, <1>11

\* Such a call leaves no active job on the device.
LEMMA WithdrawalStops ==
  ASSUME TypeOK, NEW j \in Jobs, NEW x \in job[j].spec, Row(j, x.rank) # "none",
         Consent(x), Withdraws(x)
  PROVE  job'[j].status \notin Active
<1> DEFINE J == job[j]
           b == x.agent
<1>0. /\ J \in JobRow /\ x \in Assignment /\ b \in Agents /\ x.device \in Devices
      /\ x \in RowsOn(J, b) /\ agent[b].row = "paired" /\ x.device \in agent[b].shared
  BY DEF TypeOK, JobRow, Assignment, RowsOn, Row, Consent
<1>1. ASSUME NEW removed, x.device \in removed
      PROVE  Withdrawn(J, b, removed).status \notin Active
  <2>1. CASE J.status \in Active
    <3>1. Hit(J, b, removed)
      BY <1>0, <1>1, <2>1 DEF Hit, Active
    <3>. QED
      BY <1>0, <2>1, <3>1, StoppedWinds DEF Withdrawn, Active
  <2>2. CASE J.status \notin Active
    BY <2>2 DEF Withdrawn, Hit, Active
  <2>. QED
    BY <2>1, <2>2
<1>2. ASSUME NEW st \in {"rejected", "revoked"}, Expel(ClusterOf[b], UserOf[b], st)
      PROVE  job'[j].status \notin Active
  <2>1. CASE J.status \in Active
    <3>1. Hit(J, b, Devices)
      BY <1>0, <2>1 DEF Hit, Active
    <3>2. job'[j] = Stopped(J, "failed")
      BY <1>0, <1>2, <3>1 DEF Expel
    <3>. QED
      BY <1>0, <2>1, <3>2, StoppedWinds DEF Active
  <2>2. CASE J.status \notin Active
    BY <1>2, <2>2 DEF Expel, Hit, Active
  <2>. QED
    BY <2>1, <2>2
<1>3. ASSUME NEW shared \in SUBSET Devices, NEW enabled \in BOOLEAN,
             SetSharing(b, shared, enabled), ~enabled \/ x.device \notin shared
      PROVE  job'[j].status \notin Active
  <2>1. PICK removed : x.device \in removed /\ job'[j] = Withdrawn(J, b, removed)
    BY <1>0, <1>3 DEF SetSharing
  <2>. QED
    BY <1>1, <2>1
<1>4. ASSUME DeleteAgent(b) PROVE job'[j].status \notin Active
  <2>1. /\ Withdrawn(J, b, Devices) \in JobRow
        /\ Withdrawn(J, b, Devices).status \notin Active
    <3>1. "failed" \in JobStatus
      BY DEF JobStatus
    <3>. QED
      BY <1>0, <1>1, <3>1, StoppedType DEF Withdrawn
  <2>2. job'[j].status = Withdrawn(J, b, Devices).status
    BY <1>4, <2>1 DEF DeleteAgent, JobRow
  <2>. QED
    BY <2>1, <2>2
<1>5. ASSUME NEW caps \in Reports[b], Heartbeat(b, caps), caps # agent[b].caps
      PROVE  job'[j].status \notin Active
  BY <1>0, <1>1, <1>5 DEF Heartbeat
<1>. QED
  BY <1>2, <1>3, <1>4, <1>5 DEF Withdraws

LEMMA ConsentStep ==
  ASSUME IInv, SharedAreReported, RunsOnConsent, [Next]_vars
  PROVE  RunsOnConsent'
<1> SUFFICES ASSUME NEW j \in Jobs, job'[j].status \in Active, NEW x \in job'[j].spec
             PROVE  job'[j].row[x.rank] # "none" /\ Consent(x)'
  BY DEF RunsOnConsent, Active, Consent, Row
<1>0. TypeOK /\ job[j] \in JobRow /\ WellPlaced(job[j])
  BY DEF IInv, TypeOK
<1>1. CASE \E R : GoesOn(j, R)
  <2>1. /\ job[j].status \in Active /\ x \in job[j].spec
        /\ x \in Assignment /\ x.rank \in Ranks
    BY <1>0, <1>1 DEF GoesOn, Onward, JobRow, Assignment
  <2>2. Row(j, x.rank) # "none" /\ Consent(x)
    BY <2>1 DEF RunsOnConsent, Active, Consent
  <2>3. job'[j].row[x.rank] # "none"
    BY <1>1, <2>1, <2>2 DEF GoesOn, Onward, Row
  <2>4. Consent(x)'
    BY <1>0, <2>1, <2>2, ConsentEnds, WithdrawalStops
  <2>. QED
    BY <2>3, <2>4
<1>2. ASSUME NEW port \in Ports, CreateJob(j, port) PROVE FALSE
  BY <1>2, CreatedJob DEF Active
<1>3. CASE StartJob(j)
  <2>1. x \in job[j].spec /\ job[j].status = "draft" /\ x.rank \in Ranks
    BY <1>0, <1>3, StartedJob DEF JobRow, Assignment
  <2>2. Eligible(x)
    BY <1>3, <2>1 DEF StartJob, PreviewOk
  <2>3. Consent(x)'
    BY <1>3, <2>2 DEF StartJob, Eligible, Consent, Member
  <2>4. job[j].row[x.rank] # "none"
    BY <1>0, <2>1, <2>2 DEF WellPlaced, Eligible
  <2>5. job'[j].row[x.rank] # "none"
    BY <1>3, <2>1, <2>4, StartedJob
  <2>. QED
    BY <2>3, <2>5
<1>. QED
  BY <1>1, <1>2, <1>3, StepCases

\* A preparing or running job uses only devices that are there, shared, and lent
\* by a member: whoever takes one of these away fails the job in the same call.
THEOREM JobsRunOnConsent == Spec => []RunsOnConsent
<1>1. Init => SharedAreReported /\ RunsOnConsent
  <2> SUFFICES ASSUME Init PROVE SharedAreReported /\ RunsOnConsent
    OBVIOUS
  <2>1. SharedAreReported
    BY DEF Init, SharedAreReported
  <2>2. \A j \in Jobs : job[j].status = "none"
    BY DEF Init, NoJob
  <2>. QED
    BY <2>1, <2>2 DEF RunsOnConsent
<1>2. IInv /\ SharedAreReported /\ RunsOnConsent /\ [Next]_vars => (SharedAreReported /\ RunsOnConsent)'
  BY SharedStep, ConsentStep DEF IInv
<1>. QED
  BY <1>1, <1>2, InductiveInvariant, PTL DEF Spec
=============================================================================
