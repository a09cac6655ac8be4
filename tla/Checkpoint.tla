----------------------------- MODULE Checkpoint -----------------------------
(***************************************************************************)
(* Checkpoints of the question-answering runner: utils/qa_checkpoints.py   *)
(* inside the training loop of scripts/train_qa_pipeline.py.  Every rank   *)
(* keeps its own versions on its own disk; ranks agree by collectives,     *)
(* which none leaves before all have entered.  A process may crash between *)
(* any two steps, a disk may refuse a write, and all ranks are launched    *)
(* again to resume.  Only saving tells the other ranks of an error; a rank *)
(* that cannot write its metrics or its progress leaves alone.             *)
(*                                                                         *)
(* A version is named by its step: all versions in a directory belong to   *)
(* one run, because a fresh start is refused where there are versions and  *)
(* a resumed run keeps the run's identity.  checkpoint.pt, a copy of the   *)
(* last version for export, takes no part in resuming and is left out.     *)
(***************************************************************************)
EXTENDS Naturals, Sequences, FiniteSets, FiniteSetsExt

CONSTANTS
  Ranks,
  Intervals,      \* values of --checkpoint-every an operator may give
  KeepInterval,   \* whether a resumed run keeps the interval of the run
  MaxSteps,       \* bound: the largest budget of steps
  MaxFaults       \* bound: crashes and refused writes

ASSUME CheckpointAssumption ==
  /\ Ranks # {} /\ IsFiniteSet(Ranks)
  /\ Intervals \subseteq Nat
  /\ KeepInterval \in BOOLEAN
  /\ MaxSteps \in Nat \ {0}
  /\ MaxFaults \in Nat

VARIABLES
  pc,         \* what a rank's process is doing
  step,       \* optimizer updates the rank has made
  files,      \* the steps of its checkpoint-step-*.pt
  log,        \* the steps recorded in its metrics.jsonl
  failed,     \* the error a rank brings to the next collective
  every,      \* --checkpoint-every of this session
  budget,     \* its steps: --epochs and --max-steps
  confirmed,  \* history: the last step reported as checkpoint_saved
  alone,      \* history: a process of this session crashed, or raised and told nobody
  faults      \* how many faults have happened

vars == <<pc, step, files, log, failed, every, budget, confirmed, alone, faults>>
session == <<every, budget, alone>>

Away == {"down", "out"}        \* "out" never took part in a batch of the session
Ended == Away \cup {"done"}
Waiting == {"training", "wrote", "pruned"}   \* in, or on the way to, a collective
Steps == 1 .. MaxSteps

CheckpointTypeOK ==
  /\ pc \in [Ranks -> Ended \cup Waiting \cup {"loading", "writing", "pruning"}]
  /\ step \in [Ranks -> 0 .. MaxSteps]
  /\ files \in [Ranks -> SUBSET Steps]
  /\ log \in [Ranks -> Seq(Steps)]
  /\ failed \in [Ranks -> BOOLEAN]
  /\ every \in Intervals
  /\ budget \in 0 .. MaxSteps
  /\ confirmed \in 0 .. MaxSteps
  /\ alone \in BOOLEAN
  /\ faults \in 0 .. MaxFaults

Init ==
  /\ pc = [r \in Ranks |-> "down"]
  /\ step = [r \in Ranks |-> 0]
  /\ files = [r \in Ranks |-> {}]
  /\ log = [r \in Ranks |-> <<>>]
  /\ failed = [r \in Ranks |-> FALSE]
  /\ every \in Intervals
  /\ budget = 0 /\ confirmed = 0 /\ alone = FALSE /\ faults = 0

-----------------------------------------------------------------------------
(* Launching all ranks.                                                    *)

Launch(k, n) ==
  /\ \A r \in Ranks : pc[r] \in Ended
  /\ every' = k
  /\ budget' = n
  /\ alone' = FALSE
  /\ failed' = [r \in Ranks |-> FALSE]

\* Without --resume: refused on every rank if any rank has versions.
Start(k, n) ==
  /\ Launch(k, n)
  /\ \A r \in Ranks : files[r] = {}
  /\ step' = [r \in Ranks |-> 0]
  /\ pc' = [r \in Ranks |-> "loading"]
  /\ confirmed' = 0
  /\ UNCHANGED <<files, log, faults>>

\* The steps every rank has a version of.
Common == {s \in Steps : \A r \in Ranks : s \in files[r]}

\* load_common_checkpoint.  The budget may be increased.
Resume(k, n) ==
  /\ Launch(k, n)
  /\ Common # {}
  /\ KeepInterval => k = every
  /\ n >= budget
  /\ step' = [r \in Ranks |-> Max(Common)]
  /\ pc' = [r \in Ranks |-> "loading"]
  /\ UNCHANGED <<files, log, confirmed, faults>>

Fault == faults < MaxFaults /\ faults' = faults + 1

\* A process ends by itself, and the other ranks are not told.
Leaves(r) ==
  /\ Fault
  /\ alone' = TRUE
  /\ pc' = [pc EXCEPT ![r] = IF @ = "loading" THEN "out" ELSE "down"]
  /\ UNCHANGED <<files, failed, every, budget, confirmed>>

\* The i-th smallest of a set of numbers.
Nth(K, i) == CHOOSE k \in K : Cardinality({j \in K : j <= k}) = i

\* Mutant of Retained: the metrics are kept as they are.
RetainedAll(r) == log[r]
Retained(r) ==
  LET kept == {i \in DOMAIN log[r] : log[r][i] <= step[r]}
  IN [i \in 1 .. Cardinality(kept) |-> log[r][Nth(kept, i)]]

\* The loop over steps goes on.
Proceed == [r \in Ranks |-> IF step[r] < budget THEN "training" ELSE "done"]

\* The metrics a rank is rewriting may be cut off anywhere.
CutOff(r) ==
  \/ UNCHANGED log
  \/ \E n \in 0 .. Len(Retained(r)) : log' = [log EXCEPT ![r] = SubSeq(Retained(r), 1, n)]

\* Step metrics newer than the loaded version are dropped, all of them at step 0.
\* The disk may refuse it.
Trim(r) ==
  /\ pc[r] = "loading"
  /\ \/ /\ log' = [log EXCEPT ![r] = Retained(r)]
        /\ pc' = [pc EXCEPT ![r] = Proceed[r]]
        /\ UNCHANGED <<files, failed, session, confirmed, faults>>
     \/ Leaves(r) /\ CutOff(r)
  /\ UNCHANGED step

-----------------------------------------------------------------------------
(* One step of training, and saving after it.                              *)

\* A version is due at the interval and at the end.
Due(s) == (every > 0 /\ s % every = 0) \/ s = budget

\* A batch takes part of all ranks, so none finishes step s + 1 before all have
\* finished s; one of them may have crashed after its part.  The disk may refuse
\* the record of the step.
Train(r) ==
  /\ pc[r] = "training"
  /\ \A q \in Ranks : step[q] >= step[r] /\ pc[q] \notin {"loading", "out"}
  /\ step' = [step EXCEPT ![r] = @ + 1]
  /\ \/ /\ log' = [log EXCEPT ![r] = Append(@, step[r] + 1)]
        /\ pc' = [pc EXCEPT ![r] = IF Due(step[r] + 1) THEN "writing" ELSE "training"]
        /\ UNCHANGED <<files, failed, session, confirmed, faults>>
     \/ /\ Leaves(r)
        /\ log' = log \/ log' = [log EXCEPT ![r] = Append(@, step[r] + 1)]

\* Mutant of Write: a rank that cannot write raises before the collective.
WriteOrRaise(r) ==
  /\ pc[r] = "writing"
  /\ \/ /\ files' = [files EXCEPT ![r] = @ \cup {step[r]}]
        /\ pc' = [pc EXCEPT ![r] = "wrote"]
        /\ UNCHANGED faults
     \/ /\ Fault
        /\ pc' = [pc EXCEPT ![r] = "down"]
        /\ UNCHANGED files
  /\ UNCHANGED <<step, log, failed, session, confirmed>>

\* A temporary file is written, synchronised and renamed.
Write(r) ==
  /\ pc[r] = "writing"
  /\ \/ files' = [files EXCEPT ![r] = @ \cup {step[r]}] /\ UNCHANGED <<failed, faults>>
     \/ Fault /\ failed' = [failed EXCEPT ![r] = TRUE] /\ UNCHANGED files
  /\ pc' = [pc EXCEPT ![r] = "wrote"]
  /\ UNCHANGED <<step, log, session, confirmed>>

\* collect_errors: all ranks leave together, and all raise if one has an error.
Collect(from, to) ==
  /\ \A r \in Ranks : pc[r] = from
  /\ pc' = IF \E r \in Ranks : failed[r] THEN [r \in Ranks |-> "down"] ELSE to

AllWrote ==
  /\ Collect("wrote", [r \in Ranks |-> "pruning"])
  /\ UNCHANGED <<step, files, log, failed, session, confirmed, faults>>

\* Mutant of Surplus: the versions are sorted the other way.
SurplusAscending(F) == {s \in F : Cardinality({t \in F : t < s}) >= 2}

\* The versions beyond the two newest.
Surplus(F) == {s \in F : Cardinality({t \in F : t > s}) >= 2}

\* They are removed one by one, the newest of them first.
Prune(r) ==
  /\ pc[r] = "pruning"
  /\ \/ /\ Surplus(files[r]) # {}
        /\ files' = [files EXCEPT ![r] = @ \ {Max(Surplus(@))}]
        /\ UNCHANGED <<pc, failed, faults>>
     \/ /\ Surplus(files[r]) = {}
        /\ pc' = [pc EXCEPT ![r] = "pruned"]
        /\ UNCHANGED <<files, failed, faults>>
     \/ /\ Fault
        /\ failed' = [failed EXCEPT ![r] = TRUE]
        /\ pc' = [pc EXCEPT ![r] = "pruned"]
        /\ UNCHANGED files
  /\ UNCHANGED <<step, log, session, confirmed>>

AllPruned ==
  /\ Collect("pruned", Proceed)
  /\ confirmed' = IF \E r \in Ranks : failed[r] THEN confirmed
                  ELSE Max({step[r] : r \in Ranks})
  /\ UNCHANGED <<step, files, log, failed, session, faults>>

-----------------------------------------------------------------------------
(* Failures.                                                               *)

\* A process dies anywhere, or cannot write its progress.
Crash(r) ==
  /\ pc[r] \notin Ended
  /\ Leaves(r)
  /\ IF pc[r] = "loading" THEN CutOff(r) ELSE UNCHANGED log
  /\ UNCHANGED step

\* The others' collectives fail or time out.
Abandon(r) ==
  /\ pc[r] \in Waiting
  /\ \E q \in Ranks : pc[q] \in Away
  /\ pc' = [pc EXCEPT ![r] = "down"]
  /\ UNCHANGED <<step, files, log, failed, session, confirmed, faults>>

Next ==
  \/ \E k \in Intervals, n \in Steps : Start(k, n) \/ Resume(k, n)
  \/ \E r \in Ranks :
       \/ Trim(r)
       \/ Train(r)
       \/ Write(r)
       \/ Prune(r)
       \/ Crash(r)
       \/ Abandon(r)
  \/ AllWrote
  \/ AllPruned

Spec == Init /\ [][Next]_vars

-----------------------------------------------------------------------------
(* Properties.                                                             *)

\* "A checkpoint_saved record confirms that all ranks have saved that step";
\* afterwards, whatever crashes and is resumed, a version of that step or of a
\* later one exists on every rank.
ConfirmedIsRecoverable ==
  confirmed > 0 => \E s \in Common : s >= confirmed

\* Resuming neither repeats nor reorders what metrics.jsonl records, even if the
\* ranks fall back to a version older than some rank's last step.
MetricsInOrder ==
  \A r \in Ranks : \A i, k \in DOMAIN log[r] : i < k => log[r][i] < log[r][k]

\* A rank that cannot save or remove a version brings its error to the collective
\* and takes all ranks down at once: as long as nothing but saving has failed, none
\* is left waiting for one that is gone.
FailTogether ==
  ~alone => \A p, q \in Ranks : pc[p] \in Away => pc[q] \notin Waiting
=============================================================================
