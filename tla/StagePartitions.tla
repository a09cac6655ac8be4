--------------------------- MODULE StagePartitions ---------------------------
(****************************************************************************)
(* How a pretrained model is cut into stages and what crosses the cuts:      *)
(* pipeline_layout, activation_shapes and MT5Partition of                    *)
(* modules/mt5_partition.py, qa_layout and BertQAPartition of                *)
(* modules/bert_qa_partition.py.  Sender and receiver agree on nothing but   *)
(* the positions of the tensors: the sender sends the values of its state in *)
(* their order, the receiver derives names and shapes from where it starts.  *)
(****************************************************************************)
EXTENDS Integers, Sequences, FiniteSets, FiniteSetsExt, SequencesExt

CONSTANT Layouts   \* task, layers of encoder and decoder, world size, pipeline size

Chosen == 0        \* mT5 without --pipeline-size

ASSUME LayoutAssumption ==
  \A l \in Layouts :
    /\ l.task \in {"qa", "mt5"} /\ {l.encoder, l.decoder, l.world} \subseteq Nat \ {0}
    /\ l.size \in Nat /\ (l.task = "qa" => l.size # Chosen)

VARIABLES
  layout,       \* one of Layouts; never changes
  pipelineRank, \* pipeline_rank whose forward is running
  unit,         \* the next computation unit of the model
  tensors,      \* names of the entries of its state, in their order
  passed        \* "running", "finished" or "refused"

partitionVars == <<layout, pipelineRank, unit, tensors, passed>>
------------------------------------------------------------------------------
\* Embeddings, blocks, head.
Units == layout.encoder + (IF layout.task = "mt5" THEN layout.decoder ELSE 0) + 2
EncoderEnd == layout.encoder
DecoderEnd == layout.encoder + layout.decoder

StageCount ==
  IF layout.size # Chosen THEN layout.size
  ELSE Max({n \in 1 .. Min({Units, layout.world}) : layout.world % n = 0})
Refuses == StageCount > Units \/ layout.world % StageCount # 0

Boundary(r) == (Units * r) \div StageCount
Owned(r) == Boundary(r) .. Boundary(r + 1) - 1

\* Mutant of ActivationNames: a bias is expected where the encoder has just ended.
ActivationNamesAtEnd(done) ==
  IF layout.task = "qa" THEN <<"hidden">>
  ELSE (IF done < DecoderEnd THEN <<"encoded">> ELSE <<>>) \o <<"decoded">>
    \o (IF 0 < done /\ done <= EncoderEnd THEN <<"encoder_bias">> ELSE <<>>)
    \o (IF EncoderEnd < done /\ done < DecoderEnd THEN <<"decoder_bias">> ELSE <<>>)

\* activation_shapes: what a stage receives that starts after unit `done`.
ActivationNames(done) ==
  IF layout.task = "qa" THEN <<"hidden">>
  ELSE (IF done < DecoderEnd THEN <<"encoded">> ELSE <<>>) \o <<"decoded">>
    \o (IF 0 < done /\ done < EncoderEnd THEN <<"encoder_bias">> ELSE <<>>)
    \o (IF EncoderEnd < done /\ done < DecoderEnd THEN <<"decoder_bias">> ELSE <<>>)

\* Assigning to a key of a dict keeps its place, a new one comes last.
Put(state, name) == IF name \in ToSet(state) THEN state ELSE Append(state, name)

\* The state after one unit.
AfterUnit(state) ==
  IF layout.task = "qa" THEN <<"hidden">>
  ELSE CASE unit = 0 -> Put(Put(state, "encoded"), "decoded")
         [] unit \in 1 .. EncoderEnd - 1 -> Put(Put(state, "encoded"), "encoder_bias")
         [] unit = EncoderEnd -> RemoveFirst(Put(Put(state, "encoded"), "encoder_bias"), "encoder_bias")
         [] unit \in EncoderEnd + 1 .. DecoderEnd - 1 -> Put(Put(state, "decoded"), "decoder_bias")
         [] unit = DecoderEnd ->
              RemoveFirst(RemoveFirst(Put(Put(state, "decoded"), "decoder_bias"), "decoder_bias"), "encoded")
         [] OTHER -> state

PartitionInit ==
  /\ layout \in Layouts
  /\ pipelineRank = 0 /\ unit = 0 /\ tensors = <<>>
  /\ passed = IF Refuses THEN "refused" ELSE "running"

RunUnit ==
  /\ passed = "running" /\ unit \in Owned(pipelineRank)
  /\ tensors' = AfterUnit(tensors)
  /\ unit' = unit + 1
  /\ UNCHANGED <<layout, pipelineRank, passed>>

\* The receiver names what it gets by position, as many as it expects.
HandOver ==
  /\ passed = "running" /\ unit = Boundary(pipelineRank + 1) /\ pipelineRank + 1 < StageCount
  /\ Len(tensors) >= Len(ActivationNames(unit - 1))
  /\ pipelineRank' = pipelineRank + 1
  /\ tensors' = ActivationNames(unit - 1)
  /\ UNCHANGED <<layout, unit, passed>>

FinishForward ==
  /\ passed = "running" /\ unit = Boundary(pipelineRank + 1) /\ pipelineRank + 1 = StageCount
  /\ passed' = "finished"
  /\ UNCHANGED <<layout, pipelineRank, unit, tensors>>

PartitionNext == RunUnit \/ HandOver \/ FinishForward
PartitionSpec == PartitionInit /\ [][PartitionNext]_partitionVars
------------------------------------------------------------------------------
\* Wherever the model is cut, the next stage expects exactly the tensors the
\* stage before has, in the same order, so that none is taken for another or
\* left on the wire; all units are run and no stage is idle (pipeline_layout,
\* activation_shapes, MT5Partition.forward, send and receive of pipeline_batch).
StagesFit ==
  /\ passed = "running" /\ unit = Boundary(pipelineRank + 1) /\ pipelineRank + 1 < StageCount
       => tensors = ActivationNames(unit - 1)
  /\ passed = "finished" => unit = Units
  /\ passed # "refused" => \A r \in 0 .. StageCount - 1 : Owned(r) # {}
=============================================================================
