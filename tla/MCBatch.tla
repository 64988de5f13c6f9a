------------------------------- MODULE MCBatch -------------------------------
(* Instances of Batch for TLC: those of its parts.                          *)
EXTENDS Batch, MCTuner, MCPipeline, MCLogs, MCSqlText, MCCorrelation, MCTransform
=============================================================================
