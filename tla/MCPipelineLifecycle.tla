------------------------- MODULE MCPipelineLifecycle -------------------------
(* PipelineLifecycle for TLC. *)
EXTENDS PipelineLifecycle

(* A stage with memory of its own and one with none, prepared and worker. *)
MCStages(i, j) == [n \in Stage |-> IF n = 1 THEN i ELSE j]

Ask(prepared, worker, workers, preparedLimit, workerLimit, workersLimit) ==
  [prepared |-> prepared, worker |-> worker, workers |-> workers,
   preparedLimit |-> preparedLimit, workerLimit |-> workerLimit,
   workersLimit |-> workersLimit]

(* Exact limits, room to spare, a limit one short, and a request whose     *)
(* worker total exceeds the largest size.                                  *)
MemoryRequests ==
  {Ask(MCStages(1, 1), MCStages(1, 1), 2, 5, 3, 6),
   Ask(MCStages(0, 2), MCStages(2, 0), 2, 7, 4, 7),
   Ask(MCStages(1, 0), MCStages(0, 1), 2, 3, 2, 4),
   Ask(MCStages(0, 1), MCStages(2, 1), 2, 7, 7, 7)}
=============================================================================
