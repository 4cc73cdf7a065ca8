------------------------ MODULE MCExecutionPipeline ------------------------
(* Instance of ExecutionPipeline: a call reports once, or twice and a trade. *)
EXTENDS ExecutionPipeline

CONSTANTS buyer

MCResult == {<<buyer>>, <<buyer, buyer>>}
=============================================================================
