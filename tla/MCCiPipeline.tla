------------------------------ MODULE MCCiPipeline ------------------------------
(* The thresholds of the two suites, scaled down, for CiPipeline. *)
EXTENDS CiPipeline

MCMinTests == [unit |-> 1, integration |-> 2]
=============================================================================
