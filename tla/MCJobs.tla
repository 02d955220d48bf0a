-------------------------------- MODULE MCJobs --------------------------------
(***************************************************************************)
(* A small instance of both worker queues for TLC.  Workers and deliveries *)
(* are interchangeable.                                                    *)
(***************************************************************************)
EXTENDS WorkerJobs, TLC

ASSUME DetectionAssumption /\ C!ReconstructionAssumption

Alike == Permutations(Workers) \union Permutations(Copies)
=============================================================================
