------------------------ MODULE MCReviewCoordination ------------------------
(***************************************************************************)
(* Instances of ReviewCoordination for TLC.  With one worker to a process  *)
(* the worker stands for its process, which keeps the two interchangeable. *)
(***************************************************************************)
EXTENDS ReviewCoordination, TLC

OwnProcess == [w \in Workers |-> w]

WorkerSymmetry == Permutations(Workers)
=============================================================================
