---------------------------- MODULE MCTrainActions ----------------------------
(* The instance of TrainActions that TLC checks: three resumes, three failed   *)
(* requests or lost answers and two restarts.                                  *)
EXTENDS TrainActions
=============================================================================
