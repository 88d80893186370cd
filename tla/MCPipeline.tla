---- MODULE MCPipeline ----
(* The instances of Pipeline that TLC checks. *)
EXTENDS Pipeline

\* A data set is loaded, a model is trained and published.
MCKind == <<"plain", "train", "plain">>

\* A model is trained and published: no save asks the platform, and none fails.
MCTrainAndPublish == <<"train", "plain">>
====
