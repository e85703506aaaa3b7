--------------------------- MODULE LifecycleClaims ---------------------------
(***************************************************************************)
(* What comments and checks say of the model's life cycle and the code     *)
(* does not keep.                                                          *)
(***************************************************************************)
EXTENDS ModelLifecycle

\* "Validate rejects configs the backend would silently mis-run"
\* (models/config.go): an engine scales its rope as the checkpoint says and
\* attends in each layer as the checkpoint says.
ValidateRejects ==
  at = "serving" =>
    /\ ~ Config.scaling
    /\ \A l \in 1 .. Config.layers : LayerIsSliding(bcfg, flags, l) <=> MeansSliding(Config, l)
=============================================================================
