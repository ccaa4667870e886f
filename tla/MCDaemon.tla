------------------------------ MODULE MCDaemon ------------------------------
(* Small instances of the relayer process for TLC. *)
EXTENDS RelayerDaemon, TLC

MCDefaultPriority == <<"AXELAR", "LAYERZERO">>

MCNormalize ==
  ("AXELAR" :> "AXELAR") @@ ("LAYERZERO" :> "LAYERZERO") @@ ("DUMMY" :> "DUMMY")
  @@ (" " :> NoName)

From(environment, dummy) == [env |-> environment, file |-> NoFile, dummy |-> dummy]

\* One bridge, alone or with the dummy as the last resort: a fault fails a
\* dispatch, or makes the dummy answer it.
MCConfigurations ==
  {From(<<"LAYERZERO">>, FALSE), From(<<"LAYERZERO", "DUMMY">>, TRUE)}
=============================================================================
