----------------------------- MODULE MCFailover -----------------------------
(* Small instances of the failover for TLC. *)
EXTENDS BridgeFailover, TLC

MCDefaultPriority == <<"AXELAR", "LAYERZERO">>

MCNormalize ==
  ("axelar" :> "AXELAR") @@ ("AXELAR" :> "AXELAR")
  @@ ("LAYERZERO" :> "LAYERZERO") @@ ("DUMMY" :> "DUMMY")
  @@ ("CCIP" :> "CCIP") @@ (" " :> NoName)

Entry(name, enabled) == [name |-> name, enabled |-> enabled]

\* Blank, commas only, a repeated name, an unknown one, the dummy first.
Environments ==
  {Unset, <<" ">>, <<" ", " ">>, <<"axelar", "AXELAR">>,
   <<"LAYERZERO", "CCIP", "axelar">>, <<"DUMMY", "LAYERZERO">>}

\* No list at all, an empty priority list, a disabled bridge.
Files ==
  {NoFile, BadFile,
   [priority |-> Unset, bridges |-> Unset],
   [priority |-> <<" ">>, bridges |-> <<Entry("LAYERZERO", TRUE)>>],
   [priority |-> <<"AXELAR">>, bridges |-> <<Entry("AXELAR", FALSE)>>],
   [priority |-> Unset,
    bridges |-> <<Entry("AXELAR", FALSE), Entry("LAYERZERO", TRUE)>>]}

MCConfigurations == [env : Environments, file : Files, dummy : BOOLEAN]
=============================================================================
