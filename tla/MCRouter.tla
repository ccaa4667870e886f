------------------------------ MODULE MCRouter ------------------------------
(* One adapter of each kind. *)
EXTENDS RandomRouter, TLC

MCKind == "Axelar" :> "axelar" @@ "LayerZero" :> "layerzero"
          @@ "Wormhole" :> "wormhole"

Interchangeable == Permutations(Destinations)
=============================================================================
