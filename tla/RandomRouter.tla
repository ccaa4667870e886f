---------------------------- MODULE RandomRouter ----------------------------
(***************************************************************************)
(* The source contract RandomRouter.sol with the adapters of its bridges   *)
(* (adapters/AxelarAdapter.sol, LayerZeroAdapter.sol,                      *)
(* WormholeAdapter.sol), and the two calls of relay_via_router in          *)
(* network_module/src/bridges.rs: an estimate against the chain as it is,  *)
(* then a transaction that is mined against the chain as it has become.    *)
(* The Axelar relayer asks Axelar's gas service instead of the router.     *)
(*                                                                         *)
(* A destination stands for the pair of chain name and address, a place    *)
(* for what a bridge's route makes of it.  A call that reverts changes     *)
(* nothing, so a call of an owner is an action with its checks as guards.  *)
(*                                                                         *)
(* An operator Mutant_X is a plausible bug in the definition after it.  No *)
(* definition uses it.                                                     *)
(***************************************************************************)
EXTENDS Naturals, FiniteSets

CONSTANTS
  MaxUint,        \* type(uint256).max
  Bridges,        \* bridge identifiers
  GasServiceBridges,  \* those whose relayer asks the gas service
  Adapters,       \* deployed adapters
  Kind,           \* [Adapters -> {"axelar", "layerzero", "wormhole"}]
  NoAdapter,      \* the zero address
  Accounts,
  Deployer,       \* an account
  Destinations, Places, NoRoute,
  Oracles,        \* who a Wormhole adapter can ask for a price
  DefaultOracle,  \* the Wormhole relayer
  Endpoint,       \* the LayerZero endpoint
  Prices, NoPrice,   \* prices per unit of size; NoPrice: the call fails
  Hints,          \* fee hints
  DefaultHint,    \* of a new Wormhole adapter
  GasQuotes,      \* what the gas service answers
  Reverts,        \* the estimate reverts
  EstimatedSize,  \* size of the six fields the relayer has estimated
  PayloadSizes,   \* sizes of the eight fields the router sends
  FeeBufferBps, FallbackFee,
  FeeCaps         \* max_fee_cap_wei of the relayers

CONSTANTS         \* bounds of the explored instance
  InitialPrice,   \* of every oracle and the endpoint
  MaxRequests, MaxTxs, MaxChanges

ASSUME RouterAssumption ==
  /\ Kind \in [Adapters -> {"axelar", "layerzero", "wormhole"}]
  /\ Deployer \in Accounts /\ NoAdapter \notin Adapters /\ NoRoute \notin Places
  /\ Destinations # {} /\ Endpoint \notin Oracles
  /\ DefaultOracle \in Oracles /\ DefaultHint \in Hints
  /\ InitialPrice \in Prices /\ MaxUint \in Nat
  /\ Prices \subseteq 0..MaxUint /\ Hints \subseteq 0..MaxUint
  /\ GasQuotes \subseteq 0..MaxUint /\ FallbackFee \in 0..MaxUint
  /\ {NoPrice, Reverts} \cap Nat = {}
  /\ EstimatedSize \in Nat \ {0} /\ PayloadSizes \subseteq Nat
  /\ {MaxRequests, MaxTxs, MaxChanges} \subseteq Nat

\* The buffer is a margin on top of the estimate.
ASSUME BufferAssumption == FeeBufferBps \in Nat /\ FeeBufferBps >= 10000

\* The fallback fee is no astronomic one, and eight fields are not shorter
\* than six of them.
ASSUME FallbackAssumption ==
  /\ FallbackFee < MaxUint \div 2
  /\ \A size \in PayloadSizes : size >= EstimatedSize

VARIABLES
  nextRequestId, destination, bridgeAdapters,   \* RandomRouter
  owner,          \* of the adapters
  routes,         \* of the adapters, per destination
  feeHint,        \* feeHintWei of the adapters
  feeOracle,      \* of the Wormhole adapters
  price,          \* what the endpoint and the oracles answer
  pending,        \* transactions not yet mined
  dispatched,     \* handed to a bridge
  reverted

VARIABLES         \* history
  changes         \* how often configuration or prices have changed

settings == <<destination, bridgeAdapters, owner, routes, feeHint, feeOracle, price,
              changes>>
txs  == <<pending, dispatched, reverted>>
vars == <<nextRequestId, settings, txs>>

Routed == {a \in Adapters : Kind[a] # "axelar"}
Wormholes == {a \in Adapters : Kind[a] = "wormhole"}
Hinted == {a \in Adapters : Kind[a] # "layerzero"}

Sentinel == MaxUint
Saturated(n) == IF n > MaxUint THEN MaxUint ELSE n

Init ==
  /\ nextRequestId = 1
  /\ destination \in Destinations
  /\ bridgeAdapters = [b \in Bridges |-> NoAdapter]
  /\ owner = [a \in Routed |-> Deployer]
  /\ routes = [a \in Routed |-> [d \in Destinations |-> NoRoute]]
  /\ feeHint \in {h \in [Hinted -> Hints] : \A a \in Wormholes : h[a] = DefaultHint}
  /\ feeOracle = [a \in Wormholes |-> DefaultOracle]
  /\ price = [o \in Oracles \cup {Endpoint} |-> InitialPrice]
  /\ pending = {} /\ dispatched = {} /\ reverted = {}
  /\ changes = 0

Change == changes < MaxChanges /\ changes' = changes + 1

-----------------------------------------------------------------------------
(* Owners. *)

RegisterAdapter(b, a) ==
  /\ Change
  /\ bridgeAdapters' = [bridgeAdapters EXCEPT ![b] = a]
  /\ UNCHANGED <<nextRequestId, destination, owner, routes, feeHint, feeOracle,
                 price, txs>>

SetDestination(d) ==
  /\ Change
  /\ destination' = d
  /\ UNCHANGED <<nextRequestId, bridgeAdapters, owner, routes, feeHint, feeOracle,
                 price, txs>>

Mutant_OwnerUnchecked(sender, a, newOwner) ==
  /\ Change
  /\ sender = owner[a]
  /\ \E any \in {newOwner, NoAdapter} : owner' = [owner EXCEPT ![a] = any]
  /\ UNCHANGED <<nextRequestId, destination, bridgeAdapters, routes, feeHint,
                 feeOracle, price, txs>>

\* The zero address, no member of Accounts, is refused.
TransferOwnership(sender, a, newOwner) ==
  /\ Change
  /\ sender = owner[a]
  /\ owner' = [owner EXCEPT ![a] = newOwner]
  /\ UNCHANGED <<nextRequestId, destination, bridgeAdapters, routes, feeHint,
                 feeOracle, price, txs>>

\* A route can be replaced, not removed.
SetRoute(sender, a, d, place) ==
  /\ Change
  /\ sender = owner[a]
  /\ routes' = [routes EXCEPT ![a][d] = place]
  /\ UNCHANGED <<nextRequestId, destination, bridgeAdapters, owner, feeHint,
                 feeOracle, price, txs>>

SetFeeOracle(sender, a, oracle) ==
  /\ Change
  /\ sender = owner[a]
  /\ feeOracle' = [feeOracle EXCEPT ![a] = oracle]
  /\ UNCHANGED <<nextRequestId, destination, bridgeAdapters, owner, routes, feeHint,
                 price, txs>>

\* Axelar's setFeeHint answers only the router, which never calls it.
SetFeeHint(sender, a, hint) ==
  /\ Change
  /\ sender = owner[a]
  /\ feeHint' = [feeHint EXCEPT ![a] = hint]
  /\ UNCHANGED <<nextRequestId, destination, bridgeAdapters, owner, routes,
                 feeOracle, price, txs>>

\* The bridges change their prices; their calls can start to fail.
PriceMoves(o, p) ==
  /\ Change
  /\ price' = [price EXCEPT ![o] = p]
  /\ UNCHANGED <<nextRequestId, destination, bridgeAdapters, owner, routes, feeHint,
                 feeOracle, txs>>

-----------------------------------------------------------------------------
(* Users and relayers. *)

RequestRandomness ==
  /\ nextRequestId <= MaxRequests
  /\ nextRequestId' = nextRequestId + 1
  /\ UNCHANGED <<settings, txs>>

Route(a) == routes[a][destination]

\* _tryQuoteFee: a failing oracle counts as a price of zero.
TryQuoteFee(a) ==
  IF price[feeOracle[a]] = NoPrice THEN 0 ELSE price[feeOracle[a]]

WormholeFee(a) == IF TryQuoteFee(a) > 0 THEN TryQuoteFee(a) ELSE feeHint[a]

\* quote of the endpoint; it can revert.
LayerZeroFee(size) ==
  IF price[Endpoint] = NoPrice THEN Reverts ELSE Saturated(price[Endpoint] * size)

Mutant_EstimateWithoutHint(a, size) ==
  IF Kind[a] = "axelar" THEN feeHint[a]
  ELSE IF Route(a) = NoRoute THEN Sentinel
  ELSE IF Kind[a] = "layerzero" THEN LayerZeroFee(size)
  ELSE TryQuoteFee(a)

EstimateFee(a, size) ==
  IF Kind[a] = "axelar" THEN feeHint[a]
  ELSE IF Route(a) = NoRoute THEN Sentinel
  ELSE IF Kind[a] = "layerzero" THEN LayerZeroFee(size)
  ELSE WormholeFee(a)

EstimateBridgeFee(b, size) ==
  IF bridgeAdapters[b] = NoAdapter THEN Reverts
  ELSE EstimateFee(bridgeAdapters[b], size)

\* What the relayer of bridge b is answered.
Estimates(b) ==
  IF b \in GasServiceBridges THEN GasQuotes \cup {Reverts}
  ELSE {EstimateBridgeFee(b, EstimatedSize)}

\* Half the sentinel is far above any fee, and taken for the sentinel.
TakenForNoRoute(b, estimate) ==
  b \notin GasServiceBridges /\ estimate # Reverts /\ estimate >= Sentinel \div 2

FeeToPay(b, estimate) ==
  IF estimate = Reverts \/ TakenForNoRoute(b, estimate) THEN FallbackFee
  ELSE Saturated(estimate * FeeBufferBps) \div 10000

Submit(tx) ==
  /\ Cardinality(pending \cup dispatched \cup reverted) < MaxTxs
  /\ pending' = pending \cup {tx}
  /\ UNCHANGED <<nextRequestId, settings, dispatched, reverted>>

\* relay_via_router and the Axelar relayer; what happened to the chain in
\* between is in the order of this step and the one that mines the transaction.
RelayViaRouter(r, b, size, estimate, cap) ==
  /\ FeeToPay(b, estimate) <= cap
  /\ Submit([request |-> r, bridge |-> b, complete |-> TRUE, size |-> size,
             estimate |-> estimate, value |-> FeeToPay(b, estimate),
             adapter |-> bridgeAdapters[b], when |-> changes])

\* relayVDFPayload is open to everybody.
RelayDirectly(r, b, complete, size) ==
  Submit([request |-> r, bridge |-> b, complete |-> complete, size |-> size,
          estimate |-> Reverts, value |-> FallbackFee, adapter |-> bridgeAdapters[b],
          when |-> changes])

Mutant_RouteUnchecked(a, size, value) ==
  CASE Kind[a] = "axelar" -> value > 0
    [] Kind[a] = "layerzero" ->
         LayerZeroFee(size) # Reverts /\ value >= LayerZeroFee(size)
    [] Kind[a] = "wormhole" -> value >= WormholeFee(a)

\* The checks of dispatchPayload.
AcceptsFee(a, size, value) ==
  CASE Kind[a] = "axelar" -> value > 0
    [] Kind[a] = "layerzero" ->
         /\ Route(a) # NoRoute /\ LayerZeroFee(size) # Reverts
         /\ value >= LayerZeroFee(size)
    [] Kind[a] = "wormhole" -> Route(a) # NoRoute /\ value >= WormholeFee(a)

\* The checks of relayVDFPayload up to the adapter's.
Passes(tx) ==
  /\ tx.request \in 1..(nextRequestId - 1) /\ tx.complete
  /\ bridgeAdapters[tx.bridge] # NoAdapter
  /\ AcceptsFee(bridgeAdapters[tx.bridge], tx.size, tx.value)

Outcome(tx, refused) == [tx |-> tx, minedAt |-> changes, refused |-> refused]

Dispatch(tx) ==
  /\ tx \in pending /\ Passes(tx)
  /\ pending' = pending \ {tx}
  /\ dispatched' = dispatched \cup {Outcome(tx, FALSE)}
  /\ UNCHANGED <<nextRequestId, settings, reverted>>

\* The router and the adapter check, or the adapter's call of the bridge
\* fails (refused).
Revert(tx, refused) ==
  /\ tx \in pending /\ Passes(tx) = refused
  /\ pending' = pending \ {tx}
  /\ reverted' = reverted \cup {Outcome(tx, refused)}
  /\ UNCHANGED <<nextRequestId, settings, dispatched>>

Owners ==
  \/ \E b \in Bridges, a \in Adapters : RegisterAdapter(b, a)
  \/ \E d \in Destinations : SetDestination(d)
  \/ \E sender \in Accounts, a \in Routed :
       \/ \E newOwner \in Accounts : TransferOwnership(sender, a, newOwner)
       \/ \E d \in Destinations, p \in Places : SetRoute(sender, a, d, p)
  \/ \E sender \in Accounts, a \in Wormholes :
       \/ \E o \in Oracles : SetFeeOracle(sender, a, o)
       \/ \E h \in Hints : SetFeeHint(sender, a, h)

Next ==
  \/ Owners
  \/ \E o \in DOMAIN price, p \in Prices \cup {NoPrice} : PriceMoves(o, p)
  \/ RequestRandomness
  \/ \E b \in Bridges, size \in PayloadSizes :
       \/ \E r \in 1..(nextRequestId - 1), estimate \in Estimates(b), cap \in FeeCaps :
            RelayViaRouter(r, b, size, estimate, cap)
       \/ \E r \in 0..nextRequestId, complete \in BOOLEAN :
            RelayDirectly(r, b, complete, size)
  \/ \E tx \in pending :
       Dispatch(tx) \/ \E refused \in BOOLEAN : Revert(tx, refused)

Spec == Init /\ [][Next]_vars

-----------------------------------------------------------------------------
(* Properties. *)

TypeOK ==
  /\ nextRequestId \in 1..(MaxRequests + 1)
  /\ destination \in Destinations
  /\ bridgeAdapters \in [Bridges -> Adapters \cup {NoAdapter}]
  /\ owner \in [Routed -> Accounts]
  /\ routes \in [Routed -> [Destinations -> Places \cup {NoRoute}]]
  /\ feeHint \in [Hinted -> Hints]
  /\ feeOracle \in [Wormholes -> Oracles]
  /\ price \in [Oracles \cup {Endpoint} -> Prices \cup {NoPrice}]
  /\ changes \in 0..MaxChanges
  /\ \A tx \in pending : tx.value \in 0..MaxUint /\ tx.when \in 0..changes

Axelars == {a \in Adapters : Kind[a] = "axelar"}
LayerZeros == {a \in Adapters : Kind[a] = "layerzero"}

Estimated(tx) == tx.estimate # Reverts /\ ~TakenForNoRoute(tx.bridge, tx.estimate)

(* A relayer that pays what it was quoted, to a bridge that works, is      *)
(* refused only if something changed since the quote, if the buffered fee  *)
(* saturates, if a quote of the gas service is paid to another bridge's    *)
(* adapter, if the fee for Axelar is zero, or if the endpoint charges the  *)
(* eight fields more than the buffer leaves above the six that were quoted *)
(* (bridges.rs:128-155 and 305-341 against the dispatchPayload of each     *)
(* adapter).                                                               *)
RevertExplained ==
  \A out \in reverted :
    LET tx == out.tx
    IN  Estimated(tx) /\ ~out.refused =>
          \/ out.minedAt > tx.when
          \/ tx.estimate * FeeBufferBps > MaxUint
          \/ tx.bridge \in GasServiceBridges /\ tx.adapter \notin Axelars
          \/ tx.adapter \in Axelars /\ tx.value = 0
          \/ /\ tx.adapter \in LayerZeros
             /\ tx.value * EstimatedSize < tx.estimate * tx.size

(* Whatever the relayer takes for "no route", the adapter's maximum or a   *)
(* true price of half of it, the fallback fee it then pays hands nothing   *)
(* to a LayerZero or Wormhole bridge unless something changed in between   *)
(* (bridges.rs:326; LayerZeroAdapter.sol:105-124,                          *)
(* WormholeAdapter.sol:117-130).  Axelar's adapter takes any fee.          *)
SentinelNeverDispatches ==
  \A out \in dispatched :
    TakenForNoRoute(out.tx.bridge, out.tx.estimate) =>
      out.minedAt > out.tx.when \/ out.tx.adapter \in Axelars
=============================================================================
