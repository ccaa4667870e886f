------------------------- MODULE RandomRouterProofs -------------------------
(***************************************************************************)
(* The quotes of the router and its adapters are honest for every set of   *)
(* bridges, routes, prices and fees, and for any number of changes.        *)
(***************************************************************************)
EXTENDS RandomRouter, TLAPS

(* A buffer of at least 10000/10000 never pays less than the estimate,     *)
(* unless the product saturates.                                           *)
LEMMA BufferCovers ==
  ASSUME NEW b, NEW estimate \in Nat, ~TakenForNoRoute(b, estimate),
         estimate * FeeBufferBps <= MaxUint
  PROVE  FeeToPay(b, estimate) \in Nat /\ FeeToPay(b, estimate) >= estimate
<1>1. estimate # Reverts
  BY RouterAssumption
<1>2. FeeBufferBps \in Nat /\ FeeBufferBps - 10000 \in Nat
  BY BufferAssumption
<1>3. estimate * FeeBufferBps = estimate * 10000 + estimate * (FeeBufferBps - 10000)
  BY <1>2, SMT
<1>4. estimate * (FeeBufferBps - 10000) \in Nat
  BY <1>2, SMT
<1> DEFINE extra == estimate * (FeeBufferBps - 10000)
           product == estimate * FeeBufferBps
<1>5. product = estimate * 10000 + extra /\ extra \in Nat /\ product <= MaxUint
  BY <1>3, <1>4
<1> HIDE DEF extra, product
<1>6. product \in Nat /\ product \div 10000 \in Nat /\ product \div 10000 >= estimate
  BY <1>5, SMT
<1>7. Saturated(product) = product
  BY <1>5, <1>6, RouterAssumption DEF Saturated
<1>8. FeeToPay(b, estimate) = product \div 10000
  BY <1>1, <1>7 DEF FeeToPay, product
<1> QED BY <1>6, <1>8

(* What the fee of a LayerZero message is, and that it grows with the size *)
LEMMA EndpointFee ==
  ASSUME NEW size \in Nat, price[Endpoint] \in 0..MaxUint
  PROVE  /\ LayerZeroFee(size) \in 0..MaxUint
         /\ LayerZeroFee(size) <= price[Endpoint] * size
         /\ price[Endpoint] * size \in Nat
         /\ LayerZeroFee(size) < MaxUint => LayerZeroFee(size) = price[Endpoint] * size
<1> DEFINE product == price[Endpoint] * size
<1>1. product \in Nat /\ MaxUint \in Nat /\ price[Endpoint] # NoPrice
  BY RouterAssumption, SMT
<1>2. LayerZeroFee(size) = Saturated(product)
  BY <1>1 DEF LayerZeroFee
<1> HIDE DEF product
<1>3. /\ Saturated(product) \in 0..MaxUint /\ Saturated(product) <= product
      /\ Saturated(product) < MaxUint => Saturated(product) = product
  BY <1>1 DEF Saturated
<1> QED BY <1>1, <1>2, <1>3 DEF product

LEMMA EndpointFeeGrows ==
  ASSUME NEW small \in Nat, NEW large \in Nat, small <= large,
         price[Endpoint] \in 0..MaxUint
  PROVE  LayerZeroFee(small) <= LayerZeroFee(large)
<1> DEFINE p == price[Endpoint]
           less == p * small
           more == p * large
           rest == p * (large - small)
<1>1. less \in Nat /\ more \in Nat /\ rest \in Nat /\ more = less + rest
  <2>1. p \in Nat /\ large - small \in Nat
    BY RouterAssumption
  <2> HIDE DEF p
  <2> QED BY <2>1, SMT
<1>2. LayerZeroFee(small) = Saturated(less) /\ LayerZeroFee(large) = Saturated(more)
  BY RouterAssumption DEF LayerZeroFee
<1> HIDE DEF less, more, rest
<1> QED BY <1>1, <1>2, RouterAssumption DEF Saturated

-----------------------------------------------------------------------------
(* A transaction whose quote is not older than the last change still has   *)
(* the quote the router would give, and has paid what follows from it.     *)
Fresh(tx) ==
  tx.estimate # Reverts /\ tx.when = changes =>
    /\ tx.bridge \in Bridges /\ bridgeAdapters[tx.bridge] = tx.adapter
    /\ tx.bridge \in GasServiceBridges => tx.estimate \in 0..MaxUint
    /\ tx.bridge \notin GasServiceBridges =>
         /\ tx.adapter \in Adapters
         /\ tx.estimate = EstimateFee(tx.adapter, EstimatedSize)
    /\ tx.value = FeeToPay(tx.bridge, tx.estimate)
    /\ tx.request \in 1..(nextRequestId - 1) /\ tx.complete
    /\ tx.size \in PayloadSizes

Configured ==
  /\ nextRequestId \in Nat /\ changes \in Nat
  /\ bridgeAdapters \in [Bridges -> Adapters \cup {NoAdapter}]
  /\ feeHint \in [Hinted -> Hints]
  /\ feeOracle \in [Wormholes -> Oracles]
  /\ price \in [Oracles \cup {Endpoint} -> Prices \cup {NoPrice}]

RouterInv ==
  /\ Configured
  /\ \A tx \in pending : tx.when \in Nat /\ tx.when <= changes /\ Fresh(tx)
  /\ RevertExplained
  /\ SentinelNeverDispatches

LEMMA RouterInitInv == Init => RouterInv
  BY RouterAssumption
     DEF Init, RouterInv, Configured, RevertExplained, SentinelNeverDispatches,
         Hinted, Wormholes

(* Every change of the settings is counted.                                *)
LEMMA SettingsStep ==
  ASSUME RouterInv, Configured', UNCHANGED <<nextRequestId, txs>>,
         changes' = changes + 1
  PROVE  RouterInv'
<1>1. changes \in Nat
  BY DEF RouterInv, Configured
<1>2. \A tx \in pending' : tx.when \in Nat /\ tx.when <= changes' /\ Fresh(tx)'
  <2> SUFFICES ASSUME NEW tx \in pending'
               PROVE  tx.when \in Nat /\ tx.when <= changes' /\ Fresh(tx)'
    OBVIOUS
  <2>1. tx.when \in Nat /\ tx.when <= changes
    BY DEF RouterInv, txs
  <2>2. tx.when # changes'
    BY <1>1, <2>1
  <2> QED BY <1>1, <2>1, <2>2 DEF Fresh
<1>3. RevertExplained'
  BY DEF RouterInv, RevertExplained, Estimated, txs
<1>4. SentinelNeverDispatches'
  BY DEF RouterInv, SentinelNeverDispatches, txs
<1> QED BY <1>2, <1>3, <1>4 DEF RouterInv

(* The fees of a configured adapter are numbers.                           *)
LEMMA AdapterFees ==
  ASSUME Configured, NEW a \in Adapters
  PROVE  /\ a \in Hinted => feeHint[a] \in 0..MaxUint
         /\ a \in Wormholes => WormholeFee(a) \in 0..MaxUint
         /\ price[Endpoint] # NoPrice => price[Endpoint] \in 0..MaxUint
<1>1. a \in Hinted => feeHint[a] \in 0..MaxUint
  BY RouterAssumption DEF Configured
<1>2. a \in Wormholes => a \in Hinted
  BY RouterAssumption DEF Wormholes, Hinted
<1>3. ASSUME a \in Wormholes PROVE TryQuoteFee(a) \in 0..MaxUint
  <2>1. price[feeOracle[a]] \in Prices \cup {NoPrice}
    <3>1. feeOracle[a] \in Oracles
      BY <1>3 DEF Configured
    <3> QED BY <3>1 DEF Configured
  <2>2. 0 \in 0..MaxUint /\ Prices \subseteq 0..MaxUint
    BY RouterAssumption
  <2> QED BY <2>1, <2>2 DEF TryQuoteFee
<1>4. price[Endpoint] # NoPrice => price[Endpoint] \in 0..MaxUint
  BY RouterAssumption DEF Configured
<1> QED BY <1>1, <1>2, <1>3, <1>4 DEF WormholeFee

LEMMA EstimateType ==
  ASSUME Configured, NEW a \in Adapters
  PROVE  EstimateFee(a, EstimatedSize) \in (0..MaxUint) \cup {Reverts}
<1>1. CASE Kind[a] = "axelar"
  BY <1>1, AdapterFees, RouterAssumption DEF EstimateFee, Hinted
<1>2. CASE Kind[a] = "layerzero"
  <2>1. LayerZeroFee(EstimatedSize) \in (0..MaxUint) \cup {Reverts}
    <3>1. CASE price[Endpoint] = NoPrice
      BY <3>1 DEF LayerZeroFee
    <3>2. CASE price[Endpoint] # NoPrice
      BY <3>2, AdapterFees, EndpointFee, RouterAssumption
    <3> QED BY <3>1, <3>2
  <2> QED BY <1>2, <2>1, RouterAssumption DEF EstimateFee, Sentinel
<1>3. CASE Kind[a] = "wormhole"
  <2>1. WormholeFee(a) \in 0..MaxUint
    BY <1>3, AdapterFees DEF Wormholes
  <2> QED BY <1>3, <2>1, RouterAssumption DEF EstimateFee, Sentinel
<1> QED BY <1>1, <1>2, <1>3, RouterAssumption

(* An estimate that is not taken for "no route" is not the sentinel.       *)
LEMMA EstimateHasRoute ==
  ASSUME NEW b, b \notin GasServiceBridges, NEW a \in Adapters, Kind[a] # "axelar",
         EstimateFee(a, EstimatedSize) # Reverts,
         ~TakenForNoRoute(b, EstimateFee(a, EstimatedSize))
  PROVE  Route(a) # NoRoute
<1> SUFFICES ASSUME Route(a) = NoRoute PROVE FALSE
  OBVIOUS
<1>1. EstimateFee(a, EstimatedSize) = MaxUint
  BY DEF EstimateFee, Sentinel
<1>2. MaxUint \in Nat /\ MaxUint >= MaxUint \div 2 /\ MaxUint # Reverts
  BY RouterAssumption
<1> QED BY <1>1, <1>2 DEF TakenForNoRoute, Sentinel

(* A quote the adapter can give is covered by what it then requires, but   *)
(* for saturation, for a zero hint and for the size of the payload.        *)
LEMMA QuoteAccepted ==
  ASSUME Configured, NEW b, b \notin GasServiceBridges,
         NEW a \in Adapters, NEW size \in PayloadSizes,
         NEW estimate, estimate = EstimateFee(a, EstimatedSize), estimate # Reverts,
         ~TakenForNoRoute(b, estimate), estimate * FeeBufferBps <= MaxUint,
         ~AcceptsFee(a, size, FeeToPay(b, estimate))
  PROVE  LET value == FeeToPay(b, estimate)
         IN  \/ Kind[a] = "axelar" /\ value = 0
             \/ Kind[a] = "layerzero" /\ value * EstimatedSize < estimate * size
<1> DEFINE value == FeeToPay(b, estimate)
<1>1. estimate \in Nat
  BY EstimateType
<1>2. value \in Nat /\ value >= estimate
  BY <1>1, BufferCovers
<1> HIDE DEF value
<1>3. ~AcceptsFee(a, size, value)
  BY DEF value
<1>4. CASE Kind[a] = "axelar"
  <2>1. ~(value > 0)
    BY <1>3, <1>4 DEF AcceptsFee
  <2> QED BY <1>2, <1>4, <2>1 DEF value
<1>5. CASE Kind[a] = "wormhole"
  <2>1. Route(a) # NoRoute
    BY <1>5, EstimateHasRoute
  <2>2. estimate = WormholeFee(a)
    BY <1>5, <2>1 DEF EstimateFee
  <2> QED BY <1>2, <1>3, <1>5, <2>1, <2>2 DEF AcceptsFee
<1>6. CASE Kind[a] = "layerzero"
  <2>1. Route(a) # NoRoute
    BY <1>6, EstimateHasRoute
  <2>2. estimate = LayerZeroFee(EstimatedSize)
    BY <1>6, <2>1 DEF EstimateFee
  <2>3. price[Endpoint] # NoPrice
    BY <2>2 DEF LayerZeroFee
  <2> DEFINE p == price[Endpoint]
             need == p * size
  <2>4. p \in 0..MaxUint /\ size \in Nat /\ EstimatedSize \in Nat \ {0} /\ p \in Nat
    BY <2>3, AdapterFees, RouterAssumption
  <2>5. need \in Nat /\ LayerZeroFee(size) <= need /\ LayerZeroFee(size) \in 0..MaxUint
    BY <2>4, EndpointFee
  <2>6. estimate < MaxUint
    <3>1. MaxUint \in Nat /\ MaxUint \div 2 <= MaxUint
      BY RouterAssumption
    <3>2. estimate < MaxUint \div 2
      BY <1>1, <3>1 DEF TakenForNoRoute, Sentinel
    <3> QED BY <1>1, <3>1, <3>2
  <2>7. estimate = p * EstimatedSize
    BY <2>2, <2>4, <2>6, EndpointFee
  <2>8. ~(value >= LayerZeroFee(size))
    BY <1>3, <1>6, <2>1, <2>5, RouterAssumption DEF AcceptsFee
  <2>9. estimate * size = need * EstimatedSize
    <3> HIDE DEF p
    <3> QED BY <2>4, <2>7, SMT
  <2> HIDE DEF need, p
  <2>10. value < need
    BY <1>2, <2>5, <2>8
  <2>11. value * EstimatedSize < need * EstimatedSize
    <3> DEFINE rest == need - value
    <3>1. rest \in Nat \ {0} /\ need = value + rest
      BY <1>2, <2>5, <2>10
    <3> HIDE DEF rest
    <3>2. need * EstimatedSize = value * EstimatedSize + rest * EstimatedSize
      BY <1>2, <2>4, <3>1, SMT
    <3>3. rest * EstimatedSize \in Nat /\ rest * EstimatedSize > 0
      BY <2>4, <3>1, SMT
    <3>4. value * EstimatedSize \in Nat
      BY <1>2, <2>4, SMT
    <3> QED BY <3>2, <3>3, <3>4
  <2> QED BY <1>6, <2>9, <2>11 DEF value
<1> QED BY <1>4, <1>5, <1>6, RouterAssumption

(* After the "no route" answer, or a price of half of it, the fallback fee *)
(* is less than what LayerZero's and Wormhole's adapters require.          *)
LEMMA FallbackRefused ==
  ASSUME Configured, NEW b, b \notin GasServiceBridges,
         NEW a \in Adapters, a \notin Axelars, NEW size \in PayloadSizes,
         TakenForNoRoute(b, EstimateFee(a, EstimatedSize))
  PROVE  ~AcceptsFee(a, size, FallbackFee)
<1> DEFINE estimate == EstimateFee(a, EstimatedSize)
<1>1. Kind[a] \in {"layerzero", "wormhole"}
  BY RouterAssumption DEF Axelars
<1>2. estimate \in 0..MaxUint /\ estimate >= MaxUint \div 2 /\ estimate # Reverts
  BY EstimateType DEF TakenForNoRoute, Sentinel
<1>3. FallbackFee < estimate
  <2> HIDE DEF estimate
  <2> QED BY <1>2, FallbackAssumption, RouterAssumption
<1>4. CASE Route(a) = NoRoute
  BY <1>1, <1>4 DEF AcceptsFee
<1>5. CASE Route(a) # NoRoute /\ Kind[a] = "wormhole"
  <2>1. estimate = WormholeFee(a)
    BY <1>5 DEF EstimateFee
  <2> HIDE DEF estimate
  <2> QED BY <1>2, <1>3, <1>5, <2>1, RouterAssumption DEF AcceptsFee
<1>6. CASE Route(a) # NoRoute /\ Kind[a] = "layerzero"
  <2>1. estimate = LayerZeroFee(EstimatedSize)
    BY <1>6 DEF EstimateFee
  <2> HIDE DEF estimate
  <2>2. price[Endpoint] # NoPrice
    BY <1>2, <2>1 DEF LayerZeroFee
  <2>3. price[Endpoint] \in 0..MaxUint /\ size \in Nat /\ EstimatedSize \in Nat
    BY <2>2, AdapterFees, RouterAssumption
  <2>4. EstimatedSize <= size
    BY FallbackAssumption
  <2>5. estimate <= LayerZeroFee(size)
    BY <2>1, <2>3, <2>4, EndpointFeeGrows
  <2>6. LayerZeroFee(size) \in 0..MaxUint
    BY <2>3, EndpointFee
  <2>7. ~(FallbackFee >= LayerZeroFee(size))
    BY <1>2, <1>3, <2>5, <2>6, RouterAssumption
  <2> QED BY <1>6, <2>7 DEF AcceptsFee
<1> QED BY <1>1, <1>4, <1>5, <1>6

-----------------------------------------------------------------------------
LEMMA SubmitInv ==
  ASSUME RouterInv, NEW tx, Submit(tx), tx.when = changes, Fresh(tx)
  PROVE  RouterInv'
<1>1. \A u \in pending' : u.when \in Nat /\ u.when <= changes' /\ Fresh(u)'
  BY DEF Submit, settings, RouterInv, Configured, Fresh, EstimateFee, Route,
         LayerZeroFee, WormholeFee, TryQuoteFee
<1> QED BY <1>1 DEF Submit, settings, RouterInv, Configured, RevertExplained,
                    SentinelNeverDispatches, Estimated

(* Mining a transaction leaves the settings alone.                         *)
LEMMA PendingShrinks ==
  ASSUME RouterInv, pending' \subseteq pending, UNCHANGED <<nextRequestId, settings>>
  PROVE  /\ Configured'
         /\ \A u \in pending' : u.when \in Nat /\ u.when <= changes' /\ Fresh(u)'
  BY DEF settings, RouterInv, Configured, Fresh, EstimateFee, Route,
         LayerZeroFee, WormholeFee, TryQuoteFee

LEMMA RouterStepInv == RouterInv /\ [Next]_vars => RouterInv'
<1> SUFFICES ASSUME RouterInv, [Next]_vars PROVE RouterInv'
  OBVIOUS
<1>0. Configured
  BY DEF RouterInv
<1>1. ASSUME NEW b \in Bridges, NEW a \in Adapters, RegisterAdapter(b, a)
      PROVE  RouterInv'
  <2>1. Configured'
    BY <1>0, <1>1 DEF RegisterAdapter, Change, Configured
  <2> QED BY <1>1, <2>1, SettingsStep DEF RegisterAdapter, Change
<1>2. ASSUME NEW d \in Destinations, SetDestination(d)
      PROVE  RouterInv'
  <2>1. Configured'
    BY <1>0, <1>2 DEF SetDestination, Change, Configured
  <2> QED BY <1>2, <2>1, SettingsStep DEF SetDestination, Change
<1>3. ASSUME NEW sender \in Accounts, NEW a \in Routed, NEW newOwner \in Accounts,
             TransferOwnership(sender, a, newOwner)
      PROVE  RouterInv'
  <2>1. Configured'
    BY <1>0, <1>3 DEF TransferOwnership, Change, Configured
  <2> QED BY <1>3, <2>1, SettingsStep DEF TransferOwnership, Change
<1>4. ASSUME NEW sender \in Accounts, NEW a \in Routed, NEW d \in Destinations,
             NEW p \in Places, SetRoute(sender, a, d, p)
      PROVE  RouterInv'
  <2>1. Configured'
    BY <1>0, <1>4 DEF SetRoute, Change, Configured
  <2> QED BY <1>4, <2>1, SettingsStep DEF SetRoute, Change
<1>5. ASSUME NEW sender \in Accounts, NEW a \in Wormholes, NEW o \in Oracles,
             SetFeeOracle(sender, a, o)
      PROVE  RouterInv'
  <2>1. Configured'
    BY <1>0, <1>5 DEF SetFeeOracle, Change, Configured
  <2> QED BY <1>5, <2>1, SettingsStep DEF SetFeeOracle, Change
<1>6. ASSUME NEW sender \in Accounts, NEW a \in Wormholes, NEW h \in Hints,
             SetFeeHint(sender, a, h)
      PROVE  RouterInv'
  <2>0. feeHint' \in [Hinted -> Hints]
    BY <1>0, <1>6 DEF SetFeeHint, Configured
  <2>1. Configured'
    BY <1>0, <1>6, <2>0 DEF SetFeeHint, Change, Configured
  <2> QED BY <1>6, <2>1, SettingsStep DEF SetFeeHint, Change
<1>7. ASSUME NEW o \in DOMAIN price, NEW p \in Prices \cup {NoPrice}, PriceMoves(o, p)
      PROVE  RouterInv'
  <2>1. Configured'
    BY <1>0, <1>7 DEF PriceMoves, Change, Configured
  <2> QED BY <1>7, <2>1, SettingsStep DEF PriceMoves, Change
<1>8. CASE RequestRandomness
  <2>1. Configured'
    BY <1>0, <1>8 DEF RequestRandomness, Configured, settings
  <2>2. \A u \in pending' : u.when \in Nat /\ u.when <= changes' /\ Fresh(u)'
    BY <1>0, <1>8
       DEF RequestRandomness, RouterInv, settings, txs, Fresh, Configured,
           EstimateFee, Route, LayerZeroFee, WormholeFee, TryQuoteFee
  <2> QED BY <1>8, <2>1, <2>2
          DEF RequestRandomness, settings, txs, RouterInv, RevertExplained,
              SentinelNeverDispatches, Estimated
<1>9. ASSUME NEW b \in Bridges, NEW size \in PayloadSizes,
             NEW r \in 1..(nextRequestId - 1), NEW estimate \in Estimates(b),
             NEW cap \in FeeCaps, RelayViaRouter(r, b, size, estimate, cap)
      PROVE  RouterInv'
  <2> DEFINE tx == [request |-> r, bridge |-> b, complete |-> TRUE, size |-> size,
                    estimate |-> estimate, value |-> FeeToPay(b, estimate),
                    adapter |-> bridgeAdapters[b], when |-> changes]
  <2>1. Submit(tx) /\ tx.when = changes
    BY <1>9 DEF RelayViaRouter
  <2>2. Fresh(tx)
    <3>1. b \in GasServiceBridges => estimate \in (0..MaxUint) \cup {Reverts}
      BY RouterAssumption DEF Estimates
    <3>2. b \notin GasServiceBridges /\ estimate # Reverts =>
            /\ bridgeAdapters[b] \in Adapters
            /\ estimate = EstimateFee(bridgeAdapters[b], EstimatedSize)
      BY <1>0 DEF Estimates, EstimateBridgeFee, Configured
    <3> QED BY <3>1, <3>2 DEF Fresh
  <2> QED BY <2>1, <2>2, SubmitInv
<1>10. ASSUME NEW b \in Bridges, NEW size \in PayloadSizes,
              NEW r \in 0..nextRequestId, NEW complete \in BOOLEAN,
              RelayDirectly(r, b, complete, size)
       PROVE  RouterInv'
  <2> DEFINE tx == [request |-> r, bridge |-> b, complete |-> complete,
                    size |-> size, estimate |-> Reverts, value |-> FallbackFee,
                    adapter |-> bridgeAdapters[b], when |-> changes]
  <2>1. Submit(tx) /\ tx.when = changes /\ tx.estimate = Reverts
    BY <1>10 DEF RelayDirectly
  <2>2. Fresh(tx)
    BY <2>1 DEF Fresh
  <2> QED BY <2>1, <2>2, SubmitInv
<1>11. ASSUME NEW tx \in pending, Dispatch(tx)
       PROVE  RouterInv'
  <2>1. Configured' /\ \A u \in pending' : u.when \in Nat /\ u.when <= changes' /\ Fresh(u)'
    BY <1>11, PendingShrinks DEF Dispatch
  <2>2. RevertExplained'
    BY <1>11 DEF Dispatch, RouterInv, RevertExplained, Estimated
  <2>3. TakenForNoRoute(tx.bridge, tx.estimate) => changes > tx.when \/ tx.adapter \in Axelars
    <3> SUFFICES ASSUME TakenForNoRoute(tx.bridge, tx.estimate), tx.when = changes,
                        tx.adapter \notin Axelars
                 PROVE  FALSE
      BY <1>0 DEF RouterInv, Configured
    <3>1. tx.estimate # Reverts /\ tx.bridge \notin GasServiceBridges
      BY DEF TakenForNoRoute
    <3>2. /\ bridgeAdapters[tx.bridge] = tx.adapter /\ tx.adapter \in Adapters
          /\ tx.estimate = EstimateFee(tx.adapter, EstimatedSize)
          /\ tx.value = FeeToPay(tx.bridge, tx.estimate) /\ tx.size \in PayloadSizes
      BY <3>1 DEF RouterInv, Fresh
    <3>3. tx.value = FallbackFee
      BY <3>2 DEF FeeToPay
    <3>4. AcceptsFee(tx.adapter, tx.size, FallbackFee)
      BY <1>11, <3>2, <3>3 DEF Dispatch, Passes
    <3> QED BY <1>0, <3>1, <3>2, <3>4, FallbackRefused
  <2>4. SentinelNeverDispatches'
    BY <1>11, <2>3
       DEF Dispatch, Outcome, settings, RouterInv, SentinelNeverDispatches
  <2> QED BY <2>1, <2>2, <2>4 DEF RouterInv
<1>12. ASSUME NEW tx \in pending, NEW refused \in BOOLEAN, Revert(tx, refused)
       PROVE  RouterInv'
  <2>1. Configured' /\ \A u \in pending' : u.when \in Nat /\ u.when <= changes' /\ Fresh(u)'
    BY <1>12, PendingShrinks DEF Revert
  <2>2. SentinelNeverDispatches'
    BY <1>12 DEF Revert, RouterInv, SentinelNeverDispatches
  <2>3. Estimated(tx) /\ ~refused =>
          \/ changes > tx.when
          \/ tx.estimate * FeeBufferBps > MaxUint
          \/ tx.bridge \in GasServiceBridges /\ tx.adapter \notin Axelars
          \/ tx.adapter \in Axelars /\ tx.value = 0
          \/ /\ tx.adapter \in LayerZeros
             /\ tx.value * EstimatedSize < tx.estimate * tx.size
    <3> SUFFICES ASSUME Estimated(tx), ~refused, tx.when = changes,
                        ~(tx.estimate * FeeBufferBps > MaxUint),
                        ~(tx.bridge \in GasServiceBridges /\ tx.adapter \notin Axelars)
                 PROVE  \/ tx.adapter \in Axelars /\ tx.value = 0
                        \/ /\ tx.adapter \in LayerZeros
                           /\ tx.value * EstimatedSize < tx.estimate * tx.size
      BY <1>0 DEF RouterInv, Configured
    <3>1. /\ tx.estimate # Reverts /\ ~TakenForNoRoute(tx.bridge, tx.estimate)
          /\ bridgeAdapters[tx.bridge] = tx.adapter /\ tx.adapter \in Adapters
          /\ tx.value = FeeToPay(tx.bridge, tx.estimate) /\ tx.size \in PayloadSizes
          /\ tx.request \in 1..(nextRequestId - 1) /\ tx.complete
      BY DEF RouterInv, Fresh, Estimated, Axelars
    <3>2. ~AcceptsFee(tx.adapter, tx.size, tx.value)
      BY <1>12, <3>1, RouterAssumption DEF Revert, Passes
    <3>3. CASE tx.bridge \in GasServiceBridges
      <4>1. Kind[tx.adapter] = "axelar" /\ ~(tx.value > 0)
        BY <3>2, <3>3 DEF Axelars, AcceptsFee
      <4>2. tx.estimate \in Nat
        BY <3>1, <3>3 DEF RouterInv, Fresh
      <4>3. tx.value \in Nat
        <5>1. tx.estimate * FeeBufferBps \in Nat
          BY <4>2, BufferAssumption, SMT
        <5>2. MaxUint \in Nat
          BY RouterAssumption
        <5>3. tx.estimate * FeeBufferBps <= MaxUint
          BY <5>1, <5>2
        <5> QED BY <3>1, <4>2, <5>3, BufferCovers
      <4> QED BY <3>3, <4>1, <4>3
    <3>4. CASE tx.bridge \notin GasServiceBridges
      <4>1. tx.estimate = EstimateFee(tx.adapter, EstimatedSize)
        BY <3>1, <3>4 DEF RouterInv, Fresh
      <4>2. tx.estimate \in Nat
        BY <1>0, <3>1, <4>1, EstimateType
      <4>3. tx.estimate * FeeBufferBps \in Nat /\ MaxUint \in Nat
        BY <4>2, BufferAssumption, RouterAssumption, SMT
      <4>4. tx.estimate * FeeBufferBps <= MaxUint
        BY <4>3
      <4>5. \/ Kind[tx.adapter] = "axelar" /\ tx.value = 0
            \/ /\ Kind[tx.adapter] = "layerzero"
               /\ tx.value * EstimatedSize < tx.estimate * tx.size
        BY <1>0, <3>1, <3>2, <3>4, <4>1, <4>4, QuoteAccepted
      <4> QED BY <3>1, <4>5 DEF Axelars, LayerZeros
    <3> QED BY <3>3, <3>4
  <2>4. RevertExplained'
    BY <1>12, <2>3
       DEF Revert, Outcome, settings, RouterInv, RevertExplained, Estimated
  <2> QED BY <2>1, <2>2, <2>4 DEF RouterInv
<1>13. CASE UNCHANGED vars
  BY <1>13, PendingShrinks
     DEF vars, settings, txs, RouterInv, RevertExplained, SentinelNeverDispatches,
         Estimated
<1> QED BY <1>1, <1>2, <1>3, <1>4, <1>5, <1>6, <1>7, <1>8, <1>9, <1>10, <1>11,
           <1>12, <1>13 DEF Next, Owners

LEMMA RouterInvariant == Spec => []RouterInv
  BY RouterInitInv, RouterStepInv, PTL DEF Spec

(* For every bridge, price, fee and size: a relayer that pays its quote is *)
(* refused only for the listed reasons.                                    *)
THEOREM QuotedRelayRefusedForCause == Spec => []RevertExplained
<1>1. RouterInv => RevertExplained
  BY DEF RouterInv
<1> QED BY <1>1, RouterInvariant, PTL

(* For every fallback fee below half the sentinel: after an estimate taken *)
(* for "no route" nothing is handed to LayerZero or Wormhole unless        *)
(* something changed.                                                      *)
THEOREM NoRouteNoDispatch == Spec => []SentinelNeverDispatches
<1>1. RouterInv => SentinelNeverDispatches
  BY DEF RouterInv
<1> QED BY <1>1, RouterInvariant, PTL
-----------------------------------------------------------------------------
(* The types. *)

(* What a relayer pays fits a word whatever the estimate says.             *)
LEMMA FeeType ==
  ASSUME TypeOK, NEW b \in Bridges, NEW estimate \in Estimates(b)
  PROVE  FeeToPay(b, estimate) \in 0..MaxUint
<1>1. estimate \in (0..MaxUint) \cup {Reverts}
  <2>1. Configured
    BY RouterAssumption DEF TypeOK, Configured
  <2> QED BY <2>1, EstimateType, RouterAssumption DEF Estimates, EstimateBridgeFee, Configured
<1>2. CASE estimate = Reverts \/ TakenForNoRoute(b, estimate)
  BY <1>2, RouterAssumption DEF FeeToPay
<1>3. CASE ~(estimate = Reverts \/ TakenForNoRoute(b, estimate))
  <2> DEFINE product == estimate * FeeBufferBps
  <2>1. product \in Nat
    BY <1>1, <1>3, BufferAssumption, RouterAssumption, SMT
  <2>2. FeeToPay(b, estimate) = Saturated(product) \div 10000
    BY <1>3 DEF FeeToPay
  <2> HIDE DEF product
  <2>3. Saturated(product) \in 0..MaxUint /\ MaxUint \in Nat
    BY <2>1, RouterAssumption DEF Saturated
  <2> QED BY <2>2, <2>3
<1> QED BY <1>2, <1>3

LEMMA SubmitType ==
  ASSUME TypeOK, NEW tx, Submit(tx), tx.when = changes, tx.value \in 0..MaxUint
  PROVE  TypeOK'
BY DEF TypeOK, Submit, settings

LEMMA OwnerType == TypeOK /\ Owners => TypeOK'
<1> SUFFICES ASSUME TypeOK, Owners PROVE TypeOK'
  OBVIOUS
<1>1. changes' \in 0..MaxChanges /\ changes' = changes + 1
  BY RouterAssumption
     DEF Owners, RegisterAdapter, SetDestination, TransferOwnership, SetRoute,
         SetFeeOracle, SetFeeHint, Change, TypeOK
<1>2. pending' = pending /\ nextRequestId' = nextRequestId /\ price' = price
  BY DEF Owners, RegisterAdapter, SetDestination, TransferOwnership, SetRoute,
         SetFeeOracle, SetFeeHint, txs
<1>3. \A tx \in pending' : tx.value \in 0..MaxUint /\ tx.when \in 0..changes'
  BY <1>1, <1>2 DEF TypeOK
<1> DEFINE Settings(d, b, o, r, h, f) ==
             /\ d \in Destinations
             /\ b \in [Bridges -> Adapters \cup {NoAdapter}]
             /\ o \in [Routed -> Accounts]
             /\ r \in [Routed -> [Destinations -> Places \cup {NoRoute}]]
             /\ h \in [Hinted -> Hints]
             /\ f \in [Wormholes -> Oracles]
<1>4. ASSUME NEW b \in Bridges, NEW a \in Adapters, RegisterAdapter(b, a)
      PROVE  Settings(destination', bridgeAdapters', owner', routes', feeHint', feeOracle')
  BY <1>4 DEF RegisterAdapter, TypeOK
<1>5. ASSUME NEW d \in Destinations, SetDestination(d)
      PROVE  Settings(destination', bridgeAdapters', owner', routes', feeHint', feeOracle')
  BY <1>5 DEF SetDestination, TypeOK
<1>6. ASSUME NEW sender \in Accounts, NEW a \in Routed, NEW newOwner \in Accounts,
             TransferOwnership(sender, a, newOwner)
      PROVE  Settings(destination', bridgeAdapters', owner', routes', feeHint', feeOracle')
  BY <1>6 DEF TransferOwnership, TypeOK
<1>7. ASSUME NEW sender \in Accounts, NEW a \in Routed, NEW d \in Destinations,
             NEW p \in Places, SetRoute(sender, a, d, p)
      PROVE  Settings(destination', bridgeAdapters', owner', routes', feeHint', feeOracle')
  BY <1>7 DEF SetRoute, TypeOK
<1>8. ASSUME NEW sender \in Accounts, NEW a \in Wormholes, NEW o \in Oracles,
             SetFeeOracle(sender, a, o)
      PROVE  Settings(destination', bridgeAdapters', owner', routes', feeHint', feeOracle')
  BY <1>8 DEF SetFeeOracle, TypeOK
<1>9. ASSUME NEW sender \in Accounts, NEW a \in Wormholes, NEW h \in Hints,
             SetFeeHint(sender, a, h)
      PROVE  Settings(destination', bridgeAdapters', owner', routes', feeHint', feeOracle')
  <2>1. feeHint' \in [Hinted -> Hints]
    BY <1>9 DEF SetFeeHint, TypeOK
  <2> QED BY <1>9, <2>1 DEF SetFeeHint, TypeOK
<1>10. Settings(destination', bridgeAdapters', owner', routes', feeHint', feeOracle')
  BY <1>4, <1>5, <1>6, <1>7, <1>8, <1>9 DEF Owners
<1> QED BY <1>1, <1>2, <1>3, <1>10 DEF TypeOK

LEMMA TypeStep == TypeOK /\ [Next]_vars => TypeOK'
<1> SUFFICES ASSUME TypeOK, [Next]_vars PROVE TypeOK'
  OBVIOUS
<1>1. CASE Owners
  BY <1>1, OwnerType
<1>2. ASSUME NEW o \in DOMAIN price, NEW p \in Prices \cup {NoPrice}, PriceMoves(o, p)
      PROVE  TypeOK'
  BY <1>2, RouterAssumption DEF PriceMoves, Change, TypeOK, txs
<1>3. CASE RequestRandomness
  BY <1>3, RouterAssumption DEF RequestRandomness, TypeOK, settings, txs
<1>4. ASSUME NEW b \in Bridges, NEW size \in PayloadSizes, NEW r,
             NEW estimate \in Estimates(b), NEW cap, RelayViaRouter(r, b, size, estimate, cap)
      PROVE  TypeOK'
  BY <1>4, SubmitType, FeeType DEF RelayViaRouter
<1>5. ASSUME NEW b \in Bridges, NEW size \in PayloadSizes, NEW r, NEW complete,
             RelayDirectly(r, b, complete, size)
      PROVE  TypeOK'
  BY <1>5, SubmitType, RouterAssumption DEF RelayDirectly
<1>6. ASSUME NEW tx \in pending,
             Dispatch(tx) \/ \E refused \in BOOLEAN : Revert(tx, refused)
      PROVE  TypeOK'
  BY <1>6 DEF Dispatch, Revert, TypeOK, settings
<1>7. CASE UNCHANGED vars
  BY <1>7 DEF vars, TypeOK, settings, txs
<1> QED BY <1>1, <1>2, <1>3, <1>4, <1>5, <1>6, <1>7 DEF Next

(* For every set of bridges, adapters and prices: the settings keep their  *)
(* kinds and what a relayer pays fits a word.                              *)
THEOREM RouterTypeCorrect == Spec => []TypeOK
<1>1. Init => TypeOK
  BY RouterAssumption DEF Init, TypeOK, Routed, Hinted, Wormholes
<1> QED BY <1>1, TypeStep, PTL DEF Spec
=============================================================================
