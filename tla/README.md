# CrossRand in TLA+

CrossRand produces a random value for a request on a source chain and makes it
final on a destination chain. A relayer process watches the source contract,
computes the value (threshold signature, delay function, Halo2 proof) and sends
it through one of several bridges; the destination contract queues it
optimistically, lets anybody challenge it for a window of blocks, and then lets
anybody finalize it. This directory models both contracts and the adapters
between them, the relayer with its log scan and its failover, the computation it
runs, and the way of a request through all of them.

Source paths below are relative to the repository root.

## 1. The system

| Component | Code | State it keeps | Operations | Module |
|---|---|---|---|---|
| Destination contract | `contracts/src/RandomReceiver.sol` | the queue of results, final values, owner settings, watcher rewards, balance | submit, challenge, finalize, eight owner setters, register, audit, claim, receive | `RandomReceiver` |
| Source contract | `contracts/src/RandomRouter.sol` | `nextRequestId`, adapters, destination | request, estimate, relay, register adapter, set destination | `RandomRouter` |
| Bridge adapters | `contracts/src/adapters/*.sol` | owner, routes, fee hint, fee oracle | quote, dispatch, setters | `RandomRouter` |
| Relayer loop | `off-chain/network_module/src/main.rs` | `from_block`, `processed_requests`, all in memory | poll, fetch, dispatch, record, advance, exit | `RelayerDaemon` |
| Bridge failover | `off-chain/network_module/src/bridges.rs` | the running attempt, the day's budget | quote, reserve, send, receipt, timeout, next bridge | `BridgeFailover` |
| Bridge registry and factory | `bridge_registry.rs`, `relayer_factory.rs`, start of `main.rs` | none | resolve the priority, build and select the relayers | `BridgePriority` |
| Log scanner | `off-chain/network_module/src/rpc/mod.rs` | the chunk and the retry count | query, retry, next chunk | `LogScanner` |
| Pipeline, MPC and DKG | `off-chain/crypto_engine/src/lib.rs`, `mpc`, `dkg` | none between runs | committee, session seed, delay, proof | `RandomnessPipeline` |
| Delay function | `off-chain/crypto_engine/src/vdf/mod.rs` | none | squarings, search for the challenge, proof | `WesolowskiVdf` |
| Halo2 prover | `off-chain/halo2_prover` | proving keys, made once | inputs, table, proof | `Halo2Circuit` |
| Adaptive delay | `off-chain/crypto_engine/src/vdf/adaptive.rs` | `current_t`, the healthy streak | update | `AdaptiveVdf` |
| Verifiers | `Halo2Verifier.sol`, `VDFVerifier.sol` | none | pure checks | `Halo2Verifier`; the verdict of the second is only logged |
| zkVM wrapper, circom circuit, scripts, benchmarks, plots, tests | several | files | call the above | not modelled |

How they interact: the router emits `LogRequest`; the relayer polls for it over
RPC, runs the pipeline and calls `execute_with_failover`; each attempt is one
transaction to `RandomRouter.relayVDFPayload`, which hands the payload to an
adapter and so to a bridge; the bridge calls `_execute` of the destination
contract (Axelar) or somebody submits the payload directly.

What is hard here:

- anybody may submit, challenge and finalize in any order while the owner changes
  the settings, and block numbers sit on both sides of the deadline;
- an attempt is an asynchronous call: a timeout drops it after its transaction was
  broadcast, an answer can be lost, a transaction can be mined late;
- a fee is quoted against one state of router, adapters and prices and paid
  against a later one, for a payload of another size;
- the relayer's memory is lost at every restart, and it restarts at every error of
  the head query, the pipeline or the metrics file; a request can be computed and
  relayed twice, with two different values;
- a committee can be registered with the receiver while the pipeline generates a
  new one for every run;
- the submitter writes the signals next to the proof bytes, and what the deployed
  verifier takes is neither all that the prover makes nor only that;
- RPC nodes answer with an old head, miss the last blocks, limit the rate or fail;
- the order of the proof's signals and the digest of the payload are written in
  three languages that must agree;
- rewards and claims are paid from one balance, and a payee can refuse;
- block ranges, delays and counters are machine arithmetic with saturation,
  truncation and wrapping.

`PROJECT.json` lists each hazard with its line and the properties that watch it.

## 2. The modules

**CrossRand** is the whole. It extends
`RandomReceiver` and adds the requests the router logged, the pipeline runs
(`run`: which request a payload was computed for and with which proof, or none when
proving failed) and the bridges (`message`: a payload in a bridge is relayed,
approved, executed). The parts with modules of their own appear by what those
establish: a run yields signals that speak of its request and payload
(`SignalsMatchPayload`), a request may be run again after a restart and relayed over
several bridges (`DuplicatesExplained`, `SecondRelayMeansAbandoned`). `Approve` is
the bridge's and may never happen, or in any order. `Execute` is Axelar's
`execute` with `_execute`: a refusal reverts the mark of the gateway too, so the call
stays executable. The receiver has no function for LayerZero and Wormhole to call,
so their messages get no further, but their payloads are public like all that
were relayed. `SubmitByHand` is anybody calling `submitOptimisticResult`: for any
request, any payload that is public or made up (`Payloads` has more than the runs'
`Outputs`), any proof bytes but those of a run not relayed yet, and any signals.

**Halo2Verifier** is `verifyProof` of the deployed verifier over what the bytes of a
proof decode to: the length and the points at both ends. As in the code the signals matter
only by their range, and the outcome of the pairing does not matter at all
(`Halo2Verifier.sol:105`). The receiver takes any relation `Accepts` between proof
bytes and signals, so what is proved holds for any verifier; both instances give it
this one. In `MCCrossRand` a run's transcript does not decode, for the prover works
over other curves, and the only bytes that do are those of the end-to-end test.

**OptimisticResult** is the promise of the destination contract: per request at
most one result is queued, it is settled at most once, and the published value is
the queued one.

**RandomReceiver** is the contract. A transaction is one step and a call that
reverts is no step. The two calls that send ether assign nothing afterwards, so a
call from the payee's code is equivalent to a later transaction. The settings are
one record `config`; each owner function is an action. `submitOptimisticResult` is
public and is also what `_execute` calls, hence one action with any payload. A payload is
`(y, pi, seedCollective, modulus)` as a model value, `Packing` says which payloads
`abi.encodePacked` cannot tell apart, and a hash is the record of what is hashed.
A proof is opaque; the caller writes signals of his choice next to it, and the
action checks what the code checks: the verifier's answer (`Accepts`), the digest,
the committee and the request. `challengeResult` calls `verifyProof` and `verifyVDF` but uses neither
verdict: the action compares the hashes, as the code does. `submission`,
`falseChallenges`, `payout`, `claimed` and `deposited` are what the events report.

**ReceiverProperties** has the contract's properties and the refinement mapping
(`status` is read off the deadline and the two flags).
`submission` remembers the window configured at a submission and whether a zero
expansion factor applied to it.

**RandomRouter** is the source contract with the three adapters, and the two calls of
`relay_via_router`: `RelayViaRouter` quotes against the settings of now and leaves
a transaction in `pending`; `Dispatch` or `Revert` settles it against the settings of the
block that mines it. Each kind of adapter quotes and accepts in its own way: Axelar
by its hint, LayerZero by the endpoint's price of the payload, Wormhole by its
oracle or, when that fails, its hint. The Axelar relayer asks the gas service
instead (`GasServiceBridges`, any of `GasQuotes` or a failure) and knows nothing of
routes. The buffered product saturates at `MaxUint`, an estimate of half of it or
more counts as "no route", a fee above the relayer's cap is not sent. The relayer's
estimate has `EstimatedSize`
(six fields), the transaction a size from `PayloadSizes` (eight fields). `changes`
counts what owners and prices did; a transaction remembers the count of its quote.

**BridgePriority** is the constant part of a relayer process: the priority it resolves
from the environment, the registry file or the default, and the relayers it selects.

**BridgeFailover** is one `MultiBridgeRouter` over one of these selections. `call` is the running
`execute_with_failover`, cut at its awaits: `estimating`, `sending`, `awaiting`,
then `ok` or `failed`. `Quote` is everything from the answered estimate to the
next await: the fallback fee, the buffer, the cap, and for the bridge with a
budget the roll-over, the check and the reservation. The mempool, the mined and
the reverted transactions are the source chain as seen through a node. `SendFails`,
`WaitFails` and `Timeout` may leave the transaction in the node; `abandoned`
remembers the runs where that happened. `DummyRelay` answers without a transaction.

**RelayerDaemon** is the loop over `BridgeFailover` (it extends that module:
`Dispatch` and `Record` are the failover's `Begin` and `Return`, `Start` and `Exit` its
restart, and the awaits in between are its own steps) and a source chain of blocks with requests. `Exit` covers a crash
and every `?` of the loop: it can happen at every step. `Lag` is how old a node's
answer may be, for the head and for the logs.

**LogScanner** is the chunk loop of `fetch_log_requests_in_range`. It keeps how
often each block's events were appended; `LogsIn` of `RelayerDaemon` is the
result this module justifies.

**RandomnessPipeline** is one run from the committee to the relayed payload. SHA-256 is a
function the run discovers: a string not hashed before gets any digest. A BLS key
is its exponent, an aggregate the sum of the exponents with the signed string.
It contains **WesolowskiVdf**, where an element of the class group is its
exponent modulo the unknown order of the generator, and the hash behind the challenge any function
of the counter, and **Halo2Circuit**, where bytes, halves and field elements have
sizes that are constants: `FromRaw` builds the input, `Synthesize` the table row by
row, `GateHolds` is the gate, `InstanceRows` the binding to the public inputs.

**AdaptiveVdf** is `AdaptiveVdfState::update`, with saturating multiplication and
truncating division. The base is chosen at the start. `epoch` alternates with each
update, so that an update which changes nothing else (too fast again at the cap, or
where truncation takes the raise away) is still a step and fairness does not
exclude it.

`MC*` modules give the instances, `*Proofs` modules the proofs. Operators named
`Mutant_*` are plausible mistakes in the definition they precede; every property is
shown to notice one of them.

## 3. The runs

| Run | Shows | Instance |
|---|---|---|
| `crossrand` | `ExecutedIsQueued`, `DeliverableIsSettled` | one request, two pipeline runs for it, with a proof or without, and a third payload that no run made, an Axelar-like bridge and one without entry point, committees registered and removed, proofs enforced or not, the deployed verifier |
| `receiver_queue` | `QueueConsistent`, refinement of `OptimisticResult` | two requests, two complete payloads and an incomplete one, proof bytes the verifier takes and bytes that are too short, signals of either request, payload and committee, one request id above the field modulus, verifier set or not, three blocks |
| `receiver_window` | `ChallengeableForAWindow`, `QueuedIsSettled` | one request, every combination of window, threshold, factor (0, 1, 3) and base fee on both sides of each comparison, five blocks |
| `receiver_rewards` | `EarningsBoundedByEpochs`, `SeniorityRespected`, `EtherAccounted` | two watchers, one refusing ether, two audit epochs, deposits smaller and larger than what is owed |
| `router` | `RevertExplained`, `SentinelNeverDispatches` | one adapter of each kind, a bridge quoted by the gas service and one by the router, two destinations and accounts, prices 1, 20000 or none, hints 0, 2 and 60000, quotes whose product saturates the largest integer, 100000; three changes around one transaction |
| `failover` | `BudgetHeld`, `SecondRelayMeansAbandoned`, `ResultTellsTheTruth`, `EachBridgeOnce`, `ResolutionAsListed` | registry configurations with blank, repeated, unknown and disabled names, two bridges and the dummy, three dispatches, two faults, fees below and above the cap and the budget, one midnight, one restart |
| `daemon` | `NoRequestPassedOver`, `DuplicatesExplained`, `ProcessedWasRelayed`, `EveryRequestHandled` | two requests in any of four blocks, answers up to two blocks old, one fault, five dispatches, one restart |
| `scanner` | `RangeScannedOnce`, `ScanReturns` | every range of a 3-bit block number, chunks of three, three attempts |
| `pipeline` | `DelayProofVerifies`, `ChallengeIsFirstFit`, `SignalsMatchPayload`, `ProofNamesSigners`, `HonestProofIsComplete`, `RunEnds` | committees accepted and refused, two keys, group orders 6 and 7, delays 0 and 5, six candidates: two acceptable, and one each that fails only for being composite, 1 modulo 4, a Mersenne number or smooth below, bytes of two bits, digests of four bytes, a field of 17 elements, a circuit that fits and one that does not |
| `adaptive` | `DelayBounded`, `FallsOnlyWhenHealthy`, `RisesToCap`, `ReturnsToBase` | bases 1 and 3, where truncation takes the raise away, 4 and 7, where it does not, cap 240, the code's 5/4 and 9/10, five solve times of which two are too fast, products above the integer limit of 1000 |

The bounds are the smallest at which the interesting case occurs. Two requests
are needed for a result of one to meet the state of the other and for a
failed request to sit in front of
another; two runs for a request to have two values; two bridges for a second relay
and for a bridge nobody listens to; two faults so that all bridges of a failover
can fail; one restart because what a process forgets it forgets at the first; a
cap on blocks so that a window opens, closes and one block more passes. Submissions
whose window would not end inside the instance are left out, and in `crossrand`
blocks are counted only while a window runs. `crossrand` has one request, since its
properties speak of one at a time; `crossrand_proven` has two. In `router`, three
changes are an adapter registered, its route set, and one more after the quote, or a price
past the threshold before it;
destinations are interchangeable. `daemon` uses
`Lag = 2`, the most the overlap of two blocks (`from_block = latest - 1`)
tolerates: with a log answer three blocks old a request is passed over.
`pipeline` has a half of a digest just below the size of the field, as in the code.
`adaptive` has a base on either side of the smallest at which `t * 5 / 4` still
grows: from 3 the raise is truncated away for ever, which `RisesToCap` says. `CHECK_DEADLOCK FALSE` stands where an instance
ends: the bounds on runs, days, starts, changes and blocks are used up, or the
scan or the pipeline has returned.

### Where the code and its documents disagree

| Run | What it shows |
|---|---|
| `receiver_rejected` | the challenge does not judge the payload: a valid result is rejected by whoever presents another payload, such as the second value of a request relayed twice (and, the other half of `ChallengeJudgesPayload`, presenting an invalid result itself is a false challenge) |
| `crossrand_proven` | with proofs enforced, a result that was queued with a proof need not be one a run computed and proved for its request: the verifier does not tie the signals to the proof bytes |

Each checks one sentence of a document, quoted in `PROJECT.json`. Two
smaller matters need no run. In the deadline block
`finalizeRandomness` accepts (`block.number < deadline` reverts) and
`challengeResult` still does (`block.number > deadline` reverts), so the order of two
transactions decides. `setDynamicWindowConfig` stores an expansion factor of zero,
with which a result submitted under a high base fee can be final in the block of its submission
(`ChallengeableForAWindow` names that exception). The window is counted in blocks:
while the verifier is unset `challengeResult` reverts, though nothing uses its verdict.

### What the composition says about an operator's choices

`DeliverableIsSettled` has conditions, and each is one the deployment can miss.
The bridge must be one the receiver listens to: only Axelar is, although the
failover counts a relay over LayerZero or Wormhole as success and marks the
request as processed. And the contract must accept the run's own proof and signals
from some point on. Where proofs are enforced, as `02_deploy_receiver.ts` sets it,
the deployed verifier refuses the prover's own transcripts, so in the instance the
condition is met only while proofs are not enforced and the run has none: what is
delivered with a transcript is refused. A registered committee
would moreover have to be the payload's own: since each run generates its committee,
`registerPkHash` admits the proofs of one run. Settled is not answered: a
challenge may have been what settled it. What `ExecutedIsQueued` and its theorem say
needs no condition.

### Fairness

- `CrossRand`: blocks keep coming, results are finalized, and a call that Axelar
  has approved and the contract accepts is executed (its relayers do, and anybody may). Nothing is
  assumed of the relayer, of the approval and of the people who submit, challenge
  and register.
- `RandomReceiver`: blocks keep coming, and each result is finalized by somebody
  once it stays finalizable; the function is open to everyone and the operator has
  a script for it. No fairness of challenges or of the owner.
- `RelayerDaemon`: a process that is down is started again, as under a
  supervisor; polling, the loop's own steps and the awaits make progress
  (each await has a timeout); a log query repeated for ever succeeds sometimes
  (strong fairness of `Fetch`: the loop retries after two seconds); a transaction
  in a node is eventually mined unless it is lost. Nodes may stay `Lag` blocks
  behind for ever, so the property speaks of requests with `Lag` blocks on top.
  The instance's lookback covers its blocks: a process that is down longer than
  `startup_lookback_blocks` does lose requests, which no document denies.
- `LogScanner`: each query is answered, with events or an error.
- `RandomnessPipeline`: the run is one call that nothing interrupts.
- `AdaptiveVdf`: solves keep being measured, in any sequence of times; the same time
  for ever is one.

## 4. What is proved

TLAPS checks these for every value of the constants, from the named assumptions of the
modules (numbers are naturals, the defaults are what the setters accept, the sentinels are
no values).

**The destination contract** (`RandomReceiverProofs`). `TypeCorrect` is one lemma per
action. `QueueStaysConsistent`: `QueueConsistent` is inductive together with `TypeOK`; every
action but the three queue operations leaves its variables alone, and each of the three
touches one item whose old value its guards describe.
`ResultsWereChallengeable` needs that the current window is a window the setter accepts
(`WindowInv`) and that expansion does not shorten it unless its factor is zero
(`WindowNotShortened`, an inequality on the truncated ratio), which the property names as
its exception. `ReceiverRefines` maps each queue action to `Submit`, `Reject` or
`Finalize`, or to a stutter, and all others to stutters.

`SeniorWatchersEarnMore` needs that the list of watchers is exact (`ListExact`: a registered
watcher is in it once, nobody else is), for an audit pays once per entry.
`EarningsAreBounded` compares what was earned with the last audit instead of the current
block (`EarningsInv`), and needs that the epoch is never zero, which the setter refuses:
then each audit lies a shortest epoch or more after the one before, and one more audit fits
into the truncated quotient (`Quotients`). `EtherIsAccounted` adds up claims over all
accounts and payouts over all requests: a claim changes one summand, and a challenge the one
of a request that was not challenged before. The two need that accounts and requests are
finitely many and that there is a highest reward (`WordAssumption`): all of them are machine
words.

**The log scan** (`LogScannerProofs`). `ScanIsExact` follows from `Progress`: while
scanning, exactly the blocks from `fromBlock` to `start - 1` have been appended, once. The
property alone speaks only of the end. `ScanTypeCorrect` is its type invariant, and
`ChunkInRange` says that a chunk is never empty and never leaves the range; the case of the
last representable block is split off because there `start` cannot move.

**The adaptive delay** (`AdaptiveVdfProofs`). `DelayStaysBounded` assumes that each base is
at most the cap, which `update` checks, and that a decay does not raise (`DecayLowers`).
`DelayFallsOnlyWhenHealthy` assumes in addition that a raise does not lower and that `t_max`
is at most the largest integer divided by `alpha_den` (`Sound`): with a larger cap a
saturated raise can lower the delay. They rest on `RaiseDoesNotLower` and
`DecayDoesNotRaise`, which rest on two lemmas about truncating division. `update` checks
none of the three further conditions; the defaults satisfy them.

**The composition** (`CrossRandProofs`). `CrossIsReceiver`: every step of the system is a
step or a stutter of the receiver, so the theorems above hold inside the system.
`ExecutedStaysQueued`: a delivery that was executed has left its run's payload and
signature in the queue, and nothing anybody does later replaces it. It is inductive with
`LinkOK`, that only payloads of runs are in a bridge and a run keeps its request, and
with the fact that a queued hash never changes. It asks nothing of the verifier.

**The router** (`RandomRouterProofs`). `QuotedRelayRefusedForCause` and `NoRouteNoDispatch`
from an invariant that ties a pending transaction to what its estimate was under the
settings of its quote (`when = changes` means that these are the settings of now). The
arithmetic is in a few lemmas: `BufferCovers`, that a buffer of at least 10000 basis points
never pays less than the estimate unless the product saturates, `EndpointFeeGrows`, that a
larger payload does not cost less, `QuoteAccepted`, that an adapter turns down what
follows from its own estimate only for a zero hint or for the size of the payload, and
`FallbackRefused`, that after an estimate taken for "no route" the fallback fee is too
little. The last assumes a fallback fee below half the largest integer and eight fields not
shorter than six (`FallbackAssumption`).

**The relayer's configuration and failover** (`RelayerProofs`). `PriorityIsAsListed` is
about functions only: whatever names an environment and a registry file list, blank,
repeated, unknown or disabled, the selected relayers are the names that remain in order of
first mention. A selection is built by folds that append a name unless it is there
(`NormalizedNames`, `SelectRelayers`), so its proof follows such a fold prefix by prefix
(`KeptPrefixes`). That the default list repeats no name is an assumption the code's constant
satisfies. The failover's own invariant `FailoverInv` has, beside the types, `Books` (a
transaction belongs to a run that began, and is in one of mempool, mined and reverted at
most), `EachBridgeOnce`, `CallBehind` (what the current run sent went over the bridges up to
the current one, which is included only after its send), `OneOpen` (a run without abandoned
attempt has at most one transaction that is not reverted) and `CallOpen` (and none when the
next attempt begins). `BridgesAreTriedOnce` follows from it because a selection repeats no
name; `SecondRelayHasCause` and `ResultIsTrue` because a call moves on only from an attempt
that reverted, was never sent, or is recorded as abandoned. `BudgetIsHeld` is a sum over
transactions: its invariant `BudgetCovers` says that the counter of the day covers what was
sent on it plus what is reserved and not yet sent. Reservation and broadcast are two steps
with an await between, and midnight may fall there.

**The relayer loop** (`RelayerProofs`). `ProcessRefinesFailover`: a step of the process is a
step or a stutter of the failover, so the failover's theorems hold in the process.
`DaemonInv` adds `CallInLoop` (a call runs exactly when the loop awaits it, for the request
at the head of its list, which is not processed), `OneRelay` (abandoned runs aside, one
process has at most one unreverted transaction per request, and unless the call still runs
the request is processed) and `ProcessedWasRelayed`. `DuplicatesHaveCause` and
`ProcessedIsRelayed` follow. `NothingIsPassedOver` has an invariant of its own, `Scanned`:
every request from `startFrom` up to `from_block` was dispatched, and while the events of a
scan are handled those up to the next `from_block` are dispatched or in the list. It is
stated for `Lag <= 2`, since the loop overlaps its scans by two blocks; at three TLC finds a
request passed over. `LogsInRange` says that a scan returns every log of its range.

**The delay function and the pipeline** (`RandomnessPipelineProofs`). `DelayProofsVerify`:
after i squarings the running element is 2^i modulo the order, and quotient and remainder
put 2^t together again, in a group of any order. `PipelineImplementsDelay`: the pipeline
refines the delay function, so it inherits that.

`ChallengesFitFirst` is in two parts. `Searched` says that the candidates before the counter
were not acceptable, also after the counter wrapped, and that the challenge is the one at
the counter. `AcceptableIsWanted` says what acceptable means: the code compares the bit
length and divides by the primes of a list, the property speaks of factors. That a number is
the power of two of its highest bit exactly when it has no odd factor but 1 (`PowersOfTwo`)
is an induction down the halves; that the loop leaves 1 exactly when all prime factors are
on the list (`SmoothLoop`, `SmoothLeaves`, `SmoothMinusOne`) needs that a prime factor of a
product with another prime is one of the other part (`OtherFactor`, Euclid's lemma from a
least number) and that every number from 2 on has a prime factor. Assumed are that `TwoPow`
doubles as far as a candidate has bits (`BitsAssumption`) and that the list holds primes
(`PrimesAssumption`); TLC evaluates both.

`PipelineInv` holds the rest: the types and that every string hashed keeps its digest
(`PipelineTypeOK`), what each phase has made (`MadeSoFar`), and that the signature is the
one of the first `t` nodes (`Signed`). `PayloadMatchesProof` and `HonestProofsAreComplete`
follow a digest through the halves, the 64-bit words, the field (`HalvesFit`: a half is
below the prime), the rows and the instance. Reading a string of bytes as a number and
writing the number back gives the string (`ReadsBytes`, `FieldElementSurvives`,
`DigestParts`), and an aggregate is the sum modulo the order (`AggregateIsSum`).
`ProofsNameTheirSigners` says that the key hash in the proof is that of exactly `t` nodes of
the committee and the signature the sum of theirs. The only assumption about an operator is
`PowerAssumption`, the recurrence `b^(n+1) = b * b^n` of the power operator on the exponents
in use, because the prover has no definition of it; TLC evaluates it on the instance of
`pipeline`.

**Folds and recursion** (`FoldFacts`). The models compute with the folds of the community
modules, and the prover has no induction that takes a predicate. The lemmas there get it
from a smallest counterexample: a collection of subsets of a finite set that has each one
whose strict subsets it has, has all of them (`SubsetInduction`; `IntervalInduction` for an
interval). From that follow that a fold exists and is determined by its steps (`FoldExists`,
`FoldUnique`), how a sum changes with one summand (`SumStep`, `SumExcept`), and what a fold
that appends or drops leaves (`Kept`: the elements at the positions kept, all of them, in
their order). A recursive function of the model is a CHOOSE of a solution of its equation,
so that it computes anything rests on `RecursionExists`: if some rank falls at each step
down, the equation has a solution. `BitLengthDef` and `StrippedDef` apply it, and
`DescentInduction` proves what their values have in common.

The type theorems `TypeCorrect`, `RouterTypeCorrect`, `CrossTypeCorrect`,
`FailoverTypeCorrect`, `LoopTypeCorrect`, `ScanTypeCorrect` and `PipelineTypeCorrect` are
proved first in each of these modules; the other invariants use them.

Every safety invariant and refinement that a passing run checks is stated by a theorem.

**Only model-checked**: all liveness (`QueuedIsSettled`, `DeliverableIsSettled`,
`EveryRequestHandled`, `ScanReturns`, `RunEnds`, `RisesToCap`, `ReturnsToBase`), since
fairness and ENABLED are out of the prover's reach, and the two disagreements of section 3,
which are counterexamples. No module uses a RECURSIVE operator.

## 5. Not modelled

Arithmetic of curves, class groups and polynomials: a key is an exponent, a group
element an exponent of the generator, a point of the verifier a name. Gas and
transaction fees other than bridge fees. The pipeline's duration. Chain
reorganisations: neither the relayer nor the contracts handle them. Several
relayers at once. What the bridges do between source and destination, beyond
approving a message late or never. The on-chain delay check
(`verifyVDF`) is a modular exponentiation while `y` and `pi` are class-group elements; its
verdict is only logged, so no property depends on it. The benchmarks, the scripts, the zkVM wrapper and the circom
circuit are not called by the relayer and keep no state.

## 6. Plan

1. The relayer loop inside `CrossRand`, in place of the free choice of runs and relays, on
   an instance with one request, so that `DuplicatesExplained` bounds the values per request there.
2. An abstract specification of one scan (every log of a range, or an error), which
   `LogScanner` implements and of which `Fetch` of the loop is the one step, in place of the
   agreement of `LogsIn` with `RangeScannedOnce` that a reader has to see.
3. An abstract specification of a relay (at most one per request, unless something was
   abandoned) that the loop and the failover implement together.
