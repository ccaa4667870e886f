--------------------------- MODULE BridgeFailover ---------------------------
(***************************************************************************)
(* How the relayer dispatches one payload, network_module/src/bridges.rs:  *)
(* MultiBridgeRouter::execute_with_failover tries the bridges in priority  *)
(* order, each attempt under a timeout.  An attempt asks for a fee, checks *)
(* it against the cap and, for Axelar, reserves it in the daily budget,    *)
(* sends the router transaction and waits for its receipt.                 *)
(*                                                                         *)
(* An attempt is cut at its awaits.  A timeout drops it at whichever await *)
(* it has reached; a transaction already handed to a node stays there and  *)
(* can still be mined.                                                     *)
(*                                                                         *)
(* An operator Mutant_X is a plausible bug in the definition after it.  No *)
(* definition uses it.                                                     *)
(***************************************************************************)
EXTENDS BridgePriority, FiniteSets

CONSTANTS
  Requests,       \* request identifiers
  Configurations, \* what a starting process may find, see BridgePriority
  Watched,        \* the bridge whose relayer keeps a daily budget (Axelar)
  Estimates,      \* fees a bridge may quote
  NoEstimate,     \* the quote failed, or is the no-route sentinel
  FallbackFee,    \* cross_chain_fee_wei
  FeeBufferBps,   \* safety margin on a quote, in 1/10000
  MaxFeeCap,
  DailyBudget     \* 0 switches the budget off

CONSTANTS         \* bounds of the explored instance
  MaxRuns,        \* pipeline runs
  MaxFaults,      \* RPC errors, lost or reverted transactions, timeouts
  MaxDay,         \* last day
  MaxLives        \* starts of the daemon

ASSUME ConfigurationAssumption ==
  /\ \E c \in Configurations : Starts(c)
  /\ \A c \in Configurations :
       /\ c.env \in Seq(DOMAIN Normalize) \cup {Unset}
       /\ c.file \notin {NoFile, BadFile} =>
            /\ c.file.priority \in Seq(DOMAIN Normalize) \cup {Unset}
            /\ c.file.bridges
                 \in Seq([name : DOMAIN Normalize, enabled : BOOLEAN]) \cup {Unset}

ASSUME FeeAssumption ==
  /\ Estimates \subseteq Nat /\ NoEstimate \notin Nat
  /\ FallbackFee \in Nat /\ FeeBufferBps \in Nat
  /\ MaxFeeCap \in Nat /\ DailyBudget \in Nat
  /\ {MaxRuns, MaxFaults, MaxDay} \subseteq Nat /\ MaxLives \in Nat \ {0}

VARIABLES
  relayers,      \* MultiBridgeRouter: the bridges, first choice first
  call,          \* the running execute_with_failover
  runs,          \* pipeline runs so far; numbers the payloads
  mempool,       \* router transactions a node holds
  relayed,       \* mined, payload handed to the bridge
  rejected,      \* mined and reverted, or dropped
  spentToday, budgetDay,   \* BudgetState
  today,         \* current_day_index_utc
  life           \* which start of the daemon this is

VARIABLES        \* history
  sent,          \* transactions broadcast
  abandoned,     \* runs with an attempt given up after it broadcast
  faults         \* counts towards MaxFaults

budgetVars == <<spentToday, budgetDay>>
txVars     == <<mempool, relayed, rejected, sent>>
vars == <<relayers, call, runs, txVars, budgetVars, today, life, abandoned, faults>>

Idle == [state |-> "idle", request |-> 0, run |-> 0, index |-> 0, fee |-> 0,
         day |-> 0]

\* The relayers a process can start with: a restart reads the
\* configuration again.
Selections == {SelectRelayers(c) : c \in {c \in Configurations : Starts(c)}}

Init ==
  /\ relayers \in Selections
  /\ call = Idle
  /\ runs = 0
  /\ mempool = {} /\ relayed = {} /\ rejected = {} /\ sent = {}
  /\ spentToday = 0 /\ budgetDay = 0 /\ today = 0
  /\ life = 1
  /\ abandoned = {} /\ faults = 0

\* The transaction the current attempt sends.
Tx == [request |-> call.request, run |-> call.run, life |-> life,
       bridge |-> relayers[call.index], fee |-> call.fee, day |-> call.day]

Fault == faults < MaxFaults /\ faults' = faults + 1

-----------------------------------------------------------------------------
(* The outside world. *)

NextDay ==
  /\ today < MaxDay
  /\ today' = today + 1
  /\ UNCHANGED <<relayers, call, runs, txVars, budgetVars, life, abandoned, faults>>

Mine(tx) ==
  /\ mempool' = mempool \ {tx}
  /\ relayed' = relayed \cup {tx}
  /\ UNCHANGED <<relayers, call, runs, rejected, sent, budgetVars, today, life, abandoned,
                 faults>>

\* The router or its adapter reverts, or the node drops the transaction.
Lose(tx) ==
  /\ Fault
  /\ mempool' = mempool \ {tx}
  /\ rejected' = rejected \cup {tx}
  /\ UNCHANGED <<relayers, call, runs, relayed, sent, budgetVars, today, life, abandoned>>

-----------------------------------------------------------------------------
(* One call of execute_with_failover. *)

Begin(r) ==
  /\ call.state = "idle"
  /\ runs < MaxRuns
  /\ runs' = runs + 1
  /\ call' = [Idle EXCEPT !.state = "estimating", !.request = r,
                          !.run = runs + 1, !.index = 1]
  /\ UNCHANGED <<relayers, txVars, budgetVars, today, life, abandoned, faults>>

Mutant_TryNextForever ==
  call' = [call EXCEPT !.state = "estimating", !.index = @ + 1]

\* The attempt has failed: the next bridge, or "all bridges failed".
TryNext ==
  call' = IF call.index < Len(relayers)
            THEN [call EXCEPT !.state = "estimating", !.index = @ + 1]
            ELSE [call EXCEPT !.state = "failed"]

FeeToPay(estimate) ==
  IF estimate = NoEstimate THEN FallbackFee
  ELSE (estimate * FeeBufferBps) \div 10000

IsWatched == relayers[call.index] = Watched /\ DailyBudget > 0

\* spent_today_wei after the roll-over to a new day.
SpentNow == IF budgetDay = today THEN spentToday ELSE 0

Mutant_ReserveNothing(fee) == SpentNow

\* spent_today_wei once the fee is reserved, before the transaction is sent.
Projected(fee) == SpentNow + fee

ToSend(fee) ==
  call' = [call EXCEPT !.state = "sending", !.fee = fee, !.day = today]

Quote(estimate) ==
  LET fee == FeeToPay(estimate)
  IN /\ call.state = "estimating"
     /\ relayers[call.index] # Dummy
     /\ \/ /\ fee > MaxFeeCap
           /\ TryNext
           /\ UNCHANGED budgetVars
        \/ /\ fee <= MaxFeeCap /\ ~IsWatched
           /\ ToSend(fee)
           /\ UNCHANGED budgetVars
        \/ /\ fee <= MaxFeeCap /\ IsWatched
           /\ Projected(fee) > DailyBudget
           /\ budgetDay' = today /\ spentToday' = SpentNow
           /\ TryNext
        \/ /\ fee <= MaxFeeCap /\ IsWatched
           /\ Projected(fee) <= DailyBudget
           /\ budgetDay' = today /\ spentToday' = Projected(fee)
           /\ ToSend(fee)
     /\ UNCHANGED <<relayers, runs, txVars, today, life, abandoned, faults>>

Broadcast == mempool' = mempool \cup {Tx} /\ sent' = sent \cup {Tx}

Send ==
  /\ call.state = "sending"
  /\ Broadcast
  /\ call' = [call EXCEPT !.state = "awaiting"]
  /\ UNCHANGED <<relayers, runs, relayed, rejected, budgetVars, today, life, abandoned,
                 faults>>

\* The attempt ends without knowing whether a node has its transaction.
GiveUp ==
  /\ Fault
  /\ TryNext
  /\ abandoned' = IF Tx \in sent' THEN abandoned \cup {call.run}
                                  ELSE abandoned
  /\ UNCHANGED <<relayers, runs, relayed, rejected, budgetVars, today, life>>

\* Either the transaction or only the node's answer is lost.  The
\* reservation is kept.
SendFails ==
  /\ call.state = "sending"
  /\ Broadcast \/ UNCHANGED <<mempool, sent>>
  /\ GiveUp

\* "failed waiting", or reported dropped by a node that did not see it.
WaitFails ==
  /\ call.state = "awaiting"
  /\ UNCHANGED <<mempool, sent>>
  /\ GiveUp

Mutant_StatusUnchecked ==
  /\ call.state = "awaiting"
  /\ Tx \in relayed \cup rejected
  /\ call' = [call EXCEPT !.state = "ok"]
  /\ UNCHANGED <<relayers, runs, txVars, budgetVars, today, life, abandoned, faults>>

Mutant_ReceiptIgnored ==
  /\ call.state = "awaiting"
  /\ Tx \in relayed \cup rejected
  /\ TryNext
  /\ UNCHANGED <<relayers, runs, txVars, budgetVars, today, life, abandoned, faults>>

Receipt ==
  /\ call.state = "awaiting"
  /\ \/ Tx \in relayed /\ call' = [call EXCEPT !.state = "ok"]
     \/ Tx \in rejected /\ TryNext
  /\ UNCHANGED <<relayers, runs, txVars, budgetVars, today, life, abandoned, faults>>

\* A request already on its way to the node when the attempt is dropped may
\* still reach it.
Timeout ==
  /\ call.state \in {"estimating", "sending", "awaiting"}
  /\ relayers[call.index] # Dummy
  /\ \/ UNCHANGED <<mempool, sent>>
     \/ call.state = "sending" /\ Broadcast
  /\ GiveUp

\* The dummy relayer computes a hash and reports success; it sends nothing
\* and has no await a timeout could hit.
DummyRelay ==
  /\ call.state = "estimating"
  /\ relayers[call.index] = Dummy
  /\ call' = [call EXCEPT !.state = "ok"]
  /\ UNCHANGED <<relayers, runs, txVars, budgetVars, today, life, abandoned,
                 faults>>

\* The caller takes the result.
Return ==
  /\ call.state \in {"ok", "failed"}
  /\ call' = Idle
  /\ UNCHANGED <<relayers, runs, txVars, budgetVars, today, life, abandoned, faults>>

\* The process ends: the call and the budget live in memory, the
\* transactions in the node.
Restart ==
  /\ life < MaxLives
  /\ life' = life + 1
  /\ relayers' \in Selections
  /\ call' = Idle
  /\ spentToday' = 0 /\ budgetDay' = today
  /\ UNCHANGED <<runs, txVars, today, abandoned, faults>>

Network == NextDay \/ \E tx \in mempool : Mine(tx) \/ Lose(tx)

Attempt ==
  \/ \E e \in Estimates \cup {NoEstimate} : Quote(e)
  \/ Send
  \/ SendFails
  \/ WaitFails
  \/ Receipt
  \/ Timeout
  \/ DummyRelay

Next ==
  \/ Network
  \/ Attempt
  \/ \E r \in Requests : Begin(r)
  \/ Return
  \/ Restart

Spec == Init /\ [][Next]_vars

-----------------------------------------------------------------------------
(* Properties. *)

Txs == [request : Requests, run : 1..MaxRuns, life : 1..MaxLives,
        bridge : BuiltIn, fee : Nat,
        day : 0..MaxDay]

CallStates == {"idle", "estimating", "sending", "awaiting", "ok", "failed"}

TypeOK ==
  /\ relayers \in Selections
  /\ call \in [state : CallStates, request : Requests \cup {0}, run : 0..runs,
               index : Nat, fee : Nat, day : 0..today]
  /\ call.state # "idle" =>
       /\ call.request \in Requests /\ call.run \in 1..runs
       /\ call.index \in DOMAIN relayers
  /\ runs \in 0..MaxRuns /\ faults \in 0..MaxFaults
  /\ spentToday \in Nat /\ today \in 0..MaxDay /\ budgetDay \in 0..today
  /\ life \in 1..MaxLives
  /\ sent \subseteq Txs
  /\ mempool \cup relayed \cup rejected = sent
  /\ abandoned \subseteq 1..runs

(* Within one dispatch no bridge is tried again: a repeated or differently *)
(* written name in the configuration does not pay a bridge twice           *)
(* (main.rs:230-239).                                                      *)
EachBridgeOnce ==
  \A t, u \in sent : t.run = u.run /\ t.bridge = u.bridge => t = u

\* What the operator wrote, in the place that counts: the environment hides
\* the file, the file's priority list hides its bridges list.
Mentions(c) ==
  LET on(names) == [i \in DOMAIN names |-> [name |-> names[i], enabled |-> TRUE]]
  IN  IF EnvironmentDecides(c.env) THEN on(c.env)
      ELSE IF c.file = NoFile THEN << >>
      ELSE IF c.file.priority # Unset THEN on(c.file.priority)
      ELSE IF c.file.bridges # Unset THEN c.file.bridges
      ELSE << >>

(* The bridges a process tries are the known ones its operator listed and  *)
(* did not disable, each where it is first mentioned, and the defaults     *)
(* only if no name is listed (bridge_registry.rs:45-109, main.rs:229-246). *)
(* It is judged while a process has dispatched nothing: its bridges do not *)
(* change until the next start.                                            *)
ResolutionAsListed ==
  runs = 0 =>
  \A c \in {c \in Configurations : Starts(c) /\ SelectRelayers(c) = relayers} :
    LET at(name) == {i \in DOMAIN Mentions(c) :
                       /\ Mentions(c)[i].enabled
                       /\ Normalize[Mentions(c)[i].name] = name}
        listed == {name \in Range(Normalize) \ {NoName} : at(name) # {}}
    IN  IF listed = {} THEN relayers = DefaultPriority
        ELSE /\ ToSet(relayers) = listed \cap Available(c)
             /\ \A i, j \in DOMAIN relayers :
                  i < j /\ relayers[i] # relayers[j]
                    => Min(at(relayers[i])) < Min(at(relayers[j]))

(* The Axelar transactions one process broadcasts against a day's budget   *)
(* never cost more than that budget, whatever fails, times out or is mined *)
(* late: the fee is reserved before the await and never handed back        *)
(* (bridges.rs:176-212).                                                   *)
BudgetHeld ==
  DailyBudget > 0 =>
    \A d \in 0..today, l \in 1..life :
      SumFunctionOnSet([tx \in sent |-> tx.fee],
                       {tx \in sent : /\ tx.bridge = Watched
                                      /\ tx.day = d /\ tx.life = l})
        <= DailyBudget

(* One payload is handed to two bridges only if an attempt of its run was  *)
(* given up while a node could hold its transaction: a refused fee, a      *)
(* revert or a success is never followed by a second relay.                *)
SecondRelayMeansAbandoned ==
  \A t, u \in relayed : t.run = u.run /\ t # u => t.run \in abandoned

(* A call that reports success has a mined relay of its own run, unless    *)
(* the dummy bridge answered it, and one that reports failure with no      *)
(* attempt abandoned has none.                                             *)
ResultTellsTheTruth ==
  LET mined == {tx \in relayed : tx.run = call.run}
  IN /\ call.state = "ok" => mined # {} \/ relayers[call.index] = Dummy
     /\ call.state = "failed" /\ call.run \notin abandoned => mined = {}
=============================================================================
