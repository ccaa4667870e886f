--------------------------- MODULE RelayerDaemon ---------------------------
(***************************************************************************)
(* The relayer process, the loop of network_module/src/main.rs, over the   *)
(* source chain and the failover of BridgeFailover: it polls the head,     *)
(* fetches the request logs of a block range, runs the pipeline for each   *)
(* request it has not processed, dispatches the payload, and moves         *)
(* from_block.  What it knows is in memory: a restart forgets it and scans *)
(* again from a fixed number of blocks back.  The failover is extended:    *)
(* its Begin, Return and Restart are parts of the loop's actions.          *)
(*                                                                         *)
(* An operator Mutant_X is a plausible bug in the definition after it.  No *)
(* definition uses it.                                                     *)
(***************************************************************************)
EXTENDS BridgeFailover

CONSTANTS
  Lookback,       \* startup_lookback_blocks
  Lag             \* how far behind the head an RPC node may answer

CONSTANTS         \* bounds of the explored instance
  FirstBlock, MaxBlock

ASSUME RequestAssumption ==
  /\ IsFiniteSet(Requests)
  /\ Requests = 1..Cardinality(Requests)    \* nextRequestId counts from 1

ASSUME BlockAssumption ==
  {Lookback, Lag, FirstBlock, MaxBlock} \subseteq Nat /\ FirstBlock <= MaxBlock

VARIABLES
  head,            \* the last block of the source chain
  logs,            \* logs[r]: the block of request r's LogRequest
  pc,              \* where the loop is
  latest, fromBlock,
  events,          \* the fetched requests still to handle
  processed,       \* processed_requests
  failedRuns,      \* requests whose failure this process has recorded
  startFrom        \* the from_block this process started with

chainVars == <<head, logs>>
loopVars  == <<pc, latest, fromBlock, events, processed, failedRuns, startFrom>>
daemonVars == <<chainVars, loopVars, vars>>

Mutant_MinusNegative(m, n) == m - n

Minus(m, n) == IF m >= n THEN m - n ELSE 0    \* saturating_sub

DaemonInit ==
  /\ Init
  /\ head = FirstBlock
  /\ logs = << >>
  /\ pc = "down"
  /\ latest = 0 /\ fromBlock = 0 /\ startFrom = 0
  /\ events = << >>
  /\ processed = {} /\ failedRuns = {}

-----------------------------------------------------------------------------
(* The source chain: requestRandomness numbers the requests in the order   *)
(* of their blocks.                                                        *)

NewBlock(k) ==
  /\ head < MaxBlock
  /\ Len(logs) + k \in Requests \cup {0}
  /\ head' = head + 1
  /\ logs' = logs \o [i \in 1..k |-> head + 1]
  /\ UNCHANGED <<loopVars, vars>>

\* fetch_log_requests_in_range: the logs of the range in block order.
LogsIn(first, last) ==
  FoldLeftDomain(LAMBDA found, r :
                   IF logs[r] \in first..last THEN Append(found, r) ELSE found,
                 << >>, logs)

-----------------------------------------------------------------------------
(* The loop. *)

\* A node's answer to a query for the head may be up to Lag blocks old.
HeadAnswer == Minus(head, Lag)..head

Start ==
  /\ pc = "down"
  /\ pc' = "poll"
  /\ \E answer \in HeadAnswer :
       fromBlock' = Minus(answer, Lookback) /\ startFrom' = fromBlock'
  /\ UNCHANGED <<chainVars, latest, events, processed, failedRuns,
                 vars>>

Poll ==
  /\ pc = "poll"
  /\ \E answer \in HeadAnswer :
       /\ latest' = answer
       /\ pc' = IF answer >= fromBlock THEN "fetch" ELSE "poll"
  /\ UNCHANGED <<chainVars, fromBlock, events, processed, failedRuns,
                 startFrom, vars>>

\* The node that answers may not have the last blocks yet.
Fetch ==
  /\ pc = "fetch"
  /\ \E known \in HeadAnswer :
       events' = LogsIn(fromBlock, IF known < latest THEN known ELSE latest)
  /\ pc' = "events"
  /\ UNCHANGED <<chainVars, latest, fromBlock, processed, failedRuns,
                 startFrom, vars>>

Mutant_FetchFailsEmpty ==
  /\ pc = "fetch"
  /\ events' = << >>
  /\ pc' = "events"
  /\ UNCHANGED <<chainVars, latest, fromBlock, processed, failedRuns,
                 startFrom, vars>>

\* The range is fetched again after the next poll.
FetchFails ==
  /\ pc = "fetch"
  /\ pc' = "poll"
  /\ UNCHANGED <<chainVars, latest, fromBlock, events, processed, failedRuns,
                 startFrom, vars>>

Skip ==
  /\ pc = "events" /\ events # << >>
  /\ Head(events) \in processed
  /\ events' = Tail(events)
  /\ UNCHANGED <<chainVars, pc, latest, fromBlock, processed, failedRuns,
                 startFrom, vars>>

Mutant_DispatchAgain ==
  /\ pc = "events" /\ events # << >>
  /\ Begin(Head(events))
  /\ pc' = "dispatch"
  /\ UNCHANGED <<chainVars, latest, fromBlock, events, processed, failedRuns,
                 startFrom>>

Dispatch ==
  /\ pc = "events" /\ events # << >>
  /\ Head(events) \notin processed
  /\ Begin(Head(events))
  /\ pc' = "dispatch"
  /\ UNCHANGED <<chainVars, latest, fromBlock, events, processed, failedRuns,
                 startFrom>>

Mutant_FailureProcessed ==
  /\ pc = "dispatch"
  /\ Return
  /\ processed' = processed \cup {call.request}
  /\ UNCHANGED failedRuns
  /\ pc' = "events"
  /\ events' = Tail(events)
  /\ UNCHANGED <<chainVars, latest, fromBlock, startFrom>>

Record ==
  /\ pc = "dispatch"
  /\ Return
  /\ \/ call.state = "ok" /\ processed' = processed \cup {call.request}
                          /\ UNCHANGED failedRuns
     \/ call.state = "failed" /\ failedRuns' = failedRuns \cup {call.request}
                              /\ UNCHANGED processed
  /\ pc' = "events"
  /\ events' = Tail(events)
  /\ UNCHANGED <<chainVars, latest, fromBlock, startFrom>>

Mutant_NoOverlap ==
  /\ pc = "events" /\ events = << >>
  /\ fromBlock' = latest + 1
  /\ pc' = "poll"
  /\ UNCHANGED <<chainVars, latest, events, processed, failedRuns, startFrom,
                 vars>>

Advance ==
  /\ pc = "events" /\ events = << >>
  /\ fromBlock' = Minus(latest, 1)
  /\ pc' = "poll"
  /\ UNCHANGED <<chainVars, latest, events, processed, failedRuns, startFrom,
                 vars>>

\* A failed head query, pipeline or metrics write ends the process from
\* main, and it can be killed anywhere.
Exit ==
  /\ pc # "down"
  /\ Restart
  /\ pc' = "down"
  /\ latest' = 0 /\ fromBlock' = 0 /\ startFrom' = 0
  /\ events' = << >> /\ processed' = {} /\ failedRuns' = {}
  /\ UNCHANGED chainVars

Loop == Poll \/ Fetch \/ FetchFails \/ Skip \/ Dispatch \/ Record \/ Advance

Outside ==
  \/ \E k \in 0..Cardinality(Requests) : NewBlock(k)
  \/ Network /\ UNCHANGED <<chainVars, loopVars>>

AttemptStep == Attempt /\ UNCHANGED <<chainVars, loopVars>>

DaemonNext == Outside \/ Start \/ Loop \/ AttemptStep \/ Exit

DaemonSpec == DaemonInit /\ [][DaemonNext]_daemonVars

(* The process is started again when it is down, its loop and its awaits   *)
(* make progress, a log query that is repeated for ever is answered        *)
(* sometimes, and a transaction in a node is eventually mined or lost.     *)
DaemonFairSpec ==
  /\ DaemonSpec
  /\ WF_daemonVars(Start)
  /\ WF_daemonVars(Poll) /\ SF_daemonVars(Fetch)
  /\ WF_daemonVars(Skip \/ Dispatch \/ Record \/ Advance)
  /\ WF_daemonVars(AttemptStep)
  /\ WF_daemonVars(\E tx \in mempool : Mine(tx) /\ UNCHANGED <<chainVars, loopVars>>)

-----------------------------------------------------------------------------
(* Properties. *)

DaemonTypeOK ==
  /\ TypeOK
  /\ head \in FirstBlock..MaxBlock
  /\ logs \in Seq(FirstBlock..head) /\ DOMAIN logs \subseteq Requests
  /\ pc \in {"down", "poll", "fetch", "events", "dispatch"}
  /\ latest \in 0..head /\ fromBlock \in 0..head /\ startFrom \in 0..head
  /\ events \in Seq(DOMAIN logs)
  /\ processed \cup failedRuns \subseteq DOMAIN logs

(* from_block never passes a request (main.rs:431): every request logged   *)
(* in the blocks the process has left behind, those mined while it was     *)
(* computing a VDF or waiting for a bridge included, has been dispatched   *)
(* or recorded as failed by this process.  Scanning the last two blocks    *)
(* again covers a node whose logs are up to two blocks old.                *)
NoRequestPassedOver ==
  pc # "down" =>
    \A r \in DOMAIN logs :
      logs[r] >= startFrom /\ logs[r] < fromBlock
        => r \in processed \cup failedRuns

(* A request is relayed twice only if an attempt of one of the dispatches  *)
(* was abandoned or the process was restarted in between: rescanning the   *)
(* last blocks, a repeated fetch and a failed dispatch cause no second     *)
(* relay.                                                                  *)
DuplicatesExplained ==
  \A t, u \in relayed :
    t.request = u.request /\ t # u =>
      t.life # u.life \/ {t.run, u.run} \cap abandoned # {}

(* processed_requests holds only requests whose relay was mined, as long   *)
(* as the process does not use the dummy bridge, whose success is taken    *)
(* for a relay (main.rs:392).                                              *)
ProcessedWasRelayed ==
  Dummy \in ToSet(relayers)
    \/ \A r \in processed :
         \E tx \in relayed : tx.request = r /\ tx.life = life

(* A request more than Lag blocks deep is eventually dispatched or         *)
(* recorded as failed, though log queries fail, nodes answer with an old   *)
(* head and the process is started again.                                  *)
EveryRequestHandled ==
  \A r \in Requests :
    (r \in DOMAIN logs /\ logs[r] + Lag <= head)
      ~> (r \in processed \cup failedRuns)
=============================================================================
