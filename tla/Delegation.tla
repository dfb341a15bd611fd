------------------------------ MODULE Delegation ------------------------------
(***************************************************************************)
(* How the workflow hands a node to a child: the delegation adapter        *)
(* (src/workflows/delegation-adapter.ts) sends a request over the events   *)
(* of Pi and waits for the response, the bridge                            *)
(* (src/slash/prompt-template-bridge.ts) runs a foreground child for it.   *)
(* A response that is completed but malformed is asked for again, with a   *)
(* request id of its own; the adapter gives up waiting after 30 minutes    *)
(* without a word to the bridge; the scheduler may abort the attempt; and  *)
(* the session may shut down.                                              *)
(*                                                                         *)
(* One node of one run. The adapter sends a request and its cancellation   *)
(* in this order, so the cancellations that overtake their request         *)
(* (pendingAttemptCancels) have no part here, nor do legacy requests.      *)
(***************************************************************************)
EXTENDS Naturals, FiniteSets

CONSTANTS
    MaxAttempt,     \* bound of the model: attempts the scheduler makes for the node
    MaxSteer,       \* MAX_FORMAT_STEER_ATTEMPTS (2)
    IdentityCap     \* settled requests the bridge remembers (8192)

ASSUME DelegationAssumption == {MaxAttempt, MaxSteer, IdentityCap} \subseteq Nat

Attempt == 1..MaxAttempt
Request == Attempt \X (0..MaxSteer)
NoRequest == <<0, 0>>

VARIABLES
    adapter,    \* of each attempt: its run() call
    worker,     \* of each request: its child
    cancelled,  \* requests whose AbortController has fired
    bridge      \* what the bridge remembers

delegationVars == <<adapter, worker, cancelled, bridge>>

DelegationInit ==
    /\ adapter = [a \in Attempt |-> [pc |-> "idle", steer |-> 0, aborted |-> FALSE, answer |-> "none"]]
    /\ worker = [r \in Request |-> "none"]
    /\ cancelled = {}
    /\ \E known \in BOOLEAN :
         bridge = [up |-> TRUE, context |-> known, controllers |-> {}, active |-> NoRequest,
                   settled |-> {}, saturated |-> FALSE]

Sent(a) == <<a, adapter[a].steer>>

(***************************************************************************)
(* The bridge.                                                             *)
(***************************************************************************)
\* emitTerminal: once per request. Beyond its capacity the bridge forgets nothing and
\* takes no new request.
Remembered(b, r) ==
    IF b.saturated THEN b
    ELSE [b EXCEPT !.settled = @ \cup {r},
                   !.saturated = Cardinality(b.settled \cup {r}) >= IdentityCap]

\* What run() makes of a response.
Told(a, status) ==
    IF status = "malformed" /\ adapter[a].steer < MaxSteer
    THEN [adapter EXCEPT ![a].steer = @ + 1, ![a].pc = "dispatch"]
    ELSE [adapter EXCEPT ![a].pc = "done", ![a].answer = status]

\* The response event reaches the adapter that waits for this request.
Responds(r, status) ==
    adapter' = IF adapter[r[1]].pc = "waiting" /\ Sent(r[1]) = r THEN Told(r[1], status) ELSE adapter

\* Bug: a node may have several children.
RefusalIfSaturated(b) == IF b.saturated \/ ~ b.context THEN "unavailable_context" ELSE "none"

\* Why the bridge answers a request at once, if it does.
Refusal(b) ==
    IF b.saturated \/ ~ b.context THEN "unavailable_context"
    ELSE IF b.active # NoRequest THEN "duplicate_node"
    ELSE "none"

BridgeStarts(r) ==
    /\ worker' = [worker EXCEPT ![r] = "running"]
    /\ bridge' = [bridge EXCEPT !.controllers = @ \cup {r}, !.active = r]

(***************************************************************************)
(* The adapter.                                                            *)
(***************************************************************************)
AttemptStarts(a) ==
    /\ adapter[a].pc = "idle"
    /\ \A b \in Attempt : b < a => adapter[b].pc = "done"
    /\ adapter' = [adapter EXCEPT ![a].pc = "dispatch"]
    /\ UNCHANGED <<worker, cancelled, bridge>>

PreflightRefuses(a) ==
    /\ adapter[a].pc = "dispatch"
    /\ adapter[a].steer = 0
    /\ adapter' = [adapter EXCEPT ![a].pc = "done", ![a].answer = "preflight"]
    /\ UNCHANGED <<worker, cancelled, bridge>>

\* A request that nobody hears, or that is refused, or whose child starts. The signal is
\* looked at again once the request is out.
RequestUnheard(a) ==
    /\ adapter[a].pc = "dispatch"
    /\ ~ bridge.up
    /\ adapter' = [adapter EXCEPT ![a].pc = "waiting"]
    /\ UNCHANGED <<worker, cancelled, bridge>>

RequestRefused(a) ==
    /\ adapter[a].pc = "dispatch"
    /\ bridge.up
    /\ Refusal(bridge) # "none"
    /\ adapter' = [adapter EXCEPT ![a].pc = "done", ![a].answer = Refusal(bridge)]
    /\ bridge' = Remembered(bridge, Sent(a))
    /\ UNCHANGED <<worker, cancelled>>

\* Bug: only an abort while the adapter waits is heard.
CancelledLate(a) == cancelled

CancelledWith(a) == IF adapter[a].aborted THEN cancelled \cup {Sent(a)} ELSE cancelled

RequestTaken(a) ==
    /\ adapter[a].pc = "dispatch"
    /\ bridge.up
    /\ Refusal(bridge) = "none"
    /\ BridgeStarts(Sent(a))
    /\ cancelled' = CancelledWith(a)
    /\ adapter' = [adapter EXCEPT ![a].pc = "waiting"]

SignalAborts(a) ==
    /\ adapter[a].pc \in {"dispatch", "waiting"}
    /\ ~ adapter[a].aborted
    /\ adapter' = [adapter EXCEPT ![a].aborted = TRUE]
    /\ cancelled' = IF adapter[a].pc = "waiting" /\ Sent(a) \in bridge.controllers
                    THEN cancelled \cup {Sent(a)} ELSE cancelled
    /\ UNCHANGED <<worker, bridge>>

ResponseTimesOut(a) ==
    /\ adapter[a].pc = "waiting"
    /\ adapter' = [adapter EXCEPT ![a].pc = "done", ![a].answer = "transport"]
    /\ UNCHANGED <<worker, cancelled, bridge>>

(***************************************************************************)
(* The child answers, or is detached and goes on by itself. The response   *)
(* goes out before the request is forgotten, but the adapter goes on later.*)
(***************************************************************************)
Forgotten(b, r) ==
    [b EXCEPT !.controllers = @ \ {r}, !.active = IF @ = r THEN NoRequest ELSE @]

WorkerAnswers(r) ==
    /\ worker[r] = "running"
    /\ \E status \in {"completed", "malformed", "failed", "detached"} :
         LET told == IF r \in cancelled THEN "cancelled" ELSE status IN
         /\ worker' = [worker EXCEPT ![r] = status]
         /\ IF r \in bridge.controllers
            THEN /\ Responds(r, told)
                 /\ bridge' = Forgotten(Remembered(bridge, r), r)
            ELSE UNCHANGED <<adapter, bridge>>
    /\ UNCHANGED cancelled

(***************************************************************************)
(* The extension (core.ts).                                                *)
(***************************************************************************)
ContextKnown ==
    /\ bridge.up
    /\ ~ bridge.context
    /\ bridge' = [bridge EXCEPT !.context = TRUE]
    /\ UNCHANGED <<adapter, worker, cancelled>>

\* cancelAll and dispose, at session_shutdown.
BridgeCloses ==
    /\ bridge.up
    /\ cancelled' = cancelled \cup bridge.controllers
    /\ bridge' = [up |-> FALSE, context |-> bridge.context, controllers |-> {}, active |-> NoRequest,
                  settled |-> {}, saturated |-> FALSE]
    /\ UNCHANGED <<adapter, worker>>

DelegationNext ==
    \/ \E a \in Attempt :
          \/ AttemptStarts(a) \/ PreflightRefuses(a) \/ RequestUnheard(a) \/ RequestRefused(a)
          \/ RequestTaken(a) \/ SignalAborts(a) \/ ResponseTimesOut(a)
    \/ \E r \in Request : WorkerAnswers(r)
    \/ ContextKnown
    \/ BridgeCloses

DelegationSpec == DelegationInit /\ [][DelegationNext]_delegationVars

Unhindered == {r \in Request : worker[r] = "running" /\ r \notin cancelled}

(***************************************************************************)
(* A node has one child at a time that nobody has told to stop, although   *)
(* an attempt that timed out leaves its child running, and the scheduler   *)
(* may retry the node at once (prompt-template-bridge.ts, activeNodes).    *)
(***************************************************************************)
OneChildPerNode == Cardinality(Unhindered) <= 1

(***************************************************************************)
(* An abort finds the child: while an aborted attempt waits, the child it  *)
(* waits for has been told, whether the abort came before the request, in  *)
(* between two requests or while the child worked (waitForResponse).       *)
(***************************************************************************)
AbortReachesChild ==
    \A a \in Attempt :
        adapter[a].aborted /\ adapter[a].pc = "waiting" => Sent(a) \notin Unhindered
===============================================================================
