--------------------------- MODULE ApprovalBroker ---------------------------
(***************************************************************************)
(* The approval broker together with the server-request dispatch of the    *)
(* AppServerClient it is attached to.  Codex (the app-server subprocess)   *)
(* sends requests over a stdio connection; every connection is a           *)
(* generation with a client of its own, and the broker survives from one   *)
(* generation to the next.  A request is answered through a completion     *)
(* promise that a user decision, a registered handler, the expiry sweep    *)
(* and the loss of the connection race to settle.                          *)
(*                                                                         *)
(* JavaScript runs to completion: a broker method is one action.  The      *)
(* continuation that follows a settled promise (delete the entry, put the  *)
(* answer on the wire) is an action of its own, Unwind, since other        *)
(* promise continuations may run before it; timers and socket events may   *)
(* not, they wait until nothing is left to unwind.                         *)
(***************************************************************************)
EXTENDS Naturals, FiniteSets, Sequences, DecisionMapper

CONSTANTS
  Id,             \* JSON-RPC ids codex gives its requests
  MaxGen,         \* bound: connections made in a behaviour
  Kind,           \* the kinds of request that are sent
  Actor, Target, Nonce,  \* who clicks, in which chat, with which card
  SweepAge,       \* expirePending's maxAgeMs
  Ttl,            \* approvalTtlMs
  HandlerTimeout, \* serverRequestHandlerTimeoutMs of the client
  TerminalAge,    \* pruneTerminalRecords' maxAgeMs
  TerminalCount,  \* its maxCount
  BatchSize,      \* its batchSize
  MaxTime,        \* bound on the clock
  NoRequest, NoPolicy

Generation == 1..MaxGen

\* Codex numbers its requests from zero in every subprocess, so a request is
\* told apart by the connection and the id.
Request == Generation \X Id
GenOf(r) == r[1]
IdOf(r) == r[2]

Policy == [allowedActors : SUBSET Actor, target : Target, callbackNonce : Nonce]
Click == [actor : Actor, target : Target, callbackNonce : Nonce, action : UiAction]

ASSUME KindAssumption == Kind \subseteq ApprovalKind
ASSUME TimeAssumption ==
  /\ SweepAge \in Nat /\ Ttl \in Nat \ {0} /\ HandlerTimeout \in Nat
  /\ TerminalAge \in Nat /\ MaxTime \in Nat
  /\ Ttl <= HandlerTimeout
ASSUME BoundAssumption ==
  MaxGen \in Nat /\ TerminalCount \in Nat /\ BatchSize \in Nat
ASSUME NoneAssumption == NoRequest \notin Request /\ NoPolicy \notin Policy

VARIABLES
  mode,       \* per kind: the dispatch table's mode
  now,        \* the clock
  gen,        \* the current connection; 0 is the placeholder client
  open,       \* that client is neither closed nor stopped
  lostFired,  \* #transportLostFired
  halted,     \* the daemon is stopping or the supervisor gave up
  slot,       \* #pending and #pendingById, by id
  policy,     \* #actorPolicies, by id
  kind,       \* per request: its method
  phase,      \* per request: the client's view of it
  status,     \* per request: the approval record's status
  created,    \* per request: record.createdAt
  decidedAt,  \* per request: record.decidedAt
  decision,   \* per request: the user action in record.decision
  handler,    \* per request: the background handler of handler mode
  outcome,    \* per request: what the completion promise was settled with
  unwinding,  \* settled requests whose continuation has not run
  wire        \* per request: the answers sent to codex

table == <<mode>>
conn  == <<gen, open, lostFired, halted>>
maps  == <<slot, policy>>
rec   == <<kind, status, created, decidedAt, decision, handler>>
prom  == <<outcome, unwinding>>
sent  == <<phase, wire>>
vars  == <<table, now, conn, maps, rec, prom, sent>>

Terminal == {"resolved", "expired", "transport_lost"}

TypeOK ==
  /\ mode \in [Kind -> {"default-reject", "handler", "pending"}]
  /\ now \in Nat
  /\ gen \in 0..MaxGen
  /\ open \in BOOLEAN /\ lostFired \in BOOLEAN /\ halted \in BOOLEAN
  /\ slot \in [Id -> Request \cup {NoRequest}]
  /\ policy \in [Id -> Policy \cup {NoPolicy}]
  /\ kind \in [Request -> Kind \cup {"none"}]
  /\ phase \in [Request -> {"idle", "waiting", "answered", "dropped"}]
  /\ status \in [Request -> {"none", "pending"} \cup Terminal]
  /\ created \in [Request -> Nat]
  /\ decidedAt \in [Request -> Nat]
  /\ decision \in [Request -> UiAction \cup {"none"}]
  /\ handler \in [Request -> {"none", "running", "done"}]
  /\ outcome \in [Request -> Response \cup {"unsettled"}]
  /\ unwinding \in SUBSET Request
  /\ wire \in [Request -> Seq(Response)]

\* A broker on the placeholder client the daemon constructs it with, which
\* never opens a connection.
FreshBroker ==
  /\ now = 0
  /\ gen = 0 /\ open = FALSE /\ lostFired = FALSE /\ halted = FALSE
  /\ slot = [i \in Id |-> NoRequest]
  /\ policy = [i \in Id |-> NoPolicy]
  /\ kind = [r \in Request |-> "none"]
  /\ phase = [r \in Request |-> "idle"]
  /\ status = [r \in Request |-> "none"]
  /\ created = [r \in Request |-> 0]
  /\ decidedAt = [r \in Request |-> 0]
  /\ decision = [r \in Request |-> "none"]
  /\ handler = [r \in Request |-> "none"]
  /\ outcome = [r \in Request |-> "unsettled"]
  /\ unwinding = {}
  /\ wire = [r \in Request |-> << >>]

Init == mode = [k \in Kind |-> "default-reject"] /\ FreshBroker

-----------------------------------------------------------------------------
(* Helpers                                                                 *)

\* Timers and socket events run only when no continuation is left.
Quiet == unwinding = {}

\* The client of r's connection still writes what it is given.
CanSend(r) == open /\ GenOf(r) = gen

\* (mutant) The sweeps do not look at the status.
LivePending_AnyStatus == {r \in Request : slot[IdOf(r)] = r /\ status[r] # "none"}

\* The records the sweeps iterate over: `#pending` with status "pending".
LivePending == {r \in Request : slot[IdOf(r)] = r /\ status[r] = "pending"}

\* settleOnce for every request of S: the first settlement wins.
Settle(S, value) ==
  LET won == {r \in S : outcome[r] = "unsettled"}
  IN  /\ outcome' = [r \in Request |-> IF r \in won THEN value[r] ELSE outcome[r]]
      /\ unwinding' = unwinding \cup won

\* The loop body shared by expiry and transport loss: flip the record, then
\* settle with the method's default reject.
CloseRecords(S, terminal) ==
  /\ status' = [r \in Request |-> IF r \in S THEN terminal ELSE status[r]]
  /\ decidedAt' = [r \in Request |-> IF r \in S THEN now ELSE decidedAt[r]]
  /\ Settle(S, [r \in S |-> DefaultReject[kind[r]]])

\* (mutant) A dispatch whose connection is gone is left waiting.
Deliver_OpenOnly(r, v) ==
  /\ phase' = [phase EXCEPT ![r] = IF CanSend(r) THEN "answered" ELSE @]
  /\ wire' = [wire EXCEPT ![r] = IF CanSend(r) THEN Append(@, v) ELSE @]

\* The value v reaches the client's dispatch of r, which answers or, when the
\* connection is gone, drops it.
Deliver(r, v) ==
  /\ phase' = [phase EXCEPT ![r] = IF CanSend(r) THEN "answered" ELSE "dropped"]
  /\ wire' = [wire EXCEPT ![r] = IF CanSend(r) THEN Append(@, v) ELSE @]

-----------------------------------------------------------------------------
(* The dispatch table: set up while the daemon starts, before codex is     *)
(* spawned.                                                                *)

RegisterHandler(k) ==
  /\ gen = 0 /\ mode[k] # "handler"
  /\ mode' = [mode EXCEPT ![k] = "handler"]
  /\ UNCHANGED <<now, conn, maps, rec, prom, sent>>

EnablePendingMode(k) ==
  /\ gen = 0 /\ mode[k] # "pending"
  /\ mode' = [mode EXCEPT ![k] = "pending"]
  /\ UNCHANGED <<now, conn, maps, rec, prom, sent>>

DisablePendingMode(k) ==
  /\ gen = 0 /\ mode[k] # "default-reject"
  /\ mode' = [mode EXCEPT ![k] = "default-reject"]
  /\ UNCHANGED <<now, conn, maps, rec, prom, sent>>

-----------------------------------------------------------------------------
(* Requests                                                                *)

\* dispatchServerRequest and #handle: in default-reject mode the answer is
\* already there; otherwise an entry is created in both maps, over whatever
\* they held for the id, and handler mode starts the handler.
Handle(r, k) ==
  /\ open /\ GenOf(r) = gen /\ phase[r] = "idle"
  /\ now + HandlerTimeout <= MaxTime
  /\ kind' = [kind EXCEPT ![r] = k]
  /\ created' = [created EXCEPT ![r] = now]
  /\ phase' = [phase EXCEPT ![r] = "waiting"]
  /\ IF mode[k] = "default-reject"
       THEN /\ outcome' = [outcome EXCEPT ![r] = DefaultReject[k]]
            /\ unwinding' = unwinding \cup {r}
            /\ UNCHANGED <<slot, status, handler>>
       ELSE /\ slot' = [slot EXCEPT ![IdOf(r)] = r]
            /\ status' = [status EXCEPT ![r] = "pending"]
            /\ handler' = [handler EXCEPT ![r] =
                             IF mode[k] = "handler" THEN "running" ELSE "none"]
            /\ UNCHANGED prom
  /\ UNCHANGED <<table, now, conn, policy, decidedAt, decision, wire>>

\* The background handler returns a result or throws; a late one loses.
HandlerSettles(r, v) ==
  /\ handler[r] = "running"
  /\ handler' = [handler EXCEPT ![r] = "done"]
  /\ Settle({r}, [q \in {r} |-> v])
  /\ UNCHANGED <<table, now, conn, maps, kind, status, created, decidedAt, decision, sent>>

\* (mutant) The completion is returned without being awaited.
Unwind_NotAwaited(r) ==
  /\ r \in unwinding \/ phase[r] = "waiting"
  /\ unwinding' = unwinding \ {r}
  /\ slot' = IF status[r] = "pending" THEN [slot EXCEPT ![IdOf(r)] = NoRequest] ELSE slot
  /\ IF phase[r] = "waiting" THEN Deliver(r, outcome[r]) ELSE UNCHANGED sent
  /\ UNCHANGED <<table, now, conn, policy, rec, outcome>>

\* What follows the completion in #handle and in dispatchServerRequest: an
\* entry still "pending" (the handler won) leaves both maps, and the value is
\* answered unless the client's own timeout already did.
Unwind(r) ==
  /\ r \in unwinding
  /\ unwinding' = unwinding \ {r}
  /\ slot' = IF status[r] = "pending" THEN [slot EXCEPT ![IdOf(r)] = NoRequest] ELSE slot
  /\ IF phase[r] = "waiting" THEN Deliver(r, outcome[r]) ELSE UNCHANGED sent
  /\ UNCHANGED <<table, now, conn, policy, rec, outcome>>

\* (mutant) The timer is not cleared by an answer.
ClientTimeout_NotCleared(r) ==
  /\ Quiet /\ phase[r] \in {"waiting", "answered"} /\ now >= created[r] + HandlerTimeout
  /\ Deliver(r, "err_handler")
  /\ UNCHANGED <<table, now, conn, maps, rec, prom>>

\* The race in dispatchServerRequest is lost to its timer.
ClientTimeout(r) ==
  /\ Quiet /\ phase[r] = "waiting" /\ now >= created[r] + HandlerTimeout
  /\ Deliver(r, "err_handler")
  /\ UNCHANGED <<table, now, conn, maps, rec, prom>>

-----------------------------------------------------------------------------
(* Decisions                                                               *)

\* bindActorPolicy: the first policy stays; a different one is refused.
BindActorPolicy(i, p) ==
  /\ slot[i] # NoRequest /\ status[slot[i]] = "pending"
  /\ policy[i] = NoPolicy
  /\ policy' = [policy EXCEPT ![i] = p]
  /\ UNCHANGED <<table, now, conn, slot, rec, prom, sent>>

\* (mutant) No wall-clock check before the sweep has come.
ResolveResult_NoDeadline(i, c) ==
  LET r == slot[i] IN
  IF r = NoRequest THEN "unknown_approval_id"
  ELSE IF status[r] # "pending" THEN "already_resolved"
  ELSE IF policy[i] = NoPolicy THEN "binding_required"
  ELSE IF c.actor \notin policy[i].allowedActors THEN "wrong_actor"
  ELSE IF ~Supported(kind[r], c.action) THEN "unsupported_decision"
  ELSE "ok"

\* resolve's checks, in its order.
ResolveResult(i, c) ==
  LET r == slot[i] IN
  CASE r = NoRequest                               -> "unknown_approval_id"
    [] r # NoRequest /\ status[r] = "resolved"       -> "already_resolved"
    [] r # NoRequest /\ status[r] = "expired"        -> "expired"
    [] r # NoRequest /\ status[r] = "transport_lost" -> "transport_lost"
    [] OTHER ->
       IF now >= created[r] + Ttl                     THEN "expires_now"
       ELSE IF policy[i] = NoPolicy                   THEN "binding_required"
       ELSE IF c.actor \notin policy[i].allowedActors THEN "wrong_actor"
       ELSE IF c.target # policy[i].target            THEN "wrong_target"
       ELSE IF c.callbackNonce # policy[i].callbackNonce THEN "stale_callback"
       ELSE IF ~Supported(kind[r], c.action)          THEN "unsupported_decision"
       ELSE "ok"

\* A click past the deadline expires the record instead of deciding it.
ResolveExpires(i, c) ==
  /\ ResolveResult(i, c) = "expires_now"
  /\ CloseRecords({slot[i]}, "expired")
  /\ UNCHANGED <<table, now, conn, maps, kind, created, decision, handler, sent>>

\* The decision is recorded, and reported as accepted, whether or not its
\* settlement wins.  The other results of resolve change nothing.
Decide(r, a) ==
  /\ decision' = [decision EXCEPT ![r] = a]
  /\ decidedAt' = [decidedAt EXCEPT ![r] = now]
  /\ status' = [status EXCEPT ![r] = "resolved"]
  /\ Settle({r}, [q \in {r} |-> WireDecision(kind[r], a)])

ResolveAccepts(i, c) ==
  /\ ResolveResult(i, c) = "ok"
  /\ Decide(slot[i], c.action)
  /\ UNCHANGED <<table, now, conn, maps, kind, created, handler, sent>>

\* (mutant) The cutoff is compared the wrong way round.
ExpirePending_Young ==
  /\ LET young == {r \in LivePending : created[r] + SweepAge >= now} IN
       /\ young # {}
       /\ CloseRecords(young, "expired")
  /\ UNCHANGED <<table, now, conn, maps, kind, created, decision, handler, sent>>

\* expirePending, on the daemon's prune timer.
ExpirePending ==
  /\ LET old == {r \in LivePending : created[r] + SweepAge <= now} IN
       /\ old # {}
       /\ CloseRecords(old, "expired")
  /\ UNCHANGED <<table, now, conn, maps, kind, created, decision, handler, sent>>

\* failPendingApprovalAsTransportLost: one approval whose card is gone.
FailOne(i) ==
  /\ slot[i] # NoRequest /\ status[slot[i]] = "pending"
  /\ CloseRecords({slot[i]}, "transport_lost")
  /\ UNCHANGED <<table, now, conn, maps, kind, created, decision, handler, sent>>

\* The records pruneTerminalRecords may delete, as the ids they are kept under.
TerminalIds == {i \in Id : slot[i] # NoRequest /\ status[slot[i]] \in Terminal}
AgedIds == {i \in TerminalIds : now - decidedAt[slot[i]] >= TerminalAge}

\* How many one call deletes: all that are aged, or as many as exceed the
\* count, whichever is more, up to a batch.
PruneCount ==
  LET over == IF Cardinality(TerminalIds) > TerminalCount
                THEN Cardinality(TerminalIds) - TerminalCount ELSE 0
      want == IF Cardinality(AgedIds) > over THEN Cardinality(AgedIds) ELSE over
  IN  IF want > BatchSize THEN BatchSize ELSE want

\* It deletes the oldest ones, with their policies.
PruneTerminalRecords(D) ==
  /\ D # {} /\ D \subseteq TerminalIds
  /\ Cardinality(D) = PruneCount
  /\ \A i \in D, j \in TerminalIds \ D : decidedAt[slot[i]] <= decidedAt[slot[j]]
  /\ slot' = [i \in Id |-> IF i \in D THEN NoRequest ELSE slot[i]]
  /\ policy' = [i \in Id |-> IF i \in D THEN NoPolicy ELSE policy[i]]
  /\ UNCHANGED <<table, now, conn, rec, prom, sent>>

-----------------------------------------------------------------------------
(* Connections                                                             *)

\* failPendingAsTransportLost: once per generation.
FailPendingAsTransportLost ==
  IF lostFired
    THEN UNCHANGED <<lostFired, status, decidedAt, prom>>
    ELSE lostFired' = TRUE /\ CloseRecords(LivePending, "transport_lost")

\* (mutant) The supervisor forgets to fail what is pending.
TransportCloses_Silent ==
  /\ Quiet /\ open
  /\ open' = FALSE
  /\ UNCHANGED <<table, now, gen, lostFired, halted, maps, rec, prom, sent>>

\* The subprocess exits: the client is closed and the supervisor, unless it
\* was told to stop, fails what is pending.
TransportCloses ==
  /\ Quiet /\ open
  /\ open' = FALSE
  /\ IF halted THEN UNCHANGED <<lostFired, status, decidedAt, prom>>
               ELSE FailPendingAsTransportLost
  /\ UNCHANGED <<table, now, gen, halted, maps, kind, created, decision, handler, sent>>

\* Daemon.stop: pending requests are failed while the client still writes, and
\* the supervisor is stopped later.
DaemonStops ==
  /\ ~halted
  /\ halted' = TRUE
  /\ FailPendingAsTransportLost
  /\ UNCHANGED <<table, now, gen, open, maps, kind, created, decision, handler, sent>>

\* A generation whose start fails is torn down without telling the broker.
GenerationFails ==
  /\ Quiet /\ open /\ ~halted
  /\ open' = FALSE /\ halted' = TRUE
  /\ UNCHANGED <<table, now, gen, lostFired, maps, rec, prom, sent>>

\* (mutant) The loss flag is not reset for the new generation.
Reattach_FlagKept ==
  /\ Quiet /\ ~open /\ ~halted /\ gen < MaxGen
  /\ gen' = gen + 1 /\ open' = TRUE
  /\ UNCHANGED <<table, now, lostFired, halted, maps, rec, prom, sent>>

\* Supervisor.#spawnFresh: a new client, to which the broker moves with the
\* maps it has.
Reattach ==
  /\ Quiet /\ ~open /\ ~halted /\ gen < MaxGen
  /\ gen' = gen + 1 /\ open' = TRUE /\ lostFired' = FALSE
  /\ UNCHANGED <<table, now, halted, maps, rec, prom, sent>>

Tick ==
  /\ Quiet /\ now < MaxTime
  /\ now' = now + 1
  /\ UNCHANGED <<table, conn, maps, rec, prom, sent>>

-----------------------------------------------------------------------------
BootNext ==
  \E k \in Kind : RegisterHandler(k) \/ EnablePendingMode(k) \/ DisablePendingMode(k)

RequestNext ==
  \E r \in Request :
    \/ \E k \in Kind : Handle(r, k)
    \/ \E v \in {"tool_result", "err_handler"} : HandlerSettles(r, v)
    \/ Unwind(r)
    \/ ClientTimeout(r)

DecisionNext ==
  \/ \E i \in Id :
       \/ \E p \in Policy : BindActorPolicy(i, p)
       \/ \E c \in Click : ResolveExpires(i, c) \/ ResolveAccepts(i, c)
       \/ FailOne(i)
  \/ ExpirePending
  \/ \E D \in SUBSET Id : PruneTerminalRecords(D)

ConnectionNext ==
  TransportCloses \/ DaemonStops \/ GenerationFails \/ Reattach \/ Tick

Next == BootNext \/ RequestNext \/ DecisionNext \/ ConnectionNext

Spec == Init /\ [][Next]_vars

\* Continuations run and, until the daemon is told to stop, the clock moves,
\* the prune interval and the client's timers fire; codex, users and handlers
\* owe nothing.
Fairness ==
  /\ WF_vars(~halted /\ Tick)
  /\ WF_vars(~halted /\ ExpirePending)
  /\ \A r \in Request : WF_vars(Unwind(r)) /\ WF_vars(~halted /\ ClientTimeout(r))

FairSpec == Spec /\ Fairness
-----------------------------------------------------------------------------
(* Properties                                                              *)

\* An approval nobody has settled is always found under its id: no later
\* request, sweep or clean-up of another request makes it unreachable for the
\* click, the sweep and the loss handling that are to settle it.
LiveEntriesIndexed ==
  \A r \in Request :
    status[r] = "pending" /\ outcome[r] = "unsettled" => slot[IdOf(r)] = r

\* A decision reported as accepted is what codex is told, and the only thing:
\* it is on its way or on the wire, unless the daemon is going down.  (Not for
\* handler mode, see AcceptedDecisionWins.)
DecisionReachesCodex ==
  \A r \in Request :
    decision[r] # "none" /\ handler[r] = "none" =>
      LET answer == WireDecision(kind[r], decision[r]) IN
      \/ r \in unwinding /\ phase[r] = "waiting" /\ outcome[r] = answer
      \/ wire[r] = << answer >>
      \/ halted /\ phase[r] = "dropped"

\* Codex is told to go on only with the grant a user decided for that request.
GrantsNeedConsent ==
  \A r \in Request : \A n \in DOMAIN wire[r] :
    wire[r][n] \in Grants =>
      decision[r] # "none" /\ wire[r][n] = WireDecision(kind[r], decision[r])

\* The same claim without the exception: resolve's "ok" means its decision is
\* the one that settled the wire.
AcceptedDecisionWins ==
  \A r \in Request :
    decision[r] # "none" => outcome[r] = WireDecision(kind[r], decision[r])

\* What is decided stays decided: whatever sweeps, losses, late handlers and
\* second clicks follow, the record and the settled outcome never change.
StaysDecided(r) ==
  /\ status[r] \in Terminal =>
       status'[r] = status[r] /\ decidedAt'[r] = decidedAt[r] /\ decision'[r] = decision[r]
  /\ outcome[r] # "unsettled" => outcome'[r] = outcome[r]

DecidedIsFinal == [][\A r \in Request : StaysDecided(r)]_vars

\* Every request codex waits on is answered or dropped with its connection,
\* or the daemon is going down.
EveryRequestEnds ==
  \A r \in Request : phase[r] = "waiting" ~> phase[r] # "waiting" \/ halted

\* No approval stays open: with the sweep running, its record is decided or
\* removed, even when no card was sent and no timer of the client fires.
EveryApprovalCloses ==
  \A r \in Request : r \in LivePending ~> r \notin LivePending \/ halted

\* The contract with codex; a decision consents to the answer it maps to.
Contract ==
  INSTANCE RequestContract WITH
    Requests <- Request, Answers <- Response, Granting <- Grants,
    stage <- phase, reply <- wire,
    consent <- [r \in Request |->
                  IF decision[r] = "none" THEN {}
                  ELSE {WireDecision(kind[r], decision[r])}]

ImplementsContract == Contract!CSpec
-----------------------------------------------------------------------------
(* The inductive invariant behind the safety properties                    *)

\* The loss flag is down while a connection that may still be lost is open.
FlagInv == lostFired /\ open => halted

\* What a map holds was asked for, under its own id, and has a record.
SlotInv ==
  \A i \in Id : slot[i] # NoRequest =>
    IdOf(slot[i]) = i /\ phase[slot[i]] # "idle" /\ status[slot[i]] # "none"

\* How the fields of one request hang together: before it is asked ...
IdleInv(r) ==
  phase[r] = "idle" =>
    /\ status[r] = "none" /\ decision[r] = "none" /\ handler[r] = "none"
    /\ outcome[r] = "unsettled" /\ r \notin unwinding /\ wire[r] = << >>

\* ... in the broker: only a pending record is unsettled, a pending record that
\* is settled was settled by its handler, a decision is a resolved record's ...
RecordInv(r) ==
  /\ phase[r] # "idle" => kind[r] \in Kind
  /\ phase[r] # "idle" /\ outcome[r] = "unsettled" => status[r] = "pending"
  /\ status[r] = "pending" /\ outcome[r] # "unsettled" => handler[r] = "done"
  /\ decision[r] # "none" <=> status[r] = "resolved"
  /\ outcome[r] \in Grants =>
       decision[r] # "none" /\ outcome[r] = WireDecision(kind[r], decision[r])

\* ... towards the connection: what is unsettled belongs to the current one,
\* which is open unless all is going down, and is found under its id ...
LiveInv(r) ==
  /\ phase[r] # "idle" /\ outcome[r] = "unsettled" =>
       slot[IdOf(r)] = r /\ GenOf(r) = gen /\ (open \/ halted)
  /\ r \in unwinding => outcome[r] # "unsettled" /\ GenOf(r) = gen

\* ... and on the wire: nothing, the settled outcome, or the client's timeout,
\* which comes after the deadline for decisions.
WireInv(r) ==
  /\ phase[r] # "answered" => wire[r] = << >>
  /\ phase[r] = "answered" =>
       \/ wire[r] = << "err_handler" >>
       \/ outcome[r] # "unsettled" /\ wire[r] = << outcome[r] >>
  /\ phase[r] \in {"answered", "dropped"} /\ outcome[r] = "unsettled" =>
       now >= created[r] + HandlerTimeout

\* DecisionReachesCodex, with what keeps the connection until the answer left.
DecisionInv(r) ==
  decision[r] # "none" /\ handler[r] = "none" =>
    LET answer == WireDecision(kind[r], decision[r]) IN
    \/ r \in unwinding /\ phase[r] = "waiting" /\ outcome[r] = answer /\ (open \/ halted)
    \/ wire[r] = << answer >>
    \/ halted /\ phase[r] = "dropped"

RequestInv(r) == IdleInv(r) /\ RecordInv(r) /\ LiveInv(r) /\ WireInv(r) /\ DecisionInv(r)

\* Implies LiveEntriesIndexed, DecisionReachesCodex and GrantsNeedConsent and is
\* preserved by every step.
IndInv == TypeOK /\ FlagInv /\ SlotInv /\ \A r \in Request : RequestInv(r)
=============================================================================
