---------------------------- MODULE ApprovalFlow ----------------------------
(***************************************************************************)
(* The daemon's approval pipeline around the broker: every approval gets a *)
(* card in a chat, every button of the card a callback token in SQLite,    *)
(* and a click is looked up, checked, resolved and written back.  Tokens   *)
(* and cards outlive the daemon process; the broker, the card jobs and the *)
(* bookkeeping of the sweep do not.                                        *)
(*                                                                         *)
(* A card job is the async function #handlePendingCreated, cut at the      *)
(* awaits where something else can run: after the chat was resolved, after *)
(* the allowed actors were, and while the platform sends the card.         *)
(*                                                                         *)
(* All kinds are in pending mode, as the daemon sets them up.  The limits  *)
(* on terminal records (7 days, 10000) and on the rows of one sweep (100)  *)
(* are out of reach of the instances, so no sweep prunes records or leaves *)
(* rows for the next one (see LimitAssumption).                            *)
(***************************************************************************)
EXTENDS ApprovalBroker

CONSTANTS
  Offered,   \* the buttons of a card
  Member,    \* the allow-listed users
  Chat,      \* the allow-listed chats
  System,    \* the daemon itself, as an actor
  Grace,     \* stuckIssuedGraceMs
  Respawn,   \* whether codex may be started again within one daemon run
  NoTarget

ASSUME FlowAssumption ==
  /\ Offered \subseteq UiAction
  /\ Member \subseteq Actor /\ System \in Actor \ Member
  /\ Chat \subseteq Target /\ NoTarget \notin Target
  /\ Grace \in Nat /\ Respawn \in BOOLEAN
  /\ Request \subseteq Nonce
ASSUME LimitAssumption == TerminalAge > MaxTime /\ 5 * Cardinality(Id) < 4 * TerminalCount

\* One button per request and action; the request also serves as the random
\* nonce that bindActorPolicy and the tokens of a card share.
Button == Request \X Offered
CardOf(b) == b[1]
ActionOf(b) == b[2]

VARIABLES
  job,         \* per request: where its card job is
  dest,        \* per request: the chat its card goes to
  shown,       \* requests whose card is on the screens of dest
  token,       \* callback_tokens.status, by button (persistent)
  issuedAt,    \* callback_tokens.created_at, by request (persistent)
  click,       \* per button: where the handling of an accepted click is
  by,          \* history: who took the decision for a request, on which card
  flagged,     \* #stuckIssuedApprovalIds
  failedOnce,  \* #transportLostStuckIssuedApprovalIds
  bootGen      \* the connection that was current when the daemon started

rows  == <<token, issuedAt>>
cards == <<job, dest, shown>>
stuck == <<flagged, failedOnce>>
daemonVars == <<cards, rows, click, by, stuck, bootGen>>
flowVars == <<vars, daemonVars>>

Live == {"issued", "bound"}
Retired == {"used", "expired", "revoked"}

FlowTypeOK ==
  /\ TypeOK
  /\ job \in [Request -> {"none", "new", "issued", "sending", "done", "bind_failed", "over"}]
  /\ dest \in [Request -> Target \cup {NoTarget}]
  /\ shown \in SUBSET Request
  /\ token \in [Button -> {"none"} \cup Live \cup Retired]
  /\ issuedAt \in [Request -> Nat]
  /\ click \in [Button -> {"none", "accepted", "marked", "done"}]
  /\ \A r \in Request : by[r] = << >> \/ by[r] \in Request \X Actor \X Target \X UiAction
  /\ flagged \in SUBSET Id /\ failedOnce \in SUBSET Id
  /\ bootGen \in 0..MaxGen

FlowInit ==
  /\ mode = [k \in Kind |-> "pending"] /\ FreshBroker
  /\ job = [r \in Request |-> "none"]
  /\ dest = [r \in Request |-> NoTarget]
  /\ shown = {}
  /\ token = [b \in Button |-> "none"]
  /\ issuedAt = [r \in Request |-> 0]
  /\ click = [b \in Button |-> "none"]
  /\ by = [r \in Request |-> << >>]
  /\ flagged = {} /\ failedOnce = {}
  /\ bootGen = 0

-----------------------------------------------------------------------------
(* Helpers                                                                 *)

\* Timers, socket events and inbound messages wait for every continuation
\* that is ready, the write-back of an accepted click included.
Calm == Quiet /\ \A b \in Button : click[b] # "accepted"

BelongsTo(b, i) == IdOf(CardOf(b)) = i

\* What bindActorPolicy does for the id of r; the caller ignores its result.
BindAttempt(r, actors) ==
  LET i == IdOf(r) IN
  policy' = IF slot[i] # NoRequest /\ status[slot[i]] = "pending" /\ policy[i] = NoPolicy
              THEN [policy EXCEPT ![i] = [allowedActors |-> actors, target |-> dest[r],
                                          callbackNonce |-> r]]
              ELSE policy

-----------------------------------------------------------------------------
(* The card job                                                            *)

\* onPendingCreated starts the job inside the broker's #handle.
ReceiveRequest(r, k) ==
  /\ Calm /\ Handle(r, k)
  /\ job' = [job EXCEPT ![r] = "new"]
  /\ UNCHANGED <<dest, shown, rows, click, by, stuck, bootGen>>

\* No chat, no security policy or no button: the job ends and the approval is
\* left to the sweep.
NoCard(r) ==
  /\ job[r] = "new"
  /\ job' = [job EXCEPT ![r] = "over"]
  /\ UNCHANGED <<vars, dest, shown, rows, click, by, stuck, bootGen>>

\* The chat or the command is not allowed: bind and resolve in one go, as the
\* system, for whatever the id stands for by now.
AutoDecline(r, t) ==
  LET i == IdOf(r)
      q == slot[i]
  IN
  /\ job[r] = "new"
  /\ job' = [job EXCEPT ![r] = "over"]
  /\ dest' = [dest EXCEPT ![r] = t]
  /\ IF q # NoRequest /\ status[q] = "pending" /\ policy[i] = NoPolicy
       THEN /\ policy' = [policy EXCEPT ![i] = [allowedActors |-> {System}, target |-> t,
                                                callbackNonce |-> r]]
            /\ IF now >= created[q] + Ttl
                 THEN CloseRecords({q}, "expired") /\ UNCHANGED <<decision, by>>
                 ELSE /\ Decide(q, "decline")
                      /\ by' = [by EXCEPT ![q] = <<r, System, t, "decline">>]
       ELSE UNCHANGED <<policy, status, decidedAt, decision, prom, by>>
  /\ UNCHANGED <<table, now, conn, slot, kind, created, handler, sent,
                 shown, rows, click, stuck, bootGen>>

\* (mutant) The chat is not kept for the policy.
IssueTokens_ChatLost(r, t) ==
  /\ job[r] = "new" /\ t \in Chat
  /\ job' = [job EXCEPT ![r] = "issued"]
  /\ dest' = dest
  /\ token' = [b \in Button |-> IF CardOf(b) = r THEN "issued" ELSE token[b]]
  /\ issuedAt' = [issuedAt EXCEPT ![r] = now]
  /\ UNCHANGED <<vars, shown, click, by, stuck, bootGen>>

\* #issueCallbackTokens, without a look at the approval's status.
IssueTokens(r, t) ==
  /\ job[r] = "new" /\ t \in Chat
  /\ job' = [job EXCEPT ![r] = "issued"]
  /\ dest' = [dest EXCEPT ![r] = t]
  /\ token' = [b \in Button |-> IF CardOf(b) = r THEN "issued" ELSE token[b]]
  /\ issuedAt' = [issuedAt EXCEPT ![r] = now]
  /\ UNCHANGED <<vars, shown, click, by, stuck, bootGen>>

\* The allowed actors are known: the policy is bound, or not, and the card is
\* handed to the platform in any case.
SendCard(r) ==
  /\ job[r] = "issued"
  /\ BindAttempt(r, Member)
  /\ job' = [job EXCEPT ![r] = "sending"]
  /\ UNCHANGED <<table, now, conn, slot, rec, prom, sent,
                 dest, shown, rows, click, by, stuck, bootGen>>

\* The message appears in the chat, before the call that sends it returns.
CardAppears(r) ==
  /\ job[r] = "sending" /\ r \notin shown
  /\ shown' = shown \cup {r}
  /\ UNCHANGED <<vars, job, dest, rows, click, by, stuck, bootGen>>

\* sendCard throws, possibly after the message was delivered.
SendFails(r) ==
  /\ job[r] = "sending"
  /\ job' = [job EXCEPT ![r] = "over"]
  /\ UNCHANGED <<vars, dest, shown, rows, click, by, stuck, bootGen>>

\* (mutant) The update does not ask for the status it comes from.
BindTokens_NoCas(r) ==
  /\ job[r] = "sending" /\ r \in shown
  /\ job' = [job EXCEPT ![r] = "done"]
  /\ token' = [b \in Button |-> IF CardOf(b) = r THEN "bound" ELSE token[b]]
  /\ flagged' = flagged
  /\ UNCHANGED <<vars, dest, shown, issuedAt, click, by, failedOnce, bootGen>>

\* #bindIssuedCallbackTokens: every row still issued becomes bound; the approval
\* is flagged when one is not.  (The retries change nothing: a row that left
\* "issued" does not come back.)
BindTokens(r) ==
  /\ job[r] = "sending" /\ r \in shown
  /\ job' = [job EXCEPT ![r] = "done"]
  /\ token' = [b \in Button |->
                 IF CardOf(b) = r /\ token[b] = "issued" THEN "bound" ELSE token[b]]
  /\ flagged' = IF \E b \in Button : CardOf(b) = r /\ token[b] # "issued"
                  THEN flagged \cup {IdOf(r)} ELSE flagged
  /\ UNCHANGED <<vars, dest, shown, issuedAt, click, by, failedOnce, bootGen>>

\* A write to SQLite throws after some rows: the exception leaves the loop,
\* passes the retries and the flag by, and ends the job.
BindThrows(r) ==
  /\ job[r] = "sending" /\ r \in shown
  /\ job' = [job EXCEPT ![r] = "bind_failed"]
  /\ \E S \in SUBSET Offered \ {Offered} :
       token' = [b \in Button |->
                   IF CardOf(b) = r /\ ActionOf(b) \in S /\ token[b] = "issued"
                     THEN "bound" ELSE token[b]]
  /\ UNCHANGED <<vars, dest, shown, issuedAt, click, by, stuck, bootGen>>

-----------------------------------------------------------------------------
(* Clicks                                                                  *)

\* (mutant) The chat of the click is not compared with the card's.
Admissible_AnyChat(b, u, t) ==
  /\ CardOf(b) \in shown /\ token[b] = "bound"
  /\ u \in Member /\ t \in Chat

\* What #handleInboundAction checks before it asks the broker: a bound token,
\* clicked in the chat and message the row names, by a user and in a chat on
\* the lists.
Admissible(b, u, t) ==
  /\ CardOf(b) \in shown /\ token[b] = "bound"
  /\ t = dest[CardOf(b)]
  /\ u \in Member /\ t \in Chat

\* The input of resolve: the row's, except for the actor.
ClickOf(b, u) == [actor |-> u, target |-> dest[CardOf(b)],
                  callbackNonce |-> CardOf(b), action |-> ActionOf(b)]

ResultOf(b, u) == ResolveResult(IdOf(CardOf(b)), ClickOf(b, u))

\* (mutant) The result of resolve is not looked at.
ClickAccepted_AnyResult(b, u, t) ==
  LET q == slot[IdOf(CardOf(b))] IN
  /\ Admissible(b, u, t) /\ click[b] = "none"
  /\ IF ResultOf(b, u) = "ok"
       THEN /\ Decide(q, ActionOf(b))
            /\ by' = [by EXCEPT ![q] = <<CardOf(b), u, t, ActionOf(b)>>]
       ELSE UNCHANGED <<status, decidedAt, decision, prom, by>>
  /\ click' = [click EXCEPT ![b] = "accepted"]
  /\ UNCHANGED <<table, now, conn, maps, kind, created, handler, sent,
                 cards, rows, stuck, bootGen>>

\* The broker takes the decision, for the request its id stands for.
ClickAccepted(b, u, t) ==
  LET q == slot[IdOf(CardOf(b))] IN
  /\ Admissible(b, u, t) /\ ResultOf(b, u) = "ok"
  /\ Decide(q, ActionOf(b))
  /\ by' = [by EXCEPT ![q] = <<CardOf(b), u, t, ActionOf(b)>>]
  /\ click' = [click EXCEPT ![b] = "accepted"]
  /\ UNCHANGED <<table, now, conn, maps, kind, created, handler, sent,
                 cards, rows, stuck, bootGen>>

\* The click comes past the deadline.  The broker's other refusals, like those
\* of the daemon, change nothing.
ClickExpires(b, u, t) ==
  /\ Admissible(b, u, t) /\ ResultOf(b, u) = "expires_now"
  /\ CloseRecords({slot[IdOf(CardOf(b))]}, "expired")
  /\ UNCHANGED <<table, now, conn, maps, kind, created, decision, handler, sent,
                 daemonVars>>

\* #markAcceptedApprovalRecord, by compare-and-set or by force.
MarkUsed(b) ==
  /\ click[b] = "accepted"
  /\ click' = [click EXCEPT ![b] = "marked"]
  /\ token' = [token EXCEPT ![b] = "used"]
  /\ UNCHANGED <<vars, cards, issuedAt, by, stuck, bootGen>>

\* The write-back throws: the handler of the click ends there.
MarkFails(b) ==
  /\ click[b] = "accepted"
  /\ click' = [click EXCEPT ![b] = "done"]
  /\ UNCHANGED <<vars, cards, rows, by, stuck, bootGen>>

\* (mutant) The other buttons are not selected by approval.
Finalize_All(b) ==
  /\ Calm /\ click[b] = "marked"
  /\ click' = [click EXCEPT ![b] = "done"]
  /\ token' = [o \in Button |-> IF o # b /\ token[o] = "bound" THEN "revoked" ELSE token[o]]
  /\ UNCHANGED <<vars, cards, issuedAt, by, stuck, bootGen>>

\* #finalizeAcceptedApproval, after the click was acknowledged and the card
\* updated: the approval's other bound rows are revoked.
Finalize(b) ==
  /\ Calm /\ click[b] = "marked"
  /\ click' = [click EXCEPT ![b] = "done"]
  /\ token' = [o \in Button |->
                 IF o # b /\ BelongsTo(o, IdOf(CardOf(b))) /\ token[o] = "bound"
                   THEN "revoked" ELSE token[o]]
  /\ UNCHANGED <<vars, cards, issuedAt, by, stuck, bootGen>>

-----------------------------------------------------------------------------
(* The sweep and the process                                               *)

\* (mutant) Only bound rows expire.
Expirable_BoundOnly == {b \in Button : token[b] = "bound" /\ created[CardOf(b)] + Ttl < now}

\* pruneExpired's rows: live, and past the approval's deadline.
Expirable == {b \in Button : token[b] \in Live /\ created[CardOf(b)] + Ttl < now}

\* revokeStuckIssued's rows: of a flagged approval, and older than the grace.
StuckRows ==
  {b \in Button \ Expirable :
     token[b] = "issued" /\ IdOf(CardOf(b)) \in flagged /\ issuedAt[CardOf(b)] + Grace < now}

\* PruneSweep.run: tokens, then the approvals of stuck cards, then expirePending.
\* An approval failed once for its rows is not failed again; a flag goes as soon
\* as a sweep revokes none of its rows.
Sweep ==
  LET hit  == {IdOf(CardOf(b)) : b \in StuckRows}
      lost == {r \in LivePending : IdOf(r) \in hit \ failedOnce}
      old  == {r \in LivePending \ lost : created[r] + SweepAge <= now}
  IN
  /\ Calm
  /\ token' = [b \in Button |-> IF b \in Expirable THEN "expired"
                                ELSE IF b \in StuckRows THEN "revoked" ELSE token[b]]
  /\ flagged' = flagged \cap hit
  /\ failedOnce' = (failedOnce \cup hit) \ (flagged \ hit)
  /\ status' = [r \in Request |-> IF r \in lost THEN "transport_lost"
                                  ELSE IF r \in old THEN "expired" ELSE status[r]]
  /\ decidedAt' = [r \in Request |-> IF r \in lost \cup old THEN now ELSE decidedAt[r]]
  /\ Settle(lost \cup old, [r \in lost \cup old |-> DefaultReject[kind[r]]])
  /\ UNCHANGED <<table, now, conn, maps, kind, created, decision, handler, sent,
                 cards, issuedAt, click, by, bootGen>>

\* The process ends, whatever it was doing, and the next one starts: a new
\* broker, no jobs, and every live token revoked before anything is received.
DaemonRestarts ==
  /\ gen < MaxGen
  /\ open' = FALSE /\ lostFired' = FALSE /\ halted' = FALSE
  /\ slot' = [i \in Id |-> NoRequest] /\ policy' = [i \in Id |-> NoPolicy]
  /\ status' = [r \in Request |-> IF status[r] = "pending" THEN "none" ELSE status[r]]
  /\ phase' = [r \in Request |-> IF phase[r] = "waiting" THEN "dropped" ELSE phase[r]]
  /\ unwinding' = {}
  /\ job' = [r \in Request |-> IF job[r] = "none" THEN "none" ELSE "over"]
  /\ click' = [b \in Button |-> "none"]
  /\ token' = [b \in Button |-> IF token[b] \in Live THEN "revoked" ELSE token[b]]
  /\ flagged' = {} /\ failedOnce' = {}
  /\ bootGen' = gen
  /\ UNCHANGED <<table, now, gen, kind, created, decidedAt, decision, handler, outcome,
                 wire, dest, shown, issuedAt, by>>

\* The supervisor starts codex, a first time in this run or, with Respawn, again.
CodexStarts ==
  /\ Calm /\ (Respawn \/ gen = bootGen)
  /\ Reattach
  /\ UNCHANGED daemonVars

\* The broker's, the client's and the supervisor's steps.
BrokerSteps ==
  /\ \/ \E r \in Request : Unwind(r) \/ (Calm /\ ClientTimeout(r))
     \/ Calm /\ (TransportCloses \/ DaemonStops \/ GenerationFails \/ Tick)
  /\ UNCHANGED daemonVars

-----------------------------------------------------------------------------
JobNext ==
  \E r \in Request :
    \/ \E k \in Kind : ReceiveRequest(r, k)
    \/ NoCard(r)
    \/ \E t \in Target : AutoDecline(r, t) \/ IssueTokens(r, t)
    \/ SendCard(r)
    \/ CardAppears(r)
    \/ SendFails(r)
    \/ BindTokens(r)
    \/ BindThrows(r)

ClickNext ==
  \E b \in Button :
    \/ \E u \in Actor, t \in Target : ClickAccepted(b, u, t) \/ ClickExpires(b, u, t)
    \/ MarkUsed(b)
    \/ MarkFails(b)
    \/ Finalize(b)

FlowNext == JobNext \/ ClickNext \/ Sweep \/ DaemonRestarts \/ CodexStarts \/ BrokerSteps

FlowSpec == FlowInit /\ [][FlowNext]_flowVars

\* The clock, the prune timer and ready continuations; nobody has to click, and
\* the platform need not answer.
FlowFairness ==
  /\ WF_flowVars(~halted /\ BrokerSteps /\ Tick)
  /\ WF_flowVars(~halted /\ Sweep)
  /\ \A r \in Request : WF_flowVars(Unwind(r) /\ UNCHANGED daemonVars)
  /\ \A b \in Button : WF_flowVars(MarkUsed(b) \/ MarkFails(b))

FairFlowSpec == FlowSpec /\ FlowFairness
-----------------------------------------------------------------------------
(* Properties                                                              *)

\* A user's decision is taken with the request's own card, by a listed user in
\* the chat the card was sent to, and is what the button says; the daemon itself
\* only declines.
ClickDecidesItsOwnRequest ==
  \A r \in Request : decision[r] # "none" =>
    LET taken == by[r] IN
    /\ taken[4] = decision[r]
    /\ IF taken[2] = System
         THEN decision[r] = "decline"
         ELSE /\ taken[1] = r /\ r \in shown
              /\ taken[2] \in Member
              /\ taken[3] = dest[r] /\ dest[r] \in Chat

\* The table of tokens tells what was decided: a used token is that of the
\* button the decision was taken with, so that a card has at most one.
UsedTokenIsTheDecision ==
  \A b \in Button :
    token[b] = "used" => by[CardOf(b)] # << >> /\ by[CardOf(b)][1] = CardOf(b)
                           /\ decision[CardOf(b)] = ActionOf(b)

\* An approval that waits for its card can be answered with it: once the card
\* is sent, its buttons work until the approval is closed.
CardStaysUsable ==
  \A r \in LivePending : job[r] = "done" /\ IdOf(r) \notin flagged =>
    /\ \A b \in Button : CardOf(b) = r => token[b] = "bound"
    /\ policy[IdOf(r)] # NoPolicy /\ policy[IdOf(r)].callbackNonce = r

\* A token that was used, expired or revoked stays that way: a retry, a late
\* card or a restart does not bring a button back to life.
TokenStaysRetired == \A b \in Button : token[b] \in Retired => token'[b] = token[b]
RetiredTokensAreFinal == [][TokenStaysRetired]_flowVars

\* Why: a row is written once, by a request's only job, and nothing but the
\* write-back touches the row of a click the broker has accepted.
RowInv ==
  /\ token \in [Button -> {"none"} \cup Live \cup Retired]
  /\ click \in [Button -> {"none", "accepted", "marked", "done"}]
  /\ job \in [Request -> {"none", "new", "issued", "sending", "done", "bind_failed", "over"}]
  /\ phase \in [Request -> {"idle", "waiting", "answered", "dropped"}]
  /\ \A r \in Request : phase[r] = "idle" => job[r] = "none"
  /\ \A b \in Button : job[CardOf(b)] \in {"none", "new"} => token[b] = "none"
  /\ \A b \in Button : click[b] = "accepted" => token[b] = "bound"

\* Every button dies in the end, even if its card was never sent, the click was
\* never written back or its approval was forgotten.
EveryTokenRetires ==
  \A b \in Button : token[b] \in Live ~> token[b] \in Retired \/ halted

\* What the plan says of a failed bind: the approval is marked for the sweep
\* that revokes its rows and fails it.
BindFailureIsFlagged ==
  \A r \in LivePending : job[r] = "bind_failed" => IdOf(r) \in flagged
=============================================================================
