------------------------- MODULE ApprovalFlowProofs -------------------------
(***************************************************************************)
(* What is proved of ApprovalFlow for every value of its constants.  That  *)
(* rows stay retired, that every variable keeps its type and that codex is *)
(* granted only what was decided holds even if codex is started again      *)
(* within a run of the daemon; what a click decides, and so whose consent  *)
(* a grant is, is proved for one codex per run (the respawn instance has   *)
(* the counterexample).                                                    *)
(***************************************************************************)
EXTENDS ApprovalFlow, ApprovalBrokerProofs

\* A button is a card's.
LEMMA ButtonParts == ASSUME NEW b \in Button PROVE CardOf(b) \in Request
BY DEF Button, CardOf

\* No row is written before a request arrives.
LEMMA RowInit == FlowInit => RowInv
BY ButtonParts DEF FlowInit, FreshBroker, RowInv

\* The steps of the broker, the client and the supervisor leave jobs and rows
\* alone, and make no request idle again.
LEMMA BrokerStepsRow == RowInv /\ BrokerSteps => RowInv'
<1> SUFFICES ASSUME RowInv, BrokerSteps PROVE RowInv'
  OBVIOUS
<1>1. UNCHANGED daemonVars
  BY DEF BrokerSteps
<1>2. /\ phase' \in [Request -> {"idle", "waiting", "answered", "dropped"}]
      /\ \A r \in Request : phase'[r] = "idle" => phase[r] = "idle"
  <2>1. ASSUME NEW r \in Request, Unwind(r) PROVE <1>2!1 /\ <1>2!2
    BY <2>1 DEF Unwind, Deliver, sent, RowInv
  <2>2. ASSUME NEW r \in Request, ClientTimeout(r) PROVE <1>2!1 /\ <1>2!2
    BY <2>2 DEF ClientTimeout, Deliver, RowInv
  <2>3. CASE TransportCloses \/ DaemonStops \/ GenerationFails \/ Tick
    BY <2>3 DEF TransportCloses, DaemonStops, GenerationFails, Tick, sent, RowInv
  <2>4. QED
    BY <2>1, <2>2, <2>3 DEF BrokerSteps
<1>3. QED
  BY <1>1, <1>2 DEF daemonVars, cards, rows, RowInv

\* The steps of a card job: only IssueTokens writes rows that were none.
LEMMA JobRow ==
  ASSUME RowInv, NEW r \in Request,
         \/ \E k \in Kind : ReceiveRequest(r, k)
         \/ NoCard(r)
         \/ \E t \in Target : AutoDecline(r, t) \/ IssueTokens(r, t)
         \/ SendCard(r) \/ CardAppears(r) \/ SendFails(r)
         \/ BindTokens(r) \/ BindThrows(r)
  PROVE  RowInv' /\ TokenStaysRetired
<1> USE ButtonParts
<1>1. ASSUME NEW k \in Kind, ReceiveRequest(r, k) PROVE RowInv' /\ TokenStaysRetired
  BY <1>1 DEF ReceiveRequest, Handle, RowInv, TokenStaysRetired, rows
<1>2. CASE NoCard(r)
  BY <1>2 DEF NoCard, RowInv, TokenStaysRetired, rows, vars, sent
<1>3. ASSUME NEW t \in Target, AutoDecline(r, t) PROVE RowInv' /\ TokenStaysRetired
  BY <1>3 DEF AutoDecline, RowInv, TokenStaysRetired, rows, sent
<1>4. ASSUME NEW t \in Target, IssueTokens(r, t) PROVE RowInv' /\ TokenStaysRetired
  BY <1>4 DEF IssueTokens, RowInv, TokenStaysRetired, vars, sent, Live, Retired
<1>5. CASE SendCard(r)
  BY <1>5 DEF SendCard, RowInv, TokenStaysRetired, rows, sent
<1>6. CASE CardAppears(r)
  BY <1>6 DEF CardAppears, RowInv, TokenStaysRetired, rows, vars, sent
<1>7. CASE SendFails(r)
  BY <1>7 DEF SendFails, RowInv, TokenStaysRetired, rows, vars, sent
<1>8. CASE BindTokens(r)
  BY <1>8 DEF BindTokens, RowInv, TokenStaysRetired, vars, sent, Live, Retired
<1>9. CASE BindThrows(r)
  BY <1>9 DEF BindThrows, RowInv, TokenStaysRetired, vars, sent, Live, Retired, stuck
<1>10. QED
  BY <1>1, <1>2, <1>3, <1>4, <1>5, <1>6, <1>7, <1>8, <1>9

\* The steps of a click: a click is accepted with a bound row, which is still
\* bound when it is marked used.
LEMMA ClickRow ==
  ASSUME RowInv, NEW b \in Button,
         \/ \E u \in Actor, t \in Target : ClickAccepted(b, u, t) \/ ClickExpires(b, u, t)
         \/ MarkUsed(b)
         \/ MarkFails(b)
         \/ Finalize(b)
  PROVE  RowInv' /\ TokenStaysRetired
<1> USE ButtonParts
<1>1. ASSUME NEW u \in Actor, NEW t \in Target, ClickAccepted(b, u, t)
      PROVE  RowInv' /\ TokenStaysRetired
  BY <1>1 DEF ClickAccepted, Admissible, RowInv, TokenStaysRetired, cards, rows, sent
<1>2. ASSUME NEW u \in Actor, NEW t \in Target, ClickExpires(b, u, t)
      PROVE  RowInv' /\ TokenStaysRetired
  BY <1>2 DEF ClickExpires, RowInv, TokenStaysRetired, daemonVars, cards, rows, sent
<1>3. CASE MarkUsed(b)
  BY <1>3 DEF MarkUsed, RowInv, TokenStaysRetired, cards, vars, sent, Live, Retired
<1>4. CASE Finalize(b)
  BY <1>4 DEF Finalize, Calm, RowInv, TokenStaysRetired, cards, vars, sent, Live, Retired
<1>5. CASE MarkFails(b)
  BY <1>5 DEF MarkFails, RowInv, TokenStaysRetired, cards, rows, vars, sent
<1>6. QED
  BY <1>1, <1>2, <1>3, <1>4, <1>5

\* The sweep waits for accepted clicks; a restart forgets them.
LEMMA SweepRow == RowInv /\ (Sweep \/ DaemonRestarts) => RowInv' /\ TokenStaysRetired
<1> USE ButtonParts
<1>1. ASSUME RowInv, Sweep PROVE RowInv' /\ TokenStaysRetired
  <2>1. /\ UNCHANGED <<click, job, phase>>
        /\ \A b \in Button : click[b] # "accepted"
    BY <1>1 DEF Sweep, Calm, cards, sent
  <2>2. /\ token' \in [Button -> {"none"} \cup Live \cup Retired]
        /\ \A b \in Button : token[b] \notin Live => token'[b] = token[b]
    <3>1. token' = [b \in Button |-> IF b \in Expirable THEN "expired"
                                     ELSE IF b \in StuckRows THEN "revoked" ELSE token[b]]
      BY <1>1 DEF Sweep
    <3>2. \A b \in Button : b \in Expirable \/ b \in StuckRows => token[b] \in Live
      BY DEF Expirable, StuckRows, Live
    <3>3. QED
      BY <1>1, <3>1, <3>2 DEF RowInv, Retired
  <2>3. QED
    BY <1>1, <2>1, <2>2 DEF RowInv, TokenStaysRetired, Live, Retired
<1>2. ASSUME RowInv, DaemonRestarts PROVE RowInv' /\ TokenStaysRetired
  BY <1>2 DEF DaemonRestarts, RowInv, TokenStaysRetired, Live, Retired
<1>3. QED
  BY <1>1, <1>2

\* Every step keeps the rows' invariant and the retired rows.
LEMMA RowStep == RowInv /\ [FlowNext]_flowVars => RowInv' /\ TokenStaysRetired
<1> SUFFICES ASSUME RowInv, [FlowNext]_flowVars PROVE RowInv' /\ TokenStaysRetired
  OBVIOUS
<1>1. CASE JobNext
  BY <1>1, JobRow DEF JobNext
<1>2. CASE ClickNext
  BY <1>2, ClickRow DEF ClickNext
<1>3. CASE Sweep \/ DaemonRestarts
  BY <1>3, SweepRow
<1>4. CASE CodexStarts
  BY <1>4 DEF CodexStarts, Reattach, RowInv, TokenStaysRetired, daemonVars, cards, rows, sent
<1>5. CASE BrokerSteps
  <2>1. RowInv'
    BY <1>5, BrokerStepsRow
  <2>2. QED
    BY <1>5, <2>1 DEF BrokerSteps, TokenStaysRetired, daemonVars, rows
<1>6. CASE UNCHANGED flowVars
  BY <1>6 DEF flowVars, vars, sent, daemonVars, cards, rows, RowInv, TokenStaysRetired
<1>7. QED
  BY <1>1, <1>2, <1>3, <1>4, <1>5, <1>6 DEF FlowNext

\* A callback token that was used, expired or revoked never works again,
\* whatever cards are late, sweeps run and processes restart.
THEOREM RetiredForever == FlowSpec => RetiredTokensAreFinal
<1>1. RowInv /\ [FlowNext]_flowVars => RowInv'
  BY RowStep
<1>2. RowInv /\ [FlowNext]_flowVars => [TokenStaysRetired]_flowVars
  BY RowStep
<1>3. QED
  BY RowInit, <1>1, <1>2, PTL DEF FlowSpec, RetiredTokensAreFinal

-----------------------------------------------------------------------------
(* Clicks decide their own request, as long as codex is started once per   *)
(* run of the daemon                                                       *)

\* The request belongs to the connection of this run of the daemon.
OfRun(r) == GenOf(r) = bootGen + 1

FlowTypes ==
  /\ gen \in Nat /\ bootGen \in Nat
  /\ status \in [Request -> {"none", "pending"} \cup Terminal]
  /\ decision \in [Request -> UiAction \cup {"none"}]
  /\ slot \in [Id -> Request \cup {NoRequest}]
  /\ dest \in [Request -> Target \cup {NoTarget}]
  /\ shown \subseteq Request
  /\ by = [r \in Request |-> by[r]]

\* What is alive in this run is about requests of its connection: an id stands for one
\* request only.
RunInv ==
  /\ gen = bootGen \/ gen = bootGen + 1
  /\ open => gen = bootGen + 1
  /\ \A i \in Id : slot[i] # NoRequest => IdOf(slot[i]) = i /\ OfRun(slot[i])
  /\ \A r \in Request : job[r] \notin {"none", "over"} => OfRun(r)
  /\ \A b \in Button : token[b] \in Live \/ click[b] \in {"accepted", "marked"} => OfRun(CardOf(b))

\* A decision is made after the card has its chat, for good, and as its card says.
OwnInv ==
  /\ \A r \in Request : job[r] \in {"none", "new"} => decision[r] = "none"
  /\ \A r \in Request : decision[r] # "none" => status[r] = "resolved"
  /\ ClickDecidesItsOwnRequest

TakenWith(b) ==
  /\ by[CardOf(b)] # << >> /\ by[CardOf(b)][1] = CardOf(b)
  /\ decision[CardOf(b)] = ActionOf(b)

UsedInv ==
  \A b \in Button : token[b] = "used" \/ click[b] \in {"accepted", "marked"} => TakenWith(b)

ClickInv == RowInv /\ FlowTypes /\ RunInv /\ OwnInv /\ UsedInv

LEMMA SameRequest ==
  \A r, q \in Request : OfRun(r) /\ OfRun(q) /\ IdOf(r) = IdOf(q) => r = q
  BY DEF Request, OfRun, GenOf, IdOf

LEMMA RequestIds == \A r \in Request : GenOf(r) \in Nat /\ IdOf(r) \in Id
  BY BoundAssumption DEF Request, Generation, GenOf, IdOf

LEMMA ClickInvInit == FlowInit => ClickInv
<1> SUFFICES ASSUME FlowInit PROVE ClickInv
  OBVIOUS
<1>1. FlowTypes /\ RunInv
  BY DEF FlowInit, FreshBroker, FlowTypes, RunInv, Live
<1>2. OwnInv /\ UsedInv
  BY DEF FlowInit, FreshBroker, OwnInv, UsedInv, ClickDecidesItsOwnRequest
<1> QED BY <1>1, <1>2, RowInit DEF ClickInv

\* A step that decides nothing, shows and reaches nobody new, and reopens nothing.
LEMMA QuietStep ==
  ASSUME ClickInv, RowInv',
         UNCHANGED <<decision, by>>, dest' \in [Request -> Target \cup {NoTarget}],
         shown \subseteq shown', shown' \subseteq Request,
         \A r \in Request : dest'[r] = dest[r] \/ decision[r] = "none",
         \A r \in Request : job'[r] \in {"none", "new"} => job[r] \in {"none", "new"},
         status' \in [Request -> {"none", "pending"} \cup Terminal],
         \A r \in Request : decision[r] # "none" => status'[r] = "resolved",
         \A b \in Button : token'[b] = "used" => token[b] = "used" \/ click[b] = "accepted",
         \A b \in Button : click'[b] \in {"accepted", "marked"} => click[b] \in {"accepted", "marked"}
  PROVE  OwnInv' /\ UsedInv'
<1>1. OwnInv'
  <2>1. ClickDecidesItsOwnRequest'
    BY DEF ClickInv, OwnInv, ClickDecidesItsOwnRequest
  <2>2. \A r \in Request : job'[r] \in {"none", "new"} => decision'[r] = "none"
    BY DEF ClickInv, OwnInv
  <2>3. \A r \in Request : decision'[r] # "none" => status'[r] = "resolved"
    BY DEF ClickInv, OwnInv
  <2> QED BY <2>1, <2>2, <2>3 DEF OwnInv
<1>2. UsedInv'
  BY DEF ClickInv, UsedInv, TakenWith
<1> QED BY <1>1, <1>2

\* The steps of a card job before the card is out, and after.
LEMMA ReceiveKeepsClicks ==
  ASSUME ClickInv, RowInv', NEW r \in Request, NEW k \in Kind, ReceiveRequest(r, k)
  PROVE  ClickInv'
<1>1. /\ open /\ GenOf(r) = gen /\ phase[r] = "idle" /\ job' = [job EXCEPT ![r] = "new"]
      /\ UNCHANGED <<gen, open, bootGen, decision, by, dest, shown, token, click>>
      /\ slot' = slot \/ slot' = [slot EXCEPT ![IdOf(r)] = r]
      /\ status' = status \/ status' = [status EXCEPT ![r] = "pending"]
  BY DEF ReceiveRequest, Handle, conn, rows
<1>2. job[r] = "none" /\ decision[r] = "none" /\ OfRun(r)
  BY <1>1 DEF ClickInv, RowInv, OwnInv, RunInv, OfRun
<1>3. FlowTypes'
  BY <1>1 DEF ClickInv, FlowTypes
<1>4. \A q \in Request : job'[q] = IF q = r THEN "new" ELSE job[q]
  BY <1>1 DEF ClickInv, RowInv
<1>5. RunInv'
  <2>1. \A i \in Id : slot'[i] # NoRequest => IdOf(slot'[i]) = i /\ GenOf(slot'[i]) = bootGen' + 1
    BY <1>1, <1>2 DEF ClickInv, RunInv, FlowTypes, OfRun
  <2> QED BY <1>1, <1>2, <1>4, <2>1 DEF ClickInv, RunInv, OfRun
<1>6. OwnInv' /\ UsedInv'
  <2>1. \A q \in Request : decision[q] # "none" => status'[q] = "resolved"
    BY <1>1, <1>2 DEF ClickInv, OwnInv, FlowTypes
  <2>2. status' \in [Request -> {"none", "pending"} \cup Terminal]
    BY <1>3 DEF FlowTypes
  <2>3. \A q \in Request : job'[q] \in {"none", "new"} => job[q] \in {"none", "new"}
    BY <1>2, <1>4
  <2> QED BY <1>1, <1>3, <2>1, <2>2, <2>3, QuietStep DEF FlowTypes
<1> QED BY <1>3, <1>5, <1>6 DEF ClickInv

LEMMA IssueKeepsClicks ==
  ASSUME ClickInv, RowInv', NEW r \in Request, NEW t \in Target, IssueTokens(r, t)
  PROVE  ClickInv'
<1> USE ButtonParts
<1>1. /\ job[r] = "new" /\ job' = [job EXCEPT ![r] = "issued"]
      /\ dest' = [dest EXCEPT ![r] = t]
      /\ token' = [b \in Button |-> IF CardOf(b) = r THEN "issued" ELSE token[b]]
      /\ UNCHANGED <<gen, open, bootGen, slot, status, decision, by, shown, click>>
  BY DEF IssueTokens, vars, conn, maps, rec
<1>2. decision[r] = "none" /\ OfRun(r)
  BY <1>1 DEF ClickInv, OwnInv, RunInv
<1>3. FlowTypes'
  BY <1>1 DEF ClickInv, FlowTypes
<1>4. \A q \in Request : job'[q] = IF q = r THEN "issued" ELSE job[q]
  BY <1>1 DEF ClickInv, RowInv
<1>5. RunInv'
  BY <1>1, <1>2, <1>4 DEF ClickInv, RunInv, OfRun, Live
<1>6. OwnInv' /\ UsedInv'
  <2>1. \A q \in Request : dest'[q] = dest[q] \/ decision[q] = "none"
    BY <1>1, <1>2 DEF ClickInv, FlowTypes
  <2>2. \A q \in Request : job'[q] \in {"none", "new"} => job[q] \in {"none", "new"}
    BY <1>4
  <2>3. \A b \in Button : token'[b] = "used" => token[b] = "used"
    BY <1>1
  <2>4. \A q \in Request : decision[q] # "none" => status'[q] = "resolved"
    BY <1>1 DEF ClickInv, OwnInv
  <2> QED BY <1>1, <1>3, <2>1, <2>2, <2>3, <2>4, QuietStep DEF FlowTypes
<1> QED BY <1>3, <1>5, <1>6 DEF ClickInv

LEMMA AutoDeclineKeepsClicks ==
  ASSUME ClickInv, RowInv', NEW r \in Request, NEW t \in Target, AutoDecline(r, t)
  PROVE  ClickInv'
<1> USE ButtonParts
<1> DEFINE q == slot[IdOf(r)]
<1>1. /\ job[r] = "new" /\ job' = [job EXCEPT ![r] = "over"]
      /\ dest' = [dest EXCEPT ![r] = t]
      /\ UNCHANGED <<gen, open, bootGen, slot, shown, token, click>>
  BY DEF AutoDecline, conn, rows
<1>2. decision[r] = "none" /\ OfRun(r)
  BY <1>1 DEF ClickInv, OwnInv, RunInv
<1>3. q # NoRequest => q = r
  BY <1>2, SameRequest, RequestIds DEF ClickInv, RunInv, FlowTypes
<1>4. \/ UNCHANGED <<status, decision, by>>
      \/ /\ UNCHANGED <<decision, by>> /\ status[r] = "pending"
         /\ status' = [o \in Request |-> IF o \in {r} THEN "expired" ELSE status[o]]
      \/ /\ decision' = [decision EXCEPT ![r] = "decline"]
         /\ status' = [status EXCEPT ![r] = "resolved"]
         /\ by' = [by EXCEPT ![r] = <<r, System, t, "decline">>]
  <2>1. CASE q # NoRequest /\ status[q] = "pending" /\ policy[IdOf(r)] = NoPolicy
    <3>1. q = r
      BY <1>3, <2>1
    <3> HIDE DEF q
    <3>2. CASE now >= created[q] + Ttl
      <4>1. CloseRecords({q}, "expired") /\ UNCHANGED <<decision, by>>
        BY <2>1, <3>2 DEF AutoDecline, q
      <4> QED BY <2>1, <3>1, <4>1 DEF CloseRecords
    <3>3. CASE ~(now >= created[q] + Ttl)
      <4>1. Decide(q, "decline") /\ by' = [by EXCEPT ![q] = <<r, System, t, "decline">>]
        BY <2>1, <3>3 DEF AutoDecline, q
      <4> QED BY <3>1, <4>1 DEF Decide
    <3> QED BY <3>2, <3>3
  <2>2. CASE ~(q # NoRequest /\ status[q] = "pending" /\ policy[IdOf(r)] = NoPolicy)
    BY <2>2 DEF AutoDecline
  <2> QED BY <2>1, <2>2
<1>5. FlowTypes'
  BY <1>1, <1>4 DEF ClickInv, FlowTypes, UiAction, Terminal
<1>6. \A o \in Request : job'[o] = IF o = r THEN "over" ELSE job[o]
  BY <1>1 DEF ClickInv, RowInv
<1>7. RunInv'
  BY <1>1, <1>6 DEF ClickInv, RunInv, OfRun
<1>8. /\ \A o \in Request : o # r => /\ decision'[o] = decision[o] /\ status'[o] = status[o]
                                    /\ by'[o] = by[o] /\ dest'[o] = dest[o]
  BY <1>1, <1>4 DEF ClickInv, FlowTypes
<1>9. CASE UNCHANGED <<decision, by>>
  <2>1. \A o \in Request : decision[o] # "none" => status'[o] = "resolved"
    BY <1>2, <1>8 DEF ClickInv, OwnInv
  <2>2. \A o \in Request : dest'[o] = dest[o] \/ decision[o] = "none"
    BY <1>2, <1>8
  <2>3. \A o \in Request : job'[o] \in {"none", "new"} => job[o] \in {"none", "new"}
    BY <1>6
  <2>4. OwnInv' /\ UsedInv'
    BY <1>1, <1>5, <1>9, <2>1, <2>2, <2>3, QuietStep DEF FlowTypes
  <2> QED BY <1>5, <1>7, <2>4 DEF ClickInv
<1>10. CASE /\ decision' = [decision EXCEPT ![r] = "decline"]
            /\ status' = [status EXCEPT ![r] = "resolved"]
            /\ by' = [by EXCEPT ![r] = <<r, System, t, "decline">>]
  <2>1. /\ decision'[r] = "decline" /\ status'[r] = "resolved"
        /\ by'[r] = <<r, System, t, "decline">>
    BY <1>10 DEF ClickInv, FlowTypes
  <2>2. ClickDecidesItsOwnRequest'
    <3> SUFFICES ASSUME NEW o \in Request, decision'[o] # "none"
                 PROVE  /\ by'[o][4] = decision'[o]
                        /\ IF by'[o][2] = System THEN decision'[o] = "decline"
                           ELSE /\ by'[o][1] = o /\ o \in shown' /\ by'[o][2] \in Member
                                /\ by'[o][3] = dest'[o] /\ dest'[o] \in Chat
      BY DEF ClickDecidesItsOwnRequest
    <3>1. CASE o = r
      BY <2>1, <3>1
    <3>2. CASE o # r
      BY <1>1, <1>8, <3>2 DEF ClickInv, OwnInv, ClickDecidesItsOwnRequest
    <3> QED BY <3>1, <3>2
  <2>3. OwnInv'
    <3>1. \A o \in Request : job'[o] \in {"none", "new"} => decision'[o] = "none"
      BY <1>6, <1>8 DEF ClickInv, OwnInv
    <3>2. \A o \in Request : decision'[o] # "none" => status'[o] = "resolved"
      BY <1>8, <2>1 DEF ClickInv, OwnInv
    <3> QED BY <2>2, <3>1, <3>2 DEF OwnInv
  <2>4. UsedInv'
    <3>1. \A b \in Button : CardOf(b) = r => ~TakenWith(b)
      BY <1>2, FlowAssumption DEF TakenWith, Button, ActionOf, CardOf, UiAction
    <3> QED BY <1>1, <1>8, <3>1 DEF ClickInv, UsedInv, TakenWith
  <2> QED BY <1>5, <1>7, <2>3, <2>4 DEF ClickInv
<1> QED BY <1>4, <1>9, <1>10

\* The steps of a card job that touch only the job, the screens and the rows.
LEMMA JobKeepsClicks ==
  ASSUME ClickInv, RowInv', NEW r \in Request,
         NoCard(r) \/ SendCard(r) \/ CardAppears(r) \/ SendFails(r) \/ BindTokens(r) \/ BindThrows(r)
  PROVE  ClickInv'
<1> USE ButtonParts
<1>1. /\ UNCHANGED <<gen, open, bootGen, slot, status, decision, by, dest, click>>
      /\ shown' = shown \/ shown' = shown \cup {r}
  BY DEF NoCard, SendCard, CardAppears, SendFails, BindTokens, BindThrows, vars, conn, maps, rec, rows
<1>2. \A q \in Request : job'[q] = job[q] \/ (job'[q] \notin {"none", "new"} /\ (job'[q] = "over" \/ OfRun(q)))
  <2>1. job' = job \/ \E x \in {"over", "sending", "done", "bind_failed"} :
          job' = [job EXCEPT ![r] = x] /\ (x = "over" \/ job[r] \notin {"none", "over"})
    BY DEF NoCard, SendCard, CardAppears, SendFails, BindTokens, BindThrows
  <2> QED BY <2>1 DEF ClickInv, RowInv, RunInv
<1>3. \A b \in Button : token'[b] = token[b] \/ (token[b] = "issued" /\ token'[b] = "bound")
  BY DEF NoCard, SendCard, CardAppears, SendFails, BindTokens, BindThrows, rows, ClickInv, RowInv
<1>4. FlowTypes'
  BY <1>1 DEF ClickInv, FlowTypes
<1>5. RunInv'
  BY <1>1, <1>2, <1>3 DEF ClickInv, RunInv, OfRun, Live
<1>6. OwnInv' /\ UsedInv'
  <2>1. \A q \in Request : decision[q] # "none" => status'[q] = "resolved"
    BY <1>1 DEF ClickInv, OwnInv
  <2>2. \A q \in Request : job'[q] \in {"none", "new"} => job[q] \in {"none", "new"}
    BY <1>2
  <2>3. shown \subseteq shown'
    BY <1>1
  <2>4. \A b \in Button : token'[b] = "used" => token[b] = "used"
    BY <1>3
  <2> QED BY <1>1, <1>4, <2>1, <2>2, <2>3, <2>4, QuietStep DEF FlowTypes
<1> QED BY <1>4, <1>5, <1>6 DEF ClickInv

\* What a click needs to be let through names the request the id stands for.
LEMMA AdmissibleIsOwn ==
  ASSUME ClickInv, NEW b \in Button, NEW u \in Actor, NEW t \in Target, Admissible(b, u, t),
         slot[IdOf(CardOf(b))] # NoRequest
  PROVE  slot[IdOf(CardOf(b))] = CardOf(b)
<1> USE ButtonParts
<1>1. OfRun(CardOf(b))
  BY DEF Admissible, ClickInv, RunInv, Live
<1>2. IdOf(CardOf(b)) \in Id
  BY RequestIds
<1> QED BY <1>1, <1>2, SameRequest DEF ClickInv, RunInv, FlowTypes

LEMMA AcceptKeepsClicks ==
  ASSUME ClickInv, RowInv', NEW b \in Button, NEW u \in Actor, NEW t \in Target, ClickAccepted(b, u, t)
  PROVE  ClickInv'
<1> USE ButtonParts
<1> DEFINE r == CardOf(b)
<1>1. slot[IdOf(r)] # NoRequest
  BY DEF ClickAccepted, ResultOf, ResolveResult
<1>2. slot[IdOf(r)] = r
  BY <1>1, AdmissibleIsOwn DEF ClickAccepted
<1>3. /\ decision' = [decision EXCEPT ![r] = ActionOf(b)]
      /\ status' = [status EXCEPT ![r] = "resolved"]
      /\ by' = [by EXCEPT ![r] = <<r, u, t, ActionOf(b)>>]
      /\ click' = [click EXCEPT ![b] = "accepted"]
      /\ UNCHANGED <<gen, open, bootGen, slot, dest, shown, job, token>>
  BY <1>2 DEF ClickAccepted, Decide, conn, maps, cards, rows
<1>4. ActionOf(b) \in UiAction /\ u \in Member /\ System \notin Member /\ "none" \notin UiAction
  BY FlowAssumption DEF ClickAccepted, Admissible, Button, ActionOf, UiAction
<1>5. r \in shown /\ t = dest[r] /\ t \in Chat /\ token[b] = "bound"
  BY DEF ClickAccepted, Admissible
<1>6. OfRun(r) /\ job[r] \notin {"none", "new"}
  BY <1>5 DEF ClickInv, RunInv, RowInv, Live
<1>7. FlowTypes'
  BY <1>3, <1>4 DEF ClickInv, FlowTypes, Terminal
<1>8. RunInv'
  BY <1>3, <1>6 DEF ClickInv, RowInv, RunInv, OfRun
<1>9. /\ decision'[r] = ActionOf(b) /\ status'[r] = "resolved" /\ by'[r] = <<r, u, t, ActionOf(b)>>
      /\ \A o \in Request : o # r => /\ decision'[o] = decision[o] /\ status'[o] = status[o]
                                    /\ by'[o] = by[o]
  BY <1>3 DEF ClickInv, FlowTypes
<1>10. OwnInv'
  <2>1. ClickDecidesItsOwnRequest'
    <3> SUFFICES ASSUME NEW o \in Request, decision'[o] # "none"
                 PROVE  /\ by'[o][4] = decision'[o]
                        /\ IF by'[o][2] = System THEN decision'[o] = "decline"
                           ELSE /\ by'[o][1] = o /\ o \in shown' /\ by'[o][2] \in Member
                                /\ by'[o][3] = dest'[o] /\ dest'[o] \in Chat
      BY DEF ClickDecidesItsOwnRequest
    <3>1. CASE o = r
      BY <1>3, <1>4, <1>5, <1>9, <3>1
    <3>2. CASE o # r
      BY <1>3, <1>9, <3>2 DEF ClickInv, OwnInv, ClickDecidesItsOwnRequest
    <3> QED BY <3>1, <3>2
  <2>2. \A o \in Request : job'[o] \in {"none", "new"} => decision'[o] = "none"
    BY <1>3, <1>6, <1>9 DEF ClickInv, OwnInv
  <2>3. \A o \in Request : decision'[o] # "none" => status'[o] = "resolved"
    BY <1>9 DEF ClickInv, OwnInv
  <2> QED BY <2>1, <2>2, <2>3 DEF OwnInv
<1>11. decision[r] = "none"
  <2>1. status[r] # "resolved"
    BY <1>1, <1>2 DEF ClickAccepted, ResultOf, ResolveResult
  <2> QED BY <2>1 DEF ClickInv, OwnInv
<1>12. UsedInv'
  <2> SUFFICES ASSUME NEW o \in Button, token'[o] = "used" \/ click'[o] \in {"accepted", "marked"}
               PROVE  TakenWith(o)'
    BY DEF UsedInv
  <2>1. CASE o = b
    BY <1>9, <2>1 DEF TakenWith
  <2>2. CASE o # b
    <3>1. token[o] = "used" \/ click[o] \in {"accepted", "marked"}
      BY <1>3, <2>2 DEF ClickInv, RowInv
    <3>2. TakenWith(o)
      BY <3>1 DEF ClickInv, UsedInv
    <3>3. CardOf(o) # r
      BY <1>4, <1>11, <3>2, FlowAssumption DEF TakenWith, Button, ActionOf, CardOf, UiAction
    <3> QED BY <1>9, <3>2, <3>3 DEF TakenWith
  <2> QED BY <2>1, <2>2
<1> QED BY <1>7, <1>8, <1>10, <1>12 DEF ClickInv

LEMMA ExpireKeepsClicks ==
  ASSUME ClickInv, RowInv', NEW b \in Button, NEW u \in Actor, NEW t \in Target, ClickExpires(b, u, t)
  PROVE  ClickInv'
<1> USE ButtonParts
<1> DEFINE r == CardOf(b)
<1>1. slot[IdOf(r)] # NoRequest /\ status[slot[IdOf(r)]] # "resolved"
  BY DEF ClickExpires, ResultOf, ResolveResult
<1>2. slot[IdOf(r)] = r
  BY <1>1, AdmissibleIsOwn DEF ClickExpires
<1>3. /\ status' = [o \in Request |-> IF o \in {r} THEN "expired" ELSE status[o]]
      /\ UNCHANGED <<gen, open, bootGen, slot, dest, shown, job, token, click, decision, by>>
  BY <1>2 DEF ClickExpires, CloseRecords, conn, maps, daemonVars, cards, rows
<1>4. FlowTypes'
  BY <1>3 DEF ClickInv, FlowTypes, Terminal
<1>5. RunInv'
  BY <1>3 DEF ClickInv, RunInv, OfRun
<1>6. \A o \in Request : decision[o] # "none" => status'[o] = "resolved"
  BY <1>1, <1>2, <1>3 DEF ClickInv, OwnInv
<1>7. OwnInv' /\ UsedInv'
  BY <1>3, <1>4, <1>6, QuietStep DEF FlowTypes
<1> QED BY <1>4, <1>5, <1>7 DEF ClickInv

LEMMA WriteBackKeepsClicks ==
  ASSUME ClickInv, RowInv', NEW b \in Button, MarkUsed(b) \/ MarkFails(b) \/ Finalize(b)
  PROVE  ClickInv'
<1> USE ButtonParts
<1>1. UNCHANGED <<gen, open, bootGen, slot, status, decision, by, dest, shown, job>>
  BY DEF MarkUsed, MarkFails, Finalize, vars, conn, maps, rec, cards
<1>2. \A o \in Button : /\ token'[o] = token[o] \/ token'[o] \in {"used", "revoked"}
                        /\ token'[o] = "used" => token[o] = "used" \/ click[o] = "accepted"
  BY DEF MarkUsed, MarkFails, Finalize, rows, ClickInv, RowInv
<1>3. \A o \in Button : click'[o] \in {"accepted", "marked"} => click[o] \in {"accepted", "marked"}
  BY DEF MarkUsed, MarkFails, Finalize, ClickInv, RowInv
<1>4. FlowTypes'
  BY <1>1 DEF ClickInv, FlowTypes
<1>5. RunInv'
  BY <1>1, <1>2, <1>3 DEF ClickInv, RunInv, OfRun, Live
<1>6. \A o \in Request : decision[o] # "none" => status'[o] = "resolved"
  BY <1>1 DEF ClickInv, OwnInv
<1>7. OwnInv' /\ UsedInv'
  BY <1>1, <1>2, <1>3, <1>4, <1>6, QuietStep DEF FlowTypes
<1> QED BY <1>4, <1>5, <1>7 DEF ClickInv

LEMMA SweepKeepsClicks ==
  ASSUME ClickInv, RowInv', Sweep
  PROVE  ClickInv'
<1> USE ButtonParts
<1>1. /\ UNCHANGED <<gen, open, bootGen, slot, decision, by, dest, shown, job, click>>
      /\ \A b \in Button : token'[b] = token[b] \/ token'[b] \in {"expired", "revoked"}
  BY DEF Sweep, conn, maps, cards
<1>2. /\ status' \in [Request -> {"none", "pending"} \cup Terminal]
      /\ \A o \in Request : decision[o] # "none" => status'[o] = "resolved"
  BY DEF Sweep, LivePending, ClickInv, OwnInv, FlowTypes, Terminal
<1>3. FlowTypes'
  BY <1>1, <1>2 DEF ClickInv, FlowTypes
<1>4. RunInv'
  BY <1>1 DEF ClickInv, RunInv, OfRun, Live
<1>5. \A b \in Button : token'[b] = "used" => token[b] = "used"
  BY <1>1
<1>6. OwnInv' /\ UsedInv'
  BY <1>1, <1>2, <1>3, <1>5, QuietStep DEF FlowTypes
<1> QED BY <1>3, <1>4, <1>6 DEF ClickInv

\* A restart retires the rows of the run before, and forgets its jobs and entries.
LEMMA RestartKeepsClicks ==
  ASSUME ClickInv, RowInv', DaemonRestarts
  PROVE  ClickInv'
<1> USE ButtonParts
<1>1. /\ UNCHANGED <<gen, decision, by, dest, shown>>
      /\ bootGen' = gen /\ open' = FALSE
      /\ slot' = [i \in Id |-> NoRequest]
      /\ \A r \in Request : job'[r] = "over" \/ (job[r] = "none" /\ job'[r] = "none")
      /\ \A b \in Button : click'[b] = "none" /\ token'[b] \notin Live
      /\ \A b \in Button : token'[b] = "used" => token[b] = "used"
  BY DEF DaemonRestarts, Live
<1>2. /\ status' \in [Request -> {"none", "pending"} \cup Terminal]
      /\ \A o \in Request : decision[o] # "none" => status'[o] = "resolved"
  BY DEF DaemonRestarts, ClickInv, OwnInv, FlowTypes
<1>3. FlowTypes'
  BY <1>1, <1>2 DEF ClickInv, FlowTypes
<1>4. RunInv'
  BY <1>1 DEF ClickInv, RunInv
<1>5. OwnInv' /\ UsedInv'
  BY <1>1, <1>2, <1>3, QuietStep DEF FlowTypes
<1> QED BY <1>3, <1>4, <1>5 DEF ClickInv

LEMMA BrokerKeepsClicks ==
  ASSUME ClickInv, RowInv', BrokerSteps
  PROVE  ClickInv'
<1> USE ButtonParts
<1>1. /\ UNCHANGED <<gen, decision, by, dest, shown, bootGen, job, click, token>>
      /\ open' = open \/ open' = FALSE
  BY DEF BrokerSteps, daemonVars, cards, rows, Unwind, ClientTimeout, TransportCloses, DaemonStops,
         GenerationFails, Tick, conn, rec
<1>2. /\ status' \in [Request -> {"none", "pending"} \cup Terminal]
      /\ \A o \in Request : decision[o] # "none" => status'[o] = "resolved"
  <2>1. status' = status \/ CloseRecords(LivePending, "transport_lost")
    BY DEF BrokerSteps, Unwind, ClientTimeout, TransportCloses, DaemonStops,
           GenerationFails, Tick, FailPendingAsTransportLost, rec
  <2> QED BY <2>1 DEF CloseRecords, LivePending, ClickInv, OwnInv, FlowTypes, Terminal
<1>3. \A i \in Id : slot'[i] = slot[i] \/ slot'[i] = NoRequest
  BY DEF BrokerSteps, Unwind, ClientTimeout, TransportCloses, DaemonStops,
         GenerationFails, Tick, maps, ClickInv, FlowTypes
<1>4. slot' \in [Id -> Request \cup {NoRequest}]
  BY DEF BrokerSteps, Unwind, ClientTimeout, TransportCloses, DaemonStops,
         GenerationFails, Tick, maps, ClickInv, FlowTypes
<1>5. FlowTypes'
  BY <1>1, <1>2, <1>4 DEF ClickInv, FlowTypes
<1>6. RunInv'
  BY <1>1, <1>3 DEF ClickInv, RunInv, OfRun
<1>7. OwnInv' /\ UsedInv'
  BY <1>1, <1>2, <1>5, QuietStep DEF FlowTypes
<1> QED BY <1>5, <1>6, <1>7 DEF ClickInv

LEMMA ClicksStep ==
  ASSUME Respawn = FALSE
  PROVE  ClickInv /\ [FlowNext]_flowVars => ClickInv'
<1> SUFFICES ASSUME ClickInv, [FlowNext]_flowVars PROVE ClickInv'
  OBVIOUS
<1>0. RowInv'
  BY RowStep DEF ClickInv
<1>1. CASE JobNext
  BY <1>0, <1>1, ReceiveKeepsClicks, AutoDeclineKeepsClicks, IssueKeepsClicks, JobKeepsClicks DEF JobNext
<1>2. CASE ClickNext
  BY <1>0, <1>2, AcceptKeepsClicks, ExpireKeepsClicks, WriteBackKeepsClicks DEF ClickNext
<1>3. CASE Sweep
  BY <1>0, <1>3, SweepKeepsClicks
<1>4. CASE DaemonRestarts
  BY <1>0, <1>4, RestartKeepsClicks
<1>5. CASE CodexStarts
  <2>1. /\ gen = bootGen /\ gen' = gen + 1 /\ open' = TRUE
        /\ UNCHANGED <<slot, status, decision, daemonVars>>
    BY <1>5 DEF CodexStarts, Reattach, maps, rec
  <2>2. UNCHANGED <<bootGen, by, dest, shown, job, click, token>>
    BY <2>1 DEF daemonVars, cards, rows
  <2>3. FlowTypes' /\ RunInv'
    BY <2>1, <2>2 DEF ClickInv, FlowTypes, RunInv, OfRun
  <2>4. \A o \in Request : decision[o] # "none" => status'[o] = "resolved"
    BY <2>1 DEF ClickInv, OwnInv
  <2>5. OwnInv' /\ UsedInv'
    BY <1>0, <2>1, <2>2, <2>3, <2>4, QuietStep DEF FlowTypes
  <2> QED BY <1>0, <2>3, <2>5 DEF ClickInv
<1>6. CASE BrokerSteps
  BY <1>0, <1>6, BrokerKeepsClicks
<1>7. CASE UNCHANGED flowVars
  <2>1. UNCHANGED <<gen, open, bootGen, slot, status, decision, by, dest, shown, job, click, token>>
    BY <1>7 DEF flowVars, vars, conn, maps, rec, daemonVars, cards, rows
  <2> QED BY <1>0, <2>1 DEF ClickInv, FlowTypes, RunInv, OfRun, OwnInv, UsedInv, TakenWith,
                            ClickDecidesItsOwnRequest
<1> QED BY <1>1, <1>2, <1>3, <1>4, <1>5, <1>6, <1>7 DEF FlowNext

\* As long as codex is started once per run of the daemon, whatever cards, rows and
\* ids outlive a restart: a decision is taken with the request's own card, by a listed
\* user, in the chat the card was sent to.
THEOREM OwnCardDecides ==
  ASSUME Respawn = FALSE
  PROVE  FlowSpec => []ClickDecidesItsOwnRequest
<1>1. ClickInv => ClickDecidesItsOwnRequest
  BY DEF ClickInv, OwnInv
<1> QED BY <1>1, ClickInvInit, ClicksStep, PTL DEF FlowSpec

\* Likewise, a token is marked used only for the decision that was taken with it.
THEOREM UsedTokensTell ==
  ASSUME Respawn = FALSE
  PROVE  FlowSpec => []UsedTokenIsTheDecision
<1>1. ClickInv => UsedTokenIsTheDecision
  BY DEF ClickInv, UsedInv, TakenWith, UsedTokenIsTheDecision
<1> QED BY <1>1, ClickInvInit, ClicksStep, PTL DEF FlowSpec

-----------------------------------------------------------------------------
(* The buttons of a card that was sent work until its approval is closed   *)

BoundTo(i, r) == policy[i] # NoPolicy /\ policy[i].callbackNonce = r

CardTypes ==
  /\ now \in Nat /\ created \in [Request -> Nat] /\ flagged \subseteq Id
  /\ policy \in [Id -> Policy \cup {NoPolicy}]

\* Nobody else binds the policy of a request whose card is not sent, and only a job
\* that is done has flagged its approval.
UnsentInv ==
  \A r \in Request :
    /\ OfRun(r) /\ job[r] \in {"none", "new", "issued"} => policy[IdOf(r)] = NoPolicy
    /\ OfRun(r) /\ IdOf(r) \in flagged => job[r] = "done"
    /\ job[r] = "issued" => dest[r] \in Target

\* The rows of an open approval are where its job left them, flagged or not: whatever
\* takes a row away closes the approval first, or in the same step.
SentInv ==
  \A r \in LivePending :
    /\ job[r] \in {"sending", "done", "bind_failed"} => BoundTo(IdOf(r), r)
    /\ \A b \in Button : CardOf(b) = r =>
         /\ job[r] \in {"issued", "sending"} => token[b] = "issued"
         /\ job[r] = "done" => token[b] = "bound"

CardInv == ClickInv /\ CardTypes /\ UnsentInv /\ SentInv

LEMMA CardInvInit == FlowInit => CardInv
<1> SUFFICES ASSUME FlowInit PROVE CardInv
  OBVIOUS
<1>1. CardTypes /\ UnsentInv /\ SentInv
  BY RequestIds, NoneAssumption
     DEF FlowInit, FreshBroker, CardTypes, UnsentInv, SentInv, LivePending
<1> QED BY <1>1, ClickInvInit DEF CardInv

\* A step that sends no card and leaves the rows of the approvals that stay open.
LEMMA UnsentStep ==
  ASSUME CardInv, UNCHANGED <<bootGen, policy, dest>>, flagged' \subseteq flagged,
         \A r \in Request : job'[r] = job[r] \/ (job'[r] = "over" /\ job[r] # "done"),
         \A r \in LivePending' :
           r \in LivePending /\ \A b \in Button : CardOf(b) = r => token'[b] = token[b]
  PROVE  UnsentInv' /\ SentInv'
<1>1. UnsentInv'
  BY DEF CardInv, UnsentInv, OfRun
<1>2. SentInv'
  <2> SUFFICES ASSUME NEW r \in LivePending'
               PROVE  /\ job'[r] \in {"sending", "done", "bind_failed"} => BoundTo(IdOf(r), r)
                      /\ \A b \in Button : CardOf(b) = r =>
                           /\ job'[r] \in {"issued", "sending"} => token'[b] = "issued"
                           /\ job'[r] = "done" => token'[b] = "bound"
    BY DEF SentInv, BoundTo
  <2>1. r \in Request /\ r \in LivePending
    BY DEF LivePending
  <2> QED BY <2>1 DEF CardInv, SentInv
<1> QED BY <1>1, <1>2

\* An open approval belongs to the run, and was not decided.
LEMMA OpenParts ==
  ASSUME ClickInv, NEW r \in LivePending
  PROVE  r \in Request /\ OfRun(r) /\ decision[r] = "none" /\ slot[IdOf(r)] = r
<1>1. r \in Request /\ slot[IdOf(r)] = r /\ status[r] = "pending"
  BY DEF LivePending
<1> QED BY <1>1, RequestIds, NoneAssumption DEF ClickInv, RunInv, OwnInv

LEMMA ReceiveKeepsCards ==
  ASSUME CardInv, ClickInv', NEW r \in Request, NEW k \in Kind, ReceiveRequest(r, k)
  PROVE  CardInv'
<1>1. /\ open /\ GenOf(r) = gen /\ phase[r] = "idle" /\ job' = [job EXCEPT ![r] = "new"]
      /\ created' = [created EXCEPT ![r] = now]
      /\ UNCHANGED <<now, bootGen, policy, dest, token, flagged>>
      /\ slot' = slot \/ slot' = [slot EXCEPT ![IdOf(r)] = r]
      /\ status' = status \/ status' = [status EXCEPT ![r] = "pending"]
  BY DEF ReceiveRequest, Handle, conn, rows, stuck
<1>2. job[r] = "none" /\ OfRun(r)
  BY <1>1 DEF CardInv, ClickInv, RowInv, RunInv, OfRun
<1>3. \A q \in Request : job'[q] = IF q = r THEN "new" ELSE job[q]
  BY <1>1 DEF CardInv, ClickInv, RowInv
<1>4. CardTypes'
  BY <1>1 DEF CardInv, CardTypes
<1>5. UnsentInv'
  BY <1>1, <1>2, <1>3 DEF CardInv, UnsentInv, OfRun
<1>6. \A q \in LivePending' : q = r \/ q \in LivePending
  <2> SUFFICES ASSUME NEW q \in Request, slot'[IdOf(q)] = q, status'[q] = "pending", q # r
               PROVE  slot[IdOf(q)] = q /\ status[q] = "pending"
    BY DEF LivePending
  <2> QED BY <1>1, RequestIds DEF CardInv, ClickInv, FlowTypes
<1>7. SentInv'
  <2> SUFFICES ASSUME NEW q \in LivePending'
               PROVE  /\ job'[q] \in {"sending", "done", "bind_failed"} => BoundTo(IdOf(q), q)
                      /\ \A b \in Button : CardOf(b) = q =>
                           /\ job'[q] \in {"issued", "sending"} => token'[b] = "issued"
                           /\ job'[q] = "done" => token'[b] = "bound"
    BY <1>1 DEF SentInv, BoundTo
  <2> QED BY <1>1, <1>3, <1>6 DEF CardInv, SentInv, LivePending
<1> QED BY <1>4, <1>5, <1>7 DEF CardInv

\* The policy the daemon binds to decline an approval itself is that of its own request.
LEMMA AutoDeclineKeepsCards ==
  ASSUME CardInv, ClickInv', NEW r \in Request, NEW t \in Target, AutoDecline(r, t)
  PROVE  CardInv'
<1> DEFINE p == [allowedActors |-> {System}, target |-> t, callbackNonce |-> r]
<1>1. /\ job[r] = "new" /\ job' = [job EXCEPT ![r] = "over"]
      /\ dest' = [dest EXCEPT ![r] = t]
      /\ policy' = policy \/ policy' = [policy EXCEPT ![IdOf(r)] = p]
      /\ UNCHANGED <<now, created, bootGen, slot, token, flagged>>
  BY DEF AutoDecline, conn, rows, stuck
<1>2. OfRun(r)
  BY <1>1 DEF CardInv, ClickInv, RunInv
<1>3. \A q \in Request : /\ job'[q] = IF q = r THEN "over" ELSE job[q]
                         /\ dest'[q] = IF q = r THEN t ELSE dest[q]
  BY <1>1 DEF CardInv, ClickInv, RowInv, FlowTypes
<1>4. \A q \in Request : OfRun(q) /\ q # r => policy'[IdOf(q)] = policy[IdOf(q)]
  BY <1>1, <1>2, SameRequest, RequestIds DEF CardInv, CardTypes
<1>5. CardTypes'
  <2>1. p \in Policy
    BY FlowAssumption DEF Policy
  <2> HIDE DEF p
  <2> QED BY <1>1, <2>1 DEF CardInv, CardTypes
<1>6. UnsentInv'
  <2>1. IdOf(r) \notin flagged
    BY <1>1, <1>2 DEF CardInv, UnsentInv
  <2> QED BY <1>1, <1>3, <1>4, <2>1 DEF CardInv, UnsentInv, OfRun
<1>7. LivePending' \subseteq LivePending
  <2>1. status' = status \/ \E q : CloseRecords({q}, "expired") \/ Decide(q, "decline")
    BY DEF AutoDecline
  <2>2. \A q \in Request : status'[q] = "pending" => status[q] = "pending"
    BY <2>1 DEF CloseRecords, Decide, CardInv, ClickInv, FlowTypes
  <2> QED BY <1>1, <2>2 DEF LivePending
<1>8. SentInv'
  <2> SUFFICES ASSUME NEW q \in LivePending', q # r
               PROVE  /\ job'[q] \in {"sending", "done", "bind_failed"} => BoundTo(IdOf(q), q)'
                      /\ \A b \in Button : CardOf(b) = q =>
                           /\ job'[q] \in {"issued", "sending"} => token'[b] = "issued"
                           /\ job'[q] = "done" => token'[b] = "bound"
    BY <1>3 DEF SentInv, LivePending
  <2>1. q \in LivePending /\ q \in Request /\ OfRun(q)
    BY <1>7, OpenParts DEF CardInv
  <2> QED BY <1>1, <1>3, <1>4, <2>1 DEF CardInv, SentInv, BoundTo
<1> QED BY <1>5, <1>6, <1>8 DEF CardInv

LEMMA IssueKeepsCards ==
  ASSUME CardInv, ClickInv', NEW r \in Request, NEW t \in Target, IssueTokens(r, t)
  PROVE  CardInv'
<1>1. /\ job[r] = "new" /\ job' = [job EXCEPT ![r] = "issued"]
      /\ dest' = [dest EXCEPT ![r] = t]
      /\ token' = [b \in Button |-> IF CardOf(b) = r THEN "issued" ELSE token[b]]
      /\ UNCHANGED <<now, created, bootGen, slot, status, policy, flagged>>
  BY DEF IssueTokens, vars, conn, maps, rec, stuck
<1>2. \A q \in Request : /\ job'[q] = IF q = r THEN "issued" ELSE job[q]
                         /\ dest'[q] = IF q = r THEN t ELSE dest[q]
  BY <1>1 DEF CardInv, ClickInv, RowInv, FlowTypes
<1>3. CardTypes'
  BY <1>1 DEF CardInv, CardTypes
<1>4. UnsentInv'
  BY <1>1, <1>2 DEF CardInv, UnsentInv, OfRun
<1>5. SentInv'
  BY <1>1, <1>2 DEF CardInv, SentInv, LivePending, BoundTo
<1> QED BY <1>3, <1>4, <1>5 DEF CardInv

\* The first policy of the request's id is that of its card.
LEMMA SendKeepsCards ==
  ASSUME CardInv, ClickInv', NEW r \in Request, SendCard(r)
  PROVE  CardInv'
<1> DEFINE p == [allowedActors |-> Member, target |-> dest[r], callbackNonce |-> r]
<1>1. /\ job[r] = "issued" /\ job' = [job EXCEPT ![r] = "sending"]
      /\ policy' = IF slot[IdOf(r)] # NoRequest /\ status[slot[IdOf(r)]] = "pending" /\ policy[IdOf(r)] = NoPolicy
                     THEN [policy EXCEPT ![IdOf(r)] = p] ELSE policy
      /\ UNCHANGED <<now, created, bootGen, slot, status, dest, token, flagged>>
  BY DEF SendCard, BindAttempt, conn, rows, rec, stuck
<1>2. OfRun(r) /\ policy[IdOf(r)] = NoPolicy /\ dest[r] \in Target
  BY <1>1 DEF CardInv, ClickInv, RunInv, UnsentInv
<1>3. \A q \in Request : job'[q] = IF q = r THEN "sending" ELSE job[q]
  BY <1>1 DEF CardInv, ClickInv, RowInv
<1>4. \A q \in Request : OfRun(q) /\ q # r => policy'[IdOf(q)] = policy[IdOf(q)]
  BY <1>1, <1>2, SameRequest, RequestIds DEF CardInv, CardTypes
<1>5. p \in Policy
  BY <1>2, FlowAssumption DEF Policy
<1>6. CardTypes'
  <2> HIDE DEF p
  <2> QED BY <1>1, <1>5 DEF CardInv, CardTypes
<1>7. UnsentInv'
  BY <1>1, <1>2, <1>3, <1>4 DEF CardInv, UnsentInv, OfRun
<1>8. LivePending' = LivePending
  BY <1>1 DEF LivePending
<1>9. r \in LivePending => BoundTo(IdOf(r), r)'
  <2> SUFFICES ASSUME r \in LivePending PROVE BoundTo(IdOf(r), r)'
    OBVIOUS
  <2>1. slot[IdOf(r)] = r /\ status[r] = "pending" /\ r # NoRequest /\ IdOf(r) \in Id
    BY NoneAssumption, RequestIds DEF LivePending
  <2>2. policy' = [policy EXCEPT ![IdOf(r)] = p]
    BY <1>1, <1>2, <2>1
  <2>3. policy'[IdOf(r)] = p
    BY <2>1, <2>2 DEF CardInv, CardTypes
  <2> QED BY <1>5, <2>3, NoneAssumption DEF BoundTo
<1>10. SentInv'
  <2> SUFFICES ASSUME NEW q \in LivePending'
               PROVE  /\ job'[q] \in {"sending", "done", "bind_failed"} => BoundTo(IdOf(q), q)'
                      /\ \A b \in Button : CardOf(b) = q =>
                           /\ job'[q] \in {"issued", "sending"} => token'[b] = "issued"
                           /\ job'[q] = "done" => token'[b] = "bound"
    BY DEF SentInv
  <2>1. q \in LivePending /\ q \in Request /\ OfRun(q)
    BY <1>8, OpenParts DEF CardInv
  <2>2. CASE q = r
    BY <1>1, <1>3, <1>9, <2>1, <2>2 DEF CardInv, SentInv
  <2>3. CASE q # r
    BY <1>1, <1>3, <1>4, <2>1, <2>3 DEF CardInv, SentInv, BoundTo
  <2> QED BY <2>2, <2>3
<1> QED BY <1>6, <1>7, <1>10 DEF CardInv

\* The rows of an open approval are still issued when its card was sent, so that all
\* of them become bound; a write that throws ends the job before it is done.
LEMMA BindKeepsCards ==
  ASSUME CardInv, ClickInv', NEW r \in Request, BindTokens(r) \/ BindThrows(r)
  PROVE  CardInv'
<1>1. /\ job[r] = "sending"
      /\ \/ /\ job' = [job EXCEPT ![r] = "done"]
            /\ \A b \in Button : token'[b] = IF CardOf(b) = r /\ token[b] = "issued" THEN "bound" ELSE token[b]
            /\ flagged' \subseteq flagged \cup {IdOf(r)}
         \/ /\ job' = [job EXCEPT ![r] = "bind_failed"]
            /\ \A b \in Button : CardOf(b) # r => token'[b] = token[b]
            /\ flagged' = flagged
      /\ UNCHANGED <<now, created, bootGen, slot, status, policy, dest>>
  BY DEF BindTokens, BindThrows, vars, conn, maps, rec, stuck
<1>2. OfRun(r) /\ IdOf(r) \in Id
  BY <1>1, RequestIds DEF CardInv, ClickInv, RunInv
<1>3. \A q \in Request : job'[q] = job[q] \/ (q = r /\ job'[q] \in {"done", "bind_failed"})
  BY <1>1 DEF CardInv, ClickInv, RowInv
<1>4. CardTypes'
  BY <1>1, <1>2 DEF CardInv, CardTypes
<1>5. UnsentInv'
  <2> SUFFICES ASSUME NEW q \in Request
               PROVE  /\ OfRun(q) /\ job'[q] \in {"none", "new", "issued"} => policy[IdOf(q)] = NoPolicy
                      /\ OfRun(q) /\ IdOf(q) \in flagged' => job'[q] = "done"
                      /\ job'[q] = "issued" => dest[q] \in Target
    BY <1>1 DEF UnsentInv, OfRun
  <2>1. CASE q # r
    BY <1>1, <1>2, <1>3, <2>1, SameRequest DEF CardInv, UnsentInv
  <2>2. CASE q = r
    <3>1. IdOf(r) \notin flagged
      BY <1>1, <1>2 DEF CardInv, UnsentInv
    <3> QED BY <1>1, <2>2, <3>1 DEF CardInv, ClickInv, RowInv
  <2> QED BY <2>1, <2>2
<1>6. LivePending' = LivePending
  BY <1>1 DEF LivePending
<1>7. SentInv'
  <2> SUFFICES ASSUME NEW q \in LivePending'
               PROVE  /\ job'[q] \in {"sending", "done", "bind_failed"} => BoundTo(IdOf(q), q)
                      /\ \A b \in Button : CardOf(b) = q =>
                           /\ job'[q] \in {"issued", "sending"} => token'[b] = "issued"
                           /\ job'[q] = "done" => token'[b] = "bound"
    BY <1>1 DEF SentInv, BoundTo
  <2>1. q \in LivePending /\ q \in Request
    BY <1>6 DEF LivePending
  <2>2. CASE q = r
    BY <1>1, <2>1, <2>2 DEF CardInv, SentInv, ClickInv, RowInv
  <2>3. CASE q # r
    BY <1>1, <1>3, <2>1, <2>3 DEF CardInv, SentInv
  <2> QED BY <2>2, <2>3
<1> QED BY <1>4, <1>5, <1>7 DEF CardInv

\* The other steps of a card job.
LEMMA JobKeepsCards ==
  ASSUME CardInv, ClickInv', NEW r \in Request, NoCard(r) \/ CardAppears(r) \/ SendFails(r)
  PROVE  CardInv'
<1>1. /\ UNCHANGED <<now, created, bootGen, slot, status, policy, dest, token, flagged>>
      /\ job' = job \/ (job' = [job EXCEPT ![r] = "over"] /\ job[r] # "done")
  BY DEF NoCard, CardAppears, SendFails, vars, conn, maps, rec, rows, stuck
<1>2. \A q \in Request : job'[q] = job[q] \/ (job'[q] = "over" /\ job[q] # "done")
  BY <1>1 DEF CardInv, ClickInv, RowInv
<1>3. LivePending' = LivePending
  BY <1>1 DEF LivePending
<1>4. UnsentInv' /\ SentInv'
  BY <1>1, <1>2, <1>3, UnsentStep
<1>5. CardTypes'
  BY <1>1 DEF CardInv, CardTypes
<1> QED BY <1>4, <1>5 DEF CardInv

\* A click touches the rows of the approval it has decided, and no others.
LEMMA ClickKeepsCards ==
  ASSUME CardInv, ClickInv', NEW b \in Button,
         \/ \E u \in Actor, t \in Target : ClickAccepted(b, u, t) \/ ClickExpires(b, u, t)
         \/ MarkUsed(b) \/ MarkFails(b) \/ Finalize(b)
  PROVE  CardInv'
<1> USE ButtonParts
<1>1. UNCHANGED <<now, created, bootGen, slot, policy, dest, job, flagged>>
  BY DEF ClickAccepted, ClickExpires, MarkUsed, MarkFails, Finalize, vars, conn, maps, rec,
         daemonVars, cards, rows, stuck
<1>2. \A q \in Request : status'[q] = "pending" => status[q] = "pending"
  <2>1. \/ status' = status
        \/ \E q, a : CloseRecords({q}, "expired") \/ (status' = [status EXCEPT ![q] = "resolved"])
    BY DEF ClickAccepted, ClickExpires, MarkUsed, MarkFails, Finalize, vars, rec, Decide
  <2> QED BY <2>1 DEF CloseRecords, CardInv, ClickInv, FlowTypes
<1>3. LivePending' \subseteq LivePending
  BY <1>1, <1>2 DEF LivePending
<1>4. ASSUME NEW r \in LivePending, NEW o \in Button, CardOf(o) = r
      PROVE  token'[o] = token[o]
  <2>1. OfRun(r) /\ decision[r] = "none"
    BY OpenParts DEF CardInv
  <2>2. \A x \in Button : click[x] \in {"accepted", "marked"} => CardOf(x) # r /\ OfRun(CardOf(x))
    <3>1. \A x \in Button : click[x] \in {"accepted", "marked"} => decision[CardOf(x)] \in UiAction
      BY FlowAssumption DEF CardInv, ClickInv, UsedInv, TakenWith, Button, ActionOf
    <3> QED BY <2>1, <3>1 DEF CardInv, ClickInv, RunInv, UiAction
  <2>3. r \in Request
    BY <1>4
  <2>4. CASE \E u \in Actor, t \in Target : ClickAccepted(b, u, t) \/ ClickExpires(b, u, t)
    BY <2>4 DEF ClickAccepted, ClickExpires, daemonVars, rows
  <2>5. CASE MarkUsed(b)
    BY <1>4, <2>2, <2>5 DEF MarkUsed, CardInv, ClickInv, RowInv
  <2>6. CASE MarkFails(b)
    BY <2>6 DEF MarkFails, rows
  <2>7. CASE Finalize(b)
    <3>1. click[b] = "marked"
      BY <2>7 DEF Finalize
    <3>2. IdOf(r) # IdOf(CardOf(b))
      BY <2>1, <2>2, <2>3, <3>1, SameRequest
    <3> QED BY <1>4, <2>7, <3>2 DEF Finalize, BelongsTo
  <2> QED BY <2>4, <2>5, <2>6, <2>7
<1>5. UnsentInv' /\ SentInv'
  BY <1>1, <1>3, <1>4, UnsentStep
<1>6. CardTypes'
  BY <1>1 DEF CardInv, CardTypes
<1> QED BY <1>5, <1>6 DEF CardInv

\* A sweep that takes the rows of an expired approval closes it as well, if approvals
\* are swept no later than they expire; and no open approval is flagged whose card is
\* not sent yet.
LEMMA SweepKeepsCards ==
  ASSUME SweepAge <= Ttl, CardInv, ClickInv', Sweep
  PROVE  CardInv'
<1> USE ButtonParts
<1>1. UNCHANGED <<now, created, bootGen, slot, policy, dest, job>> /\ flagged' \subseteq flagged
  BY DEF Sweep, conn, maps, cards
<1>2. ASSUME NEW r \in LivePending'
      PROVE  /\ r \in LivePending
             /\ \A b \in Button : CardOf(b) = r => token'[b] = token[b]
  <2>1. /\ r \in LivePending /\ ~(created[r] + SweepAge <= now)
    BY <1>1, <1>2 DEF Sweep, LivePending
  <2>2. r \in Request /\ OfRun(r)
    BY <2>1, OpenParts DEF CardInv
  <2>3. created[r] \in Nat /\ now \in Nat /\ SweepAge \in Nat /\ Ttl \in Nat
    BY <2>2, TimeAssumption DEF CardInv, CardTypes
  <2>4. ~(created[r] + Ttl < now)
    BY <2>1, <2>3
  <2>5. ASSUME NEW b \in Button, CardOf(b) = r PROVE b \notin Expirable /\ b \notin StuckRows
    <3>1. b \notin Expirable
      BY <2>4, <2>5 DEF Expirable
    <3>2. ~(token[b] = "issued" /\ IdOf(r) \in flagged)
      BY <2>1, <2>2, <2>5 DEF CardInv, UnsentInv, SentInv
    <3> QED BY <2>5, <3>1, <3>2 DEF StuckRows
  <2> QED BY <2>1, <2>5 DEF Sweep
<1>3. UnsentInv' /\ SentInv'
  BY <1>1, <1>2, UnsentStep
<1>4. CardTypes'
  BY <1>1 DEF CardInv, CardTypes
<1> QED BY <1>3, <1>4 DEF CardInv

LEMMA RestartKeepsCards ==
  ASSUME CardInv, ClickInv', DaemonRestarts
  PROVE  CardInv'
<1>1. /\ UNCHANGED <<now, created, dest>>
      /\ slot' = [i \in Id |-> NoRequest] /\ policy' = [i \in Id |-> NoPolicy] /\ flagged' = {}
      /\ \A r \in Request : job'[r] # "issued"
  BY DEF DaemonRestarts
<1>2. CardTypes' /\ UnsentInv'
  BY <1>1, RequestIds DEF CardInv, CardTypes, UnsentInv
<1>3. SentInv'
  BY <1>1, RequestIds, NoneAssumption DEF SentInv, LivePending
<1> QED BY <1>2, <1>3 DEF CardInv

LEMMA BrokerKeepsCards ==
  ASSUME CardInv, ClickInv', BrokerSteps
  PROVE  CardInv'
<1>1. /\ UNCHANGED <<created, policy, bootGen, dest, job, token, flagged>>
      /\ now' = now \/ now' = now + 1
  BY DEF BrokerSteps, daemonVars, cards, rows, stuck, Unwind, ClientTimeout, TransportCloses,
         DaemonStops, GenerationFails, Tick, maps, rec
<1>2. \A r \in Request : status'[r] = "pending" => status[r] = "pending"
  <2>1. status' = status \/ CloseRecords(LivePending, "transport_lost")
    BY DEF BrokerSteps, Unwind, ClientTimeout, TransportCloses, DaemonStops,
           GenerationFails, Tick, FailPendingAsTransportLost, rec
  <2> QED BY <2>1 DEF CloseRecords, LivePending
<1>3. \A i \in Id : slot'[i] = slot[i] \/ slot'[i] = NoRequest
  BY DEF BrokerSteps, Unwind, ClientTimeout, TransportCloses, DaemonStops,
         GenerationFails, Tick, maps, CardInv, ClickInv, FlowTypes
<1>4. LivePending' \subseteq LivePending
  BY <1>2, <1>3, RequestIds, NoneAssumption DEF LivePending
<1>5. UnsentInv' /\ SentInv'
  BY <1>1, <1>4, UnsentStep
<1>6. CardTypes'
  BY <1>1 DEF CardInv, CardTypes
<1> QED BY <1>5, <1>6 DEF CardInv

LEMMA CardsStep ==
  ASSUME Respawn = FALSE, SweepAge <= Ttl
  PROVE  CardInv /\ [FlowNext]_flowVars => CardInv'
<1> SUFFICES ASSUME CardInv, [FlowNext]_flowVars PROVE CardInv'
  OBVIOUS
<1>0. ClickInv'
  BY ClicksStep DEF CardInv
<1>1. CASE JobNext
  BY <1>0, <1>1, ReceiveKeepsCards, AutoDeclineKeepsCards, IssueKeepsCards, SendKeepsCards,
     BindKeepsCards, JobKeepsCards DEF JobNext
<1>2. CASE ClickNext
  BY <1>0, <1>2, ClickKeepsCards DEF ClickNext
<1>3. CASE Sweep
  BY <1>0, <1>3, SweepKeepsCards
<1>4. CASE DaemonRestarts
  BY <1>0, <1>4, RestartKeepsCards
<1>5. CASE CodexStarts \/ UNCHANGED flowVars
  <2>1. UNCHANGED <<now, created, bootGen, slot, status, policy, dest, job, token, flagged>>
    BY <1>5 DEF CodexStarts, Reattach, flowVars, vars, maps, rec, daemonVars, cards, rows, stuck
  <2>2. LivePending' = LivePending
    BY <2>1 DEF LivePending
  <2>3. UnsentInv' /\ SentInv'
    BY <2>1, <2>2, UnsentStep
  <2> QED BY <1>0, <2>1, <2>3 DEF CardInv, CardTypes
<1>6. CASE BrokerSteps
  BY <1>0, <1>6, BrokerKeepsCards
<1> QED BY <1>1, <1>2, <1>3, <1>4, <1>5, <1>6 DEF FlowNext

\* Once its card is sent, the buttons of an approval work until it is closed: no sweep
\* and no other approval's click takes them away, if the sweep is no later than the
\* deadline of the tokens, and codex is started once per run of the daemon.
THEOREM ButtonsWork ==
  ASSUME Respawn = FALSE, SweepAge <= Ttl
  PROVE  FlowSpec => []CardStaysUsable
<1>1. CardInv => CardStaysUsable
  BY DEF CardInv, SentInv, CardStaysUsable, BoundTo
<1> QED BY <1>1, CardInvInit, CardsStep, PTL DEF FlowSpec

-----------------------------------------------------------------------------
(* What codex is told, through restarts and any number of connections      *)

\* The fields of a request, in the broker and on the wire.
Honest(r) ==
  /\ phase[r] = "idle" =>
       status[r] = "none" /\ r \notin unwinding /\ outcome[r] = "unsettled" /\ decision[r] = "none"
  /\ phase[r] # "idle" => kind[r] \in Kind
  /\ decision[r] # "none" => status[r] = "resolved"
  /\ outcome[r] \in Grants => decision[r] # "none" /\ outcome[r] = WireDecision(kind[r], decision[r])
  /\ r \in unwinding => outcome[r] # "unsettled"
  /\ \/ wire[r] = << >> \/ wire[r] = << "err_handler" >>
     \/ outcome[r] # "unsettled" /\ wire[r] = << outcome[r] >>
  /\ phase[r] # "answered" => wire[r] = << >>

\* A card that is about to be sent has its chat.
HasChat == \A r \in Request : job[r] = "issued" => dest[r] \in Target

PipelineInv ==
  /\ FlowTypeOK /\ by = [r \in Request |-> by[r]] /\ HasChat
  /\ SlotInv /\ \A r \in Request : Honest(r)

LEMMA PipelineInit == FlowInit => PipelineInv
<1> SUFFICES ASSUME FlowInit PROVE PipelineInv
  OBVIOUS
<1>1. TypeOK
  <2>1. gen \in 0..MaxGen
    BY BoundAssumption DEF FlowInit, FreshBroker
  <2>2. wire \in [Request -> Seq(Response)]
    BY DEF FlowInit, FreshBroker
  <2> QED BY <2>1, <2>2 DEF FlowInit, FreshBroker, TypeOK
<1>2. bootGen \in 0..MaxGen
  BY BoundAssumption DEF FlowInit
<1>3. FlowTypeOK
  BY <1>1, <1>2 DEF FlowInit, FlowTypeOK
<1>4. SlotInv
  BY DEF FlowInit, FreshBroker, SlotInv
<1>5. ASSUME NEW r \in Request PROVE Honest(r)
  BY DEF FlowInit, FreshBroker, Honest, Grants
<1> QED BY <1>3, <1>4, <1>5 DEF FlowInit, PipelineInv, HasChat

LEMMA HonestFrame ==
  ASSUME NEW r, Honest(r),
         kind'[r] = kind[r], phase'[r] = phase[r], status'[r] = status[r], decision'[r] = decision[r],
         outcome'[r] = outcome[r], wire'[r] = wire[r], r \in unwinding' => r \in unwinding
  PROVE  Honest(r)'
  BY DEF Honest

LEMMA SlotFrame ==
  ASSUME SlotInv, slot \in [Id -> Request \cup {NoRequest}],
         \A i \in Id : slot'[i] = slot[i] \/ slot'[i] = NoRequest,
         \A q \in Request : phase[q] # "idle" => phase'[q] # "idle",
         \A q \in Request : status[q] # "none" => status'[q] # "none"
  PROVE  SlotInv'
  BY DEF SlotInv

\* A step of the daemon's own that leaves the broker and the wire alone.
LEMMA DaemonKeepsPipeline ==
  ASSUME PipelineInv, UNCHANGED <<slot, rec, prom, sent>>, FlowTypeOK', by' = by, HasChat'
  PROVE  PipelineInv'
<1>1. UNCHANGED <<slot, kind, phase, status, decision, outcome, unwinding, wire>>
  BY DEF rec, prom, sent
<1>2. \A r \in Request : Honest(r)'
  BY <1>1 DEF PipelineInv, Honest
<1>3. SlotInv'
  BY <1>1 DEF PipelineInv, SlotInv
<1> QED BY <1>2, <1>3 DEF PipelineInv

\* Records closed without a decision are settled with an answer that is no grant.
LEMMA ClosingKeepsPipeline ==
  ASSUME PipelineInv, NEW S \in SUBSET Request, \A r \in S : status[r] = "pending",
         UNCHANGED <<kind, phase, slot, decision, wire, by>>,
         Settle(S, [r \in S |-> DefaultReject[kind[r]]]),
         \A r \in Request : IF r \in S THEN status'[r] \in {"expired", "transport_lost"}
                                       ELSE status'[r] = status[r]
  PROVE  /\ outcome' \in [Request -> Response \cup {"unsettled"}] /\ unwinding' \in SUBSET Request
         /\ SlotInv' /\ \A r \in Request : Honest(r)'
<1>1. TypeOK /\ \A r \in Request : Honest(r)
  BY DEF PipelineInv, FlowTypeOK
<1>2. \A r \in S : [q \in S |-> DefaultReject[kind[q]]][r] \in Response \ Grants
  <2>1. \A r \in S : kind[r] \in Kind
    BY <1>1 DEF Honest
  <2> QED BY <2>1, DefaultRejectRefuses
<1>3. /\ outcome' \in [Request -> Response \cup {"unsettled"}] /\ unwinding' \in SUBSET Request
      /\ \A r \in Request :
           /\ outcome'[r] = IF r \in S /\ outcome[r] = "unsettled"
                              THEN [q \in S |-> DefaultReject[kind[q]]][r] ELSE outcome[r]
           /\ r \in unwinding' <=> r \in unwinding \/ (r \in S /\ outcome[r] = "unsettled")
  BY <1>1, <1>2, SettleFacts
<1>4. ASSUME NEW r \in Request PROVE Honest(r)'
  <2>1. CASE r \notin S
    BY <1>1, <1>3, <2>1, HonestFrame
  <2>2. CASE r \in S /\ outcome[r] # "unsettled"
    BY <1>1, <1>3, <2>2 DEF Honest
  <2>3. CASE r \in S /\ outcome[r] = "unsettled"
    <3>1. /\ outcome'[r] \in Response \ Grants /\ outcome'[r] # "unsettled"
          /\ status[r] = "pending" /\ status'[r] \in {"expired", "transport_lost"}
      BY <1>2, <1>3, <2>3 DEF Response, Grants, Refusals
    <3> QED BY <1>1, <2>3, <3>1 DEF Honest
  <2> QED BY <2>1, <2>2, <2>3
<1>5. SlotInv'
  <2>1. slot \in [Id -> Request \cup {NoRequest}] /\ SlotInv
    BY <1>1 DEF TypeOK, PipelineInv
  <2> QED BY <2>1, SlotFrame
<1> QED BY <1>3, <1>4, <1>5

\* A decision is an answer codex gets, or one that came too late for it.
LEMMA DecidingKeepsPipeline ==
  ASSUME PipelineInv, NEW q \in Request, status[q] = "pending",
         NEW a \in UiAction, Supported(kind[q], a), Decide(q, a),
         UNCHANGED <<kind, phase, slot, wire>>
  PROVE  /\ outcome' \in [Request -> Response \cup {"unsettled"}] /\ unwinding' \in SUBSET Request
         /\ status' \in [Request -> {"none", "pending"} \cup Terminal]
         /\ decision' \in [Request -> UiAction \cup {"none"}] /\ decidedAt' \in [Request -> Nat]
         /\ SlotInv' /\ \A r \in Request : Honest(r)'
<1>1. TypeOK /\ (\A r \in Request : Honest(r)) /\ Honest(q)
  BY DEF PipelineInv, FlowTypeOK
<1>2. PICK answer : answer = WireDecision(kind[q], a)
  OBVIOUS
<1>3. kind[q] \in Kind /\ answer \in Response /\ decision[q] = "none" /\ outcome[q] \notin Grants
      /\ phase[q] # "idle"
  <2>1. kind[q] \in Kind /\ decision[q] = "none" /\ phase[q] # "idle" /\ outcome[q] \notin Grants
    BY <1>1 DEF Honest
  <2> QED BY <1>2, <2>1, WireDecisionTyped
<1>4. /\ decision' = [decision EXCEPT ![q] = a] /\ decidedAt' = [decidedAt EXCEPT ![q] = now]
      /\ status' = [status EXCEPT ![q] = "resolved"]
      /\ Settle({q}, [r \in {q} |-> answer])
  BY <1>2 DEF Decide
<1>5. /\ outcome' \in [Request -> Response \cup {"unsettled"}] /\ unwinding' \in SUBSET Request
      /\ \A r \in Request :
           /\ outcome'[r] = IF r \in {q} /\ outcome[r] = "unsettled"
                              THEN [x \in {q} |-> answer][r] ELSE outcome[r]
           /\ r \in unwinding' <=> r \in unwinding \/ (r \in {q} /\ outcome[r] = "unsettled")
  <2>1. \A r \in {q} : [x \in {q} |-> answer][r] \in Response
    BY <1>3
  <2>2. {q} \in SUBSET Request
    OBVIOUS
  <2> QED BY <1>1, <1>4, <2>1, <2>2, SettleFacts
<1>6. ASSUME NEW r \in Request PROVE Honest(r)'
  <2>1. CASE r # q
    BY <1>1, <1>4, <1>5, <2>1, HonestFrame DEF TypeOK
  <2>2. CASE r = q
    <3>1. decision'[q] = a /\ status'[q] = "resolved" /\ a # "none"
      BY <1>1, <1>4 DEF TypeOK, UiAction
    <3>2. CASE outcome[q] = "unsettled"
      <4>1. outcome'[q] = answer /\ answer # "unsettled"
        BY <1>3, <1>5, <3>2 DEF Response, Grants, Refusals
      <4> QED BY <1>1, <1>2, <1>3, <2>2, <3>1, <3>2, <4>1 DEF Honest
    <3>3. CASE outcome[q] # "unsettled"
      <4>1. outcome'[q] = outcome[q] /\ (q \in unwinding' <=> q \in unwinding)
        BY <1>5, <3>3
      <4> QED BY <1>1, <1>3, <2>2, <3>1, <4>1 DEF Honest
    <3> QED BY <3>2, <3>3
  <2> QED BY <2>1, <2>2
<1>7. SlotInv'
  <2>1. slot \in [Id -> Request \cup {NoRequest}] /\ SlotInv
    BY <1>1 DEF TypeOK, PipelineInv
  <2>2. \A r \in Request : status[r] # "none" => status'[r] # "none"
    BY <1>1, <1>4 DEF TypeOK
  <2> QED BY <2>1, <2>2, SlotFrame
<1>8. /\ status' \in [Request -> {"none", "pending"} \cup Terminal]
      /\ decision' \in [Request -> UiAction \cup {"none"}] /\ decidedAt' \in [Request -> Nat]
  BY <1>1, <1>4 DEF TypeOK, Terminal
<1> QED BY <1>5, <1>6, <1>7, <1>8

LEMMA ReceiveKeepsPipeline ==
  ASSUME PipelineInv, NEW r \in Request, NEW k \in Kind, ReceiveRequest(r, k)
  PROVE  PipelineInv'
<1>1. /\ TypeOK /\ FlowTypeOK /\ (\A q \in Request : Honest(q)) /\ SlotInv
      /\ IdOf(r) \in Id
  BY RequestIds DEF PipelineInv, FlowTypeOK
<1>2. /\ phase[r] = "idle" /\ kind' = [kind EXCEPT ![r] = k] /\ phase' = [phase EXCEPT ![r] = "waiting"]
      /\ created' = [created EXCEPT ![r] = now] /\ job' = [job EXCEPT ![r] = "new"]
      /\ UNCHANGED <<table, now, conn, policy, decidedAt, decision, wire, dest, shown, rows, click, by,
                     stuck, bootGen>>
  BY DEF ReceiveRequest, Handle
<1>3. \/ /\ outcome' = [outcome EXCEPT ![r] = DefaultReject[k]] /\ unwinding' = unwinding \cup {r}
         /\ UNCHANGED <<slot, status, handler>>
      \/ /\ slot' = [slot EXCEPT ![IdOf(r)] = r] /\ status' = [status EXCEPT ![r] = "pending"]
         /\ \E h \in {"running", "none"} : handler' = [handler EXCEPT ![r] = h]
         /\ UNCHANGED <<outcome, unwinding>>
  BY DEF ReceiveRequest, Handle, prom
<1>4. DefaultReject[k] \in Response \ Grants /\ DefaultReject[k] # "unsettled"
  BY DefaultRejectRefuses DEF Response, Grants, Refusals
<1>5. /\ outcome' \in [Request -> Response \cup {"unsettled"}] /\ unwinding' \in SUBSET Request
      /\ slot' \in [Id -> Request \cup {NoRequest}]
      /\ status' \in [Request -> {"none", "pending"} \cup Terminal]
      /\ handler' \in [Request -> {"none", "running", "done"}]
  <2>1. CASE /\ outcome' = [outcome EXCEPT ![r] = DefaultReject[k]] /\ unwinding' = unwinding \cup {r}
             /\ UNCHANGED <<slot, status, handler>>
    BY <1>1, <1>4, <2>1 DEF TypeOK
  <2>2. CASE /\ slot' = [slot EXCEPT ![IdOf(r)] = r] /\ status' = [status EXCEPT ![r] = "pending"]
             /\ \E h \in {"running", "none"} : handler' = [handler EXCEPT ![r] = h]
             /\ UNCHANGED <<outcome, unwinding>>
    <3>1. PICK h \in {"running", "none"} : handler' = [handler EXCEPT ![r] = h]
      BY <2>2
    <3>2. handler' \in [Request -> {"none", "running", "done"}]
      BY <1>1, <3>1 DEF TypeOK
    <3>3. slot' \in [Id -> Request \cup {NoRequest}] /\ status' \in [Request -> {"none", "pending"} \cup Terminal]
      BY <1>1, <2>2 DEF TypeOK
    <3> QED BY <1>1, <2>2, <3>2, <3>3 DEF TypeOK
  <2> QED BY <1>3, <2>1, <2>2
<1>6. /\ kind' \in [Request -> Kind \cup {"none"}] /\ created' \in [Request -> Nat]
      /\ phase' \in [Request -> {"idle", "waiting", "answered", "dropped"}]
      /\ job' \in [Request -> {"none", "new", "issued", "sending", "done", "bind_failed", "over"}]
  BY <1>1, <1>2 DEF TypeOK, FlowTypeOK
<1>7. FlowTypeOK'
  <2>1. UNCHANGED <<mode, now, gen, open, lostFired, halted, policy, decidedAt, decision, wire, dest,
                    shown, token, issuedAt, click, by, flagged, failedOnce, bootGen>>
    BY <1>2 DEF table, conn, rows, stuck
  <2>2. TypeOK'
    BY <1>1, <1>5, <1>6, <2>1 DEF TypeOK
  <2> QED BY <1>1, <1>6, <2>1, <2>2 DEF FlowTypeOK
<1>8. ASSUME NEW q \in Request, q # r PROVE Honest(q)'
  <2>1. /\ kind'[q] = kind[q] /\ phase'[q] = phase[q] /\ status'[q] = status[q]
        /\ outcome'[q] = outcome[q] /\ (q \in unwinding' => q \in unwinding)
    BY <1>1, <1>2, <1>3, <1>8 DEF TypeOK
  <2> QED BY <1>1, <1>2, <2>1, HonestFrame
<1>9. Honest(r)'
  <2>1. /\ status[r] = "none" /\ r \notin unwinding /\ outcome[r] = "unsettled" /\ decision[r] = "none"
        /\ wire[r] = << >>
    BY <1>1, <1>2 DEF Honest
  <2>2. kind'[r] = k /\ phase'[r] = "waiting" /\ decision'[r] = "none" /\ wire'[r] = << >>
    BY <1>1, <1>2, <2>1 DEF TypeOK
  <2>3. outcome'[r] \notin Grants /\ (r \in unwinding' => outcome'[r] # "unsettled")
    BY <1>1, <1>3, <1>4, <2>1 DEF TypeOK, Grants
  <2> QED BY <2>2, <2>3 DEF Honest
<1>10. SlotInv'
  <2>1. ASSUME NEW i \in Id, slot'[i] # NoRequest
        PROVE  IdOf(slot'[i]) = i /\ phase'[slot'[i]] # "idle" /\ status'[slot'[i]] # "none"
    <3>1. CASE slot'[i] = slot[i]
      <4>1. slot[i] \in Request /\ IdOf(slot[i]) = i /\ phase[slot[i]] # "idle" /\ status[slot[i]] # "none"
        BY <1>1, <2>1, <3>1 DEF TypeOK, SlotInv
      <4>2. phase'[slot[i]] # "idle" /\ status'[slot[i]] # "none"
        BY <1>1, <1>2, <1>3, <4>1 DEF TypeOK
      <4> QED BY <3>1, <4>1, <4>2
    <3>2. CASE slot'[i] # slot[i]
      <4>1. i = IdOf(r) /\ slot'[i] = r /\ status' = [status EXCEPT ![r] = "pending"]
        BY <1>1, <1>3, <3>2 DEF TypeOK
      <4> QED BY <1>1, <1>2, <4>1 DEF TypeOK
    <3> QED BY <3>1, <3>2
  <2> QED BY <2>1 DEF SlotInv
<1>11. HasChat'
  BY <1>1, <1>2 DEF PipelineInv, HasChat, FlowTypeOK
<1> QED BY <1>2, <1>7, <1>8, <1>9, <1>10, <1>11 DEF PipelineInv

LEMMA AutoDeclineKeepsPipeline ==
  ASSUME PipelineInv, NEW r \in Request, NEW t \in Target, AutoDecline(r, t)
  PROVE  PipelineInv'
<1>1. /\ TypeOK /\ FlowTypeOK /\ (\A o \in Request : Honest(o)) /\ SlotInv /\ IdOf(r) \in Id
      /\ by = [o \in Request |-> by[o]] /\ HasChat
  BY RequestIds DEF PipelineInv, FlowTypeOK
<1>2. PICK i, q : i = IdOf(r) /\ q = slot[i]
  OBVIOUS
<1>3. /\ job' = [job EXCEPT ![r] = "over"] /\ dest' = [dest EXCEPT ![r] = t]
      /\ UNCHANGED <<mode, now, gen, open, lostFired, halted, slot, kind, created, handler, phase, wire,
                     shown, token, issuedAt, click, flagged, failedOnce, bootGen>>
  BY DEF AutoDecline, table, conn, sent, rows, stuck
<1>4. /\ job' \in [Request -> {"none", "new", "issued", "sending", "done", "bind_failed", "over"}]
      /\ dest' \in [Request -> Target \cup {NoTarget}]
  BY <1>1, <1>3 DEF FlowTypeOK
<1>8. HasChat'
  BY <1>1, <1>3 DEF HasChat, FlowTypeOK
<1>5. ASSUME policy' \in [Id -> Policy \cup {NoPolicy}],
             status' \in [Request -> {"none", "pending"} \cup Terminal],
             decidedAt' \in [Request -> Nat], decision' \in [Request -> UiAction \cup {"none"}],
             outcome' \in [Request -> Response \cup {"unsettled"}], unwinding' \in SUBSET Request,
             by' = by \/ \E x \in Request \X Actor \X Target \X UiAction : by' = [by EXCEPT ![q] = x]
      PROVE  FlowTypeOK' /\ by' = [o \in Request |-> by'[o]]
  <2>1. TypeOK'
    BY <1>1, <1>3, <1>5 DEF TypeOK
  <2>2. /\ by' = [o \in Request |-> by'[o]]
        /\ \A o \in Request : by'[o] = << >> \/ by'[o] \in Request \X Actor \X Target \X UiAction
    <3>1. \A o \in Request : by[o] = << >> \/ by[o] \in Request \X Actor \X Target \X UiAction
      BY <1>1 DEF FlowTypeOK
    <3>2. CASE by' = by
      BY <1>1, <3>1, <3>2
    <3>3. ASSUME NEW x \in Request \X Actor \X Target \X UiAction, by' = [by EXCEPT ![q] = x]
          PROVE <2>2
      <4>1. \A o \in Request : by'[o] = IF o = q THEN x ELSE by[o]
        BY <1>1, <3>3
      <4>2. by' = [o \in Request |-> by'[o]]
        BY <1>1, <3>3
      <4> QED BY <3>1, <4>1, <4>2
    <3> QED BY <1>5, <3>2, <3>3
  <2> QED BY <1>1, <1>3, <1>4, <2>1, <2>2 DEF FlowTypeOK
<1>6. CASE ~(q # NoRequest /\ status[q] = "pending" /\ policy[i] = NoPolicy)
  <2>1. UNCHANGED <<policy, status, decidedAt, decision, outcome, unwinding, by>>
    BY <1>2, <1>6 DEF AutoDecline, prom
  <2>2. FlowTypeOK' /\ by' = [o \in Request |-> by'[o]]
    BY <1>1, <1>5, <2>1 DEF TypeOK
  <2>3. SlotInv'
    BY <1>1, <1>3, <2>1 DEF SlotInv
  <2>4. \A o \in Request : Honest(o)'
    BY <1>1, <1>3, <2>1 DEF Honest
  <2> QED BY <1>8, <2>2, <2>3, <2>4 DEF PipelineInv
<1>7. CASE q # NoRequest /\ status[q] = "pending" /\ policy[i] = NoPolicy
  <2>1. q \in Request /\ kind[q] \in Kind
    <3>1. q \in Request
      BY <1>1, <1>2, <1>7 DEF TypeOK
    <3> QED BY <1>1, <1>7, <3>1 DEF Honest
  <2>2. policy' \in [Id -> Policy \cup {NoPolicy}]
    <3>1. policy' = [policy EXCEPT ![i] = [allowedActors |-> {System}, target |-> t, callbackNonce |-> r]]
      BY <1>2, <1>7 DEF AutoDecline
    <3>2. [allowedActors |-> {System}, target |-> t, callbackNonce |-> r] \in Policy
      BY FlowAssumption DEF Policy
    <3> QED BY <1>1, <3>1, <3>2 DEF TypeOK
  <2>3. CASE now >= created[q] + Ttl
    <3>1. CloseRecords({q}, "expired") /\ UNCHANGED <<decision, by>>
      BY <1>2, <1>7, <2>3 DEF AutoDecline
    <3>2. /\ status' = [o \in Request |-> IF o \in {q} THEN "expired" ELSE status[o]]
          /\ decidedAt' = [o \in Request |-> IF o \in {q} THEN now ELSE decidedAt[o]]
          /\ Settle({q}, [o \in {q} |-> DefaultReject[kind[o]]])
      BY <3>1 DEF CloseRecords
    <3>3. /\ status' \in [Request -> {"none", "pending"} \cup Terminal] /\ decidedAt' \in [Request -> Nat]
          /\ \A o \in Request : IF o \in {q} THEN status'[o] \in {"expired", "transport_lost"}
                                              ELSE status'[o] = status[o]
      BY <1>1, <3>2 DEF TypeOK, Terminal
    <3>4. /\ outcome' \in [Request -> Response \cup {"unsettled"}] /\ unwinding' \in SUBSET Request
          /\ SlotInv' /\ \A o \in Request : Honest(o)'
      <4>1. {q} \in SUBSET Request /\ \A o \in {q} : status[o] = "pending"
        BY <1>7, <2>1
      <4> QED BY <1>3, <3>1, <3>2, <3>3, <4>1, ClosingKeepsPipeline
    <3> QED BY <1>1, <1>5, <1>8, <2>2, <3>1, <3>3, <3>4 DEF PipelineInv, TypeOK
  <2>4. CASE ~(now >= created[q] + Ttl)
    <3>1. Decide(q, "decline") /\ by' = [by EXCEPT ![q] = <<r, System, t, "decline">>]
      BY <1>2, <1>7, <2>4 DEF AutoDecline
    <3>2. "decline" \in UiAction /\ Supported(kind[q], "decline")
      <4>1. kind[q] \in ApprovalKind
        BY <2>1, KindAssumption
      <4> QED BY <4>1 DEF UiAction, Supported, ApprovalKind, KindDispatch, V2Row, LegacyRow
    <3>3. <<r, System, t, "decline">> \in Request \X Actor \X Target \X UiAction
      BY <3>2, FlowAssumption
    <3>4. /\ outcome' \in [Request -> Response \cup {"unsettled"}] /\ unwinding' \in SUBSET Request
          /\ status' \in [Request -> {"none", "pending"} \cup Terminal]
          /\ decision' \in [Request -> UiAction \cup {"none"}] /\ decidedAt' \in [Request -> Nat]
          /\ SlotInv' /\ \A o \in Request : Honest(o)'
      BY <1>3, <1>7, <2>1, <3>1, <3>2, DecidingKeepsPipeline
    <3> QED BY <1>5, <1>8, <2>2, <3>1, <3>3, <3>4 DEF PipelineInv
  <2> QED BY <2>3, <2>4
<1> QED BY <1>6, <1>7

\* The steps of a card job that leave the broker to itself, or bind a policy.
LEMMA JobKeepsPipeline ==
  ASSUME PipelineInv, NEW r \in Request,
         \/ NoCard(r) \/ SendCard(r) \/ CardAppears(r) \/ SendFails(r) \/ BindTokens(r) \/ BindThrows(r)
         \/ \E t \in Target : IssueTokens(r, t)
  PROVE  PipelineInv'
<1>1. /\ TypeOK /\ FlowTypeOK /\ HasChat /\ IdOf(r) \in Id
  BY RequestIds DEF PipelineInv, FlowTypeOK
<1>2. /\ UNCHANGED <<table, now, conn, slot, rec, prom, sent>> /\ by' = by /\ click' = click
      /\ bootGen' = bootGen /\ failedOnce' = failedOnce
  BY DEF NoCard, SendCard, CardAppears, SendFails, BindTokens, BindThrows, IssueTokens, vars, maps, stuck
<1>3. policy' \in [Id -> Policy \cup {NoPolicy}]
  <2>1. CASE SendCard(r)
    <3>1. \/ policy' = policy
          \/ policy' = [policy EXCEPT ![IdOf(r)] = [allowedActors |-> Member, target |-> dest[r],
                                                    callbackNonce |-> r]]
      BY <2>1 DEF SendCard, BindAttempt
    <3>2. [allowedActors |-> Member, target |-> dest[r], callbackNonce |-> r] \in Policy
      <4>1. dest[r] \in Target
        BY <1>1, <2>1 DEF SendCard, HasChat
      <4> QED BY <4>1, FlowAssumption DEF Policy
    <3> QED BY <1>1, <3>1, <3>2 DEF TypeOK
  <2>2. CASE ~SendCard(r)
    <3>1. policy' = policy
      BY <2>2 DEF NoCard, CardAppears, SendFails, BindTokens, BindThrows, IssueTokens, vars, maps
    <3> QED BY <1>1, <3>1 DEF TypeOK
  <2> QED BY <2>1, <2>2
<1>4. TypeOK'
  BY <1>1, <1>2, <1>3 DEF TypeOK, table, conn, rec, prom, sent
<1>5. /\ job' \in [Request -> {"none", "new", "issued", "sending", "done", "bind_failed", "over"}]
      /\ dest' \in [Request -> Target \cup {NoTarget}] /\ HasChat'
  <2>1. ASSUME NEW j \in {"sending", "done", "bind_failed", "over"},
               job' = [job EXCEPT ![r] = j], dest' = dest
        PROVE  <1>5
    BY <1>1, <2>1 DEF FlowTypeOK, HasChat
  <2>2. CASE NoCard(r)
    BY <2>1, <2>2 DEF NoCard
  <2>3. CASE SendCard(r)
    BY <2>1, <2>3 DEF SendCard
  <2>4. CASE CardAppears(r)
    BY <1>1, <2>4 DEF CardAppears, FlowTypeOK, HasChat
  <2>5. CASE SendFails(r)
    BY <2>1, <2>5 DEF SendFails
  <2>6. CASE BindTokens(r)
    BY <2>1, <2>6 DEF BindTokens
  <2>7. CASE BindThrows(r)
    BY <2>1, <2>7 DEF BindThrows
  <2>8. ASSUME NEW t \in Target, IssueTokens(r, t) PROVE <1>5
    <3>1. job' = [job EXCEPT ![r] = "issued"] /\ dest' = [dest EXCEPT ![r] = t]
      BY <2>8 DEF IssueTokens
    <3> QED BY <1>1, <3>1 DEF FlowTypeOK, HasChat
  <2> QED BY <2>2, <2>3, <2>4, <2>5, <2>6, <2>7, <2>8
<1>6. shown' \in SUBSET Request /\ issuedAt' \in [Request -> Nat] /\ flagged' \in SUBSET Id
  <2>1. shown' = shown \/ shown' = shown \cup {r}
    BY DEF NoCard, SendCard, CardAppears, SendFails, BindTokens, BindThrows, IssueTokens
  <2>2. issuedAt' = issuedAt \/ issuedAt' = [issuedAt EXCEPT ![r] = now]
    BY DEF NoCard, SendCard, CardAppears, SendFails, BindTokens, BindThrows, IssueTokens, rows
  <2>3. flagged' = flagged \/ flagged' = flagged \cup {IdOf(r)}
    BY DEF NoCard, SendCard, CardAppears, SendFails, BindTokens, BindThrows, IssueTokens, stuck
  <2> QED BY <1>1, <2>1, <2>2, <2>3 DEF FlowTypeOK, TypeOK
<1>7. token' \in [Button -> {"none"} \cup Live \cup Retired]
  <2>1. \/ token' = token
        \/ /\ token' = [b \in Button |-> token'[b]]
           /\ \A b \in Button : token'[b] \in {"issued", "bound", token[b]}
    BY DEF NoCard, SendCard, CardAppears, SendFails, BindTokens, BindThrows, IssueTokens, rows
  <2> QED BY <1>1, <2>1 DEF FlowTypeOK, Live
<1>8. FlowTypeOK'
  BY <1>1, <1>2, <1>4, <1>5, <1>6, <1>7 DEF FlowTypeOK
<1> QED BY <1>2, <1>5, <1>8, DaemonKeepsPipeline

\* The write-back of a click.
LEMMA WriteBackKeepsPipeline ==
  ASSUME PipelineInv, NEW b \in Button, MarkUsed(b) \/ MarkFails(b) \/ Finalize(b)
  PROVE  PipelineInv'
<1>1. TypeOK /\ FlowTypeOK /\ HasChat
  BY DEF PipelineInv, FlowTypeOK
<1>2. /\ UNCHANGED <<table, now, conn, maps, rec, prom, sent, job, dest, shown, issuedAt, by, flagged,
                     failedOnce, bootGen>>
  BY DEF MarkUsed, MarkFails, Finalize, vars, cards, rows, stuck
<1>3. TypeOK' /\ HasChat'
  BY <1>1, <1>2 DEF TypeOK, HasChat, table, conn, maps, rec, prom, sent
<1>4. click' \in [Button -> {"none", "accepted", "marked", "done"}]
  <2>1. \E c \in {"marked", "done"} : click' = [click EXCEPT ![b] = c]
    BY DEF MarkUsed, MarkFails, Finalize
  <2> QED BY <1>1, <2>1 DEF FlowTypeOK
<1>5. token' \in [Button -> {"none"} \cup Live \cup Retired]
  <2>1. \/ token' = token \/ token' = [token EXCEPT ![b] = "used"]
        \/ /\ token' = [o \in Button |-> token'[o]]
           /\ \A o \in Button : token'[o] \in {"revoked", token[o]}
    BY DEF MarkUsed, MarkFails, Finalize, rows
  <2> QED BY <1>1, <2>1 DEF FlowTypeOK, Retired
<1>6. FlowTypeOK'
  BY <1>1, <1>2, <1>3, <1>4, <1>5 DEF FlowTypeOK
<1> QED BY <1>2, <1>3, <1>6, DaemonKeepsPipeline DEF maps

LEMMA ClickKeepsPipeline ==
  ASSUME PipelineInv, NEW b \in Button, NEW u \in Actor, NEW t \in Target,
         ClickAccepted(b, u, t) \/ ClickExpires(b, u, t)
  PROVE  PipelineInv'
<1>1. /\ TypeOK /\ FlowTypeOK /\ HasChat /\ (\A o \in Request : Honest(o)) /\ SlotInv
      /\ by = [o \in Request |-> by[o]]
  BY DEF PipelineInv, FlowTypeOK
<1>2. PICK r, i, q : r = CardOf(b) /\ i = IdOf(r) /\ q = slot[i]
  OBVIOUS
<1>3. r \in Request /\ i \in Id /\ ActionOf(b) \in UiAction
  BY <1>2, ButtonParts, RequestIds, FlowAssumption DEF Button, ActionOf
<1>4. /\ ResultOf(b, u) \in {"ok", "expires_now"}
      /\ UNCHANGED <<mode, now, gen, open, lostFired, halted, slot, policy, kind, created, handler,
                     phase, wire, job, dest, shown, token, issuedAt, flagged, failedOnce, bootGen>>
  BY DEF ClickAccepted, ClickExpires, table, conn, maps, sent, cards, rows, stuck, daemonVars
<1>5. /\ q \in Request /\ status[q] = "pending" /\ kind[q] \in Kind
      /\ ResultOf(b, u) = "ok" => Supported(kind[q], ActionOf(b))
  <2>1. ResolveResult(i, ClickOf(b, u)) \in {"ok", "expires_now"}
    BY <1>2, <1>4 DEF ResultOf
  <2>2. q # NoRequest
    BY <1>2, <2>1 DEF ResolveResult
  <2>3. q \in Request /\ status[q] # "none"
    BY <1>1, <1>2, <1>3, <2>2 DEF TypeOK, SlotInv
  <2>4. status[q] = "pending"
    BY <1>1, <1>2, <2>1, <2>2, <2>3 DEF ResolveResult, TypeOK, Terminal
  <2>5. kind[q] \in Kind
    BY <1>1, <2>3, <2>4 DEF Honest
  <2>6. ResultOf(b, u) = "ok" => Supported(kind[q], ActionOf(b))
    BY <1>2, <2>2, <2>4 DEF ResultOf, ResolveResult, ClickOf
  <2> QED BY <2>3, <2>4, <2>5, <2>6
<1>6. HasChat'
  BY <1>1, <1>4 DEF HasChat
<1>7. CASE ClickAccepted(b, u, t)
  <2>1. /\ ResultOf(b, u) = "ok" /\ Decide(q, ActionOf(b)) /\ click' = [click EXCEPT ![b] = "accepted"]
        /\ by' = [by EXCEPT ![q] = <<r, u, t, ActionOf(b)>>]
    BY <1>2, <1>7 DEF ClickAccepted
  <2>2. /\ outcome' \in [Request -> Response \cup {"unsettled"}] /\ unwinding' \in SUBSET Request
        /\ status' \in [Request -> {"none", "pending"} \cup Terminal]
        /\ decision' \in [Request -> UiAction \cup {"none"}] /\ decidedAt' \in [Request -> Nat]
        /\ SlotInv' /\ \A o \in Request : Honest(o)'
    BY <1>3, <1>4, <1>5, <2>1, DecidingKeepsPipeline
  <2>3. TypeOK'
    BY <1>1, <1>4, <2>2 DEF TypeOK
  <2>4. /\ by' = [o \in Request |-> by'[o]]
        /\ \A o \in Request : by'[o] = << >> \/ by'[o] \in Request \X Actor \X Target \X UiAction
    <3>1. \A o \in Request : by[o] = << >> \/ by[o] \in Request \X Actor \X Target \X UiAction
      BY <1>1 DEF FlowTypeOK
    <3>2. PICK x : x = <<r, u, t, ActionOf(b)>>
      OBVIOUS
    <3>3. x \in Request \X Actor \X Target \X UiAction
      BY <1>3, <3>2
    <3>4. \A o \in Request : by'[o] = IF o = q THEN x ELSE by[o]
      BY <1>1, <2>1, <3>2
    <3>5. by' = [o \in Request |-> by'[o]]
      BY <1>1, <2>1
    <3> QED BY <3>1, <3>3, <3>4, <3>5
  <2>5. click' \in [Button -> {"none", "accepted", "marked", "done"}]
    BY <1>1, <2>1 DEF FlowTypeOK
  <2>6. FlowTypeOK'
    BY <1>1, <1>4, <2>3, <2>4, <2>5 DEF FlowTypeOK
  <2> QED BY <1>6, <2>2, <2>4, <2>6 DEF PipelineInv
<1>8. CASE ClickExpires(b, u, t)
  <2>1. CloseRecords({q}, "expired") /\ decision' = decision /\ click' = click /\ by' = by
    BY <1>2, <1>8 DEF ClickExpires, daemonVars
  <2>2. /\ status' = [o \in Request |-> IF o \in {q} THEN "expired" ELSE status[o]]
        /\ decidedAt' = [o \in Request |-> IF o \in {q} THEN now ELSE decidedAt[o]]
        /\ Settle({q}, [o \in {q} |-> DefaultReject[kind[o]]])
    BY <2>1 DEF CloseRecords
  <2>3. /\ status' \in [Request -> {"none", "pending"} \cup Terminal] /\ decidedAt' \in [Request -> Nat]
        /\ \A o \in Request : IF o \in {q} THEN status'[o] \in {"expired", "transport_lost"}
                                            ELSE status'[o] = status[o]
    BY <1>1, <2>2 DEF TypeOK, Terminal
  <2>4. /\ outcome' \in [Request -> Response \cup {"unsettled"}] /\ unwinding' \in SUBSET Request
        /\ SlotInv' /\ \A o \in Request : Honest(o)'
    <3>1. {q} \in SUBSET Request /\ \A o \in {q} : status[o] = "pending"
      BY <1>5
    <3> QED BY <1>4, <2>1, <2>2, <2>3, <3>1, ClosingKeepsPipeline
  <2>5. TypeOK'
    BY <1>1, <1>4, <2>1, <2>3, <2>4 DEF TypeOK
  <2>6. FlowTypeOK'
    BY <1>1, <1>4, <2>1, <2>5 DEF FlowTypeOK
  <2> QED BY <1>1, <1>6, <2>1, <2>4, <2>6 DEF PipelineInv
<1> QED BY <1>7, <1>8

\* The sweep closes what its stuck rows and its deadline name.
LEMMA SweepKeepsPipeline ==
  ASSUME PipelineInv, Sweep
  PROVE  PipelineInv'
<1>1. /\ TypeOK /\ FlowTypeOK /\ HasChat /\ by = [r \in Request |-> by[r]]
  BY DEF PipelineInv, FlowTypeOK
<1>2. PICK hit : hit = {IdOf(CardOf(b)) : b \in StuckRows}
  OBVIOUS
<1>3. PICK lost : lost = {r \in LivePending : IdOf(r) \in hit \ failedOnce}
  OBVIOUS
<1>4. PICK old : old = {r \in LivePending \ lost : created[r] + SweepAge <= now}
  OBVIOUS
<1>5. /\ token' = [b \in Button |-> IF b \in Expirable THEN "expired"
                                    ELSE IF b \in StuckRows THEN "revoked" ELSE token[b]]
      /\ flagged' = flagged \cap hit
      /\ failedOnce' = (failedOnce \cup hit) \ (flagged \ hit)
      /\ status' = [r \in Request |-> IF r \in lost THEN "transport_lost"
                                      ELSE IF r \in old THEN "expired" ELSE status[r]]
      /\ decidedAt' = [r \in Request |-> IF r \in lost \cup old THEN now ELSE decidedAt[r]]
      /\ Settle(lost \cup old, [r \in lost \cup old |-> DefaultReject[kind[r]]])
  BY <1>2, <1>3, <1>4 DEF Sweep
<1>6. UNCHANGED <<mode, now, gen, open, lostFired, halted, slot, policy, kind, created, decision, handler,
                  phase, wire, job, dest, shown, issuedAt, click, by, bootGen>>
  BY DEF Sweep, table, conn, maps, sent, cards
<1>7. lost \cup old \in SUBSET Request /\ \A r \in lost \cup old : status[r] = "pending"
  BY <1>3, <1>4 DEF LivePending
<1>8. hit \in SUBSET Id
  BY <1>2, ButtonParts, RequestIds DEF StuckRows
<1>9. /\ status' \in [Request -> {"none", "pending"} \cup Terminal] /\ decidedAt' \in [Request -> Nat]
      /\ \A r \in Request : IF r \in lost \cup old THEN status'[r] \in {"expired", "transport_lost"}
                                                   ELSE status'[r] = status[r]
  BY <1>1, <1>5 DEF TypeOK, Terminal
<1>10. /\ outcome' \in [Request -> Response \cup {"unsettled"}] /\ unwinding' \in SUBSET Request
       /\ SlotInv' /\ \A r \in Request : Honest(r)'
  <2>1. PICK S : S = lost \cup old
    OBVIOUS
  <2>2. /\ S \in SUBSET Request /\ (\A r \in S : status[r] = "pending")
        /\ Settle(S, [r \in S |-> DefaultReject[kind[r]]])
        /\ \A r \in Request : IF r \in S THEN status'[r] \in {"expired", "transport_lost"}
                                         ELSE status'[r] = status[r]
    BY <1>5, <1>7, <1>9, <2>1
  <2> QED BY <1>6, <2>2, ClosingKeepsPipeline
<1>11. TypeOK'
  BY <1>1, <1>6, <1>9, <1>10 DEF TypeOK
<1>12. /\ token' \in [Button -> {"none"} \cup Live \cup Retired]
       /\ flagged' \in SUBSET Id /\ failedOnce' \in SUBSET Id
  BY <1>1, <1>5, <1>8 DEF FlowTypeOK, Retired
<1>13. FlowTypeOK'
  BY <1>1, <1>6, <1>11, <1>12 DEF FlowTypeOK
<1>14. HasChat'
  BY <1>1, <1>6 DEF HasChat
<1> QED BY <1>1, <1>6, <1>10, <1>13, <1>14 DEF PipelineInv

\* A new process knows nothing of the requests of the last one.
LEMMA RestartKeepsPipeline ==
  ASSUME PipelineInv, DaemonRestarts
  PROVE  PipelineInv'
<1>1. /\ TypeOK /\ FlowTypeOK /\ HasChat /\ by = [r \in Request |-> by[r]]
      /\ \A r \in Request : Honest(r)
  BY DEF PipelineInv, FlowTypeOK
<1>2. /\ open' = FALSE /\ lostFired' = FALSE /\ halted' = FALSE
      /\ slot' = [i \in Id |-> NoRequest] /\ policy' = [i \in Id |-> NoPolicy]
      /\ status' = [r \in Request |-> IF status[r] = "pending" THEN "none" ELSE status[r]]
      /\ phase' = [r \in Request |-> IF phase[r] = "waiting" THEN "dropped" ELSE phase[r]]
      /\ unwinding' = {}
      /\ UNCHANGED <<mode, now, gen, kind, created, decidedAt, decision, handler, outcome, wire>>
  BY DEF DaemonRestarts, table
<1>3. TypeOK'
  BY <1>1, <1>2 DEF TypeOK
<1>4. /\ job' = [r \in Request |-> IF job[r] = "none" THEN "none" ELSE "over"]
      /\ click' = [b \in Button |-> "none"]
      /\ token' = [b \in Button |-> IF token[b] \in Live THEN "revoked" ELSE token[b]]
      /\ flagged' = {} /\ failedOnce' = {} /\ bootGen' = gen
      /\ UNCHANGED <<dest, shown, issuedAt, by>>
  BY DEF DaemonRestarts
<1>5. FlowTypeOK'
  BY <1>1, <1>3, <1>4 DEF FlowTypeOK, TypeOK, Retired
<1>6. HasChat'
  BY <1>1, <1>4 DEF HasChat
<1>7. SlotInv'
  BY <1>2 DEF SlotInv
<1>8. ASSUME NEW r \in Request PROVE Honest(r)'
  BY <1>1, <1>2 DEF Honest, TypeOK
<1> QED BY <1>1, <1>4, <1>5, <1>6, <1>7, <1>8 DEF PipelineInv

\* An answer is put on the wire of a request that waits.
LEMMA DeliverKeepsPipeline ==
  ASSUME PipelineInv, NEW r \in Request, NEW v \in Response, phase[r] = "waiting", Deliver(r, v),
         v = "err_handler" \/ (v = outcome[r] /\ outcome[r] # "unsettled"),
         UNCHANGED <<kind, status, decision, outcome>>, unwinding' \subseteq unwinding
  PROVE  /\ phase' \in [Request -> {"idle", "waiting", "answered", "dropped"}]
         /\ wire' \in [Request -> Seq(Response)]
         /\ (\A q \in Request : phase[q] # "idle" => phase'[q] # "idle")
         /\ \A q \in Request : Honest(q)'
<1>1. /\ phase \in [Request -> {"idle", "waiting", "answered", "dropped"}]
      /\ wire \in [Request -> Seq(Response)] /\ wire[r] = << >>
      /\ \A q \in Request : Honest(q)
  BY DEF PipelineInv, FlowTypeOK, TypeOK, Honest
<1>2. PICK ph, w : /\ ph = (IF CanSend(r) THEN "answered" ELSE "dropped")
                   /\ w = (IF CanSend(r) THEN << v >> ELSE << >>)
  OBVIOUS
<1>3. phase' = [phase EXCEPT ![r] = ph] /\ wire' = [wire EXCEPT ![r] = w]
  <2>1. Append(wire[r], v) = << v >>
    BY <1>1
  <2> QED BY <1>1, <1>2, <2>1 DEF Deliver
<1>4. /\ w \in Seq(Response) /\ ph \in {"answered", "dropped"}
      /\ w = << >> \/ (w = << v >> /\ ph = "answered")
  BY <1>2
<1>5. ASSUME NEW q \in Request PROVE Honest(q)'
  <2>1. CASE q # r
    BY <1>1, <1>3, <2>1, HonestFrame
  <2>2. CASE q = r
    <3>1. phase'[r] = ph /\ wire'[r] = w
      BY <1>1, <1>3
    <3>2. Honest(r)
      BY <1>1
    <3>3. /\ kind[r] \in Kind /\ (decision[r] # "none" => status[r] = "resolved")
          /\ outcome[r] \in Grants => decision[r] # "none" /\ outcome[r] = WireDecision(kind[r], decision[r])
          /\ r \in unwinding => outcome[r] # "unsettled"
      BY <3>2 DEF Honest
    <3>4. \/ w = << >> \/ w = << "err_handler" >>
          \/ outcome[r] # "unsettled" /\ w = << outcome[r] >>
      BY <1>4
    <3> QED BY <1>4, <2>2, <3>1, <3>3, <3>4 DEF Honest
  <2> QED BY <2>1, <2>2
<1> QED BY <1>1, <1>3, <1>4, <1>5

\* The broker's, the client's and the supervisor's steps.
LEMMA BrokerKeepsPipeline ==
  ASSUME PipelineInv, BrokerSteps
  PROVE  PipelineInv'
<1>1. /\ TypeOK /\ FlowTypeOK /\ HasChat /\ SlotInv /\ by = [r \in Request |-> by[r]]
      /\ \A r \in Request : Honest(r)
  BY DEF PipelineInv, FlowTypeOK
<1>2. UNCHANGED <<job, dest, shown, token, issuedAt, click, by, flagged, failedOnce, bootGen>>
  BY DEF BrokerSteps, daemonVars, cards, rows, stuck
<1>3. ASSUME TypeOK', SlotInv', \A r \in Request : Honest(r)'
      PROVE  PipelineInv'
  BY <1>1, <1>2, <1>3 DEF PipelineInv, FlowTypeOK, HasChat
<1>4. ASSUME NEW r \in Request, Unwind(r) PROVE PipelineInv'
  <2>1. /\ r \in unwinding /\ unwinding' = unwinding \ {r}
        /\ slot' = IF status[r] = "pending" THEN [slot EXCEPT ![IdOf(r)] = NoRequest] ELSE slot
        /\ UNCHANGED <<mode, now, gen, open, lostFired, halted, policy, kind, status, created, decidedAt,
                       decision, handler, outcome>>
    BY <1>4 DEF Unwind, table, conn, rec
  <2>2. /\ phase' \in [Request -> {"idle", "waiting", "answered", "dropped"}]
        /\ wire' \in [Request -> Seq(Response)]
        /\ (\A q \in Request : phase[q] # "idle" => phase'[q] # "idle")
        /\ \A q \in Request : Honest(q)'
    <3>1. CASE phase[r] = "waiting"
      <4>1. Deliver(r, outcome[r])
        BY <1>4, <3>1 DEF Unwind
      <4>2. outcome[r] \in Response /\ outcome[r] # "unsettled"
        BY <1>1, <2>1 DEF TypeOK, Honest
      <4> QED BY <2>1, <3>1, <4>1, <4>2, DeliverKeepsPipeline
    <3>2. CASE phase[r] # "waiting"
      <4>1. phase' = phase /\ wire' = wire
        BY <1>4, <3>2 DEF Unwind, sent
      <4>2. \A q \in Request : Honest(q)'
        BY <1>1, <2>1, <4>1 DEF Honest
      <4> QED BY <1>1, <4>1, <4>2 DEF TypeOK
    <3> QED BY <3>1, <3>2
  <2>3. /\ slot' \in [Id -> Request \cup {NoRequest}]
        /\ \A i \in Id : slot'[i] = slot[i] \/ slot'[i] = NoRequest
    BY <1>1, <2>1 DEF TypeOK
  <2>4. SlotInv'
    BY <1>1, <2>1, <2>2, <2>3, SlotFrame DEF TypeOK
  <2>5. TypeOK'
    BY <1>1, <2>1, <2>2, <2>3 DEF TypeOK
  <2> QED BY <1>3, <2>2, <2>4, <2>5
<1>5. ASSUME NEW r \in Request, ClientTimeout(r) PROVE PipelineInv'
  <2>1. /\ phase[r] = "waiting" /\ Deliver(r, "err_handler")
        /\ UNCHANGED <<mode, now, gen, open, lostFired, halted, slot, policy, kind, status, created, decidedAt,
                       decision, handler, outcome, unwinding>>
    BY <1>5 DEF ClientTimeout, table, conn, maps, rec, prom
  <2>2. "err_handler" \in Response
    BY DEF Response, Refusals
  <2>3. /\ phase' \in [Request -> {"idle", "waiting", "answered", "dropped"}]
        /\ wire' \in [Request -> Seq(Response)]
        /\ (\A q \in Request : phase[q] # "idle" => phase'[q] # "idle")
        /\ \A q \in Request : Honest(q)'
    BY <2>1, <2>2, DeliverKeepsPipeline
  <2>4. SlotInv'
    BY <1>1, <2>1, <2>3, SlotFrame DEF TypeOK
  <2>5. TypeOK'
    BY <1>1, <2>1, <2>3 DEF TypeOK
  <2> QED BY <1>3, <2>3, <2>4, <2>5
<1>6. ASSUME UNCHANGED <<mode, now, gen, slot, policy, kind, created, decision, handler, phase, wire>>,
             open' \in BOOLEAN, lostFired' \in BOOLEAN, halted' \in BOOLEAN,
             UNCHANGED <<status, decidedAt, prom>> \/ CloseRecords(LivePending, "transport_lost")
      PROVE  PipelineInv'
  <2>1. CASE UNCHANGED <<status, decidedAt, prom>>
    <3>1. UNCHANGED <<slot, rec, prom, sent>>
      BY <1>6, <2>1 DEF rec, sent
    <3>2. TypeOK'
      BY <1>1, <1>6, <2>1, <3>1 DEF TypeOK, prom
    <3>3. FlowTypeOK' /\ HasChat'
      BY <1>1, <1>2, <3>2 DEF FlowTypeOK, HasChat
    <3> QED BY <1>2, <3>1, <3>3, DaemonKeepsPipeline
  <2>2. CASE CloseRecords(LivePending, "transport_lost")
    <3>1. PICK S : S = LivePending
      OBVIOUS
    <3>2. /\ S \in SUBSET Request /\ (\A r \in S : status[r] = "pending")
          /\ status' = [r \in Request |-> IF r \in S THEN "transport_lost" ELSE status[r]]
          /\ decidedAt' = [r \in Request |-> IF r \in S THEN now ELSE decidedAt[r]]
          /\ Settle(S, [r \in S |-> DefaultReject[kind[r]]])
      BY <2>2, <3>1 DEF CloseRecords, LivePending
    <3>3. /\ status' \in [Request -> {"none", "pending"} \cup Terminal] /\ decidedAt' \in [Request -> Nat]
          /\ \A r \in Request : IF r \in S THEN status'[r] \in {"expired", "transport_lost"}
                                           ELSE status'[r] = status[r]
      BY <1>1, <3>2 DEF TypeOK, Terminal
    <3>4. /\ outcome' \in [Request -> Response \cup {"unsettled"}] /\ unwinding' \in SUBSET Request
          /\ SlotInv' /\ \A r \in Request : Honest(r)'
      BY <1>2, <1>6, <3>2, <3>3, ClosingKeepsPipeline
    <3>5. TypeOK'
      BY <1>1, <1>6, <3>3, <3>4 DEF TypeOK
    <3> QED BY <1>3, <3>4, <3>5
  <2> QED BY <1>6, <2>1, <2>2
<1>7. CASE TransportCloses
  <2>1. /\ UNCHANGED <<mode, now, gen, slot, policy, kind, created, decision, handler, phase, wire>>
        /\ open' = FALSE /\ halted' = halted
    BY <1>7 DEF TransportCloses, table, maps, sent
  <2>2. /\ lostFired' = lostFired \/ lostFired' = TRUE
        /\ UNCHANGED <<status, decidedAt, prom>> \/ CloseRecords(LivePending, "transport_lost")
    BY <1>7 DEF TransportCloses, FailPendingAsTransportLost
  <2> QED BY <1>1, <1>6, <2>1, <2>2 DEF TypeOK
<1>8. CASE DaemonStops
  <2>1. /\ UNCHANGED <<mode, now, gen, slot, policy, kind, created, decision, handler, phase, wire>>
        /\ open' = open /\ halted' = TRUE
    BY <1>8 DEF DaemonStops, table, maps, sent
  <2>2. /\ lostFired' = lostFired \/ lostFired' = TRUE
        /\ UNCHANGED <<status, decidedAt, prom>> \/ CloseRecords(LivePending, "transport_lost")
    BY <1>8 DEF DaemonStops, FailPendingAsTransportLost
  <2> QED BY <1>1, <1>6, <2>1, <2>2 DEF TypeOK
<1>9. CASE GenerationFails
  <2>1. /\ UNCHANGED <<mode, now, gen, slot, policy, kind, created, decision, handler, phase, wire>>
        /\ open' = FALSE /\ halted' = TRUE /\ lostFired' = lostFired
        /\ UNCHANGED <<status, decidedAt, prom>>
    BY <1>9 DEF GenerationFails, table, maps, sent, rec
  <2> QED BY <1>1, <1>6, <2>1 DEF TypeOK
<1>10. CASE Tick
  <2>1. UNCHANGED <<table, conn, maps, rec, prom, sent>> /\ now' = now + 1
    BY <1>10 DEF Tick
  <2>2. TypeOK'
    BY <1>1, <2>1 DEF TypeOK, table, conn, maps, rec, prom, sent
  <2>3. FlowTypeOK' /\ HasChat'
    BY <1>1, <1>2, <2>2 DEF FlowTypeOK, HasChat
  <2> QED BY <1>2, <2>1, <2>3, DaemonKeepsPipeline DEF maps
<1> QED BY <1>4, <1>5, <1>7, <1>8, <1>9, <1>10 DEF BrokerSteps

LEMMA CodexStartsKeepsPipeline ==
  ASSUME PipelineInv, CodexStarts \/ UNCHANGED flowVars
  PROVE  PipelineInv'
<1>1. TypeOK /\ FlowTypeOK /\ HasChat
  BY DEF PipelineInv, FlowTypeOK
<1>2. /\ UNCHANGED <<table, now, halted, maps, rec, prom, sent>>
      /\ UNCHANGED <<gen, open, lostFired>>
         \/ (gen < MaxGen /\ gen' = gen + 1 /\ open' = TRUE /\ lostFired' = FALSE)
      /\ UNCHANGED <<job, dest, shown, token, issuedAt, click, by, flagged, failedOnce, bootGen>>
  BY DEF CodexStarts, Reattach, flowVars, vars, conn, daemonVars, cards, rows, stuck
<1>3. gen' \in 0..MaxGen
  BY <1>1, <1>2, BoundAssumption DEF TypeOK
<1>4. TypeOK'
  BY <1>1, <1>2, <1>3 DEF TypeOK, table, maps, rec, prom, sent
<1>5. FlowTypeOK' /\ HasChat'
  BY <1>1, <1>2, <1>4 DEF FlowTypeOK, HasChat
<1> QED BY <1>2, <1>5, DaemonKeepsPipeline DEF maps

LEMMA PipelineStep == PipelineInv /\ [FlowNext]_flowVars => PipelineInv'
<1> SUFFICES ASSUME PipelineInv, [FlowNext]_flowVars PROVE PipelineInv'
  OBVIOUS
<1>1. CASE JobNext
  BY <1>1, ReceiveKeepsPipeline, AutoDeclineKeepsPipeline, JobKeepsPipeline DEF JobNext
<1>2. CASE ClickNext
  BY <1>2, ClickKeepsPipeline, WriteBackKeepsPipeline DEF ClickNext
<1>3. CASE Sweep
  BY <1>3, SweepKeepsPipeline
<1>4. CASE DaemonRestarts
  BY <1>4, RestartKeepsPipeline
<1>5. CASE CodexStarts \/ UNCHANGED flowVars
  BY <1>5, CodexStartsKeepsPipeline
<1>6. CASE BrokerSteps
  BY <1>6, BrokerKeepsPipeline
<1> QED BY <1>1, <1>2, <1>3, <1>4, <1>5, <1>6 DEF FlowNext

\* Through every restart of the daemon and any number of connections, what the
\* broker, the wire and the cards' bookkeeping hold of a request fits together.
THEOREM PipelineInvariance == FlowSpec => []PipelineInv
  BY PipelineInit, PipelineStep, PTL DEF FlowSpec

\* Every variable of the pipeline keeps its type.
THEOREM FlowTypeCorrect == FlowSpec => []FlowTypeOK
<1>1. PipelineInv => FlowTypeOK
  BY DEF PipelineInv
<1> QED BY <1>1, PipelineInvariance, PTL

\* A grant on the wire is the outcome, and that is the decision's.
LEMMA HonestGrants == PipelineInv => GrantsNeedConsent
<1> SUFFICES ASSUME PipelineInv, NEW r \in Request, NEW n \in DOMAIN wire[r], wire[r][n] \in Grants
             PROVE  decision[r] # "none" /\ wire[r][n] = WireDecision(kind[r], decision[r])
  BY DEF GrantsNeedConsent
<1>1. Honest(r) /\ wire[r] \in Seq(Response)
  BY DEF PipelineInv, FlowTypeOK, TypeOK
<1>2. n = 1 /\ wire[r][n] \in {"err_handler", outcome[r]}
  <2>1. \/ wire[r] = << >> \/ wire[r] = << "err_handler" >> \/ wire[r] = << outcome[r] >>
    BY <1>1 DEF Honest
  <2> QED BY <2>1
<1>3. wire[r][n] = outcome[r]
  BY <1>2 DEF Grants
<1> QED BY <1>1, <1>3 DEF Honest

\* Codex is told to go on only with the grant decided for that very request, also
\* when the daemon, its sweep, the client's timer and codex race to answer it, and
\* however often codex or the daemon starts anew.
THEOREM GrantsNeedConsentInFlow == FlowSpec => []GrantsNeedConsent
  BY HonestGrants, PipelineInvariance, PTL

\* Codex goes on with what it asked for only if a listed user said so, with the
\* request's own card, in the chat the card was sent to.
GrantIsAMembers ==
  \A r \in Request : \A n \in DOMAIN wire[r] :
    wire[r][n] \in Grants =>
      /\ by[r][1] = r /\ by[r][2] \in Member
      /\ by[r][3] = dest[r] /\ dest[r] \in Chat
      /\ wire[r][n] = WireDecision(kind[r], by[r][4])

\* What the daemon declines itself is no grant.
LEMMA DeclineRefuses == \A k \in ApprovalKind : WireDecision(k, "decline") \notin Grants
BY DEF ApprovalKind, WireDecision, KindDispatch, V2Row, LegacyRow, Grants

\* From the click to the wire: no grant reaches codex that a listed user did not
\* click on that request's own card, in the chat the card went to, if codex is
\* started once per run of the daemon.  The broker's part (whatever is granted was
\* decided) and the daemon's (whatever is decided was clicked) meet in the decision.
THEOREM GrantsComeFromMembers ==
  ASSUME Respawn = FALSE
  PROVE  FlowSpec => []GrantIsAMembers
<1>1. PipelineInv /\ ClickDecidesItsOwnRequest => GrantIsAMembers
  <2> SUFFICES ASSUME PipelineInv, ClickDecidesItsOwnRequest,
                      NEW r \in Request, NEW n \in DOMAIN wire[r], wire[r][n] \in Grants
               PROVE  /\ by[r][1] = r /\ by[r][2] \in Member
                      /\ by[r][3] = dest[r] /\ dest[r] \in Chat
                      /\ wire[r][n] = WireDecision(kind[r], by[r][4])
    BY DEF GrantIsAMembers
  <2>1. decision[r] # "none" /\ wire[r][n] = WireDecision(kind[r], decision[r])
    BY HonestGrants DEF GrantsNeedConsent
  <2>2. kind[r] \in ApprovalKind
    <3>1. Honest(r)
      BY DEF PipelineInv
    <3> QED BY <2>1, <3>1, KindAssumption DEF Honest
  <2>3. decision[r] # "decline"
    BY <2>1, <2>2, DeclineRefuses
  <2> QED BY <2>1, <2>3 DEF ClickDecidesItsOwnRequest
<1>2. FlowSpec => []ClickDecidesItsOwnRequest
  BY OwnCardDecides
<1> QED BY <1>1, <1>2, PipelineInvariance, PTL
=============================================================================
