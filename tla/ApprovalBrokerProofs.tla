------------------------ MODULE ApprovalBrokerProofs ------------------------
(***************************************************************************)
(* Proofs about ApprovalBroker, for every set of ids, kinds, actors and    *)
(* cards, every number of connections and every setting of the timeouts    *)
(* its assumptions allow.                                                  *)
(***************************************************************************)
EXTENDS ApprovalBroker, TLAPS

\* What the broker answers on its own account is an answer and never a grant.
LEMMA DefaultRejectRefuses ==
  ASSUME NEW k \in Kind
  PROVE  DefaultReject[k] \in Response \ Grants
<1>1. k \in ApprovalKind
  BY KindAssumption
<1>2. QED
  BY <1>1 DEF ApprovalKind, DefaultReject, Response, Grants, Refusals

\* A supported action maps to an answer.
LEMMA WireDecisionTyped ==
  ASSUME NEW k \in Kind, NEW a \in UiAction, Supported(k, a)
  PROVE  WireDecision(k, a) \in Response
<1>1. k \in ApprovalKind
  BY KindAssumption
<1>2. CASE k = "auth_token_refresh"
  BY <1>2 DEF WireDecision, Response, Refusals
<1>3. CASE k \in {"command_execution", "file_change"}
  BY <1>3 DEF WireDecision, KindDispatch, V2Row, UiAction, Response, Refusals, Grants
<1>4. CASE k \in {"legacy_apply_patch", "legacy_exec_command"}
  BY <1>4 DEF WireDecision, KindDispatch, LegacyRow, UiAction, Response, Refusals, Grants
<1>5. CASE k \in {"permissions", "tool_user_input", "tool_call"}
  BY <1>5 DEF WireDecision, Supported, KindDispatch, UiAction, Response, Refusals
<1>6. CASE k = "mcp_elicitation"
  BY <1>6 DEF WireDecision, Supported, KindDispatch, UiAction, Response, Refusals
<1>7. QED
  BY <1>1, <1>2, <1>3, <1>4, <1>5, <1>6 DEF ApprovalKind

\* A request is its connection and its id.
LEMMA RequestParts ==
  ASSUME NEW r \in Request
  PROVE  IdOf(r) \in Id /\ GenOf(r) \in Generation /\ r = <<GenOf(r), IdOf(r)>>
BY DEF Request, IdOf, GenOf

\* The invariant holds initially.
LEMMA InitInv == Init => IndInv
<1> SUFFICES ASSUME Init PROVE IndInv
  OBVIOUS
<1>1. TypeOK
  <2>1. gen \in 0..MaxGen
    BY BoundAssumption DEF Init, FreshBroker
  <2>2. wire \in [Request -> Seq(Response)]
    BY DEF Init, FreshBroker
  <2>3. QED
    BY <2>1, <2>2 DEF Init, FreshBroker, TypeOK
<1>2. FlagInv /\ SlotInv
  BY DEF Init, FreshBroker, FlagInv, SlotInv
<1>3. ASSUME NEW r \in Request PROVE RequestInv(r)
  BY <1>3 DEF Init, FreshBroker, RequestInv, IdleInv, RecordInv, LiveInv, WireInv, DecisionInv, Grants
<1>4. QED
  BY <1>1, <1>2, <1>3 DEF IndInv
\* A request whose fields a step leaves alone keeps its invariant, as long as
\* the connection does not change and the clock does not go back.
LEMMA Frame ==
  ASSUME NEW r \in Request, TypeOK, RequestInv(r),
         kind'[r] = kind[r], phase'[r] = phase[r], status'[r] = status[r],
         created'[r] = created[r], decision'[r] = decision[r],
         handler'[r] = handler[r], outcome'[r] = outcome[r], wire'[r] = wire[r],
         r \in unwinding' <=> r \in unwinding,
         slot[IdOf(r)] = r /\ outcome[r] = "unsettled" => slot'[IdOf(r)] = r,
         gen' = gen, open' = open, halted' = halted,
         now' \in Nat, now' >= now
  PROVE  RequestInv(r)'
<1>1. IdleInv(r)' /\ RecordInv(r)'
  BY DEF RequestInv, IdleInv, RecordInv
<1>2. LiveInv(r)'
  BY DEF RequestInv, LiveInv, IdOf, GenOf
<1>3. WireInv(r)'
  BY TimeAssumption DEF RequestInv, WireInv, TypeOK
<1>4. DecisionInv(r)'
  BY DEF RequestInv, DecisionInv
<1>5. QED
  BY <1>1, <1>2, <1>3, <1>4 DEF RequestInv

\* Settling keeps the types and the answers that were settled before.
LEMMA SettleFacts ==
  ASSUME TypeOK, NEW S \in SUBSET Request, NEW value,
         \A r \in S : value[r] \in Response,
         Settle(S, value)
  PROVE  /\ outcome' \in [Request -> Response \cup {"unsettled"}]
         /\ unwinding' \in SUBSET Request
         /\ \A r \in Request :
              /\ outcome'[r] = IF r \in S /\ outcome[r] = "unsettled"
                                 THEN value[r] ELSE outcome[r]
              /\ r \in unwinding' <=>
                   r \in unwinding \/ (r \in S /\ outcome[r] = "unsettled")
<1> DEFINE won == {r \in S : outcome[r] = "unsettled"}
<1>1. /\ outcome' = [r \in Request |-> IF r \in won THEN value[r] ELSE outcome[r]]
      /\ unwinding' = unwinding \cup won
  BY DEF Settle
<1>2. won \subseteq Request
  OBVIOUS
<1>3. QED
  BY <1>1, <1>2 DEF TypeOK

\* The steps that close records: expiry, loss of one approval, and loss of the
\* connection, which may be closed or kept open by it.
LEMMA CloseRecordsInv ==
  ASSUME IndInv, NEW S \in SUBSET LivePending,
         NEW terminal \in {"expired", "transport_lost"},
         CloseRecords(S, terminal),
         UNCHANGED <<table, now, gen, maps, kind, created, decision, handler, sent>>,
         open' \in BOOLEAN, lostFired' \in BOOLEAN, halted' \in BOOLEAN,
         halted => halted',
         FlagInv',
         open' = open \/ (~open' /\ unwinding = {} /\ (halted \/ S = LivePending))
  PROVE  IndInv'
<1>0. TypeOK /\ S \subseteq Request
  BY DEF IndInv, LivePending
<1>1. ASSUME NEW r \in S
      PROVE  r \in Request /\ status[r] = "pending" /\ kind[r] \in Kind /\ phase[r] # "idle"
  BY <1>1 DEF IndInv, LivePending, RequestInv, IdleInv, RecordInv
<1>2. Settle(S, [r \in S |-> DefaultReject[kind[r]]])
  BY DEF CloseRecords
<1>3. \A r \in S : [q \in S |-> DefaultReject[kind[q]]][r] \in Response \ Grants
  BY <1>1, DefaultRejectRefuses
<1>4. /\ outcome' \in [Request -> Response \cup {"unsettled"}]
      /\ unwinding' \in SUBSET Request
      /\ \A r \in Request :
           /\ r \in S /\ outcome[r] = "unsettled" => outcome'[r] \in Response \ Grants
           /\ ~(r \in S /\ outcome[r] = "unsettled") => outcome'[r] = outcome[r]
           /\ r \in unwinding' <=>
                r \in unwinding \/ (r \in S /\ outcome[r] = "unsettled")
  BY <1>0, <1>2, <1>3, SettleFacts
<1>5. /\ status' = [r \in Request |-> IF r \in S THEN terminal ELSE status[r]]
      /\ decidedAt' = [r \in Request |-> IF r \in S THEN now ELSE decidedAt[r]]
  BY DEF CloseRecords
<1>6. TypeOK'
  BY <1>0, <1>4, <1>5 DEF TypeOK, Terminal, table, maps, sent
<1>7. SlotInv'
  BY <1>0, <1>5 DEF IndInv, TypeOK, SlotInv, maps, sent
<1>8. ASSUME NEW r \in Request PROVE RequestInv(r)'
  <2>0. /\ RequestInv(r)
        /\ kind' = kind /\ phase' = phase /\ created' = created /\ decision' = decision
        /\ handler' = handler /\ wire' = wire /\ slot' = slot /\ gen' = gen /\ now' = now
    BY DEF IndInv, maps, sent
  <2>1. CASE r \in S
    <3>1. /\ status[r] = "pending" /\ kind[r] \in Kind /\ phase[r] # "idle"
          /\ status'[r] = terminal
          /\ decision[r] = "none"
      BY <1>1, <1>5, <2>0, <2>1 DEF RequestInv, RecordInv
    <3>2. outcome'[r] # "unsettled" /\ outcome'[r] \notin Grants
      BY <1>4, <2>0, <2>1, <3>1 DEF RequestInv, RecordInv, Response, Refusals, Grants
    <3>3. IdleInv(r)' /\ RecordInv(r)' /\ DecisionInv(r)'
      BY <2>0, <3>1, <3>2 DEF IdleInv, RecordInv, DecisionInv
    <3>4. LiveInv(r)'
      BY <1>4, <2>0, <2>1, <3>1, <3>2 DEF RequestInv, LiveInv
    <3>5. WireInv(r)'
      BY <1>4, <2>0, <3>1, <3>2 DEF RequestInv, WireInv
    <3>6. QED
      BY <3>3, <3>4, <3>5 DEF RequestInv
  <2>2. CASE r \notin S
    <3>1. /\ status'[r] = status[r] /\ outcome'[r] = outcome[r]
          /\ r \in unwinding' <=> r \in unwinding
      BY <1>4, <1>5, <2>2
    <3>2. IdleInv(r)' /\ RecordInv(r)' /\ WireInv(r)'
      BY <2>0, <3>1 DEF RequestInv, IdleInv, RecordInv, WireInv
    <3>3. LiveInv(r)'
      BY <2>0, <2>2, <3>1, RequestParts DEF RequestInv, LiveInv, RecordInv, LivePending
    <3>4. DecisionInv(r)'
      BY <2>0, <3>1 DEF RequestInv, DecisionInv
    <3>5. QED
      BY <3>2, <3>3, <3>4 DEF RequestInv
  <2>3. QED
    BY <2>1, <2>2
<1>9. QED
  BY <1>6, <1>7, <1>8 DEF IndInv
-----------------------------------------------------------------------------
(* One lemma per kind of step                                              *)

\* Setting up the dispatch table touches no request.
LEMMA BootInv ==
  ASSUME IndInv, NEW k \in Kind,
         RegisterHandler(k) \/ EnablePendingMode(k) \/ DisablePendingMode(k)
  PROVE  IndInv'
<1>1. /\ UNCHANGED <<now, conn, maps, rec, prom, sent>>
      /\ mode' \in [Kind -> {"default-reject", "handler", "pending"}]
  BY DEF IndInv, TypeOK, RegisterHandler, EnablePendingMode, DisablePendingMode
<1>2. TypeOK' /\ FlagInv' /\ SlotInv'
  BY <1>1 DEF IndInv, TypeOK, FlagInv, SlotInv, conn, maps, rec, prom, sent
<1>3. ASSUME NEW r \in Request PROVE RequestInv(r)'
  <2>1. /\ kind'[r] = kind[r] /\ phase'[r] = phase[r] /\ status'[r] = status[r]
        /\ created'[r] = created[r] /\ decision'[r] = decision[r]
        /\ handler'[r] = handler[r] /\ outcome'[r] = outcome[r] /\ wire'[r] = wire[r]
        /\ r \in unwinding' <=> r \in unwinding
        /\ slot[IdOf(r)] = r /\ outcome[r] = "unsettled" => slot'[IdOf(r)] = r
    BY <1>1 DEF maps, rec, prom, sent
  <2>2. TypeOK /\ RequestInv(r)
    BY DEF IndInv
  <2>3. gen' = gen /\ open' = open /\ halted' = halted /\ now' = now /\ now \in Nat
    BY <1>1, <2>2 DEF TypeOK, conn
  <2>4. QED
    BY <2>1, <2>2, <2>3, Frame
<1>4. QED
  BY <1>2, <1>3 DEF IndInv

\* A new request: another live one under its id would belong to the same
\* connection, hence be this one.
LEMMA HandleInv ==
  ASSUME IndInv, NEW r \in Request, NEW k \in Kind, Handle(r, k)
  PROVE  IndInv'
<1>0. /\ TypeOK /\ RequestInv(r)
      /\ UNCHANGED <<table, now, conn, policy, decidedAt, decision, wire>>
      /\ open /\ GenOf(r) = gen /\ phase[r] = "idle"
      /\ kind' = [kind EXCEPT ![r] = k]
      /\ created' = [created EXCEPT ![r] = now]
      /\ phase' = [phase EXCEPT ![r] = "waiting"]
  BY DEF IndInv, Handle
<1>1. CASE mode[k] = "default-reject"
  <2>1. /\ outcome' = [outcome EXCEPT ![r] = DefaultReject[k]]
        /\ unwinding' = unwinding \cup {r}
        /\ UNCHANGED <<slot, status, handler>>
        /\ DefaultReject[k] \in Response \ Grants
    BY <1>1, DefaultRejectRefuses DEF Handle
  <2>2. TypeOK'
    BY <1>0, <2>1 DEF TypeOK, table, conn
  <2>3. FlagInv' /\ SlotInv'
    BY <1>0, <2>1 DEF IndInv, TypeOK, FlagInv, SlotInv, conn
  <2>4. RequestInv(r)'
    <3>1. /\ phase'[r] = "waiting" /\ kind'[r] = k /\ outcome'[r] = DefaultReject[k]
          /\ status'[r] = "none" /\ decision'[r] = "none" /\ wire'[r] = << >>
          /\ outcome'[r] # "unsettled"
      BY <1>0, <2>1 DEF TypeOK, RequestInv, IdleInv, Response, Grants, Refusals
    <3>2. IdleInv(r)' /\ RecordInv(r)' /\ WireInv(r)' /\ DecisionInv(r)'
      BY <2>1, <3>1 DEF IdleInv, RecordInv, WireInv, DecisionInv
    <3>3. LiveInv(r)'
      BY <1>0, <3>1 DEF LiveInv, conn
    <3>4. QED
      BY <3>2, <3>3 DEF RequestInv
  <2>5. ASSUME NEW q \in Request, q # r PROVE RequestInv(q)'
    <3>1. /\ kind'[q] = kind[q] /\ phase'[q] = phase[q] /\ status'[q] = status[q]
          /\ created'[q] = created[q] /\ decision'[q] = decision[q]
          /\ handler'[q] = handler[q] /\ outcome'[q] = outcome[q] /\ wire'[q] = wire[q]
          /\ q \in unwinding' <=> q \in unwinding
          /\ slot[IdOf(q)] = q /\ outcome[q] = "unsettled" => slot'[IdOf(q)] = q
      BY <1>0, <2>1, <2>5 DEF TypeOK
    <3>2. TypeOK /\ RequestInv(q)
      BY DEF IndInv
    <3>3. gen' = gen /\ open' = open /\ halted' = halted /\ now' = now /\ now \in Nat
      BY <1>0, <2>1, <3>2 DEF TypeOK, conn
    <3>4. QED
      BY <3>1, <3>2, <3>3, Frame
  <2>6. QED
    BY <2>2, <2>3, <2>4, <2>5 DEF IndInv
<1>2. CASE mode[k] # "default-reject"
  <2>1. /\ slot' = [slot EXCEPT ![IdOf(r)] = r]
        /\ status' = [status EXCEPT ![r] = "pending"]
        /\ handler' = [handler EXCEPT ![r] = IF mode[k] = "handler" THEN "running" ELSE "none"]
        /\ UNCHANGED prom
    BY <1>2 DEF Handle
  <2>2. TypeOK'
    BY <1>0, <2>1, RequestParts DEF TypeOK, table, conn, prom
  <2>3. FlagInv'
    BY <1>0 DEF IndInv, FlagInv, conn
  <2>4. SlotInv'
    BY <1>0, <2>1, RequestParts DEF IndInv, TypeOK, SlotInv
  <2>5. RequestInv(r)'
    <3>1. /\ phase'[r] = "waiting" /\ kind'[r] = k /\ outcome'[r] = "unsettled"
          /\ status'[r] = "pending" /\ decision'[r] = "none" /\ wire'[r] = << >>
          /\ slot'[IdOf(r)] = r /\ r \notin unwinding'
      BY <1>0, <2>1, RequestParts DEF TypeOK, RequestInv, IdleInv, prom
    <3>2. IdleInv(r)' /\ RecordInv(r)' /\ WireInv(r)' /\ DecisionInv(r)'
      BY <3>1 DEF IdleInv, RecordInv, WireInv, DecisionInv, Grants
    <3>3. LiveInv(r)'
      BY <1>0, <3>1 DEF LiveInv, conn
    <3>4. QED
      BY <3>2, <3>3 DEF RequestInv
  <2>6. ASSUME NEW q \in Request, q # r PROVE RequestInv(q)'
    <3>1. slot[IdOf(q)] = q /\ outcome[q] = "unsettled" => slot'[IdOf(q)] = q
      <4> SUFFICES ASSUME slot[IdOf(q)] = q, outcome[q] = "unsettled" PROVE IdOf(q) # IdOf(r)
        BY <2>1, RequestParts DEF IndInv, TypeOK
      <4>1. GenOf(q) = gen
        BY RequestParts, NoneAssumption DEF IndInv, SlotInv, RequestInv, LiveInv
      <4>2. QED
        BY <1>0, <2>6, <4>1, RequestParts
    <3>2. QED
      <4>1. /\ kind'[q] = kind[q] /\ phase'[q] = phase[q] /\ status'[q] = status[q]
            /\ created'[q] = created[q] /\ decision'[q] = decision[q]
            /\ handler'[q] = handler[q] /\ outcome'[q] = outcome[q] /\ wire'[q] = wire[q]
            /\ q \in unwinding' <=> q \in unwinding
            /\ slot[IdOf(q)] = q /\ outcome[q] = "unsettled" => slot'[IdOf(q)] = q
        BY <1>0, <2>1, <2>6, <3>1 DEF TypeOK, prom
      <4>2. TypeOK /\ RequestInv(q)
        BY DEF IndInv
      <4>3. gen' = gen /\ open' = open /\ halted' = halted /\ now' = now /\ now \in Nat
        BY <1>0, <2>1, <2>6, <3>1, <4>2 DEF TypeOK, conn
      <4>4. QED
        BY <4>1, <4>2, <4>3, Frame
  <2>7. QED
    BY <2>2, <2>3, <2>4, <2>5, <2>6 DEF IndInv
<1>3. QED
  BY <1>1, <1>2

\* A handler's result is no grant; a late one changes nothing but the handler.
LEMMA HandlerSettlesInv ==
  ASSUME IndInv, NEW r \in Request, NEW v \in {"tool_result", "err_handler"},
         HandlerSettles(r, v)
  PROVE  IndInv'
<1>0. /\ TypeOK /\ RequestInv(r)
      /\ handler[r] = "running"
      /\ handler' = [handler EXCEPT ![r] = "done"]
      /\ UNCHANGED <<table, now, conn, maps, kind, status, created, decidedAt, decision, sent>>
      /\ Settle({r}, [q \in {r} |-> v])
  BY DEF IndInv, HandlerSettles
<1>1. v \in Response \ Grants /\ v # "unsettled"
  BY DEF Response, Refusals, Grants
<1>2. /\ outcome' \in [Request -> Response \cup {"unsettled"}]
      /\ unwinding' \in SUBSET Request
      /\ \A q \in Request :
           /\ outcome'[q] = IF q = r /\ outcome[q] = "unsettled" THEN v ELSE outcome[q]
           /\ q \in unwinding' <=> q \in unwinding \/ (q = r /\ outcome[q] = "unsettled")
  BY <1>0, <1>1, SettleFacts
<1>3. TypeOK'
  BY <1>0, <1>2 DEF TypeOK, table, conn, maps, sent
<1>4. FlagInv' /\ SlotInv'
  BY <1>0 DEF IndInv, FlagInv, SlotInv, conn, maps, sent
<1>5. RequestInv(r)'
  <2>1. /\ handler'[r] = "done" /\ outcome'[r] # "unsettled"
        /\ outcome'[r] = outcome[r] \/ (outcome[r] = "unsettled" /\ outcome'[r] \notin Grants)
    BY <1>0, <1>1, <1>2 DEF TypeOK
  <2>2. IdleInv(r)' /\ RecordInv(r)' /\ DecisionInv(r)'
    BY <1>0, <2>1 DEF RequestInv, IdleInv, RecordInv, DecisionInv, sent
  <2>3. LiveInv(r)'
    BY <1>0, <1>2, <2>1 DEF RequestInv, IdleInv, LiveInv, conn, maps, sent
  <2>4. WireInv(r)'
    BY <1>0, <2>1 DEF RequestInv, WireInv, sent
  <2>5. QED
    BY <2>2, <2>3, <2>4 DEF RequestInv
<1>6. ASSUME NEW q \in Request, q # r PROVE RequestInv(q)'
  <2>1. /\ kind'[q] = kind[q] /\ phase'[q] = phase[q] /\ status'[q] = status[q]
        /\ created'[q] = created[q] /\ decision'[q] = decision[q]
        /\ handler'[q] = handler[q] /\ outcome'[q] = outcome[q] /\ wire'[q] = wire[q]
        /\ q \in unwinding' <=> q \in unwinding
        /\ slot[IdOf(q)] = q /\ outcome[q] = "unsettled" => slot'[IdOf(q)] = q
    BY <1>0, <1>2, <1>6 DEF TypeOK, maps, sent
  <2>2. TypeOK /\ RequestInv(q)
    BY DEF IndInv
  <2>3. gen' = gen /\ open' = open /\ halted' = halted /\ now' = now /\ now \in Nat
    BY <1>0, <1>2, <1>6, <2>2 DEF TypeOK, conn
  <2>4. QED
    BY <2>1, <2>2, <2>3, Frame
<1>7. QED
  BY <1>3, <1>4, <1>5, <1>6 DEF IndInv
\* The answer that goes out is the settled one; an entry the handler settled
\* leaves the maps, and no live entry with it.
LEMMA UnwindInv ==
  ASSUME IndInv, NEW r \in Request, Unwind(r)
  PROVE  IndInv'
<1>0. /\ TypeOK /\ RequestInv(r) /\ IdOf(r) \in Id
      /\ r \in unwinding
      /\ unwinding' = unwinding \ {r}
      /\ slot' = IF status[r] = "pending" THEN [slot EXCEPT ![IdOf(r)] = NoRequest] ELSE slot
      /\ UNCHANGED <<table, now, conn, policy, rec, outcome>>
      /\ outcome[r] # "unsettled" /\ outcome[r] \in Response /\ GenOf(r) = gen
      /\ phase[r] # "idle"
  BY RequestParts DEF IndInv, Unwind, RequestInv, LiveInv, TypeOK, IdleInv
<1>1. /\ phase' \in [Request -> {"idle", "waiting", "answered", "dropped"}]
      /\ wire' \in [Request -> Seq(Response)]
      /\ \A q \in Request : q # r => phase'[q] = phase[q] /\ wire'[q] = wire[q]
      /\ phase[r] # "waiting" => phase'[r] = phase[r] /\ wire'[r] = wire[r]
      /\ phase[r] = "waiting" /\ open => phase'[r] = "answered" /\ wire'[r] = << outcome[r] >>
      /\ phase[r] = "waiting" /\ ~open => phase'[r] = "dropped" /\ wire'[r] = << >>
  <2>1. CASE phase[r] = "waiting"
    <3>1. Deliver(r, outcome[r]) /\ wire[r] = << >>
      BY <1>0, <2>1 DEF Unwind, RequestInv, WireInv
    <3>2. CASE open
      <4>1. /\ phase' = [phase EXCEPT ![r] = "answered"]
            /\ wire' = [wire EXCEPT ![r] = Append(wire[r], outcome[r])]
        BY <1>0, <3>1, <3>2 DEF Deliver, CanSend
      <4>2. Append(wire[r], outcome[r]) = << outcome[r] >>
        BY <3>1
      <4>3. << outcome[r] >> \in Seq(Response)
        BY <1>0
      <4>4. QED
        BY <1>0, <2>1, <3>2, <4>1, <4>2, <4>3 DEF TypeOK
    <3>3. CASE ~open
      <4>1. /\ phase' = [phase EXCEPT ![r] = "dropped"]
            /\ wire' = [wire EXCEPT ![r] = wire[r]]
        BY <3>1, <3>3 DEF Deliver, CanSend
      <4>2. QED
        BY <1>0, <2>1, <3>1, <3>3, <4>1 DEF TypeOK
    <3>4. QED
      BY <3>2, <3>3
  <2>2. CASE phase[r] # "waiting"
    BY <1>0, <2>2 DEF Unwind, sent, TypeOK
  <2>3. QED
    BY <2>1, <2>2
<1>2. TypeOK'
  BY <1>0, <1>1 DEF TypeOK, table, conn, rec
<1>3. FlagInv'
  BY <1>0 DEF IndInv, FlagInv, conn
<1>4. SlotInv'
  <2>1. \A q \in Request : phase[q] # "idle" => phase'[q] # "idle"
    BY <1>1
  <2>2. \A j \in Id : slot'[j] # NoRequest => slot'[j] = slot[j] /\ slot[j] \in Request
    BY <1>0 DEF TypeOK
  <2>3. QED
    BY <1>0, <2>1, <2>2 DEF IndInv, SlotInv, rec
<1>5. RequestInv(r)'
  <2>1. r \notin unwinding' /\ phase'[r] # "idle"
    BY <1>0, <1>1
  <2>2. IdleInv(r)' /\ RecordInv(r)' /\ LiveInv(r)'
    BY <1>0, <2>1 DEF RequestInv, IdleInv, RecordInv, LiveInv, rec
  <2>3. WireInv(r)'
    BY <1>0, <1>1 DEF RequestInv, WireInv, TypeOK, rec
  <2>4. DecisionInv(r)'
    <3>1. CASE phase[r] = "waiting"
      BY <1>0, <1>1, <3>1 DEF RequestInv, DecisionInv, WireInv, rec, conn
    <3>2. CASE phase[r] # "waiting"
      BY <1>0, <1>1, <3>2 DEF RequestInv, DecisionInv, rec, conn
    <3>3. QED
      BY <3>1, <3>2
  <2>5. QED
    BY <2>2, <2>3, <2>4 DEF RequestInv
<1>6. ASSUME NEW q \in Request, q # r PROVE RequestInv(q)'
  <2>0. slot[IdOf(q)] = q /\ outcome[q] = "unsettled" => slot'[IdOf(q)] = q
    <3> SUFFICES ASSUME slot[IdOf(q)] = q, outcome[q] = "unsettled", status[r] = "pending"
                 PROVE  IdOf(q) # IdOf(r)
      BY <1>0, RequestParts DEF TypeOK
    <3>1. GenOf(q) = gen
      BY RequestParts, NoneAssumption DEF IndInv, SlotInv, RequestInv, LiveInv
    <3>2. QED
      BY <1>0, <1>6, <3>1, RequestParts
  <2>1. /\ kind'[q] = kind[q] /\ phase'[q] = phase[q] /\ status'[q] = status[q]
        /\ created'[q] = created[q] /\ decision'[q] = decision[q]
        /\ handler'[q] = handler[q] /\ outcome'[q] = outcome[q] /\ wire'[q] = wire[q]
        /\ q \in unwinding' <=> q \in unwinding
        /\ slot[IdOf(q)] = q /\ outcome[q] = "unsettled" => slot'[IdOf(q)] = q
    BY <1>0, <1>1, <1>6, <2>0 DEF TypeOK, rec
  <2>2. TypeOK /\ RequestInv(q)
    BY DEF IndInv
  <2>3. gen' = gen /\ open' = open /\ halted' = halted /\ now' = now /\ now \in Nat
    BY <1>0, <2>2 DEF TypeOK, conn
  <2>4. QED
    BY <2>1, <2>2, <2>3, Frame
<1>7. QED
  BY <1>2, <1>3, <1>4, <1>5, <1>6 DEF IndInv

\* The client's timer answers only what is not answered, after the deadline.
LEMMA ClientTimeoutInv ==
  ASSUME IndInv, NEW r \in Request, ClientTimeout(r)
  PROVE  IndInv'
<1>0. /\ TypeOK /\ RequestInv(r)
      /\ unwinding = {} /\ phase[r] = "waiting" /\ now >= created[r] + HandlerTimeout
      /\ Deliver(r, "err_handler")
      /\ UNCHANGED <<table, now, conn, maps, rec, prom>>
      /\ wire[r] = << >>
  BY DEF IndInv, ClientTimeout, Quiet, RequestInv, WireInv
<1>1. /\ phase' \in [Request -> {"idle", "waiting", "answered", "dropped"}]
      /\ wire' \in [Request -> Seq(Response)]
      /\ \A q \in Request : q # r => phase'[q] = phase[q] /\ wire'[q] = wire[q]
      /\ \/ phase'[r] = "answered" /\ wire'[r] = << "err_handler" >>
         \/ phase'[r] = "dropped" /\ wire'[r] = << >>
  <2>1. CASE CanSend(r)
    <3>1. /\ phase' = [phase EXCEPT ![r] = "answered"]
          /\ wire' = [wire EXCEPT ![r] = Append(wire[r], "err_handler")]
      BY <1>0, <2>1 DEF Deliver
    <3>2. Append(wire[r], "err_handler") = << "err_handler" >>
      BY <1>0
    <3>3. << "err_handler" >> \in Seq(Response)
      BY DEF Response, Refusals
    <3>4. QED
      BY <1>0, <3>1, <3>2, <3>3 DEF TypeOK
  <2>2. CASE ~CanSend(r)
    <3>1. /\ phase' = [phase EXCEPT ![r] = "dropped"]
          /\ wire' = [wire EXCEPT ![r] = wire[r]]
      BY <1>0, <2>2 DEF Deliver
    <3>2. QED
      BY <1>0, <3>1 DEF TypeOK
  <2>3. QED
    BY <2>1, <2>2
<1>2. TypeOK'
  BY <1>0, <1>1 DEF TypeOK, table, conn, maps, rec, prom
<1>3. FlagInv'
  BY <1>0 DEF IndInv, FlagInv, conn
<1>4. SlotInv'
  BY <1>0, <1>1 DEF IndInv, SlotInv, TypeOK, maps, rec
<1>5. RequestInv(r)'
  <2>1. IdleInv(r)' /\ RecordInv(r)' /\ LiveInv(r)'
    BY <1>0, <1>1 DEF RequestInv, IdleInv, RecordInv, LiveInv, rec, prom, maps, conn
  <2>2. WireInv(r)'
    BY <1>0, <1>1 DEF WireInv, rec, prom
  <2>3. DecisionInv(r)'
    BY <1>0 DEF RequestInv, DecisionInv, rec
  <2>4. QED
    BY <2>1, <2>2, <2>3 DEF RequestInv
<1>6. ASSUME NEW q \in Request, q # r PROVE RequestInv(q)'
  <2>1. /\ kind'[q] = kind[q] /\ phase'[q] = phase[q] /\ status'[q] = status[q]
        /\ created'[q] = created[q] /\ decision'[q] = decision[q]
        /\ handler'[q] = handler[q] /\ outcome'[q] = outcome[q] /\ wire'[q] = wire[q]
        /\ q \in unwinding' <=> q \in unwinding
        /\ slot[IdOf(q)] = q /\ outcome[q] = "unsettled" => slot'[IdOf(q)] = q
    BY <1>0, <1>1, <1>6 DEF TypeOK, rec, prom, maps
  <2>2. TypeOK /\ RequestInv(q)
    BY DEF IndInv
  <2>3. gen' = gen /\ open' = open /\ halted' = halted /\ now' = now /\ now \in Nat
    BY <1>0, <2>2 DEF TypeOK, conn
  <2>4. QED
    BY <2>1, <2>2, <2>3, Frame
<1>7. QED
  BY <1>2, <1>3, <1>4, <1>5, <1>6 DEF IndInv

\* Binding a policy touches no request.
LEMMA BindInv ==
  ASSUME IndInv, NEW i \in Id, NEW p \in Policy, BindActorPolicy(i, p)
  PROVE  IndInv'
<1>0. /\ UNCHANGED <<table, now, conn, slot, rec, prom, sent>>
      /\ policy' \in [Id -> Policy \cup {NoPolicy}]
  BY DEF IndInv, TypeOK, BindActorPolicy
<1>1. TypeOK' /\ FlagInv' /\ SlotInv'
  BY <1>0 DEF IndInv, TypeOK, FlagInv, SlotInv, table, conn, rec, prom, sent
<1>2. ASSUME NEW q \in Request PROVE RequestInv(q)'
  <2>1. /\ kind'[q] = kind[q] /\ phase'[q] = phase[q] /\ status'[q] = status[q]
        /\ created'[q] = created[q] /\ decision'[q] = decision[q]
        /\ handler'[q] = handler[q] /\ outcome'[q] = outcome[q] /\ wire'[q] = wire[q]
        /\ q \in unwinding' <=> q \in unwinding
        /\ slot[IdOf(q)] = q /\ outcome[q] = "unsettled" => slot'[IdOf(q)] = q
    BY <1>0 DEF rec, prom, sent
  <2>2. TypeOK /\ RequestInv(q)
    BY DEF IndInv
  <2>3. gen' = gen /\ open' = open /\ halted' = halted /\ now' = now /\ now \in Nat
    BY <1>0, <2>2 DEF TypeOK, conn
  <2>4. QED
    BY <2>1, <2>2, <2>3, Frame
<1>3. QED
  BY <1>1, <1>2 DEF IndInv
\* What the map holds for an id, when a click or a clean-up finds it pending.
LEMMA PendingSlot ==
  ASSUME IndInv, NEW i \in Id, slot[i] # NoRequest
  PROVE  /\ slot[i] \in Request /\ IdOf(slot[i]) = i /\ phase[slot[i]] # "idle"
         /\ status[slot[i]] \in {"pending"} \cup Terminal
         /\ status[slot[i]] = "pending" => slot[i] \in LivePending
<1>1. slot[i] \in Request /\ IdOf(slot[i]) = i /\ phase[slot[i]] # "idle"
  BY DEF IndInv, TypeOK, SlotInv
<1>2. status[slot[i]] # "none"
  BY DEF IndInv, SlotInv
<1>3. QED
  BY <1>1, <1>2 DEF IndInv, TypeOK, LivePending
\* What a click that is not refused has passed.
LEMMA ResolveResultFacts ==
  ASSUME IndInv, NEW i \in Id, NEW c \in Click,
         ResolveResult(i, c) \in {"ok", "expires_now"}
  PROVE  /\ slot[i] # NoRequest /\ status[slot[i]] = "pending"
         /\ ResolveResult(i, c) = "ok" =>
              ~(now >= created[slot[i]] + Ttl) /\ Supported(kind[slot[i]], c.action)
<1>1. slot[i] # NoRequest
  BY DEF ResolveResult
<1>2. status[slot[i]] = "pending"
  BY <1>1, PendingSlot DEF ResolveResult, Terminal
<1>3. QED
  BY <1>1, <1>2 DEF ResolveResult

\* Expiry by a late click.
LEMMA ResolveExpiresInv ==
  ASSUME IndInv, NEW i \in Id, NEW c \in Click, ResolveExpires(i, c)
  PROVE  IndInv'
<1>1. {slot[i]} \in SUBSET LivePending
  BY ResolveResultFacts, PendingSlot DEF ResolveExpires
<1>2. FlagInv'
  BY DEF IndInv, FlagInv, ResolveExpires, conn
<1>3. QED
  BY <1>1, <1>2, CloseRecordsInv DEF IndInv, TypeOK, ResolveExpires, conn

\* A decision in time finds the request waiting and unsettled, or, in handler
\* mode, settled by its handler.
LEMMA ResolveAcceptsInv ==
  ASSUME IndInv, NEW i \in Id, NEW c \in Click, ResolveAccepts(i, c),
         NEW r, r = slot[i], NEW answer, answer = WireDecision(kind[r], c.action)
  PROVE  IndInv'
<1>0. /\ TypeOK /\ r \in Request /\ RequestInv(r) /\ phase[r] # "idle"
      /\ status[r] = "pending" /\ ~(now >= created[r] + Ttl)
      /\ kind[r] \in Kind /\ c.action \in UiAction /\ Supported(kind[r], c.action)
  BY ResolveResultFacts, PendingSlot
     DEF IndInv, ResolveAccepts, Decide, RequestInv, RecordInv, Click
<1>1. /\ decision' = [decision EXCEPT ![r] = c.action]
      /\ decidedAt' = [decidedAt EXCEPT ![r] = now]
      /\ status' = [status EXCEPT ![r] = "resolved"]
      /\ Settle({r}, [q \in {r} |-> answer])
      /\ UNCHANGED <<table, now, conn, maps, kind, created, handler, sent>>
  BY DEF ResolveAccepts, Decide
<1>2. answer \in Response /\ answer # "unsettled" /\ c.action # "none"
  BY <1>0, WireDecisionTyped DEF Response, Grants, Refusals, UiAction
<1>3. /\ outcome' \in [Request -> Response \cup {"unsettled"}]
      /\ unwinding' \in SUBSET Request
      /\ \A q \in Request :
           /\ outcome'[q] = IF q = r /\ outcome[q] = "unsettled" THEN answer ELSE outcome[q]
           /\ q \in unwinding' <=> q \in unwinding \/ (q = r /\ outcome[q] = "unsettled")
  <2> DEFINE value == [q \in {r} |-> answer]
  <2>1. /\ TypeOK /\ {r} \in SUBSET Request /\ Settle({r}, value)
        /\ \A q \in {r} : value[q] = answer
    BY <1>0, <1>1
  <2> HIDE DEF value
  <2>2. \A q \in {r} : value[q] \in Response
    BY <1>2, <2>1
  <2>3. /\ outcome' \in [Request -> Response \cup {"unsettled"}]
        /\ unwinding' \in SUBSET Request
        /\ \A q \in Request :
             /\ outcome'[q] = IF q \in {r} /\ outcome[q] = "unsettled"
                                THEN value[q] ELSE outcome[q]
             /\ q \in unwinding' <=>
                  q \in unwinding \/ (q \in {r} /\ outcome[q] = "unsettled")
    BY <2>1, <2>2, SettleFacts
  <2>4. QED
    BY <2>1, <2>3
<1>4. TypeOK'
  BY <1>0, <1>1, <1>3 DEF TypeOK, Terminal, table, conn, maps, sent
<1>5. FlagInv' /\ SlotInv'
  BY <1>0, <1>1 DEF IndInv, TypeOK, FlagInv, SlotInv, conn, maps, sent
<1>6. RequestInv(r)'
  <2>0. /\ decision'[r] = c.action /\ status'[r] = "resolved"
        /\ kind'[r] = kind[r] /\ phase'[r] = phase[r] /\ handler'[r] = handler[r]
        /\ created'[r] = created[r] /\ wire'[r] = wire[r] /\ now' = now
        /\ gen' = gen /\ open' = open /\ halted' = halted /\ slot' = slot
    BY <1>0, <1>1 DEF TypeOK, conn, maps, sent
  <2>1. IdleInv(r)'
    BY <1>0, <2>0 DEF IdleInv
  <2>2. CASE outcome[r] = "unsettled"
    <3>1. outcome'[r] = answer /\ r \in unwinding'
      BY <1>0, <1>3, <2>2
    <3>2. RecordInv(r)'
      BY <1>0, <1>2, <2>0, <3>1 DEF RecordInv
    <3>3. phase[r] = "waiting" /\ GenOf(r) = gen /\ (open \/ halted)
      BY <1>0, <2>2, TimeAssumption DEF RequestInv, LiveInv, WireInv, TypeOK
    <3>4. LiveInv(r)' /\ WireInv(r)' /\ DecisionInv(r)'
      BY <1>0, <1>2, <2>0, <3>1, <3>3
         DEF RequestInv, LiveInv, WireInv, DecisionInv
    <3>5. QED
      BY <2>1, <3>2, <3>4 DEF RequestInv
  <2>3. CASE outcome[r] # "unsettled"
    <3>1. /\ outcome'[r] = outcome[r]
          /\ r \in unwinding' <=> r \in unwinding
          /\ handler[r] = "done" /\ outcome[r] \notin Grants
      BY <1>0, <1>3, <2>3 DEF RequestInv, RecordInv
    <3>2. RecordInv(r)' /\ DecisionInv(r)'
      BY <1>0, <1>2, <2>0, <2>3, <3>1 DEF RecordInv, DecisionInv
    <3>3. LiveInv(r)' /\ WireInv(r)'
      BY <1>0, <2>0, <2>3, <3>1 DEF RequestInv, LiveInv, WireInv
    <3>4. QED
      BY <2>1, <3>2, <3>3 DEF RequestInv
  <2>4. QED
    BY <2>2, <2>3
<1>7. ASSUME NEW q \in Request, q # r PROVE RequestInv(q)'
  <2>1. /\ kind'[q] = kind[q] /\ phase'[q] = phase[q] /\ status'[q] = status[q]
        /\ created'[q] = created[q] /\ decision'[q] = decision[q]
        /\ handler'[q] = handler[q] /\ outcome'[q] = outcome[q] /\ wire'[q] = wire[q]
        /\ q \in unwinding' <=> q \in unwinding
        /\ slot[IdOf(q)] = q /\ outcome[q] = "unsettled" => slot'[IdOf(q)] = q
    BY <1>0, <1>1, <1>3, <1>7 DEF TypeOK, maps, sent
  <2>2. TypeOK /\ RequestInv(q)
    BY DEF IndInv
  <2>3. gen' = gen /\ open' = open /\ halted' = halted /\ now' = now /\ now \in Nat
    BY <1>0, <1>1 DEF TypeOK, conn
  <2>4. QED
    BY <2>1, <2>2, <2>3, Frame
<1>8. QED
  BY <1>4, <1>5, <1>6, <1>7 DEF IndInv

\* The sweep.
LEMMA ExpirePendingInv ==
  ASSUME IndInv, ExpirePending
  PROVE  IndInv'
<1> DEFINE old == {r \in LivePending : created[r] + SweepAge <= now}
<1>1. old \in SUBSET LivePending
  OBVIOUS
<1>2. /\ CloseRecords(old, "expired")
      /\ UNCHANGED <<table, now, conn, maps, kind, created, decision, handler, sent>>
  BY DEF ExpirePending
<1> HIDE DEF old
<1>3. FlagInv'
  BY <1>2 DEF IndInv, FlagInv, conn
<1>4. QED
  BY <1>1, <1>2, <1>3, CloseRecordsInv DEF IndInv, TypeOK, conn

\* The loss of one approval's card.
LEMMA FailOneInv ==
  ASSUME IndInv, NEW i \in Id, FailOne(i)
  PROVE  IndInv'
<1>1. {slot[i]} \in SUBSET LivePending
  BY PendingSlot DEF FailOne
<1>2. FlagInv'
  BY DEF IndInv, FlagInv, FailOne, conn
<1>3. QED
  BY <1>1, <1>2, CloseRecordsInv DEF IndInv, TypeOK, FailOne, conn
\* Pruning forgets terminal records only, which are settled.
LEMMA PruneInv ==
  ASSUME IndInv, NEW D \in SUBSET Id, PruneTerminalRecords(D)
  PROVE  IndInv'
<1>0. /\ TypeOK /\ D \subseteq TerminalIds
      /\ slot' = [i \in Id |-> IF i \in D THEN NoRequest ELSE slot[i]]
      /\ policy' = [i \in Id |-> IF i \in D THEN NoPolicy ELSE policy[i]]
      /\ UNCHANGED <<table, now, conn, rec, prom, sent>>
  BY DEF IndInv, PruneTerminalRecords
<1>1. TypeOK'
  BY <1>0 DEF TypeOK, table, conn, rec, prom, sent
<1>2. FlagInv' /\ SlotInv'
  BY <1>0 DEF IndInv, FlagInv, SlotInv, conn, rec, sent
<1>3. ASSUME NEW q \in Request PROVE RequestInv(q)'
  <2>0. slot[IdOf(q)] = q /\ outcome[q] = "unsettled" => IdOf(q) \notin D
    BY <1>0, RequestParts, NoneAssumption
       DEF IndInv, SlotInv, RequestInv, RecordInv, TerminalIds, Terminal
  <2>1. /\ kind'[q] = kind[q] /\ phase'[q] = phase[q] /\ status'[q] = status[q]
        /\ created'[q] = created[q] /\ decision'[q] = decision[q]
        /\ handler'[q] = handler[q] /\ outcome'[q] = outcome[q] /\ wire'[q] = wire[q]
        /\ q \in unwinding' <=> q \in unwinding
        /\ slot[IdOf(q)] = q /\ outcome[q] = "unsettled" => slot'[IdOf(q)] = q
    BY <1>0, <2>0, RequestParts DEF rec, prom, sent
  <2>2. TypeOK /\ RequestInv(q)
    BY DEF IndInv
  <2>3. gen' = gen /\ open' = open /\ halted' = halted /\ now' \in Nat /\ now' >= now
    BY <1>0, <2>2 DEF TypeOK, conn
  <2>4. QED
    BY <2>1, <2>2, <2>3, Frame
<1>4. QED
  BY <1>1, <1>2, <1>3 DEF IndInv

\* The end of a connection leaves nothing unsettled behind, unless all is
\* going down.
LEMMA TransportClosesInv ==
  ASSUME IndInv, TransportCloses
  PROVE  IndInv'
<1>1. /\ unwinding = {} /\ open /\ open' = FALSE
      /\ UNCHANGED <<table, now, gen, halted, maps, kind, created, decision, handler, sent>>
      /\ TypeOK /\ FlagInv'
  BY DEF IndInv, TransportCloses, Quiet, FlagInv
<1>2. CASE halted
  <2>1. UNCHANGED <<lostFired, status, decidedAt, prom>>
    BY <1>2 DEF TransportCloses
  <2>2. TypeOK' /\ SlotInv'
    BY <1>1, <2>1 DEF IndInv, TypeOK, SlotInv, table, maps, prom, sent
  <2>3. ASSUME NEW q \in Request PROVE RequestInv(q)'
    <3>1. RequestInv(q)
      BY DEF IndInv
    <3>2. IdleInv(q)' /\ RecordInv(q)' /\ WireInv(q)'
      BY <1>1, <2>1, <3>1 DEF RequestInv, IdleInv, RecordInv, WireInv, prom, sent
    <3>3. LiveInv(q)' /\ DecisionInv(q)'
      BY <1>1, <1>2, <2>1, <3>1 DEF RequestInv, LiveInv, DecisionInv, prom, maps, sent
    <3>4. QED
      BY <3>2, <3>3 DEF RequestInv
  <2>4. QED
    BY <1>1, <2>2, <2>3 DEF IndInv
<1>3. CASE ~halted
  <2>1. lostFired = FALSE
    BY <1>1, <1>3 DEF IndInv, FlagInv, TypeOK
  <2>2. lostFired' = TRUE /\ CloseRecords(LivePending, "transport_lost")
    BY <1>3, <2>1 DEF TransportCloses, FailPendingAsTransportLost
  <2>3. QED
    BY <1>1, <2>2, CloseRecordsInv DEF TypeOK
<1>4. QED
  BY <1>2, <1>3

\* The daemon's stop closes what is pending while the connection is open.
LEMMA DaemonStopsInv ==
  ASSUME IndInv, DaemonStops
  PROVE  IndInv'
<1>1. /\ halted = FALSE /\ halted' = TRUE
      /\ UNCHANGED <<table, now, gen, open, maps, kind, created, decision, handler, sent>>
      /\ TypeOK /\ FlagInv'
  BY DEF IndInv, TypeOK, DaemonStops, FlagInv
<1>2. CASE lostFired
  <2>1. UNCHANGED <<lostFired, status, decidedAt, prom>>
    BY <1>2 DEF DaemonStops, FailPendingAsTransportLost
  <2>2. TypeOK' /\ SlotInv'
    BY <1>1, <2>1 DEF IndInv, TypeOK, SlotInv, table, maps, prom, sent
  <2>3. ASSUME NEW q \in Request PROVE RequestInv(q)'
    <3>1. RequestInv(q)
      BY DEF IndInv
    <3>2. IdleInv(q)' /\ RecordInv(q)' /\ WireInv(q)'
      BY <1>1, <2>1, <3>1 DEF RequestInv, IdleInv, RecordInv, WireInv, prom, sent
    <3>3. LiveInv(q)' /\ DecisionInv(q)'
      BY <1>1, <2>1, <3>1 DEF RequestInv, LiveInv, DecisionInv, prom, maps, sent
    <3>4. QED
      BY <3>2, <3>3 DEF RequestInv
  <2>4. QED
    BY <1>1, <2>2, <2>3 DEF IndInv
<1>3. CASE ~lostFired
  <2>1. lostFired' = TRUE /\ CloseRecords(LivePending, "transport_lost")
    BY <1>3 DEF DaemonStops, FailPendingAsTransportLost
  <2>2. LivePending \in SUBSET LivePending /\ open' = open /\ open' \in BOOLEAN
    BY <1>1 DEF TypeOK
  <2>3. QED
    BY <1>1, <2>1, <2>2, CloseRecordsInv
<1>4. QED
  BY <1>2, <1>3

\* A generation that fails to start takes the supervisor down.
LEMMA GenerationFailsInv ==
  ASSUME IndInv, GenerationFails
  PROVE  IndInv'
<1>1. /\ unwinding = {} /\ open' = FALSE /\ halted' = TRUE
      /\ UNCHANGED <<table, now, gen, lostFired, maps, rec, prom, sent>>
      /\ halted = FALSE
  BY DEF IndInv, TypeOK, GenerationFails, Quiet
<1>2. TypeOK' /\ FlagInv' /\ SlotInv'
  BY <1>1 DEF IndInv, TypeOK, FlagInv, SlotInv, table, maps, rec, prom, sent
<1>3. ASSUME NEW q \in Request PROVE RequestInv(q)'
  <2>1. RequestInv(q)
    BY DEF IndInv
  <2>2. IdleInv(q)' /\ RecordInv(q)' /\ WireInv(q)'
    BY <1>1, <2>1 DEF RequestInv, IdleInv, RecordInv, WireInv, rec, prom, sent
  <2>3. LiveInv(q)' /\ DecisionInv(q)'
    BY <1>1, <2>1 DEF RequestInv, LiveInv, DecisionInv, rec, prom, maps, sent
  <2>4. QED
    BY <2>2, <2>3 DEF RequestInv
<1>4. QED
  BY <1>2, <1>3 DEF IndInv

\* A new connection starts with nothing unsettled.
LEMMA ReattachInv ==
  ASSUME IndInv, Reattach
  PROVE  IndInv'
<1>1. /\ unwinding = {} /\ open = FALSE /\ halted = FALSE
      /\ gen' = gen + 1 /\ gen < MaxGen /\ open' = TRUE /\ lostFired' = FALSE
      /\ UNCHANGED <<table, now, halted, maps, rec, prom, sent>>
  BY DEF IndInv, TypeOK, Reattach, Quiet
<1>2. gen' \in 0..MaxGen
  BY <1>1, BoundAssumption DEF IndInv, TypeOK
<1>3. TypeOK' /\ FlagInv' /\ SlotInv'
  BY <1>1, <1>2 DEF IndInv, TypeOK, FlagInv, SlotInv, table, maps, rec, prom, sent
<1>4. ASSUME NEW q \in Request PROVE RequestInv(q)'
  <2>1. RequestInv(q)
    BY DEF IndInv
  <2>2. IdleInv(q)' /\ RecordInv(q)' /\ WireInv(q)'
    BY <1>1, <2>1 DEF RequestInv, IdleInv, RecordInv, WireInv, rec, prom, sent
  <2>3. LiveInv(q)' /\ DecisionInv(q)'
    BY <1>1, <2>1 DEF RequestInv, LiveInv, DecisionInv, rec, prom, maps, sent
  <2>4. QED
    BY <2>2, <2>3 DEF RequestInv
<1>5. QED
  BY <1>3, <1>4 DEF IndInv

\* The clock only moves deadlines closer.
LEMMA TickInv ==
  ASSUME IndInv, Tick
  PROVE  IndInv'
<1>0. /\ TypeOK /\ now' = now + 1 /\ UNCHANGED <<table, conn, maps, rec, prom, sent>>
  BY DEF IndInv, Tick
<1>1. TypeOK' /\ FlagInv' /\ SlotInv'
  BY <1>0 DEF IndInv, TypeOK, FlagInv, SlotInv, table, conn, maps, rec, prom, sent
<1>2. ASSUME NEW q \in Request PROVE RequestInv(q)'
  <2>1. /\ kind'[q] = kind[q] /\ phase'[q] = phase[q] /\ status'[q] = status[q]
        /\ created'[q] = created[q] /\ decision'[q] = decision[q]
        /\ handler'[q] = handler[q] /\ outcome'[q] = outcome[q] /\ wire'[q] = wire[q]
        /\ q \in unwinding' <=> q \in unwinding
        /\ slot[IdOf(q)] = q /\ outcome[q] = "unsettled" => slot'[IdOf(q)] = q
    BY <1>0 DEF maps, rec, prom, sent
  <2>2. TypeOK /\ RequestInv(q)
    BY DEF IndInv
  <2>3. gen' = gen /\ open' = open /\ halted' = halted /\ now' \in Nat /\ now' >= now
    BY <1>0, <2>2 DEF TypeOK, conn
  <2>4. QED
    BY <2>1, <2>2, <2>3, Frame
<1>3. QED
  BY <1>1, <1>2 DEF IndInv
-----------------------------------------------------------------------------
(* The safety theorems                                                     *)

\* Every step of the specification preserves the invariant.
LEMMA NextInv == IndInv /\ [Next]_vars => IndInv'
<1> SUFFICES ASSUME IndInv, [Next]_vars PROVE IndInv'
  OBVIOUS
<1>1. CASE BootNext
  BY <1>1, BootInv DEF BootNext
<1>2. CASE RequestNext
  BY <1>2, HandleInv, HandlerSettlesInv, UnwindInv, ClientTimeoutInv DEF RequestNext
<1>3. CASE DecisionNext
  <2>1. ASSUME NEW i \in Id, NEW c \in Click, ResolveAccepts(i, c) PROVE IndInv'
    BY <2>1, ResolveAcceptsInv
  <2>2. QED
    BY <1>3, <2>1, BindInv, ResolveExpiresInv, FailOneInv, ExpirePendingInv, PruneInv
       DEF DecisionNext
<1>4. CASE ConnectionNext
  BY <1>4, TransportClosesInv, DaemonStopsInv, GenerationFailsInv, ReattachInv, TickInv
     DEF ConnectionNext
<1>5. CASE UNCHANGED vars
  <2>1. UNCHANGED <<table, now, conn, maps, rec, prom, sent>>
    BY <1>5 DEF vars
  <2>2. TypeOK' /\ FlagInv' /\ SlotInv'
    BY <2>1 DEF IndInv, TypeOK, FlagInv, SlotInv, table, conn, maps, rec, prom, sent
  <2>3. ASSUME NEW q \in Request PROVE RequestInv(q)'
    <3>1. RequestInv(q)
      BY DEF IndInv
    <3>2. IdleInv(q)' /\ RecordInv(q)' /\ WireInv(q)' /\ LiveInv(q)' /\ DecisionInv(q)'
      BY <2>1, <3>1 DEF RequestInv, IdleInv, RecordInv, WireInv, LiveInv, DecisionInv,
                        conn, maps, rec, prom, sent
    <3>3. QED
      BY <3>2 DEF RequestInv
  <2>4. QED
    BY <2>2, <2>3 DEF IndInv
<1>6. QED
  BY <1>1, <1>2, <1>3, <1>4, <1>5 DEF Next

\* Whatever codex, users, sweeps and connections do, the invariant holds.
THEOREM Invariance == Spec => []IndInv
BY InitInv, NextInv, PTL DEF Spec

\* The broker's and the client's fields stay within their types.
THEOREM TypeCorrect == Spec => []TypeOK
<1>1. IndInv => TypeOK
  BY DEF IndInv
<1>2. QED
  BY <1>1, Invariance, PTL

\* A live approval is never orphaned: the click, the sweep and the loss
\* handling always find it under its id.
THEOREM LiveEntriesFound == Spec => []LiveEntriesIndexed
<1>1. IndInv => LiveEntriesIndexed
  BY DEF IndInv, RequestInv, IdleInv, LiveInv, LiveEntriesIndexed
<1>2. QED
  BY <1>1, Invariance, PTL

\* A decision accepted in pending mode is what codex is told.
THEOREM DecisionsArrive == Spec => []DecisionReachesCodex
<1>1. IndInv => DecisionReachesCodex
  BY DEF IndInv, RequestInv, DecisionInv, DecisionReachesCodex
<1>2. QED
  BY <1>1, Invariance, PTL

\* No grant without the decision of a user for that very request.
THEOREM NoGrantWithoutConsent == Spec => []GrantsNeedConsent
<1>1. ASSUME IndInv, NEW r \in Request, NEW n \in DOMAIN wire[r], wire[r][n] \in Grants
      PROVE  decision[r] # "none" /\ wire[r][n] = WireDecision(kind[r], decision[r])
  <2>1. RequestInv(r) /\ "err_handler" \notin Grants
    BY <1>1 DEF IndInv, Grants
  <2>2. wire[r] # << >>
    BY <1>1
  <2>3. wire[r] = << outcome[r] >>
    BY <1>1, <2>1, <2>2 DEF RequestInv, WireInv
  <2>4. wire[r][n] = outcome[r]
    BY <1>1, <2>3
  <2>5. QED
    BY <1>1, <2>1, <2>4 DEF RequestInv, RecordInv
<1>2. IndInv => GrantsNeedConsent
  BY <1>1 DEF GrantsNeedConsent
<1>3. QED
  BY <1>2, Invariance, PTL
-----------------------------------------------------------------------------
(* What is decided stays decided                                           *)

\* Closing pending records leaves terminal ones and settled outcomes alone.
LEMMA CloseRecordsFinal ==
  ASSUME IndInv, NEW S \in SUBSET LivePending, NEW terminal,
         CloseRecords(S, terminal), decision' = decision, NEW r \in Request
  PROVE  StaysDecided(r)
<1>1. status[r] \in Terminal => r \notin S
  BY DEF LivePending, Terminal
<1>2. /\ status'[r] = IF r \in S THEN terminal ELSE status[r]
      /\ decidedAt'[r] = IF r \in S THEN now ELSE decidedAt[r]
      /\ outcome[r] # "unsettled" => outcome'[r] = outcome[r]
  BY DEF CloseRecords, Settle
<1>3. QED
  BY <1>1, <1>2 DEF StaysDecided

\* No step re-decides what is decided, whoever comes late.
LEMMA StepIsFinal ==
  ASSUME IndInv, Next, NEW r \in Request
  PROVE  StaysDecided(r)
<1>0. TypeOK /\ RequestInv(r)
  BY DEF IndInv
<1>1. ASSUME UNCHANGED <<status, decidedAt, decision, outcome>> PROVE StaysDecided(r)
  BY <1>1 DEF StaysDecided
<1>2. CASE BootNext
  BY <1>1, <1>2 DEF BootNext, RegisterHandler, EnablePendingMode, DisablePendingMode, rec, prom
<1>3. ASSUME NEW q \in Request, NEW k \in Kind, Handle(q, k) PROVE StaysDecided(r)
  <2>1. /\ phase[q] = "idle" /\ UNCHANGED <<decidedAt, decision>>
        /\ \/ outcome' = [outcome EXCEPT ![q] = DefaultReject[k]] /\ status' = status
           \/ status' = [status EXCEPT ![q] = "pending"] /\ outcome' = outcome
    BY <1>3 DEF Handle, prom
  <2>2. r = q => status[r] = "none" /\ outcome[r] = "unsettled"
    BY <1>0, <2>1 DEF RequestInv, IdleInv
  <2>3. QED
    BY <1>0, <2>1, <2>2 DEF StaysDecided, TypeOK, Terminal
<1>4. ASSUME NEW q \in Request, NEW v \in {"tool_result", "err_handler"}, HandlerSettles(q, v)
      PROVE  StaysDecided(r)
  <2>1. /\ UNCHANGED <<status, decidedAt, decision>>
        /\ outcome[r] # "unsettled" => outcome'[r] = outcome[r]
    BY <1>4 DEF HandlerSettles, Settle
  <2>2. QED
    BY <2>1 DEF StaysDecided
<1>5. CASE RequestNext
  BY <1>1, <1>3, <1>4, <1>5 DEF RequestNext, Unwind, ClientTimeout, rec, prom
<1>6. ASSUME NEW i \in Id, NEW c \in Click, ResolveExpires(i, c) PROVE StaysDecided(r)
  <2>1. {slot[i]} \in SUBSET LivePending
    BY <1>6, ResolveResultFacts, PendingSlot DEF ResolveExpires
  <2>2. QED
    BY <1>6, <2>1, CloseRecordsFinal DEF ResolveExpires
<1>7. ASSUME NEW i \in Id, NEW c \in Click, ResolveAccepts(i, c) PROVE StaysDecided(r)
  <2>1. status[slot[i]] = "pending"
    BY <1>7, ResolveResultFacts DEF ResolveAccepts, Decide
  <2>2. /\ decision' = [decision EXCEPT ![slot[i]] = c.action]
        /\ decidedAt' = [decidedAt EXCEPT ![slot[i]] = now]
        /\ status' = [status EXCEPT ![slot[i]] = "resolved"]
        /\ outcome[r] # "unsettled" => outcome'[r] = outcome[r]
    BY <1>7 DEF ResolveAccepts, Decide, Settle
  <2>3. status[r] \in Terminal => r # slot[i]
    BY <2>1 DEF Terminal
  <2>4. QED
    BY <1>0, <2>2, <2>3 DEF StaysDecided, TypeOK
<1>8. ASSUME NEW i \in Id, FailOne(i) PROVE StaysDecided(r)
  <2>1. {slot[i]} \in SUBSET LivePending
    BY <1>8, PendingSlot DEF FailOne
  <2>2. QED
    BY <1>8, <2>1, CloseRecordsFinal DEF FailOne
<1>9. CASE ExpirePending
  <2> DEFINE old == {q \in LivePending : created[q] + SweepAge <= now}
  <2>1. old \in SUBSET LivePending /\ CloseRecords(old, "expired") /\ decision' = decision
    BY <1>9 DEF ExpirePending
  <2> HIDE DEF old
  <2>2. QED
    BY <2>1, CloseRecordsFinal
<1>10. CASE DecisionNext
  BY <1>1, <1>6, <1>7, <1>8, <1>9, <1>10
     DEF DecisionNext, BindActorPolicy, PruneTerminalRecords, rec, prom
<1>11. ASSUME FailPendingAsTransportLost, decision' = decision PROVE StaysDecided(r)
  <2>1. CASE lostFired
    BY <1>1, <1>11, <2>1 DEF FailPendingAsTransportLost, prom
  <2>2. CASE ~lostFired
    <3>1. CloseRecords(LivePending, "transport_lost")
      BY <1>11, <2>2 DEF FailPendingAsTransportLost
    <3>2. LivePending \in SUBSET LivePending
      OBVIOUS
    <3>3. QED
      BY <1>11, <3>1, <3>2, CloseRecordsFinal
  <2>3. QED
    BY <2>1, <2>2
<1>12. CASE TransportCloses \/ DaemonStops
  BY <1>1, <1>11, <1>12 DEF TransportCloses, DaemonStops, prom
<1>13. CASE ConnectionNext
  BY <1>1, <1>12, <1>13 DEF ConnectionNext, GenerationFails, Reattach, Tick, rec, prom
<1>14. QED
  BY <1>2, <1>5, <1>10, <1>13 DEF Next

\* Whatever sweeps, losses, late handlers and clicks follow, the record and the
\* settled outcome of a request never change again.
THEOREM DecisionsAreFinal == Spec => DecidedIsFinal
<1>1. IndInv /\ [Next]_vars => [\A r \in Request : StaysDecided(r)]_vars
  BY StepIsFinal
<1>2. QED
  BY <1>1, Invariance, PTL DEF Spec, DecidedIsFinal
-----------------------------------------------------------------------------
(* The broker implements its contract with codex                           *)

\* The users' consent, as the refinement mapping reads it off the records.
Consented == [r \in Request |-> IF decision[r] = "none" THEN {}
                                ELSE {WireDecision(kind[r], decision[r])}]

\* A step that leaves the wire and the decisions alone is a stutter; only an
\* idle request's kind may change.
LEMMA Stutter ==
  ASSUME IndInv, UNCHANGED <<phase, wire, decision>>,
         \A r \in Request : phase[r] # "idle" => kind'[r] = kind[r]
  PROVE  UNCHANGED Contract!cvars
<1>1. \A r \in Request : decision[r] # "none" => phase[r] # "idle"
  BY DEF IndInv, RequestInv, IdleInv
<1>2. Consented' = Consented
  BY <1>1 DEF Consented
<1>3. QED
  BY <1>2 DEF Contract!cvars, Consented

\* The value of a settled request going out is a reply, with the consent a
\* grant needs, or a drop.
LEMMA DeliverRefines ==
  ASSUME IndInv, NEW r \in Request, NEW v \in Response,
         phase[r] = "waiting", Deliver(r, v), UNCHANGED <<kind, decision>>,
         v \in Grants => v \in Consented[r]
  PROVE  Contract!Reply(r, v) \/ Contract!Drop(r)
<1>1. Consented' = Consented /\ wire[r] = << >>
  BY DEF Consented, IndInv, RequestInv, WireInv
<1>2. CASE CanSend(r)
  <2>1. wire' = [wire EXCEPT ![r] = << v >>] /\ phase' = [phase EXCEPT ![r] = "answered"]
    BY <1>1, <1>2 DEF Deliver, IndInv, TypeOK
  <2>2. QED
    BY <1>1, <2>1 DEF Contract!Reply, Consented
<1>3. CASE ~CanSend(r)
  <2>1. wire' = wire /\ phase' = [phase EXCEPT ![r] = "dropped"]
    BY <1>1, <1>3 DEF Deliver, IndInv, TypeOK
  <2>2. QED
    BY <1>1, <2>1 DEF Contract!Drop, Consented
<1>4. QED
  BY <1>2, <1>3

\* A request that reaches the broker is one received.
LEMMA HandleRefines ==
  ASSUME IndInv, NEW r \in Request, NEW k \in Kind, Handle(r, k)
  PROVE  Contract!Receive(r)
<1>1. /\ phase[r] = "idle" /\ decision' = decision /\ wire' = wire
      /\ phase' = [phase EXCEPT ![r] = "waiting"]
      /\ kind' = [kind EXCEPT ![r] = k]
      /\ decision[r] = "none"
  BY DEF Handle, IndInv, RequestInv, IdleInv
<1>2. Consented' = Consented
  BY <1>1 DEF Consented, IndInv, TypeOK
<1>3. QED
  BY <1>1, <1>2 DEF Contract!Receive, Consented

\* The continuation of a settled request replies, drops, or does nothing.
LEMMA UnwindRefines ==
  ASSUME IndInv, NEW r \in Request, Unwind(r)
  PROVE  (\E v \in Response : Contract!Reply(r, v)) \/ Contract!Drop(r)
         \/ UNCHANGED Contract!cvars
<1>1. UNCHANGED <<kind, decision>>
  BY DEF Unwind, rec
<1>2. CASE phase[r] = "waiting"
  <2>1. outcome[r] \in Response
    BY DEF Unwind, IndInv, RequestInv, LiveInv, TypeOK
  <2>2. outcome[r] \in Grants => outcome[r] \in Consented[r]
    BY DEF Consented, IndInv, RequestInv, RecordInv
  <2>3. QED
    BY <1>1, <1>2, <2>1, <2>2, DeliverRefines DEF Unwind
<1>3. CASE phase[r] # "waiting"
  BY <1>1, <1>3, Stutter DEF Unwind, sent
<1>4. QED
  BY <1>2, <1>3

\* The client's timer replies with an error or drops.
LEMMA ClientTimeoutRefines ==
  ASSUME IndInv, NEW r \in Request, ClientTimeout(r)
  PROVE  (\E v \in Response : Contract!Reply(r, v)) \/ Contract!Drop(r)
<1>1. "err_handler" \in Response \ Grants
  BY DEF Response, Refusals, Grants
<1>2. QED
  BY <1>1, DeliverRefines DEF ClientTimeout, rec

\* An accepted decision is a consent to the answer it maps to.
LEMMA ResolveAcceptsRefines ==
  ASSUME IndInv, NEW i \in Id, NEW c \in Click, ResolveAccepts(i, c)
  PROVE  \E r \in Request, v \in Response : Contract!Consent(r, v)
<1>0. PICK r \in Request : r = slot[i]
  BY ResolveResultFacts, PendingSlot DEF ResolveAccepts, Decide
<1>1. /\ phase[r] # "idle" /\ kind[r] \in Kind /\ decision[r] = "none"
      /\ c.action \in UiAction /\ c.action # "none" /\ Supported(kind[r], c.action)
  BY <1>0, ResolveResultFacts, PendingSlot
     DEF ResolveAccepts, Decide, IndInv, RequestInv, RecordInv, Click, UiAction
<1>2. PICK v \in Response : v = WireDecision(kind[r], c.action)
  BY <1>1, WireDecisionTyped
<1>3. /\ decision' = [decision EXCEPT ![r] = c.action]
      /\ UNCHANGED <<kind, phase, wire>>
  BY <1>0 DEF ResolveAccepts, Decide, sent
<1>4. Consented' = [Consented EXCEPT ![r] = Consented[r] \cup {v}]
  BY <1>1, <1>2, <1>3 DEF Consented, IndInv, TypeOK
<1>5. Contract!Consent(r, v)
  BY <1>1, <1>3, <1>4 DEF Contract!Consent, Consented
<1>6. QED
  BY <1>5

\* Every step of the broker is a step of the contract or leaves it alone.
LEMMA StepRefines == IndInv /\ [Next]_vars => [Contract!CNext]_(Contract!cvars)
<1> SUFFICES ASSUME IndInv, [Next]_vars
             PROVE  Contract!CNext \/ UNCHANGED Contract!cvars
  OBVIOUS
<1>1. ASSUME UNCHANGED <<phase, wire, decision, kind>> PROVE UNCHANGED Contract!cvars
  BY <1>1, Stutter
<1>2. CASE BootNext
  BY <1>1, <1>2 DEF BootNext, RegisterHandler, EnablePendingMode, DisablePendingMode, rec, sent
<1>3. CASE RequestNext
  BY <1>1, <1>3, HandleRefines, UnwindRefines, ClientTimeoutRefines
     DEF RequestNext, HandlerSettles, sent, Contract!CNext
<1>4. CASE DecisionNext
  BY <1>1, <1>4, ResolveAcceptsRefines
     DEF DecisionNext, BindActorPolicy, ResolveExpires, FailOne, ExpirePending,
         PruneTerminalRecords, rec, sent, Contract!CNext
<1>5. CASE ConnectionNext
  BY <1>1, <1>5 DEF ConnectionNext, TransportCloses, DaemonStops, GenerationFails, Reattach,
                    Tick, rec, sent
<1>6. CASE UNCHANGED vars
  BY <1>1, <1>6 DEF vars, rec, sent
<1>7. QED
  BY <1>2, <1>3, <1>4, <1>5, <1>6 DEF Next

\* Codex gets at most one answer to a request, and a grant only with consent.
THEOREM Refinement == Spec => ImplementsContract
<1>1. Init => Contract!CInit
  BY DEF Init, FreshBroker, Contract!CInit
<1>2. QED
  BY <1>1, StepRefines, Invariance, PTL DEF Spec, ImplementsContract, Contract!CSpec
=============================================================================
