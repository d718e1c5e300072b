--------------------------- MODULE DecisionMapper ---------------------------
(***************************************************************************)
(* The wire-shape tables of the approval broker: which answer a user's     *)
(* action becomes for each kind of server request, and which answer the    *)
(* broker gives when nobody decides.  Answers are named after what they    *)
(* tell codex, not spelled as JSON.                                        *)
(***************************************************************************)

\* The nine generated server-request methods, by their method-free kind.
ApprovalKind == {"command_execution", "file_change", "permissions",
                 "tool_user_input", "tool_call", "mcp_elicitation",
                 "legacy_apply_patch", "legacy_exec_command",
                 "auth_token_refresh"}

UiAction == {"allow_once", "allow_session", "decline", "abort"}

\* Answers that let codex go on with what it asked for.
Grants == {"accept", "acceptForSession", "approved", "approved_for_session"}

\* Answers that do not; "err_unsupported" and "err_handler" are JSON-RPC
\* errors, "tool_result" is what a registered tool handler returned.
Refusals == {"decline", "cancel", "denied", "abort", "no_permissions",
             "no_answers", "tool_failed", "elicitation_decline",
             "elicitation_cancel", "err_unsupported", "err_handler",
             "tool_result"}

Response == Grants \cup Refusals

\* The v2 rows of the dispatch table share one shape, the legacy rows another.
V2Row == [allow_once |-> "accept", allow_session |-> "acceptForSession",
          decline |-> "decline", abort |-> "cancel"]
LegacyRow == [allow_once |-> "approved", allow_session |-> "approved_for_session",
              decline |-> "denied", abort |-> "abort"]

\* KIND_DISPATCH: a missing action is one the kind does not support.
KindDispatch ==
  [command_execution   |-> V2Row,
   file_change         |-> V2Row,
   permissions         |-> [decline |-> "no_permissions"],
   tool_user_input     |-> [decline |-> "no_answers"],
   tool_call           |-> [decline |-> "tool_failed"],
   mcp_elicitation     |-> [decline |-> "elicitation_decline",
                            abort   |-> "elicitation_cancel"],
   legacy_apply_patch  |-> LegacyRow,
   legacy_exec_command |-> LegacyRow]

\* mapDecisionForPending: an action settles the wire unless unsupported.
Supported(k, a) ==
  k = "auth_token_refresh" \/ (k \in DOMAIN KindDispatch /\ a \in DOMAIN KindDispatch[k])

WireDecision(k, a) ==
  IF k = "auth_token_refresh" THEN "err_unsupported" ELSE KindDispatch[k][a]

\* (mutant) Command executions go on when nobody answers.
DefaultReject_Permissive ==
  [k \in ApprovalKind |-> IF k = "command_execution" THEN "accept" ELSE "decline"]

\* The broker's per-method answer when no decision is made: default-reject
\* mode, expiry and transport loss all use it.
DefaultReject ==
  [command_execution   |-> "decline",
   file_change         |-> "decline",
   permissions         |-> "no_permissions",
   tool_user_input     |-> "no_answers",
   tool_call           |-> "tool_failed",
   mcp_elicitation     |-> "elicitation_cancel",
   legacy_apply_patch  |-> "denied",
   legacy_exec_command |-> "denied",
   auth_token_refresh  |-> "err_unsupported"]
=============================================================================
