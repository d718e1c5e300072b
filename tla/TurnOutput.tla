----------------------------- MODULE TurnOutput -----------------------------
(***************************************************************************)
(* TurnOutputManager: what a chat sees of a turn while it runs and when it *)
(* ends.  Three callers use it at once and wait for the platform in it:    *)
(* the handler that started the turn (open), the pump of codex's events    *)
(* (handle, one event after the other) and a /stop (interrupt).            *)
(*                                                                         *)
(* Text is counted in the messages it fills; what a message says is a      *)
(* number: 0 for "working" and for progress, n for the n-th part of the    *)
(* result.  A call takes effect on the platform when it is answered, or    *)
(* not at all if it fails, or although it is reported failed: calls of two *)
(* callers may overlap and take effect in either order.                    *)
(***************************************************************************)
EXTENDS Naturals, Sequences

CONSTANTS
  OutTurn,                  \* the turns that get an output
  MaxChunks                 \* MAX_IM_TEXT_CHUNKS

ASSUME OutputAssumption == MaxChunks \in Nat \ {0}

VARIABLES
  editable,     \* the platform can edit a message (else its refs are append-only)
  opened,       \* per turn: #outputs and the progress of open
  buffer,       \* per turn: DaemonTurnOutputState
  editing,      \* the turns whose message the pump edits with progress
  ending,       \* the turn whose end the pump publishes
  publication,      \* per turn: the progress of the terminal publication
  screen,       \* per turn: the messages in the chat
  clean,        \* history: no call about the turn has failed
  overtaken     \* history: /stop came while a progress edit was under way

outputVars == <<editable, opened, buffer, editing, ending, publication, screen, clean, overtaken>>

OpenPc == {"no", "sending", "open"}
ClosePc == {"no", "edit", "send", "more", "files", "over"}

OutputTypeOK ==
  /\ editable \in BOOLEAN
  /\ opened \in [OutTurn -> [pc: OpenPc, listed: BOOLEAN]]
  /\ buffer \in [OutTurn -> [text: 0..MaxChunks, notes: BOOLEAN, quiet: BOOLEAN,
                             ref: Nat, edited: BOOLEAN]]
  /\ editing \subseteq OutTurn /\ ending \subseteq OutTurn
  /\ publication \in [OutTurn -> [pc: ClosePc, next: 1..MaxChunks + 1, size: 0..MaxChunks,
                              replaces: BOOLEAN]]
  /\ screen \in [OutTurn -> Seq(0..MaxChunks)]
  /\ clean \in [OutTurn -> BOOLEAN] /\ overtaken \in [OutTurn -> BOOLEAN]

OutputInit ==
  /\ editable \in BOOLEAN
  /\ opened = [t \in OutTurn |-> [pc |-> "no", listed |-> FALSE]]
  /\ buffer = [t \in OutTurn |-> [text |-> 0, notes |-> FALSE, quiet |-> FALSE,
                                  ref |-> 0, edited |-> FALSE]]
  /\ editing = {} /\ ending = {}
  /\ publication = [t \in OutTurn |-> [pc |-> "no", next |-> 1, size |-> 0, replaces |-> FALSE]]
  /\ screen = [t \in OutTurn |-> <<>>]
  /\ clean = [t \in OutTurn |-> TRUE]
  /\ overtaken = [t \in OutTurn |-> FALSE]

-----------------------------------------------------------------------------
(* Calls to the platform                                                   *)

\* What an answer may report, and whether the call took effect.
Outcome == [ok: BOOLEAN, done: BOOLEAN] \ {[ok |-> TRUE, done |-> FALSE]}

Noted(t, out) == clean' = [clean EXCEPT ![t] = @ /\ out.ok]

Sent(t, n, out) ==
  /\ screen' = IF out.done THEN [screen EXCEPT ![t] = Append(@, n)] ELSE screen
  /\ Noted(t, out)

Edited(t, n, out) ==
  /\ screen' = IF out.done THEN [screen EXCEPT ![t][buffer[t].ref] = n] ELSE screen
  /\ Noted(t, out)

-----------------------------------------------------------------------------
(* open                                                                    *)

\* The turn is listed at once, and codex's events for it are taken from now on.
Open(t, quiet) ==
  /\ opened[t].pc = "no"
  /\ opened' = [opened EXCEPT ![t] = [pc |-> "sending", listed |-> TRUE]]
  /\ buffer' = [buffer EXCEPT ![t].quiet = quiet]
  /\ UNCHANGED <<editable, editing, ending, publication, screen, clean, overtaken>>

\* The "working" message is there, or not; only now can it be edited.
OpenAnswered(t, out) ==
  /\ opened[t].pc = "sending"
  /\ opened' = [opened EXCEPT ![t].pc = "open"]
  /\ Sent(t, 0, out)
  /\ buffer' = IF out.ok THEN [buffer EXCEPT ![t].ref = Len(screen'[t])] ELSE buffer
  /\ UNCHANGED <<editable, editing, ending, publication, overtaken>>

-----------------------------------------------------------------------------
(* handle, while the turn runs                                             *)

\* (mutant) The pump does not wait for the edit of the message.
Takes_Unawaited(t) == opened[t].listed /\ ending = {}

\* The pump is at its next event, which is about a listed turn.
Takes(t) == opened[t].listed /\ ending = {} /\ editing = {}

Shows(b) == b.text > 0 \/ (b.notes /\ ~b.quiet)

\* #maybeEditTurnProgress: nothing to show, an append-only message and a last edit
\* less than 1.5 seconds ago leave the message alone; else it is edited, if there is
\* one by now.
MaybeEdit(t, b) ==
  \/ /\ ~Shows(b) \/ (~editable /\ b.ref # 0) \/ b.edited
     /\ buffer' = [buffer EXCEPT ![t] = b]
     /\ UNCHANGED editing
  \/ /\ Shows(b) /\ (editable \/ b.ref = 0)
     /\ buffer' = [buffer EXCEPT ![t] = [b EXCEPT !.edited = TRUE]]
     /\ editing' = IF b.ref # 0 THEN editing \cup {t} ELSE editing

\* appendImText: the text grows, and is cut when it fills all messages.
Appended(n) == {n, n + 1} \cap (1..MaxChunks)

\* agent_message_delta.
Delta(t) ==
  /\ Takes(t)
  /\ \E n \in Appended(buffer[t].text) : MaybeEdit(t, [buffer[t] EXCEPT !.text = n])
  /\ UNCHANGED <<editable, opened, ending, publication, screen, clean, overtaken>>

\* summarizeCodexItem: messages and reasoning of codex have no summary.
ItemSummary == {"none", "some"}

\* item_completed.
ItemCompleted(t) ==
  /\ Takes(t)
  /\ \E s \in ItemSummary : buffer' = [buffer EXCEPT ![t].notes = @ \/ s = "some"]
  /\ UNCHANGED <<editable, opened, editing, ending, publication, screen, clean, overtaken>>

\* #stateForStatusEvent, #stateForRuntimeNotice: a notice is for the turn or the
\* thread it names, or for the only turn there is.
Addressed(named) ==
  LET listed == {t \in OutTurn : opened[t].listed} IN
  IF named # {} THEN named \cap listed
  ELSE {t \in listed : listed = {t}}

\* A status event, warning or error that is news.
Notice(t) ==
  /\ Takes(t)
  /\ \E named \in {{}, {t}} : t \in Addressed(named)
  /\ MaybeEdit(t, [buffer[t] EXCEPT !.notes = TRUE])
  /\ UNCHANGED <<editable, opened, ending, publication, screen, clean, overtaken>>

ProgressEdited(t, out) ==
  /\ t \in editing
  /\ Edited(t, 0, out)
  /\ editing' = editing \ {t}
  /\ UNCHANGED <<editable, opened, buffer, ending, publication, overtaken>>

-----------------------------------------------------------------------------
(* The end of a turn                                                       *)

\* splitImText: the parts of a result; the line added to a turn that did not complete
\* may take one more.
Split(n, completed) ==
  IF n = 0 THEN {1} ELSE IF completed THEN {n} ELSE {n, n + 1} \cap (1..MaxChunks)

\* #terminalTurnOutputBody: with summaries the result is cut to one message.
Sizes(t, completed, summaries) ==
  IF summaries /\ buffer[t].notes /\ ~buffer[t].quiet THEN {1}
  ELSE Split(buffer[t].text, completed)

\* The first part replaces the "working" message if there is one by now.
Replaces(t) == editable /\ buffer[t].ref # 0

Close(t, n) ==
  /\ opened' = [opened EXCEPT ![t].listed = FALSE]
  /\ publication' = [publication EXCEPT ![t] =
       [pc |-> IF Replaces(t) THEN "edit" ELSE "send", next |-> 1, size |-> n,
        replaces |-> Replaces(t)]]
  /\ UNCHANGED <<editable, buffer, screen, clean>>

\* The pump handles the end of t.
TurnEnd(t, completed) ==
  /\ Takes(t)
  /\ \E n \in Sizes(t, completed, TRUE) : Close(t, n)
  /\ ending' = {t}
  /\ UNCHANGED <<editing, overtaken>>

\* interrupt: without summaries and files.
Interrupt(t) ==
  /\ opened[t].listed
  /\ \E n \in Sizes(t, FALSE, FALSE) : Close(t, n)
  /\ overtaken' = [overtaken EXCEPT ![t] = t \in editing]
  /\ UNCHANGED <<editing, ending>>

\* After a part was sent: the next one, unless it failed or was the last.
Parts(k, out) ==
  LET n == k.next + 1 IN
  IF out.ok /\ n <= k.size THEN [k EXCEPT !.pc = "more", !.next = n]
  ELSE [k EXCEPT !.pc = "files"]

\* The first part is edited in; if that fails it is sent.
FirstEdited(t, out) ==
  /\ publication[t].pc = "edit"
  /\ Edited(t, 1, out)
  /\ publication' = [publication EXCEPT ![t] = IF out.ok THEN Parts(@, out) ELSE [@ EXCEPT !.pc = "send"]]
  /\ UNCHANGED <<editable, opened, buffer, editing, ending, overtaken>>

PartSent(t, out) ==
  /\ publication[t].pc \in {"send", "more"}
  /\ Sent(t, publication[t].next, out)
  /\ publication' = [publication EXCEPT ![t] = Parts(@, out)]
  /\ UNCHANGED <<editable, opened, buffer, editing, ending, overtaken>>

\* The files follow whatever became of the text; one that fails is passed over.  The
\* pump goes on to its next event.
FilesSent(t) ==
  /\ publication[t].pc = "files"
  /\ publication' = [publication EXCEPT ![t].pc = "over"]
  /\ ending' = ending \ {t}
  /\ UNCHANGED <<editable, opened, buffer, editing, screen, clean, overtaken>>

-----------------------------------------------------------------------------
OutputNext ==
  \E t \in OutTurn :
    \/ \E quiet \in BOOLEAN : Open(t, quiet)
    \/ \E out \in Outcome :
         OpenAnswered(t, out) \/ ProgressEdited(t, out) \/ FirstEdited(t, out) \/ PartSent(t, out)
    \/ Delta(t) \/ ItemCompleted(t) \/ Notice(t)
    \/ \E completed \in BOOLEAN : TurnEnd(t, completed)
    \/ Interrupt(t)
    \/ FilesSent(t)

OutputSpec == OutputInit /\ [][OutputNext]_outputVars
-----------------------------------------------------------------------------
(* Properties                                                              *)

\* The n parts of a result; with the "working" message at place w among them.
Result(n) == [i \in 1..n |-> i]
ResultBeside(n, w) == [i \in 1..n + 1 |-> IF i < w THEN i ELSE IF i = w THEN 0 ELSE i - 1]

\* The result of a turn is in the chat complete and in order, in the place of the
\* "working" message or beside the only one, if no call failed and no /stop came while
\* a progress edit was under way (the platform may apply that edit last).
ResultStands ==
  \A t \in OutTurn :
    publication[t].pc = "over" /\ clean[t] /\ ~overtaken[t] =>
      LET n == publication[t].size IN
      \/ screen[t] = Result(n)
      \/ ~publication[t].replaces /\ \E w \in 1..n + 1 : screen[t] = ResultBeside(n, w)
=============================================================================
