--------------------------- MODULE ThreadCatalog ----------------------------
(***************************************************************************)
(* What the daemon remembers of chats and threads between messages: the    *)
(* table thread_bindings, SessionRouter's cache of it, and the table       *)
(* thread_sessions of the threads a chat has used, with the commands that  *)
(* write them: prompts, /use, /new, /fork, /model, /alias, /rename,        *)
(* /threads --refresh and /switch.                                         *)
(*                                                                         *)
(* Every statement of SQLite may throw (a full disk, a locked file); the   *)
(* command then ends with a message, and what it wrote before stays.  The  *)
(* repositories write a row and read it back in a statement of its own:    *)
(* the second may throw when the first has taken.  A switch waits for      *)
(* codex between reading the record and writing.                           *)
(*                                                                         *)
(* Active turns, and the handlers that write a captured route back with    *)
(* one, are in ChatTurns.                                                  *)
(***************************************************************************)
CONSTANTS Room, Work, Talk      \* chats, configured projects, threads
CONSTANT Nil

ASSUME CatalogAssumption == Nil \notin Work \cup Talk

VARIABLES
  row,        \* thread_bindings: a binding, or NoRow
  cached,     \* SessionRouter.#cache
  behind,     \* (history) chats whose entry in the cache was not replaced by their last row
  records,    \* thread_sessions: per chat and thread, a record or NoRecord
  switching,  \* the /switch that waits for thread/resume
  native      \* the threads codex lists

bindingVars == <<row, cached, behind>>
catalogVars == <<row, cached, behind, records, switching, native>>

Kind == {"configured", "native", "app"}
Binding == [kind: Kind \cup {"unsaid"}, project: Work \cup {Nil},
            thread: Talk \cup {Nil}, model: BOOLEAN]
NoRow == Nil
NoRecord == Nil
Title == {"none", "given", "codex's"}
Record == [kind: Kind, project: Work \cup {Nil}, title: Title]

\* How far a binding gets: not into the table; into the table, but the statement that
\* reads it back throws; all the way.
BindOutcome == {"lost", "unread", "done"}

\* normalizeBindingContext and normalizeThreadSessionContext: what they refuse ...
WellFormed(b) ==
  /\ b.kind = "configured" => b.project # Nil
  /\ b.kind = "app" => b.project = Nil

\* ... and the kind they give a binding that does not say one.
Normal(b) ==
  IF b.kind # "unsaid" THEN b
  ELSE [b EXCEPT !.kind = IF b.project = Nil THEN "app" ELSE "configured"]

\* No binding and no record is the value that stands for none.
ASSUME NothingAssumption == Nil \notin Binding \cup Record /\ Nil \notin Room

Nowhere == [room |-> Nil, thread |-> Nil, record |-> NoRecord]

CatalogTypeOK ==
  /\ row \in [Room -> Binding \cup {NoRow}]
  /\ cached \in [Room -> Binding \cup {NoRow}]
  /\ behind \subseteq Room
  /\ records \in [Room -> [Talk -> Record \cup {NoRecord}]]
  /\ switching \in [room: Room \cup {Nil}, thread: Talk \cup {Nil},
                    record: Record \cup {NoRecord}]
  /\ native \subseteq Talk

CatalogInit ==
  /\ row = [c \in Room |-> NoRow] /\ cached = row /\ behind = {}
  /\ records = [c \in Room |-> [t \in Talk |-> NoRecord]]
  /\ switching = Nowhere
  /\ native = {}

-----------------------------------------------------------------------------
(* The two tables and the cache                                            *)

\* resolve: the cached entry, or what the table has, which is cached.
Route(c) == IF cached[c] # NoRow THEN cached[c] ELSE row[c]
Filled(c) == [cached EXCEPT ![c] = Route(c)]

\* BindingRepository.upsert: the row is replaced or added.
Written(c, b, out) ==
  /\ WellFormed(Normal(b))
  /\ row' = IF out = "lost" THEN row ELSE [row EXCEPT ![c] = Normal(b)]

\* (mutant) The cache is written before the table.
Bind_CacheFirst(cache, c, b, out) ==
  /\ Written(c, b, out)
  /\ cached' = [cache EXCEPT ![c] = Normal(b)]
  /\ behind' = IF out = "done" THEN behind \ {c}
               ELSE IF out = "unread" /\ cache[c] # NoRow THEN behind \cup {c}
               ELSE behind

\* bind: the table, then the cache, which is as the command found or filled it, from
\* what the table gives back.  Without an entry the next resolve reads the row.
Bind(cache, c, b, out) ==
  /\ Written(c, b, out)
  /\ cached' = IF out = "done" THEN [cache EXCEPT ![c] = row'[c]] ELSE cache
  /\ behind' = IF out = "done" THEN behind \ {c}
               ELSE IF out = "unread" /\ cache[c] # NoRow THEN behind \cup {c}
               ELSE behind

\* ThreadSessionRepository.upsert: the context is replaced; a title only if there is
\* one to write.
Upserted(old, b, title) ==
  [kind    |-> Normal(b).kind,
   project |-> b.project,
   title   |-> IF title = "none" /\ old # NoRecord THEN old.title ELSE title]

Upsert(c, t, b, title) ==
  records' = [records EXCEPT ![c][t] = Upserted(records[c][t], b, title)]

\* The row is written, whether or not it can be read back, or it is not.
Save(c, t, b, title, recorded) ==
  IF recorded THEN Upsert(c, t, b, title) ELSE UNCHANGED records

InContext(k, p, t) == [kind |-> k, project |-> p, thread |-> t, model |-> FALSE]
AsNative(t) == InContext("native", Nil, t)

-----------------------------------------------------------------------------
(* Commands that bind                                                      *)

\* What every prompt and command that concerns the chat's route begins with, and all that
\* happens here of those that then wait for codex or only answer.
Resolves(c) ==
  /\ cached[c] = NoRow /\ row[c] # NoRow
  /\ cached' = Filled(c)
  /\ UNCHANGED <<row, behind, records, switching, native>>

\* /use: a project, without a thread.
UseProject(c, p, out) ==
  /\ Bind(Filled(c), c, InContext("unsaid", p, Nil), out)
  /\ UNCHANGED <<records, switching, native>>

\* Codex gives a thread that it starts or forks an id of its own.
StartsThread(t) == t \notin native /\ native' = native \cup {t}

\* The first prompt of a chat, in codex's default context: bound, and then recorded, at
\* best.  The chat may have been bound while codex was waited for.
FirstPrompt(c, t, out, recorded) ==
  /\ StartsThread(t)
  /\ Bind(cached, c, InContext("app", Nil, t), out)
  /\ recorded => out = "done"
  /\ Save(c, t, InContext("app", Nil, t), "none", recorded)
  /\ UNCHANGED switching

\* /new in a project, /new of an unbound chat, and /fork: recorded, perhaps with a title,
\* and then bound; a record that throws ends the command.
NewThreadIn(c, p, t, title, recorded, out) ==
  LET b == InContext(IF p = Nil THEN "app" ELSE "unsaid", p, t)
  IN  /\ StartsThread(t)
      /\ out # "lost" => recorded
      /\ Save(c, t, b, title, recorded)
      /\ Bind(cached, c, b, out)
      /\ UNCHANGED switching

\* A bound chat's new thread: recorded in the context captured before codex answered, and
\* bound in the one the chat has by now.
BindThread(c, k, p, t, title, recorded, out) ==
  /\ StartsThread(t)
  /\ Route(c) # NoRow
  /\ k = "configured" <=> p # Nil
  /\ Save(c, t, InContext(k, p, Nil), title, recorded)
  /\ Bind(Filled(c), c, [Route(c) EXCEPT !.thread = t], out)
  /\ UNCHANGED switching

\* For a prompt the record is written at best; for /cu, not at all.
FreshThread(c, k, p, t, recorded, out) == BindThread(c, k, p, t, "none", recorded, out)

\* For /new a record that throws ends the command.
NewInPlace(c, k, p, t, title, recorded, out) ==
  /\ out # "lost" => recorded
  /\ BindThread(c, k, p, t, title, recorded, out)

\* /model: the route read again after codex's answer, with the model.
SetCurrentModel(c, out) ==
  /\ Route(c) # NoRow
  /\ Bind(Filled(c), c, [Route(c) EXCEPT !.model = TRUE], out)
  /\ UNCHANGED <<records, switching, native>>

-----------------------------------------------------------------------------
(* Names                                                                   *)

HasThread(c) == Route(c) # NoRow /\ Route(c).thread # Nil

\* /alias: rename of the record, or a record made for the thread.
Alias(c) ==
  LET t == Route(c).thread
  IN  /\ HasThread(c)
      /\ Upsert(c, t, IF records[c][t] = NoRecord THEN Route(c) ELSE records[c][t], "given")
      /\ cached' = Filled(c)
      /\ UNCHANGED <<row, behind, switching, native>>

\* /rename without a runtime; no record is made.
RenameLocally(c) ==
  /\ HasThread(c) /\ records[c][Route(c).thread] # NoRecord
  /\ records' = [records EXCEPT ![c][Route(c).thread].title = "given"]
  /\ cached' = Filled(c)
  /\ UNCHANGED <<row, behind, switching, native>>

-----------------------------------------------------------------------------
(* Lists and switches                                                      *)

\* /threads --refresh: importNativeThreads, as far as the store lets it.
Refresh(c, written) ==
  /\ written \subseteq native
  /\ records' = [records EXCEPT ![c] =
       [t \in Talk |-> IF t \in written THEN Upserted(records[c][t], AsNative(t), "codex's")
                       ELSE records[c][t]]]
  /\ UNCHANGED <<bindingVars, switching, native>>

\* /switch to a thread of codex's list, or of the store: the record is read, and
\* codex asked to resume the thread.
SwitchTo(c, t) ==
  /\ switching = Nowhere
  /\ t \in native \/ records[c][t] # NoRecord
  /\ \E r \in {records[c][t], NoRecord} :
       /\ r = NoRecord => t \in native
       /\ switching' = [room |-> c, thread |-> t, record |-> r]
  /\ cached' = Filled(c)
  /\ UNCHANGED <<row, behind, records, native>>

ResumeFails ==
  /\ switching # Nowhere
  /\ switching' = Nowhere
  /\ UNCHANGED <<bindingVars, records, native>>

\* A native thread: bound first, then recorded.
SwitchNativeThread(out, recorded) ==
  LET b == AsNative(switching.thread)
  IN  /\ switching # Nowhere /\ switching.record = NoRecord
      /\ Bind(cached, switching.room, b, out)
      /\ recorded => out = "done"
      /\ Save(switching.room, switching.thread, b, "codex's", recorded)
      /\ switching' = Nowhere
      /\ UNCHANGED native

\* The binding a stored record stands for; a project's does not say its kind.
Selected(r, t) == InContext(IF r.project = Nil THEN r.kind ELSE "unsaid", r.project, t)

\* A stored thread: switchCurrent writes the binding and the record, and reads them back,
\* in one transaction; then the cache is replaced by the same input.
SwitchCurrent(ok) ==
  LET c == switching.room
      b == Selected(switching.record, switching.thread)
  IN  /\ switching # Nowhere /\ switching.record # NoRecord
      /\ switching' = Nowhere
      /\ IF ok
           THEN /\ row' = [row EXCEPT ![c] = Normal(b)]
                /\ Upsert(c, switching.thread, b, "none")
                /\ cached' = [cached EXCEPT ![c] = b]
                /\ behind' = behind \ {c}
           ELSE UNCHANGED <<bindingVars, records>>
      /\ UNCHANGED native

\* The daemon starts again: the cache is read from the table.
RouterRestarts ==
  /\ cached' = row
  /\ behind' = {}
  /\ switching' = Nowhere
  /\ UNCHANGED <<row, records, native>>

-----------------------------------------------------------------------------
CatalogNext ==
  \/ \E c \in Room :
       Resolves(c) \/ Alias(c) \/ RenameLocally(c)
  \/ \E c \in Room, out \in BindOutcome :
       SetCurrentModel(c, out) \/ (\E p \in Work : UseProject(c, p, out))
  \/ \E c \in Room, t \in Talk, out \in BindOutcome, recorded \in BOOLEAN :
       FirstPrompt(c, t, out, recorded)
  \/ \E c \in Room, p \in Work \cup {Nil}, t \in Talk, title \in {"none", "given"},
        recorded \in BOOLEAN, out \in BindOutcome :
       NewThreadIn(c, p, t, title, recorded, out)
  \/ \E c \in Room, k \in Kind, p \in Work \cup {Nil}, t \in Talk, recorded \in BOOLEAN,
        out \in BindOutcome :
       \/ FreshThread(c, k, p, t, recorded, out)
       \/ \E title \in {"none", "given"} : NewInPlace(c, k, p, t, title, recorded, out)
  \/ \E c \in Room, written \in SUBSET Talk : Refresh(c, written)
  \/ \E c \in Room, t \in Talk : SwitchTo(c, t)
  \/ ResumeFails
  \/ \E out \in BindOutcome, recorded \in BOOLEAN : SwitchNativeThread(out, recorded)
  \/ \E ok \in BOOLEAN : SwitchCurrent(ok)
  \/ RouterRestarts

CatalogSpec == CatalogInit /\ [][CatalogNext]_catalogVars

-----------------------------------------------------------------------------
(* Properties                                                              *)

\* Whichever statements have thrown, a chat is routed by what a restart would find in the
\* table, up to the kind that a replaced entry leaves unsaid; except a chat that had an
\* entry in the cache when its row was written and could not be read back, until it is
\* bound again or the daemon starts again.  That one is bound in both all the same.
Meaning(b) == IF b = NoRow THEN NoRow ELSE Normal(b)
CacheFollowsTable ==
  /\ \A c \in Room \ behind : Meaning(Route(c)) = row[c]
  /\ \A c \in behind : cached[c] # NoRow /\ row[c] # NoRow
=============================================================================
