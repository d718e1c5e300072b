-------------------------- MODULE ThreadSelectors ---------------------------
(***************************************************************************)
(* The numbers by which the user of a chat names a thread: /threads sends  *)
(* a numbered list, and /switch <n> and /fork <n> list again, each in its  *)
(* own way, and take the n-th.  No command remembers what was sent.        *)
(*                                                                         *)
(* Codex lists the threads of every client, newest first; the store lists  *)
(* those the chat has used, the latest used first.  Both lists are cut at  *)
(* a limit.  Threads are numbered in the order in which codex starts them, *)
(* and the ids of the store's rows order as they do.                       *)
(*                                                                         *)
(* A user with access to every project, and prefixes of thread ids, which  *)
(* do not depend on an order, are left out; bindings are in ThreadCatalog. *)
(***************************************************************************)
EXTENDS Naturals, FiniteSets, Sequences, SequencesExt

CONSTANTS Repo, NoRepo,         \* configured projects, and no project
          ListLimit,            \* 20 in the daemon
          MaxThread, MaxStamp   \* bounds: threads started, writes of the store

ASSUME SelectorAssumption == NoRepo \notin Repo /\ ListLimit \in Nat \ {0}
ASSUME SelectorBoundAssumption == MaxThread \in Nat /\ MaxStamp \in Nat

VARIABLES
  born,       \* threads codex has started
  open,       \* those that it lists
  answering,  \* whether it answers thread/list
  kept,       \* thread_sessions: per thread its project and the times of its row
  chatThread, \* the thread the chat is bound to, or 0
  listed,     \* what the last /threads showed, while nothing has changed since
  chosen      \* what the last number named, if the last command had one

selectorVars == <<born, open, answering, kept, chatThread, listed, chosen>>

Strands == 1..MaxThread
NotKept == [project |-> NoRepo, used |-> 0, updated |-> 0]
Nothing == [threads |-> <<>>, from |-> "store", project |-> NoRepo]
NoChoice == [by |-> "none", thread |-> 0, meant |-> 0, list |-> Nothing]

SelectorTypeOK ==
  /\ born \in 0..MaxThread
  /\ open \subseteq 1..born
  /\ answering \in BOOLEAN
  /\ kept \in [Strands -> [project: Repo \cup {NoRepo}, used: 0..MaxStamp,
                           updated: 0..MaxStamp]]
  /\ chatThread \in 0..born
  /\ listed.threads \in Seq(1..born) /\ listed.from \in {"codex", "store"}
  /\ chosen.by \in {"none", "switch", "fork"}

SelectorInit ==
  /\ born = 0 /\ open = {} /\ answering = TRUE
  /\ kept = [t \in Strands |-> NotKept]
  /\ chatThread = 0
  /\ listed = Nothing /\ chosen = NoChoice

-----------------------------------------------------------------------------
(* The two lists                                                           *)

\* All of S, each before those it precedes.
InOrder(S, before(_, _)) ==
  CHOOSE s \in [1..Cardinality(S) -> S] : \A i, j \in DOMAIN s : i < j => before(s[i], s[j])

Cut(s) == SubSeq(s, 1, IF Len(s) < ListLimit THEN Len(s) ELSE ListLimit)

\* thread/list, newest first.
NativeThreads == Cut(InOrder(open, >))

\* ORDER BY last_used_at DESC, updated_at DESC, id ASC
Precedes(t, u) ==
  \/ kept[t].used > kept[u].used
  \/ kept[t].used = kept[u].used /\ kept[t].updated > kept[u].updated
  \/ kept[t].used = kept[u].used /\ kept[t].updated = kept[u].updated /\ t < u

\* listForTarget, of one project or of all.
ListForTarget(p) ==
  Cut(InOrder({t \in Strands : kept[t].used > 0 /\ p \in {NoRepo, kept[t].project}}, Precedes))

Stamps == {kept[t].used : t \in Strands} \cup {kept[t].updated : t \in Strands}
NowIso == 1 + CHOOSE n \in Stamps : \A m \in Stamps : n >= m

\* upsert and switchCurrent: the row is new, or its project and times are replaced.
Keep(T, p) ==
  /\ NowIso <= MaxStamp
  /\ kept' = [t \in Strands |-> IF t \in T
                                  THEN [project |-> p, used |-> NowIso, updated |-> NowIso]
                                  ELSE kept[t]]

\* What was listed does not have to hold any longer.
SomethingChanged == listed' = Nothing /\ chosen' = NoChoice

-----------------------------------------------------------------------------
(* Commands with a number                                                  *)

Meant(n) == IF n <= Len(listed.threads) THEN listed.threads[n] ELSE 0

Picks(command, n, t) ==
  /\ chosen' = [by |-> command, thread |-> t, meant |-> Meant(n), list |-> listed]
  /\ listed' = Nothing

\* /threads [project]: codex's list, whatever the project, unless it is empty or cannot
\* be had; then the store's, of that project.
Threads(p) ==
  /\ listed' = IF answering /\ open # {}
                 THEN [threads |-> NativeThreads, from |-> "codex", project |-> NoRepo]
                 ELSE [threads |-> ListForTarget(p), from |-> "store", project |-> p]
  /\ chosen' = NoChoice
  /\ UNCHANGED <<born, open, answering, kept, chatThread>>

\* /threads --refresh: the list is shown when all of it has been imported.
ThreadsRefresh(n) ==
  /\ answering /\ n <= Len(NativeThreads)
  /\ Keep(ToSet(SubSeq(NativeThreads, 1, n)), NoRepo)
  /\ listed' = IF n = Len(NativeThreads)
                 THEN [threads |-> NativeThreads, from |-> "codex", project |-> NoRepo]
                 ELSE Nothing
  /\ chosen' = NoChoice
  /\ UNCHANGED <<born, open, answering, chatThread>>

\* (mutant) The store is asked before codex.
Selects_StoreFirst(n) ==
  IF n <= Len(ListForTarget(NoRepo)) THEN ListForTarget(NoRepo)[n]
  ELSE IF n <= Len(NativeThreads) THEN NativeThreads[n] ELSE 0

\* #selectNativeThread, then #selectThreadRecord; 0 if neither list is that long.
Selects(n) ==
  IF n <= Len(NativeThreads) THEN NativeThreads[n]
  ELSE IF n <= Len(ListForTarget(NoRepo)) THEN ListForTarget(NoRepo)[n] ELSE 0

\* /switch n.  A thread of codex's list loses its project; without an answer of codex
\* the command ends with thread/list.
Switch(n) ==
  LET t == Selects(n)
  IN  /\ answering /\ t # 0
      /\ Keep({t}, IF n <= Len(NativeThreads) THEN NoRepo ELSE kept[t].project)
      /\ chatThread' = t
      /\ Picks("switch", n, t)
      /\ UNCHANGED <<born, open, answering>>

\* /fork n: a thread of the store's list that has a project.  Codex may list the fork
\* at once, or after its first turn.
Fork(n) ==
  LET source == ListForTarget(NoRepo)[n]
  IN  /\ n <= Len(ListForTarget(NoRepo)) /\ kept[source].project # NoRepo
      /\ born < MaxThread /\ born' = born + 1
      /\ Keep({born'}, kept[source].project)
      /\ chatThread' = born'
      /\ open' \in {open, open \cup {born'}}
      /\ Picks("fork", n, source)
      /\ UNCHANGED answering

-----------------------------------------------------------------------------
(* What changes the lists                                                  *)

\* /new, the first prompt of a chat, and /fork of the current thread.
NewThread(p) ==
  /\ born < MaxThread /\ born' = born + 1
  /\ Keep({born'}, p)
  /\ chatThread' = born'
  /\ open' \in {open, open \cup {born'}}
  /\ SomethingChanged
  /\ UNCHANGED answering

\* rename: the title and updated_at of the row, and not when it was used.
Retitled ==
  /\ chatThread # 0 /\ NowIso <= MaxStamp
  /\ kept' = [kept EXCEPT ![chatThread].updated = NowIso]
  /\ SomethingChanged
  /\ UNCHANGED <<born, open, answering, chatThread>>

\* /alias.  The threads a chat is on here all have a row (ThreadCatalog has the others).
AliasThread == Retitled

\* /rename without a runtime.
Rename == ~answering /\ Retitled

\* Another client of codex starts a thread, archives one or takes it up again; codex is
\* lost, or answers again.
CodexChanges ==
  /\ \/ /\ born < MaxThread /\ born' = born + 1
        /\ open' = open \cup {born'}
        /\ UNCHANGED answering
     \/ /\ \E t \in 1..born : open' = (open \ {t}) \cup ({t} \ open)
        /\ UNCHANGED <<born, answering>>
     \/ answering' = ~answering /\ UNCHANGED <<born, open>>
  /\ SomethingChanged
  /\ UNCHANGED <<kept, chatThread>>

-----------------------------------------------------------------------------
SelectorNext ==
  \/ \E p \in Repo \cup {NoRepo} : Threads(p) \/ NewThread(p)
  \/ \E n \in 1..ListLimit : Switch(n) \/ Fork(n) \/ ThreadsRefresh(n)
  \/ AliasThread \/ Rename \/ CodexChanges

SelectorSpec == SelectorInit /\ [][SelectorNext]_selectorVars

-----------------------------------------------------------------------------
(* Properties                                                              *)

NamesTheListed == chosen.meant # 0 => chosen.thread = chosen.meant

\* When nothing has changed since a list of all threads was sent, /switch n takes the
\* thread that was shown as n, wherever the list came from and though the command draws
\* up its own; and so does /fork n after a list of the store.
FreshNumbersHold ==
  /\ chosen.list.project = NoRepo
  /\ chosen.by = "fork" => chosen.list.from = "store"
  => NamesTheListed

\* A fork of "a selector from /threads", as the daemon's own answers call it, sent when
\* nothing has changed since the list, forks the thread that was shown.  It does not,
\* after a list of codex's threads.
ForkTakesTheListed ==
  chosen.by = "fork" /\ chosen.list.project = NoRepo => NamesTheListed
=============================================================================
