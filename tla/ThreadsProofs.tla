--------------------------- MODULE ThreadsProofs ----------------------------
(***************************************************************************)
(* Proofs about what the daemon remembers of threads: for any chats,       *)
(* projects and threads the router's cache is behind the table of bindings *)
(* only where a written row was not read back, and for any number of       *)
(* threads and any limit of the lists a listed number names the thread it  *)
(* stands for as long as the list is true.                                 *)
(***************************************************************************)
EXTENDS ThreadCatalog, ThreadSelectors, DataLemmas

\* A switch under way is one chat's, to one thread.
SwitchIsWhole ==
  switching # Nowhere => switching.room \in Room /\ switching.thread \in Talk

\* What is written is normalised.
RowsAreNormal == \A c \in Room : Meaning(row[c]) = row[c]

BindingTypes ==
  /\ row \in [Room -> Binding \cup {NoRow}] /\ cached \in [Room -> Binding \cup {NoRow}]
  /\ behind \subseteq Room

RecordTypes == records \in [Room -> [Talk -> Record \cup {NoRecord}]]

CatalogInv == CatalogTypeOK /\ SwitchIsWhole /\ RowsAreNormal /\ CacheFollowsTable

-----------------------------------------------------------------------------
(* Bindings                                                                *)

LEMMA NormalIsBinding ==
  ASSUME NEW b \in Binding
  PROVE  /\ Normal(b) \in Binding /\ Normal(b).kind # "unsaid"
         /\ Normal(b) # NoRow /\ Meaning(b) = Normal(b) /\ Meaning(Normal(b)) = Normal(b)
<1>1. b # NoRow
  BY NothingAssumption DEF NoRow
<1>2. CASE b.kind # "unsaid"
  BY <1>1, <1>2 DEF Normal, Meaning
<1>3. CASE b.kind = "unsaid"
  <2> DEFINE n == IF b.project = Nil THEN "app" ELSE "configured"
  <2>1. Normal(b) = [b EXCEPT !.kind = n]
    BY <1>3 DEF Normal
  <2>2. [b EXCEPT !.kind = n] \in Binding /\ [b EXCEPT !.kind = n].kind = n
    BY DEF Binding, Kind
  <2>3. Normal(b) \in Binding /\ Normal(b).kind # "unsaid"
    BY <2>1, <2>2
  <2>4. Normal(b) # NoRow
    BY <2>3, NothingAssumption DEF NoRow
  <2>5. Normal(Normal(b)) = Normal(b)
    BY <2>3 DEF Normal
  <2> QED BY <1>1, <2>3, <2>4, <2>5 DEF Meaning
<1> QED BY <1>2, <1>3

\* What resolve leaves in the cache, and what it answers, is the same before and after.
LEMMA FilledRoutes ==
  ASSUME CatalogTypeOK, NEW c \in Room
  PROVE  /\ Route(c) \in Binding \cup {NoRow}
         /\ \A d \in Room : Filled(c)[d] = IF d = c THEN Route(c) ELSE cached[d]
         /\ Filled(c) \in [Room -> Binding \cup {NoRow}]
BY DEF CatalogTypeOK, Filled, Route

\* A cache that resolve may have filled, and the table and the chats behind it as they
\* were, agree as before.
LEMMA FillingKeepsAgreement ==
  ASSUME CatalogInv, NEW c \in Room, cached' \in {cached, Filled(c)}, UNCHANGED <<row, behind>>
  PROVE  BindingTypes' /\ RowsAreNormal' /\ CacheFollowsTable'
<1>1. BindingTypes'
  BY FilledRoutes DEF CatalogInv, CatalogTypeOK, BindingTypes
<1>2. \A d \in Room : Route(d)' = Route(d) /\ (cached[d] # NoRow => cached'[d] # NoRow)
  BY FilledRoutes DEF CatalogInv, Route
<1>3. RowsAreNormal'
  BY DEF CatalogInv, RowsAreNormal
<1>4. CacheFollowsTable'
  BY <1>2 DEF CatalogInv, CatalogTypeOK, CacheFollowsTable
<1> QED BY <1>1, <1>3, <1>4

\* A binding that gets into both leaves the same in both; one that gets into the table
\* alone leaves the chat behind, or without an entry; and one that gets nowhere changes
\* neither.
LEMMA BindKeepsAgreement ==
  ASSUME CatalogInv, NEW c \in Room, NEW b \in Binding, NEW out \in BindOutcome,
         NEW cache \in {cached, Filled(c)}, Bind(cache, c, b, out)
  PROVE  BindingTypes' /\ RowsAreNormal' /\ CacheFollowsTable'
<1>0. CatalogTypeOK /\ RowsAreNormal /\ CacheFollowsTable
  BY DEF CatalogInv
<1>1. Normal(b) \in Binding /\ Normal(b) # NoRow /\ Meaning(Normal(b)) = Normal(b)
  BY NormalIsBinding
<1>2. /\ cache \in [Room -> Binding \cup {NoRow}]
      /\ \A d \in Room \ {c} : cache[d] = cached[d]
      /\ cache[c] \in {cached[c], Route(c)}
  BY <1>0, FilledRoutes DEF CatalogTypeOK
<1>3. CASE out = "lost"
  <2>1. row' = row /\ cached' = cache /\ behind' = behind
    BY <1>3 DEF Bind, Written
  <2> QED BY <2>1, FillingKeepsAgreement
<1>4. CASE out = "unread"
  <2>1. /\ row' = [row EXCEPT ![c] = Normal(b)] /\ cached' = cache
        /\ behind' = IF cache[c] # NoRow THEN behind \cup {c} ELSE behind
    BY <1>4 DEF Bind, Written
  <2>2. /\ \A d \in Room \ {c} : row'[d] = row[d]
        /\ row'[c] = Normal(b) /\ row' \in [Room -> Binding \cup {NoRow}]
    BY <1>0, <1>1, <2>1 DEF CatalogTypeOK
  <2>3. BindingTypes'
    BY <1>0, <1>2, <2>1, <2>2 DEF BindingTypes, CatalogTypeOK
  <2>4. RowsAreNormal'
    BY <1>0, <1>1, <2>2 DEF RowsAreNormal
  <2>5. \A d \in Room \ {c} : Route(d)' = Route(d)
    BY <1>2, <2>1, <2>2 DEF Route
  <2>6. c \notin behind' => cached'[c] = NoRow /\ Route(c)' = Normal(b)
    BY <2>1, <2>2 DEF Route
  <2>7. c \in behind' => cached'[c] # NoRow
    BY <1>0, <1>2, <2>1 DEF CacheFollowsTable, Route
  <2>8. \A d \in Room \ {c} : d \in behind' <=> d \in behind
    BY <2>1
  <2>9. \A d \in Room \ behind' : Meaning(Route(d)') = row'[d]
    BY <1>0, <1>1, <2>2, <2>5, <2>6, <2>8 DEF CacheFollowsTable
  <2>10. \A d \in behind' : cached'[d] # NoRow /\ row'[d] # NoRow
    BY <1>0, <1>1, <1>2, <2>1, <2>2, <2>3, <2>7, <2>8 DEF CacheFollowsTable, BindingTypes
  <2>11. CacheFollowsTable'
    BY <2>9, <2>10 DEF CacheFollowsTable
  <2> QED BY <2>3, <2>4, <2>11
<1>5. CASE out = "done"
  <2>1. /\ row' = [row EXCEPT ![c] = Normal(b)] /\ cached' = [cache EXCEPT ![c] = row'[c]]
        /\ behind' = behind \ {c}
    BY <1>5 DEF Bind, Written
  <2>2. /\ \A d \in Room \ {c} : row'[d] = row[d] /\ cached'[d] = cached[d]
        /\ row'[c] = Normal(b) /\ cached'[c] = Normal(b)
        /\ row' \in [Room -> Binding \cup {NoRow}] /\ cached' \in [Room -> Binding \cup {NoRow}]
    BY <1>0, <1>1, <1>2, <2>1 DEF CatalogTypeOK
  <2>3. BindingTypes'
    BY <1>0, <2>1, <2>2 DEF BindingTypes, CatalogTypeOK
  <2>4. RowsAreNormal'
    BY <1>0, <1>1, <2>2 DEF RowsAreNormal
  <2>5. (\A d \in Room \ {c} : Route(d)' = Route(d)) /\ Route(c)' = Normal(b)
    BY <1>1, <2>2 DEF Route
  <2>6. CacheFollowsTable'
    BY <1>0, <1>1, <2>1, <2>2, <2>3, <2>5 DEF CacheFollowsTable, BindingTypes
  <2> QED BY <2>3, <2>4, <2>6
<1> QED BY <1>3, <1>4, <1>5 DEF BindOutcome

\* Writing a record keeps the table of threads what it is.
LEMMA UpsertTypes ==
  ASSUME CatalogTypeOK, NEW c \in Room, NEW t \in Talk, NEW title \in Title, NEW b,
         b \in Binding \cup Record, Upsert(c, t, b, title)
  PROVE  RecordTypes'
<1>1. Normal(b).kind \in Kind /\ b.project \in Work \cup {Nil}
  <2>1. CASE b \in Binding
    BY <2>1, NormalIsBinding DEF Binding, Normal
  <2>2. CASE b \in Record
    BY <2>2 DEF Record, Kind, Normal
  <2> QED BY <2>1, <2>2
<1>2. records[c][t] \in Record \cup {NoRecord}
  BY DEF CatalogTypeOK
<1>3. Upserted(records[c][t], b, title) \in Record
  <2>1. (IF title = "none" /\ records[c][t] # NoRecord THEN records[c][t].title ELSE title) \in Title
    BY <1>2 DEF Record
  <2> QED BY <1>1, <2>1 DEF Upserted, Record
<1> QED BY <1>3 DEF Upsert, CatalogTypeOK, RecordTypes

LEMMA SaveTypes ==
  ASSUME CatalogTypeOK, NEW c \in Room, NEW t \in Talk, NEW title \in Title, NEW b \in Binding,
         NEW recorded \in BOOLEAN, Save(c, t, b, title, recorded)
  PROVE  RecordTypes'
<1>1. CASE recorded
  BY <1>1, UpsertTypes DEF Save
<1>2. CASE ~recorded
  BY <1>2 DEF Save, CatalogTypeOK, RecordTypes
<1> QED BY <1>1, <1>2

LEMMA ContextIsBinding ==
  ASSUME NEW k \in Kind \cup {"unsaid"}, NEW p \in Work \cup {Nil}, NEW t \in Talk \cup {Nil}
  PROVE  InContext(k, p, t) \in Binding
BY DEF InContext, Binding

LEMMA NativeIsBinding == \A t \in Talk : AsNative(t) \in Binding
  BY ContextIsBinding DEF AsNative, Kind

LEMMA CatalogInvInit == CatalogInit => CatalogInv
<1> SUFFICES ASSUME CatalogInit PROVE CatalogInv
  OBVIOUS
<1>1. CatalogTypeOK
  BY DEF CatalogInit, CatalogTypeOK, Nowhere, NoRecord, NoRow
<1>2. SwitchIsWhole /\ RowsAreNormal /\ CacheFollowsTable
  BY DEF CatalogInit, SwitchIsWhole, RowsAreNormal, CacheFollowsTable, Meaning, Route
<1> QED BY <1>1, <1>2 DEF CatalogInv

-----------------------------------------------------------------------------
(* Commands                                                                *)

\* What the lemmas above say of the tables and the cache is all a command without a switch
\* has to keep.
LEMMA CommandKeepsInv ==
  ASSUME CatalogInv, switching' = switching, native' \subseteq Talk, RecordTypes',
         BindingTypes', RowsAreNormal', CacheFollowsTable'
  PROVE  CatalogInv'
BY DEF CatalogInv, CatalogTypeOK, SwitchIsWhole, RecordTypes, BindingTypes

LEMMA UseProjectKeepsInv ==
  ASSUME CatalogInv, NEW c \in Room, NEW p \in Work, NEW out \in BindOutcome,
         UseProject(c, p, out)
  PROVE  CatalogInv'
<1>1. InContext("unsaid", p, Nil) \in Binding
  BY ContextIsBinding
<1>2. BindingTypes' /\ RowsAreNormal' /\ CacheFollowsTable'
  BY <1>1, BindKeepsAgreement DEF UseProject
<1>3. RecordTypes' /\ native' \subseteq Talk
  BY DEF UseProject, CatalogInv, CatalogTypeOK, RecordTypes
<1> QED BY <1>2, <1>3, CommandKeepsInv DEF UseProject

LEMMA FirstPromptKeepsInv ==
  ASSUME CatalogInv, NEW c \in Room, NEW t \in Talk, NEW out \in BindOutcome,
         NEW recorded \in BOOLEAN, FirstPrompt(c, t, out, recorded)
  PROVE  CatalogInv'
<1> DEFINE b == InContext("app", Nil, t)
<1>1. b \in Binding
  BY ContextIsBinding DEF Kind
<1>2. Bind(cached, c, b, out) /\ Save(c, t, b, "none", recorded)
  BY DEF FirstPrompt
<1> HIDE DEF b
<1>3. BindingTypes' /\ RowsAreNormal' /\ CacheFollowsTable'
  BY <1>1, <1>2, BindKeepsAgreement
<1>4. RecordTypes'
  BY <1>1, <1>2, SaveTypes DEF CatalogInv, Title
<1>5. switching' = switching /\ native' \subseteq Talk
  BY DEF FirstPrompt, StartsThread, CatalogInv, CatalogTypeOK
<1> QED BY <1>3, <1>4, <1>5, CommandKeepsInv

LEMMA NewThreadInKeepsInv ==
  ASSUME CatalogInv, NEW c \in Room, NEW p \in Work \cup {Nil}, NEW t \in Talk,
         NEW title \in {"none", "given"}, NEW recorded \in BOOLEAN, NEW out \in BindOutcome,
         NewThreadIn(c, p, t, title, recorded, out)
  PROVE  CatalogInv'
<1> DEFINE b == InContext(IF p = Nil THEN "app" ELSE "unsaid", p, t)
<1>1. b \in Binding
  BY ContextIsBinding DEF Kind
<1>2. Bind(cached, c, b, out) /\ Save(c, t, b, title, recorded)
  BY DEF NewThreadIn
<1> HIDE DEF b
<1>3. BindingTypes' /\ RowsAreNormal' /\ CacheFollowsTable'
  BY <1>1, <1>2, BindKeepsAgreement
<1>4. RecordTypes'
  BY <1>1, <1>2, SaveTypes DEF CatalogInv, Title
<1>5. switching' = switching /\ native' \subseteq Talk
  BY DEF NewThreadIn, StartsThread, CatalogInv, CatalogTypeOK
<1> QED BY <1>3, <1>4, <1>5, CommandKeepsInv

LEMMA BindThreadKeepsInv ==
  ASSUME CatalogInv, NEW c \in Room, NEW k \in Kind, NEW p \in Work \cup {Nil}, NEW t \in Talk,
         NEW title \in {"none", "given"}, NEW recorded \in BOOLEAN, NEW out \in BindOutcome,
         BindThread(c, k, p, t, title, recorded, out)
  PROVE  CatalogInv'
<1> DEFINE captured == InContext(k, p, Nil)
           b == [Route(c) EXCEPT !.thread = t]
<1>1. captured \in Binding
  BY ContextIsBinding
<1>2. b \in Binding
  <2>1. Route(c) \in Binding
    BY FilledRoutes DEF CatalogInv, BindThread
  <2> QED BY <2>1 DEF Binding
<1>3. Bind(Filled(c), c, b, out) /\ Save(c, t, captured, title, recorded)
  BY DEF BindThread
<1> HIDE DEF b, captured
<1>4. BindingTypes' /\ RowsAreNormal' /\ CacheFollowsTable'
  BY <1>2, <1>3, BindKeepsAgreement
<1>5. RecordTypes'
  BY <1>1, <1>3, SaveTypes DEF CatalogInv, Title
<1>6. switching' = switching /\ native' \subseteq Talk
  BY DEF BindThread, StartsThread, CatalogInv, CatalogTypeOK
<1> QED BY <1>4, <1>5, <1>6, CommandKeepsInv

LEMMA SetCurrentModelKeepsInv ==
  ASSUME CatalogInv, NEW c \in Room, NEW out \in BindOutcome, SetCurrentModel(c, out)
  PROVE  CatalogInv'
<1>1. [Route(c) EXCEPT !.model = TRUE] \in Binding
  <2>1. Route(c) \in Binding
    BY FilledRoutes DEF CatalogInv, SetCurrentModel
  <2> QED BY <2>1 DEF Binding
<1>2. BindingTypes' /\ RowsAreNormal' /\ CacheFollowsTable'
  BY <1>1, BindKeepsAgreement DEF SetCurrentModel
<1>3. RecordTypes' /\ native' \subseteq Talk
  BY DEF SetCurrentModel, CatalogInv, CatalogTypeOK, RecordTypes
<1> QED BY <1>2, <1>3, CommandKeepsInv DEF SetCurrentModel

\* The commands that write records, at most.
LEMMA RecordsOnlyKeepInv ==
  ASSUME CatalogInv, UNCHANGED <<row, behind, switching, native>>, RecordTypes',
         NEW c \in Room, cached' \in {cached, Filled(c)}
  PROVE  CatalogInv'
<1>1. BindingTypes' /\ RowsAreNormal' /\ CacheFollowsTable'
  BY FillingKeepsAgreement
<1>2. native' \subseteq Talk
  BY DEF CatalogInv, CatalogTypeOK
<1> QED BY <1>1, <1>2, CommandKeepsInv

LEMMA NamesKeepInv ==
  ASSUME CatalogInv, NEW c \in Room, Alias(c) \/ RenameLocally(c)
  PROVE  CatalogInv'
<1>1. HasThread(c)
  BY DEF Alias, RenameLocally
<1>2. Route(c) \in Binding
  BY <1>1, FilledRoutes DEF HasThread, CatalogInv
<1>3. Route(c).thread \in Talk
  BY <1>1, <1>2 DEF HasThread, Binding
<1> DEFINE t == Route(c).thread
<1>4. records[c][t] \in Record \cup {NoRecord}
  BY <1>3 DEF CatalogInv, CatalogTypeOK
<1>5. CASE Alias(c)
  <2> DEFINE b == IF records[c][t] = NoRecord THEN Route(c) ELSE records[c][t]
  <2>1. b \in Binding \cup Record
    BY <1>2, <1>4
  <2>2. Upsert(c, t, b, "given") /\ "given" \in Title
    BY <1>5 DEF Alias, Title
  <2>3. RecordTypes'
    BY <1>3, <2>1, <2>2, UpsertTypes DEF CatalogInv
  <2> QED BY <1>5, <2>3, RecordsOnlyKeepInv DEF Alias
<1>6. CASE RenameLocally(c)
  <2>1. records[c][t] \in Record
    BY <1>4, <1>6 DEF RenameLocally
  <2>2. [records[c][t] EXCEPT !.title = "given"] \in Record
    BY <2>1 DEF Record, Title
  <2>3. RecordTypes'
    BY <1>3, <1>6, <2>2 DEF RenameLocally, CatalogInv, CatalogTypeOK, RecordTypes
  <2> QED BY <1>6, <2>3, RecordsOnlyKeepInv DEF RenameLocally
<1> QED BY <1>5, <1>6

LEMMA ResolvesKeepsInv ==
  ASSUME CatalogInv, NEW c \in Room, Resolves(c)
  PROVE  CatalogInv'
<1>1. RecordTypes'
  BY DEF Resolves, CatalogInv, CatalogTypeOK, RecordTypes
<1> QED BY <1>1, RecordsOnlyKeepInv DEF Resolves

LEMMA ImportKeepsInv ==
  ASSUME CatalogInv, NEW c \in Room, NEW written \in SUBSET Talk, Refresh(c, written)
  PROVE  CatalogInv'
<1>1. \A t \in Talk : Upserted(records[c][t], AsNative(t), "codex's") \in Record
  <2> SUFFICES ASSUME NEW t \in Talk
               PROVE  Upserted(records[c][t], AsNative(t), "codex's") \in Record
    OBVIOUS
  <2>1. Normal(AsNative(t)).kind = "native" /\ AsNative(t).project = Nil
    BY DEF Normal, AsNative, InContext
  <2> QED BY <2>1 DEF Upserted, Record, Kind, Title
<1>2. [t \in Talk |-> IF t \in written THEN Upserted(records[c][t], AsNative(t), "codex's")
                      ELSE records[c][t]] \in [Talk -> Record \cup {NoRecord}]
  BY <1>1 DEF CatalogInv, CatalogTypeOK
<1>3. RecordTypes'
  BY <1>2 DEF Refresh, CatalogInv, CatalogTypeOK, RecordTypes
<1> QED BY <1>3, RecordsOnlyKeepInv DEF Refresh, bindingVars

LEMMA SwitchToKeepsInv ==
  ASSUME CatalogInv, NEW c \in Room, NEW t \in Talk, SwitchTo(c, t)
  PROVE  CatalogInv'
<1>1. PICK r \in {records[c][t], NoRecord} :
        switching' = [room |-> c, thread |-> t, record |-> r]
  BY DEF SwitchTo
<1>2. r \in Record \cup {NoRecord}
  BY <1>1 DEF CatalogInv, CatalogTypeOK
<1>3. BindingTypes' /\ RowsAreNormal' /\ CacheFollowsTable'
  BY FillingKeepsAgreement DEF SwitchTo
<1>4. SwitchIsWhole'
  BY <1>1 DEF SwitchIsWhole
<1>5. CatalogTypeOK'
  BY <1>1, <1>2, <1>3 DEF SwitchTo, CatalogInv, CatalogTypeOK, BindingTypes
<1> QED BY <1>3, <1>4, <1>5 DEF CatalogInv

\* A switch of a chat is over: the rest of the state is what the lemmas above say.
LEMMA SwitchesEnd ==
  ASSUME CatalogInv, switching' = Nowhere, UNCHANGED native, RecordTypes', BindingTypes',
         RowsAreNormal', CacheFollowsTable'
  PROVE  CatalogInv'
BY DEF CatalogInv, CatalogTypeOK, SwitchIsWhole, Nowhere, NoRecord, RecordTypes, BindingTypes

LEMMA ResumeFailsKeepsInv == ASSUME CatalogInv, ResumeFails PROVE CatalogInv'
<1>1. RecordTypes' /\ BindingTypes' /\ RowsAreNormal'
  BY DEF ResumeFails, bindingVars, CatalogInv, CatalogTypeOK, RecordTypes, BindingTypes,
         RowsAreNormal
<1>2. CacheFollowsTable'
  BY DEF ResumeFails, bindingVars, CatalogInv, CacheFollowsTable, Route
<1> QED BY <1>1, <1>2, SwitchesEnd DEF ResumeFails

LEMMA SwitchNativeThreadKeepsInv ==
  ASSUME CatalogInv, NEW out \in BindOutcome, NEW recorded \in BOOLEAN,
         SwitchNativeThread(out, recorded)
  PROVE  CatalogInv'
<1> DEFINE c == switching.room
           t == switching.thread
<1>1. c \in Room /\ t \in Talk
  BY DEF CatalogInv, SwitchIsWhole, SwitchNativeThread
<1>2. AsNative(t) \in Binding
  BY <1>1, NativeIsBinding
<1>3. Bind(cached, c, AsNative(t), out) /\ Save(c, t, AsNative(t), "codex's", recorded)
  BY DEF SwitchNativeThread
<1> HIDE DEF c, t
<1>4. BindingTypes' /\ RowsAreNormal' /\ CacheFollowsTable'
  BY <1>1, <1>2, <1>3, BindKeepsAgreement
<1>5. RecordTypes'
  BY <1>1, <1>2, <1>3, SaveTypes DEF CatalogInv, Title
<1> QED BY <1>4, <1>5, SwitchesEnd DEF SwitchNativeThread

\* switchCurrent caches what it was given, which may leave the kind unsaid.
LEMMA SwitchCurrentKeepsInv ==
  ASSUME CatalogInv, NEW ok \in BOOLEAN, SwitchCurrent(ok)
  PROVE  CatalogInv'
<1> DEFINE c == switching.room
           t == switching.thread
           b == Selected(switching.record, t)
<1>0. CatalogTypeOK /\ RowsAreNormal /\ CacheFollowsTable
  BY DEF CatalogInv
<1>1. c \in Room /\ t \in Talk
  BY DEF CatalogInv, SwitchIsWhole, SwitchCurrent
<1>2. switching.record \in Record
  BY DEF CatalogInv, CatalogTypeOK, SwitchCurrent
<1>3. b \in Binding
  <2>1. (IF switching.record.project = Nil THEN switching.record.kind ELSE "unsaid")
          \in Kind \cup {"unsaid"}
    BY <1>2 DEF Record
  <2>2. switching.record.project \in Work \cup {Nil}
    BY <1>2 DEF Record
  <2> QED BY <1>1, <2>1, <2>2, ContextIsBinding DEF Selected
<1>4. Normal(b) \in Binding /\ Normal(b) # NoRow /\ Meaning(b) = Normal(b)
      /\ Meaning(Normal(b)) = Normal(b) /\ b # NoRow
  BY <1>3, NormalIsBinding, NothingAssumption DEF NoRow
<1>5. CASE ~ok
  <2>1. UNCHANGED <<row, cached, behind, records>>
    BY <1>5 DEF SwitchCurrent, bindingVars
  <2>2. RecordTypes' /\ BindingTypes' /\ RowsAreNormal'
    BY <1>0, <2>1 DEF CatalogTypeOK, RecordTypes, BindingTypes, RowsAreNormal
  <2>3. CacheFollowsTable'
    BY <1>0, <2>1 DEF CacheFollowsTable, Route
  <2> QED BY <2>2, <2>3, SwitchesEnd DEF SwitchCurrent
<1>6. CASE ok
  <2>0. PICK d0 \in Room, u \in Talk, x \in Binding : d0 = c /\ u = t /\ x = b
    BY <1>1, <1>3
  <2>1. /\ row' = [row EXCEPT ![d0] = Normal(x)] /\ cached' = [cached EXCEPT ![d0] = x]
        /\ behind' = behind \ {d0} /\ Upsert(d0, u, x, "none")
    BY <1>6, <2>0 DEF SwitchCurrent
  <2>2. switching' = Nowhere /\ UNCHANGED native
    BY DEF SwitchCurrent
  <2> HIDE DEF b, c, t
  <2>9. Normal(x) \in Binding /\ Normal(x) # NoRow /\ Meaning(x) = Normal(x)
        /\ Meaning(Normal(x)) = Normal(x) /\ x # NoRow
    BY <1>4, <2>0
  <2>3. /\ \A d \in Room \ {d0} : row'[d] = row[d] /\ cached'[d] = cached[d]
        /\ row'[d0] = Normal(x) /\ cached'[d0] = x
        /\ row' \in [Room -> Binding \cup {NoRow}] /\ cached' \in [Room -> Binding \cup {NoRow}]
    BY <1>0, <2>9, <2>1 DEF CatalogTypeOK
  <2>4. BindingTypes'
    BY <1>0, <2>1, <2>3 DEF CatalogTypeOK, BindingTypes
  <2>5. RowsAreNormal'
    BY <1>0, <2>9, <2>3 DEF RowsAreNormal
  <2>6. (\A d \in Room \ {d0} : Route(d)' = Route(d)) /\ Route(d0)' = x
    BY <2>9, <2>3 DEF Route
  <2>7. CacheFollowsTable'
    BY <1>0, <2>9, <2>1, <2>3, <2>4, <2>6 DEF CacheFollowsTable, BindingTypes
  <2>8. RecordTypes'
    BY <1>0, <2>1, UpsertTypes DEF Title
  <2> QED BY <2>2, <2>4, <2>5, <2>7, <2>8, SwitchesEnd
<1> QED BY <1>5, <1>6

\* A restart reads rows that are normal already.
LEMMA RestartKeepsInv ==
  ASSUME CatalogInv, RouterRestarts
  PROVE  CatalogInv'
<1>1. row' = row /\ cached' = row /\ behind' = {} /\ records' = records
  BY DEF RouterRestarts
<1>2. RecordTypes' /\ BindingTypes' /\ RowsAreNormal'
  BY <1>1 DEF CatalogInv, CatalogTypeOK, RecordTypes, BindingTypes, RowsAreNormal
<1>3. \A d \in Room : Route(d)' = row[d]
  BY <1>1 DEF Route
<1>4. CacheFollowsTable'
  BY <1>1, <1>3 DEF CatalogInv, CacheFollowsTable, RowsAreNormal
<1> QED BY <1>2, <1>4, SwitchesEnd DEF RouterRestarts

LEMMA CatalogStepKeepsInv == CatalogInv /\ [CatalogNext]_catalogVars => CatalogInv'
<1> SUFFICES ASSUME CatalogInv, [CatalogNext]_catalogVars PROVE CatalogInv'
  OBVIOUS
<1>1. CASE UNCHANGED catalogVars
  BY <1>1 DEF CatalogInv, CatalogTypeOK, SwitchIsWhole, RowsAreNormal, CacheFollowsTable, Route,
              catalogVars
<1>2. ASSUME NEW c \in Room, Resolves(c) \/ Alias(c) \/ RenameLocally(c) PROVE CatalogInv'
  BY <1>2, ResolvesKeepsInv, NamesKeepInv
<1>3. ASSUME NEW c \in Room, NEW out \in BindOutcome,
             SetCurrentModel(c, out) \/ (\E p \in Work : UseProject(c, p, out))
      PROVE  CatalogInv'
  BY <1>3, SetCurrentModelKeepsInv, UseProjectKeepsInv
<1>4. ASSUME NEW c \in Room, NEW t \in Talk, NEW out \in BindOutcome, NEW recorded \in BOOLEAN,
             FirstPrompt(c, t, out, recorded)
      PROVE  CatalogInv'
  BY <1>4, FirstPromptKeepsInv
<1>5. ASSUME NEW c \in Room, NEW p \in Work \cup {Nil}, NEW t \in Talk,
             NEW title \in {"none", "given"}, NEW recorded \in BOOLEAN, NEW out \in BindOutcome,
             NewThreadIn(c, p, t, title, recorded, out)
      PROVE  CatalogInv'
  BY <1>5, NewThreadInKeepsInv
<1>6. ASSUME NEW c \in Room, NEW k \in Kind, NEW p \in Work \cup {Nil}, NEW t \in Talk,
             NEW recorded \in BOOLEAN, NEW out \in BindOutcome,
             \/ FreshThread(c, k, p, t, recorded, out)
             \/ \E title \in {"none", "given"} : NewInPlace(c, k, p, t, title, recorded, out)
      PROVE  CatalogInv'
  BY <1>6, BindThreadKeepsInv DEF FreshThread, NewInPlace
<1>7. ASSUME NEW c \in Room, NEW written \in SUBSET Talk, Refresh(c, written) PROVE CatalogInv'
  BY <1>7, ImportKeepsInv
<1>8. ASSUME NEW c \in Room, NEW t \in Talk, SwitchTo(c, t) PROVE CatalogInv'
  BY <1>8, SwitchToKeepsInv
<1>9. CASE ResumeFails
  BY <1>9, ResumeFailsKeepsInv
<1>10. ASSUME NEW out \in BindOutcome, NEW recorded \in BOOLEAN, SwitchNativeThread(out, recorded)
       PROVE  CatalogInv'
  BY <1>10, SwitchNativeThreadKeepsInv
<1>11. ASSUME NEW ok \in BOOLEAN, SwitchCurrent(ok) PROVE CatalogInv'
  BY <1>11, SwitchCurrentKeepsInv
<1>12. CASE RouterRestarts
  BY <1>12, RestartKeepsInv
<1> QED BY <1>1, <1>2, <1>3, <1>4, <1>5, <1>6, <1>7, <1>8, <1>9, <1>10, <1>11, <1>12 DEF CatalogNext

\* For any number of chats, projects and threads, whichever statements throw: the router
\* routes a chat by what a restart would find in the table, but for one whose entry in the
\* cache was not replaced when its row was written; and no chat is bound in one of the two
\* alone.
THEOREM CacheIsBehindUnreadRowsOnly == CatalogSpec => []CacheFollowsTable
<1>1. CatalogInv => CacheFollowsTable
  BY DEF CatalogInv
<1> QED BY <1>1, CatalogInvInit, CatalogStepKeepsInv, PTL DEF CatalogSpec

-----------------------------------------------------------------------------
(* The two lists                                                           *)

Newer == {p \in Nat \X Nat : p[1] > p[2]}
Earlier == {p \in Strands \X Strands : Precedes(p[1], p[2])}

LEMMA NewerOrders == ASSUME NEW S \in SUBSET Nat PROVE Orders(Newer, S)
<1>1. \A x, y \in S : <<x, y>> \in Newer <=> x > y
  BY DEF Newer
<1>2. S \subseteq Nat
  OBVIOUS
<1> QED BY <1>1, <1>2 DEF Orders

LEMMA EarlierOrders ==
  ASSUME kept \in [Strands -> [project: Repo \cup {NoRepo}, used: 0..MaxStamp,
                               updated: 0..MaxStamp]],
         NEW S \in SUBSET Strands
  PROVE  Orders(Earlier, S)
<1>1. \A x, y \in S : <<x, y>> \in Earlier <=> Precedes(x, y)
  BY DEF Earlier
<1>2. \A x \in S : x \in Nat /\ kept[x].used \in Nat /\ kept[x].updated \in Nat
  BY SelectorBoundAssumption DEF Strands
<1>3. \A x, y \in S : x # y => Precedes(x, y) \/ Precedes(y, x)
  BY <1>2 DEF Precedes
<1>4. \A x, y, z \in S : Precedes(x, y) /\ Precedes(y, z) => Precedes(x, z)
  BY <1>2 DEF Precedes
<1> QED BY <1>1, <1>3, <1>4 DEF Orders

\* A prefix of a listing.
LEMMA CutShape ==
  ASSUME NEW S, NEW n \in Nat, NEW s \in [1..n -> S]
  PROVE  /\ Cut(s) \in Seq(S) /\ Len(Cut(s)) <= n /\ Len(Cut(s)) <= ListLimit
         /\ n > 0 => Len(Cut(s)) > 0
<1> DEFINE m == IF n < ListLimit THEN n ELSE ListLimit
<1>1. s \in Seq(S) /\ Len(s) = n
  OBVIOUS
<1>2. Cut(s) = SubSeq(s, 1, m) /\ m \in Nat /\ m <= n /\ m <= ListLimit /\ (n > 0 => m > 0)
  BY <1>1, SelectorAssumption DEF Cut
<1>3. SubSeq(s, 1, m) \in Seq(S) /\ Len(SubSeq(s, 1, m)) = IF 1 <= m THEN m - 1 + 1 ELSE 0
  <2>1. \A i \in 1..m : s[i] \in S
    BY <1>2
  <2> QED BY <1>2, <2>1, SubSeqProperties
<1> QED BY <1>2, <1>3, SelectorAssumption

LEMMA NativeShape ==
  ASSUME born \in Nat, open \subseteq 1..born
  PROVE  /\ NativeThreads \in Seq(open)
         /\ Len(NativeThreads) <= ListLimit
         /\ open = {} => Len(NativeThreads) = 0
<1> DEFINE n == Cardinality(open)
           s == InOrder(open, >)
<1>1. open \in SUBSET Nat /\ IsFiniteSet(open) /\ n \in Nat
  <2>1. IsFiniteSet(1..born)
    BY FirstNumbers
  <2>2. IsFiniteSet(open)
    BY <2>1, FS_Subset
  <2> QED BY <2>2, FS_CardinalityType
<1>2. \E r \in [1..n -> open] : \A i, j \in DOMAIN r : i < j => r[i] > r[j]
  <2>1. PICK r \in [1..n -> open] : \A i, j \in 1..n : i < j => <<r[i], r[j]>> \in Newer
    BY <1>1, NewerOrders, SortedSequence
  <2>2. \A i, j \in DOMAIN r : i < j => r[i] > r[j]
    BY <2>1 DEF Newer
  <2> QED BY <2>2
<1>3. s \in [1..n -> open]
  BY <1>2 DEF InOrder
<1>4. NativeThreads = Cut(s)
  BY DEF NativeThreads
<1>5. Cut(s) \in Seq(open) /\ Len(Cut(s)) <= n /\ Len(Cut(s)) <= ListLimit
  BY <1>1, <1>3, CutShape
<1>6. open = {} => n = 0
  BY FS_EmptySet
<1> HIDE DEF s, n
<1>7. Len(Cut(s)) \in Nat
  BY <1>5
<1> QED BY <1>1, <1>4, <1>5, <1>6, <1>7

LEMMA ListShape ==
  ASSUME SelectorTypeOK, NEW p
  PROVE  /\ ListForTarget(p) \in Seq({t \in Strands : kept[t].used > 0})
         /\ Len(ListForTarget(p)) <= ListLimit
<1> DEFINE S == {t \in Strands : kept[t].used > 0 /\ p \in {NoRepo, kept[t].project}}
           n == Cardinality(S)
           s == InOrder(S, Precedes)
<1>1. S \in SUBSET Strands /\ IsFiniteSet(S) /\ n \in Nat
  <2>1. IsFiniteSet(Strands)
    BY FirstNumbers, SelectorBoundAssumption DEF Strands
  <2>2. S \in SUBSET Strands
    OBVIOUS
  <2> HIDE DEF S
  <2> QED BY <2>1, <2>2, FS_Subset, FS_CardinalityType
<1>2. \E r \in [1..n -> S] : \A i, j \in DOMAIN r : i < j => Precedes(r[i], r[j])
  <2> HIDE DEF S
  <2>1. PICK r \in [1..n -> S] : \A i, j \in 1..n : i < j => <<r[i], r[j]>> \in Earlier
    BY <1>1, EarlierOrders, SortedSequence DEF SelectorTypeOK
  <2>2. \A i, j \in DOMAIN r : i < j => Precedes(r[i], r[j])
    BY <2>1 DEF Earlier
  <2> QED BY <2>2
<1>3. s \in [1..n -> S]
  BY <1>2 DEF InOrder
<1>4. ListForTarget(p) = Cut(s)
  BY DEF ListForTarget
<1>5. Cut(s) \in Seq(S) /\ Len(Cut(s)) <= ListLimit
  <2> HIDE DEF s, n, S
  <2> QED BY <1>1, <1>3, CutShape
<1>6. Cut(s) \in Seq({t \in Strands : kept[t].used > 0})
  <2>1. S \subseteq {t \in Strands : kept[t].used > 0}
    OBVIOUS
  <2> HIDE DEF s, S
  <2> QED BY <1>5, <2>1, SeqMonotonic
<1> HIDE DEF s
<1> QED BY <1>4, <1>5, <1>6

LEMMA NowIsLater ==
  ASSUME kept \in [Strands -> [project: Repo \cup {NoRepo}, used: 0..MaxStamp,
                               updated: 0..MaxStamp]],
         Strands # {}, NowIso <= MaxStamp
  PROVE  NowIso \in 1..MaxStamp
<1>1. Stamps \subseteq Nat /\ \A x \in Stamps : x <= MaxStamp
  BY SelectorBoundAssumption DEF Stamps
<1>2. Stamps # {}
  <2>1. PICK t : t \in Strands
    OBVIOUS
  <2> QED BY <2>1 DEF Stamps
<1>3. \E x \in Stamps : \A y \in Stamps : y <= x
  BY <1>1, <1>2, GreatestOf, SelectorBoundAssumption
<1>4. \E x \in Stamps : \A y \in Stamps : x >= y
  <2>1. PICK x \in Stamps : \A y \in Stamps : y <= x
    BY <1>3
  <2>2. \A y \in Stamps : x >= y
    BY <1>1, <2>1
  <2> QED BY <2>2
<1> DEFINE latest == CHOOSE n \in Stamps : \A m \in Stamps : n >= m
<1>5. latest \in Stamps
  BY <1>4
<1>6. NowIso = 1 + latest
  BY DEF NowIso
<1> HIDE DEF latest
<1> QED BY <1>1, <1>5, <1>6, SelectorBoundAssumption

-----------------------------------------------------------------------------
(* What was listed is what a command lists again                           *)

OnlyTheBornAreKept == \A t \in Strands : kept[t].used > 0 => t <= born

ListedIsCurrent ==
  /\ listed.from = "codex" => listed.threads = NativeThreads
  /\ listed.from = "store" =>
       \/ listed.threads = <<>>
       \/ /\ listed.threads = ListForTarget(listed.project)
          /\ answering => open = {}

SelectorInv == SelectorTypeOK /\ OnlyTheBornAreKept /\ ListedIsCurrent /\ FreshNumbersHold

LEMMA SelectorInvInit == SelectorInit => SelectorInv
<1> SUFFICES ASSUME SelectorInit PROVE SelectorInv
  OBVIOUS
<1> USE DEF SelectorInit
<1>1. kept \in [Strands -> [project: Repo \cup {NoRepo}, used: 0..MaxStamp, updated: 0..MaxStamp]]
  BY SelectorBoundAssumption DEF NotKept
<1>2. SelectorTypeOK
  BY <1>1, SelectorBoundAssumption DEF SelectorTypeOK, Nothing, NoChoice
<1>3. OnlyTheBornAreKept
  BY DEF OnlyTheBornAreKept, NotKept
<1>4. ListedIsCurrent /\ FreshNumbersHold
  BY DEF ListedIsCurrent, FreshNumbersHold, NamesTheListed, Nothing, NoChoice
<1> QED BY <1>2, <1>3, <1>4 DEF SelectorInv

\* What a write leaves in the rows.
LEMMA KeepTypes ==
  ASSUME SelectorTypeOK, OnlyTheBornAreKept, NEW T, NEW p \in Repo \cup {NoRepo}, Keep(T, p),
         Strands # {}, born' \in Nat, born <= born', \A t \in T \cap Strands : t <= born'
  PROVE  /\ kept' \in [Strands -> [project: Repo \cup {NoRepo}, used: 0..MaxStamp,
                                   updated: 0..MaxStamp]]
         /\ OnlyTheBornAreKept'
<1>1. NowIso \in 1..MaxStamp
  BY NowIsLater DEF SelectorTypeOK, Keep
<1>2. kept' = [t \in Strands |-> IF t \in T THEN [project |-> p, used |-> NowIso, updated |-> NowIso]
                                             ELSE kept[t]]
  BY DEF Keep
<1>3. kept' \in [Strands -> [project: Repo \cup {NoRepo}, used: 0..MaxStamp, updated: 0..MaxStamp]]
  BY <1>1, <1>2 DEF SelectorTypeOK
<1>4. \A t \in Strands : t \in Nat
  BY DEF Strands
<1>5. OnlyTheBornAreKept'
  BY <1>2, <1>4 DEF OnlyTheBornAreKept, SelectorTypeOK
<1> QED BY <1>3, <1>5

\* Steps after which nothing is listed.
LEMMA UnlistedKeepsInv ==
  ASSUME SelectorTypeOK', OnlyTheBornAreKept', FreshNumbersHold', listed' = Nothing
  PROVE  SelectorInv'
BY DEF SelectorInv, ListedIsCurrent, Nothing

LEMMA ChangedKeepsInv ==
  ASSUME SelectorTypeOK', OnlyTheBornAreKept', SomethingChanged
  PROVE  SelectorInv'
<1>1. FreshNumbersHold'
  BY DEF SomethingChanged, FreshNumbersHold, NamesTheListed, NoChoice
<1> QED BY <1>1, UnlistedKeepsInv DEF SomethingChanged

\* Types of the steps after which nothing is listed.
LEMMA UnlistedTypes ==
  ASSUME SelectorTypeOK, listed' = Nothing, chosen'.by \in {"none", "switch", "fork"},
         born' \in 0..MaxThread, open' \subseteq 1..born', answering' \in BOOLEAN,
         kept' \in [Strands -> [project: Repo \cup {NoRepo}, used: 0..MaxStamp,
                                updated: 0..MaxStamp]],
         chatThread' \in 0..born'
  PROVE  SelectorTypeOK'
BY DEF SelectorTypeOK, Nothing

LEMMA ThreadsKeepsInv ==
  ASSUME SelectorInv, NEW p \in Repo \cup {NoRepo}, Threads(p)
  PROVE  SelectorInv'
<1>0. SelectorTypeOK /\ born \in Nat /\ open \subseteq 1..born
  BY DEF SelectorInv, SelectorTypeOK
<1>1. UNCHANGED <<born, open, answering, kept, chatThread>> /\ chosen' = NoChoice
  BY DEF Threads
<1>2. NativeThreads' = NativeThreads
  BY <1>1 DEF NativeThreads, InOrder, Cut
<1>3. \A q : ListForTarget(q)' = ListForTarget(q)
  BY <1>1 DEF ListForTarget, InOrder, Cut, Precedes
<1>4. OnlyTheBornAreKept' /\ FreshNumbersHold'
  BY <1>1 DEF SelectorInv, OnlyTheBornAreKept, FreshNumbersHold, NamesTheListed, NoChoice
<1>5. CASE answering /\ open # {}
  <2>1. listed' = [threads |-> NativeThreads, from |-> "codex", project |-> NoRepo]
    BY <1>5 DEF Threads
  <2>2. NativeThreads \in Seq(1..born)
    BY <1>0, NativeShape, SeqMonotonic
  <2>3. SelectorTypeOK'
    BY <1>0, <1>1, <2>1, <2>2 DEF SelectorTypeOK, NoChoice
  <2> QED BY <1>2, <1>4, <2>1, <2>3 DEF SelectorInv, ListedIsCurrent
<1>6. CASE ~(answering /\ open # {})
  <2>1. listed' = [threads |-> ListForTarget(p), from |-> "store", project |-> p]
    BY <1>6 DEF Threads
  <2>2. ListForTarget(p) \in Seq(1..born)
    <3>1. {t \in Strands : kept[t].used > 0} \subseteq 1..born
      BY <1>0 DEF SelectorInv, OnlyTheBornAreKept, Strands
    <3> QED BY <1>0, <3>1, ListShape, SeqMonotonic
  <2>3. SelectorTypeOK'
    BY <1>0, <1>1, <2>1, <2>2 DEF SelectorTypeOK, NoChoice
  <2>4. ListedIsCurrent'
    BY <1>1, <1>3, <1>6, <2>1 DEF ListedIsCurrent
  <2> QED BY <1>4, <2>3, <2>4 DEF SelectorInv
<1> QED BY <1>5, <1>6

LEMMA RefreshKeepsInv ==
  ASSUME SelectorInv, NEW n \in 1..ListLimit, ThreadsRefresh(n)
  PROVE  SelectorInv'
<1>0. SelectorTypeOK /\ born \in Nat /\ open \subseteq 1..born /\ born <= MaxThread /\ n \in Nat /\ n >= 1
  BY SelectorAssumption, SelectorBoundAssumption DEF SelectorInv, SelectorTypeOK
<1> DEFINE T == ToSet(SubSeq(NativeThreads, 1, n))
<1>1. UNCHANGED <<born, open, answering, chatThread>> /\ chosen' = NoChoice /\ Keep(T, NoRepo)
  BY DEF ThreadsRefresh
<1>2. NativeThreads \in Seq(1..born) /\ n <= Len(NativeThreads) /\ n >= 1
  <2>1. NativeThreads \in Seq(open)
    BY <1>0, NativeShape
  <2> QED BY <1>0, <2>1, SeqMonotonic DEF ThreadsRefresh
<1>3. T \subseteq 1..born
  <2>1. \A i \in 1..n : NativeThreads[i] \in 1..born
    BY <1>0, <1>2
  <2>2. SubSeq(NativeThreads, 1, n) \in Seq(1..born)
    BY <1>0, <2>1, SubSeqProperties
  <2> QED BY <2>2 DEF ToSet
<1>4. Strands # {}
  <2>1. NativeThreads[1] \in 1..born
    BY <1>0, <1>2
  <2> QED BY <1>0, <2>1, SelectorBoundAssumption DEF Strands
<1>5. /\ kept' \in [Strands -> [project: Repo \cup {NoRepo}, used: 0..MaxStamp, updated: 0..MaxStamp]]
      /\ OnlyTheBornAreKept'
  <2>1. born' \in Nat /\ born <= born' /\ \A t \in T \cap Strands : t <= born'
    BY <1>0, <1>1, <1>3
  <2>2. NoRepo \in Repo \cup {NoRepo}
    OBVIOUS
  <2> HIDE DEF T
  <2> QED BY <1>0, <1>1, <1>4, <2>1, <2>2, KeepTypes DEF SelectorInv
<1>6. FreshNumbersHold'
  BY <1>1 DEF FreshNumbersHold, NamesTheListed, NoChoice
<1>7. CASE n = Len(NativeThreads)
  <2>1. listed' = [threads |-> NativeThreads, from |-> "codex", project |-> NoRepo]
    BY <1>7 DEF ThreadsRefresh
  <2>2. NativeThreads' = NativeThreads
    BY <1>1 DEF NativeThreads, InOrder, Cut
  <2>3. SelectorTypeOK'
    BY <1>0, <1>1, <1>2, <1>5, <2>1 DEF SelectorTypeOK, NoChoice
  <2> QED BY <1>5, <1>6, <2>1, <2>2, <2>3 DEF SelectorInv, ListedIsCurrent
<1>8. CASE n # Len(NativeThreads)
  <2>1. listed' = Nothing
    BY <1>8 DEF ThreadsRefresh
  <2>2. SelectorTypeOK'
    BY <1>0, <1>1, <1>5, <2>1 DEF SelectorTypeOK, NoChoice, Nothing
  <2> QED BY <1>5, <1>6, <2>1, <2>2, UnlistedKeepsInv
<1> QED BY <1>7, <1>8

\* /switch n takes what was shown as n.
LEMMA SwitchKeepsInv ==
  ASSUME SelectorInv, NEW n \in 1..ListLimit, Switch(n)
  PROVE  SelectorInv'
<1> DEFINE t == Selects(n)
           p == IF n <= Len(NativeThreads) THEN NoRepo ELSE kept[t].project
<1>0. /\ SelectorTypeOK /\ born \in Nat /\ open \subseteq 1..born /\ born <= MaxThread /\ n \in Nat
      /\ n >= 1
  BY SelectorAssumption, SelectorBoundAssumption DEF SelectorInv, SelectorTypeOK
<1>1. /\ UNCHANGED <<born, open, answering>> /\ answering /\ t # 0 /\ chatThread' = t
      /\ Keep({t}, p) /\ listed' = Nothing
      /\ chosen' = [by |-> "switch", thread |-> t, meant |-> Meant(n), list |-> listed]
  BY DEF Switch, Picks
<1>2. NativeThreads \in Seq(open) /\ NativeThreads \in Seq(1..born)
  BY <1>0, NativeShape, SeqMonotonic
<1>3. ListForTarget(NoRepo) \in Seq({s \in Strands : kept[s].used > 0})
  BY <1>0, ListShape
<1>4. t \in 1..born /\ t \in Strands /\ p \in Repo \cup {NoRepo}
  <2>1. CASE n <= Len(NativeThreads)
    <3>1. t = NativeThreads[n] /\ n \in 1..Len(NativeThreads)
      BY <1>0, <1>2, <2>1 DEF Selects
    <3> HIDE DEF t
    <3>2. t \in 1..born
      BY <1>2, <3>1, ElementOfSeq
    <3> QED BY <1>0, <2>1, <3>2, SelectorBoundAssumption DEF Strands
  <2>2. CASE n > Len(NativeThreads)
    <3>1. t = ListForTarget(NoRepo)[n] /\ n \in 1..Len(ListForTarget(NoRepo))
      BY <1>0, <1>1, <1>2, <1>3, <2>2 DEF Selects
    <3> HIDE DEF t
    <3>2. t \in Strands /\ kept[t].used > 0
      BY <1>3, <3>1, ElementOfSeq
    <3>3. t \in 1..born
      BY <1>0, <3>2 DEF SelectorInv, OnlyTheBornAreKept, Strands
    <3> QED BY <1>0, <3>2, <3>3 DEF SelectorTypeOK
  <2> QED BY <1>0, <1>2, <2>1, <2>2
<1>5. /\ kept' \in [Strands -> [project: Repo \cup {NoRepo}, used: 0..MaxStamp, updated: 0..MaxStamp]]
      /\ OnlyTheBornAreKept'
  <2> HIDE DEF t, p
  <2>1. born' \in Nat /\ born <= born' /\ (\A s \in {t} \cap Strands : s <= born') /\ Strands # {}
    BY <1>0, <1>1, <1>4
  <2> QED BY <1>0, <1>1, <1>4, <2>1, KeepTypes DEF SelectorInv
<1>6. SelectorTypeOK'
  <2> HIDE DEF t, p
  <2> QED BY <1>0, <1>1, <1>4, <1>5, UnlistedTypes DEF SelectorTypeOK
<1>7. FreshNumbersHold'
  <2> SUFFICES ASSUME listed.project = NoRepo, Meant(n) # 0 PROVE t = Meant(n)
    BY <1>1 DEF FreshNumbersHold, NamesTheListed
  <2>1. n <= Len(listed.threads) /\ Meant(n) = listed.threads[n]
    BY DEF Meant
  <2>2. CASE listed.from = "codex"
    <3>1. listed.threads = NativeThreads
      BY <2>2 DEF SelectorInv, ListedIsCurrent
    <3> QED BY <2>1, <3>1 DEF Selects
  <2>3. CASE listed.from = "store"
    <3>1. listed.threads # <<>>
      BY <1>0, <2>1
    <3>2. listed.threads = ListForTarget(NoRepo) /\ open = {}
      BY <1>1, <2>3, <3>1 DEF SelectorInv, ListedIsCurrent
    <3>3. Len(NativeThreads) = 0
      BY <1>0, <3>2, NativeShape
    <3> QED BY <1>0, <2>1, <3>2, <3>3 DEF Selects
  <2> QED BY <1>0, <2>2, <2>3 DEF SelectorTypeOK
<1> QED BY <1>1, <1>5, <1>6, <1>7, UnlistedKeepsInv

\* /fork n does so after a list of the store.
LEMMA ForkKeepsInv ==
  ASSUME SelectorInv, NEW n \in 1..ListLimit, Fork(n)
  PROVE  SelectorInv'
<1> DEFINE s == ListForTarget(NoRepo)[n]
<1>0. /\ SelectorTypeOK /\ born \in Nat /\ open \subseteq 1..born /\ n \in Nat /\ n >= 1
  BY SelectorAssumption, SelectorBoundAssumption DEF SelectorInv, SelectorTypeOK
<1>1. /\ n <= Len(ListForTarget(NoRepo)) /\ born < MaxThread /\ born' = born + 1
      /\ Keep({born'}, kept[s].project) /\ chatThread' = born' /\ open' \in {open, open \cup {born'}}
      /\ answering' = answering /\ listed' = Nothing
      /\ chosen' = [by |-> "fork", thread |-> s, meant |-> Meant(n), list |-> listed]
  BY DEF Fork, Picks
<1>2. s \in Strands
  <2>1. ListForTarget(NoRepo) \in Seq({t \in Strands : kept[t].used > 0})
    BY <1>0, ListShape
  <2>2. n \in 1..Len(ListForTarget(NoRepo))
    BY <1>0, <1>1, <2>1
  <2> QED BY <2>1, <2>2
<1> HIDE DEF s
<1>3. /\ kept' \in [Strands -> [project: Repo \cup {NoRepo}, used: 0..MaxStamp, updated: 0..MaxStamp]]
      /\ OnlyTheBornAreKept'
  <2>1. kept[s].project \in Repo \cup {NoRepo}
    BY <1>0, <1>2 DEF SelectorTypeOK
  <2>2. born' \in Nat /\ born <= born' /\ (\A t \in {born'} \cap Strands : t <= born') /\ Strands # {}
    BY <1>0, <1>1, <1>2
  <2> QED BY <1>0, <1>1, <2>1, <2>2, KeepTypes DEF SelectorInv
<1>4. born' \in 0..MaxThread /\ open' \subseteq 1..born' /\ chatThread' \in 0..born'
  BY <1>0, <1>1, SelectorBoundAssumption
<1>5. SelectorTypeOK'
  BY <1>0, <1>1, <1>3, <1>4, UnlistedTypes DEF SelectorTypeOK
<1>6. FreshNumbersHold'
  <2> SUFFICES ASSUME listed.project = NoRepo, listed.from = "store", Meant(n) # 0
               PROVE  s = Meant(n)
    BY <1>1 DEF FreshNumbersHold, NamesTheListed
  <2>1. n <= Len(listed.threads) /\ Meant(n) = listed.threads[n]
    BY DEF Meant
  <2>2. listed.threads # <<>>
    BY <1>0, <2>1
  <2>3. listed.threads = ListForTarget(NoRepo)
    BY <2>2 DEF SelectorInv, ListedIsCurrent
  <2> QED BY <2>1, <2>3 DEF s
<1> QED BY <1>1, <1>3, <1>5, <1>6, UnlistedKeepsInv

LEMMA NewThreadKeepsInv ==
  ASSUME SelectorInv, NEW p \in Repo \cup {NoRepo}, NewThread(p)
  PROVE  SelectorInv'
<1>0. SelectorTypeOK /\ born \in Nat /\ open \subseteq 1..born
  BY DEF SelectorInv, SelectorTypeOK
<1>1. /\ born < MaxThread /\ born' = born + 1 /\ Keep({born'}, p) /\ chatThread' = born'
      /\ open' \in {open, open \cup {born'}} /\ answering' = answering /\ SomethingChanged
  BY DEF NewThread
<1>2. born' \in 0..MaxThread /\ open' \subseteq 1..born' /\ chatThread' \in 0..born' /\ born' \in Strands
  BY <1>0, <1>1, SelectorBoundAssumption DEF Strands
<1>3. /\ kept' \in [Strands -> [project: Repo \cup {NoRepo}, used: 0..MaxStamp, updated: 0..MaxStamp]]
      /\ OnlyTheBornAreKept'
  <2>1. born' \in Nat /\ born <= born' /\ (\A t \in {born'} \cap Strands : t <= born') /\ Strands # {}
    BY <1>0, <1>1, <1>2
  <2> QED BY <1>0, <1>1, <2>1, KeepTypes DEF SelectorInv
<1>4. SelectorTypeOK'
  BY <1>0, <1>1, <1>2, <1>3, UnlistedTypes DEF SelectorTypeOK, SomethingChanged, NoChoice
<1> QED BY <1>1, <1>3, <1>4, ChangedKeepsInv

LEMMA RowsKeepInv ==
  ASSUME SelectorInv, AliasThread \/ Rename
  PROVE  SelectorInv'
<1>0. /\ SelectorTypeOK /\ born \in Nat /\ chatThread \in 1..born /\ chatThread \in Strands
  BY SelectorBoundAssumption DEF SelectorInv, SelectorTypeOK, AliasThread, Rename, Retitled, Strands
<1>1. UNCHANGED <<born, open, answering, chatThread>> /\ SomethingChanged
  BY DEF AliasThread, Rename, Retitled
<1>2. /\ kept' \in [Strands -> [project: Repo \cup {NoRepo}, used: 0..MaxStamp, updated: 0..MaxStamp]]
      /\ OnlyTheBornAreKept'
  <2>1. NowIso \in 1..MaxStamp /\ kept' = [kept EXCEPT ![chatThread].updated = NowIso]
    BY <1>0, NowIsLater DEF AliasThread, Rename, Retitled, SelectorTypeOK
  <2>2. kept[chatThread] \in [project: Repo \cup {NoRepo}, used: 0..MaxStamp, updated: 0..MaxStamp]
    BY <1>0 DEF SelectorTypeOK
  <2>3. /\ [kept[chatThread] EXCEPT !.updated = NowIso]
             \in [project: Repo \cup {NoRepo}, used: 0..MaxStamp, updated: 0..MaxStamp]
        /\ [kept[chatThread] EXCEPT !.updated = NowIso].used = kept[chatThread].used
    BY <2>1, <2>2
  <2>4. kept' = [kept EXCEPT ![chatThread] = [kept[chatThread] EXCEPT !.updated = NowIso]]
    BY <2>1
  <2>5. OnlyTheBornAreKept'
    BY <1>0, <1>1, <2>3, <2>4 DEF SelectorInv, SelectorTypeOK, OnlyTheBornAreKept
  <2> QED BY <1>0, <2>3, <2>4, <2>5 DEF SelectorTypeOK
<1>3. SelectorTypeOK'
  BY <1>0, <1>1, <1>2, UnlistedTypes DEF SelectorTypeOK, SomethingChanged, NoChoice
<1> QED BY <1>1, <1>2, <1>3, ChangedKeepsInv

LEMMA CodexChangesKeepsInv ==
  ASSUME SelectorInv, CodexChanges
  PROVE  SelectorInv'
<1>0. SelectorTypeOK /\ born \in Nat /\ born \in 0..MaxThread /\ open \subseteq 1..born
  BY DEF SelectorInv, SelectorTypeOK
<1>1. UNCHANGED <<kept, chatThread>> /\ SomethingChanged
  BY DEF CodexChanges
<1>2. /\ born' \in 0..MaxThread /\ open' \subseteq 1..born' /\ answering' \in BOOLEAN
      /\ born <= born'
  <2>1. CASE /\ born < MaxThread /\ born' = born + 1
             /\ open' = open \cup {born'}
             /\ UNCHANGED answering
    BY <1>0, <2>1, SelectorBoundAssumption DEF SelectorTypeOK
  <2>2. CASE /\ \E t \in 1..born : open' = (open \ {t}) \cup ({t} \ open)
             /\ UNCHANGED <<born, answering>>
    BY <1>0, <2>2 DEF SelectorTypeOK
  <2>3. CASE answering' = ~answering /\ UNCHANGED <<born, open>>
    BY <1>0, <2>3 DEF SelectorTypeOK
  <2> QED BY <2>1, <2>2, <2>3 DEF CodexChanges
<1>3. OnlyTheBornAreKept'
  BY <1>0, <1>1, <1>2 DEF SelectorInv, OnlyTheBornAreKept, Strands
<1>4. chatThread' \in 0..born'
  BY <1>0, <1>1, <1>2 DEF SelectorTypeOK
<1>5. SelectorTypeOK'
  BY <1>0, <1>1, <1>2, <1>4, UnlistedTypes DEF SelectorTypeOK, SomethingChanged, NoChoice
<1> QED BY <1>1, <1>3, <1>5, ChangedKeepsInv

LEMMA SelectorStepKeepsInv == SelectorInv /\ [SelectorNext]_selectorVars => SelectorInv'
<1> SUFFICES ASSUME SelectorInv, [SelectorNext]_selectorVars PROVE SelectorInv'
  OBVIOUS
<1>1. CASE UNCHANGED selectorVars
  <2>0. UNCHANGED <<born, open, answering, kept, chatThread, listed, chosen>>
    BY <1>1 DEF selectorVars
  <2>1. NativeThreads' = NativeThreads
    BY <2>0 DEF NativeThreads, InOrder, Cut
  <2>2. \A q : ListForTarget(q)' = ListForTarget(q)
    BY <2>0 DEF ListForTarget, InOrder, Cut, Precedes
  <2>3. SelectorTypeOK' /\ OnlyTheBornAreKept' /\ FreshNumbersHold'
    BY <2>0 DEF SelectorInv, SelectorTypeOK, OnlyTheBornAreKept, FreshNumbersHold, NamesTheListed
  <2>4. ListedIsCurrent'
    BY <2>0, <2>1, <2>2 DEF SelectorInv, ListedIsCurrent
  <2> QED BY <2>3, <2>4 DEF SelectorInv
<1>2. ASSUME NEW p \in Repo \cup {NoRepo}, Threads(p) PROVE SelectorInv'
  BY <1>2, ThreadsKeepsInv
<1>3. ASSUME NEW p \in Repo \cup {NoRepo}, NewThread(p) PROVE SelectorInv'
  BY <1>3, NewThreadKeepsInv
<1>4. ASSUME NEW n \in 1..ListLimit, Switch(n) PROVE SelectorInv'
  BY <1>4, SwitchKeepsInv
<1>5. ASSUME NEW n \in 1..ListLimit, Fork(n) PROVE SelectorInv'
  BY <1>5, ForkKeepsInv
<1>6. ASSUME NEW n \in 1..ListLimit, ThreadsRefresh(n) PROVE SelectorInv'
  BY <1>6, RefreshKeepsInv
<1>7. CASE AliasThread \/ Rename \/ CodexChanges
  BY <1>7, RowsKeepInv, CodexChangesKeepsInv
<1> QED BY <1>1, <1>2, <1>3, <1>4, <1>5, <1>6, <1>7 DEF SelectorNext

\* For any number of threads and any limit of the lists: the number of a thread in a
\* list that is still true names that thread to /switch, and to /fork where the list came
\* from the store.
THEOREM ListedNumbersHold == SelectorSpec => []FreshNumbersHold
<1>1. SelectorInv => FreshNumbersHold
  BY DEF SelectorInv
<1> QED BY <1>1, SelectorInvInit, SelectorStepKeepsInv, PTL DEF SelectorSpec
=============================================================================
