----------------------------- MODULE SearchIndex -----------------------------
(***************************************************************************)
(* The full-text index (core/search): triggers of the messages table keep  *)
(* it in step with live writes, a reindex pass folds in the rows that are  *)
(* older than the index.  The first search of a process starts one pass    *)
(* (lazy.go), `lazytg reindex` runs another in a process of its own.       *)
(*                                                                         *)
(* A message is [chat, id]; its date follows its id, and it has text.      *)
(***************************************************************************)
EXTENDS Naturals, Sequences, SequencesExt, FiniteSets, FiniteSetsExt

CONSTANTS Messages,     \* the rows there can be
          Old,          \* those stored before the index existed
          PerChat,      \* DefaultPerChatLimit
          Around,       \* DefaultJumpContext
          MaxSearches, MaxWrites, MaxDeletes, MaxRestarts, MaxErrors  \* bounds

VARIABLES
    listed,     \* rows of chats
    table,      \* rows of messages
    indexed,    \* rows of messages_fts
    lazy,       \* LazyTrigger: armed, running, finished
    pass,       \* each pass's remaining chats; NoPass when it is not running
    promised,   \* the chats the lazy pass set out to index
    completed,  \* it published ReindexProgress{Done: true}
    ever,       \* every row that was ever stored
    budget      \* how much of each bound is used

index == <<table, indexed, ever>>
passes == <<lazy, pass, promised, completed>>
vars == <<listed, index, passes, budget>>

ChatIds == {m.chat : m \in Messages}
NoPass == {"not running"}
Listing == {"listing"}
Runners == {"lazy", "cli"}

Limits == [searches |-> MaxSearches, writes |-> MaxWrites, deletes |-> MaxDeletes,
           restarts |-> MaxRestarts, errors |-> MaxErrors]
Use(k) == budget[k] < Limits[k] /\ budget' = [budget EXCEPT ![k] = @ + 1]

Newer(m, S) == {x \in S : x.chat = m.chat /\ x.id > m.id}

TypeOK ==
    /\ listed \subseteq ChatIds /\ table \subseteq Messages /\ indexed \subseteq Messages
    /\ lazy \in {"armed", "running", "finished"}
    /\ pass \in [Runners -> SUBSET ChatIds \cup {NoPass, Listing}]
    /\ promised \subseteq ChatIds /\ completed \in BOOLEAN /\ ever \subseteq Messages
    /\ \A k \in DOMAIN Limits : budget[k] \in 0 .. Limits[k]

\* A database from before migration 0005.
Init ==
    /\ listed = {m.chat : m \in Old} /\ table = Old /\ indexed = {} /\ ever = Old
    /\ lazy = "armed" /\ pass = [r \in Runners |-> NoPass]
    /\ promised = {} /\ completed = FALSE
    /\ budget = [k \in DOMAIN Limits |-> 0]

-----------------------------------------------------------------------------
(* Writes to the mirror, with the triggers of migration 0005.              *)

\* Repo.SaveMessage and messages_ai/messages_au: a new row is indexed, a row
\* written again is taken out of the index and put back.
SaveMessage(S) ==
    /\ table' = table \cup S /\ ever' = ever \cup S /\ indexed' = indexed \cup S

LiveMessage(m) ==
    /\ Use("writes") /\ m.chat \in listed
    /\ SaveMessage({m})
    /\ UNCHANGED <<listed, passes>>

DialogListed(c) ==
    /\ c \notin listed
    /\ listed' = listed \cup {c}
    /\ UNCHANGED <<index, passes, budget>>

\* Mutant: no delete trigger.
DeleteMessages_NoTrigger(S) ==
    /\ table' = table \ S /\ UNCHANGED <<indexed, ever>>

\* Repo.DeleteMessages and messages_ad.
DeleteMessages(S) ==
    /\ table' = table \ S /\ indexed' = indexed \ S /\ UNCHANGED ever

LiveDelete(m) ==
    /\ m \in table /\ Use("deletes")
    /\ DeleteMessages({m})
    /\ UNCHANGED <<listed, passes>>

\* A pruned chat takes its messages with it (ON DELETE CASCADE fires the triggers).
ChatPruned(c) ==
    /\ c \in listed /\ Use("deletes")
    /\ listed' = listed \ {c}
    /\ DeleteMessages({m \in table : m.chat = c})
    /\ UNCHANGED passes

-----------------------------------------------------------------------------
(* Searching.                                                              *)

\* LazyTrigger.EnsureIndexed: the first call starts the pass, no other does.
EnsureIndexed ==
    IF lazy # "armed" THEN UNCHANGED passes
    ELSE /\ lazy' = "running"
         /\ pass' = [pass EXCEPT !["lazy"] = Listing]
         /\ UNCHANGED <<promised, completed>>

\* Service.Search: the index is asked as it stands, beside the pass.
LocalSearch ==
    /\ Use("searches") /\ EnsureIndexed
    /\ UNCHANGED <<listed, index>>

\* RemoteService.mirror of what Searcher.SearchGlobal returned: each row is
\* written on its own and a failure is only logged; a message needs its chat.
RemoteSearch(hits) ==
    \E chats \in SUBSET {m.chat : m \in hits} :
        LET known == listed \cup chats
        IN \E saved \in SUBSET {m \in hits : m.chat \in known} :
            /\ Use("searches")
            /\ listed' = known /\ SaveMessage(saved)
            /\ UNCHANGED passes

\* Mutant: the rows before the hit are read oldest first.
JumpContext_OldestFirst(hit) ==
    LET rows == {m \in table : m.chat = hit.chat}
        ordered(S) == SetToSortSeq(S, LAMBDA a, b : a.id < b.id)
        before == ordered({m \in rows : m.id < hit.id})
        after == ordered({m \in rows : m.id >= hit.id})
        half(s, n) == SubSeq(s, 1, IF Len(s) < n THEN Len(s) ELSE n)
    IN IF hit \notin rows THEN <<>>
       ELSE half(before, Around) \o half(after, Around + 1)

\* Service.JumpContext: up to Around rows before the hit, the hit and up to
\* Around after it; an error when the hit has no row.
JumpContext(hit) ==
    LET rows == {m \in table : m.chat = hit.chat}
        ordered(S) == SetToSortSeq(S, LAMBDA a, b : a.id < b.id)
        before == ordered({m \in rows : m.id < hit.id})
        after == ordered({m \in rows : m.id >= hit.id})
        half(s, n) == SubSeq(s, 1, IF Len(s) < n THEN Len(s) ELSE n)
    IN IF hit \notin rows THEN <<>>
       ELSE Reverse(half(Reverse(before), Around)) \o half(after, Around + 1)

-----------------------------------------------------------------------------
(* The passes.                                                             *)

\* `lazytg reindex --all`.
ReindexCommand ==
    /\ pass["cli"] = NoPass /\ Use("restarts")
    /\ pass' = [pass EXCEPT !["cli"] = Listing]
    /\ UNCHANGED <<listed, index, lazy, promised, completed>>

\* Mutant: the trigger's goroutine reports Done however the pass went.
Ended_AlwaysDone(r, well) ==
    /\ pass' = [pass EXCEPT ![r] = NoPass]
    /\ IF r = "lazy"
       THEN lazy' = "finished" /\ completed' = TRUE
       ELSE UNCHANGED <<lazy, completed>>

\* What the end of a pass leaves: LazyTrigger closes done, whatever happened.
Ended(r, well) ==
    /\ pass' = [pass EXCEPT ![r] = NoPass]
    /\ IF r = "lazy"
       THEN lazy' = "finished" /\ completed' = well
       ELSE UNCHANGED <<lazy, completed>>

\* ReindexService.RunAll: the chats are listed once.
RunAll(r) ==
    /\ pass[r] = Listing
    /\ IF listed = {} THEN Ended(r, TRUE)
       ELSE pass' = [pass EXCEPT ![r] = listed] /\ UNCHANGED <<lazy, completed>>
    /\ promised' = IF r = "lazy" THEN listed ELSE promised
    /\ UNCHANGED <<listed, index, budget>>

\* Indexer.Backfill, one transaction: of the newest PerChat rows of the chat,
\* those not in the index.
Backfill(c) ==
    indexed' = indexed \cup
        {m \in table : m.chat = c /\ Cardinality(Newer(m, table)) < PerChat}

\* One turn of the loop in ReindexService.Run.
RunChat(r, c) ==
    /\ pass[r] \notin {NoPass, Listing} /\ c \in pass[r]
    /\ Backfill(c)
    /\ IF pass[r] = {c} THEN Ended(r, TRUE)
       ELSE pass' = [pass EXCEPT ![r] = @ \ {c}] /\ UNCHANGED <<lazy, completed>>
    /\ UNCHANGED <<listed, table, ever, promised, budget>>

\* The first error, or a cancelled context, ends the pass.
PassFails(r) ==
    /\ pass[r] # NoPass /\ Use("errors")
    /\ Ended(r, FALSE)
    /\ UNCHANGED <<listed, index, promised>>

\* The program is started again; the command's process is another one.
Restart ==
    /\ Use("restarts")
    /\ lazy' = "armed" /\ pass' = [pass EXCEPT !["lazy"] = NoPass]
    /\ promised' = {} /\ completed' = FALSE
    /\ UNCHANGED <<listed, index>>

Next ==
    \/ \E m \in Messages : LiveMessage(m) \/ LiveDelete(m)
    \/ \E c \in ChatIds : DialogListed(c) \/ ChatPruned(c)
    \/ LocalSearch \/ ReindexCommand \/ Restart
    \/ \E hits \in SUBSET Messages \ {{}} : RemoteSearch(hits)
    \/ \E r \in Runners : RunAll(r) \/ PassFails(r) \/ \E c \in ChatIds : RunChat(r, c)

Spec == Init /\ [][Next]_vars

-----------------------------------------------------------------------------
\* The index never holds a row the table has lost, and what it misses is older
\* than the index and was not written since (migrations/0005_fts.sql).
IndexFollowsTable == indexed \subseteq table /\ table \ indexed \subseteq Old

\* When the lazy pass reports that it is done, a row of a chat it set out to
\* index is missing only if at least PerChat rows of its chat are newer:
\* whatever was written, deleted, mirrored from the server or indexed by the
\* command while the pass ran (core/search/reindex.go).
DoneMeansCovered ==
    completed => \A m \in table \ indexed :
        m.chat \in promised => Cardinality(Newer(m, ever)) >= PerChat

\* A jump shows the hit amid its real neighbours: a run of consecutive rows of
\* its chat, as far as Around to each side (core/search/service.go).
JumpShowsNeighbours ==
    \A hit \in indexed :
        LET w == JumpContext(hit)
            rows == {m \in table : m.chat = hit.chat}
            near(m) == LET between == {x \in rows : (m.id <= x.id /\ x.id < hit.id)
                                                 \/ (hit.id < x.id /\ x.id <= m.id)}
                       IN Cardinality(between) <= Around
        IN /\ ToSet(w) = {m \in rows : near(m)}
           /\ \A i \in 1 .. Len(w) - 1 : w[i].id < w[i + 1].id

-----------------------------------------------------------------------------
(* What the source says and the code does not do.  README.md names the     *)
(* instance that refutes each of these.                                    *)

\* "the goroutine started on the first call carries the work through to
\* completion" (core/search/lazy.go:11): one failing chat ends it for good.
FinishedMeansCovered ==
    lazy = "finished" => \A m \in table \ indexed :
        m.chat \in promised => Cardinality(Newer(m, ever)) >= PerChat
=============================================================================
