------------------------------ MODULE DialogSync ------------------------------
(***************************************************************************)
(* The chat list: DialogsService.Sync (core/sync/dialogs.go) pages through *)
(* the server's two folders, stores what it finds and prunes what it did   *)
(* not; LiveService invents a row for a chat it meets first; Rediscoverer  *)
(* (core/sync/rediscover.go) then asks for another sync.  The startup sync *)
(* and the Rediscoverer's run on goroutines of their own and may overlap.  *)
(* The server's list moves under both: a message lifts its chat to the top,*)
(* chats are archived, taken out again and deleted on other devices.       *)
(***************************************************************************)
EXTENDS Naturals, FiniteSets, FiniteSetsExt

CONSTANTS Chats,
          Self,           \* Saved Messages
          Undecodable,    \* chats whose user or channel a page may leave out
          Undated,        \* chats whose top message the page leaves out
          BatchSize, MaxPages, ArchivePages,
          Budgets         \* bounds: how often each of Kinds may happen, as functions
                          \* on Kinds; a behaviour keeps within one

VARIABLES
    date,      \* the server's last message date per chat, 0 when not listed
    archived,  \* chats the server lists in the archive
    arriving,  \* chats with a pushed message LiveService has not saved yet
    rows,      \* the chats table
    untitled,  \* rows the live path invented and no sync has described
    walk,      \* the two syncs
    trigger,   \* Rediscoverer's depth-one queue
    cooling,   \* less than the cooldown since the last triggered sync began
    used       \* how often each of Kinds has happened

server == <<date, archived>>
vars == <<server, arriving, rows, untitled, walk, trigger, cooling, used>>

Walks == {"startup", "rediscover"}
Kinds == {"messages", "moves", "failures"}
Spend(k) ==
    /\ used' = [used EXCEPT ![k] = @ + 1]
    /\ \E b \in Budgets : \A j \in Kinds : used'[j] <= b[j]

Listed == {c \in Chats : date[c] # 0}
Folder(f) == IF f = 1 THEN Listed \cap archived ELSE Listed \ archived

\* A sync's place in the lists: the page it is saving and what comes after it,
\* the chats seen, whether every folder so far was read to its end.  The rest is
\* history: chats it could not decode and chats it could not save, whether the
\* prune went through, and whether nothing moved since it began.
NoWalk == [pc |-> "idle", folder |-> 0, page |-> 0, cursor |-> 0, found |-> {},
           after |-> "end", seen |-> {}, complete |-> TRUE, lost |-> {},
           unsaved |-> {}, pruned |-> FALSE, quiet |-> FALSE]
Starting == [NoWalk EXCEPT !.pc = "fetch", !.quiet = TRUE]
WalkType == [pc : {"idle", "fetch", "persist", "self", "prune", "done"},
             folder : {0, 1}, page : Nat, cursor : Nat,
             found : SUBSET Chats, after : {"more", "end", "cut"},
             seen : SUBSET Chats, complete : BOOLEAN, lost : SUBSET Chats,
             unsaved : SUBSET Chats, pruned : BOOLEAN, quiet : BOOLEAN]

TypeOK ==
    /\ date \in [Chats -> Nat] /\ archived \subseteq Chats
    /\ arriving \subseteq Chats /\ rows \subseteq Chats /\ untitled \subseteq rows
    /\ walk \in [Walks -> WalkType]
    /\ trigger \in BOOLEAN /\ cooling \in BOOLEAN
    /\ used \in [Kinds -> Nat]

\* The mirror is as the last run left it: any rows, whatever the server lists.
\* Of dates the order matters alone.
Init ==
    /\ date \in {d \in [Chats -> 0 .. Cardinality(Chats)] :
                    /\ \A a, b \in Chats : d[a] = d[b] => a = b \/ d[a] = 0
                    /\ \A a \in Chats : \A n \in 1 .. d[a] : \E b \in Chats : d[b] = n}
    /\ archived \in {{}, Listed \ {Self}}
    /\ rows \in {{}, Chats}
    /\ arriving = {} /\ untitled = {}
    /\ walk = [w \in Walks |-> IF w = "startup" THEN Starting ELSE NoWalk]
    /\ trigger = FALSE /\ cooling = FALSE
    /\ used = [k \in Kinds |-> 0]

-----------------------------------------------------------------------------
(***************************************************************************)
(* The server's list.  A walk it moves under is no longer quiet.           *)
(***************************************************************************)
Disturb == walk' = [w \in Walks |-> [walk[w] EXCEPT !.quiet = FALSE]]

NextDate == Max({date[c] : c \in Chats}) + 1

\* A message lifts its chat to the top of its folder and is pushed to us.
MessageArrives(c) ==
    /\ Spend("messages")
    /\ date' = [date EXCEPT ![c] = NextDate]
    /\ arriving' = arriving \union {c}
    /\ Disturb
    /\ UNCHANGED <<archived, rows, untitled, trigger, cooling>>

\* On another device a chat moves into the archive, or out of it.
MovedElsewhere(c) ==
    /\ Spend("moves")
    /\ c \in Listed
    /\ archived' = IF c \in archived THEN archived \ {c} ELSE archived \union {c}
    /\ Disturb
    /\ UNCHANGED <<date, arriving, rows, untitled, trigger, cooling>>

DeletedElsewhere(c) ==
    /\ Spend("moves")
    /\ c \in Listed
    /\ date' = [date EXCEPT ![c] = 0]
    /\ Disturb
    /\ UNCHANGED <<archived, arriving, rows, untitled, trigger, cooling>>

-----------------------------------------------------------------------------
(***************************************************************************)
(* LiveService.persist: EnsureChat, and ChatDiscovered when it made a row. *)
(***************************************************************************)
Persist(c) ==
    /\ c \in arriving
    /\ arriving' = arriving \ {c}
    /\ rows' = rows \union {c}
    /\ IF c \in rows THEN UNCHANGED <<untitled, trigger, walk>>
                     ELSE /\ untitled' = untitled \union {c}
                          /\ trigger' = TRUE
                          /\ Disturb
    /\ UNCHANGED <<server, cooling, used>>

-----------------------------------------------------------------------------
(***************************************************************************)
(* Rediscoverer.refresh: within the cooldown the trigger is thrown away;   *)
(* the stamp is set before the sync begins.                                *)
(***************************************************************************)
Refresh ==
    /\ trigger
    /\ walk["rediscover"].pc \in {"idle", "done"}
    /\ trigger' = FALSE
    /\ \/ cooling /\ UNCHANGED <<cooling, walk>>
       \/ /\ ~cooling
          /\ cooling' = TRUE
          /\ walk' = [walk EXCEPT !["rediscover"] = Starting]
    /\ UNCHANGED <<server, arriving, rows, untitled, used>>

CooldownEnds ==
    /\ cooling
    /\ cooling' = FALSE
    /\ UNCHANGED <<server, arriving, rows, untitled, walk, trigger, used>>

-----------------------------------------------------------------------------
(***************************************************************************)
(* FetchDialogs: what one request answers, and what decodeDialogs makes of *)
(* it: the dialogs in lost came without the user or channel they name.     *)
(* HasMore needs a full slice and a dated last chat to continue from.      *)
(***************************************************************************)
Below(w) == {c \in Folder(walk[w].folder) :
                walk[w].cursor = 0 \/ date[c] < walk[w].cursor}
Raw(w) == {c \in Below(w) :
              Cardinality({d \in Below(w) : date[d] >= date[c]}) <= BatchSize}
Slice(w) == walk[w].cursor # 0 \/ Below(w) # Raw(w)
Full(w) == Slice(w) /\ Cardinality(Raw(w)) = BatchSize
Last(D) == CHOOSE c \in D : \A d \in D : date[d] >= date[c]
HasMore(w, D) == Full(w) /\ D # {} /\ Last(D) \notin Undated

\* A full page that left chats out and has no cursor to go on from.
Blind(w, lost) == Full(w) /\ lost # {} /\ ~HasMore(w, Raw(w) \ lost)

PageLimit(w) == IF walk[w].folder = 0 THEN MaxPages ELSE ArchivePages

\* A sync moves on to r; rows it changes disturb the other one.
Becomes(w, r) ==
    walk' = [v \in Walks |-> IF v = w THEN r
                             ELSE [walk[v] EXCEPT !.quiet = @ /\ rows' = rows]]

\* Mutant: the archive is never read.
Leave_SkipsArchive(w, r, ended) ==
    Becomes(w, [r EXCEPT !.complete = @ /\ ended, !.found = {}, !.pc = "self"])

\* One folder is finished: the archive is next, or the end of the sync.
Leave(w, r, ended) ==
    LET q == [r EXCEPT !.complete = @ /\ ended, !.found = {}] IN
    Becomes(w, IF q.folder = 0 /\ ArchivePages > 0
               THEN [q EXCEPT !.pc = "fetch", !.folder = 1, !.page = 0,
                              !.cursor = 0]
               ELSE [q EXCEPT !.pc = "self"])

\* Something goes wrong for the chats in C, if for any.
Failing(C) == IF C = {} THEN UNCHANGED used ELSE Spend("failures")

\* What the walk knows of a page that left out the chats in lost.
Decoding(w, lost) ==
    [walk[w] EXCEPT !.lost = @ \union lost, !.quiet = @ /\ ~Blind(w, lost)]

\* A page none of which decodes ends the folder; only the archive may be empty
\* in truth.
EmptyPage(w) ==
    /\ walk[w].pc = "fetch" /\ Raw(w) \subseteq Undecodable
    /\ Failing(Raw(w))
    /\ UNCHANGED <<server, arriving, rows, untitled, trigger, cooling>>
    /\ Leave(w, Decoding(w, Raw(w)), walk[w].folder = 1)

\* Mutant: the page limit passes for the end of the list.
Page_CapIsEnd(w, lost) ==
    LET page == walk[w].page + 1
        found == Raw(w) \ lost
    IN
    /\ walk[w].pc = "fetch" /\ found # {}
    /\ Failing(lost)
    /\ UNCHANGED <<server, arriving, rows, untitled, trigger, cooling>>
    /\ Becomes(w, [Decoding(w, lost) EXCEPT
                      !.pc = "persist", !.page = page,
                      !.after = IF HasMore(w, found) /\ page < PageLimit(w)
                                THEN "more" ELSE "end",
                      !.cursor = IF HasMore(w, found) THEN date[Last(found)] ELSE @,
                      !.found = found, !.seen = @ \union found])

\* A page's chats count as seen before they are saved.
Page(w, lost) ==
    LET page == walk[w].page + 1
        found == Raw(w) \ lost
        after == IF HasMore(w, found)
                 THEN IF page < PageLimit(w) THEN "more" ELSE "cut"
                 ELSE IF Cardinality(found) < BatchSize THEN "end" ELSE "cut"
    IN
    /\ walk[w].pc = "fetch" /\ found # {}
    /\ Failing(lost)
    /\ UNCHANGED <<server, arriving, rows, untitled, trigger, cooling>>
    /\ Becomes(w, [Decoding(w, lost) EXCEPT
                      !.pc = "persist", !.page = page, !.after = after,
                      !.cursor = IF HasMore(w, found) THEN date[Last(found)] ELSE @,
                      !.found = found, !.seen = @ \union found])

\* A request fails, or the sync's time runs out: nothing more happens.
WalkFails(w) ==
    /\ walk[w].pc = "fetch"
    /\ Spend("failures")
    /\ walk' = [walk EXCEPT ![w] = NoWalk]
    /\ UNCHANGED <<server, arriving, rows, untitled, trigger, cooling>>

\* persist: SaveChat describes every chat of the page but those in unsaved, whose
\* write failed and is passed over.
PersistPage(w, unsaved) ==
    LET saved == walk[w].found \ unsaved
        r == [walk[w] EXCEPT !.unsaved = @ \union (unsaved \ rows)]
    IN
    /\ r.pc = "persist"
    /\ Failing(unsaved)
    /\ rows' = rows \union saved
    /\ untitled' = untitled \ saved
    /\ IF r.after = "more"
       THEN Becomes(w, [r EXCEPT !.pc = "fetch", !.found = {}])
       ELSE Leave(w, r, r.after = "end")
    /\ UNCHANGED <<server, arriving, trigger, cooling>>

\* ensureSelf: Saved Messages is added when the list came without it.
EnsureSelf(w) ==
    /\ walk[w].pc = "self"
    /\ rows' = IF Self \in walk[w].seen THEN rows ELSE rows \union {Self}
    /\ untitled' = IF Self \in walk[w].seen THEN untitled ELSE untitled \ {Self}
    /\ Becomes(w, [walk[w] EXCEPT !.pc = "prune", !.seen = @ \union {Self}])
    /\ UNCHANGED <<server, arriving, trigger, cooling, used>>

\* The account's own record could not be had, or not saved: it is not added to
\* the seen.
SelfUnknown(w) ==
    /\ walk[w].pc = "self"
    /\ Spend("failures")
    /\ walk' = [walk EXCEPT ![w].pc = "prune"]
    /\ UNCHANGED <<server, arriving, rows, untitled, trigger, cooling>>

\* Mutant: what is remembered about a pruned chat stays behind.
Prune_LeavesTraces(w) ==
    LET r == walk[w] IN
    /\ r.pc = "prune"
    /\ rows' = IF r.complete /\ r.seen # {} THEN rows \cap r.seen ELSE rows
    /\ Becomes(w, [r EXCEPT !.pc = "done", !.pruned = TRUE])
    /\ UNCHANGED <<server, arriving, untitled, trigger, cooling, used>>

\* prune: DeleteChatsExcept, messages and all, and only after a whole list.
Prune(w) ==
    LET r == walk[w]
        kept == IF r.complete /\ r.seen # {} THEN rows \cap r.seen ELSE rows
    IN
    /\ r.pc = "prune"
    /\ rows' = kept
    /\ untitled' = untitled \cap kept
    /\ Becomes(w, [r EXCEPT !.pc = "done", !.pruned = TRUE])
    /\ UNCHANGED <<server, arriving, trigger, cooling, used>>

\* The deletion fails and is only logged.
PruneFails(w) ==
    /\ walk[w].pc = "prune"
    /\ walk[w].complete /\ walk[w].seen # {}
    /\ Spend("failures")
    /\ walk' = [walk EXCEPT ![w].pc = "done"]
    /\ UNCHANGED <<server, arriving, rows, untitled, trigger, cooling>>

-----------------------------------------------------------------------------
WalkStep(w) ==
    \/ EmptyPage(w) \/ EnsureSelf(w) \/ Prune(w)
    \/ \E lost \in SUBSET (Raw(w) \cap Undecodable) : Page(w, lost)
    \/ \E unsaved \in SUBSET walk[w].found : PersistPage(w, unsaved)

Next ==
    \/ \E c \in Chats : MessageArrives(c) \/ MovedElsewhere(c)
                        \/ DeletedElsewhere(c) \/ Persist(c)
    \/ Refresh \/ CooldownEnds
    \/ \E w \in Walks : WalkStep(w) \/ WalkFails(w) \/ SelfUnknown(w) \/ PruneFails(w)

Spec == Init /\ [][Next]_vars

\* Every goroutine runs, requests are answered and cooldowns end.
Fairness ==
    /\ \A w \in Walks : WF_vars(WalkStep(w))
    /\ \A c \in Chats : WF_vars(Persist(c))
    /\ WF_vars(Refresh) /\ WF_vars(CooldownEnds)

FairSpec == Spec /\ Fairness

-----------------------------------------------------------------------------
\* A list read to its end is the whole list: with nothing moving meanwhile, a
\* sync about to prune has seen every chat the server holds and it could decode,
\* whether or not it could save it (dialogs.go, prune: "It runs only when the walk
\* reached the end of the dialog list").  Excepted is a walk that met a Blind page,
\* which the code takes for the end (dialogs.go:232).
CompleteMeansAll ==
    \A w \in Walks :
        (walk[w].pc = "prune" /\ walk[w].complete /\ walk[w].quiet)
            => Listed \ walk[w].lost \subseteq walk[w].seen

\* A whole sync nothing disturbed (no list that moved, no row another path
\* wrote) leaves the server's list in the mirror: the chats deleted elsewhere are
\* gone if the prune went through, archived ones are kept, and a write that failed
\* costs its own chat only, and that only when it had no row before (dialogs.go,
\* Sync: "one unparseable chat should not cost the user their whole chat list").
SyncedMirrorsServer ==
    \A w \in Walks :
        LET r == walk[w] IN
        (r.pc = "done" /\ r.complete /\ r.quiet) =>
            /\ Listed \ (r.lost \union r.unsaved \union {Self}) \subseteq rows
            /\ r.pruned => rows \ {Self} \subseteq Listed

-----------------------------------------------------------------------------
(***************************************************************************)
(* What the source says and the code does not do.  README.md names the     *)
(* instance that refutes each of these.                                    *)
(***************************************************************************)
\* Saved Messages is "kept through the prune that removes chats deleted
\* elsewhere" (CHANGELOG.md; dialogs.go, ensureSelf): no step removes its row.
SelfKept ==
    [][(Self \in rows) => (Self \in rows')]_vars

\* Only a chat deleted on another device leaves the mirror (dialogs.go, prune;
\* repo.go, DeleteChatsExcept): a chat the server lists keeps its row.
ListedSurvives ==
    [][\A c \in Listed : c \in rows => c \in rows']_vars

\* A row the live path invented is described in the end: "one queued refresh
\* covers every discovery that arrives while it runs" (rediscover.go, Start).
DiscoveredGetsDescribed ==
    \A c \in Chats : c \in untitled ~> c \notin untitled
=============================================================================
