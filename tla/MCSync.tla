------------------------------ MODULE MCSync -------------------------------
(* The services that keep the mirror, the records and the secrets, each on *)
(* its own small instance: a behaviour is one component's.                 *)
EXTENDS Unread, FiniteSets, TLC

CONSTANTS c1, c2,
          Listing, Self, Undecodable, Undated, BatchSize, MaxPages, ArchivePages, Walking,   \* DialogSync
          MaxActions, MaxUpdates, MaxRefused,                                   \* MessageActions
          Procs, Phones, Nobody, Keyrings, MaxStarts, MaxWrites, MaxFaults,     \* Secrets
          Push, Paths                                                           \* Mirror

ASSUME ListAssumption ==
    /\ IsFiniteSet(Listing) /\ Self \in Listing
    /\ BatchSize \in Nat \ {0} /\ MaxPages \in Nat /\ ArchivePages \in Nat \ {0}
ASSUME ActionsAssumption == MaxActions \in Nat /\ MaxUpdates \in Nat /\ MaxRefused \in Nat
ASSUME SecretsAssumption ==
    /\ MaxStarts \in Nat /\ MaxWrites \in Nat /\ MaxFaults \in Nat
    /\ Keyrings \subseteq {0, 2} /\ Nobody \notin Procs /\ Nobody \notin Phones

\* Mirror.  Pushed and polled messages stay in the duplicate filter's memory; the other
\* instance forgets.
ASSUME MirrorAssumption ==
    /\ \A P \in {Push, Paths} :
          /\ IsFiniteSet(P.chats) /\ P.channels \subseteq P.chats
          /\ P.dedup \in Nat \ {0} /\ {P.bus, P.ids, P.edits} \subseteq Nat
    /\ Cardinality(Push.chats \X (1 .. Push.ids)) <= Push.dedup

\* Mirror: a chat whose edits and deletions race with a poll; a private chat and a channel,
\* every buffer of length one.
MCPush == [chats |-> {"p"}, channels |-> {}, dedup |-> 2, bus |-> 2, ids |-> 2, edits |-> 2,
           deletes |-> 1, changes |-> 2, losses |-> 0, polls |-> 1]
MCPaths == [chats |-> {"p", "ch"}, channels |-> {"ch"}, dedup |-> 1, batch |-> 1, bus |-> 1,
            ids |-> 1, edits |-> 1, deletes |-> 1, changes |-> 1, losses |-> 1, polls |-> 1,
            loads |-> 1]

\* Unread: a failing request and a dialog sync, a third opening, and reads on
\* another device.
Budget(m, o, s, f, e) ==
    [messages |-> m, opens |-> o, syncs |-> s, failures |-> f, elsewhere |-> e]
MCBudgets == {Budget(2, 2, 1, 1, 0), Budget(2, 3, 0, 0, 0), Budget(2, 2, 0, 1, 1)}

\* DialogSync: a discovery within the cooldown of another; requests, chats that do not
\* decode, writes and prunes that fail, also beside a list that moves; a list that moves twice.
WalkBudget(m, o, f) == [messages |-> m, moves |-> o, failures |-> f]
MCWalking == {WalkBudget(2, 0, 0), WalkBudget(1, 0, 1), WalkBudget(0, 1, 3), WalkBudget(0, 2, 0)}

VARIABLES part,      \* the component this behaviour is of
          \* its variables, in the order its module declares them
          v1, v2, v3, v4, v5, v6, v7, v8, v9, v10, v11, v12, v13, v14

state == <<part, vars, v1, v2, v3, v4, v5, v6, v7, v8, v9, v10, v11, v12, v13, v14>>

\* The variables a component does not use keep one value.
Nothing == "idle"

\* Two overlapping walks, with archive and page limits.
DialogSync == INSTANCE DialogSync WITH
    Chats <- Listing, Self <- Self, Undecodable <- Undecodable, Undated <- Undated,
    BatchSize <- BatchSize, MaxPages <- MaxPages, ArchivePages <- ArchivePages,
    Budgets <- Walking, date <- v1, archived <- v2, arriving <- v3, rows <- v4,
    untitled <- v5, walk <- v6, trigger <- v7, cooling <- v8, used <- v9

\* Two edits, deletions, reactions or pins of one message against an update.
MessageActions == INSTANCE MessageActions WITH
    MaxActions <- MaxActions, MaxUpdates <- MaxUpdates, MaxFailures <- MaxRefused, server <- v1, row <- v2, feed <- v3,
    calls <- v4, notice <- v5, agreed <- v6, overlap <- v7, acted <- v8, updated <- v9,
    failed <- v10

\* What is pushed and polled, with no history fetched.
PushMirror == INSTANCE Mirror WITH
    Chats <- Push.chats, Channels <- Push.channels, DedupCap <- Push.dedup, BatchSize <- 0,
    BusCap <- Push.bus, MaxId <- Push.ids, MaxEdits <- Push.edits, MaxDeletes <- Push.deletes,
    MaxChanges <- Push.changes, MaxLost <- Push.losses, MaxPolls <- Push.polls, MaxLoads <- 0,
    server <- v1, wire <- v2, lru <- v3, feed <- v4, mirror <- v5, plain <- v6,
    listed <- v7, poll <- v8, watermark <- v9, load <- v10, verified <- v11, missed <- v12,
    used <- v13, overtaken <- v14

\* Every path.
PathsMirror == INSTANCE Mirror WITH
    Chats <- Paths.chats, Channels <- Paths.channels, DedupCap <- Paths.dedup,
    BatchSize <- Paths.batch, BusCap <- Paths.bus, MaxId <- Paths.ids, MaxEdits <- Paths.edits,
    MaxDeletes <- Paths.deletes, MaxChanges <- Paths.changes, MaxLost <- Paths.losses,
    MaxPolls <- Paths.polls, MaxLoads <- Paths.loads,
    server <- v1, wire <- v2, lru <- v3, feed <- v4, mirror <- v5, plain <- v6,
    listed <- v7, poll <- v8, watermark <- v9, load <- v10, verified <- v11, missed <- v12,
    used <- v13, overtaken <- v14

\* Two processes, two phones, with and without the keyring entry, one failure or kill.
Secrets == INSTANCE Secrets WITH
    Procs <- Procs, Phones <- Phones, Nobody <- Nobody, Keyrings <- Keyrings,
    MaxStarts <- MaxStarts, MaxWrites <- MaxWrites, MaxFaults <- MaxFaults, keyring <- v1, made <- v2, file <- v3,
    lock <- v4, accounts <- v5, me <- v6, printed <- v7, starts <- v8, faults <- v9

MCInit ==
    \/ /\ part = "unread" /\ Init
       /\ v1 = Nothing /\ v2 = Nothing /\ v3 = Nothing /\ v4 = Nothing /\ v5 = Nothing /\ v6 = Nothing
       /\ v7 = Nothing /\ v8 = Nothing /\ v9 = Nothing /\ v10 = Nothing /\ v11 = Nothing /\ v12 = Nothing
       /\ v13 = Nothing /\ v14 = Nothing
    \/ /\ part = "dialogs" /\ DialogSync!Init /\ Init
       /\ v10 = Nothing /\ v11 = Nothing /\ v12 = Nothing /\ v13 = Nothing /\ v14 = Nothing
    \/ /\ part = "actions" /\ MessageActions!Init /\ Init
       /\ v11 = Nothing /\ v12 = Nothing /\ v13 = Nothing /\ v14 = Nothing
    \/ /\ part = "push" /\ PushMirror!Init /\ Init
    \/ /\ part = "paths" /\ PathsMirror!Init /\ Init
    \/ /\ part = "secrets" /\ Secrets!Init /\ Init
       /\ v10 = Nothing /\ v11 = Nothing /\ v12 = Nothing /\ v13 = Nothing /\ v14 = Nothing

MCSteps ==
    \/ part = "unread" /\ Next
       /\ UNCHANGED <<v1, v2, v3, v4, v5, v6, v7, v8, v9, v10, v11, v12, v13, v14>>
    \/ part = "dialogs" /\ DialogSync!Next /\ UNCHANGED <<v10, v11, v12, v13, v14, vars>>
    \/ part = "actions" /\ MessageActions!Next /\ UNCHANGED <<v11, v12, v13, v14, vars>>
    \/ part = "push" /\ PushMirror!Next /\ UNCHANGED <<vars>>
    \/ part = "paths" /\ PathsMirror!Next /\ UNCHANGED <<vars>>
    \/ part = "secrets" /\ Secrets!Next /\ UNCHANGED <<v10, v11, v12, v13, v14, vars>>

MCNext == MCSteps /\ UNCHANGED part

MCSpec == MCInit /\ [][MCNext]_state

-----------------------------------------------------------------------------
\* A walk that reports itself complete has seen every chat that stood still (SyncDialogs).
CompleteMeansAll == part = "dialogs" => DialogSync!CompleteMeansAll

\* After a complete, quiet walk the rows are the server's list (prune and persist).
SyncedMirrorsServer == part = "dialogs" => DialogSync!SyncedMirrorsServer

\* The row never shows what neither the server nor a later update said (actions.go: server first).
NothingInvented == part = "actions" => MessageActions!NothingInvented

\* One action at a time, with its update heard, leaves row and server the same.
SequentialUseAgrees == part = "actions" => MessageActions!SequentialUseAgrees

\* Without history batches no row is older than the server's once its updates are in, unless a
\* change came between a poll's filter and its publish (updates.go, polling.go).
PushedNotStale == part = "push" => PushMirror!NothingStale

\* A message whose updates got through the filter, the bus and the poll has its row (history.go).
PathsMissNothing == part = "paths" => PathsMirror!NothingMissing

\* A login that printed success has its session in the file until someone forgets it (mutate, runLogin).
SuccessMeansKept == part = "secrets" => Secrets!SuccessMeansKept

\* With its keyring entry in place no hiccup makes the file unreadable (KeyringPassphrase).
FileOpens == part = "secrets" => Secrets!FileOpens

\* A store that has seen the newest file answers from what it holds (persist before commit).
ReadsWhatWasWritten == part = "secrets" => Secrets!ReadsWhatWasWritten

\* A rename of the file changes the writer's own phone alone (refresh inside the lock).
OwnKeyOnly == part = "secrets" => Secrets!OwnKeyOnly

-----------------------------------------------------------------------------
\* What the run checks: the above by theme, each component with its type invariant.

\* A dialog sync that says it is complete has seen the whole list and leaves it behind in
\* the mirror, with a second sync beside it (SyncDialogs, walk, prune).
ListAgrees ==
    /\ part = "dialogs" => DialogSync!TypeOK
    /\ CompleteMeansAll /\ SyncedMirrorsServer

\* Acting on a message leaves the mirror with values Telegram held, and with its present
\* ones unless two sides act at once (actions.go).
ActionsAgree ==
    /\ part = "actions" => MessageActions!TypeOK
    /\ NothingInvented /\ SequentialUseAgrees

\* What arrived stays: the mirror ends with the server's version of every message whose
\* updates got through the filter, the bus and the poll (updates.go, polling.go, history.go).
MirrorAgrees ==
    /\ part = "push" => PushMirror!TypeOK
    /\ part = "paths" => PathsMirror!TypeOK
    /\ PushedNotStale /\ PathsMissNothing

\* The secrets file, written by several processes: what a login stored is kept, the file
\* can be opened again, and no store believes what is not in it (secrets.go).
SecretsKept ==
    /\ part = "secrets" => Secrets!TypeOK
    /\ SuccessMeansKept /\ FileOpens /\ ReadsWhatWasWritten

\* No step moves an acknowledgement back (ackOne) or writes over another phone's session
\* (mutate, refresh).
NothingTakenBack == [][AcksAdvance /\ OwnKeyOnly]_state

\* The chats of Unread.
Symmetry == Permutations({c1, c2})
=============================================================================
