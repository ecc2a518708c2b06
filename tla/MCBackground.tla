--------------------------- MODULE MCBackground ----------------------------
(* The work that goes on behind the panes and must come to an end, each    *)
(* component on its own small instance.                                    *)
EXTENDS Backfill, Integers

CONSTANTS Files, Uploads, Names, NameOf, Attempts, FeedCap, MaxRequests, MaxFaults,  \* Transfers
          Account, Channels, MaxPts, Buffer, MaxOutages,                             \* Recovery
          Size, Step, Percent, MaxChanges,                                           \* StatusLine
          People, Here, There, MaxNotices,                                           \* Typing
          Queries, Blank, Refused, PageSize, MaxEdits, MaxTabs, MaxReopens           \* SearchPane

\* A transfer has a row under its own id, whichever way it goes, and no id is a cell's name.
ASSUME TransfersAssumption ==
    /\ Attempts \in Nat /\ FeedCap \in Nat /\ NameOf \in [Files -> Names]
    /\ Files \cap Uploads = {} /\ {"mode", "chip"} \cap Uploads = {}
ASSUME RecoveryAssumption == MaxPts \in Nat /\ Buffer \in Nat /\ MaxOutages \in Nat
ASSUME StatusAssumption == Size \in Nat
ASSUME TypingAssumption == MaxNotices \in Nat
ASSUME SearchAssumption == PageSize \in Nat /\ MaxEdits \in Nat /\ Blank \notin Queries

\* Every attachment wants the one name there is.
MCNameOf == [f \in Files |-> CHOOSE n \in Names : TRUE]

VARIABLES part,      \* the component this behaviour is of
          \* its variables, in the order its module declares them
          v1, v2, v3, v4, v5, v6, v7, v8, v9, v10, v11, v12, v13, v14, v15, v16, v17

state == <<part, vars, v1, v2, v3, v4, v5, v6, v7, v8, v9, v10, v11, v12, v13, v14, v15,
           v16, v17>>

\* The variables a component does not use keep one value.
Nothing == "idle"

\* Two downloads under one name and an upload.
Transfers == INSTANCE Transfers WITH
    Files <- Files, Uploads <- Uploads, Names <- Names, NameOf <- NameOf,
    Attempts <- Attempts, FeedCap <- FeedCap, MaxRequests <- MaxRequests,
    MaxFaults <- MaxFaults, job <- v1, pending <- v2, sending <- v3, disk <- v4,
    partial <- v5, recorded <- v6, feed <- v7, rows <- v8, dropped <- v9, expense <- v10

\* Start, sessions, gaps and quitting with one channel.
Recovery == INSTANCE Recovery WITH
    Account <- Account, Channels <- Channels, MaxPts <- MaxPts, Buffer <- Buffer,
    MaxFaults <- MaxOutages, stage <- v1, db <- v2, workers <- v3, attached <- v4,
    link <- v5, manager <- v6, tracked <- v7, local <- v8, stored <- v9, hashes <- v10,
    head <- v11, feed <- v12, seen <- v13, mirror <- v14, lost <- v15, base <- v16,
    faults <- v17

\* A disk that fills and heals, one upload, a feed of two.
StatusLine == INSTANCE StatusLine WITH
    Uploads <- Uploads, Buffer <- FeedCap, Size <- Size, Step <- Step, Percent <- Percent,
    MaxChanges <- MaxChanges, writable <- v1, large <- v2, readOnly <- v3, warned <- v4,
    listening <- v5, feed <- v6, missed <- v7, bar <- v8, stage <- v9, bytes <- v10,
    emitted <- v11, changes <- v12

\* Two people typing in two chats.
Typing == INSTANCE Typing WITH
    People <- People, Here <- Here, There <- There, MaxNotices <- MaxNotices, open <- v1,
    typing <- v2, sweeps <- v3, notices <- v4

\* Two queries, local and remote answers in any order, closing and reopening.
SearchPane == INSTANCE SearchPane WITH
    Queries <- Queries, Blank <- Blank, Refused <- Refused, PageSize <- PageSize,
    MaxEdits <- MaxEdits, MaxTabs <- MaxTabs, MaxOpens <- MaxReopens, visible <- v1,
    value <- v2, generation <- v3, lastQuery <- v4, hits <- v5, cursor <- v6, failed <- v7,
    loading <- v8, remoteShown <- v9, remoteLoading <- v10, ticks <- v11, calls <- v12,
    jumped <- v13, turns <- v14

MCInit ==
    \/ /\ part = "backfill" /\ Init
       /\ v1 = Nothing /\ v2 = Nothing /\ v3 = Nothing /\ v4 = Nothing /\ v5 = Nothing /\ v6 = Nothing
       /\ v7 = Nothing /\ v8 = Nothing /\ v9 = Nothing /\ v10 = Nothing /\ v11 = Nothing /\ v12 = Nothing
       /\ v13 = Nothing /\ v14 = Nothing /\ v15 = Nothing /\ v16 = Nothing /\ v17 = Nothing
    \/ /\ part = "transfers" /\ Transfers!Init /\ Init
       /\ v11 = Nothing /\ v12 = Nothing /\ v13 = Nothing /\ v14 = Nothing /\ v15 = Nothing /\ v16 = Nothing
       /\ v17 = Nothing
    \/ /\ part = "recovery" /\ Recovery!Init /\ Init
    \/ /\ part = "status" /\ StatusLine!Init /\ Init
       /\ v13 = Nothing /\ v14 = Nothing /\ v15 = Nothing /\ v16 = Nothing /\ v17 = Nothing
    \/ /\ part = "typing" /\ Typing!Init /\ Init
       /\ v5 = Nothing /\ v6 = Nothing /\ v7 = Nothing /\ v8 = Nothing /\ v9 = Nothing /\ v10 = Nothing
       /\ v11 = Nothing /\ v12 = Nothing /\ v13 = Nothing /\ v14 = Nothing /\ v15 = Nothing /\ v16 = Nothing
       /\ v17 = Nothing
    \/ /\ part = "search" /\ SearchPane!Init /\ Init
       /\ v15 = Nothing /\ v16 = Nothing /\ v17 = Nothing

MCSteps ==
    \/ part = "backfill" /\ Next
       /\ UNCHANGED <<v1, v2, v3, v4, v5, v6, v7, v8, v9, v10, v11, v12, v13, v14, v15, v16,
                      v17>>
    \/ part = "transfers" /\ Transfers!Next /\ UNCHANGED <<v11, v12, v13, v14, v15, v16, v17, vars>>
    \/ part = "recovery" /\ Recovery!Next /\ UNCHANGED <<vars>>
    \/ part = "status" /\ StatusLine!Next /\ UNCHANGED <<v13, v14, v15, v16, v17, vars>>
    \/ part = "typing" /\ Typing!Next
       /\ UNCHANGED <<v5, v6, v7, v8, v9, v10, v11, v12, v13, v14, v15, v16, v17, vars>>
    \/ part = "search" /\ SearchPane!Next /\ UNCHANGED <<v15, v16, v17, vars>>

MCNext == MCSteps /\ UNCHANGED part

transfersVars == Transfers!vars
recoveryVars == Recovery!recoveryVars
statusLineVars == StatusLine!vars
typingVars == Typing!typingVars
searchPaneVars == SearchPane!vars

\* The fairness each component states.
MCFairness ==
    /\ WF_vars(part = "backfill" /\ Enqueueing)
    /\ WF_vars(part = "backfill" /\ Draining)
    /\ \A f \in Files : WF_transfersVars(part = "transfers" /\ Transfers!Download(f))
    /\ WF_transfersVars(part = "transfers" /\ Transfers!BroadcastBusEvent)
    /\ WF_recoveryVars(part = "recovery" /\ Recovery!Recovers)
    /\ WF_recoveryVars(part = "recovery" /\ Recovery!Persist)
    /\ WF_statusLineVars(part = "status" /\ StatusLine!CheckWriteAccess)
    /\ WF_statusLineVars(part = "status" /\ StatusLine!HandleEvent)
    /\ WF_typingVars(part = "typing" /\ Typing!SweepTyping)
    /\ WF_typingVars(part = "typing" /\ Typing!Passes)
    /\ WF_searchPaneVars(part = "search" /\ SearchPane!ApplyResults)
    /\ WF_searchPaneVars(part = "search" /\ \E g \in v11 : SearchPane!ApplyDebounceTick(g))

MCSpec == MCInit /\ [][MCNext]_state /\ MCFairness

-----------------------------------------------------------------------------
\* What stands under a final name, or is recorded, was downloaded whole (Store.SaveStream).
OnlyWholeFiles == part = "transfers" => Transfers!OnlyWholeFiles

\* With every event handled and none lost, the rows are the transfers under way.
RowsAreTransfers == part = "transfers" => Transfers!RowsAreTransfers

\* A download that was asked for ends and frees its place (Downloader).
DownloadsEnd ==
    LET Busy(f) == part = "transfers" /\ Transfers!Busy(f)
    IN  \A f \in Files : Busy(f) ~> ~Busy(f)

\* Nobody works on a closed database, and none is left open behind (Build, Close).
DatabaseOwned == part = "recovery" => Recovery!DatabaseOwned

\* A stored position is never ahead of what was handed on (state_repo.go).
PtsFollowsDelivery == part = "recovery" => Recovery!PtsFollowsDelivery

\* An update missed while offline is fetched once a session runs again (RunManager).
GapsClose ==
    <>[](part = "recovery" /\ Recovery!Connected) => <>[](part = "recovery" => Recovery!CaughtUp)

\* The cells show what was last said to them, each its own (broadcastBusEvent, app/update.go).
BarShowsWhatItHeard == part = "status" => StatusLine!BarShowsWhatItHeard

\* An upload row means an upload that runs, or an end that is on its way or was lost.
RowMeansRunning == part = "status" => StatusLine!RowMeansRunning

\* A disk that is writable for good ends the soft read-only mode (degradation.go, ProbeWrite).
SoftModeHeals ==
    <>[](part = "status" /\ StatusLine!Healed) => <>[](part = "status" => StatusLine!CanWrite)

\* A typing notice that is not repeated disappears (sweep of typing.go).
TypingEnds == []<>(part = "typing" => Typing!NobodyTypes)

\* The cursor is on one of the hits shown (applyLocalResults).
CursorOnAHit == part = "search" => SearchPane!CursorOnAHit

\* Remote hits that appear answer what the field says now (generations of search/update.go).
RemoteAnswersTheField == part = "search" => SearchPane!RemoteAnswersTheField

\* The overlay stops saying that it searches (model.go, loading).
SpinnerStops ==
    (part = "search" /\ SearchPane!Searching) ~> ~(part = "search" /\ SearchPane!Searching)

-----------------------------------------------------------------------------
\* What the run checks: the above by theme, each component with its type invariant.

\* What the program says of its work, on screen and in its tables, is so: whole files,
\* transfers that run, modes as reported, a cursor on a hit, positions of updates that were
\* handed on, an open database (files, statusbar, panes/search, state_repo.go, wire.go).
ToldTruthfully ==
    /\ part = "transfers" => Transfers!TypeOK
    /\ part = "recovery" => Recovery!TypeOK
    /\ part = "status" => StatusLine!TypeOK
    /\ part = "typing" => Typing!TypeOK
    /\ part = "search" => SearchPane!TypeOK
    /\ OnlyWholeFiles /\ RowsAreTransfers /\ DatabaseOwned
    /\ PtsFollowsDelivery /\ BarShowsWhatItHeard /\ RowMeansRunning
    /\ CursorOnAHit

\* An answer that is taken for current is: an answered request has caught the chat up, and
\* remote hits belong to the text in the field (history.go, panes/search/update.go).
AnswersAreCurrent == [][CaughtUpOutsideWindow /\ RemoteAnswersTheField]_state

\* What the user waits for comes to an end: opened chats, downloads, typing notices and
\* searches (backfill.go, download.go, typing.go, panes/search).
WorkEnds ==
    /\ OpensAnswered /\ DownloadsEnd /\ TypingEnds
    /\ SpinnerStops

\* An outage that is over leaves nothing behind: gaps are fetched and a writable disk is
\* written to again (RunManager, degradation.go).
OutagesHeal ==
    /\ GapsClose /\ SoftModeHeals
=============================================================================
