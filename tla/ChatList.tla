------------------------------- MODULE ChatList -------------------------------
(***************************************************************************)
(* The chat list (ui/panes/chats): rows read from the mirror after a       *)
(* debounce, folder tabs and the archive, the cursor, the filter and the   *)
(* mouse.  The list widget is external: it keeps items, the index of the   *)
(* cursor, a filter whose matches come later, and pages by height.         *)
(***************************************************************************)
EXTENDS Integers, Sequences, FiniteSets, SequencesExt

CONSTANTS Chats, NoChat,
          Folders,               \* the account's folders, each a set of chats
          Height,                \* rows of the pane
          MaxChanges,            \* bound: writes to the chats table
          MaxMoves               \* bound: what the user does to the list

VARIABLES
    table,      \* chats table in the order of sortChatItems, and who is archived
    pending,    \* a message LiveService has not stored yet, its event published
    events,     \* events for the pane, not handled
    armed,      \* the newest debounce tick has not fired
    asked,      \* loads that have not read the table
    results,    \* loads that have, in the order they read
    \* What the property compares with:
    overtaken,  \* an older read was installed last, or read before a write
    swallowed,  \* an overlay or the bus took what the last reload was to come from
    rows,       \* Model.chats
    folders, tab,                \* tab: a folder's index, All or Archive
    room,       \* the height given to the list
    items,      \* the list's items
    filter,     \* "off", "typing" or "on"
    matched,    \* the items the filter shows
    index,      \* the list's cursor, from 0
    edits, moves

list == <<items, filter, matched, index>>
pane == <<rows, folders, tab, room, list>>
loading == <<events, armed, asked, results, overtaken, swallowed>>
chatListVars == <<table, pending, loading, pane, edits, moves>>

All == -1
Archive == -2
NoRows == [order |-> <<>>, archived |-> {}]
Tables == [order : SeqOf(Chats, Cardinality(Chats)), archived : SUBSET Chats]

TypeOK ==
    /\ table \in Tables /\ rows \in Tables /\ pending \in Chats \cup {NoChat}
    /\ events \in Nat /\ armed \in BOOLEAN /\ asked \in Nat /\ {overtaken, swallowed} \subseteq BOOLEAN
    /\ results \in Seq(Tables)
    /\ folders \in {<<>>, Folders} /\ tab \in {All, Archive} \cup 0 .. Len(Folders) - 1
    /\ room \in Nat /\ items \in Seq(Chats) /\ matched \in Seq(Chats)
    /\ filter \in {"off", "typing", "on"} /\ index \in Nat
    /\ edits \in 0 .. MaxChanges /\ moves \in 0 .. MaxMoves

-----------------------------------------------------------------------------
(* What is shown.                                                          *)

HasArchive(t) == \E c \in Range(t.order) : c \in t.archived
StripShown(fs, t) == fs # <<>> \/ HasArchive(t)
ListRoom(fs, t) == Height - 1 - IF StripShown(fs, t) THEN 1 ELSE 0

\* visibleChats: the folders here exclude archived chats.
Visible(t, fs, i) ==
    LET Shows(c) == IF i = Archive THEN c \in t.archived
                    ELSE c \notin t.archived /\ (i = All \/ c \in fs[i + 1])
    IN  SelectSeq(t.order, Shows)

VisibleItems == IF filter = "off" THEN items ELSE matched
Selected == IF index < Len(VisibleItems) THEN VisibleItems[index + 1] ELSE NoChat

\* External: the index stays if it can.
Kept(i, n) == IF i < n \/ n = 0 THEN {i} ELSE 0 .. n - 1

ItemRows == 3                    \* two lines and the spacing
PerPage == IF room - 1 < ItemRows THEN 1 ELSE (room - 1) \div ItemRows
Page == index \div PerPage

\* Mutant: the page is not counted in.
ItemIndexAt_FirstPage(row) ==
    LET body == row - 2
        idx == body \div ItemRows
    IN  IF body < 0 \/ body \div ItemRows >= PerPage \/ idx >= Len(VisibleItems) THEN -1 ELSE idx

\* mouse.go: the header and the list's own chrome line lie above the first item.
ItemIndexAt(row) ==
    LET body == row - 2
        idx == Page * PerPage + body \div ItemRows
    IN  IF body < 0 \/ body \div ItemRows >= PerPage \/ idx >= Len(VisibleItems) THEN -1 ELSE idx

\* view.go: the header, the tab strip if there is one, then the list.
DrawnAt(row) ==
    LET body == row - 2 - IF StripShown(folders, rows) THEN 1 ELSE 0
        idx == Page * PerPage + body \div ItemRows
    IN  IF body < 0 \/ body \div ItemRows >= PerPage \/ idx >= Len(VisibleItems) THEN -1 ELSE idx

Init ==
    /\ table = [order |-> SetToSeq(Chats), archived |-> {}] /\ pending = NoChat
    /\ events = 0 /\ armed = FALSE /\ asked = 1 /\ results = <<>> /\ overtaken = FALSE /\ swallowed = FALSE
    /\ rows = NoRows /\ folders = <<>> /\ tab = All /\ room = Height - 1
    /\ items = <<>> /\ filter = "off" /\ matched = <<>> /\ index = 0
    /\ edits = 0 /\ moves = 0

-----------------------------------------------------------------------------
(* The table, and the way to the pane.                                     *)

Write(t) ==
    /\ edits < MaxChanges /\ edits' = edits + 1 /\ table' = t
    /\ events' = events + 1
    /\ UNCHANGED <<pending, armed, asked, results, overtaken, swallowed, pane, moves>>

OnTop(c) == [table EXCEPT !.order = <<c>> \o SelectSeq(@, LAMBDA d : d # c)]

\* DialogUpdated comes after the write it reports.
ChatMoves(c) == c \in Range(table.order) /\ Write(OnTop(c))
ChatAdded(c) == c \notin Range(table.order) /\ Write(OnTop(c))
ChatGone(c) ==
    /\ c \in Range(table.order)
    /\ Write([order |-> SelectSeq(table.order, LAMBDA d : d # c), archived |-> table.archived \ {c}])
ArchiveChanges(c) ==
    /\ c \in Range(table.order)
    /\ Write([table EXCEPT !.archived = IF c \in @ THEN @ \ {c} ELSE @ \cup {c}])

\* MessageReceived goes to the pane and to LiveService at once.
MessageReceived(c) ==
    /\ edits < MaxChanges /\ edits' = edits + 1
    /\ pending = NoChat /\ c \in Range(table.order) /\ pending' = c
    /\ events' = events + 1
    /\ UNCHANGED <<table, armed, asked, results, overtaken, swallowed, pane, moves>>

LiveStores ==
    /\ pending # NoChat /\ pending' = NoChat
    /\ table' = IF pending \in Range(table.order) THEN OnTop(pending) ELSE table
    /\ overtaken' = (overtaken \/ (events = 0 /\ ~armed /\ asked = 0))
    /\ UNCHANGED <<events, armed, asked, results, swallowed, pane, edits, moves>>

\* Mutant: an event while a tick is armed is dropped with the old tick.
ScheduleReload_Drops ==
    /\ events > 0 /\ events' = events - 1 /\ armed' = ~armed
    /\ UNCHANGED <<table, pending, asked, results, overtaken, swallowed, pane, edits, moves>>

ScheduleReload ==
    /\ events > 0 /\ events' = events - 1 /\ armed' = TRUE
    /\ UNCHANGED <<table, pending, asked, results, overtaken, swallowed, pane, edits, moves>>

ApplyDebouncedReload ==
    /\ armed /\ armed' = FALSE /\ asked' = asked + 1
    /\ UNCHANGED <<table, pending, events, results, overtaken, swallowed, pane, edits, moves>>

\* loadCmd, in the background.
LoadReads ==
    /\ asked > 0 /\ asked' = asked - 1 /\ results' = Append(results, table)
    /\ overtaken' = FALSE /\ swallowed' = FALSE
    /\ UNCHANGED <<table, pending, events, armed, pane, edits, moves>>

\* App.update hands the tick, the rows and a deletion to an overlay that is open, and the bus
\* drops an event when the subscription is full.
MissEvent ==
    /\ events > 0 /\ events' = events - 1 /\ swallowed' = TRUE
    /\ UNCHANGED <<table, pending, armed, asked, results, overtaken, pane, edits, moves>>

SwallowTick ==
    /\ armed /\ armed' = FALSE /\ swallowed' = TRUE
    /\ UNCHANGED <<table, pending, events, asked, results, overtaken, pane, edits, moves>>

-----------------------------------------------------------------------------
(* applyLoaded: rows, tab, room, items and cursor, in this order.          *)

\* The chat under the cursor is looked for only without a filter.
Install(t, fs, i) ==
    LET at == IF i = Archive /\ ~HasArchive(t) THEN All ELSE i
        new == Visible(t, fs, at)
        want == IF filter = "off" THEN Selected ELSE NoChat
    IN  /\ rows' = t /\ folders' = fs /\ tab' = at
        /\ room' = ListRoom(fs, t) /\ items' = new
        /\ IF want \in Range(new)
           THEN index' = (CHOOSE k \in 1 .. Len(new) : new[k] = want) - 1
           ELSE index' \in Kept(index, Len(new))
        /\ matched' = <<>>
        /\ UNCHANGED filter

\* Mutant: the tab of an archive that emptied stays.
InstallLoaded_KeepsTab(t) ==
    /\ rows' = t /\ folders' = folders /\ tab' = tab
    /\ room' = ListRoom(folders, t) /\ items' = Visible(t, folders, tab)
    /\ index' \in Kept(index, Len(items')) /\ matched' = <<>> /\ UNCHANGED filter

\* Mutant: the cursor stays on the index.
InstallLoaded_KeepsIndex(t) ==
    /\ rows' = t /\ folders' = folders
    /\ tab' = IF tab = Archive /\ ~HasArchive(t) THEN All ELSE tab
    /\ room' = ListRoom(folders, t) /\ items' = Visible(t, folders, tab')
    /\ index' \in Kept(index, Len(items')) /\ matched' = <<>> /\ UNCHANGED filter

\* Mutant: the list keeps its height when the strip comes or goes.
InstallLoaded_KeepsRoom(t) ==
    /\ rows' = t /\ folders' = folders
    /\ tab' = IF tab = Archive /\ ~HasArchive(t) THEN All ELSE tab
    /\ items' = Visible(t, folders, tab')
    /\ index' \in Kept(index, Len(items')) /\ matched' = <<>> /\ UNCHANGED <<filter, room>>

InstallLoaded(t) == Install(t, folders, tab)

\* Two loads may come back in either order.
ApplyLoaded(k) ==
    /\ k \in 1 .. Len(results) /\ InstallLoaded(results[k])
    /\ results' = RemoveAt(results, k) /\ overtaken' = (overtaken \/ k > 1)
    /\ UNCHANGED <<table, pending, events, armed, asked, swallowed, edits, moves>>

SwallowLoaded(k) ==
    /\ k \in 1 .. Len(results) /\ results' = RemoveAt(results, k)
    /\ swallowed' = (swallowed \/ k = Len(results))
    /\ UNCHANGED <<table, pending, events, armed, asked, overtaken, pane, edits, moves>>

LoadFails ==
    /\ asked > 0 /\ moves < MaxMoves /\ moves' = moves + 1 /\ asked' = asked - 1 /\ overtaken' = TRUE
    /\ UNCHANGED <<table, pending, events, armed, results, swallowed, pane, edits>>

\* Folders are loaded once; the tab starts over unless its folder is still there.
SetFolders ==
    /\ folders = <<>> /\ Folders # <<>>
    /\ Install(rows, Folders, All)
    /\ UNCHANGED <<table, pending, loading, edits, moves>>

-----------------------------------------------------------------------------
(* The user.                                                               *)

Move == moves < MaxMoves /\ moves' = moves + 1
Still == UNCHANGED <<table, pending, loading, edits>>

Tabs == <<All>> \o [i \in 1 .. Len(folders) |-> i - 1] \o IF HasArchive(rows) THEN <<Archive>> ELSE <<>>
TabPosition == CHOOSE p \in 1 .. Len(Tabs) : Tabs[p] = tab

MoveFolder(delta) ==
    /\ StripShown(folders, rows) /\ Move
    /\ Install(rows, folders, Tabs[((TabPosition - 1 + delta) % Len(Tabs)) + 1]) /\ Still

SelectFolder(n) == n \in 1 .. Len(Tabs) /\ Move /\ Install(rows, folders, Tabs[n]) /\ Still

SelectTo(k) ==
    /\ k \in 0 .. Len(VisibleItems) - 1 /\ Move /\ index' = k /\ Still
    /\ UNCHANGED <<rows, folders, tab, room, items, filter, matched>>

ScrollBy(delta) == LET k == index + delta IN
    SelectTo(IF k < 0 THEN 0 ELSE IF k >= Len(VisibleItems) THEN Len(VisibleItems) - 1 ELSE k)
CycleSelection(delta) == VisibleItems # <<>> /\ SelectTo((index + delta) % Len(VisibleItems))
SelectNth(n) == SelectTo(n - 1)
SelectAt(row) == ItemIndexAt(row) >= 0 /\ SelectTo(ItemIndexAt(row))

\* External: '/' types a filter, its matches come in a message of their own.
Filter ==
    /\ filter = "off" /\ items # <<>> /\ Move /\ filter' = "typing" /\ matched' = items /\ index' = 0 /\ Still
    /\ UNCHANGED <<rows, folders, tab, room, items>>

FilterMatches ==
    /\ filter # "off" /\ matched' \in {SelectSeq(items, LAMBDA c : c \in s) : s \in SUBSET Range(items)}
    /\ matched' # matched /\ Move /\ index' \in Kept(index, Len(matched')) /\ Still
    /\ UNCHANGED <<rows, folders, tab, room, items, filter>>

FilterEnds ==
    /\ filter # "off" /\ filter' \in {"off", "on"} \ {filter} /\ Move /\ Still
    /\ index' = 0 /\ matched' = IF filter' = "off" THEN <<>> ELSE matched
    /\ UNCHANGED <<rows, folders, tab, room, items>>

-----------------------------------------------------------------------------
Next ==
    \/ \E c \in Chats : ChatMoves(c) \/ ChatAdded(c) \/ ChatGone(c) \/ ArchiveChanges(c) \/ MessageReceived(c)
    \/ LiveStores \/ ScheduleReload \/ ApplyDebouncedReload \/ LoadReads \/ LoadFails \/ SetFolders
    \/ MissEvent \/ SwallowTick \/ \E k \in 1 .. Len(results) : ApplyLoaded(k) \/ SwallowLoaded(k)
    \/ \E d \in {-1, 1} : MoveFolder(d) \/ ScrollBy(d) \/ CycleSelection(d)
    \/ \E n \in 1 .. Len(Tabs) : SelectFolder(n)
    \/ \E n \in 1 .. Len(VisibleItems) : SelectNth(n)
    \/ \E row \in 0 .. Height - 1 : SelectAt(row)
    \/ Filter \/ FilterMatches \/ FilterEnds

Spec == Init /\ [][Next]_chatListVars

-----------------------------------------------------------------------------
Settled == events = 0 /\ ~armed /\ asked = 0 /\ results = <<>> /\ pending = NoChat

\* What the debounce puts off comes: when all is quiet the pane shows the table, unless an
\* older read was installed after a newer one or before the write it was for, or an overlay or
\* the bus took a part of the last reload.  The next reload that comes through makes up for it.
RowsCatchUp == Settled /\ ~overtaken /\ ~swallowed => rows = table

\* A reload moves the cursor with the chat it is on, as long as that chat is shown.
SelectionFollowsChat ==
    results' # results /\ Len(results') < Len(results) /\ filter = "off" /\ Selected \in Range(items')
     => Selected' = Selected

\* The tab is one the strip shows, and the list fits under the strip.
TabIsShown == tab \in Range(Tabs)
ListFits == 1 + (IF StripShown(folders, rows) THEN 1 ELSE 0) + room = Height

\* A click opens the chat drawn under it, on every page (ItemIndexAt).
ClicksHitWithoutStrip ==
    ~StripShown(folders, rows) =>
        \A row \in 0 .. Height - 1 : DrawnAt(row) # -1 => ItemIndexAt(row) = DrawnAt(row)

-----------------------------------------------------------------------------
(* What the source says and the code does not do.  README.md names the     *)
(* instance that refutes each of these.                                    *)

\* "A click on the blank spacing row under an item counts as that item: it is the
\* row the user sees as part of it" (mouse.go): with a tab strip it is the next one.
ClicksHit == \A row \in 0 .. Height - 1 : DrawnAt(row) # -1 => ItemIndexAt(row) = DrawnAt(row)

\* "Either should bubble the chat to the top of the list" (update.go): not under an overlay,
\* which takes the tick or the rows, and nothing asks for them again.
ReloadsArrive == Settled /\ ~overtaken => rows = table

\* "there is no need to republish a DialogUpdated here" (live.go, persist): the
\* reload an event starts may read the table before LiveService wrote to it.
MessagesReachList == Settled => rows = table
=============================================================================
