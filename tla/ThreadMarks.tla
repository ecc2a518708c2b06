------------------------------ MODULE ThreadMarks ------------------------------
(***************************************************************************)
(* What is picked out in the thread pane (ui/panes/thread, cursor.go,      *)
(* marks.go, selection.go, unread.go): the message cursor, the marks, the  *)
(* text dragged over with the mouse and the line that says where reading   *)
(* stopped.  The cursor and the marks are ids, looked up in the rows on    *)
(* screen when they are needed; the highlight is two cells of the drawn    *)
(* text.  Rows come and go under all of them, and the ids of two chats     *)
(* coincide.                                                               *)
(*                                                                         *)
(* How the rows are loaded is ThreadWindow's matter.  A drawn row is one   *)
(* line, two for the ids in Tall, each of them Width cells; the rows sent  *)
(* and not confirmed, the pictures and the scroll offset are left out.     *)
(***************************************************************************)
EXTENDS Places, SequencesExt

CONSTANTS Chats, First,       \* the chats, and the one on screen at the start
          Newest,             \* ids of a chat are 1 .. Newest
          Mirrored, ReadTo,   \* ids up to these are in the mirror, are read
          Mine, Tall,         \* ids sent by the user, ids drawn on two lines
          PageSize, Width,
          Lines,              \* where the pointer goes, in the body and past its end
          MaxHands, MaxNews   \* bounds: gestures, changes from elsewhere

VARIABLES
    held,           \* chat -> ids in the mirror
    latest, read,   \* chat -> newest id announced, newest id acknowledged
    chat,           \* the chat on screen
    messages,       \* ids drawn, in order
    loading,
    cursorAt,       \* cursorID, NoRef for zero
    marked,
    unreadCount, unreadFrom,
    sel,            \* the highlight: <<>>, or its two ends
    dragCache,      \* <<>>, or the body as it was when the button went down
    dragging,       \* App.draggingText
    prompt,         \* pendingDelete, the chat and its ids: <<>> for none
    deleted,        \* what has been asked of the server
    \* What the properties compare with:
    meant,          \* what was pointed out when a deletion was asked for
    grabbed,        \* the message under the pointer when the button went down
    boundary,       \* the first message unread when the chat was opened
    sure,           \* the page that was loaded had all that was unread at the open
    hands, news

rows == <<messages, loading, unreadCount, unreadFrom, boundary, sure>>
picked == <<cursorAt, marked>>
light == <<sel, dragCache, dragging, grabbed>>
ask == <<prompt, deleted, meant>>
outside == <<held, latest, read, news>>
vars == <<outside, chat, rows, picked, light, ask, hands>>

Ids == 1 .. Newest
\* The code keeps the id alone; of is the chat it was picked in.
Ref(c, id) == [of |-> c, id |-> id]
Refs == [of : Chats, id : Ids]
NoRef == [of |-> First, id |-> 0]
Shown == ToSet(messages)

-----------------------------------------------------------------------------
(* The drawn body.                                                         *)

\* A separator or a row ends with an empty line; the body starts with a day.
Above(seq, i) == 2 * i + Cardinality({j \in 1 .. i - 1 : seq[j] \in Tall})
RuleAbove(seq, i) == \E j \in 1 .. i : seq[j] = unreadFrom
SpanOf(seq, i) ==
    LET start == Above(seq, i) + IF RuleAbove(seq, i) THEN 2 ELSE 0
    IN  [id |-> seq[i], start |-> start, end |-> start + IF seq[i] \in Tall THEN 2 ELSE 1]

RenderContent ==
    IF dragCache # <<>> THEN dragCache[1]
                        ELSE [i \in 1 .. Len(messages) |-> SpanOf(messages, i)]

LastLine(spans) == IF spans = <<>> THEN 0 ELSE spans[Len(spans)].end - 1
SpanIndexAt(spans, line) ==
    SelectInSeq(spans, LAMBDA s : s.start <= line /\ line < s.end)
\* The separators are as wide as the rows are.
Blank(spans, line) ==
    \/ spans = <<>>
    \/ SpanIndexAt(spans, line) = 0
         /\ (line = 1 \/ SpanIndexAt(spans, line - 1) # 0 \/ SpanIndexAt(spans, line + 1) # 0)
LineWidth(spans, line) == IF Blank(spans, line) THEN 0 ELSE Width

Cell(line, col) == [line |-> line, col |-> col]
Cells == [line : Int, col : 0 .. Width]
Before(a, b) == a.line < b.line \/ (a.line = b.line /\ a.col < b.col)
Least(m, n) == IF m < n THEN m ELSE n
ClampCell(spans, c) ==
    LET line == IF c.line < 0 THEN 0 ELSE Least(c.line, LastLine(spans))
    IN  Cell(line, Least(c.col, LineWidth(spans, line)))

\* Mutant: a drag upwards keeps its ends the wrong way round.
ResolveSelection_AsDragged(s, spans) ==
    LET start == ClampCell(spans, s.anchor)
        end == ClampCell(spans, s.cursor)
        from == SpanIndexAt(spans, start.line)
        to == SpanIndexAt(spans, end.line)
    IN  IF from = 0 \/ to = 0 \/ from = to THEN <<start, end>>
        ELSE <<Cell(spans[from].start, 0),
               Cell(spans[to].end - 1, LineWidth(spans, spans[to].end - 1))>>

\* resolveSelection: a drag from one message into another takes both whole.
ResolveSelection(s, spans) ==
    LET back == Before(s.cursor, s.anchor)
        start == ClampCell(spans, IF back THEN s.cursor ELSE s.anchor)
        end == ClampCell(spans, IF back THEN s.anchor ELSE s.cursor)
        from == SpanIndexAt(spans, start.line)
        to == SpanIndexAt(spans, end.line)
    IN  IF from = 0 \/ to = 0 \/ from = to THEN <<start, end>>
        ELSE <<Cell(spans[from].start, 0),
               Cell(spans[to].end - 1, LineWidth(spans, spans[to].end - 1))>>

\* selectionText has something to say.
TextOf(s, spans) ==
    LET r == ResolveSelection(s, spans)
    IN  Before(r[1], r[2])


-----------------------------------------------------------------------------
(* The cursor and the marks.                                               *)

CursorIndex == IF cursorAt.id = 0 THEN 0 ELSE SelectInSeq(messages, LAMBDA n : n = cursorAt.id)
CursorMessage == IF CursorIndex # 0 THEN messages[CursorIndex] ELSE messages[Len(messages)]
Marked == {n \in Shown : \E r \in marked : r.id = n}
Targets == IF messages = <<>> THEN {} ELSE IF Marked # {} THEN Marked ELSE {CursorMessage}
\* renderContent: the row drawn with the cursor's marker, 0 for none.
MarkerOn ==
    IF messages = <<>> THEN 0
    ELSE IF cursorAt.id = 0 THEN messages[Len(messages)]
    ELSE IF cursorAt.id \in Shown THEN cursorAt.id ELSE 0

TypeOK ==
    /\ held \in [Chats -> SUBSET Ids] /\ latest \in [Chats -> 0 .. Newest] /\ read \in [Chats -> 0 .. Newest]
    /\ chat \in Chats /\ {loading, dragging, sure} \subseteq BOOLEAN
    /\ cursorAt \in Refs \cup {NoRef} /\ marked \subseteq Refs
    /\ unreadCount \in 0 .. Newest /\ unreadFrom \in 0 .. Newest /\ boundary \in 0 .. Newest
    /\ deleted \subseteq Refs /\ meant \subseteq Refs /\ grabbed \in 0 .. Newest
    /\ messages \in Seq(Ids)
    /\ sel \in {<<>>} \cup [anchor : Cells, cursor : Cells]
    /\ dragCache \in Seq(Seq([id : Ids, start : Nat, end : Nat])) /\ Len(dragCache) <= 1
    /\ prompt \in {<<>>} \cup [in : Chats, ids : SUBSET Ids]

Unread(c) == {n \in held[c] : n > read[c] /\ n \notin Mine}
Lowest(S) == IF S = {} THEN 0 ELSE CHOOSE n \in S : \A k \in S : n <= k

Init ==
    /\ held = [c \in Chats |-> 1 .. Mirrored] /\ latest = [c \in Chats |-> Mirrored]
    /\ read = [c \in Chats |-> ReadTo] /\ chat = First /\ messages = <<>> /\ loading = TRUE
    /\ cursorAt = NoRef /\ marked = {} /\ unreadFrom = 0
    /\ unreadCount = Cardinality(Unread(First)) /\ boundary = Lowest(Unread(First))
    /\ sel = <<>> /\ dragCache = <<>> /\ dragging = FALSE
    /\ prompt = <<>> /\ deleted = {} /\ meant = {}
    /\ grabbed = 0 /\ sure = (boundary # 0) /\ hands = 0 /\ news = 0

Hand == hands < MaxHands /\ hands' = hands + 1

\* dropSelection.
DropSelection ==
    sel' = <<>> /\ dragCache' = <<>> /\ cursorAt' = NoRef /\ marked' = {}

\* Mutant: the body is replaced and what was picked out in it is kept.
OpenChat_KeepsPicked(c) ==
    /\ Hand /\ chat' = c /\ messages' = <<>> /\ loading' = TRUE
    /\ unreadCount' = Cardinality(Unread(c)) /\ unreadFrom' = 0
    /\ boundary' = Lowest(Unread(c)) /\ sure' = (Unread(c) # {})
    /\ UNCHANGED <<outside, ask, picked, light>>

\* handleChatPicked: OpenChat, then MarkUnread with the count of the chat's row.
OpenChat(c) ==
    /\ Hand /\ chat' = c /\ messages' = <<>> /\ loading' = TRUE
    /\ DropSelection /\ UNCHANGED <<dragging, grabbed>>
    /\ unreadCount' = Cardinality(Unread(c)) /\ unreadFrom' = 0
    /\ boundary' = Lowest(Unread(c)) /\ sure' = (Unread(c) # {})
    /\ UNCHANGED <<outside, ask>>

\* Mutant: the user's own messages count as unread.
LocateUnread_CountsMine(page) ==
    IF unreadCount = 0 \/ page = <<>> THEN 0
    ELSE IF unreadCount > Len(page) THEN page[1] ELSE page[Len(page) - unreadCount + 1]

\* locateUnread: back over the rows to the last one the count covers.
LocateUnread(page) ==
    LET theirs(i) == {j \in i .. Len(page) : page[j] \notin Mine}
        stops == {i \in theirs(1) : Cardinality(theirs(i)) = unreadCount}
    IN  IF unreadCount = 0 \/ page = <<>> THEN 0
        ELSE IF stops = {} THEN page[1] ELSE page[CHOOSE i \in stops : TRUE]

\* applyLoaded.
LoadLands ==
    /\ loading /\ loading' = FALSE
    /\ messages' = NewestOf(held[chat], PageSize)
    /\ unreadFrom' = LocateUnread(messages')
    /\ sure' = (sure /\ boundary \in ToSet(messages'))
    /\ UNCHANGED <<outside, chat, unreadCount, boundary, picked, light, ask, hands>>

\* applyPagination.
OlderPage ==
    LET older == NewestOf({n \in held[chat] : n < messages[1]}, PageSize)
    IN  /\ Hand /\ ~loading /\ messages # <<>> /\ older # <<>>
        /\ messages' = older \o messages
        /\ UNCHANGED <<outside, chat, loading, unreadCount, unreadFrom, boundary, sure,
                       picked, light, ask>>

-----------------------------------------------------------------------------
(* What happens elsewhere: a message comes, is deleted, a chat is read.    *)

New == news < MaxNews /\ news' = news + 1
Stirs(c) == sure' = (sure /\ ~(c = chat /\ loading))

Arrives(c) ==
    /\ New /\ latest[c] < Newest
    /\ latest' = [latest EXCEPT ![c] = @ + 1]
    /\ held' = [held EXCEPT ![c] = @ \cup {latest[c] + 1}]
    /\ messages' = IF c = chat THEN Append(messages, latest[c] + 1) ELSE messages
    /\ Stirs(c)
    /\ UNCHANGED <<read, chat, loading, unreadCount, unreadFrom, boundary, picked, light, ask, hands>>

DeletedElsewhere(c, id) ==
    /\ New /\ id \in held[c]
    /\ held' = [held EXCEPT ![c] = @ \ {id}]
    /\ messages' = IF c = chat THEN Without(messages, id) ELSE messages
    /\ sure' = (sure /\ ~(c = chat /\ (loading \/ id = boundary)))
    /\ UNCHANGED <<latest, read, chat, loading, unreadCount, unreadFrom, boundary, picked, light, ask, hands>>

\* The open chat is acknowledged some time after it was opened.
Acknowledged ==
    /\ read[chat] # latest[chat] /\ read' = [read EXCEPT ![chat] = latest[chat]]
    /\ UNCHANGED <<held, latest, news, chat, rows, picked, light, ask, hands>>

-----------------------------------------------------------------------------
(* Keys.  While the prompt is up it has them all.                          *)

Keys == Hand /\ prompt = <<>>
Clamp(i) == IF i < 1 THEN 1 ELSE Least(i, Len(messages))

\* The first step from a cursor that is not placed is the placing.
MoveCursor(delta) ==
    LET from == IF CursorIndex # 0 THEN CursorIndex + delta
                ELSE IF delta > 0 THEN Len(messages) ELSE Len(messages) + delta + 1
    IN  /\ Keys /\ messages # <<>>
        /\ cursorAt' = Ref(chat, messages[Clamp(from)])
        /\ UNCHANGED <<outside, chat, rows, marked, light, ask>>

ToggleMark ==
    /\ Keys /\ messages # <<>>
    /\ marked' = IF \E r \in marked : r.id = CursorMessage
                 THEN {r \in marked : r.id # CursorMessage}
                 ELSE marked \cup {Ref(chat, CursorMessage)}
    /\ UNCHANGED <<outside, chat, rows, cursorAt, light, ask>>

\* Esc: ClearMarks and ClearSelection.
Forget ==
    /\ Keys /\ marked' = {} /\ sel' = <<>> /\ dragCache' = <<>>
    /\ UNCHANGED <<outside, chat, rows, cursorAt, dragging, grabbed, ask>>

Copy ==
    /\ Keys /\ Targets # {} /\ marked' = {}
    /\ UNCHANGED <<outside, chat, rows, cursorAt, light, ask>>

\* cmdDeleteTargets.
AskDelete ==
    /\ Keys /\ Targets # {}
    /\ prompt' = [in |-> chat, ids |-> Targets]
    /\ meant' = meant \cup {Ref(chat, n) : n \in Targets}
    /\ UNCHANGED <<outside, chat, rows, picked, light, deleted>>

\* Mutant: the answer is applied to the chat on screen.
Confirm_Here ==
    /\ prompt # <<>> /\ prompt' = <<>>
    /\ deleted' = deleted \cup {Ref(chat, n) : n \in prompt.ids}
    /\ marked' = {}
    /\ UNCHANGED <<outside, chat, rows, cursorAt, light, meant, hands>>

\* handleConfirmKey: an answer that was offered, or any other key.
Confirm ==
    /\ prompt # <<>> /\ prompt' = <<>>
    /\ deleted' = deleted \cup {Ref(prompt.in, n) : n \in prompt.ids}
    /\ marked' = {}
    /\ UNCHANGED <<outside, chat, rows, cursorAt, light, meant, hands>>
Dismiss ==
    /\ prompt # <<>> /\ prompt' = <<>>
    /\ UNCHANGED <<outside, chat, rows, picked, light, deleted, meant, hands>>

-----------------------------------------------------------------------------
(* The mouse.  The prompt does not keep it away (mouse.go, overlayVisible). *)

DrawnAt(at) ==
    LET i == SpanIndexAt(RenderContent, ClampCell(RenderContent, at).line)
    IN  IF i = 0 THEN 0 ELSE RenderContent[i].id
MessageAt(at) == IF messages = <<>> THEN 0 ELSE DrawnAt(at)

\* Mutant: the body is drawn afresh under the drag.
Press_NoSnapshot(at) ==
    /\ Hand /\ ~dragging /\ dragging' = TRUE
    /\ cursorAt' = IF MessageAt(at) # 0 THEN Ref(chat, MessageAt(at)) ELSE cursorAt
    /\ sel' = [anchor |-> at, cursor |-> at]
    /\ grabbed' = DrawnAt(at)
    /\ UNCHANGED <<outside, chat, rows, marked, dragCache, ask>>

\* handleMouseClick in the thread: CursorAt, then StartSelection.
Press(at) ==
    /\ Hand /\ ~dragging /\ dragging' = TRUE
    /\ cursorAt' = IF MessageAt(at) # 0 THEN Ref(chat, MessageAt(at)) ELSE cursorAt
    /\ dragCache' = <<RenderContent>>
    /\ sel' = [anchor |-> at, cursor |-> at]
    /\ grabbed' = DrawnAt(at)
    /\ UNCHANGED <<outside, chat, rows, marked, ask>>

\* ExtendSelection.
Drag(at) ==
    /\ dragging /\ sel # <<>> /\ sel.cursor # at /\ hands < MaxHands /\ hands' = hands + 1
    /\ sel' = [sel EXCEPT !.cursor = at]
    /\ UNCHANGED <<outside, chat, rows, picked, dragCache, dragging, grabbed, ask>>

\* handleMouseRelease: FinishSelection, and a drag over nothing is cleared.
Release ==
    /\ dragging /\ dragging' = FALSE /\ dragCache' = <<>>
    /\ sel' = IF sel # <<>> /\ TextOf(sel, RenderContent) THEN sel ELSE <<>>
    /\ UNCHANGED <<outside, chat, rows, picked, grabbed, ask, hands>>

\* SelectMessageAt: the second press of two on the same cell.
DoublePress(at) ==
    LET i == SpanIndexAt(RenderContent, ClampCell(RenderContent, at).line)
        span == RenderContent[i]
    IN  /\ Hand /\ ~dragging /\ i # 0 /\ messages # <<>>
        /\ sel' = [anchor |-> Cell(span.start, 0),
                   cursor |-> Cell(span.end - 1, LineWidth(RenderContent, span.end - 1))]
        /\ grabbed' = span.id
        /\ UNCHANGED <<outside, chat, rows, picked, dragCache, dragging, ask>>

\* A click in another pane.
ClickAway ==
    /\ Hand /\ ~dragging /\ sel # <<>> /\ sel' = <<>> /\ dragCache' = <<>>
    /\ UNCHANGED <<outside, chat, rows, picked, dragging, grabbed, ask>>

Pointer == {Cell(line, col) : line \in Lines, col \in 0 .. Width}
Next ==
    \/ \E c \in Chats : OpenChat(c) \/ Arrives(c) \/ \E id \in Ids : DeletedElsewhere(c, id)
    \/ LoadLands \/ OlderPage \/ Acknowledged
    \/ \E delta \in {-1, 1} : MoveCursor(delta)
    \/ ToggleMark \/ Forget \/ Copy \/ AskDelete \/ Confirm \/ Dismiss
    \/ \E at \in Pointer : Press(at) \/ Drag(at) \/ DoublePress(at)
    \/ Release \/ ClickAway

Spec == Init /\ [][Next]_vars

-----------------------------------------------------------------------------
(* Properties.                                                             *)

\* The cursor and the marks that are looked up in the rows on screen were
\* placed in this chat: its messages are numbered as those of another are.
NothingCarriedOver ==
    /\ cursorAt # NoRef => cursorAt.of = chat
    /\ \A r \in marked : r.of = chat

\* What is highlighted reads from an earlier line to a later one of the body,
\* whichever way the button was dragged, and never a part of each of two
\* messages (resolveSelection).
WholeOrWithinOne ==
    sel # <<>> /\ RenderContent # <<>> =>
        LET spans == RenderContent
            r == ResolveSelection(sel, spans)
            from == SpanIndexAt(spans, r[1].line)
            to == SpanIndexAt(spans, r[2].line)
        IN  /\ r[1].line <= r[2].line /\ r[2].line <= LastLine(spans)
            /\ from # 0 /\ to # 0 /\ from # to =>
                 /\ r[1] = Cell(spans[from].start, 0)
                 /\ r[2] = Cell(spans[to].end - 1, Width)

\* Nothing that arrives, goes or is loaded while the button is down moves the
\* text under the drag: its start stays on the message it was put on.
DragIsSteady ==
    dragging /\ sel # <<>> => DrawnAt(sel.anchor) = grabbed

\* The divider is above the first message that was unread when the chat was
\* opened, when the page holds all of those and nothing moved before it came.
DividerWhereReadingStopped == sure /\ ~loading => unreadFrom = boundary

\* What the server is asked to delete was marked, or under the cursor, when the
\* prompt came up, in the chat where it came up.
DeletesWhatWasMeant == deleted \subseteq meant

-----------------------------------------------------------------------------
(* What the source says and the code does not do.  README.md names the     *)
(* instance that refutes each of these.                                    *)

\* model.go, renderContent: "An unplaced cursor is drawn on the newest message
\* rather than left invisible: the media chords already act there".  A cursor
\* whose message is gone is drawn nowhere, and the chords act on the newest.
MarkerShowsTarget == messages # <<>> => MarkerOn = CursorMessage

\* marks.go, Targets: "the marked set when there is one, otherwise the message
\* under the cursor".  The last mark deleted elsewhere leaves the cursor's.
TargetsAreMarks == marked # {} => \A n \in Targets : \E r \in marked : r.id = n

\* selection.go, FinishSelection: "The highlight stays until something clears
\* it."  Its cells stay; the message under them changes with a page of history.
HighlightStays == sel # <<>> /\ ~dragging => DrawnAt(sel.anchor) = grabbed

\* app/mouse.go, handleMouseMotion: "a drag that runs past the bottom edge should
\* keep extending, which is what the pane's own clamping to the content does for
\* us".  Down from the last line and to the left of the start, the line is
\* brought back and the column is not: nothing is selected.
KeepsExtending ==
    sel # <<>> /\ Before(sel.anchor, sel.cursor) /\ sel.cursor.line > LastLine(RenderContent)
      /\ DrawnAt(sel.anchor) # 0 /\ sel.anchor.col < LineWidth(RenderContent, sel.anchor.line)
        => TextOf(sel, RenderContent)

\* unread.go: "Messages arriving afterwards go below the line rather than
\* moving it".  Those that arrive before the page is loaded move it.
DividerMissesNothing ==
    ~loading /\ boundary \in Shown /\ unreadCount > 0 => unreadFrom = boundary
=============================================================================
