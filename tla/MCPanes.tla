------------------------------ MODULE MCPanes ------------------------------
(* The chat on screen: the root model's routing, the thread, the composer and *)
(* the rows of sends, each on its own small instance.                      *)
EXTENDS Composer, Integers, TLC

CONSTANTS Sends, Rooms, MaxVisits, MaxLosses, \* SendView
          Handle, MaxAnswers, MaxForwards,    \* Screen
          First, Newest, Mirrored, ReadTo, Mine, Tall, PageSize, Width, Lines, MaxHands,
          MaxNews,                            \* ThreadMarks
          Fetched, Around, Starts, MaxGestures, MaxChanges, MaxCalls   \* ThreadWindow

ASSUME ScreenAssumption ==
    /\ Handle \in Chats /\ MaxAnswers \in Nat /\ MaxForwards \in Nat
ASSUME SendAssumption == MaxVisits \in Nat /\ NoChat \notin Rooms
ASSUME MarksAssumption ==
    /\ First \in Chats /\ Newest \in Nat /\ Mirrored \in 0 .. Newest /\ ReadTo \in 0 .. Newest
    /\ Starts \subseteq SUBSET (1 .. Mirrored)
    /\ PageSize \in Nat /\ Width \in Nat /\ Lines \subseteq Int

VARIABLES part,      \* the component this behaviour is of
          \* its variables, in the order its module declares them
          v1, v2, v3, v4, v5, v6, v7, v8, v9, v10, v11, v12, v13, v14, v15, v16, v17, v18,
          v19, v20, v21

state == <<part, composerVars, v1, v2, v3, v4, v5, v6, v7, v8, v9, v10, v11, v12, v13,
           v14, v15, v16, v17, v18, v19, v20, v21>>

\* The variables a component does not use keep one value.
Nothing == "idle"

\* Two chats and two sends, results and events in any relative order.
SendView == INSTANCE SendView WITH
    Sends <- Sends, Chats <- Rooms, NoChat <- NoChat,
    MaxOpens <- MaxVisits, MaxLosses <- MaxLosses, told <- v1, announced <- v2, mirror <- v3,
    feed <- v4, cmd <- v5, dest <- v6, nameless <- v7, chat <- v8, opens <- v9, dropped <- v10,
    inFlight <- v11, outgoing <- v12, awaiting <- v13, finalized <- v14, messages <- v15,
    loading <- v16, page <- v17

\* Two chats, overlays, late answers of commands, one forward.
Screen == INSTANCE Screen WITH
    Chats <- Chats, NoChat <- NoChat, Handle <- Handle, MaxMail <- MaxAnswers,
    MaxForwards <- MaxForwards, focus <- v1, overlays <- v2, open <- v3, bound <- v4, loading <- v5,
    pendingForward <- v6, pendingDelete <- v7, pendingReaction <- v8, pendingScroll <- v9,
    mail <- v10, armed <- v11, forwards <- v12

\* Four messages, a mirror that is empty or has a gap, pages of one, two gestures, and one
\* deletion or batch of fetched rows, which may fill it.
ThreadWindow == INSTANCE ThreadWindow WITH
    Newest <- Newest, Mirrored <- Mirrored, PageSize <- Fetched, Around <- Around,
    Starts <- Starts, MaxGestures <- MaxGestures, MaxChanges <- MaxChanges,
    MaxCalls <- MaxCalls, mirror <- v1, last <- v2, gone <- v3, feed <- v4,
    here <- v5, shown <- v6, hasMore <- v7, hasNewer <- v8, forward <- v9, loading <- v10,
    calls <- v11, target <- v12, gestures <- v13, changes <- v14,
    swallowed <- v15, late <- v16

\* Two chats, a page of two of three messages, one to come, three hands.
ThreadMarks == INSTANCE ThreadMarks WITH
    Chats <- Chats, First <- First, Newest <- Newest, Mirrored <- Mirrored, ReadTo <- ReadTo,
    Mine <- Mine, Tall <- Tall, PageSize <- PageSize, Width <- Width, Lines <- Lines,
    MaxHands <- MaxHands, MaxNews <- MaxNews, held <- v1, latest <- v2, read <- v3, chat <- v4, messages <- v5,
    loading <- v6, cursorAt <- v7, marked <- v8, unreadCount <- v9, unreadFrom <- v10,
    sel <- v11, dragCache <- v12, dragging <- v13, prompt <- v14, deleted <- v15,
    meant <- v16, grabbed <- v17, boundary <- v18, sure <- v19, hands <- v20, news <- v21

\* One chat is as good as another for the composer to begin with.
MCInit ==
    \/ /\ part = "send" /\ SendView!Init /\ Init /\ chat = First
       /\ v18 = Nothing /\ v19 = Nothing /\ v20 = Nothing /\ v21 = Nothing
    \/ /\ part = "screen" /\ Screen!Init /\ Init /\ chat = First
       /\ v13 = Nothing /\ v14 = Nothing /\ v15 = Nothing /\ v16 = Nothing /\ v17 = Nothing /\ v18 = Nothing
       /\ v19 = Nothing /\ v20 = Nothing /\ v21 = Nothing
    \/ /\ part = "window" /\ ThreadWindow!Init /\ Init /\ chat = First
       /\ v17 = Nothing /\ v18 = Nothing /\ v19 = Nothing /\ v20 = Nothing /\ v21 = Nothing
    \/ /\ part = "composer" /\ Init /\ chat = First
       /\ v1 = Nothing /\ v2 = Nothing /\ v3 = Nothing /\ v4 = Nothing /\ v5 = Nothing /\ v6 = Nothing
       /\ v7 = Nothing /\ v8 = Nothing /\ v9 = Nothing /\ v10 = Nothing /\ v11 = Nothing /\ v12 = Nothing
       /\ v13 = Nothing /\ v14 = Nothing /\ v15 = Nothing /\ v16 = Nothing /\ v17 = Nothing /\ v18 = Nothing
       /\ v19 = Nothing /\ v20 = Nothing /\ v21 = Nothing
    \/ /\ part = "marks" /\ ThreadMarks!Init /\ Init /\ chat = First

MCSteps ==
    \/ part = "send" /\ SendView!Next /\ UNCHANGED <<v18, v19, v20, v21, composerVars>>
    \/ part = "screen" /\ Screen!Next
       /\ UNCHANGED <<v13, v14, v15, v16, v17, v18, v19, v20, v21, composerVars>>
    \/ part = "window" /\ ThreadWindow!Next
       /\ UNCHANGED <<v17, v18, v19, v20, v21, composerVars>>
    \/ part = "composer" /\ Next
       /\ UNCHANGED <<v1, v2, v3, v4, v5, v6, v7, v8, v9, v10, v11, v12, v13, v14, v15, v16,
                      v17, v18, v19, v20, v21>>
    \/ part = "marks" /\ ThreadMarks!Next /\ UNCHANGED <<composerVars>>

MCNext == MCSteps /\ UNCHANGED part

MCSpec == MCInit /\ [][MCNext]_state

-----------------------------------------------------------------------------
\* An optimistic row belongs to the open chat and claims nothing the service has not published.
PillTruthful == part = "send" => SendView!PillTruthful

\* A row kept for a sent message can still be found when its echo comes (applySent).
HeldRowRemovable == part = "send" => SendView!HeldRowRemovable

\* Until its chat is opened again no message is shown twice that the pane was told of (finalized ids).
NoDoubleRowOnFirstVisit == part = "send" => SendView!NoDoubleRowOnFirstVisit

\* Until its chat is opened again no row stays pending after the verdict came.
NoStuckPendingOnFirstVisit == part = "send" => SendView!NoStuckPendingOnFirstVisit

\* The composer writes to the chat the thread shows (switchToChat).
ComposerFollowsThread == part = "screen" => Screen!ComposerFollowsThread

\* A scroll that waits for a load waits for the chat on screen (pendingThreadScroll).
ScrollIsForThisChat == part = "screen" => Screen!ScrollIsForThisChat

\* One gesture forwards once, and never to the chat the messages are from (handleForwardPick).
ForwardedOnce == part = "screen" => Screen!ForwardedOnce

\* A reaction waits only while its picker is up or has just answered (reactions.go).
ReactionHasItsPicker == part = "screen" => Screen!ReactionHasItsPicker

\* The chat on screen changes on a pick, a resolved handle or a hit alone (jumpGen).
LateAnswersStay == part = "screen" => Screen!LateAnswersStay

\* The window shows each message once, in order (merge of the pages).
OneRowEach == part = "window" => ThreadWindow!OneRowEach

\* The loading flag stands for a call that is still to answer, or whose answer an overlay took.
LoadingHasItsCall == part = "window" => ThreadWindow!LoadingHasItsCall

\* A jump's window is not replaced by an older load's answer (generation).
JumpStays == part = "window" => ThreadWindow!JumpStays

\* Scrolling forward from a jump skips no message that was mirrored when its place was read
\* (forwardCursorID).
ForwardSkipsNothing == part = "window" => ThreadWindow!ForwardSkipsNothing

\* Marks, selection and divider belong to the chat on screen (OpenChat).
NothingCarriedOver == part = "marks" => ThreadMarks!NothingCarriedOver

\* A drag copies whole messages or part of one (resolveSelection).
WholeOrWithinOne == part = "marks" => ThreadMarks!WholeOrWithinOne

\* While a drag lasts the lines under it stay what they were (dragCache).
DragIsSteady == part = "marks" => ThreadMarks!DragIsSteady

\* The divider is above the first message that was unread when the chat was opened, when the
\* page holds all of those and nothing moved before it came (locateUnread).
DividerWhereReadingStopped == part = "marks" => ThreadMarks!DividerWhereReadingStopped

\* What a confirmed prompt deletes is what it asked about (Confirm).
DeletesWhatWasMeant == part = "marks" => ThreadMarks!DeletesWhatWasMeant

-----------------------------------------------------------------------------
\* What the run checks: the above by theme, each component with its type invariant.

\* A send has one row, of its own chat, that claims what was published and goes when its
\* echo comes, in any order of results, echo and verdict, until its chat is opened again,
\* unless the bus dropped an event of it or the server gave it no id (panes/thread/update.go).
SendsShownOnce ==
    /\ part = "send" => SendView!TypeOK
    /\ PillTruthful /\ HeldRowRemovable /\ NoDoubleRowOnFirstVisit
    /\ NoStuckPendingOnFirstVisit

\* Thread, composer, pending scrolls, forwards and reactions all mean the chat on screen,
\* however late the answers come (ui/app/update.go).
OneChatOnScreen ==
    /\ part = "screen" => Screen!TypeOK
    /\ ComposerFollowsThread /\ ScrollIsForThisChat /\ ForwardedOnce
    /\ ReactionHasItsPicker


\* Cursor, marks, selection and divider stay on the messages they were put on, and a prompt
\* deletes what it asked about (marks.go, selection.go, unread.go).
MarksStayPut ==
    /\ part = "marks" => ThreadMarks!TypeOK
    /\ NothingCarriedOver /\ WholeOrWithinOne /\ DragIsSteady
    /\ DividerWhereReadingStopped /\ DeletesWhatWasMeant

\* Only the user changes chats or takes words away: no late answer moves the thread to
\* another chat, and edits and drafts give back what they displaced.
ScreenIsTheUsers == [][LateAnswersStay /\ EditGivesBack /\ DraftWaits /\ OnlyTheUserTakesWords]_state

\* The sends and the chats of SendView.
Symmetry == Permutations(Sends) \cup Permutations(Rooms)
=============================================================================
