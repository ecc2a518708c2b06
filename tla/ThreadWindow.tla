----------------------------- MODULE ThreadWindow -----------------------------
(***************************************************************************)
(* What the thread pane shows of one chat (ui/panes/thread, and the jumps  *)
(* of ui/app): a window of the mirror, filled by the first load, by pages  *)
(* at both ends and by jumps, and kept up by live events.  A command reads *)
(* the mirror when it runs and is applied when its result comes, by then   *)
(* the window may be another.                                              *)
(*                                                                         *)
(* Ids order the messages of a chat as their dates do (update.go,          *)
(* insertByDate).  A result carries fresh instead of its generation.       *)
(***************************************************************************)
EXTENDS Places, SequencesExt

CONSTANTS Newest,       \* ids on the server are 1 .. Newest
          Mirrored,     \* 1 .. Mirrored have been announced at the start
          Starts,       \* what the mirror may hold of those at the start
          PageSize, Around,
          MaxGestures, MaxChanges, MaxCalls   \* bounds

VARIABLES
    mirror,         \* ids in SQLite
    last, gone,     \* the newest id announced, ids deleted
    feed,           \* UI events not handled yet, in order
    here,           \* the chat is the one on screen
    shown,          \* Model.messages
    hasMore, hasNewer,
    forward,        \* forwardCursorID
    loading,
    calls,          \* commands under way
    target,         \* the message the last jump landed on, while it must be there
    gestures, changes,  \* how many there were: by the user, in the store
    \* What the properties compare with:
    swallowed,      \* an overlay took the answer the pane waits for
    late            \* ids stored after the rows around them had been read

content == <<shown, hasMore, hasNewer, forward>>
window == <<here, content, loading, target, swallowed>>
store == <<mirror, last, gone, late, changes>>
vars == <<store, feed, window, calls, gestures>>

Ids == 1 .. Newest
Highest(S) == CHOOSE n \in S : \A k \in S : k <= n
Lowest(S) == CHOOSE n \in S : \A k \in S : n <= k
Row(i) == shown[i]
Shown == ToSet(shown)
OldestID == Lowest(Shown)

Kinds == {"load", "older", "newer", "jump"}
Events == [kind : {"received", "deleted"}, id : Ids]
Calls == [kind : Kinds, anchor : Ids \cup {0}, fresh : BOOLEAN, read : BOOLEAN,
          failed : BOOLEAN, rows : Seq(Ids), more : BOOLEAN]
Call(k, anchor) == [kind |-> k, anchor |-> anchor, fresh |-> TRUE, read |-> FALSE,
                    failed |-> FALSE, rows |-> <<>>, more |-> FALSE]

TypeOK ==
    /\ mirror \subseteq Ids /\ gone \subseteq Ids /\ late \subseteq Ids /\ last \in Mirrored .. Newest
    /\ feed \in Seq(Events) /\ {here, hasMore, hasNewer, loading, swallowed} \subseteq BOOLEAN
    /\ shown \in Seq(Ids) /\ forward \in Ids \cup {0} /\ target \in Ids \cup {0}
    /\ calls \subseteq Calls

\* The mirror holds what was fetched, found and met so far: any part of the chat.
Init ==
    /\ mirror \in Starts /\ last = Mirrored /\ gone = {} /\ feed = <<>>
    /\ here = FALSE /\ shown = <<>> /\ hasMore = FALSE /\ hasNewer = FALSE /\ forward = 0
    /\ loading = FALSE /\ calls = {} /\ target = 0 /\ gestures = 0
    /\ swallowed = FALSE /\ late = {} /\ changes = 0

-----------------------------------------------------------------------------
(* The store and the bus.                                                  *)

\* Behind the cursor, or among the rows of an answer that will move it.
Passed(k) ==
    \/ k <= forward
    \/ \E c \in calls : c.kind \in {"newer", "jump"} /\ \E j \in ToSet(c.rows) : k < j
Store(ids) ==
    /\ mirror' = mirror \cup ids
    /\ late' = late \cup {k \in ids \ mirror : Passed(k)}

\* A live update is persisted, then announced.
Arrive ==
    /\ last < Newest /\ last' = last + 1
    /\ Store({last + 1} \ gone)
    /\ feed' = Append(feed, [kind |-> "received", id |-> last + 1])
    /\ UNCHANGED <<gone, changes, window, calls, gestures>>

Change == changes < MaxChanges /\ changes' = changes + 1

DeleteMessage(id) ==
    /\ Change /\ id \in mirror
    /\ mirror' = mirror \ {id} /\ gone' = gone \cup {id}
    /\ feed' = Append(feed, [kind |-> "deleted", id |-> id])
    /\ UNCHANGED <<last, late, window, calls, gestures>>

\* HistoryService.LoadInitial, for the chat on screen or another: rows from anywhere, newer
\* than the live feed too.  It publishes a DialogUpdated, which the thread does not handle.
Backfill ==
    /\ Change
    /\ \E ids \in SUBSET (Ids \ (mirror \cup gone)) : ids # {} /\ Store(ids)
    /\ UNCHANGED <<last, gone, feed, window, calls, gestures>>

-----------------------------------------------------------------------------
(* Gestures.                                                               *)

Spend == gestures < MaxGestures /\ gestures' = gestures + 1
Outdated(kinds) == {IF c.kind \in kinds THEN [c EXCEPT !.fresh = FALSE] ELSE c : c \in calls}
Loads == {"load", "older", "newer"}
Ask(kinds, c) == Cardinality(calls) < MaxCalls /\ calls' = Outdated(kinds) \cup {c}

Emptied == shown' = <<>> /\ hasMore' = FALSE /\ hasNewer' = FALSE /\ forward' = 0

\* OpenChat, from any pick: jumps and loads under way are outdated.
OpenChat ==
    /\ Spend /\ here' = TRUE /\ Emptied /\ loading' = TRUE /\ target' = 0 /\ swallowed' = FALSE
    /\ Ask(Kinds, Call("load", 0)) /\ UNCHANGED <<store, feed>>

\* OpenChat of another chat.
LeaveChat ==
    /\ here /\ here' = FALSE /\ Emptied /\ loading' = FALSE /\ target' = 0 /\ swallowed' = FALSE
    /\ calls' = Outdated(Kinds) /\ UNCHANGED <<store, feed, gestures>>

\* handleSearchJump, SwitchTo: the pane is emptied before the window is read.
SearchJump(id) ==
    /\ Spend /\ here' = TRUE /\ Emptied /\ loading' = FALSE /\ target' = 0 /\ swallowed' = FALSE
    /\ Ask(Kinds, Call("jump", id)) /\ UNCHANGED <<store, feed>>

\* goToMessage, to a message that is not in the window: nothing is emptied.
GoToMessage(id) ==
    /\ here /\ Shown # {} /\ id \notin Shown
    /\ Spend /\ Ask({"jump"}, Call("jump", id)) /\ UNCHANGED <<store, feed, window>>

\* shouldPaginate and shouldPaginateNewer: the end of the window is on screen.
PaginateOlder ==
    /\ here /\ ~loading /\ hasMore /\ Shown # {}
    /\ loading' = TRUE /\ Ask({}, Call("older", OldestID))
    /\ UNCHANGED <<store, feed, here, content, target, gestures, swallowed>>
PaginateNewer ==
    /\ here /\ ~loading /\ hasNewer /\ forward # 0
    /\ loading' = TRUE /\ Ask({}, Call("newer", forward))
    /\ UNCHANGED <<store, feed, here, content, target, gestures, swallowed>>

-----------------------------------------------------------------------------
(* Commands: loadCmd, paginateCmd, paginateNewerCmd, jumpContextCmd.       *)

Below(id) == {k \in mirror : k < id}
Above(id) == {k \in mirror : k > id}
Rows(c) ==
    CASE c.kind = "load"  -> NewestOf(mirror, PageSize)
      [] c.kind = "older" -> NewestOf(Below(c.anchor), PageSize)
      [] c.kind = "newer" -> OldestOf(Above(c.anchor), PageSize)
      [] OTHER -> NewestOf(Below(c.anchor), Around) \o <<c.anchor>>
                    \o OldestOf(Above(c.anchor), Around)
\* One row more than the page is asked for.
More(c) ==
    CASE c.kind = "load"  -> Cardinality(mirror) > PageSize
      [] c.kind = "older" -> Cardinality(Below(c.anchor)) > PageSize
      [] c.kind = "newer" -> Cardinality(Above(c.anchor)) > PageSize
      [] OTHER -> FALSE

ReadMirror(c) ==
    /\ ~c.read
    /\ \E failed \in {c.kind = "jump" /\ c.anchor \notin mirror, TRUE} :
          calls' = (calls \ {c}) \cup
                   {IF failed THEN [c EXCEPT !.read = TRUE, !.failed = TRUE]
                    ELSE [c EXCEPT !.read = TRUE, !.rows = Rows(c), !.more = More(c)]}
    /\ UNCHANGED <<store, feed, window, gestures>>

\* Mutant: the generation of a load is not compared.
Current_AnyLoad(c) == here /\ (c.fresh \/ c.kind = "load")
\* What an apply handler compares before anything else.
Current(c) == here /\ c.fresh

\* messagesLoadFailedMsg.
LoadFailed(c) == loading' = FALSE /\ UNCHANGED <<content, target>>

ApplyLoaded(c) ==
    /\ shown' = c.rows /\ hasMore' = c.more /\ hasNewer' = FALSE /\ forward' = 0
    /\ loading' = FALSE /\ UNCHANGED target

\* Prepended as it is.
ApplyPagination(c) ==
    /\ shown' = c.rows \o shown /\ hasMore' = c.more /\ loading' = FALSE
    /\ UNCHANGED <<hasNewer, forward, target>>

\* Mutant: an empty page leaves the pane loading.
ApplyPaginationNewer_EmptyLoads(c) ==
    LET top == Highest(ToSet(c.rows)) IN
    IF c.rows = <<>> THEN hasNewer' = FALSE /\ UNCHANGED <<shown, hasMore, forward, loading, target>>
    ELSE /\ shown' = UpTo(shown, forward) \o c.rows \o Beyond(shown, top)
         /\ forward' = top /\ hasNewer' = c.more /\ loading' = FALSE /\ UNCHANGED <<hasMore, target>>

\* Mutant: the page is appended as it is.
ApplyPaginationNewer_Appends(c) ==
    IF c.rows = <<>>
    THEN hasNewer' = FALSE /\ loading' = FALSE /\ UNCHANGED <<shown, hasMore, forward, target>>
    ELSE /\ shown' = shown \o c.rows /\ loading' = FALSE
         /\ forward' = Highest(ToSet(c.rows)) /\ hasNewer' = c.more /\ UNCHANGED <<hasMore, target>>


\* Between the rows up to the cursor and the live rows above the page.
ApplyPaginationNewer(c) ==
    LET top == Highest(ToSet(c.rows)) IN
    IF c.rows = <<>>
    THEN hasNewer' = FALSE /\ loading' = FALSE /\ UNCHANGED <<shown, hasMore, forward, target>>
    ELSE /\ shown' = UpTo(shown, forward) \o c.rows \o Beyond(shown, top)
         /\ forward' = top /\ hasNewer' = c.more /\ loading' = FALSE /\ UNCHANGED <<hasMore, target>>

\* LoadJumpWindow, SetCursor: rows above the window are kept behind it.
LoadJumpWindow(c) ==
    LET top == Highest(ToSet(c.rows)) IN
    /\ shown' = c.rows \o Beyond(shown, top)
    /\ hasMore' = TRUE /\ hasNewer' = TRUE /\ forward' = top /\ loading' = FALSE
    /\ target' = c.anchor

Apply(c) ==
    /\ c.read
    /\ IF ~Current(c) THEN calls' = calls \ {c} /\ UNCHANGED <<content, loading, target, swallowed>>
       ELSE \/ /\ c.kind = "jump" /\ ~c.failed /\ LoadJumpWindow(c)
               /\ calls' = Outdated(Loads) \ {c} /\ swallowed' = FALSE
            \* ReloadAfterJumpFailure.
            \/ /\ c.kind = "jump" /\ c.failed /\ Emptied /\ loading' = TRUE /\ target' = 0
               /\ calls' = (Outdated(Loads) \ {c}) \cup {Call("load", 0)} /\ swallowed' = FALSE
            \/ /\ c.kind # "jump" /\ calls' = calls \ {c} /\ UNCHANGED swallowed
               /\ CASE c.failed -> LoadFailed(c)
                    [] ~c.failed /\ c.kind = "load" -> ApplyLoaded(c)
                    [] ~c.failed /\ c.kind = "older" -> ApplyPagination(c)
                    [] ~c.failed /\ c.kind = "newer" -> ApplyPaginationNewer(c)
    /\ UNCHANGED <<store, feed, here, gestures>>

\* An open overlay takes the answer of a load, failed ones too (App.update); that of a
\* jump is handled before it is asked.
Swallow(c) ==
    /\ c.read /\ c.kind # "jump" /\ calls' = calls \ {c}
    /\ swallowed' = (swallowed \/ Current(c))
    /\ UNCHANGED <<store, feed, here, content, loading, target, gestures>>

-----------------------------------------------------------------------------
(* Live events.                                                            *)

InsertByDate(id) ==
    UpTo(shown, id - 1) \o <<id>> \o Beyond(shown, id)

\* applyIncoming: a row that is there already is replaced where it stands.
ApplyIncoming(id) ==
    /\ shown' = IF id \in Shown THEN shown ELSE InsertByDate(id)
    /\ UNCHANGED target

ApplyDeleted(id) ==
    /\ shown' = Without(shown, id)
    /\ target' = IF target = id THEN 0 ELSE target

HandleEvent ==
    /\ feed # <<>> /\ feed' = Tail(feed)
    /\ IF ~here THEN UNCHANGED <<shown, target>>
       ELSE IF Head(feed).kind = "received" THEN ApplyIncoming(Head(feed).id)
       ELSE ApplyDeleted(Head(feed).id)
    /\ UNCHANGED <<store, here, hasMore, hasNewer, forward, loading, calls, gestures, swallowed>>

\* The subscription was full when it was published, or an overlay took the deletion.
MissEvent ==
    /\ feed # <<>> /\ feed' = Tail(feed) /\ UNCHANGED <<store, window, calls, gestures>>

RunCommand == \E c \in calls : ReadMirror(c) \/ Apply(c) \/ Swallow(c)

Next ==
    \/ Arrive \/ Backfill \/ HandleEvent \/ MissEvent \/ RunCommand
    \/ \E id \in Ids : DeleteMessage(id) \/ SearchJump(id) \/ GoToMessage(id)
    \/ OpenChat \/ LeaveChat \/ PaginateOlder \/ PaginateNewer

Spec == Init /\ [][Next]_vars /\ WF_vars(RunCommand) /\ WF_vars(HandleEvent \/ MissEvent)

-----------------------------------------------------------------------------
\* Rows stand in the order of their dates, each once: whatever pages, windows
\* and live rows the pane was put together from (update.go, applyPaginationNewer).
OneRowEach == \A i \in 1 .. Len(shown) - 1 : Row(i) < Row(i + 1)

\* A pane that says it loads has a command of its generation under way, or an overlay has
\* taken the answer: no answer the pane gets is the last one without ending it (model.go, loading).
LoadingHasItsCall == loading => swallowed \/ \E c \in calls : c.fresh /\ c.kind \in Loads

\* What a jump landed on stays loaded until the pane is opened on something else:
\* no slower load brings the tail back over it (model.go, loadGen).
JumpStays == target # 0 => target \in Shown

\* Scrolling down from a jump passes every message: up to the cursor nothing the mirror
\* held when the rows around it were read is missing (model.go, forwardCursorID).
ForwardSkipsNothing ==
    hasNewer /\ Shown # {} =>
        \A k \in mirror \ late : OldestID <= k /\ k <= forward => k \in Shown

-----------------------------------------------------------------------------
(* What the source says and the code does not do.  README.md names the     *)
(* instance that refutes each of these.                                    *)

\* "The rows appear when the backfill publishes DialogUpdated and the thread
\* reloads from storage" (ui/app/model.go): the thread does not reload.
FetchedRowsAppear == [](here /\ mirror # {} => <>(~here \/ Shown # {}))

\* "only retains genuine live appends" (model.go, SwitchTo): following a reply
\* keeps the old tail behind the window.
TailIsLive == target # 0 => \A k \in Shown : k <= forward \/ ~hasNewer \/ k > Mirrored

\* "Re-entrancy is still guarded via the loading flag" (update.go): for good, once an open
\* overlay took the answer that would have cleared it.
LoadingEnds == loading => \E c \in calls : c.fresh /\ c.kind \in Loads

\* "walks the model toward the present so the user is no longer stranded" (messages.go): what is
\* fetched behind the cursor stays unseen.
FetchedIsReached ==
    hasNewer /\ Shown # {} => \A k \in mirror : OldestID <= k /\ k <= forward => k \in Shown

\* "silently drop that row from the UI" (model.go, LoadJumpWindow) is what the
\* first load does to a message that arrived while it was read.
NothingLiveLost ==
    here /\ calls = {} /\ feed = <<>> /\ shown # <<>> =>
        \A k \in mirror : k > Mirrored /\ k <= last => k \in Shown \/ hasNewer

\* A message deleted while its page was read is not shown again (update.go,
\* applyDeleted).
DeletedStaysGone == feed = <<>> => Shown \cap gone = {}
=============================================================================
