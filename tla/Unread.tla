-------------------------------- MODULE Unread --------------------------------
(***************************************************************************)
(* What the user has read: LiveService (core/sync/live.go) raises a chat's *)
(* badge for a message that lands elsewhere, ReadService (core/sync/       *)
(* read.go) tells the server what was read and drops the badge, dialog     *)
(* sync overwrites the badge with the server's count.  The first two are   *)
(* goroutines with a bus subscription each: they see the same events in    *)
(* the same order and at different times.  ReadService is two goroutines,  *)
(* a reader that never blocks and a worker that waits for the network.     *)
(*                                                                         *)
(* Message ids count up per chat.  Every message is incoming: the code     *)
(* takes the user's own and edited ones out first.                         *)
(***************************************************************************)
EXTENDS Integers, Sequences

CONSTANTS Chats, NoChat,
          QueueCap,      \* pendingReads
          Budgets        \* bounds: how often each of Kinds may happen, as
                         \* functions on Kinds; a behaviour keeps within one

ASSUME NoChatAssumption == NoChat \notin Chats
ASSUME QueueCapAssumption == QueueCap \in Nat

VARIABLES
    newest,        \* newest message delivered, per chat
    serverRead,    \* the server's read pointer, per chat
    screen,        \* the chat on screen
    seen,          \* newest message that can have been on screen, per chat
    arrived,       \* newest message that landed in the chat during this visit
    liveFeed, readFeed,   \* the two subscriptions' pending events
    liveOpen, readOpen,   \* the two services' openChat
    counting,      \* LiveService between SaveMessage and IncrementUnread
    stored,        \* newest message the mirror holds, per chat
    unread,        \* chats.unread_count
    opens, ack,    \* ReadService's queues: opens, and the one-slot acks
    worker,        \* ReadService's second goroutine
    acknowledged,  \* ReadService.acknowledged
    snapshot,      \* counts a dialog sync has fetched and not saved yet
    used           \* how often each of Kinds has happened

server == <<newest, serverRead>>
user == <<screen, seen, arrived>>
live == <<liveFeed, liveOpen, counting, stored>>
reader == <<readFeed, readOpen, opens, ack>>
vars == <<server, user, live, reader, unread, worker, acknowledged,
          snapshot, used>>

\* Messages delivered, chats opened, dialog rows fetched, read requests that
\* fail, reads on another device.
Kinds == {"messages", "opens", "syncs", "failures", "elsewhere"}
Spend(k) ==
    /\ used' = [used EXCEPT ![k] = @ + 1]
    /\ \E b \in Budgets : \A j \in Kinds : used'[j] <= b[j]

Event == [type : {"open", "message", "readInbox"}, chat : Chats, n : Nat]
Request == [chat : Chats, maxID : Nat]
NoAck == [chat |-> NoChat, maxID |-> 0]
Idle == [pc |-> "idle", chat |-> NoChat, maxID |-> 0]
Uncounted == {NoChat} \union Chats
NoSnapshot == -1

TypeOK ==
    /\ newest \in [Chats -> Nat] /\ serverRead \in [Chats -> Nat]
    /\ screen \in Chats \union {NoChat}
    /\ seen \in [Chats -> Nat] /\ arrived \in [Chats -> Nat]
    /\ liveFeed \in Seq(Event) /\ readFeed \in Seq(Event)
    /\ {liveOpen, readOpen, counting} \subseteq Chats \union {NoChat}
    /\ stored \in [Chats -> Nat] /\ unread \in [Chats -> Nat]
    /\ opens \in Seq(Chats) /\ Len(opens) <= QueueCap
    /\ ack \in Request \union {NoAck}
    /\ worker \in [pc : {"call", "clear"}, chat : Chats, maxID : Nat \ {0}]
                  \union {Idle}
    /\ acknowledged \in [Chats -> Nat]
    /\ snapshot \in [Chats -> Nat \union {NoSnapshot}]
    /\ used \in [Kinds -> Nat]

Init ==
    /\ newest = [c \in Chats |-> 0] /\ serverRead = newest
    /\ screen = NoChat /\ seen = newest /\ arrived = newest
    /\ liveFeed = <<>> /\ readFeed = <<>>
    /\ liveOpen = NoChat /\ readOpen = NoChat /\ counting = NoChat
    /\ stored = newest /\ unread = newest
    /\ opens = <<>> /\ ack = NoAck /\ worker = Idle
    /\ acknowledged = newest
    /\ snapshot = [c \in Chats |-> NoSnapshot]
    /\ used = [k \in Kinds |-> 0]

-----------------------------------------------------------------------------
(***************************************************************************)
(* The world.  Bus.Publish hands an event to both subscriptions at once.   *)
(***************************************************************************)
Publish(kind, c, n) ==
    LET e == [type |-> kind, chat |-> c, n |-> n] IN
    /\ liveFeed' = Append(liveFeed, e)
    /\ readFeed' = Append(readFeed, e)

Receive(c) ==
    LET m == newest[c] + 1 IN
    /\ Spend("messages")
    /\ newest' = [newest EXCEPT ![c] = m]
    /\ IF screen = c
       THEN seen' = [seen EXCEPT ![c] = m] /\ arrived' = [arrived EXCEPT ![c] = m]
       ELSE UNCHANGED <<seen, arrived>>
    /\ Publish("message", c, m)
    /\ UNCHANGED <<serverRead, screen, liveOpen, counting, stored, readOpen,
                   opens, ack, unread, worker, acknowledged, snapshot>>

\* onChatOpened: the pane shows the chat; at best everything delivered so far.
\* Opening another chat ends a visit.
OpenChat(c) ==
    /\ Spend("opens")
    /\ screen' = c
    /\ seen' = [seen EXCEPT ![c] = newest[c]]
    /\ arrived' = IF screen = c THEN arrived ELSE [arrived EXCEPT ![c] = 0]
    /\ Publish("open", c, 0)
    /\ UNCHANGED <<server, liveOpen, counting, stored, readOpen,
                   opens, ack, unread, worker, acknowledged, snapshot>>

\* The user reads on another device; the server says how many are left.
ReadElsewhere(c) ==
    /\ Spend("elsewhere")
    /\ serverRead[c] < newest[c]
    /\ \E m \in serverRead[c] + 1 .. newest[c] :
          /\ serverRead' = [serverRead EXCEPT ![c] = m]
          /\ Publish("readInbox", c, newest[c] - m)
    /\ UNCHANGED <<newest, user, liveOpen, counting, stored, readOpen, opens,
                   ack, unread, worker, acknowledged, snapshot>>

-----------------------------------------------------------------------------
(***************************************************************************)
(* LiveService.drain, one event at a time; a message takes two writes.     *)
(***************************************************************************)
LiveTakes(kind) ==
    /\ counting = NoChat
    /\ liveFeed # <<>> /\ Head(liveFeed).type = kind
    /\ liveFeed' = Tail(liveFeed)

LiveOpened ==
    /\ LiveTakes("open")
    /\ liveOpen' = Head(liveFeed).chat
    /\ UNCHANGED <<server, user, counting, stored, reader, unread, worker,
                   acknowledged, snapshot, used>>

\* persist, up to SaveMessage.
Persist ==
    LET e == Head(liveFeed) IN
    /\ LiveTakes("message")
    /\ stored' = [stored EXCEPT ![e.chat] = e.n]
    /\ counting' = e.chat
    /\ UNCHANGED <<server, user, liveOpen, reader, unread, worker,
                   acknowledged, snapshot, used>>

\* countUnread
CountUnread ==
    /\ counting # NoChat
    /\ unread' = IF counting = liveOpen THEN unread
                 ELSE [unread EXCEPT ![counting] = @ + 1]
    /\ counting' = NoChat
    /\ UNCHANGED <<server, user, liveFeed, liveOpen, stored, reader, worker,
                   acknowledged, snapshot, used>>

\* Mutant: any read receipt clears the badge.
SetUnread_Clears ==
    /\ LiveTakes("readInbox")
    /\ unread' = [unread EXCEPT ![Head(liveFeed).chat] = 0]
    /\ UNCHANGED <<server, user, liveOpen, counting, stored, reader, worker,
                   acknowledged, snapshot, used>>

SetUnread ==
    LET e == Head(liveFeed) IN
    /\ LiveTakes("readInbox")
    /\ unread' = [unread EXCEPT ![e.chat] = e.n]
    /\ UNCHANGED <<server, user, liveOpen, counting, stored, reader, worker,
                   acknowledged, snapshot, used>>

-----------------------------------------------------------------------------
(***************************************************************************)
(* ReadService's reader: requestFor, then the queue the request belongs in.*)
(***************************************************************************)
ReaderTakes(kind) ==
    /\ readFeed # <<>> /\ Head(readFeed).type = kind
    /\ readFeed' = Tail(readFeed)

\* Mutant: the queue has no limit.
RequestOpen_Unbounded ==
    LET c == Head(readFeed).chat IN
    /\ ReaderTakes("open")
    /\ readOpen' = c
    /\ opens' = Append(opens, c)
    /\ UNCHANGED <<server, user, live, ack, unread, worker, acknowledged,
                   snapshot, used>>

RequestOpen ==
    LET c == Head(readFeed).chat IN
    /\ ReaderTakes("open")
    /\ readOpen' = c
    /\ opens' = IF Len(opens) < QueueCap THEN Append(opens, c) ELSE opens
    /\ UNCHANGED <<server, user, live, ack, unread, worker, acknowledged,
                   snapshot, used>>

\* Mutant: a taken slot drops the newcomer.
RequestAck_KeepsOldest ==
    LET e == Head(readFeed) IN
    /\ ReaderTakes("message")
    /\ ack' = IF e.chat = readOpen /\ ack = NoAck
              THEN [chat |-> e.chat, maxID |-> e.n] ELSE ack
    /\ UNCHANGED <<server, user, live, readOpen, opens, unread, worker,
                   acknowledged, snapshot, used>>

\* replaceAck: whatever waits in the slot gives way.
RequestAck ==
    LET e == Head(readFeed) IN
    /\ ReaderTakes("message")
    /\ ack' = IF e.chat = readOpen THEN [chat |-> e.chat, maxID |-> e.n]
              ELSE ack
    /\ UNCHANGED <<server, user, live, readOpen, opens, unread, worker,
                   acknowledged, snapshot, used>>

IgnoreRead ==
    /\ ReaderTakes("readInbox")
    /\ UNCHANGED <<server, user, live, readOpen, opens, ack, unread, worker,
                   acknowledged, snapshot, used>>

-----------------------------------------------------------------------------
(***************************************************************************)
(* ReadService's worker: markRead.                                         *)
(***************************************************************************)
\* Mutant: what was acknowledged before is not looked at.
Begin_Always(c, m) ==
    worker' = IF m > 0 THEN [pc |-> "call", chat |-> c, maxID |-> m] ELSE Idle

\* The request is dropped when there is nothing new to acknowledge.
Begin(c, m) ==
    worker' = IF m > acknowledged[c]
              THEN [pc |-> "call", chat |-> c, maxID |-> m] ELSE Idle

\* Taking an open and looking its newest message up are one step.
TakeOpen ==
    /\ worker.pc = "idle" /\ opens # <<>>
    /\ opens' = Tail(opens)
    /\ Begin(Head(opens), stored[Head(opens)])
    /\ UNCHANGED <<server, user, live, readFeed, readOpen, ack, unread,
                   acknowledged, snapshot, used>>

TakeAck ==
    /\ worker.pc = "idle" /\ ack # NoAck
    /\ ack' = NoAck
    /\ Begin(ack.chat, ack.maxID)
    /\ UNCHANGED <<server, user, live, readFeed, readOpen, opens, unread,
                   acknowledged, snapshot, used>>

\* The server never moves its pointer back.
ServerMarks(c, m) ==
    serverRead' = [serverRead EXCEPT ![c] = IF m > @ THEN m ELSE @]

MarkReadOk ==
    /\ worker.pc = "call"
    /\ ServerMarks(worker.chat, worker.maxID)
    /\ acknowledged' = [acknowledged EXCEPT ![worker.chat] = worker.maxID]
    /\ worker' = [worker EXCEPT !.pc = "clear"]
    /\ UNCHANGED <<newest, user, live, reader, unread, snapshot, used>>

\* The error may come before the server acted or after.
MarkReadFails ==
    /\ worker.pc = "call"
    /\ Spend("failures")
    /\ ServerMarks(worker.chat, worker.maxID) \/ UNCHANGED serverRead
    /\ worker' = Idle
    /\ UNCHANGED <<newest, user, live, reader, unread, acknowledged, snapshot>>

ClearUnread ==
    /\ worker.pc = "clear"
    /\ unread' = [unread EXCEPT ![worker.chat] = 0]
    /\ worker' = Idle
    /\ UNCHANGED <<server, user, live, reader, acknowledged, snapshot, used>>

-----------------------------------------------------------------------------
(***************************************************************************)
(* DialogsService.walk: a page's counts are fetched, then saved.           *)
(***************************************************************************)
FetchDialogs(c) ==
    /\ Spend("syncs")
    /\ snapshot[c] = NoSnapshot
    /\ snapshot' = [snapshot EXCEPT ![c] = newest[c] - serverRead[c]]
    /\ UNCHANGED <<server, user, live, reader, unread, worker, acknowledged>>

SaveChat(c) ==
    /\ snapshot[c] # NoSnapshot
    /\ unread' = [unread EXCEPT ![c] = snapshot[c]]
    /\ snapshot' = [snapshot EXCEPT ![c] = NoSnapshot]
    /\ UNCHANGED <<server, user, live, reader, worker, acknowledged, used>>

-----------------------------------------------------------------------------
Next ==
    \/ \E c \in Chats : Receive(c) \/ OpenChat(c) \/ ReadElsewhere(c)
                        \/ FetchDialogs(c) \/ SaveChat(c)
    \/ LiveOpened \/ Persist \/ CountUnread \/ SetUnread
    \/ RequestOpen \/ RequestAck \/ IgnoreRead
    \/ TakeOpen \/ TakeAck \/ MarkReadOk \/ MarkReadFails \/ ClearUnread

Spec == Init /\ [][Next]_vars

(***************************************************************************)
(* Nothing is queued and nobody is working.                                *)
(***************************************************************************)
Settled ==
    /\ liveFeed = <<>> /\ readFeed = <<>> /\ counting = NoChat
    /\ opens = <<>> /\ ack = NoAck /\ worker = Idle
    /\ \A c \in Chats : snapshot[c] = NoSnapshot

\* Once everything settles without a failed request, what landed in the chat
\* on screen since the user came to it is read on the server.  One slot for all
\* acknowledgements must not lose the one that matters (read.go, replaceAck).
\* Of an earlier visit that is not so: see AckNotLost.
LiveReadingAcked ==
    (Settled /\ used.failures = 0 /\ screen # NoChat)
        => serverRead[screen] >= arrived[screen]

\* A chat the user never looked at and this client never acknowledged shows
\* the server's own count, whatever was read on other devices meanwhile (live.go,
\* countUnread and SetUnread).  Dialog sync is left out: a message can be in
\* its snapshot and be counted again.
UnopenedBadgeExact ==
    \A c \in Chats :
        (Settled /\ used.syncs = 0 /\ used.failures = 0
            /\ seen[c] = 0 /\ acknowledged[c] = 0)
        => unread[c] = newest[c] - serverRead[c]

\* A request never covers a message the service has acknowledged already, and
\* so the session's record of what it reported only moves forward.
AcksAdvance ==
    \A c \in Chats : acknowledged'[c] # acknowledged[c]
         => acknowledged'[c] > acknowledged[c] /\ serverRead'[c] >= acknowledged'[c]

\* What the user sees read is what the server is told and what the badges say,
\* whatever the queues drop and the requests fail (read.go, live.go, dialogs.go).
ReadStateAgrees == TypeOK /\ LiveReadingAcked /\ UnopenedBadgeExact

-----------------------------------------------------------------------------
(***************************************************************************)
(* What the source says and the code does not do.  README.md names the     *)
(* instance that refutes each of these.                                    *)
(***************************************************************************)
\* What a read request reports was on screen ("the user has just seen
\* everything in the chat", read.go, readRequest).
AckedWasSeen ==
    \A c \in Chats : acknowledged[c] <= seen[c]

\* Acknowledgements supersede one another (replaceAck): nothing that landed
\* in an open chat stays unread on the server, even after the user leaves or
\* comes back.
AckNotLost ==
    (Settled /\ used.failures = 0)
        => \A c \in Chats : serverRead[c] >= arrived[c]

\* Opening a chat acknowledges everything in it (read.go, requestFor).
OpeningReads ==
    (Settled /\ used.failures = 0 /\ screen # NoChat)
        => serverRead[screen] = newest[screen]

\* A count that is too high is corrected by opening the chat (live.go,
\* countUnread): a chat on screen that the server holds read has no badge.
OpeningClears ==
    (Settled /\ screen # NoChat /\ serverRead[screen] = newest[screen])
        => unread[screen] = 0

\* A chat the server holds unread keeps its badge (read.go, markRead: showing
\* it as read is "the one outcome worse than a stale badge").
BadgeNeverHides ==
    \A c \in Chats : (Settled /\ serverRead[c] < newest[c]) => unread[c] > 0
=============================================================================
