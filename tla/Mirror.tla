-------------------------------- MODULE Mirror --------------------------------
(***************************************************************************)
(* How the server's messages reach the local mirror, and leave it.  Three  *)
(* paths write the messages table with nothing but SQLite between them:    *)
(*   - pushed updates: UpdatesDispatcher (tg/updates.go) -> Bus ->         *)
(*     LiveService (core/sync/live.go);                                    *)
(*   - polling: PollingFallback (tg/polling.go), a net under the push      *)
(*     path, published through the dispatcher's own duplicate filter, which *)
(*     is asked first and not held;                                        *)
(*   - history: HistoryService.LoadInitial (core/sync/history.go), run by  *)
(*     BackfillService when a chat is opened.                              *)
(* The last two take a snapshot over the network and write it later.       *)
(*                                                                         *)
(* A message is its chat and its id; its content is a version.             *)
(***************************************************************************)
EXTENDS Naturals, FiniteSets, Sequences, FiniteSetsExt

CONSTANTS Chats,
          Channels,      \* those of them that number their own messages
          DedupCap,      \* dedupCacheCapacity
          BatchSize,     \* initialBatchSize
          BusCap,        \* defaultBufferSize
          MaxId,         \* bound: ids a chat uses
          MaxEdits, MaxDeletes, MaxChanges,
          MaxLost, MaxPolls, MaxLoads   \* bounds

VARIABLES
    server,      \* each message's version there; Deleted once it is gone
    wire,        \* updates on their way, in the server's order
    lru,         \* the dispatcher's duplicate filter, oldest first
    feed,        \* LiveService's subscription
    mirror,      \* each stored message's version, 0 when there is no row
    plain,       \* rows stored without the formatting a poll leaves out
    listed,      \* chats.last_message_date, as an id; 0 without a chat row
    poll,        \* the poll under way
    overtaken,   \* messages edited or deleted between a poll's filter and its publish
    watermark,   \* PollingFallback.watermark
    load,        \* the history fetch under way
    verified,    \* chats HistoryService confirmed within the window
    missed,      \* messages with an update that never reached LiveService
    used         \* how much of each bound is spent

polling == <<poll, watermark, overtaken>>
history == <<load, verified>>
vars == <<server, wire, lru, feed, mirror, plain, listed, polling, history,
          missed, used>>

Kinds == {"edits", "deletes", "lost", "polls", "loads"}
Limit == [k \in Kinds |-> CASE k = "edits" -> MaxEdits
                            [] k = "deletes" -> MaxDeletes
                            [] k = "lost" -> MaxLost
                            [] k = "polls" -> MaxPolls
                            [] k = "loads" -> MaxLoads]
Spend(k) == used[k] < Limit[k] /\ used' = [used EXCEPT ![k] = @ + 1]
Changes == used["edits"] + used["deletes"] < MaxChanges

Ids == 1 .. MaxId
Messages == Chats \X Ids
ChatOf(m) == m[1]
Deleted == MaxEdits + 2
Versions == 1 .. MaxEdits + 1
Alive(m) == server[m] \in Versions
Nothing == <<>>

Update == [type : {"new", "edit"}, msg : Messages, v : Versions,
           full : BOOLEAN]
          \union [type : {"delete"}, msg : Messages]

\* Of one chat: a poll has asked for what is newer than since, a load for the newest batch.
Answer == UNION {[S -> Versions] : S \in SUBSET Ids}
Poll == [chat : Chats, since : 0 .. MaxId, latest : 0 .. MaxId, passed : 0 .. MaxId,
         todo : Answer]
Load == [chat : Chats, rows : Answer]

TypeOK ==
    /\ server \in [Messages -> 0 .. Deleted]
    /\ wire \in Seq(Update) /\ feed \in Seq(Update) /\ Len(feed) <= BusCap
    /\ lru \in Seq(Messages) /\ Len(lru) <= DedupCap
    /\ mirror \in [Messages -> 0 .. MaxEdits + 1]
    /\ plain \subseteq {m \in Messages : mirror[m] # 0}
    /\ listed \in [Chats -> 0 .. MaxId]
    /\ watermark \in [Chats -> 0 .. MaxId]
    /\ poll \in {Nothing} \cup Poll /\ load \in {Nothing} \cup Load
    /\ verified \subseteq Chats /\ missed \subseteq Messages /\ overtaken \subseteq Messages
    /\ used \in [Kinds -> Nat]

Init ==
    /\ server = [m \in Messages |-> 0]
    /\ wire = <<>> /\ lru = <<>> /\ feed = <<>>
    /\ mirror = [m \in Messages |-> 0] /\ plain = {}
    /\ listed = [c \in Chats |-> 0]
    /\ poll = Nothing /\ watermark = listed
    /\ load = Nothing /\ verified = {}
    /\ missed = {} /\ overtaken = {}
    /\ used = [k \in Kinds |-> 0]

-----------------------------------------------------------------------------
(***************************************************************************)
(* The server.                                                             *)
(***************************************************************************)
\* Chats that are not channels draw their ids from one sequence.
Numbering(c) == IF c \in Channels THEN {c} ELSE Chats \ Channels
NextId(c) ==
    1 + Cardinality({m \in Numbering(c) \X Ids : server[m] # 0})

ServerSends(c) ==
    LET m == <<c, NextId(c)>> IN
    /\ m \in Messages
    /\ server' = [server EXCEPT ![m] = 1]
    /\ wire' = Append(wire, [type |-> "new", msg |-> m, v |-> 1, full |-> TRUE])
    /\ UNCHANGED <<lru, feed, mirror, plain, listed, polling, history, missed, used>>

ServerEdits(m) ==
    /\ Spend("edits") /\ Changes
    /\ Alive(m)
    /\ server' = [server EXCEPT ![m] = @ + 1]
    /\ wire' = Append(wire, [type |-> "edit", msg |-> m, v |-> server[m] + 1,
                             full |-> TRUE])
    /\ UNCHANGED <<lru, feed, mirror, plain, listed, polling, history, missed>>

ServerDeletes(m) ==
    /\ Spend("deletes") /\ Changes
    /\ Alive(m)
    /\ server' = [server EXCEPT ![m] = Deleted]
    /\ wire' = Append(wire, [type |-> "delete", msg |-> m])
    /\ UNCHANGED <<lru, feed, mirror, plain, listed, polling, history, missed>>

\* A gap too long to recover (OnTooLong), or an update no one was there for.
UpdateLost ==
    /\ Spend("lost")
    /\ wire # <<>>
    /\ missed' = missed \union {Head(wire).msg}
    /\ wire' = Tail(wire)
    /\ UNCHANGED <<server, lru, feed, mirror, plain, listed, polling, history>>

-----------------------------------------------------------------------------
(***************************************************************************)
(* UpdatesDispatcher and Bus.                                              *)
(***************************************************************************)
\* Mutant: the subscription's buffer has no limit.
Publish_Unbounded(e) == feed' = Append(feed, e) /\ UNCHANGED missed

\* Bus.Publish: a full subscription drops the event.
Publish(e) ==
    IF Len(feed) < BusCap
    THEN feed' = Append(feed, e) /\ UNCHANGED missed
    ELSE missed' = missed \union {e.msg} /\ UNCHANGED feed

Seen(m) == \E i \in DOMAIN lru : lru[i] = m

\* seen, on a key that is not there: record it, evict the oldest.
Remember(m) ==
    LET grown == Append(lru, m)
    IN  lru' = IF Len(grown) > DedupCap THEN Tail(grown) ELSE grown

\* seen, on a key that is: it becomes the youngest.
Youngest(q, i) == Append(SubSeq(q, 1, i - 1) \o SubSeq(q, i + 1, Len(q)), q[i])
Refresh(m) == \E i \in DOMAIN lru : lru[i] = m /\ lru' = Youngest(lru, i)

Duplicate(m) == Seen(m) /\ Refresh(m) /\ UNCHANGED <<feed, missed>>
FirstTime(e) == ~Seen(e.msg) /\ Remember(e.msg) /\ Publish(e)

\* The message a poll took through the filter and has not published yet.
Passed(m) == poll # Nothing /\ poll.passed # 0 /\ m = <<poll.chat, poll.passed>>

Dispatch ==
    LET u == Head(wire) IN
    /\ wire # <<>>
    /\ wire' = Tail(wire)
    /\ \/ u.type = "new" /\ (Duplicate(u.msg) \/ FirstTime(u)) /\ UNCHANGED overtaken
       \/ /\ u.type # "new" /\ Publish(u) /\ UNCHANGED lru
          /\ overtaken' = overtaken \union {m \in {u.msg} : Passed(m)}
    /\ UNCHANGED <<server, mirror, plain, listed, poll, watermark, history, used>>

-----------------------------------------------------------------------------
(***************************************************************************)
(* LiveService.                                                            *)
(***************************************************************************)
\* persist: EnsureChat, then SaveMessage.
Persist ==
    LET e == Head(feed) IN
    /\ feed # <<>> /\ e.type # "delete"
    /\ feed' = Tail(feed)
    /\ listed' = [listed EXCEPT ![ChatOf(e.msg)] =
                     IF @ = 0 THEN e.msg[2] ELSE @]
    /\ mirror' = [mirror EXCEPT ![e.msg] = e.v]
    /\ plain' = IF e.full THEN plain \ {e.msg} ELSE plain \union {e.msg}
    /\ UNCHANGED <<server, wire, lru, polling, history, missed, used>>

\* Mutant: a bare id is taken in every chat, channels included.
Addressed_BareId(m) == Chats \X {m[2]}

\* What a deletion event addresses: a channel's message, or a bare id in any
\* chat that is not a channel.
Addressed(m) ==
    IF ChatOf(m) \in Channels THEN {m} ELSE (Chats \ Channels) \X {m[2]}

\* forget: DeleteMessages
Forget ==
    LET gone == Addressed(Head(feed).msg) IN
    /\ feed # <<>> /\ Head(feed).type = "delete"
    /\ feed' = Tail(feed)
    /\ mirror' = [m \in Messages |-> IF m \in gone THEN 0 ELSE mirror[m]]
    /\ plain' = plain \ gone
    /\ UNCHANGED <<server, wire, lru, listed, polling, history, missed, used>>

-----------------------------------------------------------------------------
(***************************************************************************)
(* PollingFallback.tick, for one chat.                                     *)
(***************************************************************************)
Newest(S) == Max(S \union {0})
NewestStored(c) == Newest({i \in Ids : mirror[<<c, i>>] # 0})
Since(c) == Newest({watermark[c], NewestStored(c)})
OnServer(c) == {i \in Ids : Alive(<<c, i>>)}

\* The chats a poll visits are the ones the mirror has a row for.
PollFetches(c) ==
    LET fresh == {i \in OnServer(c) : i > Since(c)} IN
    /\ Spend("polls")
    /\ poll = Nothing
    /\ listed[c] # 0
    /\ poll' = [chat |-> c, since |-> Since(c), latest |-> Newest(fresh),
                passed |-> 0, todo |-> [i \in fresh |-> server[<<c, i>>]]]
    /\ UNCHANGED <<server, wire, lru, feed, mirror, plain, listed, watermark,
                   overtaken, history, missed>>

Rest(i) == [j \in DOMAIN poll.todo \ {i} |-> poll.todo[j]]

\* Mutant: a poll goes past the duplicate filter.
PollFilters_NoDeduper ==
    /\ poll # Nothing /\ poll.passed = 0 /\ DOMAIN poll.todo # {}
    /\ poll' = [poll EXCEPT !.passed = Max(DOMAIN poll.todo)]
    /\ UNCHANGED <<server, wire, lru, feed, mirror, plain, listed, watermark, overtaken,
                   history, missed, used>>

\* SeenMessage, of the answer's newest message that is left.
PollFilters ==
    LET i == Max(DOMAIN poll.todo)
        m == <<poll.chat, i>>
    IN
    /\ poll # Nothing /\ poll.passed = 0 /\ DOMAIN poll.todo # {}
    /\ \/ Seen(m) /\ Refresh(m) /\ poll' = [poll EXCEPT !.todo = Rest(i)]
       \/ ~Seen(m) /\ Remember(m) /\ poll' = [poll EXCEPT !.passed = i]
    /\ UNCHANGED <<server, wire, feed, mirror, plain, listed, watermark, overtaken,
                   history, missed, used>>

\* Publish, of the message that passed.
PollPublishes ==
    LET i == poll.passed IN
    /\ poll # Nothing /\ i # 0
    /\ Publish([type |-> "new", msg |-> <<poll.chat, i>>, v |-> poll.todo[i], full |-> FALSE])
    /\ poll' = [poll EXCEPT !.todo = Rest(i), !.passed = 0]
    /\ UNCHANGED <<server, wire, lru, mirror, plain, listed, watermark, overtaken, history,
                   used>>

PollAdvances ==
    /\ poll # Nothing /\ DOMAIN poll.todo = {} /\ poll.passed = 0
    /\ watermark' = IF poll.latest > poll.since
                    THEN [watermark EXCEPT ![poll.chat] = poll.latest]
                    ELSE watermark
    /\ poll' = Nothing
    /\ UNCHANGED <<server, wire, lru, feed, mirror, plain, listed, overtaken, history,
                   missed, used>>

-----------------------------------------------------------------------------
(***************************************************************************)
(* HistoryService.LoadInitial, and what it compares against.               *)
(***************************************************************************)
\* The chat's row, as a dialog sync last saw it.
DialogsSynced(c) ==
    /\ OnServer(c) # {}
    /\ listed[c] # Newest(OnServer(c))
    /\ listed' = [listed EXCEPT ![c] = Newest(OnServer(c))]
    /\ UNCHANGED <<server, wire, lru, feed, mirror, plain, polling, history,
                   missed, used>>

CacheIsCurrent(c) ==
    /\ c \in verified
    /\ listed[c] # 0 /\ NewestStored(c) # 0
    /\ NewestStored(c) >= listed[c]

Batch(c) ==
    {i \in OnServer(c) : Cardinality({j \in OnServer(c) : j >= i}) <= BatchSize}

\* The answer is verified the moment it arrives, before it is saved.
HistoryFetched(c) ==
    /\ Spend("loads")
    /\ load = Nothing
    /\ ~CacheIsCurrent(c)
    /\ verified' = verified \union {c}
    /\ load' = [chat |-> c, rows |-> [i \in Batch(c) |-> server[<<c, i>>]]]
    /\ UNCHANGED <<server, wire, lru, feed, mirror, plain, listed, polling, missed>>

\* SaveMessages: one transaction; a chat without a row refuses the rows.
HistorySaved ==
    LET saved == IF listed[load.chat] = 0 THEN {} ELSE DOMAIN load.rows
        rows == {load.chat} \X saved
    IN
    /\ load # Nothing
    /\ mirror' = [m \in Messages |-> IF m \in rows THEN load.rows[m[2]]
                                     ELSE mirror[m]]
    /\ plain' = plain \ rows
    /\ load' = Nothing
    /\ UNCHANGED <<server, wire, lru, feed, listed, polling, verified, missed, used>>

\* freshnessWindow passes.
VerdictExpires(c) ==
    /\ c \in verified
    /\ verified' = verified \ {c}
    /\ UNCHANGED <<server, wire, lru, feed, mirror, plain, listed, polling,
                   load, missed, used>>

-----------------------------------------------------------------------------
LiveStep == Persist \/ Forget
PollStep == PollFilters \/ PollPublishes \/ PollAdvances

Next ==
    \/ \E c \in Chats : ServerSends(c) \/ DialogsSynced(c) \/ PollFetches(c)
                        \/ HistoryFetched(c) \/ VerdictExpires(c)
    \/ \E m \in Messages : ServerEdits(m) \/ ServerDeletes(m)
    \/ UpdateLost \/ Dispatch \/ LiveStep \/ PollStep \/ HistorySaved

Spec == Init /\ [][Next]_vars

(***************************************************************************)
(* Everything sent has been handled.                                       *)
(***************************************************************************)
Settled == wire = <<>> /\ feed = <<>> /\ poll = Nothing /\ load = Nothing

\* A message whose updates all arrived and that the server still holds is in
\* the mirror: no deletion takes a message it does not name (repo.go,
\* DeleteMessages), no duplicate filter swallows the only copy (updates.go).
NothingMissing ==
    Settled => \A m \in Messages \ missed : Alive(m) => mirror[m] # 0

\* A stored message whose updates all arrived is what the server has: deleted
\* ones are gone and edits show (README.md, "messages or chats deleted
\* elsewhere disappear here too").  Except for one case: an edit or a deletion
\* published after a poll asked the filter about the message and before it
\* published its own, older copy is overwritten by that copy (polling.go).
NothingStale ==
    Settled => \A m \in Messages \ (missed \union overtaken) : mirror[m] \in {0, server[m]}

-----------------------------------------------------------------------------
(***************************************************************************)
(* What the source says and the code does not do.  README.md names the     *)
(* instance that refutes each of these.                                    *)
(***************************************************************************)
\* The polling fallback publishes "exactly like UpdatesDispatcher would, so
\* consumers downstream do not need to know which path delivered the data"
\* (polling.go): no stored message lacks what a push would have stored.
PolledLikePushed ==
    Settled => plain \subseteq missed
=============================================================================
