------------------------------ MODULE SyncProofs ------------------------------
(***************************************************************************)
(* Theorems about the services that keep the mirror.  Unread's hold for    *)
(* any chats, any queue and any number of messages, openings, syncs and    *)
(* failures; the others are of the specification MCSync checks, whose      *)
(* bounds are constants: what the dialog syncs leave in the mirror, what   *)
(* the secrets file keeps, and what is never taken back.                   *)
(***************************************************************************)
EXTENDS MCSync, SequenceTheorems, FiniteSetTheorems, WellFoundedInduction, TLAPS

Feed == Seq(Event)

(* What an event appended to a feed, or its head taken, leaves in place.   *)
LEMMA AppendFeed ==
  ASSUME NEW f \in Feed, NEW e \in Event
  PROVE  /\ Append(f, e) \in Feed /\ Len(Append(f, e)) = Len(f) + 1
         /\ \A i \in 1 .. Len(f) : Append(f, e)[i] = f[i]
         /\ Append(f, e)[Len(f) + 1] = e
  BY AppendProperties DEF Feed

LEMMA TailFeed ==
  ASSUME NEW f \in Feed, f # <<>>
  PROVE  /\ Tail(f) \in Feed /\ Len(Tail(f)) = Len(f) - 1 /\ Len(f) \in Nat \ {0}
         /\ \A i \in 1 .. Len(f) - 1 : Tail(f)[i] = f[i + 1]
         /\ Head(f) = f[1] /\ f[1] \in Event
  BY HeadTailProperties, LenProperties, ElementOfSeq DEF Feed

LEMMA FeedElement ==
  ASSUME NEW f \in Feed, NEW i \in 1 .. Len(f)
  PROVE  f[i] \in Event
  BY ElementOfSeq DEF Feed
-----------------------------------------------------------------------------
(* Types, and that nobody is ahead of the server.                          *)

Bounded(f) ==
  \A i \in 1 .. Len(f) : f[i].type = "message" => f[i].n \in 1 .. newest[f[i].chat]

Feeds == Bounded(liveFeed) /\ Bounded(readFeed)

Order ==
  /\ \A c \in Chats :
       /\ serverRead[c] <= newest[c] /\ stored[c] <= newest[c]
       /\ seen[c] <= newest[c] /\ arrived[c] <= newest[c]
       /\ acknowledged[c] <= serverRead[c]
  /\ ack # NoAck => ack.maxID \in 1 .. newest[ack.chat]
  /\ worker # Idle => worker.maxID <= newest[worker.chat]
  /\ worker.pc = "call" => worker.maxID > acknowledged[worker.chat]
  /\ worker.pc = "clear" => acknowledged[worker.chat] = worker.maxID

OrderInv == TypeOK /\ Feeds /\ Order

LEMMA InitOrder == Init => OrderInv
<1> SUFFICES ASSUME Init PROVE OrderInv
  OBVIOUS
<1>1. TypeOK
  BY QueueCapAssumption, EmptySeq DEF Init, TypeOK, Idle, NoAck, NoSnapshot, Kinds
<1>2. Feeds /\ Order
  BY EmptySeq DEF Init, Feeds, Order, Bounded, Idle, NoAck
<1> QED
  BY <1>1, <1>2 DEF OrderInv

(* Publish keeps both feeds within bounds when what is published is.       *)
LEMMA AppendBounded ==
  ASSUME NEW f \in Feed, Bounded(f), NEW e \in Event, newest \in [Chats -> Nat],
         newest' \in [Chats -> Nat], \A d \in Chats : newest[d] <= newest'[d],
         e.type = "message" => e.n \in 1 .. newest'[e.chat]
  PROVE  \A i \in 1 .. Len(Append(f, e)) :
           Append(f, e)[i].type = "message" => Append(f, e)[i].n \in 1 .. newest'[Append(f, e)[i].chat]
<1> SUFFICES ASSUME NEW i \in 1 .. Len(Append(f, e)), Append(f, e)[i].type = "message"
             PROVE  Append(f, e)[i].n \in 1 .. newest'[Append(f, e)[i].chat]
  OBVIOUS
<1>1. CASE i \in 1 .. Len(f)
  <2>1. Append(f, e)[i] = f[i] /\ f[i] \in Event
    BY <1>1, AppendFeed, FeedElement
  <2>2. f[i].n \in 1 .. newest[f[i].chat] /\ f[i].chat \in Chats
    BY <1>1, <2>1 DEF Bounded, Event
  <2>3. newest[f[i].chat] <= newest'[f[i].chat]
    BY <2>2
  <2> QED  BY <2>1, <2>2, <2>3
<1>2. CASE i = Len(f) + 1
  BY <1>2, AppendFeed
<1> QED
  BY <1>1, <1>2, AppendFeed, LenProperties DEF Feed

LEMMA PublishOrder ==
  ASSUME OrderInv, NEW kind \in {"open", "message", "readInbox"}, NEW c \in Chats, NEW n \in Nat,
         Publish(kind, c, n), newest' \in [Chats -> Nat], \A d \in Chats : newest[d] <= newest'[d],
         kind = "message" => n \in 1 .. newest'[c]
  PROVE  liveFeed' \in Seq(Event) /\ readFeed' \in Seq(Event) /\ Feeds'
<1> DEFINE e == [type |-> kind, chat |-> c, n |-> n]
<1>1. e \in Event /\ (e.type = "message" => e.n \in 1 .. newest'[e.chat])
  BY DEF Event
<1>2. /\ liveFeed \in Feed /\ readFeed \in Feed /\ newest \in [Chats -> Nat]
      /\ Bounded(liveFeed) /\ Bounded(readFeed)
      /\ liveFeed' = Append(liveFeed, e) /\ readFeed' = Append(readFeed, e)
  BY DEF OrderInv, TypeOK, Feeds, Feed, Publish
<1>3. Append(liveFeed, e) \in Seq(Event) /\ Append(readFeed, e) \in Seq(Event)
  BY <1>1, <1>2, AppendFeed DEF Feed
<1> HIDE DEF e
<1>4. Bounded(liveFeed)' /\ Bounded(readFeed)'
  BY <1>1, <1>2, AppendBounded DEF Bounded
<1> QED
  BY <1>2, <1>3, <1>4 DEF Feeds

(* Taking the head of a feed leaves a feed within bounds.                  *)
LEMMA TailBounded ==
  ASSUME NEW f \in Feed, f # <<>>, Bounded(f)
  PROVE  Tail(f) \in Seq(Event) /\ Bounded(Tail(f)) /\ Head(f) \in Event
         /\ (Head(f).type = "message" => Head(f).n \in 1 .. newest[Head(f).chat])
  BY TailFeed DEF Bounded, Feed

LEMMA NextFeeds ==
  ASSUME OrderInv, [Next]_vars
  PROVE  liveFeed' \in Seq(Event) /\ readFeed' \in Seq(Event) /\ Feeds'
<1> DEFINE Goal == liveFeed' \in Seq(Event) /\ readFeed' \in Seq(Event) /\ Feeds'
<1>0. /\ liveFeed \in Feed /\ readFeed \in Feed /\ newest \in [Chats -> Nat]
      /\ serverRead \in [Chats -> Nat] /\ \A d \in Chats : serverRead[d] <= newest[d]
  BY DEF OrderInv, TypeOK, Feed, Order
<1>1. ASSUME NEW c \in Chats, Receive(c) PROVE Goal
  <2>1. /\ newest' = [newest EXCEPT ![c] = newest[c] + 1] 
        /\ Publish("message", c, newest[c] + 1)
    BY <1>1 DEF Receive
  <2>2. /\ newest' \in [Chats -> Nat] /\ newest[c] + 1 \in 1 .. newest'[c]
        /\ \A d \in Chats : newest[d] <= newest'[d]
    BY <1>0, <2>1
  <2> QED  BY <1>0, <2>1, <2>2, PublishOrder
<1>2. ASSUME NEW c \in Chats, OpenChat(c) PROVE Goal
  <2>1. newest' = newest /\ Publish("open", c, 0)
    BY <1>2 DEF OpenChat, server
  <2> QED  BY <1>0, <2>1, PublishOrder
<1>3. ASSUME NEW c \in Chats, ReadElsewhere(c) PROVE Goal
  <2>1. newest' = newest
    BY <1>3 DEF ReadElsewhere
  <2>2. PICK m \in serverRead[c] + 1 .. newest[c] : Publish("readInbox", c, newest[c] - m)
    BY <1>3 DEF ReadElsewhere
  <2>3. newest[c] - m \in Nat
    BY <1>0
  <2> QED  BY <1>0, <2>1, <2>2, <2>3, PublishOrder
<1>4. ASSUME liveFeed # <<>>, liveFeed' = Tail(liveFeed), readFeed' = readFeed, newest' = newest
      PROVE  Goal
  BY <1>0, <1>4, TailBounded DEF OrderInv, Feeds, Bounded, Feed
<1>5. ASSUME readFeed # <<>>, readFeed' = Tail(readFeed), liveFeed' = liveFeed, newest' = newest
      PROVE  Goal
  BY <1>0, <1>5, TailBounded DEF OrderInv, Feeds, Bounded, Feed
<1>6. ASSUME readFeed' = readFeed, liveFeed' = liveFeed, newest' = newest
      PROVE  Goal
  BY <1>0, <1>6 DEF OrderInv, Feeds, Bounded, Feed
<1>7. LiveOpened \/ Persist \/ SetUnread => Goal
  BY <1>4 DEF LiveOpened, Persist, SetUnread, LiveTakes, reader, server
<1>8. RequestOpen \/ RequestAck \/ IgnoreRead => Goal
  BY <1>5 DEF RequestOpen, RequestAck, IgnoreRead, ReaderTakes, live, server
<1>9. CountUnread \/ TakeOpen \/ TakeAck \/ MarkReadOk \/ MarkReadFails \/ ClearUnread => Goal
  BY <1>6 DEF CountUnread, TakeOpen, TakeAck, MarkReadOk, MarkReadFails, ClearUnread, live, reader, server
<1>10. ASSUME NEW c \in Chats, FetchDialogs(c) \/ SaveChat(c) PROVE Goal
  BY <1>6, <1>10 DEF FetchDialogs, SaveChat, live, reader, server
<1>11. UNCHANGED vars => Goal
  BY <1>6 DEF vars, live, reader, server
<1> QED
  BY <1>1, <1>2, <1>3, <1>7, <1>8, <1>9, <1>10, <1>11 DEF Next

LEMMA SpendCounts ==
  ASSUME OrderInv, NEW k \in Kinds, Spend(k)
  PROVE  /\ used' \in [Kinds -> Nat] /\ used'[k] = used[k] + 1
         /\ \A j \in Kinds \ {k} : used'[j] = used[j]
<1>1. used \in [Kinds -> Nat]
  BY DEF OrderInv, TypeOK
<1>2. used' = [used EXCEPT ![k] = @ + 1]
  BY DEF Spend
<1> QED
  BY <1>1, <1>2

(* The types of the pointers, apart from those of the queues and workers.  *)
LEMMA PointerTypes ==
  ASSUME OrderInv
  PROVE  /\ newest \in [Chats -> Nat] /\ serverRead \in [Chats -> Nat]
         /\ seen \in [Chats -> Nat] /\ arrived \in [Chats -> Nat]
         /\ stored \in [Chats -> Nat] /\ unread \in [Chats -> Nat]
         /\ acknowledged \in [Chats -> Nat] /\ snapshot \in [Chats -> Nat \union {NoSnapshot}]
         /\ \A c \in Chats : serverRead[c] <= newest[c] /\ seen[c] <= newest[c]
                             /\ arrived[c] <= newest[c] /\ stored[c] <= newest[c]
  BY DEF OrderInv, TypeOK, Order

(* A worker that is not idle has a chat and a message to report.           *)
LEMMA WorkerTypes ==
  ASSUME OrderInv, worker # Idle
  PROVE  /\ worker.pc \in {"call", "clear"} /\ worker.chat \in Chats /\ worker.maxID \in Nat \ {0}
         /\ worker = [pc |-> worker.pc, chat |-> worker.chat, maxID |-> worker.maxID]
  BY DEF OrderInv, TypeOK

LEMMA NextTypes ==
  ASSUME OrderInv, [Next]_vars
  PROVE  TypeOK'
<1>0. liveFeed' \in Seq(Event) /\ readFeed' \in Seq(Event)
  BY NextFeeds
<1>1. ASSUME NEW c \in Chats, Receive(c) PROVE TypeOK'
  <2>1. used' \in [Kinds -> Nat]
    BY <1>1, SpendCounts DEF Receive, Kinds
  <2>2. newest' \in [Chats -> Nat] /\ seen' \in [Chats -> Nat] /\ arrived' \in [Chats -> Nat]
    BY <1>1, PointerTypes DEF Receive
  <2> QED  BY <1>0, <1>1, <2>1, <2>2 DEF Receive, OrderInv, TypeOK
<1>2. ASSUME NEW c \in Chats, OpenChat(c) PROVE TypeOK'
  <2>1. used' \in [Kinds -> Nat]
    BY <1>2, SpendCounts DEF OpenChat, Kinds
  <2>2. seen' \in [Chats -> Nat] /\ arrived' \in [Chats -> Nat]
    BY <1>2, PointerTypes DEF OpenChat
  <2> QED  BY <1>0, <1>2, <2>1, <2>2 DEF OpenChat, OrderInv, TypeOK, server
<1>3. ASSUME NEW c \in Chats, ReadElsewhere(c) PROVE TypeOK'
  <2>1. used' \in [Kinds -> Nat]
    BY <1>3, SpendCounts DEF ReadElsewhere, Kinds
  <2>2. serverRead' \in [Chats -> Nat]
    BY <1>3, PointerTypes DEF ReadElsewhere
  <2> QED  BY <1>0, <1>3, <2>1, <2>2 DEF ReadElsewhere, OrderInv, TypeOK, user
<1>4. ASSUME NEW c \in Chats, FetchDialogs(c) PROVE TypeOK'
  <2>1. used' \in [Kinds -> Nat]
    BY <1>4, SpendCounts DEF FetchDialogs, Kinds
  <2>2. newest[c] - serverRead[c] \in Nat
    BY PointerTypes
  <2>3. snapshot' \in [Chats -> Nat \union {NoSnapshot}]
    BY <1>4, <2>2, PointerTypes DEF FetchDialogs
  <2> QED  BY <1>4, <2>1, <2>3 DEF FetchDialogs, OrderInv, TypeOK, server, user, live, reader
<1>5. ASSUME NEW c \in Chats, SaveChat(c) PROVE TypeOK'
  <2>1. snapshot' \in [Chats -> Nat \union {NoSnapshot}] /\ unread' \in [Chats -> Nat]
    BY <1>5, PointerTypes DEF SaveChat
  <2> QED  BY <1>5, <2>1 DEF SaveChat, OrderInv, TypeOK, server, user, live, reader
<1>6. ASSUME LiveOpened \/ Persist \/ SetUnread PROVE TypeOK'
  <2>1. Head(liveFeed) \in Event
    BY <1>6, TailFeed DEF LiveOpened, Persist, SetUnread, LiveTakes, Feed, OrderInv, TypeOK
  <2>2. Head(liveFeed).chat \in Chats /\ Head(liveFeed).n \in Nat
    BY <2>1 DEF Event
  <2>3. CASE LiveOpened
    BY <1>0, <2>2, <2>3 DEF LiveOpened, OrderInv, TypeOK, server, user, reader
  <2>4. CASE Persist
    <3>1. stored' \in [Chats -> Nat]
      BY <2>2, <2>4, PointerTypes DEF Persist
    <3> QED  BY <1>0, <2>2, <2>4, <3>1 DEF Persist, OrderInv, TypeOK, server, user, reader
  <2>5. CASE SetUnread
    <3>1. unread' \in [Chats -> Nat]
      BY <2>2, <2>5, PointerTypes DEF SetUnread
    <3> QED  BY <1>0, <2>5, <3>1 DEF SetUnread, OrderInv, TypeOK, server, user, reader
  <2> QED  BY <1>6, <2>3, <2>4, <2>5
<1>7. CASE CountUnread
  <2>1. unread \in [Chats -> Nat] /\ \A d \in Chats : unread[d] + 1 \in Nat
    BY PointerTypes
  <2>2. unread' = unread \/ unread' = [unread EXCEPT ![counting] = unread[counting] + 1]
    BY <1>7 DEF CountUnread
  <2>3. unread' \in [Chats -> Nat]
    BY <2>1, <2>2
  <2> QED  BY <1>7, <2>3 DEF CountUnread, OrderInv, TypeOK, server, user, reader
<1>8. ASSUME RequestOpen \/ RequestAck \/ IgnoreRead PROVE TypeOK'
  <2>1. Head(readFeed) \in Event
    BY <1>8, TailFeed DEF RequestOpen, RequestAck, IgnoreRead, ReaderTakes, Feed, OrderInv, TypeOK
  <2>2. Head(readFeed).chat \in Chats /\ Head(readFeed).n \in Nat
    BY <2>1 DEF Event
  <2>3. CASE RequestOpen
    <3>1. opens' \in Seq(Chats) /\ Len(opens') <= QueueCap
      BY <2>2, <2>3, QueueCapAssumption, AppendProperties, LenProperties DEF RequestOpen, OrderInv, TypeOK
    <3> QED  BY <1>0, <2>2, <2>3, <3>1 DEF RequestOpen, OrderInv, TypeOK, server, user, live
  <2>4. CASE RequestAck
    <3>1. ack' \in Request \union {NoAck}
      BY <2>2, <2>4 DEF RequestAck, Request, OrderInv, TypeOK
    <3> QED  BY <1>0, <2>4, <3>1 DEF RequestAck, OrderInv, TypeOK, server, user, live
  <2>5. CASE IgnoreRead
    BY <1>0, <2>5 DEF IgnoreRead, OrderInv, TypeOK, server, user, live
  <2> QED  BY <1>8, <2>3, <2>4, <2>5
<1>9. CASE TakeOpen
  <2>1. Head(opens) \in Chats /\ Tail(opens) \in Seq(Chats) /\ Len(Tail(opens)) <= QueueCap
    BY <1>9, QueueCapAssumption, HeadTailProperties, LenProperties DEF TakeOpen, OrderInv, TypeOK
  <2>2. worker' \in [pc : {"call", "clear"}, chat : Chats, maxID : Nat \ {0}] \union {Idle}
    BY <1>9, <2>1, PointerTypes DEF TakeOpen, Begin
  <2> QED  BY <1>9, <2>1, <2>2 DEF TakeOpen, OrderInv, TypeOK, server, user, live
<1>10. CASE TakeAck
  <2>1. ack.chat \in Chats /\ ack.maxID \in Nat
    BY <1>10 DEF TakeAck, Request, OrderInv, TypeOK
  <2>2. worker' \in [pc : {"call", "clear"}, chat : Chats, maxID : Nat \ {0}] \union {Idle}
    BY <1>10, <2>1, PointerTypes DEF TakeAck, Begin
  <2> QED  BY <1>10, <2>2 DEF TakeAck, OrderInv, TypeOK, server, user, live
<1>11. ASSUME MarkReadOk \/ MarkReadFails \/ ClearUnread PROVE TypeOK'
  <2>1. worker # Idle
    BY <1>11 DEF MarkReadOk, MarkReadFails, ClearUnread, Idle
  <2>2. CASE MarkReadOk
    <3>1. worker' \in [pc : {"call", "clear"}, chat : Chats, maxID : Nat \ {0}]
      BY <2>1, <2>2, WorkerTypes DEF MarkReadOk
    <3>2. serverRead' \in [Chats -> Nat] /\ acknowledged' \in [Chats -> Nat]
      BY <2>1, <2>2, WorkerTypes, PointerTypes DEF MarkReadOk, ServerMarks
    <3> QED  BY <2>2, <3>1, <3>2 DEF MarkReadOk, OrderInv, TypeOK, user, live, reader
  <2>3. CASE MarkReadFails
    <3>1. used' \in [Kinds -> Nat]
      BY <2>3, SpendCounts DEF MarkReadFails, Kinds
    <3>2. serverRead' \in [Chats -> Nat]
      BY <2>1, <2>3, WorkerTypes, PointerTypes DEF MarkReadFails, ServerMarks
    <3> QED  BY <2>3, <3>1, <3>2 DEF MarkReadFails, OrderInv, TypeOK, user, live, reader
  <2>4. CASE ClearUnread
    <3>1. worker.chat \in Chats /\ unread \in [Chats -> Nat] /\ 0 \in Nat
      BY <2>1, WorkerTypes, PointerTypes
    <3>2. unread' = [unread EXCEPT ![worker.chat] = 0]
      BY <2>4 DEF ClearUnread
    <3>3. unread' \in [Chats -> Nat]
      BY <3>1, <3>2
    <3> QED  BY <2>4, <3>3 DEF ClearUnread, OrderInv, TypeOK, server, user, live, reader
  <2> QED  BY <1>11, <2>2, <2>3, <2>4
<1>12. CASE UNCHANGED vars
  BY <1>12 DEF vars, server, user, live, reader, OrderInv, TypeOK
<1> QED
  BY <1>1, <1>2, <1>3, <1>4, <1>5, <1>6, <1>7, <1>8, <1>9, <1>10, <1>11, <1>12 DEF Next

(* What Order says of the queue and the worker, in the terms of the steps. *)
LEMMA OrderFacts ==
  ASSUME OrderInv
  PROVE  /\ \A c \in Chats : acknowledged[c] <= serverRead[c]
         /\ ack # NoAck => ack.chat \in Chats /\ ack.maxID \in 1 .. newest[ack.chat]
         /\ worker # Idle => worker.maxID <= newest[worker.chat]
         /\ worker.pc = "call" => worker.maxID > acknowledged[worker.chat]
         /\ worker.pc = "clear" => acknowledged[worker.chat] = worker.maxID
  BY DEF OrderInv, Order, TypeOK, Request

LEMMA NextOrder ==
  ASSUME OrderInv, [Next]_vars
  PROVE  Order'
<1>1. ASSUME NEW c \in Chats, Receive(c) PROVE Order'
  <2>1. /\ newest' = [newest EXCEPT ![c] = newest[c] + 1]
        /\ \/ /\ seen' = [seen EXCEPT ![c] = newest[c] + 1]
              /\ arrived' = [arrived EXCEPT ![c] = newest[c] + 1]
           \/ seen' = seen /\ arrived' = arrived
        /\ UNCHANGED <<serverRead, stored, acknowledged, ack, worker>>
    BY <1>1 DEF Receive
  <2>2. /\ newest' \in [Chats -> Nat] /\ \A d \in Chats : newest[d] <= newest'[d]
        /\ newest'[c] = newest[c] + 1
    BY <2>1, PointerTypes
  <2>3. \A d \in Chats :
          /\ serverRead'[d] <= newest'[d] /\ stored'[d] <= newest'[d]
          /\ seen'[d] <= newest'[d] /\ arrived'[d] <= newest'[d]
          /\ acknowledged'[d] <= serverRead'[d]
    BY <2>1, <2>2, PointerTypes, OrderFacts
  <2>4. ack' # NoAck => ack'.maxID \in 1 .. newest'[ack'.chat]
    BY <2>1, <2>2, PointerTypes, OrderFacts
  <2>5. worker' # Idle => worker'.maxID <= newest'[worker'.chat]
    BY <2>1, <2>2, PointerTypes, OrderFacts, WorkerTypes
  <2> QED  BY <2>1, <2>3, <2>4, <2>5, OrderFacts DEF Order
<1>2. ASSUME NEW c \in Chats, OpenChat(c) PROVE Order'
  <2>1. /\ seen' = [seen EXCEPT ![c] = newest[c]]
        /\ arrived' = arrived \/ arrived' = [arrived EXCEPT ![c] = 0]
        /\ UNCHANGED <<newest, serverRead, stored, acknowledged, ack, worker>>
    BY <1>2 DEF OpenChat, server
  <2>2. \A d \in Chats : seen'[d] <= newest[d] /\ arrived'[d] <= newest[d]
    BY <2>1, PointerTypes
  <2> QED  BY <2>1, <2>2, OrderFacts, PointerTypes DEF Order
<1>3. ASSUME NEW c \in Chats, ReadElsewhere(c) PROVE Order'
  <2>1. PICK m \in serverRead[c] + 1 .. newest[c] : serverRead' = [serverRead EXCEPT ![c] = m]
    BY <1>3 DEF ReadElsewhere
  <2>2. UNCHANGED <<newest, seen, arrived, stored, acknowledged, ack, worker>>
    BY <1>3 DEF ReadElsewhere, user
  <2>3. \A d \in Chats : serverRead'[d] <= newest[d] /\ serverRead[d] <= serverRead'[d]
                         /\ serverRead'[d] \in Nat
    BY <2>1, PointerTypes
  <2>4. \A d \in Chats : acknowledged[d] <= serverRead'[d]
    BY <2>3, OrderFacts, PointerTypes
  <2> QED  BY <2>2, <2>3, <2>4, OrderFacts, PointerTypes DEF Order
<1>4. CASE Persist
  <2>1. /\ Head(liveFeed).type = "message" /\ liveFeed # <<>> /\ liveFeed \in Feed /\ Bounded(liveFeed)
    BY <1>4 DEF Persist, LiveTakes, Feed, OrderInv, TypeOK, Feeds
  <2>2. Head(liveFeed).chat \in Chats /\ Head(liveFeed).n \in 1 .. newest[Head(liveFeed).chat]
    BY <2>1, TailBounded DEF Event
  <2>3. stored' = [stored EXCEPT ![Head(liveFeed).chat] = Head(liveFeed).n]
    BY <1>4 DEF Persist
  <2>4. \A d \in Chats : stored'[d] <= newest[d]
    BY <2>2, <2>3, PointerTypes
  <2> QED  BY <1>4, <2>4, OrderFacts, PointerTypes DEF Order, Persist, server, user, reader
<1>5. CASE RequestAck
  <2>1. /\ Head(readFeed).type = "message" /\ readFeed # <<>> /\ readFeed \in Feed /\ Bounded(readFeed)
    BY <1>5 DEF RequestAck, ReaderTakes, Feed, OrderInv, TypeOK, Feeds
  <2>2. Head(readFeed).chat \in Chats /\ Head(readFeed).n \in 1 .. newest[Head(readFeed).chat]
    BY <2>1, TailBounded DEF Event
  <2>3. ack' # NoAck => ack'.maxID \in 1 .. newest[ack'.chat]
    BY <1>5, <2>2, OrderFacts DEF RequestAck
  <2> QED  BY <1>5, <2>3, OrderFacts, PointerTypes DEF Order, RequestAck, server, user, live
<1>6. CASE TakeOpen
  <2>1. Head(opens) \in Chats
    BY <1>6, HeadTailProperties DEF TakeOpen, OrderInv, TypeOK
  <2>2. \/ worker' = Idle
        \/ /\ worker' = [pc |-> "call", chat |-> Head(opens), maxID |-> stored[Head(opens)]]
           /\ stored[Head(opens)] > acknowledged[Head(opens)]
    BY <1>6 DEF TakeOpen, Begin
  <2>3. stored[Head(opens)] <= newest[Head(opens)]
    BY <2>1, PointerTypes
  <2>4. /\ worker' # Idle => worker'.maxID <= newest[worker'.chat]
        /\ worker'.pc = "call" => worker'.maxID > acknowledged[worker'.chat]
        /\ worker'.pc # "clear"
    BY <2>2, <2>3 DEF Idle
  <2> QED  BY <1>6, <2>4, OrderFacts, PointerTypes DEF Order, TakeOpen, server, user, live
<1>7. CASE TakeAck
  <2>1. ack # NoAck
    BY <1>7 DEF TakeAck
  <2>2. \/ worker' = Idle
        \/ /\ worker' = [pc |-> "call", chat |-> ack.chat, maxID |-> ack.maxID]
           /\ ack.maxID > acknowledged[ack.chat]
    BY <1>7 DEF TakeAck, Begin
  <2>3. /\ worker' # Idle => worker'.maxID <= newest[worker'.chat]
        /\ worker'.pc = "call" => worker'.maxID > acknowledged[worker'.chat]
        /\ worker'.pc # "clear"
    BY <2>1, <2>2, OrderFacts, PointerTypes DEF Idle
  <2> QED  BY <1>7, <2>3, OrderFacts, PointerTypes DEF Order, TakeAck, server, user, live
<1>8. CASE MarkReadOk
  <2>1. worker.pc = "call" /\ worker # Idle
    BY <1>8 DEF MarkReadOk, Idle
  <2>2. /\ serverRead' = [serverRead EXCEPT ![worker.chat] =
                             IF worker.maxID > serverRead[worker.chat] THEN worker.maxID ELSE serverRead[worker.chat]]
        /\ acknowledged' = [acknowledged EXCEPT ![worker.chat] = worker.maxID]
        /\ worker' = [pc |-> "clear", chat |-> worker.chat, maxID |-> worker.maxID]
    BY <1>8, <2>1, WorkerTypes DEF MarkReadOk, ServerMarks
  <2>3. \A d \in Chats : serverRead'[d] <= newest[d] /\ acknowledged'[d] <= serverRead'[d]
    BY <2>1, <2>2, WorkerTypes, PointerTypes, OrderFacts
  <2>4. /\ worker'.maxID <= newest[worker'.chat] /\ worker'.pc # "call"
        /\ acknowledged'[worker'.chat] = worker'.maxID
    BY <2>1, <2>2, WorkerTypes, PointerTypes, OrderFacts
  <2> QED  BY <1>8, <2>3, <2>4, OrderFacts, PointerTypes DEF Order, MarkReadOk, user, live, reader
<1>9. CASE MarkReadFails
  <2>1. worker.pc = "call" /\ worker # Idle
    BY <1>9 DEF MarkReadFails, Idle
  <2>2. \/ serverRead' = [serverRead EXCEPT ![worker.chat] =
                             IF worker.maxID > serverRead[worker.chat] THEN worker.maxID ELSE serverRead[worker.chat]]
        \/ serverRead' = serverRead
    BY <1>9 DEF MarkReadFails, ServerMarks
  <2>3. \A d \in Chats : serverRead'[d] <= newest[d] /\ acknowledged[d] <= serverRead'[d]
    BY <2>1, <2>2, WorkerTypes, PointerTypes, OrderFacts
  <2>4. worker' = Idle /\ worker'.pc # "call" /\ worker'.pc # "clear"
    BY <1>9 DEF MarkReadFails, Idle
  <2> QED  BY <1>9, <2>3, <2>4, OrderFacts, PointerTypes DEF Order, MarkReadFails, user, live, reader
<1>10. CASE ClearUnread
  <2>1. worker' = Idle /\ worker'.pc # "call" /\ worker'.pc # "clear"
    BY <1>10 DEF ClearUnread, Idle
  <2> QED  BY <1>10, <2>1, OrderFacts, PointerTypes DEF Order, ClearUnread, server, user, live, reader
<1>11. ASSUME UNCHANGED <<server, user, stored, acknowledged, ack, worker>> PROVE Order'
  BY <1>11, OrderFacts, PointerTypes DEF Order, server, user
<1>12. LiveOpened \/ CountUnread \/ SetUnread \/ RequestOpen \/ IgnoreRead => Order'
  BY <1>11 DEF LiveOpened, CountUnread, SetUnread, RequestOpen, IgnoreRead, live, reader
<1>13. ASSUME NEW c \in Chats, FetchDialogs(c) \/ SaveChat(c) PROVE Order'
  BY <1>11, <1>13 DEF FetchDialogs, SaveChat, live, reader
<1>14. UNCHANGED vars => Order'
  BY <1>11 DEF vars, live, reader
<1> QED
  BY <1>1, <1>2, <1>3, <1>4, <1>5, <1>6, <1>7, <1>8, <1>9, <1>10, <1>12, <1>13, <1>14 DEF Next

LEMMA NextOrderInv ==
  ASSUME OrderInv, [Next]_vars
  PROVE  OrderInv'
  BY NextTypes, NextFeeds, NextOrder DEF OrderInv

(* Nobody is ahead of the server: no pointer of the program, no request    *)
(* and no pending event names a message that was not delivered, and what   *)
(* ReadService acknowledged the server holds read (read.go, markRead).     *)
THEOREM OrderHolds == Spec => []OrderInv
<1>1. Init => OrderInv
  BY InitOrder
<1>2. OrderInv /\ [Next]_vars => OrderInv'
  BY NextOrderInv
<1> QED
  BY <1>1, <1>2, PTL DEF Spec

(* A request never covers a message the service has acknowledged already,  *)
(* and what it acknowledged the server holds read (read.go, markRead).     *)
THEOREM AcksOnlyAdvance == Spec => [][AcksAdvance]_vars
<1>1. OrderInv /\ [Next]_vars => [AcksAdvance]_vars
  <2> SUFFICES ASSUME OrderInv, Next, NEW c \in Chats, acknowledged'[c] # acknowledged[c]
               PROVE  acknowledged'[c] > acknowledged[c] /\ serverRead'[c] >= acknowledged'[c]
    BY DEF AcksAdvance
  <2>1. MarkReadOk
    BY DEF Next, Receive, OpenChat, ReadElsewhere, FetchDialogs, SaveChat, LiveOpened, Persist, CountUnread,
           SetUnread, RequestOpen, RequestAck, IgnoreRead, TakeOpen, TakeAck, MarkReadFails, ClearUnread
  <2>2. worker.pc = "call" /\ worker # Idle
    BY <2>1 DEF MarkReadOk, Idle
  <2>3. /\ serverRead' = [serverRead EXCEPT ![worker.chat] =
                             IF worker.maxID > serverRead[worker.chat] THEN worker.maxID ELSE serverRead[worker.chat]]
        /\ acknowledged' = [acknowledged EXCEPT ![worker.chat] = worker.maxID]
    BY <2>1 DEF MarkReadOk, ServerMarks
  <2> QED  BY <2>2, <2>3, WorkerTypes, PointerTypes, OrderFacts
<1> QED
  BY <1>1, OrderHolds, PTL DEF Spec

-----------------------------------------------------------------------------
(***************************************************************************)
(* What a service will have open.  A service whose openChat is o and whose *)
(* pending events are f has chat c open when it comes to the k-th of them. *)
(***************************************************************************)
OpenAt(f, o, c, k) ==
  \E i \in 0 .. k - 1 :
     /\ IF i = 0 THEN o = c ELSE f[i].type = "open" /\ f[i].chat = c
     /\ \A j \in i + 1 .. k - 1 : f[j].type = "open" => f[j].chat = c

IsMessage(e, c) == e.type = "message" /\ e.chat = c
IsReceipt(e, c) == e.type = "readInbox" /\ e.chat = c

\* Once all is handled, both services have the chat on screen open.
Follows ==
  /\ OpenAt(liveFeed, liveOpen, screen, Len(liveFeed) + 1)
  /\ OpenAt(readFeed, readOpen, screen, Len(readFeed) + 1)

\* After its k-th event f leaves c open and brings no message of it.
Rests(f, c, k) ==
  \A j \in k + 1 .. Len(f) :
     ~ IsMessage(f[j], c) /\ (f[j].type = "open" => f[j].chat = c)

\* Where the acknowledgement of message a of chat c is.
Reported(c, a) == serverRead[c] >= a
InCall(c, a) == worker.pc = "call" /\ worker.chat = c /\ worker.maxID >= a
InSlot(c, a) ==
  ack.chat = c /\ ack.maxID >= a /\ readOpen = c /\ Rests(readFeed, c, 0)
InFeed(c, a) ==
  \E k \in 1 .. Len(readFeed) :
     /\ IsMessage(readFeed[k], c) /\ readFeed[k].n = a
     /\ OpenAt(readFeed, readOpen, c, k) /\ Rests(readFeed, c, k)

\* The acknowledgement of what landed on screen is on its way.
OnItsWay(c, a) == Reported(c, a) \/ InCall(c, a) \/ InSlot(c, a) \/ InFeed(c, a)
Acking ==
  \A c \in Chats : \A a \in 1 .. newest[c] :
     used.failures = 0 /\ screen = c /\ arrived[c] = a => OnItsWay(c, a)

AckInv == OrderInv /\ Follows /\ Acking

LEMMA OpenAtAppend ==
  ASSUME NEW f \in Feed, NEW e \in Event, NEW o, NEW c, NEW k \in 1 .. Len(f) + 1, OpenAt(f, o, c, k)
  PROVE  OpenAt(Append(f, e), o, c, k)
<1>1. PICK i \in 0 .. k - 1 :
         /\ IF i = 0 THEN o = c ELSE f[i].type = "open" /\ f[i].chat = c
         /\ \A j \in i + 1 .. k - 1 : f[j].type = "open" => f[j].chat = c
  BY DEF OpenAt
<1>2. Len(f) \in Nat /\ \A j \in 1 .. k - 1 : Append(f, e)[j] = f[j]
  BY AppendFeed, LenProperties DEF Feed
<1>3. IF i = 0 THEN o = c ELSE Append(f, e)[i].type = "open" /\ Append(f, e)[i].chat = c
  BY <1>1, <1>2
<1>4. \A j \in i + 1 .. k - 1 : Append(f, e)[j].type = "open" => Append(f, e)[j].chat = c
  BY <1>1, <1>2
<1> QED
  BY <1>3, <1>4 DEF OpenAt

(* The event appended last decides, if it opens a chat at all.             *)
LEMMA OpenAtEnd ==
  ASSUME NEW f \in Feed, NEW e \in Event, NEW o, NEW c,
         IF e.type = "open" THEN e.chat = c ELSE OpenAt(f, o, c, Len(f) + 1)
  PROVE  OpenAt(Append(f, e), o, c, Len(Append(f, e)) + 1)
<1>1. /\ Len(f) \in Nat /\ Len(Append(f, e)) = Len(f) + 1 /\ Append(f, e)[Len(f) + 1] = e
      /\ \A j \in 1 .. Len(f) : Append(f, e)[j] = f[j]
  BY AppendFeed, LenProperties DEF Feed
<1>2. CASE e.type = "open"
  <2>1. Len(f) + 1 \in 0 .. (Len(f) + 2) - 1 /\ Len(f) + 1 # 0
    BY <1>1
  <2>2. \A j \in (Len(f) + 1) + 1 .. (Len(f) + 2) - 1 : FALSE
    BY <1>1
  <2>3. OpenAt(Append(f, e), o, c, Len(f) + 2)
    BY <1>1, <1>2, <2>1, <2>2 DEF OpenAt
  <2>4. Len(Append(f, e)) + 1 = Len(f) + 2
    BY <1>1
  <2> QED  BY <2>3, <2>4
<1>3. CASE e.type # "open"
  <2>1. PICK i \in 0 .. (Len(f) + 1) - 1 :
          /\ IF i = 0 THEN o = c ELSE f[i].type = "open" /\ f[i].chat = c
          /\ \A j \in i + 1 .. (Len(f) + 1) - 1 : f[j].type = "open" => f[j].chat = c
    BY <1>3 DEF OpenAt
  <2>2. IF i = 0 THEN o = c ELSE Append(f, e)[i].type = "open" /\ Append(f, e)[i].chat = c
    BY <1>1, <2>1
  <2>3. \A j \in i + 1 .. (Len(f) + 2) - 1 : Append(f, e)[j].type = "open" => Append(f, e)[j].chat = c
    <3> TAKE j \in i + 1 .. (Len(f) + 2) - 1
    <3>1. CASE j = Len(f) + 1
      BY <1>1, <1>3, <3>1
    <3>2. CASE j # Len(f) + 1
      BY <1>1, <2>1, <3>2
    <3> QED  BY <3>1, <3>2
  <2>4. i \in 0 .. (Len(f) + 2) - 1 /\ Len(Append(f, e)) + 1 = Len(f) + 2
    BY <1>1
  <2>5. OpenAt(Append(f, e), o, c, Len(f) + 2)
    BY <2>2, <2>3, <2>4 DEF OpenAt
  <2> QED  BY <2>4, <2>5
<1> QED
  BY <1>2, <1>3

\* What openChat is once the head of the feed is handled.
Opened(f, o) == IF Head(f).type = "open" THEN Head(f).chat ELSE o

LEMMA OpenAtTail ==
  ASSUME NEW f \in Feed, f # <<>>, NEW o, NEW c, NEW k \in 2 .. Len(f) + 1, OpenAt(f, o, c, k)
  PROVE  OpenAt(Tail(f), Opened(f, o), c, k - 1)
<1>1. PICK i \in 0 .. k - 1 :
         /\ IF i = 0 THEN o = c ELSE f[i].type = "open" /\ f[i].chat = c
         /\ \A j \in i + 1 .. k - 1 : f[j].type = "open" => f[j].chat = c
  BY DEF OpenAt
<1>2. /\ Len(f) \in Nat \ {0} /\ Head(f) = f[1]
      /\ \A j \in 1 .. k - 2 : Tail(f)[j] = f[j + 1]
  BY TailFeed
<1>3. CASE i \in {0, 1}
  <2>1. Opened(f, o) = c
    BY <1>1, <1>2, <1>3 DEF Opened
  <2>2. \A j \in 0 + 1 .. (k - 1) - 1 : Tail(f)[j].type = "open" => Tail(f)[j].chat = c
    BY <1>1, <1>2, <1>3
  <2>3. 0 \in 0 .. (k - 1) - 1
    OBVIOUS
  <2> QED  BY <2>1, <2>2, <2>3 DEF OpenAt
<1>4. CASE i > 1
  <2>1. i - 1 \in 0 .. (k - 1) - 1 /\ i - 1 # 0
    BY <1>4
  <2>2. Tail(f)[i - 1].type = "open" /\ Tail(f)[i - 1].chat = c
    BY <1>1, <1>2, <1>4
  <2>3. \A j \in (i - 1) + 1 .. (k - 1) - 1 : Tail(f)[j].type = "open" => Tail(f)[j].chat = c
    BY <1>1, <1>2, <1>4
  <2> QED  BY <2>1, <2>2, <2>3 DEF OpenAt
<1> QED
  BY <1>3, <1>4

\* What a step does to a feed and the openChat of the service that reads it.
Grows(f, o, e) == f' = Append(f, e) /\ o' = o
Shrinks(f, o) == f # <<>> /\ f' = Tail(f) /\ o' = Opened(f, o)
Keeps(f, o) == f' = f /\ o' = o

LEMMA FeedSteps ==
  ASSUME OrderInv, [Next]_vars
  PROVE  \/ \E e \in Event : /\ Grows(liveFeed, liveOpen, e) /\ Grows(readFeed, readOpen, e)
                             /\ screen' = IF e.type = "open" THEN e.chat ELSE screen
         \/ Shrinks(liveFeed, liveOpen) /\ Keeps(readFeed, readOpen) /\ screen' = screen
         \/ Keeps(liveFeed, liveOpen) /\ Shrinks(readFeed, readOpen) /\ screen' = screen
         \/ Keeps(liveFeed, liveOpen) /\ Keeps(readFeed, readOpen) /\ screen' = screen
<1> DEFINE Goal == 
         \/ \E e \in Event : /\ Grows(liveFeed, liveOpen, e) /\ Grows(readFeed, readOpen, e)
                             /\ screen' = IF e.type = "open" THEN e.chat ELSE screen
         \/ Shrinks(liveFeed, liveOpen) /\ Keeps(readFeed, readOpen) /\ screen' = screen
         \/ Keeps(liveFeed, liveOpen) /\ Shrinks(readFeed, readOpen) /\ screen' = screen
         \/ Keeps(liveFeed, liveOpen) /\ Keeps(readFeed, readOpen) /\ screen' = screen
<1>1. ASSUME NEW c \in Chats, Receive(c) PROVE Goal
  <2>1. [type |-> "message", chat |-> c, n |-> newest[c] + 1] \in Event
    BY PointerTypes DEF Event
  <2> QED  BY <1>1, <2>1 DEF Receive, Publish, Grows
<1>2. ASSUME NEW c \in Chats, OpenChat(c) PROVE Goal
  <2>1. [type |-> "open", chat |-> c, n |-> 0] \in Event
    BY DEF Event
  <2> QED  BY <1>2, <2>1 DEF OpenChat, Publish, Grows
<1>3. ASSUME NEW c \in Chats, ReadElsewhere(c) PROVE Goal
  <2>1. PICK m \in serverRead[c] + 1 .. newest[c] : Publish("readInbox", c, newest[c] - m)
    BY <1>3 DEF ReadElsewhere
  <2>2. [type |-> "readInbox", chat |-> c, n |-> newest[c] - m] \in Event
    BY PointerTypes DEF Event
  <2> QED  BY <1>3, <2>1, <2>2 DEF ReadElsewhere, Publish, Grows, user
<1>4. LiveOpened \/ Persist \/ SetUnread => Goal
  BY DEF LiveOpened, Persist, SetUnread, LiveTakes, Shrinks, Keeps, Opened, user, reader
<1>5. RequestOpen \/ RequestAck \/ IgnoreRead => Goal
  BY DEF RequestOpen, RequestAck, IgnoreRead, ReaderTakes, Shrinks, Keeps, Opened, user, live
<1>6. CountUnread \/ TakeOpen \/ TakeAck \/ MarkReadOk \/ MarkReadFails \/ ClearUnread => Goal
  BY DEF CountUnread, TakeOpen, TakeAck, MarkReadOk, MarkReadFails, ClearUnread, Keeps, user, live, reader
<1>7. ASSUME NEW c \in Chats, FetchDialogs(c) \/ SaveChat(c) PROVE Goal
  BY <1>7 DEF FetchDialogs, SaveChat, Keeps, user, live, reader
<1>8. UNCHANGED vars => Goal
  BY DEF vars, Keeps, user, live, reader
<1> QED
  BY <1>1, <1>2, <1>3, <1>4, <1>5, <1>6, <1>7, <1>8 DEF Next

LEMMA FollowsInFeed ==
  ASSUME NEW f \in Feed, NEW o, NEW s, OpenAt(f, o, s, Len(f) + 1), f # <<>>
  PROVE  OpenAt(Tail(f), Opened(f, o), s, Len(Tail(f)) + 1)
<1>1. Len(f) \in Nat \ {0} /\ Len(Tail(f)) = Len(f) - 1
  BY TailFeed
<1>2. Len(f) + 1 \in 2 .. Len(f) + 1 /\ (Len(f) + 1) - 1 = Len(Tail(f)) + 1
  BY <1>1
<1>3. OpenAt(Tail(f), Opened(f, o), s, (Len(f) + 1) - 1)
  BY <1>2, OpenAtTail
<1> QED
  BY <1>2, <1>3

LEMMA NextFollows ==
  ASSUME OrderInv, Follows, [Next]_vars
  PROVE  Follows'
<1>0. /\ liveFeed \in Feed /\ readFeed \in Feed
      /\ OpenAt(liveFeed, liveOpen, screen, Len(liveFeed) + 1)
      /\ OpenAt(readFeed, readOpen, screen, Len(readFeed) + 1)
  BY DEF OrderInv, TypeOK, Feed, Follows
<1>1. ASSUME NEW e \in Event, Grows(liveFeed, liveOpen, e), Grows(readFeed, readOpen, e),
             screen' = IF e.type = "open" THEN e.chat ELSE screen
      PROVE  Follows'
  <2>1. IF e.type = "open" THEN e.chat = screen' ELSE screen' = screen
    BY <1>1
  <2>2. OpenAt(Append(liveFeed, e), liveOpen, screen', Len(Append(liveFeed, e)) + 1)
    BY <1>0, <2>1, OpenAtEnd
  <2>3. OpenAt(Append(readFeed, e), readOpen, screen', Len(Append(readFeed, e)) + 1)
    BY <1>0, <2>1, OpenAtEnd
  <2> QED  BY <1>1, <2>2, <2>3 DEF Follows, Grows
<1>2. CASE Shrinks(liveFeed, liveOpen) /\ Keeps(readFeed, readOpen) /\ screen' = screen
  BY <1>0, <1>2, FollowsInFeed DEF Follows, Shrinks, Keeps
<1>3. CASE Keeps(liveFeed, liveOpen) /\ Shrinks(readFeed, readOpen) /\ screen' = screen
  BY <1>0, <1>3, FollowsInFeed DEF Follows, Shrinks, Keeps
<1>4. CASE Keeps(liveFeed, liveOpen) /\ Keeps(readFeed, readOpen) /\ screen' = screen
  BY <1>0, <1>4 DEF Follows, Keeps
<1> QED
  BY <1>1, <1>2, <1>3, <1>4, FeedSteps

(* A feed grown by an event that neither leaves c nor is a message of it.  *)
LEMMA RestsGrows ==
  ASSUME NEW f \in Feed, NEW e \in Event, NEW c, NEW k \in Nat, Rests(f, c, k),
         ~ IsMessage(e, c), e.type = "open" => e.chat = c
  PROVE  Rests(Append(f, e), c, k)
  BY AppendFeed, LenProperties DEF Rests, Feed

LEMMA RestsTail ==
  ASSUME NEW f \in Feed, f # <<>>, NEW c, NEW k \in Nat, Rests(f, c, k)
  PROVE  /\ Rests(Tail(f), c, IF k = 0 THEN 0 ELSE k - 1)
         /\ k = 0 => ~ IsMessage(Head(f), c) /\ (Head(f).type = "open" => Head(f).chat = c)
<1>1. /\ Len(f) \in Nat \ {0} /\ Len(Tail(f)) = Len(f) - 1 /\ Head(f) = f[1]
      /\ \A j \in 1 .. Len(f) - 1 : Tail(f)[j] = f[j + 1]
  BY TailFeed
<1>2. \A j \in k + 1 .. Len(f) : ~ IsMessage(f[j], c) /\ (f[j].type = "open" => f[j].chat = c)
  BY DEF Rests
<1>3. ASSUME NEW j \in (IF k = 0 THEN 0 ELSE k - 1) + 1 .. Len(Tail(f))
      PROVE  ~ IsMessage(Tail(f)[j], c) /\ (Tail(f)[j].type = "open" => Tail(f)[j].chat = c)
  <2>1. j + 1 \in k + 1 .. Len(f) /\ Tail(f)[j] = f[j + 1]
    BY <1>1
  <2> QED  BY <1>2, <2>1
<1> QED
  BY <1>1, <1>2, <1>3 DEF Rests

LEMMA ReaderTypes ==
  ASSUME OrderInv
  PROVE  /\ readFeed \in Feed /\ readOpen \in Chats \union {NoChat} /\ screen \in Chats \union {NoChat}
         /\ ack \in Request \union {NoAck} /\ NoChat \notin Chats
  BY NoChatAssumption DEF OrderInv, TypeOK, Feed

(* What the reader's next event leaves of an acknowledgement in its feed.  *)
LEMMA InFeedShrinks ==
  ASSUME OrderInv, NEW c \in Chats, NEW a \in Nat \ {0}, InFeed(c, a), Shrinks(readFeed, readOpen),
         IF IsMessage(Head(readFeed), readOpen)
           THEN ack' = [chat |-> readOpen, maxID |-> Head(readFeed).n] ELSE ack' = ack
  PROVE  InFeed(c, a)' \/ InSlot(c, a)'
<1>1. PICK k \in 1 .. Len(readFeed) :
         /\ IsMessage(readFeed[k], c) /\ readFeed[k].n = a
         /\ OpenAt(readFeed, readOpen, c, k) /\ Rests(readFeed, c, k)
  BY DEF InFeed
<1>2. /\ readFeed \in Feed /\ readFeed # <<>> /\ readFeed' = Tail(readFeed)
      /\ readOpen' = Opened(readFeed, readOpen)
  BY ReaderTypes DEF Shrinks
<1>3. /\ Len(readFeed) \in Nat \ {0} /\ Len(Tail(readFeed)) = Len(readFeed) - 1
      /\ \A j \in 1 .. Len(readFeed) - 1 : Tail(readFeed)[j] = readFeed[j + 1]
      /\ Head(readFeed) = readFeed[1]
  BY <1>2, TailFeed
<1>4. CASE k = 1
  <2>1. readOpen = c
    BY <1>1, <1>4 DEF OpenAt
  <2>2. ack' = [chat |-> c, maxID |-> a] /\ readOpen' = c
    BY <1>1, <1>2, <1>3, <1>4, <2>1 DEF IsMessage, Opened
  <2>3. Rests(Tail(readFeed), c, 0)
    BY <1>1, <1>2, <1>4, RestsTail
  <2> QED  BY <1>2, <2>2, <2>3 DEF InSlot
<1>5. CASE k > 1
  <2>1. k - 1 \in 1 .. Len(Tail(readFeed)) /\ Tail(readFeed)[k - 1] = readFeed[k]
    BY <1>3, <1>5
  <2>2. OpenAt(Tail(readFeed), Opened(readFeed, readOpen), c, k - 1)
    <3>1. k \in 2 .. Len(readFeed) + 1
      BY <1>3, <1>5
    <3> QED  BY <1>1, <1>2, <3>1, OpenAtTail
  <2>3. Rests(Tail(readFeed), c, k - 1)
    BY <1>1, <1>2, <1>5, RestsTail
  <2> QED  BY <1>1, <1>2, <2>1, <2>2, <2>3 DEF InFeed
<1> QED
  BY <1>4, <1>5

LEMMA InSlotShrinks ==
  ASSUME OrderInv, NEW c \in Chats, NEW a \in Nat, InSlot(c, a), Shrinks(readFeed, readOpen),
         IF IsMessage(Head(readFeed), readOpen)
           THEN ack' = [chat |-> readOpen, maxID |-> Head(readFeed).n] ELSE ack' = ack
  PROVE  InSlot(c, a)'
<1>1. /\ readFeed \in Feed /\ readFeed # <<>> /\ readFeed' = Tail(readFeed) /\ readOpen = c
      /\ readOpen' = Opened(readFeed, readOpen) /\ Rests(readFeed, c, 0)
  BY ReaderTypes DEF Shrinks, InSlot
<1>2. /\ Rests(Tail(readFeed), c, 0) /\ ~ IsMessage(Head(readFeed), c)
      /\ Head(readFeed).type = "open" => Head(readFeed).chat = c
  BY <1>1, RestsTail
<1> QED
  BY <1>1, <1>2 DEF InSlot, Opened

(* A new event takes nothing from what is on its way, unless it is a       *)
(* message of the chat or opens another.                                   *)
LEMMA OnItsWayGrows ==
  ASSUME OrderInv, NEW c \in Chats, NEW a \in Nat \ {0}, OnItsWay(c, a), NEW e \in Event,
         Grows(readFeed, readOpen, e), ~ IsMessage(e, c), e.type = "open" => e.chat = c,
         serverRead'[c] >= serverRead[c], serverRead'[c] \in Nat, ack' = ack, worker' = worker
  PROVE  OnItsWay(c, a)'
<1>0. readFeed \in Feed /\ readFeed' = Append(readFeed, e) /\ readOpen' = readOpen
  BY ReaderTypes DEF Grows
<1>1. CASE Reported(c, a)
  BY <1>1, PointerTypes DEF OnItsWay, Reported
<1>2. CASE InCall(c, a)
  BY <1>2 DEF OnItsWay, InCall
<1>3. CASE InSlot(c, a)
  BY <1>0, <1>3, RestsGrows DEF OnItsWay, InSlot
<1>4. CASE InFeed(c, a)
  <2>1. PICK k \in 1 .. Len(readFeed) :
           /\ IsMessage(readFeed[k], c) /\ readFeed[k].n = a
           /\ OpenAt(readFeed, readOpen, c, k) /\ Rests(readFeed, c, k)
    BY <1>4 DEF InFeed
  <2>2. /\ k \in 1 .. Len(Append(readFeed, e)) /\ Append(readFeed, e)[k] = readFeed[k]
        /\ k \in 1 .. Len(readFeed) + 1
    BY <1>0, <2>1, AppendFeed, LenProperties DEF Feed
  <2>3. OpenAt(Append(readFeed, e), readOpen, c, k) /\ Rests(Append(readFeed, e), c, k)
    BY <1>0, <2>1, <2>2, OpenAtAppend, RestsGrows
  <2> QED  BY <1>0, <2>1, <2>2, <2>3 DEF OnItsWay, InFeed
<1> QED
  BY <1>1, <1>2, <1>3, <1>4 DEF OnItsWay

(* A step of the worker or of the rest of the program.                     *)
LEMMA OnItsWayKept ==
  ASSUME OrderInv, NEW c \in Chats, NEW a \in Nat, OnItsWay(c, a), Keeps(readFeed, readOpen),
         serverRead'[c] >= serverRead[c], serverRead'[c] \in Nat, 
         InSlot(c, a) => ack' = ack \/ OnItsWay(c, a)',
         InCall(c, a) => OnItsWay(c, a)'
  PROVE  OnItsWay(c, a)'
<1>1. CASE Reported(c, a)
  BY <1>1, PointerTypes DEF OnItsWay, Reported
<1>2. CASE InSlot(c, a)
  BY <1>2 DEF OnItsWay, InSlot, Keeps
<1>3. CASE InFeed(c, a)
  BY <1>3 DEF OnItsWay, InFeed, Keeps
<1> QED
  BY <1>1, <1>2, <1>3 DEF OnItsWay

(* The server's pointers only move forward.                                *)
LEMMA ServerAdvances ==
  ASSUME OrderInv, [Next]_vars, NEW c \in Chats
  PROVE  serverRead'[c] \in Nat /\ serverRead'[c] >= serverRead[c]
<1>1. serverRead' \in [Chats -> Nat]
  BY NextTypes DEF TypeOK
<1>2. ASSUME NEW d \in Chats, ReadElsewhere(d) PROVE serverRead'[c] >= serverRead[c]
  <2>1. PICK m \in serverRead[d] + 1 .. newest[d] : serverRead' = [serverRead EXCEPT ![d] = m]
    BY <1>2 DEF ReadElsewhere
  <2> QED  BY <2>1, PointerTypes
<1>3. ASSUME MarkReadOk \/ MarkReadFails PROVE serverRead'[c] >= serverRead[c]
  <2>1. worker # Idle
    BY <1>3 DEF MarkReadOk, MarkReadFails, Idle
  <2>2. \/ serverRead' = [serverRead EXCEPT ![worker.chat] =
                             IF worker.maxID > serverRead[worker.chat] THEN worker.maxID ELSE serverRead[worker.chat]]
        \/ serverRead' = serverRead
    BY <1>3 DEF MarkReadOk, MarkReadFails, ServerMarks
  <2> QED  BY <2>1, <2>2, WorkerTypes, PointerTypes
<1>4. serverRead' = serverRead \/ (\E d \in Chats : ReadElsewhere(d)) \/ MarkReadOk \/ MarkReadFails
  BY DEF Next, vars, server, Receive, OpenChat, FetchDialogs, SaveChat, LiveOpened, Persist, CountUnread,
         SetUnread, RequestOpen, RequestAck, IgnoreRead, TakeOpen, TakeAck, ClearUnread
<1> QED
  BY <1>1, <1>2, <1>3, <1>4, PointerTypes

LEMMA NextAcking ==
  ASSUME AckInv, [Next]_vars
  PROVE  Acking'
<1>0. OrderInv /\ Follows /\ Acking
  BY DEF AckInv
<1> SUFFICES ASSUME NEW s \in Chats, NEW a \in 1 .. newest'[s],
                    used'.failures = 0, screen' = s, arrived'[s] = a
             PROVE  OnItsWay(s, a)'
  BY DEF Acking
<1>a. a \in Nat \ {0} /\ newest'[s] \in Nat
  BY <1>0, NextTypes DEF TypeOK
<1>b. serverRead'[s] \in Nat /\ serverRead'[s] >= serverRead[s]
  BY <1>0, ServerAdvances
\* What was on its way before a step that brings nothing to the screen.
<1>c. ASSUME screen = s, arrived[s] = a, used.failures = 0
      PROVE  OnItsWay(s, a)
  <2>1. a \in 1 .. newest[s]
    BY <1>0, <1>a, <1>c, PointerTypes
  <2> QED  BY <1>0, <1>c, <2>1 DEF Acking
<1>1. ASSUME NEW c \in Chats, Receive(c) PROVE OnItsWay(s, a)'
  <2> DEFINE m == newest[c] + 1
             e == [type |-> "message", chat |-> c, n |-> m]
  <2>1. m \in Nat \ {0} /\ e \in Event
    BY <1>0, PointerTypes DEF Event
  <2>2. /\ screen = s /\ Grows(readFeed, readOpen, e)
        /\ serverRead' = serverRead /\ ack' = ack /\ worker' = worker
    BY <1>1 DEF Receive, Publish, Grows
  <2>3. used.failures = 0
    <3>1. used'["failures"] = used["failures"]
      BY <1>0, <1>1, SpendCounts DEF Receive, Kinds
    <3> QED  BY <3>1
  <2>4. CASE s = c
    <3>1. a = m
      BY <1>0, <1>1, <2>2, <2>4, PointerTypes DEF Receive
    <3>2. OpenAt(readFeed, readOpen, s, Len(readFeed) + 1) /\ readFeed \in Feed
      BY <1>0, <2>2, ReaderTypes DEF Follows
    <3>3. /\ Len(readFeed) \in Nat /\ Len(Append(readFeed, e)) = Len(readFeed) + 1
          /\ Append(readFeed, e)[Len(readFeed) + 1] = e
      BY <2>1, <3>2, AppendFeed, LenProperties DEF Feed
    <3>4. OpenAt(Append(readFeed, e), readOpen, s, Len(readFeed) + 1)
      BY <2>1, <3>2, <3>3, OpenAtAppend
    <3>5. Rests(Append(readFeed, e), s, Len(readFeed) + 1)
      BY <3>3 DEF Rests
    <3>6. /\ readFeed' = Append(readFeed, e) /\ readOpen' = readOpen
          /\ IsMessage(e, s) /\ e.n = a /\ Len(readFeed) + 1 \in 1 .. Len(Append(readFeed, e))
      BY <2>2, <2>4, <3>1, <3>3 DEF Grows, IsMessage
    <3> QED  BY <3>3, <3>4, <3>5, <3>6 DEF OnItsWay, InFeed
  <2>5. CASE s # c
    <3>1. arrived[s] = a
      BY <1>1, <2>2, <2>5 DEF Receive
    <3>2. ~ IsMessage(e, s) /\ e.type # "open"
      BY <2>5 DEF IsMessage
    <3> HIDE DEF e
    <3> QED  BY <1>0, <1>a, <1>b, <1>c, <2>1, <2>2, <2>3, <3>1, <3>2, OnItsWayGrows
  <2> QED  BY <2>4, <2>5
<1>2. ASSUME NEW c \in Chats, OpenChat(c) PROVE OnItsWay(s, a)'
  <2> DEFINE e == [type |-> "open", chat |-> c, n |-> 0]
  <2>1. s = c /\ e \in Event /\ e.type = "open" /\ e.chat = c
    BY <1>2 DEF OpenChat, Event
  <2>2. screen = c /\ arrived' = arrived
    BY <1>0, <1>2, <1>a, <2>1, PointerTypes DEF OpenChat
  <2>3. used.failures = 0
    <3>1. used'["failures"] = used["failures"]
      BY <1>0, <1>2, SpendCounts DEF OpenChat, Kinds
    <3> QED  BY <3>1
  <2>4. Grows(readFeed, readOpen, e) /\ ack' = ack /\ worker' = worker
    BY <1>2 DEF OpenChat, Publish, Grows
  <2>5. ~ IsMessage(e, s)
    BY DEF IsMessage
  <2> HIDE DEF e
  <2> QED  BY <1>0, <1>a, <1>b, <1>c, <2>1, <2>2, <2>3, <2>4, <2>5, OnItsWayGrows
<1>3. ASSUME NEW c \in Chats, ReadElsewhere(c) PROVE OnItsWay(s, a)'
  <2>1. PICK n \in Nat : Publish("readInbox", c, n)
    <3>1. PICK m \in serverRead[c] + 1 .. newest[c] : Publish("readInbox", c, newest[c] - m)
      BY <1>3 DEF ReadElsewhere
    <3> QED  BY <1>0, <3>1, PointerTypes
  <2> DEFINE e == [type |-> "readInbox", chat |-> c, n |-> n]
  <2>2. e \in Event /\ ~ IsMessage(e, s) /\ e.type # "open"
    BY <2>1 DEF Event, IsMessage
  <2>3. Grows(readFeed, readOpen, e) /\ ack' = ack /\ worker' = worker /\ screen = s /\ arrived[s] = a
    BY <1>3, <2>1 DEF ReadElsewhere, Publish, Grows, user
  <2>4. used.failures = 0
    <3>1. used'["failures"] = used["failures"]
      BY <1>0, <1>3, SpendCounts DEF ReadElsewhere, Kinds
    <3> QED  BY <3>1
  <2> HIDE DEF e
  <2> QED  BY <1>0, <1>a, <1>b, <1>c, <2>2, <2>3, <2>4, OnItsWayGrows
\* The reader takes an event.
<1>4. ASSUME RequestOpen \/ RequestAck \/ IgnoreRead PROVE OnItsWay(s, a)'
  <2>1. /\ screen = s /\ arrived[s] = a /\ used.failures = 0 /\ worker' = worker
        /\ Shrinks(readFeed, readOpen)
        /\ IF IsMessage(Head(readFeed), readOpen)
             THEN ack' = [chat |-> readOpen, maxID |-> Head(readFeed).n] ELSE ack' = ack
    BY <1>4 DEF RequestOpen, RequestAck, IgnoreRead, ReaderTakes, Shrinks, Opened, IsMessage, user
  <2>2. OnItsWay(s, a)
    BY <1>c, <2>1
  <2>3. CASE Reported(s, a)
    BY <1>0, <1>a, <1>b, <2>3, PointerTypes DEF OnItsWay, Reported
  <2>4. CASE InCall(s, a)
    BY <2>1, <2>4 DEF OnItsWay, InCall
  <2>5. CASE InSlot(s, a)
    BY <1>0, <1>a, <2>1, <2>5, InSlotShrinks DEF OnItsWay
  <2>6. CASE InFeed(s, a)
    BY <1>0, <1>a, <2>1, <2>6, InFeedShrinks DEF OnItsWay
  <2> QED  BY <2>2, <2>3, <2>4, <2>5, <2>6 DEF OnItsWay
\* The worker takes a request and reports it.
<1>5. CASE TakeOpen
  <2>1. /\ screen = s /\ arrived[s] = a /\ used.failures = 0
        /\ Keeps(readFeed, readOpen) /\ ack' = ack
    BY <1>5 DEF TakeOpen, Keeps, user
  <2>2. ~ InCall(s, a)
    BY <1>5 DEF TakeOpen, InCall
  <2> QED  BY <1>0, <1>a, <1>b, <1>c, <2>1, <2>2, OnItsWayKept
<1>6. CASE TakeAck
  <2>1. /\ screen = s /\ arrived[s] = a /\ used.failures = 0
        /\ Keeps(readFeed, readOpen) /\ serverRead' = serverRead
    BY <1>6 DEF TakeAck, Keeps, user, server
  <2>2. ~ InCall(s, a)
    BY <1>6 DEF TakeAck, InCall
  <2>3. ASSUME InSlot(s, a) PROVE OnItsWay(s, a)'
    <3>1. ack.chat = s /\ ack.maxID >= a /\ ack.maxID \in Nat
      BY <1>0, <1>6, <2>3, ReaderTypes DEF InSlot, TakeAck, Request
    <3>2. CASE ack.maxID > acknowledged[s]
      BY <1>6, <3>1, <3>2 DEF TakeAck, Begin, OnItsWay, InCall
    <3>3. CASE ~ (ack.maxID > acknowledged[s])
      BY <1>0, <1>a, <2>1, <3>1, <3>3, PointerTypes, OrderFacts DEF OnItsWay, Reported
    <3> QED  BY <3>2, <3>3
  <2> QED  BY <1>0, <1>a, <1>b, <1>c, <2>1, <2>2, <2>3, OnItsWayKept
<1>7. CASE MarkReadOk
  <2>1. /\ screen = s /\ arrived[s] = a /\ used.failures = 0
        /\ Keeps(readFeed, readOpen) /\ ack' = ack
    BY <1>7 DEF MarkReadOk, Keeps, user, reader
  <2>2. ASSUME InCall(s, a) PROVE OnItsWay(s, a)'
    <3>1. worker.chat = s /\ worker.maxID >= a /\ worker # Idle
      BY <2>2 DEF InCall, Idle
    <3>2. serverRead' = [serverRead EXCEPT ![s] = IF worker.maxID > serverRead[s] THEN worker.maxID ELSE serverRead[s]]
      BY <1>7, <3>1 DEF MarkReadOk, ServerMarks
    <3>3. serverRead'[s] >= a
      BY <1>0, <1>a, <3>1, <3>2, PointerTypes, WorkerTypes
    <3> QED  BY <3>3 DEF OnItsWay, Reported
  <2> QED  BY <1>0, <1>a, <1>b, <1>c, <2>1, <2>2, OnItsWayKept
<1>8. CASE MarkReadFails
  <2>1. used'["failures"] = used["failures"] + 1 /\ used \in [Kinds -> Nat] /\ "failures" \in Kinds
    BY <1>0, <1>8, SpendCounts DEF MarkReadFails, Kinds, OrderInv, TypeOK
  <2>2. used["failures"] \in Nat
    BY <2>1
  <2> QED  BY <2>1, <2>2
\* The other steps touch nothing of this.
<1>9. ASSUME screen' = screen, arrived' = arrived, used'.failures = used.failures,
             Keeps(readFeed, readOpen), ack' = ack, worker' = worker
      PROVE  OnItsWay(s, a)'
  <2>1. OnItsWay(s, a)
    BY <1>c, <1>9
  <2>2. InCall(s, a) => OnItsWay(s, a)'
    BY <1>9 DEF OnItsWay, InCall
  <2> QED  BY <1>0, <1>a, <1>b, <1>9, <2>1, <2>2, OnItsWayKept
<1>10. LiveOpened \/ Persist \/ CountUnread \/ SetUnread => OnItsWay(s, a)'
  BY <1>9 DEF LiveOpened, Persist, CountUnread, SetUnread, Keeps, user, reader
<1>11. ClearUnread => OnItsWay(s, a)'
  <2> SUFFICES ASSUME ClearUnread PROVE OnItsWay(s, a)'
    OBVIOUS
  <2>1. /\ screen = s /\ arrived[s] = a /\ used.failures = 0
        /\ Keeps(readFeed, readOpen) /\ ack' = ack
    BY DEF ClearUnread, Keeps, user, reader
  <2>2. ~ InCall(s, a)
    BY DEF ClearUnread, InCall
  <2> QED  BY <1>0, <1>a, <1>b, <1>c, <2>1, <2>2, OnItsWayKept
<1>12. ASSUME NEW c \in Chats, FetchDialogs(c) \/ SaveChat(c) PROVE OnItsWay(s, a)'
  <2>1. used'["failures"] = used["failures"]
    <3>1. CASE FetchDialogs(c)
      BY <1>0, <3>1, SpendCounts DEF FetchDialogs, Kinds
    <3>2. CASE SaveChat(c)
      BY <3>2 DEF SaveChat
    <3> QED  BY <1>12, <3>1, <3>2
  <2>2. /\ screen' = screen /\ arrived' = arrived
        /\ Keeps(readFeed, readOpen) /\ ack' = ack /\ worker' = worker
    BY <1>12 DEF FetchDialogs, SaveChat, Keeps, user, reader
  <2> QED  BY <1>9, <2>1, <2>2
<1>13. UNCHANGED vars => OnItsWay(s, a)'
  BY <1>9 DEF vars, Keeps, user, reader
<1> QED
  BY <1>1, <1>2, <1>3, <1>4, <1>5, <1>6, <1>7, <1>8, <1>10, <1>11, <1>12, <1>13 DEF Next

LEMMA InitAck == Init => AckInv
<1> SUFFICES ASSUME Init PROVE AckInv
  OBVIOUS
<1>1. OrderInv
  BY InitOrder
<1>2. Follows
  BY EmptySeq DEF Init, Follows, OpenAt
<1>3. Acking
  BY DEF Init, Acking
<1> QED
  BY <1>1, <1>2, <1>3 DEF AckInv

(* What landed on screen is on its way to the server: pending for the      *)
(* reader, in the slot, in the call, or there (read.go, replaceAck).       *)
THEOREM AckHolds == Spec => []AckInv
<1>1. Init => AckInv
  BY InitAck
<1>2. AckInv /\ [Next]_vars => AckInv'
  BY NextOrderInv, NextFollows, NextAcking DEF AckInv
<1> QED
  BY <1>1, <1>2, PTL DEF Spec

LEMMA AckedWhenSettled ==
  ASSUME AckInv
  PROVE  LiveReadingAcked
<1> SUFFICES ASSUME Settled, used.failures = 0, screen # NoChat
             PROVE  serverRead[screen] >= arrived[screen]
  BY DEF LiveReadingAcked
<1>1. OrderInv /\ Acking /\ screen \in Chats
  BY ReaderTypes DEF AckInv
<1>2. arrived[screen] \in Nat /\ serverRead[screen] \in Nat /\ arrived[screen] <= newest[screen] /\ newest[screen] \in Nat
  BY <1>1, PointerTypes
<1>3. CASE arrived[screen] = 0
  BY <1>2, <1>3
<1>4. CASE arrived[screen] # 0
  <2>1. OnItsWay(screen, arrived[screen])
    BY <1>1, <1>2, <1>4 DEF Acking
  <2>2. ~ InCall(screen, arrived[screen]) /\ ~ InSlot(screen, arrived[screen])
    BY <1>1, ReaderTypes DEF Settled, InCall, InSlot, Idle, NoAck
  <2>3. ~ InFeed(screen, arrived[screen])
    BY EmptySeq DEF Settled, InFeed
  <2> QED  BY <2>1, <2>2, <2>3 DEF OnItsWay, Reported
<1> QED
  BY <1>3, <1>4

-----------------------------------------------------------------------------
(***************************************************************************)
(* The badge.  LiveService's feed holds the messages of a chat that the    *)
(* mirror lacks, those from lo + 1 to hi, each once and in order.          *)
(***************************************************************************)
Holds(f, c, lo, hi) ==
  /\ \A k \in 1 .. Len(f) : IsMessage(f[k], c) => f[k].n \in lo + 1 .. hi
  /\ \A k, l \in 1 .. Len(f) :
        k < l /\ IsMessage(f[k], c) /\ IsMessage(f[l], c) => f[k].n < f[l].n
  /\ \A v \in lo + 1 .. hi : \E k \in 1 .. Len(f) : IsMessage(f[k], c) /\ f[k].n = v

\* The service has a chat other than c open when it comes to a message of c.
Away(f, o, c) ==
  \A k \in 1 .. Len(f) : IsMessage(f[k], c) =>
     \E d \in (Chats \union {NoChat}) \ {c} : OpenAt(f, o, d, k)

\* A count u is that of the messages stored and not read: st of them are
\* stored, sr read and hi delivered.  Or a receipt is to come that makes it so,
\* and it accounts for the messages before it and for none after it.
Last(f, c, k) == IsReceipt(f[k], c) /\ \A l \in k + 1 .. Len(f) : ~ IsReceipt(f[l], c)
Balanced(f, c, u, st, sr, hi) ==
  \/ (\A k \in 1 .. Len(f) : ~ IsReceipt(f[k], c)) /\ u = st - sr
  \/ \E k \in 1 .. Len(f) :
       /\ Last(f, c, k) /\ f[k].n + sr \in st .. hi
       /\ \A l \in 1 .. Len(f) : IsMessage(f[l], c) => (l < k <=> f[l].n <= f[k].n + sr)

InHand(c) == IF counting = c THEN 1 ELSE 0

Unopened(c) == used.syncs = 0 /\ used.failures = 0 /\ seen[c] = 0 /\ acknowledged[c] = 0
Badge(c) ==
  /\ Away(liveFeed, liveOpen, c)
  /\ counting = c => liveOpen # c
  /\ Balanced(liveFeed, c, unread[c] + InHand(c), stored[c], serverRead[c], newest[c])

NoSyncs == used.syncs = 0 => \A c \in Chats : snapshot[c] = NoSnapshot

BadgeInv ==
  /\ OrderInv /\ Follows /\ NoSyncs
  /\ \A c \in Chats : /\ Holds(liveFeed, c, stored[c], newest[c])
                      /\ Unopened(c) => Badge(c)

LEMMA HoldsGrows ==
  ASSUME NEW f \in Feed, NEW e \in Event, NEW c, NEW lo \in Nat, NEW hi \in Nat, NEW top \in Nat,
         Holds(f, c, lo, hi), lo <= hi,
         IF IsMessage(e, c) THEN e.n = hi + 1 /\ top = hi + 1 ELSE top = hi
  PROVE  Holds(Append(f, e), c, lo, top)
<1> DEFINE g == Append(f, e)
<1>1. /\ Len(f) \in Nat /\ Len(g) = Len(f) + 1 /\ g[Len(f) + 1] = e
      /\ \A j \in 1 .. Len(f) : g[j] = f[j]
  BY AppendFeed, LenProperties DEF Feed
<1>2. \A j \in 1 .. Len(f) : f[j].n \in Nat
  BY FeedElement DEF Event
<1>3. \A k \in 1 .. Len(f) : IsMessage(f[k], c) => f[k].n \in lo + 1 .. hi
  BY DEF Holds
<1> HIDE DEF g
<1>4. \A k \in 1 .. Len(g) : IsMessage(g[k], c) => g[k].n \in lo + 1 .. top
  <2> SUFFICES ASSUME NEW k \in 1 .. Len(g), IsMessage(g[k], c) PROVE g[k].n \in lo + 1 .. top
    OBVIOUS
  <2>1. CASE k = Len(f) + 1
    BY <1>1, <2>1
  <2>2. CASE k # Len(f) + 1
    <3>1. k \in 1 .. Len(f) /\ g[k] = f[k]
      BY <1>1, <2>2
    <3> QED  BY <1>3, <3>1
  <2> QED  BY <2>1, <2>2
<1>5. ASSUME NEW k \in 1 .. Len(g), NEW l \in 1 .. Len(g), k < l, IsMessage(g[k], c), IsMessage(g[l], c)
      PROVE  g[k].n < g[l].n
  <2>1. k \in 1 .. Len(f) /\ g[k] = f[k] /\ f[k].n \in lo + 1 .. hi
    <3>1. k \in 1 .. Len(f) /\ g[k] = f[k]
      BY <1>1, <1>5
    <3> QED  BY <1>3, <1>5, <3>1
  <2>2. CASE l = Len(f) + 1
    BY <1>1, <1>5, <2>1, <2>2
  <2>3. CASE l # Len(f) + 1
    <3>1. l \in 1 .. Len(f) /\ g[l] = f[l]
      BY <1>1, <2>3
    <3> QED  BY <1>5, <2>1, <3>1 DEF Holds
  <2> QED  BY <2>2, <2>3
<1>6. ASSUME NEW v \in lo + 1 .. top PROVE \E k \in 1 .. Len(g) : IsMessage(g[k], c) /\ g[k].n = v
  <2>1. CASE v \in lo + 1 .. hi
    <3>1. PICK k \in 1 .. Len(f) : IsMessage(f[k], c) /\ f[k].n = v
      BY <2>1 DEF Holds
    <3>2. k \in 1 .. Len(g) /\ g[k] = f[k]
      BY <1>1
    <3> QED  BY <3>1, <3>2
  <2>2. CASE v \notin lo + 1 .. hi
    <3>1. IsMessage(e, c) /\ v = e.n /\ Len(f) + 1 \in 1 .. Len(g)
      BY <1>1, <2>2
    <3> QED  BY <1>1, <3>1
  <2> QED  BY <2>1, <2>2
<1>7. Holds(g, c, lo, top)
  BY <1>4, <1>5, <1>6 DEF Holds
<1> QED
  BY <1>7 DEF g

(* The head of the feed is the oldest message the mirror lacks.            *)
LEMMA HoldsShrinks ==
  ASSUME NEW f \in Feed, f # <<>>, NEW c, NEW lo \in Nat, NEW hi \in Nat, Holds(f, c, lo, hi)
  PROVE  /\ IsMessage(Head(f), c) => Head(f).n = lo + 1 /\ lo + 1 <= hi
         /\ Holds(Tail(f), c, IF IsMessage(Head(f), c) THEN lo + 1 ELSE lo, hi)
<1> DEFINE g == Tail(f)
<1>1. /\ Len(f) \in Nat \ {0} /\ Len(g) = Len(f) - 1 /\ Head(f) = f[1]
      /\ \A j \in 1 .. Len(f) - 1 : g[j] = f[j + 1]
  BY TailFeed
<1>2. /\ \A k \in 1 .. Len(f) : IsMessage(f[k], c) => f[k].n \in lo + 1 .. hi
      /\ \A k, l \in 1 .. Len(f) : k < l /\ IsMessage(f[k], c) /\ IsMessage(f[l], c) => f[k].n < f[l].n
      /\ \A v \in lo + 1 .. hi : \E k \in 1 .. Len(f) : IsMessage(f[k], c) /\ f[k].n = v
  BY DEF Holds
<1> HIDE DEF g
<1>3. ASSUME IsMessage(f[1], c) PROVE f[1].n = lo + 1 /\ lo + 1 <= hi
  <2>1. f[1].n \in lo + 1 .. hi /\ lo + 1 \in lo + 1 .. hi
    BY <1>1, <1>2, <1>3
  <2>2. PICK k \in 1 .. Len(f) : IsMessage(f[k], c) /\ f[k].n = lo + 1
    BY <1>2, <2>1, Zenon
  <2>3. k = 1
    <3>1. ~ (1 < k)
      BY <1>1, <1>2, <1>3, <2>1, <2>2
    <3> QED  BY <3>1
  <2> QED  BY <2>1, <2>2, <2>3
<1> DEFINE lo2 == IF IsMessage(f[1], c) THEN lo + 1 ELSE lo
<1>4. ASSUME NEW k \in 1 .. Len(g), IsMessage(g[k], c) PROVE g[k].n \in lo2 + 1 .. hi
  <2>1. k + 1 \in 1 .. Len(f) /\ g[k] = f[k + 1] /\ 1 \in 1 .. Len(f) /\ 1 < k + 1
    BY <1>1
  <2>2. f[k + 1].n \in lo + 1 .. hi
    BY <1>2, <1>4, <2>1
  <2>3. IsMessage(f[1], c) => f[1].n < f[k + 1].n
    BY <1>2, <1>4, <2>1
  <2> QED  BY <1>3, <2>1, <2>2, <2>3
<1>5. ASSUME NEW k \in 1 .. Len(g), NEW l \in 1 .. Len(g), k < l, IsMessage(g[k], c), IsMessage(g[l], c)
      PROVE  g[k].n < g[l].n
  <2>1. /\ k + 1 \in 1 .. Len(f) /\ g[k] = f[k + 1] /\ l + 1 \in 1 .. Len(f) /\ g[l] = f[l + 1]
        /\ k + 1 < l + 1
    BY <1>1, <1>5
  <2> QED  BY <1>2, <1>5, <2>1
<1>6. ASSUME NEW v \in lo2 + 1 .. hi PROVE \E k \in 1 .. Len(g) : IsMessage(g[k], c) /\ g[k].n = v
  <2>1. v \in lo + 1 .. hi /\ (IsMessage(f[1], c) => v # lo + 1)
    BY <1>6
  <2>2. PICK k \in 1 .. Len(f) : IsMessage(f[k], c) /\ f[k].n = v
    BY <1>2, <2>1
  <2>3. k # 1
    BY <1>3, <2>1, <2>2
  <2>4. k - 1 \in 1 .. Len(g) /\ g[k - 1] = f[k]
    BY <1>1, <2>3
  <2> QED  BY <2>2, <2>4
<1>7. Holds(g, c, lo2, hi)
  BY <1>4, <1>5, <1>6 DEF Holds
<1> QED
  BY <1>1, <1>3, <1>7 DEF g

LEMMA AwayGrows ==
  ASSUME NEW f \in Feed, NEW e \in Event, NEW o, NEW c \in Chats, Away(f, o, c),
         IsMessage(e, c) => \E d \in (Chats \union {NoChat}) \ {c} : OpenAt(f, o, d, Len(f) + 1)
  PROVE  Away(Append(f, e), o, c)
<1>1. /\ Len(f) \in Nat /\ Len(Append(f, e)) = Len(f) + 1 /\ Append(f, e)[Len(f) + 1] = e
      /\ \A j \in 1 .. Len(f) : Append(f, e)[j] = f[j]
  BY AppendFeed, LenProperties DEF Feed
<1> SUFFICES ASSUME NEW k \in 1 .. Len(Append(f, e)), IsMessage(Append(f, e)[k], c)
             PROVE  \E d \in (Chats \union {NoChat}) \ {c} : OpenAt(Append(f, e), o, d, k)
  BY DEF Away
<1>2. k \in 1 .. Len(f) + 1
  BY <1>1
<1>3. PICK d \in (Chats \union {NoChat}) \ {c} : OpenAt(f, o, d, k)
  <2>1. CASE k = Len(f) + 1
    BY <1>1, <2>1
  <2>2. CASE k # Len(f) + 1
    <3>1. k \in 1 .. Len(f) /\ IsMessage(f[k], c)
      BY <1>1, <1>2, <2>2
    <3> QED  BY <3>1 DEF Away
  <2> QED  BY <2>1, <2>2
<1>4. OpenAt(Append(f, e), o, d, k)
  BY <1>2, <1>3, OpenAtAppend
<1> QED
  BY <1>4

LEMMA AwayShrinks ==
  ASSUME NEW f \in Feed, f # <<>>, NEW o, NEW c \in Chats, Away(f, o, c)
  PROVE  /\ Away(Tail(f), Opened(f, o), c)
         /\ IsMessage(Head(f), c) => o # c
<1>1. /\ Len(f) \in Nat \ {0} /\ Len(Tail(f)) = Len(f) - 1 /\ Head(f) = f[1]
      /\ \A j \in 1 .. Len(f) - 1 : Tail(f)[j] = f[j + 1]
  BY TailFeed
<1>2. ASSUME NEW k \in 1 .. Len(Tail(f)), IsMessage(Tail(f)[k], c)
      PROVE  \E d \in (Chats \union {NoChat}) \ {c} : OpenAt(Tail(f), Opened(f, o), d, k)
  <2>1. k + 1 \in 1 .. Len(f) /\ IsMessage(f[k + 1], c)
    BY <1>1, <1>2
  <2>2. PICK d \in (Chats \union {NoChat}) \ {c} : OpenAt(f, o, d, k + 1)
    BY <2>1 DEF Away
  <2>3. k + 1 \in 2 .. Len(f) + 1 /\ (k + 1) - 1 = k
    BY <1>1
  <2>4. OpenAt(Tail(f), Opened(f, o), d, (k + 1) - 1)
    BY <2>2, <2>3, OpenAtTail
  <2> QED  BY <2>3, <2>4
<1>3. ASSUME IsMessage(Head(f), c) PROVE o # c
  <2>1. 1 \in 1 .. Len(f) /\ IsMessage(f[1], c)
    BY <1>1, <1>3
  <2>2. PICK d \in (Chats \union {NoChat}) \ {c} : OpenAt(f, o, d, 1)
    BY <2>1 DEF Away
  <2>3. o = d
    BY <2>2 DEF OpenAt
  <2> QED  BY <2>3
<1> QED
  BY <1>2, <1>3 DEF Away

(* Any event but a receipt leaves the account as it was.                   *)
LEMMA BalancedGrows ==
  ASSUME NEW f \in Feed, NEW e \in Event, NEW c, NEW u, NEW st \in Nat, NEW sr \in Nat, NEW hi \in Nat,
         NEW top \in Nat, Balanced(f, c, u, st, sr, hi), hi <= top, ~ IsReceipt(e, c),
         IsMessage(e, c) => e.n > hi
  PROVE  Balanced(Append(f, e), c, u, st, sr, top)
<1> DEFINE g == Append(f, e)
<1>1. /\ Len(f) \in Nat /\ Len(g) = Len(f) + 1 /\ g[Len(f) + 1] = e
      /\ \A j \in 1 .. Len(f) : g[j] = f[j]
  BY AppendFeed, LenProperties DEF Feed
<1>n. e.n \in Nat /\ \A j \in 1 .. Len(f) : f[j].n \in Nat
  BY FeedElement DEF Event
<1> HIDE DEF g
<1>2. CASE (\A k \in 1 .. Len(f) : ~ IsReceipt(f[k], c)) /\ u = st - sr
  <2>1. \A k \in 1 .. Len(g) : ~ IsReceipt(g[k], c)
    BY <1>1, <1>2
  <2> QED  BY <1>2, <2>1 DEF Balanced, g
<1>3. ASSUME NEW k \in 1 .. Len(f), Last(f, c, k), f[k].n + sr \in st .. hi,
             \A l \in 1 .. Len(f) : IsMessage(f[l], c) => (l < k <=> f[l].n <= f[k].n + sr)
      PROVE  Balanced(g, c, u, st, sr, top)
  <2>1. k \in 1 .. Len(g) /\ g[k] = f[k] /\ f[k].n \in Nat /\ g[k].n + sr \in st .. top
    BY <1>1, <1>n, <1>3
  <2>2. Last(g, c, k)
    <3>1. ASSUME NEW l \in k + 1 .. Len(g) PROVE ~ IsReceipt(g[l], c)
      <4>1. CASE l = Len(f) + 1
        BY <1>1, <4>1
      <4>2. CASE l # Len(f) + 1
        <5>1. l \in k + 1 .. Len(f) /\ l \in 1 .. Len(f) /\ g[l] = f[l]
          BY <1>1, <4>2
        <5> QED  BY <1>3, <5>1 DEF Last
      <4> QED  BY <4>1, <4>2
    <3> QED  BY <1>3, <2>1, <3>1 DEF Last
  <2>3. ASSUME NEW l \in 1 .. Len(g), IsMessage(g[l], c) PROVE l < k <=> g[l].n <= g[k].n + sr
    <3>1. CASE l = Len(f) + 1
      <4>1. g[l] = e /\ e.n > hi /\ ~ (l < k)
        BY <1>1, <2>3, <3>1
      <4>2. ~ (e.n <= f[k].n + sr)
        BY <1>n, <1>3, <2>1, <4>1
      <4> QED  BY <2>1, <4>1, <4>2
    <3>2. CASE l # Len(f) + 1
      <4>1. l \in 1 .. Len(f) /\ g[l] = f[l]
        BY <1>1, <3>2
      <4> QED  BY <1>3, <2>1, <2>3, <4>1
    <3> QED  BY <3>1, <3>2
  <2> QED  BY <2>1, <2>2, <2>3 DEF Balanced
<1> QED
  BY <1>2, <1>3 DEF Balanced, g

(* The server's receipt, appended, sets the account right.                 *)
LEMMA BalancedByReceipt ==
  ASSUME NEW f \in Feed, NEW e \in Event, NEW c, NEW u, NEW st \in Nat, NEW sr \in Nat, NEW hi \in Nat,
         Holds(f, c, st, hi), st <= hi, IsReceipt(e, c), e.n + sr = hi
  PROVE  Balanced(Append(f, e), c, u, st, sr, hi)
<1> DEFINE g == Append(f, e)
           k == Len(f) + 1
<1>1. /\ Len(f) \in Nat /\ Len(g) = Len(f) + 1 /\ g[Len(f) + 1] = e
      /\ \A j \in 1 .. Len(f) : g[j] = f[j]
  BY AppendFeed, LenProperties DEF Feed
<1> HIDE DEF g
<1>2. k \in 1 .. Len(g) /\ Last(g, c, k) /\ g[k].n + sr \in st .. hi
  BY <1>1 DEF Last
<1>3. ASSUME NEW l \in 1 .. Len(g), IsMessage(g[l], c) PROVE l < k <=> g[l].n <= g[k].n + sr
  <2>1. l # k
    BY <1>1, <1>3 DEF IsMessage, IsReceipt
  <2>2. l \in 1 .. Len(f) /\ g[l] = f[l]
    BY <1>1, <2>1
  <2>3. g[l].n \in st + 1 .. hi
    BY <1>3, <2>2 DEF Holds
  <2> QED  BY <1>1, <2>2, <2>3
<1>4. Balanced(g, c, u, st, sr, hi)
  BY <1>2, <1>3 DEF Balanced
<1> QED
  BY <1>4 DEF g

(* LiveService handles the head: a message is stored and counted, a        *)
(* receipt overwrites the count.                                           *)
LEMMA BalancedShrinks ==
  ASSUME NEW f \in Feed, f # <<>>, NEW c, NEW u \in Int, NEW st \in Nat, NEW sr \in Nat, NEW hi \in Nat,
         Holds(f, c, st, hi), st <= hi, Balanced(f, c, u, st, sr, hi)
  PROVE  Balanced(Tail(f), c,
                  CASE IsMessage(Head(f), c) -> u + 1 [] IsReceipt(Head(f), c) -> Head(f).n [] OTHER -> u,
                  IF IsMessage(Head(f), c) THEN st + 1 ELSE st, sr, hi)
<1> DEFINE g == Tail(f)
           u2 == CASE IsMessage(f[1], c) -> u + 1 [] IsReceipt(f[1], c) -> f[1].n [] OTHER -> u
           st2 == IF IsMessage(f[1], c) THEN st + 1 ELSE st
<1>1. /\ Len(f) \in Nat \ {0} /\ Len(g) = Len(f) - 1 /\ Head(f) = f[1] /\ f[1].n \in Nat
      /\ \A j \in 1 .. Len(f) - 1 : g[j] = f[j + 1]
  BY TailFeed DEF Event
<1>2. ~ (IsMessage(f[1], c) /\ IsReceipt(f[1], c))
  BY DEF IsMessage, IsReceipt
<1>3. IsMessage(f[1], c) => f[1].n = st + 1
  BY <1>1, HoldsShrinks
<1>4. \A k \in 1 .. Len(f) : f[k].n \in Nat
  BY FeedElement DEF Event
<1> HIDE DEF g
<1>5. ASSUME (\A k \in 1 .. Len(f) : ~ IsReceipt(f[k], c)) /\ u = st - sr
      PROVE  Balanced(g, c, u2, st2, sr, hi)
  <2>1. \A k \in 1 .. Len(g) : ~ IsReceipt(g[k], c)
    <3>1. \A k \in 1 .. Len(g) : k + 1 \in 1 .. Len(f) /\ g[k] = f[k + 1]
      BY <1>1
    <3> HIDE DEF u2, st2
    <3> QED  BY <1>5, <3>1
  <2>2. ~ IsReceipt(f[1], c)
    BY <1>1, <1>5
  <2>3. u2 = st2 - sr
    BY <1>5, <2>2
  <2> QED  BY <2>1, <2>3 DEF Balanced
<1>6. ASSUME NEW k \in 1 .. Len(f), Last(f, c, k), f[k].n + sr \in st .. hi,
             \A l \in 1 .. Len(f) : IsMessage(f[l], c) => (l < k <=> f[l].n <= f[k].n + sr)
      PROVE  Balanced(g, c, u2, st2, sr, hi)
  <2>1. CASE k = 1
    <3>1. IsReceipt(f[1], c) /\ \A l \in 1 .. Len(g) : ~ IsReceipt(g[l], c)
      <4>1. IsReceipt(f[1], c) /\ \A l \in 1 + 1 .. Len(f) : ~ IsReceipt(f[l], c)
        BY <1>6, <2>1 DEF Last
      <4>2. \A l \in 1 .. Len(g) : l + 1 \in 1 + 1 .. Len(f) /\ g[l] = f[l + 1]
        BY <1>1
      <4> QED  BY <4>1, <4>2
    <3>2. f[1].n + sr = st
      <4>1. \A l \in 1 .. Len(f) : IsMessage(f[l], c) => f[l].n # f[1].n + sr
        <5> SUFFICES ASSUME NEW l \in 1 .. Len(f), IsMessage(f[l], c) PROVE f[l].n # f[1].n + sr
          OBVIOUS
        <5>1. ~ (l < 1) /\ f[l].n \in Nat
          BY <1>4
        <5>2. ~ (f[l].n <= f[1].n + sr)
          BY <1>6, <2>1, <5>1
        <5> QED  BY <1>1, <5>1, <5>2
      <4>2. f[1].n + sr \notin st + 1 .. hi
        BY <4>1 DEF Holds
      <4> QED  BY <1>1, <1>6, <2>1, <4>2
    <3>3. u2 = st2 - sr
      BY <1>1, <1>2, <3>1, <3>2
    <3> QED  BY <3>1, <3>3 DEF Balanced
  <2>2. CASE k > 1
    <3>1. k - 1 \in 1 .. Len(g) /\ g[k - 1] = f[k] /\ 1 \in 1 .. Len(f) /\ f[k].n \in Nat
      BY <1>1, <1>4, <2>2
    <3>2. Last(g, c, k - 1)
      <4>1. IsReceipt(f[k], c) /\ \A l \in k + 1 .. Len(f) : ~ IsReceipt(f[l], c)
        BY <1>6 DEF Last
      <4>2. \A l \in (k - 1) + 1 .. Len(g) : l + 1 \in k + 1 .. Len(f) /\ g[l] = f[l + 1]
        BY <1>1, <2>2
      <4> QED  BY <3>1, <4>1, <4>2 DEF Last
    <3>3. g[k - 1].n + sr \in st2 .. hi
      <4>1. IsMessage(f[1], c) => f[1].n <= f[k].n + sr
        BY <1>6, <2>2, <3>1
      <4> QED  BY <1>3, <1>6, <3>1, <4>1
    <3>4. ASSUME NEW l \in 1 .. Len(g), IsMessage(g[l], c) PROVE l < k - 1 <=> g[l].n <= g[k - 1].n + sr
      <4>1. l + 1 \in 1 .. Len(f) /\ g[l] = f[l + 1]
        BY <1>1
      <4>2. l + 1 < k <=> f[l + 1].n <= f[k].n + sr
        BY <1>6, <3>4, <4>1
      <4> QED  BY <3>1, <4>1, <4>2
    <3> HIDE DEF u2, st2
    <3>5. \E j \in 1 .. Len(g) :
            /\ Last(g, c, j) /\ g[j].n + sr \in st2 .. hi
            /\ \A l \in 1 .. Len(g) : IsMessage(g[l], c) => (l < j <=> g[l].n <= g[j].n + sr)
      <4>1. \A l \in 1 .. Len(g) : IsMessage(g[l], c) => (l < k - 1 <=> g[l].n <= g[k - 1].n + sr)
        BY <3>4
      <4> QED  BY <3>1, <3>2, <3>3, <4>1
    <3> QED  BY <3>5 DEF Balanced
  <2> QED  BY <2>1, <2>2
<1>7. Balanced(g, c, u2, st2, sr, hi)
  <2> HIDE DEF u2, st2
  <2> QED  BY <1>5, <1>6 DEF Balanced
<1> QED
  BY <1>1, <1>7 DEF g

LEMMA NextNoSyncs ==
  ASSUME OrderInv, NoSyncs, [Next]_vars
  PROVE  NoSyncs'
<1>1. ASSUME NEW c \in Chats, FetchDialogs(c) PROVE NoSyncs'
  <2>1. used'["syncs"] = used["syncs"] + 1 /\ used["syncs"] \in Nat
    BY <1>1, SpendCounts DEF FetchDialogs, Kinds, OrderInv, TypeOK
  <2> QED  BY <2>1 DEF NoSyncs
<1>2. ASSUME NEW c \in Chats, SaveChat(c) PROVE NoSyncs'
  BY <1>2, PointerTypes DEF SaveChat, NoSyncs
<1>3. ASSUME NEW c \in Chats, Receive(c) \/ OpenChat(c) \/ ReadElsewhere(c) PROVE NoSyncs'
  <2>1. used'["syncs"] = used["syncs"] /\ snapshot' = snapshot
    BY <1>3, SpendCounts DEF Receive, OpenChat, ReadElsewhere, Kinds
  <2> QED  BY <2>1 DEF NoSyncs
<1>4. CASE MarkReadFails
  <2>1. used'["syncs"] = used["syncs"] /\ snapshot' = snapshot
    BY <1>4, SpendCounts DEF MarkReadFails, Kinds
  <2> QED  BY <2>1 DEF NoSyncs
<1>5. ASSUME used' = used, snapshot' = snapshot PROVE NoSyncs'
  BY <1>5 DEF NoSyncs
<1> QED
  BY <1>1, <1>2, <1>3, <1>4, <1>5
  DEF Next, vars, LiveOpened, Persist, CountUnread, SetUnread, RequestOpen, RequestAck, IgnoreRead,
      TakeOpen, TakeAck, MarkReadOk, ClearUnread

(* What a step does to LiveService's view of chat c: a message of c is     *)
(* delivered, another event is published, the head is handled, or nothing. *)
Delivered(c, e) == IsMessage(e, c) /\ e.n = newest[c] + 1 /\ newest'[c] = newest[c] + 1

LEMMA LiveSteps ==
  ASSUME OrderInv, [Next]_vars, NEW c \in Chats, Holds(liveFeed, c, stored[c], newest[c])
  PROVE  \/ \E e \in Event :
              /\ liveFeed' = Append(liveFeed, e) /\ liveOpen' = liveOpen
              /\ stored'[c] = stored[c] /\ counting' = counting
              /\ IF IsMessage(e, c) THEN Delivered(c, e) ELSE newest'[c] = newest[c]
         \/ /\ liveFeed # <<>> /\ liveFeed' = Tail(liveFeed) /\ liveOpen' = Opened(liveFeed, liveOpen)
            /\ newest'[c] = newest[c] /\ counting = NoChat
            /\ IF IsMessage(Head(liveFeed), c)
                 THEN stored'[c] = stored[c] + 1 /\ counting' = c
                 ELSE stored'[c] = stored[c] /\ counting' # c
         \/ /\ liveFeed' = liveFeed /\ liveOpen' = liveOpen
            /\ stored'[c] = stored[c] /\ newest'[c] = newest[c]
            /\ counting' = counting \/ CountUnread
<1> DEFINE Goal ==
         \/ \E e \in Event :
              /\ liveFeed' = Append(liveFeed, e) /\ liveOpen' = liveOpen
              /\ stored'[c] = stored[c] /\ counting' = counting
              /\ IF IsMessage(e, c) THEN Delivered(c, e) ELSE newest'[c] = newest[c]
         \/ /\ liveFeed # <<>> /\ liveFeed' = Tail(liveFeed) /\ liveOpen' = Opened(liveFeed, liveOpen)
            /\ newest'[c] = newest[c] /\ counting = NoChat
            /\ IF IsMessage(Head(liveFeed), c)
                 THEN stored'[c] = stored[c] + 1 /\ counting' = c
                 ELSE stored'[c] = stored[c] /\ counting' # c
         \/ /\ liveFeed' = liveFeed /\ liveOpen' = liveOpen
            /\ stored'[c] = stored[c] /\ newest'[c] = newest[c]
            /\ counting' = counting \/ CountUnread
<1>1. ASSUME NEW d \in Chats, Receive(d) PROVE Goal
  <2> DEFINE e == [type |-> "message", chat |-> d, n |-> newest[d] + 1]
  <2>1. e \in Event /\ newest' = [newest EXCEPT ![d] = newest[d] + 1] /\ newest \in [Chats -> Nat]
    BY <1>1, PointerTypes DEF Event, Receive
  <2>2. liveFeed' = Append(liveFeed, e) /\ liveOpen' = liveOpen /\ stored' = stored /\ counting' = counting
    BY <1>1 DEF Receive, Publish
  <2>3. IF IsMessage(e, c) THEN Delivered(c, e) ELSE newest'[c] = newest[c]
    BY <2>1 DEF IsMessage, Delivered
  <2> QED  BY <2>1, <2>2, <2>3
<1>2. ASSUME NEW d \in Chats, OpenChat(d) PROVE Goal
  <2>1. [type |-> "open", chat |-> d, n |-> 0] \in Event /\ ~ IsMessage([type |-> "open", chat |-> d, n |-> 0], c)
    BY DEF Event, IsMessage
  <2> QED  BY <1>2, <2>1 DEF OpenChat, Publish, server
<1>3. ASSUME NEW d \in Chats, ReadElsewhere(d) PROVE Goal
  <2>1. PICK m \in serverRead[d] + 1 .. newest[d] : Publish("readInbox", d, newest[d] - m)
    BY <1>3 DEF ReadElsewhere
  <2> DEFINE e == [type |-> "readInbox", chat |-> d, n |-> newest[d] - m]
  <2>2. e \in Event /\ ~ IsMessage(e, c)
    BY PointerTypes DEF Event, IsMessage
  <2> QED  BY <1>3, <2>1, <2>2 DEF ReadElsewhere, Publish
<1>4. CASE Persist
  <2> DEFINE e == Head(liveFeed)
  <2>1. /\ liveFeed # <<>> /\ liveFeed \in Feed /\ liveFeed' = Tail(liveFeed) /\ e.type = "message"
        /\ newest' = newest /\ liveOpen' = liveOpen /\ counting = NoChat /\ counting' = e.chat
        /\ stored' = [stored EXCEPT ![e.chat] = e.n] /\ stored \in [Chats -> Nat] /\ newest \in [Chats -> Nat]
    BY <1>4, PointerTypes DEF Persist, LiveTakes, server, OrderInv, TypeOK, Feed
  <2>2. e.chat \in Chats
    BY <2>1, TailFeed DEF Event
  <2>3. IsMessage(e, c) => e.n = stored[c] + 1
    BY <2>1, HoldsShrinks
  <2>4. IF IsMessage(e, c) THEN stored'[c] = stored[c] + 1 /\ counting' = c
                           ELSE stored'[c] = stored[c] /\ counting' # c
    BY <2>1, <2>2, <2>3 DEF IsMessage
  <2>5. liveOpen' = Opened(liveFeed, liveOpen)
    BY <2>1 DEF Opened
  <2> QED  BY <2>1, <2>4, <2>5
<1>5. LiveOpened \/ SetUnread => Goal
  BY NoChatAssumption DEF LiveOpened, SetUnread, LiveTakes, Opened, IsMessage, server
<1>6. CountUnread => Goal
  BY DEF CountUnread, server
<1>7. RequestOpen \/ RequestAck \/ IgnoreRead \/ TakeOpen \/ TakeAck \/ MarkReadOk \/ MarkReadFails \/ ClearUnread => Goal
  BY DEF RequestOpen, RequestAck, IgnoreRead, TakeOpen, TakeAck, MarkReadOk, MarkReadFails, ClearUnread, server, live
<1>8. ASSUME NEW d \in Chats, FetchDialogs(d) \/ SaveChat(d) PROVE Goal
  BY <1>8 DEF FetchDialogs, SaveChat, server, live
<1>9. UNCHANGED vars => Goal
  BY DEF vars, server, live
<1> QED
  BY <1>1, <1>2, <1>3, <1>4, <1>5, <1>6, <1>7, <1>8, <1>9 DEF Next

LEMMA NextHolds ==
  ASSUME OrderInv, [Next]_vars, NEW c \in Chats, Holds(liveFeed, c, stored[c], newest[c])
  PROVE  Holds(liveFeed', c, stored'[c], newest'[c])
<1>0. /\ liveFeed \in Feed /\ stored[c] \in Nat /\ newest[c] \in Nat /\ stored[c] <= newest[c]
  BY PointerTypes DEF OrderInv, TypeOK, Feed
<1>1. ASSUME NEW e \in Event, liveFeed' = Append(liveFeed, e), stored'[c] = stored[c],
             IF IsMessage(e, c) THEN Delivered(c, e) ELSE newest'[c] = newest[c]
      PROVE  Holds(liveFeed', c, stored'[c], newest'[c])
  BY <1>0, <1>1, HoldsGrows DEF Delivered
<1>2. ASSUME liveFeed # <<>>, liveFeed' = Tail(liveFeed), newest'[c] = newest[c],
             IF IsMessage(Head(liveFeed), c) THEN stored'[c] = stored[c] + 1 ELSE stored'[c] = stored[c]
      PROVE  Holds(liveFeed', c, stored'[c], newest'[c])
  BY <1>0, <1>2, HoldsShrinks
<1> QED
  BY <1>1, <1>2, LiveSteps

(* What ends the promise about a chat's badge never comes back.            *)
LEMMA UnopenedBefore ==
  ASSUME OrderInv, [Next]_vars, NEW c \in Chats, Unopened(c)'
  PROVE  Unopened(c)
<1>1. used' \in [Kinds -> Nat] /\ used \in [Kinds -> Nat] /\ \A k \in Kinds : used'[k] >= used[k]
  <2>1. used' \in [Kinds -> Nat] /\ used \in [Kinds -> Nat]
    BY NextTypes DEF TypeOK, OrderInv
  <2>2. ASSUME NEW j \in Kinds, Spend(j) PROVE \A k \in Kinds : used'[k] >= used[k]
    BY <2>1, <2>2, SpendCounts
  <2>3. used' = used \/ \E j \in Kinds : Spend(j)
    BY DEF Next, vars, Kinds, Receive, OpenChat, ReadElsewhere, FetchDialogs, SaveChat, LiveOpened, Persist,
           CountUnread, SetUnread, RequestOpen, RequestAck, IgnoreRead, TakeOpen, TakeAck, MarkReadOk,
           MarkReadFails, ClearUnread
  <2> QED  BY <2>1, <2>2, <2>3
<1>2. used["syncs"] = 0 /\ used["failures"] = 0
  <2>1. "syncs" \in Kinds /\ "failures" \in Kinds /\ used'["syncs"] = 0 /\ used'["failures"] = 0
    BY DEF Unopened, Kinds
  <2>2. used["syncs"] \in Nat /\ used["failures"] \in Nat /\ used["syncs"] <= 0 /\ used["failures"] <= 0
    BY <1>1, <2>1
  <2> QED  BY <2>2
<1>3. seen[c] = 0
  <2>1. seen'[c] = 0
    BY DEF Unopened
  <2>2. ASSUME NEW d \in Chats, Receive(d) PROVE seen[c] = 0
    <3>1. seen' = seen \/ seen' = [seen EXCEPT ![d] = newest[d] + 1]
      BY <2>2 DEF Receive
    <3> QED  BY <2>1, <3>1, PointerTypes
  <2>3. ASSUME NEW d \in Chats, OpenChat(d) PROVE seen[c] = 0
    <3>1. seen' = [seen EXCEPT ![d] = newest[d]]
      BY <2>3 DEF OpenChat
    <3> QED  BY <2>1, <3>1, PointerTypes
  <2>4. seen' = seen \/ \E d \in Chats : Receive(d) \/ OpenChat(d)
    BY DEF Next, vars, user, ReadElsewhere, FetchDialogs, SaveChat, LiveOpened, Persist, CountUnread,
           SetUnread, RequestOpen, RequestAck, IgnoreRead, TakeOpen, TakeAck, MarkReadOk,
           MarkReadFails, ClearUnread
  <2> QED  BY <2>1, <2>2, <2>3, <2>4
<1>4. acknowledged[c] = 0
  <2>1. acknowledged'[c] = 0
    BY DEF Unopened
  <2>2. ASSUME MarkReadOk PROVE acknowledged[c] = 0
    <3>1. worker # Idle /\ acknowledged' = [acknowledged EXCEPT ![worker.chat] = worker.maxID]
      BY <2>2 DEF MarkReadOk, Idle
    <3> QED  BY <2>1, <3>1, PointerTypes, WorkerTypes
  <2>3. acknowledged' = acknowledged \/ MarkReadOk
    BY DEF Next, vars, Receive, OpenChat, ReadElsewhere, FetchDialogs, SaveChat, LiveOpened, Persist, CountUnread,
           SetUnread, RequestOpen, RequestAck, IgnoreRead, TakeOpen, TakeAck, MarkReadFails, ClearUnread
  <2> QED  BY <2>1, <2>2, <2>3
<1> QED
  BY <1>2, <1>3, <1>4 DEF Unopened

LEMMA NextBadge ==
  ASSUME BadgeInv, [Next]_vars, NEW c \in Chats, Unopened(c)'
  PROVE  Badge(c)'
<1>0. /\ OrderInv /\ Follows /\ NoSyncs /\ Holds(liveFeed, c, stored[c], newest[c])
      /\ Unopened(c) /\ Badge(c)
  BY UnopenedBefore DEF BadgeInv
<1>1. /\ liveFeed \in Feed /\ stored[c] \in Nat /\ newest[c] \in Nat /\ stored[c] <= newest[c]
      /\ serverRead[c] \in Nat /\ unread[c] \in Nat /\ unread \in [Chats -> Nat]
      /\ newest'[c] \in Nat /\ serverRead'[c] \in Nat /\ unread' \in [Chats -> Nat]
  BY <1>0, NextTypes, PointerTypes DEF OrderInv, TypeOK, Feed
<1>2. /\ Away(liveFeed, liveOpen, c) /\ (counting = c => liveOpen # c)
      /\ Balanced(liveFeed, c, unread[c] + InHand(c), stored[c], serverRead[c], newest[c])
  BY <1>0 DEF Badge
<1>3. unread[c] + InHand(c) \in Int /\ (counting = NoChat => InHand(c) = 0)
  BY <1>1, NoChatAssumption DEF InHand
\* An event is published.
<1>4. ASSUME NEW e \in Event, liveFeed' = Append(liveFeed, e), liveOpen' = liveOpen, counting' = counting,
             unread'[c] = unread[c], stored'[c] = stored[c],
             IF IsMessage(e, c) THEN screen # c /\ Delivered(c, e) ELSE newest'[c] = newest[c],
             IF IsReceipt(e, c) THEN e.n + serverRead'[c] = newest[c] ELSE serverRead'[c] = serverRead[c]
      PROVE  Badge(c)'
  <2>1. Away(Append(liveFeed, e), liveOpen, c)
    <3>1. screen \in Chats \union {NoChat} /\ OpenAt(liveFeed, liveOpen, screen, Len(liveFeed) + 1)
      BY <1>0, ReaderTypes DEF Follows
    <3>2. IsMessage(e, c) => \E d \in (Chats \union {NoChat}) \ {c} : OpenAt(liveFeed, liveOpen, d, Len(liveFeed) + 1)
      BY <1>4, <3>1
    <3> QED  BY <1>1, <1>2, <3>2, AwayGrows
  <2>2. InHand(c)' = InHand(c)
    BY <1>4 DEF InHand
  <2>3. Balanced(Append(liveFeed, e), c, unread[c] + InHand(c), stored[c], serverRead'[c], newest'[c])
    <3>1. CASE IsReceipt(e, c)
      <4>1. newest'[c] = newest[c]
        BY <1>4, <3>1 DEF IsReceipt, IsMessage
      <4> QED  BY <1>1, <1>4, <3>1, <4>1, <1>0, BalancedByReceipt
    <3>2. CASE ~ IsReceipt(e, c)
      <4>1. newest[c] <= newest'[c] /\ (IsMessage(e, c) => e.n > newest[c])
        BY <1>1, <1>4 DEF Delivered
      <4> QED  BY <1>1, <1>2, <1>4, <3>2, <4>1, BalancedGrows
    <3> QED  BY <3>1, <3>2
  <2>4. /\ Badge(c)' <=> /\ Away(liveFeed', liveOpen', c) /\ (counting' = c => liveOpen' # c)
                         /\ Balanced(liveFeed', c, unread'[c] + InHand(c)', stored'[c], serverRead'[c], newest'[c])
    BY DEF Badge
  <2> QED  BY <1>2, <1>4, <2>1, <2>2, <2>3, <2>4
\* LiveService handles the head.
<1>5. ASSUME liveFeed # <<>>, liveFeed' = Tail(liveFeed), liveOpen' = Opened(liveFeed, liveOpen), counting = NoChat,
             newest'[c] = newest[c], serverRead'[c] = serverRead[c],
             unread'[c] = IF IsReceipt(Head(liveFeed), c) THEN Head(liveFeed).n ELSE unread[c],
             IF IsMessage(Head(liveFeed), c)
               THEN stored'[c] = stored[c] + 1 /\ counting' = c /\ liveOpen' = liveOpen
               ELSE stored'[c] = stored[c] /\ counting' # c
      PROVE  Badge(c)'
  <2> DEFINE e == Head(liveFeed)
  <2>1. Away(Tail(liveFeed), Opened(liveFeed, liveOpen), c) /\ (IsMessage(e, c) => liveOpen # c)
    BY <1>1, <1>2, <1>5, AwayShrinks
  <2>2. Balanced(Tail(liveFeed), c,
                 CASE IsMessage(e, c) -> (unread[c] + InHand(c)) + 1
                   [] IsReceipt(e, c) -> e.n [] OTHER -> unread[c] + InHand(c),
                 IF IsMessage(e, c) THEN stored[c] + 1 ELSE stored[c], serverRead[c], newest[c])
    BY <1>0, <1>1, <1>2, <1>3, <1>5, BalancedShrinks
  <2>3. ~ (IsMessage(e, c) /\ IsReceipt(e, c))
    BY DEF IsMessage, IsReceipt
  <2>4. /\ unread'[c] + InHand(c)' = CASE IsMessage(e, c) -> (unread[c] + InHand(c)) + 1
                                       [] IsReceipt(e, c) -> e.n [] OTHER -> unread[c] + InHand(c)
        /\ stored'[c] = IF IsMessage(e, c) THEN stored[c] + 1 ELSE stored[c]
    <3>1. InHand(c) = 0 /\ InHand(c)' = IF counting' = c THEN 1 ELSE 0
      BY <1>3, <1>5 DEF InHand
    <3>2. e.n \in Nat /\ unread[c] \in Nat
      BY <1>1, <1>5, TailFeed DEF Event
    <3>3. CASE IsMessage(e, c)
      BY <1>5, <2>3, <3>1, <3>2, <3>3
    <3>4. CASE IsReceipt(e, c)
      BY <1>5, <2>3, <3>1, <3>2, <3>4
    <3>5. CASE ~ IsMessage(e, c) /\ ~ IsReceipt(e, c)
      BY <1>5, <3>1, <3>2, <3>5
    <3> QED  BY <3>3, <3>4, <3>5
  <2>5. Balanced(Tail(liveFeed), c, unread'[c] + InHand(c)', stored'[c], serverRead'[c], newest'[c])
    BY <1>5, <2>2, <2>4
  <2>6. /\ Badge(c)' <=> /\ Away(liveFeed', liveOpen', c) /\ (counting' = c => liveOpen' # c)
                         /\ Balanced(liveFeed', c, unread'[c] + InHand(c)', stored'[c], serverRead'[c], newest'[c])
    BY DEF Badge
  <2>7. counting' = c => liveOpen' # c
    BY <1>5, <2>1
  <2> QED  BY <1>5, <2>1, <2>5, <2>6, <2>7
\* The feed stays as it is, and the count with what is in hand.
<1>6. ASSUME liveFeed' = liveFeed, liveOpen' = liveOpen, stored'[c] = stored[c], newest'[c] = newest[c],
             serverRead'[c] = serverRead[c], counting' = counting \/ counting' # c,
             unread'[c] + InHand(c)' = unread[c] + InHand(c)
      PROVE  Badge(c)'
  <2>1. /\ Badge(c)' <=> /\ Away(liveFeed', liveOpen', c) /\ (counting' = c => liveOpen' # c)
                         /\ Balanced(liveFeed', c, unread'[c] + InHand(c)', stored'[c], serverRead'[c], newest'[c])
    BY DEF Badge
  <2> QED  BY <1>2, <1>6, <2>1
<1>7. counting' = counting => InHand(c)' = InHand(c)
  BY DEF InHand
<1>8. ASSUME liveFeed' = liveFeed, liveOpen' = liveOpen, stored'[c] = stored[c], newest'[c] = newest[c],
             serverRead'[c] = serverRead[c], counting' = counting, unread'[c] = unread[c]
      PROVE  Badge(c)'
  BY <1>6, <1>7, <1>8
<1> USE <1>0, <1>1
<1> HIDE <1>6, <1>7
<1>9. ASSUME NEW d \in Chats, Receive(d) PROVE Badge(c)'
  <2> DEFINE e == [type |-> "message", chat |-> d, n |-> newest[d] + 1]
  <2>1. e \in Event /\ newest' = [newest EXCEPT ![d] = newest[d] + 1] /\ newest \in [Chats -> Nat] /\ ~ IsReceipt(e, c)
    BY <1>9, PointerTypes DEF Event, Receive, IsReceipt
  <2>2. /\ liveFeed' = Append(liveFeed, e) /\ liveOpen' = liveOpen /\ stored' = stored /\ counting' = counting
        /\ unread' = unread /\ serverRead' = serverRead
    BY <1>9 DEF Receive, Publish
  <2>3. d = c => screen # c
    <3>1. seen'[c] = 0 /\ seen \in [Chats -> Nat] /\ newest[d] \in Nat
      BY PointerTypes DEF Unopened
    <3>2. screen = d => seen' = [seen EXCEPT ![d] = newest[d] + 1]
      BY <1>9 DEF Receive
    <3> QED  BY <3>1, <3>2
  <2>4. IF IsMessage(e, c) THEN screen # c /\ Delivered(c, e) ELSE newest'[c] = newest[c]
    BY <2>1, <2>3 DEF IsMessage, Delivered
  <2> HIDE DEF e
  <2> QED  BY <1>4, <2>1, <2>2, <2>4
<1>10. ASSUME NEW d \in Chats, OpenChat(d) PROVE Badge(c)'
  <2> DEFINE e == [type |-> "open", chat |-> d, n |-> 0]
  <2>1. e \in Event /\ ~ IsMessage(e, c) /\ ~ IsReceipt(e, c)
    BY DEF Event, IsMessage, IsReceipt
  <2>2. /\ liveFeed' = Append(liveFeed, e) /\ liveOpen' = liveOpen /\ stored' = stored /\ counting' = counting
        /\ unread' = unread /\ serverRead' = serverRead /\ newest' = newest
    BY <1>10 DEF OpenChat, Publish, server
  <2> HIDE DEF e
  <2> QED  BY <1>4, <2>1, <2>2
<1>11. ASSUME NEW d \in Chats, ReadElsewhere(d) PROVE Badge(c)'
  <2>1. PICK m \in serverRead[d] + 1 .. newest[d] :
           /\ serverRead' = [serverRead EXCEPT ![d] = m] /\ Publish("readInbox", d, newest[d] - m)
    BY <1>11 DEF ReadElsewhere
  <2> DEFINE e == [type |-> "readInbox", chat |-> d, n |-> newest[d] - m]
  <2>2. e \in Event /\ ~ IsMessage(e, c) /\ serverRead \in [Chats -> Nat] /\ newest[d] \in Nat /\ m \in Nat
    BY PointerTypes DEF Event, IsMessage
  <2>3. /\ liveFeed' = Append(liveFeed, e) /\ liveOpen' = liveOpen /\ stored' = stored /\ counting' = counting
        /\ unread' = unread /\ newest' = newest
    BY <1>11, <2>1 DEF ReadElsewhere, Publish
  <2>4. IF IsReceipt(e, c) THEN e.n + serverRead'[c] = newest[c] ELSE serverRead'[c] = serverRead[c]
    BY <2>1, <2>2 DEF IsReceipt
  <2> HIDE DEF e
  <2> QED  BY <1>4, <2>2, <2>3, <2>4
<1>12. CASE Persist
  <2> DEFINE e == Head(liveFeed)
  <2>1. /\ liveFeed # <<>> /\ liveFeed' = Tail(liveFeed) /\ e.type = "message" /\ unread' = unread
        /\ newest' = newest /\ serverRead' = serverRead /\ liveOpen' = liveOpen /\ counting = NoChat
        /\ counting' = e.chat /\ stored' = [stored EXCEPT ![e.chat] = e.n] /\ stored \in [Chats -> Nat]
    BY <1>12, PointerTypes DEF Persist, LiveTakes, server
  <2>2. e.chat \in Chats
    BY <2>1, TailFeed DEF Event
  <2>3. IsMessage(e, c) => e.n = stored[c] + 1
    BY <2>1, HoldsShrinks
  <2>4. IF IsMessage(e, c) THEN stored'[c] = stored[c] + 1 /\ counting' = c /\ liveOpen' = liveOpen
                           ELSE stored'[c] = stored[c] /\ counting' # c
    BY <2>1, <2>2, <2>3 DEF IsMessage
  <2>5. liveOpen' = Opened(liveFeed, liveOpen) /\ ~ IsReceipt(e, c)
    BY <2>1 DEF Opened, IsReceipt
  <2> QED  BY <1>5, <2>1, <2>4, <2>5
<1>13. CASE LiveOpened
  <2> DEFINE e == Head(liveFeed)
  <2>1. /\ liveFeed # <<>> /\ liveFeed' = Tail(liveFeed) /\ e.type = "open" /\ unread' = unread
        /\ newest' = newest /\ serverRead' = serverRead /\ liveOpen' = e.chat /\ counting = NoChat
        /\ counting' = counting /\ stored' = stored
    BY <1>13 DEF LiveOpened, LiveTakes, server
  <2>2. liveOpen' = Opened(liveFeed, liveOpen) /\ ~ IsReceipt(e, c) /\ ~ IsMessage(e, c) /\ counting' # c
    BY <2>1, NoChatAssumption DEF Opened, IsReceipt, IsMessage
  <2> QED  BY <1>5, <2>1, <2>2
<1>14. CASE SetUnread
  <2> DEFINE e == Head(liveFeed)
  <2>1. /\ liveFeed # <<>> /\ liveFeed' = Tail(liveFeed) /\ e.type = "readInbox"
        /\ unread' = [unread EXCEPT ![e.chat] = e.n]
        /\ newest' = newest /\ serverRead' = serverRead /\ liveOpen' = liveOpen /\ counting = NoChat
        /\ counting' = counting /\ stored' = stored
    BY <1>14 DEF SetUnread, LiveTakes, server
  <2>2. liveOpen' = Opened(liveFeed, liveOpen) /\ ~ IsMessage(e, c) /\ counting' # c
    BY <2>1, NoChatAssumption DEF Opened, IsMessage
  <2>3. unread'[c] = IF IsReceipt(e, c) THEN e.n ELSE unread[c]
    BY <2>1 DEF IsReceipt
  <2> QED  BY <1>5, <2>1, <2>2, <2>3
<1>15. CASE CountUnread
  <2>1. /\ liveFeed' = liveFeed /\ liveOpen' = liveOpen /\ stored' = stored /\ newest' = newest
        /\ serverRead' = serverRead /\ counting' = NoChat
        /\ unread' = IF counting = liveOpen THEN unread ELSE [unread EXCEPT ![counting] = unread[counting] + 1]
    BY <1>15 DEF CountUnread, server
  <2>2. InHand(c)' = 0 /\ InHand(c) = IF counting = c THEN 1 ELSE 0
    BY <2>1, NoChatAssumption DEF InHand
  <2>3. unread'[c] = unread[c] + InHand(c)
    BY <1>2, <2>1, <2>2
  <2>4. counting' # c
    BY <2>1, NoChatAssumption
  <2> QED  BY <1>3, <1>6, <2>1, <2>2, <2>3, <2>4
\* A report or a dialog sync would break the promise's conditions.
<1>16. CASE MarkReadOk
  <2>1. worker # Idle /\ acknowledged' = [acknowledged EXCEPT ![worker.chat] = worker.maxID]
    BY <1>16 DEF MarkReadOk, Idle
  <2>2. worker.chat # c
    BY <2>1, WorkerTypes, PointerTypes DEF Unopened
  <2>3. serverRead'[c] = serverRead[c]
    BY <1>16, <2>2, PointerTypes DEF MarkReadOk, ServerMarks
  <2> QED  BY <1>8, <1>16, <2>3 DEF MarkReadOk, live
<1>17. CASE MarkReadFails
  <2>1. used'["failures"] = used["failures"] + 1 /\ used["failures"] \in Nat
    BY <1>17, SpendCounts DEF MarkReadFails, Kinds, OrderInv, TypeOK
  <2> QED  BY <2>1 DEF Unopened
<1>18. CASE ClearUnread
  <2>1. worker # Idle /\ unread' = [unread EXCEPT ![worker.chat] = 0] /\ acknowledged[worker.chat] = worker.maxID
    BY <1>18, OrderFacts DEF ClearUnread, Idle
  <2>2. worker.chat # c
    BY <2>1, WorkerTypes DEF Unopened
  <2> QED  BY <1>8, <1>18, <2>1, <2>2 DEF ClearUnread, live, server
<1>19. ASSUME NEW d \in Chats, SaveChat(d) PROVE Badge(c)'
  BY <1>19 DEF SaveChat, NoSyncs, Unopened
<1>20. ASSUME NEW d \in Chats, FetchDialogs(d) PROVE Badge(c)'
  BY <1>8, <1>20 DEF FetchDialogs, live, server
<1>21. RequestOpen \/ RequestAck \/ IgnoreRead \/ TakeOpen \/ TakeAck \/ UNCHANGED vars => Badge(c)'
  BY <1>8 DEF RequestOpen, RequestAck, IgnoreRead, TakeOpen, TakeAck, vars, live, server
<1> QED
  BY <1>9, <1>10, <1>11, <1>12, <1>13, <1>14, <1>15, <1>16, <1>17, <1>18, <1>19, <1>20, <1>21 DEF Next

LEMMA InitBadge == Init => BadgeInv
<1> SUFFICES ASSUME Init PROVE BadgeInv
  OBVIOUS
<1>1. OrderInv /\ Follows
  BY InitAck DEF AckInv
<1>2. NoSyncs
  BY DEF Init, NoSyncs
<1>3. ASSUME NEW c \in Chats PROVE Holds(liveFeed, c, stored[c], newest[c]) /\ Badge(c)
  <2>1. /\ Len(liveFeed) = 0 /\ stored[c] = 0 /\ newest[c] = 0 /\ unread[c] = 0 /\ serverRead[c] = 0
        /\ counting = NoChat
    BY EmptySeq DEF Init
  <2>2. counting # c
    BY <2>1, NoChatAssumption
  <2> QED  BY <2>1, <2>2 DEF Holds, Badge, Away, Balanced, InHand
<1> QED
  BY <1>1, <1>2, <1>3 DEF BadgeInv

(* A chat never opened is counted message by message, each when another    *)
(* chat is open, and a receipt on its way accounts for exactly the         *)
(* messages before it (live.go, countUnread and SetUnread).                *)
THEOREM BadgeHolds == Spec => []BadgeInv
<1>1. Init => BadgeInv
  BY InitBadge
<1>2. BadgeInv /\ [Next]_vars => BadgeInv'
  <2> SUFFICES ASSUME BadgeInv, [Next]_vars PROVE BadgeInv'
    OBVIOUS
  <2>1. OrderInv' /\ Follows' /\ NoSyncs'
    BY NextOrderInv, NextFollows, NextNoSyncs DEF BadgeInv
  <2>2. ASSUME NEW c \in Chats PROVE Holds(liveFeed', c, stored'[c], newest'[c])
    BY NextHolds DEF BadgeInv
  <2>3. ASSUME NEW c \in Chats PROVE Unopened(c)' => Badge(c)'
    BY NextBadge
  <2> QED  BY <2>1, <2>2, <2>3 DEF BadgeInv
<1> QED
  BY <1>1, <1>2, PTL DEF Spec

LEMMA BadgeWhenSettled ==
  ASSUME BadgeInv
  PROVE  UnopenedBadgeExact
<1> SUFFICES ASSUME NEW c \in Chats, Settled, Unopened(c)
             PROVE  unread[c] = newest[c] - serverRead[c]
  BY DEF UnopenedBadgeExact, Unopened
<1>1. Holds(liveFeed, c, stored[c], newest[c]) /\ Badge(c) /\ OrderInv
  BY DEF BadgeInv
<1>2. /\ stored[c] \in Nat /\ newest[c] \in Nat /\ stored[c] <= newest[c] /\ serverRead[c] \in Nat
      /\ unread[c] \in Nat
  BY <1>1, PointerTypes
<1>3. Len(liveFeed) = 0 /\ counting # c
  BY EmptySeq, NoChatAssumption DEF Settled
<1>4. stored[c] = newest[c]
  <2>1. \A v \in stored[c] + 1 .. newest[c] : FALSE
    BY <1>1, <1>3 DEF Holds
  <2> QED  BY <1>2, <2>1
<1>5. unread[c] + 0 = stored[c] - serverRead[c]
  BY <1>1, <1>3 DEF Badge, Balanced, InHand
<1> QED
  BY <1>2, <1>4, <1>5

(* What the user sees read is what the server is told and what the badges  *)
(* say (read.go, live.go).                                                 *)
THEOREM ReadStateHolds == Spec => []ReadStateAgrees
<1>1. AckInv /\ BadgeInv => ReadStateAgrees
  BY AckedWhenSettled, BadgeWhenSettled DEF AckInv, OrderInv, ReadStateAgrees
<1> QED
  BY <1>1, AckHolds, BadgeHolds, PTL
-----------------------------------------------------------------------------
(***************************************************************************)
(* The dialog list.  A page holds the BatchSize latest chats below the     *)
(* cursor, so a page that is not full holds all of them (Slices).          *)
(***************************************************************************)
LEMMA ListCounts ==
  ASSUME NEW S
  PROVE  DialogSync!Cardinality(S) = Cardinality(S)
BY DEF DialogSync!Cardinality, Cardinality

LEMMA NatLeast ==
  ASSUME NEW T \in SUBSET Nat, T # {}
  PROVE  \E x \in T : \A y \in T : ~(y < x)
<1> DEFINE R == OpToRel(<, Nat)
<1>1. IsWellFoundedOn(R, Nat)
  BY NatLessThanWellFounded
<1>2. \A x, y \in Nat : x < y => <<x, y>> \in R
  BY DEF OpToRel
<1> HIDE DEF R
<1>3. PICK x \in T : \A y \in T : <<y, x>> \notin R
  BY <1>1, WFMin
<1>4. \A y \in T : ~(y < x)
  BY <1>2, <1>3, Zenon
<1> QED
  BY <1>4

(* Of finitely many chats one is the latest, and one the earliest.         *)
LEMMA Latest ==
  ASSUME NEW X, IsFiniteSet(X), X # {}, NEW d, \A c \in X : d[c] \in Nat
  PROVE  \E c \in X : \A e \in X : d[e] <= d[c]
<1> DEFINE HasLatest(Y) == \E c \in Y : \A e \in Y : d[e] <= d[c]
           Bad == {n \in Nat : \E Y \in SUBSET X : Y # {} /\ Cardinality(Y) = n /\ ~HasLatest(Y)}
<1>1. ASSUME NEW n \in Bad, \A k \in Bad : ~(k < n) PROVE FALSE
  <2>1. PICK Y \in SUBSET X : Y # {} /\ Cardinality(Y) = n /\ ~HasLatest(Y)
    OBVIOUS
  <2>2. PICK x \in Y : TRUE
    BY <2>1
  <2>3. IsFiniteSet(Y)
    BY FS_Subset
  <2>4. /\ IsFiniteSet(Y \ {x}) /\ Cardinality(Y \ {x}) = n - 1 /\ Cardinality(Y \ {x}) \in Nat
    BY <2>1, <2>2, <2>3, FS_RemoveElement, FS_CardinalityType
  <2>5. CASE Y \ {x} = {}
    <3>1. Y = {x}
      BY <2>2, <2>5
    <3>2. HasLatest(Y)
      BY <2>2, <3>1
    <3> QED  BY <2>1, <3>2
  <2>6. CASE Y \ {x} # {}
    <3>1. HasLatest(Y \ {x})
      <4> DEFINE Z == Y \ {x}
      <4>1. Z \in SUBSET X /\ Z # {} /\ Cardinality(Z) \in Nat /\ Cardinality(Z) = n - 1 /\ n \in Nat
        BY <2>4, <2>6
      <4> HIDE DEF Z, HasLatest
      <4>2. ~HasLatest(Z) => Cardinality(Z) \in Bad
        BY <4>1
      <4>3. HasLatest(Z)
        BY <1>1, <4>1, <4>2
      <4> QED  BY <4>3 DEF Z, HasLatest
    <3>2. PICK c \in Y \ {x} : \A e \in Y \ {x} : d[e] <= d[c]
      BY <3>1
    <3>3. d[c] \in Nat /\ d[x] \in Nat /\ \A e \in Y : d[e] \in Nat
      BY <2>2
    <3>4. CASE d[x] <= d[c]
      <4>1. \A e \in Y : d[e] <= d[c]
        BY <3>2, <3>4
      <4> QED  BY <2>1, <4>1
    <3>5. CASE ~(d[x] <= d[c])
      <4>1. \A e \in Y : d[e] <= d[x]
        BY <3>2, <3>3, <3>5
      <4> QED  BY <2>1, <2>2, <4>1
    <3> QED  BY <3>4, <3>5
  <2> QED  BY <2>5, <2>6
<1>2. Bad = {}
  <2> SUFFICES ASSUME Bad # {} PROVE FALSE
    OBVIOUS
  <2>1. Bad \in SUBSET Nat
    OBVIOUS
  <2>2. \E n \in Bad : \A k \in Bad : ~(k < n)
    <3> HIDE DEF Bad
    <3> QED  BY <2>1, NatLeast
  <2> QED  BY <1>1, <2>2
<1>3. Cardinality(X) \in Nat
  BY FS_CardinalityType
<1>4. HasLatest(X)
  BY <1>2, <1>3
<1> QED
  BY <1>4

LEMMA Earliest ==
  ASSUME NEW X, X # {}, NEW d, \A c \in X : d[c] \in Nat
  PROVE  \E c \in X : \A e \in X : d[e] >= d[c]
<1> DEFINE T == {d[c] : c \in X}
<1>1. T \in SUBSET Nat /\ T # {}
  OBVIOUS
<1>2. \E x \in T : \A y \in T : ~(y < x)
  <2> HIDE DEF T
  <2> QED  BY <1>1, NatLeast
<1>3. PICK c \in X : \A e \in X : ~(d[e] < d[c])
  BY <1>2
<1> QED
  BY <1>3

(* A page of what is below the cursor.                                     *)
OnPage(B, d) == {c \in B : Cardinality({e \in B : d[e] >= d[c]}) <= BatchSize}

LEMMA Slices ==
  ASSUME NEW B, IsFiniteSet(B), NEW d, \A c \in B : d[c] \in Nat,
         \A a, b \in B : d[a] = d[b] => a = b
  PROVE  /\ IsFiniteSet(OnPage(B, d)) /\ Cardinality(OnPage(B, d)) \in Nat
         /\ Cardinality(OnPage(B, d)) < BatchSize => OnPage(B, d) = B
         /\ \A l \in OnPage(B, d), c \in B : d[c] >= d[l] => c \in OnPage(B, d)
<1> DEFINE R == OnPage(B, d)
           From(c) == {e \in B : d[e] >= d[c]}
<1>1. R \subseteq B
  BY DEF OnPage
<1>2. IsFiniteSet(R) /\ Cardinality(R) \in Nat
  <2> HIDE DEF R
  <2> QED  BY <1>1, FS_Subset, FS_CardinalityType
<1>3. \A c \in B : IsFiniteSet(From(c)) /\ Cardinality(From(c)) \in Nat
  <2> SUFFICES ASSUME NEW c \in B PROVE IsFiniteSet(From(c)) /\ Cardinality(From(c)) \in Nat
    OBVIOUS
  <2>1. From(c) \subseteq B
    OBVIOUS
  <2> HIDE DEF From
  <2> QED  BY <2>1, FS_Subset, FS_CardinalityType
<1>4. BatchSize \in Nat
  BY ListAssumption
<1>5. ASSUME NEW l \in R, NEW c \in B, d[c] >= d[l] PROVE c \in R
  <2>1. l \in B /\ Cardinality(From(l)) <= BatchSize
    BY DEF OnPage
  <2>2. From(c) \subseteq From(l)
    BY <1>5, <2>1
  <2>3. Cardinality(From(c)) <= Cardinality(From(l))
    <3> HIDE DEF From
    <3> QED  BY <1>3, <2>1, <2>2, FS_Subset
  <2>4. Cardinality(From(c)) <= BatchSize
    <3> HIDE DEF From
    <3> QED  BY <1>3, <1>4, <2>1, <2>3
  <2> QED  BY <2>4 DEF OnPage
<1>6. ASSUME R # B, Cardinality(R) < BatchSize PROVE FALSE
  <2> DEFINE Rest == B \ R
  <2>1. Rest # {} /\ Rest \subseteq B /\ IsFiniteSet(Rest)
    BY <1>1, <1>6, FS_Subset
  <2>2. \A c \in Rest : d[c] \in Nat
    BY <2>1
  <2>3. PICK c \in Rest : \A e \in Rest : d[e] <= d[c]
    <3> HIDE DEF Rest
    <3> QED  BY <2>1, <2>2, Latest
  <2>4. c \in B /\ c \notin R
    BY <1>1, <2>3
  <2>5. c \in From(c) /\ From(c) \ {c} \subseteq R
    <3>1. ASSUME NEW e \in From(c) \ {c}, e \notin R PROVE FALSE
      <4>1. e \in Rest /\ d[e] >= d[c] /\ d[e] \in Nat /\ d[c] \in Nat
        BY <2>4, <3>1
      <4>2. d[e] = d[c]
        BY <2>3, <4>1
      <4> QED  BY <2>4, <4>2, <3>1
    <3> QED  BY <2>4, <3>1
  <2>6. Cardinality(From(c) \ {c}) <= Cardinality(R)
    <3> HIDE DEF From, R
    <3> QED  BY <1>2, <2>5, FS_Subset
  <2>7. Cardinality(From(c) \ {c}) = Cardinality(From(c)) - 1
    <3> HIDE DEF From
    <3> QED  BY <1>3, <2>4, <2>5, FS_RemoveElement
  <2>8. Cardinality(From(c)) <= BatchSize
    <3> HIDE DEF From, R
    <3> QED  BY <1>2, <1>3, <1>4, <1>6, <2>4, <2>6, <2>7
  <2> QED
    BY <2>4, <2>8 DEF OnPage
<1> QED
  BY <1>2, <1>5, <1>6

-----------------------------------------------------------------------------
(* What a walk that nothing disturbed knows: d, a and R are the list's     *)
(* dates, its archive and the rows.                                        *)
There(d) == {c \in Listing : d[c] # 0}
In(f, d, a) == IF f = 1 THEN There(d) \cap a ELSE There(d) \ a

Reads(r, d, a) ==
    /\ r.seen \subseteq There(d)
    /\ r.folder = 1 /\ r.complete => In(0, d, a) \subseteq r.seen \union r.lost /\ r.seen # {}
    /\ r.pc = "fetch" \/ r.after = "more" =>
          \A c \in In(r.folder, d, a) :
             r.cursor # 0 /\ d[c] >= r.cursor => c \in r.seen \union r.lost
    /\ r.pc = "persist" /\ r.after = "end" =>
          In(r.folder, d, a) \subseteq r.seen \union r.lost /\ r.seen # {}

Faithful(r, d, a, R) ==
    /\ r.pc # "idle" /\ r.seen \ {Self} \subseteq There(d)
    /\ r.pc # "done" => ~r.pruned
    /\ r.pc \in {"fetch", "persist"} => Reads(r, d, a)
    /\ r.pc \in {"fetch", "self", "prune"} => r.seen \subseteq R \union r.unsaved
    /\ r.pc = "persist" => r.seen \ r.found \subseteq R \union r.unsaved
    /\ r.pc \in {"self", "prune"} /\ r.complete =>
          There(d) \subseteq r.seen \union r.lost /\ r.seen # {}
    /\ r.pc = "done" /\ r.complete =>
          /\ There(d) \subseteq R \union r.lost \union r.unsaved \union {Self}
          /\ r.pruned => R \ {Self} \subseteq There(d)

Distinct(d) == \A a, b \in Listing : d[a] = d[b] => a = b \/ d[a] = 0

ListInv ==
    /\ DialogSync!TypeOK /\ Distinct(v1)
    /\ \A w \in DialogSync!Walks : v6[w].quiet => Faithful(v6[w], v1, v2, v4)

LEMMA ListFacts ==
  ASSUME ListInv, NEW w \in DialogSync!Walks
  PROVE  /\ v6[w] \in DialogSync!WalkType
         /\ DialogSync!Listed = There(v1)
         /\ DialogSync!Folder(v6[w].folder) = In(v6[w].folder, v1, v2)
         /\ DialogSync!Below(w) \subseteq In(v6[w].folder, v1, v2)
         /\ IsFiniteSet(DialogSync!Below(w))
         /\ DialogSync!Raw(w) = OnPage(DialogSync!Below(w), v1)
         /\ DialogSync!Raw(w) \subseteq Listing
         /\ \A c \in DialogSync!Below(w) : v1[c] \in Nat /\ v1[c] # 0
         /\ \A a, b \in DialogSync!Below(w) : v1[a] = v1[b] => a = b
<1>1. v6[w] \in DialogSync!WalkType /\ v1 \in [Listing -> Nat]
  BY DEF ListInv, DialogSync!TypeOK
<1>2. /\ DialogSync!Listed = There(v1)
      /\ DialogSync!Folder(v6[w].folder) = In(v6[w].folder, v1, v2)
  BY DEF DialogSync!Listed, DialogSync!Folder, There, In
<1>3. DialogSync!Below(w) \subseteq In(v6[w].folder, v1, v2) /\ DialogSync!Below(w) \subseteq Listing
  BY <1>2 DEF DialogSync!Below, There, In
<1>4. IsFiniteSet(DialogSync!Below(w))
  BY <1>3, FS_Subset, ListAssumption
<1>5. DialogSync!Raw(w) = OnPage(DialogSync!Below(w), v1)
  BY ListCounts DEF DialogSync!Raw, OnPage
<1>6. DialogSync!Raw(w) \subseteq Listing
  BY <1>3 DEF DialogSync!Raw
<1>7. \A c \in DialogSync!Below(w) : v1[c] \in Nat /\ v1[c] # 0 /\ c \in Listing
  BY <1>1, <1>3 DEF In, There
<1>8. \A a, b \in DialogSync!Below(w) : v1[a] = v1[b] => a = b
  BY <1>7 DEF ListInv, Distinct
<1> QED
  BY <1>1, <1>2, <1>3, <1>4, <1>5, <1>6, <1>7, <1>8

(* A sync moves on to r; what it leaves alone stays as the other knew it.  *)
LEMMA WalkMoves ==
  ASSUME ListInv, NEW w \in DialogSync!Walks, NEW r \in DialogSync!WalkType,
         DialogSync!Becomes(w, r), UNCHANGED <<v1, v2>>,
         r.quiet => Faithful(r, v1, v2, v4')
  PROVE  /\ v6' \in [DialogSync!Walks -> DialogSync!WalkType]
         /\ \A v \in DialogSync!Walks : v6'[v].quiet => Faithful(v6'[v], v1', v2', v4')
<1>1. v6 \in [DialogSync!Walks -> DialogSync!WalkType]
  BY DEF ListInv, DialogSync!TypeOK
<1>2. v6' = [v \in DialogSync!Walks |-> IF v = w THEN r
                                       ELSE [v6[v] EXCEPT !.quiet = @ /\ v4' = v4]]
  BY DEF DialogSync!Becomes
<1>3. ASSUME NEW v \in DialogSync!Walks
      PROVE  v6'[v] \in DialogSync!WalkType /\ (v6'[v].quiet => Faithful(v6'[v], v1', v2', v4'))
  <2>1. CASE v = w
    BY <1>2, <2>1
  <2>2. CASE v # w
    <3>1. v6'[v] = [v6[v] EXCEPT !.quiet = @ /\ v4' = v4] /\ v6[v] \in DialogSync!WalkType
      BY <1>1, <1>2, <2>2
    <3>2. v6'[v] \in DialogSync!WalkType
      BY <3>1 DEF DialogSync!WalkType
    <3>3. v6'[v].quiet => v4' = v4 /\ v6[v].quiet
      BY <3>1 DEF DialogSync!WalkType
    <3>4. v6'[v].quiet => Faithful(v6[v], v1, v2, v4)
      BY <3>3 DEF ListInv
    <3>5. /\ v6'[v].pc = v6[v].pc /\ v6'[v].seen = v6[v].seen /\ v6'[v].folder = v6[v].folder
          /\ v6'[v].complete = v6[v].complete /\ v6'[v].after = v6[v].after
          /\ v6'[v].cursor = v6[v].cursor /\ v6'[v].found = v6[v].found
          /\ v6'[v].lost = v6[v].lost /\ v6'[v].unsaved = v6[v].unsaved /\ v6'[v].pruned = v6[v].pruned
      BY <3>1 DEF DialogSync!WalkType
    <3> QED
      BY <3>2, <3>3, <3>4, <3>5 DEF Faithful, Reads
  <2> QED  BY <2>1, <2>2
<1> QED
  BY <1>2, <1>3

(* A folder is finished with what p has seen; the rows are R by then.      *)
LEMMA FolderLeft ==
  ASSUME ListInv, NEW w \in DialogSync!Walks, NEW p \in DialogSync!WalkType, NEW ended \in BOOLEAN,
         DialogSync!Leave(w, p, ended), UNCHANGED <<v1, v2>>,
         p.quiet => /\ p.seen \subseteq There(v1) /\ p.seen \subseteq v4' \union p.unsaved
                    /\ p.folder = 1 /\ p.complete =>
                          In(0, v1, v2) \subseteq p.seen \union p.lost /\ p.seen # {}
                    /\ ended => In(p.folder, v1, v2) \subseteq p.seen \union p.lost
                    /\ ended /\ p.folder = 0 => p.seen # {}
                    /\ ~p.pruned
  PROVE  /\ v6' \in [DialogSync!Walks -> DialogSync!WalkType]
         /\ \A v \in DialogSync!Walks : v6'[v].quiet => Faithful(v6'[v], v1', v2', v4')
<1> DEFINE q == [p EXCEPT !.complete = @ /\ ended, !.found = {}]
           r == IF q.folder = 0 /\ ArchivePages > 0
                THEN [q EXCEPT !.pc = "fetch", !.folder = 1, !.page = 0, !.cursor = 0]
                ELSE [q EXCEPT !.pc = "self"]
<1>1. DialogSync!Becomes(w, r)
  BY DEF DialogSync!Leave
<1>3. /\ q \in DialogSync!WalkType /\ q.folder = p.folder /\ q.seen = p.seen /\ q.lost = p.lost
      /\ q.unsaved = p.unsaved /\ q.pruned = p.pruned
      /\ q.quiet = p.quiet /\ q.complete = (p.complete /\ ended)
  BY DEF DialogSync!WalkType
<1> HIDE DEF q
<1>4. CASE p.folder = 0
  <2>1. r = [q EXCEPT !.pc = "fetch", !.folder = 1, !.page = 0, !.cursor = 0]
    BY <1>3, <1>4, ListAssumption
  <2>2. /\ r \in DialogSync!WalkType /\ r.pc = "fetch" /\ r.folder = 1 /\ r.cursor = 0
        /\ r.seen = p.seen /\ r.quiet = p.quiet /\ r.complete = (p.complete /\ ended)
        /\ r.lost = p.lost /\ r.unsaved = p.unsaved /\ r.pruned = p.pruned
    BY <1>3, <2>1 DEF DialogSync!WalkType
  <2> HIDE DEF r
  <2>3. r.quiet => Faithful(r, v1, v2, v4')
    BY <1>4, <2>2 DEF Faithful, Reads
  <2> QED  BY <1>1, <2>2, <2>3, WalkMoves
<1>5. CASE p.folder # 0
  <2>1. r = [q EXCEPT !.pc = "self"] /\ p.folder = 1
    BY <1>3, <1>5 DEF DialogSync!WalkType
  <2>2. /\ r \in DialogSync!WalkType /\ r.pc = "self"
        /\ r.seen = p.seen /\ r.quiet = p.quiet /\ r.complete = (p.complete /\ ended)
        /\ r.lost = p.lost /\ r.unsaved = p.unsaved /\ r.pruned = p.pruned
    BY <1>3, <2>1 DEF DialogSync!WalkType
  <2> HIDE DEF r
  <2>3. In(0, v1, v2) \cup In(1, v1, v2) = There(v1)
    BY DEF In
  <2>4. r.quiet => Faithful(r, v1, v2, v4')
    BY <2>1, <2>2, <2>3 DEF Faithful, Reads
  <2> QED  BY <1>1, <2>2, <2>4, WalkMoves
<1> QED
  BY <1>4, <1>5

(* What the walk knows once a page without lost has come; one that was not *)
(* full is all that is below the cursor.                                   *)
LEMMA DecodesFaithfully ==
  ASSUME ListInv, NEW w \in DialogSync!Walks, NEW lost \in SUBSET DialogSync!Raw(w),
         NEW p, p = DialogSync!Decoding(w, lost)
  PROVE  /\ p \in DialogSync!WalkType
         /\ p.pc = v6[w].pc /\ p.seen = v6[w].seen /\ p.folder = v6[w].folder
         /\ p.cursor = v6[w].cursor /\ p.complete = v6[w].complete /\ p.after = v6[w].after
         /\ p.unsaved = v6[w].unsaved /\ p.pruned = v6[w].pruned /\ p.found = v6[w].found
         /\ p.page = v6[w].page
         /\ p.lost = v6[w].lost \union lost
         /\ p.quiet => v6[w].quiet /\ ~DialogSync!Blind(w, lost)
BY ListFacts DEF DialogSync!Decoding, DialogSync!WalkType

(* A page holds no more than was asked for.                                *)
LEMMA PageFits ==
  ASSUME NEW B, IsFiniteSet(B), NEW d, \A c \in B : d[c] \in Nat,
         \A a, b \in B : d[a] = d[b] => a = b
  PROVE  Cardinality(OnPage(B, d)) <= BatchSize
<1> DEFINE R == OnPage(B, d)
<1>1. R \subseteq B /\ IsFiniteSet(R)
  BY Slices DEF OnPage
<1>2. CASE R = {}
  BY <1>2, FS_EmptySet, ListAssumption
<1>3. CASE R # {}
  <2>1. \A c \in R : d[c] \in Nat
    BY <1>1
  <2>2. PICK l \in R : \A e \in R : d[e] >= d[l]
    <3> HIDE DEF R
    <3> QED  BY <1>3, <2>1, Earliest
  <2>3. Cardinality({e \in B : d[e] >= d[l]}) <= BatchSize
    BY <2>2 DEF OnPage
  <2>4. R \subseteq {e \in B : d[e] >= d[l]} /\ IsFiniteSet({e \in B : d[e] >= d[l]})
    <3> HIDE DEF R
    <3>1. {e \in B : d[e] >= d[l]} \subseteq B
      OBVIOUS
    <3>2. IsFiniteSet({e \in B : d[e] >= d[l]})
      BY <3>1, FS_Subset
    <3> QED  BY <1>1, <2>2, <3>2
  <2> DEFINE T == {e \in B : d[e] >= d[l]}
  <2>5. Cardinality(R) <= Cardinality(T) /\ Cardinality(R) \in Nat /\ Cardinality(T) \in Nat
    <3> HIDE DEF R, T
    <3>1. R \subseteq T /\ IsFiniteSet(T)
      BY <2>4 DEF T
    <3> QED  BY <3>1, FS_Subset, FS_CardinalityType
  <2> QED
    BY <2>3, <2>5, ListAssumption
<1> QED
  BY <1>2, <1>3

LEMMA WholeWhenNotFull ==
  ASSUME ListInv, NEW w \in DialogSync!Walks, ~DialogSync!Full(w)
  PROVE  DialogSync!Raw(w) = DialogSync!Below(w)
<1>1. /\ DialogSync!Raw(w) = OnPage(DialogSync!Below(w), v1)
      /\ Cardinality(OnPage(DialogSync!Below(w), v1)) < BatchSize
             => OnPage(DialogSync!Below(w), v1) = DialogSync!Below(w)
      /\ Cardinality(OnPage(DialogSync!Below(w), v1)) \in Nat
  BY ListFacts, Slices
<1>2. CASE DialogSync!Slice(w)
  <2>1. Cardinality(DialogSync!Raw(w)) # BatchSize
    BY <1>2, ListCounts DEF DialogSync!Full
  <2>2. Cardinality(DialogSync!Raw(w)) <= BatchSize
    BY <1>1, ListFacts, PageFits
  <2> QED  BY <1>1, <2>1, <2>2, ListAssumption
<1>3. CASE ~DialogSync!Slice(w)
  BY <1>3 DEF DialogSync!Slice
<1> QED
  BY <1>2, <1>3

LEMMA Spends ==
  ASSUME ListInv, NEW k \in DialogSync!Kinds, DialogSync!Spend(k)
  PROVE  v9' \in [DialogSync!Kinds -> Nat]
BY DEF ListInv, DialogSync!TypeOK, DialogSync!Spend

LEMMA Fails ==
  ASSUME ListInv, NEW C, DialogSync!Failing(C)
  PROVE  v9' \in [DialogSync!Kinds -> Nat]
<1>1. CASE C = {}
  BY <1>1 DEF ListInv, DialogSync!TypeOK, DialogSync!Failing
<1>2. CASE C # {}
  BY <1>2, Spends DEF DialogSync!Failing, DialogSync!Kinds
<1> QED  BY <1>1, <1>2

LEMMA EmptyKeeps ==
  ASSUME ListInv, NEW w \in DialogSync!Walks, DialogSync!EmptyPage(w)
  PROVE  ListInv'
<1> DEFINE p == DialogSync!Decoding(w, DialogSync!Raw(w))
<1>1. /\ v6[w].pc = "fetch" /\ UNCHANGED <<v1, v2, v3, v4, v5, v7, v8>>
      /\ DialogSync!Leave(w, p, v6[w].folder = 1)
  BY DEF DialogSync!EmptyPage, DialogSync!server
<1>0. v9' \in [DialogSync!Kinds -> Nat]
  BY Fails DEF DialogSync!EmptyPage
<1>2. /\ p \in DialogSync!WalkType
      /\ p.pc = v6[w].pc /\ p.seen = v6[w].seen /\ p.folder = v6[w].folder
      /\ p.cursor = v6[w].cursor /\ p.complete = v6[w].complete
      /\ p.unsaved = v6[w].unsaved /\ p.pruned = v6[w].pruned
      /\ p.lost = v6[w].lost \union DialogSync!Raw(w)
      /\ p.quiet => v6[w].quiet /\ ~DialogSync!Blind(w, DialogSync!Raw(w))
  BY DecodesFaithfully
<1> HIDE DEF p
<1>3. p.quiet => DialogSync!Raw(w) = DialogSync!Below(w)
  <2> SUFFICES ASSUME p.quiet PROVE DialogSync!Raw(w) = DialogSync!Below(w)
    OBVIOUS
  <2>1. ~DialogSync!Blind(w, DialogSync!Raw(w))
    BY <1>2
  <2>2. ~DialogSync!HasMore(w, DialogSync!Raw(w) \ DialogSync!Raw(w))
    BY DEF DialogSync!HasMore
  <2>3. ~DialogSync!Full(w) \/ DialogSync!Raw(w) = {}
    BY <2>1, <2>2 DEF DialogSync!Blind
  <2>4. DialogSync!Raw(w) = {} => ~DialogSync!Full(w)
    BY ListAssumption, ListCounts, FS_EmptySet DEF DialogSync!Full
  <2> QED  BY <2>3, <2>4, WholeWhenNotFull
<1>4. p.quiet => In(p.folder, v1, v2) \subseteq p.seen \union p.lost
  <2> SUFFICES ASSUME p.quiet, NEW c \in In(v6[w].folder, v1, v2) PROVE c \in v6[w].seen \union p.lost
    BY <1>2
  <2>1. Faithful(v6[w], v1, v2, v4)
    BY <1>2 DEF ListInv
  <2>2. c \in DialogSync!Folder(v6[w].folder) /\ v1[c] \in Nat /\ v6[w].cursor \in Nat
    BY ListFacts DEF In, There, ListInv, DialogSync!TypeOK, DialogSync!WalkType
  <2>3. CASE c \in DialogSync!Below(w)
    BY <1>2, <1>3, <2>3
  <2>4. CASE c \notin DialogSync!Below(w)
    <3>1. v6[w].cursor # 0 /\ v1[c] >= v6[w].cursor
      BY <2>2, <2>4 DEF DialogSync!Below
    <3> QED  BY <1>1, <1>2, <2>1, <3>1 DEF Faithful, Reads
  <2> QED  BY <2>3, <2>4
<1>5. p.quiet => /\ p.seen \subseteq There(v1) /\ p.seen \subseteq v4' \union p.unsaved
                 /\ p.folder = 1 /\ p.complete =>
                       In(0, v1, v2) \subseteq p.seen \union p.lost /\ p.seen # {}
                 /\ ~p.pruned
  BY <1>1, <1>2 DEF ListInv, Faithful, Reads
<1>6. /\ v6' \in [DialogSync!Walks -> DialogSync!WalkType]
      /\ \A v \in DialogSync!Walks : v6'[v].quiet => Faithful(v6'[v], v1', v2', v4')
  <2> DEFINE ended == v6[w].folder = 1
  <2>1. ended \in BOOLEAN /\ DialogSync!Leave(w, p, ended) /\ (ended => p.folder # 0)
    BY <1>1, <1>2
  <2> HIDE DEF ended
  <2> QED  BY <1>1, <1>2, <1>4, <1>5, <2>1, FolderLeft
<1> QED
  BY <1>0, <1>1, <1>6 DEF ListInv, DialogSync!TypeOK, Distinct

LEMMA PageKeeps ==
  ASSUME ListInv, NEW w \in DialogSync!Walks, NEW lost \in SUBSET DialogSync!Raw(w),
         DialogSync!Page(w, lost)
  PROVE  ListInv'
<1> DEFINE page == v6[w].page + 1
           found == DialogSync!Raw(w) \ lost
           after == IF DialogSync!HasMore(w, found)
                    THEN IF page < DialogSync!PageLimit(w) THEN "more" ELSE "cut"
                    ELSE IF DialogSync!Cardinality(found) < BatchSize THEN "end" ELSE "cut"
           l == DialogSync!Last(found)
           p == DialogSync!Decoding(w, lost)
           cursor == IF DialogSync!HasMore(w, found) THEN v1[l] ELSE v6[w].cursor
           r == [p EXCEPT !.pc = "persist", !.page = page, !.after = after, !.cursor = cursor,
                          !.found = found, !.seen = @ \union found]
<1>0. /\ p \in DialogSync!WalkType
      /\ p.seen = v6[w].seen /\ p.folder = v6[w].folder
      /\ p.cursor = v6[w].cursor /\ p.complete = v6[w].complete
      /\ p.unsaved = v6[w].unsaved /\ p.pruned = v6[w].pruned
      /\ p.lost = v6[w].lost \union lost
      /\ p.quiet => v6[w].quiet /\ ~DialogSync!Blind(w, lost)
  BY DecodesFaithfully
<1>1. /\ v6[w].pc = "fetch" /\ found # {} /\ UNCHANGED <<v1, v2, v3, v4, v5, v7, v8>>
      /\ DialogSync!Becomes(w, r)
  <2>1. /\ v6[w].pc = "fetch" /\ found # {} /\ UNCHANGED <<v1, v2, v3, v4, v5, v7, v8>>
    BY DEF DialogSync!Page, DialogSync!server
  <2>2. DialogSync!Becomes(w, [p EXCEPT
              !.pc = "persist", !.page = page, !.after = after,
              !.cursor = IF DialogSync!HasMore(w, found) THEN v1[l] ELSE @,
              !.found = found, !.seen = @ \union found])
    BY DEF DialogSync!Page
  <2>3. [p EXCEPT !.pc = "persist", !.page = page, !.after = after,
              !.cursor = IF DialogSync!HasMore(w, found) THEN v1[l] ELSE @,
              !.found = found, !.seen = @ \union found] = r
    <3> HIDE DEF p, page, after, found, l
    <3> QED  BY <1>0 DEF DialogSync!WalkType
  <2> QED  BY <2>1, <2>2, <2>3
<1> HIDE DEF p
<1>2. /\ v6[w] \in DialogSync!WalkType /\ DialogSync!Raw(w) = OnPage(DialogSync!Below(w), v1)
      /\ DialogSync!Below(w) \subseteq In(v6[w].folder, v1, v2)
  BY ListFacts
<1>3. /\ found \subseteq DialogSync!Below(w) /\ IsFiniteSet(DialogSync!Raw(w))
      /\ \A x \in found, c \in DialogSync!Below(w) : v1[c] >= v1[x] => c \in DialogSync!Raw(w)
      /\ \A c \in found : v1[c] \in Nat
  <2>1. OnPage(DialogSync!Below(w), v1) \subseteq DialogSync!Below(w)
    BY DEF OnPage
  <2>2. /\ IsFiniteSet(OnPage(DialogSync!Below(w), v1))
        /\ \A x \in OnPage(DialogSync!Below(w), v1), c \in DialogSync!Below(w) :
              v1[c] >= v1[x] => c \in OnPage(DialogSync!Below(w), v1)
    BY ListFacts, Slices
  <2>3. \A c \in DialogSync!Below(w) : v1[c] \in Nat
    BY ListFacts
  <2> QED  BY <1>2, <2>1, <2>2, <2>3
<1>4. l \in found
  <2>1. \E c \in found : \A e \in found : v1[e] >= v1[c]
    <3> HIDE DEF found
    <3> QED  BY <1>1, <1>3, Earliest
  <2> QED  BY <2>1 DEF DialogSync!Last
<1>5. found \subseteq In(v6[w].folder, v1, v2) /\ found \subseteq There(v1) /\ found \subseteq Listing
  BY <1>2, <1>3 DEF In, There
<1>6. cursor \in Nat
  BY <1>2, <1>3, <1>4 DEF DialogSync!WalkType
<1>7. after = "more" => \A c \in In(v6[w].folder, v1, v2) :
                           v1[c] >= cursor => \/ c \in found \union lost
                                              \/ v6[w].cursor # 0 /\ v1[c] >= v6[w].cursor
  <2> SUFFICES ASSUME after = "more", NEW c \in In(v6[w].folder, v1, v2), v1[c] >= cursor,
                      ~(v6[w].cursor # 0 /\ v1[c] >= v6[w].cursor)
               PROVE  c \in found \union lost
    OBVIOUS
  <2>1. cursor = v1[l]
    OBVIOUS
  <2>2. v1[c] \in Nat /\ c \in DialogSync!Folder(v6[w].folder) /\ v6[w].cursor \in Nat
    BY <1>2, ListFacts DEF In, There, ListInv, DialogSync!TypeOK, DialogSync!WalkType
  <2>3. c \in DialogSync!Below(w)
    BY <2>2 DEF DialogSync!Below
  <2> QED  BY <1>3, <1>4, <2>1, <2>3
<1>8. p.quiet /\ after = "end" => \A c \in In(v6[w].folder, v1, v2) :
                          \/ c \in found \union lost
                          \/ v6[w].cursor # 0 /\ v1[c] >= v6[w].cursor
  <2> SUFFICES ASSUME p.quiet, after = "end", NEW c \in In(v6[w].folder, v1, v2),
                      ~(v6[w].cursor # 0 /\ v1[c] >= v6[w].cursor)
               PROVE  c \in found \union lost
    OBVIOUS
  <2>1. DialogSync!Raw(w) = DialogSync!Below(w)
    <3>1. ~DialogSync!HasMore(w, found) /\ Cardinality(found) < BatchSize
      BY ListCounts
    <3>2. CASE lost = {}
      <4>1. found = DialogSync!Raw(w)
        BY <3>2
      <4>2. ~DialogSync!Full(w)
        BY <3>1, <4>1, ListCounts, ListAssumption DEF DialogSync!Full
      <4> QED  BY <4>2, WholeWhenNotFull
    <3>3. CASE lost # {}
      <4>1. ~DialogSync!Full(w)
        BY <1>0, <3>1, <3>3 DEF DialogSync!Blind
      <4> QED  BY <4>1, WholeWhenNotFull
    <3> QED  BY <3>2, <3>3
  <2>2. v1[c] \in Nat /\ c \in DialogSync!Folder(v6[w].folder) /\ v6[w].cursor \in Nat
    BY <1>2, ListFacts DEF In, There, ListInv, DialogSync!TypeOK, DialogSync!WalkType
  <2>3. c \in DialogSync!Below(w)
    BY <2>2 DEF DialogSync!Below
  <2> QED  BY <2>1, <2>3
<1>9. after \in {"more", "end", "cut"} /\ page \in Nat
  BY <1>2 DEF DialogSync!WalkType
<1> HIDE DEF after, found, cursor, page, l
<1>10. /\ r \in DialogSync!WalkType /\ r.pc = "persist" /\ r.after = after /\ r.found = found
       /\ r.cursor = cursor /\ r.seen = v6[w].seen \union found /\ r.folder = v6[w].folder
       /\ r.quiet = p.quiet /\ r.complete = v6[w].complete /\ r.lost = v6[w].lost \union lost
       /\ r.unsaved = v6[w].unsaved /\ r.pruned = v6[w].pruned
  BY <1>0, <1>5, <1>6, <1>9 DEF DialogSync!WalkType
<1> HIDE DEF r
<1>11. r.quiet => Faithful(r, v1, v2, v4')
  <2> SUFFICES ASSUME p.quiet PROVE Faithful(r, v1, v2, v4)
    BY <1>1, <1>10
  <2>1. Faithful(v6[w], v1, v2, v4)
    BY <1>0 DEF ListInv
  <2>2. Reads(v6[w], v1, v2) /\ v6[w].seen \subseteq v4 \union v6[w].unsaved /\ ~v6[w].pruned
    BY <1>1, <2>1 DEF Faithful
  <2>3. Reads(r, v1, v2)
    <3>1. r.seen \subseteq There(v1)
      BY <1>5, <1>10, <2>2 DEF Reads
    <3>2. r.folder = 1 /\ r.complete => In(0, v1, v2) \subseteq r.seen \union r.lost /\ r.seen # {}
      BY <1>10, <2>2 DEF Reads
    <3>3. \A c \in In(v6[w].folder, v1, v2) :
             v6[w].cursor # 0 /\ v1[c] >= v6[w].cursor => c \in r.seen \union r.lost
      BY <1>1, <1>10, <2>2 DEF Reads
    <3>4. after = "more" => \A c \in In(r.folder, v1, v2) :
             v1[c] >= r.cursor => c \in r.seen \union r.lost
      BY <1>7, <1>10, <3>3
    <3>5. after = "end" => In(r.folder, v1, v2) \subseteq r.seen \union r.lost /\ r.seen # {}
      BY <1>1, <1>8, <1>10, <3>3
    <3> QED  BY <1>10, <3>1, <3>2, <3>4, <3>5 DEF Reads
  <2> QED
    BY <1>10, <2>2, <2>3 DEF Faithful, Reads
<1>12. /\ v6' \in [DialogSync!Walks -> DialogSync!WalkType]
       /\ \A v \in DialogSync!Walks : v6'[v].quiet => Faithful(v6'[v], v1', v2', v4')
  BY <1>1, <1>10, <1>11, WalkMoves
<1>13. v9' \in [DialogSync!Kinds -> Nat]
  BY Fails DEF DialogSync!Page
<1> QED
  BY <1>1, <1>12, <1>13 DEF ListInv, DialogSync!TypeOK, Distinct

LEMMA PersistKeeps ==
  ASSUME ListInv, NEW w \in DialogSync!Walks, NEW unsaved \in SUBSET v6[w].found,
         DialogSync!PersistPage(w, unsaved)
  PROVE  ListInv'
<1> DEFINE p == [v6[w] EXCEPT !.unsaved = @ \union (unsaved \ v4)]
<1>1. /\ v6[w].pc = "persist" /\ v4' = v4 \union (v6[w].found \ unsaved)
      /\ v5' = v5 \ (v6[w].found \ unsaved) /\ UNCHANGED <<v1, v2, v3, v7, v8>>
  BY DEF DialogSync!PersistPage, DialogSync!server
<1>2. v6[w] \in DialogSync!WalkType
  BY ListFacts
<1>7. /\ p \in DialogSync!WalkType /\ p.pc = v6[w].pc /\ p.after = v6[w].after
      /\ p.seen = v6[w].seen /\ p.folder = v6[w].folder /\ p.complete = v6[w].complete
      /\ p.cursor = v6[w].cursor /\ p.quiet = v6[w].quiet /\ p.lost = v6[w].lost
      /\ p.pruned = v6[w].pruned /\ p.unsaved = v6[w].unsaved \union (unsaved \ v4)
  BY <1>2 DEF DialogSync!WalkType
<1>8. /\ p.after = "more" => DialogSync!Becomes(w, [p EXCEPT !.pc = "fetch", !.found = {}])
      /\ p.after # "more" => DialogSync!Leave(w, p, p.after = "end")
  BY DEF DialogSync!PersistPage
<1> HIDE DEF p
<1>3. v6[w].quiet => Reads(v6[w], v1, v2) /\ p.seen \subseteq v4' \union p.unsaved /\ ~p.pruned
  BY <1>1, <1>7 DEF ListInv, Faithful
<1>9. /\ v9' \in [DialogSync!Kinds -> Nat] /\ v4' \in SUBSET Listing /\ v5' \in SUBSET v4'
  <2>1. v9' \in [DialogSync!Kinds -> Nat]
    BY Fails DEF DialogSync!PersistPage
  <2>2. v6[w].found \subseteq Listing
    BY <1>2 DEF DialogSync!WalkType
  <2>3. v4' \in SUBSET Listing /\ v5' \in SUBSET v4'
    BY <1>1, <2>2 DEF ListInv, DialogSync!TypeOK
  <2> QED  BY <2>1, <2>3
<1>10. /\ v6' \in [DialogSync!Walks -> DialogSync!WalkType]
       /\ \A v \in DialogSync!Walks : v6'[v].quiet => Faithful(v6'[v], v1', v2', v4')
  <2>1. CASE p.after = "more"
    <3> DEFINE r == [p EXCEPT !.pc = "fetch", !.found = {}]
    <3>1. DialogSync!Becomes(w, r)
      BY <1>8, <2>1
    <3>2. /\ r \in DialogSync!WalkType /\ r.pc = "fetch" /\ r.seen = p.seen /\ r.folder = p.folder
          /\ r.complete = p.complete /\ r.cursor = p.cursor /\ r.quiet = p.quiet
          /\ r.lost = p.lost /\ r.unsaved = p.unsaved /\ r.pruned = p.pruned
      BY <1>7 DEF DialogSync!WalkType
    <3> HIDE DEF r
    <3>3. r.quiet => Faithful(r, v1, v2, v4')
      BY <1>3, <1>7, <2>1, <3>2 DEF Faithful, Reads
    <3> QED
      BY <1>1, <3>1, <3>2, <3>3, WalkMoves
  <2>2. CASE p.after # "more"
    <3> DEFINE ended == p.after = "end"
    <3>1. ended \in BOOLEAN /\ DialogSync!Leave(w, p, ended) /\ (ended => v6[w].after = "end")
      BY <1>7, <1>8, <2>2
    <3> HIDE DEF ended
    <3>2. p.quiet => /\ p.seen \subseteq There(v1) /\ p.seen \subseteq v4' \union p.unsaved
                     /\ p.folder = 1 /\ p.complete =>
                           In(0, v1, v2) \subseteq p.seen \union p.lost /\ p.seen # {}
                     /\ ended => In(p.folder, v1, v2) \subseteq p.seen \union p.lost
                     /\ ended /\ p.folder = 0 => p.seen # {}
                     /\ ~p.pruned
      BY <1>1, <1>3, <1>7, <3>1 DEF Reads
    <3> QED
      BY <1>1, <1>7, <3>1, <3>2, FolderLeft
  <2> QED  BY <2>1, <2>2
<1> QED
  BY <1>1, <1>9, <1>10 DEF ListInv, DialogSync!TypeOK, Distinct

LEMMA SelfKeeps ==
  ASSUME ListInv, NEW w \in DialogSync!Walks, DialogSync!EnsureSelf(w)
  PROVE  ListInv'
<1> DEFINE r == [v6[w] EXCEPT !.pc = "prune", !.seen = @ \union {Self}]
<1>1. /\ v6[w].pc = "self" /\ DialogSync!Becomes(w, r)
      /\ v4' \in {v4, v4 \union {Self}} /\ v5' \in {v5, v5 \ {Self}} /\ v4 \subseteq v4'
      /\ Self \notin v6[w].seen => Self \in v4'
      /\ UNCHANGED <<v1, v2, v3, v7, v8, v9>>
  BY DEF DialogSync!EnsureSelf, DialogSync!server
<1>2. v6[w] \in DialogSync!WalkType
  BY ListFacts
<1>3. /\ r \in DialogSync!WalkType /\ r.pc = "prune" /\ r.seen = v6[w].seen \union {Self}
      /\ r.complete = v6[w].complete /\ r.quiet = v6[w].quiet
      /\ r.lost = v6[w].lost /\ r.unsaved = v6[w].unsaved /\ r.pruned = v6[w].pruned
  BY <1>2, ListAssumption DEF DialogSync!WalkType
<1> HIDE DEF r
<1>4. r.quiet => Faithful(r, v1, v2, v4')
  <2> SUFFICES ASSUME v6[w].quiet PROVE Faithful(r, v1, v2, v4')
    BY <1>3
  <2>1. Faithful(v6[w], v1, v2, v4)
    BY DEF ListInv
  <2>2. /\ v6[w].seen \subseteq v4 \union v6[w].unsaved /\ v6[w].seen \ {Self} \subseteq There(v1)
        /\ v6[w].complete => There(v1) \subseteq v6[w].seen \union v6[w].lost
        /\ ~v6[w].pruned
    BY <1>1, <2>1 DEF Faithful
  <2> QED
    BY <1>1, <1>3, <2>2 DEF Faithful
<1>5. /\ v6' \in [DialogSync!Walks -> DialogSync!WalkType]
      /\ \A v \in DialogSync!Walks : v6'[v].quiet => Faithful(v6'[v], v1', v2', v4')
  BY <1>1, <1>3, <1>4, WalkMoves
<1>6. v4' \subseteq Listing /\ v5' \subseteq v4'
  BY <1>1, ListAssumption DEF ListInv, DialogSync!TypeOK
<1> QED
  BY <1>1, <1>5, <1>6 DEF ListInv, DialogSync!TypeOK, Distinct

LEMMA PruneKeeps ==
  ASSUME ListInv, NEW w \in DialogSync!Walks, DialogSync!Prune(w)
  PROVE  ListInv'
<1> DEFINE r == [v6[w] EXCEPT !.pc = "done", !.pruned = TRUE]
<1>1. /\ v6[w].pc = "prune" /\ DialogSync!Becomes(w, r)
      /\ v4' = IF v6[w].complete /\ v6[w].seen # {} THEN v4 \cap v6[w].seen ELSE v4
      /\ v5' = v5 \cap v4' /\ UNCHANGED <<v1, v2, v3, v7, v8, v9>>
  BY DEF DialogSync!Prune, DialogSync!server
<1>2. v6[w] \in DialogSync!WalkType
  BY ListFacts
<1>3. /\ r \in DialogSync!WalkType /\ r.pc = "done" /\ r.seen = v6[w].seen
      /\ r.complete = v6[w].complete /\ r.quiet = v6[w].quiet
      /\ r.lost = v6[w].lost /\ r.unsaved = v6[w].unsaved
  BY <1>2 DEF DialogSync!WalkType
<1> HIDE DEF r
<1>4. r.quiet => Faithful(r, v1, v2, v4')
  <2> SUFFICES ASSUME v6[w].quiet PROVE Faithful(r, v1, v2, v4')
    BY <1>3
  <2>1. Faithful(v6[w], v1, v2, v4)
    BY DEF ListInv
  <2>2. /\ v6[w].seen \subseteq v4 \union v6[w].unsaved /\ v6[w].seen \ {Self} \subseteq There(v1)
        /\ v6[w].complete => There(v1) \subseteq v6[w].seen \union v6[w].lost /\ v6[w].seen # {}
    BY <1>1, <2>1 DEF Faithful
  <2>3. v6[w].complete => /\ v4' \ {Self} \subseteq There(v1)
                          /\ There(v1) \subseteq v4' \union r.lost \union r.unsaved \union {Self}
    BY <1>1, <1>3, <2>2
  <2> QED
    BY <1>3, <2>2, <2>3 DEF Faithful
<1>5. /\ v6' \in [DialogSync!Walks -> DialogSync!WalkType]
      /\ \A v \in DialogSync!Walks : v6'[v].quiet => Faithful(v6'[v], v1', v2', v4')
  BY <1>1, <1>3, <1>4, WalkMoves
<1>6. v4' \subseteq Listing /\ v5' \subseteq v4'
  BY <1>1 DEF ListInv, DialogSync!TypeOK
<1> QED
  BY <1>1, <1>5, <1>6 DEF ListInv, DialogSync!TypeOK, Distinct

(* Steps that write neither the list nor the rows, and move one walk.      *)
LEMMA OneWalk ==
  ASSUME ListInv, NEW w \in DialogSync!Walks, NEW r \in DialogSync!WalkType,
         v6' = [v6 EXCEPT ![w] = r], UNCHANGED <<v1, v2, v4>>,
         r.quiet => Faithful(r, v1, v2, v4)
  PROVE  /\ v6' \in [DialogSync!Walks -> DialogSync!WalkType]
         /\ \A v \in DialogSync!Walks : v6'[v].quiet => Faithful(v6'[v], v1', v2', v4')
BY DEF ListInv, DialogSync!TypeOK

(* A disturbance: no walk is quiet after it.                               *)
LEMMA Disturbs ==
  ASSUME ListInv, DialogSync!Disturb
  PROVE  /\ v6' \in [DialogSync!Walks -> DialogSync!WalkType]
         /\ \A v \in DialogSync!Walks : ~v6'[v].quiet
<1>1. v6' = [w \in DialogSync!Walks |-> [v6[w] EXCEPT !.quiet = FALSE]]
  BY DEF DialogSync!Disturb
<1>2. v6 \in [DialogSync!Walks -> DialogSync!WalkType]
  BY DEF ListInv, DialogSync!TypeOK
<1>3. ASSUME NEW w \in DialogSync!Walks
      PROVE  /\ [v6[w] EXCEPT !.quiet = FALSE] \in DialogSync!WalkType
             /\ ~[v6[w] EXCEPT !.quiet = FALSE].quiet
  <2>1. v6[w] \in DialogSync!WalkType
    BY <1>2
  <2> QED  BY <2>1 DEF DialogSync!WalkType
<1> QED
  BY <1>1, <1>3

LEMMA NoWalkType ==
  /\ DialogSync!NoWalk \in DialogSync!WalkType /\ DialogSync!NoWalk.quiet = FALSE
  /\ DialogSync!Starting \in DialogSync!WalkType /\ DialogSync!Starting.pc = "fetch"
  /\ DialogSync!Starting.seen = {} /\ DialogSync!Starting.folder = 0 /\ DialogSync!Starting.cursor = 0
  /\ DialogSync!Starting.found = {} /\ DialogSync!Starting.after = "end"
  /\ DialogSync!Starting.pruned = FALSE
BY DEF DialogSync!NoWalk, DialogSync!Starting, DialogSync!WalkType

LEMMA StartsFaithful ==
  \A R : Faithful(DialogSync!Starting, v1, v2, R)
BY NoWalkType DEF Faithful, Reads

LEMMA FailsKeep ==
  ASSUME ListInv, NEW w \in DialogSync!Walks,
         \/ DialogSync!WalkFails(w) \/ DialogSync!SelfUnknown(w) \/ DialogSync!PruneFails(w)
  PROVE  ListInv'
<1>1. CASE DialogSync!WalkFails(w)
  <2>1. /\ v6' = [v6 EXCEPT ![w] = DialogSync!NoWalk] /\ DialogSync!Spend("failures")
        /\ UNCHANGED <<v1, v2, v3, v4, v5, v7, v8>>
    BY <1>1 DEF DialogSync!WalkFails, DialogSync!server
  <2>2. v9' \in [DialogSync!Kinds -> Nat]
    BY <2>1, Spends DEF DialogSync!Kinds
  <2>3. /\ v6' \in [DialogSync!Walks -> DialogSync!WalkType]
        /\ \A v \in DialogSync!Walks : v6'[v].quiet => Faithful(v6'[v], v1', v2', v4')
    BY <2>1, NoWalkType, OneWalk
  <2> QED
    BY <2>1, <2>2, <2>3 DEF ListInv, DialogSync!TypeOK, Distinct
<1>2. CASE DialogSync!SelfUnknown(w)
  <2> DEFINE r == [v6[w] EXCEPT !.pc = "prune"]
  <2>1. /\ v6[w].pc = "self" /\ v6' = [v6 EXCEPT ![w].pc = "prune"] /\ DialogSync!Spend("failures")
        /\ UNCHANGED <<v1, v2, v3, v4, v5, v7, v8>>
    BY <1>2 DEF DialogSync!SelfUnknown, DialogSync!server
  <2>2. v9' \in [DialogSync!Kinds -> Nat]
    BY <2>1, Spends DEF DialogSync!Kinds
  <2>3. v6[w] \in DialogSync!WalkType
    BY ListFacts
  <2>4. /\ r \in DialogSync!WalkType /\ r.pc = "prune" /\ r.seen = v6[w].seen /\ r.complete = v6[w].complete
        /\ r.quiet = v6[w].quiet
        /\ r.lost = v6[w].lost /\ r.unsaved = v6[w].unsaved /\ r.pruned = v6[w].pruned
    BY <2>3 DEF DialogSync!WalkType
  <2>5. v6' = [v6 EXCEPT ![w] = r]
    BY <2>1 DEF ListInv, DialogSync!TypeOK
  <2> HIDE DEF r
  <2>6. r.quiet => Faithful(r, v1, v2, v4)
    BY <2>1, <2>4 DEF ListInv, Faithful
  <2>7. /\ v6' \in [DialogSync!Walks -> DialogSync!WalkType]
        /\ \A v \in DialogSync!Walks : v6'[v].quiet => Faithful(v6'[v], v1', v2', v4')
    BY <2>1, <2>4, <2>5, <2>6, OneWalk
  <2> QED
    BY <2>1, <2>2, <2>7 DEF ListInv, DialogSync!TypeOK, Distinct
<1>3. CASE DialogSync!PruneFails(w)
  <2> DEFINE r == [v6[w] EXCEPT !.pc = "done"]
  <2>1. /\ v6[w].pc = "prune" /\ v6' = [v6 EXCEPT ![w].pc = "done"] /\ DialogSync!Spend("failures")
        /\ UNCHANGED <<v1, v2, v3, v4, v5, v7, v8>>
    BY <1>3 DEF DialogSync!PruneFails, DialogSync!server
  <2>2. v9' \in [DialogSync!Kinds -> Nat]
    BY <2>1, Spends DEF DialogSync!Kinds
  <2>3. v6[w] \in DialogSync!WalkType
    BY ListFacts
  <2>4. /\ r \in DialogSync!WalkType /\ r.pc = "done" /\ r.seen = v6[w].seen /\ r.complete = v6[w].complete
        /\ r.quiet = v6[w].quiet
        /\ r.lost = v6[w].lost /\ r.unsaved = v6[w].unsaved /\ r.pruned = v6[w].pruned
    BY <2>3 DEF DialogSync!WalkType
  <2>5. v6' = [v6 EXCEPT ![w] = r]
    BY <2>1 DEF ListInv, DialogSync!TypeOK
  <2> HIDE DEF r
  <2>6. r.quiet => Faithful(r, v1, v2, v4)
    BY <2>1, <2>4 DEF ListInv, Faithful
  <2>7. /\ v6' \in [DialogSync!Walks -> DialogSync!WalkType]
        /\ \A v \in DialogSync!Walks : v6'[v].quiet => Faithful(v6'[v], v1', v2', v4')
    BY <2>1, <2>4, <2>5, <2>6, OneWalk
  <2> QED
    BY <2>1, <2>2, <2>7 DEF ListInv, DialogSync!TypeOK, Distinct
<1> QED
  BY <1>1, <1>2, <1>3

(* A push dates its chat above every other.                                *)
LEMMA Newest ==
  ASSUME ListInv
  PROVE  DialogSync!NextDate \in Nat \ {0} /\ \A c \in Listing : v1[c] < DialogSync!NextDate
<1> DEFINE T == {v1[c] : c \in Listing}
<1>1. \A c \in Listing : v1[c] \in Nat
  BY DEF ListInv, DialogSync!TypeOK
<1>2. PICK c \in Listing : \A e \in Listing : v1[e] <= v1[c]
  BY <1>1, Latest, ListAssumption
<1>3. v1[c] \in T /\ \A y \in T : v1[c] >= y
  BY <1>1, <1>2
<1> DEFINE m == DialogSync!Max(T)
<1>4. m \in T /\ \A y \in T : m >= y
  <2> HIDE DEF T
  <2> QED  BY <1>3 DEF DialogSync!Max
<1>5. DialogSync!NextDate = m + 1
  BY DEF DialogSync!NextDate
<1> QED
  <2>1. m \in Nat
    <3> HIDE DEF m
    <3> QED  BY <1>1, <1>4
  <2>2. \A e \in Listing : m >= v1[e]
    <3> HIDE DEF m
    <3> QED  BY <1>4
  <2> HIDE DEF m
  <2> QED  BY <1>1, <1>5, <2>1, <2>2

LEMMA ServerKeeps ==
  ASSUME ListInv, NEW c \in Listing,
         DialogSync!MessageArrives(c) \/ DialogSync!MovedElsewhere(c) \/ DialogSync!DeletedElsewhere(c)
  PROVE  ListInv'
<1>1. /\ DialogSync!Disturb /\ UNCHANGED <<v4, v5, v7, v8>>
      /\ \E k \in DialogSync!Kinds : DialogSync!Spend(k)
  BY DEF DialogSync!MessageArrives, DialogSync!MovedElsewhere, DialogSync!DeletedElsewhere, DialogSync!Kinds
<1>2. v9' \in [DialogSync!Kinds -> Nat]
  BY <1>1, Spends
<1>3. /\ v6' \in [DialogSync!Walks -> DialogSync!WalkType]
      /\ \A v \in DialogSync!Walks : ~v6'[v].quiet
  BY <1>1, Disturbs
<1>4. /\ v1 \in [Listing -> Nat] /\ v2 \subseteq Listing /\ v3 \subseteq Listing /\ Distinct(v1)
      /\ v4 \subseteq Listing /\ v5 \subseteq v4 /\ v7 \in BOOLEAN /\ v8 \in BOOLEAN
  BY DEF ListInv, DialogSync!TypeOK
<1>5. v1' \in [Listing -> Nat] /\ v2' \subseteq Listing /\ v3' \subseteq Listing /\ Distinct(v1')
  <2>1. CASE DialogSync!MessageArrives(c)
    <3> DEFINE n == DialogSync!NextDate
    <3>1. v1' = [v1 EXCEPT ![c] = n] /\ v2' = v2 /\ v3' = v3 \union {c}
      BY <2>1 DEF DialogSync!MessageArrives
    <3>2. n \in Nat \ {0} /\ \A e \in Listing : v1[e] < n
      BY Newest
    <3> HIDE DEF n
    <3>3. \A e \in Listing : v1'[e] = IF e = c THEN n ELSE v1[e]
      BY <1>4, <3>1
    <3>4. Distinct(v1')
      BY <1>4, <3>2, <3>3 DEF Distinct
    <3> QED  BY <1>4, <3>1, <3>2, <3>4
  <2>2. CASE DialogSync!MovedElsewhere(c)
    <3>1. UNCHANGED <<v1, v3>> /\ v2' \in {v2 \ {c}, v2 \union {c}}
      BY <2>2 DEF DialogSync!MovedElsewhere
    <3> QED  BY <1>4, <3>1
  <2>3. CASE DialogSync!DeletedElsewhere(c)
    <3>1. v1' = [v1 EXCEPT ![c] = 0] /\ UNCHANGED <<v2, v3>>
      BY <2>3 DEF DialogSync!DeletedElsewhere
    <3>2. \A e \in Listing : v1'[e] = IF e = c THEN 0 ELSE v1[e]
      BY <1>4, <3>1
    <3>3. Distinct(v1')
      BY <1>4, <3>2 DEF Distinct
    <3> QED  BY <1>4, <3>1, <3>3
  <2> QED  BY <2>1, <2>2, <2>3
<1> QED
  BY <1>1, <1>2, <1>3, <1>4, <1>5 DEF ListInv, DialogSync!TypeOK

LEMMA LiveKeeps ==
  ASSUME ListInv, NEW c \in Listing, DialogSync!Persist(c)
  PROVE  ListInv'
<1>1. /\ v3' = v3 \ {c} /\ v4' = v4 \union {c} /\ UNCHANGED <<v1, v2, v8, v9>>
      /\ IF c \in v4 THEN UNCHANGED <<v5, v7, v6>>
                     ELSE v5' = v5 \union {c} /\ v7' = TRUE /\ DialogSync!Disturb
  BY DEF DialogSync!Persist, DialogSync!server
<1>2. CASE c \in v4
  BY <1>1, <1>2 DEF ListInv, DialogSync!TypeOK
<1>3. CASE c \notin v4
  <2>1. /\ v6' \in [DialogSync!Walks -> DialogSync!WalkType]
        /\ \A v \in DialogSync!Walks : ~v6'[v].quiet
    BY <1>1, <1>3, Disturbs
  <2> QED
    BY <1>1, <1>3, <2>1 DEF ListInv, DialogSync!TypeOK
<1> QED
  BY <1>2, <1>3

LEMMA RefreshKeeps ==
  ASSUME ListInv, DialogSync!Refresh \/ DialogSync!CooldownEnds
  PROVE  ListInv'
<1>1. UNCHANGED <<v1, v2, v3, v4, v5, v9>> /\ v7' \in {v7, FALSE} /\ v8' \in {v8, TRUE, FALSE}
  BY DEF DialogSync!Refresh, DialogSync!CooldownEnds, DialogSync!server
<1>2. v6' = v6 \/ v6' = [v6 EXCEPT !["rediscover"] = DialogSync!Starting]
  BY DEF DialogSync!Refresh, DialogSync!CooldownEnds
<1>3. "rediscover" \in DialogSync!Walks
  BY DEF DialogSync!Walks
<1>4. /\ v6' \in [DialogSync!Walks -> DialogSync!WalkType]
      /\ \A v \in DialogSync!Walks : v6'[v].quiet => Faithful(v6'[v], v1', v2', v4')
  <2>1. CASE v6' = v6
    BY <1>1, <2>1 DEF ListInv, DialogSync!TypeOK
  <2>2. CASE v6' = [v6 EXCEPT !["rediscover"] = DialogSync!Starting]
    BY <1>1, <1>3, <2>2, NoWalkType, StartsFaithful, OneWalk
  <2> QED  BY <1>2, <2>1, <2>2
<1> QED
  BY <1>1, <1>4 DEF ListInv, DialogSync!TypeOK, Distinct

LEMMA ListStep ==
  ASSUME ListInv, DialogSync!Next
  PROVE  ListInv'
<1>1. CASE \E c \in Listing : \/ DialogSync!MessageArrives(c) \/ DialogSync!MovedElsewhere(c)
                              \/ DialogSync!DeletedElsewhere(c) \/ DialogSync!Persist(c)
  BY <1>1, ServerKeeps, LiveKeeps
<1>2. CASE DialogSync!Refresh \/ DialogSync!CooldownEnds
  BY <1>2, RefreshKeeps
<1>3. CASE \E w \in DialogSync!Walks : \/ DialogSync!WalkStep(w) \/ DialogSync!WalkFails(w)
                                       \/ DialogSync!SelfUnknown(w) \/ DialogSync!PruneFails(w)
  <2>1. PICK w \in DialogSync!Walks : \/ DialogSync!WalkStep(w) \/ DialogSync!WalkFails(w)
                                      \/ DialogSync!SelfUnknown(w) \/ DialogSync!PruneFails(w)
    BY <1>3
  <2>2. CASE \E lost \in SUBSET (DialogSync!Raw(w) \cap Undecodable) : DialogSync!Page(w, lost)
    <3>1. PICK lost \in SUBSET DialogSync!Raw(w) : DialogSync!Page(w, lost)
      BY <2>2
    <3> QED  BY <3>1, PageKeeps
  <2>3. CASE \E unsaved \in SUBSET v6[w].found : DialogSync!PersistPage(w, unsaved)
    BY <2>3, PersistKeeps
  <2> QED
    BY <2>1, <2>2, <2>3, EmptyKeeps, SelfKeeps, PruneKeeps, FailsKeep DEF DialogSync!WalkStep
<1> QED
  BY <1>1, <1>2, <1>3 DEF DialogSync!Next

LEMMA ListStart ==
  ASSUME DialogSync!Init
  PROVE  ListInv
<1>1. v1 \in [Listing -> 0 .. DialogSync!Cardinality(Listing)] /\ Distinct(v1)
  BY DEF DialogSync!Init, Distinct
<1>2. v1 \in [Listing -> Nat]
  <2>1. DialogSync!Cardinality(Listing) \in Nat
    BY ListCounts, ListAssumption, FS_CardinalityType
  <2> QED  BY <1>1, <2>1
<1>3. /\ v2 \subseteq Listing /\ v4 \subseteq Listing /\ v3 = {} /\ v5 = {}
      /\ v7 = FALSE /\ v8 = FALSE /\ v9 = [k \in DialogSync!Kinds |-> 0]
  BY DEF DialogSync!Init, DialogSync!Listed
<1>4. v6 = [w \in DialogSync!Walks |-> IF w = "startup" THEN DialogSync!Starting ELSE DialogSync!NoWalk]
  BY DEF DialogSync!Init
<1>5. v6 \in [DialogSync!Walks -> DialogSync!WalkType]
  BY <1>4, NoWalkType
<1>6. \A w \in DialogSync!Walks : v6[w].quiet => Faithful(v6[w], v1, v2, v4)
  BY <1>4, NoWalkType, StartsFaithful
<1> QED
  BY <1>1, <1>2, <1>3, <1>5, <1>6 DEF ListInv, DialogSync!TypeOK

LEMMA ListHolds ==
  ASSUME ListInv
  PROVE  DialogSync!TypeOK /\ DialogSync!CompleteMeansAll /\ DialogSync!SyncedMirrorsServer
<1>1. \A w \in DialogSync!Walks : DialogSync!Listed = There(v1)
  BY ListFacts
<1> QED
  BY <1>1 DEF ListInv, Faithful, DialogSync!CompleteMeansAll, DialogSync!SyncedMirrorsServer

-----------------------------------------------------------------------------
(***************************************************************************)
(* The secrets file.  SecretsProofs has the invariant and its proof; Kept  *)
(* is that module over the variables this run gives the store.             *)
(***************************************************************************)
Kept == INSTANCE SecretsProofs WITH
    Procs <- Procs, Phones <- Phones, Nobody <- Nobody, Keyrings <- Keyrings,
    MaxStarts <- MaxStarts, MaxWrites <- MaxWrites, MaxFaults <- MaxFaults,
    keyring <- v1, made <- v2, file <- v3, lock <- v4, accounts <- v5, me <- v6,
    printed <- v7, starts <- v8, faults <- v9

LEMMA SameStart == Secrets!Init => Kept!Init
BY Zenon DEF Secrets!Typed, Kept!Typed, Secrets!Old, Kept!Old, Secrets!NoSessions, Kept!NoSessions,
       Secrets!Absent, Kept!Absent, Secrets!Gone, Kept!Gone, Secrets!Init, Kept!Init

LEMMA SameSteps == Secrets!Next => Kept!Next
BY Zenon DEF Secrets!Typed, Kept!Typed, Secrets!Old, Kept!Old, Secrets!NoSessions, Kept!NoSessions,
       Secrets!Absent, Kept!Absent, Secrets!Gone, Kept!Gone, Secrets!Fault, Kept!Fault,
       Secrets!With, Kept!With, Secrets!Become, Kept!Become, Secrets!WritesAs, Kept!WritesAs,
       Secrets!Running, Kept!Running, Secrets!Unlocked, Kept!Unlocked,
       Secrets!Loading, Kept!Loading, Secrets!NewSecretStore, Kept!NewSecretStore,
       Secrets!Refused, Kept!Refused, Secrets!LoadFails, Kept!LoadFails,
       Secrets!Prompt, Kept!Prompt, Secrets!KeyringPassphrase, Kept!KeyringPassphrase,
       Secrets!Filled, Kept!Filled, Secrets!EnsureLoaded, Kept!EnsureLoaded,
       Secrets!TakeLock, Kept!TakeLock, Secrets!Refresh, Kept!Refresh,
       Secrets!Stored, Kept!Stored, Secrets!Mutate, Kept!Mutate,
       Secrets!StoreSession, Kept!StoreSession, Secrets!LoadSession, Kept!LoadSession,
       Secrets!Authorised, Kept!Authorised, Secrets!SaveAccount, Kept!SaveAccount,
       Secrets!DeleteAccount, Kept!DeleteAccount, Secrets!Ends, Kept!Ends,
       Secrets!Next, Kept!Next

LEMMA KeptBounds == Kept!Bounds
BY SecretsAssumption DEF Kept!Bounds, Kept!Old

SecretsHold == part = "secrets" => Kept!SecretsInv

LEMMA SecretsStart == MCInit => SecretsHold
BY SameStart, KeptBounds, Kept!SecretsInit DEF MCInit, SecretsHold

LEMMA SecretsStep == SecretsHold /\ [MCNext]_state => SecretsHold'
<1> SUFFICES ASSUME SecretsHold, [MCNext]_state, part = "secrets" PROVE Kept!SecretsInv'
  BY DEF SecretsHold, MCNext, state
<1>1. CASE MCNext
  <2>1. Secrets!Next
    BY <1>1 DEF MCNext, MCSteps
  <2> QED  BY <2>1, SameSteps, KeptBounds, Kept!NextSecrets DEF SecretsHold
<1>2. CASE UNCHANGED state
  <2>1. UNCHANGED Kept!vars
    BY <1>2 DEF state, Kept!vars
  <2> QED  BY <2>1, KeptBounds, Kept!NextSecrets DEF SecretsHold
<1> QED
  BY <1>1, <1>2

LEMMA SecretsKeptHere == SecretsHold => SecretsKept
<1> SUFFICES ASSUME Kept!SecretsInv
             PROVE  /\ Secrets!TypeOK /\ Secrets!SuccessMeansKept /\ Secrets!FileOpens
                    /\ Secrets!ReadsWhatWasWritten
  BY DEF SecretsHold, SecretsKept, SuccessMeansKept, FileOpens, ReadsWhatWasWritten
<1>1. Secrets!TypeOK
  BY Kept!InvTypes DEF Secrets!TypeOK, Kept!TypeOK
<1> QED
  BY <1>1 DEF Kept!SecretsInv, Kept!FileInv, Kept!ProcInv, Kept!LoadInv, Kept!Old, Kept!Typed,
     Secrets!Old, Secrets!Typed, Secrets!SuccessMeansKept, Secrets!FileOpens, Secrets!ReadsWhatWasWritten

LEMMA OwnKeyHere == SecretsHold /\ [MCNext]_state => OwnKeyOnly
<1> SUFFICES ASSUME Kept!SecretsInv, [MCNext]_state, part = "secrets" PROVE Secrets!OwnKeyOnly
  BY DEF SecretsHold, OwnKeyOnly
<1>1. CASE MCNext
  <2>1. Secrets!Next
    BY <1>1 DEF MCNext, MCSteps
  <2> QED  BY <2>1, SameSteps, KeptBounds, Kept!OwnKeyStep DEF Secrets!OwnKeyOnly, Kept!OwnKeyOnly
<1>2. CASE UNCHANGED state
  BY <1>2 DEF state, Secrets!OwnKeyOnly
<1> QED
  BY <1>1, <1>2

(* What a login stored is kept, the file can be opened again, and no store *)
(* believes what is not in it (secrets.go): the invariant of SecretsProofs,*)
(* for any processes, phones, writes and failures.                         *)
THEOREM TheSecretsAreKept == MCSpec => []SecretsKept
<1> QED
  BY SecretsStart, SecretsStep, SecretsKeptHere, PTL DEF MCSpec

-----------------------------------------------------------------------------
(* The run's specification takes Unread's steps or none of them.           *)
LEMMA UnreadSteps ==
  /\ MCInit => Init
  /\ [MCNext]_state => [Next]_vars
BY DEF MCInit, MCNext, MCSteps, state

(* What the user sees read is what the server is told and what the badges  *)
(* say (read.go, live.go, dialogs.go), in the specification the run checks.*)
THEOREM TheReadStateAgrees == MCSpec => []ReadStateAgrees
BY UnreadSteps, ReadStateHolds, PTL DEF MCSpec, Spec

(* No step moves an acknowledgement back (read.go, ackOne) or writes over  *)
(* another phone's session (secrets.go, mutate inside the lock).           *)
THEOREM NothingIsTakenBack == MCSpec => NothingTakenBack
<1>1. UNCHANGED vars => AcksAdvance
  BY DEF vars, reader, AcksAdvance
<1>2. SecretsHold /\ [MCNext]_state => OwnKeyOnly
  BY OwnKeyHere
<1> QED
  BY <1>1, <1>2, UnreadSteps, AcksOnlyAdvance, SecretsStart, SecretsStep, PTL
     DEF MCSpec, Spec, NothingTakenBack

-----------------------------------------------------------------------------
ListHere == part = "dialogs" => ListInv

LEMMA ListHereStart == MCInit => ListHere
BY ListStart DEF MCInit, ListHere

LEMMA ListHereStep == ListHere /\ [MCNext]_state => ListHere'
<1> SUFFICES ASSUME ListInv, [MCNext]_state, part = "dialogs" PROVE ListInv'
  BY DEF ListHere, MCNext, state
<1>1. CASE MCNext
  <2>1. DialogSync!Next
    BY <1>1 DEF MCNext, MCSteps
  <2> QED  BY <2>1, ListStep
<1>2. CASE UNCHANGED state
  BY <1>2 DEF state, ListInv, DialogSync!TypeOK
<1> QED
  BY <1>1, <1>2

(* A dialog sync that says it is complete has seen the whole list and      *)
(* leaves it behind in the mirror (dialogs.go: SyncDialogs, walk, prune):  *)
(* for any chats, page size and page limits, with a second sync beside it  *)
(* and a list that moves under both.                                       *)
THEOREM TheListAgrees == MCSpec => []ListAgrees
<1>1. ListHere => ListAgrees
  BY ListHolds DEF ListHere, ListAgrees, CompleteMeansAll, SyncedMirrorsServer
<1> QED
  BY <1>1, ListHereStart, ListHereStep, PTL DEF MCSpec

-----------------------------------------------------------------------------
(***************************************************************************)
(* What the user does to a message.  The updates on their way to the row   *)
(* are a path: the counts the newest message takes along it (Counted), and *)
(* while one side acts at a time the whole rows (Path), which end where    *)
(* the server is.                                                          *)
(***************************************************************************)
Rows == [text : Nat, reactions : Nat, flag : Nat, exists : BOOLEAN, newest : Nat, unread : Nat]

\* LiveService's write, for any row.
Then(s, u) ==
    CASE u.kind = "text"      -> [s EXCEPT !.exists = TRUE, !.text = u.value, !.reactions = u.with]
      [] u.kind = "reactions" -> IF s.exists THEN [s EXCEPT !.reactions = u.value] ELSE s
      [] u.kind = "flag"      -> [s EXCEPT !.flag = u.value]
      [] u.kind = "message"   -> [s EXCEPT !.newest = @ + 1, !.unread = @ + 1]
      [] u.kind = "read"      -> [s EXCEPT !.unread = u.value]
      [] u.kind = "delete"    -> [s EXCEPT !.exists = FALSE]

\* What an action leaves in the row in the end, the echo of a deletion included.
After(r, c) ==
    CASE c.kind = "text"      -> [r EXCEPT !.exists = TRUE, !.text = c.value, !.reactions = c.was.reactions]
      [] c.kind = "reactions" -> IF r.exists THEN [r EXCEPT !.reactions = c.value] ELSE r
      [] c.kind = "flag"      -> [r EXCEPT !.flag = c.value]
      [] c.kind = "read"      -> [r EXCEPT !.unread = 0]
      [] c.kind = "delete"    -> [r EXCEPT !.exists = FALSE]

Alike(s, t) ==
    /\ s.exists = t.exists
    /\ s.exists => s.text = t.text /\ s.reactions = t.reactions
    /\ s.flag = t.flag /\ s.newest = t.newest /\ s.unread = t.unread

OneFor(u) == IF u.kind = "message" THEN 1 ELSE 0
Counted(m, s, r, f) ==
    /\ m \in [0 .. Len(f) -> 0 .. s.newest] /\ m[0] = r.newest /\ m[Len(f)] = s.newest
    /\ \A i \in 1 .. Len(f) : m[i] = m[i - 1] + OneFor(f[i])
Path(p, r, f) ==
    /\ p \in [0 .. Len(f) -> Rows] /\ p[0] = r
    /\ \A i \in 1 .. Len(f) : p[i] = Then(p[i - 1], f[i])

\* The one request under way, nothing else going on.
AtWork(c, s, r) ==
    /\ c.was = r /\ (c.kind = "read" => c.value = r.newest)
    /\ c.at = "asked" => Alike(r, s)
    /\ c.at = "accepted" => Alike(After(r, c), s)

InTurn ==
    \/ v4 = {} /\ \E p : Path(p, v2, v3) /\ Alike(p[Len(v3)], v1)
    \/ v3 = <<>> /\ \E c : v4 = {c} /\ AtWork(c, v1, v2)

Counts ==
    /\ v1.newest <= v9 /\ v1.unread <= v1.newest /\ v2.unread <= v2.newest
    /\ \A c \in v4 : c.kind = "read" => c.value <= v1.newest
    /\ \A i \in 1 .. Len(v3) : v3[i].kind = "read" => v3[i].value = 0
    /\ \E m : Counted(m, v1, v2, v3)

\* Whatever is on its way to the row Telegram held at some time.
Heard ==
    /\ 0 \in v6
    /\ \A k \in {"text", "reactions", "flag"} : v1[k] \in v6 /\ v2[k] \in v6
    /\ \A c \in v4 : /\ c.was.reactions \in v6
                     /\ c.at = "accepted" /\ c.kind \in {"text", "reactions", "flag"} => c.value \in v6
    /\ \A i \in 1 .. Len(v3) : /\ v3[i].with \in v6
                               /\ v3[i].kind \in {"text", "reactions", "flag"} => v3[i].value \in v6

ActInv ==
    /\ MessageActions!TypeOK /\ Counts /\ Heard
    /\ ~v7 /\ v10 = 0 => InTurn

LEMMA ActTypes ==
  ASSUME ActInv
  PROVE  /\ v1 \in MessageActions!State /\ v2 \in MessageActions!State
         /\ v1 \in Rows /\ v2 \in Rows
         /\ v3 \in Seq(MessageActions!Updates) /\ v4 \subseteq MessageActions!Requests
         /\ v6 \subseteq MessageActions!Values /\ v7 \in BOOLEAN
         /\ v8 \in 0 .. MaxActions /\ v9 \in 0 .. MaxUpdates /\ v10 \in 0 .. MaxRefused
         /\ MessageActions!Values = 0 .. MaxActions + MaxUpdates
         /\ MaxActions \in Nat /\ MaxUpdates \in Nat /\ MaxRefused \in Nat
BY ActionsAssumption DEF ActInv, MessageActions!TypeOK, MessageActions!State, MessageActions!Values, Rows

LEMMA ThenRow ==
  ASSUME NEW s \in Rows, NEW u \in MessageActions!Updates
  PROVE  /\ Then(s, u) \in Rows /\ Then(s, u).newest = s.newest + OneFor(u)
         /\ u.kind = "text" => Then(s, u) = [s EXCEPT !.exists = TRUE, !.text = u.value, !.reactions = u.with]
         /\ u.kind = "reactions" => Then(s, u) = IF s.exists THEN [s EXCEPT !.reactions = u.value] ELSE s
         /\ u.kind = "flag" => Then(s, u) = [s EXCEPT !.flag = u.value]
         /\ u.kind = "message" => Then(s, u) = [s EXCEPT !.newest = s.newest + 1, !.unread = s.unread + 1]
         /\ u.kind = "read" => Then(s, u) = [s EXCEPT !.unread = u.value]
         /\ u.kind = "delete" => Then(s, u) = [s EXCEPT !.exists = FALSE]
<1>1. u.value \in Nat /\ u.with \in Nat
  BY ActionsAssumption DEF MessageActions!Updates, MessageActions!Values
<1>2. u.kind \in {"text", "reactions", "flag", "delete", "read", "message"}
  BY DEF MessageActions!Updates, MessageActions!Kinds, MessageActions!Facts
<1>3. /\ u.kind = "text" => Then(s, u) = [s EXCEPT !.exists = TRUE, !.text = u.value, !.reactions = u.with]
      /\ u.kind = "reactions" => Then(s, u) = IF s.exists THEN [s EXCEPT !.reactions = u.value] ELSE s
      /\ u.kind = "flag" => Then(s, u) = [s EXCEPT !.flag = u.value]
      /\ u.kind = "message" => Then(s, u) = [s EXCEPT !.newest = s.newest + 1, !.unread = s.unread + 1]
      /\ u.kind = "read" => Then(s, u) = [s EXCEPT !.unread = u.value]
      /\ u.kind = "delete" => Then(s, u) = [s EXCEPT !.exists = FALSE]
  BY DEF Then
<1>4. Then(s, u) \in Rows /\ Then(s, u).newest = s.newest + OneFor(u)
  <2>1. CASE u.kind = "text"
    <3>1. Then(s, u) = [s EXCEPT !.exists = TRUE, !.text = u.value, !.reactions = u.with] /\ OneFor(u) = 0
      BY <1>3, <2>1 DEF OneFor
    <3>2. /\ [s EXCEPT !.exists = TRUE, !.text = u.value, !.reactions = u.with] \in Rows
          /\ [s EXCEPT !.exists = TRUE, !.text = u.value, !.reactions = u.with].newest = s.newest
      <4> DEFINE a == u.value  b == u.with
      <4>1. a \in Nat /\ b \in Nat
        BY <1>1
      <4> HIDE DEF a, b
      <4>2. /\ [s EXCEPT !.exists = TRUE, !.text = a, !.reactions = b] \in Rows
            /\ [s EXCEPT !.exists = TRUE, !.text = a, !.reactions = b].newest = s.newest
        BY <4>1 DEF Rows
      <4> QED  BY <4>2 DEF a, b
    <3>3. s.newest \in Nat /\ s.newest + 0 = s.newest
      BY DEF Rows
    <3> QED  BY <3>1, <3>2, <3>3
  <2>2. CASE u.kind = "reactions"
    BY <1>1, <1>3, <2>2 DEF Rows, OneFor
  <2>3. CASE u.kind = "flag"
    BY <1>1, <1>3, <2>3 DEF Rows, OneFor
  <2>4. CASE u.kind = "message"
    <3>1. Then(s, u) = [s EXCEPT !.newest = s.newest + 1, !.unread = s.unread + 1] /\ OneFor(u) = 1
      BY <1>3, <2>4 DEF OneFor
    <3>2. s.newest \in Nat /\ s.newest + 1 \in Nat /\ s.unread + 1 \in Nat
      BY DEF Rows
    <3>3. /\ [s EXCEPT !.newest = s.newest + 1, !.unread = s.unread + 1] \in Rows
          /\ [s EXCEPT !.newest = s.newest + 1, !.unread = s.unread + 1].newest = s.newest + 1
      <4> DEFINE a == s.newest + 1  b == s.unread + 1
      <4>1. a \in Nat /\ b \in Nat
        BY <3>2
      <4> HIDE DEF a, b
      <4>2. /\ [s EXCEPT !.newest = a, !.unread = b] \in Rows
            /\ [s EXCEPT !.newest = a, !.unread = b].newest = a
        BY <4>1 DEF Rows
      <4> QED  BY <4>2 DEF a, b
    <3> QED  BY <3>1, <3>3, Zenon
  <2>5. CASE u.kind = "read"
    BY <1>1, <1>3, <2>5 DEF Rows, OneFor
  <2>6. CASE u.kind = "delete"
    <3>1. Then(s, u) = [s EXCEPT !.exists = FALSE] /\ OneFor(u) = 0
      BY <1>3, <2>6 DEF OneFor
    <3>2. [s EXCEPT !.exists = FALSE] \in Rows /\ [s EXCEPT !.exists = FALSE].newest = s.newest /\ s.newest \in Nat
      BY DEF Rows
    <3> QED  BY <3>1, <3>2
  <2> QED  BY <1>2, <2>1, <2>2, <2>3, <2>4, <2>5, <2>6
<1> QED
  BY <1>3, <1>4

(* A path grows at its end and is taken from its front.                    *)
LEMMA PathGrows ==
  ASSUME NEW f \in Seq(MessageActions!Updates), NEW u \in MessageActions!Updates, NEW r, NEW p,
         Path(p, r, f)
  PROVE  \E q : Path(q, r, Append(f, u)) /\ q[Len(Append(f, u))] = Then(p[Len(f)], u)
                /\ p[Len(f)] \in Rows
<1> DEFINE n == Len(f)
           g == Append(f, u)
           q == [i \in 0 .. n + 1 |-> IF i = n + 1 THEN Then(p[n], u) ELSE p[i]]
<1>1. n \in Nat /\ Len(g) = n + 1 /\ g[n + 1] = u /\ \A i \in 1 .. n : g[i] = f[i]
  BY AppendProperties, LenProperties
<1> HIDE DEF n, g
<1>2. p \in [0 .. n -> Rows] /\ p[0] = r /\ \A i \in 1 .. n : p[i] = Then(p[i - 1], f[i])
  BY DEF Path, n
<1>3. p[n] \in Rows /\ Then(p[n], u) \in Rows
  <2>1. p[n] \in Rows
    BY <1>1, <1>2
  <2> QED  BY <2>1, ThenRow
<1>4. q \in [0 .. n + 1 -> Rows] /\ q[0] = r
  BY <1>1, <1>2, <1>3
<1>5. ASSUME NEW i \in 1 .. n + 1 PROVE q[i] = Then(q[i - 1], g[i])
  <2>1. CASE i = n + 1
    BY <1>1, <2>1
  <2>2. CASE i # n + 1
    <3>1. i \in 1 .. n /\ i - 1 \in 0 .. n /\ i \in 0 .. n + 1 /\ i - 1 \in 0 .. n + 1 /\ i - 1 # n + 1
      BY <1>1, <2>2
    <3> QED  BY <1>1, <1>2, <2>2, <3>1
  <2> QED  BY <2>1, <2>2
<1>6. q[n + 1] = Then(p[n], u)
  BY <1>1
<1> HIDE DEF q
<1>7. Path(q, r, g) /\ q[Len(g)] = Then(p[n], u) /\ p[n] \in Rows
  BY <1>1, <1>3, <1>4, <1>5, <1>6 DEF Path
<1> QED
  BY <1>7 DEF n, g

LEMMA PathShrinks ==
  ASSUME NEW f \in Seq(MessageActions!Updates), f # <<>>, NEW r, NEW p, Path(p, r, f)
  PROVE  \E q : Path(q, Then(r, Head(f)), Tail(f)) /\ q[Len(Tail(f))] = p[Len(f)]
<1> DEFINE n == Len(f)
           g == Tail(f)
           q == [i \in 0 .. n - 1 |-> p[i + 1]]
<1>1. /\ n \in Nat \ {0} /\ Len(g) = n - 1 /\ Head(f) = f[1]
      /\ \A i \in 1 .. n - 1 : g[i] = f[i + 1]
  BY HeadTailProperties, LenProperties, EmptySeq
<1> HIDE DEF n, g
<1>2. p \in [0 .. n -> Rows] /\ p[0] = r /\ \A i \in 1 .. n : p[i] = Then(p[i - 1], f[i])
  BY DEF Path, n
<1>3. q \in [0 .. n - 1 -> Rows] /\ q[n - 1] = p[n]
  BY <1>1, <1>2
<1>4. q[0] = Then(r, Head(f))
  <2>1. p[1] = Then(p[0], f[1])
    BY <1>1, <1>2
  <2> QED  BY <1>1, <1>2, <2>1
<1>5. ASSUME NEW i \in 1 .. n - 1 PROVE q[i] = Then(q[i - 1], g[i])
  <2>1. i + 1 \in 1 .. n /\ (i + 1) - 1 = i /\ i \in 0 .. n - 1 /\ i - 1 \in 0 .. n - 1 /\ (i - 1) + 1 = i
    BY <1>1
  <2>2. p[i + 1] = Then(p[i], f[i + 1])
    BY <1>2, <2>1
  <2> QED  BY <1>1, <2>1, <2>2
<1> HIDE DEF q
<1>6. Path(q, Then(r, Head(f)), g) /\ q[Len(g)] = p[n]
  BY <1>1, <1>3, <1>4, <1>5 DEF Path
<1> QED
  BY <1>6 DEF n, g

LEMMA PathStarts ==
  ASSUME NEW r \in Rows
  PROVE  \E p : Path(p, r, <<>>) /\ p[Len(<<>>)] = r
<1> DEFINE p == [i \in 0 .. 0 |-> r]
<1>1. Path(p, r, <<>>) /\ p[Len(<<>>)] = r
  BY EmptySeq DEF Path
<1> QED
  BY <1>1

LEMMA CountGrows ==
  ASSUME NEW f \in Seq(MessageActions!Updates), NEW u \in MessageActions!Updates, NEW s, NEW t, NEW r,
         s.newest \in Nat, t.newest = s.newest + OneFor(u), \E m : Counted(m, s, r, f)
  PROVE  \E m : Counted(m, t, r, Append(f, u))
<1> DEFINE n == Len(f)
           g == Append(f, u)
<1>1. n \in Nat /\ Len(g) = n + 1 /\ g[n + 1] = u /\ \A i \in 1 .. n : g[i] = f[i]
  BY AppendProperties, LenProperties
<1> HIDE DEF n, g
<1>2. PICK m : Counted(m, s, r, f)
  OBVIOUS
<1>3. /\ m \in [0 .. n -> 0 .. s.newest] /\ m[0] = r.newest /\ m[n] = s.newest
      /\ \A i \in 1 .. n : m[i] = m[i - 1] + OneFor(f[i])
  BY <1>2 DEF Counted, n
<1>4. t.newest \in Nat /\ t.newest >= s.newest /\ OneFor(u) \in {0, 1}
  BY DEF OneFor
<1> DEFINE q == [i \in 0 .. n + 1 |-> IF i = n + 1 THEN t.newest ELSE m[i]]
<1>5. q \in [0 .. n + 1 -> 0 .. t.newest] /\ q[0] = r.newest /\ q[n + 1] = t.newest
  BY <1>1, <1>3, <1>4
<1>6. ASSUME NEW i \in 1 .. n + 1 PROVE q[i] = q[i - 1] + OneFor(g[i])
  <2>1. CASE i = n + 1
    BY <1>1, <1>3, <2>1
  <2>2. CASE i # n + 1
    <3>1. i \in 1 .. n /\ i - 1 \in 0 .. n /\ i \in 0 .. n + 1 /\ i - 1 \in 0 .. n + 1 /\ i - 1 # n + 1
      BY <1>1, <2>2
    <3> QED  BY <1>1, <1>3, <2>2, <3>1
  <2> QED  BY <2>1, <2>2
<1> HIDE DEF q
<1>7. Counted(q, t, r, g)
  BY <1>1, <1>5, <1>6 DEF Counted
<1> QED
  BY <1>7 DEF g

LEMMA CountShrinks ==
  ASSUME NEW f \in Seq(MessageActions!Updates), f # <<>>, NEW s, NEW r, NEW t,
         s.newest \in Nat, r.newest \in Nat, \E m : Counted(m, s, r, f),
         t.newest = r.newest + OneFor(Head(f))
  PROVE  t.newest <= s.newest /\ \E m : Counted(m, s, t, Tail(f))
<1> DEFINE n == Len(f)
           g == Tail(f)
<1>1. /\ n \in Nat \ {0} /\ Len(g) = n - 1 /\ Head(f) = f[1]
      /\ \A i \in 1 .. n - 1 : g[i] = f[i + 1]
  BY HeadTailProperties, LenProperties, EmptySeq
<1> HIDE DEF n, g
<1>2. PICK m : Counted(m, s, r, f)
  OBVIOUS
<1>3. /\ m \in [0 .. n -> 0 .. s.newest] /\ m[0] = r.newest /\ m[n] = s.newest
      /\ \A i \in 1 .. n : m[i] = m[i - 1] + OneFor(f[i])
  BY <1>2 DEF Counted, n
<1> DEFINE q == [i \in 0 .. n - 1 |-> m[i + 1]]
<1>4. q \in [0 .. n - 1 -> 0 .. s.newest] /\ q[n - 1] = s.newest
  BY <1>1, <1>3
<1>5. q[0] = t.newest /\ t.newest \in 0 .. s.newest
  <2>1. m[1] = m[0] + OneFor(f[1]) /\ m[1] \in 0 .. s.newest
    BY <1>1, <1>3
  <2> QED  BY <1>1, <1>3, <2>1
<1>6. ASSUME NEW i \in 1 .. n - 1 PROVE q[i] = q[i - 1] + OneFor(g[i])
  <2>1. i + 1 \in 1 .. n /\ (i + 1) - 1 = i /\ i \in 0 .. n - 1 /\ i - 1 \in 0 .. n - 1 /\ (i - 1) + 1 = i
    BY <1>1
  <2>2. m[i + 1] = m[i] + OneFor(f[i + 1])
    BY <1>3, <2>1
  <2> QED  BY <1>1, <2>1, <2>2
<1> HIDE DEF q
<1>7. Counted(q, s, t, g)
  BY <1>1, <1>4, <1>5, <1>6 DEF Counted
<1> QED
  BY <1>5, <1>7 DEF g

\* A row that has the same newest message is counted the same way.
LEMMA CountSame ==
  ASSUME NEW f, NEW s, NEW t, NEW r, NEW q, t.newest = s.newest, q.newest = r.newest,
         \E m : Counted(m, s, r, f)
  PROVE  \E m : Counted(m, t, q, f)
BY DEF Counted

LEMMA RowBehind ==
  ASSUME ActInv
  PROVE  v2.newest <= v1.newest
<1>1. PICK m : Counted(m, v1, v2, v3)
  BY DEF ActInv, Counts
<1>2. m[0] \in 0 .. v1.newest
  BY <1>1, ActTypes, LenProperties DEF Counted
<1> QED
  BY <1>1, <1>2, ActTypes DEF Counted, Rows

LEMMA Appended ==
  ASSUME NEW f \in Seq(MessageActions!Updates), NEW u \in MessageActions!Updates
  PROVE  /\ Append(f, u) \in Seq(MessageActions!Updates)
         /\ \A i \in 1 .. Len(Append(f, u)) :
               (i \in 1 .. Len(f) /\ Append(f, u)[i] = f[i]) \/ Append(f, u)[i] = u
BY AppendProperties, LenProperties

LEMMA Tailed ==
  ASSUME NEW f \in Seq(MessageActions!Updates), f # <<>>
  PROVE  /\ Tail(f) \in Seq(MessageActions!Updates) /\ Head(f) \in MessageActions!Updates
         /\ 1 \in 1 .. Len(f) /\ Head(f) = f[1]
         /\ \A i \in 1 .. Len(Tail(f)) : i + 1 \in 1 .. Len(f) /\ Tail(f)[i] = f[i + 1]
<1>1. Len(f) \in Nat \ {0}
  BY LenProperties, EmptySeq
<1> QED
  BY <1>1, HeadTailProperties, ElementOfSeq

\* What is under way where nothing overlapped and nothing failed.
LEMMA OneAtATime ==
  ASSUME ActInv, ~v7, v10 = 0
  PROVE  /\ v4 = {} /\ v3 = <<>> => Alike(v2, v1)
         /\ \A c \in v4 : v3 = <<>> /\ v4 = {c} /\ AtWork(c, v1, v2)
<1>1. InTurn
  BY DEF ActInv
<1>2. ASSUME v4 = {}, v3 = <<>> PROVE Alike(v2, v1)
  <2>1. PICK p : Path(p, v2, v3) /\ Alike(p[Len(v3)], v1)
    BY <1>1, <1>2 DEF InTurn
  <2> QED  BY <1>2, <2>1, EmptySeq DEF Path
<1> QED
  BY <1>1, <1>2 DEF InTurn

LEMMA Settles ==
  ASSUME ActInv, v2' \in Rows, v4' = {}, v3' = <<>>, Alike(v2', v1')
  PROVE  InTurn'
<1>1. PICK p : Path(p, v2', <<>>) /\ p[Len(<<>>)] = v2'
  BY PathStarts
<1> QED
  BY <1>1 DEF InTurn

LEMMA ActKeeps ==
  ASSUME ActInv, NEW k \in MessageActions!Kinds, MessageActions!Act(k)
  PROVE  ActInv'
<1> DEFINE c == MessageActions!Asked(k)
<1>1. /\ v8 < MaxActions /\ v8' = v8 + 1 /\ v4' = v4 \cup {c} /\ v7' = (v7 \/ v3 # <<>> \/ v4 # {})
      /\ UNCHANGED <<v1, v2, v3, v5, v6, v9, v10>>
  BY DEF MessageActions!Act
<1>2. /\ c.kind = k /\ c.was = v2 /\ c.at = "asked" /\ (k = "read" => c.value = v2.newest)
      /\ c \in MessageActions!Requests
  <2>1. v8 + v9 + 1 \in 0 .. MaxActions + MaxUpdates
    BY <1>1, ActTypes
  <2>2. MessageActions!Fresh \in MessageActions!Values
    BY <2>1, ActTypes DEF MessageActions!Fresh
  <2>3. v2 \in MessageActions!State /\ v2.newest \in MessageActions!Values
    BY ActTypes DEF MessageActions!State
  <2> QED  BY <2>2, <2>3 DEF MessageActions!Asked, MessageActions!Requests
<1> HIDE DEF c
<1>3. MessageActions!TypeOK'
  BY <1>1, <1>2, ActTypes DEF ActInv, MessageActions!TypeOK
<1>4. Counts'
  BY <1>1, <1>2, RowBehind DEF ActInv, Counts
<1>5. Heard'
  BY <1>1, <1>2 DEF ActInv, Heard
<1>6. ~v7' /\ v10' = 0 => InTurn'
  <2> SUFFICES ASSUME ~v7', v10' = 0 PROVE InTurn'
    OBVIOUS
  <2>1. v3 = <<>> /\ v4 = {} /\ Alike(v2, v1)
    BY <1>1, OneAtATime
  <2> QED  BY <1>1, <1>2, <2>1 DEF InTurn, AtWork
<1> QED
  BY <1>3, <1>4, <1>5, <1>6 DEF ActInv

\* Requests that end without a trace, and those whose end is not followed.
LEMMA EndsKeep ==
  ASSUME ActInv, NEW c \in v4,
         MessageActions!Refuse(c) \/ MessageActions!AnswerLost(c) \/ MessageActions!RecordFails(c)
  PROVE  ActInv'
<1>1. v4' = v4 \ {c} /\ v5' \in {"done", "failed"} /\ UNCHANGED <<v1, v2, v3, v6, v7, v8, v9>>
  BY DEF MessageActions!Refuse, MessageActions!AnswerLost, MessageActions!RecordFails,
         MessageActions!Fail, MessageActions!counts
<1>2. (c.at = "asked" /\ v10' = v10) \/ (v10 < MaxRefused /\ v10' = v10 + 1)
  BY DEF MessageActions!Refuse, MessageActions!AnswerLost, MessageActions!RecordFails,
         MessageActions!Fail, MessageActions!counts
<1>3. MessageActions!TypeOK'
  BY <1>1, <1>2, ActTypes DEF ActInv, MessageActions!TypeOK
<1>4. Counts'
  BY <1>1 DEF ActInv, Counts
<1>5. Heard'
  BY <1>1 DEF ActInv, Heard
<1>6. ~v7' /\ v10' = 0 => InTurn'
  <2> SUFFICES ASSUME ~v7', v10' = 0 PROVE InTurn'
    OBVIOUS
  <2>1. c.at = "asked" /\ v10 = 0
    BY <1>2, ActTypes
  <2>2. v3 = <<>> /\ v4 = {c} /\ Alike(v2, v1)
    BY <1>1, <2>1, OneAtATime DEF AtWork
  <2> QED  BY <1>1, <2>2, ActTypes, Settles
<1> QED
  BY <1>3, <1>4, <1>5, <1>6 DEF ActInv

LEMMA AcceptKeeps ==
  ASSUME ActInv, NEW c \in v4, MessageActions!Accept(c)
  PROVE  ActInv'
<1> DEFINE d == [c EXCEPT !.at = "accepted"]
           facts == {"text", "reactions", "flag"}
<1>1. /\ c.at = "asked" /\ (c.kind \in {"text", "reactions"} => v1.exists)
      /\ v4' = (v4 \ {c}) \cup {d} /\ v6' = (IF c.kind \in facts THEN v6 \cup {c.value} ELSE v6)
      /\ v1' = MessageActions!AcceptedState(c) /\ UNCHANGED <<v2, v3, v5, v7, v8, v9, v10>>
  BY DEF MessageActions!Accept, MessageActions!counts, MessageActions!Facts
<1>2. c \in MessageActions!Requests /\ c.kind \in facts \cup {"delete", "read"}
  BY ActTypes DEF MessageActions!Requests, MessageActions!Kinds, MessageActions!Facts
<1>3. /\ d \in MessageActions!Requests /\ d.kind = c.kind /\ d.value = c.value /\ d.was = c.was
      /\ d.at = "accepted"
  BY <1>2 DEF MessageActions!Requests
<1> HIDE DEF d
<1>4. /\ c.kind = "delete" => v1' = [v1 EXCEPT !.exists = FALSE]
      /\ c.kind = "read" => v1' = [v1 EXCEPT !.unread = IF v1.newest - c.value < v1.unread
                                                        THEN v1.newest - c.value ELSE v1.unread]
      /\ c.kind = "text" => v1' = [v1 EXCEPT !.text = c.value]
      /\ c.kind = "reactions" => v1' = [v1 EXCEPT !.reactions = c.value]
      /\ c.kind = "flag" => v1' = [v1 EXCEPT !.flag = c.value]
  BY <1>1 DEF MessageActions!AcceptedState
<1>5. c.value \in MessageActions!Values /\ (c.kind = "read" => c.value \in Nat /\ c.value <= v1.newest)
  BY <1>2, ActTypes DEF MessageActions!Requests, ActInv, Counts
<1>6. /\ v1' \in MessageActions!State /\ v1'.newest = v1.newest /\ v1'.unread <= v1.newest
      /\ \A f \in facts : v1'[f] = v1[f] \/ (c.kind = f /\ v1'[f] = c.value)
  <2>1. v1 \in MessageActions!State /\ v1 \in Rows /\ v1.unread <= v1.newest
    BY ActTypes DEF ActInv, Counts
  <2>2. CASE c.kind = "delete"
    BY <1>4, <2>1, <2>2 DEF MessageActions!State, Rows
  <2>3. CASE c.kind = "read"
    <3> DEFINE n == IF v1.newest - c.value < v1.unread THEN v1.newest - c.value ELSE v1.unread
    <3>1. n \in MessageActions!Values /\ n <= v1.newest
      <4>1. /\ v1.newest \in Nat /\ v1.unread \in 0 .. MaxActions + MaxUpdates
            /\ c.value \in Nat /\ c.value <= v1.newest /\ v1.unread <= v1.newest
        BY <1>5, <2>1, <2>3, ActTypes DEF MessageActions!State, Rows
      <4>2. n \in 0 .. MaxActions + MaxUpdates /\ n <= v1.newest
        BY <4>1, ActTypes
      <4> QED  BY <4>2, ActTypes
    <3>2. v1' = [v1 EXCEPT !.unread = n]
      BY <1>4, <2>3
    <3> HIDE DEF n
    <3> QED  BY <2>1, <3>1, <3>2 DEF MessageActions!State, Rows
  <2>4. CASE c.kind = "text"
    BY <1>4, <1>5, <2>1, <2>4 DEF MessageActions!State, Rows
  <2>5. CASE c.kind = "reactions"
    BY <1>4, <1>5, <2>1, <2>5 DEF MessageActions!State, Rows
  <2>6. CASE c.kind = "flag"
    BY <1>4, <1>5, <2>1, <2>6 DEF MessageActions!State, Rows
  <2> QED  BY <1>2, <2>2, <2>3, <2>4, <2>5, <2>6
<1>7. MessageActions!TypeOK'
  BY <1>1, <1>3, <1>5, <1>6, ActTypes DEF ActInv, MessageActions!TypeOK
<1>8. Counts'
  <2>1. \E m : Counted(m, v1', v2, v3)
    BY <1>6, CountSame DEF ActInv, Counts
  <2> QED  BY <1>1, <1>3, <1>6, <2>1 DEF ActInv, Counts
<1>9. Heard'
  BY <1>1, <1>3, <1>6 DEF ActInv, Heard
<1>10. ~v7' /\ v10' = 0 => InTurn'
  <2> SUFFICES ASSUME ~v7', v10' = 0 PROVE InTurn'
    OBVIOUS
  <2>1. v3 = <<>> /\ v4 = {c} /\ AtWork(c, v1, v2)
    BY <1>1, OneAtATime
  <2>2. v1 \in Rows /\ v2 \in Rows /\ Alike(v2, v1) /\ c.was = v2 /\ (c.kind = "read" => c.value = v1.newest)
    BY <1>1, <2>1, ActTypes DEF AtWork, Alike
  <2>3. Alike(After(v2, d), v1')
    <3>1. CASE c.kind = "delete"
      <4>1. After(v2, d) = [v2 EXCEPT !.exists = FALSE]
        BY <1>3, <3>1 DEF After
      <4>2. v1' = [v1 EXCEPT !.exists = FALSE]
        BY <1>4, <3>1
      <4>3. /\ After(v2, d).exists = FALSE /\ v1'.exists = FALSE
            /\ After(v2, d).flag = v2.flag /\ v1'.flag = v1.flag
            /\ After(v2, d).newest = v2.newest /\ v1'.newest = v1.newest
            /\ After(v2, d).unread = v2.unread /\ v1'.unread = v1.unread
        BY <2>2, <4>1, <4>2 DEF Rows
      <4> QED  BY <2>2, <4>3 DEF Alike
    <3>2. CASE c.kind = "read"
      <4>1. After(v2, d) = [v2 EXCEPT !.unread = 0]
        BY <1>3, <3>2 DEF After
      <4>2. v1.newest - c.value = 0 /\ v1.unread \in Nat
        BY <2>2, <3>2 DEF Rows
      <4>3. v1' = [v1 EXCEPT !.unread = 0]
        BY <1>4, <2>2, <3>2, <4>2 DEF Rows
      <4> QED  BY <2>2, <4>1, <4>3 DEF Alike, Rows
    <3>3. CASE c.kind = "text"
      <4>1. After(v2, d) = [v2 EXCEPT !.exists = TRUE, !.text = c.value, !.reactions = v2.reactions]
        BY <1>3, <2>2, <3>3 DEF After
      <4>2. v1' = [v1 EXCEPT !.text = c.value] /\ v1.exists /\ v2.reactions = v1.reactions
        BY <1>1, <1>4, <2>2, <3>3 DEF Alike
      <4> DEFINE a == c.value
                 b == v2.reactions
      <4>3. v1' = [v1 EXCEPT !.text = a] /\ After(v2, d) = [v2 EXCEPT !.exists = TRUE, !.text = a, !.reactions = b]
        BY <4>1, <4>2
      <4> HIDE DEF a
      <4>4. /\ After(v2, d).exists = TRUE /\ v1'.exists = v1.exists
            /\ After(v2, d).text = a /\ v1'.text = a
            /\ After(v2, d).reactions = v2.reactions /\ v1'.reactions = v1.reactions
            /\ After(v2, d).flag = v2.flag /\ v1'.flag = v1.flag
            /\ After(v2, d).newest = v2.newest /\ v1'.newest = v1.newest
            /\ After(v2, d).unread = v2.unread /\ v1'.unread = v1.unread
        BY <2>2, <4>3 DEF Rows
      <4> QED  BY <2>2, <4>2, <4>4 DEF Alike
    <3>4. CASE c.kind = "reactions"
      <4>1. After(v2, d) = [v2 EXCEPT !.reactions = c.value]
        BY <1>1, <1>3, <2>2, <3>4 DEF After, Alike
      <4> QED  BY <1>1, <1>4, <2>2, <3>4, <4>1 DEF Alike, Rows
    <3>5. CASE c.kind = "flag"
      <4>1. After(v2, d) = [v2 EXCEPT !.flag = c.value]
        BY <1>3, <3>5 DEF After
      <4> QED  BY <1>4, <2>2, <3>5, <4>1 DEF Alike, Rows
    <3> QED  BY <1>2, <3>1, <3>2, <3>3, <3>4, <3>5
  <2>4. AtWork(d, v1', v2)
    BY <1>3, <2>1, <2>3 DEF AtWork
  <2>5. v4' = {d}
    BY <1>1, <2>1
  <2> QED
    BY <1>1, <2>1, <2>4, <2>5 DEF InTurn
<1> QED
  BY <1>7, <1>8, <1>9, <1>10 DEF ActInv

LEMMA RecordKeeps ==
  ASSUME ActInv, NEW c \in v4, MessageActions!Record(c)
  PROVE  ActInv'
<1> DEFINE u == [kind |-> "delete", value |-> 0, with |-> 0]
           facts == {"text", "reactions", "flag"}
<1>1. /\ c.at = "accepted" /\ v4' = v4 \ {c} /\ v5' = "done" /\ v2' = MessageActions!Written(c)
      /\ v3' = (IF c.kind = "delete" THEN Append(v3, u) ELSE v3)
      /\ UNCHANGED <<v1, v6, v7, v8, v9, v10>>
  BY DEF MessageActions!Record, MessageActions!counts
<1>2. c \in MessageActions!Requests /\ c.kind \in facts \cup {"delete", "read"}
  BY ActTypes DEF MessageActions!Requests, MessageActions!Kinds, MessageActions!Facts
<1>3. /\ c.value \in MessageActions!Values /\ c.was.reactions \in MessageActions!Values
      /\ 0 \in MessageActions!Values
  <2>1. c.value \in MessageActions!Values /\ c.was \in MessageActions!State
    BY <1>2 DEF MessageActions!Requests
  <2>2. 0 \in 0 .. MaxActions + MaxUpdates
    BY ActTypes
  <2> QED  BY <2>1, <2>2, ActTypes DEF MessageActions!State
<1>4. u \in MessageActions!Updates /\ OneFor(u) = 0 /\ u.kind = "delete"
  BY <1>3 DEF MessageActions!Updates, MessageActions!Kinds, OneFor
<1> HIDE DEF u
<1>5. /\ c.kind = "text" => v2' = [v2 EXCEPT !.exists = TRUE, !.text = c.value, !.reactions = c.was.reactions]
      /\ c.kind = "reactions" => v2' = IF v2.exists THEN [v2 EXCEPT !.reactions = c.value] ELSE v2
      /\ c.kind = "flag" => v2' = [v2 EXCEPT !.flag = c.value]
      /\ c.kind = "read" => v2' = [v2 EXCEPT !.unread = 0]
      /\ c.kind = "delete" => v2' = v2
  BY <1>1 DEF MessageActions!Written
<1>6. /\ v2' \in MessageActions!State /\ v2'.newest = v2.newest /\ v2'.unread <= v2.newest
      /\ \A f \in facts : v2'[f] \in {v2[f], c.value, c.was.reactions}
      /\ \A f \in facts : c.kind \notin facts => v2'[f] = v2[f]
  <2>1. v2 \in MessageActions!State /\ v2 \in Rows /\ v2.unread <= v2.newest
    BY ActTypes DEF ActInv, Counts
  <2>2. CASE c.kind = "text"
    <3> DEFINE a == c.value
               b == c.was.reactions
    <3>1. a \in MessageActions!Values /\ b \in MessageActions!Values
          /\ v2' = [v2 EXCEPT !.exists = TRUE, !.text = a, !.reactions = b]
      BY <1>3, <1>5, <2>2
    <3> HIDE DEF a, b
    <3>2. /\ v2' \in MessageActions!State /\ v2'.newest = v2.newest /\ v2'.unread = v2.unread
          /\ v2'.text = a /\ v2'.reactions = b /\ v2'.flag = v2.flag
      BY <2>1, <3>1 DEF MessageActions!State
    <3> QED  BY <2>1, <2>2, <3>2 DEF a, b
  <2>3. CASE c.kind = "reactions"
    BY <1>3, <1>5, <2>1, <2>3 DEF MessageActions!State, Rows
  <2>4. CASE c.kind = "flag"
    BY <1>3, <1>5, <2>1, <2>4 DEF MessageActions!State, Rows
  <2>5. CASE c.kind = "read"
    BY <1>3, <1>5, <2>1, <2>5 DEF MessageActions!State, Rows
  <2>6. CASE c.kind = "delete"
    BY <1>5, <2>1, <2>6
  <2> QED  BY <1>2, <2>2, <2>3, <2>4, <2>5, <2>6
<1>7. v2' \in Rows /\ v2.newest \in Nat
  BY <1>6, ActTypes DEF MessageActions!State, Rows
<1>8. /\ v3' \in Seq(MessageActions!Updates)
      /\ \A i \in 1 .. Len(v3') : (i \in 1 .. Len(v3) /\ v3'[i] = v3[i]) \/ v3'[i] = u
  BY <1>1, <1>4, Appended, ActTypes
<1>9. MessageActions!TypeOK'
  BY <1>1, <1>6, <1>8, ActTypes DEF ActInv, MessageActions!TypeOK
<1>10. Counts'
  <2>1. \E m : Counted(m, v1, v2', v3)
    BY <1>6, CountSame DEF ActInv, Counts
  <2>2. \E m : Counted(m, v1, v2', v3')
    <3>1. v1.newest \in Nat /\ v1.newest = v1.newest + OneFor(u)
      BY <1>4, ActTypes DEF Rows
    <3>2. \E m : Counted(m, v1, v2', Append(v3, u))
      BY <1>4, <2>1, <3>1, CountGrows, ActTypes
    <3> QED  BY <1>1, <2>1, <3>2
  <2>3. \A i \in 1 .. Len(v3') : v3'[i].kind = "read" => v3'[i].value = 0
    BY <1>4, <1>8 DEF ActInv, Counts
  <2> QED  BY <1>1, <1>6, <2>2, <2>3 DEF ActInv, Counts
<1>11. Heard'
  <2>1. \A f \in facts : v1[f] \in v6 /\ v2[f] \in v6
    BY DEF ActInv, Heard
  <2>2. c.was.reactions \in v6 /\ (c.kind \in facts => c.value \in v6)
    BY <1>1 DEF ActInv, Heard
  <2>3. \A f \in facts : v2'[f] \in v6
    BY <1>6, <2>1, <2>2
  <2>4. 0 \in v6
    BY DEF ActInv, Heard
  <2>5. \A i \in 1 .. Len(v3') : /\ v3'[i].with \in v6
                                 /\ v3'[i].kind \in facts => v3'[i].value \in v6
    <3>1. u.with \in v6 /\ u.kind \notin facts
      BY <1>4, <2>4 DEF u
    <3> QED  BY <1>8, <3>1 DEF ActInv, Heard
  <2> QED  BY <1>1, <2>1, <2>3, <2>5 DEF ActInv, Heard
<1>12. ~v7' /\ v10' = 0 => InTurn'
  <2> SUFFICES ASSUME ~v7', v10' = 0 PROVE InTurn'
    OBVIOUS
  <2>1. v3 = <<>> /\ v4 = {c} /\ c.was = v2 /\ Alike(After(v2, c), v1)
    BY <1>1, OneAtATime DEF AtWork
  <2>2. CASE c.kind # "delete"
    <3>1. v2' = After(v2, c)
      BY <1>2, <1>5, <2>2 DEF After
    <3> QED  BY <1>1, <1>7, <2>1, <2>2, <3>1, Settles
  <2>3. CASE c.kind = "delete"
    <3>1. PICK p : Path(p, v2, <<>>) /\ p[Len(<<>>)] = v2
      BY PathStarts, ActTypes
    <3>2. v3 \in Seq(MessageActions!Updates) /\ Path(p, v2, v3)
      BY <2>1, <3>1, ActTypes
    <3>3. PICK q : Path(q, v2, Append(v3, u)) /\ q[Len(Append(v3, u))] = Then(p[Len(v3)], u)
      BY <1>4, <3>1, <3>2, PathGrows
    <3>4. Then(v2, u) = After(v2, c)
      BY <1>4, <2>3 DEF Then, After
    <3> QED  BY <1>1, <1>5, <2>1, <2>3, <3>1, <3>3, <3>4 DEF InTurn
  <2> QED  BY <2>2, <2>3
<1> QED
  BY <1>9, <1>10, <1>11, <1>12 DEF ActInv

(* LiveService takes the next update.                                      *)
LEMMA HandledKeeps ==
  ASSUME ActInv, MessageActions!Live
  PROVE  ActInv'
<1> DEFINE u == Head(v3)
           facts == {"text", "reactions", "flag"}
<1>1. /\ v3 # <<>> /\ v3' = Tail(v3) /\ v2' = Then(v2, u)
      /\ UNCHANGED <<v1, v4, v5, v6, v7, v8, v9, v10>>
  BY DEF MessageActions!Live, MessageActions!LiveWrites, MessageActions!counts, Then
<1>2. /\ v3' \in Seq(MessageActions!Updates) /\ u \in MessageActions!Updates
      /\ 1 \in 1 .. Len(v3) /\ u = v3[1]
      /\ \A i \in 1 .. Len(v3') : i + 1 \in 1 .. Len(v3) /\ v3'[i] = v3[i + 1]
  BY <1>1, Tailed, ActTypes
<1> HIDE DEF u
<1>3. /\ v2 \in MessageActions!State /\ v2 \in Rows /\ v2.unread <= v2.newest /\ v1 \in Rows
      /\ u.kind = "read" => u.value = 0
  BY <1>2, ActTypes DEF ActInv, Counts
<1>4. /\ v2'.newest = v2.newest + OneFor(u) /\ v2' \in Rows
      /\ v2'.newest <= v1.newest /\ \E m : Counted(m, v1, v2', v3')
  <2>1. v2'.newest = v2.newest + OneFor(u) /\ v2' \in Rows
    BY <1>1, <1>2, <1>3, ThenRow
  <2>2. v1.newest \in Nat /\ v2.newest \in Nat /\ \E m : Counted(m, v1, v2, v3)
    BY <1>3 DEF ActInv, Counts, Rows
  <2> QED
    BY <1>1, <2>1, <2>2, CountShrinks, ActTypes DEF u
<1>5. u.value \in MessageActions!Values /\ u.with \in MessageActions!Values
      /\ u.kind \in facts \cup {"delete", "read", "message"}
  BY <1>2 DEF MessageActions!Updates, MessageActions!Kinds, MessageActions!Facts
<1>6. /\ \A f \in facts : \/ v2'[f] = v2[f]
                          \/ u.kind \in facts /\ v2'[f] = u.value
                          \/ v2'[f] = u.with
      /\ v2'.unread <= v2'.newest
  <2>1. CASE u.kind = "text"
    <3> DEFINE a == u.value
               b == u.with
    <3>1. v2' = [v2 EXCEPT !.exists = TRUE, !.text = a, !.reactions = b]
      BY <1>1, <1>2, <1>3, <2>1, ThenRow
    <3> HIDE DEF a, b
    <3>2. /\ v2'.newest = v2.newest /\ v2'.unread = v2.unread
          /\ v2'.text = a /\ v2'.reactions = b /\ v2'.flag = v2.flag
      BY <1>3, <3>1 DEF Rows
    <3> QED  BY <1>3, <2>1, <3>2 DEF a, b
  <2>2. CASE u.kind = "reactions"
    <3>1. v2' = IF v2.exists THEN [v2 EXCEPT !.reactions = u.value] ELSE v2
      BY <1>1, <1>2, <1>3, <2>2, ThenRow
    <3> QED  BY <1>3, <2>2, <3>1 DEF Rows
  <2>3. CASE u.kind = "flag"
    <3>1. v2' = [v2 EXCEPT !.flag = u.value]
      BY <1>1, <1>2, <1>3, <2>3, ThenRow
    <3> QED  BY <1>3, <2>3, <3>1 DEF Rows
  <2>4. CASE u.kind = "message"
    <3>1. v2' = [v2 EXCEPT !.newest = v2.newest + 1, !.unread = v2.unread + 1]
      BY <1>1, <1>2, <1>3, <2>4, ThenRow
    <3>2. /\ v2'.newest = v2.newest + 1 /\ v2'.unread = v2.unread + 1
          /\ v2'.text = v2.text /\ v2'.reactions = v2.reactions /\ v2'.flag = v2.flag
      BY <1>3, <3>1 DEF Rows
    <3> QED  BY <1>3, <3>2 DEF Rows
  <2>5. CASE u.kind = "read"
    <3>1. v2' = [v2 EXCEPT !.unread = u.value]
      BY <1>1, <1>2, <1>3, <2>5, ThenRow
    <3> QED  BY <1>3, <2>5, <3>1 DEF Rows
  <2>6. CASE u.kind = "delete"
    <3>1. v2' = [v2 EXCEPT !.exists = FALSE]
      BY <1>1, <1>2, <1>3, <2>6, ThenRow
    <3> QED  BY <1>3, <2>6, <3>1 DEF Rows
  <2> QED  BY <1>5, <2>1, <2>2, <2>3, <2>4, <2>5, <2>6
<1>7. v2' \in MessageActions!State
  <2>1. v1.newest <= MaxUpdates /\ v1.newest \in Nat
    BY ActTypes DEF ActInv, Counts, Rows
  <2>2. v2'.newest \in 0 .. MaxActions + MaxUpdates /\ v2'.unread \in 0 .. MaxActions + MaxUpdates
    <3>1. v2'.newest \in Nat /\ v2'.unread \in Nat /\ v2'.newest <= v1.newest /\ v2'.unread <= v2'.newest
      BY <1>4, <1>6 DEF Rows
    <3> QED  BY <2>1, <3>1, ActTypes
  <2>3. \A f \in facts : v2'[f] \in MessageActions!Values
    BY <1>3, <1>5, <1>6 DEF MessageActions!State
  <2> QED
    BY <1>4, <2>2, <2>3, ActTypes DEF Rows, MessageActions!State
<1>8. MessageActions!TypeOK'
  BY <1>1, <1>2, <1>7, ActTypes DEF ActInv, MessageActions!TypeOK
<1>9. Counts'
  BY <1>1, <1>2, <1>4, <1>6 DEF ActInv, Counts
<1>10. Heard'
  <2>1. u.with \in v6 /\ (u.kind \in facts => u.value \in v6)
    BY <1>2 DEF ActInv, Heard
  <2>2. \A f \in facts : v1[f] \in v6 /\ v2'[f] \in v6
    BY <1>6, <2>1 DEF ActInv, Heard
  <2> QED  BY <1>1, <1>2, <2>2 DEF ActInv, Heard
<1>11. ~v7' /\ v10' = 0 => InTurn'
  <2> SUFFICES ASSUME ~v7, v10 = 0 PROVE InTurn'
    BY <1>1
  <2>1. v4 = {} /\ \E p : Path(p, v2, v3) /\ Alike(p[Len(v3)], v1)
    BY <1>1 DEF ActInv, InTurn
  <2>2. PICK p : Path(p, v2, v3) /\ Alike(p[Len(v3)], v1)
    BY <2>1
  <2>3. PICK q : Path(q, Then(v2, u), Tail(v3)) /\ q[Len(Tail(v3))] = p[Len(v3)]
    BY <1>1, <2>2, PathShrinks, ActTypes DEF u
  <2> QED  BY <1>1, <2>1, <2>2, <2>3 DEF InTurn
<1> QED
  BY <1>8, <1>9, <1>10, <1>11 DEF ActInv

LEMMA UpdateKeeps ==
  ASSUME ActInv, NEW k \in MessageActions!Kinds \cup {"message"}, MessageActions!Update(k)
  PROVE  ActInv'
<1> DEFINE facts == {"text", "reactions", "flag"}
           x == v8 + v9 + 1
           u == [kind |-> k, value |-> IF k \in facts THEN x ELSE 0, with |-> v1.reactions]
<1>1. /\ v9 < MaxUpdates /\ v9' = v9 + 1 /\ (k \in {"text", "reactions", "delete"} => v1.exists)
      /\ v3' = Append(v3, u) /\ v6' = (IF k \in facts THEN v6 \cup {x} ELSE v6)
      /\ v7' = (v7 \/ v4 # {}) /\ UNCHANGED <<v2, v4, v5, v8, v10>>
  BY DEF MessageActions!Update, MessageActions!Fresh, MessageActions!Facts
<1>2. k \in facts \cup {"delete", "read", "message"}
  BY DEF MessageActions!Kinds, MessageActions!Facts
<1>3. /\ k = "delete" => v1' = [v1 EXCEPT !.exists = FALSE]
      /\ k = "message" => v1' = [v1 EXCEPT !.newest = v1.newest + 1, !.unread = v1.unread + 1]
      /\ k = "read" => v1' = [v1 EXCEPT !.unread = 0]
      /\ k = "text" => v1' = [v1 EXCEPT !.text = x]
      /\ k = "reactions" => v1' = [v1 EXCEPT !.reactions = x]
      /\ k = "flag" => v1' = [v1 EXCEPT !.flag = x]
  BY DEF MessageActions!Update, MessageActions!Fresh, MessageActions!Facts
<1>4. x \in 0 .. MaxActions + MaxUpdates /\ 0 \in 0 .. MaxActions + MaxUpdates /\ x \in Nat
  BY <1>1, ActTypes
<1>5. /\ v1 \in MessageActions!State /\ v1 \in Rows /\ v1.unread <= v1.newest /\ v1.newest <= v9
      /\ v1.newest \in Nat /\ v1.unread \in Nat
  BY ActTypes DEF ActInv, Counts, Rows
<1>6. u \in MessageActions!Updates
  <2>1. v1.reactions \in MessageActions!Values /\ (IF k \in facts THEN x ELSE 0) \in MessageActions!Values
    BY <1>4, <1>5, ActTypes DEF MessageActions!State
  <2> QED  BY <2>1 DEF MessageActions!Updates
<1>7. /\ u.kind = k /\ u.value = (IF k \in facts THEN x ELSE 0) /\ u.with = v1.reactions
      /\ OneFor(u) = IF k = "message" THEN 1 ELSE 0
  BY DEF OneFor
<1> HIDE DEF u, x
<1>8. /\ v1' \in MessageActions!State /\ v1'.newest = v1.newest + OneFor(u) /\ v1'.unread <= v1'.newest
      /\ \A f \in facts : v1'[f] = v1[f] \/ (k \in facts /\ v1'[f] = x)
      /\ v1'.newest <= v9 + 1
  <2>0. v9 \in Nat /\ x \in MessageActions!Values /\ 0 \in MessageActions!Values
    BY <1>4, ActTypes
  <2>1. CASE k = "delete"
    <3>1. v1' = [v1 EXCEPT !.exists = FALSE] /\ OneFor(u) = 0
      BY <1>3, <1>7, <2>1
    <3>2. /\ v1' \in MessageActions!State /\ v1'.newest = v1.newest /\ v1'.unread = v1.unread
          /\ \A f \in facts : v1'[f] = v1[f]
      BY <1>5, <3>1 DEF MessageActions!State
    <3> QED  BY <1>5, <2>0, <3>1, <3>2
  <2>2. CASE k = "message"
    <3> DEFINE a == v1.newest + 1
               b == v1.unread + 1
    <3>1. a \in MessageActions!Values /\ b \in MessageActions!Values /\ b <= a /\ a <= v9 + 1
      <4>1. /\ v1.newest \in Nat /\ v1.unread \in Nat /\ v1.unread <= v1.newest /\ v1.newest <= v9
            /\ v9 \in Nat /\ v9 < MaxUpdates
        BY <1>1, <1>5, <2>0
      <4>2. a \in 0 .. MaxActions + MaxUpdates /\ b \in 0 .. MaxActions + MaxUpdates /\ b <= a /\ a <= v9 + 1
        BY <4>1, ActionsAssumption
      <4> QED  BY <4>2, ActTypes
    <3>2. v1' = [v1 EXCEPT !.newest = a, !.unread = b] /\ OneFor(u) = 1 /\ a = v1.newest + 1
      BY <1>3, <1>7, <2>2
    <3> HIDE DEF a, b
    <3>3. /\ v1' \in MessageActions!State /\ v1'.newest = a /\ v1'.unread = b
          /\ \A f \in facts : v1'[f] = v1[f]
      BY <1>5, <3>1, <3>2 DEF MessageActions!State
    <3> QED  BY <3>1, <3>2, <3>3
  <2>3. CASE k = "read"
    BY <1>3, <1>5, <1>7, <2>0, <2>3 DEF MessageActions!State
  <2>4. CASE k = "text"
    BY <1>3, <1>5, <1>7, <2>0, <2>4 DEF MessageActions!State
  <2>5. CASE k = "reactions"
    BY <1>3, <1>5, <1>7, <2>0, <2>5 DEF MessageActions!State
  <2>6. CASE k = "flag"
    BY <1>3, <1>5, <1>7, <2>0, <2>6 DEF MessageActions!State
  <2> QED  BY <1>2, <2>1, <2>2, <2>3, <2>4, <2>5, <2>6
<1>9. /\ v3' \in Seq(MessageActions!Updates)
      /\ \A i \in 1 .. Len(v3') : (i \in 1 .. Len(v3) /\ v3'[i] = v3[i]) \/ v3'[i] = u
  BY <1>1, <1>6, Appended, ActTypes
<1>10. MessageActions!TypeOK'
  <2>1. v6' \subseteq MessageActions!Values /\ v7' \in BOOLEAN /\ v9' \in 0 .. MaxUpdates
    BY <1>1, <1>4, ActTypes
  <2> QED  BY <1>1, <1>8, <1>9, <2>1, ActTypes DEF ActInv, MessageActions!TypeOK
<1>11. Counts'
  <2>1. \E m : Counted(m, v1', v2, Append(v3, u))
    <3>1. \E m : Counted(m, v1, v2, v3)
      BY DEF ActInv, Counts
    <3> QED  BY <1>5, <1>6, <1>8, <3>1, CountGrows, ActTypes
  <2>2. \A i \in 1 .. Len(v3') : v3'[i].kind = "read" => v3'[i].value = 0
    BY <1>7, <1>9 DEF ActInv, Counts
  <2>3. v1'.newest >= v1.newest /\ v1'.newest \in Nat
    BY <1>5, <1>7, <1>8
  <2>4. \A c \in v4 : c.kind = "read" => c.value <= v1'.newest
    <3>1. ASSUME NEW c \in v4, c.kind = "read" PROVE c.value <= v1'.newest
      <4>1. c.value <= v1.newest /\ c.value \in Nat
        BY <3>1, ActTypes DEF ActInv, Counts, MessageActions!Requests
      <4> QED  BY <1>5, <2>3, <4>1
    <3> QED  BY <3>1
  <2> QED
    BY <1>1, <1>8, <2>1, <2>2, <2>4 DEF ActInv, Counts
<1>12. Heard'
  <2>1. u.with \in v6' /\ (u.kind \in facts => u.value \in v6') /\ v6 \subseteq v6'
    BY <1>1, <1>7 DEF ActInv, Heard
  <2>2. \A f \in facts : v1'[f] \in v6' /\ v2[f] \in v6'
    BY <1>1, <1>8, <2>1 DEF ActInv, Heard
  <2> QED  BY <1>1, <1>9, <2>1, <2>2 DEF ActInv, Heard
<1>13. ~v7' /\ v10' = 0 => InTurn'
  <2> SUFFICES ASSUME ~v7, v10 = 0, v4 = {} PROVE InTurn'
    BY <1>1
  <2>1. PICK p : Path(p, v2, v3) /\ Alike(p[Len(v3)], v1)
    BY DEF ActInv, InTurn
  <2>2. PICK q : /\ Path(q, v2, Append(v3, u)) /\ q[Len(Append(v3, u))] = Then(p[Len(v3)], u)
                 /\ p[Len(v3)] \in Rows
    BY <1>6, <2>1, PathGrows, ActTypes
  <2> DEFINE s == p[Len(v3)]
  <2>3. s \in Rows /\ Alike(s, v1)
    BY <2>1, <2>2
  <2> HIDE DEF s
  <2>5. /\ k = "delete" => Then(s, u) = [s EXCEPT !.exists = FALSE]
        /\ k = "message" => Then(s, u) = [s EXCEPT !.newest = s.newest + 1, !.unread = s.unread + 1]
        /\ k = "read" => Then(s, u) = [s EXCEPT !.unread = u.value]
        /\ k = "text" => Then(s, u) = [s EXCEPT !.exists = TRUE, !.text = u.value, !.reactions = u.with]
        /\ k = "reactions" => Then(s, u) = IF s.exists THEN [s EXCEPT !.reactions = u.value] ELSE s
        /\ k = "flag" => Then(s, u) = [s EXCEPT !.flag = u.value]
    <3>1. u.kind = k /\ s \in Rows
      BY <1>7, <2>3
    <3> QED  BY <1>6, <3>1, ThenRow
  <2>6. /\ k \in facts => u.value = x
        /\ k = "read" => u.value = 0
        /\ u.with = v1.reactions
    BY <1>7
  <2>7. Alike(Then(s, u), v1')
    <3>1. CASE k = "delete"
      <4>1. Then(s, u) = [s EXCEPT !.exists = FALSE] /\ v1' = [v1 EXCEPT !.exists = FALSE]
        BY <1>3, <2>3, <2>5, <2>6, <3>1
      <4>2. /\ Then(s, u).exists = FALSE /\ v1'.exists = FALSE
            /\ Then(s, u).flag = s.flag /\ v1'.flag = v1.flag
            /\ Then(s, u).newest = s.newest /\ v1'.newest = v1.newest
            /\ Then(s, u).unread = s.unread /\ v1'.unread = v1.unread
        BY <1>5, <2>3, <4>1 DEF Rows
      <4> QED  BY <2>3, <4>2 DEF Alike
    <3>2. CASE k = "message"
      <4> DEFINE a == v1.newest + 1
                 b == v1.unread + 1
      <4>1. Then(s, u) = [s EXCEPT !.newest = a, !.unread = b] /\ v1' = [v1 EXCEPT !.newest = a, !.unread = b]
        BY <1>3, <2>3, <2>5, <2>6, <3>2 DEF Alike
      <4> HIDE DEF a, b
      <4>2. /\ Then(s, u).exists = s.exists /\ v1'.exists = v1.exists
            /\ Then(s, u).text = s.text /\ v1'.text = v1.text
            /\ Then(s, u).reactions = s.reactions /\ v1'.reactions = v1.reactions
            /\ Then(s, u).flag = s.flag /\ v1'.flag = v1.flag
            /\ Then(s, u).newest = a /\ v1'.newest = a
            /\ Then(s, u).unread = b /\ v1'.unread = b
        BY <1>5, <2>3, <4>1 DEF Rows
      <4> QED  BY <2>3, <4>2 DEF Alike
    <3>3. CASE k = "read"
      <4>1. Then(s, u) = [s EXCEPT !.unread = 0] /\ v1' = [v1 EXCEPT !.unread = 0]
        BY <1>3, <2>3, <2>5, <2>6, <3>3
      <4> QED  BY <1>5, <2>3, <4>1 DEF Alike, Rows
    <3>4. CASE k = "text"
      <4> DEFINE b == v1.reactions
      <4>1. /\ Then(s, u) = [s EXCEPT !.exists = TRUE, !.text = x, !.reactions = b]
            /\ v1' = [v1 EXCEPT !.text = x] /\ b = v1.reactions /\ v1.exists
        BY <1>1, <1>3, <2>3, <2>5, <2>6, <3>4
      <4> HIDE DEF b
      <4>2. /\ Then(s, u).exists = TRUE /\ v1'.exists = v1.exists
            /\ Then(s, u).text = x /\ v1'.text = x
            /\ Then(s, u).reactions = b /\ v1'.reactions = v1.reactions
            /\ Then(s, u).flag = s.flag /\ v1'.flag = v1.flag
            /\ Then(s, u).newest = s.newest /\ v1'.newest = v1.newest
            /\ Then(s, u).unread = s.unread /\ v1'.unread = v1.unread
        BY <1>5, <2>3, <4>1 DEF Rows
      <4> QED  BY <2>3, <4>1, <4>2 DEF Alike
    <3>5. CASE k = "reactions"
      <4>1. Then(s, u) = [s EXCEPT !.reactions = x] /\ v1' = [v1 EXCEPT !.reactions = x]
        BY <1>1, <1>3, <2>3, <2>5, <2>6, <3>5 DEF Alike
      <4> QED  BY <1>5, <2>3, <4>1 DEF Alike, Rows
    <3>6. CASE k = "flag"
      <4>1. Then(s, u) = [s EXCEPT !.flag = x] /\ v1' = [v1 EXCEPT !.flag = x]
        BY <1>3, <2>3, <2>5, <2>6, <3>6
      <4> QED  BY <1>5, <2>3, <4>1 DEF Alike, Rows
    <3> QED  BY <1>2, <3>1, <3>2, <3>3, <3>4, <3>5, <3>6
  <2> QED
    BY <1>1, <2>2, <2>7 DEF InTurn, s
<1> QED
  BY <1>10, <1>11, <1>12, <1>13 DEF ActInv

LEMMA ActStart ==
  ASSUME MessageActions!Init
  PROVE  ActInv
<1>1. /\ v1 = [text |-> 0, reactions |-> 0, flag |-> 0, exists |-> TRUE, newest |-> 0, unread |-> 0]
      /\ v2 = v1 /\ v3 = <<>> /\ v4 = {} /\ v5 = "none" /\ v6 = {0} /\ v7 = FALSE
      /\ v8 = 0 /\ v9 = 0 /\ v10 = 0
  BY DEF MessageActions!Init
<1>2. MessageActions!TypeOK
  <2>1. 0 \in MessageActions!Values /\ 0 \in 0 .. MaxActions /\ 0 \in 0 .. MaxUpdates /\ 0 \in 0 .. MaxRefused
    BY ActionsAssumption DEF MessageActions!Values
  <2> QED  BY <1>1, <2>1, EmptySeq DEF MessageActions!TypeOK, MessageActions!State
<1>3. Counts
  <2> DEFINE m == [i \in 0 .. 0 |-> 0]
  <2>1. Counted(m, v1, v2, v3)
    BY <1>1, EmptySeq DEF Counted
  <2> QED  BY <1>1, <2>1, EmptySeq DEF Counts
<1>4. Heard
  BY <1>1, EmptySeq DEF Heard
<1>5. InTurn
  <2>1. v2 \in Rows
    BY <1>1 DEF Rows
  <2>2. PICK p : Path(p, v2, <<>>) /\ p[Len(<<>>)] = v2
    BY <2>1, PathStarts
  <2> QED  BY <1>1, <2>2 DEF InTurn, Alike
<1> QED
  BY <1>2, <1>3, <1>4, <1>5 DEF ActInv

LEMMA ActStep ==
  ASSUME ActInv, MessageActions!Next
  PROVE  ActInv'
BY ActKeeps, AcceptKeeps, EndsKeep, RecordKeeps, UpdateKeeps, HandledKeeps DEF MessageActions!Next

LEMMA ActHolds ==
  ASSUME ActInv
  PROVE  MessageActions!TypeOK /\ MessageActions!NothingInvented /\ MessageActions!SequentialUseAgrees
<1>1. MessageActions!NothingInvented
  BY DEF ActInv, Heard, MessageActions!NothingInvented, MessageActions!Facts
<1>2. MessageActions!SequentialUseAgrees
  <2> SUFFICES ASSUME v3 = <<>>, v4 = {}, ~v7, v10 = 0 PROVE Alike(v2, v1)
    BY DEF MessageActions!SequentialUseAgrees, MessageActions!Settled, Alike
  <2> QED  BY OneAtATime
<1> QED
  BY <1>1, <1>2 DEF ActInv

ActionsHere == part = "actions" => ActInv

LEMMA ActionsStart == MCInit => ActionsHere
BY ActStart DEF MCInit, ActionsHere

LEMMA ActionsStep == ActionsHere /\ [MCNext]_state => ActionsHere'
<1> SUFFICES ASSUME ActInv, [MCNext]_state, part = "actions" PROVE ActInv'
  BY DEF ActionsHere, MCNext, state
<1>1. CASE MCNext
  <2>1. MessageActions!Next
    BY <1>1 DEF MCNext, MCSteps
  <2> QED  BY <2>1, ActStep
<1>2. CASE UNCHANGED state
  BY <1>2 DEF state, ActInv, MessageActions!TypeOK, Counts, Heard, InTurn
<1> QED
  BY <1>1, <1>2

(* Acting on a message leaves the mirror with values Telegram held, and    *)
(* with its present ones unless two sides act at once or something fails   *)
(* (actions.go), for any number of actions, updates and failures.          *)
THEOREM TheActionsAgree == MCSpec => []ActionsAgree
<1>1. ActionsHere => ActionsAgree
  BY ActHolds DEF ActionsHere, ActionsAgree, NothingInvented, SequentialUseAgrees
<1> QED
  BY <1>1, ActionsStart, ActionsStep, PTL DEF MCSpec
-----------------------------------------------------------------------------
(***************************************************************************)
(* The mirror.  MirrorProofs has the invariants and their proofs; Pushed   *)
(* and Ways are that module over the variables and the instances of this   *)
(* run.                                                                    *)
(***************************************************************************)
Pushed == INSTANCE MirrorProofs WITH
    Chats <- Push.chats, Channels <- Push.channels, DedupCap <- Push.dedup, BatchSize <- 0,
    BusCap <- Push.bus, MaxId <- Push.ids, MaxEdits <- Push.edits, MaxDeletes <- Push.deletes,
    MaxChanges <- Push.changes, MaxLost <- Push.losses, MaxPolls <- Push.polls, MaxLoads <- 0,
    server <- v1, wire <- v2, lru <- v3, feed <- v4, mirror <- v5, plain <- v6,
    listed <- v7, poll <- v8, watermark <- v9, load <- v10, verified <- v11, missed <- v12,
    used <- v13, overtaken <- v14

Ways == INSTANCE MirrorProofs WITH
    Chats <- Paths.chats, Channels <- Paths.channels, DedupCap <- Paths.dedup, BatchSize <- Paths.batch,
    BusCap <- Paths.bus, MaxId <- Paths.ids, MaxEdits <- Paths.edits, MaxDeletes <- Paths.deletes,
    MaxChanges <- Paths.changes, MaxLost <- Paths.losses, MaxPolls <- Paths.polls, MaxLoads <- Paths.loads,
    server <- v1, wire <- v2, lru <- v3, feed <- v4, mirror <- v5, plain <- v6,
    listed <- v7, poll <- v8, watermark <- v9, load <- v10, verified <- v11, missed <- v12,
    used <- v13, overtaken <- v14

LEMMA SamePushStart == PushMirror!Init => Pushed!Init
BY Zenon DEF PushMirror!Kinds, Pushed!Kinds, PushMirror!Ids, Pushed!Ids, PushMirror!Messages,
   Pushed!Messages, PushMirror!Nothing, Pushed!Nothing, PushMirror!Init, Pushed!Init

LEMMA SamePushSteps == PushMirror!Next => Pushed!Next
<1>1. ASSUME NEW c PROVE PushMirror!ServerSends(c) => Pushed!ServerSends(c)
  BY Zenon DEF PushMirror!Numbering, Pushed!Numbering, PushMirror!Ids, Pushed!Ids,
     PushMirror!NextId, Pushed!NextId, PushMirror!Messages, Pushed!Messages, PushMirror!polling,
     Pushed!polling, PushMirror!history, Pushed!history, PushMirror!Cardinality,
     Pushed!Cardinality, PushMirror!ServerSends, Pushed!ServerSends
<1>2. ASSUME NEW c PROVE PushMirror!DialogsSynced(c) => Pushed!DialogsSynced(c)
  BY Zenon DEF PushMirror!Ids, Pushed!Ids, PushMirror!Alive, Pushed!Alive, PushMirror!Deleted,
     Pushed!Deleted, PushMirror!Versions, Pushed!Versions, PushMirror!OnServer, Pushed!OnServer,
     PushMirror!Newest, Pushed!Newest, PushMirror!Max, Pushed!Max, PushMirror!polling,
     Pushed!polling, PushMirror!history, Pushed!history, PushMirror!DialogsSynced,
     Pushed!DialogsSynced
<1>3. ASSUME NEW c PROVE PushMirror!PollFetches(c) => Pushed!PollFetches(c)
  BY Zenon DEF PushMirror!Ids, Pushed!Ids, PushMirror!Alive, Pushed!Alive, PushMirror!Versions,
     Pushed!Versions, PushMirror!OnServer, Pushed!OnServer, PushMirror!Newest, Pushed!Newest,
     PushMirror!NewestStored, Pushed!NewestStored, PushMirror!Since, Pushed!Since,
     PushMirror!Max, Pushed!Max, PushMirror!Kinds, Pushed!Kinds, PushMirror!Limit, Pushed!Limit,
     PushMirror!Spend, Pushed!Spend, PushMirror!Nothing, Pushed!Nothing, PushMirror!history,
     Pushed!history, PushMirror!PollFetches, Pushed!PollFetches
<1>4. ASSUME NEW c PROVE PushMirror!HistoryFetched(c) => Pushed!HistoryFetched(c)
  BY Zenon DEF PushMirror!Ids, Pushed!Ids, PushMirror!Alive, Pushed!Alive, PushMirror!Versions,
     Pushed!Versions, PushMirror!OnServer, Pushed!OnServer, PushMirror!Newest, Pushed!Newest,
     PushMirror!NewestStored, Pushed!NewestStored, PushMirror!CacheIsCurrent,
     Pushed!CacheIsCurrent, PushMirror!Batch, Pushed!Batch, PushMirror!Cardinality,
     Pushed!Cardinality, PushMirror!Max, Pushed!Max, PushMirror!Kinds, Pushed!Kinds,
     PushMirror!Limit, Pushed!Limit, PushMirror!Spend, Pushed!Spend, PushMirror!Nothing,
     Pushed!Nothing, PushMirror!polling, Pushed!polling, PushMirror!HistoryFetched,
     Pushed!HistoryFetched
<1>5. ASSUME NEW c PROVE PushMirror!VerdictExpires(c) => Pushed!VerdictExpires(c)
  BY Zenon DEF PushMirror!polling, Pushed!polling, PushMirror!VerdictExpires,
     Pushed!VerdictExpires
<1>6. ASSUME NEW m PROVE PushMirror!ServerEdits(m) => Pushed!ServerEdits(m)
  BY Zenon DEF PushMirror!Kinds, Pushed!Kinds, PushMirror!Limit, Pushed!Limit, PushMirror!Spend,
     Pushed!Spend, PushMirror!Changes, Pushed!Changes, PushMirror!Alive, Pushed!Alive,
     PushMirror!Versions, Pushed!Versions, PushMirror!polling, Pushed!polling,
     PushMirror!history, Pushed!history, PushMirror!ServerEdits, Pushed!ServerEdits
<1>7. ASSUME NEW m PROVE PushMirror!ServerDeletes(m) => Pushed!ServerDeletes(m)
  BY Zenon DEF PushMirror!Kinds, Pushed!Kinds, PushMirror!Limit, Pushed!Limit, PushMirror!Spend,
     Pushed!Spend, PushMirror!Changes, Pushed!Changes, PushMirror!Alive, Pushed!Alive,
     PushMirror!Versions, Pushed!Versions, PushMirror!Deleted, Pushed!Deleted,
     PushMirror!polling, Pushed!polling, PushMirror!history, Pushed!history,
     PushMirror!ServerDeletes, Pushed!ServerDeletes
<1>8. PushMirror!UpdateLost => Pushed!UpdateLost
  BY Zenon DEF PushMirror!Kinds, Pushed!Kinds, PushMirror!Limit, Pushed!Limit, PushMirror!Spend,
     Pushed!Spend, PushMirror!polling, Pushed!polling, PushMirror!history, Pushed!history,
     PushMirror!UpdateLost, Pushed!UpdateLost
<1>9. PushMirror!Dispatch => Pushed!Dispatch
  BY Zenon DEF PushMirror!Publish, Pushed!Publish, PushMirror!Seen, Pushed!Seen,
     PushMirror!Remember, Pushed!Remember, PushMirror!Youngest, Pushed!Youngest,
     PushMirror!Refresh, Pushed!Refresh, PushMirror!Duplicate, Pushed!Duplicate,
     PushMirror!FirstTime, Pushed!FirstTime, PushMirror!Nothing, Pushed!Nothing,
     PushMirror!Passed, Pushed!Passed, PushMirror!history, Pushed!history, PushMirror!Dispatch,
     Pushed!Dispatch
<1>10. PushMirror!Persist => Pushed!Persist
  BY Zenon DEF PushMirror!ChatOf, Pushed!ChatOf, PushMirror!polling, Pushed!polling,
     PushMirror!history, Pushed!history, PushMirror!Persist, Pushed!Persist
<1>11. PushMirror!Forget => Pushed!Forget
  BY Zenon DEF PushMirror!ChatOf, Pushed!ChatOf, PushMirror!Addressed, Pushed!Addressed,
     PushMirror!Messages, Pushed!Messages, PushMirror!Ids, Pushed!Ids, PushMirror!polling,
     Pushed!polling, PushMirror!history, Pushed!history, PushMirror!Forget, Pushed!Forget
<1>12. PushMirror!PollPublishes => Pushed!PollPublishes
  BY Zenon DEF PushMirror!Publish, Pushed!Publish, PushMirror!Nothing, Pushed!Nothing,
     PushMirror!Rest, Pushed!Rest, PushMirror!history, Pushed!history, PushMirror!PollPublishes,
     Pushed!PollPublishes
<1>15. PushMirror!PollFilters => Pushed!PollFilters
  BY Zenon DEF PushMirror!Seen, Pushed!Seen, PushMirror!Remember, Pushed!Remember,
     PushMirror!Youngest, Pushed!Youngest, PushMirror!Refresh, Pushed!Refresh,
     PushMirror!Nothing, Pushed!Nothing, PushMirror!Rest, Pushed!Rest, PushMirror!Max,
     Pushed!Max, PushMirror!history, Pushed!history, PushMirror!PollFilters, Pushed!PollFilters
<1>13. PushMirror!PollAdvances => Pushed!PollAdvances
  BY Zenon DEF PushMirror!Nothing, Pushed!Nothing, PushMirror!history, Pushed!history,
     PushMirror!PollAdvances, Pushed!PollAdvances
<1>14. PushMirror!HistorySaved => Pushed!HistorySaved
  BY Zenon DEF PushMirror!Nothing, Pushed!Nothing, PushMirror!Messages, Pushed!Messages,
     PushMirror!Ids, Pushed!Ids, PushMirror!polling, Pushed!polling, PushMirror!HistorySaved,
     Pushed!HistorySaved
<1> QED
  BY <1>1, <1>2, <1>3, <1>4, <1>5, <1>6, <1>7, <1>8, <1>9, <1>10, <1>11, <1>12, <1>13, <1>14, <1>15
     DEF PushMirror!Ids, Pushed!Ids, PushMirror!Messages, Pushed!Messages,
   PushMirror!LiveStep, Pushed!LiveStep, PushMirror!PollStep, Pushed!PollStep,
   PushMirror!Next, Pushed!Next

LEMMA SamePathsStart == PathsMirror!Init => Ways!Init
BY Zenon DEF PathsMirror!Kinds, Ways!Kinds, PathsMirror!Ids, Ways!Ids, PathsMirror!Messages,
   Ways!Messages, PathsMirror!Nothing, Ways!Nothing, PathsMirror!Init, Ways!Init

LEMMA SamePathsSteps == PathsMirror!Next => Ways!Next
<1>1. ASSUME NEW c PROVE PathsMirror!ServerSends(c) => Ways!ServerSends(c)
  BY Zenon DEF PathsMirror!Numbering, Ways!Numbering, PathsMirror!Ids, Ways!Ids,
     PathsMirror!NextId, Ways!NextId, PathsMirror!Messages, Ways!Messages, PathsMirror!polling,
     Ways!polling, PathsMirror!history, Ways!history, PathsMirror!Cardinality, Ways!Cardinality,
     PathsMirror!ServerSends, Ways!ServerSends
<1>2. ASSUME NEW c PROVE PathsMirror!DialogsSynced(c) => Ways!DialogsSynced(c)
  BY Zenon DEF PathsMirror!Ids, Ways!Ids, PathsMirror!Alive, Ways!Alive, PathsMirror!Deleted,
     Ways!Deleted, PathsMirror!Versions, Ways!Versions, PathsMirror!OnServer, Ways!OnServer,
     PathsMirror!Newest, Ways!Newest, PathsMirror!Max, Ways!Max, PathsMirror!polling,
     Ways!polling, PathsMirror!history, Ways!history, PathsMirror!DialogsSynced,
     Ways!DialogsSynced
<1>3. ASSUME NEW c PROVE PathsMirror!PollFetches(c) => Ways!PollFetches(c)
  BY Zenon DEF PathsMirror!Ids, Ways!Ids, PathsMirror!Alive, Ways!Alive, PathsMirror!Versions,
     Ways!Versions, PathsMirror!OnServer, Ways!OnServer, PathsMirror!Newest, Ways!Newest,
     PathsMirror!NewestStored, Ways!NewestStored, PathsMirror!Since, Ways!Since,
     PathsMirror!Max, Ways!Max, PathsMirror!Kinds, Ways!Kinds, PathsMirror!Limit, Ways!Limit,
     PathsMirror!Spend, Ways!Spend, PathsMirror!Nothing, Ways!Nothing, PathsMirror!history,
     Ways!history, PathsMirror!PollFetches, Ways!PollFetches
<1>4. ASSUME NEW c PROVE PathsMirror!HistoryFetched(c) => Ways!HistoryFetched(c)
  BY Zenon DEF PathsMirror!Ids, Ways!Ids, PathsMirror!Alive, Ways!Alive, PathsMirror!Versions,
     Ways!Versions, PathsMirror!OnServer, Ways!OnServer, PathsMirror!Newest, Ways!Newest,
     PathsMirror!NewestStored, Ways!NewestStored, PathsMirror!CacheIsCurrent,
     Ways!CacheIsCurrent, PathsMirror!Batch, Ways!Batch, PathsMirror!Cardinality,
     Ways!Cardinality, PathsMirror!Max, Ways!Max, PathsMirror!Kinds, Ways!Kinds,
     PathsMirror!Limit, Ways!Limit, PathsMirror!Spend, Ways!Spend, PathsMirror!Nothing,
     Ways!Nothing, PathsMirror!polling, Ways!polling, PathsMirror!HistoryFetched,
     Ways!HistoryFetched
<1>5. ASSUME NEW c PROVE PathsMirror!VerdictExpires(c) => Ways!VerdictExpires(c)
  BY Zenon DEF PathsMirror!polling, Ways!polling, PathsMirror!VerdictExpires,
     Ways!VerdictExpires
<1>6. ASSUME NEW m PROVE PathsMirror!ServerEdits(m) => Ways!ServerEdits(m)
  BY Zenon DEF PathsMirror!Kinds, Ways!Kinds, PathsMirror!Limit, Ways!Limit, PathsMirror!Spend,
     Ways!Spend, PathsMirror!Changes, Ways!Changes, PathsMirror!Alive, Ways!Alive,
     PathsMirror!Versions, Ways!Versions, PathsMirror!polling, Ways!polling,
     PathsMirror!history, Ways!history, PathsMirror!ServerEdits, Ways!ServerEdits
<1>7. ASSUME NEW m PROVE PathsMirror!ServerDeletes(m) => Ways!ServerDeletes(m)
  BY Zenon DEF PathsMirror!Kinds, Ways!Kinds, PathsMirror!Limit, Ways!Limit, PathsMirror!Spend,
     Ways!Spend, PathsMirror!Changes, Ways!Changes, PathsMirror!Alive, Ways!Alive,
     PathsMirror!Versions, Ways!Versions, PathsMirror!Deleted, Ways!Deleted,
     PathsMirror!polling, Ways!polling, PathsMirror!history, Ways!history,
     PathsMirror!ServerDeletes, Ways!ServerDeletes
<1>8. PathsMirror!UpdateLost => Ways!UpdateLost
  BY Zenon DEF PathsMirror!Kinds, Ways!Kinds, PathsMirror!Limit, Ways!Limit, PathsMirror!Spend,
     Ways!Spend, PathsMirror!polling, Ways!polling, PathsMirror!history, Ways!history,
     PathsMirror!UpdateLost, Ways!UpdateLost
<1>9. PathsMirror!Dispatch => Ways!Dispatch
  BY Zenon DEF PathsMirror!Publish, Ways!Publish, PathsMirror!Seen, Ways!Seen,
     PathsMirror!Remember, Ways!Remember, PathsMirror!Youngest, Ways!Youngest,
     PathsMirror!Refresh, Ways!Refresh, PathsMirror!Duplicate, Ways!Duplicate,
     PathsMirror!FirstTime, Ways!FirstTime, PathsMirror!Nothing, Ways!Nothing,
     PathsMirror!Passed, Ways!Passed, PathsMirror!history, Ways!history, PathsMirror!Dispatch,
     Ways!Dispatch
<1>10. PathsMirror!Persist => Ways!Persist
  BY Zenon DEF PathsMirror!ChatOf, Ways!ChatOf, PathsMirror!polling, Ways!polling,
     PathsMirror!history, Ways!history, PathsMirror!Persist, Ways!Persist
<1>11. PathsMirror!Forget => Ways!Forget
  BY Zenon DEF PathsMirror!ChatOf, Ways!ChatOf, PathsMirror!Addressed, Ways!Addressed,
     PathsMirror!Messages, Ways!Messages, PathsMirror!Ids, Ways!Ids, PathsMirror!polling,
     Ways!polling, PathsMirror!history, Ways!history, PathsMirror!Forget, Ways!Forget
<1>12. PathsMirror!PollPublishes => Ways!PollPublishes
  BY Zenon DEF PathsMirror!Publish, Ways!Publish, PathsMirror!Nothing, Ways!Nothing,
     PathsMirror!Rest, Ways!Rest, PathsMirror!history, Ways!history, PathsMirror!PollPublishes,
     Ways!PollPublishes
<1>15. PathsMirror!PollFilters => Ways!PollFilters
  BY Zenon DEF PathsMirror!Seen, Ways!Seen, PathsMirror!Remember, Ways!Remember,
     PathsMirror!Youngest, Ways!Youngest, PathsMirror!Refresh, Ways!Refresh,
     PathsMirror!Nothing, Ways!Nothing, PathsMirror!Rest, Ways!Rest, PathsMirror!Max, Ways!Max,
     PathsMirror!history, Ways!history, PathsMirror!PollFilters, Ways!PollFilters
<1>13. PathsMirror!PollAdvances => Ways!PollAdvances
  BY Zenon DEF PathsMirror!Nothing, Ways!Nothing, PathsMirror!history, Ways!history,
     PathsMirror!PollAdvances, Ways!PollAdvances
<1>14. PathsMirror!HistorySaved => Ways!HistorySaved
  BY Zenon DEF PathsMirror!Nothing, Ways!Nothing, PathsMirror!Messages, Ways!Messages,
     PathsMirror!Ids, Ways!Ids, PathsMirror!polling, Ways!polling, PathsMirror!HistorySaved,
     Ways!HistorySaved
<1> QED
  BY <1>1, <1>2, <1>3, <1>4, <1>5, <1>6, <1>7, <1>8, <1>9, <1>10, <1>11, <1>12, <1>13, <1>14, <1>15
     DEF PathsMirror!Ids, Ways!Ids, PathsMirror!Messages, Ways!Messages,
   PathsMirror!LiveStep, Ways!LiveStep, PathsMirror!PollStep, Ways!PollStep, PathsMirror!Next,
   Ways!Next

LEMMA MirrorBounds == Pushed!Bounds /\ Pushed!Remembers /\ Ways!Bounds
<1>1. \A S : /\ Pushed!IsFiniteSet(S) = IsFiniteSet(S) /\ Ways!IsFiniteSet(S) = IsFiniteSet(S)
             /\ Pushed!Cardinality(S) = Cardinality(S)
  BY DEF Pushed!IsFiniteSet, Ways!IsFiniteSet, IsFiniteSet, Pushed!Cardinality, Cardinality
<1> QED
  BY <1>1, MirrorAssumption
     DEF Pushed!Bounds, Ways!Bounds, Pushed!Remembers, Pushed!Messages, Pushed!Ids

MirrorsHold ==
    /\ part = "push" => Pushed!PathsInv /\ Pushed!PushedInv
    /\ part = "paths" => Ways!PathsInv

LEMMA MirrorsStart == MCInit => MirrorsHold
<1>1. Pushed!Init => Pushed!PathsInv /\ Pushed!PushedInv
  BY MirrorBounds, Pushed!PathsInit, Pushed!PushedInit
<1>2. Ways!Init => Ways!PathsInv
  BY MirrorBounds, Ways!PathsInit
<1> QED
  BY <1>1, <1>2, SamePushStart, SamePathsStart DEF MCInit, MirrorsHold

LEMMA MirrorsStep == MirrorsHold /\ [MCNext]_state => MirrorsHold'
<1> SUFFICES ASSUME MirrorsHold, [MCNext]_state PROVE MirrorsHold'
  OBVIOUS
<1>0. part' = part
  BY DEF MCNext, state
<1>1. part = "push" => Pushed!Next \/ UNCHANGED Pushed!vars
  BY SamePushSteps DEF MCNext, MCSteps, state, Pushed!vars, Pushed!polling, Pushed!history
<1>2. part = "paths" => Ways!Next \/ UNCHANGED Ways!vars
  BY SamePathsSteps DEF MCNext, MCSteps, state, Ways!vars, Ways!polling, Ways!history
<1>3. part = "push" => (Pushed!PathsInv /\ Pushed!PushedInv)'
  BY <1>1, MirrorBounds, Pushed!NextPaths, Pushed!NextPushed DEF MirrorsHold
<1>4. part = "paths" => Ways!PathsInv'
  BY <1>2, MirrorBounds, Ways!NextPaths DEF MirrorsHold
<1> QED
  BY <1>0, <1>3, <1>4 DEF MirrorsHold

LEMMA MirrorsAgreeHere == MirrorsHold => MirrorAgrees
<1> SUFFICES ASSUME MirrorsHold PROVE MirrorAgrees
  OBVIOUS
<1>1. part = "push" => Pushed!TypeOK /\ Pushed!NothingStale
  BY MirrorBounds, Pushed!PathsMiss, Pushed!PushedAgrees DEF MirrorsHold
<1>2. part = "paths" => Ways!TypeOK /\ Ways!NothingMissing
  BY Ways!PathsMiss DEF MirrorsHold
<1>3. Pushed!TypeOK /\ Pushed!NothingStale => PushMirror!TypeOK /\ PushMirror!NothingStale
  BY Zenon DEF PushMirror!Ids, Pushed!Ids, PushMirror!Messages, Pushed!Messages,
     PushMirror!Kinds, Pushed!Kinds, PushMirror!Versions, Pushed!Versions, PushMirror!Deleted,
     Pushed!Deleted, PushMirror!Update, Pushed!Update, PushMirror!Answer, Pushed!Answer,
     PushMirror!Poll, Pushed!Poll, PushMirror!Load, Pushed!Load, PushMirror!Nothing,
     Pushed!Nothing, PushMirror!TypeOK, Pushed!TypeOK, PushMirror!Settled, Pushed!Settled,
     PushMirror!Alive, Pushed!Alive, PushMirror!NothingStale, Pushed!NothingStale
<1>4. Ways!TypeOK /\ Ways!NothingMissing => PathsMirror!TypeOK /\ PathsMirror!NothingMissing
  BY Zenon DEF PathsMirror!Ids, Ways!Ids, PathsMirror!Messages, Ways!Messages,
     PathsMirror!Kinds, Ways!Kinds, PathsMirror!Versions, Ways!Versions, PathsMirror!Deleted,
     Ways!Deleted, PathsMirror!Update, Ways!Update, PathsMirror!Answer, Ways!Answer,
     PathsMirror!Poll, Ways!Poll, PathsMirror!Load, Ways!Load, PathsMirror!Nothing,
     Ways!Nothing, PathsMirror!TypeOK, Ways!TypeOK, PathsMirror!Settled, Ways!Settled,
     PathsMirror!Alive, Ways!Alive, PathsMirror!NothingMissing, Ways!NothingMissing
<1> QED
  BY <1>1, <1>2, <1>3, <1>4 DEF MirrorAgrees, PushedNotStale, PathsMissNothing

(* What arrived stays (updates.go, polling.go, live.go, history.go): a     *)
(* message whose updates got through the filter, the bus and the poll has  *)
(* its row, for any chats, buffers, edits, deletions, polls and history    *)
(* batches; and the row is the server's version where no batch is fetched  *)
(* and the filter forgets nothing.                                         *)
THEOREM TheMirrorAgrees == MCSpec => []MirrorAgrees
BY MirrorsStart, MirrorsStep, MirrorsAgreeHere, PTL DEF MCSpec
===============================================================================
