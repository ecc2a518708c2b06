------------------------------- MODULE Backfill -------------------------------
(***************************************************************************)
(* Opening a chat asks for its history: App.onChatOpened (ui/app) starts a *)
(* goroutine per open, at most GateCap of them, and each goes through      *)
(* BackfillService.Enqueue (core/sync/backfill.go) into a bounded queue    *)
(* that one worker drains through HistoryService.LoadInitial               *)
(* (core/sync/history.go).                                                 *)
(*                                                                         *)
(* A chat's content is the id of its newest message, three times over: at  *)
(* the server, in the messages table and in the chat list.                 *)
(***************************************************************************)
EXTENDS Naturals, Sequences, FiniteSets

CONSTANTS Chats,
          Unaddressed,   \* chats without a row in peers
          GateCap,       \* maxConcurrentHistoryRequests
          QueueCap,      \* BackfillConfig.QueueSize
          MaxOpens, MaxNews, MaxFloods, MaxWindows   \* bounds

ASSUME CapsAssumption == GateCap \in Nat /\ QueueCap \in Nat

VARIABLES
    slot,        \* historyGate: what the goroutine holding each slot is at
    queue,       \* BackfillService.queue
    inflight,    \* BackfillService.inflight
    worker,      \* the consumer goroutine
    alive,       \* the background context is not cancelled
    newest,      \* each chat's newest message at the server,
    stored,      \*   in the mirror,
    shown,       \*   and in the chat list
    verified,    \* chats confirmed within freshnessWindow
    owed,        \* newest when the request under way was accepted; 0: none
    waiting,     \* chats opened and not answered since
    spent        \* how much of each bound is used

corpus == <<newest, stored, shown>>
line == <<slot, queue, inflight>>
vars == <<line, worker, alive, corpus, verified, owed, waiting, spent>>

Bounds == [opens |-> MaxOpens, news |-> MaxNews,
           floods |-> MaxFloods, windows |-> MaxWindows]
Spend(k) == spent[k] < Bounds[k] /\ spent' = [spent EXCEPT ![k] = @ + 1]

Free == [at |-> "free"]
Idle == [at |-> "idle"]
Stopped == [at |-> "stopped"]
Held(chat, at) == [at |-> at, chat |-> chat]
Working(c) == worker.at \notin {"idle", "stopped"} /\ worker.chat = c
Slots == 1 .. GateCap

Init ==
    /\ slot = [i \in Slots |-> Free]
    /\ queue = <<>> /\ inflight = {} /\ worker = Idle /\ alive = TRUE
    /\ newest = [c \in Chats |-> 1] /\ stored = newest /\ shown = newest
    /\ verified = {} /\ waiting = {}
    /\ owed = [c \in Chats |-> [upto |-> 0, fresh |-> FALSE]]
    /\ spent = [k \in DOMAIN Bounds |-> 0]

-----------------------------------------------------------------------------
\* Opening a chat.

\* A goroutine per open while the gate has room; the request is dropped, and
\* logged, when it has none.
OnChatOpened(c) ==
    /\ Spend("opens")
    /\ \/ \E i \in Slots :
            /\ slot[i] = Free /\ \A j \in 1 .. i - 1 : slot[j] # Free
            /\ slot' = [slot EXCEPT ![i] = Held(c, "enter")]
            /\ waiting' = IF alive THEN waiting \cup {c} ELSE waiting
       \/ /\ \A i \in Slots : slot[i] # Free
          /\ UNCHANGED <<slot, waiting>>
    /\ UNCHANGED <<queue, inflight, worker, alive, corpus, verified, owed>>

\* Mutant: the request in flight is looked up but never recorded.
EnqueueMarks_Unrecorded(i) ==
    /\ slot[i].at = "enter"
    /\ slot' = [slot EXCEPT ![i] = IF @.chat \in inflight THEN Free
                                   ELSE Held(@.chat, "send")]
    /\ owed' = [owed EXCEPT ![slot[i].chat] =
                    [upto |-> newest[slot[i].chat],
                     fresh |-> slot[i].chat \notin verified]]
    /\ UNCHANGED <<queue, inflight, worker, alive, corpus, verified, waiting, spent>>

\* Enqueue, under the mutex: a chat already queued or being fetched is let go.
EnqueueMarks(i) ==
    /\ slot[i].at = "enter"
    /\ LET c == slot[i].chat IN
       \/ /\ c \in inflight
          /\ slot' = [slot EXCEPT ![i] = Free]
          /\ UNCHANGED <<inflight, owed>>
       \/ /\ c \notin inflight
          /\ inflight' = inflight \cup {c}
          /\ slot' = [slot EXCEPT ![i] = Held(c, "send")]
          /\ owed' = [owed EXCEPT ![c] =
                          [upto |-> newest[c], fresh |-> c \notin verified]]
    /\ UNCHANGED <<queue, worker, alive, corpus, verified, waiting, spent>>

\* Enqueue, after the unlock: the channel takes it once there is room.
EnqueueSends(i) ==
    /\ slot[i].at = "send" /\ Len(queue) < QueueCap
    /\ queue' = Append(queue, slot[i].chat)
    /\ slot' = [slot EXCEPT ![i] = Free]
    /\ UNCHANGED <<inflight, worker, alive, corpus, verified, owed, waiting, spent>>

-----------------------------------------------------------------------------
\* The consumer.

\* Select is free to take a request although the context is cancelled too.
Take ==
    /\ worker = Idle /\ queue # <<>>
    /\ worker' = Held(Head(queue), "limiter")
    /\ queue' = Tail(queue)
    /\ UNCHANGED <<slot, inflight, alive, corpus, verified, owed, waiting, spent>>

\* Mutant: a failed request stays in the in-flight set.
Release_OnlyDone(answered) ==
    /\ worker' = Idle
    /\ inflight' = IF answered THEN inflight \ {worker.chat} ELSE inflight
    /\ waiting' = waiting \ {worker.chat}
    /\ owed' = [owed EXCEPT ![worker.chat].upto = 0]

\* process returns; its defer gives the chat's place up.
Release(answered) ==
    /\ worker' = Idle
    /\ inflight' = inflight \ {worker.chat}
    /\ waiting' = waiting \ {worker.chat}
    /\ owed' = [owed EXCEPT ![worker.chat].upto = 0]

\* Mutant: the local comparison alone is trusted, however old the last answer.
CacheIsCurrent_NoWindow(c) == stored[c] >= shown[c]

\* The server confirmed the chat within the window and the list knows of
\* nothing newer than the mirror.
CacheIsCurrent(c) == c \in verified /\ stored[c] >= shown[c]

\* LoadInitial up to its request.
LoadInitial ==
    /\ worker.at = "limiter" /\ alive
    /\ UNCHANGED <<slot, queue, alive, corpus, verified, spent>>
    /\ LET c == worker.chat IN
       \/ CacheIsCurrent(c) /\ Release(TRUE)
       \/ ~CacheIsCurrent(c) /\ c \in Unaddressed /\ Release(FALSE)
       \/ /\ ~CacheIsCurrent(c) /\ c \notin Unaddressed
          /\ worker' = [worker EXCEPT !.at = "fetch"]
          /\ UNCHANGED <<inflight, waiting, owed>>

\* The batch is in hand and the chat counts as confirmed.
FetchAnswered ==
    /\ worker.at = "fetch" /\ alive
    /\ verified' = verified \cup {worker.chat}
    /\ worker' = [at |-> "save", chat |-> worker.chat, upto |-> newest[worker.chat]]
    /\ UNCHANGED <<line, alive, corpus, owed, waiting, spent>>

FetchFailed ==
    /\ worker.at = "fetch" /\ Release(FALSE)
    /\ UNCHANGED <<slot, queue, alive, corpus, verified, spent>>

\* FLOOD_WAIT: process sleeps and goes through the limiter again.
FetchFlooded ==
    /\ worker.at = "fetch" /\ alive /\ Spend("floods")
    /\ worker' = [worker EXCEPT !.at = "flood"]
    /\ UNCHANGED <<line, alive, corpus, verified, owed, waiting>>

FloodOver ==
    /\ worker.at = "flood"
    /\ worker' = [worker EXCEPT !.at = "limiter"]
    /\ UNCHANGED <<line, alive, corpus, verified, owed, waiting, spent>>

\* SaveMessages and DialogUpdated; the save may fail.
Save ==
    /\ worker.at = "save"
    /\ LET c == worker.chat IN
       \/ /\ stored' = [stored EXCEPT ![c] = IF @ < worker.upto THEN worker.upto ELSE @]
          /\ Release(TRUE)
       \/ Release(FALSE) /\ UNCHANGED stored
    /\ UNCHANGED <<slot, queue, alive, newest, shown, verified, spent>>

\* The cancelled context ends whatever process waits for, and then the loop.
WorkerStops ==
    /\ ~alive
    /\ \/ worker.at \in {"limiter", "flood"} /\ Release(FALSE)
       \/ /\ worker = Idle /\ worker' = Stopped
          /\ UNCHANGED <<inflight, waiting, owed>>
    /\ UNCHANGED <<slot, queue, alive, corpus, verified, spent>>

-----------------------------------------------------------------------------
\* What goes on around it.

\* A message arrives: pushed and saved, or seen by the dialog sync only, or
\* missed altogether.
Arrives(c) ==
    /\ Spend("news")
    /\ newest' = [newest EXCEPT ![c] = @ + 1]
    /\ \/ stored' = [stored EXCEPT ![c] = newest'[c]] /\ shown' = [shown EXCEPT ![c] = newest'[c]]
       \/ shown' = [shown EXCEPT ![c] = newest'[c]] /\ UNCHANGED stored
       \/ UNCHANGED <<stored, shown>>
    /\ UNCHANGED <<line, worker, alive, verified, owed, waiting>>

WindowOver(c) ==
    /\ c \in verified /\ Spend("windows")
    /\ verified' = verified \ {c}
    /\ UNCHANGED <<line, worker, alive, corpus, owed, waiting>>

Quit ==
    /\ alive /\ alive' = FALSE /\ waiting' = {}
    /\ UNCHANGED <<line, worker, corpus, verified, owed, spent>>

-----------------------------------------------------------------------------
Enqueueing == \E i \in Slots : EnqueueMarks(i) \/ EnqueueSends(i)
Loading == LoadInitial \/ FetchAnswered \/ FetchFailed \/ FetchFlooded
Draining == Take \/ Loading \/ FloodOver \/ Save \/ WorkerStops

Next ==
    \/ \E c \in Chats : OnChatOpened(c) \/ Arrives(c) \/ WindowOver(c)
    \/ Enqueueing \/ Draining \/ Quit

Fairness ==
    /\ WF_vars(Enqueueing)
    /\ WF_vars(Draining)

Spec == Init /\ [][Next]_vars /\ Fairness

-----------------------------------------------------------------------------
TypeOK ==
    /\ \A i \in Slots : slot[i] = Free \/ (slot[i].at \in {"enter", "send"} /\ slot[i].chat \in Chats)
    /\ queue \in Seq(Chats) /\ Len(queue) <= QueueCap
    /\ {inflight, verified, waiting} \subseteq SUBSET Chats
    /\ {newest, stored, shown} \subseteq [Chats -> Nat]
    /\ \A c \in Chats : Working(c) => worker.at \in {"limiter", "fetch", "flood", "save"}

\* A chat is in the in-flight set exactly while one request for it is on its
\* way to the queue, in it, or being served: Enqueue records before it sends
\* and process gives up on every return, so no chat is fetched twice at once
\* and none is left unable to ask again.
OneRequestPerChat ==
    \A c \in Chats :
        Cardinality({i \in Slots : slot[i] = Held(c, "send")})
            + Cardinality({k \in DOMAIN queue : queue[k] = c})
            + (IF Working(c) THEN 1 ELSE 0)
        = (IF c \in inflight THEN 1 ELSE 0)

\* Requests are accounted for, one for each chat (BackfillService).
FetchingIsOwned == TypeOK /\ OneRequestPerChat

\* A request accepted after the chat's last verdict expired, and answered,
\* leaves in the mirror all the server had when it was accepted: what a
\* dropped transport cost is invisible for one window at most
\* (freshnessWindow's comment), whatever the chat list believes.
CaughtUpOutsideWindow ==
    \A c \in Chats :
       (owed[c].upto > 0 /\ owed'[c].upto = 0 /\ owed[c].fresh
          /\ worker.at \in {"limiter", "save"} /\ alive /\ c \notin Unaddressed)
       => (stored'[c] >= owed[c].upto \/ (worker.at = "save" /\ UNCHANGED stored))

Unanswered(c) == c \in waiting

\* While the program runs, a chat that was opened, and not dropped at the gate,
\* has a request end after that: the queue, the rate limit and flood waits
\* delay the answer but none of them loses it.
OpensAnswered == \A c \in Chats : Unanswered(c) ~> ~Unanswered(c)

-----------------------------------------------------------------------------
(* What the source says and the code does not do.  README.md names the     *)
(* instance that refutes each of these.                                    *)

\* onChatOpened: "the repeat fetch on open is what closes that hole".  A chat
\* opened again between the answer and the save is let go with the fetch whose
\* answer is already in hand.
ReopenSeesLatest ==
    [][ \A c \in Chats, i \in Slots :
          (slot[i] = Held(c, "enter") /\ slot'[i] = Free)
          => ~(worker.at = "save" /\ worker.chat = c /\ worker.upto < newest[c]) ]_vars
=============================================================================
