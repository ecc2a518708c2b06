--------------------------- MODULE BackgroundProofs ---------------------------
(***************************************************************************)
(* Theorems about Backfill and the components that run with it behind the  *)
(* panes.                                                                  *)
(*                                                                         *)
(* A chat's request is in one place at a time: a goroutine about to send   *)
(* it, the queue, or the worker's hands, and the in-flight set says so     *)
(* (OnePlace).  An accepted request that found no fresh verdict stays      *)
(* without one until its own answer (OwedIsAhead).  A download owns the    *)
(* partial file it writes (PartialsOwned), and a screen fed by a bus that  *)
(* drops what does not fit shows, once it has handled everything, the last *)
(* word on whatever nothing was dropped of (RowsFollow, CellsFollow).      *)
(***************************************************************************)
EXTENDS MCBackground, FiniteSetTheorems, SequenceTheorems, TLAPS

Holder == {Free} \cup [at : {"enter", "send"}, chat : Chats]
Consumer == {Idle, Stopped} \cup [at : {"limiter", "fetch", "flood"}, chat : Chats]
                            \cup [at : {"save"}, chat : Chats, upto : Nat]
Debt == [upto : Nat, fresh : BOOLEAN]

Types ==
    /\ slot \in [Slots -> Holder]
    /\ queue \in Seq(Chats) /\ Len(queue) <= QueueCap
    /\ inflight \subseteq Chats /\ verified \subseteq Chats /\ waiting \subseteq Chats
    /\ worker \in Consumer
    /\ newest \in [Chats -> Nat] /\ stored \in [Chats -> Nat] /\ shown \in [Chats -> Nat]
    /\ owed \in [Chats -> Debt]

LEMMA TypesSuffice == Types => TypeOK
<1> SUFFICES ASSUME Types PROVE TypeOK
  OBVIOUS
<1>1. \A i \in Slots : slot[i] = Free \/ (slot[i].at \in {"enter", "send"} /\ slot[i].chat \in Chats)
  BY DEF Types, Holder
<1>2. \A c \in Chats : Working(c) => worker.at \in {"limiter", "fetch", "flood", "save"}
  BY DEF Types, Consumer, Working, Idle, Stopped
<1> QED
  BY <1>1, <1>2 DEF Types, TypeOK

LEMMA InitTypes == Init => Types
<1> SUFFICES ASSUME Init PROVE Types
  OBVIOUS
<1>1. slot \in [Slots -> Holder]
  BY DEF Init, Holder
<1>2. queue \in Seq(Chats) /\ Len(queue) <= QueueCap
  BY CapsAssumption DEF Init
<1>3. owed \in [Chats -> Debt]
  BY DEF Init, Debt
<1> QED
  BY <1>1, <1>2, <1>3 DEF Init, Types, Consumer

(* What the worker holds can be told from where it is.                     *)
LEMMA WorkerHolds ==
  ASSUME Types
  PROVE  /\ worker.at \in {"idle", "stopped", "limiter", "fetch", "flood", "save"}
         /\ worker.at \in {"limiter", "fetch", "flood"}
              => worker \in [at : {"limiter", "fetch", "flood"}, chat : Chats]
         /\ worker.at = "save" => worker \in [at : {"save"}, chat : Chats, upto : Nat]
         /\ worker.at \in {"limiter", "fetch", "flood", "save"} => worker.chat \in Chats
         /\ worker.at = "idle" => worker = Idle
<1>1. CASE worker \in {Idle, Stopped}
  BY <1>1 DEF Idle, Stopped
<1>2. CASE worker \in [at : {"limiter", "fetch", "flood"}, chat : Chats]
  BY <1>2
<1>3. CASE worker \in [at : {"save"}, chat : Chats, upto : Nat]
  BY <1>3
<1> QED
  BY <1>1, <1>2, <1>3 DEF Types, Consumer

LEMMA ReleaseTypes ==
  ASSUME Types, worker.at \in {"limiter", "fetch", "flood", "save"}, Release(TRUE) \/ Release(FALSE)
  PROVE  /\ worker' \in Consumer /\ inflight' \subseteq Chats /\ waiting' \subseteq Chats
         /\ owed' \in [Chats -> Debt]
<1>1. worker.chat \in Chats
  BY WorkerHolds
<1>2. [owed[worker.chat] EXCEPT !.upto = 0] \in Debt
  BY <1>1 DEF Types, Debt
<1>3. owed' = [owed EXCEPT ![worker.chat] = [owed[worker.chat] EXCEPT !.upto = 0]]
  BY <1>1 DEF Types, Release
<1> QED
  BY <1>1, <1>2, <1>3 DEF Types, Release, Consumer

LEMMA NextTypes ==
  ASSUME Types, [Next]_vars
  PROVE  Types'
<1> USE DEF vars, line, corpus
<1>1. ASSUME NEW c \in Chats, OnChatOpened(c) PROVE Types'
  <2>1. Held(c, "enter") \in Holder
    BY DEF Held, Holder
  <2>2. slot' \in [Slots -> Holder] /\ waiting' \subseteq Chats
    BY <1>1, <2>1 DEF OnChatOpened, Types
  <2> QED  BY <1>1, <2>2 DEF OnChatOpened, Types
<1>2. ASSUME NEW i \in Slots, EnqueueMarks(i) PROVE Types'
  <2>1. slot[i].chat \in Chats
    BY <1>2 DEF EnqueueMarks, Types, Holder, Free
  <2>2. Held(slot[i].chat, "send") \in Holder /\ Free \in Holder
    BY <2>1 DEF Held, Holder
  <2>3. [upto |-> newest[slot[i].chat], fresh |-> slot[i].chat \notin verified] \in Debt
    BY <2>1 DEF Types, Debt
  <2>4. slot' \in [Slots -> Holder] /\ inflight' \subseteq Chats /\ owed' \in [Chats -> Debt]
    <3> DEFINE c == slot[i].chat
               debt == [upto |-> newest[c], fresh |-> c \notin verified]
    <3>1. CASE c \in inflight
      BY <1>2, <2>2, <3>1 DEF EnqueueMarks, Types
    <3>2. CASE c \notin inflight
      <4>1. slot' = [slot EXCEPT ![i] = Held(c, "send")] /\ inflight' = inflight \cup {c}
            /\ owed' = [owed EXCEPT ![c] = debt]
        BY <1>2, <3>2 DEF EnqueueMarks
      <4> QED  BY <2>1, <2>2, <2>3, <4>1 DEF Types
    <3> QED  BY <3>1, <3>2
  <2> QED  BY <1>2, <2>4 DEF EnqueueMarks, Types
<1>3. ASSUME NEW i \in Slots, EnqueueSends(i) PROVE Types'
  <2>1. slot[i].chat \in Chats
    BY <1>3 DEF EnqueueSends, Types, Holder, Free
  <2>2. queue' \in Seq(Chats) /\ Len(queue') <= QueueCap
    BY <1>3, <2>1, CapsAssumption DEF EnqueueSends, Types
  <2> QED  BY <1>3, <2>2 DEF EnqueueSends, Types, Holder
<1>4. CASE Take
  <2>1. Head(queue) \in Chats /\ queue' \in Seq(Chats) /\ Len(queue') <= QueueCap
    BY <1>4, CapsAssumption DEF Take, Types
  <2>2. worker' \in Consumer
    BY <1>4, <2>1 DEF Take, Held, Consumer
  <2> QED  BY <1>4, <2>1, <2>2 DEF Take, Types
<1>5. CASE LoadInitial
  <2>1. worker.at = "limiter" => [worker EXCEPT !.at = "fetch"] \in Consumer
    BY WorkerHolds DEF Consumer
  <2>2. worker' \in Consumer /\ inflight' \subseteq Chats /\ waiting' \subseteq Chats
        /\ owed' \in [Chats -> Debt]
    BY <1>5, <2>1, ReleaseTypes DEF LoadInitial, Types
  <2> QED  BY <1>5, <2>2 DEF LoadInitial, Types
<1>6. CASE FetchAnswered
  <2>1. worker.chat \in Chats
    BY <1>6, WorkerHolds DEF FetchAnswered
  <2>2. worker' \in Consumer /\ verified' \subseteq Chats
    BY <1>6, <2>1 DEF FetchAnswered, Types, Consumer
  <2> QED  BY <1>6, <2>2 DEF FetchAnswered, Types
<1>7. CASE FetchFailed
  <2>1. worker' \in Consumer /\ inflight' \subseteq Chats /\ waiting' \subseteq Chats
        /\ owed' \in [Chats -> Debt]
    BY <1>7, ReleaseTypes DEF FetchFailed
  <2> QED  BY <1>7, <2>1 DEF FetchFailed, Types
<1>8. CASE FetchFlooded \/ FloodOver
  <2>1. worker.at \in {"fetch", "flood"} =>
          \A at \in {"limiter", "flood"} : [worker EXCEPT !.at = at] \in Consumer
    BY WorkerHolds DEF Consumer
  <2> QED  BY <1>8, <2>1 DEF FetchFlooded, FloodOver, Types
<1>9. CASE Save
  <2>1. worker.chat \in Chats /\ worker.upto \in Nat
    BY <1>9, WorkerHolds DEF Save
  <2>2. stored' \in [Chats -> Nat]
    BY <1>9, <2>1 DEF Save, Types
  <2>3. worker' \in Consumer /\ inflight' \subseteq Chats /\ waiting' \subseteq Chats
        /\ owed' \in [Chats -> Debt]
    <3>1. Release(TRUE) \/ Release(FALSE)
      BY <1>9 DEF Save
    <3> QED  BY <1>9, <3>1, ReleaseTypes DEF Save
  <2> QED  BY <1>9, <2>2, <2>3 DEF Save, Types
<1>10. CASE WorkerStops
  <2>1. worker' \in Consumer /\ inflight' \subseteq Chats /\ waiting' \subseteq Chats
        /\ owed' \in [Chats -> Debt]
    <3>1. CASE worker.at \in {"limiter", "flood"} /\ Release(FALSE)
      BY <3>1, ReleaseTypes
    <3>2. CASE worker = Idle /\ worker' = Stopped /\ UNCHANGED <<inflight, waiting, owed>>
      BY <3>2 DEF Types, Consumer
    <3> QED  BY <1>10, <3>1, <3>2 DEF WorkerStops
  <2> QED  BY <1>10, <2>1 DEF WorkerStops, Types
<1>11. ASSUME NEW c \in Chats, Arrives(c) PROVE Types'
  <2>1. newest' \in [Chats -> Nat] /\ newest'[c] \in Nat
    BY <1>11 DEF Arrives, Types
  <2> QED  BY <1>11, <2>1 DEF Arrives, Types
<1>12. ASSUME NEW c \in Chats, WindowOver(c) PROVE Types'
  BY <1>12 DEF WindowOver, Types
<1>13. CASE Quit
  BY <1>13 DEF Quit, Types
<1>14. CASE UNCHANGED vars
  BY <1>14 DEF Types
<1> QED
  BY <1>1, <1>2, <1>3, <1>4, <1>5, <1>6, <1>7, <1>8, <1>9, <1>10, <1>11, <1>12, <1>13, <1>14
  DEF Next, Enqueueing, Draining, Loading

-----------------------------------------------------------------------------
(***************************************************************************)
(* One request for each chat.                                              *)
(***************************************************************************)
Sending(c) == \E i \in Slots : slot[i] = Held(c, "send")
Queued(c) == \E k \in 1 .. Len(queue) : queue[k] = c

OnePlace ==
    \A c \in Chats :
        /\ \A i, j \in Slots : slot[i] = Held(c, "send") /\ slot[j] = Held(c, "send") => i = j
        /\ \A k, l \in 1 .. Len(queue) : queue[k] = c /\ queue[l] = c => k = l
        /\ ~(Sending(c) /\ Queued(c)) /\ ~(Sending(c) /\ Working(c)) /\ ~(Queued(c) /\ Working(c))
        /\ c \in inflight <=> Sending(c) \/ Queued(c) \/ Working(c)

LEMMA HeldApart ==
  /\ \A c, d : Held(c, "send") = Held(d, "send") => c = d
  /\ \A c, d : Held(c, "enter") # Held(d, "send")
  /\ \A d : Free # Held(d, "send")
  /\ \A c, at : Held(c, at).at = at /\ Held(c, at).chat = c
<1>1. \A c, at : Held(c, at).at = at /\ Held(c, at).chat = c
  BY DEF Held
<1>2. Free.at = "free"
  BY DEF Free
<1> QED
  BY <1>1, <1>2

LEMMA SlotIs ==
  ASSUME Types, NEW i \in Slots, slot[i].at = "send"
  PROVE  slot[i] = Held(slot[i].chat, "send") /\ slot[i].chat \in Chats
  BY DEF Types, Holder, Free, Held

(* With the same requests in slots and queue and the worker at the same    *)
(* chat nothing has moved.                                                 *)
LEMMA NothingMoves ==
  ASSUME OnePlace, UNCHANGED <<queue, inflight>>,
         \A c \in Chats, i \in Slots : slot'[i] = Held(c, "send") <=> slot[i] = Held(c, "send"),
         \A c \in Chats : Working(c)' <=> Working(c)
  PROVE  OnePlace'
<1>1. \A c \in Chats : Sending(c)' <=> Sending(c)
  BY DEF Sending
<1>2. \A c \in Chats : Queued(c)' <=> Queued(c)
  BY DEF Queued
<1> QED
  BY <1>1, <1>2 DEF OnePlace

LEMMA MarksOnePlace ==
  ASSUME Types, OnePlace, NEW i \in Slots, EnqueueMarks(i)
  PROVE  OnePlace'
<1> DEFINE c == slot[i].chat
<1>a. c \in Chats /\ slot[i] # Free /\ slot \in [Slots -> Holder]
  BY DEF EnqueueMarks, Types, Holder, Free
<1>b. \A d : slot[i] # Held(d, "send")
  BY HeldApart DEF EnqueueMarks
<1>1. CASE c \in inflight
  <2>1. slot' = [slot EXCEPT ![i] = Free] /\ UNCHANGED <<queue, inflight, worker>>
    BY <1>1 DEF EnqueueMarks
  <2>2. \A d \in Chats, j \in Slots : slot'[j] = Held(d, "send") <=> slot[j] = Held(d, "send")
    BY <1>a, <1>b, <2>1, HeldApart
  <2> QED  BY <2>1, <2>2, NothingMoves DEF Working
<1>2. CASE c \notin inflight
  <2>1. /\ slot' = [slot EXCEPT ![i] = Held(c, "send")]
        /\ inflight' = inflight \cup {c} /\ UNCHANGED <<queue, worker>>
    BY <1>2 DEF EnqueueMarks
  <2>2. \A j \in Slots : slot'[j] = IF j = i THEN Held(c, "send") ELSE slot[j]
    BY <1>a, <2>1
  <2> HIDE DEF c
  <2> SUFFICES ASSUME NEW d \in Chats
      PROVE  /\ \A j, k \in Slots : slot'[j] = Held(d, "send") /\ slot'[k] = Held(d, "send") => j = k
             /\ \A k, l \in 1 .. Len(queue') : queue'[k] = d /\ queue'[l] = d => k = l
             /\ ~(Sending(d)' /\ Queued(d)') /\ ~(Sending(d)' /\ Working(d)')
             /\ ~(Queued(d)' /\ Working(d)')
             /\ d \in inflight' <=> Sending(d)' \/ Queued(d)' \/ Working(d)'
    BY DEF OnePlace
  <2>3. (Queued(d)' <=> Queued(d)) /\ (Working(d)' <=> Working(d))
    BY <2>1 DEF Queued, Working
  <2>4. CASE d = c
    <3>1. ~Sending(d) /\ ~Queued(d) /\ ~Working(d)
      BY <1>2, <2>4 DEF OnePlace
    <3>2. Sending(d)'
      BY <2>2, <2>4 DEF Sending
    <3>3. \A j \in Slots : slot'[j] = Held(d, "send") => j = i
      BY <2>2, <3>1 DEF Sending
    <3> QED  BY <2>1, <2>3, <2>4, <3>1, <3>2, <3>3 DEF OnePlace
  <2>5. CASE d # c
    <3>1. \A j \in Slots : slot'[j] = Held(d, "send") <=> slot[j] = Held(d, "send")
      BY <1>b, <2>2, <2>5, HeldApart
    <3>2. Sending(d)' <=> Sending(d)
      BY <3>1 DEF Sending
    <3> QED  BY <2>1, <2>3, <2>5, <3>1, <3>2 DEF OnePlace
  <2> QED  BY <2>4, <2>5
<1> QED
  BY <1>1, <1>2

LEMMA SendsOnePlace ==
  ASSUME Types, OnePlace, NEW i \in Slots, EnqueueSends(i)
  PROVE  OnePlace'
<1> DEFINE c == slot[i].chat
           n == Len(queue)
<1>a. c \in Chats /\ slot[i] = Held(c, "send") /\ slot \in [Slots -> Holder]
      /\ queue \in Seq(Chats) /\ n \in Nat
  BY SlotIs DEF EnqueueSends, Types
<1>1. slot' = [slot EXCEPT ![i] = Free] /\ queue' = Append(queue, c) /\ UNCHANGED <<inflight, worker>>
  BY DEF EnqueueSends
<1>2. \A j \in Slots : slot'[j] = IF j = i THEN Free ELSE slot[j]
  BY <1>a, <1>1
<1>3. Len(queue') = n + 1 /\ queue'[n + 1] = c /\ \A k \in 1 .. n : queue'[k] = queue[k]
  BY <1>a, <1>1
<1> HIDE DEF c
<1> SUFFICES ASSUME NEW d \in Chats
    PROVE  /\ \A j, k \in Slots : slot'[j] = Held(d, "send") /\ slot'[k] = Held(d, "send") => j = k
           /\ \A k, l \in 1 .. Len(queue') : queue'[k] = d /\ queue'[l] = d => k = l
           /\ ~(Sending(d)' /\ Queued(d)') /\ ~(Sending(d)' /\ Working(d)')
           /\ ~(Queued(d)' /\ Working(d)')
           /\ d \in inflight' <=> Sending(d)' \/ Queued(d)' \/ Working(d)'
  BY DEF OnePlace
<1>4. Working(d)' <=> Working(d)
  BY <1>1 DEF Working
<1>5. CASE d = c
  <2>1. Sending(d) /\ ~Queued(d) /\ ~Working(d) /\ d \in inflight
    BY <1>a, <1>5 DEF OnePlace, Sending
  <2>2. \A j \in Slots : slot'[j] # Held(d, "send")
    BY <1>a, <1>2, <1>5, HeldApart DEF OnePlace
  <2>3. \A k \in 1 .. Len(queue') : queue'[k] = d => k = n + 1
    BY <1>a, <1>3, <2>1 DEF Queued
  <2>4. Queued(d)' /\ ~Sending(d)'
    BY <1>a, <1>3, <1>5, <2>2 DEF Queued, Sending
  <2> QED  BY <1>1, <1>4, <2>1, <2>2, <2>3, <2>4
<1>6. CASE d # c
  <2>1. \A j \in Slots : slot'[j] = Held(d, "send") <=> slot[j] = Held(d, "send")
    BY <1>a, <1>2, <1>6, HeldApart
  <2>2. Sending(d)' <=> Sending(d)
    BY <2>1 DEF Sending
  <2>3. \A k \in 1 .. Len(queue') : queue'[k] = d => k \in 1 .. n /\ queue[k] = d
    BY <1>a, <1>3, <1>6
  <2>4. Queued(d)' <=> Queued(d)
    BY <1>a, <1>3, <2>3 DEF Queued
  <2> QED  BY <1>1, <1>4, <2>1, <2>2, <2>3, <2>4 DEF OnePlace
<1> QED
  BY <1>5, <1>6

LEMMA TakeOnePlace ==
  ASSUME Types, OnePlace, Take
  PROVE  OnePlace'
<1> DEFINE c == Head(queue)
           n == Len(queue)
<1>a. queue \in Seq(Chats) /\ queue # <<>> /\ n \in Nat /\ n > 0 /\ c = queue[1] /\ c \in Chats
  BY DEF Take, Types
<1>1. worker = Idle /\ worker' = Held(c, "limiter") /\ queue' = Tail(queue) /\ UNCHANGED <<slot, inflight>>
  BY DEF Take
<1>2. Len(queue') = n - 1 /\ \A k \in 1 .. n - 1 : queue'[k] = queue[k + 1]
  BY <1>a, <1>1
<1> HIDE DEF c
<1>3. \A d : ~Working(d) /\ (Working(d)' <=> d = c)
  BY <1>1, HeldApart DEF Working, Idle
<1> SUFFICES ASSUME NEW d \in Chats
    PROVE  /\ \A j, k \in Slots : slot'[j] = Held(d, "send") /\ slot'[k] = Held(d, "send") => j = k
           /\ \A k, l \in 1 .. Len(queue') : queue'[k] = d /\ queue'[l] = d => k = l
           /\ ~(Sending(d)' /\ Queued(d)') /\ ~(Sending(d)' /\ Working(d)')
           /\ ~(Queued(d)' /\ Working(d)')
           /\ d \in inflight' <=> Sending(d)' \/ Queued(d)' \/ Working(d)'
  BY DEF OnePlace
<1>4. Sending(d)' <=> Sending(d)
  BY <1>1 DEF Sending
<1>5. \A k \in 1 .. Len(queue') : k + 1 \in 1 .. n /\ k + 1 # 1 /\ queue'[k] = queue[k + 1]
  BY <1>a, <1>2
<1>6. \A k, l \in 1 .. Len(queue') : queue'[k] = d /\ queue'[l] = d => k = l
  <2> SUFFICES ASSUME NEW k \in 1 .. Len(queue'), NEW l \in 1 .. Len(queue'),
                      queue'[k] = d, queue'[l] = d
               PROVE  k = l
    OBVIOUS
  <2>1. k + 1 = l + 1
    BY <1>5 DEF OnePlace
  <2> QED  BY <2>1, <1>a, <1>2
<1>7. CASE d = c
  <2>1. Queued(d)
    BY <1>a, <1>7 DEF Queued
  <2>2. ~Queued(d)'
    BY <1>a, <1>5, <1>7 DEF Queued, OnePlace
  <2> QED  BY <1>1, <1>3, <1>4, <1>6, <1>7, <2>1, <2>2 DEF OnePlace
<1>8. CASE d # c
  <2>1. Queued(d) => Queued(d)'
    <3> SUFFICES ASSUME NEW k \in 1 .. n, queue[k] = d PROVE Queued(d)'
      BY DEF Queued
    <3>1. k - 1 \in 1 .. n - 1 /\ queue'[k - 1] = queue[(k - 1) + 1] /\ (k - 1) + 1 = k
      BY <1>a, <1>2, <1>8
    <3> QED  BY <1>2, <3>1 DEF Queued
  <2>2. Queued(d)' => Queued(d)
    BY <1>5 DEF Queued
  <2> QED  BY <1>1, <1>3, <1>4, <1>6, <1>8, <2>1, <2>2 DEF OnePlace
<1> QED
  BY <1>7, <1>8

LEMMA ReleaseOnePlace ==
  ASSUME Types, OnePlace, worker.at \in {"limiter", "fetch", "flood", "save"},
         Release(TRUE) \/ Release(FALSE), UNCHANGED <<slot, queue>>
  PROVE  OnePlace'
<1>1. Working(worker.chat) /\ worker' = Idle /\ inflight' = inflight \ {worker.chat}
      /\ \A d : Working(d) <=> d = worker.chat
  BY DEF Release, Working
<1>2. \A d : ~Working(d)'
  BY <1>1 DEF Working, Idle
<1>3. \A d \in Chats : (Sending(d)' <=> Sending(d)) /\ (Queued(d)' <=> Queued(d))
  BY DEF Sending, Queued
<1> QED
  BY <1>1, <1>2, <1>3 DEF OnePlace

(* Every step: the goroutines, the worker, and what goes on around them.   *)
LEMMA NextOnePlace ==
  ASSUME Types, OnePlace, [Next]_vars
  PROVE  OnePlace'
<1> USE DEF vars, line, corpus
<1>1. ASSUME NEW c \in Chats, OnChatOpened(c) PROVE OnePlace'
  <2>1. \A d : \A i \in Slots : slot'[i] = Held(d, "send") <=> slot[i] = Held(d, "send")
    BY <1>1, HeldApart DEF OnChatOpened, Types
  <2> QED  BY <1>1, <2>1, NothingMoves DEF OnChatOpened, Working
<1>2. ASSUME NEW i \in Slots, EnqueueMarks(i) \/ EnqueueSends(i) PROVE OnePlace'
  BY <1>2, MarksOnePlace, SendsOnePlace
<1>3. CASE Take
  BY <1>3, TakeOnePlace
<1>4. CASE LoadInitial
  <2>1. CASE worker' = [worker EXCEPT !.at = "fetch"] /\ UNCHANGED <<inflight, waiting, owed>>
    <3>1. worker'.at = "fetch" /\ worker'.chat = worker.chat
      BY <1>4, <2>1, WorkerHolds DEF LoadInitial
    <3> QED  BY <1>4, <2>1, <3>1, NothingMoves DEF LoadInitial, Working
  <2>2. CASE Release(TRUE) \/ Release(FALSE)
    BY <1>4, <2>2, ReleaseOnePlace DEF LoadInitial
  <2> QED  BY <1>4, <2>1, <2>2 DEF LoadInitial
<1>5. CASE FetchAnswered \/ FetchFlooded \/ FloodOver
  <2>1. worker.at \in {"fetch", "flood"}
    BY <1>5 DEF FetchAnswered, FetchFlooded, FloodOver
  <2>2. worker'.at \notin {"idle", "stopped"} /\ worker'.chat = worker.chat
    BY <1>5, <2>1, WorkerHolds DEF FetchAnswered, FetchFlooded, FloodOver
  <2> QED
    BY <1>5, <2>1, <2>2, NothingMoves DEF FetchAnswered, FetchFlooded, FloodOver, Working
<1>6. CASE FetchFailed \/ Save
  BY <1>6, ReleaseOnePlace DEF FetchFailed, Save
<1>7. CASE WorkerStops
  <2>1. CASE worker.at \in {"limiter", "flood"} /\ Release(FALSE)
    BY <1>7, <2>1, ReleaseOnePlace DEF WorkerStops
  <2>2. CASE worker = Idle /\ worker' = Stopped /\ UNCHANGED <<inflight, waiting, owed>>
    BY <1>7, <2>2, NothingMoves DEF WorkerStops, Working, Idle, Stopped
  <2> QED  BY <1>7, <2>1, <2>2 DEF WorkerStops
<1>8. ASSUME NEW c \in Chats, Arrives(c) \/ WindowOver(c) PROVE OnePlace'
  BY <1>8, NothingMoves DEF Arrives, WindowOver, Working
<1>9. CASE Quit \/ UNCHANGED vars
  BY <1>9, NothingMoves DEF Quit, Working
<1> QED
  BY <1>1, <1>2, <1>3, <1>4, <1>5, <1>6, <1>7, <1>8, <1>9
  DEF Next, Enqueueing, Draining, Loading

LEMMA InitOnePlace == Init => OnePlace
<1> SUFFICES ASSUME Init PROVE OnePlace
  OBVIOUS
<1>1. \A i \in Slots, c \in Chats : slot[i] # Held(c, "send")
  BY HeldApart DEF Init
<1>2. Len(queue) = 0 /\ \A c \in Chats : ~Working(c)
  BY DEF Init, Working, Idle
<1> QED
  BY <1>1, <1>2 DEF OnePlace, Sending, Queued, Init

(* The counts of OneRequestPerChat are those of sets of at most one.       *)
LEMMA CountAtMostOne ==
  ASSUME NEW S, \A x, y \in S : x = y
  PROVE  Cardinality(S) = IF S = {} THEN 0 ELSE 1
<1>1. CASE S = {}
  BY <1>1, FS_EmptySet
<1>2. CASE S # {}
  <2>1. PICK x : x \in S
    BY <1>2
  <2>2. S = {x}
    BY <2>1
  <2> QED  BY <2>2, FS_Singleton
<1> QED
  BY <1>1, <1>2

LEMMA OnePlaceCounts ==
  ASSUME Types, OnePlace
  PROVE  OneRequestPerChat
<1> SUFFICES ASSUME NEW c \in Chats
    PROVE  Cardinality({i \in Slots : slot[i] = Held(c, "send")})
             + Cardinality({k \in DOMAIN queue : queue[k] = c})
             + (IF Working(c) THEN 1 ELSE 0)
           = (IF c \in inflight THEN 1 ELSE 0)
  BY DEF OneRequestPerChat
<1> DEFINE S == {i \in Slots : slot[i] = Held(c, "send")}
           Q == {k \in DOMAIN queue : queue[k] = c}
<1>1. DOMAIN queue = 1 .. Len(queue)
  BY DEF Types
<1>2. (\A x, y \in S : x = y) /\ (\A x, y \in Q : x = y)
  BY <1>1 DEF OnePlace
<1>3. (S # {} <=> Sending(c)) /\ (Q # {} <=> Queued(c))
  BY <1>1 DEF Sending, Queued
<1>4. /\ ~(Sending(c) /\ Queued(c)) /\ ~(Sending(c) /\ Working(c)) /\ ~(Queued(c) /\ Working(c))
      /\ c \in inflight <=> Sending(c) \/ Queued(c) \/ Working(c)
  BY DEF OnePlace
<1>5. /\ Cardinality(S) = IF Sending(c) THEN 1 ELSE 0
      /\ Cardinality(Q) = IF Queued(c) THEN 1 ELSE 0
  <2> HIDE DEF S, Q
  <2> QED  BY <1>2, <1>3, CountAtMostOne
<1> HIDE DEF S, Q
<1>6. Cardinality(S) + Cardinality(Q) + (IF Working(c) THEN 1 ELSE 0)
        = (IF c \in inflight THEN 1 ELSE 0)
  BY <1>4, <1>5
<1> QED
  BY <1>6 DEF S, Q

(* A chat is in the in-flight set exactly while one request for it is on   *)
(* its way to the queue, in it, or served: it is never fetched twice at    *)
(* once and never left unable to ask again (Enqueue, process).             *)
THEOREM RequestsAreOwned == Spec => []FetchingIsOwned
<1>1. Init => Types /\ OnePlace
  BY InitTypes, InitOnePlace
<1>2. Types /\ OnePlace /\ [Next]_vars => Types' /\ OnePlace'
  BY NextTypes, NextOnePlace
<1>3. Types /\ OnePlace => FetchingIsOwned
  BY TypesSuffice, OnePlaceCounts DEF FetchingIsOwned
<1> QED
  BY <1>1, <1>2, <1>3, PTL DEF Spec

-----------------------------------------------------------------------------
(***************************************************************************)
(* What an answered request leaves in the mirror.                          *)
(***************************************************************************)
OwedIsAhead ==
    \A c \in Chats :
        /\ owed[c].upto <= newest[c]
        /\ owed[c].upto > 0 => c \in inflight
        /\ owed[c].upto > 0 /\ owed[c].fresh /\ c \in verified
             => worker.at = "save" /\ worker.chat = c
        /\ worker.at = "save" /\ worker.chat = c => owed[c].upto <= worker.upto

LEMMA InitOwed == Init => OwedIsAhead
  BY DEF Init, OwedIsAhead, Idle

LEMMA NextOwed ==
  ASSUME Types, OnePlace, OwedIsAhead, [Next]_vars
  PROVE  OwedIsAhead'
<1> USE DEF vars, line, corpus
<1>t. newest \in [Chats -> Nat] /\ owed \in [Chats -> Debt] /\ \A c \in Chats : owed[c].upto \in Nat
  BY DEF Types, Debt
<1>1. ASSUME NEW c \in Chats, OnChatOpened(c) PROVE OwedIsAhead'
  BY <1>1 DEF OnChatOpened, OwedIsAhead
<1>2. ASSUME NEW i \in Slots, EnqueueMarks(i) PROVE OwedIsAhead'
  <2> DEFINE c == slot[i].chat
  <2>1. CASE c \in inflight
    BY <1>2, <2>1 DEF EnqueueMarks, OwedIsAhead
  <2>2. CASE c \notin inflight
    <3>1. /\ owed' = [owed EXCEPT ![c] = [upto |-> newest[c], fresh |-> c \notin verified]]
          /\ inflight' = inflight \cup {c} /\ UNCHANGED <<worker, verified, newest>>
      BY <1>2, <2>2 DEF EnqueueMarks
    <3>2. c \in Chats
      BY <1>2 DEF EnqueueMarks, Types, Holder, Free
    <3>3. ~(worker.at = "save" /\ worker.chat = c)
      BY <2>2, <3>2 DEF OnePlace, Working
    <3> HIDE DEF c
    <3>4. owed'[c].upto = newest[c] /\ (owed'[c].fresh => c \notin verified)
      BY <3>1, <3>2, <1>t
    <3>5. \A d \in Chats : d # c => owed'[d] = owed[d]
      BY <3>1, <1>t
    <3> SUFFICES ASSUME NEW d \in Chats
        PROVE  /\ owed'[d].upto <= newest'[d]
               /\ owed'[d].upto > 0 => d \in inflight'
               /\ owed'[d].upto > 0 /\ owed'[d].fresh /\ d \in verified'
                    => worker'.at = "save" /\ worker'.chat = d
               /\ worker'.at = "save" /\ worker'.chat = d => owed'[d].upto <= worker'.upto
      BY DEF OwedIsAhead
    <3>6. CASE d = c
      BY <3>1, <3>3, <3>4, <3>6, <1>t
    <3>7. CASE d # c
      BY <3>1, <3>5, <3>7 DEF OwedIsAhead
    <3> QED  BY <3>6, <3>7
  <2> QED  BY <2>1, <2>2
<1>3. ASSUME NEW i \in Slots, EnqueueSends(i) PROVE OwedIsAhead'
  BY <1>3 DEF EnqueueSends, OwedIsAhead
<1>4. CASE Take
  BY <1>4 DEF Take, OwedIsAhead, Idle, Held
<1>5. ASSUME worker.at \in {"limiter", "fetch", "flood", "save"},
             Release(TRUE) \/ Release(FALSE), UNCHANGED <<verified, newest>>
      PROVE  OwedIsAhead'
  <2>1. worker.chat \in Chats
    BY <1>5, WorkerHolds
  <2>2. /\ worker' = Idle /\ inflight' = inflight \ {worker.chat}
        /\ owed'[worker.chat].upto = 0
        /\ \A c \in Chats : c # worker.chat => owed'[c] = owed[c]
    BY <1>5, <2>1, <1>t DEF Release, Debt
  <2>3. worker'.at = "idle"
    BY <2>2 DEF Idle
  <2> QED  BY <1>5, <2>1, <2>2, <2>3, <1>t DEF OwedIsAhead
<1>6. CASE LoadInitial
  <2>1. CASE worker' = [worker EXCEPT !.at = "fetch"] /\ UNCHANGED <<inflight, waiting, owed>>
    <3>1. worker'.at = "fetch" /\ worker.at = "limiter"
      BY <1>6, <2>1, WorkerHolds DEF LoadInitial
    <3> QED  BY <1>6, <2>1, <3>1 DEF LoadInitial, OwedIsAhead
  <2>2. CASE Release(TRUE) \/ Release(FALSE)
    BY <1>6, <2>2, <1>5 DEF LoadInitial
  <2> QED  BY <1>6, <2>1, <2>2 DEF LoadInitial
<1>7. CASE FetchAnswered
  <2>1. /\ worker'.at = "save" /\ worker'.chat = worker.chat /\ worker'.upto = newest[worker.chat]
        /\ verified' = verified \cup {worker.chat} /\ worker.at = "fetch"
        /\ UNCHANGED <<owed, newest, inflight>>
    BY <1>7 DEF FetchAnswered
  <2> QED  BY <2>1 DEF OwedIsAhead
<1>8. CASE FetchFailed \/ Save
  BY <1>8, <1>5 DEF FetchFailed, Save
<1>9. CASE FetchFlooded \/ FloodOver
  <2>1. worker.at \in {"fetch", "flood"} /\ worker'.at \in {"limiter", "flood"}
    BY <1>9, WorkerHolds DEF FetchFlooded, FloodOver
  <2> QED  BY <1>9, <2>1 DEF FetchFlooded, FloodOver, OwedIsAhead
<1>10. CASE WorkerStops
  <2>1. CASE worker.at \in {"limiter", "flood"} /\ Release(FALSE)
    BY <1>10, <2>1, <1>5 DEF WorkerStops
  <2>2. CASE worker = Idle /\ worker' = Stopped /\ UNCHANGED <<inflight, waiting, owed>>
    BY <1>10, <2>2 DEF WorkerStops, OwedIsAhead, Idle, Stopped
  <2> QED  BY <1>10, <2>1, <2>2 DEF WorkerStops
<1>11. ASSUME NEW c \in Chats, Arrives(c) PROVE OwedIsAhead'
  <2>1. UNCHANGED <<inflight, worker, verified, owed>> /\ newest' = [newest EXCEPT ![c] = newest[c] + 1]
    BY <1>11 DEF Arrives
  <2>2. \A d \in Chats : newest'[d] \in Nat /\ newest[d] <= newest'[d]
    BY <2>1, <1>t
  <2> QED  BY <2>1, <2>2, <1>t DEF OwedIsAhead
<1>12. ASSUME NEW c \in Chats, WindowOver(c) PROVE OwedIsAhead'
  BY <1>12 DEF WindowOver, OwedIsAhead
<1>13. CASE Quit \/ UNCHANGED vars
  BY <1>13 DEF Quit, OwedIsAhead
<1> QED
  BY <1>1, <1>2, <1>3, <1>4, <1>6, <1>7, <1>8, <1>9, <1>10, <1>11, <1>12, <1>13
  DEF Next, Enqueueing, Draining, Loading

LEMMA AnswerCatchesUp ==
  ASSUME Types, OnePlace, OwedIsAhead, [Next]_vars
  PROVE  CaughtUpOutsideWindow
<1> SUFFICES ASSUME NEW c \in Chats,
                    owed[c].upto > 0, owed'[c].upto = 0, owed[c].fresh,
                    worker.at \in {"limiter", "save"}, alive, c \notin Unaddressed
             PROVE  stored'[c] >= owed[c].upto \/ (worker.at = "save" /\ UNCHANGED stored)
  BY DEF CaughtUpOutsideWindow
<1>a. owed \in [Chats -> Debt] /\ stored \in [Chats -> Nat] /\ owed[c].upto \in Nat /\ c \in inflight
  BY DEF Types, Debt, OwedIsAhead
<1>1. ~UNCHANGED owed /\ Next
  <2>1. ~UNCHANGED owed
    OBVIOUS
  <2> QED  BY <2>1 DEF vars
<1>2. \A i \in Slots : ~EnqueueMarks(i)
  <2> SUFFICES ASSUME NEW i \in Slots, EnqueueMarks(i) PROVE FALSE
    OBVIOUS
  <2>1. slot[i].chat # c
    BY <1>1, <1>a DEF EnqueueMarks
  <2> QED  BY <2>1, <1>a DEF EnqueueMarks
<1>3. LoadInitial \/ Save
  BY <1>1, <1>2 DEF Next, Enqueueing, Draining, Loading, OnChatOpened, Arrives, WindowOver,
     EnqueueSends, Take, FetchAnswered, FetchFailed, FetchFlooded, FloodOver, WorkerStops,
     Quit, Idle
<1>4. (Release(TRUE) \/ Release(FALSE)) /\ worker.chat \in Chats
  BY <1>1, <1>3, WorkerHolds DEF LoadInitial, Save
<1>5. worker.chat = c
  BY <1>4, <1>a DEF Release
<1>6. CASE LoadInitial
  <2>1. CacheIsCurrent(c) /\ worker.at = "limiter"
    BY <1>1, <1>5, <1>6 DEF LoadInitial
  <2> QED  BY <2>1 DEF CacheIsCurrent, OwedIsAhead
<1>7. CASE Save
  <2>1. worker.at = "save" /\ worker.upto \in Nat /\ owed[c].upto <= worker.upto
    BY <1>5, <1>7, WorkerHolds DEF Save, OwedIsAhead
  <2>2. CASE stored' = [stored EXCEPT ![c] = IF stored[c] < worker.upto THEN worker.upto ELSE stored[c]]
    BY <2>1, <2>2, <1>a
  <2>3. CASE UNCHANGED stored
    BY <2>1, <2>3
  <2> QED  BY <1>5, <1>7, <2>2, <2>3 DEF Save
<1> QED  BY <1>3, <1>6, <1>7

(* A request accepted after the chat's last verdict expired cannot be      *)
(* answered from the mirror alone: its answer brings what the server held  *)
(* when it was accepted, or its save failed (cacheIsCurrent, LoadInitial). *)
THEOREM AnswersCatchUp == Spec => [][CaughtUpOutsideWindow]_vars
<1>1. Types /\ OnePlace /\ OwedIsAhead /\ [Next]_vars => [CaughtUpOutsideWindow]_vars
  BY AnswerCatchesUp
<1>2. Init => Types /\ OnePlace /\ OwedIsAhead
  BY InitTypes, InitOnePlace, InitOwed
<1>3. Types /\ OnePlace /\ OwedIsAhead /\ [Next]_vars => Types' /\ OnePlace' /\ OwedIsAhead'
  BY NextTypes, NextOnePlace, NextOwed
<1> QED
  BY <1>1, <1>2, <1>3, PTL DEF Spec

-----------------------------------------------------------------------------
(***************************************************************************)
(* A screen that follows a feed.  What is said about a thing is one of the *)
(* events "about" it, and it is true when it is one of "so"; the screen as *)
(* it is counts as said before the feed.  The last word on the thing is so *)
(* when the latest of these is.                                            *)
(***************************************************************************)
LastWord(screen, feed, about, so) ==
    \/ \E i \in 1 .. Len(feed) : feed[i] \in so /\ \A j \in i + 1 .. Len(feed) : feed[j] \notin about
    \/ screen \in so /\ \A j \in 1 .. Len(feed) : feed[j] \notin about

LEMMA FirstWord ==
  ASSUME NEW screen, NEW about, NEW so
  PROVE  LastWord(screen, <<>>, about, so) <=> screen \in so
BY DEF LastWord

LEMMA TheLastWord ==
  ASSUME NEW S, NEW s \in Seq(S), NEW e \in S, NEW screen, NEW about, NEW so, e \in so
  PROVE  LastWord(screen, Append(s, e), about, so)
<1> DEFINE t == Append(s, e)
<1>1. Len(t) = Len(s) + 1 /\ Len(s) \in Nat /\ t[Len(s) + 1] = e
  OBVIOUS
<1> HIDE DEF t
<1>2. Len(t) \in 1 .. Len(t) /\ t[Len(t)] \in so /\ \A j \in Len(t) + 1 .. Len(t) : t[j] \notin about
  BY <1>1
<1>3. LastWord(screen, t, about, so)
  BY <1>2 DEF LastWord
<1> QED  BY <1>3 DEF t

LEMMA AnotherWord ==
  ASSUME NEW S, NEW s \in Seq(S), NEW e \in S, NEW screen, NEW about, NEW so,
         e \notin about, LastWord(screen, s, about, so)
  PROVE  LastWord(screen, Append(s, e), about, so)
<1> DEFINE t == Append(s, e)
<1>1. Len(t) = Len(s) + 1 /\ Len(s) \in Nat /\ t[Len(s) + 1] = e /\ \A i \in 1 .. Len(s) : t[i] = s[i]
  OBVIOUS
<1> HIDE DEF t
<1>2. \A j \in 1 .. Len(t) : j \in 1 .. Len(s) \/ t[j] = e
  BY <1>1
<1>3. CASE screen \in so /\ \A j \in 1 .. Len(s) : s[j] \notin about
  <2>1. \A j \in 1 .. Len(t) : t[j] \notin about
    BY <1>1, <1>2, <1>3
  <2> QED  BY <1>3, <2>1 DEF LastWord, t
<1>4. CASE \E i \in 1 .. Len(s) : s[i] \in so /\ \A j \in i + 1 .. Len(s) : s[j] \notin about
  <2>1. PICK i \in 1 .. Len(s) : s[i] \in so /\ \A j \in i + 1 .. Len(s) : s[j] \notin about
    BY <1>4
  <2>2. i \in 1 .. Len(t) /\ t[i] \in so
    BY <1>1, <2>1
  <2>3. ASSUME NEW j \in i + 1 .. Len(t) PROVE t[j] \notin about
    <3>1. j \in i + 1 .. Len(s) \/ t[j] = e
      BY <1>1, <2>1, <2>3
    <3>2. CASE j \in i + 1 .. Len(s)
      <4>1. t[j] = s[j]
        BY <1>1, <2>1, <3>2
      <4> QED  BY <2>1, <3>2, <4>1
    <3> QED  BY <3>1, <3>2
  <2> QED  BY <2>2, <2>3 DEF LastWord, t
<1> QED  BY <1>3, <1>4 DEF LastWord

LEMMA WordHandled ==
  ASSUME NEW S, NEW s \in Seq(S), s # <<>>, NEW screen, NEW seen, NEW about, NEW so,
         so \subseteq about, LastWord(screen, s, about, so),
         Head(s) \in about => (Head(s) \in so => seen \in so),
         Head(s) \notin about => (screen \in so => seen \in so)
  PROVE  LastWord(seen, Tail(s), about, so)
<1> DEFINE t == Tail(s)
<1>1. Len(s) \in Nat /\ Len(s) > 0 /\ Len(t) = Len(s) - 1 /\ s[1] = Head(s)
      /\ \A i \in 1 .. Len(t) : t[i] = s[i + 1]
  OBVIOUS
<1> HIDE DEF t
<1>2. \A j \in 1 .. Len(t) : j + 1 \in 1 .. Len(s) /\ t[j] = s[j + 1]
  BY <1>1
<1>3. CASE screen \in so /\ \A j \in 1 .. Len(s) : s[j] \notin about
  <2>1. \A j \in 1 .. Len(t) : t[j] \notin about
    BY <1>2, <1>3
  <2>2. seen \in so
    BY <1>1, <1>3
  <2> QED  BY <2>1, <2>2 DEF LastWord, t
<1>4. ASSUME NEW i \in 1 .. Len(s), s[i] \in so, \A j \in i + 1 .. Len(s) : s[j] \notin about
      PROVE  LastWord(seen, Tail(s), about, so)
  <2>1. CASE i = 1
    <3>1. seen \in so
      BY <1>1, <1>4, <2>1
    <3>2. \A j \in 1 .. Len(t) : t[j] \notin about
      <4> TAKE j \in 1 .. Len(t)
      <4>1. j + 1 \in i + 1 .. Len(s)
        BY <1>1, <2>1
      <4> QED  BY <1>2, <1>4, <4>1
    <3> QED  BY <3>1, <3>2 DEF LastWord, t
  <2>2. CASE i # 1
    <3>1. i - 1 \in 1 .. Len(t) /\ (i - 1) + 1 = i
      BY <1>1, <2>2
    <3>2. t[i - 1] \in so
      BY <1>2, <1>4, <3>1
    <3>3. \A j \in (i - 1) + 1 .. Len(t) : t[j] \notin about
      <4> TAKE j \in (i - 1) + 1 .. Len(t)
      <4>1. j \in 1 .. Len(t) /\ j + 1 \in i + 1 .. Len(s)
        BY <1>1, <3>1
      <4> QED  BY <1>2, <1>4, <4>1
    <3> QED  BY <3>1, <3>2, <3>3 DEF LastWord, t
  <2> QED  BY <2>1, <2>2
<1> QED  BY <1>3, <1>4 DEF LastWord

-----------------------------------------------------------------------------
(***************************************************************************)
(* Downloads and uploads.  A goroutine that streams or renames owns the    *)
(* partial file of its candidate, with its own bytes and nothing else's;   *)
(* while nothing was dropped, the last word on a transfer is whether it is *)
(* under way.                                                              *)
(***************************************************************************)
Places == Names \X (1 .. Attempts)
Streams == [at : {"off", "lookup"}]
              \cup [at : {"probe"}, k : Nat \ {0}]
              \cup [at : {"claim", "stream", "rename", "record"}, k : 1 .. Attempts]
Ids == Files \cup Uploads
Tidings == [kind : {"started", "progress", "ended"}, of : Ids]
AboutId(t) == {e \in Tidings : e.of = t}
Under(t, active) == {e \in AboutId(t) : e.kind # "ended" <=> t \in active}
RowOf(t, live) == [kind |-> IF t \in live THEN "started" ELSE "ended", of |-> t]

TransferTypes ==
    /\ v1 \in [Files -> Streams] /\ v2 = {f \in Files : Transfers!Running(f)}
    /\ v3 \in [Uploads -> {"off", "stream", "send"}]
    /\ v4 \in [Places -> Transfers!Contents] /\ v5 \in [Places -> Transfers!Contents]
    /\ v6 \in [Files -> Places \cup {Transfers!NoPath}]
    /\ v7 \in Seq(Tidings) /\ Len(v7) <= FeedCap
    /\ v8 \subseteq Ids /\ v9 \in BOOLEAN

PartialsOwned ==
    \A f \in Files :
        /\ v1[f].at = "stream" => v5[<<NameOf[f], v1[f].k>>] = {<<f, "some">>}
        /\ v1[f].at = "rename" => v5[<<NameOf[f], v1[f].k>>] = {<<f, "all">>}

RowsFollow ==
    ~v9 => \A t \in Ids : LastWord(RowOf(t, v8), v7, AboutId(t), Under(t, Transfers!Active))

TransfersInv == TransferTypes /\ Transfers!OnlyWholeFiles /\ PartialsOwned /\ RowsFollow

LEMMA InitTransfers == Transfers!Init => TransfersInv
<1> SUFFICES ASSUME Transfers!Init PROVE TransfersInv
  OBVIOUS
<1> USE TransfersAssumption
<1>1. TransferTypes
  <2>1. v1 \in [Files -> Streams] /\ v2 = {f \in Files : Transfers!Running(f)}
    BY DEF Transfers!Init, Transfers!Off, Streams, Transfers!Running
  <2>2. v4 \in [Places -> Transfers!Contents] /\ v5 = v4
    BY DEF Transfers!Init, Transfers!Paths, Places, Transfers!NoFile, Transfers!Contents
  <2>3. v7 \in Seq(Tidings) /\ Len(v7) <= FeedCap
    BY DEF Transfers!Init
  <2> QED  BY <2>1, <2>2, <2>3 DEF Transfers!Init, TransferTypes
<1>2. Transfers!OnlyWholeFiles
  BY DEF Transfers!Init, Transfers!OnlyWholeFiles, Transfers!Paths
<1>3. PartialsOwned
  BY DEF Transfers!Init, Transfers!Off, PartialsOwned
<1>4. RowsFollow
  <2>1. Transfers!Active = {}
    BY DEF Transfers!Init, Transfers!Off, Transfers!Active, Transfers!Sending
  <2>2. \A t \in Ids : RowOf(t, v8) \in Under(t, Transfers!Active)
    BY <2>1 DEF Transfers!Init, RowOf, Under, AboutId, Tidings
  <2>3. v7 = <<>>
    BY DEF Transfers!Init
  <2> QED  BY <2>2, <2>3, FirstWord DEF RowsFollow
<1> QED  BY <1>1, <1>2, <1>3, <1>4 DEF TransfersInv
LEMMA SendsTidings ==
  ASSUME TransferTypes, NEW es \in Seq(Tidings), Transfers!Publish(es)
  PROVE  /\ v7' \in Seq(Tidings) /\ Len(v7') <= FeedCap /\ v9' \in BOOLEAN
         /\ ~v9' => ~v9 /\ v7' = v7 \o es
<1> USE TransfersAssumption
<1>1. v7 \in Seq(Tidings) /\ v9 \in BOOLEAN
  BY DEF TransferTypes
<1>2. CASE Len(v7) + Len(es) <= FeedCap
  <2>1. v7' = v7 \o es /\ v9' = v9
    BY <1>2 DEF Transfers!Publish
  <2>2. v7 \o es \in Seq(Tidings) /\ Len(v7 \o es) = Len(v7) + Len(es)
    BY <1>1
  <2> DEFINE all == v7 \o es
  <2> HIDE DEF all
  <2>3. all \in Seq(Tidings) /\ Len(all) <= FeedCap
    BY <1>2, <2>2 DEF all
  <2>4. v7' = all /\ v9' \in BOOLEAN
    BY <1>1, <2>1 DEF all
  <2>5. ~v9' => ~v9
    BY <2>1
  <2> QED  BY <2>3, <2>4, <2>5 DEF all
<1>3. CASE ~(Len(v7) + Len(es) <= FeedCap)
  <2>1. v7' = SubSeq(v7 \o es, 1, FeedCap) /\ v9' = TRUE
    BY <1>3 DEF Transfers!Publish
  <2>2. v7 \o es \in Seq(Tidings) /\ Len(v7 \o es) > FeedCap
    BY <1>1, <1>3
  <2> DEFINE all == v7 \o es
  <2> HIDE DEF all
  <2>3. SubSeq(all, 1, FeedCap) \in Seq(Tidings) /\ Len(SubSeq(all, 1, FeedCap)) = FeedCap
    BY <2>2 DEF all
  <2>4. v7' = SubSeq(all, 1, FeedCap) /\ v9' \in BOOLEAN
    BY <2>1 DEF all
  <2>5. ~v9' => FALSE
    BY <2>1
  <2>6. v7' \in Seq(Tidings) /\ Len(v7') <= FeedCap
    BY <2>3, <2>4
  <2> QED  BY <2>4, <2>5, <2>6
<1> QED  BY <1>2, <1>3

LEMMA EventIs ==
  ASSUME NEW t \in Ids, NEW kind \in {"started", "progress", "ended"}
  PROVE  /\ Transfers!Ev(kind, t) \in Tidings
         /\ Transfers!Ev(kind, t).of = t /\ Transfers!Ev(kind, t).kind = kind
BY DEF Transfers!Ev, Tidings

(* Nothing is said and nothing starts or ends.                             *)
LEMMA RowsUndisturbed ==
  ASSUME RowsFollow, UNCHANGED <<v7, v8, v9>>, Transfers!Active' = Transfers!Active
  PROVE  RowsFollow'
<1>1. v7' = v7 /\ v8' = v8 /\ v9' = v9
  OBVIOUS
<1>2. SUFFICES ASSUME ~v9', NEW t \in Ids
               PROVE  LastWord(RowOf(t, v8'), v7', AboutId(t), Under(t, Transfers!Active'))
  BY DEF RowsFollow
<1>3. LastWord(RowOf(t, v8), v7, AboutId(t), Under(t, Transfers!Active))
  BY <1>1, <1>2 DEF RowsFollow
<1> QED  BY <1>1, <1>3

(* What happens to a transfer is said of it.                               *)
LEMMA RowsTold ==
  ASSUME TransferTypes, RowsFollow, NEW x \in Ids, NEW kind \in {"started", "progress", "ended"},
         Transfers!Publish(<<Transfers!Ev(kind, x)>>), v8' = v8,
         kind # "ended" <=> x \in Transfers!Active',
         \A t \in Ids \ {x} : t \in Transfers!Active' <=> t \in Transfers!Active
  PROVE  RowsFollow'
<1> DEFINE e == Transfers!Ev(kind, x)
           A == Transfers!Active
           B == Transfers!Active'
<1>1. e \in Tidings /\ e.of = x /\ e.kind = kind
  BY EventIs
<1>a. kind # "ended" <=> x \in B
  OBVIOUS
<1>b. \A t \in Ids \ {x} : t \in B <=> t \in A
  OBVIOUS
<1>c. Transfers!Publish(<<e>>) /\ v7 \in Seq(Tidings)
  BY DEF TransferTypes
<1>d. ~v9 => \A t \in Ids : LastWord(RowOf(t, v8), v7, AboutId(t), Under(t, A))
  BY DEF RowsFollow
<1>e. SUFFICES ~v9' => \A t \in Ids : LastWord(RowOf(t, v8), v7', AboutId(t), Under(t, B))
  BY DEF RowsFollow
<1> HIDE DEF e, A, B
<1>2. SUFFICES ASSUME ~v9', NEW t \in Ids
               PROVE  LastWord(RowOf(t, v8), v7', AboutId(t), Under(t, B))
  OBVIOUS
<1>3. ~v9 /\ v7' = Append(v7, e)
  <2>1. <<e>> \in Seq(Tidings) /\ v7 \o <<e>> = Append(v7, e)
    BY <1>1, <1>c
  <2> QED  BY <2>1, <1>2, <1>c, SendsTidings
<1>4. CASE t = x
  <2>1. e \in Under(t, B)
    BY <1>1, <1>4, <1>a DEF Under, AboutId
  <2> QED  BY <2>1, <1>1, <1>3, <1>c, TheLastWord
<1>5. CASE t # x
  <2>1. e \notin AboutId(t) /\ Under(t, B) = Under(t, A)
    BY <1>1, <1>5, <1>b DEF Under, AboutId
  <2> QED  BY <2>1, <1>1, <1>3, <1>c, <1>d, AnotherWord
<1> QED  BY <1>4, <1>5

(* A download answered from the disk starts and ends in one breath.        *)
LEMMA RowsToldTwice ==
  ASSUME TransferTypes, RowsFollow, NEW x \in Ids,
         Transfers!Publish(<<Transfers!Ev("started", x), Transfers!Ev("ended", x)>>), v8' = v8,
         x \notin Transfers!Active, Transfers!Active' = Transfers!Active
  PROVE  RowsFollow'
<1> DEFINE e == Transfers!Ev("started", x)
           d == Transfers!Ev("ended", x)
           A == Transfers!Active
           B == Transfers!Active'
<1>1. e \in Tidings /\ e.of = x /\ d \in Tidings /\ d.of = x /\ d.kind = "ended"
  BY EventIs
<1>a. x \notin A /\ B = A
  OBVIOUS
<1>c. Transfers!Publish(<<e, d>>) /\ v7 \in Seq(Tidings)
  BY DEF TransferTypes
<1>d. ~v9 => \A t \in Ids : LastWord(RowOf(t, v8), v7, AboutId(t), Under(t, A))
  BY DEF RowsFollow
<1>e. SUFFICES ~v9' => \A t \in Ids : LastWord(RowOf(t, v8), v7', AboutId(t), Under(t, B))
  BY DEF RowsFollow
<1> HIDE DEF e, d, A, B
<1>2. SUFFICES ASSUME ~v9', NEW t \in Ids
               PROVE  LastWord(RowOf(t, v8), v7', AboutId(t), Under(t, A))
  BY <1>a
<1>3. ~v9 /\ v7' = Append(Append(v7, e), d) /\ Append(v7, e) \in Seq(Tidings)
  <2>1. <<e, d>> \in Seq(Tidings) /\ v7 \o <<e, d>> = Append(Append(v7, e), d)
    BY <1>1, <1>c
  <2>2. ~v9 /\ v7' = v7 \o <<e, d>>
    BY <2>1, <1>2, <1>c, SendsTidings
  <2>3. Append(v7, e) \in Seq(Tidings)
    BY <1>1, <1>c
  <2> QED  BY <2>1, <2>2, <2>3
<1>4. CASE t = x
  <2>1. d \in Under(t, A)
    BY <1>1, <1>4, <1>a DEF Under, AboutId
  <2> QED  BY <2>1, <1>1, <1>3, TheLastWord
<1>5. CASE t # x
  <2>1. e \notin AboutId(t) /\ d \notin AboutId(t)
    BY <1>1, <1>5 DEF AboutId
  <2>2. LastWord(RowOf(t, v8), Append(v7, e), AboutId(t), Under(t, A))
    BY <2>1, <1>1, <1>3, <1>c, <1>d, AnotherWord
  <2> QED  BY <2>1, <2>2, <1>1, <1>3, AnotherWord
<1> QED  BY <1>4, <1>5

LEMMA RowsHandled ==
  ASSUME TransferTypes, RowsFollow, Transfers!BroadcastBusEvent
  PROVE  RowsFollow' /\ TransferTypes'
<1> DEFINE e == Head(v7)
           A == Transfers!Active
<1>1. /\ v7 # <<>> /\ v7' = Tail(v7) /\ v9' = v9
      /\ v8' = IF e.kind = "ended" THEN v8 \ {e.of} ELSE v8 \cup {e.of}
      /\ UNCHANGED <<v1, v2, v3, v4, v5, v6>>
  BY DEF Transfers!BroadcastBusEvent, Transfers!saved
<1>2. v7 \in Seq(Tidings) /\ e \in Tidings
  BY <1>1 DEF TransferTypes
<1>3. Transfers!Active' = A
  BY <1>1 DEF Transfers!Active, Transfers!Sending
<1>4. TransferTypes'
  <2>1. v7' \in Seq(Tidings) /\ Len(v7') <= FeedCap
    BY <1>1, <1>2, TransfersAssumption DEF TransferTypes
  <2>2. v8' \subseteq Ids
    BY <1>1, <1>2 DEF TransferTypes, Tidings
  <2> QED  BY <1>1, <2>1, <2>2 DEF TransferTypes, Transfers!Running
<1>5. ASSUME ~v9', NEW t \in Ids PROVE LastWord(RowOf(t, v8'), v7', AboutId(t), Under(t, A))
  <2>1. LastWord(RowOf(t, v8), v7, AboutId(t), Under(t, A))
    BY <1>1, <1>5 DEF RowsFollow
  <2>2. Under(t, A) \subseteq AboutId(t)
    BY DEF Under
  <2>3. ASSUME e \in AboutId(t), e \in Under(t, A) PROVE RowOf(t, v8') \in Under(t, A)
    <3>1. e.of = t /\ (e.kind # "ended" <=> t \in A) /\ (t \in v8' <=> e.kind # "ended")
      BY <1>1, <2>3 DEF AboutId, Under
    <3> QED  BY <3>1 DEF RowOf, Under, AboutId, Tidings
  <2>4. ASSUME e \notin AboutId(t), RowOf(t, v8) \in Under(t, A) PROVE RowOf(t, v8') \in Under(t, A)
    <3>1. t \in v8' <=> t \in v8
      BY <1>1, <1>2, <2>4 DEF AboutId
    <3>2. RowOf(t, v8') = RowOf(t, v8)
      BY <3>1 DEF RowOf
    <3> QED  BY <2>4, <3>2
  <2> HIDE DEF A
  <2> QED  BY <1>1, <1>2, <2>1, <2>2, <2>3, <2>4, WordHandled
<1> QED  BY <1>3, <1>4, <1>5 DEF RowsFollow
LEMMA StreamIs ==
  ASSUME NEW r \in Streams
  PROVE  /\ r.at \in {"off", "lookup", "probe", "claim", "stream", "rename", "record"}
         /\ r.at = "off" <=> r = Transfers!Off
         /\ r.at = "probe" => r = [at |-> "probe", k |-> r.k] /\ r.k \in Nat \ {0}
         /\ \A a \in {"claim", "stream", "rename", "record"} :
                r.at = a => r = [at |-> a, k |-> r.k] /\ r.k \in 1 .. Attempts
<1>1. CASE r \in [at : {"off", "lookup"}]
  BY <1>1 DEF Transfers!Off
<1>2. CASE r \in [at : {"probe"}, k : Nat \ {0}]
  BY <1>2 DEF Transfers!Off
<1>3. CASE r \in [at : {"claim", "stream", "rename", "record"}, k : 1 .. Attempts]
  BY <1>3 DEF Transfers!Off
<1> QED  BY <1>1, <1>2, <1>3 DEF Streams

(* The goroutine of f moves on to r, or ends.                              *)
Goes(f, r) ==
    /\ v1' = [v1 EXCEPT ![f] = r] /\ v3' = v3
    /\ v2' = IF r = Transfers!Off THEN v2 \ {f} ELSE v2 \cup {f}

LEMMA GoesOn ==
  ASSUME TransferTypes, NEW f \in Files, NEW r \in Streams, Goes(f, r)
  PROVE  /\ v1' \in [Files -> Streams] /\ v2' = {g \in Files : Transfers!Running(g)'}
         /\ v3' \in [Uploads -> {"off", "stream", "send"}]
         /\ f \in Transfers!Active' <=> r.at \in {"stream", "rename", "record"}
         /\ \A t \in Ids \ {f} : t \in Transfers!Active' <=> t \in Transfers!Active
<1> USE TransfersAssumption
<1>1. v1 \in [Files -> Streams] /\ v2 = {g \in Files : v1[g] # Transfers!Off}
  BY DEF TransferTypes, Transfers!Running
<1>2. v1' \in [Files -> Streams] /\ v1'[f] = r /\ \A g \in Files \ {f} : v1'[g] = v1[g]
  BY <1>1 DEF Goes
<1>3. v2' = {g \in Files : v1'[g] # Transfers!Off}
  BY <1>1, <1>2 DEF Goes
<1>4. v2' = {g \in Files : Transfers!Running(g)'}
  BY <1>3 DEF Transfers!Running
<1>5. \A t \in Ids : t \in Transfers!Active' <=>
          \/ t \in Files /\ v1'[t].at \in {"stream", "rename", "record"}
          \/ t \in Uploads /\ v3[t] # "off"
  BY DEF Goes, Transfers!Active, Transfers!Sending, Ids
<1>6. \A t \in Ids : t \in Transfers!Active <=>
          \/ t \in Files /\ v1[t].at \in {"stream", "rename", "record"}
          \/ t \in Uploads /\ v3[t] # "off"
  BY DEF Transfers!Active, Transfers!Sending, Ids
<1>7. f \in Ids /\ f \notin Uploads
  BY DEF Ids
<1>8. f \in Transfers!Active' <=> r.at \in {"stream", "rename", "record"}
  BY <1>2, <1>5, <1>7
<1>9. ASSUME NEW t \in Ids \ {f} PROVE t \in Transfers!Active' <=> t \in Transfers!Active
  <2>1. t \in Files => v1'[t] = v1[t]
    BY <1>2, <1>9
  <2> QED  BY <2>1, <1>5, <1>6, <1>9
<1> QED  BY <1>2, <1>4, <1>8, <1>9 DEF Goes, TransferTypes

LEMMA StageGoes ==
  ASSUME TransferTypes, NEW f \in Files, NEW a \in {"claim", "stream", "rename", "record"},
         v1[f].at \in {"probe", "claim", "stream", "rename"}, v1[f].k \in 1 .. Attempts,
         Transfers!Stage(f, a), v3' = v3
  PROVE  Goes(f, [at |-> a, k |-> v1[f].k]) /\ [at |-> a, k |-> v1[f].k] \in Streams
<1>1. v1 \in [Files -> Streams] /\ v2 = {g \in Files : v1[g] # Transfers!Off}
  BY DEF TransferTypes, Transfers!Running
<1>2. v1[f] = [at |-> v1[f].at, k |-> v1[f].k] /\ f \in v2
  BY <1>1, StreamIs
<1>3. v1' = [v1 EXCEPT ![f] = [v1[f] EXCEPT !.at = a]] /\ v2' = v2
  BY DEF Transfers!Stage
<1>4. [v1[f] EXCEPT !.at = a] = [at |-> a, k |-> v1[f].k]
  BY <1>2
<1>5. [at |-> a, k |-> v1[f].k] # Transfers!Off
  BY DEF Transfers!Off
<1> QED  BY <1>2, <1>3, <1>4, <1>5 DEF Goes, Streams

LEMMA NextNameGoes ==
  ASSUME TransferTypes, NEW f \in Files, v1[f].at \in {"probe", "claim"},
         Transfers!NextName(f), v3' = v3
  PROVE  Goes(f, [at |-> "probe", k |-> v1[f].k + 1]) /\ [at |-> "probe", k |-> v1[f].k + 1] \in Streams
<1> USE TransfersAssumption
<1>1. v1 \in [Files -> Streams] /\ v2 = {g \in Files : v1[g] # Transfers!Off}
  BY DEF TransferTypes, Transfers!Running
<1>2. v1[f] = [at |-> v1[f].at, k |-> v1[f].k] /\ f \in v2 /\ v1[f].k \in Nat \ {0}
  BY <1>1, StreamIs
<1>3. v1' = [v1 EXCEPT ![f] = [[v1[f] EXCEPT !.at = "probe"] EXCEPT !.k = v1[f].k + 1]] /\ v2' = v2
  BY <1>1, <1>2 DEF Transfers!NextName
<1>4. [[v1[f] EXCEPT !.at = "probe"] EXCEPT !.k = v1[f].k + 1] = [at |-> "probe", k |-> v1[f].k + 1]
  <2> DEFINE n == v1[f].k + 1
  <2> HIDE DEF n
  <2>1. [v1[f] EXCEPT !.at = "probe"] = [at |-> "probe", k |-> v1[f].k]
    BY <1>2
  <2>2. [[at |-> "probe", k |-> v1[f].k] EXCEPT !.k = n] = [at |-> "probe", k |-> n]
    OBVIOUS
  <2> QED  BY <2>1, <2>2 DEF n
<1> DEFINE r == [at |-> "probe", k |-> v1[f].k + 1]
<1>5. r # Transfers!Off
  BY DEF Transfers!Off
<1>6. r \in Streams
  <2>1. v1[f].k + 1 \in Nat \ {0}
    BY <1>2
  <2> QED  BY <2>1 DEF Streams
<1>7. v1' = [v1 EXCEPT ![f] = r] /\ v2' = v2
  BY <1>3, <1>4
<1> HIDE DEF r
<1>8. Goes(f, r)
  BY <1>2, <1>5, <1>7 DEF Goes
<1> QED  BY <1>6, <1>8 DEF r

LEMMA ReturnGoes ==
  ASSUME TransferTypes, NEW f \in Files, NEW p, Transfers!Return(f, p), v3' = v3
  PROVE  Goes(f, Transfers!Off) /\ Transfers!Off \in Streams /\ Transfers!Off.at = "off"
<1>1. v1' = [v1 EXCEPT ![f] = Transfers!Off] /\ v2' = v2 \ {f}
  BY DEF Transfers!Return
<1> QED  BY <1>1 DEF Goes, Transfers!Off, Streams
Own(f) == <<NameOf[f], v1[f].k>>

LEMMA OwnsApart ==
  ASSUME TransferTypes, PartialsOwned, NEW f \in Files, NEW g \in Files \ {f},
         v1[f].at \in {"stream", "rename"}, v1[g].at \in {"stream", "rename"}
  PROVE  Own(f) # Own(g)
<1>1. \E a : v5[Own(f)] = {<<f, a>>}
  BY DEF PartialsOwned, Own
<1>2. \E a : v5[Own(g)] = {<<g, a>>}
  BY DEF PartialsOwned, Own
<1>3. PICK a, b : v5[Own(f)] = {<<f, a>>} /\ v5[Own(g)] = {<<g, b>>}
  BY <1>1, <1>2
<1>4. {<<f, a>>} # {<<g, b>>}
  <2>1. <<f, a>> # <<g, b>>
    OBVIOUS
  <2> QED  BY <2>1
<1> QED  BY <1>3, <1>4

LEMMA OwnIsAPlace ==
  ASSUME TransferTypes, NEW f \in Files, v1[f].at \in {"claim", "stream", "rename", "record"}
  PROVE  /\ v1[f].k \in 1 .. Attempts /\ Own(f) \in Places
         /\ Own(f) = Transfers!Candidate(f, v1[f].k)
<1>1. v1[f] \in Streams /\ NameOf[f] \in Names
  BY TransfersAssumption DEF TransferTypes
<1> QED  BY <1>1, StreamIs DEF Own, Places, Transfers!Candidate

(* Leaving the stages that own a partial file, with the file gone.         *)
LEMMA OwnershipLeft ==
  ASSUME TransferTypes, PartialsOwned, NEW f \in Files, NEW r \in Streams, Goes(f, r),
         r.at \notin {"stream", "rename"},
         \/ v5' = v5
         \/ v1[f].at \in {"stream", "rename"} /\ v5' = [v5 EXCEPT ![Own(f)] = {}]
  PROVE  PartialsOwned'
<1>1. v1 \in [Files -> Streams] /\ v5 \in [Places -> Transfers!Contents]
  BY DEF TransferTypes
<1>2. v1'[f] = r /\ \A g \in Files \ {f} : v1'[g] = v1[g]
  BY <1>1 DEF Goes
<1>3. ASSUME NEW g \in Files, v1'[g].at \in {"stream", "rename"}
      PROVE  v1'[g] = v1[g] /\ v5'[Own(g)] = v5[Own(g)]
  <2>1. g # f
    BY <1>2, <1>3
  <2>2. v1'[g] = v1[g] /\ Own(g) \in Places
    BY <1>2, <1>3, <2>1, OwnIsAPlace
  <2>3. CASE v1[f].at \in {"stream", "rename"} /\ v5' = [v5 EXCEPT ![Own(f)] = {}]
    <3>1. Own(g) # Own(f)
      BY <1>3, <2>1, <2>2, <2>3, OwnsApart
    <3> QED  BY <1>1, <2>2, <2>3, <3>1
  <2> QED  BY <2>2, <2>3
<1> QED  BY <1>3 DEF PartialsOwned, Own

LEMMA TypesOn ==
  ASSUME TransferTypes, NEW f \in Files, NEW r \in Streams, Goes(f, r),
         v4' \in [Places -> Transfers!Contents], v5' \in [Places -> Transfers!Contents],
         v6' \in [Files -> Places \cup {Transfers!NoPath}],
         v7' \in Seq(Tidings), Len(v7') <= FeedCap, v9' \in BOOLEAN, v8' = v8
  PROVE  TransferTypes'
BY GoesOn DEF TransferTypes

LEMMA SaysOne ==
  ASSUME TransferTypes, NEW x \in Ids, NEW kind \in {"started", "progress", "ended"},
         Transfers!Publish(<<Transfers!Ev(kind, x)>>)
  PROVE  v7' \in Seq(Tidings) /\ Len(v7') <= FeedCap /\ v9' \in BOOLEAN
<1>1. <<Transfers!Ev(kind, x)>> \in Seq(Tidings)
  BY EventIs
<1> QED  BY <1>1, SendsTidings

LEMMA NothingWritten ==
  ASSUME TransferTypes, UNCHANGED <<v4, v5, v6>>
  PROVE  /\ v4' \in [Places -> Transfers!Contents] /\ v5' \in [Places -> Transfers!Contents]
         /\ v6' \in [Files -> Places \cup {Transfers!NoPath}]
BY DEF TransferTypes

LEMMA NextDownload ==
  ASSUME TransfersInv, NEW f \in Files, Transfers!Download(f)
  PROVE  TransfersInv'
<1> USE TransfersAssumption
<1>t. /\ TransferTypes /\ PartialsOwned /\ RowsFollow /\ Transfers!OnlyWholeFiles
      /\ v1 \in [Files -> Streams] /\ v1[f] \in Streams /\ f \in Ids
      /\ v4 \in [Places -> Transfers!Contents] /\ v5 \in [Places -> Transfers!Contents]
      /\ v7 \in Seq(Tidings) /\ Len(v7) <= FeedCap /\ v9 \in BOOLEAN
  BY DEF TransfersInv, TransferTypes, Ids
<1>u. f \in Transfers!Active <=> v1[f].at \in {"stream", "rename", "record"}
  BY DEF Transfers!Active, Transfers!Sending
<1>w. v4' = v4 => Transfers!OnlyWholeFiles'
  BY <1>t DEF Transfers!OnlyWholeFiles
<1>x. Transfers!Paths = Places /\ Transfers!NoFile = {}
  BY DEF Transfers!Paths, Places, Transfers!NoFile
<1>q. ASSUME NEW r \in Streams, Goes(f, r), UNCHANGED <<v4, v5, v6, v7, v8, v9>>,
             r.at \notin {"stream", "rename", "record"},
             v1[f].at \notin {"stream", "rename", "record"}
      PROVE  TransfersInv'
  <2>1. TransferTypes'
    BY <1>t, <1>q, TypesOn, NothingWritten
  <2>2. PartialsOwned'
    BY <1>t, <1>q, OwnershipLeft
  <2>3. Transfers!Active' = Transfers!Active
    <3>1. Transfers!Active \subseteq Ids /\ Transfers!Active' \subseteq Ids
      BY DEF Transfers!Active, Ids
    <3>2. \A t \in Ids : t \in Transfers!Active' <=> t \in Transfers!Active
      BY <1>t, <1>u, <1>q, GoesOn
    <3> QED  BY <3>1, <3>2
  <2>4. RowsFollow'
    BY <1>t, <1>q, <2>3, RowsUndisturbed
  <2> QED  BY <1>q, <1>w, <2>1, <2>2, <2>4 DEF TransfersInv
<1>r. ASSUME NEW p, Transfers!Return(f, p), v3' = v3, v8' = v8,
             Transfers!Publish(<<Transfers!Ev("ended", f)>>), Transfers!OnlyWholeFiles',
             v4' \in [Places -> Transfers!Contents],
             v6' \in [Files -> Places \cup {Transfers!NoPath}],
             \/ v5' = v5
             \/ v1[f].at \in {"stream", "rename"} /\ v5' = [v5 EXCEPT ![Own(f)] = {}]
      PROVE  TransfersInv'
  <2>1. Goes(f, Transfers!Off) /\ Transfers!Off \in Streams /\ Transfers!Off.at = "off"
    BY <1>t, <1>r, ReturnGoes
  <2>2. v5' \in [Places -> Transfers!Contents]
    BY <1>t, <1>r DEF Transfers!Contents
  <2>3. TransferTypes'
    BY <1>t, <1>r, <2>1, <2>2, TypesOn, SaysOne
  <2>4. PartialsOwned'
    BY <1>t, <1>r, <2>1, OwnershipLeft
  <2>5. f \notin Transfers!Active' /\ \A t \in Ids \ {f} : t \in Transfers!Active' <=> t \in Transfers!Active
    BY <1>t, <2>1, GoesOn
  <2>6. RowsFollow'
    BY <1>t, <1>r, <2>5, RowsTold
  <2> QED  BY <1>r, <2>3, <2>4, <2>6 DEF TransfersInv
<1>1. CASE Transfers!Lookup(f)
  <2>0. v1[f].at = "lookup" /\ UNCHANGED <<v3, v4, v5, v6, v8>>
    BY <1>1 DEF Transfers!Lookup, Transfers!saved
  <2>1. CASE Transfers!Return(f, v6[f]) /\ Transfers!Publish(<<Transfers!Ev("started", f), Transfers!Ev("ended", f)>>)
    <3>1. Goes(f, Transfers!Off) /\ Transfers!Off \in Streams /\ Transfers!Off.at = "off"
      BY <1>t, <2>0, <2>1, ReturnGoes
    <3>2. <<Transfers!Ev("started", f), Transfers!Ev("ended", f)>> \in Seq(Tidings)
      BY <1>t, EventIs
    <3>3. v7' \in Seq(Tidings) /\ Len(v7') <= FeedCap /\ v9' \in BOOLEAN
      BY <1>t, <2>1, <3>2, SendsTidings
    <3>4. TransferTypes'
      BY <1>t, <2>0, <3>1, <3>3, TypesOn, NothingWritten
    <3>5. PartialsOwned'
      BY <1>t, <2>0, <3>1, OwnershipLeft
    <3>6. Transfers!Active' = Transfers!Active /\ f \notin Transfers!Active
      <4>1. Transfers!Active \subseteq Ids /\ Transfers!Active' \subseteq Ids
        BY DEF Transfers!Active, Ids
      <4>2. \A t \in Ids : t \in Transfers!Active' <=> t \in Transfers!Active
        BY <1>t, <1>u, <2>0, <3>1, GoesOn
      <4> QED  BY <1>u, <2>0, <4>1, <4>2
    <3>7. RowsFollow'
      BY <1>t, <2>0, <2>1, <3>6, RowsToldTwice
    <3> QED  BY <1>w, <2>0, <3>4, <3>5, <3>7 DEF TransfersInv
  <2>2. CASE v1' = [v1 EXCEPT ![f] = [at |-> "probe", k |-> 1]] /\ UNCHANGED <<v2, v7, v9>>
    <3> DEFINE r == [at |-> "probe", k |-> 1]
    <3>1. r \in Streams /\ r # Transfers!Off /\ r.at = "probe"
      BY DEF Streams, Transfers!Off
    <3>2. f \in v2
      BY <1>t, <2>0 DEF TransferTypes, Transfers!Running, Transfers!Off
    <3>3. Goes(f, r)
      BY <2>0, <2>2, <3>1, <3>2 DEF Goes
    <3> HIDE DEF r
    <3> QED  BY <1>q, <2>0, <2>2, <3>1, <3>3
  <2> QED  BY <1>1, <2>1, <2>2 DEF Transfers!Lookup
<1>2. CASE Transfers!Probe(f)
  <2>0. v1[f].at = "probe" /\ UNCHANGED <<v3, v4, v5, v6, v8>> /\ v1[f].k \in Nat \ {0}
    BY <1>t, <1>2, StreamIs DEF Transfers!Probe, Transfers!saved
  <2>1. CASE Transfers!Publish(<<Transfers!Ev("ended", f)>>) /\ Transfers!Return(f, Transfers!NoPath)
    BY <1>r, <1>t, <1>w, <2>0, <2>1, NothingWritten
  <2>2. CASE Transfers!NextName(f) /\ UNCHANGED <<v7, v9>>
    <3>1. Goes(f, [at |-> "probe", k |-> v1[f].k + 1]) /\ [at |-> "probe", k |-> v1[f].k + 1] \in Streams
      BY <1>t, <2>0, <2>2, NextNameGoes
    <3> QED  BY <1>q, <2>0, <2>2, <3>1
  <2>3. CASE v1[f].k <= Attempts /\ Transfers!Stage(f, "claim") /\ UNCHANGED <<v7, v9>>
    <3>1. Goes(f, [at |-> "claim", k |-> v1[f].k]) /\ [at |-> "claim", k |-> v1[f].k] \in Streams
      <4>1. v1[f].k \in 1 .. Attempts
        BY <2>0, <2>3
      <4> QED  BY <1>t, <2>0, <2>3, <4>1, StageGoes
    <3> QED  BY <1>q, <2>0, <2>3, <3>1
  <2> QED  BY <1>2, <2>1, <2>2, <2>3 DEF Transfers!Probe
<1>3. CASE Transfers!Claim(f)
  <2> DEFINE p == Own(f)
  <2>0. /\ v1[f].at = "claim" /\ UNCHANGED <<v3, v4, v6, v8>> /\ v1[f].k \in 1 .. Attempts
        /\ p \in Places /\ p = Transfers!Candidate(f, v1[f].k)
    BY <1>t, <1>3, OwnIsAPlace DEF Transfers!Claim
  <2>1. CASE Transfers!NextName(f) /\ UNCHANGED <<v5, v7, v9>>
    <3>1. Goes(f, [at |-> "probe", k |-> v1[f].k + 1]) /\ [at |-> "probe", k |-> v1[f].k + 1] \in Streams
      BY <1>t, <2>0, <2>1, NextNameGoes
    <3> QED  BY <1>q, <2>0, <2>1, <3>1
  <2>2. CASE /\ v5[p] = {} /\ v5' = [v5 EXCEPT ![p] = {<<f, "some">>}]
             /\ Transfers!Publish(<<Transfers!Ev("started", f)>>) /\ Transfers!Stage(f, "stream")
    <3> DEFINE r == [at |-> "stream", k |-> v1[f].k]
    <3>1. Goes(f, r) /\ r \in Streams /\ r.at = "stream" /\ r.k = v1[f].k
      BY <1>t, <2>0, <2>2, StageGoes
    <3>2. v5' \in [Places -> Transfers!Contents]
      <4>1. {<<f, "some">>} \in Transfers!Contents
        BY DEF Transfers!Contents
      <4> HIDE DEF p
      <4> QED  BY <1>t, <2>0, <2>2, <4>1
    <3> HIDE DEF r
    <3>3. TransferTypes'
      BY <1>t, <2>0, <2>2, <3>1, <3>2, TypesOn, SaysOne DEF TransferTypes
    <3>4. PartialsOwned'
      <4>1. v1'[f] = r /\ v5'[<<NameOf[f], r.k>>] = {<<f, "some">>}
        BY <1>t, <2>0, <2>2, <3>1 DEF Goes, Own
      <4>2. ASSUME NEW g \in Files \ {f}, v1'[g].at \in {"stream", "rename"}
            PROVE  v1'[g] = v1[g] /\ v5'[Own(g)] = v5[Own(g)]
        <5>1. v1'[g] = v1[g]
          BY <1>t, <3>1, <4>2 DEF Goes
        <5>2. Own(g) \in Places
          BY <1>t, <4>2, <5>1, OwnIsAPlace
        <5>3. v5[Own(g)] # {}
          BY <1>t, <4>2, <5>1 DEF PartialsOwned, Own
        <5> QED  BY <1>t, <2>2, <5>1, <5>2, <5>3
      <4> QED  BY <1>t, <3>1, <4>1, <4>2 DEF PartialsOwned, Own
    <3>5. f \in Transfers!Active' /\ \A t \in Ids \ {f} : t \in Transfers!Active' <=> t \in Transfers!Active
      BY <1>t, <3>1, GoesOn
    <3>6. RowsFollow'
      BY <1>t, <2>0, <2>2, <3>5, RowsTold
    <3> QED  BY <1>w, <2>0, <3>3, <3>4, <3>6 DEF TransfersInv
  <2> HIDE DEF p
  <2> QED  BY <1>3, <1>x, <2>0, <2>1, <2>2 DEF Transfers!Claim
<1>4. CASE Transfers!StreamDone(f)
  <2> DEFINE p == Own(f)
             r == [at |-> "rename", k |-> v1[f].k]
  <2>0. /\ v1[f].at = "stream" /\ UNCHANGED <<v3, v4, v6, v8>> /\ v1[f].k \in 1 .. Attempts
        /\ p \in Places /\ p = Transfers!Candidate(f, v1[f].k)
    BY <1>t, <1>4, OwnIsAPlace DEF Transfers!StreamDone
  <2>1. v5[p] = {<<f, "some">>}
    BY <1>t, <2>0 DEF PartialsOwned, Own
  <2>2. /\ v5' = [v5 EXCEPT ![p] = (v5[p] \ {<<f, "some">>}) \cup {<<f, "all">>}]
        /\ Transfers!Publish(<<Transfers!Ev("progress", f)>>) /\ Transfers!Stage(f, "rename")
    <3> HIDE DEF p
    <3> QED  BY <1>4, <2>0, <1>t DEF Transfers!StreamDone
  <2>3. v5' = [v5 EXCEPT ![p] = {<<f, "all">>}]
    BY <2>1, <2>2
  <2>4. Goes(f, r) /\ r \in Streams /\ r.at = "rename" /\ r.k = v1[f].k
    BY <1>t, <2>0, <2>2, StageGoes
  <2>5. v5' \in [Places -> Transfers!Contents]
    <3>1. {<<f, "all">>} \in Transfers!Contents
      BY DEF Transfers!Contents
    <3> HIDE DEF p
    <3> QED  BY <1>t, <2>0, <2>3, <3>1
  <2> HIDE DEF r
  <2>6. TransferTypes'
    BY <1>t, <2>0, <2>2, <2>4, <2>5, TypesOn, SaysOne DEF TransferTypes
  <2>7. PartialsOwned'
    <3>1. v1'[f] = r /\ v5'[<<NameOf[f], r.k>>] = {<<f, "all">>}
      BY <1>t, <2>0, <2>3, <2>4 DEF Goes, Own
    <3>2. ASSUME NEW g \in Files \ {f}, v1'[g].at \in {"stream", "rename"}
          PROVE  v1'[g] = v1[g] /\ v5'[Own(g)] = v5[Own(g)]
      <4>1. v1'[g] = v1[g]
        BY <1>t, <2>4, <3>2 DEF Goes
      <4>2. Own(g) \in Places /\ Own(g) # Own(f)
        BY <1>t, <2>0, <3>2, <4>1, OwnIsAPlace, OwnsApart
      <4> QED  BY <1>t, <2>3, <4>1, <4>2
    <3> QED  BY <1>t, <2>4, <3>1, <3>2 DEF PartialsOwned, Own
  <2>8. f \in Transfers!Active' /\ \A t \in Ids \ {f} : t \in Transfers!Active' <=> t \in Transfers!Active
    BY <1>t, <2>4, GoesOn
  <2>9. RowsFollow'
    BY <1>t, <2>0, <2>2, <2>8, RowsTold
  <2> QED  BY <1>w, <2>0, <2>6, <2>7, <2>9 DEF TransfersInv
<1>5. CASE Transfers!StreamFails(f)
  <2>1. /\ v1[f].at = "stream" /\ UNCHANGED <<v3, v4, v6, v8>>
        /\ v5' = [v5 EXCEPT ![Own(f)] = {}]
        /\ Transfers!Publish(<<Transfers!Ev("ended", f)>>) /\ Transfers!Return(f, Transfers!NoPath)
    BY <1>t, <1>x, <1>5, OwnIsAPlace DEF Transfers!StreamFails
  <2> QED  BY <1>r, <1>t, <1>w, <2>1, NothingWritten DEF TransferTypes
<1>6. CASE Transfers!Rename(f)
  <2> DEFINE p == Own(f)
  <2>0. /\ v1[f].at = "rename" /\ UNCHANGED <<v3, v6, v8>> /\ v1[f].k \in 1 .. Attempts
        /\ p \in Places /\ p = Transfers!Candidate(f, v1[f].k)
    BY <1>t, <1>6, OwnIsAPlace DEF Transfers!Rename
  <2>1. v5[p] = {<<f, "all">>}
    BY <1>t, <2>0 DEF PartialsOwned, Own
  <2> HIDE DEF p
  <2>2. /\ v5' = [v5 EXCEPT ![p] = {}]
        /\ \/ /\ v4' = [v4 EXCEPT ![p] = v5[p]]
              /\ Transfers!Stage(f, "record") /\ UNCHANGED <<v7, v9>>
           \/ /\ Transfers!Publish(<<Transfers!Ev("ended", f)>>)
              /\ Transfers!Return(f, Transfers!NoPath) /\ UNCHANGED v4
    BY <1>6, <1>x, <2>0 DEF Transfers!Rename
  <2>3. CASE /\ Transfers!Publish(<<Transfers!Ev("ended", f)>>)
             /\ Transfers!Return(f, Transfers!NoPath) /\ UNCHANGED v4
    BY <1>r, <1>t, <1>w, <2>0, <2>2, <2>3 DEF TransferTypes, p
  <2>4. CASE v4' = [v4 EXCEPT ![p] = v5[p]] /\ Transfers!Stage(f, "record") /\ UNCHANGED <<v7, v9>>
    <3> DEFINE r == [at |-> "record", k |-> v1[f].k]
    <3>1. Goes(f, r) /\ r \in Streams /\ r.at = "record"
      BY <1>t, <2>0, <2>4, StageGoes
    <3> HIDE DEF r
    <3>2. v4' \in [Places -> Transfers!Contents] /\ v5' \in [Places -> Transfers!Contents]
      BY <1>t, <2>1, <2>2, <2>4 DEF Transfers!Contents
    <3>3. TransferTypes'
      BY <1>t, <2>0, <2>4, <3>1, <3>2, TypesOn DEF TransferTypes
    <3>4. PartialsOwned'
      BY <1>t, <2>0, <2>2, <3>1, OwnershipLeft DEF p
    <3>5. Transfers!OnlyWholeFiles'
      <4>1. \A q \in Places : q # p => v4'[q] = v4[q]
        BY <1>t, <2>4
      <4>2. v4'[p] = {<<f, "all">>}
        BY <1>t, <2>0, <2>1, <2>4
      <4> QED  BY <1>t, <1>x, <4>1, <4>2 DEF Transfers!OnlyWholeFiles
    <3>6. Transfers!Active' = Transfers!Active
      <4>1. Transfers!Active \subseteq Ids /\ Transfers!Active' \subseteq Ids
        BY DEF Transfers!Active, Ids
      <4>2. \A t \in Ids : t \in Transfers!Active' <=> t \in Transfers!Active
        BY <1>t, <1>u, <2>0, <3>1, GoesOn
      <4> QED  BY <4>1, <4>2
    <3>7. RowsFollow'
      BY <1>t, <2>0, <2>4, <3>6, RowsUndisturbed
    <3> QED  BY <3>3, <3>4, <3>5, <3>7 DEF TransfersInv
  <2> QED  BY <2>2, <2>3, <2>4
<1>7. CASE Transfers!Record(f)
  <2>0. /\ v1[f].at = "record" /\ UNCHANGED <<v3, v4, v5, v8>>
        /\ Own(f) \in Places /\ Own(f) = Transfers!Candidate(f, v1[f].k)
        /\ v6' \in {v6, [v6 EXCEPT ![f] = Transfers!Candidate(f, v1[f].k)]}
        /\ Transfers!Publish(<<Transfers!Ev("ended", f)>>)
        /\ Transfers!Return(f, Transfers!Candidate(f, v1[f].k))
    BY <1>t, <1>7, OwnIsAPlace DEF Transfers!Record
  <2>1. v6' \in [Files -> Places \cup {Transfers!NoPath}]
    BY <1>t, <2>0 DEF TransferTypes
  <2> QED  BY <1>r, <1>t, <1>w, <2>0, <2>1
<1> QED  BY <1>1, <1>2, <1>3, <1>4, <1>5, <1>6, <1>7 DEF Transfers!Download

LEMMA NextUpload ==
  ASSUME TransfersInv, NEW u \in Uploads,
         Transfers!SendFile(u) \/ Transfers!UploadAdvances(u) \/ Transfers!UploadEnds(u)
  PROVE  TransfersInv'
<1>t. /\ TransferTypes /\ PartialsOwned /\ RowsFollow /\ Transfers!OnlyWholeFiles
      /\ v3 \in [Uploads -> {"off", "stream", "send"}] /\ u \in Ids
  BY DEF TransfersInv, TransferTypes, Ids
<1>1. /\ UNCHANGED <<v1, v2, v4, v5, v6, v8>>
      /\ \E kind \in {"started", "progress", "ended"} :
            /\ Transfers!Publish(<<Transfers!Ev(kind, u)>>)
            /\ \E s \in {"off", "stream", "send"} :
                  v3' = [v3 EXCEPT ![u] = s] /\ (kind = "ended" <=> s = "off")
  BY DEF Transfers!SendFile, Transfers!UploadAdvances, Transfers!UploadEnds, Transfers!saved
<1>2. PICK kind \in {"started", "progress", "ended"}, s \in {"off", "stream", "send"} :
          /\ Transfers!Publish(<<Transfers!Ev(kind, u)>>)
          /\ v3' = [v3 EXCEPT ![u] = s] /\ (kind = "ended" <=> s = "off")
  BY <1>1
<1>3. v3' \in [Uploads -> {"off", "stream", "send"}] /\ v3'[u] = s /\ \A x \in Uploads \ {u} : v3'[x] = v3[x]
  BY <1>t, <1>2
<1>4. TransferTypes'
  BY <1>t, <1>1, <1>2, <1>3, SaysOne DEF TransferTypes, Transfers!Running
<1>5. kind # "ended" <=> u \in Transfers!Active'
  <2>1. u \notin Files
    BY TransfersAssumption
  <2> QED  BY <1>2, <1>3, <2>1 DEF Transfers!Active, Transfers!Sending
<1>6. \A t \in Ids \ {u} : t \in Transfers!Active' <=> t \in Transfers!Active
  BY <1>1, <1>3 DEF Transfers!Active, Transfers!Sending, Ids
<1>7. RowsFollow'
  BY <1>t, <1>1, <1>2, <1>5, <1>6, RowsTold
<1>8. PartialsOwned' /\ Transfers!OnlyWholeFiles'
  BY <1>t, <1>1 DEF PartialsOwned, Transfers!OnlyWholeFiles
<1> QED  BY <1>4, <1>7, <1>8 DEF TransfersInv

LEMMA NextTransfers ==
  ASSUME TransfersInv, Transfers!Next \/ UNCHANGED Transfers!vars
  PROVE  TransfersInv'
<1> USE TransfersAssumption
<1>t. /\ TransferTypes /\ PartialsOwned /\ RowsFollow /\ Transfers!OnlyWholeFiles
      /\ v1 \in [Files -> Streams] /\ v4 \in [Places -> Transfers!Contents]
  BY DEF TransfersInv, TransferTypes
<1>x. Transfers!Paths = Places /\ Transfers!NoFile = {}
  BY DEF Transfers!Paths, Places, Transfers!NoFile
<1>1. ASSUME NEW f \in Files, Transfers!HandleRequest(f) PROVE TransfersInv'
  <2> DEFINE r == [at |-> "lookup"]
  <2>1. /\ f \notin v2 /\ v2' = v2 \cup {f} /\ v1' = [v1 EXCEPT ![f] = r]
        /\ UNCHANGED <<v3, v4, v5, v6, v7, v8, v9>>
    BY <1>1 DEF Transfers!HandleRequest, Transfers!saved, Transfers!ui
  <2>2. r \in Streams /\ r # Transfers!Off /\ r.at = "lookup"
    BY DEF Streams, Transfers!Off
  <2>3. v1[f].at = "off"
    <3>1. v1[f] = Transfers!Off
      BY <1>t, <2>1 DEF TransferTypes, Transfers!Running
    <3> QED  BY <3>1 DEF Transfers!Off
  <2> HIDE DEF r
  <2>4. Goes(f, r)
    BY <2>1, <2>2 DEF Goes
  <2>5. TransferTypes'
    BY <1>t, <2>1, <2>2, <2>4, TypesOn DEF TransferTypes
  <2>6. PartialsOwned' /\ Transfers!OnlyWholeFiles'
    BY <1>t, <2>1, <2>2, <2>4, OwnershipLeft DEF Transfers!OnlyWholeFiles
  <2>7. Transfers!Active' = Transfers!Active
    <3>1. Transfers!Active \subseteq Ids /\ Transfers!Active' \subseteq Ids
      BY DEF Transfers!Active, Ids
    <3>2. f \notin Transfers!Active /\ f \notin Transfers!Active'
      BY <1>t, <2>2, <2>3, <2>4, GoesOn DEF Transfers!Active
    <3>3. \A t \in Ids : t \in Transfers!Active' <=> t \in Transfers!Active
      BY <1>t, <2>2, <2>4, <3>2, GoesOn
    <3> QED  BY <3>1, <3>3
  <2>8. RowsFollow'
    BY <1>t, <2>1, <2>7, RowsUndisturbed
  <2> QED  BY <2>5, <2>6, <2>8 DEF TransfersInv
<1>2. CASE Transfers!BroadcastBusEvent
  <2>1. UNCHANGED <<v1, v4, v5>>
    BY <1>2 DEF Transfers!BroadcastBusEvent, Transfers!saved
  <2>2. PartialsOwned' /\ Transfers!OnlyWholeFiles'
    BY <1>t, <2>1 DEF PartialsOwned, Transfers!OnlyWholeFiles
  <2> QED  BY <1>t, <1>2, <2>2, RowsHandled DEF TransfersInv
<1>3. ASSUME NEW p \in Places, Transfers!UserRemoves(p) PROVE TransfersInv'
  <2>1. v4' = [v4 EXCEPT ![p] = {}] /\ UNCHANGED <<v1, v2, v3, v5, v6, v7, v8, v9>>
    BY <1>x, <1>3 DEF Transfers!UserRemoves, Transfers!ui
  <2>2. v4' \in [Places -> Transfers!Contents]
    BY <1>t, <2>1 DEF Transfers!Contents
  <2>3. TransferTypes'
    BY <1>t, <2>1, <2>2 DEF TransferTypes, Transfers!Running
  <2>4. Transfers!OnlyWholeFiles'
    BY <1>t, <1>x, <2>1 DEF Transfers!OnlyWholeFiles
  <2>5. PartialsOwned'
    BY <1>t, <2>1 DEF PartialsOwned
  <2>6. Transfers!Active' = Transfers!Active
    BY <2>1 DEF Transfers!Active, Transfers!Sending
  <2>7. RowsFollow'
    BY <1>t, <2>1, <2>6, RowsUndisturbed
  <2> QED  BY <2>3, <2>4, <2>5, <2>7 DEF TransfersInv
<1>4. CASE Transfers!ProcessEnds
  <2>1. /\ v1' = [f \in Files |-> Transfers!Off] /\ v2' = {} /\ v3' = [u \in Uploads |-> "off"]
        /\ v7' = <<>> /\ v8' = {} /\ v9' = FALSE /\ UNCHANGED <<v4, v5, v6>>
    BY <1>4 DEF Transfers!ProcessEnds, Transfers!saved
  <2>2. TransferTypes'
    <3>1. v1' \in [Files -> Streams] /\ v2' = {f \in Files : Transfers!Running(f)'}
      BY <2>1 DEF Streams, Transfers!Off, Transfers!Running
    <3>2. v7' \in Seq(Tidings) /\ Len(v7') <= FeedCap
      BY <2>1
    <3> QED  BY <1>t, <2>1, <3>1, <3>2 DEF TransferTypes
  <2>3. PartialsOwned' /\ Transfers!OnlyWholeFiles'
    BY <1>t, <2>1 DEF PartialsOwned, Transfers!OnlyWholeFiles, Transfers!Off
  <2>4. RowsFollow'
    <3>1. Transfers!Active' = {}
      BY <2>1 DEF Transfers!Off, Transfers!Active, Transfers!Sending
    <3>2. \A t \in Ids : RowOf(t, v8') \in Under(t, {})
      BY <2>1 DEF RowOf, Under, AboutId, Tidings
    <3> QED  BY <2>1, <3>1, <3>2, FirstWord DEF RowsFollow
  <2> QED  BY <2>2, <2>3, <2>4 DEF TransfersInv
<1>5. CASE UNCHANGED Transfers!vars
  <2>1. UNCHANGED <<v1, v2, v3, v4, v5, v6, v7, v8, v9>>
    BY <1>5 DEF Transfers!vars, Transfers!saved, Transfers!ui
  <2>2. TransferTypes'
    BY <1>t, <2>1 DEF TransferTypes, Transfers!Running
  <2>3. PartialsOwned' /\ Transfers!OnlyWholeFiles'
    BY <1>t, <2>1 DEF PartialsOwned, Transfers!OnlyWholeFiles
  <2>4. Transfers!Active' = Transfers!Active
    BY <2>1 DEF Transfers!Active, Transfers!Sending
  <2>5. RowsFollow'
    BY <1>t, <2>1, <2>4, RowsUndisturbed
  <2> QED  BY <2>2, <2>3, <2>5 DEF TransfersInv
<1> QED
  BY <1>1, <1>2, <1>3, <1>4, <1>5, <1>x, NextDownload, NextUpload DEF Transfers!Next

LEMMA TransfersTold ==
  TransfersInv => Transfers!TypeOK /\ Transfers!OnlyWholeFiles /\ Transfers!RowsAreTransfers
<1> SUFFICES ASSUME TransfersInv PROVE Transfers!TypeOK /\ Transfers!RowsAreTransfers
  BY DEF TransfersInv
<1>t. TransferTypes /\ RowsFollow
  BY DEF TransfersInv
<1>1. Transfers!TypeOK
  <2>1. \A f \in Files : v1[f].at \in {"off", "lookup", "probe", "claim", "stream", "rename", "record"}
    BY <1>t, StreamIs DEF TransferTypes
  <2> QED  BY <1>t, <2>1 DEF TransferTypes, Transfers!TypeOK, Places, Transfers!Paths, Ids
<1>2. ASSUME v7 = <<>>, ~v9 PROVE v8 = Transfers!Active
  <2>1. ASSUME NEW t \in Ids PROVE t \in v8 <=> t \in Transfers!Active
    <3>1. RowOf(t, v8) \in Under(t, Transfers!Active)
      BY <1>t, <1>2, FirstWord DEF RowsFollow
    <3> QED  BY <3>1 DEF RowOf, Under
  <2>2. v8 \subseteq Ids /\ Transfers!Active \subseteq Ids
    BY <1>t DEF TransferTypes, Transfers!Active, Ids
  <2> QED  BY <2>1, <2>2
<1> QED  BY <1>1, <1>2 DEF Transfers!RowsAreTransfers
-----------------------------------------------------------------------------
(***************************************************************************)
(* The status bar.  The last word on a cell that no event was missed of is *)
(* what the watcher of the file, the monitor of its size or the upload     *)
(* says now.                                                               *)
(***************************************************************************)
Notice == [cell : StatusLine!Cells, on : BOOLEAN]
AboutCell(c) == {e \in Notice : e.cell = c}
Saying(c, now) == {e \in AboutCell(c) : e.on = TRUE <=> c \in now}
Shows(c, lit) == [cell |-> c, on |-> IF c \in lit THEN TRUE ELSE FALSE]
Uploading(u) == v9[u] \in {"streaming", "sending"}

\* What the bar says, and what it would say with nothing on its way.
OnBar == {c \in StatusLine!Cells : \/ c = "mode" /\ v8.readOnly = TRUE
                                   \/ c = "chip" /\ v8.chip = TRUE
                                   \/ c \in v8.rows}
SoNow == {c \in StatusLine!Cells : \/ c = "mode" /\ v3 = TRUE
                                   \/ c = "chip" /\ v4 = TRUE
                                   \/ c \in Uploads /\ Uploading(c)}

StatusTypes ==
    /\ v1 \in BOOLEAN /\ v2 \in BOOLEAN /\ v3 \in BOOLEAN /\ v4 \in BOOLEAN /\ v5 \in BOOLEAN
    /\ v6 \in Seq(Notice) /\ Len(v6) <= FeedCap /\ v7 \subseteq StatusLine!Cells
    /\ v8 \in [readOnly : BOOLEAN, chip : BOOLEAN, rows : SUBSET Uploads]
    /\ v9 \in [Uploads -> {"none", "streaming", "sending", "ended"}]
    /\ v10 \in [Uploads -> 0 .. Size] /\ v11 \in [Uploads -> 0 .. Size]

CellsFollow ==
    \A c \in StatusLine!Cells \ v7 : LastWord(Shows(c, OnBar), v6, AboutCell(c), Saying(c, SoNow))

StatusInv == StatusTypes /\ CellsFollow

LEMMA SayingCell ==
  ASSUME NEW c \in StatusLine!Cells, NEW A, NEW B
  PROVE  /\ Shows(c, A) \in Notice /\ Saying(c, B) \subseteq AboutCell(c)
         /\ Shows(c, A) \in Saying(c, B) <=> (c \in A <=> c \in B)
BY DEF Shows, Notice, Saying, AboutCell

LEMMA EachCell ==
  ASSUME StatusTypes
  PROVE  /\ "mode" \in OnBar <=> v8.readOnly = TRUE
         /\ "chip" \in OnBar <=> v8.chip = TRUE
         /\ "mode" \in SoNow <=> v3 = TRUE
         /\ "chip" \in SoNow <=> v4 = TRUE
         /\ \A u \in Uploads : (u \in OnBar <=> u \in v8.rows) /\ (u \in SoNow <=> Uploading(u))
<1>1. v8.rows \subseteq Uploads
  BY DEF StatusTypes
<1>2. "mode" \notin Uploads /\ "chip" \notin Uploads
  BY TransfersAssumption
<1> QED  BY <1>1, <1>2 DEF OnBar, SoNow, StatusLine!Cells

LEMMA InitStatus == StatusLine!Init => StatusInv
<1> SUFFICES ASSUME StatusLine!Init PROVE StatusInv
  OBVIOUS
<1> USE TransfersAssumption, StatusAssumption
<1>1. StatusTypes
  <2>1. v6 \in Seq(Notice) /\ Len(v6) <= FeedCap
    BY DEF StatusLine!Init
  <2>2. v8 \in [readOnly : BOOLEAN, chip : BOOLEAN, rows : SUBSET Uploads]
    BY DEF StatusLine!Init
  <2>3. /\ v9 \in [Uploads -> {"none", "streaming", "sending", "ended"}]
        /\ v10 \in [Uploads -> 0 .. Size] /\ v11 \in [Uploads -> 0 .. Size]
    BY DEF StatusLine!Init
  <2>4. /\ v1 \in BOOLEAN /\ v2 \in BOOLEAN /\ v3 \in BOOLEAN /\ v4 \in BOOLEAN /\ v5 \in BOOLEAN
        /\ v7 \subseteq StatusLine!Cells
    BY DEF StatusLine!Init
  <2> QED  BY <2>1, <2>2, <2>3, <2>4 DEF StatusTypes
<1>2. OnBar = {} /\ SoNow = {} /\ v6 = <<>>
  BY DEF StatusLine!Init, OnBar, SoNow, Uploading
<1>5. \A c \in StatusLine!Cells : Shows(c, OnBar) \in Saying(c, SoNow)
  BY <1>2, SayingCell
<1>6. CellsFollow
  BY <1>2, <1>5, FirstWord DEF CellsFollow
<1> QED  BY <1>1, <1>6 DEF StatusInv

(* What a publication does: the event is the last word on its cell, or the *)
(* cell is one that missed something; other cells keep theirs.             *)
LEMMA CellTold ==
  ASSUME StatusTypes, NEW c \in StatusLine!Cells, NEW b \in BOOLEAN, StatusLine!Publish(c, b),
         NEW now, c \in now <=> b = TRUE
  PROVE  /\ v6' \in Seq(Notice) /\ Len(v6') <= FeedCap /\ v7' \subseteq StatusLine!Cells /\ v5' = v5
         /\ c \notin v7' => \A screen : LastWord(screen, v6', AboutCell(c), Saying(c, now))
         /\ \A d \in StatusLine!Cells \ {c} :
                /\ d \in v7' <=> d \in v7
                /\ \A screen, so : LastWord(screen, v6, AboutCell(d), so)
                                     => LastWord(screen, v6', AboutCell(d), so)
<1> USE TransfersAssumption
<1> DEFINE e == [cell |-> c, on |-> b]
<1>1. e \in Notice /\ e \in Saying(c, now) /\ \A d : d # c => e \notin AboutCell(d)
  BY DEF Notice, Saying, AboutCell
<1>2. v6 \in Seq(Notice) /\ v7 \subseteq StatusLine!Cells
  BY DEF StatusTypes
<1>3. CASE v5 /\ Len(v6) < FeedCap
  <2>1. v6' = Append(v6, e) /\ v7' = v7 \ {c} /\ v5' = v5
    BY <1>3 DEF StatusLine!Publish
  <2> HIDE DEF e
  <2>2. v6' \in Seq(Notice) /\ Len(v6') <= FeedCap
    BY <1>1, <1>2, <1>3, <2>1
  <2>3. \A screen : LastWord(screen, v6', AboutCell(c), Saying(c, now))
    BY <1>1, <1>2, <2>1, TheLastWord
  <2>4. ASSUME NEW d \in StatusLine!Cells \ {c}, NEW screen, NEW so, LastWord(screen, v6, AboutCell(d), so)
        PROVE  LastWord(screen, v6', AboutCell(d), so)
    BY <1>1, <1>2, <2>1, <2>4, AnotherWord
  <2>5. v7' \subseteq StatusLine!Cells /\ \A d \in StatusLine!Cells \ {c} : d \in v7' <=> d \in v7
    BY <1>2, <2>1
  <2> QED  BY <2>1, <2>2, <2>3, <2>4, <2>5
<1>4. CASE ~(v5 /\ Len(v6) < FeedCap)
  <2>1. v6' = v6 /\ v7' = v7 \cup {c} /\ v5' = v5
    BY <1>4 DEF StatusLine!Publish
  <2> QED  BY <1>2, <2>1 DEF StatusTypes
<1> QED  BY <1>3, <1>4

LEMMA CellPublished ==
  ASSUME StatusTypes, NEW c \in StatusLine!Cells, NEW b \in BOOLEAN, StatusLine!Publish(c, b)
  PROVE  v6' \in Seq(Notice) /\ Len(v6') <= FeedCap /\ v7' \subseteq StatusLine!Cells /\ v5' = v5
<1>1. c \in (IF b = TRUE THEN {c} ELSE {}) <=> b = TRUE
  OBVIOUS
<1> QED  BY <1>1, CellTold

(* Nothing is said and nothing changes that a cell is about.               *)
LEMMA CellsUndisturbed ==
  ASSUME CellsFollow, UNCHANGED <<v6, v7, v8>>, SoNow' = SoNow
  PROVE  CellsFollow'
<1>1. OnBar' = OnBar
  BY DEF OnBar
<1> QED  BY <1>1 DEF CellsFollow

(* What one cell is about changes, and it is told.                         *)
LEMMA CellsTold ==
  ASSUME StatusTypes, CellsFollow, NEW c \in StatusLine!Cells, NEW b \in BOOLEAN,
         StatusLine!Publish(c, b), v8' = v8, c \in SoNow' <=> b = TRUE,
         \A d \in StatusLine!Cells \ {c} : d \in SoNow' <=> d \in SoNow
  PROVE  CellsFollow'
<1> DEFINE A == OnBar
           S == SoNow
           T == SoNow'
<1>1. OnBar' = A
  BY DEF OnBar
<1>2. SUFFICES ASSUME NEW d \in StatusLine!Cells \ v7'
               PROVE  LastWord(Shows(d, A), v6', AboutCell(d), Saying(d, T))
  BY <1>1 DEF CellsFollow
<1>a. (c \in T <=> b = TRUE) /\ \A x \in StatusLine!Cells \ {c} : x \in T <=> x \in S
  OBVIOUS
<1>b. \A x \in StatusLine!Cells \ v7 : LastWord(Shows(x, A), v6, AboutCell(x), Saying(x, S))
  BY DEF CellsFollow
<1> HIDE DEF A, S, T
<1>3. CASE d = c
  BY <1>2, <1>3, <1>a, CellTold
<1>4. CASE d # c
  <2>1. /\ d \notin v7
        /\ \A screen, so : LastWord(screen, v6, AboutCell(d), so)
                             => LastWord(screen, v6', AboutCell(d), so)
    BY <1>2, <1>4, <1>a, CellTold
  <2>2. Saying(d, T) = Saying(d, S)
    BY <1>2, <1>4, <1>a DEF Saying
  <2> QED  BY <1>2, <1>b, <2>1, <2>2
<1> QED  BY <1>3, <1>4

LEMMA HandledCells ==
  ASSUME StatusInv, StatusLine!HandleEvent
  PROVE  StatusInv'
<1> USE TransfersAssumption
<1> DEFINE e == Head(v6)
<1>t. StatusTypes /\ CellsFollow /\ v6 \in Seq(Notice) /\ Len(v6) <= FeedCap
      /\ v8 \in [readOnly : BOOLEAN, chip : BOOLEAN, rows : SUBSET Uploads]
  BY DEF StatusInv, StatusTypes
<1>1. /\ v6 # <<>> /\ v6' = Tail(v6) /\ StatusLine!Route(e)
      /\ UNCHANGED <<v1, v2, v3, v4, v5, v7, v9, v10, v11>>
  BY DEF StatusLine!HandleEvent, StatusLine!disk, StatusLine!producers, StatusLine!files
<1>2. e \in Notice /\ v6' \in Seq(Notice) /\ Len(v6') <= FeedCap
  BY <1>t, <1>1
<1>3. e.cell \in StatusLine!Cells /\ e.on \in BOOLEAN
  BY <1>2 DEF Notice
<1>n. "mode" \notin Uploads /\ "chip" \notin Uploads
  OBVIOUS
<1> HIDE DEF e
<1>4. /\ v8' \in [readOnly : BOOLEAN, chip : BOOLEAN, rows : SUBSET Uploads]
      /\ e.cell \in OnBar' <=> e.on = TRUE
      /\ \A d \in StatusLine!Cells \ {e.cell} : d \in OnBar' <=> d \in OnBar
  <2>1. CASE e.cell = "mode"
    <3>1. v8' = [v8 EXCEPT !.readOnly = e.on]
      BY <1>1, <2>1 DEF StatusLine!Route
    <3>2. /\ v8' \in [readOnly : BOOLEAN, chip : BOOLEAN, rows : SUBSET Uploads]
          /\ v8'.readOnly = e.on /\ v8'.chip = v8.chip /\ v8'.rows = v8.rows
      BY <1>t, <1>3, <3>1
    <3>3. v8.rows \subseteq Uploads
      BY <1>t
    <3> QED  BY <1>n, <1>3, <2>1, <3>2, <3>3 DEF OnBar
  <2>2. CASE e.cell = "chip"
    <3>1. v8' = [v8 EXCEPT !.chip = e.on]
      BY <1>1, <2>2 DEF StatusLine!Route
    <3>2. /\ v8' \in [readOnly : BOOLEAN, chip : BOOLEAN, rows : SUBSET Uploads]
          /\ v8'.readOnly = v8.readOnly /\ v8'.chip = e.on /\ v8'.rows = v8.rows
      BY <1>t, <1>3, <3>1
    <3>3. v8.rows \subseteq Uploads
      BY <1>t
    <3> QED  BY <1>n, <1>3, <2>2, <3>2, <3>3 DEF OnBar
  <2>3. CASE e.cell \in Uploads
    <3>0. e.cell # "mode" /\ e.cell # "chip"
      BY <1>n, <2>3
    <3>1. v8' = [v8 EXCEPT !.rows = IF e.on = TRUE THEN v8.rows \cup {e.cell} ELSE v8.rows \ {e.cell}]
      BY <1>1, <1>3, <2>3, <3>0 DEF StatusLine!Route, StatusLine!Upserted, StatusLine!Removed
    <3> DEFINE now == IF e.on = TRUE THEN v8.rows \cup {e.cell} ELSE v8.rows \ {e.cell}
    <3>2. now \subseteq Uploads /\ (e.cell \in now <=> e.on = TRUE)
          /\ \A d : d # e.cell => (d \in now <=> d \in v8.rows)
      BY <1>t, <1>3, <2>3
    <3> HIDE DEF now
    <3>3. /\ v8' \in [readOnly : BOOLEAN, chip : BOOLEAN, rows : SUBSET Uploads]
          /\ v8'.readOnly = v8.readOnly /\ v8'.chip = v8.chip /\ v8'.rows = now
      BY <1>t, <3>1, <3>2 DEF now
    <3> QED  BY <1>3, <3>0, <3>2, <3>3 DEF OnBar
  <2> QED  BY <1>3, <2>1, <2>2, <2>3 DEF StatusLine!Cells
<1>5. SoNow' = SoNow
  BY <1>1 DEF SoNow, Uploading
<1>6. StatusTypes'
  BY <1>t, <1>1, <1>2, <1>4 DEF StatusTypes
<1>7. ASSUME NEW c \in StatusLine!Cells \ v7'
      PROVE  LastWord(Shows(c, OnBar'), v6', AboutCell(c), Saying(c, SoNow))
  <2> DEFINE so == Saying(c, SoNow)
             A == OnBar
             B == OnBar'
  <2>0. c \in StatusLine!Cells /\ so \subseteq AboutCell(c)
    BY <1>7, SayingCell
  <2>1. LastWord(Shows(c, A), v6, AboutCell(c), so)
    BY <1>t, <1>1, <1>7 DEF CellsFollow
  <2>b. (e.cell \in B <=> e.on = TRUE) /\ \A d \in StatusLine!Cells \ {e.cell} : d \in B <=> d \in A
    BY <1>4
  <2> HIDE DEF A, B
  <2>2. ASSUME e \in AboutCell(c), e \in so PROVE Shows(c, B) \in so
    <3>1. e.cell = c /\ (e.on = TRUE <=> c \in SoNow)
      BY <2>2 DEF AboutCell, Saying
    <3> QED  BY <2>0, <2>b, <3>1, SayingCell
  <2>3. ASSUME e \notin AboutCell(c), Shows(c, A) \in so PROVE Shows(c, B) \in so
    <3>1. e.cell # c
      BY <1>2, <2>3 DEF AboutCell
    <3> QED  BY <2>0, <2>3, <2>b, <3>1, SayingCell
  <2> HIDE DEF so
  <2>4. LastWord(Shows(c, B), Tail(v6), AboutCell(c), so)
    BY <1>t, <1>1, <2>0, <2>1, <2>2, <2>3, WordHandled DEF e
  <2> QED  BY <1>1, <2>4 DEF so, B
<1> QED  BY <1>5, <1>6, <1>7 DEF StatusInv, CellsFollow

LEMMA NextStatus ==
  ASSUME StatusInv, StatusLine!Next \/ UNCHANGED StatusLine!vars
  PROVE  StatusInv'
<1> USE TransfersAssumption, StatusAssumption
<1>t. /\ StatusTypes /\ CellsFollow
      /\ v9 \in [Uploads -> {"none", "streaming", "sending", "ended"}]
      /\ v10 \in [Uploads -> 0 .. Size] /\ v11 \in [Uploads -> 0 .. Size]
      /\ v1 \in BOOLEAN /\ v2 \in BOOLEAN /\ v3 \in BOOLEAN /\ v4 \in BOOLEAN
  BY DEF StatusInv, StatusTypes
<1>c. {"mode", "chip"} \subseteq StatusLine!Cells /\ Uploads \subseteq StatusLine!Cells
      /\ StatusLine!Cells = {"mode", "chip"} \cup Uploads
  BY DEF StatusLine!Cells
<1>q. ASSUME UNCHANGED <<v3, v4, v6, v7, v8>>,
             \A u \in Uploads : Uploading(u)' = Uploading(u), StatusTypes'
      PROVE  StatusInv'
  <2>1. SoNow' = SoNow
    BY <1>q DEF SoNow
  <2> QED  BY <1>t, <1>q, <2>1, CellsUndisturbed DEF StatusInv
<1>1. CASE StatusLine!Listen \/ StatusLine!DiskChanges \/ UNCHANGED StatusLine!vars
  <2>1. UNCHANGED <<v3, v4, v6, v7, v8, v9, v10, v11>>
        /\ v1' \in BOOLEAN /\ v2' \in BOOLEAN /\ v5' \in BOOLEAN
    BY <1>1, <1>t DEF StatusLine!Listen, StatusLine!DiskChanges, StatusLine!vars,
       StatusLine!disk,
       StatusLine!producers, StatusLine!bus, StatusLine!files, StatusTypes
  <2>2. StatusTypes' /\ \A u \in Uploads : Uploading(u)' = Uploading(u)
    BY <1>t, <2>1 DEF StatusTypes, Uploading
  <2> QED  BY <1>q, <2>1, <2>2
<1>2. CASE StatusLine!CheckWriteAccess
  <2>1. /\ v3' = (~v1) /\ UNCHANGED <<v1, v2, v4, v8, v9, v10, v11>>
        /\ IF v3' = v3 THEN UNCHANGED <<v5, v6, v7>> ELSE StatusLine!Publish("mode", v3')
    BY <1>2 DEF StatusLine!CheckWriteAccess, StatusLine!ProbeWrite, StatusLine!disk,
       StatusLine!files,
       StatusLine!bus
  <2>2. v3' \in BOOLEAN
    BY <1>t, <2>1
  <2>3. CASE v3' = v3
    <3>1. UNCHANGED <<v1, v2, v3, v4, v5, v6, v7, v8, v9, v10, v11>>
      BY <2>1, <2>3
    <3>2. StatusTypes' /\ \A u \in Uploads : Uploading(u)' = Uploading(u)
      BY <1>t, <3>1 DEF StatusTypes, Uploading
    <3> QED  BY <1>q, <3>1, <3>2
  <2>4. CASE StatusLine!Publish("mode", v3')
    <3>1. /\ "mode" \in SoNow' <=> v3' = TRUE
          /\ \A d \in StatusLine!Cells \ {"mode"} : d \in SoNow' <=> d \in SoNow
      BY <1>c, <2>1 DEF SoNow, Uploading
    <3>2. CellsFollow'
      BY <1>t, <1>c, <2>1, <2>2, <2>4, <3>1, CellsTold
    <3>3. StatusTypes'
      BY <1>t, <1>c, <2>1, <2>2, <2>4, CellPublished DEF StatusTypes
    <3> QED  BY <3>2, <3>3 DEF StatusInv
  <2> QED  BY <2>1, <2>3, <2>4
<1>3. CASE StatusLine!Tick
  <2>1. /\ v4' = v2 /\ UNCHANGED <<v1, v2, v3, v8, v9, v10, v11>>
        /\ IF v4' = v4 THEN UNCHANGED <<v5, v6, v7>> ELSE StatusLine!Publish("chip", v4')
    BY <1>3 DEF StatusLine!Tick, StatusLine!disk, StatusLine!files, StatusLine!bus
  <2>2. v4' \in BOOLEAN
    BY <1>t, <2>1
  <2>3. CASE v4' = v4
    <3>1. UNCHANGED <<v1, v2, v3, v4, v5, v6, v7, v8, v9, v10, v11>>
      BY <2>1, <2>3
    <3>2. StatusTypes' /\ \A u \in Uploads : Uploading(u)' = Uploading(u)
      BY <1>t, <3>1 DEF StatusTypes, Uploading
    <3> QED  BY <1>q, <3>1, <3>2
  <2>4. CASE StatusLine!Publish("chip", v4')
    <3>1. /\ "chip" \in SoNow' <=> v4' = TRUE
          /\ \A d \in StatusLine!Cells \ {"chip"} : d \in SoNow' <=> d \in SoNow
      BY <1>c, <2>1 DEF SoNow, Uploading
    <3>2. CellsFollow'
      BY <1>t, <1>c, <2>1, <2>2, <2>4, <3>1, CellsTold
    <3>3. StatusTypes'
      BY <1>t, <1>c, <2>1, <2>2, <2>4, CellPublished DEF StatusTypes
    <3> QED  BY <3>2, <3>3 DEF StatusInv
  <2> QED  BY <2>1, <2>3, <2>4
<1>4. CASE StatusLine!HandleEvent
  BY <1>4, HandledCells
<1>5. ASSUME NEW u \in Uploads, NEW b \in BOOLEAN, StatusLine!Publish(u, b),
             UNCHANGED <<v1, v2, v3, v4, v8>>, Uploading(u)' <=> b = TRUE,
             \A x \in Uploads \ {u} : v9'[x] = v9[x],
             v9' \in [Uploads -> {"none", "streaming", "sending", "ended"}],
             v10' \in [Uploads -> 0 .. Size], v11' \in [Uploads -> 0 .. Size]
      PROVE  StatusInv'
  <2>1. u # "mode" /\ u # "chip" /\ u \in StatusLine!Cells
    BY <1>c
  <2>2. u \in SoNow' <=> b = TRUE
    BY <1>5, <2>1 DEF SoNow
  <2>3. \A d \in StatusLine!Cells \ {u} : d \in SoNow' <=> d \in SoNow
    BY <1>5 DEF SoNow, Uploading
  <2>4. CellsFollow'
    BY <1>t, <1>5, <2>1, <2>2, <2>3, CellsTold
  <2>5. StatusTypes'
    BY <1>t, <1>5, <2>1, CellPublished DEF StatusTypes
  <2> QED  BY <2>4, <2>5 DEF StatusInv
<1>6. ASSUME NEW u \in Uploads, StatusLine!SendFile(u) PROVE StatusInv'
  <2>1. /\ v9' = [v9 EXCEPT ![u] = "streaming"] /\ StatusLine!Publish(u, TRUE)
        /\ UNCHANGED <<v1, v2, v3, v4, v8, v10, v11>>
    BY <1>6 DEF StatusLine!SendFile, StatusLine!disk, StatusLine!producers
  <2>2. Uploading(u)' = TRUE
    BY <1>t, <2>1 DEF Uploading
  <2> QED  BY <1>t, <1>5, <2>1, <2>2
<1>7. ASSUME NEW u \in Uploads, StatusLine!Streamed(u) PROVE StatusInv'
  <2>1. /\ v9[u] = "streaming" /\ v9' = [v9 EXCEPT ![u] = "sending"]
        /\ UNCHANGED <<v1, v2, v3, v4, v5, v6, v7, v8, v10, v11>>
    BY <1>7 DEF StatusLine!Streamed, StatusLine!disk, StatusLine!producers, StatusLine!bus
  <2>2. StatusTypes' /\ \A x \in Uploads : Uploading(x)' = Uploading(x)
    BY <1>t, <2>1 DEF StatusTypes, Uploading
  <2> QED  BY <1>q, <2>1, <2>2
<1>8. ASSUME NEW u \in Uploads, StatusLine!EndUpload(u) PROVE StatusInv'
  <2>1. /\ v9' = [v9 EXCEPT ![u] = "ended"] /\ StatusLine!Publish(u, FALSE)
        /\ UNCHANGED <<v1, v2, v3, v4, v8, v10, v11>>
    BY <1>8 DEF StatusLine!EndUpload, StatusLine!disk, StatusLine!producers
  <2>2. Uploading(u)' = FALSE
    BY <1>t, <2>1 DEF Uploading
  <2> QED  BY <1>t, <1>5, <2>1, <2>2
<1>9. ASSUME NEW u \in Uploads, NEW n \in 1 .. Size, StatusLine!Progress(u, n) PROVE StatusInv'
  <2>1. /\ v9[u] = "streaming" /\ v10' = [v10 EXCEPT ![u] = n]
        /\ UNCHANGED <<v1, v2, v3, v4, v8, v9>>
        /\ \/ v11' = [v11 EXCEPT ![u] = n] /\ StatusLine!Publish(u, TRUE)
           \/ UNCHANGED <<v5, v6, v7, v11>>
    BY <1>9 DEF StatusLine!Progress, StatusLine!disk, StatusLine!producers, StatusLine!bus
  <2>2. n \in 0 .. Size /\ v10' \in [Uploads -> 0 .. Size]
    BY <1>t, <2>1
  <2>3. Uploading(u)' = TRUE /\ \A x \in Uploads : Uploading(x)' = Uploading(x)
    BY <2>1 DEF Uploading
  <2>4. CASE v11' = [v11 EXCEPT ![u] = n] /\ StatusLine!Publish(u, TRUE)
    BY <1>t, <1>5, <2>1, <2>2, <2>3, <2>4
  <2>5. CASE UNCHANGED <<v5, v6, v7, v11>>
    <3>1. StatusTypes'
      BY <1>t, <2>1, <2>2, <2>5 DEF StatusTypes
    <3> QED  BY <1>q, <2>1, <2>3, <2>5, <3>1
  <2> QED  BY <2>1, <2>4, <2>5
<1> QED
  BY <1>1, <1>2, <1>3, <1>4, <1>6, <1>7, <1>8, <1>9 DEF StatusLine!Next

LEMMA StatusTold ==
  StatusInv => StatusLine!TypeOK /\ StatusLine!BarShowsWhatItHeard /\ StatusLine!RowMeansRunning
<1> SUFFICES ASSUME StatusInv
             PROVE  StatusLine!TypeOK /\ StatusLine!BarShowsWhatItHeard /\ StatusLine!RowMeansRunning
  OBVIOUS
<1> USE TransfersAssumption
<1>t. StatusTypes /\ CellsFollow /\ v6 \in Seq(Notice)
      /\ v8 \in [readOnly : BOOLEAN, chip : BOOLEAN, rows : SUBSET Uploads]
  BY DEF StatusInv, StatusTypes
<1>1. ASSUME NEW e \in StatusLine!ToSet(v6) PROVE e \in Notice /\ e.cell \in StatusLine!Cells /\ e.on \in BOOLEAN
  <2>1. PICK i \in DOMAIN v6 : e = v6[i]
    BY <1>1 DEF StatusLine!ToSet
  <2>2. e \in Notice
    BY <1>t, <2>1
  <2> QED  BY <2>2 DEF Notice
<1>2. StatusLine!TypeOK
  <2>1. {v1, v2, v3, v4, v5} \subseteq BOOLEAN
    BY <1>t DEF StatusTypes
  <2>2. v8.readOnly \in BOOLEAN /\ v8.chip \in BOOLEAN /\ v8.rows \subseteq Uploads
    BY <1>t
  <2> QED  BY <1>t, <1>1, <2>1, <2>2 DEF StatusTypes, StatusLine!TypeOK
<1>3. StatusLine!BarShowsWhatItHeard
  <2>1. ASSUME v6 = <<>>, NEW c \in StatusLine!Cells \ v7 PROVE c \in OnBar <=> c \in SoNow
    <3>1. Shows(c, OnBar) \in Saying(c, SoNow)
      BY <1>t, <2>1, FirstWord DEF CellsFollow
    <3> QED  BY <3>1, SayingCell
  <2>2. /\ v6 = <<>> /\ "mode" \notin v7 => (v8.readOnly = TRUE <=> v3 = TRUE)
        /\ v6 = <<>> /\ "chip" \notin v7 => (v8.chip = TRUE <=> v4 = TRUE)
    BY <1>t, <2>1, EachCell DEF StatusLine!Cells
  <2>3. v8.readOnly \in BOOLEAN /\ v8.chip \in BOOLEAN /\ v3 \in BOOLEAN /\ v4 \in BOOLEAN
    BY <1>t DEF StatusTypes
  <2> QED  BY <2>2, <2>3 DEF StatusLine!BarShowsWhatItHeard
<1>4. StatusLine!RowMeansRunning
  <2> SUFFICES ASSUME NEW u \in v8.rows \ v7, ~Uploading(u)
               PROVE  [cell |-> u, on |-> FALSE] \in StatusLine!ToSet(v6)
    BY DEF StatusLine!RowMeansRunning, Uploading
  <2>1. u \in Uploads /\ u \in StatusLine!Cells
    BY <1>t DEF StatusLine!Cells
  <2>2. u \in OnBar /\ u \notin SoNow
    BY <1>t, <2>1, EachCell
  <2>3. LastWord(Shows(u, OnBar), v6, AboutCell(u), Saying(u, SoNow))
    BY <1>t, <2>1 DEF CellsFollow
  <2>4. Shows(u, OnBar) \notin Saying(u, SoNow)
    BY <2>1, <2>2, SayingCell
  <2>5. PICK i \in 1 .. Len(v6) : v6[i] \in Saying(u, SoNow)
    BY <2>3, <2>4 DEF LastWord
  <2>6. v6[i] = [cell |-> u, on |-> FALSE]
    BY <2>2, <2>5 DEF Saying, AboutCell, Notice
  <2> QED  BY <1>t, <2>5, <2>6 DEF StatusLine!ToSet
<1> QED  BY <1>2, <1>3, <1>4
-----------------------------------------------------------------------------
(***************************************************************************)
(* Start and gaps.  A launch owns its database from sqlite.Open to Close   *)
(* (LaunchInv), and what the dispatcher has once handed out stays          *)
(* accounted for: in the database, in LiveService's buffer, or known lost  *)
(* (Accounted).  The stored positions follow the ones in memory, and those *)
(* count messages that were handed out (PositionInv).  Recovery's variables *)
(* are here v1 stage, v2 db, v3 workers, v4 attached, v5 link, v6 manager, *)
(* v7 tracked, v8 local, v9 stored, v10 hashes, v11 head, v12 feed,        *)
(* v13 seen, v14 mirror, v15 lost, v16 base and v17 faults.                *)
(***************************************************************************)
Accounted == v14 \cup Recovery!Range(v12) \cup v15

EarlyStages == {"down", "audit", "open", "guard", "keymap", "files", "dedup", "built"}
OpenStages == {"guard", "keymap", "files", "dedup", "built", "attaching", "interface", "quitting"}

LaunchInv ==
    /\ v1 \in EarlyStages \cup {"stopping"} => v3 = {}
    /\ "live" \notin v3 => v12 = <<>>
    /\ v1 \in OpenStages => v2
    /\ v1 \in {"down", "stopping"} => ~v2

PositionInv ==
    /\ v6 # "running" => v7 = {}
    /\ v13 \subseteq Accounted
    /\ \A b \in Recovery!Boxes : \A n \in v16[b] + 1 .. v9[b] : <<b, n>> \in Accounted
    /\ \A b \in v7 : \A n \in v16[b] + 1 .. v8[b] : <<b, n>> \in Accounted

RecoveryInv == Recovery!TypeOK /\ LaunchInv /\ PositionInv

LEMMA RangeOfBuffer ==
  ASSUME NEW S, NEW s \in Seq(S)
  PROVE  /\ Recovery!Range(s) \subseteq S
         /\ \A e \in S : Recovery!Range(Append(s, e)) = Recovery!Range(s) \cup {e}
         /\ s # <<>> => Recovery!Range(s) = {Head(s)} \cup Recovery!Range(Tail(s))
<1>1. ASSUME NEW e \in S PROVE Recovery!Range(Append(s, e)) = Recovery!Range(s) \cup {e}
  <2>1. Recovery!Range(Append(s, e)) = {Append(s, e)[i] : i \in 1 .. Len(s) + 1}
    BY DEF Recovery!Range
  <2>2. \A i \in 1 .. Len(s) : Append(s, e)[i] = s[i]
    OBVIOUS
  <2>3. Append(s, e)[Len(s) + 1] = e
    OBVIOUS
  <2> QED  BY <2>1, <2>2, <2>3 DEF Recovery!Range
<1>2. ASSUME s # <<>> PROVE Recovery!Range(s) = {Head(s)} \cup Recovery!Range(Tail(s))
  <2>1. Head(s) = s[1] /\ Len(Tail(s)) = Len(s) - 1 /\ Len(s) \in Nat \ {0}
    BY <1>2
  <2>2. \A i \in 1 .. Len(s) - 1 : Tail(s)[i] = s[i + 1]
    BY <1>2
  <2>3. Tail(s) \in Seq(S)
    BY <1>2
  <2>4. \A i \in 2 .. Len(s) : i - 1 \in 1 .. Len(s) - 1 /\ Tail(s)[i - 1] = s[i]
    BY <2>1, <2>2
  <2>5. Recovery!Range(Tail(s)) = {Tail(s)[i] : i \in 1 .. Len(s) - 1} /\ Recovery!Range(s) = {s[i] : i \in 1 .. Len(s)}
    <3>1. DOMAIN s = 1 .. Len(s) /\ DOMAIN Tail(s) = 1 .. Len(Tail(s))
      BY <2>3
    <3> QED  BY <2>1, <3>1 DEF Recovery!Range
  <2>6. ASSUME NEW x \in Recovery!Range(s) PROVE x = s[1] \/ x \in Recovery!Range(Tail(s))
    <3>1. PICK i \in 1 .. Len(s) : x = s[i]
      BY <2>5, <2>6
    <3> QED  BY <2>1, <2>4, <2>5, <3>1
  <2>7. ASSUME NEW x \in Recovery!Range(Tail(s)) PROVE x \in Recovery!Range(s)
    <3>1. PICK i \in 1 .. Len(s) - 1 : x = Tail(s)[i]
      BY <2>5, <2>7
    <3> QED  BY <2>1, <2>2, <2>5, <3>1
  <2>8. s[1] \in Recovery!Range(s)
    BY <2>1, <2>5
  <2> QED  BY <2>1, <2>6, <2>7, <2>8
<1>3. Recovery!Range(s) \subseteq S
  BY DEF Recovery!Range
<1> QED  BY <1>1, <1>2, <1>3

LEMMA NothingBuffered == Recovery!Range(<<>>) = {}
  BY DEF Recovery!Range

(* The launch goes through the stages of Build in their order.             *)
LEMMA BuildStages ==
  /\ Recovery!Range(Recovery!Building) = {"audit", "open", "guard", "keymap", "files", "dedup"}
  /\ Recovery!After("audit") = "open" /\ Recovery!After("open") = "guard" /\ Recovery!After("guard") = "keymap"
  /\ Recovery!After("keymap") = "files" /\ Recovery!After("files") = "dedup" /\ Recovery!After("dedup") = "built"
<1>1. Len(Recovery!Building) = 6 /\ DOMAIN Recovery!Building = 1 .. 6
  BY DEF Recovery!Building
<1>2. /\ Recovery!Building[1] = "audit" /\ Recovery!Building[2] = "open" /\ Recovery!Building[3] = "guard"
      /\ Recovery!Building[4] = "keymap" /\ Recovery!Building[5] = "files" /\ Recovery!Building[6] = "dedup"
  BY DEF Recovery!Building
<1>3. Recovery!Range(Recovery!Building) = {"audit", "open", "guard", "keymap", "files", "dedup"}
  BY <1>1, <1>2 DEF Recovery!Range
<1>4. \A i, j \in 1 .. 6 : Recovery!Building[i] = Recovery!Building[j] => i = j
  BY <1>2
<1>5. ASSUME NEW i \in 1 .. 6
      PROVE  (CHOOSE k \in 1 .. Len(Recovery!Building) : Recovery!Building[k] = Recovery!Building[i]) = i
  BY <1>1, <1>4
<1>6. ASSUME NEW i \in 1 .. 6
      PROVE  Recovery!After(Recovery!Building[i]) = IF i = 6 THEN "built" ELSE Recovery!Building[i + 1]
  <2> DEFINE k == CHOOSE k \in 1 .. Len(Recovery!Building) : Recovery!Building[k] = Recovery!Building[i]
  <2>1. Recovery!After(Recovery!Building[i]) = IF k = Len(Recovery!Building) THEN "built" ELSE Recovery!Building[k + 1]
    BY DEF Recovery!After
  <2> HIDE DEF k
  <2>2. k = i
    BY <1>5 DEF k
  <2> QED  BY <1>1, <2>1, <2>2
<1>7. Recovery!After(Recovery!Building[6]) = "built"
  BY <1>6
<1>8. /\ Recovery!After(Recovery!Building[1]) = Recovery!Building[1 + 1] /\ Recovery!After(Recovery!Building[2]) = Recovery!Building[2 + 1]
      /\ Recovery!After(Recovery!Building[3]) = Recovery!Building[3 + 1] /\ Recovery!After(Recovery!Building[4]) = Recovery!Building[4 + 1]
      /\ Recovery!After(Recovery!Building[5]) = Recovery!Building[5 + 1]
  BY <1>6
<1> QED  BY <1>2, <1>3, <1>7, <1>8

LEMMA InitRecovery == Recovery!Init => RecoveryInv
<1> SUFFICES ASSUME Recovery!Init PROVE RecoveryInv
  OBVIOUS
<1>1. Recovery!TypeOK
  <2>1. v12 \in Seq(Recovery!Messages) /\ Len(v12) <= Buffer
    BY RecoveryAssumption DEF Recovery!Init
  <2>2. 0 \in 0 .. MaxPts /\ -1 \in -1 .. MaxPts /\ 0 \in 0 .. MaxOutages
    BY RecoveryAssumption
  <2>3. v1 \in Recovery!Stages
    BY DEF Recovery!Init, Recovery!Stages
  <2>4. /\ v8 \in [Recovery!Boxes -> 0 .. MaxPts] /\ v9 \in [Recovery!Boxes -> -1 .. MaxPts]
        /\ v11 \in [Recovery!Boxes -> 0 .. MaxPts] /\ v16 \in [Recovery!Boxes -> 0 .. MaxPts]
    BY <2>2 DEF Recovery!Init
  <2> QED  BY <2>1, <2>2, <2>3, <2>4 DEF Recovery!Init, Recovery!TypeOK
<1>2. LaunchInv
  BY DEF Recovery!Init, LaunchInv, OpenStages
<1>3. PositionInv
  BY DEF Recovery!Init, PositionInv
<1> QED  BY <1>1, <1>2, <1>3 DEF RecoveryInv

(* Handle puts a message it has not seen into the buffer or gives it up.   *)
LEMMA HandleTypes ==
  ASSUME Recovery!TypeOK, NEW m \in Recovery!Messages, Recovery!Handle(m)
  PROVE  /\ v12' \in Seq(Recovery!Messages) /\ Len(v12') <= Buffer
         /\ v13' \cup v14' \cup v15' \subseteq Recovery!Messages
         /\ "live" \notin v3 => v12' = v12
<1>1. CASE v12' = v12 /\ v15' \subseteq v15 \cup {m}
  BY <1>1 DEF Recovery!TypeOK, Recovery!Handle, Recovery!Subscribed
<1>2. CASE v12' = Append(v12, m) /\ v15' = v15 /\ Recovery!Subscribed /\ Len(v12) < Buffer
  <2>1. v12' \in Seq(Recovery!Messages) /\ Len(v12') = Len(v12) + 1 /\ Len(v12) \in Nat
    BY <1>2 DEF Recovery!TypeOK
  <2>2. Len(v12') <= Buffer
    BY <1>2, <2>1, RecoveryAssumption
  <2> QED  BY <1>2, <2>1, <2>2 DEF Recovery!TypeOK, Recovery!Handle, Recovery!Subscribed
<1> QED  BY <1>1, <1>2 DEF Recovery!Handle

LEMMA BufferShrinks ==
  ASSUME Recovery!TypeOK, v12 # <<>>
  PROVE  /\ Head(v12) \in Recovery!Messages
         /\ Tail(v12) \in Seq(Recovery!Messages) /\ Len(Tail(v12)) <= Buffer
<1>1. /\ Head(v12) \in Recovery!Messages /\ Tail(v12) \in Seq(Recovery!Messages)
      /\ Len(Tail(v12)) = Len(v12) - 1 /\ Len(v12) \in Nat /\ Len(v12) <= Buffer
  BY DEF Recovery!TypeOK
<1> QED  BY <1>1, RecoveryAssumption

LEMMA NextRecoveryTypes ==
  ASSUME Recovery!TypeOK, Recovery!Next \/ UNCHANGED Recovery!recoveryVars
  PROVE  Recovery!TypeOK'
<1> USE DEF Recovery!recoveryVars, Recovery!launch, Recovery!session, Recovery!rows,
   Recovery!messages, Recovery!Fault, Recovery!Calm
<1>e. ASSUME v12' = <<>> PROVE v12' \in Seq(Recovery!Messages) /\ Len(v12') <= Buffer
  BY <1>e, RecoveryAssumption
<1>r. ASSUME NEW after, Recovery!RunEnds(after)
      PROVE  /\ v6' = after /\ v7' \subseteq Recovery!Boxes
             /\ v8' \in [Recovery!Boxes -> 0 .. MaxPts]
  <2>1. 0 \in 0 .. MaxPts
    BY RecoveryAssumption
  <2> QED  BY <1>r, <2>1 DEF Recovery!RunEnds
<1>m. Recovery!Ran \in {"new", "running", "ran"}
  BY DEF Recovery!Ran, Recovery!TypeOK
<1>f. ASSUME Recovery!Fault \/ Recovery!Calm PROVE v17' \in 0 .. MaxOutages
  BY <1>f, RecoveryAssumption DEF Recovery!TypeOK
<1>s. {"down", "audit", "built", "attaching", "interface", "quitting", "stopping"} \subseteq Recovery!Stages
  BY BuildStages DEF Recovery!Stages
<1>b. Recovery!Background \in SUBSET Recovery!Background
  OBVIOUS
<1>g. Recovery!Range(v12) \subseteq Recovery!Messages
  BY RangeOfBuffer DEF Recovery!TypeOK
<1>1. CASE Recovery!Launch \/ Recovery!RunBackground \/ Recovery!AttachClient \/ Recovery!Quit
  <2>1. v1' \in Recovery!Stages
    BY <1>1, <1>s DEF Recovery!Launch, Recovery!RunBackground, Recovery!AttachClient,
       Recovery!Quit
  <2>2. v17' \in 0 .. MaxOutages
    BY <1>1, <1>f DEF Recovery!Launch, Recovery!RunBackground, Recovery!AttachClient,
       Recovery!Quit
  <2> QED  BY <1>1, <2>1, <2>2 DEF Recovery!Launch, Recovery!RunBackground,
     Recovery!AttachClient, Recovery!Quit, Recovery!TypeOK
<1>2. CASE Recovery!Build
  <2>1. v1' \in Recovery!Stages
    BY <1>2, BuildStages DEF Recovery!Build, Recovery!Stages
  <2>2. v2' \in BOOLEAN
    BY <1>2 DEF Recovery!Build, Recovery!TypeOK
  <2> QED  BY <1>2, <2>1, <2>2 DEF Recovery!Build, Recovery!TypeOK
<1>3. CASE Recovery!BuildFails \/ Recovery!BackgroundDone
  <2>1. v1' \in Recovery!Stages /\ v17' \in 0 .. MaxOutages
    BY <1>3, <1>s, <1>f DEF Recovery!BuildFails, Recovery!BackgroundDone
  <2> QED  BY <1>3, <2>1 DEF Recovery!BuildFails, Recovery!BackgroundDone, Recovery!TypeOK
<1>4. CASE Recovery!AttachFails
  <2>1. v1' \in Recovery!Stages /\ v17' \in 0 .. MaxOutages
    BY <1>4, <1>s, <1>f DEF Recovery!AttachFails
  <2>2. /\ v6' \in {"new", "running", "ran"} /\ v7' \subseteq Recovery!Boxes
        /\ v8' \in [Recovery!Boxes -> 0 .. MaxPts]
    BY <1>4, <1>r, <1>m DEF Recovery!AttachFails
  <2> QED  BY <1>4, <2>1, <2>2 DEF Recovery!AttachFails, Recovery!TypeOK
<1>5. CASE Recovery!Exit \/ Recovery!Crash
  <2>1. v1' \in Recovery!Stages /\ v17' \in 0 .. MaxOutages
    BY <1>5, <1>s, <1>f DEF Recovery!Exit, Recovery!Crash
  <2>2. /\ v6' \in {"new", "running", "ran"} /\ v7' \subseteq Recovery!Boxes
        /\ v8' \in [Recovery!Boxes -> 0 .. MaxPts]
    BY <1>5, <1>r DEF Recovery!Exit, Recovery!Crash
  <2>3. v12' \in Seq(Recovery!Messages) /\ Len(v12') <= Buffer
    BY <1>5, <1>e DEF Recovery!Exit, Recovery!Crash
  <2>4. v13' \cup v14' \cup v15' \subseteq Recovery!Messages
    BY <1>5, <1>g DEF Recovery!Exit, Recovery!Crash, Recovery!TypeOK
  <2> QED  BY <1>5, <2>1, <2>2, <2>3, <2>4 DEF Recovery!Exit, Recovery!Crash, Recovery!TypeOK
<1>6. CASE Recovery!SessionUp
  BY <1>6, <1>f DEF Recovery!SessionUp, Recovery!TypeOK
<1>7. CASE Recovery!SessionDown
  <2>1. v17' \in 0 .. MaxOutages
    BY <1>7, <1>f DEF Recovery!SessionDown
  <2>2. /\ v6' \in {"new", "running", "ran"} /\ v7' \subseteq Recovery!Boxes
        /\ v8' \in [Recovery!Boxes -> 0 .. MaxPts]
    BY <1>7, <1>r, <1>m DEF Recovery!SessionDown
  <2> QED  BY <1>7, <2>1, <2>2 DEF Recovery!SessionDown, Recovery!TypeOK
<1>8. CASE Recovery!RunManager
  <2>1. Account \in Recovery!Boxes /\ Channels \subseteq Recovery!Boxes /\ 0 \in 0 .. MaxPts
    BY RecoveryAssumption DEF Recovery!Boxes
  <2>2. v7' \subseteq Recovery!Boxes
    BY <1>8, <2>1 DEF Recovery!RunManager, Recovery!Resume
  <2>3. \A b \in v7' : b # Account => v9[b] # -1
    BY <1>8 DEF Recovery!RunManager, Recovery!Resume
  <2>4. ASSUME NEW b \in Recovery!Boxes PROVE v8'[b] \in 0 .. MaxPts
    <3>1. v9[b] \in -1 .. MaxPts /\ v11[b] \in 0 .. MaxPts
      BY DEF Recovery!TypeOK
    <3>2. v9[b] # -1 => v9[b] \in 0 .. MaxPts
      BY <3>1, RecoveryAssumption
    <3> QED  BY <1>8, <2>1, <2>3, <3>1, <3>2 DEF Recovery!RunManager, Recovery!Resume
  <2>5. v8' \in [Recovery!Boxes -> 0 .. MaxPts]
    BY <1>8, <2>4 DEF Recovery!RunManager, Recovery!Resume
  <2>6. \A n \in 0 .. MaxPts : n \in -1 .. MaxPts
    BY RecoveryAssumption
  <2>7. v9' \in [Recovery!Boxes -> -1 .. MaxPts]
    BY <1>8, <2>1, <2>4, <2>6 DEF Recovery!RunManager, Recovery!Resume, Recovery!TypeOK
  <2>8. v16' \in [Recovery!Boxes -> 0 .. MaxPts]
    BY <1>8, <2>1 DEF Recovery!RunManager, Recovery!Resume, Recovery!TypeOK
  <2> QED  BY <1>8, <2>2, <2>5, <2>7, <2>8 DEF Recovery!RunManager, Recovery!TypeOK
<1>9. CASE Recovery!Persist
  BY <1>9, BufferShrinks DEF Recovery!Persist, Recovery!TypeOK
<1>10. ASSUME NEW b \in Recovery!Boxes, Recovery!Deliver(b) PROVE Recovery!TypeOK'
  <2>1. v8[b] \in 0 .. MaxPts /\ v11[b] \in 0 .. MaxPts
    BY DEF Recovery!TypeOK
  <2>2. v8[b] + 1 \in 1 .. MaxPts /\ v8[b] + 1 \in 0 .. MaxPts
    BY <1>10, <2>1, RecoveryAssumption DEF Recovery!Deliver
  <2>3. <<b, v8[b] + 1>> \in Recovery!Messages
    BY <2>2 DEF Recovery!Messages
  <2>4. /\ v12' \in Seq(Recovery!Messages) /\ Len(v12') <= Buffer
        /\ v13' \cup v14' \cup v15' \subseteq Recovery!Messages
    BY <1>10, <2>3, HandleTypes DEF Recovery!Deliver
  <2> QED  BY <1>10, <2>2, <2>4 DEF Recovery!Deliver, Recovery!TypeOK
<1>11. ASSUME NEW b \in Recovery!Boxes, Recovery!Acknowledge(b) PROVE Recovery!TypeOK'
  <2>1. v8[b] \in -1 .. MaxPts
    BY RecoveryAssumption DEF Recovery!TypeOK
  <2> QED  BY <1>11, <2>1 DEF Recovery!Acknowledge, Recovery!TypeOK
<1>12. ASSUME NEW b \in Recovery!Boxes, Recovery!TooLong(b) PROVE Recovery!TypeOK'
  <2>1. {b} \X (v8[b] + 1 .. v11[b]) \subseteq Recovery!Messages
    <3>1. v8[b] \in 0 .. MaxPts /\ v11[b] \in 0 .. MaxPts
      BY DEF Recovery!TypeOK
    <3>2. v8[b] + 1 .. v11[b] \subseteq 1 .. MaxPts
      BY <3>1, RecoveryAssumption
    <3> QED  BY <3>2 DEF Recovery!Messages
  <2>2. v13' \cup v14' \cup v15' \subseteq Recovery!Messages
    BY <1>12, <2>1 DEF Recovery!TooLong, Recovery!TypeOK
  <2> QED  BY <1>12, <1>f, <2>2 DEF Recovery!TooLong, Recovery!TypeOK
<1>13. ASSUME NEW b \in Recovery!Boxes, Recovery!PassThrough(b) PROVE Recovery!TypeOK'
  <2>1. v11[b] \in 1 .. MaxPts
    BY <1>13, RecoveryAssumption DEF Recovery!PassThrough, Recovery!TypeOK
  <2>2. <<b, v11[b]>> \in Recovery!Messages
    BY <2>1 DEF Recovery!Messages
  <2>3. /\ v12' \in Seq(Recovery!Messages) /\ Len(v12') <= Buffer
        /\ v13' \cup v14' \cup v15' \subseteq Recovery!Messages
    BY <1>13, <2>2, HandleTypes DEF Recovery!PassThrough
  <2> QED  BY <1>13, <2>3 DEF Recovery!PassThrough, Recovery!TypeOK
<1>14. ASSUME NEW b \in Recovery!Boxes, Recovery!ServerSends(b) PROVE Recovery!TypeOK'
  <2>1. v11[b] + 1 \in 0 .. MaxPts
    BY <1>14, RecoveryAssumption DEF Recovery!ServerSends, Recovery!TypeOK
  <2> QED  BY <1>14, <2>1 DEF Recovery!ServerSends, Recovery!TypeOK
<1>15. ASSUME NEW c \in Channels, Recovery!FollowChannel(c) PROVE Recovery!TypeOK'
  <2>1. c \in Recovery!Boxes /\ v11[c] \in 0 .. MaxPts /\ v9[c] \in -1 .. MaxPts
    BY DEF Recovery!Boxes, Recovery!TypeOK
  <2> DEFINE from == IF v9[c] = -1 THEN v11[c] - 1 ELSE v9[c]
  <2>2. from \in 0 .. MaxPts /\ from \in -1 .. MaxPts
    BY <1>15, <2>1, RecoveryAssumption DEF Recovery!FollowChannel
  <2>3. /\ v8' = [v8 EXCEPT ![c] = from] /\ v9' = [v9 EXCEPT ![c] = from]
        /\ v16' = IF v9[c] = -1 THEN [v16 EXCEPT ![c] = from] ELSE v16
    BY <1>15 DEF Recovery!FollowChannel
  <2> HIDE DEF from
  <2>4. /\ v8' \in [Recovery!Boxes -> 0 .. MaxPts] /\ v9' \in [Recovery!Boxes -> -1 .. MaxPts]
        /\ v16' \in [Recovery!Boxes -> 0 .. MaxPts]
    BY <2>1, <2>2, <2>3 DEF Recovery!TypeOK
  <2> QED  BY <1>15, <2>1, <2>4 DEF Recovery!FollowChannel, Recovery!TypeOK
<1>16. ASSUME NEW w \in Recovery!Background, Recovery!WorkerStops(w) PROVE Recovery!TypeOK'
  <2>1. v12' \in Seq(Recovery!Messages) /\ Len(v12') <= Buffer
    BY <1>16, <1>e DEF Recovery!WorkerStops, Recovery!TypeOK
  <2>2. v15' \subseteq Recovery!Messages
    BY <1>16, <1>g DEF Recovery!WorkerStops, Recovery!TypeOK
  <2> QED  BY <1>16, <2>1, <2>2 DEF Recovery!WorkerStops, Recovery!TypeOK
<1>17. CASE UNCHANGED Recovery!recoveryVars
  BY <1>17 DEF Recovery!TypeOK
<1> QED
  BY <1>1, <1>2, <1>3, <1>4, <1>5, <1>6, <1>7, <1>8, <1>9, <1>10, <1>11, <1>12, <1>13,
     <1>14, <1>15, <1>16, <1>17 DEF Recovery!Next

LEMMA NextLaunch ==
  ASSUME Recovery!TypeOK, LaunchInv, Recovery!Next \/ UNCHANGED Recovery!recoveryVars
  PROVE  LaunchInv'
<1> USE DEF Recovery!recoveryVars, Recovery!launch, Recovery!session, Recovery!rows,
   Recovery!messages, LaunchInv
<1>w. v3 \subseteq {"live", "watchers"}
  BY DEF Recovery!TypeOK, Recovery!Background
<1>1. CASE Recovery!Launch \/ Recovery!AttachFails \/ Recovery!AttachClient \/ Recovery!Quit
  BY <1>1 DEF Recovery!Launch, Recovery!AttachFails, Recovery!AttachClient, Recovery!Quit,
     EarlyStages, OpenStages
<1>2. CASE Recovery!Build
  BY <1>2, BuildStages DEF Recovery!Build, EarlyStages, OpenStages
<1>3. CASE Recovery!BuildFails
  BY <1>3, BuildStages DEF Recovery!BuildFails, EarlyStages, OpenStages
<1>4. CASE Recovery!RunBackground
  BY <1>4 DEF Recovery!RunBackground, EarlyStages, OpenStages, Recovery!Background
<1>5. CASE Recovery!BackgroundDone
  BY <1>5 DEF Recovery!BackgroundDone, EarlyStages, OpenStages
<1>6. CASE Recovery!Exit \/ Recovery!Crash
  BY <1>6 DEF Recovery!Exit, Recovery!Crash, OpenStages
<1>7. CASE Recovery!SessionUp \/ Recovery!SessionDown \/ Recovery!RunManager
  BY <1>7 DEF Recovery!SessionUp, Recovery!SessionDown, Recovery!RunManager
<1>8. CASE Recovery!Persist
  BY <1>8 DEF Recovery!Persist
<1>9. ASSUME NEW b \in Recovery!Boxes, Recovery!Deliver(b) \/ Recovery!PassThrough(b) PROVE LaunchInv'
  <2>1. PICK m : Recovery!Handle(m)
    BY <1>9 DEF Recovery!Deliver, Recovery!PassThrough
  <2>2. "live" \notin v3 => v12' = v12
    BY <2>1 DEF Recovery!Handle, Recovery!Subscribed
  <2> QED  BY <1>9, <2>2 DEF Recovery!Deliver, Recovery!PassThrough
<1>10. ASSUME NEW b \in Recovery!Boxes, Recovery!Acknowledge(b) \/ Recovery!TooLong(b) \/ Recovery!ServerSends(b) PROVE LaunchInv'
  BY <1>10 DEF Recovery!Acknowledge, Recovery!TooLong, Recovery!ServerSends
<1>11. ASSUME NEW c \in Channels, Recovery!FollowChannel(c) PROVE LaunchInv'
  BY <1>11 DEF Recovery!FollowChannel
<1>12. ASSUME NEW w \in Recovery!Background, Recovery!WorkerStops(w) PROVE LaunchInv'
  BY <1>12 DEF Recovery!WorkerStops
<1>13. CASE UNCHANGED Recovery!recoveryVars
  BY <1>13
<1> QED
  BY <1>1, <1>2, <1>3, <1>4, <1>5, <1>6, <1>7, <1>8, <1>9, <1>10, <1>11, <1>12,
     <1>13 DEF Recovery!Next

(* Whatever a step does to a message that was handed out, it stays         *)
(* accounted for, and the filter only knows such messages.                 *)
LEMMA HandleAccounts ==
  ASSUME Recovery!TypeOK, v13 \subseteq Accounted, NEW m \in Recovery!Messages, Recovery!Handle(m)
  PROVE  Accounted \cup {m} \subseteq Accounted' /\ v13' \subseteq Accounted'
<1>1. CASE m \in v13
  BY <1>1 DEF Recovery!Handle, Accounted
<1>2. CASE m \notin v13 /\ v15' = v15 \cup {m} /\ v12' = v12
  BY <1>2 DEF Recovery!Handle, Accounted
<1>3. CASE m \notin v13 /\ v15' = v15 /\ v12' = Append(v12, m)
  <2>1. Recovery!Range(v12') = Recovery!Range(v12) \cup {m}
    BY <1>3, RangeOfBuffer DEF Recovery!TypeOK
  <2> QED  BY <1>3, <2>1 DEF Recovery!Handle, Accounted
<1> QED  BY <1>1, <1>2, <1>3 DEF Recovery!Handle

LEMMA StepAccounts ==
  ASSUME Recovery!TypeOK, LaunchInv, v13 \subseteq Accounted, Recovery!Next \/ UNCHANGED Recovery!recoveryVars
  PROVE  Accounted \subseteq Accounted' /\ v13' \subseteq Accounted'
<1> USE DEF Recovery!recoveryVars, Recovery!launch, Recovery!session, Recovery!rows,
   Recovery!messages
<1>1. CASE UNCHANGED <<v12, v13, v14, v15>>
  BY <1>1 DEF Accounted
<1>2. CASE Recovery!Exit
  <2>1. v12 = <<>>
    BY <1>2 DEF Recovery!Exit, LaunchInv
  <2> QED  BY <1>2, <2>1 DEF Recovery!Exit, Accounted
<1>3. CASE Recovery!Crash
  BY <1>3 DEF Recovery!Crash, Accounted
<1>4. CASE Recovery!Persist
  <2>1. Recovery!Range(v12) = {Head(v12)} \cup Recovery!Range(Tail(v12))
    BY <1>4, RangeOfBuffer DEF Recovery!Persist, Recovery!TypeOK
  <2> QED  BY <1>4, <2>1 DEF Recovery!Persist, Accounted
<1>5. ASSUME NEW b \in Recovery!Boxes, Recovery!Deliver(b) \/ Recovery!PassThrough(b)
      PROVE  Accounted \subseteq Accounted' /\ v13' \subseteq Accounted'
  <2>1. v8[b] \in 0 .. MaxPts /\ v11[b] \in 0 .. MaxPts
    BY DEF Recovery!TypeOK
  <2>2. Recovery!Deliver(b) => v8[b] + 1 \in 1 .. MaxPts
    BY <2>1, RecoveryAssumption DEF Recovery!Deliver
  <2>3. Recovery!PassThrough(b) => v11[b] \in 1 .. MaxPts
    BY <2>1, RecoveryAssumption DEF Recovery!PassThrough
  <2>4. PICK m \in Recovery!Messages : Recovery!Handle(m)
    BY <1>5, <2>2, <2>3 DEF Recovery!Deliver, Recovery!PassThrough, Recovery!Messages
  <2> QED  BY <2>4, HandleAccounts
<1>6. ASSUME NEW b \in Recovery!Boxes, Recovery!TooLong(b)
      PROVE  Accounted \subseteq Accounted' /\ v13' \subseteq Accounted'
  BY <1>6 DEF Recovery!TooLong, Accounted
<1>7. ASSUME NEW w \in Recovery!Background, Recovery!WorkerStops(w)
      PROVE  Accounted \subseteq Accounted' /\ v13' \subseteq Accounted'
  BY <1>7 DEF Recovery!WorkerStops, Accounted
<1>8. CASE \E b \in Recovery!Boxes : Recovery!Acknowledge(b) \/ Recovery!ServerSends(b)
  BY <1>8, <1>1 DEF Recovery!Acknowledge, Recovery!ServerSends
<1>9. CASE \E c \in Channels : Recovery!FollowChannel(c)
  BY <1>9, <1>1 DEF Recovery!FollowChannel
<1> QED
  BY <1>1, <1>2, <1>3, <1>4, <1>5, <1>6, <1>7, <1>8, <1>9
     DEF Recovery!Next, Recovery!Launch, Recovery!Build, Recovery!BuildFails,
        Recovery!RunBackground, Recovery!AttachFails, Recovery!AttachClient, Recovery!Quit,
         Recovery!BackgroundDone, Recovery!SessionUp, Recovery!SessionDown, Recovery!RunManager

LEMMA NextPosition ==
  ASSUME Recovery!TypeOK, LaunchInv, PositionInv, Recovery!Next \/ UNCHANGED Recovery!recoveryVars
  PROVE  PositionInv'
<1> USE DEF Recovery!recoveryVars, Recovery!launch, Recovery!session, Recovery!rows,
   Recovery!messages
<1>a. Accounted \subseteq Accounted' /\ v13' \subseteq Accounted'
  BY StepAccounts DEF PositionInv
<1> DEFINE Told(b, upto) == \A n \in v16'[b] + 1 .. upto : <<b, n>> \in Accounted'
<1>b. SUFFICES /\ v6' # "running" => v7' = {}
               /\ \A b \in Recovery!Boxes : Told(b, v9'[b])
               /\ \A b \in v7' : Told(b, v8'[b])
  BY <1>a DEF PositionInv
<1>c. ASSUME UNCHANGED v16
      PROVE  /\ \A b \in Recovery!Boxes : Told(b, v9[b])
             /\ \A b \in v7 : Told(b, v8[b])
  BY <1>a, <1>c DEF PositionInv
<1>t. v7 \subseteq Recovery!Boxes
  BY DEF Recovery!TypeOK
<1>1. CASE UNCHANGED <<Recovery!rows, v6, v7, v8>>
  BY <1>1, <1>c DEF PositionInv
<1>2. CASE UNCHANGED Recovery!rows /\ v6' # "running" /\ v7' = {}
  BY <1>2, <1>c
<1>3. CASE Recovery!AttachFails \/ Recovery!SessionDown \/ Recovery!Exit \/ Recovery!Crash
  <2>1. Recovery!Ran # "running"
    BY DEF Recovery!Ran
  <2> QED  BY <1>2, <1>3, <2>1 DEF Recovery!AttachFails, Recovery!SessionDown, Recovery!Exit,
     Recovery!Crash, Recovery!RunEnds
<1>4. CASE Recovery!RunManager
  <2> DEFINE found == v9[Account] # -1
  <2>1. Account \in Recovery!Boxes /\ v9 \in [Recovery!Boxes -> -1 .. MaxPts] /\ v11[Account] \in 0 .. MaxPts
        /\ v16 \in [Recovery!Boxes -> 0 .. MaxPts]
    BY DEF Recovery!Boxes, Recovery!TypeOK
  <2>2. /\ v7' \subseteq Recovery!Boxes /\ v6' = "running"
        /\ \A b \in v7' : v8'[b] = IF b = Account /\ ~found THEN v11[b] ELSE v9[b]
        /\ v8'[Account] = IF ~found THEN v11[Account] ELSE v9[Account]
        /\ v9' = [v9 EXCEPT ![Account] = v8'[Account]]
        /\ v16' = IF found THEN v16 ELSE [v16 EXCEPT ![Account] = v11[Account]]
    BY <1>4, <2>1 DEF Recovery!RunManager, Recovery!Resume, Recovery!Boxes
  <2>3. CASE found
    BY <1>c, <2>1, <2>2, <2>3
  <2>4. CASE ~found
    <3>1. v16'[Account] = v11[Account] /\ v9'[Account] = v11[Account]
          /\ v8'[Account] = v11[Account]
      BY <2>1, <2>2, <2>4
    <3>2. Told(Account, v11[Account])
      BY <2>1, <3>1
    <3>3. \A b \in Recovery!Boxes \ {Account} : v16'[b] = v16[b] /\ v9'[b] = v9[b]
                                        /\ Told(b, v9[b])
      BY <1>a, <2>1, <2>2, <2>4 DEF PositionInv
    <3> QED  BY <2>2, <2>4, <3>1, <3>2, <3>3
  <2> QED  BY <2>3, <2>4
<1>5. ASSUME NEW b \in Recovery!Boxes, Recovery!Deliver(b) \/ Recovery!TooLong(b)
      PROVE  /\ v6' # "running" => v7' = {}
             /\ \A d \in Recovery!Boxes : Told(d, v9'[d])
             /\ \A d \in v7' : Told(d, v8'[d])
  <2>1. /\ v6 = "running" /\ v6' = v6 /\ b \in v7 /\ v7' = v7
        /\ UNCHANGED Recovery!rows
    BY <1>5 DEF Recovery!Deliver, Recovery!TooLong, Recovery!Following
  <2>2. /\ v8 \in [Recovery!Boxes -> 0 .. MaxPts] /\ v11[b] \in 0 .. MaxPts
        /\ v16 \in [Recovery!Boxes -> 0 .. MaxPts]
    BY DEF Recovery!TypeOK
  <2>3. v8' = [v8 EXCEPT ![b] = v8'[b]] /\ v8[b] < v11[b]
        /\ v8'[b] \in 0 .. MaxPts
    BY <1>5, <2>2, RecoveryAssumption DEF Recovery!Deliver, Recovery!TooLong
  <2>4. \A n \in v8[b] + 1 .. v8'[b] : <<b, n>> \in Accounted'
    <3>1. CASE Recovery!Deliver(b)
      <4>1. v8'[b] = v8[b] + 1 /\ v8[b] + 1 \in 1 .. MaxPts
        BY <2>2, <3>1, RecoveryAssumption DEF Recovery!Deliver
      <4>2. <<b, v8[b] + 1>> \in Recovery!Messages
        BY <4>1 DEF Recovery!Messages
      <4>3. <<b, v8[b] + 1>> \in Accounted'
        BY <3>1, <4>2, HandleAccounts DEF Recovery!Deliver, PositionInv
      <4> QED  BY <2>2, <4>1, <4>3
    <3>2. CASE Recovery!TooLong(b)
      <4>1. v8'[b] = v11[b] /\ v15' = v15 \cup {m \in {b} \X (v8[b] + 1 .. v11[b]) : m \notin v13}
        BY <2>2, <3>2 DEF Recovery!TooLong
      <4>2. ASSUME NEW n \in v8[b] + 1 .. v11[b] PROVE <<b, n>> \in v13 \/ <<b, n>> \in v15'
        BY <4>1
      <4> QED  BY <1>a, <4>1, <4>2 DEF PositionInv, Accounted
    <3> QED  BY <1>5, <3>1, <3>2
  <2>5. \A n \in v16[b] + 1 .. v8'[b] : n \in v16[b] + 1 .. v8[b] \/ n \in v8[b] + 1 .. v8'[b]
    BY <2>2, <2>3
  <2>6. \A d \in v7 : Told(d, v8'[d])
    <3>1. Told(b, v8'[b])
      BY <1>c, <2>1, <2>4, <2>5
    <3>2. \A d \in v7 \ {b} : v8'[d] = v8[d]
      BY <1>t, <2>2, <2>3
    <3>3. \A d \in v7 : Told(d, v8[d])
      BY <1>c, <2>1
    <3>4. ASSUME NEW d \in v7 \ {b} PROVE Told(d, v8'[d])
      BY <3>2, <3>3, <3>4
    <3> QED  BY <3>1, <3>4
  <2> QED  BY <1>c, <2>1, <2>6
<1>6. ASSUME NEW b \in Recovery!Boxes, Recovery!Acknowledge(b)
      PROVE  /\ v6' # "running" => v7' = {}
             /\ \A d \in Recovery!Boxes : Told(d, v9'[d])
             /\ \A d \in v7' : Told(d, v8'[d])
  <2>1. b \in v7 /\ UNCHANGED <<v16, Recovery!session>> /\ v9' = [v9 EXCEPT ![b] = v8[b]]
        /\ v6 = "running"
    BY <1>6 DEF Recovery!Acknowledge, Recovery!Following
  <2>2. \A d \in Recovery!Boxes : v9'[d] = IF d = b THEN v8[b] ELSE v9[d]
    BY <2>1 DEF Recovery!TypeOK
  <2> QED  BY <1>c, <2>1, <2>2
<1>7. ASSUME NEW c \in Channels, Recovery!FollowChannel(c)
      PROVE  /\ v6' # "running" => v7' = {}
             /\ \A d \in Recovery!Boxes : Told(d, v9'[d])
             /\ \A d \in v7' : Told(d, v8'[d])
  <2> DEFINE from == IF v9[c] = -1 THEN v11[c] - 1 ELSE v9[c]
  <2>1. /\ v7' = v7 \cup {c} /\ v6' = "running" /\ v11[c] > 0
        /\ v8' = [v8 EXCEPT ![c] = from] /\ v9' = [v9 EXCEPT ![c] = from]
        /\ v16' = IF v9[c] = -1 THEN [v16 EXCEPT ![c] = from] ELSE v16
    BY <1>7 DEF Recovery!FollowChannel
  <2>2. c \in Recovery!Boxes /\ v11[c] \in 0 .. MaxPts /\ v9[c] \in -1 .. MaxPts
    BY DEF Recovery!Boxes, Recovery!TypeOK
  <2>3. from \in Int
    BY <2>2, RecoveryAssumption
  <2> HIDE DEF from
  <2>4. v8'[c] = from /\ v9'[c] = from
        /\ \A d \in Recovery!Boxes \ {c} : v8'[d] = v8[d] /\ v9'[d] = v9[d] /\ v16'[d] = v16[d]
    BY <2>1, <2>2 DEF Recovery!TypeOK
  <2>5. Told(c, from)
    <3>1. CASE v9[c] = -1
      <4>1. v16'[c] = from
        BY <2>1, <2>2, <3>1 DEF Recovery!TypeOK
      <4> QED  BY <2>3, <4>1
    <3>2. CASE v9[c] # -1
      BY <1>a, <2>1, <2>2, <3>2 DEF PositionInv, from
    <3> QED  BY <3>1, <3>2
  <2>6. \A d \in Recovery!Boxes \ {c} : Told(d, v9[d])
    BY <1>a, <2>4 DEF PositionInv
  <2>7. \A d \in v7 \ {c} : Told(d, v8[d])
    BY <1>a, <1>t, <2>4 DEF PositionInv
  <2> QED  BY <1>t, <2>1, <2>4, <2>5, <2>6, <2>7
<1>8. CASE \/ \E b \in Recovery!Boxes : Recovery!PassThrough(b) \/ Recovery!ServerSends(b)
           \/ \E w \in Recovery!Background : Recovery!WorkerStops(w)
  BY <1>1, <1>8 DEF Recovery!PassThrough, Recovery!ServerSends, Recovery!WorkerStops
<1> QED
  BY <1>1, <1>3, <1>4, <1>5, <1>6, <1>7, <1>8
     DEF Recovery!Next, Recovery!Launch, Recovery!Build, Recovery!BuildFails,
        Recovery!RunBackground, Recovery!AttachClient, Recovery!Quit,
         Recovery!BackgroundDone, Recovery!SessionUp, Recovery!Persist

LEMMA NextRecovery == ASSUME RecoveryInv, Recovery!Next \/ UNCHANGED Recovery!recoveryVars PROVE RecoveryInv'
BY NextRecoveryTypes, NextLaunch, NextPosition DEF RecoveryInv

LEMMA AlwaysRecovery == Recovery!Spec => []RecoveryInv
BY InitRecovery, NextRecovery, PTL DEF Recovery!Spec

LEMMA RecoveryHolds == RecoveryInv => Recovery!DatabaseOwned /\ Recovery!PtsFollowsDelivery
<1> SUFFICES ASSUME RecoveryInv PROVE Recovery!DatabaseOwned /\ Recovery!PtsFollowsDelivery
  OBVIOUS
<1>1. v3 # {} => v1 \in OpenStages
  BY BuildStages DEF RecoveryInv, Recovery!TypeOK, LaunchInv, Recovery!Stages, EarlyStages,
     OpenStages
<1>2. Recovery!DatabaseOwned
  BY <1>1 DEF RecoveryInv, LaunchInv, Recovery!DatabaseOwned
<1>3. Recovery!PtsFollowsDelivery
  BY DEF RecoveryInv, PositionInv, Recovery!PtsFollowsDelivery, Accounted
<1> QED  BY <1>2, <1>3

(* Nothing of RunBackground works on a closed database, and every launch   *)
(* that ends, completed or failed half way, has closed the one it opened.  *)
THEOREM DatabaseIsOwned == Recovery!Spec => []Recovery!DatabaseOwned
BY AlwaysRecovery, RecoveryHolds, PTL

(* A stored position never passes a message that was not handed out: what  *)
(* a later run will not ask the server for is in the database, on its way  *)
(* there, or was given up knowingly.                                       *)
THEOREM PositionsFollowDelivery == Recovery!Spec => []Recovery!PtsFollowsDelivery
BY AlwaysRecovery, RecoveryHolds, PTL

(* A position never goes back, and the place it is counted from stays: so  *)
(* the theorem above cannot hold by forgetting where a box began.          *)
THEOREM PositionsOnlyAdvance == Recovery!Spec => Recovery!PositionsAdvance
<1> DEFINE Advances == \A b \in Recovery!Boxes : v9[b] # -1 => v16'[b] = v16[b] /\ v9'[b] >= v9[b]
<1>1. ASSUME RecoveryInv, Recovery!Next \/ UNCHANGED Recovery!recoveryVars PROVE Advances
  <2> USE DEF Recovery!recoveryVars, Recovery!launch, Recovery!session, Recovery!rows,
     Recovery!messages
  <2>t. /\ v9 \in [Recovery!Boxes -> -1 .. MaxPts] /\ v8 \in [Recovery!Boxes -> 0 .. MaxPts]
        /\ v16 \in [Recovery!Boxes -> 0 .. MaxPts]
    BY <1>1 DEF RecoveryInv, Recovery!TypeOK
  <2>1. CASE UNCHANGED <<v9, v16>>
    BY <2>1, <2>t, RecoveryAssumption
  <2>2. CASE Recovery!RunManager
    <3>1. Account \in Recovery!Boxes
      BY DEF Recovery!Boxes
    <3>2. v9' = [v9 EXCEPT ![Account] = v8'[Account]]
          /\ (v9[Account] # -1 => v8'[Account] = v9[Account] /\ v16' = v16)
          /\ \A b \in Recovery!Boxes \ {Account} : v16'[b] = v16[b]
      BY <2>2, <2>t, <3>1 DEF Recovery!RunManager, Recovery!Resume
    <3> QED  BY <2>t, <3>1, <3>2, RecoveryAssumption
  <2>3. ASSUME NEW b \in Recovery!Boxes, Recovery!Acknowledge(b) PROVE Advances
    BY <2>3, <2>t, RecoveryAssumption DEF Recovery!Acknowledge
  <2>4. ASSUME NEW c \in Channels, Recovery!FollowChannel(c) PROVE Advances
    <3> DEFINE from == IF v9[c] = -1 THEN v11[c] - 1 ELSE v9[c]
    <3>1. v9' = [v9 EXCEPT ![c] = from]
          /\ v16' = IF v9[c] = -1 THEN [v16 EXCEPT ![c] = from] ELSE v16
      BY <2>4 DEF Recovery!FollowChannel
    <3>2. CASE v9[c] = -1
      <4> HIDE DEF from
      <4> QED  BY <2>t, <3>1, <3>2, RecoveryAssumption
    <3>3. CASE v9[c] # -1
      BY <2>t, <3>1, <3>3, RecoveryAssumption
    <3> QED  BY <3>2, <3>3
  <2> QED
    BY <1>1, <2>1, <2>2, <2>3, <2>4
       DEF Recovery!Next, Recovery!Launch, Recovery!Build, Recovery!BuildFails,
          Recovery!RunBackground, Recovery!AttachFails, Recovery!AttachClient, Recovery!Quit,
           Recovery!BackgroundDone, Recovery!Exit, Recovery!Crash, Recovery!SessionUp,
           Recovery!SessionDown, Recovery!Persist, Recovery!Deliver, Recovery!TooLong,
           Recovery!PassThrough, Recovery!ServerSends, Recovery!WorkerStops
<1> QED  BY AlwaysRecovery, <1>1, PTL DEF Recovery!Spec, Recovery!PositionsAdvance

-----------------------------------------------------------------------------
(***************************************************************************)
(* Typing: a timer is armed by a notice, so there are never more of them.  *)
(***************************************************************************)
TypingInv == Typing!TypeOK /\ v3 <= v4

LEMMA InitTyping == Typing!Init => TypingInv
BY TypingAssumption DEF Typing!Init, TypingInv, Typing!TypeOK, Typing!BothChats

LEMMA NextTyping ==
  ASSUME TypingInv, Typing!Next \/ UNCHANGED Typing!typingVars
  PROVE  TypingInv'
<1> USE TypingAssumption DEF TypingInv, Typing!TypeOK, Typing!BothChats
<1>1. CASE Typing!SweepTyping
  BY <1>1 DEF Typing!SweepTyping
<1>2. ASSUME NEW p \in People, NEW c \in {Here, There}, Typing!ApplyTyping(p, c) PROVE TypingInv'
  <2>1. CASE c # v1
    BY <1>2, <2>1 DEF Typing!ApplyTyping
  <2>2. CASE c = v1
    <3>1. /\ v2' = {t \in v2 : t.who # p} \cup {[who |-> p, chat |-> c, live |-> TRUE]}
          /\ v3' \in {v3, v3 + 1} /\ v4 < MaxNotices /\ v4' = v4 + 1 /\ v1' = v1
      BY <1>2, <2>2 DEF Typing!ApplyTyping
    <3>2. v2' \subseteq [who : People, chat : {Here, There}, live : BOOLEAN]
      <4>1. [who |-> p, chat |-> c, live |-> TRUE] \in [who : People, chat : {Here, There}, live : BOOLEAN]
        OBVIOUS
      <4> QED  BY <3>1, <4>1
    <3>3. v3' \in 0 .. MaxNotices /\ v4' \in 0 .. MaxNotices /\ v3' <= v4'
      BY <3>1
    <3> QED  BY <3>1, <3>2, <3>3
  <2> QED  BY <2>1, <2>2
<1>3. ASSUME NEW t \in v2, Typing!Expire(t) PROVE TypingInv'
  <2>1. [t EXCEPT !.live = FALSE] \in [who : People, chat : {Here, There}, live : BOOLEAN]
    OBVIOUS
  <2> QED  BY <1>3, <2>1 DEF Typing!Expire
<1>4. ASSUME NEW c \in {Here, There}, Typing!SwitchChat(c) PROVE TypingInv'
  BY <1>4 DEF Typing!SwitchChat
<1>5. CASE UNCHANGED Typing!typingVars
  BY <1>5 DEF Typing!typingVars
<1> QED  BY <1>1, <1>2, <1>3, <1>4, <1>5 DEF Typing!Next

-----------------------------------------------------------------------------
(***************************************************************************)
(* The search overlay.  A call of the present generation is about the text *)
(* that is in the field, and no tick or call is of a later one.            *)
(***************************************************************************)
Calls == [of : Queries, remote : BOOLEAN, gen : 0 .. MaxEdits]
HitsShown == [of : Queries \cup {Blank}, remote : BOOLEAN, count : 0 .. PageSize]

Due(ticks, calls, gen, text) ==
    /\ \A g \in ticks : g <= gen
    /\ \A call \in calls : call.gen <= gen /\ (call.gen = gen => call.of = text)

SearchInv ==
    /\ SearchPane!TypeOK /\ SearchPane!CursorOnAHit
    /\ v14 \in [{"edits", "tabs", "opens"} -> Nat] /\ v14["edits"] = v3
    /\ Due(v11, v12, v3, v2)

LEMMA FewerDue ==
  ASSUME NEW T, NEW C, NEW g, NEW x, Due(T, C, g, x), NEW S \in SUBSET T, NEW B \in SUBSET C
  PROVE  Due(S, B, g, x)
BY DEF Due

LEMMA OneMoreDue ==
  ASSUME NEW T, NEW C, NEW g, NEW x, Due(T, C, g, x), NEW S \in SUBSET T,
         NEW call, call.gen = g, call.of = x, g \in Nat
  PROVE  Due(S, C \cup {call}, g, x)
BY DEF Due

LEMMA InitSearch == SearchPane!Init => SearchInv
<1> SUFFICES ASSUME SearchPane!Init PROVE SearchInv
  OBVIOUS
<1> USE SearchAssumption
<1>1. v14 = [k \in {"edits", "tabs", "opens"} |-> 0]
  BY DEF SearchPane!Init, SearchPane!Turns
<1>2. v5 \in HitsShown
  BY DEF SearchPane!Init, SearchPane!NoHits, HitsShown
<1>3. SearchPane!TypeOK
  <2>1. 0 \in 0 .. MaxEdits /\ 0 \in 0 .. PageSize
    OBVIOUS
  <2> QED  BY <1>2, <2>1 DEF SearchPane!Init, SearchPane!TypeOK, HitsShown
<1>4. v14 \in [{"edits", "tabs", "opens"} -> Nat] /\ v14["edits"] = v3
  BY <1>1 DEF SearchPane!Init
<1> QED  BY <1>3, <1>4 DEF SearchPane!Init, SearchInv, SearchPane!CursorOnAHit, Due

LEMMA TurnTaken ==
  ASSUME SearchInv, NEW k \in {"edits", "tabs", "opens"}, SearchPane!Turn(k)
  PROVE  /\ v14' \in [{"edits", "tabs", "opens"} -> Nat]
         /\ v14'["edits"] = IF k = "edits" THEN v3 + 1 ELSE v3
         /\ k = "edits" => v3 + 1 <= MaxEdits
<1>1. v14' = [v14 EXCEPT ![k] = v14[k] + 1] /\ v14[k] < SearchPane!Turns[k]
  BY DEF SearchPane!Turn
<1>2. v14 \in [{"edits", "tabs", "opens"} -> Nat] /\ v14["edits"] = v3
  BY DEF SearchInv
<1>3. k = "edits" => v3 < MaxEdits
  BY <1>1, <1>2 DEF SearchPane!Turns
<1> QED  BY <1>1, <1>2, <1>3, SearchAssumption

LEMMA NextSearch ==
  ASSUME SearchInv, SearchPane!Next \/ UNCHANGED SearchPane!vars
  PROVE  SearchInv' /\ SearchPane!RemoteAnswersTheField
<1> USE SearchAssumption DEF SearchPane!field, SearchPane!result, SearchPane!remote
<1>t. /\ v1 \in BOOLEAN /\ v7 \in BOOLEAN /\ v8 \in BOOLEAN /\ v9 \in BOOLEAN /\ v10 \in BOOLEAN
      /\ v13 \in BOOLEAN /\ v2 \in Queries \cup {Blank} /\ v4 \in Queries \cup {Blank}
      /\ v3 \in 0 .. MaxEdits /\ v11 \subseteq 1 .. MaxEdits /\ v5 \in HitsShown
      /\ v6 \in 0 .. PageSize /\ v12 \subseteq Calls /\ (v6 = 0 \/ v6 < v5.count)
      /\ v14 \in [{"edits", "tabs", "opens"} -> Nat] /\ v14["edits"] = v3
      /\ Due(v11, v12, v3, v2) /\ 0 \in 0 .. PageSize
  BY DEF SearchInv, SearchPane!TypeOK, SearchPane!CursorOnAHit, HitsShown, Calls
<1>b. ASSUME v1' \in BOOLEAN, v7' \in BOOLEAN, v8' \in BOOLEAN, v9' \in BOOLEAN, v10' \in BOOLEAN,
             v13' \in BOOLEAN, v2' \in Queries \cup {Blank}, v4' \in Queries \cup {Blank},
             v3' \in 0 .. MaxEdits, v11' \subseteq 1 .. MaxEdits, v5' \in HitsShown,
             v6' \in 0 .. PageSize, v12' \subseteq Calls, v6' = 0 \/ v6' < v5'.count,
             v14' \in [{"edits", "tabs", "opens"} -> Nat], v14'["edits"] = v3',
             Due(v11', v12', v3', v2')
      PROVE  SearchInv'
  BY <1>b DEF SearchInv, SearchPane!TypeOK, SearchPane!CursorOnAHit, HitsShown, Calls
<1>r. v9' = v9 \/ v9' = FALSE => SearchPane!RemoteAnswersTheField
  BY <1>t DEF SearchPane!RemoteAnswersTheField
<1>1. CASE SearchPane!Open
  <2>1. /\ v1' = TRUE /\ v7' = FALSE /\ v6' = 0 /\ SearchPane!Turn("opens")
        /\ UNCHANGED <<v2, v3, v4, v5, v8, v9, v10, v11, v12, v13>>
    BY <1>1 DEF SearchPane!Open
  <2>2. v14' \in [{"edits", "tabs", "opens"} -> Nat] /\ v14'["edits"] = v3
    BY <2>1, TurnTaken
  <2>x. SearchInv'
    BY <1>t, <1>b, <2>1, <2>2
  <2>y. SearchPane!RemoteAnswersTheField
    BY <1>t, <1>r, <2>1, <2>2
  <2> QED  BY <2>x, <2>y
<1>2. CASE SearchPane!Close \/ SearchPane!Enter \/ UNCHANGED SearchPane!vars
  <2>1. /\ v1' \in BOOLEAN /\ v13' \in BOOLEAN
        /\ UNCHANGED <<v2, v3, v4, v5, v6, v7, v8, v9, v10, v11, v12, v14>>
    BY <1>t, <1>2 DEF SearchPane!Close, SearchPane!Enter, SearchPane!vars
  <2>x. SearchInv'
    BY <1>t, <1>b, <2>1
  <2>y. SearchPane!RemoteAnswersTheField
    BY <1>t, <1>r, <2>1
  <2> QED  BY <2>x, <2>y
<1>3. ASSUME NEW v \in Queries \cup {Blank}, SearchPane!Type(v)
      PROVE  SearchInv' /\ SearchPane!RemoteAnswersTheField
  <2>1. /\ v2' = v /\ v3' = v3 + 1 /\ v11' = v11 \cup {v3 + 1} /\ SearchPane!Turn("edits")
        /\ UNCHANGED <<v1, v4, v5, v6, v7, v8, v9, v10, v12, v13>>
    BY <1>3 DEF SearchPane!Type
  <2>2. v14' \in [{"edits", "tabs", "opens"} -> Nat] /\ v14'["edits"] = v3 + 1 /\ v3 + 1 <= MaxEdits
    BY <2>1, TurnTaken
  <2>3. v3' \in 0 .. MaxEdits /\ v11' \subseteq 1 .. MaxEdits /\ \A g \in v11' : g <= v3'
    BY <1>t, <2>1, <2>2 DEF Due
  <2>4. \A call \in v12' : call.gen <= v3' /\ (call.gen = v3' => call.of = v2')
    <3> TAKE call \in v12'
    <3>1. call.gen \in 0 .. MaxEdits /\ call.gen <= v3
      BY <1>t, <2>1 DEF Calls, Due
    <3> QED  BY <1>t, <2>1, <3>1
  <2>5. Due(v11', v12', v3', v2')
    BY <2>3, <2>4 DEF Due
  <2>x. SearchInv'
    BY <1>t, <1>b, <2>1, <2>2, <2>3, <2>5
  <2>y. SearchPane!RemoteAnswersTheField
    BY <1>t, <1>r, <2>1, <2>2, <2>3, <2>4
  <2> QED  BY <2>x, <2>y
<1>4. ASSUME NEW d \in {-1, 1}, SearchPane!MoveCursor(d)
      PROVE  SearchInv' /\ SearchPane!RemoteAnswersTheField
  <2>1. /\ v6 + d \in 0 .. v5.count - 1 /\ v6' = v6 + d
        /\ UNCHANGED <<v1, v2, v3, v4, v5, v7, v8, v9, v10, v11, v12, v13, v14>>
    BY <1>4 DEF SearchPane!MoveCursor
  <2>2. v5.count \in 0 .. PageSize
    BY <1>t DEF HitsShown
  <2>3. v6' \in 0 .. PageSize /\ v6' < v5'.count
    BY <1>t, <2>1, <2>2
  <2>x. SearchInv'
    BY <1>t, <1>b, <2>1, <2>3
  <2>y. SearchPane!RemoteAnswersTheField
    BY <1>t, <1>r, <2>1, <2>3
  <2> QED  BY <2>x, <2>y
<1>5. CASE SearchPane!RunRemote
  <2> DEFINE call == [of |-> v2, remote |-> TRUE, gen |-> v3]
  <2>1. /\ v2 # Blank /\ v10' = TRUE /\ v7' = FALSE /\ v12' = v12 \cup {call} /\ SearchPane!Turn("tabs")
        /\ UNCHANGED <<v1, v2, v3, v4, v5, v6, v8, v9, v11, v13>>
    BY <1>5 DEF SearchPane!RunRemote
  <2>2. call \in Calls /\ call.gen = v3 /\ call.of = v2
    BY <1>t, <2>1 DEF Calls
  <2>3. v14' \in [{"edits", "tabs", "opens"} -> Nat] /\ v14'["edits"] = v3
    BY <2>1, TurnTaken
  <2> HIDE DEF call
  <2>4. v12' \subseteq Calls /\ Due(v11', v12', v3', v2')
    BY <1>t, <2>1, <2>2, OneMoreDue
  <2>x. SearchInv'
    BY <1>t, <1>b, <2>1, <2>3, <2>4
  <2>y. SearchPane!RemoteAnswersTheField
    BY <1>t, <1>r, <2>1, <2>2, <2>3
  <2> QED  BY <2>x, <2>y
<1>6. ASSUME NEW g \in v11, SearchPane!ApplyDebounceTick(g)
      PROVE  SearchInv' /\ SearchPane!RemoteAnswersTheField
  <2>0. v11' = v11 \ {g} /\ UNCHANGED <<v1, v2, v3, v13, v14>>
    BY <1>6 DEF SearchPane!ApplyDebounceTick
  <2>d. v11' \subseteq 1 .. MaxEdits /\ (v12' = v12 => Due(v11', v12', v3', v2'))
    BY <1>t, <2>0, FewerDue
  <2>1. CASE UNCHANGED <<v4, v5, v6, v7, v8, v9, v10, v12>>
    <3>x. SearchInv'
      BY <1>t, <1>b, <2>0, <2>d, <2>1
    <3>y. SearchPane!RemoteAnswersTheField
      BY <1>r, <2>1
    <3> QED  BY <3>x, <3>y
  <2>2. CASE SearchPane!ShowNothing
    <3>1. /\ v4' = Blank /\ v5' = SearchPane!NoHits /\ v6' = 0 /\ v7' = FALSE
          /\ v8' = FALSE /\ v9' = FALSE /\ UNCHANGED <<v10, v12>>
      BY <2>2 DEF SearchPane!ShowNothing
    <3>2. SearchPane!NoHits \in HitsShown
      BY DEF SearchPane!NoHits, HitsShown
    <3>x. SearchInv'
      BY <1>t, <1>b, <2>0, <2>d, <3>1, <3>2
    <3>y. SearchPane!RemoteAnswersTheField
      BY <1>t, <1>r, <2>0, <3>1, <3>2
    <3> QED  BY <3>x, <3>y
  <2>3. CASE g = v3 /\ v2 # Blank /\ SearchPane!RunSearch(g)
    <3> DEFINE call == [of |-> v2, remote |-> FALSE, gen |-> g]
    <3>1. /\ v4' = v2 /\ v8' = TRUE /\ v9' = FALSE /\ v12' = v12 \cup {call}
          /\ UNCHANGED <<v5, v6, v7, v10>>
      BY <2>3 DEF SearchPane!RunSearch
    <3>2. call \in Calls /\ call.gen = v3 /\ call.of = v2
      BY <1>t, <2>3 DEF Calls
    <3> HIDE DEF call
    <3>3. v12' \subseteq Calls /\ Due(v11', v12', v3', v2')
      BY <1>t, <2>0, <3>1, <3>2, OneMoreDue
    <3>x. SearchInv'
      BY <1>t, <1>b, <2>0, <2>d, <3>1, <3>3
    <3>y. SearchPane!RemoteAnswersTheField
      BY <1>t, <1>r, <2>0, <3>1, <3>2
    <3> QED  BY <3>x, <3>y
  <2> QED  BY <1>6, <2>1, <2>2, <2>3 DEF SearchPane!ApplyDebounceTick
<1>7. CASE SearchPane!ApplyResults
  <2>1. PICK call \in v12 : \E n \in SearchPane!Answers(call) :
            /\ v12' = v12 \ {call}
            /\ IF call.remote THEN SearchPane!ApplyRemote(call, n) ELSE SearchPane!ApplyLocal(call, n)
            /\ UNCHANGED <<v1, v2, v3, v4, v11, v13, v14>>
    BY <1>7 DEF SearchPane!ApplyResults
  <2>2. PICK n \in SearchPane!Answers(call) :
            /\ v12' = v12 \ {call}
            /\ IF call.remote THEN SearchPane!ApplyRemote(call, n) ELSE SearchPane!ApplyLocal(call, n)
            /\ UNCHANGED <<v1, v2, v3, v4, v11, v13, v14>>
    BY <2>1
  <2>d. v12' \subseteq Calls /\ Due(v11', v12', v3', v2')
    BY <1>t, <2>2, FewerDue
  <2>3. n = SearchPane!Failure \/ n \in 0 .. PageSize
    BY DEF SearchPane!Answers
  <2>4. call.of \in Queries /\ call.remote \in BOOLEAN /\ call.gen \in 0 .. MaxEdits
    BY <1>t DEF Calls
  <2> DEFINE found == SearchPane!Answered(call, n)
  <2>5. n \in 0 .. PageSize => found \in HitsShown /\ found.count = n /\ found.of = call.of
    BY <2>4 DEF SearchPane!Answered, HitsShown
  <2> HIDE DEF found
  <2>6. SearchPane!NoHits \in HitsShown
    BY DEF SearchPane!NoHits, HitsShown
  <2>7. CASE SearchPane!ApplyLocal(call, n)
    <3>1. /\ v8' = FALSE /\ v9' = FALSE /\ v10' = v10 /\ v7' \in BOOLEAN
          /\ \/ v5' = SearchPane!NoHits /\ v6' = 0
             \/ n # SearchPane!Failure /\ v5' = found /\ v6' = IF v6 >= n THEN 0 ELSE v6
      BY <2>7 DEF SearchPane!ApplyLocal, found
    <3>2. v5' \in HitsShown /\ v6' \in 0 .. PageSize /\ (v6' = 0 \/ v6' < v5'.count)
      BY <1>t, <2>3, <2>5, <2>6, <3>1
    <3>x. SearchInv'
      BY <1>t, <1>b, <2>d, <2>2, <3>1, <3>2
    <3>y. SearchPane!RemoteAnswersTheField
      BY <1>t, <1>r, <2>2, <3>1, <3>2
    <3> QED  BY <3>x, <3>y
  <2>8. CASE SearchPane!ApplyRemote(call, n)
    <3>1. CASE UNCHANGED <<v5, v6, v7, v8, v9, v10>>
      <4>1. SearchInv'
        BY <1>t, <1>b, <2>d, <2>2, <3>1
      <4>2. SearchPane!RemoteAnswersTheField
        BY <1>r, <3>1
      <4> QED  BY <4>1, <4>2
    <3>2. CASE v7' = TRUE /\ v10' = FALSE /\ UNCHANGED <<v5, v6, v8, v9>>
      <4>1. SearchInv'
        BY <1>t, <1>b, <2>d, <2>2, <3>2
      <4>2. SearchPane!RemoteAnswersTheField
        BY <1>r, <3>2
      <4> QED  BY <4>1, <4>2
    <3>3. CASE call.gen = v3 /\ n # SearchPane!Failure /\ v7' = FALSE /\ v9' = TRUE /\ v10' = FALSE
               /\ v8' = v8 /\ v5' = found /\ v6' = 0
      <4>1. SearchInv'
        BY <1>t, <1>b, <2>d, <2>2, <2>3, <2>5, <3>3
      <4>2. v5'.of = v2'
        BY <1>t, <2>2, <2>3, <2>5, <3>3 DEF Due
      <4> QED  BY <4>1, <4>2 DEF SearchPane!RemoteAnswersTheField
    <3> QED  BY <2>8, <3>1, <3>2, <3>3 DEF SearchPane!ApplyRemote, found
  <2> QED  BY <2>2, <2>7, <2>8
<1> QED
  BY <1>1, <1>2, <1>3, <1>4, <1>5, <1>6, <1>7 DEF SearchPane!Next
-----------------------------------------------------------------------------
(***************************************************************************)
(* The whole run: each component with the invariant of its part.           *)
(***************************************************************************)
BackgroundInv ==
    /\ Types /\ OnePlace /\ OwedIsAhead
    /\ part = "transfers" => TransfersInv
    /\ part = "recovery" => RecoveryInv
    /\ part = "status" => StatusInv
    /\ part = "typing" => TypingInv
    /\ part = "search" => SearchInv

LEMMA InitBackground == MCInit => BackgroundInv
<1> SUFFICES ASSUME MCInit PROVE BackgroundInv
  OBVIOUS
<1>1. Types /\ OnePlace /\ OwedIsAhead
  <2>1. Init
    BY DEF MCInit
  <2> QED  BY <2>1, InitTypes, InitOnePlace, InitOwed
<1>2. part = "transfers" => TransfersInv
  BY InitTransfers DEF MCInit
<1>3. part = "recovery" => RecoveryInv
  BY InitRecovery DEF MCInit
<1>4. part = "status" => StatusInv
  BY InitStatus DEF MCInit
<1>5. part = "typing" => TypingInv
  BY InitTyping DEF MCInit
<1>6. part = "search" => SearchInv
  BY InitSearch DEF MCInit
<1> QED  BY <1>1, <1>2, <1>3, <1>4, <1>5, <1>6 DEF BackgroundInv

LEMMA PartSteps ==
  ASSUME [MCNext]_state
  PROVE  /\ part' = part /\ [Next]_vars
         /\ part = "transfers" => Transfers!Next \/ UNCHANGED Transfers!vars
         /\ part = "recovery" => Recovery!Next \/ UNCHANGED Recovery!recoveryVars
         /\ part = "status" => StatusLine!Next \/ UNCHANGED StatusLine!vars
         /\ part = "typing" => Typing!Next \/ UNCHANGED Typing!typingVars
         /\ part = "search" => SearchPane!Next \/ UNCHANGED SearchPane!vars
<1>1. CASE MCNext
  <2>1. part' = part /\ MCSteps
    BY <1>1 DEF MCNext
  <2>2. [Next]_vars
    BY <2>1 DEF MCSteps
  <2> QED  BY <2>1, <2>2 DEF MCSteps
<1>2. CASE UNCHANGED state
  <2>1. UNCHANGED <<part, vars, v1, v2, v3, v4, v5, v6, v7, v8, v9, v10, v11, v12, v13, v14, v15, v16, v17>>
    BY <1>2 DEF state
  <2> QED
    BY <2>1 DEF Transfers!vars, Transfers!saved, Transfers!ui, Recovery!recoveryVars,
       Recovery!launch, Recovery!session, Recovery!rows, Recovery!messages, StatusLine!vars,
       StatusLine!disk, StatusLine!producers, StatusLine!bus, StatusLine!files,
       Typing!typingVars, SearchPane!vars, SearchPane!field, SearchPane!result, SearchPane!remote
<1> QED  BY <1>1, <1>2

LEMMA NextBackground ==
  ASSUME BackgroundInv, [MCNext]_state
  PROVE  BackgroundInv' /\ CaughtUpOutsideWindow /\ RemoteAnswersTheField
<1>0. part' = part
  BY PartSteps
<1>1. Types' /\ OnePlace' /\ OwedIsAhead' /\ CaughtUpOutsideWindow
  BY PartSteps, NextTypes, NextOnePlace, NextOwed, AnswerCatchesUp DEF BackgroundInv
<1>2. part = "transfers" => TransfersInv'
  BY PartSteps, NextTransfers DEF BackgroundInv
<1>3. part = "recovery" => RecoveryInv'
  BY PartSteps, NextRecovery DEF BackgroundInv
<1>4. part = "status" => StatusInv'
  BY PartSteps, NextStatus DEF BackgroundInv
<1>5. part = "typing" => TypingInv'
  BY PartSteps, NextTyping DEF BackgroundInv
<1>6. part = "search" => SearchInv' /\ SearchPane!RemoteAnswersTheField
  BY PartSteps, NextSearch DEF BackgroundInv
<1>7. BackgroundInv'
  BY <1>0, <1>1, <1>2, <1>3, <1>4, <1>5, <1>6 DEF BackgroundInv
<1> QED  BY <1>1, <1>6, <1>7 DEF RemoteAnswersTheField

LEMMA BackgroundTold == BackgroundInv => ToldTruthfully
<1> SUFFICES ASSUME BackgroundInv PROVE ToldTruthfully
  OBVIOUS
<1>1. part = "transfers" => Transfers!TypeOK /\ Transfers!OnlyWholeFiles /\ Transfers!RowsAreTransfers
  BY TransfersTold DEF BackgroundInv
<1>2. part = "recovery" => Recovery!TypeOK /\ Recovery!DatabaseOwned /\ Recovery!PtsFollowsDelivery
  BY RecoveryHolds DEF BackgroundInv, RecoveryInv
<1>3. part = "status" => StatusLine!TypeOK /\ StatusLine!BarShowsWhatItHeard /\ StatusLine!RowMeansRunning
  BY StatusTold DEF BackgroundInv
<1>4. part = "typing" => Typing!TypeOK
  BY DEF BackgroundInv, TypingInv
<1>5. part = "search" => SearchPane!TypeOK /\ SearchPane!CursorOnAHit
  BY DEF BackgroundInv, SearchInv
<1> QED
  BY <1>1, <1>2, <1>3, <1>4, <1>5
     DEF ToldTruthfully, OnlyWholeFiles, RowsAreTransfers, DatabaseOwned, PtsFollowsDelivery,
         BarShowsWhatItHeard, RowMeansRunning, CursorOnAHit

(* What the program says of its work is so: a file under its final name is *)
(* one whole attachment, a row is a transfer under way, a cell what was    *)
(* last said of it, a stored position what was handed on (files, statusbar,*)
(* panes/search, state_repo.go, wire.go), for any files, uploads, attempts,*)
(* buffers and numbers of failures.                                        *)
THEOREM WhatIsToldIsSo == MCSpec => []ToldTruthfully
<1>1. BackgroundInv /\ [MCNext]_state => BackgroundInv'
  BY NextBackground
<1> QED
  BY InitBackground, <1>1, BackgroundTold, PTL DEF MCSpec

(* An answered history request has caught its chat up, and the server's    *)
(* hits that appear are an answer to the text in the field (history.go,    *)
(* panes/search/update.go).                                                *)
THEOREM TheAnswersAreCurrent == MCSpec => AnswersAreCurrent
<1>1. BackgroundInv /\ [MCNext]_state
        => BackgroundInv' /\ [CaughtUpOutsideWindow /\ RemoteAnswersTheField]_state
  BY NextBackground
<1> QED
  BY InitBackground, <1>1, PTL DEF MCSpec, AnswersAreCurrent
===============================================================================
