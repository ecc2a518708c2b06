------------------------------- MODULE SendView -------------------------------
(***************************************************************************)
(* The interface's side of sending: the optimistic rows and the loaded     *)
(* window of the thread pane (internal/ui/panes/thread), and which sends   *)
(* the composer would restore (inFlight; module Composer has the rest of   *)
(* it).  The send service is seen through what it promises (module         *)
(* Outgoing, which Outbox implements).                                     *)
(*                                                                         *)
(* All of this state belongs to the one Bubble Tea update loop: an action  *)
(* is one message it handles.  Two kinds of messages reach it by different *)
(* ways, in any relative order: the results of commands (SendDispatchedMsg,*)
(* SendFailedMsg, a loaded page) and the events of the bus, which keep     *)
(* their order among themselves.  The bus gives up an event when the       *)
(* loop's buffer is full, and events other than these may fill it; an open *)
(* overlay takes a loaded page before the pane sees it.                    *)
(*                                                                         *)
(* A message of the server is identified by the send it answers: of the    *)
(* copies a retried send leaves, the one its verdict names, or any of them *)
(* if it failed.                                                           *)
(***************************************************************************)
EXTENDS Naturals, Sequences, FiniteSets

CONSTANTS
  Sends, Chats,
  NoChat,      \* no chat is open yet
  MaxOpens,    \* bound: how often the user opens a chat
  MaxLosses    \* bound: steps that drop an event or answer without an id

VARIABLES
  told,       \* the service: last state published for each send
  announced,  \* sends whose message was published as MessageReceived
  mirror,     \* ... and has been stored by the live service
  nameless,   \* sent, but the server's answer held no id (tg/send.go:94)
  feed,       \* events of the bus the update loop has not handled yet
  dropped,    \* events its full buffer gave up
  cmd,        \* the command each send runs in and its result
  dest,       \* the chat each send goes to
  chat,       \* open chat of the thread pane and of the composer
  opens,      \* chats opened so far
  inFlight,   \* composer: sends whose failure would restore their text
  outgoing, awaiting, finalized, messages,   \* thread pane
  loading, page                              \* its current load

service == <<told, announced, mirror, nameless>>
bus == <<feed, dropped>>
thread == <<outgoing, awaiting, finalized, messages>>
load == <<loading, page>>
vars == <<service, bus, cmd, dest, chat, opens, inFlight, thread, load>>

Event == {"received", "sent", "failed"} \X Sends

Service == INSTANCE Outgoing

TypeOK ==
  /\ told \in [Sends -> {"none", "pending", "sent", "failed"}]
  /\ announced \subseteq Sends /\ mirror \subseteq announced
  /\ nameless \subseteq Sends
  /\ feed \in Seq(Event) /\ dropped \subseteq Event
  /\ cmd \in [Sends -> {"none", "running", "dispatched", "refused", "handled"}]
  /\ dest \in [Sends -> Chats \cup {NoChat}]
  /\ chat \in Chats \cup {NoChat}
  /\ opens \in 0 .. MaxOpens
  /\ inFlight \subseteq Sends
  /\ outgoing \in [Sends -> {"none", "pending", "sent", "failed"}]
  /\ awaiting \subseteq Sends /\ finalized \subseteq Sends
  /\ messages \subseteq Sends
  /\ loading \in {"no", "asked", "read", "swallowed"}
  /\ page \subseteq Sends

Init ==
  /\ Service!Init
  /\ announced = {} /\ mirror = {} /\ nameless = {}
  /\ feed = <<>> /\ dropped = {}
  /\ cmd = [m \in Sends |-> "none"]
  /\ dest = [m \in Sends |-> NoChat]
  /\ chat = NoChat
  /\ opens = 0
  /\ inFlight = {}
  /\ outgoing = [m \in Sends |-> "none"]
  /\ awaiting = {} /\ finalized = {} /\ messages = {}
  /\ loading = "no" /\ page = {}
-----------------------------------------------------------------------------
(* The user.                                                               *)

(* handleChatSelected: the thread pane starts from nothing and loads the   *)
(* tail of the chat; the composer forgets its sends in flight.             *)
OpenChat(c) ==
  /\ opens < MaxOpens
  /\ opens' = opens + 1
  /\ chat' = c
  /\ outgoing' = [m \in Sends |-> "none"]
  /\ awaiting' = {} /\ finalized' = {} /\ messages' = {}
  /\ loading' = "asked" /\ page' = {}
  /\ inFlight' = {}
  /\ UNCHANGED <<service, bus, cmd, dest>>

(* handleSend: the command starts.                                         *)
HandleSend(m) ==
  /\ cmd[m] = "none" /\ chat # NoChat
  /\ cmd' = [cmd EXCEPT ![m] = "running"]
  /\ dest' = [dest EXCEPT ![m] = chat]
  /\ UNCHANGED <<service, bus, chat, opens, inFlight, thread, load>>
-----------------------------------------------------------------------------
(* The command and the service behind it.                                  *)

MayLose == Cardinality(dropped) + Cardinality(nameless) < MaxLosses

(* An event for the update loop: forwardBusEvents gets it, or its buffer   *)
(* is full (Bus.Publish).                                                  *)
Publish(kind, m) ==
  \/ feed' = Append(feed, <<kind, m>>) /\ UNCHANGED dropped
  \/ MayLose /\ dropped' = dropped \cup {<<kind, m>>} /\ UNCHANGED feed

(* SendText stores the record, publishes "pending", which both panes       *)
(* ignore, starts deliver and returns.                                     *)
SendTextReturns(m) ==
  /\ cmd[m] = "running"
  /\ \/ /\ Service!Submit(m)
        /\ cmd' = [cmd EXCEPT ![m] = "dispatched"]
     \/ /\ cmd' = [cmd EXCEPT ![m] = "refused"]
        /\ UNCHANGED told
  /\ UNCHANGED <<announced, mirror, nameless, bus, dest, chat, opens, inFlight, thread, load>>

(* The message has reached the server and the dispatcher publishes it: for *)
(* the sender's announce, before the verdict, or for the server's own      *)
(* update, which passes the duplicate filter first and may publish after   *)
(* the verdict, or after a verdict that knows of lost answers only.        *)
Announce(m) ==
  /\ told[m] # "none" /\ m \notin announced
  /\ announced' = announced \cup {m}
  /\ Publish("received", m)
  /\ UNCHANGED <<told, mirror, nameless, cmd, dest, chat, opens, inFlight, thread, load>>

(* markSent and markFailed.  An answer of the server without an id counts  *)
(* as sent, with id 0 (extractMessageID).                                  *)
PublishVerdict(m) ==
  /\ Service!Settle(m)
  /\ Publish(told'[m], m)
  /\ \/ UNCHANGED nameless
     \/ MayLose /\ told'[m] = "sent" /\ nameless' = nameless \cup {m}
  /\ UNCHANGED <<announced, mirror, cmd, dest, chat, opens, inFlight, thread, load>>

(* LiveService.persist.                                                    *)
Persist(m) ==
  /\ m \in announced \ mirror
  /\ mirror' = mirror \cup {m}
  /\ UNCHANGED <<told, announced, nameless, bus, cmd, dest, chat, opens, inFlight, thread, load>>

(* The page query runs.                                                    *)
ReadPage ==
  /\ loading = "asked"
  /\ loading' = "read"
  /\ page' = {m \in mirror : dest[m] = chat}
  /\ UNCHANGED <<service, bus, cmd, dest, chat, opens, inFlight, thread>>
-----------------------------------------------------------------------------
(* The update loop handles a result or an event.                           *)

(* SendDispatchedMsg: ApplyDispatched in the thread, then the composer.    *)
HandleDispatched(m) ==
  /\ cmd[m] = "dispatched"
  /\ cmd' = [cmd EXCEPT ![m] = "handled"]
  /\ outgoing' = IF dest[m] = chat /\ m \notin finalized
                 THEN [outgoing EXCEPT ![m] = "pending"] ELSE outgoing
  /\ inFlight' = inFlight \cup {m}
  /\ UNCHANGED <<service, bus, dest, chat, opens, awaiting,
                 finalized, messages, load>>

(* SendFailedMsg has no row to change; the composer restores the text,     *)
(* unless an overlay is open and takes the message.                        *)
HandleSendFailed(m) ==
  /\ cmd[m] = "refused"
  /\ cmd' = [cmd EXCEPT ![m] = "handled"]
  /\ UNCHANGED <<service, bus, dest, chat, opens, inFlight, thread, load>>

Handling(kind, m) ==
  /\ feed # <<>> /\ Head(feed) = <<kind, m>>
  /\ feed' = Tail(feed)
  /\ UNCHANGED <<service, dropped, cmd, dest, chat, opens, load>>

ApplyIncoming(m) ==
  /\ Handling("received", m)
  /\ IF dest[m] # chat THEN UNCHANGED thread
     ELSE /\ outgoing' = IF m \in awaiting THEN [outgoing EXCEPT ![m] = "none"]
                         ELSE outgoing
          /\ awaiting' = awaiting \ {m}
          /\ messages' = messages \cup {m}
          /\ UNCHANGED finalized
  /\ UNCHANGED inFlight

(* Mutant: an echo that came first is forgotten.                           *)
ApplySent_EchoForgotten(m) ==
  /\ Handling("sent", m)
  /\ inFlight' = inFlight \ {m}
  /\ IF dest[m] # chat THEN UNCHANGED thread
     ELSE /\ finalized' = finalized \cup {m}
          /\ awaiting' = awaiting \cup ({m} \ nameless)
          /\ outgoing' = IF outgoing[m] = "none" THEN outgoing
                         ELSE [outgoing EXCEPT ![m] = "sent"]
          /\ UNCHANGED messages

(* With id 0 the message is neither looked for nor waited for.             *)
ApplySent(m) ==
  /\ Handling("sent", m)
  /\ inFlight' = inFlight \ {m}
  /\ IF dest[m] # chat THEN UNCHANGED thread
     ELSE /\ finalized' = finalized \cup {m}
          /\ IF m \in messages \ nameless
             THEN /\ outgoing' = [outgoing EXCEPT ![m] = "none"]
                  /\ UNCHANGED awaiting
             ELSE /\ awaiting' = awaiting \cup ({m} \ nameless)
                  /\ outgoing' = IF outgoing[m] = "none" THEN outgoing
                                 ELSE [outgoing EXCEPT ![m] = "sent"]
          /\ UNCHANGED messages

ApplyFailed(m) ==
  /\ Handling("failed", m)
  /\ inFlight' = inFlight \ {m}
  /\ IF dest[m] # chat THEN UNCHANGED thread
     ELSE /\ finalized' = finalized \cup {m}
          /\ outgoing' = IF outgoing[m] = "none" THEN outgoing
                         ELSE [outgoing EXCEPT ![m] = "failed"]
          /\ UNCHANGED <<awaiting, messages>>

(* applyLoaded, for the load the pane still waits for: the window becomes  *)
(* the page.                                                               *)
ApplyLoaded ==
  /\ loading = "read"
  /\ loading' = "no" /\ page' = {}
  /\ messages' = page
  /\ UNCHANGED <<service, bus, cmd, dest, chat, opens, inFlight, outgoing,
                 awaiting, finalized>>

(* An overlay is open and takes the page; the pane waits on.               *)
SwallowLoaded ==
  /\ loading = "read"
  /\ loading' = "swallowed" /\ page' = {}
  /\ UNCHANGED <<service, bus, cmd, dest, chat, opens, inFlight, thread>>

User ==
  \/ \E c \in Chats : OpenChat(c)
  \/ \E m \in Sends : HandleSend(m)

Background ==
  \/ \E m \in Sends : SendTextReturns(m) \/ Announce(m) \/ PublishVerdict(m) \/ Persist(m)
  \/ ReadPage

UpdateLoop ==
  \/ \E m \in Sends : \/ HandleDispatched(m) \/ HandleSendFailed(m)
                      \/ ApplyIncoming(m) \/ ApplySent(m) \/ ApplyFailed(m)
  \/ ApplyLoaded \/ SwallowLoaded

Next == User \/ Background \/ UpdateLoop

Spec == Init /\ [][Next]_vars
-----------------------------------------------------------------------------
(* Nothing the program has started is still on its way to the screen.      *)
Quiet ==
  /\ feed = <<>> /\ loading \in {"no", "swallowed"}
  /\ \A m \in Sends : cmd[m] \in {"none", "handled"} /\ told[m] # "pending"

(* Both events of the send reach the loop and its sent event names the     *)
(* message.                                                                *)
Heard(m) == m \notin nameless /\ \A e \in dropped : e[2] # m

(* An optimistic row belongs to the open chat and never claims an outcome  *)
(* the service has not published.                                          *)
PillTruthful ==
  \A m \in Sends :
    outgoing[m] # "none" =>
      dest[m] = chat /\ (outgoing[m] # "pending" => outgoing[m] = told[m])

(* A row held back for its echo can still be removed when the echo comes,  *)
(* unless the server gave the message no id.                               *)
HeldRowRemovable ==
  \A m \in Sends : outgoing[m] = "sent" => m \in awaiting \cup nameless

(* From the first opening of a chat until the next one, once everything    *)
(* has arrived, a message is not both a real row and an optimistic one     *)
(* that says sent: the echo of a send removes its row, or the row is never *)
(* made, in either order of echo and verdict (applyIncoming).              *)
NoDoubleRowOnFirstVisit ==
  opens <= 1 /\ Quiet => \A m \in messages : Heard(m) => outgoing[m] \in {"none", "failed"}

(* Over the same time a verdict that overtakes the command's result leaves *)
(* no row behind (finalizedLocalIDs).                                      *)
NoStuckPendingOnFirstVisit ==
  opens <= 1 /\ Quiet =>
    \A m \in Sends : outgoing[m] = "pending" => <<told[m], m>> \in dropped
-----------------------------------------------------------------------------
(* What the source says and the code does not do.  README.md names the     *)
(* instance that refutes each of these.                                    *)

(* "No duplicate is ever shown" (applyOutgoingState).                      *)
NoDoubleRow ==
  Quiet => \A m \in messages : outgoing[m] \in {"none", "failed"}

(* ApplyDispatched leaves no pending row "that no future event could       *)
(* resolve".                                                               *)
NoStuckPending ==
  Quiet => \A m \in Sends : outgoing[m] # "pending"

(* "Failed sends restore the draft": while its chat is open, the composer  *)
(* still knows the send that fails (inFlight).                             *)
FailureRestoresDraft ==
  [][\A m \in Sends : ApplyFailed(m) /\ dest[m] = chat => m \in inFlight]_vars

(* A sent message stays on the screen of its chat (LoadJumpWindow guards   *)
(* its own load against dropping it).                                      *)
SentStaysVisible ==
  Quiet => \A m \in Sends :
    told[m] = "sent" /\ dest[m] = chat /\ m \in mirror /\ m \in finalized
      => m \in messages \/ outgoing[m] = "sent"
=============================================================================
