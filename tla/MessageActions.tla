---------------------------- MODULE MessageActions ----------------------------
(***************************************************************************)
(* What the user does to a message or a chat (core/sync/actions.go):       *)
(* Telegram is asked first, the mirror follows when it agreed.  At the     *)
(* same time LiveService writes what the account's other devices and the   *)
(* other people do.  Values are version numbers: one message with a text   *)
(* and reactions, one flag of its chat (mute, pin or unread mark), and the *)
(* chat's incoming messages with its badge.                                *)
(***************************************************************************)
EXTENDS Integers, Sequences

CONSTANTS MaxActions,            \* bound: actions of the user
          MaxUpdates,            \* bound: changes made elsewhere
          MaxFailures            \* bound: answers lost, writes refused

VARIABLES
    server,     \* Telegram: [text, reactions, flag] and what is there
    row,        \* the mirror's columns for the same
    feed,       \* updates LiveService has not handled
    calls,      \* requests of the user under way
    notice,     \* what the status line said last
    agreed,     \* ghost: values the server accepted or made
    overlap,    \* ghost: an action and an update were under way together
    acted, updated, failed

actionVars == <<server, row, feed, calls, notice, agreed, overlap, acted, updated, failed>>
counts == <<acted, updated, failed>>

Facts == {"text", "reactions", "flag"}
Kinds == Facts \cup {"delete", "read"}
Values == 0 .. MaxActions + MaxUpdates
State == [text : Values, reactions : Values, flag : Values, exists : BOOLEAN, newest : Values, unread : Values]
Fresh == acted + updated + 1

Requests == [kind : Kinds, value : Values, was : State, at : {"asked", "accepted"}]
Updates == [kind : Kinds \cup {"message"}, value : Values, with : Values]

TypeOK ==
    /\ server \in State /\ row \in State
    /\ feed \in Seq(Updates) /\ calls \subseteq Requests
    /\ notice \in {"none", "done", "failed"}
    /\ agreed \subseteq Values /\ overlap \in BOOLEAN
    /\ acted \in 0 .. MaxActions /\ updated \in 0 .. MaxUpdates /\ failed \in 0 .. MaxFailures

Init ==
    /\ server = [text |-> 0, reactions |-> 0, flag |-> 0, exists |-> TRUE, newest |-> 0, unread |-> 0]
    /\ row = server /\ feed = <<>> /\ calls = {}
    /\ notice = "none"
    /\ agreed = {0} /\ overlap = FALSE
    /\ acted = 0 /\ updated = 0 /\ failed = 0

Fail == failed < MaxFailures /\ failed' = failed + 1 /\ UNCHANGED <<acted, updated>>

-----------------------------------------------------------------------------
(* The user.                                                               *)

Asked(k) == [kind |-> k, value |-> IF k = "read" THEN row.newest ELSE Fresh, was |-> row, at |-> "asked"]

\* Mutant: the mirror is written before Telegram is asked.
Act_Optimistic(k) ==
    /\ acted < MaxActions /\ acted' = acted + 1
    /\ k \in {"text", "reactions"} => row.exists
    /\ calls' = calls \cup {Asked(k)} /\ overlap' = (overlap \/ feed # <<>> \/ calls # {})
    /\ row' = IF k \in Facts THEN [row EXCEPT ![k] = Fresh] ELSE row
    /\ UNCHANGED <<server, feed, notice, agreed, updated, failed>>

\* Edit reads the row first; MarkRead the id of the newest message; a chord on the
\* chat list and React nothing but what the screen shows.
Act(k) ==
    /\ acted < MaxActions /\ acted' = acted + 1
    /\ k \in {"text", "reactions", "delete"} => row.exists
    /\ calls' = calls \cup {Asked(k)} /\ overlap' = (overlap \/ feed # <<>> \/ calls # {})
    /\ UNCHANGED <<server, row, feed, notice, agreed, updated, failed>>

AcceptedState(c) ==
    CASE c.kind = "delete" -> [server EXCEPT !.exists = FALSE]
      [] c.kind = "read"   -> [server EXCEPT !.unread = IF server.newest - c.value < @
                                                        THEN server.newest - c.value ELSE @]
      [] OTHER             -> [server EXCEPT ![c.kind] = c.value]

\* Telegram agrees: there is no update for what this session did itself.
Accept(c) ==
    /\ c.at = "asked"
    /\ c.kind \in {"text", "reactions"} => server.exists
    /\ server' = AcceptedState(c)
    /\ calls' = (calls \ {c}) \cup {[c EXCEPT !.at = "accepted"]}
    /\ agreed' = IF c.kind \in Facts THEN agreed \cup {c.value} ELSE agreed
    /\ UNCHANGED <<row, feed, notice, overlap, counts>>

Refuse(c) ==
    /\ c.at = "asked" /\ calls' = calls \ {c} /\ notice' = "failed"
    /\ UNCHANGED <<server, row, feed, agreed, overlap, counts>>

\* It agreed, but the answer did not come within actionTimeout.
AnswerLost(c) ==
    /\ c.at = "accepted" /\ calls' = calls \ {c} /\ notice' = "failed" /\ Fail
    /\ UNCHANGED <<server, row, feed, agreed, overlap>>

\* Edit: the row as it was read, with the new text; SaveMessage inserts or replaces.
\* React: SetReactions.  Mute, Pin, MarkUnread: recordChatFact.  MarkRead: SetUnread 0.
Written(c) ==
    CASE c.kind = "text"      -> [row EXCEPT !.exists = TRUE, !.text = c.value, !.reactions = c.was.reactions]
      [] c.kind = "reactions" -> IF row.exists THEN [row EXCEPT !.reactions = c.value] ELSE row
      [] c.kind = "flag"      -> [row EXCEPT !.flag = c.value]
      [] c.kind = "read"      -> [row EXCEPT !.unread = 0]
      [] OTHER                -> row

\* Mutant: marking a chat read tells Telegram and not the mirror.
Record_KeepsBadge(c) ==
    /\ c.at = "accepted" /\ calls' = calls \ {c} /\ notice' = "done"
    /\ row' = IF c.kind = "read" THEN row ELSE Written(c)
    /\ feed' = IF c.kind = "delete" THEN Append(feed, [kind |-> "delete", value |-> 0, with |-> 0]) ELSE feed
    /\ UNCHANGED <<server, agreed, overlap, counts>>

\* Delete publishes the deletion and leaves the row to LiveService.
Record(c) ==
    /\ c.at = "accepted" /\ calls' = calls \ {c} /\ notice' = "done"
    /\ row' = Written(c)
    /\ feed' = IF c.kind = "delete" THEN Append(feed, [kind |-> "delete", value |-> 0, with |-> 0]) ELSE feed
    /\ UNCHANGED <<server, agreed, overlap, counts>>

\* The mirror refuses the write, or the answer to a reaction lists none: logged,
\* reported as done.
RecordFails(c) ==
    /\ c.at = "accepted" /\ c.kind # "delete" /\ calls' = calls \ {c} /\ notice' = "done" /\ Fail
    /\ UNCHANGED <<server, row, feed, agreed, overlap>>

-----------------------------------------------------------------------------
(* Elsewhere, and LiveService.                                             *)

Update(k) ==
    /\ updated < MaxUpdates /\ updated' = updated + 1
    /\ k \in {"text", "reactions", "delete"} => server.exists
    /\ server' = CASE k = "delete"  -> [server EXCEPT !.exists = FALSE]
                   [] k = "message" -> [server EXCEPT !.newest = @ + 1, !.unread = @ + 1]
                   [] k = "read"    -> [server EXCEPT !.unread = 0]
                   [] OTHER         -> [server EXCEPT ![k] = Fresh]
    /\ feed' = Append(feed, [kind |-> k, value |-> IF k \in Facts THEN Fresh ELSE 0, with |-> server.reactions])
    /\ agreed' = IF k \in Facts THEN agreed \cup {Fresh} ELSE agreed
    /\ overlap' = (overlap \/ calls # {})
    /\ UNCHANGED <<row, calls, notice, acted, failed>>

\* Mutant: an update of the reactions is not stored.
LiveWrites_NoReactions(u) ==
    CASE u.kind = "text"      -> [row EXCEPT !.exists = TRUE, !.text = u.value, !.reactions = u.with]
      [] u.kind = "flag"      -> [row EXCEPT !.flag = u.value]
      [] u.kind = "message"   -> [row EXCEPT !.newest = @ + 1, !.unread = @ + 1]
      [] u.kind = "read"      -> [row EXCEPT !.unread = u.value]
      [] u.kind = "delete"    -> [row EXCEPT !.exists = FALSE]
      [] OTHER                -> row

\* persist, applyReactions, applyChatFact, countUnread, forget.
LiveWrites(u) ==
    CASE u.kind = "text"      -> [row EXCEPT !.exists = TRUE, !.text = u.value, !.reactions = u.with]
      [] u.kind = "reactions" -> IF row.exists THEN [row EXCEPT !.reactions = u.value] ELSE row
      [] u.kind = "flag"      -> [row EXCEPT !.flag = u.value]
      [] u.kind = "message"   -> [row EXCEPT !.newest = @ + 1, !.unread = @ + 1]
      [] u.kind = "read"      -> [row EXCEPT !.unread = u.value]
      [] u.kind = "delete"    -> [row EXCEPT !.exists = FALSE]

Live ==
    /\ feed # <<>> /\ feed' = Tail(feed) /\ row' = LiveWrites(Head(feed))
    /\ UNCHANGED <<server, calls, notice, agreed, overlap, counts>>

-----------------------------------------------------------------------------
Next ==
    \/ \E k \in Kinds : Act(k)
    \/ \E c \in calls : Accept(c) \/ Refuse(c) \/ AnswerLost(c) \/ Record(c) \/ RecordFails(c)
    \/ \E k \in Kinds \cup {"message"} : Update(k)
    \/ Live

Spec == Init /\ [][Next]_actionVars

-----------------------------------------------------------------------------
Settled == feed = <<>> /\ calls = {}

\* Whatever is refused leaves no trace: the mirror holds a value only if Telegram
\* held it at some time (Edit, React, recordChatFact).
NothingInvented == \A f \in Facts : row[f] \in agreed

\* As long as only one side acts at a time, the mirror and the server agree once
\* everything is handled: text, reactions, flags, badge and what was deleted.
SequentialUseAgrees ==
    Settled /\ ~overlap /\ failed = 0 =>
        /\ row.exists = server.exists
        /\ row.exists => \A f \in {"text", "reactions"} : row[f] = server[f]
        /\ row.flag = server.flag /\ row.newest = server.newest /\ row.unread = server.unread

-----------------------------------------------------------------------------
(* What the source says and the code does not do.  README.md names the     *)
(* instance that refutes each of these.                                    *)

\* "rewrites a message and updates the mirror to match" (actions.go, Edit): the row
\* it writes back is the one it read before it asked, reactions included.
EditMatches == Settled /\ failed = 0 /\ row.exists /\ server.exists => row.reactions = server.reactions

\* A deletion made elsewhere while an edit is under way does not stay.
DeletionStays == Settled /\ failed = 0 /\ ~server.exists => ~row.exists

\* MarkRead clears the badge of a message that came while it was under way.
BadgeExact == Settled /\ failed = 0 => row.unread = server.unread

\* "could not change the chat" (chatactions.go): the change may have been made.
FailureChangesNothing == notice = "failed" /\ Settled /\ acted = 1 => agreed \subseteq {0}
=============================================================================
