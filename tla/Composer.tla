------------------------------- MODULE Composer -------------------------------
(***************************************************************************)
(* The composer (ui/input): one box, a draft for every chat, edit mode,    *)
(* the reply pointer, the history of sent texts and $EDITOR.  A text is    *)
(* the chat it was written for and a number that tells texts of one chat   *)
(* apart; number 0 is what a message or the server says.                   *)
(*                                                                         *)
(* Everything happens in the update loop; what it started (a send, the     *)
(* editor, an edit on its way from the thread) comes back as mail.  While  *)
(* the editor runs the loop handles nothing.                               *)
(***************************************************************************)
EXTENDS Naturals, Sequences, FiniteSets

CONSTANTS Chats, NoChat,
          HistoryMax,
          MaxTexts,      \* bound: texts written
          MaxPresses     \* bound: every other thing the user does

ASSUME NoChatAssumption == NoChat \notin Chats
ASSUME BoundsAssumption == HistoryMax \in Nat /\ MaxTexts \in Nat /\ MaxPresses \in Nat

VARIABLES chat, box, reply,
          editing,       \* editTarget, or NotEditing
          drafts, inFlight,
          sent, browse,  \* history: entries, and 0 or the one shown
          paused,        \* the editor runs
          mail, typed, presses,
          strays         \* history: <<chat, other>> when an answer that outlasted its visit
                         \* carried words of the first into the second

pane == <<chat, box, reply, editing, drafts, inFlight, sent, browse>>
composerVars == <<pane, paused, mail, typed, presses, strays>>

Text == [of : Chats \cup {NoChat}, n : 0 .. MaxTexts]
NoText == [of |-> NoChat, n |-> 0]
Draft == [text : Text, reply : Chats \cup {NoChat}]
NoDraft == [text |-> NoText, reply |-> NoChat]
NotEditing == [chat |-> NoChat, draft |-> NoDraft]
Says(c) == [of |-> c, n |-> 0]

TypeOK ==
    /\ chat \in Chats /\ box \in Text /\ reply \in Chats \cup {NoChat}
    /\ editing \in [chat : Chats \cup {NoChat}, draft : Draft]
    /\ drafts \in [Chats -> Draft] /\ inFlight \subseteq Draft
    /\ sent \in Seq(Text) /\ Len(sent) <= HistoryMax /\ browse \in 0 .. Len(sent)
    /\ paused \in BOOLEAN /\ typed \in 0 .. MaxTexts /\ presses \in 0 .. MaxPresses
    /\ mail \subseteq [kind : {"sending", "refused", "dispatched", "awaited", "edit", "editor", "edited"},
                       on : Chats, draft : Draft]
    /\ strays \subseteq Chats \X Chats

Init ==
    /\ chat \in Chats /\ box = NoText /\ reply = NoChat /\ editing = NotEditing
    /\ drafts = [c \in Chats |-> NoDraft] /\ inFlight = {} /\ sent = <<>> /\ browse = 0
    /\ paused = FALSE /\ mail = {} /\ typed = 0 /\ presses = 0 /\ strays = {}

-----------------------------------------------------------------------------
InBox == [text |-> box, reply |-> reply]
Put(d) == box' = d.text /\ reply' = d.reply
Press == ~paused /\ presses < MaxPresses /\ presses' = presses + 1
Mail(kind, d) == [kind |-> kind, on |-> chat, draft |-> d]
Post(m) == m \notin mail /\ mail' = mail \cup {m}
\* The answer m is taken for one of whatever chat is open by now.
Lands(m) == strays' = IF m.on = chat THEN strays
                      ELSE strays \cup (({m.draft.text.of, m.draft.reply} \ {NoChat, chat}) \X {chat})

\* A key of the text area: one more text, of the chat the box is for.
Type ==
    /\ ~paused /\ typed < MaxTexts /\ typed' = typed + 1
    /\ box' = [of |-> IF box = NoText THEN chat ELSE box.of, n |-> typed + 1]
    /\ UNCHANGED <<chat, reply, editing, drafts, inFlight, sent, browse, paused, mail, presses, strays>>

Erase ==
    /\ Press /\ box # NoText /\ box' = NoText
    /\ UNCHANGED <<chat, reply, editing, drafts, inFlight, sent, browse, paused, mail, typed, strays>>

\* Mutant: a send that was dispatched in this visit is still waited for in the next.
SwitchChat_KeepsInFlight(c) ==
    /\ Press /\ chat' = c
    /\ IF c = chat
       THEN UNCHANGED <<box, reply, editing, drafts, browse>>
       ELSE /\ drafts' = [drafts EXCEPT ![chat] = IF editing = NotEditing THEN InBox ELSE editing.draft]
            /\ Put(drafts[c])
            /\ editing' = NotEditing
            /\ browse' = IF editing = NotEditing THEN browse ELSE 0
    /\ UNCHANGED <<inFlight, sent, paused, mail, typed, strays>>

\* switchChat: an edit is cancelled first, and what it displaced is stashed.
SwitchChat(c) ==
    /\ Press /\ inFlight' = {} /\ chat' = c
    /\ IF c = chat
       THEN UNCHANGED <<box, reply, editing, drafts, browse>>
       ELSE /\ drafts' = [drafts EXCEPT ![chat] = IF editing = NotEditing THEN InBox ELSE editing.draft]
            /\ Put(drafts[c])
            /\ editing' = NotEditing
            /\ browse' = IF editing = NotEditing THEN browse ELSE 0
    /\ UNCHANGED <<sent, paused, mail, typed, strays>>

-----------------------------------------------------------------------------
(* Sending.                                                                *)

HandleSend ==
    /\ Press /\ editing = NotEditing /\ box # NoText
    /\ sent' = LET all == Append(sent, box) IN IF Len(all) > HistoryMax THEN Tail(all) ELSE all
    /\ Put(NoDraft) /\ browse' = 0 /\ Post(Mail("sending", InBox))
    /\ UNCHANGED <<chat, editing, drafts, inFlight, paused, typed, strays>>

SendReturns(m) ==
    /\ m.kind = "sending"
    /\ \E kind \in {"refused", "dispatched"} : mail' = (mail \ {m}) \cup {[m EXCEPT !.kind = kind]}
    /\ UNCHANGED <<pane, paused, typed, presses, strays>>

\* Mutant: the failed text replaces what is in the box.
RestoreDraft_Always(d) == Put(d) /\ browse' = 0

\* A failed text never replaces what is being written; nor does its reply pointer.
RestoreDraft(d) ==
    /\ box' = IF box = NoText THEN d.text ELSE box
    /\ reply' = IF reply = NoChat THEN d.reply ELSE reply
    /\ browse' = IF box = NoText THEN 0 ELSE browse

HandleRefused(m) ==
    /\ m.kind = "refused" /\ ~paused /\ mail' = mail \ {m} /\ RestoreDraft(m.draft) /\ Lands(m)
    /\ UNCHANGED <<chat, editing, drafts, inFlight, sent, paused, typed, presses>>

HandleDispatched(m) ==
    /\ m.kind = "dispatched" /\ ~paused /\ inFlight' = inFlight \cup {m.draft} /\ Lands(m)
    /\ mail' = (mail \ {m}) \cup {[m EXCEPT !.kind = "awaited"]}
    /\ UNCHANGED <<chat, box, reply, editing, drafts, sent, browse, paused, typed, presses>>

\* applyOutgoingState: a send of a visit that is over is not known here any more.
ApplyOutgoingState(m, failed) ==
    /\ m.kind = "awaited" /\ ~paused /\ mail' = mail \ {m} /\ inFlight' = inFlight \ {m.draft}
    /\ IF failed /\ m.draft \in inFlight
       THEN RestoreDraft(m.draft)
       ELSE UNCHANGED <<box, reply, browse>>
    /\ UNCHANGED <<chat, editing, drafts, sent, paused, typed, presses, strays>>

-----------------------------------------------------------------------------
(* Reply, edit.                                                            *)

RequestReply ==
    /\ Press /\ reply # chat /\ reply' = chat
    /\ UNCHANGED <<chat, box, editing, drafts, inFlight, sent, browse, paused, mail, typed, strays>>

\* The edit chord: the message travels to the composer as a command's result.
ArmEdit ==
    /\ Press /\ Post(Mail("edit", [NoDraft EXCEPT !.text = Says(chat)]))
    /\ UNCHANGED <<pane, paused, typed, strays>>

StartEdit(m) ==
    /\ m.kind = "edit" /\ ~paused /\ mail' = mail \ {m} /\ Lands(m)
    /\ editing' = [chat |-> m.on, draft |-> InBox] /\ Put(m.draft) /\ browse' = 0
    /\ UNCHANGED <<chat, drafts, inFlight, sent, paused, typed, presses>>

\* Mutant: leaving the mode forgets who the draft answered.
LeaveEdit_NoReply == Put([editing.draft EXCEPT !.reply = NoChat]) /\ editing' = NotEditing /\ browse' = 0

LeaveEdit == Put(editing.draft) /\ editing' = NotEditing /\ browse' = 0

\* Escape, Enter on an empty box, and Enter, which also hands the text to the service.
EndEdit ==
    /\ Press /\ editing # NotEditing /\ LeaveEdit
    /\ UNCHANGED <<chat, drafts, inFlight, sent, paused, mail, typed, strays>>

-----------------------------------------------------------------------------
(* The editor.                                                             *)

RequestEditor ==
    /\ Press /\ Post(Mail("editor", [NoDraft EXCEPT !.text = box]))
    /\ UNCHANGED <<pane, paused, typed, strays>>

\* The program stops until the editor exits, or the editor cannot be started.
OpenEditor(m) ==
    /\ m.kind = "editor" /\ ~paused /\ paused' \in BOOLEAN
    /\ mail' = IF paused' THEN mail ELSE mail \ {m}
    /\ UNCHANGED <<pane, typed, presses, strays>>

\* It leaves another text, or nothing, or fails; its answer takes its turn in the mail.
EditorCloses(m) ==
    /\ m.kind = "editor" /\ paused /\ paused' = FALSE
    /\ \/ mail' = mail \ {m} /\ UNCHANGED typed
       \/ mail' = (mail \ {m}) \cup {[m EXCEPT !.kind = "edited", !.draft = NoDraft]} /\ UNCHANGED typed
       \/ /\ typed < MaxTexts /\ typed' = typed + 1
          /\ LET home == IF m.draft.text = NoText THEN m.on ELSE m.draft.text.of
             IN  mail' = (mail \ {m}) \cup {[m EXCEPT !.kind = "edited", !.draft.text = [of |-> home, n |-> typed + 1]]}
    /\ UNCHANGED <<pane, presses, strays>>

ApplyEditorResult(m) ==
    /\ m.kind = "edited" /\ ~paused /\ mail' = mail \ {m} /\ box' = m.draft.text /\ browse' = 0
    /\ Lands(m)
    /\ UNCHANGED <<chat, reply, editing, drafts, inFlight, sent, paused, typed, presses>>

-----------------------------------------------------------------------------
(* History and the drafts of other devices.                                *)

\* A recalled text is one for the chat it is recalled in.
HistoryPrev ==
    /\ Press /\ sent # <<>>
    /\ browse' = CASE browse = 0 -> Len(sent) [] browse = 1 -> 1 [] OTHER -> browse - 1
    /\ box' = [sent[browse'] EXCEPT !.of = chat]
    /\ UNCHANGED <<chat, reply, editing, drafts, inFlight, sent, paused, mail, typed, strays>>

HistoryNext ==
    /\ Press /\ browse # 0
    /\ browse' = IF browse = Len(sent) THEN 0 ELSE browse + 1
    /\ box' = IF browse' = 0 THEN NoText ELSE [sent[browse'] EXCEPT !.of = chat]
    /\ UNCHANGED <<chat, reply, editing, drafts, inFlight, sent, paused, mail, typed, strays>>

\* Mutant: the stashed draft of the other chat gives way to the server's.
ApplyServerDraft_Overwrites(c) ==
    /\ Press
    /\ IF c = chat
       THEN box = NoText /\ editing = NotEditing /\ box' = Says(c) /\ UNCHANGED drafts
       ELSE drafts' = [drafts EXCEPT ![c] = [NoDraft EXCEPT !.text = Says(c)]] /\ UNCHANGED box
    /\ UNCHANGED <<chat, reply, editing, inFlight, sent, browse, paused, mail, typed, strays>>

ApplyServerDraft(c) ==
    /\ Press
    /\ IF c = chat
       THEN box = NoText /\ editing = NotEditing /\ box' = Says(c) /\ UNCHANGED drafts
       ELSE /\ drafts[c].text = NoText
            /\ drafts' = [drafts EXCEPT ![c] = [NoDraft EXCEPT !.text = Says(c)]] /\ UNCHANGED box
    /\ UNCHANGED <<chat, reply, editing, inFlight, sent, browse, paused, mail, typed, strays>>

\* An open overlay takes what the app passes on to the panes after it (ui/app/update.go):
\* the text of a refused send, the edit, the editor's start or its text is gone.
Swallow(m) ==
    /\ m.kind \in {"refused", "edit", "editor", "edited"} /\ ~paused /\ mail' = mail \ {m}
    /\ UNCHANGED <<pane, paused, typed, presses, strays>>

Next ==
    \/ Type \/ Erase \/ HandleSend \/ RequestReply \/ ArmEdit \/ EndEdit \/ RequestEditor
    \/ HistoryPrev \/ HistoryNext
    \/ \E c \in Chats : SwitchChat(c) \/ ApplyServerDraft(c)
    \/ \E m \in mail :
        \/ SendReturns(m) \/ HandleRefused(m) \/ HandleDispatched(m) \/ StartEdit(m)
        \/ OpenEditor(m) \/ EditorCloses(m) \/ ApplyEditorResult(m) \/ Swallow(m)
        \/ \E failed \in BOOLEAN : ApplyOutgoingState(m, failed)

Spec == Init /\ [][Next]_composerVars

-----------------------------------------------------------------------------
\* Words of chat w are in the box or the draft of c by right, or a late answer brought them.
Belongs(w, c) == w \in {NoChat, c} \/ <<w, c>> \in strays

\* The words in the box, the message they answer or rewrite, every stashed draft and every
\* send still waited for are of the chat they are shown under.  Only a result that outlasted
\* its visit, of a send, an edit or the editor, may have carried others there: the handlers
\* of those ask nothing about the chat (input/update.go, edit.go).  The verdict of a send
\* whose result came in time brings nothing back in another chat (SetChatMsg).
WordsAtHome ==
    /\ TypeOK
    /\ Belongs(box.of, chat) /\ Belongs(reply, chat) /\ Belongs(editing.chat, chat)
    /\ \A d \in inFlight : Belongs(d.text.of, chat) /\ Belongs(d.reply, chat)
    /\ \A c \in Chats : Belongs(drafts[c].text.of, c) /\ Belongs(drafts[c].reply, c)

\* However edit mode ends, by Escape, Enter or a change of chats, what it displaced
\* is back: in the box, or in the drafts of the chat just left (edit.go).
EditGivesBack ==
    editing # NotEditing /\ editing' = NotEditing =>
     editing.draft = IF chat' = chat THEN InBox' ELSE drafts'[chat]

\* A draft waits for its chat untouched, whatever the server holds, and is in the
\* box with its reply pointer when the chat is opened (applyServerDraft, switchChat).
DraftWaits ==
    \A c \in Chats \ {chat} :
     drafts[c].text # NoText => drafts[c] = IF chat' = c THEN InBox' ELSE drafts'[c]

\* What comes from outside fills an empty box and never one that is being written in:
\* only the user, an edit or the editor takes words away (restoreDraft).
OnlyTheUserTakesWords ==
    \A m \in mail : box # NoText /\ m.kind \in {"refused", "awaited"} /\ m \notin mail' => box' = box

-----------------------------------------------------------------------------
(* What the source says and the code does not do.  README.md names the     *)
(* instance that refutes each of these.                                    *)

\* "A half-written message belongs to the conversation it was written in" (drafts.go): a
\* send whose result comes back after the user has gone elsewhere, an edit or the editor
\* puts its words into the chat that is open by then.
WordsStayHome == strays = {}

\* "When already at the oldest entry the textarea is left untouched so the user does
\* not lose context to a stuck cursor" (update.go historyPrev): it is written again.
OldestLeavesBox == [][HistoryPrev /\ browse = 1 => box' = box]_composerVars

\* Reset is "used after the user manually types into the textarea so a subsequent Prev
\* starts from the newest entry again" (history.go): typing does not call it.
TypingRewinds == [][Type => browse' = 0]_composerVars

\* "A reply pointer and an edit are mutually exclusive" (edit.go startEdit).
EditOrReply == editing # NotEditing => reply = NoChat

\* "arming an edit destroys a half-written message otherwise, and that is the kind of
\* loss a user does not forgive twice" (edit.go): a second edit displaces the first.
SecondEditKeepsDraft ==
    [][editing # NotEditing /\ editing' # NotEditing => editing'.draft = editing.draft]_composerVars
=============================================================================
