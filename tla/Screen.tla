-------------------------------- MODULE Screen --------------------------------
(***************************************************************************)
(* The root model (ui/app): which pane has the focus, which overlay is up, *)
(* which chat the thread and the composer are on, and the gestures that    *)
(* take several messages to finish: forward, delete, react, open a handle, *)
(* jump to a hit.  Update handles one message at a time; what a command    *)
(* sends back (the mail) comes in any order.                               *)
(*                                                                         *)
(* One message stands for a chat's messages, the chat list's filter is     *)
(* closed.  A result carries fresh instead of the generation it was asked  *)
(* in: fresh says that the counter has not moved since.                    *)
(***************************************************************************)
EXTENDS Integers, FiniteSets

CONSTANTS Chats, NoChat,
          Handle,       \* the chat a typed handle resolves to
          MaxMail, MaxForwards   \* bounds

VARIABLES
    focus,          \* App.focus
    overlays,       \* the overlays that are Visible
    open,           \* thread.ChatID()
    bound,          \* the chat the composer writes to
    loading,        \* thread.Loading()
    pendingForward, pendingDelete, pendingReaction,
    pendingScroll,
    mail,           \* [kind, chat, fresh] on the way back to Update
    armed, forwards \* forwards armed; those sent, as [from, to, named]

panes == <<open, bound>>
pending == <<pendingForward, pendingDelete, pendingReaction>>
counts == <<armed, forwards>>
vars == <<focus, overlays, panes, loading, pending, pendingScroll, mail, counts>>

Panes == <<"chats", "input", "thread">>
Overlays == {"help", "palette", "attach", "emoji", "search"}
Nothing == [from |-> NoChat, named |-> {}]

\* The messages Update's switch takes before the overlays are asked.
Routed == {"selected", "focusCycled", "helpToggled", "paletteOpened", "paletteClosed",
           "picked", "username", "resolved", "searchOpened", "searchClosed", "jump",
           "jumpLoaded", "jumpFailed", "attachOpened", "attachClosed", "emojiOpened",
           "emojiPicked", "emojiClosed"}
Unrouted == {"loaded", "loadFailed"}

TypeOK ==
    /\ focus \in {"chats", "input", "thread"} /\ overlays \subseteq Overlays
    /\ {open, bound} \subseteq Chats \cup {NoChat} /\ loading \in BOOLEAN
    /\ pendingForward \in [from : Chats \cup {NoChat}, named : SUBSET Chats]
    /\ {pendingDelete, pendingReaction, pendingScroll} \subseteq Chats \cup {NoChat}
    /\ mail \subseteq [kind : Routed \cup Unrouted, chat : Chats \cup {NoChat}, fresh : BOOLEAN]
    /\ Cardinality(mail) <= MaxMail /\ armed \in 0 .. MaxForwards
    /\ forwards \subseteq [from : Chats, to : Chats, named : BOOLEAN]

Init ==
    /\ focus = "chats" /\ overlays = {} /\ open = NoChat /\ bound = NoChat
    /\ loading = FALSE /\ pendingForward = Nothing /\ pendingDelete = NoChat
    /\ pendingReaction = NoChat /\ pendingScroll = NoChat
    /\ mail = {} /\ armed = 0 /\ forwards = {}

-----------------------------------------------------------------------------
\* What a command sends back: the generation it was issued in is the current one.
Mail(kind, chat) == [kind |-> kind, chat |-> chat, fresh |-> TRUE]
Post(m) == Cardinality(mail) < MaxMail /\ mail' = mail \cup {m}

\* A counter is bumped: what was asked before answers to an earlier generation.
Outdated(kinds, box) == {IF m.kind \in kinds THEN [m EXCEPT !.fresh = FALSE] ELSE m : m \in box}
Jumps == {"jumpLoaded", "jumpFailed"}
Loads == {"loaded", "loadFailed"}

\* Overlays are asked in this order.
Front ==
    CASE "help" \in overlays -> "help" [] "palette" \in overlays -> "palette"
      [] "attach" \in overlays -> "attach" [] "emoji" \in overlays -> "emoji"
      [] "search" \in overlays -> "search" [] OTHER -> "none"

\* A key gets past the overlays and the confirmation.
KeyReaches == overlays = {} /\ pendingDelete = NoChat
\* overlayVisible, as the mouse asks it.
MouseReaches == overlays \cap {"help", "attach", "palette", "search"} = {}

-----------------------------------------------------------------------------
(* Keys and clicks.                                                        *)

\* Enter on a row, alt+digit, next and previous chat: ChatSelectedMsg.
PickRow(c) ==
    /\ KeyReaches /\ Post(Mail("selected", c))
    /\ UNCHANGED <<focus, overlays, panes, loading, pending, pendingScroll, counts>>

\* handleMouseClick on a row, on the thread and on the composer.
ClickRow(c) ==
    /\ MouseReaches /\ focus' = "chats" /\ Post(Mail("selected", c))
    /\ UNCHANGED <<overlays, panes, loading, pending, pendingScroll, counts>>
ClickPane(p) ==
    /\ MouseReaches /\ p \in {"thread", "input"} /\ p # focus /\ focus' = p
    /\ UNCHANGED <<overlays, panes, loading, pending, pendingScroll, mail, counts>>

\* handleGlobalKey: every chord it takes comes back as a message.
GlobalKey(kind) ==
    /\ KeyReaches
    /\ \/ kind = "helpToggled" /\ focus # "input"
       \/ kind = "searchOpened" /\ focus = "thread"
       \/ kind \in {"paletteOpened", "emojiOpened", "focusCycled"}
       \/ kind = "attachOpened" /\ open # NoChat
    /\ Post(Mail(kind, NoChat))
    /\ UNCHANGED <<focus, overlays, panes, loading, pending, pendingScroll, counts>>

\* cmdForwardTargets: what is forwarded is remembered, then the palette asks where.
ArmForward ==
    /\ KeyReaches /\ focus = "thread" /\ open # NoChat /\ ~loading /\ armed < MaxForwards
    /\ armed' = armed + 1 /\ pendingForward' = [from |-> open, named |-> {}]
    /\ Post(Mail("paletteOpened", NoChat))
    /\ UNCHANGED <<focus, overlays, panes, loading, pendingDelete, pendingReaction,
                   pendingScroll, forwards>>

\* cmdDeleteTargets: the prompt remembers the chat.
AskDelete ==
    /\ KeyReaches /\ focus = "thread" /\ open # NoChat /\ ~loading /\ pendingDelete' = open
    /\ UNCHANGED <<focus, overlays, panes, loading, pendingForward, pendingReaction,
                   pendingScroll, mail, counts>>

\* handleConfirmKey: an offered answer deletes, any other key dismisses.
AnswerDelete ==
    /\ overlays = {} /\ pendingDelete # NoChat /\ pendingDelete' = NoChat
    /\ UNCHANGED <<focus, overlays, panes, loading, pendingForward, pendingReaction,
                   pendingScroll, mail, counts>>

\* cmdReactToCursor opens the picker at once.
ArmReaction ==
    /\ KeyReaches /\ focus = "thread" /\ open # NoChat /\ ~loading
    /\ pendingReaction' = open /\ overlays' = overlays \cup {"emoji"}
    /\ UNCHANGED <<focus, panes, loading, pendingForward, pendingDelete, pendingScroll,
                   mail, counts>>

\* cmdEditTarget moves the focus to the composer.
ArmEdit ==
    /\ KeyReaches /\ focus = "thread" /\ open # NoChat /\ ~loading /\ focus' = "input"
    /\ UNCHANGED <<overlays, panes, loading, pending, pendingScroll, mail, counts>>

\* goToMessage, following a reply or the trail back: the message is not on this page.
GoToMessage ==
    /\ KeyReaches /\ focus = "thread" /\ open # NoChat /\ ~loading
    /\ Cardinality(mail) < MaxMail
    /\ \E k \in Jumps : mail' = Outdated(Jumps, mail) \cup {Mail(k, open)}
    /\ UNCHANGED <<focus, overlays, panes, loading, pending, pendingScroll, counts>>

-----------------------------------------------------------------------------
(* Keys an overlay takes while it is in front.                             *)

\* Esc: the help only hides, the others also say that they closed.
Escape(o) ==
    /\ Front = o /\ overlays' = overlays \ {o}
    /\ IF o = "help" THEN UNCHANGED mail
       ELSE Post(Mail(CASE o = "palette" -> "paletteClosed" [] o = "attach" -> "attachClosed"
                        [] o = "emoji" -> "emojiClosed" [] OTHER -> "searchClosed", NoChat))
    /\ UNCHANGED <<focus, panes, loading, pending, pendingScroll, counts>>

\* The pick a user makes while a forward is pending names its destination.
Named(c) == IF pendingForward = Nothing THEN pendingForward
            ELSE [pendingForward EXCEPT !.named = @ \cup {c}]

\* Enter in the palette: a match is picked, an unmatched handle is looked up.
PalettePick(c) ==
    /\ Front = "palette" /\ overlays' = overlays \ {"palette"}
    /\ pendingForward' = Named(c) /\ Post(Mail("picked", c))
    /\ UNCHANGED <<focus, panes, loading, pendingDelete, pendingReaction,
                   pendingScroll, counts>>
PaletteHandle ==
    /\ Front = "palette" /\ overlays' = overlays \ {"palette"}
    /\ pendingForward' = Named(Handle) /\ Post(Mail("username", Handle))
    /\ UNCHANGED <<focus, panes, loading, pendingDelete, pendingReaction,
                   pendingScroll, counts>>

PickEmoji ==
    /\ Front = "emoji" /\ overlays' = overlays \ {"emoji"} /\ Post(Mail("emojiPicked", NoChat))
    /\ UNCHANGED <<focus, panes, loading, pending, pendingScroll, counts>>
EnterHit(c) ==
    /\ Front = "search" /\ overlays' = overlays \ {"search"} /\ Post(Mail("jump", c))
    /\ UNCHANGED <<focus, panes, loading, pending, pendingScroll, counts>>
SubmitAttach ==
    /\ Front = "attach" /\ overlays' = overlays \ {"attach"}
    /\ UNCHANGED <<focus, panes, loading, pending, pendingScroll, mail, counts>>

-----------------------------------------------------------------------------
(* Handlers.  box is the mail left when the message handled is taken out.  *)

\* thread.OpenChat: older loads answer to an earlier generation.
OpenChat(c, box) ==
    \E k \in Loads : mail' = Outdated(Loads, box) \cup {Mail(k, c)}

\* Mutant: the composer stays with the chat that was left.
SwitchTo_Unbound(c, box) ==
    /\ open' = c /\ pendingScroll' = NoChat /\ loading' = TRUE
    /\ OpenChat(c, Outdated(Jumps, box)) /\ UNCHANGED bound

\* Mutant: a jump under way is still current.
SwitchTo_KeepsJump(c, box) ==
    /\ open' = c /\ bound' = c /\ loading' = TRUE /\ UNCHANGED pendingScroll
    /\ OpenChat(c, box)

\* What a row pick and a palette pick do alike, jumpGen and pendingScroll included.
SwitchTo(c, box) ==
    /\ open' = c /\ bound' = c /\ pendingScroll' = NoChat /\ loading' = TRUE
    /\ OpenChat(c, Outdated(Jumps, box))

HandleChatSelected(m, box) ==
    /\ m.kind = "selected" /\ SwitchTo(m.chat, box)
    /\ focus' = "input" /\ UNCHANGED <<overlays, pending, counts>>

\* Mutant: the forward stays armed once it is sent.
ForwardPicked_StaysArmed(c) ==
    /\ forwards' = IF c = pendingForward.from THEN forwards
                   ELSE forwards \cup {[from |-> pendingForward.from, to |-> c,
                                        named |-> c \in pendingForward.named]}
    /\ UNCHANGED pendingForward

\* Mutant: the chat the messages are in is a destination like any other.
ForwardPicked_AnyChat(c) ==
    /\ pendingForward' = Nothing
    /\ forwards' = forwards \cup {[from |-> pendingForward.from, to |-> c,
                                   named |-> c \in pendingForward.named]}

\* handleForwardPick.
ForwardPicked(c) ==
    /\ pendingForward' = Nothing
    /\ forwards' = IF c = pendingForward.from THEN forwards
                   ELSE forwards \cup {[from |-> pendingForward.from, to |-> c,
                                        named |-> c \in pendingForward.named]}

\* handlePaletteSelected, for a pick and for a handle the server knows.
PaletteSelected(c, box) ==
    /\ overlays' = overlays \ {"palette"}
    /\ \/ /\ pendingForward # Nothing /\ ForwardPicked(c) /\ mail' = box
          /\ UNCHANGED <<focus, panes, loading, pendingScroll>>
       \/ /\ pendingForward = Nothing /\ SwitchTo(c, box)
          /\ focus' = "input" /\ UNCHANGED <<pendingForward, forwards>>
    /\ UNCHANGED <<pendingDelete, pendingReaction, armed>>

HandlePaletteSelected(m, box) == m.kind = "picked" /\ PaletteSelected(m.chat, box)

\* handleOpenUsername closes the palette and asks the server, which may refuse.
HandleOpenUsername(m, box) ==
    /\ m.kind = "username" /\ overlays' = overlays \ {"palette"}
    /\ \/ mail' = box \cup {Mail("resolved", m.chat)}
       \/ mail' = box \cup {Mail("resolved", NoChat)}
    /\ UNCHANGED <<focus, panes, loading, pending, pendingScroll, counts>>

ApplyUsernameResolved(m, box) ==
    /\ m.kind = "resolved"
    /\ \/ /\ m.chat = NoChat /\ mail' = box
          /\ UNCHANGED <<focus, overlays, panes, loading, pending, pendingScroll, counts>>
       \/ m.chat # NoChat /\ PaletteSelected(m.chat, box)

\* ClosedMsg: a forward whose palette was dismissed did not happen.
PaletteClosed(m, box) ==
    /\ m.kind = "paletteClosed" /\ overlays' = overlays \ {"palette"}
    /\ pendingForward' = Nothing /\ mail' = box
    /\ UNCHANGED <<focus, panes, loading, pendingDelete, pendingReaction,
                   pendingScroll, counts>>

\* The other overlays opening and closing.
OverlayToggled(m, box) ==
    /\ overlays' =
         CASE m.kind = "helpToggled" -> (overlays \ {"help"}) \cup ({"help"} \ overlays)
           [] m.kind = "paletteOpened" -> overlays \cup {"palette"}
           [] m.kind = "searchOpened" -> overlays \cup {"search"}
           [] m.kind = "attachOpened" -> overlays \cup {"attach"}
           [] m.kind = "emojiOpened" -> overlays \cup {"emoji"}
           [] m.kind = "searchClosed" -> overlays \ {"search"}
           [] m.kind = "attachClosed" -> overlays \ {"attach"}
    /\ mail' = box
    /\ UNCHANGED <<focus, panes, loading, pending, pendingScroll, counts>>

\* applyFocusChange, either way round.
FocusCycled(m, box) ==
    /\ m.kind = "focusCycled" /\ mail' = box
    /\ \E i \in 1 .. 3, step \in {1, 2} :
          focus = Panes[i] /\ focus' = Panes[((i - 1 + step) % 3) + 1]
    /\ UNCHANGED <<overlays, panes, loading, pending, pendingScroll, counts>>

\* handleReactionPick, or insertEmoji when nothing is being reacted to.
EmojiPicked(m, box) ==
    /\ m.kind = "emojiPicked" /\ mail' = box /\ pendingReaction' = NoChat
    /\ focus' = IF pendingReaction = NoChat THEN "input" ELSE focus
    /\ UNCHANGED <<overlays, panes, loading, pendingForward, pendingDelete, pendingScroll, counts>>

\* Mutant: a dismissed picker leaves the reaction armed.
EmojiClosed_StaysArmed(m, box) ==
    /\ m.kind = "emojiClosed" /\ mail' = box
    /\ UNCHANGED <<focus, overlays, panes, loading, pending, pendingScroll, counts>>

\* cancelPendingReaction.
EmojiClosed(m, box) ==
    /\ m.kind = "emojiClosed" /\ mail' = box /\ pendingReaction' = NoChat
    /\ UNCHANGED <<focus, overlays, panes, loading, pendingForward, pendingDelete, pendingScroll, counts>>

\* handleSearchJump: the chat is switched before its window is there.
HandleSearchJump(m, box) ==
    /\ m.kind = "jump" /\ overlays' = overlays \ {"search"}
    /\ open' = m.chat /\ bound' = m.chat /\ loading' = FALSE /\ pendingScroll' = NoChat
    /\ \E k \in Jumps : mail' = Outdated(Jumps \cup Loads, box) \cup {Mail(k, m.chat)}
    /\ UNCHANGED <<focus, pending, counts>>

\* Mutant: a result of an earlier jump is applied like the current one.
ApplySearchJumpLoaded_Stale(m, box) ==
    /\ m.kind \in Jumps
    /\ \/ /\ m.kind = "jumpLoaded"
          /\ open' = m.chat /\ loading' = FALSE /\ pendingScroll' = NoChat
          /\ mail' = Outdated(Loads, box)
       \/ /\ m.kind = "jumpFailed"
          /\ open' = m.chat /\ loading' = TRUE /\ pendingScroll' = m.chat
          /\ OpenChat(m.chat, box)
    /\ UNCHANGED <<focus, overlays, bound, pending, counts>>

\* applySearchJumpLoaded: only the newest jump, and only while no chat was picked since.
ApplySearchJumpLoaded(m, box) ==
    /\ m.kind \in Jumps
    /\ \/ ~m.fresh /\ mail' = box /\ UNCHANGED <<open, loading, pendingScroll>>
       \/ /\ m.fresh /\ m.kind = "jumpLoaded"
          /\ open' = m.chat /\ loading' = FALSE /\ pendingScroll' = NoChat
          /\ mail' = Outdated(Loads, box)
       \/ /\ m.fresh /\ m.kind = "jumpFailed"
          /\ open' = m.chat /\ loading' = TRUE /\ pendingScroll' = m.chat
          /\ OpenChat(m.chat, box)
    /\ UNCHANGED <<focus, overlays, bound, pending, counts>>

\* What the switch does not name: an overlay that is up swallows it, else
\* broadcastToPanes brings it to the thread, and applyPendingScroll runs after.
Broadcast(m, box) ==
    /\ m.kind \in Unrouted /\ mail' = box
    /\ \/ (overlays # {} \/ ~m.fresh) /\ UNCHANGED <<loading, pendingScroll>>
       \/ /\ overlays = {} /\ m.fresh /\ loading' = FALSE
          /\ pendingScroll' = IF pendingScroll = open THEN NoChat ELSE pendingScroll
    /\ UNCHANGED <<focus, overlays, panes, pending, counts>>

Update(m) ==
    LET box == mail \ {m} IN
    \/ HandleChatSelected(m, box) \/ HandlePaletteSelected(m, box)
    \/ HandleOpenUsername(m, box) \/ ApplyUsernameResolved(m, box) \/ PaletteClosed(m, box)
    \/ /\ m.kind \in {"helpToggled", "paletteOpened", "searchOpened", "attachOpened",
                      "emojiOpened", "searchClosed", "attachClosed"}
       /\ OverlayToggled(m, box)
    \/ FocusCycled(m, box) \/ EmojiPicked(m, box) \/ EmojiClosed(m, box)
    \/ HandleSearchJump(m, box) \/ ApplySearchJumpLoaded(m, box) \/ Broadcast(m, box)

-----------------------------------------------------------------------------
Gesture ==
    \/ \E c \in Chats : PickRow(c) \/ ClickRow(c) \/ PalettePick(c) \/ EnterHit(c)
    \/ \E p \in {"thread", "input"} : ClickPane(p)
    \/ \E k \in {"helpToggled", "searchOpened", "paletteOpened", "emojiOpened",
                 "focusCycled", "attachOpened"} : GlobalKey(k)
    \/ ArmForward \/ AskDelete \/ AnswerDelete \/ ArmReaction \/ ArmEdit
    \/ GoToMessage
    \/ \E o \in Overlays : Escape(o)
    \/ PaletteHandle \/ PickEmoji \/ SubmitAttach

Next ==
    \/ Gesture
    \/ \E m \in mail : Update(m)

Spec == Init /\ [][Next]_vars /\ WF_vars(\E m \in mail : Update(m))

-----------------------------------------------------------------------------
\* What is typed goes to the chat on screen: however picks, handles, jumps and
\* their late answers interleave, the composer and the thread are on the same
\* chat (update.go, handleChatSelected, handleSearchJump, applySearchJumpLoaded).
ComposerFollowsThread == bound = open

\* No answer that arrives late puts the thread back on a chat that was left: it
\* changes chats only on a pick, a resolved handle or a hit (update.go, jumpGen).
LateAnswersStay ==
    open' # open => \E m \in mail \ mail' :
       m.kind \in {"selected", "picked", "resolved", "jump"} /\ open' = m.chat

\* A scroll that waits for a load waits for the chat on screen (update.go,
\* pendingThreadScroll): none is left over from a jump that was superseded.
ScrollIsForThisChat == pendingScroll \in {NoChat, open}

\* One gesture sends messages once, and never to the chat they are from
\* (forward.go, handleForwardPick).
ForwardedOnce ==
    /\ Cardinality(forwards) <= armed
    /\ \A f \in forwards : f.from # f.to

\* A reaction waits only while its picker is up or has just answered: no emoji
\* picked later for the composer becomes a reaction (reactions.go).
ReactionHasItsPicker ==
    pendingReaction # NoChat =>
        "emoji" \in overlays \/ \E m \in mail : m.kind \in {"emojiPicked", "emojiClosed"}

-----------------------------------------------------------------------------
(* What the source says and the code does not do.  README.md names the     *)
(* instance that refutes each of these.                                    *)

\* "They must reach the pane that produced them regardless of which pane
\* currently has focus" (update.go): under an overlay they do not, and a thread
\* that waits has no answer on its way.
LoadingHasItsAnswer == loading => \E m \in mail : m.kind \in Unrouted /\ m.fresh

\* "naming the destination is a separate act" (forward.go): a handle looked up
\* before takes the messages when the server answers.
ForwardsWhereNamed == \A f \in forwards : f.named

\* "the palette closes with nothing chosen" (model.go): a handle the server does
\* not know leaves the forward armed, the next pick sends.
ForwardHasItsPalette ==
    pendingForward # Nothing =>
        "palette" \in overlays \/ \E m \in mail :
            m.kind \in {"paletteOpened", "paletteClosed", "picked", "username", "resolved"}

\* "whether any modal overlay is on screen" (mouse.go): a click behind the
\* deletion prompt changes chats.
PromptIsAboutThisChat == pendingDelete \in {NoChat, open}
=============================================================================
