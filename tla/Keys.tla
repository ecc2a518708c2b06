--------------------------------- MODULE Keys ---------------------------------
(***************************************************************************)
(* What a key does (ui/keymap, and the routing of ui/app/update.go): the   *)
(* keymap is the built-in one with the user's file merged on top, refused  *)
(* when two actions share a key; a key goes to the overlay that is up, or  *)
(* down a list of handlers, each live in some panes only, and what none of *)
(* them takes is the focused pane's.                                       *)
(*                                                                         *)
(* A key is its modifiers and its base, as the terminal library names it;  *)
(* a spelling in the file is the parts between its plus signs.             *)
(***************************************************************************)
EXTENDS Integers, FiniteSets, Sequences, SequencesExt

CONSTANTS Files,        \* the files a user may have: functions, action -> spelling
          Documented,   \* the file docs/CONFIGURATION.md gives as an example
          Pressed,      \* the keys that are pressed
          MaxPresses    \* bound

VARIABLES
    file,           \* the user's file
    up,             \* the program is running
    focus,
    filtering,      \* the chat list's filter is being typed
    overlay,        \* the overlay on screen
    chatOpen,
    pending,        \* what a pick is waited for: a forward's target, a reaction
    asked,          \* handles the server was asked for
    code,           \* a :shortcode before the cursor
    did,            \* the last key, where it was pressed, and what took it
    opened,         \* history: the binding that put the overlay up
    presses

place == <<focus, chatOpen, code>>
vars == <<file, up, filtering, place, overlay, pending, asked, did, opened, presses>>

-----------------------------------------------------------------------------
(* The keymap.                                                             *)

Key(mods, base) == [mods |-> mods, base |-> base]
Plain(base) == {Key({}, base)}
Ctrl(base) == {Key({"ctrl"}, base)}
Alt(base) == {Key({"alt"}, base)}

Default ==
    [send |-> Plain("enter"), newline |-> Alt("enter"), reply |-> Ctrl("r"),
     open_editor |-> Ctrl("e"), toggle_help |-> Plain("?"),
     focus_next |-> Plain("tab"), focus_prev |-> {Key({"shift"}, "tab")},
     next_chat |-> Ctrl("tab") \cup Alt("n"),
     prev_chat |-> {Key({"ctrl", "shift"}, "tab")} \cup Alt("p"),
     scroll_up |-> Ctrl("b") \cup Plain("pgup"), scroll_down |-> Ctrl("f") \cup Plain("pgdown"),
     search |-> Plain("/"), open_palette |-> Ctrl("space") \cup Ctrl("@"),
     download |-> Ctrl("d"), open_media |-> Plain("o"), attach |-> Ctrl("u"),
     next_folder |-> Plain("]"), prev_folder |-> Plain("["), show_image |-> Plain("i"),
     mark_message |-> Plain(" "), copy_message |-> Plain("y"), copy_link |-> Plain("l"),
     press_button |-> Plain("enter"), edit_message |-> Plain("e"), delete_msg |-> Plain("d"),
     forward_message |-> Plain("f"), react_message |-> Plain("r"),
     jump_to_reply |-> Plain("p"), jump_back |-> Ctrl("o"), emoji_picker |-> Alt("e"),
     complete_emoji |-> Plain("tab"), mute_chat |-> Plain("m"), pin_chat |-> Plain("p"),
     toggle_unread |-> Plain("u"), quit |-> Ctrl("c") \cup Ctrl("q")]
BindingFields == DOMAIN Default

Modifiers == {"ctrl", "alt", "shift"}
Named == [return |-> "enter", escape |-> "esc", del |-> "delete", pgdn |-> "pgdown"]
\* Letters and signs of the instances; a rune stands for itself.
Runes == {"a", "b", "c", "d", "e", "f", "j", "m", "n", "p", "q", "r", "u", "x", "y", "1", "?", "/", "[", "]", "@"}
BaseKeys == Runes \cup {"enter", "tab", "esc", "space", "backspace", "delete", "up", "down",
                        "left", "right", "pgup", "pgdown", "f1"}
CanonicalBaseKey(s) == IF s \in DOMAIN Named THEN Named[s] ELSE s

\* parseKey: every part but the last is a modifier, none twice.
Parses(parts) ==
    LET n == Len(parts)
    IN  /\ n > 0 /\ \A i \in 1 .. n - 1 : parts[i] \in Modifiers
        /\ \A i, j \in 1 .. n - 1 : i # j => parts[i] # parts[j]
        /\ CanonicalBaseKey(parts[n]) \in BaseKeys
ParseKey(parts) == Key({parts[i] : i \in 1 .. Len(parts) - 1}, CanonicalBaseKey(parts[Len(parts)]))

\* apply.
Apply(f) == [b \in BindingFields |-> IF b \in DOMAIN f THEN {ParseKey(f[b])} ELSE Default[b]]

Coexisting == {{"complete_emoji", "focus_next"}, {"jump_to_reply", "pin_chat"}, {"press_button", "send"}}
Owners(km, k) == {b \in BindingFields : k \in km[b]}

\* Mutant: only the keys the file gives are compared.
DetectConflicts_FileOnly(km, f) ==
    {k \in UNION {km[b] : b \in DOMAIN f} :
        Cardinality(Owners(km, k) \cap DOMAIN f) > 1 /\ Owners(km, k) \notin Coexisting}

\* DetectConflicts, over the merged keymap.
DetectConflicts(km, f) ==
    {k \in UNION {km[b] : b \in BindingFields} :
        Cardinality(Owners(km, k)) > 1 /\ Owners(km, k) \notin Coexisting}

\* Load, or the start is given up.
Loads(f) ==
    /\ DOMAIN f \subseteq BindingFields /\ \A b \in DOMAIN f : Parses(f[b])
    /\ DetectConflicts(Apply(f), f) = {}
Loaded == [f \in {g \in Files : Loads(g)} |-> Apply(f)]
keymap == Loaded[file]

-----------------------------------------------------------------------------
(* The routing.                                                            *)

Panes == <<"chats", "input", "thread">>     \* in the order Tab walks them
\* The key is text where text is typed.
Printable(k) == k.mods = {} /\ k.base \in Runes
Typing == focus = "input" \/ (focus = "chats" /\ filtering)
Step(dir) ==
    LET i == CHOOSE n \in 1 .. 3 : Panes[n] = focus
    IN  Panes[((i - 1 + dir) % 3) + 1]

QuickKeys == {Key({"alt"}, "1")}
Answers(b, k) == IF b = "quick_chat" THEN k \in QuickKeys ELSE k \in keymap[b]

ChatActions == {"mute_chat", "pin_chat", "toggle_unread"}
MessageActions == {"copy_message", "copy_link", "press_button", "edit_message", "delete_msg",
                   "jump_to_reply", "jump_back", "react_message", "forward_message", "show_image"}
Composer == {"send", "newline", "reply", "open_editor"}

\* Mutant: help opens from any pane.
Live_HelpAnywhere(b) ==
    CASE b \in {"next_folder", "prev_folder", "download"} -> focus # "input" /\ ~filtering
      [] b \in ChatActions -> focus = "chats" /\ ~filtering
      [] b \in MessageActions \cup {"open_media", "search"} -> focus = "thread" /\ ~filtering
      [] b \in {"quick_chat", "open_palette", "emoji_picker", "attach"} -> ~filtering
      [] b = "complete_emoji" -> focus = "input" /\ code
      [] b \in {"scroll_up", "scroll_down"} -> focus # "input"
      [] b \in Composer -> focus = "input"
      [] b = "mark_message" -> FALSE
      [] OTHER -> TRUE

\* Where a binding is live: the guards of applyFolderKey, applyQuickChatKey,
\* applyChatActionKey, applyMessageActionKey, handleGlobalKey, applyScrollKey
\* and of the composer's handleChord.
Live(b) ==
    CASE b \in {"next_folder", "prev_folder", "download", "toggle_help"} -> focus # "input" /\ ~filtering
      [] b \in ChatActions -> focus = "chats" /\ ~filtering
      [] b \in MessageActions \cup {"open_media", "search"} -> focus = "thread" /\ ~filtering
      [] b \in {"quick_chat", "open_palette", "emoji_picker", "attach"} -> ~filtering
      [] b = "complete_emoji" -> focus = "input" /\ code
      [] b \in {"scroll_up", "scroll_down"} -> focus # "input"
      [] b \in Composer -> focus = "input"
      [] b = "mark_message" -> FALSE            \* nothing asks for it
      [] OTHER -> TRUE                          \* focus_*, next_chat, prev_chat, quit

\* The handlers, in the order a key passes them.  In the case of complete_emoji
\* handleGlobalKey leaves the key to the composer.
Order == <<{"next_folder", "prev_folder"}, {"quick_chat"}, ChatActions, MessageActions,
           {"toggle_help"}, {"search"}, {"open_palette"}, {"download"}, {"open_media"},
           {"emoji_picker"}, {"attach"}, {"next_chat"}, {"prev_chat"}, {"complete_emoji"},
           {"focus_next"}, {"focus_prev"}, {"quit"}, {"scroll_up", "scroll_down"}, Composer>>

\* A message action with nothing to act on leaves the key to the next handler.
Contenders(k, idle) ==
    {b \in UNION {Order[i] : i \in DOMAIN Order} :
        Answers(b, k) /\ Live(b) /\ ~(idle /\ b \in MessageActions)}
Taker(k, idle) ==
    LET takers == Contenders(k, idle)
        first == CHOOSE i \in DOMAIN Order :
                    /\ Order[i] \cap takers # {}
                    /\ \A j \in 1 .. i - 1 : Order[j] \cap takers = {}
    IN  IF takers = {} THEN "pane" ELSE CHOOSE b \in Order[first] : b \in takers

Overlays == {"none", "help", "palette", "search", "attach", "emoji", "confirm"}
Took == [key : Pressed, by : BindingFields \cup {"pane", "text", "overlay", "quick_chat", "mark"},
         at : {"chats", "input", "thread"}, typing : BOOLEAN, contenders : SUBSET (BindingFields \cup {"quick_chat"})]

TypeOK ==
    /\ file \in Files /\ up \in BOOLEAN /\ focus \in {"chats", "input", "thread"}
    /\ {filtering, chatOpen, code} \subseteq BOOLEAN /\ overlay \in Overlays
    /\ pending \subseteq {"forward", "react"} /\ asked \in Nat
    /\ did = <<>> \/ did \in Took

\* loadKeymap, at the start: a file that is refused ends it.
Init ==
    /\ file \in Files /\ up = Loads(file)
    /\ focus = "chats" /\ filtering = FALSE /\ overlay = "none" /\ chatOpen = FALSE
    /\ pending = {} /\ asked = 0 /\ code = FALSE
    /\ did = <<>> /\ opened = "none" /\ presses = 0

Opens == [toggle_help |-> "help", search |-> "search", open_palette |-> "palette", attach |-> "attach",
          emoji_picker |-> "emoji", react_message |-> "emoji", forward_message |-> "palette",
          delete_msg |-> "confirm"]
Purpose == [forward_message |-> {"forward"}, react_message |-> {"react"}]
ToComposer == {"next_chat", "prev_chat", "quick_chat", "edit_message"}
\* What may take its key and do nothing: a short list of chats, a message that is
\* not the user's or has not been sent, no connection.
Refusable == MessageActions \cup {"next_chat", "prev_chat", "quick_chat"}

Note(k, by, idle) ==
    did' = [key |-> k, by |-> by, at |-> focus, typing |-> Typing, contenders |-> Contenders(k, idle)]

\* What a binding that takes the key does to where the next one goes, once the
\* message it sends is in.
Act(b) ==
    LET opens == b \in DOMAIN Opens /\ (b = "attach" => chatOpen)
    IN  /\ up' = (b # "quit")
        /\ overlay' = IF opens THEN Opens[b] ELSE overlay
        /\ opened' = IF opens THEN b ELSE opened
        /\ pending' = pending \cup (IF b \in DOMAIN Purpose THEN Purpose[b] ELSE {})
        /\ focus' = CASE b = "focus_next" -> Step(1)
                      [] b = "focus_prev" -> Step(-1)
                      [] b \in ToComposer -> "input"
                      [] OTHER -> focus
        /\ chatOpen' = (chatOpen \/ b \in {"next_chat", "prev_chat", "quick_chat"})
        /\ code' \in IF b \in ToComposer \cup {"send", "newline"} THEN BOOLEAN ELSE {code}
        /\ UNCHANGED <<filtering, asked>>
Perform(b) ==
    \/ Act(b)
    \/ b \in Refusable /\ UNCHANGED <<up, filtering, place, overlay, opened, pending, asked>>

\* What no handler takes is the focused pane's: text, the list's own filter, the
\* space that marks a message (thread/update.go, handleKey).
Delegate(k) ==
    /\ UNCHANGED <<up, overlay, opened, pending, asked>>
    /\ filtering' = IF focus # "chats" THEN filtering
                    ELSE IF filtering THEN k.base \notin {"enter", "esc"}
                    ELSE k = Key({}, "/")
    /\ focus' \in IF focus = "chats" /\ ~filtering /\ k.base = "enter" THEN {"input", focus} ELSE {focus}
    /\ chatOpen' = (chatOpen \/ focus' # focus)
    /\ code' \in IF focus = "input" \/ focus' # focus THEN BOOLEAN ELSE {code}

Tally == up /\ presses < MaxPresses /\ presses' = presses + 1 /\ UNCHANGED file

\* Mutant: the handlers see the key before the overlay does.
PressUnder_HandlersFirst(k) ==
    LET b == Taker(k, FALSE)
    IN  /\ Tally /\ overlay # "none" /\ b # "pane"
        /\ Perform(b) /\ Note(k, b, FALSE)

\* A chat is opened: the composer holds that chat's draft.
GoTo(pane) == focus' = pane /\ chatOpen' = TRUE /\ code' \in BOOLEAN

\* Mutant: a pick opens the chat also when a forward waits for one.
ChatPicked_Opens == pending' = pending \ {"forward"} /\ GoTo("input")

\* handlePaletteSelected: a forward that waits takes the chat, else it is opened.
ChatPicked ==
    \/ "forward" \in pending /\ pending' = pending \ {"forward"} /\ UNCHANGED place
    \/ "forward" \notin pending /\ GoTo("input") /\ UNCHANGED pending

\* EmojiPickedMsg: a reaction that waits takes the character, else it is written.
EmojiPicked ==
    \/ "react" \in pending /\ pending' = pending \ {"react"} /\ UNCHANGED place
    \/ /\ "react" \notin pending /\ focus' = "input" /\ code' \in BOOLEAN
       /\ UNCHANGED <<chatOpen, pending>>

\* Enter with something to take: a row or a handle, a character, a hit, a file.
\* Without a connection a handle is not asked for.
Choose(k) ==
    /\ k.base = "enter" /\ overlay \in {"palette", "emoji", "search", "attach"}
    /\ overlay = "emoji" => k.mods = {}
    /\ overlay' = "none"
    /\ \/ overlay = "palette" /\ ChatPicked /\ UNCHANGED asked
       \/ overlay = "palette" /\ asked' \in {asked, asked + 1} /\ UNCHANGED <<place, pending>>
       \/ overlay = "emoji" /\ EmojiPicked /\ UNCHANGED asked
       \/ overlay = "search" /\ GoTo(focus) /\ UNCHANGED <<pending, asked>>
       \/ overlay = "attach" /\ UNCHANGED <<place, pending, asked>>

\* The keys that close an overlay and choose nothing; every key answers the
\* confirmation.  What waited for the pick is called off.
Dismisses(k) ==
    \/ k.base = "esc" /\ (overlay \in {"help", "emoji"} => k.mods = {})
    \/ overlay = "help" /\ k \in {Key({}, "q"), Key({}, "?")}
    \/ overlay = "confirm"
Dismiss(k) ==
    /\ Dismisses(k) /\ overlay' = "none"
    /\ pending' = pending \ CASE overlay = "palette" -> {"forward"} [] overlay = "emoji" -> {"react"}
                               [] OTHER -> {}
    /\ UNCHANGED <<place, asked>>

\* An overlay that is up takes every key: it closes, or keeps the key to itself.
PressUnder(k) ==
    /\ Tally /\ overlay # "none"
    /\ \/ Choose(k) \/ Dismiss(k)
       \/ ~Dismisses(k) /\ UNCHANGED <<place, overlay, pending, asked>>
    /\ did' = [key |-> k, by |-> "overlay", at |-> focus, typing |-> Typing, contenders |-> {}]
    /\ opened' = IF overlay' = "none" THEN "none" ELSE opened
    /\ UNCHANGED <<up, filtering>>

\* Without a chat there is no message to act on.
PressKey(k, idle) ==
    LET b == Taker(k, idle)
        own == IF Typing /\ Printable(k) THEN "text"
               ELSE IF focus = "thread" /\ k = Key({}, "space") THEN "mark" ELSE "pane"
    IN  /\ Tally /\ overlay = "none" /\ (~chatOpen => idle)
        /\ IF b = "pane" THEN Delegate(k) /\ Note(k, own, idle)
                         ELSE Perform(b) /\ Note(k, b, idle)

\* applyUsernameResolved, whatever is up by then: a chat is a pick of the palette, an
\* error only a line in the status bar.
Resolve ==
    /\ up /\ asked > 0 /\ asked' = asked - 1
    /\ \/ UNCHANGED <<place, overlay, opened, pending>>
       \/ /\ ChatPicked
          /\ overlay' = IF overlay = "palette" THEN "none" ELSE overlay
          /\ opened' = IF overlay = "palette" THEN "none" ELSE opened
    /\ UNCHANGED <<file, up, filtering, did, presses>>

Next ==
    \/ \E k \in Pressed : PressUnder(k) \/ \E idle \in BOOLEAN : PressKey(k, idle)
    \/ Resolve

Spec == Init /\ [][Next]_vars

-----------------------------------------------------------------------------
(* Properties.                                                             *)

\* No letter or sign typed into the composer or the filter is taken for a
\* command, as long as the user has not put one on an action that is live there
\* (handleGlobalKey, applyMessageActionKey).
NothingTypedIsStolen ==
    LET everywhere == {"focus_next", "focus_prev", "next_chat", "prev_chat", "quit", "complete_emoji",
                       "open_palette", "emoji_picker", "attach", "scroll_up", "scroll_down"} \cup Composer
    IN  did # <<>> /\ did.by # "overlay" /\ did.typing /\ Printable(did.key)
          /\ (\A b \in everywhere : \A k \in keymap[b] : ~Printable(k))
            => did.by = "text"

\* With a keymap that was accepted no key has two actions that could answer it
\* in the same place, but for the completion of an emoji and the change of pane
\* (conflict.go, coexisting; Alt with a digit is not in the keymap).
OneAnswer ==
    did # <<>> =>
        LET mapped == did.contenders \ {"quick_chat"}
        IN  Cardinality(mapped) <= 1 \/ mapped = {"complete_emoji", "focus_next"}

\* What waits for a pick has the overlay that asks for it: no character is picked for
\* a reaction in a picker put up for the composer, and a palette put up to forward
\* forwards.  No overlay is up while the filter is being typed (reactions.go, forward.go).
OverlaysAreTheirs ==
    /\ overlay # "none" => ~filtering /\ opened \in DOMAIN Opens /\ Opens[opened] = overlay
    /\ "react" \in pending <=> overlay # "none" /\ opened = "react_message"
    /\ overlay # "none" /\ opened = "forward_message" => "forward" \in pending

\* A keymap that loads gives each key one taker where it is pressed, what is typed
\* reaches its field, and an overlay takes keys for what it was put up for
\* (keymap/conflict.go, handleGlobalKey).
KeysReach == TypeOK /\ OneAnswer /\ NothingTypedIsStolen /\ OverlaysAreTheirs

\* Under an overlay a key quits nothing, filters nothing and opens no other overlay,
\* and what its pick moves behind the overlay is what the overlay was put up for: one
\* put up to forward or to react leaves the user where he was, one put up for the
\* composer types there, a hit opens its chat (update.go, handlePaletteSelected).
ModalTakesAll ==
    overlay # "none" /\ presses' # presses =>
        /\ UNCHANGED <<up, filtering>> /\ overlay' \in {overlay, "none"}
        /\ (focus' # focus \/ chatOpen' # chatOpen) =>
              /\ overlay' = "none" /\ did'.key.base = "enter"
              /\ opened \in {"open_palette", "emoji_picker", "search"}
        /\ overlay' = "none" /\ did'.key.base = "enter" =>
              /\ opened = "emoji_picker" => focus' = "input" /\ chatOpen' = chatOpen
              /\ opened = "search" => focus' = focus /\ chatOpen'

-----------------------------------------------------------------------------
(* What the source says and the code does not do.  README.md names the     *)
(* instance that refutes each of these.                                    *)

\* docs/CONFIGURATION.md: the file it gives as an example.  It puts open_palette
\* and prev_chat on the same key.
DocumentedFileLoads == file = Documented => up \/ did # <<>>

\* defaults.go: "Keymap holds every action-level key.Binding the TUI consumes";
\* CONFIGURATION.md lists mark_message among the keys that can be overridden.
\* Nothing consumes it: the thread marks on the space bar.
RebindingMarks ==
    did # <<>> /\ did.at = "thread" /\ did.by # "overlay" /\ "mark_message" \in DOMAIN file
      /\ did.key \in keymap["mark_message"] => did.by = "mark"

\* conflict.go: without the check a user could "shadow Send with Reply and find out
\* at runtime".  A key of the quick chats shadows it and is accepted.
SendIsNotShadowed ==
    did # <<>> /\ did.at = "input" /\ did.by # "overlay" /\ did.key \in keymap["send"]
      => did.by = "send"

\* parse.go: the canonical form is the one "matching bubbletea v2's
\* KeyPressMsg.String() output".  A shifted letter comes as its capital.
CanBePressed ==
    up => \A b \in DOMAIN file : \A k \in keymap[b] :
             ~(k.mods = {"shift"} /\ k.base \in Runes)

\* CONFIGURATION.md: the actions of the thread, in the thread.  Tab leaves the
\* filter open behind it, and an open filter disarms them in every pane.
ThreadKeysAct ==
    did # <<>> /\ did.at = "thread" /\ did.by # "overlay" /\ did.key \in keymap["copy_message"]
      => ~filtering

\* help.go, View: "a centred modal listing every action and its key chord".
HelpRows == BindingFields \ {"copy_link", "press_button", "mute_chat", "pin_chat", "toggle_unread"}
HelpListsEvery == overlay = "help" => HelpRows = BindingFields
=============================================================================
