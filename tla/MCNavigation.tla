--------------------------- MODULE MCNavigation ----------------------------
(* Keys, lists and text: what a key does, what the lists show, and the pure *)
(* conversions of what is typed, each on its own small instance.           *)
EXTENDS Keys, TLC

Message(c, i) == [chat |-> c, id |-> i]
Messages == {Message("a", 1), Message("a", 2), Message("a", 3), Message("b", 1)}

\* A monkey, a heart the alias does not name, and an arrow.
Entries ==
    <<[char |-> "monkey", name |-> <<"h", "e", "-", "m">>, group |-> "Smileys"],
      [char |-> "arrow", name |-> <<"m", " ", "h", "e">>, group |-> "Symbols"],
      [char |-> "heart", name |-> <<"m", "e", "h">>, group |-> "Symbols"]>>

\* The example of docs/CONFIGURATION.md, and files of one or two lines.
MCDocumented ==
    [reply |-> <<"ctrl", "e">>, open_editor |-> <<"ctrl", "r">>, open_palette |-> <<"ctrl", "p">>,
     quit |-> <<"esc">>, next_chat |-> <<"ctrl", "n">>, prev_chat |-> <<"ctrl", "p">>]
MCFiles ==
    {<<>>, MCDocumented,
     [reply |-> <<"ctrl", "e">>, open_editor |-> <<"ctrl", "r">>, quit |-> <<"escape">>],
     [send |-> <<"ctrl", "r">>], [jump_to_reply |-> <<"x">>, pin_chat |-> <<"x">>],
     [pin_chat |-> <<"y">>], [send |-> <<"alt", "1">>], [copy_link |-> <<"a", "ctrl">>],
     [mark_message |-> <<"x">>], [revply |-> <<"x">>], [attach |-> <<"shift", "a">>],
     [focus_next |-> <<"return">>], [copy_message |-> <<"f1">>, complete_emoji |-> <<"ctrl", "x">>]}
MCPressed ==
    LET On(mods, bases) == {Key(mods, b) : b \in bases}
    IN  On({}, {"a", "d", "e", "f", "x", "y", "p", "r", "?", "/", "]", "enter", "tab", "esc",
                "space", "pgup", "f1"})
        \cup On({"ctrl"}, {"r", "e", "c", "d", "u", "f", "x", "space"})
        \cup On({"alt"}, {"1", "n", "e"}) \cup On({"shift"}, {"tab"})

VARIABLES part,      \* the component this behaviour is of
          \* its variables, in the order its module declares them
          v1, v2, v3, v4, v5, v6, v7, v8, v9, v10, v11, v12, v13, v14, v15, v16, v17, v18

state == <<part, vars, v1, v2, v3, v4, v5, v6, v7, v8, v9, v10, v11, v12, v13, v14, v15, v16,
           v17, v18>>

\* The variables a component does not use keep one value.
Idle == "idle"
KeysIdle == Init /\ file = <<>>

\* Three emoji, an alias that names none of them, a grid of two columns.
EmojiEntry == INSTANCE EmojiEntry WITH
    Entries <- Entries, Aliases <- (<<"h", "e">> :> "love") @@ (<<"m">> :> "heart"),
    CategoryOrder <- <<"Smileys", "Food", "Symbols">>,
    Queries <- {<<>>, <<"h">>, <<"h", "e">>, <<"m">>, <<"x">>}, Nothing <- "nothing",
    EmojiCandidates <- 3, RecentLimit <- 2, Cols <- 2, MaxPieces <- 3, MaxStrokes <- 6,
    focus <- v1, box <- v2, lastSent <- v3, emoji <- v4, open <- v5, query <- v6,
    catIndex <- v7, position <- v8, recent <- v9, picked <- v10, strokes <- v11

\* Two chats, one folder holding both, six lines.
ChatList == INSTANCE ChatList WITH
    Chats <- {"a", "b"}, NoChat <- "none", Folders <- <<{"a", "b"}>>, Height <- 6,
    MaxChanges <- 2, MaxMoves <- 2, table <- v1, pending <- v2, events <- v3, armed <- v4,
    asked <- v5, results <- v6, overtaken <- v7, swallowed <- v8, rows <- v9, folders <- v10,
    tab <- v11, room <- v12, items <- v13, filter <- v14, matched <- v15, index <- v16,
    edits <- v17, moves <- v18

\* Two chats, one query with one hit, a hot set of one.
Palette == INSTANCE Palette WITH
    Chats <- {"a", "b"}, NoChat <- "none", Titled <- {"a", "b"}, Query <- "q",
    Hits <- {"b"}, HotSetLimit <- 1, MaxMonths <- 2, MaxKeys <- 8, month <- v1,
    visits <- v2, visible <- v3, text <- v4, items <- v5, filtered <- v6, cursor <- v7,
    reads <- v8, current <- v9, visiting <- v10, keys <- v11

\* A database from before the index: three old messages in two chats, one to come.
SearchIndex == INSTANCE SearchIndex WITH
    Messages <- Messages, Old <- {m \in Messages : m # Message("a", 3)}, PerChat <- 2,
    Around <- 1, MaxSearches <- 2, MaxWrites <- 1, MaxDeletes <- 1, MaxRestarts <- 1,
    MaxErrors <- 1, listed <- v1, table <- v2, indexed <- v3, lazy <- v4, pass <- v5,
    promised <- v6, completed <- v7, ever <- v8, budget <- v9

\* Search inputs of up to four pieces.
SearchQuery == INSTANCE SearchQuery
QueryPieces == {SearchQuery!Quote, SearchQuery!Escape, SearchQuery!Space, SearchQuery!Colon,
                SearchQuery!Dash, SearchQuery!Sigil, SearchQuery!Date, SearchQuery!File,
                "from", "in", "has", "before", "word"}
TypeQuery == Len(v1) < 4 /\ \E c \in QueryPieces : v1' = Append(v1, c)

\* Marked-up inputs of up to five pieces.
Markup == INSTANCE Markup
MarkupPieces == {"a", "**", "__", "||", "tick", "[", "](", ")", Markup!Newline, "fence"}
TypeMarkup == Len(v1) < 5 /\ \E c \in MarkupPieces : v1' = Append(v1, c)

\* Texts of narrow and wide runes with up to two entities.
Entities == [kind : {"**", "link", "mention"}, at : 0 .. 2, len : 1 .. 2]
Attach == Cardinality(v2) < 2 /\ \E e \in Entities : v2' = v2 \cup {e} /\ UNCHANGED v1

MCInit ==
    \/ /\ part = "emoji" /\ EmojiEntry!Init /\ KeysIdle
       /\ v12 = Idle /\ v13 = Idle /\ v14 = Idle /\ v15 = Idle /\ v16 = Idle /\ v17 = Idle /\ v18 = Idle
    \/ /\ part = "list" /\ ChatList!Init /\ KeysIdle
    \/ /\ part = "palette" /\ Palette!Init /\ KeysIdle
       /\ v12 = Idle /\ v13 = Idle /\ v14 = Idle /\ v15 = Idle /\ v16 = Idle /\ v17 = Idle /\ v18 = Idle
    \/ /\ part = "keys" /\ Init
       /\ v1 = Idle /\ v2 = Idle /\ v3 = Idle /\ v4 = Idle /\ v5 = Idle /\ v6 = Idle
       /\ v7 = Idle /\ v8 = Idle /\ v9 = Idle /\ v10 = Idle /\ v11 = Idle /\ v12 = Idle
       /\ v13 = Idle /\ v14 = Idle /\ v15 = Idle /\ v16 = Idle /\ v17 = Idle /\ v18 = Idle
    \/ /\ part = "index" /\ SearchIndex!Init /\ KeysIdle
       /\ v10 = Idle /\ v11 = Idle /\ v12 = Idle /\ v13 = Idle /\ v14 = Idle /\ v15 = Idle
       /\ v16 = Idle /\ v17 = Idle /\ v18 = Idle
    \/ /\ part = "query" /\ v1 = <<>> /\ KeysIdle
       /\ v2 = Idle /\ v3 = Idle /\ v4 = Idle /\ v5 = Idle /\ v6 = Idle /\ v7 = Idle
       /\ v8 = Idle /\ v9 = Idle /\ v10 = Idle /\ v11 = Idle /\ v12 = Idle /\ v13 = Idle
       /\ v14 = Idle /\ v15 = Idle /\ v16 = Idle /\ v17 = Idle /\ v18 = Idle
    \/ /\ part = "markup" /\ v1 = <<>> /\ KeysIdle
       /\ v2 = Idle /\ v3 = Idle /\ v4 = Idle /\ v5 = Idle /\ v6 = Idle /\ v7 = Idle
       /\ v8 = Idle /\ v9 = Idle /\ v10 = Idle /\ v11 = Idle /\ v12 = Idle /\ v13 = Idle
       /\ v14 = Idle /\ v15 = Idle /\ v16 = Idle /\ v17 = Idle /\ v18 = Idle
    \/ /\ part = "wire" /\ v1 \in UNION {[1 .. n -> {1, 2}] : n \in 1 .. 3} /\ v2 = {} /\ KeysIdle
       /\ v3 = Idle /\ v4 = Idle /\ v5 = Idle /\ v6 = Idle /\ v7 = Idle /\ v8 = Idle
       /\ v9 = Idle /\ v10 = Idle /\ v11 = Idle /\ v12 = Idle /\ v13 = Idle /\ v14 = Idle
       /\ v15 = Idle /\ v16 = Idle /\ v17 = Idle /\ v18 = Idle

MCSteps ==
    \/ part = "emoji" /\ EmojiEntry!Next /\ UNCHANGED <<v12, v13, v14, v15, v16, v17, v18, vars>>
    \/ part = "list" /\ ChatList!Next /\ UNCHANGED <<vars>>
    \/ part = "palette" /\ Palette!Next /\ UNCHANGED <<v12, v13, v14, v15, v16, v17, v18, vars>>
    \/ part = "keys" /\ Next
       /\ UNCHANGED <<v1, v2, v3, v4, v5, v6, v7, v8, v9, v10, v11, v12, v13, v14, v15, v16, v17, v18>>
    \/ part = "index" /\ SearchIndex!Next
       /\ UNCHANGED <<v10, v11, v12, v13, v14, v15, v16, v17, v18, vars>>
    \/ part = "query" /\ TypeQuery
       /\ UNCHANGED <<v2, v3, v4, v5, v6, v7, v8, v9, v10, v11, v12, v13, v14, v15, v16, v17, v18, vars>>
    \/ part = "markup" /\ TypeMarkup
       /\ UNCHANGED <<v2, v3, v4, v5, v6, v7, v8, v9, v10, v11, v12, v13, v14, v15, v16, v17, v18, vars>>
    \/ part = "wire" /\ Attach
       /\ UNCHANGED <<v3, v4, v5, v6, v7, v8, v9, v10, v11, v12, v13, v14, v15, v16, v17, v18, vars>>

MCNext == MCSteps /\ UNCHANGED part

MCSpec == MCInit /\ [][MCNext]_state

-----------------------------------------------------------------------------
\* A search lists each emoji once, what an alias names before anything the names say (Search).
SearchRanks == part = "emoji" => EmojiEntry!SearchRanks

\* With something in the grid Enter has a character to pick (EmojiPicker.Update).
EnterPicks == part = "emoji" => EmojiEntry!EnterPicks

\* Recent is the last distinct characters picked (Remember).
RecentIsRecent == part = "emoji" => EmojiEntry!RecentIsRecent

\* Tab replaces the shortcode or the character it offered itself, and nothing else (completeEmoji).
TabEatsOnlyItsOwn == part = "emoji" => EmojiEntry!TabEatsOnlyItsOwn

\* With nothing under way the rows are the table's, unless an older read was installed last,
\* the read came before the write it was for, or an overlay or the bus took a part of the last
\* reload (scheduleReload, App.update).
RowsCatchUp == part = "list" => ChatList!RowsCatchUp

\* The tab is one the strip shows (InstallLoaded).
TabIsShown == part = "list" => ChatList!TabIsShown

\* The list fits under the strip (room).
ListFits == part = "list" => ChatList!ListFits

\* Without a folder strip a click opens the chat drawn under it (ItemIndexAt).
ClicksHitWithoutStrip == part = "list" => ChatList!ClicksHitWithoutStrip

\* Claimed, and refuted by run click_misses: a click opens the chat drawn under it also under a strip.
ClicksHit == part = "list" => ChatList!ClicksHit

\* A reload leaves the selection on its chat (InstallLoaded).
SelectionFollowsChat == part = "list" => ChatList!SelectionFollowsChat

\* Enter has a row whenever one is listed (palette/update.go).
CursorOnARow == part = "palette" => Palette!CursorOnARow

\* A chat is a candidate once, hot or not (MergeCandidates).
CandidatesOnce == part = "palette" => Palette!CandidatesOnce

\* Once its load is in, an open palette lists what matches its text (applyLoaded).
ListMatchesText == part = "palette" => Palette!ListMatchesText

\* Under an overlay a key moves behind it only what the overlay was put up for
\* (Update's order of overlays, handlePaletteSelected, handleReactionPick).
OverlayTakesAll == part = "keys" => ModalTakesAll

\* Every indexed row is in the table, and every row written since is indexed (triggers of migration 0005).
IndexFollowsTable == part = "index" => SearchIndex!IndexFollowsTable

\* After a pass that reports done a row of its chats is missing only if PerChat rows of the
\* same chat are newer (reindex.go).
DoneMeansCovered == part = "index" => SearchIndex!DoneMeansCovered

\* A jump to a hit shows the nearest messages on both sides of it (jump context query).
JumpShowsNeighbours == part = "index" => SearchIndex!JumpShowsNeighbours

\* The full-text match asks for the words that were typed (FtsQuote).
MatchSaysTheQuery == part = "query" => SearchQuery!MatchSaysTheQuery(v1)

\* Every placeholder of the statement has its value (BuildSQL).
EveryPlaceholderBound == part = "query" => SearchQuery!EveryPlaceholderBound(v1)

\* Any phrase can be written in quotes (Scan).
PhraseCanBeTyped == part = "query" => SearchQuery!PhraseCanBeTyped(v1)

\* Parsing keeps every character that is not part of a mark (Parse).
NothingEaten == part = "markup" => Markup!NothingEaten(v1)

\* A message of plain words and nested spans, code apart from the others, is the same after
\* it was put back in the composer and parsed again (Render, the path of an edit).
EditRoundTrip == part = "markup" => Markup!EditRoundTrip(v1)

\* Entities survive the conversion to the server's units and back (ToWire, FromWire).
WireRoundTrip == part = "wire" => Markup!WireRoundTrip(v1, v2)

\* The thread draws every rune once whatever entities overlap (cuts).
DrawnOnce == part = "wire" => Markup!DrawnOnce(Len(v1), v2)

-----------------------------------------------------------------------------
\* What the run checks: KeysReach, and the above by theme, each component with its type invariant.

\* Chat list, palette and emoji grid: rows that follow their source, a cursor that is on
\* one of them, and clicks that hit what is drawn (panes/chats, palette, overlay/emoji.go).
ListsUsable ==
    /\ part = "emoji" => EmojiEntry!TypeOK
    /\ part = "list" => ChatList!TypeOK
    /\ part = "palette" => Palette!TypeOK
    /\ SearchRanks /\ EnterPicks /\ RecentIsRecent
    /\ RowsCatchUp /\ TabIsShown /\ ListFits
    /\ ClicksHitWithoutStrip /\ CursorOnARow /\ CandidatesOnce
    /\ ListMatchesText

\* Text survives what is done to it: the index covers the table, a query asks what was
\* typed, what was typed as markup or entities is what is sent and drawn (core/search, markdown).
TextKeepsItsMeaning ==
    /\ part = "index" => SearchIndex!TypeOK
    /\ IndexFollowsTable /\ DoneMeansCovered /\ JumpShowsNeighbours
    /\ MatchSaysTheQuery /\ EveryPlaceholderBound /\ PhraseCanBeTyped
    /\ NothingEaten /\ EditRoundTrip /\ WireRoundTrip
    /\ DrawnOnce

\* A key or a reload moves nothing it was not meant for: Tab, the reload under the cursor,
\* keys under an overlay (input/emoji.go, chats/update.go, app/update.go).
KeysMoveTheirOwn == [][TabEatsOnlyItsOwn /\ SelectionFollowsChat /\ OverlayTakesAll]_state
=============================================================================
