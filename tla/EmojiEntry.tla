------------------------------ MODULE EmojiEntry ------------------------------
(***************************************************************************)
(* The two ways to an emoji: the completion of a :shortcode in the composer*)
(* (ui/input/emoji.go) and the picker (ui/overlay/emoji.go), both over the *)
(* search of ui/emoji.  A name is a sequence of characters; the box is a   *)
(* sequence of pieces, each a word, a shortcode being typed or an emoji,   *)
(* with the cursor behind the last.                                        *)
(***************************************************************************)
EXTENDS Integers, Sequences, FiniteSets, SequencesExt

CONSTANTS
    Entries,        \* the table: a sequence of [char, name, group]
    Aliases,        \* shortcodes written by hand: [query -> char]
    CategoryOrder,
    Queries,        \* what is typed: closed under leaving off the last character
    Nothing,        \* no emoji
    EmojiCandidates, RecentLimit, Cols,
    MaxPieces,      \* bound: the text in the box
    MaxStrokes      \* bound: keys pressed

VARIABLES
    focus, box, lastSent, emoji,                  \* the composer; emoji: the cycle
    open, query, catIndex, position, recent,      \* the picker
    picked,                                       \* ghost: everything picked in it
    strokes

written == <<focus, box, lastSent, emoji>>
picker == <<open, query, catIndex, position, recent, picked>>
emojiVars == <<written, picker, strokes>>

-----------------------------------------------------------------------------
(* ui/emoji: the search.                                                   *)

Empty == <<>>
Separators == {" ", "-"}
Code(e) == [i \in DOMAIN e.name |-> IF e.name[i] \in Separators THEN "_" ELSE e.name[i]]
At(s, i, q) == i + Len(q) - 1 <= Len(s) /\ SubSeq(s, i, i + Len(q) - 1) = q
HasWordPrefix(s, q) ==
    /\ Range(q) \cap Separators = {}
    /\ \E i \in DOMAIN s : (i = 1 \/ s[i - 1] \in Separators) /\ At(s, i, q)
IsAlias(q, c) == q \in DOMAIN Aliases /\ Aliases[q] = c

NoMatch == 6
Rank(e, q) ==
    CASE IsAlias(q, e.char) -> 0
      [] ~IsAlias(q, e.char) /\ Code(e) = q -> 1
      [] ~IsAlias(q, e.char) /\ Code(e) # q /\ At(Code(e), 1, q) -> 2
      [] OTHER -> IF " " \notin Range(q) /\ At(e.name, 1, q) THEN 3
                  ELSE IF HasWordPrefix(e.name, q) THEN 4
                  ELSE IF \E i \in DOMAIN e.name : At(e.name, i, q) THEN 5 ELSE NoMatch

Ranked(q) ==
    LET hits == {i \in DOMAIN Entries : Rank(Entries[i], q) # NoMatch}
        before(i, j) == LET r == Rank(Entries[i], q)  s == Rank(Entries[j], q) IN r < s \/ (r = s /\ i < j)
    IN  [k \in 1 .. Cardinality(hits) |-> Entries[SetToSortSeq(hits, before)[k]].char]

\* Mutant: an alias the table does not carry is put first whatever the table says.
Search_AliasTwice(q) ==
    IF q \in DOMAIN Aliases THEN <<Aliases[q]>> \o Ranked(q) ELSE Ranked(q)

\* An alias may name a character the table does not carry.
Search(q) ==
    IF q \in DOMAIN Aliases /\ \A i \in DOMAIN Entries : Entries[i].char # Aliases[q]
    THEN <<Aliases[q]>> \o Ranked(q) ELSE Ranked(q)

Found == [q \in Queries |-> Search(q)]
InCategory(g) == LET of == SelectSeq(Entries, LAMBDA e : e.group = g) IN [i \in DOMAIN of |-> of[i].char]
Categories == SelectSeq(CategoryOrder, LAMBDA g : InCategory(g) # Empty)

-----------------------------------------------------------------------------
Chars == {Entries[i].char : i \in DOMAIN Entries} \cup Range(Aliases)
Piece == [code : Queries, char : Chars \cup {Nothing}]
Word == [code |-> Empty, char |-> Nothing]
NoCycle == [query |-> Empty, hits |-> Empty, idx |-> 1]

TypeOK ==
    /\ focus \in {"input", "elsewhere"} /\ box \in Seq(Piece) /\ lastSent \in Seq(Piece)
    /\ emoji.query \in Queries /\ emoji.hits \in Seq(Chars) /\ (emoji # NoCycle => emoji.idx \in DOMAIN emoji.hits)
    /\ open \in BOOLEAN /\ query \in Queries /\ catIndex \in Nat /\ position \in Nat
    /\ recent \in Seq(Chars) /\ Len(recent) <= RecentLimit /\ strokes \in 0 .. MaxStrokes

Init ==
    /\ focus = "input" /\ box = Empty /\ lastSent = Empty /\ emoji = NoCycle
    /\ open = FALSE /\ query = Empty /\ catIndex = 0 /\ position = 0 /\ recent = Empty /\ picked = Empty
    /\ strokes = 0

Stroke == strokes < MaxStrokes /\ strokes' = strokes + 1
Typing == ~open /\ focus = "input" /\ Stroke
Last1 == box[Len(box)]
Replaced(p) == [box EXCEPT ![Len(box)] = p]

-----------------------------------------------------------------------------
(* The composer.  A key of the text area ends a cycle; the keys the pane   *)
(* takes for itself do not.                                                *)

TypePiece(p) ==
    /\ Typing /\ Len(box) < MaxPieces /\ box' = Append(box, p) /\ emoji' = NoCycle
    /\ UNCHANGED <<focus, lastSent, picker>>

Send ==
    /\ Typing /\ box # Empty /\ lastSent' = box /\ box' = Empty
    /\ UNCHANGED <<focus, emoji, picker>>

HistoryPrev == Typing /\ lastSent # Empty /\ box' = lastSent /\ UNCHANGED <<focus, lastSent, emoji, picker>>

CodeBehind == IF box = Empty THEN Empty ELSE Last1.code
EmojiPrefix == IF emoji # NoCycle THEN emoji.query ELSE CodeBehind

StartCycle ==
    LET hits == Found[CodeBehind]
        cut == SubSeq(hits, 1, IF Len(hits) < EmojiCandidates THEN Len(hits) ELSE EmojiCandidates)
    IN  IF CodeBehind = Empty \/ hits = Empty THEN emoji' = NoCycle /\ UNCHANGED box
        ELSE /\ emoji' = [query |-> CodeBehind, hits |-> cut, idx |-> 1]
             /\ box' = Replaced([Word EXCEPT !.char = cut[1]])
Advance ==
    /\ emoji' = [emoji EXCEPT !.idx = (emoji.idx % Len(emoji.hits)) + 1]
    /\ box' = Replaced([Word EXCEPT !.char = emoji.hits[emoji'.idx]])

\* Mutant: the cycle goes on whatever is behind the cursor.
CompleteEmoji_Anywhere ==
    IF Len(emoji.hits) > 1 /\ box # Empty THEN Advance ELSE StartCycle

CompleteEmoji ==
    IF Len(emoji.hits) > 1 /\ box # Empty /\ Last1.char = emoji.hits[emoji.idx] THEN Advance ELSE StartCycle

\* handleGlobalKey gives Tab to the composer or moves the focus.
Tab ==
    /\ ~open /\ Stroke
    /\ IF focus = "input" /\ EmojiPrefix # Empty
       THEN CompleteEmoji /\ UNCHANGED focus
       ELSE focus' = (IF focus = "input" THEN "elsewhere" ELSE "input") /\ UNCHANGED <<box, emoji>>
    /\ UNCHANGED <<lastSent, picker>>

-----------------------------------------------------------------------------
(* The picker.                                                             *)

PickerCategories == IF recent = Empty THEN Categories ELSE <<"Recent">> \o Categories
Clamp(i, n) == IF n = 0 \/ i < 0 THEN 0 ELSE IF i >= n THEN n - 1 ELSE i
ActiveCategory == PickerCategories[Clamp(catIndex, Len(PickerCategories)) + 1]
Shown == IF query # Empty THEN Found[query]
         ELSE IF ActiveCategory = "Recent" THEN recent ELSE InCategory(ActiveCategory)

Reset(shown) == open' = shown /\ query' = Empty /\ position' = 0
OpenPicker == ~open /\ Stroke /\ Reset(TRUE) /\ UNCHANGED <<written, catIndex, recent, picked>>
Escape == open /\ Stroke /\ Reset(FALSE) /\ UNCHANGED <<written, catIndex, recent, picked>>

\* Mutant: what is already remembered is remembered again.
Remember_Again(c) ==
    LET all == <<c>> \o recent IN SubSeq(all, 1, IF Len(all) < RecentLimit THEN Len(all) ELSE RecentLimit)

Remember(c) ==
    LET all == <<c>> \o SelectSeq(recent, LAMBDA d : d # c)
    IN  SubSeq(all, 1, IF Len(all) < RecentLimit THEN Len(all) ELSE RecentLimit)

\* Enter; the app types the character into the composer and moves the focus there.
Pick ==
    /\ open /\ Stroke /\ position < Len(Shown) /\ Len(box) < MaxPieces
    /\ LET c == Shown[position + 1]
       IN  /\ recent' = Remember(c) /\ picked' = Append(picked, c)
           /\ box' = Append(box, [Word EXCEPT !.char = c])
    /\ Reset(FALSE) /\ focus' = "input" /\ emoji' = NoCycle
    /\ UNCHANGED <<lastSent, catIndex>>

Arrow(d) ==
    /\ open /\ Stroke /\ position' = Clamp(position + d, Len(Shown)) /\ position' # position
    /\ UNCHANGED <<written, open, query, catIndex, recent, picked>>

\* Mutant: the next category is entered where the last was left.
MoveCategory_KeepsPosition(d) ==
    /\ open /\ Stroke /\ query' = Empty
    /\ catIndex' = (catIndex + d + Len(PickerCategories)) % Len(PickerCategories)
    /\ UNCHANGED <<written, open, position, recent, picked>>

MoveCategory(d) ==
    /\ open /\ Stroke /\ query' = Empty /\ position' = 0
    /\ catIndex' = (catIndex + d + Len(PickerCategories)) % Len(PickerCategories)
    /\ UNCHANGED <<written, open, recent, picked>>

\* A printable key, or Backspace.
Filter(q) ==
    /\ open /\ Stroke /\ query' = q /\ position' = 0
    /\ \/ q # Empty /\ Front(q) = query
       \/ query # Empty /\ q = Front(query)
    /\ UNCHANGED <<written, open, catIndex, recent, picked>>

Next ==
    \/ \E q \in Queries : TypePiece([Word EXCEPT !.code = q]) \/ Filter(q)
    \/ Send \/ HistoryPrev \/ Tab \/ OpenPicker \/ Escape \/ Pick
    \/ \E d \in {-1, 1, - Cols, Cols} : Arrow(d)
    \/ \E d \in {-1, 1} : MoveCategory(d)

Spec == Init /\ [][Next]_emojiVars

-----------------------------------------------------------------------------
\* Every query offers an emoji once, the hand-written alias before anything the names
\* say, whether or not the table carries it (Search).
SearchRanks ==
    query # Empty =>
        /\ IsInjective(Found[query])
        /\ query \in DOMAIN Aliases => Found[query] # Empty /\ Found[query][1] = Aliases[query]

\* Tab replaces the shortcode being typed or the candidate an earlier Tab put there,
\* never a word or another emoji: also with a cycle left over from a message already
\* sent (completeEmoji).
TabEatsOnlyItsOwn ==
    Tab /\ box' # box =>
     /\ Front(box') = Front(box)
     /\ Last1.code # Empty \/ \E i \in DOMAIN emoji.hits : emoji.hits[i] = Last1.char

\* With something in the grid, Enter has a character to pick: keys, categories and a
\* list that changes under the cursor leave it inside (EmojiPicker.Update).
EnterPicks == open /\ Shown # Empty => position < Len(Shown)

\* Recent is the last distinct characters picked, newest first (remember).
RecentIsRecent ==
    LET when(c) == CHOOSE i \in DOMAIN picked : picked[i] = c /\ \A j \in DOMAIN picked : j > i => picked[j] # c
        newest == SetToSortSeq(Range(picked), LAMBDA c, d : when(c) > when(d))
    IN  recent = SubSeq(newest, 1, IF Len(newest) < RecentLimit THEN Len(newest) ELSE RecentLimit)

-----------------------------------------------------------------------------
(* What the source says and the code does not do.  README.md names the     *)
(* instance that refutes each of these.                                    *)

\* A cycle ends "on any key that is not another completion press" (input/emoji.go):
\* Enter and the history keys leave it, and the hint names an emoji that is not there.
HintShowsBox == emoji # NoCycle => box # Empty /\ Last1.char = emoji.hits[emoji.idx]

\* "if it turns out it has not, the key goes on to do what it always did"
\* (app/update.go handleGlobalKey): a Tab that completes nothing moves no focus either.
TabCompletesOrMoves == [][Tab => box' # box \/ focus' # focus]_emojiVars

\* "Typing "hear" must offer the heart before "hear no evil monkey"" (emoji.go Search):
\* an alias answers to its whole name only.
PrefixOffersAlias ==
    \A q \in DOMAIN Aliases : query # Empty /\ IsPrefix(query, q) => Aliases[q] \in Range(Found[query])

\* "Open shows the picker, starting from whatever it was last showing"
\* (overlay/emoji.go): the first pick puts Recent in front and shifts what is active.
OpensWhereItWas == [][open /\ ~open' /\ query = Empty => ActiveCategory' = ActiveCategory]_emojiVars
=============================================================================
