------------------------------- MODULE Palette -------------------------------
(***************************************************************************)
(* The chat switcher (ui/palette) and the frecency table that orders it    *)
(* (storage/sqlite/frecency.go).  Candidates are read in the background at *)
(* every opening; what was typed filters them; a pick records a visit.     *)
(* Scores are in thousandths and ages in months, so a decay of             *)
(* exp(-age / 30 days) is 1000, 368, 135, ...  External: the fuzzy matcher.*)
(***************************************************************************)
EXTENDS Integers, Sequences, FiniteSets, SequencesExt

CONSTANTS Chats, NoChat, Titled,  \* Titled: the chats whose title is known
          Query, Hits,           \* a text somebody types, and the titles it matches
          HotSetLimit,
          MaxMonths,             \* bound: the clock
          MaxKeys                \* bound: what the user does

VARIABLES
    month,
    visits,     \* chat_frecency: [count, last, score], count 0 without a row
    visible, text, items, filtered, cursor,
    reads,      \* loads under way: what each has read
    current,    \* ghost: the load of this opening has been installed
    visiting,   \* the chat RecordVisit is running for, or NoChat
    keys

shown == <<visible, text, items, filtered, cursor>>
paletteVars == <<month, visits, shown, reads, current, visiting, keys>>

Texts == {"", Query}
Decay == [age \in 0 .. MaxMonths |-> CASE age = 0 -> 1000 [] age = 1 -> 368 [] age = 2 -> 135 [] OTHER -> 50]

TypeOK ==
    /\ month \in 0 .. MaxMonths /\ keys \in 0 .. MaxKeys
    /\ visits \in [Chats -> [count : Nat, last : 0 .. MaxMonths, score : Nat]]
    /\ visible \in BOOLEAN /\ current \in BOOLEAN /\ text \in Texts
    /\ items \in Seq(Chats) /\ filtered \in Seq(Chats) /\ cursor \in Nat
    /\ reads \in Seq(Seq(Chats)) /\ visiting \in Chats \cup {NoChat}

-----------------------------------------------------------------------------
(* The table.                                                              *)

\* ORDER BY score DESC, last_visit DESC; rows equal in both in any order.
Before(c, d) ==
    \/ visits[c].score > visits[d].score
    \/ visits[c].score = visits[d].score /\ visits[c].last > visits[d].last
Visited == {c \in Chats : visits[c].count > 0}
TopFrecency ==
    LET orders == {s \in SetToSeqs(Visited) : \A i, j \in DOMAIN s : i < j => ~Before(s[j], s[i])}
    IN  {SubSeq(s, 1, IF Len(s) < HotSetLimit THEN Len(s) ELSE HotSetLimit) : s \in orders}

\* Mutant: a chat of the hot set comes again among the rest.
MergeCandidates_Twice(top) == top \o SetToSeq(Titled)

\* The rest follows by title, which a chat without one has not.
MergeCandidates(top) == top \o SetToSeq(Titled \ Range(top))

\* The decay is that of the time between the last two visits.
RecordVisit ==
    /\ visiting # NoChat /\ visiting' = NoChat
    /\ LET old == visits[visiting]
           prior == IF old.count = 0 THEN month ELSE old.last
       IN  visits' = [visits EXCEPT ![visiting] = [count |-> old.count + 1, last |-> month,
                                                   score |-> (old.count + 1) * Decay[month - prior]]]
    /\ UNCHANGED <<month, shown, reads, current, keys>>

\* A store gone read-only refuses it: logged.
VisitFails == visiting # NoChat /\ visiting' = NoChat /\ UNCHANGED <<month, visits, shown, reads, current, keys>>

MonthPasses == month < MaxMonths /\ month' = month + 1 /\ UNCHANGED <<visits, shown, reads, current, visiting, keys>>

-----------------------------------------------------------------------------
(* The overlay.                                                            *)

Init ==
    /\ month = 0 /\ visits = [c \in Chats |-> [count |-> 0, last |-> 0, score |-> 0]]
    /\ visible = FALSE /\ text = "" /\ items = <<>> /\ filtered = <<>> /\ cursor = 0
    /\ reads = <<>> /\ current = FALSE /\ visiting = NoChat /\ keys = 0

Press == keys < MaxKeys /\ keys' = keys + 1
Matches(t, s) == IF t = "" THEN s ELSE SelectSeq(s, LAMBDA c : c \in Hits)

\* The candidates of the last opening stay until the load of this one is back.
Open ==
    /\ ~visible /\ Press /\ visible' = TRUE /\ text' = "" /\ cursor' = 0 /\ current' = FALSE
    /\ \E top \in TopFrecency : reads' = Append(reads, MergeCandidates(top))
    /\ UNCHANGED <<month, visits, items, filtered, visiting>>

\* Mutant: the candidates are not filtered again.
ApplyLoaded_Unfiltered ==
    /\ reads # <<>> /\ reads' = Tail(reads)
    /\ items' = Head(reads) /\ filtered' = Head(reads)
    /\ cursor' = IF cursor < Len(filtered') THEN cursor ELSE 0
    /\ current' = (reads' = <<>>)
    /\ UNCHANGED <<month, visits, visible, text, visiting, keys>>

\* Mutant: the cursor is left where it was.
ApplyLoaded_KeepsCursor ==
    /\ reads # <<>> /\ reads' = Tail(reads)
    /\ items' = Head(reads) /\ filtered' = Matches(text, Head(reads))
    /\ current' = (reads' = <<>>)
    /\ UNCHANGED <<month, visits, visible, text, cursor, visiting, keys>>

\* Also while the palette is hidden, and whatever opening it was for.
ApplyLoaded ==
    /\ reads # <<>> /\ reads' = Tail(reads)
    /\ items' = Head(reads) /\ filtered' = Matches(text, Head(reads))
    /\ cursor' = IF cursor < Len(filtered') THEN cursor ELSE 0
    /\ current' = (reads' = <<>>)
    /\ UNCHANGED <<month, visits, visible, text, visiting, keys>>

\* The read fails: an empty list and an error line.
LoadFails ==
    /\ reads # <<>> /\ Head(reads) # <<>> /\ Press /\ reads' = <<<<>>>> \o Tail(reads)
    /\ UNCHANGED <<month, visits, shown, current, visiting>>

Type(t) ==
    /\ visible /\ t # text /\ Press /\ text' = t /\ cursor' = 0 /\ filtered' = Matches(t, items)
    /\ UNCHANGED <<month, visits, visible, items, reads, current, visiting>>

Up ==
    /\ visible /\ cursor > 0 /\ Press /\ cursor' = cursor - 1
    /\ UNCHANGED <<month, visits, visible, text, items, filtered, reads, current, visiting>>
Down ==
    /\ visible /\ cursor + 1 < Len(filtered) /\ Press /\ cursor' = cursor + 1
    /\ UNCHANGED <<month, visits, visible, text, items, filtered, reads, current, visiting>>

Escape ==
    /\ visible /\ Press /\ visible' = FALSE
    /\ UNCHANGED <<month, visits, text, items, filtered, cursor, reads, current, visiting>>

\* SelectedMsg; the app switches the chat and records the visit.
Enter ==
    /\ visible /\ filtered # <<>> /\ Press /\ visible' = FALSE
    /\ visiting = NoChat /\ visiting' = filtered[cursor + 1]
    /\ UNCHANGED <<month, visits, text, items, filtered, cursor, reads, current>>

Next ==
    \/ RecordVisit \/ VisitFails \/ MonthPasses
    \/ Open \/ ApplyLoaded \/ LoadFails \/ Up \/ Down \/ Escape \/ Enter
    \/ \E t \in Texts : Type(t)

Spec == Init /\ [][Next]_paletteVars

-----------------------------------------------------------------------------
\* Enter indexes the filtered list with the cursor without a check: loads, keys and
\* filters in any order leave the cursor on a row (handleKey).
CursorOnARow == cursor = 0 \/ cursor < Len(filtered)

\* A load offers every chat with a title, the visited ones first, and none twice,
\* wherever the hot set is cut (mergeCandidates).
CandidatesOnce ==
    \A i \in DOMAIN reads : reads[i] # <<>> =>
        IsInjective(reads[i]) /\ Titled \subseteq Range(reads[i])

\* Once its load is in, an open palette lists what matches the text on its line.
ListMatchesText == visible /\ current => filtered = Matches(text, items)

-----------------------------------------------------------------------------
(* What the source says and the code does not do.  README.md names the     *)
(* instance that refutes each of these.                                    *)

\* "the next palette open ranks the just-visited chat higher" (palette/frecency.go):
\* a visit after a long break multiplies the count by the decay of the break.
VisitRaises ==
    [][visits' # visits =>
        \A c, d \in Visited :
            visits'[c] # visits[c] /\ ~Before(d, c) => visits'[d].score <= visits'[c].score]_paletteVars

\* "a chat the user has not visited for a month contributes ~37 % of its raw visit
\* count to the ranking" (sqlite/frecency.go): the score stays what it was.
UnvisitedFade == \A c \in Visited : visits[c].score <= visits[c].count * Decay[month - visits[c].last]

\* "Updates that arrive while the palette is hidden are dropped except for OpenedMsg"
\* (palette/update.go).
HiddenIsDeaf == [][~visible /\ ~visible' => UNCHANGED <<items, filtered>>]_paletteVars

\* What an opening lists before its load is in was filtered by an earlier text.
OpensAfresh == visible => filtered = Matches(text, items)
=============================================================================
