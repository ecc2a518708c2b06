----------------------------- MODULE SearchPane ------------------------------
(***************************************************************************)
(* The search overlay (ui/panes/search): typing arms a debounce tick, the  *)
(* tick that is still current asks the local index, Tab asks the server,   *)
(* Enter jumps to the hit under the cursor.  Ticks and answers come back   *)
(* as messages, in whatever order the commands behind them finish.         *)
(*                                                                         *)
(* Hits are [of, remote, count]: the query they answer, who answered it    *)
(* and how many there are.                                                 *)
(***************************************************************************)
EXTENDS Integers, FiniteSets

CONSTANTS Queries,      \* what the field can hold besides Blank
          Blank,        \* only white space
          Refused,      \* queries Parse refuses
          PageSize,     \* how many hits an answer can have
          MaxEdits, MaxTabs, MaxOpens   \* bounds

VARIABLES
    visible,        \* Model.Visible
    value,          \* input.Value()
    generation,     \* queryGeneration
    lastQuery, hits, cursor, failed, loading,
    remoteShown, remoteLoading,
    ticks,          \* debounce ticks not delivered yet
    calls,          \* searches not answered yet: [of, remote, gen]
    jumped,         \* Enter found a hit to jump to
    turns           \* how much of each bound is used

field == <<value, generation>>
result == <<hits, cursor, failed>>
remote == <<remoteShown, remoteLoading>>
vars == <<visible, field, lastQuery, result, loading, remote, ticks, calls, jumped, turns>>

Failure == -1   \* the answer that is an error
NoHits == [of |-> Blank, remote |-> FALSE, count |-> 0]
Turns == [edits |-> MaxEdits, tabs |-> MaxTabs, opens |-> MaxOpens]
Turn(k) == turns[k] < Turns[k] /\ turns' = [turns EXCEPT ![k] = @ + 1]

TypeOK ==
    /\ {visible, failed, loading, remoteShown, remoteLoading, jumped} \subseteq BOOLEAN
    /\ value \in Queries \cup {Blank} /\ lastQuery \in Queries \cup {Blank}
    /\ generation \in 0 .. MaxEdits /\ ticks \subseteq 1 .. MaxEdits
    /\ hits \in [of : Queries \cup {Blank}, remote : BOOLEAN, count : 0 .. PageSize]
    /\ cursor \in 0 .. PageSize
    /\ calls \subseteq [of : Queries, remote : BOOLEAN, gen : 0 .. MaxEdits]

Init ==
    /\ visible = FALSE /\ value = Blank /\ generation = 0 /\ lastQuery = Blank
    /\ hits = NoHits /\ cursor = 0 /\ failed = FALSE /\ loading = FALSE
    /\ remoteShown = FALSE /\ remoteLoading = FALSE
    /\ ticks = {} /\ calls = {} /\ jumped = FALSE
    /\ turns = [k \in DOMAIN Turns |-> 0]

-----------------------------------------------------------------------------
\* App.openSearch and Model.Open: the field and the hits are those of last time.
Open ==
    /\ ~visible /\ Turn("opens")
    /\ visible' = TRUE /\ failed' = FALSE /\ cursor' = 0
    /\ UNCHANGED <<field, lastQuery, hits, loading, remote, ticks, calls, jumped>>

\* Esc.
Close ==
    /\ visible /\ visible' = FALSE
    /\ UNCHANGED <<field, lastQuery, result, loading, remote, ticks, calls, jumped, turns>>

\* A key the field takes; scheduleQuery when the value changed.
Type(v) ==
    /\ visible /\ v # value /\ Turn("edits")
    /\ value' = v /\ generation' = generation + 1
    /\ ticks' = ticks \cup {generation + 1}
    /\ UNCHANGED <<visible, lastQuery, result, loading, remote, calls, jumped>>

\* Up and Down.
MoveCursor(d) ==
    /\ visible /\ cursor + d \in 0 .. hits.count - 1
    /\ cursor' = cursor + d
    /\ UNCHANGED <<visible, field, lastQuery, hits, failed, loading, remote, ticks, calls,
                   jumped, turns>>

\* Enter: JumpMsg carries hits[cursor].
Enter ==
    /\ visible /\ hits.count > 0
    /\ visible' = FALSE /\ jumped' = TRUE
    /\ UNCHANGED <<field, lastQuery, result, loading, remote, ticks, calls, turns>>

\* Tab: one server search at a time (Model.runRemote).
RunRemote ==
    /\ visible /\ value # Blank /\ ~remoteLoading /\ Turn("tabs")
    /\ remoteLoading' = TRUE /\ failed' = FALSE
    /\ calls' = calls \cup {[of |-> value, remote |-> TRUE, gen |-> generation]}
    /\ UNCHANGED <<visible, field, lastQuery, hits, cursor, loading, remoteShown, ticks, jumped>>

-----------------------------------------------------------------------------
ShowNothing ==
    /\ lastQuery' = Blank /\ hits' = NoHits /\ cursor' = 0 /\ failed' = FALSE
    /\ loading' = FALSE /\ remoteShown' = FALSE
    /\ UNCHANGED <<remoteLoading, calls>>

RunSearch(g) ==
    /\ lastQuery' = value /\ loading' = TRUE /\ remoteShown' = FALSE
    /\ calls' = calls \cup {[of |-> value, remote |-> FALSE, gen |-> g]}
    /\ UNCHANGED <<result, remoteLoading>>

ApplyDebounceTick(g) ==
    /\ g \in ticks /\ ticks' = ticks \ {g}
    /\ \/ /\ g # generation \/ (value # Blank /\ value = lastQuery /\ ~loading)
          /\ UNCHANGED <<lastQuery, result, loading, remote, calls>>
       \/ g = generation /\ value = Blank /\ ShowNothing
       \/ /\ g = generation /\ value # Blank /\ (value # lastQuery \/ loading)
          /\ RunSearch(g)
    /\ UNCHANGED <<visible, field, jumped, turns>>

\* What a call comes back with: n hits, or an error.
Answers(call) == {n \in 0 .. PageSize : call.of \notin Refused} \cup {Failure}
Answered(call, n) == [of |-> call.of, remote |-> call.remote, count |-> n]

\* Mutant: the cursor stays where it is.
ApplyLocal_KeepsCursor(call, n) ==
    /\ loading' = FALSE /\ remoteShown' = FALSE /\ UNCHANGED <<remoteLoading, cursor>>
    /\ \/ n = Failure /\ failed' = TRUE /\ hits' = NoHits
       \/ n # Failure /\ failed' = FALSE /\ hits' = Answered(call, n)

\* Mutant: an error leaves the spinner turning.
ApplyLocal_ErrorKeepsLoading(call, n) ==
    /\ loading' = (loading /\ n = Failure)
    /\ remoteShown' = FALSE /\ UNCHANGED remoteLoading
    /\ \/ n = Failure /\ failed' = TRUE /\ hits' = NoHits /\ cursor' = 0
       \/ /\ n # Failure /\ failed' = FALSE /\ hits' = Answered(call, n)
          /\ cursor' = IF cursor >= n THEN 0 ELSE cursor

\* applyResults, local: taken whatever was typed since.
ApplyLocal(call, n) ==
    /\ loading' = FALSE /\ remoteShown' = FALSE /\ UNCHANGED remoteLoading
    /\ \/ n = Failure /\ failed' = TRUE /\ hits' = NoHits /\ cursor' = 0
       \/ /\ n # Failure /\ failed' = FALSE /\ hits' = Answered(call, n)
          /\ cursor' = IF cursor >= n THEN 0 ELSE cursor

\* Mutant: the generation of the answer is not compared.
ApplyRemote_AnyGeneration(call, n) ==
    /\ UNCHANGED loading /\ remoteLoading' = FALSE
    /\ \/ n = Failure /\ failed' = TRUE /\ UNCHANGED <<hits, cursor, remoteShown>>
       \/ /\ n # Failure /\ failed' = FALSE /\ remoteShown' = TRUE
          /\ hits' = Answered(call, n) /\ cursor' = 0

\* applyRemoteResults: an answer for an earlier generation is dropped whole.
ApplyRemote(call, n) ==
    IF call.gen # generation THEN UNCHANGED <<result, loading, remote>>
    ELSE /\ UNCHANGED loading /\ remoteLoading' = FALSE
         /\ \/ n = Failure /\ failed' = TRUE /\ UNCHANGED <<hits, cursor, remoteShown>>
            \/ /\ n # Failure /\ failed' = FALSE /\ remoteShown' = TRUE
               /\ hits' = Answered(call, n) /\ cursor' = 0

\* ResultsMsg: every call is answered, by its timeout at the latest.
ApplyResults ==
    \E call \in calls : \E n \in Answers(call) :
        /\ calls' = calls \ {call}
        /\ IF call.remote THEN ApplyRemote(call, n) ELSE ApplyLocal(call, n)
        /\ UNCHANGED <<visible, field, lastQuery, ticks, jumped, turns>>

Next ==
    \/ Open \/ Close \/ Enter \/ RunRemote \/ ApplyResults
    \/ \E v \in Queries \cup {Blank} : Type(v)
    \/ \E d \in {-1, 1} : MoveCursor(d)
    \/ \E g \in ticks : ApplyDebounceTick(g)

Fairness == WF_vars(ApplyResults) /\ WF_vars(\E g \in ticks : ApplyDebounceTick(g))
Spec == Init /\ [][Next]_vars /\ Fairness

-----------------------------------------------------------------------------
\* Enter indexes the hits with the cursor: whichever answers came while it was
\* moved, it points at one of them (ui/panes/search/update.go, hits[cursor]).
CursorOnAHit == cursor = 0 \/ cursor < hits.count

\* The server's answer on screen is one to the text in the field, unless the
\* text changed after it came (update.go, applyRemoteResults).
RemoteAnswersTheField ==
    remoteShown' /\ ~remoteShown => hits'.of = value'

Searching == loading

\* However the user types, closes and reopens, the overlay stops saying that it
\* searches: no answer is left out (model.go, loading; update.go).
SpinnerStops == Searching ~> ~Searching

-----------------------------------------------------------------------------
(* What the source says and the code does not do.  README.md names the     *)
(* instance that refutes each of these.                                    *)

\* "remoteLoading that a server search is in flight" (model.go:61): the answer
\* dropped as stale never clears it, and Tab does nothing from then on.
RemoteLoadingMeansInFlight == remoteLoading => \E call \in calls : call.remote

\* "lastQuery records the query whose results are currently displayed"
\* (model.go:71): an overtaken local answer, or the server's, is displayed.
LastQueryIsShown == ~loading /\ hits.count > 0 => hits.of = lastQuery
=============================================================================
