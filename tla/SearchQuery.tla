----------------------------- MODULE SearchQuery -----------------------------
(***************************************************************************)
(* The search language (core/search): parser.go turns what was typed into  *)
(* a query, query_builder.go turns the query into an FTS5 MATCH expression *)
(* and SQL clauses, remote.go into what the server is asked.               *)
(*                                                                         *)
(* Text is a sequence of atoms: the characters the code looks for, the     *)
(* operator keys, and stretches of other text.                             *)
(***************************************************************************)
EXTENDS Naturals, Sequences, SequencesExt, FiniteSets

Quote == "\""
Escape == "\\"
Space == " "
Colon == ":"
Dash == "-"
Sigil == "@"        \* @ before a user's name; # before a chat's is the same
Date == "date"      \* a text parseDate accepts
File == "file"

Operators == {"from", "in", "before", "after", "has"}
LowerCase == Operators \cup {File, "word"}      \* atoms of letters a to z

-----------------------------------------------------------------------------
(* parser.go                                                               *)

Scanner == [out |-> <<>>, current |-> <<>>, inQuote |-> FALSE, hasToken |-> FALSE,
            skip |-> FALSE]

Flush(st, quoted) ==
    IF ~st.hasToken THEN st
    ELSE [st EXCEPT !.out = Append(@, [value |-> st.current, quoted |-> quoted]),
                    !.current = <<>>, !.hasToken = FALSE]

Take(st, c) == [st EXCEPT !.current = Append(@, c), !.hasToken = TRUE]

\* Mutant: a backslash before a quote is text, and the quote closes the phrase.
Scan_NoEscape(st, s, i) ==
    LET c == s[i] IN
    CASE st.inQuote /\ c = Quote -> [Flush(st, TRUE) EXCEPT !.inQuote = FALSE]
      [] ~st.inQuote /\ c = Quote -> [Flush(st, FALSE) EXCEPT !.inQuote = TRUE, !.hasToken = TRUE]
      [] ~st.inQuote /\ c = Space -> Flush(st, FALSE)
      [] OTHER -> Take(st, c)

\* One character of the loop in tokenize.
Scan(st, s, i) ==
    LET c == s[i]
        escaped == st.inQuote /\ c = Escape /\ i < Len(s) /\ s[i + 1] = Quote
    IN CASE st.skip -> [st EXCEPT !.skip = FALSE]
         [] ~st.skip /\ escaped -> [Take(st, Quote) EXCEPT !.skip = TRUE]
         [] ~st.skip /\ st.inQuote /\ c = Quote -> [Flush(st, TRUE) EXCEPT !.inQuote = FALSE]
         [] ~st.skip /\ ~st.inQuote /\ c = Quote ->
              [Flush(st, FALSE) EXCEPT !.inQuote = TRUE, !.hasToken = TRUE]
         [] ~st.skip /\ ~st.inQuote /\ c = Space -> Flush(st, FALSE)
         [] OTHER -> Take(st, c)

Tokenize(s) ==
    LET at[i \in 0 .. Len(s)] == IF i = 0 THEN Scanner ELSE Scan(at[i - 1], s, i)
        end == at[Len(s)]
    IN IF end.inQuote THEN [ok |-> FALSE, tokens |-> <<>>]
       ELSE [ok |-> TRUE, tokens |-> Flush(end, FALSE).out]

\* "key:value" with a key of lower-case letters and a value.
SplitOperator(v) ==
    LET i == SelectInSeq(v, LAMBDA c : c = Colon)
    IN [ok |-> i > 1 /\ i < Len(v) /\ \A k \in 1 .. i - 1 : v[k] \in LowerCase,
        key |-> SubSeq(v, 1, i - 1), value |-> SubSeq(v, i + 1, Len(v))]

TrimSigil(v) == IF v # <<>> /\ Head(v) = Sigil THEN Tail(v) ELSE v
IsExclusion(v) == Len(v) >= 2 /\ v[1] = Dash

EmptyQuery == [ok |-> TRUE, text |-> <<>>, phrases |-> <<>>, excluded |-> <<>>,
               from |-> <<>>, in |-> <<>>, before |-> FALSE, after |-> FALSE, file |-> FALSE]
Bad(q) == [q EXCEPT !.ok = FALSE]

\* An operator that is not one of ours is text.
ApplyOperator(q, op, token) ==
    LET name == TrimSigil(op.value) IN
    CASE op.key \in {<<"from">>, <<"in">>} /\ name = <<>> -> Bad(q)
      [] op.key = <<"from">> /\ name # <<>> -> [q EXCEPT !.from = Append(@, name)]
      [] op.key = <<"in">> /\ name # <<>> -> [q EXCEPT !.in = Append(@, name)]
      [] op.key \in {<<"before">>, <<"after">>} /\ op.value # <<Date>> -> Bad(q)
      [] op.key = <<"before">> /\ op.value = <<Date>> -> [q EXCEPT !.before = TRUE]
      [] op.key = <<"after">> /\ op.value = <<Date>> -> [q EXCEPT !.after = TRUE]
      [] op.key = <<"has">> -> IF op.value = <<File>> THEN [q EXCEPT !.file = TRUE] ELSE Bad(q)
      [] OTHER -> [q EXCEPT !.text = Append(@, token)]

\* One token of the loop in Parse.
Classify(q, tok) ==
    LET op == SplitOperator(tok.value) IN
    CASE ~q.ok \/ (tok.value = <<>>) -> q
      [] q.ok /\ tok.quoted /\ tok.value # <<>> -> [q EXCEPT !.phrases = Append(@, tok.value)]
      [] q.ok /\ ~tok.quoted /\ op.ok -> ApplyOperator(q, op, tok.value)
      [] q.ok /\ ~tok.quoted /\ ~op.ok /\ IsExclusion(tok.value) ->
           [q EXCEPT !.excluded = Append(@, Tail(tok.value))]
      [] OTHER -> [q EXCEPT !.text = Append(@, tok.value)]

\* Mutant: a query of nothing but filters and exclusions is let through.
Parse_NoPositive(s) ==
    LET scan == Tokenize(s)
    IN IF ~scan.ok THEN Bad(EmptyQuery) ELSE FoldLeft(Classify, EmptyQuery, scan.tokens)

\* Query.Text is kept as the words that strings.Fields finds in it again.
Parse(s) ==
    LET scan == Tokenize(s)
        q == FoldLeft(Classify, EmptyQuery, scan.tokens)
    IN IF ~scan.ok \/ (q.text = <<>> /\ q.phrases = <<>>) THEN Bad(q) ELSE q

-----------------------------------------------------------------------------
(* query_builder.go                                                        *)

\* Mutant: quotes inside a term are left as they are.
FtsQuote_Raw(v) == <<Quote>> \o v \o <<Quote>>

FtsQuote(v) ==
    <<Quote>> \o FlattenSeq([i \in 1 .. Len(v) |->
                             IF v[i] = Quote THEN <<Quote, Quote>> ELSE <<v[i]>>]) \o <<Quote>>

Joined(terms, sep) ==
    FlattenSeq([i \in 1 .. Len(terms) |-> (IF i = 1 THEN <<>> ELSE sep) \o FtsQuote(terms[i])])

BuildMatch(q) ==
    LET positive == Joined(q.text \o q.phrases, <<Space>>)
    IN IF q.excluded = <<>> THEN positive
       ELSE <<"(">> \o positive \o <<")", Space, "NOT", Space, "(">>
            \o Joined(q.excluded, <<Space, "OR", Space>>) \o <<")">>

BindStrings(in) == [i \in 1 .. Len(in) |-> "?"]

\* Mutant: the names of in: are bound once for the two lists that hold them.
BuildSQL_BindsInOnce(q) ==
    LET when(b, s) == IF b THEN s ELSE <<>>
    IN [clauses |-> BindStrings(q.from) \o BindStrings(q.in) \o BindStrings(q.in)
                    \o when(q.after, <<"?">>) \o when(q.before, <<"?">>),
        args |-> q.from \o q.in
                 \o when(q.after, <<Date>>) \o when(q.before, <<Date>>)]

\* The placeholders of the clauses, in order, and the arguments bound to them.
\* in: names a chat by username or by title: two lists of placeholders.
BuildSQL(q) ==
    LET when(b, s) == IF b THEN s ELSE <<>>
    IN [clauses |-> BindStrings(q.from) \o BindStrings(q.in) \o BindStrings(q.in)
                    \o when(q.after, <<"?">>) \o when(q.before, <<"?">>),
        args |-> q.from \o q.in \o q.in
                 \o when(q.after, <<Date>>) \o when(q.before, <<Date>>)]

\* remote.go: what the server is asked, or nothing when a part of the query is
\* one it cannot honour.
RemoteText(q) ==
    IF q.from # <<>> \/ q.in # <<>> \/ q.file \/ q.excluded # <<>> THEN <<>>
    ELSE q.text \o q.phrases

-----------------------------------------------------------------------------
(* What FTS5 makes of an expression: strings between quotes, a doubled     *)
(* quote in one standing for a quote; the terms after NOT are the excluded.*)

Reader == [terms |-> <<>>, not |-> <<>>, current |-> <<>>, inString |-> FALSE,
           negated |-> FALSE, skip |-> FALSE, ok |-> TRUE]

ReadOne(st, s, i) ==
    LET c == s[i]
        doubled == c = Quote /\ i < Len(s) /\ s[i + 1] = Quote
        closed == IF st.negated THEN [st EXCEPT !.not = Append(@, st.current)]
                  ELSE [st EXCEPT !.terms = Append(@, st.current)]
    IN CASE st.skip -> [st EXCEPT !.skip = FALSE]
         [] ~st.skip /\ st.inString /\ doubled ->
              [st EXCEPT !.current = Append(@, Quote), !.skip = TRUE]
         [] ~st.skip /\ st.inString /\ c = Quote /\ ~doubled ->
              [closed EXCEPT !.inString = FALSE, !.current = <<>>]
         [] ~st.skip /\ st.inString /\ c # Quote -> [st EXCEPT !.current = Append(@, c)]
         [] ~st.skip /\ ~st.inString /\ c = Quote -> [st EXCEPT !.inString = TRUE]
         [] ~st.skip /\ ~st.inString /\ c = "NOT" -> [st EXCEPT !.negated = TRUE]
         [] OTHER -> [st EXCEPT !.ok = @ /\ c \in {Space, "(", ")", "OR"}]

FtsRead(s) ==
    LET at[i \in 0 .. Len(s)] == IF i = 0 THEN Reader ELSE ReadOne(at[i - 1], s, i)
        end == at[Len(s)]
    IN [ok |-> end.ok /\ ~end.inString, terms |-> end.terms, not |-> end.not]

-----------------------------------------------------------------------------
\* FTS5 looks for the words and phrases of the query and nothing else: no text
\* of the user is read as syntax, and there is always something to look for
\* (query_builder.go, ftsQuote and buildMatch).
MatchSaysTheQuery(s) ==
    LET q == Parse(s)
        read == FtsRead(BuildMatch(q))
    IN q.ok => /\ read.ok /\ read.terms # <<>>
               /\ read.terms = q.text \o q.phrases /\ read.not = q.excluded

\* Every placeholder of the clauses has its argument (query_builder.go).
EveryPlaceholderBound(s) ==
    LET sql == BuildSQL(Parse(s)) IN Len(sql.clauses) = Len(sql.args)

\* Quoting is a way to say anything: a phrase typed with its quotes escaped is
\* the phrase that is looked for (parser.go, tokenize).
PhraseCanBeTyped(v) ==
    LET typed == <<Quote>> \o FlattenSeq([i \in 1 .. Len(v) |->
                     IF v[i] = Quote THEN <<Escape, Quote>> ELSE <<v[i]>>]) \o <<Quote>>
    IN v # <<>> /\ Last(v) # Escape /\ ~(\E i \in 1 .. Len(v) - 1 : v[i] = Escape /\ v[i + 1] = Quote)
       => Parse(typed).phrases = <<v>>
=============================================================================
