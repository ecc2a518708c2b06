------------------------------- MODULE Markup --------------------------------
(***************************************************************************)
(* Formatted text: what is typed (core/markdown), what the wire carries    *)
(* (tg/entities.go), what is drawn (ui/panes/thread/entities.go).          *)
(*                                                                         *)
(* Text is a sequence of atoms, one per rune but for the two and three     *)
(* rune markers, which are atoms too.  An entity is [kind, at, len].       *)
(***************************************************************************)
EXTENDS Integers, Sequences, SequencesExt, FiniteSets, FiniteSetsExt

Pairs == {"**", "__", "~~", "||"}
Newline == "\n"
Space == " "

\* The kinds a client may send (entitiesToWire), and some the server derives.
Sendable == Pairs \cup {"code", "pre", "link", "underline", "blockquote", "custom_emoji"}
Kinds == Sendable \cup {"mention", "url"}

Entity(kind, at, len) == [kind |-> kind, at |-> at, len |-> len]
EndOf(e) == e.at + e.len
Shift(es, by) == [i \in 1 .. Len(es) |-> [es[i] EXCEPT !.at = @ + by]]

\* domain.SortEntities: by offset, the longer first, otherwise as they were.
SortEntities(es) ==
    LET before(i, j) == \/ es[i].at < es[j].at
                        \/ es[i].at = es[j].at /\ es[i].len > es[j].len
                        \/ es[i].at = es[j].at /\ es[i].len = es[j].len /\ i < j
        order == SetToSortSeq(DOMAIN es, before)
    IN [k \in DOMAIN order |-> es[order[k]]]

-----------------------------------------------------------------------------
(* markdown.go: Parse.                                                     *)

\* parser.find: the first tok at or after from; 0 when there is none.
Find(s, from, tok) ==
    LET at == {i \in from .. Len(s) : s[i] = tok} IN IF at = {} THEN 0 ELSE Min(at)

TrimEdges(s) ==
    LET head == IF s # <<>> /\ Head(s) = Newline THEN Tail(s) ELSE s
    IN IF head # <<>> /\ Last(head) = Newline THEN Front(head) ELSE head

Nothing == [to |-> 0, out |-> <<>>, es |-> <<>>]    \* not markup: to is 0

\* Span(inner, kind): the inner parse with one entity over all of it.
Span(inner, kind, to) ==
    IF inner.out = <<>> THEN Nothing
    ELSE [to |-> to, out |-> inner.out,
          es |-> Append(inner.es, Entity(kind, 0, Len(inner.out)))]
Verbatim(body) == [out |-> body, es |-> <<>>]

\* The language of a fenced block is what follows the fence on its line.
FenceBody(raw) ==
    LET nl == Find(raw, 1, Newline)
    IN TrimEdges(IF nl > 1 /\ (\A k \in 1 .. nl - 1 : raw[k] # Space)
                 THEN SubSeq(raw, nl + 1, Len(raw)) ELSE raw)

TryFence(s, p) ==
    LET end == IF s[p] = "fence" THEN Find(s, p + 1, "fence") ELSE 0
    IN IF end = 0 THEN Nothing
       ELSE Span(Verbatim(FenceBody(SubSeq(s, p + 1, end - 1))), "pre", end + 1)

\* Mutant: a code span may be empty.
TryCode_Empty(s, p) ==
    LET end == IF s[p] = "tick" THEN Find(s, p + 1, "tick") ELSE 0
        body == SubSeq(s, p + 1, end - 1)
    IN IF end = 0 \/ Contains(body, Newline) THEN Nothing
       ELSE [to |-> end + 1, out |-> body, es |-> <<Entity("code", 0, Len(body))>>]

TryCode(s, p) ==
    LET end == IF s[p] = "tick" THEN Find(s, p + 1, "tick") ELSE 0
        body == SubSeq(s, p + 1, end - 1)
    IN IF end = 0 \/ Contains(body, Newline) THEN Nothing ELSE Span(Verbatim(body), "code", end + 1)

RECURSIVE ParseFrom(_, _, _)

\* [text](url): the url is taken as it is.
TryLink(s, p) ==
    LET close == IF s[p] = "[" THEN Find(s, p + 1, "](") ELSE 0
        end == IF close > p + 1 THEN Find(s, close + 1, ")") ELSE 0
        url == SelectSeq(SubSeq(s, close + 1, end - 1), LAMBDA c : c # Space)
    IN IF end <= close + 1 \/ url = <<>> \/ Contains(url, Newline) THEN Nothing
       ELSE Span(ParseFrom(SubSeq(s, p + 1, close - 1), 1, Nothing), "link", end + 1)

\* Mutant: a marker without a partner is dropped.
TryPair_EatsLone(s, p) ==
    LET end == IF s[p] \in Pairs THEN Find(s, p + 1, s[p]) ELSE 0
    IN IF s[p] \in Pairs /\ end = 0 THEN [Nothing EXCEPT !.to = p + 1]
       ELSE IF end <= p + 1 THEN Nothing
       ELSE Span(ParseFrom(SubSeq(s, p + 1, end - 1), 1, Nothing), s[p], end + 1)

TryPair(s, p) ==
    LET end == IF s[p] \in Pairs THEN Find(s, p + 1, s[p]) ELSE 0
    IN IF end <= p + 1 THEN Nothing
       ELSE Span(ParseFrom(SubSeq(s, p + 1, end - 1), 1, Nothing), s[p], end + 1)

\* parser.parse: each construct in turn, else the rune as it stands.
FirstHit(tries) == LET hit == SelectInSeq(tries, LAMBDA t : t.to # 0) IN IF hit = 0 THEN Nothing ELSE tries[hit]
Taken(s, p, acc, hit) ==
    IF hit.to = 0 THEN ParseFrom(s, p + 1, [acc EXCEPT !.out = Append(@, s[p])])
    ELSE ParseFrom(s, hit.to, [acc EXCEPT !.out = @ \o hit.out, !.es = @ \o Shift(hit.es, Len(acc.out))])
ParseFrom(s, p, acc) ==
    IF p > Len(s) THEN acc
    ELSE Taken(s, p, acc, FirstHit(<<TryFence(s, p), TryCode(s, p), TryLink(s, p), TryPair(s, p)>>))

Sorted(r) == [out |-> r.out, es |-> SortEntities(r.es)]
Parse(s) == Sorted(ParseFrom(s, 1, Nothing))

-----------------------------------------------------------------------------
(* markdown.go: Render.                                                    *)

\* tokensFor; the language of a block and the url of a link are one atom.
Opens(e) == CASE e.kind \in Pairs -> <<e.kind>>
              [] e.kind = "code" -> <<"tick">>
              [] e.kind = "pre" -> <<"fence", Newline>>
              [] e.kind = "link" -> <<"[">>
              [] OTHER -> <<>>
Closes(e) == CASE e.kind = "pre" -> <<Newline, "fence">>
               [] e.kind = "link" -> <<"](", "url", ")">>
               [] OTHER -> Opens(e)

\* Mutant: the first opened is closed first.
EdgeBefore_FirstOpened(a, b) ==
    \/ a.at < b.at
    \/ a.at = b.at /\ ~a.open /\ b.open
    \/ a.at = b.at /\ a.open /\ b.open /\ a.order < b.order
    \/ a.at = b.at /\ ~a.open /\ ~b.open /\ a.order > b.order

\* Closers before openers, the last opened closed first.
EdgeBefore(a, b) ==
    \/ a.at < b.at
    \/ a.at = b.at /\ ~a.open /\ b.open
    \/ a.at = b.at /\ a.open = b.open /\ a.order < b.order

Render(text, es) ==
    LET sorted == SortEntities(es)
        usable == {i \in DOMAIN sorted : /\ Opens(sorted[i]) # <<>> /\ sorted[i].len > 0
                                         /\ sorted[i].at >= 0 /\ sorted[i].at < Len(text)}
        edges == {[at |-> sorted[i].at, open |-> TRUE, order |-> i, s |-> Opens(sorted[i])] :
                      i \in usable}
                 \cup {[at |-> Min({EndOf(sorted[i]), Len(text)}), open |-> FALSE, order |-> 0 - i,
                        s |-> Closes(sorted[i])] : i \in usable}
        order == SetToSortSeq(edges, EdgeBefore)
        marks(i) == FlattenSeq([k \in DOMAIN order |-> IF order[k].at = i THEN order[k].s ELSE <<>>])
    IN FlattenSeq([i \in 1 .. Len(text) |-> marks(i - 1) \o <<text[i]>>]) \o marks(Len(text))

-----------------------------------------------------------------------------
(* tg/entities.go: offsets in runes here, in UTF-16 units on the wire.     *)
(* A text is a sequence of widths, one or two units a rune.                *)

Units(text, i) == FoldLeft(LAMBDA a, w : a + w, 0, SubSeq(text, 1, i))
RuneToUnit(text, i) == IF i <= 0 THEN 0 ELSE Units(text, Min({i, Len(text)}))
UnitToRune(text, u) ==
    IF u <= 0 THEN 0 ELSE Min({i \in 0 .. Len(text) : Units(text, i) >= u} \cup {Len(text)})

\* Mutant: the length is carried over as it is.
ToWire_RuneLength(text, e) ==
    Entity(e.kind, RuneToUnit(text, e.at), e.len)

ToWire(text, e) ==
    Entity(e.kind, RuneToUnit(text, e.at), RuneToUnit(text, EndOf(e)) - RuneToUnit(text, e.at))

\* entitiesToWire: what cannot be sent is left out, its text is sent as it is.
EntitiesToWire(text, es) ==
    {ToWire(text, e) : e \in {x \in es : x.len > 0 /\ x.at >= 0 /\ x.kind \in Sendable
                                         /\ ToWire(text, x).len > 0}}

FromWire(text, e) ==
    LET start == UnitToRune(text, e.at)
    IN Entity(e.kind, start, UnitToRune(text, EndOf(e)) - start)
EntitiesFromWire(text, es) == {e \in {FromWire(text, x) : x \in es} : e.len > 0}

-----------------------------------------------------------------------------
(* ui/panes/thread/entities.go: the text in segments of one style each.    *)

ClampSpan(e, n) == [start |-> Max({e.at, 0}), end |-> Min({EndOf(e), n})]
ActiveAt(es, start, end, n) ==
    {e \in es : LET c == ClampSpan(e, n)
                IN c.start <= start /\ c.end >= end /\ c.end > c.start}

\* Mutant: the text is cut where spans begin only.
Cuts_StartsOnly(es, n) ==
    {0, n} \cup {ClampSpan(e, n).start : e \in {x \in es : ClampSpan(x, n).end > ClampSpan(x, n).start}}

Cuts(es, n) ==
    {0, n} \cup UNION {{ClampSpan(e, n).start, ClampSpan(e, n).end} :
                       e \in {x \in es : ClampSpan(x, n).end > ClampSpan(x, n).start}}

RenderEntities(n, es) ==
    LET bounds == SetToSortSeq(Cuts(es, n), <)
    IN [i \in 1 .. Len(bounds) - 1 |->
           [from |-> bounds[i], to |-> bounds[i + 1],
            active |-> ActiveAt(es, bounds[i], bounds[i + 1], n)]]

\* styleSegment: a hidden spoiler hides every other style.
StyleSegment(active, reveal) ==
    LET kinds == {e.kind : e \in active}
    IN IF "||" \in kinds /\ ~reveal THEN {"hidden"} ELSE kinds

-----------------------------------------------------------------------------
\* The markers of a span that are not in the text; a block or a link may drop more.
Cost(e) == CASE e.kind \in {"pre", "link"} -> 0 [] OTHER -> 2

WithinAndNested(es, n) ==
    /\ \A e \in es : e.at >= 0 /\ e.len > 0 /\ EndOf(e) <= n
    /\ \A d, e \in es : \/ EndOf(d) <= e.at \/ EndOf(e) <= d.at
                        \/ d.at <= e.at /\ EndOf(e) <= EndOf(d)
                        \/ e.at <= d.at /\ EndOf(d) <= EndOf(e)

Keeps(s, r) ==
    /\ WithinAndNested(ToSet(r.es), Len(r.out))
    /\ r.es # <<>> /\ (\A i \in DOMAIN r.es : r.es[i].kind \notin {"pre", "link"})
         => Len(s) = Len(r.out) + FoldLeft(LAMBDA a, e : a + Cost(e), 0, r.es)
    /\ r.es = <<>> => r.out = s

\* Markup never eats text: every atom typed is in the text that is sent, or is
\* a marker of a span, and every span lies in the text, nested in or apart from
\* the others (markdown.go, Parse).
NothingEaten(s) == Keeps(s, Parse(s))

Plain(text) == \A c \in ToSet(text) : c \notin Pairs \cup {"tick", "fence", "[", "](", ")", Newline, Space}

\* No two spans are the same, and none lies in another of its kind.
Flat(es) ==
    \A i, j \in DOMAIN es : i # j /\ es[i].kind = es[j].kind =>
        EndOf(es[i]) <= es[j].at \/ EndOf(es[j]) <= es[i].at

Same(r, again) == again.out = r.out /\ ToSet(again.es) = ToSet(r.es)
Reparses(r) == Plain(r.out) /\ Flat(r.es) => Same(r, Parse(Render(r.out, r.es)))
ParsesBack(s) == Reparses(Parse(s))

CodeApart(es) ==
    \A i, j \in DOMAIN es : es[i].kind \in {"code", "pre"} /\ i # j
        => es[i].at # es[j].at \/ es[i].len # es[j].len

\* A message of plain words and nested spans can be edited as it was written:
\* put back in the composer, it parses to the same text and spans, unless code
\* shares its range with another span (markdown.go, Render).
EditRoundTrip(s) == CodeApart(Parse(s).es) => ParsesBack(s)

\* What is sent is what was meant: a span survives the way to the wire and
\* back, whatever the width of the runes around it (tg/entities.go).
WireRoundTrip(text, es) ==
    LET kept == {e \in es : e.kind \in Sendable /\ e.len > 0 /\ e.at >= 0 /\ EndOf(e) <= Len(text)}
    IN EntitiesFromWire(text, EntitiesToWire(text, kept)) = kept

\* Drawing loses and doubles no text, and each rune has the styles of the
\* spans over it and no other (ui/panes/thread/entities.go).
DrawnOnce(n, es) ==
    LET segs == RenderEntities(n, es)
    IN \A i \in 0 .. n - 1 :
           LET over == {k \in DOMAIN segs : segs[k].from <= i /\ i < segs[k].to}
           IN /\ Cardinality(over) = 1
              /\ \A k \in over : segs[k].active = {e \in es : e.at <= i /\ i < EndOf(e)}

-----------------------------------------------------------------------------
(* What the source says and the code does not do.  README.md names the     *)
(* instance that refutes each of these.                                    *)

\* "Render is its inverse, used to put a formatted message back into the
\* composer for an edit" (markdown.go:12): bold code comes back as code that
\* holds the markers of bold as text.
RenderIsInverse(s) == ParsesBack(s)

\* "Overlapping spans that are not nested come out with their markers
\* interleaved, which ... parses back to the same overlap" (markdown.go:245).
OverlapParsesBack(text, es) ==
    LET again == Parse(Render(text, SetToSeq(es)))
    IN again.out = text /\ ToSet(again.es) = es

\* "one that lands inside a surrogate pair rounds up to the rune after it, so a
\* malformed span shrinks rather than growing into its neighbour"
\* (tg/entities.go:163): an end inside a pair grows over the rest of it.
MalformedShrinks(text, e) ==
    LET d == FromWire(text, e)
    IN d.len > 0 => RuneToUnit(text, d.at) >= e.at /\ RuneToUnit(text, EndOf(d)) <= EndOf(e)
=============================================================================
