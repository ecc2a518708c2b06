---------------------------- MODULE MirrorProofs ----------------------------
(***************************************************************************)
(* What holds of Mirror for any chats, buffers and bounds: the invariants  *)
(* SyncProofs takes its theorem about the mirror from, and their lemmas.   *)
(*                                                                         *)
(* PathsInv, with every path: the ids of a numbering are taken in order    *)
(* and name one message each, so a deletion takes what it names and no     *)
(* more (ServerInv); what is on its way was once so on the server          *)
(* (SentInv); a message that was not lost is before the duplicate filter,  *)
(* in the feed or in the mirror, however short the filter's memory and the *)
(* buffers are (Reaches).                                                  *)
(*                                                                         *)
(* PushedInv, where no history is fetched and the filter forgets nothing   *)
(* (Remembers): wire and feed end with the server's version of a message,  *)
(* and what a poll read before a change is stopped by the filter, or ahead *)
(* of that change in the feed (Agrees), unless the change overtook the     *)
(* poll between its filter and its publish.                                *)
(***************************************************************************)
EXTENDS Mirror, Functions, FiniteSetTheorems, SequenceTheorems, NaturalsInduction, TLAPS

Bounds ==
    /\ IsFiniteSet(Chats) /\ Channels \subseteq Chats
    /\ DedupCap \in Nat \ {0} /\ BusCap \in Nat /\ MaxId \in Nat /\ MaxEdits \in Nat

(* The ids a numbering has used.                                           *)
Used(c) == {m \in Numbering(c) \X Ids : server[m] # 0}

(* A message's version counts its edits, and the ids of a numbering have   *)
(* no gaps.                                                                *)
ServerInv ==
    /\ \A m \in Messages : Alive(m) => server[m] <= used["edits"] + 1
    /\ \A m \in Messages : server[m] # 0 => m[2] <= Cardinality(Used(m[1]))
    /\ \A m, n \in Messages : /\ server[m] # 0 /\ server[n] # 0
                              /\ m[2] = n[2] /\ Numbering(m[1]) = Numbering(n[1])
                              => m = n

(* What an update says was so on the server.                               *)
Sent(u) == IF u.type = "delete" THEN server[u.msg] = Deleted ELSE u.v <= server[u.msg]

SentInv ==
    /\ \A u \in Range(wire) \cup Range(feed) : Sent(u)
    /\ poll # Nothing => /\ poll.passed \in DOMAIN poll.todo \cup {0}
                         /\ \A i \in DOMAIN poll.todo : poll.todo[i] <= server[<<poll.chat, i>>]
    /\ \A m \in Messages : Seen(m) => server[m] # 0

(* A message that was not lost on its way is before the filter, held by a  *)
(* poll, in the feed or in the mirror.                                     *)
Comes(m) == ~Seen(m) /\ \E u \in Range(wire) : u.type = "new" /\ u.msg = m
Came(m) == \E u \in Range(feed) : u.type # "delete" /\ u.msg = m
Reaches(m) == Alive(m) /\ m \notin missed => Comes(m) \/ Passed(m) \/ Came(m) \/ mirror[m] # 0

PathsInv == TypeOK /\ ServerInv /\ SentInv /\ \A m \in Messages : Reaches(m)

(* Nothing that was seen is forgotten, and no history is fetched.          *)
Remembers == MaxLoads = 0 /\ Cardinality(Messages) <= DedupCap

(* The last word about m in queue q, or without one the version v, is s.   *)
Right(u, s) == IF u.type = "delete" THEN s = Deleted ELSE u.v = s
LastWord(v, q, m, s) ==
    \/ \E i \in 1 .. Len(q) : /\ q[i].msg = m /\ Right(q[i], s)
                              /\ \A j \in i + 1 .. Len(q) : q[j].msg # m
    \/ v \in {0, s} /\ \A j \in 1 .. Len(q) : q[j].msg # m

WireInv ==
    /\ \A u \in Range(wire) : u.type = "new" => u.v = 1
    /\ \A i, j \in 1 .. Len(wire) : i < j /\ wire[i].msg = wire[j].msg => wire[j].type # "new"

(* The wire ends with the server's version.  When no more than the first   *)
(* announcement of a message that was seen is on it, so does the feed, or  *)
(* the mirror has that version; or a poll that took the message through    *)
(* the filter has it.                                                      *)
Changed(m) == \E u \in Range(wire) : u.type # "new" /\ u.msg = m
Heard(m) == IF Passed(m) THEN poll.todo[poll.passed] = server[m]
                         ELSE LastWord(mirror[m], feed, m, server[m])
Agrees(m) ==
    m \notin missed \cup overtaken =>
        /\ LastWord(0, wire, m, server[m])
        /\ server[m] # 0 => Seen(m) \/ \E u \in Range(wire) : u.type = "new" /\ u.msg = m
        /\ Seen(m) /\ ~Changed(m) => Heard(m)

-----------------------------------------------------------------------------
(***************************************************************************)
(* Sets of ids, and queues.                                                *)
(***************************************************************************)
LEMMA LeastOf ==
  ASSUME NEW T, T \subseteq Nat, T # {}
  PROVE  \E x \in T : \A y \in T : x <= y
<1>1. \E x \in T : \A y \in T : ~ (<<y, x>> \in OpToRel(<, Nat))
  BY NatLessThanWellFounded, WFMin, Zenon
<1>2. PICK x \in T : \A y \in T : ~ (<<y, x>> \in OpToRel(<, Nat))
  BY <1>1
<1>3. \A y \in T : y < x => <<y, x>> \in OpToRel(<, Nat)
  BY Zenon DEF OpToRel
<1>4. \A y \in T : ~(y < x)
  BY <1>2, <1>3
<1> QED  BY <1>4

LEMMA GreatestOf ==
  ASSUME NEW n \in Nat, NEW T, T \subseteq 0 .. n, T # {}
  PROVE  Max(T) \in T /\ \A y \in T : y <= Max(T)
<1> DEFINE U == {n - x : x \in T}
<1>0. \A x \in T : n - x \in Nat
  OBVIOUS
<1>1. U \subseteq Nat /\ U # {}
  BY <1>0
<1>2. PICK u \in U : \A v \in U : u <= v
  BY <1>1, LeastOf
<1>3. PICK x \in T : u = n - x
  BY <1>2
<1>4. \A y \in T : n - y \in U
  OBVIOUS
<1>5. \A y \in T : x >= y
  BY <1>2, <1>3, <1>4
<1> QED  BY <1>5 DEF Max

LEMMA NewestIs ==
  ASSUME Bounds, NEW S, S \subseteq 0 .. MaxId
  PROVE  /\ Newest(S) \in 0 .. MaxId
         /\ S # {} => \A i \in S : i <= Newest(S)
         /\ Newest(S) \in S \cup {0}
<1>1. MaxId \in Nat /\ S \cup {0} \subseteq 0 .. MaxId /\ S \cup {0} # {}
  BY DEF Bounds
<1>2. Max(S \cup {0}) \in S \cup {0} /\ \A y \in S \cup {0} : y <= Max(S \cup {0})
  BY <1>1, GreatestOf
<1> QED  BY <1>1, <1>2 DEF Newest

LEMMA InQueue ==
  ASSUME NEW S, NEW q \in Seq(S)
  PROVE  /\ Range(q) \subseteq S
         /\ \A e \in S : Range(Append(q, e)) = Range(q) \cup {e}
         /\ q # <<>> => Range(q) = {Head(q)} \cup Range(Tail(q))
         /\ q # <<>> => Head(q) \in S /\ Tail(q) \in Seq(S)
         /\ \A i \in 1 .. Len(q) : q[i] \in Range(q)
<1>0. /\ Len(q) \in Nat /\ DOMAIN q = 1 .. Len(q) /\ \A i \in 1 .. Len(q) : q[i] \in S
      /\ Range(q) = {q[i] : i \in 1 .. Len(q)}
  BY DEF Range
<1>1. ASSUME NEW e \in S PROVE Range(Append(q, e)) = Range(q) \cup {e}
  <2> DEFINE t == Append(q, e)
  <2>1. /\ t \in Seq(S) /\ Len(t) = Len(q) + 1 /\ t[Len(q) + 1] = e
        /\ \A i \in 1 .. Len(q) : t[i] = q[i]
    OBVIOUS
  <2>2. Range(t) = {t[i] : i \in 1 .. Len(q) + 1}
    BY <2>1 DEF Range
  <2> HIDE DEF t
  <2>3. {t[i] : i \in 1 .. Len(q) + 1} = {q[i] : i \in 1 .. Len(q)} \cup {e}
    BY <1>0, <2>1
  <2> QED  BY <1>0, <2>2, <2>3 DEF t
<1>2. ASSUME q # <<>> PROVE Range(q) = {Head(q)} \cup Range(Tail(q))
  <2> DEFINE t == Tail(q)
  <2>1. /\ t \in Seq(S) /\ Len(t) = Len(q) - 1 /\ Head(q) = q[1] /\ Len(q) > 0
        /\ \A i \in 1 .. Len(q) - 1 : t[i] = q[i + 1]
    BY <1>2
  <2>a. DOMAIN t = 1 .. Len(q) - 1
    BY <2>1
  <2> HIDE DEF t
  <2>2. Range(t) = {t[i] : i \in 1 .. Len(q) - 1}
    BY <2>a DEF Range
  <2>3. ASSUME NEW i \in 1 .. Len(q) PROVE q[i] = Head(q) \/ q[i] \in {t[j] : j \in 1 .. Len(q) - 1}
    <3>1. CASE i = 1
      BY <2>1, <3>1
    <3>2. CASE i # 1
      <4>1. i - 1 \in 1 .. Len(q) - 1 /\ t[i - 1] = q[i]
        BY <1>0, <2>1, <2>3, <3>2
      <4> QED  BY <4>1
    <3> QED  BY <3>1, <3>2
  <2>4. ASSUME NEW j \in 1 .. Len(q) - 1 PROVE t[j] \in {q[i] : i \in 1 .. Len(q)}
    <3>1. j + 1 \in 1 .. Len(q) /\ t[j] = q[j + 1]
      BY <1>0, <2>1, <2>4
    <3> QED  BY <3>1
  <2>5. Head(q) \in {q[i] : i \in 1 .. Len(q)}
    BY <1>0, <2>1
  <2> QED  BY <1>0, <2>2, <2>3, <2>4, <2>5 DEF t
<1>3. q # <<>> => Head(q) \in S /\ Tail(q) \in Seq(S)
  OBVIOUS
<1> QED  BY <1>0, <1>1, <1>2, <1>3

(* To be seen again moves a message to the filter's young end.             *)
LEMMA Refreshed ==
  ASSUME NEW S, NEW q \in Seq(S), NEW i \in 1 .. Len(q), NEW t, t = Youngest(q, i)
  PROVE  /\ t \in Seq(S) /\ Len(t) = Len(q)
         /\ \A j \in 1 .. i - 1 : t[j] = q[j]
         /\ \A j \in i .. Len(q) - 1 : t[j] = q[j + 1]
         /\ t[Len(q)] = q[i]
<1> DEFINE a == SubSeq(q, 1, i - 1)
           b == SubSeq(q, i + 1, Len(q))
<1>1. a \in Seq(S) /\ Len(a) = i - 1 /\ \A j \in 1 .. i - 1 : a[j] = q[j]
  BY SubSeqProperties
<1>2. b \in Seq(S) /\ Len(b) = Len(q) - i /\ \A j \in 1 .. Len(q) - i : b[j] = q[i + j]
  BY SubSeqProperties
<1> HIDE DEF a, b
<1>3. /\ a \o b \in Seq(S) /\ Len(a \o b) = Len(q) - 1
      /\ \A j \in 1 .. Len(q) - 1 : (a \o b)[j] = IF j <= i - 1 THEN a[j] ELSE b[j - (i - 1)]
  <2>0. a \in Seq(S) /\ b \in Seq(S)
    BY <1>1, <1>2
  <2>1. a \o b \in Seq(S) /\ Len(a \o b) = Len(a) + Len(b)
    BY <2>0, ConcatProperties
  <2>2. \A j \in 1 .. Len(a) + Len(b) : (a \o b)[j] = IF j <= Len(a) THEN a[j] ELSE b[j - Len(a)]
    BY <1>1, <1>2
  <2>3. Len(q) \in Nat /\ Len(a) + Len(b) = Len(q) - 1
    BY <1>1, <1>2
  <2> QED  BY <1>1, <2>1, <2>2, <2>3
<1>4. t = Append(a \o b, q[i]) /\ q[i] \in S
  BY DEF a, b, Youngest
<1> DEFINE ab == a \o b
<1>5. ab \in Seq(S) /\ Len(ab) = Len(q) - 1 /\ t = Append(ab, q[i])
  BY <1>3, <1>4
<1>6. ASSUME NEW j \in i .. Len(q) - 1 PROVE ab[j] = q[j + 1]
  <2>1. j \in 1 .. Len(q) - 1 /\ ~(j <= i - 1) /\ j - (i - 1) \in 1 .. Len(q) - i
    OBVIOUS
  <2>2. ab[j] = b[j - (i - 1)]
    BY <1>3, <2>1
  <2>3. b[j - (i - 1)] = q[i + (j - (i - 1))] /\ i + (j - (i - 1)) = j + 1
    BY <1>2, <2>1
  <2> QED  BY <2>2, <2>3
<1>7. ASSUME NEW j \in 1 .. i - 1 PROVE ab[j] = q[j]
  <2>1. j \in 1 .. Len(q) - 1 /\ j <= i - 1
    OBVIOUS
  <2> QED  BY <1>1, <1>3, <2>1
<1> HIDE DEF ab
<1>8. t \in Seq(S) /\ Len(t) = Len(q) /\ t[Len(q)] = q[i] /\ \A j \in 1 .. Len(q) - 1 : t[j] = ab[j]
  <2>1. q[i] \in S /\ Len(q) \in Nat
    OBVIOUS
  <2>2. /\ Append(ab, q[i]) \in Seq(S) /\ Len(Append(ab, q[i])) = Len(ab) + 1
        /\ Append(ab, q[i])[Len(ab) + 1] = q[i]
        /\ \A j \in 1 .. Len(ab) : Append(ab, q[i])[j] = ab[j]
    BY <1>5, <2>1, AppendProperties
  <2>3. Len(ab) = Len(q) - 1 /\ Len(ab) + 1 = Len(q)
    BY <1>5, <2>1
  <2>4. t = Append(ab, q[i])
    BY <1>5
  <2> QED  BY <2>2, <2>3, <2>4
<1>9. \A j \in 1 .. i - 1 : j \in 1 .. Len(q) - 1
  OBVIOUS
<1>10. \A j \in i .. Len(q) - 1 : j \in 1 .. Len(q) - 1
  OBVIOUS
<1> QED  BY <1>6, <1>7, <1>8, <1>9, <1>10

LEMMA AnswerIs ==
  ASSUME NEW f
  PROVE  f \in Answer <=> /\ f = [i \in DOMAIN f |-> f[i]] /\ DOMAIN f \subseteq Ids
                          /\ \A i \in DOMAIN f : f[i] \in Versions
<1>1. f \in Answer => \E S \in SUBSET Ids : f \in [S -> Versions]
  BY DEF Answer
<1>2. ASSUME f = [i \in DOMAIN f |-> f[i]], DOMAIN f \subseteq Ids, \A i \in DOMAIN f : f[i] \in Versions
      PROVE  f \in Answer
  <2>1. f \in [DOMAIN f -> Versions]
    BY <1>2
  <2> QED  BY <1>2, <2>1 DEF Answer
<1> QED  BY <1>1, <1>2

-----------------------------------------------------------------------------
(***************************************************************************)
(* The filter and the bus.                                                 *)
(***************************************************************************)
LEMMA UpdateIs ==
  ASSUME NEW u \in Update
  PROVE  /\ u.type \in {"new", "edit", "delete"} /\ u.msg \in Messages
         /\ u.type # "delete" => u.v \in Versions /\ u.full \in BOOLEAN
BY DEF Update

LEMMA MessageIs ==
  ASSUME NEW m \in Messages
  PROVE  m[1] \in Chats /\ m[2] \in Ids /\ m = <<m[1], m[2]>>
BY DEF Messages

LEMMA Published ==
  ASSUME Bounds, TypeOK, NEW e \in Update, Publish(e)
  PROVE  /\ feed' \in Seq(Update) /\ Len(feed') <= BusCap /\ missed' \subseteq Messages
         /\ \/ feed' = Append(feed, e) /\ missed' = missed /\ Range(feed') = Range(feed) \cup {e}
            \/ feed' = feed /\ missed' = missed \cup {e.msg}
<1>0. feed \in Seq(Update) /\ Len(feed) \in Nat /\ Len(feed) <= BusCap /\ missed \subseteq Messages /\ BusCap \in Nat
  BY DEF TypeOK, Bounds
<1>1. CASE Len(feed) < BusCap
  <2>1. feed' = Append(feed, e) /\ missed' = missed
    BY <1>1 DEF Publish
  <2>2. Append(feed, e) \in Seq(Update) /\ Len(Append(feed, e)) = Len(feed) + 1
    BY <1>0
  <2>3. Range(Append(feed, e)) = Range(feed) \cup {e}
    BY <1>0, InQueue
  <2> QED  BY <1>0, <1>1, <2>1, <2>2, <2>3
<1>2. CASE ~(Len(feed) < BusCap)
  BY <1>0, <1>2, UpdateIs DEF Publish
<1> QED  BY <1>1, <1>2

LEMMA RefreshedSame ==
  ASSUME NEW q, NEW t, NEW n \in Nat, NEW i \in 1 .. n, DOMAIN q = 1 .. n, DOMAIN t = 1 .. n,
         \A j \in 1 .. i - 1 : t[j] = q[j],
         \A j \in i .. n - 1 : t[j] = q[j + 1],
         t[n] = q[i]
  PROVE  Range(t) = Range(q)
<1>3. /\ \A j \in 1 .. i - 1 : t[j] = q[j]
      /\ \A j \in i .. n - 1 : t[j] = q[j + 1]
      /\ t[n] = q[i]
  OBVIOUS
<1>0. n \in Nat
  OBVIOUS
<1>2. i \in 1 .. n
  OBVIOUS
<1>5. ASSUME NEW j \in 1 .. n PROVE \E x \in 1 .. n : t[x] = q[j]
  <2>1. CASE j < i
    <3>1. j \in 1 .. i - 1
      BY <1>0, <1>2, <2>1
    <3> QED  BY <1>3, <3>1
  <2>2. CASE j = i
    <3>1. n \in 1 .. n
      BY <1>0, <1>2
    <3> QED  BY <1>3, <2>2, <3>1
  <2>3. CASE j > i
    <3>1. j - 1 \in i .. n - 1 /\ j - 1 \in 1 .. n /\ (j - 1) + 1 = j
      BY <1>0, <1>2, <2>3
    <3>2. t[j - 1] = q[j]
      BY <1>3, <3>1
    <3> QED  BY <3>1, <3>2
  <2> QED  BY <1>0, <1>2, <2>1, <2>2, <2>3
<1>6. ASSUME NEW j \in 1 .. n PROVE \E x \in 1 .. n : q[x] = t[j]
  <2>1. CASE j < i
    <3>1. j \in 1 .. i - 1
      BY <1>0, <1>2, <2>1
    <3> QED  BY <1>3, <3>1
  <2>2. CASE j >= i /\ j # n
    <3>1. j \in i .. n - 1 /\ j + 1 \in 1 .. n
      BY <1>0, <1>2, <2>2
    <3> QED  BY <1>3, <3>1
  <2>3. CASE j = n
    BY <1>2, <1>3, <2>3
  <2> QED  BY <1>0, <1>2, <2>1, <2>2, <2>3
<1>7. Range(t) = {t[j] : j \in 1 .. n} /\ Range(q) = {q[j] : j \in 1 .. n}
  BY DEF Range
<1>8. {t[j] : j \in 1 .. n} = {q[j] : j \in 1 .. n}
  <2>1. ASSUME NEW z PROVE z \in {t[j] : j \in 1 .. n} <=> z \in {q[j] : j \in 1 .. n}
    <3>1. (\E j \in 1 .. n : z = t[j]) <=> \E j \in 1 .. n : z = q[j]
      BY <1>5, <1>6, Zenon
    <3> QED  BY <3>1
  <2> QED  BY <2>1
<1> QED  BY <1>7, <1>8

LEMMA SeenAgain ==
  ASSUME TypeOK, NEW m, Refresh(m)
  PROVE  /\ lru' \in Seq(Messages) /\ Len(lru') = Len(lru)
         /\ \A k : Seen(k)' <=> Seen(k)
<1>0. lru \in Seq(Messages) /\ DOMAIN lru = 1 .. Len(lru)
  BY DEF TypeOK
<1>1. PICK i \in DOMAIN lru : lru[i] = m /\ lru' = Youngest(lru, i)
  BY DEF Refresh
<1>2. PICK q, t : q = lru /\ t = lru'
  OBVIOUS
<1>3. q \in Seq(Messages) /\ i \in 1 .. Len(q) /\ t = Youngest(q, i)
  BY <1>0, <1>1, <1>2
<1>4. /\ t \in Seq(Messages) /\ Len(t) = Len(q)
      /\ \A j \in 1 .. i - 1 : t[j] = q[j]
      /\ \A j \in i .. Len(q) - 1 : t[j] = q[j + 1]
      /\ t[Len(q)] = q[i]
  BY <1>3, Refreshed
<1>5. Range(t) = Range(q)
  <2>1. Len(q) \in Nat /\ DOMAIN q = 1 .. Len(q)
    BY <1>3
  <2>2. DOMAIN t = 1 .. Len(q)
    BY <1>4
  <2>3. i \in 1 .. Len(q)
    BY <1>3
  <2> QED  BY <1>4, <2>1, <2>2, <2>3, RefreshedSame
<1>6. /\ \A k : Seen(k) <=> k \in Range(lru)
      /\ \A k : Seen(k)' <=> k \in Range(lru')
  BY DEF Seen, Range
<1> QED  BY <1>2, <1>4, <1>5, <1>6

LEMMA SeenFirst ==
  ASSUME Bounds, TypeOK, NEW m \in Messages, Remember(m)
  PROVE  /\ lru' \in Seq(Messages) /\ Len(lru') <= DedupCap
         /\ \A k : Seen(k)' => Seen(k) \/ k = m
         /\ Len(lru) < DedupCap => /\ lru' = Append(lru, m)
                                   /\ \A k : Seen(k) \/ k = m => Seen(k)'
<1>0. lru \in Seq(Messages) /\ Len(lru) \in Nat /\ Len(lru) <= DedupCap /\ DedupCap \in Nat
  BY DEF TypeOK, Bounds
<1> DEFINE grown == Append(lru, m)
<1>1. grown \in Seq(Messages) /\ Len(grown) = Len(lru) + 1 /\ grown # <<>>
  <2>1. grown \in Seq(Messages) /\ Len(grown) = Len(lru) + 1
    BY <1>0, AppendProperties
  <2> HIDE DEF grown
  <2> QED  BY <1>0, <2>1, EmptySeq
<1>2. Range(grown) = Range(lru) \cup {m}
  BY <1>0, InQueue
<1>3. lru' = IF Len(grown) > DedupCap THEN Tail(grown) ELSE grown
  BY DEF Remember
<1> HIDE DEF grown
<1>4. Tail(grown) \in Seq(Messages) /\ Len(Tail(grown)) = Len(lru) /\ Range(Tail(grown)) \subseteq Range(grown)
  BY <1>1, InQueue
<1>5. lru' \in Seq(Messages) /\ Len(lru') <= DedupCap /\ Range(lru') \subseteq Range(grown)
  BY <1>0, <1>1, <1>3, <1>4
<1>6. Len(lru) < DedupCap => lru' = grown
  BY <1>0, <1>1, <1>3
<1>7. /\ \A k : Seen(k) <=> k \in Range(lru)
      /\ \A k : Seen(k)' <=> k \in Range(lru')
  BY DEF Seen, Range
<1> QED  BY <1>2, <1>5, <1>6, <1>7 DEF grown

(* What is offered to the filter is known to it already, or published.     *)
Known(e) == Seen(e.msg) /\ feed' = feed /\ missed' = missed /\ \A k : Seen(k)' <=> Seen(k)
First(e) ==
    /\ ~Seen(e.msg) /\ \A k : Seen(k)' => Seen(k) \/ k = e.msg
    /\ \/ feed' = Append(feed, e) /\ missed' = missed /\ Range(feed') = Range(feed) \cup {e}
       \/ feed' = feed /\ missed' = missed \cup {e.msg}

LEMMA Offered ==
  ASSUME Bounds, TypeOK, NEW e \in Update, Duplicate(e.msg) \/ FirstTime(e)
  PROVE  /\ lru' \in Seq(Messages) /\ Len(lru') <= DedupCap
         /\ feed' \in Seq(Update) /\ Len(feed') <= BusCap /\ missed' \subseteq Messages
         /\ Known(e) \/ First(e)
<1>0. e.msg \in Messages
  BY UpdateIs
<1>1. CASE Duplicate(e.msg)
  <2>1. Seen(e.msg) /\ Refresh(e.msg) /\ feed' = feed /\ missed' = missed
    BY <1>1 DEF Duplicate
  <2>2. lru' \in Seq(Messages) /\ Len(lru') = Len(lru) /\ \A k : Seen(k)' <=> Seen(k)
    BY <2>1, SeenAgain
  <2> QED  BY <2>1, <2>2 DEF Known, TypeOK
<1>2. CASE FirstTime(e)
  <2>1. ~Seen(e.msg) /\ Remember(e.msg) /\ Publish(e)
    BY <1>2 DEF FirstTime
  <2>2. /\ lru' \in Seq(Messages) /\ Len(lru') <= DedupCap
        /\ \A k : Seen(k)' => Seen(k) \/ k = e.msg
    BY <1>0, <2>1, SeenFirst
  <2> QED  BY <2>1, <2>2, Published DEF First
<1> QED  BY <1>1, <1>2

-----------------------------------------------------------------------------
(***************************************************************************)
(* Types.                                                                  *)
(***************************************************************************)
LEMMA Numbers ==
  ASSUME Bounds, TypeOK
  PROVE  /\ MaxEdits \in Nat /\ MaxId \in Nat /\ Versions \subseteq 1 .. MaxEdits + 1
         /\ \A m \in Messages : server[m] \in Nat /\ server[m] <= Deleted
         /\ \A c \in Chats, i \in Ids : <<c, i>> \in Messages
         /\ \A c \in Chats : OnServer(c) \subseteq Ids /\ OnServer(c) \subseteq 0 .. MaxId
BY DEF Bounds, TypeOK, Messages, Versions, Deleted, OnServer, Ids

LEMMA NumberingIs ==
  ASSUME Bounds, NEW c \in Chats
  PROVE  /\ Numbering(c) \subseteq Chats /\ c \in Numbering(c)
         /\ IsFiniteSet(Used(c)) /\ Cardinality(Used(c)) \in Nat
         /\ \A d \in Numbering(c) : Numbering(d) = Numbering(c)
<1>1. Numbering(c) \subseteq Chats /\ c \in Numbering(c) /\ \A d \in Numbering(c) : Numbering(d) = Numbering(c)
  BY DEF Numbering, Bounds
<1>2. IsFiniteSet(Numbering(c)) /\ IsFiniteSet(Ids)
  BY <1>1, FS_Subset, FS_Interval DEF Bounds, Ids
<1>3. IsFiniteSet(Numbering(c) \X Ids)
  BY <1>2, FS_Product
<1>4. IsFiniteSet(Used(c))
  BY <1>3, FS_Subset DEF Used
<1> QED  BY <1>1, <1>4, FS_CardinalityType

LEMMA InitTypes == ASSUME Bounds, Init PROVE TypeOK
<1>1. 0 \in 0 .. Deleted /\ 0 \in 0 .. MaxEdits + 1 /\ 0 \in 0 .. MaxId
  BY DEF Bounds, Deleted
<1>2. Len(<<>>) = 0 /\ 0 <= BusCap /\ 0 <= DedupCap
  BY DEF Bounds
<1>3. <<>> \in Seq(Update) /\ <<>> \in Seq(Messages)
  OBVIOUS
<1> QED  BY <1>1, <1>2, <1>3 DEF Init, TypeOK

LEMMA Appended ==
  ASSUME TypeOK, NEW e \in Update, wire' = Append(wire, e)
  PROVE  wire' \in Seq(Update) /\ Range(wire') = Range(wire) \cup {e}
BY InQueue DEF TypeOK

LEMMA SpendTypes ==
  ASSUME TypeOK, NEW k \in Kinds, Spend(k)
  PROVE  /\ used' \in [Kinds -> Nat] /\ used[k] < Limit[k] /\ used'[k] = used[k] + 1
         /\ \A j \in Kinds \ {k} : used'[j] = used[j]
BY DEF TypeOK, Spend

(* The server's steps.                                                     *)
LEMMA SendsTypes ==
  ASSUME Bounds, TypeOK, NEW c \in Chats, ServerSends(c)
  PROVE  TypeOK'
<1> DEFINE m == <<c, NextId(c)>>
           u == [type |-> "new", msg |-> m, v |-> 1, full |-> TRUE]
<1>1. /\ m \in Messages /\ server' = [server EXCEPT ![m] = 1] /\ wire' = Append(wire, u)
      /\ UNCHANGED <<lru, feed, mirror, plain, listed, polling, history, missed, used>>
  BY DEF ServerSends
<1>2. u \in Update
  BY <1>1, Numbers DEF Update, Versions
<1> HIDE DEF u, m
<1>3. wire' \in Seq(Update)
  BY <1>1, <1>2, Appended
<1>4. server' \in [Messages -> 0 .. Deleted]
  BY <1>1, Numbers DEF TypeOK, Deleted
<1> QED  BY <1>1, <1>3, <1>4 DEF TypeOK, polling, history

LEMMA EditsTypes ==
  ASSUME Bounds, TypeOK, ServerInv, NEW m \in Messages, ServerEdits(m)
  PROVE  /\ TypeOK' /\ server[m] + 1 \in Versions
         /\ [type |-> "edit", msg |-> m, v |-> server[m] + 1, full |-> TRUE] \in Update
<1> DEFINE u == [type |-> "edit", msg |-> m, v |-> server[m] + 1, full |-> TRUE]
<1>1. /\ Spend("edits") /\ Alive(m) /\ server' = [server EXCEPT ![m] = @ + 1]
      /\ wire' = Append(wire, u)
      /\ UNCHANGED <<lru, feed, mirror, plain, listed, polling, history, missed>>
  BY DEF ServerEdits
<1>2. "edits" \in Kinds /\ Limit["edits"] = MaxEdits
  BY DEF Kinds, Limit
<1>3. used' \in [Kinds -> Nat] /\ used["edits"] < MaxEdits /\ used["edits"] \in Nat
  BY <1>1, <1>2, SpendTypes DEF TypeOK
<1>4. server[m] <= used["edits"] + 1
  BY <1>1 DEF ServerInv
<1>5. server[m] + 1 \in Versions
  BY <1>1, <1>3, <1>4, Numbers DEF Versions, Alive
<1>6. u \in Update
  BY <1>5 DEF Update
<1> HIDE DEF u
<1>7. wire' \in Seq(Update)
  BY <1>1, <1>6, Appended
<1>8. server' \in [Messages -> 0 .. Deleted]
  BY <1>1, <1>5, Numbers DEF TypeOK, Deleted, Versions
<1>9. TypeOK'
  BY <1>1, <1>3, <1>7, <1>8 DEF TypeOK, polling, history
<1> QED  BY <1>5, <1>6, <1>9 DEF u

LEMMA DeletesTypes ==
  ASSUME Bounds, TypeOK, NEW m \in Messages, ServerDeletes(m)
  PROVE  TypeOK'
<1> DEFINE u == [type |-> "delete", msg |-> m]
<1>1. /\ Spend("deletes") /\ server' = [server EXCEPT ![m] = Deleted] /\ wire' = Append(wire, u)
      /\ UNCHANGED <<lru, feed, mirror, plain, listed, polling, history, missed>>
  BY DEF ServerDeletes
<1>2. u \in Update
  BY DEF Update
<1> HIDE DEF u
<1>3. wire' \in Seq(Update)
  BY <1>1, <1>2, Appended
<1>4. server' \in [Messages -> 0 .. Deleted]
  BY <1>1, Numbers DEF TypeOK, Deleted
<1>5. used' \in [Kinds -> Nat]
  BY <1>1, SpendTypes DEF Kinds
<1> QED  BY <1>1, <1>3, <1>4, <1>5 DEF TypeOK, polling, history

LEMMA WireHead ==
  ASSUME TypeOK, wire # <<>>
  PROVE  /\ Head(wire) \in Update /\ Head(wire) \in Range(wire) /\ Tail(wire) \in Seq(Update)
         /\ Range(wire) = {Head(wire)} \cup Range(Tail(wire)) /\ Head(wire).msg \in Messages
BY InQueue, UpdateIs DEF TypeOK

LEMMA FeedHead ==
  ASSUME TypeOK, feed # <<>>
  PROVE  /\ Head(feed) \in Update /\ Head(feed) \in Range(feed) /\ Tail(feed) \in Seq(Update)
         /\ Range(feed) = {Head(feed)} \cup Range(Tail(feed)) /\ Head(feed).msg \in Messages
         /\ Len(Tail(feed)) = Len(feed) - 1
<1>1. feed \in Seq(Update)
  BY DEF TypeOK
<1>2. Len(Tail(feed)) = Len(feed) - 1
  BY <1>1
<1> QED  BY <1>1, <1>2, InQueue, UpdateIs

LEMMA LostTypes == ASSUME Bounds, TypeOK, UpdateLost PROVE TypeOK'
<1>1. used' \in [Kinds -> Nat]
  BY SpendTypes DEF Kinds, UpdateLost
<1>2. wire' \in Seq(Update) /\ missed' \subseteq Messages
  BY WireHead DEF UpdateLost, TypeOK
<1> QED  BY <1>1, <1>2 DEF UpdateLost, TypeOK, polling, history

LEMMA DispatchTypes == ASSUME Bounds, TypeOK, Dispatch PROVE TypeOK'
<1>1. /\ wire # <<>> /\ wire' = Tail(wire)
      /\ UNCHANGED <<server, mirror, plain, listed, poll, watermark, history, used>>
  BY DEF Dispatch
<1>2. wire' \in Seq(Update) /\ Head(wire) \in Update /\ Head(wire).msg \in Messages
  BY <1>1, WireHead
<1>4. overtaken' \subseteq Messages
  BY <1>2 DEF Dispatch, TypeOK
<1>3. /\ lru' \in Seq(Messages) /\ Len(lru') <= DedupCap
      /\ feed' \in Seq(Update) /\ Len(feed') <= BusCap /\ missed' \subseteq Messages
  <2>1. CASE Duplicate(Head(wire).msg) \/ FirstTime(Head(wire))
    BY <1>2, <2>1, Offered
  <2>2. CASE Publish(Head(wire)) /\ UNCHANGED lru
    BY <1>2, <2>2, Published DEF TypeOK
  <2> QED  BY <2>1, <2>2 DEF Dispatch
<1> QED  BY <1>1, <1>2, <1>3, <1>4 DEF TypeOK, history

(* LiveService's steps.                                                    *)
LEMMA PersistTypes == ASSUME Bounds, TypeOK, Persist PROVE TypeOK'
<1> DEFINE e == Head(feed)
<1>1. /\ feed # <<>> /\ e.type # "delete" /\ feed' = Tail(feed)
      /\ listed' = [listed EXCEPT ![ChatOf(e.msg)] = IF @ = 0 THEN e.msg[2] ELSE @]
      /\ mirror' = [mirror EXCEPT ![e.msg] = e.v]
      /\ plain' = IF e.full THEN plain \ {e.msg} ELSE plain \union {e.msg}
      /\ UNCHANGED <<server, wire, lru, polling, history, missed, used>>
  BY DEF Persist
<1>2. e \in Update /\ Tail(feed) \in Seq(Update) /\ Len(Tail(feed)) = Len(feed) - 1
  BY <1>1, FeedHead
<1> HIDE DEF e
<1>3. e.msg \in Messages /\ e.v \in Versions /\ ChatOf(e.msg) \in Chats /\ e.msg[2] \in Ids
  BY <1>1, <1>2, UpdateIs, MessageIs DEF ChatOf
<1>4. listed' \in [Chats -> 0 .. MaxId]
  BY <1>1, <1>3 DEF TypeOK, Ids
<1>5. mirror' \in [Messages -> 0 .. MaxEdits + 1] /\ \A m \in Messages : mirror'[m] = IF m = e.msg THEN e.v ELSE mirror[m]
  BY <1>1, <1>3 DEF TypeOK, Versions
<1>6. e.v # 0
  BY <1>3 DEF Versions
<1>7. plain' \subseteq {m \in Messages : mirror'[m] # 0}
  BY <1>1, <1>3, <1>5, <1>6 DEF TypeOK
<1>8. feed' \in Seq(Update) /\ Len(feed') <= BusCap
  BY <1>1, <1>2 DEF TypeOK, Bounds
<1> QED  BY <1>1, <1>4, <1>5, <1>7, <1>8 DEF TypeOK, polling, history

LEMMA ForgetTypes == ASSUME Bounds, TypeOK, Forget PROVE TypeOK'
<1> DEFINE gone == Addressed(Head(feed).msg)
<1>1. /\ feed # <<>> /\ feed' = Tail(feed)
      /\ mirror' = [m \in Messages |-> IF m \in gone THEN 0 ELSE mirror[m]]
      /\ plain' = plain \ gone
      /\ UNCHANGED <<server, wire, lru, listed, polling, history, missed, used>>
  BY DEF Forget
<1> HIDE DEF gone
<1>2. feed' \in Seq(Update) /\ Len(feed') <= BusCap
  BY <1>1, FeedHead DEF TypeOK, Bounds
<1>3. mirror' \in [Messages -> 0 .. MaxEdits + 1]
  BY <1>1 DEF TypeOK, Bounds
<1>4. plain' \subseteq {m \in Messages : mirror'[m] # 0}
  BY <1>1 DEF TypeOK
<1> QED  BY <1>1, <1>2, <1>3, <1>4 DEF TypeOK, polling, history

(* The steps of a poll.                                                    *)
LEMMA SinceIs ==
  ASSUME Bounds, TypeOK, NEW c \in Chats
  PROVE  NewestStored(c) \in 0 .. MaxId /\ Since(c) \in 0 .. MaxId
<1>1. {i \in Ids : mirror[<<c, i>>] # 0} \subseteq 0 .. MaxId
  BY DEF Ids
<1>2. NewestStored(c) \in 0 .. MaxId
  BY <1>1, NewestIs DEF NewestStored
<1>3. {watermark[c], NewestStored(c)} \subseteq 0 .. MaxId
  BY <1>2 DEF TypeOK
<1> QED  BY <1>2, <1>3, NewestIs DEF Since

LEMMA SomeAnswer ==
  ASSUME NEW S, S \subseteq Ids, NEW f, f = [i \in S |-> f[i]], \A i \in S : f[i] \in Versions
  PROVE  f \in Answer
<1>1. DOMAIN f = S
  OBVIOUS
<1> QED  BY <1>1, AnswerIs

LEMMA FetchesTypes ==
  ASSUME Bounds, TypeOK, NEW c \in Chats, PollFetches(c)
  PROVE  TypeOK'
<1> DEFINE fresh == {i \in OnServer(c) : i > Since(c)}
           f == [i \in fresh |-> server[<<c, i>>]]
<1>1. /\ Spend("polls")
      /\ poll' = [chat |-> c, since |-> Since(c), latest |-> Newest(fresh), passed |-> 0, todo |-> f]
      /\ UNCHANGED <<server, wire, lru, feed, mirror, plain, listed, watermark, overtaken, history, missed>>
  BY DEF PollFetches
<1>2. fresh \subseteq Ids /\ fresh \subseteq 0 .. MaxId
  BY Numbers
<1>3. \A i \in fresh : f[i] \in Versions
  BY DEF OnServer, Alive
<1>4. f \in Answer
  <2>1. DOMAIN f = fresh /\ f = [i \in DOMAIN f |-> f[i]]
    OBVIOUS
  <2> HIDE DEF f, fresh
  <2> QED  BY <1>2, <1>3, <2>1, AnswerIs
<1> HIDE DEF f
<1>5. Newest(fresh) \in 0 .. MaxId /\ Since(c) \in 0 .. MaxId
  BY <1>2, NewestIs, SinceIs
<1> HIDE DEF fresh
<1>6. poll' \in Poll
  BY <1>1, <1>4, <1>5 DEF Poll, Bounds
<1>7. used' \in [Kinds -> Nat]
  BY <1>1, SpendTypes DEF Kinds
<1> QED  BY <1>1, <1>6, <1>7 DEF TypeOK, history

LEMMA PollIs ==
  ASSUME TypeOK, poll # Nothing
  PROVE  /\ poll \in Poll /\ poll.chat \in Chats /\ poll.latest \in 0 .. MaxId
         /\ DOMAIN poll.todo \subseteq Ids /\ \A i \in DOMAIN poll.todo : poll.todo[i] \in Versions
<1>1. poll \in Poll
  BY DEF TypeOK
<1>2. poll.todo \in Answer
  BY <1>1 DEF Poll
<1> QED  BY <1>1, <1>2, AnswerIs DEF Poll

(* What a poll asks the filter about next, what it publishes, and what is  *)
(* left of it.                                                             *)
Newer == Max(DOMAIN poll.todo)
Copy == [type |-> "new", msg |-> <<poll.chat, poll.passed>>, v |-> poll.todo[poll.passed],
         full |-> FALSE]

LEMMA RestIs ==
  ASSUME TypeOK, poll # Nothing, NEW i
  PROVE  /\ Rest(i) \in Answer /\ DOMAIN Rest(i) = DOMAIN poll.todo \ {i}
         /\ \A j \in DOMAIN Rest(i) : Rest(i)[j] = poll.todo[j]
<1>1. DOMAIN poll.todo \subseteq Ids /\ \A j \in DOMAIN poll.todo : poll.todo[j] \in Versions
  BY PollIs
<1>2. DOMAIN Rest(i) = DOMAIN poll.todo \ {i} /\ \A j \in DOMAIN Rest(i) : Rest(i)[j] = poll.todo[j]
  BY DEF Rest
<1>3. Rest(i) = [j \in DOMAIN Rest(i) |-> Rest(i)[j]]
  BY DEF Rest
<1> QED  BY <1>1, <1>2, <1>3, AnswerIs

LEMMA PollAsks ==
  ASSUME Bounds, TypeOK, PollFilters
  PROVE  /\ poll # Nothing /\ poll.passed = 0 /\ Newer \in DOMAIN poll.todo
         /\ <<poll.chat, Newer>> \in Messages
         /\ poll' \in Poll /\ poll'.chat = poll.chat
         /\ DOMAIN poll'.todo \subseteq DOMAIN poll.todo
         /\ \A i \in DOMAIN poll'.todo : poll'.todo[i] = poll.todo[i]
         /\ \/ /\ Seen(<<poll.chat, Newer>>) /\ Refresh(<<poll.chat, Newer>>) /\ poll'.passed = 0
            \/ /\ ~Seen(<<poll.chat, Newer>>) /\ Remember(<<poll.chat, Newer>>)
               /\ poll'.passed = Newer /\ poll'.todo = poll.todo
<1>1. /\ poll # Nothing /\ poll.passed = 0 /\ DOMAIN poll.todo # {}
      /\ \/ /\ Seen(<<poll.chat, Newer>>) /\ Refresh(<<poll.chat, Newer>>)
            /\ poll' = [poll EXCEPT !.todo = Rest(Newer)]
         \/ /\ ~Seen(<<poll.chat, Newer>>) /\ Remember(<<poll.chat, Newer>>)
            /\ poll' = [poll EXCEPT !.passed = Newer]
  BY DEF PollFilters, Newer
<1>2. /\ poll \in Poll /\ poll.chat \in Chats /\ DOMAIN poll.todo \subseteq Ids
      /\ MaxId \in Nat /\ DOMAIN poll.todo \subseteq 0 .. MaxId
  BY <1>1, PollIs DEF Ids, Bounds
<1>3. Newer \in DOMAIN poll.todo
  BY <1>1, <1>2, GreatestOf DEF Newer
<1>4. <<poll.chat, Newer>> \in Messages /\ Newer \in 0 .. MaxId
  BY <1>2, <1>3 DEF Messages
<1>5. /\ Rest(Newer) \in Answer /\ DOMAIN Rest(Newer) = DOMAIN poll.todo \ {Newer}
      /\ \A j \in DOMAIN Rest(Newer) : Rest(Newer)[j] = poll.todo[j]
  BY <1>1, RestIs
<1>6. CASE /\ Seen(<<poll.chat, Newer>>) /\ Refresh(<<poll.chat, Newer>>)
           /\ poll' = [poll EXCEPT !.todo = Rest(Newer)]
  <2>1. poll' \in Poll /\ poll'.chat = poll.chat /\ poll'.todo = Rest(Newer) /\ poll'.passed = poll.passed
    BY <1>2, <1>5, <1>6 DEF Poll
  <2> QED  BY <1>1, <1>3, <1>4, <1>5, <1>6, <2>1
<1>7. CASE /\ ~Seen(<<poll.chat, Newer>>) /\ Remember(<<poll.chat, Newer>>)
           /\ poll' = [poll EXCEPT !.passed = Newer]
  <2>1. poll' \in Poll /\ poll'.chat = poll.chat /\ poll'.todo = poll.todo /\ poll'.passed = Newer
    BY <1>2, <1>4, <1>7 DEF Poll
  <2> QED  BY <1>1, <1>3, <1>4, <1>7, <2>1
<1> QED  BY <1>1, <1>6, <1>7

LEMMA PollOffers ==
  ASSUME Bounds, TypeOK, SentInv, PollPublishes
  PROVE  /\ poll # Nothing /\ poll.passed # 0 /\ poll.passed \in DOMAIN poll.todo
         /\ Copy \in Update /\ Publish(Copy)
         /\ poll' \in Poll /\ poll'.chat = poll.chat /\ poll'.passed = 0
         /\ DOMAIN poll'.todo \subseteq DOMAIN poll.todo
         /\ \A i \in DOMAIN poll'.todo : poll'.todo[i] = poll.todo[i]
<1>1. /\ poll # Nothing /\ poll.passed # 0 /\ Publish(Copy)
      /\ poll' = [poll EXCEPT !.todo = Rest(poll.passed), !.passed = 0]
  BY DEF PollPublishes, Copy
<1>2. poll.passed \in DOMAIN poll.todo
  BY <1>1 DEF SentInv
<1>3. /\ poll \in Poll /\ poll.chat \in Chats /\ poll.passed \in Ids /\ poll.todo[poll.passed] \in Versions
  BY <1>1, <1>2, PollIs
<1>4. Copy \in Update
  BY <1>3 DEF Copy, Update, Messages
<1>5. /\ Rest(poll.passed) \in Answer /\ DOMAIN Rest(poll.passed) \subseteq DOMAIN poll.todo
      /\ \A j \in DOMAIN Rest(poll.passed) : Rest(poll.passed)[j] = poll.todo[j]
  BY <1>1, RestIs
<1>a. 0 \in 0 .. MaxId
  BY DEF Bounds
<1> DEFINE rest == Rest(poll.passed)
<1>b. rest \in Answer /\ poll' = [poll EXCEPT !.todo = rest, !.passed = 0]
  BY <1>1, <1>5
<1> HIDE DEF rest
<1>6. poll' \in Poll /\ poll'.chat = poll.chat /\ poll'.todo = rest /\ poll'.passed = 0
  BY <1>3, <1>a, <1>b DEF Poll
<1> QED  BY <1>1, <1>2, <1>4, <1>5, <1>6 DEF rest

LEMMA FiltersTypes == ASSUME Bounds, TypeOK, PollFilters PROVE TypeOK'
<1>1. poll' \in Poll
  BY PollAsks
<1>2. lru' \in Seq(Messages) /\ Len(lru') <= DedupCap
  BY PollAsks, SeenAgain, SeenFirst DEF TypeOK
<1>3. UNCHANGED <<server, wire, feed, mirror, plain, listed, watermark, overtaken, history, missed, used>>
  BY DEF PollFilters
<1> QED  BY <1>1, <1>2, <1>3 DEF TypeOK, history

LEMMA PublishesTypes == ASSUME Bounds, TypeOK, SentInv, PollPublishes PROVE TypeOK'
<1>1. Copy \in Update /\ Publish(Copy) /\ poll' \in Poll
  BY PollOffers
<1>2. feed' \in Seq(Update) /\ Len(feed') <= BusCap /\ missed' \subseteq Messages
  BY <1>1, Published
<1>3. UNCHANGED <<server, wire, lru, mirror, plain, listed, watermark, overtaken, history, used>>
  BY DEF PollPublishes
<1> QED  BY <1>1, <1>2, <1>3 DEF TypeOK, history

LEMMA AdvancesTypes == ASSUME Bounds, TypeOK, PollAdvances PROVE TypeOK'
<1>1. poll.chat \in Chats /\ poll.latest \in 0 .. MaxId
  BY PollIs DEF PollAdvances
<1>2. watermark' \in [Chats -> 0 .. MaxId]
  BY <1>1 DEF PollAdvances, TypeOK
<1> QED  BY <1>2 DEF PollAdvances, TypeOK, history

(* The steps of the history, and of a dialog sync.                         *)
LEMMA DialogsTypes ==
  ASSUME Bounds, TypeOK, NEW c \in Chats, DialogsSynced(c)
  PROVE  TypeOK'
<1>1. Newest(OnServer(c)) \in 0 .. MaxId
  BY Numbers, NewestIs
<1>2. listed' \in [Chats -> 0 .. MaxId]
  BY <1>1 DEF DialogsSynced, TypeOK
<1> QED  BY <1>2 DEF DialogsSynced, TypeOK, polling, history

LEMMA FetchedTypes ==
  ASSUME Bounds, TypeOK, NEW c \in Chats, HistoryFetched(c)
  PROVE  TypeOK'
<1> DEFINE f == [i \in Batch(c) |-> server[<<c, i>>]]
<1>1. /\ Spend("loads") /\ verified' = verified \union {c} /\ load' = [chat |-> c, rows |-> f]
      /\ UNCHANGED <<server, wire, lru, feed, mirror, plain, listed, polling, missed>>
  BY DEF HistoryFetched
<1>2. Batch(c) \subseteq Ids /\ \A i \in Batch(c) : server[<<c, i>>] \in Versions
  BY DEF Batch, OnServer, Alive
<1>3. f \in Answer
  <2>1. DOMAIN f = Batch(c) /\ f = [i \in DOMAIN f |-> f[i]] /\ \A i \in Batch(c) : f[i] \in Versions
    BY <1>2
  <2> HIDE DEF f
  <2> QED  BY <1>2, <2>1, AnswerIs
<1> HIDE DEF f
<1>4. load' \in Load
  BY <1>1, <1>3 DEF Load
<1>5. used' \in [Kinds -> Nat]
  BY <1>1, SpendTypes DEF Kinds
<1> QED  BY <1>1, <1>4, <1>5 DEF TypeOK, polling

(* A batch that is saved gives its rows versions and takes none away.      *)
LEMMA SavedTypes ==
  ASSUME Bounds, TypeOK, HistorySaved
  PROVE  TypeOK' /\ \A m \in Messages : mirror[m] # 0 => mirror'[m] # 0
<1> DEFINE saved == IF listed[load.chat] = 0 THEN {} ELSE DOMAIN load.rows
           rows == {load.chat} \X saved
<1>1. /\ load # Nothing
      /\ mirror' = [m \in Messages |-> IF m \in rows THEN load.rows[m[2]] ELSE mirror[m]]
      /\ plain' = plain \ rows /\ load' = Nothing
      /\ UNCHANGED <<server, wire, lru, feed, listed, polling, verified, missed, used>>
  BY DEF HistorySaved
<1>2. load \in Load /\ load.rows \in Answer
  BY <1>1 DEF TypeOK, Load
<1>3. \A i \in DOMAIN load.rows : load.rows[i] \in Versions
  BY <1>2, AnswerIs
<1>4. \A m \in rows : m[2] \in DOMAIN load.rows
  OBVIOUS
<1> HIDE DEF rows, saved
<1>5. \A m \in rows : load.rows[m[2]] \in 0 .. MaxEdits + 1 /\ load.rows[m[2]] # 0
  BY <1>3, <1>4 DEF Versions, Bounds
<1>6. mirror' \in [Messages -> 0 .. MaxEdits + 1] /\ \A m \in Messages : mirror[m] # 0 => mirror'[m] # 0
  BY <1>1, <1>5 DEF TypeOK
<1>7. plain' \subseteq {m \in Messages : mirror'[m] # 0}
  BY <1>1, <1>6 DEF TypeOK
<1> QED  BY <1>1, <1>6, <1>7 DEF TypeOK, polling

LEMMA ExpiresTypes ==
  ASSUME Bounds, TypeOK, NEW c \in Chats, VerdictExpires(c)
  PROVE  TypeOK'
BY DEF VerdictExpires, TypeOK, polling

-----------------------------------------------------------------------------
(***************************************************************************)
(* The numbers of messages, and what updates say.                          *)
(***************************************************************************)
LEMMA ServerStill ==
  ASSUME ServerInv, server' = server, used'["edits"] = used["edits"]
  PROVE  ServerInv'
BY DEF ServerInv, Alive, Used

LEMMA SendsServer ==
  ASSUME Bounds, TypeOK, ServerInv, NEW c \in Chats, ServerSends(c)
  PROVE  /\ ServerInv' /\ server[<<c, NextId(c)>>] = 0
         /\ <<c, NextId(c)>> \in Messages
         /\ \A n \in Messages : server'[n] = IF n = <<c, NextId(c)>> THEN 1 ELSE server[n]
<1> DEFINE m == <<c, NextId(c)>>
<1>1. m \in Messages /\ server' = [server EXCEPT ![m] = 1] /\ used' = used
  BY DEF ServerSends
<1>2. /\ Numbering(c) \subseteq Chats /\ c \in Numbering(c)
      /\ IsFiniteSet(Used(c)) /\ Cardinality(Used(c)) \in Nat
      /\ \A d \in Numbering(c) : Numbering(d) = Numbering(c)
  BY NumberingIs
<1>3. NextId(c) = Cardinality(Used(c)) + 1
  BY <1>2 DEF NextId, Used
<1>4. m[1] = c /\ m[2] = NextId(c)
  OBVIOUS
<1> HIDE DEF m
<1>5. server[m] = 0
  <2> SUFFICES ASSUME server[m] # 0 PROVE FALSE
    OBVIOUS
  <2>1. m[2] <= Cardinality(Used(c))
    BY <1>1, <1>4 DEF ServerInv
  <2> QED  BY <1>2, <1>3, <1>4, <2>1
<1>6. \A n \in Messages : server'[n] = IF n = m THEN 1 ELSE server[n]
  BY <1>1 DEF TypeOK
<1>7. \A d \in Chats : c \notin Numbering(d) => Used(d)' = Used(d)
  <2> SUFFICES ASSUME NEW d \in Chats, c \notin Numbering(d) PROVE Used(d)' = Used(d)
    OBVIOUS
  <2>1. \A n \in Numbering(d) \X Ids : n \in Messages /\ n # m
    BY <1>4, NumberingIs DEF Messages
  <2> QED  BY <1>6, <2>1 DEF Used
<1>8. \A d \in Numbering(c) : Used(d) = Used(c) /\ Used(d)' = Used(c) \cup {m}
  <2>1. Used(c)' = Used(c) \cup {m}
    <3>1. \A n \in Numbering(c) \X Ids : n \in Messages
      BY <1>2 DEF Messages
    <3>2. m \in Numbering(c) \X Ids
      BY <1>1, <1>2, <1>4, MessageIs
    <3> QED  BY <1>6, <3>1, <3>2 DEF Used
  <2>2. \A d \in Numbering(c) : Used(d) = Used(c) /\ Used(d)' = Used(c)'
    BY <1>2 DEF Used
  <2> QED  BY <2>1, <2>2
<1>9. Cardinality(Used(c) \cup {m}) = Cardinality(Used(c)) + 1
  <2>1. m \notin Used(c)
    BY <1>5 DEF Used
  <2> QED  BY <1>2, <2>1, FS_AddElement
<1>10. \A d \in Chats : c \in Numbering(d) => d \in Numbering(c)
  BY NumberingIs
<1>11. ASSUME NEW n \in Messages, server'[n] # 0 PROVE n[2] <= Cardinality(Used(n[1])')
  <2>0. n[1] \in Chats /\ n[2] \in Ids /\ n[2] \in Nat
    BY MessageIs DEF Ids
  <2>a. \A d \in Numbering(c) : Cardinality(Used(d)') = Cardinality(Used(c)) + 1
    BY <1>8, <1>9
  <2>1. CASE n = m
    <3>1. n[1] \in Numbering(c) /\ n[2] = Cardinality(Used(c)) + 1
      BY <1>2, <1>3, <1>4, <2>1
    <3>2. Cardinality(Used(n[1])') = Cardinality(Used(c)) + 1
      BY <2>a, <3>1
    <3> QED  BY <1>2, <3>1, <3>2
  <2>2. CASE n # m
    <3>1. n[2] <= Cardinality(Used(n[1]))
      BY <1>6, <1>11, <2>2 DEF ServerInv
    <3>2. CASE c \notin Numbering(n[1])
      BY <1>7, <2>0, <3>1, <3>2
    <3>3. CASE c \in Numbering(n[1])
      <4>1. n[1] \in Numbering(c)
        BY <1>10, <2>0, <3>3
      <4>2. Cardinality(Used(n[1])') = Cardinality(Used(c)) + 1 /\ Used(n[1]) = Used(c)
        BY <1>8, <2>a, <4>1
      <4> QED  BY <1>2, <2>0, <3>1, <4>2
    <3> QED  BY <3>2, <3>3
  <2> QED  BY <2>1, <2>2
<1>12. ASSUME NEW n \in Messages, server[n] # 0, n[2] = m[2] PROVE Numbering(n[1]) # Numbering(m[1])
  <2> SUFFICES ASSUME Numbering(n[1]) = Numbering(c) PROVE FALSE
    BY <1>4
  <2>1. n[2] <= Cardinality(Used(n[1])) /\ Used(n[1]) = Used(c)
    BY <1>12 DEF ServerInv, Used
  <2> QED  BY <1>2, <1>3, <1>4, <1>12, <2>1
<1>13. \A a, b \in Messages : /\ server'[a] # 0 /\ server'[b] # 0
                              /\ a[2] = b[2] /\ Numbering(a[1]) = Numbering(b[1])
                              => a = b
  <2> SUFFICES ASSUME NEW a \in Messages, NEW b \in Messages, server'[a] # 0, server'[b] # 0,
                      a[2] = b[2], Numbering(a[1]) = Numbering(b[1]), a # b
               PROVE  FALSE
    OBVIOUS
  <2>1. CASE a = m
    BY <1>6, <1>12, <2>1
  <2>2. CASE b = m
    BY <1>6, <1>12, <2>2
  <2>3. CASE a # m /\ b # m
    BY <1>6, <2>3 DEF ServerInv
  <2> QED  BY <2>1, <2>2, <2>3
<1>14. \A n \in Messages : Alive(n)' => server'[n] <= used'["edits"] + 1
  <2>1. used["edits"] \in Nat
    BY DEF TypeOK, Kinds
  <2> QED  BY <1>1, <1>6, <2>1 DEF ServerInv, Alive
<1>15. ServerInv'
  <2>1. \A n \in Messages : server'[n] # 0 => n[2] <= Cardinality(Used(n[1])')
    BY <1>11
  <2> QED  BY <1>13, <1>14, <2>1 DEF ServerInv
<1> QED  BY <1>1, <1>5, <1>6, <1>15 DEF m

(* An edit or a deletion: no message is numbered, versions only grow.      *)
LEMMA ChangeServer ==
  ASSUME TypeOK, ServerInv, NEW m \in Messages, Alive(m), NEW v, v # 0, Bounds,
         server' = [server EXCEPT ![m] = v],
         v \in Versions => v <= used'["edits"] + 1,
         used["edits"] <= used'["edits"], used' \in [Kinds -> Nat]
  PROVE  ServerInv' /\ \A n \in Messages : server'[n] = IF n = m THEN v ELSE server[n]
<1>1. \A n \in Messages : server'[n] = IF n = m THEN v ELSE server[n]
  BY DEF TypeOK
<1>2. \A n \in Messages : server'[n] # 0 <=> server[n] # 0
  BY <1>1 DEF Alive, Versions
<1>3. \A d \in Chats : Used(d)' = Used(d)
  <2> SUFFICES ASSUME NEW d \in Chats PROVE Used(d)' = Used(d)
    OBVIOUS
  <2>1. \A n \in Numbering(d) \X Ids : n \in Messages
    BY NumberingIs DEF Messages
  <2> QED  BY <1>2, <2>1 DEF Used
<1>4. \A n \in Messages : server'[n] # 0 => n[2] <= Cardinality(Used(n[1])')
  BY <1>2, <1>3, MessageIs DEF ServerInv
<1>5. \A n \in Messages : Alive(n)' => server'[n] <= used'["edits"] + 1
  <2>1. used["edits"] \in Nat /\ used'["edits"] \in Nat
    BY DEF TypeOK, Kinds
  <2>2. \A n \in Messages : server[n] \in Nat
    BY Numbers
  <2> QED  BY <1>1, <2>1, <2>2 DEF ServerInv, Alive
<1>6. ServerInv'
  BY <1>2, <1>4, <1>5 DEF ServerInv
<1> QED  BY <1>1, <1>6

LEMMA EditsServer ==
  ASSUME Bounds, TypeOK, ServerInv, NEW m \in Messages, ServerEdits(m)
  PROVE  ServerInv' /\ \A n \in Messages : server'[n] = IF n = m THEN server[m] + 1 ELSE server[n]
<1>1. Spend("edits") /\ Alive(m) /\ server' = [server EXCEPT ![m] = server[m] + 1]
  BY DEF ServerEdits
<1>2. /\ used' \in [Kinds -> Nat] /\ used'["edits"] = used["edits"] + 1 /\ used["edits"] \in Nat
  BY <1>1, SpendTypes DEF Kinds, TypeOK
<1>3. server[m] \in Nat /\ server[m] <= used["edits"] + 1 /\ server[m] + 1 # 0
  BY <1>1, Numbers DEF ServerInv
<1>4. used["edits"] <= used'["edits"] /\ server[m] + 1 <= used'["edits"] + 1
  BY <1>2, <1>3
<1> QED  BY <1>1, <1>2, <1>3, <1>4, ChangeServer

LEMMA DeletesServer ==
  ASSUME Bounds, TypeOK, ServerInv, NEW m \in Messages, ServerDeletes(m)
  PROVE  ServerInv' /\ \A n \in Messages : server'[n] = IF n = m THEN Deleted ELSE server[n]
<1>1. Spend("deletes") /\ Alive(m) /\ server' = [server EXCEPT ![m] = Deleted]
  BY DEF ServerDeletes
<1>2. used' \in [Kinds -> Nat] /\ used'["edits"] = used["edits"] /\ used["edits"] \in Nat
  BY <1>1, SpendTypes DEF Kinds, TypeOK
<1>3. Deleted # 0 /\ Deleted \notin Versions
  BY DEF Deleted, Versions, Bounds
<1>4. used["edits"] <= used'["edits"]
  BY <1>2
<1> QED  BY <1>1, <1>2, <1>3, <1>4, ChangeServer

LEMMA NextServer == ASSUME Bounds, TypeOK, ServerInv, Next PROVE ServerInv'
<1>1. CASE \E c \in Chats : ServerSends(c)
  BY <1>1, SendsServer
<1>2. CASE \E m \in Messages : ServerEdits(m)
  BY <1>2, EditsServer
<1>3. CASE \E m \in Messages : ServerDeletes(m)
  BY <1>3, DeletesServer
<1>4. CASE UpdateLost
  BY <1>4, SpendTypes, ServerStill DEF UpdateLost, Kinds
<1>5. CASE \E c \in Chats : PollFetches(c)
  BY <1>5, SpendTypes, ServerStill DEF PollFetches, Kinds
<1>6. CASE \E c \in Chats : HistoryFetched(c)
  BY <1>6, SpendTypes, ServerStill DEF HistoryFetched, Kinds
<1>7. CASE \E c \in Chats : DialogsSynced(c) \/ VerdictExpires(c)
  BY <1>7, ServerStill DEF DialogsSynced, VerdictExpires
<1>8. CASE Dispatch \/ LiveStep \/ PollStep \/ HistorySaved
  BY <1>8, ServerStill
     DEF Dispatch, LiveStep, Persist, Forget, PollStep, PollFilters, PollPublishes, PollAdvances,
         HistorySaved
<1> QED  BY <1>1, <1>2, <1>3, <1>4, <1>5, <1>6, <1>7, <1>8 DEF Next

LEMMA NextTypes == ASSUME Bounds, TypeOK, ServerInv, SentInv, Next PROVE TypeOK'
<1>1. CASE \E c \in Chats : \/ ServerSends(c) \/ DialogsSynced(c) \/ PollFetches(c)
                            \/ HistoryFetched(c) \/ VerdictExpires(c)
  BY <1>1, SendsTypes, DialogsTypes, FetchesTypes, FetchedTypes, ExpiresTypes
<1>2. CASE \E m \in Messages : ServerEdits(m) \/ ServerDeletes(m)
  BY <1>2, EditsTypes, DeletesTypes
<1>3. CASE UpdateLost \/ Dispatch \/ LiveStep \/ PollStep \/ HistorySaved
  BY <1>3, LostTypes, DispatchTypes, PersistTypes, ForgetTypes, FiltersTypes, PublishesTypes,
     AdvancesTypes, SavedTypes DEF LiveStep, PollStep
<1> QED  BY <1>1, <1>2, <1>3 DEF Next

-----------------------------------------------------------------------------
(***************************************************************************)
(* What updates say, and where messages are.                               *)
(***************************************************************************)
LEMMA SentStays ==
  ASSUME NEW u \in Update, Sent(u),
         server'[u.msg] = server[u.msg]
           \/ /\ server[u.msg] \in Nat /\ server'[u.msg] \in Nat
              /\ server[u.msg] # Deleted /\ server[u.msg] <= server'[u.msg],
         u.type # "delete" => u.v \in Nat
  PROVE  Sent(u)'
BY DEF Sent

LEMMA WhatWasSent ==
  ASSUME Bounds, TypeOK, SentInv, NEW u \in Range(wire) \cup Range(feed)
  PROVE  /\ u \in Update /\ u.msg \in Messages /\ Sent(u) /\ server[u.msg] # 0
         /\ u.type # "delete" => u.v \in Nat /\ u.v # 0
<1>1. u \in Update
  BY InQueue DEF TypeOK
<1>2. u.msg \in Messages /\ Sent(u) /\ (u.type # "delete" => u.v \in Versions)
  BY <1>1, UpdateIs DEF SentInv
<1> QED  BY <1>1, <1>2, Numbers DEF Sent, Versions, Deleted

(* No update was on its way of a message that is new, and an edit or a     *)
(* deletion goes past everything that was said.                            *)
LEMMA SentGrows ==
  ASSUME Bounds, TypeOK, SentInv, NEW m \in Messages, NEW e \in Update, e.msg = m, Sent(e)',
         wire' = Append(wire, e), UNCHANGED <<feed, poll, lru>>,
         server[m] # Deleted, server[m] <= server'[m], server'[m] \in Nat \ {0},
         \A n \in Messages : n # m => server'[n] = server[n]
  PROVE  SentInv'
<1>0. server[m] \in Nat
  BY Numbers
<1>1. Range(wire') = Range(wire) \cup {e}
  BY Appended
<1>2. ASSUME NEW u \in Range(wire) \cup Range(feed) PROVE Sent(u)'
  <2>1. u \in Update /\ u.msg \in Messages /\ Sent(u) /\ (u.type # "delete" => u.v \in Nat)
    BY WhatWasSent
  <2>2. \/ server'[u.msg] = server[u.msg]
        \/ /\ server[u.msg] \in Nat /\ server'[u.msg] \in Nat
           /\ server[u.msg] # Deleted /\ server[u.msg] <= server'[u.msg]
    BY <1>0, <2>1
  <2> QED  BY <2>1, <2>2, SentStays
<1>3. \A u \in Range(wire') \cup Range(feed') : Sent(u)'
  BY <1>1, <1>2
<1>4. \A n \in Messages : server[n] <= server'[n]
  BY <1>0, Numbers
<1>5. poll' # Nothing => /\ poll'.passed \in DOMAIN poll'.todo \cup {0}
                         /\ \A i \in DOMAIN poll'.todo : poll'.todo[i] <= server'[<<poll'.chat, i>>]
  <2>a. poll # Nothing => poll.passed \in DOMAIN poll.todo \cup {0}
    BY DEF SentInv
  <2> SUFFICES ASSUME poll # Nothing, NEW i \in DOMAIN poll.todo
               PROVE  poll.todo[i] <= server'[<<poll.chat, i>>]
    BY <2>a
  <2>1. <<poll.chat, i>> \in Messages /\ poll.todo[i] \in Versions
    BY PollIs DEF Messages
  <2>2. poll.todo[i] \in Nat /\ server[<<poll.chat, i>>] \in Nat /\ server'[<<poll.chat, i>>] \in Nat
    BY <2>1, Numbers DEF Versions
  <2>3. poll.todo[i] <= server[<<poll.chat, i>>]
    BY DEF SentInv
  <2> QED  BY <1>4, <2>1, <2>2, <2>3
<1>6. \A n \in Messages : Seen(n)' => server'[n] # 0
  BY <1>0 DEF SentInv, Seen
<1> QED  BY <1>3, <1>5, <1>6 DEF SentInv

LEMMA NothingOf ==
  ASSUME Bounds, TypeOK, SentInv, NEW m \in Messages, server[m] = 0
  PROVE  ~Seen(m) /\ \A u \in Range(wire) \cup Range(feed) : u.msg # m
BY WhatWasSent DEF SentInv

(* The wire has more, and all else is as it was.                           *)
LEMMA ReachesGrows ==
  ASSUME NEW m, Reaches(m), server'[m] = server[m], UNCHANGED <<lru, feed, mirror, missed, poll>>,
         Range(wire) \subseteq Range(wire')
  PROVE  Reaches(m)'
BY DEF Reaches, Alive, Comes, Came, Seen, Passed

PathInv == SentInv /\ \A m \in Messages : Reaches(m)

LEMMA SendsPath ==
  ASSUME Bounds, TypeOK, ServerInv, PathInv, NEW c \in Chats, ServerSends(c)
  PROVE  PathInv'
<1>0. PICK m, e : /\ m = <<c, NextId(c)>>
                  /\ e = [type |-> "new", msg |-> m, v |-> 1, full |-> TRUE]
  OBVIOUS
<1>1. /\ m \in Messages /\ server[m] = 0 /\ wire' = Append(wire, e)
      /\ \A n \in Messages : server'[n] = IF n = m THEN 1 ELSE server[n]
      /\ UNCHANGED <<feed, poll, lru, mirror, missed>>
  BY <1>0, SendsServer DEF ServerSends, polling
<1>2. e \in Update /\ e.msg = m /\ e.type = "new" /\ e.v = 1
  BY <1>0, <1>1, Numbers DEF Update, Versions
<1>3. Sent(e)' /\ server[m] # Deleted /\ server[m] <= server'[m] /\ server'[m] \in Nat \ {0}
  BY <1>1, <1>2, Numbers DEF Sent, Deleted
<1>4. SentInv'
  BY <1>1, <1>2, <1>3, SentGrows DEF PathInv
<1>5. Range(wire') = Range(wire) \cup {e}
  BY <1>1, <1>2, Appended
<1>6. ~Seen(m)'
  BY <1>1, NothingOf DEF Seen, PathInv
<1>7. \A n \in Messages : Reaches(n)'
  <2>1. Comes(m)'
    BY <1>2, <1>5, <1>6 DEF Comes
  <2>2. \A n \in Messages : n # m => Reaches(n)'
    BY <1>1, <1>5, ReachesGrows DEF PathInv
  <2> QED  BY <2>1, <2>2 DEF Reaches
<1> QED  BY <1>4, <1>7 DEF PathInv

LEMMA EditsPath ==
  ASSUME Bounds, TypeOK, ServerInv, PathInv, NEW m \in Messages, ServerEdits(m)
  PROVE  PathInv'
<1>0. PICK e : e = [type |-> "edit", msg |-> m, v |-> server[m] + 1, full |-> TRUE]
  OBVIOUS
<1>1. /\ Alive(m) /\ wire' = Append(wire, e) /\ UNCHANGED <<feed, poll, lru, mirror, missed>>
      /\ \A n \in Messages : server'[n] = IF n = m THEN server[m] + 1 ELSE server[n]
  BY <1>0, EditsServer DEF ServerEdits, polling
<1>2. e \in Update /\ e.msg = m /\ e.type = "edit" /\ e.v = server[m] + 1 /\ server[m] \in Nat
  BY <1>0, EditsTypes, Numbers
<1>3. Sent(e)' /\ server[m] # Deleted /\ server[m] <= server'[m] /\ server'[m] \in Nat \ {0}
  BY <1>1, <1>2 DEF Sent, Deleted, Alive, Versions, Bounds
<1>4. SentInv'
  BY <1>1, <1>2, <1>3, SentGrows DEF PathInv
<1>5. Range(wire') = Range(wire) \cup {e}
  BY <1>1, <1>2, Appended
<1>6. \A n \in Messages : Reaches(n)'
  <2>1. Reaches(m)'
    BY <1>1, <1>5 DEF PathInv, Reaches, Comes, Came, Seen, Passed
  <2>2. \A n \in Messages : n # m => Reaches(n)'
    BY <1>1, <1>5, ReachesGrows DEF PathInv
  <2> QED  BY <2>1, <2>2
<1> QED  BY <1>4, <1>6 DEF PathInv

LEMMA DeletesPath ==
  ASSUME Bounds, TypeOK, ServerInv, PathInv, NEW m \in Messages, ServerDeletes(m)
  PROVE  PathInv'
<1> DEFINE e == [type |-> "delete", msg |-> m]
<1>1. /\ Alive(m) /\ wire' = Append(wire, e) /\ UNCHANGED <<feed, poll, lru, mirror, missed>>
      /\ \A n \in Messages : server'[n] = IF n = m THEN Deleted ELSE server[n]
  BY DeletesServer DEF ServerDeletes, polling
<1>2. e \in Update /\ e.msg = m /\ e.type = "delete" /\ server[m] \in Nat
  BY Numbers DEF Update
<1> HIDE DEF e
<1>3. Sent(e)' /\ server[m] # Deleted /\ server[m] <= server'[m] /\ server'[m] \in Nat \ {0}
  BY <1>1, <1>2 DEF Sent, Deleted, Alive, Versions, Bounds
<1>4. SentInv'
  BY <1>1, <1>2, <1>3, SentGrows DEF PathInv
<1>5. Range(wire') = Range(wire) \cup {e}
  BY <1>1, <1>2, Appended
<1>6. \A n \in Messages : Reaches(n)'
  <2>1. Reaches(m)'
    BY <1>1 DEF Reaches, Alive, Deleted, Versions, Bounds
  <2>2. \A n \in Messages : n # m => Reaches(n)'
    BY <1>1, <1>5, ReachesGrows DEF PathInv
  <2> QED  BY <2>1, <2>2
<1> QED  BY <1>4, <1>6 DEF PathInv

LEMMA LostPath ==
  ASSUME Bounds, TypeOK, PathInv, UpdateLost
  PROVE  PathInv'
<1>1. /\ wire # <<>> /\ missed' = missed \cup {Head(wire).msg} /\ wire' = Tail(wire)
      /\ UNCHANGED <<server, lru, feed, mirror, poll>>
  BY DEF UpdateLost, polling
<1>2. Range(wire) = {Head(wire)} \cup Range(wire')
  BY <1>1, WireHead
<1>3. SentInv'
  BY <1>1, <1>2 DEF PathInv, SentInv, Sent, Seen
<1>4. \A m \in Messages : Reaches(m)'
  BY <1>1, <1>2 DEF PathInv, Reaches, Alive, Comes, Came, Passed, Seen
<1> QED  BY <1>3, <1>4 DEF PathInv

(* What the wire says of a message is offered to the filter.               *)
LEMMA OfferPath ==
  ASSUME Bounds, TypeOK, PathInv, NEW e \in Update, Sent(e), server[e.msg] # 0,
         e.type = "new", Duplicate(e.msg) \/ FirstTime(e),
         UNCHANGED <<server, mirror, poll>>, Range(wire') \subseteq Range(wire),
         Range(wire) \subseteq Range(wire') \cup {e}
  PROVE  PathInv'
<1>0. Known(e) \/ First(e)
  BY Offered
<1>1. \A k : Seen(k)' => Seen(k) \/ k = e.msg
  BY <1>0 DEF Known, First
<1>2. /\ Range(feed) \subseteq Range(feed') /\ Range(feed') \subseteq Range(feed) \cup {e}
      /\ missed \subseteq missed'
  BY <1>0 DEF Known, First
<1>3. SentInv'
  <2>1. \A u \in Range(wire') \cup Range(feed') : Sent(u)'
    BY <1>2 DEF PathInv, SentInv, Sent
  <2>2. \A m \in Messages : Seen(m)' => server'[m] # 0
    BY <1>1 DEF PathInv, SentInv
  <2> QED  BY <2>1, <2>2 DEF PathInv, SentInv
<1>4. ASSUME NEW m \in Messages PROVE Reaches(m)'
  <2>1. Reaches(m)
    BY DEF PathInv
  <2>2. CASE m # e.msg
    BY <1>1, <1>2, <2>1, <2>2 DEF Reaches, Alive, Comes, Came, Passed
  <2>3. CASE m = e.msg /\ Known(e)
    BY <1>2, <2>1, <2>3 DEF Known, Reaches, Alive, Comes, Came, Passed
  <2>4. CASE m = e.msg /\ First(e)
    <3>1. CASE Range(feed') = Range(feed) \cup {e}
      <4>1. Came(m)'
        BY <2>4, <3>1 DEF Came
      <4> QED  BY <4>1 DEF Reaches
    <3>2. CASE missed' = missed \cup {e.msg}
      BY <2>4, <3>2 DEF Reaches
    <3> QED  BY <2>4, <3>1, <3>2 DEF First
  <2> QED  BY <1>0, <2>2, <2>3, <2>4
<1> QED  BY <1>3, <1>4 DEF PathInv

LEMMA DispatchPath ==
  ASSUME Bounds, TypeOK, PathInv, Dispatch
  PROVE  PathInv'
<1> DEFINE e == Head(wire)
<1>1. wire # <<>> /\ wire' = Tail(wire) /\ UNCHANGED <<server, mirror, poll>>
  BY DEF Dispatch
<1>2. e \in Update /\ e \in Range(wire) /\ Range(wire) = {e} \cup Range(wire')
  BY <1>1, WireHead
<1>3. \/ e.type = "new" /\ (Duplicate(e.msg) \/ FirstTime(e))
      \/ e.type # "new" /\ Publish(e) /\ UNCHANGED lru
  BY DEF Dispatch
<1> HIDE DEF e
<1>4. Sent(e) /\ server[e.msg] # 0
  BY <1>2, WhatWasSent DEF PathInv
<1>5. CASE e.type = "new" /\ (Duplicate(e.msg) \/ FirstTime(e))
  BY <1>1, <1>2, <1>4, <1>5, OfferPath
<1>6. CASE e.type # "new" /\ Publish(e) /\ UNCHANGED lru
  <2>1. /\ Range(feed) \subseteq Range(feed') /\ Range(feed') \subseteq Range(feed) \cup {e}
        /\ missed \subseteq missed'
    BY <1>2, <1>6, Published
  <2>2. SentInv'
    BY <1>1, <1>2, <1>4, <1>6, <2>1 DEF PathInv, SentInv, Sent, Seen
  <2>3. \A m \in Messages : Reaches(m)'
    BY <1>1, <1>2, <1>6, <2>1 DEF PathInv, Reaches, Alive, Comes, Came, Seen, Passed
  <2> QED  BY <2>2, <2>3 DEF PathInv
<1> QED  BY <1>3, <1>5, <1>6

(* What a poll took through the filter is held by it until it is published. *)
LEMMA FiltersPath ==
  ASSUME Bounds, TypeOK, PathInv, PollFilters
  PROVE  PathInv'
<1>0. PICK k : k = <<poll.chat, Newer>>
  OBVIOUS
<1>1. /\ poll # Nothing /\ poll.passed = 0 /\ Newer \in DOMAIN poll.todo /\ k \in Messages
      /\ poll' \in Poll /\ poll'.chat = poll.chat
      /\ DOMAIN poll'.todo \subseteq DOMAIN poll.todo
      /\ \A i \in DOMAIN poll'.todo : poll'.todo[i] = poll.todo[i]
      /\ \/ Seen(k) /\ Refresh(k) /\ poll'.passed = 0
         \/ /\ ~Seen(k) /\ Remember(k) /\ poll'.passed = Newer /\ poll'.todo = poll.todo
  BY <1>0, PollAsks
<1>2. UNCHANGED <<server, wire, feed, mirror, missed>>
  BY DEF PollFilters
<1>3. \A m : Seen(m)' => Seen(m) \/ (m = k /\ poll'.passed = Newer)
  BY <1>1, SeenAgain, SeenFirst
<1>4. server[k] # 0
  <2>1. poll.todo[Newer] <= server[<<poll.chat, Newer>>] /\ poll.todo[Newer] \in Versions
    BY <1>1, PollIs DEF PathInv, SentInv
  <2> QED  BY <1>0, <1>1, <2>1, Numbers DEF Versions
<1>5. SentInv'
  <2>1. \A m \in Messages : Seen(m)' => server'[m] # 0
    BY <1>2, <1>3, <1>4 DEF PathInv, SentInv
  <2>2. \A i \in DOMAIN poll'.todo : poll'.todo[i] <= server'[<<poll'.chat, i>>]
    BY <1>1, <1>2 DEF PathInv, SentInv
  <2>3. poll'.passed \in DOMAIN poll'.todo \cup {0}
    BY <1>1
  <2>4. \A u \in Range(wire') \cup Range(feed') : Sent(u)'
    BY <1>2 DEF PathInv, SentInv, Sent
  <2> QED  BY <2>1, <2>2, <2>3, <2>4 DEF SentInv
<1>6. ASSUME NEW m \in Messages PROVE Reaches(m)'
  <2>1. Reaches(m) /\ ~Passed(m)
    BY <1>1 DEF PathInv, Passed
  <2>2. CASE Seen(m)' => Seen(m)
    BY <1>2, <2>1, <2>2 DEF Reaches, Alive, Comes, Came
  <2>3. CASE m = k /\ poll'.passed = Newer
    <3>1. Newer # 0 /\ poll' # Nothing
      <4>1. Newer \in Ids
        BY <1>1, PollIs
      <4>2. Nothing \notin Poll
        BY DEF Nothing, Poll
      <4> QED  BY <1>1, <4>1, <4>2 DEF Ids
    <3>2. Passed(m)'
      BY <1>0, <1>1, <2>3, <3>1 DEF Passed
    <3> QED  BY <3>2 DEF Reaches
  <2> QED  BY <1>3, <2>2, <2>3
<1> QED  BY <1>5, <1>6 DEF PathInv

LEMMA CopyWasSent ==
  ASSUME Bounds, TypeOK, SentInv, poll # Nothing, poll.passed # 0
  PROVE  /\ Copy.type = "new" /\ Copy.msg = <<poll.chat, poll.passed>> /\ Copy.msg \in Messages
         /\ Copy.v = poll.todo[poll.passed] /\ Copy.v \in Versions
         /\ Sent(Copy) /\ server[Copy.msg] # 0 /\ \A m : Passed(m) <=> m = Copy.msg
<1>1. poll.passed \in DOMAIN poll.todo
  BY DEF SentInv
<1>2. poll.todo[poll.passed] \in Versions /\ <<poll.chat, poll.passed>> \in Messages
  BY <1>1, PollIs DEF Messages
<1>3. poll.todo[poll.passed] <= server[<<poll.chat, poll.passed>>]
  BY <1>1 DEF SentInv
<1>4. /\ Copy.type = "new" /\ Copy.msg = <<poll.chat, poll.passed>> /\ Copy.v = poll.todo[poll.passed]
  BY DEF Copy
<1>5. \A m : Passed(m) <=> m = Copy.msg
  BY <1>4 DEF Passed
<1> QED  BY <1>2, <1>3, <1>4, <1>5, Numbers DEF Sent, Versions

LEMMA PublishesPath ==
  ASSUME Bounds, TypeOK, PathInv, PollPublishes
  PROVE  PathInv'
<1>0. PICK e : e = Copy
  OBVIOUS
<1>1. /\ poll # Nothing /\ poll.passed # 0 /\ e \in Update /\ Publish(e)
      /\ poll'.chat = poll.chat /\ poll'.passed = 0
      /\ DOMAIN poll'.todo \subseteq DOMAIN poll.todo
      /\ \A i \in DOMAIN poll'.todo : poll'.todo[i] = poll.todo[i]
  BY <1>0, PollOffers DEF PathInv
<1>2. UNCHANGED <<server, wire, lru, mirror>>
  BY DEF PollPublishes
<1>3. Sent(e) /\ server[e.msg] # 0 /\ e.type = "new" /\ \A m : Passed(m) <=> m = e.msg
  BY <1>0, <1>1, CopyWasSent DEF PathInv
<1>4. /\ missed \subseteq missed'
      /\ \/ Range(feed') = Range(feed) \cup {e}
         \/ feed' = feed /\ missed' = missed \cup {e.msg}
  BY <1>1, Published
<1>5. SentInv'
  <2>1. \A u \in Range(wire') \cup Range(feed') : Sent(u)'
    BY <1>2, <1>3, <1>4 DEF PathInv, SentInv, Sent
  <2>2. \A i \in DOMAIN poll'.todo : poll'.todo[i] <= server'[<<poll'.chat, i>>]
    BY <1>1, <1>2 DEF PathInv, SentInv
  <2>3. \A m \in Messages : Seen(m)' => server'[m] # 0
    BY <1>2 DEF PathInv, SentInv, Seen
  <2> QED  BY <1>1, <2>1, <2>2, <2>3 DEF SentInv
<1>6. ASSUME NEW m \in Messages PROVE Reaches(m)'
  <2>1. Reaches(m)
    BY DEF PathInv
  <2>2. CASE m # e.msg
    BY <1>2, <1>3, <1>4, <2>1, <2>2 DEF Reaches, Alive, Comes, Came, Seen
  <2>3. CASE m = e.msg /\ Range(feed') = Range(feed) \cup {e}
    <3>1. Came(m)'
      BY <1>3, <2>3 DEF Came
    <3> QED  BY <3>1 DEF Reaches
  <2>4. CASE m = e.msg /\ missed' = missed \cup {e.msg}
    BY <2>4 DEF Reaches
  <2> QED  BY <1>4, <2>2, <2>3, <2>4
<1> QED  BY <1>5, <1>6 DEF PathInv

LEMMA PersistPath ==
  ASSUME Bounds, TypeOK, PathInv, Persist
  PROVE  PathInv'
<1> DEFINE e == Head(feed)
<1>1. /\ feed # <<>> /\ e.type # "delete" /\ feed' = Tail(feed)
      /\ mirror' = [mirror EXCEPT ![e.msg] = e.v]
      /\ UNCHANGED <<server, wire, lru, poll, missed>>
  BY DEF Persist, polling
<1>2. e \in Update /\ e \in Range(feed) /\ Range(feed) = {e} \cup Range(feed')
  BY <1>1, FeedHead
<1> HIDE DEF e
<1>3. e.msg \in Messages /\ e.v # 0
  BY <1>1, <1>2, WhatWasSent DEF PathInv
<1>4. \A m \in Messages : mirror'[m] = IF m = e.msg THEN e.v ELSE mirror[m]
  BY <1>1, <1>3 DEF TypeOK
<1>5. SentInv'
  BY <1>1, <1>2 DEF PathInv, SentInv, Sent, Seen
<1>6. \A m \in Messages : Reaches(m)'
  BY <1>1, <1>2, <1>3, <1>4 DEF PathInv, Reaches, Alive, Comes, Came, Passed, Seen
<1> QED  BY <1>5, <1>6 DEF PathInv

(* A deletion takes no message that the server has.                        *)
LEMMA ForgetPath ==
  ASSUME Bounds, TypeOK, ServerInv, PathInv, Forget
  PROVE  PathInv'
<1> DEFINE e == Head(feed)
           gone == Addressed(e.msg)
<1>1. /\ feed # <<>> /\ e.type = "delete" /\ feed' = Tail(feed)
      /\ mirror' = [m \in Messages |-> IF m \in gone THEN 0 ELSE mirror[m]]
      /\ UNCHANGED <<server, wire, lru, poll, missed>>
  BY DEF Forget, polling
<1>2. e \in Update /\ e \in Range(feed) /\ Range(feed) = {e} \cup Range(feed')
  BY <1>1, FeedHead
<1> HIDE DEF e
<1>3. e.msg \in Messages /\ Sent(e) /\ server[e.msg] # 0
  BY <1>2, WhatWasSent DEF PathInv
<1>4. server[e.msg] = Deleted
  BY <1>1, <1>3 DEF Sent
<1>5. ASSUME NEW m \in Messages, m \in gone PROVE ~Alive(m)
  <2>1. /\ e.msg[1] \in Chats /\ e.msg[2] \in Ids /\ e.msg = <<e.msg[1], e.msg[2]>>
        /\ m[1] \in Chats /\ m = <<m[1], m[2]>>
    BY <1>3, MessageIs
  <2>2. m = e.msg \/ (m[2] = e.msg[2] /\ Numbering(m[1]) = Numbering(e.msg[1]))
    BY <1>5, <2>1 DEF Addressed, ChatOf, Numbering
  <2>3. server[m] # 0 => m = e.msg
    BY <1>3, <2>2 DEF ServerInv
  <2> QED  BY <1>4, <2>3 DEF Alive, Versions, Deleted, Bounds
<1> HIDE DEF gone
<1>6. SentInv'
  BY <1>1, <1>2 DEF PathInv, SentInv, Sent, Seen
<1>7. \A m \in Messages : Alive(m) => mirror'[m] = mirror[m]
  BY <1>1, <1>5
<1>8. \A m \in Messages : Reaches(m)'
  BY <1>1, <1>2, <1>7 DEF PathInv, Reaches, Alive, Comes, Came, Passed, Seen
<1> QED  BY <1>6, <1>8 DEF PathInv

LEMMA FetchesPath ==
  ASSUME Bounds, TypeOK, PathInv, NEW c \in Chats, PollFetches(c)
  PROVE  PathInv'
<1>1. /\ poll = Nothing /\ poll'.chat = c /\ poll'.passed = 0
      /\ \A i \in DOMAIN poll'.todo : poll'.todo[i] = server[<<c, i>>]
      /\ DOMAIN poll'.todo \subseteq OnServer(c)
      /\ UNCHANGED <<server, wire, lru, feed, mirror, missed>>
  BY DEF PollFetches
<1>2. \A i \in OnServer(c) : server[<<c, i>>] \in Nat
  BY Numbers DEF OnServer
<1>3. \A i \in DOMAIN poll'.todo : poll'.todo[i] <= server'[<<poll'.chat, i>>]
  BY <1>1, <1>2
<1> QED  BY <1>1, <1>3 DEF PathInv, SentInv, Sent, Seen, Reaches, Alive, Comes, Came, Passed

LEMMA SavedPath ==
  ASSUME Bounds, TypeOK, PathInv, HistorySaved
  PROVE  PathInv'
<1>1. \A m \in Messages : mirror[m] # 0 => mirror'[m] # 0
  BY SavedTypes
<1>2. UNCHANGED <<server, wire, lru, feed, poll, missed>>
  BY DEF HistorySaved, polling
<1> QED  BY <1>1, <1>2 DEF PathInv, SentInv, Sent, Seen, Reaches, Alive, Comes, Came, Passed

LEMMA NextPath == ASSUME Bounds, TypeOK, ServerInv, PathInv, Next PROVE PathInv'
<1>1. CASE \E c \in Chats : ServerSends(c) \/ PollFetches(c)
  BY <1>1, SendsPath, FetchesPath
<1>2. CASE \E c \in Chats : DialogsSynced(c) \/ HistoryFetched(c) \/ VerdictExpires(c)
  <2>1. UNCHANGED <<server, wire, lru, feed, mirror, poll, missed>>
    BY <1>2 DEF DialogsSynced, HistoryFetched, VerdictExpires, polling
  <2> QED  BY <2>1 DEF PathInv, SentInv, Sent, Seen, Reaches, Alive, Comes, Came, Passed
<1>3. CASE \E m \in Messages : ServerEdits(m) \/ ServerDeletes(m)
  BY <1>3, EditsPath, DeletesPath
<1>4. CASE PollAdvances
  <2>1. poll.passed = 0 /\ poll' = Nothing /\ UNCHANGED <<server, wire, lru, feed, mirror, missed>>
    BY <1>4 DEF PollAdvances
  <2> QED  BY <2>1 DEF PathInv, SentInv, Sent, Seen, Reaches, Alive, Comes, Came, Passed
<1>5. CASE UpdateLost \/ Dispatch \/ LiveStep \/ PollFilters \/ PollPublishes \/ HistorySaved
  BY <1>5, LostPath, DispatchPath, PersistPath, ForgetPath, FiltersPath, PublishesPath, SavedPath
     DEF LiveStep
<1> QED  BY <1>1, <1>2, <1>3, <1>4, <1>5 DEF Next, PollStep

LEMMA PathsInit == ASSUME Bounds, Init PROVE PathsInv
<1>1. TypeOK
  BY InitTypes
<1>2. Range(<<>>) = {}
  BY DEF Range
<1>3. \A m \in Messages : server[m] = 0
  BY DEF Init
<1>4. ServerInv
  BY <1>3 DEF ServerInv, Alive, Versions
<1>5. wire = <<>> /\ feed = <<>> /\ poll = Nothing /\ \A m : ~Seen(m)
  BY DEF Init, Seen
<1>6. SentInv
  BY <1>2, <1>5 DEF SentInv
<1>7. \A m \in Messages : Reaches(m)
  BY <1>3 DEF Reaches, Alive, Versions
<1> QED  BY <1>1, <1>4, <1>6, <1>7 DEF PathsInv

LEMMA NextPaths == ASSUME Bounds, PathsInv, [Next]_vars PROVE PathsInv'
<1>1. CASE Next
  BY <1>1, NextTypes, NextServer, NextPath DEF PathsInv, PathInv
<1>2. CASE UNCHANGED vars
  BY <1>2 DEF PathsInv, TypeOK, ServerInv, SentInv, Reaches, Sent, Seen, Alive, Comes, Came, Passed, Used,
     vars, polling, history
<1> QED  BY <1>1, <1>2

LEMMA PathsMiss == ASSUME PathsInv PROVE TypeOK /\ NothingMissing
<1>1. ASSUME Settled, NEW m \in Messages \ missed, Alive(m) PROVE mirror[m] # 0
  <2>1. Range(<<>>) = {}
    BY DEF Range
  <2> QED  BY <1>1, <2>1 DEF PathsInv, Reaches, Comes, Came, Passed, Settled
<1> QED  BY <1>1 DEF PathsInv, NothingMissing

-----------------------------------------------------------------------------
(***************************************************************************)
(* Last words, as queues grow and are handled.                             *)
(***************************************************************************)
LEMMA FirstWord ==
  ASSUME NEW v, NEW m, NEW s
  PROVE  LastWord(v, <<>>, m, s) <=> v \in {0, s}
BY DEF LastWord

LEMMA TheLastWord ==
  ASSUME NEW S, NEW q \in Seq(S), NEW e \in S, NEW v, NEW s, Right(e, s)
  PROVE  LastWord(v, Append(q, e), e.msg, s)
<1> DEFINE t == Append(q, e)
<1>1. Len(t) = Len(q) + 1 /\ Len(q) \in Nat /\ t[Len(q) + 1] = e
  OBVIOUS
<1> HIDE DEF t
<1>2. Len(t) \in 1 .. Len(t) /\ t[Len(t)] = e /\ \A j \in Len(t) + 1 .. Len(t) : t[j].msg # e.msg
  BY <1>1
<1>3. LastWord(v, t, e.msg, s)
  BY <1>2 DEF LastWord
<1> QED  BY <1>3 DEF t

LEMMA AnotherWord ==
  ASSUME NEW S, NEW q \in Seq(S), NEW e \in S, NEW v, NEW m, NEW s,
         e.msg # m, LastWord(v, q, m, s)
  PROVE  LastWord(v, Append(q, e), m, s)
<1> DEFINE t == Append(q, e)
<1>1. Len(t) = Len(q) + 1 /\ Len(q) \in Nat /\ t[Len(q) + 1] = e /\ \A i \in 1 .. Len(q) : t[i] = q[i]
  OBVIOUS
<1> HIDE DEF t
<1>2. \A j \in 1 .. Len(t) : j \in 1 .. Len(q) \/ t[j] = e
  BY <1>1
<1>3. CASE v \in {0, s} /\ \A j \in 1 .. Len(q) : q[j].msg # m
  <2>1. \A j \in 1 .. Len(t) : t[j].msg # m
    BY <1>1, <1>2, <1>3
  <2> QED  BY <1>3, <2>1 DEF LastWord, t
<1>4. ASSUME NEW i \in 1 .. Len(q), q[i].msg = m, Right(q[i], s),
             \A j \in i + 1 .. Len(q) : q[j].msg # m
      PROVE  LastWord(v, t, m, s)
  <2>1. i \in 1 .. Len(t) /\ t[i] = q[i]
    BY <1>1, <1>4
  <2>2. ASSUME NEW j \in i + 1 .. Len(t) PROVE t[j].msg # m
    <3>1. j \in i + 1 .. Len(q) \/ t[j] = e
      BY <1>1, <1>4, <2>2
    <3>2. CASE j \in i + 1 .. Len(q)
      <4>1. t[j] = q[j]
        BY <1>1, <1>4, <3>2
      <4> QED  BY <1>4, <3>2, <4>1
    <3> QED  BY <3>1, <3>2
  <2> QED  BY <1>4, <2>1, <2>2 DEF LastWord
<1> QED  BY <1>3, <1>4 DEF LastWord, t

LEMMA WordHandled ==
  ASSUME NEW S, NEW q \in Seq(S), q # <<>>, NEW v, NEW w, NEW m, NEW s, LastWord(v, q, m, s),
         Head(q).msg = m => (Right(Head(q), s) => w \in {0, s}),
         Head(q).msg # m => (v \in {0, s} => w \in {0, s})
  PROVE  LastWord(w, Tail(q), m, s)
<1> DEFINE t == Tail(q)
<1>1. Len(q) \in Nat /\ Len(q) > 0 /\ Len(t) = Len(q) - 1 /\ q[1] = Head(q)
      /\ \A i \in 1 .. Len(t) : t[i] = q[i + 1]
  OBVIOUS
<1> HIDE DEF t
<1>2. \A j \in 1 .. Len(t) : j + 1 \in 1 .. Len(q) /\ t[j] = q[j + 1]
  BY <1>1
<1>3. CASE v \in {0, s} /\ \A j \in 1 .. Len(q) : q[j].msg # m
  <2>1. \A j \in 1 .. Len(t) : t[j].msg # m
    BY <1>2, <1>3
  <2>2. w \in {0, s}
    BY <1>1, <1>3
  <2> QED  BY <2>1, <2>2 DEF LastWord, t
<1>4. ASSUME NEW i \in 1 .. Len(q), q[i].msg = m, Right(q[i], s),
             \A j \in i + 1 .. Len(q) : q[j].msg # m
      PROVE  LastWord(w, t, m, s)
  <2>1. CASE i = 1
    <3>1. w \in {0, s}
      BY <1>1, <1>4, <2>1
    <3>2. \A j \in 1 .. Len(t) : t[j].msg # m
      <4> TAKE j \in 1 .. Len(t)
      <4>1. j + 1 \in i + 1 .. Len(q)
        BY <1>1, <2>1
      <4> QED  BY <1>2, <1>4, <4>1
    <3> QED  BY <3>1, <3>2 DEF LastWord
  <2>2. CASE i # 1
    <3>1. i - 1 \in 1 .. Len(t) /\ t[i - 1] = q[i]
      <4>1. i - 1 \in 1 .. Len(t) /\ (i - 1) + 1 = i
        BY <1>1, <1>4, <2>2
      <4> QED  BY <1>2, <4>1
    <3>2. ASSUME NEW j \in (i - 1) + 1 .. Len(t) PROVE t[j].msg # m
      <4>1. j + 1 \in i + 1 .. Len(q) /\ j \in 1 .. Len(t)
        BY <1>1, <1>4, <3>2
      <4> QED  BY <1>2, <1>4, <4>1
    <3> QED  BY <1>4, <3>1, <3>2 DEF LastWord
  <2> QED  BY <2>1, <2>2
<1> QED  BY <1>3, <1>4 DEF LastWord, t

LEMMA OnlyWord ==
  ASSUME NEW S, NEW q \in Seq(S), q # <<>>, NEW v, NEW m, NEW s, LastWord(v, q, m, s),
         Head(q).msg = m, \A u \in Range(Tail(q)) : u.msg # m
  PROVE  Right(Head(q), s)
<1> DEFINE t == Tail(q)
<1>1. /\ Len(q) \in Nat /\ Len(q) > 0 /\ Len(t) = Len(q) - 1 /\ q[1] = Head(q)
      /\ \A i \in 1 .. Len(t) : t[i] = q[i + 1]
      /\ t \in Seq(S)
  OBVIOUS
<1>2. \A i \in 1 .. Len(t) : t[i] \in Range(t)
  BY <1>1, InQueue
<1> HIDE DEF t
<1>3. ASSUME NEW i \in 1 .. Len(q), q[i].msg = m PROVE i = 1
  <2> SUFFICES ASSUME i # 1 PROVE FALSE
    OBVIOUS
  <2>1. i - 1 \in 1 .. Len(t) /\ (i - 1) + 1 = i
    BY <1>1, <1>3
  <2>2. t[i - 1] = q[i]
    BY <1>1, <2>1
  <2> QED  BY <1>2, <1>3, <2>1, <2>2 DEF t
<1>4. 1 \in 1 .. Len(q)
  BY <1>1
<1> QED  BY <1>1, <1>3, <1>4 DEF LastWord

(* What the last word says is said by some update, when there is any.      *)
LEMMA SomeWord ==
  ASSUME NEW S, NEW q \in Seq(S), NEW v, NEW m, NEW s, LastWord(v, q, m, s),
         NEW u \in Range(q), u.msg = m
  PROVE  \E x \in Range(q) : x.msg = m /\ Right(x, s)
<1>1. DOMAIN q = 1 .. Len(q)
  OBVIOUS
<1>2. PICK j \in 1 .. Len(q) : q[j].msg = m
  BY <1>1 DEF Range
<1>3. PICK i \in 1 .. Len(q) : q[i].msg = m /\ Right(q[i], s)
  BY <1>2 DEF LastWord
<1> QED  BY <1>3, InQueue

-----------------------------------------------------------------------------
(***************************************************************************)
(* The filter, when it forgets nothing, and the wire.                      *)
(***************************************************************************)
LruInv == Cardinality(Range(lru)) = Len(lru)

LEMMA MessagesFinite == ASSUME Bounds PROVE IsFiniteSet(Messages) /\ Cardinality(Messages) \in Nat
<1>1. IsFiniteSet(Chats) /\ IsFiniteSet(Ids)
  BY FS_Interval DEF Bounds, Ids
<1>2. IsFiniteSet(Messages)
  BY <1>1, FS_Product DEF Messages
<1> QED  BY <1>2, FS_CardinalityType

LEMMA RoomLeft ==
  ASSUME Bounds, Remembers, TypeOK, LruInv, NEW m \in Messages, ~Seen(m)
  PROVE  Len(lru) < DedupCap /\ IsFiniteSet(Range(lru)) /\ m \notin Range(lru)
<1>1. Range(lru) \subseteq Messages /\ m \notin Range(lru)
  BY InQueue DEF TypeOK, Seen, Range
<1>2. IsFiniteSet(Messages \ {m}) /\ Cardinality(Messages \ {m}) = Cardinality(Messages) - 1
  BY MessagesFinite, FS_RemoveElement
<1>3. IsFiniteSet(Range(lru)) /\ Cardinality(Range(lru)) <= Cardinality(Messages \ {m})
  BY <1>1, <1>2, FS_Subset
<1>4. Cardinality(Messages) \in Nat /\ Cardinality(Messages) <= DedupCap /\ DedupCap \in Nat
  BY MessagesFinite DEF Remembers, Bounds
<1>5. Len(lru) \in Nat /\ Cardinality(Range(lru)) = Len(lru)
  BY DEF TypeOK, LruInv
<1> QED  BY <1>1, <1>2, <1>3, <1>4, <1>5

(* An offer that is not known is remembered, with all the rest.            *)
LEMMA Remembered ==
  ASSUME Bounds, Remembers, TypeOK, LruInv, NEW e \in Update, Duplicate(e.msg) \/ FirstTime(e)
  PROVE  /\ LruInv'
         /\ \/ Known(e)
            \/ /\ ~Seen(e.msg) /\ \A k : Seen(k)' <=> Seen(k) \/ k = e.msg
               /\ \/ feed' = Append(feed, e) /\ missed' = missed
                  \/ feed' = feed /\ missed' = missed \cup {e.msg}
<1>0. e.msg \in Messages
  BY UpdateIs
<1>1. CASE Duplicate(e.msg)
  <2>1. Seen(e.msg) /\ Refresh(e.msg) /\ feed' = feed /\ missed' = missed
    BY <1>1 DEF Duplicate
  <2>2. Len(lru') = Len(lru) /\ \A k : Seen(k)' <=> Seen(k)
    BY <2>1, SeenAgain
  <2>3. Range(lru') = Range(lru)
    <3>1. /\ \A k : Seen(k) <=> k \in Range(lru)
          /\ \A k : Seen(k)' <=> k \in Range(lru')
      BY DEF Seen, Range
    <3> QED  BY <2>2, <3>1
  <2> QED  BY <2>1, <2>2, <2>3 DEF Known, LruInv
<1>2. CASE FirstTime(e)
  <2>1. ~Seen(e.msg) /\ Remember(e.msg) /\ Publish(e)
    BY <1>2 DEF FirstTime
  <2>2. Len(lru) < DedupCap /\ IsFiniteSet(Range(lru)) /\ e.msg \notin Range(lru)
    BY <1>0, <2>1, RoomLeft
  <2>3. lru' = Append(lru, e.msg) /\ \A k : Seen(k)' <=> Seen(k) \/ k = e.msg
    BY <1>0, <2>1, <2>2, SeenFirst
  <2>4. Range(lru') = Range(lru) \cup {e.msg} /\ Len(lru') = Len(lru) + 1
    BY <1>0, <2>3, InQueue, AppendProperties DEF TypeOK
  <2>5. Cardinality(Range(lru) \cup {e.msg}) = Cardinality(Range(lru)) + 1
    BY <2>2, FS_AddElement
  <2>6. LruInv'
    BY <2>4, <2>5 DEF LruInv
  <2> QED  BY <2>1, <2>3, <2>6, Published
<1> QED  BY <1>1, <1>2

(* A poll's question is remembered too.                                    *)
LEMMA Asked ==
  ASSUME Bounds, Remembers, TypeOK, LruInv, NEW k \in Messages,
         (Seen(k) /\ Refresh(k)) \/ (~Seen(k) /\ Remember(k))
  PROVE  /\ LruInv'
         /\ Seen(k) => (\A m : Seen(m)' <=> Seen(m))
         /\ ~Seen(k) => (\A m : Seen(m)' <=> (Seen(m) \/ m = k))
<1>1. CASE Seen(k) /\ Refresh(k)
  <2>1. Len(lru') = Len(lru) /\ \A m : Seen(m)' <=> Seen(m)
    BY <1>1, SeenAgain
  <2>2. Range(lru') = Range(lru)
    <3>1. /\ \A m : Seen(m) <=> m \in Range(lru)
          /\ \A m : Seen(m)' <=> m \in Range(lru')
      BY DEF Seen, Range
    <3> QED  BY <2>1, <3>1
  <2> QED  BY <1>1, <2>1, <2>2 DEF LruInv
<1>2. CASE ~Seen(k) /\ Remember(k)
  <2>1. Len(lru) < DedupCap /\ IsFiniteSet(Range(lru)) /\ k \notin Range(lru)
    BY <1>2, RoomLeft
  <2>2. lru' = Append(lru, k) /\ \A m : Seen(m)' <=> Seen(m) \/ m = k
    BY <1>2, <2>1, SeenFirst
  <2>3. Range(lru') = Range(lru) \cup {k} /\ Len(lru') = Len(lru) + 1
    BY <2>2, InQueue, AppendProperties DEF TypeOK
  <2>4. Cardinality(Range(lru) \cup {k}) = Cardinality(Range(lru)) + 1
    BY <2>1, FS_AddElement
  <2> QED  BY <1>2, <2>2, <2>3, <2>4 DEF LruInv
<1> QED  BY <1>1, <1>2

LEMMA WireGrows ==
  ASSUME TypeOK, WireInv, NEW e \in Update, wire' = Append(wire, e),
         e.type = "new" => e.v = 1 /\ \A u \in Range(wire) : u.msg # e.msg
  PROVE  WireInv'
<1>1. PICK q, t : q = wire /\ t = wire'
  OBVIOUS
<1>2. q \in Seq(Update) /\ t = Append(q, e) /\ \A i \in 1 .. Len(q) : q[i] \in Range(q)
  BY <1>1, InQueue DEF TypeOK
<1>3. /\ Len(q) \in Nat /\ Len(t) = Len(q) + 1 /\ t[Len(q) + 1] = e
      /\ \A i \in 1 .. Len(q) : t[i] = q[i]
  BY <1>2
<1>4. Range(t) = Range(q) \cup {e}
  BY <1>2, InQueue
<1>5. ASSUME NEW i \in 1 .. Len(t), NEW j \in 1 .. Len(t), i < j, t[i].msg = t[j].msg
      PROVE  t[j].type # "new"
  <2>1. i \in 1 .. Len(q) /\ t[i] = q[i]
    BY <1>3, <1>5
  <2>2. CASE j = Len(q) + 1
    BY <1>1, <1>2, <1>3, <1>5, <2>1, <2>2
  <2>3. CASE j # Len(q) + 1
    <3>1. j \in 1 .. Len(q) /\ t[j] = q[j]
      BY <1>3, <2>3
    <3> QED  BY <1>1, <1>5, <2>1, <3>1 DEF WireInv
  <2> QED  BY <2>2, <2>3
<1>6. \A u \in Range(t) : u.type = "new" => u.v = 1
  BY <1>1, <1>4 DEF WireInv
<1> QED  BY <1>1, <1>5, <1>6 DEF WireInv

LEMMA WireShrinks ==
  ASSUME TypeOK, WireInv, wire # <<>>, wire' = Tail(wire)
  PROVE  /\ WireInv'
         /\ \A u \in Range(wire') : u.msg = Head(wire).msg => u.type # "new"
<1>1. PICK q, t : q = wire /\ t = wire'
  OBVIOUS
<1>2. q \in Seq(Update) /\ t = Tail(q) /\ q # <<>>
  BY <1>1 DEF TypeOK
<1>3. /\ Len(q) \in Nat /\ Len(q) > 0 /\ Len(t) = Len(q) - 1 /\ q[1] = Head(q)
      /\ t \in Seq(Update) /\ \A i \in 1 .. Len(t) : t[i] = q[i + 1]
  BY <1>2
<1>4. \A i \in 1 .. Len(t) : i + 1 \in 1 .. Len(q)
  BY <1>3
<1>5. ASSUME NEW i \in 1 .. Len(t), NEW j \in 1 .. Len(t), i < j, t[i].msg = t[j].msg
      PROVE  t[j].type # "new"
  <2>1. i + 1 < j + 1 /\ t[i] = q[i + 1] /\ t[j] = q[j + 1]
    BY <1>3, <1>5
  <2> QED  BY <1>1, <1>4, <1>5, <2>1 DEF WireInv
<1>6. ASSUME NEW u \in Range(t), u.msg = q[1].msg PROVE u.type # "new"
  <2>1. PICK i \in 1 .. Len(t) : u = t[i]
    <3>1. DOMAIN t = 1 .. Len(t)
      BY <1>3
    <3> QED  BY <3>1 DEF Range
  <2>2. 1 \in 1 .. Len(q) /\ 1 < i + 1 /\ i + 1 \in 1 .. Len(q) /\ q[i + 1] = u
    BY <1>3, <1>4, <2>1
  <2> QED  BY <1>1, <1>6, <2>2 DEF WireInv
<1>7. Range(t) \subseteq Range(q)
  BY <1>2, InQueue
<1>8. \A u \in Range(t) : u.type = "new" => u.v = 1
  BY <1>1, <1>7 DEF WireInv
<1>9. WireInv'
  BY <1>1, <1>5, <1>8 DEF WireInv
<1> QED  BY <1>1, <1>3, <1>6, <1>9

-----------------------------------------------------------------------------
(***************************************************************************)
(* The last word about a message is the server's.                          *)
(***************************************************************************)
FlatInv == load = Nothing /\ \A m \in Messages : mirror[m] # 0 => server[m] # 0
HeldInv == \A m : Passed(m) => Seen(m)
AgreeInv == \A m \in Messages : Agrees(m)

LEMMA NothingLoads == ASSUME TypeOK, Remembers, NEW c PROVE ~HistoryFetched(c)
<1>1. used["loads"] \in Nat /\ Limit["loads"] = 0
  BY DEF TypeOK, Kinds, Limit, Remembers
<1> QED  BY <1>1 DEF HistoryFetched, Spend

(* The server changes m and says so: all else is as it was.                *)
LEMMA AgreesGrow ==
  ASSUME Bounds, TypeOK, AgreeInv, NEW m \in Messages, NEW e \in Update, e.msg = m,
         wire' = Append(wire, e), UNCHANGED <<feed, lru, mirror, missed, poll, overtaken>>,
         \A n \in Messages : n # m => server'[n] = server[n],
         Right(e, server'[m]),
         IF e.type = "new" THEN ~Seen(m) ELSE server[m] # 0
  PROVE  AgreeInv'
<1>1. Range(wire') = Range(wire) \cup {e} /\ wire \in Seq(Update)
  BY Appended DEF TypeOK
<1>2. ASSUME NEW n \in Messages, n \notin missed \cup overtaken PROVE LastWord(0, wire', n, server'[n])
  <2>1. CASE n = m
    BY <1>1, <2>1, TheLastWord
  <2>2. CASE n # m
    <3>1. LastWord(0, wire, n, server[n])
      BY <1>2 DEF AgreeInv, Agrees
    <3> QED  BY <1>1, <2>2, <3>1, AnotherWord
  <2> QED  BY <2>1, <2>2
<1>3. ASSUME NEW n \in Messages, n \notin missed \cup overtaken, server'[n] # 0
      PROVE  Seen(n) \/ \E u \in Range(wire') : u.type = "new" /\ u.msg = n
  <2>1. CASE n = m /\ e.type = "new"
    BY <1>1, <2>1
  <2>2. CASE ~(n = m /\ e.type = "new")
    <3>1. server[n] # 0
      BY <1>3, <2>2
    <3> QED  BY <1>1, <1>3, <3>1 DEF AgreeInv, Agrees
  <2> QED  BY <2>1, <2>2
<1>4. ASSUME NEW n \in Messages, n \notin missed \cup overtaken, Seen(n), ~Changed(n)'
      PROVE  Heard(n)'
  <2>1. ~Changed(n) /\ ~(n = m /\ e.type # "new")
    BY <1>1, <1>4 DEF Changed
  <2>2. n # m
    BY <1>4, <2>1
  <2>3. Heard(n)
    BY <1>4, <2>1 DEF AgreeInv, Agrees
  <2> QED  BY <2>2, <2>3 DEF Heard, Passed
<1> QED  BY <1>2, <1>3, <1>4 DEF AgreeInv, Agrees, Seen

PushedInv == FlatInv /\ LruInv /\ HeldInv /\ WireInv /\ AgreeInv

LEMMA SendsPush ==
  ASSUME Bounds, PathsInv, PushedInv, NEW c \in Chats, ServerSends(c)
  PROVE  PushedInv'
<1>0. PICK m, e : /\ m = <<c, NextId(c)>>
                  /\ e = [type |-> "new", msg |-> m, v |-> 1, full |-> TRUE]
  OBVIOUS
<1>1. /\ m \in Messages /\ server[m] = 0 /\ wire' = Append(wire, e)
      /\ \A n \in Messages : server'[n] = IF n = m THEN 1 ELSE server[n]
      /\ UNCHANGED <<feed, lru, mirror, missed, load, poll, overtaken>>
  BY <1>0, SendsServer DEF ServerSends, history, polling, PathsInv
<1>2. e \in Update /\ e.msg = m /\ e.type = "new" /\ e.v = 1
  BY <1>0, <1>1, Numbers DEF Update, Versions, PathsInv
<1>3. ~Seen(m) /\ \A u \in Range(wire) : u.msg # m
  BY <1>1, NothingOf DEF PathsInv
<1>4. FlatInv' /\ LruInv' /\ HeldInv'
  BY <1>1 DEF PushedInv, FlatInv, LruInv, HeldInv, Passed, Seen
<1>5. WireInv'
  BY <1>1, <1>2, <1>3, WireGrows DEF PushedInv, PathsInv
<1>6. Right(e, server'[m])
  BY <1>1, <1>2 DEF Right
<1>7. AgreeInv'
  BY <1>1, <1>2, <1>3, <1>6, AgreesGrow DEF PushedInv, PathsInv
<1> QED  BY <1>4, <1>5, <1>7 DEF PushedInv

LEMMA ChangesPush ==
  ASSUME Bounds, PathsInv, PushedInv, NEW m \in Messages,
         ServerEdits(m) \/ ServerDeletes(m)
  PROVE  PushedInv'
<1>1. PICK e \in Update : /\ e.msg = m /\ e.type # "new" /\ wire' = Append(wire, e)
                          /\ Right(e, server'[m]) /\ server'[m] # 0
                          /\ \A n \in Messages : n # m => server'[n] = server[n]
  <2>1. CASE ServerEdits(m)
    <3>1. PICK e : e = [type |-> "edit", msg |-> m, v |-> server[m] + 1, full |-> TRUE]
      OBVIOUS
    <3>2. wire' = Append(wire, e) /\ \A n \in Messages : server'[n] = IF n = m THEN server[m] + 1 ELSE server[n]
      BY <2>1, <3>1, EditsServer DEF ServerEdits, PathsInv
    <3>3. e \in Update /\ server[m] + 1 \in Versions
      BY <2>1, <3>1, EditsTypes DEF PathsInv
    <3>4. Right(e, server'[m]) /\ server'[m] # 0
      BY <3>1, <3>2, <3>3 DEF Right, Versions
    <3> QED  BY <3>1, <3>2, <3>3, <3>4
  <2>2. CASE ServerDeletes(m)
    <3>1. PICK e : e = [type |-> "delete", msg |-> m]
      OBVIOUS
    <3>2. wire' = Append(wire, e) /\ \A n \in Messages : server'[n] = IF n = m THEN Deleted ELSE server[n]
      BY <2>2, <3>1, DeletesServer DEF ServerDeletes, PathsInv
    <3>3. e \in Update
      BY <3>1 DEF Update
    <3>4. Right(e, server'[m]) /\ server'[m] # 0
      BY <3>1, <3>2 DEF Right, Deleted, Bounds
    <3> QED  BY <3>1, <3>2, <3>3, <3>4
  <2> QED  BY <2>1, <2>2
<1>2. UNCHANGED <<feed, lru, mirror, missed, load, poll, overtaken>> /\ Alive(m)
  BY DEF ServerEdits, ServerDeletes, history, polling
<1>3. server[m] # 0
  BY <1>2 DEF Alive, Versions
<1>4. FlatInv' /\ LruInv' /\ HeldInv'
  BY <1>1, <1>2 DEF PushedInv, FlatInv, LruInv, HeldInv, Passed, Seen
<1>5. WireInv'
  BY <1>1, WireGrows DEF PushedInv, PathsInv
<1>6. AgreeInv'
  BY <1>1, <1>2, <1>3, AgreesGrow DEF PushedInv, PathsInv
<1> QED  BY <1>4, <1>5, <1>6 DEF PushedInv

LEMMA LostPush ==
  ASSUME Bounds, PathsInv, PushedInv, UpdateLost
  PROVE  PushedInv'
<1>1. /\ wire # <<>> /\ missed' = missed \cup {Head(wire).msg} /\ wire' = Tail(wire)
      /\ UNCHANGED <<server, lru, feed, mirror, load, poll, overtaken>>
  BY DEF UpdateLost, history, polling
<1>2. Range(wire) = {Head(wire)} \cup Range(wire') /\ wire \in Seq(Update)
  BY <1>1, WireHead DEF PathsInv, TypeOK
<1>3. FlatInv' /\ LruInv' /\ HeldInv' /\ WireInv'
  BY <1>1, WireShrinks DEF PushedInv, PathsInv, FlatInv, LruInv, HeldInv, Passed, Seen
<1>4. ASSUME NEW m \in Messages, m \notin (missed \cup overtaken)' PROVE Agrees(m)'
  <2>1. m \notin missed \cup overtaken /\ Head(wire).msg # m
    BY <1>1, <1>4
  <2>2. LastWord(0, wire, m, server[m])
    BY <2>1 DEF PushedInv, AgreeInv, Agrees
  <2>3. LastWord(0, wire', m, server'[m])
    BY <1>1, <1>2, <2>1, <2>2, WordHandled
  <2>4. Changed(m)' <=> Changed(m)
    BY <1>2, <2>1 DEF Changed
  <2> QED  BY <1>1, <1>2, <2>1, <2>3, <2>4 DEF PushedInv, AgreeInv, Agrees, Seen, Heard, Passed
<1>5. AgreeInv'
  BY <1>4 DEF AgreeInv, Agrees
<1> QED  BY <1>3, <1>5 DEF PushedInv

(* What is published last of a message, when it is right.                  *)
LEMMA FeedsRight ==
  ASSUME TypeOK, NEW e \in Update, NEW m, NEW s,
         feed' = Append(feed, e), mirror' = mirror,
         e.msg = m => Right(e, s),
         e.msg # m => LastWord(mirror[m], feed, m, s)
  PROVE  LastWord(mirror'[m], feed', m, s)
<1>1. feed \in Seq(Update)
  BY DEF TypeOK
<1>2. CASE e.msg = m
  BY <1>1, <1>2, TheLastWord
<1>3. CASE e.msg # m
  BY <1>1, <1>3, AnotherWord
<1> QED  BY <1>2, <1>3

LEMMA DispatchPush ==
  ASSUME Bounds, Remembers, PathsInv, PushedInv, Dispatch
  PROVE  PushedInv'
<1>0. PICK e : e = Head(wire)
  OBVIOUS
<1>1. wire # <<>> /\ wire' = Tail(wire) /\ UNCHANGED <<server, mirror, load, poll>> /\ TypeOK
  BY DEF Dispatch, history, PathsInv
<1>2. /\ e \in Update /\ e \in Range(wire) /\ Range(wire) = {e} \cup Range(wire')
      /\ wire \in Seq(Update) /\ e.msg \in Messages
  BY <1>0, <1>1, WireHead DEF TypeOK
<1>3. \/ e.type = "new" /\ (Duplicate(e.msg) \/ FirstTime(e))
      \/ e.type # "new" /\ Publish(e) /\ UNCHANGED lru
  BY <1>0 DEF Dispatch
<1>b. overtaken \subseteq overtaken' /\ (e.type # "new" /\ Passed(e.msg) => e.msg \in overtaken')
  BY <1>0 DEF Dispatch
<1>c. \A m : Passed(m)' <=> Passed(m)
  BY <1>1 DEF Passed
<1>4. WireInv' /\ \A u \in Range(wire') : u.msg = e.msg => u.type # "new"
  BY <1>0, <1>1, WireShrinks DEF PushedInv
\* What the filter and the bus do, in one.
<1>5. /\ LruInv'
      /\ \A k : Seen(k)' <=> Seen(k) \/ (k = e.msg /\ e.type = "new")
      /\ \/ feed' = feed /\ missed' = missed /\ e.type = "new" /\ Seen(e.msg)
         \/ feed' = Append(feed, e) /\ missed' = missed
         \/ feed' = feed /\ missed' = missed \cup {e.msg}
  <2>1. CASE e.type = "new" /\ (Duplicate(e.msg) \/ FirstTime(e))
    BY <1>1, <1>2, <2>1, Remembered DEF PushedInv, Known
  <2>2. CASE e.type # "new" /\ Publish(e) /\ UNCHANGED lru
    BY <1>1, <1>2, <2>2, Published DEF PushedInv, LruInv, Seen
  <2> QED  BY <1>3, <2>1, <2>2
<1>6. FlatInv' /\ HeldInv'
  BY <1>1, <1>5, <1>c DEF PushedInv, FlatInv, HeldInv
<1>7. ASSUME NEW m \in Messages, m \notin (missed \cup overtaken)' PROVE Agrees(m)'
  <2>1. m \notin missed \cup overtaken /\ Agrees(m)
    BY <1>5, <1>7, <1>b DEF PushedInv, AgreeInv
  <2>2. LastWord(0, wire, m, server[m])
    BY <2>1 DEF Agrees
  <2>3. LastWord(0, wire', m, server[m])
    BY <1>1, <1>2, <2>2, WordHandled
  <2>4. server[m] # 0 => Seen(m)' \/ \E u \in Range(wire') : u.type = "new" /\ u.msg = m
    BY <1>2, <1>5, <2>1 DEF Agrees
  <2>5. ASSUME Seen(m)', ~Changed(m)', Passed(m) PROVE poll.todo[poll.passed] = server[m]
    <3>1. e.msg = m => e.type = "new"
      BY <1>7, <1>b, <2>5
    <3>2. Seen(m) /\ ~Changed(m)
      BY <1>2, <2>5, <3>1 DEF Changed, PushedInv, HeldInv
    <3> QED  BY <2>1, <2>5, <3>2 DEF Agrees, Heard
  <2>6. ASSUME Seen(m)', ~Changed(m)', ~Passed(m) PROVE LastWord(mirror'[m], feed', m, server[m])
    <3>1. CASE m # e.msg
      <4>1. Seen(m) /\ ~Changed(m)
        BY <1>2, <1>5, <2>6, <3>1 DEF Changed
      <4>2. LastWord(mirror[m], feed, m, server[m])
        BY <2>1, <2>6, <4>1 DEF Agrees, Heard
      <4>3. CASE feed' = Append(feed, e)
        BY <1>1, <1>2, <3>1, <4>2, <4>3, FeedsRight
      <4>4. CASE feed' = feed
        BY <1>1, <4>2, <4>4
      <4> QED  BY <1>5, <4>3, <4>4
    <3>2. CASE m = e.msg
      <4>1. \A u \in Range(wire') : u.msg # m
        BY <1>4, <2>6, <3>2 DEF Changed
      <4>2. Right(e, server[m])
        BY <1>0, <1>1, <1>2, <2>2, <3>2, <4>1, OnlyWord
      <4>3. CASE feed' = Append(feed, e)
        BY <1>1, <1>2, <3>2, <4>2, <4>3, FeedsRight
      <4>4. CASE feed' = feed /\ e.type = "new" /\ Seen(e.msg)
        <5>1. ~Changed(m)
          BY <1>2, <2>6, <4>4 DEF Changed
        <5> QED  BY <1>1, <2>1, <2>6, <3>2, <4>4, <5>1 DEF Agrees, Heard
      <4> QED  BY <1>5, <1>7, <3>2, <4>3, <4>4
    <3> QED  BY <3>1, <3>2
  <2>7. Seen(m)' /\ ~Changed(m)' => Heard(m)'
    BY <1>1, <1>c, <2>5, <2>6 DEF Heard
  <2> QED  BY <1>1, <2>3, <2>4, <2>7 DEF Agrees
<1>8. AgreeInv'
  BY <1>7 DEF AgreeInv, Agrees
<1> QED  BY <1>4, <1>5, <1>6, <1>8 DEF PushedInv

(* A poll that is first takes the version a message was sent with through  *)
(* the filter, unless the wire has a later word of it.                     *)
LEMMA FiltersPush ==
  ASSUME Bounds, Remembers, PathsInv, PushedInv, PollFilters
  PROVE  PushedInv'
<1>0. PICK k : k = <<poll.chat, Newer>>
  OBVIOUS
<1>1. /\ poll # Nothing /\ poll.passed = 0 /\ Newer \in DOMAIN poll.todo /\ k \in Messages
      /\ poll'.chat = poll.chat /\ TypeOK
      /\ \/ Seen(k) /\ Refresh(k) /\ poll'.passed = 0
         \/ /\ ~Seen(k) /\ Remember(k) /\ poll'.passed = Newer /\ poll'.todo = poll.todo
  BY <1>0, PollAsks DEF PathsInv
<1>2. UNCHANGED <<server, wire, feed, mirror, load, missed, overtaken>>
  BY DEF PollFilters, history
<1>a. /\ LruInv' /\ (Seen(k) => (\A m : Seen(m)' <=> Seen(m)))
      /\ ~Seen(k) => (\A m : Seen(m)' <=> (Seen(m) \/ m = k))
  BY <1>1, Asked DEF PushedInv
<1>3. /\ LruInv'
      /\ \/ poll'.passed = 0 /\ \A m : Seen(m)' <=> Seen(m)
         \/ /\ ~Seen(k) /\ poll'.passed = Newer /\ poll'.todo = poll.todo
            /\ \A m : Seen(m)' <=> Seen(m) \/ m = k
  BY <1>1, <1>a
<1>4. poll.todo[Newer] \in Versions /\ poll.todo[Newer] <= server[k] /\ server[k] \in Nat /\ Newer # 0
  <2>1. poll.todo[Newer] <= server[<<poll.chat, Newer>>] /\ poll.todo[Newer] \in Versions /\ Newer \in Ids
    BY <1>1, PollIs DEF PathsInv, SentInv
  <2> QED  BY <1>0, <1>1, <2>1, Numbers DEF Ids
<1>5. \A m : ~Passed(m) /\ (Passed(m)' => m = k /\ poll'.passed = Newer)
  BY <1>0, <1>1 DEF Passed
<1>6. FlatInv' /\ WireInv' /\ HeldInv'
  BY <1>1, <1>2, <1>3, <1>4, <1>5 DEF PushedInv, FlatInv, WireInv, HeldInv
<1>7. ASSUME NEW m \in Messages, m \notin missed \cup overtaken PROVE Agrees(m)'
  <2>1. Agrees(m)
    BY DEF PushedInv, AgreeInv
  <2>2. Changed(m)' <=> Changed(m)
    BY <1>2 DEF Changed
  <2>3. ASSUME Seen(m)', ~Changed(m) PROVE Heard(m)'
    <3>1. CASE Seen(m)
      <4>1. ~Passed(m)' /\ LastWord(mirror[m], feed, m, server[m])
        BY <1>3, <1>4, <1>5, <1>7, <2>1, <2>3, <3>1 DEF Agrees, Heard
      <4> QED  BY <1>2, <4>1 DEF Heard
    <3>2. CASE ~Seen(m)
      <4>0. m = k /\ poll'.passed = Newer /\ poll'.todo = poll.todo
        BY <1>3, <2>3, <3>2
      <4>1. PICK u \in Range(wire) : u.type = "new" /\ u.msg = m
        BY <1>4, <1>7, <2>1, <3>2, <4>0 DEF Agrees, Versions
      <4>2. PICK x \in Range(wire) : x.msg = m /\ Right(x, server[m])
        BY <1>1, <1>7, <2>1, <4>1, SomeWord DEF Agrees, TypeOK
      <4>3. x.type = "new" /\ x.v = 1
        BY <2>3, <4>2 DEF Changed, PushedInv, WireInv
      <4>4. poll.todo[Newer] = server[m]
        BY <1>4, <4>0, <4>2, <4>3 DEF Right, Versions
      <4>5. Passed(m)'
        <5>1. poll' \in Poll /\ Nothing \notin Poll
          BY PollAsks DEF Nothing, Poll, PathsInv
        <5> QED  BY <1>0, <1>1, <1>4, <4>0, <5>1 DEF Passed
      <4> QED  BY <1>2, <4>0, <4>4, <4>5 DEF Heard
    <3> QED  BY <3>1, <3>2
  <2> QED  BY <1>2, <1>3, <1>7, <2>1, <2>2, <2>3 DEF Agrees
<1>8. AgreeInv'
  BY <1>2, <1>7 DEF AgreeInv, Agrees
<1> QED  BY <1>3, <1>6, <1>8 DEF PushedInv

(* What it publishes is right unless a change went before it.              *)
LEMMA PublishesPush ==
  ASSUME Bounds, Remembers, PathsInv, PushedInv, PollPublishes
  PROVE  PushedInv'
<1>0. PICK e : e = Copy
  OBVIOUS
<1>1. /\ poll # Nothing /\ poll.passed # 0 /\ e \in Update /\ Publish(e) /\ TypeOK /\ poll'.passed = 0
  BY <1>0, PollOffers DEF PathsInv
<1>2. UNCHANGED <<server, wire, lru, mirror, load, overtaken>>
  BY DEF PollPublishes, history
<1>3. e.type = "new" /\ e.v = poll.todo[poll.passed] /\ e.msg \in Messages /\ \A m : Passed(m) <=> m = e.msg
  BY <1>0, <1>1, CopyWasSent DEF PathsInv
<1>4. \/ feed' = Append(feed, e) /\ missed' = missed
      \/ feed' = feed /\ missed' = missed \cup {e.msg}
  BY <1>1, Published
<1>5. \A m : ~Passed(m)'
  BY <1>1 DEF Passed
<1>6. FlatInv' /\ LruInv' /\ HeldInv' /\ WireInv'
  BY <1>2, <1>5 DEF PushedInv, FlatInv, LruInv, HeldInv, WireInv
<1>7. ASSUME NEW m \in Messages, m \notin (missed \cup overtaken)' PROVE Agrees(m)'
  <2>1. m \notin missed \cup overtaken /\ Agrees(m)
    BY <1>2, <1>4, <1>7 DEF PushedInv, AgreeInv
  <2>2. Changed(m)' <=> Changed(m)
    BY <1>2 DEF Changed
  <2>3. ASSUME Seen(m), ~Changed(m) PROVE LastWord(mirror'[m], feed', m, server[m])
    <3>0. Heard(m)
      BY <2>1, <2>3 DEF Agrees
    <3>1. CASE m # e.msg
      <4>1. LastWord(mirror[m], feed, m, server[m])
        BY <1>3, <3>0, <3>1 DEF Heard
      <4>2. CASE feed' = Append(feed, e)
        BY <1>1, <1>2, <3>1, <4>1, <4>2, FeedsRight
      <4>3. CASE feed' = feed
        BY <1>2, <4>1, <4>3
      <4> QED  BY <1>4, <4>2, <4>3
    <3>2. CASE m = e.msg
      <4>1. Right(e, server[m])
        BY <1>3, <3>0, <3>2 DEF Heard, Right
      <4>2. feed' = Append(feed, e)
        BY <1>4, <1>7, <3>2
      <4> QED  BY <1>1, <1>2, <3>2, <4>1, <4>2, FeedsRight
    <3> QED  BY <3>1, <3>2
  <2>4. Seen(m)' /\ ~Changed(m)' => Heard(m)'
    BY <1>2, <1>5, <2>2, <2>3 DEF Heard, Seen
  <2> QED  BY <1>2, <2>1, <2>4 DEF Agrees, Seen
<1>8. AgreeInv'
  BY <1>7 DEF AgreeInv, Agrees
<1> QED  BY <1>6, <1>8 DEF PushedInv

(* LiveService does what the head of its feed says.                        *)
LEMMA HandledPush ==
  ASSUME TypeOK, AgreeInv, feed # <<>>, feed' = Tail(feed), UNCHANGED <<server, wire, lru, missed, poll, overtaken>>,
         \A m \in Messages :
            IF Head(feed).msg = m THEN Right(Head(feed), server[m]) => mirror'[m] \in {0, server[m]}
                                  ELSE mirror'[m] \in {0, mirror[m]}
  PROVE  AgreeInv'
<1>1. feed \in Seq(Update)
  BY DEF TypeOK
<1>2. ASSUME NEW m \in Messages, LastWord(mirror[m], feed, m, server[m])
      PROVE  LastWord(mirror'[m], feed', m, server[m])
  BY <1>1, <1>2, WordHandled
<1>3. \A m : Changed(m)' <=> Changed(m)
  BY DEF Changed
<1> QED  BY <1>2, <1>3 DEF AgreeInv, Agrees, Seen, Heard, Passed

LEMMA PersistPush ==
  ASSUME Bounds, PathsInv, PushedInv, Persist
  PROVE  PushedInv'
<1>0. PICK e : e = Head(feed)
  OBVIOUS
<1>1. /\ feed # <<>> /\ e.type # "delete" /\ feed' = Tail(feed)
      /\ mirror' = [mirror EXCEPT ![e.msg] = e.v] /\ TypeOK
      /\ UNCHANGED <<server, wire, lru, missed, load, poll, overtaken>>
  BY <1>0 DEF Persist, history, polling, PathsInv
<1>2. e \in Range(feed) /\ e.msg \in Messages
  BY <1>0, <1>1, FeedHead
<1>3. server[e.msg] # 0
  BY <1>2, WhatWasSent DEF PathsInv
<1>4. \A m \in Messages : mirror'[m] = IF m = e.msg THEN e.v ELSE mirror[m]
  BY <1>1, <1>2 DEF TypeOK
<1>5. FlatInv' /\ LruInv' /\ HeldInv' /\ WireInv'
  BY <1>1, <1>3, <1>4 DEF PushedInv, FlatInv, LruInv, HeldInv, Passed, Seen, WireInv
<1>6. \A m \in Messages :
         IF Head(feed).msg = m THEN Right(Head(feed), server[m]) => mirror'[m] \in {0, server[m]}
                               ELSE mirror'[m] \in {0, mirror[m]}
  BY <1>0, <1>1, <1>4 DEF Right
<1>7. AgreeInv'
  BY <1>1, <1>6, HandledPush DEF PushedInv
<1> QED  BY <1>5, <1>7 DEF PushedInv

LEMMA ForgetPush ==
  ASSUME Bounds, PathsInv, PushedInv, Forget
  PROVE  PushedInv'
<1> DEFINE gone == Addressed(Head(feed).msg)
<1>1. /\ feed # <<>> /\ feed' = Tail(feed) /\ TypeOK
      /\ mirror' = [m \in Messages |-> IF m \in gone THEN 0 ELSE mirror[m]]
      /\ UNCHANGED <<server, wire, lru, missed, load, poll, overtaken>>
  BY DEF Forget, history, polling, PathsInv
<1>2. Head(feed).msg \in Messages
  BY <1>1, FeedHead
<1>3. Head(feed).msg \in gone
  BY <1>2, MessageIs DEF Addressed, ChatOf
<1> HIDE DEF gone
<1>4. \A m \in Messages : mirror'[m] = IF m \in gone THEN 0 ELSE mirror[m]
  BY <1>1
<1>5. FlatInv' /\ LruInv' /\ HeldInv' /\ WireInv'
  BY <1>1, <1>4 DEF PushedInv, FlatInv, LruInv, HeldInv, Passed, Seen, WireInv
<1>6. \A m \in Messages :
         IF Head(feed).msg = m THEN Right(Head(feed), server[m]) => mirror'[m] \in {0, server[m]}
                               ELSE mirror'[m] \in {0, mirror[m]}
  BY <1>3, <1>4
<1>7. AgreeInv'
  BY <1>1, <1>6, HandledPush DEF PushedInv
<1> QED  BY <1>5, <1>7 DEF PushedInv

LEMMA StillPush ==
  ASSUME PushedInv, UNCHANGED <<server, wire, lru, feed, mirror, missed, load, overtaken>>,
         poll' = poll \/ \A m : ~Passed(m) /\ ~Passed(m)'
  PROVE  PushedInv'
<1>1. \A m : /\ Passed(m)' <=> Passed(m)
             /\ Passed(m) => poll' = poll
  BY DEF Passed
<1>2. \A m : Heard(m)' <=> Heard(m)
  BY <1>1 DEF Heard
<1> QED  BY <1>1, <1>2 DEF PushedInv, FlatInv, LruInv, HeldInv, WireInv, AgreeInv, Agrees, Changed, Seen

LEMMA NextPushed ==
  ASSUME Bounds, Remembers, PathsInv, PushedInv, [Next]_vars
  PROVE  PushedInv'
<1>1. CASE \E c \in Chats : ServerSends(c)
  BY <1>1, SendsPush
<1>2. CASE \E m \in Messages : ServerEdits(m) \/ ServerDeletes(m)
  BY <1>2, ChangesPush
<1>3. CASE \E c \in Chats : HistoryFetched(c)
  BY <1>3, NothingLoads DEF PathsInv
<1>4. CASE HistorySaved
  BY <1>4 DEF HistorySaved, PushedInv, FlatInv
<1>5. CASE \/ \E c \in Chats : DialogsSynced(c) \/ VerdictExpires(c)
           \/ UNCHANGED vars
  <2>1. UNCHANGED <<server, wire, lru, feed, mirror, missed, load, overtaken, poll>>
    BY <1>5 DEF DialogsSynced, VerdictExpires, history, polling, vars
  <2> QED  BY <2>1, StillPush
<1>6. CASE PollAdvances \/ \E c \in Chats : PollFetches(c)
  <2>1. /\ UNCHANGED <<server, wire, lru, feed, mirror, missed, load, overtaken>>
        /\ \A m : ~Passed(m) /\ ~Passed(m)'
    <3>1. CASE PollAdvances
      <4>1. poll.passed = 0 /\ poll' = Nothing
        BY <3>1 DEF PollAdvances
      <4> QED  BY <3>1, <4>1 DEF PollAdvances, history, Passed
    <3>2. CASE \E c \in Chats : PollFetches(c)
      <4>1. poll = Nothing /\ poll'.passed = 0
        BY <3>2 DEF PollFetches
      <4> QED  BY <3>2, <4>1 DEF PollFetches, history, Passed
    <3> QED  BY <1>6, <3>1, <3>2
  <2> QED  BY <2>1, StillPush
<1>7. CASE UpdateLost \/ Dispatch \/ LiveStep \/ PollFilters \/ PollPublishes
  BY <1>7, LostPush, DispatchPush, PersistPush, ForgetPush, FiltersPush, PublishesPush DEF LiveStep
<1> QED  BY <1>1, <1>2, <1>3, <1>4, <1>5, <1>6, <1>7 DEF Next, PollStep

LEMMA PushedInit == ASSUME Bounds, Init PROVE PushedInv
<1>1. Range(<<>>) = {} /\ Cardinality({}) = 0 /\ Len(<<>>) = 0
  BY FS_EmptySet DEF Range
<1>2. \A m \in Messages : server[m] = 0 /\ mirror[m] = 0
  BY DEF Init
<1>3. wire = <<>> /\ feed = <<>> /\ lru = <<>> /\ load = Nothing /\ \A m : ~Seen(m) /\ ~Passed(m)
  BY DEF Init, Seen, Passed
<1>4. FlatInv /\ LruInv /\ HeldInv
  BY <1>1, <1>2, <1>3 DEF FlatInv, LruInv, HeldInv
<1>6. WireInv
  <2>1. Range(wire) = {} /\ Len(wire) = 0
    BY <1>1, <1>3
  <2>2. 1 .. Len(wire) = {}
    BY <2>1
  <2> QED  BY <2>1, <2>2 DEF WireInv
<1>5. AgreeInv
  BY <1>2, <1>3, FirstWord DEF AgreeInv, Agrees
<1> QED  BY <1>4, <1>5, <1>6 DEF PushedInv

LEMMA PushedAgrees == ASSUME Bounds, PathsInv, PushedInv PROVE NothingStale
<1>1. ASSUME Settled, NEW m \in Messages \ (missed \cup overtaken) PROVE mirror[m] \in {0, server[m]}
  <2>1. wire = <<>> /\ feed = <<>> /\ Range(<<>>) = {} /\ ~Passed(m)
    BY <1>1 DEF Settled, Range, Passed
  <2>2. Agrees(m)
    BY DEF PushedInv, AgreeInv
  <2>3. CASE server[m] = 0
    BY <2>3 DEF PushedInv, FlatInv
  <2>4. CASE server[m] # 0
    <3>1. Seen(m) /\ ~Changed(m)
      BY <2>1, <2>2, <2>4 DEF Agrees, Changed
    <3> QED  BY <2>1, <2>2, <3>1, FirstWord DEF Agrees, Heard
  <2> QED  BY <2>3, <2>4
<1> QED  BY <1>1 DEF NothingStale
=============================================================================
