-------------------------------- MODULE Typing --------------------------------
(***************************************************************************)
(* Who is typing in the chat on screen (ui/app/typing.go): an indicator    *)
(* lives for typingTTL, a timer looks once a second while one is shown.    *)
(***************************************************************************)
EXTENDS Integers

CONSTANTS People, Here, There,   \* Here and There are two chats
          MaxNotices             \* bound

VARIABLES
    open,       \* the chat on screen
    typing,     \* App.typing, as [who, chat, live]
    sweeps,     \* timers running
    notices

typingVars == <<open, typing, sweeps, notices>>

BothChats == {Here, There}

TypeOK ==
    /\ open \in BothChats /\ sweeps \in 0 .. MaxNotices /\ notices \in 0 .. MaxNotices
    /\ typing \subseteq [who : People, chat : BothChats, live : BOOLEAN]

Init == open = Here /\ typing = {} /\ sweeps = 0 /\ notices = 0

-----------------------------------------------------------------------------
\* applyTyping: a sweep is armed by the first notification only.
ApplyTyping(p, c) ==
    /\ notices < MaxNotices /\ notices' = notices + 1
    /\ IF c # open THEN UNCHANGED <<typing, sweeps>>
       ELSE /\ typing' = {t \in typing : t.who # p} \cup {[who |-> p, chat |-> c, live |-> TRUE]}
            /\ sweeps' = IF typing = {} THEN sweeps + 1 ELSE sweeps
    /\ UNCHANGED open

\* typingTTL passes.
Expire(t) ==
    /\ t.live /\ typing' = (typing \ {t}) \cup {[t EXCEPT !.live = FALSE]}
    /\ UNCHANGED <<open, sweeps, notices>>

\* Mutant: a sweep is armed again only when it removed something.
SweepTyping_Once ==
    /\ sweeps > 0 /\ typing' = {t \in typing : t.live}
    /\ sweeps' = IF typing' = {} \/ typing' = typing THEN sweeps - 1 ELSE sweeps
    /\ UNCHANGED <<open, notices>>

\* sweepTyping runs again while somebody is left.
SweepTyping ==
    /\ sweeps > 0 /\ typing' = {t \in typing : t.live}
    /\ sweeps' = IF typing' = {} THEN sweeps - 1 ELSE sweeps
    /\ UNCHANGED <<open, notices>>

\* A pick clears the indicators, handleSearchJump does not.
SwitchChat(c) ==
    /\ c # open /\ open' = c /\ typing' \in {{}, typing}
    /\ UNCHANGED <<sweeps, notices>>

Next ==
    \/ SweepTyping
    \/ \E p \in People, c \in BothChats : ApplyTyping(p, c)
    \/ \E t \in typing : Expire(t)
    \/ \E c \in BothChats : SwitchChat(c)

Passes == \E t \in typing : Expire(t)
Spec == Init /\ [][Next]_typingVars /\ WF_typingVars(SweepTyping) /\ WF_typingVars(Passes)

-----------------------------------------------------------------------------
NobodyTypes == typing = {}

\* Nobody is left typing forever: whoever stops is taken off the line by a timer,
\* also when it was armed for somebody else (typing.go, sweepTyping).
TypingEnds == []<>NobodyTypes

-----------------------------------------------------------------------------
(* What the source says and the code does not do.  README.md names the     *)
(* instance that refutes each of these.                                    *)

\* "a second one would double the timers" (typing.go): a chat switch forgets who
\* types but not the timer.
OneSweep == sweeps <= 1

\* "the notification belongs to the conversation that was on screen" (typing.go).
TypingIsHere == \A t \in typing : t.chat = open
=============================================================================
