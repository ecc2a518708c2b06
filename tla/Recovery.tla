------------------------------- MODULE Recovery -------------------------------
(***************************************************************************)
(* A launch of lazytg from opening the database to closing it (app/wire.go,*)
(* cmd/tui.go, cmd/attach.go) and what it keeps of the update stream: the  *)
(* gotd update manager over the SQLite state rows (tg/updates.go,          *)
(* sqlite/state_repo.go), which resumes each box of messages from its last *)
(* stored pts, and LiveService, which writes what the bus hands it.        *)
(* External: gotd's manager and the server.                                *)
(***************************************************************************)
EXTENDS Integers, Sequences, Functions

CONSTANTS Account, Channels,     \* the account's own box of updates, and one per channel
          MaxPts,                \* bound: messages a box ever holds
          Buffer,                \* events.DefaultBufferSize
          MaxFaults              \* bound: sessions lost, launches ended, failures of a step

VARIABLES
    stage,      \* how far the launch is
    db,         \* the database is open
    workers,    \* goroutines of RunBackground
    attached,   \* AttachClient ran
    link,       \* the session: "down", "up", or "deaf" (up, but users.getSelf failed)
    manager,    \* updates.Manager: "new", "running", or "ran" (stopped, not yet reset)
    tracked,    \* boxes the running manager follows
    local,      \* their pts in memory
    stored,     \* the rows of state and channel_state, -1 without one
    hashes,     \* channels whose access hash is in the peers table
    head,       \* the server's pts
    feed,       \* LiveService's buffer on the bus
    seen,       \* UpdatesDispatcher's dedup cache
    mirror,     \* messages in the database
    lost,       \* ghost: messages the dispatcher or the server dropped
    base,       \* ghost: where a box began to be followed
    faults

launch == <<stage, db, workers, attached>>
session == <<link, manager, tracked, local>>
rows == <<stored, hashes, base>>
messages == <<feed, seen, mirror, lost>>
recoveryVars == <<launch, session, rows, messages, head, faults>>

Boxes == {Account} \cup Channels
Messages == Boxes \X (1 .. MaxPts)
Background == {"live", "watchers"}   \* the degradation detector and the size monitor
Building == <<"audit", "open", "guard", "keymap", "files", "dedup">>
Stages == Range(Building) \cup {"down", "built", "attaching", "interface", "quitting", "stopping"}

TypeOK ==
    /\ stage \in Stages /\ db \in BOOLEAN /\ attached \in BOOLEAN /\ workers \subseteq Background
    /\ link \in {"down", "up", "deaf"} /\ manager \in {"new", "running", "ran"}
    /\ tracked \subseteq Boxes /\ hashes \subseteq Channels
    /\ local \in [Boxes -> 0 .. MaxPts] /\ stored \in [Boxes -> -1 .. MaxPts]
    /\ head \in [Boxes -> 0 .. MaxPts] /\ base \in [Boxes -> 0 .. MaxPts]
    /\ feed \in Seq(Messages) /\ Len(feed) <= Buffer
    /\ seen \cup mirror \cup lost \subseteq Messages
    /\ faults \in 0 .. MaxFaults

Init ==
    /\ stage = "down" /\ db = FALSE /\ attached = FALSE /\ workers = {}
    /\ link = "down" /\ manager = "new" /\ tracked = {}
    /\ local = [b \in Boxes |-> 0] /\ base = [b \in Boxes |-> 0]
    /\ stored = [b \in Boxes |-> -1] /\ hashes = {}
    /\ head = [b \in Boxes |-> 0]
    /\ feed = <<>> /\ seen = {} /\ mirror = {} /\ lost = {} /\ faults = 0

Fault == faults < MaxFaults /\ faults' = faults + 1
Calm == UNCHANGED faults

\* Ends a run of the manager; the rows stay.
RunEnds(after) == manager' = after /\ tracked' = {} /\ local' = [b \in Boxes |-> 0]
Ran == IF manager = "running" THEN "ran" ELSE manager

-----------------------------------------------------------------------------
(* The launch: Build, RunBackground, attachTelegram, the interface.        *)

After(s) == LET i == CHOOSE i \in 1 .. Len(Building) : Building[i] = s
            IN  IF i = Len(Building) THEN "built" ELSE Building[i + 1]

Launch ==
    /\ stage = "down" /\ stage' = "audit" /\ Calm
    /\ UNCHANGED <<db, workers, attached, session, rows, messages, head>>

\* Build: the audit of the permissions, sqlite.Open, then what is built on it.
Build ==
    /\ stage \in Range(Building) /\ stage' = After(stage)
    /\ db' = (db \/ stage = "open") /\ Calm
    /\ UNCHANGED <<workers, attached, session, rows, messages, head>>

\* Mutant: a step that fails returns without closing the database.
BuildFails_LeavesOpen ==
    /\ stage \in Range(Building) /\ Fault /\ stage' = "down"
    /\ UNCHANGED <<db, workers, attached, session, rows, messages, head>>

BuildFails ==
    /\ stage \in Range(Building) /\ Fault /\ stage' = "down" /\ db' = FALSE
    /\ UNCHANGED <<workers, attached, session, rows, messages, head>>

RunBackground ==
    /\ stage = "built" /\ stage' = "attaching" /\ workers' = Background /\ Calm
    /\ UNCHANGED <<db, attached, session, rows, messages, head>>

\* attachTelegram: whatever fails on the way to a session opens the cache only.
AttachFails ==
    /\ stage = "attaching" /\ stage' = "interface" /\ link' = "down"
    /\ IF link = "down" THEN Calm ELSE Fault
    /\ RunEnds(Ran)
    /\ UNCHANGED <<db, workers, attached, rows, messages, head>>

AttachClient ==
    /\ stage = "attaching" /\ link # "down" /\ stage' = "interface" /\ attached' = TRUE /\ Calm
    /\ UNCHANGED <<db, workers, session, rows, messages, head>>

\* Mutant: the database is closed as soon as the interface ends.
Quit_AtOnce ==
    /\ stage = "interface" /\ Fault /\ stage' = "stopping" /\ db' = FALSE
    /\ UNCHANGED <<workers, attached, session, rows, messages, head>>

\* runTUI: cancelBG.  The session lives under the same context.
Quit ==
    /\ stage = "interface" /\ Fault /\ stage' = "quitting"
    /\ UNCHANGED <<db, workers, attached, session, rows, messages, head>>

\* bgDone: every goroutine of RunBackground has returned.
BackgroundDone ==
    /\ stage = "quitting" /\ workers = {} /\ stage' = "stopping" /\ db' = FALSE /\ Calm
    /\ UNCHANGED <<workers, attached, session, rows, messages, head>>

\* stopTelegram waits shutdownGrace for the run loop and gives up on it.
Exit ==
    /\ stage = "stopping" /\ stage' = "down" /\ attached' = FALSE /\ workers' = {} /\ Calm
    /\ link' = "down" /\ RunEnds("new")
    /\ feed' = <<>> /\ seen' = {}
    /\ UNCHANGED <<db, rows, mirror, lost, head>>

\* The process dies: what it held in memory is gone.
Crash ==
    /\ stage # "down" /\ Fault /\ stage' = "down" /\ db' = FALSE
    /\ workers' = {} /\ attached' = FALSE
    /\ link' = "down" /\ RunEnds("new")
    /\ feed' = <<>> /\ seen' = {} /\ lost' = lost \cup Range(feed)
    /\ UNCHANGED <<rows, mirror, head>>

Cancelled == stage \in {"quitting", "stopping"}

-----------------------------------------------------------------------------
(* The session and its update manager.                                     *)

\* Client.Run reached the server, the account is authorised.
SessionUp ==
    /\ link = "down" /\ (stage = "attaching" \/ (stage = "interface" /\ attached))
    /\ \/ link' = "up" /\ Calm
       \/ link' = "deaf" /\ Fault
    /\ UNCHANGED <<launch, manager, tracked, local, rows, messages, head>>

\* The session ends, and the manager's run with it.
SessionDown ==
    /\ link # "down" /\ link' = "down" /\ RunEnds(Ran)
    /\ IF Cancelled THEN Calm ELSE stage = "interface" /\ Fault
    /\ UNCHANGED <<launch, rows, messages, head>>

\* GetState and ForEachChannels: the boxes a run can resume.  Without a state row
\* it asks the server for the present one and stores it (SetState).
Resume(found) ==
    LET known == {c \in Channels : stored[c] # -1 /\ c \in hashes} IN
    /\ tracked' = {Account} \cup known
    /\ local' = [b \in Boxes |-> IF b = Account /\ ~found THEN head[b]
                                 ELSE IF b \in tracked' THEN stored[b] ELSE 0]
    /\ stored' = [stored EXCEPT ![Account] = local'[Account]]
    /\ base' = IF stored[Account] = -1 THEN [base EXCEPT ![Account] = head[Account]] ELSE base

\* Mutant: the manager is not reset, so its second run is refused.
RunManager_NoReset ==
    /\ link = "up" /\ manager = "new" /\ db /\ ~Cancelled /\ manager' = "running" /\ Calm
    /\ Resume(stored[Account] # -1)
    /\ UNCHANGED <<launch, link, hashes, messages, head>>

\* Mutant: the state row is looked up under an id it was not stored under.
RunManager_OtherId ==
    /\ link = "up" /\ manager # "running" /\ db /\ ~Cancelled /\ manager' = "running" /\ Calm
    /\ Resume(FALSE)
    /\ UNCHANGED <<launch, link, hashes, messages, head>>

\* RunGapRecovery: users.getSelf, Reset, Run.
RunManager ==
    /\ link = "up" /\ manager # "running" /\ db /\ ~Cancelled /\ manager' = "running" /\ Calm
    /\ Resume(stored[Account] # -1)
    /\ UNCHANGED <<launch, link, hashes, messages, head>>

Subscribed == "live" \in workers /\ ~Cancelled

\* UpdatesDispatcher.handle: once per message, and Bus.Publish never waits.
Handle(m) ==
    /\ seen' = seen \cup {m}
    /\ IF m \in seen THEN UNCHANGED <<feed, lost>>
       ELSE IF Subscribed /\ Len(feed) < Buffer
            THEN feed' = Append(feed, m) /\ UNCHANGED lost
            ELSE lost' = lost \cup {m} /\ UNCHANGED feed
    /\ UNCHANGED mirror

Following(b) == manager = "running" /\ b \in tracked

\* The next message of a box, from a push or from getDifference.
Deliver(b) ==
    /\ link # "down" /\ Following(b) /\ local[b] < head[b] /\ Calm
    /\ Handle(<<b, local[b] + 1>>)
    /\ local' = [local EXCEPT ![b] = @ + 1]
    /\ UNCHANGED <<launch, link, manager, tracked, rows, head>>

\* SetPts and SetChannelPts, after the handler.
Acknowledge(b) ==
    /\ Following(b) /\ db /\ stored[b] < local[b] /\ Calm
    /\ stored' = [stored EXCEPT ![b] = local[b]]
    /\ UNCHANGED <<launch, session, hashes, base, messages, head>>

\* OnTooLong: the server will not replay the gap.
TooLong(b) ==
    /\ link # "down" /\ Following(b) /\ local[b] < head[b] /\ Fault
    /\ local' = [local EXCEPT ![b] = head[b]]
    /\ lost' = lost \cup {m \in {b} \X (local[b] + 1 .. head[b]) : m \notin seen}
    /\ UNCHANGED <<launch, link, manager, tracked, rows, feed, seen, mirror, head>>

\* A push for a channel the run does not follow: its access hash came with it.
FollowChannel(c) ==
    /\ link # "down" /\ manager = "running" /\ c \notin tracked /\ head[c] > 0 /\ db /\ Calm
    /\ hashes' = hashes \cup {c} /\ tracked' = tracked \cup {c}
    /\ LET from == IF stored[c] = -1 THEN head[c] - 1 ELSE stored[c] IN
       /\ local' = [local EXCEPT ![c] = from]
       /\ stored' = [stored EXCEPT ![c] = from]
       /\ base' = IF stored[c] = -1 THEN [base EXCEPT ![c] = from] ELSE base
    /\ UNCHANGED <<launch, link, manager, messages, head>>

\* Without a run the manager hands every push to the dispatcher as it comes.
PassThrough(b) ==
    /\ link # "down" /\ manager # "running" /\ head[b] > 0 /\ <<b, head[b]>> \notin seen /\ Calm
    /\ Handle(<<b, head[b]>>)
    /\ UNCHANGED <<launch, session, rows, head>>

\* LiveService.drain; the context may win over a buffer that is not empty.
Persist ==
    /\ "live" \in workers /\ feed # <<>> /\ db /\ Calm
    /\ mirror' = mirror \cup {Head(feed)} /\ feed' = Tail(feed)
    /\ UNCHANGED <<launch, session, rows, seen, lost, head>>

WorkerStops(w) ==
    /\ Cancelled /\ w \in workers /\ workers' = workers \ {w} /\ Calm
    /\ IF w = "live" THEN feed' = <<>> /\ lost' = lost \cup Range(feed)
                     ELSE UNCHANGED <<feed, lost>>
    /\ UNCHANGED <<stage, db, attached, session, rows, seen, mirror, head>>

ServerSends(b) ==
    /\ head[b] < MaxPts /\ head' = [head EXCEPT ![b] = @ + 1] /\ Calm
    /\ UNCHANGED <<launch, session, rows, messages>>

-----------------------------------------------------------------------------
Next ==
    \/ Launch \/ Build \/ BuildFails \/ RunBackground \/ AttachFails \/ AttachClient
    \/ Quit \/ BackgroundDone \/ Exit \/ Crash
    \/ SessionUp \/ SessionDown \/ RunManager \/ Persist
    \/ \E b \in Boxes : Deliver(b) \/ Acknowledge(b) \/ TooLong(b) \/ PassThrough(b) \/ ServerSends(b)
    \/ \E c \in Channels : FollowChannel(c)
    \/ \E w \in Background : WorkerStops(w)

Recovers == RunManager \/ \E b \in Boxes : Deliver(b) \/ Acknowledge(b)

Spec == Init /\ [][Next]_recoveryVars /\ WF_recoveryVars(Recovers) /\ WF_recoveryVars(Persist)

-----------------------------------------------------------------------------
\* A goroutine of RunBackground never works on a closed database, and a launch that
\* did not come up leaves none open (Build, runTUI).
DatabaseOwned == /\ workers # {} => db
                 /\ stage = "down" => ~db

\* The stored pts never runs ahead of what was handed out: a message a resumed run
\* will not ask for again is in the database, on its way there, or known lost.
PtsFollowsDelivery ==
    \A b \in Boxes : \A n \in base[b] + 1 .. stored[b] :
        <<b, n>> \in mirror \cup Range(feed) \cup lost

\* Where a box began to be followed is settled with its first row, and the row only
\* goes on: neither a new session nor a new process takes a position back.
PositionsAdvance == [][\A b \in Boxes : stored[b] # -1 => base'[b] = base[b] /\ stored'[b] >= stored[b]]_recoveryVars

Connected == link = "up" /\ stage = "interface"
CaughtUp == \A b \in Boxes : stored[b] # -1 => stored[b] = head[b]

\* While a session stays up and the account can be asked for, every box with a
\* state row is brought to the server's pts, after any number of earlier sessions;
\* a channel's row is of no use to a run without its access hash.
GapsClose == <>[]Connected => <>[]CaughtUp

-----------------------------------------------------------------------------
(* What the source says and the code does not do.  README.md names the     *)
(* instance that refutes each of these.                                    *)

\* "gaps are closed through getDifference" (attach.go, updateHandler): the pts is
\* stored when the bus has the message, not when the database has it.
NothingLost == \A b \in Boxes : \A n \in base[b] + 1 .. stored[b] : <<b, n>> \in mirror \cup Range(feed)

\* "The goroutines need RunBackground": messages pushed before AttachClient are
\* published without the account's id (UpdatesDispatcher.WithSelf).
OwnIsKnown == stage = "attaching" => seen = {}
=============================================================================
