----------------------------- MODULE StatusFeed -----------------------------
(***************************************************************************)
(* The connection indicator.  Two goroutines publish connection states on  *)
(* the bus and the status bar shows the last one: the reconnect manager    *)
(* (module Session, variable shown) and the pump, which forwards what the  *)
(* library reports about the transport of the running session              *)
(* (internal/core/sync/reconnect.go pumpStates, internal/tg/client.go      *)
(* onConnectionState).                                                     *)
(***************************************************************************)
EXTENDS Session

VARIABLES
  link,      \* transport state of each session, as the library reports it
  feed,      \* content of the one-slot states channel
  pumpLast,  \* pump: the last value it did not suppress
  pumpHeld   \* pump: a value taken from the channel and not published yet

feedvars == <<link, feed, pumpLast, pumpHeld>>
allvars == <<vars, feedvars>>

LinkState == {"connecting", "online", "offline"}

FeedTypeOK ==
  /\ link \in [Sessions -> LinkState]
  /\ feed \in LinkState \cup {"none"}
  /\ pumpLast \in LinkState \cup {"none"}
  /\ pumpHeld \in LinkState \cup {"none"}

FeedInit ==
  /\ Init
  /\ link = [s \in Sessions |-> "offline"]
  /\ feed = "none" /\ pumpLast = "none" /\ pumpHeld = "none"

(* Mutants: a value this build does not know is passed on; a full channel  *)
(* keeps its oldest value.                                                 *)
OnConnectionState_Unknown(s, state) ==
  /\ sess[s] \in {"dialing", "live", "ended"}
  /\ link[s] # state
  /\ link' = [link EXCEPT ![s] = state]
  /\ feed' \in {state, "unknown"}
  /\ UNCHANGED <<vars, pumpLast, pumpHeld>>

OnConnectionState_KeepsOldest(s, state) ==
  /\ sess[s] \in {"dialing", "live", "ended"}
  /\ link[s] # state
  /\ sess[s] = "ended" => state = "offline"
  /\ link' = [link EXCEPT ![s] = state]
  /\ feed' = IF feed = "none" THEN state ELSE feed
  /\ UNCHANGED <<vars, pumpLast, pumpHeld>>

(* The library calls back while its run loop exists.  The newest state     *)
(* replaces one that was not read yet.                                     *)
OnConnectionState(s, state) ==
  /\ sess[s] \in {"dialing", "live", "ended"}
  /\ link[s] # state
  /\ sess[s] = "ended" => state = "offline"
  /\ link' = [link EXCEPT ![s] = state]
  /\ feed' = state
  /\ UNCHANGED <<vars, pumpLast, pumpHeld>>

PumpAlive == pc["rm"] # "off" /\ ~parentDone

(* The pump swallows repeats.                                              *)
PumpTake ==
  /\ PumpAlive
  /\ feed # "none" /\ pumpHeld = "none"
  /\ feed' = "none"
  /\ IF feed = pumpLast THEN UNCHANGED <<pumpLast, pumpHeld>>
     ELSE pumpLast' = feed /\ pumpHeld' = feed
  /\ UNCHANGED <<vars, link>>

PumpPublish ==
  /\ PumpAlive
  /\ pumpHeld # "none"
  /\ shown' = pumpHeld
  /\ pumpHeld' = "none"
  /\ UNCHANGED <<svars, supvars, signal, procvars, attempt, netUp, link, feed, pumpLast>>

(* Every step of the sessions, the supervisor and the manager.  A request  *)
(* is answered only over a transport that is up, and the connection of a   *)
(* new session starts from scratch.                                        *)
SessionMoves ==
  /\ Next
  /\ \A s \in Sessions : AuthOk(s) => link[s] = "online"
  /\ PingAnswered => link[cur] = "online"
  /\ link' = [s \in Sessions |-> IF sess'[s] = "spawned" THEN "offline" ELSE link[s]]
  /\ UNCHANGED <<feed, pumpLast, pumpHeld>>

FeedNext ==
  \/ SessionMoves
  \/ \E s \in Sessions, state \in LinkState : OnConnectionState(s, state)
  \/ PumpTake \/ PumpPublish

FeedSpec == FeedInit /\ [][FeedNext]_allvars
-----------------------------------------------------------------------------
(* Nothing is on its way to the status bar and a session is live.          *)
Settled ==
  /\ PumpAlive
  /\ pc["rm"] = "wait" /\ signal = "empty"
  /\ feed = "none" /\ pumpHeld = "none"
  /\ cur \in Sessions /\ sess[cur] = "live" /\ ~cancelled(cur)

(* A working connection is never shown as broken for good, although the    *)
(* pump (pumpStates) may hold a value of the previous session while the    *)
(* manager publishes, and drops a value equal to its last one.             *)
NeverStuckOffline == Settled /\ link[cur] = "online" => shown = "online"

(* Both publishers at rest, a working connection is not shown as broken    *)
(* (pumpStates), and the feed has its types.                               *)
FeedTruthful == FeedTypeOK /\ NeverStuckOffline
-----------------------------------------------------------------------------
(* What the source says and the code does not do.  README.md names the     *)
(* instance that refutes each of these.                                    *)

(* The two publishers "describe the same connection" and the indicator     *)
(* "only ever shows the most recent value" (the comment of pumpStates):    *)
(* once settled it shows the state of the transport.                       *)
IndicatorTruthful == Settled => shown = link[cur]
=============================================================================
