------------------------------ MODULE StatusLine ------------------------------
(***************************************************************************)
(* The bottom line (ui/statusbar) and those who speak to it: the detector  *)
(* that probes the database (core/sync/degradation.go), the monitor of its *)
(* size (core/obs/dbsize.go) and the uploads (core/files/upload.go).      *)
(* Detector and monitor speak only when something changes, on a bus that   *)
(* keeps nothing for a subscriber that is not there yet or whose buffer is *)
(* full; they start before the session is dialled, the program listens     *)
(* after.                                                                  *)
(***************************************************************************)
EXTENDS Integers, Sequences, SequencesExt, FiniteSets

CONSTANTS Uploads,
          Buffer,                         \* events a subscriber's channel holds
          Size, Step, Percent,            \* an upload's bytes, the throttle's steps
          MaxChanges                      \* bound

VARIABLES
    writable, large,        \* the file, as the disk has it
    readOnly, warned,       \* Repo.readOnly, Run's latched warned
    listening,              \* the program is subscribed
    feed,                   \* what it has not handled yet
    missed,                 \* cells whose latest event reached nobody
    bar,                    \* StorageMode is read-only, the size chip is up, upload rows
    stage, bytes, emitted,  \* of each upload
    changes

disk == <<writable, large>>
producers == <<readOnly, warned>>
bus == <<listening, feed, missed>>
files == <<stage, bytes, emitted>>
vars == <<disk, producers, bus, bar, files, changes>>

Cells == {"mode", "chip"} \cup Uploads

TypeOK ==
    /\ {writable, large, readOnly, warned, listening} \subseteq BOOLEAN
    /\ \A e \in ToSet(feed) : e.cell \in Cells /\ e.on \in BOOLEAN
    /\ Len(feed) <= Buffer /\ missed \subseteq Cells
    /\ bar.readOnly \in BOOLEAN /\ bar.chip \in BOOLEAN /\ bar.rows \subseteq Uploads
    /\ stage \in [Uploads -> {"none", "streaming", "sending", "ended"}]
    /\ bytes \in [Uploads -> 0 .. Size] /\ emitted \in [Uploads -> 0 .. Size]

Init ==
    /\ writable \in BOOLEAN /\ large \in BOOLEAN
    /\ readOnly = FALSE /\ warned = FALSE /\ listening = FALSE /\ feed = <<>> /\ missed = {}
    /\ bar = [readOnly |-> FALSE, chip |-> FALSE, rows |-> {}]
    /\ stage = [u \in Uploads |-> "none"]
    /\ bytes = [u \in Uploads |-> 0] /\ emitted = [u \in Uploads |-> 0] /\ changes = 0

-----------------------------------------------------------------------------
\* Bus.Publish never waits.
Publish(cell, on) ==
    /\ IF listening /\ Len(feed) < Buffer
       THEN feed' = Append(feed, [cell |-> cell, on |-> on]) /\ missed' = missed \ {cell}
       ELSE missed' = missed \cup {cell} /\ UNCHANGED feed
    /\ UNCHANGED listening

\* runTUI: forwardBusEvents starts when the attach is over and the panes are built.
Listen ==
    /\ ~listening /\ listening' = TRUE
    /\ UNCHANGED <<disk, producers, feed, missed, bar, files, changes>>

\* The file's permissions and its size change under the program.
DiskChanges ==
    /\ changes < MaxChanges /\ changes' = changes + 1
    /\ \/ writable' = ~writable /\ UNCHANGED large
       \/ large' = ~large /\ UNCHANGED writable
    /\ UNCHANGED <<producers, bus, bar, files>>

-----------------------------------------------------------------------------
(* The two watchers.                                                       *)

\* Mutant: the probe asks the soft flag first.
ProbeWrite_Soft == writable /\ ~readOnly
\* Repo.ProbeWrite: another process holding the lock counts as writable too.
ProbeWrite == writable

\* CheckWriteAccess, transition.
CheckWriteAccess ==
    /\ readOnly' = ~ProbeWrite
    /\ IF readOnly' = readOnly THEN UNCHANGED bus ELSE Publish("mode", readOnly')
    /\ UNCHANGED <<disk, warned, bar, files, changes>>

\* DBSizeMonitor.tick: a stat that fails changes nothing.
Tick ==
    /\ warned' = large
    /\ IF warned' = warned THEN UNCHANGED bus ELSE Publish("chip", warned')
    /\ UNCHANGED <<disk, readOnly, bar, files, changes>>

-----------------------------------------------------------------------------
(* UploadService.SendFile.                                                 *)

SendFile(u) ==
    /\ listening /\ stage[u] = "none" /\ stage' = [stage EXCEPT ![u] = "streaming"]
    /\ Publish(u, TRUE) /\ UNCHANGED <<disk, producers, bar, bytes, emitted, changes>>

Share(n) == (n * 100) \div Size
ShouldEmit(n, last) ==
    \/ last = 0 /\ n > 0
    \/ n - last >= Step
    \/ Share(n) - Share(last) >= Percent

Progress(u, n) ==
    /\ stage[u] = "streaming" /\ n > bytes[u] /\ bytes' = [bytes EXCEPT ![u] = n]
    /\ IF ShouldEmit(n, emitted[u])
       THEN emitted' = [emitted EXCEPT ![u] = n] /\ Publish(u, TRUE)
       ELSE UNCHANGED <<emitted, bus>>
    /\ UNCHANGED <<disk, producers, bar, stage, changes>>

Streamed(u) ==
    /\ stage[u] = "streaming" /\ bytes[u] = Size /\ stage' = [stage EXCEPT ![u] = "sending"]
    /\ UNCHANGED <<disk, producers, bus, bar, bytes, emitted, changes>>

\* Mutant: only a failure of the stream is announced.
EndUpload_SilentLimiter(u) ==
    /\ stage[u] \in {"streaming", "sending"} /\ stage' = [stage EXCEPT ![u] = "ended"]
    /\ \/ Publish(u, FALSE)
       \/ stage[u] = "sending" /\ UNCHANGED bus
    /\ UNCHANGED <<disk, producers, bar, bytes, emitted, changes>>

\* Completed, or uploadFailure from the stream, the send guard or SendMedia.
EndUpload(u) ==
    /\ stage[u] \in {"streaming", "sending"} /\ stage' = [stage EXCEPT ![u] = "ended"]
    /\ Publish(u, FALSE) /\ UNCHANGED <<disk, producers, bar, bytes, emitted, changes>>

-----------------------------------------------------------------------------
(* The program.                                                            *)

\* UpsertUpload and RemoveUpload, their twins for downloads alike.
Upserted(u) == [bar EXCEPT !.rows = @ \cup {u}]
Removed(u) == [bar EXCEPT !.rows = @ \ {u}]

\* Mutant: a storage event sets the mode, whatever its reason.
Route_AnyReason(e) ==
    bar' = CASE e.cell = "mode" -> [bar EXCEPT !.readOnly = e.on]
             [] e.cell = "chip" -> [bar EXCEPT !.chip = e.on, !.readOnly = FALSE]
             [] e.cell \in Uploads /\ e.on -> Upserted(e.cell)
             [] OTHER -> Removed(e.cell)

\* broadcastBusEvent: the reason of a storage event says which cell it is about.
Route(e) ==
    bar' = CASE e.cell = "mode" -> [bar EXCEPT !.readOnly = e.on]
             [] e.cell = "chip" -> [bar EXCEPT !.chip = e.on]
             [] e.cell \in Uploads /\ e.on -> Upserted(e.cell)
             [] OTHER -> Removed(e.cell)

HandleEvent ==
    /\ feed # <<>> /\ Route(Head(feed)) /\ feed' = Tail(feed)
    /\ UNCHANGED <<disk, producers, listening, missed, files, changes>>

Next ==
    \/ Listen \/ DiskChanges \/ CheckWriteAccess \/ Tick \/ HandleEvent
    \/ \E u \in Uploads : SendFile(u) \/ Streamed(u) \/ EndUpload(u)
                          \/ \E n \in 1 .. Size : Progress(u, n)

Spec == Init /\ [][Next]_vars /\ WF_vars(CheckWriteAccess) /\ WF_vars(HandleEvent)

-----------------------------------------------------------------------------
\* The cells show what was last said to them: a warning about the size says
\* nothing of the mode, a recovery does not take the warning down (app/update.go,
\* broadcastBusEvent).
BarShowsWhatItHeard ==
    feed = <<>> =>
        /\ "mode" \notin missed => bar.readOnly = readOnly
        /\ "chip" \notin missed => bar.chip = warned

Healed == writable /\ changes = MaxChanges
CanWrite == ~readOnly

\* A database that can be written again leaves read-only mode: the probe is not
\* stopped by the mode it decides on (degradation.go, ProbeWrite).
SoftModeHeals == <>[]Healed => <>[]CanWrite

\* A row stands for an upload that runs, or whose end is still to be handled or
\* was not heard: every way an upload ends announces it (upload.go, uploadFailure).
RowMeansRunning ==
    \A u \in bar.rows \ missed :
        stage[u] \in {"streaming", "sending"} \/ [cell |-> u, on |-> FALSE] \in ToSet(feed)

-----------------------------------------------------------------------------
(* What the source says and the code does not do.  README.md names the     *)
(* instance that refutes each of these.                                    *)

\* "The first probe runs immediately so the status bar reflects reality from the
\* moment the app starts" (degradation.go, dbsize.go): what the first probe says
\* is said before the program listens, and is not said again.
BarReflectsReality ==
    listening /\ feed = <<>> => bar.readOnly = readOnly /\ bar.chip = warned

\* "so the status bar stops showing finished downloads" (statusbar/model.go): an
\* end the full buffer dropped leaves the row for good.
EndedRowsLeave == feed = <<>> => \A u \in bar.rows : stage[u] # "ended"
=============================================================================
