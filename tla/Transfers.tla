------------------------------ MODULE Transfers ------------------------------
(***************************************************************************)
(* Downloads and uploads.  The UI starts one goroutine per attachment      *)
(* (App.handleDownloadRequest, handleOpenRequest) or file sent             *)
(* (handleAttachSubmitted); each runs DownloadService.Download or          *)
(* UploadService.SendFile to its end and tells of it on the bus, from      *)
(* which the status bar keeps a row per transfer.                          *)
(*                                                                         *)
(* A path is its name and the number Reserve appended to it; what is in a  *)
(* file is the set of attachments whose bytes were written to it.          *)
(***************************************************************************)
EXTENDS Naturals, Sequences, FiniteSets

CONSTANTS Files, Uploads, Names, NameOf,
          Attempts,      \* reserveAttempts
          FeedCap,       \* defaultBufferSize, as seen by forwardBusEvents
          MaxRequests, MaxFaults   \* bounds

VARIABLES
    job,         \* each attachment's goroutine
    pending,     \* downloadRegistry.pending
    sending,     \* each upload's goroutine
    disk,        \* finished files: whose bytes each path holds
    partial,     \* the same of path + ".partial"; NoFile without one
    recorded,    \* downloaded_files: the path of each attachment
    feed,        \* transfer events on their way to the UI
    rows,        \* statusbar.Model.downloads and uploads
    dropped,     \* an event found the buffer full
    expense      \* how much of each bound is used

saved == <<disk, partial, recorded>>
ui == <<feed, rows, dropped>>
vars == <<job, pending, sending, saved, ui, expense>>

Caps == [requests |-> MaxRequests, faults |-> MaxFaults]
Pay(k) == expense[k] < Caps[k] /\ expense' = [expense EXCEPT ![k] = @ + 1]

Paths == Names \X (1 .. Attempts)
NoFile == {}
NoPath == <<>>
Candidate(f, k) == <<NameOf[f], k>>
Off == [at |-> "off"]
Running(f) == job[f] # Off
Sending(u) == sending[u] # "off"

Init ==
    /\ job = [f \in Files |-> Off] /\ pending = {}
    /\ sending = [u \in Uploads |-> "off"]
    /\ disk = [p \in Paths |-> NoFile] /\ partial = disk
    /\ recorded = [f \in Files |-> NoPath]
    /\ feed = <<>> /\ rows = {} /\ dropped = FALSE
    /\ expense = [k \in DOMAIN Caps |-> 0]

\* Bus.Publish: an event for a full buffer is lost.
Publish(es) ==
    IF Len(feed) + Len(es) <= FeedCap
    THEN feed' = feed \o es /\ UNCHANGED dropped
    ELSE feed' = SubSeq(feed \o es, 1, FeedCap) /\ dropped' = TRUE

Ev(kind, t) == [kind |-> kind, of |-> t]

-----------------------------------------------------------------------------
\* Downloads.

\* The download chord, and the open chord, which only adds a viewer at the end.
HandleRequest(f) ==
    /\ f \notin pending /\ Pay("requests")
    /\ pending' = pending \cup {f}
    /\ job' = [job EXCEPT ![f] = [at |-> "lookup"]]
    /\ UNCHANGED <<sending, saved, ui>>

\* Mutant: only a download that succeeded is released.
Return_OnlyDone(f, path) ==
    /\ job' = [job EXCEPT ![f] = Off]
    /\ pending' = IF path # NoPath THEN pending \ {f} ELSE pending

\* The goroutine ends, with its deferred release.
Return(f, path) ==
    /\ job' = [job EXCEPT ![f] = Off]
    /\ pending' = pending \ {f}

\* DedupCache.Lookup: a path on record whose file is still there.
Hit(f) == recorded[f] # NoPath /\ disk[recorded[f]] # NoFile

\* A failed lookup (error) counts as a miss.
Lookup(f) ==
    /\ job[f].at = "lookup"
    /\ \/ /\ Hit(f)
          /\ Publish(<<Ev("started", f), Ev("ended", f)>>)
          /\ Return(f, recorded[f])
       \/ /\ job' = [job EXCEPT ![f] = [at |-> "probe", k |-> 1]]
          /\ UNCHANGED <<pending, feed, dropped>>
    /\ UNCHANGED <<sending, saved, rows, expense>>

Stage(f, at) == job' = [job EXCEPT ![f].at = at] /\ UNCHANGED pending
NextName(f) == job' = [job EXCEPT ![f].at = "probe", ![f].k = @ + 1] /\ UNCHANGED pending

\* Reserve, the check: a name in use is passed over, and the names run out.
Probe(f) ==
    /\ job[f].at = "probe"
    /\ \/ /\ job[f].k > Attempts
          /\ Publish(<<Ev("ended", f)>>) /\ Return(f, NoPath)
       \/ /\ job[f].k <= Attempts
          /\ IF disk[Candidate(f, job[f].k)] # NoFile THEN NextName(f) ELSE Stage(f, "claim")
          /\ UNCHANGED <<feed, dropped>>
    /\ UNCHANGED <<sending, saved, rows, expense>>

\* Mutant: the partial file is created without O_EXCL.
Claim_Shared(f) ==
    /\ job[f].at = "claim"
    /\ partial' = [partial EXCEPT ![Candidate(f, job[f].k)] = @ \cup {<<f, "some">>}]
    /\ Publish(<<Ev("started", f)>>) /\ Stage(f, "stream")
    /\ UNCHANGED <<sending, disk, recorded, rows, expense>>

\* Reserve, the claim: O_EXCL on the partial file, the next name if another
\* has it.
Claim(f) ==
    /\ job[f].at = "claim"
    /\ LET p == Candidate(f, job[f].k) IN
       \/ /\ partial[p] # NoFile /\ NextName(f)
          /\ UNCHANGED <<partial, feed, dropped>>
       \/ /\ partial[p] = NoFile
          /\ partial' = [partial EXCEPT ![p] = {<<f, "some">>}]
          /\ Publish(<<Ev("started", f)>>) /\ Stage(f, "stream")
    /\ UNCHANGED <<sending, disk, recorded, rows, expense>>

\* Downloader.Download streamed it all into the partial file; its last call of
\* the throttled callback tells of it.
StreamDone(f) ==
    /\ job[f].at = "stream" /\ Stage(f, "rename")
    /\ partial' = [partial EXCEPT ![Candidate(f, job[f].k)] =
                       (@ \ {<<f, "some">>}) \cup {<<f, "all">>}]
    /\ Publish(<<Ev("progress", f)>>)
    /\ UNCHANGED <<sending, disk, recorded, rows, expense>>

\* Mutant: an error of the stream is reported but its bytes are kept.
StreamFails_Renames(f) ==
    /\ job[f].at = "stream"
    /\ disk' = [disk EXCEPT ![Candidate(f, job[f].k)] = partial[Candidate(f, job[f].k)]]
    /\ partial' = [partial EXCEPT ![Candidate(f, job[f].k)] = NoFile]
    /\ Publish(<<Ev("ended", f)>>) /\ Return(f, NoPath)
    /\ UNCHANGED <<sending, recorded, rows, expense>>

\* Mutant: the failure is logged but not published.
StreamFails_Silent(f) ==
    /\ job[f].at = "stream"
    /\ partial' = [partial EXCEPT ![Candidate(f, job[f].k)] = NoFile]
    /\ Return(f, NoPath)
    /\ UNCHANGED <<sending, disk, recorded, ui, expense>>

\* The transport, a flood wait, an expired reference or the deadline: the
\* partial file goes and the failure is published.
StreamFails(f) ==
    /\ job[f].at = "stream"
    /\ partial' = [partial EXCEPT ![Candidate(f, job[f].k)] = NoFile]
    /\ Publish(<<Ev("ended", f)>>)
    /\ Return(f, NoPath)
    /\ UNCHANGED <<sending, disk, recorded, rows, expense>>

\* os.Rename replaces whatever is there; it may fail.
Rename(f) ==
    /\ job[f].at = "rename"
    /\ LET p == Candidate(f, job[f].k) IN
       /\ partial' = [partial EXCEPT ![p] = NoFile]
       /\ \/ /\ disk' = [disk EXCEPT ![p] = partial[p]]
             /\ Stage(f, "record") /\ UNCHANGED <<feed, dropped>>
          \/ Publish(<<Ev("ended", f)>>) /\ Return(f, NoPath) /\ UNCHANGED disk
    /\ UNCHANGED <<sending, recorded, rows, expense>>

\* DedupCache.Record, which a read-only database refuses, and completion.
Record(f) ==
    /\ job[f].at = "record"
    /\ LET p == Candidate(f, job[f].k) IN
       /\ recorded' \in {recorded, [recorded EXCEPT ![f] = p]}
       /\ Publish(<<Ev("ended", f)>>)
       /\ Return(f, p)
    /\ UNCHANGED <<sending, disk, partial, rows, expense>>

Download(f) ==
    Lookup(f) \/ Probe(f) \/ Claim(f) \/ StreamDone(f)
        \/ StreamFails(f) \/ Rename(f) \/ Record(f)

-----------------------------------------------------------------------------
\* Uploads.

\* SendFile: the file is there and under the hard limit, and has its number.
SendFile(u) ==
    /\ ~Sending(u) /\ Pay("requests")
    /\ sending' = [sending EXCEPT ![u] = "stream"]
    /\ Publish(<<Ev("started", u)>>)
    /\ UNCHANGED <<job, pending, saved, rows>>

\* Streamed; a token of the send guard and SendMedia are left.
UploadAdvances(u) ==
    /\ sending[u] = "stream"
    /\ sending' = [sending EXCEPT ![u] = "send"]
    /\ Publish(<<Ev("progress", u)>>)
    /\ UNCHANGED <<job, pending, saved, rows, expense>>

\* Sent, or any of the steps failed: one event tells either.
UploadEnds(u) ==
    /\ Sending(u)
    /\ sending' = [sending EXCEPT ![u] = "off"]
    /\ Publish(<<Ev("ended", u)>>)
    /\ UNCHANGED <<job, pending, saved, rows, expense>>

-----------------------------------------------------------------------------
\* The screen, the user and the process.

\* Mutant: progress is taken for a row of its own once more after the end.
BroadcastBusEvent_IgnoresEnd ==
    /\ feed # <<>> /\ feed' = Tail(feed)
    /\ rows' = rows \cup {Head(feed).of}
    /\ UNCHANGED <<job, pending, sending, saved, dropped, expense>>

\* broadcastBusEvent: Upsert and Remove of the row.
BroadcastBusEvent ==
    /\ feed # <<>> /\ feed' = Tail(feed)
    /\ rows' = IF Head(feed).kind = "ended" THEN rows \ {Head(feed).of}
               ELSE rows \cup {Head(feed).of}
    /\ UNCHANGED <<job, pending, sending, saved, dropped, expense>>

UserRemoves(p) ==
    /\ disk[p] # NoFile /\ Pay("faults")
    /\ disk' = [disk EXCEPT ![p] = NoFile]
    /\ UNCHANGED <<job, pending, sending, partial, recorded, ui>>

\* The process ends, by quitting or not: no download is waited for, and what
\* it had on disk stays.
ProcessEnds ==
    /\ Pay("faults")
    /\ job' = [f \in Files |-> Off] /\ pending' = {}
    /\ sending' = [u \in Uploads |-> "off"]
    /\ feed' = <<>> /\ rows' = {} /\ dropped' = FALSE
    /\ UNCHANGED saved

Next ==
    \/ \E f \in Files : HandleRequest(f) \/ Download(f)
    \/ \E u \in Uploads : SendFile(u) \/ UploadAdvances(u) \/ UploadEnds(u)
    \/ BroadcastBusEvent
    \/ \E p \in Paths : UserRemoves(p)
    \/ ProcessEnds

Spec == Init /\ [][Next]_vars
             /\ \A f \in Files : WF_vars(Download(f))
             /\ WF_vars(BroadcastBusEvent)

-----------------------------------------------------------------------------
Contents == SUBSET (Files \X {"some", "all"})
TypeOK ==
    /\ \A f \in Files : job[f].at \in {"off", "lookup", "probe", "claim", "stream",
                                       "rename", "record"}
    /\ pending = {f \in Files : Running(f)}
    /\ disk \in [Paths -> Contents] /\ partial \in [Paths -> Contents]
    /\ recorded \in [Files -> Paths \cup {NoPath}]
    /\ rows \subseteq Files \cup Uploads /\ Len(feed) <= FeedCap

\* Under a final name there is one attachment, and all of it: a stream that
\* fails, a name claimed by two downloads at once, a process killed half way
\* and the leftovers it leaves never show as a file (download.go, store.go).
OnlyWholeFiles ==
    \A p \in Paths : disk[p] # NoFile => \E f \in Files : disk[p] = {<<f, "all">>}

\* What the status bar's transfer cell is about.
Active == {f \in Files : job[f].at \in {"stream", "rename", "record"}}
              \cup {u \in Uploads : Sending(u)}

\* Once the events of a moment are handled, and none was lost, the status bar
\* has a row for exactly the transfers that are under way: nothing that failed
\* or was served from disk keeps the transfer cell over the connection state.
RowsAreTransfers == (feed = <<>> /\ ~dropped) => rows = Active

Busy(f) == f \in pending

\* An attachment the user asked for can be asked for again: whatever happens
\* to its download, the registry lets go of it.
DownloadsEnd == \A f \in Files : Busy(f) ~> ~Busy(f)

-----------------------------------------------------------------------------
(* What the source says and the code does not do.  README.md names the     *)
(* instance that refutes each of these.                                    *)

\* Reserve: the colliding-name fix "is made with O_EXCL rather than by checking
\* first and creating after".  The name itself is still checked first: a
\* download that finishes between the check and the claim is overwritten.
NothingOverwritten ==
    [][\A p \in Paths : disk[p] # NoFile => disk'[p] \in {disk[p], NoFile}]_vars

\* DedupCache.Lookup answers "did I already download this file?" by a path that
\* exists; a name freed and used again makes it another attachment's file.
HitIsThatFile ==
    \A f \in Files : Hit(f) => disk[recorded[f]] = {<<f, "all">>}
=============================================================================
