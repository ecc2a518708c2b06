------------------------------ MODULE Secrets ------------------------------
(***************************************************************************)
(* The secret store and the commands that write sessions into it           *)
(* (internal/core/config/secrets.go, tg/session.go, cmd login and logout). *)
(* Every session lives in one encrypted file.  The keyring holds only the  *)
(* passphrase that opens it, made up on first use.  Several processes of   *)
(* the program share both: a write reads the file, changes one key and     *)
(* renames a whole new file into place under a lock, a read takes no lock  *)
(* at all, and any process may die between two steps.                      *)
(*                                                                         *)
(* A ciphertext is its number (encryption is salted, so no two are equal), *)
(* a session is the number of the write that made it, a passphrase is a    *)
(* number as well: 0 is "none" everywhere and Typed is the one the user    *)
(* types when the keyring does not answer.                                 *)
(***************************************************************************)
EXTENDS Naturals

CONSTANTS Procs, Phones, Nobody,
          Keyrings,   \* what the keyring may hold when the model starts: Old, or nothing
          MaxStarts, MaxWrites, MaxFaults

VARIABLES keyring,    \* the passphrase in the OS credential store
          made,       \* the last passphrase made up, Old before the first
          file,       \* the secrets file: its ciphertext's number, passphrase and sessions
          lock,       \* who holds the sidecar lock
          accounts,   \* the phones with a row in the database
          me,         \* what each process knows and where it is
          printed,    \* the logins that printed success, as <<phone, its session was stored>>,
                      \* until somebody asks to forget the phone
          starts, faults

vars == <<keyring, made, file, lock, accounts, me, printed, starts, faults>>

Typed == 1
Old == 2
NoSessions == [k \in Phones |-> 0]
Absent == [stamp |-> 0, pass |-> 0, map |-> NoSessions]

\* A process that is not running.  at: the place in its command; pc: the place
\* in the store's operation op.
Gone == [role |-> "none", key |-> Nobody, at |-> "gone", op |-> "none", pc |-> "rest", typed |-> FALSE,
         loaded |-> FALSE, pass |-> 0, cache |-> NoSessions, raw |-> 0,
         cut |-> FALSE]           \* the session this login stored was refused or forgotten since

Init == /\ keyring \in Keyrings
        /\ made = Old
        /\ file = Absent
        /\ lock = Nobody
        /\ accounts = {}
        /\ me = [p \in Procs |-> Gone]
        /\ printed = {}
        /\ starts = 0
        /\ faults = 0

Fault == faults < MaxFaults /\ faults' = faults + 1
\* r with the fields of change, which win.
With(r, change) == [f \in DOMAIN r \cup DOMAIN change |-> IF f \in DOMAIN change THEN change[f] ELSE r[f]]
Become(p, change) == me' = [me EXCEPT ![p] = With(@, change)]

\* The same, and when p forgets a session, a login of that phone under way loses
\* the one it stored.
WritesAs(p, change) ==
    me' = [q \in Procs |->
              IF q = p THEN With(me[q], change)
              ELSE IF me[p].op = "del" /\ me[q].key = me[p].key THEN [me[q] EXCEPT !.cut = TRUE]
              ELSE me[q]]
Running(p, pc) == me[p].role # "none" /\ me[p].pc = pc
Unlocked(p) == IF lock = p THEN Nobody ELSE lock

\* The first prompt or, when the passphrase is remembered, the file.
Loading(p) == IF me[p].pass = 0 THEN "prompt" ELSE "fill"

(***************************************************************************)
(* Opening the store: the keyring is probed by a write, and a process that *)
(* cannot write there asks its user for the passphrase.                    *)
(***************************************************************************)
NewSecretStore(p, role, k) ==
    /\ me[p].role = "none" /\ starts < MaxStarts
    /\ role = "tui" => k \in accounts
    /\ \E available \in BOOLEAN :
          /\ IF available THEN faults' = faults ELSE Fault
          /\ Become(p, [role |-> role, key |-> k, typed |-> ~available,
                        at |-> (IF role = "logout" THEN "forget" ELSE "load"),
                        op |-> (IF role = "logout" THEN "del" ELSE "get"),
                        pc |-> (IF role = "logout" THEN "lock" ELSE "prompt")])
    /\ starts' = starts + 1
    /\ UNCHANGED <<keyring, made, file, lock, accounts, printed>>

\* What the command does when the operation it waits for fails: the TUI lives
\* on without a session, the others end.  A login whose session was not stored
\* loses its connection, and the client's Run may still report success.
Refused(p) ==
    LET idle == [op |-> "none", pc |-> "rest", pass |-> 0, cache |-> NoSessions]
    IN  CASE me[p].role = "tui" /\ me[p].at = "run" -> {idle}
          [] me[p].role = "login" /\ me[p].at = "run" ->
                {Gone, With(idle, [at |-> "authorised", cut |-> TRUE])}
          [] OTHER -> {Gone}

\* A failure while loading clears the passphrase and the cache.
LoadFails(p) ==
    /\ \E change \in Refused(p) : Become(p, change)
    /\ lock' = Unlocked(p)

\* Mutant: a keyring that does not answer is treated as an empty one.
Prompt_PapersOver(p) ==
    /\ Running(p, "prompt")
    /\ \/ me[p].typed /\ Become(p, [pass |-> Typed, pc |-> "fill"]) /\ UNCHANGED faults
       \/ ~me[p].typed /\ keyring # 0 /\ Become(p, [pass |-> keyring, pc |-> "fill"]) /\ UNCHANGED faults
       \/ ~me[p].typed /\ ((keyring = 0 /\ UNCHANGED faults) \/ (keyring # 0 /\ Fault))
          /\ Become(p, [pc |-> "make"])
    /\ UNCHANGED <<keyring, made, file, lock, accounts, printed, starts>>

Prompt(p) ==
    /\ Running(p, "prompt")
    /\ \/ me[p].typed /\ Become(p, [pass |-> Typed, pc |-> "fill"]) /\ UNCHANGED <<lock, faults>>
       \/ ~me[p].typed /\ keyring # 0
          /\ Become(p, [pass |-> keyring, pc |-> "fill"]) /\ UNCHANGED <<lock, faults>>
       \/ ~me[p].typed /\ keyring = 0 /\ Become(p, [pc |-> "make"]) /\ UNCHANGED <<lock, faults>>
       \/ Fault /\ LoadFails(p)
    /\ UNCHANGED <<keyring, made, file, accounts, printed, starts>>

\* KeyringPassphrase after "not found": make one up and write it over whatever
\* is there by now.
KeyringPassphrase(p) ==
    /\ Running(p, "make")
    /\ \/ /\ made' = made + 1
          /\ keyring' = made + 1
          /\ Become(p, [pass |-> made + 1, pc |-> "fill"])
          /\ UNCHANGED <<lock, faults>>
       \/ Fault /\ LoadFails(p) /\ UNCHANGED <<keyring, made>>
    /\ UNCHANGED <<file, accounts, printed, starts>>

(***************************************************************************)
(* The operations of the file.                                             *)
(***************************************************************************)
\* Where an operation goes once the cache is loaded: a read is over, a write
\* works on its copy of the map.
Filled(p) == IF me[p].op = "get"
             THEN [op |-> "none", pc |-> "rest", at |-> (IF me[p].at = "load" THEN "run" ELSE me[p].at)]
             ELSE [pc |-> "apply"]

EnsureLoaded(p) ==
    /\ Running(p, "fill")
    /\ \/ /\ file.stamp = 0 \/ file.pass = me[p].pass
          /\ Become(p, With(Filled(p), [loaded |-> TRUE, cache |-> file.map, raw |-> file.stamp]))
          /\ UNCHANGED <<lock, faults>>
       \/ file.stamp # 0 /\ file.pass # me[p].pass /\ LoadFails(p) /\ UNCHANGED faults
       \/ Fault /\ LoadFails(p)
    /\ UNCHANGED <<keyring, made, file, accounts, printed, starts>>

\* Mutant: the lock only keeps the process's own goroutines apart.
TakeLock_Shared(p) ==
    /\ Running(p, "lock")
    /\ lock' = p
    /\ Become(p, [pc |-> "refresh"])
    /\ UNCHANGED <<keyring, made, file, accounts, printed, starts, faults>>

TakeLock(p) ==
    /\ Running(p, "lock") /\ lock = Nobody
    /\ lock' = p
    /\ Become(p, [pc |-> "refresh"])
    /\ UNCHANGED <<keyring, made, file, accounts, printed, starts, faults>>

\* Mutant: a store that was loaded once trusts its snapshot.
Refresh_Never(p) ==
    /\ Running(p, "refresh")
    /\ Become(p, [pc |-> (IF me[p].loaded THEN "apply" ELSE Loading(p))])
    /\ UNCHANGED <<keyring, made, file, lock, accounts, printed, starts, faults>>

\* Inside the lock: load again when the ciphertext is not the remembered one.
Refresh(p) ==
    /\ Running(p, "refresh")
    /\ IF me[p].loaded /\ file.stamp = me[p].raw
       THEN Become(p, [pc |-> "apply"])
       ELSE Become(p, [loaded |-> FALSE, pc |-> Loading(p)])
    /\ UNCHANGED <<keyring, made, file, lock, accounts, printed, starts, faults>>

\* What the command does next when its write is done.
Stored(p) == CASE me[p].op = "set" -> [op |-> "none", pc |-> "rest", cut |-> FALSE]
               [] me[p].at = "forget" -> [op |-> "none", pc |-> "rest", at |-> "deleteRow"]
               [] OTHER -> Gone                        \* a login rolled back

\* Mutant: the change is committed to the cache before it is written.
Mutate_CacheFirst(p) ==
    LET next == [me[p].cache EXCEPT ![me[p].key] = IF me[p].op = "del" THEN 0 ELSE file.stamp + 1]
    IN  /\ Running(p, "apply") /\ file.stamp < MaxWrites
        /\ \/ /\ file' = [stamp |-> file.stamp + 1, pass |-> me[p].pass, map |-> next]
              /\ WritesAs(p, With([cache |-> next, raw |-> file.stamp + 1], Stored(p)))
              /\ UNCHANGED faults
           \/ /\ Fault
              /\ \E change \in Refused(p) : Become(p, With(change, [cache |-> next, pass |-> me[p].pass]))
              /\ UNCHANGED file
        /\ lock' = Unlocked(p)
        /\ printed' = IF me[p].op = "del" THEN {l \in printed : l[1] # me[p].key} ELSE printed
        /\ UNCHANGED <<keyring, made, accounts, starts>>

\* apply, persistMap, the commit to the cache and the unlock.  A write that
\* fails leaves the file and the cache as they were; deleting what is not there
\* writes nothing.
Mutate(p) ==
    LET next == [me[p].cache EXCEPT ![me[p].key] = IF me[p].op = "del" THEN 0 ELSE file.stamp + 1]
    IN  /\ Running(p, "apply")
        /\ \/ /\ next = me[p].cache
              /\ WritesAs(p, Stored(p))
              /\ UNCHANGED <<file, faults>>
           \/ /\ next # me[p].cache /\ file.stamp < MaxWrites
              /\ file' = [stamp |-> file.stamp + 1, pass |-> me[p].pass, map |-> next]
              /\ WritesAs(p, With([cache |-> next, raw |-> file.stamp + 1], Stored(p)))
              /\ UNCHANGED faults
           \/ /\ next # me[p].cache /\ Fault
              /\ \E change \in Refused(p) :
                    Become(p, IF change = Gone THEN change ELSE With(change, [pass |-> me[p].pass, cache |-> me[p].cache]))
              /\ UNCHANGED file
        /\ lock' = Unlocked(p)
        /\ printed' = IF me[p].op = "del" THEN {l \in printed : l[1] # me[p].key} ELSE printed
        /\ UNCHANGED <<keyring, made, accounts, starts>>

(***************************************************************************)
(* The commands.                                                           *)
(***************************************************************************)
\* A login or the TUI, connected, reports the session it now has: on the first
\* connection and again whenever the data centre rotates it.
StoreSession(p) ==
    /\ me[p].at = "run" /\ Running(p, "rest") /\ file.stamp < MaxWrites
    /\ Become(p, [op |-> "set", pc |-> "lock"])
    /\ UNCHANGED <<keyring, made, file, lock, accounts, printed, starts, faults>>

\* The TUI connects again: the session is read from the cache, the file is
\* opened only if it never was.
LoadSession(p) ==
    /\ me[p].role = "tui" /\ me[p].at = "run" /\ Running(p, "rest") /\ ~me[p].loaded
    /\ Become(p, [op |-> "get", pc |-> Loading(p)])
    /\ UNCHANGED <<keyring, made, file, lock, accounts, printed, starts, faults>>

\* The code is right, and the session of this login is stored by then.
Authorised(p) ==
    /\ me[p].role = "login" /\ me[p].at = "run" /\ Running(p, "rest") /\ me[p].cache[me[p].key] # 0
    /\ Become(p, [at |-> "authorised"])
    /\ UNCHANGED <<keyring, made, file, lock, accounts, printed, starts, faults>>

\* The row, and then "logged in as ...".  A failure takes the session back.
SaveAccount(p) ==
    /\ me[p].at = "authorised" /\ Running(p, "rest")
    /\ \/ /\ accounts' = accounts \cup {me[p].key}
          /\ printed' = printed \cup {<<me[p].key, ~me[p].cut>>}
          /\ Become(p, Gone)
          /\ UNCHANGED faults
       \/ /\ Fault
          /\ Become(p, [at |-> "rollback", op |-> "del", pc |-> "lock"])
          /\ UNCHANGED <<accounts, printed>>
    /\ UNCHANGED <<keyring, made, file, lock, starts>>

DeleteAccount(p) ==
    /\ me[p].at = "deleteRow" /\ Running(p, "rest")
    /\ \/ accounts' = accounts \ {me[p].key} /\ UNCHANGED faults
       \/ Fault /\ UNCHANGED accounts
    /\ Become(p, Gone)
    /\ UNCHANGED <<keyring, made, file, lock, printed, starts>>

\* A process ends: the user quits, the code was wrong, or it is killed.  The
\* system takes its lock back.
Ends(p) ==
    /\ me[p].role # "none"
    /\ IF me[p].at = "run" /\ me[p].pc = "rest" THEN UNCHANGED faults ELSE Fault
    /\ lock' = Unlocked(p)
    /\ Become(p, Gone)
    /\ UNCHANGED <<keyring, made, file, accounts, printed, starts>>

Next == \E p \in Procs :
            \/ \E role \in {"login", "logout", "tui"}, k \in Phones : NewSecretStore(p, role, k)
            \/ Prompt(p) \/ KeyringPassphrase(p) \/ EnsureLoaded(p)
            \/ TakeLock(p) \/ Refresh(p) \/ Mutate(p)
            \/ StoreSession(p) \/ LoadSession(p) \/ Authorised(p)
            \/ SaveAccount(p) \/ DeleteAccount(p) \/ Ends(p)

Spec == Init /\ [][Next]_vars
(***************************************************************************)
(* Correctness.                                                            *)
(***************************************************************************)
TypeOK ==
    /\ keyring \in 0..made /\ made \in Nat
    /\ file \in [stamp : 0..MaxWrites, pass : 0..made, map : [Phones -> 0..MaxWrites]]
    /\ lock \in Procs \cup {Nobody}
    /\ accounts \subseteq Phones /\ printed \subseteq Phones \X BOOLEAN
    /\ \A p \in Procs :
          /\ me[p].pc \in {"rest", "prompt", "make", "fill", "lock", "refresh", "apply"}
          /\ (lock = p) = (me[p].op \in {"set", "del"} /\ me[p].pc # "lock")
    /\ starts \in 0..MaxStarts /\ faults \in 0..MaxFaults

\* A login that printed success left a session that is still in the file until
\* somebody asks to forget it, whatever the TUI and the logins of other phones
\* write meanwhile, and wherever one of them dies.  (mutate's header: whoever
\* wrote last would otherwise persist the map as it looked when it started.)
\* Only a login whose own write the store refused, or whose phone was forgotten
\* between that write and its row, prints success over nothing: see
\* EverySuccessKept.
SuccessMeansKept == \A l \in printed : l[2] => file.map[l[1]] # 0

\* A rename of the file changes the session of the writer's own phone alone: no
\* other phone's session is dropped, revived or put back to an older one.
OwnKeyOnly ==
    \A k \in Phones : file'.map[k] # file.map[k] =>
        \E p \in Procs : me[p].key = k /\ me[p].pc = "apply"

\* Once the keyring has its entry no hiccup of it makes the file unreadable:
\* what is on disk opens with that entry, or with what the user typed when the
\* keyring was away from the start.  (KeyringPassphrase: a read error is
\* reported, never papered over with a fresh passphrase.)
FileOpens == file.stamp # 0 /\ Old \in {keyring, file.pass} => file.pass \in {keyring, Typed}

\* A store that has seen the newest file answers from exactly what that file
\* holds: a failed write leaves no value that only this process believes in.
ReadsWhatWasWritten ==
    \A p \in Procs : me[p].loaded /\ me[p].raw = file.stamp => me[p].cache = file.map

(***************************************************************************)
(* What the source says and the code does not do.  README.md names the     *)
(* instance that refutes each of these.                                    *)
(***************************************************************************)
\* "`lazytg login` still printed success", and so the session is there: the client's Run
\* returns nil over a refused write as well (NewSecretStore's header tells of
\* it), and login.go saves the row and prints "logged in as" all the same.
EverySuccessKept == \A l \in printed : file.map[l[1]] # 0

\* "The passphrase is generated once and kept in the keyring" (NewSecretStore):
\* two first-time processes, whose reads take no lock, each make one up, and
\* the file may be written with the one that was overwritten.
GeneratedOnce == file.stamp # 0 => file.pass \in {keyring, Typed}

\* login.go rolls back so that "the secret store and the DB" do not "drift
\* apart": a wrong code, a crash before the row, or a TUI that stores its
\* session after a logout leaves a session no account row names.
SessionHasAccount ==
    \A k \in Phones : file.map[k] # 0 /\ (\A p \in Procs : me[p].key # k) => k \in accounts
=============================================================================
