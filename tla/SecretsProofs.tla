---------------------------- MODULE SecretsProofs ----------------------------
(***************************************************************************)
(* Theorems about Secrets.  A process that holds the lock and is about to  *)
(* write has loaded the newest file (LoadInv), so that it changes its own  *)
(* key alone.  A login that was not cut off knows a session only while the *)
(* file has one (LoginInv), and a keyring that had its entry from the      *)
(* start is never written (PassInv).                                       *)
(***************************************************************************)
EXTENDS Secrets, TLAPS

Bounds == /\ MaxStarts \in Nat /\ MaxWrites \in Nat /\ MaxFaults \in Nat
          /\ Keyrings \subseteq {0, Old}
          /\ Nobody \notin Procs /\ Nobody \notin Phones

Fields == {"role", "key", "at", "op", "pc", "typed", "loaded", "pass", "cache", "raw", "cut"}
Maps == [Phones -> 0 .. MaxWrites]

\* A process: what it does, and where in the store's operation it is.
Shape(p) ==
    /\ DOMAIN me[p] = Fields
    /\ me[p].role \in {"none", "login", "logout", "tui"}
    /\ me[p].role # "none" => me[p].key \in Phones
    /\ me[p].op \in {"none", "get", "set", "del"}
    /\ me[p].pc \in {"rest", "prompt", "make", "fill", "lock", "refresh", "apply"}
    /\ me[p].op = "none" <=> me[p].pc = "rest"
    /\ me[p].op = "get" => me[p].pc \in {"prompt", "make", "fill"}
    /\ me[p].role = "none" => me[p].pc = "rest" /\ ~me[p].loaded /\ me[p].cache = NoSessions
    /\ me[p].at = "authorised" => me[p].role = "login" /\ me[p].pc = "rest"
    /\ me[p].loaded \in BOOLEAN /\ me[p].cut \in BOOLEAN /\ me[p].typed \in BOOLEAN
    /\ me[p].pass \in 0 .. made /\ me[p].raw \in 0 .. MaxWrites /\ me[p].cache \in Maps

\* The lock is its holder's, from the moment it has it to the end of the write.
LockInv(p) == (lock = p) <=> (me[p].op \in {"set", "del"} /\ me[p].pc # "lock")

\* A store is loaded or loads; at the write it has the newest file.
LoadInv(p) ==
    /\ me[p].pc \in {"prompt", "make", "fill"} => ~me[p].loaded
    /\ me[p].loaded => me[p].raw <= file.stamp
    /\ me[p].loaded /\ me[p].raw = file.stamp => me[p].cache = file.map
    /\ me[p].pc = "apply" => me[p].loaded /\ me[p].raw = file.stamp

\* What a login that was not cut off knows of is in the file.
LoginInv(p) ==
    me[p].role = "login" /\ ~me[p].cut =>
        /\ me[p].cache[me[p].key] # 0 => file.map[me[p].key] # 0
        /\ me[p].at = "authorised" => file.map[me[p].key] # 0

\* Old is in use from the start or never, and a store that is open has a passphrase.
PassInv(p) ==
    /\ me[p].loaded \/ me[p].pc \in {"fill", "apply"} => me[p].pass # 0
    /\ me[p].pc = "make" => keyring # Old
    /\ me[p].pass \in {0, Typed} \/ (me[p].pass = Old <=> keyring = Old)

ProcInv(p) == Shape(p) /\ LockInv(p) /\ LoadInv(p) /\ LoginInv(p) /\ PassInv(p)

FileInv ==
    /\ keyring \in 0 .. made /\ keyring # Typed /\ made \in Nat /\ made >= Old
    /\ file \in [stamp : 0 .. MaxWrites, pass : 0 .. made, map : Maps]
    /\ file.stamp # 0 => file.pass # 0
    /\ file.pass \in {0, Typed} \/ (file.pass = Old <=> keyring = Old)
    /\ \A l \in printed : l[2] => file.map[l[1]] # 0

RestInv ==
    /\ lock \in Procs \cup {Nobody}
    /\ accounts \subseteq Phones /\ printed \subseteq Phones \X BOOLEAN
    /\ starts \in 0 .. MaxStarts /\ faults \in 0 .. MaxFaults

SecretsInv ==
    /\ FileInv /\ RestInv /\ me = [p \in Procs |-> me[p]]
    /\ \A p \in Procs : ProcInv(p)

LEMMA SecretsInit == ASSUME Bounds PROVE Init => SecretsInv
<1> SUFFICES ASSUME Init PROVE SecretsInv
  OBVIOUS
<1>1. NoSessions \in Maps
  BY DEF Bounds, NoSessions, Maps
<1>2. FileInv
  BY <1>1 DEF Init, FileInv, Absent, Old, Typed, Bounds
<1>3. RestInv
  BY DEF Init, RestInv, Bounds
<1>4. ASSUME NEW p \in Procs PROVE ProcInv(p)
  <2>1. me[p] = Gone
    BY DEF Init
  <2>2. Shape(p)
    <3>1. DOMAIN Gone = Fields
      BY DEF Gone, Fields
    <3>2. 0 \in 0 .. made /\ 0 \in 0 .. MaxWrites
      BY DEF Init, Old, Bounds
    <3> QED  BY <1>1, <2>1, <3>1, <3>2 DEF Gone, Shape
  <2>3. LockInv(p) /\ LoadInv(p)
    BY <2>1 DEF Init, Gone, LockInv, LoadInv, Bounds
  <2>4. LoginInv(p) /\ PassInv(p)
    BY <2>1 DEF Gone, LoginInv, PassInv
  <2> QED  BY <2>2, <2>3, <2>4 DEF ProcInv
<1> QED  BY <1>2, <1>3, <1>4 DEF SecretsInv, Init

LEMMA InvTypes == SecretsInv => TypeOK
<1> SUFFICES ASSUME SecretsInv PROVE TypeOK
  OBVIOUS
<1>1. file \in [stamp : 0 .. MaxWrites, pass : 0 .. made, map : Maps]
  BY DEF SecretsInv, FileInv
<1> QED  BY <1>1 DEF SecretsInv, TypeOK, FileInv, RestInv, ProcInv, Shape, LockInv, Maps

(* A step of one process writes its own record alone.                      *)
LEMMA Becomes ==
  ASSUME SecretsInv, NEW p \in Procs, NEW change, DOMAIN change \subseteq Fields, Become(p, change)
  PROVE  /\ me' = [q \in Procs |-> me'[q]]
         /\ \A q \in Procs \ {p} : me'[q] = me[q]
         /\ DOMAIN me'[p] = Fields
         /\ \A f \in Fields : me'[p][f] = IF f \in DOMAIN change THEN change[f] ELSE me[p][f]
<1>1. DOMAIN me[p] = Fields
  BY DEF SecretsInv, ProcInv, Shape
<1>2. me' = [me EXCEPT ![p] = With(me[p], change)]
  BY DEF Become
<1> QED  BY <1>1, <1>2 DEF SecretsInv, With

(* What the others are left with when one process does not touch the file. *)
LEMMA Bystanders ==
  ASSUME SecretsInv, NEW p \in Procs,
         \A q \in Procs \ {p} : me'[q] = me[q],
         UNCHANGED file, lock' = lock \/ (lock \in {p, Nobody} /\ lock' \in {p, Nobody}),
         made' \in Nat, made' >= made, keyring' = Old <=> keyring = Old,
         Bounds
  PROVE  \A q \in Procs \ {p} : ProcInv(q)'
<1> SUFFICES ASSUME NEW q \in Procs, q # p PROVE ProcInv(q)'
  OBVIOUS
<1>1. ProcInv(q) /\ me'[q] = me[q] /\ made \in Nat
  BY DEF SecretsInv, FileInv
<1>2. Shape(q)'
  BY <1>1 DEF ProcInv, Shape
<1>3. LockInv(q)'
  BY <1>1 DEF ProcInv, LockInv, Bounds
<1>4. LoadInv(q)' /\ LoginInv(q)'
  BY <1>1 DEF ProcInv, LoadInv, LoginInv
<1>5. PassInv(q)'
  BY <1>1 DEF ProcInv, PassInv
<1> QED  BY <1>2, <1>3, <1>4, <1>5 DEF ProcInv

(* A step that leaves the file alone keeps the invariant if the one who    *)
(* takes it keeps its own part.                                            *)
LEMMA QuietStep ==
  ASSUME Bounds, SecretsInv, NEW p \in Procs, NEW change,
         DOMAIN change \subseteq Fields, Become(p, change),
         UNCHANGED file, lock' = lock \/ (lock \in {p, Nobody} /\ lock' \in {p, Nobody}),
         made' \in Nat, made' >= made, keyring' = Old <=> keyring = Old,
         keyring' \in 0 .. made', keyring' # Typed,
         RestInv', \A l \in printed' : l[2] => file.map[l[1]] # 0, ProcInv(p)'
  PROVE  SecretsInv'
<1>1. /\ me' = [q \in Procs |-> me'[q]] /\ \A q \in Procs \ {p} : me'[q] = me[q]
  BY Becomes
<1>2. \A q \in Procs : ProcInv(q)'
  BY <1>1, Bystanders
<1>3. FileInv'
  <2>1. FileInv /\ made \in Nat
    BY DEF SecretsInv, FileInv
  <2>2. 0 .. made \subseteq 0 .. made'
    BY <2>1
  <2>3. file' \in [stamp : 0 .. MaxWrites, pass : 0 .. made', map : Maps]
    BY <2>1, <2>2 DEF FileInv
  <2> QED  BY <2>1, <2>3 DEF FileInv, Old
<1> QED  BY <1>1, <1>2, <1>3 DEF SecretsInv

LEMMA StartsKeep ==
  ASSUME Bounds, SecretsInv, NEW p \in Procs, NEW role \in {"login", "logout", "tui"}, NEW k \in Phones,
         NewSecretStore(p, role, k)
  PROVE  SecretsInv'
<1>1. PICK available \in BOOLEAN :
        Become(p, [role |-> role, key |-> k, typed |-> ~available,
                   at |-> (IF role = "logout" THEN "forget" ELSE "load"),
                   op |-> (IF role = "logout" THEN "del" ELSE "get"),
                   pc |-> (IF role = "logout" THEN "lock" ELSE "prompt")])
  BY DEF NewSecretStore
<1> DEFINE change == [role |-> role, key |-> k, typed |-> ~available,
                      at |-> (IF role = "logout" THEN "forget" ELSE "load"),
                      op |-> (IF role = "logout" THEN "del" ELSE "get"),
                      pc |-> (IF role = "logout" THEN "lock" ELSE "prompt")]
<1>2. DOMAIN change = {"role", "key", "typed", "at", "op", "pc"} /\ DOMAIN change \subseteq Fields
  BY DEF Fields
<1>3. /\ DOMAIN me'[p] = Fields /\ me'[p].role = role /\ me'[p].key = k /\ me'[p].typed = ~available
      /\ me'[p].at = (IF role = "logout" THEN "forget" ELSE "load")
      /\ me'[p].op = (IF role = "logout" THEN "del" ELSE "get")
      /\ me'[p].pc = (IF role = "logout" THEN "lock" ELSE "prompt")
      /\ me'[p].loaded = me[p].loaded /\ me'[p].pass = me[p].pass /\ me'[p].cache = me[p].cache
      /\ me'[p].raw = me[p].raw /\ me'[p].cut = me[p].cut
  BY <1>1, <1>2, Becomes DEF Fields
<1>4. UNCHANGED <<keyring, made, file, lock, accounts, printed>> /\ me[p].role = "none"
  BY DEF NewSecretStore
<1>5. ProcInv(p) /\ made \in Nat /\ keyring \in 0 .. made /\ keyring # Typed
      /\ \A l \in printed : l[2] => file.map[l[1]] # 0
  BY DEF SecretsInv, FileInv
<1>6. Shape(p)' /\ LockInv(p)'
  BY <1>3, <1>4, <1>5 DEF ProcInv, Shape, LockInv
<1>7. LoadInv(p)' /\ PassInv(p)'
  BY <1>3, <1>4, <1>5 DEF ProcInv, Shape, LoadInv, PassInv
<1>8. LoginInv(p)'
  BY <1>3, <1>4, <1>5 DEF ProcInv, Shape, LoginInv, NoSessions
<1>9. RestInv'
  BY <1>4 DEF SecretsInv, RestInv, NewSecretStore, Fault, Bounds
<1> QED
  BY <1>1, <1>2, <1>4, <1>5, <1>6, <1>7, <1>8, <1>9, QuietStep DEF ProcInv

(* The command goes on after a failed operation without a session it could *)
(* mistake for one in the file.                                            *)
LEMMA RefusedKeeps ==
  ASSUME Bounds, SecretsInv, NEW p \in Procs, NEW change \in Refused(p), Become(p, change),
         me[p].role # "none", ~me[p].loaded, lock' = Unlocked(p),
         UNCHANGED <<keyring, made, file>>
  PROVE  DOMAIN change \subseteq Fields /\ ProcInv(p)'
<1> DEFINE idle == [op |-> "none", pc |-> "rest", pass |-> 0, cache |-> NoSessions]
           alive == With(idle, [at |-> "authorised", cut |-> TRUE])
<1>1. change = idle \/ (change = alive /\ me[p].role = "login") \/ change = Gone
  BY DEF Refused
<1>2. /\ DOMAIN idle = {"op", "pc", "pass", "cache"}
      /\ DOMAIN [at |-> "authorised", cut |-> TRUE] = {"at", "cut"}
      /\ DOMAIN Gone = Fields
  BY DEF Gone, Fields
<1>3. /\ DOMAIN alive = {"op", "pc", "pass", "cache", "at", "cut"}
      /\ alive.op = "none" /\ alive.pc = "rest" /\ alive.pass = 0 /\ alive.cache = NoSessions
      /\ alive.at = "authorised" /\ alive.cut = TRUE
  BY <1>2 DEF With
<1>4. DOMAIN change \subseteq Fields
  BY <1>1, <1>2, <1>3 DEF Fields
<1>5. /\ DOMAIN me'[p] = Fields
      /\ \A f \in Fields : me'[p][f] = IF f \in DOMAIN change THEN change[f] ELSE me[p][f]
  BY <1>4, Becomes
<1>6. /\ ProcInv(p) /\ made \in Nat /\ 0 \in 0 .. made /\ NoSessions \in Maps /\ 0 \in 0 .. MaxWrites
      /\ file \in [stamp : 0 .. MaxWrites, pass : 0 .. made, map : Maps]
  BY DEF SecretsInv, FileInv, NoSessions, Maps, Bounds
<1>7. lock' # p
  BY DEF Unlocked, Bounds
<1> HIDE DEF alive
<1>8. CASE change = idle \/ (change = alive /\ me[p].role = "login")
  <2>1. /\ me'[p].op = "none" /\ me'[p].pc = "rest" /\ me'[p].pass = 0 /\ me'[p].cache = NoSessions
        /\ me'[p].role = me[p].role /\ me'[p].key = me[p].key /\ me'[p].typed = me[p].typed
        /\ me'[p].loaded = me[p].loaded /\ me'[p].raw = me[p].raw
        /\ (me'[p].cut = me[p].cut /\ me'[p].at = me[p].at) \/ (me'[p].cut = TRUE /\ me'[p].at = "authorised" /\ me[p].role = "login")
    BY <1>2, <1>3, <1>5, <1>8 DEF Fields
  <2>2. Shape(p)'
    BY <1>5, <1>6, <2>1 DEF ProcInv, Shape
  <2>3. LockInv(p)' /\ LoadInv(p)' /\ PassInv(p)'
    BY <1>6, <1>7, <2>1 DEF ProcInv, LockInv, LoadInv, PassInv
  <2>4. LoginInv(p)'
    BY <1>6, <2>1 DEF ProcInv, LoginInv, NoSessions, Shape
  <2> QED  BY <1>4, <2>2, <2>3, <2>4 DEF ProcInv
<1>9. ASSUME change = Gone PROVE ProcInv(p)'
  <2>1. me'[p].role = "none" /\ me'[p].op = "none" /\ me'[p].pc = "rest" /\ me'[p].pass = 0
        /\ me'[p].cache = NoSessions /\ me'[p].loaded = FALSE /\ me'[p].raw = 0 /\ me'[p].at = "gone"
        /\ me'[p].cut = FALSE /\ me'[p].typed = FALSE
    BY <1>2, <1>5, <1>9 DEF Gone, Fields
  <2>2. Shape(p)'
    BY <1>5, <1>6, <2>1 DEF Shape
  <2> QED  BY <1>6, <1>7, <2>1, <2>2 DEF ProcInv, LockInv, LoadInv, LoginInv, PassInv
<1> QED  BY <1>1, <1>4, <1>8, <1>9

(* Prompt, KeyringPassphrase and EnsureLoaded: the passphrase and the file. *)
LEMMA LoadFailsKeeps ==
  ASSUME Bounds, SecretsInv, NEW p \in Procs, me[p].role # "none", ~me[p].loaded, LoadFails(p),
         UNCHANGED <<keyring, made, file, accounts, printed, starts>>, faults' \in 0 .. MaxFaults
  PROVE  SecretsInv'
<1>1. PICK change \in Refused(p) : Become(p, change)
  BY DEF LoadFails
<1>2. lock' = Unlocked(p)
  BY DEF LoadFails
<1>3. DOMAIN change \subseteq Fields /\ ProcInv(p)'
  BY <1>1, <1>2, RefusedKeeps
<1>4. lock' = lock \/ (lock = p /\ lock' = Nobody)
  BY <1>2 DEF Unlocked
<1>5. RestInv'
  BY <1>4 DEF SecretsInv, RestInv
<1>6. made \in Nat /\ keyring \in 0 .. made /\ keyring # Typed /\ \A l \in printed : l[2] => file.map[l[1]] # 0
  BY DEF SecretsInv, FileInv
<1> QED  BY <1>1, <1>3, <1>4, <1>5, <1>6, QuietStep

LEMMA FaultBound == ASSUME Bounds, SecretsInv, Fault \/ UNCHANGED faults PROVE faults' \in 0 .. MaxFaults
  BY DEF Fault, Bounds, SecretsInv, RestInv

LEMMA PromptKeeps ==
  ASSUME Bounds, SecretsInv, NEW p \in Procs, Prompt(p)
  PROVE  SecretsInv'
<1>1. /\ me[p].pc = "prompt" /\ me[p].role # "none" /\ ~me[p].loaded /\ ProcInv(p)
      /\ UNCHANGED <<keyring, made, file, accounts, printed, starts>>
  BY DEF Prompt, Running, SecretsInv, ProcInv, LoadInv
<1>2. made \in Nat /\ made >= 2 /\ keyring \in 0 .. made /\ keyring # Typed /\ \A l \in printed : l[2] => file.map[l[1]] # 0
  BY DEF SecretsInv, FileInv, Old
<1>3. ASSUME UNCHANGED <<lock, faults>> PROVE RestInv'
  BY <1>1, <1>3 DEF SecretsInv, RestInv
<1>4. ASSUME NEW pass \in {Typed, keyring}, pass # 0, Become(p, [pass |-> pass, pc |-> "fill"]),
             UNCHANGED <<lock, faults>>
      PROVE  SecretsInv'
  <2>1. DOMAIN [pass |-> pass, pc |-> "fill"] = {"pass", "pc"} /\ {"pass", "pc"} \subseteq Fields
    BY DEF Fields
  <2>2. DOMAIN me'[p] = Fields /\ me'[p].pass = pass /\ me'[p].pc = "fill"
        /\ \A f \in Fields \ {"pass", "pc"} : me'[p][f] = me[p][f]
    BY <1>4, <2>1, Becomes
  <2>3. me'[p].role = me[p].role /\ me'[p].key = me[p].key /\ me'[p].at = me[p].at
        /\ me'[p].op = me[p].op /\ me'[p].typed = me[p].typed /\ me'[p].loaded = me[p].loaded
        /\ me'[p].cache = me[p].cache /\ me'[p].raw = me[p].raw /\ me'[p].cut = me[p].cut
    BY <2>2 DEF Fields
  <2>4. Shape(p)'
    <3>1. pass \in 0 .. made
      BY <1>2 DEF Typed
    <3> QED  BY <1>1, <2>2, <2>3, <3>1 DEF ProcInv, Shape
  <2>5. LockInv(p)' /\ LoadInv(p)' /\ LoginInv(p)'
    BY <1>1, <1>4, <2>2, <2>3 DEF ProcInv, LockInv, LoadInv, LoginInv
  <2>6. PassInv(p)'
    BY <1>1, <1>2, <1>4, <2>2, <2>3 DEF ProcInv, PassInv
  <2>7. ProcInv(p)'
    BY <2>4, <2>5, <2>6 DEF ProcInv
  <2> QED  BY <1>1, <1>2, <1>3, <1>4, <2>1, <2>7, QuietStep
<1>5. ASSUME keyring = 0, Become(p, [pc |-> "make"]), UNCHANGED <<lock, faults>>
      PROVE  SecretsInv'
  <2>1. DOMAIN [pc |-> "make"] = {"pc"} /\ {"pc"} \subseteq Fields
    BY DEF Fields
  <2>2. DOMAIN me'[p] = Fields /\ me'[p].pc = "make" /\ \A f \in Fields \ {"pc"} : me'[p][f] = me[p][f]
    BY <1>5, <2>1, Becomes
  <2>3. me'[p].role = me[p].role /\ me'[p].key = me[p].key /\ me'[p].at = me[p].at
        /\ me'[p].op = me[p].op /\ me'[p].typed = me[p].typed /\ me'[p].loaded = me[p].loaded
        /\ me'[p].cache = me[p].cache /\ me'[p].raw = me[p].raw /\ me'[p].cut = me[p].cut
        /\ me'[p].pass = me[p].pass
    BY <2>2 DEF Fields
  <2>4. ProcInv(p)'
    <3>1. Shape(p)' /\ LockInv(p)' /\ LoadInv(p)' /\ LoginInv(p)'
      BY <1>1, <1>5, <2>2, <2>3 DEF ProcInv, Shape, LockInv, LoadInv, LoginInv
    <3>2. PassInv(p)'
      BY <1>1, <1>5, <2>2, <2>3 DEF ProcInv, PassInv, Old
    <3> QED  BY <3>1, <3>2 DEF ProcInv
  <2> QED  BY <1>1, <1>2, <1>3, <1>5, <2>1, <2>4, QuietStep
<1>6. CASE Fault /\ LoadFails(p)
  BY <1>1, <1>6, FaultBound, LoadFailsKeeps
<1>7. Typed # 0
  BY DEF Typed
<1> QED  BY <1>4, <1>5, <1>6, <1>7 DEF Prompt

(* Becomes, field by field.                                                *)
LEMMA FieldsAfter ==
  ASSUME SecretsInv, NEW p \in Procs, NEW change, DOMAIN change \subseteq Fields, Become(p, change)
  PROVE  /\ DOMAIN me'[p] = Fields
         /\ me'[p].role = IF "role" \in DOMAIN change THEN change.role ELSE me[p].role
         /\ me'[p].key = IF "key" \in DOMAIN change THEN change.key ELSE me[p].key
         /\ me'[p].at = IF "at" \in DOMAIN change THEN change.at ELSE me[p].at
         /\ me'[p].op = IF "op" \in DOMAIN change THEN change.op ELSE me[p].op
         /\ me'[p].pc = IF "pc" \in DOMAIN change THEN change.pc ELSE me[p].pc
         /\ me'[p].typed = IF "typed" \in DOMAIN change THEN change.typed ELSE me[p].typed
         /\ me'[p].loaded = IF "loaded" \in DOMAIN change THEN change.loaded ELSE me[p].loaded
         /\ me'[p].pass = IF "pass" \in DOMAIN change THEN change.pass ELSE me[p].pass
         /\ me'[p].cache = IF "cache" \in DOMAIN change THEN change.cache ELSE me[p].cache
         /\ me'[p].raw = IF "raw" \in DOMAIN change THEN change.raw ELSE me[p].raw
         /\ me'[p].cut = IF "cut" \in DOMAIN change THEN change.cut ELSE me[p].cut
  BY Becomes DEF Fields

LEMMA PassphraseKeeps ==
  ASSUME Bounds, SecretsInv, NEW p \in Procs, KeyringPassphrase(p)
  PROVE  SecretsInv'
<1>1. /\ me[p].pc = "make" /\ me[p].role # "none" /\ ~me[p].loaded /\ keyring # Old /\ ProcInv(p)
      /\ UNCHANGED <<file, accounts, printed, starts>>
  BY DEF KeyringPassphrase, Running, SecretsInv, ProcInv, LoadInv, PassInv
<1>2. made \in Nat /\ made >= Old /\ keyring \in 0 .. made /\ keyring # Typed /\ \A l \in printed : l[2] => file.map[l[1]] # 0
  BY DEF SecretsInv, FileInv
<1>3. ASSUME made' = made + 1, keyring' = made + 1, Become(p, [pass |-> made + 1, pc |-> "fill"]),
             UNCHANGED <<lock, faults>>
      PROVE  SecretsInv'
  <2>1. DOMAIN [pass |-> made + 1, pc |-> "fill"] = {"pass", "pc"} /\ {"pass", "pc"} \subseteq Fields
    BY DEF Fields
  <2>2. made' \in Nat /\ made' >= made /\ made + 1 # Old /\ made + 1 # Typed /\ made + 1 # 0
        /\ keyring' \in 0 .. made' /\ 0 .. made \subseteq 0 .. made'
    BY <1>2, <1>3 DEF Old, Typed
  <2>3. Shape(p)'
    BY <1>1, <1>3, <2>1, <2>2, FieldsAfter DEF ProcInv, Shape
  <2>4. LockInv(p)' /\ LoadInv(p)' /\ LoginInv(p)'
    BY <1>1, <1>3, <2>1, FieldsAfter DEF ProcInv, LockInv, LoadInv, LoginInv
  <2>5. PassInv(p)'
    BY <1>1, <1>3, <2>1, <2>2, FieldsAfter DEF PassInv
  <2>6. ProcInv(p)' /\ RestInv'
    BY <1>1, <1>3, <2>3, <2>4, <2>5 DEF ProcInv, SecretsInv, RestInv
  <2> QED  BY <1>1, <1>2, <1>3, <2>1, <2>2, <2>6, QuietStep
<1>4. CASE Fault /\ LoadFails(p) /\ UNCHANGED <<keyring, made>>
  BY <1>1, <1>4, FaultBound, LoadFailsKeeps
<1> QED  BY <1>3, <1>4 DEF KeyringPassphrase

LEMMA EnsureLoadedKeeps ==
  ASSUME Bounds, SecretsInv, NEW p \in Procs, EnsureLoaded(p)
  PROVE  SecretsInv'
<1>1. /\ me[p].pc = "fill" /\ me[p].role # "none" /\ ~me[p].loaded /\ ProcInv(p)
      /\ UNCHANGED <<keyring, made, file, accounts, printed, starts>>
  BY DEF EnsureLoaded, Running, SecretsInv, ProcInv, LoadInv
<1>2. made \in Nat /\ keyring \in 0 .. made /\ keyring # Typed /\ (\A l \in printed : l[2] => file.map[l[1]] # 0)
      /\ file \in [stamp : 0 .. MaxWrites, pass : 0 .. made, map : Maps]
  BY DEF SecretsInv, FileInv
<1>3. ASSUME Become(p, With(Filled(p), [loaded |-> TRUE, cache |-> file.map, raw |-> file.stamp])),
             UNCHANGED <<lock, faults>>
      PROVE  SecretsInv'
  <2> DEFINE read == [loaded |-> TRUE, cache |-> file.map, raw |-> file.stamp]
             change == With(Filled(p), read)
  <2>1. DOMAIN read = {"loaded", "cache", "raw"}
    OBVIOUS
  <2>2. CASE me[p].op = "get"
    <3>1. Filled(p) = [op |-> "none", pc |-> "rest", at |-> (IF me[p].at = "load" THEN "run" ELSE me[p].at)]
      BY <2>2 DEF Filled
    <3>2. DOMAIN Filled(p) = {"op", "pc", "at"}
      BY <3>1
    <3>3. DOMAIN change = {"op", "pc", "at", "loaded", "cache", "raw"}
      BY <2>1, <3>2 DEF With
    <3>4. /\ change.op = "none" /\ change.pc = "rest"
          /\ change.at = (IF me[p].at = "load" THEN "run" ELSE me[p].at)
          /\ change.loaded = TRUE /\ change.cache = file.map /\ change.raw = file.stamp
      BY <2>1, <3>1, <3>2 DEF With
    <3> HIDE DEF change
    <3>5. DOMAIN change \subseteq Fields
      BY <3>3 DEF Fields
    <3>6. Become(p, change)
      BY <1>3 DEF change
    <3>7. Shape(p)'
      <4>1. /\ DOMAIN me'[p] = Fields /\ me'[p].op = "none" /\ me'[p].pc = "rest"
            /\ me'[p].at \in {"run", me[p].at} /\ me'[p].loaded = TRUE
            /\ me'[p].raw = file.stamp /\ me'[p].cache = file.map
            /\ me'[p].role = me[p].role /\ me'[p].key = me[p].key /\ me'[p].typed = me[p].typed
            /\ me'[p].pass = me[p].pass /\ me'[p].cut = me[p].cut
        BY <3>3, <3>4, <3>5, <3>6, FieldsAfter
      <4>2. file.stamp \in 0 .. MaxWrites /\ file.map \in Maps
        BY <1>2
      <4> QED  BY <1>1, <4>1, <4>2 DEF ProcInv, Shape
    <3>8. LockInv(p)'
      BY <1>1, <1>3, <2>2, <3>3, <3>4, <3>5, <3>6, FieldsAfter DEF ProcInv, LockInv
    <3>9. LoadInv(p)'
      BY <1>1, <1>2, <3>3, <3>4, <3>5, <3>6, FieldsAfter DEF LoadInv
    <3>10. LoginInv(p)'
      BY <1>1, <1>2, <2>2, <3>3, <3>4, <3>5, <3>6, FieldsAfter DEF ProcInv, Shape, LoginInv
    <3>11. PassInv(p)'
      BY <1>1, <3>3, <3>4, <3>5, <3>6, FieldsAfter DEF ProcInv, PassInv
    <3>12. ProcInv(p)' /\ RestInv'
      BY <1>1, <1>3, <3>7, <3>8, <3>9, <3>10, <3>11 DEF ProcInv, SecretsInv, RestInv
    <3> QED  BY <1>1, <1>2, <1>3, <3>5, <3>6, <3>12, QuietStep
  <2>3. CASE me[p].op # "get"
    <3>1. Filled(p) = [pc |-> "apply"]
      BY <2>3 DEF Filled
    <3>2. DOMAIN Filled(p) = {"pc"}
      BY <3>1
    <3>3. DOMAIN change = {"pc", "loaded", "cache", "raw"}
      BY <2>1, <3>2 DEF With
    <3>4. change.pc = "apply" /\ change.loaded = TRUE /\ change.cache = file.map /\ change.raw = file.stamp
      BY <2>1, <3>1, <3>2 DEF With
    <3> HIDE DEF change
    <3>5. DOMAIN change \subseteq Fields
      BY <3>3 DEF Fields
    <3>6. Become(p, change)
      BY <1>3 DEF change
    <3>7. Shape(p)'
      <4>1. /\ DOMAIN me'[p] = Fields /\ me'[p].pc = "apply" /\ me'[p].loaded = TRUE
            /\ me'[p].raw = file.stamp /\ me'[p].cache = file.map /\ me'[p].op = me[p].op
            /\ me'[p].role = me[p].role /\ me'[p].key = me[p].key /\ me'[p].typed = me[p].typed
            /\ me'[p].pass = me[p].pass /\ me'[p].cut = me[p].cut /\ me'[p].at = me[p].at
        BY <3>3, <3>4, <3>5, <3>6, FieldsAfter
      <4>2. file.stamp \in 0 .. MaxWrites /\ file.map \in Maps
        BY <1>2
      <4> QED  BY <1>1, <2>3, <4>1, <4>2 DEF ProcInv, Shape
    <3>8. LockInv(p)'
      BY <1>1, <1>3, <2>3, <3>3, <3>4, <3>5, <3>6, FieldsAfter DEF ProcInv, Shape, LockInv
    <3>9. LoadInv(p)'
      BY <1>1, <1>2, <3>3, <3>4, <3>5, <3>6, FieldsAfter DEF LoadInv
    <3>10. LoginInv(p)'
      BY <1>1, <1>2, <3>3, <3>4, <3>5, <3>6, FieldsAfter DEF ProcInv, Shape, LoginInv
    <3>11. PassInv(p)'
      BY <1>1, <3>3, <3>4, <3>5, <3>6, FieldsAfter DEF ProcInv, PassInv
    <3>12. ProcInv(p)' /\ RestInv'
      BY <1>1, <1>3, <3>7, <3>8, <3>9, <3>10, <3>11 DEF ProcInv, SecretsInv, RestInv
    <3> QED  BY <1>1, <1>2, <1>3, <3>5, <3>6, <3>12, QuietStep
  <2> QED  BY <2>2, <2>3
<1>4. CASE LoadFails(p) /\ (UNCHANGED faults \/ Fault)
  BY <1>1, <1>4, FaultBound, LoadFailsKeeps
<1> QED  BY <1>3, <1>4 DEF EnsureLoaded

(* What every step that leaves the keyring and the file alone needs.       *)
LEMMA PlainStep ==
  ASSUME Bounds, SecretsInv, NEW p \in Procs, NEW change,
         DOMAIN change \subseteq Fields, Become(p, change),
         UNCHANGED <<keyring, made, file>>,
         lock' = lock \/ (lock \in {p, Nobody} /\ lock' \in {p, Nobody}),
         accounts' \subseteq Phones, printed' \subseteq Phones \X BOOLEAN, \A l \in printed' : l[2] => file.map[l[1]] # 0,
         starts' = starts, Fault \/ UNCHANGED faults, ProcInv(p)'
  PROVE  SecretsInv'
<1>1. made \in Nat /\ keyring \in 0 .. made /\ keyring # Typed
  BY DEF SecretsInv, FileInv
<1>2. RestInv'
  BY FaultBound DEF SecretsInv, RestInv
<1> QED  BY <1>1, <1>2, QuietStep

LEMMA KeptAreThere == SecretsInv => /\ accounts \subseteq Phones /\ printed \subseteq Phones \X BOOLEAN
                                    /\ \A l \in printed : l[2] => file.map[l[1]] # 0
                                    /\ \A p \in Procs : ProcInv(p)
  BY DEF SecretsInv, FileInv, RestInv

LEMMA TakeLockKeeps ==
  ASSUME Bounds, SecretsInv, NEW p \in Procs, TakeLock(p)
  PROVE  SecretsInv'
<1> DEFINE change == [pc |-> "refresh"]
<1>1. DOMAIN change = {"pc"} /\ {"pc"} \subseteq Fields /\ change.pc = "refresh"
  BY DEF Fields
<1>2. /\ me[p].pc = "lock" /\ me[p].role # "none" /\ lock = Nobody /\ lock' = p /\ Become(p, change)
      /\ UNCHANGED <<keyring, made, file, accounts, printed, starts, faults>> /\ ProcInv(p)
  BY KeptAreThere DEF TakeLock, Running
<1> HIDE DEF change
<1>3. Shape(p)' /\ LockInv(p)'
  BY <1>1, <1>2, FieldsAfter DEF ProcInv, Shape, LockInv
<1>4. LoadInv(p)' /\ LoginInv(p)' /\ PassInv(p)'
  BY <1>1, <1>2, FieldsAfter DEF ProcInv, LoadInv, LoginInv, PassInv
<1>5. ProcInv(p)'
  BY <1>3, <1>4 DEF ProcInv
<1> QED  BY <1>1, <1>2, <1>5, KeptAreThere, PlainStep

LEMMA RefreshKeeps ==
  ASSUME Bounds, SecretsInv, NEW p \in Procs, Refresh(p)
  PROVE  SecretsInv'
<1>1. /\ me[p].pc = "refresh" /\ me[p].role # "none" /\ ProcInv(p)
      /\ UNCHANGED <<keyring, made, file, lock, accounts, printed, starts, faults>>
  BY KeptAreThere DEF Refresh, Running
<1>2. CASE me[p].loaded /\ file.stamp = me[p].raw
  <2> DEFINE change == [pc |-> "apply"]
  <2>1. DOMAIN change = {"pc"} /\ {"pc"} \subseteq Fields /\ change.pc = "apply" /\ Become(p, change)
    BY <1>2 DEF Fields, Refresh
  <2> HIDE DEF change
  <2>2. Shape(p)' /\ LockInv(p)'
    BY <1>1, <2>1, FieldsAfter DEF ProcInv, Shape, LockInv
  <2>3. LoadInv(p)' /\ LoginInv(p)' /\ PassInv(p)'
    BY <1>1, <1>2, <2>1, FieldsAfter DEF ProcInv, LoadInv, LoginInv, PassInv
  <2>4. ProcInv(p)'
    BY <2>2, <2>3 DEF ProcInv
  <2> QED  BY <1>1, <2>1, <2>4, KeptAreThere, PlainStep
<1>3. CASE ~(me[p].loaded /\ file.stamp = me[p].raw)
  <2> DEFINE change == [loaded |-> FALSE, pc |-> Loading(p)]
  <2>1. DOMAIN change = {"loaded", "pc"} /\ {"loaded", "pc"} \subseteq Fields /\ change.pc = Loading(p)
        /\ change.loaded = FALSE /\ Become(p, change)
    BY <1>3 DEF Fields, Refresh
  <2> HIDE DEF change
  <2>2. Loading(p) \in {"prompt", "fill"} /\ (Loading(p) = "fill" => me[p].pass # 0)
    BY DEF Loading
  <2>3. Shape(p)' /\ LockInv(p)'
    <3>1. me[p].op \in {"set", "del"} /\ lock = p
      BY <1>1 DEF ProcInv, Shape, LockInv
    <3>2. /\ DOMAIN me'[p] = Fields /\ me'[p].pc = Loading(p) /\ me'[p].loaded = FALSE
          /\ me'[p].raw = me[p].raw /\ me'[p].cache = me[p].cache /\ me'[p].op = me[p].op
          /\ me'[p].role = me[p].role /\ me'[p].key = me[p].key /\ me'[p].typed = me[p].typed
          /\ me'[p].pass = me[p].pass /\ me'[p].cut = me[p].cut /\ me'[p].at = me[p].at
      BY <2>1, FieldsAfter
    <3>3. Shape(p)'
      BY <1>1, <2>2, <3>1, <3>2 DEF ProcInv, Shape
    <3>4. LockInv(p)'
      BY <1>1, <2>2, <3>1, <3>2 DEF LockInv
    <3> QED  BY <3>3, <3>4
  <2>4. LoadInv(p)' /\ LoginInv(p)' /\ PassInv(p)'
    BY <1>1, <2>1, <2>2, FieldsAfter DEF ProcInv, LoadInv, LoginInv, PassInv
  <2>5. ProcInv(p)'
    BY <2>3, <2>4 DEF ProcInv
  <2> QED  BY <1>1, <2>1, <2>5, KeptAreThere, PlainStep
<1> QED  BY <1>2, <1>3

LEMMA StoreSessionKeeps ==
  ASSUME Bounds, SecretsInv, NEW p \in Procs, StoreSession(p)
  PROVE  SecretsInv'
<1> DEFINE change == [op |-> "set", pc |-> "lock"]
<1>1. DOMAIN change = {"op", "pc"} /\ {"op", "pc"} \subseteq Fields /\ change.op = "set" /\ change.pc = "lock"
  BY DEF Fields
<1>2. /\ me[p].pc = "rest" /\ me[p].at = "run" /\ me[p].role # "none" /\ Become(p, change)
      /\ UNCHANGED <<keyring, made, file, lock, accounts, printed, starts, faults>> /\ ProcInv(p)
  BY KeptAreThere DEF StoreSession, Running
<1> HIDE DEF change
<1>3. Shape(p)' /\ LockInv(p)'
  BY <1>1, <1>2, FieldsAfter DEF ProcInv, Shape, LockInv
<1>4. LoadInv(p)' /\ LoginInv(p)' /\ PassInv(p)'
  BY <1>1, <1>2, FieldsAfter DEF ProcInv, LoadInv, LoginInv, PassInv
<1>5. ProcInv(p)'
  BY <1>3, <1>4 DEF ProcInv
<1> QED  BY <1>1, <1>2, <1>5, KeptAreThere, PlainStep

LEMMA LoadSessionKeeps ==
  ASSUME Bounds, SecretsInv, NEW p \in Procs, LoadSession(p)
  PROVE  SecretsInv'
<1> DEFINE change == [op |-> "get", pc |-> Loading(p)]
<1>1. DOMAIN change = {"op", "pc"} /\ {"op", "pc"} \subseteq Fields /\ change.op = "get" /\ change.pc = Loading(p)
  BY DEF Fields
<1>2. /\ me[p].pc = "rest" /\ me[p].at = "run" /\ me[p].role = "tui" /\ ~me[p].loaded /\ Become(p, change)
      /\ UNCHANGED <<keyring, made, file, lock, accounts, printed, starts, faults>> /\ ProcInv(p)
  BY KeptAreThere DEF LoadSession, Running
<1>3. Loading(p) \in {"prompt", "fill"} /\ (Loading(p) = "fill" => me[p].pass # 0)
  BY DEF Loading
<1> HIDE DEF change
<1>4. Shape(p)' /\ LockInv(p)'
  BY <1>1, <1>2, <1>3, FieldsAfter DEF ProcInv, Shape, LockInv
<1>5. LoadInv(p)' /\ LoginInv(p)' /\ PassInv(p)'
  BY <1>1, <1>2, <1>3, FieldsAfter DEF ProcInv, LoadInv, LoginInv, PassInv
<1>6. ProcInv(p)'
  BY <1>4, <1>5 DEF ProcInv
<1> QED  BY <1>1, <1>2, <1>6, KeptAreThere, PlainStep

LEMMA AuthorisedKeeps ==
  ASSUME Bounds, SecretsInv, NEW p \in Procs, Authorised(p)
  PROVE  SecretsInv'
<1> DEFINE change == [at |-> "authorised"]
<1>1. DOMAIN change = {"at"} /\ {"at"} \subseteq Fields /\ change.at = "authorised"
  BY DEF Fields
<1>2. /\ me[p].pc = "rest" /\ me[p].role = "login" /\ me[p].cache[me[p].key] # 0 /\ Become(p, change)
      /\ UNCHANGED <<keyring, made, file, lock, accounts, printed, starts, faults>> /\ ProcInv(p)
  BY KeptAreThere DEF Authorised, Running
<1> HIDE DEF change
<1>3. Shape(p)' /\ LockInv(p)'
  BY <1>1, <1>2, FieldsAfter DEF ProcInv, Shape, LockInv
<1>4. LoadInv(p)' /\ LoginInv(p)' /\ PassInv(p)'
  BY <1>1, <1>2, FieldsAfter DEF ProcInv, LoadInv, LoginInv, PassInv
<1>5. ProcInv(p)'
  BY <1>3, <1>4 DEF ProcInv
<1> QED  BY <1>1, <1>2, <1>5, KeptAreThere, PlainStep

LEMMA GoneFields == /\ DOMAIN Gone = Fields /\ DOMAIN Gone \subseteq Fields
                    /\ Gone.role = "none" /\ Gone.op = "none" /\ Gone.pc = "rest" /\ Gone.pass = 0
                    /\ Gone.cache = NoSessions /\ Gone.loaded = FALSE /\ Gone.raw = 0
                    /\ Gone.at = "gone" /\ Gone.cut = FALSE /\ Gone.typed = FALSE
  BY DEF Gone, Fields

(* A process that has ended has nothing left that the invariant speaks of. *)
LEMMA EndsWell ==
  ASSUME Bounds, SecretsInv, NEW p \in Procs, lock' # p, made' \in Nat,
         DOMAIN me'[p] = Fields, me'[p].role = "none", me'[p].op = "none", me'[p].pc = "rest",
         me'[p].pass = 0, me'[p].cache = NoSessions, me'[p].loaded = FALSE, me'[p].raw = 0,
         me'[p].at = "gone", me'[p].cut = FALSE, me'[p].typed = FALSE
  PROVE  ProcInv(p)'
<1>1. 0 \in 0 .. made' /\ NoSessions \in Maps /\ 0 \in 0 .. MaxWrites
  BY DEF NoSessions, Maps, Bounds
<1>2. Shape(p)'
  BY <1>1 DEF Shape
<1>3. LockInv(p)' /\ LoadInv(p)' /\ LoginInv(p)' /\ PassInv(p)'
  BY DEF LockInv, LoadInv, LoginInv, PassInv
<1> QED  BY <1>2, <1>3 DEF ProcInv

LEMMA EndsKeeps ==
  ASSUME Bounds, SecretsInv, NEW p \in Procs, Ends(p)
  PROVE  SecretsInv'
<1>1. /\ Become(p, Gone) /\ lock' = Unlocked(p) /\ (Fault \/ UNCHANGED faults)
      /\ UNCHANGED <<keyring, made, file, accounts, printed, starts>> /\ made \in Nat
  BY DEF Ends, SecretsInv, FileInv
<1>2. lock' # p /\ (lock' = lock \/ (lock = p /\ lock' = Nobody))
  BY <1>1 DEF Unlocked, Bounds
<1>3. ProcInv(p)'
  BY <1>1, <1>2, GoneFields, FieldsAfter, EndsWell DEF Fields
<1> QED  BY <1>1, <1>2, <1>3, GoneFields, KeptAreThere, PlainStep

LEMMA DeleteAccountKeeps ==
  ASSUME Bounds, SecretsInv, NEW p \in Procs, DeleteAccount(p)
  PROVE  SecretsInv'
<1>1. /\ Become(p, Gone) /\ (Fault \/ UNCHANGED faults) /\ accounts' \subseteq accounts
      /\ UNCHANGED <<keyring, made, file, lock, printed, starts>> /\ made \in Nat
      /\ me[p].pc = "rest" /\ ProcInv(p)
  BY DEF DeleteAccount, Running, SecretsInv, FileInv
<1>2. lock' # p
  BY <1>1 DEF ProcInv, Shape, LockInv
<1>3. ProcInv(p)'
  BY <1>1, <1>2, GoneFields, FieldsAfter, EndsWell DEF Fields
<1> QED  BY <1>1, <1>3, GoneFields, KeptAreThere, PlainStep

(* The login says that it succeeded: a session it stored is in the file.   *)
LEMMA SaveAccountKeeps ==
  ASSUME Bounds, SecretsInv, NEW p \in Procs, SaveAccount(p)
  PROVE  SecretsInv'
<1>1. /\ me[p].at = "authorised" /\ me[p].pc = "rest" /\ ProcInv(p) /\ made \in Nat
      /\ me[p].role = "login" /\ UNCHANGED <<keyring, made, file, lock, starts>>
  BY DEF SaveAccount, Running, SecretsInv, FileInv, ProcInv, Shape
<1>2. lock # p /\ me[p].key \in Phones /\ me[p].op = "none"
  BY <1>1 DEF ProcInv, Shape, LockInv
<1>3. CASE /\ accounts' = accounts \cup {me[p].key}
           /\ printed' = printed \cup {<<me[p].key, ~me[p].cut>>}
           /\ Become(p, Gone) /\ UNCHANGED faults
  <2>1. \A l \in printed' : l[2] => file.map[l[1]] # 0
    <3>1. me[p].cut \in BOOLEAN /\ (~me[p].cut => file.map[me[p].key] # 0)
      BY <1>1 DEF ProcInv, LoginInv, Shape
    <3>2. TAKE l \in printed'
    <3>3. CASE l \in printed
      BY <3>3, KeptAreThere
    <3>4. CASE l = <<me[p].key, ~me[p].cut>>
      <4>1. l[1] = me[p].key /\ l[2] = ~me[p].cut
        BY <3>4
      <4>2. l[2] => ~me[p].cut
        BY <4>1, Zenon
      <4> QED  BY <3>1, <4>1, <4>2
    <3> QED  BY <1>3, <3>2, <3>3, <3>4
  <2>2. ProcInv(p)'
    BY <1>1, <1>2, <1>3, GoneFields, FieldsAfter, EndsWell DEF Fields
  <2>3. accounts' \subseteq Phones /\ printed' \subseteq Phones \X BOOLEAN
    <3>1. <<me[p].key, ~me[p].cut>> \in Phones \X BOOLEAN
      BY <1>2, Zenon
    <3> QED  BY <1>2, <1>3, <3>1, KeptAreThere
  <2> QED  BY <1>1, <1>3, <2>1, <2>2, <2>3, GoneFields, PlainStep
<1>4. CASE /\ Fault /\ Become(p, [at |-> "rollback", op |-> "del", pc |-> "lock"])
           /\ UNCHANGED <<accounts, printed>>
  <2> DEFINE change == [at |-> "rollback", op |-> "del", pc |-> "lock"]
  <2>1. /\ DOMAIN change = {"at", "op", "pc"} /\ {"at", "op", "pc"} \subseteq Fields
        /\ change.at = "rollback" /\ change.op = "del" /\ change.pc = "lock" /\ Become(p, change)
    BY <1>4 DEF Fields
  <2> HIDE DEF change
  <2>2. Shape(p)'
    BY <1>1, <2>1, FieldsAfter DEF ProcInv, Shape
  <2>3. LockInv(p)' /\ LoadInv(p)' /\ LoginInv(p)' /\ PassInv(p)'
    BY <1>1, <1>2, <2>1, FieldsAfter DEF ProcInv, LockInv, LoadInv, LoginInv, PassInv
  <2>4. ProcInv(p)'
    BY <2>2, <2>3 DEF ProcInv
  <2> QED  BY <1>1, <1>4, <2>1, <2>4, KeptAreThere, PlainStep
<1> QED  BY <1>3, <1>4 DEF SaveAccount

(* Who is about to write holds the lock and has the newest file.           *)
LEMMA AtTheWrite ==
  ASSUME SecretsInv, NEW p \in Procs, me[p].pc = "apply", me[p].role # "none"
  PROVE  /\ ProcInv(p) /\ me[p].op \in {"set", "del"} /\ me[p].key \in Phones
         /\ lock = p /\ me[p].loaded /\ me[p].raw = file.stamp /\ me[p].cache = file.map
         /\ me[p].pass # 0 /\ me[p].at # "authorised"
  BY DEF SecretsInv, ProcInv, Shape, LockInv, LoadInv, PassInv

LEMMA WritesFields ==
  ASSUME SecretsInv, NEW p \in Procs, NEW change, DOMAIN change \subseteq Fields, WritesAs(p, change)
  PROVE  /\ me' = [q \in Procs |-> me'[q]]
         /\ DOMAIN me'[p] = Fields
         /\ \A f \in Fields : me'[p][f] = IF f \in DOMAIN change THEN change[f] ELSE me[p][f]
         /\ \A q \in Procs \ {p} :
               /\ DOMAIN me'[q] = Fields
               /\ \A f \in Fields \ {"cut"} : me'[q][f] = me[q][f]
               /\ me'[q].cut = IF me[p].op = "del" /\ me[q].key = me[p].key THEN TRUE ELSE me[q].cut
<1>1. \A q \in Procs : DOMAIN me[q] = Fields
  BY DEF SecretsInv, ProcInv, Shape
<1>2. me' = [q \in Procs |-> me'[q]]
  BY DEF WritesAs
<1>3. me'[p] = With(me[p], change)
  BY DEF WritesAs
<1>4. /\ DOMAIN me'[p] = Fields
      /\ \A f \in Fields : me'[p][f] = IF f \in DOMAIN change THEN change[f] ELSE me[p][f]
  BY <1>1, <1>3 DEF With
<1>5. ASSUME NEW q \in Procs \ {p}
      PROVE  /\ DOMAIN me'[q] = Fields
             /\ \A f \in Fields \ {"cut"} : me'[q][f] = me[q][f]
             /\ me'[q].cut = IF me[p].op = "del" /\ me[q].key = me[p].key THEN TRUE ELSE me[q].cut
  <2>1. me'[q] = IF me[p].op = "del" /\ me[q].key = me[p].key THEN [me[q] EXCEPT !.cut = TRUE] ELSE me[q]
    BY DEF WritesAs
  <2>2. "cut" \in Fields
    BY DEF Fields
  <2> QED  BY <1>1, <2>1, <2>2
<1> QED  BY <1>2, <1>4, <1>5

(* A write leaves the others what they had, but for a login of the phone   *)
(* whose session it takes away.                                            *)
LEMMA OthersAfterWrite ==
  ASSUME Bounds, SecretsInv, NEW p \in Procs, NEW change, DOMAIN change \subseteq Fields, WritesAs(p, change),
         me[p].pc = "apply", me[p].role # "none", lock' = Unlocked(p), UNCHANGED <<keyring, made>>,
         file' = file \/ file'.stamp = file.stamp + 1,
         \A k \in Phones : k # me[p].key \/ me[p].op # "del" => (file.map[k] # 0 => file'.map[k] # 0)
  PROVE  \A q \in Procs \ {p} : ProcInv(q)'
<1> SUFFICES ASSUME NEW q \in Procs \ {p} PROVE ProcInv(q)'
  OBVIOUS
<1>1. /\ DOMAIN me'[q] = Fields
      /\ me'[q].role = me[q].role /\ me'[q].key = me[q].key /\ me'[q].at = me[q].at
      /\ me'[q].op = me[q].op /\ me'[q].pc = me[q].pc /\ me'[q].typed = me[q].typed
      /\ me'[q].loaded = me[q].loaded /\ me'[q].pass = me[q].pass /\ me'[q].cache = me[q].cache
      /\ me'[q].raw = me[q].raw
      /\ me'[q].cut = IF me[p].op = "del" /\ me[q].key = me[p].key THEN TRUE ELSE me[q].cut
  <2>1. /\ DOMAIN me'[q] = Fields
        /\ \A f \in Fields \ {"cut"} : me'[q][f] = me[q][f]
        /\ me'[q].cut = IF me[p].op = "del" /\ me[q].key = me[p].key THEN TRUE ELSE me[q].cut
    BY WritesFields
  <2> QED  BY <2>1 DEF Fields
<1>2. ProcInv(q) /\ file.stamp \in Nat
  BY DEF SecretsInv, FileInv
<1>3. lock = p /\ lock' = Nobody /\ q # Nobody /\ me[q].pc # "apply"
  BY <1>2, AtTheWrite DEF Unlocked, Bounds, ProcInv, Shape, LockInv
<1>4. Shape(q)'
  BY <1>1, <1>2 DEF ProcInv, Shape
<1>5. LockInv(q)' /\ PassInv(q)'
  BY <1>1, <1>2, <1>3 DEF ProcInv, LockInv, PassInv
<1>6. LoadInv(q)'
  <2>1. me[q].loaded => me[q].raw \in Nat /\ me[q].raw <= file.stamp
    BY <1>2 DEF ProcInv, Shape, LoadInv
  <2>2. CASE file' = file
    BY <1>1, <1>2, <2>2 DEF ProcInv, LoadInv
  <2>3. CASE file'.stamp = file.stamp + 1
    BY <1>1, <1>2, <1>3, <2>1, <2>3 DEF ProcInv, LoadInv
  <2> QED  BY <2>2, <2>3
<1>7. LoginInv(q)'
  <2> SUFFICES ASSUME me[q].role = "login", ~me'[q].cut
               PROVE  /\ me[q].cache[me[q].key] # 0 => file'.map[me[q].key] # 0
                      /\ me[q].at = "authorised" => file'.map[me[q].key] # 0
    BY <1>1 DEF LoginInv
  <2>1. ~me[q].cut /\ (me[q].key # me[p].key \/ me[p].op # "del") /\ me[q].key \in Phones
    BY <1>1, <1>2 DEF ProcInv, Shape
  <2> QED  BY <1>2, <2>1 DEF ProcInv, LoginInv
<1> QED  BY <1>4, <1>5, <1>6, <1>7 DEF ProcInv

LEMMA WriterSees ==
  ASSUME SecretsInv, NEW p \in Procs, NEW change, DOMAIN change \subseteq Fields, WritesAs(p, change)
  PROVE  /\ me'[p].cache = IF "cache" \in DOMAIN change THEN change.cache ELSE me[p].cache
         /\ me'[p].raw = IF "raw" \in DOMAIN change THEN change.raw ELSE me[p].raw
<1>1. me'[p] = With(me[p], change)
  BY DEF WritesAs
<1>2. DOMAIN me[p] = Fields
  BY DEF SecretsInv, ProcInv, Shape
<1> QED  BY <1>1, <1>2 DEF With, Fields

(* What Stored leaves of the writer, whatever else its change says.        *)
LEMMA WriterAfter ==
  ASSUME Bounds, SecretsInv, NEW p \in Procs, NEW change, DOMAIN change \subseteq Fields, WritesAs(p, change),
         me[p].pc = "apply", me[p].role # "none", lock' = Unlocked(p), UNCHANGED <<keyring, made>>,
         \A f \in DOMAIN Stored(p) : f \in DOMAIN change /\ change[f] = Stored(p)[f],
         \A f \in DOMAIN change \ DOMAIN Stored(p) : f \in {"cache", "raw"},
         Stored(p) = Gone \/ (me'[p].cache = file'.map /\ me'[p].raw = file'.stamp),
         file'.stamp \in 0 .. MaxWrites, file'.map \in Maps
  PROVE  ProcInv(p)'
<1>1. /\ DOMAIN me'[p] = Fields
      /\ \A f \in Fields : me'[p][f] = IF f \in DOMAIN change THEN change[f] ELSE me[p][f]
  BY WritesFields
<1>2. /\ ProcInv(p) /\ me[p].op \in {"set", "del"} /\ me[p].at # "authorised"
      /\ me[p].loaded /\ me[p].pass # 0 /\ lock' # p /\ made \in Nat
  BY AtTheWrite DEF Unlocked, Bounds, SecretsInv, FileInv
<1>3. CASE Stored(p) = Gone
  <2>1. \A f \in Fields : me'[p][f] = Gone[f]
    BY <1>1, <1>3, GoneFields
  <2>2. /\ me'[p].role = "none" /\ me'[p].op = "none" /\ me'[p].pc = "rest" /\ me'[p].pass = 0
        /\ me'[p].cache = NoSessions /\ me'[p].loaded = FALSE /\ me'[p].raw = 0
        /\ me'[p].at = "gone" /\ me'[p].cut = FALSE /\ me'[p].typed = FALSE
    BY <2>1, GoneFields DEF Fields
  <2> QED  BY <1>1, <1>2, <2>2, EndsWell
<1>4. CASE Stored(p) # Gone
  <2>1. \/ /\ DOMAIN Stored(p) = {"op", "pc", "cut"} /\ Stored(p).op = "none"
           /\ Stored(p).pc = "rest" /\ Stored(p).cut = FALSE
        \/ /\ DOMAIN Stored(p) = {"op", "pc", "at"} /\ Stored(p).op = "none"
           /\ Stored(p).pc = "rest" /\ Stored(p).at = "deleteRow"
    <3>1. \/ Stored(p) = [op |-> "none", pc |-> "rest", cut |-> FALSE]
          \/ Stored(p) = [op |-> "none", pc |-> "rest", at |-> "deleteRow"]
      BY <1>4 DEF Stored
    <3> QED  BY <3>1
  <2>2. me'[p].op = "none" /\ me'[p].pc = "rest"
    BY <1>1, <2>1 DEF Fields
  <2>3. /\ me'[p].role = me[p].role /\ me'[p].key = me[p].key /\ me'[p].typed = me[p].typed
        /\ me'[p].loaded = me[p].loaded /\ me'[p].pass = me[p].pass
    BY <1>1, <2>1 DEF Fields
  <2>4. me'[p].at \in {me[p].at, "deleteRow"} /\ me'[p].cut \in {me[p].cut, FALSE}
    <3>1. "at" \in Fields /\ "cut" \in Fields
      BY DEF Fields
    <3>2. me'[p].at = me[p].at \/ ("at" \in DOMAIN Stored(p) /\ me'[p].at = Stored(p).at)
      BY <1>1, <3>1
    <3>3. me'[p].cut = me[p].cut \/ ("cut" \in DOMAIN Stored(p) /\ me'[p].cut = Stored(p).cut)
      BY <1>1, <3>1
    <3> QED  BY <2>1, <3>2, <3>3
  <2>5. me'[p].cache = file'.map /\ me'[p].raw = file'.stamp
    BY <1>4
  <2>6. Shape(p)'
    BY <1>1, <1>2, <2>2, <2>3, <2>4, <2>5 DEF ProcInv, Shape
  <2>7. LockInv(p)' /\ LoadInv(p)' /\ PassInv(p)'
    BY <1>2, <2>2, <2>3, <2>5 DEF ProcInv, LockInv, LoadInv, PassInv
  <2>8. LoginInv(p)'
    BY <1>2, <2>4, <2>5 DEF LoginInv
  <2> QED  BY <2>6, <2>7, <2>8 DEF ProcInv
<1> QED  BY <1>3, <1>4

LEMMA MutateKeeps ==
  ASSUME Bounds, SecretsInv, NEW p \in Procs, Mutate(p)
  PROVE  SecretsInv'
<1> DEFINE next == [me[p].cache EXCEPT ![me[p].key] = IF me[p].op = "del" THEN 0 ELSE file.stamp + 1]
           here == [cache |-> next, raw |-> file.stamp + 1]
<1>1. /\ me[p].pc = "apply" /\ me[p].role # "none" /\ lock' = Unlocked(p)
      /\ printed' = (IF me[p].op = "del" THEN {l \in printed : l[1] # me[p].key} ELSE printed)
      /\ UNCHANGED <<keyring, made, accounts, starts>>
  BY DEF Mutate, Running
<1>2. /\ ProcInv(p) /\ me[p].op \in {"set", "del"} /\ me[p].key \in Phones
      /\ lock = p /\ me[p].loaded /\ me[p].raw = file.stamp /\ me[p].cache = file.map
      /\ me[p].pass # 0 /\ me[p].at # "authorised"
  BY <1>1, AtTheWrite
<1>3. /\ file \in [stamp : 0 .. MaxWrites, pass : 0 .. made, map : Maps] /\ made \in Nat
      /\ \A l \in printed : l[2] => file.map[l[1]] # 0
  BY DEF SecretsInv, FileInv
<1>4. \A k \in Phones : next[k] = IF k # me[p].key THEN file.map[k]
                                  ELSE IF me[p].op = "del" THEN 0 ELSE file.stamp + 1
  BY <1>2, <1>3 DEF Maps
<1>5. \A k \in Phones : k # me[p].key \/ me[p].op # "del" => (file.map[k] # 0 => next[k] # 0)
  BY <1>3, <1>4
<1>6. \A l \in printed' : l \in printed /\ l[1] \in Phones /\ (l[1] # me[p].key \/ me[p].op # "del")
  BY <1>1, KeptAreThere
<1>7. DOMAIN Stored(p) \subseteq Fields
  <2>1. \/ Stored(p) = [op |-> "none", pc |-> "rest", cut |-> FALSE]
        \/ Stored(p) = [op |-> "none", pc |-> "rest", at |-> "deleteRow"]
        \/ Stored(p) = Gone
    BY DEF Stored
  <2> QED  BY <2>1, GoneFields DEF Fields
<1>8. accounts' \subseteq Phones /\ printed' \subseteq Phones \X BOOLEAN
      /\ (lock' = lock \/ (lock \in {p, Nobody} /\ lock' \in {p, Nobody}))
  BY <1>1, <1>2, KeptAreThere DEF Unlocked
<1> HIDE DEF next, here
<1>9. CASE next = me[p].cache /\ WritesAs(p, Stored(p)) /\ UNCHANGED <<file, faults>>
  <2>1. Stored(p) = Gone \/ (me'[p].cache = file'.map /\ me'[p].raw = file'.stamp)
    <3>1. ("cache" \notin DOMAIN Stored(p) => me'[p].cache = me[p].cache)
          /\ ("raw" \notin DOMAIN Stored(p) => me'[p].raw = me[p].raw)
      BY <1>7, <1>9, WriterSees
    <3>2. Stored(p) = Gone \/ ("cache" \notin DOMAIN Stored(p) /\ "raw" \notin DOMAIN Stored(p))
      BY DEF Stored
    <3> QED  BY <1>2, <1>9, <3>1, <3>2 DEF Fields
  <2>2. file'.stamp \in 0 .. MaxWrites /\ file'.map \in Maps
    BY <1>3, <1>9
  <2>3. ProcInv(p)'
    BY <1>1, <1>7, <1>9, <2>1, <2>2, WriterAfter
  <2>4. \A q \in Procs \ {p} : ProcInv(q)'
    BY <1>1, <1>7, <1>9, OthersAfterWrite
  <2>5. me' = [q \in Procs |-> me'[q]]
    BY <1>7, <1>9, WritesFields
  <2>6. \A l \in printed' : l[2] => file'.map[l[1]] # 0
    BY <1>3, <1>6, <1>9
  <2>7. FileInv'
    BY <1>1, <1>9, <2>6 DEF SecretsInv, FileInv
  <2>8. RestInv'
    BY <1>1, <1>8, <1>9 DEF SecretsInv, RestInv
  <2> QED  BY <2>3, <2>4, <2>5, <2>7, <2>8 DEF SecretsInv
<1>10. CASE /\ next # me[p].cache /\ file.stamp < MaxWrites
            /\ file' = [stamp |-> file.stamp + 1, pass |-> me[p].pass, map |-> next]
            /\ WritesAs(p, With(here, Stored(p))) /\ UNCHANGED faults
  <2> DEFINE change == With(here, Stored(p))
  <2>1. DOMAIN here = {"cache", "raw"} /\ here.cache = next /\ here.raw = file.stamp + 1
    BY DEF here
  <2>2. /\ DOMAIN change = {"cache", "raw"} \cup DOMAIN Stored(p)
        /\ \A f \in DOMAIN change : change[f] = IF f \in DOMAIN Stored(p) THEN Stored(p)[f] ELSE here[f]
    BY <2>1 DEF With
  <2> HIDE DEF change
  <2>3. WritesAs(p, change) /\ DOMAIN change \subseteq Fields
    BY <1>7, <1>10, <2>2 DEF change, Fields
  <2>4. file'.stamp = file.stamp + 1 /\ file'.map = next /\ file'.pass = me[p].pass
    BY <1>10
  <2>5. file.stamp + 1 \in 0 .. MaxWrites
    BY <1>3, <1>10 DEF Bounds
  <2>6. next \in Maps
    <3>1. file.map \in Maps /\ 0 \in 0 .. MaxWrites
      BY <1>3 DEF Bounds
    <3>2. (IF me[p].op = "del" THEN 0 ELSE file.stamp + 1) \in 0 .. MaxWrites
      BY <2>5, <3>1
    <3>3. next = [file.map EXCEPT ![me[p].key] = IF me[p].op = "del" THEN 0 ELSE file.stamp + 1]
      BY <1>2 DEF next
    <3> QED  BY <3>1, <3>2, <3>3 DEF Maps
  <2>7. Stored(p) = Gone \/ (me'[p].cache = file'.map /\ me'[p].raw = file'.stamp)
    <3>1. ("cache" \in DOMAIN change => me'[p].cache = change.cache)
          /\ ("raw" \in DOMAIN change => me'[p].raw = change.raw)
      BY <2>3, WriterSees
    <3>2. Stored(p) = Gone \/ ("cache" \notin DOMAIN Stored(p) /\ "raw" \notin DOMAIN Stored(p))
      BY DEF Stored
    <3> QED  BY <2>1, <2>2, <2>4, <3>1, <3>2 DEF Fields
  <2>8. ProcInv(p)'
    <3>1. \A f \in DOMAIN Stored(p) : f \in DOMAIN change /\ change[f] = Stored(p)[f]
      BY <2>2
    <3>2. \A f \in DOMAIN change \ DOMAIN Stored(p) : f \in {"cache", "raw"}
      BY <2>2
    <3> QED  BY <1>1, <2>3, <2>4, <2>5, <2>6, <2>7, <3>1, <3>2, WriterAfter
  <2>9. \A q \in Procs \ {p} : ProcInv(q)'
    BY <1>1, <1>5, <2>3, <2>4, OthersAfterWrite
  <2>10. me' = [q \in Procs |-> me'[q]]
    BY <2>3, WritesFields
  <2>11. \A l \in printed' : l[2] => file'.map[l[1]] # 0
    BY <1>3, <1>5, <1>6, <2>4
  <2>12. FileInv'
    <3>1. file' \in [stamp : 0 .. MaxWrites, pass : 0 .. made, map : Maps]
      BY <1>2, <1>10, <2>5, <2>6 DEF ProcInv, Shape
    <3>2. me[p].pass \in {0, Typed} \/ (me[p].pass = Old <=> keyring = Old)
      BY <1>2 DEF ProcInv, PassInv
    <3> QED  BY <1>1, <1>2, <2>4, <2>11, <3>1, <3>2 DEF SecretsInv, FileInv
  <2>13. RestInv'
    BY <1>1, <1>8, <1>10 DEF SecretsInv, RestInv
  <2> QED  BY <2>8, <2>9, <2>10, <2>12, <2>13 DEF SecretsInv
<1>11. CASE /\ Fault /\ UNCHANGED file
            /\ \E change \in Refused(p) :
                 Become(p, IF change = Gone THEN change ELSE With(change, [pass |-> me[p].pass, cache |-> me[p].cache]))
  <2> DEFINE idle == [op |-> "none", pc |-> "rest", pass |-> 0, cache |-> NoSessions]
             alive == With(idle, [at |-> "authorised", cut |-> TRUE])
             same == [pass |-> me[p].pass, cache |-> me[p].cache]
  <2>1. PICK change \in Refused(p) : Become(p, IF change = Gone THEN change ELSE With(change, same))
    BY <1>11
  <2>2. change = idle \/ (change = alive /\ me[p].role = "login") \/ change = Gone
    BY DEF Refused
  <2>3. DOMAIN idle = {"op", "pc", "pass", "cache"} /\ DOMAIN same = {"pass", "cache"}
        /\ DOMAIN [at |-> "authorised", cut |-> TRUE] = {"at", "cut"}
    OBVIOUS
  <2>4. \A l \in printed' : l[2] => file.map[l[1]] # 0
    BY <1>3, <1>6
  <2>5. CASE change = Gone
    <3>1. Become(p, Gone)
      BY <2>1, <2>5
    <3>2. lock' # p
      BY <1>1, <1>2 DEF Unlocked, Bounds
    <3>3. ProcInv(p)'
      BY <1>1, <1>3, <3>1, <3>2, GoneFields, FieldsAfter, EndsWell DEF Fields
    <3> QED  BY <1>1, <1>8, <1>11, <2>4, <3>1, <3>3, GoneFields, PlainStep
  <2>6. CASE change # Gone
    <3> DEFINE final == With(change, same)
    <3>1. /\ {"op", "pc", "pass", "cache"} \subseteq DOMAIN change
          /\ DOMAIN change \subseteq {"op", "pc", "pass", "cache", "at", "cut"}
          /\ change.op = "none" /\ change.pc = "rest"
          /\ \/ "at" \notin DOMAIN change /\ "cut" \notin DOMAIN change
             \/ /\ "at" \in DOMAIN change /\ "cut" \in DOMAIN change
                /\ change.at = "authorised" /\ change.cut = TRUE /\ me[p].role = "login"
      <4>1. DOMAIN alive = {"op", "pc", "pass", "cache", "at", "cut"}
            /\ alive.op = "none" /\ alive.pc = "rest" /\ alive.at = "authorised" /\ alive.cut = TRUE
        BY <2>3 DEF With
      <4> HIDE DEF alive
      <4> QED  BY <2>2, <2>3, <2>6, <4>1
    <3>2. /\ DOMAIN final = DOMAIN change /\ final.op = "none" /\ final.pc = "rest"
          /\ final.pass = me[p].pass /\ final.cache = me[p].cache
          /\ "at" \in DOMAIN change => final.at = change.at
          /\ "cut" \in DOMAIN change => final.cut = change.cut
      BY <2>3, <3>1 DEF With
    <3>3. Become(p, final)
      BY <2>1, <2>6
    <3> HIDE DEF final
    <3>4. DOMAIN final \subseteq Fields
      BY <3>1, <3>2 DEF Fields
    <3>5. /\ DOMAIN me'[p] = Fields /\ me'[p].op = "none" /\ me'[p].pc = "rest"
          /\ me'[p].pass = me[p].pass /\ me'[p].cache = me[p].cache
          /\ me'[p].role = me[p].role /\ me'[p].key = me[p].key /\ me'[p].typed = me[p].typed
          /\ me'[p].loaded = me[p].loaded /\ me'[p].raw = me[p].raw
          /\ \/ me'[p].at = me[p].at /\ me'[p].cut = me[p].cut
             \/ me'[p].at = "authorised" /\ me'[p].cut = TRUE /\ me[p].role = "login"
      BY <3>1, <3>2, <3>3, <3>4, FieldsAfter
    <3>6. Shape(p)'
      BY <1>1, <1>2, <3>5 DEF ProcInv, Shape
    <3>7. LockInv(p)' /\ LoadInv(p)' /\ LoginInv(p)' /\ PassInv(p)'
      <4>1. lock' # p
        BY <1>1, <1>2 DEF Unlocked, Bounds
      <4> QED  BY <1>1, <1>2, <1>11, <3>5, <4>1 DEF ProcInv, LockInv, LoadInv, LoginInv, PassInv
    <3>8. ProcInv(p)'
      BY <3>6, <3>7 DEF ProcInv
    <3> QED  BY <1>1, <1>8, <1>11, <2>4, <3>3, <3>4, <3>8, PlainStep
  <2> QED  BY <2>5, <2>6
<1> QED  BY <1>9, <1>10, <1>11 DEF Mutate, next, here

LEMMA NextSecrets ==
  ASSUME Bounds, SecretsInv, [Next]_vars
  PROVE  SecretsInv'
<1>1. ASSUME NEW p \in Procs, NEW role \in {"login", "logout", "tui"}, NEW k \in Phones, NewSecretStore(p, role, k)
      PROVE  SecretsInv'
  BY <1>1, StartsKeep
<1>2. ASSUME NEW p \in Procs,
             \/ Prompt(p) \/ KeyringPassphrase(p) \/ EnsureLoaded(p)
             \/ TakeLock(p) \/ Refresh(p) \/ Mutate(p)
             \/ StoreSession(p) \/ LoadSession(p) \/ Authorised(p)
             \/ SaveAccount(p) \/ DeleteAccount(p) \/ Ends(p)
      PROVE  SecretsInv'
  BY <1>2, PromptKeeps, PassphraseKeeps, EnsureLoadedKeeps, TakeLockKeeps, RefreshKeeps, MutateKeeps,
     StoreSessionKeeps, LoadSessionKeeps, AuthorisedKeeps, SaveAccountKeeps, DeleteAccountKeeps, EndsKeeps
<1>3. CASE UNCHANGED vars
  BY <1>3 DEF vars, SecretsInv, FileInv, RestInv, ProcInv, Shape, LockInv, LoadInv, LoginInv, PassInv
<1> QED  BY <1>1, <1>2, <1>3 DEF Next

LEMMA AlwaysSecrets == ASSUME Bounds PROVE Spec => []SecretsInv
  BY SecretsInit, NextSecrets, PTL DEF Spec

(* The variables of the secret store keep their types, and the lock is     *)
(* held exactly while a write is under way.                                *)
THEOREM SecretsTypeCorrect == ASSUME Bounds PROVE Spec => []TypeOK
  BY AlwaysSecrets, InvTypes, PTL

(* A login that printed success left a session that stays in the file      *)
(* until somebody asks to forget it, for any number of processes and       *)
(* phones, whatever fails or dies between two steps, unless the store had  *)
(* refused that login's write or the phone was forgotten before its row.   *)
THEOREM LoginsAreKept == ASSUME Bounds PROVE Spec => []SuccessMeansKept
<1>1. SecretsInv => SuccessMeansKept
  BY DEF SecretsInv, FileInv, SuccessMeansKept
<1> QED  BY AlwaysSecrets, <1>1, PTL

(* What is on disk opens with the passphrase in the keyring, or with what  *)
(* the user typed, once the keyring had its entry from the start.          *)
THEOREM FileCanBeOpened == ASSUME Bounds PROVE Spec => []FileOpens
<1>1. SecretsInv => FileOpens
  BY DEF SecretsInv, FileInv, FileOpens, Old
<1> QED  BY AlwaysSecrets, <1>1, PTL

(* A store that has seen the newest file answers from what it holds.       *)
THEOREM StoresReadTheFile == ASSUME Bounds PROVE Spec => []ReadsWhatWasWritten
<1>1. SecretsInv => ReadsWhatWasWritten
  BY DEF SecretsInv, ProcInv, LoadInv, ReadsWhatWasWritten
<1> QED  BY AlwaysSecrets, <1>1, PTL

LEMMA OwnKeyStep ==
  ASSUME SecretsInv, [Next]_vars
  PROVE  OwnKeyOnly
<1>1. CASE UNCHANGED file
  BY <1>1 DEF OwnKeyOnly
<1>2. ASSUME NEW p \in Procs, Mutate(p), file' # file PROVE OwnKeyOnly
  <2> DEFINE next == [me[p].cache EXCEPT ![me[p].key] = IF me[p].op = "del" THEN 0 ELSE file.stamp + 1]
  <2>1. me[p].pc = "apply" /\ me[p].role # "none" /\ file'.map = next
    BY <1>2 DEF Mutate, Running
  <2>2. me[p].cache = file.map /\ file.map \in Maps
    BY <2>1, AtTheWrite DEF SecretsInv, FileInv
  <2>3. \A k \in Phones : k # me[p].key => file'.map[k] = file.map[k]
    BY <2>1, <2>2 DEF Maps
  <2> QED  BY <2>1, <2>3 DEF OwnKeyOnly
<1> QED
  BY <1>1, <1>2 DEF Next, vars, NewSecretStore, Prompt, KeyringPassphrase, EnsureLoaded, TakeLock,
     Refresh, StoreSession, LoadSession, Authorised, SaveAccount, DeleteAccount, Ends

(* A write changes its own phone's session and no other.                   *)
THEOREM WritesTheirOwnKey == ASSUME Bounds PROVE Spec => [][OwnKeyOnly]_vars
<1>1. SecretsInv /\ [Next]_vars => [OwnKeyOnly]_vars
  BY OwnKeyStep
<1> QED  BY AlwaysSecrets, <1>1, PTL DEF Spec
=============================================================================
