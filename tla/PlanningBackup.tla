--------------------------- MODULE PlanningBackup ---------------------------
(* Encrypted backups of the Planning database, their retention and their     *)
(* verification (planning/backup.py), the sidecar file with their outcomes   *)
(* (planning/operations.py) and how the health report reads them             *)
(* (planning/health.py).  Backups and verifications are commands: each is a  *)
(* process of its own, several may run at a time, and only the lock of the   *)
(* sidecar file, which is one of each process, would keep them apart.        *)
EXTENDS Naturals, FiniteSets

CONSTANTS
    Procs,      \* processes that run a command
    Keep,       \* PLANNING_BACKUP_RETENTION_COUNT
    Interval,   \* PLANNING_BACKUP_INTERVAL_SECONDS
    Latest,     \* newest schema this release knows
    Secrets,    \* encryption keys
    Earlier,    \* numbers of the packages that earlier runs may have left
    Place,      \* of a package's name among all names, by its schema and its number
    None,
    MaxTime, MaxRuns,   \* bounds of an instance
    MaxFaults   \* faults and changes by the operator

VARIABLES
    live,      \* the Planning database: its schema and whether its rows are sound
    key,       \* PLANNING_BACKUP_ENCRYPTION_KEY
    dir,       \* the backup directory: packages and temporary files
    state,     \* the sidecar file
    pr,        \* the processes: local variables of their command
    clock,
    made,      \* history: packages finalized so far
    last,      \* history: how the backup that ended last ended
    raced,     \* history: an update of the sidecar was lost, or a run did not end
    budget

vars == <<live, key, dir, state, pr, clock, made, last, raced, budget>>

Times == 0 .. MaxTime
Numbers == Earlier \cup (1 .. MaxRuns)
Contents == {"sound", "impossible", "corrupt"}
Entry == [kind : {"package", "temporary"}, n : Numbers, at : Times, schema : 1 .. Latest,
          content : Contents, key : Secrets, damaged : BOOLEAN]
Sidecar == [tried : Times \cup {None}, success : Times \cup {None},
            status : {"unknown", "running", "success", "failed"},
            verified : {"unknown", "success", "failed"}]
NoSidecar == [tried |-> None, success |-> None, status |-> "unknown", verified |-> "unknown"]
Unreadable == None

(* Mutants: a failure that notes the time of a success; a verification that  *)
(* writes the status of the backup.                                          *)
FailedAlike(at) == [tried |-> at, success |-> at, status |-> "failed"]
VerifiedBackup(ok) ==
    [verified |-> IF ok THEN "success" ELSE "failed", status |-> IF ok THEN "success" ELSE "failed"]

(* What the runs write: at their start, at their end, after a verification.  *)
Attempted(at) == [tried |-> at, status |-> "running"]
Succeeded(at) == [tried |-> at, success |-> at, status |-> "success"]
Failed(at) == [tried |-> at, status |-> "failed"]
Verified(ok) == [verified |-> IF ok THEN "success" ELSE "failed"]

Idle == [pc |-> "idle", n |-> 0, at |-> 0, key |-> None, entry |-> None,
         doomed |-> {}, base |-> NoSidecar, todo |-> <<>>, next |-> "idle"]

ASSUME BackupAssumption ==
    /\ IsFiniteSet(Procs) /\ Procs # {}
    /\ IsFiniteSet(Earlier) /\ Earlier \cap (1 .. MaxRuns) = {} /\ Earlier \subseteq Nat
    /\ Cardinality(Earlier) <= Keep
    /\ Place \in [(1 .. Latest) \X Numbers -> Nat]
    /\ \A x, y \in (1 .. Latest) \X Numbers : Place[x] = Place[y] => x = y
    /\ Keep \in Nat \ {0} /\ Interval \in Nat \ {0}
    /\ Latest \in Nat \ {0}
    /\ MaxTime \in Nat \ {0} /\ MaxRuns \in Nat /\ MaxFaults \in Nat
    /\ None \notin Times \cup Entry \cup Sidecar

Todo == {<<>>, Verified(TRUE), Verified(FALSE)}
        \cup {Attempted(at) : at \in Times} \cup {Succeeded(at) : at \in Times}
        \cup {Failed(at) : at \in Times}
Process == [pc : {"idle", "load", "replace", "snapshot", "seal", "finalize", "retain",
                  "unlink", "decrypt"},
            n : 0 .. MaxRuns, at : Times, key : Secrets \cup {None}, entry : Entry \cup {None},
            doomed : SUBSET Numbers, base : Sidecar, todo : Todo,
            next : {"idle", "snapshot", "succeeded", "failed", "told"}]

TypeOK ==
    /\ live \in [schema : 1 .. Latest, content : Contents]
    /\ key \in Secrets
    /\ dir \subseteq Entry
    /\ state \in Sidecar \cup {Unreadable}
    /\ pr \in [Procs -> Process]
    /\ clock \in Times
    /\ made \in Nat
    /\ last \in {"none", "success", "failed"}
    /\ raced \in BOOLEAN
    /\ budget \in [runs : 0 .. MaxRuns, faults : 0 .. MaxFaults]

EarlierPackage(n) ==
    [kind |-> "package", n |-> n, at |-> 0, schema |-> 1, content |-> "sound",
     key |-> key, damaged |-> FALSE]

Init ==
    /\ live = [schema |-> 1, content |-> "sound"]
    /\ key \in Secrets
    /\ \E ns \in SUBSET Earlier :
          /\ dir = {EarlierPackage(n) : n \in ns}
          /\ state = IF ns = {} THEN NoSidecar
                     ELSE [NoSidecar EXCEPT !.tried = 0, !.success = 0, !.status = "success"]
          /\ made = Cardinality(ns)
          /\ last = IF ns = {} THEN "none" ELSE "success"
    /\ pr = [p \in Procs |-> Idle]
    /\ clock = 1
    /\ raced = FALSE
    /\ budget = [runs |-> 0, faults |-> 0]

Run == budget.runs < MaxRuns /\ budget' = [budget EXCEPT !.runs = @ + 1]
Fault == budget.faults < MaxFaults /\ budget' = [budget EXCEPT !.faults = @ + 1]

-----------------------------------------------------------------------------
(* The sidecar file: an update reads it, changes some fields and replaces    *)
(* it.                                                                       *)

(* A file that cannot be read counts as a failed backup.                     *)
Loaded(file) == IF file = Unreadable THEN [NoSidecar EXCEPT !.status = "failed"] ELSE file

Changed(base, todo) ==
    [f \in DOMAIN base |-> IF f \in DOMAIN todo THEN todo[f] ELSE base[f]]

(* Process p updates the sidecar, then goes on at next or ends.              *)
Ends == {"succeeded", "failed", "told"}

Updating(p, todo, next) ==
    [pr[p] EXCEPT !.pc = "load", !.todo = todo, !.next = next]

LoadState(p) ==
    /\ pr[p].pc = "load"
    /\ pr' = [pr EXCEPT ![p] = [@ EXCEPT !.base = Loaded(state), !.pc = "replace"]]
    /\ UNCHANGED <<live, key, dir, state, clock, made, last, raced, budget>>

Lost(p) == Loaded(state) # pr[p].base

GoesOn(p) ==
    /\ pr' = [pr EXCEPT ![p] = IF @.next \in Ends THEN Idle
                               ELSE [pr[p] EXCEPT !.pc = pr[p].next, !.base = NoSidecar,
                                                  !.todo = <<>>, !.next = "idle"]]
    /\ last' = CASE pr[p].next = "succeeded" -> "success"
                 [] pr[p].next = "failed" -> "failed"
                 [] OTHER -> last

ReplaceState(p) ==
    /\ pr[p].pc = "replace"
    /\ state' = Changed(pr[p].base, pr[p].todo)
    /\ raced' = (Lost(p) \/ (raced /\ pr[p].next \notin {"succeeded", "failed"}))
    /\ GoesOn(p)
    /\ UNCHANGED <<live, key, dir, clock, made, budget>>

(* An OSError is ignored, but for the success of a backup: that is reported  *)
(* as a failure although its package is there.                               *)
ReplaceFails(p) ==
    /\ pr[p].pc = "replace" /\ Fault
    /\ IF pr[p].next = "succeeded"
         THEN /\ pr' = [pr EXCEPT ![p] = Updating(p, Failed(@.at), "failed")]
              /\ UNCHANGED <<last, raced>>
         ELSE GoesOn(p) /\ raced' = TRUE
    /\ UNCHANGED <<live, key, dir, state, clock, made>>

-----------------------------------------------------------------------------
(* backup                                                                    *)

StartBackup(p) ==
    /\ pr[p].pc = "idle" /\ Run
    /\ pr' = [pr EXCEPT ![p] = [Idle EXCEPT !.pc = "load", !.n = budget'.runs, !.at = clock,
                                            !.key = key, !.todo = Attempted(clock),
                                            !.next = "snapshot"]]
    /\ UNCHANGED <<live, key, dir, state, clock, made, last, raced>>

(* The snapshot is a consistent copy of the database at one moment.          *)
Snapshot(p) ==
    [kind |-> "temporary", n |-> pr[p].n, at |-> pr[p].at, schema |-> live.schema,
     content |-> live.content, key |-> pr[p].key, damaged |-> FALSE]

TakeSnapshot(p) ==
    /\ pr[p].pc = "snapshot"
    /\ pr' = [pr EXCEPT ![p] = [@ EXCEPT !.pc = "seal", !.entry = Snapshot(p), !.key = None]]
    /\ UNCHANGED <<live, key, dir, state, clock, made, last, raced, budget>>

(* The copy is inspected; the schema must still be the one of the database.  *)
Inspected(p) == pr[p].entry.content # "corrupt" /\ pr[p].entry.schema = live.schema

Seal(p) ==
    /\ pr[p].pc = "seal" /\ Inspected(p)
    /\ dir' = dir \cup {pr[p].entry}
    /\ pr' = [pr EXCEPT ![p].pc = "finalize"]
    /\ UNCHANGED <<live, key, state, clock, made, last, raced, budget>>

(* A run that fails removes its temporary file and records the failure.      *)
GiveUp(p) ==
    /\ dir' = dir \ {pr[p].entry}
    /\ pr' = [pr EXCEPT ![p] = Updating(p, Failed(@.at), "failed")]
    /\ UNCHANGED <<live, key, state, clock, made, last, raced>>

Refused(p) ==
    /\ pr[p].pc = "seal" /\ ~Inspected(p)
    /\ GiveUp(p) /\ UNCHANGED budget

RunFails(p) ==
    /\ pr[p].pc \in {"snapshot", "seal", "finalize"} /\ Fault
    /\ GiveUp(p)

Package(entry) == [entry EXCEPT !.kind = "package"]

Finalize(p) ==
    /\ pr[p].pc = "finalize"
    /\ pr[p].entry \in dir
    /\ dir' = (dir \ {pr[p].entry}) \cup {Package(pr[p].entry)}
    /\ made' = made + 1
    /\ pr' = [pr EXCEPT ![p] = [@ EXCEPT !.pc = "retain", !.entry = Package(pr[p].entry)]]
    /\ UNCHANGED <<live, key, state, clock, last, raced, budget>>

(* list_backups sorts by the second of the start and the name, in which the  *)
(* schema and random digits follow the second.                               *)
Packages == {e \in dir : e.kind = "package"}
Newer(e, d) ==
    \/ e.at > d.at
    \/ e.at = d.at /\ Place[<<e.schema, e.n>>] > Place[<<d.schema, d.n>>]

(* Mutant: a package fewer is kept.                                          *)
KeptFewer(new) ==
    LET others == {e \in Packages : e.n # new}
        room == IF Cardinality(others) + 2 < Keep THEN Cardinality(others)
                ELSE IF Keep > 2 THEN Keep - 2 ELSE 0
    IN  {{new} \cup {e.n : e \in s} :
            s \in {t \in SUBSET others : /\ Cardinality(t) = room
                                        /\ \A e \in t, d \in others \ t : Newer(e, d)}}

(* _enforce_retention keeps the new package and the newest of the others.    *)
Kept(new) ==
    LET others == {e \in Packages : e.n # new}
        room == IF Cardinality(others) < Keep - 1 THEN Cardinality(others) ELSE Keep - 1
    IN  {{new} \cup {e.n : e \in s} :
            s \in {t \in SUBSET others : /\ Cardinality(t) = room
                                        /\ \A e \in t, d \in others \ t : Newer(e, d)}}

ListPackages(p) ==
    /\ pr[p].pc = "retain"
    /\ \E kept \in Kept(pr[p].n) :
          pr' = [pr EXCEPT ![p] = [@ EXCEPT !.pc = "unlink",
                                            !.doomed = {e.n : e \in Packages} \ kept]]
    /\ UNCHANGED <<live, key, dir, state, clock, made, last, raced, budget>>

(* A package that cannot be removed stays: cleanup is deferred.              *)
Unlink(p) ==
    /\ pr[p].pc = "unlink"
    /\ \E n \in pr[p].doomed :
          /\ \/ dir' = {e \in dir : e.n # n} /\ UNCHANGED budget
             \/ UNCHANGED dir /\ Fault
          /\ pr' = [pr EXCEPT ![p].doomed = @ \ {n}]
    /\ UNCHANGED <<live, key, state, clock, made, last, raced>>

Retained(p) ==
    /\ pr[p].pc = "unlink" /\ pr[p].doomed = {}
    /\ pr' = [pr EXCEPT ![p] = Updating(p, Succeeded(@.at), "succeeded")]
    /\ UNCHANGED <<live, key, dir, state, clock, made, last, raced, budget>>

(* The directory cannot be listed, or synced after the removals.             *)
RetentionFails(p) ==
    /\ pr[p].pc = "retain" \/ (pr[p].pc = "unlink" /\ pr[p].doomed = {})
    /\ Fault
    /\ pr' = [pr EXCEPT ![p] = Updating(p, Failed(@.at), "failed")]
    /\ UNCHANGED <<live, key, dir, state, clock, made, last, raced>>

-----------------------------------------------------------------------------
(* verify                                                                    *)

StartVerify(p, e) ==
    /\ pr[p].pc = "idle" /\ Run
    /\ e \in Packages
    /\ pr' = [pr EXCEPT ![p] = [Idle EXCEPT !.pc = "decrypt", !.key = key, !.entry = e]]
    /\ UNCHANGED <<live, key, dir, state, clock, made, last, raced>>

(* Retention may remove the package, and it may be damaged, before it is     *)
(* read.  What is read has been authenticated with the key.                  *)
Decrypts(p) ==
    \E e \in Packages : e.n = pr[p].entry.n /\ ~e.damaged /\ e.key = pr[p].key

(* In isolation: schema, migration of the copy, integrity, semantic checks.  *)
SoundRows(e) == e.content = "sound"
Restores(e) == e.schema <= Latest /\ SoundRows(e)

Verify(p) ==
    /\ pr[p].pc = "decrypt"
    /\ pr' = [pr EXCEPT ![p] = Updating(p, Verified(Decrypts(p) /\ Restores(@.entry)), "told")]
    /\ UNCHANGED <<live, key, dir, state, clock, made, last, raced, budget>>

(* An error of the migration of the copy, or of the missing cipher, is not   *)
(* among those that verify records: the command ends without a trace.        *)
VerifyEscapes(p) ==
    /\ pr[p].pc = "decrypt" /\ Fault
    /\ pr' = [pr EXCEPT ![p] = Idle]
    /\ UNCHANGED <<live, key, dir, state, clock, made, last, raced>>

-----------------------------------------------------------------------------
(* The health report of the bot.                                             *)

Age(t) == clock - t

BackupStatus ==
    LET s == Loaded(state)
    IN  CASE s.status = "failed" -> "failed"
          [] s.status # "failed" /\ s.success = None -> "unknown"
          [] s.status # "failed" /\ s.success # None /\ Age(s.success) > Interval -> "overdue"
          [] OTHER -> "fresh"

-----------------------------------------------------------------------------
(* What else happens.                                                        *)

Tick ==
    /\ clock < MaxTime
    /\ clock' = clock + 1
    /\ UNCHANGED <<live, key, dir, state, pr, made, last, raced, budget>>

(* A process ends anywhere: its temporary file stays.                        *)
Crash(p) ==
    /\ pr[p].pc # "idle" /\ Fault
    /\ pr' = [pr EXCEPT ![p] = Idle]
    /\ raced' = TRUE
    /\ UNCHANGED <<live, key, dir, state, clock, made, last>>

(* The bot migrates the database, an operator changes the key.               *)
Migrate ==
    /\ live.schema < Latest /\ Fault
    /\ live' = [live EXCEPT !.schema = @ + 1]
    /\ UNCHANGED <<key, dir, state, pr, clock, made, last, raced>>

ChangeKey ==
    /\ Fault
    /\ key' \in Secrets \ {key}
    /\ UNCHANGED <<live, dir, state, pr, clock, made, last, raced>>

(* Rows no verification accepts, a broken database, damaged files.           *)
Spoil ==
    /\ Fault
    /\ \/ /\ live' \in {[live EXCEPT !.content = x] : x \in Contents \ {live.content}}
          /\ UNCHANGED <<dir, state>>
       \/ /\ \E e \in Packages : dir' = (dir \ {e}) \cup {[e EXCEPT !.damaged = TRUE]}
          /\ UNCHANGED <<live, state>>
       \/ /\ state' = Unreadable
          /\ UNCHANGED <<live, dir>>
    /\ raced' = (raced \/ state' # state)
    /\ UNCHANGED <<key, pr, clock, made, last>>

Next ==
    \/ \E p \in Procs :
          \/ LoadState(p) \/ ReplaceState(p) \/ ReplaceFails(p)
          \/ StartBackup(p) \/ TakeSnapshot(p) \/ Seal(p) \/ Refused(p) \/ RunFails(p)
          \/ Finalize(p) \/ ListPackages(p) \/ Unlink(p) \/ Retained(p) \/ RetentionFails(p)
          \/ \E e \in Packages : StartVerify(p, e)
          \/ Verify(p) \/ VerifyEscapes(p) \/ Crash(p)
    \/ Tick \/ Migrate \/ ChangeKey \/ Spoil

Spec == Init /\ [][Next]_vars

-----------------------------------------------------------------------------

Busy == {p \in Procs : pr[p].pc # "idle"}

(* Retention never leaves too little: once made, as many packages stay as    *)
(* are to be kept, less the one that overlapping runs may take from each     *)
(* other, the package a run has just made and another does not list among    *)
(* the newest (_enforce_retention, with the list it read and removals one by *)
(* one).                                                                     *)
PackagesSurvive ==
    LET sure == IF Cardinality(Procs) = 1 THEN Keep ELSE Keep - 1
    IN  Cardinality(Packages) >= IF made < sure THEN made ELSE sure

(* A backup the health report calls fresh, or counts the age of, exists: a   *)
(* package not older than the last success, whatever overlapped or crashed   *)
(* and whichever update of the sidecar was lost.                             *)
SuccessIsBacked ==
    (Keep > 1 \/ Cardinality(Procs) = 1) /\ Loaded(state).success # None =>
        \E e \in Packages : e.at >= Loaded(state).success

(* When nothing runs, the report says "failed" if and only if the last       *)
(* backup failed, and a backup that succeeded is not "unknown", unless an    *)
(* update was lost, failed or never came.                                    *)
OutcomeIsShown ==
    Busy = {} /\ ~raced =>
        /\ (BackupStatus = "failed") = (last = "failed")
        /\ last = "success" => BackupStatus \in {"fresh", "overdue"}
=============================================================================
