------------------------ MODULE PlanningBackupProofs ------------------------
(***************************************************************************)
(* What retention, the sidecar file and overlapping runs cannot do to the  *)
(* backups.  Retention dooms packages by a list that is old when it        *)
(* removes them; what protects the others is the order of the list, which  *)
(* is one for all runs: whatever a run keeps is newer than all it dooms.   *)
(***************************************************************************)
EXTENDS PlanningBackup, FiniteSetTheorems, TLAPS

Single == \A p, q \in Procs : p = q

Updates(p) == pr[p].pc \in {"load", "replace"}

\* A run before its package has its name, and after.
Making(p) == \/ pr[p].pc \in {"snapshot", "seal", "finalize"}
             \/ Updates(p) /\ pr[p].next = "snapshot"
Retaining(p) == pr[p].pc \in {"retain", "unlink"}
Reporting(p) == Updates(p) /\ pr[p].next = "succeeded"

Doomed(e) == \E p \in Procs : e.n \in pr[p].doomed

-----------------------------------------------------------------------------
(* Each run's number is its own.                                           *)

Given == Earlier \cup (1 .. budget.runs)

Numbered(p) ==
    /\ pr[p].n <= budget.runs
    /\ pr[p].doomed \subseteq Given
    /\ pr[p].pc # "unlink" => pr[p].doomed = {}
    /\ Making(p) => /\ pr[p].n # 0
                    /\ \A e \in Packages : e.n # pr[p].n
                    /\ \A q \in Procs : pr[p].n \notin pr[q].doomed
    /\ \A q \in Procs : p # q /\ pr[p].n = pr[q].n => pr[p].n = 0
    /\ pr[p].at <= clock

Prepared(p) ==
    /\ pr[p].pc = "snapshot" \/ (Updates(p) /\ pr[p].next = "snapshot") =>
          pr[p].key \in Secrets /\ pr[p].entry = None
    /\ pr[p].pc \in {"seal", "finalize"} =>
          /\ pr[p].entry \in Entry
          /\ pr[p].entry.kind = "temporary"
          /\ pr[p].entry.n = pr[p].n
          /\ pr[p].entry.at = pr[p].at

Matched(p) ==
    Updates(p) =>
        \/ pr[p].next = "snapshot" /\ pr[p].todo = Attempted(pr[p].at)
        \/ pr[p].next = "succeeded" /\ pr[p].todo = Succeeded(pr[p].at)
        \/ pr[p].next = "failed" /\ pr[p].todo = Failed(pr[p].at)
        \/ pr[p].next = "told" /\ pr[p].todo \in {Verified(TRUE), Verified(FALSE)}

Listed ==
    /\ IsFiniteSet(dir)
    /\ \A e \in Packages : e.n \in Given /\ e.at <= clock
    /\ \A e, d \in Packages : e.n = d.n => e = d

Base == /\ TypeOK /\ Listed
        /\ \A p \in Procs : Numbered(p) /\ Prepared(p) /\ Matched(p)

-----------------------------------------------------------------------------
(* What retention leaves.                                                  *)

Untouched == \A p \in Procs : pr[p].doomed = {}

\* Packages no run dooms, each newer than all that are doomed.
Safe(S) ==
    /\ S \subseteq Packages
    /\ \A s \in S : ~Doomed(s)
    /\ \A s \in S, d \in Packages : Doomed(d) => Newer(s, d)

Plenty == \/ Untouched /\ Cardinality(Packages) = made
          \/ \E S \in SUBSET Packages : Cardinality(S) = Keep - 1 /\ Safe(S)

\* The same for one process, which always keeps its own package too.
Own(p) ==
    /\ Retaining(p) => \E e \in Packages : e.n = pr[p].n /\ e.at = pr[p].at /\ ~Doomed(e)
    /\ Making(p) \/ Retaining(p) => \A e \in Packages : e.at <= pr[p].at

Alone == Single =>
    /\ \A p \in Procs : Own(p)
    /\ \/ Untouched /\ Cardinality(Packages) = made
       \/ \E S \in SUBSET Packages : Cardinality(S) = Keep /\ \A s \in S : ~Doomed(s)

\* A success in the sidecar, in a copy of it, or still to be noted.
Promised(at) ==
    \/ Loaded(state).success = at
    \/ \E p \in Procs : pr[p].pc = "replace" /\ pr[p].base.success = at
    \/ \E p \in Procs : (Retaining(p) \/ Reporting(p)) /\ pr[p].at = at

Backed == Keep > 1 \/ Single =>
    \A at \in Times : Promised(at) => \E e \in Packages : e.at >= at

-----------------------------------------------------------------------------
(* What the sidecar tells.                                                 *)

Going(p) == \/ pr[p].pc \in {"snapshot", "seal", "finalize", "retain", "unlink"}
            \/ Updates(p) /\ pr[p].next \in {"succeeded", "failed"}

Tells == /\ (Loaded(state).status = "failed" <=> last = "failed")
         /\ (last = "success" => Loaded(state).success # None)

Reported == \/ raced \/ Tells
            \/ Loaded(state).status = "running" /\ \E p \in Procs : Going(p)

BackupInv == Base /\ Plenty /\ Alone /\ Backed /\ Reported

-----------------------------------------------------------------------------
(* What the steps write.                                                   *)

LEMMA Sidecars ==
  ASSUME NEW file \in Sidecar \cup {Unreadable}, NEW base \in Sidecar, NEW todo \in Todo
  PROVE  /\ Loaded(file) \in Sidecar
         /\ NoSidecar \in Sidecar
         /\ Changed(base, todo) \in Sidecar
         /\ Changed(base, todo) # Unreadable
<1>1. NoSidecar \in Sidecar
  BY DEF NoSidecar, Sidecar
<1>2. Loaded(file) \in Sidecar
  BY <1>1 DEF Loaded, Sidecar, NoSidecar, Unreadable
<1>3. Changed(base, todo) \in Sidecar
  BY DEF Changed, Sidecar, Todo, Attempted, Succeeded, Failed, Verified
<1>. QED  BY <1>1, <1>2, <1>3, BackupAssumption DEF Unreadable

LEMMA WhatIsWritten ==
  ASSUME NEW base \in Sidecar, NEW at \in Times, NEW ok \in BOOLEAN
  PROVE  /\ Changed(base, Attempted(at)).status = "running"
         /\ Changed(base, Attempted(at)).success = base.success
         /\ Changed(base, Succeeded(at)).status = "success"
         /\ Changed(base, Succeeded(at)).success = at
         /\ Changed(base, Failed(at)).status = "failed"
         /\ Changed(base, Failed(at)).success = base.success
         /\ Changed(base, Verified(ok)).status = base.status
         /\ Changed(base, Verified(ok)).success = base.success
  BY DEF Changed, Sidecar, Attempted, Succeeded, Failed, Verified

LEMMA IdleIs ==
  /\ Idle \in Process
  /\ Idle.pc = "idle" /\ Idle.n = 0 /\ Idle.at = 0 /\ Idle.doomed = {}
  /\ Idle.base = NoSidecar /\ Idle.next = "idle"
<1>1. NoSidecar \in Sidecar
  BY DEF NoSidecar, Sidecar
<1>2. MaxRuns \in Nat /\ MaxTime \in Nat
  BY BackupAssumption
<1>. QED  BY <1>1, <1>2 DEF Idle, Process, Todo, Times

LEMMA UpdatingIs ==
  ASSUME TypeOK, NEW p \in Procs, NEW todo \in Todo, NEW next \in Ends
  PROVE  LET x == Updating(p, todo, next)
         IN  /\ x \in Process
             /\ x.pc = "load" /\ x.todo = todo /\ x.next = next
             /\ x.n = pr[p].n /\ x.at = pr[p].at /\ x.doomed = pr[p].doomed
             /\ x.base = pr[p].base
<1>1. pr[p] \in Process
  BY DEF TypeOK
<1>. QED  BY <1>1 DEF Updating, Process, Ends

-----------------------------------------------------------------------------
(* What each step does to the process that takes it.                       *)

Becomes(p, x) ==
    /\ pr' \in [Procs -> Process]
    /\ pr'[p] = x
    /\ \A q \in Procs : q # p => pr'[q] = pr[q]

LEMMA OnlyOne ==
  ASSUME TypeOK, NEW p \in Procs, NEW x \in Process, pr' = [pr EXCEPT ![p] = x]
  PROVE  Becomes(p, x)
  BY DEF TypeOK, Becomes

LEMMA LoadStateDoes ==
  ASSUME TypeOK, NEW p \in Procs, LoadState(p)
  PROVE  \E x \in Process :
            /\ Becomes(p, x)
            /\ x.pc = "replace" /\ x.base = Loaded(state)
            /\ x.n = pr[p].n /\ x.at = pr[p].at /\ x.key = pr[p].key /\ x.entry = pr[p].entry
            /\ x.doomed = pr[p].doomed /\ x.todo = pr[p].todo /\ x.next = pr[p].next
<1>. DEFINE x == [pr[p] EXCEPT !.base = Loaded(state), !.pc = "replace"]
<1>1. pr[p] \in Process /\ Loaded(state) \in Sidecar
  BY Sidecars DEF TypeOK, Process
<1>2. /\ x \in Process
      /\ x.pc = "replace" /\ x.base = Loaded(state)
      /\ x.n = pr[p].n /\ x.at = pr[p].at /\ x.key = pr[p].key /\ x.entry = pr[p].entry
      /\ x.doomed = pr[p].doomed /\ x.todo = pr[p].todo /\ x.next = pr[p].next
  BY <1>1 DEF Process
<1>3. pr' = [pr EXCEPT ![p] = x]
  BY DEF LoadState
<1>. HIDE DEF x
<1>4. Becomes(p, x)
  BY <1>2, <1>3, OnlyOne
<1>. QED  BY <1>2, <1>4

LEMMA GoesOnDoes ==
  ASSUME TypeOK, NEW p \in Procs, Matched(p), Updates(p), GoesOn(p)
  PROVE  \/ pr[p].next \in Ends /\ Becomes(p, Idle)
         \/ /\ pr[p].next = "snapshot"
            /\ \E x \in Process :
                  /\ Becomes(p, x)
                  /\ x.pc = "snapshot" /\ x.base = NoSidecar
                  /\ x.n = pr[p].n /\ x.at = pr[p].at /\ x.key = pr[p].key
                  /\ x.entry = pr[p].entry /\ x.doomed = pr[p].doomed
<1>1. pr[p] \in Process /\ NoSidecar \in Sidecar
  BY IdleIs DEF TypeOK, Process
<1>2. CASE pr[p].next \in Ends
  <2>1. pr' = [pr EXCEPT ![p] = Idle]
    BY <1>2 DEF GoesOn
  <2>. QED  BY <1>2, <2>1, IdleIs, OnlyOne
<1>3. CASE pr[p].next \notin Ends
  <2>. DEFINE x == [pr[p] EXCEPT !.pc = pr[p].next, !.base = NoSidecar, !.todo = <<>>,
                                 !.next = "idle"]
  <2>1. pr[p].next = "snapshot"
    BY <1>3 DEF Matched, Ends
  <2>2. /\ x \in Process
        /\ x.pc = "snapshot" /\ x.base = NoSidecar
        /\ x.n = pr[p].n /\ x.at = pr[p].at /\ x.key = pr[p].key
        /\ x.entry = pr[p].entry /\ x.doomed = pr[p].doomed
    BY <1>1, <2>1 DEF Process, Todo
  <2>3. pr' = [pr EXCEPT ![p] = x]
    BY <1>3 DEF GoesOn
  <2>. HIDE DEF x
  <2>4. Becomes(p, x)
    BY <2>2, <2>3, OnlyOne
  <2>. QED  BY <2>1, <2>2, <2>4
<1>. QED  BY <1>2, <1>3

LEMMA StartBackupDoes ==
  ASSUME TypeOK, NEW p \in Procs, StartBackup(p)
  PROVE  /\ budget.runs + 1 \in 1 .. MaxRuns
         /\ budget' \in [runs : 0 .. MaxRuns, faults : 0 .. MaxFaults]
         /\ budget'.runs = budget.runs + 1
         /\ \E x \in Process :
               /\ Becomes(p, x)
               /\ x.pc = "load" /\ x.next = "snapshot" /\ x.todo = Attempted(x.at)
               /\ x.n = budget.runs + 1 /\ x.at = clock /\ x.key = key /\ x.entry = None
               /\ x.doomed = {}
<1>. DEFINE x == [Idle EXCEPT !.pc = "load", !.n = budget'.runs, !.at = clock, !.key = key,
                              !.todo = Attempted(clock), !.next = "snapshot"]
<1>1. MaxRuns \in Nat /\ MaxFaults \in Nat
  BY BackupAssumption
<1>2. /\ budget.runs + 1 \in 1 .. MaxRuns
      /\ budget' \in [runs : 0 .. MaxRuns, faults : 0 .. MaxFaults]
      /\ budget'.runs = budget.runs + 1
  BY <1>1 DEF StartBackup, Run, TypeOK
<1>3. /\ x.pc = "load" /\ x.next = "snapshot" /\ x.todo = Attempted(x.at)
      /\ x.n = budget.runs + 1 /\ x.at = clock /\ x.key = key /\ x.entry = None
      /\ x.doomed = {}
  BY <1>2 DEF Idle
<1>4. x \in Process
  <2>1. clock \in Times /\ key \in Secrets /\ budget'.runs \in 0 .. MaxRuns
    BY <1>1, <1>2 DEF TypeOK
  <2>2. Attempted(clock) \in Todo
    BY <2>1 DEF Todo
  <2>. QED  BY <2>1, <2>2, IdleIs DEF Process
<1>5. pr' = [pr EXCEPT ![p] = x]
  BY DEF StartBackup
<1>. HIDE DEF x
<1>6. Becomes(p, x)
  BY <1>4, <1>5, OnlyOne
<1>. QED  BY <1>2, <1>3, <1>4, <1>6

LEMMA TakeSnapshotDoes ==
  ASSUME TypeOK, NEW p \in Procs, Prepared(p), Numbered(p), TakeSnapshot(p)
  PROVE  \E x \in Process :
            /\ Becomes(p, x)
            /\ x.pc = "seal" /\ x.entry \in Entry
            /\ x.entry.kind = "temporary" /\ x.entry.n = x.n /\ x.entry.at = x.at
            /\ x.n = pr[p].n /\ x.at = pr[p].at /\ x.doomed = pr[p].doomed
<1>. DEFINE x == [pr[p] EXCEPT !.pc = "seal", !.entry = Snapshot(p), !.key = None]
<1>1. pr[p] \in Process /\ pr[p].pc = "snapshot"
  BY DEF TypeOK, TakeSnapshot
<1>2. /\ Snapshot(p) \in Entry
      /\ Snapshot(p).kind = "temporary" /\ Snapshot(p).n = pr[p].n
      /\ Snapshot(p).at = pr[p].at
  <2>1. pr[p].n \in Numbers /\ pr[p].at \in Times /\ pr[p].key \in Secrets
    BY <1>1, BackupAssumption DEF Process, Numbered, Making, Numbers, Prepared
  <2>2. live.schema \in 1 .. Latest /\ live.content \in Contents
    BY DEF TypeOK
  <2>. QED  BY <2>1, <2>2 DEF Snapshot, Entry
<1>3. x \in Process
  BY <1>1, <1>2 DEF Process
<1>4. /\ x.pc = "seal" /\ x.entry = Snapshot(p)
      /\ x.n = pr[p].n /\ x.at = pr[p].at /\ x.doomed = pr[p].doomed
  BY <1>1 DEF Process
<1>5. pr' = [pr EXCEPT ![p] = x]
  BY DEF TakeSnapshot
<1>. HIDE DEF x
<1>6. Becomes(p, x)
  BY <1>3, <1>5, OnlyOne
<1>. QED  BY <1>2, <1>3, <1>4, <1>6

LEMMA UpdatingDoes ==
  ASSUME TypeOK, NEW p \in Procs, NEW todo \in Todo, NEW next \in Ends,
         pr' = [pr EXCEPT ![p] = Updating(p, todo, next)]
  PROVE  /\ pr'[p] \in Process /\ Becomes(p, pr'[p])
         /\ pr'[p].pc = "load" /\ pr'[p].todo = todo /\ pr'[p].next = next
         /\ pr'[p].n = pr[p].n /\ pr'[p].at = pr[p].at /\ pr'[p].doomed = pr[p].doomed
<1>. DEFINE x == Updating(p, todo, next)
<1>1. /\ x \in Process
      /\ x.pc = "load" /\ x.todo = todo /\ x.next = next
      /\ x.n = pr[p].n /\ x.at = pr[p].at /\ x.doomed = pr[p].doomed
  BY UpdatingIs
<1>. HIDE DEF x
<1>2. Becomes(p, x) /\ pr'[p] = x
  BY <1>1, OnlyOne DEF x, Becomes
<1>. QED  BY <1>1, <1>2

LEMMA SealDoes ==
  ASSUME TypeOK, NEW p \in Procs, Seal(p)
  PROVE  \E x \in Process :
            /\ Becomes(p, x)
            /\ x.pc = "finalize" /\ x.entry = pr[p].entry
            /\ x.n = pr[p].n /\ x.at = pr[p].at /\ x.doomed = pr[p].doomed
<1>. DEFINE x == [pr[p] EXCEPT !.pc = "finalize"]
<1>1. pr[p] \in Process
  BY DEF TypeOK
<1>2. /\ x \in Process
      /\ x.pc = "finalize" /\ x.entry = pr[p].entry
      /\ x.n = pr[p].n /\ x.at = pr[p].at /\ x.doomed = pr[p].doomed
  BY <1>1 DEF Process
<1>3. pr' = [pr EXCEPT ![p] = x]
  BY DEF Seal
<1>. HIDE DEF x
<1>4. Becomes(p, x)
  BY <1>2, <1>3, OnlyOne
<1>. QED  BY <1>2, <1>4

\* The package a temporary file becomes.
LEMMA PackageIs ==
  ASSUME NEW e \in Entry
  PROVE  /\ Package(e) \in Entry
         /\ Package(e).kind = "package" /\ Package(e).n = e.n /\ Package(e).at = e.at
         /\ Package(e).schema = e.schema
  BY DEF Package, Entry

LEMMA FinalizeDoes ==
  ASSUME TypeOK, NEW p \in Procs, Prepared(p), Finalize(p)
  PROVE  \E x \in Process :
            /\ Becomes(p, x)
            /\ x.pc = "retain"
            /\ x.n = pr[p].n /\ x.at = pr[p].at /\ x.doomed = pr[p].doomed
<1>. DEFINE x == [pr[p] EXCEPT !.pc = "retain", !.entry = Package(pr[p].entry)]
<1>1. pr[p] \in Process /\ Package(pr[p].entry) \in Entry
  BY PackageIs DEF TypeOK, Finalize, Prepared
<1>2. /\ x \in Process
      /\ x.pc = "retain"
      /\ x.n = pr[p].n /\ x.at = pr[p].at /\ x.doomed = pr[p].doomed
  BY <1>1 DEF Process
<1>3. pr' = [pr EXCEPT ![p] = x]
  BY DEF Finalize
<1>. HIDE DEF x
<1>4. Becomes(p, x)
  BY <1>2, <1>3, OnlyOne
<1>. QED  BY <1>2, <1>4

\* What the others of a listing are, how many are kept and which are doomed.
Room(others) == IF Cardinality(others) < Keep - 1 THEN Cardinality(others) ELSE Keep - 1

LEMMA ListPackagesDoes ==
  ASSUME TypeOK, NEW p \in Procs, ListPackages(p)
  PROVE  \E x \in Process, others, s \in SUBSET Packages :
            /\ others = {e \in Packages : e.n # pr[p].n}
            /\ s \subseteq others /\ Cardinality(s) = Room(others)
            /\ \A e \in s, d \in others \ s : Newer(e, d)
            /\ Becomes(p, x)
            /\ x.pc = "unlink" /\ x.n = pr[p].n /\ x.at = pr[p].at
            /\ x.doomed = {e.n : e \in Packages} \ ({pr[p].n} \cup {e.n : e \in s})
<1>. DEFINE others == {e \in Packages : e.n # pr[p].n}
<1>1. PICK kept \in Kept(pr[p].n) :
         pr' = [pr EXCEPT ![p] = [@ EXCEPT !.pc = "unlink",
                                           !.doomed = {e.n : e \in Packages} \ kept]]
  BY DEF ListPackages
<1>2. PICK s \in SUBSET others :
         /\ Cardinality(s) = Room(others)
         /\ \A e \in s, d \in others \ s : Newer(e, d)
         /\ kept = {pr[p].n} \cup {e.n : e \in s}
  BY <1>1 DEF Kept, Room
<1>. DEFINE x == [pr[p] EXCEPT !.pc = "unlink", !.doomed = {e.n : e \in Packages} \ kept]
<1>3. pr[p] \in Process /\ {e.n : e \in Packages} \subseteq Numbers
  BY DEF TypeOK, Packages, Entry
<1>4. /\ x \in Process
      /\ x.pc = "unlink" /\ x.n = pr[p].n /\ x.at = pr[p].at
      /\ x.doomed = {e.n : e \in Packages} \ kept
  BY <1>3 DEF Process
<1>5. pr' = [pr EXCEPT ![p] = x]
  BY <1>1
<1>. HIDE DEF x
<1>6. Becomes(p, x)
  BY <1>4, <1>5, OnlyOne
<1>. QED  BY <1>2, <1>4, <1>6

LEMMA UnlinkDoes ==
  ASSUME TypeOK, NEW p \in Procs, Unlink(p)
  PROVE  \E x \in Process, n \in pr[p].doomed :
            /\ Becomes(p, x)
            /\ dir' \in {dir, {e \in dir : e.n # n}}
            /\ x.pc = "unlink" /\ x.n = pr[p].n /\ x.at = pr[p].at
            /\ x.doomed = pr[p].doomed \ {n}
<1>1. PICK n \in pr[p].doomed :
         /\ dir' \in {dir, {e \in dir : e.n # n}}
         /\ pr' = [pr EXCEPT ![p].doomed = @ \ {n}]
  BY DEF Unlink
<1>. DEFINE x == [pr[p] EXCEPT !.doomed = @ \ {n}]
<1>2. pr[p] \in Process /\ pr[p].pc = "unlink"
  BY DEF TypeOK, Unlink
<1>3. /\ x \in Process
      /\ x.pc = "unlink" /\ x.n = pr[p].n /\ x.at = pr[p].at
      /\ x.doomed = pr[p].doomed \ {n}
  BY <1>2 DEF Process
<1>4. pr' = [pr EXCEPT ![p] = x]
  BY <1>1
<1>. HIDE DEF x
<1>5. Becomes(p, x)
  BY <1>3, <1>4, OnlyOne
<1>. QED  BY <1>1, <1>3, <1>5

LEMMA StartVerifyDoes ==
  ASSUME TypeOK, NEW p \in Procs, NEW e \in Packages, StartVerify(p, e)
  PROVE  /\ budget' \in [runs : 0 .. MaxRuns, faults : 0 .. MaxFaults]
         /\ budget'.runs = budget.runs + 1
         /\ \E x \in Process :
               Becomes(p, x) /\ x.pc = "decrypt" /\ x.n = 0 /\ x.at = 0 /\ x.doomed = {}
<1>. DEFINE x == [Idle EXCEPT !.pc = "decrypt", !.key = key, !.entry = e]
<1>1. MaxRuns \in Nat /\ MaxFaults \in Nat
  BY BackupAssumption
<1>2. /\ budget' \in [runs : 0 .. MaxRuns, faults : 0 .. MaxFaults]
      /\ budget'.runs = budget.runs + 1
  BY <1>1 DEF StartVerify, Run, TypeOK
<1>3. x.pc = "decrypt" /\ x.n = 0 /\ x.at = 0 /\ x.doomed = {}
  BY DEF Idle
<1>4. x \in Process
  BY IdleIs DEF TypeOK, Process, Packages
<1>5. pr' = [pr EXCEPT ![p] = x]
  BY DEF StartVerify
<1>. HIDE DEF x
<1>6. Becomes(p, x)
  BY <1>4, <1>5, OnlyOne
<1>. QED  BY <1>2, <1>3, <1>4, <1>6

-----------------------------------------------------------------------------
(* Numbers, prepared entries and notes stay as they are meant to be.       *)

\* What a step may do to the numbers: p, which becomes x, keeps its number, has
\* none any more or takes the next; a new package has the number of p.
Counts(p, x) ==
    /\ \/ x.n = pr[p].n /\ x.at = pr[p].at /\ (Making(p)' => Making(p))
       \/ x.n = 0 /\ x.at \in 0 .. clock /\ ~Making(p)'
       \/ /\ x.n = budget.runs + 1 /\ budget.runs + 1 \in 1 .. MaxRuns
          /\ budget'.runs = budget.runs + 1
          /\ x.at \in 0 .. clock
    /\ \A e \in Packages' : (\E d \in Packages : d.n = e.n) \/ (e.n = pr[p].n /\ ~Making(p)')
    /\ x.pc # "unlink" => x.doomed = {}
    /\ \A n \in x.doomed : n \in pr[p].doomed \/ \E d \in Packages : d.n = n
    /\ budget'.runs \in {budget.runs, budget.runs + 1}
    /\ clock' \in {clock, clock + 1}

LEMMA NumbersStay ==
  ASSUME Base, NEW p \in Procs, NEW x \in Process, Becomes(p, x), Counts(p, x)
  PROVE  \A q \in Procs : Numbered(q)'
<1>1. /\ budget.runs \in Nat /\ clock \in Nat /\ MaxRuns \in Nat
      /\ \A q \in Procs : pr[q] \in Process /\ pr[q].n \in Nat /\ pr[q].at \in Nat
  BY BackupAssumption DEF Base, TypeOK, Process, Times
<1>2. /\ budget.runs <= budget'.runs /\ clock <= clock'
      /\ budget'.runs \in Nat /\ clock' \in Nat
  BY <1>1 DEF Counts
<1>3. Given \subseteq Given'
  BY <1>1, <1>2 DEF Given
<1>4. budget.runs + 1 \in 1 .. MaxRuns => budget.runs + 1 \notin Given
  BY <1>1, BackupAssumption DEF Given
<1>5. \A d \in Packages : d.n \in Given
  BY DEF Base, Listed
<1>6. \A q \in Procs : q # p => pr'[q] = pr[q]
  BY DEF Becomes
<1>7. pr'[p] = x
  BY DEF Becomes
<1>8. /\ \A q \in Procs : Numbered(q)
      /\ x.n \in Nat /\ x.at \in Nat
  BY BackupAssumption DEF Base, Process, Times
<1>9. /\ x.n <= budget'.runs /\ x.at <= clock'
      /\ \A q \in Procs : q # p /\ pr[q].n = x.n => x.n = 0
  BY <1>1, <1>2, <1>8 DEF Counts, Numbered
<1>10. x.doomed \subseteq Given'
  BY <1>3, <1>5, <1>8 DEF Counts, Numbered
<1>11. Making(p)' => /\ x.n # 0
                     /\ \A e \in Packages' : e.n # x.n
                     /\ \A q \in Procs : x.n \notin pr'[q].doomed
  <2>. SUFFICES ASSUME Making(p)'
                PROVE  /\ x.n # 0
                       /\ \A e \in Packages' : e.n # x.n
                       /\ \A q \in Procs : x.n \notin pr'[q].doomed
    OBVIOUS
  <2>1. x.pc # "unlink"
    BY <1>7 DEF Making, Updates
  <2>2. x.doomed = {}
    BY <2>1 DEF Counts
  <2>3. CASE x.n = pr[p].n /\ Making(p)
    BY <1>6, <1>7, <1>8, <2>2, <2>3 DEF Numbered, Counts
  <2>4. CASE x.n = budget.runs + 1 /\ budget.runs + 1 \in 1 .. MaxRuns
    <3>1. \A q \in Procs : x.n \notin pr'[q].doomed
      BY <1>4, <1>6, <1>7, <1>8, <2>2, <2>4 DEF Numbered
    <3>2. \A e \in Packages' : e.n # x.n
      BY <1>4, <1>5, <2>4 DEF Counts
    <3>. QED  BY <1>1, <2>4, <3>1, <3>2
  <2>. QED  BY <2>3, <2>4 DEF Counts
<1>12. ASSUME NEW q \in Procs, q # p, Making(q)
       PROVE  /\ \A e \in Packages' : e.n # pr[q].n
              /\ \A r \in Procs : pr[q].n \notin pr'[r].doomed
  <2>1. /\ pr[q].n # 0 /\ \A d \in Packages : d.n # pr[q].n
        /\ \A r \in Procs : pr[q].n \notin pr[r].doomed
        /\ pr[q].n # pr[p].n
    BY <1>8, <1>12 DEF Numbered
  <2>2. \A e \in Packages' : e.n # pr[q].n
    BY <2>1 DEF Counts
  <2>3. pr[q].n \notin x.doomed
    BY <2>1 DEF Counts
  <2>. QED  BY <1>6, <1>7, <2>1, <2>2, <2>3
<1>13. Numbered(p)'
  BY <1>6, <1>7, <1>9, <1>10, <1>11 DEF Numbered, Counts
<1>14. ASSUME NEW q \in Procs, q # p
       PROVE  Numbered(q)'
  <2>1. pr'[q] = pr[q] /\ (Making(q)' <=> Making(q))
    BY <1>6, <1>14 DEF Making, Updates
  <2>5. ASSUME NEW r \in Procs, q # r, pr[q].n = pr'[r].n
        PROVE  pr[q].n = 0
    <3>1. CASE r = p
      BY <1>7, <1>9, <1>14, <2>5, <3>1
    <3>2. CASE r # p
      BY <1>6, <1>8, <2>5, <3>2 DEF Numbered
    <3>. QED  BY <3>1, <3>2
  <2>2. pr[q].n <= budget'.runs /\ pr[q].at <= clock' /\ pr[q].doomed \subseteq Given'
    BY <1>1, <1>2, <1>3, <1>8 DEF Numbered
  <2>3. /\ pr[q].pc # "unlink" => pr[q].doomed = {}
        /\ Making(q) => pr[q].n # 0
    BY <1>8 DEF Numbered
  <2>4. Making(q) => /\ \A e \in Packages' : e.n # pr[q].n
                     /\ \A r \in Procs : pr[q].n \notin pr'[r].doomed
    BY <1>12, <1>14
  <2>. QED  BY <2>1, <2>2, <2>3, <2>4, <2>5 DEF Numbered
<1>. QED  BY <1>13, <1>14

\* The others keep what they have prepared and what they are about to note.
LEMMA OthersStay ==
  ASSUME Base, NEW p \in Procs, NEW x \in Process, Becomes(p, x), Prepared(p)', Matched(p)'
  PROVE  \A q \in Procs : Prepared(q)' /\ Matched(q)'
<1>1. ASSUME NEW q \in Procs, q # p
      PROVE  Prepared(q)' /\ Matched(q)'
  <2>1. pr'[q] = pr[q] /\ Prepared(q) /\ Matched(q)
    BY <1>1 DEF Becomes, Base
  <2>. QED  BY <2>1 DEF Prepared, Matched, Updates
<1>. QED  BY <1>1

LEMMA FaultDoes ==
  ASSUME TypeOK, Fault
  PROVE  /\ budget' \in [runs : 0 .. MaxRuns, faults : 0 .. MaxFaults]
         /\ budget'.runs = budget.runs
  BY BackupAssumption DEF TypeOK, Fault

\* The conjuncts of TypeOK but for pr.
OtherTypes ==
    /\ live \in [schema : 1 .. Latest, content : Contents]
    /\ key \in Secrets
    /\ dir \subseteq Entry
    /\ state \in Sidecar \cup {Unreadable}
    /\ clock \in Times
    /\ made \in Nat
    /\ last \in {"none", "success", "failed"}
    /\ raced \in BOOLEAN
    /\ budget \in [runs : 0 .. MaxRuns, faults : 0 .. MaxFaults]

\* A step of p that changes no package.
Quiet(p, x) ==
    /\ \/ x.n = pr[p].n /\ x.at = pr[p].at /\ (Making(p)' => Making(p))
       \/ x.n = 0 /\ x.at = 0 /\ ~Making(p)'
    /\ x.doomed \subseteq pr[p].doomed
    /\ x.pc # "unlink" => x.doomed = {}
    /\ IsFiniteSet(dir') /\ Packages' = Packages
    /\ budget'.runs = budget.runs /\ clock' = clock

LEMMA BaseQuiet ==
  ASSUME Base, NEW p \in Procs, NEW x \in Process, Becomes(p, x), OtherTypes', Quiet(p, x),
         Prepared(p)', Matched(p)'
  PROVE  Base'
<1>1. TypeOK'
  BY DEF OtherTypes, TypeOK, Becomes
<1>2. clock \in Nat
  BY BackupAssumption DEF Base, TypeOK, Times
<1>3. Counts(p, x)
  BY <1>2 DEF Quiet, Counts
<1>4. Given' = Given
  BY DEF Given, Quiet
<1>5. Listed'
  BY <1>4 DEF Listed, Base, Quiet
<1>. QED  BY <1>1, <1>3, <1>5, NumbersStay, OthersStay DEF Base

\* A directory that stays as it is.
LEMMA SameDir ==
  ASSUME Base, dir' = dir
  PROVE  dir' \subseteq Entry /\ IsFiniteSet(dir') /\ Packages' = Packages
  BY DEF Base, Listed, TypeOK, Packages

\* A run that gives up, and the reports of one that has its package or has verified.
LEMMA ReportsGiveBase ==
  ASSUME Base, NEW p \in Procs, NEW todo \in Todo, NEW next \in Ends,
         pr' = [pr EXCEPT ![p] = Updating(p, todo, next)],
         pr[p].doomed = {}, OtherTypes', IsFiniteSet(dir'), Packages' = Packages,
         budget'.runs = budget.runs, clock' = clock,
         \/ next = "succeeded" /\ todo = Succeeded(pr[p].at)
         \/ next = "failed" /\ todo = Failed(pr[p].at)
         \/ next = "told" /\ todo \in {Verified(TRUE), Verified(FALSE)}
  PROVE  Base'
<1>. TypeOK
  BY DEF Base
<1>1. /\ pr'[p] \in Process /\ Becomes(p, pr'[p])
      /\ pr'[p].pc = "load" /\ pr'[p].todo = todo /\ pr'[p].next = next
      /\ pr'[p].n = pr[p].n /\ pr'[p].at = pr[p].at /\ pr'[p].doomed = pr[p].doomed
  BY UpdatingDoes
<1>2. Prepared(p)' /\ Matched(p)' /\ ~Making(p)'
  BY <1>1 DEF Prepared, Matched, Updates, Making
<1>3. Quiet(p, pr'[p])
  BY <1>1, <1>2 DEF Quiet
<1>. QED  BY <1>1, <1>2, <1>3, BaseQuiet

LEMMA NotesGiveBase ==
  ASSUME Base, NEW p \in Procs, LoadState(p) \/ ReplaceState(p) \/ ReplaceFails(p)
  PROVE  Base'
<1>. TypeOK /\ Numbered(p) /\ Prepared(p) /\ Matched(p) /\ pr[p] \in Process
  BY DEF Base, TypeOK
<1>1. CASE LoadState(p)
  <2>1. PICK x \in Process :
           /\ Becomes(p, x)
           /\ x.pc = "replace" /\ x.base = Loaded(state)
           /\ x.n = pr[p].n /\ x.at = pr[p].at /\ x.key = pr[p].key /\ x.entry = pr[p].entry
           /\ x.doomed = pr[p].doomed /\ x.todo = pr[p].todo /\ x.next = pr[p].next
    BY <1>1, LoadStateDoes
  <2>2. pr'[p] = x /\ pr[p].pc = "load"
    BY <1>1, <2>1 DEF Becomes, LoadState
  <2>3. OtherTypes' /\ dir' = dir
    BY <1>1 DEF OtherTypes, TypeOK, LoadState
  <2>4. Quiet(p, x)
    BY <1>1, <2>1, <2>2, <2>3, SameDir DEF Quiet, Making, Updates, LoadState, Numbered
  <2>5. Prepared(p)' /\ Matched(p)'
    BY <2>1, <2>2 DEF Prepared, Matched, Updates
  <2>. QED  BY <2>1, <2>3, <2>4, <2>5, BaseQuiet
<1>2. ASSUME GoesOn(p), Updates(p), OtherTypes', dir' = dir, budget'.runs = budget.runs,
             clock' = clock
      PROVE  Base'
  <2>1. IsFiniteSet(dir') /\ Packages' = Packages
    BY <1>2, SameDir
  <2>2. CASE Becomes(p, Idle)
    <3>1. pr'[p] = Idle
      BY <2>2 DEF Becomes
    <3>2. Prepared(p)' /\ Matched(p)' /\ ~Making(p)'
      BY <3>1, IdleIs DEF Prepared, Matched, Updates, Making
    <3>3. Quiet(p, Idle)
      BY <1>2, <2>1, <3>2, IdleIs DEF Quiet
    <3>. QED  BY <1>2, <2>2, <3>2, <3>3, IdleIs, BaseQuiet
  <2>3. ASSUME pr[p].next = "snapshot", NEW x \in Process, Becomes(p, x),
               x.pc = "snapshot", x.n = pr[p].n, x.at = pr[p].at, x.key = pr[p].key,
               x.entry = pr[p].entry, x.doomed = pr[p].doomed
        PROVE  Base'
    <3>1. pr'[p] = x
      BY <2>3 DEF Becomes
    <3>2. pr[p].doomed = {} /\ Making(p)
      BY <1>2, <2>3 DEF Numbered, Updates, Making
    <3>3. Prepared(p)' /\ Matched(p)'
      BY <1>2, <2>3, <3>1 DEF Prepared, Matched, Updates
    <3>4. Quiet(p, x)
      BY <1>2, <2>1, <2>3, <3>2 DEF Quiet
    <3>. QED  BY <1>2, <2>3, <3>3, <3>4, BaseQuiet
  <2>. QED  BY <1>2, <2>2, <2>3, GoesOnDoes
<1>3. CASE ReplaceState(p)
  <2>1. Updates(p) /\ pr[p].base \in Sidecar /\ pr[p].todo \in Todo
    BY <1>3 DEF ReplaceState, Updates, Process
  <2>2. state' \in Sidecar
    BY <1>3, <2>1, Sidecars DEF ReplaceState
  <2>3. raced' \in BOOLEAN /\ last' \in {"none", "success", "failed"}
    BY <1>3 DEF ReplaceState, GoesOn, TypeOK
  <2>4. OtherTypes'
    BY <1>3, <2>2, <2>3 DEF OtherTypes, TypeOK, ReplaceState
  <2>. QED  BY <1>2, <1>3, <2>1, <2>4 DEF ReplaceState
<1>4. CASE ReplaceFails(p)
  <2>1. /\ budget' \in [runs : 0 .. MaxRuns, faults : 0 .. MaxFaults]
        /\ budget'.runs = budget.runs
    BY <1>4, FaultDoes DEF ReplaceFails
  <2>2. Updates(p)
    BY <1>4 DEF ReplaceFails, Updates
  <2>3. CASE pr[p].next = "succeeded"
    <3>1. /\ Failed(pr[p].at) \in Todo /\ "failed" \in Ends
          /\ pr' = [pr EXCEPT ![p] = Updating(p, Failed(pr[p].at), "failed")]
      BY <1>4, <2>3 DEF ReplaceFails, Process, Todo, Ends
    <3>2. OtherTypes' /\ dir' = dir
      BY <1>4, <2>1, <2>3 DEF OtherTypes, TypeOK, ReplaceFails
    <3>3. pr[p].doomed = {} /\ clock' = clock
      BY <1>4, <2>2 DEF Numbered, Updates, ReplaceFails
    <3>. QED  BY <2>1, <3>1, <3>2, <3>3, SameDir, ReportsGiveBase
  <2>4. CASE pr[p].next # "succeeded"
    <3>1. last' \in {"none", "success", "failed"} /\ GoesOn(p) /\ raced' \in BOOLEAN
      BY <1>4, <2>4 DEF ReplaceFails, GoesOn, TypeOK
    <3>2. OtherTypes'
      BY <1>4, <2>1, <3>1 DEF OtherTypes, TypeOK, ReplaceFails
    <3>. QED  BY <1>2, <1>4, <2>1, <2>2, <3>1, <3>2 DEF ReplaceFails
  <2>. QED  BY <2>3, <2>4
<1>. QED  BY <1>1, <1>3, <1>4

LEMMA StartsGiveBase ==
  ASSUME Base, NEW p \in Procs, StartBackup(p) \/ \E e \in Packages : StartVerify(p, e)
  PROVE  Base'
<1>. TypeOK /\ clock \in Nat
  BY BackupAssumption DEF Base, TypeOK, Times
<1>1. ASSUME NEW x \in Process, Becomes(p, x), dir' = dir, OtherTypes', Counts(p, x),
             Prepared(p)', Matched(p)', clock' = clock, budget'.runs = budget.runs + 1
      PROVE  Base'
  <2>1. Given \subseteq Given'
    BY <1>1, BackupAssumption DEF Given, TypeOK
  <2>2. Listed'
    BY <1>1, <2>1, SameDir DEF Listed, Base
  <2>3. TypeOK'
    BY <1>1 DEF OtherTypes, TypeOK, Becomes
  <2>. QED  BY <1>1, <2>2, <2>3, NumbersStay, OthersStay DEF Base
<1>2. CASE StartBackup(p)
  <2>1. /\ budget.runs + 1 \in 1 .. MaxRuns
        /\ budget' \in [runs : 0 .. MaxRuns, faults : 0 .. MaxFaults]
        /\ budget'.runs = budget.runs + 1
    BY <1>2, StartBackupDoes
  <2>2. PICK x \in Process :
           /\ Becomes(p, x)
           /\ x.pc = "load" /\ x.next = "snapshot" /\ x.todo = Attempted(x.at)
           /\ x.n = budget.runs + 1 /\ x.at = clock /\ x.key = key /\ x.entry = None
           /\ x.doomed = {}
    BY <1>2, StartBackupDoes
  <2>3. pr'[p] = x
    BY <2>2 DEF Becomes
  <2>4. OtherTypes' /\ dir' = dir /\ clock' = clock
    BY <1>2, <2>1 DEF OtherTypes, TypeOK, StartBackup
  <2>5. Prepared(p)' /\ Matched(p)'
    BY <2>2, <2>3 DEF Prepared, Matched, Updates, TypeOK
  <2>6. Counts(p, x)
    BY <2>1, <2>2, <2>4, SameDir DEF Counts
  <2>. QED  BY <1>1, <2>1, <2>2, <2>4, <2>5, <2>6
<1>3. ASSUME NEW e \in Packages, StartVerify(p, e)
      PROVE  Base'
  <2>1. /\ budget' \in [runs : 0 .. MaxRuns, faults : 0 .. MaxFaults]
        /\ budget'.runs = budget.runs + 1
    BY <1>3, StartVerifyDoes
  <2>2. PICK x \in Process :
           Becomes(p, x) /\ x.pc = "decrypt" /\ x.n = 0 /\ x.at = 0 /\ x.doomed = {}
    BY <1>3, StartVerifyDoes
  <2>3. pr'[p] = x
    BY <2>2 DEF Becomes
  <2>4. OtherTypes' /\ dir' = dir /\ clock' = clock
    BY <1>3, <2>1 DEF OtherTypes, TypeOK, StartVerify
  <2>5. Prepared(p)' /\ Matched(p)' /\ ~Making(p)'
    BY <2>2, <2>3 DEF Prepared, Matched, Updates, Making
  <2>6. Counts(p, x)
    BY <2>1, <2>2, <2>4, <2>5, SameDir DEF Counts
  <2>. QED  BY <1>1, <2>1, <2>2, <2>4, <2>5, <2>6
<1>. QED  BY <1>2, <1>3

\* The entry a run that is not done yet removes, or adds, is no package.
LEMMA TemporaryEntry ==
  ASSUME Base, NEW p \in Procs, pr[p].pc \in {"snapshot", "seal", "finalize"}
  PROVE  /\ IsFiniteSet(dir \ {pr[p].entry})
         /\ {e \in dir \ {pr[p].entry} : e.kind = "package"} = Packages
         /\ pr[p].pc # "snapshot" =>
               {e \in dir \cup {pr[p].entry} : e.kind = "package"} = Packages
<1>1. IsFiniteSet(dir) /\ Prepared(p) /\ dir \subseteq Entry
  BY DEF Base, Listed, TypeOK
<1>2. IsFiniteSet(dir \ {pr[p].entry})
  BY <1>1, FS_Difference
<1>3. CASE pr[p].pc = "snapshot"
  <2>1. dir \ {pr[p].entry} = dir
    BY <1>1, <1>3, BackupAssumption DEF Prepared
  <2>. QED  BY <1>2, <1>3, <2>1 DEF Packages
<1>4. CASE pr[p].pc # "snapshot"
  <2>1. pr[p].entry.kind = "temporary"
    BY <1>1, <1>4 DEF Prepared
  <2>. QED  BY <1>2, <1>4, <2>1 DEF Packages
<1>. QED  BY <1>3, <1>4

LEMMA MakingGivesBase ==
  ASSUME Base, NEW p \in Procs,
         TakeSnapshot(p) \/ Seal(p) \/ Refused(p) \/ RunFails(p)
  PROVE  Base'
<1>. TypeOK /\ Numbered(p) /\ Prepared(p) /\ Matched(p) /\ pr[p] \in Process
  BY DEF Base, TypeOK
<1>1. CASE TakeSnapshot(p)
  <2>1. PICK x \in Process :
           /\ Becomes(p, x)
           /\ x.pc = "seal" /\ x.entry \in Entry
           /\ x.entry.kind = "temporary" /\ x.entry.n = x.n /\ x.entry.at = x.at
           /\ x.n = pr[p].n /\ x.at = pr[p].at /\ x.doomed = pr[p].doomed
    BY <1>1, TakeSnapshotDoes
  <2>2. pr'[p] = x /\ pr[p].doomed = {} /\ Making(p)
    BY <1>1, <2>1 DEF Becomes, TakeSnapshot, Numbered, Making
  <2>3. OtherTypes' /\ dir' = dir
    BY <1>1 DEF OtherTypes, TypeOK, TakeSnapshot
  <2>4. Prepared(p)' /\ Matched(p)'
    BY <2>1, <2>2 DEF Prepared, Matched, Updates
  <2>5. Quiet(p, x)
    BY <1>1, <2>1, <2>2, <2>3, SameDir DEF Quiet, TakeSnapshot
  <2>. QED  BY <2>1, <2>3, <2>4, <2>5, BaseQuiet
<1>2. CASE Seal(p)
  <2>1. PICK x \in Process :
           /\ Becomes(p, x)
           /\ x.pc = "finalize" /\ x.entry = pr[p].entry
           /\ x.n = pr[p].n /\ x.at = pr[p].at /\ x.doomed = pr[p].doomed
    BY <1>2, SealDoes
  <2>2. pr'[p] = x /\ pr[p].doomed = {} /\ Making(p) /\ pr[p].pc = "seal"
    BY <1>2, <2>1 DEF Becomes, Seal, Numbered, Making
  <2>3. pr[p].entry \in Entry /\ dir' = dir \cup {pr[p].entry}
    BY <1>2, <2>2 DEF Prepared, Seal
  <2>4. OtherTypes'
    BY <1>2, <2>3 DEF OtherTypes, TypeOK, Seal
  <2>5. Prepared(p)' /\ Matched(p)'
    BY <2>1, <2>2 DEF Prepared, Matched, Updates
  <2>6. IsFiniteSet(dir')
    BY <2>3, FS_AddElement DEF Base, Listed
  <2>7. Packages' = Packages
    BY <2>2, <2>3, TemporaryEntry DEF Packages
  <2>8. Quiet(p, x)
    BY <1>2, <2>1, <2>2, <2>6, <2>7 DEF Quiet, Seal
  <2>. QED  BY <2>1, <2>4, <2>5, <2>8, BaseQuiet
<1>3. ASSUME GiveUp(p), pr[p].pc \in {"snapshot", "seal", "finalize"},
             budget' \in [runs : 0 .. MaxRuns, faults : 0 .. MaxFaults],
             budget'.runs = budget.runs
      PROVE  Base'
  <2>1. dir' = dir \ {pr[p].entry} /\ clock' = clock
    BY <1>3 DEF GiveUp
  <2>2. OtherTypes'
    BY <1>3, <2>1 DEF OtherTypes, TypeOK, GiveUp
  <2>3. IsFiniteSet(dir') /\ Packages' = Packages
    BY <1>3, <2>1, TemporaryEntry DEF Packages
  <2>4. /\ Failed(pr[p].at) \in Todo /\ "failed" \in Ends /\ pr[p].doomed = {}
        /\ pr' = [pr EXCEPT ![p] = Updating(p, Failed(pr[p].at), "failed")]
    BY <1>3 DEF GiveUp, Process, Todo, Ends, Numbered
  <2>. QED  BY <1>3, <2>1, <2>2, <2>3, <2>4, ReportsGiveBase
<1>4. CASE Refused(p)
  BY <1>3, <1>4 DEF Refused, TypeOK
<1>5. CASE RunFails(p)
  BY <1>3, <1>5, FaultDoes DEF RunFails
<1>. QED  BY <1>1, <1>2, <1>4, <1>5

\* The new package, under a number no other has.
LEMMA NewPackage ==
  ASSUME Base, NEW p \in Procs, Finalize(p)
  PROVE  \E new \in Entry :
            /\ new.kind = "package" /\ new.n = pr[p].n /\ new.at = pr[p].at
            /\ new \notin Packages
            /\ Packages' = Packages \cup {new}
            /\ dir' \subseteq Entry /\ IsFiniteSet(dir')
<1>. DEFINE old == pr[p].entry
            new == Package(old)
<1>1. /\ old \in Entry /\ old.kind = "temporary" /\ old.n = pr[p].n /\ old.at = pr[p].at
      /\ \A e \in Packages : e.n # pr[p].n
  BY DEF Base, Prepared, Numbered, Finalize, Making
<1>2. /\ new \in Entry /\ new.kind = "package" /\ new.n = pr[p].n /\ new.at = pr[p].at
  BY <1>1, PackageIs
<1>3. dir' = (dir \ {old}) \cup {new}
  BY DEF Finalize
<1>. HIDE DEF new, old
<1>4. Packages' = Packages \cup {new}
  BY <1>1, <1>2, <1>3 DEF Packages
<1>5. dir \subseteq Entry /\ IsFiniteSet(dir)
  BY DEF Base, TypeOK, Listed
<1>6. IsFiniteSet(dir')
  BY <1>3, <1>5, FS_Difference, FS_AddElement
<1>. QED  BY <1>1, <1>2, <1>3, <1>4, <1>5, <1>6

LEMMA RetainingGivesBase ==
  ASSUME Base, NEW p \in Procs, Finalize(p) \/ ListPackages(p) \/ Unlink(p)
  PROVE  Base'
<1>. TypeOK /\ Numbered(p) /\ Prepared(p) /\ Matched(p) /\ pr[p] \in Process /\ clock \in Nat
  BY BackupAssumption DEF Base, TypeOK, Times
<1>1. ASSUME NEW x \in Process, Becomes(p, x), OtherTypes', Counts(p, x), Listed',
             x.pc \in {"retain", "unlink"}
      PROVE  Base'
  <2>1. TypeOK'
    BY <1>1 DEF OtherTypes, TypeOK, Becomes
  <2>2. pr'[p] = x
    BY <1>1 DEF Becomes
  <2>3. Prepared(p)' /\ Matched(p)'
    BY <1>1, <2>2 DEF Prepared, Matched, Updates
  <2>. QED  BY <1>1, <2>1, <2>3, NumbersStay, OthersStay DEF Base
<1>2. CASE Finalize(p)
  <2>1. PICK x \in Process :
           /\ Becomes(p, x)
           /\ x.pc = "retain"
           /\ x.n = pr[p].n /\ x.at = pr[p].at /\ x.doomed = pr[p].doomed
    BY <1>2, FinalizeDoes
  <2>2. PICK new \in Entry :
           /\ new.kind = "package" /\ new.n = pr[p].n /\ new.at = pr[p].at
           /\ new \notin Packages
           /\ Packages' = Packages \cup {new}
           /\ dir' \subseteq Entry /\ IsFiniteSet(dir')
    BY <1>2, NewPackage
  <2>3. pr'[p] = x /\ pr[p].doomed = {} /\ pr[p].pc = "finalize" /\ Making(p) /\ ~Making(p)'
    BY <1>2, <2>1 DEF Becomes, Finalize, Numbered, Making, Updates
  <2>4. made' \in Nat
    BY <1>2 DEF Finalize, TypeOK
  <2>5. OtherTypes' /\ clock' = clock /\ budget' = budget
    BY <1>2, <2>2, <2>4 DEF OtherTypes, TypeOK, Finalize
  <2>6. Counts(p, x)
    BY <2>1, <2>2, <2>3, <2>5 DEF Counts
  <2>7. new.n \in Given /\ new.at <= clock /\ \A e \in Packages : e.n # new.n
    BY <2>2, <2>3 DEF Given, Numbered, Process, TypeOK
  <2>8. Listed'
    BY <2>2, <2>5, <2>7 DEF Base, Listed, Given
  <2>. QED  BY <1>1, <2>1, <2>5, <2>6, <2>8
<1>3. CASE ListPackages(p)
  <2>1. PICK x \in Process, others, s \in SUBSET Packages :
           /\ others = {e \in Packages : e.n # pr[p].n}
           /\ s \subseteq others /\ Cardinality(s) = Room(others)
           /\ \A e \in s, d \in others \ s : Newer(e, d)
           /\ Becomes(p, x)
           /\ x.pc = "unlink" /\ x.n = pr[p].n /\ x.at = pr[p].at
           /\ x.doomed = {e.n : e \in Packages} \ ({pr[p].n} \cup {e.n : e \in s})
    BY <1>3, ListPackagesDoes
  <2>2. pr'[p] = x /\ ~Making(p)'
    BY <2>1 DEF Becomes, Making, Updates
  <2>3. OtherTypes' /\ dir' = dir /\ clock' = clock /\ budget' = budget
    BY <1>3 DEF OtherTypes, TypeOK, ListPackages
  <2>4. Listed' /\ Packages' = Packages
    BY <2>3, SameDir DEF Listed, Base, Given
  <2>5. Counts(p, x)
    BY <2>1, <2>2, <2>3, <2>4 DEF Counts
  <2>. QED  BY <1>1, <2>1, <2>3, <2>4, <2>5
<1>4. CASE Unlink(p)
  <2>1. PICK x \in Process, n \in pr[p].doomed :
           /\ Becomes(p, x)
           /\ dir' \in {dir, {e \in dir : e.n # n}}
           /\ x.pc = "unlink" /\ x.n = pr[p].n /\ x.at = pr[p].at
           /\ x.doomed = pr[p].doomed \ {n}
    BY <1>4, UnlinkDoes
  <2>2. pr'[p] = x /\ ~Making(p)'
    BY <2>1 DEF Becomes, Making, Updates
  <2>3. dir' \subseteq dir /\ Packages' \subseteq Packages
    BY <2>1 DEF Packages
  <2>4. IsFiniteSet(dir') /\ dir' \subseteq Entry
    BY <2>3, FS_Subset DEF Base, Listed, TypeOK
  <2>5. /\ budget' \in [runs : 0 .. MaxRuns, faults : 0 .. MaxFaults]
        /\ budget'.runs = budget.runs
    BY <1>4, FaultDoes DEF Unlink, TypeOK
  <2>6. OtherTypes' /\ clock' = clock
    BY <1>4, <2>4, <2>5 DEF OtherTypes, TypeOK, Unlink
  <2>7. Listed'
    BY <2>3, <2>4, <2>5, <2>6 DEF Base, Listed, Given
  <2>8. Counts(p, x)
    BY <2>1, <2>2, <2>3, <2>5, <2>6 DEF Counts
  <2>. QED  BY <1>1, <2>1, <2>6, <2>7, <2>8
<1>. QED  BY <1>2, <1>3, <1>4

LEMMA EndsGiveBase ==
  ASSUME Base, NEW p \in Procs,
         Retained(p) \/ RetentionFails(p) \/ Verify(p) \/ VerifyEscapes(p) \/ Crash(p)
  PROVE  Base'
<1>. TypeOK /\ Numbered(p) /\ pr[p] \in Process
  BY DEF Base, TypeOK
<1>. dir' = dir /\ clock' = clock
  BY DEF Retained, RetentionFails, Verify, VerifyEscapes, Crash
<1>. dir' \subseteq Entry /\ IsFiniteSet(dir') /\ Packages' = Packages
  BY SameDir
<1>. Ends = {"succeeded", "failed", "told"}
  BY DEF Ends
<1>. pr[p].at \in Times
  BY DEF Process
<1>1. CASE Retained(p)
  <2>1. /\ Succeeded(pr[p].at) \in Todo /\ pr[p].doomed = {}
        /\ pr' = [pr EXCEPT ![p] = Updating(p, Succeeded(pr[p].at), "succeeded")]
    BY <1>1 DEF Retained, Todo
  <2>2. OtherTypes' /\ budget'.runs = budget.runs
    BY <1>1 DEF OtherTypes, TypeOK, Retained
  <2>. QED  BY <2>1, <2>2, ReportsGiveBase
<1>2. CASE RetentionFails(p)
  <2>1. /\ Failed(pr[p].at) \in Todo
        /\ pr' = [pr EXCEPT ![p] = Updating(p, Failed(pr[p].at), "failed")]
    BY <1>2 DEF RetentionFails, Todo
  <2>2. pr[p].doomed = {}
    BY <1>2 DEF RetentionFails, Numbered
  <2>3. OtherTypes' /\ budget'.runs = budget.runs
    BY <1>2, FaultDoes DEF OtherTypes, TypeOK, RetentionFails
  <2>. QED  BY <2>1, <2>2, <2>3, ReportsGiveBase
<1>3. CASE Verify(p)
  <2>. DEFINE ok == Decrypts(p) /\ Restores(pr[p].entry)
  <2>1. pr' = [pr EXCEPT ![p] = Updating(p, Verified(ok), "told")]
    BY <1>3 DEF Verify
  <2>2. Verified(ok) \in {Verified(TRUE), Verified(FALSE)}
    <3>. HIDE DEF ok
    <3>. QED  BY DEF Verified
  <2>3. Verified(ok) \in Todo
    BY <2>2 DEF Todo
  <2>4. OtherTypes' /\ budget'.runs = budget.runs /\ pr[p].doomed = {}
    BY <1>3 DEF OtherTypes, TypeOK, Verify, Numbered
  <2>. HIDE DEF ok
  <2>. QED  BY <2>1, <2>2, <2>3, <2>4, ReportsGiveBase
<1>4. CASE Crash(p) \/ VerifyEscapes(p)
  <2>1. Becomes(p, Idle)
    BY <1>4, IdleIs, OnlyOne DEF Crash, VerifyEscapes
  <2>2. pr'[p] = Idle
    BY <2>1 DEF Becomes
  <2>3. OtherTypes' /\ budget'.runs = budget.runs
    BY <1>4, FaultDoes DEF OtherTypes, TypeOK, Crash, VerifyEscapes
  <2>4. Prepared(p)' /\ Matched(p)' /\ ~Making(p)'
    BY <2>2, IdleIs DEF Prepared, Matched, Updates, Making
  <2>5. Quiet(p, Idle)
    BY <2>3, <2>4, IdleIs DEF Quiet
  <2>. QED  BY <2>1, <2>3, <2>4, <2>5, IdleIs, BaseQuiet
<1>. QED  BY <1>1, <1>2, <1>3, <1>4

\* A damaged package has the name and the time of the one it was.
Damages(e, f) ==
    /\ f \in Entry /\ f.kind = "package"
    /\ f.n = e.n /\ f.at = e.at /\ f.schema = e.schema
    /\ Packages' = (Packages \ {e}) \cup {f}
    /\ dir' \subseteq Entry /\ IsFiniteSet(dir')

LEMMA SpoilDoes ==
  ASSUME Base, Spoil
  PROVE  /\ OtherTypes' /\ pr' = pr /\ clock' = clock /\ made' = made /\ last' = last
         /\ budget'.runs = budget.runs
         /\ dir' = dir \/ \E e \in Packages, f \in Entry : Damages(e, f)
<1>. TypeOK /\ IsFiniteSet(dir)
  BY DEF Base, Listed
<1>1. /\ budget' \in [runs : 0 .. MaxRuns, faults : 0 .. MaxFaults]
      /\ budget'.runs = budget.runs
      /\ pr' = pr /\ clock' = clock /\ made' = made /\ last' = last /\ key' = key
  BY FaultDoes DEF Spoil
<1>2. state' \in Sidecar \cup {Unreadable} /\ raced' \in BOOLEAN
  BY DEF Spoil, TypeOK
<1>3. live' \in [schema : 1 .. Latest, content : Contents]
  BY DEF Spoil, TypeOK
<1>4. ASSUME NEW e \in Packages, dir' = (dir \ {e}) \cup {[e EXCEPT !.damaged = TRUE]}
      PROVE  \E f \in Entry : Damages(e, f)
  <2>. DEFINE f == [e EXCEPT !.damaged = TRUE]
  <2>1. e \in Entry /\ e.kind = "package"
    BY DEF Packages, TypeOK
  <2>2. /\ f \in Entry /\ f.kind = "package"
        /\ f.n = e.n /\ f.at = e.at /\ f.schema = e.schema
    BY <2>1 DEF Entry
  <2>3. dir' = (dir \ {e}) \cup {f}
    BY <1>4
  <2>. HIDE DEF f
  <2>4. Packages' = (Packages \ {e}) \cup {f}
    BY <2>2, <2>3 DEF Packages
  <2>5. dir' \subseteq Entry /\ IsFiniteSet(dir')
    BY <2>2, <2>3, FS_Difference, FS_AddElement DEF TypeOK
  <2>. QED  BY <2>2, <2>4, <2>5 DEF Damages
<1>5. dir' = dir \/ \E e \in Packages, f \in Entry : Damages(e, f)
  BY <1>4 DEF Spoil
<1>6. dir' \subseteq Entry
  BY <1>5 DEF TypeOK, Damages
<1>. QED  BY <1>1, <1>2, <1>3, <1>5, <1>6 DEF OtherTypes, TypeOK

LEMMA OthersGiveBase ==
  ASSUME Base, Tick \/ Migrate \/ ChangeKey \/ Spoil
  PROVE  Base'
<1>. TypeOK /\ clock \in Nat /\ IsFiniteSet(dir)
  BY BackupAssumption DEF Base, TypeOK, Times, Listed
<1>1. ASSUME pr' = pr, OtherTypes', budget'.runs = budget.runs, clock' \in {clock, clock + 1},
             dir' = dir \/ \E e \in Packages, f \in Entry : Damages(e, f)
      PROVE  Base'
  <2>1. IsFiniteSet(dir')
    BY <1>1 DEF Damages
  <2>2. \A e \in Packages' : \E d \in Packages : d.n = e.n /\ d.at = e.at
    BY <1>1 DEF Damages, Packages
  <2>3. \A e, d \in Packages' : e.n = d.n => e = d
    BY <1>1, SameDir DEF Damages, Base, Listed
  <2>4. Packages \subseteq Entry /\ \A e \in Entry : e.at \in Nat
    BY BackupAssumption DEF Entry, Packages, TypeOK, Times
  <2>5. Listed'
    BY <1>1, <2>1, <2>2, <2>3, <2>4 DEF Base, Listed, Given
  <2>6. PICK p \in Procs : TRUE
    BY BackupAssumption
  <2>7. pr[p] \in Process /\ Becomes(p, pr[p])
    BY <1>1 DEF TypeOK, Becomes
  <2>8. \A q \in Procs : (Making(q)' <=> Making(q)) /\ Prepared(q)' /\ Matched(q)'
    BY <1>1 DEF Making, Updates, Prepared, Matched, Base
  <2>9. Counts(p, pr[p])
    BY <1>1, <2>2, <2>8 DEF Counts, Base, Numbered
  <2>10. TypeOK'
    BY <1>1 DEF OtherTypes, TypeOK
  <2>. QED  BY <2>5, <2>7, <2>8, <2>9, <2>10, NumbersStay DEF Base
<1>2. CASE Tick
  <2>1. clock' \in Times
    BY <1>2, BackupAssumption DEF Tick, TypeOK, Times
  <2>2. OtherTypes'
    BY <1>2, <2>1 DEF OtherTypes, TypeOK, Tick
  <2>. QED  BY <1>1, <1>2, <2>2 DEF Tick
<1>3. CASE Migrate
  <2>1. live' \in [schema : 1 .. Latest, content : Contents]
    BY <1>3, BackupAssumption DEF Migrate, TypeOK
  <2>2. OtherTypes' /\ budget'.runs = budget.runs
    BY <1>3, <2>1, FaultDoes DEF OtherTypes, TypeOK, Migrate
  <2>. QED  BY <1>1, <1>3, <2>2 DEF Migrate
<1>4. CASE ChangeKey
  <2>1. OtherTypes' /\ budget'.runs = budget.runs
    BY <1>4, FaultDoes DEF OtherTypes, TypeOK, ChangeKey
  <2>. QED  BY <1>1, <1>4, <2>1 DEF ChangeKey
<1>5. CASE Spoil
  BY <1>1, <1>5, SpoilDoes
<1>. QED  BY <1>2, <1>3, <1>4, <1>5

\* Earlier runs left as many packages as they made.
LEMMA FirstPackages ==
  ASSUME Init
  PROVE  IsFiniteSet(dir) /\ Packages = dir /\ Cardinality(Packages) = made
<1>1. PICK ns \in SUBSET Earlier :
         dir = {EarlierPackage(n) : n \in ns} /\ made = Cardinality(ns)
  BY DEF Init
<1>2. IsFiniteSet(ns)
  BY BackupAssumption, FS_Subset
<1>3. \A n \in ns : EarlierPackage(n).n = n /\ EarlierPackage(n).kind = "package"
  BY DEF EarlierPackage
<1>. DEFINE f == [n \in ns |-> EarlierPackage(n)]
<1>4. f \in Bijection(ns, dir)
  <2>1. f \in [ns -> dir] /\ \A m, n \in ns : f[m] = f[n] => m = n
    BY <1>1, <1>3
  <2>2. \A e \in dir : \E n \in ns : f[n] = e
    BY <1>1
  <2>. QED  BY <2>1, <2>2 DEF Bijection, Injection, Surjection, IsInjective
<1>5. IsFiniteSet(dir) /\ Cardinality(dir) = Cardinality(ns)
  BY <1>2, <1>4, FS_Bijection DEF ExistsBijection
<1>6. Packages = dir
  BY <1>1, <1>3 DEF Packages
<1>. QED  BY <1>1, <1>5, <1>6

LEMMA InitBase ==
  ASSUME Init
  PROVE  Base
<1>. MaxTime \in Nat \ {0} /\ MaxRuns \in Nat /\ MaxFaults \in Nat /\ Latest \in Nat \ {0}
  BY BackupAssumption
<1>1. PICK ns \in SUBSET Earlier :
         /\ dir = {EarlierPackage(n) : n \in ns}
         /\ state = IF ns = {} THEN NoSidecar
                    ELSE [NoSidecar EXCEPT !.tried = 0, !.success = 0, !.status = "success"]
         /\ made = Cardinality(ns)
         /\ last = IF ns = {} THEN "none" ELSE "success"
  BY DEF Init
<1>2. IsFiniteSet(ns)
  BY BackupAssumption, FS_Subset
<1>3. \A n \in ns : /\ EarlierPackage(n) \in Entry
                    /\ EarlierPackage(n).n = n /\ EarlierPackage(n).at = 0
  BY DEF EarlierPackage, Entry, Numbers, Times, Contents, Init
<1>4. dir \subseteq Entry
  BY <1>1, <1>3
<1>5. state \in Sidecar \cup {Unreadable}
  <2>1. NoSidecar \in Sidecar /\ 0 \in Times
    BY DEF NoSidecar, Sidecar, Times
  <2>2. [NoSidecar EXCEPT !.tried = 0, !.success = 0, !.status = "success"] \in Sidecar
    BY <2>1 DEF Sidecar
  <2>. QED  BY <1>1, <2>1, <2>2
<1>6. made \in Nat
  BY <1>1, <1>2, FS_CardinalityType
<1>7. TypeOK
  <2>1. pr \in [Procs -> Process]
    BY IdleIs DEF Init
  <2>2. last \in {"none", "success", "failed"}
    BY <1>1
  <2>3. live \in [schema : 1 .. Latest, content : Contents] /\ clock \in Times
    BY DEF Init, Contents, Times
  <2>4. budget \in [runs : 0 .. MaxRuns, faults : 0 .. MaxFaults]
    BY DEF Init
  <2>. QED  BY <1>4, <1>5, <1>6, <2>1, <2>2, <2>3, <2>4 DEF Init, TypeOK
<1>8. Listed
  <2>1. IsFiniteSet(dir)
    BY FirstPackages
  <2>. QED  BY <1>1, <1>3, <2>1 DEF Listed, Packages, Given, Init
<1>9. \A p \in Procs : Numbered(p) /\ Prepared(p) /\ Matched(p)
  <2>1. \A p \in Procs : pr[p] = Idle
    BY DEF Init
  <2>2. budget.runs = 0 /\ clock = 1
    BY DEF Init
  <2>3. \A p \in Procs : ~Making(p)
    BY <2>1, IdleIs DEF Making, Updates
  <2>4. \A p \in Procs : Numbered(p)
    BY <2>1, <2>2, <2>3, IdleIs DEF Numbered
  <2>. QED  BY <2>1, <2>4, IdleIs DEF Prepared, Matched, Updates
<1>. QED  BY <1>7, <1>8, <1>9 DEF Base

LEMMA BaseStays ==
  ASSUME Base, [Next]_vars
  PROVE  Base'
<1>1. CASE UNCHANGED vars
  <2>1. TypeOK'
    BY <1>1 DEF vars, Base, TypeOK
  <2>2. Packages' = Packages /\ Given' = Given /\ dir' = dir /\ clock' = clock /\ pr' = pr
    BY <1>1 DEF vars, Packages, Given
  <2>3. Listed'
    BY <2>2 DEF Base, Listed
  <2>4. budget' = budget /\ \A p \in Procs : (Making(p)' <=> Making(p))
    BY <1>1 DEF vars, Making, Updates
  <2>5. \A p \in Procs : Numbered(p)'
    BY <2>2, <2>4 DEF Base, Numbered
  <2>6. \A p \in Procs : Prepared(p)' /\ Matched(p)'
    BY <2>2 DEF Base, Prepared, Matched, Updates
  <2>. QED  BY <2>1, <2>3, <2>5, <2>6 DEF Base
<1>. QED  BY <1>1, NotesGiveBase, StartsGiveBase, MakingGivesBase, RetainingGivesBase,
            EndsGiveBase, OthersGiveBase DEF Next

(* TypeOK: no step leaves the types of the backup model, and every process   *)
(* works under a number of its own, with the package it is about to write.   *)
THEOREM BackupTypeCorrect == Spec => []TypeOK
<1>1. Init => Base
  BY InitBase
<1>2. Base /\ [Next]_vars => Base'
  BY BaseStays
<1>3. Base => TypeOK
  BY DEF Base
<1>. QED  BY <1>1, <1>2, <1>3, PTL DEF Spec

-----------------------------------------------------------------------------
(* The steps of a process that neither add, doom nor remove a package.     *)

CalmStep(p) ==
    \/ LoadState(p) \/ ReplaceState(p) \/ ReplaceFails(p)
    \/ StartBackup(p) \/ TakeSnapshot(p) \/ Seal(p) \/ Refused(p) \/ RunFails(p)
    \/ Retained(p) \/ RetentionFails(p) \/ Verify(p) \/ VerifyEscapes(p) \/ Crash(p)
    \/ \E e \in Packages : StartVerify(p, e)

LEMMA CalmSteps ==
  ASSUME Base, NEW p \in Procs, CalmStep(p)
  PROVE  /\ \A q \in Procs : q # p => pr'[q] = pr[q]
         /\ Packages' = Packages /\ made' = made /\ clock' = clock
         /\ ~Retaining(p)'
         /\ Making(p)' => \/ pr'[p].at = clock
                          \/ Making(p) /\ pr'[p].at = pr[p].at
         /\ Reporting(p)' => (Retaining(p) \/ Reporting(p)) /\ pr'[p].at = pr[p].at
<1>. TypeOK /\ Numbered(p) /\ Prepared(p) /\ Matched(p) /\ pr[p] \in Process
  BY DEF Base, TypeOK
<1>. DEFINE OK == /\ \A q \in Procs : q # p => pr'[q] = pr[q]
                  /\ Packages' = Packages /\ made' = made /\ clock' = clock
                  /\ ~Retaining(p)'
                  /\ Making(p)' => \/ pr'[p].at = clock
                                   \/ Making(p) /\ pr'[p].at = pr[p].at
                  /\ Reporting(p)' => (Retaining(p) \/ Reporting(p)) /\ pr'[p].at = pr[p].at
<1>1. ASSUME dir' = dir
      PROVE  Packages' = Packages
  BY <1>1 DEF Packages
<1>2. ASSUME NEW todo \in Todo, NEW next \in Ends,
             pr' = [pr EXCEPT ![p] = Updating(p, todo, next)],
             Packages' = Packages, made' = made, clock' = clock,
             next = "succeeded" => Retaining(p)
      PROVE  OK
  <2>1. /\ Becomes(p, pr'[p])
        /\ pr'[p].pc = "load" /\ pr'[p].next = next /\ pr'[p].at = pr[p].at
    BY <1>2, UpdatingDoes
  <2>. QED  BY <1>2, <2>1 DEF Becomes, Retaining, Making, Updates, Reporting, Ends
<1>3. ASSUME Becomes(p, Idle), Packages' = Packages, made' = made, clock' = clock
      PROVE  OK
  BY <1>3, IdleIs DEF Becomes, Retaining, Making, Updates, Reporting
<1>4. /\ Failed(pr[p].at) \in Todo /\ Succeeded(pr[p].at) \in Todo
      /\ "failed" \in Ends /\ "succeeded" \in Ends /\ "told" \in Ends
  BY DEF Process, Todo, Ends
<1>5. CASE LoadState(p)
  <2>1. PICK x \in Process :
           /\ Becomes(p, x)
           /\ x.pc = "replace" /\ x.base = Loaded(state)
           /\ x.n = pr[p].n /\ x.at = pr[p].at /\ x.key = pr[p].key /\ x.entry = pr[p].entry
           /\ x.doomed = pr[p].doomed /\ x.todo = pr[p].todo /\ x.next = pr[p].next
    BY <1>5, LoadStateDoes
  <2>2. pr'[p] = x /\ pr[p].pc = "load" /\ Packages' = Packages /\ made' = made /\ clock' = clock
    BY <1>1, <1>5, <2>1 DEF Becomes, LoadState
  <2>. QED  BY <2>1, <2>2 DEF Becomes, Retaining, Making, Updates, Reporting
<1>6. ASSUME Updates(p), GoesOn(p), dir' = dir, made' = made, clock' = clock
      PROVE  OK
  <2>1. ASSUME pr[p].next = "snapshot", NEW x \in Process, Becomes(p, x), x.pc = "snapshot",
               x.at = pr[p].at
        PROVE  OK
    BY <1>1, <1>6, <2>1 DEF Becomes, Retaining, Making, Updates, Reporting
  <2>. QED  BY <1>1, <1>3, <1>6, <2>1, GoesOnDoes
<1>7. CASE ReplaceState(p)
  BY <1>6, <1>7 DEF ReplaceState, Updates
<1>8. CASE ReplaceFails(p)
  <2>1. CASE pr[p].next = "succeeded"
    <3>1. pr' = [pr EXCEPT ![p] = Updating(p, Failed(pr[p].at), "failed")]
      BY <1>8, <2>1 DEF ReplaceFails
    <3>. QED  BY <1>1, <1>2, <1>4, <1>8, <3>1 DEF ReplaceFails
  <2>. QED  BY <1>6, <1>8, <2>1 DEF ReplaceFails, Updates
<1>9. CASE StartBackup(p)
  <2>1. PICK x \in Process :
           /\ Becomes(p, x)
           /\ x.pc = "load" /\ x.next = "snapshot" /\ x.at = clock
    BY <1>9, StartBackupDoes
  <2>2. Packages' = Packages /\ made' = made /\ clock' = clock
    BY <1>1, <1>9 DEF StartBackup
  <2>. QED  BY <2>1, <2>2 DEF Becomes, Retaining, Making, Updates, Reporting
<1>10. CASE TakeSnapshot(p)
  <2>1. PICK x \in Process : Becomes(p, x) /\ x.pc = "seal" /\ x.at = pr[p].at
    BY <1>10, TakeSnapshotDoes
  <2>2. Packages' = Packages /\ made' = made /\ clock' = clock /\ pr[p].pc = "snapshot"
    BY <1>1, <1>10 DEF TakeSnapshot
  <2>. QED  BY <2>1, <2>2 DEF Becomes, Retaining, Making, Updates, Reporting
<1>11. CASE Seal(p)
  <2>1. PICK x \in Process : Becomes(p, x) /\ x.pc = "finalize" /\ x.at = pr[p].at
    BY <1>11, SealDoes
  <2>2. pr[p].pc = "seal" /\ dir' = dir \cup {pr[p].entry} /\ made' = made /\ clock' = clock
    BY <1>11 DEF Seal
  <2>3. Packages' = Packages
    BY <2>2, TemporaryEntry DEF Packages
  <2>. QED  BY <2>1, <2>2, <2>3 DEF Becomes, Retaining, Making, Updates, Reporting
<1>12. CASE Refused(p) \/ RunFails(p)
  <2>1. GiveUp(p) /\ pr[p].pc \in {"snapshot", "seal", "finalize"}
    BY <1>12 DEF Refused, RunFails
  <2>2. Packages' = Packages
    BY <2>1, TemporaryEntry DEF Packages, GiveUp
  <2>. QED  BY <1>2, <1>4, <2>1, <2>2 DEF GiveUp
<1>13. CASE Retained(p)
  BY <1>1, <1>2, <1>4, <1>13 DEF Retained, Retaining
<1>14. CASE RetentionFails(p)
  BY <1>1, <1>2, <1>4, <1>14 DEF RetentionFails
<1>15. CASE Verify(p)
  <2>. DEFINE ok == Decrypts(p) /\ Restores(pr[p].entry)
  <2>1. pr' = [pr EXCEPT ![p] = Updating(p, Verified(ok), "told")]
    BY <1>15 DEF Verify
  <2>2. Verified(ok) \in Todo
    BY DEF Verified, Todo
  <2>. HIDE DEF ok
  <2>. QED  BY <1>1, <1>2, <1>4, <1>15, <2>1, <2>2 DEF Verify
<1>16. CASE Crash(p) \/ VerifyEscapes(p)
  <2>1. Becomes(p, Idle)
    BY <1>16, IdleIs, OnlyOne DEF Crash, VerifyEscapes
  <2>. QED  BY <1>1, <1>3, <1>16, <2>1 DEF Crash, VerifyEscapes
<1>17. ASSUME NEW e \in Packages, StartVerify(p, e)
       PROVE  OK
  <2>1. PICK x \in Process : Becomes(p, x) /\ x.pc = "decrypt"
    BY <1>17, StartVerifyDoes
  <2>2. Packages' = Packages /\ made' = made /\ clock' = clock
    BY <1>1, <1>17 DEF StartVerify
  <2>. QED  BY <2>1, <2>2 DEF Becomes, Retaining, Making, Updates, Reporting
<1>. QED  BY <1>5, <1>7, <1>8, <1>9, <1>10, <1>11, <1>12, <1>13, <1>14, <1>15, <1>16, <1>17
       DEF CalmStep

\* What the operator, the clock and the disk change: a package may be damaged.
LEMMA OutsideSteps ==
  ASSUME Base, Tick \/ Migrate \/ ChangeKey \/ Spoil
  PROVE  /\ pr' = pr /\ made' = made /\ last' = last
         /\ Packages' = Packages \/ \E e \in Packages, f \in Entry : Damages(e, f)
<1>1. CASE Spoil
  <2>1. dir' = dir => Packages' = Packages
    BY DEF Packages
  <2>. QED  BY <1>1, <2>1, SpoilDoes
<1>2. CASE Tick \/ Migrate \/ ChangeKey
  BY <1>2 DEF Tick, Migrate, ChangeKey, Packages
<1>. QED  BY <1>1, <1>2

-----------------------------------------------------------------------------
(* Retention leaves plenty.                                                *)

LEMMA FinitePackages ==
  ASSUME Base
  PROVE  /\ IsFiniteSet(Packages) /\ Packages \subseteq Entry
         /\ \A e \in Packages : e.at \in Nat /\ e.n \in Numbers /\ e.schema \in 1 .. Latest
<1>1. IsFiniteSet(dir) /\ dir \subseteq Entry /\ Packages \subseteq dir
  BY DEF Base, Listed, TypeOK, Packages
<1>2. MaxTime \in Nat
  BY BackupAssumption
<1>. QED  BY <1>1, <1>2, FS_Subset DEF Entry, Times

\* The order of the list is one order of all packages.
LEMMA NewerIsAnOrder ==
  ASSUME Base
  PROVE  /\ \A e \in Packages : ~Newer(e, e)
         /\ \A a, b, c \in Packages : Newer(a, b) /\ Newer(b, c) => Newer(a, c)
         /\ \A a, b \in Packages : a = b \/ Newer(a, b) \/ Newer(b, a)
<1>1. \A e \in Packages : /\ e.at \in Nat /\ <<e.schema, e.n>> \in (1 .. Latest) \X Numbers
                          /\ Place[<<e.schema, e.n>>] \in Nat
  BY FinitePackages, BackupAssumption
<1>2. \A a, b \in Packages : Place[<<a.schema, a.n>>] = Place[<<b.schema, b.n>>] => a = b
  <2>. TAKE a, b \in Packages
  <2>1. Place[<<a.schema, a.n>>] = Place[<<b.schema, b.n>>] => a.n = b.n
    BY <1>1, BackupAssumption
  <2>. QED  BY <2>1 DEF Base, Listed
<1>. QED  BY <1>1, <1>2 DEF Newer

\* Damage changes neither how many packages there are nor their order.
LEMMA DamagedSet ==
  ASSUME Base, NEW e \in Packages, NEW f \in Entry, Damages(e, f), NEW S \in SUBSET Packages
  PROVE  /\ Cardinality(Packages') = Cardinality(Packages)
         /\ \E T \in SUBSET Packages' :
               /\ Cardinality(T) = Cardinality(S)
               /\ \A t \in T : \E s \in S : t.n = s.n /\ t.at = s.at /\ t.schema = s.schema
<1>1. f \in Packages => f = e
  BY DEF Damages, Base, Listed
<1>2. ASSUME NEW R \in SUBSET Packages, e \in R
      PROVE  Cardinality((R \ {e}) \cup {f}) = Cardinality(R)
  <2>1. IsFiniteSet(R)
    BY FinitePackages, FS_Subset
  <2>2. IsFiniteSet(R \ {e}) /\ Cardinality(R \ {e}) = Cardinality(R) - 1
    BY <1>2, <2>1, FS_RemoveElement
  <2>3. f \notin R \ {e}
    BY <1>1
  <2>4. Cardinality((R \ {e}) \cup {f}) = Cardinality(R \ {e}) + 1
    BY <2>2, <2>3, FS_AddElement
  <2>. QED  BY <2>1, <2>2, <2>4, FS_CardinalityType
<1>3. Cardinality(Packages') = Cardinality(Packages)
  BY <1>2 DEF Damages
<1>4. CASE e \in S
  <2>. DEFINE T == (S \ {e}) \cup {f}
  <2>1. T \subseteq Packages' /\ Cardinality(T) = Cardinality(S)
    BY <1>2, <1>4 DEF Damages
  <2>2. \A t \in T : \E s \in S : t.n = s.n /\ t.at = s.at /\ t.schema = s.schema
    BY <1>4 DEF Damages
  <2>. QED  BY <1>3, <2>1, <2>2
<1>5. CASE e \notin S
  BY <1>3, <1>5 DEF Damages
<1>. QED  BY <1>4, <1>5

\* Steps that doom no more packages, and leave those there are, leave plenty.
LEMMA PlentyCalm ==
  ASSUME Base, Plenty, Packages' = Packages, made' = made,
         \A q \in Procs : pr'[q].doomed \subseteq pr[q].doomed
  PROVE  Plenty'
<1>1. \A e \in Packages : Doomed(e)' => Doomed(e)
  BY DEF Doomed
<1>2. Untouched => Untouched'
  BY DEF Untouched
<1>3. \A S \in SUBSET Packages : Safe(S) => Safe(S)'
  BY <1>1 DEF Safe, Newer
<1>. QED  BY <1>2, <1>3 DEF Plenty

LEMMA PlentyDamaged ==
  ASSUME Base, Plenty, pr' = pr, made' = made, NEW e \in Packages, NEW f \in Entry, Damages(e, f)
  PROVE  Plenty'
<1>1. CASE Untouched /\ Cardinality(Packages) = made
  <2>1. Untouched'
    BY <1>1 DEF Untouched
  <2>. QED  BY <1>1, <2>1, DamagedSet DEF Plenty
<1>2. ASSUME NEW S \in SUBSET Packages, Cardinality(S) = Keep - 1, Safe(S)
      PROVE  Plenty'
  <2>1. PICK T \in SUBSET Packages' :
           /\ Cardinality(T) = Cardinality(S)
           /\ \A t \in T : \E s \in S : t.n = s.n /\ t.at = s.at /\ t.schema = s.schema
    BY DamagedSet
  <2>2. \A d \in Packages' : \E c \in Packages :
           d.n = c.n /\ d.at = c.at /\ d.schema = c.schema
    BY DEF Damages
  <2>3. \A d \in Packages' : Doomed(d)' <=> \E p \in Procs : d.n \in pr[p].doomed
    BY DEF Doomed
  <2>4. \A t \in T : ~Doomed(t)'
    BY <1>2, <2>1, <2>3 DEF Safe, Doomed
  <2>5. ASSUME NEW t \in T, NEW d \in Packages', Doomed(d)'
        PROVE  Newer(t, d)
    <3>1. PICK s \in S : t.n = s.n /\ t.at = s.at /\ t.schema = s.schema
      BY <2>1
    <3>2. PICK c \in Packages : d.n = c.n /\ d.at = c.at /\ d.schema = c.schema
      BY <2>2
    <3>3. Newer(s, c)
      BY <1>2, <2>3, <2>5, <3>2 DEF Safe, Doomed
    <3>. QED  BY <3>1, <3>2, <3>3 DEF Newer
  <2>6. Safe(T)'
    BY <2>4, <2>5 DEF Safe, Newer
  <2>. QED  BY <1>2, <2>1, <2>6 DEF Plenty
<1>. QED  BY <1>1, <1>2 DEF Plenty

\* A new package is not doomed, and dooms nothing.
LEMMA PlentyFinalized ==
  ASSUME Base, Plenty, NEW p \in Procs, Finalize(p)
  PROVE  Plenty'
<1>1. PICK new \in Entry :
         /\ new.n = pr[p].n /\ new \notin Packages
         /\ Packages' = Packages \cup {new}
  BY NewPackage
<1>2. PICK x \in Process : Becomes(p, x) /\ x.doomed = pr[p].doomed
  BY FinalizeDoes DEF Base
<1>3. \A q \in Procs : pr'[q].doomed = pr[q].doomed
  BY <1>2 DEF Becomes
<1>4. \A q \in Procs : pr[p].n \notin pr[q].doomed
  BY DEF Base, Numbered, Making, Finalize
<1>5. Cardinality(Packages') = Cardinality(Packages) + 1 /\ made' = made + 1
  BY <1>1, FinitePackages, FS_AddElement DEF Finalize
<1>6. CASE Untouched /\ Cardinality(Packages) = made
  <2>1. Untouched'
    BY <1>3, <1>6 DEF Untouched
  <2>. QED  BY <1>5, <1>6, <2>1 DEF Plenty
<1>7. ASSUME NEW S \in SUBSET Packages, Cardinality(S) = Keep - 1, Safe(S)
      PROVE  Plenty'
  <2>1. \A d \in Packages' : Doomed(d)' => d \in Packages /\ Doomed(d)
    BY <1>1, <1>3, <1>4 DEF Doomed
  <2>2. \A s \in S : ~Doomed(s)'
    BY <1>1, <1>7, <2>1 DEF Safe
  <2>3. Safe(S)'
    BY <1>1, <1>7, <2>1, <2>2 DEF Safe, Newer
  <2>. QED  BY <1>1, <1>7, <2>3 DEF Plenty
<1>. QED  BY <1>6, <1>7 DEF Plenty

LEMMA PlentyUnlinked ==
  ASSUME Base, Plenty, NEW p \in Procs, Unlink(p)
  PROVE  Plenty'
<1>1. PICK x \in Process, n \in pr[p].doomed :
         /\ Becomes(p, x)
         /\ dir' \in {dir, {e \in dir : e.n # n}}
         /\ x.doomed = pr[p].doomed \ {n}
  BY UnlinkDoes DEF Base
<1>2. \A q \in Procs : pr'[q].doomed \subseteq pr[q].doomed
  BY <1>1 DEF Becomes
<1>3. PICK S \in SUBSET Packages : Cardinality(S) = Keep - 1 /\ Safe(S)
  BY <1>1 DEF Plenty, Untouched
<1>4. S \subseteq Packages' /\ Packages' \subseteq Packages
  BY <1>1, <1>3 DEF Safe, Doomed, Packages
<1>5. \A d \in Packages' : Doomed(d)' => Doomed(d)
  BY <1>2 DEF Doomed
<1>6. Safe(S)'
  BY <1>3, <1>4, <1>5 DEF Safe, Newer
<1>. QED  BY <1>3, <1>4, <1>6 DEF Plenty

\* A run that lists the packages keeps enough that are newer than all it dooms.
LEMMA KeptIsEnough ==
  ASSUME Base, NEW others \in SUBSET Packages, NEW s \in SUBSET others,
         Cardinality(s) = Room(others), others # s
  PROVE  Cardinality(s) = Keep - 1
<1>1. IsFiniteSet(others) /\ Keep \in Nat
  BY FinitePackages, FS_Subset, BackupAssumption
<1>2. Cardinality(s) # Cardinality(others) /\ Cardinality(others) \in Nat
  BY <1>1, FS_Subset, FS_CardinalityType
<1>. QED  BY <1>2 DEF Room

LEMMA PlentyListed ==
  ASSUME Base, Plenty, NEW p \in Procs, ListPackages(p)
  PROVE  Plenty'
<1>1. PICK x \in Process, others, s \in SUBSET Packages :
         /\ others = {e \in Packages : e.n # pr[p].n}
         /\ s \subseteq others /\ Cardinality(s) = Room(others)
         /\ \A e \in s, d \in others \ s : Newer(e, d)
         /\ Becomes(p, x)
         /\ x.pc = "unlink" /\ x.n = pr[p].n /\ x.at = pr[p].at
         /\ x.doomed = {e.n : e \in Packages} \ ({pr[p].n} \cup {e.n : e \in s})
  BY ListPackagesDoes DEF Base
<1>2. Packages' = Packages /\ made' = made /\ pr[p].doomed = {}
  BY DEF ListPackages, Packages, Base, Numbered
<1>3. \A d \in Packages : d.n \in x.doomed <=> d \in others \ s
  BY <1>1 DEF Base, Listed
<1>4. \A d \in Packages : Doomed(d)' <=> Doomed(d) \/ d \in others \ s
  <2>. TAKE d \in Packages
  <2>1. \A q \in Procs : q # p => pr'[q] = pr[q]
    BY <1>1 DEF Becomes
  <2>2. pr'[p].doomed = x.doomed
    BY <1>1 DEF Becomes
  <2>. QED  BY <1>2, <1>3, <2>1, <2>2 DEF Doomed
<1>5. CASE others = s
  <2>1. x.doomed = {}
    BY <1>1, <1>5
  <2>2. \A q \in Procs : pr'[q].doomed \subseteq pr[q].doomed
    BY <1>1, <2>1 DEF Becomes
  <2>. QED  BY <1>2, <2>2, PlentyCalm
<1>6. CASE others # s
  <2>1. Cardinality(s) = Keep - 1
    BY <1>1, <1>6, KeptIsEnough
  <2>2. ASSUME \A a \in s, d \in Packages : ~Doomed(a) /\ (Doomed(d) => Newer(a, d))
        PROVE  Plenty'
    <3>1. Safe(s)'
      BY <1>1, <1>2, <1>4, <2>2 DEF Safe, Newer
    <3>. QED  BY <1>1, <1>2, <2>1, <3>1 DEF Plenty
  <2>3. CASE Untouched
    BY <2>2, <2>3 DEF Untouched, Doomed
  <2>4. ASSUME NEW S \in SUBSET Packages, Cardinality(S) = Keep - 1, Safe(S)
        PROVE  Plenty'
    <3>1. CASE \A a \in S, d \in others \ s : Newer(a, d)
      <4>1. \A a \in S : a \notin others \ s
        BY <1>1, <3>1, NewerIsAnOrder
      <4>2. Safe(S)'
        BY <1>1, <1>2, <1>4, <2>4, <3>1, <4>1 DEF Safe, Newer
      <4>. QED  BY <1>2, <2>4, <4>2 DEF Plenty
    <3>2. ASSUME NEW a \in S, NEW d \in others \ s, ~Newer(a, d)
          PROVE  Plenty'
      <4>1. a \in Packages /\ d \in Packages /\ (a = d \/ Newer(d, a))
        BY <1>1, <2>4, <3>2, NewerIsAnOrder
      <4>2. \A b \in s, c \in Packages : Doomed(c) => Newer(b, c)
        <5>. TAKE b \in s, c \in Packages
        <5>1. Doomed(c) => Newer(a, c)
          BY <2>4 DEF Safe
        <5>2. b \in Packages /\ Newer(b, d)
          BY <1>1, <3>2
        <5>. QED  BY <4>1, <5>1, <5>2, NewerIsAnOrder
      <4>3. \A b \in s : ~Doomed(b)
        BY <1>1, <4>2, NewerIsAnOrder
      <4>. QED  BY <2>2, <4>2, <4>3
    <3>. QED  BY <3>1, <3>2
  <2>. QED  BY <2>3, <2>4 DEF Plenty
<1>. QED  BY <1>5, <1>6

LEMMA PlentyStays ==
  ASSUME Base, Base', Plenty, [Next]_vars
  PROVE  Plenty'
<1>1. CASE UNCHANGED vars
  BY <1>1, PlentyCalm DEF vars, Packages
<1>2. ASSUME NEW p \in Procs, CalmStep(p)
      PROVE  Plenty'
  <2>1. /\ \A q \in Procs : q # p => pr'[q] = pr[q]
        /\ Packages' = Packages /\ made' = made
        /\ ~Retaining(p)'
    BY <1>2, CalmSteps
  <2>2. pr'[p].doomed = {}
    BY <2>1 DEF Base, Numbered, Retaining
  <2>. QED  BY <2>1, <2>2, PlentyCalm
<1>3. CASE Tick \/ Migrate \/ ChangeKey \/ Spoil
  <2>1. /\ pr' = pr /\ made' = made
        /\ Packages' = Packages \/ \E e \in Packages, f \in Entry : Damages(e, f)
    BY <1>3, OutsideSteps
  <2>. QED  BY <2>1, PlentyCalm, PlentyDamaged
<1>. QED  BY <1>1, <1>2, <1>3, PlentyFinalized, PlentyListed, PlentyUnlinked
       DEF Next, CalmStep

-----------------------------------------------------------------------------
(* A process that nobody runs beside keeps one more: its own package.      *)

\* As many as are to be kept, and none of them doomed.
Full == \/ Untouched /\ Cardinality(Packages) = made
        \/ \E S \in SUBSET Packages : Cardinality(S) = Keep /\ \A s \in S : ~Doomed(s)

LEMMA FullCalm ==
  ASSUME Full, Packages' = Packages, made' = made,
         \A q \in Procs : pr'[q].doomed \subseteq pr[q].doomed
  PROVE  Full'
<1>1. \A e \in Packages : Doomed(e)' => Doomed(e)
  BY DEF Doomed
<1>2. Untouched => Untouched'
  BY DEF Untouched
<1>. QED  BY <1>1, <1>2 DEF Full

LEMMA AloneCalm ==
  ASSUME Base, Base', Alone, Single, NEW p \in Procs, CalmStep(p)
  PROVE  Own(p)' /\ Full'
<1>1. /\ \A q \in Procs : q # p => pr'[q] = pr[q]
      /\ Packages' = Packages /\ made' = made
      /\ ~Retaining(p)'
      /\ Making(p)' => \/ pr'[p].at = clock
                       \/ Making(p) /\ pr'[p].at = pr[p].at
  BY CalmSteps
<1>2. pr'[p].doomed = {}
  BY <1>1 DEF Base, Numbered, Retaining
<1>3. Own(p)'
  BY <1>1 DEF Alone, Own, Base, Listed
<1>. QED  BY <1>1, <1>2, <1>3, FullCalm DEF Alone, Full

LEMMA AloneFinalized ==
  ASSUME Base, Alone, Single, NEW p \in Procs, Finalize(p)
  PROVE  Own(p)' /\ Full'
<1>1. PICK new \in Entry :
         /\ new.n = pr[p].n /\ new.at = pr[p].at /\ new \notin Packages
         /\ Packages' = Packages \cup {new}
  BY NewPackage
<1>2. PICK x \in Process :
         /\ Becomes(p, x)
         /\ x.pc = "retain"
         /\ x.at = pr[p].at /\ x.n = pr[p].n /\ x.doomed = pr[p].doomed
  BY FinalizeDoes DEF Base
<1>3. pr'[p] = x /\ \A q \in Procs : pr'[q].doomed = pr[q].doomed /\ pr[p].n \notin pr[q].doomed
  BY <1>2 DEF Becomes, Base, Numbered, Making, Finalize
<1>4. Cardinality(Packages') = Cardinality(Packages) + 1 /\ made' = made + 1
  BY <1>1, FinitePackages, FS_AddElement DEF Finalize
<1>5. ~Doomed(new)' /\ \A e \in Packages : Doomed(e)' <=> Doomed(e)
  BY <1>1, <1>3 DEF Doomed
<1>6. Own(p)'
  <2>1. \A e \in Packages : e.at <= pr[p].at
    BY DEF Alone, Own, Making, Finalize
  <2>2. pr[p].at <= pr[p].at
    BY BackupAssumption DEF Base, TypeOK, Process, Times
  <2>. QED  BY <1>1, <1>2, <1>3, <1>5, <2>1, <2>2 DEF Own
<1>7. Untouched => Untouched'
  BY <1>3 DEF Untouched
<1>. QED  BY <1>1, <1>4, <1>5, <1>6, <1>7 DEF Alone, Full

LEMMA AloneListed ==
  ASSUME Base, Alone, Single, NEW p \in Procs, ListPackages(p)
  PROVE  Own(p)' /\ Full'
<1>1. PICK x \in Process, others, s \in SUBSET Packages :
         /\ others = {e \in Packages : e.n # pr[p].n}
         /\ s \subseteq others /\ Cardinality(s) = Room(others)
         /\ Becomes(p, x)
         /\ x.pc = "unlink" /\ x.n = pr[p].n /\ x.at = pr[p].at
         /\ x.doomed = {e.n : e \in Packages} \ ({pr[p].n} \cup {e.n : e \in s})
  BY ListPackagesDoes DEF Base
<1>2. Packages' = Packages /\ made' = made /\ pr[p].doomed = {} /\ pr'[p] = x /\ Retaining(p)
  BY <1>1 DEF ListPackages, Packages, Base, Numbered, Becomes, Retaining
<1>3. \A q \in Procs : q = p
  BY DEF Single
<1>4. \A d \in Packages : Doomed(d)' <=> d.n \in x.doomed
  BY <1>2, <1>3 DEF Doomed
<1>5. PICK own \in Packages : own.n = pr[p].n /\ own.at = pr[p].at
  BY <1>2 DEF Alone, Own
<1>6. Own(p)'
  <2>1. ~Doomed(own)'
    BY <1>1, <1>4, <1>5
  <2>2. \A e \in Packages : e.at <= pr[p].at
    BY <1>2 DEF Alone, Own
  <2>. QED  BY <1>1, <1>2, <1>5, <2>1, <2>2 DEF Own
<1>7. CASE others = s
  <2>1. x.doomed = {}
    BY <1>1, <1>7
  <2>2. \A q \in Procs : pr'[q].doomed \subseteq pr[q].doomed
    BY <1>2, <1>3, <2>1
  <2>. QED  BY <1>2, <1>6, <2>2, FullCalm DEF Alone, Full
<1>8. CASE others # s
  <2>. DEFINE S == s \cup {own}
  <2>1. Cardinality(s) = Keep - 1
    BY <1>1, <1>8, KeptIsEnough
  <2>2. IsFiniteSet(s) /\ own \notin s
    BY <1>1, <1>5, FinitePackages, FS_Subset
  <2>3. Cardinality(S) = Keep
    <3>1. Cardinality(S) = Cardinality(s) + 1 /\ Keep \in Nat
      BY <2>2, FS_AddElement, BackupAssumption
    <3>. QED  BY <2>1, <3>1
  <2>4. \A e \in S : ~Doomed(e)'
    BY <1>1, <1>4, <1>5 DEF Base, Listed
  <2>5. S \in SUBSET Packages'
    BY <1>1, <1>2, <1>5
  <2>. HIDE DEF S
  <2>. QED  BY <1>6, <2>3, <2>4, <2>5 DEF Full
<1>. QED  BY <1>7, <1>8

LEMMA AloneUnlinked ==
  ASSUME Base, Alone, Single, NEW p \in Procs, Unlink(p)
  PROVE  Own(p)' /\ Full'
<1>1. PICK x \in Process, n \in pr[p].doomed :
         /\ Becomes(p, x)
         /\ dir' \in {dir, {e \in dir : e.n # n}}
         /\ x.pc = "unlink" /\ x.n = pr[p].n /\ x.at = pr[p].at
         /\ x.doomed = pr[p].doomed \ {n}
  BY UnlinkDoes DEF Base
<1>2. pr'[p] = x /\ \A q \in Procs : pr'[q].doomed \subseteq pr[q].doomed
  BY <1>1 DEF Becomes
<1>3. /\ Packages' \subseteq Packages
      /\ \A e \in Packages : ~Doomed(e) => e \in Packages' /\ ~Doomed(e)'
  BY <1>1, <1>2 DEF Packages, Doomed
<1>4. Retaining(p)
  BY DEF Unlink, Retaining
<1>5. Own(p)'
  BY <1>1, <1>2, <1>3, <1>4 DEF Alone, Own
<1>6. ~Untouched
  BY <1>1 DEF Untouched
<1>. QED  BY <1>3, <1>5, <1>6 DEF Alone, Full

LEMMA AloneOutside ==
  ASSUME Base, Alone, Single, Tick \/ Migrate \/ ChangeKey \/ Spoil
  PROVE  (\A p \in Procs : Own(p)') /\ Full'
<1>1. /\ pr' = pr /\ made' = made
      /\ Packages' = Packages \/ \E e \in Packages, f \in Entry : Damages(e, f)
  BY OutsideSteps
<1>2. \A p \in Procs : (Retaining(p)' <=> Retaining(p)) /\ (Making(p)' <=> Making(p))
  BY <1>1 DEF Retaining, Making, Updates
<1>3. Untouched' <=> Untouched
  BY <1>1 DEF Untouched
<1>4. CASE Packages' = Packages
  <2>1. \A e \in Packages : Doomed(e)' <=> Doomed(e)
    BY <1>1 DEF Doomed
  <2>2. \A p \in Procs : Own(p)'
    BY <1>1, <1>2, <1>4, <2>1 DEF Alone, Own
  <2>. QED  BY <1>1, <1>4, <2>2, FullCalm DEF Alone, Full
<1>5. ASSUME NEW e \in Packages, NEW f \in Entry, Damages(e, f)
      PROVE  (\A p \in Procs : Own(p)') /\ Full'
  <2>1. /\ \A d \in Packages' : \E c \in Packages : d.n = c.n /\ d.at = c.at
        /\ \A c \in Packages : \E d \in Packages' : d.n = c.n /\ d.at = c.at
    BY <1>5 DEF Damages
  <2>2. \A p \in Procs : Own(p)'
    <3>. TAKE p \in Procs
    <3>1. Making(p) \/ Retaining(p) => \A d \in Packages' : d.at <= pr[p].at
      BY <2>1 DEF Alone, Own
    <3>2. Retaining(p) =>
             \E d \in Packages' : d.n = pr[p].n /\ d.at = pr[p].at /\ ~Doomed(d)'
      <4>. SUFFICES ASSUME Retaining(p)
                    PROVE  \E d \in Packages' : d.n = pr[p].n /\ d.at = pr[p].at /\ ~Doomed(d)'
        OBVIOUS
      <4>1. PICK c \in Packages : c.n = pr[p].n /\ c.at = pr[p].at /\ ~Doomed(c)
        BY DEF Alone, Own
      <4>2. PICK d \in Packages' : d.n = c.n /\ d.at = c.at
        BY <2>1
      <4>3. ~Doomed(d)'
        BY <1>1, <4>1, <4>2 DEF Doomed
      <4>. QED  BY <4>1, <4>2, <4>3
    <3>. QED  BY <1>1, <1>2, <3>1, <3>2 DEF Own
  <2>3. CASE Untouched /\ Cardinality(Packages) = made
    BY <1>1, <1>3, <1>5, <2>2, <2>3, DamagedSet DEF Full
  <2>4. ASSUME NEW S \in SUBSET Packages, Cardinality(S) = Keep, \A s \in S : ~Doomed(s)
        PROVE  Full'
    <3>1. PICK T \in SUBSET Packages' :
             /\ Cardinality(T) = Cardinality(S)
             /\ \A t \in T : \E s \in S : t.n = s.n
      BY <1>5, DamagedSet
    <3>2. \A t \in T : ~Doomed(t)'
      BY <1>1, <2>4, <3>1 DEF Doomed
    <3>. QED  BY <2>4, <3>1, <3>2 DEF Full
  <2>. QED  BY <2>2, <2>3, <2>4 DEF Alone
<1>. QED  BY <1>1, <1>4, <1>5

LEMMA AloneStays ==
  ASSUME Base, Base', Alone, [Next]_vars
  PROVE  Alone'
<1>. SUFFICES ASSUME Single
              PROVE  (\A p \in Procs : Own(p)') /\ Full'
  BY DEF Alone, Full, Single
<1>1. ASSUME NEW p \in Procs, Own(p)' /\ Full'
      PROVE  (\A q \in Procs : Own(q)') /\ Full'
  BY <1>1 DEF Single
<1>2. CASE UNCHANGED vars
  <2>1. /\ Packages' = Packages /\ made' = made /\ pr' = pr
    BY <1>2 DEF vars, Packages
  <2>2. \A p \in Procs : Own(p)'
    BY <2>1 DEF Alone, Own, Retaining, Making, Updates, Doomed
  <2>. QED  BY <2>1, <2>2, FullCalm DEF Alone, Full
<1>3. ASSUME NEW p \in Procs, CalmStep(p) \/ Finalize(p) \/ ListPackages(p) \/ Unlink(p)
      PROVE  (\A q \in Procs : Own(q)') /\ Full'
  BY <1>1, <1>3, AloneCalm, AloneFinalized, AloneListed, AloneUnlinked
<1>4. CASE Tick \/ Migrate \/ ChangeKey \/ Spoil
  BY <1>4, AloneOutside
<1>. QED  BY <1>2, <1>3, <1>4 DEF Next, CalmStep

-----------------------------------------------------------------------------
(* A success that is noted, or is about to be, has its package.            *)

\* A package that is doomed leaves one that is not older.
LEMMA SomeStays ==
  ASSUME Base, Plenty, Keep > 1
  PROVE  \A e \in Packages : \E d \in Packages : ~Doomed(d) /\ d.at >= e.at
<1>. TAKE e \in Packages
<1>1. e.at \in Nat
  BY FinitePackages
<1>2. CASE ~Doomed(e)
  BY <1>1, <1>2
<1>3. CASE Doomed(e)
  <2>1. ~Untouched
    BY <1>3 DEF Doomed, Untouched
  <2>2. PICK S \in SUBSET Packages : Cardinality(S) = Keep - 1 /\ Safe(S)
    BY <2>1 DEF Plenty
  <2>3. Cardinality(S) # 0
    BY <2>2, BackupAssumption
  <2>4. PICK s \in S : TRUE
    BY <2>3, FS_EmptySet
  <2>5. s \in Packages /\ ~Doomed(s) /\ Newer(s, e)
    BY <1>3, <2>2, <2>4 DEF Safe
  <2>6. s.at >= e.at
    BY <1>1, <2>5, FinitePackages DEF Newer
  <2>. QED  BY <2>5, <2>6
<1>. QED  BY <1>2, <1>3

LEMMA OwnStays ==
  ASSUME Base, Alone, Single, NEW p \in Procs, Retaining(p)
  PROVE  \A e \in Packages : \E d \in Packages : ~Doomed(d) /\ d.at >= e.at
<1>1. PICK d \in Packages : d.n = pr[p].n /\ d.at = pr[p].at /\ ~Doomed(d)
  BY DEF Alone, Own
<1>2. \A e \in Packages : e.at \in Nat /\ e.at <= d.at
  BY <1>1, FinitePackages DEF Alone, Own
<1>. QED  BY <1>1, <1>2

\* No step removes the last package that is not older than another.
LEMMA AgesStay ==
  ASSUME Base, Plenty, Alone, Keep > 1 \/ Single, [Next]_vars
  PROVE  \A e \in Packages : \E d \in Packages' : d.at >= e.at
<1>. DEFINE OK == \A e \in Packages : \E d \in Packages' : d.at >= e.at
<1>1. \A e \in Packages : e.at \in Nat /\ e.at >= e.at
  BY FinitePackages
<1>2. ASSUME Packages \subseteq Packages'
      PROVE  OK
  BY <1>1, <1>2
<1>3. CASE UNCHANGED vars
  BY <1>2, <1>3 DEF vars, Packages
<1>4. ASSUME NEW p \in Procs, CalmStep(p)
      PROVE  OK
  BY <1>2, <1>4, CalmSteps
<1>5. ASSUME NEW p \in Procs, Finalize(p)
      PROVE  OK
  BY <1>2, <1>5, NewPackage
<1>6. ASSUME NEW p \in Procs, ListPackages(p)
      PROVE  OK
  BY <1>2, <1>6 DEF ListPackages, Packages
<1>7. ASSUME NEW p \in Procs, Unlink(p)
      PROVE  OK
  <2>1. Retaining(p)
    BY <1>7 DEF Unlink, Retaining
  <2>2. PICK n \in pr[p].doomed : dir' \in {dir, {e \in dir : e.n # n}}
    BY <1>7, UnlinkDoes DEF Base
  <2>3. \A d \in Packages : ~Doomed(d) => d \in Packages'
    BY <2>2 DEF Doomed, Packages
  <2>4. \A e \in Packages : \E d \in Packages : ~Doomed(d) /\ d.at >= e.at
    BY <2>1, SomeStays, OwnStays
  <2>. QED  BY <2>3, <2>4
<1>8. CASE Tick \/ Migrate \/ ChangeKey \/ Spoil
  <2>1. Packages' = Packages \/ \E e \in Packages, f \in Entry : Damages(e, f)
    BY <1>8, OutsideSteps
  <2>2. ASSUME NEW e \in Packages, NEW f \in Entry, Damages(e, f)
        PROVE  OK
    <3>1. \A c \in Packages : \E d \in Packages' : d.at = c.at
      BY <2>2 DEF Damages
    <3>. QED  BY <1>1, <3>1
  <2>. QED  BY <1>2, <2>1, <2>2
<1>. QED  BY <1>3, <1>4, <1>5, <1>6, <1>7, <1>8 DEF Next, CalmStep

\* Only a replacement changes the sidecar, and only a load makes a copy of it.
LEMMA CalmNotes ==
  ASSUME Base, NEW p \in Procs, CalmStep(p)
  PROVE  /\ pr'[p].pc = "replace" => pr'[p].base = Loaded(state)
         /\ \/ state' = state
            \/ pr[p].pc = "replace" /\ state' = Changed(pr[p].base, pr[p].todo)
<1>. TypeOK /\ Prepared(p) /\ Numbered(p) /\ Matched(p) /\ pr[p] \in Process
  BY DEF Base, TypeOK
<1>1. \/ state' = state
      \/ pr[p].pc = "replace" /\ state' = Changed(pr[p].base, pr[p].todo)
  BY DEF CalmStep, LoadState, ReplaceState, ReplaceFails, StartBackup, TakeSnapshot, Seal, Refused,
     RunFails, GiveUp, Retained, RetentionFails, Verify, VerifyEscapes, Crash, StartVerify
<1>2. LoadState(p) => pr'[p].base = Loaded(state)
  BY LoadStateDoes DEF Becomes
<1>3. ASSUME NEW todo, NEW next, pr' = [pr EXCEPT ![p] = Updating(p, todo, next)]
      PROVE  pr'[p].pc # "replace"
  BY <1>3 DEF Updating, Process, TypeOK
<1>4. GoesOn(p) /\ Updates(p) => pr'[p].pc # "replace"
  BY GoesOnDoes, IdleIs DEF Becomes
<1>5. ReplaceState(p) \/ ReplaceFails(p) => pr'[p].pc # "replace"
  BY <1>3, <1>4 DEF ReplaceState, ReplaceFails, Updates
<1>6. StartBackup(p) \/ TakeSnapshot(p) \/ Seal(p) => pr'[p].pc # "replace"
  BY StartBackupDoes, TakeSnapshotDoes, SealDoes DEF Becomes
<1>7. Refused(p) \/ RunFails(p) \/ Retained(p) \/ RetentionFails(p) \/ Verify(p) =>
         pr'[p].pc # "replace"
  BY <1>3 DEF Refused, RunFails, GiveUp, Retained, RetentionFails, Verify
<1>8. VerifyEscapes(p) \/ Crash(p) \/ (\E e \in Packages : StartVerify(p, e)) =>
         pr'[p].pc # "replace"
  BY StartVerifyDoes, IdleIs, OnlyOne DEF VerifyEscapes, Crash, Becomes
<1>. QED  BY <1>1, <1>2, <1>5, <1>6, <1>7, <1>8 DEF CalmStep

\* A replacement notes no success but one that was promised.
LEMMA NotedSuccess ==
  ASSUME Base, NEW p \in Procs, pr[p].pc = "replace"
  PROVE  LET file == Changed(pr[p].base, pr[p].todo)
         IN  /\ Loaded(file) = file
             /\ file.success = pr[p].base.success \/ (Reporting(p) /\ file.success = pr[p].at)
<1>1. /\ pr[p].base \in Sidecar /\ pr[p].todo \in Todo /\ pr[p].at \in Times /\ Matched(p)
      /\ Updates(p)
  BY DEF Base, TypeOK, Process, Updates
<1>2. Loaded(Changed(pr[p].base, pr[p].todo)) = Changed(pr[p].base, pr[p].todo)
  BY <1>1, Sidecars DEF Loaded, Base, TypeOK
<1>3. ASSUME NEW file, file = Changed(pr[p].base, pr[p].todo)
      PROVE  file.success = pr[p].base.success \/ (Reporting(p) /\ file.success = pr[p].at)
  <2>. DEFINE base == pr[p].base
  <2>1. /\ Changed(base, Attempted(pr[p].at)).success = base.success
        /\ Changed(base, Succeeded(pr[p].at)).success = pr[p].at
        /\ Changed(base, Failed(pr[p].at)).success = base.success
        /\ Changed(base, Verified(TRUE)).success = base.success
        /\ Changed(base, Verified(FALSE)).success = base.success
    BY <1>1, WhatIsWritten
  <2>2. \/ pr[p].next = "succeeded" /\ pr[p].todo = Succeeded(pr[p].at)
        \/ pr[p].todo \in {Attempted(pr[p].at), Failed(pr[p].at), Verified(TRUE), Verified(FALSE)}
    BY <1>1 DEF Matched
  <2>. QED  BY <1>1, <1>3, <2>1, <2>2 DEF Reporting
<1>. QED  BY <1>2, <1>3

LEMMA PromisesStay ==
  ASSUME Base, [Next]_vars, NEW at \in Times, Promised(at)'
  PROVE  Promised(at) \/ \E p \in Procs : Finalize(p) /\ at = pr[p].at
<1>1. CASE UNCHANGED vars
  BY <1>1 DEF vars, Promised, Retaining, Reporting, Updates
<1>2. ASSUME NEW p \in Procs, CalmStep(p)
      PROVE  Promised(at)
  <2>1. /\ \A q \in Procs : q # p => pr'[q] = pr[q]
        /\ ~Retaining(p)'
        /\ Reporting(p)' => (Retaining(p) \/ Reporting(p)) /\ pr'[p].at = pr[p].at
        /\ pr'[p].pc = "replace" => pr'[p].base = Loaded(state)
        /\ \/ state' = state
           \/ pr[p].pc = "replace" /\ state' = Changed(pr[p].base, pr[p].todo)
    BY <1>2, CalmSteps, CalmNotes
  <2>2. ASSUME Loaded(state').success = at
        PROVE  Promised(at)
    BY <2>1, <2>2, NotedSuccess DEF Promised
  <2>3. ASSUME NEW q \in Procs, pr'[q].pc = "replace", pr'[q].base.success = at
        PROVE  Promised(at)
    BY <2>1, <2>3 DEF Promised
  <2>4. ASSUME NEW q \in Procs, Retaining(q)' \/ Reporting(q)', pr'[q].at = at
        PROVE  Promised(at)
    <3>1. CASE q = p
      BY <2>1, <2>4, <3>1 DEF Promised
    <3>2. CASE q # p
      <4>1. Retaining(q) \/ Reporting(q)
        BY <2>1, <2>4, <3>2 DEF Retaining, Reporting, Updates
      <4>. QED  BY <2>1, <2>4, <3>2, <4>1 DEF Promised
    <3>. QED  BY <3>1, <3>2
  <2>. QED  BY <2>2, <2>3, <2>4 DEF Promised
<1>3. ASSUME NEW p \in Procs, NEW x \in Process, Becomes(p, x), x.pc \in {"retain", "unlink"},
             x.at = pr[p].at, state' = state, Retaining(p) \/ at # pr[p].at
      PROVE  Promised(at)
  <2>1. pr'[p] = x /\ \A q \in Procs : q # p => pr'[q] = pr[q]
    BY <1>3 DEF Becomes
  <2>2. ASSUME NEW q \in Procs, pr'[q].pc = "replace", pr'[q].base.success = at
        PROVE  Promised(at)
    BY <1>3, <2>1, <2>2 DEF Promised
  <2>3. ASSUME NEW q \in Procs, Retaining(q)' \/ Reporting(q)', pr'[q].at = at
        PROVE  Promised(at)
    <3>1. CASE q = p
      BY <1>3, <2>1, <2>3, <3>1 DEF Promised
    <3>2. CASE q # p
      <4>1. Retaining(q) \/ Reporting(q)
        BY <2>1, <2>3, <3>2 DEF Retaining, Reporting, Updates
      <4>. QED  BY <2>1, <2>3, <3>2, <4>1 DEF Promised
    <3>. QED  BY <3>1, <3>2
  <2>. QED  BY <1>3, <2>2, <2>3 DEF Promised
<1>4. ASSUME NEW p \in Procs, Finalize(p), at # pr[p].at
      PROVE  Promised(at)
  <2>1. PICK x \in Process : Becomes(p, x) /\ x.pc = "retain" /\ x.at = pr[p].at
    BY <1>4, FinalizeDoes DEF Base
  <2>. QED  BY <1>3, <1>4, <2>1 DEF Finalize
<1>5. ASSUME NEW p \in Procs, ListPackages(p)
      PROVE  Promised(at)
  <2>1. PICK x \in Process : Becomes(p, x) /\ x.pc = "unlink" /\ x.at = pr[p].at
    BY <1>5, ListPackagesDoes DEF Base
  <2>. QED  BY <1>3, <1>5, <2>1 DEF ListPackages, Retaining
<1>6. ASSUME NEW p \in Procs, Unlink(p)
      PROVE  Promised(at)
  <2>1. PICK x \in Process : Becomes(p, x) /\ x.pc = "unlink" /\ x.at = pr[p].at
    BY <1>6, UnlinkDoes DEF Base
  <2>. QED  BY <1>3, <1>6, <2>1 DEF Unlink, Retaining
<1>7. CASE Tick \/ Migrate \/ ChangeKey \/ Spoil
  <2>1. pr' = pr
    BY <1>7, OutsideSteps
  <2>2. state' \in {state, Unreadable}
    BY <1>7 DEF Tick, Migrate, ChangeKey, Spoil
  <2>3. Loaded(Unreadable).success = None /\ at # None
    BY BackupAssumption DEF Loaded, NoSidecar
  <2>. QED  BY <2>1, <2>2, <2>3 DEF Promised, Retaining, Reporting, Updates
<1>. QED  BY <1>1, <1>2, <1>4, <1>5, <1>6, <1>7 DEF Next, CalmStep

LEMMA BackedStays ==
  ASSUME Base, Plenty, Alone, Backed, [Next]_vars
  PROVE  Backed'
<1>. SUFFICES ASSUME Keep > 1 \/ Single, NEW at \in Times, Promised(at)'
              PROVE  \E e \in Packages' : e.at >= at
  BY DEF Backed, Single
<1>1. CASE Promised(at)
  <2>1. PICK e \in Packages : e.at >= at
    BY <1>1 DEF Backed
  <2>2. PICK d \in Packages' : d.at >= e.at
    BY AgesStay
  <2>3. e.at \in Nat /\ at \in Nat
    BY FinitePackages, BackupAssumption DEF Times
  <2>4. d.at \in Nat
    <3>1. d \in Entry /\ MaxTime \in Nat
      BY BaseStays, BackupAssumption DEF Base, TypeOK, Packages
    <3>. QED  BY <3>1 DEF Entry, Times
  <2>. QED  BY <2>1, <2>2, <2>3, <2>4
<1>2. ASSUME NEW p \in Procs, Finalize(p), at = pr[p].at
      PROVE  \E e \in Packages' : e.at >= at
  <2>1. at \in Nat
    BY BackupAssumption DEF Times
  <2>. QED  BY <1>2, <2>1, NewPackage
<1>. QED  BY <1>1, <1>2, PromisesStay

-----------------------------------------------------------------------------
(* The sidecar tells how the last backup ended, or that one is going.      *)

LEMMA ReportedSame ==
  ASSUME Reported, state' = state, last' = last, raced => raced',
         (\E q \in Procs : Going(q)) => (\E q \in Procs : Going(q)')
  PROVE  Reported'
  BY DEF Reported, Tells

\* A replacement that loses no update: the end of a backup is told, its start keeps
\* it going, a verification changes nothing the report looks at.
LEMMA ReportedReplaced ==
  ASSUME Base, Reported, NEW p \in Procs, ReplaceState(p)
  PROVE  Reported'
<1>. TypeOK /\ Matched(p) /\ pr[p] \in Process /\ Updates(p)
  BY DEF Base, TypeOK, ReplaceState, Updates
<1>. DEFINE base == pr[p].base
            at == pr[p].at
<1>1. base \in Sidecar /\ at \in Times /\ pr[p].todo \in Todo /\ at # None
  BY BackupAssumption DEF Process
<1>2. state' = Changed(base, pr[p].todo) /\ Loaded(state') = state'
  BY <1>1, Sidecars DEF ReplaceState, Loaded
<1>. SUFFICES ASSUME ~raced'
              PROVE  Reported'
  BY DEF Reported
<1>3. Loaded(state) = base /\ (raced => pr[p].next \in {"succeeded", "failed"})
  BY DEF ReplaceState, Lost
<1>4. last' = CASE pr[p].next = "succeeded" -> "success"
                [] pr[p].next = "failed" -> "failed"
                [] OTHER -> last
  BY DEF ReplaceState, GoesOn
<1>5. /\ Changed(base, Attempted(at)).status = "running"
      /\ Changed(base, Succeeded(at)).status = "success"
      /\ Changed(base, Succeeded(at)).success = at
      /\ Changed(base, Failed(at)).status = "failed"
      /\ Changed(base, Verified(TRUE)).status = base.status
      /\ Changed(base, Verified(TRUE)).success = base.success
      /\ Changed(base, Verified(FALSE)).status = base.status
      /\ Changed(base, Verified(FALSE)).success = base.success
  BY <1>1, WhatIsWritten
<1>. HIDE DEF base, at
<1>6. CASE pr[p].next = "snapshot" /\ pr[p].todo = Attempted(at)
  <2>1. Loaded(state').status = "running"
    BY <1>2, <1>5, <1>6
  <2>2. PICK x \in Process : Becomes(p, x) /\ x.pc = "snapshot"
    BY <1>6, GoesOnDoes DEF ReplaceState, Ends
  <2>3. Going(p)'
    BY <2>2 DEF Becomes, Going
  <2>. QED  BY <2>1, <2>3 DEF Reported
<1>7. CASE pr[p].next = "succeeded" /\ pr[p].todo = Succeeded(at)
  <2>1. last' = "success" /\ Loaded(state').status = "success" /\ Loaded(state').success = at
    BY <1>2, <1>4, <1>5, <1>7
  <2>2. Tells'
    BY <1>1, <2>1 DEF Tells
  <2>. QED  BY <2>2 DEF Reported
<1>8. CASE pr[p].next = "failed" /\ pr[p].todo = Failed(at)
  <2>1. last' = "failed" /\ Loaded(state').status = "failed"
    BY <1>2, <1>4, <1>5, <1>8
  <2>2. Tells'
    BY <2>1 DEF Tells
  <2>. QED  BY <2>2 DEF Reported
<1>9. CASE pr[p].next = "told" /\ pr[p].todo \in {Verified(TRUE), Verified(FALSE)}
  <2>1. last' = last /\ ~raced
    BY <1>3, <1>4, <1>9
  <2>2. /\ Loaded(state').status = Loaded(state).status
        /\ Loaded(state').success = Loaded(state).success
    BY <1>2, <1>3, <1>5, <1>9
  <2>3. ~Going(p) /\ Becomes(p, Idle)
    BY <1>9, GoesOnDoes DEF ReplaceState, Going, Updates, Ends
  <2>4. \A q \in Procs : Going(q) => Going(q)'
    BY <2>3 DEF Becomes, Going, Updates
  <2>. QED  BY <2>1, <2>2, <2>4 DEF Reported, Tells
<1>. QED  BY <1>6, <1>7, <1>8, <1>9 DEF Matched, at

LEMMA ReportedStays ==
  ASSUME Base, Reported, [Next]_vars
  PROVE  Reported'
<1>. DEFINE Same == state' = state /\ last' = last /\ raced' = raced
<1>1. CASE UNCHANGED vars
  BY <1>1, ReportedSame DEF vars, Going, Updates
<1>2. ASSUME NEW p \in Procs, Same, \A q \in Procs : q # p => pr'[q] = pr[q],
             Going(p)' \/ ~Going(p)
      PROVE  Reported'
  <2>1. \A q \in Procs : Going(q) => Going(q)'
    BY <1>2 DEF Going, Updates
  <2>. QED  BY <1>2, <2>1, ReportedSame
<1>3. ASSUME NEW p \in Procs, NEW todo \in Todo, NEW next \in Ends, Same,
             pr' = [pr EXCEPT ![p] = Updating(p, todo, next)],
             next \in {"succeeded", "failed"} \/ ~Going(p)
      PROVE  Reported'
  <2>1. /\ Becomes(p, pr'[p]) /\ pr'[p].pc = "load" /\ pr'[p].next = next
    BY <1>3, UpdatingDoes DEF Base
  <2>2. Going(p)' \/ ~Going(p)
    BY <1>3, <2>1 DEF Going, Updates
  <2>. QED  BY <1>2, <1>3, <2>1, <2>2 DEF Becomes
<1>4. ASSUME NEW p \in Procs
      PROVE  /\ Failed(pr[p].at) \in Todo /\ Succeeded(pr[p].at) \in Todo
             /\ "failed" \in Ends /\ "succeeded" \in Ends /\ "told" \in Ends
  BY DEF Base, TypeOK, Process, Todo, Ends
<1>5. ASSUME NEW p \in Procs, NEW x \in Process, Becomes(p, x), Same, Going(p)' \/ ~Going(p)
      PROVE  Reported'
  BY <1>2, <1>5 DEF Becomes
<1>6. ASSUME NEW p \in Procs, LoadState(p)
      PROVE  Reported'
  <2>1. PICK x \in Process : Becomes(p, x) /\ x.pc = "replace" /\ x.next = pr[p].next
    BY <1>6, LoadStateDoes DEF Base
  <2>2. Going(p)' \/ ~Going(p)
    BY <1>6, <2>1 DEF Becomes, Going, Updates, LoadState
  <2>. QED  BY <1>5, <1>6, <2>1, <2>2 DEF LoadState
<1>7. ASSUME NEW p \in Procs, ReplaceFails(p)
      PROVE  Reported'
  <2>1. CASE pr[p].next = "succeeded"
    <3>1. pr' = [pr EXCEPT ![p] = Updating(p, Failed(pr[p].at), "failed")] /\ Same
      BY <1>7, <2>1 DEF ReplaceFails
    <3>. QED  BY <1>3, <1>4, <3>1
  <2>2. CASE pr[p].next # "succeeded"
    BY <1>7, <2>2 DEF ReplaceFails, Reported
  <2>. QED  BY <2>1, <2>2
<1>8. ASSUME NEW p \in Procs, StartBackup(p) \/ \E e \in Packages : StartVerify(p, e)
      PROVE  Reported'
  <2>1. ~Going(p) /\ Same
    BY <1>8 DEF StartBackup, StartVerify, Going, Updates
  <2>2. \E x \in Process : Becomes(p, x)
    BY <1>8, StartBackupDoes, StartVerifyDoes DEF Base
  <2>. QED  BY <1>5, <2>1, <2>2
<1>9. ASSUME NEW p \in Procs,
             TakeSnapshot(p) \/ Seal(p) \/ Finalize(p) \/ ListPackages(p) \/ Unlink(p)
      PROVE  Reported'
  <2>1. Same
    BY <1>9 DEF TakeSnapshot, Seal, Finalize, ListPackages, Unlink
  <2>2. \E x \in Process :
           Becomes(p, x) /\ x.pc \in {"seal", "finalize", "retain", "unlink"}
    BY <1>9, TakeSnapshotDoes, SealDoes, FinalizeDoes, ListPackagesDoes, UnlinkDoes DEF Base
  <2>3. Going(p)'
    BY <2>2 DEF Becomes, Going
  <2>. QED  BY <1>5, <2>1, <2>2, <2>3
<1>10. ASSUME NEW p \in Procs, Refused(p) \/ RunFails(p) \/ RetentionFails(p)
       PROVE  Reported'
  <2>1. Same /\ pr' = [pr EXCEPT ![p] = Updating(p, Failed(pr[p].at), "failed")]
    BY <1>10 DEF Refused, RunFails, GiveUp, RetentionFails
  <2>. QED  BY <1>3, <1>4, <2>1
<1>11. ASSUME NEW p \in Procs, Retained(p)
       PROVE  Reported'
  BY <1>3, <1>4, <1>11 DEF Retained
<1>12. ASSUME NEW p \in Procs, Verify(p)
       PROVE  Reported'
  <2>. DEFINE ok == Decrypts(p) /\ Restores(pr[p].entry)
  <2>1. pr' = [pr EXCEPT ![p] = Updating(p, Verified(ok), "told")] /\ ~Going(p) /\ Same
    BY <1>12 DEF Verify, Going, Updates
  <2>2. Verified(ok) \in Todo
    BY DEF Verified, Todo
  <2>. HIDE DEF ok
  <2>. QED  BY <1>3, <1>4, <2>1, <2>2
<1>13. ASSUME NEW p \in Procs, Crash(p)
       PROVE  Reported'
  BY <1>13 DEF Crash, Reported
<1>14. ASSUME NEW p \in Procs, VerifyEscapes(p)
       PROVE  Reported'
  <2>1. ~Going(p) /\ Same
    BY <1>14 DEF VerifyEscapes, Going, Updates
  <2>2. Becomes(p, Idle)
    BY <1>14, IdleIs, OnlyOne DEF VerifyEscapes, Base
  <2>. QED  BY <1>5, <2>1, <2>2, IdleIs
<1>15. CASE Tick \/ Migrate \/ ChangeKey \/ Spoil
  <2>1. pr' = pr /\ last' = last
    BY <1>15, OutsideSteps
  <2>2. raced' \/ (state' = state /\ (raced => raced'))
    BY <1>15 DEF Tick, Migrate, ChangeKey, Spoil
  <2>3. \A q \in Procs : Going(q)' <=> Going(q)
    BY <2>1 DEF Going, Updates
  <2>. QED  BY <2>1, <2>2, <2>3, ReportedSame DEF Reported
<1>. QED  BY <1>1, <1>6, <1>7, <1>8, <1>9, <1>10, <1>11, <1>12, <1>13, <1>14, <1>15,
          ReportedReplaced
       DEF Next

-----------------------------------------------------------------------------
(* The invariant, and what it gives.                                       *)

LEMMA InitBackup ==
  ASSUME Init
  PROVE  BackupInv
<1>1. Base
  BY InitBase
<1>2. \A p \in Procs : pr[p] = Idle
  BY DEF Init
<1>3. Untouched /\ Cardinality(Packages) = made
  BY <1>2, IdleIs, FirstPackages DEF Untouched
<1>4. Plenty
  BY <1>3 DEF Plenty
<1>5. Alone
  BY <1>2, <1>3, IdleIs DEF Alone, Own, Retaining, Making, Updates
<1>6. PICK ns \in SUBSET Earlier :
         /\ dir = {EarlierPackage(n) : n \in ns}
         /\ state = IF ns = {} THEN NoSidecar
                    ELSE [NoSidecar EXCEPT !.tried = 0, !.success = 0, !.status = "success"]
         /\ last = IF ns = {} THEN "none" ELSE "success"
  BY DEF Init
<1>7. 0 \in Times
  BY BackupAssumption DEF Times
<1>8. /\ state \in Sidecar
      /\ IF ns = {} THEN state.status = "unknown" /\ state.success = None
         ELSE state.status = "success" /\ state.success = 0
  <2>. DEFINE first == [NoSidecar EXCEPT !.tried = 0, !.success = 0, !.status = "success"]
  <2>1. NoSidecar \in Sidecar
    BY DEF NoSidecar, Sidecar
  <2>2. first \in Sidecar /\ first.status = "success" /\ first.success = 0
    BY <1>7, <2>1 DEF Sidecar
  <2>3. NoSidecar.status = "unknown" /\ NoSidecar.success = None
    BY DEF NoSidecar
  <2>. QED  BY <1>6, <2>1, <2>2, <2>3
<1>11. None \notin Times /\ Loaded(state) = state
  BY <1>8, BackupAssumption DEF Loaded, Unreadable
<1>9. Backed
  <2>. SUFFICES ASSUME NEW at \in Times, Promised(at)
                PROVE  \E e \in Packages : e.at >= at
    BY DEF Backed
  <2>1. state.success = at
    BY <1>2, <1>11, IdleIs DEF Promised, Retaining, Reporting, Updates
  <2>2. ns # {} /\ at = 0
    BY <1>8, <1>11, <2>1
  <2>3. PICK n \in ns : EarlierPackage(n) \in Packages /\ EarlierPackage(n).at = 0
    BY <1>6, <2>2, FirstPackages DEF EarlierPackage
  <2>. QED  BY <2>2, <2>3
<1>10. Reported
  BY <1>6, <1>7, <1>8, <1>11 DEF Reported, Tells
<1>. QED  BY <1>1, <1>4, <1>5, <1>9, <1>10 DEF BackupInv

LEMMA BackupInvStays ==
  ASSUME BackupInv, [Next]_vars
  PROVE  BackupInv'
<1>1. Base'
  BY BaseStays DEF BackupInv
<1>. QED  BY <1>1, PlentyStays, AloneStays, BackedStays, ReportedStays DEF BackupInv

THEOREM BackupInvariant == Spec => []BackupInv
<1>1. Init => BackupInv
  BY InitBackup
<1>2. BackupInv /\ [Next]_vars => BackupInv'
  BY BackupInvStays
<1>. QED  BY <1>1, <1>2, PTL DEF Spec

(* PackagesSurvive: whatever runs overlap, crash or fail to remove, at least *)
(* one package fewer than are to be kept stays once as many were made, and   *)
(* with one process none fewer.                                              *)
THEOREM RetentionLeavesEnough == Spec => []PackagesSurvive
<1>1. BackupInv => PackagesSurvive
  <2>. SUFFICES ASSUME BackupInv
                PROVE  PackagesSurvive
    OBVIOUS
  <2>. DEFINE least == IF Cardinality(Procs) = 1 THEN Keep ELSE Keep - 1
  <2>1. /\ IsFiniteSet(Packages) /\ Cardinality(Packages) \in Nat /\ Keep \in Nat \ {0}
        /\ made \in Nat
    BY FinitePackages, FS_CardinalityType, BackupAssumption DEF BackupInv, Base, TypeOK
  <2>2. Cardinality(Procs) = 1 => Single
    BY BackupAssumption, FS_Singleton DEF Single
  <2>3. Cardinality(Packages) = made \/ Cardinality(Packages) >= Keep - 1
    <3>1. ASSUME NEW S \in SUBSET Packages, Cardinality(S) = Keep - 1
          PROVE  Cardinality(Packages) >= Keep - 1
      BY <2>1, <3>1, FS_Subset
    <3>. QED  BY <3>1 DEF BackupInv, Plenty
  <2>4. Single => Cardinality(Packages) = made \/ Cardinality(Packages) >= Keep
    <3>1. ASSUME NEW S \in SUBSET Packages, Cardinality(S) = Keep
          PROVE  Cardinality(Packages) >= Keep
      BY <2>1, <3>1, FS_Subset
    <3>. QED  BY <3>1 DEF BackupInv, Alone
  <2>5. Cardinality(Packages) = made \/ Cardinality(Packages) >= least
    BY <2>2, <2>3, <2>4
  <2>6. least \in Nat
    BY <2>1
  <2>. HIDE DEF least
  <2>7. Cardinality(Packages) >= IF made < least THEN made ELSE least
    BY <2>1, <2>5, <2>6
  <2>. QED  BY <2>7 DEF PackagesSurvive, least
<1>. QED  BY <1>1, BackupInvariant, PTL

(* SuccessIsBacked: a success the sidecar notes has a package that is not    *)
(* older, though overlapping runs removed some by lists they had read before.*)
THEOREM NotedSuccessIsBacked == Spec => []SuccessIsBacked
<1>1. BackupInv => SuccessIsBacked
  <2>. SUFFICES ASSUME BackupInv, Keep > 1 \/ Cardinality(Procs) = 1,
                       Loaded(state).success # None
                PROVE  \E e \in Packages : e.at >= Loaded(state).success
    BY DEF SuccessIsBacked
  <2>1. Cardinality(Procs) = 1 => Single
    BY BackupAssumption, FS_Singleton DEF Single
  <2>2. state \in Sidecar \cup {Unreadable}
    BY DEF BackupInv, Base, TypeOK
  <2>3. Loaded(state).success \in Times
    BY <2>2 DEF Loaded, NoSidecar, Sidecar
  <2>. QED  BY <2>1, <2>3 DEF BackupInv, Backed, Promised
<1>. QED  BY <1>1, BackupInvariant, PTL

(* OutcomeIsShown: when nothing runs and no update was lost, the report says *)
(* how the last backup ended.                                                *)
THEOREM OutcomeIsTold == Spec => []OutcomeIsShown
<1>1. BackupInv => OutcomeIsShown
  <2>. SUFFICES ASSUME BackupInv, Busy = {}, ~raced
                PROVE  /\ (BackupStatus = "failed") = (last = "failed")
                       /\ last = "success" => BackupStatus \in {"fresh", "overdue"}
    BY DEF OutcomeIsShown
  <2>1. \A p \in Procs : ~Going(p)
    BY DEF Busy, Going, Updates
  <2>2. Tells
    BY <2>1 DEF BackupInv, Reported
  <2>3. BackupStatus = "failed" <=> Loaded(state).status = "failed"
    BY DEF BackupStatus
  <2>4. Loaded(state).status # "failed" /\ Loaded(state).success # None =>
           BackupStatus \in {"fresh", "overdue"}
    BY DEF BackupStatus
  <2>. QED  BY <2>2, <2>3, <2>4 DEF Tells
<1>. QED  BY <1>1, BackupInvariant, PTL
=============================================================================
