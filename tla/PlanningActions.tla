----------------------------- MODULE PlanningActions -----------------------------
(* The changes that people ask for: requests of the planning API under an        *)
(* idempotency key (api/service.py), buttons of the Telegram lists with their    *)
(* single-use tokens (telegram_actions.py, telegram_ui.py, handlers/planning.py) *)
(* and the repository operations on reminders, tasks, events and projects that   *)
(* they end in, each with its audit row (repositories.py, audit.py), all inside  *)
(* one transaction of the planning database (db.py).                             *)
(*                                                                               *)
(* A handler runs in one transaction: it begins, checks its key or token,        *)
(* changes the row, writes the audit row, seals the key or the token, commits.   *)
(* Any step may raise and the process may die between any two.  The delivery     *)
(* scheduler and the project service change rows in transactions of their own.   *)
EXTENDS Naturals, FiniteSets, Sequences

CONSTANTS Objects,       \* what may be planned
          Populations,   \* the possible domains of the objects
          Keys, Tokens,  \* idempotency keys of clients, action tokens
          Handlers,      \* requests and button presses handled at a time
          Lifetime,      \* how long a token can be used
          Limit, Window, \* presses allowed per window
          None,
          MaxTime, MaxRequests, MaxChanges, MaxFaults   \* bounds of the model

ASSUME BoundsAssumption ==
  /\ Lifetime \in Nat /\ Window \in Nat /\ MaxTime \in Nat /\ MaxRequests \in Nat
  /\ MaxChanges \in Nat /\ MaxFaults \in Nat

Domains == {"reminder", "task", "event", "copied", "project"}

ASSUME PopulationsAssumption == Populations \subseteq [Objects -> Domains]
ASSUME NamesAssumption ==
  /\ Keys \cap Tokens = {}
  /\ None \notin Keys \cup Tokens \cup Handlers \cup Objects

Ids == Keys \cup Tokens

VARIABLES
  domain,     \* [Objects -> Domains], fixed
  disk,       \* the committed tables: rows, trail, keys, tokens
  work,       \* the tables as the open transaction sees them
  owner,      \* the handler whose transaction is open, or None
  job,        \* [Handlers -> where its handling stands]
  presses,    \* [BOOLEAN -> times of the presses the rate limiter remembers], of
              \* the user whose list it is and of another administrator
  heard,      \* [Ids -> the changes that those who asked were told of]
  now, requests, changes, faults

vars == <<domain, disk, work, owner, job, presses, heard, now, requests, changes, faults>>

---------------------------------------------------------------------------------
(* Rows.  A state stands for status, delivery_state and deleted_at together: a   *)
(* reminder is queued until its delivery ends, whether it is due or not.         *)

Missing == [state |-> "missing", version |-> 0]
Closed == {"cancelled", "archived", "deleted"}           \* deleted_at is set

NewReminder == [state |-> "queued", version |-> 1]
NewTask == [state |-> "open", version |-> 1]
NewEvent == [state |-> "live", version |-> 1]
NewProject == [state |-> "live", version |-> 1]
NewRow(d) ==
  CASE d = "reminder" -> NewReminder
    [] d = "task"     -> NewTask
    [] d = "project"  -> NewProject
    [] OTHER          -> NewEvent

Moved(row, state) == [state |-> state, version |-> row.version + 1]
UpdatedReminder(op, row) ==
  Moved(row, CASE op = "complete" -> "completed" [] op = "cancel" -> "cancelled" [] OTHER -> row.state)
RetriedReminder(row) == Moved(row, "queued")
UpdatedTask(op, row) ==
  Moved(row, CASE op = "complete" -> "completed" [] op = "archive" -> "archived" [] OTHER -> row.state)
UpdatedEvent(row) == Moved(row, row.state)
DeletedEvent(row) == Moved(row, "deleted")
UpdatedProject(row) == Moved(row, row.state)
DeletedProject(row) == Moved(row, "deleted")

ChangedRow(op, d, row) ==
  IF op = "create" THEN NewRow(d)
  ELSE CASE d = "reminder" -> IF op = "retry" THEN RetriedReminder(row)
                              ELSE UpdatedReminder(op, row)
         [] d = "task"     -> UpdatedTask(op, row)
         [] d = "project"  -> IF op = "delete" THEN DeletedProject(row) ELSE UpdatedProject(row)
         [] OTHER          -> IF op = "delete" THEN DeletedEvent(row) ELSE UpdatedEvent(row)

(* What the routes offer. *)
ReminderRoutes == {"create", "patch", "complete", "cancel"}
TaskRoutes == {"create", "patch", "complete", "archive"}
EventRoutes == {"create", "patch", "delete"}
RoutesOf(d) ==
  CASE d = "reminder" -> ReminderRoutes
    [] d = "task"     -> TaskRoutes
    [] d = "event"    -> EventRoutes
    [] d = "copied"   -> EventRoutes \ {"create"}
    [] OTHER          -> {}

(* A request: what it asks, of which object (a creation: of which domain), and   *)
(* the version that whoever asks has seen.                                       *)
Req(op, object, version) == [op |-> op, object |-> object, version |-> version]

(* The update functions of the repository: the version is the expected one, an   *)
(* archived task stays so, a closed reminder is not retried.                     *)
RepositoryAccepts(op, row) ==
  /\ ~(row.state = "archived" /\ op = "complete")
  /\ ~(op = "retry" /\ row.state \in Closed \cup {"completed"})

(* The service also wants the object active, and an event native.  A token goes  *)
(* straight to the repository.                                                   *)
Native(d) == d # "copied"
ServiceAccepts(id, d, row) == id \in Keys => row.state \notin Closed /\ Native(d)

(* Mutant: the version that was seen is not compared. *)
AcceptsAnyVersion(id, req, d, row) == ServiceAccepts(id, d, row) /\ RepositoryAccepts(req.op, row)
Accepts(id, req, d, row) ==
  /\ ServiceAccepts(id, d, row)
  /\ req.version = row.version
  /\ RepositoryAccepts(req.op, row)

(* manual_retry_reminder of a reminder that has not failed changes nothing. *)
ChangesRow(op, row) == ~(op = "retry" /\ row.state # "failed")

---------------------------------------------------------------------------------
(* The audit trail: a row for the change itself, and another when a reminder is   *)
(* created with its delivery job or closed while its job was waiting.            *)

Entry(o, version, action, by) == [object |-> o, version |-> version, action |-> action, by |-> by]
JobActions == {"delivery_queued", "delivery_suppressed"}

JobAction(op, d, before) ==
  IF d = "reminder" /\ op = "create" THEN {"delivery_queued"}
  ELSE IF before = "queued" /\ op \in {"complete", "cancel"} THEN {"delivery_suppressed"}
  ELSE {}

(* Mutant: what happens to the delivery job is recorded in place of the change. *)
ActionsOnce(op, d, before) == IF JobAction(op, d, before) # {} THEN JobAction(op, d, before) ELSE {op}
Actions(op, d, before) == {op} \cup JobAction(op, d, before)

(* The changes of the trail that bear a name. *)
ChangesOf(trail, id) ==
  {[object |-> e.object, version |-> e.version] :
     e \in {x \in trail : x.by = id /\ x.action \notin JobActions}}

---------------------------------------------------------------------------------
(* Keys and tokens. *)

NoClaim == [used |-> FALSE, req |-> None, reply |-> {}]
Claim(req) == [used |-> TRUE, req |-> req, reply |-> {}]

(* What claim_idempotency and _mutate make of a key. *)
(* Mutant: a key that was used for the same request is simply used again. *)
KeyVerdictAgain(claim, req) ==
  IF claim.used /\ claim.req # req THEN "conflict" ELSE "go on"
KeyVerdict(claim, req) ==
  IF ~claim.used THEN "go on"
  ELSE IF claim.req # req THEN "conflict"
  ELSE IF claim.reply # {} THEN "done"
  ELSE "in progress"

Unissued == [status |-> "unissued", req |-> None, until |-> 0]
Gone == [status |-> "gone", req |-> None, until |-> 0]
Expired(token, at) == token.status \in {"issued", "consumed"} /\ token.until <= at

(* What consume makes of a pressed button, in the order of its checks. *)
TokenVerdict(token, own, at) ==
  IF token.status = "gone" THEN "unknown"
  ELSE IF token.status = "consumed" THEN "consumed"
  ELSE IF Expired(token, at) THEN "expired"
  ELSE IF ~own THEN "foreign"
  ELSE "go on"

(* _cleanup_expired_in_transaction: rows past their time go, consumed or not. *)
Cleaned(tokens) == [t \in Tokens |-> IF Expired(tokens[t], now) THEN Gone ELSE tokens[t]]

(* The buttons of the lists: what may be done with what is still to be done. *)
ReminderButtons(state) ==
  (IF state \in {"queued", "delivered", "failed"} THEN {"complete", "cancel"} ELSE {})
  \cup (IF state = "failed" THEN {"retry"} ELSE {})
TaskButtons(state) == IF state = "open" THEN {"complete"} ELSE {}
Buttons(o) ==
  {Req(op, o, disk.rows[o].version) :
     op \in CASE domain[o] = "reminder" -> ReminderButtons(disk.rows[o].state)
              [] domain[o] = "task"     -> TaskButtons(disk.rows[o].state)
              [] OTHER                  -> {}}

---------------------------------------------------------------------------------
Idle == [pc |-> "idle", by |-> None, req |-> None, own |-> TRUE, at |-> 0, on |-> None,
         before |-> "missing", answer |-> "none", todo |-> {}]

Init ==
  /\ domain \in Populations
  /\ \E old \in SUBSET Objects :
       disk = [rows   |-> [o \in Objects |-> IF o \in old
                             THEN NewRow(domain[o]) ELSE Missing],
               trail  |-> {Entry(o, 1, "create", None) : o \in old},
               keys   |-> [k \in Keys |-> NoClaim],
               tokens |-> [t \in Tokens |-> Unissued]]
  /\ work = disk
  /\ owner = None
  /\ job = [h \in Handlers |-> Idle]
  /\ presses = [own \in BOOLEAN |-> <<>>]
  /\ heard = [i \in Ids |-> {}]
  /\ now = 0 /\ requests = 0 /\ changes = 0 /\ faults = 0

Goes(h, pc) == job' = [job EXCEPT ![h].pc = pc]
Answers(h, answer) ==
  job' = [job EXCEPT ![h] = [Idle EXCEPT !.pc = "answer", !.by = job[h].by, !.answer = answer]]

Rollback == work' = disk /\ owner' = None

KeepRest == UNCHANGED <<domain, now, requests, changes, faults>>

(* A request of the API under a key.  The client may be late: it names a version *)
(* the object has had.  A repetition uses the same key, a careless client uses a *)
(* key again for something else.                                                 *)
Missings(d) == {o \in Objects : disk.rows[o].state = "missing" /\ domain[o] = d}
Asked == {Req("create", d, 0) : d \in {c \in Domains : Missings(c) # {} /\ "create" \in RoutesOf(c)}}
         \cup UNION {{Req(op, o, v) : op \in RoutesOf(domain[o]) \ {"create"},
                                      v \in 1..disk.rows[o].version} : o \in Objects}
Creating == {h \in Handlers : job[h].req # None /\ job[h].by \in Keys /\ job[h].on = None}
Ask(h, k) ==
  /\ job[h].pc = "idle" /\ requests < MaxRequests
  /\ \E req \in Asked \cup (IF disk.keys[k].used THEN {disk.keys[k].req} ELSE {}) :
       /\ (req.op = "create" => Cardinality(Missings(req.object)) > Cardinality(Creating)
                                \/ disk.keys[k].used)
       /\ job' = [job EXCEPT ![h] = [Idle EXCEPT !.pc = "begin", !.by = k, !.req = req]]
  /\ requests' = requests + 1
  /\ UNCHANGED <<domain, disk, work, owner, presses, heard, now, changes, faults>>

(* A press of a button that was shown, by whom it was shown to or by another     *)
(* administrator in a group: execute_action with its rate limiter, then consume, *)
(* which reads the clock before it begins its transaction.                       *)
Recent(own) == SelectSeq(presses[own], LAMBDA at : at + Window > now)
Press(h, t, own) ==
  /\ job[h].pc = "idle" /\ requests < MaxRequests
  /\ disk.tokens[t].status # "unissued"
  /\ IF Len(Recent(own)) < Limit
     THEN /\ presses' = [presses EXCEPT ![own] = Append(Recent(own), now)]
          /\ job' = [job EXCEPT ![h] =
                       [Idle EXCEPT !.pc = "begin", !.by = t, !.own = own, !.at = now]]
     ELSE /\ presses' = [presses EXCEPT ![own] = Recent(own)]
          /\ job' = [job EXCEPT ![h] = [Idle EXCEPT !.pc = "answer", !.answer = "limited"]]
  /\ requests' = requests + 1
  /\ UNCHANGED <<domain, disk, work, owner, heard, now, changes, faults>>

(* PlanningDatabase.transaction: BEGIN IMMEDIATE waits for the one writer. *)
Begin(h) ==
  /\ job[h].pc = "begin" /\ owner = None
  /\ owner' = h /\ work' = disk
  /\ Goes(h, "check")
  /\ UNCHANGED <<disk, presses, heard>> /\ KeepRest

(* claim_idempotency, and the checks of consume.  What is not to go on is        *)
(* answered, and the transaction ends as it began.                               *)
CheckKey(h) ==
  LET k == job[h].by
      verdict == KeyVerdict(work.keys[k], job[h].req)
  IN /\ k \in Keys
     /\ IF verdict = "go on"
        THEN /\ work' = [work EXCEPT !.keys[k] = Claim(job[h].req)]
             /\ Goes(h, "change") /\ UNCHANGED owner
        ELSE Rollback /\ Answers(h, verdict)

CheckToken(h) ==
  LET t == job[h].by
      verdict == TokenVerdict(work.tokens[t], job[h].own, job[h].at)
  IN /\ t \in Tokens
     /\ IF verdict = "go on"
        THEN /\ job' = [job EXCEPT ![h].pc = "change", ![h].req = work.tokens[t].req,
                                   ![h].own = TRUE, ![h].at = 0]
             /\ UNCHANGED <<owner, work>>
        ELSE Rollback /\ Answers(h, verdict)

Check(h) ==
  /\ owner = h /\ job[h].pc = "check"
  /\ CheckKey(h) \/ CheckToken(h)
  /\ UNCHANGED <<disk, presses, heard>> /\ KeepRest

(* The repository operation, in a savepoint of the open transaction.  A refusal  *)
(* is an exception: it undoes the claim as well.                                 *)
Targets(req) == IF req.op = "create" THEN Missings(req.object) ELSE {req.object}
Change(h) ==
  /\ owner = h /\ job[h].pc = "change"
  /\ \E o \in Targets(job[h].req) :
       LET req == job[h].req
           row == work.rows[o]
       IN IF ~Accepts(job[h].by, req, domain[o], row)
          THEN Rollback /\ Answers(h, "refused")
          ELSE IF ChangesRow(req.op, row)
          THEN /\ work' = [work EXCEPT !.rows[o] = ChangedRow(req.op, domain[o], row)]
               /\ job' = [job EXCEPT ![h].pc = "audit", ![h].on = o, ![h].before = row.state]
               /\ UNCHANGED owner
          ELSE Goes(h, "seal") /\ UNCHANGED <<owner, work>>
  /\ UNCHANGED <<disk, presses, heard>> /\ KeepRest

(* AuditWriter.record, in the same transaction. *)
Audit(h) ==
  /\ owner = h /\ job[h].pc = "audit"
  /\ LET o == job[h].on
     IN work' = [work EXCEPT !.trail = @ \cup
          {Entry(o, work.rows[o].version, action, job[h].by) :
             action \in Actions(job[h].req.op, domain[o], job[h].before)}]
  /\ Goes(h, "seal")
  /\ UNCHANGED <<disk, owner, presses, heard>> /\ KeepRest

(* store_idempotency_response with the object as changed; consumed_at. *)
(* Mutant: the token is not marked. *)
SealedKeysOnly(tables, id, reply) ==
  IF id \in Keys THEN [tables EXCEPT !.keys[id].reply = reply] ELSE tables
Sealed(tables, id, reply) ==
  IF id \in Keys THEN [tables EXCEPT !.keys[id].reply = reply]
  ELSE [tables EXCEPT !.tokens[id].status = "consumed"]

Seal(h) ==
  /\ owner = h /\ job[h].pc = "seal"
  /\ work' = Sealed(work, job[h].by, ChangesOf(work.trail, job[h].by))
  /\ Goes(h, "commit")
  /\ UNCHANGED <<disk, owner, presses, heard>> /\ KeepRest

(* Only now do others see it.  After a press the list is shown again first. *)
Commit(h) ==
  /\ owner = h /\ job[h].pc = "commit"
  /\ disk' = work /\ work' = work /\ owner' = None
  /\ job' = [job EXCEPT ![h] = [Idle EXCEPT !.pc = IF job[h].by \in Keys THEN "answer" ELSE "list",
                                            !.by = job[h].by, !.answer = "done"]]
  /\ UNCHANGED <<presses, heard>> /\ KeepRest

---------------------------------------------------------------------------------
(* reminders_view and tasks_view: read the list, then issue a token per button,  *)
(* each in a transaction that first removes expired tokens.                      *)
Listed == UNION {Buttons(o) : o \in Objects}
OpenList(h) ==
  /\ job[h].pc = "idle" /\ requests < MaxRequests
  /\ \E t \in Tokens : disk.tokens[t] = Unissued
  /\ job' = [job EXCEPT ![h] = [Idle EXCEPT !.pc = "view", !.todo = Listed, !.answer = "shown"]]
  /\ requests' = requests + 1
  /\ UNCHANGED <<domain, disk, work, owner, presses, heard, now, changes, faults>>

ReadList(h) ==
  /\ job[h].pc = "list"
  /\ job' = [job EXCEPT ![h].pc = "view", ![h].todo = Listed]
  /\ UNCHANGED <<disk, work, owner, presses, heard>> /\ KeepRest

Issue(h) ==
  /\ job[h].pc = "view" /\ owner = None
  /\ \E req \in job[h].todo, t \in Tokens :
       /\ disk.tokens[t] = Unissued
       /\ disk' = [disk EXCEPT !.tokens = [Cleaned(@) EXCEPT ![t] =
                     [status |-> "issued", req |-> req, until |-> now + Lifetime]]]
       /\ job' = [job EXCEPT ![h].todo = @ \ {req}]
  /\ work' = disk'
  /\ UNCHANGED <<owner, presses, heard>> /\ KeepRest

ShowList(h) ==
  /\ job[h].pc = "view"
  /\ job[h].todo = {} \/ \A t \in Tokens : disk.tokens[t] # Unissued
  /\ Answers(h, job[h].answer)
  /\ UNCHANGED <<disk, work, owner, presses, heard>> /\ KeepRest

---------------------------------------------------------------------------------
(* What the answer says was done: the stored response, or the token's doing.     *)
(* None stands for a success that did nothing.                                   *)
Said(h) ==
  LET i == job[h].by
  IN IF job[h].answer \notin {"done", "consumed"} THEN {}
     ELSE IF i \in Keys THEN disk.keys[i].reply
     ELSE IF ChangesOf(disk.trail, i) = {} THEN {None}
     ELSE ChangesOf(disk.trail, i)

Answer(h) ==
  /\ job[h].pc = "answer"
  /\ heard' = IF job[h].by = None THEN heard ELSE [heard EXCEPT ![job[h].by] = @ \cup Said(h)]
  /\ job' = [job EXCEPT ![h] = Idle]
  /\ UNCHANGED <<disk, work, owner, presses>> /\ KeepRest

(* The connection is gone before the answer is out. *)
LoseAnswer(h) ==
  /\ job[h].pc = "answer" /\ faults < MaxFaults
  /\ job' = [job EXCEPT ![h] = Idle]
  /\ faults' = faults + 1
  /\ UNCHANGED <<domain, disk, work, owner, presses, heard, now, requests, changes>>

(* A statement, the audit row or the commit raises, or the lock is not to be had *)
(* in time: the transaction is rolled back.  A list that cannot be shown does    *)
(* not unsay what was done.                                                      *)
Raise(h) ==
  /\ faults < MaxFaults /\ faults' = faults + 1
  /\ \/ job[h].pc = "begin" /\ Answers(h, "error") /\ UNCHANGED <<owner, work>>
     \/ owner = h /\ Answers(h, "error") /\ Rollback
     \/ job[h].pc \in {"list", "view"} /\ Answers(h, job[h].answer) /\ UNCHANGED <<owner, work>>
  /\ UNCHANGED <<domain, disk, presses, heard, now, requests, changes>>

(* The process dies: the journal undoes the open transaction. *)
Crash ==
  /\ faults < MaxFaults /\ faults' = faults + 1
  /\ Rollback
  /\ job' = [h \in Handlers |-> Idle]
  /\ presses' = [own \in BOOLEAN |-> <<>>]
  /\ UNCHANGED <<domain, disk, heard, now, requests, changes>>

(* One transaction of the scheduler or of the project service. *)
Transact(o, action, row) ==
  /\ owner = None /\ changes < MaxChanges
  /\ disk' = [disk EXCEPT !.rows[o] = row,
                          !.trail = @ \cup {Entry(o, row.version, action, None)}]
  /\ work' = disk' /\ changes' = changes + 1
  /\ UNCHANGED <<domain, owner, job, presses, heard, now, requests, faults>>

(* The scheduler finds a reminder due, puts off its delivery or ends it. *)
Settle(o) ==
  /\ disk.rows[o].state = "queued"
  /\ \E state \in {"queued", "delivered", "failed"} :
       Transact(o, state, Moved(disk.rows[o], state))

(* create, update and tombstone of the project service, which no route calls;    *)
(* neither update nor tombstone asks whether the project was deleted.            *)
ServeProject(o) ==
  /\ domain[o] = "project"
  /\ \E op \in {"create", "patch", "delete"} :
       /\ (op = "create") = (disk.rows[o].state = "missing")
       /\ Transact(o, op, ChangedRow(op, "project", disk.rows[o]))

Tick ==
  /\ now < MaxTime /\ now' = now + 1
  /\ UNCHANGED <<domain, disk, work, owner, job, presses, heard, requests, changes, faults>>

Handle(h) ==
  \/ Begin(h) \/ Check(h) \/ Change(h) \/ Audit(h) \/ Seal(h) \/ Commit(h)
  \/ ReadList(h) \/ Issue(h) \/ ShowList(h) \/ Answer(h)

Next ==
  \/ \E h \in Handlers :
       \/ \E k \in Keys : Ask(h, k)
       \/ \E t \in Tokens, own \in BOOLEAN : Press(h, t, own)
       \/ OpenList(h) \/ Handle(h) \/ LoseAnswer(h) \/ Raise(h)
  \/ \E o \in Objects : Settle(o) \/ ServeProject(o)
  \/ Crash \/ Tick

Spec == Init /\ [][Next]_vars

---------------------------------------------------------------------------------
Ops == {"create", "patch", "complete", "cancel", "archive", "delete", "retry"}
States == {"missing", "queued", "delivered", "failed", "completed", "cancelled",
           "open", "archived", "live", "deleted"}
Row == [state : States, version : Nat]
Request == [op : Ops, object : Objects \cup Domains, version : Nat]
Step == [object : Objects, version : Nat]
TrailRow == [object : Objects, version : Nat, by : Ids \cup {None},
             action : Ops \cup JobActions \cup {"queued", "delivered", "failed"}]
KeyRow == [used : BOOLEAN, req : Request \cup {None}, reply : SUBSET Step]
TokenRow == [status : {"unissued", "issued", "consumed", "gone"},
             req : Request \cup {None}, until : Nat]
Tables == [rows : [Objects -> Row], trail : SUBSET TrailRow,
           keys : [Keys -> KeyRow], tokens : [Tokens -> TokenRow]]
InTransaction == {"check", "change", "audit", "seal", "commit"}
Replies == {"none", "shown", "limited", "done", "refused", "error", "conflict",
            "in progress", "unknown", "consumed", "expired", "foreign"}
JobRow == [pc : {"idle", "begin", "list", "view", "answer"} \cup InTransaction,
           by : Ids \cup {None}, req : Request \cup {None}, own : BOOLEAN, at : Nat,
           on : Objects \cup {None}, before : States, answer : Replies,
           todo : SUBSET Request]

(* The tables keep their shape; an open transaction belongs to one handler in    *)
(* the middle of its work, and without one there is nothing that others cannot   *)
(* see (db.py).                                                                  *)
TypeOK ==
  /\ domain \in Populations
  /\ disk \in Tables /\ work \in Tables
  /\ owner \in Handlers \cup {None}
  /\ job \in [Handlers -> JobRow]
  /\ DOMAIN presses = BOOLEAN
  /\ heard \in [Ids -> SUBSET (Step \cup {None})]
  /\ now \in Nat /\ requests \in Nat /\ changes \in Nat /\ faults \in Nat
  /\ \A h \in Handlers : job[h].pc \in InTransaction <=> owner = h
  /\ owner = None => work = disk

(* What others see of a key or a token and of the objects is always together:    *)
(* a key has an answer, and a token is consumed, exactly when it has changed an  *)
(* object; a request that was refused, failed or died leaves both as they were,  *)
(* for another try (api/service.py _mutate, telegram_actions.py consume).        *)
SealedTogether ==
  /\ \A k \in Keys : /\ disk.keys[k].reply = ChangesOf(disk.trail, k)
                     /\ disk.keys[k].used <=> disk.keys[k].reply # {}
  /\ \A t \in Tokens : disk.tokens[t].status # "gone" =>
       (disk.tokens[t].status = "consumed" <=> ChangesOf(disk.trail, t) # {})

(* A request changes only the object it names, and only from the version that    *)
(* whoever asked had seen, however old the request or the button is and whoever  *)
(* else was changing the object (repositories.py, WHERE id = ? AND version = ?). *)
Requested(i) == IF i \in Keys THEN disk.keys[i].req ELSE disk.tokens[i].req
ActsOnSeen ==
  \A i \in Ids : \A c \in ChangesOf(disk.trail, i) :
    LET req == Requested(i)
    IN req # None => /\ c.version = req.version + 1
                     /\ c.object \in Objects /\ (req.op = "create" \/ c.object = req.object)

(* The audit trail tells the whole story of every object: each of its versions   *)
(* has exactly one row of the change that made it.                               *)
TrailIsComplete ==
  \A o \in Objects :
    LET Told == {e \in disk.trail : e.object = o /\ e.action \notin JobActions}
    IN /\ {e.version : e \in Told} = 1..disk.rows[o].version
       /\ \A d, e \in Told : d.version = e.version => d = e

(* Whatever fails, seen from outside the store is that of PlanningStore: a       *)
(* request takes effect at most once, and who is told that it is done is told    *)
(* its effect.                                                                   *)
Store == INSTANCE PlanningStore
  WITH version <- [o \in Objects |-> disk.rows[o].version],
       effect <- [i \in Ids |-> ChangesOf(disk.trail, i)]
KeepsPromise == Store!Spec
=================================================================================
