-------------------------- MODULE ReminderDelivery --------------------------
(***************************************************************************)
(* The durable reminder scheduler (app/planning/scheduler.py) and the part *)
(* of the planning repository (app/planning/repositories.py) it works on:  *)
(* the reminders table, one outbox job per reminder, the delivery attempt  *)
(* rows, and the requests that change a reminder while it is delivered.    *)
(*                                                                         *)
(* Workers are scheduler processes that share one SQLite database.  Every  *)
(* database transaction of the code is one action here, and so is every    *)
(* stretch between two awaits; other workers and the API may run between   *)
(* any two of them.  A worker works with the copies of the rows it read,   *)
(* kept in wk[w], and with the time it read when its run started.          *)
(***************************************************************************)
EXTENDS Integers, Sequences, FiniteSets

CONSTANTS
  Reminders,      \* reminder ids
  Workers,        \* scheduler processes
  Settings,       \* delivery policies the owner may have chosen
  Transports,     \* which of alice, jarvis, mobile are configured
  MaxAttempts,    \* MAX_DELIVERY_ATTEMPTS
  RetryDelay,     \* RetryDelay[k]: delays after attempt k, jitter included
  Window,         \* DELIVERY_RETRY_WINDOW_SECONDS
  Lease,          \* lease_seconds
  Batch,          \* batch_size
  Tokens,         \* lease tokens (uuid4)
  NoToken, NoWorker, NoReminder, NoPolicy,
  Edits,          \* kinds of requests made of a reminder in this instance
  Dues,           \* bound: the due times requests may name
  MaxTime,        \* bound: the clock stops here
  MaxEdits,       \* bound: number of requests after creation
  MaxFaults,     \* bound: crashes, settings that cannot be read, lost answers
  LastTrouble    \* bound: requests and crashes come no later

None == -1                      \* SQL NULL in a time column
OptTime == Nat \cup {None}

\* In the order in which a plan lists them.
Channels == {"alice", "jarvis", "telegram", "iphone", "home_assistant"}
Rank == [alice |-> 1, jarvis |-> 2, telegram |-> 3, iphone |-> 4, home_assistant |-> 5]

\* _policy_snapshot: what is kept of the settings in the job's payload.
Policy ==
  [legacy : BOOLEAN, spoken : {"alice", "jarvis"},
   phones : SUBSET {"telegram", "home_assistant"},
   telegram : BOOLEAN, mobile : BOOLEAN]

OpenStatus   == {"pending", "due"}
ClosedStatus == {"completed", "cancelled"}
Settled      == {"delivered", "failed"}

\* The scheduler takes lease, batch, attempt cap, window and delays as
\* positive numbers, and the preferences always name a phone channel.
ASSUME DeliveryAssumption ==
  /\ IsFiniteSet(Workers)
  /\ NoWorker \notin Workers
  /\ NoToken \notin Tokens
  /\ NoReminder \notin Reminders
  /\ NoPolicy \notin Policy
  /\ Settings \subseteq Policy
  /\ \A p \in Settings : p.phones # {}
  /\ MaxAttempts \in Nat \ {0}
  /\ Window \in Nat \ {0}
  /\ Lease \in Nat \ {0}
  /\ Batch \in Nat \ {0}
  /\ RetryDelay \in [1..(MaxAttempts - 1) -> SUBSET (Nat \ {0})]
  /\ Dues \subseteq Nat
  /\ MaxTime \in Nat /\ MaxEdits \in Nat /\ MaxFaults \in Nat
  /\ LastTrouble \in Nat

VARIABLES
  clock,      \* the time utc_now returns
  rem,        \* reminders table
  job,        \* outbox table: the one job of each reminder
  attempts,   \* delivery_attempts table: a set of rows
  wk,         \* what each worker is doing and the copies it works with
  accepted,   \* history: messages the provider of a channel took
  unheard,    \* history: how many of them it took without the bot hearing so
  lostLeases, \* history: leases that ended while their holder was still sending
  edits,      \* number of requests so far, against MaxEdits
  faults     \* crashes, unreadable settings and lost answers, against MaxFaults

vars == <<clock, rem, job, attempts, wk, accepted, unheard, lostLeases, edits, faults>>
history == <<accepted, unheard, lostLeases>>

-----------------------------------------------------------------------------
(* Rows.                                                                   *)

ReminderStatuses == {"absent"} \cup OpenStatus \cup ClosedStatus
DeliveryStates == {"not_due", "queued", "retrying"} \cup Settled

ReminderRow ==
  [status : ReminderStatuses, due : Nat, dstate : DeliveryStates,
   next : OptTime, version : Nat]

JobStatuses == {"absent", "queued", "leased", "succeeded", "failed", "cancelled"}

JobRow ==
  [status : JobStatuses, avail : Nat,
   owner : Workers \cup {NoWorker}, token : Tokens \cup {NoToken},
   expires : OptTime, window : OptTime, cycle : Nat,
   policy : Policy \cup {NoPolicy}, terminal : SUBSET Channels]

AttemptRow ==
  [rem : Reminders, ch : Channels, num : Nat, cycle : Nat,
   status : {"started", "succeeded", "failed"}, at : Nat]

Kinds == {"none", "success", "retryable", "permanent", "suppressed"}
Verdicts == {"none", "delivered", "retrying", "failed", "cancelled"}
Steps == {"idle", "claim", "load", "settings", "plan", "loop", "recheck",
          "sending", "finish", "record", "evaluate", "commit",
          "suppress", "suppressAttempt"}

WorkerState ==
  [pc : Steps, now : OptTime, left : Nat,
   r : Reminders \cup {NoReminder}, token : Tokens \cup {NoToken},
   window : OptTime, cycle : Nat, policy : Policy \cup {NoPolicy},
   terminal : SUBSET Channels, todo : SUBSET Channels, ch : Channels, num : Nat,
   outcome : [Channels -> Kinds], ordinal : [Channels -> Nat],
   version : Nat, verdict : Verdicts, retryAt : OptTime]

NoJob == [status |-> "absent", avail |-> 0, owner |-> NoWorker,
          token |-> NoToken, expires |-> None, window |-> None, cycle |-> 0,
          policy |-> NoPolicy, terminal |-> {}]

\* enqueue_outbox: a fresh job with no lease, no cycle and no policy yet.
QueuedJob(avail) == [NoJob EXCEPT !.status = "queued", !.avail = avail]

Unleased(j) == [j EXCEPT !.owner = NoWorker, !.token = NoToken, !.expires = None]

\* A worker that holds no job, between two steps of its run.
NotHolding(pc, now, left) ==
  [pc |-> pc, now |-> now, left |-> left, r |-> NoReminder, token |-> NoToken,
   window |-> None, cycle |-> 0, policy |-> NoPolicy, terminal |-> {},
   todo |-> {}, ch |-> "telegram", num |-> 0, outcome |-> [c \in Channels |-> "none"],
   ordinal |-> [c \in Channels |-> 0], version |-> 0, verdict |-> "none",
   retryAt |-> None]

Init ==
  /\ clock = 0
  /\ rem = [r \in Reminders |-> [status |-> "absent", due |-> 0,
              dstate |-> "not_due", next |-> None, version |-> 0]]
  /\ job = [r \in Reminders |-> NoJob]
  /\ attempts = {}
  /\ wk = [w \in Workers |-> NotHolding("idle", None, 0)]
  /\ accepted = [r \in Reminders |-> [c \in Channels |-> 0]]
  /\ unheard = [r \in Reminders |-> [c \in Channels |-> 0]]
  /\ lostLeases = [r \in Reminders |-> 0]
  /\ edits = 0
  /\ faults = 0

-----------------------------------------------------------------------------
(* Questions the code asks of the database.                                *)

\* Mistake: the status is not looked at.
DueAndActiveMistake(x, now) == x.due <= now /\ x.dstate \notin Settled

\* _is_due_and_active, with the time of the worker's run.
DueAndActive(x, now) ==
  x.status \in OpenStatus /\ x.due <= now /\ x.dstate \notin Settled

\* Mistake: only the current cycle is searched.
SucceededInCycle(r, c) ==
  \E a \in attempts : /\ a.rem = r /\ a.ch = c /\ a.status = "succeeded"
                      /\ a.cycle = job[r].cycle

\* has_successful_delivery_attempt: in any cycle.
Succeeded(r, c) ==
  \E a \in attempts : a.rem = r /\ a.ch = c /\ a.status = "succeeded"

\* count_delivery_attempts: rows of one channel in one delivery cycle.
AttemptCount(r, c, cycle) ==
  IF cycle = 0 THEN 0
  ELSE Cardinality({a \in attempts : a.rem = r /\ a.ch = c /\ a.cycle = cycle})

\* Mistake: the lease is not compared.
HasJob(w) == wk[w].r \in Reminders /\ job[wk[w].r].status # "absent"

\* The WHERE clause that makes a write of worker w on its job count.
HoldsLease(w) ==
  LET j == job[wk[w].r] IN
    /\ wk[w].r \in Reminders
    /\ j.status = "leased" /\ j.owner = w /\ j.token = wk[w].token

Goto(w, pc) == wk' = [wk EXCEPT ![w].pc = pc]
\* The run continues with its next job, or with its next iteration.
NextJob(w) == wk' = [wk EXCEPT ![w] = NotHolding("claim", @.now, @.left)]
AbortRun(w) == wk' = [wk EXCEPT ![w] = NotHolding("idle", @.now, 0)]

-----------------------------------------------------------------------------
(* _channel_plan.  A legacy policy requires Telegram and may try the phone *)
(* as well; otherwise the spoken channel and every selected phone channel  *)
(* are required.  A forced channel fails for good without a provider call. *)

RequiredChannels(p) == IF p.legacy THEN {"telegram"} ELSE {p.spoken} \cup p.phones
OptionalChannels(p) ==
  IF p.legacy /\ p.mobile /\ "mobile" \in Transports THEN {"iphone"} ELSE {}
ForcedChannels(p) ==
  IF p.legacy THEN IF p.telegram THEN {} ELSE {"telegram"}
  ELSE ({p.spoken} \ Transports)
       \cup (IF "mobile" \in Transports THEN {} ELSE {"home_assistant"})

-----------------------------------------------------------------------------
(* Requests.  Each is one transaction; the version in If-Match is the      *)
(* current one (any other request is refused and changes nothing).         *)

MayEdit(kind) == kind \in Edits /\ edits < MaxEdits /\ clock <= LastTrouble
CountEdit == edits' = edits + 1

Tick ==
  /\ clock < MaxTime
  /\ clock' = clock + 1
  /\ UNCHANGED <<rem, job, attempts, wk, history, edits, faults>>

CreatedReminder(due) == [status |-> "pending", due |-> due, dstate |-> "not_due",
                         next |-> None, version |-> 1]

\* The reminder, its audit row and its outbox job are inserted together.
CreateReminder(r, due) ==
  /\ rem[r].status = "absent" /\ clock <= LastTrouble
  /\ rem' = [rem EXCEPT ![r] = CreatedReminder(due)]
  /\ job' = [job EXCEPT ![r] = QueuedJob(due)]
  /\ UNCHANGED <<clock, attempts, wk, history, edits, faults>>

\* A pending reminder of the JSON store is imported without a job.
ImportReminder(r, due) ==
  /\ MayEdit("import") /\ CountEdit
  /\ rem[r].status = "absent"
  /\ rem' = [rem EXCEPT ![r] = CreatedReminder(due)]
  /\ UNCHANGED <<clock, job, attempts, wk, history, faults>>

\* Mistake: a job that is being worked on is left alone.
CancelQueuedOnly(j) ==
  IF j.status = "queued" THEN [j EXCEPT !.status = "cancelled"] ELSE j

\* cancel_reminder_outbox.
CancelledJob(j) ==
  IF j.status \in {"queued", "leased"}
  THEN [Unleased(j) EXCEPT !.status = "cancelled"] ELSE j

\* patch_reminder refuses only deleted (cancelled) reminders.  A new due time
\* leaves status, delivery state and next attempt as they are, and the outbox
\* job too: only the job of a closed reminder is cancelled (once more).
PatchReminder(r, due) ==
  /\ MayEdit("patch") /\ CountEdit
  /\ rem[r].status \notin {"absent", "cancelled"}
  /\ rem' = [rem EXCEPT ![r].due = due, ![r].version = @ + 1]
  /\ job' = IF rem[r].status \in ClosedStatus
            THEN [job EXCEPT ![r] = CancelledJob(@)] ELSE job
  /\ UNCHANGED <<clock, attempts, wk, history, faults>>

\* complete_reminder and cancel_reminder also cancel the queued or leased job.
CloseReminder(r, status) ==
  /\ MayEdit(IF status = "completed" THEN "complete" ELSE "cancel") /\ CountEdit
  /\ rem[r].status \notin {"absent", "cancelled"}
  /\ rem' = [rem EXCEPT ![r].status = status, ![r].version = @ + 1]
  /\ job' = [job EXCEPT ![r] = CancelledJob(@)]
  /\ UNCHANGED <<clock, attempts, wk, history, faults>>

RequeuedReminder(x) ==
  [x EXCEPT !.status = "due", !.dstate = "queued", !.next = None, !.version = @ + 1]

\* Mistake: a delivered reminder may be retried too.
RetrySettled(r) ==
  /\ MayEdit("retry") /\ CountEdit
  /\ rem[r].status \in OpenStatus /\ rem[r].dstate \in Settled
  /\ rem' = [rem EXCEPT ![r] = RequeuedReminder(@)]
  /\ job' = [job EXCEPT ![r] = QueuedJob(clock)]
  /\ UNCHANGED <<clock, attempts, wk, history, faults>>

\* manual_retry_reminder: a new cycle with a new policy for a failed reminder.
ManualRetry(r) ==
  /\ MayEdit("retry") /\ CountEdit
  /\ rem[r].status \in OpenStatus /\ rem[r].dstate = "failed"
  /\ ~ (job[r].status = "leased" /\ job[r].expires > clock)
  /\ rem' = [rem EXCEPT ![r] = RequeuedReminder(@)]
  /\ job' = [job EXCEPT ![r] = QueuedJob(clock)]
  /\ UNCHANGED <<clock, attempts, wk, history, faults>>

\* The legacy scheduler on top of the planning store: mark_fired writes the
\* delivery state and leaves the status and the outbox alone.  Only one of the
\* two schedulers is configured, so this happens while no worker exists.
MarkFired(r) ==
  /\ MayEdit("fire") /\ CountEdit
  /\ \A w \in Workers : wk[w].now = None
  /\ rem[r].status \in OpenStatus /\ rem[r].dstate # "delivered"
  /\ rem[r].due <= clock
  /\ rem' = [rem EXCEPT ![r].dstate = "delivered", ![r].version = @ + 1]
  /\ UNCHANGED <<clock, job, attempts, wk, history, faults>>


-----------------------------------------------------------------------------
(* _reconcile, one transaction over all open reminders.                    *)

\* Mistake: the promotion of a pending reminder leaves its version.
PromotedReminder(x, now) ==
  IF x.status = "pending" /\ x.due <= now
  THEN [x EXCEPT !.status = "due", !.dstate = IF @ = "not_due" THEN "queued" ELSE @]
  ELSE x

ReconciledReminder(x, now) ==
  CASE x.status = "pending" /\ x.due <= now ->
         [x EXCEPT !.status = "due", !.version = @ + 1,
                   !.dstate = IF @ = "not_due" THEN "queued" ELSE @]
    [] x.status = "due" /\ x.dstate = "not_due" ->
         [x EXCEPT !.dstate = "queued", !.version = @ + 1]
    [] OTHER -> x

JobStatusOf(dstate) == IF dstate = "delivered" THEN "succeeded" ELSE "failed"

\* _reconcile_terminal_job: the job of a settled reminder follows it.
TerminalJob(x, j, now) ==
  IF j.status = JobStatusOf(x.dstate) THEN j
  ELSE [Unleased(j) EXCEPT !.status = JobStatusOf(x.dstate),
                           !.avail = IF j.status = "absent" THEN now ELSE @]

AvailableAt(x, now) ==
  CASE x.next # None -> x.next
    [] x.next = None /\ x.dstate = "not_due" -> x.due
    [] OTHER -> now

\* Mistake: only its holder ends a lease.
NoLeaseExpires(j, now) == FALSE

ExpiredLease(j, now) == j.status = "leased" /\ j.expires <= now

\* A missing job is created; a cancelled one starts over, keeping its payload
\* (policy and terminal channels); an expired lease and a finished job of an
\* open reminder are queued again; a queued job is left as it is.
ReconciledJob(x, j, now) ==
  LET queued == [Unleased(j) EXCEPT !.status = "queued", !.avail = AvailableAt(x, now)]
  IN CASE x.dstate \in Settled -> TerminalJob(x, j, now)
       [] x.dstate \notin Settled /\ j.status = "absent" -> QueuedJob(AvailableAt(x, now))
       [] x.dstate \notin Settled /\ j.status = "cancelled" ->
            [queued EXCEPT !.window = None, !.cycle = 0]
       [] x.dstate \notin Settled /\ j.status \in {"succeeded", "failed"} -> queued
       [] x.dstate \notin Settled /\ ExpiredLease(j, now) -> queued
       [] OTHER -> j

\* An iteration of run_forever.  The worker slept since its last one, or has
\* just been started; the whole run uses the time read here.
StartRun(w) ==
  LET open(r) == rem[r].status \in OpenStatus
      seen(r) == ReconciledReminder(rem[r], clock)
  IN /\ wk[w].pc = "idle" /\ wk[w].now < clock
     /\ rem' = [r \in Reminders |-> IF open(r) THEN seen(r) ELSE rem[r]]
     /\ job' = [r \in Reminders |->
                  IF open(r) THEN ReconciledJob(seen(r), job[r], clock) ELSE job[r]]
     /\ lostLeases' = [r \in Reminders |->
                        IF open(r) /\ ExpiredLease(job[r], clock)
                        THEN lostLeases[r] + 1 ELSE lostLeases[r]]
     /\ wk' = [wk EXCEPT ![w] = NotHolding("claim", clock, Batch)]
     /\ UNCHANGED <<clock, attempts, accepted, unheard, edits, faults>>

-----------------------------------------------------------------------------
(* claim_outbox: the job that became available first, under a fresh token. *)

Claimable(r, now) ==
  /\ rem[r].status \in OpenStatus
  /\ rem[r].dstate \notin Settled
  /\ \/ job[r].status = "queued" /\ job[r].avail <= now
     \/ ExpiredLease(job[r], now)

Unused(t) == /\ \A r \in Reminders : job[r].token # t
             /\ \A w \in Workers : wk[w].token # t

ClaimJob(w, r) ==
  LET now == wk[w].now IN
  /\ wk[w].pc = "claim" /\ wk[w].left > 0
  /\ Claimable(r, now)
  /\ \A q \in Reminders : Claimable(q, now) => job[r].avail <= job[q].avail
  /\ \E t \in Tokens :
       /\ Unused(t)
       /\ job' = [job EXCEPT ![r] = [@ EXCEPT !.status = "leased", !.owner = w,
                                       !.token = t, !.expires = now + Lease]]
       /\ wk' = [wk EXCEPT ![w] =
                   [NotHolding("load", now, wk[w].left - 1) EXCEPT
                      !.r = r, !.token = t, !.window = job[r].window,
                      !.cycle = job[r].cycle, !.policy = job[r].policy,
                      !.terminal = job[r].terminal]]
  /\ lostLeases' = IF ExpiredLease(job[r], now)
                  THEN [lostLeases EXCEPT ![r] = @ + 1] ELSE lostLeases
  /\ UNCHANGED <<clock, rem, attempts, accepted, unheard, edits, faults>>

\* Nothing to claim, or the batch is used up: the run ends.
EndRun(w) ==
  /\ wk[w].pc = "claim"
  /\ wk[w].left = 0 \/ \A r \in Reminders : ~ Claimable(r, wk[w].now)
  /\ AbortRun(w)
  /\ UNCHANGED <<clock, rem, job, attempts, history, edits, faults>>

-----------------------------------------------------------------------------
(* _process_job.                                                           *)

\* What a worker that finds its reminder settled, closed or not due does next.
SuppressAs(x) == IF x.dstate \in Settled THEN x.dstate ELSE "cancelled"

LoadReminder(w) ==
  LET s == wk[w]
      x == rem[s.r]
      next == IF s.policy = NoPolicy THEN "settings" ELSE "plan"
  IN
  /\ s.pc = "load"
  /\ wk' = [wk EXCEPT ![w] =
       IF DueAndActive(x, s.now)
       THEN [@ EXCEPT !.version = x.version, !.pc = next]
       ELSE [@ EXCEPT !.pc = "suppress", !.verdict = SuppressAs(x)]]
  /\ UNCHANGED <<clock, rem, job, attempts, history, edits, faults>>

\* The settings are read across an await, then written under the lease.
SnapshotPolicy(w) ==
  /\ wk[w].pc = "settings"
  /\ IF HoldsLease(w)
     THEN \E p \in Settings :
            LET j == job[wk[w].r]
                kept == IF j.policy = NoPolicy THEN p ELSE j.policy
            IN /\ job' = [job EXCEPT ![wk[w].r].policy = kept]
               /\ wk' = [wk EXCEPT ![w] = [@ EXCEPT !.pc = "plan", !.policy = kept,
                            !.window = j.window, !.cycle = j.cycle,
                            !.terminal = j.terminal]]
     ELSE AbortRun(w) /\ UNCHANGED job
  /\ UNCHANGED <<clock, rem, attempts, history, edits, faults>>

\* The settings provider raises: the exception ends the run, the lease stays.
SettingsFailure(w) ==
  /\ faults < MaxFaults /\ faults' = faults + 1
  /\ wk[w].pc = "settings"
  /\ AbortRun(w)
  /\ UNCHANGED <<clock, rem, job, attempts, history, edits>>

\* Mistake: the last moment of the window is one too late.
WindowPassed(s) == s.window # None /\ s.now > s.window + Window

WindowOver(s) == s.window # None /\ s.now >= s.window + Window

\* The channels still to try: not yet successful, not known to fail for good.
\* An exhausted window or a channel at its cap fails the reminder at once.
PlanChannels(w) ==
  LET s == wk[w]
      pending == {c \in RequiredChannels(s.policy) \cup OptionalChannels(s.policy) :
                    ~ Succeeded(s.r, c) /\ c \notin s.terminal}
      exhausted == \/ WindowOver(s)
                   \/ \E c \in pending : AttemptCount(s.r, c, s.cycle) >= MaxAttempts
  IN /\ s.pc = "plan"
     /\ wk' = [wk EXCEPT ![w] =
          IF exhausted THEN [@ EXCEPT !.pc = "commit", !.verdict = "failed"]
                       ELSE [@ EXCEPT !.pc = "loop", !.todo = pending]]
     /\ UNCHANGED <<clock, rem, job, attempts, history, edits, faults>>

\* start_delivery_attempt writes the attempt row, in the job's current cycle;
\* the first attempt of a cycle also opens the cycle and its retry window.
BeginAttempt(w, c) ==
  LET s == wk[w]
      rows == {a \in attempts : a.rem = s.r}
      cycle == IF job[s.r].cycle # 0 THEN job[s.r].cycle
               ELSE Cardinality({a.cycle : a \in rows}) + 1
      num == Cardinality({a \in rows : a.ch = c}) + 1
  IN /\ s.pc = "loop" /\ c \in s.todo
     /\ \A d \in s.todo : Rank[c] <= Rank[d]
     /\ DueAndActive(rem[s.r], s.now)
     /\ attempts' = attempts \cup {[rem |-> s.r, ch |-> c, num |-> num,
                      cycle |-> cycle, status |-> "started", at |-> s.now]}
     /\ job' = IF job[s.r].cycle # 0 THEN job
               ELSE [job EXCEPT ![s.r].cycle = cycle, ![s.r].window = s.now]
     /\ wk' = [wk EXCEPT ![w] = [@ EXCEPT !.pc = "recheck", !.todo = s.todo \ {c},
                  !.ch = c, !.num = num,
                  !.ordinal[c] = AttemptCount(s.r, c, cycle) + 1]]
     /\ UNCHANGED <<clock, rem, history, edits, faults>>

\* Before the next channel, and after the last one, the reminder is re-read.
StopInLoop(w) ==
  LET x == rem[wk[w].r] IN
  /\ wk[w].pc = "loop"
  /\ ~ DueAndActive(x, wk[w].now)
  /\ wk' = [wk EXCEPT ![w].pc = "suppress", ![w].verdict = SuppressAs(x)]
  /\ UNCHANGED <<clock, rem, job, attempts, history, edits, faults>>

\* finish_delivery_attempt: not guarded by the lease.
Finished(w, status) ==
  LET s == wk[w] IN
  {IF a.rem = s.r /\ a.ch = s.ch /\ a.num = s.num /\ a.status = "started"
   THEN [a EXCEPT !.status = status] ELSE a : a \in attempts}

\* The last look at the reminder before the provider is called.
Recheck(w) ==
  LET s == wk[w]
      x == rem[s.r]
  IN /\ s.pc = "recheck"
     /\ IF ~ DueAndActive(x, s.now)
        THEN /\ wk' = [wk EXCEPT ![w] = [@ EXCEPT !.pc = "suppressAttempt",
                          !.outcome[s.ch] = "suppressed", !.verdict = SuppressAs(x)]]
             /\ attempts' = Finished(w, "failed")
        ELSE /\ wk' = [wk EXCEPT ![w] =
                  IF s.ch \in ForcedChannels(s.policy)
                  THEN [@ EXCEPT !.pc = "finish", !.outcome[s.ch] = "permanent"]
                  ELSE [@ EXCEPT !.pc = "sending"]]
             /\ UNCHANGED attempts
     /\ UNCHANGED <<clock, rem, job, history, edits, faults>>

\* The provider takes the message, and the bot does not hear so: the call times
\* out or brings no receipt, the client of Home Assistant repeats its request
\* under the call, or the process dies before the answer.  A message that is
\* taken when nobody waits any more counts from the call that sent it.
AnswerLost(w) ==
  LET s == wk[w] IN
  /\ faults < MaxFaults /\ faults' = faults + 1
  /\ s.pc = "sending"
  /\ accepted' = [accepted EXCEPT ![s.r][s.ch] = @ + 1]
  /\ unheard' = [unheard EXCEPT ![s.r][s.ch] = @ + 1]
  /\ UNCHANGED <<clock, rem, job, attempts, wk, lostLeases, edits>>

\* The call ends, however long that took.  What is not a success may have
\* followed a lost answer.
ProviderAnswers(w, kind) ==
  /\ wk[w].pc = "sending"
  /\ wk' = [wk EXCEPT ![w] = [@ EXCEPT !.pc = "finish", !.outcome[wk[w].ch] = kind]]
  /\ accepted' = IF kind = "success"
                 THEN [accepted EXCEPT ![wk[w].r][wk[w].ch] = @ + 1] ELSE accepted
  /\ UNCHANGED <<clock, rem, job, attempts, unheard, lostLeases, edits, faults>>

\* Mistake: an attempt that is not worth a retry is taken for a success.
FinishUnlessRetryable(w) ==
  LET kind == wk[w].outcome[wk[w].ch] IN
  /\ wk[w].pc = "finish"
  /\ attempts' = Finished(w, IF kind = "retryable" THEN "failed" ELSE "succeeded")
  /\ Goto(w, "loop")
  /\ UNCHANGED <<clock, rem, job, history, edits, faults>>

FinishAttempt(w) ==
  LET kind == wk[w].outcome[wk[w].ch] IN
  /\ wk[w].pc = "finish"
  /\ attempts' = Finished(w, IF kind = "success" THEN "succeeded" ELSE "failed")
  /\ Goto(w, IF kind = "permanent" THEN "record" ELSE "loop")
  /\ UNCHANGED <<clock, rem, job, history, edits, faults>>

\* record_outbox_terminal_channel: a lost lease ends the run.
RecordTerminal(w) ==
  LET s == wk[w]
      terminal == job[s.r].terminal \cup {s.ch}
  IN /\ s.pc = "record"
     /\ IF HoldsLease(w)
        THEN /\ job' = [job EXCEPT ![s.r].terminal = terminal]
             /\ wk' = [wk EXCEPT ![w] = [@ EXCEPT !.pc = "loop",
                          !.terminal = s.terminal \cup {s.ch},
                          !.window = job[s.r].window, !.cycle = job[s.r].cycle]]
        ELSE AbortRun(w) /\ UNCHANGED job
     /\ UNCHANGED <<clock, rem, attempts, history, edits, faults>>

\* _next_retry_at for the first required channel worth a retry.
RetryTimes(s, c) ==
  LET start == IF s.window = None THEN s.now ELSE s.window IN
  IF s.ordinal[c] \notin 1..(MaxAttempts - 1) THEN {None}
  ELSE {IF s.now + d >= start + Window THEN None ELSE s.now + d :
          d \in RetryDelay[s.ordinal[c]]}

\* Every channel was tried: delivered, retried later, or failed.
Evaluate(w) ==
  LET s == wk[w]
      x == rem[s.r]
      missing == {c \in RequiredChannels(s.policy) : ~ Succeeded(s.r, c)}
      retryable == {c \in missing : c \notin s.terminal /\ s.outcome[c] = "retryable"}
      first == CHOOSE c \in retryable : \A d \in retryable : Rank[c] <= Rank[d]
      decide(verdict, at) == wk' = [wk EXCEPT ![w] = [@ EXCEPT !.pc = "commit",
                               !.version = x.version, !.verdict = verdict, !.retryAt = at]]
  IN /\ s.pc = "loop" /\ s.todo = {}
     /\ DueAndActive(x, s.now)
     /\ \/ missing = {} /\ decide("delivered", None)
        \/ /\ retryable # {}
           /\ \E at \in RetryTimes(s, first) :
                decide(IF at = None THEN "failed" ELSE "retrying", at)
        \/ missing # {} /\ retryable = {} /\ decide("failed", None)
     /\ UNCHANGED <<clock, rem, job, attempts, history, edits, faults>>

CommittedReminder(x, verdict, at) ==
  [x EXCEPT !.status = "due", !.dstate = verdict, !.version = @ + 1, !.next = at]

CommittedJob(j, verdict, at) ==
  IF verdict = "retrying"
  THEN [Unleased(j) EXCEPT !.status = "queued", !.avail = at]
  ELSE [Unleased(j) EXCEPT !.status = JobStatusOf(verdict)]

\* commit_reminder_delivery: reminder and job change together, if the reminder
\* is still open at the version the worker read and the worker has its lease.
Commit(w) ==
  LET s == wk[w]
      x == rem[s.r]
  IN /\ s.pc = "commit"
     /\ \/ /\ x.status \in ClosedStatus
           /\ job' = IF HoldsLease(w)
                     THEN [job EXCEPT ![s.r] = [Unleased(@) EXCEPT !.status = "cancelled"]]
                     ELSE job
           /\ UNCHANGED rem
        \/ /\ x.status \notin ClosedStatus
           /\ x.version # s.version \/ ~ HoldsLease(w)
           /\ UNCHANGED <<rem, job>>
        \/ /\ x.status \notin ClosedStatus
           /\ x.version = s.version /\ HoldsLease(w)
           /\ rem' = [rem EXCEPT ![s.r] = CommittedReminder(@, s.verdict, s.retryAt)]
           /\ job' = [job EXCEPT ![s.r] = CommittedJob(@, s.verdict, s.retryAt)]
     /\ NextJob(w)
     /\ UNCHANGED <<clock, attempts, history, edits, faults>>

\* _suppress_job, then the next job; inside _attempt_channel, the next channel.
Suppress(w) ==
  LET s == wk[w] IN
  /\ s.pc \in {"suppress", "suppressAttempt"}
  /\ job' = IF HoldsLease(w)
            THEN [job EXCEPT ![s.r] = [Unleased(@) EXCEPT !.status =
                    IF s.verdict = "cancelled" THEN "cancelled" ELSE JobStatusOf(s.verdict)]]
            ELSE job
  /\ IF s.pc = "suppress" THEN NextJob(w) ELSE Goto(w, "loop")
  /\ lostLeases' = IF s.pc = "suppressAttempt" /\ HoldsLease(w)
                   THEN [lostLeases EXCEPT ![s.r] = @ + 1] ELSE lostLeases
  /\ UNCHANGED <<clock, rem, attempts, accepted, unheard, edits, faults>>

\* The process dies, or its task is cancelled; it may start again at once.
Crash(w) ==
  /\ faults < MaxFaults /\ clock <= LastTrouble
  /\ wk[w].pc # "idle"
  /\ wk' = [wk EXCEPT ![w] = NotHolding("idle", None, 0)]
  /\ faults' = faults + 1
  /\ UNCHANGED <<clock, rem, job, attempts, history, edits>>

-----------------------------------------------------------------------------
WorkerStep(w) ==
  \/ StartRun(w) \/ EndRun(w) \/ LoadReminder(w)
  \/ \E r \in Reminders : ClaimJob(w, r)
  \/ SnapshotPolicy(w) \/ SettingsFailure(w) \/ PlanChannels(w)
  \/ \E c \in Channels : BeginAttempt(w, c)
  \/ StopInLoop(w) \/ Recheck(w) \/ AnswerLost(w)
  \/ \E kind \in {"success", "retryable", "permanent"} : ProviderAnswers(w, kind)
  \/ FinishAttempt(w) \/ RecordTerminal(w) \/ Evaluate(w) \/ Commit(w) \/ Suppress(w)

Request ==
  \E r \in Reminders :
    \/ \E due \in Dues : CreateReminder(r, due) \/ ImportReminder(r, due)
                               \/ PatchReminder(r, due)
    \/ \E status \in ClosedStatus : CloseReminder(r, status)
    \/ ManualRetry(r) \/ MarkFired(r)

Next == Tick \/ Request \/ \E w \in Workers : WorkerStep(w) \/ Crash(w)

Spec == Init /\ [][Next]_vars


-----------------------------------------------------------------------------
(* Properties.                                                             *)

TypeOK ==
  /\ clock \in Nat /\ edits \in Nat /\ faults \in Nat
  /\ rem \in [Reminders -> ReminderRow]
  /\ job \in [Reminders -> JobRow]
  /\ attempts \subseteq AttemptRow /\ IsFiniteSet(attempts)
  /\ wk \in [Workers -> WorkerState]
  /\ accepted \in [Reminders -> [Channels -> Nat]]
  /\ unheard \in [Reminders -> [Channels -> Nat]]
  /\ lostLeases \in [Reminders -> Nat]

\* A completed or cancelled reminder never has a job that a worker could
\* still claim or commit (update_reminder, commit_reminder_delivery).
ClosedIsSuppressed ==
  \A r \in Reminders :
    rem[r].status \in ClosedStatus => job[r].status \notin {"queued", "leased"}

\* Reminder and job settle together: whatever order workers, faults and
\* requests come in, a reminder is delivered (failed) exactly when its job
\* succeeded (failed), so the repairs of _reconcile are never needed.
SettledTogether ==
  \A r \in Reminders :
    /\ rem[r].dstate = "delivered" <=> job[r].status = "succeeded"
    /\ rem[r].dstate = "failed" <=> job[r].status = "failed"

\* A reminder becomes delivered only if the provider of every channel its
\* policy requires has accepted it; an optional channel is no substitute.
DeliveredWasAccepted ==
  \A r \in Reminders : rem[r].dstate = "delivered" =>
    /\ job[r].policy # NoPolicy
    /\ \A c \in RequiredChannels(job[r].policy) : accepted[r][c] > 0

\* Each message of a reminder that a channel takes beyond the first is owed to
\* a loss: an answer that did not arrive, or a lease that ended under a holder
\* still at work -- it expired (the at-least-once window of the docs), or
\* _attempt_channel gave it up and the channel loop went on.
DuplicatesNeedLoss ==
  \A r \in Reminders, c \in Channels :
    accepted[r][c] <= 1 + unheard[r][c] + lostLeases[r]

\* In one delivery cycle a channel is tried at most MaxAttempts times, plus
\* once for every holder that lost its lease while about to try.
BudgetPerCycle ==
  \A r \in Reminders, c \in Channels :
    Cardinality({a \in attempts : a.rem = r /\ a.ch = c /\ a.cycle = job[r].cycle})
      <= MaxAttempts + lostLeases[r]

\* No attempt of a cycle starts when its retry window is over. This is for one
\* scheduler, as the program runs it: of two, one that was held up opens the
\* window at the time its own run read, which the other has passed.
WindowPerCycle ==
  \A a \in attempts :
    a.cycle = job[a.rem].cycle =>
      job[a.rem].window # None /\ a.at < job[a.rem].window + Window

\* The two caps of a delivery cycle, whatever begins, ends or interrupts it.
CapsPerCycle == BudgetPerCycle /\ WindowPerCycle

InCall(r) == \E w \in Workers : wk[w].pc = "sending" /\ wk[w].r = r

\* Once a reminder is closed or delivered (by this scheduler or, before a
\* restart, by the legacy one) and no provider call is under way, none is ever
\* made again, whatever the workers had already read.
StopIsSilent ==
  [][\A r \in Reminders :
       /\ rem[r].status \in ClosedStatus \/ rem[r].dstate = "delivered"
       /\ ~ InCall(r)
       => accepted'[r] = accepted[r] /\ ~ InCall(r)']_vars

\* A delivered reminder stays delivered, and a failed one is taken up again
\* only by an operator's retry, under a new cycle and policy.
SettledIsFinal ==
  [][\A r \in Reminders :
       /\ rem[r].dstate = "delivered" => rem'[r].dstate = "delivered"
       /\ rem[r].dstate = "failed" /\ rem'[r].dstate # "failed" =>
            job'[r] = QueuedJob(clock) /\ rem'[r].dstate = "queued"]_vars

\* Every change of a reminder is visible in its version, by one.
ChangesAreVersioned ==
  [][\A r \in Reminders : rem'[r] # rem[r] => rem'[r].version = rem[r].version + 1]_vars

=============================================================================
